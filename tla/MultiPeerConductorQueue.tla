------------------------ MODULE MultiPeerConductorQueue ------------------------
(***************************************************************************)
(* Proofs about the message queue of MultiPeerConductor, for all values of *)
(* its constants.                                                          *)
(***************************************************************************)
EXTENDS MultiPeerConductorProofs

USE DEF session, slots, queue, sending

Messages == 1..MaxWritten

LEMMA SequenceTypes ==
  ASSUME TypeOK
  PROVE  /\ message_queue_ \in Seq(Messages)
         /\ carried \in Seq(Messages)
         /\ received \in Seq(Messages)
         /\ written \in Nat /\ posted \in Nat
BY ConfigurationAssumption DEF TypeOK, Messages

\* The steps by what they do to the queue and to what is sent.
Keeps == UNCHANGED <<queue, sending>>
Writes == \E p \in Ids : Write(p)
Delivers == (OnDisconnected \/ RequestDone) /\ (Arrives(carried) \/ Vanishes) /\ UNCHANGED queue

LEMMA QueueSteps ==
  ASSUME [Next]_vars
  PROVE  Keeps \/ Writes \/ Delivers \/ Pump
<1>1. ASSUME NEW p \in Ids,
             \/ OnPeerConnected(p) \/ OnPeerDisconnected(p) \/ OnMessageFromPeer(p)
             \/ ConnectToPeer(p)
             \/ \E new_state \in IceStates : OnIceConnectionChange(p, new_state)
      PROVE  Keeps
  BY <1>1 DEF Keeps, OnPeerConnected, OnPeerDisconnected, OnMessageFromPeer, ConnectToPeer,
              OnIceConnectionChange
<1>2. CASE \/ StartLogin \/ SignInSent \/ OnSignedIn \/ SignedInWithoutId
           \/ OnServerConnectionFailure \/ Close \/ CapacityPublished \/ CapacityAnswered
           \/ UNCHANGED vars
  BY <1>2 DEF Keeps, StartLogin, SignInSent, OnSignedIn, SignedInWithoutId,
              OnServerConnectionFailure, Close, CapacityPublished, CapacityAnswered, vars
<1>3. CASE OnDisconnected \/ RequestDone
  BY <1>3 DEF Delivers, OnDisconnected, RequestDone
<1>4. QED
  BY <1>1, <1>2, <1>3 DEF Next, Writes

-----------------------------------------------------------------------------
(* The pump *)

LEMMA DrainsNext ==
  ASSUME DrainsWhenOn, [Next]_vars
  PROVE  DrainsWhenOn'
<1>1. CASE OnSignedIn
  BY <1>1 DEF OnSignedIn, DrainsWhenOn
<1>2. CASE phase' # "on"
  BY <1>2 DEF DrainsWhenOn
<1>3. CASE UNCHANGED <<phase, should_process_queue_>>
  BY <1>3 DEF DrainsWhenOn
<1>4. ASSUME NEW p \in Ids,
             \/ OnPeerConnected(p) \/ OnPeerDisconnected(p) \/ OnMessageFromPeer(p)
             \/ ConnectToPeer(p) \/ Write(p)
             \/ \E new_state \in IceStates : OnIceConnectionChange(p, new_state)
      PROVE  DrainsWhenOn'
  BY <1>3, <1>4 DEF OnPeerConnected, OnPeerDisconnected, OnMessageFromPeer, ConnectToPeer, Write,
              OnIceConnectionChange, Came, Left
<1>5. CASE \/ StartLogin \/ SignInSent \/ SignedInWithoutId \/ OnDisconnected
           \/ OnServerConnectionFailure
  BY <1>2, <1>5 DEF StartLogin, SignInSent, SignedInWithoutId, OnDisconnected,
              OnServerConnectionFailure, Join, Resolved, Unresolved, End
<1>6. CASE Pump
  BY <1>2, <1>3, <1>6 DEF Pump, SendSucceeds, SendFails, Send, End
<1>7. CASE Close \/ RequestDone \/ CapacityPublished \/ CapacityAnswered \/ UNCHANGED vars
  BY <1>3, <1>7 DEF Close, RequestDone, Answered, CapacityPublished, CapacitySent,
              CapacityAnswered, CapacityDone, vars
<1>8. QED
  BY <1>1, <1>4, <1>5, <1>6, <1>7 DEF Next

\* A conductor that is signed in drains its queue, whatever should_process_queue_
\* was before the constructor's caller connected (multi_peer_conductor.cpp:118-130).
THEOREM SignedInDrains == Spec => []DrainsWhenOn
<1>1. Init => DrainsWhenOn
  BY DEF Init, SessionInit, DrainsWhenOn
<1>2. DrainsWhenOn /\ [Next]_vars => DrainsWhenOn'
  BY DrainsNext
<1>3. QED
  BY <1>1, <1>2, PTL DEF Spec

\* What a delivered message leaves posted.
LEMMA PumpPosts ==
  ASSUME TypeOK, Pump, should_process_queue_, message_queue_ # <<>>
  PROVE  message_queue_' = <<>> \/ (posted' = posted /\ posted > 0)
<1>1. posted > 0 /\ Repost
  BY DEF Pump
<1>2. posted - 1 + 1 = posted
  BY DEF TypeOK
<1>3. QED
  BY <1>1, <1>2 DEF Repost

LEMMA PumpKeptStep ==
  ASSUME TypeOK, [Next]_vars, posted > 0, should_process_queue_, message_queue_ # <<>>
  PROVE  posted' > 0 \/ message_queue_' = <<>> \/ ~should_process_queue_'
<1>1. CASE Keeps \/ Delivers
  BY <1>1 DEF Keeps, Delivers
<1>2. CASE Writes
  BY <1>2, SequenceTypes DEF Writes, Write
<1>3. CASE Pump
  BY <1>3, PumpPosts
<1>4. QED
  BY <1>1, <1>2, <1>3, QueueSteps

\* The chain of posted messages never ends while there is something to send: a
\* SendToPeer that fails, also because the session breaks, does not stop it
\* (multi_peer_conductor.cpp:166-185).
THEOREM PumpIsKept == Spec => PumpKept
<1>1. TypeOK /\ [Next]_vars =>
        (posted > 0 /\ should_process_queue_ /\ message_queue_ # <<>>
         => posted' > 0 \/ message_queue_' = <<>> \/ ~should_process_queue_')
  BY PumpKeptStep
<1>2. QED
  BY <1>1, TypeCorrect, PTL DEF Spec, PumpKept

\* In a session that does not end nothing is known or written before the sign-in.
NothingBefore ==
  /\ phase # "leaving"
  /\ phase \in {"off", "joining"} =>
       /\ peers = {} /\ listed = {}
       /\ connected_peers_ = {} /\ describing = {} /\ message_queue_ = <<>>

LEMMA NothingBeforeNext ==
  ASSUME ~SessionEnds, TypeOK, NothingBefore, [Next]_vars
  PROVE  NothingBefore'
<1>1. CASE phase \in {"on", "anonymous"} /\ phase' = phase
  BY <1>1 DEF NothingBefore
<1>2. CASE phase' \in {"on", "anonymous"}
  BY <1>2 DEF NothingBefore
<1>3. CASE UNCHANGED <<phase, peers, listed, connected_peers_, describing, message_queue_>>
  BY <1>3 DEF NothingBefore
<1>4. CASE StartLogin \/ SignInSent
  BY <1>4 DEF StartLogin, SignInSent, Join, Resolved, NothingBefore
<1>5. CASE OnSignedIn \/ SignedInWithoutId
  BY <1>2, <1>5 DEF OnSignedIn, SignedInWithoutId
<1>6. ASSUME NEW p \in Ids,
             \/ OnPeerConnected(p) \/ OnPeerDisconnected(p) \/ OnMessageFromPeer(p)
             \/ ConnectToPeer(p) \/ Write(p)
             \/ \E new_state \in IceStates : OnIceConnectionChange(p, new_state)
      PROVE  NothingBefore'
  <2>1. phase' = phase
    BY <1>6 DEF OnPeerConnected, OnPeerDisconnected, OnMessageFromPeer, ConnectToPeer, Write,
                OnIceConnectionChange, Came, Left
  <2>2. CASE OnPeerConnected(p) \/ OnPeerDisconnected(p) \/ OnMessageFromPeer(p)
    BY <1>1, <2>1, <2>2 DEF OnPeerConnected, OnPeerDisconnected, OnMessageFromPeer, SignedOn, Came
  <2>3. CASE ConnectToPeer(p)
    BY <2>1, <2>3 DEF ConnectToPeer, Callable, NothingBefore
  <2>4. CASE Write(p)
    BY <2>1, <2>4 DEF Write, NothingBefore
  <2>5. CASE \E new_state \in IceStates : OnIceConnectionChange(p, new_state)
    BY <2>1, <2>5 DEF OnIceConnectionChange, NothingBefore
  <2>6. QED
    BY <1>6, <2>2, <2>3, <2>4, <2>5
<1>7. CASE Pump
  <2>1. message_queue_' # message_queue_ => message_queue_ # <<>>
    BY <1>7 DEF Pump
  <2>2. UNCHANGED <<phase, peers, listed, connected_peers_, describing>>
    BY <1>7 DEF Pump, SendSucceeds, SendFails, Send
  <2>3. QED
    BY <2>1, <2>2 DEF NothingBefore
<1>8. CASE RequestDone \/ CapacityPublished \/ CapacityAnswered \/ UNCHANGED vars
  BY <1>3, <1>8 DEF RequestDone, Answered, CapacityPublished, CapacitySent,
              CapacityAnswered, CapacityDone, vars
<1>9. QED
  BY <1>4, <1>5, <1>6, <1>7, <1>8 DEF Next, OnDisconnected, OnServerConnectionFailure, Close

LEMMA QueuePumpedNext ==
  ASSUME ~SessionEnds, TypeOK, NothingBefore, QueuePumped, [Next]_vars
  PROVE  QueuePumped'
<1>1. CASE OnSignedIn
  BY <1>1 DEF OnSignedIn, Joined, NothingBefore, QueuePumped
<1>2. CASE UNCHANGED <<should_process_queue_, queue>>
  BY <1>2 DEF QueuePumped
<1>3. CASE Writes
  BY <1>3, SequenceTypes DEF Writes, Write, QueuePumped
<1>4. CASE Pump
  <2>1. should_process_queue_' = should_process_queue_
    BY <1>4 DEF Pump
  <2>2. CASE should_process_queue_ /\ message_queue_ # <<>>
    BY <1>4, <2>2, PumpPosts DEF QueuePumped
  <2>3. CASE ~should_process_queue_ \/ message_queue_ = <<>>
    BY <1>4, <2>1, <2>3 DEF Pump, QueuePumped
  <2>4. QED
    BY <2>2, <2>3
<1>5. ASSUME NEW p \in Ids,
             \/ OnPeerConnected(p) \/ OnPeerDisconnected(p) \/ OnMessageFromPeer(p)
             \/ ConnectToPeer(p)
             \/ \E new_state \in IceStates : OnIceConnectionChange(p, new_state)
      PROVE  QueuePumped'
  BY <1>2, <1>5 DEF OnPeerConnected, OnPeerDisconnected, OnMessageFromPeer, ConnectToPeer,
              OnIceConnectionChange
<1>6. CASE \/ StartLogin \/ SignInSent \/ SignedInWithoutId \/ RequestDone
           \/ CapacityPublished \/ CapacityAnswered \/ UNCHANGED vars
  BY <1>2, <1>6 DEF StartLogin, SignInSent, SignedInWithoutId, RequestDone,
              CapacityPublished, CapacityAnswered, vars
<1>7. QED
  BY <1>1, <1>3, <1>4, <1>5, <1>6
     DEF Next, Writes, OnDisconnected, OnServerConnectionFailure, Close

\* In a session that does not end no queue is left without a message posted
\* for it (multi_peer_conductor.cpp:166-185, directx_multi_peer_conductor.cpp:23-24).
THEOREM QueueIsPumped ==
  ASSUME ~SessionEnds
  PROVE  Spec => []QueuePumped
<1>1. Init => NothingBefore /\ QueuePumped
  BY DEF Init, SessionInit, NothingBefore, QueuePumped
<1>2. TypeOK /\ NothingBefore /\ [Next]_vars => NothingBefore'
  BY NothingBeforeNext
<1>3. TypeOK /\ NothingBefore /\ QueuePumped /\ [Next]_vars => QueuePumped'
  BY QueuePumpedNext
<1>4. QED
  BY <1>1, <1>2, <1>3, TypeCorrect, PTL DEF Spec

-----------------------------------------------------------------------------
(* What is sent *)

\* Messages that arrived, are under way and wait, in this order.
Line == received \o carried \o message_queue_

LEMMA HeadThenTail ==
  ASSUME NEW S, NEW s \in Seq(S), s # <<>>
  PROVE  <<Head(s)>> \o Tail(s) = s
<1>1. /\ Head(s) \in S /\ Tail(s) \in Seq(S) /\ Len(Tail(s)) = Len(s) - 1
      /\ \A i \in 1..Len(Tail(s)) : Tail(s)[i] = s[i + 1]
  BY HeadTailProperties
<1>2. <<Head(s)>> \in Seq(S) /\ Len(<<Head(s)>>) = 1 /\ <<Head(s)>>[1] = Head(s)
  BY <1>1
<1>3. /\ <<Head(s)>> \o Tail(s) \in Seq(S)
      /\ Len(<<Head(s)>> \o Tail(s)) = 1 + Len(Tail(s))
      /\ \A i \in 1..(1 + Len(Tail(s))) :
           (<<Head(s)>> \o Tail(s))[i] = IF i <= 1 THEN <<Head(s)>>[i] ELSE Tail(s)[i - 1]
  BY <1>1, <1>2, ConcatProperties
<1>4. Len(s) \in Nat /\ Head(s) = s[1]
  BY LenProperties
<1>5. \A i \in 1..Len(<<Head(s)>> \o Tail(s)) : (<<Head(s)>> \o Tail(s))[i] = s[i]
  BY <1>1, <1>2, <1>3, <1>4
<1>6. QED
  BY <1>1, <1>3, <1>4, <1>5, SeqEqual

\* Only a message makes the control connection carry one.
CarriesMessages == carried = <<>> \/ request = "message"

\* Nothing is asked out of a session.
OffIsIdle == phase = "off" => request = "none"

LEMMA OffIsIdleNext ==
  ASSUME OffIsIdle, [Next]_vars
  PROVE  OffIsIdle'
<1>1. CASE UNCHANGED <<phase, request>>
  BY <1>1 DEF OffIsIdle
<1>2. CASE phase' # "off" \/ request' = "none"
  BY <1>2 DEF OffIsIdle
<1>3. ASSUME NEW p \in Ids,
             \/ OnPeerConnected(p) \/ OnPeerDisconnected(p) \/ OnMessageFromPeer(p)
             \/ ConnectToPeer(p) \/ Write(p)
             \/ \E new_state \in IceStates : OnIceConnectionChange(p, new_state)
      PROVE  OffIsIdle'
  BY <1>1, <1>3 DEF OnPeerConnected, OnPeerDisconnected, OnMessageFromPeer, ConnectToPeer,
              Write, OnIceConnectionChange, Came, Left
<1>4. CASE StartLogin \/ SignInSent \/ OnSignedIn \/ SignedInWithoutId
  BY <1>2, <1>4 DEF StartLogin, SignInSent, OnSignedIn, SignedInWithoutId, Join, Resolved
<1>5. CASE OnDisconnected \/ OnServerConnectionFailure
  BY <1>2, <1>5 DEF OnDisconnected, OnServerConnectionFailure, End, Unresolved
<1>6. CASE RequestDone
  BY <1>6 DEF RequestDone, Answered, OffIsIdle
<1>7. CASE Pump
  BY <1>1, <1>2, <1>7 DEF Pump, SendSucceeds, SendFails, Send, End
<1>8. CASE Close \/ CapacityPublished \/ CapacityAnswered \/ UNCHANGED vars
  BY <1>1, <1>8 DEF Close, CapacityPublished, CapacitySent, CapacityAnswered, CapacityDone, vars
<1>9. QED
  BY <1>3, <1>4, <1>5, <1>6, <1>7, <1>8 DEF Next
LEMMA CarriesNext ==
  ASSUME CarriesMessages, OffIsIdle, [Next]_vars
  PROVE  CarriesMessages'
<1>1. CASE UNCHANGED <<request, carried>>
  BY <1>1 DEF CarriesMessages
<1>2. CASE carried' = <<>> \/ request' = "message"
  BY <1>2 DEF CarriesMessages
<1>3. CASE request # "message" /\ carried' = carried
  BY <1>3 DEF CarriesMessages
<1>4. ASSUME NEW p \in Ids,
             \/ OnPeerConnected(p) \/ OnPeerDisconnected(p) \/ OnMessageFromPeer(p)
             \/ ConnectToPeer(p) \/ Write(p)
             \/ \E new_state \in IceStates : OnIceConnectionChange(p, new_state)
      PROVE  CarriesMessages'
  BY <1>1, <1>4 DEF OnPeerConnected, OnPeerDisconnected, OnMessageFromPeer, ConnectToPeer,
              Write, OnIceConnectionChange, Came, Left
<1>5. CASE \/ SignInSent \/ OnSignedIn \/ SignedInWithoutId \/ OnServerConnectionFailure
  BY <1>3, <1>5 DEF SignInSent, Resolved, OnSignedIn, SignedInWithoutId, Joined,
              OnServerConnectionFailure
<1>6. CASE OnDisconnected \/ RequestDone
  BY <1>2, <1>6 DEF OnDisconnected, RequestDone, Arrives, Vanishes
<1>7. CASE Close \/ CapacityPublished \/ CapacityAnswered \/ UNCHANGED vars
  BY <1>1, <1>7 DEF Close, CapacityPublished, CapacitySent, CapacityAnswered, CapacityDone, vars
<1>8. CASE Pump
  BY <1>1, <1>2, <1>3, <1>8 DEF Pump, SendSucceeds, SendFails, Send
<1>9. CASE StartLogin
  BY <1>3, <1>9 DEF StartLogin, Join, OffIsIdle
<1>10. QED
  BY <1>4, <1>5, <1>6, <1>7, <1>8, <1>9 DEF Next

\* A message is taken from the queue only onto an idle control connection, so
\* sending moves the front of the queue and keeps the line as it is.
LEMMA SendKeepsLine ==
  ASSUME TypeOK, CarriesMessages, message_queue_ # <<>>, SendSucceeds, Drain(TRUE)
  PROVE  Line' = Line
<1>1. /\ carried = <<>> /\ carried' = <<Head(message_queue_)>> /\ received' = received
      /\ message_queue_' = Tail(message_queue_)
  BY DEF SendSucceeds, Send, Drain, CarriesMessages
<1>2. /\ <<Head(message_queue_)>> \in Seq(Messages) /\ Tail(message_queue_) \in Seq(Messages)
  BY HeadTailProperties, SequenceTypes
<1>3. (received \o carried') \o message_queue_' = received \o (carried' \o message_queue_')
  BY <1>1, <1>2, ConcatAssociative, SequenceTypes
<1>4. carried' \o message_queue_' = message_queue_
  BY <1>1, HeadThenTail, SequenceTypes
<1>5. received \o carried = received
  BY <1>1, ConcatEmptySeq, SequenceTypes
<1>6. QED
  BY <1>1, <1>3, <1>4, <1>5 DEF Line

LEMMA PumpKeepsLine ==
  ASSUME TypeOK, CarriesMessages, Pump
  PROVE  Line' = Line /\ written' = written
<1>1. CASE UNCHANGED <<message_queue_, sending>>
  BY <1>1 DEF Line, Pump
<1>2. CASE message_queue_ # <<>> /\ SendSucceeds /\ Drain(TRUE)
  BY <1>2, SendKeepsLine DEF Pump
<1>3. QED
  BY <1>1, <1>2 DEF Pump, SendFails, Drain

LEMMA WriteExtendsLine ==
  ASSUME TypeOK, Writes
  PROVE  Line' = Append(Line, written') /\ written' = written + 1 /\ written' \in Messages
<1>1. /\ written' = written + 1 /\ UNCHANGED sending
      /\ message_queue_' = Append(message_queue_, written')
  BY DEF Writes, Write
<1>2. written' \in Messages
  BY <1>1, ConfigurationAssumption DEF Writes, Write, TypeOK, Messages
<1>3. received \o carried \in Seq(Messages) /\ <<written'>> \in Seq(Messages)
  BY <1>2, ConcatProperties, SequenceTypes
<1>4. Line \in Seq(Messages)
  BY <1>3, ConcatProperties, SequenceTypes DEF Line
<1>5. message_queue_' = message_queue_ \o <<written'>> /\ Append(Line, written') = Line \o <<written'>>
  BY <1>1, <1>2, <1>4, AppendIsConcat, SequenceTypes
<1>6. (received \o carried) \o (message_queue_ \o <<written'>>)
        = ((received \o carried) \o message_queue_) \o <<written'>>
  BY <1>3, ConcatAssociative, SequenceTypes
<1>7. QED
  BY <1>1, <1>2, <1>5, <1>6 DEF Line

LEMMA ArrivalKeepsLine ==
  ASSUME TypeOK, Arrives(carried), UNCHANGED queue
  PROVE  Line' = Line
<1>1. received \o carried \in Seq(Messages)
  BY ConcatProperties, SequenceTypes
<1>2. received' = received \o carried /\ carried' = <<>>
  BY DEF Arrives
<1>3. received' \o carried' = received \o carried
  BY <1>1, <1>2, ConcatEmptySeq
<1>4. QED
  BY <1>3 DEF Line

LEMMA CountUp ==
  ASSUME NEW n \in Nat
  PROVE  Append([i \in 1..n |-> i], n + 1) = [i \in 1..(n + 1) |-> i]
OBVIOUS

LEMMA NothingDroppedNext ==
  ASSUME ~MessagesLost, TypeOK, CarriesMessages, NothingDropped, [Next]_vars
  PROVE  NothingDropped'
<1>1. Line = [i \in 1..written |-> i]
  BY DEF Line, NothingDropped
<1>2. CASE Keeps
  BY <1>2 DEF Keeps, NothingDropped
<1>3. CASE Delivers
  BY <1>1, <1>3, ArrivalKeepsLine DEF Delivers, Vanishes, Line, NothingDropped
<1>4. CASE Pump
  BY <1>1, <1>4, PumpKeepsLine DEF Line, NothingDropped
<1>5. CASE Writes
  BY <1>1, <1>5, WriteExtendsLine, CountUp, SequenceTypes DEF Line, NothingDropped
<1>6. QED
  BY <1>2, <1>3, <1>4, <1>5, QueueSteps

LEMMA NothingDroppedInit == Init => NothingDropped
<1> SUFFICES ASSUME Init PROVE NothingDropped
  OBVIOUS
<1>1. <<>> \o <<>> \o <<>> = <<>>
  BY EmptySeq, ConcatEmptySeq
<1>2. [i \in 1..0 |-> i] = <<>>
  OBVIOUS
<1>3. QED
  BY <1>1, <1>2 DEF Init, NothingDropped

\* When connections lose nothing, every message written has arrived, is under way
\* or waits, exactly once and in the order it was written: SendToPeer may refuse,
\* break the session or be retried at any time (multi_peer_conductor.cpp:176-179).
THEOREM NothingIsDropped ==
  ASSUME ~MessagesLost
  PROVE  Spec => []NothingDropped
<1>1. Init => CarriesMessages /\ OffIsIdle
  BY DEF Init, SessionInit, CarriesMessages, OffIsIdle
<1>2. OffIsIdle /\ [Next]_vars => OffIsIdle'
  BY OffIsIdleNext
<1>3. CarriesMessages /\ OffIsIdle /\ [Next]_vars => CarriesMessages'
  BY CarriesNext
<1>4. TypeOK /\ CarriesMessages /\ NothingDropped /\ [Next]_vars => NothingDropped'
  BY NothingDroppedNext
<1>5. QED
  BY <1>1, <1>2, <1>3, <1>4, NothingDroppedInit, TypeCorrect, PTL DEF Spec

Increasing(s) == \A i, j \in DOMAIN s : i < j => s[i] < s[j]

\* A line that loses its middle keeps its order.
LEMMA DropMiddle ==
  ASSUME NEW r \in Seq(Nat), NEW c \in Seq(Nat), NEW q \in Seq(Nat), NEW n \in Nat,
         Increasing(r \o c \o q), \A i \in DOMAIN (r \o c \o q) : (r \o c \o q)[i] <= n
  PROVE  Increasing(r \o q) /\ \A i \in DOMAIN (r \o q) : (r \o q)[i] <= n
<1> DEFINE long == r \o c \o q
           short == r \o q
           at(i) == IF i <= Len(r) THEN i ELSE i + Len(c)
<1>1. /\ Len(r) \in Nat /\ Len(c) \in Nat /\ Len(q) \in Nat
      /\ r \o c \in Seq(Nat) /\ Len(r \o c) = Len(r) + Len(c)
      /\ \A i \in 1..(Len(r) + Len(c)) : (r \o c)[i] = IF i <= Len(r) THEN r[i] ELSE c[i - Len(r)]
  BY ConcatProperties, LenProperties
<1>2. /\ DOMAIN long = 1..(Len(r) + Len(c) + Len(q))
      /\ \A i \in 1..(Len(r) + Len(c) + Len(q)) :
           long[i] = IF i <= Len(r) + Len(c) THEN (r \o c)[i] ELSE q[i - (Len(r) + Len(c))]
  BY <1>1, ConcatProperties, LenProperties
<1>3. /\ DOMAIN short = 1..(Len(r) + Len(q))
      /\ \A i \in 1..(Len(r) + Len(q)) : short[i] = IF i <= Len(r) THEN r[i] ELSE q[i - Len(r)]
  BY <1>1, ConcatProperties, LenProperties
<1>4. ASSUME NEW i \in DOMAIN short
      PROVE  at(i) \in DOMAIN long /\ short[i] = long[at(i)]
  <2>1. CASE i <= Len(r)
    BY <1>1, <1>2, <1>3, <2>1
  <2>2. CASE i > Len(r)
    <3>1. at(i) \in DOMAIN long /\ at(i) > Len(r) + Len(c) /\ at(i) - (Len(r) + Len(c)) = i - Len(r)
      BY <1>1, <1>2, <1>3, <2>2
    <3>2. QED
      BY <1>1, <1>2, <1>3, <2>2, <3>1
  <2>3. QED
    BY <1>1, <1>3, <2>1, <2>2
<1>5. ASSUME NEW i \in DOMAIN short, NEW j \in DOMAIN short, i < j
      PROVE  short[i] < short[j]
  <2>1. at(i) < at(j)
    BY <1>1, <1>3, <1>5
  <2>2. QED
    BY <1>4, <2>1 DEF Increasing
<1>6. QED
  BY <1>4, <1>5 DEF Increasing

\* The server gets the messages in the order they were written and none twice.
SentInOrder == Increasing(received \o carried \o message_queue_)

\* The line is in order and holds no number that has not been given.
LineInOrder == SentInOrder /\ \A i \in DOMAIN Line : Line[i] <= written

LEMMA LineInOrderNext ==
  ASSUME TypeOK, CarriesMessages, LineInOrder, [Next]_vars
  PROVE  LineInOrder'
<1>1. CASE Line' = Line /\ written' = written
  BY <1>1 DEF LineInOrder, SentInOrder, Line
<1>2. CASE Keeps
  BY <1>1, <1>2 DEF Keeps, Line
<1>3. CASE Delivers /\ Arrives(carried)
  BY <1>1, <1>3, ArrivalKeepsLine DEF Delivers
<1>4. CASE Delivers /\ Vanishes
  <2>1. /\ carried' = <<>> /\ received' = received /\ message_queue_' = message_queue_
        /\ written' = written
    BY <1>4 DEF Delivers, Vanishes
  <2>2. received \in Seq(Nat) /\ carried \in Seq(Nat) /\ message_queue_ \in Seq(Nat)
    BY SequenceTypes, SeqMonotonic, ConfigurationAssumption DEF Messages
  <2>3. /\ Increasing(received \o message_queue_)
        /\ \A i \in DOMAIN (received \o message_queue_) : (received \o message_queue_)[i] <= written
    BY <2>2, DropMiddle, SequenceTypes DEF LineInOrder, SentInOrder, Line
  <2>4. Line' = received \o message_queue_
    BY <2>1, <2>2, ConcatEmptySeq DEF Line
  <2>5. QED
    BY <2>1, <2>3, <2>4 DEF LineInOrder, SentInOrder, Line
<1>5. CASE Pump
  BY <1>1, <1>5, PumpKeepsLine
<1>6. CASE Writes
  <2>1. Line' = Append(Line, written') /\ written' = written + 1 /\ written' \in Messages
    BY <1>6, WriteExtendsLine
  <2>2. Line \in Seq(Messages)
    BY ConcatProperties, SequenceTypes DEF Line
  <2>3. /\ Len(Line) \in Nat /\ DOMAIN Line = 1..Len(Line)
        /\ DOMAIN Line' = 1..(Len(Line) + 1)
        /\ \A i \in 1..Len(Line) : Line'[i] = Line[i]
        /\ Line'[Len(Line) + 1] = written'
    BY <2>1, <2>2, AppendProperties, LenProperties
  <2>4. \A i \in 1..Len(Line) : Line[i] \in Nat /\ Line[i] <= written
    BY <2>2, <2>3, ElementOfSeq, ConfigurationAssumption DEF LineInOrder, Messages
  <2>5. ASSUME NEW i \in DOMAIN Line', NEW j \in DOMAIN Line', i < j
        PROVE  Line'[i] < Line'[j]
    <3>1. CASE j <= Len(Line)
      <4>1. i \in DOMAIN Line /\ j \in DOMAIN Line
        BY <2>3, <2>5, <3>1
      <4>2. Increasing(Line)
        BY DEF LineInOrder, SentInOrder, Line
      <4>3. Line[i] < Line[j]
        BY <2>5, <4>1, <4>2 DEF Increasing
      <4>4. QED
        BY <2>3, <4>1, <4>3
    <3>2. CASE j = Len(Line) + 1
      BY <2>1, <2>3, <2>4, <2>5, <3>2, SequenceTypes
    <3>3. QED
      BY <2>3, <3>1, <3>2
  <2>6. \A i \in DOMAIN Line' : Line'[i] <= written'
    BY <2>1, <2>3, <2>4, SequenceTypes
  <2>7. QED
    BY <2>5, <2>6 DEF LineInOrder, SentInOrder, Increasing, Line
<1>7. QED
  BY <1>2, <1>3, <1>4, <1>5, <1>6, QueueSteps DEF Delivers

\* A connection carries one message at a time.
CarriesOne == carried = <<>> \/ \E m \in Messages : carried = <<m>>

LEMMA CarriesOneNext ==
  ASSUME TypeOK, CarriesOne, [Next]_vars
  PROVE  CarriesOne'
<1>1. CASE Keeps \/ Writes
  BY <1>1 DEF Keeps, Writes, Write, CarriesOne
<1>2. CASE Delivers
  BY <1>2 DEF Delivers, Arrives, Vanishes, CarriesOne
<1>3. CASE Pump
  <2>1. message_queue_ # <<>> => Head(message_queue_) \in Messages
    BY SequenceTypes, HeadTailProperties
  <2>2. UNCHANGED carried \/ (message_queue_ # <<>> /\ carried' = <<Head(message_queue_)>>)
    BY <1>3 DEF Pump, SendSucceeds, SendFails
  <2>3. QED
    BY <2>1, <2>2 DEF CarriesOne
<1>4. QED
  BY <1>1, <1>2, <1>3, QueueSteps

LineInv == CarriesMessages /\ OffIsIdle /\ LineInOrder /\ CarriesOne

LEMMA LineHolds == Spec => []LineInv
<1>1. Init => LineInv
  <2> SUFFICES ASSUME Init PROVE LineInv
    OBVIOUS
  <2>1. Line = <<>>
    BY EmptySeq, ConcatEmptySeq DEF Init, Line
  <2>2. QED
    BY <2>1 DEF Init, SessionInit, LineInv, CarriesMessages, OffIsIdle, LineInOrder, SentInOrder,
            Increasing, Line, CarriesOne
<1>2. TypeOK /\ LineInv /\ [Next]_vars => LineInv'
  BY OffIsIdleNext, CarriesNext, LineInOrderNext, CarriesOneNext DEF LineInv
<1>3. QED
  BY <1>1, <1>2, TypeCorrect, PTL DEF Spec

\* Also when connections lose messages, those that arrive do so in the order they
\* were written and none twice (multi_peer_conductor.cpp:172-184).
THEOREM MessagesStayInOrder == Spec => []SentInOrder
<1>1. LineInv => SentInOrder
  BY DEF LineInv, LineInOrder
<1>2. QED
  BY <1>1, LineHolds, PTL

-----------------------------------------------------------------------------
(* The channel *)

LEMMA SetOfAppended ==
  ASSUME NEW S, NEW s \in Seq(S), NEW x \in S
  PROVE  ToSet(Append(s, x)) = ToSet(s) \cup {x}
<1>1. /\ Len(s) \in Nat /\ DOMAIN s = 1..Len(s) /\ DOMAIN Append(s, x) = 1..(Len(s) + 1)
      /\ \A i \in 1..Len(s) : Append(s, x)[i] = s[i]
      /\ Append(s, x)[Len(s) + 1] = x
  BY AppendProperties, LenProperties
<1>2. \A i \in 1..(Len(s) + 1) : i \in 1..Len(s) \/ i = Len(s) + 1
  BY <1>1
<1>3. QED
  BY <1>1, <1>2 DEF ToSet

LEMMA SetOfHeadAndTail ==
  ASSUME NEW S, NEW s \in Seq(S), s # <<>>
  PROVE  ToSet(s) = {Head(s)} \cup ToSet(Tail(s))
<1>1. /\ Len(s) \in Nat /\ DOMAIN s = 1..Len(s) /\ 1 \in 1..Len(s) /\ Head(s) = s[1]
      /\ DOMAIN Tail(s) = 1..(Len(s) - 1)
      /\ \A i \in 1..(Len(s) - 1) : Tail(s)[i] = s[i + 1]
  BY HeadTailProperties, LenProperties
<1>2. \A i \in 1..Len(s) : i = 1 \/ (i - 1 \in 1..(Len(s) - 1) /\ (i - 1) + 1 = i)
  BY <1>1
<1>3. \A i \in 1..(Len(s) - 1) : i + 1 \in 1..Len(s)
  BY <1>1
<1>4. ASSUME NEW i \in 1..Len(s)
      PROVE  s[i] \in {Head(s)} \cup ToSet(Tail(s))
  <2>1. CASE i = 1
    BY <1>1, <2>1
  <2>2. CASE i - 1 \in 1..(Len(s) - 1) /\ (i - 1) + 1 = i
    <3>1. Tail(s)[i - 1] = s[i]
      BY <1>1, <2>2
    <3>2. QED
      BY <1>1, <2>2, <3>1 DEF ToSet
  <2>3. QED
    BY <1>2, <2>1, <2>2
<1>5. \A i \in 1..(Len(s) - 1) : Tail(s)[i] \in ToSet(s)
  BY <1>1, <1>3 DEF ToSet
<1>6. QED
  BY <1>1, <1>4, <1>5 DEF ToSet

\* In a line that is in order every message is older than those behind it.
LEMMA OlderThanRest ==
  ASSUME NEW r \in Seq(Nat), NEW m \in Nat, NEW q \in Seq(Nat), Increasing(r \o <<m>> \o q)
  PROVE  \A k \in ToSet(q) : m < k
<1>1. /\ Len(r) \in Nat /\ Len(q) \in Nat /\ DOMAIN q = 1..Len(q)
      /\ r \o <<m>> \in Seq(Nat) /\ Len(r \o <<m>>) = Len(r) + 1
      /\ (r \o <<m>>)[Len(r) + 1] = m
  <2>1. <<m>> \in Seq(Nat) /\ Len(<<m>>) = 1 /\ <<m>>[1] = m
    OBVIOUS
  <2>2. QED
    BY <2>1, ConcatProperties, LenProperties
<1> DEFINE line == (r \o <<m>>) \o q
<1>2. /\ DOMAIN line = 1..(Len(r) + 1 + Len(q))
      /\ \A i \in 1..(Len(r) + 1 + Len(q)) :
           line[i] = IF i <= Len(r) + 1 THEN (r \o <<m>>)[i] ELSE q[i - (Len(r) + 1)]
  BY <1>1, ConcatProperties, LenProperties
<1> HIDE DEF line
<1>3. ASSUME NEW j \in 1..Len(q)
      PROVE  m < q[j]
  <2>1. /\ Len(r) + 1 \in DOMAIN line /\ Len(r) + 1 + j \in DOMAIN line
        /\ line[Len(r) + 1] = m
        /\ ~(Len(r) + 1 + j <= Len(r) + 1) /\ (Len(r) + 1 + j) - (Len(r) + 1) = j
    BY <1>1, <1>2
  <2>2. line[Len(r) + 1 + j] = q[j]
    BY <1>2, <2>1
  <2>3. Increasing(line) /\ Len(r) + 1 < Len(r) + 1 + j
    BY <1>1 DEF line
  <2>4. QED
    BY <2>1, <2>2, <2>3 DEF Increasing
<1>4. QED
  BY <1>1, <1>3 DEF ToSet

Waiting == ToSet(carried) \cup ToSet(message_queue_)

LEMMA ArrivalDelivers ==
  ASSUME TypeOK, LineInv, Arrives(carried), UNCHANGED queue
  PROVE  [Channel!Next]_(Channel!channel)
<1>1. received' = received \o carried /\ carried' = <<>> /\ UNCHANGED <<message_queue_, written>>
  BY DEF Arrives
<1>2. CASE carried = <<>>
  <2>1. received' = received
    BY <1>1, <1>2, ConcatEmptySeq, SequenceTypes
  <2>2. QED
    BY <1>1, <1>2, <2>1 DEF Channel!channel
<1>3. ASSUME NEW m \in Messages, carried = <<m>>
      PROVE  Channel!Deliver
  <2>1. /\ received \in Seq(Nat) /\ message_queue_ \in Seq(Nat) /\ m \in Nat
    BY SequenceTypes, SeqMonotonic, ConfigurationAssumption DEF Messages
  <2>2. \A k \in ToSet(message_queue_) : m < k
    BY <1>3, <2>1, OlderThanRest DEF LineInv, LineInOrder, SentInOrder
  <2>3. \A k \in ToSet(message_queue_) : k \in Nat
    BY <2>1 DEF ToSet
  <2>4. ToSet(<<m>>) = {m} /\ ToSet(<<>>) = {}
    BY DEF ToSet
  <2>5. Waiting = {m} \cup ToSet(message_queue_) /\ Waiting' = ToSet(message_queue_)
    BY <1>1, <1>3, <2>4 DEF Waiting
  <2>6. m \in Waiting /\ (\A k \in Waiting : m <= k) /\ Waiting' = Waiting \ {m}
    BY <2>1, <2>2, <2>3, <2>5
  <2>7. received' = Append(received, m)
    BY <1>1, <1>3, AppendIsConcat, SequenceTypes
  <2>8. QED
    BY <1>1, <2>6, <2>7 DEF Channel!Deliver, Waiting
<1>4. QED
  BY <1>2, <1>3 DEF LineInv, CarriesOne, Channel!Next

LEMMA ChannelStep ==
  ASSUME TypeOK, LineInv, [Next]_vars
  PROVE  [Channel!Next]_(Channel!channel)
<1>1. CASE Waiting' = Waiting /\ UNCHANGED <<written, received>>
  BY <1>1 DEF Channel!channel, Waiting
<1>2. CASE Keeps
  BY <1>1, <1>2 DEF Keeps, Waiting
<1>3. CASE Writes
  <2>1. /\ written < MaxWritten /\ written' = written + 1 /\ UNCHANGED <<carried, received>>
        /\ message_queue_' = Append(message_queue_, written + 1)
    BY <1>3 DEF Writes, Write
  <2>2. written + 1 \in Messages
    BY <1>3, <2>1, WriteExtendsLine
  <2>3. ToSet(message_queue_') = ToSet(message_queue_) \cup {written + 1}
    BY <2>1, <2>2, SetOfAppended, SequenceTypes
  <2>4. Channel!Write
    BY <2>1, <2>3 DEF Channel!Write
  <2>5. QED
    BY <2>4 DEF Channel!Next
<1>4. CASE Delivers /\ Arrives(carried)
  BY <1>4, ArrivalDelivers DEF Delivers
<1>5. CASE Delivers /\ Vanishes
  <2>1. MessagesLost /\ carried' = <<>> /\ UNCHANGED <<received, message_queue_, written>>
    BY <1>5 DEF Delivers, Vanishes
  <2>2. ToSet(carried') = {}
    BY <2>1 DEF ToSet
  <2>3. Waiting' \in SUBSET Waiting
    BY <2>1, <2>2 DEF Waiting
  <2>4. Channel!Lose
    BY <2>1, <2>3 DEF Channel!Lose, Waiting
  <2>5. QED
    BY <2>4 DEF Channel!Next
<1>6. CASE Pump
  <2>1. CASE UNCHANGED <<message_queue_, sending>>
    BY <1>1, <1>6, <2>1 DEF Pump, Waiting
  <2>2. CASE message_queue_ # <<>> /\ SendSucceeds /\ Drain(TRUE)
    <3>1. /\ carried = <<>> /\ carried' = <<Head(message_queue_)>> /\ received' = received
          /\ message_queue_' = Tail(message_queue_) /\ written' = written
      BY <1>6, <2>2 DEF SendSucceeds, Send, Drain, LineInv, CarriesMessages, Pump
    <3>2. ToSet(carried) = {} /\ ToSet(carried') = {Head(message_queue_)}
      BY <3>1 DEF ToSet
    <3>3. ToSet(message_queue_) = {Head(message_queue_)} \cup ToSet(message_queue_')
      BY <2>2, <3>1, SetOfHeadAndTail, SequenceTypes
    <3>4. QED
      BY <1>1, <3>1, <3>2, <3>3 DEF Waiting
  <2>3. QED
    BY <1>6, <2>1, <2>2 DEF Pump, SendFails, Drain
<1>7. QED
  BY <1>2, <1>3, <1>4, <1>5, <1>6, QueueSteps DEF Delivers

\* The server's conductor implements the channel, for any number of peers and
\* messages and connections that lose what they carry: a message arrives once,
\* before every later one, and one that is lost never arrives
\* (multi_peer_conductor.cpp:166-185).
THEOREM ConductorImplementsChannel == Spec => ImplementsChannel
<1>1. Init => Channel!Init
  BY DEF Init, Channel!Init, ToSet
<1>2. TypeOK /\ LineInv /\ [Next]_vars => [Channel!Next]_(Channel!channel)
  BY ChannelStep
<1>3. QED
  BY <1>1, <1>2, LineHolds, TypeCorrect, PTL DEF Spec, ImplementsChannel, Channel!Spec
=============================================================================
