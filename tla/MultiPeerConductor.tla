-------------------------- MODULE MultiPeerConductor --------------------------
(***************************************************************************)
(* The conductor of the rendering server (Plugins/NativeServerPlugin): a   *)
(* peer conductor for every client that calls, the free slots it publishes *)
(* through the signalling client, and the queue of signalling messages     *)
(* that one posted message at a time drains.                               *)
(*                                                                         *)
(* WebRTC's signalling thread is the thread the conductor is created on,   *)
(* so every callback is one step.  The signalling client is what           *)
(* SignallingSession says of it.  A message is its number: neither its     *)
(* text nor its addressee decides anything here.                           *)
(***************************************************************************)
EXTENDS SignallingSession, Integers, Sequences, FiniteSets, SequencesExt

CONSTANTS
  SystemCapacity, \* systemCapacity of the configuration; 0 when it is not used
  Window,         \* the server shows a window: SetMainWindow was called
  AutoCall,       \* autoCall of the configuration
  IceEvents,      \* ICE states that peer connections report
  PeersLeave,     \* peers leave the signalling server or say goodbye
  SessionEnds,    \* a session can end
  MessagesLost,   \* a message can be lost with its connection
  MaxWritten      \* bound: messages peer conductors write

IceStates == {"new", "connected", "completed", "disconnected", "failed"}

ASSUME SystemCapacityAssumption == SystemCapacity \in Nat
ASSUME ValuesAssumption == Values = 0..SystemCapacity /\ NoValue \notin Values
ASSUME ConfigurationAssumption ==
  /\ Window \in BOOLEAN /\ AutoCall \in BOOLEAN
  /\ IceEvents \subseteq IceStates \ {"new"}
  /\ PeersLeave \in BOOLEAN /\ SessionEnds \in BOOLEAN /\ MessagesLost \in BOOLEAN
  /\ MaxWritten \in Nat

VARIABLES
  connected_peers_,       \* peers that have a peer conductor
  connected_peer_states_, \* peers recorded as connected
  cur_capacity_,
  peer_factory_,          \* whether it is there: Close drops it
  ice,                    \* the ICE state of each peer connection
  listed,                 \* peers the window shows
  published,              \* the last capacity sent in this session
  message_queue_,
  posted,                 \* messages posted to the conductor and not delivered
  should_process_queue_,
  describing,             \* peers whose offer or answer is being created
  written,                \* number of messages written so far
  carried,                \* what the control connection carries, as a sequence
  received,               \* what has arrived at the signalling server
  crashed                 \* an unknown peer was looked up, or the factory is gone

slots == <<connected_peer_states_, cur_capacity_>>
queue == <<message_queue_, posted, written>>
sending == <<carried, received>>
vars == <<session, connected_peers_, slots, peer_factory_, ice, listed, published,
          queue, should_process_queue_, describing, sending, crashed>>

max_capacity_ == IF SystemCapacity > 0 THEN SystemCapacity ELSE -1

TypeOK ==
  /\ SessionTypeOK
  /\ connected_peers_ \subseteq Ids
  /\ connected_peer_states_ \subseteq Ids
  /\ cur_capacity_ \in Values \cup {-1}
  /\ peer_factory_ \in BOOLEAN
  /\ ice \in [Ids -> IceStates]
  /\ listed \subseteq Ids
  /\ published \in Values \cup {NoValue}
  /\ message_queue_ \in Seq(1..MaxWritten)
  /\ posted \in Nat
  /\ should_process_queue_ \in BOOLEAN
  /\ describing \subseteq Ids
  /\ written \in 0..MaxWritten
  /\ carried \in Seq(1..MaxWritten)
  /\ received \in Seq(1..MaxWritten)
  /\ crashed \in BOOLEAN

\* The constructor leaves should_process_queue_ uninitialised.
Init ==
  /\ SessionInit
  /\ connected_peers_ = {} /\ connected_peer_states_ = {}
  /\ cur_capacity_ = max_capacity_
  /\ peer_factory_ = TRUE
  /\ ice = [p \in Ids |-> "new"]
  /\ listed = {} /\ published = NoValue
  /\ message_queue_ = <<>> /\ posted = 0 /\ written = 0
  /\ should_process_queue_ \in BOOLEAN
  /\ describing = {} /\ carried = <<>> /\ received = <<>>
  /\ crashed = FALSE

-----------------------------------------------------------------------------
(* Members that other members call.  A definition that starts with "Bad" is a *)
(* faulty variant of the next one, which no action uses.                      *)

\* SwitchToPeerList(signalling_client_.peers())
Refresh == listed' = IF Window THEN peers' ELSE listed

\* SafeAllocatePeerMapEntry(p) and AllocatePeerConnection, for the peers ps;
\* descriptions are created for some.  Nothing is allocated without the factory.
Allocate(ps, described) ==
  IF ps \subseteq connected_peers_ \/ peer_factory_
  THEN /\ connected_peers_' = connected_peers_ \cup ps
       /\ ice' = [p \in Ids |-> IF p \in ps \ connected_peers_ THEN "new" ELSE ice[p]]
       /\ describing' = describing \cup described
       /\ UNCHANGED crashed
  ELSE crashed' = TRUE /\ UNCHANGED <<connected_peers_, ice, describing>>

\* ConnectToPeer, for each of ps, which hold no id of ours: a peer that has no
\* peer connection gets one and an offer.
Called(ps) == IF cur_capacity_ = 0 THEN {} ELSE ps \ connected_peers_
Call(ps) == Allocate(Called(ps), Called(ps))

\* OnPeerConnected, for each of ps.
AutoCalled(ps) == Call(IF Window /\ AutoCall THEN ps ELSE {})

-----------------------------------------------------------------------------
(* The session *)

StartLogin ==
  /\ Join
  /\ UNCHANGED <<connected_peers_, slots, peer_factory_, ice, listed, published,
                 queue, should_process_queue_, describing, sending, crashed>>

SignInSent ==
  /\ Resolved
  /\ UNCHANGED <<connected_peers_, slots, peer_factory_, ice, listed, published,
                 queue, should_process_queue_, describing, sending, crashed>>

\* HandleSignalConnect: the new session is given the maximum.
HandleSignalConnect == IF max_capacity_ > -1 THEN Updated(max_capacity_)
                       ELSE UNCHANGED <<update, value>>

\* The sign-in is answered with an id: OnPeerConnected for every peer already
\* there, OnSignedIn and HandleSignalConnect ...
OnSignedIn ==
  /\ phase' = "on"
  /\ \E present \in SUBSET Ids : peers' = peers \cup present /\ AutoCalled(present)
  /\ Joined
  /\ should_process_queue_' = TRUE
  /\ Refresh
  /\ HandleSignalConnect
  /\ UNCHANGED <<slots, peer_factory_, published, queue, sending>>

\* ... or with an error that is passed over, and only HandleSignalConnect.
SignedInWithoutId ==
  /\ phase' = "anonymous"
  /\ Joined
  /\ HandleSignalConnect
  /\ UNCHANGED <<connected_peers_, slots, peer_factory_, ice, listed, published, queue,
                 should_process_queue_, describing, sending, crashed>>

\* What becomes of the message under way when its connection is over.
Arrives(m) == received' = received \o m /\ carried' = <<>>
Vanishes == MessagesLost /\ carried' = <<>> /\ UNCHANGED received

\* The session ends and the observers are told.
OnDisconnected ==
  /\ SessionEnds /\ phase # "off"
  /\ End
  /\ should_process_queue_' = FALSE
  /\ published' = NoValue
  /\ Arrives(carried) \/ Vanishes
  /\ UNCHANGED <<connected_peers_, slots, peer_factory_, ice, listed, queue,
                 describing, crashed>>

\* The sign-in could not be started: OnServerConnectionFailure at most.
OnServerConnectionFailure ==
  /\ SessionEnds /\ phase \in {"off", "joining"} /\ request = "none"
  /\ Unresolved \/ End
  /\ UNCHANGED <<connected_peers_, slots, peer_factory_, ice, listed, published,
                 queue, should_process_queue_, describing, sending, crashed>>

-----------------------------------------------------------------------------
(* Peers come, leave and send messages *)

OnPeerConnected(p) ==
  /\ Came(p)
  /\ AutoCalled({p})
  /\ Refresh \/ UNCHANGED listed \* only a list that is showing is refreshed
  /\ UNCHANGED <<slots, peer_factory_, published, queue, should_process_queue_, sending>>

\* A peer leaves the server or says BYE: its peer connection is destroyed and
\* reports no more; neither the slots nor the window hear of it.
OnPeerDisconnected(p) ==
  /\ PeersLeave /\ SignedOn
  /\ Left(p) \/ UNCHANGED session
  /\ connected_peers_' = connected_peers_ \ {p}
  /\ ice' = [ice EXCEPT ![p] = "new"]
  /\ UNCHANGED <<slots, peer_factory_, listed, published, queue, should_process_queue_,
                 describing, sending, crashed>>

\* HandlePeerMessage; the signalling server announces a peer before it relays
\* for it.  An offer has an answer created.
OnMessageFromPeer(p) ==
  /\ SignedOn /\ p \in peers \cup connected_peers_
  /\ Allocate({p}, {}) \/ Allocate({p}, {p})
  /\ UNCHANGED <<session, slots, peer_factory_, listed, published, queue,
                 should_process_queue_, sending>>

\* Called by the window for a peer it shows, or by Unity's script for a peer
\* of the session; at() throws for a peer that left.
Callable == IF Window THEN listed ELSE peers
ConnectToPeer(p) ==
  /\ p \in Callable
  /\ cur_capacity_ # 0 /\ p \notin connected_peers_
  /\ IF p \in peers
     THEN Call({p})
     ELSE crashed' = TRUE /\ UNCHANGED <<connected_peers_, ice, describing>>
  /\ UNCHANGED <<session, slots, peer_factory_, listed, published, queue,
                 should_process_queue_, sending>>

\* The window or the Unity plugin closes.
Close ==
  /\ SessionEnds
  /\ peer_factory_' = FALSE
  /\ connected_peers_' = {}
  /\ ice' = [p \in Ids |-> "new"]
  /\ UNCHANGED <<session, slots, listed, published, queue, should_process_queue_,
                 describing, sending, crashed>>

-----------------------------------------------------------------------------
(* Media: how a peer connection's ICE state moves is external (WebRTC).  It  *)
(* reports "connected" before "completed".                                   *)

IceNext == [new          |-> {"connected", "failed"},
            connected    |-> {"completed", "disconnected"},
            completed    |-> {"disconnected"},
            disconnected |-> {"connected", "failed"},
            failed       |-> {"connected"}]

Taken(n) == n - (IF n >= 1 THEN 1 ELSE 0)
Freed(n) == n + (IF n < max_capacity_ THEN 1 ELSE 0)

\* A state that is already recorded is passed over.
BadKnown(p, new_state) == FALSE
Known(p, new_state) == p \in connected_peer_states_ /\ new_state = "connected"

BadPublish == IF update = "none" THEN Updated(cur_capacity_') ELSE UNCHANGED <<update, value>>
Publish == IF cur_capacity_ > -1 THEN Updated(cur_capacity_') ELSE UNCHANGED <<update, value>>

BadPeerConnected(p) ==
  /\ cur_capacity_' = IF cur_capacity_ > -1 THEN Taken(cur_capacity_) ELSE cur_capacity_
  /\ UNCHANGED connected_peer_states_

PeerConnected(p) ==
  /\ connected_peer_states_' = connected_peer_states_ \cup {p}
  /\ cur_capacity_' = IF cur_capacity_ > -1 THEN Taken(cur_capacity_) ELSE cur_capacity_

BadPeerDisconnected(p) ==
  /\ cur_capacity_' = cur_capacity_ + 1
  /\ UNCHANGED connected_peer_states_

PeerDisconnected(p) ==
  /\ connected_peer_states_' = connected_peer_states_ \ {p}
  /\ cur_capacity_' = IF cur_capacity_ > -1 THEN Freed(cur_capacity_) ELSE cur_capacity_

OnIceConnectionChange(p, new_state) ==
  /\ p \in connected_peers_
  /\ new_state \in IceEvents \cap IceNext[ice[p]]
  /\ ice' = [ice EXCEPT ![p] = new_state]
  /\ UNCHANGED <<phase, request>>
  /\ \/ Known(p, new_state) /\ UNCHANGED <<session, slots, listed>>
     \/ /\ ~Known(p, new_state)
        /\ \/ new_state = "connected" /\ PeerConnected(p) /\ Publish
           \/ new_state = "disconnected" /\ PeerDisconnected(p) /\ Publish
           \/ new_state \in {"completed", "failed"} /\ UNCHANGED <<slots, update, value>>
        /\ peers' = IF Window THEN peers \cup {p} ELSE peers
        /\ Refresh
  /\ UNCHANGED <<connected_peers_, peer_factory_, published, queue, should_process_queue_,
                 describing, sending, crashed>>

-----------------------------------------------------------------------------
(* The message queue *)

\* send_func: a peer conductor writes a candidate, or the description that was
\* being created, which may be after its peer left.
Write(p) ==
  /\ written < MaxWritten
  /\ \/ p \in connected_peers_ /\ UNCHANGED describing
     \/ p \in describing /\ describing' = describing \ {p}
  /\ written' = written + 1
  /\ message_queue_' = Append(message_queue_, written + 1)
  /\ posted' = posted + 1
  /\ UNCHANGED <<session, connected_peers_, slots, peer_factory_, ice, listed, published,
                 should_process_queue_, sending, crashed>>

\* SendToPeer starts to send the front of the queue ...
SendSucceeds ==
  /\ Send
  /\ carried' = <<Head(message_queue_)>>
  /\ UNCHANGED <<received, published>>

\* ... or only returns false, ending the session when it cannot connect.
SendFails ==
  \/ /\ phase # "on" \/ request # "none"
     /\ UNCHANGED <<session, sending, published>>
  \/ /\ SessionEnds /\ phase = "on" /\ request = "none"
     /\ End
     /\ published' = NoValue
     /\ UNCHANGED sending

BadDrain(sent) == message_queue_' = Tail(message_queue_)
BadRotate(sent) ==
  message_queue_' = IF sent THEN Tail(message_queue_)
                    ELSE Append(Tail(message_queue_), Head(message_queue_))
Drain(sent) == message_queue_' = IF sent THEN Tail(message_queue_) ELSE message_queue_

\* A queue that is not empty has the next message posted.
BadRepost == posted' = posted - 1
Repost == posted' = posted - 1 + IF message_queue_' # <<>> THEN 1 ELSE 0

\* OnMessage
Pump ==
  /\ posted > 0
  /\ \/ /\ ~should_process_queue_ \/ message_queue_ = <<>>
        /\ posted' = posted - 1
        /\ UNCHANGED <<session, message_queue_, sending, published>>
     \/ /\ should_process_queue_ /\ message_queue_ # <<>>
        /\ \/ SendSucceeds /\ Drain(TRUE)
           \/ SendFails /\ Drain(FALSE)
        /\ Repost
  /\ UNCHANGED <<connected_peers_, slots, peer_factory_, ice, listed,
                 should_process_queue_, describing, written, crashed>>

\* The signalling client is done with a request.
RequestDone ==
  /\ Answered /\ UNCHANGED peers
  /\ Arrives(carried) \/ Vanishes
  /\ UNCHANGED <<connected_peers_, slots, peer_factory_, ice, listed, published, queue,
                 should_process_queue_, describing, crashed>>

CapacityPublished ==
  /\ CapacitySent
  /\ published' = value
  /\ UNCHANGED <<connected_peers_, slots, peer_factory_, ice, listed, queue,
                 should_process_queue_, describing, sending, crashed>>

CapacityAnswered ==
  /\ CapacityDone
  /\ UNCHANGED <<connected_peers_, slots, peer_factory_, ice, listed, published, queue,
                 should_process_queue_, describing, sending, crashed>>

-----------------------------------------------------------------------------

Next ==
  /\ ~crashed
  /\ \/ StartLogin \/ SignInSent \/ OnSignedIn \/ SignedInWithoutId
     \/ OnDisconnected \/ OnServerConnectionFailure
     \/ \E p \in Ids :
          \/ OnPeerConnected(p) \/ OnPeerDisconnected(p) \/ OnMessageFromPeer(p)
          \/ ConnectToPeer(p)
          \/ Write(p)
          \/ \E new_state \in IceStates : OnIceConnectionChange(p, new_state)
     \/ Close
     \/ Pump \/ RequestDone \/ CapacityPublished \/ CapacityAnswered

Spec == Init /\ [][Next]_vars

\* Posted messages are delivered, and a request is answered and its
\* connection closed, as PeerConnectionClient shows of a server that answers.
FairSpec ==
  /\ Spec
  /\ WF_vars(~crashed /\ Pump)
  /\ WF_vars(~crashed /\ RequestDone /\ request' = "none")

-----------------------------------------------------------------------------
(* Slots *)

Streaming == {p \in connected_peers_ : ice[p] \in {"connected", "completed"}}

\* With no more peers than slots, the free slots and the recorded peers add up,
\* whatever order connections, reconnections and farewells come in.
SlotsConserved == cur_capacity_ + Cardinality(connected_peer_states_) = max_capacity_

\* No peer is served without being counted, also one that left without its
\* slot being freed and has come back.
StreamingIsCounted == Streaming \subseteq connected_peer_states_

\* In the first session an update that is sent carries the number of slots free
\* at that moment, never an older one, and while capacity_data_ is empty the
\* server has been told the newest.  A number left there by a Connect that was
\* refused waits for the next update, which may never come.
NothingOutdatedIsSent ==
  SignedOn /\ max_capacity_ > -1 =>
    IF value = NoValue THEN published = cur_capacity_ ELSE value = cur_capacity_

-----------------------------------------------------------------------------
(* The queue *)

\* The server gets the messages in the order they were written and none
\* twice, although the connection is busy, breaks or comes back in between: a
\* message arrives while it waits and is the oldest that does, and one that a
\* connection lost never arrives.
Channel == INSTANCE MessageChannel
  WITH waiting <- ToSet(carried) \cup ToSet(message_queue_), Lossy <- MessagesLost
ImplementsChannel == Channel!Spec

\* The conductor drops nothing: what is lost is lost by a connection.
NothingDropped == received \o carried \o message_queue_ = [i \in 1..written |-> i]

\* A conductor that is signed in drains its queue, and a queue that is drained
\* keeps a message posted for it until it is empty or the session ends.
DrainsWhenOn == phase = "on" => should_process_queue_
PumpKept ==
  [][posted > 0 /\ should_process_queue_ /\ message_queue_ # <<>>
       => posted' > 0 \/ message_queue_' = <<>> \/ ~should_process_queue_']_vars

\* In a session that does not end no queue is left without a posted message ...
QueuePumped == should_process_queue_ /\ message_queue_ # <<>> => posted > 0

\* ... and every message a peer conductor writes reaches the server.
EverythingSent ==
  \A m \in 1..MaxWritten :
    phase = "on" /\ written >= m ~> \E i \in DOMAIN received : received[i] = m

-----------------------------------------------------------------------------
(* What the source says and the code does not do *)

\* UpdateCapacity, "the new remaining capacity": a number given to it is the
\* number of slots that no streaming peer has taken.
PublishesRemaining ==
  [][value' \notin {value, NoValue}
       => value' = max_capacity_ - Cardinality(Streaming')]_vars
=============================================================================
