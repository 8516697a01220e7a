--------------------- MODULE PeerConnectionClientProofs ---------------------
(***************************************************************************)
(* Proofs about PeerConnectionClient, for all values of its constants.     *)
(***************************************************************************)
EXTENDS PeerConnectionClient, TLAPS

USE DEF session, link, resolving, timers

\* What Connect leaves a socket in is a state of a socket.
LEMMA DialOutcomesAreStates == DialOutcomes \subseteq SocketStates
BY EnvironmentAssumption DEF SocketStates

\* The members that start or end a connection keep the types.
SessionTypeOK ==
  /\ state_ \in States
  /\ my_id_ \in Ids \cup {NoId}
  /\ peers_ \subseteq Ids
  /\ announced \in BOOLEAN
  /\ sock \in [Sockets -> SocketStates]
  /\ onconnect_data_ \in ControlRequests \cup {"none"}
  /\ capacity_data_ \in Capacities \cup {NoCapacity}
  /\ resolver_ \in {"null", "pending", "done"}

LEMMA CloseType ==
  ASSUME Types, NEW sk \in [Sockets -> SocketStates], NEW from, Close(sk, from)
  PROVE  SessionTypeOK'
<1>1. announced' \in BOOLEAN
  BY DEF Close
<1>2. QED
  BY <1>1 DEF Close, ClosedSockets, EndSession, SessionTypeOK, Types, States, SocketStates

LEMMA DialledType ==
  ASSUME Types, NEW sk \in [Sockets -> SocketStates],
         NEW request \in ControlRequests, NEW next \in States,
         NEW resolver \in {"null", "pending", "done"},
         Dialled(sk, request, next, resolver)
  PROVE  SessionTypeOK'
BY DEF Dialled, Redial, SessionTypeOK, Types, SocketStates

LEMMA DoConnectType ==
  ASSUME Types, NEW resolver \in {"null", "pending", "done"}, DoConnect(resolver)
  PROVE  SessionTypeOK'
<1>1. NewSockets \in [Sockets -> SocketStates]
  BY DEF NewSockets, SocketStates
<1>2. CASE Dialled(NewSockets, "sign_in", "SIGNING_IN", resolver)
  BY <1>1, <1>2, DialledType DEF ControlRequests, States
<1>3. CASE DialFailed(NewSockets, state_)
  BY <1>1, <1>3, CloseType DEF DialFailed
<1>4. QED
  BY <1>2, <1>3 DEF DoConnect

LEMMA SignOutFromType ==
  ASSUME Types, NEW sk \in [Sockets -> SocketStates], SignOutFrom(sk)
  PROVE  SessionTypeOK'
<1> DEFINE quiet == HangUp(sk, "hanging")
<1>1. quiet \in [Sockets -> SocketStates]
  BY DEF HangUp, SocketStates
<1>2. CASE Dialled(quiet, "sign_out", "SIGNING_OUT", resolver_)
  BY <1>1, <1>2, DialledType DEF ControlRequests, States, Types
<1>3. CASE DialFailed(quiet, "SIGNING_OUT")
  BY <1>1, <1>3, CloseType DEF DialFailed
<1>4. CASE /\ state_' = "SIGNING_OUT" \/ state_' = "SIGNING_OUT_WAITING"
           /\ sock' = quiet
           /\ UNCHANGED <<my_id_, peers_, announced, onconnect_data_, capacity_data_, resolver_>>
  BY <1>1, <1>4 DEF SessionTypeOK, Types, States
<1>5. QED
  BY <1>2, <1>3, <1>4 DEF SignOutFrom

LEMMA AfterReplyType ==
  ASSUME Types, NEW s \in Sockets, NEW r
  PROVE  AfterReply(s, r) \in [Sockets -> SocketStates]
BY DEF AfterReply, Types, SocketStates

\* The rest of a step: what SessionTypeOK does not speak of.
RestTypeOK ==
  /\ control_data_ \in Replies \cup {NoData}
  /\ orphans \in 0..MaxOrphans
  /\ heartbeat_tick_ms_ \in BOOLEAN
  /\ beats \in 0..MaxBeats
  /\ retries \in 0..MaxRetries
  /\ crashed \in BOOLEAN

LEMMA TypeOKParts == Types <=> SessionTypeOK /\ RestTypeOK
BY DEF Types, SessionTypeOK, RestTypeOK

LEMMA ApplicationType ==
  ASSUME Types, Application
  PROVE  Types'
<1> USE BoundsAssumption
<1>1. CASE Connect
  <2>1. CASE DoConnect(resolver_) /\ UNCHANGED <<control_data_, orphans>>
    <3>1. SessionTypeOK'
      BY <2>1, DoConnectType DEF Types
    <3>2. RestTypeOK'
      BY <1>1, <2>1 DEF Connect, Types, RestTypeOK
    <3>3. QED
      BY <3>1, <3>2, TypeOKParts DEF Types, SessionTypeOK, RestTypeOK
  <2>2. CASE /\ resolver_ = "pending" => orphans < MaxOrphans
             /\ state_' = "RESOLVING"
             /\ resolver_' = "pending"
             /\ orphans' = orphans + IF resolver_ = "pending" THEN 1 ELSE 0
             /\ UNCHANGED <<my_id_, peers_, announced, link>>
    BY <1>1, <2>2 DEF Connect, Types, States
  <2>3. QED
    BY <1>1, <2>1, <2>2 DEF Connect
<1>2. CASE \E value \in Capacities : UpdateCapacity(value)
  BY <1>2, DialOutcomesAreStates DEF UpdateCapacity, Dial, Types
<1>3. CASE SendToPeer
  <2>1. SessionTypeOK'
    <3>1. CASE Dialled(sock, "message", "CONNECTED", resolver_)
      BY <3>1, DialledType DEF Types, ControlRequests, States
    <3>2. CASE DialFailed(sock, "CONNECTED")
      BY <3>2, CloseType DEF DialFailed, Types
    <3>3. QED
      BY <1>3, <3>1, <3>2 DEF SendToPeer
  <2>2. QED
    BY <1>3, <2>1 DEF SendToPeer, Types, SessionTypeOK
<1>4. CASE SignOut
  <2>1. CASE SignOutFrom(sock) /\ UNCHANGED crashed
    <3>1. SessionTypeOK'
      BY <2>1, SignOutFromType DEF Types
    <3>2. QED
      BY <1>4, <2>1, <3>1 DEF SignOut, Types, SessionTypeOK
  <2>2. CASE /\ crashed' = TRUE
             /\ UNCHANGED <<session, sock, onconnect_data_, capacity_data_, resolver_>>
    BY <1>4, <2>2 DEF SignOut, Types
  <2>3. QED
    BY <1>4, <2>1, <2>2 DEF SignOut
<1>5. CASE Shutdown
  <2>1. announced' \in BOOLEAN
    BY <1>5 DEF Shutdown
  <2>2. QED
    BY <1>5, <2>1 DEF Shutdown, Types, States, SocketStates
<1>6. CASE \E enabled \in BOOLEAN : SetHeartbeatMs(enabled)
  BY <1>6 DEF SetHeartbeatMs, Types
<1>7. CASE \E id \in Ids : UpdateConnectionState(id)
  BY <1>7 DEF UpdateConnectionState, Types
<1>8. QED
  BY <1>1, <1>2, <1>3, <1>4, <1>5, <1>6, <1>7 DEF Application

LEMMA OrphanCount ==
  ASSUME Types, OnResolveResult \/ OnOrphanResolveResult
  PROVE  orphans' \in 0..MaxOrphans
<1>1. CASE OnResolveResult
  BY <1>1 DEF OnResolveResult, Types
<1>2. CASE OnOrphanResolveResult
  <2>1. orphans \in 0..MaxOrphans /\ orphans > 0 /\ orphans' = orphans - 1
    BY <1>2 DEF OnOrphanResolveResult, Types
  <2>2. QED
    BY <2>1, BoundsAssumption
<1>3. QED
  BY <1>1, <1>2

LEMMA ResolverType ==
  ASSUME Types, OnResolveResult \/ OnOrphanResolveResult
  PROVE  Types'
<1> USE BoundsAssumption
<1>1. CASE DoConnect("done")
  <2>1. SessionTypeOK'
    BY <1>1, DoConnectType
  <2>2. orphans' \in 0..MaxOrphans
    BY OrphanCount
  <2>3. crashed' \in BOOLEAN /\ control_data_' \in Replies \cup {NoData}
    BY <1>1 DEF OnResolveResult, OnOrphanResolveResult, Types
  <2>4. UNCHANGED timers
    BY DEF OnResolveResult, OnOrphanResolveResult
  <2>5. RestTypeOK'
    BY <2>2, <2>3, <2>4 DEF RestTypeOK, Types
  <2>6. QED
    BY <2>1, <2>5 DEF SessionTypeOK, RestTypeOK, Types
<1>2. CASE ~DoConnect("done")
  <2>1. orphans' \in 0..MaxOrphans
    BY OrphanCount
  <2>2. /\ state_' \in States
        /\ resolver_' \in {"null", "pending", "done"}
        /\ crashed' \in BOOLEAN
        /\ UNCHANGED <<my_id_, peers_, announced, link, timers>>
    BY <1>2 DEF OnResolveResult, OnOrphanResolveResult, ResolveFailed, Types, States
  <2>3. QED
    BY <2>1, <2>2 DEF Types
<1>3. QED
  BY <1>1, <1>2

LEMMA ConnectEventsType ==
  ASSUME Types,
         OnConnect \/ OnHangingGetConnect \/ OnHeartbeatGetConnect \/ OnCapacityConnect
  PROVE  Types'
BY DEF OnConnect, OnHangingGetConnect, OnHeartbeatGetConnect, OnCapacityConnect,
       Types, SocketStates, Requests

LEMMA SignedInType ==
  ASSUME Types, NEW sk \in [Sockets -> SocketStates], SignedIn(sk)
  PROVE  /\ state_' \in States
         /\ announced' \in BOOLEAN
         /\ sock' \in [Sockets -> SocketStates]
BY DialOutcomesAreStates DEF SignedIn, Dial, Types, States

LEMMA ControlReplyType ==
  ASSUME Types, NEW received \in Replies, NEW id \in Ids, NEW present \in SUBSET Ids,
         OnRead(received, id, present)
  PROVE  Types'
<1> DEFINE r == IF control_data_ = NoData THEN received ELSE control_data_
           sk == AfterReply("control", r)
<1>1. sk \in [Sockets -> SocketStates]
  BY AfterReplyType DEF Sockets
<1>2. r \in Replies
  BY DEF Types
<1>3. RestTypeOK'
  BY <1>2 DEF OnRead, Types, RestTypeOK
<1>4. SessionTypeOK'
  <2>1. CASE Close(sk, state_)
    BY <1>1, <2>1, CloseType
  <2>2. CASE SignOutFrom(sk)
    BY <1>1, <2>2, SignOutFromType
  <2>3. CASE /\ SignedIn(sk)
             /\ my_id_' = id /\ peers_' = peers_ \cup (present \ {id})
             /\ UNCHANGED <<onconnect_data_, capacity_data_, resolver_>>
    BY <1>1, <2>3, SignedInType DEF SessionTypeOK, Types
  <2>4. CASE /\ SignedIn(sk)
             /\ UNCHANGED <<my_id_, peers_, onconnect_data_, capacity_data_, resolver_>>
    BY <1>1, <2>4, SignedInType DEF SessionTypeOK, Types
  <2>5. CASE /\ \E outcome \in DialOutcomes : SignedIn(Redial(sk, "control", outcome))
             /\ UNCHANGED <<my_id_, peers_, onconnect_data_, capacity_data_, resolver_>>
    <3>1. PICK outcome \in DialOutcomes : SignedIn(Redial(sk, "control", outcome))
      BY <2>5
    <3>2. Redial(sk, "control", outcome) \in [Sockets -> SocketStates]
      BY <1>1, DialOutcomesAreStates DEF Redial
    <3>3. QED
      BY <2>5, <3>1, <3>2, SignedInType DEF SessionTypeOK, Types
  <2>6. QED
    BY <2>1, <2>2, <2>3, <2>4, <2>5 DEF OnRead
<1>5. QED
  BY <1>3, <1>4 DEF SessionTypeOK, RestTypeOK, Types

LEMMA PollReplyType ==
  ASSUME Types, NEW r \in Replies, NEW changed \in SUBSET Ids, OnHangingGetRead(r, changed)
  PROVE  Types'
<1> DEFINE closed == AfterReply("hanging", r)
<1>1. closed \in [Sockets -> SocketStates]
  BY AfterReplyType DEF Sockets
<1>2. RestTypeOK'
  BY DEF OnHangingGetRead, Types, RestTypeOK
<1>3. SessionTypeOK'
  <2>1. PICK outcome \in DialOutcomes, again \in DialOutcomes :
          LET sk == IF r.close /\ Emitted("hanging") = Get("hanging")
                    THEN Rearmed(closed, again) ELSE closed
          IN \/ /\ r.status = "200"
                /\ peers_' = changed
                /\ sock' = Rearmed(sk, outcome)
                /\ UNCHANGED <<state_, my_id_, announced, onconnect_data_,
                               capacity_data_, resolver_>>
             \/ /\ r.status = "500"
                /\ sock' = Rearmed(Redial(sk, "hanging", again), outcome)
                /\ UNCHANGED <<session, onconnect_data_, capacity_data_, resolver_>>
             \/ /\ r.status = "error"
                /\ Close(sk, state_)
    BY DEF OnHangingGetRead
  <2> DEFINE sk == IF r.close /\ Emitted("hanging") = Get("hanging")
                   THEN Rearmed(closed, again) ELSE closed
  <2>2. sk \in [Sockets -> SocketStates]
    BY <1>1, DialOutcomesAreStates DEF Rearmed, Dial
  <2>3. Rearmed(sk, outcome) \in [Sockets -> SocketStates]
    BY <2>2, DialOutcomesAreStates DEF Rearmed, Dial
  <2>4. Rearmed(Redial(sk, "hanging", again), outcome) \in [Sockets -> SocketStates]
    BY <2>2, DialOutcomesAreStates DEF Rearmed, Dial, Redial
  <2>5. CASE Close(sk, state_)
    BY <2>2, <2>5, CloseType
  <2>6. CASE ~Close(sk, state_)
    BY <2>1, <2>3, <2>4, <2>6 DEF SessionTypeOK, Types
  <2>7. QED
    BY <2>5, <2>6
<1>4. QED
  BY <1>2, <1>3 DEF SessionTypeOK, RestTypeOK, Types

LEMMA PostBeatType ==
  ASSUME beats \in 0..MaxBeats, NEW wanted \in BOOLEAN, PostBeat(wanted)
  PROVE  beats' \in 0..MaxBeats
BY BoundsAssumption DEF PostBeat

LEMMA OtherEventsType ==
  ASSUME Types,
         \/ HeartbeatReply \/ CapacityReply \/ OnHeartbeatGetClose \/ CapacityClose
         \/ OnHeartbeatMessage
         \/ \E s \in {"control", "hanging"} : OnClose(s)
  PROVE  Types'
<1> USE BoundsAssumption
<1>1. CASE HeartbeatReply
  <2>1. PICK r \in Replies : OnHeartbeatGetRead(r)
    BY <1>1 DEF HeartbeatReply
  <2>2. sock' \in [Sockets -> SocketStates]
    BY <2>1, AfterReplyType DEF OnHeartbeatGetRead, Sockets
  <2>3. beats' \in 0..MaxBeats
    BY <2>1, PostBeatType DEF OnHeartbeatGetRead, Types
  <2>4. QED
    BY <2>1, <2>2, <2>3 DEF OnHeartbeatGetRead, Types
<1>2. CASE CapacityReply
  BY <1>2 DEF CapacityReply, OnCapacityRead, AfterReply, Types, SocketStates
<1>3. CASE OnHeartbeatGetClose
  <2>1. beats' \in 0..MaxBeats
    BY <1>3, PostBeatType DEF OnHeartbeatGetClose, Types
  <2>2. QED
    BY <1>3, <2>1 DEF OnHeartbeatGetClose, HangUp, Types, SocketStates
<1>4. CASE CapacityClose
  BY <1>4 DEF CapacityClose, HangUp, Types, SocketStates
<1>5. CASE OnHeartbeatMessage
  <2>1. beats' \in 0..MaxBeats
    <3>1. beats \in 0..MaxBeats /\ beats > 0 /\ beats' = beats - 1
      BY <1>5 DEF OnHeartbeatMessage, Types
    <3>2. QED
      BY <3>1
  <2>2. sock' \in [Sockets -> SocketStates]
    BY <1>5, DialOutcomesAreStates DEF OnHeartbeatMessage, Redial, Types
  <2>3. QED
    BY <1>5, <2>1, <2>2 DEF OnHeartbeatMessage, Types
<1>6. CASE \E s \in {"control", "hanging"} : OnClose(s)
  BY <1>6, DialOutcomesAreStates DEF OnClose, Redial, HangUp, Types, SocketStates
<1>7. QED
  BY <1>1, <1>2, <1>3, <1>4, <1>5, <1>6

LEMMA RefusedType ==
  ASSUME Types, NEW s \in {"control", "hanging"}, OnCloseRefused(s)
  PROVE  Types'
<1> USE BoundsAssumption
<1>1. HangUp(sock, s) \in [Sockets -> SocketStates]
  BY DEF HangUp, Types, SocketStates
<1>2. CASE Close(HangUp(sock, s), state_)
  <2>1. SessionTypeOK'
    BY <1>1, <1>2, CloseType
  <2>2. QED
    BY <2>1 DEF OnCloseRefused, SessionTypeOK, Types
<1>3. CASE ~Close(HangUp(sock, s), state_)
  BY <1>1, <1>3 DEF OnCloseRefused, Types
<1>4. QED
  BY <1>2, <1>3

LEMMA RetryType ==
  ASSUME Types, OnRetryMessage
  PROVE  Types'
<1>1. SessionTypeOK'
  BY DoConnectType DEF OnRetryMessage, Types
<1>2. QED
  BY <1>1, BoundsAssumption DEF OnRetryMessage, SessionTypeOK, Types

\* Every step keeps every variable of the client in its type.
LEMMA TypesHold == Spec => []Types
<1>1. ASSUME Init PROVE Types
  <2>1. sock \in [Sockets -> SocketStates]
    BY <1>1 DEF Init, SocketStates
  <2>2. orphans \in 0..MaxOrphans /\ beats \in 0..MaxBeats /\ retries \in 0..MaxRetries
    BY <1>1, BoundsAssumption DEF Init
  <2>3. QED
    BY <1>1, <2>1, <2>2 DEF Init, Types, States
<1>2. Types /\ [Next]_vars => Types'
  <2> SUFFICES ASSUME Types, [Next]_vars PROVE Types'
    OBVIOUS
  <2>1. CASE Application
    BY <2>1, ApplicationType
  <2>2. CASE OnResolveResult \/ OnOrphanResolveResult
    BY <2>2, ResolverType
  <2>3. CASE OnConnect \/ OnHangingGetConnect \/ OnHeartbeatGetConnect \/ OnCapacityConnect
    BY <2>3, ConnectEventsType
  <2>4. CASE ControlReply
    BY <2>4, ControlReplyType DEF ControlReply
  <2>5. CASE PollReply
    <3>1. peers_ \in SUBSET Ids
      BY DEF Types
    <3>2. PICK r \in Replies, changed \in SUBSET Ids : OnHangingGetRead(r, changed)
      BY <2>5, <3>1 DEF PollReply
    <3>3. QED
      BY <3>2, PollReplyType
  <2>6. CASE \/ HeartbeatReply \/ CapacityReply \/ OnHeartbeatGetClose \/ CapacityClose
             \/ OnHeartbeatMessage
             \/ \E s \in {"control", "hanging"} : OnClose(s)
    BY <2>6, OtherEventsType
  <2>7. CASE \E s \in {"control", "hanging"} : OnCloseRefused(s)
    BY <2>7, RefusedType
  <2>8. CASE OnRetryMessage
    BY <2>8, RetryType
  <2>9. CASE UNCHANGED vars
    BY <2>9 DEF vars, Types
  <2>10. QED
    BY <2>1, <2>2, <2>3, <2>4, <2>5, <2>6, <2>7, <2>8, <2>9 DEF Next, Network, Timer
<1>3. QED
  BY <1>1, <1>2, PTL DEF Spec

\* No member that takes sockets that exist leaves one that does not.
Exist(sk) == \A s \in Sockets : sk[s] # "null"

LEMMA SocketsLast ==
  ASSUME NEW sk \in [Sockets -> SocketStates], Exist(sk), NEW s \in Sockets,
         NEW outcome \in DialOutcomes \cup {"closed", "connecting"}
  PROVE  /\ Exist(Redial(sk, s, outcome)) /\ Exist(HangUp(sk, s)) /\ Exist(Dial(sk, s, outcome))
         /\ Redial(sk, s, outcome) \in [Sockets -> SocketStates]
         /\ HangUp(sk, s) \in [Sockets -> SocketStates]
         /\ Dial(sk, s, outcome) \in [Sockets -> SocketStates]
         /\ Exist(ClosedSockets(sk))
BY EnvironmentAssumption
DEF Exist, Redial, HangUp, Dial, ClosedSockets, SocketStates

LEMMA CloseLasts ==
  ASSUME NEW sk \in [Sockets -> SocketStates], Exist(sk), NEW from,
         \/ Close(sk, from) \/ DialFailed(sk, from) \/ SignOutFrom(sk)
         \/ \E request, next, resolver : Dialled(sk, request, next, resolver)
         \/ SignedIn(sk)
  PROVE  Exist(sock')
<1>0. "control" \in Sockets /\ "hanging" \in Sockets /\ "heartbeat" \in Sockets
  BY DEF Sockets
<1>1. CASE Close(sk, from) \/ DialFailed(sk, from)
  BY <1>0, <1>1, SocketsLast DEF Close, DialFailed
<1>2. CASE \E request, next, resolver : Dialled(sk, request, next, resolver)
  BY <1>0, <1>2, SocketsLast DEF Dialled
<1>3. CASE SignOutFrom(sk)
  <2> DEFINE quiet == HangUp(sk, "hanging")
  <2>1. Exist(quiet) /\ quiet \in [Sockets -> SocketStates]
    BY <1>0, SocketsLast
  <2>2. Exist(Redial(quiet, "control", "connecting")) /\ Exist(ClosedSockets(quiet))
    BY <1>0, <2>1, SocketsLast
  <2> HIDE DEF quiet
  <2>3. \/ sock' = quiet \/ sock' = ClosedSockets(quiet)
        \/ sock' = Redial(quiet, "control", "connecting")
    BY <1>3 DEF SignOutFrom, Dialled, DialFailed, Close, quiet
  <2>4. QED
    BY <2>1, <2>2, <2>3
<1>4. CASE SignedIn(sk)
  <2>1. PICK polls \in DialOutcomes, beat \in DialOutcomes :
          LET dialled == Dial(sk, "hanging", polls)
          IN sock' \in {sk, dialled, Dial(dialled, "heartbeat", beat)}
    BY <1>4 DEF SignedIn
  <2> DEFINE dialled == Dial(sk, "hanging", polls)
  <2>2. Exist(dialled) /\ dialled \in [Sockets -> SocketStates]
    BY <1>0, SocketsLast
  <2>3. Exist(Dial(dialled, "heartbeat", beat))
    BY <1>0, <2>2, SocketsLast
  <2>4. QED
    BY <2>1, <2>2, <2>3
<1>5. QED
  BY <1>1, <1>2, <1>3, <1>4

\* DoConnect allocates every socket.
LEMMA DoConnectAllocates ==
  ASSUME NEW resolver, DoConnect(resolver)
  PROVE  AllAllocated'
<1>1. Exist(NewSockets) /\ NewSockets \in [Sockets -> SocketStates]
  BY DEF Exist, NewSockets, SocketStates
<1>2. Exist(sock')
  BY <1>1, CloseLasts DEF DoConnect
<1>3. QED
  BY <1>2 DEF Exist, AllAllocated

LEMMA ApplicationAllocates ==
  ASSUME Types, Allocated, Application
  PROVE  Allocated'
<1>1. CASE Connect
  BY <1>1, DoConnectAllocates DEF Connect, Allocated, AllAllocated, NoneAllocated
<1>2. CASE \E value \in Capacities : UpdateCapacity(value)
  <2>1. AllAllocated
    BY <1>2 DEF UpdateCapacity, Allocated
  <2>2. Exist(sock')
    BY <1>2, <2>1, SocketsLast DEF UpdateCapacity, AllAllocated, Exist, Types, Sockets
  <2>3. QED
    BY <2>2 DEF Exist, Allocated, AllAllocated
<1>3. CASE SendToPeer
  <2>1. Exist(sock) /\ sock \in [Sockets -> SocketStates]
    BY <1>3 DEF SendToPeer, Allocated, AllAllocated, Exist, Types
  <2>2. Exist(sock')
    BY <1>3, <2>1, CloseLasts DEF SendToPeer
  <2>3. QED
    BY <2>2 DEF Exist, Allocated, AllAllocated
<1>4. CASE SignOut
  <2>1. CASE sock["hanging"] = "null"
    BY <1>4, <2>1 DEF SignOut, Allocated, AllAllocated, NoneAllocated
  <2>2. CASE sock["hanging"] # "null"
    <3>1. Exist(sock) /\ sock \in [Sockets -> SocketStates]
      BY <2>2 DEF Allocated, AllAllocated, NoneAllocated, Exist, Types, Sockets
    <3>2. Exist(sock')
      BY <1>4, <2>2, <3>1, CloseLasts DEF SignOut
    <3>3. QED
      BY <3>2 DEF Exist, Allocated, AllAllocated
  <2>3. QED
    BY <2>1, <2>2
<1>5. CASE Shutdown
  BY <1>5 DEF Shutdown, Allocated, AllAllocated, NoneAllocated
<1>6. CASE \/ \E enabled \in BOOLEAN : SetHeartbeatMs(enabled)
           \/ \E id \in Ids : UpdateConnectionState(id)
  BY <1>6 DEF SetHeartbeatMs, UpdateConnectionState, Allocated, AllAllocated, NoneAllocated
<1>7. QED
  BY <1>1, <1>2, <1>3, <1>4, <1>5, <1>6 DEF Application

LEMMA TimerAllocates ==
  ASSUME Types, Allocated, Timer \/ OnResolveResult \/ OnOrphanResolveResult
  PROVE  Allocated'
<1>1. CASE OnResolveResult \/ OnOrphanResolveResult \/ OnRetryMessage
  BY <1>1, DoConnectAllocates
  DEF OnResolveResult, OnOrphanResolveResult, OnRetryMessage, ResolveFailed,
      Allocated, AllAllocated, NoneAllocated
<1>2. CASE OnHeartbeatMessage
  <2>1. CASE state_ = "CONNECTED"
    <3>1. Exist(sock) /\ sock \in [Sockets -> SocketStates]
      BY <2>1 DEF Allocated, AllAllocated, Exist, Types
    <3>2. Exist(sock')
      BY <1>2, <2>1, <3>1, SocketsLast DEF OnHeartbeatMessage, Sockets
    <3>3. QED
      BY <3>2 DEF Exist, Allocated, AllAllocated
  <2>2. CASE state_ # "CONNECTED"
    BY <1>2, <2>2 DEF OnHeartbeatMessage, Allocated, AllAllocated, NoneAllocated
  <2>3. QED
    BY <2>1, <2>2
<1>3. QED
  BY <1>1, <1>2 DEF Timer

\* A connection that has an event is one of a socket that exists.
LEMMA NetworkAllocates ==
  ASSUME Types, Allocated, Network
  PROVE  Allocated'
<1>0. /\ "control" \in Sockets /\ "hanging" \in Sockets
      /\ "heartbeat" \in Sockets /\ "capacity" \in Sockets
  BY DEF Sockets
<1>1. SUFFICES ASSUME ~(OnResolveResult \/ OnOrphanResolveResult), Exist(sock) PROVE Exist(sock')
  <2>1. CASE OnResolveResult \/ OnOrphanResolveResult
    BY <2>1, TimerAllocates
  <2>2. CASE ~(OnResolveResult \/ OnOrphanResolveResult)
    <3>1. ~NoneAllocated
      BY <1>0, <2>2
      DEF Network, NoneAllocated, OnConnect, OnHangingGetConnect, OnHeartbeatGetConnect,
          OnCapacityConnect, ControlReply, OnRead, PollReply, OnHangingGetRead, HeartbeatReply,
          OnHeartbeatGetRead, CapacityReply, OnCapacityRead, OnClose, OnCloseRefused,
          OnHeartbeatGetClose, CapacityClose, Drops, Refuses, Open, ControlRequests
    <3>2. Exist(sock)
      BY <3>1 DEF Allocated, AllAllocated, Exist
    <3>3. QED
      BY <1>1, <2>2, <3>2 DEF Allocated, AllAllocated, Exist
  <2>3. QED
    BY <2>1, <2>2
<1>2. sock \in [Sockets -> SocketStates] /\ onconnect_data_ \in ControlRequests \cup {"none"}
  BY DEF Types
<1>3. CASE OnConnect \/ OnHangingGetConnect \/ OnHeartbeatGetConnect \/ OnCapacityConnect
  BY <1>0, <1>1, <1>2, <1>3
  DEF OnConnect, OnHangingGetConnect, OnHeartbeatGetConnect, OnCapacityConnect, Exist,
      ControlRequests
<1>4. ASSUME NEW s \in Sockets, NEW r
      PROVE  Exist(AfterReply(s, r)) /\ AfterReply(s, r) \in [Sockets -> SocketStates]
  BY <1>1, <1>2 DEF Exist, AfterReply, SocketStates
<1>5. CASE ControlReply
  <2>1. PICK received \in Replies, id \in Ids, present \in SUBSET Ids :
          OnRead(received, id, present)
    BY <1>5 DEF ControlReply
  <2> DEFINE r == IF control_data_ = NoData THEN received ELSE control_data_
             sk == AfterReply("control", r)
  <2>2. Exist(sk) /\ sk \in [Sockets -> SocketStates]
    BY <1>0, <1>4
  <2> HIDE DEF sk
  <2>3. \/ SignedIn(sk) \/ Close(sk, state_) \/ SignOutFrom(sk)
        \/ \E outcome \in DialOutcomes : SignedIn(Redial(sk, "control", outcome))
    BY <2>1 DEF OnRead, sk
  <2>4. CASE \E outcome \in DialOutcomes : SignedIn(Redial(sk, "control", outcome))
    <3>1. PICK outcome \in DialOutcomes : SignedIn(Redial(sk, "control", outcome))
      BY <2>4
    <3>2. /\ Exist(Redial(sk, "control", outcome))
          /\ Redial(sk, "control", outcome) \in [Sockets -> SocketStates]
      BY <1>0, <2>2, SocketsLast
    <3>3. QED
      BY <3>1, <3>2, CloseLasts
  <2>5. QED
    BY <2>2, <2>3, <2>4, CloseLasts
<1>6. CASE PollReply
  <2>1. PICK r \in Replies : \E changed : OnHangingGetRead(r, changed)
    BY <1>6 DEF PollReply
  <2> DEFINE closed == AfterReply("hanging", r)
  <2>2. PICK outcome \in DialOutcomes, again \in DialOutcomes :
          LET sk == IF r.close /\ Emitted("hanging") = Get("hanging")
                    THEN Rearmed(closed, again) ELSE closed
          IN \/ sock' = Rearmed(sk, outcome)
             \/ sock' = Rearmed(Redial(sk, "hanging", again), outcome)
             \/ Close(sk, state_)
    BY <2>1 DEF OnHangingGetRead
  <2> DEFINE sk == IF r.close /\ Emitted("hanging") = Get("hanging")
                   THEN Rearmed(closed, again) ELSE closed
  <2>3. Exist(closed) /\ closed \in [Sockets -> SocketStates]
    BY <1>0, <1>4
  <2>4. ASSUME NEW on, on \in [Sockets -> SocketStates], Exist(on), NEW end \in DialOutcomes
        PROVE  Exist(Rearmed(on, end)) /\ Rearmed(on, end) \in [Sockets -> SocketStates]
    BY <1>0, <2>4, SocketsLast DEF Rearmed
  <2>5. Exist(sk) /\ sk \in [Sockets -> SocketStates]
    BY <2>3, <2>4
  <2>6. /\ Exist(Redial(sk, "hanging", again))
        /\ Redial(sk, "hanging", again) \in [Sockets -> SocketStates]
    BY <1>0, <2>5, SocketsLast
  <2>7. Exist(Rearmed(sk, outcome)) /\ Exist(Rearmed(Redial(sk, "hanging", again), outcome))
    BY <2>4, <2>5, <2>6
  <2>8. CASE Close(sk, state_)
    BY <2>5, <2>8, CloseLasts
  <2> HIDE DEF sk
  <2>9. QED
    BY <2>2, <2>7, <2>8 DEF sk
<1>7. CASE HeartbeatReply \/ CapacityReply
  BY <1>0, <1>4, <1>7 DEF HeartbeatReply, CapacityReply, OnHeartbeatGetRead, OnCapacityRead
<1>8. CASE \E s \in {"control", "hanging"} : OnClose(s)
  BY <1>0, <1>1, <1>2, <1>8, SocketsLast DEF OnClose
<1>9. CASE \E s \in {"control", "hanging"} : OnCloseRefused(s)
  <2>1. PICK s \in {"control", "hanging"} : OnCloseRefused(s)
    BY <1>9
  <2>2. Exist(HangUp(sock, s)) /\ HangUp(sock, s) \in [Sockets -> SocketStates]
    BY <1>0, <1>1, <1>2, SocketsLast
  <2>3. sock' = HangUp(sock, s) \/ Close(HangUp(sock, s), state_)
    BY <2>1 DEF OnCloseRefused
  <2>4. QED
    BY <2>2, <2>3, CloseLasts
<1>10. CASE OnHeartbeatGetClose \/ CapacityClose
  BY <1>0, <1>1, <1>2, <1>10, SocketsLast DEF OnHeartbeatGetClose, CapacityClose
<1>11. QED
  BY <1>1, <1>3, <1>5, <1>6, <1>7, <1>8, <1>9, <1>10 DEF Network

\* Every step keeps every variable of the client in its type, and no socket is
\* used before DoConnect has allocated all four.
THEOREM TypeCorrect == Spec => []TypeOK
<1>1. ASSUME Init PROVE Allocated
  BY <1>1 DEF Init, Allocated, NoneAllocated
<1>2. Types /\ Allocated /\ [Next]_vars => Allocated'
  <2>1. CASE UNCHANGED vars
    BY <2>1 DEF vars, Allocated, AllAllocated, NoneAllocated
  <2>2. QED
    BY <2>1, ApplicationAllocates, NetworkAllocates, TimerAllocates DEF Next
<1>3. QED
  BY <1>1, <1>2, TypesHold, PTL DEF Spec, TypeOK
=============================================================================
