--------------------- MODULE PeerConnectionClientSafety ---------------------
(***************************************************************************)
(* Safety of PeerConnectionClient that no application, socket factory or   *)
(* network can break: the inductive invariant AnyUse and what follows from *)
(* it, for all values of the constants.                                    *)
(***************************************************************************)
EXTENDS PeerConnectionClientProofs

\* A request for which the server needs an id, sent or prepared, has one.
RequestsHaveId == InProgress \in {"message", "sign_out"} => my_id_ # NoId

\* A connection being made while SIGNING_OUT is not for another request.
SignOutIsPrepared ==
  state_ = "SIGNING_OUT" /\ sock["control"] = "connecting"
    => onconnect_data_ \in {"none", "sign_out"}

AnyUse ==
  /\ NoStaleRequest
  /\ RequestsHaveId
  /\ QuietSignIn
  /\ QuietSignOut
  /\ SignOutAwaitsSignOut
  /\ SignOutIsPrepared
  /\ CapacityHasValue
  /\ ConnectedWasAnnounced

USE DEF session, link, resolving, timers, Connected

LEMMA AnyUseInit == Init => AnyUse
BY DEF Init, AnyUse, NoStaleRequest, RequestsHaveId, InProgress, QuietSignIn, QuietSignOut,
       SignOutAwaitsSignOut, SignOutIsPrepared, CapacityHasValue, ConnectedWasAnnounced,
       Requests, ControlRequests, Sockets, SigningOut

\* Close() ends in a state that satisfies AnyUse, whatever state it is called
\* in.
LEMMA CloseAnyUse ==
  ASSUME NEW sk \in [Sockets -> SocketStates], NEW from, Close(sk, from)
  PROVE  AnyUse'
BY DEF Close, ClosedSockets, EndSession, AnyUse, NoStaleRequest, RequestsHaveId, InProgress,
       QuietSignIn, QuietSignOut, SignOutAwaitsSignOut, SignOutIsPrepared, CapacityHasValue,
       ConnectedWasAnnounced, Requests, ControlRequests, Sockets, SigningOut

LEMMA DialledAnyUse ==
  ASSUME NEW sk \in [Sockets -> SocketStates], NEW request \in ControlRequests,
         NEW next \in States, NEW resolver, Dialled(sk, request, next, resolver),
         request \in {"message", "sign_out"} => my_id_ # NoId,
         next = "SIGNING_IN" => \A s \in Sockets \ {"control"} : sk[s] = "closed",
         next \in SigningOut => sk["hanging"] = "closed" /\ request = "sign_out",
         sk["capacity"] = "connecting" => capacity_data_ # NoCapacity,
         next = "CONNECTED" => announced
  PROVE  AnyUse'
BY DEF Dialled, Redial, AnyUse, NoStaleRequest, RequestsHaveId, InProgress,
       QuietSignIn, QuietSignOut, SignOutAwaitsSignOut, SignOutIsPrepared, CapacityHasValue,
       ConnectedWasAnnounced, Requests, ControlRequests, Sockets, SigningOut, States

LEMMA DoConnectAnyUse ==
  ASSUME NEW resolver \in {"null", "pending", "done"}, DoConnect(resolver)
  PROVE  AnyUse'
<1>1. NewSockets \in [Sockets -> SocketStates]
  BY DEF NewSockets, SocketStates
<1>2. CASE Dialled(NewSockets, "sign_in", "SIGNING_IN", resolver)
  BY <1>1, <1>2, DialledAnyUse DEF NewSockets, ControlRequests, States, SigningOut, Sockets
<1>3. CASE DialFailed(NewSockets, state_)
  BY <1>1, <1>3, CloseAnyUse DEF DialFailed
<1>4. QED
  BY <1>2, <1>3 DEF DoConnect

\* The sockets when SignOut() runs: as they were, or after a complete reply
\* on the control connection.
Finished(sk) ==
  /\ sk \in [Sockets -> SocketStates]
  /\ \A s \in Sockets \ {"control"} : sk[s] = sock[s]
  /\ \/ sk["control"] = sock["control"]
     \/ sock["control"] \in ControlRequests /\ sk["control"] \in {"closed", "idle"}

LEMMA SignOutFromAnyUse ==
  ASSUME Types, AnyUse, NEW sk, Finished(sk), SignOutFrom(sk)
  PROVE  AnyUse'
<1> DEFINE quiet == HangUp(sk, "hanging")
<1>1. /\ quiet \in [Sockets -> SocketStates]
      /\ quiet["hanging"] = "closed"
      /\ quiet["capacity"] = sock["capacity"]
      /\ quiet["control"] = sk["control"]
  BY DEF HangUp, Finished, Sockets, SocketStates
<1>2. CASE Dialled(quiet, "sign_out", "SIGNING_OUT", resolver_) /\ my_id_ # NoId
  BY <1>1, <1>2, DialledAnyUse
     DEF ControlRequests, States, SigningOut, AnyUse, CapacityHasValue
<1>3. CASE DialFailed(quiet, "SIGNING_OUT")
  BY <1>1, <1>3, CloseAnyUse DEF DialFailed
<1>4. CASE /\ \/ quiet["control"] = "closed" /\ my_id_ = NoId /\ state_' = "SIGNING_OUT"
              \/ quiet["control"] # "closed" /\ state_' = "SIGNING_OUT_WAITING"
           /\ sock' = quiet
           /\ UNCHANGED <<my_id_, peers_, announced, onconnect_data_, capacity_data_, resolver_>>
  BY <1>1, <1>4
     DEF Finished, AnyUse, NoStaleRequest, RequestsHaveId, InProgress,
         QuietSignIn, QuietSignOut, SignOutAwaitsSignOut, SignOutIsPrepared, CapacityHasValue,
         ConnectedWasAnnounced, Requests, ControlRequests, Sockets, SigningOut
<1>5. QED
  BY <1>2, <1>3, <1>4 DEF SignOutFrom

\* The end of OnRead: sk are the sockets after the reply, the control socket
\* perhaps connecting again with nothing prepared.
LEMMA SignedInAnyUse ==
  ASSUME Types, AnyUse,
         NEW sk \in [Sockets -> SocketStates],
         \A s \in Sockets \ {"control"} : sk[s] = sock[s],
         sk["control"] \in {"closed", "idle", "connecting"},
         onconnect_data_ = "none",
         SignedIn(sk), UNCHANGED <<onconnect_data_, capacity_data_>>
  PROVE  AnyUse'
<1>1. CASE CompletesSignIn
  <2>1. /\ state_' = "CONNECTED" /\ announced' = TRUE
        /\ sock'["control"] = sk["control"] /\ sock'["capacity"] = sock["capacity"]
    BY <1>1 DEF SignedIn, Dial, Sockets
  <2>2. QED
    BY <2>1 DEF AnyUse, NoStaleRequest, RequestsHaveId, InProgress,
         QuietSignIn, QuietSignOut, SignOutAwaitsSignOut, SignOutIsPrepared, CapacityHasValue,
         ConnectedWasAnnounced, Requests, ControlRequests, SigningOut
<1>2. CASE ~CompletesSignIn
  <2>1. sock' = sk /\ UNCHANGED <<state_, announced>>
    BY <1>2 DEF SignedIn
  <2>2. QED
    BY <2>1, <1>2 DEF CompletesSignIn, AnyUse, NoStaleRequest, RequestsHaveId, InProgress,
         QuietSignIn, QuietSignOut, SignOutAwaitsSignOut, SignOutIsPrepared, CapacityHasValue,
         ConnectedWasAnnounced, Requests, ControlRequests, SigningOut, Sockets
<1>3. QED
  BY <1>1, <1>2

LEMMA ControlReplyAnyUse ==
  ASSUME Types, AnyUse, NEW received \in Replies, NEW id \in Ids, NEW present \in SUBSET Ids,
         OnRead(received, id, present)
  PROVE  AnyUse'
<1> DEFINE r == IF control_data_ = NoData THEN received ELSE control_data_
           sk == AfterReply("control", r)
<1>1. /\ sk \in [Sockets -> SocketStates]
      /\ \A s \in Sockets \ {"control"} : sk[s] = sock[s]
      /\ sk["control"] \in {"closed", "idle"}
  BY AfterReplyType DEF AfterReply, Sockets, Types
<1>2. sock["control"] \in ControlRequests
  BY DEF OnRead
<1>3. onconnect_data_ = "none"
  BY <1>2 DEF AnyUse, NoStaleRequest, Requests
<1>4. CASE Close(sk, state_)
  BY <1>1, <1>4, CloseAnyUse
<1>5. CASE SignOutFrom(sk)
  BY <1>1, <1>2, <1>5, SignOutFromAnyUse DEF Finished
<1>6. CASE SignedIn(sk) /\ UNCHANGED <<onconnect_data_, capacity_data_>>
  BY <1>1, <1>3, <1>6, SignedInAnyUse
<1>7. CASE /\ \E outcome \in DialOutcomes : SignedIn(Redial(sk, "control", outcome))
           /\ UNCHANGED <<onconnect_data_, capacity_data_>>
  <2>1. PICK outcome \in DialOutcomes : SignedIn(Redial(sk, "control", outcome))
    BY <1>7
  <2>2. /\ Redial(sk, "control", outcome) \in [Sockets -> SocketStates]
        /\ \A s \in Sockets \ {"control"} : Redial(sk, "control", outcome)[s] = sock[s]
        /\ Redial(sk, "control", outcome)["control"] \in {"closed", "idle", "connecting"}
    BY <1>1, EnvironmentAssumption DEF Redial, Sockets, SocketStates
  <2>3. QED
    BY <1>3, <1>7, <2>1, <2>2, SignedInAnyUse
<1>8. QED
  BY <1>4, <1>5, <1>6, <1>7 DEF OnRead

LEMMA PollReplyAnyUse ==
  ASSUME Types, AnyUse, NEW r \in Replies, NEW changed \in SUBSET Ids,
         OnHangingGetRead(r, changed)
  PROVE  AnyUse'
<1>1. state_ \notin SigningOut \cup {"SIGNING_IN"}
  BY DEF OnHangingGetRead, AnyUse, QuietSignIn, QuietSignOut, Sockets
<1>2. CASE /\ UNCHANGED <<state_, my_id_, announced, onconnect_data_, capacity_data_>>
           /\ sock'["control"] = sock["control"] /\ sock'["capacity"] = sock["capacity"]
  BY <1>1, <1>2 DEF AnyUse, NoStaleRequest, RequestsHaveId, InProgress,
         QuietSignIn, QuietSignOut, SignOutAwaitsSignOut, SignOutIsPrepared, CapacityHasValue,
         ConnectedWasAnnounced, SigningOut
<1>3. QED
  <2> DEFINE closed == AfterReply("hanging", r)
  <2>1. PICK outcome \in DialOutcomes, again \in DialOutcomes :
          LET sk == IF r.close /\ Emitted("hanging") = Get("hanging")
                    THEN Rearmed(closed, again) ELSE closed
          IN \/ /\ r.status = "200"
                /\ peers_' = changed
                /\ sock' = Rearmed(sk, outcome)
                /\ UNCHANGED <<state_, my_id_, announced, onconnect_data_,
                               capacity_data_, resolver_>>
             \/ /\ r.status = "500"
                /\ sock' = Rearmed(Redial(sk, "hanging", again), outcome)
                /\ UNCHANGED <<session, onconnect_data_, capacity_data_, resolver_>>
             \/ /\ r.status = "error"
                /\ Close(sk, state_)
    BY DEF OnHangingGetRead
  <2> DEFINE sk == IF r.close /\ Emitted("hanging") = Get("hanging")
                   THEN Rearmed(closed, again) ELSE closed
  <2>2. closed \in [Sockets -> SocketStates]
    BY AfterReplyType DEF Sockets
  <2>3. sk \in [Sockets -> SocketStates]
    BY <2>2, DialOutcomesAreStates DEF Rearmed, Dial
  <2>4. /\ closed["control"] = sock["control"] /\ closed["capacity"] = sock["capacity"]
        /\ sk["control"] = sock["control"] /\ sk["capacity"] = sock["capacity"]
    BY <2>2 DEF AfterReply, Rearmed, Dial, Types, Sockets
  <2>5. /\ Rearmed(sk, outcome)["control"] = sock["control"]
        /\ Rearmed(sk, outcome)["capacity"] = sock["capacity"]
        /\ Rearmed(Redial(sk, "hanging", again), outcome)["control"] = sock["control"]
        /\ Rearmed(Redial(sk, "hanging", again), outcome)["capacity"] = sock["capacity"]
    BY <2>3, <2>4 DEF Rearmed, Dial, Redial, Sockets
  <2>6. CASE Close(sk, state_)
    BY <2>3, <2>6, CloseAnyUse
  <2>7. CASE ~Close(sk, state_)
    <3>1. /\ UNCHANGED <<state_, my_id_, announced, onconnect_data_, capacity_data_>>
          /\ \/ sock' = Rearmed(sk, outcome)
             \/ sock' = Rearmed(Redial(sk, "hanging", again), outcome)
      BY <2>1, <2>7
    <3>2. QED
      BY <1>2, <2>5, <3>1
  <2>8. QED
    BY <2>6, <2>7

LEMMA ApplicationAnyUse ==
  ASSUME Types, AnyUse, Application
  PROVE  AnyUse'
<1>1. CASE Connect
  <2>1. CASE DoConnect(resolver_)
    BY <2>1, DoConnectAnyUse DEF Types
  <2>2. CASE state_' = "RESOLVING" /\ UNCHANGED <<my_id_, announced, link>>
    BY <2>2 DEF AnyUse, NoStaleRequest, RequestsHaveId, InProgress, QuietSignIn, QuietSignOut,
         SignOutAwaitsSignOut, SignOutIsPrepared, CapacityHasValue, ConnectedWasAnnounced,
         SigningOut
  <2>3. QED
    BY <1>1, <2>1, <2>2 DEF Connect
<1>2. CASE \E value \in Capacities : UpdateCapacity(value)
  <2>1. PICK value \in Capacities : UpdateCapacity(value)
    BY <1>2
  <2>2. /\ sock'["control"] = sock["control"] /\ capacity_data_' # NoCapacity
        /\ state_ = "CONNECTED" /\ UNCHANGED <<session, onconnect_data_>>
    BY <2>1, CapacityAssumption DEF UpdateCapacity, Dial, Sockets, Types
  <2>3. QED
    BY <2>2 DEF AnyUse, NoStaleRequest, RequestsHaveId, InProgress, QuietSignIn, QuietSignOut,
         SignOutAwaitsSignOut, SignOutIsPrepared, CapacityHasValue, ConnectedWasAnnounced,
         SigningOut
<1>3. CASE SendToPeer
  <2>1. /\ sock \in [Sockets -> SocketStates] /\ sock["control"] = "closed"
        /\ my_id_ # NoId /\ announced
        /\ sock["capacity"] = "connecting" => capacity_data_ # NoCapacity
    BY <1>3 DEF SendToPeer, Types, AnyUse, CapacityHasValue, ConnectedWasAnnounced
  <2>2. CASE Dialled(sock, "message", "CONNECTED", resolver_)
    BY <2>1, <2>2, DialledAnyUse DEF ControlRequests, States, SigningOut
  <2>3. CASE DialFailed(sock, "CONNECTED")
    BY <2>1, <2>3, CloseAnyUse DEF DialFailed
  <2>4. QED
    BY <1>3, <2>2, <2>3 DEF SendToPeer
<1>4. CASE SignOut
  <2>1. CASE SignOutFrom(sock)
    BY <2>1, SignOutFromAnyUse DEF Finished, Types
  <2>2. CASE ~SignOutFrom(sock)
    BY <1>4, <2>2 DEF SignOut, AnyUse, NoStaleRequest, RequestsHaveId, InProgress,
         QuietSignIn, QuietSignOut, SignOutAwaitsSignOut, SignOutIsPrepared, CapacityHasValue,
         ConnectedWasAnnounced
  <2>3. QED
    BY <2>1, <2>2
<1>5. CASE Shutdown
  <2>1. /\ state_' = "NOT_CONNECTED"
        /\ sock'["control"] \in {"null", "closed"} /\ sock'["capacity"] \in {"null", "closed"}
    BY <1>5 DEF Shutdown, Sockets
  <2>2. QED
    BY <2>1 DEF AnyUse, NoStaleRequest, RequestsHaveId, InProgress, QuietSignIn, QuietSignOut,
         SignOutAwaitsSignOut, SignOutIsPrepared, CapacityHasValue, ConnectedWasAnnounced,
         SigningOut, Requests, ControlRequests
<1>6. CASE \/ \E enabled \in BOOLEAN : SetHeartbeatMs(enabled)
           \/ \E id \in Ids : UpdateConnectionState(id)
  BY <1>6 DEF SetHeartbeatMs, UpdateConnectionState, AnyUse, NoStaleRequest, RequestsHaveId,
       InProgress, QuietSignIn, QuietSignOut, SignOutAwaitsSignOut, SignOutIsPrepared,
       CapacityHasValue, ConnectedWasAnnounced
<1>7. QED
  BY <1>1, <1>2, <1>3, <1>4, <1>5, <1>6 DEF Application

LEMMA ResolverAnyUse ==
  ASSUME Types, AnyUse, OnResolveResult \/ OnOrphanResolveResult
  PROVE  AnyUse'
<1>1. CASE DoConnect("done")
  BY <1>1, DoConnectAnyUse
<1>2. CASE ~DoConnect("done")
  <2>1. /\ state_' = state_ \/ state_' = "NOT_CONNECTED"
        /\ UNCHANGED <<my_id_, announced, sock, onconnect_data_, capacity_data_>>
    BY <1>2 DEF OnResolveResult, OnOrphanResolveResult, ResolveFailed
  <2>2. QED
    BY <2>1 DEF AnyUse, NoStaleRequest, RequestsHaveId, InProgress, QuietSignIn, QuietSignOut,
         SignOutAwaitsSignOut, SignOutIsPrepared, CapacityHasValue, ConnectedWasAnnounced,
         SigningOut
<1>3. QED
  BY <1>1, <1>2

LEMMA ConnectEventsAnyUse ==
  ASSUME Types, AnyUse,
         OnConnect \/ OnHangingGetConnect \/ OnHeartbeatGetConnect \/ OnCapacityConnect
  PROVE  AnyUse'
<1>1. CASE OnConnect
  <2>1. /\ sock' = [sock EXCEPT !["control"] = sock'["control"]]
        /\ \/ onconnect_data_ = "none" /\ sock'["control"] = "idle"
           \/ onconnect_data_ \in ControlRequests /\ sock'["control"] = onconnect_data_
        /\ sock["control"] = "connecting" /\ onconnect_data_' = "none"
        /\ UNCHANGED <<session, capacity_data_>>
    BY <1>1 DEF OnConnect, Types, Sockets
  <2>2. QED
    BY <2>1 DEF Types, AnyUse, NoStaleRequest, RequestsHaveId, InProgress, QuietSignIn,
         QuietSignOut, SignOutAwaitsSignOut, SignOutIsPrepared, CapacityHasValue,
         ConnectedWasAnnounced, SigningOut, ControlRequests, Sockets
<1>2. CASE OnHangingGetConnect \/ OnHeartbeatGetConnect \/ OnCapacityConnect
  <2>1. PICK s \in Sockets \ {"control"} :
          /\ sock[s] = "connecting"
          /\ \E request \in {"wait", "heartbeat", "capacity"} :
               sock' = [sock EXCEPT ![s] = request]
          /\ UNCHANGED <<session, onconnect_data_>>
          /\ s # "capacity" => UNCHANGED capacity_data_
    BY <1>2 DEF OnHangingGetConnect, OnHeartbeatGetConnect, OnCapacityConnect, Sockets
  <2>2. QED
    BY <2>1 DEF Types, AnyUse, NoStaleRequest, RequestsHaveId, InProgress, QuietSignIn,
         QuietSignOut, SignOutAwaitsSignOut, SignOutIsPrepared, CapacityHasValue,
         ConnectedWasAnnounced, SigningOut, Sockets
<1>3. QED
  BY <1>1, <1>2

LEMMA OtherEventsAnyUse ==
  ASSUME Types, AnyUse,
         \/ HeartbeatReply \/ CapacityReply \/ OnHeartbeatGetClose \/ CapacityClose
         \/ OnHeartbeatMessage
         \/ \E s \in {"control", "hanging"} : OnClose(s)
  PROVE  AnyUse'
<1>1. PICK s \in Sockets :
        /\ \/ sock' = sock
           \/ \E new \in {"closed", "idle"} : sock' = [sock EXCEPT ![s] = new]
                                            /\ (new = "idle" => s # "control" /\ sock[s] \in Requests)
           \/ /\ s \in {"hanging", "heartbeat"} /\ state_ = "CONNECTED"
              /\ \E new \in DialOutcomes : sock' = [sock EXCEPT ![s] = new]
        /\ UNCHANGED <<session, onconnect_data_, capacity_data_>>
        /\ s = "hanging" => state_ = "CONNECTED" \/ sock'["hanging"] = "closed"
  <2>1. CASE HeartbeatReply
    BY <2>1 DEF HeartbeatReply, OnHeartbeatGetRead, AfterReply, Sockets, Requests
  <2>2. CASE CapacityReply
    BY <2>2 DEF CapacityReply, OnCapacityRead, AfterReply, Sockets, Requests
  <2>3. CASE OnHeartbeatGetClose
    BY <2>3 DEF OnHeartbeatGetClose, HangUp, Sockets
  <2>4. CASE CapacityClose
    BY <2>4 DEF CapacityClose, HangUp, Sockets
  <2>5. CASE OnHeartbeatMessage
    BY <2>5 DEF OnHeartbeatMessage, Redial, Sockets
  <2>6. CASE \E t \in {"control", "hanging"} : OnClose(t)
    BY <2>6 DEF OnClose, Redial, HangUp, Sockets, Types
  <2>7. QED
    BY <2>1, <2>2, <2>3, <2>4, <2>5, <2>6
<1>2. /\ \/ sock'["control"] = sock["control"]
         \/ sock'["control"] = "closed"
      /\ sock'["capacity"] \in {sock["capacity"], "closed", "idle"}
      /\ state_ = "SIGNING_IN" => \A t \in Sockets \ {"control"} : sock'[t] = "closed"
      /\ state_ \in SigningOut => sock'["hanging"] = "closed"
      /\ UNCHANGED <<state_, my_id_, announced, onconnect_data_, capacity_data_>>
  <2>1. CASE sock' = sock
    BY <1>1, <2>1 DEF AnyUse, QuietSignIn, QuietSignOut
  <2>2. CASE \E new \in {"closed", "idle"} :
               /\ sock' = [sock EXCEPT ![s] = new]
               /\ new = "idle" => s # "control" /\ sock[s] \in Requests
    <3>1. "closed" \notin Requests
      BY DEF Requests, ControlRequests
    <3>2. PICK new \in {"closed", "idle"} :
            /\ sock' = [sock EXCEPT ![s] = new]
            /\ new = "idle" => s # "control" /\ sock[s] \in Requests
      BY <2>2
    <3>3. \A t \in Sockets : sock'[t] = IF t = s THEN new ELSE sock[t]
      BY <3>2 DEF Types
    <3>4. QED
      BY <1>1, <3>1, <3>2, <3>3 DEF AnyUse, QuietSignIn, QuietSignOut, Sockets
  <2>3. CASE /\ s \in {"hanging", "heartbeat"} /\ state_ = "CONNECTED"
             /\ \E new \in DialOutcomes : sock' = [sock EXCEPT ![s] = new]
    BY <1>1, <2>3 DEF Types, SigningOut, Sockets
  <2>4. QED
    BY <1>1, <2>1, <2>2, <2>3
<1>3. QuietSignIn' /\ QuietSignOut'
  BY <1>2 DEF QuietSignIn, QuietSignOut
<1>4. ConnectedWasAnnounced' /\ CapacityHasValue'
  BY <1>2 DEF AnyUse, ConnectedWasAnnounced, CapacityHasValue
<1>5. NoStaleRequest' /\ RequestsHaveId' /\ SignOutAwaitsSignOut' /\ SignOutIsPrepared'
  BY <1>2 DEF AnyUse, NoStaleRequest, RequestsHaveId, InProgress, SignOutAwaitsSignOut,
              SignOutIsPrepared, Requests, ControlRequests
<1>6. QED
  BY <1>3, <1>4, <1>5 DEF AnyUse

LEMMA RefusedAnyUse ==
  ASSUME Types, AnyUse, NEW s \in {"control", "hanging"}, OnCloseRefused(s)
  PROVE  AnyUse'
<1>1. HangUp(sock, s) \in [Sockets -> SocketStates]
  BY DEF HangUp, Types, SocketStates
<1>2. CASE Close(HangUp(sock, s), state_)
  BY <1>1, <1>2, CloseAnyUse
<1>3. CASE sock' = HangUp(sock, s) /\ UNCHANGED <<session, onconnect_data_, capacity_data_>>
  BY <1>3 DEF HangUp, Types, AnyUse, NoStaleRequest, RequestsHaveId, InProgress, QuietSignIn,
         QuietSignOut, SignOutAwaitsSignOut, SignOutIsPrepared, CapacityHasValue,
         ConnectedWasAnnounced, SigningOut, Requests, ControlRequests, Sockets
<1>4. QED
  BY <1>2, <1>3 DEF OnCloseRefused

\* AnyUse is an invariant: every application, any network, both socket factories.
THEOREM AnyUseInvariant == Spec => []AnyUse
<1>1. Types /\ AnyUse /\ [Next]_vars => AnyUse'
  <2> SUFFICES ASSUME Types, AnyUse, [Next]_vars PROVE AnyUse'
    OBVIOUS
  <2>1. CASE Application
    BY <2>1, ApplicationAnyUse
  <2>2. CASE OnResolveResult \/ OnOrphanResolveResult
    BY <2>2, ResolverAnyUse
  <2>3. CASE OnConnect \/ OnHangingGetConnect \/ OnHeartbeatGetConnect \/ OnCapacityConnect
    BY <2>3, ConnectEventsAnyUse
  <2>4. CASE ControlReply
    BY <2>4, ControlReplyAnyUse DEF ControlReply
  <2>5. CASE PollReply
    <3>1. peers_ \in SUBSET Ids
      BY DEF Types
    <3>2. PICK r \in Replies, changed \in SUBSET Ids : OnHangingGetRead(r, changed)
      BY <2>5, <3>1 DEF PollReply
    <3>3. QED
      BY <3>2, PollReplyAnyUse
  <2>6. CASE \/ HeartbeatReply \/ CapacityReply \/ OnHeartbeatGetClose \/ CapacityClose
             \/ OnHeartbeatMessage
             \/ \E s \in {"control", "hanging"} : OnClose(s)
    BY <2>6, OtherEventsAnyUse
  <2>7. CASE \E s \in {"control", "hanging"} : OnCloseRefused(s)
    BY <2>7, RefusedAnyUse
  <2>8. CASE OnRetryMessage
    BY <2>8, DoConnectAnyUse DEF OnRetryMessage, Types
  <2>9. CASE UNCHANGED vars
    BY <2>9 DEF vars, AnyUse, NoStaleRequest, RequestsHaveId, InProgress, QuietSignIn,
         QuietSignOut, SignOutAwaitsSignOut, SignOutIsPrepared, CapacityHasValue,
         ConnectedWasAnnounced
  <2>10. QED
    BY <2>1, <2>2, <2>3, <2>4, <2>5, <2>6, <2>7, <2>8, <2>9 DEF Next, Network, Timer
<1>2. QED
  BY AnyUseInit, TypesHold, <1>1, PTL DEF Spec

\* Once a control connection is established nothing is left in
\* onconnect_data_ for a later one to send.
THEOREM NoRequestIsStale == Spec => []NoStaleRequest
BY AnyUseInvariant, PTL DEF AnyUse

\* The server never gets a message or a sign-out from a client without an id.
THEOREM RequestsAreIdentified == Spec => []IdentifiedRequests
<1>1. AnyUse => IdentifiedRequests
  BY DEF AnyUse, RequestsHaveId, InProgress, IdentifiedRequests
<1>2. QED
  BY <1>1, AnyUseInvariant, PTL

\* A client that signs in or out has no poll under way; one that signs in has
\* no heartbeat and no capacity update either.
THEOREM NothingElseUnderWay == Spec => []QuietWhileSigning
BY AnyUseInvariant, PTL DEF AnyUse, QuietWhileSigning

\* A sign-out ends by its own answer.
THEOREM SignOutEndsByItsAnswer == Spec => []SignOutAwaitsSignOut
BY AnyUseInvariant, PTL DEF AnyUse

-----------------------------------------------------------------------------
(* While connections can be started: heartbeat and long poll *)

\* The heartbeat of a session goes on through a step, or the session does not.
Carries == Beating' \/ state_' # "CONNECTED" \/ ~heartbeat_tick_ms_'

LEMMA SocketKeepsBeating ==
  ASSUME Beating, sock'["heartbeat"] = sock["heartbeat"], beats' = beats
  PROVE  Carries
BY DEF Carries, Beating, Open

LEMMA ControlCarries ==
  ASSUME Types, NEW sk \in [Sockets -> SocketStates], sk["heartbeat"] = sock["heartbeat"], Beating,
         beats' = beats, state_ = "CONNECTED",
         SignedIn(sk) \/ SignOutFrom(sk) \/ Close(sk, state_)
  PROVE  Carries
<1>1. CASE SignedIn(sk)
  BY <1>1, SocketKeepsBeating DEF SignedIn, CompletesSignIn
<1>2. CASE SignOutFrom(sk)
  BY <1>2 DEF SignOutFrom, Dialled, DialFailed, Close, EndSession, Carries
<1>3. CASE Close(sk, state_)
  BY <1>3 DEF Close, EndSession, Carries
<1> QED
  BY <1>1, <1>2, <1>3

LEMMA HeartbeatStep ==
  ASSUME "closed" \notin DialOutcomes, Types, [Next]_vars,
         state_ = "CONNECTED", heartbeat_tick_ms_, Beating
  PROVE  Carries
<1>1. CASE Connect \/ SignOut \/ Shutdown
  BY <1>1 DEF Connect, SignOut, SignOutFrom, Shutdown, Dialled, DialFailed, Close, EndSession, Carries, Beating, Open
<1>2. CASE \/ \E value \in Capacities : UpdateCapacity(value)
           \/ SendToPeer
           \/ \E enabled \in BOOLEAN : SetHeartbeatMs(enabled)
           \/ \E id \in Ids : UpdateConnectionState(id)
  <2>1. CASE SendToPeer
    BY <2>1, SocketKeepsBeating DEF SendToPeer, Dialled, Redial, DialFailed, Close, EndSession, Carries, Types, Sockets
  <2>2. CASE \E value \in Capacities : UpdateCapacity(value)
    BY <2>2, SocketKeepsBeating DEF UpdateCapacity, Dial, Types, Sockets
  <2> QED
    BY <1>2, <2>1, <2>2, SocketKeepsBeating DEF SetHeartbeatMs, UpdateConnectionState, link
<1>3. CASE OnResolveResult \/ OnOrphanResolveResult \/ OnRetryMessage
  BY <1>3, SocketKeepsBeating DEF OnResolveResult, OnOrphanResolveResult, OnRetryMessage, ResolveFailed, DoConnect,
    Dialled, DialFailed, Close, EndSession, Carries
<1>4. CASE OnConnect \/ OnHangingGetConnect \/ OnHeartbeatGetConnect \/ OnCapacityConnect
  BY <1>4 DEF OnConnect, OnHangingGetConnect, OnHeartbeatGetConnect, OnCapacityConnect, Carries, Beating, Open,
    Types, Sockets
<1>5. CASE ControlReply
  <2>1. PICK r \in Replies, id \in Ids, present \in SUBSET Ids : OnRead(r, id, present)
    BY <1>5 DEF ControlReply
  <2> DEFINE x == IF control_data_ = NoData THEN r ELSE control_data_
  <2> DEFINE read == AfterReply("control", x)
  <2>2. read \in [Sockets -> SocketStates] /\ read["heartbeat"] = sock["heartbeat"]
    BY DEF AfterReply, Types, Sockets, SocketStates
  <2>3. beats' = beats
    BY <2>1 DEF OnRead
  <2>4. \/ SignedIn(read) \/ SignOutFrom(read) \/ Close(read, state_)
        \/ \E outcome \in DialOutcomes : SignedIn(Redial(read, "control", outcome))
    BY <2>1 DEF OnRead
  <2> HIDE DEF x, read
  <2>5. CASE SignedIn(read) \/ SignOutFrom(read) \/ Close(read, state_)
    BY <2>2, <2>3, <2>5, ControlCarries
  <2>6. CASE \E outcome \in DialOutcomes : SignedIn(Redial(read, "control", outcome))
    <3>1. PICK outcome \in DialOutcomes : SignedIn(Redial(read, "control", outcome))
      BY <2>6
    <3>2. /\ Redial(read, "control", outcome) \in [Sockets -> SocketStates]
          /\ Redial(read, "control", outcome)["heartbeat"] = sock["heartbeat"]
      BY <2>2, EnvironmentAssumption DEF Redial, Sockets, SocketStates
    <3> QED
      BY <2>3, <3>1, <3>2, ControlCarries
  <2> QED
    BY <2>4, <2>5, <2>6
<1>6. CASE PollReply
  <2>1. PICK r \in Replies : \E changed : OnHangingGetRead(r, changed)
    BY <1>6 DEF PollReply
  <2> QED
    BY <2>1, SocketKeepsBeating DEF OnHangingGetRead, AfterReply, Rearmed, Dial, Redial, Close, EndSession, Carries,
      Types, Sockets
<1>7. CASE HeartbeatReply \/ OnHeartbeatGetClose
  <2>1. beats' = beats + 1
    BY <1>7, Zenon DEF HeartbeatReply, OnHeartbeatGetRead, OnHeartbeatGetClose, PostBeat
  <2>2. beats \in Nat
    BY BoundsAssumption DEF Types
  <2>3. beats' > 0
    BY <2>1, <2>2
  <2> QED
    BY <2>3 DEF Carries, Beating
<1>8. CASE CapacityReply \/ CapacityClose
  BY <1>8, SocketKeepsBeating DEF CapacityReply, OnCapacityRead, AfterReply, CapacityClose, HangUp, Types, Sockets
<1>9. CASE OnHeartbeatMessage
  BY <1>9, EnvironmentAssumption DEF OnHeartbeatMessage, Redial, Carries, Beating, Open, Types, Sockets
<1>10. ASSUME NEW s \in {"control", "hanging"}, OnClose(s) \/ OnCloseRefused(s)
       PROVE  Carries
  BY <1>10, SocketKeepsBeating DEF OnClose, OnCloseRefused, Redial, HangUp, Close, EndSession, Carries, Types, Sockets
<1>11. CASE UNCHANGED vars
  BY <1>11, SocketKeepsBeating DEF vars, link
<1> QED
  BY <1>1, <1>2, <1>3, <1>4, <1>5, <1>6, <1>7, <1>8, <1>9, <1>10, <1>11 DEF Next, Application, Network, Timer

\* While connections can be started, the heartbeat of a session does not stop
\* before it is switched off, whatever is lost or refused and over any socket
\* (OnHeartbeatGetRead, OnHeartbeatGetClose, OnMessage).
THEOREM HeartbeatGoesOn ==
  ASSUME "closed" \notin DialOutcomes
  PROVE  Spec => HeartbeatSurvives
<1>1. Types /\ [Next]_vars =>
        [state_ = "CONNECTED" /\ heartbeat_tick_ms_ /\ Beating
           => Beating' \/ state_' # "CONNECTED" \/ ~heartbeat_tick_ms_']_vars
  BY HeartbeatStep DEF Carries
<1> QED
  BY <1>1, TypesHold, PTL DEF Spec, HeartbeatSurvives

\* The long poll is on its way in CONNECTED, and is not left idle by a reply.
Polls == AlwaysPolling /\ sock["hanging"] # "idle"

LEMMA PollIsKept ==
  ASSUME Polls, UNCHANGED state_, sock'["hanging"] = sock["hanging"]
  PROVE  Polls'
BY DEF Polls, AlwaysPolling, Open

LEMMA CloseEndsPolling ==
  ASSUME NEW sk \in [Sockets -> SocketStates], NEW from, Close(sk, from)
  PROVE  Polls'
BY DEF Close, ClosedSockets, EndSession, Polls, AlwaysPolling, Sockets

LEMMA DoConnectPolls ==
  ASSUME NEW resolver, DoConnect(resolver)
  PROVE  Polls'
<1>1. NewSockets \in [Sockets -> SocketStates]
  BY DEF NewSockets, SocketStates
<1>2. CASE Dialled(NewSockets, "sign_in", "SIGNING_IN", resolver)
  BY <1>2 DEF Dialled, Redial, NewSockets, Polls, AlwaysPolling, Sockets
<1>3. CASE DialFailed(NewSockets, state_)
  BY <1>1, <1>3, CloseEndsPolling DEF DialFailed
<1> QED
  BY <1>2, <1>3 DEF DoConnect

LEMMA SignOutPolls ==
  ASSUME NEW sk \in [Sockets -> SocketStates], SignOutFrom(sk)
  PROVE  Polls'
<1>1. HangUp(sk, "hanging") \in [Sockets -> SocketStates] /\ HangUp(sk, "hanging")["hanging"] = "closed"
  BY DEF HangUp, SocketStates, Sockets
<1>2. CASE DialFailed(HangUp(sk, "hanging"), "SIGNING_OUT")
  BY <1>1, <1>2, CloseEndsPolling DEF DialFailed
<1>3. CASE ~DialFailed(HangUp(sk, "hanging"), "SIGNING_OUT")
  BY <1>1, <1>3 DEF SignOutFrom, Dialled, Redial, Polls, AlwaysPolling, Sockets
<1> QED
  BY <1>2, <1>3

\* The poll of a session starts when the sign-in completes.
LEMMA SignedInPolls ==
  ASSUME "closed" \notin DialOutcomes, AnyUse, Polls,
         NEW sk \in [Sockets -> SocketStates], sk["hanging"] = sock["hanging"], SignedIn(sk)
  PROVE  Polls'
<1>1. CASE CompletesSignIn
  <2>1. sk["hanging"] = "closed"
    BY <1>1 DEF CompletesSignIn, AnyUse, QuietSignIn, Sockets
  <2>2. sock'["hanging"] = "connecting"
    BY <1>1, <2>1, EnvironmentAssumption DEF SignedIn, Dial, Sockets
  <2> QED
    BY <2>2 DEF Polls, AlwaysPolling, Open
<1>2. CASE ~CompletesSignIn
  BY <1>2, PollIsKept DEF SignedIn
<1> QED
  BY <1>1, <1>2

LEMMA ReplyPolls ==
  ASSUME "closed" \notin DialOutcomes, Types, AnyUse, Polls, ControlReply
  PROVE  Polls'
<1>1. PICK r \in Replies, id \in Ids, present \in SUBSET Ids : OnRead(r, id, present)
  BY DEF ControlReply
<1> DEFINE x == IF control_data_ = NoData THEN r ELSE control_data_
<1> DEFINE read == AfterReply("control", x)
<1>2. read \in [Sockets -> SocketStates] /\ read["hanging"] = sock["hanging"]
  BY DEF AfterReply, Types, Sockets, SocketStates
<1>3. \/ SignedIn(read) \/ SignOutFrom(read) \/ Close(read, state_)
      \/ \E outcome \in DialOutcomes : SignedIn(Redial(read, "control", outcome))
  BY <1>1 DEF OnRead
<1> HIDE DEF x, read
<1>4. CASE SignedIn(read) \/ SignOutFrom(read) \/ Close(read, state_)
  BY <1>2, <1>4, SignedInPolls, SignOutPolls, CloseEndsPolling
<1>5. CASE \E outcome \in DialOutcomes : SignedIn(Redial(read, "control", outcome))
  <2>1. PICK outcome \in DialOutcomes : SignedIn(Redial(read, "control", outcome))
    BY <1>5
  <2>2. /\ Redial(read, "control", outcome) \in [Sockets -> SocketStates]
        /\ Redial(read, "control", outcome)["hanging"] = sock["hanging"]
    BY <1>2, EnvironmentAssumption DEF Redial, Sockets, SocketStates
  <2> QED
    BY <2>1, <2>2, SignedInPolls
<1> QED
  BY <1>3, <1>4, <1>5

\* The answer to a poll begins the next one, or ends the session.
LEMMA PollPolls ==
  ASSUME "closed" \notin DialOutcomes, \A r \in Replies : r.close, Types, Polls, PollReply
  PROVE  Polls'
<1>1. PICK r \in Replies : \E changed : OnHangingGetRead(r, changed)
  BY DEF PollReply
<1> DEFINE closed == AfterReply("hanging", r)
<1>2. closed \in [Sockets -> SocketStates] /\ closed["hanging"] = "closed"
  BY <1>1 DEF AfterReply, Types, Sockets, SocketStates
<1> HIDE DEF closed
<1>3. PICK outcome \in DialOutcomes, again \in DialOutcomes :
        LET sk == IF r.close /\ Emitted("hanging") = Get("hanging") THEN Rearmed(closed, again) ELSE closed
        IN  \/ UNCHANGED state_ /\ sock' = Rearmed(sk, outcome)
            \/ UNCHANGED state_ /\ sock' = Rearmed(Redial(sk, "hanging", again), outcome)
            \/ Close(sk, state_)
  BY <1>1 DEF OnHangingGetRead, closed
<1> DEFINE sk == IF r.close /\ Emitted("hanging") = Get("hanging") THEN Rearmed(closed, again) ELSE closed
<1>4. outcome = "connecting" /\ again = "connecting"
  BY EnvironmentAssumption
<1>5. sk \in [Sockets -> SocketStates] /\ sk["hanging"] \in {"closed", "connecting"}
  BY <1>2, <1>4 DEF Rearmed, Dial, Sockets, SocketStates
<1> HIDE DEF sk
<1>6. CASE Close(sk, state_)
  BY <1>5, <1>6, CloseEndsPolling
<1>7. CASE UNCHANGED state_ /\ sock' = Rearmed(sk, outcome)
  BY <1>4, <1>5, <1>7 DEF Rearmed, Dial, Polls, AlwaysPolling, Open, Sockets
<1>8. CASE UNCHANGED state_ /\ sock' = Rearmed(Redial(sk, "hanging", again), outcome)
  BY <1>4, <1>5, <1>8 DEF Rearmed, Redial, Dial, Polls, AlwaysPolling, Open, Sockets
<1> QED
  BY <1>3, <1>6, <1>7, <1>8 DEF sk

LEMMA PollingStep ==
  ASSUME "closed" \notin DialOutcomes, "lost" \notin Faults, \A r \in Replies : r.close,
         Types, AnyUse, Polls, [Next]_vars
  PROVE  Polls'
<1>1. sock \in [Sockets -> SocketStates]
  BY DEF Types
<1>2. CASE Connect
  BY <1>2, DoConnectPolls, PollIsKept DEF Connect, link, Polls, AlwaysPolling
<1>3. CASE \E value \in Capacities : UpdateCapacity(value)
  BY <1>1, <1>3, PollIsKept DEF UpdateCapacity, Dial, Sockets
<1>4. CASE SendToPeer
  <2>1. CASE DialFailed(sock, "CONNECTED")
    BY <1>1, <2>1, CloseEndsPolling DEF DialFailed
  <2>2. CASE Dialled(sock, "message", "CONNECTED", resolver_)
    BY <1>1, <1>4, <2>2, PollIsKept DEF SendToPeer, Dialled, Redial, Sockets
  <2> QED
    BY <1>4, <2>1, <2>2 DEF SendToPeer
<1>5. CASE SignOut
  BY <1>1, <1>5, SignOutPolls, PollIsKept DEF SignOut
<1>6. CASE Shutdown
  BY <1>1, <1>6 DEF Shutdown, Polls, AlwaysPolling, Sockets
<1>7. CASE \/ \E enabled \in BOOLEAN : SetHeartbeatMs(enabled)
           \/ \E id \in Ids : UpdateConnectionState(id)
           \/ UNCHANGED vars
  BY <1>7, PollIsKept DEF SetHeartbeatMs, UpdateConnectionState, vars, link
<1>8. CASE OnResolveResult \/ OnOrphanResolveResult \/ OnRetryMessage
  BY <1>8, DoConnectPolls, PollIsKept DEF OnResolveResult, OnOrphanResolveResult, OnRetryMessage, ResolveFailed,
    Polls, AlwaysPolling
<1>9. CASE OnConnect \/ OnHangingGetConnect \/ OnHeartbeatGetConnect \/ OnCapacityConnect
  BY <1>1, <1>9 DEF OnConnect, OnHangingGetConnect, OnHeartbeatGetConnect, OnCapacityConnect, Polls, AlwaysPolling,
    Open, Sockets
<1>10. CASE ControlReply
  BY <1>10, ReplyPolls
<1>11. CASE PollReply
  BY <1>11, PollPolls
<1>12. CASE HeartbeatReply \/ CapacityReply \/ OnHeartbeatGetClose \/ CapacityClose \/ OnHeartbeatMessage
  BY <1>1, <1>12, PollIsKept DEF HeartbeatReply, OnHeartbeatGetRead, CapacityReply, OnCapacityRead, AfterReply,
    OnHeartbeatGetClose, CapacityClose, HangUp, OnHeartbeatMessage, Redial, Sockets
<1>13. ASSUME NEW s \in {"control", "hanging"}, OnClose(s)
       PROVE  Polls'
  <2>1. s = "control"
    BY <1>13 DEF OnClose, Drops, Polls
  <2> QED
    BY <1>1, <1>13, <2>1, PollIsKept DEF OnClose, Emitted, Get, HangUp, Sockets
<1>14. ASSUME NEW s \in {"control", "hanging"}, OnCloseRefused(s)
       PROVE  Polls'
  <2>1. HangUp(sock, s) \in [Sockets -> SocketStates]
    BY <1>1 DEF HangUp, SocketStates
  <2>2. CASE Close(HangUp(sock, s), state_)
    BY <2>1, <2>2, CloseEndsPolling
  <2>3. CASE s = "control" /\ UNCHANGED state_ /\ sock' = HangUp(sock, s)
    BY <1>1, <2>3, PollIsKept DEF HangUp, Sockets
  <2> QED
    BY <1>14, <2>2, <2>3 DEF OnCloseRefused, Emitted, Get
<1> QED
  BY <1>2, <1>3, <1>4, <1>5, <1>6, <1>7, <1>8, <1>9, <1>10, <1>11, <1>12, <1>13, <1>14
    DEF Next, Application, Network, Timer

\* While connections can be started and none is lost, and over a server that
\* closes what it has answered, a connected client always has a long poll on its
\* way, over any socket (OnHangingGetRead, OnRead).
THEOREM PollingGoesOn ==
  ASSUME "closed" \notin DialOutcomes, "lost" \notin Faults, \A r \in Replies : r.close
  PROVE  Spec => []AlwaysPolling
<1>1. Init => Polls
  BY DEF Init, Polls, AlwaysPolling, Sockets
<1>2. Types /\ AnyUse /\ Polls /\ [Next]_vars => Polls'
  BY PollingStep
<1>3. Polls => AlwaysPolling
  BY DEF Polls
<1> QED
  BY <1>1, <1>2, <1>3, TypesHold, AnyUseInvariant, PTL DEF Spec
=============================================================================
