--------------------- MODULE PeerConnectionClientShipped ---------------------
(***************************************************************************)
(* The client as the programs ship it: over SslCapableSocket, which refires *)
(* the pointer of the socket it wraps, and without Shutdown.  Its sockets  *)
(* then fit its state, an id belongs to one session and a sign-out is not  *)
(* undone, for all values of the other constants.                          *)
(***************************************************************************)
EXTENDS PeerConnectionClientSafety, PeerConnectionClientSession

USE DEF session, link, resolving, timers, Connected

Silent == \A s \in {"control", "hanging", "capacity"} : ~Open(s)

\* A request fits the state from the moment it is prepared.
PreparedFits ==
  /\ InProgress = "sign_in" => state_ \in {"SIGNING_IN", "SIGNING_OUT_WAITING"} /\ my_id_ = NoId
  /\ InProgress = "message" => state_ \in {"CONNECTED", "SIGNING_OUT_WAITING"}
  /\ InProgress = "sign_out" => state_ = "SIGNING_OUT"

\* A name is resolved only before a sign-in, or after the sign-out that was
\* asked meanwhile.
ResolvesBeforeSession == resolver_ = "pending" => state_ \in {"RESOLVING", "SIGNING_OUT"}

SignedOff == state_ \in {"NOT_CONNECTED", "RESOLVING"} \/ resolver_ = "pending"

CapacityStates == {"null", "closed", "connecting", "capacity", "idle"}

Fit ==
  /\ ResolvesBeforeSession
  /\ SignedOff => my_id_ = NoId /\ Silent
  /\ PollOnlyWhenConnected
  /\ PreparedFits
  /\ IdOnlyInSession
  /\ sock["control"] = "null" => sock["hanging"] = "null"
  /\ sock["capacity"] \in CapacityStates

\* Nothing posted or running was left behind by an earlier connection.
NothingLeft == retries = 0 /\ orphans = 0

LEMMA FitInit == Init => Fit /\ NothingLeft
BY DEF Init, Fit, CapacityStates, NothingLeft, ResolvesBeforeSession, SignedOff, Silent, Open, PollOnlyWhenConnected,
  PreparedFits, InProgress, IdOnlyInSession, Sockets

LEMMA CloseFit ==
  ASSUME NEW sk \in [Sockets -> SocketStates], NEW from, Close(sk, from)
  PROVE  Fit'
BY DEF Close, ClosedSockets, EndSession, Fit, CapacityStates, ResolvesBeforeSession, SignedOff, Silent, Open,
  PollOnlyWhenConnected, PreparedFits, InProgress, IdOnlyInSession, Sockets

\* A control connection begins with the request that the next state allows.
LEMMA DialledFit ==
  ASSUME NEW sk \in [Sockets -> SocketStates], NEW asked, NEW next, NEW resolver,
         Dialled(sk, asked, next, resolver), resolver # "pending", sk["capacity"] \in CapacityStates,
         \/ next = "SIGNING_IN" /\ asked = "sign_in" /\ my_id_ = NoId /\ sk["hanging"] = "closed"
            /\ sk["capacity"] = "closed"
         \/ next = "CONNECTED" /\ asked = "message"
         \/ next = "SIGNING_OUT" /\ asked = "sign_out" /\ sk["hanging"] = "closed"
  PROVE  Fit'
<1>1. /\ sock' \in [Sockets -> SocketStates]
      /\ sock'["control"] = "connecting" /\ sock'["hanging"] = sk["hanging"] /\ sock'["capacity"] = sk["capacity"]
  BY DEF Dialled, Redial, Sockets, SocketStates
<1> QED
  BY <1>1 DEF Dialled, Fit, ResolvesBeforeSession, SignedOff, Open, PollOnlyWhenConnected, PreparedFits, InProgress,
    IdOnlyInSession, SigningOut

LEMMA DoConnectFit ==
  ASSUME NEW resolver, DoConnect(resolver), resolver # "pending", my_id_ = NoId
  PROVE  Fit'
<1>1. NewSockets \in [Sockets -> SocketStates]
  BY DEF NewSockets, SocketStates
<1>2. CASE Dialled(NewSockets, "sign_in", "SIGNING_IN", resolver)
  BY <1>1, <1>2, DialledFit DEF NewSockets, Sockets, CapacityStates
<1>3. CASE DialFailed(NewSockets, state_)
  BY <1>1, <1>3, CloseFit DEF DialFailed
<1> QED
  BY <1>2, <1>3 DEF DoConnect

LEMMA SignOutFromFit ==
  ASSUME Types, Fit, NEW sk, Finished(sk), SignOutFrom(sk),
         state_ \notin {"NOT_CONNECTED", "SIGNING_OUT"}, sk["hanging"] # "null"
  PROVE  Fit'
<1> DEFINE quiet == HangUp(sk, "hanging")
<1>1. /\ quiet \in [Sockets -> SocketStates]
      /\ quiet["hanging"] = "closed"
      /\ quiet["capacity"] = sock["capacity"]
      /\ quiet["control"] = sk["control"]
  BY DEF HangUp, Finished, Sockets, SocketStates
<1>2. CASE Dialled(quiet, "sign_out", "SIGNING_OUT", resolver_) /\ my_id_ # NoId
  <2>1. resolver_ # "pending"
    BY <1>2 DEF Fit, SignedOff
  <2> QED
    BY <1>1, <1>2, <2>1, DialledFit DEF Fit
<1>3. CASE DialFailed(quiet, "SIGNING_OUT")
  BY <1>1, <1>3, CloseFit DEF DialFailed
<1>4. ASSUME sock' = quiet, UNCHANGED <<my_id_, onconnect_data_, resolver_>>,
             \/ quiet["control"] = "closed" /\ my_id_ = NoId /\ state_' = "SIGNING_OUT"
             \/ quiet["control"] # "closed" /\ state_' = "SIGNING_OUT_WAITING"
      PROVE  Fit'
  <2>1. /\ sk["control"] # "null"
        /\ \/ sk["control"] = sock["control"]
           \/ sk["control"] \in {"closed", "idle"} /\ sock["control"] \in ControlRequests
    BY DEF Finished, Fit, Sockets, ControlRequests
  <2>2. CASE SignedOff
    <3>1. state_ = "RESOLVING" \/ resolver_ = "pending"
      BY <2>2 DEF SignedOff
    <3>2. state_ = "RESOLVING" /\ sock["control"] \in {"null", "closed"} /\ sock["capacity"] \in {"null", "closed"}
          /\ my_id_ = NoId
      BY <2>2, <3>1 DEF Fit, ResolvesBeforeSession, Silent, Open
    <3>3. quiet["control"] = "closed"
      BY <1>1, <2>1, <3>2 DEF ControlRequests
    <3> QED
      BY <1>1, <1>4, <3>2, <3>3 DEF Fit, ResolvesBeforeSession, SignedOff, Silent, Open, PollOnlyWhenConnected,
        PreparedFits, InProgress, IdOnlyInSession, SigningOut
  <2>3. CASE ~SignedOff
    <3>1. state_ \in {"SIGNING_IN", "CONNECTED", "SIGNING_OUT_WAITING"} /\ resolver_ # "pending"
      BY <2>3 DEF SignedOff, Types, States
    <3>2. PreparedFits'
      BY <1>1, <1>4, <2>1, <3>1 DEF Fit, PreparedFits, InProgress, Types, ControlRequests
    <3> QED
      BY <1>1, <1>4, <2>1, <3>1, <3>2 DEF Fit, ResolvesBeforeSession, SignedOff, Open, PollOnlyWhenConnected,
        IdOnlyInSession, SigningOut
  <2> QED
    BY <2>2, <2>3
<1> QED
  BY <1>2, <1>3, <1>4 DEF SignOutFrom

\* A connection on which a request is answered belongs to a session that is not
\* over.
LEMMA AnsweredInSession ==
  ASSUME Types, Fit, sock["control"] \in ControlRequests
  PROVE  /\ state_ \in {"SIGNING_IN", "CONNECTED", "SIGNING_OUT_WAITING", "SIGNING_OUT"}
         /\ resolver_ # "pending"
BY DEF Fit, SignedOff, Silent, Open, Types, States, ControlRequests

LEMMA SignedInFit ==
  ASSUME Types, Fit, sock["control"] \in ControlRequests,
         NEW sk \in [Sockets -> SocketStates],
         \A s \in Sockets \ {"control"} : sk[s] = sock[s],
         sk["control"] \in {"closed", "idle", "connecting"},
         onconnect_data_ = "none",
         SignedIn(sk), UNCHANGED <<onconnect_data_, resolver_>>
  PROVE  Fit'
<1>1. CASE CompletesSignIn
  <2>1. /\ state_' = "CONNECTED"
        /\ sock'["control"] = sk["control"] /\ sock'["capacity"] = sock["capacity"]
    BY <1>1 DEF SignedIn, Dial, Sockets
  <2> QED
    BY <2>1, AnsweredInSession DEF Fit, ResolvesBeforeSession, SignedOff, PollOnlyWhenConnected, PreparedFits,
      InProgress, IdOnlyInSession
<1>2. CASE ~CompletesSignIn
  <2>1. sock' = sk /\ UNCHANGED state_
    BY <1>2 DEF SignedIn
  <2>2. state_ \in SigningOut \cup {"CONNECTED"} /\ resolver_ # "pending"
    BY <1>2, AnsweredInSession DEF CompletesSignIn, SigningOut
  <2> QED
    BY <2>1, <2>2 DEF Fit, ResolvesBeforeSession, SignedOff, Open, PollOnlyWhenConnected, PreparedFits,
      InProgress, IdOnlyInSession, SigningOut, Sockets
<1> QED
  BY <1>1, <1>2

LEMMA ControlReplyFit ==
  ASSUME Types, AnyUse, Fit, NEW received \in Replies, NEW id \in Ids, NEW present \in SUBSET Ids,
         OnRead(received, id, present)
  PROVE  Fit'
<1> DEFINE r == IF control_data_ = NoData THEN received ELSE control_data_
           sk == AfterReply("control", r)
<1>1. /\ sk \in [Sockets -> SocketStates]
      /\ \A s \in Sockets \ {"control"} : sk[s] = sock[s]
      /\ sk["control"] \in {"closed", "idle"}
  BY AfterReplyType DEF AfterReply, Sockets, Types
<1>2. sock["control"] \in ControlRequests
  BY DEF OnRead
<1>3. onconnect_data_ = "none"
  BY <1>2 DEF AnyUse, NoStaleRequest, Requests
<1>4. CASE Close(sk, state_)
  BY <1>1, <1>4, CloseFit
<1>5. CASE SignOutFrom(sk) /\ state_ = "SIGNING_OUT_WAITING"
  <2>1. sk["hanging"] # "null"
    BY <1>1, <1>2, <1>5 DEF AnyUse, QuietSignOut, SigningOut, Sockets
  <2> QED
    BY <1>1, <1>2, <1>5, <2>1, SignOutFromFit DEF Finished
<1>6. CASE SignedIn(sk) /\ UNCHANGED <<onconnect_data_, resolver_>>
  BY <1>1, <1>2, <1>3, <1>6, SignedInFit
<1>7. CASE /\ \E outcome \in DialOutcomes : SignedIn(Redial(sk, "control", outcome))
           /\ UNCHANGED <<onconnect_data_, resolver_>>
  <2>1. PICK outcome \in DialOutcomes : SignedIn(Redial(sk, "control", outcome))
    BY <1>7
  <2>2. /\ Redial(sk, "control", outcome) \in [Sockets -> SocketStates]
        /\ \A s \in Sockets \ {"control"} : Redial(sk, "control", outcome)[s] = sock[s]
        /\ Redial(sk, "control", outcome)["control"] \in {"closed", "idle", "connecting"}
    BY <1>1, EnvironmentAssumption DEF Redial, Sockets, SocketStates
  <2> QED
    BY <1>2, <1>3, <1>7, <2>1, <2>2, SignedInFit
<1> QED
  BY <1>4, <1>5, <1>6, <1>7 DEF OnRead

\* A step on the other three connections.
LEMMA OthersFit ==
  ASSUME Types, Fit, UNCHANGED <<state_, my_id_, onconnect_data_, resolver_>>,
         sock' \in [Sockets -> SocketStates],
         \/ sock'["control"] = sock["control"]
         \/ Open("control") /\ sock'["control"] = "closed",
         \/ sock'["hanging"] = sock["hanging"]
         \/ Open("hanging") /\ (sock'["hanging"] = "closed" \/ state_ = "CONNECTED"),
         \/ sock'["capacity"] = sock["capacity"]
         \/ Open("capacity")
         \/ state_ = "CONNECTED",
         sock'["capacity"] \in CapacityStates
  PROVE  Fit'
<1>1. CASE SignedOff
  BY <1>1 DEF Fit, ResolvesBeforeSession, SignedOff, Silent, Open, PollOnlyWhenConnected, PreparedFits, InProgress,
    IdOnlyInSession, SigningOut
<1>2. CASE ~SignedOff
  BY <1>2 DEF Fit, ResolvesBeforeSession, SignedOff, Open, PollOnlyWhenConnected, PreparedFits, InProgress,
    IdOnlyInSession
<1> QED
  BY <1>1, <1>2

LEMMA PollReplyFit ==
  ASSUME Types, Fit, NEW r \in Replies, NEW changed \in SUBSET Ids, OnHangingGetRead(r, changed)
  PROVE  Fit'
<1> DEFINE closed == AfterReply("hanging", r)
<1>1. PICK outcome \in DialOutcomes, again \in DialOutcomes :
        LET sk == IF r.close /\ Emitted("hanging") = Get("hanging")
                  THEN Rearmed(closed, again) ELSE closed
        IN \/ /\ UNCHANGED <<state_, my_id_, onconnect_data_, resolver_>>
              /\ \/ sock' = Rearmed(sk, outcome)
                 \/ sock' = Rearmed(Redial(sk, "hanging", again), outcome)
           \/ Close(sk, state_)
  BY DEF OnHangingGetRead
<1> DEFINE sk == IF r.close /\ Emitted("hanging") = Get("hanging")
                 THEN Rearmed(closed, again) ELSE closed
<1>2. closed \in [Sockets -> SocketStates]
  BY AfterReplyType DEF Sockets
<1>3. sk \in [Sockets -> SocketStates]
  BY <1>2, DialOutcomesAreStates DEF Rearmed, Dial
<1>4. CASE Close(sk, state_)
  BY <1>3, <1>4, CloseFit
<1>5. CASE ~Close(sk, state_)
  <2>1. /\ UNCHANGED <<state_, my_id_, onconnect_data_, resolver_>>
        /\ \/ sock' = Rearmed(sk, outcome)
           \/ sock' = Rearmed(Redial(sk, "hanging", again), outcome)
    BY <1>1, <1>5
  <2>2. Open("hanging") /\ state_ = "CONNECTED"
    BY DEF OnHangingGetRead, Open, Fit, PollOnlyWhenConnected
  <2>3. closed["control"] = sock["control"] /\ closed["capacity"] = sock["capacity"]
    BY <1>2 DEF AfterReply, Types, Sockets
  <2>4. sk["control"] = sock["control"] /\ sk["capacity"] = sock["capacity"]
    BY <1>2, <2>3 DEF Rearmed, Dial, Sockets
  <2> HIDE DEF sk
  <2>5. /\ sock' \in [Sockets -> SocketStates]
        /\ sock'["control"] = sock["control"] /\ sock'["capacity"] = sock["capacity"]
    BY <1>3, <2>1, <2>4, DialOutcomesAreStates DEF Rearmed, Dial, Redial, Sockets
  <2> QED
    BY <2>1, <2>2, <2>5, OthersFit DEF Fit
<1> QED
  BY <1>4, <1>5

LEMMA OtherEventsFit ==
  ASSUME ~RefiresOwnPointer, Types, Types', Fit,
         \/ HeartbeatReply \/ CapacityReply \/ OnHeartbeatGetClose \/ CapacityClose
         \/ OnHeartbeatMessage
         \/ \E s \in {"control", "hanging"} : OnClose(s)
         \/ OnHangingGetConnect \/ OnHeartbeatGetConnect \/ OnCapacityConnect
  PROVE  Fit'
<1>1. UNCHANGED <<state_, my_id_, onconnect_data_, resolver_>>
  BY DEF HeartbeatReply, OnHeartbeatGetRead, CapacityReply, OnCapacityRead, OnHeartbeatGetClose, CapacityClose,
    OnHeartbeatMessage, OnClose, OnHangingGetConnect, OnHeartbeatGetConnect, OnCapacityConnect
<1>2. sock' \in [Sockets -> SocketStates] /\ sock \in [Sockets -> SocketStates]
  BY DEF Types
<1>3. CASE \E new \in SocketStates : sock' = [sock EXCEPT !["heartbeat"] = new]
  BY <1>1, <1>2, <1>3, OthersFit DEF Sockets, Fit
<1>4. CASE Open("capacity") /\ \E new \in CapacityStates : sock' = [sock EXCEPT !["capacity"] = new]
  BY <1>1, <1>2, <1>4, OthersFit DEF Sockets
<1>5. CASE \E s \in {"control", "hanging"} : Open(s) /\ sock' = HangUp(sock, s)
  BY <1>1, <1>2, <1>5, OthersFit DEF HangUp, Sockets, Fit
<1>6. CASE Open("hanging") /\ sock' = [sock EXCEPT !["hanging"] = "wait"]
  <2>1. state_ = "CONNECTED"
    BY <1>6 DEF Fit, PollOnlyWhenConnected
  <2> QED
    BY <1>1, <1>2, <1>6, <2>1, OthersFit DEF Sockets, Fit
<1>7. CASE sock' = sock
  BY <1>1, <1>2, <1>7, OthersFit DEF Fit
<1>8. CASE HeartbeatReply \/ OnHeartbeatGetClose \/ OnHeartbeatGetConnect
  <2>1. \E new \in SocketStates : sock' = [sock EXCEPT !["heartbeat"] = new]
    BY <1>8 DEF HeartbeatReply, OnHeartbeatGetRead, AfterReply, OnHeartbeatGetClose, HangUp, OnHeartbeatGetConnect,
      SocketStates, Requests
  <2> QED
    BY <1>3, <2>1
<1>9. CASE OnHeartbeatMessage
  BY <1>3, <1>7, <1>9, DialOutcomesAreStates DEF OnHeartbeatMessage, Redial
<1>10. CASE CapacityReply \/ CapacityClose \/ OnCapacityConnect
  <2>1. Open("capacity")
    BY <1>10 DEF CapacityReply, OnCapacityRead, CapacityClose, OnCapacityConnect, Open, Drops, Refuses
  <2>2. \E new \in CapacityStates : sock' = [sock EXCEPT !["capacity"] = new]
    BY <1>10 DEF CapacityReply, OnCapacityRead, AfterReply, CapacityClose, HangUp, OnCapacityConnect, CapacityStates
  <2> QED
    BY <1>4, <2>1, <2>2
<1>11. CASE \E s \in {"control", "hanging"} : OnClose(s)
  <2>1. PICK s \in {"control", "hanging"} : OnClose(s)
    BY <1>11
  <2>2. Emitted(s) # Get("hanging")
    BY DEF Emitted, Get
  <2>3. sock' = HangUp(sock, s) /\ Open(s)
    BY <2>1, <2>2 DEF OnClose, Drops, Open
  <2> QED
    BY <1>5, <2>3
<1>12. CASE OnHangingGetConnect
  BY <1>6, <1>12 DEF OnHangingGetConnect, Open
<1> QED
  BY <1>8, <1>9, <1>10, <1>11, <1>12

LEMMA OnConnectFit ==
  ASSUME Types, Types', Fit, OnConnect
  PROVE  Fit'
<1>1. /\ UNCHANGED <<state_, my_id_, resolver_>>
      /\ sock["control"] = "connecting"
      /\ \/ sock'["control"] = "idle"
         \/ sock'["control"] = onconnect_data_ /\ onconnect_data_ \in ControlRequests
      /\ sock'["hanging"] = sock["hanging"] /\ sock'["capacity"] = sock["capacity"]
  BY DEF OnConnect, Types, Sockets
<1>2. ~SignedOff
  BY <1>1 DEF Fit, Silent, Open
<1>3. PreparedFits'
  BY <1>1 DEF Fit, PreparedFits, InProgress, ControlRequests
<1> QED
  BY <1>1, <1>2, <1>3 DEF Fit, ResolvesBeforeSession, SignedOff, Open, PollOnlyWhenConnected, IdOnlyInSession,
    ControlRequests

LEMMA RefusedFit ==
  ASSUME ~RefiresOwnPointer, Types, NEW s \in {"control", "hanging"}, OnCloseRefused(s)
  PROVE  Fit' /\ retries' = retries
<1>1. HangUp(sock, s) \in [Sockets -> SocketStates]
  BY DEF HangUp, Types, SocketStates
<1>2. Emitted(s) # Get("control")
  BY DEF Emitted, Get
<1>3. Close(HangUp(sock, s), state_) /\ retries' = retries
  BY <1>2 DEF OnCloseRefused
<1> QED
  BY <1>1, <1>3, CloseFit

LEMMA ApplicationFit ==
  ASSUME ~ShutdownCalled, Types, Types', AnyUse, Fit, NothingLeft, Application
  PROVE  Fit' /\ NothingLeft'
<1>1. CASE Connect
  <2>1. resolver_ # "pending" /\ my_id_ = NoId
    BY <1>1 DEF Connect, Fit, ResolvesBeforeSession, SignedOff
  <2>2. NothingLeft'
    BY <1>1, <2>1 DEF Connect, NothingLeft
  <2>3. CASE DoConnect(resolver_)
    BY <2>1, <2>2, <2>3, DoConnectFit
  <2>4. CASE state_' = "RESOLVING" /\ UNCHANGED <<my_id_, announced, link>>
    <3>1. Silent /\ state_ = "NOT_CONNECTED"
      BY <1>1 DEF Connect, Fit, SignedOff
    <3> QED
      BY <2>1, <2>2, <2>4, <3>1 DEF Fit, ResolvesBeforeSession, SignedOff, Silent, Open, PollOnlyWhenConnected,
        PreparedFits, InProgress, IdOnlyInSession, SigningOut
  <2> QED
    BY <1>1, <2>3, <2>4 DEF Connect
<1>2. CASE \E value \in Capacities : UpdateCapacity(value)
  <2>1. PICK value \in Capacities : UpdateCapacity(value)
    BY <1>2
  <2>2. /\ sock'["control"] = sock["control"] /\ sock'["hanging"] = sock["hanging"]
        /\ sock'["capacity"] = sock["capacity"] \/ sock'["capacity"] \in DialOutcomes
        /\ state_ = "CONNECTED" /\ UNCHANGED <<state_, my_id_, onconnect_data_, resolver_, retries, orphans>>
    BY <2>1 DEF UpdateCapacity, Dial, Sockets, Types
  <2> QED
    BY <2>2, OthersFit, EnvironmentAssumption DEF Types, NothingLeft, Fit, CapacityStates
<1>3. CASE SendToPeer
  <2>1. sock \in [Sockets -> SocketStates] /\ resolver_ # "pending" /\ NothingLeft'
    BY <1>3 DEF SendToPeer, Types, Fit, ResolvesBeforeSession, NothingLeft
  <2>2. CASE Dialled(sock, "message", "CONNECTED", resolver_)
    BY <2>1, <2>2, DialledFit DEF Fit
  <2>3. CASE DialFailed(sock, "CONNECTED")
    BY <2>1, <2>3, CloseFit DEF DialFailed
  <2> QED
    BY <1>3, <2>2, <2>3 DEF SendToPeer
<1>4. CASE SignOut
  <2>1. CASE SignOutFrom(sock) /\ sock["hanging"] # "null"
    BY <1>4, <2>1, SignOutFromFit DEF SignOut, Finished, Types, NothingLeft
  <2>2. CASE UNCHANGED <<session, sock, onconnect_data_, resolver_>>
    BY <1>4, <2>2, OthersFit DEF SignOut, Types, Fit, NothingLeft
  <2> QED
    BY <1>4, <2>1, <2>2 DEF SignOut
<1>5. CASE \/ \E enabled \in BOOLEAN : SetHeartbeatMs(enabled)
           \/ \E id \in Ids : UpdateConnectionState(id)
  <2>1. UNCHANGED <<state_, my_id_, sock, onconnect_data_, resolver_, retries, orphans>>
    BY <1>5 DEF SetHeartbeatMs, UpdateConnectionState
  <2> QED
    BY <2>1, OthersFit DEF Types, Fit, NothingLeft
<1> QED
  BY <1>1, <1>2, <1>3, <1>4, <1>5 DEF Application, Shutdown

LEMMA ResolverFit ==
  ASSUME Types, Fit, NothingLeft, OnResolveResult \/ OnOrphanResolveResult
  PROVE  Fit' /\ NothingLeft'
<1>1. OnResolveResult /\ resolver_ = "pending" /\ my_id_ = NoId /\ Silent /\ NothingLeft'
  BY DEF OnResolveResult, OnOrphanResolveResult, NothingLeft, Fit, SignedOff
<1>2. CASE DoConnect("done")
  BY <1>1, <1>2, DoConnectFit
<1>3. CASE ResolveFailed
  BY <1>1, <1>3 DEF ResolveFailed, Fit, ResolvesBeforeSession, SignedOff, Silent, Open, PollOnlyWhenConnected,
    PreparedFits, InProgress, IdOnlyInSession
<1> QED
  BY <1>1, <1>2, <1>3 DEF OnResolveResult

LEMMA NextFit ==
  ASSUME ~ShutdownCalled, ~RefiresOwnPointer, Types, Types', AnyUse, Fit, NothingLeft, [Next]_vars
  PROVE  Fit' /\ NothingLeft'
<1>1. CASE Application
  BY <1>1, ApplicationFit
<1>2. CASE OnResolveResult \/ OnOrphanResolveResult
  BY <1>2, ResolverFit
<1>3. CASE OnConnect
  BY <1>3, OnConnectFit DEF OnConnect, NothingLeft
<1>4. CASE ControlReply
  BY <1>4, ControlReplyFit DEF ControlReply, OnRead, NothingLeft
<1>5. CASE PollReply
  <2>1. peers_ \in SUBSET Ids
    BY DEF Types
  <2>2. PICK r \in Replies, changed \in SUBSET Ids : OnHangingGetRead(r, changed)
    BY <1>5, <2>1 DEF PollReply
  <2>3. NothingLeft'
    BY <2>2 DEF OnHangingGetRead, NothingLeft
  <2> QED
    BY <2>2, <2>3, PollReplyFit
<1>6. CASE \/ HeartbeatReply \/ CapacityReply \/ OnHeartbeatGetClose \/ CapacityClose
           \/ OnHeartbeatMessage
           \/ \E s \in {"control", "hanging"} : OnClose(s)
           \/ OnHangingGetConnect \/ OnHeartbeatGetConnect \/ OnCapacityConnect
  <2>1. NothingLeft'
    BY <1>6 DEF HeartbeatReply, OnHeartbeatGetRead, CapacityReply, OnCapacityRead, OnHeartbeatGetClose,
      CapacityClose, OnHeartbeatMessage, OnClose, OnHangingGetConnect, OnHeartbeatGetConnect, OnCapacityConnect,
      NothingLeft
  <2> QED
    BY <1>6, <2>1, OtherEventsFit
<1>7. CASE \E s \in {"control", "hanging"} : OnCloseRefused(s)
  BY <1>7, RefusedFit DEF OnCloseRefused, NothingLeft
<1>8. CASE OnRetryMessage
  BY <1>8 DEF OnRetryMessage, NothingLeft
<1>9. CASE UNCHANGED vars
  BY <1>9, OthersFit DEF vars, Types, Fit, NothingLeft
<1> QED
  BY <1>1, <1>2, <1>3, <1>4, <1>5, <1>6, <1>7, <1>8, <1>9 DEF Next, Network, Timer

\* Over the shipped socket and without Shutdown the sockets fit the state, and
\* nothing of an earlier connection is posted or still running.
THEOREM ShippedInvariant ==
  ASSUME ~ShutdownCalled, ~RefiresOwnPointer
  PROVE  Spec => [](Fit /\ NothingLeft)
<1>1. Types /\ Types' /\ AnyUse /\ Fit /\ NothingLeft /\ [Next]_vars => Fit' /\ NothingLeft'
  BY NextFit
<1> QED
  BY <1>1, FitInit, TypesHold, AnyUseInvariant, PTL DEF Spec

\* No connection of the client outlives its state, and the request the server
\* is answering is one the state allows (peer_connection_client.cpp).
THEOREM ConnectionsAlwaysFit ==
  ASSUME ~ShutdownCalled, ~RefiresOwnPointer
  PROVE  Spec => []ConnectionsFitState
<1>1. Fit => ConnectionsFitState
  BY DEF Fit, SignedOff, Silent, ConnectionsFitState, SilentWhenSignedOff, RequestFitsState, PreparedFits,
    InProgress
<1> QED
  BY <1>1, ShippedInvariant, PTL

\* No session begins with the id of an earlier one.
THEOREM IdsBelongToSessions ==
  ASSUME ~ShutdownCalled, ~RefiresOwnPointer
  PROVE  Spec => []IdOnlyInSession
<1>1. Fit => IdOnlyInSession
  BY DEF Fit
<1> QED
  BY <1>1, ShippedInvariant, PTL

-----------------------------------------------------------------------------
(* What a step does to the id and to the state *)

\* Whoever calls Close() ends the session; nothing else takes an id away.
LEMMA IdStaysOrEnds ==
  ASSUME [Next]_vars, my_id_ # NoId
  PROVE  my_id_' = my_id_ \/ EndSession
<1>1. CASE Application
  BY <1>1 DEF Application, Connect, UpdateCapacity, SendToPeer, SignOut, SignOutFrom, Shutdown, SetHeartbeatMs,
    UpdateConnectionState, DoConnect, Dialled, DialFailed, Close
<1>2. CASE OnResolveResult \/ OnOrphanResolveResult \/ OnRetryMessage
  BY <1>2 DEF OnResolveResult, OnOrphanResolveResult, OnRetryMessage, ResolveFailed, DoConnect, Dialled, DialFailed,
    Close
<1>3. CASE ControlReply
  <2>1. PICK r \in Replies, id \in Ids, present \in SUBSET Ids : OnRead(r, id, present)
    BY <1>3 DEF ControlReply
  <2> QED
    BY <2>1 DEF OnRead, FirstReply, SignOutFrom, Dialled, DialFailed, Close
<1>4. CASE PollReply
  <2>1. PICK r \in Replies : \E changed : OnHangingGetRead(r, changed)
    BY <1>4 DEF PollReply
  <2> QED
    BY <2>1 DEF OnHangingGetRead, Close
<1>5. CASE \/ OnConnect \/ OnHangingGetConnect \/ OnHeartbeatGetConnect \/ OnCapacityConnect
           \/ HeartbeatReply \/ CapacityReply \/ OnHeartbeatGetClose \/ CapacityClose \/ OnHeartbeatMessage
           \/ \E s \in {"control", "hanging"} : OnClose(s)
  BY <1>5 DEF OnConnect, OnHangingGetConnect, OnHeartbeatGetConnect, OnCapacityConnect, HeartbeatReply,
    OnHeartbeatGetRead, CapacityReply, OnCapacityRead, OnHeartbeatGetClose, CapacityClose, OnHeartbeatMessage,
    OnClose
<1>6. CASE \E s \in {"control", "hanging"} : OnCloseRefused(s)
  BY <1>6 DEF OnCloseRefused, Close
<1>7. CASE UNCHANGED vars
  BY <1>7 DEF vars
<1> QED
  BY <1>1, <1>2, <1>3, <1>4, <1>5, <1>6, <1>7 DEF Next, Network, Timer

\* An id lasts until the session ends, whatever the server answers and whether or
\* not the client is the shipped one.
THEOREM IdLastsForSession == Spec => OneIdPerSession
<1>1. [Next]_vars =>
        [my_id_ # NoId /\ my_id_' # my_id_ => state_' = "NOT_CONNECTED" /\ my_id_' = NoId]_vars
  BY IdStaysOrEnds DEF EndSession
<1> QED
  BY <1>1, PTL DEF Spec, OneIdPerSession

LEMMA SigningOutGoesOn ==
  ASSUME Fit, NothingLeft, [Next]_vars, state_ \in SigningOut, resolver_ # "pending"
  PROVE  state_' \in SigningOut \cup {"NOT_CONNECTED"}
<1> USE DEF SigningOut
<1>1. CASE Application
  BY <1>1 DEF Application, Connect, UpdateCapacity, SendToPeer, SignOut, SignOutFrom, Shutdown, SetHeartbeatMs,
    UpdateConnectionState, Dialled, DialFailed, Close, EndSession
<1>2. ~(OnResolveResult \/ OnOrphanResolveResult \/ OnRetryMessage)
  BY DEF OnResolveResult, OnOrphanResolveResult, OnRetryMessage, NothingLeft
<1>3. CASE ControlReply
  <2>1. PICK r \in Replies, id \in Ids, present \in SUBSET Ids : OnRead(r, id, present)
    BY <1>3 DEF ControlReply
  <2> QED
    BY <2>1 DEF OnRead, SignedIn, CompletesSignIn, SignOutFrom, Dialled, DialFailed, Close, EndSession
<1>4. CASE PollReply
  <2>1. PICK r \in Replies : \E changed : OnHangingGetRead(r, changed)
    BY <1>4 DEF PollReply
  <2> QED
    BY <2>1 DEF OnHangingGetRead, Close, EndSession
<1>5. CASE \/ OnConnect \/ OnHangingGetConnect \/ OnHeartbeatGetConnect \/ OnCapacityConnect
           \/ HeartbeatReply \/ CapacityReply \/ OnHeartbeatGetClose \/ CapacityClose \/ OnHeartbeatMessage
           \/ \E s \in {"control", "hanging"} : OnClose(s)
  BY <1>5 DEF OnConnect, OnHangingGetConnect, OnHeartbeatGetConnect, OnCapacityConnect, HeartbeatReply,
    OnHeartbeatGetRead, CapacityReply, OnCapacityRead, OnHeartbeatGetClose, CapacityClose, OnHeartbeatMessage,
    OnClose
<1>6. CASE \E s \in {"control", "hanging"} : OnCloseRefused(s)
  BY <1>6 DEF OnCloseRefused, Close, EndSession
<1>7. CASE UNCHANGED vars
  BY <1>7 DEF vars
<1> QED
  BY <1>1, <1>2, <1>3, <1>4, <1>5, <1>6, <1>7 DEF Next, Network, Timer

\* A sign-out is not undone: no late reply, timer or resolver brings the shipped
\* client back into a session, except the resolution it was signing in by.
THEOREM SignOutIsNotUndone ==
  ASSUME ~ShutdownCalled, ~RefiresOwnPointer
  PROVE  Spec => NoReturnFromSignOut
<1>1. Fit /\ NothingLeft /\ [Next]_vars =>
        [(state_ \in SigningOut /\ resolver_ # "pending")
           => (state_' \in (SigningOut \cup {"NOT_CONNECTED"}))]_vars
  BY SigningOutGoesOn
<1> QED
  BY <1>1, ShippedInvariant, PTL DEF Spec, NoReturnFromSignOut

-----------------------------------------------------------------------------
(* Refinement: what the conductor sees of each step *)

\* What the mapping says state by state.
Mapping ==
  /\ state_ = "NOT_CONNECTED" => phase = "off"
  /\ state_ \in {"RESOLVING", "SIGNING_IN"} => phase = "joining"
  /\ state_ = "CONNECTED" /\ my_id_ = NoId => phase = "anonymous"
  /\ state_ = "CONNECTED" /\ my_id_ # NoId => phase = "on"
  /\ state_ \in SigningOut => phase = "leaving"
  /\ sock["control"] \in ControlRequests => request = sock["control"]
  /\ sock["control"] = "connecting" /\ onconnect_data_ \in ControlRequests => request = onconnect_data_
  /\ sock["control"] = "connecting" /\ onconnect_data_ = "none" => request = "lingering"
  /\ sock["control"] = "idle" => request = "lingering"
  /\ sock["control"] \in {"null", "closed"} => request = "none"
  /\ sock["capacity"] \in {"null", "closed"} => update = "none"
  /\ sock["capacity"] = "connecting" => update = "connecting"
  /\ sock["capacity"] = "capacity" => update = "sent"
  /\ sock["capacity"] = "idle" => update = "lingering"

LEMMA Maps == Mapping
<1>1. /\ state_ = "NOT_CONNECTED" => phase = "off"
      /\ state_ \in {"RESOLVING", "SIGNING_IN"} => phase = "joining"
      /\ state_ = "CONNECTED" /\ my_id_ = NoId => phase = "anonymous"
      /\ state_ = "CONNECTED" /\ my_id_ # NoId => phase = "on"
      /\ state_ \in SigningOut => phase = "leaving"
  BY DEF phase, SigningOut
<1>2. /\ sock["control"] \in ControlRequests => request = sock["control"]
      /\ sock["control"] = "connecting" /\ onconnect_data_ \in ControlRequests => request = onconnect_data_
      /\ sock["control"] = "connecting" /\ onconnect_data_ = "none" => request = "lingering"
      /\ sock["control"] = "idle" => request = "lingering"
      /\ sock["control"] \in {"null", "closed"} => request = "none"
  BY DEF request, InProgress, Open, ControlRequests
<1>3. /\ sock["capacity"] \in {"null", "closed"} => update = "none"
      /\ sock["capacity"] = "connecting" => update = "connecting"
      /\ sock["capacity"] = "capacity" => update = "sent"
      /\ sock["capacity"] = "idle" => update = "lingering"
  BY DEF update, Open
<1> QED
  BY <1>1, <1>2, <1>3 DEF Mapping

LEMMA MapsNext == Mapping'
BY Maps, PTL

LEMMA StaysTheSame ==
  /\ UNCHANGED <<state_, my_id_>> => phase' = phase
  /\ sock'["control"] = sock["control"] /\ UNCHANGED onconnect_data_ => request' = request
  /\ sock'["capacity"] = sock["capacity"] => update' = update
BY DEF phase, request, InProgress, Open, update

LEMMA CloseEnds ==
  ASSUME NEW sk \in [Sockets -> SocketStates], NEW from, Close(sk, from)
  PROVE  Session!End
<1>1. sock'["control"] = "closed" /\ sock'["capacity"] = "closed"
  BY DEF Close, ClosedSockets, Sockets
<1>2. state_' = "NOT_CONNECTED" /\ peers_' = {} /\ capacity_data_' = NoCapacity
  BY DEF Close, EndSession
<1> QED
  BY <1>1, <1>2, MapsNext DEF Session!End, Mapping

\* A step of the client is one of the session, or none.
Seen == Session!SessionNext \/ UNCHANGED Session!session

LEMMA NotSeen ==
  ASSUME UNCHANGED <<state_, my_id_, peers_, capacity_data_>>, request' = request, update' = update
  PROVE  Seen
BY StaysTheSame DEF Seen, Session!session

LEMMA DoConnectSeen ==
  ASSUME NEW resolver, DoConnect(resolver)
  PROVE  \/ Session!End
         \/ /\ phase' = "joining" /\ request' = "sign_in" /\ update' = "none"
            /\ UNCHANGED <<peers_, capacity_data_>>
<1>1. NewSockets \in [Sockets -> SocketStates]
  BY DEF NewSockets, SocketStates
<1>2. CASE Dialled(NewSockets, "sign_in", "SIGNING_IN", resolver)
  <2>1. /\ state_' = "SIGNING_IN" /\ onconnect_data_' = "sign_in"
        /\ sock'["control"] = "connecting" /\ sock'["capacity"] = "closed"
        /\ UNCHANGED <<peers_, capacity_data_>>
    BY <1>2 DEF Dialled, Redial, NewSockets, Sockets
  <2> QED
    BY <2>1, MapsNext DEF Mapping, ControlRequests
<1>3. CASE DialFailed(NewSockets, state_)
  BY <1>1, <1>3, CloseEnds DEF DialFailed
<1> QED
  BY <1>2, <1>3 DEF DoConnect

LEMMA EndSeen == Session!End => Seen
BY DEF Seen, Session!SessionNext

LEMMA ConnectSeen == Types /\ Fit /\ Connect => Seen
<1> SUFFICES ASSUME Types, Fit, Connect
             PROVE  Seen
  OBVIOUS
<1>1. state_ = "NOT_CONNECTED" /\ \A s \in {"control", "capacity"} : sock[s] \in {"null", "closed"}
  BY DEF Connect, Fit, SignedOff, Silent, Open
<1>2. phase = "off" /\ request = "none" /\ update = "none"
  BY <1>1, Maps DEF Mapping
<1>3. CASE DoConnect(resolver_)
  BY <1>2, <1>3, DoConnectSeen, EndSeen DEF Seen, Session!SessionNext, Session!Join
<1>4. CASE state_' = "RESOLVING" /\ UNCHANGED <<my_id_, peers_, link>>
  <2>1. phase' = "joining"
    BY <1>4, MapsNext DEF Mapping
  <2>2. request' = request /\ update' = update
    BY <1>4, StaysTheSame
  <2> QED
    BY <1>2, <1>4, <2>1, <2>2 DEF Seen, Session!SessionNext, Session!Join
<1> QED
  BY <1>3, <1>4 DEF Connect

LEMMA UpdateCapacitySeen ==
  ASSUME Types, NEW v \in Capacities, UpdateCapacity(v)
  PROVE  Seen
<1>1. PICK outcome \in DialOutcomes : sock' = Dial(sock, "capacity", outcome)
  BY DEF UpdateCapacity
<1>2. /\ state_ = "CONNECTED" /\ UNCHANGED <<state_, my_id_, peers_, onconnect_data_>>
      /\ capacity_data_' = v /\ sock'["control"] = sock["control"]
  BY <1>1 DEF UpdateCapacity, Dial, Types, Sockets
<1>3. phase \in {"on", "anonymous"} /\ phase' = phase /\ request' = request
  BY <1>2, Maps, StaysTheSame DEF Mapping
<1>4. update' \in IF update = "none" THEN {"none", "connecting"} ELSE {update}
  <2>1. CASE sock["capacity"] = "closed"
    <3>1. sock'["capacity"] \in {"closed", "connecting"} /\ update = "none"
      BY <1>1, <2>1, EnvironmentAssumption, Maps DEF Dial, Types, Sockets, Mapping
    <3> QED
      BY <3>1, MapsNext DEF Mapping
  <2>2. CASE sock["capacity"] # "closed"
    BY <1>1, <2>2, StaysTheSame DEF Dial
  <2> QED
    BY <2>1, <2>2
<1> QED
  BY <1>2, <1>3, <1>4 DEF Seen, Session!SessionNext, Session!UpdateTo, Session!Updated, Session!SignedOn

LEMMA SendSeen == Types /\ SendToPeer => Seen
<1> SUFFICES ASSUME Types, SendToPeer
             PROVE  Seen
  OBVIOUS
<1>1. sock \in [Sockets -> SocketStates]
  BY DEF Types
<1>2. phase = "on" /\ request = "none"
  BY Maps DEF SendToPeer, Mapping
<1>3. CASE Dialled(sock, "message", "CONNECTED", resolver_)
  <2>1. /\ sock'["control"] = "connecting" /\ onconnect_data_' = "message"
        /\ sock'["capacity"] = sock["capacity"] /\ UNCHANGED <<state_, my_id_, peers_, capacity_data_>>
    BY <1>1, <1>3 DEF Dialled, Redial, SendToPeer, Sockets
  <2>2. request' = "message" /\ phase' = phase /\ update' = update
    BY <2>1, MapsNext, StaysTheSame DEF Mapping, ControlRequests
  <2> QED
    BY <1>2, <2>1, <2>2 DEF Seen, Session!SessionNext, Session!Send
<1>4. CASE DialFailed(sock, "CONNECTED")
  BY <1>1, <1>4, CloseEnds, EndSeen DEF DialFailed
<1> QED
  BY <1>3, <1>4 DEF SendToPeer

\* What SignOut leads to when it is called, or when the reply it waited for is
\* there.
LEMMA SignOutFromSeen ==
  ASSUME Types, Fit, NEW sk, Finished(sk), SignOutFrom(sk), sk["control"] # "null"
  PROVE  \/ Session!End
         \/ /\ phase' = "leaving" /\ update' = update /\ UNCHANGED <<peers_, capacity_data_>>
            /\ \/ sk["control"] = "closed" /\ my_id_ # NoId /\ request' = "sign_out"
               \/ request' = request
               \/ sk["control"] # sock["control"] /\ request' \in {"none", "lingering"}
<1> DEFINE quiet == HangUp(sk, "hanging")
<1>1. /\ quiet \in [Sockets -> SocketStates]
      /\ quiet["capacity"] = sock["capacity"]
      /\ quiet["control"] = sk["control"]
  BY DEF HangUp, Finished, Sockets, SocketStates
<1>2. CASE Dialled(quiet, "sign_out", "SIGNING_OUT", resolver_) /\ quiet["control"] = "closed" /\ my_id_ # NoId
  <2>1. /\ state_' = "SIGNING_OUT" /\ onconnect_data_' = "sign_out"
        /\ sock'["control"] = "connecting" /\ sock'["capacity"] = sock["capacity"]
        /\ UNCHANGED <<peers_, capacity_data_>>
    BY <1>1, <1>2 DEF Dialled, Redial, Sockets
  <2>2. phase' = "leaving" /\ request' = "sign_out" /\ update' = update
    BY <2>1, MapsNext, StaysTheSame DEF Mapping, ControlRequests, SigningOut
  <2> QED
    BY <1>1, <1>2, <2>1, <2>2
<1>3. CASE DialFailed(quiet, "SIGNING_OUT")
  BY <1>1, <1>3, CloseEnds DEF DialFailed
<1>4. ASSUME sock' = quiet, UNCHANGED <<my_id_, peers_, onconnect_data_, capacity_data_>>,
             state_' \in SigningOut
      PROVE  /\ phase' = "leaving" /\ update' = update /\ UNCHANGED <<peers_, capacity_data_>>
             /\ \/ request' = request
                \/ sk["control"] # sock["control"] /\ request' \in {"none", "lingering"}
  <2>1. phase' = "leaving" /\ update' = update
    BY <1>1, <1>4, MapsNext, StaysTheSame DEF Mapping
  <2>2. CASE sk["control"] = sock["control"]
    BY <1>1, <1>4, <2>1, <2>2, StaysTheSame
  <2>3. CASE sk["control"] # sock["control"] /\ sk["control"] \in {"closed", "idle"}
    BY <1>1, <1>4, <2>1, <2>3, MapsNext DEF Mapping
  <2> QED
    BY <2>2, <2>3 DEF Finished
<1> QED
  BY <1>1, <1>2, <1>3, <1>4 DEF SignOutFrom, SigningOut

LEMMA SignOutSeen == Types /\ Fit /\ SignOut => Seen
<1> SUFFICES ASSUME Types, Fit, SignOut
             PROVE  Seen
  OBVIOUS
<1>1. CASE UNCHANGED <<session, sock, onconnect_data_, capacity_data_>>
  BY <1>1, StaysTheSame, NotSeen
<1>2. CASE SignOutFrom(sock) /\ sock["hanging"] # "null"
  <2>1. phase # "off" /\ sock["control"] # "null" /\ Finished(sock)
    BY <1>2, Maps DEF SignOut, Fit, Finished, Types, States, SigningOut, Mapping
  <2>2. sock["control"] = "closed" /\ my_id_ # NoId => request = "none" /\ phase \in {"on", "leaving"}
    BY Maps DEF Mapping, Fit, IdOnlyInSession
  <2>3. \/ Session!End
        \/ /\ phase' = "leaving" /\ UNCHANGED <<update, peers_, capacity_data_>>
           /\ \/ request = "none" /\ phase \in {"on", "leaving"} /\ request' = "sign_out"
              \/ request' = request
    BY <1>2, <2>1, <2>2, SignOutFromSeen
  <2> QED
    BY <2>1, <2>3, EndSeen DEF Seen, Session!SessionNext, Session!Leave, Session!SignsOut
<1> QED
  BY <1>1, <1>2 DEF SignOut

LEMMA ResolverSeen ==
  Types /\ Fit /\ NothingLeft /\ (OnResolveResult \/ OnOrphanResolveResult) => Seen
<1> SUFFICES ASSUME Types, Fit, NothingLeft, OnResolveResult \/ OnOrphanResolveResult
             PROVE  Seen
  OBVIOUS
<1>1. /\ OnResolveResult /\ state_ \in {"RESOLVING", "SIGNING_OUT"}
      /\ \A s \in {"control", "capacity"} : sock[s] \in {"null", "closed"}
  BY DEF OnResolveResult, OnOrphanResolveResult, NothingLeft, Fit, ResolvesBeforeSession, SignedOff, Silent, Open
<1>2. phase \in {"joining", "leaving"} /\ request = "none" /\ update = "none"
  BY <1>1, Maps DEF Mapping, SigningOut
<1>3. CASE DoConnect("done")
  BY <1>2, <1>3, DoConnectSeen, EndSeen DEF Seen, Session!SessionNext, Session!Resolved
<1>4. CASE ResolveFailed
  <2>1. /\ phase' = "off" /\ request' = request /\ update' = update
        /\ UNCHANGED <<peers_, capacity_data_>>
    BY <1>4, MapsNext, StaysTheSame DEF ResolveFailed, Mapping
  <2> QED
    BY <1>2, <2>1 DEF Seen, Session!SessionNext, Session!Unresolved
<1> QED
  BY <1>1, <1>3, <1>4 DEF OnResolveResult

\* The reply to a request of a session that goes on.
LEMMA AnswerSeen ==
  ASSUME phase' = phase, request # "none", request' \in {"none", "lingering"}, update' = update,
         UNCHANGED capacity_data_,
         \/ UNCHANGED peers_
         \/ request = "sign_in" /\ \E present \in SUBSET Ids : peers_' = peers_ \cup present
  PROVE  Seen
BY DEF Seen, Session!SessionNext, Session!Answered, Session!Over

\* The end of OnRead, for a connection sk after the reply.
LEMMA SignedInSeen ==
  ASSUME Types, Fit, sock["control"] \in ControlRequests,
         NEW sk \in [Sockets -> SocketStates],
         \A s \in Sockets \ {"control"} : sk[s] = sock[s],
         sk["control"] \in {"closed", "idle", "connecting"},
         onconnect_data_ = "none", SignedIn(sk),
         UNCHANGED <<onconnect_data_, capacity_data_>>,
         \/ UNCHANGED <<my_id_, peers_>>
         \/ /\ sock["control"] = "sign_in" /\ my_id_' \in Ids
            /\ \E present \in SUBSET Ids : peers_' = peers_ \cup present
  PROVE  Seen
<1>1. request = sock["control"] /\ request # "none"
  BY Maps DEF Mapping, ControlRequests
<1>2. state_ \in {"SIGNING_IN", "CONNECTED", "SIGNING_OUT_WAITING", "SIGNING_OUT"}
  BY AnsweredInSession
<1>3. CASE CompletesSignIn
  <2>1. /\ state_' = "CONNECTED"
        /\ sock'["control"] = sk["control"] /\ sock'["capacity"] = sock["capacity"]
    BY <1>3 DEF SignedIn, Dial, Sockets
  <2>2. request' \in {"none", "lingering"} /\ update' = update
    BY <2>1, MapsNext, StaysTheSame DEF Mapping
  <2>3. phase = "joining" /\ request = "sign_in" /\ my_id_ = NoId
    BY <1>1, <1>3, Maps DEF CompletesSignIn, Mapping, Fit, PreparedFits, InProgress, ControlRequests, IdOnlyInSession,
      SigningOut
  <2>4. \/ phase' = "anonymous" /\ UNCHANGED peers_
        \/ phase' = "on" /\ \E present \in SUBSET Ids : peers_' = peers_ \cup present
    BY <2>1, <2>3, MapsNext, IdsAssumption DEF Mapping
  <2> QED
    BY <2>2, <2>3, <2>4 DEF Seen, Session!SessionNext, Session!Joined, Session!Over
<1>4. CASE ~CompletesSignIn
  <2>1. /\ state_' = state_
        /\ sock'["control"] = sk["control"] /\ sock'["capacity"] = sock["capacity"]
    BY <1>4 DEF SignedIn, Sockets
  <2>2. request' \in {"none", "lingering"} /\ update' = update
    BY <2>1, MapsNext, StaysTheSame DEF Mapping
  <2>3. phase' = phase
    <3>1. CASE UNCHANGED my_id_
      BY <2>1, <3>1, StaysTheSame
    <3>2. CASE sock["control"] = "sign_in"
      <4>1. state_ = "SIGNING_OUT_WAITING"
        BY <1>4, <3>2 DEF CompletesSignIn, Fit, PreparedFits, InProgress
      <4> QED
        BY <2>1, <4>1, Maps, MapsNext DEF Mapping, SigningOut
    <3> QED
      BY <3>1, <3>2
  <2> QED
    BY <1>1, <2>2, <2>3, AnswerSeen
<1> QED
  BY <1>3, <1>4

LEMMA ControlReplySeen ==
  ASSUME Types, AnyUse, Fit, NEW received \in Replies, NEW id \in Ids, NEW present \in SUBSET Ids,
         OnRead(received, id, present)
  PROVE  Seen
<1> DEFINE r == IF control_data_ = NoData THEN received ELSE control_data_
           sk == AfterReply("control", r)
<1>1. /\ sk \in [Sockets -> SocketStates]
      /\ \A s \in Sockets \ {"control"} : sk[s] = sock[s]
      /\ sk["control"] \in {"closed", "idle"}
  BY AfterReplyType DEF AfterReply, Sockets, Types
<1>2. sock["control"] \in ControlRequests
  BY DEF OnRead
<1>3. onconnect_data_ = "none"
  BY <1>2 DEF AnyUse, NoStaleRequest, Requests
<1>4. request = sock["control"] /\ request # "none"
  BY <1>2, Maps DEF Mapping, ControlRequests
<1>5. CASE Close(sk, state_)
  BY <1>1, <1>5, CloseEnds, EndSeen
<1>6. CASE SignOutFrom(sk) /\ state_ = "SIGNING_OUT_WAITING" /\ my_id_ # NoId
  <2>1. Finished(sk) /\ sk["control"] # "null"
    BY <1>1, <1>2 DEF Finished
  <2>2. phase = "leaving" /\ request = "message"
    BY <1>2, <1>4, <1>6, Maps DEF Mapping, SigningOut, Fit, PreparedFits, InProgress, ControlRequests
  <2>3. \/ Session!End
        \/ /\ phase' = phase /\ UNCHANGED <<update, peers_, capacity_data_>>
           /\ request' \in {"sign_out", "none", "lingering", request}
    BY <1>6, <2>1, <2>2, SignOutFromSeen
  <2>4. request' = request => Seen
    BY <2>3, EndSeen DEF Seen, Session!session
  <2> QED
    BY <2>2, <2>3, <2>4, EndSeen DEF Seen, Session!SessionNext, Session!Answered, Session!Over
<1>7. CASE SignedIn(sk) /\ UNCHANGED <<my_id_, peers_, onconnect_data_, capacity_data_>>
  BY <1>1, <1>2, <1>3, <1>7, SignedInSeen
<1>8. CASE /\ FirstReply /\ my_id_' = id /\ peers_' = peers_ \cup (present \ {id})
           /\ SignedIn(sk) /\ UNCHANGED <<onconnect_data_, capacity_data_>>
  <2>1. sock["control"] = "sign_in"
    BY <1>2, <1>8 DEF FirstReply, AnyUse, RequestsHaveId, InProgress, ControlRequests
  <2>2. \E new \in SUBSET Ids : peers_' = peers_ \cup new
    BY <1>8
  <2> QED
    BY <1>1, <1>2, <1>3, <1>8, <2>1, <2>2, SignedInSeen
<1>9. CASE /\ \E outcome \in DialOutcomes : SignedIn(Redial(sk, "control", outcome))
           /\ UNCHANGED <<my_id_, peers_, onconnect_data_, capacity_data_>>
  <2>1. PICK outcome \in DialOutcomes : SignedIn(Redial(sk, "control", outcome))
    BY <1>9
  <2>2. /\ Redial(sk, "control", outcome) \in [Sockets -> SocketStates]
        /\ \A s \in Sockets \ {"control"} : Redial(sk, "control", outcome)[s] = sock[s]
        /\ Redial(sk, "control", outcome)["control"] \in {"closed", "idle", "connecting"}
    BY <1>1, EnvironmentAssumption DEF Redial, Sockets, SocketStates
  <2> QED
    BY <1>2, <1>3, <1>9, <2>1, <2>2, SignedInSeen
<1> QED
  BY <1>5, <1>6, <1>7, <1>8, <1>9 DEF OnRead, FirstReply

\* A change of the other sockets only, perhaps with a change of peers_.
LEMMA OthersSeen ==
  ASSUME sock'["control"] = sock["control"], sock'["capacity"] = sock["capacity"],
         UNCHANGED <<state_, my_id_, peers_, onconnect_data_, capacity_data_>>
  PROVE  Seen
BY StaysTheSame, NotSeen

LEMMA PollReplySeen ==
  ASSUME Types, Fit, PollReply
  PROVE  Seen
<1>1. PICK r \in Replies, changed \in SUBSET Ids :
        /\ OnHangingGetRead(r, changed)
        /\ \/ changed = peers_
           \/ \E id \in Ids : changed = peers_ \cup {id} \/ changed = peers_ \ {id}
  BY DEF PollReply, Types
<1> DEFINE closed == AfterReply("hanging", r)
<1>2. PICK outcome \in DialOutcomes, again \in DialOutcomes :
        LET sk == IF r.close /\ Emitted("hanging") = Get("hanging")
                  THEN Rearmed(closed, again) ELSE closed
        IN \/ /\ UNCHANGED <<state_, my_id_, onconnect_data_, capacity_data_>>
              /\ peers_' \in {peers_, changed}
              /\ \/ sock' = Rearmed(sk, outcome)
                 \/ sock' = Rearmed(Redial(sk, "hanging", again), outcome)
           \/ Close(sk, state_)
  BY <1>1 DEF OnHangingGetRead
<1> DEFINE sk == IF r.close /\ Emitted("hanging") = Get("hanging")
                 THEN Rearmed(closed, again) ELSE closed
<1>3. closed \in [Sockets -> SocketStates]
  BY AfterReplyType DEF Sockets
<1>4. sk \in [Sockets -> SocketStates]
  BY <1>3, DialOutcomesAreStates DEF Rearmed, Dial
<1>5. CASE Close(sk, state_)
  BY <1>4, <1>5, CloseEnds, EndSeen
<1>6. CASE ~Close(sk, state_)
  <2>1. /\ UNCHANGED <<state_, my_id_, onconnect_data_, capacity_data_>>
        /\ peers_' \in {peers_, changed}
        /\ \/ sock' = Rearmed(sk, outcome)
           \/ sock' = Rearmed(Redial(sk, "hanging", again), outcome)
    BY <1>2, <1>6
  <2>2. state_ = "CONNECTED"
    BY <1>1 DEF OnHangingGetRead, Open, Fit, PollOnlyWhenConnected
  <2>3. closed["control"] = sock["control"] /\ closed["capacity"] = sock["capacity"]
    BY <1>3 DEF AfterReply, Types, Sockets
  <2>4. sk["control"] = sock["control"] /\ sk["capacity"] = sock["capacity"]
    BY <1>3, <2>3 DEF Rearmed, Dial, Sockets
  <2> HIDE DEF sk
  <2>5. sock'["control"] = sock["control"] /\ sock'["capacity"] = sock["capacity"]
    BY <1>4, <2>1, <2>4 DEF Rearmed, Dial, Redial, Sockets
  <2>6. CASE peers_' = peers_
    BY <2>1, <2>5, <2>6, OthersSeen
  <2>7. CASE \E id \in Ids : peers_' = peers_ \cup {id} \/ peers_' = peers_ \ {id}
    <3>1. phase \in {"on", "anonymous"}
      BY <2>2, Maps DEF Mapping
    <3>2. UNCHANGED <<phase, request, update, capacity_data_>>
      BY <2>1, <2>5, StaysTheSame
    <3> QED
      BY <2>7, <3>1, <3>2 DEF Seen, Session!SessionNext, Session!Came, Session!Left, Session!SignedOn
  <2> QED
    BY <1>1, <2>1, <2>6, <2>7
<1> QED
  BY <1>5, <1>6

LEMMA ConnectEventsSeen ==
  ASSUME Types, OnConnect \/ OnHangingGetConnect \/ OnHeartbeatGetConnect \/ OnCapacityConnect
  PROVE  Seen
<1>1. CASE OnConnect
  <2>1. /\ UNCHANGED <<state_, my_id_, peers_, capacity_data_>>
        /\ sock["control"] = "connecting" /\ sock'["capacity"] = sock["capacity"]
        /\ \/ sock'["control"] = "idle" /\ onconnect_data_ = "none"
           \/ sock'["control"] = onconnect_data_ /\ onconnect_data_ \in ControlRequests
    BY <1>1 DEF OnConnect, Types, Sockets
  <2>2. request' = request
    BY <2>1, Maps, MapsNext DEF Mapping
  <2> QED
    BY <2>1, <2>2, StaysTheSame, NotSeen
<1>2. CASE OnHangingGetConnect \/ OnHeartbeatGetConnect
  BY <1>2, OthersSeen DEF OnHangingGetConnect, OnHeartbeatGetConnect, Types, Sockets
<1>3. CASE OnCapacityConnect
  <2>1. /\ UNCHANGED <<state_, my_id_, peers_, onconnect_data_>> /\ capacity_data_' = NoCapacity
        /\ sock["capacity"] = "connecting" /\ sock'["capacity"] = "capacity"
        /\ sock'["control"] = sock["control"]
    BY <1>3 DEF OnCapacityConnect, Types, Sockets
  <2>2. update = "connecting" /\ update' = "sent" /\ UNCHANGED <<phase, request>>
    BY <2>1, Maps, MapsNext, StaysTheSame DEF Mapping
  <2> QED
    BY <2>1, <2>2 DEF Seen, Session!SessionNext, Session!CapacitySent
<1> QED
  BY <1>1, <1>2, <1>3

LEMMA CapacityDoneSeen ==
  ASSUME Types, CapacityReply \/ CapacityClose, Fit
  PROVE  Seen
<1>1. /\ UNCHANGED <<state_, my_id_, peers_, onconnect_data_, capacity_data_>>
      /\ sock'["control"] = sock["control"]
      /\ \/ sock["capacity"] = "capacity" /\ sock'["capacity"] \in {"closed", "idle"}
         \/ sock["capacity"] \in {"connecting", "capacity", "idle"} /\ sock'["capacity"] = "closed"
  <2>1. CASE CapacityReply
    BY <2>1 DEF CapacityReply, OnCapacityRead, AfterReply, Types, Sockets
  <2>2. CASE CapacityClose
    BY <2>2 DEF CapacityClose, HangUp, Drops, Refuses, Open, Types, Sockets, Fit, CapacityStates
  <2> QED
    BY <2>1, <2>2
<1>2. UNCHANGED <<phase, request>>
  BY <1>1, StaysTheSame
<1>3. update # "none"
  BY <1>1, Maps DEF Mapping
<1>4. CASE sock'["capacity"] = "closed"
  <2>1. update' = "none"
    BY <1>4, MapsNext DEF Mapping
  <2> QED
    BY <1>1, <1>2, <1>3, <2>1 DEF Seen, Session!SessionNext, Session!CapacityDone, Session!Over
<1>5. CASE sock["capacity"] = "capacity" /\ sock'["capacity"] = "idle"
  <2>1. update = "sent" /\ update' = "lingering"
    BY <1>5, Maps, MapsNext DEF Mapping
  <2> QED
    BY <1>1, <1>2, <1>3, <2>1 DEF Seen, Session!SessionNext, Session!CapacityDone, Session!Over
<1> QED
  BY <1>1, <1>4, <1>5

LEMMA OnCloseSeen ==
  ASSUME ~RefiresOwnPointer, Types, NEW s \in {"control", "hanging"}, OnClose(s)
  PROVE  Seen
<1>1. Emitted(s) # Get("hanging")
  BY DEF Emitted, Get
<1>2. /\ sock' = HangUp(sock, s) /\ Open(s)
      /\ UNCHANGED <<state_, my_id_, peers_, onconnect_data_, capacity_data_>>
  BY <1>1 DEF OnClose, Drops, Open
<1>3. CASE s = "hanging"
  BY <1>2, <1>3, OthersSeen DEF HangUp, Types, Sockets
<1>4. CASE s = "control"
  <2>1. sock'["control"] = "closed" /\ sock'["capacity"] = sock["capacity"]
    BY <1>2, <1>4 DEF HangUp, Types, Sockets
  <2>2. request' = "none" /\ UNCHANGED <<phase, update>>
    BY <1>2, <2>1, MapsNext, StaysTheSame DEF Mapping
  <2>3. CASE request = "none"
    BY <1>2, <2>2, <2>3, NotSeen
  <2>4. CASE request # "none"
    BY <1>2, <2>2, <2>4, AnswerSeen
  <2> QED
    BY <2>3, <2>4
<1> QED
  BY <1>3, <1>4

LEMMA HeartbeatSeen ==
  ASSUME Types, HeartbeatReply \/ OnHeartbeatGetClose \/ OnHeartbeatMessage
  PROVE  Seen
<1>1. /\ sock'["control"] = sock["control"] /\ sock'["capacity"] = sock["capacity"]
      /\ UNCHANGED <<state_, my_id_, peers_, onconnect_data_, capacity_data_>>
  BY DEF HeartbeatReply, OnHeartbeatGetRead, AfterReply, OnHeartbeatGetClose, HangUp, OnHeartbeatMessage, Redial,
    Types, Sockets
<1> QED
  BY <1>1, OthersSeen

LEMMA ApplicationSeen ==
  ASSUME ~ShutdownCalled, Types, Fit, Application
  PROVE  Seen
<1>1. CASE \E enabled \in BOOLEAN : SetHeartbeatMs(enabled)
  BY <1>1, OthersSeen DEF SetHeartbeatMs
<1>2. ASSUME NEW id \in Ids, UpdateConnectionState(id)
      PROVE  Seen
  <2>1. /\ UNCHANGED <<phase, request, update, capacity_data_>>
        /\ peers_' = peers_ \cup {id}
    BY <1>2, StaysTheSame DEF UpdateConnectionState
  <2> QED
    BY <2>1 DEF Seen, Session!SessionNext, Session!Show
<1> QED
  BY <1>1, <1>2, ConnectSeen, UpdateCapacitySeen, SendSeen, SignOutSeen DEF Application, Shutdown

LEMMA NextSeen ==
  ASSUME ~ShutdownCalled, ~RefiresOwnPointer, Types, AnyUse, Fit, NothingLeft, [Next]_vars
  PROVE  Seen
<1>1. CASE \E s \in {"control", "hanging"} : OnCloseRefused(s)
  <2>1. PICK s \in {"control", "hanging"} : OnCloseRefused(s)
    BY <1>1
  <2>2. Close(HangUp(sock, s), state_) /\ HangUp(sock, s) \in [Sockets -> SocketStates]
    BY <2>1 DEF OnCloseRefused, Emitted, Get, HangUp, Types, SocketStates
  <2> QED
    BY <2>2, CloseEnds, EndSeen
<1>2. CASE ControlReply
  BY <1>2, ControlReplySeen DEF ControlReply
<1>3. CASE OnRetryMessage
  BY <1>3 DEF OnRetryMessage, NothingLeft
<1>4. CASE UNCHANGED vars
  BY <1>4, OthersSeen DEF vars
<1> QED
  BY <1>1, <1>2, <1>3, <1>4, ApplicationSeen, ResolverSeen, ConnectEventsSeen, PollReplySeen, HeartbeatSeen,
    CapacityDoneSeen, OnCloseSeen
  DEF Next, Network, Timer

LEMMA InitSeen == Init => Session!SessionInit
<1> SUFFICES ASSUME Init
             PROVE  Session!SessionInit
  OBVIOUS
<1>1. phase = "off" /\ request = "none" /\ update = "none"
  BY Maps DEF Init, Mapping, Sockets
<1> QED
  BY <1>1 DEF Init, Session!SessionInit

\* The shipped client is what its conductor takes it for: every behaviour of its
\* sockets, resolvers, timers and callers is one of SignallingSession.
THEOREM ClientImplementsSession ==
  ASSUME ~ShutdownCalled, ~RefiresOwnPointer
  PROVE  Spec => ImplementsSession
<1>1. Types /\ AnyUse /\ Fit /\ NothingLeft /\ [Next]_vars => [Session!SessionNext]_(Session!session)
  BY NextSeen DEF Seen
<1> QED
  BY <1>1, InitSeen, TypesHold, AnyUseInvariant, ShippedInvariant, PTL
  DEF Spec, ImplementsSession, Session!SessionSpec
=============================================================================
