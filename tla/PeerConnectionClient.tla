------------------------ MODULE PeerConnectionClient ------------------------
(***************************************************************************)
(* The native signalling client (Libraries/SignalingClient): it signs in   *)
(* to the signalling server over HTTP/1.0, keeps one long poll (hanging    *)
(* get) open while it is connected, sends peer messages one at a time over *)
(* its control socket, publishes its capacity, beats a heartbeat and signs *)
(* out.                                                                    *)
(*                                                                         *)
(* Every callback runs on the signalling thread, so a step is one call of  *)
(* a public method, or one socket, resolver or timer event.  The state of  *)
(* a socket names the request whose reply it waits for; replies are        *)
(* [status, close], close being the "Connection: close" header.            *)
(***************************************************************************)
EXTENDS Naturals, FiniteSets

CONSTANTS
  Ids,          \* ids the signalling server hands out
  NoId,         \* my_id_ == -1
  Capacities,   \* values given to UpdateCapacity
  NoCapacity,   \* an empty capacity_data_
  Replies,      \* the replies the server may give: [status, close]
  DialOutcomes, \* what AsyncSocket::Connect leaves a closed socket in
  Faults,       \* connection failures that happen: "refused", "lost"
  RefiresOwnPointer, \* the socket's signals carry the socket itself
  ShutdownCalled,    \* the application calls Shutdown
  MaxBeats,     \* bound: heartbeat messages posted and not delivered
  MaxRetries,   \* bound: retry messages posted and not delivered
  MaxOrphans    \* bound: running resolvers that resolver_ no longer names

Statuses == {"200", "500", "error"}
Reply == [status : Statuses, close : BOOLEAN]
NoData == [status |-> "none", close |-> FALSE]

ASSUME IdsAssumption == NoId \notin Ids
ASSUME CapacityAssumption == NoCapacity \notin Capacities
ASSUME EnvironmentAssumption ==
  /\ Replies \subseteq Reply
  /\ DialOutcomes \subseteq {"connecting", "closed"}
  /\ Faults \subseteq {"refused", "lost"}
  /\ RefiresOwnPointer \in BOOLEAN
  /\ ShutdownCalled \in BOOLEAN
ASSUME BoundsAssumption ==
  MaxBeats \in Nat /\ MaxRetries \in Nat /\ MaxOrphans \in Nat

States == {"NOT_CONNECTED", "RESOLVING", "SIGNING_IN", "CONNECTED",
           "SIGNING_OUT_WAITING", "SIGNING_OUT"}
SigningOut == {"SIGNING_OUT_WAITING", "SIGNING_OUT"}
Sockets == {"control", "hanging", "heartbeat", "capacity"}
ControlRequests == {"sign_in", "message", "sign_out"}
Requests == ControlRequests \cup {"wait", "heartbeat", "capacity"}
SocketStates == {"null", "closed", "connecting", "idle"} \cup Requests

VARIABLES
  state_,
  my_id_,
  peers_,
  announced,          \* SignalConnected was emitted after the last SignalDisconnected
  sock,               \* control_socket_, hanging_get_, heartbeat_get_, capacity_socket_
  onconnect_data_,
  control_data_,      \* the reply OnRead left in the buffer, or NoData
  capacity_data_,
  resolver_,          \* "null", "pending" or, having succeeded, "done"
  orphans,
  heartbeat_tick_ms_, \* whether the heartbeat is enabled
  beats,              \* posted kHeartbeatScheduleId messages
  retries,            \* posted retry messages
  crashed             \* a null socket or resolver was dereferenced

session == <<state_, my_id_, peers_, announced>>
link == <<sock, onconnect_data_, control_data_, capacity_data_>>
resolving == <<resolver_, orphans>>
timers == <<heartbeat_tick_ms_, beats, retries>>
vars == <<session, link, resolving, timers, crashed>>

Types ==
  /\ state_ \in States
  /\ my_id_ \in Ids \cup {NoId}
  /\ peers_ \subseteq Ids
  /\ announced \in BOOLEAN
  /\ sock \in [Sockets -> SocketStates]
  /\ onconnect_data_ \in ControlRequests \cup {"none"}
  /\ control_data_ \in Replies \cup {NoData}
  /\ capacity_data_ \in Capacities \cup {NoCapacity}
  /\ resolver_ \in {"null", "pending", "done"}
  /\ orphans \in 0..MaxOrphans
  /\ heartbeat_tick_ms_ \in BOOLEAN
  /\ beats \in 0..MaxBeats
  /\ retries \in 0..MaxRetries
  /\ crashed \in BOOLEAN

\* The sockets are allocated together, before the first sign-in begins: no
\* state that uses one finds a null pointer, none is allocated without the rest.
NoneAllocated == \A s \in Sockets : sock[s] = "null"
AllAllocated == \A s \in Sockets : sock[s] # "null"
Allocated == AllAllocated \/ (NoneAllocated /\ state_ \in {"NOT_CONNECTED", "RESOLVING"})

TypeOK == Types /\ Allocated

Init ==
  /\ state_ = "NOT_CONNECTED" /\ my_id_ = NoId /\ peers_ = {} /\ announced = FALSE
  /\ sock = [s \in Sockets |-> "null"]
  /\ onconnect_data_ = "none" /\ control_data_ = NoData /\ capacity_data_ = NoCapacity
  /\ resolver_ = "null" /\ orphans = 0
  /\ heartbeat_tick_ms_ = FALSE /\ beats = 0 /\ retries = 0
  /\ crashed = FALSE

-----------------------------------------------------------------------------
(* Sockets.  A definition that starts with "Bad" is a faulty variant of the   *)
(* next one: no action uses it, it shows which property a slip there breaks.  *)

\* The pointer a signal of socket s carries, and the one the client holds.
Emitted(s) == IF RefiresOwnPointer THEN <<"SslCapableSocket", s>> ELSE <<"provider", s>>
Get(s) == <<"SslCapableSocket", s>>

\* Connect: a socket that is not closed refuses with SOCKET_ERROR.
Dial(sk, s, outcome) == IF sk[s] = "closed" THEN [sk EXCEPT ![s] = outcome] ELSE sk
Redial(sk, s, outcome) == [sk EXCEPT ![s] = outcome]
BadHangUp(sk, s) == sk
HangUp(sk, s) == [sk EXCEPT ![s] = "closed"]

Connected(s) == sock[s] \in Requests \cup {"idle"}
Open(s) == sock[s] \notin {"null", "closed"}

BadAfterReply(s, r) == [sock EXCEPT ![s] = "idle"]

\* The socket once ReadIntoBuffer has read a whole reply r from it.
AfterReply(s, r) == [sock EXCEPT ![s] = IF r.close THEN "closed" ELSE "idle"]

-----------------------------------------------------------------------------
(* Members that other members call: sk are the sockets when they are called *)

\* Close() leaves heartbeat_get_ and control_data_ alone; it announces the
\* end of the session only when from, the state it is called in, is CONNECTED.
BadClosedSockets(sk) ==
  [s \in Sockets |-> IF s \in {"heartbeat", "capacity"} THEN sk[s] ELSE "closed"]
ClosedSockets(sk) == [s \in Sockets |-> IF s = "heartbeat" THEN sk[s] ELSE "closed"]

BadEndSession == peers_' = {} /\ state_' = "NOT_CONNECTED" /\ UNCHANGED my_id_
EndSession == peers_' = {} /\ my_id_' = NoId /\ state_' = "NOT_CONNECTED"

Close(sk, from) ==
  /\ sock' = ClosedSockets(sk)
  /\ capacity_data_' = NoCapacity
  /\ onconnect_data_' = "none"
  /\ resolver_' = "null"
  /\ EndSession
  /\ announced' = (announced /\ from # "CONNECTED")

\* ConnectControlSocket() that starts to connect with request prepared ...
Dialled(sk, request, next, resolver) ==
  /\ "connecting" \in DialOutcomes
  /\ sock' = Redial(sk, "control", "connecting")
  /\ onconnect_data_' = request
  /\ state_' = next
  /\ resolver_' = resolver
  /\ UNCHANGED <<my_id_, peers_, announced, capacity_data_>>

\* ... and one whose Connect fails at once.
DialFailed(sk, from) == "closed" \in DialOutcomes /\ Close(sk, from)

\* DoConnect() allocates four sockets; the old ones are destroyed.
BadNewSockets == [s \in Sockets |-> IF s = "heartbeat" THEN sock[s] ELSE "closed"]
NewSockets == [s \in Sockets |-> "closed"]

DoConnect(resolver) ==
  \/ Dialled(NewSockets, "sign_in", "SIGNING_IN", resolver)
  \/ DialFailed(NewSockets, state_)

BadSignOutFrom(sk) ==
  /\ sock' = HangUp(sk, "hanging")
  /\ state_' = "SIGNING_OUT_WAITING"
  /\ UNCHANGED <<my_id_, peers_, announced, onconnect_data_, capacity_data_, resolver_>>

BadSignOutInTheMiddle(sk) ==
  /\ sock' = HangUp(sk, "hanging")
  /\ state_' = "SIGNING_OUT"
  /\ UNCHANGED <<my_id_, peers_, announced, onconnect_data_, capacity_data_, resolver_>>

\* SignOut() past its first test.
SignOutFrom(sk) ==
  LET quiet == HangUp(sk, "hanging")
  IN \/ /\ quiet["control"] = "closed" /\ my_id_ # NoId
        /\ \/ Dialled(quiet, "sign_out", "SIGNING_OUT", resolver_)
           \/ DialFailed(quiet, "SIGNING_OUT")
     \/ /\ \/ quiet["control"] = "closed" /\ my_id_ = NoId /\ state_' = "SIGNING_OUT"
           \/ quiet["control"] # "closed" /\ state_' = "SIGNING_OUT_WAITING"
        /\ sock' = quiet
        /\ UNCHANGED <<my_id_, peers_, announced, onconnect_data_, capacity_data_, resolver_>>

-----------------------------------------------------------------------------
(* Calls of the application *)

\* Connect with usable arguments; otherwise only OnServerConnectionFailure.
Connect ==
  /\ state_ = "NOT_CONNECTED"
  /\ \/ /\ DoConnect(resolver_)
        /\ UNCHANGED <<control_data_, orphans>>
     \/ /\ resolver_ = "pending" => orphans < MaxOrphans
        /\ state_' = "RESOLVING"
        /\ resolver_' = "pending"
        /\ orphans' = orphans + IF resolver_ = "pending" THEN 1 ELSE 0
        /\ UNCHANGED <<my_id_, peers_, announced, link>>
  /\ UNCHANGED <<timers, crashed>>

UpdateCapacity(value) ==
  /\ state_ = "CONNECTED"
  /\ capacity_data_' = value
  /\ \E outcome \in DialOutcomes : sock' = Dial(sock, "capacity", outcome)
  /\ UNCHANGED <<session, onconnect_data_, control_data_, resolving, timers, crashed>>

BadSendToPeer ==
  /\ state_ = "CONNECTED" /\ sock["control"] = "closed"
  /\ Dialled(sock, "message", "CONNECTED", resolver_)
  /\ UNCHANGED <<control_data_, orphans, timers, crashed>>

\* SendToPeer and SendHangUp; in every other case they only return false.
SendToPeer ==
  /\ state_ = "CONNECTED" /\ my_id_ # NoId
  /\ sock["control"] = "closed"
  /\ \/ Dialled(sock, "message", "CONNECTED", resolver_)
     \/ DialFailed(sock, "CONNECTED")
  /\ UNCHANGED <<control_data_, orphans, timers, crashed>>

SignOut ==
  /\ state_ \notin {"NOT_CONNECTED", "SIGNING_OUT"}
  /\ IF sock["hanging"] = "null" \* RESOLVING for the first time: hanging_get_ is null
     THEN crashed' = TRUE /\ UNCHANGED <<session, sock, onconnect_data_, capacity_data_, resolver_>>
     ELSE SignOutFrom(sock) /\ UNCHANGED crashed
  /\ UNCHANGED <<control_data_, orphans, timers>>

\* Shutdown keeps my_id_, peers_, the prepared requests and the resolver.
Shutdown ==
  /\ ShutdownCalled
  /\ sock' = [s \in Sockets |-> IF sock[s] = "null" THEN "null" ELSE "closed"]
  /\ state_' = "NOT_CONNECTED"
  /\ announced' = (announced /\ state_ # "CONNECTED")
  /\ UNCHANGED <<my_id_, peers_, onconnect_data_, control_data_, capacity_data_,
                 resolving, timers, crashed>>

SetHeartbeatMs(enabled) ==
  /\ heartbeat_tick_ms_' = enabled
  /\ UNCHANGED <<session, link, resolving, beats, retries, crashed>>

\* operator[] inserts an entry for an id that peers_ does not hold.
UpdateConnectionState(id) ==
  /\ peers_' = peers_ \cup {id}
  /\ UNCHANGED <<state_, my_id_, announced, link, resolving, timers, crashed>>

-----------------------------------------------------------------------------
(* Name resolution: OnResolveResult asks resolver_, whichever resolver ends *)

ResolveFailed ==
  /\ state_' = "NOT_CONNECTED"
  /\ resolver_' = "null"
  /\ UNCHANGED <<my_id_, peers_, announced, sock, onconnect_data_, capacity_data_>>

OnResolveResult ==
  /\ resolver_ = "pending"
  /\ DoConnect("done") \/ ResolveFailed
  /\ UNCHANGED <<control_data_, orphans, timers, crashed>>

\* A resolver that resolver_ no longer names ends: the error of one that
\* still runs is not zero, and a destroyed one is a null pointer.
OnOrphanResolveResult ==
  /\ orphans > 0
  /\ orphans' = orphans - 1
  /\ \/ resolver_ = "pending" /\ ResolveFailed /\ UNCHANGED crashed
     \/ resolver_ = "done" /\ DoConnect("done") /\ UNCHANGED crashed
     \/ /\ resolver_ = "null"
        /\ crashed' = TRUE
        /\ UNCHANGED <<session, sock, onconnect_data_, capacity_data_, resolver_>>
  /\ UNCHANGED <<control_data_, timers>>

-----------------------------------------------------------------------------
(* Socket events *)

BadOnConnect ==
  /\ sock["control"] = "connecting"
  /\ sock' = [sock EXCEPT !["control"] = IF onconnect_data_ = "none" THEN "idle"
                                         ELSE onconnect_data_]
  /\ UNCHANGED <<session, onconnect_data_, control_data_, capacity_data_,
                 resolving, timers, crashed>>

\* An established control connection sends onconnect_data_, even an empty one.
OnConnect ==
  /\ sock["control"] = "connecting"
  /\ sock' = [sock EXCEPT !["control"] = IF onconnect_data_ = "none" THEN "idle"
                                         ELSE onconnect_data_]
  /\ onconnect_data_' = "none"
  /\ UNCHANGED <<session, control_data_, capacity_data_, resolving, timers, crashed>>

OnHangingGetConnect ==
  /\ sock["hanging"] = "connecting"
  /\ sock' = [sock EXCEPT !["hanging"] = "wait"]
  /\ UNCHANGED <<session, onconnect_data_, control_data_, capacity_data_,
                 resolving, timers, crashed>>

OnHeartbeatGetConnect ==
  /\ sock["heartbeat"] = "connecting"
  /\ sock' = [sock EXCEPT !["heartbeat"] = "heartbeat"]
  /\ UNCHANGED <<session, onconnect_data_, control_data_, capacity_data_,
                 resolving, timers, crashed>>

OnCapacityConnect ==
  /\ sock["capacity"] = "connecting"
  /\ sock' = [sock EXCEPT !["capacity"] = "capacity"]
  /\ capacity_data_' = NoCapacity
  /\ UNCHANGED <<session, onconnect_data_, control_data_, resolving, timers, crashed>>

\* The end of OnRead: a client that was signing in is connected, whatever
\* the status was, and starts the long poll and the heartbeat.
BadCompletesSignIn == state_ \in {"SIGNING_IN", "SIGNING_OUT_WAITING"}
CompletesSignIn == state_ = "SIGNING_IN"

BadAnswerIgnored(sk) == sock' = sk /\ UNCHANGED <<state_, announced>>

SignedIn(sk) ==
  \E polls \in DialOutcomes, beat \in DialOutcomes :
    IF CompletesSignIn
    THEN /\ state_' = "CONNECTED"
         /\ announced' = TRUE
         /\ sock' = LET dialled == Dial(sk, "hanging", polls)
                    IN IF heartbeat_tick_ms_ THEN Dial(dialled, "heartbeat", beat) ELSE dialled
    ELSE sock' = sk /\ UNCHANGED <<state_, announced>>

\* Only the first reply of a session brings an id.
BadFirstReply == TRUE
FirstReply == my_id_ = NoId

\* A complete reply on the control socket.  An uncleared control_data_ comes
\* first in the buffer and is what is parsed.  The reply to the sign-in
\* brings an id and the peers already there.
OnRead(received, id, present) ==
  LET r == IF control_data_ = NoData THEN received ELSE control_data_
      sk == AfterReply("control", r)
  IN /\ sock["control"] \in ControlRequests
     /\ \/ /\ r.status = "200" /\ FirstReply
           /\ my_id_' = id
           /\ peers_' = peers_ \cup (present \ {id})
           /\ SignedIn(sk)
           /\ control_data_' = NoData
           /\ UNCHANGED <<onconnect_data_, capacity_data_, resolver_>>
        \/ /\ r.status = "200" /\ ~FirstReply /\ state_ \notin SigningOut
           /\ SignedIn(sk)
           /\ control_data_' = NoData
           /\ UNCHANGED <<my_id_, peers_, onconnect_data_, capacity_data_, resolver_>>
        \/ /\ r.status = "200" /\ ~FirstReply /\ state_ = "SIGNING_OUT"
           /\ Close(sk, state_)
           /\ control_data_' = NoData
        \/ /\ r.status = "200" /\ ~FirstReply /\ state_ = "SIGNING_OUT_WAITING"
           /\ SignOutFrom(sk)
           /\ control_data_' = NoData
        \/ /\ r.status = "500"
           /\ \E outcome \in DialOutcomes : SignedIn(Redial(sk, "control", outcome))
           /\ control_data_' = r
           /\ UNCHANGED <<my_id_, peers_, onconnect_data_, capacity_data_, resolver_>>
        \/ /\ r.status = "error"
           /\ Close(sk, state_)
           /\ control_data_' = NoData
     /\ UNCHANGED <<orphans, timers, crashed>>

\* A long poll that was closed is asked again while the client is connected.
BadRearmed(sk, outcome) == sk
Rearmed(sk, outcome) == IF state_ = "CONNECTED" THEN Dial(sk, "hanging", outcome) ELSE sk

\* The long poll brings a change of the peer list (their ids), a message, or
\* nothing the client can parse; the last two leave peers_ alone.
OnHangingGetRead(r, changed) ==
  LET closed == AfterReply("hanging", r)
  IN /\ sock["hanging"] = "wait"
     /\ \E outcome \in DialOutcomes, again \in DialOutcomes :
          LET sk == IF r.close /\ Emitted("hanging") = Get("hanging")
                    THEN Rearmed(closed, again) ELSE closed
          IN \/ /\ r.status = "200"
                /\ peers_' = changed
                /\ sock' = Rearmed(sk, outcome)
                /\ UNCHANGED <<state_, my_id_, announced, onconnect_data_,
                               capacity_data_, resolver_>>
             \/ /\ r.status = "500"
                /\ sock' = Rearmed(Redial(sk, "hanging", again), outcome)
                /\ UNCHANGED <<session, onconnect_data_, capacity_data_, resolver_>>
             \/ /\ r.status = "error"
                /\ Close(sk, state_)
     /\ UNCHANGED <<control_data_, orphans, timers, crashed>>

\* PostDelayed(kHeartbeatScheduleId), when wanted.
BadPostBeat(wanted) == beats' = beats
PostBeat(wanted) ==
  /\ wanted => beats < MaxBeats
  /\ beats' = beats + IF wanted THEN 1 ELSE 0

OnHeartbeatGetRead(r) ==
  /\ sock["heartbeat"] = "heartbeat"
  /\ sock' = AfterReply("heartbeat", r)
  /\ PostBeat(heartbeat_tick_ms_)
  /\ UNCHANGED <<session, onconnect_data_, control_data_, capacity_data_, resolving,
                 heartbeat_tick_ms_, retries, crashed>>

OnCapacityRead(r) ==
  /\ sock["capacity"] = "capacity"
  /\ sock' = AfterReply("capacity", r)
  /\ UNCHANGED <<session, onconnect_data_, control_data_, capacity_data_,
                 resolving, timers, crashed>>

\* The far end closes a connection: an idle one when it likes, another one
\* only when connections fail.
Drops(s) == \/ sock[s] = "idle"
            \/ Open(s) /\ "lost" \in Faults
Refuses(s) == sock[s] = "connecting" /\ "refused" \in Faults

\* OnClose with an error other than "connection refused".
OnClose(s) ==
  /\ Drops(s)
  /\ \E outcome \in DialOutcomes :
       sock' = IF Emitted(s) = Get("hanging") /\ state_ = "CONNECTED"
               THEN Redial(sock, "hanging", outcome)
               ELSE HangUp(sock, s)
  /\ UNCHANGED <<session, onconnect_data_, control_data_, capacity_data_,
                 resolving, timers, crashed>>

OnCloseRefused(s) ==
  /\ Refuses(s)
  /\ IF Emitted(s) = Get("control")
     THEN /\ retries < MaxRetries
          /\ retries' = retries + 1
          /\ sock' = HangUp(sock, s)
          /\ UNCHANGED <<session, onconnect_data_, capacity_data_, resolver_>>
     ELSE /\ Close(HangUp(sock, s), state_)
          /\ UNCHANGED retries
  /\ UNCHANGED <<control_data_, orphans, heartbeat_tick_ms_, beats, crashed>>

OnHeartbeatGetClose ==
  /\ Drops("heartbeat") \/ Refuses("heartbeat")
  /\ sock' = HangUp(sock, "heartbeat")
  /\ PostBeat(state_ = "CONNECTED")
  /\ UNCHANGED <<session, onconnect_data_, control_data_, capacity_data_, resolving,
                 heartbeat_tick_ms_, retries, crashed>>

\* Nobody listens to the close event of capacity_socket_.
CapacityClose ==
  /\ Drops("capacity") \/ Refuses("capacity")
  /\ sock' = HangUp(sock, "capacity")
  /\ UNCHANGED <<session, onconnect_data_, control_data_, capacity_data_,
                 resolving, timers, crashed>>

-----------------------------------------------------------------------------
(* Messages of the signalling thread *)

OnHeartbeatMessage ==
  /\ beats > 0
  /\ beats' = beats - 1
  /\ \E outcome \in DialOutcomes :
       sock' = IF state_ = "CONNECTED" THEN Redial(sock, "heartbeat", outcome) ELSE sock
  /\ UNCHANGED <<session, onconnect_data_, control_data_, capacity_data_, resolving,
                 heartbeat_tick_ms_, retries, crashed>>

OnRetryMessage ==
  /\ retries > 0
  /\ retries' = retries - 1
  /\ DoConnect(resolver_)
  /\ UNCHANGED <<control_data_, orphans, heartbeat_tick_ms_, beats, crashed>>

-----------------------------------------------------------------------------

Application ==
  \/ Connect
  \/ \E value \in Capacities : UpdateCapacity(value)
  \/ SendToPeer
  \/ SignOut
  \/ Shutdown
  \/ \E enabled \in BOOLEAN : SetHeartbeatMs(enabled)
  \/ \E id \in Ids : UpdateConnectionState(id)

\* What the signalling server does with a request is external: it answers
\* with any reply of Replies, any fresh id and any peers.
ControlReply == \E r \in Replies, id \in Ids, present \in SUBSET Ids : OnRead(r, id, present)
PollReply == \E r \in Replies :
  \/ OnHangingGetRead(r, peers_)
  \/ \E id \in Ids \ {my_id_} : OnHangingGetRead(r, peers_ \cup {id})
  \/ \E id \in Ids \ {my_id_} : OnHangingGetRead(r, peers_ \ {id})
HeartbeatReply == \E r \in Replies : OnHeartbeatGetRead(r)
CapacityReply == \E r \in Replies : OnCapacityRead(r)

Network ==
  \/ OnResolveResult \/ OnOrphanResolveResult
  \/ OnConnect \/ OnHangingGetConnect \/ OnHeartbeatGetConnect \/ OnCapacityConnect
  \/ ControlReply \/ PollReply \/ HeartbeatReply \/ CapacityReply
  \/ \E s \in {"control", "hanging"} : OnClose(s) \/ OnCloseRefused(s)
  \/ OnHeartbeatGetClose \/ CapacityClose

Timer == OnHeartbeatMessage \/ OnRetryMessage

Next == ~crashed /\ (Application \/ Network \/ Timer)

Spec == Init /\ [][Next]_vars

\* The resolver, the server and the network keep going; nothing obliges the
\* application to call.
FairSpec ==
  /\ Spec
  /\ WF_vars(~crashed /\ OnResolveResult)
  /\ WF_vars(~crashed /\ OnConnect)
  /\ WF_vars(~crashed /\ ControlReply)

-----------------------------------------------------------------------------
(* Safety, for every application, socket factory and network *)

\* A request is sent by the connection it was prepared for: once connected
\* the control socket has no request left that a later connection would send.
NoStaleRequest == Connected("control") => onconnect_data_ = "none"

\* The server is never asked to relay or to sign out by a client that has no
\* id, although a failed sign-in can leave one CONNECTED without an id.
IdentifiedRequests == sock["control"] \in {"message", "sign_out"} => my_id_ # NoId

\* RTC_DCHECK of OnRead when the sign-in completes, for every socket: until
\* then the poll, the heartbeat and the capacity update have not started.
QuietSignIn ==
  state_ = "SIGNING_IN" => \A s \in Sockets \ {"control"} : sock[s] = "closed"

\* A client that signs out no longer polls, so no notification or message
\* reaches it while the sign-out is under way.
QuietSignOut == state_ \in SigningOut => sock["hanging"] = "closed"

\* SIGNING_OUT ends by the answer to the sign-out, never by the late answer
\* to a message sent before it.
SignOutAwaitsSignOut ==
  state_ = "SIGNING_OUT" => sock["control"] \in {"closed", "connecting", "idle", "sign_out"}

\* Signing in and signing out are each the only thing under way.
QuietWhileSigning == QuietSignIn /\ QuietSignOut

\* A capacity connection under way has a value to send.
CapacityHasValue == sock["capacity"] = "connecting" => capacity_data_ # NoCapacity

\* SignalConnected is emitted for every period in CONNECTED.
ConnectedWasAnnounced == state_ = "CONNECTED" => announced

-----------------------------------------------------------------------------
(* Safety, for an application that never calls Shutdown, over SslCapableSocket *)

\* A client that is signed off has no connection but a last heartbeat.
SilentWhenSignedOff ==
  state_ \in {"NOT_CONNECTED", "RESOLVING"} =>
    \A s \in {"control", "hanging", "capacity"} : ~Open(s)

\* Only a connected client polls, and only one that is or was connected
\* publishes its capacity.
PollOnlyWhenConnected ==
  /\ Open("hanging") => state_ = "CONNECTED"
  /\ Open("capacity") => state_ \in SigningOut \cup {"CONNECTED"}

\* The request the server is answering is one the state allows.
RequestFitsState ==
  /\ sock["control"] = "sign_in" => state_ \in {"SIGNING_IN", "SIGNING_OUT_WAITING"}
  /\ sock["control"] = "message" => state_ \in {"CONNECTED", "SIGNING_OUT_WAITING"}
  /\ sock["control"] = "sign_out" => state_ = "SIGNING_OUT"

\* Four sockets, opened, closed and redialled by every kind of event, fit state_
\* at all times: no connection outlives its state, or serves a request of another.
ConnectionsFitState == SilentWhenSignedOff /\ PollOnlyWhenConnected /\ RequestFitsState

\* No session begins with the id of an earlier one.
IdOnlyInSession == my_id_ # NoId => state_ \in SigningOut \cup {"CONNECTED"}

\* An id lasts until the session ends: no reply replaces it.
OneIdPerSession ==
  [][my_id_ # NoId /\ my_id_' # my_id_ => state_' = "NOT_CONNECTED" /\ my_id_' = NoId]_vars

\* A client that signs out comes back only by a new Connect, unless a name
\* resolution it left running ends and signs it in.
NoReturnFromSignOut ==
  [][(state_ \in SigningOut /\ resolver_ # "pending")
       => (state_' \in (SigningOut \cup {"NOT_CONNECTED"}))]_vars

-----------------------------------------------------------------------------
(* While connections can be started *)

\* A connected client has a long poll open or on its way.
AlwaysPolling == state_ = "CONNECTED" => Open("hanging")

\* The heartbeat of a connected client goes on until it is switched off.
Beating == Open("heartbeat") \/ beats > 0
HeartbeatSurvives ==
  [][state_ = "CONNECTED" /\ heartbeat_tick_ms_ /\ Beating
       => Beating' \/ state_' # "CONNECTED" \/ ~heartbeat_tick_ms_']_vars

-----------------------------------------------------------------------------
(* Liveness, with a server that answers and a network that does not fail *)

\* The request being sent or answered on the control socket.
InProgress == IF sock["control"] = "connecting" THEN onconnect_data_ ELSE sock["control"]

\* Connect leads to a session, unless the name has no address or the
\* application signs out meanwhile (which crashes a client still resolving).
SignInCompletes ==
  state_ \in {"RESOLVING", "SIGNING_IN"}
    ~> state_ \in SigningOut \cup {"CONNECTED", "NOT_CONNECTED"} \/ crashed

\* A message is answered and its connection closed, so that the next one can
\* be sent: what a conductor's queue of messages relies on.
MessageEnds == InProgress = "message" ~> sock["control"] = "closed" \/ state_ \in SigningOut

\* A sign-out asked of a connected client completes, also when it has to wait
\* for a message that is being sent.
SignOutCompletes ==
  (\/ state_ = "SIGNING_OUT" /\ my_id_ # NoId
   \/ state_ = "SIGNING_OUT_WAITING" /\ InProgress = "message")
    ~> state_ = "NOT_CONNECTED"

=============================================================================
