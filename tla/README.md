# 3DStreamingToolkit: specifications

TLA+ specifications of the control logic of the 3D Streaming Toolkit: the
programs that let a client with a small GPU look at frames rendered and encoded
by a server, over WebRTC, after both have met on a signalling server. The
specifications model what the source under `src/` does, step by step; TLC
checks their properties on small instances and TLAPS proves most of the safety
properties, and the refinements, for all values of their constants.

## 1. The system

| Component | State it keeps | Operations | Talks to |
|---|---|---|---|
| Signalling client, `Libraries/SignalingClient/src/peer_connection_client.cpp` | `state_`, `my_id_`, `peers_`; four sockets (control, hanging get, heartbeat, capacity) with a buffer or a prepared request each; a resolver; the heartbeat period; posted messages | `Connect`, `UpdateCapacity`, `SendToPeer`, `SendHangUp`, `SignOut`, `Shutdown`, `SetHeartbeatMs`, `UpdateConnectionState`; socket, resolver and timer callbacks | the signalling server by HTTP/1.0; a conductor through five signals |
| Socket wrapper, `ssl_capable_socket.cpp` | the wrapped socket, plain or TLS | the `AsyncSocket` interface; refires the signals of the wrapped socket | signalling client, OAuth and TURN providers |
| Observer fan-out, `peer_connection_multi_observer.cpp` | a list of observers | forwards each callback | signalling client, test runner |
| TURN credential provider, `turn_credential_provider.cpp` | `state_`, a socket, a buffer, the token | `RequestCredentials`, socket and resolver callbacks | authentication provider, `main.cpp` |
| OAuth 2.0 device-code provider, `Libraries/Authentication/src/oauth24d_provider.cpp` | `state_`, the code, the hosts, a socket | `Authenticate`, poll timer, socket callbacks | code server, poll server |
| Server authentication provider, `server_authentication_provider.cpp` | `state_`, a socket | `Authenticate`, socket callbacks | authentication server |
| Multi-peer conductor, `Plugins/NativeServerPlugin/src/multi_peer_conductor.cpp` | a conductor per peer id, the capacity left, a queue of messages to peers | signalling callbacks, `ConnectToPeer`, `OnIceConnectionChange`, queue pump | signalling client, peer conductors |
| Peer conductor, `peer_conductor.cpp` | peer connection, data channel, streams of one peer | offer, answer, candidates, close | WebRTC, multi-peer conductor |
| Native client, `Samples/Client/DirectxWin32/src/conductor.cpp`, `main_window.cpp`, `main.cpp` | `peer_connection_`, `peer_id_`, `pending_messages_`; the view shown, the connect button; messages of the thread | log in, call and leave peers, queue and send messages, `UIThreadCallback` | providers, signalling client, WebRTC |
| Unity client, `Plugins/UnityClientPlugin/WebRtcWrapper` (`Signalling.cs`, `Conductor.cs`, `WebRtcControl.cs`) | `_state`, `_myId`, the peers, an `HttpClient`, a heartbeat timer; `_peerId`, the peer connection; the list shown | `Connect`, `SendToPeer`, `SignOut`, the read loop; `ConnectToPeer`, `DisconnectFromPeer`, event handlers | signalling server, WebRTC for UWP, UI thread |
| Frame capturers, `*_buffer_capturer.cpp` | a running flag, staging textures | `Start`, `Stop`, `SendFrame` | renderer, WebRTC |
| Windows service host, `render_service.cpp`, `service_base.cpp`, `App.cpp` | service status, the render thread and its stop flag | start, stop, pause, continue, shutdown | service control manager, main loop |
| Configuration, `config_parser.cpp`, `CppFactory.hpp` | parsed values; a registry of constructors | parse; create | all programs |

`PROJECT.json` lists every component, with the reason when it is not modelled or
modelled in part.

How they interact. Everything in the native programs that touches signalling runs
on one thread per client, so a callback is never interrupted by another one. What
makes that code hard is not preemption but *order*: four sockets, a resolver and
posted messages report in any order, a callback may arrive for a socket the client
has closed and reopened meanwhile, the application may call between any two of
them, and each reply is interpreted by a handler that looks only at the current
`state_` and `my_id_`. The Unity client is written with `async` and `await`: a
method runs to its `await`, and anything may run before it goes on.

What makes each component correct, and what threatens it:

* **Signalling client.** A request is sent by the connection it was prepared
  for, is identified, and is answered by the reply that belongs to it; the long
  poll is open while connected and not while signing in or out; an id belongs to
  one session; a sign-out waits for the message under way and then completes.
  Threatened by late replies, refused and lost connections, failed connects, an
  overtaken resolver, calls in inconvenient states.
* **Providers and login.** The user may connect only with what the server will ask
  for; each reply meets the state it is for; a provider that waits for another one
  waits for something that is under way. Threatened by signals that arrive in either
  order, by repeated requests, lost connections and failed replies.
* **Multi-peer conductor.** The published capacity is the number of free slots;
  messages to each peer go out in order and none waits for ever. Threatened by
  a capacity update refused because another one is under way, by a reconnect, by a
  peer that leaves while its messages wait.
* **Native client conductor.** Window, conversation and session fit; after a
  session whose end it was told of the user can log in again; messages leave in the
  order they were written and none of a live conversation is forgotten. Threatened by
  the client that carries one message at a time, by callbacks posted for a peer who is gone, by
  posted callbacks that are lost.
* **Unity client.** A connected client has an id, a heartbeat and a read loop; no
  loop outlives its session; the list shown is the one the server told.
  Threatened by overlapping sign-ins and sign-outs, by requests that fail after
  the state has changed, by a list that is filled on another thread than the one that
  reads it and cleared on a third.

The hazards, each at its line, with the properties that watch it, are in
`PROJECT.json`.

## 2. Modules

| Module | Models |
|---|---|
| `PeerConnectionClient` | the signalling client over its sockets, with the server, the network and the application as environment |
| `SignallingSession` | abstract: what a conductor sees of a signalling client |
| `PeerConnectionClientSession` | the refinement mapping from the first to the second |
| `MessageChannel` | abstract: what both conductors promise of the messages written to them |
| `MultiPeerConductor` | the server's conductor: peers, slots, message queue; EXTENDS `SignallingSession` |
| `ClientConductor` | the native client's conductor and window; EXTENDS `SignallingSession` |
| `OAuth24DProvider`, `ServerAuthenticationProvider`, `TurnCredentialProvider` | the three providers, each by itself |
| `Login` | `main.cpp`'s wiring of the providers and the connect button; INSTANCEs all three |
| `Signaller` | the Unity signalling client, split at its awaits |
| `UnityConductor` | the Unity conductor and the list of peers; EXTENDS `Signaller` |
| `PeerConnectionClientProofs`, `PeerConnectionClientSafety`, `PeerConnectionClientShipped` | proofs: types; every use; the client as shipped, and the refinement |
| `MultiPeerConductorProofs`, `MultiPeerConductorQueue` | proofs: types, slots, crashes and the session; the message queue and its refinement |
| `ClientConductorProofs`, `UnityConductorProofs`, `LoginProofs` | proofs about the module of that name |
| `MCPeerConnectionClient`, `MCPeerConnectionClientSession`, `MCMultiPeerConductor` | the replies, ICE states and symmetry the runs use |

### 2.1 `PeerConnectionClient` and the code

The variables carry the names of the members they stand for.

* `state_`, `my_id_`, `peers_`, `onconnect_data_`, `capacity_data_`, `resolver_`,
  `heartbeat_tick_ms_`: the members. A prepared request is its kind (`"sign_in"`,
  `"message"`, `"sign_out"`), not its text.
* `sock[s]`: the socket `s`. `"null"` before `DoConnect` allocates it, `"closed"`,
  `"connecting"`, `"idle"` (connected, nothing asked), or the request whose reply
  it waits for. Request and reply are one HTTP/1.0 exchange per connection.
* `control_data_`: the reply a handler left uncleared in the buffer, which is what
  is parsed when the next reply arrives.
* `announced`: what an observer knows, by `SignalConnected` and `SignalDisconnected`.
* `beats`, `retries`: delayed messages posted to the thread and not delivered.
* `orphans`: resolvers still running that `resolver_` no longer names: `Connect`
  overwrites the pointer, and the end of any of them runs `OnResolveResult`.
* `crashed`: a null pointer was dereferenced. Nothing happens after that, which
  is why the runs do not check for deadlock.

Each action is one handler with everything it calls: `Connect` (with `DoConnect`
when the name is an address), `OnResolveResult`, `OnConnect`, `OnRead` (with the
sign-in, sign-out and close it leads to), `OnHangingGetRead`, `OnClose`, and so on;
`PROJECT.json` maps each to its lines. The operators `Close`, `Dialled`,
`DialFailed`, `DoConnect`, `SignOutFrom` and `SignedIn` are the members that other
members call; they take the sockets as they are at the call, because a handler
has usually closed or reopened one before it calls.

Two constants describe what the source leaves open:

* `RefiresOwnPointer`. `OnClose` and `OnHangingGetRead` compare the socket a
  signal carries with the sockets the client holds. `SslCapableSocket` refires the
  signals of the socket it wraps with *that* socket's pointer
  (`ssl_capable_socket.cpp:241`), so over it the comparisons fail; the socket of the
  unit tests (`SignalingClientTests.cpp:93`) emits itself, and they succeed. The
  shipped programs are `RefiresOwnPointer = FALSE`.
* `ShutdownCalled`. `Shutdown` is public and nothing in the repository calls it.

The environment is as weak as the properties allow: the server answers with any
status, with or without `Connection: close`; `AsyncSocket::Connect` starts or fails
(`DialOutcomes`); connections are refused or lost (`Faults`); the application calls
anything at any time.

### 2.2 `SignallingSession`: client and conductors together

Putting all sockets of the client under a conductor would multiply two state
spaces that hardly touch. `SignallingSession` says what a conductor can see of the
client: whether it is signed on and with an id (`phase`), the ids in `peers()`,
what the control connection does (`request`: `SendToPeer` refuses unless it is
`"none"`), what the capacity connection does (`update`) and the number it will
send (`value`). `PeerConnectionClientSession` maps the members of the client to
these five. That each step of the client is a step of the session or none is
checked by `client_session` (`ImplementsSession`) and proved for all constants
(`ClientImplementsSession`). `MultiPeerConductor` and `ClientConductor` EXTEND
`SignallingSession` and conjoin to each of its actions what the conductor does in
that callback or around that call: the modules share actions, so that a property
of a conductor holds over the real client.

The phase `"anonymous"` is the client that is CONNECTED without an id (a 500 reply
to the sign-in): it tells its conductor SignalConnected and never OnSignedIn.

That a conductor uses the session only as `SignallingSession` allows is a theorem of
each (`ConductorUsesSession`). One step of the server's conductor is two of the
session: an ICE change hands over a capacity and then shows its peer
(`UpdateAndShow`), which the theorem names.

`MessageChannel` is the specification on the other side, towards the peer
connections that write messages: a message waits, is sent once as the oldest that
waits, or is lost. The waiting messages are, for the server, those in the queue
and the one the control connection carries; for the native client, those pending
and those that posted callbacks carry (`Channel`, `ImplementsChannel`). The server
loses messages only with a connection (`MessagesLost`); the native client also drops
what it cannot send.

### 2.3 `MultiPeerConductor` and the code

* `connected_peers_`, `connected_peer_states_`, `cur_capacity_`, `message_queue_`,
  `should_process_queue_`, `peer_factory_`: the members. Only "connected" is ever
  recorded in `connected_peer_states_`, so it is the set of recorded peers.
  `should_process_queue_` starts with either value: no constructor sets it.
* `ice[p]`: the ICE state of the peer connection of `p`; `"new"` is also "checking",
  which the conductor passes over.
* `listed`: the peers the server's window shows, from which one is called.
* `posted`: messages `PostDelayed` to the conductor and not delivered. The queue
  holds numbers, in the order the peer conductors wrote.
* `describing`: peers whose offer or answer WebRTC is creating; it holds the peer
  conductor, so that the description is written even after `OnPeerDisconnected`.
* `carried`, `received`: what the control connection carries and what the server got.
* `crashed`: `peers().at(id)` found no peer, or a peer connection was allocated after
  `Close` dropped the factory.

`OnSignedIn` is the callback of a successful sign-in with all that follows from it
in one step: `OnPeerConnected` for every peer of the reply, `OnSignedIn`, and
`HandleSignalConnect`. `OnIceConnectionChange`, `Pump` (`OnMessage`), `ConnectToPeer`,
`OnMessageFromPeer`, `OnPeerDisconnected`, `Close` are the members of that name.

External, modelled from how the code uses it: the order in which a peer
connection reports ICE states (`IceNext`: connected before completed, disconnected
only after one of them), and whether a message whose connection breaks arrived.
The signalling server announces a peer before it relays its messages. `Close` and
`OnDisconnected` happen only in runs with `SessionEnds`.

### 2.4 The providers and `Login`

Each provider's module holds its own variables (`oauth_state`, `oauth_socket`, ...,
which stand for `state_` and `socket_`) and one action per call, callback and timer.
Its actions say nothing of other modules' variables. `Login` declares the
variables of all three, INSTANCEs them, and conjoins to each action what the
listeners of the provider's signals do, in the order they are connected:
`SignalAuthenticationComplete` reaches the TURN provider's
`OnAuthenticationComplete` before `main.cpp`'s `authComplete`
(`AuthenticationComplete`), `SignalCredentialsRetrieved` reaches
`credentialsRetrieved` (`TurnReads`).

* A socket is `"closed"`, `"connecting"`, `"open"` (asked, not answered) or `"spent"`
  (answered and read, nothing more will come); the OAuth socket also records which
  server it leads to.
* `named`, `turn_named`, `authority_named`: which hosts are still names. A name that
  is not found stays one, and the code connects to it all the same.
* `polls`: poll timers posted; never more than one, which is what the type invariant
  says of it (`OAuthTypeOK`).
* `header`, `credentials`, `connect_button_state_`: what `main.cpp` gave the client.
* `failed` is history: something failed.

The native client uses the OAuth provider. Nothing in the repository's programs
uses `ServerAuthenticationProvider`; it has the same interface, and `Login` wires it
in the same place (`kind`).

### 2.5 `ClientConductor` and the code

* `peer_connection_`, `peer_id_`, `loopback_`, `pending_messages_`: the members; a
  message is its number.
* `posted`: `UI_THREAD_CALLBACK` messages in the queue of the thread, in order. What
  is posted comes before the user's input (`Input`), as `GetMessage` returns it.
* `current_ui_`: the view of the main window, or `"closed"`.
* `since`, `sent`, `unheard`, `lost` are history: how many messages were written when
  the peer connection was made, what `SendToPeer` accepted, whether the session
  ended inside a call without OnDisconnected, whether posted callbacks were lost.

`ModalLoop` is a message box or a window being moved: its loop takes thread messages
and gives them to no window. `Silently` is a call of the client that cannot start a
connection and closes itself in it, which also happens when the sign-out that waited
for a message cannot be sent (`SignOutFails`). A message that cannot be sent is
dropped, and the client disconnects from the server (`NotSent`). Events of a window that is
closed are not handled.

### 2.6 `Signaller`, `UnityConductor` and the code

* `state`, `myId`, `peers`, `heartbeatTimer`, `httpClient`: the fields. The `n`th sign-in
  uses the `n`th `HttpClient`, gets the id `n` and starts the `n`th read loop.
* `signIn[n]`, `wait[n]`, `signOut`: how far the request of each is: asked, answered,
  failed; a loop may also wait for the handler of its event (`"handling"`). A wait
  records the client and the id it was asked with.
* `Connect` and `SignedIn` are the two parts of `Connect`, `SignOut` and `SignedOut` those
  of `SignOut`; between them any other step may happen. `Cancelled` is
  `HttpClient.Dispose`.
* `calling` is where `ConnectToPeer` awaits, `hangingUp` that `DisconnectFromPeer` does.
* `uiQueue`: what `RunOnUiThread` queued; `uiPeers`: the list `Peers`, with its duplicates.
  `selectedPeer`: `SelectedPeer`, which stays when its peer has left the list. The two
  changes that `OnPeerConnected` queues, to add the peer and to select it, are made
  together.
* `clearing`: `WebRtcControl.DisconnectFromServer` has still to clear the list. It goes
  on after its own `await`, on a thread of the pool, when the sign-out is over or
  refused (`ClearList`); OnDisconnected has queued a clear for the UI thread as
  well. In between a new sign-in may finish and the UI thread may list its peers.
  That clear is one step, though the collection it empties belongs to the UI thread.
* `misled` is history: the list or the signaller's peers was changed without the
  other: a reply that could not be read, or a clear that was not in time (`InTime`)
  and emptied the list of a session that goes on or has begun meanwhile.
* `Zero` is the peer whose id is 0, if there is one: Signaller_OnPeerDisconnected takes
  that id for any peer's.

What an `async void` method throws ends the program; that is no step.

### 2.7 Conventions

Definitions whose names start with `Bad` are faulty variants of the definition
that follows them, with a guard dropped, a reset forgotten or an order swapped.
No action uses them. Putting one in place of the real definition makes TLC
find the property it is paired with in `PROJECT.json` violated, which shows that the
property says something about that code.

## 3. What TLC checks

| Run | Question | Environment |
|---|---|---|
| `client_session` | The client as shipped: do the connections and the request under way fit the state (`ConnectionsFitState`), is the id that of this session and does it last (`IdOnlyInSession`, `OneIdPerSession`), is there no return from a sign-out (`NoReturnFromSignOut`), is it what its conductor takes it for (`ImplementsSession`)? | every reply, failed connects, refused and lost connections |
| `client_any_use` | What no application and no socket can break: stale or unidentified requests, a quiet sign-in and sign-out, a sign-out ended by its own answer. And: with a socket that emits itself, does the heartbeat survive lost connections (`HeartbeatSurvives`)? | every reply, refused and lost connections, own pointers, `Shutdown` at any time |
| `client_liveness` | Over the shipped socket: is a poll always open while connected, does a connect lead to a session, does a message leave the control connection, does a sign-out end the session? | a server that closes what it has answered and never answers 500; connections may be refused, none is lost |
| `conductor_slots` | Do free slots and recorded peers add up, and is every streaming peer counted, while peers come, call, connect, drop, reconnect, leave and return, across sessions? | two peers, two slots, window, automatic calls |
| `conductor_session` | In the first session: does no update carry an outdated number of free slots, and has the server been told the newest while none waits to be sent (`NothingOutdatedIsSent`)? Does every message that is written arrive, once and in order, whoever else is writing? | two peers, two slots, two messages, nothing lost |
| `conductor_queue` | Is the queue with its connection a `MessageChannel` (in order, none twice, `ImplementsChannel`) when sessions break and messages are lost; does the chain of posted messages live while there is something to send? | two peers, three messages, sessions that end |
| `login` | Does the connect button show only with header and credentials; does each callback meet the state and socket it is for; is someone at work while the TURN provider waits; does a login in which nothing fails complete? | both providers, with and without TURN, names or addresses, every call, connection and reply may fail; two requests |
| `client_conductor` | Do window, conversation and session fit; is the login offered after every session whose end was announced; are the callbacks and the queue a `MessageChannel` (`ImplementsChannel`), and is no message of a live conversation forgotten? | two peers, two messages, message boxes, failing calls, late callbacks |
| `unity_client` | Do id, heartbeat and, where there is an `HttpClient`, a read loop on it go with the session (`SessionFits`, `ClientListens`); is the list right once the UI thread has caught up (`ListShowsPeers`); do loops end? | overlapping sign-ins and sign-outs, every request answered or failed, refused sign-outs, late clears of the list, unreadable replies, a peer with the id 0 |
| `capacity_published` | "the new remaining capacity" is not what is published: a peer that says BYE before its ICE connection is reported lost keeps its slot | violation |
| `poll_server` | The code server is polled for the token when only its own host was a name | violation |
| `unlisted_peer` | `Debug.Assert(_peerId == -1)` fails: an offer of a peer that the UI thread has not listed yet leaves that peer's id behind without a peer connection | violation |

**Bounds.** `client_session` has two ids so that one of an earlier session and a new
one differ. One capacity value: the properties ask only whether there is one. One
posted beat, one posted retry and one orphaned resolver at a time (`MaxBeats`,
`MaxRetries`, `MaxOrphans`): each is handled by an action that looks at the current
state and not at how many there are, so a second one adds the same step again.
`client_session` has `MaxBeats = 0`, which leaves the first heartbeat and what becomes
of its socket; the chain of beats is the subject of `client_any_use`. The theorems
hold for any bounds.

For the conductor two peers are the smallest number that disagree: one may be
recorded while the other leaves, and two write to one queue. Two slots give the
counter a value between its ends. Messages are numbers up to `MaxWritten`, so two
or three suffice to swap, drop or repeat one. `conductor_slots` treats the two
peers as symmetric; its properties do not name one. With *more* peers than slots
`SlotsConserved` does not hold, since the counter stops at 0 and its end counts up:
the next number published then promises a slot that is taken.

What `NothingOutdatedIsSent` does *not* say is that the newest number is sent in the
end. `UpdateCapacity` stores a number while the capacity socket is busy, the Connect
is refused, and no handler looks at `capacity_data_` when the earlier update ends: the
number waits for a later update, which may never come. The model has these states
(`value = cur_capacity_` with an update under way or over), and no property forbids them.

`login`: two requests (`MaxAsks`) are one more than the program makes, so that a
provider meets a request at every stage of another; `poll_server` needs one.
`client_conductor`: two peers, so that a callback about one may be handled in the
conversation with the other, and two messages, so that one may be pending when
the next is written; at most two callbacks wait when the server or a peer causes
another (`MaxPosted`), while those the conductor posts itself are not bounded.
`unity_client`: one peer is enough for a list that differs from another list, two
sign-ins (`MaxConnects`) for a session that overlaps the next, and two queued
changes (`MaxQueued`) for an order between them. The one peer has the id 0 (`Zero`) in
`unity_client`, so that its leaving closes also the peer connection of a call that
awaits its camera; in `unlisted_peer` it has not, and the theorems are about both. The theorems about both clients
hold for any of these bounds.

No run checks for deadlock: a crashed program, a closed conductor or window and
an application that does not call again really do stop.

**Fairness.** `PeerConnectionClient!FairSpec` (`client_liveness`): weak fairness of
the end of a name resolution, of an established control connection and of the
answer on it. The thread of the client runs its message loop, the resolver reports
success or failure, and the run's server answers. Nothing is assumed of the
application. `SignOutCompletes` speaks of a sign-out asked of a *connected* client;
one asked while the sign-in is under way does not end (section 5). The
server must not answer 500: OnRead then reconnects with nothing to send, and a
sign-out under way never ends.

`MultiPeerConductor!FairSpec` (`conductor_session`): weak fairness of `Pump` (the
message loop delivers what is posted) and of the end of a request that leaves the
control connection free. The second is what `MessageEnds` of `client_liveness` shows
of the client, under the conditions of that run.

`ClientConductor!FairSpec` assumes the same two for the native client: weak fairness
of `UIThreadCallback` and, while there is a window, of `RequestDone`.

`Login!FairSpec`: the program makes its first request; names are resolved or not,
connections made or refused, requests answered or their connections lost, timers
delivered (weak fairness each). The user enters the code in time: the poll server,
if it is that server, does not answer "not yet" for ever (strong fairness of the
token, since the wait goes through many polls).

`UnityConductor!FairSpec`: a request of a read loop ends, because its `HttpClient`
gives up after two minutes (`Signalling.cs:161`), and the thread pool runs a loop
whose request has ended. Nothing is assumed of
sign-ins, of sign-outs or of the user.

## 4. What is proved

The assumptions on the constants are named in the modules (`...Assumption`) and
evaluated by TLC in each run: marks such as `NoId` are not values, the environment's
sets are drawn from what can happen, the bounds are natural numbers. Theorems that
need more say so in their statement.

**Every use of the client** (`PeerConnectionClientProofs`,
`PeerConnectionClientSafety`). `TypeCorrect`: one lemma per group of handlers, on
lemmas for the members they share (`Types`), and, for its other half `Allocated`, that
the four sockets are allocated together and that no state which uses them is entered
before: a client without sockets is NOT_CONNECTED or resolving a name. `AnyUseInvariant`: for every application, network
and socket. The properties are not inductive one by one. That no request lacks an id
(`IdentifiedRequests`) needs the same of a request that is only *prepared*
(`RequestsHaveId`), which needs that nothing stays prepared once a connection is
established (`NoStaleRequest`): otherwise the reconnect after a 500 reply would
send what an earlier connection left. That a sign-out ends by its own answer needs
that the connection being made while SIGNING_OUT carries the sign-out
(`SignOutIsPrepared`), and that no long poll is under way then needs that a poll
reply cannot reopen it, which is the split on `state_` in `PollReplyAnyUse`. From
`AnyUse` follow `NoRequestIsStale`, `RequestsAreIdentified`, `NothingElseUnderWay` and
`SignOutEndsByItsAnswer`; its parts `CapacityHasValue` and `ConnectedWasAnnounced` say
that a capacity update has a value and that a connected client was announced.

Two more theorems of that module say what they need of the environment.
`HeartbeatGoesOn`: where no connection is closed while it is dialled, the heartbeat
of a session is not lost, whatever else is. `PollingGoesOn`, if moreover no
connection is lost and the server closes what it has answered: a connected client
has its long poll on the way. `AlwaysPolling` alone is not inductive: it counts an
open socket with no request on it as polling, and the server may close that one at
any time. `Polls` adds that a reply never leaves the socket in that state.

**The client as shipped** (`PeerConnectionClientShipped`, which assumes
`~RefiresOwnPointer` and `~ShutdownCalled`). `ShippedInvariant` is `Fit /\ NothingLeft`.
`ConnectionsFitState` alone is not inductive: a reply is only met in the right state
if the request fitted it when it was *prepared* (`PreparedFits`), and a late name
resolution is only harmless if one runs before a sign-in or after the sign-out asked
meanwhile and at no other time (`ResolvesBeforeSession`). `NothingLeft`, that no retry
is posted and no resolver orphaned, is where the shipped socket enters: with it the
branch of OnClose that posts the retry is never taken. From the invariant follow
`ConnectionsAlwaysFit` and `IdsBelongToSessions`, and the action property
`SignOutIsNotUndone`, of a client for which no resolver is running (one that a
sign-out left running does bring it back); `IdLastsForSession` needs no assumption.

`ClientImplementsSession` proves the refinement that the conductors' modules rest
on. The mapping is stated as equations for a state (`Maps`) and for the next one
(`MapsNext`), of which each proof expands what it needs; `Seen` says that a step is a
step of the session or a stutter, with one lemma per group of actions. The hard cases are the replies that end one request and begin another in the same step,
and the calls that close the client inside themselves.

**The server's conductor** (`MultiPeerConductorProofs`, `MultiPeerConductorQueue`).
`TypeCorrect`, where the interesting conjunct is the range of `cur_capacity_`;
`StreamingPeersAreCounted` by the observation that an ICE state is only left for
"disconnected" after the peer was recorded, and that a destroyed peer connection
starts from "new"; `SlotsAddUp` for any finite set of peers with
`Cardinality(Ids) <= SystemCapacity` and `SystemCapacity > 0` (assumed by the theorem):
`SlotsConserved` is inductive once `StreamingIsCounted` is known, since
"disconnected" then comes only from a recorded peer. For the queue: `SignedInDrains`
(a signed-in conductor drains its queue whatever the uninitialised flag was);
`PumpIsKept`, an action property; `QueueIsPumped` for a session that does not end
(`~SessionEnds`) and `NothingIsDropped` for connections that lose nothing
(`~MessagesLost`); and `MessagesStayInOrder` without either assumption, since
`received`, `carried` and the queue in a line are increasing and end below `written`
(`LineInOrder`), and since the control connection carries a message only while it is
busy (`CarriesMessages`), which needs that a signed-off session has no request under
way (`OffIsIdle`).
`ConductorImplementsChannel` is the refinement: the channel's waiting set is the set
of the line behind `received`, so that it only needs, besides `LineInOrder`, that at
most one message is carried (`CarriesOne`), and a lemma per group of actions that
says which step of the channel it is.
`UpdatesAreNotOutdated`, in a session that does not end (`~SessionEnds`): before the
sign-in nobody has changed the counter (`NoneYet`), and from then on there is a number
(`HasNumber`), which each update replaces, whether it is sent at once or kept.

What the counter is worth is said by three more theorems. `NoSlotIsLost`, for any
finite number of peers, also more than there are slots: each slot is free or has a
recorded peer, so that all are free again once no peer is recorded.
`SlotsAreNotOverstated` (`~SessionEnds`, no more peers than slots): while no number
waits in `capacity_data_`, the one the server was told last is not larger than the
number of slots that no streaming peer has. It may be smaller (`capacity_published`),
and while a newer one waits nothing is proved of it (section 5). `RemainingIsPublished` adds
`~PeersLeave` and then proves `PublishesRemaining` itself: recorded peers are then
exactly the streaming ones (`OnlyStreaming`), so the finding has no other cause than
`OnPeerDisconnected`. The inductive invariant is the conjunction of those of the
earlier theorems. `NobodyIsMissed`: before the conductor is closed it looks up no
unknown peer, unless a peer leaves that the window still shows.
`ConductorUsesSession` closes the composition: with `ClientImplementsSession`, what is
proved of the conductor rests on the client as shipped.

**Login** (`LoginProofs`). Each provider keeps its own part of the invariant
(`OAuthInv`, `ServerInv`, `TurnInv`) whatever the other two do, and what they owe each
other is the part `Owed`. `ButtonIsEarned` needs that a token or a connection to the
TURN server comes only after the signal that set the header (`TokenSetsHeader`).
`StatesAndSocketsAgree` and `WaitsForSomeone` are for any number of requests;
`LoginTypeCorrect` the types. `PollsWhereToldTo` is what is left of
`PollsThePollServer` beside its violation: if the code host is not the only name and
nothing fails, the poll host keeps its own address (`PollHost`, whose inductive part
is that both names are looked up in turn).

**The native client** (`ClientConductorProofs`). `ConversationInv` adds to
`ConversationFits` that there is a peer connection only behind the streaming view
(`StreamingShows`) and what a client that is signing in shows and waits for
(`JoiningShows`): without it the late answer to a sign-in could switch the view of a
conversation. From it follow `WindowFitsConversation` and `LoginIsOffered`.
`OrderInv` says that what was sent, what is pending and what posted callbacks carry
are one increasing line that ends below `written`; from it `MessagesStayInOrder` and
the refinement `ConductorImplementsChannel`, and from both invariants `TypeCorrect`.
`WaitingIsPumped` rests on both: a new conversation begins with none of its own messages pending, a written message posts
its callback, and a callback that leaves messages pending leaves a request under way.
`ConductorUsesSession` is as for the server, without the step that is two.

**The Unity client** (`UnityConductorProofs`). `SessionAlwaysFits` and
`ClientAlwaysListens`, on the lemma that only the signaller's own steps touch its
variables (`StepsOfSignaller`), so that the conductor need not be looked at again. The
second needs that a connected client has a loop at all (`HasLoop`), and that a request
a loop waits for is one of the present client (`PresentClient`): `Connect` and `Close`
cancel what was asked of the client they dispose of. It says nothing of a connected
client without an `HttpClient` (section 5).
`TypeCorrect` needs that a call in progress has a peer (`Conversing`) and that what is
selected is one (`Choosing`).

`ListShowsThePeers`: the list is the queue of changes applied to it, and an induction
over that queue is out of the prover's reach. The inductive invariant (`ListInv`)
says the same without one: an entry of the list or of the queue decides about a
peer when no later change takes that peer away (`Lasts`); a peer is in the session
exactly if some entry lasts (`WillShow`), between two entries of a peer a change takes
it away, or one behind them clears the list (`NoTwins`), the list has each peer once
or will be cleared (`ShownOnce`), a signaller that is not connected has no peers
(`OffMeansEmpty`), and a loop that waits has an id, so that none of an ended session
brings peers (`LoopsHaveId`). A new list, a change taken by the UI thread and a list that is
cleared each keep this by arithmetic on the positions; it holds unless `misled`. A late
`ClearList` keeps it too when it is in time: it takes entries of the list only, and
either there are none, or the session has no peers, or the clear that OnDisconnected
queued is still to come, behind which the peers of a new session are queued (`InTime`,
`EmptyShows`).
When the queue is empty only entries of the list are left, and `ListShowsPeers`
follows. It assumes that `Peers` is finite, since a list is compared with its
cardinality. `PeerConnectionHasPeer`: a peer connection without the id of
its peer is that of a call whose camera is being opened, and the call has the peer
(`HasPeer`); `unlisted_peer` shows that an id may be without a peer connection.

**Only model-checked**: liveness (`SignInCompletes`, `SignOutCompletes`,
`MessageEnds`, `EverythingSent`, `LoginCompletes`, `LoopsEnd`), which is beyond the
prover. For these there is no proof that the runs' bounds are enough; what section 3
says of the bounds is the argument. Every invariant and every action property that
a passing run checks, and every refinement, is proved.

## 5. What is not modelled

* Replies of the signalling server cut in the middle of a buffer, and what they leave
  in `control_data_` or `notification_data_` for the next connection. (The providers'
  modules do have pieces of replies.)
* What the signalling server does with a request: it answers with any reply.
* `peers_` in detail: names and the connected flag; only which ids are there.
* What descriptions, candidates, tokens and credentials say, and the media of a peer
  beyond its ICE state: video, the input sent over the data channel, codecs,
  statistics. The offer, answer and candidate exchange itself is
  WebRTC's; the toolkit's part is to deliver the messages in order.
* Calls from other threads: the Unity server plugin calls `Close` and sends frames
  from Unity's threads, over the maps that callbacks change.
* In the Unity client: more than one `SignOut` (with the clear that follows it) or
  `ConnectToPeer` at a time, more than one unreadable reply in a session, a clear of the
  list in the middle of a change that the UI thread makes to it, capacity updates, and what an exception out of
  an `async void` method does (it ends the program). What runs between two `await`s
  is one step, although read loops run on the threads of a pool.
* The Windows service host: the stop flag is handed to the render thread by value
  (`App.cpp:533`), so its two threads share nothing that could be interleaved.
* Frame capturers, media player, configuration, the web and mobile samples, the
  other server samples and the vendored libraries have no control of their own that
  a specification would say more about than their text; most of the tree is of this
  kind, vendored (DXUT, DirectXTK, NVENC, libyuv headers) or generated.

Disagreements met while modelling that are in the models and that no run is about:

* A 500 reply to the sign-in leaves a client CONNECTED without an id
  (`peer_connection_client.cpp:592`), which `RTC_DCHECK(is_connected())` of SendToPeer
  (`:264`) excludes.
* `SignOut` during the sign-in waits in SIGNING_OUT_WAITING (`:326`); the id that then
  arrives meets `RTC_DCHECK(state_ == SIGNING_IN)` (`:541`), and the sign-out is never
  sent.
* "Connection refused; retrying in 2 seconds" (`:808`) is logged by code that the pointer
  the wrapper refires never reaches (`:806`).
* A slot that is taken while an earlier number is being connected or answered meets
  `RTC_DCHECK(capacity_socket_->GetState() == rtc::Socket::CS_CLOSED)` of `UpdateCapacity`
  (`peer_connection_client.cpp:239`). Without the assertion the Connect is refused, its
  result ignored, and the new number stays in `capacity_data_` until another ICE
  change or sign-in; a server whose peers then stay as they are goes on advertising
  the old number.
* A Unity client may be CONNECTED without an `HttpClient`. With two overlapping
  sign-ins, the second is answered, the first signs in and is signed out, and `Close`
  sets `_httpClient` to null (`Signalling.cs:312`); the second then goes on (`:183`). Its
  "long lasting loop to get notified" (`:237`) only throws and catches, the first
  heartbeat, async void, throws as well (`:214`), and `StartLogin` refuses a new sign-in
  because the client has an id (`Conductor.cs:895`).
* The Unity client is `IsConnected` without a session after a list of peers it cannot
  read (`Signalling.cs:172`).

Behaviours that look wrong and that nothing in the source speaks about: a heartbeat
started by a sign-in while an older chain runs makes two chains; after `Shutdown`
during a name resolution the result still signs the client in; a sign-out ends the
session without SignalDisconnected, to which nothing connects; a queue left from a
broken session waits, after the next sign-in, until a peer conductor writes again;
after a reconnect the maximum is published though peers stream; the native client
sends what is left of one conversation to the next peer, ends the next conversation
by the callback posted for the last one, and drops the BYE of a peer it leaves while
another message is under way; two read loops may run in one session of the Unity
client.

## 6. What could come next

1. Proofs that the liveness properties follow from leads-to steps that can be stated
   as safety: what `QueuePumped` is to `EverythingSent`, for the other runs.
2. `PeerConductor`: which end offers, and what the data channel carries, once the
   order of WebRTC's callbacks is settled.
3. The server's conductor with calls from a second thread, as the Unity plugin makes
   them.
