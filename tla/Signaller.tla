------------------------------- MODULE Signaller -------------------------------
(***************************************************************************)
(* The signalling client of the Unity plugin (Signalling.cs): a session    *)
(* with the same server as PeerConnectionClient, written with async/await. *)
(* A method runs to its await in one step and goes on in another, when the *)
(* reply has arrived or the request has failed; in between any other call  *)
(* may run.  The nth sign-in uses the nth HttpClient and gets the id n.    *)
(* What an async void method throws ends the program, which needs no step: *)
(* a heartbeat or a sign-out whose request fails.  UnityConductor adds the *)
(* callers and the handlers of its events.                                 *)
(***************************************************************************)
EXTENDS Naturals

CONSTANTS
  Peers,
  MaxConnects   \* sign-ins
ASSUME SignallerAssumption == MaxConnects \in Nat

VARIABLES
  state, myId, peers, heartbeatTimer, httpClient, \* 0 is -1 or null
  signIn,     \* for each sign-in, how far its request is
  wait,       \* for each read loop, its request
  signOut     \* its request

session == <<state, myId, peers, heartbeatTimer, httpClient>>
signaller == <<session, signIn, wait, signOut>>

Connects == 1..MaxConnects
Awaiting == {"none", "asked", "answered", "failed"}
NoWait == [at |-> "none", client |-> 0, id |-> 0]

SignallerTypeOK ==
  /\ state \in {"NOT_CONNECTED", "CONNECTED"}
  /\ myId \in 0..MaxConnects /\ httpClient \in 0..MaxConnects
  /\ peers \subseteq Peers
  /\ heartbeatTimer \in BOOLEAN
  /\ signIn \in [Connects -> Awaiting \cup {"over"}]
  /\ wait \in [Connects -> [at : Awaiting \cup {"handling"}, client : 0..MaxConnects,
                            id : 0..MaxConnects]]
  /\ signOut \in {"none", "asked", "answered"}

SignallerInit ==
  /\ state = "NOT_CONNECTED" /\ myId = 0 /\ httpClient = 0
  /\ peers = {}
  /\ heartbeatTimer = FALSE
  /\ signIn = [n \in Connects |-> "none"]
  /\ wait = [n \in Connects |-> NoWait]
  /\ signOut = "none"

IsConnected == myId # 0

\* HttpClient.Dispose: what is asked of it fails, what is answered stays.
Cancelled(r) == IF r.at = "asked" /\ r.client = httpClient THEN [r EXCEPT !.at = "failed"] ELSE r
CancelSignIn(n) == IF signIn[n] = "asked" /\ n = httpClient THEN "failed" ELSE signIn[n]

-----------------------------------------------------------------------------
(* Requests *)

\* A request is answered, or fails; at the latest when HttpClient times out.
SignInEnds(n) ==
  /\ signIn[n] = "asked"
  /\ signIn' \in {[signIn EXCEPT ![n] = at] : at \in {"answered", "failed"}}
  /\ UNCHANGED <<session, wait, signOut>>
WaitEnds(n) ==
  /\ wait[n].at = "asked"
  /\ wait' \in {[wait EXCEPT ![n].at = at] : at \in {"answered", "failed"}}
  /\ UNCHANGED <<session, signIn, signOut>>
SignOutEnds ==
  /\ signOut = "asked" /\ signOut' = "answered"
  /\ UNCHANGED <<session, signIn, wait>>

-----------------------------------------------------------------------------
(* Connect *)

\* Up to the request.
Connect(n) ==
  /\ signIn[n] = "none" /\ \A k \in 1..(n - 1) : signIn[k] # "none"
  /\ state = "NOT_CONNECTED"
  /\ httpClient' = n
  /\ signIn' = [k \in Connects |-> IF k = n THEN "asked" ELSE CancelSignIn(k)]
  /\ wait' = [k \in Connects |-> Cancelled(wait[k])]
  /\ UNCHANGED <<state, myId, peers, heartbeatTimer, signOut>>

\* The next request of a read loop; without a client it throws, which is caught.
Polled ==
  [at |-> IF httpClient' = 0 THEN "failed" ELSE "asked", client |-> httpClient', id |-> myId']

\* The loop looks at the state before each request, and StartHangingGetReadLoop
\* before it begins the loop again.
NextWait == IF state' = "CONNECTED" THEN Polled ELSE NoWait

\* The rest of Connect, with the list of the reply.
BadSignedIn(n, new) ==
  /\ signIn[n] = "answered" /\ signIn' = [signIn EXCEPT ![n] = "over"]
  /\ myId' = n /\ peers' = new
  /\ state' = "CONNECTED" /\ heartbeatTimer' = TRUE
  /\ UNCHANGED <<httpClient, signOut>>
  /\ wait' = [wait EXCEPT ![n] = IF state = "CONNECTED" THEN Polled ELSE NoWait]
SignedIn(n, new) ==
  /\ signIn[n] = "answered" /\ signIn' = [signIn EXCEPT ![n] = "over"]
  /\ myId' = n /\ peers' = new
  /\ state' = "CONNECTED" /\ heartbeatTimer' = TRUE
  /\ UNCHANGED <<httpClient, signOut>>
  /\ wait' = [wait EXCEPT ![n] = NextWait]

\* A line of the list has no number where one should be: it throws with the id
\* set and part of the list taken, before anything is announced.
SignInUnreadable(n, part) ==
  /\ signIn[n] = "answered" /\ signIn' = [signIn EXCEPT ![n] = "over"]
  /\ myId' = n /\ peers' = part
  /\ UNCHANGED <<state, heartbeatTimer, httpClient, wait, signOut>>

SignInFailed(n) ==
  /\ signIn[n] \in {"answered", "failed"} /\ signIn' = [signIn EXCEPT ![n] = "over"]
  /\ UNCHANGED <<session, wait, signOut>>

-----------------------------------------------------------------------------
(* HangingGetReadLoopAsync *)

\* The loop goes on after a reply, the handler of its event having returned.
Waits(n) ==
  /\ UNCHANGED <<state, myId, heartbeatTimer, httpClient, signIn, signOut>>
  /\ wait' = [wait EXCEPT ![n] = NextWait]

\* ParseServerResponse of a notification; lists are whole, not increments.
Notified(n, new) ==
  /\ wait[n].at = "answered" /\ wait[n].id = myId
  /\ peers' = new
  /\ Waits(n)

\* No OK, or an exception, which is caught.
WaitFailed(n) ==
  /\ wait[n].at \in {"answered", "failed"}
  /\ Waits(n) /\ UNCHANGED peers

\* A message from a peer.  A list that answers a request made under another id
\* is taken for a message as well, from a peer with that id.
Message(n) ==
  /\ wait[n].at = "answered"
  /\ Waits(n) /\ UNCHANGED peers

\* The handler awaits, and the loop with it.
MessageAwaits(n) ==
  /\ wait[n].at = "answered"
  /\ wait' = [wait EXCEPT ![n].at = "handling"]
  /\ UNCHANGED <<session, signIn, signOut>>

BadMessageHandled(n) == wait[n].at = "handling" /\ UNCHANGED signaller
MessageHandled(n) ==
  /\ wait[n].at = "handling"
  /\ Waits(n) /\ UNCHANGED peers

-----------------------------------------------------------------------------
(* SignOut *)

\* Up to the request; one at a time.
SignOut ==
  /\ signOut = "none"
  /\ signOut' = "asked"
  /\ UNCHANGED <<session, signIn, wait>>

SignOutRefused ==
  /\ signOut = "answered"
  /\ signOut' = "none"
  /\ UNCHANGED <<session, signIn, wait>>

\* The rest of SignOut.
BadClose ==
  /\ state' = "NOT_CONNECTED" /\ heartbeatTimer' = FALSE /\ httpClient' = 0
  /\ UNCHANGED peers
BadCloseTimer ==
  /\ state' = "NOT_CONNECTED" /\ httpClient' = 0 /\ peers' = {}
  /\ UNCHANGED heartbeatTimer
Close ==
  /\ state' = "NOT_CONNECTED" /\ heartbeatTimer' = FALSE /\ httpClient' = 0 /\ peers' = {}
SignedOut ==
  /\ signOut = "answered" /\ signOut' = "none"
  /\ myId' = 0
  /\ Close
  /\ signIn' = [n \in Connects |-> CancelSignIn(n)]
  /\ wait' = [n \in Connects |-> Cancelled(wait[n])]

-----------------------------------------------------------------------------

\* A connected client has an id (SendToPeer asserts it), and the heartbeat runs
\* exactly while it is connected, however sign-ins and sign-outs overlap.
SessionFits ==
  /\ state = "CONNECTED" => IsConnected
  /\ heartbeatTimer <=> state = "CONNECTED"

\* A connected client that has an HttpClient has a read loop, and when the loop
\* waits it waits for a request of that client, which no one has disposed of: it
\* hears from the server.  (A sign-in that goes on after a sign-out leaves a client
\* connected without one; its loop only throws.)
ClientListens ==
  state = "CONNECTED" /\ httpClient # 0 =>
    \E n \in Connects :
      wait[n].at # "none" /\ (wait[n].at = "asked" => wait[n].client = httpClient)

\* Read loops end when the client stays signed out.
LoopsEnd ==
  <>[](state = "NOT_CONNECTED") => <>[](\A n \in Connects : wait[n].at = "none")
=============================================================================
