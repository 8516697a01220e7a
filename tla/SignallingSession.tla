-------------------------- MODULE SignallingSession --------------------------
(***************************************************************************)
(* What the signalling client promises the conductor above it: the phase   *)
(* of the session, the peers it has heard of, the one request under way on *)
(* the control connection and the one capacity update.                     *)
(* PeerConnectionClient implements it (see PeerConnectionClientSession);   *)
(* MultiPeerConductor is written on top of it.                             *)
(***************************************************************************)
CONSTANTS
  Ids,     \* ids of peers
  Values,  \* capacities
  NoValue

VARIABLES
  phase,   \* "anonymous" is CONNECTED without an id
  peers,   \* peers()
  request, \* "lingering": the control socket is open with nothing asked
  update,  \* the capacity connection; "lingering" as for request
  value    \* the capacity to send once the connection is established

session == <<phase, peers, request, update, value>>

Phases == {"off", "joining", "on", "anonymous", "leaving"}
Over == {"none", "lingering"}
Asked == {"sign_in", "message", "sign_out"}
Updates == Over \cup {"connecting", "sent"}

SessionTypeOK ==
  /\ phase \in Phases
  /\ peers \subseteq Ids
  /\ request \in Over \cup Asked
  /\ update \in Updates
  /\ value \in Values \cup {NoValue}

SessionInit ==
  /\ phase = "off" /\ peers = {}
  /\ request = "none" /\ update = "none" /\ value = NoValue

SignedOn == phase \in {"on", "anonymous"}

-----------------------------------------------------------------------------
(* Calls.  Each may also End the session, when a connection cannot be started. *)

\* Connect: a name is resolved first.
Join ==
  /\ phase = "off" /\ update = "none"
  /\ phase' = "joining"
  /\ request' \in {"none", "sign_in"}
  /\ peers' \in {peers, {}}
  /\ UNCHANGED <<update, value>>

\* SendToPeer returns true.
Send ==
  /\ phase = "on" /\ request = "none"
  /\ request' = "message"
  /\ UNCHANGED <<phase, peers, update, value>>

\* UpdateCapacity replaces the value to send, but only a free capacity socket
\* starts a connection; out of a session it only returns false.
Updated(v) ==
  IF phase' \in {"on", "anonymous"}
  THEN value' = v /\ update' \in IF update = "none" THEN {"none", "connecting"} ELSE {update}
  ELSE UNCHANGED <<value, update>>

UpdateTo(v) == SignedOn /\ Updated(v) /\ UNCHANGED <<phase, peers, request>>

\* SignOut waits for the request under way, when there is one; only a client
\* with an id has anything to tell the server.
SignsOut == request = "none" /\ phase \in {"on", "leaving"}
Leave ==
  /\ phase # "off"
  /\ phase' = "leaving"
  /\ request' \in {request} \cup IF SignsOut THEN {"sign_out"} ELSE {}
  /\ UNCHANGED <<peers, update, value>>

\* UpdateConnectionState inserts a peer that peers() does not hold.
Show(id) == peers' = peers \cup {id} /\ UNCHANGED <<phase, request, update, value>>

-----------------------------------------------------------------------------
(* Events *)

\* A name has an address; a sign-out does not stop its resolution.
Resolved ==
  /\ phase \in {"joining", "leaving"} /\ request = "none" /\ update = "none"
  /\ phase' = "joining"
  /\ request' = "sign_in"
  /\ UNCHANGED <<peers, update, value>>

Unresolved ==
  /\ phase \in {"joining", "leaving"} /\ request = "none"
  /\ phase' = "off"
  /\ UNCHANGED <<peers, request, update, value>>

\* The sign-in is answered, with an id and the peers already there or with an
\* error that is passed over.  A slot of SignalConnected may update the capacity.
Joined ==
  /\ phase = "joining" /\ request = "sign_in"
  /\ request' \in Over
  /\ \/ phase' = "on" /\ \E present \in SUBSET Ids : peers' = peers \cup present
     \/ phase' = "anonymous" /\ UNCHANGED peers
  /\ \/ UNCHANGED <<update, value>>
     \/ \E v \in Values : Updated(v)

\* A request is answered or, the connection being lost, never will be.  The
\* sign-out that waited for a message is sent.  A sign-in answered after
\* SignOut still brings the peers.
Answered ==
  /\ request # "none"
  /\ request' \in Over \cup IF phase = "leaving" /\ request = "message" THEN {"sign_out"} ELSE {}
  /\ \/ request = "sign_in" /\ \E present \in SUBSET Ids : peers' = peers \cup present
     \/ UNCHANGED peers
  /\ UNCHANGED <<phase, update, value>>

\* The server tells that a peer came or left.
Came(id) ==
  SignedOn /\ peers' = peers \cup {id} /\ UNCHANGED <<phase, request, update, value>>
Left(id) ==
  SignedOn /\ peers' = peers \ {id} /\ UNCHANGED <<phase, request, update, value>>

CapacitySent ==
  /\ update = "connecting"
  /\ update' = "sent"
  /\ value' = NoValue
  /\ UNCHANGED <<phase, peers, request>>

CapacityDone ==
  /\ update # "none"
  /\ update' \in IF update = "sent" THEN Over ELSE {"none"}
  /\ UNCHANGED <<phase, peers, request, value>>

End ==
  /\ phase' = "off" /\ peers' = {}
  /\ request' = "none" /\ update' = "none" /\ value' = NoValue

-----------------------------------------------------------------------------

SessionNext ==
  \/ Join \/ Send \/ (\E v \in Values : UpdateTo(v)) \/ Leave
  \/ (\E id \in Ids : Show(id) \/ Came(id) \/ Left(id))
  \/ Resolved \/ Unresolved \/ Joined \/ Answered \/ CapacitySent \/ CapacityDone
  \/ End

SessionSpec == SessionInit /\ [][SessionNext]_session
=============================================================================
