---------------------------- MODULE UnityConductor ----------------------------
(***************************************************************************)
(* The Unity plugin's conductor (Conductor.cs) and the list of peers its   *)
(* user sees (WebRtcControl.cs), composed with the Signaller whose events  *)
(* they handle.  A handler runs on the thread of the read loop that raised *)
(* the event; what changes the list is queued for the UI thread.           *)
(***************************************************************************)
EXTENDS Signaller, Sequences, SequencesExt

CONSTANTS
  NoPeer,
  Zero,         \* the peer whose id is 0, or NoPeer
  MaxQueued     \* changes that wait for the UI thread
ASSUME UnityAssumption == NoPeer \notin Peers /\ IsFiniteSet(Peers)

VARIABLES
  peerId, peerConnection,  \* the conversation; is there a peer connection
  calling,     \* where ConnectToPeer awaits
  hangingUp,   \* DisconnectFromPeer awaits its message
  uiQueue,     \* changes of the list: <<operation, peer>>
  uiPeers,     \* the list
  selectedPeer,
  clearing,    \* DisconnectFromServer has still to clear the list
  misled       \* history: the list or the signaller's peers was changed alone

conversation == <<peerId, peerConnection>>
call == <<calling, hangingUp>>
list == <<uiQueue, uiPeers, selectedPeer, clearing, misled>>
vars == <<signaller, conversation, call, list>>

NotCalling == [at |-> "none", peer |-> NoPeer]
Operations == {"add", "remove", "clear"}

TypeOK ==
  /\ SignallerTypeOK
  /\ peerId \in Peers \cup {NoPeer} /\ peerConnection \in BOOLEAN
  /\ calling \in [at : {"none", "media", "offer"}, peer : Peers \cup {NoPeer}]
  /\ selectedPeer \in Peers \cup {NoPeer}
  /\ hangingUp \in BOOLEAN /\ clearing \in BOOLEAN /\ misled \in BOOLEAN
  /\ uiQueue \in Seq(Operations \X (Peers \cup {NoPeer}))
  /\ uiPeers \in Seq(Peers)

Init ==
  /\ SignallerInit
  /\ peerId = NoPeer /\ peerConnection = FALSE
  /\ calling = NotCalling /\ hangingUp = FALSE
  /\ uiQueue = <<>> /\ uiPeers = <<>> /\ selectedPeer = NoPeer
  /\ clearing = FALSE /\ misled = FALSE

-----------------------------------------------------------------------------
(* Members that other members call *)

ClosePeerConnection ==
  IF peerConnection THEN peerConnection' = FALSE /\ peerId' = NoPeer ELSE UNCHANGED conversation

\* The events of a new list: first those who came, then those who went.
Announced(new) ==
  LET Each(op, S) == [i \in 1..Len(SetToSeq(S)) |-> <<op, SetToSeq(S)[i]>>]
  IN  uiQueue \o Each("add", new \ peers) \o Each("remove", peers \ new)

PeersChange(new) ==
  /\ uiQueue' = Announced(new) /\ Len(uiQueue') <= MaxQueued
  /\ UNCHANGED <<uiPeers, selectedPeer, clearing, misled>>

\* OnPeerDisconnected, for those who are not in the list; id 0 stands for anyone.
OnPeersDisconnected(new) ==
  IF {peerId, Zero} \cap (peers \ new) # {} THEN ClosePeerConnection ELSE UNCHANGED conversation

-----------------------------------------------------------------------------
(* Events of the Signaller *)

OnSignedIn(n) ==
  \E new \in SUBSET Peers :
    /\ SignedIn(n, new)
    /\ PeersChange(new) /\ OnPeersDisconnected(new)
    /\ UNCHANGED call

\* The peers of a reply that cannot be read are not announced; once in a session.
OnUnreadable(n) ==
  \E part \in SUBSET Peers :
    /\ ~misled
    /\ \/ SignInUnreadable(n, part)
       \/ Notified(n, part)
    /\ misled' = TRUE
    /\ UNCHANGED <<conversation, call, uiQueue, uiPeers, selectedPeer, clearing>>

OnNotified(n) ==
  \E new \in SUBSET Peers :
    /\ Notified(n, new)
    /\ PeersChange(new) /\ OnPeersDisconnected(new)
    /\ UNCHANGED call

\* OnMessageFromPeer: what has no effect on the conversation, its description
\* and candidates included.
OnMessageIgnored(n) == Message(n) /\ UNCHANGED <<conversation, call, list>>

OnPeerHangup(n, p) ==
  /\ Message(n)
  /\ IF p = peerId THEN ClosePeerConnection ELSE UNCHANGED conversation
  /\ UNCHANGED <<call, list>>

\* OnMessageFromPeer of an offer or an answer without a peer connection: the peer
\* is looked up in the list, which throws when it is not there (yet).
Opens(p) == ~peerConnection /\ peerId \in {p, NoPeer}
OnOfferOfUnlisted(n, p) ==
  /\ Opens(p) /\ p \notin ToSet(uiPeers)
  /\ Message(n)
  /\ peerId' = p
  /\ UNCHANGED <<peerConnection, call, list>>
OnOffer(n, p) ==
  /\ Opens(p) /\ p \in ToSet(uiPeers)
  /\ MessageAwaits(n)
  /\ peerId' = p /\ peerConnection' = TRUE
  /\ UNCHANGED <<call, list>>

\* It goes on with the camera; a peer connection closed meanwhile makes it throw
\* to the read loop.
OnOfferHandled(n) == MessageHandled(n) /\ UNCHANGED <<conversation, call, list>>

\* OnDisconnected.  The caller of SignOut, DisconnectFromServer, goes on later.
OnDisconnected ==
  /\ SignedOut
  /\ ClosePeerConnection
  /\ uiQueue' = Append(uiQueue, <<"clear", NoPeer>>) /\ Len(uiQueue') <= MaxQueued
  /\ clearing' = TRUE /\ misled' = FALSE
  /\ UNCHANGED <<call, uiPeers, selectedPeer>>

\* Refused, it goes on in the same way.
OnSignOutRefused ==
  /\ SignOutRefused
  /\ clearing' = TRUE
  /\ UNCHANGED <<conversation, call, uiQueue, uiPeers, selectedPeer, misled>>

-----------------------------------------------------------------------------
(* The user *)

\* ConnectToServer, StartLogin.
StartLogin(n) == ~IsConnected /\ Connect(n) /\ UNCHANGED <<conversation, call, list>>

\* A client that has an id and no session is signed out at once.  (Bound: one
\* call awaits its sign-out or has still to clear the list.)
DisconnectFromServer ==
  /\ \/ state = "CONNECTED" /\ httpClient # 0 /\ ~clearing
        /\ SignOut /\ UNCHANGED uiPeers
     \/ state # "CONNECTED"
        /\ uiPeers' = <<>> /\ UNCHANGED signaller
  /\ UNCHANGED <<conversation, call, uiQueue, selectedPeer, clearing, misled>>

\* The rest of it, on a thread of the pool.  It is in time when the session has no
\* peers, none is shown, or the clear that OnDisconnected queued is still to come,
\* with new peers added after it; else it empties the list of a session.
InTime == peers = {} \/ uiPeers = <<>> \/ <<"clear", NoPeer>> \in ToSet(uiQueue)
ClearList ==
  /\ clearing /\ clearing' = FALSE
  /\ uiPeers' = <<>>
  /\ misled' = IF InTime THEN misled ELSE TRUE
  /\ UNCHANGED <<signaller, conversation, call, uiQueue, selectedPeer>>

\* ConnectToPeer, up to the camera: of the peer that came last, be it gone or not,
\* or of the first one listed, which the user's script selects.
Selectable(p) == p = selectedPeer \/ (uiPeers # <<>> /\ p = Head(uiPeers))
ConnectToPeer(p) ==
  /\ calling.at = "none" /\ Selectable(p)
  /\ selectedPeer' = p
  /\ ~peerConnection
  /\ peerConnection' = TRUE
  /\ calling' = [at |-> "media", peer |-> p]
  /\ UNCHANGED <<signaller, peerId, hangingUp, uiQueue, uiPeers, clearing, misled>>

\* Its camera is ready; then its offer is made and sent.  A peer connection closed
\* meanwhile makes it throw, as a camera that is refused does, in async void.
MediaReady ==
  /\ calling.at = "media" /\ peerConnection
  /\ peerId' = calling.peer
  /\ calling' = [calling EXCEPT !.at = "offer"]
  /\ UNCHANGED <<signaller, peerConnection, hangingUp, list>>
OfferMade ==
  /\ calling.at = "offer" /\ peerConnection
  /\ calling' = NotCalling
  /\ UNCHANGED <<signaller, conversation, hangingUp, list>>

\* DisconnectFromPeer; SendToPeer returns at once when there is no one to send to.
DisconnectFromPeer ==
  /\ ~hangingUp
  /\ IF state = "CONNECTED" /\ IsConnected /\ peerId # NoPeer
     THEN hangingUp' = TRUE /\ UNCHANGED conversation
     ELSE ClosePeerConnection /\ UNCHANGED hangingUp
  /\ UNCHANGED <<signaller, calling, list>>
HangupSent ==
  /\ hangingUp /\ hangingUp' = FALSE
  /\ ClosePeerConnection
  /\ UNCHANGED <<signaller, calling, list>>

\* The UI thread makes the next change of the list.
BadChanged(op, peer) ==
  IF op = "remove" THEN RemoveFirst(uiPeers, peer) ELSE Append(uiPeers, peer)
Changed(op, peer) ==
  CASE op = "add" -> Append(uiPeers, peer)
    [] op = "remove" -> RemoveFirst(uiPeers, peer)
    [] op = "clear" -> <<>>

\* ... and selects a peer it has added.
UiThread ==
  /\ uiQueue # <<>>
  /\ uiQueue' = Tail(uiQueue)
  /\ uiPeers' = Changed(Head(uiQueue)[1], Head(uiQueue)[2])
  /\ selectedPeer' = IF Head(uiQueue)[1] = "add" THEN Head(uiQueue)[2] ELSE selectedPeer
  /\ UNCHANGED <<signaller, conversation, call, clearing, misled>>

-----------------------------------------------------------------------------

Signallers == UNCHANGED <<conversation, call, list>>
ConnectGoesOn(n) == OnSignedIn(n) \/ OnUnreadable(n) \/ (SignInFailed(n) /\ Signallers)
LoopGoesOn(n) ==
  \/ OnNotified(n) \/ OnMessageIgnored(n) \/ (WaitFailed(n) /\ Signallers)
  \/ OnOfferHandled(n)
  \/ \E p \in Peers : OnPeerHangup(n, p) \/ OnOfferOfUnlisted(n, p) \/ OnOffer(n, p)

Next ==
  \/ \E n \in Connects :
       \/ StartLogin(n) \/ ConnectGoesOn(n) \/ LoopGoesOn(n)
       \/ (SignInEnds(n) \/ WaitEnds(n)) /\ Signallers
  \/ DisconnectFromServer \/ (SignOutEnds /\ Signallers)
  \/ OnDisconnected \/ OnSignOutRefused \/ ClearList
  \/ (\E p \in Peers : ConnectToPeer(p))
  \/ MediaReady \/ OfferMade
  \/ DisconnectFromPeer \/ HangupSent
  \/ UiThread

Spec == Init /\ [][Next]_vars

\* HttpClient ends every request, in two minutes at the latest, and the thread
\* pool runs what has been answered.
Fairness ==
  \A n \in Connects :
    WF_vars(LoopGoesOn(n)) /\ WF_vars(WaitEnds(n) /\ Signallers)
FairSpec == Spec /\ Fairness

-----------------------------------------------------------------------------

\* When the UI thread has caught up, the list shows the peers the signaller knows,
\* each once, across sessions and overlapping sign-ins; unless a reply could not
\* be read, or a clear that came late emptied the list of a session that goes on
\* or has begun meanwhile, and until the next sign-out.
ListShowsPeers ==
  uiQueue = <<>> /\ ~misled =>
    ToSet(uiPeers) = peers /\ Len(uiPeers) = Cardinality(peers)

\* OnMessageFromPeer and ConnectToPeer, Debug.Assert(_peerId == -1): a conversation
\* begins without a peer.
StartsWithoutPeer == [][~peerConnection /\ peerConnection' => peerId = NoPeer]_vars
=============================================================================
