--------------------------- MODULE ClientConductor ---------------------------
(***************************************************************************)
(* The conductor of the native client (Samples/Client/DirectxWin32): one   *)
(* peer connection at a time, and a queue of messages to its peer that is  *)
(* drained by callbacks posted to the thread's own message queue.  It runs *)
(* on the promises of SignallingSession, all on one thread; the client     *)
(* never updates a capacity.  Streams and renderers are left out.          *)
(***************************************************************************)
EXTENDS SignallingSession, Naturals, Sequences, SequencesExt

CONSTANTS
  NoPeer,
  MaxWritten,  \* messages the peer connections write
  MaxPosted    \* callbacks that wait when the server or a peer causes another
ASSUME ConductorAssumption == NoPeer \notin Ids /\ MaxWritten \in Nat /\ MaxPosted \in Nat

VARIABLES
  peer_connection_,   \* is there one
  peer_id_,
  loopback_,
  pending_messages_,  \* messages are the numbers 1, 2, ... as they are written
  posted,             \* UI_THREAD_CALLBACK messages
  current_ui_,        \* or "closed": there is no window any more
  resolving,          \* the client is looking up the server's name
  written,
  since,              \* history: written when the peer connection was made
  sent,               \* history: the messages SendToPeer accepted
  unheard,            \* history: the session ended and OnDisconnected is not called
  lost                \* history: posted callbacks were lost

conductor == <<peer_connection_, peer_id_, loopback_>>
queue == <<pending_messages_, posted, sent>>
vars == <<session, conductor, queue, current_ui_, resolving, written, since, unheard, lost>>

Callbacks == [id : {"SEND_MESSAGE_TO_PEER", "PEER_CONNECTION_CLOSED"}, data : 0..MaxWritten]
UIs == {"CONNECT_TO_SERVER", "LIST_PEERS", "STREAMING", "closed"}

TypeOK ==
  /\ SessionTypeOK
  /\ peer_connection_ \in BOOLEAN /\ loopback_ \in BOOLEAN
  /\ peer_id_ \in Ids \cup {NoPeer}
  /\ pending_messages_ \in Seq(1..MaxWritten)
  /\ posted \in Seq(Callbacks)
  /\ current_ui_ \in UIs
  /\ written \in 0..MaxWritten /\ since \in 0..MaxWritten
  /\ sent \in Seq(1..MaxWritten)
  /\ resolving \in BOOLEAN /\ unheard \in BOOLEAN /\ lost \in BOOLEAN

Init ==
  /\ SessionInit
  /\ peer_connection_ = FALSE /\ peer_id_ = NoPeer /\ loopback_ = FALSE
  /\ pending_messages_ = <<>> /\ posted = <<>> /\ sent = <<>>
  /\ current_ui_ = "CONNECT_TO_SERVER"
  /\ resolving = FALSE /\ written = 0 /\ since = 0
  /\ unheard = FALSE /\ lost = FALSE

-----------------------------------------------------------------------------
(* Members that other members call *)

\* QueueUIThreadCallback; 0 is a null pointer.
Callback(id, data) == Append(posted, [id |-> id, data |-> data])
SendNext == Callback("SEND_MESSAGE_TO_PEER", 0)

SwitchTo(ui) == current_ui_' = IF current_ui_ = "closed" THEN current_ui_ ELSE ui

BadDeletePeerConnection == peer_connection_' = FALSE /\ UNCHANGED <<peer_id_, loopback_>>
DeletePeerConnection == peer_connection_' = FALSE /\ peer_id_' = NoPeer /\ loopback_' = FALSE

\* InitializePeerConnection for a peer.  It fails without a factory; without a
\* peer connection it ends the program (AddStreams), which needs no step.
Initialized(id, loopback) ==
  /\ peer_connection_' = TRUE /\ peer_id_' = id /\ loopback_' = loopback
  /\ since' = written
  /\ SwitchTo("STREAMING")
NotInitialized == DeletePeerConnection /\ UNCHANGED since

\* A call of the client that cannot connect ends the session without a word.
Silently == End /\ unheard' = TRUE

\* client_->SignOut().
SignOut ==
  \/ phase = "off" /\ UNCHANGED <<session, unheard>>
  \/ Leave /\ UNCHANGED unheard
  \/ SignsOut /\ Silently

\* client_->SendToPeer(peer_id_, ...) returns true, or false.
CanSend == phase = "on" /\ request = "none" /\ peer_id_ # NoPeer
Sends == CanSend /\ Send /\ UNCHANGED unheard
DoesNotSend ==
  \/ ~CanSend /\ UNCHANGED <<session, unheard>>
  \/ CanSend /\ Silently

\* DisconnectFromServer: is_connected() is to have an id.
DisconnectFromServer ==
  \/ phase \in {"on", "leaving"} /\ SignOut
  \/ phase # "on" /\ UNCHANGED <<session, unheard>>

-----------------------------------------------------------------------------
(* The user; what was posted comes before input *)

Input == posted = <<>>

\* StartLogin; Connect may fail at once.
StartLogin ==
  /\ Input /\ current_ui_ = "CONNECT_TO_SERVER" /\ phase = "off"
  /\ \/ Join /\ resolving' = (request' = "none")
     \/ UNCHANGED <<session, resolving>>
  /\ unheard' = FALSE
  /\ UNCHANGED <<conductor, queue, current_ui_, written, since, lost>>

\* ConnectToPeer; the list may show a peer that has left.
ConnectToPeer(id) ==
  /\ Input /\ current_ui_ = "LIST_PEERS" /\ ~peer_connection_
  /\ Initialized(id, FALSE) \/ (NotInitialized /\ UNCHANGED current_ui_)
  /\ UNCHANGED <<session, queue, resolving, written, unheard, lost>>

\* The escape key while streaming.  What SendHangUp returns is ignored.
DisconnectFromCurrentPeer ==
  /\ Input /\ current_ui_ = "STREAMING"
  /\ IF peer_connection_ THEN (Sends \/ DoesNotSend) /\ DeletePeerConnection
     ELSE UNCHANGED <<session, conductor, unheard>>
  /\ SwitchTo("LIST_PEERS")
  /\ UNCHANGED <<queue, resolving, written, since, lost>>

\* The escape key otherwise.
Escape ==
  /\ Input /\ current_ui_ \in {"CONNECT_TO_SERVER", "LIST_PEERS"}
  /\ DisconnectFromServer
  /\ UNCHANGED <<conductor, queue, current_ui_, resolving, written, since, lost>>

\* WM_CLOSE.  The loop ends with WM_QUIT, which it sees after what is posted: the
\* events of the session and of the peers that come later are not handled.
Close ==
  /\ current_ui_ # "closed"
  /\ SignOut /\ DeletePeerConnection
  /\ current_ui_' = "closed"
  /\ UNCHANGED <<queue, resolving, written, since, lost>>

\* A modal loop, that of a message box or of a window being moved, takes thread
\* messages from the queue and gives them to no one.
ModalLoop ==
  /\ posted # <<>>
  /\ posted' = <<>> /\ lost' = TRUE
  /\ UNCHANGED <<session, conductor, pending_messages_, sent, current_ui_, resolving, written,
                 since, unheard>>

-----------------------------------------------------------------------------
(* The session *)

\* The server's name has an address or none; only Close signs out before that.
OnServerAddress ==
  /\ resolving /\ resolving' = FALSE
  /\ Resolved \/ Unresolved
  /\ UNCHANGED <<conductor, queue, current_ui_, written, since, unheard, lost>>

\* The reply to the sign-in, with an id or an error that is passed over.
OnSignedIn ==
  /\ Joined
  /\ IF phase' = "on" THEN SwitchTo("LIST_PEERS") ELSE UNCHANGED current_ui_
  /\ posted' = IF request' = "none" THEN SendNext ELSE posted
  /\ UNCHANGED <<conductor, pending_messages_, sent, resolving, written, since, unheard, lost>>

\* OnMessageSent: a request is over when its connection closes.  A sign-in that
\* is answered after SignOut may still call OnSignedIn.
BadOnMessageSent == posted
OnMessageSent == IF request' = "none" THEN SendNext ELSE posted
\* The sign-out that waited for a message cannot be sent.
SignOutFails == phase = "leaving" /\ request = "message" /\ Silently /\ posted' = SendNext
RequestDone ==
  /\ \/ Answered /\ posted' = OnMessageSent /\ UNCHANGED unheard
     \/ SignOutFails
  /\ \/ phase = "leaving" /\ request = "sign_in" /\ SwitchTo("LIST_PEERS")
     \/ UNCHANGED current_ui_
  /\ UNCHANGED <<conductor, pending_messages_, sent, resolving, written, since, lost>>

\* OnMessageSent is called for the connections of the long poll and the
\* heartbeat as well, and the latter outlives the session.
OtherConnectionCloses ==
  /\ Len(posted) < MaxPosted
  /\ posted' = SendNext
  /\ UNCHANGED <<session, conductor, pending_messages_, sent, current_ui_, resolving, written,
                 since, unheard, lost>>

BadOnDisconnected ==
  /\ phase # "off" /\ End
  /\ DeletePeerConnection
  /\ resolving' = FALSE
  /\ UNCHANGED <<queue, current_ui_, written, since, unheard, lost>>
OnDisconnected ==
  /\ phase # "off" /\ End
  /\ DeletePeerConnection
  /\ resolving' = FALSE
  /\ SwitchTo("CONNECT_TO_SERVER")
  /\ UNCHANGED <<queue, written, since, unheard, lost>>

OnPeerConnected(id) ==
  /\ Came(id)
  /\ UNCHANGED <<conductor, queue, current_ui_, resolving, written, since, unheard, lost>>

\* A peer left the server or said BYE.
OnPeerDisconnected(id) ==
  /\ SignedOn
  /\ Left(id) \/ UNCHANGED session
  /\ IF id = peer_id_
     THEN Len(posted) < MaxPosted /\ posted' = Callback("PEER_CONNECTION_CLOSED", 0)
     ELSE UNCHANGED posted
  /\ UNCHANGED <<conductor, pending_messages_, sent, current_ui_, resolving, written,
                 since, unheard, lost>>

\* OnMessageFromPeer: a first message makes the peer connection, and another
\* peer's is ignored.
OnMessageFromPeer(id) ==
  /\ SignedOn
  /\ \/ ~peer_connection_ /\ Initialized(id, FALSE) /\ UNCHANGED <<session, unheard>>
     \/ ~peer_connection_ /\ NotInitialized /\ SignOut /\ UNCHANGED current_ui_
     \/ peer_connection_ /\ UNCHANGED <<session, conductor, current_ui_, since, unheard>>
  /\ UNCHANGED <<queue, resolving, written, lost>>

\* OnMessageFromPeer of an offer-loopback, for which the peer connection is made
\* again (ReinitializePeerConnectionForLoopback).
OnLoopbackOffer(id) ==
  /\ SignedOn
  /\ \/ ~peer_connection_ /\ Initialized(id, TRUE) /\ UNCHANGED <<session, unheard>>
     \/ /\ peer_connection_ /\ id = peer_id_ /\ loopback_' = TRUE
        /\ UNCHANGED <<session, peer_connection_, peer_id_, since, current_ui_, unheard>>
     \/ /\ ~peer_connection_ \/ id = peer_id_
        /\ NotInitialized /\ SignOut
        /\ IF peer_connection_ THEN UNCHANGED current_ui_ ELSE SwitchTo("STREAMING")
  /\ UNCHANGED <<queue, resolving, written, lost>>

-----------------------------------------------------------------------------
(* Messages to the peer *)

\* SendMessage, for a description or a candidate of the peer connection.
Write ==
  /\ peer_connection_ /\ ~loopback_ /\ written < MaxWritten
  /\ written' = written + 1
  /\ posted' = Callback("SEND_MESSAGE_TO_PEER", written + 1)
  /\ UNCHANGED <<session, conductor, pending_messages_, sent, current_ui_, resolving, since,
                 unheard, lost>>

\* UIThreadCallback(SEND_MESSAGE_TO_PEER): whatever was posted, the oldest
\* pending message is sent, or lost when it cannot be.
BadEnqueued(data) == IF data = 0 THEN pending_messages_ ELSE <<data>> \o pending_messages_
BadEnqueuedNull(data) == Append(pending_messages_, data)
Enqueued(data) == IF data = 0 THEN pending_messages_ ELSE Append(pending_messages_, data)

IsSendingMessage == SignedOn /\ request # "none"

NotSent(pending) ==
  /\ pending_messages_' = Tail(pending)
  /\ \/ CanSend /\ Silently
     \/ ~CanSend /\ peer_id_ # NoPeer /\ DisconnectFromServer
     \/ ~CanSend /\ peer_id_ = NoPeer /\ UNCHANGED <<session, unheard>>
  /\ UNCHANGED sent

BadSendPending(pending) ==
  IF pending = <<>> \/ IsSendingMessage
  THEN UNCHANGED <<pending_messages_, session, sent, unheard>>
  ELSE \/ Sends /\ pending_messages_' = Tail(pending) /\ sent' = Append(sent, Head(pending))
       \/ NotSent(pending)
SendPending(pending) ==
  IF pending = <<>> \/ IsSendingMessage
  THEN pending_messages_' = pending /\ UNCHANGED <<session, sent, unheard>>
  ELSE \/ Sends /\ pending_messages_' = Tail(pending) /\ sent' = Append(sent, Head(pending))
       \/ NotSent(pending)

OnSendMessageToPeer ==
  /\ posted # <<>> /\ Head(posted).id = "SEND_MESSAGE_TO_PEER"
  /\ posted' = Tail(posted)
  /\ SendPending(Enqueued(Head(posted).data))
  /\ peer_id_' = IF peer_connection_ THEN peer_id_ ELSE NoPeer
  /\ UNCHANGED <<peer_connection_, loopback_, current_ui_, resolving, written, since, lost>>

\* UIThreadCallback(PEER_CONNECTION_CLOSED).
OnPeerConnectionClosed ==
  /\ posted # <<>> /\ Head(posted).id = "PEER_CONNECTION_CLOSED"
  /\ posted' = Tail(posted)
  /\ DeletePeerConnection
  /\ IF current_ui_ = "closed" THEN DisconnectFromServer ELSE UNCHANGED <<session, unheard>>
  /\ \/ phase \in {"on", "leaving"} /\ SwitchTo("LIST_PEERS")
     \/ phase # "on" /\ SwitchTo("CONNECT_TO_SERVER")
  /\ UNCHANGED <<pending_messages_, sent, resolving, written, since, lost>>

UIThreadCallback == OnSendMessageToPeer \/ OnPeerConnectionClosed

-----------------------------------------------------------------------------

Events ==
  \/ OnServerAddress \/ OnSignedIn \/ RequestDone \/ OtherConnectionCloses \/ OnDisconnected
  \/ Write
  \/ \E id \in Ids :
       OnPeerConnected(id) \/ OnPeerDisconnected(id) \/ OnMessageFromPeer(id)
       \/ OnLoopbackOffer(id)

Next ==
  \/ StartLogin \/ DisconnectFromCurrentPeer \/ Escape \/ Close \/ ModalLoop
  \/ (\E id \in Ids : ConnectToPeer(id))
  \/ UIThreadCallback
  \/ current_ui_ # "closed" /\ Events

Spec == Init /\ [][Next]_vars

\* The thread dispatches what is posted to it, and the connection of a request
\* is closed in the end, by the server's answer or because it is lost.
Fairness ==
  WF_vars(UIThreadCallback) /\ WF_vars(current_ui_ # "closed" /\ RequestDone)
FairSpec == Spec /\ Fairness

-----------------------------------------------------------------------------

\* There is a peer connection exactly while there is a peer to send its messages
\* to: what OnMessageFromPeer asserts before it makes one or ignores a stranger.
PeerIsKnown == peer_connection_ <=> peer_id_ # NoPeer

\* The list of peers, from which ConnectToPeer is called, shows only between
\* conversations: ConnectToPeer asserts that it has no peer.
ListMeansFree == current_ui_ = "LIST_PEERS" => ~peer_connection_

\* The window, the peer connection and the peer agree.
ConversationFits == PeerIsKnown /\ ListMeansFree

\* When a session is over and OnDisconnected was called, the user can log in
\* again and nothing of the last conversation is left; what was still posted
\* does not undo this, and no conversation starts before the next session.
LoginOffered ==
  phase \in {"off", "joining"} /\ ~unheard =>
    current_ui_ \in {"CONNECT_TO_SERVER", "closed"} /\ ~peer_connection_

\* Messages are sent in the order they were written and none twice, through
\* sessions and conversations that end and callbacks that are lost
\* (UIThreadCallback: "in the same order they were signaled"): SendToPeer accepts
\* the oldest message that waits, and one that was given up is never sent.
Channel == INSTANCE MessageChannel
  WITH waiting <- ToSet(pending_messages_) \cup ({posted[i].data : i \in DOMAIN posted} \ {0}),
       received <- sent, Lossy <- TRUE
ImplementsChannel == Channel!Spec

\* While callbacks are not lost, a message of the conversation that waits is not
\* forgotten: a callback is posted for it, or a request is under way whose end
\* posts one (UIThreadCallback, OnMessageSent).  Messages left over from earlier
\* conversations have no such promise; they go to the next peer, before its own.
Waits == \E i \in DOMAIN pending_messages_ : pending_messages_[i] > since
Pumped ==
  request # "none" \/ \E i \in DOMAIN posted : posted[i].id = "SEND_MESSAGE_TO_PEER"
QueuePumped == phase = "on" /\ peer_connection_ /\ Waits /\ ~lost => Pumped

\* Every message of a conversation is sent if the conversation, the session and
\* the callbacks last.
EverythingSent ==
  \A n \in 1..MaxWritten :
    (peer_connection_ /\ since < n /\ n <= written)
      ~> (n \in ToSet(sent) \/ ~peer_connection_ \/ phase # "on" \/ lost)
=============================================================================
