------------------------ MODULE ClientConductorProofs ------------------------
(***************************************************************************)
(* Proofs about ClientConductor, for any number of peers, messages and     *)
(* callbacks: its types, the agreement of window, conversation and session *)
(* and the order of the messages.                                          *)
(***************************************************************************)
EXTENDS ClientConductor, SequenceTheorems, TLAPS

-----------------------------------------------------------------------------
(* Window, conversation and session *)

\* A peer connection is only ever behind the streaming view.
StreamingShows == peer_connection_ => current_ui_ = "STREAMING"

\* While there is a window, a client that signs in shows the login view, and
\* signs in by the request or the name resolution it started for that.
JoiningShows ==
  current_ui_ # "closed" =>
    /\ phase = "joining" => current_ui_ = "CONNECT_TO_SERVER"
    /\ phase = "off" /\ ~unheard => current_ui_ = "CONNECT_TO_SERVER"
    /\ request = "sign_in" => phase = "joining"
    /\ resolving => phase = "joining" /\ request = "none"

ConversationInv ==
  /\ SessionTypeOK
  /\ peer_connection_ \in BOOLEAN /\ loopback_ \in BOOLEAN
  /\ resolving \in BOOLEAN /\ unheard \in BOOLEAN
  /\ peer_id_ \in Ids \cup {NoPeer}
  /\ current_ui_ \in UIs
  /\ PeerIsKnown
  /\ StreamingShows
  /\ JoiningShows

LEMMA ConversationInit == Init => ConversationInv
BY DEF Init, SessionInit, ConversationInv, SessionTypeOK, Phases, Over, Asked, Updates, UIs,
  PeerIsKnown, StreamingShows, JoiningShows

LEMMA EndsWell == End => SessionTypeOK'
BY DEF End, SessionTypeOK, Phases, Over, Asked, Updates

\* What the client does when the conductor calls it.
LEMMA CallsType ==
  ASSUME SessionTypeOK, Join \/ Leave \/ Send \/ UNCHANGED session
  PROVE  SessionTypeOK'
<1>1. CASE Join
  BY <1>1 DEF Join, SessionTypeOK, Phases, Over, Asked
<1>2. CASE Leave
  BY <1>2 DEF Leave, SignsOut, SessionTypeOK, Phases, Over, Asked
<1>3. CASE Send
  BY <1>3 DEF Send, SessionTypeOK, Asked
<1>4. CASE UNCHANGED session
  BY <1>4 DEF session, SessionTypeOK
<1> QED
  BY <1>1, <1>2, <1>3, <1>4

LEMMA EventsType ==
  ASSUME SessionTypeOK,
         \/ Resolved \/ Unresolved \/ Joined \/ Answered
         \/ \E id \in Ids : Came(id) \/ Left(id)
  PROVE  SessionTypeOK'
<1>1. CASE Resolved \/ Unresolved
  BY <1>1 DEF Resolved, Unresolved, SessionTypeOK, Phases, Asked
<1>2. CASE Joined
  <2>1. phase' \in Phases /\ peers' \subseteq Ids /\ request' \in Over
    BY <1>2 DEF Joined, SessionTypeOK, Phases
  <2>2. update' \in Updates /\ value' \in Values \cup {NoValue}
    BY <1>2 DEF Joined, Updated, SessionTypeOK, Updates, Over
  <2> QED
    BY <2>1, <2>2 DEF SessionTypeOK
<1>3. CASE Answered
  BY <1>3 DEF Answered, SessionTypeOK, Over, Asked
<1>4. CASE \E id \in Ids : Came(id) \/ Left(id)
  BY <1>4 DEF Came, Left, SessionTypeOK
<1> QED
  BY <1>1, <1>2, <1>3, <1>4

\* A sign-out that the user, a failed request or a failed peer connection asks
\* for, while the client is not signing in or there is no window any more.
LEMMA SignsOutOrNot ==
  ASSUME ConversationInv, SignOut
  PROVE  /\ SessionTypeOK'
         /\ unheard' \in BOOLEAN
         /\ request' = "sign_in" => request = "sign_in"
         /\ phase' \in {"leaving", "off"}
         /\ phase' = "off" => unheard' \/ phase = "off"
         /\ unheard => unheard'
<1>1. CASE phase = "off" /\ UNCHANGED <<session, unheard>>
  BY <1>1, CallsType DEF ConversationInv, session
<1>2. CASE Leave /\ UNCHANGED unheard
  BY <1>2, CallsType DEF ConversationInv, Leave
<1>3. CASE SignsOut /\ Silently
  BY <1>3, EndsWell DEF Silently, End
<1> QED
  BY <1>1, <1>2, <1>3 DEF SignOut

LEMMA UserKeeps ==
  ASSUME ConversationInv,
         \/ StartLogin \/ DisconnectFromCurrentPeer \/ Escape \/ Close \/ ModalLoop
         \/ \E id \in Ids : ConnectToPeer(id)
  PROVE  ConversationInv'
<1> USE DEF ConversationInv, StreamingShows, JoiningShows, PeerIsKnown
<1>1. CASE StartLogin
  <2>1. SessionTypeOK'
    BY <1>1, CallsType DEF StartLogin, session
  <2>2. request' = "sign_in" \/ resolving' => phase' = "joining"
    BY <1>1 DEF StartLogin, Join, session
  <2>3. CASE resolving' = (request' = "none")
    <3>1. resolving' \in BOOLEAN /\ (resolving' => request' = "none")
      BY <2>3
    <3> QED
      BY <1>1, <2>1, <2>2, <3>1 DEF StartLogin, conductor
  <2>4. CASE UNCHANGED <<session, resolving>>
    BY <1>1, <2>1, <2>4 DEF StartLogin, conductor, session
  <2> QED
    BY <1>1, <2>3, <2>4 DEF StartLogin
<1>2. CASE \E id \in Ids : ConnectToPeer(id)
  <2>1. PICK id \in Ids : ConnectToPeer(id)
    BY <1>2
  <2>2. SessionTypeOK'
    BY <2>1, CallsType DEF ConnectToPeer
  <2> QED
    BY <2>1, <2>2, ConductorAssumption DEF ConnectToPeer, Initialized, NotInitialized, DeletePeerConnection, SwitchTo,
      session, UIs
<1>3. CASE DisconnectFromCurrentPeer
  <2>1. /\ SessionTypeOK' /\ unheard' \in BOOLEAN
        /\ phase' = "joining" => phase = "joining"
        /\ phase' = "off" /\ ~unheard' => phase = "off" /\ ~unheard
        /\ request' = "sign_in" => request = "sign_in" /\ phase' = phase
        /\ request' # request => phase = "on"
    BY <1>3, CallsType, EndsWell DEF DisconnectFromCurrentPeer, Sends, DoesNotSend, CanSend, Send, Silently, End,
      session
  <2> QED
    BY <1>3, <2>1 DEF DisconnectFromCurrentPeer, DeletePeerConnection, SwitchTo, conductor, UIs
<1>4. CASE Escape
  <2>1. CASE phase \in {"on", "leaving"} /\ SignOut
    BY <1>4, <2>1, SignsOutOrNot DEF Escape, conductor
  <2>2. CASE UNCHANGED <<session, unheard>>
    BY <1>4, <2>2, CallsType DEF Escape, conductor, session
  <2> QED
    BY <1>4, <2>1, <2>2 DEF Escape, DisconnectFromServer
<1>5. CASE Close
  BY <1>5, SignsOutOrNot DEF Close, DeletePeerConnection, UIs
<1>6. CASE ModalLoop
  BY <1>6, CallsType DEF ModalLoop, conductor, session
<1> QED
  BY <1>1, <1>2, <1>3, <1>4, <1>5, <1>6

LEMMA SessionKeeps ==
  ASSUME ConversationInv, current_ui_ # "closed",
         OnServerAddress \/ OnSignedIn \/ RequestDone \/ OtherConnectionCloses \/ OnDisconnected
  PROVE  ConversationInv'
<1> USE DEF ConversationInv, StreamingShows, JoiningShows, PeerIsKnown
<1>1. CASE OnServerAddress
  <2>1. SessionTypeOK'
    BY <1>1, EventsType DEF OnServerAddress
  <2> QED
    BY <1>1, <2>1 DEF OnServerAddress, Resolved, Unresolved, conductor
<1>2. CASE OnSignedIn
  <2>1. SessionTypeOK' /\ phase' \in {"on", "anonymous"} /\ request' \in Over
    BY <1>2, EventsType DEF OnSignedIn, Joined
  <2>2. ~peer_connection_ /\ ~resolving
    BY <1>2 DEF OnSignedIn, Joined
  <2> QED
    BY <1>2, <2>1, <2>2 DEF OnSignedIn, SwitchTo, conductor, Over, UIs
<1>3. CASE RequestDone
  <2>1. CASE Answered
    <3>1. SessionTypeOK' /\ phase' = phase /\ request' # "sign_in" /\ request # "none"
      BY <2>1, EventsType DEF Answered, Over
    <3>2. UNCHANGED <<current_ui_, unheard, conductor, resolving>>
      BY <1>3, <2>1 DEF RequestDone, SignOutFails, Silently, End, Answered
    <3> QED
      BY <3>1, <3>2 DEF conductor
  <2>2. CASE SignOutFails
    BY <1>3, <2>2, EndsWell DEF RequestDone, SignOutFails, Silently, End, conductor
  <2> QED
    BY <1>3, <2>1, <2>2 DEF RequestDone
<1>4. CASE OtherConnectionCloses
  BY <1>4, CallsType DEF OtherConnectionCloses, conductor, session
<1>5. CASE OnDisconnected
  BY <1>5, EndsWell DEF OnDisconnected, DeletePeerConnection, SwitchTo, End, UIs
<1> QED
  BY <1>1, <1>2, <1>3, <1>4, <1>5

LEMMA PeersKeep ==
  ASSUME ConversationInv, current_ui_ # "closed", NEW id \in Ids,
         \/ OnPeerConnected(id) \/ OnPeerDisconnected(id) \/ OnMessageFromPeer(id)
         \/ OnLoopbackOffer(id)
  PROVE  ConversationInv'
<1> USE DEF ConversationInv, StreamingShows, JoiningShows, PeerIsKnown
<1>1. CASE OnPeerConnected(id)
  <2>1. SessionTypeOK'
    BY <1>1, EventsType DEF OnPeerConnected
  <2> QED
    BY <1>1, <2>1 DEF OnPeerConnected, Came, conductor
<1>2. CASE OnPeerDisconnected(id)
  <2>1. SessionTypeOK'
    BY <1>2, EventsType, CallsType DEF OnPeerDisconnected
  <2> QED
    BY <1>2, <2>1 DEF OnPeerDisconnected, Left, conductor, session
<1>3. ASSUME SignedOn, DeletePeerConnection, SignOut, UNCHANGED resolving,
             current_ui_' \in {current_ui_, "STREAMING"}
      PROVE  ConversationInv'
  <2>1. phase \notin {"off", "joining"} /\ ~resolving /\ request # "sign_in"
    BY <1>3 DEF SignedOn
  <2> QED
    BY <1>3, <2>1, SignsOutOrNot DEF DeletePeerConnection, UIs
<1>4. ASSUME SignedOn, UNCHANGED <<session, unheard, resolving>>,
             \/ Initialized(id, loopback_')
             \/ UNCHANGED <<peer_connection_, peer_id_, current_ui_>>,
             loopback_' \in BOOLEAN
      PROVE  ConversationInv'
  <2>1. SessionTypeOK'
    BY <1>4, CallsType
  <2>2. CASE Initialized(id, loopback_')
    BY <1>4, <2>1, <2>2, ConductorAssumption DEF SignedOn, session, Initialized, SwitchTo, UIs
  <2>3. CASE UNCHANGED <<peer_connection_, peer_id_, current_ui_>>
    BY <1>4, <2>1, <2>3 DEF session
  <2> QED
    BY <1>4, <2>2, <2>3
<1>5. CASE OnMessageFromPeer(id)
  BY <1>3, <1>4, <1>5 DEF OnMessageFromPeer, Initialized, NotInitialized, conductor
<1>6. CASE OnLoopbackOffer(id)
  BY <1>3, <1>4, <1>6 DEF OnLoopbackOffer, Initialized, NotInitialized, SwitchTo, conductor
<1> QED
  BY <1>1, <1>2, <1>5, <1>6

LEMMA CallbacksKeep ==
  ASSUME ConversationInv, UIThreadCallback
  PROVE  ConversationInv'
<1> USE DEF ConversationInv, StreamingShows, JoiningShows, PeerIsKnown
<1>1. CASE OnSendMessageToPeer
  <2> DEFINE pending == Enqueued(Head(posted).data)
  <2>1. /\ SessionTypeOK' /\ unheard' \in BOOLEAN
        /\ phase' = "joining" => phase = "joining"
        /\ phase' = "off" /\ ~unheard' => phase = "off" /\ ~unheard
        /\ request' = "sign_in" => request = "sign_in"
        /\ phase' # phase => phase \in {"on", "leaving"} /\ phase' # "joining"
        /\ request' # request => phase \in {"on", "leaving"}
    <3>1. CASE UNCHANGED <<session, unheard>>
      BY <3>1, CallsType DEF session
    <3>2. CASE Sends
      BY <3>2, CallsType DEF Sends, CanSend, Send
    <3>3. CASE CanSend /\ Silently
      BY <3>3, EndsWell DEF CanSend, Silently, End
    <3>4. CASE DisconnectFromServer
      BY <3>4, <3>1, SignsOutOrNot DEF DisconnectFromServer
    <3> HIDE DEF ConversationInv
    <3> QED
      BY <1>1, <3>1, <3>2, <3>3, <3>4 DEF OnSendMessageToPeer, SendPending, NotSent
  <2>2. /\ peer_connection_' = peer_connection_
        /\ peer_id_' = peer_id_
        /\ UNCHANGED <<loopback_, current_ui_, resolving>>
    BY <1>1 DEF OnSendMessageToPeer
  <2> QED
    BY <2>1, <2>2
<1>2. CASE OnPeerConnectionClosed
  <2>1. CASE current_ui_ = "closed"
    BY <1>2, <2>1, SignsOutOrNot, CallsType
    DEF OnPeerConnectionClosed, DisconnectFromServer, DeletePeerConnection, SwitchTo, session, UIs
  <2>2. CASE current_ui_ # "closed"
    BY <1>2, <2>2, CallsType DEF OnPeerConnectionClosed, DeletePeerConnection, SwitchTo, session, UIs
  <2> QED
    BY <2>1, <2>2
<1> QED
  BY <1>1, <1>2 DEF UIThreadCallback

LEMMA NextKeeps == ConversationInv /\ [Next]_vars => ConversationInv'
<1> SUFFICES ASSUME ConversationInv, [Next]_vars
             PROVE  ConversationInv'
  OBVIOUS
<1>1. CASE current_ui_ # "closed" /\ Write
  BY <1>1, CallsType DEF Write, conductor, session, ConversationInv, StreamingShows, JoiningShows,
    PeerIsKnown
<1>2. CASE UNCHANGED vars
  BY <1>2, CallsType DEF vars, conductor, session, ConversationInv, StreamingShows, JoiningShows,
    PeerIsKnown
<1> QED
  BY <1>1, <1>2, UserKeeps, SessionKeeps, PeersKeep, CallbacksKeep DEF Next, Events

LEMMA ConversationHolds == Spec => []ConversationInv
BY ConversationInit, NextKeeps, PTL DEF Spec

\* Window, peer connection and peer agree in every state, whatever the user, the
\* server and the peers do: the assertions of OnMessageFromPeer and ConnectToPeer
\* hold (conductor.cpp).
THEOREM WindowFitsConversation == Spec => []ConversationFits
<1>1. ConversationInv => ConversationFits
  BY DEF ConversationInv, ConversationFits, StreamingShows, ListMeansFree
<1> QED
  BY <1>1, ConversationHolds, PTL

\* After a session whose end OnDisconnected announced the user is offered the
\* login and nothing of the last conversation is left, for any number of posted
\* callbacks that come late.
THEOREM LoginIsOffered == Spec => []LoginOffered
<1>1. ConversationInv => LoginOffered
  BY DEF ConversationInv, StreamingShows, JoiningShows, LoginOffered
<1> QED
  BY <1>1, ConversationHolds, PTL

-----------------------------------------------------------------------------
(* The order of the messages *)

Messages == 1..MaxWritten

QueueTypes ==
  /\ pending_messages_ \in Seq(Messages)
  /\ posted \in Seq(Callbacks)
  /\ sent \in Seq(Messages)
  /\ written \in 0..MaxWritten /\ since \in 0..MaxWritten
  /\ lost \in BOOLEAN

Increasing(s) == \A i, j \in DOMAIN s : i < j => s[i] < s[j]
Below(s, t) == \A i \in DOMAIN s, j \in DOMAIN t : s[i] < t[j]
UpTo(s, n) == \A i \in DOMAIN s : s[i] <= n

\* A callback without a message is not in the order.
CarriedInOrder(s) ==
  \A i, j \in DOMAIN s : i < j /\ s[i].data # 0 /\ s[j].data # 0 => s[i].data < s[j].data
BelowCarried(s, t) == \A i \in DOMAIN s, j \in DOMAIN t : t[j].data # 0 => s[i] < t[j].data
CarriedUpTo(s, n) == \A i \in DOMAIN s : s[i].data <= n

\* What was sent, what waits and what is posted, one after the other, is in the
\* order of writing.
OrderInv ==
  /\ QueueTypes
  /\ Increasing(sent) /\ Increasing(pending_messages_) /\ CarriedInOrder(posted)
  /\ Below(sent, pending_messages_)
  /\ BelowCarried(sent, posted) /\ BelowCarried(pending_messages_, posted)
  /\ UpTo(sent, written) /\ UpTo(pending_messages_, written) /\ CarriedUpTo(posted, written)

LEMMA EmptyType == ASSUME NEW S PROVE <<>> \in Seq(S)
OBVIOUS

LEMMA AppendType ==
  ASSUME NEW S, NEW s \in Seq(S), NEW x \in S, NEW out, out = Append(s, x)
  PROVE  /\ out \in Seq(S) /\ Len(s) \in Nat /\ Len(out) = Len(s) + 1
         /\ DOMAIN s = 1..Len(s) /\ DOMAIN out = 1..(Len(s) + 1)
         /\ out[Len(s) + 1] = x
         /\ \A i \in 1..Len(s) : out[i] = s[i]
         /\ \A i \in DOMAIN out : (i \in DOMAIN s /\ out[i] = s[i]) \/ (i = Len(s) + 1 /\ out[i] = x)
OBVIOUS

LEMMA OrderInit == Init => OrderInv
<1> SUFFICES ASSUME Init
             PROVE  OrderInv
  OBVIOUS
<1>1. QueueTypes
  <2>1. written = 0 /\ since = 0 /\ lost \in BOOLEAN
    BY DEF Init
  <2>2. pending_messages_ = <<>> /\ posted = <<>> /\ sent = <<>>
    BY DEF Init
  <2> QED
    BY <2>1, <2>2, EmptyType, ConductorAssumption DEF QueueTypes
<1>2. sent = <<>> /\ pending_messages_ = <<>> /\ posted = <<>>
  BY DEF Init
<1> QED
  BY <1>1, <1>2 DEF OrderInv, Increasing, Below, UpTo, CarriedInOrder, BelowCarried, CarriedUpTo

\* A callback that carries nothing, or the next message.
LEMMA PostKeeps ==
  ASSUME OrderInv, NEW n \in 0..MaxWritten, NEW id \in {"SEND_MESSAGE_TO_PEER", "PEER_CONNECTION_CLOSED"},
         NEW data \in {0, n}, n = written \/ n = written + 1, data = 0 \/ n = written + 1,
         posted' = Callback(id, data), written' = n,
         UNCHANGED <<pending_messages_, sent, lost>>, since' \in 0..MaxWritten
  PROVE  OrderInv'
<1> DEFINE new == [id |-> id, data |-> data]
<1>1. new \in Callbacks /\ posted' = Append(posted, new) /\ posted \in Seq(Callbacks)
  BY ConductorAssumption DEF Callbacks, Callback, OrderInv, QueueTypes
<1>2. /\ posted' \in Seq(Callbacks) /\ Len(posted') = Len(posted) + 1 /\ posted'[Len(posted) + 1] = new
      /\ \A i \in 1..Len(posted) : posted'[i] = posted[i]
  BY <1>1, AppendProperties
<1>3. DOMAIN posted = 1..Len(posted) /\ DOMAIN posted' = 1..(Len(posted) + 1) /\ Len(posted) \in Nat
  BY <1>1, <1>2
<1>4. QueueTypes'
  BY <1>2 DEF OrderInv, QueueTypes
<1>5. new.data = data
  OBVIOUS
<1>6. \A i \in 1..Len(posted) : posted[i].data \in 0..MaxWritten /\ posted[i].data <= written
  <2> TAKE i \in 1..Len(posted)
  <2>1. posted[i] \in Callbacks
    BY <1>1
  <2>2. posted[i].data \in 0..MaxWritten
    BY <2>1 DEF Callbacks
  <2> QED
    BY <1>3, <2>2 DEF OrderInv, CarriedUpTo
<1> HIDE DEF new
<1>7. \A i \in DOMAIN posted' :
        (i \in 1..Len(posted) /\ posted'[i] = posted[i]) \/ (i = Len(posted) + 1 /\ posted'[i].data = data)
  BY <1>2, <1>3, <1>5
<1>8. /\ written \in Nat /\ n \in Nat /\ written <= n
      /\ data # 0 => data = n /\ written < data
      /\ data <= n
  BY ConductorAssumption DEF OrderInv, QueueTypes
<1>9. CarriedInOrder(posted')
  BY <1>3, <1>6, <1>7, <1>8 DEF OrderInv, CarriedInOrder
<1>10. \A i \in DOMAIN sent : sent[i] \in Nat /\ sent[i] <= written
  BY ElementOfSeq, ConductorAssumption DEF OrderInv, UpTo, QueueTypes, Messages
<1>11. \A i \in DOMAIN pending_messages_ : pending_messages_[i] \in Nat /\ pending_messages_[i] <= written
  BY ElementOfSeq, ConductorAssumption DEF OrderInv, UpTo, QueueTypes, Messages
<1>12. BelowCarried(sent, posted') /\ BelowCarried(pending_messages_, posted')
  BY <1>3, <1>7, <1>8, <1>10, <1>11 DEF OrderInv, BelowCarried
<1>13. CarriedUpTo(posted', n) /\ UpTo(sent, n) /\ UpTo(pending_messages_, n)
  BY <1>6, <1>7, <1>8, <1>10, <1>11 DEF CarriedUpTo, UpTo
<1> QED
  BY <1>4, <1>9, <1>12, <1>13 DEF OrderInv

LEMMA QueueStays ==
  ASSUME OrderInv, UNCHANGED <<pending_messages_, sent, lost, written>>, since' \in 0..MaxWritten,
         posted' = posted
  PROVE  OrderInv'
BY DEF OrderInv, QueueTypes

LEMMA PostsLost == OrderInv /\ ModalLoop => OrderInv'
BY DEF ModalLoop, OrderInv, QueueTypes, CarriedInOrder, BelowCarried, CarriedUpTo

\* A callback is taken, and a message it carries goes to the end of the queue.
LEMMA TakenInOrder ==
  ASSUME OrderInv, posted # <<>>,
         NEW pending, pending = Enqueued(Head(posted).data), NEW rest, rest = Tail(posted)
  PROVE  /\ pending \in Seq(Messages) /\ rest \in Seq(Callbacks)
         /\ Increasing(pending) /\ CarriedInOrder(rest)
         /\ Below(sent, pending) /\ BelowCarried(sent, rest) /\ BelowCarried(pending, rest)
         /\ UpTo(pending, written) /\ CarriedUpTo(rest, written)
<1> DEFINE data == Head(posted).data
<1>1. posted \in Seq(Callbacks) /\ pending_messages_ \in Seq(Messages)
  BY DEF OrderInv, QueueTypes
<1>2. /\ rest \in Seq(Callbacks) /\ Len(rest) = Len(posted) - 1
      /\ \A i \in 1..Len(rest) : rest[i] = posted[i + 1]
      /\ DOMAIN rest = 1..Len(rest) /\ DOMAIN posted = 1..Len(posted) /\ Len(posted) \in Nat \ {0}
      /\ Head(posted) = posted[1]
  BY <1>1
<1>3. data \in 0..MaxWritten /\ data = posted[1].data /\ data <= written
  <2>1. posted[1] \in Callbacks /\ 1 \in DOMAIN posted
    BY <1>1, <1>2
  <2>2. posted[1].data \in 0..MaxWritten
    BY <2>1 DEF Callbacks
  <2> QED
    BY <1>2, <2>1, <2>2 DEF OrderInv, CarriedUpTo
<1>4. CarriedInOrder(rest) /\ CarriedUpTo(rest, written) /\ BelowCarried(sent, rest)
      /\ BelowCarried(pending_messages_, rest)
  <2>1. \A i \in DOMAIN rest : i + 1 \in DOMAIN posted /\ rest[i] = posted[i + 1] /\ i \in Nat
    BY <1>2
  <2>2. \A i, j \in DOMAIN rest : i < j => i + 1 < j + 1
    BY <1>2
  <2> QED
    BY <2>1, <2>2 DEF OrderInv, CarriedInOrder, CarriedUpTo, BelowCarried
<1>5. CASE data = 0
  BY <1>1, <1>2, <1>4, <1>5 DEF Enqueued, OrderInv
<1>6. CASE data # 0
  <2>1. pending = Append(pending_messages_, data) /\ data \in Messages
    BY <1>3, <1>6 DEF Enqueued, Messages
  <2>2. /\ pending \in Seq(Messages) /\ Len(pending) = Len(pending_messages_) + 1
        /\ pending[Len(pending_messages_) + 1] = data
        /\ \A i \in 1..Len(pending_messages_) : pending[i] = pending_messages_[i]
    <3> HIDE DEF data
    <3> QED
      BY <1>1, <2>1, AppendType
  <2>3. /\ DOMAIN pending_messages_ = 1..Len(pending_messages_) /\ Len(pending_messages_) \in Nat
        /\ DOMAIN pending = 1..(Len(pending_messages_) + 1)
    BY <1>1, <2>2
  <2>4. /\ \A i \in 1..Len(pending_messages_) : pending_messages_[i] < data
        /\ \A i \in DOMAIN sent : sent[i] < data
    BY <1>2, <1>3, <1>6, <2>3 DEF OrderInv, BelowCarried
  <2>5. \A i \in DOMAIN rest : rest[i].data # 0 => data < rest[i].data
    BY <1>2, <1>3, <1>6 DEF OrderInv, CarriedInOrder
  <2> HIDE DEF data
  <2>6. Increasing(pending) /\ UpTo(pending, written)
    BY <1>3, <2>2, <2>3, <2>4 DEF OrderInv, Increasing, UpTo
  <2>7. \A i \in DOMAIN pending :
          (i \in DOMAIN pending_messages_ /\ pending[i] = pending_messages_[i]) \/ pending[i] = data
    BY <2>2, <2>3
  <2>8. Below(sent, pending) /\ BelowCarried(pending, rest)
    BY <1>4, <2>4, <2>5, <2>7 DEF OrderInv, Below, BelowCarried
  <2> QED
    BY <1>2, <1>4, <2>2, <2>6, <2>8
<1> QED
  BY <1>5, <1>6

\* The first of the queue leaves it.
LEMMA FirstLeaves ==
  ASSUME NEW s \in Seq(Messages), s # <<>>, NEW t \in Seq(Messages), NEW u \in Seq(Callbacks),
         NEW n \in 0..MaxWritten,
         Increasing(s), Increasing(t), Below(t, s), BelowCarried(s, u), BelowCarried(t, u), UpTo(s, n), UpTo(t, n)
  PROVE  /\ Tail(s) \in Seq(Messages) /\ Increasing(Tail(s)) /\ UpTo(Tail(s), n)
         /\ Below(t, Tail(s)) /\ BelowCarried(Tail(s), u)
         /\ Append(t, Head(s)) \in Seq(Messages) /\ Increasing(Append(t, Head(s)))
         /\ UpTo(Append(t, Head(s)), n) /\ Below(Append(t, Head(s)), Tail(s))
         /\ BelowCarried(Append(t, Head(s)), u)
<1> DEFINE rest == Tail(s)
<1> DEFINE out == Append(t, Head(s))
<1>1. /\ rest \in Seq(Messages) /\ Len(rest) = Len(s) - 1 /\ Len(s) \in Nat \ {0}
      /\ DOMAIN rest = 1..Len(rest) /\ DOMAIN s = 1..Len(s) /\ Head(s) = s[1]
      /\ \A i \in 1..Len(rest) : rest[i] = s[i + 1]
  OBVIOUS
<1>2. Head(s) \in Messages /\ Head(s) = s[1] /\ 1 \in DOMAIN s
  BY <1>1
<1>3. /\ out \in Seq(Messages) /\ Len(out) = Len(t) + 1 /\ out[Len(t) + 1] = Head(s)
      /\ \A i \in 1..Len(t) : out[i] = t[i]
  BY <1>2, AppendType
<1>4. DOMAIN out = 1..(Len(t) + 1) /\ DOMAIN t = 1..Len(t) /\ Len(t) \in Nat
  BY <1>3
<1>5. \A i \in DOMAIN rest : i + 1 \in DOMAIN s /\ rest[i] = s[i + 1] /\ i \in Nat /\ Head(s) < rest[i]
  BY <1>1, <1>2 DEF Increasing
<1>6. \A i \in DOMAIN t : t[i] < Head(s)
  BY <1>2 DEF Below
<1> HIDE DEF rest, out
<1>7. Increasing(rest) /\ UpTo(rest, n) /\ Below(t, rest) /\ BelowCarried(rest, u)
  <2>1. \A i, j \in DOMAIN rest : i < j => i + 1 < j + 1
    BY <1>1
  <2> QED
    BY <1>5, <2>1 DEF Increasing, UpTo, Below, BelowCarried
<1>8. \A i \in DOMAIN out : (i \in DOMAIN t /\ out[i] = t[i]) \/ (i = Len(t) + 1 /\ out[i] = Head(s))
  BY <1>3, <1>4
<1>9. Increasing(out)
  BY <1>3, <1>4, <1>6, <1>8 DEF Increasing
<1>10. UpTo(out, n) /\ BelowCarried(out, u)
  BY <1>2, <1>8 DEF UpTo, BelowCarried
<1>11. Below(out, rest)
  BY <1>5, <1>7, <1>8 DEF Below
<1> QED
  BY <1>1, <1>3, <1>7, <1>9, <1>10, <1>11 DEF rest, out

\* The queue after UIThreadCallback.
LEMMA SendKeepsOrder == OrderInv /\ OnSendMessageToPeer => OrderInv'
<1> SUFFICES ASSUME OrderInv, OnSendMessageToPeer
             PROVE  OrderInv'
  OBVIOUS
<1> DEFINE pending == Enqueued(Head(posted).data)
<1> DEFINE rest == Tail(posted)
<1>1. /\ posted # <<>> /\ posted' = rest /\ UNCHANGED <<written, since, lost>>
      /\ SendPending(pending)
  BY DEF OnSendMessageToPeer
<1>2. /\ pending \in Seq(Messages) /\ rest \in Seq(Callbacks)
      /\ Increasing(pending) /\ CarriedInOrder(rest)
      /\ Below(sent, pending) /\ BelowCarried(sent, rest) /\ BelowCarried(pending, rest)
      /\ UpTo(pending, written) /\ CarriedUpTo(rest, written)
  BY <1>1, TakenInOrder
<1>3. /\ sent \in Seq(Messages) /\ Increasing(sent) /\ UpTo(sent, written) /\ written \in 0..MaxWritten
      /\ since \in 0..MaxWritten /\ lost \in BOOLEAN
  BY DEF OrderInv, QueueTypes
<1> HIDE DEF pending, rest
<1>4. CASE pending_messages_' = pending /\ sent' = sent
  BY <1>1, <1>2, <1>3, <1>4 DEF OrderInv, QueueTypes
<1>5. CASE pending # <<>> /\ pending_messages_' = Tail(pending) /\ sent' = Append(sent, Head(pending))
  <2>1. /\ Tail(pending) \in Seq(Messages) /\ Increasing(Tail(pending)) /\ UpTo(Tail(pending), written)
        /\ BelowCarried(Tail(pending), rest)
        /\ Append(sent, Head(pending)) \in Seq(Messages) /\ Increasing(Append(sent, Head(pending)))
        /\ UpTo(Append(sent, Head(pending)), written) /\ Below(Append(sent, Head(pending)), Tail(pending))
        /\ BelowCarried(Append(sent, Head(pending)), rest)
    BY <1>2, <1>3, <1>5, FirstLeaves
  <2> QED
    BY <1>1, <1>2, <1>3, <1>5, <2>1 DEF OrderInv, QueueTypes
<1>6. CASE pending # <<>> /\ pending_messages_' = Tail(pending) /\ sent' = sent
  <2>1. /\ Tail(pending) \in Seq(Messages) /\ Increasing(Tail(pending)) /\ UpTo(Tail(pending), written)
        /\ Below(sent, Tail(pending)) /\ BelowCarried(Tail(pending), rest)
    BY <1>2, <1>3, <1>6, FirstLeaves
  <2> QED
    BY <1>1, <1>2, <1>3, <1>6, <2>1 DEF OrderInv, QueueTypes
<1>7. \/ pending_messages_' = pending /\ sent' = sent
      \/ pending # <<>> /\ pending_messages_' = Tail(pending) /\ sent' = Append(sent, Head(pending))
      \/ pending # <<>> /\ pending_messages_' = Tail(pending) /\ sent' = sent
  BY <1>1 DEF SendPending, NotSent
<1> QED
  BY <1>4, <1>5, <1>6, <1>7

LEMMA ClosedKeepsOrder == OrderInv /\ OnPeerConnectionClosed => OrderInv'
<1> SUFFICES ASSUME OrderInv, OnPeerConnectionClosed
             PROVE  OrderInv'
  OBVIOUS
<1>1. posted # <<>> /\ posted' = Tail(posted) /\ UNCHANGED <<pending_messages_, sent, written, since, lost>>
  BY DEF OnPeerConnectionClosed
<1>2. /\ Tail(posted) \in Seq(Callbacks) /\ CarriedInOrder(Tail(posted))
      /\ BelowCarried(sent, Tail(posted)) /\ CarriedUpTo(Tail(posted), written)
  BY <1>1, TakenInOrder
<1>3. BelowCarried(pending_messages_, Tail(posted))
  <2>1. posted \in Seq(Callbacks)
    BY DEF OrderInv, QueueTypes
  <2>2. \A i \in DOMAIN Tail(posted) : i + 1 \in DOMAIN posted /\ Tail(posted)[i] = posted[i + 1]
    BY <1>1, <2>1
  <2> QED
    BY <2>2 DEF OrderInv, BelowCarried
<1> QED
  BY <1>1, <1>2, <1>3 DEF OrderInv, QueueTypes

LEMMA NextOrders == OrderInv /\ [Next]_vars => OrderInv'
<1> SUFFICES ASSUME OrderInv, [Next]_vars
             PROVE  OrderInv'
  OBVIOUS
<1>1. since \in 0..MaxWritten /\ written \in 0..MaxWritten
  BY DEF OrderInv, QueueTypes
<1>2. CASE /\ UNCHANGED <<queue, written, lost>>
           /\ since' \in {since, written}
  BY <1>1, <1>2, QueueStays DEF queue
<1>3. CASE posted' = SendNext /\ UNCHANGED <<pending_messages_, sent, written, since, lost>>
  <2>1. posted' = Callback("SEND_MESSAGE_TO_PEER", 0)
    BY <1>3 DEF SendNext
  <2> QED
    BY <1>1, <1>3, <2>1, PostKeeps, Zenon
<1>4. CASE posted' = Callback("PEER_CONNECTION_CLOSED", 0) /\ UNCHANGED <<pending_messages_, sent, written, since, lost>>
  BY <1>1, <1>4, PostKeeps, Zenon
<1>5. CASE Write
  <2>1. /\ written' = written + 1 /\ written' \in 0..MaxWritten
        /\ posted' = Callback("SEND_MESSAGE_TO_PEER", written')
        /\ UNCHANGED <<pending_messages_, sent, since, lost>>
    BY <1>1, <1>5, ConductorAssumption DEF Write
  <2> QED
    BY <1>1, <2>1, PostKeeps, Zenon
<1>6. CASE UIThreadCallback
  BY <1>6, SendKeepsOrder, ClosedKeepsOrder DEF UIThreadCallback
<1>7. CASE ModalLoop
  BY <1>7, PostsLost
<1>8. CASE UNCHANGED vars
  BY <1>2, <1>8 DEF vars
<1>9. CASE StartLogin \/ DisconnectFromCurrentPeer \/ Escape \/ Close \/ \E id \in Ids : ConnectToPeer(id)
  BY <1>2, <1>9 DEF StartLogin, DisconnectFromCurrentPeer, Escape, Close, ConnectToPeer, Initialized, NotInitialized
<1>10. CASE OnServerAddress \/ OnSignedIn \/ RequestDone \/ OtherConnectionCloses \/ OnDisconnected
  BY <1>2, <1>3, <1>10 DEF OnServerAddress, OnSignedIn, RequestDone, OnMessageSent, SignOutFails, OtherConnectionCloses,
    OnDisconnected, queue
<1>11. ASSUME NEW id \in Ids,
              \/ OnPeerConnected(id) \/ OnPeerDisconnected(id) \/ OnMessageFromPeer(id) \/ OnLoopbackOffer(id)
       PROVE  OrderInv'
  BY <1>2, <1>4, <1>11 DEF OnPeerConnected, OnPeerDisconnected, OnMessageFromPeer, OnLoopbackOffer, Initialized,
    NotInitialized, queue
<1> QED
  BY <1>5, <1>6, <1>7, <1>8, <1>9, <1>10, <1>11 DEF Next, Events

LEMMA OrderHolds == Spec => []OrderInv
BY OrderInit, NextOrders, PTL DEF Spec

\* The members keep their types, and no callback carries what was not written.
THEOREM TypeCorrect == Spec => []TypeOK
<1>1. ConversationInv /\ OrderInv => TypeOK
  BY DEF ConversationInv, OrderInv, QueueTypes, Messages, TypeOK
<1> QED
  BY <1>1, ConversationHolds, OrderHolds, PTL

SentInOrder == Increasing(sent)

\* Messages are sent in the order they were written and none twice, for any
\* number of messages, sessions, conversations and lost callbacks: the comment
\* of UIThreadCallback holds.
THEOREM MessagesStayInOrder == Spec => []SentInOrder
<1>1. OrderInv => SentInOrder
  BY DEF OrderInv, SentInOrder
<1> QED
  BY <1>1, OrderHolds, PTL

-----------------------------------------------------------------------------
(* Waiting messages *)

\* A callback posted last is among those that wait.
LEMMA LastIsPosted ==
  ASSUME posted \in Seq(Callbacks), NEW data \in 0..MaxWritten,
         posted' = Callback("SEND_MESSAGE_TO_PEER", data)
  PROVE  Pumped'
<1> DEFINE c == [id |-> "SEND_MESSAGE_TO_PEER", data |-> data]
<1>1. c \in Callbacks /\ posted' = Append(posted, c)
  BY DEF Callbacks, Callback
<1>2. Len(posted) + 1 \in DOMAIN posted' /\ posted'[Len(posted) + 1] = c
  <2> HIDE DEF c
  <2> QED
    BY <1>1, AppendType
<1> QED
  BY <1>2 DEF Pumped

\* What is posted otherwise takes nothing away.
LEMMA MoreIsPosted ==
  ASSUME posted \in Seq(Callbacks), Pumped, UNCHANGED request,
         posted' = Callback("PEER_CONNECTION_CLOSED", 0)
  PROVE  Pumped'
<1> DEFINE c == [id |-> "PEER_CONNECTION_CLOSED", data |-> 0]
<1>1. c \in Callbacks /\ posted' = Append(posted, c)
  BY ConductorAssumption DEF Callbacks, Callback
<1>2. \A i \in DOMAIN posted : i \in DOMAIN posted' /\ posted'[i] = posted[i]
  <2> HIDE DEF c
  <2> QED
    BY <1>1, AppendType
<1> QED
  BY <1>2 DEF Pumped

\* A new conversation has no waiting messages yet.
LEMMA NoneWaitsYet ==
  ASSUME OrderInv, since' = written, UNCHANGED pending_messages_
  PROVE  ~Waits'
<1>1. pending_messages_ \in Seq(Messages) /\ written \in 0..MaxWritten
  BY DEF OrderInv, QueueTypes
<1>2. \A i \in DOMAIN pending_messages_ : pending_messages_[i] \in Messages
  BY <1>1
<1>3. \A i \in DOMAIN pending_messages_ : ~(pending_messages_[i] > written)
  BY <1>1, <1>2, ConductorAssumption DEF OrderInv, UpTo, Messages
<1> QED
  BY <1>3 DEF Waits

LEMMA SendKeepsPumped ==
  ASSUME ConversationInv, OrderInv, QueuePumped, OnSendMessageToPeer
  PROVE  QueuePumped'
<1> DEFINE pending == Enqueued(Head(posted).data)
<1>1. /\ SendPending(pending) /\ UNCHANGED <<peer_connection_, since, lost>>
  BY DEF OnSendMessageToPeer
<1> HIDE DEF pending
<1>2. CASE pending = <<>>
  BY <1>1, <1>2 DEF SendPending, QueuePumped, Waits
<1>3. CASE pending # <<>> /\ IsSendingMessage
  BY <1>1, <1>3 DEF SendPending, IsSendingMessage, QueuePumped, Pumped, session
<1>4. CASE pending # <<>> /\ ~IsSendingMessage
  <2>1. CASE Sends
    BY <2>1 DEF Sends, CanSend, Send, QueuePumped, Pumped, SessionTypeOK
  <2>2. CASE NotSent(pending)
    <3>1. CASE phase' # "on"
      BY <3>1 DEF QueuePumped
    <3>2. CASE peer_id_ = NoPeer
      BY <1>1, <3>2 DEF QueuePumped, ConversationInv, PeerIsKnown
    <3>3. CASE phase' = "on" /\ peer_id_ # NoPeer
      BY <1>4, <2>2, <3>3 DEF NotSent, CanSend, Silently, End, DisconnectFromServer, SignOut, Leave, SignsOut,
        IsSendingMessage, SignedOn, session
    <3> QED
      BY <3>1, <3>2, <3>3
  <2> QED
    BY <1>1, <1>4, <2>1, <2>2 DEF SendPending
<1> QED
  BY <1>2, <1>3, <1>4

LEMMA NextPumps ==
  ASSUME ConversationInv, OrderInv, QueuePumped, [Next]_vars
  PROVE  QueuePumped'
<1>1. posted \in Seq(Callbacks) /\ written \in 0..MaxWritten /\ 0 \in 0..MaxWritten
  BY ConductorAssumption DEF OrderInv, QueueTypes
<1>2. CASE phase' # "on" \/ ~peer_connection_' \/ lost'
  BY <1>2 DEF QueuePumped
<1>3. CASE posted' = SendNext
  BY <1>1, <1>3, LastIsPosted DEF SendNext, QueuePumped
<1>4. CASE since' = written /\ UNCHANGED pending_messages_
  BY <1>4, NoneWaitsYet DEF QueuePumped
<1>5. CASE request' # "none"
  BY <1>5 DEF QueuePumped, Pumped
<1>6. CASE UNCHANGED <<phase, request, peer_connection_, pending_messages_, posted, since, lost>>
  BY <1>6 DEF QueuePumped, Pumped, Waits
<1>7. CASE UNCHANGED vars
  BY <1>6, <1>7 DEF vars, session, conductor, queue
<1>8. CASE OnSendMessageToPeer
  BY <1>8, SendKeepsPumped
<1>9. CASE OnPeerConnectionClosed
  BY <1>2, <1>9 DEF OnPeerConnectionClosed, DeletePeerConnection
<1>10. CASE StartLogin \/ DisconnectFromCurrentPeer \/ Close \/ ModalLoop
  BY <1>2, <1>10 DEF StartLogin, Join, session, DisconnectFromCurrentPeer, DeletePeerConnection, conductor, Close,
    ModalLoop
<1>11. CASE Escape
  BY <1>2, <1>6, <1>11 DEF Escape, DisconnectFromServer, SignOut, Leave, Silently, End, session, conductor, queue
<1>12. ASSUME NEW id \in Ids, ConnectToPeer(id) \/ OnMessageFromPeer(id) \/ OnLoopbackOffer(id)
       PROVE  QueuePumped'
  BY <1>2, <1>4, <1>6, <1>12 DEF ConnectToPeer, OnMessageFromPeer, OnLoopbackOffer, Initialized, NotInitialized,
    DeletePeerConnection, session, conductor, queue
<1>13. ASSUME NEW id \in Ids, OnPeerConnected(id)
       PROVE  QueuePumped'
  BY <1>6, <1>13 DEF OnPeerConnected, Came, conductor, queue
<1>14. ASSUME NEW id \in Ids, OnPeerDisconnected(id)
       PROVE  QueuePumped'
  <2>1. UNCHANGED <<phase, request, peer_connection_, pending_messages_, since, lost>>
    BY <1>14 DEF OnPeerDisconnected, Left, session, conductor
  <2>2. UNCHANGED posted \/ posted' = Callback("PEER_CONNECTION_CLOSED", 0)
    BY <1>14 DEF OnPeerDisconnected
  <2>3. CASE UNCHANGED posted
    BY <1>6, <2>1, <2>3
  <2>4. CASE posted' = Callback("PEER_CONNECTION_CLOSED", 0)
    <3>1. Pumped => Pumped'
      BY <1>1, <2>1, <2>4, MoreIsPosted
    <3> QED
      BY <2>1, <3>1 DEF QueuePumped, Waits
  <2> QED
    BY <2>2, <2>3, <2>4
<1>15. CASE Write
  <2>1. written + 1 \in 0..MaxWritten /\ posted' = Callback("SEND_MESSAGE_TO_PEER", written + 1)
    BY <1>1, <1>15, ConductorAssumption DEF Write
  <2> QED
    BY <1>1, <2>1, LastIsPosted DEF QueuePumped
<1>16. CASE OnServerAddress \/ OnDisconnected
  BY <1>2, <1>16 DEF OnServerAddress, OnDisconnected, Resolved, Unresolved, DeletePeerConnection
<1>17. CASE OnSignedIn \/ RequestDone \/ OtherConnectionCloses
  BY <1>3, <1>5, <1>17 DEF OnSignedIn, RequestDone, OnMessageSent, SignOutFails, Silently, End, OtherConnectionCloses
<1> QED
  BY <1>7, <1>8, <1>9, <1>10, <1>11, <1>12, <1>13, <1>14, <1>15, <1>16, <1>17 DEF Next, UIThreadCallback, Events

\* While callbacks are not lost, no message of a live conversation is forgotten,
\* for any number of messages, conversations and sessions (UIThreadCallback,
\* OnMessageSent).
THEOREM WaitingIsPumped == Spec => []QueuePumped
<1>1. Init => QueuePumped
  BY DEF Init, QueuePumped
<1>2. ConversationInv /\ OrderInv /\ QueuePumped /\ [Next]_vars => QueuePumped'
  BY NextPumps
<1> QED
  BY <1>1, <1>2, ConversationHolds, OrderHolds, PTL DEF Spec

-----------------------------------------------------------------------------
(* The channel *)

LEMMA SetOfAppended ==
  ASSUME NEW S, NEW s \in Seq(S), NEW x \in S
  PROVE  ToSet(Append(s, x)) = ToSet(s) \cup {x}
<1>1. /\ Len(s) \in Nat /\ DOMAIN s = 1..Len(s) /\ DOMAIN Append(s, x) = 1..(Len(s) + 1)
      /\ \A i \in 1..Len(s) : Append(s, x)[i] = s[i]
      /\ Append(s, x)[Len(s) + 1] = x
  BY AppendProperties, LenProperties
<1>2. \A i \in 1..(Len(s) + 1) : i \in 1..Len(s) \/ i = Len(s) + 1
  BY <1>1
<1> QED
  BY <1>1, <1>2 DEF ToSet

LEMMA SetOfHeadAndTail ==
  ASSUME NEW S, NEW s \in Seq(S), s # <<>>
  PROVE  ToSet(s) = {Head(s)} \cup ToSet(Tail(s))
<1>1. /\ Len(s) \in Nat /\ DOMAIN s = 1..Len(s) /\ 1 \in 1..Len(s) /\ Head(s) = s[1]
      /\ DOMAIN Tail(s) = 1..(Len(s) - 1)
      /\ \A i \in 1..(Len(s) - 1) : Tail(s)[i] = s[i + 1]
  BY HeadTailProperties, LenProperties
<1>2. \A i \in 1..Len(s) : i = 1 \/ (i - 1 \in 1..(Len(s) - 1) /\ (i - 1) + 1 = i)
  BY <1>1
<1>3. \A i \in 1..(Len(s) - 1) : i + 1 \in 1..Len(s)
  BY <1>1
<1>4. ASSUME NEW i \in 1..Len(s)
      PROVE  s[i] \in {Head(s)} \cup ToSet(Tail(s))
  <2>1. CASE i = 1
    BY <1>1, <2>1
  <2>2. CASE i - 1 \in 1..(Len(s) - 1) /\ (i - 1) + 1 = i
    <3>1. Tail(s)[i - 1] = s[i]
      BY <1>1, <2>2
    <3> QED
      BY <1>1, <2>2, <3>1 DEF ToSet
  <2> QED
    BY <1>2, <2>1, <2>2
<1>5. \A i \in 1..(Len(s) - 1) : Tail(s)[i] \in ToSet(s)
  BY <1>1, <1>3 DEF ToSet
<1> QED
  BY <1>1, <1>4, <1>5 DEF ToSet

\* The messages that callbacks carry.
Data(s) == {s[i].data : i \in DOMAIN s} \ {0}
Unsent == ToSet(pending_messages_) \cup Data(posted)

LEMMA DataOfPosted ==
  ASSUME posted \in Seq(Callbacks), NEW data \in 0..MaxWritten,
         NEW id \in {"SEND_MESSAGE_TO_PEER", "PEER_CONNECTION_CLOSED"}, posted' = Callback(id, data)
  PROVE  Data(posted') = Data(posted) \cup ({data} \ {0})
<1> DEFINE c == [id |-> id, data |-> data]
<1>1. c \in Callbacks /\ c.data = data /\ posted' = Append(posted, c)
  BY DEF Callbacks, Callback
<1> HIDE DEF c
<1>2. /\ DOMAIN posted = 1..Len(posted) /\ DOMAIN posted' = 1..(Len(posted) + 1) /\ Len(posted) \in Nat
      /\ posted'[Len(posted) + 1] = c
      /\ \A i \in 1..Len(posted) : posted'[i] = posted[i]
      /\ \A i \in DOMAIN posted' : (i \in DOMAIN posted /\ posted'[i] = posted[i]) \/ posted'[i] = c
  BY <1>1, AppendType
<1>3. Len(posted) + 1 \in DOMAIN posted' /\ \A i \in DOMAIN posted : i \in DOMAIN posted' /\ posted'[i] = posted[i]
  BY <1>2
<1>4. Data(posted') \subseteq Data(posted) \cup ({data} \ {0})
  BY <1>1, <1>2 DEF Data
<1>5. Data(posted) \cup ({data} \ {0}) \subseteq Data(posted')
  <2>1. Data(posted) \subseteq Data(posted')
    BY <1>3 DEF Data
  <2>2. data # 0 => data \in Data(posted')
    BY <1>1, <1>2, <1>3 DEF Data
  <2> QED
    BY <2>1, <2>2
<1> QED
  BY <1>4, <1>5

LEMMA DataOfTaken ==
  ASSUME posted \in Seq(Callbacks), posted # <<>>
  PROVE  Data(posted) = ({Head(posted).data} \ {0}) \cup Data(Tail(posted))
<1>1. /\ Len(posted) \in Nat /\ DOMAIN posted = 1..Len(posted) /\ 1 \in 1..Len(posted)
      /\ Head(posted) = posted[1] /\ DOMAIN Tail(posted) = 1..(Len(posted) - 1)
      /\ \A i \in 1..(Len(posted) - 1) : Tail(posted)[i] = posted[i + 1]
  OBVIOUS
<1>2. \A i \in 1..(Len(posted) - 1) : i + 1 \in 1..Len(posted)
  BY <1>1
<1>3. ASSUME NEW i \in 1..Len(posted)
      PROVE  posted[i] = Head(posted) \/ \E j \in DOMAIN Tail(posted) : posted[i] = Tail(posted)[j]
  <2>1. CASE i = 1
    BY <1>1, <2>1
  <2>2. CASE i # 1
    <3>1. i - 1 \in 1..(Len(posted) - 1) /\ (i - 1) + 1 = i
      BY <1>1, <2>2
    <3> QED
      BY <1>1, <3>1
  <2> QED
    BY <2>1, <2>2
<1>4. Data(posted) \subseteq ({Head(posted).data} \ {0}) \cup Data(Tail(posted))
  BY <1>1, <1>3 DEF Data
<1>5. Data(Tail(posted)) \subseteq Data(posted)
  BY <1>1, <1>2 DEF Data
<1>6. {Head(posted).data} \ {0} \subseteq Data(posted)
  BY <1>1 DEF Data
<1> QED
  BY <1>4, <1>5, <1>6

\* UIThreadCallback sends the oldest message, gives it up, or leaves all waiting.
LEMMA CallbackChannels ==
  ASSUME OrderInv, OnSendMessageToPeer
  PROVE  [Channel!Next]_(Channel!channel)
<1> DEFINE data == Head(posted).data
           pending == Enqueued(data)
           rest == Tail(posted)
<1>1. posted # <<>> /\ posted' = rest /\ written' = written /\ SendPending(pending)
  BY DEF OnSendMessageToPeer
<1>2. /\ pending \in Seq(Messages) /\ Increasing(pending) /\ BelowCarried(pending, rest)
      /\ rest \in Seq(Callbacks)
  BY <1>1, TakenInOrder
<1>3. posted \in Seq(Callbacks) /\ pending_messages_ \in Seq(Messages) /\ sent \in Seq(Messages)
  BY DEF OrderInv, QueueTypes
<1>4. Data(posted) = ({data} \ {0}) \cup Data(rest)
  BY <1>1, <1>3, DataOfTaken
<1>5. ToSet(pending) = ToSet(pending_messages_) \cup ({data} \ {0})
  <2>1. CASE data = 0
    BY <2>1 DEF Enqueued
  <2>2. CASE data # 0
    <3>1. Head(posted) \in Callbacks
      BY <1>1, <1>3
    <3>2. data \in Messages /\ pending = Append(pending_messages_, data)
      BY <2>2, <3>1, ConductorAssumption DEF Callbacks, Messages, Enqueued
    <3>3. ToSet(Append(pending_messages_, data)) = ToSet(pending_messages_) \cup {data}
      BY <1>3, <3>2, SetOfAppended
    <3> HIDE DEF pending, data
    <3>4. {data} \ {0} = {data}
      BY <2>2
    <3> QED
      BY <3>2, <3>3, <3>4
  <2> QED
    BY <2>1, <2>2
<1> HIDE DEF pending, rest, data
<1>6. Unsent = ToSet(pending) \cup Data(rest) /\ Unsent' = ToSet(pending_messages_') \cup Data(rest)
  BY <1>1, <1>4, <1>5 DEF Unsent
<1>7. CASE pending_messages_' = pending /\ sent' = sent
  BY <1>1, <1>6, <1>7 DEF Channel!channel, Unsent, Data
<1>8. ASSUME pending # <<>>, pending_messages_' = Tail(pending)
      PROVE  /\ Head(pending) \in Unsent /\ Unsent' = Unsent \ {Head(pending)}
             /\ \A k \in Unsent : Head(pending) <= k
  <2> DEFINE h == Head(pending)
  <2>1. /\ Len(pending) \in Nat /\ DOMAIN pending = 1..Len(pending) /\ 1 \in DOMAIN pending
        /\ h = pending[1] /\ h \in Messages /\ DOMAIN Tail(pending) = 1..(Len(pending) - 1)
        /\ \A i \in DOMAIN Tail(pending) : i + 1 \in DOMAIN pending /\ Tail(pending)[i] = pending[i + 1] /\ 1 < i + 1
    BY <1>2, <1>8
  <2> HIDE DEF h
  <2>2. ToSet(pending) = {h} \cup ToSet(Tail(pending))
    BY <1>2, <1>8, SetOfHeadAndTail DEF h
  <2>3. \A k \in ToSet(Tail(pending)) : k \in Messages /\ h < k
    <3>1. \A i \in DOMAIN Tail(pending) : h < Tail(pending)[i] /\ Tail(pending)[i] \in Messages
      BY <1>2, <2>1 DEF Increasing
    <3> QED
      BY <3>1 DEF ToSet
  <2>4. \A k \in Data(rest) : k \in Nat /\ h < k
    <3>1. \A i \in DOMAIN rest : rest[i] \in Callbacks
      BY <1>2
    <3>2. \A i \in DOMAIN rest : rest[i].data \in Nat /\ (rest[i].data # 0 => h < rest[i].data)
      BY <2>1, <3>1, <1>2, ConductorAssumption DEF BelowCarried, Callbacks
    <3> QED
      BY <3>2 DEF Data
  <2>5. h \in Nat /\ \A k \in Messages : k \in Nat
    BY <2>1, ConductorAssumption DEF Messages
  <2>6. Unsent = {h} \cup ToSet(Tail(pending)) \cup Data(rest)
    BY <1>6, <2>2
  <2>7. Unsent' = ToSet(Tail(pending)) \cup Data(rest)
    BY <1>6, <1>8
  <2>8. h \notin ToSet(Tail(pending)) \cup Data(rest) /\ \A k \in ToSet(Tail(pending)) \cup Data(rest) : h <= k
    BY <2>3, <2>4, <2>5
  <2>9. h <= h
    BY <2>5
  <2> QED
    BY <2>6, <2>7, <2>8, <2>9 DEF h
<1>9. CASE pending # <<>> /\ pending_messages_' = Tail(pending) /\ sent' = Append(sent, Head(pending))
  <2>1. Channel!Deliver
    BY <1>1, <1>8, <1>9 DEF Channel!Deliver, Unsent, Data
  <2> QED
    BY <2>1 DEF Channel!Next
<1>10. CASE pending # <<>> /\ pending_messages_' = Tail(pending) /\ sent' = sent
  <2>1. Unsent' \in SUBSET Unsent
    BY <1>8, <1>10
  <2>2. Channel!Lose
    BY <1>1, <1>10, <2>1 DEF Channel!Lose, Unsent, Data
  <2> QED
    BY <2>2 DEF Channel!Next
<1>11. \/ pending_messages_' = pending /\ sent' = sent
       \/ pending # <<>> /\ pending_messages_' = Tail(pending) /\ sent' = Append(sent, Head(pending))
       \/ pending # <<>> /\ pending_messages_' = Tail(pending) /\ sent' = sent
  BY <1>1 DEF SendPending, NotSent
<1> QED
  BY <1>7, <1>9, <1>10, <1>11

LEMMA NextChannels ==
  ASSUME OrderInv, [Next]_vars
  PROVE  [Channel!Next]_(Channel!channel)
<1>1. posted \in Seq(Callbacks) /\ 0 \in 0..MaxWritten
  BY ConductorAssumption DEF OrderInv, QueueTypes
<1>2. CASE UNCHANGED <<queue, written>>
  BY <1>2 DEF queue, Channel!channel
<1>3. ASSUME NEW id \in {"SEND_MESSAGE_TO_PEER", "PEER_CONNECTION_CLOSED"}, posted' = Callback(id, 0),
             UNCHANGED <<pending_messages_, sent, written>>
      PROVE  UNCHANGED Channel!channel
  <2>1. Data(posted') = Data(posted)
    BY <1>1, <1>3, DataOfPosted
  <2> QED
    BY <1>3, <2>1 DEF Channel!channel, Data
<1>4. CASE Write
  <2>1. /\ written < MaxWritten /\ written' = written + 1 /\ UNCHANGED <<pending_messages_, sent>>
        /\ posted' = Callback("SEND_MESSAGE_TO_PEER", written + 1)
    BY <1>4 DEF Write
  <2>2. written + 1 \in 0..MaxWritten /\ written + 1 # 0
    BY <2>1, ConductorAssumption DEF OrderInv, QueueTypes
  <2>3. Data(posted') = Data(posted) \cup {written + 1}
    BY <1>1, <2>1, <2>2, DataOfPosted
  <2>4. Unsent' = Unsent \cup {written + 1}
    BY <2>1, <2>3 DEF Unsent
  <2>5. Channel!Write
    BY <2>1, <2>4 DEF Channel!Write, Unsent, Data
  <2> QED
    BY <2>5 DEF Channel!Next
<1>5. CASE OnSendMessageToPeer
  BY <1>5, CallbackChannels
<1>6. CASE OnPeerConnectionClosed
  <2>1. posted # <<>> /\ posted' = Tail(posted) /\ UNCHANGED <<pending_messages_, sent, written>>
    BY <1>6 DEF OnPeerConnectionClosed
  <2>2. Data(posted) = ({Head(posted).data} \ {0}) \cup Data(posted')
    BY <1>1, <2>1, DataOfTaken
  <2>3. Unsent' \in SUBSET Unsent
    BY <2>1, <2>2 DEF Unsent
  <2>4. Channel!Lose
    BY <2>1, <2>3 DEF Channel!Lose, Unsent, Data
  <2> QED
    BY <2>4 DEF Channel!Next
<1>7. CASE ModalLoop
  <2>1. posted' = <<>> /\ UNCHANGED <<pending_messages_, sent, written>>
    BY <1>7 DEF ModalLoop
  <2>2. Data(posted') = {}
    BY <2>1 DEF Data
  <2>3. Unsent' \in SUBSET Unsent
    BY <2>1, <2>2 DEF Unsent
  <2>4. Channel!Lose
    BY <2>1, <2>3 DEF Channel!Lose, Unsent, Data
  <2> QED
    BY <2>4 DEF Channel!Next
<1>8. CASE StartLogin \/ DisconnectFromCurrentPeer \/ Escape \/ Close \/ (\E id \in Ids : ConnectToPeer(id))
           \/ UNCHANGED vars
  BY <1>2, <1>8 DEF StartLogin, DisconnectFromCurrentPeer, Escape, Close, ConnectToPeer, vars
<1>9. CASE OnServerAddress \/ OnSignedIn \/ RequestDone \/ OtherConnectionCloses \/ OnDisconnected
  BY <1>2, <1>3, <1>9 DEF OnServerAddress, OnSignedIn, RequestDone, OnMessageSent, SignOutFails, OtherConnectionCloses,
    OnDisconnected, SendNext, queue
<1>10. ASSUME NEW id \in Ids,
              \/ OnPeerConnected(id) \/ OnPeerDisconnected(id) \/ OnMessageFromPeer(id) \/ OnLoopbackOffer(id)
       PROVE  [Channel!Next]_(Channel!channel)
  BY <1>2, <1>3, <1>10 DEF OnPeerConnected, OnPeerDisconnected, OnMessageFromPeer, OnLoopbackOffer, queue
<1> QED
  BY <1>4, <1>5, <1>6, <1>7, <1>8, <1>9, <1>10 DEF Next, UIThreadCallback, Events

\* The native client implements the channel, for any number of peers, messages
\* and posted callbacks: SendToPeer accepts the oldest message that waits, and
\* none that a failed request or a lost callback has given up (UIThreadCallback).
THEOREM ConductorImplementsChannel == Spec => ImplementsChannel
<1>1. Init => Channel!Init
  <2> SUFFICES ASSUME Init
               PROVE  Channel!Init
    OBVIOUS
  <2>1. pending_messages_ = <<>> /\ posted = <<>> /\ sent = <<>> /\ written = 0
    BY DEF Init
  <2>2. Data(posted) = {} /\ ToSet(pending_messages_) = {}
    BY <2>1 DEF Data, ToSet
  <2> QED
    BY <2>1, <2>2 DEF Channel!Init, Data
<1>2. OrderInv /\ [Next]_vars => [Channel!Next]_(Channel!channel)
  BY NextChannels
<1> QED
  BY <1>1, <1>2, OrderHolds, PTL DEF Spec, ImplementsChannel, Channel!Spec

-----------------------------------------------------------------------------
(* The session below *)

LEMMA SignOutUsesSession ==
  ASSUME SignOut \/ DisconnectFromServer \/ Sends \/ DoesNotSend \/ Silently
  PROVE  [SessionNext]_session
BY DEF SignOut, DisconnectFromServer, Sends, DoesNotSend, Silently, SessionNext

LEMMA SendPendingUsesSession ==
  ASSUME NEW pending, SendPending(pending)
  PROVE  [SessionNext]_session
BY SignOutUsesSession DEF SendPending, NotSent

\* Whatever the user, the peers and the callbacks do, the conductor takes only
\* steps of SignallingSession: with ClientImplementsSession, what is proved of it
\* rests on the client that is shipped (conductor.cpp:100-734).
THEOREM ConductorUsesSession == Spec => SessionSpec
<1>1. Init => SessionInit
  BY DEF Init
<1>2. [Next]_vars => [SessionNext]_session
  <2> SUFFICES ASSUME [Next]_vars
               PROVE  [SessionNext]_session
    OBVIOUS
  <2>1. CASE UNCHANGED vars
    BY <2>1 DEF vars
  <2>2. CASE StartLogin \/ DisconnectFromCurrentPeer \/ Escape \/ Close \/ ModalLoop \/ \E id \in Ids : ConnectToPeer(id)
    <3>1. \/ Join \/ UNCHANGED session
          \/ SignOut \/ DisconnectFromServer \/ Sends \/ DoesNotSend
      BY <2>2 DEF StartLogin, DisconnectFromCurrentPeer, Escape, Close, ModalLoop, ConnectToPeer
    <3> QED
      BY <3>1, SignOutUsesSession DEF SessionNext
  <2>3. CASE UIThreadCallback
    <3>1. CASE OnSendMessageToPeer
      BY <3>1, SendPendingUsesSession DEF OnSendMessageToPeer
    <3>2. CASE OnPeerConnectionClosed
      BY <3>2, SignOutUsesSession DEF OnPeerConnectionClosed
    <3> QED
      BY <2>3, <3>1, <3>2 DEF UIThreadCallback
  <2>4. CASE OnServerAddress \/ OnSignedIn \/ RequestDone \/ OtherConnectionCloses \/ OnDisconnected \/ Write
    BY <2>4, SignOutUsesSession
    DEF OnServerAddress, OnSignedIn, RequestDone, SignOutFails, OtherConnectionCloses, OnDisconnected, Write, SessionNext
  <2>5. ASSUME NEW id \in Ids,
               OnPeerConnected(id) \/ OnPeerDisconnected(id) \/ OnMessageFromPeer(id) \/ OnLoopbackOffer(id)
        PROVE  [SessionNext]_session
    <3>1. Came(id) \/ Left(id) \/ UNCHANGED session \/ SignOut
      BY <2>5 DEF OnPeerConnected, OnPeerDisconnected, OnMessageFromPeer, OnLoopbackOffer
    <3> QED
      BY <3>1, SignOutUsesSession DEF SessionNext
  <2> QED
    BY <2>1, <2>2, <2>3, <2>4, <2>5 DEF Next, Events
<1> QED
  BY <1>1, <1>2, PTL DEF Spec, SessionSpec
=============================================================================
