----------------------- MODULE MultiPeerConductorProofs -----------------------
(***************************************************************************)
(* Proofs about MultiPeerConductor, for all values of its constants: the   *)
(* types, and the slots.                                                   *)
(***************************************************************************)
EXTENDS MultiPeerConductor, FiniteSetTheorems, SequenceTheorems, TLAPS

USE DEF session, slots, queue, sending

\* The three parts of the type invariant.
PeersTypeOK ==
  /\ connected_peers_ \subseteq Ids
  /\ connected_peer_states_ \subseteq Ids
  /\ cur_capacity_ \in Values \cup {-1}
  /\ peer_factory_ \in BOOLEAN
  /\ ice \in [Ids -> IceStates]
  /\ listed \subseteq Ids
  /\ published \in Values \cup {NoValue}
  /\ describing \subseteq Ids
  /\ crashed \in BOOLEAN

QueueTypeOK ==
  /\ message_queue_ \in Seq(1..MaxWritten)
  /\ posted \in Nat
  /\ should_process_queue_ \in BOOLEAN
  /\ written \in 0..MaxWritten
  /\ carried \in Seq(1..MaxWritten)
  /\ received \in Seq(1..MaxWritten)

LEMMA TypeOKParts ==
  /\ TypeOK <=> SessionTypeOK /\ PeersTypeOK /\ QueueTypeOK
  /\ TypeOK' <=> SessionTypeOK' /\ PeersTypeOK' /\ QueueTypeOK'
BY DEF TypeOK, PeersTypeOK, QueueTypeOK

LEMMA TypeInit == Init => TypeOK
<1> SUFFICES ASSUME Init PROVE TypeOK
  OBVIOUS
<1>1. SessionTypeOK
  BY DEF Init, SessionInit, SessionTypeOK, Phases, Over, Updates
<1>2. cur_capacity_ \in Values \cup {-1}
  BY SystemCapacityAssumption, ValuesAssumption DEF Init, max_capacity_
<1>3. peer_factory_ \in BOOLEAN /\ crashed \in BOOLEAN
  BY DEF Init
<1>4. PeersTypeOK
  BY <1>2, <1>3 DEF Init, PeersTypeOK, IceStates
<1>5. should_process_queue_ \in BOOLEAN
  BY DEF Init
<1>6. QueueTypeOK
  BY <1>5, ConfigurationAssumption DEF Init, QueueTypeOK
<1>7. QED
  BY <1>1, <1>4, <1>6, TypeOKParts

-----------------------------------------------------------------------------
(* The session *)

LEMMA UpdatedType ==
  ASSUME SessionTypeOK, NEW v \in Values, Updated(v)
  PROVE  update' \in Updates /\ value' \in Values \cup {NoValue}
BY DEF SessionTypeOK, Updated, Updates, Over

LEMMA EndType == End => SessionTypeOK'
BY DEF End, SessionTypeOK, Phases, Over, Updates

LEMMA SessionStepsType ==
  ASSUME SessionTypeOK,
         \/ Join \/ Send \/ Resolved \/ Unresolved \/ Answered
         \/ CapacitySent \/ CapacityDone \/ End
         \/ \E id \in Ids : Came(id) \/ Left(id)
         \/ UNCHANGED session
  PROVE  SessionTypeOK'
<1>1. CASE Join
  BY <1>1 DEF Join, SessionTypeOK, Phases, Over, Asked
<1>2. CASE Send
  BY <1>2 DEF Send, SessionTypeOK, Asked
<1>3. CASE Resolved \/ Unresolved
  BY <1>3 DEF Resolved, Unresolved, SessionTypeOK, Phases, Asked
<1>4. CASE Answered
  BY <1>4 DEF Answered, SessionTypeOK, Over, Asked
<1>5. CASE CapacitySent \/ CapacityDone
  BY <1>5 DEF CapacitySent, CapacityDone, SessionTypeOK, Over, Updates
<1>6. CASE End
  BY <1>6, EndType
<1>7. CASE \E id \in Ids : Came(id) \/ Left(id)
  BY <1>7 DEF Came, Left, SessionTypeOK
<1>8. CASE UNCHANGED session
  BY <1>8 DEF SessionTypeOK
<1>9. QED
  BY <1>1, <1>2, <1>3, <1>4, <1>5, <1>6, <1>7, <1>8

LEMMA JoinedType ==
  ASSUME SessionTypeOK, Joined
  PROVE  SessionTypeOK'
<1>1. phase' \in Phases /\ peers' \subseteq Ids /\ request' \in Over \cup Asked
  BY DEF Joined, SessionTypeOK, Phases
<1>2. update' \in Updates /\ value' \in Values \cup {NoValue}
  BY UpdatedType DEF Joined, SessionTypeOK
<1>3. QED
  BY <1>1, <1>2 DEF SessionTypeOK

-----------------------------------------------------------------------------
(* Peers *)

LEMMA AllocateType ==
  ASSUME PeersTypeOK, NEW ps \in SUBSET Ids, NEW described \in SUBSET Ids,
         Allocate(ps, described)
  PROVE  /\ connected_peers_' \subseteq Ids
         /\ ice' \in [Ids -> IceStates]
         /\ describing' \subseteq Ids
         /\ crashed' \in BOOLEAN
BY DEF Allocate, PeersTypeOK, IceStates

LEMMA CallType ==
  ASSUME PeersTypeOK, NEW ps \in SUBSET Ids, Call(ps)
  PROVE  /\ connected_peers_' \subseteq Ids
         /\ ice' \in [Ids -> IceStates]
         /\ describing' \subseteq Ids
         /\ crashed' \in BOOLEAN
BY AllocateType DEF Call, Called

LEMMA AutoCalledType ==
  ASSUME PeersTypeOK, NEW ps \in SUBSET Ids, AutoCalled(ps)
  PROVE  /\ connected_peers_' \subseteq Ids
         /\ ice' \in [Ids -> IceStates]
         /\ describing' \subseteq Ids
         /\ crashed' \in BOOLEAN
BY CallType DEF AutoCalled

LEMMA SignInType ==
  ASSUME TypeOK, OnSignedIn \/ SignedInWithoutId
  PROVE  TypeOK'
<1>1. SessionTypeOK'
  BY JoinedType DEF OnSignedIn, SignedInWithoutId, TypeOK
<1>2. CASE OnSignedIn
  <2>1. peers' \subseteq Ids
    BY <1>1 DEF SessionTypeOK
  <2>2. PICK present \in SUBSET Ids : AutoCalled(present)
    BY <1>2 DEF OnSignedIn
  <2>3. PeersTypeOK'
    BY <1>2, <2>1, <2>2, AutoCalledType, TypeOKParts DEF OnSignedIn, PeersTypeOK, Refresh
  <2>4. should_process_queue_' \in BOOLEAN
    BY <1>2 DEF OnSignedIn
  <2>5. QueueTypeOK'
    BY <1>2, <2>4, TypeOKParts DEF OnSignedIn, QueueTypeOK
  <2>6. QED
    BY <1>1, <2>3, <2>5, TypeOKParts
<1>3. CASE SignedInWithoutId
  BY <1>1, <1>3, TypeOKParts DEF SignedInWithoutId, PeersTypeOK, QueueTypeOK
<1>4. QED
  BY <1>2, <1>3

LEMMA ArrivalType ==
  ASSUME QueueTypeOK, Arrives(carried) \/ Vanishes
  PROVE  carried' \in Seq(1..MaxWritten) /\ received' \in Seq(1..MaxWritten)
<1>1. received \o carried \in Seq(1..MaxWritten)
  BY ConcatProperties DEF QueueTypeOK
<1>2. <<>> \in Seq(1..MaxWritten)
  BY EmptySeq
<1>3. carried' = <<>> /\ received' \in {received \o carried, received}
  BY DEF Arrives, Vanishes
<1>4. QED
  BY <1>1, <1>2, <1>3 DEF QueueTypeOK

LEMMA SessionEventsType ==
  ASSUME TypeOK,
         \/ StartLogin \/ SignInSent \/ OnDisconnected \/ OnServerConnectionFailure
         \/ RequestDone \/ CapacityPublished \/ CapacityAnswered
  PROVE  TypeOK'
<1>1. SessionTypeOK'
  BY SessionStepsType, TypeOKParts
     DEF StartLogin, SignInSent, OnDisconnected, OnServerConnectionFailure,
         RequestDone, CapacityPublished, CapacityAnswered
<1>2. PeersTypeOK'
  BY TypeOKParts
     DEF PeersTypeOK, SessionTypeOK, StartLogin, SignInSent, OnDisconnected,
         OnServerConnectionFailure, RequestDone, CapacityPublished, CapacityAnswered
<1>3. QueueTypeOK'
  <2>1. CASE OnDisconnected \/ RequestDone
    BY <2>1, ArrivalType, TypeOKParts DEF OnDisconnected, RequestDone, QueueTypeOK
  <2>2. CASE \/ StartLogin \/ SignInSent \/ OnServerConnectionFailure
             \/ CapacityPublished \/ CapacityAnswered
    BY <2>2, TypeOKParts
       DEF QueueTypeOK, StartLogin, SignInSent, OnServerConnectionFailure,
           CapacityPublished, CapacityAnswered
  <2>3. QED
    BY <2>1, <2>2
<1>4. QED
  BY <1>1, <1>2, <1>3, TypeOKParts

LEMMA PeerEventsType ==
  ASSUME TypeOK, NEW p \in Ids,
         \/ OnPeerConnected(p) \/ OnPeerDisconnected(p) \/ OnMessageFromPeer(p)
         \/ ConnectToPeer(p)
  PROVE  TypeOK'
<1>1. SessionTypeOK'
  BY SessionStepsType, TypeOKParts
     DEF OnPeerConnected, OnPeerDisconnected, OnMessageFromPeer, ConnectToPeer
<1>2. QueueTypeOK'
  BY TypeOKParts
     DEF QueueTypeOK, OnPeerConnected, OnPeerDisconnected, OnMessageFromPeer, ConnectToPeer
<1>3. PeersTypeOK'
  <2>1. CASE OnPeerConnected(p)
    BY <1>1, <2>1, AutoCalledType, TypeOKParts
       DEF OnPeerConnected, PeersTypeOK, SessionTypeOK, Refresh
  <2>2. CASE OnPeerDisconnected(p)
    BY <2>2, TypeOKParts DEF OnPeerDisconnected, PeersTypeOK, IceStates
  <2>3. CASE OnMessageFromPeer(p)
    BY <2>3, AllocateType, TypeOKParts DEF OnMessageFromPeer, PeersTypeOK
  <2>4. CASE ConnectToPeer(p)
    <3>1. CASE Call({p})
      BY <2>4, <3>1, CallType, TypeOKParts DEF ConnectToPeer, PeersTypeOK
    <3>2. CASE crashed' = TRUE /\ UNCHANGED <<connected_peers_, ice, describing>>
      BY <2>4, <3>2, TypeOKParts DEF ConnectToPeer, PeersTypeOK
    <3>3. QED
      BY <2>4, <3>1, <3>2 DEF ConnectToPeer
  <2>5. QED
    BY <2>1, <2>2, <2>3, <2>4
<1>4. QED
  BY <1>1, <1>2, <1>3, TypeOKParts

\* The counter of free slots stays among the capacities.
LEMMA CounterType ==
  ASSUME cur_capacity_ \in Values \cup {-1}, NEW p,
         PeerConnected(p) \/ PeerDisconnected(p)
  PROVE  /\ cur_capacity_' \in Values \cup {-1}
         /\ cur_capacity_ > -1 => cur_capacity_' \in Values
BY SystemCapacityAssumption, ValuesAssumption
   DEF PeerConnected, PeerDisconnected, Taken, Freed, max_capacity_

LEMMA IceType ==
  ASSUME TypeOK, NEW p \in Ids, NEW new_state \in IceStates,
         OnIceConnectionChange(p, new_state)
  PROVE  TypeOK'
<1>1. QueueTypeOK'
  BY TypeOKParts DEF OnIceConnectionChange, QueueTypeOK
<1>2. phase' \in Phases /\ request' \in Over \cup Asked /\ peers' \subseteq Ids
  BY DEF OnIceConnectionChange, TypeOK, SessionTypeOK
<1>3. CASE UNCHANGED <<update, value, slots>>
  BY <1>1, <1>2, <1>3, TypeOKParts
     DEF OnIceConnectionChange, PeersTypeOK, SessionTypeOK, IceStates, Refresh
<1>4. CASE (PeerConnected(p) \/ PeerDisconnected(p)) /\ Publish
  <2>1. connected_peer_states_' \subseteq Ids
    BY <1>4 DEF PeerConnected, PeerDisconnected, TypeOK
  <2>2. /\ cur_capacity_' \in Values \cup {-1}
        /\ cur_capacity_ > -1 => cur_capacity_' \in Values
    BY <1>4, CounterType DEF TypeOK
  <2>3. update' \in Updates /\ value' \in Values \cup {NoValue}
    BY <1>4, <2>2, UpdatedType DEF Publish, TypeOK, SessionTypeOK
  <2>4. PeersTypeOK'
    BY <1>2, <2>1, <2>2, TypeOKParts
       DEF OnIceConnectionChange, PeersTypeOK, IceStates, Refresh
  <2>5. QED
    BY <1>1, <1>2, <2>3, <2>4, TypeOKParts DEF SessionTypeOK
<1>5. QED
  BY <1>3, <1>4 DEF OnIceConnectionChange

LEMMA CloseType ==
  ASSUME TypeOK, Close
  PROVE  TypeOK'
BY DEF Close, TypeOK, SessionTypeOK, IceStates

LEMMA WriteType ==
  ASSUME TypeOK, NEW p \in Ids, Write(p)
  PROVE  TypeOK'
<1>1. written + 1 \in 1..MaxWritten
  BY ConfigurationAssumption DEF Write, TypeOK
<1>2. QueueTypeOK'
  BY <1>1, TypeOKParts DEF Write, QueueTypeOK
<1>3. QED
  BY <1>2, TypeOKParts DEF Write, SessionTypeOK, PeersTypeOK

\* The queue while the conductor is sending.
LEMMA PumpType ==
  ASSUME TypeOK, Pump
  PROVE  TypeOK'
<1>1. SessionTypeOK'
  BY SessionStepsType, TypeOKParts DEF Pump, SendSucceeds, SendFails
<1>2. PeersTypeOK'
  BY TypeOKParts DEF Pump, SendSucceeds, SendFails, PeersTypeOK, SessionTypeOK
<1>3. posted' = posted - 1 \/ posted' = posted
  <2>1. posted' = posted - 1 \/ Repost
    BY DEF Pump
  <2>2. posted - 1 + 1 = posted /\ posted - 1 + 0 = posted - 1
    BY DEF TypeOK
  <2>3. QED
    BY <2>1, <2>2 DEF Repost
<1>4. posted' \in Nat
  BY <1>3 DEF Pump, TypeOK
<1>5. message_queue_' \in Seq(1..MaxWritten) /\ carried' \in Seq(1..MaxWritten)
  <2>1. CASE UNCHANGED <<message_queue_, carried>>
    BY <2>1 DEF TypeOK
  <2>2. CASE /\ message_queue_ # <<>>
             /\ message_queue_' = Tail(message_queue_)
             /\ carried' = <<Head(message_queue_)>>
    <3>1. Head(message_queue_) \in 1..MaxWritten /\ Tail(message_queue_) \in Seq(1..MaxWritten)
      BY <2>2, HeadTailProperties DEF TypeOK
    <3>2. QED
      BY <2>2, <3>1
  <2>3. QED
    BY <2>1, <2>2 DEF Pump, SendSucceeds, SendFails, Drain
<1>6. received' = received
  BY DEF Pump, SendSucceeds, SendFails
<1>7. QueueTypeOK'
  BY <1>4, <1>5, <1>6, TypeOKParts DEF Pump, QueueTypeOK
<1>8. QED
  BY <1>1, <1>2, <1>7, TypeOKParts

\* Every reachable state of the conductor is well typed; in particular the
\* counter of free slots never leaves its range (multi_peer_conductor.cpp:76, 89).
LEMMA TypeNext == TypeOK /\ [Next]_vars => TypeOK'
<1> SUFFICES ASSUME TypeOK, [Next]_vars PROVE TypeOK'
  OBVIOUS
<1>1. CASE Next
  BY <1>1, SignInType, SessionEventsType, PeerEventsType, IceType, CloseType, WriteType, PumpType
     DEF Next
<1>2. CASE UNCHANGED vars
  BY <1>2 DEF vars, TypeOK, SessionTypeOK
<1>3. QED
  BY <1>1, <1>2

THEOREM TypeCorrect == Spec => []TypeOK
BY TypeInit, TypeNext, PTL DEF Spec

-----------------------------------------------------------------------------
(* Slots.  Only an ICE change touches them; what else happens to the peer     *)
(* connections adds no streaming peer.                                        *)

LEMMA AllocateStreaming ==
  ASSUME ice \in [Ids -> IceStates], NEW ps \in SUBSET Ids, NEW described,
         connected_peers_ \subseteq Ids, Allocate(ps, described)
  PROVE  Streaming' \subseteq Streaming
BY DEF Allocate, Streaming

\* The steps that are not ICE changes.
Elsewhere ==
  \/ StartLogin \/ SignInSent \/ OnSignedIn \/ SignedInWithoutId
  \/ OnDisconnected \/ OnServerConnectionFailure
  \/ \E p \in Ids :
       \/ OnPeerConnected(p) \/ OnPeerDisconnected(p) \/ OnMessageFromPeer(p)
       \/ ConnectToPeer(p) \/ Write(p)
  \/ Close
  \/ Pump \/ RequestDone \/ CapacityPublished \/ CapacityAnswered
  \/ UNCHANGED vars

LEMMA NextParts ==
  [Next]_vars =>
    \/ Elsewhere
    \/ \E p \in Ids, new_state \in IceStates : OnIceConnectionChange(p, new_state)
BY DEF Next, Elsewhere

LEMMA ElsewhereKeepsSlots == Elsewhere => UNCHANGED slots
BY DEF Elsewhere, StartLogin, SignInSent, OnSignedIn, SignedInWithoutId, OnDisconnected,
       OnServerConnectionFailure, OnPeerConnected, OnPeerDisconnected, OnMessageFromPeer,
       ConnectToPeer, Write, Close, Pump, RequestDone, CapacityPublished, CapacityAnswered,
       vars

LEMMA ElsewhereStreaming ==
  ASSUME TypeOK, TypeOK', Elsewhere
  PROVE  Streaming' \subseteq Streaming
<1>1. ice \in [Ids -> IceStates] /\ connected_peers_ \subseteq Ids
  BY DEF TypeOK
<1>2. ASSUME NEW ps \in SUBSET Ids, AutoCalled(ps)
      PROVE  Streaming' \subseteq Streaming
  BY <1>1, <1>2, AllocateStreaming DEF AutoCalled, Call, Called
<1>3. CASE OnSignedIn
  BY <1>2, <1>3 DEF OnSignedIn
<1>4. ASSUME NEW p \in Ids,
             \/ OnPeerConnected(p) \/ OnPeerDisconnected(p) \/ OnMessageFromPeer(p)
             \/ ConnectToPeer(p) \/ Write(p)
      PROVE  Streaming' \subseteq Streaming
  <2>1. CASE OnPeerConnected(p)
    BY <1>2, <2>1 DEF OnPeerConnected
  <2>2. CASE OnPeerDisconnected(p)
    BY <1>1, <2>2 DEF OnPeerDisconnected, Streaming
  <2>3. CASE OnMessageFromPeer(p)
    BY <1>1, <2>3, AllocateStreaming DEF OnMessageFromPeer
  <2>4. CASE ConnectToPeer(p)
    <3>1. CASE Call({p})
      BY <1>1, <3>1, AllocateStreaming DEF Call, Called
    <3>2. CASE UNCHANGED <<connected_peers_, ice>>
      BY <3>2 DEF Streaming
    <3>3. QED
      BY <2>4, <3>1, <3>2 DEF ConnectToPeer
  <2>5. CASE Write(p)
    BY <2>5 DEF Write, Streaming
  <2>6. QED
    BY <1>4, <2>1, <2>2, <2>3, <2>4, <2>5
<1>5. CASE Close
  BY <1>5 DEF Close, Streaming
<1>6. CASE UNCHANGED <<connected_peers_, ice>>
  BY <1>6 DEF Streaming
<1>7. QED
  BY <1>3, <1>4, <1>5, <1>6
     DEF Elsewhere, StartLogin, SignInSent, SignedInWithoutId, OnDisconnected,
         OnServerConnectionFailure, Pump, RequestDone, CapacityPublished,
         CapacityAnswered, vars

\* What an ICE change does to the slots and the streaming peers.
LEMMA IceStep ==
  ASSUME TypeOK, StreamingIsCounted, NEW p \in Ids, NEW new_state \in IceStates,
         OnIceConnectionChange(p, new_state)
  PROVE  /\ Streaming' \subseteq connected_peer_states_'
         /\ \/ UNCHANGED slots
            \/ PeerConnected(p) /\ p \notin connected_peer_states_
            \/ PeerDisconnected(p) /\ p \in connected_peer_states_
<1>1. /\ p \in connected_peers_ /\ UNCHANGED connected_peers_
      /\ new_state \in IceNext[ice[p]]
      /\ ice' = [ice EXCEPT ![p] = new_state]
      /\ ice \in [Ids -> IceStates] /\ connected_peers_ \subseteq Ids
  BY DEF OnIceConnectionChange, TypeOK
<1>2. Streaming' \subseteq Streaming \cup {p}
  BY <1>1 DEF Streaming
<1>3. CASE new_state = "connected" /\ Known(p, new_state) /\ UNCHANGED slots
  BY <1>2, <1>3 DEF Known, StreamingIsCounted
<1>4. CASE new_state = "connected" /\ ~Known(p, new_state) /\ PeerConnected(p)
  BY <1>2, <1>4 DEF Known, PeerConnected, StreamingIsCounted
<1>5. CASE new_state = "disconnected" /\ PeerDisconnected(p)
  <2>1. ice[p] \in {"connected", "completed"}
    BY <1>1, <1>5 DEF IceNext, IceStates
  <2>2. p \in connected_peer_states_
    BY <1>1, <2>1 DEF Streaming, StreamingIsCounted
  <2>3. p \notin Streaming'
    BY <1>1, <1>5 DEF Streaming
  <2>4. QED
    BY <1>2, <1>5, <2>2, <2>3 DEF PeerDisconnected, StreamingIsCounted
<1>6. CASE new_state \in {"completed", "failed"} /\ UNCHANGED slots
  <2>1. new_state = "completed" => ice[p] = "connected"
    BY <1>1 DEF IceNext, IceStates
  <2>2. Streaming' \subseteq Streaming
    BY <1>1, <1>6, <2>1 DEF Streaming
  <2>3. QED
    BY <1>6, <2>2 DEF StreamingIsCounted
<1>7. QED
  BY <1>3, <1>4, <1>5, <1>6 DEF OnIceConnectionChange, Known

LEMMA CountedInit == Init => StreamingIsCounted
BY DEF Init, StreamingIsCounted, Streaming

LEMMA CountedNext ==
  ASSUME TypeOK, TypeOK', StreamingIsCounted, [Next]_vars
  PROVE  StreamingIsCounted'
<1>1. CASE Elsewhere
  BY <1>1, ElsewhereKeepsSlots, ElsewhereStreaming DEF StreamingIsCounted
<1>2. CASE \E p \in Ids, new_state \in IceStates : OnIceConnectionChange(p, new_state)
  BY <1>2, IceStep DEF StreamingIsCounted
<1>3. QED
  BY <1>1, <1>2, NextParts

\* A peer that streams is recorded, so its end frees a slot
\* (multi_peer_conductor.cpp:61-92): for any number of peers and slots.
THEOREM StreamingPeersAreCounted == Spec => []StreamingIsCounted
<1>1. TypeOK /\ TypeOK' /\ StreamingIsCounted /\ [Next]_vars => StreamingIsCounted'
  BY CountedNext
<1>2. QED
  BY <1>1, CountedInit, TypeCorrect, PTL DEF Spec

LEMMA SlotsInit ==
  ASSUME SystemCapacity > 0, Init
  PROVE  SlotsConserved
BY FS_EmptySet, SystemCapacityAssumption DEF Init, SlotsConserved, max_capacity_

LEMMA SlotsNext ==
  ASSUME IsFiniteSet(Ids), Cardinality(Ids) <= SystemCapacity, SystemCapacity > 0,
         TypeOK, StreamingIsCounted, SlotsConserved, [Next]_vars
  PROVE  SlotsConserved'
<1>1. CASE UNCHANGED slots
  BY <1>1 DEF SlotsConserved, max_capacity_
<1>2. ASSUME NEW p \in Ids, NEW new_state \in IceStates, OnIceConnectionChange(p, new_state)
      PROVE  SlotsConserved'
  <2> DEFINE recorded == connected_peer_states_
  <2>1. /\ max_capacity_ = SystemCapacity /\ SystemCapacity \in Nat
        /\ recorded \subseteq Ids
    BY SystemCapacityAssumption DEF max_capacity_, TypeOK
  <2>2. /\ IsFiniteSet(recorded) /\ Cardinality(recorded) \in Nat
        /\ Cardinality(Ids) \in Nat
        /\ cur_capacity_ + Cardinality(recorded) = SystemCapacity
        /\ cur_capacity_ \in Int
    BY <2>1, FS_Subset, FS_CardinalityType, ValuesAssumption DEF SlotsConserved, TypeOK
  <2>3. CASE PeerConnected(p) /\ p \notin recorded
    <3>1. IsFiniteSet(recorded \cup {p}) /\ Cardinality(recorded \cup {p}) = Cardinality(recorded) + 1
      BY <2>2, <2>3, FS_AddElement
    <3>2. Cardinality(recorded \cup {p}) <= Cardinality(Ids)
      BY <2>1, FS_Subset
    <3>3. cur_capacity_ >= 1
      BY <2>1, <2>2, <3>1, <3>2
    <3>4. cur_capacity_' = cur_capacity_ - 1 /\ connected_peer_states_' = recorded \cup {p}
      BY <2>2, <2>3, <3>3 DEF PeerConnected, Taken
    <3>5. QED
      BY <2>1, <2>2, <3>1, <3>4 DEF SlotsConserved, max_capacity_
  <2>4. CASE PeerDisconnected(p) /\ p \in recorded
    <3>1. Cardinality(recorded \ {p}) = Cardinality(recorded) - 1
      BY <2>2, <2>4, FS_RemoveElement
    <3>2. Cardinality(recorded) # 0
      BY <2>2, <2>4, FS_EmptySet
    <3>3. Cardinality(recorded) <= Cardinality(Ids)
      BY <2>1, FS_Subset
    <3>4. cur_capacity_ > -1 /\ cur_capacity_ < max_capacity_
      BY <2>1, <2>2, <3>2, <3>3
    <3>5. cur_capacity_' = cur_capacity_ + 1 /\ connected_peer_states_' = recorded \ {p}
      BY <2>4, <3>4 DEF PeerDisconnected, Freed
    <3>6. QED
      BY <2>1, <2>2, <3>1, <3>5 DEF SlotsConserved, max_capacity_
  <2>5. QED
    BY <1>1, <1>2, <2>3, <2>4, IceStep
<1>3. QED
  BY <1>1, <1>2, NextParts, ElsewhereKeepsSlots

\* With no more peers than slots, free slots and recorded peers always add up to
\* the maximum: no order of connections, reconnections, farewells and sessions
\* makes the counter drift (multi_peer_conductor.cpp:71-92).
THEOREM SlotsAddUp ==
  ASSUME IsFiniteSet(Ids), Cardinality(Ids) <= SystemCapacity, SystemCapacity > 0
  PROVE  Spec => []SlotsConserved
<1>1. Init => SlotsConserved
  BY SlotsInit
<1>2. TypeOK /\ StreamingIsCounted /\ SlotsConserved /\ [Next]_vars => SlotsConserved'
  BY SlotsNext
<1>3. QED
  BY <1>1, <1>2, TypeCorrect, StreamingPeersAreCounted, PTL DEF Spec

-----------------------------------------------------------------------------
(* The number published in the first session *)

\* Before the first sign-in is answered there are no peers, and no slot is taken.
NoneYet ==
  ~SignedOn =>
    /\ phase \in {"off", "joining"}
    /\ peers = {} /\ listed = {} /\ connected_peers_ = {}
    /\ cur_capacity_ = max_capacity_

\* A capacity connection being made has a number to send.
HasNumber == update = "connecting" => value # NoValue

NewestInv ==
  /\ NoneYet
  /\ max_capacity_ > -1 <=> cur_capacity_ > -1
  /\ HasNumber
  /\ NothingOutdatedIsSent

LEMMA Maximum == max_capacity_ > -1 => max_capacity_ \in Values /\ max_capacity_ # NoValue
BY SystemCapacityAssumption, ValuesAssumption DEF max_capacity_

LEMMA NewestInit == Init => NewestInv
BY DEF Init, SessionInit, NewestInv, NoneYet, SignedOn, HasNumber, NothingOutdatedIsSent

\* Steps that touch no number, no slot and no phase.
LEMMA NumbersStay ==
  ASSUME NewestInv, SignedOn \/ UNCHANGED <<peers, listed, connected_peers_>>,
         UNCHANGED <<phase, cur_capacity_, update, value, published>>
  PROVE  NewestInv'
BY DEF NewestInv, NoneYet, SignedOn, HasNumber, NothingOutdatedIsSent, max_capacity_

LEMMA SignInNewest ==
  ASSUME NewestInv, StartLogin \/ SignInSent \/ OnSignedIn \/ SignedInWithoutId
  PROVE  NewestInv'
<1>1. CASE StartLogin \/ SignInSent
  BY <1>1 DEF StartLogin, Join, SignInSent, Resolved, NewestInv, NoneYet, SignedOn, HasNumber, NothingOutdatedIsSent,
    max_capacity_
<1>2. CASE OnSignedIn \/ SignedInWithoutId
  <2>1. /\ phase = "joining" /\ phase' \in {"on", "anonymous"}
        /\ UNCHANGED cur_capacity_
        /\ HandleSignalConnect
    BY <1>2 DEF OnSignedIn, SignedInWithoutId, Joined
  <2>2. cur_capacity_ = max_capacity_
    BY <2>1 DEF NewestInv, NoneYet, SignedOn
  <2>3. CASE max_capacity_ > -1
    BY <2>1, <2>2, <2>3, Maximum DEF HandleSignalConnect, Updated, NewestInv, NoneYet, SignedOn, HasNumber,
      NothingOutdatedIsSent, max_capacity_
  <2>4. CASE ~(max_capacity_ > -1)
    BY <2>1, <2>4 DEF HandleSignalConnect, NewestInv, NoneYet, SignedOn, HasNumber, NothingOutdatedIsSent, max_capacity_
  <2> QED
    BY <2>3, <2>4
<1> QED
  BY <1>1, <1>2

LEMMA PeersNewest ==
  ASSUME NewestInv, NEW p \in Ids,
         \/ OnPeerConnected(p) \/ OnPeerDisconnected(p) \/ OnMessageFromPeer(p)
         \/ ConnectToPeer(p) \/ Write(p)
  PROVE  NewestInv'
<1>1. UNCHANGED <<phase, cur_capacity_, update, value, published>>
  BY DEF OnPeerConnected, Came, OnPeerDisconnected, Left, OnMessageFromPeer, ConnectToPeer, Write
<1>2. SignedOn \/ UNCHANGED <<peers, listed, connected_peers_>>
  BY DEF OnPeerConnected, Came, OnPeerDisconnected, OnMessageFromPeer, ConnectToPeer, Callable, Write, NewestInv,
    NoneYet
<1> QED
  BY <1>1, <1>2, NumbersStay

\* A slot that is taken or freed has the new number of free slots handed over.
LEMMA IceNewest ==
  ASSUME TypeOK, NewestInv, NEW p \in Ids, NEW new_state \in IceStates, OnIceConnectionChange(p, new_state)
  PROVE  NewestInv'
<1>1. SignedOn /\ UNCHANGED <<phase, published>>
  BY DEF OnIceConnectionChange, NewestInv, NoneYet
<1>2. CASE UNCHANGED <<slots, update, value>>
  BY <1>1, <1>2, NumbersStay
<1>3. CASE (PeerConnected(p) \/ PeerDisconnected(p)) /\ Publish
  <2>1. cur_capacity_ \in Int /\ SystemCapacity \in Nat
    BY SystemCapacityAssumption, ValuesAssumption DEF TypeOK
  <2>2. CASE max_capacity_ > -1
    <3>1. cur_capacity_ > -1 /\ cur_capacity_ \in 0..SystemCapacity
      BY <2>2, SystemCapacityAssumption, ValuesAssumption DEF NewestInv, TypeOK
    <3>2. cur_capacity_' \in Values
      BY <1>3, <3>1, SystemCapacityAssumption, ValuesAssumption DEF PeerConnected, PeerDisconnected, Taken, Freed,
        max_capacity_
    <3>3. Updated(cur_capacity_') /\ cur_capacity_' # NoValue
      BY <1>3, <3>1, <3>2, ValuesAssumption DEF Publish
    <3>4. value' = cur_capacity_' /\ value' # NoValue /\ cur_capacity_' > -1
      BY <1>1, <3>2, <3>3, SystemCapacityAssumption, ValuesAssumption DEF Updated, SignedOn
    <3>5. max_capacity_' > -1
      BY <2>2 DEF max_capacity_
    <3> QED
      BY <1>1, <3>4, <3>5 DEF NewestInv, NoneYet, SignedOn, HasNumber, NothingOutdatedIsSent
  <2>3. CASE ~(max_capacity_ > -1)
    <3>1. ~(cur_capacity_ > -1) /\ UNCHANGED cur_capacity_
      BY <1>3, <2>3 DEF NewestInv, PeerConnected, PeerDisconnected
    <3> QED
      BY <1>1, <1>3, <3>1, NumbersStay DEF Publish
  <2> QED
    BY <2>2, <2>3
<1> QED
  BY <1>2, <1>3 DEF OnIceConnectionChange

LEMMA SendingNewest ==
  ASSUME ~SessionEnds, NewestInv, Pump \/ RequestDone \/ CapacityPublished \/ CapacityAnswered
  PROVE  NewestInv'
<1>1. CASE Pump
  BY <1>1, NumbersStay DEF Pump, SendSucceeds, Send, SendFails
<1>2. CASE RequestDone
  BY <1>2, NumbersStay DEF RequestDone, Answered
<1>3. CASE CapacityPublished
  BY <1>3 DEF CapacityPublished, CapacitySent, NewestInv, NoneYet, SignedOn, HasNumber, NothingOutdatedIsSent, max_capacity_
<1>4. CASE CapacityAnswered
  BY <1>4 DEF CapacityAnswered, CapacityDone, Over, NewestInv, NoneYet, SignedOn, HasNumber, NothingOutdatedIsSent,
    max_capacity_
<1> QED
  BY <1>1, <1>2, <1>3, <1>4

LEMMA NewestNext ==
  ASSUME ~SessionEnds, TypeOK, NewestInv, [Next]_vars
  PROVE  NewestInv'
<1>1. CASE UNCHANGED vars
  BY <1>1, NumbersStay DEF vars
<1>2. ~(OnDisconnected \/ OnServerConnectionFailure \/ Close)
  BY DEF OnDisconnected, OnServerConnectionFailure, Close
<1>3. CASE Next
  BY <1>2, <1>3, SignInNewest, PeersNewest, IceNewest, SendingNewest DEF Next
<1> QED
  BY <1>1, <1>3

\* In the first session no update carries an outdated number, and while none waits
\* in capacity_data_ the server has been told the newest, for any number of peers
\* and slots (multi_peer_conductor.cpp:61-92, peer_connection_client.cpp:229-250).
THEOREM UpdatesAreNotOutdated ==
  ASSUME ~SessionEnds
  PROVE  Spec => []NothingOutdatedIsSent
<1>1. TypeOK /\ NewestInv /\ [Next]_vars => NewestInv'
  BY NewestNext
<1>2. NewestInv => NothingOutdatedIsSent
  BY DEF NewestInv
<1> QED
  BY <1>1, <1>2, NewestInit, TypeCorrect, PTL DEF Spec

-----------------------------------------------------------------------------
(* What the counter is worth *)

\* A peer that comes when no slot is free is recorded without taking one.  -1 would
\* say that the capacity is not used.
NoSlotLost ==
  /\ cur_capacity_ # -1
  /\ cur_capacity_ + Cardinality(connected_peer_states_) >= max_capacity_

\* Each slot is free or has a recorded peer, for any number of peers, also more
\* than there are slots: once no peer is recorded all slots are free again
\* (multi_peer_conductor.cpp:71-92).
THEOREM NoSlotIsLost ==
  ASSUME IsFiniteSet(Ids), SystemCapacity > 0
  PROVE  Spec => [](NoSlotLost /\ (connected_peer_states_ = {} => cur_capacity_ = max_capacity_))
<1>1. Init => NoSlotLost
  BY FS_EmptySet, SystemCapacityAssumption DEF Init, NoSlotLost, max_capacity_
<1>2. TypeOK /\ StreamingIsCounted /\ NoSlotLost /\ [Next]_vars => NoSlotLost'
  <2> SUFFICES ASSUME TypeOK, StreamingIsCounted, NoSlotLost, [Next]_vars
               PROVE  NoSlotLost'
    OBVIOUS
  <2>1. CASE UNCHANGED slots
    BY <2>1 DEF NoSlotLost, max_capacity_
  <2>2. ASSUME NEW p \in Ids, NEW new_state \in IceStates, OnIceConnectionChange(p, new_state)
        PROVE  NoSlotLost'
    <3> DEFINE recorded == connected_peer_states_
    <3>1. max_capacity_ = SystemCapacity /\ SystemCapacity \in Nat /\ recorded \subseteq Ids
      BY SystemCapacityAssumption DEF max_capacity_, TypeOK
    <3>2. /\ IsFiniteSet(recorded) /\ Cardinality(recorded) \in Nat
          /\ cur_capacity_ + Cardinality(recorded) >= SystemCapacity
          /\ cur_capacity_ \in 0..SystemCapacity
      BY <3>1, FS_Subset, FS_CardinalityType, ValuesAssumption DEF NoSlotLost, TypeOK
    <3>3. CASE PeerConnected(p) /\ p \notin recorded
      <4>1. Cardinality(recorded \cup {p}) = Cardinality(recorded) + 1
        BY <3>2, <3>3, FS_AddElement
      <4>2. cur_capacity_' >= cur_capacity_ - 1 /\ connected_peer_states_' = recorded \cup {p}
            /\ cur_capacity_' \in Int
        BY <3>2, <3>3 DEF PeerConnected, Taken
      <4>3. cur_capacity_' + Cardinality(connected_peer_states_') >= SystemCapacity
        BY <3>1, <3>2, <4>1, <4>2
      <4>4. cur_capacity_' # -1
        BY <3>2, <3>3 DEF PeerConnected, Taken
      <4> QED
        BY <3>1, <4>3, <4>4 DEF NoSlotLost, max_capacity_
    <3>4. CASE PeerDisconnected(p) /\ p \in recorded
      <4>1. Cardinality(recorded \ {p}) = Cardinality(recorded) - 1 /\ Cardinality(recorded \ {p}) \in Nat
        BY <3>2, <3>4, FS_RemoveElement, FS_CardinalityType
      <4>2. connected_peer_states_' = recorded \ {p}
        BY <3>4 DEF PeerDisconnected
      <4>3. cur_capacity_' + Cardinality(recorded \ {p}) >= SystemCapacity
        <5>1. CASE cur_capacity_ > -1 /\ cur_capacity_ < SystemCapacity
          <6>1. cur_capacity_' = cur_capacity_ + 1
            BY <3>1, <3>4, <5>1 DEF PeerDisconnected, Freed
          <6> QED
            BY <3>1, <3>2, <4>1, <6>1
        <5>2. CASE cur_capacity_ = SystemCapacity
          <6>1. cur_capacity_' = SystemCapacity
            BY <3>1, <3>2, <3>4, <5>2 DEF PeerDisconnected, Freed
          <6> QED
            BY <3>1, <4>1, <6>1
        <5> QED
          BY <3>1, <3>2, <5>1, <5>2
      <4>4. cur_capacity_' # -1
        BY <3>2, <3>4 DEF PeerDisconnected, Freed
      <4> QED
        BY <3>1, <4>2, <4>3, <4>4 DEF NoSlotLost, max_capacity_
    <3> QED
      BY <2>1, <2>2, <3>3, <3>4, IceStep
  <2> QED
    BY <2>1, <2>2, NextParts, ElsewhereKeepsSlots
<1>3. TypeOK /\ NoSlotLost /\ connected_peer_states_ = {} => cur_capacity_ = max_capacity_
  BY FS_EmptySet, SystemCapacityAssumption, ValuesAssumption DEF TypeOK, NoSlotLost, max_capacity_
<1> QED
  BY <1>1, <1>2, <1>3, TypeCorrect, StreamingPeersAreCounted, PTL DEF Spec

\* The number of slots that no streaming peer has taken.
Remaining == max_capacity_ - Cardinality(Streaming)

LEMMA CounterIsModest ==
  ASSUME IsFiniteSet(Ids), TypeOK, StreamingIsCounted, SlotsConserved
  PROVE  /\ cur_capacity_ <= Remaining
         /\ Streaming = connected_peer_states_ => cur_capacity_ = Remaining
<1>1. IsFiniteSet(connected_peer_states_)
  BY FS_Subset DEF TypeOK
<1>2. /\ Cardinality(Streaming) <= Cardinality(connected_peer_states_)
      /\ Cardinality(Streaming) \in Nat /\ Cardinality(connected_peer_states_) \in Nat
  BY <1>1, FS_Subset, FS_CardinalityType DEF StreamingIsCounted
<1>3. max_capacity_ \in Int /\ cur_capacity_ \in Int
  BY SystemCapacityAssumption, ValuesAssumption DEF max_capacity_, TypeOK
<1> QED
  BY <1>2, <1>3 DEF SlotsConserved, Remaining

\* With no number waiting in capacity_data_, the one the server was told last.
NeverOverstated == SignedOn /\ value = NoValue => published <= Remaining

\* A server does not offer a slot that a streaming peer has: in a session that
\* lasts, with no more peers than slots and no number waiting to be sent, the last
\* number sent may be too small (PublishesRemaining) and is not too large
\* (multi_peer_conductor.cpp:61-92, 110-116).
THEOREM SlotsAreNotOverstated ==
  ASSUME IsFiniteSet(Ids), Cardinality(Ids) <= SystemCapacity, SystemCapacity > 0, ~SessionEnds
  PROVE  Spec => []NeverOverstated
<1>1. TypeOK /\ StreamingIsCounted /\ SlotsConserved /\ NothingOutdatedIsSent => NeverOverstated
  BY CounterIsModest, SystemCapacityAssumption
     DEF NothingOutdatedIsSent, NeverOverstated, max_capacity_
<1> QED
  BY <1>1, TypeCorrect, StreamingPeersAreCounted, SlotsAddUp, UpdatesAreNotOutdated, PTL DEF Spec

-----------------------------------------------------------------------------
(* Where no peer leaves *)

\* Nobody is recorded who does not stream.
OnlyStreaming == connected_peer_states_ \subseteq Streaming

\* A peer connection that is there keeps its ICE state.
LEMMA AllocateKeepsStreaming ==
  ASSUME ice \in [Ids -> IceStates], connected_peers_ \subseteq Ids,
         NEW ps \in SUBSET Ids, NEW described, Allocate(ps, described)
  PROVE  Streaming \subseteq Streaming'
<1> SUFFICES ASSUME NEW q \in Streaming
             PROVE  q \in Streaming'
  OBVIOUS
<1>1. q \in Ids /\ q \in connected_peers_ /\ ice[q] \in {"connected", "completed"}
  BY DEF Streaming
<1>2. q \in connected_peers_' /\ ice'[q] = ice[q]
  BY <1>1 DEF Allocate
<1> QED
  BY <1>1, <1>2 DEF Streaming

LEMMA ElsewhereKeepsStreaming ==
  ASSUME ~PeersLeave, ~SessionEnds, TypeOK, Elsewhere
  PROVE  Streaming \subseteq Streaming'
<1>1. ice \in [Ids -> IceStates] /\ connected_peers_ \subseteq Ids
  BY DEF TypeOK
<1>2. CASE \E ps \in SUBSET Ids : \E described : Allocate(ps, described)
  BY <1>1, <1>2, AllocateKeepsStreaming
<1>3. CASE UNCHANGED <<connected_peers_, ice>>
  BY <1>3 DEF Streaming
<1>4. \A ps \in SUBSET Ids : AutoCalled(ps) => \E qs \in SUBSET Ids : \E described : Allocate(qs, described)
  BY DEF AutoCalled, Call, Called
<1>5. CASE OnSignedIn
  BY <1>2, <1>4, <1>5 DEF OnSignedIn
<1>6. ASSUME NEW p \in Ids, OnPeerConnected(p) \/ OnMessageFromPeer(p) \/ ConnectToPeer(p) \/ Write(p)
      PROVE  Streaming \subseteq Streaming'
  <2>1. {p} \in SUBSET Ids /\ Called({p}) \in SUBSET Ids
    BY DEF Called
  <2> QED
    BY <1>2, <1>3, <1>4, <1>6, <2>1 DEF OnPeerConnected, OnMessageFromPeer, ConnectToPeer, Call, Write
<1>7. ~OnDisconnected /\ ~OnServerConnectionFailure /\ ~Close /\ \A p \in Ids : ~OnPeerDisconnected(p)
  BY DEF OnDisconnected, OnServerConnectionFailure, Close, OnPeerDisconnected
<1> QED
  BY <1>3, <1>5, <1>6, <1>7
     DEF Elsewhere, StartLogin, SignInSent, SignedInWithoutId, Pump, RequestDone, CapacityPublished,
         CapacityAnswered, vars

\* An ICE change records the peer that begins to stream and strikes out the one
\* that ends.
LEMMA OnlyStreamingNext ==
  ASSUME ~PeersLeave, ~SessionEnds, TypeOK, StreamingIsCounted, OnlyStreaming, [Next]_vars
  PROVE  OnlyStreaming'
<1>1. CASE Elsewhere
  BY <1>1, ElsewhereKeepsSlots, ElsewhereKeepsStreaming DEF OnlyStreaming
<1>2. ASSUME NEW p \in Ids, NEW new_state \in IceStates, OnIceConnectionChange(p, new_state)
      PROVE  OnlyStreaming'
  <2>1. /\ p \in connected_peers_ /\ UNCHANGED connected_peers_
        /\ new_state \in IceNext[ice[p]]
        /\ ice' = [ice EXCEPT ![p] = new_state]
        /\ ice \in [Ids -> IceStates] /\ connected_peers_ \subseteq Ids
    BY <1>2 DEF OnIceConnectionChange, TypeOK
  <2>2. Streaming \ {p} \subseteq Streaming'
    BY <2>1 DEF Streaming
  <2>3. new_state \in {"connected", "completed"} => p \in Streaming'
    BY <2>1 DEF Streaming
  <2>4. CASE new_state = "connected"
    BY <1>2, <2>2, <2>3, <2>4 DEF OnIceConnectionChange, PeerConnected, OnlyStreaming
  <2>5. CASE new_state = "disconnected" /\ PeerDisconnected(p)
    BY <2>2, <2>5 DEF PeerDisconnected, OnlyStreaming
  <2>6. CASE new_state = "completed" /\ UNCHANGED slots
    BY <2>2, <2>3, <2>6 DEF OnlyStreaming
  <2>7. CASE new_state = "failed" /\ UNCHANGED slots
    <3>1. p \notin Streaming
      BY <2>1, <2>7 DEF IceNext, IceStates, Streaming
    <3> QED
      BY <2>2, <2>7, <3>1 DEF OnlyStreaming
  <2> QED
    BY <1>2, <2>4, <2>5, <2>6, <2>7 DEF OnIceConnectionChange, Known
<1> QED
  BY <1>1, <1>2, NextParts

\* The only steps that hand over a number hand over the counter.
LEMMA HandsOverCounter ==
  ASSUME ~SessionEnds, TypeOK, NewestInv, [Next]_vars, value' \notin {value, NoValue}
  PROVE  value' = cur_capacity_'
<1>1. CASE OnSignedIn \/ SignedInWithoutId
  <2>1. HandleSignalConnect /\ UNCHANGED cur_capacity_ /\ phase = "joining"
    BY <1>1 DEF OnSignedIn, SignedInWithoutId, Joined
  <2>2. value' = max_capacity_
    BY <2>1 DEF HandleSignalConnect, Updated
  <2> QED
    BY <2>1, <2>2 DEF NewestInv, NoneYet, SignedOn
<1>2. ASSUME NEW p \in Ids, NEW new_state \in IceStates, OnIceConnectionChange(p, new_state)
      PROVE  value' = cur_capacity_'
  BY <1>2 DEF OnIceConnectionChange, Publish, Updated
<1>3. CASE UNCHANGED vars
  BY <1>3 DEF vars
<1>4. CASE \/ StartLogin \/ SignInSent \/ OnDisconnected \/ OnServerConnectionFailure
           \/ Close \/ Pump \/ RequestDone \/ CapacityPublished \/ CapacityAnswered
  BY <1>4 DEF StartLogin, Join, SignInSent, Resolved, OnDisconnected, OnServerConnectionFailure, Close,
              Pump, SendSucceeds, Send, SendFails, RequestDone, Answered, CapacityPublished, CapacitySent,
              CapacityAnswered, CapacityDone
<1>5. ASSUME NEW p \in Ids,
             \/ OnPeerConnected(p) \/ OnPeerDisconnected(p) \/ OnMessageFromPeer(p)
             \/ ConnectToPeer(p) \/ Write(p)
      PROVE  FALSE
  BY <1>5 DEF OnPeerConnected, Came, OnPeerDisconnected, Left, OnMessageFromPeer, ConnectToPeer, Write
<1> QED
  BY <1>1, <1>2, <1>3, <1>4, <1>5 DEF Next

\* Where no peer says goodbye every number handed over is the number of slots
\* that no streaming peer has taken: what capacity_published finds comes from
\* OnPeerDisconnected alone (multi_peer_conductor.cpp:149-152), for any number
\* of peers up to the number of slots.
THEOREM RemainingIsPublished ==
  ASSUME IsFiniteSet(Ids), Cardinality(Ids) <= SystemCapacity, SystemCapacity > 0,
         ~SessionEnds, ~PeersLeave
  PROVE  Spec => PublishesRemaining
<1> DEFINE Inv == TypeOK /\ StreamingIsCounted /\ SlotsConserved /\ NewestInv /\ OnlyStreaming
<1>1. Init => Inv
  <2>1. Init => OnlyStreaming
    BY DEF Init, OnlyStreaming
  <2> QED
    BY <2>1, TypeInit, CountedInit, SlotsInit, NewestInit
<1>2. Inv /\ [Next]_vars => Inv'
  BY TypeNext, CountedNext, SlotsNext, NewestNext, OnlyStreamingNext
<1>3. Inv /\ Inv' /\ [Next]_vars
      => [value' \notin {value, NoValue} => value' = max_capacity_ - Cardinality(Streaming')]_vars
  <2> SUFFICES ASSUME Inv, Inv', [Next]_vars, value' \notin {value, NoValue}
               PROVE  value' = max_capacity_ - Cardinality(Streaming')
    OBVIOUS
  <2>1. value' = cur_capacity_'
    BY HandsOverCounter
  <2>2. Streaming' = connected_peer_states_'
    BY DEF OnlyStreaming, StreamingIsCounted
  <2>3. SlotsConserved' /\ connected_peer_states_' \subseteq Ids /\ cur_capacity_' \in Int
    BY ValuesAssumption, SystemCapacityAssumption DEF TypeOK
  <2>4. Cardinality(connected_peer_states_') \in Nat
    BY <2>3, FS_Subset, FS_CardinalityType
  <2> QED
    BY <2>1, <2>2, <2>3, <2>4, SystemCapacityAssumption DEF SlotsConserved, max_capacity_
<1> QED
  BY <1>1, <1>2, <1>3, PTL DEF Spec, PublishesRemaining

-----------------------------------------------------------------------------
(* Crashes *)

\* The window shows peers that are there.
ShownAreThere == Window => listed \subseteq peers
SafeInv == ~crashed /\ peer_factory_ /\ (~PeersLeave => ShownAreThere)

\* Inside a session only a peer that leaves takes peers away.
LEMMA PeersStay ==
  ASSUME ~SessionEnds, ~PeersLeave, NoneYet, Next
  PROVE  peers \subseteq peers'
<1>1. CASE StartLogin
  BY <1>1 DEF StartLogin, Join, NoneYet, SignedOn
<1>2. ASSUME NEW p \in Ids, OnPeerConnected(p) \/ OnMessageFromPeer(p) \/ ConnectToPeer(p) \/ Write(p)
      PROVE  peers \subseteq peers'
  BY <1>2 DEF OnPeerConnected, Came, OnMessageFromPeer, ConnectToPeer, Write
<1>3. ASSUME NEW p \in Ids, NEW new_state \in IceStates, OnIceConnectionChange(p, new_state)
      PROVE  peers \subseteq peers'
  BY <1>3 DEF OnIceConnectionChange
<1>4. CASE \/ SignInSent \/ OnSignedIn \/ SignedInWithoutId
           \/ Pump \/ RequestDone \/ CapacityPublished \/ CapacityAnswered
  BY <1>4 DEF SignInSent, Resolved, OnSignedIn, SignedInWithoutId, Joined, Pump, SendSucceeds, Send,
              SendFails, RequestDone, CapacityPublished, CapacitySent, CapacityAnswered, CapacityDone
<1>5. ~OnDisconnected /\ ~OnServerConnectionFailure /\ ~Close /\ \A p \in Ids : ~OnPeerDisconnected(p)
  BY DEF OnDisconnected, OnServerConnectionFailure, Close, OnPeerDisconnected
<1> QED
  BY <1>1, <1>2, <1>3, <1>4, <1>5 DEF Next

LEMMA ShownStay ==
  ASSUME ~SessionEnds, ~PeersLeave, NoneYet, ShownAreThere, Next
  PROVE  ShownAreThere'
<1>1. UNCHANGED listed \/ Refresh
  BY DEF Next, StartLogin, SignInSent, OnSignedIn, SignedInWithoutId, OnDisconnected,
         OnServerConnectionFailure, OnPeerConnected, OnPeerDisconnected, OnMessageFromPeer, ConnectToPeer,
         Write, Close, OnIceConnectionChange, Pump, RequestDone, CapacityPublished, CapacityAnswered
<1> QED
  BY <1>1, PeersStay DEF ShownAreThere, Refresh

\* at() finds every peer the conductor looks up, and a peer connection is only
\* made while there is a factory: before the conductor is closed, when no peer
\* leaves or the caller asks for peers of the session and not of the window's
\* list (directx_multi_peer_conductor.cpp:12-33, multi_peer_conductor.cpp:202-217).
THEOREM NobodyIsMissed ==
  ASSUME ~SessionEnds, ~PeersLeave \/ ~Window
  PROVE  Spec => []~crashed
<1>1. Init => SafeInv
  BY DEF Init, SafeInv, ShownAreThere
<1>2. NewestInv /\ SafeInv /\ [Next]_vars => SafeInv'
  <2> SUFFICES ASSUME NewestInv, SafeInv, [Next]_vars
               PROVE  SafeInv'
    OBVIOUS
  <2>1. CASE UNCHANGED vars
    BY <2>1 DEF vars, SafeInv, ShownAreThere
  <2>2. CASE Next
    <3>1. ~PeersLeave => ShownAreThere'
      BY <2>2, ShownStay DEF SafeInv, NewestInv
    <3>2. ~OnDisconnected /\ ~OnServerConnectionFailure /\ ~Close
      BY DEF OnDisconnected, OnServerConnectionFailure, Close
    <3>3. UNCHANGED peer_factory_
      BY <2>2, <3>2 DEF Next, StartLogin, SignInSent, OnSignedIn, SignedInWithoutId, OnPeerConnected,
         OnPeerDisconnected, OnMessageFromPeer, ConnectToPeer, Write, OnIceConnectionChange, Pump,
         RequestDone, CapacityPublished, CapacityAnswered
    <3>4. \A ps, described : Allocate(ps, described) => UNCHANGED crashed
      BY DEF Allocate, SafeInv
    <3>5. \A p \in Ids : ConnectToPeer(p) => p \in peers
      BY DEF ConnectToPeer, Callable, SafeInv, ShownAreThere
    <3>6. UNCHANGED crashed
      BY <2>2, <3>2, <3>4, <3>5
         DEF Next, StartLogin, SignInSent, OnSignedIn, SignedInWithoutId, OnPeerConnected,
             OnPeerDisconnected, OnMessageFromPeer, ConnectToPeer, AutoCalled, Call, Write,
             OnIceConnectionChange, Pump, RequestDone, CapacityPublished, CapacityAnswered
    <3> QED
      BY <3>1, <3>3, <3>6 DEF SafeInv
  <2> QED
    BY <2>1, <2>2
<1>3. TypeOK /\ NewestInv /\ [Next]_vars => NewestInv'
  BY NewestNext
<1>4. SafeInv => ~crashed
  BY DEF SafeInv
<1> QED
  BY <1>1, <1>2, <1>3, <1>4, NewestInit, TypeCorrect, PTL DEF Spec

-----------------------------------------------------------------------------
(* The session below *)

\* OnIceConnectionChange makes two calls in one step: UpdateCapacity and then
\* UpdateConnectionState.
UpdateAndShow(v, id) == SignedOn /\ Updated(v) /\ peers' = peers \cup {id} /\ UNCHANGED <<phase, request>>

UsesSession == SessionInit /\ [][SessionNext \/ \E v \in Values, id \in Ids : UpdateAndShow(v, id)]_session

LEMMA IceUsesSession ==
  ASSUME TypeOK, NEW p \in Ids, NEW new_state \in IceStates, OnIceConnectionChange(p, new_state)
  PROVE  SessionNext \/ UNCHANGED session \/ \E v \in Values : UpdateAndShow(v, p)
<1>1. UNCHANGED <<phase, request>> /\ peers' \in {peers, peers \cup {p}}
  BY DEF OnIceConnectionChange
<1>2. CASE UNCHANGED <<update, value>>
  BY <1>1, <1>2 DEF SessionNext, Show
<1>3. CASE (PeerConnected(p) \/ PeerDisconnected(p)) /\ cur_capacity_ > -1 /\ Updated(cur_capacity_')
  <2>1. cur_capacity_' \in Values
    BY <1>3, CounterType DEF TypeOK
  <2>2. CASE ~SignedOn
    BY <1>1, <1>2, <1>3, <2>2 DEF Updated, SignedOn
  <2>3. CASE SignedOn /\ peers' = peers \cup {p}
    BY <1>1, <1>3, <2>1, <2>3 DEF UpdateAndShow
  <2>4. CASE SignedOn /\ peers' = peers
    BY <1>1, <1>3, <2>1, <2>4 DEF SessionNext, UpdateTo
  <2> QED
    BY <1>1, <2>2, <2>3, <2>4
<1> QED
  BY <1>1, <1>2, <1>3 DEF OnIceConnectionChange, Publish

\* The conductor does nothing to its session that SignallingSession does not
\* allow, up to the two calls of one ICE change: with ClientImplementsSession,
\* what is proved of the conductor rests on the client that is shipped
\* (multi_peer_conductor.cpp:61-227).
THEOREM ConductorUsesSession == Spec => UsesSession
<1>1. Init => SessionInit
  BY DEF Init
<1>2. TypeOK /\ [Next]_vars => [SessionNext \/ \E v \in Values, id \in Ids : UpdateAndShow(v, id)]_session
  <2> SUFFICES ASSUME TypeOK, [Next]_vars
               PROVE  SessionNext \/ UNCHANGED session \/ \E v \in Values, id \in Ids : UpdateAndShow(v, id)
    BY DEF session
  <2>1. CASE \E p \in Ids, new_state \in IceStates : OnIceConnectionChange(p, new_state)
    BY <2>1, IceUsesSession
  <2>2. CASE StartLogin \/ SignInSent \/ OnSignedIn \/ SignedInWithoutId
    BY <2>2 DEF StartLogin, SignInSent, OnSignedIn, SignedInWithoutId, SessionNext
  <2>3. CASE \/ OnDisconnected \/ OnServerConnectionFailure \/ Close \/ Pump
             \/ RequestDone \/ CapacityPublished \/ CapacityAnswered
    <3>1. \/ UNCHANGED session \/ End \/ Unresolved \/ Send \/ Answered \/ CapacitySent \/ CapacityDone
      BY <2>3 DEF OnDisconnected, OnServerConnectionFailure, Close, Pump, SendSucceeds, SendFails,
                  RequestDone, CapacityPublished, CapacityAnswered
    <3> QED
      BY <3>1 DEF SessionNext
  <2>4. CASE \E p \in Ids : \/ OnPeerConnected(p) \/ OnPeerDisconnected(p) \/ OnMessageFromPeer(p)
                            \/ ConnectToPeer(p) \/ Write(p)
    <3>1. UNCHANGED session \/ \E p \in Ids : Came(p) \/ Left(p)
      BY <2>4 DEF OnPeerConnected, OnPeerDisconnected, OnMessageFromPeer, ConnectToPeer, Write
    <3> QED
      BY <3>1 DEF SessionNext
  <2>5. CASE UNCHANGED vars
    BY <2>5 DEF vars
  <2> QED
    BY <2>1, <2>2, <2>3, <2>4, <2>5 DEF Next
<1> QED
  BY <1>1, <1>2, TypeCorrect, PTL DEF Spec, UsesSession
=============================================================================
