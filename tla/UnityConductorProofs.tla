------------------------- MODULE UnityConductorProofs -------------------------
(***************************************************************************)
(* Proofs about the Unity client, for any number of peers, sign-ins and    *)
(* queued changes: its session, its heartbeat and its read loops agree,    *)
(* whatever runs between two parts of a method; the list its user sees     *)
(* comes to show the peers the signaller knows; a peer connection has a    *)
(* peer.                                                                   *)
(***************************************************************************)
EXTENDS UnityConductor, FiniteSetTheorems, SequenceTheorems, WellFoundedInduction, TLAPS

\* Only the signaller's steps touch the signaller.
SignallerSteps ==
  \/ \E n \in Connects :
       \/ Connect(n) \/ SignInEnds(n) \/ WaitEnds(n) \/ SignInFailed(n) \/ WaitFailed(n)
       \/ Message(n) \/ MessageAwaits(n) \/ MessageHandled(n)
       \/ \E new \in SUBSET Peers : SignedIn(n, new) \/ SignInUnreadable(n, new) \/ Notified(n, new)
  \/ SignOut \/ SignOutEnds \/ SignOutRefused \/ SignedOut
  \/ UNCHANGED signaller

LEMMA StepsOfSignaller == [Next]_vars => SignallerSteps
<1> SUFFICES ASSUME [Next]_vars
             PROVE  SignallerSteps
  OBVIOUS
<1> USE DEF SignallerSteps
<1>1. ASSUME NEW n \in Connects, StartLogin(n) \/ ConnectGoesOn(n)
      PROVE  SignallerSteps
  BY <1>1 DEF StartLogin, ConnectGoesOn, OnSignedIn, OnUnreadable
<1>2. ASSUME NEW n \in Connects, LoopGoesOn(n)
      PROVE  SignallerSteps
  BY <1>2 DEF LoopGoesOn, OnNotified, OnMessageIgnored, OnOfferHandled, OnPeerHangup, OnOfferOfUnlisted, OnOffer
<1>3. ASSUME NEW n \in Connects, SignInEnds(n) \/ WaitEnds(n)
      PROVE  SignallerSteps
  BY <1>3
<1>4. CASE DisconnectFromServer \/ SignOutEnds \/ OnDisconnected \/ OnSignOutRefused \/ ClearList
  BY <1>4 DEF DisconnectFromServer, OnDisconnected, OnSignOutRefused, ClearList
<1>5. CASE MediaReady \/ OfferMade \/ DisconnectFromPeer \/ HangupSent \/ UiThread
           \/ \E p \in Peers : ConnectToPeer(p)
  BY <1>5 DEF MediaReady, OfferMade, DisconnectFromPeer, HangupSent, UiThread, ConnectToPeer
<1>6. CASE UNCHANGED vars
  BY <1>6 DEF vars
<1> QED
  BY <1>1, <1>2, <1>3, <1>4, <1>5, <1>6 DEF Next

-----------------------------------------------------------------------------
(* Types *)

Waiting == [at : Awaiting \cup {"handling"}, client : 0..MaxConnects, id : 0..MaxConnects]

\* What the next request of a read loop is, and how a new client ends the old
\* one's requests.
LEMMA RequestTypes ==
  ASSUME SignallerTypeOK, myId' \in 0..MaxConnects, httpClient' \in 0..MaxConnects
  PROVE  /\ NextWait \in Waiting
         /\ NextWait.at # "none" <=> state' = "CONNECTED"
         /\ \A k \in Connects :
              /\ Cancelled(wait[k]) \in Waiting
              /\ Cancelled(wait[k]).at = "none" <=> wait[k].at = "none"
              /\ CancelSignIn(k) \in Awaiting \cup {"over"}
<1>1. NoWait \in Waiting /\ NoWait.at = "none"
  BY SignallerAssumption DEF NoWait, Waiting, Awaiting
<1>2. Polled \in Waiting /\ Polled.at # "none"
  BY DEF Polled, Waiting, Awaiting
<1>3. ASSUME NEW k \in Connects
      PROVE  /\ Cancelled(wait[k]) \in Waiting
             /\ Cancelled(wait[k]).at = "none" <=> wait[k].at = "none"
             /\ CancelSignIn(k) \in Awaiting \cup {"over"}
  <2>1. wait[k] \in Waiting /\ signIn[k] \in Awaiting \cup {"over"}
    BY DEF SignallerTypeOK, Waiting
  <2> QED
    BY <2>1 DEF Cancelled, CancelSignIn, Waiting, Awaiting
<1> QED
  BY <1>1, <1>2, <1>3 DEF NextWait

LEMMA SignallerTypes == SignallerTypeOK /\ SignallerSteps => SignallerTypeOK'
<1> SUFFICES ASSUME SignallerTypeOK, SignallerSteps
             PROVE  SignallerTypeOK'
  OBVIOUS
<1> USE SignallerAssumption
<1>0. wait \in [Connects -> Waiting] /\ signIn \in [Connects -> Awaiting \cup {"over"}]
  BY DEF SignallerTypeOK, Waiting
<1>1. ASSUME NEW n \in Connects, Connect(n)
      PROVE  SignallerTypeOK'
  <2>1. httpClient' \in 0..MaxConnects /\ myId' \in 0..MaxConnects
    BY <1>1 DEF Connect, Connects, SignallerTypeOK
  <2>2. signIn' \in [Connects -> Awaiting \cup {"over"}] /\ wait' \in [Connects -> Waiting]
    BY <1>1, <2>1, RequestTypes DEF Connect, Awaiting
  <2> QED
    BY <1>1, <2>1, <2>2 DEF Connect, SignallerTypeOK, Waiting
<1>2. ASSUME NEW n \in Connects, SignInEnds(n) \/ WaitEnds(n)
      PROVE  SignallerTypeOK'
  <2>1. signIn' \in [Connects -> Awaiting \cup {"over"}]
    BY <1>0, <1>2 DEF SignInEnds, WaitEnds, Awaiting
  <2>2. wait' \in [Connects -> Waiting]
    BY <1>0, <1>2 DEF SignInEnds, WaitEnds, Awaiting, Waiting
  <2> QED
    BY <1>2, <2>1, <2>2 DEF SignInEnds, WaitEnds, session, SignallerTypeOK, Waiting
<1>3. ASSUME NEW n \in Connects, NEW new \in SUBSET Peers, SignedIn(n, new) \/ SignInUnreadable(n, new)
      PROVE  SignallerTypeOK'
  <2>1. httpClient' \in 0..MaxConnects /\ myId' \in 0..MaxConnects
    BY <1>3 DEF SignedIn, SignInUnreadable, Connects, SignallerTypeOK
  <2>2. wait' \in [Connects -> Waiting]
    BY <1>0, <1>3, <2>1, RequestTypes DEF SignedIn, SignInUnreadable
  <2>3. signIn' \in [Connects -> Awaiting \cup {"over"}]
    BY <1>0, <1>3 DEF SignedIn, SignInUnreadable
  <2> QED
    BY <1>3, <2>1, <2>2, <2>3 DEF SignedIn, SignInUnreadable, SignallerTypeOK, Waiting
<1>4. ASSUME NEW n \in Connects, SignInFailed(n)
      PROVE  SignallerTypeOK'
  BY <1>4 DEF SignInFailed, session, SignallerTypeOK
<1>5. ASSUME NEW n \in Connects, Waits(n), peers' \subseteq Peers
      PROVE  SignallerTypeOK'
  <2>1. wait' \in [Connects -> Waiting]
    BY <1>0, <1>5, RequestTypes DEF Waits, SignallerTypeOK
  <2> QED
    BY <1>5, <2>1 DEF Waits, SignallerTypeOK, Waiting
<1>6. ASSUME NEW n \in Connects, MessageAwaits(n)
      PROVE  SignallerTypeOK'
  <2>1. wait' \in [Connects -> Waiting]
    BY <1>0, <1>6 DEF MessageAwaits, Waiting
  <2> QED
    BY <1>6, <2>1 DEF MessageAwaits, session, SignallerTypeOK, Waiting
<1>7. CASE SignOut \/ SignOutEnds \/ SignOutRefused \/ UNCHANGED signaller
  BY <1>7 DEF SignOut, SignOutEnds, SignOutRefused, signaller, session, SignallerTypeOK
<1>8. CASE SignedOut
  <2>1. httpClient' \in 0..MaxConnects /\ myId' \in 0..MaxConnects
    BY <1>8 DEF SignedOut, Close
  <2>2. signIn' \in [Connects -> Awaiting \cup {"over"}] /\ wait' \in [Connects -> Waiting]
    BY <1>8, <2>1, RequestTypes DEF SignedOut
  <2> QED
    BY <1>8, <2>1, <2>2 DEF SignedOut, Close, SignallerTypeOK, Waiting
<1>9. ASSUME NEW n \in Connects,
             \/ WaitFailed(n) \/ Message(n) \/ MessageHandled(n)
             \/ \E new \in SUBSET Peers : Notified(n, new)
      PROVE  SignallerTypeOK'
  BY <1>5, <1>9 DEF WaitFailed, Message, MessageHandled, Notified, SignallerTypeOK
<1> QED
  BY <1>1, <1>2, <1>3, <1>4, <1>6, <1>7, <1>8, <1>9 DEF SignallerSteps

LEMMA SignallerTyped == Spec => []SignallerTypeOK
<1>1. Init => SignallerTypeOK
  <2> SUFFICES ASSUME Init
               PROVE  SignallerTypeOK
    OBVIOUS
  <2>1. NoWait \in Waiting
    BY SignallerAssumption DEF NoWait, Waiting, Awaiting
  <2>2. wait \in [Connects -> Waiting] /\ signIn \in [Connects -> Awaiting \cup {"over"}]
    BY <2>1 DEF Init, SignallerInit, Awaiting
  <2>3. myId \in 0..MaxConnects /\ httpClient \in 0..MaxConnects
    BY SignallerAssumption DEF Init, SignallerInit
  <2> QED
    BY <2>2, <2>3 DEF Init, SignallerInit, SignallerTypeOK, Waiting
<1> QED
  BY <1>1, SignallerTypes, StepsOfSignaller, PTL DEF Spec

-----------------------------------------------------------------------------
(* The session *)

\* A connected client of the Unity plugin has an id, which SendToPeer asserts,
\* and its heartbeat runs exactly while it is connected, for any number of
\* overlapping sign-ins and sign-outs (Signalling.cs).
THEOREM SessionAlwaysFits == Spec => []SessionFits
<1>1. Init => SessionFits
  BY DEF Init, SignallerInit, SessionFits
<1>2. SessionFits /\ SignallerSteps => SessionFits'
  <2> SUFFICES ASSUME SessionFits, SignallerSteps
               PROVE  SessionFits'
    OBVIOUS
  <2>1. CASE UNCHANGED <<state, myId, heartbeatTimer>>
    BY <2>1 DEF SessionFits, IsConnected
  <2>2. ASSUME NEW n \in Connects, NEW new \in SUBSET Peers, SignedIn(n, new) \/ SignInUnreadable(n, new)
        PROVE  SessionFits'
    BY <2>2, SignallerAssumption DEF SignedIn, SignInUnreadable, Connects, SessionFits, IsConnected
  <2>3. CASE SignedOut
    BY <2>3 DEF SignedOut, Close, SessionFits, IsConnected
  <2> QED
    BY <2>1, <2>2, <2>3 DEF SignallerSteps, Connect, SignInEnds, WaitEnds, SignInFailed, WaitFailed, Message,
      MessageAwaits, MessageHandled, Notified, Waits, SignOut, SignOutEnds, SignOutRefused, signaller, session
<1> QED
  BY <1>1, <1>2, StepsOfSignaller, PTL DEF Spec

\* No failed request, no handler that awaits and no sign-out overtaken by a new
\* sign-in leaves a connected client without a read loop.
HasLoop == state = "CONNECTED" => \E n \in Connects : wait[n].at # "none"

LEMMA AlwaysHasLoop == Spec => []HasLoop
<1>1. Init => HasLoop
  BY DEF Init, SignallerInit, HasLoop
<1>2. SignallerTypeOK /\ HasLoop /\ SignallerSteps => HasLoop'
  <2> SUFFICES ASSUME SignallerTypeOK, HasLoop, SignallerSteps, state' = "CONNECTED"
               PROVE  \E n \in Connects : wait'[n].at # "none"
    BY DEF HasLoop
  <2>0. wait \in [Connects -> Waiting]
    BY DEF SignallerTypeOK, Waiting
  <2>1. CASE state' = state /\ wait' = wait
    BY <2>1 DEF HasLoop
  <2>2. ASSUME NEW n \in Connects, wait' = [wait EXCEPT ![n] = NextWait],
               myId' \in 0..MaxConnects, httpClient' \in 0..MaxConnects
        PROVE  wait'[n].at # "none"
    BY <2>0, <2>2, RequestTypes
  <2>3. ASSUME NEW n \in Connects, NEW new \in SUBSET Peers, SignedIn(n, new) \/ SignInUnreadable(n, new)
        PROVE  \E k \in Connects : wait'[k].at # "none"
    <3>1. CASE SignedIn(n, new)
      <4>1. myId' \in 0..MaxConnects /\ httpClient' \in 0..MaxConnects
        BY <3>1, SignallerAssumption DEF SignedIn, Connects, SignallerTypeOK
      <4>2. wait' = [wait EXCEPT ![n] = NextWait]
        BY <3>1 DEF SignedIn
      <4> QED
        BY <2>2, <4>1, <4>2
    <3>2. CASE SignInUnreadable(n, new)
      BY <2>1, <3>2 DEF SignInUnreadable
    <3> QED
      BY <2>3, <3>1, <3>2
  <2>4. ASSUME NEW n \in Connects, Connect(n) \/ SignedOut
        PROVE  FALSE
    BY <2>4 DEF Connect, SignedOut, Close
  <2>5. ASSUME NEW n \in Connects, WaitEnds(n) \/ MessageAwaits(n)
        PROVE  wait'[n].at # "none"
    BY <2>0, <2>5 DEF WaitEnds, MessageAwaits, Waiting
  <2>6. ASSUME NEW n \in Connects, Waits(n)
        PROVE  wait'[n].at # "none"
    BY <2>2, <2>6 DEF Waits, SignallerTypeOK
  <2>7. ASSUME NEW n \in Connects, SignInEnds(n) \/ SignInFailed(n)
        PROVE  state' = state /\ wait' = wait
    BY <2>7 DEF SignInEnds, SignInFailed, session
  <2>8. CASE SignOut \/ SignOutEnds \/ SignOutRefused \/ UNCHANGED signaller
    BY <2>1, <2>8 DEF SignOut, SignOutEnds, SignOutRefused, signaller, session
  <2>9. CASE SignedOut
    BY <2>9 DEF SignedOut, Close
  <2> QED
    BY <2>1, <2>3, <2>4, <2>5, <2>6, <2>7, <2>8, <2>9
    DEF SignallerSteps, WaitFailed, Message, MessageHandled, Notified
<1> QED
  BY <1>1, <1>2, SignallerTyped, StepsOfSignaller, PTL DEF Spec

\* A request that a read loop waits for is one of the present HttpClient.
PresentClient == \A n \in Connects : wait[n].at = "asked" => wait[n].client = httpClient

LEMMA AlwaysPresentClient == Spec => []PresentClient
<1>1. Init => PresentClient
  BY DEF Init, SignallerInit, PresentClient, NoWait
<1>2. SignallerTypeOK /\ PresentClient /\ SignallerSteps => PresentClient'
  <2> SUFFICES ASSUME SignallerTypeOK, PresentClient, SignallerSteps, NEW k \in Connects
               PROVE  wait'[k].at = "asked" => wait'[k].client = httpClient'
    BY DEF PresentClient
  <2>0. wait \in [Connects -> Waiting] /\ (wait[k].at = "asked" => wait[k].client = httpClient)
    BY DEF SignallerTypeOK, PresentClient, Waiting
  <2>1. CASE wait' = wait /\ httpClient' = httpClient
    BY <2>0, <2>1
  <2>2. ASSUME NEW n \in Connects, wait' = [wait EXCEPT ![n] = NextWait], httpClient' = httpClient
        PROVE  wait'[k].at = "asked" => wait'[k].client = httpClient'
    <3>1. NextWait.at = "asked" => NextWait.client = httpClient'
      BY DEF NextWait, NoWait, Polled
    <3>2. wait'[k] = IF k = n THEN NextWait ELSE wait[k]
      BY <2>0, <2>2
    <3> QED
      BY <2>0, <2>2, <3>1, <3>2
  <2>3. ASSUME NEW n \in Connects, Connect(n) \/ SignedOut
        PROVE  wait'[k].at = "asked" => wait'[k].client = httpClient'
    <3>1. wait'[k] = Cancelled(wait[k])
      BY <2>3 DEF Connect, SignedOut
    <3>2. wait[k] \in Waiting
      BY <2>0
    <3>3. wait'[k].at # "asked"
      BY <2>0, <3>1, <3>2 DEF Cancelled, Waiting
    <3> QED
      BY <3>3
  <2>4. ASSUME NEW n \in Connects, WaitEnds(n) \/ MessageAwaits(n)
        PROVE  wait'[k].at = "asked" => wait'[k].client = httpClient'
    <3>1. httpClient' = httpClient /\ \E at \in {"answered", "failed", "handling"} :
            wait' = [wait EXCEPT ![n].at = at]
      BY <2>4 DEF WaitEnds, MessageAwaits, session
    <3>2. PICK at \in {"answered", "failed", "handling"} : wait' = [wait EXCEPT ![n].at = at]
      BY <3>1
    <3>3. wait'[k] = IF k = n THEN [wait[n] EXCEPT !.at = at] ELSE wait[k]
      BY <2>0, <3>2
    <3>4. k = n => wait'[k].at = at
      BY <2>0, <3>3 DEF Waiting
    <3> QED
      BY <2>0, <3>1, <3>3, <3>4
  <2>5. ASSUME NEW n \in Connects, NEW new \in SUBSET Peers,
               \/ SignInEnds(n) \/ SignInFailed(n) \/ SignInUnreadable(n, new)
        PROVE  wait' = wait /\ httpClient' = httpClient
    BY <2>5 DEF SignInEnds, SignInFailed, SignInUnreadable, session
  <2>6. CASE SignOut \/ SignOutEnds \/ SignOutRefused \/ UNCHANGED signaller
    BY <2>1, <2>6 DEF SignOut, SignOutEnds, SignOutRefused, signaller, session
  <2>7. CASE SignedOut
    <3>1. wait'[k] = Cancelled(wait[k]) /\ wait[k] \in Waiting
      BY <2>0, <2>7 DEF SignedOut
    <3>2. wait'[k].at # "asked"
      BY <2>0, <3>1 DEF Cancelled, Waiting
    <3> QED
      BY <3>2
  <2> QED
    BY <2>1, <2>2, <2>3, <2>4, <2>5, <2>6, <2>7
    DEF SignallerSteps, WaitFailed, Message, MessageHandled, Notified, Waits, SignedIn
<1> QED
  BY <1>1, <1>2, SignallerTyped, StepsOfSignaller, PTL DEF Spec

\* A connected client of the Unity plugin that has an HttpClient has a read loop,
\* which waits for requests of this HttpClient only, whatever fails, awaits or
\* overlaps (HangingGetReadLoopAsync).  A client that has none hears nothing.
THEOREM ClientAlwaysListens == Spec => []ClientListens
<1>1. HasLoop /\ PresentClient => ClientListens
  BY DEF HasLoop, PresentClient, ClientListens
<1> QED
  BY <1>1, AlwaysHasLoop, AlwaysPresentClient, PTL

-----------------------------------------------------------------------------
(* Lists without doubles *)

\* A list in which nothing is there twice.
Once(s) == \A i, j \in DOMAIN s : s[i] = s[j] => i = j

\* SetToSeq lists each element of a finite set once.
LEMMA ListsAll ==
  ASSUME NEW S, IsFiniteSet(S)
  PROVE  /\ SetToSeq(S) \in Seq(S)
         /\ Once(SetToSeq(S))
         /\ \A x \in S : \E i \in 1..Len(SetToSeq(S)) : SetToSeq(S)[i] = x
<1> DEFINE D == 1..Cardinality(S)
           f == SetToSeq(S)
<1>1. Cardinality(S) \in Nat /\ ExistsBijection(D, S)
  BY FS_CardinalityType
<1>2. PICK g \in [D -> S] : IsInjective(g)
  BY <1>1 DEF ExistsBijection, Bijection, Injection
<1>3. f \in [D -> S] /\ IsInjective(f)
  BY <1>2 DEF SetToSeq
<1>4. f \in Injection(D, S) /\ IsFiniteSet(D) /\ Cardinality(D) = Cardinality(S)
  BY <1>1, <1>3, FS_Interval DEF Injection
<1>5. f \in Surjection(D, S)
  BY <1>4, FS_Injection
<1>6. f \in Seq(S) /\ Len(f) = Cardinality(S) /\ DOMAIN f = D
  BY <1>1, <1>3
<1> QED
  BY <1>3, <1>5, <1>6 DEF Surjection, IsInjective, Once

\* A list in which each element is there once is as long as the set it lists.
LEMMA AsLongAsItsSet ==
  ASSUME NEW S, NEW s \in Seq(S), Once(s)
  PROVE  Len(s) = Cardinality(ToSet(s))
<1>1. Len(s) \in Nat /\ DOMAIN s = 1..Len(s)
  OBVIOUS
<1>2. s \in [1..Len(s) -> ToSet(s)]
  BY <1>1 DEF ToSet
<1>3. s \in Bijection(1..Len(s), ToSet(s))
  BY <1>1, <1>2 DEF Bijection, Injection, Surjection, IsInjective, Once, ToSet
<1> QED
  BY <1>1, <1>3, FS_CountingElements DEF ExistsBijection

\* What RemoveAt leaves.
LEMMA RemovesAt ==
  ASSUME NEW S, NEW s \in Seq(S), NEW k \in 1..Len(s)
  PROVE  /\ RemoveAt(s, k) \in Seq(S)
         /\ Len(RemoveAt(s, k)) = Len(s) - 1
         /\ \A i \in 1..(Len(s) - 1) : RemoveAt(s, k)[i] = IF i < k THEN s[i] ELSE s[i + 1]
<1> DEFINE a == SubSeq(s, 1, k - 1)
           b == SubSeq(s, k + 1, Len(s))
<1>1. Len(s) \in Nat
  OBVIOUS
<1>2. a \in Seq(S) /\ Len(a) = k - 1 /\ \A i \in 1..(k - 1) : a[i] = s[i]
  BY <1>1, SubSeqProperties
<1>3. b \in Seq(S) /\ Len(b) = Len(s) - k /\ \A i \in 1..(Len(s) - k) : b[i] = s[k + i]
  BY <1>1, SubSeqProperties
<1>4. RemoveAt(s, k) = a \o b
  BY DEF RemoveAt
<1> HIDE DEF a, b
<1>5. /\ a \o b \in Seq(S) /\ Len(a \o b) = Len(a) + Len(b)
      /\ \A i \in 1..(Len(a) + Len(b)) : (a \o b)[i] = IF i <= Len(a) THEN a[i] ELSE b[i - Len(a)]
  BY <1>2, <1>3, ConcatProperties
<1> QED
  BY <1>1, <1>2, <1>3, <1>4, <1>5

\* A set of numbers that is not empty has a smallest one.
LEMMA HasSmallest ==
  ASSUME NEW I \in SUBSET Nat, I # {}
  PROVE  Min(I) \in I
<1> DEFINE R == {pair \in Nat \X Nat : pair[1] < pair[2]}
<1>1. IsWellFoundedOn(R, Nat)
  <2>1. R = OpToRel(<, Nat)
    BY DEF OpToRel
  <2> QED
    BY <2>1, NatLessThanWellFounded
<1>2. PICK k \in I : \A i \in I : <<i, k>> \notin R
  BY <1>1, WFMin
<1>3. ASSUME NEW i \in I
      PROVE  k <= i
  <2>1. <<i, k>> \in Nat \X Nat /\ <<i, k>>[1] = i /\ <<i, k>>[2] = k
    OBVIOUS
  <2> QED
    BY <1>2, <2>1
<1> QED
  BY <1>3 DEF Min

\* What RemoveFirst takes away and leaves.
LEMMA RemovesFirst ==
  ASSUME NEW S, NEW s \in Seq(S), NEW e
  PROVE  /\ RemoveFirst(s, e) \in Seq(S)
         /\ \A x : x # e => (x \in ToSet(RemoveFirst(s, e)) <=> x \in ToSet(s))
         /\ ToSet(RemoveFirst(s, e)) \subseteq ToSet(s)
         /\ Once(s) => Once(RemoveFirst(s, e)) /\ e \notin ToSet(RemoveFirst(s, e))
<1> DEFINE r == RemoveFirst(s, e)
<1>1. CASE ~\E i \in 1..Len(s) : s[i] = e
  BY <1>1 DEF RemoveFirst, ToSet
<1>2. CASE \E i \in 1..Len(s) : s[i] = e
  <2>1. PICK k \in 1..Len(s) : s[k] = e /\ r = RemoveAt(s, k)
    <3> DEFINE I == {i \in 1..Len(s) : s[i] = e}
    <3>1. I \in SUBSET Nat /\ I # {}
      BY <1>2
    <3>2. Min(I) \in I
      BY <3>1, HasSmallest
    <3>3. r = RemoveAt(s, Min(I))
      BY <1>2, <3>1 DEF RemoveFirst, SelectInSeq
    <3> QED
      BY <3>2, <3>3
  <2>2. /\ Len(s) \in Nat /\ r \in Seq(S) /\ Len(r) = Len(s) - 1
        /\ \A i \in 1..(Len(s) - 1) : r[i] = IF i < k THEN s[i] ELSE s[i + 1]
    <3>1. Len(s) \in Nat
      OBVIOUS
    <3> HIDE DEF r
    <3> QED
      BY <2>1, <3>1, RemovesAt
  <2> HIDE DEF r
  <2>3. ASSUME NEW x, x # e, x \in ToSet(s)
        PROVE  x \in ToSet(r)
    <3>1. PICK i \in 1..Len(s) : s[i] = x
      BY <2>3 DEF ToSet
    <3>2. i # k
      BY <2>1, <2>3, <3>1
    <3>3. CASE i < k
      BY <2>2, <3>1, <3>3 DEF ToSet
    <3>4. CASE i > k
      <4>1. i - 1 \in 1..(Len(s) - 1) /\ r[i - 1] = s[i]
        BY <2>2, <3>4
      <4> QED
        BY <2>2, <3>1, <4>1 DEF ToSet
    <3> QED
      BY <2>2, <3>2, <3>3, <3>4
  <2>4. ToSet(r) \subseteq ToSet(s)
    BY <2>2 DEF ToSet
  <2>5. ASSUME Once(s)
        PROVE  Once(r) /\ e \notin ToSet(r)
    <3>1. \A i \in DOMAIN r : \E j \in DOMAIN s : r[i] = s[j] /\ j # k /\ j = IF i < k THEN i ELSE i + 1
      BY <2>2
    <3>2. \A i, j \in DOMAIN r : r[i] = r[j] => i = j
      BY <2>2, <2>5, <3>1 DEF Once
    <3>3. \A i \in DOMAIN r : r[i] # e
      <4> SUFFICES ASSUME NEW i \in DOMAIN r, r[i] = e
                   PROVE  FALSE
        OBVIOUS
      <4>1. PICK j \in DOMAIN s : r[i] = s[j] /\ j # k
        BY <3>1
      <4> QED
        BY <2>1, <2>5, <4>1 DEF Once
    <3> QED
      BY <3>2, <3>3 DEF Once, ToSet
  <2> QED
    BY <2>2, <2>3, <2>4, <2>5 DEF r
<1> QED
  BY <1>1, <1>2

-----------------------------------------------------------------------------
(* The changes of the list that are queued *)

\* The changes that are queued: no one but a peer is added or removed.
Changes == ({"add", "remove"} \X Peers) \cup {<<"clear", NoPeer>>}

\* The events of one kind that a new list raises.
Each(op, S) == [i \in 1..Len(SetToSeq(S)) |-> <<op, SetToSeq(S)[i]>>]

\* There is one for each peer.
LEMMA EachOnce ==
  ASSUME NEW op \in {"add", "remove"}, NEW S \in SUBSET Peers
  PROVE  /\ Each(op, S) \in Seq(Changes) /\ Len(Each(op, S)) \in Nat
         /\ \A i \in 1..Len(Each(op, S)) : \E p \in S : Each(op, S)[i] = <<op, p>>
         /\ \A p \in S : \E i \in 1..Len(Each(op, S)) : Each(op, S)[i] = <<op, p>>
         /\ \A i, j \in 1..Len(Each(op, S)) : Each(op, S)[i] = Each(op, S)[j] => i = j
<1> DEFINE s == SetToSeq(S)
           e == Each(op, S)
<1>1. IsFiniteSet(S)
  BY UnityAssumption, FS_Subset
<1>2. s \in Seq(S) /\ Once(s) /\ \A x \in S : \E i \in 1..Len(s) : s[i] = x
  BY <1>1, ListsAll
<1> HIDE DEF s
<1>3. Len(s) \in Nat /\ DOMAIN s = 1..Len(s) /\ \A i \in 1..Len(s) : s[i] \in S
  BY <1>2
<1>4. e = [i \in 1..Len(s) |-> <<op, s[i]>>]
  BY DEF Each, s
<1> HIDE DEF e
<1>5. e \in Seq(Changes) /\ Len(e) = Len(s)
  BY <1>3, <1>4 DEF Changes
<1>6. \A i \in 1..Len(e) : e[i] = <<op, s[i]>> /\ e[i][2] = s[i] /\ s[i] \in S
  BY <1>3, <1>4, <1>5
<1>7. \A p \in S : \E i \in 1..Len(e) : e[i] = <<op, p>>
  <2> SUFFICES ASSUME NEW p \in S
               PROVE  \E i \in 1..Len(e) : e[i] = <<op, p>>
    OBVIOUS
  <2>1. PICK i \in 1..Len(s) : s[i] = p
    BY <1>2
  <2> QED
    BY <1>5, <1>6, <2>1
<1>8. ASSUME NEW i \in 1..Len(e), NEW j \in 1..Len(e), e[i] = e[j]
      PROVE  i = j
  <2>1. s[i] = s[j]
    BY <1>6, <1>8
  <2> QED
    BY <1>2, <1>3, <1>5, <1>8, <2>1 DEF Once
<1> QED
  BY <1>3, <1>5, <1>6, <1>7, <1>8 DEF e

\* A new list queues an addition for each peer that came and a removal for each
\* that went, behind the changes that wait.
LEMMA AnnouncedEach ==
  ASSUME uiQueue \in Seq(Changes), peers \in SUBSET Peers, NEW new \in SUBSET Peers,
         NEW a, a = Announced(new)
  PROVE  /\ a \in Seq(Changes) /\ Len(a) \in Nat /\ Len(uiQueue) \in Nat /\ Len(uiQueue) <= Len(a)
         /\ \A i \in 1..Len(uiQueue) : a[i] = uiQueue[i]
         /\ \A k \in (Len(uiQueue) + 1)..Len(a) : \/ \E p \in new \ peers : a[k] = <<"add", p>>
                                                 \/ \E p \in peers \ new : a[k] = <<"remove", p>>
         /\ \A p \in new \ peers : \E k \in (Len(uiQueue) + 1)..Len(a) : a[k] = <<"add", p>>
         /\ \A p \in peers \ new : \E k \in (Len(uiQueue) + 1)..Len(a) : a[k] = <<"remove", p>>
         /\ \A j, k \in (Len(uiQueue) + 1)..Len(a) : a[j] = a[k] => j = k
<1> DEFINE came == Each("add", new \ peers)
           went == Each("remove", peers \ new)
           L == Len(uiQueue)
<1>1. /\ came \in Seq(Changes) /\ Len(came) \in Nat
      /\ \A i \in 1..Len(came) : \E p \in new \ peers : came[i] = <<"add", p>>
      /\ \A p \in new \ peers : \E i \in 1..Len(came) : came[i] = <<"add", p>>
      /\ \A i, j \in 1..Len(came) : came[i] = came[j] => i = j
  <2>1. new \ peers \in SUBSET Peers /\ "add" \in {"add", "remove"}
    OBVIOUS
  <2> QED
    BY <2>1, EachOnce
<1>2. /\ went \in Seq(Changes) /\ Len(went) \in Nat
      /\ \A i \in 1..Len(went) : \E p \in peers \ new : went[i] = <<"remove", p>>
      /\ \A p \in peers \ new : \E i \in 1..Len(went) : went[i] = <<"remove", p>>
      /\ \A i, j \in 1..Len(went) : went[i] = went[j] => i = j
  <2>1. peers \ new \in SUBSET Peers /\ "remove" \in {"add", "remove"}
    OBVIOUS
  <2> QED
    BY <2>1, EachOnce
<1>3. a = (uiQueue \o came) \o went
  BY DEF Announced, Each
<1> HIDE DEF came, went
<1>4. L \in Nat
  OBVIOUS
<1>5. /\ uiQueue \o came \in Seq(Changes) /\ Len(uiQueue \o came) = L + Len(came)
      /\ \A i \in 1..(L + Len(came)) : (uiQueue \o came)[i] = IF i <= L THEN uiQueue[i] ELSE came[i - L]
  BY <1>1, ConcatProperties
<1>6. /\ a \in Seq(Changes) /\ Len(a) = L + Len(came) + Len(went)
      /\ \A i \in 1..(L + Len(came) + Len(went)) :
           a[i] = IF i <= L THEN uiQueue[i]
                  ELSE IF i <= L + Len(came) THEN came[i - L] ELSE went[i - L - Len(came)]
  <2>1. /\ (uiQueue \o came) \o went \in Seq(Changes)
        /\ Len((uiQueue \o came) \o went) = Len(uiQueue \o came) + Len(went)
        /\ \A i \in 1..(Len(uiQueue \o came) + Len(went)) :
             ((uiQueue \o came) \o went)[i] =
               IF i <= Len(uiQueue \o came) THEN (uiQueue \o came)[i] ELSE went[i - Len(uiQueue \o came)]
    BY <1>2, <1>5, ConcatProperties
  <2> QED
    BY <1>1, <1>2, <1>3, <1>4, <1>5, <2>1
<1> DEFINE News == (L + 1)..Len(a)
           C == Len(came)
           W == Len(went)
<1>7. /\ L \in Nat /\ C \in Nat /\ W \in Nat /\ News = (L + 1)..(L + C + W)
      /\ \A i \in 1..L : a[i] = uiQueue[i]
      /\ \A k \in (L + 1)..(L + C) : a[k] = came[k - L]
      /\ \A k \in (L + C + 1)..(L + C + W) : a[k] = went[k - L - C]
  BY <1>1, <1>2, <1>4, <1>6
<1> HIDE DEF News, C, W, L
<1>8. ASSUME NEW k \in News
      PROVE  \/ k \in (L + 1)..(L + C) /\ k - L \in 1..C /\ a[k] = came[k - L]
             \/ k \in (L + C + 1)..(L + C + W) /\ k - L - C \in 1..W /\ a[k] = went[k - L - C]
  <2>1. \/ k \in (L + 1)..(L + C) /\ k - L \in 1..C
        \/ k \in (L + C + 1)..(L + C + W) /\ k - L - C \in 1..W
    BY <1>7
  <2> QED
    BY <1>7, <2>1
<1>9. ASSUME NEW p \in new \ peers
      PROVE  \E k \in News : a[k] = <<"add", p>>
  <2>1. PICK i \in 1..C : came[i] = <<"add", p>>
    BY <1>1 DEF C
  <2>2. L + i \in News /\ L + i \in (L + 1)..(L + C) /\ (L + i) - L = i
    BY <1>7
  <2> QED
    BY <1>7, <2>1, <2>2
<1>10. ASSUME NEW p \in peers \ new
       PROVE  \E k \in News : a[k] = <<"remove", p>>
  <2>1. PICK i \in 1..W : went[i] = <<"remove", p>>
    BY <1>2 DEF W
  <2>2. L + C + i \in News /\ L + C + i \in (L + C + 1)..(L + C + W) /\ (L + C + i) - L - C = i
    BY <1>7
  <2> QED
    BY <1>7, <2>1, <2>2
<1>11. \A i \in 1..C : \E p \in new \ peers : came[i] = <<"add", p>>
  BY <1>1 DEF C
<1>12. \A i \in 1..W : \E p \in peers \ new : went[i] = <<"remove", p>>
  BY <1>2 DEF W
<1>13. \A k \in News : \/ \E p \in new \ peers : a[k] = <<"add", p>>
                       \/ \E p \in peers \ new : a[k] = <<"remove", p>>
  BY <1>8, <1>11, <1>12
<1>14. ASSUME NEW j \in News, NEW k \in News, a[j] = a[k]
       PROVE  j = k
  <2>1. CASE k - L \in 1..C /\ a[k] = came[k - L] /\ j - L \in 1..C /\ a[j] = came[j - L]
    <3>1. j - L = k - L
      BY <1>1, <1>14, <2>1 DEF C
    <3> QED
      BY <1>7, <3>1 DEF News
  <2>2. CASE k - L - C \in 1..W /\ a[k] = went[k - L - C] /\ j - L - C \in 1..W /\ a[j] = went[j - L - C]
    <3>1. j - L - C = k - L - C
      BY <1>2, <1>14, <2>2 DEF W
    <3> QED
      BY <1>7, <3>1 DEF News
  <2>3. \A i \in 1..C, m \in 1..W : came[i] # went[m]
    BY <1>11, <1>12
  <2> QED
    BY <1>8, <1>14, <2>1, <2>2, <2>3
<1>15. L <= Len(a) /\ Len(a) \in Nat
  BY <1>6, <1>7 DEF L, C, W
<1> QED
  BY <1>6, <1>7, <1>9, <1>10, <1>13, <1>14, <1>15 DEF L, News

\* What the list will show when the changes that wait are made.  Position 0 is
\* the list as it is; a later one is a change that waits.
Entry(i, p) == IF i = 0 THEN p \in ToSet(uiPeers) ELSE uiQueue[i] = <<"add", p>>
Clears(k) == uiQueue[k][1] = "clear"
Takes(k, p) == Clears(k) \/ uiQueue[k] = <<"remove", p>>
Lasts(i, p) == Entry(i, p) /\ \A k \in 1..Len(uiQueue) : i < k => ~Takes(k, p)

\* The peers of the signaller are those whose entry lasts.
WillShow == \A p \in Peers : p \in peers <=> \E i \in 0..Len(uiQueue) : Lasts(i, p)

\* Before a peer is added again, it is taken away; or the list is cleared later.
NoTwins ==
  \A p \in Peers : \A i, j \in 0..Len(uiQueue) :
    i < j /\ Entry(i, p) /\ Entry(j, p) =>
      \E k \in 1..Len(uiQueue) : i < k /\ (Clears(k) \/ (k <= j /\ Takes(k, p)))

\* A list that shows a peer twice will be cleared.
ShownOnce == Once(uiPeers) \/ \E k \in 1..Len(uiQueue) : Clears(k)

Shows == WillShow /\ NoTwins /\ ShownOnce

UiTypes ==
  /\ uiQueue \in Seq(Changes) /\ uiPeers \in Seq(Peers) /\ peers \in SUBSET Peers

\* The events of a new list of peers keep what will be shown right.
LEMMA NewListShows ==
  ASSUME UiTypes, Shows, NEW new \in SUBSET Peers,
         PeersChange(new), peers' = new
  PROVE  Shows' /\ uiQueue' \in Seq(Changes)
<1> DEFINE L == Len(uiQueue)
           M == Len(uiQueue')
<1>1. /\ uiQueue' \in Seq(Changes) /\ M \in Nat /\ L \in Nat /\ L <= M
      /\ \A i \in 1..L : uiQueue'[i] = uiQueue[i]
      /\ \A k \in (L + 1)..M : \/ \E p \in new \ peers : uiQueue'[k] = <<"add", p>>
                               \/ \E p \in peers \ new : uiQueue'[k] = <<"remove", p>>
      /\ \A p \in new \ peers : \E k \in (L + 1)..M : uiQueue'[k] = <<"add", p>>
      /\ \A p \in peers \ new : \E k \in (L + 1)..M : uiQueue'[k] = <<"remove", p>>
      /\ \A j, k \in (L + 1)..M : uiQueue'[j] = uiQueue'[k] => j = k
  <2>1. uiQueue' = Announced(new)
    BY DEF PeersChange
  <2>2. uiQueue \in Seq(Changes) /\ peers \in SUBSET Peers
    BY DEF UiTypes
  <2>3. uiQueue' \in Seq(Changes) /\ M \in Nat /\ L \in Nat /\ L <= M
    BY <2>1, <2>2, AnnouncedEach
  <2>4. \A i \in 1..L : uiQueue'[i] = uiQueue[i]
    BY <2>1, <2>2, AnnouncedEach
  <2>5. \A k \in (L + 1)..M : \/ \E p \in new \ peers : uiQueue'[k] = <<"add", p>>
                              \/ \E p \in peers \ new : uiQueue'[k] = <<"remove", p>>
    BY <2>1, <2>2, AnnouncedEach
  <2>6. \A p \in new \ peers : \E k \in (L + 1)..M : uiQueue'[k] = <<"add", p>>
    BY <2>1, <2>2, AnnouncedEach
  <2>7. \A p \in peers \ new : \E k \in (L + 1)..M : uiQueue'[k] = <<"remove", p>>
    BY <2>1, <2>2, AnnouncedEach
  <2>8. \A j, k \in (L + 1)..M : uiQueue'[j] = uiQueue'[k] => j = k
    BY <2>1, <2>2, AnnouncedEach
  <2> QED
    BY <2>3, <2>4, <2>5, <2>6, <2>7, <2>8
<1> HIDE DEF L, M
<1>2. \A i \in 0..L, p \in Peers : Entry(i, p)' <=> Entry(i, p)
  BY <1>1 DEF Entry, PeersChange
<1>3. \A k \in 1..L : (Clears(k)' <=> Clears(k)) /\ \A p \in Peers : Takes(k, p)' <=> Takes(k, p)
  BY <1>1 DEF Takes, Clears
<1>4. \A k \in (L + 1)..M, p \in Peers : Entry(k, p)' => p \in new \ peers
  BY <1>1 DEF Entry
<1>5. \A k \in (L + 1)..M, p \in Peers : Takes(k, p)' => p \in peers \ new
  BY <1>1 DEF Takes, Clears
<1>6. WillShow'
  <2> SUFFICES ASSUME NEW p \in Peers
               PROVE  p \in new <=> \E i \in 0..M : Lasts(i, p)'
    BY DEF WillShow, M
  <2>1. ASSUME p \in new, p \in peers
        PROVE  \E i \in 0..M : Lasts(i, p)'
    <3>1. PICK i \in 0..L : Lasts(i, p)
      BY <2>1 DEF Shows, WillShow, L
    <3>2. i \in 0..M /\ Entry(i, p)'
      BY <1>1, <1>2, <3>1 DEF Lasts
    <3>3. ASSUME NEW k \in 1..M, i < k
          PROVE  ~Takes(k, p)'
      <4>1. k \in 1..L \/ k \in (L + 1)..M
        BY <1>1
      <4> QED
        BY <1>3, <1>5, <2>1, <3>1, <3>3, <4>1 DEF Lasts, L
    <3> QED
      BY <3>2, <3>3 DEF Lasts, M
  <2>2. ASSUME p \in new, p \notin peers
        PROVE  \E i \in 0..M : Lasts(i, p)'
    <3>1. PICK i \in (L + 1)..M : uiQueue'[i] = <<"add", p>>
      BY <1>1, <2>2
    <3>2. i \in 0..M /\ i # 0
      BY <1>1
    <3>3. Entry(i, p)'
      BY <3>1, <3>2 DEF Entry
    <3>4. ASSUME NEW k \in 1..M, i < k
          PROVE  ~Takes(k, p)'
      <4>1. k \in (L + 1)..M
        BY <1>1, <3>4
      <4> QED
        BY <1>5, <2>2, <4>1
    <3> QED
      BY <3>2, <3>3, <3>4 DEF Lasts, M
  <2>3. ASSUME p \notin new, NEW i \in 0..M, Lasts(i, p)'
        PROVE  FALSE
    <3>1. Entry(i, p)'
      BY <2>3 DEF Lasts
    <3>2. i \in 0..L
      <4>1. i \in 0..L \/ i \in (L + 1)..M
        BY <1>1
      <4> QED
        BY <1>4, <2>3, <3>1, <4>1
    <3>3. Lasts(i, p)
      <4>1. \A k \in 1..L : i < k => ~Takes(k, p)
        BY <1>1, <1>3, <2>3 DEF Lasts, M
      <4> QED
        BY <1>2, <3>1, <3>2, <4>1 DEF Lasts, L
    <3>4. p \in peers \ new
      BY <2>3, <3>2, <3>3 DEF Shows, WillShow, L
    <3>5. PICK k \in (L + 1)..M : uiQueue'[k] = <<"remove", p>>
      BY <1>1, <3>4
    <3>6. k \in 1..M /\ i < k
      BY <1>1, <3>2
    <3> QED
      BY <2>3, <3>5, <3>6 DEF Lasts, Takes, M
  <2> QED
    BY <2>1, <2>2, <2>3
<1>7. NoTwins'
  <2> SUFFICES ASSUME NEW p \in Peers, NEW i \in 0..M, NEW j \in 0..M,
                      i < j, Entry(i, p)', Entry(j, p)'
               PROVE  \E k \in 1..M : i < k /\ (Clears(k)' \/ (k <= j /\ Takes(k, p)'))
    BY DEF NoTwins, M
  <2>1. CASE j \in 0..L
    <3>1. i \in 0..L
      BY <1>1, <2>1
    <3>2. PICK k \in 1..L : i < k /\ (Clears(k) \/ (k <= j /\ Takes(k, p)))
      BY <1>2, <2>1, <3>1 DEF Shows, NoTwins, L
    <3> QED
      BY <1>1, <1>3, <3>2
  <2>2. CASE j \in (L + 1)..M /\ i \in 0..L
    <3>1. p \notin peers
      BY <1>4, <2>2
    <3>2. Entry(i, p) /\ ~Lasts(i, p)
      BY <1>2, <2>2, <3>1 DEF Shows, WillShow, L
    <3>3. PICK k \in 1..L : i < k /\ Takes(k, p)
      BY <3>2 DEF Lasts, L
    <3>4. k \in 1..M /\ k <= j /\ Takes(k, p)'
      BY <1>1, <1>3, <2>2, <3>3
    <3> QED
      BY <3>3, <3>4
  <2>3. CASE j \in (L + 1)..M /\ i \in (L + 1)..M
    <3>1. i # 0 /\ j # 0
      BY <1>1, <2>3
    <3>2. uiQueue'[i] = <<"add", p>> /\ uiQueue'[j] = <<"add", p>>
      BY <3>1 DEF Entry
    <3>3. i = j
      BY <1>1, <2>3, <3>2
    <3> QED
      BY <2>3, <3>3
  <2>4. (i \in 0..L \/ i \in (L + 1)..M) /\ (j \in 0..L \/ j \in (L + 1)..M)
    BY <1>1
  <2> QED
    BY <2>1, <2>2, <2>3, <2>4
<1>8. ShownOnce'
  <2>1. CASE Once(uiPeers)
    BY <2>1 DEF ShownOnce, PeersChange, Once
  <2>2. ASSUME NEW k \in 1..L, Clears(k)
        PROVE  ShownOnce'
    BY <1>1, <1>3, <2>2 DEF ShownOnce, M
  <2> QED
    BY <2>1, <2>2 DEF Shows, ShownOnce, L
<1> QED
  BY <1>1, <1>6, <1>7, <1>8 DEF Shows

\* A clear that is queued takes everything away, whatever was shown before.
LEMMA ClearShows ==
  ASSUME UiTypes, uiQueue' = Append(uiQueue, <<"clear", NoPeer>>), peers' = {}
  PROVE  Shows' /\ uiQueue' \in Seq(Changes)
<1>1. <<"clear", NoPeer>> \in Changes
  BY DEF Changes
<1>2. PICK N \in Nat \ {0} : N = Len(uiQueue) + 1
  BY LenProperties DEF UiTypes
<1>3. uiQueue' \in Seq(Changes) /\ Len(uiQueue') = N /\ uiQueue'[N] = <<"clear", NoPeer>>
  BY <1>1, <1>2, AppendProperties DEF UiTypes
<1>4. N \in 1..N /\ Clears(N)' /\ \A p \in Peers : ~Entry(N, p)'
  BY <1>3 DEF Clears, Entry
<1>5. \A i \in 0..N : i < N \/ i = N
  OBVIOUS
<1>6. \A p \in Peers, i \in 0..N : ~Lasts(i, p)'
  BY <1>3, <1>4, <1>5 DEF Lasts, Takes
<1>7. WillShow'
  BY <1>3, <1>6 DEF WillShow
<1>8. NoTwins'
  BY <1>3, <1>4, <1>5 DEF NoTwins
<1> QED
  BY <1>3, <1>4, <1>7, <1>8 DEF Shows, ShownOnce

\* A list that is cleared in time will show what it would have shown.
LEMMA EmptyShows ==
  ASSUME UiTypes, Shows, InTime, peers' = peers, uiQueue' = uiQueue, uiPeers' = <<>>
  PROVE  Shows'
<1>1. \A i \in 0..Len(uiQueue), p \in Peers :
        (Entry(i, p)' => i # 0 /\ Entry(i, p)) /\ (i # 0 /\ Entry(i, p) => Entry(i, p)')
  BY DEF Entry, ToSet
<1>2. \A k \in 1..Len(uiQueue), p \in Peers : (Takes(k, p)' <=> Takes(k, p)) /\ (Clears(k)' <=> Clears(k))
  BY DEF Takes, Clears
<1>3. WillShow'
  <2> SUFFICES ASSUME NEW p \in Peers
               PROVE  p \in peers <=> \E i \in 0..Len(uiQueue) : Lasts(i, p)'
    BY DEF WillShow
  <2>1. \A i \in 0..Len(uiQueue) : Lasts(i, p)' <=> i # 0 /\ Lasts(i, p)
    BY <1>1, <1>2 DEF Lasts
  <2>2. p \in peers <=> \E i \in 0..Len(uiQueue) : Lasts(i, p)
    BY DEF Shows, WillShow
  <2>3. p \in peers => ~Lasts(0, p)
    <3> SUFFICES ASSUME p \in peers, Lasts(0, p)
                 PROVE  FALSE
      OBVIOUS
    <3>1. p \in ToSet(uiPeers)
      BY DEF Lasts, Entry
    <3>2. <<"clear", NoPeer>> \in ToSet(uiQueue)
      BY <3>1 DEF InTime, ToSet
    <3>3. PICK k \in 1..Len(uiQueue) : uiQueue[k] = <<"clear", NoPeer>>
      BY <3>2 DEF ToSet, UiTypes
    <3>4. Takes(k, p) /\ 0 < k
      BY <3>3 DEF Takes, Clears
    <3> QED
      BY <3>4 DEF Lasts
  <2> QED
    BY <2>1, <2>2, <2>3
<1>4. NoTwins'
  BY <1>1, <1>2 DEF Shows, NoTwins
<1>5. Once(<<>>)
  BY DEF Once
<1> QED
  BY <1>3, <1>4, <1>5 DEF Shows, ShownOnce

\* What one change that is made does to an entry: an addition moves into the list.
LEMMA ChangeMoves ==
  ASSUME UiTypes, Shows, UiThread, NEW p \in Peers
  PROVE  /\ Entry(0, p)' => Entry(0, p) \/ Entry(1, p)
         /\ (Entry(0, p) /\ ~Takes(1, p)) \/ Entry(1, p) => Entry(0, p)'
         /\ Entry(0, p)' /\ Takes(1, p) => \E k \in 2..Len(uiQueue) : Clears(k)
<1> DEFINE op == Head(uiQueue)[1]
           q == Head(uiQueue)[2]
<1>1. /\ Len(uiQueue) \in Nat /\ 1 \in 1..Len(uiQueue) /\ uiQueue[1] = <<op, q>>
      /\ op = "clear" \/ (op \in {"add", "remove"} /\ q \in Peers)
      /\ uiPeers' = Changed(op, q)
  BY DEF UiTypes, UiThread, Changes
<1> HIDE DEF op, q
<1>2. Entry(0, p)' <=> p \in ToSet(uiPeers')
  BY DEF Entry
<1>3. Entry(0, p) <=> p \in ToSet(uiPeers)
  BY DEF Entry
<1>4. Entry(1, p) <=> op = "add" /\ q = p
  BY <1>1 DEF Entry
<1>5. (Clears(1) <=> op = "clear") /\ (Takes(1, p) <=> op = "clear" \/ (op = "remove" /\ q = p))
  BY <1>1 DEF Takes, Clears
<1>6. CASE op = "add"
  <2>1. uiPeers' = Append(uiPeers, q)
    BY <1>1, <1>6 DEF Changed
  <2>2. ToSet(uiPeers') = ToSet(uiPeers) \cup {q}
    BY <1>1, <2>1 DEF ToSet, UiTypes
  <2> QED
    BY <1>2, <1>3, <1>4, <1>5, <1>6, <2>2
<1>7. CASE op = "remove"
  <2>1. uiPeers' = RemoveFirst(uiPeers, q)
    BY <1>1, <1>7 DEF Changed
  <2>2. /\ \A x : x # q => (x \in ToSet(uiPeers') <=> x \in ToSet(uiPeers))
        /\ ToSet(uiPeers') \subseteq ToSet(uiPeers)
        /\ Once(uiPeers) => q \notin ToSet(uiPeers')
    BY <2>1, RemovesFirst DEF UiTypes
  <2>3. ~Once(uiPeers) => \E k \in 2..Len(uiQueue) : Clears(k)
    BY <1>1, <1>5, <1>7 DEF Shows, ShownOnce
  <2> QED
    BY <1>2, <1>3, <1>4, <1>5, <1>7, <2>2, <2>3
<1>8. CASE op = "clear"
  <2>1. ToSet(uiPeers') = {}
    BY <1>1, <1>8 DEF Changed, ToSet
  <2> QED
    BY <1>2, <1>4, <1>5, <1>8, <2>1
<1> QED
  BY <1>1, <1>6, <1>7, <1>8 DEF Operations

\* The UI thread's changes bring the list to what it will show.
LEMMA ChangeShows ==
  ASSUME UiTypes, Shows, UiThread, peers' = peers
  PROVE  Shows' /\ uiQueue' \in Seq(Changes) /\ uiPeers' \in Seq(Peers)
<1>1. PICK L \in Nat \ {0} : L = Len(uiQueue)
  BY DEF UiTypes, UiThread
<1>2. /\ uiQueue' \in Seq(Changes) /\ Len(uiQueue') = L - 1
      /\ \A k \in 1..(L - 1) : uiQueue'[k] = uiQueue[k + 1]
  BY <1>1 DEF UiTypes, UiThread
<1>3. \A k \in 1..(L - 1) : /\ Clears(k)' <=> Clears(k + 1)
                            /\ \A p \in Peers : /\ Entry(k, p)' <=> Entry(k + 1, p)
                                                /\ Takes(k, p)' <=> Takes(k + 1, p)
  BY <1>2 DEF Clears, Takes, Entry
<1>4. \A k \in 2..L : k - 1 \in 1..(L - 1) /\ (k - 1) + 1 = k
  BY <1>1
<1>5. WillShow'
  <2> SUFFICES ASSUME NEW p \in Peers
               PROVE  p \in peers <=> \E i \in 0..(L - 1) : Lasts(i, p)'
    BY <1>2 DEF WillShow
  <2>1. \A i \in 0..(L - 1) : Lasts(i, p)' <=> Entry(i, p)' /\ \A k \in 2..L : i + 1 < k => ~Takes(k, p)
    <3> SUFFICES ASSUME NEW i \in 0..(L - 1)
                 PROVE  (\A k \in 1..(L - 1) : i < k => ~Takes(k, p)') <=> \A k \in 2..L : i + 1 < k => ~Takes(k, p)
      BY <1>2 DEF Lasts
    <3>1. ASSUME \A k \in 1..(L - 1) : i < k => ~Takes(k, p)', NEW k \in 2..L, i + 1 < k
          PROVE  ~Takes(k, p)
      BY <1>3, <1>4, <3>1
    <3>2. ASSUME \A k \in 2..L : i + 1 < k => ~Takes(k, p), NEW k \in 1..(L - 1), i < k
          PROVE  ~Takes(k, p)'
      <4>1. k + 1 \in 2..L /\ i + 1 < k + 1
        BY <3>2
      <4> QED
        BY <1>3, <3>2, <4>1
    <3> QED
      BY <3>1, <3>2
  <2>2. ASSUME p \in peers
        PROVE  \E i \in 0..(L - 1) : Lasts(i, p)'
    <3>1. PICK i \in 0..L : Lasts(i, p)
      BY <1>1, <2>2 DEF Shows, WillShow
    <3>2. Entry(i, p) /\ \A k \in 1..L : i < k => ~Takes(k, p)
      BY <1>1, <3>1 DEF Lasts
    <3>3. CASE i \in {0, 1}
      <4>1. Entry(0, p)'
        <5>1. i = 0 => ~Takes(1, p)
          BY <3>2
        <5> QED
          BY <3>2, <3>3, <5>1, ChangeMoves
      <4>2. \A k \in 2..L : ~Takes(k, p)
        BY <3>2, <3>3
      <4> QED
        BY <2>1, <4>1, <4>2
    <3>4. CASE i \in 2..L
      <4>1. i - 1 \in 0..(L - 1) /\ Entry(i - 1, p)'
        BY <1>3, <1>4, <3>2, <3>4
      <4>2. \A k \in 2..L : (i - 1) + 1 < k => ~Takes(k, p)
        BY <3>2, <3>4
      <4> QED
        BY <2>1, <4>1, <4>2
    <3> QED
      BY <3>3, <3>4
  <2>3. ASSUME NEW i \in 0..(L - 1), Lasts(i, p)'
        PROVE  p \in peers
    <3>1. Entry(i, p)' /\ \A k \in 2..L : i + 1 < k => ~Takes(k, p)
      BY <2>1, <2>3
    <3>2. CASE i # 0
      <4>1. i + 1 \in 0..L /\ Entry(i + 1, p)
        BY <1>3, <3>1, <3>2
      <4>2. \A k \in 1..L : i + 1 < k => ~Takes(k, p)
        BY <3>1
      <4> QED
        BY <1>1, <4>1, <4>2 DEF Lasts, Shows, WillShow
    <3>3. CASE i = 0
      <4>1. \A k \in 2..L : ~Takes(k, p)
        BY <3>1, <3>3
      <4>2. ~Takes(1, p)
        BY <1>1, <3>1, <3>3, <4>1, ChangeMoves DEF Takes
      <4>3. \A k \in 1..L : ~Takes(k, p)
        BY <4>1, <4>2
      <4>4. Entry(0, p) \/ Entry(1, p)
        BY <3>1, <3>3, ChangeMoves
      <4>5. 0 \in 0..L /\ 1 \in 0..L
        OBVIOUS
      <4> QED
        BY <1>1, <4>3, <4>4, <4>5 DEF Lasts, Shows, WillShow
    <3> QED
      BY <3>2, <3>3
  <2> QED
    BY <2>2, <2>3
<1>6. NoTwins'
  <2> SUFFICES ASSUME NEW p \in Peers, NEW i \in 0..(L - 1), NEW j \in 0..(L - 1),
                      i < j, Entry(i, p)', Entry(j, p)'
               PROVE  \E k \in 1..(L - 1) : i < k /\ (Clears(k)' \/ (k <= j /\ Takes(k, p)'))
    BY <1>2 DEF NoTwins
  <2>1. SUFFICES \E k \in 2..L : i + 1 < k /\ (Clears(k) \/ (k <= j + 1 /\ Takes(k, p)))
    <3>1. ASSUME NEW k \in 2..L, i + 1 < k, Clears(k) \/ (k <= j + 1 /\ Takes(k, p))
          PROVE  /\ k - 1 \in 1..(L - 1) /\ i < k - 1
                 /\ Clears(k - 1)' \/ (k - 1 <= j /\ Takes(k - 1, p)')
      BY <1>3, <1>4, <3>1
    <3> QED
      BY <3>1
  <2>2. j + 1 \in 0..L /\ Entry(j + 1, p)
    BY <1>3
  <2>3. \A h \in 0..j : Entry(h, p) =>
          \E k \in 1..L : h < k /\ (Clears(k) \/ (k <= j + 1 /\ Takes(k, p)))
    BY <1>1, <2>2 DEF Shows, NoTwins
  <2>4. CASE i # 0
    <3>1. i + 1 \in 0..j /\ Entry(i + 1, p)
      BY <1>3, <2>4
    <3> QED
      BY <2>3, <3>1
  <2>5. CASE i = 0
    <3>1. Entry(0, p) \/ Entry(1, p)
      BY <2>5, ChangeMoves
    <3>2. CASE Takes(1, p)
      BY <1>1, <2>5, <3>2, ChangeMoves
    <3>3. CASE ~Takes(1, p)
      <4>1. PICK k \in 1..L : Clears(k) \/ (k <= j + 1 /\ Takes(k, p))
        BY <2>3, <2>5, <3>1
      <4>2. k # 1
        BY <3>3, <4>1 DEF Takes
      <4> QED
        BY <2>5, <4>1, <4>2
    <3> QED
      BY <3>2, <3>3
  <2> QED
    BY <2>4, <2>5
<1> DEFINE op == Head(uiQueue)[1]
           q == Head(uiQueue)[2]
<1>7. /\ uiQueue[1] = <<op, q>>
      /\ op = "clear" \/ (op \in {"add", "remove"} /\ q \in Peers)
      /\ uiPeers' = Changed(op, q)
  BY DEF UiTypes, UiThread, Changes
<1> HIDE DEF op, q
<1>8. ShownOnce'
  <2>1. ASSUME NEW k \in 2..L, Clears(k)
        PROVE  ShownOnce'
    <3>1. k - 1 \in 1..Len(uiQueue') /\ Clears(k - 1)'
      BY <1>2, <1>3, <1>4, <2>1
    <3> QED
      BY <3>1 DEF ShownOnce
  <2>2. CASE op = "clear"
    BY <1>7, <2>2 DEF Changed, ShownOnce, Once
  <2>3. CASE op = "remove" /\ Once(uiPeers)
    BY <1>7, <2>3, RemovesFirst DEF Changed, ShownOnce, UiTypes, Once
  <2>4. CASE op = "add" /\ Once(uiPeers)
    <3>1. uiPeers' = Append(uiPeers, q) /\ q \in Peers
      BY <1>7, <2>4 DEF Changed
    <3>2. CASE q \in ToSet(uiPeers)
      <4>1. Entry(0, q) /\ Entry(1, q) /\ ~Takes(1, q)
        BY <1>7, <2>4, <3>2 DEF Entry, Takes, Clears
      <4>2. PICK k \in 1..L : Clears(k) \/ (k <= 1 /\ Takes(k, q))
        BY <1>1, <3>1, <4>1 DEF Shows, NoTwins
      <4>3. k # 1 /\ Clears(k)
        BY <4>1, <4>2 DEF Takes
      <4> QED
        BY <2>1, <4>3
    <3>3. CASE q \notin ToSet(uiPeers)
      <4>1. /\ Len(uiPeers) \in Nat /\ Len(uiPeers') = Len(uiPeers) + 1
            /\ \A i \in 1..Len(uiPeers) : uiPeers'[i] = uiPeers[i] /\ uiPeers[i] # q
            /\ uiPeers'[Len(uiPeers) + 1] = q
        BY <3>1, <3>3 DEF UiTypes, ToSet
      <4>2. DOMAIN uiPeers' = 1..(Len(uiPeers) + 1) /\ DOMAIN uiPeers = 1..Len(uiPeers)
        BY <3>1 DEF UiTypes
      <4>3. ASSUME NEW i \in 1..(Len(uiPeers) + 1), NEW j \in 1..(Len(uiPeers) + 1), uiPeers'[i] = uiPeers'[j]
            PROVE  i = j
        <5>1. (i \in 1..Len(uiPeers) \/ i = Len(uiPeers) + 1) /\ (j \in 1..Len(uiPeers) \/ j = Len(uiPeers) + 1)
          BY <4>1
        <5> QED
          BY <2>4, <4>1, <4>2, <4>3, <5>1 DEF Once
      <4> QED
        BY <4>2, <4>3 DEF ShownOnce, Once
    <3> QED
      BY <3>2, <3>3
  <2>5. op # "clear" => ~Clears(1)
    BY <1>7 DEF Clears
  <2> QED
    BY <1>1, <1>7, <2>1, <2>2, <2>3, <2>4, <2>5 DEF Shows, ShownOnce, Operations
<1>9. uiPeers' \in Seq(Peers)
  BY <1>7, RemovesFirst DEF Changed, UiTypes
<1> QED
  BY <1>2, <1>5, <1>6, <1>8, <1>9 DEF Shows

-----------------------------------------------------------------------------
(* The signaller's part of the list *)

\* A read loop has the id of a session; a client that is not connected has none
\* and knows no peers, unless a list could not be read.
LoopsHaveId == \A n \in Connects : wait[n].at # "none" => wait[n].id # 0
OffMeansEmpty == state # "CONNECTED" => myId = 0 /\ peers = {}

LEMMA LoopsKeepId ==
  SignallerTypeOK /\ SessionFits' /\ LoopsHaveId /\ SignallerSteps => LoopsHaveId'
<1> SUFFICES ASSUME SignallerTypeOK, SessionFits', LoopsHaveId, SignallerSteps, NEW k \in Connects
             PROVE  wait'[k].at # "none" => wait'[k].id # 0
  BY DEF LoopsHaveId
<1>1. wait[k] \in Waiting /\ (wait[k].at # "none" => wait[k].id # 0)
  BY DEF SignallerTypeOK, LoopsHaveId, Waiting
<1>2. NextWait.at # "none" => NextWait.id # 0
  BY DEF NextWait, NoWait, Polled, SessionFits, IsConnected
<1>3. Cancelled(wait[k]).at # "none" => Cancelled(wait[k]).id # 0
  BY <1>1 DEF Cancelled, Waiting
<1>4. ASSUME NEW n \in Connects, wait' = [wait EXCEPT ![n] = NextWait]
      PROVE  wait'[k].at # "none" => wait'[k].id # 0
  <2>1. wait'[k] = IF k = n THEN NextWait ELSE wait[k]
    BY <1>4 DEF SignallerTypeOK
  <2> QED
    BY <1>1, <1>2, <2>1
<1>5. ASSUME NEW n \in Connects, WaitEnds(n) \/ MessageAwaits(n)
      PROVE  wait'[k].at # "none" => wait'[k].id # 0
  BY <1>1, <1>5 DEF WaitEnds, MessageAwaits, SignallerTypeOK, Waiting
<1>6. ASSUME NEW n \in Connects, Connect(n) \/ SignedOut
      PROVE  wait'[k].at # "none" => wait'[k].id # 0
  <2>1. wait'[k] = Cancelled(wait[k])
    BY <1>6 DEF Connect, SignedOut
  <2> QED
    BY <1>3, <2>1
<1>7. CASE SignedOut
  <2>1. wait'[k] = Cancelled(wait[k])
    BY <1>7 DEF SignedOut
  <2> QED
    BY <1>3, <2>1
<1>8. CASE wait' = wait
  BY <1>1, <1>8
<1> QED
  BY <1>4, <1>5, <1>6, <1>7, <1>8
  DEF SignallerSteps, SignInEnds, SignInFailed, WaitFailed, Message, MessageHandled, Waits, SignedIn,
    SignInUnreadable, Notified, SignOut, SignOutEnds, SignOutRefused, signaller

-----------------------------------------------------------------------------
(* Types *)

Conversing ==
  /\ peerId \in Peers \cup {NoPeer} /\ peerConnection \in BOOLEAN
  /\ calling \in [at : {"none", "media", "offer"}, peer : Peers \cup {NoPeer}]
  /\ calling.at # "none" => calling.peer \in Peers
  /\ hangingUp \in BOOLEAN

\* What a step does to the list and to the peers it shows.
ListSteps ==
  \/ UNCHANGED <<uiQueue, uiPeers, misled, peers, state, myId>>
  \/ misled' = TRUE /\ uiQueue' = uiQueue /\ uiPeers' \in {uiPeers, <<>>}
  \/ \E new \in SUBSET Peers :
       /\ PeersChange(new) /\ peers' = new
       /\ \/ state' = "CONNECTED"
          \/ /\ UNCHANGED <<state, myId>>
             /\ \E n \in Connects : wait[n].at # "none" /\ wait[n].id = myId
  \/ OnDisconnected
  \/ (state # "CONNECTED" \/ InTime) /\ uiPeers' = <<>> /\ UNCHANGED <<signaller, uiQueue, misled>>
  \/ UiThread

LEMMA StepsOfList == [Next]_vars => ListSteps
<1> SUFFICES ASSUME [Next]_vars
             PROVE  ListSteps
  OBVIOUS
<1> USE DEF ListSteps
<1>1. ASSUME NEW n \in Connects, NEW new \in SUBSET Peers, SignedIn(n, new), PeersChange(new)
      PROVE  ListSteps
  BY <1>1 DEF SignedIn
<1>2. ASSUME NEW n \in Connects, NEW new \in SUBSET Peers, Notified(n, new), PeersChange(new)
      PROVE  ListSteps
  BY <1>2 DEF Notified, Waits
<1>3. ASSUME NEW n \in Connects, OnUnreadable(n)
      PROVE  ListSteps
  BY <1>3 DEF OnUnreadable
<1>4. ASSUME NEW n \in Connects, UNCHANGED list,
             \/ Connect(n) \/ SignInEnds(n) \/ WaitEnds(n) \/ SignInFailed(n) \/ WaitFailed(n)
             \/ Message(n) \/ MessageAwaits(n) \/ MessageHandled(n)
      PROVE  ListSteps
  BY <1>4 DEF Connect, SignInEnds, WaitEnds, SignInFailed, WaitFailed, Message, MessageAwaits, MessageHandled,
    Waits, session, list
<1>5. ASSUME NEW n \in Connects, StartLogin(n) \/ ConnectGoesOn(n)
      PROVE  ListSteps
  BY <1>1, <1>3, <1>4, <1>5 DEF StartLogin, ConnectGoesOn, OnSignedIn, Signallers, list
<1>6. ASSUME NEW n \in Connects, LoopGoesOn(n)
      PROVE  ListSteps
  BY <1>2, <1>3, <1>4, <1>6
  DEF LoopGoesOn, OnNotified, OnMessageIgnored, OnOfferHandled, OnPeerHangup, OnOfferOfUnlisted, OnOffer, Signallers, list
<1>7. ASSUME NEW n \in Connects, (SignInEnds(n) \/ WaitEnds(n)) /\ Signallers
      PROVE  ListSteps
  BY <1>4, <1>7 DEF Signallers, list
<1>8. CASE DisconnectFromServer
  BY <1>8 DEF DisconnectFromServer, SignOut, session, list
<1>9. CASE (SignOutEnds /\ Signallers) \/ OnSignOutRefused
  BY <1>9 DEF SignOutEnds, OnSignOutRefused, SignOutRefused, Signallers, session, list
<1>11. CASE ClearList
  BY <1>11 DEF ClearList
<1>10. CASE MediaReady \/ OfferMade \/ DisconnectFromPeer \/ HangupSent \/ UNCHANGED vars
            \/ \E p \in Peers : ConnectToPeer(p)
  BY <1>10 DEF MediaReady, OfferMade, DisconnectFromPeer, HangupSent, ConnectToPeer, vars, signaller, session, list
<1> QED
  BY <1>5, <1>6, <1>7, <1>8, <1>9, <1>10, <1>11 DEF Next

\* Only peers are queued and shown.
LEMMA ListTypes ==
  ASSUME UiTypes, peers' \in SUBSET Peers, ListSteps
  PROVE  UiTypes'
<1>1. ASSUME NEW new \in SUBSET Peers, PeersChange(new)
      PROVE  UiTypes'
  BY <1>1, AnnouncedEach DEF PeersChange, UiTypes
<1>2. CASE OnDisconnected
  <2>1. <<"clear", NoPeer>> \in Changes
    BY DEF Changes
  <2> QED
    BY <1>2, <2>1, AppendProperties DEF OnDisconnected, UiTypes
<1>3. CASE UiThread
  <2>1. uiQueue' \in Seq(Changes) /\ Head(uiQueue) \in Changes
    BY <1>3 DEF UiThread, UiTypes
  <2>2. uiPeers' = Changed(Head(uiQueue)[1], Head(uiQueue)[2])
    BY <1>3 DEF UiThread
  <2>3. uiPeers' \in Seq(Peers)
    BY <2>1, <2>2, RemovesFirst DEF UiTypes, Changed, Changes
  <2> QED
    BY <2>1, <2>3 DEF UiTypes
<1>4. <<>> \in Seq(Peers)
  OBVIOUS
<1>5. CASE uiQueue' = uiQueue /\ uiPeers' \in {uiPeers, <<>>}
  BY <1>4, <1>5 DEF UiTypes
<1> QED
  BY <1>1, <1>2, <1>3, <1>5 DEF ListSteps, list

\* A call or a conversation is with a peer.
LEMMA ConversingStep ==
  ASSUME Conversing, SignallerTypeOK, UiTypes, [Next]_vars
  PROVE  Conversing'
<1> USE DEF Conversing
<1>1. ASSUME NEW n \in Connects, StartLogin(n) \/ ConnectGoesOn(n)
      PROVE  Conversing'
  BY <1>1 DEF StartLogin, ConnectGoesOn, OnSignedIn, OnUnreadable, OnPeersDisconnected, ClosePeerConnection,
    Signallers, conversation, call
<1>2. ASSUME NEW n \in Connects, LoopGoesOn(n)
      PROVE  Conversing'
  BY <1>2 DEF LoopGoesOn, OnNotified, OnMessageIgnored, OnOfferHandled, OnPeerHangup, OnOfferOfUnlisted, OnOffer,
    OnPeersDisconnected, ClosePeerConnection, Signallers, conversation, call
<1>3. CASE \/ Signallers \/ DisconnectFromServer \/ OnSignOutRefused \/ ClearList \/ UiThread
           \/ UNCHANGED vars
  BY <1>3 DEF Signallers, DisconnectFromServer, OnSignOutRefused, ClearList, UiThread, vars, conversation, call
<1>4. CASE OnDisconnected \/ DisconnectFromPeer \/ HangupSent
  BY <1>4 DEF OnDisconnected, DisconnectFromPeer, HangupSent, ClosePeerConnection, conversation, call
<1>5. CASE MediaReady \/ OfferMade \/ \E p \in Peers : ConnectToPeer(p)
  <2>1. CASE MediaReady
    BY <2>1 DEF MediaReady
  <2>2. CASE OfferMade
    BY <2>2 DEF OfferMade, conversation, NotCalling
  <2>3. ASSUME NEW p \in Peers, ConnectToPeer(p)
        PROVE  Conversing'
    BY <2>3 DEF ConnectToPeer
  <2> QED
    BY <1>5, <2>1, <2>2, <2>3
<1> QED
  BY <1>1, <1>2, <1>3, <1>4, <1>5 DEF Next

\* The user's choice is a peer, or no one yet.
Choosing == selectedPeer \in Peers \cup {NoPeer} /\ clearing \in BOOLEAN

LEMMA ChoosingStep ==
  ASSUME Choosing, UiTypes, [Next]_vars
  PROVE  Choosing'
<1> USE DEF Choosing
<1>1. CASE UNCHANGED <<selectedPeer, clearing>>
  BY <1>1
<1>2. ASSUME NEW n \in Connects, StartLogin(n) \/ ConnectGoesOn(n)
      PROVE  Choosing'
  BY <1>1, <1>2 DEF StartLogin, ConnectGoesOn, OnSignedIn, OnUnreadable, PeersChange, Signallers, list
<1>3. ASSUME NEW n \in Connects, LoopGoesOn(n)
      PROVE  Choosing'
  BY <1>1, <1>3 DEF LoopGoesOn, OnNotified, OnMessageIgnored, OnOfferHandled, OnPeerHangup,
    OnOfferOfUnlisted, OnOffer, PeersChange, Signallers, list
<1>4. CASE \/ Signallers \/ DisconnectFromServer \/ MediaReady \/ OfferMade
           \/ DisconnectFromPeer \/ HangupSent \/ UNCHANGED vars
  BY <1>1, <1>4 DEF Signallers, DisconnectFromServer, MediaReady, OfferMade, DisconnectFromPeer,
    HangupSent, vars, list
<1>5. CASE OnDisconnected \/ OnSignOutRefused \/ ClearList
  BY <1>5 DEF OnDisconnected, OnSignOutRefused, ClearList
<1>6. CASE \E p \in Peers : ConnectToPeer(p)
  BY <1>6 DEF ConnectToPeer
<1>7. CASE UiThread
  <2>1. Head(uiQueue) \in Changes
    BY <1>7 DEF UiThread, UiTypes
  <2>2. Head(uiQueue)[1] = "add" => Head(uiQueue)[2] \in Peers
    BY <2>1 DEF Changes
  <2> QED
    BY <1>7, <2>2 DEF UiThread
<1> QED
  BY <1>2, <1>3, <1>4, <1>5, <1>6, <1>7 DEF Next

Typed == SignallerTypeOK /\ Conversing /\ Choosing /\ UiTypes /\ misled \in BOOLEAN

LEMMA AlwaysTyped == Spec => []Typed
<1>1. Init /\ SignallerTypeOK => Typed
  <2> SUFFICES ASSUME Init, SignallerTypeOK
               PROVE  Typed
    OBVIOUS
  <2>1. Conversing
    BY DEF Init, Conversing, NotCalling
  <2>2. UiTypes
    BY DEF Init, UiTypes, SignallerInit
  <2>3. Choosing
    BY DEF Init, Choosing
  <2> QED
    BY <2>1, <2>2, <2>3 DEF Init, Typed
<1>2. Typed /\ [Next]_vars => Typed'
  <2> SUFFICES ASSUME Typed, [Next]_vars
               PROVE  Typed'
    OBVIOUS
  <2>1. SignallerTypeOK'
    BY SignallerTypes, StepsOfSignaller DEF Typed
  <2>2. Conversing' /\ Choosing'
    BY ConversingStep, ChoosingStep DEF Typed
  <2>3. UiTypes'
    BY <2>1, ListTypes, StepsOfList DEF Typed, SignallerTypeOK
  <2>4. misled' \in BOOLEAN
    BY StepsOfList DEF ListSteps, Typed, list, PeersChange, OnDisconnected, UiThread
  <2> QED
    BY <2>1, <2>2, <2>3, <2>4 DEF Typed
<1> QED
  BY <1>1, <1>2, SignallerTyped, PTL DEF Spec

\* The Unity client's state keeps its types (Signalling.cs, Conductor.cs).
THEOREM TypeCorrect == Spec => []TypeOK
<1>1. Typed => TypeOK
  <2>1. Changes \subseteq Operations \X (Peers \cup {NoPeer})
    BY DEF Changes, Operations
  <2>2. uiQueue \in Seq(Changes) => uiQueue \in Seq(Operations \X (Peers \cup {NoPeer}))
    BY <2>1
  <2> QED
    BY <2>2 DEF Typed, TypeOK, Conversing, Choosing, UiTypes
<1> QED
  BY <1>1, AlwaysTyped, PTL

-----------------------------------------------------------------------------
(* The list of peers *)

ListInv == LoopsHaveId /\ (misled \/ (OffMeansEmpty /\ Shows))

LEMMA ListStep ==
  ASSUME Typed, SessionFits', ListInv, [Next]_vars
  PROVE  ListInv'
<1>1. LoopsHaveId'
  BY LoopsKeepId, StepsOfSignaller DEF Typed, ListInv
<1>2. ASSUME ~misled'
      PROVE  OffMeansEmpty' /\ Shows'
  <2>1. CASE OnDisconnected
    <3>1. Shows'
      BY <2>1, ClearShows DEF OnDisconnected, SignedOut, Close, Typed
    <3> QED
      BY <2>1, <3>1 DEF OnDisconnected, SignedOut, Close, OffMeansEmpty
  <2>2. CASE ~OnDisconnected
    <3>1. ~misled /\ OffMeansEmpty /\ Shows /\ UiTypes
      BY <1>2, <2>2, StepsOfList DEF ListSteps, ListInv, Typed, list, PeersChange, UiThread
    <3>2. CASE UNCHANGED <<uiQueue, uiPeers, misled, peers, state, myId>>
      <4>1. uiQueue' = uiQueue /\ uiPeers' = uiPeers /\ peers' = peers
        BY <3>2
      <4>2. /\ \A k : Clears(k)' <=> Clears(k)
            /\ \A i, p : (Entry(i, p)' <=> Entry(i, p)) /\ (Takes(i, p)' <=> Takes(i, p))
        BY <4>1 DEF Clears, Entry, Takes
      <4>3. WillShow' /\ NoTwins' /\ ShownOnce'
        BY <3>1, <4>1, <4>2 DEF Shows, WillShow, NoTwins, ShownOnce, Lasts
      <4> QED
        BY <3>1, <3>2, <4>3 DEF Shows, OffMeansEmpty
    <3>3. ASSUME NEW new \in SUBSET Peers, PeersChange(new), peers' = new,
                 \/ state' = "CONNECTED"
                 \/ /\ UNCHANGED <<state, myId>>
                    /\ \E n \in Connects : wait[n].at # "none" /\ wait[n].id = myId
          PROVE  OffMeansEmpty' /\ Shows'
      <4>1. Shows'
        BY <3>1, <3>3, NewListShows
      <4>2. OffMeansEmpty'
        BY <3>1, <3>3 DEF OffMeansEmpty, ListInv, LoopsHaveId
      <4> QED
        BY <4>1, <4>2
    <3>4. CASE /\ state # "CONNECTED" \/ InTime
               /\ uiPeers' = <<>> /\ UNCHANGED <<signaller, uiQueue, misled>>
      <4>1. InTime /\ UNCHANGED <<state, myId, peers>>
        BY <3>1, <3>4 DEF OffMeansEmpty, InTime, signaller, session
      <4> QED
        BY <3>1, <3>4, <4>1, EmptyShows DEF OffMeansEmpty
    <3>5. CASE UiThread
      <4>1. UNCHANGED <<state, myId, peers>>
        BY <3>5 DEF UiThread, signaller, session
      <4> QED
        BY <3>1, <3>5, <4>1, ChangeShows DEF OffMeansEmpty
    <3> QED
      BY <1>2, <2>2, <3>2, <3>3, <3>4, <3>5, StepsOfList DEF ListSteps
  <2> QED
    BY <2>1, <2>2
<1> QED
  BY <1>1, <1>2 DEF ListInv

\* When the UI thread has caught up, the user's list shows the peers the
\* signaller knows, each once, for any number of peers, overlapping sign-ins
\* and queued changes; unless a reply could not be read or a clear that came late
\* emptied the list of a session (WebRtcControl.cs).
THEOREM ListShowsThePeers == Spec => []ListShowsPeers
<1>1. Init => ListInv
  <2> SUFFICES ASSUME Init
               PROVE  ListInv
    OBVIOUS
  <2>1. LoopsHaveId
    BY DEF Init, SignallerInit, LoopsHaveId, NoWait
  <2>2. Once(uiPeers) /\ OffMeansEmpty
    BY DEF Init, SignallerInit, Once, OffMeansEmpty
  <2>3. WillShow /\ NoTwins
    BY DEF Init, SignallerInit, WillShow, NoTwins, Lasts, Entry, ToSet
  <2> QED
    BY <2>1, <2>2, <2>3 DEF ListInv, Shows, ShownOnce
<1>2. Typed /\ SessionFits' /\ ListInv /\ [Next]_vars => ListInv'
  BY ListStep
<1>3. Typed /\ ListInv => ListShowsPeers
  <2> SUFFICES ASSUME Typed, ListInv, uiQueue = <<>>, ~misled
               PROVE  ToSet(uiPeers) = peers /\ Len(uiPeers) = Cardinality(peers)
    BY DEF ListShowsPeers
  <2>1. \A p \in Peers : p \in peers <=> p \in ToSet(uiPeers)
    <3>1. Len(uiQueue) = 0
      OBVIOUS
    <3>2. \A p \in Peers, i \in 0..0 : Lasts(i, p) <=> p \in ToSet(uiPeers)
      BY <3>1 DEF Lasts, Entry
    <3>3. \A p \in Peers : p \in peers <=> \E i \in 0..0 : Lasts(i, p)
      BY <3>1 DEF ListInv, Shows, WillShow
    <3>4. 0 \in 0..0
      OBVIOUS
    <3> QED
      BY <3>2, <3>3, <3>4
  <2>2. ToSet(uiPeers) \subseteq Peers /\ peers \subseteq Peers
    BY DEF Typed, UiTypes, ToSet
  <2>3. Once(uiPeers)
    BY DEF ListInv, Shows, ShownOnce
  <2>4. Len(uiPeers) = Cardinality(ToSet(uiPeers))
    BY <2>3, AsLongAsItsSet DEF Typed, UiTypes
  <2>5. ToSet(uiPeers) = peers
    BY <2>1, <2>2
  <2> QED
    BY <2>4, <2>5
<1> QED
  BY <1>1, <1>2, <1>3, AlwaysTyped, SessionAlwaysFits, PTL DEF Spec

\* A peer connection has the id of its peer; the only one that has not is that of
\* a call still waiting for its camera, which knows its peer itself.  No hang-up,
\* lost session or offer that overtakes the call makes another (Conductor.cs).
HasPeer ==
  peerConnection /\ peerId = NoPeer => calling.at = "media" /\ calling.peer \in Peers

THEOREM PeerConnectionHasPeer == Spec => []HasPeer
<1>1. Init => HasPeer
  BY DEF Init, HasPeer
<1>2. Typed /\ HasPeer /\ [Next]_vars => HasPeer'
  <2> SUFFICES ASSUME Typed, HasPeer, [Next]_vars
               PROVE  HasPeer'
    OBVIOUS
  <2> USE DEF HasPeer
  <2>1. CASE UNCHANGED <<conversation, call>>
    BY <2>1 DEF conversation, call
  <2>2. CASE (ClosePeerConnection \/ UNCHANGED conversation) /\ UNCHANGED calling
    BY <2>2 DEF ClosePeerConnection, conversation
  <2>3. ASSUME NEW n \in Connects, NEW p \in Peers, OnOfferOfUnlisted(n, p) \/ OnOffer(n, p)
        PROVE  HasPeer'
    BY <2>3, UnityAssumption DEF OnOfferOfUnlisted, OnOffer, Opens, call
  <2>4. ASSUME NEW p \in Peers, ConnectToPeer(p)
        PROVE  HasPeer'
    BY <2>4 DEF ConnectToPeer
  <2>5. CASE MediaReady
    BY <2>5, UnityAssumption DEF MediaReady, Typed, Conversing
  <2>6. CASE OfferMade
    BY <2>6 DEF OfferMade, conversation
  <2>7. ASSUME NEW n \in Connects, StartLogin(n) \/ ConnectGoesOn(n)
        PROVE  HasPeer'
    BY <2>1, <2>2, <2>7 DEF StartLogin, ConnectGoesOn, OnSignedIn, OnUnreadable, OnPeersDisconnected, Signallers, call
  <2>8. ASSUME NEW n \in Connects, LoopGoesOn(n)
        PROVE  HasPeer'
    BY <2>1, <2>2, <2>3, <2>8
    DEF LoopGoesOn, OnNotified, OnMessageIgnored, OnOfferHandled, OnPeerHangup, OnPeersDisconnected, Signallers, call
  <2>9. CASE OnDisconnected \/ DisconnectFromPeer \/ HangupSent
    BY <2>2, <2>9 DEF OnDisconnected, DisconnectFromPeer, HangupSent, call
  <2>10. CASE \/ Signallers \/ DisconnectFromServer \/ OnSignOutRefused \/ ClearList \/ UiThread
              \/ UNCHANGED vars
    BY <2>1, <2>10 DEF Signallers, DisconnectFromServer, OnSignOutRefused, ClearList, UiThread, vars
  <2> QED
    BY <2>3, <2>4, <2>5, <2>6, <2>7, <2>8, <2>9, <2>10 DEF Next
<1> QED
  BY <1>1, <1>2, AlwaysTyped, PTL DEF Spec
=============================================================================
