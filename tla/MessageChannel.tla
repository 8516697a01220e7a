----------------------------- MODULE MessageChannel -----------------------------
(***************************************************************************)
(* What a conductor promises the peer connections that write signalling    *)
(* messages: each message reaches the signalling server at most once, none *)
(* overtakes an earlier one that still waits, and what is lost stays lost. *)
(* The conductors keep messages in queues, in posted callbacks and on a    *)
(* connection; here they only wait.  MultiPeerConductor and                *)
(* ClientConductor implement this.                                         *)
(***************************************************************************)
EXTENDS Naturals, Sequences

CONSTANTS
  MaxWritten, \* bound: messages that are written
  Lossy       \* a message can be lost

VARIABLES
  written,    \* number of messages written so far: their numbers are 1, 2, ...
  waiting,    \* those that are neither sent nor lost
  received    \* what was sent, in this order

channel == <<written, waiting, received>>

Init == written = 0 /\ waiting = {} /\ received = <<>>

Write ==
  /\ written < MaxWritten
  /\ written' = written + 1
  /\ waiting' = waiting \cup {written + 1}
  /\ UNCHANGED received

Deliver ==
  \E m \in waiting :
    /\ \A k \in waiting : m <= k
    /\ received' = Append(received, m)
    /\ waiting' = waiting \ {m}
    /\ UNCHANGED written

Lose ==
  /\ Lossy
  /\ waiting' \in SUBSET waiting
  /\ UNCHANGED <<written, received>>

Next == Write \/ Deliver \/ Lose

Spec == Init /\ [][Next]_channel
=============================================================================
