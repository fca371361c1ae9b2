----------------------------- MODULE EventQueue -----------------------------
(***************************************************************************)
(* What the event ring of the mouse driver promises to its two users: a    *)
(* first-in first-out queue of bounded length that loses the new event     *)
(* when it is full and never loses, repeats or reorders an event it took.  *)
(***************************************************************************)
EXTENDS Naturals, Sequences

CONSTANTS
    Events,     \* what can be queued
    Capacity    \* most events the queue holds

VARIABLE q

Init == q = <<>>

\* An event arrives; a full queue drops it.
Put(ev) == q' = IF Len(q) < Capacity THEN Append(q, ev) ELSE q

\* The oldest event leaves.
Get == q # <<>> /\ q' = Tail(q)

Next == (\E ev \in Events : Put(ev)) \/ Get

Spec == Init /\ [][Next]_q

=============================================================================
