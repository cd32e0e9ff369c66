-------------------------- MODULE ReliableDelivery --------------------------
(***************************************************************************)
(* What update delivery promises: updates are handled at least once, only  *)
(* within the one envelope behind the checkpoint, and the checkpoint moves *)
(* forward, over handled updates only.                                     *)
(***************************************************************************)
EXTENDS Integers

CONSTANTS MaxUpdate, MaxBatch

VARIABLES
    checkpoint,  \* last update the account need not send again
    handled      \* updates whose handlers have succeeded

Window == {u \in 1..MaxUpdate : checkpoint < u /\ u <= checkpoint + MaxBatch}

Init == checkpoint = 0 /\ handled = {}

Handle == \E u \in Window :
    /\ handled' = handled \cup {u}
    /\ UNCHANGED checkpoint

Advance == \E u \in Window :
    /\ {v \in Window : v <= u} \subseteq handled
    /\ checkpoint' = u
    /\ UNCHANGED handled

Next == Handle \/ Advance
Spec == Init /\ [][Next]_<<checkpoint, handled>>

=============================================================================
