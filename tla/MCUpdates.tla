------------------------------ MODULE MCUpdates ------------------------------
(***************************************************************************)
(* Instances of what an update passes: the durable delivery, the intake    *)
(* queue with its message box, and the ring of raw updates.  A behaviour   *)
(* studies one of them, its subject, while the others stay as they are     *)
(* initially: the states are those of the three together, not their        *)
(* product.                                                                *)
(***************************************************************************)
EXTENDS UpdateDelivery, UpdateRing, UpdateIntake

VARIABLE subject

AnyInit ==
    /\ subject \in {"delivery", "box", "ring"}
    /\ Init
    /\ IntakeInit /\ (subject # "box" => getting = {})
    /\ RingInit /\ (subject # "ring" => session = None)

AnyNext ==
    \/ subject = "delivery" /\ Next /\ UNCHANGED <<subject, intakeVars, ringVars>>
    \/ subject = "box" /\ IntakeNext /\ UNCHANGED <<subject, vars, ringVars>>
    \/ subject = "ring" /\ RingNext /\ UNCHANGED <<subject, vars, intakeVars>>

AnySpec == AnyInit /\ [][AnyNext]_<<subject, vars, intakeVars, ringVars>>
=============================================================================
