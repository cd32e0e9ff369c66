----------------------------- MODULE MCGateLive -----------------------------
(***************************************************************************)
(* What the account's protection must bring to an end, under the fairness  *)
(* each component justifies.  A behaviour studies one subject; the others  *)
(* rest in a state in which none of their fair actions is enabled, so that *)
(* the fairness of all of them asks something of the subject only.         *)
(*   "wire"      a call and a read, and a resend                           *)
(*   "recovery"  the automatic recovery of a read through two restarts     *)
(*   "pump"      the coordinator: one work, two refusals or failed scans   *)
(*   "calm"      the coordinator: one work aside, one inline, no refusal   *)
(***************************************************************************)
EXTENDS AutoRecovery, TLC

CONSTANTS a1, a2, p1, h1, None

VARIABLES
    subject,
    att, gate, disk, count, exposed, penalty,
    work, eligible, busy, pump, held, inline, aside, closing, refusals

recoveryVars == vars
wireVars == <<att, gate, disk, count, exposed, penalty>>
coordinatorVars == <<work, eligible, busy, pump, held, inline, aside, closing, refusals>>

CallAndRead == (a1 :> "call") @@ (a2 :> "read")
Budgets == [k \in {"read", "call", "write"} |-> IF k = "write" THEN 1 ELSE 2]
Delays == [c \in {"flood", "transient", "read"} |-> IF c = "flood" THEN 2 ELSE 1]
Ceilings == [c \in {"flood", "transient", "read"} |-> IF c = "flood" THEN 3 ELSE 2]
ProfilesFirst == <<"profile", "history">>
WorkKinds == (p1 :> "profile") @@ (h1 :> "history")

Sender == INSTANCE WireAttempt WITH
    Attempts <- {a1, a2}, Kind <- CallAndRead, Budget <- Budgets, Earlier <- {}, Slots <- 2,
    MaxDrop <- 0, MaxSalt <- 1, MaxCrash <- 0, MaxFail <- 0
Pump == INSTANCE DemandCoordinator WITH
    Works <- {p1, h1}, DemandKinds <- {"profile", "history"}, DurableOrder <- ProfilesFirst,
    KindOf <- WorkKinds, Retained <- {"profile"}, Gated <- {}, MaxRevision <- 1, MaxRefusals <- 2
Calm == INSTANCE DemandCoordinator WITH
    Works <- {p1, h1}, DemandKinds <- {"profile", "history"}, DurableOrder <- ProfilesFirst,
    KindOf <- WorkKinds, Retained <- {"profile"}, Gated <- {}, MaxRevision <- 1, MaxRefusals <- 0

ASSUME Sender!WireAssumption /\ Pump!WorkAssumption /\ Calm!WorkAssumption

\* The loop of the coordinator has ended, and nothing waits.
PumpRests ==
    /\ work = [w \in {p1, h1} |-> [revision |-> 1, pending |-> FALSE]]
    /\ eligible = [k \in {"profile", "history"} |-> "open"] /\ busy = FALSE
    /\ pump = [stage |-> "stopped", wake |-> FALSE, queue |-> <<>>, offered |-> {},
               selected |-> [k \in {"profile", "history"} |-> None],
               failed |-> [k \in {"profile", "history"} |-> "no"]]
    /\ held = [r \in Pump!Revisions |-> Pump!Blank]
    /\ inline = Pump!NoSlice /\ aside = Pump!NoSlice /\ closing = TRUE /\ refusals = 0

AnyInit ==
    /\ subject \in {"wire", "recovery", "pump", "calm"}
    /\ Init /\ Sender!Init
    /\ CASE subject = "pump" -> Pump!CoordinatorInit /\ \E w \in {p1, h1} : ~work[w].pending
         [] subject = "calm" -> Calm!CoordinatorInit
         [] OTHER -> PumpRests

AnyNext ==
    \/ subject = "wire" /\ Sender!Next /\ UNCHANGED <<subject, recoveryVars, coordinatorVars>>
    \/ subject = "recovery" /\ Next /\ UNCHANGED <<subject, wireVars, coordinatorVars>>
    \/ subject = "pump" /\ Pump!CoordinatorNext /\ UNCHANGED <<subject, wireVars, recoveryVars>>
    \/ subject = "calm" /\ Calm!CoordinatorNext /\ UNCHANGED <<subject, wireVars, recoveryVars>>

AnySpec ==
    /\ AnyInit /\ [][AnyNext]_<<subject, wireVars, recoveryVars, coordinatorVars>>
    /\ Fairness /\ Sender!Fairness /\ Pump!CoordinatorFairness

-----------------------------------------------------------------------------
\* Ready work of a kind its gate leaves alone is run.
WorkIsRun == Pump!WorkIsRun

\* Callers return, and so do their slots.
RequestsEnd == Sender!CallersReturn /\ Sender!SlotsReturn
=============================================================================
