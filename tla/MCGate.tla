------------------------------- MODULE MCGate -------------------------------
(***************************************************************************)
(* Instances of what protects the account: the wire attempts under the     *)
(* gate and its ledger, automatic recovery, and the demand coordinator.    *)
(* A behaviour studies one subject, while the other components stay as     *)
(* they are initially: the states are those of the subjects together, not  *)
(* their product.                                                          *)
(*   "wire"      two reads, resends, lost connections and a crash          *)
(*   "trial"     two reads of a method under recovery at the start         *)
(*   "mixed"     a read and a mutation, and a save that fails              *)
(*   "recovery"  the automatic recovery of a read and of a mutation        *)
(*   "restarts"  the automatic recovery of a read through two restarts     *)
(*   "pump"      the coordinator under restrictions and refusals           *)
(*   "revisions" the coordinator while its work is revised                 *)
(***************************************************************************)
EXTENDS WireAttempt, DemandCoordinator, TLC

CONSTANTS a1, a2, b1, b2, p1, h1

VARIABLES
    subject,
    receipt, life, hold, claimed, settling, fault, circuit, step, stable, gain,
    failures, boots, spent, quiet, calm

wireVars == vars
recoveryVars == <<receipt, life, hold, claimed, settling, fault, circuit, step, stable,
                  gain, failures, boots, spent, quiet, calm>>

\* a1 and a2 are the attempts of "wire" and "trial", b1 and b2 those of "mixed".
ReadsAndWrite == [a \in {a1, a2, b1} |-> "read"] @@ (b2 :> "write")
Alike == Permutations({a1, a2})
Budgets == [k \in Kinds |-> IF k = "write" THEN 1 ELSE 2]

\* The delays keep the order of the code's: a flood waits longest, and its delay
\* doubles once before its cap.
Delays == [c \in {"flood", "transient", "read"} |-> IF c = "flood" THEN 2 ELSE 1]
Ceilings == [c \in {"flood", "transient", "read"} |-> IF c = "flood" THEN 3 ELSE 2]

\* Profiles run aside, history runs inline.
ProfilesFirst == <<"profile", "history">>
WorkKinds == (p1 :> "profile") @@ (h1 :> "history")

Trial == INSTANCE WireAttempt WITH Earlier <- {"read"}, MaxSalt <- 0
Mixed == INSTANCE WireAttempt WITH MaxDrop <- 0, MaxSalt <- 0, MaxFail <- 1
Idle(attempts) == \A a \in attempts : att'[a].caller = "idle"
Recovery == INSTANCE AutoRecovery WITH
    faults <- failures, Requests <- {"r", "m"}, Reads <- {"r"}, Budget <- 1,
    Base <- Delays, Cap <- Ceilings, Floor <- 1, Stability <- 2, Enabled <- TRUE,
    MaxStage <- 1, MaxFaults <- 2, MaxBoots <- 1
Restarts == INSTANCE AutoRecovery WITH
    faults <- failures, Requests <- {"r"}, Reads <- {"r"}, Budget <- 1,
    Base <- Delays, Cap <- Ceilings, Floor <- 1, Stability <- 1, Enabled <- TRUE,
    MaxStage <- 1, MaxFaults <- 2, MaxBoots <- 2
ASSUME Recovery!RecoveryAssumption /\ Restarts!RecoveryAssumption

\* "pump" keeps the first revision of each work, "revisions" meets no refusal.
Unrevised == \A w \in Works : work'[w].revision = 1
Unrefused == refusals' = 0

AnyInit ==
    /\ subject \in {"wire", "trial", "mixed", "recovery", "restarts", "pump", "revisions"}
    /\ IF subject = "trial" THEN Trial!Init ELSE Init
    /\ IF subject = "restarts" THEN Restarts!Init ELSE Recovery!Init
    /\ CoordinatorInit
    /\ subject \notin {"pump", "revisions"} => \A w \in Works : work[w].pending

AnyNext ==
    \/ subject = "wire" /\ Next /\ Idle({b1, b2}) /\ UNCHANGED <<subject, recoveryVars, coordinatorVars>>
    \/ subject = "trial" /\ Trial!Next /\ Idle({b1, b2}) /\ UNCHANGED <<subject, recoveryVars, coordinatorVars>>
    \/ subject = "mixed" /\ Mixed!Next /\ Idle({a1, a2}) /\ UNCHANGED <<subject, recoveryVars, coordinatorVars>>
    \/ subject = "recovery" /\ Recovery!Next /\ UNCHANGED <<subject, wireVars, coordinatorVars>>
    \/ subject = "restarts" /\ Restarts!Next /\ UNCHANGED <<subject, wireVars, coordinatorVars>>
    \/ subject = "pump" /\ CoordinatorNext /\ Unrevised /\ UNCHANGED <<subject, wireVars, recoveryVars>>
    \/ subject = "revisions" /\ CoordinatorNext /\ Unrefused /\ UNCHANGED <<subject, wireVars, recoveryVars>>

AnySpec == AnyInit /\ [][AnyNext]_<<subject, wireVars, recoveryVars, coordinatorVars>>

-----------------------------------------------------------------------------
\* The ledger leaves the phase the policy decided.
EffectIsDecision == subject = "recovery" => Recovery!EffectIsDecision

\* Floods do not try the account more often than the budget allows.
FloodTrialsBounded == Recovery!FloodTrialsBounded

\* Automatic recovery never excuses a mutation of unknown outcome.
MutationNeverExcused == subject = "recovery" => Recovery!MutationNeverExcused

\* An account that accepts writes has no outcome unresolved.
OpenMeansResolved ==
    IF subject = "restarts" THEN Restarts!OpenMeansResolved ELSE Recovery!OpenMeansResolved

\* Nothing is on the wire once the wait for a trial is set.
WaitIsQuiet == IF subject = "restarts" THEN Restarts!WaitIsQuiet ELSE Recovery!WaitIsQuiet

\* A trial comes after the wait its failures call for, and no server wait.
TrialWaits == Recovery!TrialWaits

\* An episode is forgotten only after an interval of calm.
ResetAfterCalm ==
    [][subject = "recovery" /\ receipt.trial.auto /\ receipt'.trial.state = "none" => calm >= 2]_receipt

\* Automatic recovery stays within its budget, excuses no mutation, opens the account
\* over nothing unresolved; a trial waits its time, and only calm ends an episode.
RecoveryIsBounded ==
    /\ [](FloodTrialsBounded /\ MutationNeverExcused /\ OpenMeansResolved)
    /\ [](WaitIsQuiet /\ EffectIsDecision)
    /\ TrialWaits /\ ResetAfterCalm
=============================================================================
