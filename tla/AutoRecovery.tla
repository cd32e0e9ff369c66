---------------------------- MODULE AutoRecovery ----------------------------
(***************************************************************************)
(* Automatic recovery of the Telegram account: the safety receipt the      *)
(* ledger persists (TelegramRpcSafetyLedger), the policy that decides      *)
(* (telegram_rpc_recovery.py) and the gate, the monitor and the daemon     *)
(* that drive it through failures, restarts and operator grants.           *)
(*                                                                         *)
(* receipt is what survives the process; every commit of the ledger is one *)
(* step on it.  Deadlines are the ticks left on them; a floor also keeps   *)
(* the remaining_seconds it was written with, which a reboot restores.     *)
(***************************************************************************)
EXTENDS Integers, FiniteSets, FiniteSetsExt

CONSTANTS
    Requests,    \* wire attempts, one identity each
    Reads,       \* those whose method is a NONMUTATING_READ
    Budget,      \* len(_AUTO_RESUME_DELAYS)
    Base, Cap,   \* _BACKOFF, in ticks, by cause
    Floor,       \* ticks of a server wait
    Stability,   \* _AUTO_RESUME_STABILITY_SECONDS, in ticks
    Enabled,     \* [flood_wait] auto_resume_enabled
    MaxStage,    \* bound: stages beyond it have the capped delay
    MaxFaults,   \* bound: failures the environment injects
    MaxBoots     \* bound: process starts

Causes == {"flood", "transient", "read"}

ASSUME RecoveryAssumption ==
    /\ Reads \subseteq Requests /\ Enabled \in BOOLEAN
    /\ {Budget, Stability, MaxBoots} \subseteq Nat \ {0}
    /\ {Floor, MaxStage, MaxFaults} \subseteq Nat
    /\ Base \in [Causes -> Nat \ {0}] /\ Cap \in [Causes -> Nat \ {0}]
    /\ \A c \in Causes : Base[c] * 2^MaxStage >= Cap[c]

Nil == "none"
Off == -1

VARIABLES
    receipt,   \* the persisted record
    life,      \* how far this run has come
    hold,      \* _startup_hold
    claimed,   \* _claimed: attempts physically on the wire
    settling,  \* claimed attempts whose unknown outcome is held but not saved
    fault,     \* _recovery_cause, or "integrity" of _wire_fault
    circuit,   \* _rpc_circuit_status().open
    step,      \* where the maintenance in progress has got to
    stable,    \* ticks left of the stability interval, Off without one
    gain,      \* none, acquired, progress
    faults, boots,
    spent, quiet, calm  \* history: flood trials since the last grant or reset;
                        \* ticks since the wait was set; ticks without failure

volatile == <<hold, claimed, settling, fault, circuit, stable, gain>>
bounds == <<faults, boots>>
history == <<spent, quiet, calm>>
vars == <<receipt, life, step, volatile, bounds, history>>

-----------------------------------------------------------------------------
(* The receipt *)

NoTrial == [state |-> "none", auto |-> FALSE, run |-> "absent",
            cause |-> "read", floods |-> 0, stage |-> [c \in Causes |-> 0]]

Phases == {"none", "authorized", "fencing", "waiting", "consumed",
           "succeeded", "failed", "exhausted"}

Wait(n) == [left |-> n, span |-> n]

\* What becomes of the intent of one attempt
Recorded(r, i, outcome) == [r EXCEPT !.intent = [@ EXCEPT ![i] = outcome]]

\* A prepared or unknown outcome blocks; one a trial was bound to, one the
\* operator acknowledged and a contained read do not.  An orphan is prepared
\* by an earlier run.
Blocking == {"prepared", "orphan", "unknown"}
Blocked(r) == {i \in Requests : r.intent[i] \in Blocking}

Backoff(c, s) == Min({Base[c] * 2^s, Cap[c]})

Longest(a, b) == Max({a, b})

-----------------------------------------------------------------------------
(* The snapshot the policy sees *)

Reason(r, h) == IF h # Nil THEN h ELSE r.protection

Recoverable == {Nil, "unresolved", "trial_incomplete", "trial_failed",
                "flood", "transient"}

OwnersOnWire(r) == claimed # {}   \* (mutant) a prepared attempt is not an owner
OwnersEver(r) == claimed # {} \/ \E i \in Requests : r.intent[i] \in {"prepared", "orphan"}   \* (mutant) of any run
Owners(r) == claimed # {} \/ \E i \in Requests : r.intent[i] = "prepared"

OutcomesUnchecked(r) == TRUE   \* (mutant) the methods are not looked at
OutcomesSettled(r) == Blocked(r) \subseteq Reads

ScopeSafe(r) ==
    /\ hold \in Recoverable /\ r.protection \in Recoverable
    /\ OutcomesSettled(r)

Observed(r, c) ==
    IF c # Nil THEN c
    ELSE IF r.protection = "flood" THEN "flood"
    ELSE IF r.protection = "transient" THEN "transient"
    ELSE IF hold = "unresolved" \/ \E i \in Blocked(r) : r.intent[i] # "prepared"
         THEN "read" ELSE Nil

Interrupted(r) == r.trial.state = "consumed" /\ r.trial.run # "current"

CauseOf(r, ev, c) ==
    IF ev = "due" \/ (ev = "startup" /\ Interrupted(r))
    THEN IF r.trial.auto THEN r.trial.cause ELSE Nil
    ELSE Observed(r, c)

Safe(r, ev) ==
    /\ ScopeSafe(r)
    /\ ev = "stability" => /\ Reason(receipt, hold) = Nil
                           /\ r.floor.left = 0

Due(r) == r.trial.state = "waiting" /\ r.floor.left = 0 /\ r.due.left = 0

FloodsLeft(r) == r.trial.floods < Budget

-----------------------------------------------------------------------------
(* decide_auto_recovery *)

Failures == {"settled", "observed", "startup"}
Acting == {<<"fencing", "quiesced">>, <<"waiting", "due">>,
           <<"consumed", "success">>, <<"succeeded", "stability">>}

Rule(state, ev) ==
    CASE ev \in Failures /\ state \in {"none", "succeeded"} -> "arm"
      [] ev \in Failures /\ state = "consumed" -> "refence"
      [] ev = "settled" /\ state \in {"fencing", "waiting"} -> "strengthen"
      [] <<state, ev>> \in Acting -> ev
      [] OTHER -> "hold"

ModeHold(r) == r.trial.state # "none" /\ ~r.trial.auto /\ r.trial.state # "succeeded"

Guard(r, ev, barrier) == Safe(r, ev) /\ Enabled /\ (barrier => ~Owners(r))

\* The trial a failure settles into: not one of another run, not one still in
\* progress, not a healthy account.
FailureCounts(r, ev, c) ==
    LET interrupted == ev = "startup" /\ r.trial.run = "other" IN
    /\ r.trial.state = "consumed" =>
           (ev = "settled" /\ r.trial.run = "current") \/ interrupted
    /\ (r.trial.state = "consumed" /\ interrupted) \/ c # Nil

DecideFailure(r, ev, c, keep) ==
    IF FailureCounts(r, ev, c) /\ Guard(r, ev, FALSE)
    THEN [command |-> "arm",
          next |-> IF c = "flood" /\ ~FloodsLeft(r) THEN "exhausted" ELSE "fencing"]
    ELSE keep

DecideAction(r, ev, c, quiesced, keep) ==
    CASE ev = "settled" /\ c = "flood" /\ Guard(r, ev, FALSE) ->
             [command |-> "strengthen",
              next |-> IF FloodsLeft(r) THEN r.trial.state ELSE "exhausted"]
      [] ev = "quiesced" /\ Guard(r, ev, TRUE) /\ quiesced ->
             [command |-> "set_wait", next |-> "waiting"]
      [] ev = "due" /\ Guard(r, ev, TRUE) /\ Due(r)
         /\ (c = "flood" => FloodsLeft(r)) ->
             [command |-> "consume", next |-> "consumed"]
      [] ev = "success" /\ Guard(r, ev, TRUE) /\ c = Nil
         /\ r.trial.run = "current" ->
             [command |-> "succeed", next |-> "succeeded"]
      [] ev = "stability" /\ Guard(r, ev, TRUE) /\ c = Nil ->
             [command |-> "reset", next |-> "none"]
      [] OTHER -> keep

Decide(r, ev, cause, quiesced) ==
    LET rule == Rule(r.trial.state, ev)
        c == CauseOf(r, ev, cause)
        keep == [command |-> "wait", next |-> r.trial.state]
    IN IF rule = "hold" \/ ModeHold(r) THEN keep
       ELSE IF rule \in {"arm", "refence"} THEN DecideFailure(r, ev, c, keep)
       ELSE IF r.trial.auto THEN DecideAction(r, ev, c, quiesced, keep)
       ELSE keep

-----------------------------------------------------------------------------
(* The effects the ledger gives a decision *)

ProtectionOf == [c \in Causes |-> IF c = "read" THEN "unresolved" ELSE c]

\* A failed trial raises the stage of the cause it was for, not the new one.
Advanced(r, c) ==
    LET t == r.trial
        n == t.stage[t.cause]
        raise == t.state = "consumed" /\ ScopeSafe(r)
        stage == [t.stage EXCEPT ![t.cause] = IF raise THEN Min({n + 1, MaxStage}) ELSE n]
    IN [t EXCEPT !.cause = c, !.stage = stage]

Exhaust(r, t, observed) ==
    [r EXCEPT !.trial = [t EXCEPT !.state = "exhausted"],
              !.protection = IF observed THEN "exhausted" ELSE "budget_spent"]

ScheduleForgetful(r, c, observed) ==   \* (mutant) every failure opens a new episode
    [r EXCEPT !.trial = [NoTrial EXCEPT !.state = "fencing", !.auto = TRUE, !.cause = c],
              !.protection = ProtectionOf[c]]
ScheduleUnspent(r, c, observed) ==   \* (mutant) the budget is not looked at
    LET t == IF r.trial.auto THEN Advanced(r, c)
             ELSE [NoTrial EXCEPT !.auto = TRUE, !.cause = c]
    IN [r EXCEPT !.trial = [t EXCEPT !.state = "fencing", !.run = "absent"],
                 !.protection = ProtectionOf[c]]
Schedule(r, c, observed) ==
    LET t == IF r.trial.auto THEN Advanced(r, c)
             ELSE [NoTrial EXCEPT !.auto = TRUE, !.cause = c]
    IN IF c = "flood" /\ t.floods >= Budget THEN Exhaust(r, t, observed)
       ELSE [r EXCEPT !.trial = [t EXCEPT !.state = "fencing", !.run = "absent"],
                      !.protection = ProtectionOf[c]]

Strengthen(r) ==
    LET t == [r.trial EXCEPT !.cause = "flood"] IN
    IF t.floods >= Budget THEN Exhaust(r, t, TRUE)
    ELSE [r EXCEPT !.trial = t,
                   !.due = IF t.state = "waiting"
                           THEN Wait(Longest(Backoff("flood", t.stage["flood"]), @.left))
                           ELSE @]

SetWait(r) ==
    LET t == r.trial IN
    [r EXCEPT !.trial = [t EXCEPT !.state = "waiting"],
              !.due = Wait(Longest(Backoff(t.cause, t.stage[t.cause]), @.left))]

\* One transaction spends the attempt and binds what blocked to the trial.
Consume(r) ==
    LET t == r.trial IN
    [r EXCEPT !.trial = [t EXCEPT !.state = "consumed", !.run = "current",
                                  !.floods = IF t.cause = "flood" THEN t.floods + 1 ELSE t.floods],
              !.intent = [i \in Requests |-> IF i \in Blocked(r) THEN "policy" ELSE @[i]],
              !.protection = Nil]

Ends(r, state) == [r.trial EXCEPT !.state = state]
ApplySuccess(r) == [r EXCEPT !.trial = Ends(r, "succeeded"), !.protection = Nil]

Apply(r, d, ev, cause, observed) ==
    LET c == CauseOf(r, ev, cause)
        named == IF c # Nil THEN c ELSE IF r.trial.auto THEN r.trial.cause ELSE "read"
    IN CASE d.command = "arm" -> Schedule(r, named, observed)
         [] d.command = "strengthen" -> Strengthen(r)
         [] d.command = "set_wait" -> SetWait(r)
         [] d.command = "consume" -> Consume(r)
         [] d.command = "succeed" -> ApplySuccess(r)
         [] d.command = "reset" -> [r EXCEPT !.trial = NoTrial]
         [] OTHER -> r

Transition(r, ev, cause, quiesced, observed) ==
    Apply(r, Decide(r, ev, cause, quiesced), ev, cause, observed)

\* A failure settles into an automatic episode or fails the operator's trial.
Invalidated(r, cause, flood) ==
    LET t == r.trial IN
    IF t.state = "none" \/ t.auto \/ t.state = "succeeded"
    THEN Transition(r, "settled", cause, FALSE, flood)
    ELSE IF t.state = "consumed"
    THEN [r EXCEPT !.trial = Ends(r, "failed"), !.protection = "trial_failed"]
    ELSE r

Extended(r) ==
    [r EXCEPT !.floor = Wait(Longest(@.left, Floor))]

\* What a flood does to the receipt, an attempt's own or a floor on its own.
FloodMark(r, open) ==
    IF open /\ r.trial.state # "exhausted" THEN [r EXCEPT !.protection = "flood"] ELSE r
Flooded(r, open) ==
    LET marked == FloodMark(Extended(r), open)
        ordinary == ~open /\ (r.trial.state = "none"
                              \/ (r.trial.state = "succeeded" /\ ~r.trial.auto))
    IN IF ordinary THEN marked ELSE Invalidated(marked, "flood", TRUE)

MarkUnknown(r, i) ==
    [r EXCEPT !.intent = [@ EXCEPT ![i] = "unknown"],
              !.protection = IF @ \in {Nil, "unresolved"} /\ r.trial.state # "exhausted"
                             THEN "unresolved" ELSE @]

-----------------------------------------------------------------------------
Failing == Reason(receipt, hold) # Nil \/ circuit \/ fault # Nil
Open == ~Failing

TrialActive == receipt.trial.auto /\ receipt.trial.state = "consumed"
               /\ receipt.trial.run = "current"

Clean == Reason(receipt, hold) = Nil /\ Blocked(receipt) = {} /\ receipt.floor.left = 0

Init ==
    /\ receipt = [intent |-> [i \in Requests |-> "none"], protection |-> Nil,
                  trial |-> NoTrial, floor |-> Wait(0), due |-> Wait(0)]
    /\ life = "running" /\ step = "idle" /\ hold = Nil
    /\ claimed = {} /\ settling = {} /\ fault = Nil /\ circuit = FALSE
    /\ stable = Off /\ gain = Nil /\ faults = 0 /\ boots = 0
    /\ spent = 0 /\ quiet = 0 /\ calm = 0

Restamped == stable' = Off /\ gain' = Nil

Spends == IF receipt'.trial.state = "consumed" /\ receipt'.trial.auto
             /\ receipt'.trial.cause = "flood" THEN spent' = spent + 1 ELSE UNCHANGED spent

-----------------------------------------------------------------------------
(* A run: load, reconcile, consume, connect *)

Reloaded(reboot) ==
    LET again(w) == IF reboot THEN [w EXCEPT !.left = Longest(@, w.span)] ELSE w IN
    [receipt EXCEPT
        !.intent = [i \in Requests |-> IF @[i] = "prepared" THEN "orphan" ELSE @[i]],
        !.trial = [@ EXCEPT !.run = IF receipt.trial.run = "absent" THEN "absent" ELSE "other"],
        !.floor = again(@), !.due = again(@)]

HoldLax(r) == Nil   \* (mutant) the unresolved outcome is not looked for
StartupHold(r) ==
    IF r.trial.state = "consumed" THEN "trial_incomplete"
    ELSE IF Blocked(r) # {} THEN "unresolved" ELSE Nil

Boot(reboot) ==
    LET r == Reloaded(reboot) IN
    /\ life = "down" /\ boots < MaxBoots
    /\ receipt' = r /\ hold' = StartupHold(r)
    /\ life' = "starting" /\ boots' = boots + 1
    /\ step' = IF Reason(r, hold') # Nil \/ (r.trial.auto /\ Interrupted(r))
               THEN "rearm" ELSE "consume"
    /\ claimed' = {} /\ settling' = {} /\ fault' = Nil /\ circuit' = FALSE
    /\ Restamped /\ calm' = 0 /\ UNCHANGED <<faults, spent, quiet>>

\* maintain_auto_resume up to its own commit: only an arming decision is kept.
ArmEvent ==
    IF life = "starting" \/ (receipt.trial.auto /\ Interrupted(receipt))
    THEN "startup" ELSE "observed"
MonitorCause ==
    IF circuit \/ Reason(receipt, hold) = "flood" THEN "flood" ELSE fault
Maintained ==
    IF Decide(receipt, ArmEvent, MonitorCause, FALSE).command = "arm"
    THEN Transition(receipt, ArmEvent, MonitorCause, FALSE, FALSE) ELSE receipt

Arm ==
    /\ step \in {"arm", "rearm"} /\ life # "down"
    /\ receipt' = Maintained
    /\ step' = IF step = "arm" THEN "rearm" ELSE "quiesce"
    /\ UNCHANGED <<life, volatile, bounds, history>>

Quiesce ==
    /\ step = "quiesce" /\ life # "down"
    /\ receipt' = Transition(receipt, "quiesced", Nil, TRUE, FALSE)
    /\ step' = IF life = "starting" THEN "consume" ELSE "due"
    /\ quiet' = IF receipt' # receipt THEN 0 ELSE quiet
    /\ UNCHANGED <<life, volatile, bounds, spent, calm>>

StartupConsume ==
    /\ step = "consume" /\ life = "starting"
    /\ receipt' = Transition(receipt, "due", Nil, FALSE, FALSE)
    /\ hold' = IF receipt' # receipt THEN Nil ELSE hold
    /\ IF receipt' # receipt THEN Spends ELSE UNCHANGED spent
    /\ step' = "grant"
    /\ UNCHANGED <<life, claimed, settling, fault, circuit, stable, gain, bounds, quiet, calm>>

ConsumeGrant(r) ==
    [r EXCEPT !.trial = [@ EXCEPT !.state = "consumed", !.run = "current"], !.protection = Nil,
              !.intent = [i \in Requests |-> IF i \in Blocked(r) THEN "ack" ELSE @[i]]]

Granted == receipt.trial.state = "authorized"

\* The operator's grant, and whether the run may connect at all.
StartupGrant ==
    /\ step = "grant" /\ life = "starting"
    /\ Granted => receipt.floor.left = 0
    /\ receipt' = IF Granted THEN ConsumeGrant(receipt) ELSE receipt
    /\ hold' = IF Granted THEN Nil ELSE hold
    /\ life' = IF Reason(receipt', hold') # Nil THEN "held"
               ELSE IF receipt'.trial.auto /\ receipt'.trial.state = "consumed"
               THEN "trying" ELSE "connecting"
    /\ step' = "idle"
    /\ UNCHANGED <<claimed, settling, fault, circuit, stable, gain, bounds, history>>

\* An exception nothing catches: sync_main marks the receipt and leaves.
Escaped(r) ==
    [r EXCEPT !.protection =
        IF @ \in {Nil, "unresolved", "transient", "flood"} THEN "integrity" ELSE @]

\* A grant under a server wait is refused; its protection, still in place,
\* holds the run.
GrantRefused ==
    /\ step = "grant" /\ life = "starting" /\ Granted /\ receipt.floor.left > 0
    /\ Reason(receipt, hold) # Nil
    /\ life' = "held" /\ step' = "idle"
    /\ UNCHANGED <<receipt, volatile, bounds, history>>

FailedTrial(r, cause) ==
    IF r.trial.state # "consumed" THEN r
    ELSE IF r.trial.auto
    THEN Transition(r, "settled", IF cause # Nil THEN cause ELSE r.trial.cause, FALSE, FALSE)
    ELSE IF r.trial.run = "current"
    THEN [r EXCEPT !.trial = Ends(r, "failed"), !.protection = "trial_failed"] ELSE r

Connecting == life \in {"connecting", "trying"}

\* connect() fails at the transport or locally, or is refused admission.
ConnectFails ==
    /\ Connecting /\ faults < MaxFaults
    /\ \E kind \in {"transient", "integrity", "refused"} :
         IF receipt.trial.auto /\ receipt.trial.state \in {"fencing", "exhausted"}
            /\ kind # "integrity"
         THEN UNCHANGED <<receipt, fault>>
         ELSE /\ fault' = IF kind = "refused" THEN fault ELSE kind
              /\ receipt' = IF kind = "integrity" THEN Escaped(receipt)
                            ELSE FailedTrial(receipt, fault')
    /\ life' = "held" /\ faults' = faults + 1 /\ calm' = 0 /\ Restamped
    /\ UNCHANGED <<step, hold, claimed, settling, circuit, boots, spent, quiet>>

\* The identity lookup meets a latched protection: a trial is held, any other
\* startup leaves through sync_main.
IdentityRefused ==
    /\ Connecting /\ Failing
    /\ life' = IF life = "trying" THEN "held" ELSE "down"
    /\ receipt' = IF life = "trying" THEN FailedTrial(receipt, fault) ELSE Escaped(receipt)
    /\ UNCHANGED <<step, volatile, bounds, history>>

\* The account is verified; an operator's trial ends here.
Verify ==
    /\ Connecting /\ ~Failing
    /\ LET manual == receipt.trial.state = "consumed" /\ ~receipt.trial.auto IN
         /\ manual => Clean /\ receipt.trial.run = "current"
         /\ receipt' = IF manual THEN ApplySuccess(receipt) ELSE receipt
    /\ life' = "verified"
    /\ UNCHANGED <<step, volatile, bounds, history>>

\* Updates are restored; an automatic trial ends here and stability begins.
\* A trial that is not clean by now is refused and leaves through sync_main.
FinishStartup ==
    LET t == receipt.trial
        trial == t.auto /\ t.state = "consumed"
        clean == /\ Clean /\ t.run = "current"
                 /\ Decide(receipt, "success", Nil, FALSE).command = "succeed"
    IN /\ life = "verified" /\ step = "idle"
       /\ IF trial /\ ~clean
          THEN /\ receipt' = Escaped(receipt) /\ life' = "down"
               /\ UNCHANGED <<stable, gain>>
          ELSE /\ receipt' = IF trial THEN Transition(receipt, "success", Nil, FALSE, FALSE)
                             ELSE receipt
               /\ life' = "running"
               /\ stable' = IF t.auto /\ t.state \in {"consumed", "succeeded"}
                            THEN Stability ELSE stable
               /\ gain' = IF stable' # stable THEN Nil ELSE gain
       /\ calm' = IF trial THEN 0 ELSE calm
       /\ UNCHANGED <<step, hold, claimed, settling, fault, circuit, bounds, spent, quiet>>

Crash ==
    /\ life # "down" /\ boots < MaxBoots
    /\ life' = "down" /\ step' = "idle"
    /\ UNCHANGED <<receipt, volatile, bounds, history>>

-----------------------------------------------------------------------------
(* Attempts on the wire *)

\* Only bootstrap and identity reads until the account is verified, and
\* nothing after them while a trial lasts.
MayWrite(i) ==
    /\ Open /\ (Connecting \/ life \in {"verified", "running"})
    /\ Connecting => i \in Reads
    /\ receipt.trial.state = "consumed" => Connecting
    /\ TrialActive => Enabled

Prepare(i) ==
    /\ MayWrite(i) /\ receipt.intent[i] \notin Blocking
    /\ receipt' = Recorded(receipt, i, "prepared")
    /\ UNCHANGED <<life, step, volatile, bounds, history>>

MayClaim(i) == receipt.intent[i] = "prepared" /\ i \notin claimed /\ MayWrite(i)

Claim(i) ==
    /\ MayClaim(i)
    /\ claimed' = claimed \union {i}
    /\ UNCHANGED <<receipt, life, step, hold, settling, fault, circuit, stable, gain,
                   bounds, history>>

Withdraw(i) ==
    /\ life # "down" /\ receipt.intent[i] = "prepared" /\ i \notin claimed
    /\ receipt' = Recorded(receipt, i, "none")
    /\ UNCHANGED <<life, step, volatile, bounds, history>>

Pending(i) == life # "down" /\ i \in claimed \ settling

\* A known answer; a transient server error fails the trial it was part of.
Answered(i, transient) ==
    /\ Pending(i) /\ (transient => TrialActive /\ faults < MaxFaults)
    /\ LET r == Recorded(receipt, i, "none") IN
         receipt' = IF transient THEN Invalidated(r, "transient", FALSE) ELSE r
    /\ claimed' = claimed \ {i}
    /\ gain' = IF ~transient /\ life = "running" /\ stable # Off /\ gain = Nil
               THEN "acquired" ELSE gain
    /\ faults' = IF transient THEN faults + 1 ELSE faults
    /\ calm' = IF transient THEN 0 ELSE calm
    /\ UNCHANGED <<life, step, hold, settling, fault, circuit, stable, boots, spent, quiet>>

Flood(i, open) ==
    /\ Pending(i) /\ faults < MaxFaults
    /\ receipt' = Flooded(Recorded(receipt, i, "none"), open)
    /\ claimed' = claimed \ {i} /\ circuit' = (circuit \/ open)
    /\ faults' = faults + 1 /\ calm' = IF open THEN 0 ELSE calm
    /\ UNCHANGED <<life, step, hold, settling, fault, stable, gain, boots, spent, quiet>>

\* A wait reported outside an attempt: only the floor and the circuit.
FloorRecorded(open) ==
    /\ life \in {"held", "running"} /\ faults < MaxFaults
    /\ receipt' = Flooded(receipt, open)
    /\ circuit' = (circuit \/ open)
    /\ faults' = faults + 1 /\ calm' = IF open THEN 0 ELSE calm
    /\ UNCHANGED <<life, step, hold, claimed, settling, fault, stable, gain, boots, spent, quiet>>

\* An outcome nobody knows: held at once, saved by the commit that follows.
LoseOutcome(i) ==
    /\ Pending(i) /\ (faults < MaxFaults \/ Failing)
    /\ hold' = "unresolved" /\ settling' = settling \union {i}
    /\ faults' = IF faults < MaxFaults THEN faults + 1 ELSE faults
    /\ UNCHANGED <<receipt, life, step, claimed, fault, circuit, stable, gain, boots, history>>

SettleUnknown(i) ==
    /\ life # "down" /\ i \in settling
    /\ \E e \in {"transient", "read"} :
         /\ receipt' = Invalidated(MarkUnknown(receipt, i),
                                   IF e = "transient" /\ TrialActive THEN e ELSE "read", FALSE)
         /\ fault' = IF fault = "integrity" THEN fault ELSE e
    /\ claimed' = claimed \ {i} /\ settling' = settling \ {i}
    /\ calm' = 0
    /\ UNCHANGED <<life, step, hold, circuit, stable, gain, bounds, spent, quiet>>

\* A read out of budget or time: contained by its method's own wait.
ReadContained(i) ==
    /\ Pending(i) /\ i \in Reads /\ life = "running"
    /\ receipt' = Recorded(receipt, i, "retry")
    /\ claimed' = claimed \ {i}
    /\ UNCHANGED <<life, step, hold, settling, fault, circuit, stable, gain, bounds, history>>

TransportTerminated ==
    /\ life = "running" /\ fault = Nil /\ faults < MaxFaults
    /\ fault' = "transient" /\ faults' = faults + 1 /\ Restamped
    /\ UNCHANGED <<receipt, life, step, hold, claimed, settling, circuit, boots, history>>

-----------------------------------------------------------------------------
(* The monitor and the operator *)

MonitorFailure ==
    /\ life \in {"held", "running"} /\ step = "idle"
    /\ Failing /\ settling = {} /\ fault # "integrity"
    /\ step' = "arm" /\ Restamped
    /\ UNCHANGED <<receipt, life, hold, claimed, settling, fault, circuit, bounds, history>>

\* The last word of a maintenance round: a trial is due, the daemon restarts.
MonitorDue ==
    /\ step = "due" /\ life # "down"
    /\ life' = IF Decide(receipt, "due", Nil, FALSE).command = "consume"
               THEN "down" ELSE life
    /\ step' = "idle"
    /\ UNCHANGED <<receipt, volatile, bounds, history>>

MonitorStability ==
    /\ life = "running" /\ step = "idle" /\ ~Failing /\ Enabled
    /\ receipt.trial.auto /\ receipt.trial.state = "succeeded"
    /\ \/ /\ stable = Off
          /\ stable' = Stability /\ step' = step
          /\ UNCHANGED gain
       \/ /\ receipt.floor.left > 0
          /\ Restamped /\ step' = step
       \/ /\ stable = 0 /\ gain = "progress" /\ receipt.floor.left = 0
          /\ step' = "reset" /\ UNCHANGED <<stable, gain>>
    /\ UNCHANGED <<receipt, life, hold, claimed, settling, fault, circuit, bounds, history>>

ResetEarly ==   \* (mutant) the decision is not taken again at the commit
    /\ step = "reset" /\ life # "down"
    /\ receipt' = [receipt EXCEPT !.trial = NoTrial]
    /\ step' = "idle" /\ spent' = IF receipt' # receipt THEN 0 ELSE spent
    /\ Restamped
    /\ UNCHANGED <<life, hold, claimed, settling, fault, circuit, bounds, quiet, calm>>
Reset ==
    /\ step = "reset" /\ life # "down"
    /\ receipt' = Transition(receipt, "stability", Nil, FALSE, FALSE)
    /\ step' = "idle" /\ spent' = IF receipt' # receipt THEN 0 ELSE spent
    /\ Restamped
    /\ UNCHANGED <<life, hold, claimed, settling, fault, circuit, bounds, quiet, calm>>

Progress ==
    /\ life = "running" /\ gain = "acquired"
    /\ gain' = "progress"
    /\ UNCHANGED <<receipt, life, step, hold, claimed, settling, fault, circuit, stable,
                   bounds, history>>

Grantable == {"unresolved", "trial_incomplete", "trial_failed", "flood", "transient",
              "exhausted", "budget_spent"}

Authorize ==
    /\ life \in {"held", "running"} /\ step = "idle"
    /\ Reason(receipt, hold) \in Grantable /\ receipt.floor.left = 0 /\ ~Granted
    /\ receipt' = [receipt EXCEPT !.trial = [NoTrial EXCEPT !.state = "authorized"]]
    /\ spent' = 0
    /\ UNCHANGED <<life, step, volatile, bounds, quiet, calm>>

DownPast(n) == n - 1   \* (mutant) the remaining time is not clamped
Down(n) == IF n > 0 THEN n - 1 ELSE n
Passed(w) == [w EXCEPT !.left = Down(@)]
Tick ==
    /\ receipt.floor.left > 0 \/ receipt.due.left > 0 \/ stable > 0
    /\ receipt' = [receipt EXCEPT !.floor = Passed(@), !.due = Passed(@)]
    /\ stable' = Down(stable)
    /\ quiet' = IF receipt.trial.state = "waiting" /\ receipt.due.left > 0
                THEN quiet + 1 ELSE quiet
    /\ calm' = Min({calm + 1, Stability})
    /\ UNCHANGED <<life, step, hold, claimed, settling, fault, circuit, gain, bounds, spent>>

Wire(i) ==
    \/ Prepare(i) \/ Claim(i) \/ Withdraw(i)
    \/ \E transient \in BOOLEAN : Answered(i, transient)
    \/ \E open \in BOOLEAN : Flood(i, open)
    \/ LoseOutcome(i) \/ SettleUnknown(i) \/ ReadContained(i)

Next ==
    \/ \E reboot \in BOOLEAN : Boot(reboot)
    \/ Arm \/ Quiesce \/ StartupConsume \/ StartupGrant \/ GrantRefused
    \/ ConnectFails \/ IdentityRefused \/ Verify \/ FinishStartup \/ Crash
    \/ \E i \in Requests : Wire(i)
    \/ \E open \in BOOLEAN : FloorRecorded(open)
    \/ TransportTerminated
    \/ MonitorFailure \/ MonitorDue \/ MonitorStability \/ Reset
    \/ Progress \/ Authorize \/ Tick

Spec == Init /\ [][Next]_vars

\* The supervisor restarts the daemon and the daemon starts; the monitor runs its
\* round every minute; time passes; a commit ends and a disconnected sender
\* answers its attempts.
Startup ==
    \/ \E reboot \in BOOLEAN : Boot(reboot)
    \/ StartupConsume \/ StartupGrant \/ GrantRefused
    \/ IdentityRefused \/ Verify \/ FinishStartup
Round == MonitorFailure \/ Arm \/ Quiesce \/ MonitorDue \/ Reset
Settles(i) == Withdraw(i) \/ LoseOutcome(i) \/ SettleUnknown(i)
Fairness ==
    /\ WF_vars(Startup) /\ WF_vars(Round) /\ WF_vars(Tick)
    /\ \A i \in Requests : WF_vars(Settles(i))

FairSpec == Spec /\ Fairness

-----------------------------------------------------------------------------
Intents == {"none", "prepared", "orphan", "unknown", "policy", "ack", "retry"}
Protections == Recoverable \cup {"exhausted", "budget_spent", "integrity"}
Trials ==
    [state : Phases, auto : BOOLEAN, run : {"absent", "current", "other"}, cause : Causes,
     floods : 0..Budget, stage : [Causes -> 0..MaxStage]]
Waits == [left : Nat, span : Nat]
Receipts ==
    [intent : [Requests -> Intents], protection : Protections, trial : Trials,
     floor : Waits, due : Waits]

\* Every variable keeps its type.
TypeOK ==
    /\ receipt \in Receipts
    /\ life \in {"down", "starting", "connecting", "trying", "verified", "running", "held"}
    /\ step \in {"idle", "arm", "rearm", "quiesce", "consume", "grant", "due", "reset"}
    /\ hold \in Protections /\ claimed \subseteq Requests /\ settling \subseteq claimed
    /\ fault \in {Nil, "transient", "read", "integrity"} /\ circuit \in BOOLEAN
    /\ stable \in Off..Stability /\ gain \in {Nil, "acquired", "progress"}
    /\ faults \in Nat /\ boots \in Nat /\ spent \in Nat /\ quiet \in Nat /\ calm \in 0..Stability

\* The decision and the effect are written twice, in the policy and in the
\* ledger; whatever the receipt, the event and the cause, the phase the ledger
\* leaves is the one that was decided (_assert_auto_transition_phase never
\* raises inside a commit; before the account is quiet the decision is to wait).
EffectIsDecision ==
    life # "down" =>
        \A ev \in Failures \union {"quiesced", "due", "success", "stability"},
           c \in Causes \union {Nil} :
            LET d == Decide(receipt, ev, c, TRUE) IN
            d.command # "wait" => Apply(receipt, d, ev, c, TRUE).trial.state = d.next

\* The account is never tried more often after floods than the budget allows
\* without an operator or an hour of stability in between, whatever causes,
\* crashes and interrupted trials come in between.
FloodTrialsBounded == spent <= Budget

\* A mutation whose outcome is unknown is never excused by automatic recovery.
MutationNeverExcused ==
    \A i \in Requests \ Reads : receipt.intent[i] # "policy"

\* While the account accepts writes, no outcome of an earlier run and none
\* lost by this one is unresolved.
OpenMeansResolved ==
    life \notin {"down", "starting"} /\ Reason(receipt, hold) = Nil =>
        \A i \in Requests : receipt.intent[i] \notin {"orphan", "unknown"}

\* Once the wait for a trial is set, nothing of this run is on the wire or
\* about to be.
WaitIsQuiet ==
    life # "down" /\ receipt.trial.auto /\ receipt.trial.state = "waiting" =>
        claimed = {} /\ \A i \in Requests : receipt.intent[i] # "prepared"

\* A trial starts only after the wait its cause and its failures call for has
\* passed since the fence was quiet, and never under a known server wait.
TrialWaits ==
    [][receipt'.trial.auto /\ receipt'.trial.state = "consumed"
       /\ receipt.trial.state # "consumed" =>
           /\ quiet >= Backoff(receipt.trial.cause, receipt.trial.stage[receipt.trial.cause])
           /\ receipt.floor.left = 0]_vars

\* The episode, and the floods it has spent, are forgotten only after an
\* interval in which no failure protected the account.
ResetAfterCalm ==
    [][receipt.trial.auto /\ receipt'.trial.state = "none" => calm >= Stability]_vars

\* Automatic recovery stays within its budget, excuses no mutation, opens the account
\* over nothing unresolved; a trial waits its time, and only calm ends an episode.
RecoveryIsBounded ==
    /\ [](FloodTrialsBounded /\ MutationNeverExcused /\ OpenMeansResolved)
    /\ [](WaitIsQuiet /\ EffectIsDecision)
    /\ TrialWaits /\ ResetAfterCalm

\* README: a read whose outcome is unknown backs off.  A startup that meets
\* the protection of one is not turned into a hold nothing can end.
LostReadBacksOff ==
    [][receipt.protection \in {"unresolved", "flood", "transient"}
       /\ receipt'.protection = "integrity" => fault' = "integrity"]_vars

Unsafe ==
    \/ receipt.protection \notin Recoverable \/ hold \notin Recoverable
    \/ fault = "integrity" \/ ~OutcomesSettled(receipt)

\* A fenced account reaches its trial, or is given up to the operator.
FenceEnds ==
    receipt.trial.auto /\ receipt.trial.state \in {"fencing", "waiting"} ~>
        \/ receipt.trial.state \notin {"fencing", "waiting"}
        \/ Unsafe \/ boots = MaxBoots
=============================================================================
