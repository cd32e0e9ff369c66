-------------------------- MODULE AutoRecoveryProofs --------------------------
(***************************************************************************)
(* Automatic recovery stays within its budget, excuses no mutation, opens  *)
(* the account over nothing unresolved and tries it after its wait: for    *)
(* every set of requests, every budget, table of delays, and number of     *)
(* faults and restarts.                                                    *)
(***************************************************************************)
EXTENDS AutoRecovery, TLAPS

-----------------------------------------------------------------------------
(* Numbers *)

\* A maximum of two
LEMMA LongestFacts ==
    ASSUME NEW a \in Int, NEW b \in Int
    PROVE  Longest(a, b) = IF a >= b THEN a ELSE b
<1>1. \E x \in {a, b} : \A y \in {a, b} : x >= y
  BY SMT
<1> QED BY <1>1 DEF Longest, Max

\* A minimum of two
LEMMA MinFacts ==
    ASSUME NEW a \in Int, NEW b \in Int
    PROVE  Min({a, b}) = IF a <= b THEN a ELSE b
BY SMT DEF Min

LEMMA BackoffType ==
    ASSUME NEW c \in Causes, NEW s \in 0..MaxStage
    PROVE  Backoff(c, s) \in Int
<1>1. Base[c] \in Int /\ Cap[c] \in Int /\ s \in Nat
  BY RecoveryAssumption
<1>2. Base[c] * 2^s \in Int
  BY <1>1
<1>3. Min({Base[c] * 2^s, Cap[c]}) \in Int
  BY <1>1, <1>2, MinFacts
<1> QED BY <1>3 DEF Backoff

-----------------------------------------------------------------------------
(* What the ledger makes of a receipt *)

\* What is automatic has an episode, an episode that is under way or given up protects the
\* account, and only an episode spends the budget.
Sound(r) ==
    /\ r.trial.auto => r.trial.state \notin {"none", "authorized", "failed"}
    /\ ~r.trial.auto => r.trial.floods = 0
    /\ r.trial.state \in {"fencing", "waiting", "exhausted"} => r.trial.auto /\ r.protection # Nil

\* The wait that is set covers the delay of its cause, w of it having passed.
Covered(r, w) ==
    r.trial.state = "waiting"
      => w + r.due.left >= Backoff(r.trial.cause, r.trial.stage[r.trial.cause])

\* What a failure does, and much else: it starts no trial and opens nothing, and the wait
\* of a cause that is strengthened begins again.
Weakens(r, e) ==
    /\ e \in Receipts /\ Sound(e)
    /\ e.trial.floods = r.trial.floods
    /\ e.trial.state \in {"none", "waiting", "consumed", "succeeded", "authorized"}
         => e.trial.state = r.trial.state
    /\ e.protection = Nil => r.protection = Nil
    /\ \A w \in Nat : Covered(r, w) => Covered(e, w)
    /\ r.trial.auto => e.trial.auto

Fails(r, e) == Weakens(r, e) /\ e.intent = r.intent

LEMMA FailsNothing == ASSUME NEW r \in Receipts, Sound(r) PROVE Fails(r, r)
BY DEF Fails, Weakens

LEMMA FailsTwice ==
    ASSUME NEW r, NEW e, NEW f, Fails(r, e), Fails(e, f) PROVE Fails(r, f)
BY DEF Fails, Weakens

LEMMA AdvancedType ==
    ASSUME NEW r \in Receipts, NEW c \in Causes, NEW t, t = Advanced(r, c)
    PROVE  /\ t \in Trials /\ t.state = r.trial.state /\ t.auto = r.trial.auto
           /\ t.floods = r.trial.floods /\ t.cause = c
<1>. DEFINE k == r.trial.cause
            n == r.trial.stage[k]
            raise == r.trial.state = "consumed" /\ ScopeSafe(r)
            m == IF raise THEN Min({n + 1, MaxStage}) ELSE n
            stage == [r.trial.stage EXCEPT ![k] = m]
<1>1. k \in Causes /\ r.trial \in Trials /\ n \in 0..MaxStage /\ MaxStage \in Nat
  BY RecoveryAssumption DEF Receipts, Trials
<1>2. Min({n + 1, MaxStage}) \in 0..MaxStage
  BY <1>1, MinFacts
<1>3. m \in 0..MaxStage
  BY <1>1, <1>2
<1>4. stage \in [Causes -> 0..MaxStage]
  BY <1>1, <1>3 DEF Trials
<1>5. t = [r.trial EXCEPT !.cause = c, !.stage = stage]
  BY DEF Advanced
<1>. HIDE DEF stage, k
<1> QED BY <1>1, <1>4, <1>5 DEF Trials

LEMMA NoTrialType == NoTrial \in Trials
BY RecoveryAssumption DEF NoTrial, Trials, Phases, Causes

LEMMA ScheduleFacts ==
    ASSUME NEW r \in Receipts, Sound(r), NEW c \in Causes, NEW observed \in BOOLEAN,
           NEW e, e = Schedule(r, c, observed)
    PROVE  /\ Fails(r, e) /\ e.trial.auto
           /\ e.trial.state = IF c = "flood" /\ r.trial.floods >= Budget THEN "exhausted" ELSE "fencing"
<1>. DEFINE new == [NoTrial EXCEPT !.auto = TRUE, !.cause = c]
            t == IF r.trial.auto THEN Advanced(r, c) ELSE new
<1>1. /\ new \in Trials /\ new.auto /\ new.floods = 0 /\ new.cause = c
  BY NoTrialType DEF NoTrial, Trials
<1>2. t \in Trials /\ t.auto /\ t.floods = r.trial.floods
  <2>1. CASE r.trial.auto
    <3>. HIDE DEF new
    <3> QED BY <2>1, AdvancedType DEF Receipts, Trials
  <2>2. CASE ~r.trial.auto
    BY <1>1, <2>2 DEF Sound
  <2> QED BY <2>1, <2>2
<1>3. /\ e = IF c = "flood" /\ t.floods >= Budget THEN Exhaust(r, t, observed)
            ELSE [r EXCEPT !.trial = [t EXCEPT !.state = "fencing", !.run = "absent"],
                           !.protection = ProtectionOf[c]]
  BY DEF Schedule
<1>. HIDE DEF t
<1>4. CASE c = "flood" /\ t.floods >= Budget
  <2>1. e = [r EXCEPT !.trial = [t EXCEPT !.state = "exhausted"],
                      !.protection = IF observed THEN "exhausted" ELSE "budget_spent"]
    BY <1>3, <1>4 DEF Exhaust
  <2>2. /\ e \in Receipts /\ e.trial.state = "exhausted" /\ e.trial.auto
        /\ e.trial.floods = t.floods /\ e.intent = r.intent /\ e.floor = r.floor /\ e.protection # Nil
    <3>. DEFINE u == [t EXCEPT !.state = "exhausted"]
                p == IF observed THEN "exhausted" ELSE "budget_spent"
    <3>1. u \in Trials /\ u.state = "exhausted" /\ u.auto /\ u.floods = t.floods
      BY <1>2 DEF Trials, Phases
    <3>2. p \in Protections /\ p # Nil
      BY DEF Protections, Nil
    <3>3. e = [r EXCEPT !.trial = u, !.protection = p]
      BY <2>1
    <3>. HIDE DEF u, p
    <3> QED BY <3>1, <3>2, <3>3 DEF Receipts
  <2> QED BY <1>2, <1>4, <2>2 DEF Fails, Weakens, Sound, Covered
<1>5. CASE ~(c = "flood" /\ t.floods >= Budget)
  <2>1. ProtectionOf[c] \in {"unresolved", "flood", "transient"}
    BY DEF ProtectionOf, Causes
  <2>2. e = [r EXCEPT !.trial = [t EXCEPT !.state = "fencing", !.run = "absent"],
                      !.protection = ProtectionOf[c]]
    BY <1>3, <1>5
  <2>3. /\ e \in Receipts /\ e.trial.state = "fencing" /\ e.trial.auto
        /\ e.trial.floods = t.floods /\ e.intent = r.intent /\ e.floor = r.floor /\ e.protection # Nil
    <3>. DEFINE u == [t EXCEPT !.state = "fencing", !.run = "absent"]
                p == ProtectionOf[c]
    <3>1. u \in Trials /\ u.state = "fencing" /\ u.auto /\ u.floods = t.floods
      BY <1>2 DEF Trials, Phases
    <3>2. p \in Protections /\ p # Nil
      BY <2>1 DEF Protections, Recoverable, Nil
    <3>3. e = [r EXCEPT !.trial = u, !.protection = p]
      BY <2>2
    <3>. HIDE DEF u, p
    <3> QED BY <3>1, <3>2, <3>3 DEF Receipts
  <2> QED BY <1>2, <1>5, <2>3 DEF Fails, Weakens, Sound, Covered
<1> QED BY <1>4, <1>5

LEMMA StrengthenFacts ==
    ASSUME NEW r \in Receipts, Sound(r), r.trial.auto, r.trial.state \in {"fencing", "waiting"},
           NEW e, e = Strengthen(r)
    PROVE  /\ Fails(r, e)
           /\ e.trial.state = IF r.trial.floods >= Budget THEN "exhausted" ELSE r.trial.state
<1>. DEFINE t == [r.trial EXCEPT !.cause = "flood"]
            u == [t EXCEPT !.state = "exhausted"]
            n == Longest(Backoff("flood", t.stage["flood"]), r.due.left)
            due == IF t.state = "waiting" THEN Wait(n) ELSE r.due
<1>1. /\ t \in Trials /\ t.auto /\ t.floods = r.trial.floods /\ t.state = r.trial.state
      /\ t.cause = "flood" /\ t.stage["flood"] \in 0..MaxStage
  BY DEF Receipts, Trials, Causes
<1>2. Backoff("flood", t.stage["flood"]) \in Int /\ r.due \in Waits /\ r.due.left \in Nat
  BY <1>1, BackoffType DEF Causes, Receipts, Waits
<1>3. n \in Nat /\ n >= Backoff("flood", t.stage["flood"])
  BY <1>2, LongestFacts
<1>4. due \in Waits /\ (t.state = "waiting" => due.left = n)
  BY <1>2, <1>3 DEF Wait, Waits
<1>5. CASE t.floods >= Budget
  <2>1. e = [r EXCEPT !.trial = u, !.protection = "exhausted"]
    BY <1>5 DEF Strengthen, Exhaust
  <2>2. u \in Trials /\ u.state = "exhausted" /\ u.auto /\ u.floods = r.trial.floods
    BY <1>1 DEF Trials, Phases
  <2>3. "exhausted" \in Protections /\ "exhausted" # Nil
    BY DEF Protections, Nil
  <2>. HIDE DEF u
  <2>4. /\ e \in Receipts /\ e.trial = u /\ e.intent = r.intent /\ e.floor = r.floor
        /\ e.protection = "exhausted"
    BY <2>1, <2>2, <2>3 DEF Receipts
  <2> QED BY <1>1, <1>5, <2>2, <2>3, <2>4 DEF Fails, Weakens, Sound, Covered
<1>6. CASE ~(t.floods >= Budget)
  <2>1. e = [r EXCEPT !.trial = t, !.due = due]
    BY <1>6 DEF Strengthen
  <2>. HIDE DEF t, due, n
  <2>2. /\ e \in Receipts /\ e.trial = t /\ e.due = due /\ e.intent = r.intent /\ e.floor = r.floor
        /\ e.protection = r.protection
    BY <1>1, <1>4, <2>1 DEF Receipts
  <2>3. \A w \in Nat : Covered(e, w)
    BY <1>1, <1>2, <1>3, <1>4, <2>2 DEF Covered
  <2> QED BY <1>1, <1>6, <2>2, <2>3 DEF Fails, Weakens, Sound
<1> QED BY <1>1, <1>5, <1>6

-----------------------------------------------------------------------------
(* What the policy decides *)

Events == Failures \cup {"quiesced", "due", "success", "stability"}

LEMMA RuleFacts ==
    ASSUME NEW state \in Phases, NEW ev \in Events, NEW rule, rule = Rule(state, ev)
    PROVE  \/ rule = "hold"
           \/ rule = "arm" /\ ev \in Failures /\ state \in {"none", "succeeded"}
           \/ rule = "refence" /\ ev \in Failures /\ state = "consumed"
           \/ rule = "strengthen" /\ ev = "settled" /\ state \in {"fencing", "waiting"}
           \/ rule = "quiesced" /\ ev = "quiesced" /\ state = "fencing"
           \/ rule = "due" /\ ev = "due" /\ state = "waiting"
           \/ rule = "success" /\ ev = "success" /\ state = "consumed"
           \/ rule = "stability" /\ ev = "stability" /\ state = "succeeded"
BY DEF Rule, Phases, Events, Failures, Acting

LEMMA CauseType ==
    ASSUME NEW r \in Receipts, NEW ev \in Events, NEW cause \in Causes \cup {Nil}
    PROVE  CauseOf(r, ev, cause) \in Causes \cup {Nil}
BY DEF CauseOf, Observed, Receipts, Trials, Causes

\* Each command and what it is decided on
Decided(r, ev, cause, d) ==
    LET c == CauseOf(r, ev, cause)
    IN  \/ d.command = "wait"
        \/ /\ d.command = "arm" /\ ev \in Failures /\ c # Nil
           /\ r.trial.state \in {"none", "succeeded", "consumed"}
           /\ d.next = IF c = "flood" /\ ~FloodsLeft(r) THEN "exhausted" ELSE "fencing"
        \/ /\ d.command = "strengthen" /\ ev = "settled" /\ c = "flood" /\ r.trial.auto
           /\ r.trial.state \in {"fencing", "waiting"}
           /\ d.next = IF FloodsLeft(r) THEN r.trial.state ELSE "exhausted"
        \/ /\ d.command = "set_wait" /\ ev = "quiesced" /\ r.trial.auto /\ r.trial.state = "fencing"
           /\ ~Owners(r) /\ d.next = "waiting"
        \/ /\ d.command = "consume" /\ ev = "due" /\ r.trial.auto /\ r.trial.state = "waiting"
           /\ OutcomesSettled(r) /\ Due(r) /\ (c = "flood" => FloodsLeft(r)) /\ d.next = "consumed"
        \/ /\ d.command = "succeed" /\ ev = "success" /\ r.trial.auto /\ r.trial.state = "consumed"
           /\ d.next = "succeeded"
        \/ /\ d.command = "reset" /\ ev = "stability" /\ r.trial.auto /\ r.trial.state = "succeeded"
           /\ Reason(receipt, hold) = Nil /\ d.next = "none"

LEMMA DecideFacts ==
    ASSUME NEW r \in Receipts, NEW ev \in Events, NEW cause \in Causes \cup {Nil},
           NEW quiesced \in BOOLEAN, NEW d, d = Decide(r, ev, cause, quiesced)
    PROVE  Decided(r, ev, cause, d)
<1>. DEFINE rule == Rule(r.trial.state, ev)
            c == CauseOf(r, ev, cause)
            keep == [command |-> "wait", next |-> r.trial.state]
<1>1. r.trial.state \in Phases
  BY DEF Receipts, Trials
<1>2. /\ d = IF rule = "hold" \/ ModeHold(r) THEN keep
            ELSE IF rule \in {"arm", "refence"} THEN DecideFailure(r, ev, c, keep)
            ELSE IF r.trial.auto THEN DecideAction(r, ev, c, quiesced, keep)
            ELSE keep
  BY DEF Decide
<1>3. keep.command = "wait"
  OBVIOUS
<1>4. CASE d = keep
  BY <1>3, <1>4 DEF Decided
<1>5. CASE rule \in {"arm", "refence"} /\ ~ModeHold(r) /\ d = DecideFailure(r, ev, c, keep) /\ d # keep
  <2>1. FailureCounts(r, ev, c) /\ ev \in Failures /\ r.trial.state \in {"none", "succeeded", "consumed"}
    <3>1. FailureCounts(r, ev, c)
      <4>. HIDE DEF rule, c, keep
      <4> QED BY <1>5 DEF DecideFailure
    <3>. HIDE DEF c, keep
    <3> QED BY <1>1, <1>5, <3>1, RuleFacts
  <2>2. d.command = "arm" /\ d.next = IF c = "flood" /\ ~FloodsLeft(r) THEN "exhausted" ELSE "fencing"
    <3>. HIDE DEF rule, c, keep
    <3>. DEFINE next == IF c = "flood" /\ ~FloodsLeft(r) THEN "exhausted" ELSE "fencing"
    <3>1. d = [command |-> "arm", next |-> next]
      BY <1>5 DEF DecideFailure
    <3>. HIDE DEF next
    <3>2. d.command = "arm" /\ d.next = next
      BY <3>1
    <3> QED BY <3>2 DEF next
  <2>3. c # Nil
    <3>1. CASE r.trial.state = "consumed" /\ ev = "startup" /\ r.trial.run = "other"
      <4>1. r.trial.auto
        BY <1>5, <3>1 DEF ModeHold
      <4>2. c = r.trial.cause
        BY <3>1, <4>1 DEF CauseOf, Interrupted
      <4> QED BY <4>2 DEF Receipts, Trials, Causes, Nil
    <3> QED BY <2>1, <3>1 DEF FailureCounts
  <2> QED BY <2>1, <2>2, <2>3 DEF Decided
<1>6. CASE rule \notin {"arm", "refence", "hold"} /\ r.trial.auto /\ d # keep
           /\ d = DecideAction(r, ev, c, quiesced, keep)
  <2>1. \/ ev = "settled" /\ r.trial.state \in {"fencing", "waiting"}
        \/ ev = "quiesced" /\ r.trial.state = "fencing"
        \/ ev = "due" /\ r.trial.state = "waiting"
        \/ ev = "success" /\ r.trial.state = "consumed"
        \/ ev = "stability" /\ r.trial.state = "succeeded"
    BY <1>1, <1>6, RuleFacts
  <2>2. CASE ev = "settled" /\ r.trial.state \in {"fencing", "waiting"}
    <3>. DEFINE next == IF FloodsLeft(r) THEN r.trial.state ELSE "exhausted"
    <3>1. c = "flood" /\ d = [command |-> "strengthen", next |-> next]
      <4>. HIDE DEF rule, c, keep
      <4> QED BY <1>6, <2>2 DEF DecideAction
    <3>2. d.command = "strengthen" /\ d.next = next
      <4>. HIDE DEF next
      <4> QED BY <3>1
    <3> QED BY <1>6, <2>2, <3>1, <3>2 DEF Decided
  <2>3. CASE ev = "quiesced" /\ r.trial.state = "fencing"
    BY <1>6, <2>3 DEF DecideAction, Decided, Guard
  <2>4. CASE ev = "due" /\ r.trial.state = "waiting"
    BY <1>6, <2>4 DEF DecideAction, Decided, Guard, Safe, ScopeSafe
  <2>5. CASE ev = "success" /\ r.trial.state = "consumed"
    BY <1>6, <2>5 DEF DecideAction, Decided
  <2>6. CASE ev = "stability" /\ r.trial.state = "succeeded"
    BY <1>6, <2>6 DEF DecideAction, Decided, Guard, Safe
  <2> QED BY <2>1, <2>2, <2>3, <2>4, <2>5, <2>6
<1> QED BY <1>2, <1>4, <1>5, <1>6

-----------------------------------------------------------------------------
(* A decision and its effect *)

\* The wait of an episode is set once nothing is on the wire.
StartsWaiting(r, e) ==
    /\ r.trial.state = "fencing" /\ ~Owners(r) /\ e.trial.state = "waiting"
    /\ e \in Receipts /\ Sound(e) /\ e.intent = r.intent
    /\ e.protection = r.protection /\ e.trial.floods = r.trial.floods
    /\ Covered(e, 0)

\* A due trial is spent and binds the reads whose outcomes are unknown.
Spent(r, e) ==
    /\ r.trial.state = "waiting" /\ Due(r) /\ e.trial.state = "consumed" /\ r.trial.auto /\ e.trial.auto
    /\ e \in Receipts /\ Sound(e) /\ Blocked(e) = {} /\ Blocked(r) \subseteq Reads
    /\ \A i \in Requests : e.intent[i] = "policy" => r.intent[i] = "policy" \/ i \in Reads
    /\ e.protection = Nil /\ e.trial.run = "current" /\ e.trial.cause = r.trial.cause
    /\ e.trial.floods = IF e.trial.cause = "flood" THEN r.trial.floods + 1 ELSE r.trial.floods

\* A trial that ends well keeps its episode until the account has been calm.
Succeeds(r, e) ==
    /\ r.trial.state = "consumed" /\ e.trial.state = "succeeded"
    /\ e \in Receipts /\ (Sound(r) => Sound(e)) /\ e.intent = r.intent
    /\ e.trial.floods = r.trial.floods /\ e.trial.auto = r.trial.auto

LEMMA SetWaitFacts ==
    ASSUME NEW r \in Receipts, Sound(r), r.trial.state = "fencing", ~Owners(r),
           NEW e, e = SetWait(r)
    PROVE  StartsWaiting(r, e)
<1>. DEFINE t == r.trial
            u == [t EXCEPT !.state = "waiting"]
            n == Longest(Backoff(t.cause, t.stage[t.cause]), r.due.left)
            due == Wait(n)
<1>1. /\ u \in Trials /\ u.state = "waiting" /\ u.auto = t.auto /\ u.floods = t.floods
      /\ u.cause = t.cause /\ u.stage = t.stage /\ t.cause \in Causes /\ t.stage[t.cause] \in 0..MaxStage
  BY DEF Receipts, Trials, Phases
<1>2. Backoff(t.cause, t.stage[t.cause]) \in Int /\ r.due \in Waits /\ r.due.left \in Nat
  BY <1>1, BackoffType DEF Receipts, Waits
<1>3. n \in Nat /\ n >= Backoff(t.cause, t.stage[t.cause])
  <2>. HIDE DEF t
  <2> QED BY <1>2, LongestFacts
<1>4. due \in Waits /\ due.left = n
  BY <1>3 DEF Wait, Waits
<1>5. e = [r EXCEPT !.trial = u, !.due = due]
  BY DEF SetWait
<1>. HIDE DEF u, due, n
<1>6. /\ e \in Receipts /\ e.trial = u /\ e.due = due /\ e.intent = r.intent /\ e.floor = r.floor
      /\ e.protection = r.protection
  BY <1>1, <1>4, <1>5 DEF Receipts
<1>7. Covered(e, 0)
  BY <1>1, <1>2, <1>3, <1>4, <1>6 DEF Covered
<1>8. Sound(e)
  BY <1>1, <1>6 DEF Sound
<1> QED BY <1>1, <1>6, <1>7, <1>8 DEF StartsWaiting

LEMMA ConsumeFacts ==
    ASSUME NEW r \in Receipts, Sound(r), r.trial.state = "waiting", Due(r), OutcomesSettled(r),
           r.trial.cause = "flood" => FloodsLeft(r),
           NEW e, e = Consume(r)
    PROVE  Spent(r, e)
<1>. DEFINE t == r.trial
            n == IF t.cause = "flood" THEN t.floods + 1 ELSE t.floods
            u == [t EXCEPT !.state = "consumed", !.run = "current", !.floods = n]
            intent == [i \in Requests |-> IF i \in Blocked(r) THEN "policy" ELSE r.intent[i]]
<1>1. t \in Trials /\ t.auto /\ t.floods \in 0..Budget /\ Budget \in Nat /\ r.intent \in [Requests -> Intents]
  BY RecoveryAssumption DEF Receipts, Trials, Sound
<1>2. n \in 0..Budget
  BY <1>1 DEF FloodsLeft
<1>3. /\ u \in Trials /\ u.state = "consumed" /\ u.run = "current" /\ u.auto /\ u.cause = t.cause
      /\ u.floods = n
  <2>. HIDE DEF t, n
  <2> QED BY <1>1, <1>2 DEF Trials, Phases
<1>4. intent \in [Requests -> Intents]
  BY <1>1 DEF Intents
<1>5. \A i \in Requests : intent[i] \notin Blocking
  BY <1>1 DEF Blocked, Blocking, Intents
<1>6. \A i \in Requests : intent[i] = "policy" => r.intent[i] = "policy" \/ i \in Reads
  BY DEF OutcomesSettled
<1>7. e = [r EXCEPT !.trial = u, !.intent = intent, !.protection = Nil]
  BY DEF Consume
<1>8. Nil \in Protections
  BY DEF Protections, Recoverable
<1>. HIDE DEF u, intent, n
<1>9. /\ e \in Receipts /\ e.trial = u /\ e.intent = intent /\ e.protection = Nil
  BY <1>3, <1>4, <1>7, <1>8 DEF Receipts
<1>10. Blocked(e) = {}
  BY <1>5, <1>9 DEF Blocked
<1>11. Sound(e)
  BY <1>3, <1>9 DEF Sound
<1>12. Blocked(r) \subseteq Reads
  BY DEF OutcomesSettled
<1>13. e.trial.floods = IF e.trial.cause = "flood" THEN r.trial.floods + 1 ELSE r.trial.floods
  BY <1>3, <1>9 DEF n
<1> QED BY <1>1, <1>3, <1>6, <1>9, <1>10, <1>11, <1>12, <1>13 DEF Spent

LEMMA SuccessFacts ==
    ASSUME NEW r \in Receipts, r.trial.state = "consumed", NEW e, e = ApplySuccess(r)
    PROVE  Succeeds(r, e)
<1>. DEFINE u == [r.trial EXCEPT !.state = "succeeded"]
<1>1. /\ u \in Trials /\ u.state = "succeeded" /\ u.auto = r.trial.auto /\ u.floods = r.trial.floods
  BY DEF Receipts, Trials, Phases
<1>2. Nil \in Protections
  BY DEF Protections, Recoverable
<1>3. e = [r EXCEPT !.trial = u, !.protection = Nil]
  BY DEF ApplySuccess, Ends
<1>. HIDE DEF u
<1>4. e \in Receipts /\ e.trial = u /\ e.intent = r.intent /\ e.floor = r.floor
  BY <1>1, <1>2, <1>3 DEF Receipts
<1>5. Sound(r) => Sound(e)
  BY <1>1, <1>4 DEF Sound
<1> QED BY <1>1, <1>4, <1>5 DEF Succeeds

\* What is forgotten is the whole episode.
LEMMA ForgottenFacts ==
    ASSUME NEW r \in Receipts, NEW e, e = [r EXCEPT !.trial = NoTrial]
    PROVE  /\ e \in Receipts /\ Sound(e) /\ e.intent = r.intent /\ e.floor = r.floor
           /\ e.protection = r.protection /\ e.trial = NoTrial
<1>1. e \in Receipts /\ e.trial = NoTrial
  BY NoTrialType DEF Receipts
<1>2. Sound(e)
  BY <1>1 DEF Sound, NoTrial
<1> QED BY <1>1, <1>2 DEF Receipts

\* The effect of each command
Obeys(r, ev, d, e) ==
    \/ d.command = "wait" /\ e = r
    \/ ev \in Failures /\ Fails(r, e) /\ e.trial.state = d.next
    \/ ev = "quiesced" /\ StartsWaiting(r, e) /\ e.trial.state = d.next
    \/ ev = "due" /\ Spent(r, e) /\ e.trial.state = d.next
    \/ ev = "success" /\ Succeeds(r, e) /\ r.trial.auto /\ e.trial.state = d.next
    \/ /\ ev = "stability" /\ e = [r EXCEPT !.trial = NoTrial] /\ e.trial.state = d.next
       /\ r.trial.state = "succeeded" /\ r.trial.auto /\ Reason(receipt, hold) = Nil

\* It is the one decided, for whatever cause it was.
LEMMA ApplyFacts ==
    ASSUME NEW r \in Receipts, Sound(r), NEW ev \in Events, NEW cause \in Causes \cup {Nil},
           NEW observed \in BOOLEAN, NEW d, Decided(r, ev, cause, d),
           NEW e, e = Apply(r, d, ev, cause, observed)
    PROVE  Obeys(r, ev, d, e)
<1>. USE DEF Obeys
<1>. DEFINE c == CauseOf(r, ev, cause)
            named == IF c # Nil THEN c ELSE IF r.trial.auto THEN r.trial.cause ELSE "read"
<1>1. c \in Causes \cup {Nil}
  BY CauseType
<1>2. named \in Causes /\ (c # Nil => named = c)
  BY <1>1 DEF Receipts, Trials, Causes
<1>3. e = CASE d.command = "arm" -> Schedule(r, named, observed)
            [] d.command = "strengthen" -> Strengthen(r)
            [] d.command = "set_wait" -> SetWait(r)
            [] d.command = "consume" -> Consume(r)
            [] d.command = "succeed" -> ApplySuccess(r)
            [] d.command = "reset" -> [r EXCEPT !.trial = NoTrial]
            [] OTHER -> r
  BY DEF Apply
<1>4. CASE d.command = "wait"
  BY <1>3, <1>4
<1>5. CASE d.command = "arm"
  <2>1. /\ ev \in Failures /\ c # Nil
        /\ d.next = IF c = "flood" /\ ~FloodsLeft(r) THEN "exhausted" ELSE "fencing"
    BY <1>5 DEF Decided
  <2>2. e = Schedule(r, c, observed) /\ c \in Causes
    <3>. HIDE DEF c, named
    <3> QED BY <1>1, <1>2, <1>3, <1>5, <2>1
  <2>3. /\ Fails(r, e)
        /\ e.trial.state = IF c = "flood" /\ r.trial.floods >= Budget THEN "exhausted" ELSE "fencing"
    <3>. HIDE DEF c
    <3> QED BY <2>2, ScheduleFacts
  <2>4. FloodsLeft(r) <=> ~(r.trial.floods >= Budget)
    BY RecoveryAssumption DEF FloodsLeft, Receipts, Trials
  <2> QED BY <2>1, <2>3, <2>4
<1>6. CASE d.command = "strengthen"
  <2>1. /\ ev = "settled" /\ r.trial.auto /\ r.trial.state \in {"fencing", "waiting"}
        /\ d.next = IF FloodsLeft(r) THEN r.trial.state ELSE "exhausted"
    BY <1>6 DEF Decided
  <2>2. e = Strengthen(r)
    BY <1>3, <1>6
  <2>3. Fails(r, e) /\ e.trial.state = IF r.trial.floods >= Budget THEN "exhausted" ELSE r.trial.state
    BY <2>1, <2>2, StrengthenFacts
  <2>4. FloodsLeft(r) <=> ~(r.trial.floods >= Budget)
    BY RecoveryAssumption DEF FloodsLeft, Receipts, Trials
  <2> QED BY <2>1, <2>3, <2>4 DEF Failures
<1>7. CASE d.command = "set_wait"
  <2>1. ev = "quiesced" /\ r.trial.state = "fencing" /\ ~Owners(r) /\ d.next = "waiting"
    BY <1>7 DEF Decided
  <2>2. StartsWaiting(r, e)
    BY <1>3, <1>7, <2>1, SetWaitFacts
  <2> QED BY <2>1, <2>2 DEF StartsWaiting
<1>8. CASE d.command = "consume"
  <2>1. /\ ev = "due" /\ r.trial.auto /\ r.trial.state = "waiting"
        /\ OutcomesSettled(r) /\ Due(r) /\ (c = "flood" => FloodsLeft(r)) /\ d.next = "consumed"
    BY <1>8 DEF Decided
  <2>2. c = r.trial.cause
    BY <2>1 DEF CauseOf
  <2>3. Spent(r, e)
    BY <1>3, <1>8, <2>1, <2>2, ConsumeFacts
  <2> QED BY <2>1, <2>3 DEF Spent
<1>9. CASE d.command = "succeed"
  <2>1. ev = "success" /\ r.trial.auto /\ r.trial.state = "consumed" /\ d.next = "succeeded"
    BY <1>9 DEF Decided
  <2>2. Succeeds(r, e)
    BY <1>3, <1>9, <2>1, SuccessFacts
  <2> QED BY <2>1, <2>2 DEF Succeeds
<1>10. CASE d.command = "reset"
  <2>1. /\ ev = "stability" /\ r.trial.auto /\ r.trial.state = "succeeded"
        /\ Reason(receipt, hold) = Nil /\ d.next = "none"
    BY <1>10 DEF Decided
  <2>2. e = [r EXCEPT !.trial = NoTrial]
    BY <1>3, <1>10
  <2>3. e.trial.state = "none"
    BY <2>2, ForgottenFacts DEF NoTrial
  <2> QED BY <2>1, <2>2, <2>3
<1> QED BY <1>4, <1>5, <1>6, <1>7, <1>8, <1>9, <1>10 DEF Decided

\* What the policy makes of an event
Becomes(r, ev, e) ==
    \/ e = r
    \/ ev \in Failures /\ Fails(r, e)
    \/ ev = "quiesced" /\ StartsWaiting(r, e)
    \/ ev = "due" /\ Spent(r, e)
    \/ ev = "success" /\ Succeeds(r, e) /\ r.trial.auto
    \/ /\ ev = "stability" /\ e = [r EXCEPT !.trial = NoTrial]
       /\ r.trial.state = "succeeded" /\ r.trial.auto /\ Reason(receipt, hold) = Nil

LEMMA TransitionFacts ==
    ASSUME NEW r \in Receipts, Sound(r), NEW ev \in Events, NEW cause \in Causes \cup {Nil},
           NEW quiesced \in BOOLEAN, NEW observed \in BOOLEAN,
           NEW e, e = Transition(r, ev, cause, quiesced, observed)
    PROVE  Becomes(r, ev, e)
<1>. DEFINE d == Decide(r, ev, cause, quiesced)
<1>1. Decided(r, ev, cause, d)
  BY DecideFacts
<1>2. e = Apply(r, d, ev, cause, observed)
  BY DEF Transition
<1>. HIDE DEF d
<1> QED BY <1>1, <1>2, ApplyFacts DEF Becomes, Obeys

\* A failure, settled, observed or found at the start, only fails.
LEMMA TransitionFails ==
    ASSUME NEW r \in Receipts, Sound(r), NEW ev \in Failures, NEW cause \in Causes \cup {Nil},
           NEW quiesced \in BOOLEAN, NEW observed \in BOOLEAN,
           NEW e, e = Transition(r, ev, cause, quiesced, observed)
    PROVE  Fails(r, e)
<1>1. ev \in Events /\ ev \notin {"quiesced", "due", "success", "stability"}
  BY DEF Events, Failures
<1>2. e = r \/ Fails(r, e)
  BY <1>1, TransitionFacts DEF Becomes
<1> QED BY <1>2, FailsNothing

-----------------------------------------------------------------------------
(* What happens to a receipt besides *)

LEMMA WeakensTwice ==
    ASSUME NEW r, NEW e, NEW f, Weakens(r, e), Weakens(e, f) PROVE Weakens(r, f)
BY DEF Weakens

\* Only the protection changes, and not to nothing.
LEMMA ProtectedFacts ==
    ASSUME NEW r \in Receipts, Sound(r), NEW p \in Protections, p # Nil,
           NEW e, e = [r EXCEPT !.protection = p]
    PROVE  Fails(r, e) /\ e.protection = p
<1>1. /\ e \in Receipts /\ e.trial = r.trial /\ e.due = r.due /\ e.intent = r.intent
      /\ e.protection = p
  BY DEF Receipts
<1> QED BY <1>1 DEF Fails, Weakens, Sound, Covered

LEMMA EndsFacts ==
    ASSUME NEW r \in Receipts, Sound(r), ~r.trial.auto,
           NEW e, e = [r EXCEPT !.trial = Ends(r, "failed"), !.protection = "trial_failed"]
    PROVE  Fails(r, e) /\ e.protection # Nil
<1>. DEFINE u == Ends(r, "failed")
<1>1. u \in Trials /\ u.state = "failed" /\ ~u.auto /\ u.floods = r.trial.floods
  BY DEF Ends, Receipts, Trials, Phases
<1>2. "trial_failed" \in Protections /\ "trial_failed" # Nil
  BY DEF Protections, Recoverable, Nil
<1>3. e = [r EXCEPT !.trial = u, !.protection = "trial_failed"]
  OBVIOUS
<1>. HIDE DEF u
<1>4. e \in Receipts /\ e.trial = u /\ e.intent = r.intent /\ e.protection = "trial_failed"
  BY <1>1, <1>2, <1>3 DEF Receipts
<1>5. Sound(e)
  BY <1>1, <1>4 DEF Sound
<1> QED BY <1>1, <1>2, <1>4, <1>5 DEF Fails, Weakens, Covered

\* A failure inside an attempt
LEMMA InvalidatedFails ==
    ASSUME NEW r \in Receipts, Sound(r), NEW cause \in Causes \cup {Nil}, NEW flood \in BOOLEAN,
           NEW e, e = Invalidated(r, cause, flood)
    PROVE  Fails(r, e)
<1>1. \/ e = Transition(r, "settled", cause, FALSE, flood)
      \/ ~r.trial.auto /\ e = [r EXCEPT !.trial = Ends(r, "failed"), !.protection = "trial_failed"]
      \/ e = r
  BY DEF Invalidated
<1>2. "settled" \in Failures
  BY DEF Failures
<1> QED BY <1>1, <1>2, TransitionFails, EndsFacts, FailsNothing

LEMMA FailedTrialFails ==
    ASSUME NEW r \in Receipts, Sound(r), NEW cause \in Causes \cup {Nil},
           NEW e, e = FailedTrial(r, cause)
    PROVE  Fails(r, e)
<1>1. r.trial.cause \in Causes /\ "settled" \in Failures
  BY DEF Receipts, Trials, Failures
<1>2. \/ \E c \in Causes \cup {Nil} : e = Transition(r, "settled", c, FALSE, FALSE)
      \/ ~r.trial.auto /\ e = [r EXCEPT !.trial = Ends(r, "failed"), !.protection = "trial_failed"]
      \/ e = r
  BY <1>1 DEF FailedTrial
<1> QED BY <1>1, <1>2, TransitionFails, EndsFacts, FailsNothing

LEMMA EscapedFails ==
    ASSUME NEW r \in Receipts, Sound(r), NEW e, e = Escaped(r)
    PROVE  Fails(r, e)
<1>. DEFINE p == IF r.protection \in {Nil, "unresolved", "transient", "flood"}
                 THEN "integrity" ELSE r.protection
<1>1. p \in Protections /\ p # Nil
  BY DEF Receipts, Protections, Nil
<1>2. e = [r EXCEPT !.protection = p]
  BY DEF Escaped
<1>. HIDE DEF p
<1> QED BY <1>1, <1>2, ProtectedFacts

\* A flood inside an attempt or outside one
LEMMA FloodedFails ==
    ASSUME NEW r \in Receipts, Sound(r), NEW open \in BOOLEAN, NEW e, e = Flooded(r, open)
    PROVE  Fails(r, e) /\ (open => e.protection # Nil)
<1>. DEFINE x == Extended(r)
            m == FloodMark(x, open)
<1>1. Fails(r, x) /\ x \in Receipts /\ Sound(x) /\ x.protection = r.protection /\ x.trial = r.trial
  <2>. DEFINE n == Longest(r.floor.left, Floor)
              w == Wait(n)
  <2>1. r.floor.left \in Nat /\ Floor \in Nat
    BY RecoveryAssumption DEF Receipts, Waits
  <2>2. n \in Nat
    BY <2>1, LongestFacts
  <2>3. w \in Waits
    BY <2>2 DEF Wait, Waits
  <2>4. x = [r EXCEPT !.floor = w]
    BY DEF Extended
  <2>. HIDE DEF x, w
  <2>5. /\ x \in Receipts /\ x.trial = r.trial /\ x.due = r.due /\ x.intent = r.intent
        /\ x.protection = r.protection
    BY <2>3, <2>4 DEF Receipts
  <2> QED BY <2>5 DEF Fails, Weakens, Sound, Covered
<1>. HIDE DEF x
<1>2. /\ Fails(x, m) /\ m \in Receipts /\ Sound(m) /\ (open => m.protection # Nil)
  <2>1. CASE open /\ x.trial.state # "exhausted"
    <3>1. m = [x EXCEPT !.protection = "flood"]
      BY <2>1 DEF FloodMark
    <3>2. "flood" \in Protections /\ "flood" # Nil
      BY DEF Protections, Recoverable, Nil
    <3>. HIDE DEF m
    <3> QED BY <1>1, <3>1, <3>2, ProtectedFacts DEF Fails, Weakens
  <2>2. CASE ~(open /\ x.trial.state # "exhausted")
    <3>1. m = x
      BY <2>2 DEF FloodMark
    <3>2. open => x.protection # Nil
      BY <1>1, <2>2 DEF Sound
    <3>. HIDE DEF m
    <3> QED BY <1>1, <3>1, <3>2, FailsNothing
  <2> QED BY <2>1, <2>2
<1>3. e = m \/ e = Invalidated(m, "flood", TRUE)
  BY DEF Flooded, x
<1>. HIDE DEF m
<1>4. Fails(m, e)
  BY <1>2, <1>3, InvalidatedFails, FailsNothing DEF Causes
<1>5. Fails(x, e)
  BY <1>2, <1>4, FailsTwice
<1>6. Fails(r, e)
  BY <1>1, <1>5, FailsTwice
<1>7. open => e.protection # Nil
  BY <1>2, <1>4 DEF Fails, Weakens
<1> QED BY <1>6, <1>7

LEMMA RecordedFacts ==
    ASSUME NEW r \in Receipts, Sound(r), NEW i \in Requests, NEW outcome \in Intents,
           NEW e, e = Recorded(r, i, outcome)
    PROVE  /\ Weakens(r, e) /\ e.intent[i] = outcome /\ e.protection = r.protection
           /\ \A j \in Requests \ {i} : e.intent[j] = r.intent[j]
<1>. DEFINE intent == [r.intent EXCEPT ![i] = outcome]
<1>1. /\ intent \in [Requests -> Intents] /\ intent[i] = outcome
      /\ \A j \in Requests \ {i} : intent[j] = r.intent[j]
  BY DEF Receipts
<1>2. e = [r EXCEPT !.intent = intent]
  BY DEF Recorded
<1>. HIDE DEF intent
<1>3. /\ e \in Receipts /\ e.trial = r.trial /\ e.due = r.due /\ e.intent = intent
      /\ e.protection = r.protection
  BY <1>1, <1>2 DEF Receipts
<1> QED BY <1>1, <1>3 DEF Weakens, Sound, Covered

LEMMA UnknownFacts ==
    ASSUME NEW r \in Receipts, Sound(r), NEW i \in Requests, NEW e, e = MarkUnknown(r, i)
    PROVE  /\ Weakens(r, e) /\ e.intent[i] = "unknown"
           /\ \A j \in Requests \ {i} : e.intent[j] = r.intent[j]
<1>. DEFINE intent == [r.intent EXCEPT ![i] = "unknown"]
            p == IF r.protection \in {Nil, "unresolved"} /\ r.trial.state # "exhausted"
                 THEN "unresolved" ELSE r.protection
<1>1. /\ intent \in [Requests -> Intents] /\ intent[i] = "unknown"
      /\ \A j \in Requests \ {i} : intent[j] = r.intent[j]
  BY DEF Receipts, Intents
<1>2. p \in Protections /\ (p = Nil => r.protection = Nil)
  BY DEF Receipts, Protections, Recoverable, Nil
<1>3. e = [r EXCEPT !.intent = intent, !.protection = p]
  BY DEF MarkUnknown
<1>. HIDE DEF intent, p
<1>4. /\ e \in Receipts /\ e.trial = r.trial /\ e.due = r.due /\ e.intent = intent
      /\ e.protection = p
  BY <1>1, <1>2, <1>3 DEF Receipts
<1> QED BY <1>1, <1>2, <1>4 DEF Weakens, Sound, Covered

\* A wait that is loaded again is no shorter.
Again(w, reboot) == IF reboot THEN [w EXCEPT !.left = Longest(w.left, w.span)] ELSE w

LEMMA AgainFacts ==
    ASSUME NEW w \in Waits, NEW reboot \in BOOLEAN
    PROVE  Again(w, reboot) \in Waits /\ Again(w, reboot).left >= w.left
<1>1. w.left \in Nat /\ w.span \in Nat
  BY DEF Waits
<1>2. Longest(w.left, w.span) \in Nat /\ Longest(w.left, w.span) >= w.left
  BY <1>1, LongestFacts
<1> QED BY <1>1, <1>2 DEF Again, Waits

LEMMA ReloadedFacts ==
    ASSUME receipt \in Receipts, Sound(receipt), NEW reboot \in BOOLEAN, NEW e, e = Reloaded(reboot)
    PROVE  /\ Weakens(receipt, e) /\ e.protection = receipt.protection
           /\ \A i \in Requests : /\ e.intent[i] # "prepared"
                                  /\ e.intent[i] = "policy" => receipt.intent[i] = "policy"
<1>. DEFINE t == receipt.trial
            run == IF t.run = "absent" THEN "absent" ELSE "other"
            u == [t EXCEPT !.run = run]
            intent == [i \in Requests |-> IF receipt.intent[i] = "prepared" THEN "orphan"
                                          ELSE receipt.intent[i]]
            f == Again(receipt.floor, reboot)
            g == Again(receipt.due, reboot)
<1>1. t \in Trials /\ receipt.intent \in [Requests -> Intents] /\ receipt.protection \in Protections
      /\ receipt.due \in Waits /\ receipt.floor \in Waits
  BY DEF Receipts
<1>2. /\ u \in Trials /\ u.state = t.state /\ u.auto = t.auto /\ u.floods = t.floods
      /\ u.cause = t.cause /\ u.stage = t.stage
  BY <1>1 DEF Trials
<1>3. /\ intent \in [Requests -> Intents]
      /\ \A i \in Requests : /\ intent[i] # "prepared"
                             /\ intent[i] = "policy" => receipt.intent[i] = "policy"
  BY <1>1 DEF Intents
<1>4. f \in Waits /\ g \in Waits /\ g.left >= receipt.due.left
  BY <1>1, AgainFacts
<1>5. e = [receipt EXCEPT !.intent = intent, !.trial = u, !.floor = f, !.due = g]
  BY DEF Reloaded, Again
<1>. HIDE DEF u, intent, f, g
<1>6. /\ e \in Receipts /\ e.intent = intent /\ e.trial = u /\ e.due = g
      /\ e.protection = receipt.protection
  BY <1>1, <1>2, <1>3, <1>4, <1>5 DEF Receipts
<1>7. Sound(e)
  BY <1>2, <1>6 DEF Sound
<1>8. \A w \in Nat : Covered(receipt, w) => Covered(e, w)
  <2>1. Backoff(t.cause, t.stage[t.cause]) \in Int /\ receipt.due.left \in Int /\ g.left \in Int
    BY <1>1, <1>4, BackoffType DEF Trials, Waits
  <2> QED BY <1>2, <1>4, <1>6, <2>1 DEF Covered
<1> QED BY <1>2, <1>3, <1>6, <1>7, <1>8 DEF Weakens

\* The operator's grant acknowledges what was unknown.
LEMMA GrantFacts ==
    ASSUME NEW r \in Receipts, Sound(r), r.trial.state = "authorized", NEW e, e = ConsumeGrant(r)
    PROVE  /\ e \in Receipts /\ Sound(e) /\ Blocked(e) = {} /\ ~e.trial.auto
           /\ e.trial.state = "consumed" /\ e.trial.floods = r.trial.floods
           /\ \A i \in Requests : e.intent[i] = "policy" => r.intent[i] = "policy"
<1>. DEFINE t == r.trial
            u == [t EXCEPT !.state = "consumed", !.run = "current"]
            intent == [i \in Requests |-> IF i \in Blocked(r) THEN "ack" ELSE r.intent[i]]
<1>1. t \in Trials /\ ~t.auto /\ t.floods = 0 /\ r.intent \in [Requests -> Intents]
  BY DEF Receipts, Sound
<1>2. u \in Trials /\ u.state = "consumed" /\ ~u.auto /\ u.floods = t.floods
  BY <1>1 DEF Trials, Phases
<1>3. /\ intent \in [Requests -> Intents]
      /\ \A i \in Requests : /\ intent[i] \notin Blocking
                             /\ intent[i] = "policy" => r.intent[i] = "policy"
  BY <1>1 DEF Intents, Blocked, Blocking
<1>4. e = [r EXCEPT !.trial = u, !.protection = Nil, !.intent = intent]
  BY DEF ConsumeGrant
<1>5. Nil \in Protections
  BY DEF Protections, Recoverable
<1>. HIDE DEF u, intent
<1>6. e \in Receipts /\ e.intent = intent /\ e.trial = u
  BY <1>2, <1>3, <1>4, <1>5 DEF Receipts
<1>7. Sound(e)
  BY <1>1, <1>2, <1>6 DEF Sound
<1>8. Blocked(e) = {}
  BY <1>3, <1>6 DEF Blocked
<1> QED BY <1>2, <1>3, <1>6, <1>7, <1>8

-----------------------------------------------------------------------------
(* The inductive invariant *)

\* What was spent is in the episode.
Episode == Sound(receipt) /\ spent <= receipt.trial.floods

\* A run starts with nothing on the wire and no interval of stability.
Loading == life = "starting" => claimed = {} /\ stable = Off

\* A run that is not held has nothing unresolved, saved or not.
Held ==
    life # "down" /\ hold = Nil =>
        settling = {} /\ \A i \in Requests : receipt.intent[i] \notin {"orphan", "unknown"}

\* An interval of stability begins after the trial, and a failure within it starts it again
\* or leaves a reason; the reset that ends it is that of a running account.
Steady ==
    /\ stable # Off => receipt.trial.state # "consumed"
    /\ stable # Off /\ Reason(receipt, hold) = Nil => calm + stable >= Stability
    /\ step = "reset" =>
         /\ life = "running"
         /\ Reason(receipt, hold) = Nil /\ receipt.trial.state = "succeeded" => calm >= Stability

\* No cause is lost to an integrity failure while a run starts or a failure is settled.
Attributable ==
    /\ life \in {"starting", "connecting", "trying"} \/ step \in {"arm", "rearm"} => fault # "integrity"
    /\ Connecting => step = "idle"

IInv ==
    /\ TypeOK /\ Episode /\ Loading /\ Held /\ MutationNeverExcused /\ WaitIsQuiet
    /\ Covered(receipt, quiet) /\ Steady /\ Attributable

LEMMA InitHolds == Init => IInv
<1>. SUFFICES ASSUME Init PROVE IInv
  OBVIOUS
<1>. DEFINE w == Wait(0)
            intent == [i \in Requests |-> "none"]
<1>1. w \in Waits /\ intent \in [Requests -> Intents] /\ Nil \in Protections
  BY DEF Wait, Waits, Intents, Protections, Recoverable
<1>2. receipt = [intent |-> intent, protection |-> Nil, trial |-> NoTrial, floor |-> w, due |-> w]
  BY DEF Init
<1>. HIDE DEF w, intent
<1>3. receipt \in Receipts /\ receipt.intent = intent /\ receipt.trial = NoTrial
  BY <1>1, <1>2, NoTrialType DEF Receipts
<1>4. NoTrial.state = "none" /\ ~NoTrial.auto /\ NoTrial.floods = 0
  BY DEF NoTrial
<1>5. Sound(receipt) /\ Covered(receipt, quiet)
  BY <1>3, <1>4 DEF Sound, Covered
<1>6. Stability \in Nat
  BY RecoveryAssumption
<1>7. TypeOK
  <2>1. Off \in Off..Stability /\ 0 \in 0..Stability
    BY <1>6 DEF Off
  <2>2. /\ life = "running" /\ step = "idle" /\ hold = Nil
        /\ claimed = {} /\ settling = {} /\ fault = Nil /\ circuit = FALSE
        /\ stable = Off /\ gain = Nil /\ faults = 0 /\ boots = 0
        /\ spent = 0 /\ quiet = 0 /\ calm = 0
    BY DEF Init
  <2> QED BY <1>1, <1>3, <2>1, <2>2 DEF TypeOK
<1>8. \A i \in Requests : receipt.intent[i] = "none"
  BY <1>3 DEF intent
<1> QED BY <1>3, <1>4, <1>5, <1>7, <1>8
        DEF IInv, Init, Episode, Loading, Held, MutationNeverExcused, WaitIsQuiet, Steady,
            Attributable, Connecting, Nil

\* What no step may do to the trial: start it before its wait has passed, forget an episode
\* before the account has been calm.
Lawful ==
    /\ receipt'.trial.auto /\ receipt'.trial.state = "consumed" /\ receipt.trial.state # "consumed"
         => /\ quiet >= Backoff(receipt.trial.cause, receipt.trial.stage[receipt.trial.cause])
            /\ receipt.floor.left = 0
    /\ receipt.trial.auto /\ receipt'.trial.state = "none" => calm >= Stability

Sustained == IInv' /\ Lawful

\* Most begin no trial and forget none.
LEMMA LawfulStep ==
    ASSUME Sound(receipt), receipt'.trial.state \in {"none", "consumed"} => receipt'.trial.state = receipt.trial.state
    PROVE  Lawful
BY DEF Lawful, Sound

\* The steps that at most weaken the receipt preserve the invariant.
Weak ==
    /\ Weakens(receipt, receipt')
    /\ UNCHANGED <<spent, quiet>>
    /\ stable' \in {stable, Off}
    /\ hold' = Nil => hold = Nil
    /\ \/ calm' = calm
       \/ Reason(receipt', hold') # Nil
       \/ stable' = Off /\ (step' # "reset" \/ receipt'.trial.state # "succeeded")
    /\ step' = "reset" => step = "reset" /\ life' = life
    /\ life' # "down" => life # "down"
    /\ life' \in {"starting", "connecting", "trying"} => life' = life
    /\ Connecting' => step' = step
    /\ fault' = "integrity" =>
         \/ fault = "integrity" /\ (step' \in {"arm", "rearm"} => step \in {"arm", "rearm"})
         \/ life' = "held" /\ step' \notin {"arm", "rearm"}
    /\ \A i \in Requests :
         \/ receipt'.intent[i] \notin {"prepared", "orphan", "unknown", "policy"}
         \/ receipt'.intent[i] = receipt.intent[i]
         \/ receipt'.intent[i] = "unknown" /\ hold' # Nil
         \/ receipt'.intent[i] = "prepared" /\ Open
    /\ claimed' \subseteq claimed \/ (Open /\ life' # "starting")
    /\ settling' \subseteq settling \/ hold' # Nil

LEMMA WeakStep == IInv /\ TypeOK' /\ Weak => Sustained
<1>. SUFFICES ASSUME IInv, TypeOK', Weak PROVE Sustained
  OBVIOUS
<1>. USE DEF IInv
<1>1. Open => hold = Nil /\ receipt.protection = Nil /\ receipt.trial.state # "waiting"
  BY DEF Open, Failing, Reason, Episode, Sound
<1>2. Reason(receipt', hold') = Nil => Reason(receipt, hold) = Nil
  BY DEF Weak, Weakens, Reason
<1>3. Episode'
  BY DEF Weak, Weakens, Episode
<1>4. Loading'
  BY DEF Weak, Loading
<1>5. Held'
  BY DEF Weak, Held
<1>6. MutationNeverExcused'
  BY DEF Weak, MutationNeverExcused
<1>7. WaitIsQuiet'
  BY <1>1 DEF Weak, Weakens, WaitIsQuiet, Episode, Sound
<1>8. Covered(receipt, quiet)'
  <2>1. quiet \in Nat /\ quiet' = quiet
    BY DEF TypeOK, Weak
  <2>2. Covered(receipt', quiet)
    BY <2>1 DEF Weak, Weakens
  <2> QED BY <2>1, <2>2 DEF Covered
<1>9. Steady'
  BY <1>2 DEF Weak, Weakens, Steady
<1>10. Attributable'
  BY DEF Weak, Attributable, Connecting
<1>11. Lawful
  BY LawfulStep DEF Weak, Weakens, Episode
<1> QED BY <1>3, <1>4, <1>5, <1>6, <1>7, <1>8, <1>9, <1>10, <1>11 DEF Sustained

-----------------------------------------------------------------------------
(* The steps of a run *)

LEMMA ArmStep == IInv /\ Arm => Sustained
<1>. SUFFICES ASSUME IInv, Arm PROVE Sustained
  OBVIOUS
<1>. USE DEF IInv
<1>1. receipt \in Receipts /\ Sound(receipt) /\ TypeOK
  BY DEF Episode, TypeOK
<1>2. ArmEvent \in Failures /\ MonitorCause \in Causes \cup {Nil}
  <2>1. fault \in Causes \cup {Nil}
    BY DEF Arm, Attributable, TypeOK, Causes
  <2> QED BY <2>1 DEF ArmEvent, Failures, MonitorCause, Causes
<1>3. receipt' = receipt \/ receipt' = Transition(receipt, ArmEvent, MonitorCause, FALSE, FALSE)
  BY DEF Arm, Maintained
<1>4. Fails(receipt, receipt')
  BY <1>1, <1>2, <1>3, TransitionFails, FailsNothing
<1>5. TypeOK'
  BY <1>1, <1>4 DEF Arm, TypeOK, Fails, Weakens, volatile, bounds, history
<1>6. Weak
  BY <1>4 DEF Arm, Weak, Fails, Attributable, Connecting, volatile, bounds, history
<1> QED BY <1>5, <1>6, WeakStep

LEMMA ConnectFailsStep == IInv /\ ConnectFails => Sustained
<1>. SUFFICES ASSUME IInv, ConnectFails PROVE Sustained
  OBVIOUS
<1>. USE DEF IInv
<1>1. receipt \in Receipts /\ Sound(receipt) /\ TypeOK
  BY DEF Episode, TypeOK
<1>2. fault \in Causes \cup {Nil} /\ step = "idle"
  BY DEF ConnectFails, Connecting, Attributable, TypeOK, Causes
<1>3. PICK kind \in {"transient", "integrity", "refused"} :
        \/ UNCHANGED <<receipt, fault>>
        \/ /\ fault' = IF kind = "refused" THEN fault ELSE kind
           /\ receipt' = IF kind = "integrity" THEN Escaped(receipt) ELSE FailedTrial(receipt, fault')
  BY DEF ConnectFails
<1>4. /\ Fails(receipt, receipt')
      /\ fault' \in {Nil, "transient", "read", "integrity"}
  <2>1. CASE UNCHANGED <<receipt, fault>>
    BY <1>1, <2>1, FailsNothing DEF TypeOK
  <2>2. CASE /\ fault' = IF kind = "refused" THEN fault ELSE kind
             /\ receipt' = IF kind = "integrity" THEN Escaped(receipt) ELSE FailedTrial(receipt, fault')
    <3>1. kind # "integrity" => fault' \in Causes \cup {Nil}
      BY <1>2, <2>2 DEF Causes
    <3>2. Fails(receipt, receipt')
      BY <1>1, <2>2, <3>1, EscapedFails, FailedTrialFails
    <3> QED BY <1>1, <2>2, <3>2 DEF TypeOK
  <2> QED BY <1>3, <2>1, <2>2
<1>5. TypeOK'
  <2>1. Off \in Off..Stability /\ 0 \in 0..Stability
    BY RecoveryAssumption DEF Off
  <2> QED BY <1>1, <1>4, <2>1 DEF ConnectFails, TypeOK, Fails, Weakens, Restamped
<1>6. Weak
  BY <1>2, <1>4 DEF ConnectFails, Connecting, Weak, Fails, Restamped
<1> QED BY <1>5, <1>6, WeakStep

LEMMA IdentityRefusedStep == IInv /\ IdentityRefused => Sustained
<1>. SUFFICES ASSUME IInv, IdentityRefused PROVE Sustained
  OBVIOUS
<1>. USE DEF IInv
<1>1. receipt \in Receipts /\ Sound(receipt) /\ TypeOK
  BY DEF Episode, TypeOK
<1>2. fault \in Causes \cup {Nil} /\ step = "idle"
  BY DEF IdentityRefused, Connecting, Attributable, TypeOK, Causes
<1>3. receipt' = FailedTrial(receipt, fault) \/ receipt' = Escaped(receipt)
  BY DEF IdentityRefused
<1>4. Fails(receipt, receipt')
  BY <1>1, <1>2, <1>3, EscapedFails, FailedTrialFails
<1>5. TypeOK'
  BY <1>1, <1>4 DEF IdentityRefused, TypeOK, Fails, Weakens, volatile, bounds, history
<1>6. Weak
  BY <1>2, <1>4 DEF IdentityRefused, Connecting, Weak, Fails, volatile, bounds, history
<1> QED BY <1>5, <1>6, WeakStep

\* The steps that leave the receipt alone
LEMMA IdleSteps ==
    IInv /\ (Crash \/ TransportTerminated \/ MonitorFailure \/ MonitorDue \/ GrantRefused \/ Progress)
      => Sustained
<1>. SUFFICES ASSUME IInv, Crash \/ TransportTerminated \/ MonitorFailure \/ MonitorDue
                           \/ GrantRefused \/ Progress
              PROVE  Sustained
  OBVIOUS
<1>. USE DEF IInv
<1>1. receipt \in Receipts /\ Sound(receipt) /\ TypeOK /\ Off \in Off..Stability
  BY RecoveryAssumption DEF Episode, TypeOK, Off
<1>2. Fails(receipt, receipt)
  BY <1>1, FailsNothing
<1>3. CASE Crash
  BY <1>1, <1>2, <1>3, WeakStep
     DEF Crash, TypeOK, Weak, Fails, Connecting, volatile, bounds, history
<1>4. CASE TransportTerminated
  <2>1. TypeOK'
    BY <1>1, <1>4 DEF TransportTerminated, TypeOK, Restamped, history
  <2>2. Weak
    BY <1>2, <1>4 DEF TransportTerminated, Weak, Fails, Connecting, Restamped, history
  <2> QED BY <2>1, <2>2, WeakStep
<1>5. CASE MonitorFailure
  <2>1. TypeOK'
    BY <1>1, <1>5 DEF MonitorFailure, TypeOK, Restamped, bounds, history
  <2>2. Weak
    BY <1>2, <1>5 DEF MonitorFailure, Weak, Fails, Connecting, Restamped, bounds, history
  <2> QED BY <2>1, <2>2, WeakStep
<1>6. CASE MonitorDue
  <2>1. TypeOK'
    BY <1>1, <1>6 DEF MonitorDue, TypeOK, volatile, bounds, history
  <2>2. Weak
    BY <1>2, <1>6 DEF MonitorDue, Weak, Fails, Connecting, Attributable, volatile, bounds, history
  <2> QED BY <2>1, <2>2, WeakStep
<1>7. CASE GrantRefused
  <2>1. TypeOK'
    BY <1>1, <1>7 DEF GrantRefused, TypeOK, volatile, bounds, history
  <2>2. Weak
    BY <1>2, <1>7 DEF GrantRefused, Weak, Fails, Connecting, volatile, bounds, history
  <2> QED BY <2>1, <2>2, WeakStep
<1>8. CASE Progress
  <2>1. TypeOK'
    BY <1>1, <1>8 DEF Progress, TypeOK, bounds, history
  <2>2. Weak
    BY <1>2, <1>8 DEF Progress, Weak, Fails, Connecting, bounds, history
  <2> QED BY <2>1, <2>2, WeakStep
<1> QED BY <1>3, <1>4, <1>5, <1>6, <1>7, <1>8

-----------------------------------------------------------------------------
(* The steps of an attempt *)

\* Its outcome becomes known, and the receipt fails or does not.
LEMMA OutcomeWeakens ==
    ASSUME receipt \in Receipts, Sound(receipt), NEW i \in Requests,
           NEW outcome \in {"none", "retry"}, NEW r, r = Recorded(receipt, i, outcome),
           NEW e, Fails(r, e)
    PROVE  /\ Weakens(receipt, e) /\ e.intent[i] = outcome
           /\ \A j \in Requests \ {i} : e.intent[j] = receipt.intent[j]
<1>1. outcome \in Intents
  BY DEF Intents
<1>2. /\ Weakens(receipt, r) /\ r.intent[i] = outcome
      /\ \A j \in Requests \ {i} : r.intent[j] = receipt.intent[j]
  BY <1>1, RecordedFacts
<1> QED BY <1>2, WeakensTwice DEF Fails

LEMMA PrepareStep == ASSUME NEW i \in Requests, IInv, Prepare(i) PROVE Sustained
<1>. USE DEF IInv
<1>1. receipt \in Receipts /\ Sound(receipt) /\ TypeOK /\ "prepared" \in Intents
  BY DEF Episode, TypeOK, Intents
<1>2. /\ Weakens(receipt, receipt') /\ receipt'.intent[i] = "prepared" /\ Open
      /\ \A j \in Requests \ {i} : receipt'.intent[j] = receipt.intent[j]
  BY <1>1, RecordedFacts DEF Prepare, MayWrite
<1>3. TypeOK'
  BY <1>1, <1>2 DEF Prepare, TypeOK, Weakens, volatile, bounds, history
<1>4. Weak
  BY <1>2 DEF Prepare, Connecting, Weak, volatile, bounds, history
<1> QED BY <1>3, <1>4, WeakStep

LEMMA ClaimStep == ASSUME NEW i \in Requests, IInv, Claim(i) PROVE Sustained
<1>. USE DEF IInv
<1>1. receipt \in Receipts /\ Sound(receipt) /\ TypeOK
  BY DEF Episode, TypeOK
<1>2. Weakens(receipt, receipt) /\ Open /\ life # "starting"
  BY <1>1, FailsNothing DEF Fails, Claim, MayClaim, MayWrite, Connecting
<1>3. TypeOK'
  BY <1>1 DEF Claim, TypeOK, bounds, history
<1>4. Weak
  BY <1>2 DEF Claim, Connecting, Weak, bounds, history
<1> QED BY <1>3, <1>4, WeakStep

LEMMA WithdrawStep == ASSUME NEW i \in Requests, IInv, Withdraw(i) PROVE Sustained
<1>. USE DEF IInv
<1>1. receipt \in Receipts /\ Sound(receipt) /\ TypeOK /\ "none" \in Intents
  BY DEF Episode, TypeOK, Intents
<1>2. /\ Weakens(receipt, receipt') /\ receipt'.intent[i] = "none"
      /\ \A j \in Requests \ {i} : receipt'.intent[j] = receipt.intent[j]
  BY <1>1, RecordedFacts DEF Withdraw
<1>3. TypeOK'
  BY <1>1, <1>2 DEF Withdraw, TypeOK, Weakens, volatile, bounds, history
<1>4. Weak
  BY <1>2 DEF Withdraw, Connecting, Weak, volatile, bounds, history
<1> QED BY <1>3, <1>4, WeakStep

LEMMA AnsweredStep ==
    ASSUME NEW i \in Requests, NEW transient \in BOOLEAN, IInv, Answered(i, transient) PROVE Sustained
<1>. USE DEF IInv
<1>. DEFINE r == Recorded(receipt, i, "none")
<1>1. receipt \in Receipts /\ Sound(receipt) /\ TypeOK /\ "none" \in Intents
  BY DEF Episode, TypeOK, Intents
<1>2. r \in Receipts /\ Sound(r)
  BY <1>1, RecordedFacts DEF Weakens
<1>3. receipt' = r \/ receipt' = Invalidated(r, "transient", FALSE)
  BY DEF Answered
<1>4. Fails(r, receipt')
  <2>. HIDE DEF r
  <2> QED BY <1>2, <1>3, FailsNothing, InvalidatedFails DEF Causes
<1>5. /\ Weakens(receipt, receipt') /\ receipt'.intent[i] = "none"
      /\ \A j \in Requests \ {i} : receipt'.intent[j] = receipt.intent[j]
  BY <1>1, <1>4, OutcomeWeakens
<1>6. TypeOK'
  <2>1. 0 \in 0..Stability
    BY RecoveryAssumption
  <2>2. receipt' \in Receipts
    BY <1>5 DEF Weakens
  <2>3. gain' \in {Nil, "acquired", "progress"} /\ faults' \in Nat /\ calm' \in 0..Stability
    BY <1>1, <2>1 DEF Answered, TypeOK
  <2>4. /\ claimed' \subseteq Requests /\ settling' \subseteq claimed'
        /\ UNCHANGED <<life, step, hold, fault, circuit, stable, boots, spent, quiet>>
    BY <1>1 DEF Answered, Pending, TypeOK
  <2> QED BY <1>1, <2>2, <2>3, <2>4 DEF TypeOK
<1>7. transient => stable' = Off /\ receipt'.trial.state # "succeeded"
  BY <1>5 DEF Answered, TrialActive, Weakens, Steady
<1>8. calm' = calm \/ transient
  BY DEF Answered
<1>9. Weak
  BY <1>5, <1>7, <1>8 DEF Answered, Connecting, Weak
<1> QED BY <1>6, <1>9, WeakStep

LEMMA FloodStep ==
    ASSUME NEW i \in Requests, NEW open \in BOOLEAN, IInv, Flood(i, open) PROVE Sustained
<1>. USE DEF IInv
<1>. DEFINE r == Recorded(receipt, i, "none")
<1>1. receipt \in Receipts /\ Sound(receipt) /\ TypeOK /\ "none" \in Intents
  BY DEF Episode, TypeOK, Intents
<1>2. r \in Receipts /\ Sound(r)
  BY <1>1, RecordedFacts DEF Weakens
<1>3. receipt' = Flooded(r, open)
  BY DEF Flood
<1>4. Fails(r, receipt') /\ (open => receipt'.protection # Nil)
  <2>. HIDE DEF r
  <2> QED BY <1>2, <1>3, FloodedFails
<1>5. /\ Weakens(receipt, receipt') /\ receipt'.intent[i] = "none"
      /\ \A j \in Requests \ {i} : receipt'.intent[j] = receipt.intent[j]
  BY <1>1, <1>4, OutcomeWeakens
<1>6. TypeOK'
  <2>1. 0 \in 0..Stability
    BY RecoveryAssumption
  <2>2. receipt' \in Receipts
    BY <1>5 DEF Weakens
  <2> QED BY <1>1, <2>1, <2>2 DEF Flood, Pending, TypeOK
<1>7. calm' = calm \/ Reason(receipt', hold') # Nil
  BY <1>4 DEF Flood, Reason
<1>8. Weak
  BY <1>5, <1>7 DEF Flood, Connecting, Weak
<1> QED BY <1>6, <1>8, WeakStep

LEMMA FloorRecordedStep ==
    ASSUME NEW open \in BOOLEAN, IInv, FloorRecorded(open) PROVE Sustained
<1>. USE DEF IInv
<1>1. receipt \in Receipts /\ Sound(receipt) /\ TypeOK
  BY DEF Episode, TypeOK
<1>2. Fails(receipt, receipt') /\ (open => receipt'.protection # Nil)
  BY <1>1, FloodedFails DEF FloorRecorded
<1>3. TypeOK'
  <2>1. 0 \in 0..Stability
    BY RecoveryAssumption
  <2> QED BY <1>1, <1>2, <2>1 DEF FloorRecorded, TypeOK, Fails, Weakens
<1>4. calm' = calm \/ Reason(receipt', hold') # Nil
  BY <1>2 DEF FloorRecorded, Reason
<1>5. Weak
  BY <1>2, <1>4 DEF FloorRecorded, Connecting, Weak, Fails
<1> QED BY <1>3, <1>5, WeakStep

LEMMA LoseOutcomeStep == ASSUME NEW i \in Requests, IInv, LoseOutcome(i) PROVE Sustained
<1>. USE DEF IInv
<1>1. receipt \in Receipts /\ Sound(receipt) /\ TypeOK
  BY DEF Episode, TypeOK
<1>2. Weakens(receipt, receipt)
  BY <1>1, FailsNothing DEF Fails
<1>3. "unresolved" \in Protections /\ "unresolved" # Nil
  BY DEF Protections, Recoverable, Nil
<1>4. TypeOK'
  BY <1>1, <1>3 DEF LoseOutcome, Pending, TypeOK, history
<1>5. Weak
  BY <1>2, <1>3 DEF LoseOutcome, Connecting, Weak, history
<1> QED BY <1>4, <1>5, WeakStep

LEMMA SettleUnknownStep == ASSUME NEW i \in Requests, IInv, SettleUnknown(i) PROVE Sustained
<1>. USE DEF IInv
<1>. DEFINE r == MarkUnknown(receipt, i)
<1>1. receipt \in Receipts /\ Sound(receipt) /\ TypeOK
  BY DEF Episode, TypeOK
<1>2. /\ Weakens(receipt, r) /\ r.intent[i] = "unknown"
      /\ \A j \in Requests \ {i} : r.intent[j] = receipt.intent[j]
  BY <1>1, UnknownFacts
<1>3. PICK e \in {"transient", "read"} :
        /\ receipt' = Invalidated(r, IF e = "transient" /\ TrialActive THEN e ELSE "read", FALSE)
        /\ fault' = IF fault = "integrity" THEN fault ELSE e
  BY DEF SettleUnknown
<1>4. Fails(r, receipt')
  <2>. DEFINE c == IF e = "transient" /\ TrialActive THEN e ELSE "read"
  <2>1. c \in Causes \cup {Nil}
    BY DEF Causes
  <2>2. r \in Receipts /\ Sound(r)
    BY <1>2 DEF Weakens
  <2>. HIDE DEF r, c
  <2> QED BY <1>3, <2>1, <2>2, InvalidatedFails DEF c
<1>5. /\ Weakens(receipt, receipt') /\ receipt'.intent[i] = "unknown"
      /\ \A j \in Requests \ {i} : receipt'.intent[j] = receipt.intent[j]
  BY <1>2, <1>4, WeakensTwice DEF Fails
<1>6. hold' # Nil /\ hold' = hold
  BY DEF SettleUnknown, Held
<1>7. fault' \in {Nil, "transient", "read", "integrity"} /\ (fault' = "integrity" => fault = "integrity")
  BY <1>3
<1>8. TypeOK'
  <2>1. 0 \in 0..Stability
    BY RecoveryAssumption
  <2>2. receipt' \in Receipts
    BY <1>5 DEF Weakens
  <2> QED BY <1>1, <1>7, <2>1, <2>2 DEF SettleUnknown, TypeOK, bounds
<1>9. Reason(receipt', hold') # Nil
  BY <1>6 DEF Reason
<1>10. Weak
  BY <1>5, <1>6, <1>7, <1>9 DEF SettleUnknown, Connecting, Weak, bounds
<1> QED BY <1>8, <1>10, WeakStep

LEMMA ReadContainedStep == ASSUME NEW i \in Requests, IInv, ReadContained(i) PROVE Sustained
<1>. USE DEF IInv
<1>1. receipt \in Receipts /\ Sound(receipt) /\ TypeOK /\ "retry" \in Intents
  BY DEF Episode, TypeOK, Intents
<1>2. /\ Weakens(receipt, receipt') /\ receipt'.intent[i] = "retry"
      /\ \A j \in Requests \ {i} : receipt'.intent[j] = receipt.intent[j]
  BY <1>1, RecordedFacts DEF ReadContained
<1>3. TypeOK'
  BY <1>1, <1>2 DEF ReadContained, Pending, TypeOK, Weakens, bounds, history
<1>4. Weak
  BY <1>2 DEF ReadContained, Connecting, Weak, bounds, history
<1> QED BY <1>3, <1>4, WeakStep

LEMMA WireStep == ASSUME NEW i \in Requests, IInv, Wire(i) PROVE Sustained
BY PrepareStep, ClaimStep, WithdrawStep, AnsweredStep, FloodStep, LoseOutcomeStep,
   SettleUnknownStep, ReadContainedStep DEF Wire

-----------------------------------------------------------------------------
(* The steps that do more *)

LEMMA BootStep == ASSUME NEW reboot \in BOOLEAN, IInv, Boot(reboot) PROVE Sustained
<1>. USE DEF IInv
<1>1. receipt \in Receipts /\ Sound(receipt) /\ TypeOK /\ Nil \notin {"trial_incomplete", "unresolved"}
  BY DEF Episode, TypeOK, Nil
<1>2. /\ Weakens(receipt, receipt') /\ receipt'.protection = receipt.protection
      /\ \A i \in Requests : /\ receipt'.intent[i] # "prepared"
                             /\ receipt'.intent[i] = "policy" => receipt.intent[i] = "policy"
  BY <1>1, ReloadedFacts DEF Boot
<1>3. hold' = StartupHold(receipt')
  BY DEF Boot
<1>4. hold' \in Protections /\ (hold' = Nil => Blocked(receipt') = {})
  BY <1>1, <1>3 DEF StartupHold, Protections, Recoverable
<1>5. /\ life' = "starting" /\ claimed' = {} /\ settling' = {} /\ fault' = Nil /\ circuit' = FALSE
      /\ stable' = Off /\ gain' = Nil /\ calm' = 0 /\ boots' = boots + 1
      /\ UNCHANGED <<faults, spent, quiet>> /\ step' \in {"rearm", "consume"}
  BY DEF Boot, Restamped
<1>6. TypeOK'
  <2>1. Off \in Off..Stability /\ 0 \in 0..Stability
    BY RecoveryAssumption DEF Off
  <2>2. receipt' \in Receipts /\ boots' \in Nat
    BY <1>1, <1>2, <1>5 DEF TypeOK, Weakens
  <2>3. step' \in {"idle", "arm", "rearm", "quiesce", "consume", "grant", "due", "reset"}
    BY <1>5
  <2> QED BY <1>1, <1>4, <1>5, <2>1, <2>2, <2>3 DEF TypeOK
<1>7. Episode'
  BY <1>2, <1>5 DEF Episode, Weakens
<1>8. Loading' /\ Steady' /\ Attributable'
  BY <1>5 DEF Loading, Steady, Attributable, Connecting, Nil
<1>9. Held'
  BY <1>4, <1>5 DEF Held, Blocked, Blocking
<1>10. MutationNeverExcused'
  BY <1>2 DEF MutationNeverExcused
<1>11. WaitIsQuiet'
  BY <1>2, <1>5 DEF WaitIsQuiet
<1>12. Covered(receipt, quiet)'
  <2>1. quiet \in Nat /\ quiet' = quiet
    BY <1>1, <1>5 DEF TypeOK
  <2>2. Covered(receipt', quiet)
    BY <1>2, <2>1 DEF Weakens
  <2> QED BY <2>1, <2>2 DEF Covered
<1>13. Lawful
  BY <1>1, <1>2, LawfulStep DEF Weakens
<1> QED BY <1>6, <1>7, <1>8, <1>9, <1>10, <1>11, <1>12, <1>13 DEF Sustained

\* The wait is set, or nothing happens.
LEMMA QuiesceFacts ==
    IInv /\ Quiesce => receipt' = receipt \/ StartsWaiting(receipt, receipt')
<1>. SUFFICES ASSUME IInv, Quiesce PROVE receipt' = receipt \/ StartsWaiting(receipt, receipt')
  OBVIOUS
<1>1. receipt \in Receipts /\ Sound(receipt)
  BY DEF IInv, Episode, TypeOK
<1>2. "quiesced" \in Events /\ "quiesced" \notin Failures /\ Nil \in Causes \cup {Nil}
  BY DEF Events, Failures
<1>3. receipt' = Transition(receipt, "quiesced", Nil, TRUE, FALSE)
  BY DEF Quiesce
<1>4. Becomes(receipt, "quiesced", receipt')
  BY <1>1, <1>2, <1>3, TransitionFacts
<1> QED BY <1>2, <1>4 DEF Becomes

LEMMA QuiesceStep == IInv /\ Quiesce => Sustained
<1>. SUFFICES ASSUME IInv, Quiesce PROVE Sustained
  OBVIOUS
<1>. USE DEF IInv
<1>1. receipt \in Receipts /\ Sound(receipt) /\ TypeOK
  BY DEF Episode, TypeOK
<1>2. /\ UNCHANGED <<life, volatile, bounds, spent, calm>>
      /\ step' \in {"consume", "due"} /\ life # "down" /\ step = "quiesce"
      /\ quiet' = IF receipt' # receipt THEN 0 ELSE quiet
  BY DEF Quiesce
<1>3. CASE receipt' = receipt
  <2>1. Weakens(receipt, receipt')
    BY <1>1, <1>3, FailsNothing DEF Fails
  <2>2. TypeOK'
    BY <1>1, <1>2, <1>3 DEF TypeOK, volatile, bounds
  <2>3. Weak
    BY <1>2, <1>3, <2>1 DEF Weak, Attributable, Connecting, volatile, bounds
  <2> QED BY <2>2, <2>3, WeakStep
<1>4. CASE receipt' # receipt
  <2>1. StartsWaiting(receipt, receipt') /\ quiet' = 0
    BY <1>2, <1>4, QuiesceFacts
  <2>2. TypeOK'
    BY <1>1, <1>2, <2>1 DEF TypeOK, StartsWaiting, volatile, bounds
  <2>3. Episode' /\ Loading'
    BY <1>2, <2>1 DEF Episode, Loading, StartsWaiting, volatile
  <2>4. Held' /\ MutationNeverExcused'
    BY <1>2, <2>1 DEF Held, MutationNeverExcused, StartsWaiting, volatile
  <2>5. WaitIsQuiet'
    BY <1>2, <2>1 DEF WaitIsQuiet, StartsWaiting, Owners, volatile
  <2>6. Covered(receipt, quiet)'
    BY <2>1 DEF StartsWaiting, Covered
  <2>7. Steady' /\ Attributable'
    BY <1>2, <2>1 DEF Steady, Attributable, Connecting, StartsWaiting, Reason, volatile
  <2>8. Lawful
    BY <1>1, <2>1, LawfulStep DEF StartsWaiting
  <2> QED BY <2>2, <2>3, <2>4, <2>5, <2>6, <2>7, <2>8 DEF Sustained
<1> QED BY <1>3, <1>4

\* The trial is spent, or nothing happens.
LEMMA StartupConsumeFacts ==
    IInv /\ StartupConsume => receipt' = receipt \/ Spent(receipt, receipt')
<1>. SUFFICES ASSUME IInv, StartupConsume PROVE receipt' = receipt \/ Spent(receipt, receipt')
  OBVIOUS
<1>1. receipt \in Receipts /\ Sound(receipt)
  BY DEF IInv, Episode, TypeOK
<1>2. "due" \in Events /\ "due" \notin Failures /\ Nil \in Causes \cup {Nil}
  BY DEF Events, Failures
<1>3. receipt' = Transition(receipt, "due", Nil, FALSE, FALSE)
  BY DEF StartupConsume
<1>4. Becomes(receipt, "due", receipt')
  BY <1>1, <1>2, <1>3, TransitionFacts
<1> QED BY <1>2, <1>4 DEF Becomes

LEMMA StartupConsumeStep == IInv /\ StartupConsume => Sustained
<1>. SUFFICES ASSUME IInv, StartupConsume PROVE Sustained
  OBVIOUS
<1>. USE DEF IInv
<1>1. receipt \in Receipts /\ Sound(receipt) /\ TypeOK
  BY DEF Episode, TypeOK
<1>2. /\ UNCHANGED <<life, claimed, settling, fault, circuit, stable, gain, bounds, quiet, calm>>
      /\ life = "starting" /\ step' = "grant" /\ claimed = {} /\ stable = Off
      /\ hold' = IF receipt' # receipt THEN Nil ELSE hold
  BY DEF StartupConsume, Loading
<1>3. CASE receipt' = receipt
  <2>1. Weakens(receipt, receipt') /\ spent' = spent /\ hold' = hold
    BY <1>1, <1>3, FailsNothing DEF Fails, StartupConsume
  <2>2. TypeOK'
    BY <1>1, <1>2, <1>3, <2>1 DEF TypeOK, bounds
  <2>3. Weak
    BY <1>2, <1>3, <2>1 DEF Weak, Connecting, bounds
  <2> QED BY <2>2, <2>3, WeakStep
<1>4. CASE receipt' # receipt
  <2>1. Spent(receipt, receipt') /\ hold' = Nil /\ Nil \in Protections
    BY <1>2, <1>4, StartupConsumeFacts DEF Protections, Recoverable
  <2>2. spent' = IF receipt'.trial.cause = "flood" THEN spent + 1 ELSE spent
    BY <1>4, <2>1 DEF StartupConsume, Spends, Spent
  <2>3. spent \in Nat /\ receipt.trial.floods \in Nat /\ spent <= receipt.trial.floods
    BY RecoveryAssumption DEF TypeOK, Episode, Receipts, Trials
  <2>4. TypeOK'
    BY <1>1, <1>2, <2>1, <2>2, <2>3 DEF TypeOK, Spent, bounds
  <2>5. Episode'
    BY <2>1, <2>2, <2>3 DEF Episode, Spent
  <2>6. Loading' /\ settling' = {}
    BY <1>1, <1>2 DEF Loading, TypeOK
  <2>7. Held'
    BY <2>1, <2>6 DEF Held, Spent, Blocked, Blocking
  <2>8. MutationNeverExcused'
    BY <2>1 DEF MutationNeverExcused, Spent
  <2>9. WaitIsQuiet' /\ Covered(receipt, quiet)'
    BY <2>1 DEF WaitIsQuiet, Covered, Spent
  <2>10. Steady' /\ Attributable'
    BY <1>2 DEF Steady, Attributable, Connecting
  <2>11. Lawful
    <3>. DEFINE k == Backoff(receipt.trial.cause, receipt.trial.stage[receipt.trial.cause])
    <3>1. receipt.trial.cause \in Causes /\ receipt.trial.stage[receipt.trial.cause] \in 0..MaxStage
      BY <1>1 DEF Receipts, Trials
    <3>2. k \in Int /\ quiet \in Nat
      BY <1>1, <3>1, BackoffType DEF TypeOK
    <3>3. receipt.due.left = 0 /\ receipt.floor.left = 0 /\ quiet + receipt.due.left >= k
      BY <2>1 DEF Spent, Due, Covered
    <3>4. quiet >= k
      BY <3>2, <3>3
    <3> QED BY <2>1, <3>3, <3>4 DEF Lawful, Spent
  <2> QED BY <2>4, <2>5, <2>6, <2>7, <2>8, <2>9, <2>10, <2>11 DEF Sustained
<1> QED BY <1>3, <1>4

LEMMA StartupGrantStep == IInv /\ StartupGrant => Sustained
<1>. SUFFICES ASSUME IInv, StartupGrant PROVE Sustained
  OBVIOUS
<1>. USE DEF IInv
<1>1. receipt \in Receipts /\ Sound(receipt) /\ TypeOK /\ Nil \in Protections
  BY DEF Episode, TypeOK, Protections, Recoverable
<1>2. /\ UNCHANGED <<claimed, settling, fault, circuit, stable, gain, bounds, history>>
      /\ life = "starting" /\ step' = "idle" /\ claimed = {} /\ stable = Off
      /\ life' \in {"held", "trying", "connecting"} /\ fault # "integrity"
  BY DEF StartupGrant, Loading, Attributable
<1>3. settling' = {}
  BY <1>2 DEF TypeOK
<1>4. CASE ~Granted
  <2>1. receipt' = receipt /\ hold' = hold
    BY <1>4 DEF StartupGrant
  <2>2. TypeOK'
    BY <1>1, <1>2, <2>1 DEF TypeOK, bounds, history
  <2>3. Episode' /\ Loading' /\ Held' /\ MutationNeverExcused' /\ WaitIsQuiet'
    BY <1>2, <1>3, <2>1
       DEF Episode, Loading, Held, MutationNeverExcused, WaitIsQuiet, history
  <2>4. Covered(receipt, quiet)' /\ Steady' /\ Attributable'
    BY <1>2, <2>1 DEF Covered, Steady, Attributable, Connecting, history
  <2>5. Lawful
    BY <1>1, <2>1, LawfulStep
  <2> QED BY <2>2, <2>3, <2>4, <2>5 DEF Sustained
<1>5. CASE Granted
  <2>1. /\ receipt' \in Receipts /\ Sound(receipt') /\ Blocked(receipt') = {} /\ ~receipt'.trial.auto
        /\ receipt'.trial.state = "consumed" /\ receipt'.trial.floods = receipt.trial.floods
        /\ \A i \in Requests : receipt'.intent[i] = "policy" => receipt.intent[i] = "policy"
    BY <1>1, <1>5, GrantFacts DEF StartupGrant, Granted
  <2>2. hold' = Nil
    BY <1>5 DEF StartupGrant
  <2>3. TypeOK'
    BY <1>1, <1>2, <2>1, <2>2 DEF TypeOK, bounds, history
  <2>4. Episode' /\ Loading'
    BY <1>2, <2>1 DEF Episode, Loading, history
  <2>5. Held' /\ MutationNeverExcused'
    BY <1>3, <2>1 DEF Held, MutationNeverExcused, Blocked, Blocking
  <2>6. WaitIsQuiet' /\ Covered(receipt, quiet)'
    BY <2>1 DEF WaitIsQuiet, Covered
  <2>7. Steady' /\ Attributable'
    BY <1>2 DEF Steady, Attributable, Connecting
  <2>8. Lawful
    BY <2>1 DEF Lawful
  <2> QED BY <2>3, <2>4, <2>5, <2>6, <2>7, <2>8 DEF Sustained
<1> QED BY <1>4, <1>5

LEMMA VerifyStep == IInv /\ Verify => Sustained
<1>. SUFFICES ASSUME IInv, Verify PROVE Sustained
  OBVIOUS
<1>. USE DEF IInv
<1>1. receipt \in Receipts /\ Sound(receipt) /\ TypeOK
  BY DEF Episode, TypeOK
<1>2. /\ UNCHANGED <<step, volatile, bounds, history>> /\ life' = "verified" /\ step = "idle"
      /\ life # "down"
  BY DEF Verify, Attributable, Connecting
<1>3. CASE receipt' = receipt
  <2>1. Weakens(receipt, receipt')
    BY <1>1, <1>3, FailsNothing DEF Fails
  <2>2. TypeOK'
    BY <1>1, <1>2, <1>3 DEF TypeOK, volatile, bounds, history
  <2>3. Weak
    BY <1>2, <1>3, <2>1 DEF Weak, Connecting, volatile, bounds, history
  <2> QED BY <2>2, <2>3, WeakStep
<1>4. CASE receipt' # receipt
  <2>1. receipt.trial.state = "consumed" /\ receipt' = ApplySuccess(receipt)
    BY <1>4 DEF Verify
  <2>2. Succeeds(receipt, receipt')
    BY <1>1, <2>1, SuccessFacts
  <2>3. TypeOK'
    BY <1>1, <1>2, <2>2 DEF TypeOK, Succeeds, volatile, bounds, history
  <2>4. Episode' /\ Loading'
    BY <1>1, <1>2, <2>2 DEF Episode, Loading, Succeeds, history
  <2>5. Held' /\ MutationNeverExcused'
    BY <1>2, <2>2 DEF Held, MutationNeverExcused, Succeeds, volatile
  <2>6. WaitIsQuiet' /\ Covered(receipt, quiet)'
    BY <2>2 DEF WaitIsQuiet, Covered, Succeeds
  <2>7. stable' = Off /\ step' = "idle"
    BY <1>2, <2>1 DEF Steady, volatile
  <2>8. Steady' /\ Attributable'
    BY <1>2, <2>7 DEF Steady, Attributable, Connecting
  <2>9. Lawful
    BY <1>1, <2>2, LawfulStep DEF Succeeds
  <2> QED BY <2>3, <2>4, <2>5, <2>6, <2>8, <2>9 DEF Sustained
<1> QED BY <1>3, <1>4

LEMMA FinishStartupStep == IInv /\ FinishStartup => Sustained
<1>. SUFFICES ASSUME IInv, FinishStartup PROVE Sustained
  OBVIOUS
<1>. USE DEF IInv
<1>. DEFINE t == receipt.trial
            trial == t.auto /\ t.state = "consumed"
            d == Decide(receipt, "success", Nil, FALSE)
            clean == Clean /\ t.run = "current" /\ d.command = "succeed"
<1>1. receipt \in Receipts /\ Sound(receipt) /\ TypeOK
  BY DEF Episode, TypeOK
<1>2. /\ life = "verified" /\ step = "idle" /\ calm' = IF trial THEN 0 ELSE calm
      /\ UNCHANGED <<step, hold, claimed, settling, fault, circuit, bounds, spent, quiet>>
  BY DEF FinishStartup
<1>3. Stability \in Nat /\ 0 \in 0..Stability /\ Stability \in Off..Stability
  BY RecoveryAssumption DEF Off
<1>4. trial => stable = Off
  BY DEF Steady
<1>5. CASE trial /\ ~clean
  <2>1. receipt' = Escaped(receipt) /\ life' = "down" /\ UNCHANGED <<stable, gain>>
    BY <1>5 DEF FinishStartup
  <2>2. Fails(receipt, receipt')
    BY <1>1, <2>1, EscapedFails
  <2>3. TypeOK'
    BY <1>1, <1>2, <1>3, <2>1, <2>2 DEF TypeOK, Fails, Weakens, bounds
  <2>4. Weak
    BY <1>2, <1>4, <1>5, <2>1, <2>2 DEF Weak, Fails, Connecting, bounds
  <2> QED BY <2>3, <2>4, WeakStep
<1>6. CASE trial /\ clean
  <2>1. /\ receipt' = Transition(receipt, "success", Nil, FALSE, FALSE) /\ life' = "running"
        /\ stable' = Stability /\ gain' \in {gain, Nil}
    BY <1>6 DEF FinishStartup
  <2>2. Succeeds(receipt, receipt')
    <3>1. "success" \in Events /\ "success" \notin Failures /\ Nil \in Causes \cup {Nil}
      BY DEF Events, Failures
    <3>2. Decided(receipt, "success", Nil, d)
      BY <1>1, <3>1, DecideFacts
    <3>3. receipt' = Apply(receipt, d, "success", Nil, FALSE)
      BY <2>1 DEF Transition
    <3>4. d.command = "succeed"
      BY <1>6
    <3>. HIDE DEF d
    <3>5. Obeys(receipt, "success", d, receipt')
      BY <1>1, <3>1, <3>2, <3>3, ApplyFacts
    <3> QED BY <3>1, <3>4, <3>5 DEF Obeys
  <2>3. TypeOK'
    BY <1>1, <1>2, <1>3, <1>6, <2>1, <2>2 DEF TypeOK, Succeeds, bounds
  <2>4. Episode' /\ Loading'
    BY <1>1, <1>2, <2>1, <2>2 DEF Episode, Loading, Succeeds
  <2>5. Held' /\ MutationNeverExcused'
    BY <1>2, <2>2 DEF Held, MutationNeverExcused, Succeeds
  <2>6. WaitIsQuiet' /\ Covered(receipt, quiet)'
    BY <2>2 DEF WaitIsQuiet, Covered, Succeeds
  <2>7. Steady' /\ Attributable'
    <3>1. calm' = 0 /\ 0 + Stability >= Stability /\ step' = "idle" /\ life' = "running"
      BY <1>2, <1>3, <1>6, <2>1
    <3>2. receipt'.trial.state = "succeeded"
      BY <2>2 DEF Succeeds
    <3> QED BY <2>1, <3>1, <3>2 DEF Steady, Attributable, Connecting
  <2>8. Lawful
    BY <1>1, <2>2, LawfulStep DEF Succeeds
  <2> QED BY <2>3, <2>4, <2>5, <2>6, <2>7, <2>8 DEF Sustained
<1>7. CASE ~trial
  <2>1. /\ receipt' = receipt /\ life' = "running" /\ calm' = calm
        /\ stable' = IF t.auto /\ t.state \in {"consumed", "succeeded"} THEN Stability ELSE stable
        /\ gain' \in {gain, Nil}
    BY <1>2, <1>7 DEF FinishStartup
  <2>2. stable' = stable \/ (stable' = Stability /\ t.state = "succeeded")
    BY <1>7, <2>1
  <2>3. TypeOK'
    BY <1>1, <1>2, <1>3, <2>1, <2>2 DEF TypeOK, bounds
  <2>4. Episode' /\ Loading' /\ Held' /\ MutationNeverExcused' /\ WaitIsQuiet'
    BY <1>2, <2>1 DEF Episode, Loading, Held, MutationNeverExcused, WaitIsQuiet
  <2>5. Covered(receipt, quiet)' /\ Attributable'
    BY <1>2, <2>1 DEF Covered, Attributable, Connecting
  <2>6. calm \in Nat
    BY <1>1, <1>3 DEF TypeOK
  <2>7. Steady'
    BY <1>2, <1>3, <2>1, <2>2, <2>6 DEF Steady
  <2>8. Lawful
    BY <1>1, <2>1, LawfulStep
  <2> QED BY <2>3, <2>4, <2>5, <2>7, <2>8 DEF Sustained
<1> QED BY <1>5, <1>6, <1>7

LEMMA MonitorStabilityStep == IInv /\ MonitorStability => Sustained
<1>. SUFFICES ASSUME IInv, MonitorStability PROVE Sustained
  OBVIOUS
<1>. USE DEF IInv
<1>1. /\ TypeOK /\ Stability \in Nat /\ calm \in 0..Stability
      /\ Stability \in Off..Stability /\ Off \in Off..Stability
  BY RecoveryAssumption DEF TypeOK, Off
<1>2. /\ UNCHANGED <<receipt, life, hold, claimed, settling, fault, circuit, bounds, history>>
      /\ life = "running" /\ step = "idle" /\ receipt.trial.state = "succeeded"
      /\ Reason(receipt, hold) = Nil
  BY DEF MonitorStability, Failing
<1>3. \/ stable' = Stability /\ step' = step /\ gain' = gain
      \/ stable' = Off /\ gain' = Nil /\ step' = step
      \/ stable = 0 /\ step' = "reset" /\ stable' = stable /\ gain' = gain
  BY DEF MonitorStability, Restamped
<1>4. TypeOK'
  BY <1>1, <1>2, <1>3 DEF TypeOK, bounds, history
<1>5. Episode' /\ Loading' /\ Held' /\ MutationNeverExcused' /\ WaitIsQuiet'
  BY <1>2 DEF Episode, Loading, Held, MutationNeverExcused, WaitIsQuiet, history
<1>6. Covered(receipt, quiet)' /\ Attributable'
  BY <1>2, <1>3 DEF Covered, Attributable, Connecting, history
<1>7. Steady'
  BY <1>1, <1>2, <1>3 DEF Steady, history, Off
<1>8. Lawful
  BY <1>2, LawfulStep DEF Episode
<1> QED BY <1>4, <1>5, <1>6, <1>7, <1>8 DEF Sustained

\* The episode is forgotten, or nothing happens.
LEMMA ResetFacts ==
    IInv /\ Reset =>
        \/ receipt' = receipt
        \/ /\ receipt' = [receipt EXCEPT !.trial = NoTrial]
           /\ receipt.trial.state = "succeeded" /\ Reason(receipt, hold) = Nil
<1>. SUFFICES ASSUME IInv, Reset
              PROVE  \/ receipt' = receipt
                     \/ /\ receipt' = [receipt EXCEPT !.trial = NoTrial]
                        /\ receipt.trial.state = "succeeded" /\ Reason(receipt, hold) = Nil
  OBVIOUS
<1>1. receipt \in Receipts /\ Sound(receipt)
  BY DEF IInv, Episode, TypeOK
<1>2. "stability" \in Events /\ "stability" \notin Failures /\ Nil \in Causes \cup {Nil}
  BY DEF Events, Failures
<1>3. receipt' = Transition(receipt, "stability", Nil, FALSE, FALSE)
  BY DEF Reset
<1>4. Becomes(receipt, "stability", receipt')
  BY <1>1, <1>2, <1>3, TransitionFacts
<1> QED BY <1>2, <1>4 DEF Becomes

LEMMA ResetStep == IInv /\ Reset => Sustained
<1>. SUFFICES ASSUME IInv, Reset PROVE Sustained
  OBVIOUS
<1>. USE DEF IInv
<1>1. receipt \in Receipts /\ Sound(receipt) /\ TypeOK /\ Off \in Off..Stability
  BY RecoveryAssumption DEF Episode, TypeOK, Off
<1>2. /\ UNCHANGED <<life, hold, claimed, settling, fault, circuit, bounds, quiet, calm>>
      /\ life # "down" /\ step = "reset" /\ step' = "idle" /\ stable' = Off /\ gain' = Nil
      /\ spent' = IF receipt' # receipt THEN 0 ELSE spent
  BY DEF Reset, Restamped
<1>3. life = "running"
  BY <1>2 DEF Steady
<1>4. CASE receipt' = receipt
  <2>1. Weakens(receipt, receipt')
    BY <1>1, <1>4, FailsNothing DEF Fails
  <2>2. TypeOK'
    BY <1>1, <1>2, <1>4 DEF TypeOK, bounds
  <2>3. Weak
    BY <1>2, <1>3, <1>4, <2>1 DEF Weak, Connecting, bounds
  <2> QED BY <2>2, <2>3, WeakStep
<1>5. CASE receipt' # receipt
  <2>1. /\ receipt' \in Receipts /\ Sound(receipt') /\ receipt'.intent = receipt.intent
        /\ receipt'.protection = receipt.protection /\ receipt'.trial = NoTrial /\ spent' = 0
    BY <1>1, <1>2, <1>5, ResetFacts, ForgottenFacts
  <2>2. NoTrial.state = "none" /\ NoTrial.floods = 0
    BY DEF NoTrial
  <2>3. TypeOK'
    BY <1>1, <1>2, <2>1 DEF TypeOK, bounds
  <2>4. Episode' /\ Loading'
    BY <1>2, <1>3, <2>1, <2>2 DEF Episode, Loading
  <2>5. Held' /\ MutationNeverExcused'
    BY <1>2, <2>1 DEF Held, MutationNeverExcused
  <2>6. WaitIsQuiet' /\ Covered(receipt, quiet)'
    BY <2>1, <2>2 DEF WaitIsQuiet, Covered
  <2>7. Steady' /\ Attributable'
    BY <1>2, <1>3 DEF Steady, Attributable, Connecting
  <2>8. Lawful
    BY <1>2, <1>5, <2>1, <2>2, ResetFacts DEF Lawful, Steady
  <2> QED BY <2>3, <2>4, <2>5, <2>6, <2>7, <2>8 DEF Sustained
<1> QED BY <1>4, <1>5

LEMMA AuthorizeStep == IInv /\ Authorize => Sustained
<1>. SUFFICES ASSUME IInv, Authorize PROVE Sustained
  OBVIOUS
<1>. USE DEF IInv
<1>. DEFINE u == [NoTrial EXCEPT !.state = "authorized"]
<1>1. receipt \in Receipts /\ Sound(receipt) /\ TypeOK
  BY DEF Episode, TypeOK
<1>2. /\ UNCHANGED <<life, step, volatile, bounds, quiet, calm>> /\ spent' = 0
      /\ life \in {"held", "running"} /\ step = "idle" /\ Reason(receipt, hold) # Nil
      /\ receipt' = [receipt EXCEPT !.trial = u]
  BY DEF Authorize, Grantable, Nil
<1>3. u \in Trials /\ u.state = "authorized" /\ ~u.auto /\ u.floods = 0
  BY NoTrialType DEF NoTrial, Trials, Phases
<1>. HIDE DEF u
<1>4. /\ receipt' \in Receipts /\ receipt'.trial = u /\ receipt'.intent = receipt.intent
      /\ receipt'.protection = receipt.protection
  BY <1>1, <1>2, <1>3 DEF Receipts
<1>5. TypeOK'
  BY <1>1, <1>2, <1>4 DEF TypeOK, volatile, bounds
<1>6. Episode' /\ Loading'
  BY <1>2, <1>3, <1>4 DEF Episode, Sound, Loading
<1>7. Held' /\ MutationNeverExcused'
  BY <1>2, <1>4 DEF Held, MutationNeverExcused, volatile
<1>8. WaitIsQuiet' /\ Covered(receipt, quiet)'
  BY <1>3, <1>4 DEF WaitIsQuiet, Covered
<1>9. Steady' /\ Attributable'
  <2>1. Reason(receipt', hold') # Nil
    BY <1>2, <1>4 DEF Reason, volatile
  <2> QED BY <1>2, <1>3, <1>4, <2>1 DEF Steady, Attributable, Connecting, volatile
<1>10. Lawful
  BY <1>3, <1>4 DEF Lawful
<1> QED BY <1>5, <1>6, <1>7, <1>8, <1>9, <1>10 DEF Sustained

LEMMA TickStep == IInv /\ Tick => Sustained
<1>. SUFFICES ASSUME IInv, Tick PROVE Sustained
  OBVIOUS
<1>. USE DEF IInv
<1>. DEFINE f == Passed(receipt.floor)
            g == Passed(receipt.due)
<1>1. /\ receipt \in Receipts /\ Sound(receipt) /\ TypeOK /\ Stability \in Nat
      /\ receipt.floor \in Waits /\ receipt.due \in Waits /\ quiet \in Nat /\ calm \in 0..Stability
      /\ stable \in Off..Stability
  BY RecoveryAssumption DEF Episode, TypeOK, Receipts
<1>2. /\ receipt' = [receipt EXCEPT !.floor = f, !.due = g] /\ stable' = Down(stable)
      /\ quiet' = IF receipt.trial.state = "waiting" /\ receipt.due.left > 0
                  THEN quiet + 1 ELSE quiet
      /\ calm' = Min({calm + 1, Stability})
      /\ UNCHANGED <<life, step, hold, claimed, settling, fault, circuit, gain, bounds, spent>>
  BY DEF Tick
<1>3. f \in Waits /\ g \in Waits /\ g.left = Down(receipt.due.left)
  BY <1>1 DEF Passed, Down, Waits
<1>. HIDE DEF f, g
<1>4. /\ receipt' \in Receipts /\ receipt'.trial = receipt.trial /\ receipt'.intent = receipt.intent
      /\ receipt'.protection = receipt.protection /\ receipt'.due = g
  BY <1>1, <1>2, <1>3 DEF Receipts
<1>5. calm' = IF calm + 1 <= Stability THEN calm + 1 ELSE Stability
  <2>1. calm + 1 \in Int /\ Stability \in Int
    BY <1>1
  <2>2. Min({calm + 1, Stability}) = IF calm + 1 <= Stability THEN calm + 1 ELSE Stability
    BY <2>1, MinFacts
  <2> QED BY <1>2, <2>2
<1>6. calm' \in 0..Stability /\ quiet' \in Nat /\ stable' \in Off..Stability
      /\ (stable' # Off <=> stable # Off)
  BY <1>1, <1>2, <1>5 DEF Down, Off
<1>7. TypeOK'
  BY <1>1, <1>2, <1>4, <1>6 DEF TypeOK, bounds
<1>8. Episode' /\ Loading'
  BY <1>2, <1>4, <1>6 DEF Episode, Sound, Loading
<1>9. Held' /\ MutationNeverExcused' /\ WaitIsQuiet'
  BY <1>2, <1>4 DEF Held, MutationNeverExcused, WaitIsQuiet
<1>10. Covered(receipt, quiet)'
  <2>1. receipt.trial.cause \in Causes /\ receipt.trial.stage[receipt.trial.cause] \in 0..MaxStage
    BY <1>1 DEF Receipts, Trials
  <2>2. Backoff(receipt.trial.cause, receipt.trial.stage[receipt.trial.cause]) \in Int
    BY <2>1, BackoffType
  <2>3. receipt.due.left \in Nat /\ g.left \in Nat
    BY <1>1, <1>3 DEF Waits
  <2>4. receipt.trial.state = "waiting" => quiet' + g.left = quiet + receipt.due.left
    BY <1>1, <1>2, <1>3, <2>3 DEF Down
  <2> QED BY <1>4, <2>2, <2>4 DEF Covered
<1>11. Steady' /\ Attributable'
  <2>1. Reason(receipt', hold') = Reason(receipt, hold)
    BY <1>2, <1>4 DEF Reason
  <2>2. stable # Off /\ calm + stable >= Stability => calm' + stable' >= Stability
    BY <1>1, <1>2, <1>5 DEF Down, Off
  <2>3. calm >= Stability => calm' >= Stability
    BY <1>1, <1>5
  <2> QED BY <1>2, <1>4, <1>6, <2>1, <2>2, <2>3 DEF Steady, Attributable, Connecting
<1>12. Lawful
  BY <1>1, <1>4, LawfulStep
<1> QED BY <1>7, <1>8, <1>9, <1>10, <1>11, <1>12 DEF Sustained
-----------------------------------------------------------------------------
(* The theorems *)

LEMMA Step == IInv /\ [Next]_vars => Sustained
<1>. SUFFICES ASSUME IInv, [Next]_vars PROVE Sustained
  OBVIOUS
<1>1. CASE UNCHANGED vars
  <2>1. /\ UNCHANGED <<receipt, life, step, hold, claimed, settling, fault, circuit, stable, gain>>
        /\ UNCHANGED <<faults, boots, spent, quiet, calm>>
    BY <1>1 DEF vars, volatile, bounds, history
  <2>2. receipt \in Receipts /\ Sound(receipt) /\ TypeOK
    BY DEF IInv, Episode, TypeOK
  <2>3. Weakens(receipt, receipt')
    BY <2>1, <2>2, FailsNothing DEF Fails
  <2>4. TypeOK'
    BY <2>1, <2>2 DEF TypeOK
  <2>5. Weak
    BY <2>1, <2>3 DEF Weak, Connecting
  <2> QED BY <2>4, <2>5, WeakStep
<1>2. CASE Next
  BY <1>2, BootStep, ArmStep, QuiesceStep, StartupConsumeStep, StartupGrantStep, IdleSteps,
     ConnectFailsStep, IdentityRefusedStep, VerifyStep, FinishStartupStep, WireStep,
     FloorRecordedStep, MonitorStabilityStep, ResetStep, AuthorizeStep, TickStep
  DEF Next
<1> QED BY <1>1, <1>2

\* Every state of every behaviour satisfies the inductive invariant.
THEOREM Invariant == Spec => []IInv
<1>1. IInv /\ [Next]_vars => IInv'
  BY Step DEF Sustained
<1> QED BY InitHolds, <1>1, PTL DEF Spec

\* The receipt the ledger persists, and what a run keeps of it, have their types: the
\* decoding of a saved receipt never meets a phase, a cause or a count it does not know.
THEOREM TypeCorrect == Spec => []TypeOK
<1>1. IInv => TypeOK
  BY DEF IInv
<1> QED BY Invariant, <1>1, PTL

\* decide_auto_recovery and the ledger never let floods take more trials than the budget
\* between two grants or resets, across failures, crashes, reboots and interrupted trials.
THEOREM BudgetKept == Spec => []FloodTrialsBounded
<1>1. IInv => FloodTrialsBounded
  BY RecoveryAssumption DEF IInv, Episode, TypeOK, Receipts, Trials, FloodTrialsBounded
<1> QED BY Invariant, <1>1, PTL

\* Consuming a trial binds reads only: no mutation with an unknown outcome is ever excused.
THEOREM MutationsKept == Spec => []MutationNeverExcused
<1>1. IInv => MutationNeverExcused
  BY DEF IInv
<1> QED BY Invariant, <1>1, PTL

\* An account that accepts attempts has no outcome an earlier run left or this one lost.
THEOREM OpenResolved == Spec => []OpenMeansResolved
<1>1. IInv => OpenMeansResolved
  BY DEF IInv, Held, OpenMeansResolved, Reason
<1> QED BY Invariant, <1>1, PTL

\* The wait set once the fence was quiet still finds nothing of this run on the wire.
THEOREM QuietWait == Spec => []WaitIsQuiet
<1>1. IInv => WaitIsQuiet
  BY DEF IInv
<1> QED BY Invariant, <1>1, PTL

\* _assert_auto_transition_phase never raises: whatever is decided, the ledger's effect
\* leaves the phase that was decided.
THEOREM EffectDecided == Spec => []EffectIsDecision
<1>1. IInv => EffectIsDecision
  <2>. SUFFICES ASSUME IInv,
                       NEW ev \in Failures \union {"quiesced", "due", "success", "stability"},
                       NEW c \in Causes \union {Nil},
                       NEW d, d = Decide(receipt, ev, c, TRUE), d.command # "wait",
                       NEW e, e = Apply(receipt, d, ev, c, TRUE)
                PROVE  e.trial.state = d.next
    BY SMTT(40), ZenonT(60) DEF EffectIsDecision
  <2>1. receipt \in Receipts /\ Sound(receipt) /\ ev \in Events
    BY DEF IInv, Episode, TypeOK, Events
  <2>2. Decided(receipt, ev, c, d)
    BY <2>1, DecideFacts
  <2>3. Obeys(receipt, ev, d, e)
    BY <2>1, <2>2, ApplyFacts
  <2> QED BY <2>3 DEF Obeys
<1> QED BY Invariant, <1>1, PTL

\* No trial starts before the delay of its cause and stage has passed since the fence was
\* quiet, nor while a server wait is known.
THEOREM TrialsWait == Spec => TrialWaits
<1>1. IInv /\ [Next]_vars
        => [(receipt'.trial.auto /\ receipt'.trial.state = "consumed"
             /\ receipt.trial.state # "consumed" =>
               /\ quiet >= Backoff(receipt.trial.cause, receipt.trial.stage[receipt.trial.cause])
               /\ receipt.floor.left = 0)]_vars
  BY Step DEF Sustained, Lawful
<1> QED BY Invariant, <1>1, PTL DEF Spec, TrialWaits

\* The stability reset forgets an episode, and the floods it has spent, only after an
\* interval without a failure that protected the account.
THEOREM ResetsAfterCalm == Spec => ResetAfterCalm
<1>1. IInv /\ [Next]_vars
        => [(receipt.trial.auto /\ receipt'.trial.state = "none" => calm >= Stability)]_vars
  BY Step DEF Sustained, Lawful
<1> QED BY Invariant, <1>1, PTL DEF Spec, ResetAfterCalm

\* What the policy, the ledger and the startup promise together of automatic recovery.
THEOREM RecoveryBounded == Spec => RecoveryIsBounded
BY BudgetKept, MutationsKept, OpenResolved, QuietWait, EffectDecided, TrialsWait, ResetsAfterCalm,
   PTL DEF RecoveryIsBounded

=============================================================================
