-------------------------- MODULE DemandCoordinator --------------------------
(***************************************************************************)
(* TelegramDemandCoordinator (telegram_demand_coordinator.py): one loop    *)
(* scans the durable adapters, queues the kinds that have ready work and   *)
(* runs one bounded slice at a time; a retained kind runs its slice in a   *)
(* task beside the loop.  The gate, the scheduler's capacity and the       *)
(* owners of the work change whenever a task awaits.                       *)
(*                                                                         *)
(* Each kind sends one method.  Times are relative: a deadline is "timed"  *)
(* until a tick makes it "due".  Reasons are grouped by what releases      *)
(* them, and attempts are counted as far as "some are left".               *)
(***************************************************************************)
EXTENDS Integers, Sequences, FiniteSets, SequencesExt

CONSTANTS
    Works,       \* work keys
    DemandKinds,
    DurableOrder, \* DURABLE_DEMAND_ORDER
    KindOf,
    Retained,    \* RETAINED_DEMAND_KINDS
    Gated,       \* bound: the kinds whose method or account is restricted now and then
    None,
    MaxRevision, \* bound: revisions of one work
    MaxRefusals  \* bound: restrictions, capacity refusals, failed scans

\* Every kind is in the order once, and one kind is retained.
ASSUME WorkAssumption ==
    /\ IsFiniteSet(DemandKinds) /\ IsInjective(DurableOrder)
    /\ DurableOrder \in [1..Cardinality(DemandKinds) -> DemandKinds]
    /\ KindOf \in [Works -> DemandKinds] /\ Gated \subseteq DemandKinds
    /\ Retained \subseteq DemandKinds /\ \A k, m \in Retained : k = m
    /\ None \notin DemandKinds \cup (Works \X (1..MaxRevision))
    /\ MaxRevision \in Nat \ {0} /\ MaxRefusals \in Nat

VARIABLES
    work,    \* the owners' rows: the current revision and whether it is pending
    eligible,    \* rpc_eligibility of the kind's method: open, timed (a floor), blocked (no deadline)
    busy,    \* the scheduler's capacity is taken by others
    pump,    \* the loop: stage, wake, queue, the selected revisions, failed statuses
    held,    \* what the coordinator keeps of each revision
    inline,  \* the slice of the loop
    aside,   \* the slice of the retained task
    closing, \* shutdown_event
    refusals

coordinatorVars == <<work, eligible, busy, pump, held, inline, aside, closing, refusals>>

Revisions == Works \X (1..MaxRevision)
KindFor(r) == KindOf[r[1]]

NoInvocation == [budget |-> "none", deadline |-> "none"]
Blank == [reason |-> "none", wait |-> "no", transient |-> "no", released |-> FALSE,
          invocation |-> NoInvocation]
NoSlice == [revision |-> None, step |-> "none", changed |-> FALSE]

Excluded(h, r) == h[r].reason # "none"
Pending(w) == work[w].pending
Current(w) == <<w, work[w].revision>>
CurrentOf(r) == r = Current(r[1]) /\ Pending(r[1])

-----------------------------------------------------------------------------
(* Waits *)

WaitReady(h, r) == h[r].transient # "timed" /\ h[r].wait \in {"open", "due"}

\* _release_gate_wait
Released(e) ==
    [e EXCEPT !.released = @ \/ (e.wait # "no" /\ e.reason \in {"gate", "capacity"}),
              !.wait = "no", !.reason = "none"]

ReleaseAll(h, R) == [r \in Revisions |-> IF r \in R THEN Released(h[r]) ELSE h[r]]

\* _release_ready_gate_waits
ReleaseReady(h, g) == ReleaseAll(h, {r \in Revisions : WaitReady(h, r) /\ g[KindFor(r)] = "open"})

\* (mutant) the loop is not woken
EligibilityChangedQuietly(k, g) ==
    /\ held' = IF k = None THEN ReleaseReady(held, g)
               ELSE ReleaseAll(held, {r \in Revisions : WaitReady(held, r) /\ KindFor(r) = k})
    /\ inline' = [inline EXCEPT !.changed = inline.revision # None]
    /\ aside' = [aside EXCEPT !.changed = aside.revision # None]
    /\ UNCHANGED pump

\* eligibility_changed, for one method or (None) for all
EligibilityChanged(k, g) ==
    /\ held' = IF k = None THEN ReleaseReady(held, g)
               ELSE ReleaseAll(held, {r \in Revisions : WaitReady(held, r) /\ KindFor(r) = k})
    /\ pump' = [pump EXCEPT !.wake = TRUE]
    /\ inline' = [inline EXCEPT !.changed = inline.revision # None]
    /\ aside' = [aside EXCEPT !.changed = aside.revision # None]

Parked(e, reason, wait) == [e EXCEPT !.reason = reason, !.wait = wait]

-----------------------------------------------------------------------------
(* One turn of the loop: harvest, scan, pop *)

\* A retained task that has ended is harvested at the top of the turn.
Harvested == IF aside.step = "ended" THEN NoSlice ELSE aside

RetainedKind(slice, k) == slice.revision # None /\ KindFor(slice.revision) = k

\* (mutant) a backoff that is over stays excluded
ExpiredGateWaits(h) ==
    ReleaseAll(h, {r \in Revisions : h[r].wait = "due" /\ h[r].transient # "timed"})

\* _prepare_expired_gate_waits and the transient waits that are over
Expired(h) ==
    LET gone == ReleaseAll(h, {r \in Revisions : h[r].wait = "due" /\ h[r].transient # "timed"})
    IN  [r \in Revisions |->
            IF gone[r].transient = "due" /\ gone[r].wait = "no"
            THEN [gone[r] EXCEPT !.reason = "none"] ELSE gone[r]]

Scanned(slice, k) == ~RetainedKind(slice, k) /\ pump.failed[k] # "timed"

\* (mutant) the exclusion set is not given to the adapter
CandidatesUnfiltered(h, k) == {r \in Revisions : KindFor(r) = k /\ CurrentOf(r)}

Candidates(h, k) ==
    {r \in Revisions : KindFor(r) = k /\ CurrentOf(r) /\ ~Excluded(h, r)}

\* A closed gate parks what the adapter selects, one revision after another;
\* an open one drops the wait of the selected revision, and older revisions
\* of a selected key are forgotten.
ScannedHeld(h, slice, broken, chosen) ==
    [r \in Revisions |->
        LET k == KindFor(r)
        IN  IF ~Scanned(slice, k) \/ k \in broken THEN h[r]
            ELSE IF r \in Candidates(h, k) /\ eligible[k] # "open"
            THEN Parked(h[r], "gate", IF eligible[k] = "timed" THEN "timed" ELSE "open")
            ELSE IF r = chosen[k] THEN [h[r] EXCEPT !.wait = "no"]
            ELSE IF chosen[k] # None /\ chosen[k][1] = r[1] /\ h[r].invocation # NoInvocation
            THEN Blank
            ELSE h[r]]

\* The selection of each scanned kind: its adapter offers any candidate.
Selections(h, slice, broken) ==
    {c \in [DemandKinds -> Revisions \cup {None}] :
        \A k \in DemandKinds :
            IF Scanned(slice, k) /\ k \notin broken /\ eligible[k] = "open" /\ Candidates(h, k) # {}
            THEN c[k] \in Candidates(h, k)
            ELSE c[k] = None}

Before(s, k, m) == \E i, j \in DOMAIN s : i < j /\ s[i] = k /\ s[j] = m

\* Of two ready kinds the queue keeps the order it had; a kind that comes to it
\* goes to the tail, in the durable order.
Ahead(queue, k, m) ==
    IF m \in ToSet(queue) THEN Before(queue, k, m)
    ELSE k \in ToSet(queue) \/ Before(DurableOrder, k, m)

\* (mutant) kinds that are no longer ready stay queued
QueuedForever(queue, ready) ==
    LET kinds == ToSet(queue) \cup ready
    IN  {q \in [1..Cardinality(kinds) -> kinds] :
            IsInjective(q) /\ \A i, j \in DOMAIN q : i < j => Ahead(queue, q[i], q[j])}

\* _remove_queued for what is not ready, then one entry per ready kind
Queued(queue, ready) ==
    {q \in [1..Cardinality(ready) -> ready] :
        IsInjective(q) /\ \A i, j \in DOMAIN q : i < j => Ahead(queue, q[i], q[j])}

LoopTurn(broken) ==
    /\ pump.stage \in {"turn", "again"} /\ ~closing
    /\ refusals + Cardinality(broken) <= MaxRefusals /\ refusals' = refusals + Cardinality(broken)
    /\ \E chosen \in Selections(Expired(held), Harvested, broken) :
       \E queue \in Queued(pump.queue, {k \in DemandKinds : chosen[k] # None}) :
        LET head == IF queue = <<>> THEN None ELSE Head(queue)
            scan == [pump EXCEPT
                        !.wake = FALSE, !.offered = {},
                        !.selected = chosen,
                        !.failed = [k \in DemandKinds |->
                            IF ~Scanned(Harvested, k) THEN @[k] ELSE IF k \in broken THEN "timed" ELSE "no"]]
        IN  /\ held' = ScannedHeld(Expired(held), Harvested, broken, chosen)
            /\ IF head = None
               THEN /\ pump' = [scan EXCEPT !.stage = "wait", !.queue = <<>>]
                    /\ aside' = Harvested /\ UNCHANGED inline
               ELSE /\ pump' = [scan EXCEPT !.queue = Tail(queue),
                                            !.stage = IF head \in Retained THEN "again" ELSE "slice"]
                    /\ aside' = IF head \in Retained
                                THEN [NoSlice EXCEPT !.revision = chosen[head], !.step = "created"]
                                ELSE Harvested
                    /\ inline' = IF head \in Retained THEN inline
                                 ELSE [NoSlice EXCEPT !.revision = chosen[head], !.step = "created"]
    /\ UNCHANGED <<work, eligible, busy, closing>>

\* _wait_for_wakeup: the wake event, or the nearest deadline or safety scan
WaitEnds ==
    /\ pump.stage = "wait"
    /\ pump' = [pump EXCEPT !.stage = "turn"]
    /\ UNCHANGED <<work, eligible, busy, held, inline, aside, closing, refusals>>

LoopStops ==
    /\ closing /\ pump.stage \in {"turn", "again", "wait"}
    /\ pump' = [pump EXCEPT !.stage = "stopped"]
    /\ aside' = NoSlice
    /\ UNCHANGED <<work, eligible, busy, held, inline, closing, refusals>>

-----------------------------------------------------------------------------
(* _execute_slice.  The same code runs inline and aside: Put(s) says where   *)
(* the slice is kept.                                                       *)

Slices == {"inline", "aside"}
SliceAt(where) == IF where = "inline" THEN inline ELSE aside

Put(where, slice, p) ==
    IF where = "inline"
    THEN /\ inline' = slice /\ pump' = p /\ UNCHANGED aside
    ELSE /\ aside' = slice /\ pump' = p /\ UNCHANGED inline

\* An inline slice is followed by the next turn, a retained one wakes the loop.
SliceOver(where) ==
    IF where = "inline"
    THEN Put(where, NoSlice, [pump EXCEPT !.stage = "turn"])
    ELSE Put(where, [aside EXCEPT !.step = "ended"], [pump EXCEPT !.wake = TRUE])

\* (mutant) every budget is refilled
ActivatedAfresh(v, credit) == [budget |-> "left", deadline |-> "live"]

\* _activate_transient_retry, when a backoff is over
Activated(v, credit) ==
    IF v.budget # "left" /\ credit THEN [v EXCEPT !.deadline = "live"]
    ELSE IF v.budget = "read" THEN v
    ELSE [budget |-> "left", deadline |-> "live"]

\* _resume_gate_wait: a wait for the gate costs no time of the invocation
Resumed(e, v) ==
    IF e.released /\ v.budget = "left" /\ v.deadline = "passed"
    THEN [v EXCEPT !.deadline = "live"] ELSE v

\* prepare_durable_retry answers with a credit or without.
SliceBegins(where, credit) ==
    LET slice == SliceAt(where)
        r == slice.revision
        e == held[r]
        created == IF e.invocation = NoInvocation
                   THEN [budget |-> "left", deadline |-> "live"] ELSE e.invocation
        awaits == e.transient = "timed" \/ (e.transient = "due" /\ eligible[KindFor(r)] # "open")
        active == IF e.transient = "due" THEN Activated(created, credit) ELSE created
        resumed == IF eligible[KindFor(r)] = "open" THEN Resumed(e, active) ELSE active
        authorized == (resumed.budget = "left" /\ resumed.deadline = "live") \/ credit
    IN  /\ slice.step = "created" /\ r # None
        /\ credit => eligible[KindFor(r)] = "open"
        /\ CASE awaits ->
                  held' = [held EXCEPT ![r].invocation = created] /\ SliceOver(where)
             [] ~awaits /\ authorized ->
                  /\ held' = [held EXCEPT ![r] = [@ EXCEPT !.transient = "no", !.released = FALSE,
                                    !.invocation = [resumed EXCEPT !.deadline = "live"]]]
                  /\ Put(where, [slice EXCEPT !.step = "running", !.changed = FALSE], pump)
             [] OTHER ->
                  /\ held' = [held EXCEPT ![r] = Parked([@ EXCEPT !.transient = "no",
                                    !.released = FALSE, !.invocation = resumed], "unauthorized", "open")]
                  /\ SliceOver(where)
        /\ UNCHANGED <<work, eligible, busy, closing, refusals>>

\* The owner's transaction accepts the slice: the work moves on, or is done.
SliceCommits(where, more) ==
    LET slice == SliceAt(where)
        r == slice.revision
    IN  /\ slice.step = "running" /\ CurrentOf(r)
        /\ IF more
           THEN work[r[1]].revision < MaxRevision /\ work' = [work EXCEPT ![r[1]].revision = @ + 1]
           ELSE work' = [work EXCEPT ![r[1]].pending = FALSE]
        /\ Put(where, [slice EXCEPT !.step = "committed"], pump)
        /\ UNCHANGED <<eligible, busy, held, closing, refusals>>

\* Every other answer of the adapter, raised or returned; what it does before
\* it answers (a rollback, a requeue) may await after the gate's refusal.
Answers(r) ==
    {"final", "retryable", "deferred", "readfail"}
        \cup (IF held[r].invocation.budget # "read" THEN {"budget"} ELSE {})
        \cup (IF eligible[KindFor(r)] = "timed" THEN {"timed", "throttled"} ELSE {})
        \cup (IF eligible[KindFor(r)] = "blocked" THEN {"blocked"} ELSE {})
        \cup (IF busy THEN {"capacity"} ELSE {})

AnswerNames == {"final", "retryable", "deferred", "budget", "readfail", "timed",
                "throttled", "blocked", "capacity"}

SliceAnswers(where, answer) ==
    LET slice == SliceAt(where)
        r == slice.revision
        spent == CASE answer = "budget" -> "spent" [] answer = "readfail" -> "read"
                   [] OTHER -> held[r].invocation.budget
    IN  /\ slice.step = "running" /\ answer \in Answers(r)
        /\ held' = [held EXCEPT ![r].invocation.budget = spent]
        /\ Put(where, [slice EXCEPT !.step = answer], pump)
        /\ UNCHANGED <<work, eligible, busy, closing, refusals>>

\* What the gate's current answer makes of a refusal
GateWait(k) == IF eligible[k] = "timed" THEN "timed" ELSE "open"

\* (mutant) the capacity generation is not compared
HandledLate(slice) ==
    LET r == slice.revision
        k == KindFor(r)
        Park(reason, wait) == [held EXCEPT ![r] = Parked(@, reason, wait)]
        Exclude == [held EXCEPT ![r].reason = "final"]
    IN  CASE slice.step = "committed" -> [held EXCEPT ![r] = Blank]
          [] slice.step = "retryable" ->
               [held EXCEPT ![r] = [@ EXCEPT !.reason = "retryable", !.transient = "timed"]]
          [] slice.step \in {"timed", "throttled"} -> Park("gate", "timed")
          [] slice.step \in {"blocked", "readfail"} -> Park("gate", "open")
          [] slice.step = "capacity" -> Park("capacity", "open")
          [] OTHER -> Exclude

\* _handle_outcome, _handle_deferred, _handle_throttle, _handle_pacing_deferred,
\* _handle_slice_failure: what becomes of the revision
Handled(slice) ==
    LET r == slice.revision
        k == KindFor(r)
        Park(reason, wait) == [held EXCEPT ![r] = Parked(@, reason, wait)]
        Exclude == [held EXCEPT ![r].reason = "final"]
    IN  CASE slice.step = "committed" -> [held EXCEPT ![r] = Blank]
          [] slice.step \in {"final", "budget"} -> Exclude
          [] slice.step = "retryable" ->
               [held EXCEPT ![r] = [@ EXCEPT !.reason = "retryable", !.transient = "timed"]]
          [] slice.step = "deferred" -> IF eligible[k] = "open" THEN Exclude ELSE Park("gate", GateWait(k))
          [] slice.step = "timed" -> Park("gate", "timed")
          [] slice.step = "blocked" -> Park("gate", "open")
          [] slice.step = "throttled" -> Park("gate", IF eligible[k] = "blocked" THEN "open" ELSE "timed")
          [] slice.step = "capacity" ->
               IF slice.changed THEN ReleaseReady(Park("capacity", "open"), eligible)
               ELSE Park("capacity", "open")
          [] slice.step = "readfail" ->
               IF eligible[k] = "open" THEN ReleaseReady(Park("gate", "open"), eligible)
               ELSE Park("gate", GateWait(k))

SliceEnds(where) ==
    /\ SliceAt(where).step \notin {"none", "created", "running", "ended"}
    /\ held' = Handled(SliceAt(where))
    /\ SliceOver(where)
    /\ UNCHANGED <<work, eligible, busy, closing, refusals>>

-----------------------------------------------------------------------------
(* The owners, the gate, the scheduler and the clock *)

\* (mutant) the durable commit is not signalled
OfferSilently(w) ==
    /\ work[w].revision < MaxRevision /\ pump.stage # "stopped"
    /\ work' = [work EXCEPT ![w] = [revision |-> @.revision + 1, pending |-> TRUE]]
    /\ UNCHANGED <<eligible, busy, pump, held, inline, aside, closing, refusals>>

\* The daemon commits new work, or a new revision of it, and offers its kind.
OfferWork(w) ==
    LET k == KindOf[w]
        ignored == \/ k \in pump.offered \/ k \in ToSet(pump.queue)
                   \/ RetainedKind(inline, k) \/ RetainedKind(aside, k)
    IN  /\ work[w].revision < MaxRevision /\ pump.stage # "stopped"
        /\ work' = [work EXCEPT ![w] = [revision |-> @.revision + 1, pending |-> TRUE]]
        /\ pump' = IF ignored THEN pump ELSE [pump EXCEPT !.wake = TRUE, !.offered = @ \cup {k}]
        /\ UNCHANGED <<eligible, busy, held, inline, aside, closing, refusals>>

GateCloses(k, how) ==
    /\ k \in Gated /\ refusals < MaxRefusals /\ refusals' = refusals + 1
    /\ eligible[k] = "open" /\ eligible' = [eligible EXCEPT ![k] = how]
    /\ UNCHANGED <<work, busy, pump, held, inline, aside, closing>>

\* A restriction without a deadline ends with a notification.
GateOpens(k, method) ==
    /\ eligible[k] = "blocked" /\ method \in {k, None}
    /\ eligible' = [eligible EXCEPT ![k] = "open"]
    /\ EligibilityChanged(method, eligible')
    /\ UNCHANGED <<work, busy, closing, refusals>>

\* A floor ends by itself.
RestrictionPasses(k) ==
    /\ eligible[k] = "timed" /\ eligible' = [eligible EXCEPT ![k] = "open"]
    /\ UNCHANGED <<work, busy, pump, held, inline, aside, closing, refusals>>

CapacityTaken ==
    /\ ~busy /\ refusals < MaxRefusals /\ refusals' = refusals + 1 /\ busy' = TRUE
    /\ UNCHANGED <<work, eligible, pump, held, inline, aside, closing>>

CapacityFreed ==
    /\ busy /\ busy' = FALSE
    /\ EligibilityChanged(None, eligible)
    /\ UNCHANGED <<work, eligible, closing, refusals>>

\* A deadline of the coordinator passes.
Tick(r) ==
    /\ \/ held[r].wait = "timed" /\ held' = [held EXCEPT ![r].wait = "due"]
       \/ held[r].transient = "timed" /\ held' = [held EXCEPT ![r].transient = "due"]
       \/ held[r].invocation.deadline = "live"
            /\ held' = [held EXCEPT ![r].invocation.deadline = "passed"]
    /\ UNCHANGED <<work, eligible, busy, pump, inline, aside, closing, refusals>>

StatusRetried(k) ==
    /\ pump.failed[k] = "timed" /\ pump' = [pump EXCEPT !.failed[k] = "due"]
    /\ UNCHANGED <<work, eligible, busy, held, inline, aside, closing, refusals>>

Shutdown ==
    /\ ~closing /\ refusals < MaxRefusals /\ refusals' = refusals + 1
    /\ closing' = TRUE /\ pump' = [pump EXCEPT !.wake = TRUE]
    /\ UNCHANGED <<work, eligible, busy, held, inline, aside>>

-----------------------------------------------------------------------------
CoordinatorInit ==
    /\ work \in [Works -> [revision : {1}, pending : BOOLEAN]]
    /\ eligible = [k \in DemandKinds |-> "open"] /\ busy = FALSE
    /\ pump = [stage |-> "turn", wake |-> FALSE, queue |-> <<>>, offered |-> {},
               selected |-> [k \in DemandKinds |-> None], failed |-> [k \in DemandKinds |-> "no"]]
    /\ held = [r \in Revisions |-> Blank]
    /\ inline = NoSlice /\ aside = NoSlice /\ closing = FALSE /\ refusals = 0

Coordinator ==
    \/ \E broken \in SUBSET DemandKinds : LoopTurn(broken)
    \/ WaitEnds \/ LoopStops

Slice(where) ==
    \/ \E credit \in BOOLEAN : SliceBegins(where, credit)
    \/ \E more \in BOOLEAN : SliceCommits(where, more)
    \/ SliceEnds(where)
    \/ \E answer \in AnswerNames : SliceAnswers(where, answer)

Clock ==
    \/ \E r \in Revisions : Tick(r)
    \/ \E k \in DemandKinds : StatusRetried(k) \/ RestrictionPasses(k)

Environment ==
    \/ \E w \in Works : OfferWork(w)
    \/ \E k \in DemandKinds, how \in {"timed", "blocked"} : GateCloses(k, how)
    \/ \E k \in DemandKinds, method \in DemandKinds \cup {None} : GateOpens(k, method)
    \/ CapacityTaken \/ CapacityFreed \/ Shutdown

\* The loop does not await between a pop and the adapter of an inline slice,
\* nor between the start of a retained task and its next scan.
CoordinatorNext ==
    IF inline.step = "created" THEN \E credit \in BOOLEAN : SliceBegins("inline", credit)
    ELSE IF pump.stage = "again" THEN Coordinator
    ELSE Coordinator \/ (\E where \in Slices : Slice(where)) \/ Clock \/ Environment

CoordinatorSpec == CoordinatorInit /\ [][CoordinatorNext]_coordinatorVars

CoordinatorFairness ==
    /\ WF_coordinatorVars(Coordinator) /\ WF_coordinatorVars(CapacityFreed)
    /\ \A r \in Revisions : WF_coordinatorVars(Tick(r))
    /\ \A k \in DemandKinds : WF_coordinatorVars(StatusRetried(k) \/ RestrictionPasses(k))
    /\ \A where \in Slices : WF_coordinatorVars(Slice(where))

FairCoordinatorSpec == CoordinatorSpec /\ CoordinatorFairness

-----------------------------------------------------------------------------
Entries ==
    [reason : {"none", "gate", "capacity", "unauthorized", "retryable", "final"},
     wait : {"no", "open", "timed", "due"}, transient : {"no", "timed", "due"},
     released : BOOLEAN,
     invocation : [budget : {"none", "left", "spent", "read"},
                   deadline : {"none", "live", "passed"}]]
SliceRecords ==
    [revision : Revisions \cup {None}, changed : BOOLEAN,
     step : {"none", "created", "running", "committed", "ended"} \cup AnswerNames]
PumpRecords ==
    [stage : {"turn", "again", "wait", "slice", "stopped"}, wake : BOOLEAN,
     queue : Seq(DemandKinds), offered : SUBSET DemandKinds,
     selected : [DemandKinds -> Revisions \cup {None}],
     failed : [DemandKinds -> {"no", "timed", "due"}]]

\* Records in their sets; the loop in the stages it knows, its queue of durable kinds.
CoordinatorTypeOK ==
    /\ work \in [Works -> [revision : 1..MaxRevision, pending : BOOLEAN]]
    /\ eligible \in [DemandKinds -> {"open", "timed", "blocked"}]
    /\ held \in [Revisions -> Entries] /\ pump \in PumpRecords
    /\ inline \in SliceRecords /\ aside \in SliceRecords
    /\ busy \in BOOLEAN /\ closing \in BOOLEAN /\ refusals \in 0..MaxRefusals

\* What runs is not held: no revision is started or running while it is
\* excluded, waits for its gate or backs off, although releases, expiries and
\* notifications of other revisions come in any order.
RunsOnlyReleased ==
    \A where \in Slices :
        SliceAt(where).step = "running" =>
            LET e == held[SliceAt(where).revision]
            IN  e.reason = "none" /\ e.wait = "no" /\ e.transient = "no"

\* A queued kind has a revision to run, and never the kind whose slice runs
\* aside, so no slice starts without an exact revision: the loop raises for
\* that, and for a retained task started twice.
QueueIsReady ==
    /\ \A where \in Slices : SliceAt(where).step # "none" => SliceAt(where).revision # None
    /\ IsInjective(pump.queue)
    /\ \A k \in ToSet(pump.queue) :
            pump.selected[k] # None /\ ~RetainedKind(aside, k)

\* While the loop waits without a wake, nothing it could run at once is left:
\* neither a commit that was offered, nor a release, nor the end of a retained
\* slice goes unnoticed until the next safety scan.
NothingForgotten ==
    (pump.stage = "wait" /\ ~pump.wake) =>
        \A r \in Revisions :
            ~(/\ CurrentOf(r) /\ ~Excluded(held, r) /\ ~RetainedKind(aside, KindFor(r))
              /\ pump.failed[KindFor(r)] = "no" /\ eligible[KindFor(r)] = "open")

\* Work refused for want of capacity is not left waiting once capacity is free,
\* also when it was freed between the refusal and its handling (the generation
\* that _handle_capacity_deferred compares).
CapacityWaitsEnd ==
    \A r \in Revisions :
        (held[r].reason = "capacity" /\ KindFor(r) \notin Gated) => busy

\* The coordinator runs released exact revisions, and forgets none that could run.
WorkIsKept == NothingForgotten /\ CapacityWaitsEnd /\ RunsOnlyReleased /\ QueueIsReady

\* A revision whose claimed read failed has no attempt left but the gate's own
\* credit until it commits or is revised: backing off does not refill it.
ReadFailureKept ==
    [][\A r \in Revisions :
        held[r].invocation.budget = "read" =>
            held'[r].invocation.budget = "read" \/ held'[r] = Blank]_coordinatorVars

\* Whatever waits without a deadline waits for something that will be notified:
\* its gate is closed without a deadline, or capacity is taken.
\* (docs/plans/telegram-demand-control.md, "Wakeup considers both adapter
\* release time and account readiness".)
GateWaitsEnd ==
    \A r \in Revisions :
        (held[r].wait = "open" /\ held[r].reason = "gate") => eligible[KindFor(r)] = "blocked"

\* Ready work of a kind that its gate leaves alone is run, again after every
\* backoff and refusal for capacity, until it is done or revised or held for a
\* reason that only its owner can lift.
WorkIsRun ==
    \A r \in Revisions :
        (CurrentOf(r) /\ KindFor(r) \notin Gated)
            ~> \/ ~CurrentOf(r) \/ closing
               \/ held[r].reason \in {"final", "unauthorized"}
               \/ \E where \in Slices : SliceAt(where).step = "running" /\ SliceAt(where).revision = r
=============================================================================
