------------------------------ MODULE Hydration ------------------------------
(***************************************************************************)
(* Message facts that need a request of their own: hydration_queue.py, the *)
(* runner fact_hydration.py, its two handlers and the queue effects of     *)
(* delivered messages, deletions, access loss and access recovery.         *)
(*                                                                         *)
(* A slice handles the one job that the coordinator selected.  Between its *)
(* writer jobs every other writer may commit, so a job can be purged,      *)
(* resolved or observed anew while its request is away.  A slice that      *)
(* commits nothing has the revision of its job excluded: the coordinator   *)
(* does not offer that revision again before a restart.                    *)
(*                                                                         *)
(* One dialog.  Observation orders are numbers; the edit date of a message *)
(* moves with its order; priorities and send times, which only order the   *)
(* queue, are left out.                                                    *)
(***************************************************************************)
EXTENDS Integers, FiniteSets

CONSTANTS
    Messages,
    MaxAttempts,  \* max_attempts
    MaxOrder,     \* bound: the order at which the other writers fall silent
    MaxFaults,    \* bound: crashes, scope changes, answers that change nothing
    None

\* A row of hydration_jobs; a row that the limit suppressed counts one start more.
JobRow == [due : BOOLEAN, attempts : 0..MaxAttempts + 1,
           outcome : {"queued", "processing", "retry"}, terminal : BOOLEAN]

ASSUME HydrationAssumption ==
    /\ MaxAttempts \in Nat \ {0} /\ MaxOrder \in Nat /\ MaxFaults \in Nat
    /\ None \notin Messages /\ None \notin JobRow

VARIABLES
    rows,      \* hydration_jobs
    message,   \* messages, message_observations and message_transcriptions
    dialog,    \* access and enrollment of the dialog, the order of its access state
    order,     \* allocate_observation_order
    slice,     \* _process_batch_owned
    excluded,  \* _excluded of the coordinator: revisions that are not offered (memory)
    faults

vars == <<rows, message, dialog, order, slice, excluded, faults>>

HydrationKinds == {"media", "voice"}
Jobs == HydrationKinds \X Messages
KindOf(j) == j[1]
MessageOf(j) == j[2]

\* What a message still needs: "legacy" is a video stored before its round
\* marker was, which no reconciliation enqueues.
Needs == {"media", "legacy", "voice", "nothing"}

Answers == {"deferred", "throttled", "lost", "terminal", "transient", "pending",
            "invalid", "media", "voice", "nothing"}

NoSlice == [phase |-> "idle", job |-> None, revision |-> 0, attempts |-> 0, order |-> 0,
            answer |-> "none", scoped |-> TRUE]

Unresolved(m) == message[m].need \in {"media", "legacy"} /\ ~message[m].deleted
Untranscribed(m) == message[m].need = "voice" /\ ~message[m].deleted /\ ~message[m].transcript

\* fact_hydration_eligible
DialogEligible == dialog.access /\ dialog.enabled

\* media_fact_hydration_eligible, transcription_hydration_eligible
Eligible(j) ==
    DialogEligible /\ IF KindOf(j) = "media" THEN Unresolved(MessageOf(j)) ELSE Untranscribed(MessageOf(j))

\* (mutant) nothing supersedes an observation
AlwaysCurrent(m, o) == TRUE

\* hydration_observation_current
ObservationCurrent(m, o) == ~message[m].deleted /\ o >= message[m].order

-----------------------------------------------------------------------------
(* HydrationQueueRepository, as functions of the rows *)

Queued == [due |-> TRUE, attempts |-> 0, outcome |-> "queued", terminal |-> FALSE]

Active(R, j) == R[j] # None /\ ~R[j].terminal

\* enqueue: a started job keeps its attempts and its due time
Enqueue(R, J) ==
    [j \in Jobs |->
        IF j \notin J THEN R[j]
        ELSE IF R[j] = None THEN Queued
        ELSE IF ~R[j].terminal /\ R[j].attempts = 0 /\ R[j].outcome = "queued"
        THEN [R[j] EXCEPT !.due = TRUE]
        ELSE R[j]]

\* (mutant) rows a dead process left in processing are not offered again
DueWhenIdle(R) == {j \in Jobs : Active(R, j) /\ R[j].due /\ R[j].outcome # "processing"}

\* due_jobs
Due(R) == {j \in Jobs : Active(R, j) /\ R[j].due}

Start(R, j) == [R EXCEPT ![j].attempts = @ + 1, ![j].outcome = "processing"]

Reschedule(R, j) ==
    IF Active(R, j) THEN [R EXCEPT ![j].due = FALSE, ![j].outcome = "retry"] ELSE R

RequeueUndispatched(R, j) ==
    IF Active(R, j) /\ R[j].attempts > 0
    THEN [R EXCEPT ![j].attempts = @ - 1, ![j].outcome = "retry"] ELSE R

\* _media_job_leased: the row as it was started
Leased(R, s) ==
    /\ Active(R, s.job) /\ R[s.job].attempts = s.attempts
    /\ R[s.job].due /\ R[s.job].outcome = "processing"

RequeueNotApplied(R, s) ==
    IF Leased(R, s) /\ s.attempts > 0
    THEN [R EXCEPT ![s.job].attempts = @ - 1, ![s.job].outcome = "retry"] ELSE R

MarkTerminal(R, j) == IF R[j] = None THEN R ELSE [R EXCEPT ![j].terminal = TRUE]

Remove(R, J) == [j \in Jobs |-> IF j \in J THEN None ELSE R[j]]

\* (mutant) a purge forgets what was suppressed
RemoveEverything(R, J) == Remove(R, J)

\* (mutant) a purge leaves the rows that are being processed
RemoveIdle(R, J) == Remove(R, {j \in J : Active(R, j) /\ R[j].outcome # "processing"})

RemoveActive(R, J) == Remove(R, {j \in J : Active(R, j)})

-----------------------------------------------------------------------------
(* reconcile_fact_hydration_job: the rows of a message that has just been    *)
(* stored with this need                                                    *)

Reconciled(R, m, need) ==
    LET media == <<"media", m>>
        voice == <<"voice", m>>
        after ==
            IF need # "media" THEN Remove(R, {media})
            ELSE IF DialogEligible THEN Enqueue(R, {media})
            ELSE RemoveActive(R, {media})
    IN  IF need # "voice" \/ message[m].transcript THEN Remove(after, {voice})
        ELSE IF DialogEligible THEN Enqueue(after, {voice})
        ELSE RemoveActive(after, {voice})

\* A message as delivered or fetched with an order: what its fact needs now
Stored(m, need, o) == [message EXCEPT ![m].need = need, ![m].order = o]

Delivered(m, need) ==
    /\ order < MaxOrder /\ ~message[m].deleted
    /\ order' = order + 1
    /\ message' = Stored(m, need, order')
    /\ rows' = Reconciled(rows, m, need)
    /\ UNCHANGED <<dialog, slice, excluded, faults>>

\* apply_message_transcription, from a delivered event
TranscriptDelivered(m) ==
    /\ order < MaxOrder /\ Untranscribed(m)
    /\ order' = order + 1
    /\ message' = [message EXCEPT ![m].transcript = TRUE]
    /\ rows' = Remove(rows, {<<"voice", m>>})
    /\ UNCHANGED <<dialog, slice, excluded, faults>>

\* (mutant) the deletion leaves the jobs of the message
DeletedAlone(m) ==
    /\ order < MaxOrder /\ ~message[m].deleted
    /\ order' = order + 1
    /\ message' = [message EXCEPT ![m].deleted = TRUE, ![m].order = order']
    /\ UNCHANGED <<rows, dialog, slice, excluded, faults>>

\* mark_message_deleted
Deleted(m) ==
    /\ order < MaxOrder /\ ~message[m].deleted
    /\ order' = order + 1
    /\ message' = [message EXCEPT ![m].deleted = TRUE, ![m].order = order']
    /\ rows' = Remove(rows, {<<k, m>> : k \in HydrationKinds})
    /\ UNCHANGED <<dialog, slice, excluded, faults>>

\* (mutant) an access loss is believed whatever was observed since
LossAccepted(o) == TRUE

\* claim_dialog_fact for the access state
AccessClaimed(o) == o > dialog.order

\* set_access_lost, from an event or a probe
AccessLost ==
    /\ order < MaxOrder /\ dialog.access
    /\ order' = order + 1
    /\ dialog' = [dialog EXCEPT !.access = FALSE, !.order = order']
    /\ rows' = RemoveActive(rows, Jobs)
    /\ UNCHANGED <<message, slice, excluded, faults>>

\* disable_history
HistoryDisabled ==
    /\ faults < MaxFaults /\ faults' = faults + 1
    /\ dialog.enabled
    /\ dialog' = [dialog EXCEPT !.enabled = FALSE]
    /\ rows' = RemoveActive(rows, Jobs)
    /\ UNCHANGED <<message, order, slice, excluded>>

\* reconcile_fact_hydration_jobs_for_dialog, in a dialog just made eligible
DialogReconciled(eligible) ==
    IF ~eligible THEN rows
    ELSE Enqueue(rows, {<<"media", m>> : m \in {x \in Messages : Unresolved(x)}}
                       \cup {<<"voice", m>> : m \in {x \in Messages : Untranscribed(x)}})

\* restore_access_after_revalidation
Restored ==
    /\ order < MaxOrder /\ ~dialog.access
    /\ order' = order + 1
    /\ dialog' = [dialog EXCEPT !.access = TRUE, !.order = order']
    /\ rows' = DialogReconciled(dialog.enabled)
    /\ UNCHANGED <<message, slice, excluded, faults>>

\* enable_history with its hydration requester
HistoryEnabled ==
    /\ ~dialog.enabled
    /\ dialog' = [dialog EXCEPT !.enabled = TRUE]
    /\ rows' = DialogReconciled(dialog.access)
    /\ UNCHANGED <<message, order, slice, excluded, faults>>

-----------------------------------------------------------------------------
(* The slice *)

\* hydration_work_revision: what was observed of the message.  Neither the attempts
\* nor the due time of the row are in it, so a requeued row has its old revision.
Revision(j) == <<j, message[MessageOf(j)].order>>

\* NO_PROGRESS, STALE, DEFERRED without a closed gate, an unclassified failure:
\* _exclude_revision
Excludes == excluded' = excluded \cup {<<slice.job, slice.revision>>}

\* Committed progress, a timed retry or a wait for a gate: offered again
Offers == UNCHANGED excluded

\* FactHydrationDemandAdapter.status with the excluded revisions
Offered(j) == Revision(j) \notin excluded

\* Status and run_slice: the adapter always hands over the selected row, so the
\* repair that run_priority_slice keeps for an unselected slice does not run.  The
\* scan that selects a revision forgets the older ones of its job
\* (_prune_revised_invocations).
Select(j) ==
    /\ slice.phase = "idle" /\ j \in Due(rows) /\ Offered(j)
    /\ slice' = [NoSlice EXCEPT !.phase = "selected", !.job = j, !.attempts = rows[j].attempts,
                                !.revision = message[MessageOf(j)].order]
    /\ excluded' = {r \in excluded : r[1] # j}
    /\ UNCHANGED <<rows, message, dialog, order, faults>>

\* _require_media_scope
ScopeHolds == KindOf(slice.job) = "media" => slice.scoped

\* (mutant) the limit is checked by the answers only
StartUnlimited ==
    /\ slice.phase = "selected"
    /\ IF ScopeHolds /\ Eligible(slice.job) /\ Active(rows, slice.job)
       THEN /\ order' = order + 1 /\ rows' = Start(rows, slice.job)
            /\ slice' = [slice EXCEPT !.phase = "away", !.attempts = rows[slice.job].attempts + 1, !.order = order']
       ELSE /\ rows' = IF ScopeHolds /\ ~Eligible(slice.job) THEN Remove(rows, {slice.job}) ELSE rows
            /\ slice' = NoSlice /\ UNCHANGED order
    /\ UNCHANGED <<message, dialog, excluded, faults>>

\* _start_batch, one transaction
StartBatch ==
    LET j == slice.job
        attempts == rows[j].attempts + 1
    IN  /\ slice.phase = "selected"
        /\ CASE ~ScopeHolds ->
                  /\ slice' = NoSlice /\ Excludes /\ UNCHANGED <<rows, order>>
             [] ScopeHolds /\ ~Eligible(j) ->
                  /\ rows' = Remove(rows, {j}) /\ slice' = NoSlice /\ Excludes /\ UNCHANGED order
             [] ScopeHolds /\ Eligible(j) /\ ~Active(rows, j) ->
                  /\ slice' = NoSlice /\ Excludes /\ UNCHANGED <<rows, order>>
             [] ScopeHolds /\ Eligible(j) /\ Active(rows, j) /\ attempts > MaxAttempts ->
                  /\ rows' = MarkTerminal(Start(rows, j), j) /\ slice' = NoSlice /\ Excludes /\ UNCHANGED order
             [] OTHER ->
                  /\ order' = order + 1
                  /\ rows' = Start(rows, j)
                  /\ slice' = [slice EXCEPT !.phase = "away", !.attempts = attempts, !.order = order']
                  /\ Offers
        /\ UNCHANGED <<message, dialog, faults>>

Answerable(j) ==
    {"deferred", "throttled", "lost", "terminal", "transient", "invalid"}
        \cup IF KindOf(j) = "media" THEN {"media", "voice", "nothing"} ELSE {"pending", "voice"}

Fruitless == {"deferred", "throttled", "transient"}

\* _request_batch returns or raises; without the scope its answer is dropped.
Answer(a) ==
    /\ slice.phase = "away" /\ a \in Answerable(slice.job)
    /\ a \in Fruitless => faults < MaxFaults
    /\ faults' = IF a \in Fruitless THEN faults + 1 ELSE faults
    /\ IF ScopeHolds THEN slice' = [slice EXCEPT !.phase = "answered", !.answer = a] /\ Offers
       ELSE slice' = NoSlice /\ Excludes
    /\ UNCHANGED <<rows, message, dialog, order>>

Failed == slice.answer \in {"deferred", "throttled", "lost", "terminal", "transient"}

\* _requeue_obsolete_observations
RequeueObsolete ==
    /\ slice.phase = "answered"
    /\ IF (Failed \/ KindOf(slice.job) = "voice") /\ ~ScopeHolds
       THEN slice' = NoSlice /\ Excludes /\ UNCHANGED rows
       ELSE /\ slice' = [slice EXCEPT !.phase = "settling"] /\ Offers
            /\ rows' = IF (Failed \/ KindOf(slice.job) = "voice")
                          /\ ~ObservationCurrent(MessageOf(slice.job), slice.order)
                       THEN RequeueNotApplied(rows, slice) ELSE rows
    /\ UNCHANGED <<message, dialog, order, faults>>

\* _current_jobs
CurrentJob ==
    /\ KindOf(slice.job) = "media" => Leased(rows, slice)
    /\ ObservationCurrent(MessageOf(slice.job), slice.order)

Ends == slice' = NoSlice

\* _handle_batch_error: one transaction that does nothing for a job that was
\* observed, purged or unscoped meanwhile
Settles(answers) ==
    /\ slice.phase = "settling" /\ slice.answer \in answers /\ Ends
    /\ ScopeHolds /\ CurrentJob
    /\ UNCHANGED <<message, order, faults>>

FailureDropped ==
    /\ slice.phase = "settling" /\ Failed /\ Ends /\ ~(ScopeHolds /\ CurrentJob)
    /\ Excludes \/ (ScopeHolds /\ slice.answer \in {"deferred", "throttled"} /\ Offers)
    /\ UNCHANGED <<rows, message, dialog, order, faults>>

\* A gate that is closed opens again; an admission that expired or a spent attempt
\* budget has no gate to wait for (_handle_pacing_deferred).
AdmissionRejected ==
    /\ Settles({"deferred"}) /\ rows' = RequeueUndispatched(rows, slice.job)
    /\ Offers \/ Excludes
    /\ UNCHANGED dialog

\* A throttled request was sent: its row stays as it was started.
Throttled == Settles({"throttled"}) /\ Offers /\ UNCHANGED <<rows, dialog>>

\* When the access returns, the job comes back with the revision excluded here.
AccessLostAnswered ==
    /\ Settles({"lost"}) /\ Excludes
    /\ IF AccessClaimed(slice.order)
       THEN /\ dialog' = [dialog EXCEPT !.access = FALSE, !.order = slice.order]
            /\ rows' = RemoveActive(rows, Jobs)
       ELSE UNCHANGED <<rows, dialog>>

RequestFailed ==
    /\ Settles({"terminal", "transient"})
    /\ IF slice.answer = "terminal" THEN rows' = MarkTerminal(rows, slice.job) /\ Offers
       ELSE rows' = RequeueNotApplied(rows, slice) /\ Excludes
    /\ UNCHANGED dialog

\* _apply_batch_result for media: the response is published as a message and
\* the job is settled by what became of it.
SettleMedia ==
    LET j == slice.job
        m == MessageOf(j)
        answered == slice.answer # "invalid"
        fresh == ObservationCurrent(m, slice.order)
        leased == Leased(rows, slice)
        kept == IF leased /\ ~Eligible(j) THEN Remove(rows, {j}) ELSE rows
        published == IF answered /\ fresh THEN Reconciled(kept, m, slice.answer) ELSE kept
    IN  /\ slice.phase = "settling" /\ ~Failed /\ KindOf(j) = "media" /\ Ends
        /\ IF ~slice.scoped THEN UNCHANGED <<rows, message>>
           ELSE /\ message' = IF answered /\ fresh THEN Stored(m, slice.answer, slice.order) ELSE message
                /\ rows' = CASE ~leased \/ ~Eligible(j) -> published
                             [] leased /\ Eligible(j) /\ ~fresh -> RequeueNotApplied(rows, slice)
                             [] leased /\ Eligible(j) /\ fresh /\ ~answered -> MarkTerminal(rows, j)
                             [] OTHER -> Enqueue(Remove(published, {j}),
                                                 IF slice.answer = "voice" /\ ~message[m].transcript
                                                 THEN {<<"voice", m>>} ELSE {})
        /\ IF slice.scoped /\ leased /\ Eligible(j) /\ fresh /\ answered THEN Offers ELSE Excludes
        /\ UNCHANGED <<dialog, order, faults>>

\* _apply_batch_result for transcriptions
SettleVoice ==
    LET j == slice.job
        m == MessageOf(j)
        absent == slice.answer = "voice" /\ Eligible(j)
    IN  /\ slice.phase = "settling" /\ ~Failed /\ KindOf(j) = "voice" /\ Ends
        /\ IF ~CurrentJob THEN UNCHANGED <<rows, message>>
           ELSE /\ message' = IF absent THEN [message EXCEPT ![m].transcript = TRUE] ELSE message
                /\ rows' = CASE slice.answer = "pending" /\ slice.attempts >= MaxAttempts -> MarkTerminal(rows, j)
                             [] slice.answer = "pending" /\ slice.attempts < MaxAttempts -> Reschedule(rows, j)
                             [] slice.answer = "invalid" -> MarkTerminal(rows, j)
                             [] OTHER -> Remove(rows, {j})
        /\ IF CurrentJob /\ (absent \/ (slice.answer = "voice" /\ message[m].transcript)
                              \/ (slice.answer = "pending" /\ Active(rows, j) /\ slice.attempts < MaxAttempts))
           THEN Offers ELSE Excludes
        /\ UNCHANGED <<dialog, order, faults>>

\* The process stops and another one starts with the same rows, which offers all of
\* them again.
Crash ==
    /\ faults < MaxFaults /\ faults' = faults + 1
    /\ slice.phase # "idle" \/ excluded # {}
    /\ slice' = NoSlice /\ excluded' = {}
    /\ UNCHANGED <<rows, message, dialog, order>>

\* A logout and login end the image scope of the running slice.
ScopeEnds ==
    /\ faults < MaxFaults /\ faults' = faults + 1
    /\ slice.phase # "idle" /\ slice.scoped
    /\ slice' = [slice EXCEPT !.scoped = FALSE]
    /\ UNCHANGED <<rows, message, dialog, order, excluded>>

BecomesDue(j) ==
    /\ Active(rows, j) /\ ~rows[j].due /\ rows' = [rows EXCEPT ![j].due = TRUE]
    /\ UNCHANGED <<message, dialog, order, slice, excluded, faults>>

-----------------------------------------------------------------------------
\* Rows of earlier runs are not needed: legacy messages and lost access are
\* enough to start every history.
Init ==
    /\ message \in [Messages -> [need : Needs, order : {0}, deleted : {FALSE}, transcript : {FALSE}]]
    /\ rows = [j \in Jobs |-> None]
    /\ dialog \in [access : BOOLEAN, enabled : BOOLEAN, order : {0}]
    /\ order = 0 /\ slice = NoSlice /\ excluded = {} /\ faults = 0

Writers ==
    \/ \E m \in Messages :
        \/ \E need \in Needs \ {"legacy"} : Delivered(m, need)
        \/ TranscriptDelivered(m) \/ Deleted(m)
    \/ AccessLost \/ HistoryDisabled \/ Restored \/ HistoryEnabled

Steps ==
    \/ StartBatch \/ RequeueObsolete \/ SettleMedia \/ SettleVoice
    \/ FailureDropped \/ AdmissionRejected \/ Throttled \/ AccessLostAnswered \/ RequestFailed
    \/ \E a \in Answers : Answer(a)

Next ==
    \/ Writers \/ Steps \/ Crash \/ ScopeEnds
    \/ \E j \in Jobs : Select(j) \/ BecomesDue(j)

Spec == Init /\ [][Next]_vars

Fairness ==
    /\ WF_vars(Steps) /\ WF_vars(\E j \in Jobs : Select(j))
    /\ \A j \in Jobs : WF_vars(BecomesDue(j))

FairSpec == Spec /\ Fairness

-----------------------------------------------------------------------------
\* Records in their sets; no row is started more than once over the limit.
TypeOK ==
    /\ rows \in [Jobs -> JobRow \cup {None}]
    /\ message \in [Messages -> [need : Needs, order : 0..order, deleted : BOOLEAN, transcript : BOOLEAN]]
    /\ dialog \in [access : BOOLEAN, enabled : BOOLEAN, order : 0..order]
    /\ slice \in [phase : {"idle", "selected", "away", "answered", "settling"}, job : Jobs \cup {None},
                  revision : Nat, attempts : 0..MaxAttempts + 1, order : 0..order, answer : Answers \cup {"none"},
                  scoped : BOOLEAN]
    /\ excluded \subseteq (Jobs \X Nat) /\ order \in Nat /\ faults \in 0..MaxFaults

\* A deleted message has no job, whatever answers or recoveries of access come
\* after its deletion.
DeletedHasNoJob ==
    \A j \in Jobs : message[MessageOf(j)].deleted => rows[j] = None

\* A dialog that lost access or its history has no active job: an answer that
\* was away does not bring work back.
NoWorkWhenLost == ~DialogEligible => \A j \in Jobs : ~Active(rows, j)

\* The answer of a slice changes a fact of a message only if nothing newer was
\* observed of it since the slice began.
NoStaleFact ==
    [][\A m \in Messages :
        (slice.phase = "settling" /\ message'[m] # message[m]
            /\ order' = order) =>
                ~message[m].deleted /\ slice.order >= message[m].order]_vars

\* A suppressed job is never tried again; its row goes only with the fact it
\* was for.
TerminalStays ==
    [][\A j \in Jobs :
        (rows[j] # None /\ rows[j].terminal) =>
            \/ rows'[j] # None /\ rows'[j].terminal
            \/ rows'[j] = None /\ message' # message]_vars

\* An access loss that a slice reports does not undo a recovery observed after
\* the slice began.
StaleLossIgnored ==
    [][(slice.phase = "settling" /\ dialog'.access # dialog.access /\ order' = order)
        => slice.order > dialog.order]_vars

\* What the jobs, the facts they fetch and the access they report owe to the newest
\* evidence.
JobsFollowEvidence ==
    /\ [](DeletedHasNoJob /\ NoWorkWhenLost)
    /\ NoStaleFact /\ TerminalStays /\ StaleLossIgnored

\* A request that was not dispatched costs the row it was started from nothing.
\* (hydration_queue.py, requeue_undispatched: "restore the durable attempt
\* count atomically".)
UndispatchedIsFree ==
    [][(/\ slice.phase = "settling" /\ slice.answer = "deferred" /\ slice.scoped
        /\ slice'.phase = "idle" /\ faults' = faults /\ Leased(rows, slice))
        => rows'[slice.job].attempts = slice.attempts - 1]_vars

\* Every active job is resolved, suppressed or removed, or a slice ended without
\* committing anything for it (a transient error, a changed scope, a stale answer)
\* and the coordinator excluded its revision: such a job stays where it is until its
\* message is observed anew or the process restarts.
JobEnds == \A j \in Jobs : Active(rows, j) ~> (~Active(rows, j) \/ ~Offered(j))

\* Missing work of an eligible dialog is enqueued sooner or later.
\* (FactHydrationDemandAdapter: "Missing historical jobs are observed without
\* mutation and seeded only by a backfill slice".)
MissingIsSeeded ==
    \A m \in Messages :
        (Eligible(<<"media", m>>) /\ rows[<<"media", m>>] = None)
            ~> ~Eligible(<<"media", m>>) \/ rows[<<"media", m>>] # None
=============================================================================
