---------------------------- MODULE HistorySync ----------------------------
(***************************************************************************)
(* One dialog's history: the backward walk (sync_worker.py), the forward   *)
(* gap fill, the access probe and the recovery it opens (delta_sync.py),   *)
(* the access state (access_lifecycle) and the enrollment decision         *)
(* (history_enrollment.py).  The coordinator runs one slice at a time; a   *)
(* slice reads the row, reserves an observation order, asks Telegram and   *)
(* commits, and the user, realtime updates, other observers and a crash    *)
(* come between any two of these.                                          *)
(*                                                                         *)
(* Observation orders are only compared, so they are kept as ranks.  A     *)
(* deadline is a flag that DeadlinesPass clears.                          *)
(***************************************************************************)
EXTENDS Integers, FiniteSets, FiniteSetsExt

CONSTANTS
    Private,     \* the dialog is a DM (TRUE) or a group (FALSE)
    HistoryPage, \* MESSAGE_HISTORY_PAGE_SIZE
    MaxGroup,    \* automatic_group_history.max_messages
    MaxTop,      \* bound: messages ever posted
    MaxMoves,    \* bound: times the account leaves or rejoins
    MaxUser,     \* bound: mark_dialog_for_sync calls
    MaxRefusals  \* bound: refused requests, other observers, crashes and upgrades

ASSUME HistoryAssumption ==
    /\ Private \in BOOLEAN /\ HistoryPage \in Nat \ {0}
    /\ MaxGroup \in Nat /\ MaxTop \in Nat \ {0}
    /\ MaxMoves \in Nat /\ MaxUser \in Nat /\ MaxRefusals \in Nat

VARIABLES
    srv,      \* Telegram: messages posted, membership, a removal update not delivered yet
    row,      \* synced_dialogs
    intent,   \* full_history_enrollment: unset, on, off
    stored,   \* messages
    recovery, \* delta_access_recovery_state: none, due, wait
    waits,    \* deadlines ahead: revalidation of the lost access, the group probe's retry
    ord,      \* observation orders in use, as ranks (0: none)
    active,   \* the slice in progress (memory of the process)
    demand,   \* the coordinator: the revision it selected, those it excluded (memory)
    ext,      \* another observer's request found the access lost and is not committed
    spare,    \* what is left of the bounds
    history   \* history: the user's decision, newest access evidence, messages owed

historyVars == <<srv, row, intent, stored, recovery, waits, ord, active, demand, ext, spare, history>>

Null == -1
Statuses == {"none", "not_synced", "own_only", "syncing", "synced", "access_lost"}
NoneActive == [kind |-> "none", step |-> "none", cursor |-> 0, moved |-> FALSE,
            answer |-> "none", page |-> {}, complete |-> FALSE, total |-> 0]
Enabled == intent = "on"
Lost == row.status = "access_lost"

\* The orders in use keep their order and lose their distance.
Rank(o) == [n \in DOMAIN o |->
              Cardinality({v \in {0} \cup {o[m] : m \in DOMAIN o} : v < o[n]})]
Fresh(o) == 1 + Max({o[m] : m \in DOMAIN o})

Idle == active.kind = "none"
AtStep(kinds, step) == active.kind \in kinds /\ active.step = step

\* The revision of a kind of work.  That of the walk spells its cursor and its status
\* out; for the others Revised tells when it changes.
Revision(kind) ==
    IF kind = "full" THEN <<kind, row.progress, row.status>> ELSE <<kind, 0, "none">>
NoRevision == <<"none", 0, "none">>
Revisions ==
    {"none", "full", "group", "total", "gap", "probe", "recovery"} \X (0..MaxTop) \X Statuses
NoDemand == [selected |-> NoRevision, excluded |-> {}]

\* The statuses skip the revisions that are excluded.
Offered(kind) == Revision(kind) \notin demand.excluded

\* _prune_revised_invocations forgets the older revisions of the same work.
Demanded(kind) ==
    [selected |-> Revision(kind), excluded |-> {r \in demand.excluded : r[1] # kind}]

\* A slice that committed, that retries or that waits for a gate: offered again
Offering(d) == [d EXCEPT !.selected = NoRevision]

\* NO_PROGRESS, STALE, an unclassified failure: _exclude_revision
Excluding(d) ==
    [selected |-> NoRevision, excluded |-> d.excluded \cup ({d.selected} \ {NoRevision})]

\* These kinds of work have a new revision.
Revised(d, kinds) ==
    [selected |-> IF d.selected[1] \in kinds THEN NoRevision ELSE d.selected,
     excluded |-> {r \in d.excluded : r[1] \notin kinds}]

EndActive == active' = NoneActive
Forget(o) == Rank([o EXCEPT !.slice = 0, !.selected = 0])

-----------------------------------------------------------------------------
(* Enrollment *)

\* request_delta_refresh: a new generation makes the slice in progress stale
RequestRefresh(r) == [r EXCEPT !.requested = TRUE]
Moved(s, yes) == IF s.step \in {"none", "read"} THEN s ELSE [s EXCEPT !.moved = @ \/ yes]

\* enable_history and _decide_transition
EnabledRow(r) ==
    CASE r.status = "none" -> [r EXCEPT !.status = "not_synced"]
      [] r.status \in {"not_synced", "own_only"} -> [r EXCEPT !.status = "syncing"]
      [] r.status = "synced" /\ r.topics # "complete" ->
            [r EXCEPT !.status = "syncing", !.progress = 0]
      [] r.status = "synced" -> RequestRefresh(r)
      [] OTHER -> r

\* Whether enable_history asks for a refresh
Refreshes(r) == r.status = "synced" /\ r.topics = "complete"

\* _mark_dialog_for_sync with enable
EnableHistory ==
    /\ spare.user > 0 /\ spare' = [spare EXCEPT !.user = @ - 1]
    /\ intent' = "on" /\ row' = EnabledRow(row)
    /\ active' = Moved(active, Refreshes(row))
    /\ history' = [history EXCEPT !.user = "on",
                            !.owed = IF Refreshes(row) THEN srv.top ELSE @]
    /\ demand' = IF Refreshes(row) THEN Revised(demand, {"gap"}) ELSE demand
    /\ UNCHANGED <<srv, stored, recovery, waits, ord, ext>>

\* _mark_dialog_for_sync without enable: disable_history
DisableHistory ==
    /\ spare.user > 0 /\ spare' = [spare EXCEPT !.user = @ - 1]
    /\ intent' = "off"
    /\ row' = [row EXCEPT !.status = IF @ = "syncing" THEN "not_synced" ELSE @,
                          !.requested = FALSE]
    /\ history' = [history EXCEPT !.user = "off", !.owed = 0]
    /\ UNCHANGED <<srv, stored, recovery, waits, ord, active, ext, demand>>

\* (mutant) every enrollment that is not on is decided again
UndecidedUnlessOn == intent # "on"

\* A row of full_history_enrollment is a decision, whoever made it
Undecided == intent = "unset"

\* ensure_automatic_dm_enrollment, from a publication or a private message
AutoEnrollDm ==
    /\ Private /\ Undecided /\ srv.member
    /\ intent' = "on"
    /\ LET r == EnabledRow(row) IN
         row' = IF r.status = "not_synced" THEN [r EXCEPT !.status = "syncing"] ELSE r
    /\ UNCHANGED <<srv, stored, recovery, waits, ord, active, ext, spare, history, demand>>

-----------------------------------------------------------------------------
(* Access *)

Newest(h, o, order, truth) ==
    IF order > o.last THEN [h EXCEPT !.access = truth] ELSE h

\* Trigger synced_dialogs_clear_access_recovery
RecoveryAfterLoss(accepted) == IF accepted THEN "none" ELSE recovery

\* set_access_lost: _accept_access_loss and _mark_access_lost_state.  A request newer
\* than the slice is kept.
LoseAccess(o, order, keep, probed) ==
    LET accepted == order > o.access IN
    /\ row' = IF accepted
              THEN [row EXCEPT !.status = "access_lost",
                               !.requested = @ /\ keep]
              ELSE row
    /\ recovery' = RecoveryAfterLoss(accepted)
    /\ waits' = IF accepted
                THEN [lost |-> TRUE, group |-> waits.group \/ (probed /\ ~Lost)] ELSE waits
    /\ history' = [Newest(history, o, order, "lost") EXCEPT
                  !.owed = IF accepted THEN 0 ELSE @]
    /\ ord' = Rank([o EXCEPT !.access = Max({@, order}), !.last = Max({@, order})])

\* The revision of a probe holds the order of the access state.
LossNoted(d, order) == IF order > ord.access THEN Revised(d, {"probe"}) ELSE d

\* on_raw_participant: the order is the one the update got when it was admitted
RealtimeLoss ==
    /\ srv.removal /\ srv' = [srv EXCEPT !.removal = FALSE]
    /\ LoseAccess(ord, Fresh(ord), FALSE, FALSE) /\ demand' = LossNoted(demand, Fresh(ord))
    /\ UNCHANGED <<intent, stored, active, ext, spare>>

\* Another observer (a sweep, a refresh, the scheduled queue) found the access lost ...
OtherObserves ==
    /\ ~ext /\ ~srv.member /\ spare.faults > 0
    /\ ext' = TRUE /\ spare' = [spare EXCEPT !.faults = @ - 1]
    /\ ord' = Rank([ord EXCEPT !.ext = Fresh(ord)])
    /\ UNCHANGED <<srv, row, intent, stored, recovery, waits, active, history, demand>>

\* ... and commits it later under the order it reserved.
OtherCommits ==
    /\ ext /\ ext' = FALSE
    /\ LoseAccess([ord EXCEPT !.ext = 0], ord.ext, FALSE, FALSE)
    /\ demand' = LossNoted(demand, ord.ext)
    /\ UNCHANGED <<srv, intent, stored, active, spare>>

\* restore_access_after_revalidation and restore_access_status
RestoredRow(r) ==
    [r EXCEPT !.status = IF Enabled THEN "syncing" ELSE "not_synced",
              !.requested = FALSE, !.total = TRUE]

-----------------------------------------------------------------------------
(* The slices: selection, reservation, answer *)

\* FullSyncDemandAdapter._validate_dialog
FullDue == Enabled /\ row.status \in {"syncing", "not_synced"}
\* _is_eligible_automatic_group
GroupEligible == ~Private /\ Undecided /\ row.status \notin {"access_lost", "synced"}
\* _expected_total_repair_is_ready
TotalDue == Enabled /\ ~row.total /\ row.status \notin {"none", "not_synced", "access_lost"}
\* DeltaGapFillDemandAdapter._candidate and _delta_release_at
GapDue == Enabled /\ row.status = "synced" /\ (row.delta = Null \/ row.requested \/ ~row.fresh)
\* DeltaAccessProbeDemandAdapter._selected_persisted_work
ProbeDue == Lost /\ recovery = "none" /\ ~waits.lost
RecoveryDue == Lost /\ recovery = "due"

\* A slice validates its row and keeps what it read.
Begin(kind, due, cursor) ==
    /\ Idle /\ due /\ Offered(kind) /\ demand' = Demanded(kind)
    /\ active' = [NoneActive EXCEPT !.kind = kind, !.cursor = cursor,
                                !.step = IF kind = "gap" THEN "read" ELSE "reserve"]
    /\ UNCHANGED <<srv, row, intent, stored, recovery, waits, ext, spare, history>>

BeginFull == Begin("full", FullDue, row.progress) /\ UNCHANGED ord
BeginGroup == Begin("group", GroupEligible /\ ~waits.group, 0) /\ UNCHANGED ord
BeginTotal == Begin("total", TotalDue, 0) /\ UNCHANGED ord
BeginGap ==
    /\ Begin("gap", GapDue, 0) /\ UNCHANGED ord
\* The probe's revision names the access order it saw
BeginProbe ==
    /\ Begin("probe", ProbeDue, 0)
    /\ ord' = [ord EXCEPT !.selected = ord.access]
\* _selected_recovery keeps the witness; _run_gap_fill_slice restores a disabled
\* dialog without a page
BeginRecovery ==
    /\ Idle /\ RecoveryDue /\ Offered("recovery") /\ demand' = Demanded("recovery")
    /\ active' = [NoneActive EXCEPT !.kind = "recovery", !.cursor = Max({row.delta, 0}),
                                !.step = IF Enabled THEN "reserve" ELSE "finish"]
    /\ ord' = [ord EXCEPT !.selected = ord.witness]
    /\ UNCHANGED <<srv, row, intent, stored, recovery, waits, ext, spare, history>>

\* fetch_delta_slice_for_dialog reads the cursor and the generation after the peer
\* cursor was written
ReadGap ==
    /\ AtStep({"gap"}, "read") /\ Enabled
    /\ active' = [active EXCEPT !.step = "reserve", !.cursor = Max({row.delta, 0})]
    /\ UNCHANGED <<srv, row, intent, stored, recovery, waits, ord, ext, spare, history, demand>>

\* _fetch_batch and fetch_delta_slice_for_dialog stop for a disabled dialog; prepare
\* (probe) and _expected_total_repair_is_ready look at their selection again.
Unselected == CASE active.kind = "full" -> ~Enabled
                [] active.kind = "gap" -> active.step = "read" /\ ~Enabled
                [] active.kind = "probe" -> ~ProbeDue \/ ord.access # ord.selected
                [] active.kind = "total" -> ~TotalDue
                [] OTHER -> FALSE

DropSlice ==
    /\ active.step \in {"read", "reserve"} /\ Unselected
    /\ EndActive /\ demand' = Excluding(demand) /\ ord' = Forget(ord)
    /\ UNCHANGED <<srv, row, intent, stored, recovery, waits, ext, spare, history>>

\* prepare_observation: allocate_observation_order
Reserve ==
    /\ active.step = "reserve" /\ ~Unselected
    /\ active' = [active EXCEPT !.step = "asked"]
    /\ ord' = Rank([ord EXCEPT !.slice = Fresh(ord)])
    /\ UNCHANGED <<srv, row, intent, stored, recovery, waits, ext, spare, history, demand>>

\* TelethonFullHistoryPageAdapter.fetch_page: the newest page before the cursor
Backward(cursor) ==
    LET older == {m \in 1..srv.top : cursor = 0 \/ m < cursor} IN
    {m \in older : Cardinality({n \in older : n > m}) < HistoryPage}

\* TelethonForwardGapPageAdapter.fetch_page: the oldest page after the cursor
Forward(cursor) ==
    LET newer == {m \in 1..srv.top : m > cursor} IN
    {m \in newer : Cardinality({n \in newer : n < m}) < HistoryPage}

\* _build_forward_gap_page: a slice of the history is complete only when it is empty
Completes(page) == {page = {}} \cup (IF Cardinality(page) < HistoryPage THEN {TRUE} ELSE {})

AnsweredPage ==
    /\ active.step = "asked" /\ srv.member
    /\ \E page \in CASE active.kind \in {"full", "group"} -> {Backward(active.cursor)}
                     [] active.kind \in {"gap", "recovery"} -> {Forward(active.cursor)}
                     [] OTHER -> {{}} :
         \E complete \in Completes(page) :
           active' = [active EXCEPT !.step = "commit", !.answer = "page", !.page = page,
                                  !.complete = complete, !.total = srv.top]
    /\ UNCHANGED <<srv, row, intent, stored, recovery, waits, ord, ext, spare, history, demand>>

\* MessageHistoryAccessLostError
AnsweredLost ==
    /\ active.step = "asked" /\ ~srv.member
    /\ active' = [active EXCEPT !.step = "commit", !.answer = "lost"]
    /\ UNCHANGED <<srv, row, intent, stored, recovery, waits, ord, ext, spare, history, demand>>

\* Admission, flood, timeout, an unavailable history or a revoked scope; some errors
\* of a probe or of a recovery leave a retry.  A closed gate and a retryable failure
\* are waited for; an expired admission or a spent budget excludes the revision.
Refused ==
    /\ active.step = "asked" /\ spare.faults > 0
    /\ spare' = [spare EXCEPT !.faults = @ - 1]
    /\ \/ /\ active.kind \in {"probe", "recovery"}
          /\ active' = [active EXCEPT !.step = "commit", !.answer = "failed"]
          /\ UNCHANGED <<ord, waits, demand>>
       \/ /\ waits' = [waits EXCEPT !.group = @ \/ active.kind = "group"]
          /\ EndActive /\ ord' = Forget(ord)
          /\ demand' \in {Offering(demand), Excluding(demand)}
    /\ UNCHANGED <<srv, row, intent, stored, recovery, ext, history>>

-----------------------------------------------------------------------------
(* The slices: commit *)

\* _persist_access_loss of the workers; the group probe defers its retry and the
\* recovery runs _set_access_recovery_retry next, which finds no current recovery.
\* Only the group probe retries: the walk, for one, is excluded at this cursor.
CommitLoss ==
    /\ AtStep({"full", "group", "total", "gap", "recovery"}, "commit") /\ active.answer = "lost"
    /\ EndActive
    /\ LoseAccess([ord EXCEPT !.slice = 0, !.selected = 0], ord.slice,
                  active.kind \in {"gap", "recovery"} /\ active.moved, active.kind = "group")
    /\ demand' = LossNoted(IF active.kind = "group" /\ ord.slice > ord.access
                           THEN Offering(demand) ELSE Excluding(demand), ord.slice)
    /\ UNCHANGED <<srv, intent, stored, ext, spare>>

\* _UPDATE_PROGRESS_SQL and _UPDATE_PROGRESS_DONE_SQL apply to this row only
Walkable(r) == r.status \in {"not_synced", "syncing"} /\ r.progress = active.cursor

\* (mutant) every first page sets the forward cursor
FirstPageSets(r) == TRUE

\* The first page of the walk sets the forward cursor once
NoBaseline(r) == r.delta = Null

\* _store_batch_page_locked, with _store_terminal_page_locked and
\* _store_continuation_page_locked
WalkedRow(r) ==
    LET page == active.page
        first == active.cursor = 0
        pass == IF first THEN "partial" ELSE r.topics
        next == [r EXCEPT
            !.status = IF page = {} THEN "synced" ELSE "syncing",
            !.progress = IF page = {} THEN @ ELSE Min(page),
            !.depth = @ \/ page = {},
            !.fresh = IF page = {} /\ ~r.checked THEN TRUE ELSE @,
            !.topics = IF page = {} /\ pass = "partial" THEN "complete" ELSE pass,
            !.total = @ \/ first]
    IN  IF first /\ NoBaseline(next)
        THEN [next EXCEPT !.delta = IF page = {} THEN 0 ELSE Max(page)] ELSE next

CommitFull ==
    /\ AtStep({"full"}, "commit") /\ active.answer = "page"
    /\ IF Enabled /\ Walkable(row)
       THEN /\ row' = WalkedRow(row) /\ stored' = stored \cup active.page
            /\ demand' = Offering(demand)
       ELSE demand' = Excluding(demand) /\ UNCHANGED <<row, stored>>
    /\ EndActive /\ ord' = Forget(ord)
    /\ UNCHANGED <<srv, intent, recovery, waits, ext, spare, history>>

\* record_automatic_group_decision for an undecided dialog
GroupRow(r, accepted) ==
    CASE accepted /\ r.status \in {"none", "own_only"} ->
           [r EXCEPT !.status = "syncing", !.progress = 0]
      [] ~accepted /\ r.status = "none" -> [r EXCEPT !.status = "not_synced", !.total = TRUE]
      [] ~accepted -> [r EXCEPT !.total = TRUE]
      [] OTHER -> r

\* _finalize_automatic_group_page: a decision made meanwhile is kept
CommitGroup ==
    /\ AtStep({"group"}, "commit") /\ active.answer = "page"
    /\ LET decided == ~Undecided
           accepted == active.total <= MaxGroup
           on == IF decided THEN Enabled ELSE GroupEligible /\ accepted
           start == IF decided
                    THEN IF Enabled /\ row.status = "own_only"
                         THEN [row EXCEPT !.status = "syncing", !.progress = 0] ELSE row
                    ELSE IF GroupEligible THEN GroupRow(row, accepted) ELSE row
       IN /\ intent' = IF decided \/ ~GroupEligible THEN intent
                       ELSE IF accepted THEN "on" ELSE "off"
          /\ IF on /\ Walkable(start)
             THEN row' = WalkedRow(start) /\ stored' = stored \cup active.page
             ELSE row' = start /\ UNCHANGED stored
    /\ EndActive /\ demand' = Excluding(demand) /\ ord' = Forget(ord)
    /\ UNCHANGED <<srv, recovery, waits, ext, spare, history>>

\* _publish_total_probe: _UPDATE_TOTAL_MESSAGES_SQL
CommitTotal ==
    /\ AtStep({"total"}, "commit") /\ active.answer = "page"
    /\ row' = [row EXCEPT !.total = @ \/ TotalDue]
    /\ demand' = IF TotalDue THEN Offering(demand) ELSE Excluding(demand)
    /\ EndActive /\ ord' = Forget(ord)
    /\ UNCHANGED <<srv, intent, stored, recovery, waits, ext, spare, history>>

\* _recovery_is_current
RecoveryCurrent ==
    recovery # "none" /\ ord.witness = ord.selected /\ ord.access = ord.witness

\* (mutant) a full page is the last one
ContinuesPastFull == Cardinality(active.page) > HistoryPage

\* continuation_required of _commit_delta_slice
Continues == ~active.complete \/ Cardinality(active.page) = HistoryPage

\* (mutant) the cursor moves past the page
FilledTooFar(r) ==
    [r EXCEPT !.delta = 1 + Max({@, 0} \cup active.page), !.requested = Continues,
              !.fresh = ~Continues, !.checked = ~Continues]

\* _commit_delta_transaction, _persist_delta_continuation and _stamp_delta_checkpoint
FilledRow(r) ==
    LET top == Max({r.delta, 0} \cup active.page)
    IN  IF Continues THEN [r EXCEPT !.delta = top, !.requested = TRUE]
        ELSE [r EXCEPT !.delta = top, !.fresh = TRUE, !.checked = TRUE,
                       !.requested = FALSE]

\* (mutant) the generation is not compared
FillableWhenEnabled == Enabled

\* _delta_selection_is_current and full_history_enabled
Fillable == ~active.moved /\ Enabled

CommitGap ==
    /\ AtStep({"gap"}, "commit") /\ active.answer = "page"
    /\ IF Fillable
       THEN /\ row' = FilledRow(row) /\ stored' = stored \cup active.page
            /\ history' = [history EXCEPT !.owed = IF Continues THEN @ ELSE 0]
            /\ demand' = Offering(demand)
       ELSE demand' = Excluding(demand) /\ UNCHANGED <<row, stored, history>>
    /\ EndActive /\ ord' = Forget(ord)
    /\ UNCHANGED <<srv, intent, recovery, waits, ext, spare>>

\* The same transaction under a recovery: record_access_recovery_observation first
RecoverablePage == Fillable /\ RecoveryCurrent /\ ord.slice > ord.access

CommitRecoveryPage ==
    /\ AtStep({"recovery"}, "commit") /\ active.answer = "page"
    /\ IF RecoverablePage
       THEN /\ row' = FilledRow(row) /\ stored' = stored \cup active.page
            /\ history' = Newest(history, ord, ord.slice, "member")
            /\ ord' = Rank([ord EXCEPT !.access = ord.slice, !.witness = ord.slice,
                            !.selected = ord.slice, !.last = Max({@, ord.slice})])
            /\ active' = [active EXCEPT !.step = IF Continues THEN "more" ELSE "finish"]
            /\ demand' = Revised(demand, {"gap", "probe", "recovery"})
       ELSE /\ active' = [active EXCEPT !.step = "later"]
            /\ UNCHANGED <<row, stored, ord, history, demand>>
    /\ UNCHANGED <<srv, intent, recovery, waits, ext, spare>>

RecoveryRefused ==
    /\ AtStep({"recovery"}, "commit") /\ active.answer = "failed"
    /\ active' = [active EXCEPT !.step = "later"]
    /\ UNCHANGED <<srv, row, intent, stored, recovery, waits, ord, ext, spare, history, demand>>

\* _set_access_recovery_retry: no successor is returned with a retry
StampRecovery ==
    /\ AtStep({"recovery"}, active.step) /\ active.step \in {"more", "later"}
    /\ recovery' = IF ~RecoveryCurrent THEN recovery
                   ELSE IF active.step = "later" THEN "wait" ELSE "due"
    /\ demand' = IF active.step = "later" THEN Excluding(demand) ELSE Offering(demand)
    /\ EndActive /\ ord' = Forget(ord)
    /\ UNCHANGED <<srv, row, intent, stored, waits, ext, spare, history>>

\* _finish_durable_access_recovery
FinishRecovery ==
    /\ AtStep({"recovery"}, "finish")
    /\ IF RecoveryCurrent
       THEN row' = RestoredRow(row) /\ recovery' = "none"
            /\ waits' = [waits EXCEPT !.lost = FALSE]
       ELSE UNCHANGED <<row, recovery, waits>>
    /\ demand' = Excluding(demand)
    /\ EndActive /\ ord' = Forget(ord)
    /\ UNCHANGED <<srv, intent, stored, ext, spare, history>>

\* (mutant) the probe's order is not compared
WitnessedByAny == Lost

\* record_access_witness and restore_access_after_revalidation: claim_dialog_fact
Witnessed == Lost /\ ord.slice > ord.access

\* _persist_probe_success
CommitProbe ==
    /\ AtStep({"probe"}, "commit") /\ active.answer = "page"
    /\ IF Witnessed
       THEN /\ history' = [Newest(history, ord, ord.slice, "member") EXCEPT !.probed = active.total]
            /\ ord' = Forget([ord EXCEPT !.access = ord.slice, !.witness = ord.slice,
                              !.last = Max({@, ord.slice})])
            /\ waits' = [waits EXCEPT !.lost = FALSE]
            /\ demand' = Revised(Offering(demand), {"probe", "recovery"})
            /\ IF Enabled THEN recovery' = "due" /\ UNCHANGED row
               ELSE row' = RestoredRow(row) /\ UNCHANGED recovery
       ELSE /\ ord' = Forget(ord) /\ demand' = Excluding(demand)
            /\ UNCHANGED <<row, recovery, waits, history>>
    /\ EndActive
    /\ UNCHANGED <<srv, intent, stored, ext, spare>>

\* _handle_probe_error: the stamp keeps the later of the two deadlines.  The slice
\* returns NO_PROGRESS, so the revision of the probe waits for a new access order all
\* the same.
CommitProbeError ==
    /\ AtStep({"probe"}, "commit") /\ active.answer \in {"lost", "failed"}
    /\ waits' = [waits EXCEPT !.lost = @ \/ (Lost /\ ord.slice > ord.access)]
    /\ demand' = Excluding(demand)
    /\ EndActive /\ ord' = Forget(ord)
    /\ UNCHANGED <<srv, row, intent, stored, recovery, ext, spare, history>>

-----------------------------------------------------------------------------
(* The environment *)

\* A new message; a connected client may hear of it (realtime_history_coverage)
Post ==
    /\ srv.top < MaxTop /\ srv' = [srv EXCEPT !.top = @ + 1]
    /\ \E heard \in BOOLEAN :
         /\ heard => srv.member /\ Enabled /\ row.status \in {"synced", "syncing"}
         /\ stored' = IF heard THEN stored \cup {srv.top + 1} ELSE stored
    /\ UNCHANGED <<row, intent, recovery, waits, ord, active, ext, spare, history, demand>>

Leave ==
    /\ srv.member /\ spare.moves > 0 /\ spare' = [spare EXCEPT !.moves = @ - 1]
    /\ \E told \in {FALSE, ~Private} : srv' = [srv EXCEPT !.member = FALSE, !.removal = told]
    /\ UNCHANGED <<row, intent, stored, recovery, waits, ord, active, ext, history, demand>>

Rejoin ==
    /\ ~srv.member /\ srv' = [srv EXCEPT !.member = TRUE]
    /\ UNCHANGED <<row, intent, stored, recovery, waits, ord, active, ext, spare, history, demand>>

DeadlinesPass ==
    /\ waits.lost \/ waits.group \/ recovery = "wait" \/ row.fresh
    /\ waits' = [lost |-> FALSE, group |-> FALSE]
    /\ recovery' = IF recovery = "wait" THEN "due" ELSE recovery
    /\ row' = [row EXCEPT !.fresh = FALSE]
    /\ UNCHANGED <<srv, intent, stored, ord, active, ext, spare, history, demand>>

\* The process stops; the next one offers everything again and may extract topics anew
ProcessStops ==
    /\ spare.faults > 0 /\ spare' = [spare EXCEPT !.faults = @ - 1]
    /\ \E upgraded \in BOOLEAN :
         /\ upgraded \/ ~Idle \/ ext \/ demand.excluded # {}
         /\ row' = IF upgraded THEN [row EXCEPT !.topics = "old"] ELSE row
    /\ EndActive /\ demand' = NoDemand /\ ext' = FALSE /\ ord' = Forget([ord EXCEPT !.ext = 0])
    /\ UNCHANGED <<srv, intent, stored, recovery, waits, history>>

-----------------------------------------------------------------------------

HistoryInit ==
    /\ srv = [top |-> 1, member |-> TRUE, removal |-> FALSE]
    /\ \E s \in {"none", "own_only"} :
         row = [status |-> s, progress |-> 0, delta |-> Null, requested |-> FALSE,
                fresh |-> FALSE, checked |-> FALSE, depth |-> FALSE, topics |-> "old",
                total |-> FALSE]
    /\ intent = "unset" /\ stored = {} /\ recovery = "none"
    /\ waits = [lost |-> FALSE, group |-> FALSE]
    /\ ord = [access |-> 0, witness |-> 0, slice |-> 0, selected |-> 0, ext |-> 0, last |-> 0]
    /\ active = NoneActive /\ demand = NoDemand /\ ext = FALSE
    /\ spare = [moves |-> MaxMoves, user |-> MaxUser, faults |-> MaxRefusals]
    /\ history = [user |-> "unset", access |-> "member", owed |-> 0, probed |-> 0]

Work ==
    \/ BeginFull \/ BeginGroup \/ BeginTotal \/ BeginGap \/ BeginProbe \/ BeginRecovery
    \/ ReadGap \/ DropSlice \/ Reserve \/ AnsweredPage \/ AnsweredLost
    \/ CommitLoss \/ CommitFull \/ CommitGroup \/ CommitTotal \/ CommitGap
    \/ CommitRecoveryPage \/ RecoveryRefused \/ StampRecovery \/ FinishRecovery
    \/ CommitProbe \/ CommitProbeError

Environment ==
    \/ EnableHistory \/ DisableHistory \/ AutoEnrollDm
    \/ RealtimeLoss \/ OtherObserves \/ OtherCommits \/ Refused
    \/ Post \/ Leave \/ Rejoin \/ DeadlinesPass \/ ProcessStops

HistoryNext == Work \/ Environment
HistorySpec == HistoryInit /\ [][HistoryNext]_historyVars

\* The coordinator starts every kind of slice that stays ready, a running slice goes
\* on, updates are delivered and time passes.
HistoryFairness ==
    /\ SF_historyVars(BeginFull) /\ SF_historyVars(BeginGap)
    /\ SF_historyVars(BeginProbe) /\ SF_historyVars(BeginRecovery)
    /\ WF_historyVars(ReadGap \/ DropSlice \/ Reserve \/ AnsweredPage \/ AnsweredLost)
    /\ WF_historyVars(CommitLoss \/ CommitFull \/ CommitGroup \/ CommitTotal \/ CommitGap
               \/ CommitRecoveryPage \/ RecoveryRefused \/ StampRecovery \/ FinishRecovery
               \/ CommitProbe \/ CommitProbeError)
    /\ WF_historyVars(RealtimeLoss) /\ WF_historyVars(OtherCommits) /\ WF_historyVars(DeadlinesPass)

FairHistorySpec == HistorySpec /\ HistoryFairness

-----------------------------------------------------------------------------
(* Properties *)

\* The rows and the slice in their sets, the orders of an observation each a number.
HistoryTypeOK ==
    /\ srv \in [top : 1..MaxTop, member : BOOLEAN, removal : BOOLEAN]
    /\ row \in [status : Statuses, progress : 0..MaxTop, delta : -1..MaxTop,
                requested : BOOLEAN, fresh : BOOLEAN, checked : BOOLEAN, depth : BOOLEAN,
                topics : {"old", "partial", "complete"}, total : BOOLEAN]
    /\ intent \in {"unset", "on", "off"} /\ stored \subseteq 1..srv.top
    /\ recovery \in {"none", "due", "wait"} /\ ext \in BOOLEAN
    /\ waits \in [lost : BOOLEAN, group : BOOLEAN]
    /\ ord \in [{"access", "witness", "slice", "selected", "ext", "last"} -> Nat]
    /\ active \in [kind : {"none", "full", "group", "total", "gap", "probe", "recovery"},
                   step : {"none", "read", "reserve", "asked", "commit", "more", "later", "finish"},
                   cursor : 0..MaxTop, moved : BOOLEAN,
                   answer : {"none", "page", "lost", "failed"}, page : SUBSET (1..srv.top),
                   complete : BOOLEAN, total : 0..srv.top]
    /\ demand \in [selected : Revisions, excluded : SUBSET Revisions]
    /\ spare \in [moves : 0..MaxMoves, user : 0..MaxUser, faults : 0..MaxRefusals]
    /\ history \in [user : {"unset", "on", "off"}, access : {"member", "lost"},
                    owed : 0..srv.top, probed : 0..srv.top]

\* What the walk went over between its cursor and the forward cursor is stored, over
\* every pass, upgrade, disabled spell and recovery: the two cursors meet and no
\* message is jumped over.
Walked(r) == {m \in 1..Max({r.delta, 0}) : r.depth \/ (r.progress > 0 /\ m >= r.progress)}
WalkHasNoGap == Walked(row) \subseteq stored

\* A refresh the user asked for counts as done only when every message posted before
\* the request is stored (delta_refresh_generation).
RefreshServed ==
    [][row.requested /\ ~row'.requested /\ row'.status = "synced" /\ intent' = "on"
         => 1..history.owed \subseteq stored']_historyVars

\* The newest committed observation decides the access, in whatever order the
\* observers commit (claim_dialog_fact): a loss is never undone by older evidence ...
LossStands == history.access = "lost" => Lost
\* ... and access returns only while the newest evidence says so.
RestoredOnEvidence ==
    [][Lost /\ row'.status # "access_lost" => history'.access = "member"]_historyVars

\* A recovered dialog comes back with every message of the probe's time in the part of
\* the history that was walked, across its pages, retries, crashes and new losses.
\* The restoration of a disabled dialog fetches nothing.
WhollyRestored ==
    Lost /\ row'.status = "syncing" /\ active.answer = "page"
      => {m \in 1..history.probed : row.depth \/ (row.progress > 0 /\ m >= row.progress)}
           \subseteq stored'
RestoredWhole == [][WhollyRestored]_historyVars

\* No automatic enrollment, not even one whose page was on its way, overrides the user.
UserDecides == history.user # "unset" => intent = history.user

\* Access is lost and regained on evidence newer than its row, the dialog comes back with
\* all the messages of the probe, and the user's decision stands.
AccessOnEvidence ==
    /\ [](LossStands /\ UserDecides)
    /\ RestoredOnEvidence
    /\ RestoredWhole

\* Work is due that the coordinator does not offer, because a slice of the same revision
\* committed nothing: a page whose dialog was lost, a probe that failed, a recovery that
\* was refused.  It is offered again when its revision changes or the process restarts.
Withheld ==
    \/ FullDue /\ ~Offered("full")
    \/ GapDue /\ ~Offered("gap")
    \/ ProbeDue /\ ~Offered("probe")
    \/ RecoveryDue /\ ~Offered("recovery")

\* An enrolled dialog that stays accessible is synced with everything posted, whatever
\* losses, restorations and interruptions came before, as long as its work is offered.
CaughtUp == row.status = "synced" /\ 1..srv.top \subseteq stored
EventuallyCaughtUp == <>[](Enabled /\ srv.member) => []<>(CaughtUp \/ Withheld)

=============================================================================
