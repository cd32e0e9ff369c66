--------------------------- MODULE ScheduledQueue ---------------------------
(***************************************************************************)
(* The scheduled queue of one dialog: its local mirror                     *)
(* (scheduled_messages.py, scheduled_state.py), the commands that change   *)
(* the queue of Telegram (scheduled_commands.py) and the fence between the *)
(* two (scheduled_write_fence.py and its checks in the gate).              *)
(*                                                                         *)
(* Telegram's queue is the variable server: other clients change it, and   *)
(* updates about that arrive later, or never.  A command reads the mirror, *)
(* stores a receipt, waits for the gate and is sent; every other writer    *)
(* may commit between any two of its steps.                                *)
(*                                                                         *)
(* Texts, times and topics of a message are one number, its revision.  A   *)
(* request whose answer is lost was either handled before or never.        *)
(***************************************************************************)
EXTENDS Integers, Sequences

CONSTANTS
    Messages,
    OperationKeys,        \* operation keys
    QueueChanges,  \* bound: changes by other clients
    QueueFaults,   \* bound: crashes, failures, lost updates, permission changes
    Unset

ScheduledAssumption ==
    QueueChanges \in Nat /\ QueueFaults \in Nat /\ Unset \notin Messages

VARIABLES
    server,    \* Telegram's queue
    updates,   \* updates on their way, in the order they will be applied
    lost,      \* updates were lost and Telegram will say so
    rows,      \* scheduled_messages
    evidence,  \* scheduled_publication_evidence
    recon,     \* scheduled_reconciliation_state and the access of the dialog
    attempt,   \* the snapshot that the reconciler is taking
    parked,    \* the generation whose revision the coordinator excluded (memory)
    operation, \* the command that holds the lock of the dialog
    receipts,  \* scheduled_operation_receipts
    order,     \* allocate_observation_order
    boot,      \* _bind_scheduled_commands
    sends,     \* history: requests on the wire per operation key
    doubt,     \* history: a write that nothing will show (see CompleteIsTrue)
    changes, faults

mirror == <<rows, evidence, recon>>
queueVars == <<server, updates, lost, mirror, attempt, parked, operation, receipts, order, boot,
               sends, doubt, changes, faults>>

CommandActions == {"create", "update", "cancel"}
NoCommand == [phase |-> "idle", key |-> Unset, action |-> "create", message |-> Unset,
              version |-> 0, order |-> 0, permit |-> "none", reply |-> "none", result |-> "none",
              sent |-> FALSE, confirmed |-> FALSE]
NoAttempt == [phase |-> "idle", generation |-> 0, discovery |-> TRUE, order |-> 0,
              repair |-> "none", due |-> "none", snapshot |-> [m \in {} |-> 0]]
NoReceipt == [outcome |-> "none", order |-> 0]
AbsentRow == [state |-> "absent", order |-> 0, rev |-> 0, hint |-> FALSE]

Newer(a, b) == IF a > b THEN a ELSE b

Fault == faults < QueueFaults /\ faults' = faults + 1

\* _scheduled_available_sql
Available == recon.access /\ ~recon.blocked

-----------------------------------------------------------------------------
(* The fence: the permit of the command in the gate *)

\* (mutant) a permit outlives what it was given for
RevokeNothing(c, m) == c

\* invalidate_message: the permit of a create names no message
RevokeMessage(c, m) ==
    IF c.permit = "valid" /\ c.message = m THEN [c EXCEPT !.permit = "revoked"] ELSE c

\* invalidate_dialog, invalidate_account
RevokeDialog(c) ==
    IF c.permit = "valid" THEN [c EXCEPT !.permit = "revoked"] ELSE c

-----------------------------------------------------------------------------
(* What an observation does to the mirror.  M is a record of the rows, the   *)
(* evidence, the reconciliation state and the command that holds a permit.   *)

Mirror == [rows |-> rows, evidence |-> evidence, recon |-> recon, operation |-> operation]

Becomes(M) ==
    rows' = M.rows /\ evidence' = M.evidence /\ recon' = M.recon /\ operation' = M.operation

\* (mutant) observations are applied as they come
AlwaysCurrent(M, m, o) == M.rows[m].state # "published"

\* (mutant) only the row of the message is compared
CurrentRow(M, m, o) == M.rows[m].state # "published" /\ o > M.rows[m].order

\* _scheduled_observation_current
ObservationCurrent(M, m, o) ==
    M.rows[m].state # "published" /\ o > Newer(M.rows[m].order, M.recon.snapshot)

\* (mutant) an event after a terminal coverage asks for no evidence
DirtyQuietly(r) ==
    [r EXCEPT !.generation = @ + 1, !.failing = FALSE,
              !.discovery = IF r.coverage = "unseeded" THEN "now" ELSE @,
              !.coverage = IF @ = "complete" THEN "complete" ELSE "unknown"]

\* _mark_scheduled_dialog_dirty, on the row of the dialog
Dirty(r) ==
    LET unseeded == r.coverage = "unseeded"
        failed == r.failing
    IN  [r EXCEPT !.generation = @ + 1, !.failing = FALSE,
                  !.repair = IF failed /\ @ # "none" THEN "now" ELSE @,
                  !.discovery = IF unseeded \/ (failed /\ r.repair = "none")
                                   \/ (r.coverage \in {"unknown", "unsupported"} /\ @ = "none")
                                THEN "now" ELSE @,
                  !.coverage = IF @ = "complete" THEN "complete" ELSE "unknown"]

MarkDirty(M) ==
    [M EXCEPT !.recon = Dirty(@),
              !.operation = IF M.recon.coverage \in {"unseeded", "unsupported"} THEN RevokeDialog(@)
                            ELSE @]

\* upsert_scheduled_message, with the events that mark the dialog
Upsert(M, m, rev, o) ==
    IF ~ObservationCurrent(M, m, o) THEN M
    ELSE MarkDirty([M EXCEPT !.rows[m] = [state |-> "scheduled", order |-> o, rev |-> rev,
                                          hint |-> FALSE],
                             !.operation = RevokeMessage(@, m)])

\* _reconcile_scheduled_publication
Reconciled(M, m) ==
    IF m \in M.evidence /\ M.rows[m].hint /\ M.rows[m].state = "unknown_missing"
    THEN MarkDirty([M EXCEPT !.rows[m].state = "published", !.operation = RevokeMessage(@, m)])
    ELSE M

\* mark_scheduled_messages_removed
Removed(M, m, hint, o) ==
    LET gone == [M EXCEPT !.rows[m] = [M.rows[m] EXCEPT
                             !.state = IF hint THEN "unknown_missing" ELSE "cancelled",
                             !.hint = @ \/ hint],
                          !.operation = RevokeMessage(@, m)]
        settled == IF hint THEN Reconciled(gone, m) ELSE gone
    IN  IF ~ObservationCurrent(M, m, o) THEN M
        ELSE MarkDirty([settled EXCEPT !.rows[m] = [@ EXCEPT !.order = o]])

\* verify_scheduled_publication
Verified(M, m) == Reconciled([M EXCEPT !.evidence = @ \cup {m}], m)

\* (mutant) the snapshot is asked for only where one is already due
ContinuityNoted(M) ==
    [M EXCEPT !.operation = RevokeDialog(@),
              !.recon = [M.recon EXCEPT !.generation = @ + 1, !.coverage = "unknown",
                                      !.failing = FALSE]]

\* invalidate_continuity
ContinuityLost(M) ==
    [M EXCEPT !.operation = RevokeDialog(@),
              !.recon = [M.recon EXCEPT
                  !.discovery = IF M.recon.coverage \in {"complete", "unseeded"} \/ @ = "none"
                                THEN "now" ELSE @,
                  !.generation = @ + 1, !.coverage = "unknown", !.failing = FALSE]]

-----------------------------------------------------------------------------
(* Telegram *)

Push(us) == updates' = updates \o us

Update(kind, m, rev) == [kind |-> kind, message |-> m, rev |-> rev, order |-> 0]

OtherClient ==
    /\ changes < QueueChanges /\ changes' = changes + 1
    /\ \E m \in Messages :
         \/ /\ server[m].state \in {"absent", "scheduled"}
            /\ server' = [server EXCEPT ![m] = [state |-> "scheduled", rev |-> @.rev + 1]]
            /\ Push(<<Update("new", m, server[m].rev + 1)>>)
         \/ /\ server[m].state = "scheduled"
            /\ server' = [server EXCEPT ![m].state = "cancelled"]
            /\ Push(<<Update("cancelled", m, 0)>>)
         \/ /\ server[m].state = "scheduled"
            /\ server' = [server EXCEPT ![m].state = "published"]
            /\ \/ Push(<<Update("published", m, 0), Update("sent", m, 0)>>)
               \/ Push(<<Update("sent", m, 0), Update("published", m, 0)>>)
    /\ UNCHANGED <<lost, mirror, attempt, operation, receipts, order, boot, sends, doubt,
                   faults, parked>>

\* The order of an update is reserved when it is admitted, before it is applied.
Admit ==
    /\ boot = "running"
    /\ \E i \in 1..Len(updates) :
         /\ updates[i].order = 0 /\ \A j \in 1..(i - 1) : updates[j].order > 0
         /\ order' = order + 1
         /\ updates' = [updates EXCEPT ![i].order = order']
    /\ UNCHANGED <<server, lost, mirror, attempt, operation, receipts, boot, sends, doubt,
                   changes, faults, parked>>

\* on_raw_new_scheduled_message, on_raw_delete_scheduled_messages and the
\* publication check of on_new_message, each one transaction
DeliverUpdate ==
    /\ boot = "running" /\ updates # <<>> /\ Head(updates).order > 0
    /\ LET u == Head(updates)
       IN  Becomes(CASE u.kind = "new" -> Upsert(Mirror, u.message, u.rev, u.order)
                     [] u.kind = "sent" -> Verified(Mirror, u.message)
                     [] OTHER -> Removed(Mirror, u.message, u.kind = "published", u.order))
    /\ updates' = Tail(updates)
    /\ UNCHANGED <<server, lost, attempt, receipts, order, boot, sends, doubt, changes,
                   faults, parked>>

\* What the account missed is too long for a difference.
UpdatesLost ==
    /\ Fault /\ updates # <<>> /\ updates' = <<>> /\ lost' = TRUE
    /\ UNCHANGED <<server, mirror, attempt, operation, receipts, order, boot, sends, doubt,
                   changes, parked>>

\* _recover_scheduled_difference_gap
GapReported ==
    /\ boot = "running" /\ lost /\ lost' = FALSE
    /\ Becomes(ContinuityLost(Mirror))
    /\ UNCHANGED <<server, updates, attempt, receipts, order, boot, sends, doubt, changes,
                   faults, parked>>

-----------------------------------------------------------------------------
(* Access and permission *)

\* invalidate_scheduled_access_loss, in the transaction of set_access_lost
AccessLost(M) ==
    [M EXCEPT !.operation = RevokeDialog(@),
              !.recon = IF M.recon.coverage = "unseeded" THEN [M.recon EXCEPT !.access = FALSE]
                        ELSE [M.recon EXCEPT !.access = FALSE, !.generation = @ + 1,
                                             !.authorization = TRUE,
                                             !.discovery = IF @ = "none" THEN "now" ELSE @]]

Kicked ==
    /\ Fault /\ recon.access /\ Becomes(AccessLost(Mirror))
    /\ UNCHANGED <<server, updates, lost, attempt, receipts, order, boot, sends, doubt,
                   changes, parked>>

Readmitted ==
    /\ ~recon.access /\ recon' = [recon EXCEPT !.access = TRUE]
    /\ UNCHANGED <<server, updates, lost, rows, evidence, attempt, operation, receipts,
                   order, boot, sends, doubt, changes, faults, parked>>

\* apply_scheduled_permission, for a signature that differs from the stored one
PermissionPublished ==
    /\ boot = "running" /\ Fault
    /\ \E denied \in BOOLEAN :
         Becomes([Mirror EXCEPT
            !.operation = RevokeDialog(@),
            !.recon = IF recon.coverage = "unseeded"
                      THEN [recon EXCEPT !.coverage = "unknown", !.discovery = "now",
                                         !.blocked = denied]
                      ELSE [recon EXCEPT
                               !.blocked = denied, !.authorization = TRUE,
                               !.generation = @ + 1, !.failing = FALSE,
                               !.repair = IF recon.failing /\ @ # "none" THEN "now" ELSE @,
                               !.discovery =
                                   IF (recon.failing /\ recon.repair = "none") \/ @ = "none"
                                   THEN "now" ELSE @]])
    /\ UNCHANGED <<server, updates, lost, attempt, receipts, order, boot, sends, doubt,
                   changes, parked>>

-----------------------------------------------------------------------------
(* ScheduledMessageReconciler *)

\* _seed_selected_candidates
Seed ==
    /\ boot = "running" /\ recon.coverage = "unseeded"
    /\ recon' = [recon EXCEPT !.coverage = "unknown", !.discovery = "now"]
    /\ UNCHANGED <<server, updates, lost, rows, evidence, attempt, operation, receipts,
                   order, boot, sends, doubt, changes, faults, parked>>

\* What is due, repair before discovery: _due_rows and the adapters
CaptureDue(discovery) ==
    /\ Available
    /\ IF discovery THEN recon.repair = "none" /\ recon.discovery = "now" ELSE recon.repair = "now"

\* The statuses skip an excluded revision.  A revision also names the kind and the order
\* of the last snapshot: while something is due, they change with the generation only.
Offered == parked # recon.generation

\* NO_PROGRESS, STALE: _exclude_revision
Parks == parked' = attempt.generation

\* _candidate_ids: a peer with rows that may be in the queue stays a candidate.
MayBeUnknown == \A m \in Messages : rows[m].state \notin {"scheduled", "unknown_missing"}

\* _prepare_discovery: the directory no longer has the peer
Excluding ==
    /\ boot = "running" /\ attempt.phase = "idle" /\ Offered /\ CaptureDue(TRUE) /\ MayBeUnknown
    /\ Fault
    /\ attempt' = [NoAttempt EXCEPT !.phase = "excluding", !.generation = recon.generation]
    /\ UNCHANGED <<server, updates, lost, mirror, operation, receipts, order, boot, sends,
                   doubt, changes, parked>>

\* _prepare_discovery: the eligibility of the peer is not learnt, so nothing is done; a
\* request that was deferred waits for its gate instead.
Undiscovered ==
    /\ boot = "running" /\ attempt.phase = "idle" /\ Offered /\ CaptureDue(TRUE)
    /\ Fault /\ parked' = recon.generation
    /\ UNCHANGED <<server, updates, lost, mirror, attempt, operation, receipts, order, boot,
                   sends, doubt, changes>>

\* _finish_excluded_discovery: an active message keeps the discovery going.
FinishExcluded ==
    /\ attempt.phase = "excluding"
    /\ IF \E m \in Messages : rows[m].state = "scheduled"
       THEN /\ attempt' = [attempt EXCEPT !.phase = "selected"]
            /\ UNCHANGED <<mirror, operation, parked>>
       ELSE /\ Becomes([Mirror EXCEPT !.operation = RevokeDialog(@),
                           !.recon = [@ EXCEPT !.repair = "none", !.discovery = "none",
                                               !.coverage = "unsupported", !.failing = FALSE]])
            /\ attempt' = NoAttempt /\ Parks
    /\ UNCHANGED <<server, updates, lost, receipts, order, boot, sends, doubt, changes, faults>>

\* capture in _process_due_dialog: the order is reserved before the request
Capture(a) ==
    /\ order' = order + 1
    /\ attempt' = [a EXCEPT !.phase = "away", !.order = order', !.repair = recon.repair,
                           !.due = recon.discovery]

\* _run_selected_demand; a selection that is stale at the capture is no attempt.
Select ==
    /\ boot = "running" /\ attempt.phase = "idle" /\ Offered
    /\ CaptureDue(recon.repair = "none")
    /\ Capture([NoAttempt EXCEPT !.generation = recon.generation,
                                  !.discovery = recon.repair = "none"])
    /\ UNCHANGED <<server, updates, lost, mirror, operation, receipts, boot, sends, doubt,
                   changes, faults, parked>>

\* The discovery that was kept, with the generation of its selection
CaptureKept ==
    /\ attempt.phase = "selected"
    /\ IF recon.generation = attempt.generation /\ CaptureDue(TRUE)
       THEN Capture(attempt) /\ UNCHANGED parked
       ELSE attempt' = NoAttempt /\ Parks /\ UNCHANGED order
    /\ UNCHANGED <<server, updates, lost, mirror, operation, receipts, boot, sends, doubt,
                   changes, faults>>

\* Telegram reads its queue.
Read ==
    /\ attempt.phase = "away"
    /\ attempt' = [attempt EXCEPT !.phase = "answered",
                      !.snapshot = [m \in {x \in Messages : server[x].state = "scheduled"} |->
                                       server[m].rev]]
    /\ UNCHANGED <<server, updates, lost, mirror, operation, receipts, order, boot, sends,
                   doubt, changes, faults, parked>>

\* (mutant) the generation is compared before the request only
SnapshotOrdered == attempt.order > recon.snapshot

\* The fence of _apply_snapshot, inside its transaction
SnapshotCurrent ==
    Available /\ recon.generation = attempt.generation /\ attempt.order > recon.snapshot

\* _apply_snapshot: the messages of the snapshot and the active ones it lacks
ApplySnapshot ==
    LET S == attempt.snapshot
        row(m) == IF ~ObservationCurrent(Mirror, m, attempt.order) THEN rows[m]
                  ELSE IF m \in DOMAIN S
                  THEN [state |-> "scheduled", order |-> attempt.order, rev |-> S[m], hint |-> FALSE]
                  ELSE IF rows[m].state = "scheduled"
                  THEN [rows[m] EXCEPT !.state = "unknown_missing", !.order = attempt.order]
                  ELSE rows[m]
    IN  /\ attempt.phase = "answered" /\ attempt' = NoAttempt
        /\ IF ~SnapshotCurrent THEN Parks /\ UNCHANGED <<mirror, operation>>
           ELSE /\ UNCHANGED parked
                /\ Becomes([Mirror EXCEPT
                      !.operation = RevokeDialog(@),
                      !.rows = [m \in Messages |-> row(m)],
                      !.recon = [@ EXCEPT !.repair = "none", !.discovery = "none",
                                          !.coverage = "complete", !.failing = FALSE,
                                          !.authorization = FALSE, !.snapshot = attempt.order]])
        /\ UNCHANGED <<server, updates, lost, receipts, order, boot, sends, doubt, changes,
                       faults>>

\* _attempt_current
AttemptCurrent ==
    /\ SnapshotCurrent
    /\ recon.repair = attempt.repair /\ recon.discovery = attempt.due

\* _mark_inaccessible, _block_admin_required, _record_snapshot_failure and
\* _record_incomplete_snapshot.  A throttled request changes nothing and is offered again;
\* a deferred or a stale one changes nothing, and a stale one is parked.
SnapshotFailed ==
    /\ attempt.phase = "away" /\ Fault /\ attempt' = NoAttempt
    /\ \/ AttemptCurrent /\ Becomes(AccessLost(Mirror)) /\ UNCHANGED parked
       \/ /\ AttemptCurrent /\ UNCHANGED parked
          /\ Becomes([Mirror EXCEPT !.operation = RevokeDialog(@),
                          !.recon = [recon EXCEPT !.blocked = TRUE, !.failing = TRUE,
                                                  !.generation = @ + 1]])
       \/ /\ AttemptCurrent /\ UNCHANGED parked
          /\ Becomes([Mirror EXCEPT !.recon =
                          IF attempt.discovery
                          THEN [@ EXCEPT !.discovery = "later", !.failing = TRUE]
                          ELSE [@ EXCEPT !.repair = "later", !.failing = TRUE]])
       \/ AttemptCurrent /\ Becomes([Mirror EXCEPT !.recon.failing = FALSE]) /\ Parks
       \/ parked' \in {parked, attempt.generation} /\ UNCHANGED <<mirror, operation>>
    /\ UNCHANGED <<server, updates, lost, receipts, order, boot, sends, doubt, changes>>

BecomesDue ==
    /\ "later" \in {recon.repair, recon.discovery}
    /\ recon' = [recon EXCEPT !.repair = IF @ = "later" THEN "now" ELSE @,
                              !.discovery = IF @ = "later" THEN "now" ELSE @]
    /\ UNCHANGED <<server, updates, lost, rows, evidence, attempt, operation, receipts,
                   order, boot, sends, doubt, changes, faults, parked>>

-----------------------------------------------------------------------------
(* ScheduledCommandOwner *)

\* (mutant) a receipt that is still pending does not stop its key
UnsettledKey(k) == receipts[k].outcome \in {"none", "pending", "interrupted"}

\* read_scheduled_operation: a key with a receipt is answered from it
FreshKey(k) == receipts[k].outcome = "none"

\* execute: the lock of the dialog, the receipt, the access; then rearm in its
\* transaction, which looks at the access again.
BeginOperation(k) ==
    /\ boot = "running" /\ operation.phase = "idle" /\ FreshKey(k) /\ recon.access
    /\ operation' = [NoCommand EXCEPT !.phase = "reading", !.key = k]
    /\ recon' = IF recon.blocked
                THEN [recon EXCEPT !.blocked = FALSE, !.authorization = TRUE, !.failing = FALSE,
                                   !.generation = @ + 1,
                                   !.discovery = IF @ = "none" THEN "now" ELSE @]
                ELSE recon
    /\ UNCHANGED <<server, updates, lost, rows, evidence, attempt, receipts, order, boot,
                   sends, doubt, changes, faults, parked>>

\* _current_state: the item, or the baseline for a create
StateKnown(m) ==
    /\ Available /\ recon.coverage = "complete" /\ ~recon.authorization /\ recon.snapshot > 0
    /\ m # Unset => rows[m].state = "scheduled"

VersionSeen(m) == IF m = Unset THEN recon.snapshot ELSE rows[m].order

\* The state is unknown, the version of the caller is not this one, or the
\* time is too near: nothing is stored.
Refuse ==
    /\ operation.phase = "reading" /\ operation' = NoCommand
    /\ UNCHANGED <<server, updates, lost, mirror, attempt, receipts, order, boot, sends,
                   doubt, changes, faults, parked>>

Verify ==
    /\ operation.phase = "reading"
    /\ \E a \in CommandActions, m \in Messages \cup {Unset} :
         /\ (a = "create") = (m = Unset) /\ StateKnown(m)
         /\ operation' = [operation EXCEPT !.phase = "preparing", !.action = a, !.message = m,
                                           !.version = VersionSeen(m)]
    /\ UNCHANGED <<server, updates, lost, mirror, attempt, receipts, order, boot, sends,
                   doubt, changes, faults, parked>>

\* _prepare_receipt; an update that changes nothing is settled as unchanged.
PrepareReceipt ==
    /\ operation.phase = "preparing"
    /\ order' = order + 1
    /\ receipts' = [receipts EXCEPT ![operation.key] = [outcome |-> "pending", order |-> order']]
    /\ \/ operation' = [operation EXCEPT !.phase = "admitting", !.order = order']
       \/ /\ operation.action = "update"
          /\ operation' = [operation EXCEPT !.phase = "finishing", !.result = "unchanged"]
    /\ UNCHANGED <<server, updates, lost, mirror, attempt, boot, sends, doubt, changes,
                   faults, parked>>

\* (mutant) the permit is kept with the outcome
EndedHolding(result) ==
    [operation EXCEPT !.phase = "finishing", !.result = result, !.version = 0, !.order = 0]

\* _dispatch_error
EndedWith(result) ==
    [operation EXCEPT !.phase = "finishing", !.result = result, !.permit = "none", !.version = 0,
                      !.order = 0]

\* revalidate, after the gate admitted the command: one transaction that ends
\* in watch
Revalidate ==
    /\ operation.phase = "admitting"
    /\ operation' = IF /\ receipts[operation.key].outcome = "pending"
                     /\ StateKnown(operation.message)
                     /\ VersionSeen(operation.message) = operation.version
                  THEN [operation EXCEPT !.phase = "permitted", !.permit = "valid"]
                  ELSE EndedWith("rejected")
    /\ UNCHANGED <<server, updates, lost, mirror, attempt, receipts, order, boot, sends,
                   doubt, changes, faults, parked>>

\* The gate, its deadline or the minimal lead refuse the command; or its permit
\* is no longer eligible and the gate prepares another one.
GateRefuses ==
    /\ \/ /\ operation.phase \in {"admitting", "permitted"} /\ operation' = EndedWith("rejected")
          /\ UNCHANGED faults
       \/ /\ operation.phase = "permitted" /\ Fault
          /\ operation' = [operation EXCEPT !.phase = "admitting", !.permit = "none"]
    /\ UNCHANGED <<server, updates, lost, mirror, attempt, receipts, order, boot, sends,
                   doubt, changes, parked>>

\* _check_scheduled_claim
PermitValid == operation.permit = "valid" /\ ~operation.sent

\* claim_write: the request goes out
ClaimSend ==
    /\ operation.phase = "permitted"
    /\ IF PermitValid
       THEN /\ operation' = [operation EXCEPT !.phase = "sent", !.permit = "none", !.sent = TRUE]
            /\ sends' = [sends EXCEPT ![operation.key] = IF @ < 2 THEN @ + 1 ELSE @]
       ELSE operation' = EndedWith("rejected") /\ UNCHANGED sends
    /\ UNCHANGED <<server, updates, lost, mirror, attempt, receipts, order, boot, doubt,
                   changes, faults, parked>>

\* Telegram handles the request: a create takes a message it has not used, an
\* item that is gone is a definite refusal.
Handled ==
    /\ operation.phase = "sent"
    /\ \E m \in Messages :
         IF operation.action = "create" THEN
            /\ server[m].state = "absent"
            /\ server' = [server EXCEPT ![m] = [state |-> "scheduled", rev |-> 1]]
            /\ operation' = [operation EXCEPT !.phase = "handled", !.message = m,
                                              !.reply = "applied"]
         ELSE
            /\ m = operation.message
            /\ IF server[m].state # "scheduled"
               THEN /\ operation' = [operation EXCEPT !.phase = "handled", !.reply = "refused"]
                    /\ UNCHANGED server
               ELSE /\ server' = [server EXCEPT ![m] =
                                    IF operation.action = "update"
                                    THEN [server[m] EXCEPT !.rev = @ + 1]
                                    ELSE [server[m] EXCEPT !.state = "cancelled"]]
                    /\ operation' = [operation EXCEPT !.phase = "handled", !.reply = "applied"]
    /\ doubt' = (doubt \/ (server' # server /\ updates # <<>>))
    /\ UNCHANGED <<updates, lost, mirror, attempt, receipts, order, boot, sends, changes,
                   faults, parked>>

\* The answer, with or without an item that belongs to the command; or none.
AnswerArrives ==
    /\ \/ /\ operation.phase = "handled" /\ operation.reply = "refused"
          /\ operation' = EndedWith("rejected") /\ UNCHANGED faults
       \/ /\ operation.phase = "handled" /\ operation.reply = "applied"
          /\ operation' = [operation EXCEPT !.phase = "applying", !.result = "acknowledged"]
          /\ UNCHANGED faults
       \/ /\ operation.phase = "handled" /\ operation.reply = "applied" /\ Fault
          /\ operation' = EndedWith("acknowledged")
       \/ /\ operation.phase \in {"sent", "handled"} /\ Fault
          /\ operation' = EndedWith("unknown")
    /\ UNCHANGED <<server, updates, lost, mirror, attempt, receipts, order, boot, sends,
                   doubt, changes, parked>>

\* _apply_response, with the order reserved before the request; its failure
\* leaves the remote outcome as it is.
ApplyResponse ==
    LET m == operation.message
        M == IF operation.action = "cancel" THEN Removed(Mirror, m, FALSE, operation.order)
             ELSE Upsert(Mirror, m, server[m].rev, operation.order)
        state == IF operation.action = "cancel" THEN "cancelled" ELSE "scheduled"
    IN  /\ operation.phase = "applying"
        /\ \/ /\ Becomes([M EXCEPT !.operation =
                    [EndedWith("acknowledged") EXCEPT !.confirmed =
                        M.rows[m].state = state /\ M.rows[m].order = operation.order]])
              /\ UNCHANGED faults
           \/ Fault /\ operation' = EndedWith("acknowledged") /\ UNCHANGED mirror
        /\ UNCHANGED <<server, updates, lost, attempt, receipts, order, boot, sends, doubt,
                       changes, parked>>

\* finish_scheduled_operation
FinishReceipt(k, result) ==
    IF receipts[k].outcome = "pending" THEN [receipts EXCEPT ![k].outcome = result] ELSE receipts

\* _dispatch_error and _dispatch_success: what the mirror does not show yet
OfferNeeded ==
    \/ operation.result \in {"unknown", "rejected"} /\ operation.sent
    \/ operation.result = "acknowledged" /\ ~operation.confirmed

\* _finish_receipt; a failure to store the outcome is only reported.
FinishOperation ==
    /\ operation.phase = "finishing"
    /\ \/ receipts' = FinishReceipt(operation.key, operation.result) /\ UNCHANGED faults
       \/ Fault /\ UNCHANGED receipts
    /\ operation' = IF OfferNeeded THEN [operation EXCEPT !.phase = "offering"] ELSE NoCommand
    /\ UNCHANGED <<server, updates, lost, mirror, attempt, order, boot, sends, doubt,
                   changes, parked>>

\* _offer_recovery
OfferRecovery ==
    /\ operation.phase = "offering"
    /\ Becomes([ContinuityLost(Mirror) EXCEPT !.operation = NoCommand])
    /\ UNCHANGED <<server, updates, lost, attempt, receipts, order, boot, sends, doubt,
                   changes, faults, parked>>

OfferFails ==
    /\ operation.phase = "offering" /\ Fault /\ operation' = NoCommand /\ doubt' = TRUE
    /\ UNCHANGED <<server, updates, lost, mirror, attempt, receipts, order, boot, sends,
                   changes, parked>>

-----------------------------------------------------------------------------
(* Restarts *)

\* The process stops.  Updates that were not applied are delivered again.
ProcessStops ==
    /\ Fault
    /\ boot' = "recovering" /\ operation' = NoCommand /\ attempt' = NoAttempt /\ parked' = -1
    /\ updates' = [i \in DOMAIN updates |-> [updates[i] EXCEPT !.order = 0]]
    /\ doubt' = (doubt \/ operation.phase = "offering")
    /\ UNCHANGED <<server, lost, mirror, receipts, order, sends, changes>>

\* (mutant) every receipt is settled again
EveryReceipt == {k \in OperationKeys : receipts[k].outcome # "none"}

InterruptedKeys == {k \in OperationKeys : receipts[k].outcome = "pending"}

\* (mutant) receipts are settled before the recovery is stored
SettleFirst ==
    /\ boot = "recovering" /\ boot' = "settling"
    /\ receipts' = [k \in OperationKeys |->
                       IF k \in InterruptedKeys THEN [receipts[k] EXCEPT !.outcome = "interrupted"]
                       ELSE receipts[k]]
    /\ UNCHANGED <<server, updates, lost, mirror, attempt, operation, order, sends, doubt,
                   changes, faults, parked>>

\* _bind_scheduled_commands: first the recovery of every interrupted target
StoreRecovery ==
    /\ boot = "recovering" /\ boot' = "settling"
    /\ IF InterruptedKeys = {} THEN UNCHANGED <<mirror, operation>>
       ELSE Becomes(ContinuityLost(Mirror))
    /\ UNCHANGED <<server, updates, lost, attempt, receipts, order, sends, doubt, changes,
                   faults, parked>>

\* settle_interrupted_scheduled_operations, then updates are released
SettleInterrupted ==
    /\ boot = "settling" /\ boot' = "running"
    /\ receipts' = [k \in OperationKeys |->
                       IF k \in InterruptedKeys THEN [receipts[k] EXCEPT !.outcome = "interrupted"]
                       ELSE receipts[k]]
    /\ UNCHANGED <<server, updates, lost, mirror, attempt, operation, order, sends, doubt,
                   changes, faults, parked>>

-----------------------------------------------------------------------------
\* A mirror that an earlier process left behind: nothing seen yet, a baseline
\* that is due, or a complete one.
QueueInit ==
    /\ \E known \in SUBSET Messages :
         server = [m \in Messages |-> IF m \in known THEN [state |-> "scheduled", rev |-> 1]
                                      ELSE [state |-> "absent", rev |-> 0]]
    /\ \E coverage \in {"unseeded", "unknown", "complete"}, repair \in {"none", "now"} :
         /\ repair = "now" => coverage = "unknown"
         /\ rows = [m \in Messages |-> IF coverage = "complete" /\ server[m].state = "scheduled"
                                       THEN [state |-> "scheduled", order |-> 1, rev |-> 1,
                                             hint |-> FALSE]
                                       ELSE AbsentRow]
         /\ recon = [coverage |-> coverage, repair |-> repair,
                     discovery |-> IF coverage = "unknown" THEN "now" ELSE "none",
                     generation |-> 0, snapshot |-> IF coverage = "complete" THEN 1 ELSE 0,
                     failing |-> FALSE, blocked |-> FALSE, authorization |-> FALSE, access |-> TRUE]
    /\ updates = <<>> /\ lost = FALSE /\ evidence = {}
    /\ attempt = NoAttempt /\ parked = -1 /\ operation = NoCommand
    /\ receipts = [k \in OperationKeys |-> NoReceipt] /\ sends = [k \in OperationKeys |-> 0]
    /\ order = 1 /\ boot = "running" /\ doubt = FALSE /\ changes = 0 /\ faults = 0

ReceiveUpdates == Admit \/ DeliverUpdate \/ GapReported
ReconcileQueue ==
    Seed \/ Select \/ FinishExcluded \/ CaptureKept \/ Read \/ ApplySnapshot \/ BecomesDue
Operate ==
    \/ Verify \/ Refuse \/ PrepareReceipt \/ Revalidate \/ GateRefuses \/ ClaimSend \/ Handled
    \/ AnswerArrives \/ ApplyResponse \/ FinishOperation \/ OfferRecovery
StartQueue == StoreRecovery \/ SettleInterrupted

QueueNext ==
    \/ OtherClient \/ ReceiveUpdates \/ UpdatesLost \/ Kicked \/ Readmitted \/ PermissionPublished
    \/ ReconcileQueue \/ Excluding \/ Undiscovered \/ SnapshotFailed
    \/ (\E k \in OperationKeys : BeginOperation(k)) \/ Operate \/ OfferFails
    \/ ProcessStops \/ StartQueue

QueueSpec == QueueInit /\ [][QueueNext]_queueVars

\* The updates, the slices of the coordinator and a start go on; commands,
\* faults and other clients need not.
QueueFairness ==
    WF_queueVars(ReceiveUpdates) /\ WF_queueVars(ReconcileQueue) /\ WF_queueVars(StartQueue)

FairQueueSpec == QueueSpec /\ QueueFairness

-----------------------------------------------------------------------------
ServerRecords == [state : {"absent", "scheduled", "cancelled", "published"}, rev : Nat]
UpdateRecords ==
    [kind : {"new", "cancelled", "published", "sent"}, message : Messages, rev : Nat, order : Nat]
RowRecords ==
    [state : {"absent", "scheduled", "cancelled", "unknown_missing", "published"},
     order : Nat, rev : Nat, hint : BOOLEAN]
ReconRecords ==
    [coverage : {"unseeded", "unknown", "complete", "unsupported"},
     repair : {"none", "now", "later"}, discovery : {"none", "now", "later"},
     generation : Nat, snapshot : Nat,
     failing : BOOLEAN, blocked : BOOLEAN, authorization : BOOLEAN, access : BOOLEAN]
AttemptRecords(D) ==
    [phase : {"idle", "excluding", "selected", "away", "answered"}, generation : Nat,
     discovery : BOOLEAN, order : Nat, repair : {"none", "now", "later"},
     due : {"none", "now", "later"}, snapshot : [D -> Nat]]
OperationRecords ==
    [phase : {"idle", "reading", "preparing", "admitting", "permitted", "sent", "handled",
              "applying", "finishing", "offering"},
     key : OperationKeys \cup {Unset}, action : CommandActions,
     message : Messages \cup {Unset}, version : Nat, order : Nat,
     permit : {"none", "valid", "revoked"}, reply : {"none", "applied", "refused"},
     result : {"none", "unchanged", "acknowledged", "rejected", "unknown"},
     sent : BOOLEAN, confirmed : BOOLEAN]
ReceiptRecords ==
    [outcome : {"none", "pending", "unchanged", "acknowledged", "rejected", "unknown",
                "interrupted"}, order : Nat]

\* Records in their sets; a permit is held inside the gate only.
QueueTypeOK ==
    /\ server \in [Messages -> ServerRecords] /\ updates \in Seq(UpdateRecords)
    /\ lost \in BOOLEAN /\ rows \in [Messages -> RowRecords] /\ evidence \subseteq Messages
    /\ recon \in ReconRecords /\ operation \in OperationRecords
    /\ (\E D \in SUBSET Messages : attempt \in AttemptRecords(D)) /\ parked \in Nat \cup {-1}
    /\ operation.permit # "none" <=> operation.phase = "permitted"
    /\ receipts \in [OperationKeys -> ReceiptRecords] /\ sends \in [OperationKeys -> Nat]
    /\ order \in Nat /\ boot \in {"running", "recovering", "settling"} /\ doubt \in BOOLEAN

\* An operation key reaches Telegram at most once, whatever happened to its
\* receipt, its answer or the process.
SentOnce == \A k \in OperationKeys : sends[k] <= 1

\* A request leaves the gate only for the version the caller has seen: nothing
\* was accepted into the mirror between the check and the wire, and the dialog
\* is still open to commands.
SentForVersion ==
    [][sends' # sends =>
        /\ StateKnown(operation.message)
        /\ VersionSeen(operation.message) = operation.version]_queueVars

\* The mirror does not go back: an accepted row has a newer order, and a
\* published message stays published.
MirrorAdvances ==
    [][\A m \in Messages :
        /\ rows[m].order <= rows'[m].order
        /\ rows[m].state = "published" => rows'[m].state = "published"
        /\ (rows'[m].state = "published" /\ rows[m].state # "published") =>
              m \in evidence']_queueVars

\* An outcome is decided once.
OutcomeKept ==
    [][\A k \in OperationKeys :
        receipts[k].outcome \notin {"none", "pending"} => receipts'[k] = receipts[k]]_queueVars

QueueQuiet ==
    /\ boot = "running" /\ updates = <<>> /\ ~lost /\ operation.phase \in {"idle", "reading"}

\* A complete baseline with nothing on its way is the queue of Telegram, unless
\* the recovery of a write was lost, or a write was handled while an update was
\* on its way: such an update is older and gets the newer order.
CompleteIsTrue ==
    (QueueQuiet /\ ~doubt /\ recon.coverage = "complete" /\ ~recon.authorization /\ Available) =>
        \A m \in Messages :
            /\ rows[m].state = "scheduled" <=> server[m].state = "scheduled"
            /\ rows[m].state = "scheduled" => rows[m].rev = server[m].rev

\* A queue that is not known, or not authorised, has work that is due.
UnknownIsDue ==
    (recon.coverage = "unknown" \/ (recon.coverage = "complete" /\ recon.authorization)) =>
        {recon.repair, recon.discovery} # {"none"}

\* A receipt that a restart settled is not beside a baseline from before its
\* write: the recovery is stored first.
InterruptedIsRecovered ==
    \A k \in OperationKeys : (receipts[k].outcome = "interrupted" /\ recon.coverage = "complete") =>
        recon.snapshot > receipts[k].order

\* The scheduled queue is what its coverage says, or has work that is due; no key
\* sends twice, and an interrupted command is recovered.
QueueIsTrue ==
    /\ CompleteIsTrue /\ UnknownIsDue /\ SentOnce /\ InterruptedIsRecovered

\* A queue that is not known is observed, or the dialog is closed to it, or the coordinator
\* excluded its revision: then it waits for a change of the queue or for a restart.
QueueObserved ==
    (recon.coverage = "unknown") ~> (recon.coverage # "unknown" \/ ~Available \/ ~Offered)

\* "never an unknown write with complete coverage" (daemon.py, the comment of
\* _bind_scheduled_commands about a restart): when a start is over.
NoUnknownWriteWithCompleteCoverage ==
    [][(boot = "settling" /\ boot' = "running") =>
        \A k \in OperationKeys :
            (/\ receipts'[k].outcome \in {"unknown", "interrupted"}
             /\ recon'.coverage = "complete") => recon'.snapshot > receipts'[k].order]_queueVars
=============================================================================
