-------------------------------- MODULE Drafts --------------------------------
(***************************************************************************)
(* The native draft of one scope (drafts/): Telegram keeps it, the daemon  *)
(* projects it into draft_current from realtime updates ordered by         *)
(* Telegram's dates and from account-wide snapshots taken under a durable  *)
(* recovery claim, and one version-checked command may replace it.         *)
(*                                                                         *)
(* Orders are Telegram's seconds; 0 stands for a date that is missing.     *)
(* A due time is "now" or "later".  _snapshot_lock admits one refresh at a *)
(* time, so a claim token is told by whether there is a claim.             *)
(***************************************************************************)
EXTENDS Integers, FiniteSets

CONSTANTS
    Texts,      \* what a draft may say
    Want,       \* the text the command saves
    Actions,    \* the commands to try: create, update, clear
    None,
    Legacy,     \* the database may come from before orders were kept
    MaxEdits,   \* bound: edits on another device
    MaxSecond,  \* bound: Telegram's clock
    MaxFaults,  \* bound: updates lost or redelivered, snapshots that fail
    MaxCrash

ASSUME DraftAssumption ==
    /\ Want \in Texts /\ Actions \subseteq {"create", "update", "clear"} /\ Legacy \in BOOLEAN
    /\ Texts \cap {"absent", "empty", "cleared"} = {}
    /\ None \notin Texts \cup {"absent", "empty", "cleared", "slice", "preflight", "postflight",
                               "unchanged", "acknowledged", "rejected", "unknown"}
    /\ MaxEdits \in Nat /\ MaxSecond \in Nat \ {0} /\ MaxFaults \in Nat /\ MaxCrash \in Nat

VARIABLES
    telegram, \* the draft, what it was this second, how an absent one is listed, the clock and the edits
    flight,   \* UpdateDraftMessage on their way to the handler
    gap,      \* an edit made while disconnected
    asks,     \* a handler is about to request recovery
    db,       \* draft_current, draft_sync_state, draft_projection_runtime, the receipt
    excluded, \* the coordinator's excluded revisions of draft work
    refresh,  \* who holds _snapshot_lock and how far the snapshot is
    caller,   \* the version an agent has read
    command,
    wire,     \* the SaveDraft request
    phase,
    history   \* what has happened, for the properties and the bounds

vars == <<telegram, flight, gap, asks, db, excluded, refresh, caller, command, wire, phase, history>>

NoRow == [draft |-> None, order |-> 0, version |-> 0]
NoRefresh == [who |-> None, step |-> "none", selected |-> None, draft |-> None, order |-> 0, after |-> FALSE]
Idle == [step |-> "idle", action |-> None, outcome |-> None, seen |-> 0, verdict |-> FALSE]

LaterOf(x, y) == IF x > y THEN x ELSE y

-----------------------------------------------------------------------------
(* The projection (SQLiteDraftProjection) *)

\* _invalidate_recovery_claim and _set_recovery_needed
Marked(d, retry) ==
    [d EXCEPT !.due = IF d.claimed THEN retry ELSE IF @ = "none" THEN "now" ELSE @,
              !.claimed = FALSE, !.status = "recovery_needed", !.coverage = "unknown"]

\* claim_recovery
Claimed(d) ==
    [d EXCEPT !.due = "none", !.claimed = TRUE, !.status = "recovering", !.coverage = "incomplete"]

\* (mutant) a snapshot that did not publish keeps its claim
ReleasedNot(d) == d

\* release_recovery_claim
Released(d) ==
    IF d.claimed
    THEN [d EXCEPT !.due = "now", !.claimed = FALSE, !.status = "recovery_needed", !.coverage = "unknown"]
    ELSE d

\* _upsert_current: the displaced state is archived
Saved(d, draft, order) ==
    [d EXCEPT !.revision = @ + 1,
              !.row = [draft |-> draft, order |-> order, version |-> d.revision + 1],
              !.kept = IF d.row = NoRow THEN @ ELSE @ \cup {d.row.draft}]

LegacyPending(d) == d.floor = 0 /\ d.row # NoRow /\ d.row.order = 0
Pending(d) == d.due # "none" \/ d.claimed

\* _publish_realtime, or _refresh_source_order when only the order advances
Advanced(d, u) ==
    LET s == Saved(d, u.draft, u.order)
    IN  IF d.row.draft = u.draft THEN [d EXCEPT !.row.order = u.order]
        ELSE IF Pending(s) THEN s ELSE [s EXCEPT !.status = "ready"]

\* (mutant) the order of an update is compared only for equality
DecisionUnordered(d, u) ==
    CASE d.uncertain -> "scope_order_uncertain"
      [] ~d.uncertain /\ u.order = 0 -> "missing_source_order"
      [] OTHER -> IF u.order = LaterOf(d.floor, d.row.order) THEN "equal_order_conflict" ELSE "advanced"

\* What an update is to the projection.  Only a tombstone comes without a date.
Decision(d, u) ==
    LET effective == LaterOf(d.floor, d.row.order)
    IN  CASE d.uncertain -> "scope_order_uncertain"
          [] ~d.uncertain /\ u.order = 0 -> "missing_source_order"
          [] ~d.uncertain /\ u.order > 0 /\ u.order < effective -> "stale"
          [] ~d.uncertain /\ u.order > 0 /\ u.order = effective ->
               IF d.row.draft = u.draft THEN "duplicate" ELSE "equal_order_conflict"
          [] OTHER -> IF LegacyPending(d) THEN "legacy_order_pending" ELSE "advanced"

Ambiguous(decision) == decision \notin {"stale", "duplicate", "advanced"}

\* (mutant) an update that advances leaves the snapshot in flight alone
RealtimeUnfenced(d, u, retry) ==
    LET decision == Decision(d, u)
    IN  CASE decision = "missing_source_order" -> [Marked(d, retry) EXCEPT !.uncertain = TRUE]
          [] decision \in {"stale", "duplicate"} -> d
          [] decision = "advanced" -> Advanced(d, u)
          [] OTHER -> Marked(d, retry)

\* apply_realtime
Realtime(d, u, retry) ==
    LET decision == Decision(d, u)
    IN  CASE decision = "missing_source_order" -> [Marked(d, retry) EXCEPT !.uncertain = TRUE]
          [] decision \in {"stale", "duplicate"} -> d
          [] decision = "advanced" -> Advanced(IF d.claimed THEN Marked(d, retry) ELSE d, u)
          [] OTHER -> Marked(d, retry)

\* (mutant) an inferred absence is stored without a state
ObservedRaw(d, draft, order) ==
    IF d.row = NoRow /\ draft = None /\ ~d.uncertain THEN d
    ELSE [Saved(d, draft, order) EXCEPT !.uncertain = FALSE]

\* _apply_snapshot_observations and _infer_snapshot_absences, for this scope
Observed(d, draft, order) ==
    LET new == IF draft = None THEN "cleared" ELSE draft
    IN  IF (d.row = NoRow /\ draft = None /\ ~d.uncertain) \/ d.row.order > order THEN d
        ELSE IF d.row.draft = new THEN [d EXCEPT !.row.order = order, !.uncertain = FALSE]
        ELSE [Saved(d, new, order) EXCEPT !.uncertain = FALSE]

\* _mark_snapshot_complete: a scope still uncertain keeps the claim
Completed(d, order) ==
    IF d.uncertain THEN [d EXCEPT !.floor = LaterOf(@, order)]
    ELSE [d EXCEPT !.due = "none", !.claimed = FALSE, !.status = "ready", !.coverage = "complete",
                   !.floor = LaterOf(@, order)]

\* the checks of apply_snapshot
Accepts(d, order) == d.claimed /\ order >= d.floor

\* read_current_draft: the version a caller may rely on, if there is one
Version(d) ==
    CASE d.uncertain -> None
      [] ~d.uncertain /\ d.row # NoRow -> d.row.version
      [] OTHER -> IF d.status = "ready" /\ d.coverage = "complete" THEN 0 ELSE None

Shown(d) == IF d.row.draft \in {None, "empty", "cleared"} THEN "absent" ELSE d.row.draft

-----------------------------------------------------------------------------
(* Telegram and the updates *)

RemoteEdit(draft, dated, heard) ==
    LET order == IF dated THEN telegram.second ELSE 0
    IN  /\ telegram.edits < MaxEdits /\ draft # telegram.draft /\ (draft \in Texts => dated)
        /\ telegram' = [telegram EXCEPT !.draft = draft, !.edits = @ + 1, !.lately = @ \cup {draft}]
        /\ LET told == [history EXCEPT !.calm = FALSE, !.moved = TRUE,
                                       !.doubt = @ \/ draft \in telegram.lately]
           IN  IF heard
           THEN /\ flight' = flight \cup {[draft |-> IF draft = "absent" THEN "empty" ELSE draft, order |-> order]}
                /\ UNCHANGED gap /\ history' = told
           ELSE /\ history.faults < MaxFaults /\ gap' = TRUE
                /\ history' = [told EXCEPT !.faults = @ + 1]
                /\ UNCHANGED flight
        /\ UNCHANGED <<asks, db, excluded, refresh, caller, command, wire, phase>>

ClockTicks ==
    /\ telegram.second < MaxSecond /\ telegram' = [telegram EXCEPT !.second = @ + 1, !.lately = {telegram.draft}]
    /\ UNCHANGED <<flight, gap, asks, db, excluded, refresh, caller, command, wire, phase, history>>

\* _apply_raw_draft_update, behind the startup barrier; a retry counts from
\* the capture of the update, so it may be due at once.
Deliver(u, retry) ==
    /\ phase = "running" /\ u \in flight
    /\ db' = Realtime(db, u, retry)
    /\ asks' = (asks \/ Ambiguous(Decision(db, u)))
    /\ flight' = flight \ {u}
    /\ UNCHANGED <<telegram, gap, excluded, refresh, caller, command, wire, phase, history>>

\* The commit fails: recovery is requested and the update is delivered again.
DeliverFails(u) ==
    /\ phase = "running" /\ u \in flight
    /\ history.faults < MaxFaults /\ history' = [history EXCEPT !.faults = @ + 1]
    /\ db' = Marked(db, "later")
    /\ UNCHANGED <<telegram, flight, gap, asks, excluded, refresh, caller, command, wire, phase>>

\* request_recovery of an ambiguous update, after its commit
Ask ==
    /\ asks /\ asks' = FALSE /\ db' = Marked(db, "later")
    /\ UNCHANGED <<telegram, flight, gap, excluded, refresh, caller, command, wire, phase, history>>

\* recover_projections
ReconnectObserved ==
    /\ phase = "running" /\ gap /\ gap' = FALSE /\ db' = Marked(db, "later")
    /\ UNCHANGED <<telegram, flight, asks, excluded, refresh, caller, command, wire, phase, history>>

DuePasses ==
    /\ db.due = "later" /\ db' = [db EXCEPT !.due = "now"]
    /\ UNCHANGED <<telegram, flight, gap, asks, excluded, refresh, caller, command, wire, phase, history>>

-----------------------------------------------------------------------------
(* Snapshots (DraftMessageOwner) *)

Work(d) == <<d.status, d.revision>>

\* status and run_slice: the coordinator selects the recovery and forgets the
\* exclusions of older revisions.
SliceBegins ==
    /\ phase # "stopping" /\ refresh = NoRefresh /\ db.due = "now" /\ Work(db) \notin excluded
    /\ refresh' = [NoRefresh EXCEPT !.who = "slice", !.step = "begun", !.selected = Work(db)]
    /\ excluded' = {}
    /\ UNCHANGED <<telegram, flight, gap, asks, db, caller, command, wire, phase, history>>

\* (mutant) a command whose preflight fails is not told
ReturnsSilently(accepted, blocked) ==
    /\ refresh' = NoRefresh /\ UNCHANGED excluded
    /\ command' = IF command.step = "preflight" /\ accepted THEN [command EXCEPT !.step = "read"] ELSE command

\* What the holder of the lock makes of the refresh
Returns(accepted, blocked) ==
    /\ refresh' = NoRefresh
    /\ IF refresh.who = "slice"
       THEN /\ excluded' = excluded \cup (IF blocked THEN {refresh.selected} ELSE {})
            /\ UNCHANGED command
       ELSE /\ command' = CASE command.step = "preflight" /\ accepted -> [command EXCEPT !.step = "read"]
                            [] command.step = "preflight" /\ ~accepted -> Idle
                            [] OTHER -> [command EXCEPT !.step = "compare", !.verdict = accepted]
            /\ UNCHANGED excluded

\* claim_recovery, or claim_mutation_preflight for a command, which marks
\* first and is busy while a retry is not due
Claim ==
    LET m == IF refresh.who = "slice" THEN db ELSE Marked(db, "later")
    IN  /\ refresh.step = "begun"
        /\ IF m.due = "now"
           THEN /\ db' = Claimed(m) /\ refresh' = [refresh EXCEPT !.step = "fetch"]
                /\ UNCHANGED <<command, excluded>>
           ELSE db' = m /\ Returns(FALSE, TRUE)
        /\ UNCHANGED <<telegram, flight, gap, asks, caller, wire, phase, history>>

\* fetch_all_drafts: an absent draft is listed as empty or not at all
SnapshotAnswered ==
    /\ refresh.step = "fetch"
    /\ refresh' = [refresh EXCEPT !.step = "answered", !.order = telegram.second,
                                  !.draft = IF telegram.draft = "absent" THEN telegram.absence ELSE telegram.draft,
                                  !.after = history.wrote > 0]
    /\ history' = [history EXCEPT !.moved = IF refresh.who = "preflight" THEN FALSE ELSE @]
    /\ UNCHANGED <<telegram, flight, gap, asks, db, excluded, caller, command, wire, phase>>

\* No authoritative answer.  Refused admission is waited for; an incomplete
\* answer (STALE) and an error exclude the revision.
SnapshotFails(how) ==
    /\ refresh.step = "fetch" /\ how \in {"deferred", "incomplete", "error"}
    /\ history.faults < MaxFaults /\ history' = [history EXCEPT !.faults = @ + 1]
    /\ db' = Released(db) /\ Returns(FALSE, how # "deferred")
    /\ UNCHANGED <<telegram, flight, gap, asks, caller, wire, phase>>

\* (mutant) a superseded snapshot keeps the lock
PublishHolds ==
    /\ refresh.step = "answered" /\ Accepts(db, refresh.order)
    /\ db' = Completed(Observed(db, refresh.draft, refresh.order), refresh.order) /\ Returns(TRUE, FALSE)
    /\ UNCHANGED <<telegram, flight, gap, asks, caller, wire, phase, history>>

\* _publish_snapshot and apply_snapshot
Publish ==
    /\ refresh.step = "answered"
    /\ LET published == Completed(Observed(db, refresh.draft, refresh.order), refresh.order)
       IN  IF Accepts(db, refresh.order) /\ published.status = "ready"
           THEN /\ db' = published /\ Returns(TRUE, FALSE)
                /\ history' = [history EXCEPT !.proved = @ \/ refresh.after]
           ELSE /\ db' = Released(IF Accepts(db, refresh.order) THEN published ELSE db)
                /\ Returns(FALSE, TRUE) /\ UNCHANGED history
    /\ UNCHANGED <<telegram, flight, gap, asks, caller, wire, phase>>

-----------------------------------------------------------------------------
(* The command (DraftCommandOwner) *)

\* An agent reads get_draft before it decides.
CallerReads ==
    /\ command.step = "idle" /\ db.receipt = "none" /\ Version(db) # None
    /\ caller' = Version(db)
    /\ history' = [history EXCEPT !.calm = flight = {} /\ Shown(db) = telegram.draft]
    /\ UNCHANGED <<telegram, flight, gap, asks, db, excluded, refresh, command, wire, phase>>

\* (mutant) a receipt without an outcome is not a duplicate
BeginsAgain(action) ==
    /\ phase # "stopping" /\ command.step = "idle" /\ db.receipt \in {"none", "unknown"}
    /\ (action # "create" => caller # None) /\ refresh = NoRefresh
    /\ refresh' = [NoRefresh EXCEPT !.who = "preflight", !.step = "begun"]
    /\ command' = [Idle EXCEPT !.step = "preflight", !.action = action]
    /\ UNCHANGED <<telegram, flight, gap, asks, db, excluded, caller, wire, phase, history>>

\* execute and refresh_for_mutation: a key with a receipt is answered from it,
\* a lock that is taken refuses the command
CommandBegins(action) ==
    /\ phase # "stopping" /\ command.step = "idle" /\ db.receipt = "none"
    /\ (action # "create" => caller # None) /\ refresh = NoRefresh
    /\ refresh' = [NoRefresh EXCEPT !.who = "preflight", !.step = "begun"]
    /\ command' = [Idle EXCEPT !.step = "preflight", !.action = action]
    /\ UNCHANGED <<telegram, flight, gap, asks, db, excluded, caller, wire, phase, history>>

Result(action) == IF action = "clear" THEN "absent" ELSE Want

\* read_current_draft, _validate_current, _build_request
CommandReads ==
    LET refused == \/ Version(db) = None
                   \/ command.action = "create" /\ Shown(db) # "absent"
                   \/ command.action = "update" /\ Shown(db) = "absent"
        conflict == caller # None /\ Version(db) # None /\ caller # Version(db)
    IN  /\ command.step = "read"
        /\ command' = CASE conflict -> [command EXCEPT !.step = "conflict"]
                        [] ~conflict /\ refused -> Idle
                        [] OTHER -> [command EXCEPT !.step = "prepare", !.seen = Version(db),
                                        !.outcome = IF Shown(db) = Result(command.action) THEN "unchanged" ELSE None]
        /\ UNCHANGED <<telegram, flight, gap, asks, db, excluded, refresh, caller, wire, phase, history>>

\* (mutant) the preimage is not archived
PrepareBare ==
    /\ command.step = "prepare" /\ db' = [db EXCEPT !.receipt = "pending"]
    /\ command' = [command EXCEPT !.step = IF command.outcome = "unchanged" THEN "finish" ELSE "dispatch"]
    /\ UNCHANGED <<telegram, flight, gap, asks, excluded, refresh, caller, wire, phase, history>>

\* prepare_draft_operation: the version is checked again where the preimage
\* is archived and the receipt written
Prepare ==
    /\ command.step = "prepare"
    /\ IF Version(db) # command.seen
       THEN command' = [command EXCEPT !.step = "conflict"] /\ UNCHANGED db
       ELSE /\ db' = [db EXCEPT !.receipt = "pending",
                         !.kept = IF db.row = NoRow \/ command.outcome = "unchanged" THEN @ ELSE @ \cup {db.row.draft}]
            /\ command' = [command EXCEPT !.step = IF command.outcome = "unchanged" THEN "finish" ELSE "dispatch"]
    /\ UNCHANGED <<telegram, flight, gap, asks, excluded, refresh, caller, wire, phase, history>>

\* The conflict is reported to the caller.
ConflictReported ==
    /\ command.step = "conflict" /\ command' = Idle
    /\ caller' = None
    /\ UNCHANGED <<telegram, flight, gap, asks, db, excluded, refresh, wire, phase, history>>

Save ==
    /\ command.step = "dispatch" /\ wire' = [step |-> "sent", action |-> command.action]
    /\ command' = [command EXCEPT !.step = "wait"]
    /\ history' = [history EXCEPT !.sent = @ + 1]
    /\ UNCHANGED <<telegram, flight, gap, asks, db, excluded, refresh, caller, phase>>

\* Telegram applies the request, perhaps after the daemon gave up on it; the
\* session that made a change is sent no update about it.
Applied ==
    /\ wire.step = "sent" /\ wire' = [wire EXCEPT !.step = "applied"]
    /\ telegram' = [telegram EXCEPT !.draft = Result(wire.action), !.lately = @ \cup {Result(wire.action)}]
    /\ history' = [history EXCEPT
            !.wrote = telegram.second, !.calm = FALSE, !.doubt = command.step # "wait" \/ Result(wire.action) \in telegram.lately,
            !.replaced = IF telegram.draft \in Texts /\ ~history.moved THEN {telegram.draft} ELSE {}]
    /\ UNCHANGED <<flight, gap, asks, db, excluded, refresh, caller, command, phase>>

Answered(outcome, step) == command' = [command EXCEPT !.outcome = outcome, !.step = step]

\* _dispatch: acknowledged, refused by Telegram, or nobody knows
CommandAnswered ==
    /\ \/ command.step = "wait" /\ wire.step = "applied" /\ Answered("acknowledged", "acked")
          /\ UNCHANGED <<wire, history>>
       \/ command.step = "wait" /\ wire.step = "sent" /\ Answered("rejected", "recover")
          /\ wire' = [wire EXCEPT !.step = "refused"] /\ UNCHANGED history
       \/ command.step = "wait" /\ history.faults < MaxFaults /\ Answered("unknown", "recover")
          /\ history' = [history EXCEPT !.faults = @ + 1] /\ UNCHANGED wire
       \/ command.step = "dispatch" /\ Answered("rejected", "recover") /\ UNCHANGED <<wire, history>>
    /\ UNCHANGED <<telegram, flight, gap, asks, db, excluded, refresh, caller, phase>>

\* _checkpoint_ack; the commit may fail and the receipt stays pending
Checkpoint(saved) ==
    /\ command.step = "acked" /\ command' = [command EXCEPT !.step = "recover"]
    /\ IF saved THEN db' = [db EXCEPT !.receipt = "verifying"] /\ UNCHANGED history
       ELSE /\ history.faults < MaxFaults /\ history' = [history EXCEPT !.faults = @ + 1]
            /\ UNCHANGED db
    /\ UNCHANGED <<telegram, flight, gap, asks, excluded, refresh, caller, wire, phase>>

\* _recover
Recover ==
    /\ command.step = "recover" /\ db' = Marked(db, "later")
    /\ command' = [command EXCEPT !.step = IF command.outcome = "rejected" THEN "finish" ELSE "postflight"]
    /\ UNCHANGED <<telegram, flight, gap, asks, excluded, refresh, caller, wire, phase, history>>

\* (mutant) the snapshot in flight serves as the postflight
PostflightJoins ==
    /\ command.step = "postflight" /\ refresh = NoRefresh
    /\ command' = [command EXCEPT !.step = "compare", !.verdict = TRUE]
    /\ UNCHANGED <<telegram, flight, gap, asks, db, excluded, refresh, caller, wire, phase, history>>

\* refresh_after_mutation: wait for the lock and the due time, then refresh
PostflightBegins ==
    /\ command.step = "postflight" /\ refresh = NoRefresh /\ db.due # "later"
    /\ refresh' = [NoRefresh EXCEPT !.who = "postflight", !.step = "begun"]
    /\ command' = [command EXCEPT !.step = "verify"]
    /\ UNCHANGED <<telegram, flight, gap, asks, db, excluded, caller, wire, phase, history>>

\* The deadline of the command passes while it waits.
PostflightExpires ==
    /\ command.step = "postflight" /\ command' = [command EXCEPT !.step = "compare"]
    /\ UNCHANGED <<telegram, flight, gap, asks, db, excluded, refresh, caller, wire, phase, history>>

Verdict ==
    CASE ~command.verdict \/ Version(db) = None -> "unverified"
      [] command.verdict /\ Version(db) # None ->
           IF Shown(db) = Result(command.action) THEN "verified" ELSE "conflict"

\* _apply_verification, _refine_owned and _finish
Finish ==
    /\ command.step \in {"compare", "finish"} /\ command' = Idle
    /\ db' = [db EXCEPT !.receipt = IF command.outcome # "acknowledged" THEN command.outcome
                                    ELSE IF @ = "verifying" THEN Verdict ELSE @]
    /\ UNCHANGED <<telegram, flight, gap, asks, excluded, refresh, caller, wire, phase, history>>

-----------------------------------------------------------------------------
(* Stops and starts *)

\* What a cancelled command leaves in its receipt
Interrupted ==
    CASE command.step \in {"dispatch", "wait"} ->
           {IF command.step = "wait" THEN "unknown" ELSE "rejected"}
      [] command.step = "prepare" /\ Version(db) = command.seen -> {db.receipt, "pending"}
      [] command.step = "finish" -> {db.receipt, command.outcome}
      [] command.outcome = "acknowledged" /\ (command.step = "acked" \/ db.receipt = "verifying") -> {"unverified"}
      [] OTHER -> {db.receipt}

\* The daemon stops: the command and the refresh are cancelled, a claim is
\* released and a publication under way completes first.
Shutdown ==
    /\ phase # "stopping" /\ phase' = "stopping" /\ history.crashes < MaxCrash
    /\ refresh.step # "answered" /\ refresh' = NoRefresh
    /\ \E receipt \in Interrupted : db' = [Released(db) EXCEPT !.receipt = receipt]
    /\ command' = Idle
    /\ UNCHANGED <<telegram, flight, gap, asks, excluded, caller, wire, history>>

\* (mutant) an uncertain scope is forgotten at startup
BoundBlind(d) == [d EXCEPT !.due = "none", !.claimed = FALSE]

\* bind_account
Bound(d) ==
    LET unclaimed == [d EXCEPT !.due = "none", !.claimed = FALSE]
    IN  IF LegacyPending(d) \/ d.uncertain THEN Marked(unclaimed, "now") ELSE unclaimed

\* interrupt_draft_operations
Settled(receipt) ==
    CASE receipt = "pending" -> "unknown" [] receipt = "verifying" -> "unverified" [] OTHER -> receipt

\* A new process, after a stop or a crash; updates not captured are lost.
Restart ==
    /\ history.crashes < MaxCrash
    /\ \E survivors \in SUBSET flight : flight' = survivors
    /\ db' = [Bound(db) EXCEPT !.receipt = Settled(@)]
    /\ phase' = "starting" /\ gap' = FALSE /\ asks' = FALSE /\ excluded' = {}
    /\ refresh' = NoRefresh /\ command' = Idle
    /\ history' = [history EXCEPT !.crashes = @ + 1, !.doubt = FALSE]
    /\ UNCHANGED <<telegram, caller, wire>>

\* request_recovery("startup"), then the barrier opens
Startup ==
    /\ phase = "starting" /\ phase' = "running" /\ db' = Marked(db, "later")
    /\ UNCHANGED <<telegram, flight, gap, asks, excluded, refresh, caller, command, wire, history>>

-----------------------------------------------------------------------------
Empty == [row |-> NoRow, floor |-> 0, uncertain |-> FALSE, revision |-> 0, status |-> "unknown",
          coverage |-> "unknown", due |-> "none", claimed |-> FALSE, receipt |-> "none", kept |-> {}]

Init ==
    /\ \E t \in Texts \cup {"absent"}, l \in {"empty", None} :
          telegram = [draft |-> t, lately |-> {t}, absence |-> l, second |-> 1, edits |-> 0]
    /\ \/ db = Bound(Empty)
       \/ Legacy /\ \E t \in Texts :
             db = Bound([Empty EXCEPT !.revision = 1, !.row = [draft |-> t, order |-> 0, version |-> 1]])
    /\ flight = {} /\ gap = FALSE /\ asks = FALSE /\ excluded = {} /\ refresh = NoRefresh
    /\ caller = None /\ command = Idle /\ wire = [step |-> "none", action |-> None] /\ phase = "starting"
    /\ history = [sent |-> 0, faults |-> 0, crashes |-> 0, wrote |-> 0, moved |-> TRUE,
                  calm |-> FALSE, doubt |-> FALSE, proved |-> FALSE, replaced |-> {}]

Updates ==
    \/ \E draft \in Texts \cup {"absent"}, dated \in BOOLEAN, heard \in BOOLEAN : RemoteEdit(draft, dated, heard)
    \/ ClockTicks
    \/ \E u \in flight : DeliverFails(u) \/ \E retry \in {"now", "later"} : Deliver(u, retry)
    \/ Ask \/ ReconnectObserved \/ DuePasses

Snapshot ==
    \/ Claim \/ SnapshotAnswered \/ Publish
    \/ \E how \in {"deferred", "incomplete", "error"} : SnapshotFails(how)

Executing ==
    \/ CommandReads \/ Prepare \/ ConflictReported \/ Save \/ CommandAnswered
    \/ \E saved \in BOOLEAN : Checkpoint(saved)
    \/ Recover \/ PostflightBegins \/ PostflightExpires \/ Finish

Next ==
    \/ Updates \/ SliceBegins \/ Snapshot
    \/ CallerReads \/ (\E action \in Actions : CommandBegins(action)) \/ Executing \/ Applied
    \/ Shutdown \/ Restart \/ Startup

Spec == Init /\ [][Next]_vars

\* The event loop runs what is ready, the handler is given its updates, the
\* coordinator selects due work, and Telegram or a deadline answers.
Fairness ==
    /\ WF_vars(Startup) /\ WF_vars(Ask) /\ WF_vars(ReconnectObserved) /\ WF_vars(DuePasses)
    /\ WF_vars(\E u \in flight, retry \in {"now", "later"} : Deliver(u, retry))
    /\ WF_vars(SliceBegins) /\ WF_vars(Snapshot) /\ WF_vars(Executing)

FairSpec == Spec /\ Fairness

-----------------------------------------------------------------------------
Versions == Nat \cup {None}
Seconds == 0..MaxSecond
Statuses == {"unknown", "recovery_needed", "recovering", "ready"}
Works == Statuses \X Nat
Receipts == {"none", "pending", "verifying", "verified", "conflict", "unverified",
             "unknown", "rejected", "unchanged"}
Steps == {"idle", "preflight", "read", "prepare", "conflict", "dispatch", "wait", "acked",
          "recover", "postflight", "verify", "compare", "finish"}

\* What Telegram may have, what may be told of it, and what a row may hold
Drafted == Texts \cup {"absent"}
Listed == Texts \cup {"empty", None}
Held == Texts \cup {"empty", "cleared", None}

Projection ==
    [row : [draft : Held, order : Seconds, version : Nat], floor : Seconds, uncertain : BOOLEAN,
     revision : Nat, status : Statuses, coverage : {"unknown", "incomplete", "complete"},
     due : {"none", "now", "later"}, claimed : BOOLEAN, receipt : Receipts, kept : SUBSET Held]

TelegramType ==
    [draft : Drafted, lately : SUBSET Drafted, absence : {"empty", None},
     second : 1..MaxSecond, edits : 0..MaxEdits]
UpdateType == [draft : Texts \cup {"empty"}, order : Seconds]
RefreshType ==
    [who : {None, "slice", "preflight", "postflight"}, step : {"none", "begun", "fetch", "answered"},
     selected : Works \cup {None}, draft : Listed, order : Seconds, after : BOOLEAN]
CommandType ==
    [step : Steps, action : Actions \cup {None}, seen : Versions, verdict : BOOLEAN,
     outcome : {None, "unchanged", "acknowledged", "rejected", "unknown"}]
WireType == [step : {"none", "sent", "applied", "refused"}, action : Actions \cup {None}]
HistoryType ==
    [sent : Nat, faults : 0..MaxFaults, crashes : 0..MaxCrash, wrote : Seconds, moved : BOOLEAN,
     calm : BOOLEAN, doubt : BOOLEAN, proved : BOOLEAN, replaced : SUBSET Texts]

\* Every variable keeps its type, and only a scope without a row has a row without a draft.
TypeOK ==
    /\ telegram \in TelegramType /\ flight \subseteq UpdateType /\ gap \in BOOLEAN /\ asks \in BOOLEAN
    /\ db \in Projection /\ (db.row.draft = None => db.row = NoRow)
    /\ excluded \subseteq Works \cup {None} /\ refresh \in RefreshType
    /\ caller \in Versions /\ command \in CommandType /\ wire \in WireType
    /\ phase \in {"starting", "running", "stopping"} /\ history \in HistoryType

\* Nothing is on its way, nothing is pending, no command is between its write and its
\* request for recovery, and there is no doubt.  There is doubt, until a restart or until
\* Telegram applies a write whose caller still waits,
\*   - when a draft came back within its second: A, B and A again carry one date, the update
\*     about the last A is a duplicate for a row that says A (_classify_non_advancing_order)
\*     and does not fence the claim of a snapshot that has read B and is yet to publish it;
\*   - when Telegram applied a command that the daemon had given up, or one that puts back
\*     what the draft was earlier in that second: its session is sent no update.
Quiet ==
    /\ phase = "running" /\ flight = {} /\ ~gap /\ ~asks /\ ~Pending(db)
    /\ wire.step # "sent" /\ command.step \notin {"wait", "acked", "recover"} /\ ~history.doubt

\* When nothing is pending, a draft (or an absence) that carries a version is what Telegram
\* has, in whatever order updates, snapshots and restarts came, unless there is doubt: a
\* draft that came back within its second may stay stale, and nobody corrects it.
QuietIsTrue == Quiet /\ Version(db) # None => Shown(db) = telegram.draft

\* A claim belongs to the refresh that holds the lock: no failure leaves a
\* claim that keeps every later snapshot and command out.
ClaimHasOwner == db.claimed => refresh.step \in {"fetch", "answered"}

\* A scope whose order is uncertain, or rows from before orders were kept,
\* always have a recovery under way: updates are refused until it ends.
UncertaintyIsPursued == db.uncertain \/ LegacyPending(db) => Pending(db)

\* A key writes once, whatever is interrupted and asked again.
OneWrite == history.sent <= 1

\* A text that our write replaced is in the history, unless it was written
\* on another device after the preflight.
ReplacedIsKept == history.replaced \subseteq db.kept

\* A verdict on an acknowledged write rests on a snapshot Telegram answered
\* after it applied the write.
VerdictIsPostWrite == db.receipt \in {"verified", "conflict"} => history.proved

\* A draft is written once, under a claim that has an owner; its verdict comes from
\* a read after the write, and what was replaced or is uncertain is not forgotten.
DraftFateKnown ==
    /\ VerdictIsPostWrite /\ OneWrite /\ ReplacedIsKept
    /\ ClaimHasOwner /\ UncertaintyIsPursued

\* (history.py:29, the conflict's message) a version conflict says that the
\* draft the caller read is no longer the draft: not so when neither changed.
ConflictMeansChanged == command.step = "conflict" => ~history.calm

\* Orders and the floor never go back, whatever arrives late.
OrdersAdvance == [][db'.row.order >= db.row.order /\ db'.floor >= db.floor]_db

\* A refresh ends and gives the lock back.
RefreshEnds == (refresh # NoRefresh) ~> (refresh = NoRefresh)

\* A command returns.
CommandReturns == (command.step # "idle") ~> (command.step = "idle")

\* A requested recovery is served, or its revision of work was excluded.
ServedOrExcluded == (db.due # "none") ~> (~Pending(db) \/ Work(db) \in excluded \/ phase = "stopping")

\* (config.py:125, sqlite_projection.py:500) a requested recovery is retried
\* until it is served.
RecoveryServed == (db.due # "none") ~> (~Pending(db) \/ phase = "stopping")
===============================================================================
