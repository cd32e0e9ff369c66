# A verification development of mcp-telegram

mcp-telegram is a Telegram client daemon: it keeps one authenticated session,
mirrors dialogs into `sync.db`, answers tools over a local socket and must not
lose updates, overload the account, write twice what it wrote once, or let two
writers meet in SQLite.  This directory models the parts on which that depends,
as TLA+ modules that TLC checks on small instances and about which TLAPS proves
theorems for every value of the constants.  All source paths below are relative
to `src/mcp_telegram/` unless they begin with `docs/` or `tests/`.

## 1. Inventory

| component | files | state it keeps | module | status |
|---|---|---|---|---|
| RPC admission scheduler | `telegram_rpc_scheduler.py` | queues per class and source, active slots, two cursors, release timer, dispatcher and shutdown tasks | `RpcScheduler`, `RpcSchedulerFair`, `RpcFairCycle` | modelled |
| RPC gate and account protection | `telegram_rpc.py`, `telegram_transport.py`, `flood.py`, `telegram_gateway.py` | wire attempts, their intents and permissions, faults, holds, floors, the saved safety record | `WireAttempt` | partly |
| Automatic recovery policy | `telegram_rpc_recovery.py`, its calls in `telegram_rpc.py` and `daemon.py` | the persisted recovery receipt, stage, trial, stability window | `AutoRecovery` | modelled |
| Demand coordinator | `telegram_demand_coordinator.py` | statuses, ready queue, gate and capacity waits, invocations, exclusions | `DemandCoordinator` | partly |
| SQLite write owner | `sqlite_writer.py` | job queue, semaphore, futures, one connection in one thread | `SqliteWriter` | partly |
| Durable update delivery | `update_delivery.py`, `telegram_delivery.py`, `delivered_update.py`, `observation_order.py`, the delivery half of `telegram_rpc.py` | checkpoint, one pending package, order tokens, active delivery, failure and ready events | `UpdateDelivery`, `ReliableDelivery` | partly |
| Update intake and raw diagnostics | `telegram_update_admission.py`, `telegram_update_ring.py`, `telegram_update_store.py`, `runtime_observations.py` | intake queue and credit, withheld differences; ring of raw updates, in-flight records, run row | `UpdateIntake`, `UpdateRing` | modelled |
| Hydration | `hydration_queue.py`, `fact_hydration.py`, `media_hydration.py` | durable jobs with attempts and orders | `Hydration` | partly |
| Native commands and write fences | `scheduled_commands.py`, `scheduled_messages.py`, `scheduled_write_fence.py`, `native_write_fence.py`, `contacts/`, `entity_profile/` | command receipts, fences, mirrors and their coverage | `ScheduledQueue`, `ContactCommand` | partly |
| Native drafts | `drafts/` | draft rows with orders, recovery claim, command history | `Drafts` | partly |
| History and delta synchronisation | `sync_worker.py`, `delta_sync.py`, `access_lifecycle/` | page cursors, enrollment, gaps, access, deletion sweep | `HistorySync`, `DmDeletionScan` | partly |
| Message facts and realtime handlers | `messages/`, `event_handlers.py` | a message's row, observation orders, versions | `MessageFacts` | partly |
| Domain projections and sweeps | `dialog_directory.py`, `topics/`, `folders/`, `reactions/`, `activity_*` | domain rows and cursors | - | not modelled |
| Daemon, API and tools | `daemon.py`, `daemon_api.py`, `daemon_ipc.py`, `server.py`, `tools/`, `reading/` | tasks, sockets | shutdown and restart inside the others | partly |
| Storage schema, feedback, formatting, telemetry | `sync_db.py`, `feedback_db.py`, `formatter.py` | schema, counters | - | not modelled |

How they interact.  A tool or a durable slice calls the gate; the gate saves an
intent, asks the *scheduler* for a slot, the safety record for a permission, and
claims the write at the writer of the connection (`WireAttempt`).  What the answer
leaves behind - a flood wait, an unknown outcome, a storage failure - becomes a hold
that *automatic recovery* may lift by a trial.  Slices are chosen by the
*coordinator* from what the domain adapters declare due: history pages, deletion
sweeps, hydration jobs, draft and queue snapshots.  Telegram's updates pass the
*intake*, are stored as a package by the *delivery*, dispatched to handlers, and
completed; the handlers and the slices meet in the rows of *message facts*, *drafts*,
the *scheduled queue* and *contacts*, ordered by observation orders that
`observation_order.py` gives out.  All rows are written by the *SQLite writer*.

What is hard, and what makes the parts correct:

* **Scheduler.**  Everything runs on one asyncio loop, but a caller is suspended
  between its admission and its grant, and may be cancelled, expired, deferred,
  granted or drained in that window, and cancelled *after* the grant and before it
  resumes.  Correct means: counters equal the work that is really active, limits
  are never passed, every suspended caller is answered, nothing is granted late,
  a shutdown leaves nothing behind, and no class or source starves.
* **Gate.**  Between the permission and the write lie several awaits, a queue, and
  everything that can happen to the caller, the connection, the process and the
  record meanwhile.  Correct means: nothing is written past an outcome that nobody
  has learnt or into a flood wait, in this process or the next; one trial at a time;
  every slot and permission comes back.
* **Writer.**  A loop and a thread meet in a queue, a lock and
  `call_soon_threadsafe`.  Correct means: a slot is returned exactly once by every
  path, no submission is left without an outcome, a cancelled caller does not leave
  while its callback can still touch the database, `open` and `aclose` end.
* **Delivery.**  A batch is stored, dispatched concurrently and completed, with a
  crash, a failing handler, a cancelled loop, a failed write or a shutdown between
  any two awaits, over two stores.  Correct means: the checkpoint never passes an
  update that was not handled, packages follow each other without gap or overlap, a
  replay writes under the orders of the first attempt.
* **Work.**  The coordinator, the jobs and the sweeps use a selection after an await.
  Correct means: no work is forgotten or run twice, an answer is applied to what it
  was asked for, a sweep asks each page once and stops where it cannot know.
* **Commands and mirrors.**  Updates, snapshots and answers come in any order, and the
  process may stop between a write and its verdict.  Correct means: a key is written
  once, an outcome is never claimed that is not known, a projection agrees with Telegram
  once nothing is pending, and never goes back.

Every hazard is listed at its line in `PROJECT.json` under `hazards`, with the
properties that cover it.

## 2. Modules and how they correspond to the code

Each component's module states its state, one action per handler or step between two
awaits, and its properties; mutated definitions, marked `(mutant)`, stand before the
definition they replace and are used by no behaviour.  The `MC*` modules instantiate
them (section 3).

**`RpcScheduler`.**  No block under the scheduler's lock awaits, so each block is one
atomic step.  `Admit` is `admit` up to its await (pruning, deferral, limits,
`_ensure_dispatcher_locked` included), `Resume` the part after it, `CallerCancel` is
`task.cancel()` and `CancelTicket` the `CancelledError` branch that runs later.
`DispatcherCheck` and `DispatcherSelect` are the dispatcher between its two awaits,
transport readiness and limiter; `ReleaseTimer` and `ExpireTicket` are `call_later`
callbacks; `StartShutdown`, `DrainShutdown` the two halves of `close`.  A deque is only
appended to in sequence order and removed from, so it is the set of its tickets.
`EligibilityChange`, `ReadinessChange`, `Tick` are the gate, the transport and the clock.
`RpcSchedulerFair` adds whom the dispatcher passed over, `RpcFairCycle` is
`_build_fair_cycle`.

**`WireAttempt`.**  An attempt is of a kind: a durable read, a user's call, a mutation;
attempts of one kind share a method.  `_prepare_wire_write` has a step for each of its
awaits: `Offer`, `Intend` (the intent is saved), `Admit` (the scheduler, reduced to
`Slots`), `Permit` (`prepare_method_trial`); `Write` is `claim_write` and the writer,
`WriteFails` the writer failing under a claim.  `Answer`, `Resend` (bad salt),
`SaveReceipt`, `Settle` are the answer's way back; `Cancel`, `Timeout` the caller;
`Drop`, `Reconnect`, `GiveUp`, `Close`, `Contain` the connection; `Restart` a crash at any
moment.  A commit is atomic and may fail (`MaxFail`).  The account's floor and
Telegram's wait end together (the code adds a buffer); a method's floor is five minutes
or more and outlives the deadline of any request (`FloorPasses`).  `exposed` and
`penalty` are ghosts: what was written and not answered, and the wait Telegram has
announced, whatever the program remembers.

**`AutoRecovery`.**  The policy table as a function, the ledger's effects, the startup
ladder, the monitor's rounds, stability reset and operator grants.  Saving failures are
covered by crashes.  **`DemandCoordinator`.**  The coordinator whole, over rows with
revisions; the gate is the state it answers, an adapter a slice that awaits and may be
refused.  Kinds that become ready together join the queue in the order of
`DURABLE_DEMAND_ORDER`, which is a constant here (`DurableOrder`).

**`SqliteWriter`.**  `Run`, `Submit`, `Cancel`, `Return` are the awaits of `run`; the thread
is `OpenDatabase`, `GetJob`, `GetStop`, `ExecuteSettles`, `ExecuteBreaks`, `Retire`,
`ReleaseJob`, `FailWorker`, `Finish`.  Slots travel back as messages (`releases`).  The
semaphore's FIFO order is abstracted: any waiter may get a free slot.

**`UpdateDelivery`, `ReliableDelivery`.**  Updates are numbered in the order of the
protocol position, so a `ProtocolSnapshot` is a number and an envelope an interval.
`Intake` is the vendor loop advancing its message box and `_preprocess_updates` capturing
the envelope *before* it waits; `SubmitAdmission`, `AdmissionSettles`,
`AdmissionReturns`, `AdmissionFails` are the awaits after it.  `DispatchStarts`,
`HandlerWrites`, `DispatchSucceeds`, `DispatchFails` are one `_dispatch_update`, the last of
which completes the package.  `Start`, `ReplayEnds`, `Close`, `Exit` are the process; disk
variables survive `Exit`, which is also the crash.  Telethon is external; what is assumed
of it is what the code relies on.  Authorization-scope checks after the admission are among
the faults; a rejection before the capture is left out.

**`UpdateIntake`, `UpdateRing`.**  The queue with its credit and the message box's
withheld entries; the ring with capture, eviction, peek, acknowledge, bind and logout
against the flush and a crash.  A staged entry is the range of bytes it occupies, so the sum
the code keeps is a difference of two ends.

**What the coordinator does not offer.**  `DemandCoordinator` models the loop; the modules
of the slices model what its decisions leave of their own work.  A slice that commits
nothing (`NO_PROGRESS`, `STALE`, an unclassified failure) has its revision excluded
(`_exclude_revision`), and the statuses skip excluded revisions, so that the work rests until
its revision changes or the process starts again.  What a revision is made of is therefore part
of each module: `Revision` and `excluded` in `Hydration` and `Drafts`, `Revision` and `demand` in
`HistorySync`, `withheld` in `DmDeletionScan`, `parked` and `Offered` in `ScheduledQueue`.

**`Hydration`.**  One dialog, a job per slice, both handlers; a row leaves with the
evidence that obsoletes it, a request is billed when it is dispatched.  A job's revision is that
of the evidence it was enqueued for: neither its attempts nor its due time change it.
**`HistorySync`.**  One dialog, one slice at a time: enrollment, walk, gap fill, probe,
recovery, access loss; observation orders are ranks, an account change a refused slice.
**`DmDeletionScan`.**  The sweep's checkpoint with its claim, page by page; a checkpoint
that is suspended or in verification stays blocked; any subset of the dialogs may be
eligible at the start.  **`MessageFacts`.**  One nonchannel message under concurrent
handlers, pages of a walk, lookups and the sweep; orders are a counter.
Edits may have the date of the edit before; `hist.twins`, a ghost, says that two had.

**`ScheduledQueue`.**  One dialog: Telegram's queue and its updates, the mirror (`rows`,
`evidence`, `recon`), the reconciler's `attempt`, the command that holds the dialog's lock
(`operation`), its receipts and the fence; `doubt` marks what nobody can know, an update that is on
its way and a recovery that was lost with a crash.  **`ContactCommand`.**  One account and
peer: receipt in one database, intent in another, the fence, the read back, pushes, resets
and refreshes.  **`Drafts`.**  One scope: realtime updates (with or without a date, of the
same second), account-wide snapshots under a durable claim, recovery, the version-checked
command and its receipt, stops and crashes; `Actions = {}` is the projection alone.


## 3. Runs

| run | module, cfg | question |
|---|---|---|
| `sched_safety` | `MCRpcScheduler`, `SchedSafety.cfg` | do the scheduler's accounts, answers and deadlines hold in every interleaving of three admissions of two sources? |
| `sched_live` | `MCRpcScheduler`, `SchedLive.cfg` | is every admission answered, though limiter and transport may stall for ever? |
| `sched_fair` | `MCRpcSchedulerFair`, `SchedFair.cfg` | how long may an eligible class or source be passed over, and is the cycle exact and smooth? |
| `updates` | `MCUpdates`, `Updates.cfg` | what may an update meet on its way: delivery, intake, ring |
| `updates_live` | `MCUpdatesLive`, `UpdatesLive.cfg` | is everything delivered, does input get its turn, do calls of the writer end? |
| `gate` | `MCGate`, `Gate.cfg` | is the account protected: wire attempts, automatic recovery, coordinator |
| `gate_live` | `MCGateLive`, `GateLive.cfg` | do requests, fences and waits end? |
| `commands` | `MCCommands`, `Commands.cfg` | are writes single, outcomes true, mirrors right: drafts, queue, contacts |
| `history` | `MCHistory`, `History.cfg` | is the stored history whole: walks, access, sweep, message facts |
| `work_live` | `MCWorkLive`, `WorkLive.cfg` | does all work end, and do jobs follow the evidence? |
| `sched_work_conserving` | `MCRpcScheduler`, `SchedWorkConserving.cfg` | a disagreement, section 6 |
| `wire_stranded` | `MCWireAttempt`, `WireStranded.cfg` | a disagreement, section 6 |

**Several components in one run.**  A run of a group declares the variables of all its
components and a variable `subject`, chosen at the start and never changed.  Only the
subject takes steps; the others rest in one of their initial states (in a liveness run in a
state in which none of their fair actions is enabled, so that their fairness asks nothing).
The states are therefore the union of the components' states and not their product: the run
composes checks, not components.  Several subjects are the same component under other
bounds, named in the comment at the head of each MC module.

**What the properties of a run hold together.**  A property of a run may be the conjunction
of what one component must keep; its parts are defined, with a comment each, in the
component's module.

| property | parts |
|---|---|
| `WireSound` | a slot, a trial and a permission have their owner and come back (`SlotHasOwner`, `OneTrial`, `PermissionReturns`); what was written and not answered is on record (`UnlearntIsRecorded`); a clean shutdown protects for cause (`ClosedIsClean`) |
| `RecoveryIsBounded` | flood trials within the budget, no mutation excused, an open account has nothing unresolved, a waiting one nothing on the wire, a trial waits its time, calm alone ends an episode |
| `WorkIsKept` | the coordinator forgets nothing that could run, ends capacity waits, runs released exact revisions |
| `TurnsAreTaken` | input and differences take turns, sleep has a reason; a deferral loses no gap and never spins |
| `RingKeepsAccount` | records of one account only, within the bytes, every loss counted and reported |
| `DraftFateKnown` | one write, under an owned claim, its verdict read after it; what was replaced is kept, what is uncertain pursued |
| `QueueIsTrue` | a complete mirror is Telegram's queue, an unknown one is due, a key sends once, an interrupted command is recovered |
| `ContactFateKnown` | a packet is claimed once, a receipt is true, one unknown write at most, no intent without an owner, the read back owed and after the write |
| `NothingGoesBack` | neither the orders of a scope, nor a mirror, nor an outcome goes back, and no request of the queue leaves for a version its caller has not seen |
| `AccessOnEvidence` | access is lost and restored on newer evidence (`LossStands`, `RestoredOnEvidence`), with all its probe saw (`RestoredWhole`); the user's decision stands (`UserDecides`) |
| `FactsSettle` | a deleted message does not come back, a body is stored under coverage only, facts settle to Telegram's; the body is left out where two edits had one date (section 6) |
| `WorkEnds` | jobs, catch-up, recovery of drafts and queue, the sweep: each ends, as long as the coordinator offers its revision |

`QuietIsTrue` and `QueueIsTrue` speak of a projection without doubt.  `doubt` is a ghost: it is
set by what no update will tell this process and no recovery it remembers will find, and section 6
names what that is.

Bounds, and why they are enough.

* `sched_safety`: two sources of one class with capacity 2 and contracts 1 and 2,
  three tickets, two time units, a deadline two after the admission.  Three tickets
  pass the capacity, two sources the contract; a grant after a write (spacing 1)
  meets the deadline one step later.  Sources of one class share every counter and
  queue the properties speak of; more classes are in `sched_fair` and in the proofs.
* `sched_live`: one deferrable source, two tickets, restrictions that end now, at 2
  or never.  `sched_fair`: restrictions, time and shutdown are left out of the load because
  they only take tickets out of the contest; four tickets exceed the cycle of three; the
  cycle is compared with its definition for all weights up to 7.
* `updates`: three updates in envelopes of up to two give a full, a partial and an empty
  package and a successor captured while its predecessor is under way; three faults put a
  second crash into the recovery of the first and a third into that; one foreign observation
  separates two admissions.  Two envelopes and two holds let each kind of wake meet each kind
  of wait; two accounts, two entries and rows, one fault and one logout give the ring an
  overflow, a bind that is interrupted and a run that ends unclean.
* `gate`: two reads and a read with a mutation are the pairs that share a method and that do
  not; one resend, one lost connection, one crash, one failed save, each at every point.
  Recovery has stages 0 and 1, two faults and one restart, or two restarts of a read.  The
  coordinator has a kind that runs inline and one aside, two revisions, one refusal.
* `commands`: one draft scope with two edits of the same or the next second; one message and
  one key in the queue with one or two foreign changes or faults; two contact commands with
  two interchangeable keys and values (symmetry, in a run of safety properties only).
* `history`: two dialogs of two messages give a page behind, in and ahead of the cursor; a
  dialog of two or three messages gives a walk of several pages that new messages, a loss of
  access and a return interrupt; one message with an edit or a deletion and two answers in
  flight, or with two edits, of one second or of two, and an answer.
* Liveness runs take the same components with the smallest bounds at which each step that
  the property waits for happens after a fault.
* Deadlock checking is off where the bounds end the run or where the system may
  rest: all tickets used, all callers done, all updates delivered.

Fairness is what the code's scheduling gives and no more.

* Scheduler: asyncio runs ready callbacks and due timers, time passes, a started
  drain runs.  Limiter, transport and holders may stall for ever, nobody must close.
* Writer: the thread runs and callbacks end; the loop runs what is ready; weak
  fairness of `Submit` is the semaphore waking its waiters.  Nobody must submit or close.
* Delivery: coroutines and the writer go on, handlers return, a reported failure
  (`wait_update_delivery_failure` is a critical task) shuts the daemon down and the
  service manager starts it again.  `IntakeSome` is strongly fair, because an
  empty envelope disables it again and again; it says that empty differences do not
  keep the account's updates away for ever.
* Gate: an attempt's own steps, its deadline (`asyncio.timeout`), the reconnection loop or its
  surrender, and the containment of a fault.  Neither the scheduler's admission nor
  Telegram's answer is fair: a request ends without either.
* Recovery: the startup ladder, the monitor's rounds, time, and an answer or a deadline for
  every request on the wire.  Coordinator: the loop, its slices and its deadlines.
* Work: a selected slice goes on, delivery delivers, time passes.  The selection of a slice is
  fair only while its revision is offered (above): of an excluded revision nothing is assumed,
  and the properties say so.  The beginnings of history slices are strongly fair because access
  and enrollment disable them again and again.
* Faults, users, other devices and edits are never fair, and are bounded.

Every property of a passing run has a mutant: a plausible bug in the code, written
next to the definition it replaces, under which TLC finds that property violated.  The
parts of a property that is a conjunction have mutated definitions of their own, also marked
`(mutant)`: put in place of the definition that follows it, each breaks its part.

## 4. Proofs

All of the following hold for every number of tickets, sources, classes, updates, callers,
requests, messages, dialogs and faults, from the named assumptions on the constants
(`ContractAssumption`, `CycleAssumption`, `TimeAssumption`, `BoundAssumption`,
`ScanAssumption`, `HydrationAssumption`, `WireAssumption`, `WriterAssumption`,
`NamesAssumption`, `DraftAssumption`, `RecoveryAssumption`, `RingAssumption`,
`ContactAssumption`, `HistoryAssumption`, `IntakeAssumption`, `WorkAssumption`,
`ScheduledAssumption`), which TLC evaluates too.  Each
inductive invariant was checked by TLC on small instances before it was proved.

**Scheduler.**  `TypeCorrect` first.  The other safety properties are not inductive: a
pruned ticket keeps the state "queued" until its caller runs again, so state,
future, caller and queue must be related in one invariant.  `RpcSchedulerProofs`
states it per ticket (`TicketOwned`) with what a shutdown has put away
(`ShutdownQuiet`), proves it inductive (`OwnershipHolds`), and derives `WaitersQueued`,
`SlotsAlwaysOwned`, `HoldersAlwaysActive`, `DrainStaysEmpty` and the action property
`GrantsTimely`.  Its last part adds cardinalities: `CountersAreExact`,
`OutstandingIsBounded`; ownership is needed there because the release of a slot is only
right when the ticket is active exactly once.

**Delivery.**  `UpdateDeliveryProofs` proves an invariant in seven parts, one lemma per
action: the pending package is the one behind the checkpoint (`Chain`); the active
delivery is that package or one whose completion has been committed but not
acknowledged (`ActiveIsPending`); a dispatch belongs to it and one that ended succeeded
or is remembered as failed (`Dispatches`); what the process knows when it is idle
(`Idle`); where the vendor loop stands relative to the end of what is admitted, unless
delivery failed or closed (`LoopPosition`); and `Covered`, the checkpoint over handled
updates and saved peers.  From it follow `NothingIsLost`, `PackagesFollow`,
`SessionIsAhead` and `DeliveryIsReliable`: delivery implements `ReliableDelivery`, in
which only a committed completion moves the checkpoint, over handled updates, and
only updates of the one window behind it are handled.  The same module adds the
orders (`Tokens`, `Effects`): `OrderIsKept` says that a replay writes under the order
of the first attempt and that orders follow the order of the updates,
`HandledIsAdmitted` that what a handler works on will be found again by a restart.

**Raw updates.**  `RingKeepsAccount` speaks of rows, bytes and counters; what makes it
inductive is where a batch is while the flush task awaits the writer.  `RingInv` says that the
staged entries are in order, adjacent and of the session's account (`Staged`, `Adjacent`), that a
bound generation is the store's and the session's (`Bound`), that each sequence number up to the
last was stored, is staged or is counted as lost (`Counted`), and what the flush task's locals are
worth at each await (`Lifecycle`, `Writing`, `Finishing`).  The batch being written is a prefix
that capture cannot evict (`Held`), or a reset has orphaned it and its bytes still count
(`Gone`); no third case exists, and the acknowledgement is proved in each (`AckHeld`, `AckGone`).
A run is marked clean only when everything counted has been reported and everything staged
is stored (`Reported`), or something came in late, which the next run's generation counts.
`RingIsTyped` and `AccountsStayApart` are the theorems.

**Intake.**  That two differences never pass one waiting envelope is a matter of counting.
`SeenIsCounted` says for each envelope that has seen a difference that no credit is
left and that its place among the real items of the queue is within the turn that is being
measured; dequeuing an item moves it forward as the turn gets shorter (`TakeShifts`), and what
arrives stands behind it.  So a claim, which needs a credit while input waits, finds none that
has seen one.  `HintHasGap` (a method that shows a hint has a gap) and `CallHasGap` (the request
that is called belongs to one) are why a boundary that has passed belongs to a difference that
is asked this turn, and so why a withheld difference does not spin; `WakeupIsQueued` is why a
release finds a sleeping loop with something to wake it.  The theorems are `IntakeInvariant`,
`IntakeIsTyped` and `TurnsTaken`.

**Writer.**  `SubmissionsKept` counts: free slots, posted releases and submissions that hold
a slot add up to the capacity, until the loop closes.  To be inductive it needs to know
where each submission is: once in the queue, in the worker's hand or nowhere
(`QueueInOrder`, `JobInHand`), which of them are owed an outcome (`OutcomesOwed`), and
that retirement leaves the queue empty (`RetiredIsEmpty`).

**Coordinator.**  Its loop also serves one queue for all, and the second part of
`SqliteWriterProofs` is about it.  `WorkIsKept` speaks of the loop at rest and of what runs;
between a notification and the rest lie a scan, the slices it starts and their answers, each
of which may find the revision changed, its gate closed or the capacity just freed.
`CoordinatorInv` says of the two slices what they may run and what their copy of the
revision is worth until they end (`SlicesPlaced`, `SliceSound`), that what waits for
capacity does so only while it is taken (`CapacityHeld`), that the queue is of kinds that were
selected (`QueueKept`), and that while the loop waits without being woken only work whose
status could not be read could run (`WorkNoticed`).  A notification is one lemma (`NotifiedStep`), a slice's
step another (`SliceStep`, `OverStep`), the turn of the loop a third (`LoopTurnStep`).  The
theorems are `CoordinatorInvariant`, `WorkKept`, and `ReadFailuresAreKept`: a revision whose
claimed read failed gets no fresh budget until it commits or is revised.

**Deletion sweep.**  The action properties `NeverTwice` and `SweepComplete` follow from an
order: the cursor of the checkpoint separates what was asked (`AskedIsBehind`) from what is
owed (`OwedIsAhead`), a page in hand lies between (`PageInHand`, `PageAhead`, `PageIsNext`),
and between claim and commit the durable state says "verification" (`VerifiedFirst`), so that
a crash there blocks the sweep instead of repeating the page.

**History.**  A page is asked for at one time and committed at another, and what joins it to
the history is the cursor it was asked at.  `PagesFit` says that this cursor is still the row's
while a page is held, because everybody else moves no cursor, and what the page is worth: one
of the walk ends what was asked (`BackwardFits`), one of the gap is the last only at the end of
the history, which then holds all that the probe saw and all that was asked for before it
(`ForwardFits`, `Restoring`); a request that comes later marks the slice, which is why the latter
stands under `~active.moved`.  `WalkKept` adds to `WalkHasNoGap` that a walk has a forward cursor
and that a synced dialog was walked to its end, whatever restarts the walk later.  The access is
decided by orders that are ranks: a lemma shows that ranking keeps every comparison
(`RankKeeps`), and `AccessKept` that the newest observation is the one of the row and that an
order equal to its witness says the account is a member again, from which a restoration
under a witness that is still current is right.  What a page contains is proved from the
cardinalities in `Backward` and `Forward` (`BackwardIsClosed`, `ForwardIsFilled`).  The theorems
are `HistoryInvariant`, `HistoryIsTyped`, `NoGapIsLeft`, `RefreshIsServed` and
`EvidenceDecides`; `HistoryProofs` holds these and the sweep's.

**Hydration.**  `JobsFollowEvidence` compares an answer with what was observed since its
request.  The invariant ties the slice to its job and to its order: the job is active or
gone, the order is older than every newer observation (`SliceHasJob`, `SliceHasOrder`,
`SliceHasAnswer`), and a deleted message or a lost dialog has no work (`DeletedHasNoJob`,
`NoWorkWhenLost`).

**Wire.**  The invariant of `WireAttemptProofs` says for each attempt where it stands
between intent, permission, write, answer, receipt and settlement (`Passage`), that what is
exposed is recorded (`Recorded`), what is left when it is over (`Over`), which permission it
holds (`Permitted`), and what a claim has found to be free (`Fenced`); with the announced
flood known to the process or the record (`FloodIsKnown`, `FloodSurvives`), and protection for
cause.  `Fenced` is the heart of it: an attempt may pass the last check only while nothing
unlearnt is on record, and `ClaimIsFenced` shows that each later step - another attempt's
write, a fault, a crash with its restart - either leaves that true or closes the door
before the write.  The steps of an attempt are proved through generic lemmas (`AttemptStep`,
`OneStep`, `LinkStep`, `EndStep`): a step that moves one attempt and shares the rest needs
only that attempt's part.  From the invariant follow `WireIsSound`, `WritesFenced` and
`FloodsRespected`, the last two as action properties over the ghosts `exposed` and `penalty`,
which do not depend on what the program remembers.

**Commands.**  `CommandInvariants` states the invariants of drafts, contacts and the scheduled queue,
`CommandProofs` proves them and what follows.

**Drafts.**  `QuietIsTrue` (what is quiet is true) says nothing of the states in between, so
its invariant `Truth` says what the row and an answered snapshot are worth in every state
that is not `Blocked` by something the projection cannot know of: the row says what
Telegram has and nothing newer on its way says otherwise, or the newest update on its way
will correct it, or one without a date will make it ask; the same of an answered snapshot as
long as its claim stands.  Several edits of one second have one order, which is why the
invariant also remembers what Telegram has said in its present second (`Lately`), and why an
edit that returns to such a draft blocks until the next process (`history.doubt`, a ghost): the
theorem excludes it as the property does, because the code does not have it (section 6).
`Ordered` keeps rows, floors and answers below Telegram's clock and every claim with its
owner; `Fate` follows the one write from its receipt to its verdict; `Replaced` says what a
command has read before it writes.  `StepKinds` sorts the thirty steps into the few that
move a draft, an order or an answer and those that are `Steady`, so that each part is
carried over the latter by one lemma.  The theorems are `QuietTrue`, `FateKnown`,
`OrdersNeverGoBack` and the invariant itself.

**Scheduled queue.**  `QueueIsTrue` says that a complete mirror is Telegram's queue when
nothing is on its way; `QueueInv` says what the mirror is worth while something is.  `MirrorKept`
says of each row of a complete mirror that it is right, or that the last update about its message is
yet to come with an order above the row's and the snapshot's (`RowRight`, `Comes`).  The exception is
`Exposed`: what a command wrote and the mirror does not show yet.  It is held by the command
or handed to the reconciler before the command lets go, and a start is over only when what it found
interrupted has been recovered (`StartKept`).  An answered snapshot whose generation still
stands is right in the same sense and newer than every row it will replace (`SnapshotRight`,
`AttemptKept`, `AnswerKept`).  Both rest on the order in which updates are admitted and told
(`OrdersGiven`, `UpdatesTell`) and on the order of the command, which is its own: what Telegram
changed after the request has a newer one (`WriteOrdered`).  `OperationHeld` says what each phase of a
command holds.  The theorems are `QueueInvariant`, `QueueTrue`, and the three action properties
that make the queue's part of `NothingGoesBack`: `MirrorOnlyAdvances`, `OutcomesAreKept` and
`SendsAreForVersion`.

**Contacts.**  `ContactFateKnown` relates the receipt, the intent and Telegram's contact when
all of them rest; between two rests the caller, a start or the read back holds what one of
them lacks.  `ContactInv` says it in every state.  For each key `WriteFate` follows the write:
where the packet is between intent, fence, wire and answer (`Passage`), what a receipt that is
over says of it (`Commanded`, `Truthful`), and what stands in the other database meanwhile
(`Intended`), for the two are committed one after the other and a crash comes between.  `Owed`
and `FetchOwned` say who owes the read back and with which order; `Answers` that the order a
settled command waits for is later than every observation asked for before it, which is why
what is read then was written after the command; `Watch` that a command that watches its
fence holds the very counters while nobody has moved them, from which `ClaimsAreFresh` follows.
The theorems are the invariant, `ContactIsTyped`, `ContactFateTrue` and `ClaimsAreFresh`.

**Automatic recovery.**  The ledger's record is a value, so most of `AutoRecoveryProofs` is
about operators: what a receipt is worth (`Sound`: an automatic episode protects the account,
and only one spends the budget), what each command makes of it (`Fails`, `StartsWaiting`,
`Spent`, `Succeeds`, and nothing else: `TransitionFacts`), and that the effect the ledger gives a
decision is the one decided (`DecideFacts`, `ApplyFacts`).  The invariant adds where the run is:
what was spent is in the episode (`Episode`), a run that is not held has no outcome unresolved,
saved or not (`Held`), the wait that is set covers the delay of its cause (`Covered`), an interval of
stability begins after the trial and a failure within it leaves a reason or starts it again
(`Steady`), and no integrity failure is taken for a cause (`Attributable`).  Eighteen of the actions at
most weaken the receipt: `Weak` says what that means and `WeakStep` carries the invariant over all
of them, so that only the ten that boot, wait, spend, grant, end, forget or let time pass are
looked at in full.  Each step is shown to be `Lawful` besides, which is `TrialWaits` and
`ResetAfterCalm`; with them the theorem is `RecoveryBounded`.

Only model-checked:

* liveness (`WorkEnds` and the properties of the other `*_live` runs)
  and whatever speaks of ENABLED: out of TLAPS's reach;
* the shares of `RpcSchedulerFair` and `RpcFairCycle`: their statements count along a sequence
  and would need an induction over data;
* `FactsSettle`: safety of `MessageFacts`, for which no inductive invariant has been stated.

## 5. Not modelled

Components without a module are listed with their reasons in `PROJECT.json`: most of the
source is row mapping, schema migration, rendering of answers, command-line and container
plumbing, and readers that change nothing; its behaviour is a function of one call and its
tests reach it.  Within the modelled ones:

* Counters and observers that only report, wording of errors, the reason of a refusal,
  savepoints inside one job, the WAL checkpoint policy; that the scheduler reads the clock
  twice in one handler (a restriction that ends between the reads has the effect
  described in section 6); posting to a loop that is already closed.
* Gate: frames of the protocol, photo senders, authentication, change of the data centre,
  logout, the circuit's window, retry credits, native receipts.
* Drafts: a failing release of the storage, restore, scopes without access, compositions
  that cannot be sent, trimming of the history.
* Hydration: a status reads at most `max_jobs_per_cycle` rows (`fact_hydration.py:304`, 300 unless
  configured); that excluded jobs may hide those behind them takes more jobs than the model has.
* Queue, contacts: refresh of the catalogue, pushes that change a note or a phone only,
  other accounts at a restart, folders.
* History: hidden dialogs; the sweep's checkpoints that cannot be parsed; images,
  transcriptions, reactions and the text index of a message.

## 6. Disagreements and observations

Two runs expect a violation.

`sched_work_conserving`: `docs/plans/telegram-demand-control.md:241` says "The class scheduler
stays work-conserving."  `_ensure_dispatcher_locked` (`telegram_rpc_scheduler.py:1022`) starts
a dispatcher *or* arms the release timer, never both, and `_release_ready` and
`notify_eligibility_changed` drop the armed timer first.  If one ticket is released and
another is queued behind a later restriction, the second one's timer is lost; when the
first is cancelled or expires before it is written, the second stays queued past the end
of its restriction with neither a dispatcher nor a timer, until unrelated traffic
or its own deadline.

`wire_stranded`: `tests/test_telegram_rpc.py:3947`
(`test_abandoned_actual_future_keeps_capacity_and_records_later_flood`) says that a written
request whose caller has left keeps its slot until its late answer gives it back.  When
Telegram asks for the request to be sent again (`bad_server_salt`) or the connection is
replaced, `_prepare_wire_write` (`telegram_rpc.py:5512`) raises `CancelledError` for a request
that nobody waits for, and `_fail_preparation` (`telegram_transport.py:635`) leaves its future
open: no answer can reach it any more, and the slot stays taken.

**What the properties leave out because the code does not give it.**  Each of these is stated
where the property is defined.

* *A draft that came back within its second* (`QuietIsTrue`).  Drafts A, B and A of one second have
  one date.  The update about the last A is a duplicate for a row that says A, and
  `_classify_non_advancing_order` (`drafts/sqlite_projection.py:177`) accepts it without fencing
  the recovery claim, as it does for a conflicting draft.  A snapshot that has read B and is published
  afterwards leaves B in the row, with a version, until the draft changes or another recovery
  is asked for.  A write of ours that puts back what the draft was in that second, or that Telegram
  applies after the daemon has given it up, is no different: the session is sent no update.
* *Two edits with one date* (`FactsSettle`).  An answer with the newer edit is committed; the update
  about the same edit arrives, and because its body is unchanged the row keeps the order of the answer
  (`messages/sqlite_bundle.py:670`); a delayed handler of the older edit, whose order lies between
  the two, then replaces it.  `tests/test_message_sqlite_persistence.py:1110`
  (`test_same_second_delayed_observation_cannot_replace_newer_bundle`) says that this cannot happen; it
  tries the case in which the row has the newer order (`NoDelayedReplacement` below).
* *Excluded revisions* (`WorkEnds`).  A slice that ends as `NO_PROGRESS`, `STALE` or with a deferral
  that no gate explains has its revision excluded (`telegram_demand_coordinator.py:772`, `995`), and
  a revision that says nothing of attempts or due times does not change by itself:
  - a hydration job whose request failed transiently or whose media scope changed
    (`fact_hydration.py:355`, `1217`; its revision is `messages/sqlite_hydration.py:23`) is not
    asked for again until its message is edited or observed anew, or the process restarts;
  - a probe for access that failed stamps a later deadline and returns `NO_PROGRESS`
    (`delta_sync.py:1653`), so that the deadline is not used until the access changes or the
    process restarts; likewise a recovery, gap or group slice that was refused;
  - a page of the walk that finds the access lost leaves the revision of its cursor excluded, also
    when the access returns, until the cursor moves or the process restarts;
  - a snapshot of the scheduled queue that committed nothing waits for another generation, that
    is, for a change or a fault that marks the queue dirty.
* *An update on its way when a command is handled* (`QueueIsTrue`, `doubt`) is older than what the
  command wrote and gets the newer order; and a recovery that could not be stored, or was lost with
  the process, is not asked for by anybody.

The modules state further definitions that the code does not satisfy, met while modelling and
kept for whoever changes these places; no run checks them.

| definition | at | what happens |
|---|---|---|
| `CleanRunWasDrained` | `runtime_observations.py:369` | a flush of counters only counts as idle: a record captured during the last write is lost, and the run is marked clean |
| `GateWaitsEnd` | `telegram_demand_coordinator.py:808` | a deferred revision is parked without a deadline after the notification has passed |
| `UndispatchedIsFree` | `fact_hydration.py:609` | a refund in two jobs misses an observation between them |
| `MissingIsSeeded` | `fact_hydration.py:452` | due repairs are never run from the adapter |
| `LostReadBacksOff` | `daemon.py:1731` | a throttle at startup becomes an integrity failure instead of a back-off |
| `DueAccountPreempts` | `telegram_update_admission.py:535` | the account's deadline is not asked during a channel difference that is blocked |
| `NoUnknownWriteWithCompleteCoverage` | `scheduled_commands.py:1043` | a crash between an unknown outcome and its recovery leaves the mirror complete |
| `EvidencePostTerminal` | `entity_profile/repository.py:756` | a push from before the settlement refines the receipt |
| `NoDelayedReplacement` | `messages/sqlite_bundle.py:671` | a delayed observation of the same second puts the older text back |
| `EditKeepsOldText` | `event_handlers.py:1669` | no version is kept when a page inserts the row meanwhile |
| `RecoveryServed` | `drafts/owner.py:328` | a due recovery stays excluded while its revision is the same |
| `ConflictMeansChanged` | `drafts/sqlite_projection.py:817` | a command is refused as a conflict because an empty and a cleared draft differ |

## 7. Plan

`MessageFacts` is the last component whose safety is only model-checked: its invariant comes next.
Then the breadth: what section 5 leaves out of the gate and of the entity catalogue.  Liveness, and
the shares of the scheduler, stay with TLC.
