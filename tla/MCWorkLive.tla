----------------------------- MODULE MCWorkLive -----------------------------
(***************************************************************************)
(* What the coordinator's slices must bring to an end, under the fairness  *)
(* each component justifies.  A behaviour studies one subject; the others  *)
(* rest in a state in which none of their fair actions is enabled.         *)
(*   "jobs"      the hydration of a message, a crash or an empty answer    *)
(*   "history"   a DM, enrolled automatically, that is left and rejoined   *)
(*   "updates"   the drafts, with an edit and two faults                   *)
(*   "saves"     the drafts, with a command and a fault                    *)
(*   "changes"   the scheduled queue, with a change by another client      *)
(*   "faults"    the scheduled queue, with a fault                         *)
(*   "sweep"     the deletion sweep over two DMs, and a fault              *)
(***************************************************************************)
EXTENDS Hydration

CONSTANTS b, m1, k1

VARIABLES
    subject,
    srv, row, intent, stored, recovery, waits, ord, fill, demand, ext, left, hist,
    telegram, flight, gap, asks, db, draft_excluded, refresh, caller, command, wire, phase, history,
    server, updates, queue_gap, scheduled, evidence, recon, attempt, parked, queue_command, receipts,
    queue_order, queue_boot, sends, doubt, changes, queue_faults,
    state, due, up, scan, withheld, held, undeleted, young, old, eligible, scan_left, swept

jobVars == vars
historyVars == <<srv, row, intent, stored, recovery, waits, ord, fill, demand, ext, left, hist>>
draftVars == <<telegram, flight, gap, asks, db, draft_excluded, refresh, caller, command, wire, phase,
               history>>
queueVars == <<server, updates, queue_gap, scheduled, evidence, recon, attempt, parked,
               queue_command, receipts, queue_order, queue_boot, sends, doubt, changes, queue_faults>>
scanVars == <<state, due, up, scan, withheld, held, undeleted, young, old, eligible, scan_left, swept>>

History == INSTANCE HistorySync WITH
    active <- fill, spare <- left, history <- hist, Private <- TRUE, HistoryPage <- 1,
    MaxGroup <- 2, MaxTop <- 2, MaxMoves <- 1, MaxUser <- 0, MaxRefusals <- 1
Draft == INSTANCE Drafts WITH
    excluded <- draft_excluded,
    Texts <- {b}, Want <- b, Legacy <- FALSE, Actions <- {},
    MaxEdits <- 1, MaxSecond <- 1, MaxFaults <- 2, MaxCrash <- 0
Saves == INSTANCE Drafts WITH
    excluded <- draft_excluded,
    Texts <- {b}, Want <- b, Legacy <- FALSE, Actions <- {"create"},
    MaxEdits <- 0, MaxSecond <- 1, MaxFaults <- 1, MaxCrash <- 0
Queue == INSTANCE ScheduledQueue WITH
    lost <- queue_gap, rows <- scheduled, operation <- queue_command, order <- queue_order,
    boot <- queue_boot, faults <- queue_faults,
    Messages <- {m1}, OperationKeys <- {k1}, Unset <- None, QueueChanges <- 1, QueueFaults <- 0
Broken == INSTANCE ScheduledQueue WITH
    lost <- queue_gap, rows <- scheduled, operation <- queue_command, order <- queue_order,
    boot <- queue_boot, faults <- queue_faults,
    Messages <- {m1}, OperationKeys <- {k1}, Unset <- None, QueueChanges <- 0, QueueFaults <- 1
Sweep == INSTANCE DmDeletionScan WITH
    slice <- scan, rows <- undeleted, left <- scan_left, hist <- swept,
    Dialogs <- {1, 2}, PageSize <- 1, MaxId <- 1, MaxGen <- 1, MaxFaults <- 1, MaxChanges <- 0

ASSUME History!HistoryAssumption
ASSUME Queue!ScheduledAssumption /\ Sweep!ScanAssumption

OfDrafts == {"updates", "saves"}
OfQueue == {"changes", "faults"}

\* The process is stopping, and nothing is pending.
DraftRests ==
    /\ telegram = [draft |-> "absent", lately |-> {"absent"}, absence |-> None, second |-> 1, edits |-> 0]
    /\ db = Draft!Bound(Draft!Empty) /\ flight = {} /\ gap = FALSE /\ asks = FALSE /\ draft_excluded = {}
    /\ refresh = Draft!NoRefresh /\ caller = None /\ command = Draft!Idle
    /\ wire = [step |-> "none", action |-> None] /\ phase = "stopping"
    /\ history = [sent |-> 0, faults |-> 0, crashes |-> 0, wrote |-> 0, moved |-> TRUE,
                  calm |-> FALSE, doubt |-> FALSE, proved |-> FALSE, replaced |-> {}]

\* The process runs, and no generation is due.
SweepRests ==
    /\ state = [status |-> "idle", gen |-> 0, dialog |-> 0, message |-> 0, legacy |-> FALSE]
    /\ due = FALSE /\ up = TRUE /\ scan = Sweep!NoSlice /\ withheld = FALSE
    /\ held = Sweep!Keys /\ undeleted = held /\ eligible = {1} /\ young = {} /\ old = {}
    /\ scan_left = [faults |-> 0, changes |-> 0]
    /\ swept = [asked |-> {}, verified |-> {}, owed |-> {}]

AnyInit ==
    /\ subject \in {"jobs", "history", "updates", "saves", "changes", "faults", "sweep"}
    /\ Init
    /\ subject # "jobs" =>
           dialog.access /\ dialog.enabled /\ message[m1].need = CHOOSE n \in Needs : TRUE
    /\ History!HistoryInit /\ (subject # "history" => row.status = "none")
    /\ IF subject \in OfDrafts THEN Draft!Init ELSE DraftRests
    /\ Queue!QueueInit
    /\ subject \notin OfQueue => recon.coverage = "complete" /\ server[m1].state = "absent"
    /\ IF subject = "sweep" THEN Sweep!Init ELSE SweepRests

AnyNext ==
    \/ subject = "jobs" /\ Next /\ UNCHANGED <<subject, historyVars, draftVars, queueVars, scanVars>>
    \/ subject = "history" /\ History!HistoryNext /\ UNCHANGED <<subject, jobVars, draftVars, queueVars, scanVars>>
    \/ subject = "updates" /\ Draft!Next /\ UNCHANGED <<subject, jobVars, historyVars, queueVars, scanVars>>
    \/ subject = "saves" /\ Saves!Next /\ UNCHANGED <<subject, jobVars, historyVars, queueVars, scanVars>>
    \/ subject = "changes" /\ Queue!QueueNext /\ UNCHANGED <<subject, jobVars, historyVars, draftVars, scanVars>>
    \/ subject = "faults" /\ Broken!QueueNext /\ UNCHANGED <<subject, jobVars, historyVars, draftVars, scanVars>>
    \/ subject = "sweep" /\ Sweep!Next /\ UNCHANGED <<subject, jobVars, historyVars, draftVars, queueVars>>

AnySpec ==
    /\ AnyInit /\ [][AnyNext]_<<subject, jobVars, historyVars, draftVars, queueVars, scanVars>>
    /\ Fairness /\ History!HistoryFairness /\ Draft!Fairness /\ Queue!QueueFairness /\ Sweep!Fairness

-----------------------------------------------------------------------------
\* An enrolled dialog that stays accessible is caught up again and again.
EventuallyCaughtUp == History!EventuallyCaughtUp

\* A snapshot of the drafts ends.
RefreshEnds == Draft!RefreshEnds

\* A draft command returns.
CommandReturns == Draft!CommandReturns

\* A recovery of the drafts is served, or its revision of work was excluded.
ServedOrExcluded == Draft!ServedOrExcluded

\* A queue that is not known is observed while the dialog is accessible and its revision
\* of work is offered.
QueueObserved == Queue!QueueObserved

\* A sweep completes, stops at a page whose fate is not known, or has its revision excluded.
SweepEnds == Sweep!SweepEnds

\* Every slice of work that was begun ends, and every job and recovery that was asked for
\* ends as long as the coordinator offers its revision.
WorkEnds ==
    /\ EventuallyCaughtUp /\ JobEnds /\ SweepEnds
    /\ RefreshEnds /\ CommandReturns /\ ServedOrExcluded /\ QueueObserved
=============================================================================
