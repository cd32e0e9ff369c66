---------------------------- MODULE MCUpdatesLive ----------------------------
(***************************************************************************)
(* The SQLite writer, and what the passage of an update must bring to an   *)
(* end, under the fairness each component justifies.  A behaviour studies  *)
(* one subject; the others rest in a state in which none of their fair     *)
(* actions is enabled.                                                     *)
(*   "writer"    the callers of the write owner, its opening and closing   *)
(*   "delivery"  the durable delivery of the account's updates             *)
(*   "box"       the intake loop and its message box                       *)
(*   "ring"      the ring of raw updates                                   *)
(***************************************************************************)
EXTENDS SqliteWriter

CONSTANTS account1, account2, None

VARIABLES
    subject,
    safe, pending, token, sequence, wrote, entities, phase, known, head, loop, envelope,
    active, task, failed, done, completing, failure, gone, serving, handled, faults,
    arrivals, wakeup_queued, difference_credit, remaining, getting, due, blocked, wait,
    held, holds, turning, seen,
    ring, flush, stored_rows, run, session, closing, failures, stored, late, lossy

writerVars == vars
deliveryVars == <<safe, pending, token, sequence, wrote, entities, phase, known, head, loop,
                  envelope, active, task, failed, done, completing, failure, gone, serving,
                  handled, faults>>
boxVars == <<arrivals, wakeup_queued, difference_credit, remaining, getting, due, blocked,
             wait, held, holds, turning, seen>>
ringVars == <<ring, flush, stored_rows, run, session, closing, failures, stored, late, lossy>>

Delivery == INSTANCE UpdateDelivery WITH
    closed <- gone, ready <- serving,
    MaxUpdate <- 2, MaxBatch <- 2, MaxFaults <- 2, MaxOther <- 0
Box == INSTANCE UpdateIntake WITH
    queue <- arrivals,
    Channels <- {"c"}, Envelopes <- {"e1", "e2"}, Wait <- 1, MaxHolds <- 1
Ring == INSTANCE UpdateRing WITH
    store <- stored_rows, writer_faults <- failures, Accounts <- {account1, account2},
    MaxBytes <- 2, MaxEntry <- 1, MaxEntries <- 2, MaxCount <- 1, MaxRows <- 2,
    MaxSequence <- 2, MaxRuns <- 1, MaxWriterFaults <- 1, MaxLogouts <- 1

ASSUME Box!IntakeAssumption
ASSUME Ring!RingAssumption

\* The writer is open and has nothing to do.
WriterRests ==
    /\ opener = "opened" /\ closer = "idle" /\ ready = "ok" /\ ended = "pending"
    /\ caller = [c \in Callers |-> "idle"] /\ result = [c \in Callers |-> "none"]
    /\ slots = Slots /\ releases = 0 /\ queue = << >> /\ closed = FALSE /\ fatal = FALSE
    /\ worker = "getting" /\ job = NoJob /\ conn = "idle"

\* Everything is delivered and nothing is in progress.
DeliveryRests ==
    /\ safe = 2 /\ pending = Delivery!NoPackage /\ sequence = 0
    /\ token = [u \in Delivery!Updates |-> 0] /\ wrote = [u \in Delivery!Updates |-> {}]
    /\ entities = 2 /\ phase = "serving" /\ known = 2 /\ head = 2
    /\ loop = "stopped" /\ envelope = Delivery!NoPackage /\ active = Delivery!NoPackage
    /\ task = [u \in Delivery!Updates |-> "none"]
    /\ failed = {} /\ done = FALSE /\ completing = "no"
    /\ failure = FALSE /\ gone = FALSE /\ serving = TRUE
    /\ handled = Delivery!Updates /\ faults = 0

\* The intake sleeps with nothing to ask.
BoxRests ==
    /\ arrivals = <<>> /\ wakeup_queued = FALSE /\ difference_credit = FALSE
    /\ remaining = Box!Free /\ getting = {} /\ due = {}
    /\ blocked = [m \in Box!Methods |-> Box!Free] /\ wait = [m \in Box!Methods |-> 0]
    /\ held = {} /\ turning = Box!At("asleep", Box!Account) /\ holds = 0
    /\ seen = [e \in {"e1", "e2"} |-> 0]

\* The flush task has ended.
RingRests ==
    /\ ring = Ring!NewRing /\ flush = [Ring!NewFlush EXCEPT !.stage = "exited"]
    /\ stored_rows = Ring!Cleared(0) /\ run = 1 /\ session = None /\ closing = TRUE
    /\ failures = 0 /\ stored = {} /\ late = FALSE /\ lossy = 0

AnyInit ==
    /\ subject \in {"writer", "delivery", "box", "ring"}
    /\ IF subject = "writer" THEN Init ELSE WriterRests
    /\ IF subject = "delivery" THEN Delivery!Init ELSE DeliveryRests
    /\ IF subject = "box" THEN Box!IntakeInit ELSE BoxRests
    /\ IF subject = "ring" THEN Ring!RingInit ELSE RingRests

AnyNext ==
    \/ subject = "writer" /\ Next /\ UNCHANGED <<subject, deliveryVars, boxVars, ringVars>>
    \/ subject = "delivery" /\ Delivery!Next /\ UNCHANGED <<subject, writerVars, boxVars, ringVars>>
    \/ subject = "box" /\ Box!IntakeNext /\ UNCHANGED <<subject, writerVars, deliveryVars, ringVars>>
    \/ subject = "ring" /\ Ring!RingNext /\ UNCHANGED <<subject, writerVars, deliveryVars, boxVars>>

AnySpec ==
    /\ AnyInit /\ [][AnyNext]_<<subject, writerVars, deliveryVars, boxVars, ringVars>>
    /\ Fairness /\ Delivery!Fairness /\ Box!IntakeFairness /\ Ring!RingFairness

-----------------------------------------------------------------------------
\* Every update of the account is handled and passed by the checkpoint.
EverythingDelivered == Delivery!EverythingDelivered

\* A difference that the gate does not hold is asked for.
AccountAsked == Box!AccountAsked

\* Input is taken, whatever the pace of differences.
InputTaken == Box!InputTaken

\* What is staged leaves the ring.
StagedIsSettled == Ring!StagedIsSettled

\* Every call of the writer ends.
CallsEnd == EveryRunEnds /\ OpenAndCloseEnd

\* Input is taken, a free difference is asked, and staged records leave the ring.
InputMoves == InputTaken /\ AccountAsked /\ StagedIsSettled
=============================================================================
