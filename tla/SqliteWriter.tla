---------------------------- MODULE SqliteWriter ----------------------------
(***************************************************************************)
(* SQLiteWriter (sqlite_writer.py): the one thread that owns runtime       *)
(* SQLite writes, and the coroutines of the event loop that submit to it.  *)
(*                                                                         *)
(* Two threads meet in _queue, in _state_lock (a block under it is one     *)
(* step) and in call_soon_threadsafe, which hands a slot back to the loop  *)
(* as a message: the semaphore itself is touched by the loop only.         *)
(***************************************************************************)
EXTENDS Integers, Sequences, FiniteSets, SequencesExt

CONSTANTS
    Callers,   \* one call of run() each
    Slots      \* capacity

ASSUME WriterAssumption == IsFiniteSet(Callers) /\ Slots \in Nat \ {0}

Stop == "stop"     \* _STOP
NoJob == "none"
ASSUME NamesAssumption == Stop \notin Callers /\ NoJob \notin Callers

VARIABLES
    opener,   \* where open() is
    closer,   \* where aclose() is
    caller,   \* where each run() is
    result,   \* the Future of each submitted callback
    slots,    \* _slots, free
    releases, \* slot releases posted to the loop and not run yet
    queue,    \* _queue
    closed,   \* _closed
    fatal,    \* _fatal_error is set
    ready,    \* _ready
    ended,    \* _closed_future
    worker,   \* where _work is
    job,      \* the submission _work is executing
    conn      \* the connection: idle, or left unsafe, or closed

control == <<closed, fatal, ready, ended>>
thread == <<worker, job, conn>>
vars == <<opener, closer, caller, result, slots, releases, queue, control, thread>>

Submissions(q) == ToSet(q) \ {Stop}
\* Admitted submissions whose slot has not been posted back yet.
InFlight == Submissions(queue) \cup ({job} \ {NoJob})

-----------------------------------------------------------------------------
(* The event loop *)

\* run() asks the semaphore for a slot.
Run(c) ==
    /\ opener = "opened"
    /\ caller[c] = "idle"
    /\ caller' = [caller EXCEPT ![c] = "acquiring"]
    /\ UNCHANGED <<opener, closer, result, slots, releases, queue, control, thread>>

\* Mutant: the state is not looked at again after the slot was awaited.
SubmitUnchecked(c) ==
    /\ caller[c] = "acquiring"
    /\ slots > 0
    /\ queue' = Append(queue, c)
    /\ slots' = slots - 1
    /\ result' = [result EXCEPT ![c] = "pending"]
    /\ caller' = [caller EXCEPT ![c] = "waiting"]
    /\ UNCHANGED <<opener, closer, releases, control, thread>>

\* It got the slot: submit, or give it back when the writer is unavailable.
Submit(c) ==
    /\ caller[c] = "acquiring"
    /\ slots > 0
    /\ IF closed \/ fatal
       THEN /\ caller' = [caller EXCEPT ![c] = "done"]
            /\ UNCHANGED <<result, slots, queue>>
       ELSE /\ queue' = Append(queue, c)
            /\ slots' = slots - 1
            /\ result' = [result EXCEPT ![c] = "pending"]
            /\ caller' = [caller EXCEPT ![c] = "waiting"]
    /\ UNCHANGED <<opener, closer, releases, control, thread>>

\* Mutant: a cancelled caller leaves without waiting for its callback.
CancelLeaves(c) ==
    /\ caller[c] \in {"acquiring", "waiting"}
    /\ caller' = [caller EXCEPT ![c] = "done"]
    /\ UNCHANGED <<opener, closer, result, slots, releases, queue, control, thread>>

\* The caller is cancelled: before submission it leaves, afterwards it keeps
\* waiting for the outcome, which only then gives way to the cancellation.
Cancel(c) ==
    /\ caller[c] \in {"acquiring", "waiting"}
    /\ caller' = [caller EXCEPT ![c] = IF @ = "acquiring" THEN "done" ELSE "cancelling"]
    /\ UNCHANGED <<opener, closer, result, slots, releases, queue, control, thread>>

\* The wrapped future is done.
Return(c) ==
    /\ caller[c] \in {"waiting", "cancelling"}
    /\ result[c] # "pending"
    /\ caller' = [caller EXCEPT ![c] = "done"]
    /\ UNCHANGED <<opener, closer, result, slots, releases, queue, control, thread>>

\* call_soon_threadsafe(self._slots.release) runs.
RunRelease ==
    /\ releases > 0
    /\ releases' = releases - 1
    /\ slots' = slots + 1
    /\ UNCHANGED <<opener, closer, caller, result, queue, control, thread>>

\* _request_close
RequestClose ==
    /\ closed' = TRUE
    /\ queue' = IF closed \/ fatal THEN queue ELSE Append(queue, Stop)

\* open() returns the writer, or raises what the worker met.
OpenReturns ==
    /\ opener = "opening"
    /\ ready # "pending"
    /\ opener' = IF ready = "ok" THEN "opened" ELSE "failed"
    /\ UNCHANGED <<closer, caller, result, slots, releases, queue, control, thread>>

\* open() is cancelled: it closes the writer nobody has seen and waits for it.
OpenCancelled ==
    /\ opener = "opening"
    /\ opener' = "closing"
    /\ RequestClose
    /\ UNCHANGED <<closer, caller, result, slots, releases, fatal, ready, ended, thread>>

OpenCancelReturns ==
    /\ opener = "closing"
    /\ ended # "pending"
    /\ opener' = "cancelled"
    /\ UNCHANGED <<closer, caller, result, slots, releases, queue, control, thread>>

\* aclose()
Close ==
    /\ opener = "opened"
    /\ closer # "closing"
    /\ closer' = "closing"
    /\ RequestClose
    /\ UNCHANGED <<opener, caller, result, slots, releases, fatal, ready, ended, thread>>

CloseReturns ==
    /\ closer = "closing"
    /\ ended # "pending"
    /\ closer' = "closed"
    /\ UNCHANGED <<opener, caller, result, slots, releases, queue, control, thread>>

-----------------------------------------------------------------------------
(* The worker thread *)

\* Mutant: the slots of the submissions that failed are not posted back.
FailPendingKeepsSlots ==
    /\ result' = [c \in Callers |->
                     IF c \in Submissions(queue) THEN "retired" ELSE result[c]]
    /\ queue' = << >>
    /\ UNCHANGED releases

\* _fail_pending, under _state_lock: every queued submission is answered and
\* its slot posted back.
FailPending ==
    /\ result' = [c \in Callers |->
                     IF c \in Submissions(queue) THEN "retired" ELSE result[c]]
    /\ releases' = releases + Cardinality(Submissions(queue))
    /\ queue' = << >>

OpenDatabase ==
    /\ worker = "opening"
    /\ \/ ready' = "ok" /\ conn' = "idle" /\ worker' = "getting"
       \/ worker' = "failing" /\ UNCHANGED <<ready, conn>>
    /\ UNCHANGED <<opener, closer, caller, result, slots, releases, queue, closed,
                   fatal, ended, job>>

GetJob ==
    /\ worker = "getting"
    /\ queue # << >>
    /\ Head(queue) # Stop
    /\ job' = Head(queue)
    /\ queue' = Tail(queue)
    /\ worker' = "executing"
    /\ UNCHANGED <<opener, closer, caller, result, slots, releases, control, conn>>

\* The stop item: a passive checkpoint, which may raise.
GetStop ==
    /\ worker = "getting"
    /\ queue # << >>
    /\ Head(queue) = Stop
    /\ queue' = Tail(queue)
    /\ \/ worker' = "finishing" /\ conn = "idle"
       \/ worker' = "failing"
    /\ UNCHANGED <<opener, closer, caller, result, slots, releases, control, job, conn>>

\* _execute, the callback settled and the connection back in its guarded idle
\* state.  Reconciling peer access afterwards swallows its failures: it may
\* leave behind a connection that is closed or still in a transaction.
ExecuteSettles ==
    /\ worker = "executing"
    /\ conn = "idle"
    /\ \E outcome \in {"value", "error"} : result' = [result EXCEPT ![job] = outcome]
    /\ conn' \in {"idle", "unsafe"}
    /\ worker' = "releasing"
    /\ UNCHANGED <<opener, closer, caller, slots, releases, queue, control, job>>

\* _execute, the callback or an unsafe connection broke the contract: _recover
\* closes the connection and the callback's future gets the error.
ExecuteBreaks ==
    /\ worker = "executing"
    /\ result' = [result EXCEPT ![job] = "error"]
    /\ conn' = "closed"
    /\ worker' = "retiring"
    /\ UNCHANGED <<opener, closer, caller, slots, releases, queue, control, job>>

\* _retire
Retire ==
    /\ worker = "retiring"
    /\ fatal' = TRUE
    /\ FailPending
    /\ worker' = "releasing"
    /\ UNCHANGED <<opener, closer, caller, slots, closed, ready, ended, job, conn>>

\* Mutant: a retired submission is counted by _fail_pending as well.
ReleaseJobTwice ==
    /\ worker = "releasing"
    /\ releases' = releases + (IF fatal THEN 2 ELSE 1)
    /\ job' = NoJob
    /\ worker' = IF fatal THEN "finishing" ELSE "getting"
    /\ UNCHANGED <<opener, closer, caller, result, slots, queue, control, conn>>

\* The finally around _execute posts the slot of the submission back.
ReleaseJob ==
    /\ worker = "releasing"
    /\ releases' = releases + 1
    /\ job' = NoJob
    /\ worker' = IF fatal THEN "finishing" ELSE "getting"
    /\ UNCHANGED <<opener, closer, caller, result, slots, queue, control, conn>>

\* Mutant: whoever waits in open() is not told.
FailWorkerSilent ==
    /\ worker = "failing"
    /\ fatal' = TRUE
    /\ FailPending
    /\ worker' = "finishing"
    /\ UNCHANGED <<opener, closer, caller, slots, closed, ready, ended, job, conn>>

\* The exception handler of _work.
FailWorker ==
    /\ worker = "failing"
    /\ fatal' = TRUE
    /\ ready' = IF ready = "pending" THEN "error" ELSE ready
    /\ FailPending
    /\ worker' = "finishing"
    /\ UNCHANGED <<opener, closer, caller, slots, closed, ended, job, conn>>

\* _finish_worker.  A worker retired by a callback has no connection left and
\* no error; the exception handler leaves one; closing after a stop may fail.
Finish ==
    /\ worker = "finishing"
    /\ ended' \in IF ~fatal THEN {"ok", "error"}
                 ELSE IF conn = "closed" THEN {"ok"} ELSE {"error"}
    /\ conn' = "closed"
    /\ worker' = "dead"
    /\ UNCHANGED <<opener, closer, caller, result, slots, releases, queue, closed,
                   fatal, ready, job>>

-----------------------------------------------------------------------------
Init ==
    /\ opener = "opening" /\ closer = "idle"
    /\ caller = [c \in Callers |-> "idle"]
    /\ result = [c \in Callers |-> "none"]
    /\ slots = Slots /\ releases = 0
    /\ queue = << >>
    /\ closed = FALSE /\ fatal = FALSE
    /\ ready = "pending" /\ ended = "pending"
    /\ worker = "opening" /\ job = NoJob /\ conn = "none"

Loop == \/ \E c \in Callers : Run(c) \/ Submit(c) \/ Cancel(c) \/ Return(c)
        \/ RunRelease
        \/ OpenReturns \/ OpenCancelled \/ OpenCancelReturns
        \/ Close \/ CloseReturns

Work == \/ OpenDatabase \/ GetJob \/ GetStop
        \/ ExecuteSettles \/ ExecuteBreaks \/ Retire \/ ReleaseJob
        \/ FailWorker \/ Finish

Next == Loop \/ Work
Spec == Init /\ [][Next]_vars

\* The thread runs and callbacks terminate; the loop runs what is ready, and the
\* semaphore wakes its waiters.  Nobody has to submit, cancel or close.
Fairness ==
    /\ WF_vars(Work)
    /\ WF_vars(RunRelease)
    /\ WF_vars(OpenReturns) /\ WF_vars(OpenCancelReturns) /\ WF_vars(CloseReturns)
    /\ \A c \in Callers : WF_vars(Submit(c)) /\ WF_vars(Return(c))

FairSpec == Spec /\ Fairness

-----------------------------------------------------------------------------
(* Properties *)

TypeOK ==
    /\ opener \in {"opening", "opened", "failed", "closing", "cancelled"}
    /\ closer \in {"idle", "closing", "closed"}
    /\ caller \in [Callers -> {"idle", "acquiring", "waiting", "cancelling", "done"}]
    /\ result \in [Callers -> {"none", "pending", "value", "error", "retired"}]
    /\ slots \in 0..Slots
    /\ releases \in 0..Slots
    /\ queue \in Seq(Callers \cup {Stop})
    /\ closed \in BOOLEAN /\ fatal \in BOOLEAN
    /\ ready \in {"pending", "ok", "error"} /\ ended \in {"pending", "ok", "error"}
    /\ worker \in {"opening", "getting", "executing", "retiring", "releasing",
                   "failing", "finishing", "dead"}
    /\ job \in Callers \cup {NoJob}
    /\ conn \in {"none", "idle", "unsafe", "closed"}

\* Every slot is free, on its way back to the loop, or held by exactly one
\* submission: success, failure, retirement and refusal each return it once.
SlotsConserved ==
    slots + releases + Cardinality(InFlight) = Slots

\* A submission without an outcome is in the queue of a living worker or is the
\* one it executes, wherever close, retirement and startup failure cut in.
PendingIsServed ==
    \A c \in Callers : result[c] = "pending" =>
        /\ c \in InFlight
        /\ worker \notin {"finishing", "dead"}

\* A caller, cancelled or not, never leaves its submission behind: when run()
\* has ended, the callback has settled and cannot touch the database any more.
CustodyKept ==
    \A c \in Callers : result[c] = "pending" => caller[c] \in {"waiting", "cancelling"}

\* What the owner promises of a submission from its slot to its outcome.
SubmissionsKept == SlotsConserved /\ PendingIsServed /\ CustodyKept

\* Every call of run() ends, also when the writer is closed or dies.
EveryRunEnds ==
    \A c \in Callers : caller[c] = "acquiring" ~> caller[c] = "done"

\* open() and aclose() end, whatever the worker meets meanwhile.
OpenAndCloseEnd ==
    /\ opener \in {"opening", "closing"} ~> opener \notin {"opening", "closing"}
    /\ closer = "closing" ~> closer = "closed"

=============================================================================
