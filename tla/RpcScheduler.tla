---------------------------- MODULE RpcScheduler ----------------------------
(***************************************************************************)
(* TelegramRpcAdmissionScheduler: the single arbiter in front of the       *)
(* account rate limiter (telegram_rpc_scheduler.py).                       *)
(*                                                                         *)
(* The scheduler lives on one asyncio loop and no block under its lock     *)
(* awaits, so every block is one atomic step.  Interleaving happens where  *)
(* a coroutine really suspends: a caller on its future, the dispatcher on  *)
(* the transport readiness and on the limiter, and between a caller's      *)
(* cancellation and the moment its coroutine runs again.                   *)
(*                                                                         *)
(* A deque of tickets is appended to in sequence order and only ever       *)
(* removed from, so it is the set of its tickets ordered by sequence       *)
(* number: "queued" is the union of all the deques.                        *)
(***************************************************************************)
EXTENDS Integers, FiniteSets, Sequences

CONSTANTS
    Classes,      \* RpcServiceClass
    Sources,      \* TelegramRpcSource
    ClassOf,      \* RPC_SOURCE_SERVICE_CLASS
    Capacity,     \* queue capacity of each class
    SourceLimit,  \* source_outstanding_limit of each source's contract
    FairCycle,    \* the class cycle built by _build_fair_cycle
    SourceCycle,  \* the round-robin order of each class's sources
    Spacing,      \* minimum_spacing_seconds
    Deadlines,    \* admission durations a caller may bring
    Releases,     \* bound: instants at which a restriction may end
    Deferrable,   \* sources deferral can answer for: update differences
    MaxTicket,    \* bound: number of admissions
    MaxTime       \* bound: last instant of the clock

ASSUME ContractAssumption ==
    /\ IsFiniteSet(Classes)
    /\ IsFiniteSet(Sources) /\ Sources # {}
    /\ ClassOf \in [Sources -> Classes]
    /\ Capacity \in [Classes -> Nat \ {0}]
    /\ SourceLimit \in [Sources -> Nat \ {0}]

ASSUME CycleAssumption ==
    /\ FairCycle \in Seq(Classes)
    /\ FairCycle # << >>
    /\ \A c \in Classes : \E i \in DOMAIN FairCycle : FairCycle[i] = c
    /\ SourceCycle \in [Classes -> Seq(Sources) \ {<< >>}]
    /\ \A s \in Sources :
          \E i \in DOMAIN SourceCycle[ClassOf[s]] : SourceCycle[ClassOf[s]][i] = s

ASSUME TimeAssumption ==
    /\ Spacing \in Nat \ {0}
    /\ MaxTime \in Nat
    /\ Releases \subseteq 0..MaxTime
    /\ Deferrable \subseteq Sources
    /\ MaxTicket \in Nat
    /\ Deadlines \subseteq Nat \ {0}

Tickets == 1..MaxTicket
Never == MaxTime + Spacing + 1   \* math.inf, and "no timer is armed"
Instants == 0..Never

VARIABLES
    seq,         \* _sequence: tickets 1..seq have been created
    source,      \* scope.source of each ticket
    deadline,    \* admission deadline of each ticket
    state,       \* _TicketState ("free" before the ticket exists)
    fut,         \* the ticket's future
    caller,      \* where the admitting coroutine is
    queued,      \* union of _queues
    active,      \* keys of _active
    recorded,    \* those whose dispatch_recorded is set
    classCount,  \* _active_counts
    sourceCount, \* _active_source_counts
    nextWrite,   \* _next_write_at
    timer,       \* when _release_handle fires, Never if None
    dispatcher,  \* None, or where _dispatch_loop is suspended
    shutdown,    \* progress of _shutdown_task
    fair,        \* _fair_index
    rotation,    \* _source_indices
    clock,
    ready,       \* the transport readiness probe
    releaseAt,   \* release_at(scope), by source
    held         \* sources for which deferral(scope) returns an error

tickets == <<seq, source, deadline>>
cursors == <<fair, rotation>>
environment == <<clock, ready, releaseAt, held>>
slots == <<active, recorded, classCount, sourceCount>>
vars == <<tickets, state, fut, caller, queued, slots, nextWrite, timer,
          dispatcher, shutdown, cursors, environment>>

closed == shutdown # "open"
Class(t) == ClassOf[source[t]]
QueuedOfClass(c) == {t \in queued : Class(t) = c}
QueuedOfSource(s) == {t \in queued : source[t] = s}
ActiveOfClass(c) == {t \in active : Class(t) = c}
ActiveOfSource(s) == {t \in active : source[t] = s}

Later(a, b) == IF a >= b THEN a ELSE b
LeastOf(S) == CHOOSE x \in S : \A y \in S : x <= y

-----------------------------------------------------------------------------
(* Helpers of the scheduler. *)

\* _ticket_can_dispatch_locked
CanDispatch(t) ==
    /\ classCount[Class(t)] < Capacity[Class(t)]
    /\ Later(nextWrite, releaseAt[source[t]]) <= clock

\* _schedule_release_locked, in the state the handler has reached: arm the timer
\* for the earliest finite future release unless it is armed for an earlier one.
ReleaseTime(t) == Later(nextWrite, releaseAt[source[t]])
FutureReleases == {r \in {ReleaseTime(t) : t \in queued} : r < Never /\ clock < r}
Rearm(armed) == timer' = LeastOf({armed} \cup FutureReleases')

\* The tail of _ensure_dispatcher_locked: it starts a dispatcher or arms the
\* timer, never both.  Read in the state the handler has reached.
EnsureDispatcher(armed) ==
    IF (\E t \in queued' : CanDispatch(t)') /\ dispatcher = "none"
    THEN dispatcher' = "readiness" /\ timer' = armed
    ELSE dispatcher' = dispatcher /\ Rearm(armed)

\* What _defer_held_tickets, _expire_ticket and _activate_ticket_locked do to
\* the tickets of D, E and G; a future already done keeps its outcome.
Settled(st, D, E, G) ==
    [t \in Tickets |-> IF t \in D THEN "deferred"
                       ELSE IF t \in E THEN "expired"
                       ELSE IF t \in G THEN "dispatched" ELSE st[t]]
\* Mutants: expired, or deferred, tickets leave the queue unanswered.
ExpiredUnanswered(ft, D, E, G) ==
    [t \in Tickets |-> IF ft[t] # "pending" THEN ft[t]
                       ELSE IF t \in D THEN "error"
                       ELSE IF t \in G THEN "result" ELSE "pending"]
DeferredUnanswered(ft, D, E, G) ==
    [t \in Tickets |-> IF ft[t] # "pending" THEN ft[t]
                       ELSE IF t \in E THEN "error"
                       ELSE IF t \in G THEN "result" ELSE "pending"]

Answered(ft, D, E, G) ==
    [t \in Tickets |-> IF ft[t] # "pending" THEN ft[t]
                       ELSE IF t \in D \cup E THEN "error"
                       ELSE IF t \in G THEN "result" ELSE "pending"]

HeldIn(Q) == {t \in Q : source[t] \in held}           \* _defer_held_tickets
Abandoned == {t \in queued : fut[t] # "pending"}      \* _prune_done_locked
DueStrictlyIn(Q) == {t \in Q : deadline[t] < clock}  \* mutant
DueIn(Q) == {t \in Q : deadline[t] <= clock}          \* _expire_due_tickets

\* _release_active_capacity for the attempt of ticket t
Release(t) ==
    /\ active' = active \ {t}
    /\ classCount' = [classCount EXCEPT ![Class(t)] = @ - 1]
    /\ sourceCount' = [sourceCount EXCEPT ![source[t]] = @ - 1]
    /\ recorded' = recorded \ {t}

-----------------------------------------------------------------------------
(* Selection: class cycle, then source rotation, then FIFO. *)

WrapLate(i, n) == IF i <= n THEN i ELSE i - n   \* mutant: the modulus is off by one
Wrap(i, n) == IF i < n THEN i ELSE i - n   \* i % n, for an index below 2 * n
TurnClass(k) == FairCycle[Wrap(fair + k, Len(FairCycle)) + 1]
TurnSource(c, k) == SourceCycle[c][Wrap(rotation[c] + k, Len(SourceCycle[c])) + 1]
OfClass(R, c) == {t \in R : Class(t) = c}
OfSource(R, s) == {t \in R : source[t] = s}

\* The number of cycle entries _select_ticket_locked skips, and the number of
\* sources _select_source_ticket_locked skips, when R can be dispatched.
ClassTurn(R) ==
    LeastOf({k \in 0..Len(FairCycle)-1 : OfClass(R, TurnClass(k)) # {}})
SourceTurn(R, c) ==
    LeastOf({k \in 0..Len(SourceCycle[c])-1 : OfSource(R, TurnSource(c, k)) # {}})

Selected(R) ==
    LET c == TurnClass(ClassTurn(R))
    IN  LeastOf(OfSource(R, TurnSource(c, SourceTurn(R, c))))

\* Mutants: the class cursor, or the source cursor, stays where it was.
ClassCursorStays(R) ==
    LET k == ClassTurn(R)
        c == TurnClass(k)
    IN  /\ UNCHANGED fair
        /\ rotation' = [rotation EXCEPT
              ![c] = Wrap(@ + SourceTurn(R, c) + 1, Len(SourceCycle[c]))]
SourceCursorStays(R) ==
    /\ fair' = Wrap(fair + ClassTurn(R) + 1, Len(FairCycle))
    /\ UNCHANGED rotation

AdvanceCursors(R) ==
    LET k == ClassTurn(R)
        c == TurnClass(k)
    IN  /\ fair' = Wrap(fair + k + 1, Len(FairCycle))
        /\ rotation' = [rotation EXCEPT
              ![c] = Wrap(@ + SourceTurn(R, c) + 1, Len(SourceCycle[c]))]

-----------------------------------------------------------------------------
(* Callers *)

\* Mutant: the source may go one over its contract.
SaturatedAbove(s, Q) ==
    \/ Cardinality({t \in Q : source[t] = s}) + sourceCount[s] > SourceLimit[s]
    \/ Cardinality(OfClass(Q, ClassOf[s])) + classCount[ClassOf[s]]
          >= Capacity[ClassOf[s]]

\* The tests admit makes before it creates a ticket, after it pruned the queues
\* down to Q.
Saturated(s, Q) ==
    \/ Cardinality({t \in Q : source[t] = s}) + sourceCount[s] >= SourceLimit[s]
    \/ Cardinality(OfClass(Q, ClassOf[s])) + classCount[ClassOf[s]]
          >= Capacity[ClassOf[s]]

\* admit up to its await: a new ticket, unless deferral(scope) turns it down.
Admit(s, d) ==
    LET t == seq + 1
        kept == queued \ Abandoned
        waiting == kept \cup {t}
        D == {x \in waiting : source'[x] \in held}
    IN  /\ ~closed
        /\ seq < MaxTicket
        /\ clock + d <= MaxTime
        /\ ~Saturated(s, kept)
        /\ seq' = t
        /\ source' = [source EXCEPT ![t] = s]
        /\ deadline' = [deadline EXCEPT ![t] = clock + d]
        /\ caller' = [caller EXCEPT ![t] = "waiting"]
        /\ state' = Settled([state EXCEPT ![t] = "queued"], D, {}, {})
        /\ fut' = Answered([fut EXCEPT ![t] = "pending"], D, {}, {})
        /\ queued' = waiting \ D
        /\ UNCHANGED <<slots, nextWrite, environment>>
        /\ EnsureDispatcher(timer)
        /\ UNCHANGED <<shutdown, cursors>>

\* admit raising RpcAdmissionSaturatedError; the queues were pruned first.
AdmitRejected(s) ==
    LET kept == queued \ Abandoned
    IN  /\ ~closed
        /\ Saturated(s, kept)
        /\ queued' = kept
        /\ UNCHANGED <<tickets, state, fut, caller, slots, nextWrite, timer,
                       dispatcher, shutdown, cursors, environment>>

\* The admitting coroutine runs again after its future was answered.
Resume(t) ==
    /\ caller[t] = "waiting"
    /\ fut[t] \in {"result", "error"}
    /\ caller' = [caller EXCEPT ![t] = IF fut[t] = "result" THEN "holding" ELSE "gone"]
    /\ UNCHANGED <<tickets, state, fut, queued, slots, nextWrite, timer,
                   dispatcher, shutdown, cursors, environment>>

\* task.cancel() on a caller waiting in admit: a pending future is cancelled at
\* once, the coroutine sees CancelledError only when it runs again.
CallerCancel(t) ==
    /\ caller[t] = "waiting"
    /\ caller' = [caller EXCEPT ![t] = "cancelling"]
    /\ fut' = [fut EXCEPT ![t] = IF @ = "pending" THEN "cancelled" ELSE @]
    /\ UNCHANGED <<tickets, state, queued, slots, nextWrite, timer,
                   dispatcher, shutdown, cursors, environment>>

\* Mutants: the slot is given back although the drain already took it, or is
\* never given back.
CancelTicketTwice(t) ==
    /\ caller[t] = "cancelling"
    /\ caller' = [caller EXCEPT ![t] = "gone"]
    /\ state' = [state EXCEPT ![t] = IF @ = "queued" THEN "cancelled" ELSE @]
    /\ queued' = queued \ {t}
    /\ IF state[t] = "dispatched" THEN Release(t) ELSE UNCHANGED slots
    /\ UNCHANGED <<tickets, fut, nextWrite, timer, dispatcher, shutdown,
                   cursors, environment>>
CancelTicketKeepsSlot(t) ==
    /\ caller[t] = "cancelling"
    /\ caller' = [caller EXCEPT ![t] = "gone"]
    /\ state' = [state EXCEPT ![t] = IF @ = "queued" THEN "cancelled" ELSE @]
    /\ queued' = queued \ {t}
    /\ UNCHANGED <<tickets, fut, slots, nextWrite, timer, dispatcher, shutdown,
                   cursors, environment>>

\* _cancel_ticket, reached from the CancelledError in admit.
CancelTicket(t) ==
    /\ caller[t] = "cancelling"
    /\ caller' = [caller EXCEPT ![t] = "gone"]
    /\ state' = [state EXCEPT ![t] = IF @ = "queued" THEN "cancelled" ELSE @]
    /\ queued' = queued \ {t}
    /\ IF state[t] = "dispatched" /\ t \in active
       THEN Release(t)
       ELSE UNCHANGED slots
    /\ UNCHANGED <<tickets, fut, nextWrite, timer, dispatcher, shutdown,
                   cursors, environment>>

\* Mutant: claiming the write already gives the slot back.
RecordDispatchReleases(t) ==
    /\ caller[t] = "holding"
    /\ t \in active \ recorded
    /\ ~closed
    /\ ready
    /\ nextWrite <= clock
    /\ releaseAt[source[t]] <= clock
    /\ Release(t)
    /\ nextWrite' = clock + Spacing
    /\ UNCHANGED <<tickets, queued, environment>>
    /\ Rearm(timer)
    /\ UNCHANGED <<state, fut, caller, dispatcher, shutdown, cursors>>

\* record_dispatch returning True: the attempt claims one physical write.
RecordDispatch(t) ==
    /\ caller[t] = "holding"
    /\ t \in active \ recorded
    /\ ~closed
    /\ ready
    /\ nextWrite <= clock
    /\ releaseAt[source[t]] <= clock
    /\ recorded' = recorded \cup {t}
    /\ nextWrite' = clock + Spacing
    /\ UNCHANGED <<tickets, queued, environment>>
    /\ Rearm(timer)
    /\ UNCHANGED <<state, fut, caller, active, classCount, sourceCount,
                   dispatcher, shutdown, cursors>>

\* complete, by a caller that is done with its admission (or never wrote).
Complete(t) ==
    /\ caller[t] = "holding"
    /\ caller' = [caller EXCEPT ![t] = "gone"]
    /\ UNCHANGED <<tickets, nextWrite, shutdown, cursors, environment>>
    /\ IF t \notin active
       THEN UNCHANGED <<state, fut, queued, slots, timer, dispatcher>>
       ELSE /\ Release(t)
            /\ IF ~closed /\ \E x \in queued : CanDispatch(x)'
               THEN LET D == HeldIn(queued)
                    IN  /\ state' = Settled(state, D, {}, {})
                        /\ fut' = Answered(fut, D, {}, {})
                        /\ queued' = queued \ D
                        /\ EnsureDispatcher(timer)
               ELSE UNCHANGED <<state, fut, queued, timer, dispatcher>>

-----------------------------------------------------------------------------
(* Timers *)

\* The ticket's own timer; it is cancelled whenever the ticket leaves "queued".
ExpireTicket(t) ==
    /\ state[t] = "queued"
    /\ deadline[t] <= clock
    /\ state' = Settled(state, {}, {t}, {})
    /\ fut' = Answered(fut, {}, {t}, {})
    /\ queued' = queued \ {t}
    /\ UNCHANGED <<tickets, caller, slots, nextWrite, timer, dispatcher,
                   shutdown, cursors, environment>>

\* _defer_held_tickets and the rest of _ensure_dispatcher_locked, in the state
\* the handler has reached, with the release timer at armed.
DeferAndEnsure(armed) ==
    LET D == {t \in queued : source[t] \in held'}
    IN  IF closed
        THEN /\ timer' = armed
             /\ UNCHANGED <<state, fut, queued, dispatcher>>
        ELSE /\ state' = Settled(state, D, {}, {})
             /\ fut' = Answered(fut, D, {}, {})
             /\ queued' = queued \ D
             /\ EnsureDispatcher(armed)

\* _release_ready
ReleaseTimer ==
    /\ timer <= clock
    /\ UNCHANGED <<tickets, caller, slots, nextWrite, shutdown, cursors, environment>>
    /\ DeferAndEnsure(Never)

-----------------------------------------------------------------------------
(* The dispatcher *)

\* _acquire_dispatch_capacity once the transport is ready: go on to the limiter,
\* or end the loop when nothing can be dispatched.
DispatcherCheck ==
    LET kept == queued \ Abandoned
        E == DueIn(kept)
    IN  /\ dispatcher = "readiness"
        /\ ready
        /\ state' = Settled(state, {}, E, {})
        /\ fut' = Answered(fut, {}, E, {})
        /\ queued' = kept \ E
        /\ dispatcher' = IF ~closed /\ \E t \in kept \ E : CanDispatch(t)
                         THEN "limiter" ELSE "none"
        /\ UNCHANGED <<tickets, caller, slots, nextWrite, timer, shutdown,
                       cursors, environment>>

\* The limiter grants a slot: _dispatch_one_ready_ticket, unless the transport
\* was lost meanwhile.
DispatcherSelect ==
    LET D == HeldIn(queued)
        kept == (queued \ D) \ Abandoned
        E == DueIn(kept)
        R == {t \in kept \ E : CanDispatch(t)}
        G == IF closed \/ R = {} THEN {} ELSE {Selected(R)}
    IN  /\ dispatcher = "limiter"
        /\ dispatcher' = "readiness"
        /\ UNCHANGED <<tickets, caller, nextWrite, timer, shutdown, environment>>
        /\ IF ~ready
           THEN UNCHANGED <<state, fut, queued, slots, cursors>>
           ELSE /\ state' = Settled(state, D, E, G)
                /\ fut' = Answered(fut, D, E, G)
                /\ queued' = (kept \ E) \ G
                /\ active' = active \cup G
                /\ classCount' = [c \in Classes |->
                       classCount[c] + Cardinality(OfClass(G, c))]
                /\ sourceCount' = [s \in Sources |->
                       sourceCount[s] + Cardinality(OfSource(G, s))]
                /\ UNCHANGED recorded
                /\ IF G = {} THEN UNCHANGED cursors ELSE AdvanceCursors(R)

\* limiter.acquire raises: _fail_closed_after_dispatch_error.
LimiterFails ==
    /\ dispatcher = "limiter"
    /\ dispatcher' = "none"
    /\ shutdown' = IF closed THEN shutdown ELSE "draining"
    /\ timer' = Never
    /\ UNCHANGED <<tickets, state, fut, caller, queued, slots, nextWrite,
                   cursors, environment>>

-----------------------------------------------------------------------------
(* Shutdown *)

\* _start_shutdown
StartShutdown ==
    /\ ~closed
    /\ shutdown' = "draining"
    /\ timer' = Never
    /\ UNCHANGED <<tickets, state, fut, caller, queued, slots, nextWrite,
                   dispatcher, cursors, environment>>

\* Mutants: the drain leaves the dispatcher running; it leaves the queued
\* futures unanswered.
DrainKeepsDispatcher ==
    /\ shutdown = "draining"
    /\ shutdown' = "drained"
    /\ state' = [t \in Tickets |-> IF t \in queued THEN "closed" ELSE state[t]]
    /\ fut' = Answered(fut, queued, {}, {})
    /\ queued' = {}
    /\ caller' = [t \in Tickets |-> IF t \in active /\ caller[t] = "waiting"
                                    THEN "cancelling" ELSE caller[t]]
    /\ active' = {}
    /\ recorded' = {}
    /\ classCount' = [c \in Classes |-> 0]
    /\ sourceCount' = [s \in Sources |-> 0]
    /\ UNCHANGED <<tickets, nextWrite, timer, dispatcher, cursors, environment>>
DrainUnanswered ==
    /\ shutdown = "draining"
    /\ shutdown' = "drained"
    /\ state' = [t \in Tickets |-> IF t \in queued THEN "closed" ELSE state[t]]
    /\ queued' = {}
    /\ caller' = [t \in Tickets |-> IF t \in active /\ caller[t] = "waiting"
                                    THEN "cancelling" ELSE caller[t]]
    /\ active' = {}
    /\ recorded' = {}
    /\ classCount' = [c \in Classes |-> 0]
    /\ sourceCount' = [s \in Sources |-> 0]
    /\ dispatcher' = "none"
    /\ UNCHANGED <<tickets, fut, nextWrite, timer, cursors, environment>>

\* _drain_shutdown: close what is queued, forget what is active, cancel the
\* dispatcher and the owners of active attempts.
DrainShutdown ==
    /\ shutdown = "draining"
    /\ shutdown' = "drained"
    /\ state' = [t \in Tickets |-> IF t \in queued THEN "closed" ELSE state[t]]
    /\ fut' = Answered(fut, queued, {}, {})
    /\ queued' = {}
    /\ caller' = [t \in Tickets |-> IF t \in active /\ caller[t] = "waiting"
                                    THEN "cancelling" ELSE caller[t]]
    /\ active' = {}
    /\ recorded' = {}
    /\ classCount' = [c \in Classes |-> 0]
    /\ sourceCount' = [s \in Sources |-> 0]
    /\ dispatcher' = "none"
    /\ UNCHANGED <<tickets, nextWrite, timer, cursors, environment>>

-----------------------------------------------------------------------------
(* The transport gate around the scheduler, as the scheduler uses it *)

\* A restriction is set or lifted; the gate calls notify_eligibility_changed,
\* which drops the armed timer before it re-examines the queues.
EligibilityChange(s) ==
    /\ \/ /\ \E r \in Releases \cup {Never} :
                 r # releaseAt[s] /\ releaseAt' = [releaseAt EXCEPT ![s] = r]
          /\ UNCHANGED held
       \/ /\ s \in Deferrable
          /\ held' = IF s \in held THEN held \ {s} ELSE held \cup {s}
          /\ UNCHANGED releaseAt
    /\ UNCHANGED <<tickets, caller, slots, nextWrite, shutdown, cursors, clock, ready>>
    /\ DeferAndEnsure(Never)

\* The connection is lost or restored; the dispatcher polls for it.
ReadinessChange ==
    /\ ready' = ~ready
    /\ UNCHANGED <<tickets, state, fut, caller, queued, slots, nextWrite, timer,
                   dispatcher, shutdown, cursors, clock, releaseAt, held>>

Tick ==
    /\ clock < MaxTime
    /\ clock' = clock + 1
    /\ UNCHANGED <<tickets, state, fut, caller, queued, slots, nextWrite, timer,
                   dispatcher, shutdown, cursors, ready, releaseAt, held>>

-----------------------------------------------------------------------------
Init ==
    /\ seq = 0
    /\ source = [t \in Tickets |-> CHOOSE s \in Sources : TRUE]
    /\ deadline = [t \in Tickets |-> 0]
    /\ state = [t \in Tickets |-> "free"]
    /\ fut = [t \in Tickets |-> "none"]
    /\ caller = [t \in Tickets |-> "idle"]
    /\ queued = {} /\ active = {} /\ recorded = {}
    /\ classCount = [c \in Classes |-> 0]
    /\ sourceCount = [s \in Sources |-> 0]
    /\ nextWrite = 0
    /\ timer = Never
    /\ dispatcher = "none"
    /\ shutdown = "open"
    /\ fair = 0
    /\ rotation = [c \in Classes |-> 0]
    /\ clock = 0
    /\ ready = TRUE
    /\ releaseAt = [s \in Sources |-> 0]
    /\ held = {}

CallerStep(t) ==
    \/ Resume(t)
    \/ CallerCancel(t)
    \/ CancelTicket(t)
    \/ RecordDispatch(t)
    \/ Complete(t)

Next ==
    \/ \E s \in Sources : \/ \E d \in Deadlines : Admit(s, d)
                          \/ AdmitRejected(s)
                          \/ EligibilityChange(s)
    \/ \E t \in Tickets : CallerStep(t) \/ ExpireTicket(t)
    \/ ReleaseTimer
    \/ DispatcherCheck
    \/ DispatcherSelect
    \/ LimiterFails
    \/ StartShutdown
    \/ DrainShutdown
    \/ ReadinessChange
    \/ Tick

Spec == Init /\ [][Next]_vars

\* asyncio runs ready callbacks and due timers; limiter and transport may stall
\* forever and nobody has to shut the scheduler down.
Fairness ==
    /\ WF_vars(Tick)
    /\ WF_vars(DrainShutdown)
    /\ \A t \in Tickets : /\ WF_vars(ExpireTicket(t))
                          /\ WF_vars(Resume(t))
                          /\ WF_vars(CancelTicket(t))

FairSpec == Spec /\ Fairness

-----------------------------------------------------------------------------
(* Properties *)

TicketState == {"free", "queued", "dispatched", "expired", "cancelled",
                "closed", "deferred"}
FutureState == {"none", "pending", "result", "error", "cancelled"}
CallerState == {"idle", "waiting", "cancelling", "holding", "gone"}
DispatcherState == {"none", "readiness", "limiter"}

TypeOK ==
    /\ seq \in 0..MaxTicket
    /\ source \in [Tickets -> Sources]
    /\ deadline \in [Tickets -> 0..MaxTime]
    /\ state \in [Tickets -> TicketState]
    /\ fut \in [Tickets -> FutureState]
    /\ caller \in [Tickets -> CallerState]
    /\ queued \subseteq Tickets
    /\ active \subseteq Tickets
    /\ recorded \subseteq Tickets
    /\ classCount \in [Classes -> Int]
    /\ sourceCount \in [Sources -> Int]
    /\ nextWrite \in Instants
    /\ timer \in Instants
    /\ dispatcher \in DispatcherState
    /\ shutdown \in {"open", "draining", "drained"}
    /\ fair \in 0..Len(FairCycle)-1
    /\ rotation \in [Classes -> Nat]
    /\ \A c \in Classes : rotation[c] < Len(SourceCycle[c])
    /\ clock \in 0..MaxTime
    /\ ready \in BOOLEAN
    /\ releaseAt \in [Sources -> Instants]
    /\ held \subseteq Sources

\* The counters admission decides on agree with the attempts that are really
\* active: no completion, cancellation or shutdown releases a slot twice or
\* forgets one (complete, _cancel_ticket, _clear_active_locked).
CountersExact ==
    /\ \A c \in Classes : classCount[c] = Cardinality(ActiveOfClass(c))
    /\ \A s \in Sources : sourceCount[s] = Cardinality(ActiveOfSource(s))

\* Queued and active work together stay within the class capacity and the
\* source's contract, in every interleaving ("limits outstanding work").
OutstandingBounded ==
    /\ \A c \in Classes :
          Cardinality(QueuedOfClass(c)) + classCount[c] <= Capacity[c]
    /\ \A s \in Sources :
          Cardinality(QueuedOfSource(s)) + sourceCount[s] <= SourceLimit[s]

\* An active slot always has an owner that will release it: a caller cancelled
\* between the grant and its resumption may not leave its slot behind.
SlotsOwned ==
    \A t \in active : /\ state[t] = "dispatched"
                      /\ caller[t] \in {"waiting", "cancelling", "holding"}
                      /\ fut[t] = "result"

\* A caller that holds an admission has its slot, until a shutdown takes all.
HoldersActive ==
    \A t \in Tickets :
        caller[t] = "holding" /\ shutdown # "drained" => t \in active

\* A caller suspended on a pending future is in a queue with its expiry timer
\* armed: pruning, deferral, selection and shutdown never drop one unanswered.
PendingIsQueued ==
    \A t \in Tickets :
        fut[t] = "pending" => t \in queued /\ state[t] = "queued"

\* After the drain nothing is queued, active, scheduled or dispatching, and no
\* later handler revives anything (close).
DrainedIsEmpty ==
    shutdown = "drained" =>
        /\ queued = {} /\ active = {}
        /\ dispatcher = "none" /\ timer = Never
        /\ \A t \in Tickets : fut[t] # "pending"

\* A ticket is never granted at or past its deadline, nor to a caller that is
\* already cancelled or answered (_dispatch_one_ready_ticket rechecks both).
GrantsAreTimely ==
    [][\A t \in active' \ active : deadline[t] > clock /\ fut[t] = "pending"]_vars

\* An open scheduler with work that may be written now has a dispatcher running
\* or a timer due ("The class scheduler stays work-conserving").
WorkConserving ==
    ~closed /\ (\E t \in queued : fut[t] = "pending" /\ CanDispatch(t))
        => dispatcher # "none" \/ timer <= clock

\* Every admission is answered: granted, or refused with a typed error.
EveryCallerAnswered ==
    \A t \in Tickets :
        caller[t] \in {"waiting", "cancelling"} ~> caller[t] \in {"holding", "gone"}

=============================================================================
