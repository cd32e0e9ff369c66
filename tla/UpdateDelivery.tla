--------------------------- MODULE UpdateDelivery ---------------------------
(***************************************************************************)
(* Durable delivery of Telegram updates: UpdateDeliveryRepository          *)
(* (update_delivery.py) and the delivery half of TelegramRpcGate           *)
(* (telegram_rpc.py).  A batch that the vendor loop hands over is committed *)
(* as the one pending package, its updates are dispatched concurrently to  *)
(* the event handlers, and only when every handler has succeeded does the  *)
(* protocol checkpoint move past the batch.  The process may stop anywhere *)
(* and replays the package it finds.                                       *)
(*                                                                         *)
(* Updates are numbered in the order of the account's protocol position,   *)
(* so a ProtocolSnapshot is the number of the last update it covers.  The  *)
(* vendor's message box (external) returns the updates after its head,     *)
(* pushed or fetched as a difference.  A step runs to the next await.      *)
(***************************************************************************)
EXTENDS Integers, FiniteSets

CONSTANTS
    MaxUpdate,  \* bound: updates the account receives
    MaxBatch,   \* bound: updates in one envelope
    MaxFaults,  \* bound: crashes, failures, cancellations and shutdowns
    MaxOther    \* bound: observations of others between the admissions

ASSUME BoundAssumption ==
    /\ MaxUpdate \in Nat \ {0}
    /\ MaxBatch \in Nat \ {0}
    /\ MaxFaults \in Nat
    /\ MaxOther \in Nat

Updates == 1..MaxUpdate
Package == [first : 1..MaxUpdate + 1, last : 0..MaxUpdate]
NoPackage == [first |-> 0, last |-> 0]
UpdatesOf(p) == {u \in Updates : p.first <= u /\ u <= p.last}

VARIABLES
    \* sync.db
    safe,       \* safe_snapshot
    pending,    \* the pending package
    token,      \* update_delivery_tokens: observation order of pending updates
    sequence,   \* canonical_observation_sequence
    wrote,      \* orders under which handlers committed an update's effects
    \* the vendor's session file
    entities,   \* position up to which its peers are saved
    \* the process
    phase,      \* of start_update_delivery
    known,      \* _delivery_safe
    head,       \* position of the message box
    loop,       \* where _update_loop is
    envelope,   \* the envelope _preprocess_updates has captured
    active,     \* _active_delivery
    task,       \* _dispatch_update of each update
    failed,     \* updates whose context is failed
    done,       \* active.done
    completing, \* where _complete_update_delivery is
    failure,    \* _delivery_failure
    closed,     \* _delivery_closed
    ready,      \* _delivery_ready
    \* history
    handled,    \* updates of which a whole dispatch succeeded
    faults      \* faults so far

disk == <<safe, pending, token, sequence>>
memory == <<phase, known, head, loop, envelope, active, task, failed, done,
            completing, failure, closed, ready>>
vars == <<disk, wrote, entities, memory, handled, faults>>

Fault == faults < MaxFaults /\ faults' = faults + 1
\* The event a waiter on the active delivery waits for.
Settled == active = NoPackage \/ done

-----------------------------------------------------------------------------
(* Completion *)

\* Mutants: failed handlers are not looked at; the session is not saved.
BeginCompleteAnyway(p, F, d) ==
    /\ ~closed
    /\ completing' = "writing"
    /\ entities' = IF p.last > entities THEN p.last ELSE entities
    /\ done' = d
    /\ UNCHANGED <<failure, faults>>
BeginCompleteUnsaved(p, F, d) ==
    /\ completing' = IF closed \/ F # {} THEN completing ELSE "writing"
    /\ failure' = (failure \/ (F # {} /\ ~closed))
    /\ done' = IF closed \/ F # {} THEN TRUE ELSE d
    /\ UNCHANGED <<entities, faults>>

\* _complete_update_delivery up to its await, for package p whose updates F have
\* failed and whose event was d: save the session, then submit the checkpoint.
BeginComplete(p, F, d) ==
    \/ /\ closed \/ F # {}
       /\ failure' = (failure \/ ~closed)
       /\ done' = TRUE
       /\ UNCHANGED <<completing, entities, faults>>
    \/ /\ ~closed /\ F = {}
       /\ completing' = "writing"
       /\ entities' = IF p.last > entities THEN p.last ELSE entities
       /\ done' = d
       /\ UNCHANGED <<failure, faults>>
    \/ /\ ~closed /\ F = {}     \* the session cannot be saved
       /\ Fault
       /\ failure' = TRUE
       /\ done' = TRUE
       /\ UNCHANGED <<completing, entities>>

\* Mutant: the checkpoint is one update ahead of the package.
CompleteCommitsAhead ==
    /\ completing = "writing"
    /\ pending # NoPackage
    /\ safe' = active.last + 1
    /\ pending' = NoPackage
    /\ token' = [u \in Updates |-> 0]
    /\ completing' = "written"
    /\ UNCHANGED <<sequence, wrote, entities, phase, known, head, loop, envelope,
                   active, task, failed, done, failure, closed, ready, handled, faults>>

\* repository.complete commits.
CompleteCommits ==
    /\ completing = "writing"
    /\ pending # NoPackage
    /\ safe' = active.last
    /\ pending' = NoPackage
    /\ token' = [u \in Updates |-> 0]
    /\ completing' = "written"
    /\ UNCHANGED <<sequence, wrote, entities, phase, known, head, loop, envelope,
                   active, task, failed, done, failure, closed, ready, handled, faults>>

\* The rest of _complete_update_delivery; the loop waits for an empty package.
CompleteReturns ==
    /\ completing = "written"
    /\ known' = active.last
    /\ active' = NoPackage
    /\ done' = TRUE
    /\ completing' = "no"
    /\ loop' = IF loop = "completing" THEN "intake" ELSE loop
    /\ UNCHANGED <<disk, wrote, entities, phase, head, envelope, task, failed,
                   failure, closed, ready, handled, faults>>

\* repository.complete raises, or its caller was cancelled: before or after the
\* commit, which SQLiteWriter.run lets settle.
CompleteFails ==
    /\ completing \in {"writing", "written"}
    /\ Fault
    /\ failure' = TRUE
    /\ done' = TRUE
    /\ completing' = "no"
    /\ loop' \in IF loop = "completing" THEN {"stopped", "prior"} ELSE {loop}
    /\ UNCHANGED <<disk, wrote, entities, phase, known, head, envelope, active,
                   task, failed, closed, ready, handled>>

-----------------------------------------------------------------------------
(* Dispatch *)

\* The updates of p are handed to the handlers under their admission's tokens.
Install(p) ==
    /\ active' = p
    /\ task' = [u \in Updates |-> IF u \in UpdatesOf(p) THEN "created" ELSE "none"]
    /\ failed' = {}

\* _dispatch_update starts; after a close it returns and the update remains.
DispatchStarts(u) ==
    /\ task[u] = "created"
    /\ task' = [task EXCEPT ![u] = IF closed THEN "dropped" ELSE "running"]
    /\ UNCHANGED <<disk, wrote, entities, phase, known, head, loop, envelope, active,
                   failed, done, completing, failure, closed, ready, handled, faults>>

\* Mutant: the handler takes a fresh order.
HandlerWritesFresh(u) ==
    /\ task[u] = "running"
    /\ sequence' = sequence + 1
    /\ wrote' = [wrote EXCEPT ![u] = @ \cup {sequence'}]
    /\ task' = [task EXCEPT ![u] = "written"]
    /\ UNCHANGED <<safe, pending, token, entities, phase, known, head, loop, envelope,
                   active, failed, done, completing, failure, closed, ready, handled, faults>>

\* A handler commits what the update says, under its retained order.
HandlerWrites(u) ==
    /\ task[u] = "running"
    /\ wrote' = [wrote EXCEPT ![u] = @ \cup {token[u]}]
    /\ task' = [task EXCEPT ![u] = "written"]
    /\ UNCHANGED <<disk, entities, phase, known, head, loop, envelope, active,
                   failed, done, completing, failure, closed, ready, handled, faults>>

RemainingNone(u) == {}   \* mutant: the first dispatch that ends completes
\* What is left of the active package when the dispatch of u ends.
Remaining(u) == {v \in UpdatesOf(active) \ {u} : task[v] # "ended"}

\* _dispatch_update ends after the handlers succeeded; the last one completes.
DispatchSucceeds(u) ==
    /\ task[u] = "written"
    /\ task' = [task EXCEPT ![u] = "ended"]
    /\ handled' = handled \cup {u}
    /\ IF Remaining(u) = {}
       THEN BeginComplete(active, failed, done)
       ELSE UNCHANGED <<failure, done, completing, entities, faults>>
    /\ UNCHANGED <<disk, wrote, phase, known, head, loop, envelope, active, failed,
                   closed, ready>>

\* Mutant: nobody is told that the package failed.
DispatchFailsSilently(u) ==
    /\ task[u] \in {"running", "written"}
    /\ Fault
    /\ task' = [task EXCEPT ![u] = "ended"]
    /\ failed' = failed \cup {u}
    /\ done' = (done \/ Remaining(u) = {})
    /\ UNCHANGED <<disk, wrote, entities, phase, known, head, loop, envelope, active,
                   completing, failure, closed, ready, handled>>

\* A handler raises, before or after it wrote.  The vendor swallows the error,
\* the context remembers it; a cancellation is reported at once.
DispatchFails(u) ==
    /\ task[u] \in {"running", "written"}
    /\ Fault
    /\ task' = [task EXCEPT ![u] = "ended"]
    /\ failed' = failed \cup {u}
    /\ \/ failure' = TRUE
       \/ failure' = (failure \/ (Remaining(u) = {} /\ ~closed))
    /\ done' = (done \/ Remaining(u) = {})
    /\ UNCHANGED <<disk, wrote, entities, phase, known, head, loop, envelope, active,
                   completing, closed, ready, handled>>

-----------------------------------------------------------------------------
(* The vendor's update loop *)

\* Mutant: the replacement loop goes on from the cancelled loop's position.
LoopKeepsHead ==
    /\ loop = "prior"
    /\ ready \/ closed
    /\ Settled
    /\ loop' = IF closed \/ failure THEN "stopped" ELSE "intake"
    /\ UNCHANGED <<disk, wrote, entities, phase, known, head, envelope, active, task,
                   failed, done, completing, failure, closed, ready, handled, faults>>

\* A loop begins, the first or one that replaces a cancelled loop.
LoopBegins ==
    /\ loop = "prior"
    /\ ready \/ closed
    /\ Settled
    /\ IF closed \/ failure
       THEN loop' = "stopped" /\ UNCHANGED head
       ELSE loop' = "intake" /\ head' = known
    /\ UNCHANGED <<disk, wrote, entities, phase, known, envelope, active, task,
                   failed, done, completing, failure, closed, ready, handled, faults>>

\* The message box advances over k updates and _preprocess_updates captures the
\* envelope with the checkpoint after them, before it waits for anything.
Intake(k) ==
    /\ loop = "intake"
    /\ head + k <= MaxUpdate
    /\ head' = head + k
    /\ envelope' = [first |-> head + 1, last |-> head + k]
    /\ loop' = IF closed THEN "stopped" ELSE "captured"
    /\ UNCHANGED <<disk, wrote, entities, phase, known, active, task, failed, done,
                   completing, failure, closed, ready, handled, faults>>

\* The prior delivery has settled: submit the envelope unless admission closed.
SubmitAdmission ==
    /\ loop = "captured"
    /\ Settled
    /\ loop' = IF closed \/ failure \/ ~ready THEN "stopped" ELSE "admitting"
    /\ UNCHANGED <<disk, wrote, entities, phase, known, head, envelope, active, task,
                   failed, done, completing, failure, closed, ready, handled, faults>>

\* repository.admit: the package and its tokens are committed together; it is
\* refused while a package is pending.
AdmissionSettles ==
    /\ loop = "admitting"
    /\ IF pending = NoPackage
       THEN /\ pending' = envelope
            /\ token' = [u \in Updates |-> IF u \in UpdatesOf(envelope)
                            THEN sequence + 1 + u - envelope.first ELSE 0]
            /\ sequence' = sequence + Cardinality(UpdatesOf(envelope))
            /\ loop' = "admitted"
            /\ UNCHANGED failure
       ELSE /\ loop' = "stopped"
            /\ failure' = TRUE
            /\ UNCHANGED <<pending, token, sequence>>
    /\ UNCHANGED <<safe, wrote, entities, phase, known, head, envelope, active, task,
                   failed, done, completing, closed, ready, handled, faults>>

\* _preprocess_updates resumes and installs the package; the vendor loop starts
\* its dispatches before it looks at anything else.
AdmissionReturns ==
    /\ loop = "admitted"
    /\ Install(envelope)
    /\ IF UpdatesOf(envelope) = {}
       THEN /\ BeginComplete(envelope, {}, FALSE)
            /\ loop' = IF closed THEN "intake"
                       ELSE IF completing' = "writing" THEN "completing" ELSE "stopped"
       ELSE /\ done' = FALSE
            /\ loop' = "intake"
            /\ UNCHANGED <<completing, entities, failure, faults>>
    /\ UNCHANGED <<disk, wrote, phase, known, head, envelope, closed, ready, handled>>

\* The writer failed, the authorization scope changed, or the loop was cancelled
\* while it awaited the admission: the package may be committed already.
AdmissionFails ==
    /\ loop \in {"admitting", "admitted"}
    /\ Fault
    /\ failure' = TRUE
    /\ loop' \in {"stopped", "prior"}
    /\ UNCHANGED <<disk, wrote, entities, phase, known, head, envelope, active, task,
                   failed, done, completing, closed, ready, handled>>

\* A migration outside the loop disconnects, which cancels it, and connects again.
LoopReplaced ==
    /\ loop \in {"intake", "captured"}
    /\ Fault
    /\ loop' = "prior"
    /\ UNCHANGED <<disk, wrote, entities, phase, known, head, envelope, active, task,
                   failed, done, completing, failure, closed, ready, handled>>

-----------------------------------------------------------------------------
(* The process *)

\* start_update_delivery up to the vendor loop's release, or to the handlers of
\* the package it found.
Start ==
    /\ phase = "down"
    /\ known' = safe /\ head' = safe
    /\ loop' = "prior" /\ envelope' = NoPackage
    /\ closed' = FALSE
    /\ Install(pending)
    /\ ready' = (pending = NoPackage)
    /\ phase' = IF pending = NoPackage THEN "serving" ELSE "replaying"
    /\ IF pending # NoPackage /\ UpdatesOf(pending) = {}
       THEN /\ ~closed /\ ~failure
            /\ BeginComplete(pending, {}, FALSE)
       ELSE /\ done' = FALSE /\ completing' = "no" /\ failure' = FALSE
            /\ UNCHANGED <<entities, faults>>
    /\ UNCHANGED <<disk, wrote, handled>>

\* The replay is over: release the vendor loop from the completed checkpoint, or
\* give up and leave the package where it is.
ReplayEnds ==
    /\ phase = "replaying"
    /\ \/ /\ failure \/ (closed /\ Settled)
          /\ phase' = "failed"
          /\ UNCHANGED <<head, ready>>
       \/ /\ ~failure /\ ~closed
          /\ active = NoPackage
          /\ head' = known
          /\ ready' = TRUE
          /\ phase' = "serving"
    /\ UNCHANGED <<disk, wrote, entities, known, loop, envelope, active, task, failed,
                   done, completing, failure, closed, handled, faults>>

\* close_update_delivery, because a critical task failed or on request.
Close ==
    /\ phase # "down"
    /\ ~closed
    /\ IF failure \/ phase = "failed" THEN UNCHANGED faults ELSE Fault
    /\ closed' = TRUE
    /\ ready' = FALSE
    /\ failed' = UpdatesOf(active)
    /\ done' = (active # NoPackage \/ done)
    /\ UNCHANGED <<disk, wrote, entities, phase, known, head, loop, envelope, active,
                   task, completing, failure, handled>>

\* The process ends, after a shutdown or by a crash.
Exit ==
    /\ phase # "down"
    /\ IF closed THEN UNCHANGED faults ELSE Fault
    /\ phase' = "down"
    /\ loop' = "stopped" /\ envelope' = NoPackage
    /\ known' = 0 /\ head' = 0
    /\ Install(NoPackage)
    /\ done' = FALSE /\ completing' = "no"
    /\ failure' = FALSE /\ closed' = FALSE /\ ready' = FALSE
    /\ UNCHANGED <<disk, wrote, entities, handled>>

\* Another owner of observations takes an order from the shared sequence.
OtherObservation ==
    /\ sequence < MaxUpdate + MaxOther
    /\ sequence' = sequence + 1
    /\ UNCHANGED <<safe, pending, token, wrote, entities, memory, handled, faults>>

-----------------------------------------------------------------------------
Init ==
    /\ safe = 0 /\ pending = NoPackage /\ sequence = 0
    /\ token = [u \in Updates |-> 0]
    /\ wrote = [u \in Updates |-> {}]
    /\ entities = 0
    /\ phase = "down" /\ known = 0 /\ head = 0
    /\ loop = "stopped" /\ envelope = NoPackage /\ active = NoPackage
    /\ task = [u \in Updates |-> "none"]
    /\ failed = {} /\ done = FALSE /\ completing = "no"
    /\ failure = FALSE /\ closed = FALSE /\ ready = FALSE
    /\ handled = {} /\ faults = 0

IntakeSome == \E k \in 1..MaxBatch : Intake(k)
Dispatch(u) == DispatchStarts(u) \/ HandlerWrites(u) \/ DispatchSucceeds(u) \/ DispatchFails(u)
Complete == CompleteCommits \/ CompleteReturns \/ CompleteFails
Admission == SubmitAdmission \/ AdmissionSettles \/ AdmissionReturns \/ AdmissionFails

CloseFailed == (failure \/ phase = "failed") /\ Close
ExitClosed == closed /\ Exit

Next ==
    \/ Complete
    \/ \E u \in Updates : Dispatch(u)
    \/ LoopBegins \/ IntakeSome \/ Intake(0) \/ Admission \/ LoopReplaced
    \/ Start \/ ReplayEnds \/ Close \/ Exit
    \/ OtherObservation

Spec == Init /\ [][Next]_vars

\* The loop runs its ready coroutines and the writer its queue, handlers return,
\* a failed critical task shuts the daemon down and the service manager starts
\* it again.  Empty envelopes do not keep the account's updates away for ever.
Fairness ==
    /\ WF_vars(Complete) /\ WF_vars(Admission) /\ WF_vars(LoopBegins)
    /\ SF_vars(IntakeSome)
    /\ \A u \in Updates : WF_vars(Dispatch(u))
    /\ WF_vars(Start) /\ WF_vars(ReplayEnds)
    /\ WF_vars(CloseFailed) /\ WF_vars(ExitClosed)

FairSpec == Spec /\ Fairness

-----------------------------------------------------------------------------
(* Properties *)

TaskState == {"none", "created", "running", "written", "ended", "dropped"}

TypeOK ==
    /\ safe \in 0..MaxUpdate /\ known \in 0..MaxUpdate /\ head \in 0..MaxUpdate
    /\ entities \in 0..MaxUpdate
    /\ pending \in Package \cup {NoPackage}
    /\ envelope \in Package \cup {NoPackage}
    /\ active \in Package \cup {NoPackage}
    /\ sequence \in Nat
    /\ token \in [Updates -> Nat]
    /\ wrote \in [Updates -> SUBSET Nat]
    /\ phase \in {"down", "replaying", "serving", "failed"}
    /\ loop \in {"prior", "intake", "captured", "admitting", "admitted",
                 "completing", "stopped"}
    /\ task \in [Updates -> TaskState]
    /\ failed \subseteq Updates /\ handled \subseteq Updates
    /\ completing \in {"no", "writing", "written"}
    /\ done \in BOOLEAN /\ failure \in BOOLEAN
    /\ closed \in BOOLEAN /\ ready \in BOOLEAN
    /\ faults \in 0..MaxFaults

\* The protocol checkpoint never passes an update whose handlers have not all
\* succeeded: whatever fails, is cancelled or crashes, nothing is lost for good.
CheckpointHandled ==
    \A u \in Updates : u <= safe => u \in handled

\* Packages follow each other without a gap or an overlap, although the envelope
\* is captured before the delivery in front of it has settled; admission is never
\* attempted while one is pending ("an update delivery is already pending").
PackagesChain ==
    /\ pending # NoPackage => pending.first = safe + 1
    /\ loop = "admitting" => pending = NoPackage

\* Whatever is handled is durably admitted and is not covered by the checkpoint:
\* handlers run under tokens that a restart will find again.
DispatchedIsPending ==
    \A u \in Updates : task[u] \in {"running", "written"} =>
        u \in UpdatesOf(pending) /\ token[u] # 0

\* The effects of an update always carry the same order, also when a restart
\* replays it, and orders follow the order of the updates.
EffectsKeepOrder ==
    /\ \A u \in Updates : \A a, b \in wrote[u] : a = b
    /\ \A u, v \in Updates : u < v => \A a \in wrote[u], b \in wrote[v] : a < b

\* The session file can recover the peers of every checkpoint in sync.db:
\* "Entity/access-hash durability precedes authoritative completion".
SessionCoversCheckpoint == safe <= entities

\* What delivery promises, whatever happens inside.
Reliable == INSTANCE ReliableDelivery WITH checkpoint <- safe
ImplementsReliable == Reliable!Spec

\* Every update of the account is handled and passed by the checkpoint, through
\* any finite number of faults.
EverythingDelivered == <>(safe = MaxUpdate)

=============================================================================
