------------------------ MODULE UpdateDeliveryProofs ------------------------
(***************************************************************************)
(* UpdateDelivery never loses an update and implements ReliableDelivery,   *)
(* for every number of updates, size of envelope and number of faults.     *)
(*                                                                         *)
(* UpdateRing keeps the records of its accounts apart, stays within its    *)
(* bytes and reports every loss, for all its limits, captures, logouts,    *)
(* failures of the writer and restarts.                                    *)
(*                                                                         *)
(* UpdateIntake gives input and differences their turns and keeps the gap  *)
(* of what it withholds, for all channels, envelopes, waits and holds.     *)
(***************************************************************************)
EXTENDS UpdateDelivery, UpdateRing, UpdateIntake, FiniteSetTheorems, SequenceTheorems,
        WellFoundedInduction, TLAPS

Envelope(p) == /\ p \in Package
               /\ p.first - 1 <= p.last
               /\ p.last < p.first + MaxBatch

\* The position after which the next envelope begins.
LastKnown == IF active = NoPackage THEN safe ELSE active.last

\* The pending package is the one behind the checkpoint.
Chain == pending # NoPackage => Envelope(pending) /\ pending.first = safe + 1

\* The active delivery is the pending package, or its completion was committed.
ActiveIsPending ==
    /\ active # NoPackage => Envelope(active)
    /\ active # NoPackage /\ done => failure \/ closed
    /\ completing = "writing" => active # NoPackage /\ active = pending
    /\ completing = "written" => /\ active # NoPackage
                                 /\ pending = NoPackage /\ safe = active.last
    /\ completing = "no" /\ active # NoPackage =>
          \/ active = pending
          \/ failure /\ done /\ pending = NoPackage /\ safe = active.last
    /\ completing # "no" => UpdatesOf(active) \subseteq handled

\* A dispatch belongs to the pending package; one that ended succeeded or failed.
Dispatches ==
    /\ \A u \in Updates : task[u] \notin {"none", "ended"} =>
          /\ active # NoPackage /\ active = pending
          /\ u \in UpdatesOf(active)
          /\ completing = "no"
    /\ \A u \in UpdatesOf(active) : active # NoPackage => task[u] # "none"
    /\ \A u \in Updates : task[u] = "ended" =>
          u \in handled \/ (active # NoPackage /\ u \in UpdatesOf(active) /\ u \in failed)

\* Without an active delivery the process knows the checkpoint, and a package is
\* pending only between its admission and its dispatch, or for a restart.
Idle ==
    /\ phase # "down" /\ active = NoPackage => known = safe
    /\ pending # NoPackage /\ active = NoPackage =>
          phase = "down" \/ loop = "admitted" \/ failure
    /\ phase = "down" => loop = "stopped" /\ active = NoPackage /\ completing = "no"
    /\ phase = "replaying" => ~ready /\ loop \in {"prior", "stopped"}

\* Where the vendor loop stands relative to what is admitted.
LoopPosition ==
    /\ loop = "intake" => head = LastKnown \/ failure \/ closed
    /\ loop \in {"captured", "admitting", "admitted"} =>
          Envelope(envelope) /\ head = envelope.last
    /\ loop = "captured" => envelope.first = LastKnown + 1 \/ failure \/ closed
    /\ loop = "admitting" =>
          active = NoPackage /\ pending = NoPackage /\ envelope.first = safe + 1
    /\ loop = "admitted" => active = NoPackage /\ pending = envelope
    /\ loop = "completing" => active # NoPackage /\ head = active.last

Covered == CheckpointHandled /\ SessionCoversCheckpoint
              /\ (completing # "no" => active.last <= entities)

Inv == TypeOK /\ Chain /\ ActiveIsPending /\ Dispatches /\ Idle /\ LoopPosition /\ Covered

-----------------------------------------------------------------------------
(* The operators of the model *)

\* Saving the session and submitting the checkpoint keep the types.
LEMMA BeginCompleteType ==
    ASSUME TypeOK, NEW p \in Package \cup {NoPackage}, NEW F, NEW d \in BOOLEAN,
           BeginComplete(p, F, d)
    PROVE  /\ entities' \in 0..MaxUpdate
           /\ completing' \in {"no", "writing", "written"}
           /\ done' \in BOOLEAN /\ failure' \in BOOLEAN
           /\ faults' \in 0..MaxFaults
<1>1. p.last \in 0..MaxUpdate
  BY BoundAssumption DEF Package, NoPackage
<1>2. faults' = faults \/ Fault
  BY DEF BeginComplete
<1>3. faults' \in 0..MaxFaults
  BY <1>2, BoundAssumption DEF Fault, TypeOK
<1>4. entities' \in 0..MaxUpdate /\ completing' \in {"no", "writing", "written"}
  BY <1>1 DEF BeginComplete, TypeOK
<1>5. done' \in BOOLEAN
  BY DEF BeginComplete, TypeOK
<1>6. failure' \in BOOLEAN
  BY Zenon DEF BeginComplete, TypeOK
<1> QED BY <1>3, <1>4, <1>5, <1>6

\* Handing out a package keeps the types.
LEMMA InstallType ==
    ASSUME TypeOK, NEW p \in Package \cup {NoPackage}, Install(p)
    PROVE  /\ active' \in Package \cup {NoPackage}
           /\ task' \in [Updates -> TaskState]
           /\ failed' \subseteq Updates
BY DEF Install, TaskState

\* A fault is counted up to its bound.
LEMMA FaultType ==
    ASSUME TypeOK, Fault \/ UNCHANGED faults
    PROVE  faults' \in 0..MaxFaults
BY BoundAssumption DEF Fault, TypeOK

-----------------------------------------------------------------------------
(* Every step keeps the invariant *)

\* Committing a completion: the window is handled and its peers saved.
LEMMA CompleteCommitsPreserves ==
    ASSUME Inv, CompleteCommits PROVE Inv'
<1>1. TypeOK'
  BY BoundAssumption DEF Inv, CompleteCommits, disk, memory, TypeOK,
     TaskState, LoopPosition, Idle, ActiveIsPending, Updates, NoPackage,
     Package, UpdatesOf, Envelope
<1>2. Chain'
  BY DEF Inv, CompleteCommits, disk, memory, Chain
<1>3. ActiveIsPending'
  BY DEF Inv, CompleteCommits, disk, memory, ActiveIsPending
<1>4. Dispatches'
  BY DEF Inv, CompleteCommits, disk, memory, Dispatches
<1>5. Idle'
  BY BoundAssumption DEF Inv, CompleteCommits, disk, memory, Idle,
     ActiveIsPending, TypeOK, Updates, NoPackage, Package, UpdatesOf, Envelope
<1>6. LoopPosition'
  BY BoundAssumption DEF Inv, CompleteCommits, disk, memory, LoopPosition,
     LastKnown, ActiveIsPending, TypeOK, Updates, NoPackage, Package, UpdatesOf,
     Envelope
<1>7. Covered'
  <2>1. /\ active # NoPackage /\ active = pending
        /\ Envelope(active) /\ active.first = safe + 1
        /\ UpdatesOf(active) \subseteq handled
        /\ active.last <= entities
    BY DEF Inv, Chain, ActiveIsPending, Covered, CompleteCommits
  <2>2. /\ safe' = active.last /\ completing' = "written"
        /\ UNCHANGED <<entities, active, handled>>
    BY DEF CompleteCommits
  <2>3. safe' <= entities'
    BY <2>1, <2>2
  <2>4. ASSUME NEW u \in Updates, u <= safe' PROVE u \in handled'
    <3>1. CASE u <= safe
      BY <2>2, <3>1 DEF Inv, Covered, CheckpointHandled
    <3>2. CASE ~(u <= safe)
      <4>1. u \in UpdatesOf(active)
        BY <2>1, <2>2, <2>4, <3>2, BoundAssumption DEF Inv, TypeOK, UpdatesOf, Updates
      <4> QED BY <2>1, <2>2, <4>1
    <3> QED BY <3>1, <3>2
  <2> QED BY <2>1, <2>2, <2>3, <2>4 DEF Covered, CheckpointHandled, SessionCoversCheckpoint
<1> QED BY <1>1, <1>2, <1>3, <1>4, <1>5, <1>6, <1>7 DEF Inv

\* The completion returns and the process knows the checkpoint that was committed.
LEMMA CompleteReturnsPreserves ==
    ASSUME Inv, CompleteReturns PROVE Inv'
<1>1. TypeOK'
  BY BoundAssumption DEF Inv, CompleteReturns, disk, memory, TypeOK,
     TaskState, LoopPosition, Idle, ActiveIsPending, Updates, NoPackage,
     Package, UpdatesOf, Envelope
<1>2. Chain'
  BY DEF Inv, CompleteReturns, disk, memory, Chain
<1>3. ActiveIsPending'
  BY DEF Inv, CompleteReturns, disk, memory, ActiveIsPending
<1>4. Dispatches'
  <2>1. \A u \in Updates : task[u] \in {"none", "ended"}
    BY DEF Inv, Dispatches, CompleteReturns
  <2>2. \A u \in Updates : task[u] = "ended" => u \in handled
    BY DEF Inv, Dispatches, ActiveIsPending, CompleteReturns
  <2>3. active' = NoPackage /\ UNCHANGED <<task, handled>>
    BY DEF CompleteReturns
  <2> QED BY <2>1, <2>2, <2>3 DEF Dispatches
<1>5. Idle'
  BY BoundAssumption DEF Inv, CompleteReturns, disk, memory, Idle,
     ActiveIsPending, TypeOK, Updates, NoPackage, Package, UpdatesOf, Envelope
<1>6. LoopPosition'
  BY BoundAssumption DEF Inv, CompleteReturns, disk, memory, LoopPosition,
     LastKnown, ActiveIsPending, TypeOK, Updates, NoPackage, Package, UpdatesOf,
     Envelope
<1>7. Covered'
  BY DEF Inv, CompleteReturns, disk, memory, Covered, CheckpointHandled,
     SessionCoversCheckpoint
<1> QED BY <1>1, <1>2, <1>3, <1>4, <1>5, <1>6, <1>7 DEF Inv

\* A failing completion leaves the package, or the committed checkpoint, in place.
LEMMA CompleteFailsPreserves ==
    ASSUME Inv, CompleteFails PROVE Inv'
<1>1. TypeOK'
  BY BoundAssumption DEF Inv, CompleteFails, Fault, disk, memory, TypeOK,
     TaskState, Package, Envelope, LoopPosition, Chain
<1>2. Chain'
  BY DEF Inv, CompleteFails, Fault, disk, memory, Chain
<1>3. ActiveIsPending'
  BY DEF Inv, CompleteFails, Fault, disk, memory, ActiveIsPending
<1>4. Dispatches'
  BY DEF Inv, CompleteFails, Fault, disk, memory, Dispatches
<1>5. Idle'
  BY DEF Inv, CompleteFails, Fault, disk, memory, Idle
<1>6. LoopPosition'
  BY DEF Inv, CompleteFails, Fault, disk, memory, LoopPosition, LastKnown
<1>7. Covered'
  BY DEF Inv, CompleteFails, Fault, disk, memory, Covered, CheckpointHandled,
     SessionCoversCheckpoint
<1> QED BY <1>1, <1>2, <1>3, <1>4, <1>5, <1>6, <1>7 DEF Inv

\* A dispatch that starts belongs to the active package.
LEMMA DispatchStartsPreserves ==
    ASSUME Inv, NEW u \in Updates, DispatchStarts(u) PROVE Inv'
<1>1. TypeOK'
  BY DEF Inv, DispatchStarts, disk, memory, TypeOK, TaskState
<1>2. Chain'
  BY DEF Inv, DispatchStarts, disk, memory, Chain
<1>3. ActiveIsPending'
  BY DEF Inv, DispatchStarts, disk, memory, ActiveIsPending
<1>4. Dispatches'
  BY DEF Inv, DispatchStarts, disk, memory, Dispatches
<1>5. Idle'
  BY DEF Inv, DispatchStarts, disk, memory, Idle
<1>6. LoopPosition'
  BY DEF Inv, DispatchStarts, disk, memory, LoopPosition, LastKnown
<1>7. Covered'
  BY DEF Inv, DispatchStarts, disk, memory, Covered, CheckpointHandled,
     SessionCoversCheckpoint
<1> QED BY <1>1, <1>2, <1>3, <1>4, <1>5, <1>6, <1>7 DEF Inv

\* A handler that commits moves nothing of the delivery.
LEMMA HandlerWritesPreserves ==
    ASSUME Inv, NEW u \in Updates, HandlerWrites(u) PROVE Inv'
<1>1. TypeOK'
  BY DEF Inv, HandlerWrites, disk, memory, TypeOK, TaskState
<1>2. Chain'
  BY DEF Inv, HandlerWrites, disk, memory, Chain
<1>3. ActiveIsPending'
  BY DEF Inv, HandlerWrites, disk, memory, ActiveIsPending
<1>4. Dispatches'
  BY DEF Inv, HandlerWrites, disk, memory, Dispatches
<1>5. Idle'
  BY DEF Inv, HandlerWrites, disk, memory, Idle
<1>6. LoopPosition'
  BY DEF Inv, HandlerWrites, disk, memory, LoopPosition, LastKnown
<1>7. Covered'
  BY DEF Inv, HandlerWrites, disk, memory, Covered, CheckpointHandled,
     SessionCoversCheckpoint
<1> QED BY <1>1, <1>2, <1>3, <1>4, <1>5, <1>6, <1>7 DEF Inv

\* A dispatch that succeeds completes the package only when all of it is handled.
LEMMA DispatchSucceedsPreserves ==
    ASSUME Inv, NEW u \in Updates, DispatchSucceeds(u) PROVE Inv'
<1>1. TypeOK'
  <2>1. TypeOK
    BY DEF Inv
  <2>2. task' \in [Updates -> TaskState] /\ handled' \subseteq Updates
    BY <2>1 DEF DispatchSucceeds, TypeOK, TaskState
  <2>3. /\ entities' \in 0..MaxUpdate
        /\ completing' \in {"no", "writing", "written"}
        /\ done' \in BOOLEAN /\ failure' \in BOOLEAN
        /\ faults' \in 0..MaxFaults
    <3>1. CASE BeginComplete(active, failed, done)
      BY <2>1, <3>1, BeginCompleteType DEF TypeOK
    <3>2. CASE UNCHANGED <<failure, done, completing, entities, faults>>
      BY <2>1, <3>2 DEF TypeOK
    <3> QED BY <3>1, <3>2 DEF DispatchSucceeds
  <2> QED BY <2>1, <2>2, <2>3 DEF DispatchSucceeds, TypeOK, disk
<1>2. Chain'
  BY DEF Inv, DispatchSucceeds, BeginComplete, Remaining, Fault, disk, memory,
     Chain
<1>3. ActiveIsPending'
  <2>1. /\ active # NoPackage /\ active = pending /\ Envelope(active)
        /\ u \in UpdatesOf(active) /\ completing = "no"
    BY DEF Inv, Dispatches, ActiveIsPending, DispatchSucceeds
  <2>2. UNCHANGED <<active, pending, safe, closed>> /\ handled' = handled \cup {u}
    BY DEF DispatchSucceeds, disk
  <2>3. CASE UNCHANGED <<failure, done, completing, entities, faults>>
    BY <2>1, <2>2, <2>3 DEF Inv, ActiveIsPending, Envelope, UpdatesOf
  <2>4. CASE Remaining(u) = {} /\ BeginComplete(active, failed, done)
    <3>1. CASE completing' = completing /\ failure' = TRUE
      BY <2>1, <2>2, <3>1 DEF ActiveIsPending, Envelope, UpdatesOf
    <3>2. CASE completing' = completing /\ closed
      BY <2>1, <2>2, <3>2 DEF ActiveIsPending, Envelope, UpdatesOf
    <3>3. CASE failed = {} /\ completing' = "writing" /\ UNCHANGED <<done, failure>>
      <4>1. ASSUME NEW v \in UpdatesOf(active) PROVE v \in handled'
        <5>1. CASE v = u
          BY <2>2, <5>1
        <5>2. CASE v # u
          <6>1. task[v] = "ended" /\ v \in Updates
            BY <2>4, <5>2 DEF Remaining, UpdatesOf
          <6>2. v \in handled
            BY <3>3, <6>1 DEF Inv, Dispatches
          <6> QED BY <2>2, <6>2
        <5> QED BY <5>1, <5>2
      <4>2. active # NoPackage /\ done => failure \/ closed
        BY DEF Inv, ActiveIsPending
      <4>3. UpdatesOf(active)' = UpdatesOf(active)
        BY <2>2 DEF UpdatesOf
      <4> QED BY <2>1, <2>2, <3>3, <4>1, <4>2, <4>3 DEF ActiveIsPending, Envelope
    <3> QED BY <2>4, <3>1, <3>2, <3>3 DEF BeginComplete
  <2> QED BY <2>3, <2>4 DEF DispatchSucceeds
<1>4. Dispatches'
  BY DEF Inv, DispatchSucceeds, BeginComplete, Remaining, Fault, disk, memory,
     Dispatches, TypeOK
<1>5. Idle'
  BY BoundAssumption DEF Inv, DispatchSucceeds, BeginComplete, Remaining,
     Fault, disk, memory, Idle, Dispatches, TypeOK, Updates, NoPackage,
     Package, UpdatesOf, Envelope
<1>6. LoopPosition'
  BY DEF Inv, DispatchSucceeds, BeginComplete, Remaining, Fault, disk, memory,
     LoopPosition, LastKnown, TypeOK
<1>7. Covered'
  BY BoundAssumption DEF Inv, DispatchSucceeds, BeginComplete, Remaining,
     Fault, disk, memory, Covered, CheckpointHandled, SessionCoversCheckpoint,
     TypeOK, TaskState, Updates, NoPackage, Package, UpdatesOf, Envelope
<1> QED BY <1>1, <1>2, <1>3, <1>4, <1>5, <1>6, <1>7 DEF Inv

\* A dispatch that fails is remembered in its context.
LEMMA DispatchFailsPreserves ==
    ASSUME Inv, NEW u \in Updates, DispatchFails(u) PROVE Inv'
<1>1. TypeOK'
  <2>1. TypeOK
    BY DEF Inv
  <2>2. task' \in [Updates -> TaskState] /\ failed' \subseteq Updates
    BY <2>1 DEF DispatchFails, TypeOK, TaskState
  <2>3. failure' \in BOOLEAN /\ done' \in BOOLEAN
    BY Zenon DEF DispatchFails
  <2>4. faults' \in 0..MaxFaults
    BY <2>1, FaultType DEF DispatchFails
  <2> QED BY <2>1, <2>2, <2>3, <2>4 DEF DispatchFails, TypeOK, disk
<1>2. Chain'
  BY DEF Inv, DispatchFails, Remaining, Fault, disk, memory, Chain
<1>3. ActiveIsPending'
  BY DEF Inv, DispatchFails, Remaining, Fault, disk, memory, ActiveIsPending,
     TypeOK
<1>4. Dispatches'
  BY DEF Inv, DispatchFails, Remaining, Fault, disk, memory, Dispatches
<1>5. Idle'
  BY DEF Inv, DispatchFails, Remaining, Fault, disk, memory, Idle, TypeOK
<1>6. LoopPosition'
  BY DEF Inv, DispatchFails, Remaining, Fault, disk, memory, LoopPosition,
     LastKnown, TypeOK
<1>7. Covered'
  BY DEF Inv, DispatchFails, Remaining, Fault, disk, memory, Covered,
     CheckpointHandled, SessionCoversCheckpoint
<1> QED BY <1>1, <1>2, <1>3, <1>4, <1>5, <1>6, <1>7 DEF Inv

\* A new loop begins at the end of what is admitted.
LEMMA LoopBeginsPreserves ==
    ASSUME Inv, LoopBegins PROVE Inv'
<1>1. TypeOK'
  BY DEF Inv, LoopBegins, Settled, disk, memory, TypeOK
<1>2. Chain'
  BY DEF Inv, LoopBegins, Settled, disk, memory, Chain
<1>3. ActiveIsPending'
  BY DEF Inv, LoopBegins, Settled, disk, memory, ActiveIsPending
<1>4. Dispatches'
  BY DEF Inv, LoopBegins, Settled, disk, memory, Dispatches
<1>5. Idle'
  BY DEF Inv, LoopBegins, Settled, disk, memory, Idle
<1>6. LoopPosition'
  <2>1. CASE loop' = "stopped"
    BY <2>1 DEF LoopPosition
  <2>2. CASE loop' = "intake" /\ ~closed /\ ~failure
    <3>1. active = NoPackage
      BY <2>2 DEF Inv, ActiveIsPending, LoopBegins, Settled
    <3>2. head' = known /\ known = safe
      BY <2>2, <3>1 DEF Inv, Idle, LoopBegins
    <3>3. LastKnown' = safe
      BY <3>1 DEF LoopBegins, disk, LastKnown
    <3> QED BY <2>2, <3>2, <3>3 DEF LoopPosition
  <2> QED BY <2>1, <2>2 DEF LoopBegins
<1>7. Covered'
  BY DEF Inv, LoopBegins, Settled, disk, memory, Covered, CheckpointHandled,
     SessionCoversCheckpoint
<1> QED BY <1>1, <1>2, <1>3, <1>4, <1>5, <1>6, <1>7 DEF Inv

\* An envelope begins where the last one ended.
LEMMA IntakePreserves ==
    ASSUME Inv, NEW k \in 0..MaxBatch, Intake(k) PROVE Inv'
<1>1. TypeOK'
  BY BoundAssumption DEF Inv, Intake, disk, memory, TypeOK, TaskState,
     Package, Envelope, LoopPosition, Chain
<1>2. Chain'
  BY DEF Inv, Intake, disk, memory, Chain
<1>3. ActiveIsPending'
  BY DEF Inv, Intake, disk, memory, ActiveIsPending
<1>4. Dispatches'
  BY DEF Inv, Intake, disk, memory, Dispatches
<1>5. Idle'
  BY DEF Inv, Intake, disk, memory, Idle
<1>6. LoopPosition'
  BY BoundAssumption DEF Inv, Intake, disk, memory, LoopPosition, LastKnown,
     TypeOK, TaskState, Updates, NoPackage, Package, UpdatesOf, Envelope
<1>7. Covered'
  BY DEF Inv, Intake, disk, memory, Covered, CheckpointHandled,
     SessionCoversCheckpoint
<1> QED BY <1>1, <1>2, <1>3, <1>4, <1>5, <1>6, <1>7 DEF Inv

\* An admission is submitted only when nothing is pending.
LEMMA SubmitAdmissionPreserves ==
    ASSUME Inv, SubmitAdmission PROVE Inv'
<1>1. TypeOK'
  BY DEF Inv, SubmitAdmission, Settled, disk, memory, TypeOK
<1>2. Chain'
  BY DEF Inv, SubmitAdmission, Settled, disk, memory, Chain
<1>3. ActiveIsPending'
  BY DEF Inv, SubmitAdmission, Settled, disk, memory, ActiveIsPending
<1>4. Dispatches'
  BY DEF Inv, SubmitAdmission, Settled, disk, memory, Dispatches
<1>5. Idle'
  BY DEF Inv, SubmitAdmission, Settled, disk, memory, Idle
<1>6. LoopPosition'
  <2>1. CASE loop' = "stopped"
    BY <2>1 DEF LoopPosition
  <2>2. CASE loop' = "admitting" /\ ~closed /\ ~failure
    <3>1. active = NoPackage
      BY <2>2 DEF Inv, ActiveIsPending, SubmitAdmission, Settled
    <3>2. pending = NoPackage
      BY <2>2, <3>1 DEF Inv, Idle, SubmitAdmission
    <3>3. envelope.first = safe + 1 /\ Envelope(envelope) /\ head = envelope.last
      BY <2>2, <3>1 DEF Inv, LoopPosition, LastKnown, SubmitAdmission
    <3>4. UNCHANGED <<safe, pending, active, envelope, head>>
      BY DEF SubmitAdmission, disk
    <3> QED BY <2>2, <3>1, <3>2, <3>3, <3>4 DEF LoopPosition, Envelope
  <2> QED BY <2>1, <2>2 DEF SubmitAdmission
<1>7. Covered'
  BY DEF Inv, SubmitAdmission, Settled, disk, memory, Covered,
     CheckpointHandled, SessionCoversCheckpoint
<1> QED BY <1>1, <1>2, <1>3, <1>4, <1>5, <1>6, <1>7 DEF Inv

\* An admission that commits extends the chain of packages.
LEMMA AdmissionSettlesPreserves ==
    ASSUME Inv, AdmissionSettles PROVE Inv'
<1>1. TypeOK'
  <2>1. TypeOK /\ Envelope(envelope)
    BY DEF Inv, LoopPosition, AdmissionSettles
  <2>2. CASE pending # NoPackage
    BY <2>1, <2>2 DEF AdmissionSettles, TypeOK
  <2>3. CASE pending = NoPackage
    <3>1. IsFiniteSet(UpdatesOf(envelope))
      <4>1. IsFiniteSet(1..MaxUpdate)
        BY BoundAssumption, FS_Interval
      <4> QED BY <4>1, FS_Subset DEF UpdatesOf, Updates
    <3>2. Cardinality(UpdatesOf(envelope)) \in Nat
      BY <3>1, FS_CardinalityType
    <3>3. sequence' \in Nat
      BY <2>1, <2>3, <3>2 DEF AdmissionSettles, TypeOK
    <3>4. \A u \in UpdatesOf(envelope) : sequence + 1 + u - envelope.first \in Nat
      <4> TAKE u \in UpdatesOf(envelope)
      <4>1. u \in 1..MaxUpdate /\ envelope.first <= u
        BY DEF UpdatesOf, Updates
      <4>2. envelope.first \in 1..(MaxUpdate + 1)
        BY <2>1 DEF Envelope, Package
      <4>3. sequence \in Nat
        BY <2>1 DEF TypeOK
      <4>4. u \in Nat /\ envelope.first \in Nat
        BY <4>1, <4>2, BoundAssumption
      <4> QED BY <4>1, <4>3, <4>4
    <3>5. token' \in [Updates -> Nat]
      BY <2>3, <3>4 DEF AdmissionSettles
    <3> QED BY <2>1, <2>3, <3>3, <3>5 DEF AdmissionSettles, TypeOK
  <2> QED BY <2>2, <2>3
<1>2. Chain'
  BY BoundAssumption DEF Inv, AdmissionSettles, disk, memory, Chain,
     LoopPosition, LastKnown, TypeOK, Updates, NoPackage, Package, UpdatesOf,
     Envelope
<1>3. ActiveIsPending'
  BY BoundAssumption DEF Inv, AdmissionSettles, disk, memory, ActiveIsPending,
     LoopPosition, LastKnown, TypeOK, Updates, NoPackage, Package, UpdatesOf,
     Envelope
<1>4. Dispatches'
  BY DEF Inv, AdmissionSettles, disk, memory, Dispatches
<1>5. Idle'
  BY DEF Inv, AdmissionSettles, disk, memory, Idle
<1>6. LoopPosition'
  BY DEF Inv, AdmissionSettles, disk, memory, LoopPosition, LastKnown
<1>7. Covered'
  BY DEF Inv, AdmissionSettles, disk, memory, Covered, CheckpointHandled,
     SessionCoversCheckpoint
<1> QED BY <1>1, <1>2, <1>3, <1>4, <1>5, <1>6, <1>7 DEF Inv

\* The admitted package becomes the active one.
LEMMA AdmissionReturnsPreserves ==
    ASSUME Inv, AdmissionReturns PROVE Inv'
<1>1. TypeOK'
  <2>1. TypeOK /\ envelope \in Package
    BY DEF Inv, LoopPosition, AdmissionReturns, Envelope
  <2>2. /\ active' \in Package \cup {NoPackage}
        /\ task' \in [Updates -> TaskState]
        /\ failed' \subseteq Updates
    BY <2>1, InstallType DEF AdmissionReturns
  <2>3. /\ entities' \in 0..MaxUpdate
        /\ completing' \in {"no", "writing", "written"}
        /\ done' \in BOOLEAN /\ failure' \in BOOLEAN
        /\ faults' \in 0..MaxFaults
    <3>1. CASE BeginComplete(envelope, {}, FALSE)
      BY <2>1, <3>1, BeginCompleteType
    <3>2. CASE done' = FALSE /\ UNCHANGED <<completing, entities, failure, faults>>
      BY <2>1, <3>2 DEF TypeOK
    <3> QED BY <3>1, <3>2 DEF AdmissionReturns
  <2>4. loop' \in {"intake", "completing", "stopped"}
    BY DEF AdmissionReturns
  <2> QED BY <2>1, <2>2, <2>3, <2>4 DEF AdmissionReturns, TypeOK, disk
<1>2. Chain'
  BY DEF Inv, AdmissionReturns, BeginComplete, Install, Fault, disk, memory,
     Chain
<1>3. ActiveIsPending'
  BY BoundAssumption DEF Inv, AdmissionReturns, BeginComplete, Install, Fault,
     disk, memory, ActiveIsPending, LoopPosition, LastKnown, TypeOK, Updates,
     NoPackage, Package, UpdatesOf, Envelope
<1>4. Dispatches'
  <2>1. /\ active = NoPackage /\ pending = envelope /\ completing = "no"
        /\ envelope \in Package
    BY DEF Inv, TypeOK, LoopPosition, ActiveIsPending, AdmissionReturns, Envelope
  <2>2. /\ active' = envelope /\ pending' = pending /\ UNCHANGED handled
        /\ task' = [u \in Updates |-> IF u \in UpdatesOf(envelope)
                                       THEN "created" ELSE "none"]
    BY DEF AdmissionReturns, Install, disk
  <2>3. UpdatesOf(envelope) # {} => completing' = "no"
    BY <2>1 DEF AdmissionReturns
  <2>4. UpdatesOf(active)' = UpdatesOf(envelope) /\ UpdatesOf(envelope) \subseteq Updates
    BY <2>2 DEF UpdatesOf
  <2>5. envelope # NoPackage
    BY <2>1 DEF Package, NoPackage
  <2> QED BY <2>1, <2>2, <2>3, <2>4, <2>5 DEF Dispatches
<1>5. Idle'
  BY BoundAssumption DEF Inv, AdmissionReturns, BeginComplete, Install, Fault,
     disk, memory, Idle, LoopPosition, LastKnown, TypeOK, Updates, NoPackage,
     Package, UpdatesOf, Envelope
<1>6. LoopPosition'
  BY BoundAssumption, SMTT(40) DEF Inv, AdmissionReturns, BeginComplete, Install, Fault,
     disk, memory, LoopPosition, LastKnown, TypeOK, TaskState, Updates, NoPackage,
     Package, UpdatesOf, Envelope
<1>7. Covered'
  <2>1. completing = "no" /\ entities \in 0..MaxUpdate /\ envelope.last \in 0..MaxUpdate
    <3>1. envelope \in Package /\ entities \in 0..MaxUpdate
      BY DEF Inv, TypeOK, LoopPosition, AdmissionReturns, Envelope
    <3>2. completing = "no"
      BY DEF Inv, TypeOK, LoopPosition, ActiveIsPending, AdmissionReturns
    <3> QED BY <3>1, <3>2 DEF Package
  <2>2. UNCHANGED <<safe, handled>> /\ active' = envelope
    BY DEF AdmissionReturns, Install, disk
  <2>3. /\ entities' = entities \/ (entities' = envelope.last /\ envelope.last > entities)
        /\ completing' # "no" => envelope.last <= entities'
    <3>1. CASE UNCHANGED <<completing, entities>>
      BY <2>1, <3>1
    <3>2. CASE entities' = IF envelope.last > entities THEN envelope.last ELSE entities
      BY <2>1, <3>2, BoundAssumption
    <3> QED BY <3>1, <3>2 DEF AdmissionReturns, BeginComplete
  <2>4. safe' <= entities'
    BY <2>1, <2>2, <2>3, BoundAssumption DEF Inv, TypeOK, Covered, SessionCoversCheckpoint
  <2>5. CheckpointHandled'
    BY <2>2 DEF Inv, Covered, CheckpointHandled
  <2> QED BY <2>2, <2>3, <2>4, <2>5 DEF Covered, SessionCoversCheckpoint
<1> QED BY <1>1, <1>2, <1>3, <1>4, <1>5, <1>6, <1>7 DEF Inv

\* A failing admission is reported, whatever the disk has kept.
LEMMA AdmissionFailsPreserves ==
    ASSUME Inv, AdmissionFails PROVE Inv'
<1>1. TypeOK'
  BY BoundAssumption DEF Inv, AdmissionFails, Fault, disk, memory, TypeOK,
     TaskState, Package, Envelope, LoopPosition, Chain
<1>2. Chain'
  BY DEF Inv, AdmissionFails, Fault, disk, memory, Chain
<1>3. ActiveIsPending'
  BY DEF Inv, AdmissionFails, Fault, disk, memory, ActiveIsPending
<1>4. Dispatches'
  BY DEF Inv, AdmissionFails, Fault, disk, memory, Dispatches
<1>5. Idle'
  BY DEF Inv, AdmissionFails, Fault, disk, memory, Idle
<1>6. LoopPosition'
  BY DEF Inv, AdmissionFails, Fault, disk, memory, LoopPosition, LastKnown
<1>7. Covered'
  BY DEF Inv, AdmissionFails, Fault, disk, memory, Covered, CheckpointHandled,
     SessionCoversCheckpoint
<1> QED BY <1>1, <1>2, <1>3, <1>4, <1>5, <1>6, <1>7 DEF Inv

\* A cancelled loop loses its place, not the package.
LEMMA LoopReplacedPreserves ==
    ASSUME Inv, LoopReplaced PROVE Inv'
<1>1. TypeOK'
  BY BoundAssumption DEF Inv, LoopReplaced, Fault, disk, memory, TypeOK,
     TaskState, Package, Envelope, LoopPosition, Chain
<1>2. Chain'
  BY DEF Inv, LoopReplaced, Fault, disk, memory, Chain
<1>3. ActiveIsPending'
  BY DEF Inv, LoopReplaced, Fault, disk, memory, ActiveIsPending
<1>4. Dispatches'
  BY DEF Inv, LoopReplaced, Fault, disk, memory, Dispatches
<1>5. Idle'
  BY DEF Inv, LoopReplaced, Fault, disk, memory, Idle
<1>6. LoopPosition'
  BY DEF Inv, LoopReplaced, Fault, disk, memory, LoopPosition, LastKnown
<1>7. Covered'
  BY DEF Inv, LoopReplaced, Fault, disk, memory, Covered, CheckpointHandled,
     SessionCoversCheckpoint
<1> QED BY <1>1, <1>2, <1>3, <1>4, <1>5, <1>6, <1>7 DEF Inv

\* A start finds the checkpoint and the package that follows it.
LEMMA StartPreserves ==
    ASSUME Inv, Start PROVE Inv'
<1>1. TypeOK'
  <2>1. TypeOK
    BY DEF Inv
  <2>2. /\ active' \in Package \cup {NoPackage}
        /\ task' \in [Updates -> TaskState]
        /\ failed' \subseteq Updates
    BY <2>1, InstallType DEF Start, TypeOK
  <2>3. /\ entities' \in 0..MaxUpdate
        /\ completing' \in {"no", "writing", "written"}
        /\ done' \in BOOLEAN /\ failure' \in BOOLEAN
        /\ faults' \in 0..MaxFaults
    <3>1. CASE BeginComplete(pending, {}, FALSE)
      BY <2>1, <3>1, BeginCompleteType DEF TypeOK
    <3>2. CASE /\ done' = FALSE /\ completing' = "no" /\ failure' = FALSE
               /\ UNCHANGED <<entities, faults>>
      BY <2>1, <3>2 DEF TypeOK
    <3> QED BY <3>1, <3>2 DEF Start
  <2>4. ready' \in BOOLEAN /\ closed' \in BOOLEAN
    BY Zenon DEF Start
  <2>5. phase' \in {"serving", "replaying"} /\ loop' = "prior"
    BY DEF Start
  <2> QED BY <2>1, <2>2, <2>3, <2>4, <2>5 DEF Start, TypeOK, disk
<1>2. Chain'
  BY DEF Inv, Start, BeginComplete, Install, Fault, disk, memory, Chain
<1>3. ActiveIsPending'
  BY BoundAssumption DEF Inv, Start, BeginComplete, Install, Fault, disk,
     memory, ActiveIsPending, Chain, TypeOK, Updates, NoPackage, Package,
     UpdatesOf, Envelope
<1>4. Dispatches'
  <2>1. /\ active' = pending /\ pending' = pending /\ UNCHANGED handled
        /\ task' = [u \in Updates |-> IF u \in UpdatesOf(pending)
                                       THEN "created" ELSE "none"]
    BY DEF Start, Install, disk
  <2>2. pending = NoPackage => UpdatesOf(pending) = {}
    BY DEF NoPackage, UpdatesOf, Updates
  <2>3. UpdatesOf(pending) # {} => completing' = "no"
    BY <2>2 DEF Start
  <2>4. UpdatesOf(active)' = UpdatesOf(pending) /\ UpdatesOf(pending) \subseteq Updates
    BY <2>1 DEF UpdatesOf
  <2> QED BY <2>1, <2>2, <2>3, <2>4 DEF Dispatches
<1>5. Idle'
  <2>1. /\ phase' # "down" /\ known' = safe' /\ active' = pending'
        /\ phase' = "replaying" => ~ready' /\ loop' = "prior"
    BY DEF Start, Install, disk
  <2> QED BY <2>1 DEF Idle
<1>6. LoopPosition'
  BY DEF Inv, Start, BeginComplete, Install, Fault, disk, memory,
     LoopPosition, LastKnown
<1>7. Covered'
  BY BoundAssumption DEF Inv, Start, BeginComplete, Install, Fault, disk,
     memory, Covered, CheckpointHandled, SessionCoversCheckpoint,
     ActiveIsPending, TypeOK, Updates, NoPackage, Package, UpdatesOf, Envelope
<1> QED BY <1>1, <1>2, <1>3, <1>4, <1>5, <1>6, <1>7 DEF Inv

\* A replay that ends releases the loop from the completed checkpoint.
LEMMA ReplayEndsPreserves ==
    ASSUME Inv, ReplayEnds PROVE Inv'
<1>1. TypeOK'
  <2>1. TypeOK
    BY DEF Inv
  <2>2. phase' \in {"failed", "serving"}
    BY DEF ReplayEnds
  <2>3. ready' \in BOOLEAN /\ head' \in 0..MaxUpdate
    BY <2>1 DEF ReplayEnds, TypeOK
  <2> QED BY <2>1, <2>2, <2>3 DEF ReplayEnds, TypeOK, disk
<1>2. Chain'
  BY DEF Inv, ReplayEnds, Settled, disk, memory, Chain
<1>3. ActiveIsPending'
  BY DEF Inv, ReplayEnds, Settled, disk, memory, ActiveIsPending
<1>4. Dispatches'
  BY DEF Inv, ReplayEnds, Settled, disk, memory, Dispatches
<1>5. Idle'
  BY DEF Inv, ReplayEnds, Settled, disk, memory, Idle
<1>6. LoopPosition'
  BY BoundAssumption DEF Inv, ReplayEnds, Settled, disk, memory, LoopPosition,
     LastKnown, Idle, TypeOK, Updates, NoPackage, Package, UpdatesOf, Envelope
<1>7. Covered'
  BY DEF Inv, ReplayEnds, Settled, disk, memory, Covered, CheckpointHandled,
     SessionCoversCheckpoint
<1> QED BY <1>1, <1>2, <1>3, <1>4, <1>5, <1>6, <1>7 DEF Inv

\* Closing the admission marks every active update as failed.
LEMMA ClosePreserves ==
    ASSUME Inv, Close PROVE Inv'
<1>1. TypeOK'
  <2>1. TypeOK
    BY DEF Inv
  <2>2. done' \in BOOLEAN /\ closed' \in BOOLEAN /\ ready' \in BOOLEAN
    BY Zenon DEF Close
  <2>3. failed' \subseteq Updates
    BY DEF Close, UpdatesOf
  <2>4. faults' \in 0..MaxFaults
    BY <2>1, FaultType DEF Close
  <2> QED BY <2>1, <2>2, <2>3, <2>4 DEF Close, TypeOK, disk
<1>2. Chain'
  BY DEF Inv, Close, Fault, disk, memory, Chain
<1>3. ActiveIsPending'
  BY DEF Inv, Close, Fault, disk, memory, ActiveIsPending, TypeOK
<1>4. Dispatches'
  BY DEF Inv, Close, Fault, disk, memory, Dispatches
<1>5. Idle'
  BY DEF Inv, Close, Fault, disk, memory, Idle
<1>6. LoopPosition'
  BY DEF Inv, Close, Fault, disk, memory, LoopPosition, LastKnown
<1>7. Covered'
  BY DEF Inv, Close, Fault, disk, memory, Covered, CheckpointHandled,
     SessionCoversCheckpoint
<1> QED BY <1>1, <1>2, <1>3, <1>4, <1>5, <1>6, <1>7 DEF Inv

\* An exit keeps what is on the disk.
LEMMA ExitPreserves ==
    ASSUME Inv, Exit PROVE Inv'
<1>1. TypeOK'
  <2>1. TypeOK
    BY DEF Inv
  <2>2. /\ active' \in Package \cup {NoPackage}
        /\ task' \in [Updates -> TaskState]
        /\ failed' \subseteq Updates
    BY <2>1, InstallType DEF Exit
  <2>3. faults' \in 0..MaxFaults
    BY <2>1, FaultType DEF Exit
  <2>4. known' \in 0..MaxUpdate /\ head' \in 0..MaxUpdate
    BY BoundAssumption DEF Exit
  <2> QED BY <2>1, <2>2, <2>3, <2>4 DEF Exit, TypeOK, disk
<1>2. Chain'
  BY DEF Inv, Exit, Install, Fault, disk, memory, Chain
<1>3. ActiveIsPending'
  BY DEF Inv, Exit, Install, Fault, disk, memory, ActiveIsPending
<1>4. Dispatches'
  BY BoundAssumption DEF Inv, Exit, Install, Fault, disk, memory, Dispatches,
     TypeOK, TaskState, Updates, NoPackage, Package, UpdatesOf, Envelope
<1>5. Idle'
  BY DEF Inv, Exit, Install, Fault, disk, memory, Idle
<1>6. LoopPosition'
  BY DEF Inv, Exit, Install, Fault, disk, memory, LoopPosition, LastKnown
<1>7. Covered'
  BY DEF Inv, Exit, Install, Fault, disk, memory, Covered, CheckpointHandled,
     SessionCoversCheckpoint
<1> QED BY <1>1, <1>2, <1>3, <1>4, <1>5, <1>6, <1>7 DEF Inv

\* Another observation only takes an order.
LEMMA OtherObservationPreserves ==
    ASSUME Inv, OtherObservation PROVE Inv'
<1>1. TypeOK'
  BY DEF Inv, OtherObservation, disk, memory, TypeOK
<1>2. Chain'
  BY DEF Inv, OtherObservation, disk, memory, Chain
<1>3. ActiveIsPending'
  BY DEF Inv, OtherObservation, disk, memory, ActiveIsPending
<1>4. Dispatches'
  BY DEF Inv, OtherObservation, disk, memory, Dispatches
<1>5. Idle'
  BY DEF Inv, OtherObservation, disk, memory, Idle
<1>6. LoopPosition'
  BY DEF Inv, OtherObservation, disk, memory, LoopPosition, LastKnown
<1>7. Covered'
  BY DEF Inv, OtherObservation, disk, memory, Covered, CheckpointHandled,
     SessionCoversCheckpoint
<1> QED BY <1>1, <1>2, <1>3, <1>4, <1>5, <1>6, <1>7 DEF Inv

\* The fresh database satisfies the invariant.
LEMMA InitInv == Init => Inv
<1> SUFFICES ASSUME Init PROVE Inv
  OBVIOUS
<1>1. TypeOK
  <2>1. token \in [Updates -> Nat] /\ wrote \in [Updates -> SUBSET Nat]
    BY DEF Init
  <2>2. task \in [Updates -> TaskState]
    BY DEF Init, TaskState
  <2>3. 0 \in 0..MaxUpdate /\ 0 \in 0..MaxFaults
    BY BoundAssumption
  <2> QED BY <2>1, <2>2, <2>3 DEF Init, TypeOK
<1>2. Chain /\ Idle /\ LoopPosition
  BY DEF Init, Chain, Idle, LoopPosition
<1>3. ActiveIsPending
  BY DEF Init, ActiveIsPending
<1>4. Dispatches
  BY DEF Init, Dispatches
<1>5. Covered
  BY BoundAssumption DEF Init, Covered, CheckpointHandled, SessionCoversCheckpoint, Updates
<1> QED BY <1>1, <1>2, <1>3, <1>4, <1>5 DEF Inv

\* A step that changes nothing keeps the invariant.
LEMMA StutterPreserves == ASSUME Inv, UNCHANGED vars PROVE Inv'
<1>1. TypeOK'
  BY DEF Inv, vars, disk, memory, TypeOK
<1>2. Chain' /\ Idle' /\ Covered'
  BY DEF Inv, vars, disk, memory, Chain, Envelope, Idle, Covered,
         CheckpointHandled, SessionCoversCheckpoint
<1>3. ActiveIsPending'
  BY DEF Inv, vars, disk, memory, ActiveIsPending, Envelope, UpdatesOf
<1>4. Dispatches'
  BY DEF Inv, vars, disk, memory, Dispatches, UpdatesOf
<1>5. LoopPosition'
  BY DEF Inv, vars, disk, memory, LoopPosition, LastKnown, Envelope
<1> QED BY <1>1, <1>2, <1>3, <1>4, <1>5 DEF Inv

\* The invariant holds in every state.
THEOREM InvHolds == Spec => []Inv
<1>1. ASSUME Inv, [Next]_vars PROVE Inv'
  <2>1. CASE Complete
    BY <1>1, <2>1, CompleteCommitsPreserves, CompleteReturnsPreserves,
       CompleteFailsPreserves DEF Complete
  <2>2. ASSUME NEW u \in Updates, Dispatch(u) PROVE Inv'
    BY <1>1, <2>2, DispatchStartsPreserves, HandlerWritesPreserves,
       DispatchSucceedsPreserves, DispatchFailsPreserves DEF Dispatch
  <2>3. CASE LoopBegins \/ LoopReplaced
    BY <1>1, <2>3, LoopBeginsPreserves, LoopReplacedPreserves
  <2>4. CASE IntakeSome \/ Intake(0)
    BY <1>1, <2>4, IntakePreserves, BoundAssumption DEF IntakeSome
  <2>5. CASE Admission
    BY <1>1, <2>5, SubmitAdmissionPreserves, AdmissionSettlesPreserves,
       AdmissionReturnsPreserves, AdmissionFailsPreserves DEF Admission
  <2>6. CASE Start \/ ReplayEnds \/ Close \/ Exit
    BY <1>1, <2>6, StartPreserves, ReplayEndsPreserves, ClosePreserves, ExitPreserves
  <2>7. CASE OtherObservation
    BY <1>1, <2>7, OtherObservationPreserves
  <2>8. CASE UNCHANGED vars
    BY <1>1, <2>8, StutterPreserves
  <2> QED BY <1>1, <2>1, <2>2, <2>3, <2>4, <2>5, <2>6, <2>7, <2>8 DEF Next
<1> QED BY <1>1, InitInv, PTL DEF Spec

-----------------------------------------------------------------------------
(* What follows *)

\* Every variable keeps its type.
THEOREM TypeCorrect == Spec => []TypeOK
<1>1. Inv => TypeOK
  BY DEF Inv
<1> QED BY <1>1, InvHolds, PTL

\* The checkpoint never passes an update that a handler has not finished.
THEOREM NothingIsLost == Spec => []CheckpointHandled
<1>1. Inv => CheckpointHandled
  BY DEF Inv, Covered
<1> QED BY <1>1, InvHolds, PTL

\* Packages follow each other, and none is admitted while one is pending.
THEOREM PackagesFollow == Spec => []PackagesChain
<1>1. Inv => PackagesChain
  BY DEF Inv, Chain, LoopPosition, PackagesChain
<1> QED BY <1>1, InvHolds, PTL

\* The session file covers every checkpoint in the database.
THEOREM SessionIsAhead == Spec => []SessionCoversCheckpoint
<1>1. Inv => SessionCoversCheckpoint
  BY DEF Inv, Covered
<1> QED BY <1>1, InvHolds, PTL

-----------------------------------------------------------------------------
(* Delivery implements what it promises *)

\* A step of the detailed specification is a step of the promise or stutters:
\* only a committed completion moves the checkpoint, over handled updates, and
\* only a dispatch of the window behind it adds to them.
LEMMA StepSimulates ==
    ASSUME Inv, [Next]_vars PROVE [Reliable!Next]_<<safe, handled>>
<1>1. CASE CompleteCommits
  <2>1. /\ active = pending /\ Envelope(active) /\ active.first = safe + 1
        /\ UpdatesOf(active) \subseteq handled
    BY <1>1 DEF Inv, Chain, ActiveIsPending, CompleteCommits
  <2>2. safe' = active.last /\ handled' = handled
    BY <1>1 DEF CompleteCommits
  <2>3. CASE active.last = safe
    BY <2>2, <2>3
  <2>4. CASE active.last # safe
    <3>1. active.last \in Reliable!Window
      BY <2>1, <2>4, BoundAssumption
         DEF Inv, TypeOK, Envelope, Package, Reliable!Window
    <3>2. {v \in Reliable!Window : v <= active.last} \subseteq handled
      BY <2>1, BoundAssumption
         DEF Inv, TypeOK, Envelope, Package, Reliable!Window, UpdatesOf, Updates
    <3>3. Reliable!Advance
      BY <2>2, <3>1, <3>2 DEF Reliable!Advance
    <3> QED BY <3>3 DEF Reliable!Next
  <2> QED BY <2>3, <2>4
<1>2. ASSUME NEW u \in Updates, DispatchSucceeds(u) PROVE Reliable!Next
  <2>1. active = pending /\ u \in UpdatesOf(active) /\ active # NoPackage
    BY <1>2 DEF Inv, Dispatches, DispatchSucceeds
  <2>2. Envelope(pending) /\ pending.first = safe + 1
    BY <2>1 DEF Inv, Chain
  <2>3. u \in Reliable!Window
    BY <2>1, <2>2, BoundAssumption
       DEF Inv, TypeOK, Envelope, Package, Reliable!Window, UpdatesOf, Updates
  <2>4. Reliable!Handle
    BY <1>2, <2>3 DEF DispatchSucceeds, disk, Reliable!Handle
  <2> QED BY <2>4 DEF Reliable!Next
<1>3. CASE CompleteReturns \/ CompleteFails
  BY <1>3 DEF CompleteReturns, CompleteFails, disk
<1>4. ASSUME NEW u \in Updates,
             DispatchStarts(u) \/ HandlerWrites(u) \/ DispatchFails(u)
      PROVE  UNCHANGED <<safe, handled>>
  BY <1>4 DEF DispatchStarts, HandlerWrites, DispatchFails, disk
<1>5. CASE LoopBegins \/ LoopReplaced \/ IntakeSome \/ Intake(0)
  BY <1>5 DEF LoopBegins, LoopReplaced, IntakeSome, Intake, disk
<1>6. CASE Admission
  BY <1>6 DEF Admission, SubmitAdmission, AdmissionSettles, AdmissionReturns,
              AdmissionFails, disk
<1>7. CASE Start \/ ReplayEnds \/ Close \/ Exit \/ OtherObservation
  BY <1>7 DEF Start, ReplayEnds, Close, Exit, OtherObservation, disk
<1>8. CASE UNCHANGED vars
  BY <1>8 DEF vars, disk
<1> QED BY <1>1, <1>2, <1>3, <1>4, <1>5, <1>6, <1>7, <1>8 DEF Next, Complete, Dispatch

\* Delivery handles every update at least once, within the one envelope behind
\* the checkpoint, and the checkpoint moves over handled updates only.
THEOREM DeliveryIsReliable == Spec => ImplementsReliable
<1>1. Init => Reliable!Init
  BY DEF Init, Reliable!Init
<1>2. Inv /\ [Next]_vars => [Reliable!Next]_<<safe, handled>>
  BY StepSimulates
<1> QED BY <1>1, <1>2, InvHolds, PTL DEF Spec, ImplementsReliable, Reliable!Spec

-----------------------------------------------------------------------------
(* Observation orders of delivered updates: a replay writes what the first *)
(* attempt wrote, and orders follow the order of the updates.              *)

\* The pending updates and no others hold an order, in their own sequence.
Tokens ==
    /\ \A u \in Updates : token[u] # 0 <=> u \in UpdatesOf(pending)
    /\ \A u \in Updates : token[u] <= sequence
    /\ \A u, v \in UpdatesOf(pending) : u < v => token[u] < token[v]

\* Effects of the past lie before every pending order; the future has none.
Effects ==
    /\ \A u \in Updates : \A a \in wrote[u] : a <= sequence
    /\ \A u \in Updates : wrote[u] # {} => u <= safe \/ u \in UpdatesOf(pending)
    /\ \A u \in UpdatesOf(pending) : wrote[u] \subseteq {token[u]}
    /\ \A u \in Updates, v \in UpdatesOf(pending) :
          u <= safe => \A a \in wrote[u] : a < token[v]

OrderInv == Tokens /\ Effects /\ EffectsKeepOrder

\* The updates of a pending package lie behind the checkpoint and before its end.
LEMMA PendingIsAhead ==
    ASSUME Inv, NEW u \in UpdatesOf(pending)
    PROVE  /\ u \in Updates /\ u > safe /\ u <= pending.last
           /\ pending # NoPackage /\ Envelope(pending) /\ pending.first = safe + 1
<1>1. pending # NoPackage
  BY DEF UpdatesOf, Updates, NoPackage
<1>2. Envelope(pending) /\ pending.first = safe + 1
  BY <1>1 DEF Inv, Chain
<1> QED BY <1>1, <1>2, BoundAssumption DEF Inv, TypeOK, UpdatesOf, Updates

\* An admission counts as many orders as its package has updates.
LEMMA PackageSize ==
    ASSUME NEW p, Envelope(p)
    PROVE  /\ IsFiniteSet(UpdatesOf(p))
           /\ Cardinality(UpdatesOf(p)) = p.last + 1 - p.first
<1>1. UpdatesOf(p) = p.first..p.last
  BY BoundAssumption DEF Envelope, Package, UpdatesOf, Updates
<1>2. p.first \in Int /\ p.last \in Int /\ p.first <= p.last + 1
  BY BoundAssumption DEF Envelope, Package
<1>3. IsFiniteSet(p.first..p.last)
  BY <1>2, FS_Interval
<1>4. Cardinality(p.first..p.last) = IF p.first > p.last THEN 0 ELSE p.last - p.first + 1
  BY <1>2, FS_Interval
<1> QED BY <1>1, <1>2, <1>3, <1>4

\* Committing an admission gives the new package orders above all earlier ones.
LEMMA AdmissionKeepsOrder ==
    ASSUME Inv, OrderInv, AdmissionSettles, pending = NoPackage
    PROVE  OrderInv'
<1>1. /\ Envelope(envelope) /\ envelope.first = safe + 1
      /\ sequence \in Nat /\ safe \in 0..MaxUpdate
      /\ token \in [Updates -> Nat] /\ wrote \in [Updates -> SUBSET Nat]
  BY DEF Inv, LoopPosition, TypeOK, AdmissionSettles
<1>2. UpdatesOf(pending) = {}
  BY DEF UpdatesOf, Updates, NoPackage
<1>3. /\ pending' = envelope /\ UNCHANGED <<safe, wrote>>
      /\ token' = [u \in Updates |-> IF u \in UpdatesOf(envelope)
                      THEN sequence + 1 + u - envelope.first ELSE 0]
      /\ sequence' = sequence + envelope.last + 1 - envelope.first
  <2>1. Cardinality(UpdatesOf(envelope)) = envelope.last + 1 - envelope.first
    BY <1>1, PackageSize
  <2> QED BY <1>1, <2>1, BoundAssumption DEF AdmissionSettles, Envelope, Package
<1> DEFINE P == UpdatesOf(envelope)
<1>4. \A u \in P : u \in Updates /\ safe < u /\ u <= envelope.last
  BY <1>1, BoundAssumption DEF UpdatesOf, Updates
<1>5. ASSUME NEW u \in P
      PROVE  token'[u] = sequence + u - safe /\ token'[u] > sequence
             /\ token'[u] <= sequence'
  <2>1. token'[u] = sequence + 1 + u - envelope.first
    BY <1>3, <1>4
  <2>2. u \in Int /\ safe \in Int /\ envelope.last \in Int /\ envelope.first \in Int
    BY <1>1, <1>4, BoundAssumption DEF Updates, Envelope, Package
  <2>3. safe < u /\ u <= envelope.last
    BY <1>4
  <2> HIDE DEF P
  <2> QED BY <1>1, <1>3, <2>1, <2>2, <2>3
<1>6. \A u \in Updates \ P : token'[u] = 0
  BY <1>3
<1>7. sequence' \in Nat /\ sequence <= sequence'
  BY <1>1, <1>3, BoundAssumption DEF Envelope, Package
<1>8. UpdatesOf(pending)' = P
  BY <1>3 DEF UpdatesOf
<1>9. Tokens'
  <2>1. \A u \in Updates : token'[u] # 0 <=> u \in P
    BY <1>1, <1>4, <1>5, <1>6
  <2>2. \A u \in Updates : token'[u] <= sequence'
    BY <1>5, <1>6, <1>7
  <2>3. \A u, v \in P : u < v => token'[u] < token'[v]
    BY <1>1, <1>4, <1>5, BoundAssumption DEF Updates
  <2> QED BY <1>8, <2>1, <2>2, <2>3 DEF Tokens
<1>10. \A u \in P : wrote[u] = {}
  BY <1>1, <1>2, <1>4, BoundAssumption DEF OrderInv, Effects, Updates
<1>11. Effects'
  <2>1. \A u \in Updates : \A a \in wrote[u] : a \in Nat /\ a <= sequence /\ u <= safe
    BY <1>1, <1>2 DEF OrderInv, Effects
  <2>2. ASSUME NEW u \in Updates, NEW a \in wrote'[u] PROVE a <= sequence'
    <3>1. a \in Nat /\ a <= sequence
      BY <1>3, <2>1
    <3> HIDE DEF P
    <3> QED BY <1>1, <1>7, <3>1
  <2>3. \A u \in Updates, v \in P : u <= safe => \A a \in wrote'[u] : a < token'[v]
    BY <1>1, <1>3, <1>4, <1>5, <2>1, BoundAssumption, SMTT(40) DEF Updates
  <2>4. \A u \in Updates : wrote'[u] # {} => u <= safe'
    BY <1>3, <2>1
  <2>5. \A u \in P : wrote'[u] \subseteq {token'[u]}
    BY <1>3, <1>10
  <2>6. safe' = safe
    BY <1>3
  <2> HIDE DEF P
  <2> QED BY <1>8, <2>2, <2>3, <2>4, <2>5, <2>6 DEF Effects
<1>12. EffectsKeepOrder'
  BY <1>3 DEF OrderInv, EffectsKeepOrder
<1> QED BY <1>9, <1>11, <1>12 DEF OrderInv

\* A handler writes under its retained order, which lies between its neighbours'.
LEMMA HandlerKeepsOrder ==
    ASSUME Inv, OrderInv, NEW u \in Updates, HandlerWrites(u)
    PROVE  OrderInv'
<1>1. /\ u \in UpdatesOf(pending) /\ active = pending
      /\ token \in [Updates -> Nat] /\ wrote \in [Updates -> SUBSET Nat]
      /\ sequence \in Nat /\ safe \in 0..MaxUpdate
  BY DEF Inv, Dispatches, TypeOK, HandlerWrites
<1>2. /\ UNCHANGED <<safe, pending, token, sequence>>
      /\ wrote' = [wrote EXCEPT ![u] = @ \cup {token[u]}]
  BY DEF HandlerWrites, disk
<1>3. UpdatesOf(pending)' = UpdatesOf(pending)
  BY <1>2 DEF UpdatesOf
<1>4. u > safe /\ \A v \in UpdatesOf(pending) : v \in Updates /\ v > safe
  BY <1>1, PendingIsAhead
<1>5. wrote'[u] = {token[u]} /\ \A v \in Updates \ {u} : wrote'[v] = wrote[v]
  BY <1>1, <1>2 DEF OrderInv, Effects
<1>6. Tokens'
  BY <1>2, <1>3 DEF OrderInv, Tokens
<1>7. Effects'
  <2>1. \A v \in Updates : \A a \in wrote'[v] : a <= sequence'
    BY <1>2, <1>5 DEF OrderInv, Tokens, Effects
  <2>2. \A v \in Updates : wrote'[v] # {} => v <= safe \/ v \in UpdatesOf(pending)
    BY <1>1, <1>5 DEF OrderInv, Effects
  <2>3. \A v \in UpdatesOf(pending) : wrote'[v] \subseteq {token[v]}
    BY <1>4, <1>5 DEF OrderInv, Effects
  <2>4. \A v \in Updates, w \in UpdatesOf(pending) :
            v <= safe => \A a \in wrote'[v] : a < token[w]
    BY <1>1, <1>4, <1>5, BoundAssumption DEF OrderInv, Effects, Updates
  <2> QED BY <1>2, <1>3, <2>1, <2>2, <2>3, <2>4 DEF Effects
<1>8. EffectsKeepOrder'
  <2>1. \A v \in Updates : \A a, b \in wrote'[v] : a = b
    BY <1>5 DEF OrderInv, EffectsKeepOrder
  <2>2. ASSUME NEW v \in Updates, NEW w \in Updates, v < w,
               NEW a \in wrote'[v], NEW b \in wrote'[w]
        PROVE  a < b
    <3>1. CASE v # u /\ w # u
      BY <1>5, <2>2, <3>1 DEF OrderInv, EffectsKeepOrder
    <3>2. CASE w = u
      <4>1. v # u /\ a \in wrote[v] /\ b = token[u]
        BY <1>5, <2>2, <3>2, BoundAssumption DEF Updates
      <4>2. CASE v <= safe
        BY <1>1, <4>1, <4>2 DEF OrderInv, Effects
      <4>3. CASE v \in UpdatesOf(pending)
        <5>1. a = token[v] /\ token[v] < token[u]
          BY <1>1, <2>2, <3>2, <4>1, <4>3 DEF OrderInv, Effects, Tokens
        <5> QED BY <4>1, <5>1
      <4> QED BY <4>1, <4>2, <4>3 DEF OrderInv, Effects
    <3>3. CASE v = u
      <4>1. w # u /\ b \in wrote[w] /\ a = token[u]
        BY <1>5, <2>2, <3>3, BoundAssumption DEF Updates
      <4>2. w \in UpdatesOf(pending)
        <5>1. ~(w <= safe)
          BY <1>1, <1>4, <2>2, <3>3, BoundAssumption DEF Updates
        <5> QED BY <4>1, <5>1 DEF OrderInv, Effects
      <4>3. b = token[w] /\ token[u] < token[w]
        BY <1>1, <2>2, <3>3, <4>1, <4>2 DEF OrderInv, Effects, Tokens
      <4> QED BY <4>1, <4>3
    <3> QED BY <3>1, <3>2, <3>3
  <2> QED BY <2>1, <2>2 DEF EffectsKeepOrder
<1> QED BY <1>6, <1>7, <1>8 DEF OrderInv

\* A committed completion turns the pending window into the past.
LEMMA CompletionKeepsOrder ==
    ASSUME Inv, OrderInv, CompleteCommits
    PROVE  OrderInv'
<1>1. /\ pending # NoPackage /\ active = pending
      /\ Envelope(pending) /\ pending.first = safe + 1
      /\ safe \in 0..MaxUpdate /\ sequence \in Nat
  BY DEF Inv, TypeOK, Chain, ActiveIsPending, CompleteCommits
<1>2. /\ safe' = pending.last /\ pending' = NoPackage
      /\ token' = [u \in Updates |-> 0] /\ UNCHANGED <<sequence, wrote>>
  BY <1>1 DEF CompleteCommits
<1>3. UpdatesOf(pending)' = {}
  BY <1>2 DEF UpdatesOf, Updates, NoPackage
<1>4. Tokens'
  BY <1>1, <1>2, <1>3 DEF Tokens
<1>5. \A u \in Updates : u <= safe \/ u \in UpdatesOf(pending) => u <= safe'
  BY <1>1, <1>2, BoundAssumption DEF Envelope, Package, UpdatesOf, Updates
<1>6. Effects'
  BY <1>2, <1>3, <1>5 DEF OrderInv, Effects
<1>7. EffectsKeepOrder'
  BY <1>2 DEF OrderInv, EffectsKeepOrder
<1> QED BY <1>4, <1>6, <1>7 DEF OrderInv

\* No other step touches the orders or the effects.
LEMMA OtherStepsKeepOrder ==
    ASSUME Inv, OrderInv,
           UNCHANGED <<safe, pending, token, wrote>>,
           sequence' = sequence \/ sequence' = sequence + 1
    PROVE  OrderInv'
<1>1. /\ sequence \in Nat /\ sequence' \in Nat /\ sequence <= sequence'
      /\ token \in [Updates -> Nat] /\ wrote \in [Updates -> SUBSET Nat]
  BY DEF Inv, TypeOK
<1>2. UpdatesOf(pending)' = UpdatesOf(pending)
  BY DEF UpdatesOf
<1>3. Tokens'
  BY <1>1, <1>2 DEF OrderInv, Tokens
<1>4. Effects'
  <2>1. \A u \in Updates : \A a \in wrote[u] : a \in Nat /\ a <= sequence'
    BY <1>1 DEF OrderInv, Effects
  <2> QED BY <1>2, <2>1 DEF OrderInv, Effects
<1>5. EffectsKeepOrder'
  BY DEF OrderInv, EffectsKeepOrder
<1> QED BY <1>3, <1>4, <1>5 DEF OrderInv

\* The orders hold in every state.
THEOREM OrderHolds == Spec => []OrderInv
<1>1. Init => OrderInv
  BY BoundAssumption DEF Init, OrderInv, Tokens, Effects, EffectsKeepOrder,
                         UpdatesOf, Updates, NoPackage
<1>2. ASSUME Inv, OrderInv, [Next]_vars PROVE OrderInv'
  <2>1. CASE CompleteCommits
    BY <1>2, <2>1, CompletionKeepsOrder
  <2>2. ASSUME NEW u \in Updates, HandlerWrites(u) PROVE OrderInv'
    BY <1>2, <2>2, HandlerKeepsOrder
  <2>3. CASE AdmissionSettles
    <3>1. CASE pending = NoPackage
      BY <1>2, <2>3, <3>1, AdmissionKeepsOrder
    <3>2. CASE pending # NoPackage
      BY <1>2, <2>3, <3>2, OtherStepsKeepOrder DEF AdmissionSettles
    <3> QED BY <3>1, <3>2
  <2>4. ASSUME NEW u \in Updates,
               DispatchStarts(u) \/ DispatchSucceeds(u) \/ DispatchFails(u)
        PROVE  OrderInv'
    BY <1>2, <2>4, OtherStepsKeepOrder
       DEF DispatchStarts, DispatchSucceeds, DispatchFails, disk
  <2>5. CASE CompleteReturns \/ CompleteFails
    BY <1>2, <2>5, OtherStepsKeepOrder DEF CompleteReturns, CompleteFails, disk
  <2>6. CASE LoopBegins \/ LoopReplaced \/ IntakeSome \/ Intake(0)
    BY <1>2, <2>6, OtherStepsKeepOrder
       DEF LoopBegins, LoopReplaced, IntakeSome, Intake, disk
  <2>7. CASE SubmitAdmission \/ AdmissionReturns \/ AdmissionFails
    BY <1>2, <2>7, OtherStepsKeepOrder
       DEF SubmitAdmission, AdmissionReturns, AdmissionFails, disk
  <2>8. CASE Start \/ ReplayEnds \/ Close \/ Exit \/ OtherObservation
    BY <1>2, <2>8, OtherStepsKeepOrder
       DEF Start, ReplayEnds, Close, Exit, OtherObservation, disk
  <2>9. CASE UNCHANGED vars
    BY <1>2, <2>9, OtherStepsKeepOrder DEF vars, disk
  <2> QED BY <1>2, <2>1, <2>2, <2>3, <2>4, <2>5, <2>6, <2>7, <2>8, <2>9
          DEF Next, Complete, Dispatch, Admission
<1> QED BY <1>1, <1>2, InvHolds, PTL DEF Spec

\* A replayed update carries the order of its first attempt, and orders follow
\* the order of the updates.
THEOREM OrderIsKept == Spec => []EffectsKeepOrder
<1>1. OrderInv => EffectsKeepOrder
  BY DEF OrderInv
<1> QED BY <1>1, OrderHolds, PTL

\* What handlers work on is durably admitted, with an order to find again.
THEOREM HandledIsAdmitted == Spec => []DispatchedIsPending
<1>1. Inv /\ OrderInv => DispatchedIsPending
  BY DEF Inv, Dispatches, OrderInv, Tokens, DispatchedIsPending
<1> QED BY <1>1, InvHolds, OrderHolds, PTL

-----------------------------------------------------------------------------
(* The ring of raw updates: its state, its invariant and what it rests on *)

Stages == {"idle", "clear", "bind", "begin", "write", "finished", "end", "exited"}

RingState ==
    [entries : Seq(Entry), last : 0..MaxSequence, through : Nat, inflight : Nat, orphaned : Nat,
     account : Accounts \cup {None}, generation : Nat \cup {None},
     desired : Accounts \cup {None}, revision : Nat, logouts : Nat, cleared : Nat, dropped : Nat]

FlushState ==
    [stage : Stages, done : BOOLEAN, again : BOOLEAN, account : Accounts \cup {None},
     revision : Nat, serial : Nat, generation : Nat \cup {None}, answer : BOOLEAN,
     batch : Seq(Entry), counted : Nat, failed : BOOLEAN, known : Nat, settled : BOOLEAN]

Runtimes == 1..MaxRuns \cup {None}

StoreState ==
    [generation : Nat, account : Accounts \cup {None}, runtime : Runtimes,
     open : BOOLEAN, rows : SUBSET Row, unknown : Nat, total : Nat, snapshot : Nat, evicted : Nat]

Seqs(entries) == {e.seq : e \in ToSet(entries)}

\* Staged entries are in order and adjacent.
Adjacent(s) ==
    /\ s \in Seq(Entry)
    /\ \A i \in 1..Len(s) : s[i].start < s[i].end /\ s[i].end <= s[i].start + MaxEntry
    /\ \A i, j \in 1..Len(s) : i < j => s[i].seq < s[j].seq /\ s[i].end <= s[j].start
    /\ \A i \in 1..Len(s) : i + 1 <= Len(s) => s[i + 1].start = s[i].end

Staged(r, s) ==
    /\ r \in RingState
    /\ Adjacent(r.entries) /\ Len(r.entries) <= MaxEntries
    /\ \A i \in 1..Len(r.entries) : r.entries[i].seq <= r.last /\ r.entries[i].owner = s
    /\ r.desired \in {None, s} /\ r.account \in {None, s}
    /\ r.cleared <= r.logouts
    /\ Bytes(r.entries) + r.orphaned <= MaxBytes

Bound(r, s, d) ==
    r.generation # None =>
        /\ s # None /\ r.account = s /\ r.cleared = r.logouts
        /\ d.generation = r.generation /\ d.account = s

Counted(r, st) ==
    /\ st \subseteq 1..r.last
    /\ r.last <= r.dropped + Cardinality(st \cup Seqs(r.entries))

Kept(d, n) ==
    /\ d \in StoreState /\ IsFiniteSet(d.rows) /\ Cardinality(d.rows) <= MaxRows
    /\ \A row \in d.rows : row.owner = d.account
    /\ d.runtime # None => d.runtime <= n
    /\ d.open => d.runtime # None

Lifecycle(f, r, d) ==
    /\ f.stage = "idle" => ~f.done
    /\ f.stage \in {"clear", "bind", "begin"} => r.generation = None
    /\ f.stage = "clear" => f.serial <= r.logouts
    /\ f.stage \in {"bind", "begin"} =>
          /\ f.account # None /\ f.revision <= r.revision
          /\ f.revision = r.revision => f.account = r.desired
    /\ (f.stage = "bind" /\ f.done) \/ f.stage = "begin" =>
          f.generation = d.generation /\ f.account = d.account

Held(b, r) ==
    /\ Len(b) <= Len(r.entries) /\ b = SubSeq(r.entries, 1, Len(b))
    /\ r.through = Last(b).seq /\ r.inflight = Bytes(b) /\ r.orphaned = 0

Gone(b, r) ==
    /\ \A i \in 1..Len(r.entries) : Last(b).seq < r.entries[i].seq
    /\ r.through = 0 /\ r.inflight = Bytes(b) /\ r.orphaned = Bytes(b)

Writing(f, r, d, st, l) ==
    /\ IF f.stage = "write" /\ f.batch # <<>> THEN Held(f.batch, r) \/ Gone(f.batch, r)
       ELSE r.through = 0 /\ r.inflight = 0 /\ r.orphaned = 0
    /\ f.stage = "write" =>
          /\ Adjacent(f.batch)
          /\ f.counted <= r.dropped
          /\ \A i \in 1..Len(f.batch) :
                /\ f.batch[i].seq <= r.last
                /\ IsGeneration(d, f.generation) => f.batch[i].owner = d.account
                /\ f.done /\ f.answer => f.batch[i].seq \in st
          /\ f.batch = <<>> => l \/ (r.entries = <<>> /\ r.dropped = f.counted)

Reported(r, f, st) == r.dropped = f.known /\ Seqs(r.entries) \subseteq st

Finishing(f, r, d, st, l, c, n) ==
    /\ f.stage \in {"finished", "end", "exited"} => c
    /\ f.stage = "end" => r.generation # None /\ ~f.failed
    /\ f.stage \in {"finished", "end"} /\ r.generation # None /\ ~f.failed => l \/ Reported(r, f, st)
    /\ d.runtime = n /\ ~d.open => f.stage = "exited" /\ (l \/ Reported(r, f, st))

RingInv ==
    /\ Staged(ring, session) /\ Bound(ring, session, store) /\ Counted(ring, stored)
    /\ flush \in FlushState /\ flush.known <= ring.dropped
    /\ Kept(store, run) /\ run \in 1..MaxRuns /\ session \in Accounts \cup {None}
    /\ closing \in BOOLEAN /\ late \in BOOLEAN
    /\ Lifecycle(flush, ring, store)
    /\ Writing(flush, ring, store, stored, late)
    /\ Finishing(flush, ring, store, stored, late, closing, run)
    /\ lossy \in Nat /\ LossIsReported

-----------------------------------------------------------------------------
LEMMA RingConstants ==
    /\ MaxBytes \in Nat /\ MaxEntry \in Nat /\ MaxEntries \in Nat /\ MaxCount \in Nat
    /\ MaxRows \in Nat /\ MaxBytes > 0 /\ MaxEntry > 0 /\ MaxEntries > 0 /\ MaxCount > 0 /\ MaxRows > 0
    /\ MaxSequence \in Nat /\ MaxRuns \in Nat /\ MaxRuns > 0 /\ MaxWriterFaults \in Nat /\ MaxLogouts \in Nat
    /\ None \notin Accounts /\ None \notin Nat
BY RingAssumption

\* A set of naturals with a member has a least one.
LEMMA LeastNatural ==
    ASSUME NEW S, S \subseteq Nat, S # {}
    PROVE  \E x \in S : \A y \in S : x <= y
<1>1. \E x \in S : \A y \in S : ~ (<<y, x>> \in OpToRel(<, Nat))
  <2> HIDE DEF OpToRel
  <2> QED BY NatLessThanWellFounded, WFMin
<1>2. \A x, y \in Nat : y < x => <<y, x>> \in OpToRel(<, Nat)
  BY DEF OpToRel
<1>3. PICK x \in S : \A y \in S : ~ (<<y, x>> \in OpToRel(<, Nat))
  BY <1>1
<1>4. \A y \in S : x <= y
  <2> HIDE DEF OpToRel
  <2>1. \A y \in S : ~ (y < x) BY <1>2, <1>3
  <2> QED BY <2>1
<1> QED BY <1>4

\* What CHOOSE takes for the least of a set is its least.
LEMMA LeastChosen ==
    ASSUME NEW n \in Nat, NEW S, S \subseteq 0..n, S # {},
           NEW c, c = CHOOSE x \in S : \A y \in S : x <= y
    PROVE  c \in S /\ c \in 0..n /\ \A y \in S : c <= y
<1>1. S \subseteq Nat
  OBVIOUS
<1>2. \E x \in S : \A y \in S : x <= y
  BY <1>1, LeastNatural
<1>3. c \in S /\ \A y \in S : c <= y
  BY <1>2
<1> QED BY <1>3

\* And the greatest of one that is bounded.
LEMMA GreatestChosen ==
    ASSUME NEW n \in Nat, NEW S, S \subseteq 0..n, S # {},
           NEW c, c = CHOOSE x \in S : \A y \in S : y <= x
    PROVE  c \in S /\ c \in 0..n /\ \A y \in S : y <= c
<1> DEFINE T == {n - x : x \in S}
<1>1. T \subseteq Nat /\ T # {}
  <2>1. \A x \in S : n - x \in Nat
    OBVIOUS
  <2>2. PICK x \in S : TRUE
    OBVIOUS
  <2>3. n - x \in T
    OBVIOUS
  <2> QED BY <2>1, <2>3
<1>2. PICK t \in T : \A y \in T : t <= y
  <2> HIDE DEF T
  <2> QED BY <1>1, LeastNatural
<1>3. PICK x \in S : t = n - x
  BY <1>2
<1>4. \A y \in S : y <= x
  <2> TAKE y \in S
  <2>1. t <= n - y
    BY <1>2
  <2> QED BY <2>1, <1>3
<1>5. \E z \in S : \A y \in S : y <= z
  BY <1>4
<1>6. c \in S /\ \A y \in S : y <= c
  BY <1>5
<1> QED BY <1>6

-----------------------------------------------------------------------------
(* Stretches of entries *)

\* The entries after the first n.
LEMMA RestIs ==
    ASSUME NEW s, s \in Seq(Entry), NEW n \in 0..Len(s), NEW t, t = SubSeq(s, n + 1, Len(s))
    PROVE  /\ t \in Seq(Entry) /\ Len(t) = Len(s) - n /\ Len(s) \in Nat
           /\ \A i \in 1..(Len(s) - n) : t[i] = s[n + i]
           /\ n = 0 => t = s
<1>1. Len(s) \in Nat /\ \A i \in 1..Len(s) : s[i] \in Entry
  BY LenProperties, ElementOfSeq
<1>2. \A i \in (n + 1)..Len(s) : s[i] \in Entry
  BY <1>1
<1>3. /\ t \in Seq(Entry)
      /\ Len(t) = IF n + 1 <= Len(s) THEN Len(s) - (n + 1) + 1 ELSE 0
      /\ \A i \in 1..(Len(s) - (n + 1) + 1) : t[i] = s[n + 1 + i - 1]
  <2> DEFINE m == n + 1  k == Len(s)
  <2>1. m \in Int /\ k \in Int /\ \A i \in m..k : s[i] \in Entry /\ t = SubSeq(s, m, k)
    BY <1>1, <1>2
  <2>2. t = SubSeq(s, m, k)
    OBVIOUS
  <2> HIDE DEF m, k
  <2>3. /\ SubSeq(s, m, k) \in Seq(Entry)
        /\ Len(SubSeq(s, m, k)) = IF m <= k THEN k - m + 1 ELSE 0
        /\ \A i \in 1..(k - m + 1) : SubSeq(s, m, k)[i] = s[m + i - 1]
    BY <2>1, SubSeqProperties
  <2> QED BY <2>2, <2>3 DEF m, k
<1>4. ASSUME n = 0 PROVE t = s
  BY <1>1, <1>3, <1>4, SeqEqual
<1> QED BY <1>1, <1>3, <1>4

\* The first n entries.
LEMMA FirstIs ==
    ASSUME NEW s, s \in Seq(Entry), NEW n \in 0..Len(s), NEW t, t = SubSeq(s, 1, n)
    PROVE  /\ t \in Seq(Entry) /\ Len(t) = n /\ Len(s) \in Nat
           /\ \A i \in 1..n : t[i] = s[i]
<1>1. Len(s) \in Nat /\ \A i \in 1..Len(s) : s[i] \in Entry
  BY LenProperties, ElementOfSeq
<1>2. n \in Int /\ 1 \in Int /\ \A i \in 1..n : s[i] \in Entry
  BY <1>1
<1>3. /\ t \in Seq(Entry)
      /\ Len(t) = IF 1 <= n THEN n - 1 + 1 ELSE 0
      /\ \A i \in 1..(n - 1 + 1) : t[i] = s[1 + i - 1]
  BY <1>2, SubSeqProperties
<1> QED BY <1>1, <1>3

LEMMA EntryFields ==
    ASSUME NEW s \in Seq(Entry), NEW i \in 1..Len(s)
    PROVE  /\ s[i] \in Entry /\ s[i].seq \in Nat /\ s[i].seq \in 1..MaxSequence
           /\ s[i].start \in Nat /\ s[i].end \in Nat /\ s[i].owner \in Accounts
<1>1. s[i] \in Entry
  BY ElementOfSeq
<1> QED BY <1>1, RingConstants DEF Entry

\* A stretch from m to k of adjacent entries.
LEMMA AdjacentBytes ==
    ASSUME NEW s, Adjacent(s)
    PROVE  /\ Bytes(s) \in Nat
           /\ s # <<>> => Bytes(s) = s[Len(s)].end - s[1].start /\ Len(s) >= 1
           /\ Len(s) \in Nat
<1>1. s \in Seq(Entry) /\ Len(s) \in Nat
  BY LenProperties DEF Adjacent
<1>2. CASE s = <<>>
  BY <1>1, <1>2 DEF Bytes
<1>3. CASE s # <<>>
  <2>1. Len(s) >= 1
    BY <1>1, <1>3, EmptySeq
  <2>2. s[1] \in Entry /\ s[Len(s)] \in Entry
    BY <1>1, <2>1, ElementOfSeq
  <2>3. s[1].start \in Nat /\ s[Len(s)].end \in Nat /\ s[1].end \in Nat /\ s[Len(s)].start \in Nat
    BY <2>2 DEF Entry
  <2>4. s[1].start < s[1].end /\ s[Len(s)].start < s[Len(s)].end
    BY <1>1, <2>1 DEF Adjacent
  <2>5. 1 < Len(s) => s[1].end <= s[Len(s)].start
    BY <1>1, <2>1 DEF Adjacent
  <2> QED BY <1>1, <1>3, <2>1, <2>3, <2>4, <2>5 DEF Bytes, Last
<1> QED BY <1>2, <1>3

LEMMA AdjacentRest ==
    ASSUME NEW s, Adjacent(s), NEW n \in 0..Len(s), NEW t, t = SubSeq(s, n + 1, Len(s))
    PROVE  Adjacent(t) /\ Bytes(t) <= Bytes(s)
<1>1. s \in Seq(Entry)
  BY DEF Adjacent
<1>2. /\ t \in Seq(Entry) /\ Len(t) = Len(s) - n /\ Len(s) \in Nat
      /\ \A i \in 1..(Len(s) - n) : t[i] = s[n + i]
      /\ n = 0 => t = s
  BY <1>1, RestIs
<1>3. \A i \in 1..Len(t) : t[i].start < t[i].end /\ t[i].end <= t[i].start + MaxEntry
  <2> TAKE i \in 1..Len(t)
  <2>1. n + i \in 1..Len(s) /\ t[i] = s[n + i]
    BY <1>2
  <2> QED BY <2>1 DEF Adjacent
<1>4. \A i, j \in 1..Len(t) : i < j => t[i].seq < t[j].seq /\ t[i].end <= t[j].start
  <2> TAKE i, j \in 1..Len(t)
  <2>1. n + i \in 1..Len(s) /\ n + j \in 1..Len(s) /\ t[i] = s[n + i] /\ t[j] = s[n + j]
    BY <1>2
  <2>2. i < j => n + i < n + j
    BY <1>2
  <2> QED BY <2>1, <2>2 DEF Adjacent
<1>5. \A i \in 1..Len(t) : i + 1 <= Len(t) => t[i + 1].start = t[i].end
  <2> SUFFICES ASSUME NEW i \in 1..Len(t), i + 1 <= Len(t) PROVE t[i + 1].start = t[i].end
    OBVIOUS
  <2>1. n + i \in 1..Len(s) /\ (n + i) + 1 <= Len(s) /\ t[i] = s[n + i] /\ t[i + 1] = s[(n + i) + 1]
    BY <1>2
  <2> QED BY <2>1 DEF Adjacent
<1>6. Adjacent(t)
  BY <1>2, <1>3, <1>4, <1>5 DEF Adjacent
<1>7. Bytes(t) <= Bytes(s)
  <2>1. CASE t = <<>>
    BY <2>1, AdjacentBytes DEF Bytes
  <2>2. CASE t # <<>>
    <3>1. Len(t) >= 1 /\ Bytes(t) = t[Len(t)].end - t[1].start
      BY <1>6, <2>2, AdjacentBytes
    <3>2. s # <<>> /\ Bytes(s) = s[Len(s)].end - s[1].start
      BY <1>2, <3>1, AdjacentBytes, EmptySeq
    <3>3. t[Len(t)] = s[Len(s)] /\ t[1] = s[n + 1]
      <4>1. Len(t) \in 1..(Len(s) - n) /\ n + Len(t) = Len(s) /\ 1 \in 1..(Len(s) - n)
        BY <1>2, <3>1
      <4>2. t[Len(t)] = s[n + Len(t)]
        BY <1>2, <4>1
      <4>3. t[1] = s[n + 1]
        BY <1>2, <4>1
      <4> QED BY <4>1, <4>2, <4>3
    <3>4. s[1].start <= s[n + 1].start
      <4>1. CASE n = 0
        BY <4>1, <1>1, <1>2, <3>1, EntryFields
      <4>2. CASE n > 0
        <5>1. 1 \in 1..Len(s) /\ n + 1 \in 1..Len(s) /\ 1 < n + 1
          BY <4>2, <1>2, <3>1
        <5>2. s[1].start < s[1].end /\ s[1].end <= s[n + 1].start
          BY <5>1 DEF Adjacent
        <5>3. s[1].start \in Nat /\ s[1].end \in Nat
          BY <1>1, <5>1, EntryFields
        <5>4. s[n + 1].start \in Nat
          BY <1>1, <5>1, EntryFields
        <5> QED BY <5>2, <5>3, <5>4
      <4> QED BY <4>1, <4>2
    <3>5. s[1].start \in Nat /\ s[n + 1].start \in Nat /\ s[Len(s)].end \in Nat
      BY <1>1, <1>2, <3>1, EntryFields
    <3>6. Bytes(t) = s[Len(s)].end - s[n + 1].start
      BY <3>1, <3>3
    <3> QED BY <3>2, <3>4, <3>5, <3>6, SMTT(40)
  <2> QED BY <2>1, <2>2
<1> QED BY <1>6, <1>7

LEMMA AdjacentFirst ==
    ASSUME NEW s, Adjacent(s), NEW n \in 0..Len(s), NEW t, t = SubSeq(s, 1, n)
    PROVE  Adjacent(t) /\ Bytes(t) <= Bytes(s)
<1>1. s \in Seq(Entry)
  BY DEF Adjacent
<1>2. /\ t \in Seq(Entry) /\ Len(t) = n /\ Len(s) \in Nat
      /\ \A i \in 1..n : t[i] = s[i]
  BY <1>1, FirstIs
<1>3. \A i \in 1..Len(t) : t[i].start < t[i].end /\ t[i].end <= t[i].start + MaxEntry
  BY <1>2 DEF Adjacent
<1>4. \A i, j \in 1..Len(t) : i < j => t[i].seq < t[j].seq /\ t[i].end <= t[j].start
  <2> TAKE i, j \in 1..Len(t)
  <2>1. i \in 1..Len(s) /\ j \in 1..Len(s) /\ t[i] = s[i] /\ t[j] = s[j]
    BY <1>2
  <2> QED BY <2>1 DEF Adjacent
<1>5. \A i \in 1..Len(t) : i + 1 <= Len(t) => t[i + 1].start = t[i].end
  BY <1>2, SMTT(40) DEF Adjacent
<1>6. Adjacent(t)
  BY <1>2, <1>3, <1>4, <1>5 DEF Adjacent
<1>7. Bytes(t) <= Bytes(s)
  <2>1. CASE t = <<>>
    BY <2>1, AdjacentBytes DEF Bytes
  <2>2. CASE t # <<>>
    <3>1. n >= 1 /\ Bytes(t) = t[n].end - t[1].start
      BY <1>2, <1>6, <2>2, AdjacentBytes
    <3>2. s # <<>> /\ Bytes(s) = s[Len(s)].end - s[1].start
      BY <1>2, <3>1, AdjacentBytes, EmptySeq
    <3>3. t[n] = s[n] /\ t[1] = s[1]
      BY <1>2, <3>1
    <3>4. /\ s[1].start \in Nat /\ s[n].end \in Nat
          /\ s[Len(s)].end \in Nat /\ s[Len(s)].start \in Nat
      BY <1>1, <1>2, <3>1, EntryFields
    <3>5. s[n].end <= s[Len(s)].end
      <4>1. CASE n = Len(s)
        BY <4>1, <3>4
      <4>2. CASE n < Len(s)
        <5>1. n \in 1..Len(s) /\ Len(s) \in 1..Len(s)
          BY <1>2, <3>1
        <5>2. s[n].end <= s[Len(s)].start /\ s[Len(s)].start < s[Len(s)].end
          BY <5>1, <4>2 DEF Adjacent
        <5> QED BY <5>2, <3>4
      <4> QED BY <4>1, <4>2, <1>2
    <3>6. Bytes(t) = s[n].end - s[1].start
      BY <3>1, <3>3
    <3> QED BY <3>2, <3>4, <3>5, <3>6
  <2> QED BY <2>1, <2>2
<1> QED BY <1>6, <1>7

-----------------------------------------------------------------------------
(* Counting entries *)

\* The numbers of the first n entries.
LEMMA FirstFinite ==
    ASSUME NEW s, NEW n \in Nat
    PROVE  /\ IsFiniteSet({s[i].seq : i \in 1..n})
           /\ Cardinality({s[i].seq : i \in 1..n}) <= n
<1> DEFINE T == {s[i].seq : i \in 1..n}
           g == [i \in 1..n |-> s[i].seq]
<1>1. g \in Surjection(1..n, T)
  BY DEF Surjection
<1>2. IsFiniteSet(1..n) /\ Cardinality(1..n) = n
  BY FS_Interval
<1>3. IsFiniteSet(T) /\ Cardinality(T) <= n
  <2> HIDE DEF T, g
  <2> QED BY <1>1, <1>2, FS_Surjection
<1> QED BY <1>3

LEMMA SeqsFinite ==
    ASSUME NEW s \in Seq(Entry)
    PROVE  /\ IsFiniteSet(Seqs(s)) /\ Seqs(s) \subseteq Nat
           /\ Seqs(s) = {s[i].seq : i \in 1..Len(s)}
<1>1. Len(s) \in Nat /\ DOMAIN s = 1..Len(s)
  BY LenProperties
<1>2. Seqs(s) = {s[i].seq : i \in 1..Len(s)}
  BY <1>1 DEF Seqs, ToSet
<1>4. IsFiniteSet({s[i].seq : i \in 1..Len(s)})
  BY <1>1, FirstFinite
<1>5. \A i \in 1..Len(s) : s[i].seq \in Nat
  BY EntryFields
<1> QED BY <1>2, <1>4, <1>5

\* Letting the oldest n entries go costs at most n of those accounted for.
LEMMA RestCounts ==
    ASSUME NEW s \in Seq(Entry), NEW n \in 0..Len(s), NEW t, t = SubSeq(s, n + 1, Len(s)),
           NEW st, IsFiniteSet(st)
    PROVE  /\ Cardinality(st \cup Seqs(s)) <= n + Cardinality(st \cup Seqs(t))
           /\ Cardinality(st \cup Seqs(s)) \in Nat /\ Cardinality(st \cup Seqs(t)) \in Nat
<1> DEFINE gone == {s[i].seq : i \in 1..n}
<1>1. /\ t \in Seq(Entry) /\ Len(t) = Len(s) - n /\ Len(s) \in Nat
      /\ \A i \in 1..(Len(s) - n) : t[i] = s[n + i]
  BY RestIs
<1>3. IsFiniteSet(gone) /\ Cardinality(gone) <= n
  BY <1>1, FirstFinite
<1>4. /\ Seqs(s) = {s[i].seq : i \in 1..Len(s)}
      /\ Seqs(t) = {t[i].seq : i \in 1..Len(t)}
      /\ IsFiniteSet(Seqs(s)) /\ IsFiniteSet(Seqs(t))
  BY <1>1, SeqsFinite
<1>5. Seqs(s) \subseteq gone \cup Seqs(t)
  <2> SUFFICES ASSUME NEW i \in 1..Len(s) PROVE s[i].seq \in gone \cup Seqs(t)
    BY <1>4
  <2>1. CASE i <= n
    BY <2>1
  <2>2. CASE i > n
    <3>1. i - n \in 1..Len(t) /\ t[i - n] = s[i]
      BY <1>1, <2>2
    <3> QED BY <3>1, <1>4
  <2> QED BY <2>1, <2>2, <1>1
<1>6. /\ IsFiniteSet(st \cup Seqs(s)) /\ IsFiniteSet(st \cup Seqs(t))
      /\ IsFiniteSet(gone \cup (st \cup Seqs(t)))
  BY <1>3, <1>4, FS_Union
<1>7. Cardinality(st \cup Seqs(s)) <= Cardinality(gone \cup (st \cup Seqs(t)))
  <2>1. (st \cup Seqs(s)) \in SUBSET (gone \cup (st \cup Seqs(t)))
    BY <1>5
  <2> QED BY <2>1, <1>6, FS_Subset
<1>8. /\ Cardinality(gone) \in Nat /\ Cardinality(st \cup Seqs(t)) \in Nat
      /\ Cardinality(st \cup Seqs(s)) \in Nat
      /\ Cardinality(gone \cap (st \cup Seqs(t))) \in Nat
  BY <1>3, <1>6, FS_CardinalityType, FS_Intersection
<1>9. Cardinality(gone \cup (st \cup Seqs(t)))
        = Cardinality(gone) + Cardinality(st \cup Seqs(t)) - Cardinality(gone \cap (st \cup Seqs(t)))
  BY <1>3, <1>6, FS_Union
<1> HIDE DEF gone
<1> QED BY <1>3, <1>7, <1>8, <1>9

-----------------------------------------------------------------------------
(* The operations of the ring *)

\* What making room leaves: a stretch from the back, with room, or one that
\* cannot give more; what went was not in flight.
LEMMA MakeRoomIs ==
    ASSUME NEW r, r.entries \in Seq(Entry), NEW size, NEW m, m = MakeRoom(r, size)
    PROVE  /\ m.evicted \in 0..Len(r.entries)
           /\ m.kept = SubSeq(r.entries, m.evicted + 1, Len(r.entries))
           /\ m.room = Fits(r, m.kept, size)
           /\ \A i \in 1..Len(r.entries) : i <= m.evicted => ~(r.entries[i].seq <= r.through)
<1> DEFINE Rest(n) == SubSeq(r.entries, n + 1, Len(r.entries))
           stops == {n \in 0..Len(r.entries) :
                        \/ Fits(r, Rest(n), size)
                        \/ n = Len(r.entries)
                        \/ r.entries[n + 1].seq <= r.through}
           cut == CHOOSE n \in stops : \A k \in stops : n <= k
<1>1. m = [room |-> Fits(r, Rest(cut), size), evicted |-> cut, kept |-> Rest(cut)]
  BY DEF MakeRoom
<1>2. Len(r.entries) \in Nat
  BY LenProperties
<1>3. stops \subseteq 0..Len(r.entries) /\ Len(r.entries) \in stops
  BY <1>2
<1>4. cut \in stops /\ cut \in 0..Len(r.entries) /\ \A k \in stops : cut <= k
  <2> HIDE DEF stops
  <2> QED BY <1>2, <1>3, LeastChosen
<1> HIDE DEF cut
<1>5. ASSUME NEW i \in 1..Len(r.entries), i <= cut, r.entries[i].seq <= r.through PROVE FALSE
  <2>1. i - 1 \in 0..Len(r.entries) /\ (i - 1) + 1 = i /\ i - 1 < cut
    BY <1>2, <1>4, <1>5
  <2>2. r.entries[(i - 1) + 1].seq <= r.through
    BY <2>1, <1>5
  <2>3. i - 1 \in stops
    BY <2>1, <2>2
  <2> HIDE DEF stops
  <2>4. cut <= i - 1
    BY <2>3, <1>4
  <2> QED BY <2>1, <2>4, <1>4
<1> HIDE DEF stops
<1>6. m.room = Fits(r, Rest(cut), size) /\ m.evicted = cut /\ m.kept = Rest(cut)
  <2> HIDE DEF Rest
  <2> QED BY <1>1
<1> QED BY <1>4, <1>5, <1>6

\* A batch is a stretch from the front, and empty only when nothing is staged.
LEMMA PeekBatchIs ==
    ASSUME NEW r, Adjacent(r.entries), NEW b, b = PeekBatch(r)
    PROVE  /\ Adjacent(b) /\ Len(b) \in 0..Len(r.entries)
           /\ b = SubSeq(r.entries, 1, Len(b))
           /\ \A i \in 1..Len(b) : b[i] = r.entries[i]
           /\ b = <<>> => r.entries = <<>>
<1> DEFINE fitting == {n \in 0..Len(r.entries) :
                          n <= MaxCount /\ Bytes(SubSeq(r.entries, 1, n)) <= MaxEntry}
           count == CHOOSE n \in fitting : \A m \in fitting : m <= n
<1>1. b = SubSeq(r.entries, 1, count)
  BY DEF PeekBatch
<1>2. Len(r.entries) \in Nat /\ r.entries \in Seq(Entry)
  BY LenProperties DEF Adjacent
<1>3. 0 \in fitting
  <2>1. SubSeq(r.entries, 1, 0) = <<>>
    BY SubSeqEmpty
  <2>2. Bytes(SubSeq(r.entries, 1, 0)) = 0
    BY <2>1 DEF Bytes
  <2> QED BY <1>2, <2>2, RingConstants
<1>4. count \in fitting /\ count \in 0..Len(r.entries) /\ \A k \in fitting : k <= count
  <2>1. fitting \subseteq 0..Len(r.entries)
    OBVIOUS
  <2> HIDE DEF fitting
  <2> QED BY <1>2, <1>3, <2>1, GreatestChosen
<1> HIDE DEF count
<1>5. /\ b \in Seq(Entry) /\ Len(b) = count
      /\ \A i \in 1..count : b[i] = r.entries[i]
  BY <1>1, <1>2, <1>4, FirstIs
<1>6. Adjacent(b)
  BY <1>1, <1>4, AdjacentFirst
<1>7. ASSUME b = <<>>, r.entries # <<>> PROVE FALSE
  <2>1. Len(r.entries) >= 1 /\ 1 \in 0..Len(r.entries)
    BY <1>2, <1>7, EmptySeq
  <2> DEFINE one == SubSeq(r.entries, 1, 1)
  <2>2. one \in Seq(Entry) /\ Len(one) = 1 /\ one[1] = r.entries[1]
    BY <1>2, <2>1, FirstIs
  <2>3. Bytes(one) = one[1].end - one[1].start
    <3> HIDE DEF one
    <3>1. one # <<>>
      BY <2>2, EmptySeq
    <3> QED BY <2>2, <3>1 DEF Bytes, Last
  <2>4. Bytes(one) <= MaxEntry
    <3>1. r.entries[1].end <= r.entries[1].start + MaxEntry
      BY <2>1, <1>2 DEF Adjacent
    <3>2. r.entries[1].end \in Nat /\ r.entries[1].start \in Nat
      BY <1>2, <2>1, EntryFields
    <3> HIDE DEF one
    <3> QED BY <2>2, <2>3, <3>1, <3>2, RingConstants
  <2>5. 1 \in fitting
    BY <2>1, <2>4, RingConstants
  <2>6. count = 0
    BY <1>5, <1>7, EmptySeq
  <2> QED BY <2>5, <2>6, <1>4
<1> QED BY <1>1, <1>4, <1>5, <1>6, <1>7

\* Acknowledging a batch that is still staged takes it from the front.
LEMMA AckHeld ==
    ASSUME NEW r \in RingState, Adjacent(r.entries), NEW b, b # <<>>, Adjacent(b), Held(b, r)
    PROVE  /\ AckBatch(r, b) = [ReleaseBatch(r) EXCEPT
                  !.entries = SubSeq(r.entries, Len(b) + 1, Len(r.entries))]
           /\ Len(b) \in 0..Len(r.entries)
<1> DEFINE stops == {n \in 0..Len(r.entries) :
                        n < Len(r.entries) => r.entries[n + 1].seq > Last(b).seq}
           cut == CHOOSE n \in stops : \A m \in stops : n <= m
<1>1. AckBatch(r, b) = [ReleaseBatch(r) EXCEPT
                           !.entries = SubSeq(r.entries, cut + 1, Len(r.entries))]
  BY DEF AckBatch, ReleaseBatch, RingState
<1>2. Len(r.entries) \in Nat /\ r.entries \in Seq(Entry) /\ Len(b) \in Nat /\ Len(b) >= 1
  BY LenProperties, AdjacentBytes DEF Adjacent
<1>3. Len(b) \in 0..Len(r.entries) /\ Len(b) \in 1..Len(r.entries)
  BY <1>2 DEF Held
<1>4. \A i \in 1..Len(b) : b[i] = r.entries[i]
  BY <1>2, <1>3, FirstIs DEF Held
<1>5. Last(b) = r.entries[Len(b)]
  BY <1>2, <1>4 DEF Last
<1>6. Len(b) \in stops
  <2>1. ASSUME Len(b) < Len(r.entries) PROVE r.entries[Len(b) + 1].seq > Last(b).seq
    <3>1. Len(b) + 1 \in 1..Len(r.entries) /\ Len(b) < Len(b) + 1
      BY <1>2, <2>1
    <3>2. r.entries[Len(b)].seq < r.entries[Len(b) + 1].seq
      BY <3>1, <1>3 DEF Adjacent
    <3>3. r.entries[Len(b)].seq \in Nat /\ r.entries[Len(b) + 1].seq \in Nat
      BY <1>2, <1>3, <3>1, EntryFields
    <3> QED BY <3>2, <3>3, <1>5
  <2> QED BY <2>1, <1>3
<1>7. cut \in stops /\ cut \in 0..Len(r.entries) /\ \A k \in stops : cut <= k
  <2>1. stops \subseteq 0..Len(r.entries)
    OBVIOUS
  <2> HIDE DEF stops
  <2> QED BY <1>2, <1>6, <2>1, LeastChosen
<1>8. cut = Len(b)
  <2> SUFFICES ASSUME cut < Len(b) PROVE FALSE
    BY <1>2, <1>6, <1>7
  <2>1. cut < Len(r.entries)
    BY <1>2, <1>3, <1>7
  <2>2. r.entries[cut + 1].seq > Last(b).seq
    BY <1>7, <2>1
  <2>3. cut + 1 \in 1..Len(r.entries) /\ cut + 1 <= Len(b)
    BY <1>2, <1>3, <1>7
  <2>4. r.entries[cut + 1].seq <= r.entries[Len(b)].seq
    <3>1. cut + 1 < Len(b) => r.entries[cut + 1].seq < r.entries[Len(b)].seq
      BY <2>3, <1>3 DEF Adjacent
    <3>2. r.entries[cut + 1].seq \in Nat /\ r.entries[Len(b)].seq \in Nat
      BY <1>2, <1>3, <2>3, EntryFields
    <3> HIDE DEF cut
    <3> QED BY <3>1, <3>2, <2>3, <1>3, <1>7
  <2>5. r.entries[cut + 1].seq \in Nat /\ r.entries[Len(b)].seq \in Nat
    BY <1>2, <1>3, <2>3, EntryFields
  <2> HIDE DEF cut
  <2> QED BY <2>2, <2>4, <2>5, <1>5
<1> QED BY <1>1, <1>3, <1>8

\* Acknowledging one that a reset forgot takes nothing.
LEMMA AckGone ==
    ASSUME NEW r \in RingState, Adjacent(r.entries), NEW b, b # <<>>, Adjacent(b), Gone(b, r)
    PROVE  AckBatch(r, b) = ReleaseBatch(r)
<1> DEFINE stops == {n \in 0..Len(r.entries) :
                        n < Len(r.entries) => r.entries[n + 1].seq > Last(b).seq}
           cut == CHOOSE n \in stops : \A m \in stops : n <= m
<1>1. AckBatch(r, b) = [ReleaseBatch(r) EXCEPT
                           !.entries = SubSeq(r.entries, cut + 1, Len(r.entries))]
  BY DEF AckBatch, ReleaseBatch, RingState
<1>2. Len(r.entries) \in Nat /\ r.entries \in Seq(Entry)
  BY LenProperties DEF Adjacent
<1>3. 0 \in stops
  <2>1. ASSUME 0 < Len(r.entries) PROVE r.entries[0 + 1].seq > Last(b).seq
    <3>1. 1 \in 1..Len(r.entries)
      BY <1>2, <2>1
    <3>2. Last(b).seq < r.entries[1].seq
      BY <3>1 DEF Gone
    <3>3. Len(b) \in 1..Len(b) /\ b \in Seq(Entry)
      BY AdjacentBytes DEF Adjacent
    <3>4. Last(b).seq \in Nat /\ r.entries[1].seq \in Nat
      BY <3>1, <3>3, <1>2, EntryFields DEF Last
    <3> QED BY <3>2, <3>4
  <2> QED BY <2>1, <1>2
<1>4. cut = 0
  <2>1. stops \subseteq 0..Len(r.entries)
    OBVIOUS
  <2>2. cut \in 0..Len(r.entries) /\ \A k \in stops : cut <= k
    <3> HIDE DEF stops
    <3> QED BY <1>2, <1>3, <2>1, LeastChosen
  <2> HIDE DEF cut, stops
  <2> QED BY <2>2, <1>2, <1>3
<1>5. SubSeq(r.entries, 0 + 1, Len(r.entries)) = r.entries
  BY <1>2, RestIs
<1>6. [ReleaseBatch(r) EXCEPT !.entries = r.entries] = ReleaseBatch(r)
  BY DEF ReleaseBatch, RingState
<1> QED BY <1>1, <1>4, <1>5, <1>6

-----------------------------------------------------------------------------
(* A reset, and the beginning of a write *)

LEMMA ResetFields ==
    ASSUME NEW r \in RingState
    PROVE  /\ Reset(r) \in RingState
           /\ Reset(r) = [r EXCEPT !.dropped = r.dropped + Len(r.entries), !.entries = <<>>,
                                   !.orphaned = r.inflight, !.through = 0, !.account = None]
<1>1. Len(r.entries) \in Nat
  BY LenProperties DEF RingState
<1>2. <<>> \in Seq(Entry)
  BY EmptySeq
<1>3. r.dropped + Len(r.entries) \in Nat
  BY <1>1 DEF RingState
<1> QED BY <1>2, <1>3 DEF Reset, RingState

\* What the batch in flight keeps of the ring's bytes.
LEMMA InflightBounded ==
    ASSUME NEW f, NEW r, NEW d, NEW st, NEW l, NEW s,
           Staged(r, s), Writing(f, r, d, st, l)
    PROVE  r.inflight <= MaxBytes
<1>1. Bytes(r.entries) \in Nat /\ r.inflight \in Nat /\ r.orphaned \in Nat
  BY AdjacentBytes DEF Staged, RingState
<1>2. CASE f.stage = "write" /\ f.batch # <<>>
  <2>1. CASE Held(f.batch, r)
    <3>1. Len(f.batch) \in 0..Len(r.entries)
      <4>1. f.batch \in Seq(Entry)
        BY <1>2 DEF Writing, Adjacent
      <4> QED BY <4>1, <2>1, LenProperties DEF Held, Staged, Adjacent
    <3>2. Bytes(f.batch) <= Bytes(r.entries)
      BY <2>1, <3>1, AdjacentFirst DEF Held, Staged
    <3> QED BY <1>1, <2>1, <3>2, RingConstants DEF Held, Staged
  <2>2. CASE Gone(f.batch, r)
    BY <1>1, <2>2, RingConstants DEF Gone, Staged
  <2> QED BY <1>2, <2>1, <2>2 DEF Writing
<1>3. CASE ~(f.stage = "write" /\ f.batch # <<>>)
  BY <1>3, RingConstants DEF Writing
<1> QED BY <1>2, <1>3

LEMMA ResetKeeps ==
    ASSUME NEW f, NEW r, NEW d, NEW st, NEW l, NEW s,
           f.counted \in Nat,
           Staged(r, s), Writing(f, r, d, st, l), Counted(r, st)
    PROVE  /\ Staged(Reset(r), s) /\ Writing(f, Reset(r), d, st, l) /\ Counted(Reset(r), st)
           /\ r.dropped <= Reset(r).dropped
<1> DEFINE q == Reset(r)
<1>1. /\ q \in RingState /\ r \in RingState
      /\ q.entries = <<>> /\ q.dropped = r.dropped + Len(r.entries) /\ q.orphaned = r.inflight
      /\ q.inflight = r.inflight /\ q.through = 0 /\ q.account = None /\ q.last = r.last
      /\ q.desired = r.desired /\ q.cleared = r.cleared /\ q.logouts = r.logouts
  <2> DEFINE n == r.dropped + Len(r.entries)
  <2>1. r \in RingState
    BY DEF Staged
  <2>2. q \in RingState
    BY <2>1, ResetFields
  <2>3. q = [r EXCEPT !.dropped = n, !.entries = <<>>, !.orphaned = r.inflight,
                      !.through = 0, !.account = None]
    BY <2>1, ResetFields
  <2> HIDE DEF q, n
  <2>4. /\ q.entries = <<>> /\ q.dropped = n /\ q.orphaned = r.inflight
        /\ q.inflight = r.inflight /\ q.through = 0 /\ q.account = None /\ q.last = r.last
        /\ q.desired = r.desired /\ q.cleared = r.cleared /\ q.logouts = r.logouts
    BY <2>1, <2>3 DEF RingState
  <2> QED BY <2>1, <2>2, <2>4 DEF n
<1>2. r.dropped \in Nat /\ r.inflight \in Nat /\ Len(r.entries) \in Nat /\ r.dropped <= q.dropped
  BY <1>1, LenProperties DEF RingState
<1>3. Adjacent(<<>>) /\ Bytes(<<>>) = 0 /\ Len(<<>>) = 0
  BY EmptySeq DEF Adjacent, Bytes
<1>4. r.inflight <= MaxBytes
  BY InflightBounded
<1> HIDE DEF q
<1>5. Staged(q, s)
  <2>1. Bytes(q.entries) + q.orphaned <= MaxBytes
    BY <1>1, <1>2, <1>3, <1>4, RingConstants
  <2>2. q.cleared <= q.logouts /\ q.desired \in {None, s}
    BY <1>1 DEF Staged
  <2> QED BY <1>1, <1>3, <2>1, <2>2, RingConstants DEF Staged
<1>6. Writing(f, q, d, st, l)
  <2>1. ASSUME f.stage = "write", f.batch # <<>> PROVE Gone(f.batch, q)
    <3>1. r.inflight = Bytes(f.batch)
      BY <2>1 DEF Writing, Held, Gone
    <3> QED BY <1>1, <1>3, <3>1 DEF Gone
  <2>2. ASSUME ~(f.stage = "write" /\ f.batch # <<>>)
        PROVE  q.through = 0 /\ q.inflight = 0 /\ q.orphaned = 0
    BY <1>1, <2>2 DEF Writing
  <2>3. ASSUME f.stage = "write" PROVE f.counted <= q.dropped
    BY <1>2, <2>3, <1>1 DEF Writing
  <2>4. ASSUME f.stage = "write", f.batch = <<>>, ~l PROVE q.entries = <<>> /\ q.dropped = f.counted
    <3>1. r.entries = <<>> /\ r.dropped = f.counted
      BY <2>4 DEF Writing
    <3> QED BY <3>1, <1>1, <1>2, <1>3
  <2> QED BY <1>1, <2>1, <2>2, <2>3, <2>4 DEF Writing
<1>7. Counted(q, st)
  <2>1. st \subseteq 1..r.last /\ r.last <= r.dropped + Cardinality(st \cup Seqs(r.entries)) /\ r.last \in Nat
    BY <1>1, RingConstants DEF Counted, RingState
  <2>2. IsFiniteSet(st)
    <3>1. IsFiniteSet(1..r.last)
      BY <2>1, FS_Interval
    <3> QED BY <2>1, <3>1, FS_Subset
  <2>3. r.entries \in Seq(Entry) /\ Len(r.entries) \in 0..Len(r.entries)
    BY <1>1, <1>2 DEF RingState
  <2>4. SubSeq(r.entries, Len(r.entries) + 1, Len(r.entries)) = <<>>
    BY <1>2, SubSeqEmpty
  <2>5. /\ Cardinality(st \cup Seqs(r.entries)) <= Len(r.entries) + Cardinality(st \cup Seqs(<<>>))
        /\ Cardinality(st \cup Seqs(r.entries)) \in Nat /\ Cardinality(st \cup Seqs(<<>>)) \in Nat
    BY <2>2, <2>3, <2>4, RestCounts
  <2> QED BY <1>1, <1>2, <2>1, <2>5 DEF Counted
<1> QED BY <1>2, <1>5, <1>6, <1>7 DEF q

\* Nothing is in flight: what a turn of the flush task may start from.
AtRest(r) == r.through = 0 /\ r.inflight = 0 /\ r.orphaned = 0

LEMMA FlushUpdatesKeeps ==
    ASSUME NEW r, NEW f, NEW again \in BOOLEAN, NEW l,
           FlushUpdates(r, f, again),
           Staged(r, session), Bound(r, session, store), Counted(r, stored), AtRest(r),
           f \in FlushState, f.known <= r.dropped, closing \in BOOLEAN
    PROVE  /\ Staged(ring', session) /\ Bound(ring', session, store) /\ Counted(ring', stored)
           /\ flush' \in FlushState /\ flush'.known <= ring'.dropped
           /\ Lifecycle(flush', ring', store)
           /\ Writing(flush', ring', store, stored, l)
           /\ flush'.stage \in {"idle", "write", "finished"}
           /\ flush'.stage = "finished" =>
                 closing /\ (ring'.generation # None => Reported(ring', flush', stored))
<1> DEFINE b == PeekBatch(r)
<1>1. /\ Adjacent(b) /\ Len(b) \in 0..Len(r.entries)
      /\ b = SubSeq(r.entries, 1, Len(b))
      /\ \A i \in 1..Len(b) : b[i] = r.entries[i]
      /\ b = <<>> => r.entries = <<>>
  BY PeekBatchIs DEF Staged
<1> HIDE DEF b
<1>2. r \in RingState /\ <<>> \in Seq(Entry)
  BY EmptySeq DEF Staged
<1>3. CASE r.generation = None \/ (b = <<>> /\ r.dropped = f.known /\ f.settled)
  <2>1. ring' = r /\ flush' = TurnEnds(f, again)
    BY <1>3 DEF FlushUpdates, b
  <2>2. /\ flush' \in FlushState /\ flush'.known = f.known /\ ~flush'.done
        /\ flush'.stage = IF closing /\ ~again THEN "finished" ELSE "idle"
    BY <2>1, <1>2, ZenonT(60) DEF TurnEnds, NewFlush, FlushState, Stages
  <2>3. Lifecycle(flush', ring', store)
    BY <2>2 DEF Lifecycle
  <2>4. Writing(flush', ring', store, stored, l)
    BY <2>1, <2>2 DEF Writing, AtRest
  <2>5. ASSUME r.generation # None PROVE Reported(r, flush', stored)
    <3>1. r.entries = <<>> /\ r.dropped = f.known
      BY <1>1, <1>3, <2>5
    <3>2. Seqs(<<>>) = {}
      BY DEF Seqs, ToSet
    <3> QED BY <2>2, <3>1, <3>2 DEF Reported
  <2> QED BY <2>1, <2>2, <2>3, <2>4, <2>5
<1>4. CASE ~(r.generation = None \/ (b = <<>> /\ r.dropped = f.known /\ f.settled))
  <2>1. /\ ring' = Peeked(r, b)
        /\ flush' = [TurnEnds(f, TRUE) EXCEPT !.stage = "write", !.again = again, !.batch = b,
                        !.counted = r.dropped, !.generation = r.generation]
    BY <1>4 DEF FlushUpdates, b
  <2>2. b \in Seq(Entry)
    BY <1>1 DEF Adjacent
  <2>3. /\ flush' \in FlushState /\ flush'.known = f.known /\ flush'.stage = "write"
        /\ flush'.batch = b /\ flush'.counted = r.dropped /\ flush'.generation = r.generation
        /\ ~flush'.done /\ flush'.again = again
    <3> DEFINE t == TurnEnds(f, TRUE)
    <3>1. t \in FlushState /\ t.known = f.known /\ ~t.done
      BY <1>2, ZenonT(60) DEF TurnEnds, NewFlush, FlushState, Stages
    <3> HIDE DEF t
    <3>2. flush' = [t EXCEPT !.stage = "write", !.again = again, !.batch = b,
                        !.counted = r.dropped, !.generation = r.generation]
      BY <2>1 DEF t
    <3>3. r.dropped \in Nat /\ r.generation \in Nat \cup {None}
      BY <1>2 DEF RingState
    <3> QED BY <2>2, <3>1, <3>2, <3>3 DEF FlushState, Stages
  <2>4. Lifecycle(flush', ring', store)
    BY <2>3 DEF Lifecycle
  <2>5. ASSUME NEW i \in 1..Len(b)
        PROVE  /\ b[i].seq <= r.last
               /\ IsGeneration(store, r.generation) => b[i].owner = store.account
    <3>1. i \in 1..Len(r.entries) /\ b[i] = r.entries[i]
      BY <1>1, <1>2, LenProperties DEF RingState
    <3>2. b[i].seq <= r.last /\ b[i].owner = session
      BY <3>1 DEF Staged
    <3> QED BY <3>2, <1>4 DEF Bound
  <2>6. CASE b = <<>>
    <3>1. ring' = r
      BY <2>1, <2>6 DEF Peeked
    <3>2. Writing(flush', ring', store, stored, l)
      BY <1>1, <1>2, <2>3, <2>5, <2>6, <3>1 DEF Writing, AtRest, RingState
    <3> QED BY <2>3, <2>4, <3>1, <3>2
  <2>7. CASE b # <<>>
    <3>1. ring' = [r EXCEPT !.through = Last(b).seq, !.inflight = Bytes(b)]
      BY <2>1, <2>7 DEF Peeked
    <3>2. Last(b).seq \in Nat /\ Bytes(b) \in Nat
      BY <1>1, <2>2, <2>7, AdjacentBytes, EntryFields DEF Last
    <3> DEFINE th == Last(b).seq
               fl == Bytes(b)
    <3> HIDE DEF th, fl
    <3>3. /\ ring' = [r EXCEPT !.through = th, !.inflight = fl] /\ th \in Nat /\ fl \in Nat
          /\ th = Last(b).seq /\ fl = Bytes(b)
      BY <3>1, <3>2 DEF th, fl
    <3>4. /\ ring' \in RingState
          /\ ring'.through = th /\ ring'.inflight = fl
          /\ ring'.entries = r.entries /\ ring'.last = r.last /\ ring'.orphaned = r.orphaned
          /\ ring'.account = r.account /\ ring'.generation = r.generation
          /\ ring'.desired = r.desired /\ ring'.revision = r.revision
          /\ ring'.logouts = r.logouts /\ ring'.cleared = r.cleared /\ ring'.dropped = r.dropped
      BY <3>3, <1>2 DEF RingState
    <3>5. Staged(ring', session)
      BY <3>4 DEF Staged
    <3>6. Bound(ring', session, store) /\ Counted(ring', stored)
      BY <3>4 DEF Bound, Counted
    <3>7. Held(b, ring')
      <4>1. Len(b) <= Len(r.entries) /\ r.orphaned = 0
        BY <1>1, <1>2, LenProperties DEF AtRest, RingState
      <4> QED BY <3>3, <3>4, <4>1, <1>1 DEF Held
    <3>8. Writing(flush', ring', store, stored, l)
      <4>1. flush'.counted <= ring'.dropped
        BY <2>3, <3>4 DEF RingState
      <4> QED BY <1>1, <2>3, <2>5, <2>7, <3>4, <3>7, <4>1 DEF Writing
    <3> QED BY <2>3, <2>4, <3>4, <3>5, <3>6, <3>8
  <2> QED BY <2>6, <2>7
<1> QED BY <1>3, <1>4

-----------------------------------------------------------------------------
(* The connection *)

\* A later entry that begins where the last one ends.
Follows(e, s) ==
    /\ e.start < e.end /\ e.end <= e.start + MaxEntry
    /\ s # <<>> => e.start = Last(s).end
    /\ \A i \in 1..Len(s) : s[i].seq < e.seq

Extends(t, s, e) ==
    /\ Bytes(t) = Bytes(s) + (e.end - e.start)
    /\ Len(t) = Len(s) + 1
    /\ Seqs(t) = Seqs(s) \cup {e.seq}
    /\ \A i \in 1..Len(s) : t[i] = s[i]
    /\ t[Len(s) + 1] = e

LEMMA AdjacentAppend ==
    ASSUME NEW s, Adjacent(s), NEW e \in Entry, Follows(e, s), NEW t, t = Append(s, e)
    PROVE  Adjacent(t) /\ Extends(t, s, e)
<1>1. s \in Seq(Entry) /\ Len(s) \in Nat
  BY LenProperties DEF Adjacent
<1>2. /\ t \in Seq(Entry) /\ Len(t) = Len(s) + 1
      /\ \A i \in 1..Len(s) : t[i] = s[i]
      /\ t[Len(s) + 1] = e
  BY <1>1, AppendProperties
<1>3. /\ e.start \in Nat /\ e.end \in Nat /\ e.seq \in Nat
      /\ e.start < e.end /\ e.end <= e.start + MaxEntry
      /\ s # <<>> => e.start = Last(s).end
      /\ \A i \in 1..Len(s) : s[i].seq < e.seq
  BY RingConstants, SMTT(40) DEF Entry, Follows
<1>4. \A i \in 1..Len(s) : s[i].end <= e.start
  <2> TAKE i \in 1..Len(s)
  <2>1. s # <<>> /\ Len(s) \in 1..Len(s) /\ e.start = s[Len(s)].end
    BY <1>1, <1>3, EmptySeq DEF Last
  <2>2. s[i].end \in Nat /\ s[Len(s)].end \in Nat /\ s[Len(s)].start \in Nat
    BY <1>1, <2>1, EntryFields
  <2>3. CASE i = Len(s)
    BY <2>1, <2>2, <2>3
  <2>4. CASE i < Len(s)
    <3>1. s[i].end <= s[Len(s)].start /\ s[Len(s)].start < s[Len(s)].end
      BY <2>1, <2>4 DEF Adjacent
    <3> QED BY <2>1, <2>2, <3>1
  <2> QED BY <1>1, <2>3, <2>4
<1>5. \A i \in 1..Len(t) : t[i].start < t[i].end /\ t[i].end <= t[i].start + MaxEntry
  <2> TAKE i \in 1..Len(t)
  <2>1. CASE i = Len(s) + 1
    BY <1>2, <1>3, <2>1
  <2>2. CASE i \in 1..Len(s)
    BY <1>2, <2>2 DEF Adjacent
  <2> QED BY <1>1, <1>2, <2>1, <2>2
<1>6. \A i, j \in 1..Len(t) : i < j => t[i].seq < t[j].seq /\ t[i].end <= t[j].start
  <2> SUFFICES ASSUME NEW i \in 1..Len(t), NEW j \in 1..Len(t), i < j
               PROVE  t[i].seq < t[j].seq /\ t[i].end <= t[j].start
    OBVIOUS
  <2>1. i \in 1..Len(s) /\ t[i] = s[i]
    BY <1>1, <1>2
  <2>2. CASE j = Len(s) + 1
    BY <1>2, <1>3, <1>4, <2>1, <2>2
  <2>3. CASE j \in 1..Len(s)
    BY <1>2, <2>1, <2>3 DEF Adjacent
  <2> QED BY <1>1, <1>2, <2>2, <2>3
<1>7. \A i \in 1..Len(t) : i + 1 <= Len(t) => t[i + 1].start = t[i].end
  <2> SUFFICES ASSUME NEW i \in 1..Len(t), i + 1 <= Len(t) PROVE t[i + 1].start = t[i].end
    OBVIOUS
  <2>1. i \in 1..Len(s) /\ t[i] = s[i]
    BY <1>1, <1>2
  <2>2. CASE i = Len(s)
    <3>1. s # <<>> /\ e.start = s[Len(s)].end
      BY <1>3, <2>1, EmptySeq DEF Last
    <3>2. t[i + 1] = e
      BY <1>2, <2>2
    <3> QED BY <2>1, <2>2, <3>1, <3>2
  <2>3. CASE i < Len(s)
    <3>1. i + 1 \in 1..Len(s) /\ i + 1 <= Len(s)
      BY <1>1, <2>1, <2>3
    <3>2. t[i + 1] = s[i + 1]
      BY <1>2, <3>1
    <3> QED BY <2>1, <3>1, <3>2 DEF Adjacent
  <2> QED BY <1>1, <2>1, <2>2, <2>3
<1>8. Adjacent(t)
  BY <1>2, <1>5, <1>6, <1>7 DEF Adjacent
<1>9. Bytes(t) = Bytes(s) + (e.end - e.start)
  <2>1. Bytes(t) = e.end - t[1].start
    <3>1. t # <<>>
      BY <1>1, <1>2, EmptySeq
    <3>2. Bytes(t) = t[Len(t)].end - t[1].start
      BY <1>8, <3>1, AdjacentBytes
    <3> QED BY <1>2, <3>2
  <2>2. CASE s = <<>>
    <3>1. t[1] = e /\ Bytes(s) = 0
      BY <1>2, <2>2, EmptySeq DEF Bytes
    <3> QED BY <1>3, <2>1, <3>1
  <2>3. CASE s # <<>>
    <3>1. Len(s) >= 1 /\ Bytes(s) = s[Len(s)].end - s[1].start /\ e.start = s[Len(s)].end
      BY <1>3, <2>3, AdjacentBytes DEF Last
    <3>2. t[1] = s[1] /\ s[1].start \in Nat
      BY <1>1, <1>2, <3>1, EntryFields
    <3> QED BY <1>3, <2>1, <3>1, <3>2
  <2> QED BY <2>2, <2>3
<1>10. Seqs(t) = Seqs(s) \cup {e.seq}
  <2>1. /\ Seqs(t) = {t[i].seq : i \in 1..Len(t)}
        /\ Seqs(s) = {s[i].seq : i \in 1..Len(s)}
    BY <1>1, <1>2, SeqsFinite
  <2>2. 1..Len(t) = 1..Len(s) \cup {Len(s) + 1}
    BY <1>1, <1>2
  <2>3. \A i \in 1..Len(s) : t[i].seq = s[i].seq
    BY <1>2
  <2>4. t[Len(s) + 1].seq = e.seq
    BY <1>2
  <2> QED BY <2>1, <2>2, <2>3, <2>4
<1> QED BY <1>2, <1>8, <1>9, <1>10 DEF Extends

\* What is written stays as it was when the ring drops older entries that are
\* not in flight, or takes a later one.
LEMMA HeldKeeps ==
    ASSUME NEW b, NEW r, NEW q, Held(b, r), b \in Seq(Entry),
           r.entries \in Seq(Entry), q.entries \in Seq(Entry),
           Len(r.entries) <= Len(q.entries),
           \A i \in 1..Len(r.entries) : q.entries[i] = r.entries[i],
           q.through = r.through, q.inflight = r.inflight, q.orphaned = r.orphaned
    PROVE  Held(b, q)
<1>1. Len(b) \in Nat /\ Len(r.entries) \in Nat /\ Len(q.entries) \in Nat
  BY LenProperties
<1>2. Len(b) \in 0..Len(r.entries) /\ Len(b) \in 0..Len(q.entries)
  BY <1>1 DEF Held
<1> DEFINE t == SubSeq(q.entries, 1, Len(b))
<1>3. /\ t \in Seq(Entry) /\ Len(t) = Len(b)
      /\ \A i \in 1..Len(b) : t[i] = q.entries[i]
  BY <1>2, FirstIs
<1>4. \A i \in 1..Len(b) : b[i] = r.entries[i]
  BY <1>2, FirstIs DEF Held
<1>5. \A i \in 1..Len(b) : b[i] = t[i]
  BY <1>1, <1>2, <1>3, <1>4
<1>6. b = t
  <2> HIDE DEF t
  <2> QED BY <1>3, <1>5, SeqEqual
<1> QED BY <1>1, <1>2, <1>6 DEF Held

LEMMA OneMoreLost ==
    ASSUME NEW last \in Nat, NEW dropped \in Nat, NEW evicted \in Nat, NEW kept \in Nat,
           last <= dropped + evicted + kept
    PROVE  /\ dropped + evicted + 1 \in Nat /\ dropped < dropped + evicted + 1
           /\ last + 1 <= (dropped + evicted + 1) + kept
OBVIOUS

LEMMA CaptureRing ==
    ASSUME RingInv, NEW size \in 1..(MaxEntry + 1), session # None, ring.last < MaxSequence,
           NEW q, q = CaptureInto(ring, size, session), NEW l \in BOOLEAN,
           l = (late \/ (flush.stage = "write" /\ flush.batch = <<>>))
    PROVE  /\ Staged(q, session) /\ Bound(q, session, store) /\ Counted(q, stored)
           /\ ring.dropped <= q.dropped
           /\ Lifecycle(flush, q, store) /\ Writing(flush, q, store, stored, l)
<1> DEFINE r == ring
           m == MakeRoom(ring, size)
           seq == ring.last + 1
           start == IF m.kept = <<>> THEN 0 ELSE Last(m.kept).end
           fresh == [seq |-> seq, start |-> start, end |-> start + size, owner |-> session]
<1>1. r \in RingState /\ Adjacent(r.entries) /\ r.entries \in Seq(Entry) /\ Len(r.entries) \in Nat
  BY LenProperties DEF RingInv, Staged, Adjacent
<1>2. /\ m.evicted \in 0..Len(r.entries)
      /\ m.kept = SubSeq(r.entries, m.evicted + 1, Len(r.entries))
      /\ m.room = Fits(r, m.kept, size)
      /\ \A i \in 1..Len(r.entries) : i <= m.evicted => ~(r.entries[i].seq <= r.through)
  BY <1>1, MakeRoomIs
<1> HIDE DEF m
<1>3. /\ m.kept \in Seq(Entry) /\ Len(m.kept) = Len(r.entries) - m.evicted
      /\ \A i \in 1..Len(m.kept) : m.kept[i] = r.entries[m.evicted + i]
      /\ m.evicted = 0 => m.kept = r.entries
      /\ Adjacent(m.kept) /\ Bytes(m.kept) <= Bytes(r.entries)
  <2>1. /\ m.kept \in Seq(Entry) /\ Len(m.kept) = Len(r.entries) - m.evicted
        /\ \A i \in 1..(Len(r.entries) - m.evicted) : m.kept[i] = r.entries[m.evicted + i]
        /\ m.evicted = 0 => m.kept = r.entries
    <3> DEFINE es == r.entries
               ev == m.evicted
               kp == m.kept
    <3>1. es \in Seq(Entry) /\ ev \in 0..Len(es) /\ kp = SubSeq(es, ev + 1, Len(es))
      BY <1>1, <1>2
    <3> HIDE DEF es, ev, kp
    <3>2. /\ kp \in Seq(Entry) /\ Len(kp) = Len(es) - ev
          /\ \A i \in 1..(Len(es) - ev) : kp[i] = es[ev + i]
          /\ ev = 0 => kp = es
      BY <3>1, RestIs
    <3> QED BY <3>2 DEF es, ev, kp
  <2>2. Adjacent(m.kept) /\ Bytes(m.kept) <= Bytes(r.entries)
    BY <1>1, <1>2, AdjacentRest
  <2> QED BY <2>1, <2>2
<1>4. /\ Len(m.kept) \in Nat /\ Bytes(m.kept) \in Nat /\ Bytes(r.entries) \in Nat
      /\ r.orphaned \in Nat /\ r.dropped \in Nat /\ r.last \in Nat /\ seq \in 1..MaxSequence
      /\ m.evicted \in Nat /\ size \in Nat /\ size >= 1
  <2>1. Len(m.kept) \in Nat /\ Bytes(m.kept) \in Nat /\ Bytes(r.entries) \in Nat
    BY <1>1, <1>3, AdjacentBytes
  <2>2. r.orphaned \in Nat /\ r.dropped \in Nat /\ r.last \in 0..MaxSequence
    BY <1>1 DEF RingState
  <2>3. seq \in 1..MaxSequence /\ r.last \in Nat
    BY <2>2, RingConstants
  <2>4. m.evicted \in Nat
    BY <1>1, <1>2
  <2>5. size \in Nat /\ size >= 1
    BY RingConstants
  <2> QED BY <2>1, <2>2, <2>3, <2>4, <2>5
<1>5. IsFiniteSet(stored) /\ stored \subseteq 1..r.last
  <2>1. IsFiniteSet(1..r.last)
    <3>1. 1 \in Int /\ r.last \in Int
      BY <1>4
    <3> QED BY <3>1, FS_Interval
  <2> QED BY <2>1, FS_Subset DEF RingInv, Counted
<1>6. /\ Cardinality(stored \cup Seqs(r.entries)) <= m.evicted + Cardinality(stored \cup Seqs(m.kept))
      /\ Cardinality(stored \cup Seqs(r.entries)) \in Nat
      /\ Cardinality(stored \cup Seqs(m.kept)) \in Nat
  BY <1>1, <1>2, <1>5, RestCounts
<1>7. r.last <= r.dropped + m.evicted + Cardinality(stored \cup Seqs(m.kept))
  BY <1>4, <1>6, SMTT(40) DEF RingInv, Counted
<1>8. \A i \in 1..Len(m.kept) : m.kept[i].seq <= r.last /\ m.kept[i].owner = session
  <2> TAKE i \in 1..Len(m.kept)
  <2>1. m.kept[i] = r.entries[m.evicted + i]
    BY <1>3
  <2>2. m.evicted + i \in 1..Len(r.entries)
    <3>1. Len(m.kept) = Len(r.entries) - m.evicted
      BY <1>3
    <3> QED BY <3>1, <1>1, <1>4, SMTT(40)
  <2> QED BY <2>1, <2>2 DEF RingInv, Staged
<1>9. ASSUME Held(flush.batch, r), flush.stage = "write", flush.batch # <<>>
      PROVE  m.evicted = 0 /\ m.kept = r.entries
  <2>1. flush.batch \in Seq(Entry)
    BY <1>9 DEF RingInv, Writing, Adjacent
  <2>2. Len(flush.batch) \in 0..Len(r.entries) /\ Len(flush.batch) >= 1
    BY <1>1, <1>9, <2>1, LenProperties, EmptySeq DEF Held
  <2> DEFINE k == Len(flush.batch)
  <2>3. flush.batch[k] = r.entries[k]
    BY <1>1, <1>9, <2>1, <2>2, FirstIs DEF Held
  <2>4. r.through = r.entries[k].seq
    BY <1>9, <2>3 DEF Held, Last
  <2>5. r.entries[1].seq <= r.entries[k].seq
    <3>1. k \in 1..Len(r.entries) /\ 1 \in 1..Len(r.entries)
      BY <1>1, <2>2
    <3>2. 1 < k => r.entries[1].seq < r.entries[k].seq
      BY <3>1 DEF RingInv, Staged, Adjacent
    <3>3. r.entries[1].seq \in Nat /\ r.entries[k].seq \in Nat
      BY <1>1, <3>1, EntryFields
    <3> QED BY <2>2, <3>1, <3>2, <3>3
  <2>6. ~(1 <= m.evicted)
    BY <1>1, <1>2, <2>2, <2>4, <2>5
  <2> QED BY <1>2, <1>3, <2>6
\* Both ways a record is lost: the ring keeps what was made room of.
<1>10. ASSUME NEW k, NEW n,
              (k = r.entries /\ n = r.dropped + 1)
                \/ (k = m.kept /\ n = r.dropped + m.evicted + 1),
              q = [r EXCEPT !.last = seq, !.entries = k, !.dropped = n]
       PROVE  /\ Staged(q, session) /\ Bound(q, session, store) /\ Counted(q, stored)
              /\ ring.dropped <= q.dropped
              /\ Lifecycle(flush, q, store) /\ Writing(flush, q, store, stored, l)
  <2>1. /\ k \in Seq(Entry) /\ Adjacent(k) /\ n \in Nat /\ r.dropped < n
        /\ Bytes(k) <= Bytes(r.entries) /\ Len(k) <= Len(r.entries) /\ Bytes(k) \in Nat
        /\ \A i \in 1..Len(k) : k[i].seq <= r.last /\ k[i].owner = session
        /\ r.last + 1 <= n + Cardinality(stored \cup Seqs(k))
    <3>1. CASE k = r.entries /\ n = r.dropped + 1
      <4>1. r.last <= r.dropped + Cardinality(stored \cup Seqs(r.entries))
        BY DEF RingInv, Counted
      <4>2. \A i \in 1..Len(k) : k[i].seq <= r.last /\ k[i].owner = session
        BY <3>1 DEF RingInv, Staged
      <4>3. n \in Nat /\ r.dropped < n /\ r.last + 1 <= n + Cardinality(stored \cup Seqs(k))
        <5>1. Cardinality(stored \cup Seqs(k)) = Cardinality(stored \cup Seqs(r.entries))
          BY <3>1
        <5>2. r.last <= r.dropped + 0 + Cardinality(stored \cup Seqs(r.entries))
          BY <1>4, <1>6, <4>1
        <5>3. n = r.dropped + 0 + 1 /\ 0 \in Nat
          BY <1>4, <3>1
        <5> QED BY <1>4, <1>6, <5>1, <5>2, <5>3, OneMoreLost
      <4>4. Bytes(k) <= Bytes(r.entries) /\ Len(k) <= Len(r.entries) /\ Bytes(k) \in Nat
        BY <1>1, <1>4, <3>1
      <4> QED BY <1>1, <3>1, <4>2, <4>3, <4>4
    <3>2. CASE k = m.kept /\ n = r.dropped + m.evicted + 1
      <4>1. n \in Nat /\ r.dropped < n /\ r.last + 1 <= n + Cardinality(stored \cup Seqs(k))
        <5>1. Cardinality(stored \cup Seqs(k)) = Cardinality(stored \cup Seqs(m.kept))
          BY <3>2
        <5> QED BY <1>4, <1>6, <1>7, <3>2, <5>1, OneMoreLost
      <4>2. Len(k) <= Len(r.entries)
        <5>1. Len(m.kept) = Len(r.entries) - m.evicted
          BY <1>3
        <5> QED BY <5>1, <1>1, <1>4, <3>2
      <4> QED BY <1>3, <1>4, <1>8, <3>2, <4>1, <4>2
    <3> QED BY <1>10, <3>1, <3>2
  <2>2. /\ q \in RingState /\ q.entries = k /\ q.last = seq /\ q.dropped = n
        /\ q.through = r.through /\ q.inflight = r.inflight /\ q.orphaned = r.orphaned
        /\ q.account = r.account /\ q.generation = r.generation /\ q.desired = r.desired
        /\ q.revision = r.revision /\ q.logouts = r.logouts /\ q.cleared = r.cleared
    <3> HIDE DEF seq, r
    <3>1. r \in RingState /\ seq \in 0..MaxSequence
      BY <1>1, <1>4, RingConstants
    <3> QED BY <1>10, <2>1, <3>1 DEF RingState
  <2>3. Staged(q, session)
    <3>1. Bytes(q.entries) + q.orphaned <= MaxBytes /\ Len(q.entries) <= MaxEntries
      <4>1. Bytes(r.entries) + r.orphaned <= MaxBytes /\ Len(r.entries) <= MaxEntries
        BY DEF RingInv, Staged
      <4>2. Bytes(k) + r.orphaned <= MaxBytes
        BY <1>4, <2>1, <4>1, RingConstants
      <4>3. Len(k) <= MaxEntries
        BY <1>1, <2>1, <4>1, LenProperties, RingConstants
      <4> QED BY <2>2, <4>2, <4>3
    <3>2. \A i \in 1..Len(q.entries) : q.entries[i].seq <= q.last /\ q.entries[i].owner = session
      <4> TAKE i \in 1..Len(q.entries)
      <4>1. k[i].seq \in Nat
        BY <2>1, <2>2, EntryFields
      <4> QED BY <1>4, <2>1, <2>2, <4>1, SMTT(40)
    <3>3. q.desired \in {None, session} /\ q.account \in {None, session} /\ q.cleared <= q.logouts
      BY <2>2 DEF RingInv, Staged
    <3> QED BY <2>1, <2>2, <3>1, <3>2, <3>3 DEF Staged
  <2>4. Bound(q, session, store) /\ Lifecycle(flush, q, store)
    BY <2>2 DEF RingInv, Bound, Lifecycle
  <2>5. Counted(q, stored)
    BY <1>4, <1>5, <2>1, <2>2 DEF Counted
  <2>6. Writing(flush, q, store, stored, l)
    <3>1. ASSUME flush.stage = "write", flush.batch # <<>>
          PROVE  Held(flush.batch, q) \/ Gone(flush.batch, q)
      <4>1. CASE Held(flush.batch, r)
        <5>1. k = r.entries
          BY <1>9, <1>10, <3>1, <4>1
        <5>2. flush.batch \in Seq(Entry)
          BY <3>1 DEF RingInv, Writing, Adjacent
        <5> QED BY <1>1, <2>2, <4>1, <5>1, <5>2, HeldKeeps
      <4>2. CASE Gone(flush.batch, r)
        <5>1. \A i \in 1..Len(k) : Last(flush.batch).seq < k[i].seq
          <6>1. CASE k = r.entries
            BY <4>2, <6>1 DEF Gone
          <6>2. CASE k = m.kept
            <7> TAKE i \in 1..Len(k)
            <7>1. k[i] = r.entries[m.evicted + i]
              BY <1>3, <6>2
            <7>2. m.evicted + i \in 1..Len(r.entries)
              <8> DEFINE kept == Len(k)
                         all == Len(r.entries)
                         cut == m.evicted
              <8>1. kept = all - cut
                BY <1>3, <6>2
              <8>2. kept \in Nat /\ all \in Nat /\ cut \in Nat
                BY <1>1, <1>4, <6>2
              <8>3. i \in 1..kept
                OBVIOUS
              <8> HIDE DEF kept, all, cut
              <8>4. cut + i \in 1..all
                BY <8>1, <8>2, <8>3
              <8> QED BY <8>4 DEF cut, all
            <7> QED BY <4>2, <7>1, <7>2 DEF Gone
          <6> QED BY <1>10, <6>1, <6>2
        <5> QED BY <2>2, <4>2, <5>1 DEF Gone
      <4> QED BY <3>1, <4>1, <4>2 DEF RingInv, Writing
    <3>2. ASSUME ~(flush.stage = "write" /\ flush.batch # <<>>)
          PROVE  q.through = 0 /\ q.inflight = 0 /\ q.orphaned = 0
      BY <2>2, <3>2 DEF RingInv, Writing
    <3>3. ASSUME flush.stage = "write"
          PROVE  /\ Adjacent(flush.batch) /\ flush.counted <= q.dropped
                 /\ \A i \in 1..Len(flush.batch) :
                       /\ flush.batch[i].seq <= q.last
                       /\ IsGeneration(store, flush.generation) => flush.batch[i].owner = store.account
                       /\ flush.done /\ flush.answer => flush.batch[i].seq \in stored
                 /\ flush.batch = <<>> => l \/ (q.entries = <<>> /\ q.dropped = flush.counted)
      <4>1. Adjacent(flush.batch) /\ flush.counted <= r.dropped /\ flush.counted \in Nat
        BY <3>3 DEF RingInv, Writing, FlushState
      <4>2. ASSUME NEW i \in 1..Len(flush.batch)
            PROVE  /\ flush.batch[i].seq <= q.last
                   /\ IsGeneration(store, flush.generation) => flush.batch[i].owner = store.account
                   /\ flush.done /\ flush.answer => flush.batch[i].seq \in stored
        <5>1. flush.batch[i].seq <= r.last /\ flush.batch[i].seq \in Nat
          BY <3>3, <4>1, <4>2, EntryFields DEF RingInv, Writing, Adjacent
        <5>2. flush.batch[i].seq <= q.last
          BY <1>4, <2>2, <5>1
        <5> QED BY <3>3, <4>2, <5>2 DEF RingInv, Writing
      <4>3. flush.counted <= q.dropped
        BY <1>4, <2>1, <2>2, <4>1
      <4>4. flush.batch = <<>> => l
        BY <3>3
      <4> QED BY <4>1, <4>2, <4>3, <4>4
    <3> QED BY <3>1, <3>2, <3>3 DEF Writing
  <2>7. ring.dropped <= q.dropped
    BY <1>4, <2>1, <2>2
  <2> QED BY <2>3, <2>4, <2>5, <2>6, <2>7
\* The record is staged behind what was made room of.
<1>11. ASSUME m.room, size <= MaxEntry,
              q = [r EXCEPT !.last = seq, !.dropped = r.dropped + m.evicted,
                            !.entries = Append(m.kept, fresh)]
       PROVE  /\ Staged(q, session) /\ Bound(q, session, store) /\ Counted(q, stored)
              /\ ring.dropped <= q.dropped
              /\ Lifecycle(flush, q, store) /\ Writing(flush, q, store, stored, l)
  <2> DEFINE t == Append(m.kept, fresh)
             n == r.dropped + m.evicted
  <2>1. /\ fresh \in Entry /\ fresh.start < fresh.end /\ fresh.end <= fresh.start + MaxEntry
        /\ fresh.end - fresh.start = size /\ fresh.seq = seq /\ fresh.owner = session
        /\ m.kept # <<>> => fresh.start = Last(m.kept).end
        /\ m.kept = <<>> => fresh.start = 0
    <3>1. start \in Nat
      <4>1. CASE m.kept = <<>>
        BY <4>1
      <4>2. CASE m.kept # <<>>
        <5>1. Len(m.kept) \in 1..Len(m.kept)
          BY <1>3, <1>4, <4>2, EmptySeq
        <5> QED BY <1>3, <4>2, <5>1, EntryFields DEF Last
      <4> QED BY <4>1, <4>2
    <3>2. session \in Accounts
      BY DEF RingInv
    <3>3. (m.kept # <<>> => start = Last(m.kept).end) /\ (m.kept = <<>> => start = 0)
      OBVIOUS
    <3> HIDE DEF start, seq
    <3>4. fresh \in Entry
      BY <1>4, <3>1, <3>2 DEF Entry
    <3>5. /\ fresh.start = start /\ fresh.end = start + size
          /\ fresh.seq = seq /\ fresh.owner = session
      OBVIOUS
    <3> HIDE DEF fresh
    <3>6. size <= MaxEntry
      BY <1>11
    <3>7. fresh.start < fresh.end /\ fresh.end <= fresh.start + MaxEntry /\ fresh.end - fresh.start = size
      BY <1>4, <3>1, <3>5, <3>6, RingConstants
    <3> QED BY <3>3, <3>4, <3>5, <3>7
  <2>2. \A i \in 1..Len(m.kept) : m.kept[i].seq < fresh.seq
    <3> TAKE i \in 1..Len(m.kept)
    <3>1. m.kept[i].seq <= r.last /\ m.kept[i].seq \in Nat
      BY <1>3, <1>8, EntryFields
    <3> QED BY <1>4, <2>1, <3>1
  <2> HIDE DEF fresh
  <2>3. /\ Adjacent(t) /\ Bytes(t) = Bytes(m.kept) + (fresh.end - fresh.start)
        /\ Len(t) = Len(m.kept) + 1
        /\ Seqs(t) = Seqs(m.kept) \cup {fresh.seq}
        /\ \A i \in 1..Len(m.kept) : t[i] = m.kept[i]
        /\ t[Len(m.kept) + 1] = fresh
    <3> DEFINE kp == m.kept
    <3>1. Adjacent(kp) /\ fresh \in Entry /\ Follows(fresh, kp)
      BY <1>3, <2>1, <2>2 DEF Follows
    <3>2. t = Append(kp, fresh)
      OBVIOUS
    <3> HIDE DEF kp, t
    <3>3. Adjacent(t) /\ Extends(t, kp, fresh)
      BY <3>1, <3>2, AdjacentAppend
    <3>4. Adjacent(t) /\ Extends(t, m.kept, fresh)
      BY <3>3 DEF kp
    <3> QED BY <3>4 DEF Extends
  <2>4. t \in Seq(Entry) /\ n \in Nat
    BY <1>4, <2>3 DEF Adjacent
  <2> HIDE DEF t
  <2>5. /\ q \in RingState /\ q.entries = t /\ q.last = seq /\ q.dropped = n
        /\ q.through = r.through /\ q.inflight = r.inflight /\ q.orphaned = r.orphaned
        /\ q.account = r.account /\ q.generation = r.generation /\ q.desired = r.desired
        /\ q.revision = r.revision /\ q.logouts = r.logouts /\ q.cleared = r.cleared
    <3>1. q = [r EXCEPT !.last = seq, !.dropped = n, !.entries = t]
      BY <1>11 DEF t
    <3> HIDE DEF seq, r, n
    <3>2. r \in RingState /\ seq \in 0..MaxSequence
      BY <1>1, <1>4, RingConstants
    <3> QED BY <2>4, <3>1, <3>2 DEF RingState
  <2>6. Bytes(m.kept) + r.orphaned + size <= MaxBytes /\ Len(m.kept) < MaxEntries
    BY <1>2, <1>11 DEF Fits
  <2>7. \A i \in 1..Len(t) : t[i].seq <= seq /\ t[i].owner = session
    <3> TAKE i \in 1..Len(t)
    <3>1. CASE i = Len(m.kept) + 1
      BY <1>4, <2>1, <2>3, <3>1
    <3>2. CASE i \in 1..Len(m.kept)
      <4>1. t[i] = m.kept[i] /\ m.kept[i].seq <= r.last /\ m.kept[i].owner = session
        BY <1>8, <2>3, <3>2
      <4>2. m.kept[i].seq \in Nat
        BY <1>3, <3>2, EntryFields
      <4> QED BY <1>4, <4>1, <4>2, SMTT(40)
    <3> QED BY <1>4, <2>3, <3>1, <3>2
  <2>8. Staged(q, session)
    <3>1. Bytes(t) + r.orphaned <= MaxBytes /\ Len(t) <= MaxEntries
      <4>1. Bytes(t) = Bytes(m.kept) + size
        BY <2>1, <2>3
      <4>2. Len(t) = Len(m.kept) + 1
        BY <2>3
      <4>3. Bytes(t) + r.orphaned <= MaxBytes
        BY <1>4, <2>6, <4>1, RingConstants
      <4>4. Len(t) <= MaxEntries
        BY <1>4, <2>6, <4>2, RingConstants
      <4> QED BY <4>3, <4>4
    <3>2. q.desired \in {None, session} /\ q.account \in {None, session} /\ q.cleared <= q.logouts
      BY <2>5 DEF RingInv, Staged
    <3> QED BY <2>3, <2>5, <2>7, <3>1, <3>2 DEF Staged
  <2>9. Bound(q, session, store) /\ Lifecycle(flush, q, store)
    BY <2>5 DEF RingInv, Bound, Lifecycle
  <2>10. Counted(q, stored)
    <3> DEFINE before == stored \cup Seqs(m.kept)
    <3>1. stored \cup Seqs(t) = before \cup {seq}
      BY <2>1, <2>3
    <3>2. seq \notin before
      <4>1. seq \notin stored
        BY <1>4, <1>5
      <4>2. seq \notin Seqs(m.kept)
        <5>1. Seqs(m.kept) = {m.kept[i].seq : i \in 1..Len(m.kept)}
          BY <1>3, SeqsFinite
        <5>2. \A i \in 1..Len(m.kept) : m.kept[i].seq # seq
          <6> TAKE i \in 1..Len(m.kept)
          <6>1. m.kept[i].seq <= r.last /\ m.kept[i].seq \in Nat
            BY <1>3, <1>8, EntryFields
          <6> QED BY <1>4, <6>1
        <5> QED BY <5>1, <5>2
      <4> QED BY <4>1, <4>2
    <3>3. IsFiniteSet(before)
      BY <1>3, <1>5, SeqsFinite, FS_Union
    <3>4. Cardinality(before \cup {seq}) = Cardinality(before) + 1
      <4> HIDE DEF before, seq
      <4> QED BY <3>2, <3>3, FS_AddElement
    <3>5. Cardinality(stored \cup Seqs(t)) = Cardinality(before) + 1
      <4> HIDE DEF before
      <4> QED BY <3>1, <3>4
    <3>6. q.last <= q.dropped + Cardinality(stored \cup Seqs(t))
      <4> DEFINE c == Cardinality(before)
                 x == Cardinality(stored \cup Seqs(t))
      <4>1. c \in Nat /\ x = c + 1 /\ r.last <= r.dropped + m.evicted + c
        BY <1>6, <1>7, <3>5
      <4>2. q.last = r.last + 1 /\ q.dropped = r.dropped + m.evicted
        BY <2>5
      <4> HIDE DEF c, x
      <4>3. q.last <= q.dropped + x
        BY <4>1, <4>2, <1>4
      <4> QED BY <4>3 DEF x
    <3>7. stored \subseteq 1..q.last
      BY <1>4, <1>5, <2>5
    <3> QED BY <2>5, <3>6, <3>7 DEF Counted
  <2>11. Writing(flush, q, store, stored, l)
    <3>1. ASSUME flush.stage = "write", flush.batch # <<>>
          PROVE  Held(flush.batch, q) \/ Gone(flush.batch, q)
      <4>1. CASE Held(flush.batch, r)
        <5>1. m.kept = r.entries
          BY <1>9, <3>1, <4>1
        <5>2. flush.batch \in Seq(Entry)
          BY <3>1 DEF RingInv, Writing, Adjacent
        <5>3. Len(r.entries) <= Len(q.entries) /\ \A i \in 1..Len(r.entries) : q.entries[i] = r.entries[i]
          BY <1>1, <2>3, <2>5, <5>1
        <5> QED BY <1>1, <2>4, <2>5, <4>1, <5>2, <5>3, HeldKeeps
      <4>2. CASE Gone(flush.batch, r)
        <5>1. flush.batch \in Seq(Entry) /\ Len(flush.batch) \in 1..Len(flush.batch)
          BY <3>1, LenProperties, EmptySeq DEF RingInv, Writing, Adjacent
        <5>2. Last(flush.batch).seq <= r.last /\ Last(flush.batch).seq \in Nat
          BY <3>1, <5>1, EntryFields DEF RingInv, Writing, Last
        <5>3. \A i \in 1..Len(t) : Last(flush.batch).seq < t[i].seq
          <6> TAKE i \in 1..Len(t)
          <6>1. CASE i = Len(m.kept) + 1
            BY <1>4, <2>1, <2>3, <5>2, <6>1, SMTT(40)
          <6>2. CASE i \in 1..Len(m.kept)
            <7>1. t[i] = r.entries[m.evicted + i]
              BY <1>3, <2>3, <6>2
            <7>2. m.evicted + i \in 1..Len(r.entries)
              <8> DEFINE kept == Len(m.kept)
                         all == Len(r.entries)
                         cut == m.evicted
              <8>1. kept = all - cut
                BY <1>3
              <8>2. kept \in Nat /\ all \in Nat /\ cut \in Nat
                BY <1>1, <1>4
              <8>3. i \in 1..kept
                BY <6>2
              <8> HIDE DEF kept, all, cut
              <8>4. cut + i \in 1..all
                BY <8>1, <8>2, <8>3
              <8> QED BY <8>4 DEF cut, all
            <7> QED BY <4>2, <7>1, <7>2 DEF Gone
          <6> QED BY <1>4, <2>3, <6>1, <6>2
        <5> QED BY <2>5, <4>2, <5>3 DEF Gone
      <4> QED BY <3>1, <4>1, <4>2 DEF RingInv, Writing
    <3>2. ASSUME ~(flush.stage = "write" /\ flush.batch # <<>>)
          PROVE  q.through = 0 /\ q.inflight = 0 /\ q.orphaned = 0
      BY <2>5, <3>2 DEF RingInv, Writing
    <3>3. ASSUME flush.stage = "write"
          PROVE  /\ Adjacent(flush.batch) /\ flush.counted <= q.dropped
                 /\ \A i \in 1..Len(flush.batch) :
                       /\ flush.batch[i].seq <= q.last
                       /\ IsGeneration(store, flush.generation) => flush.batch[i].owner = store.account
                       /\ flush.done /\ flush.answer => flush.batch[i].seq \in stored
                 /\ flush.batch = <<>> => l \/ (q.entries = <<>> /\ q.dropped = flush.counted)
      <4>1. Adjacent(flush.batch) /\ flush.counted <= r.dropped /\ flush.counted \in Nat
        BY <3>3 DEF RingInv, Writing, FlushState
      <4>2. ASSUME NEW i \in 1..Len(flush.batch)
            PROVE  /\ flush.batch[i].seq <= q.last
                   /\ IsGeneration(store, flush.generation) => flush.batch[i].owner = store.account
                   /\ flush.done /\ flush.answer => flush.batch[i].seq \in stored
        <5>1. flush.batch[i].seq <= r.last /\ flush.batch[i].seq \in Nat
          BY <3>3, <4>1, <4>2, EntryFields DEF RingInv, Writing, Adjacent
        <5>2. flush.batch[i].seq <= q.last
          BY <1>4, <2>5, <5>1, SMTT(40)
        <5> QED BY <3>3, <4>2, <5>2 DEF RingInv, Writing
      <4>3. flush.counted <= q.dropped
        BY <1>4, <2>5, <4>1
      <4>4. flush.batch = <<>> => l
        BY <3>3
      <4> QED BY <4>1, <4>2, <4>3, <4>4
    <3> QED BY <3>1, <3>2, <3>3 DEF Writing
  <2>12. ring.dropped <= q.dropped
    BY <1>4, <2>5
  <2> QED BY <2>8, <2>9, <2>10, <2>11, <2>12
<1>12. CASE size > MaxEntry
  <2>1. q = [r EXCEPT !.last = seq, !.dropped = r.dropped + 1]
    BY <1>12 DEF CaptureInto
  <2>2. q = [r EXCEPT !.last = seq, !.entries = r.entries, !.dropped = r.dropped + 1]
    <3> HIDE DEF seq
    <3> QED BY <1>1, <2>1 DEF RingState
  <2> QED BY <1>10, <2>2
<1>13. CASE size <= MaxEntry /\ ~m.room
  <2>1. ~(size > MaxEntry)
    BY <1>4, <1>13, RingConstants
  <2>2. q = [r EXCEPT !.last = seq, !.entries = m.kept, !.dropped = r.dropped + m.evicted + 1]
    BY <1>13, <2>1 DEF CaptureInto, m
  <2> QED BY <1>10, <2>2
<1>14. CASE size <= MaxEntry /\ m.room
  <2>1. ~(size > MaxEntry)
    BY <1>4, <1>14, RingConstants
  <2>2. q = [r EXCEPT !.last = seq, !.dropped = r.dropped + m.evicted,
                      !.entries = Append(m.kept, fresh)]
    BY <1>14, <2>1 DEF CaptureInto, m
  <2> QED BY <1>11, <1>14, <2>2
<1>15. m.room \in BOOLEAN
  BY <1>2 DEF Fits
<1> QED BY <1>4, <1>12, <1>13, <1>14, <1>15, RingConstants

\* Steps of the connection keep what they leave alone: nothing has ended yet.
LEMMA ConnectionSteps ==
    ASSUME RingInv, ~closing, UNCHANGED <<flush, store, run, stored, lossy>>,
           Staged(ring', session'), Bound(ring', session', store), Counted(ring', stored),
           ring.dropped <= ring'.dropped, ring'.dropped \in Nat,
           Lifecycle(flush, ring', store), Writing(flush, ring', store, stored, late'),
           session' \in Accounts \cup {None}, closing' \in BOOLEAN, late' \in BOOLEAN
    PROVE  RingInv'
<1>1. flush.stage \notin {"finished", "end", "exited"}
  BY DEF RingInv, Finishing
<1>2. Finishing(flush, ring', store, stored, late', closing', run)
  BY <1>1 DEF RingInv, Finishing
<1>3. flush.known <= ring'.dropped
  <2>1. flush.known \in Nat /\ ring.dropped \in Nat /\ flush.known <= ring.dropped
    BY DEF RingInv, FlushState, Staged, RingState
  <2> QED BY <2>1
<1>4. LossIsReported'
  BY DEF RingInv, LossIsReported
<1> QED BY <1>2, <1>3, <1>4 DEF RingInv

LEMMA CaptureKeeps ==
    ASSUME RingInv, NEW size \in 1..(MaxEntry + 1), Capture(size)
    PROVE  RingInv'
<1>1. late' \in BOOLEAN /\ late' = (late \/ (flush.stage = "write" /\ flush.batch = <<>>))
  BY DEF Capture, RingInv
<1>2. /\ Staged(ring', session) /\ Bound(ring', session, store) /\ Counted(ring', stored)
      /\ ring.dropped <= ring'.dropped
      /\ Lifecycle(flush, ring', store) /\ Writing(flush, ring', store, stored, late')
  BY <1>1, CaptureRing DEF Capture
<1>3. ring'.dropped \in Nat
  BY <1>2 DEF Staged, RingState
<1> QED BY <1>1, <1>2, <1>3, ConnectionSteps DEF Capture, RingInv

LEMMA LoginKeeps == ASSUME RingInv, NEW a \in Accounts, Login(a) PROVE RingInv'
<1>1. ring' = ring /\ session' = a /\ session = None /\ None \notin Accounts
  BY RingConstants DEF Login
<1>2. Len(ring.entries) = 0
  <2> SUFFICES ASSUME Len(ring.entries) # 0 PROVE FALSE
    OBVIOUS
  <2>1. ring.entries \in Seq(Entry) /\ 1 \in 1..Len(ring.entries)
    BY LenProperties DEF RingInv, Staged, RingState
  <2>2. ring.entries[1].owner = session /\ ring.entries[1].owner \in Accounts
    BY <2>1, EntryFields DEF RingInv, Staged
  <2> QED BY <1>1, <2>2
<1>3. Staged(ring', session')
  BY <1>1, <1>2 DEF RingInv, Staged
<1>4. Bound(ring', session', store)
  BY <1>1 DEF RingInv, Bound
<1> QED BY <1>1, <1>3, <1>4, ConnectionSteps DEF Login, RingInv, Staged, RingState

LEMMA VerifyKeeps == ASSUME RingInv, Verify PROVE RingInv'
<1>1. ring' = [ring EXCEPT !.generation = None, !.desired = session, !.revision = @ + 1]
  BY DEF RingInv, Staged, Verify, RequestVerifiedAccount
<1>2. ring \in RingState /\ session \in Accounts \cup {None}
  BY DEF RingInv, Staged
<1>3. /\ ring' \in RingState
      /\ ring'.entries = ring.entries /\ ring'.last = ring.last /\ ring'.through = ring.through
      /\ ring'.inflight = ring.inflight /\ ring'.orphaned = ring.orphaned
      /\ ring'.account = ring.account /\ ring'.generation = None /\ ring'.desired = session
      /\ ring'.revision = ring.revision + 1 /\ ring'.logouts = ring.logouts
      /\ ring'.cleared = ring.cleared /\ ring'.dropped = ring.dropped
  <2> DEFINE n == ring.revision + 1
  <2>1. n \in Nat
    BY <1>2 DEF RingState
  <2>2. ring' = [ring EXCEPT !.generation = None, !.desired = session, !.revision = n]
    BY <1>1, <1>2 DEF RingState
  <2>3. n = ring.revision + 1
    OBVIOUS
  <2> HIDE DEF n
  <2> QED BY <1>2, <2>1, <2>2, <2>3 DEF RingState
<1>4. session' = session /\ late' = late /\ closing' = closing
  BY DEF Verify
<1>5. Staged(ring', session')
  BY <1>3, <1>4 DEF RingInv, Staged
<1>6. Bound(ring', session', store) /\ Counted(ring', stored)
  BY <1>3 DEF RingInv, Bound, Counted
<1>7. Lifecycle(flush, ring', store)
  <2>1. flush.revision \in Nat /\ ring.revision \in Nat
    BY <1>2 DEF RingInv, FlushState, RingState
  <2>2. flush.stage \in {"bind", "begin"} => flush.revision <= ring'.revision /\ flush.revision # ring'.revision
    BY <1>3, <2>1 DEF RingInv, Lifecycle
  <2> QED BY <1>3, <2>2 DEF RingInv, Lifecycle
<1>8. Writing(flush, ring', store, stored, late')
  BY <1>3, <1>4 DEF RingInv, Writing, Held, Gone
<1>9. ring.dropped <= ring'.dropped /\ ring'.dropped \in Nat
  BY <1>2, <1>3 DEF RingState
<1> QED BY <1>4, <1>5, <1>6, <1>7, <1>8, <1>9, ConnectionSteps DEF Verify, RingInv

LEMMA LogoutKeeps == ASSUME RingInv, Logout PROVE RingInv'
<1> DEFINE q == Reset(ring)
<1>1. ring' = [q EXCEPT !.generation = None, !.desired = None, !.revision = q.revision + 1,
                        !.logouts = q.logouts + 1]
  BY DEF Logout, RequestLogout
<1>2. /\ Staged(q, session) /\ Writing(flush, q, store, stored, late) /\ Counted(q, stored)
      /\ ring.dropped <= q.dropped
  BY ResetKeeps DEF RingInv, FlushState
<1>3. /\ q \in RingState /\ q.revision = ring.revision /\ q.logouts = ring.logouts
      /\ q.cleared = ring.cleared /\ q.entries = <<>> /\ q.account = None
  <2>1. ring \in RingState
    BY DEF RingInv, Staged
  <2> DEFINE n == ring.dropped + Len(ring.entries)
  <2>2. q \in RingState /\ q = [ring EXCEPT !.dropped = n, !.entries = <<>>,
                                  !.orphaned = ring.inflight, !.through = 0, !.account = None]
    BY <2>1, ResetFields
  <2> HIDE DEF q, n
  <2> QED BY <2>1, <2>2 DEF RingState
<1> HIDE DEF q
<1>4. /\ ring' \in RingState
      /\ ring'.entries = <<>> /\ ring'.last = q.last /\ ring'.through = q.through
      /\ ring'.inflight = q.inflight /\ ring'.orphaned = q.orphaned
      /\ ring'.account = None /\ ring'.generation = None /\ ring'.desired = None
      /\ ring'.revision = ring.revision + 1 /\ ring'.logouts = ring.logouts + 1
      /\ ring'.cleared = ring.cleared /\ ring'.dropped = q.dropped
  <2> DEFINE n == q.revision + 1
             m == q.logouts + 1
  <2>1. n \in Nat /\ m \in Nat
    BY <1>3 DEF RingState
  <2>2. ring' = [q EXCEPT !.generation = None, !.desired = None, !.revision = n, !.logouts = m]
    BY <1>1
  <2>3. n = ring.revision + 1 /\ m = ring.logouts + 1
    BY <1>3
  <2> HIDE DEF n, m
  <2> QED BY <1>3, <2>1, <2>2, <2>3 DEF RingState
<1>5. session' = None /\ late' = late /\ closing' = closing
  BY DEF Logout
<1>6. Staged(ring', session')
  <2>1. ring.cleared <= ring.logouts /\ ring.cleared \in Nat /\ ring.logouts \in Nat
    BY DEF RingInv, Staged, RingState
  <2>2. Adjacent(<<>>) /\ Len(<<>>) = 0
    BY EmptySeq DEF Adjacent
  <2>3. Bytes(ring'.entries) + ring'.orphaned <= MaxBytes
    BY <1>2, <1>3, <1>4 DEF Staged
  <2> QED BY <1>4, <1>5, <2>1, <2>2, <2>3, RingConstants DEF Staged
<1>7. Bound(ring', session', store) /\ Counted(ring', stored)
  BY <1>2, <1>3, <1>4 DEF Bound, Counted
<1>8. Lifecycle(flush, ring', store)
  <2>1. /\ flush.revision \in Nat /\ ring.revision \in Nat
        /\ flush.serial \in Nat /\ ring.logouts \in Nat
    BY DEF RingInv, FlushState, Staged, RingState
  <2>2. flush.stage \in {"bind", "begin"} => flush.revision <= ring'.revision /\ flush.revision # ring'.revision
    BY <1>4, <2>1 DEF RingInv, Lifecycle
  <2>3. flush.stage = "clear" => flush.serial <= ring'.logouts
    BY <1>4, <2>1 DEF RingInv, Lifecycle
  <2> QED BY <1>4, <2>2, <2>3 DEF RingInv, Lifecycle
<1>9. Writing(flush, ring', store, stored, late')
  BY <1>2, <1>3, <1>4, <1>5 DEF Writing, Held, Gone
<1>10. ring.dropped <= ring'.dropped /\ ring'.dropped \in Nat
  BY <1>2, <1>3, <1>4 DEF RingState
<1> QED BY <1>5, <1>6, <1>7, <1>8, <1>9, <1>10, ConnectionSteps DEF Logout, RingInv

LEMMA CloseKeeps == ASSUME RingInv, CloseConnection PROVE RingInv'
<1>1. ring.dropped <= ring'.dropped /\ ring'.dropped \in Nat
  BY DEF RingInv, Staged, RingState, CloseConnection
<1>2. /\ Staged(ring', session') /\ Bound(ring', session', store) /\ Counted(ring', stored)
      /\ Lifecycle(flush, ring', store) /\ Writing(flush, ring', store, stored, late')
  BY DEF RingInv, CloseConnection
<1> QED BY <1>1, <1>2, ConnectionSteps DEF CloseConnection, RingInv

-----------------------------------------------------------------------------
(* The flush task *)

\* A step that ends in _flush_updates.
LEMMA TurnSteps ==
    ASSUME RingInv, NEW r, NEW f, NEW again \in BOOLEAN, FlushUpdates(r, f, again),
           Staged(r, session), Bound(r, session, store), Counted(r, stored), AtRest(r),
           f \in FlushState, f.known <= r.dropped, flush.stage # "exited",
           UNCHANGED <<store, run, session, closing, stored, lossy>>, late' \in BOOLEAN
    PROVE  RingInv'
<1>1. closing \in BOOLEAN
  BY DEF RingInv
<1>2. /\ Staged(ring', session) /\ Bound(ring', session, store) /\ Counted(ring', stored)
      /\ flush' \in FlushState /\ flush'.known <= ring'.dropped
      /\ Lifecycle(flush', ring', store)
      /\ Writing(flush', ring', store, stored, late')
      /\ flush'.stage \in {"idle", "write", "finished"}
      /\ flush'.stage = "finished" =>
            closing /\ (ring'.generation # None => Reported(ring', flush', stored))
  BY <1>1, FlushUpdatesKeeps
<1>3. Finishing(flush', ring', store, stored, late', closing, run)
  BY <1>2 DEF RingInv, Finishing
<1>4. LossIsReported'
  BY DEF RingInv, LossIsReported
<1> QED BY <1>2, <1>3, <1>4 DEF RingInv

\* A step that moves the flush task to another stage than a write or an end.
LEMMA StageSteps ==
    ASSUME RingInv, UNCHANGED <<store, run, session, closing, stored, lossy>>,
           Staged(ring', session), Bound(ring', session, store), Counted(ring', stored),
           AtRest(ring'), flush' \in FlushState, flush'.known <= ring'.dropped,
           late' \in BOOLEAN, flush.stage \in {"idle", "clear", "bind", "begin"},
           flush'.stage \in {"idle", "clear", "bind", "begin"}, Lifecycle(flush', ring', store)
    PROVE  RingInv'
<1>1. Writing(flush', ring', store, stored, late')
  BY DEF AtRest, Writing
<1>2. Finishing(flush', ring', store, stored, late', closing, run)
  BY DEF RingInv, Finishing
<1>3. LossIsReported'
  BY DEF RingInv, LossIsReported
<1> QED BY <1>1, <1>2, <1>3 DEF RingInv

LEMMA TurnBeginsKeeps == ASSUME RingInv, TurnBegins PROVE RingInv'
<1>1. /\ flush.stage = "idle" /\ ~flush.done /\ late' \in BOOLEAN /\ flush \in FlushState
      /\ ring \in RingState /\ UNCHANGED <<store, run, session, closing, stored, lossy>>
  BY DEF TurnBegins, RingInv, Lifecycle, Staged
<1>5. AtRest(ring)
  BY <1>1 DEF RingInv, Writing, AtRest
<1>2. CASE ring.cleared < ring.logouts
  <2>1. flush' = [flush EXCEPT !.stage = "clear", !.serial = ring.logouts] /\ ring' = ring
    BY <1>2 DEF TurnBegins
  <2>2. ring.logouts \in Nat /\ ring.cleared \in Nat
    BY <1>1 DEF RingState
  <2>3. /\ flush' \in FlushState /\ flush'.known = flush.known /\ flush'.stage = "clear"
        /\ flush'.serial = ring.logouts
    BY <1>1, <2>1, <2>2 DEF FlushState, Stages
  <2>4. ring.generation = None
    BY <1>2, <2>2 DEF RingInv, Bound
  <2>5. Lifecycle(flush', ring, store)
    BY <2>2, <2>3, <2>4 DEF Lifecycle
  <2> QED BY <1>1, <1>5, <2>1, <2>3, <2>5, StageSteps DEF RingInv
<1>3. CASE ~(ring.cleared < ring.logouts) /\ ring.generation = None /\ ring.desired # None
  <2>1. /\ flush' = [flush EXCEPT !.stage = "bind", !.account = ring.desired,
                                  !.revision = ring.revision]
        /\ ring' = ring
    BY <1>3 DEF TurnBegins
  <2>2. ring.revision \in Nat /\ ring.desired \in Accounts \cup {None}
    BY <1>1 DEF RingState
  <2>3. /\ flush' \in FlushState /\ flush'.known = flush.known /\ flush'.stage = "bind"
        /\ flush'.account = ring.desired /\ flush'.revision = ring.revision /\ ~flush'.done
    BY <1>1, <2>1, <2>2 DEF FlushState, Stages
  <2>4. Lifecycle(flush', ring, store)
    BY <1>3, <2>2, <2>3 DEF Lifecycle
  <2> QED BY <1>1, <1>5, <2>1, <2>3, <2>4, StageSteps DEF RingInv
<1>4. CASE ~(ring.cleared < ring.logouts) /\ ~(ring.generation = None /\ ring.desired # None)
  <2>1. FlushUpdates(ring, flush, FALSE)
    BY <1>4 DEF TurnBegins
  <2> QED BY <1>1, <1>5, <2>1, TurnSteps DEF RingInv
<1> QED BY <1>2, <1>3, <1>4

\* What the answers of a lifecycle step start from.
LEMMA LifecycleStage ==
    ASSUME RingInv, flush.stage \in {"clear", "bind", "begin"}
    PROVE  /\ AtRest(ring) /\ ring.generation = None /\ ring \in RingState
           /\ flush \in FlushState /\ Staged(ring, session) /\ Counted(ring, stored)
           /\ flush.known <= ring.dropped /\ late \in BOOLEAN /\ closing \in BOOLEAN
           /\ store \in StoreState
BY DEF RingInv, Writing, AtRest, Lifecycle, Staged, Kept

LEMMA ClearCommitsKeeps == ASSUME RingInv, ClearCommits PROVE RingInv'
<1>1. /\ flush.stage = "clear" /\ flush' = [flush EXCEPT !.done = TRUE]
      /\ store' = Cleared(store.generation + 1) /\ lossy' = 0
      /\ UNCHANGED <<ring, run, session, closing, writer_faults, stored, late>>
  BY DEF ClearCommits, ResetUpdates
<1>2. /\ AtRest(ring) /\ ring.generation = None /\ flush \in FlushState /\ store \in StoreState
  BY <1>1, LifecycleStage
<1>3. /\ flush' \in FlushState /\ flush'.stage = "clear" /\ flush'.known = flush.known
      /\ flush'.serial = flush.serial
  BY <1>1, <1>2 DEF FlushState
<1>4. /\ store' \in StoreState /\ store'.rows = {} /\ store'.runtime = None /\ ~store'.open
      /\ store'.unknown = 0
  <2> DEFINE g == store.generation + 1
  <2>1. g \in Nat
    BY <1>2 DEF StoreState
  <2>2. store' = Cleared(g)
    BY <1>1
  <2> HIDE DEF g
  <2> QED BY <2>1, <2>2 DEF Cleared, StoreState, Runtimes
<1>5. Kept(store', run)
  BY <1>4, FS_EmptySet, RingConstants DEF Kept
<1>6. Bound(ring, session, store')
  BY <1>2 DEF Bound
<1>7. Lifecycle(flush', ring, store')
  BY <1>1, <1>2, <1>3 DEF RingInv, Lifecycle
<1>8. Writing(flush', ring, store', stored, late)
  BY <1>2, <1>3 DEF Writing, AtRest
<1>9. Finishing(flush', ring, store', stored, late, closing, run)
  <2>1. run # None
    BY RingConstants DEF RingInv
  <2> QED BY <1>3, <1>4, <2>1 DEF Finishing
<1>10. lossy' \in Nat /\ LossIsReported'
  BY <1>1, <1>4 DEF LossIsReported
<1> QED BY <1>1, <1>3, <1>5, <1>6, <1>7, <1>8, <1>9, <1>10 DEF RingInv

LEMMA ClearReturnsKeeps == ASSUME RingInv, ClearReturns PROVE RingInv'
<1> DEFINE r == [ring EXCEPT !.cleared = flush.serial]
           again == r.desired # None \/ r.cleared < r.logouts
<1>1. /\ flush.stage = "clear" /\ FlushUpdates(r, flush, again)
      /\ UNCHANGED <<store, run, session, closing, stored, late, lossy>>
  BY DEF ClearReturns
<1>2. /\ AtRest(ring) /\ ring.generation = None /\ ring \in RingState
      /\ flush \in FlushState /\ Staged(ring, session) /\ Counted(ring, stored)
      /\ flush.known <= ring.dropped /\ late \in BOOLEAN
  BY <1>1, LifecycleStage
<1>3. /\ r \in RingState /\ r.cleared = flush.serial /\ r.logouts = ring.logouts
      /\ r.entries = ring.entries /\ r.last = ring.last /\ r.through = ring.through
      /\ r.inflight = ring.inflight /\ r.orphaned = ring.orphaned /\ r.account = ring.account
      /\ r.generation = ring.generation /\ r.desired = ring.desired /\ r.dropped = ring.dropped
  <2>1. flush.serial \in Nat
    BY <1>2 DEF FlushState
  <2> QED BY <1>2, <2>1 DEF RingState
<1>4. flush.serial <= ring.logouts
  BY <1>1 DEF RingInv, Lifecycle
<1> HIDE DEF r
<1>5. Staged(r, session)
  BY <1>2, <1>3, <1>4 DEF Staged
<1>6. Bound(r, session, store) /\ Counted(r, stored) /\ AtRest(r)
  BY <1>2, <1>3 DEF Bound, Counted, AtRest
<1>7. flush.known <= r.dropped
  BY <1>2, <1>3
<1>8. again \in BOOLEAN
  OBVIOUS
<1> HIDE DEF again
<1> QED BY <1>1, <1>2, <1>5, <1>6, <1>7, <1>8, TurnSteps

LEMMA BoundStoreIs ==
    ASSUME Kept(store, run), NEW a \in Accounts, NEW d, d = BoundStore(store, a)
    PROVE  /\ Kept(d, run) /\ d.account = a
           /\ d.generation = store.generation =>
                 d.runtime = store.runtime /\ d.open = store.open /\ d.unknown = store.unknown
           /\ d.runtime # None => d.runtime = store.runtime /\ d.open = store.open
<1>1. store \in StoreState /\ store.generation \in Nat
  BY DEF Kept, StoreState
<1>2. CASE AccountChanges(store, a)
  <2> DEFINE g == store.generation + 1
  <2>1. g \in Nat /\ g # store.generation
    BY <1>1
  <2>2. d = [Cleared(g) EXCEPT !.account = a]
    BY <1>2 DEF BoundStore
  <2> HIDE DEF g
  <2>3. /\ d \in StoreState /\ d.rows = {} /\ d.runtime = None /\ ~d.open /\ d.account = a
        /\ d.generation = g
    <3>1. d = [generation |-> g, account |-> a, runtime |-> None, open |-> FALSE,
               rows |-> {}, unknown |-> 0, total |-> 0, snapshot |-> 0, evicted |-> 0]
      BY <2>2 DEF Cleared
    <3> QED BY <2>1, <3>1 DEF StoreState, Runtimes
  <2>4. Kept(d, run)
    BY <2>3, FS_EmptySet, RingConstants DEF Kept
  <2> QED BY <2>1, <2>3, <2>4
<1>3. CASE ~AccountChanges(store, a)
  <2> DEFINE g == IF store.generation = 0 THEN 1 ELSE store.generation
  <2>1. g \in Nat
    BY <1>1
  <2>2. d = [store EXCEPT !.generation = g, !.account = a]
    <3>1. CASE store.generation = 0
      BY <1>1, <1>3, <3>1 DEF BoundStore, StoreState
    <3>2. CASE store.generation # 0
      BY <1>1, <1>3, <3>2 DEF BoundStore, StoreState
    <3> QED BY <3>1, <3>2
  <2> HIDE DEF g
  <2>3. /\ d \in StoreState /\ d.rows = store.rows /\ d.runtime = store.runtime
        /\ d.open = store.open /\ d.unknown = store.unknown /\ d.account = a
    BY <1>1, <2>1, <2>2 DEF StoreState
  <2>4. ASSUME NEW row \in d.rows PROVE row.owner = a
    <3>1. row \in Row /\ row.owner = store.account
      BY <1>1, <2>3, <2>4 DEF Kept, StoreState
    <3>2. row.owner \in Accounts
      BY <3>1 DEF Row
    <3> QED BY <1>3, <3>1, <3>2, RingConstants DEF AccountChanges
  <2>5. Kept(d, run)
    BY <2>3, <2>4 DEF Kept
  <2> QED BY <2>3, <2>5
<1> QED BY <1>2, <1>3

LEMMA BindCommitsKeeps == ASSUME RingInv, BindCommits PROVE RingInv'
<1>1. /\ flush.stage = "bind" /\ ~flush.done /\ store' = BoundStore(store, flush.account)
      /\ lossy' = IF store'.generation # store.generation THEN 0 ELSE lossy
      /\ flush' = [flush EXCEPT !.done = TRUE, !.answer = AccountChanges(store, flush.account),
                                !.generation = store'.generation]
      /\ UNCHANGED <<ring, run, session, closing, writer_faults, stored, late>>
  BY DEF BindCommits
<1>2. AtRest(ring) /\ ring.generation = None /\ flush \in FlushState
  BY <1>1, LifecycleStage
<1>3. flush.account \in Accounts
  BY <1>1, <1>2 DEF RingInv, Lifecycle, FlushState
<1>4. /\ Kept(store', run) /\ store'.account = flush.account
      /\ store'.generation = store.generation =>
            store'.runtime = store.runtime /\ store'.open = store.open
            /\ store'.unknown = store.unknown
      /\ store'.runtime # None => store'.runtime = store.runtime /\ store'.open = store.open
  BY <1>1, <1>3, BoundStoreIs DEF RingInv
<1>5. store'.generation \in Nat /\ store'.unknown \in Nat
  BY <1>4 DEF Kept, StoreState
<1>6. /\ flush' \in FlushState /\ flush'.stage = "bind" /\ flush'.known = flush.known
      /\ flush'.account = flush.account /\ flush'.revision = flush.revision
      /\ flush'.generation = store'.generation
  <2> DEFINE g == store'.generation
             c == AccountChanges(store, flush.account)
  <2>1. g \in Nat /\ c \in BOOLEAN /\ g = store'.generation
    BY <1>5 DEF AccountChanges
  <2>2. flush' = [flush EXCEPT !.done = TRUE, !.answer = c, !.generation = g]
    BY <1>1
  <2> HIDE DEF g, c
  <2> QED BY <1>1, <1>2, <2>1, <2>2 DEF FlushState
<1>7. Bound(ring, session, store') /\ Writing(flush', ring, store', stored, late)
  BY <1>2, <1>6 DEF Bound, Writing, AtRest
<1>8. Lifecycle(flush', ring, store')
  BY <1>1, <1>2, <1>4, <1>6 DEF RingInv, Lifecycle
<1>9. Finishing(flush', ring, store', stored, late, closing, run)
  <2>1. run # None
    BY RingConstants DEF RingInv
  <2>2. ~(store.runtime = run /\ ~store.open)
    BY <1>1 DEF RingInv, Finishing
  <2> QED BY <1>4, <1>6, <2>1, <2>2 DEF Finishing
<1>10. lossy' \in Nat /\ LossIsReported'
  <2>1. CASE store'.generation # store.generation
    BY <1>1, <1>5, <2>1 DEF LossIsReported
  <2>2. CASE store'.generation = store.generation
    BY <1>1, <1>4, <2>2 DEF RingInv, LossIsReported
  <2> QED BY <2>1, <2>2
<1> QED BY <1>1, <1>2, <1>4, <1>6, <1>7, <1>8, <1>9, <1>10 DEF RingInv

LEMMA BindReturnsKeeps == ASSUME RingInv, BindReturns PROVE RingInv'
<1> DEFINE r == IF flush.answer THEN Reset(ring) ELSE ring
           again == LifecyclePending(r, flush)
<1>1. /\ flush.stage = "bind" /\ flush.done
      /\ UNCHANGED <<store, run, session, closing, stored, late, lossy>>
      /\ flush.revision # r.revision => FlushUpdates(r, flush, again)
      /\ flush.revision = r.revision =>
            /\ ring' = r
            /\ flush' = [flush EXCEPT !.stage = "begin", !.done = FALSE, !.answer = FALSE]
  BY DEF BindReturns
<1>2. /\ AtRest(ring) /\ ring.generation = None /\ ring \in RingState
      /\ flush \in FlushState /\ Staged(ring, session) /\ Counted(ring, stored)
      /\ flush.known <= ring.dropped /\ late \in BOOLEAN
      /\ flush.known \in Nat /\ flush.counted \in Nat /\ ring.dropped \in Nat
  BY <1>1, LifecycleStage DEF RingState, FlushState
<1>3. /\ Staged(r, session) /\ Counted(r, stored) /\ AtRest(r) /\ r.generation = None
      /\ r.revision = ring.revision /\ r.desired = ring.desired /\ flush.known <= r.dropped
      /\ r \in RingState
  <2>1. CASE flush.answer
    <3> DEFINE q == Reset(ring)
    <3>1. /\ Staged(q, session) /\ Writing(flush, q, store, stored, late) /\ Counted(q, stored)
          /\ ring.dropped <= q.dropped
      BY <1>2, ResetKeeps DEF RingInv
    <3>2. q.generation = None /\ q.revision = ring.revision /\ q.desired = ring.desired
      <4> DEFINE n == ring.dropped + Len(ring.entries)
      <4>1. q = [ring EXCEPT !.dropped = n, !.entries = <<>>, !.orphaned = ring.inflight,
                             !.through = 0, !.account = None]
        BY <1>2, ResetFields
      <4> HIDE DEF q, n
      <4> QED BY <1>2, <4>1 DEF RingState
    <3> HIDE DEF q
    <3>3. AtRest(q)
      BY <1>1, <3>1 DEF Writing, AtRest
    <3>4. q \in RingState /\ q.dropped \in Nat
      BY <3>1 DEF Staged, RingState
    <3>5. flush.known <= q.dropped
      BY <1>2, <3>1, <3>4
    <3> QED BY <2>1, <3>1, <3>2, <3>3, <3>4, <3>5 DEF q
  <2>2. CASE ~flush.answer
    BY <1>2, <2>2
  <2> QED BY <2>1, <2>2
<1> HIDE DEF r
<1>4. Bound(r, session, store)
  BY <1>3 DEF Bound
<1>5. CASE flush.revision # r.revision
  <2>1. again \in BOOLEAN
    BY DEF LifecyclePending
  <2> HIDE DEF again
  <2> QED BY <1>1, <1>2, <1>3, <1>4, <1>5, <2>1, TurnSteps
<1>6. CASE flush.revision = r.revision
  <2>1. /\ ring' = r
        /\ flush' = [flush EXCEPT !.stage = "begin", !.done = FALSE, !.answer = FALSE]
    BY <1>1, <1>6
  <2>2. /\ flush' \in FlushState /\ flush'.stage = "begin" /\ flush'.known = flush.known
        /\ flush'.account = flush.account /\ flush'.revision = flush.revision
        /\ flush'.generation = flush.generation
    BY <1>2, <2>1 DEF FlushState, Stages
  <2>3. Lifecycle(flush', r, store)
    BY <1>1, <1>3, <2>2 DEF RingInv, Lifecycle
  <2> QED BY <1>1, <1>2, <1>3, <1>4, <2>1, <2>2, <2>3, StageSteps
<1> QED BY <1>5, <1>6

LEMMA BeginUpdateRunIs ==
    ASSUME Kept(store, run), run \in 1..MaxRuns, NEW d, d = BeginUpdateRun(store, run)
    PROVE  /\ Kept(d, run) /\ d.generation = store.generation /\ d.account = store.account
           /\ d.runtime = run
           /\ d = store \/ (d.open /\ d.unknown = store.unknown + (IF store.open /\ store.runtime # run THEN 1 ELSE 0))
<1>1. store \in StoreState /\ store.unknown \in Nat /\ run \in Nat
  BY RingConstants DEF Kept, StoreState
<1>2. CASE store.runtime = run
  BY <1>2 DEF BeginUpdateRun
<1>3. CASE store.runtime # run
  <2> DEFINE u == store.unknown + (IF store.runtime # None /\ store.open THEN 1 ELSE 0)
  <2>1. u \in Nat /\ u = store.unknown + (IF store.open /\ store.runtime # run THEN 1 ELSE 0)
    BY <1>1, <1>3 DEF Kept
  <2>2. d = [store EXCEPT !.unknown = u, !.snapshot = 0, !.runtime = run, !.open = TRUE]
    BY <1>1, <1>3 DEF BeginUpdateRun, StoreState
  <2> HIDE DEF u
  <2>3. /\ d \in StoreState /\ d.unknown = u /\ d.runtime = run /\ d.open /\ d.rows = store.rows
        /\ d.generation = store.generation /\ d.account = store.account
    <3>1. run \in Runtimes /\ 0 \in Nat
      BY DEF Runtimes
    <3>2. DOMAIN store = {"generation", "account", "runtime", "open", "rows", "unknown",
                          "total", "snapshot", "evicted"}
      BY <1>1 DEF StoreState
    <3>3. /\ d.unknown = u /\ d.snapshot = 0 /\ d.runtime = run /\ d.open = TRUE
          /\ d.rows = store.rows /\ d.generation = store.generation /\ d.account = store.account
      BY <2>2, <3>2
    <3>4. d \in StoreState
      BY <1>1, <2>1, <2>2, <3>1 DEF StoreState
    <3> QED BY <3>3, <3>4
  <2>4. Kept(d, run)
    BY <1>1, <2>3, RingConstants DEF Kept
  <2> QED BY <2>1, <2>3, <2>4
<1> QED BY <1>2, <1>3

LEMMA BeginCommitsKeeps == ASSUME RingInv, BeginCommits PROVE RingInv'
<1> DEFINE ok == IsGeneration(store, flush.generation)
<1>1. /\ flush.stage = "begin" /\ flush' = [flush EXCEPT !.done = TRUE, !.answer = ok]
      /\ store' = IF ok THEN BeginUpdateRun(store, run) ELSE store
      /\ UNCHANGED <<ring, run, session, closing, writer_faults, stored, late, lossy>>
  BY DEF BeginCommits
<1>2. AtRest(ring) /\ ring.generation = None /\ flush \in FlushState
  BY <1>1, LifecycleStage
<1>3. ok \in BOOLEAN
  BY DEF IsGeneration
<1> HIDE DEF ok
<1>4. /\ flush' \in FlushState /\ flush'.stage = "begin" /\ flush'.known = flush.known
      /\ flush'.account = flush.account /\ flush'.revision = flush.revision
      /\ flush'.generation = flush.generation
  BY <1>1, <1>2, <1>3 DEF FlushState
<1>5. /\ Kept(store', run) /\ store'.generation = store.generation
      /\ store'.account = store.account
      /\ \/ store' = store
         \/ /\ store'.runtime = run /\ store'.open
            /\ store'.unknown = store.unknown + (IF store.open /\ store.runtime # run THEN 1 ELSE 0)
  BY <1>1, BeginUpdateRunIs DEF RingInv
<1>6. Bound(ring, session, store') /\ Writing(flush', ring, store', stored, late)
  BY <1>2, <1>4 DEF Bound, Writing, AtRest
<1>7. Lifecycle(flush', ring, store')
  BY <1>1, <1>2, <1>4, <1>5 DEF RingInv, Lifecycle
<1>8. Finishing(flush', ring, store', stored, late, closing, run)
  BY <1>1, <1>4, <1>5 DEF RingInv, Finishing
<1>9. LossIsReported'
  BY <1>1, <1>5 DEF RingInv, Kept, StoreState, LossIsReported
<1> QED BY <1>1, <1>2, <1>4, <1>5, <1>6, <1>7, <1>8, <1>9 DEF RingInv

LEMMA BeginReturnsKeeps == ASSUME RingInv, BeginReturns PROVE RingInv'
<1>1. /\ flush.stage = "begin" /\ flush.done
      /\ UNCHANGED <<store, run, session, closing, stored, late, lossy>>
  BY DEF BeginReturns
<1>2. /\ AtRest(ring) /\ ring.generation = None /\ ring \in RingState
      /\ flush \in FlushState /\ Staged(ring, session) /\ Counted(ring, stored)
      /\ flush.known <= ring.dropped /\ late \in BOOLEAN
  BY <1>1, LifecycleStage
<1>3. CASE flush.answer
  <2> DEFINE r == CompleteBind(ring, flush.account, flush.revision, flush.generation)
             again == LifecyclePending(r, flush)
  <2>1. FlushUpdates(r, flush, again)
    BY <1>3 DEF BeginReturns
  <2>2. CASE flush.revision = ring.revision /\ ring.cleared = ring.logouts
    <3>1. r = [ring EXCEPT !.account = flush.account, !.generation = flush.generation]
      BY <2>2 DEF CompleteBind
    <3>2. /\ flush.account # None /\ flush.account = ring.desired
          /\ flush.generation = store.generation /\ flush.account = store.account
      BY <1>1, <2>2 DEF RingInv, Lifecycle
    <3>3. flush.account \in Accounts /\ flush.account = session
      BY <1>2, <3>2 DEF FlushState, Staged
    <3>4. flush.generation \in Nat
      BY <3>2 DEF RingInv, Kept, StoreState
    <3>5. /\ r \in RingState /\ r.account = session /\ r.generation = flush.generation
          /\ r.entries = ring.entries /\ r.last = ring.last /\ r.through = ring.through
          /\ r.inflight = ring.inflight /\ r.orphaned = ring.orphaned
          /\ r.desired = ring.desired /\ r.dropped = ring.dropped
          /\ r.cleared = ring.cleared /\ r.logouts = ring.logouts
      BY <1>2, <3>1, <3>3, <3>4 DEF RingState
    <3> HIDE DEF r
    <3>6. Staged(r, session)
      BY <1>2, <3>5 DEF Staged
    <3>7. Bound(r, session, store)
      BY <2>2, <3>2, <3>3, <3>5, RingConstants DEF Bound
    <3>8. Counted(r, stored) /\ AtRest(r) /\ flush.known <= r.dropped
      BY <1>2, <3>5 DEF Counted, AtRest
    <3>9. again \in BOOLEAN
      BY DEF LifecyclePending
    <3> HIDE DEF again
    <3> QED BY <1>1, <1>2, <2>1, <3>6, <3>7, <3>8, <3>9, TurnSteps
  <2>3. CASE ~(flush.revision = ring.revision /\ ring.cleared = ring.logouts)
    <3>1. r = ring
      BY <2>3 DEF CompleteBind
    <3>2. Bound(ring, session, store)
      BY <1>2 DEF Bound
    <3>3. again \in BOOLEAN
      BY DEF LifecyclePending
    <3> HIDE DEF again, r
    <3> QED BY <1>1, <1>2, <2>1, <3>1, <3>2, <3>3, TurnSteps
  <2> QED BY <2>2, <2>3
<1>4. CASE ~flush.answer
  <2> DEFINE f == [flush EXCEPT !.failed = TRUE]
  <2>1. FlushUpdates(ring, f, FALSE)
    BY <1>4 DEF BeginReturns
  <2>2. f \in FlushState /\ f.known = flush.known
    BY <1>2 DEF FlushState
  <2>3. Bound(ring, session, store)
    BY <1>2 DEF Bound
  <2> HIDE DEF f
  <2> QED BY <1>1, <1>2, <2>1, <2>2, <2>3, TurnSteps
<1> QED BY <1>3, <1>4

\* Rows of one owner are ordered: a set of them has an oldest.
LEMMA OldestRow ==
    ASSUME NEW rows, rows \subseteq Row, NEW o, \A a \in rows : a.owner = o, rows # {}
    PROVE  \E a \in rows : \A b \in rows : b = a \/ Older(a, b)
<1>1. \A a \in rows : a.run \in Nat /\ a.seq \in Nat
  BY RingConstants DEF Row
<1> DEFINE R == {a.run : a \in rows}
<1>2. \E n \in R : \A m \in R : n <= m
  <2>1. R \subseteq Nat /\ R # {}
    BY <1>1
  <2> HIDE DEF R
  <2> QED BY <2>1, LeastNatural
<1>3. PICK n \in R : \A m \in R : n <= m
  BY <1>2
<1> DEFINE S == {a.seq : a \in {b \in rows : b.run = n}}
<1>4. \E k \in S : \A m \in S : k <= m
  <2>1. S \subseteq Nat /\ S # {}
    BY <1>1, <1>3
  <2> HIDE DEF S
  <2> QED BY <2>1, LeastNatural
<1>5. PICK a \in rows : a.run = n /\ \A m \in S : a.seq <= m
  BY <1>4
<1>6. ASSUME NEW b \in rows, b # a PROVE Older(a, b)
  <2>1. n <= b.run /\ a.run = n
    BY <1>3, <1>5
  <2>2. b.run = n => a.seq <= b.seq
    BY <1>5
  <2>3. b.run = n => b.seq # a.seq
    <3>1. b.run = a.run /\ b.seq = a.seq => b = a
      <4>1. a \in Row /\ b \in Row /\ a.owner = b.owner
        OBVIOUS
      <4> QED BY <4>1 DEF Row
    <3> QED BY <3>1, <2>1, <1>6
  <2>4. a.run \in Nat /\ b.run \in Nat /\ a.seq \in Nat /\ b.seq \in Nat
    BY <1>1
  <2> QED BY <2>1, <2>2, <2>3, <2>4 DEF Older
<1> QED BY <1>6

\* What pruning leaves is at most MAX_ROWS: the oldest that stays has fewer above it.
LEMMA PruneIs ==
    ASSUME NEW d \in StoreState, IsFiniteSet(d.rows), NEW o, \A a \in d.rows : a.owner = o,
           NEW p, p = PruneCapacity(d)
    PROVE  /\ p \in StoreState /\ p.rows \subseteq d.rows
           /\ IsFiniteSet(p.rows) /\ Cardinality(p.rows) <= MaxRows
           /\ p.generation = d.generation /\ p.account = d.account /\ p.runtime = d.runtime
           /\ p.open = d.open /\ p.unknown = d.unknown
<1> DEFINE newer(a) == {b \in d.rows : Older(a, b)}
           kept == {a \in d.rows : Cardinality(newer(a)) < MaxRows}
<1>1. d.rows \subseteq Row /\ kept \subseteq d.rows /\ IsFiniteSet(kept)
  <2>1. d.rows \subseteq Row /\ kept \subseteq d.rows
    BY DEF StoreState
  <2> HIDE DEF kept
  <2> QED BY <2>1, FS_Subset
<1>2. Cardinality(kept) <= MaxRows
  <2>1. CASE kept = {}
    <3> HIDE DEF kept
    <3>1. Cardinality(kept) = 0
      BY <2>1, FS_EmptySet
    <3> QED BY <3>1, RingConstants
  <2>2. CASE kept # {}
    <3>1. \E a \in kept : \A b \in kept : b = a \/ Older(a, b)
      <4>1. kept \subseteq Row /\ \A a \in kept : a.owner = o
        BY <1>1
      <4> HIDE DEF kept
      <4> QED BY <4>1, <2>2, OldestRow
    <3>2. PICK a \in kept : \A b \in kept : b = a \/ Older(a, b)
      BY <3>1
    <3>3. kept \subseteq newer(a) \cup {a}
      BY <1>1, <3>2
    <3>4. IsFiniteSet(newer(a)) /\ Cardinality(newer(a)) < MaxRows
      <4>1. newer(a) \subseteq d.rows /\ Cardinality(newer(a)) < MaxRows
        OBVIOUS
      <4> HIDE DEF newer
      <4> QED BY <4>1, FS_Subset
    <3> HIDE DEF newer, kept
    <3>5. /\ IsFiniteSet(newer(a) \cup {a}) /\ Cardinality(newer(a)) \in Nat
          /\ Cardinality(newer(a) \cup {a}) <= Cardinality(newer(a)) + 1
          /\ Cardinality(newer(a) \cup {a}) \in Nat
      <4> DEFINE T == newer(a)
      <4>1. IsFiniteSet(T)
        BY <3>4
      <4> HIDE DEF T
      <4>2. /\ IsFiniteSet(T \cup {a})
            /\ \/ Cardinality(T \cup {a}) = Cardinality(T)
               \/ Cardinality(T \cup {a}) = Cardinality(T) + 1
        BY <4>1, FS_AddElement
      <4>3. Cardinality(T) \in Nat
        BY <4>1, FS_CardinalityType
      <4>4. Cardinality(T \cup {a}) <= Cardinality(T) + 1 /\ Cardinality(T \cup {a}) \in Nat
        BY <4>2, <4>3
      <4> QED BY <4>2, <4>3, <4>4 DEF T
    <3>6. Cardinality(kept) <= Cardinality(newer(a) \cup {a}) /\ Cardinality(kept) \in Nat
      BY <1>1, <3>3, <3>5, FS_Subset, FS_CardinalityType
    <3> QED BY <3>4, <3>5, <3>6, RingConstants
  <2> QED BY <2>1, <2>2
<1>3. IsFiniteSet(d.rows \ kept) /\ Cardinality(d.rows \ kept) \in Nat
  <2>1. (d.rows \ kept) \subseteq d.rows
    OBVIOUS
  <2> HIDE DEF kept
  <2>2. IsFiniteSet(d.rows \ kept)
    BY <2>1, FS_Subset
  <2> QED BY <2>2, FS_CardinalityType
<1> DEFINE e == d.evicted + Cardinality(d.rows \ kept)
<1>4. e \in Nat
  <2> HIDE DEF kept
  <2>1. d.evicted \in Nat
    BY DEF StoreState
  <2> QED BY <1>3, <2>1
<1>5. p = [d EXCEPT !.rows = kept, !.evicted = e]
  BY DEF PruneCapacity
<1> HIDE DEF e, kept
<1>6. kept \in SUBSET Row
  BY <1>1
<1>7. p \in StoreState
  BY <1>4, <1>5, <1>6 DEF StoreState
<1>8. DOMAIN d = {"generation", "account", "runtime", "open", "rows", "unknown",
                  "total", "snapshot", "evicted"}
  BY DEF StoreState
<1>9. /\ p.rows = kept /\ p.generation = d.generation /\ p.account = d.account
      /\ p.runtime = d.runtime /\ p.open = d.open /\ p.unknown = d.unknown
  BY <1>5, <1>8
<1> QED BY <1>1, <1>2, <1>7, <1>9

\* A batch of the bound account's entries in the store.
LEMMA WriteUpdateBatchIs ==
    ASSUME Kept(store, run), run \in 1..MaxRuns, store.account \in Accounts,
           NEW b, b \in Seq(Entry), \A i \in 1..Len(b) : b[i].owner = store.account,
           NEW c \in Nat, NEW d, d = WriteUpdateBatch(store, b, c, run)
    PROVE  /\ Kept(d, run)
           /\ d.generation = store.generation /\ d.account = store.account
           /\ d.runtime = store.runtime /\ d.open = store.open /\ d.unknown = store.unknown
<1> DEFINE new == {[run |-> run, seq |-> x.seq, owner |-> x.owner] : x \in ToSet(b)}
           rows == store.rows \cup new
           raised == IF c > store.snapshot THEN c - store.snapshot ELSE 0
           full == [store EXCEPT !.rows = rows]
           p == PruneCapacity(full)
           total == p.total + raised
           snapshot == p.snapshot + raised
<1>1. store \in StoreState /\ store.rows \subseteq Row /\ IsFiniteSet(store.rows)
  BY DEF Kept, StoreState
<1>2. Len(b) \in Nat /\ DOMAIN b = 1..Len(b)
  BY LenProperties
<1>3. \A x \in ToSet(b) : x \in Entry /\ x.owner = store.account
  BY <1>2, EntryFields DEF ToSet
<1>4. /\ new \subseteq Row /\ \A a \in new : a.owner = store.account
  BY <1>3 DEF Entry, Row
<1>5. IsFiniteSet(new)
  <2> DEFINE g == [i \in 1..Len(b) |-> [run |-> run, seq |-> b[i].seq, owner |-> b[i].owner]]
  <2>1. new = {g[i] : i \in 1..Len(b)}
    BY <1>2 DEF ToSet
  <2>2. g \in Surjection(1..Len(b), new)
    BY <2>1 DEF Surjection
  <2>3. IsFiniteSet(1..Len(b))
    BY <1>2, FS_Interval
  <2> HIDE DEF g, new
  <2> QED BY <2>2, <2>3, FS_Surjection
<1>6. rows \subseteq Row /\ IsFiniteSet(rows) /\ \A a \in rows : a.owner = store.account
  <2>1. IsFiniteSet(rows)
    <3> HIDE DEF new
    <3> QED BY <1>1, <1>5, FS_Union
  <2> QED BY <1>1, <1>4, <2>1 DEF Kept
<1>7. d = [p EXCEPT !.total = total, !.snapshot = snapshot]
  BY DEF WriteUpdateBatch
<1> HIDE DEF rows
<1>8. /\ full \in StoreState /\ full.rows = rows
      /\ full.generation = store.generation /\ full.account = store.account
      /\ full.runtime = store.runtime /\ full.open = store.open /\ full.unknown = store.unknown
  <2>1. rows \in SUBSET Row
    BY <1>6
  <2> QED BY <1>1, <2>1 DEF StoreState
<1> HIDE DEF full
<1>9. /\ p \in StoreState /\ p.rows \subseteq rows
      /\ IsFiniteSet(p.rows) /\ Cardinality(p.rows) <= MaxRows
      /\ p.generation = store.generation /\ p.account = store.account
      /\ p.runtime = store.runtime /\ p.open = store.open /\ p.unknown = store.unknown
  BY <1>6, <1>8, PruneIs
<1> HIDE DEF p
<1>10. total \in Nat /\ snapshot \in Nat
  <2>1. p.total \in Nat /\ p.snapshot \in Nat /\ store.snapshot \in Nat
    BY <1>1, <1>9 DEF StoreState
  <2>2. raised \in Nat
    BY <2>1
  <2> HIDE DEF raised
  <2> QED BY <2>1, <2>2
<1> HIDE DEF total, snapshot
<1>11. d \in StoreState
  BY <1>7, <1>9, <1>10 DEF StoreState
<1>12. DOMAIN p = {"generation", "account", "runtime", "open", "rows", "unknown",
                   "total", "snapshot", "evicted"}
  BY <1>9 DEF StoreState
<1>13. /\ d.rows = p.rows /\ d.generation = p.generation /\ d.account = p.account
       /\ d.runtime = p.runtime /\ d.open = p.open /\ d.unknown = p.unknown
  BY <1>7, <1>12
<1>14. Kept(d, run)
  <2>1. \A row \in d.rows : row.owner = d.account
    BY <1>6, <1>9, <1>13
  <2>2. d.runtime # None => d.runtime <= run
    BY <1>9, <1>13 DEF Kept
  <2>3. d.open => d.runtime # None
    BY <1>9, <1>13 DEF Kept
  <2> QED BY <1>9, <1>11, <1>13, <2>1, <2>2, <2>3 DEF Kept
<1> QED BY <1>9, <1>13, <1>14

LEMMA WriteCommitsKeeps == ASSUME RingInv, WriteCommits PROVE RingInv'
<1> DEFINE ok == Accepts(store, flush.generation, run)
           b == flush.batch
<1>1. /\ flush.stage = "write" /\ ~flush.done
      /\ flush' = [flush EXCEPT !.done = TRUE, !.answer = ok]
      /\ store' = IF ok THEN WriteUpdateBatch(store, b, flush.counted, run) ELSE store
      /\ stored' = IF ok THEN stored \cup {e.seq : e \in ToSet(b)} ELSE stored
      /\ UNCHANGED <<ring, run, session, closing, writer_faults, late, lossy>>
  BY DEF WriteCommits
<1>2. /\ flush \in FlushState /\ b \in Seq(Entry) /\ flush.counted \in Nat /\ Adjacent(b)
      /\ Len(b) \in Nat /\ ring \in RingState /\ ring.entries \in Seq(Entry) /\ ring.last \in Nat
  <2>1. /\ flush \in FlushState /\ ring \in RingState /\ Adjacent(b)
    BY <1>1 DEF RingInv, Staged, Writing
  <2>2. /\ b \in Seq(Entry) /\ flush.counted \in Nat /\ ring.entries \in Seq(Entry)
        /\ ring.last \in Nat
    BY <2>1, RingConstants DEF FlushState, RingState
  <2> QED BY <2>1, <2>2, LenProperties
<1>3. ok \in BOOLEAN
  <2>1. store.open \in BOOLEAN
    BY DEF RingInv, Kept, StoreState
  <2> QED BY <2>1 DEF Accepts, IsGeneration
<1>4. /\ flush' \in FlushState /\ flush'.stage = "write" /\ flush'.known = flush.known
      /\ flush'.batch = b /\ flush'.generation = flush.generation
      /\ flush'.counted = flush.counted /\ (flush'.answer => ok)
  <2> HIDE DEF ok
  <2> QED BY <1>1, <1>2, <1>3 DEF FlushState
<1>5. /\ Kept(store', run) /\ store'.generation = store.generation
      /\ store'.account = store.account /\ store'.runtime = store.runtime
      /\ store'.open = store.open /\ store'.unknown = store.unknown
  <2>1. CASE ~ok
    BY <1>1, <2>1 DEF RingInv
  <2>2. CASE ok
    <3>1. IsGeneration(store, flush.generation) /\ store.account \in Accounts
      BY <2>2 DEF Accepts, IsGeneration, RingInv, Kept, StoreState
    <3>2. \A i \in 1..Len(b) : b[i].owner = store.account
      BY <1>1, <3>1 DEF RingInv, Writing
    <3>3. store' = WriteUpdateBatch(store, b, flush.counted, run)
      BY <1>1, <2>2
    <3>4. Kept(store, run) /\ run \in 1..MaxRuns
      BY DEF RingInv
    <3> HIDE DEF b
    <3> QED BY <1>2, <3>1, <3>2, <3>3, <3>4, WriteUpdateBatchIs
  <2> QED BY <2>1, <2>2
<1>6. Seqs(b) = {b[i].seq : i \in 1..Len(b)}
  BY <1>2, SeqsFinite
<1>7. stored \subseteq stored' /\ (ok => Seqs(b) \subseteq stored') /\ stored' \subseteq stored \cup Seqs(b)
  BY <1>1 DEF Seqs
<1>8. \A i \in 1..Len(b) : b[i].seq <= ring.last /\ b[i].seq \in 1..ring.last
  <2> SUFFICES ASSUME NEW i \in 1..Len(b)
               PROVE  b[i].seq <= ring.last /\ b[i].seq \in 1..ring.last
    OBVIOUS
  <2>1. b[i].seq <= ring.last
    BY <1>1 DEF RingInv, Writing
  <2>2. b[i].seq \in 1..MaxSequence
    BY <1>2, EntryFields
  <2> QED BY <1>2, <2>1, <2>2, RingConstants
<1> HIDE DEF ok, b
<1>9. Counted(ring, stored')
  <2>1. stored \subseteq 1..ring.last /\ ring.last <= ring.dropped + Cardinality(stored \cup Seqs(ring.entries))
    BY DEF RingInv, Counted
  <2>2. stored' \subseteq 1..ring.last
    BY <1>6, <1>7, <1>8, <2>1
  <2>3. IsFiniteSet(1..ring.last) /\ IsFiniteSet(Seqs(ring.entries))
    <3>1. IsFiniteSet(1..ring.last)
      BY <1>2, FS_Interval, SMTT(40)
    <3>2. IsFiniteSet(Seqs(ring.entries))
      BY <1>2, SeqsFinite
    <3> QED BY <3>1, <3>2
  <2>4. IsFiniteSet(stored') /\ IsFiniteSet(stored' \cup Seqs(ring.entries))
    <3>1. IsFiniteSet(stored')
      BY <2>2, <2>3, FS_Subset
    <3> QED BY <3>1, <2>3, FS_Union
  <2>5. (stored \cup Seqs(ring.entries)) \subseteq (stored' \cup Seqs(ring.entries))
    BY <1>7
  <2>6. /\ Cardinality(stored \cup Seqs(ring.entries)) <= Cardinality(stored' \cup Seqs(ring.entries))
        /\ IsFiniteSet(stored \cup Seqs(ring.entries))
    BY <2>4, <2>5, FS_Subset
  <2>7. /\ Cardinality(stored \cup Seqs(ring.entries)) \in Nat
        /\ Cardinality(stored' \cup Seqs(ring.entries)) \in Nat
    BY <2>4, <2>6, FS_CardinalityType
  <2>8. ring.dropped \in Nat
    BY <1>2 DEF RingState
  <2> QED BY <1>2, <2>1, <2>2, <2>6, <2>7, <2>8 DEF Counted
<1>10. Bound(ring, session, store')
  BY <1>5 DEF RingInv, Bound
<1>11. Lifecycle(flush', ring, store')
  BY <1>4 DEF Lifecycle
<1>12. Writing(flush', ring, store', stored', late)
  <2>1. \A i \in 1..Len(b) : flush'.answer => b[i].seq \in stored'
    BY <1>4, <1>6, <1>7
  <2>2. \A i \in 1..Len(b) : IsGeneration(store', flush.generation) => b[i].owner = store'.account
    BY <1>1, <1>5 DEF RingInv, Writing, IsGeneration, b
  <2>3. /\ IF b # <<>> THEN Held(b, ring) \/ Gone(b, ring)
           ELSE ring.through = 0 /\ ring.inflight = 0 /\ ring.orphaned = 0
        /\ flush.counted <= ring.dropped
        /\ b = <<>> => late \/ (ring.entries = <<>> /\ ring.dropped = flush.counted)
    BY <1>1 DEF RingInv, Writing, b
  <2> QED BY <1>2, <1>4, <1>8, <2>1, <2>2, <2>3 DEF Writing
<1>13. Finishing(flush', ring, store', stored', late, closing, run)
  BY <1>1, <1>4, <1>5 DEF RingInv, Finishing
<1>14. LossIsReported'
  BY <1>1, <1>5 DEF RingInv, LossIsReported
<1> QED BY <1>1, <1>4, <1>5, <1>9, <1>10, <1>11, <1>12, <1>13, <1>14 DEF RingInv

\* What the end of a write starts the next turn from.
LEMMA TurnEndsIs ==
    ASSUME NEW f \in FlushState, NEW goes_on \in BOOLEAN, NEW t, t = TurnEnds(f, goes_on)
    PROVE  /\ t \in FlushState /\ ~t.done /\ t.failed = f.failed /\ t.known = f.known
           /\ t.stage = IF closing /\ ~goes_on THEN "finished" ELSE "idle"
<1>1. <<>> \in Seq(Entry)
  BY EmptySeq
<1> QED BY <1>1, ZenonT(60) DEF TurnEnds, NewFlush, FlushState, Stages

\* A step that ends a write.
LEMMA WriteSteps ==
    ASSUME RingInv, flush.stage = "write",
           UNCHANGED <<store, run, session, closing, stored, late, lossy>>,
           Staged(ring', session), Bound(ring', session, store), Counted(ring', stored),
           AtRest(ring'), NEW f \in FlushState, NEW goes_on \in BOOLEAN,
           flush' = TurnEnds(f, goes_on), f.known <= ring'.dropped,
           ~goes_on => f.failed \/ late \/ (ring'.dropped = f.known /\ Seqs(ring'.entries) \subseteq stored)
    PROVE  RingInv'
<1>1. /\ flush' \in FlushState /\ ~flush'.done /\ flush'.failed = f.failed
      /\ flush'.known = f.known
      /\ flush'.stage = IF closing /\ ~goes_on THEN "finished" ELSE "idle"
  BY TurnEndsIs
<1>2. Lifecycle(flush', ring', store) /\ Writing(flush', ring', store, stored, late)
  BY <1>1 DEF Lifecycle, Writing, AtRest
<1>3. Finishing(flush', ring', store, stored, late, closing, run)
  BY <1>1 DEF RingInv, Finishing, Reported
<1>4. LossIsReported'
  BY DEF RingInv, LossIsReported
<1> QED BY <1>1, <1>2, <1>3, <1>4 DEF RingInv

\* Releasing a batch gives back its bytes.
LEMMA ReleaseKeeps ==
    ASSUME NEW r, NEW s, NEW st, Staged(r, s), Counted(r, st), Bound(r, s, store),
           NEW q, q = ReleaseBatch(r)
    PROVE  /\ q \in RingState /\ Staged(q, s) /\ Counted(q, st) /\ Bound(q, s, store) /\ AtRest(q)
           /\ q.entries = r.entries /\ q.dropped = r.dropped
<1>1. r \in RingState /\ Bytes(r.entries) \in Nat /\ r.orphaned \in Nat
      /\ Bytes(r.entries) + r.orphaned <= MaxBytes
  BY AdjacentBytes DEF Staged, RingState
<1>2. /\ q \in RingState /\ q.through = 0 /\ q.inflight = 0 /\ q.orphaned = 0
      /\ q.entries = r.entries /\ q.last = r.last /\ q.account = r.account
      /\ q.generation = r.generation /\ q.desired = r.desired /\ q.cleared = r.cleared
      /\ q.logouts = r.logouts /\ q.dropped = r.dropped
  BY <1>1 DEF ReleaseBatch, RingState
<1>3. Bytes(q.entries) + q.orphaned <= MaxBytes
  BY <1>1, <1>2, RingConstants
<1>4. Staged(q, s)
  BY <1>2, <1>3 DEF Staged
<1> QED BY <1>2, <1>4 DEF Counted, Bound, AtRest

\* And so does taking entries from the front of a ring at rest, when what goes
\* is stored or newly counted.
Takes(r, q, n, lost, es, st) ==
    /\ n \in 0..Len(r.entries) /\ lost \in Nat
    /\ es = SubSeq(r.entries, n + 1, Len(r.entries))
    /\ lost = n \/ (lost = 0 /\ Seqs(r.entries) \subseteq st \cup Seqs(es))
    /\ q = [r EXCEPT !.entries = es, !.dropped = r.dropped + lost]

LEMMA TakeKeeps ==
    ASSUME NEW r \in RingState, NEW s, NEW st, Staged(r, s), Counted(r, st), Bound(r, s, store),
           AtRest(r), NEW q, NEW n, NEW lost, NEW es, Takes(r, q, n, lost, es, st), IsFiniteSet(st)
    PROVE  Staged(q, s) /\ Counted(q, st) /\ Bound(q, s, store) /\ AtRest(q) /\ r.dropped <= q.dropped
<1> DEFINE total == r.dropped + lost
           k == Len(r.entries)
<1>1. /\ Adjacent(r.entries) /\ r.entries \in Seq(Entry) /\ k \in Nat
      /\ r.dropped \in Nat /\ r.last \in Nat /\ total \in Nat /\ r.dropped <= total
      /\ n \in 0..k /\ n \in Nat /\ n <= k /\ lost \in Nat
  <2>1. Adjacent(r.entries) /\ r.entries \in Seq(Entry)
    BY DEF Staged, RingState
  <2>2. k \in Nat
    BY <2>1, LenProperties
  <2>3. r.dropped \in Nat /\ r.last \in Nat
    BY RingConstants DEF RingState
  <2>4. n \in 0..k /\ lost \in Nat
    BY DEF Takes
  <2> HIDE DEF k
  <2>5. n \in Nat /\ n <= k /\ total \in Nat /\ r.dropped <= total
    BY <2>2, <2>3, <2>4
  <2> QED BY <2>1, <2>2, <2>3, <2>4, <2>5
<1>0. /\ es = SubSeq(r.entries, n + 1, k)
      /\ q = [r EXCEPT !.entries = es, !.dropped = total]
  BY DEF Takes
<1>2. Adjacent(es) /\ Bytes(es) <= Bytes(r.entries)
  BY <1>0, <1>1, AdjacentRest
<1>3. /\ es \in Seq(Entry) /\ Len(es) = k - n
      /\ \A i \in 1..(k - n) : es[i] = r.entries[n + i]
  <2> DEFINE rs == r.entries
  <2>1. rs \in Seq(Entry) /\ n \in 0..Len(rs) /\ es = SubSeq(rs, n + 1, Len(rs)) /\ k = Len(rs)
    BY <1>0, <1>1
  <2> HIDE DEF rs, k
  <2>2. /\ es \in Seq(Entry) /\ Len(es) = Len(rs) - n
        /\ \A i \in 1..(Len(rs) - n) : es[i] = rs[n + i]
    BY <2>1, RestIs
  <2> QED BY <2>1, <2>2 DEF rs
<1> HIDE DEF total, k
<1>4. /\ q \in RingState /\ q.entries = es /\ q.dropped = total
      /\ q.through = r.through /\ q.inflight = r.inflight /\ q.orphaned = r.orphaned
      /\ q.last = r.last /\ q.account = r.account
      /\ q.generation = r.generation /\ q.desired = r.desired /\ q.cleared = r.cleared
      /\ q.logouts = r.logouts
  BY <1>0, <1>1, <1>3 DEF RingState
<1>5. Staged(q, s)
  <2>1. Len(es) <= MaxEntries
    <3>1. k <= MaxEntries
      BY DEF Staged, k
    <3> QED BY <1>1, <1>3, <3>1, RingConstants
  <2>2. ASSUME NEW i \in 1..Len(es) PROVE es[i].seq <= r.last /\ es[i].owner = s
    <3>1. i \in 1..(k - n)
      BY <1>3
    <3>2. n + i \in 1..k
      BY <1>1, <3>1
    <3>3. es[i] = r.entries[n + i]
      BY <1>3, <3>1
    <3> QED BY <3>2, <3>3 DEF Staged, k
  <2>3. Bytes(es) + q.orphaned <= MaxBytes
    <3>1. Bytes(es) \in Nat /\ Bytes(r.entries) \in Nat /\ r.orphaned = 0
      BY <1>1, <1>2, AdjacentBytes DEF AtRest
    <3> QED BY <3>1, <1>2, <1>4, RingConstants DEF Staged
  <2> QED BY <1>2, <1>4, <2>1, <2>2, <2>3 DEF Staged
<1>6. Counted(q, st)
  <2>1. /\ Cardinality(st \cup Seqs(r.entries)) <= n + Cardinality(st \cup Seqs(es))
        /\ Cardinality(st \cup Seqs(r.entries)) \in Nat /\ Cardinality(st \cup Seqs(es)) \in Nat
    BY <1>0, <1>1, RestCounts DEF k
  <2>2. Seqs(r.entries) \subseteq st \cup Seqs(es)
          => Cardinality(st \cup Seqs(r.entries)) <= Cardinality(st \cup Seqs(es))
    <3> SUFFICES ASSUME Seqs(r.entries) \subseteq st \cup Seqs(es)
                 PROVE  Cardinality(st \cup Seqs(r.entries)) <= Cardinality(st \cup Seqs(es))
      OBVIOUS
    <3>1. IsFiniteSet(st \cup Seqs(es))
      BY <1>3, SeqsFinite, FS_Union
    <3>2. (st \cup Seqs(r.entries)) \subseteq (st \cup Seqs(es))
      OBVIOUS
    <3> QED BY <3>1, <3>2, FS_Subset
  <2>3. r.last <= total + Cardinality(st \cup Seqs(es))
    <3>1. r.last <= r.dropped + Cardinality(st \cup Seqs(r.entries))
      BY DEF Counted
    <3>2. CASE lost = n
      BY <1>1, <2>1, <3>1, <3>2 DEF total
    <3>3. CASE lost = 0 /\ Seqs(r.entries) \subseteq st \cup Seqs(es)
      BY <1>1, <2>1, <2>2, <3>1, <3>3 DEF total
    <3> QED BY <3>2, <3>3 DEF Takes
  <2> QED BY <1>4, <2>3 DEF Counted
<1> QED BY <1>1, <1>4, <1>5, <1>6 DEF Bound, AtRest

\* What an acknowledged batch takes was stored; what a discarded one takes is counted.
LEMMA AnswerKeeps ==
    ASSUME RingInv, flush.stage = "write", flush.done, flush.batch # <<>>,
           NEW q, q = IF flush.answer THEN AckBatch(ring, flush.batch)
                      ELSE DiscardBatch(ring, flush.batch)
    PROVE  /\ Staged(q, session) /\ Bound(q, session, store) /\ Counted(q, stored)
           /\ AtRest(q) /\ ring.dropped <= q.dropped
<1> DEFINE b == flush.batch
           r == ReleaseBatch(ring)
           acked == AckBatch(ring, b)
<1>1. /\ ring \in RingState /\ Adjacent(ring.entries) /\ Adjacent(b) /\ b # <<>>
      /\ ring.entries \in Seq(Entry) /\ Len(ring.entries) \in Nat /\ ring.dropped \in Nat
      /\ b \in Seq(Entry) /\ flush \in FlushState
      /\ Staged(ring, session) /\ Counted(ring, stored) /\ Bound(ring, session, store)
      /\ Held(b, ring) \/ Gone(b, ring)
  <2>1. /\ ring \in RingState /\ Adjacent(ring.entries) /\ Adjacent(b)
    BY DEF RingInv, Staged, Writing
  <2>2. Len(ring.entries) \in Nat /\ ring.entries \in Seq(Entry) /\ b \in Seq(Entry) /\ ring.dropped \in Nat
    BY <2>1, LenProperties DEF Adjacent, RingState
  <2> QED BY <2>1, <2>2 DEF RingInv, Writing
<1>2. /\ r \in RingState /\ Staged(r, session) /\ Counted(r, stored) /\ Bound(r, session, store)
      /\ AtRest(r) /\ r.entries = ring.entries /\ r.dropped = ring.dropped
  BY <1>1, ReleaseKeeps
<1>3. IsFiniteSet(stored)
  <2>1. stored \subseteq 1..ring.last /\ ring.last \in Nat
    BY <1>1, RingConstants DEF Counted, RingState
  <2>2. IsFiniteSet(1..ring.last)
    BY <2>1, FS_Interval
  <2> QED BY <2>1, <2>2, FS_Subset
<1>4. DiscardBatch(ring, b) = [acked EXCEPT !.dropped = acked.dropped + Len(ring.entries) - Len(acked.entries)]
  BY <1>1 DEF DiscardBatch
<1> HIDE DEF r
<1>5. CASE Held(b, ring)
  <2> DEFINE n == Len(b)
             k == Len(r.entries)
             rs == r.entries
             es == SubSeq(rs, n + 1, k)
  <2>1. /\ acked = [r EXCEPT !.entries = es] /\ n \in 0..k /\ b = SubSeq(rs, 1, n) /\ rs \in Seq(Entry)
        /\ k \in Nat /\ k = Len(ring.entries) /\ k = Len(rs) /\ rs = r.entries
        /\ es = SubSeq(r.entries, n + 1, Len(r.entries)) /\ n \in 0..Len(r.entries)
    BY <1>1, <1>2, <1>5, AckHeld DEF r, Held
  <2>2. \A i \in 1..Len(b) : flush.answer => b[i].seq \in stored
    BY DEF RingInv, Writing
  <2>3. Len(b) = n /\ es = SubSeq(rs, n + 1, Len(rs)) /\ n \in 0..Len(rs) /\ rs \in Seq(Entry)
    BY <2>1
  <2> HIDE DEF n, k, rs, es, acked, b
  <2>4. /\ es \in Seq(Entry) /\ Len(es) = Len(rs) - n
        /\ \A i \in 1..(Len(rs) - n) : es[i] = rs[n + i]
    BY <2>3, RestIs
  <2>5. \A i \in 1..n : b[i] = rs[i]
    BY <2>1, <2>3, FirstIs
  <2>6. CASE flush.answer
    <3>1. Seqs(rs) \subseteq stored \cup Seqs(es)
      <4>1. Seqs(rs) = {rs[i].seq : i \in 1..Len(rs)}
        BY <2>1, SeqsFinite
      <4>2. Seqs(es) = {es[i].seq : i \in 1..Len(es)}
        BY <2>4, SeqsFinite
      <4> SUFFICES ASSUME NEW i \in 1..Len(rs) PROVE rs[i].seq \in stored \cup Seqs(es)
        BY <4>1
      <4>3. CASE i <= n
        <5>1. i \in 1..n
          BY <4>3, <2>1
        <5>2. b[i] = rs[i] /\ b[i].seq \in stored
          BY <5>1, <2>2, <2>3, <2>5, <2>6
        <5> QED BY <5>2
      <4>4. CASE i > n
        <5>1. i - n \in 1..(Len(rs) - n) /\ n + (i - n) = i
          BY <2>1, <4>4
        <5>2. es[i - n] = rs[i] /\ i - n \in 1..Len(es)
          BY <5>1, <2>4
        <5> QED BY <5>2, <4>2
      <4> QED BY <4>3, <4>4, <2>1
    <3>2. r.dropped + 0 = r.dropped
      BY <1>1, <1>2
    <3>3. acked = [r EXCEPT !.entries = es, !.dropped = r.dropped + 0]
      BY <1>2, <2>1, <2>4, <3>2 DEF RingState
    <3>4. q = acked
      BY <2>6 DEF acked, b
    <3>5. Takes(r, q, n, 0, es, stored)
      BY <2>1, <3>1, <3>3, <3>4 DEF Takes
    <3> QED BY <1>2, <1>3, <3>5, TakeKeeps
  <2>7. CASE ~flush.answer
    <3>1. acked.dropped = r.dropped /\ acked.entries = es
      BY <1>2, <2>1, <2>4 DEF RingState
    <3>2. acked.dropped + Len(ring.entries) - Len(acked.entries) = r.dropped + n
      <4>1. r.dropped \in Nat /\ k \in Nat /\ n \in Nat
        BY <1>1, <1>2, <2>1
      <4>2. Len(ring.entries) = k /\ Len(es) = k - n
        BY <2>1, <2>4
      <4>3. acked.dropped + Len(ring.entries) - Len(acked.entries) = r.dropped + k - (k - n)
        BY <3>1, <4>2
      <4> HIDE DEF r
      <4>4. r.dropped + k - (k - n) = r.dropped + n
        BY <4>1
      <4> QED BY <4>3, <4>4
    <3>3. q = [acked EXCEPT !.dropped = r.dropped + n]
      BY <1>4, <2>7, <3>2 DEF b
    <3>4. q = [r EXCEPT !.entries = es, !.dropped = r.dropped + n]
      <4> DEFINE total == r.dropped + n
      <4>1. q = [acked EXCEPT !.dropped = total]
        BY <3>3
      <4> HIDE DEF total
      <4>2. q = [r EXCEPT !.entries = es, !.dropped = total]
        BY <1>2, <2>1, <4>1 DEF RingState
      <4> QED BY <4>2 DEF total
    <3>5. Takes(r, q, n, n, es, stored)
      <4>1. n \in Nat
        BY <2>1
      <4> QED BY <2>1, <3>4, <4>1 DEF Takes
    <3> QED BY <1>2, <1>3, <3>5, TakeKeeps
  <2> QED BY <2>6, <2>7
<1>6. CASE Gone(b, ring)
  <2>1. acked = r
    BY <1>1, <1>6, AckGone DEF r
  <2>2. acked.dropped + Len(ring.entries) - Len(acked.entries) = ring.dropped
    <3> HIDE DEF acked
    <3>1. acked.dropped = ring.dropped /\ Len(acked.entries) = Len(ring.entries)
      BY <1>2, <2>1
    <3> QED BY <1>1, <3>1
  <2>3. q = r
    <3>1. CASE flush.answer
      BY <2>1, <3>1
    <3>2. CASE ~flush.answer
      <4>1. q = [r EXCEPT !.dropped = r.dropped]
        BY <1>2, <1>4, <2>1, <2>2, <3>2
      <4> QED BY <4>1, <1>2 DEF RingState
    <3> QED BY <3>1, <3>2
  <2> QED BY <1>1, <1>2, <2>3
<1> QED BY <1>1, <1>5, <1>6

LEMMA WriteReturnsKeeps == ASSUME RingInv, WriteReturns PROVE RingInv'
<1>1. /\ flush.stage = "write" /\ flush.done
      /\ UNCHANGED <<store, run, session, closing, stored, late, lossy>>
  BY DEF WriteReturns
<1>2. /\ flush \in FlushState /\ Staged(ring, session) /\ Counted(ring, stored)
      /\ Bound(ring, session, store) /\ flush.counted \in Nat /\ flush.counted <= ring.dropped
      /\ ring.dropped \in Nat /\ flush.known \in Nat /\ flush.known <= ring.dropped
      /\ flush.again \in BOOLEAN
  BY <1>1 DEF RingInv, Writing, FlushState, Staged, RingState
<1> DEFINE q == IF flush.batch = <<>> THEN ring
                ELSE IF flush.answer THEN AckBatch(ring, flush.batch)
                ELSE DiscardBatch(ring, flush.batch)
<1>3. ring' = q
  <2>1. CASE flush.batch = <<>>
    <3>1. AckBatch(ring, flush.batch) = ring
      BY <2>1 DEF AckBatch
    <3>2. DiscardBatch(ring, flush.batch) = [ring EXCEPT !.dropped = @ + Len(ring.entries) - Len(ring.entries)]
      BY <3>1 DEF DiscardBatch
    <3>3. ring.dropped + Len(ring.entries) - Len(ring.entries) = ring.dropped
      BY <1>2, LenProperties DEF Staged, RingState
    <3>4. [ring EXCEPT !.dropped = ring.dropped] = ring
      BY <1>2 DEF Staged, RingState
    <3>5. DiscardBatch(ring, flush.batch) = ring
      BY <3>2, <3>3, <3>4
    <3> QED BY <2>1, <3>1, <3>5 DEF WriteReturns
  <2>2. CASE flush.batch # <<>>
    BY <2>2 DEF WriteReturns
  <2> QED BY <2>1, <2>2
<1>4. /\ Staged(q, session) /\ Bound(q, session, store) /\ Counted(q, stored) /\ AtRest(q)
      /\ ring.dropped <= q.dropped
  <2>1. CASE flush.batch = <<>>
    BY <1>1, <1>2, <2>1 DEF RingInv, Writing, AtRest
  <2>2. CASE flush.batch # <<>>
    <3> DEFINE a == IF flush.answer THEN AckBatch(ring, flush.batch)
                    ELSE DiscardBatch(ring, flush.batch)
    <3>1. q = a
      BY <2>2
    <3>2. a = IF flush.answer THEN AckBatch(ring, flush.batch)
              ELSE DiscardBatch(ring, flush.batch)
      OBVIOUS
    <3> HIDE DEF q, a
    <3> QED BY <1>1, <2>2, <3>1, <3>2, AnswerKeeps
  <2> QED BY <2>1, <2>2
<1>5. q.dropped \in Nat
  BY <1>4 DEF Staged, RingState
<1>6. CASE flush.answer
  <2> DEFINE f == [flush EXCEPT !.failed = FALSE, !.known = flush.counted,
                           !.settled = flush.batch = <<>>]
             goes_on == flush.batch # <<>> \/ flush.again
  <2>1. flush' = TurnEnds(f, goes_on)
    BY <1>6 DEF WriteReturns
  <2>2. f \in FlushState /\ f.known = flush.counted /\ goes_on \in BOOLEAN
    BY <1>2 DEF FlushState
  <2>3. f.known <= q.dropped
    BY <1>2, <1>4, <1>5, <2>2
  <2>4. ASSUME ~goes_on, ~late PROVE q.dropped = f.known /\ Seqs(q.entries) \subseteq stored
    <3>1. flush.batch = <<>> /\ q = ring
      BY <2>4
    <3>2. ring.entries = <<>> /\ ring.dropped = flush.counted
      BY <1>1, <2>4, <3>1 DEF RingInv, Writing
    <3>3. Seqs(<<>>) = {}
      BY DEF Seqs, ToSet
    <3> QED BY <2>2, <3>1, <3>2, <3>3
  <2> HIDE DEF f, goes_on, q
  <2> QED BY <1>1, <1>3, <1>4, <2>1, <2>2, <2>3, <2>4, WriteSteps
<1>7. CASE ~flush.answer
  <2> DEFINE f == [flush EXCEPT !.failed = TRUE]
  <2>1. flush' = TurnEnds(f, flush.again)
    BY <1>7 DEF WriteReturns
  <2>2. f \in FlushState /\ f.known = flush.known /\ f.failed
    BY <1>2 DEF FlushState
  <2>3. f.known <= q.dropped
    BY <1>2, <1>4, <1>5, <2>2
  <2> HIDE DEF f, q
  <2> QED BY <1>1, <1>2, <1>3, <1>4, <2>1, <2>2, <2>3, WriteSteps
<1> QED BY <1>6, <1>7

LEMMA WriterFailsKeeps == ASSUME RingInv, WriterFails PROVE RingInv'
<1>1. /\ flush.stage \in {"clear", "bind", "begin", "write", "end"} /\ ~flush.done
      /\ UNCHANGED <<store, run, session, closing, stored, late, lossy>>
  BY DEF WriterFails
<1>2. /\ flush \in FlushState /\ Staged(ring, session) /\ Counted(ring, stored)
      /\ Bound(ring, session, store) /\ flush.known <= ring.dropped /\ flush.again \in BOOLEAN
      /\ late \in BOOLEAN
  BY DEF RingInv, FlushState
<1> DEFINE f == [flush EXCEPT !.failed = TRUE]
<1>3. f \in FlushState /\ f.known = flush.known /\ f.failed
  BY <1>2 DEF FlushState
<1>4. CASE flush.stage = "write"
  <2>1. ring' = ReleaseBatch(ring) /\ flush' = TurnEnds(f, flush.again)
    BY <1>4 DEF WriterFails
  <2> DEFINE q == ReleaseBatch(ring)
  <2>2. /\ Staged(q, session) /\ Counted(q, stored) /\ Bound(q, session, store) /\ AtRest(q)
        /\ q.dropped = ring.dropped
    BY <1>2, ReleaseKeeps
  <2> HIDE DEF f, q
  <2>3. ring' = q
    BY <2>1 DEF q
  <2> QED BY <1>1, <1>2, <1>3, <1>4, <2>1, <2>2, <2>3, WriteSteps
<1>5. CASE flush.stage = "end"
  <2>1. ring' = ring /\ flush' = [flush EXCEPT !.stage = "exited"]
    BY <1>5 DEF WriterFails
  <2>2. flush' \in FlushState /\ flush'.known = flush.known /\ flush'.stage = "exited"
    BY <1>2, <2>1 DEF FlushState, Stages
  <2>3. Lifecycle(flush', ring, store) /\ Writing(flush', ring, store, stored, late)
    BY <1>5, <2>2 DEF RingInv, Lifecycle, Writing
  <2>4. Finishing(flush', ring, store, stored, late, closing, run)
    BY <1>5, <2>2 DEF RingInv, Finishing
  <2>5. LossIsReported'
    BY <1>1 DEF RingInv, LossIsReported
  <2> QED BY <1>1, <2>1, <2>2, <2>3, <2>4, <2>5 DEF RingInv
<1>6. CASE flush.stage \in {"clear", "bind", "begin"}
  <2>1. FlushUpdates(ring, f, FALSE)
    BY <1>6 DEF WriterFails
  <2>2. AtRest(ring)
    BY <1>6, LifecycleStage
  <2> HIDE DEF f
  <2> QED BY <1>1, <1>2, <1>3, <1>6, <2>1, <2>2, TurnSteps
<1> QED BY <1>1, <1>4, <1>5, <1>6

LEMMA EndBeginsKeeps == ASSUME RingInv, EndBegins PROVE RingInv'
<1> DEFINE next == IF ring.generation # None /\ ~flush.failed THEN "end" ELSE "exited"
<1>1. /\ flush.stage = "finished" /\ flush' = [flush EXCEPT !.stage = next]
      /\ UNCHANGED <<ring, store, run, session, closing, stored, late, lossy>>
  BY DEF EndBegins
<1>2. flush \in FlushState /\ next \in {"end", "exited"}
  BY DEF RingInv
<1>3. /\ flush' \in FlushState /\ flush'.known = flush.known /\ flush'.stage = next
      /\ flush'.failed = flush.failed
  <2> HIDE DEF next
  <2> QED BY <1>1, <1>2 DEF FlushState, Stages
<1>4. Lifecycle(flush', ring, store) /\ Writing(flush', ring, store, stored, late)
  BY <1>1, <1>2, <1>3 DEF RingInv, Lifecycle, Writing
<1>5. Finishing(flush', ring, store, stored, late, closing, run)
  BY <1>1, <1>3 DEF RingInv, Finishing, Reported
<1>6. LossIsReported'
  BY <1>1 DEF RingInv, LossIsReported
<1> QED BY <1>1, <1>3, <1>4, <1>5, <1>6 DEF RingInv

LEMMA EndCommitsKeeps == ASSUME RingInv, EndCommits PROVE RingInv'
<1>1. /\ flush.stage = "end" /\ flush' = [flush EXCEPT !.stage = "exited"]
      /\ UNCHANGED <<ring, run, session, closing, stored, late, lossy>>
      /\ store' = IF IsGeneration(store, ring.generation) /\ store.runtime = run
                  THEN [store EXCEPT !.open = FALSE] ELSE store
  BY DEF EndCommits
<1>2. flush \in FlushState /\ store \in StoreState
  BY DEF RingInv, Kept
<1>3. /\ flush' \in FlushState /\ flush'.known = flush.known /\ flush'.stage = "exited"
  BY <1>1, <1>2 DEF FlushState, Stages
<1>4. /\ store' \in StoreState /\ store'.rows = store.rows /\ store'.account = store.account
      /\ store'.generation = store.generation /\ store'.runtime = store.runtime
      /\ store'.unknown = store.unknown
      /\ store'.open => store.open
      /\ store.runtime # run => store'.open = store.open
  BY <1>1, <1>2 DEF StoreState
<1>5. Kept(store', run)
  BY <1>4 DEF RingInv, Kept
<1>6. Bound(ring, session, store')
  BY <1>4 DEF RingInv, Bound
<1>7. Lifecycle(flush', ring, store') /\ Writing(flush', ring, store', stored, late)
  BY <1>1, <1>3 DEF RingInv, Lifecycle, Writing
<1>8. Finishing(flush', ring, store', stored, late, closing, run)
  BY <1>1, <1>3 DEF RingInv, Finishing, Reported
<1>9. LossIsReported'
  BY <1>1, <1>4 DEF RingInv, LossIsReported
<1> QED BY <1>1, <1>3, <1>5, <1>6, <1>7, <1>8, <1>9 DEF RingInv

-----------------------------------------------------------------------------
(* A new process *)

LEMMA NewProcess ==
    ASSUME NEW s \in Accounts \cup {None}, NEW d, NEW l, NEW c
    PROVE  /\ Staged(NewRing, s) /\ Bound(NewRing, s, d) /\ Counted(NewRing, {})
           /\ NewFlush \in FlushState /\ NewFlush.known <= NewRing.dropped
           /\ Lifecycle(NewFlush, NewRing, d) /\ Writing(NewFlush, NewRing, d, {}, l)
           /\ NewFlush.stage = "idle"
<1>1. <<>> \in Seq(Entry) /\ Len(<<>>) = 0
  BY EmptySeq
<1>2. NewRing \in RingState
  BY <1>1, RingConstants DEF NewRing, RingState
<1>3. NewFlush \in FlushState
  BY <1>1 DEF NewFlush, FlushState, Stages
<1>4. Adjacent(<<>>) /\ Bytes(<<>>) = 0
  BY <1>1 DEF Adjacent, Bytes
<1>5. Staged(NewRing, s)
  <2>1. /\ NewRing.entries = <<>> /\ NewRing.desired = None /\ NewRing.account = None
        /\ NewRing.cleared = 0 /\ NewRing.logouts = 0 /\ NewRing.orphaned = 0
    BY DEF NewRing
  <2> QED BY <1>1, <1>2, <1>4, <2>1, RingConstants DEF Staged
<1>6. Counted(NewRing, {})
  <2>1. NewRing.last = 0 /\ NewRing.dropped = 0 /\ NewRing.entries = <<>>
    BY DEF NewRing
  <2>2. Seqs(<<>>) = {}
    BY DEF Seqs, ToSet
  <2>3. Cardinality({} \cup {}) = 0
    <3>1. {} \cup {} = {}
      OBVIOUS
    <3> QED BY <3>1, FS_EmptySet
  <2>4. {} \subseteq 1..0 /\ 0 <= 0 + 0
    OBVIOUS
  <2> QED BY <2>1, <2>2, <2>3, <2>4 DEF Counted
<1>7. Bound(NewRing, s, d)
  BY DEF Bound, NewRing
<1>8. Lifecycle(NewFlush, NewRing, d) /\ Writing(NewFlush, NewRing, d, {}, l)
  BY DEF NewFlush, NewRing, Lifecycle, Writing
<1>9. NewFlush.known <= NewRing.dropped /\ NewFlush.stage = "idle"
  BY DEF NewFlush, NewRing
<1> QED BY <1>3, <1>5, <1>6, <1>7, <1>8, <1>9

LEMMA RestartKeeps ==
    ASSUME RingInv, NEW a \in Accounts \cup {None}, Restart(a)
    PROVE  RingInv'
<1>1. /\ run < MaxRuns /\ run' = run + 1 /\ session' = a
      /\ lossy' = lossy + (IF store.runtime = run /\ Unreported /\ ~LateLoss THEN 1 ELSE 0)
      /\ ring' = NewRing /\ flush' = NewFlush /\ closing' = FALSE /\ stored' = {} /\ late' = FALSE
      /\ store' = store
  BY DEF Restart
<1>2. /\ run \in 1..MaxRuns /\ run \in Nat /\ lossy \in Nat /\ store \in StoreState
      /\ store.unknown \in Nat /\ store.open \in BOOLEAN /\ late \in BOOLEAN
  BY RingConstants DEF RingInv, Kept, StoreState
<1>3. run' \in 1..MaxRuns /\ lossy' \in Nat
  BY <1>1, <1>2, RingConstants
<1>4. /\ Staged(ring', session') /\ Bound(ring', session', store') /\ Counted(ring', stored')
      /\ flush' \in FlushState /\ flush'.known <= ring'.dropped
      /\ Lifecycle(flush', ring', store') /\ Writing(flush', ring', store', stored', late')
      /\ flush'.stage = "idle"
  BY <1>1, NewProcess
<1>5. store.runtime # None => store.runtime \in Nat /\ store.runtime <= run
  BY <1>2, RingConstants DEF RingInv, Kept, StoreState, Runtimes
<1>6. Kept(store', run')
  BY <1>1, <1>2, <1>5 DEF RingInv, Kept
<1>7. store.runtime # run + 1 /\ run + 1 # None
  BY <1>2, <1>5, RingConstants
<1>8. Finishing(flush', ring', store', stored', late', closing', run')
  BY <1>1, <1>4, <1>7 DEF Finishing
<1>9. LossIsReported'
  <2>1. CASE store.runtime = run /\ Unreported /\ ~LateLoss
    <3>1. store.open
      <4> SUFFICES ASSUME ~store.open PROVE FALSE
        OBVIOUS
      <4>1. flush.stage = "exited" /\ (late \/ Reported(ring, flush, stored))
        BY <2>1 DEF RingInv, Finishing
      <4>2. Reported(ring, flush, stored)
        BY <2>1, <4>1 DEF LateLoss
      <4>3. \A e \in ToSet(ring.entries) : e.seq \in stored
        BY <4>2 DEF Reported, Seqs
      <4>4. ring.dropped = flush.known /\ ring.dropped \in Nat
        BY <4>2 DEF Reported, RingInv, Staged, RingState
      <4> QED BY <2>1, <4>3, <4>4 DEF Unreported
    <3>2. lossy <= store.unknown
      BY <1>2, <2>1 DEF RingInv, LossIsReported
    <3> QED BY <1>1, <1>2, <1>7, <2>1, <3>1, <3>2 DEF LossIsReported
  <2>2. CASE ~(store.runtime = run /\ Unreported /\ ~LateLoss)
    <3>1. lossy <= store.unknown + (IF store.open /\ store.runtime # run THEN 1 ELSE 0)
      BY DEF RingInv, LossIsReported
    <3> QED BY <1>1, <1>2, <1>7, <2>2, <3>1 DEF LossIsReported
  <2> QED BY <2>1, <2>2
<1> QED BY <1>1, <1>3, <1>4, <1>6, <1>8, <1>9 DEF RingInv

LEMMA RingInitInv == RingInit => RingInv
<1> SUFFICES ASSUME RingInit PROVE RingInv
  OBVIOUS
<1>1. /\ ring = NewRing /\ flush = NewFlush /\ store = Cleared(0)
      /\ run = 1 /\ session \in Accounts \cup {None} /\ closing = FALSE
      /\ stored = {} /\ late = FALSE /\ lossy = 0
  BY DEF RingInit
<1>2. /\ Staged(ring, session) /\ Bound(ring, session, store) /\ Counted(ring, stored)
      /\ flush \in FlushState /\ flush.known <= ring.dropped
      /\ Lifecycle(flush, ring, store) /\ Writing(flush, ring, store, stored, late)
      /\ flush.stage = "idle"
  BY <1>1, NewProcess
<1>3. /\ store \in StoreState /\ store.rows = {} /\ store.runtime = None /\ ~store.open
      /\ store.unknown = 0
  BY <1>1 DEF Cleared, StoreState, Runtimes
<1>4. Kept(store, run)
  BY <1>3, FS_EmptySet, RingConstants DEF Kept
<1>5. Finishing(flush, ring, store, stored, late, closing, run)
  <2>1. run # None
    BY <1>1, RingConstants
  <2> QED BY <1>2, <1>3, <2>1 DEF Finishing
<1>6. LossIsReported
  BY <1>1, <1>3 DEF LossIsReported
<1>7. run \in 1..MaxRuns
  BY <1>1, RingConstants
<1> QED BY <1>1, <1>2, <1>4, <1>5, <1>6, <1>7 DEF RingInv

LEMMA RingNextInv == RingInv /\ [RingNext]_ringVars => RingInv'
<1> SUFFICES ASSUME RingInv, [RingNext]_ringVars PROVE RingInv'
  OBVIOUS
<1>1. CASE FlushTask
  BY <1>1, TurnBeginsKeeps, ClearCommitsKeeps, ClearReturnsKeeps, BindCommitsKeeps,
     BindReturnsKeeps, BeginCommitsKeeps, BeginReturnsKeeps, WriteCommitsKeeps,
     WriteReturnsKeeps, EndBeginsKeeps, EndCommitsKeeps DEF FlushTask
<1>2. CASE Environment
  <2>1. ASSUME NEW size \in 1..(MaxEntry + 1), Capture(size) PROVE RingInv'
    BY <2>1, CaptureKeeps
  <2>2. ASSUME NEW a \in Accounts, Login(a) PROVE RingInv'
    BY <2>2, LoginKeeps
  <2>3. ASSUME Verify \/ Logout \/ CloseConnection \/ WriterFails PROVE RingInv'
    BY <2>3, VerifyKeeps, LogoutKeeps, CloseKeeps, WriterFailsKeeps
  <2>4. ASSUME NEW a \in Accounts \cup {None}, Restart(a) PROVE RingInv'
    BY <2>4, RestartKeeps
  <2> QED BY <1>2, <2>1, <2>2, <2>3, <2>4 DEF Environment
<1>3. CASE UNCHANGED ringVars
  BY <1>3 DEF ringVars, RingInv, LossIsReported
<1> QED BY <1>1, <1>2, <1>3 DEF RingNext

\* The ring and the store keep their invariant, whatever the connection, the
\* flush task, the writer and restarts do, in any order.
THEOREM RingInvariant == RingSpec => []RingInv
BY RingInitInv, RingNextInv, PTL DEF RingSpec

LEMMA RingInvTypeOK == RingInv => RingTypeOK
<1> SUFFICES ASSUME RingInv PROVE RingTypeOK
  OBVIOUS
<1>1. /\ ring \in RingState /\ flush \in FlushState /\ store \in StoreState
      /\ Cardinality(store.rows) <= MaxRows /\ Len(ring.entries) <= MaxEntries
      /\ ring.cleared <= ring.logouts
  BY DEF RingInv, Staged, Kept
<1>2. /\ ring.entries \in Seq(Entry)
      /\ ring.last \in 0..MaxSequence /\ {ring.through, ring.inflight, ring.orphaned} \subseteq Nat
      /\ {ring.account, ring.desired} \subseteq Accounts \cup {None}
      /\ ring.generation \in Nat \cup {None}
  BY <1>1 DEF RingState
<1>3. flush.stage \in Stages /\ store.rows \subseteq Row
  BY <1>1 DEF FlushState, StoreState
<1> QED BY <1>1, <1>2, <1>3 DEF RingTypeOK, RingInv, Stages

\* Held, the batch is part of the ring and hands out no bytes of its own; gone,
\* its bytes are those the ring still counts as orphaned.
LEMMA RingInvRetained == RingInv => RetainedBounded
<1> SUFFICES ASSUME RingInv PROVE RetainedBounded
  OBVIOUS
<1> DEFINE b == flush.batch
           es == ring.entries
<1>1. /\ ring \in RingState /\ es \in Seq(Entry) /\ Bytes(es) \in Nat /\ ring.orphaned \in Nat
      /\ Bytes(es) + ring.orphaned <= MaxBytes
  BY AdjacentBytes DEF RingInv, Staged, RingState, Adjacent
<1>2. Bytes(es) + 0 <= MaxBytes
  BY <1>1, RingConstants
<1>3. CASE flush.stage = "write" /\ ~(ToSet(b) \subseteq ToSet(es))
  <2>1. Adjacent(b) /\ b \in Seq(Entry)
    BY <1>3 DEF RingInv, Writing, Adjacent
  <2>2. b # <<>>
    BY <1>3 DEF ToSet
  <2>3. ~Held(b, ring)
    <3> SUFFICES ASSUME Held(b, ring) PROVE FALSE
      OBVIOUS
    <3> HIDE DEF b, es
    <3>1. Len(b) \in Nat /\ Len(es) \in Nat /\ DOMAIN b = 1..Len(b) /\ DOMAIN es = 1..Len(es)
      BY <1>1, <2>1, LenProperties
    <3>2. Len(b) \in 0..Len(es) /\ b = SubSeq(es, 1, Len(b))
      BY <3>1 DEF Held, es
    <3>3. \A i \in 1..Len(b) : b[i] = es[i] /\ i \in 1..Len(es)
      BY <1>1, <3>1, <3>2, FirstIs
    <3>4. ToSet(b) \subseteq ToSet(es)
      BY <3>1, <3>3 DEF ToSet
    <3> QED BY <1>3, <3>4
  <2>4. ring.orphaned = Bytes(b)
    BY <1>3, <2>2, <2>3 DEF RingInv, Writing, Gone
  <2> QED BY <1>1, <1>3, <2>4 DEF RetainedBounded
<1>4. CASE ~(flush.stage = "write" /\ ~(ToSet(b) \subseteq ToSet(es)))
  BY <1>2, <1>4 DEF RetainedBounded
<1> QED BY <1>3, <1>4

LEMMA RingInvAccount == RingInv => RingKeepsAccount
<1> SUFFICES ASSUME RingInv PROVE RingKeepsAccount
  OBVIOUS
<1>1. OwnerOnly
  BY DEF RingInv, Kept, OwnerOnly
<1>2. RetainedBounded
  BY RingInvRetained
<1>3. NothingUncounted
  BY DEF RingInv, Counted, NothingUncounted, Seqs
<1>4. LossIsReported
  BY DEF RingInv
<1> QED BY <1>1, <1>2, <1>3, <1>4 DEF RingKeepsAccount

\* Entries, counters and rows keep their types and limits.
THEOREM RingIsTyped == RingSpec => []RingTypeOK
BY RingInvariant, RingInvTypeOK, PTL

\* The records of one account are never kept as those of another, the ring stays
\* within its bytes with the batch in flight, and no loss goes unreported.
THEOREM AccountsStayApart == RingSpec => []RingKeepsAccount
BY RingInvariant, RingInvAccount, PTL

-----------------------------------------------------------------------------
(* The intake *)

\* A request that is being called belongs to a gap, and its method shows no hint.
CallHasGap ==
    turning.at \in {"calling", "claimed"} =>
        /\ turning.entry \in getting
        /\ blocked[Method(turning.entry)] = Free

\* A hint belongs to a gap.
HintHasGap ==
    \A m \in Methods : blocked[m] # Free => \E x \in getting : Method(x) = m

\* A sentinel that is counted is on its way to the loop.
WakeupIsQueued ==
    wakeup_queued => \/ "wakeup" \in ToSet(queue)
                     \/ turning.at = "process" /\ turning.entry = "wakeup"

\* The credit is what is left of the turn.
CreditIsEarned ==
    /\ difference_credit => remaining = 0
    /\ ~difference_credit => remaining # 0

\* Real items of the queue up to place i.
UpTo(q, i) == {j \in RealIn(q) : j <= i}

\* An envelope that saw a difference is still in the queue, and the turn that
\* is measured lasts until it is dequeued.
SeenStillWaits ==
    \A e \in Envelopes : seen[e] <= 1 /\ (seen[e] > 0 => e \in ToSet(queue))

InTurn(i) ==
    queue[i] \in Envelopes /\ seen[queue[i]] > 0 =>
        /\ ~difference_credit
        /\ remaining # Free => Cardinality(UpTo(queue, i)) <= remaining
SeenIsCounted == \A i \in DOMAIN queue : InTurn(i)

IntakeInv ==
    /\ IntakeTypeOK
    /\ CallHasGap /\ HintHasGap
    /\ WakeupIsQueued /\ SleepIsJustified
    /\ CreditIsEarned /\ SeenStillWaits /\ SeenIsCounted

Items == Envelopes \union {"wakeup"}
Span == {Free, Never} \union 0..Wait

LEMMA IntakeNumbers ==
    /\ Never = Wait + 1 /\ Free = -1 /\ Wait \in Nat /\ Wait > 0 /\ Wait < Never
    /\ Methods = {"difference", "channelDifference"}
    /\ "wakeup" \notin Envelopes /\ Account \notin Channels
    /\ \A x : Method(x) \in Methods
    /\ Method(Account) = "difference"
    /\ \A c \in Channels : Method(c) = "channelDifference"
BY IntakeAssumption DEF IntakeAssumption, Never, Free, Methods, Method

LEMMA PutProperties ==
    ASSUME NEW q \in Seq(Items), NEW e \in Items, NEW p, p = Append(q, e)
    PROVE  /\ p \in Seq(Items) /\ p # <<>>
           /\ ToSet(p) = ToSet(q) \union {e}
           /\ DOMAIN p = DOMAIN q \union {Len(q) + 1}
<1>1. p \in Seq(Items) /\ p # <<>> /\ Len(p) = Len(q) + 1 /\ p[Len(q) + 1] = e
      /\ \A i \in 1..Len(q) : p[i] = q[i]
  BY AppendProperties
<1>2. DOMAIN p = 1..(Len(q) + 1) /\ DOMAIN q = 1..Len(q) /\ Len(q) \in Nat
  BY <1>1
<1>3. DOMAIN p = DOMAIN q \union {Len(q) + 1}
  BY <1>2
<1>4. ToSet(p) = ToSet(q) \union {e}
  BY <1>1, <1>2, <1>3 DEF ToSet
<1> QED BY <1>1, <1>2, <1>3, <1>4

\* An item at the end changes nothing in front of it.
LEMMA PutCounts ==
    ASSUME NEW q \in Seq(Items), NEW e \in Items, NEW i \in DOMAIN q
    PROVE  UpTo(Append(q, e), i) = UpTo(q, i)
<1> DEFINE p == Append(q, e)
<1>1. Len(p) = Len(q) + 1 /\ \A j \in 1..Len(q) : p[j] = q[j]
  BY AppendProperties
<1>2. DOMAIN p = 1..(Len(q) + 1) /\ DOMAIN q = 1..Len(q) /\ Len(q) \in Nat
  BY <1>1
<1> HIDE DEF p
<1>3. UpTo(p, i) = UpTo(q, i)
  BY <1>1, <1>2 DEF UpTo, RealIn
<1> QED BY <1>3 DEF p

LEMMA UpToFinite ==
    ASSUME NEW q \in Seq(Items), NEW i
    PROVE  /\ IsFiniteSet(UpTo(q, i)) /\ IsFiniteSet(RealIn(q))
           /\ Cardinality(UpTo(q, i)) \in Nat /\ Cardinality(RealIn(q)) \in Nat
           /\ Cardinality(UpTo(q, i)) <= Cardinality(RealIn(q))
<1>1. Len(q) \in Nat /\ DOMAIN q = 1..Len(q)
  OBVIOUS
<1>2. IsFiniteSet(DOMAIN q)
  BY <1>1, FS_Interval
<1>3. IsFiniteSet(RealIn(q))
  BY <1>2, FS_Subset DEF RealIn
<1>4. UpTo(q, i) \in SUBSET RealIn(q)
  BY DEF UpTo
<1>5. IsFiniteSet(UpTo(q, i)) /\ Cardinality(UpTo(q, i)) <= Cardinality(RealIn(q))
  BY <1>3, <1>4, FS_Subset
<1> QED BY <1>3, <1>5, FS_CardinalityType

LEMMA TakeProperties ==
    ASSUME NEW q \in Seq(Items), q # <<>>, NEW p, p = Tail(q)
    PROVE  /\ p \in Seq(Items) /\ Head(q) \in Items /\ Head(q) = q[1]
           /\ ToSet(q) = ToSet(p) \union {Head(q)}
           /\ DOMAIN q = 1..Len(q)
           /\ \A i \in DOMAIN p : i + 1 \in DOMAIN q /\ i \in Nat \ {0} /\ p[i] = q[i + 1]
<1>1. p \in Seq(Items) /\ Head(q) \in Items /\ Len(p) = Len(q) - 1
      /\ \A i \in 1..Len(p) : p[i] = q[i + 1]
  BY HeadTailProperties
<1>2. Len(q) \in Nat /\ DOMAIN q = 1..Len(q) /\ DOMAIN p = 1..Len(p) /\ Head(q) = q[1]
  BY <1>1
<1>3. Len(q) > 0
  BY EmptySeq
<1>4. \A i \in DOMAIN p : i + 1 \in DOMAIN q /\ i \in Nat \ {0} /\ p[i] = q[i + 1]
  BY <1>1, <1>2
<1>5. \A k \in DOMAIN q : k = 1 \/ (k - 1 \in DOMAIN p /\ p[k - 1] = q[k])
  BY <1>1, <1>2
<1>6. ToSet(q) = ToSet(p) \union {Head(q)}
  <2>1. ToSet(q) \subseteq ToSet(p) \union {Head(q)}
    BY <1>2, <1>5, ZenonT(60) DEF ToSet
  <2>2. ToSet(p) \subseteq ToSet(q)
    BY <1>4 DEF ToSet
  <2>3. Head(q) \in ToSet(q)
    BY <1>2, <1>3 DEF ToSet
  <2> QED BY <2>1, <2>2, <2>3
<1> QED BY <1>1, <1>2, <1>4, <1>6

\* What a tail has up to a place is what the queue has up to the next, but its head.
LEMMA TakeShifts ==
    ASSUME NEW q \in Seq(Items), q # <<>>, NEW p, p = Tail(q), NEW i \in DOMAIN p
    PROVE  /\ Cardinality(UpTo(p, i)) <= Cardinality(UpTo(q, i + 1))
           /\ Head(q) # "wakeup" =>
                 Cardinality(UpTo(p, i)) + 1 <= Cardinality(UpTo(q, i + 1))
<1>1. /\ p \in Seq(Items) /\ Head(q) = q[1] /\ DOMAIN q = 1..Len(q)
      /\ \A k \in DOMAIN p : k + 1 \in DOMAIN q /\ k \in Nat \ {0} /\ p[k] = q[k + 1]
  BY TakeProperties
<1> DEFINE U == UpTo(q, i + 1)
           V == UpTo(p, i)
           W == {j + 1 : j \in V}
           f == [j \in W |-> j - 1]
<1>2. \A j \in V : j \in DOMAIN p /\ p[j] # "wakeup" /\ j <= i /\ j \in Nat \ {0}
  BY <1>1 DEF UpTo, RealIn
<1>3. W \subseteq U \ {1}
  <2> SUFFICES ASSUME NEW j \in V PROVE j + 1 \in U \ {1}
    OBVIOUS
  <2>1. j \in DOMAIN p /\ p[j] # "wakeup" /\ j <= i /\ j \in Nat \ {0}
    BY <1>2
  <2>2. j + 1 \in DOMAIN q /\ q[j + 1] # "wakeup" /\ j + 1 # 1
    BY <1>1, <2>1
  <2>3. i \in Nat
    BY <1>1
  <2>4. j + 1 <= i + 1
    BY <2>1, <2>3
  <2> QED BY <2>2, <2>4 DEF UpTo, RealIn
<1>4. f \in Surjection(W, V)
  <2>1. \A j \in W : f[j] \in V
    BY <1>2
  <2>2. \A t \in V : \E s \in W : f[s] = t
    <3> SUFFICES ASSUME NEW t \in V PROVE \E s \in W : f[s] = t
      OBVIOUS
    <3>1. t \in Nat /\ t + 1 \in W
      BY <1>2
    <3>2. f[t + 1] = t + 1 - 1
      BY <3>1
    <3>3. f[t + 1] = t
      BY <3>1, <3>2
    <3> HIDE DEF f, W, V
    <3> QED BY <3>1, <3>3
  <2>3. f \in [W -> V]
    BY <2>1
  <2> HIDE DEF f, W, V
  <2> QED BY <2>2, <2>3, SMT DEF Surjection
<1>5. IsFiniteSet(U) /\ Cardinality(U) \in Nat /\ IsFiniteSet(V) /\ Cardinality(V) \in Nat
  BY <1>1, UpToFinite
<1>6. IsFiniteSet(U \ {1})
      /\ Cardinality(U \ {1}) = IF 1 \in U THEN Cardinality(U) - 1 ELSE Cardinality(U)
  BY <1>5, FS_RemoveElement
<1> HIDE DEF U, V, W, f
<1>7. IsFiniteSet(W) /\ Cardinality(W) <= Cardinality(U \ {1})
  BY <1>3, <1>6, FS_Subset
<1>8. Cardinality(V) <= Cardinality(W)
  BY <1>4, <1>7, FS_Surjection
<1>9. Cardinality(W) \in Nat
  BY <1>7, FS_CardinalityType
<1>10. Head(q) # "wakeup" => 1 \in U
  <2>1. i \in Nat /\ i + 1 \in DOMAIN q
    BY <1>1
  <2>2. 1 \in DOMAIN q /\ 1 <= i + 1
    BY <1>1, <2>1
  <2> QED BY <1>1, <2>2 DEF U, UpTo, RealIn
<1>11. Cardinality(V) <= Cardinality(U) /\ (1 \in U => Cardinality(V) + 1 <= Cardinality(U))
  BY <1>5, <1>6, <1>7, <1>8, <1>9
<1> QED BY <1>10, <1>11 DEF U, V
-----------------------------------------------------------------------------
LEMMA MinOfTwo ==
    ASSUME NEW a \in Int, NEW b \in Int, NEW S \in SUBSET {a, b}, S # {}
    PROVE  Min(S) \in S /\ \A y \in S : Min(S) <= y
<1>1. \E x \in S : \A y \in S : x <= y
  <2>1. CASE a \in S /\ (b \notin S \/ a <= b)
    BY <2>1
  <2>2. CASE b \in S /\ (a \notin S \/ b <= a)
    BY <2>2
  <2>3. a \in S \/ b \in S
    OBVIOUS
  <2>4. a <= b \/ b <= a
    OBVIOUS
  <2> QED BY <2>1, <2>2, <2>3, <2>4, Zenon
<1> QED BY <1>1 DEF Min

LEMMA HintFacts ==
    ASSUME IntakeTypeOK, NEW m \in Methods
    PROVE  /\ Hint(m) \in {Free, Never} \union 1..Wait
           /\ HeldBy(m) <=> Hint(m) # Free
           /\ HeldBy(m) /\ m \notin held => Hint(m) = wait[m]
           /\ wait[m] \in 0..Wait
BY IntakeNumbers DEF IntakeTypeOK, Hint, HeldBy

LEMMA BoxFacts ==
    ASSUME IntakeTypeOK
    PROVE  /\ getting \subseteq Begun /\ Begun \subseteq Entries
           /\ due \subseteq Entries
           /\ (due \ AccountBegun) \subseteq Entries \ Begun
           /\ BlockedNow \in [Methods -> Span]
           /\ Boundaries \subseteq Span \ {Free}
           /\ Delay \in {Never} \union 0..Wait
           /\ ~intake_due /\ Begun # {} =>
                 \A m \in Methods : BlockedNow[m] # Free => Delay <= BlockedNow[m]
           /\ ~intake_due /\ Begun # {} /\ Delay = 0 =>
                 \/ \A m \in Methods : BlockedNow[m] = Free
                 \/ \E m \in Methods : BlockedNow[m] = 0
<1>1. getting \subseteq Begun /\ Begun \subseteq Entries /\ due \subseteq Entries
      /\ (due \ AccountBegun) \subseteq Entries \ Begun
  BY DEF IntakeTypeOK, Begun, AccountBegun
<1>2. BlockedNow \in [Methods -> Span]
  <2>1. \A m \in Methods : Hint(m) \in Span /\ blocked[m] \in Span
    BY HintFacts, IntakeNumbers DEF IntakeTypeOK, Span
  <2> QED BY <2>1 DEF BlockedNow
<1> DEFINE a == BlockedNow["difference"]
           b == BlockedNow["channelDifference"]
<1>3. a \in Span /\ b \in Span /\ Boundaries = {a, b} \ {Free}
  BY <1>2, IntakeNumbers DEF Boundaries
<1>4. Boundaries \subseteq Span \ {Free}
  BY <1>3
<1>5. a \in Int /\ b \in Int
  BY <1>3, IntakeNumbers DEF Span
<1>6. Boundaries # {} => Min(Boundaries) \in Boundaries /\ \A y \in Boundaries : Min(Boundaries) <= y
  <2> HIDE DEF a, b
  <2> QED BY <1>3, <1>5, MinOfTwo
<1>7. Delay \in {Never} \union 0..Wait
  <2>1. Delay \in {Never, 0} \union Boundaries
    BY <1>6 DEF Delay
  <2> HIDE DEF a, b
  <2> QED BY <1>4, <2>1, IntakeNumbers DEF Span
<1>8. ASSUME ~intake_due, Begun # {}
      PROVE  Delay = IF Boundaries = {} THEN 0 ELSE Min(Boundaries)
  BY <1>8 DEF Delay
<1>9. ASSUME NEW m \in Methods, BlockedNow[m] # Free
      PROVE  BlockedNow[m] \in Boundaries
  BY <1>9 DEF Boundaries
<1>10. ~intake_due /\ Begun # {} =>
          \A m \in Methods : BlockedNow[m] # Free => Delay <= BlockedNow[m]
  BY <1>6, <1>8, <1>9
<1>11. ~intake_due /\ Begun # {} /\ Delay = 0 =>
          \/ \A m \in Methods : BlockedNow[m] = Free
          \/ \E m \in Methods : BlockedNow[m] = 0
  BY <1>6, <1>8, <1>9 DEF Boundaries
<1> QED BY <1>1, <1>2, <1>4, <1>7, <1>10, <1>11

\* A method that is shown a hint has a gap among the differences begun.
LEMMA NowHasGap ==
    ASSUME IntakeTypeOK, HintHasGap
    PROVE  \A m \in Methods : BlockedNow[m] # Free => \E x \in Begun : Method(x) = m
<1> SUFFICES ASSUME NEW m \in Methods, BlockedNow[m] # Free
             PROVE  \E x \in Begun : Method(x) = m
  OBVIOUS
<1>1. CASE Asked(m)
  BY <1>1 DEF Asked
<1>2. CASE ~Asked(m)
  <2>1. blocked[m] # Free
    BY <1>2 DEF BlockedNow
  <2> QED BY <2>1, BoxFacts DEF HintHasGap
<1> QED BY <1>1, <1>2

\* Every difference that is begun while the loop withholds is held by the gate.
LEMMA WithheldIsHeld ==
    ASSUME IntakeTypeOK, Withheld, ~intake_due, NEW x \in Begun
    PROVE  /\ HeldBy(Method(x))
           /\ BlockedNow[Method(x)] = Hint(Method(x))
<1>1. Method(x) \in Methods /\ Asked(Method(x))
  BY IntakeNumbers DEF Asked
<1>2. ~Granted("difference") /\ (Asked("channelDifference") => AskedChannels)
  BY DEF Withheld, AskedChannels
<1>3. CASE Method(x) = "difference"
  BY <1>1, <1>2, <1>3 DEF Granted, BlockedNow
<1>4. CASE Method(x) = "channelDifference"
  <2>1. AskedChannels /\ ~Granted("channelDifference")
    BY <1>1, <1>2, <1>4 DEF Withheld
  <2> QED BY <1>1, <1>4, <2>1 DEF Granted, BlockedNow
<1> QED BY <1>1, <1>3, <1>4 DEF Methods

-----------------------------------------------------------------------------
(* Types *)

LEMMA PutTyped ==
    ASSUME IntakeTypeOK, NEW e \in Items, put_nowait(e)
    PROVE  queue' \in Seq(Items)
BY PutProperties DEF put_nowait, IntakeTypeOK, Items

LEMMA NotifyTyped ==
    ASSUME IntakeTypeOK, Notify
    PROVE  queue' \in Seq(Items) /\ wakeup_queued' \in BOOLEAN
BY PutTyped DEF Notify, IntakeTypeOK, Items

LEMMA TurnIsTyped ==
    ASSUME IntakeTypeOK, Turn
    PROVE  IntakeTypeOK'
<1> USE DEF Items, Span
<1>1. CASE get_difference
  <2>1. turning' \in [at : {"turn", "asleep", "process", "calling", "claimed", "paused"},
                   entry : Entries \union Envelopes \union {"wakeup"},
                   until : {Never} \union 0..Wait]
    BY <1>1 DEF get_difference, At, Entries
  <2>2. blocked' \in [Methods -> {Free, Never} \union 0..Wait]
    BY <1>1 DEF get_difference, IntakeTypeOK
  <2> QED BY <1>1, <2>1, <2>2, BoxFacts DEF get_difference, IntakeTypeOK, gate
<1>2. CASE get_channel_difference
  <2>1. turning' \in [at : {"turn", "asleep", "process", "calling", "claimed", "paused"},
                   entry : Entries \union Envelopes \union {"wakeup"},
                   until : {Never} \union 0..Wait]
    BY <1>2 DEF get_channel_difference, At, Entries
  <2> QED BY <1>2, <2>1, BoxFacts DEF get_channel_difference, IntakeTypeOK, gate
<1>3. ASSUME check_deadlines
      PROVE  /\ getting' \subseteq Entries /\ due' \subseteq Entries \ getting'
             /\ blocked' \in [Methods -> {Free, Never} \union 0..Wait]
  BY <1>3, BoxFacts DEF check_deadlines
<1>4. CASE TurnAgain
  BY <1>3, <1>4 DEF TurnAgain, IntakeTypeOK, gate
<1>5. CASE get_nowait
  <2>1. queue' \in Seq(Items) /\ Head(queue) \in Items
    BY <1>5, TakeProperties DEF get_nowait, IntakeTypeOK
  <2>2. turning' \in [at : {"turn", "asleep", "process", "calling", "claimed", "paused"},
                   entry : Entries \union Envelopes \union {"wakeup"},
                   until : {Never} \union 0..Wait]
    BY <1>5, <2>1 DEF get_nowait, At
  <2>3. difference_credit' \in BOOLEAN /\ remaining' \in {Free} \union Nat
    <3>1. CASE Head(queue) = "wakeup"
      BY <1>5, <3>1 DEF get_nowait, IntakeTypeOK
    <3>2. CASE Head(queue) # "wakeup"
      <4>1. real_dequeued
        BY <1>5, <3>2 DEF get_nowait
      <4>2. Cardinality(RealIn(queue)) \in Nat
        BY UpToFinite DEF IntakeTypeOK
      <4>3. CASE difference_credit
        BY <4>1, <4>3 DEF real_dequeued, IntakeTypeOK
      <4>4. CASE ~difference_credit
        <5>1. difference_credit' = (remaining' = 0)
          BY <4>1, <4>4 DEF real_dequeued
        <5>2. difference_credit' \in BOOLEAN
          BY <5>1, Zenon
        <5>3. remaining' = (IF remaining = Free THEN Cardinality(RealIn(queue)) ELSE remaining) - 1
          BY <4>1, <4>4 DEF real_dequeued
        <5>4. remaining = Free \/ remaining \in Nat
          BY DEF IntakeTypeOK
        <5>5. remaining' \in {Free} \union Nat
          BY <4>2, <5>3, <5>4, IntakeNumbers
        <5> QED BY <5>2, <5>5
      <4> QED BY <4>3, <4>4
    <3> QED BY <3>1, <3>2
  <2>4. seen' \in [Envelopes -> 0..2]
    BY <1>5 DEF get_nowait, IntakeTypeOK
  <2> QED BY <1>3, <1>5, <2>1, <2>2, <2>3, <2>4 DEF get_nowait, IntakeTypeOK, gate
<1>6. CASE Sleep
  <2>1. turning' \in [at : {"turn", "asleep", "process", "calling", "claimed", "paused"},
                   entry : Entries \union Envelopes \union {"wakeup"},
                   until : {Never} \union 0..Wait]
    BY <1>6, BoxFacts DEF Sleep, At, Entries
  <2> QED BY <1>3, <1>6, <2>1 DEF Sleep, IntakeTypeOK, gate
<1> QED BY <1>1, <1>2, <1>4, <1>5, <1>6 DEF Turn

LEMMA OtherIsTyped ==
    ASSUME IntakeTypeOK,
           \/ Wake \/ process_updates \/ Deferred \/ Claim \/ Postponed \/ Resume
           \/ AccessLost \/ Answered \/ Flooded
    PROVE  IntakeTypeOK'
<1> USE DEF Items, Span
<1> DEFINE Places == {"turn", "asleep", "process", "calling", "claimed", "paused"}
           Loops == [at : Places, entry : Entries \union Items, until : {Never} \union 0..Wait]
<1>1. \A where \in Places : At(where, Account) \in Loops
  BY DEF At, Entries
<1>2. Turning \in Loops
  BY <1>1 DEF Turning
<1>3. CASE Wake
  BY <1>2, <1>3 DEF Wake, IntakeTypeOK, box, gate
<1>4. CASE process_updates
  <2>1. getting' \subseteq Entries /\ due' \subseteq Entries \ getting' /\ wakeup_queued' \in BOOLEAN
    BY <1>4 DEF process_updates, IntakeTypeOK
  <2> QED BY <1>2, <1>4, <2>1 DEF process_updates, IntakeTypeOK, gate
<1>5. CASE Deferred
  <2>1. Method(turning.entry) \in Methods
    BY IntakeNumbers
  <2>2. (IF HeldBy(Method(turning.entry)) THEN Hint(Method(turning.entry)) ELSE Never) \in Span
    BY <2>1, HintFacts, IntakeNumbers
  <2>3. blocked' \in [Methods -> Span]
    BY <1>5, <2>2 DEF Deferred, preserve_deferred, IntakeTypeOK
  <2> QED BY <1>2, <1>5, <2>3 DEF Deferred, preserve_deferred, IntakeTypeOK, gate
<1>6. CASE Claim
  <2>1. turning' \in Loops
    BY <1>6 DEF Claim, IntakeTypeOK
  <2>2. seen' \in [Envelopes -> 0..2]
    <3>1. \A e \in Envelopes : Min({seen[e] + 1, 2}) \in 0..2
      <4> SUFFICES ASSUME NEW e \in Envelopes PROVE Min({seen[e] + 1, 2}) \in 0..2
        OBVIOUS
      <4> DEFINE s == seen[e] + 1
                 S == {s, 2}
      <4>1. s \in 1..3
        BY DEF IntakeTypeOK
      <4>2. S \in SUBSET {s, 2} /\ S # {} /\ 2 \in S
        OBVIOUS
      <4>3. Min(S) \in S /\ Min(S) <= 2
        <5>1. s \in Int /\ 2 \in Int
          BY <4>1
        <5>2. Min(S) \in S /\ \A y \in S : Min(S) <= y
          <6> HIDE DEF s, S
          <6> QED BY <4>2, <5>1, MinOfTwo
        <5> HIDE DEF s, S
        <5> QED BY <4>2, <5>2
      <4> HIDE DEF s
      <4>4. Min(S) \in 0..2
        BY <4>1, <4>3
      <4> QED BY <4>4 DEF s
    <3> QED BY <1>6, <3>1 DEF Claim
  <2>3. difference_credit' = FALSE /\ remaining' = Free
    BY <1>6 DEF Claim, difference_claimed
  <2>4. UNCHANGED <<queue, wakeup_queued, getting, due, blocked, wait, held, holds>>
    BY <1>6 DEF Claim, gate
  <2> QED BY <2>1, <2>2, <2>3, <2>4 DEF IntakeTypeOK
<1>7. CASE Postponed
  BY <1>1, <1>7 DEF Postponed, IntakeTypeOK, box, gate
<1>8. CASE Resume
  BY <1>2, <1>8 DEF Resume, IntakeTypeOK, box, gate
<1>9. CASE AccessLost
  BY <1>2, <1>9 DEF AccessLost, IntakeTypeOK, gate
<1>10. CASE Answered
  <2>1. getting' \subseteq getting
    BY <1>10 DEF Answered
  <2> QED BY <1>2, <1>10, <2>1 DEF Answered, IntakeTypeOK, gate
<1>11. CASE Flooded
  <2>1. queue' \in Seq(Items) /\ wakeup_queued' \in BOOLEAN
    BY <1>11, NotifyTyped DEF Flooded
  <2>2. wait' \in [Methods -> 0..Wait]
    BY <1>11, IntakeNumbers DEF Flooded, IntakeTypeOK
  <2>3. blocked' \in [Methods -> Span] /\ getting' = getting
    BY <1>11 DEF Flooded, preserve_deferred, IntakeTypeOK
  <2>4. holds' \in 0..MaxHolds
    BY <1>11, IntakeAssumption DEF IntakeAssumption, Flooded, IntakeTypeOK
  <2> QED BY <1>2, <1>11, <2>1, <2>2, <2>3, <2>4 DEF Flooded, IntakeTypeOK
<1> QED BY <1>3, <1>4, <1>5, <1>6, <1>7, <1>8, <1>9, <1>10, <1>11

LEMMA AroundIsTyped ==
    ASSUME IntakeTypeOK,
           \/ \E m \in Methods : Hold(m) \/ Release(m)
           \/ Cooldown \/ (\E e \in Envelopes : Arrive(e)) \/ (\E x \in Entries : Elapse(x)) \/ Tick
    PROVE  IntakeTypeOK'
<1> USE DEF Items, Span
<1>1. ASSUME NEW m \in Methods, Hold(m) PROVE IntakeTypeOK'
  <2>1. queue' \in Seq(Items) /\ wakeup_queued' \in BOOLEAN
    BY <1>1, NotifyTyped DEF Hold
  <2>2. holds' \in 0..MaxHolds /\ held' \subseteq Methods
    BY <1>1, IntakeAssumption DEF IntakeAssumption, Hold, IntakeTypeOK
  <2> QED BY <1>1, <2>1, <2>2 DEF Hold, IntakeTypeOK, box
<1>2. ASSUME NEW m \in Methods, Release(m) PROVE IntakeTypeOK'
  <2>1. queue' \in Seq(Items) /\ wakeup_queued' \in BOOLEAN
    BY <1>2, NotifyTyped DEF Release
  <2> QED BY <1>2, <2>1 DEF Release, IntakeTypeOK, box
<1>3. CASE Cooldown
  <2>1. holds' \in 0..MaxHolds
    BY <1>3, IntakeAssumption DEF IntakeAssumption, Cooldown, IntakeTypeOK
  <2>2. wait' \in [Methods -> 0..Wait]
    BY <1>3, IntakeNumbers DEF Cooldown
  <2> QED BY <1>3, <2>1, <2>2 DEF Cooldown, IntakeTypeOK, box
<1>4. ASSUME NEW e \in Envelopes, Arrive(e) PROVE IntakeTypeOK'
  BY <1>4, PutTyped DEF Arrive, IntakeTypeOK, box, gate
<1>5. ASSUME NEW x \in Entries, Elapse(x) PROVE IntakeTypeOK'
  BY <1>5 DEF Elapse, IntakeTypeOK, gate
<1>6. CASE Tick
  <2>1. \A m \in Methods : Down(wait[m]) \in 0..Wait /\ Down(blocked[m]) \in Span
    BY IntakeNumbers, SMTT(40) DEF Down, IntakeTypeOK
  <2>2. Down(turning.until) \in {Never} \union 0..Wait
    BY IntakeNumbers DEF Down, IntakeTypeOK
  <2>3. turning' = [turning EXCEPT !.until = Down(turning.until)]
    BY <1>6 DEF Tick
  <2>4. turning' \in [at : {"turn", "asleep", "process", "calling", "claimed", "paused"},
                   entry : Entries \union Envelopes \union {"wakeup"},
                   until : {Never} \union 0..Wait]
    BY <2>2, <2>3 DEF IntakeTypeOK
  <2>5. wait' \in [Methods -> 0..Wait] /\ blocked' \in [Methods -> Span]
    BY <1>6, <2>1 DEF Tick
  <2> QED BY <1>6, <2>4, <2>5 DEF Tick, IntakeTypeOK
<1> QED BY <1>1, <1>2, <1>3, <1>4, <1>5, <1>6

LEMMA IntakeStepTyped == IntakeTypeOK /\ [IntakeNext]_intakeVars => IntakeTypeOK'
<1>1. ASSUME IntakeTypeOK, UNCHANGED intakeVars PROVE IntakeTypeOK'
  BY <1>1 DEF IntakeTypeOK, intakeVars, box, gate
<1>2. IntakeTypeOK /\ IntakeNext => IntakeTypeOK'
  BY TurnIsTyped, OtherIsTyped, AroundIsTyped DEF IntakeNext
<1> QED BY <1>1, <1>2

-----------------------------------------------------------------------------
(* Gaps and hints *)

\* What keeps gaps and hints: the loop, the gaps and the hints that are there.
LEMMA GapsStay ==
    ASSUME CallHasGap, HintHasGap, UNCHANGED <<turning, getting, blocked>>
    PROVE  CallHasGap' /\ HintHasGap'
BY DEF CallHasGap, HintHasGap, Method

LEMMA CallStarts ==
    ASSUME NEW x, turning' = At("calling", x), x \in getting', blocked'[Method(x)] = Free
    PROVE  CallHasGap'
BY DEF CallHasGap, At, Method

LEMMA NoCall ==
    ASSUME turning'.at \notin {"calling", "claimed"}
    PROVE  CallHasGap'
BY DEF CallHasGap

\* Where the hints are those of this turn and the gaps those it began.
LEMMA HintsOfTurn ==
    ASSUME IntakeTypeOK, HintHasGap,
           \A m \in Methods : blocked'[m] \in {Free, BlockedNow[m]},
           Begun \subseteq getting'
    PROVE  HintHasGap'
<1>1. \A m \in Methods : BlockedNow[m] # Free => \E x \in Begun : Method(x) = m
  BY NowHasGap
<1>2. ASSUME NEW m \in Methods, blocked'[m] # Free
      PROVE  \E x \in getting' : Method(x) = m
  BY <1>1, <1>2
<1> QED BY <1>2 DEF HintHasGap, Method

LEMMA DeadlinesKeepHints ==
    ASSUME IntakeTypeOK, HintHasGap, check_deadlines
    PROVE  HintHasGap'
<1>1. Begun \subseteq getting'
  BY DEF check_deadlines
<1> QED BY <1>1, HintsOfTurn DEF check_deadlines

LEMMA StepKeepsGaps ==
    ASSUME IntakeTypeOK, CallHasGap, HintHasGap, IntakeNext
    PROVE  CallHasGap' /\ HintHasGap'
<1>1. CASE get_difference
  <2>1. Account \in Begun /\ turning' = At("calling", Account) /\ getting' = Begun
        /\ blocked' = [blocked EXCEPT !["difference"] = Free]
    <3>1. Asked("difference")
      BY <1>1 DEF get_difference, Granted
    <3>2. PICK x \in Begun : Method(x) = "difference"
      BY <3>1 DEF Asked
    <3>3. x = Account
      BY <3>2 DEF Method
    <3> QED BY <1>1, <3>2, <3>3 DEF get_difference
  <2>2. blocked'["difference"] = Free /\ \A m \in Methods : m # "difference" => blocked'[m] = blocked[m]
    BY <2>1, IntakeNumbers DEF IntakeTypeOK
  <2>3. CallHasGap'
    BY <2>1, <2>2, IntakeNumbers, CallStarts
  <2>4. ASSUME NEW m \in Methods, blocked'[m] # Free PROVE \E x \in getting' : Method(x) = m
    <3>1. blocked[m] # Free
      BY <2>2, <2>4
    <3>2. getting \subseteq getting'
      BY <2>1 DEF Begun
    <3> QED BY <3>1, <3>2 DEF HintHasGap
  <2>5. HintHasGap'
    BY <2>4 DEF HintHasGap, Method
  <2> QED BY <2>3, <2>5
<1>2. CASE get_channel_difference
  <2>1. PICK c \in Channels \intersect getting : turning' = At("calling", c)
    BY <1>2 DEF get_channel_difference
  <2>2. getting' = Begun /\ blocked' = BlockedNow
    BY <1>2 DEF get_channel_difference
  <2>3. BlockedNow["channelDifference"] = Free
    <3>1. AskedChannels /\ Granted("channelDifference") /\ "channelDifference" \in Methods
      BY <1>2, IntakeNumbers DEF get_channel_difference
    <3>2. Hint("channelDifference") = Free
      BY <3>1, HintFacts DEF Granted
    <3> QED BY <3>1, <3>2 DEF BlockedNow, Granted
  <2>4. CallHasGap'
    BY <2>1, <2>2, <2>3, IntakeNumbers, CallStarts DEF Begun
  <2>5. HintHasGap'
    BY <2>2, HintsOfTurn
  <2> QED BY <2>4, <2>5
<1>3. CASE TurnAgain
  BY <1>3, NoCall, DeadlinesKeepHints DEF TurnAgain
<1>4. CASE get_nowait
  BY <1>4, NoCall, DeadlinesKeepHints DEF get_nowait, At
<1>5. CASE Sleep
  <2>1. turning'.at = "asleep"
    BY <1>5 DEF Sleep, At
  <2> QED BY <1>5, <2>1, NoCall, DeadlinesKeepHints DEF Sleep
<1> DEFINE MoreGaps == getting \subseteq getting' /\ blocked' = blocked
<1>6. ASSUME MoreGaps PROVE HintHasGap'
  BY <1>6 DEF HintHasGap, Method
<1>7. CASE Wake \/ process_updates \/ Resume \/ Postponed
  <2>1. turning'.at \in {"turn", "paused"}
    BY <1>7 DEF Wake, process_updates, Resume, Postponed, Turning, At
  <2>2. MoreGaps
    BY <1>7 DEF Wake, process_updates, Resume, Postponed, box
  <2> QED BY <1>6, <2>1, <2>2, NoCall
<1>8. ASSUME NEW hint, preserve_deferred(hint), turning.at \in {"calling", "claimed"}
      PROVE  HintHasGap'
  <2>1. ASSUME NEW m \in Methods, blocked'[m] # Free PROVE \E x \in getting' : Method(x) = m
    <3>1. getting' = getting /\ turning.entry \in getting
      BY <1>8 DEF preserve_deferred, CallHasGap
    <3>2. CASE m = Method(turning.entry)
      BY <3>1, <3>2
    <3>3. CASE m # Method(turning.entry)
      <4>1. blocked[m] # Free
        BY <1>8, <2>1, <3>3 DEF preserve_deferred, IntakeTypeOK
      <4> QED BY <3>1, <4>1 DEF HintHasGap
    <3> QED BY <3>2, <3>3
  <2> QED BY <2>1 DEF HintHasGap, Method
<1>9. CASE Deferred
  <2>1. turning'.at = "turn"
    BY <1>9 DEF Deferred, Turning, At
  <2>2. HintHasGap'
    BY <1>8, <1>9 DEF Deferred
  <2> QED BY <2>1, <2>2, NoCall
<1>10. CASE Flooded
  <2>1. turning'.at = "turn"
    BY <1>10 DEF Flooded, Turning, At
  <2>2. HintHasGap'
    BY <1>8, <1>10 DEF Flooded
  <2> QED BY <2>1, <2>2, NoCall
<1>11. CASE Claim
  <2>1. MoreGaps /\ turning'.entry = turning.entry /\ turning.at = "calling"
    BY <1>11 DEF Claim, IntakeTypeOK
  <2>2. CallHasGap'
    BY <2>1 DEF CallHasGap, Method
  <2> QED BY <1>6, <2>1, <2>2
<1>12. CASE AccessLost \/ Answered
  <2>1. /\ turning.at \in {"calling", "claimed"} /\ turning'.at = "turn" /\ blocked' = blocked
        /\ getting \ {turning.entry} \subseteq getting'
    BY <1>12 DEF AccessLost, Answered, Turning, At
  <2>2. ASSUME NEW m \in Methods, blocked'[m] # Free PROVE \E x \in getting' : Method(x) = m
    <3>1. PICK x \in getting : Method(x) = m
      BY <2>1, <2>2 DEF HintHasGap
    <3>2. x # turning.entry
      BY <2>1, <2>2, <3>1 DEF CallHasGap
    <3> QED BY <2>1, <3>1, <3>2
  <2>3. HintHasGap'
    BY <2>2 DEF HintHasGap, Method
  <2> QED BY <2>1, <2>3, NoCall
<1>13. CASE \/ \E m \in Methods : Hold(m) \/ Release(m)
            \/ Cooldown \/ (\E e \in Envelopes : Arrive(e)) \/ (\E x \in Entries : Elapse(x))
  <2>1. UNCHANGED <<turning, getting, blocked>>
    BY <1>13 DEF Hold, Release, Cooldown, Arrive, Elapse, box
  <2> QED BY <2>1, GapsStay
<1>14. CASE Tick
  <2>1. /\ turning'.at = turning.at /\ turning'.entry = turning.entry /\ getting' = getting
        /\ blocked' = [m \in Methods |-> Down(blocked[m])]
    BY <1>14 DEF Tick, IntakeTypeOK
  <2>2. \A m \in Methods : blocked'[m] = Free <=> blocked[m] = Free
    BY <2>1, IntakeNumbers DEF Down, IntakeTypeOK
  <2>3. CallHasGap'
    BY <2>1, <2>2, IntakeNumbers DEF CallHasGap, Method
  <2>4. HintHasGap'
    BY <2>1, <2>2 DEF HintHasGap, Method
  <2> QED BY <2>3, <2>4
<1> QED
  BY <1>1, <1>2, <1>3, <1>4, <1>5, <1>7, <1>9, <1>10, <1>11, <1>12, <1>13, <1>14
  DEF IntakeNext, Turn

-----------------------------------------------------------------------------
(* Sentinels and sleep *)

\* Telling the box leaves a sentinel in the queue.
LEMMA NotifyWakes ==
    ASSUME IntakeTypeOK, WakeupIsQueued, Notify
    PROVE  /\ \/ "wakeup" \in ToSet(queue')
              \/ turning.at = "process" /\ turning.entry = "wakeup"
           /\ turning.at # "process" => queue' # <<>>
<1>1. CASE wakeup_queued
  <2>1. queue' = queue
    BY <1>1 DEF Notify
  <2>2. "wakeup" \in ToSet(queue) => queue # <<>>
    BY DEF ToSet
  <2> QED BY <1>1, <2>1, <2>2 DEF WakeupIsQueued
<1>2. CASE ~wakeup_queued
  <2>1. queue' = Append(queue, "wakeup") /\ queue \in Seq(Items) /\ "wakeup" \in Items
    BY <1>2 DEF Notify, put_nowait, IntakeTypeOK, Items
  <2>2. ToSet(queue') = ToSet(queue) \union {"wakeup"} /\ queue' # <<>>
    BY <2>1, PutProperties
  <2> QED BY <2>2
<1> QED BY <1>1, <1>2

LEMMA WakeupStays ==
    ASSUME WakeupIsQueued, wakeup_queued' = wakeup_queued, "wakeup" \in ToSet(queue) => "wakeup" \in ToSet(queue'),
           turning.at = "process" => turning'.at = "process" /\ turning'.entry = turning.entry
    PROVE  WakeupIsQueued'
BY DEF WakeupIsQueued

LEMMA StepKeepsWakeup ==
    ASSUME IntakeTypeOK, WakeupIsQueued, IntakeNext
    PROVE  WakeupIsQueued'
<1>1. CASE get_difference \/ get_channel_difference \/ TurnAgain \/ Sleep
  <2>1. UNCHANGED <<queue, wakeup_queued>> /\ turning.at = "turn"
    BY <1>1 DEF get_difference, get_channel_difference, TurnAgain, Sleep
  <2> QED BY <2>1, WakeupStays
<1>2. CASE get_nowait
  <2>1. /\ queue \in Seq(Items) /\ queue # <<>> /\ queue' = Tail(queue)
        /\ turning' = At("process", Head(queue)) /\ wakeup_queued' = wakeup_queued
        /\ turning.at = "turn"
    BY <1>2 DEF get_nowait, IntakeTypeOK, Items
  <2>2. ToSet(queue) = ToSet(queue') \union {Head(queue)}
    BY <2>1, TakeProperties
  <2>3. turning'.at = "process" /\ turning'.entry = Head(queue)
    BY <2>1 DEF At
  <2> QED BY <2>1, <2>2, <2>3 DEF WakeupIsQueued
<1>3. CASE process_updates
  <2>1. queue' = queue
    BY <1>3 DEF process_updates
  <2>2. CASE turning.entry = "wakeup"
    BY <1>3, <2>2 DEF process_updates, WakeupIsQueued
  <2>3. CASE turning.entry # "wakeup"
    BY <1>3, <2>1, <2>3 DEF process_updates, WakeupIsQueued
  <2> QED BY <2>2, <2>3
<1>4. CASE Wake \/ Deferred \/ Claim \/ Postponed \/ Resume \/ AccessLost \/ Answered
  <2>1. UNCHANGED <<queue, wakeup_queued>> /\ turning.at # "process"
    BY <1>4 DEF Wake, Deferred, Claim, Postponed, Resume, AccessLost, Answered
  <2> QED BY <2>1, WakeupStays
<1>5. CASE Flooded
  <2>1. Notify /\ turning.at = "claimed"
    BY <1>5 DEF Flooded
  <2> QED BY <2>1, NotifyWakes DEF WakeupIsQueued
<1>6. CASE \E m \in Methods : Hold(m) \/ Release(m)
  <2>1. Notify /\ turning' = turning
    BY <1>6 DEF Hold, Release
  <2> QED BY <2>1, NotifyWakes DEF WakeupIsQueued
<1>7. ASSUME NEW e \in Envelopes, Arrive(e) PROVE WakeupIsQueued'
  <2>1. /\ queue' = Append(queue, e) /\ queue \in Seq(Items) /\ e \in Items
        /\ wakeup_queued' = wakeup_queued /\ turning' = turning
    BY <1>7 DEF Arrive, put_nowait, IntakeTypeOK, Items
  <2>2. ToSet(queue') = ToSet(queue) \union {e}
    BY <2>1, PutProperties
  <2> QED BY <2>1, <2>2, WakeupStays
<1>8. CASE Cooldown \/ (\E x \in Entries : Elapse(x)) \/ Tick
  <2>1. UNCHANGED <<queue, wakeup_queued>>
    BY <1>8 DEF Cooldown, Elapse, Tick
  <2>2. turning'.at = turning.at /\ turning'.entry = turning.entry
    BY <1>8 DEF Cooldown, Elapse, Tick, IntakeTypeOK
  <2> QED BY <2>1, <2>2, WakeupStays
<1> QED BY <1>1, <1>2, <1>3, <1>4, <1>5, <1>6, <1>7, <1>8 DEF IntakeNext, Turn

LEMMA Awake ==
    ASSUME turning'.at # "asleep" \/ queue' # <<>>
    PROVE  SleepIsJustified'
BY DEF SleepIsJustified

LEMMA StepKeepsSleep ==
    ASSUME IntakeTypeOK, HintHasGap, WakeupIsQueued, SleepIsJustified, IntakeNext
    PROVE  SleepIsJustified'
<1>1. CASE \/ get_difference \/ get_channel_difference \/ get_nowait
           \/ Wake \/ process_updates \/ Deferred \/ Claim \/ Postponed \/ Resume
           \/ AccessLost \/ Answered \/ Flooded
  <2>1. CASE get_difference \/ get_channel_difference \/ get_nowait
    BY <2>1, Awake DEF get_difference, get_channel_difference, get_nowait, At
  <2>2. CASE Claim
    BY <2>2, Awake DEF Claim, IntakeTypeOK
  <2>3. CASE \/ Wake \/ process_updates \/ Deferred \/ Postponed \/ Resume
             \/ AccessLost \/ Answered \/ Flooded
    BY <2>3, Awake DEF Wake, process_updates, Deferred, Postponed, Resume, AccessLost,
                       Answered, Flooded, Turning, At
  <2> QED BY <1>1, <2>1, <2>2, <2>3
<1>2. CASE TurnAgain
  BY <1>2, Awake DEF TurnAgain
<1>3. CASE Sleep
  <2>1. queue = <<>> /\ Withheld /\ Delay > 0 /\ check_deadlines /\ UNCHANGED <<held, wait>>
        /\ turning' = [At("asleep", Account) EXCEPT !.until = Delay]
    BY <1>3 DEF Sleep, gate
  <2>2. ~intake_due
    BY <2>1 DEF intake_due, RealIn
  <2>3. CASE Begun = {}
    <3>1. \A m \in Methods : BlockedNow[m] = Free
      BY <2>3, NowHasGap
    <3>2. Boundaries = {}
      BY <3>1 DEF Boundaries
    <3>3. due = {}
      BY <2>1, <2>2, <2>3, <3>2 DEF Delay
    <3>4. getting' = {}
      BY <2>1, <2>3, <3>3 DEF check_deadlines
    <3> QED BY <3>4 DEF SleepIsJustified
  <2>4. CASE Begun # {}
    <3>1. getting' = Begun /\ turning'.until = Delay
      BY <2>1, <2>4 DEF check_deadlines, At
    <3>2. ASSUME NEW x \in Begun
          PROVE  /\ HeldBy(Method(x))
                 /\ Method(x) \notin held => Delay <= wait[Method(x)]
      <4>1. HeldBy(Method(x)) /\ BlockedNow[Method(x)] = Hint(Method(x)) /\ Method(x) \in Methods
        BY <2>1, <2>2, WithheldIsHeld, IntakeNumbers
      <4>2. BlockedNow[Method(x)] # Free
        BY <4>1, HintFacts
      <4>3. Delay <= BlockedNow[Method(x)]
        BY <2>2, <2>4, <4>1, <4>2, BoxFacts
      <4>4. Method(x) \notin held => Hint(Method(x)) = wait[Method(x)]
        BY <4>1, HintFacts
      <4> QED BY <4>1, <4>3, <4>4
    <3> QED BY <2>1, <3>1, <3>2 DEF SleepIsJustified, HeldBy, Method
  <2> QED BY <2>3, <2>4
<1>4. CASE \E m \in Methods : Hold(m) \/ Release(m)
  <2>1. Notify /\ turning' = turning
    BY <1>4 DEF Hold, Release
  <2>2. turning.at = "asleep" => queue' # <<>>
    BY <2>1, NotifyWakes
  <2> QED BY <2>1, <2>2, Awake
<1>5. ASSUME NEW e \in Envelopes, Arrive(e) PROVE SleepIsJustified'
  <2>1. queue' = Append(queue, e) /\ queue \in Seq(Items) /\ e \in Items
    BY <1>5 DEF Arrive, put_nowait, IntakeTypeOK, Items
  <2>2. queue' # <<>>
    BY <2>1, PutProperties
  <2> QED BY <2>2, Awake
<1>6. ASSUME NEW x \in Entries, Elapse(x) PROVE SleepIsJustified'
  BY <1>6 DEF Elapse, gate, SleepIsJustified, HeldBy, Method
<1>7. CASE Cooldown
  <2>1. /\ UNCHANGED <<queue, held, turning, getting>>
        /\ wait' = [m \in Methods |-> Wait]
    BY <1>7 DEF Cooldown, box
  <2>2. SUFFICES ASSUME turning.at = "asleep", queue = <<>>, turning.until > 0, NEW x \in getting
                 PROVE  /\ wait'[Method(x)] > 0
                        /\ Method(x) \notin held => turning.until <= wait'[Method(x)]
    BY <2>1 DEF SleepIsJustified, HeldBy, Method
  <2>3. Method(x) \in Methods /\ wait'[Method(x)] = Wait
    BY <2>1, IntakeNumbers
  <2>4. Method(x) \notin held => turning.until <= wait[Method(x)]
    BY <2>2 DEF SleepIsJustified
  <2>5. wait[Method(x)] \in 0..Wait /\ turning.until \in {Never} \union 0..Wait
    BY <2>3 DEF IntakeTypeOK
  <2> QED BY <2>3, <2>4, <2>5, IntakeNumbers
<1>8. CASE Tick
  <2>1. /\ UNCHANGED <<queue, held, getting>> /\ turning'.at = turning.at
        /\ turning'.until = Down(turning.until)
        /\ wait' = [m \in Methods |-> Down(wait[m])]
    BY <1>8 DEF Tick, IntakeTypeOK
  <2>2. SUFFICES ASSUME turning.at = "asleep", queue = <<>>, Down(turning.until) > 0, NEW x \in getting
                 PROVE  Method(x) \notin held =>
                           /\ Down(wait[Method(x)]) > 0
                           /\ Down(turning.until) <= Down(wait[Method(x)])
    <3>1. \A x \in getting : wait'[Method(x)] = Down(wait[Method(x)])
      BY <2>1, IntakeNumbers
    <3> QED BY <2>1, <3>1 DEF SleepIsJustified, HeldBy, Method
  <2>3. Method(x) \in Methods /\ wait[Method(x)] \in 0..Wait /\ turning.until \in {Never} \union 0..Wait
    BY IntakeNumbers DEF IntakeTypeOK
  <2>4. turning.until > 0
    BY <2>2, <2>3, IntakeNumbers DEF Down
  <2>5. Method(x) \notin held => turning.until <= wait[Method(x)]
    BY <2>2, <2>4 DEF SleepIsJustified
  <2> QED BY <2>2, <2>3, <2>4, <2>5, IntakeNumbers DEF Down
<1> QED BY <1>1, <1>2, <1>3, <1>4, <1>5, <1>6, <1>7, <1>8 DEF IntakeNext, Turn

-----------------------------------------------------------------------------
(* The turns *)

Turns == CreditIsEarned /\ SeenStillWaits /\ SeenIsCounted

LEMMA TurnsStay ==
    ASSUME Turns, UNCHANGED <<queue, difference_credit, remaining, seen>>
    PROVE  Turns'
<1>1. \A i \in DOMAIN queue : InTurn(i)' <=> InTurn(i)
  BY DEF InTurn, UpTo, RealIn
<1>2. CreditIsEarned'
  BY DEF Turns, CreditIsEarned
<1>3. SeenStillWaits'
  BY DEF Turns, SeenStillWaits
<1>4. SeenIsCounted'
  BY <1>1 DEF Turns, SeenIsCounted
<1> QED BY <1>2, <1>3, <1>4 DEF Turns

\* An item at the end is behind those that are counted.
LEMMA PutKeepsTurns ==
    ASSUME IntakeTypeOK, Turns, NEW e \in Items, queue' = Append(queue, e),
           e \in Envelopes => e \notin ToSet(queue),
           UNCHANGED <<difference_credit, remaining, seen>>
    PROVE  Turns'
<1>1. queue \in Seq(Items)
  BY DEF IntakeTypeOK, Items
<1>2. /\ ToSet(queue') = ToSet(queue) \union {e}
      /\ DOMAIN queue' = DOMAIN queue \union {Len(queue) + 1}
      /\ queue'[Len(queue) + 1] = e /\ \A i \in DOMAIN queue : queue'[i] = queue[i]
      /\ \A i \in DOMAIN queue : UpTo(queue', i) = UpTo(queue, i)
  <2> DEFINE p == queue'
  <2>1. p = Append(queue, e)
    OBVIOUS
  <2> HIDE DEF p
  <2>2. ToSet(p) = ToSet(queue) \union {e} /\ DOMAIN p = DOMAIN queue \union {Len(queue) + 1}
    BY <1>1, <2>1, PutProperties
  <2>3. p[Len(queue) + 1] = e /\ \A i \in DOMAIN queue : p[i] = queue[i]
    <3>1. Len(queue) \in Nat /\ DOMAIN queue = 1..Len(queue)
      BY <1>1
    <3>2. /\ \A i \in 1..Len(queue) : p[i] = queue[i]
          /\ p[Len(queue) + 1] = e
      BY <1>1, <2>1, AppendProperties
    <3> QED BY <3>1, <3>2
  <2>4. \A i \in DOMAIN queue : UpTo(p, i) = UpTo(queue, i)
    BY <1>1, <2>1, PutCounts
  <2> QED BY <2>2, <2>3, <2>4 DEF p
<1>3. CreditIsEarned'
  BY DEF Turns, CreditIsEarned
<1>4. SeenStillWaits'
  BY <1>2 DEF Turns, SeenStillWaits
<1>5. ASSUME NEW i \in DOMAIN queue', queue'[i] \in Envelopes, seen[queue'[i]] > 0
      PROVE  /\ ~difference_credit
             /\ remaining # Free => Cardinality(UpTo(queue', i)) <= remaining
  <2>1. queue'[i] \in ToSet(queue)
    BY <1>5 DEF Turns, SeenStillWaits
  <2>2. i # Len(queue) + 1
    BY <1>2, <1>5, <2>1
  <2>3. i \in DOMAIN queue /\ queue'[i] = queue[i] /\ UpTo(queue', i) = UpTo(queue, i)
    BY <1>2, <2>2
  <2> QED BY <1>5, <2>3 DEF Turns, SeenIsCounted, InTurn
<1>6. SeenIsCounted'
  BY <1>5 DEF SeenIsCounted, InTurn
<1> QED BY <1>3, <1>4, <1>6 DEF Turns

LEMMA NotifyKeepsTurns ==
    ASSUME IntakeTypeOK, Turns, Notify, UNCHANGED <<difference_credit, remaining, seen>>
    PROVE  Turns'
<1>1. CASE wakeup_queued
  BY <1>1, TurnsStay DEF Notify
<1>2. CASE ~wakeup_queued
  <2>1. queue' = Append(queue, "wakeup") /\ "wakeup" \in Items /\ "wakeup" \notin Envelopes
    BY <1>2, IntakeNumbers DEF Notify, put_nowait, Items
  <2> QED BY <2>1, PutKeepsTurns
<1> QED BY <1>1, <1>2

\* The place of an envelope in the measured turn moves forward with the queue.
LEMMA TakeKeepsTurns ==
    ASSUME IntakeTypeOK, Turns, get_nowait
    PROVE  Turns'
<1>1. /\ queue \in Seq(Items) /\ queue # <<>> /\ queue' = Tail(queue)
      /\ seen' = [e \in Envelopes |-> IF e = Head(queue) THEN 0 ELSE seen[e]]
  BY DEF get_nowait, IntakeTypeOK, Items
<1>2. /\ queue' \in Seq(Items) /\ Head(queue) = queue[1] /\ Head(queue) \in Items
      /\ ToSet(queue) = ToSet(queue') \union {Head(queue)}
      /\ \A i \in DOMAIN queue' : i + 1 \in DOMAIN queue /\ i \in Nat \ {0}
                                /\ queue'[i] = queue[i + 1]
  <2> DEFINE p == queue'
  <2>1. p = Tail(queue)
    BY <1>1
  <2> HIDE DEF p
  <2>2. p \in Seq(Items) /\ Head(queue) = queue[1] /\ Head(queue) \in Items
    BY <1>1, <2>1, TakeProperties
  <2>3. ToSet(queue) = ToSet(p) \union {Head(queue)}
    BY <1>1, <2>1, TakeProperties
  <2>4. \A i \in DOMAIN p : i + 1 \in DOMAIN queue /\ i \in Nat \ {0} /\ p[i] = queue[i + 1]
    <3> TAKE i \in DOMAIN p
    <3>1. p \in Seq(Items) /\ Len(p) = Len(queue) - 1 /\ \A k \in 1..Len(p) : p[k] = queue[k + 1]
      BY <1>1, <2>1, HeadTailProperties
    <3>2. Len(p) \in Nat /\ DOMAIN p = 1..Len(p) /\ DOMAIN queue = 1..Len(queue)
      BY <1>1, <3>1
    <3> QED BY <3>1, <3>2
  <2> QED BY <2>2, <2>3, <2>4 DEF p
<1>3. SeenStillWaits'
  <2> SUFFICES ASSUME NEW e \in Envelopes
               PROVE  seen'[e] <= 1 /\ (seen'[e] > 0 => e \in ToSet(queue'))
    BY DEF SeenStillWaits
  <2>1. seen[e] <= 1 /\ (seen[e] > 0 => e \in ToSet(queue))
    BY DEF Turns, SeenStillWaits
  <2> QED BY <1>1, <1>2, <2>1
<1>4. ASSUME NEW i \in DOMAIN queue', queue'[i] \in Envelopes, seen'[queue'[i]] > 0
      PROVE  /\ ~difference_credit
             /\ i + 1 \in DOMAIN queue
             /\ remaining # Free => Cardinality(UpTo(queue, i + 1)) <= remaining
  <2>1. i + 1 \in DOMAIN queue /\ queue[i + 1] = queue'[i] /\ seen[queue'[i]] > 0
    BY <1>1, <1>2, <1>4
  <2> QED BY <1>4, <2>1 DEF Turns, SeenIsCounted, InTurn
<1>5. CASE Head(queue) = "wakeup" \/ difference_credit
  <2>1. UNCHANGED <<difference_credit, remaining>>
    BY <1>5 DEF get_nowait, real_dequeued
  <2>2. CreditIsEarned'
    BY <2>1 DEF Turns, CreditIsEarned
  <2>3. ASSUME NEW i \in DOMAIN queue', queue'[i] \in Envelopes, seen'[queue'[i]] > 0
        PROVE  /\ ~difference_credit
               /\ remaining # Free => Cardinality(UpTo(queue', i)) <= remaining
    <3>1. Cardinality(UpTo(queue', i)) <= Cardinality(UpTo(queue, i + 1))
      BY <1>1, <2>3, TakeShifts
    <3>2. Cardinality(UpTo(queue', i)) \in Nat /\ Cardinality(UpTo(queue, i + 1)) \in Nat
      BY <1>1, <1>2, UpToFinite
    <3>3. remaining # Free => remaining \in Nat
      BY DEF IntakeTypeOK
    <3> QED BY <1>4, <2>3, <3>1, <3>2, <3>3
  <2>4. SeenIsCounted'
    BY <2>1, <2>3 DEF SeenIsCounted, InTurn
  <2> QED BY <1>3, <2>2, <2>4 DEF Turns
<1>6. CASE Head(queue) # "wakeup" /\ ~difference_credit
  <2> DEFINE turn == IF remaining = Free THEN Cardinality(RealIn(queue)) ELSE remaining
  <2>1. remaining' = turn - 1 /\ (difference_credit' <=> remaining' = 0)
    BY <1>6 DEF get_nowait, real_dequeued
  <2>2. Cardinality(RealIn(queue)) \in Nat /\ (remaining # Free => remaining \in Nat)
    BY <1>1, UpToFinite DEF IntakeTypeOK
  <2>3. turn \in Nat
    BY <2>2
  <2>4. CreditIsEarned'
    BY <2>1 DEF CreditIsEarned
  <2>5. ASSUME NEW i \in DOMAIN queue', queue'[i] \in Envelopes, seen'[queue'[i]] > 0
        PROVE  /\ ~difference_credit'
               /\ Cardinality(UpTo(queue', i)) <= remaining'
    <3>1. Cardinality(UpTo(queue', i)) + 1 <= Cardinality(UpTo(queue, i + 1))
      BY <1>1, <1>6, <2>5, TakeShifts
    <3>2. /\ Cardinality(UpTo(queue', i)) \in Nat /\ Cardinality(UpTo(queue, i + 1)) \in Nat
          /\ Cardinality(UpTo(queue, i + 1)) <= Cardinality(RealIn(queue))
      BY <1>1, <1>2, UpToFinite
    <3>3. Cardinality(UpTo(queue, i + 1)) <= turn
      BY <1>4, <2>5, <3>2
    <3>4. Cardinality(UpTo(queue', i)) > 0
      <4>1. i \in UpTo(queue', i)
        <5>1. queue'[i] # "wakeup" /\ i <= i
          BY <1>2, <2>5, IntakeNumbers
        <5> QED BY <2>5, <5>1 DEF UpTo, RealIn
      <4>2. IsFiniteSet(UpTo(queue', i))
        BY <1>2, UpToFinite
      <4>3. Cardinality(UpTo(queue', i)) # 0
        BY <4>1, <4>2, FS_EmptySet
      <4> QED BY <3>2, <4>3
    <3> HIDE DEF turn
    <3> QED BY <2>1, <2>3, <3>1, <3>2, <3>3, <3>4
  <2>6. SeenIsCounted'
    BY <2>5 DEF SeenIsCounted, InTurn
  <2> QED BY <1>3, <2>4, <2>6 DEF Turns
<1> QED BY <1>5, <1>6

\* Whoever claims a difference while envelopes wait spends a credit, and none of
\* them has seen one.
LEMMA ClaimKeepsTurns ==
    ASSUME IntakeTypeOK, Turns, Claim
    PROVE  Turns'
<1>1. /\ queue' = queue /\ difference_credit' = FALSE /\ remaining' = Free /\ ~intake_due
      /\ seen' = [e \in Envelopes |-> IF e \in ToSet(queue) THEN Min({seen[e] + 1, 2}) ELSE 0]
  BY DEF Claim, difference_claimed
<1>2. ASSUME NEW e \in Envelopes, e \in ToSet(queue) PROVE seen[e] = 0
  <2>1. PICK i \in DOMAIN queue : queue[i] = e
    BY <1>2 DEF ToSet
  <2>2. i \in RealIn(queue)
    BY <1>2, <2>1, IntakeNumbers DEF RealIn
  <2>3. difference_credit
    BY <1>1, <2>2 DEF intake_due
  <2>4. ~(seen[e] > 0)
    BY <1>2, <2>1, <2>3 DEF Turns, SeenIsCounted, InTurn
  <2>5. seen[e] \in 0..2
    BY <1>2 DEF IntakeTypeOK
  <2> QED BY <2>4, <2>5
<1>3. ASSUME NEW e \in Envelopes
      PROVE  seen'[e] <= 1 /\ (seen'[e] > 0 => e \in ToSet(queue))
  <2>1. CASE e \in ToSet(queue)
    <3>1. seen'[e] = Min({seen[e] + 1, 2}) /\ seen[e] + 1 = 1
      BY <1>1, <1>2, <2>1
    <3>2. seen'[e] = Min({1, 2})
      BY <3>1
    <3>3. Min({1, 2}) <= 1
      <4> DEFINE S == {1, 2}
      <4>1. S \in SUBSET {1, 2} /\ S # {} /\ 1 \in S
        OBVIOUS
      <4>2. \A y \in S : Min(S) <= y
        <5>1. 1 \in Int /\ 2 \in Int
          OBVIOUS
        <5> HIDE DEF S
        <5> QED BY <4>1, <5>1, MinOfTwo
      <4> QED BY <4>1, <4>2
    <3> QED BY <2>1, <3>2, <3>3
  <2>2. CASE e \notin ToSet(queue)
    BY <1>1, <2>2
  <2> QED BY <2>1, <2>2
<1>4. SeenStillWaits'
  BY <1>1, <1>3 DEF SeenStillWaits
<1>5. CreditIsEarned' /\ SeenIsCounted'
  BY <1>1, IntakeNumbers DEF CreditIsEarned, SeenIsCounted, InTurn
<1> QED BY <1>4, <1>5 DEF Turns

LEMMA StepKeepsTurns ==
    ASSUME IntakeTypeOK, Turns, IntakeNext
    PROVE  Turns'
<1>1. CASE get_difference \/ get_channel_difference \/ TurnAgain \/ Sleep
  <2>1. UNCHANGED <<queue, difference_credit, remaining, seen>>
    BY <1>1 DEF get_difference, get_channel_difference, TurnAgain, Sleep
  <2> QED BY <2>1, TurnsStay
<1>2. CASE \/ Wake \/ process_updates \/ Deferred \/ Postponed \/ Resume \/ AccessLost \/ Answered
           \/ Cooldown \/ (\E x \in Entries : Elapse(x)) \/ Tick
  <2>1. UNCHANGED <<queue, difference_credit, remaining, seen>>
    BY <1>2 DEF Wake, process_updates, Deferred, Postponed, Resume, AccessLost, Answered,
                Cooldown, Elapse, Tick, box
  <2> QED BY <2>1, TurnsStay
<1>3. CASE Flooded
  BY <1>3, NotifyKeepsTurns DEF Flooded
<1>4. ASSUME NEW m \in Methods, Hold(m) \/ Release(m) PROVE Turns'
  <2>1. Notify /\ UNCHANGED <<difference_credit, remaining, seen>>
    BY <1>4 DEF Hold, Release, box
  <2> QED BY <2>1, NotifyKeepsTurns
<1>5. ASSUME NEW e \in Envelopes, Arrive(e) PROVE Turns'
  <2>1. /\ e \in Items /\ queue' = Append(queue, e) /\ e \notin ToSet(queue)
        /\ UNCHANGED <<difference_credit, remaining, seen>>
    BY <1>5 DEF Arrive, put_nowait, box, Items
  <2> QED BY <2>1, PutKeepsTurns
<1> QED BY <1>1, <1>2, <1>3, <1>4, <1>5, TakeKeepsTurns, ClaimKeepsTurns DEF IntakeNext, Turn

-----------------------------------------------------------------------------
(* The invariant and the properties *)

LEMMA IntakeInvInit == IntakeInit => IntakeInv
<1> SUFFICES ASSUME IntakeInit PROVE IntakeInv
  OBVIOUS
<1>1. IntakeTypeOK
  <2>1. turning = [at |-> "turn", entry |-> Account, until |-> Never] /\ Account \in Entries
    BY DEF IntakeInit, Turning, At, Entries
  <2>2. turning \in [at : {"turn", "asleep", "process", "calling", "claimed", "paused"},
                   entry : Entries \union Envelopes \union {"wakeup"},
                   until : {Never} \union 0..Wait]
    BY <2>1
  <2>3. holds \in 0..MaxHolds
    BY IntakeAssumption DEF IntakeAssumption, IntakeInit
  <2>4. wait \in [Methods -> 0..Wait] /\ blocked \in [Methods -> {Free, Never} \union 0..Wait]
    BY IntakeNumbers DEF IntakeInit
  <2>5. queue \in Seq(Envelopes \union {"wakeup"}) /\ getting \subseteq Entries
    BY <2>1 DEF IntakeInit
  <2>6. seen \in [Envelopes -> 0..2]
    BY DEF IntakeInit
  <2> QED BY <2>2, <2>3, <2>4, <2>5, <2>6 DEF IntakeInit, IntakeTypeOK
<1>2. turning.at = "turn"
  BY DEF IntakeInit, Turning, At
<1>3. CallHasGap /\ WakeupIsQueued /\ SleepIsJustified
  BY <1>2 DEF CallHasGap, WakeupIsQueued, SleepIsJustified, IntakeInit
<1>4. HintHasGap /\ CreditIsEarned /\ SeenStillWaits
  BY IntakeNumbers DEF HintHasGap, CreditIsEarned, SeenStillWaits, IntakeInit
<1>5. SeenIsCounted
  BY DEF SeenIsCounted, IntakeInit
<1> QED BY <1>1, <1>3, <1>4, <1>5 DEF IntakeInv

LEMMA IntakeInvStep == IntakeInv /\ [IntakeNext]_intakeVars => IntakeInv'
<1>1. ASSUME IntakeInv, UNCHANGED intakeVars PROVE IntakeInv'
  <2>1. UNCHANGED <<queue, wakeup_queued, difference_credit, remaining, getting, due, blocked,
                    wait, held, holds, turning, seen>>
    BY <1>1 DEF intakeVars, box, gate
  <2>2. IntakeTypeOK'
    BY <1>1, IntakeStepTyped DEF IntakeInv
  <2>3. CallHasGap' /\ HintHasGap'
    BY <1>1, <2>1, GapsStay DEF IntakeInv
  <2>4. WakeupIsQueued' /\ SleepIsJustified'
    BY <1>1, <2>1 DEF IntakeInv, WakeupIsQueued, SleepIsJustified, HeldBy, Method
  <2>5. Turns'
    BY <1>1, <2>1, TurnsStay DEF IntakeInv, Turns
  <2> QED BY <2>2, <2>3, <2>4, <2>5 DEF IntakeInv, Turns
<1>2. ASSUME IntakeInv, IntakeNext PROVE IntakeInv'
  <2>1. IntakeTypeOK'
    BY <1>2, IntakeStepTyped DEF IntakeInv
  <2>2. CallHasGap' /\ HintHasGap'
    BY <1>2, StepKeepsGaps DEF IntakeInv
  <2>3. WakeupIsQueued' /\ SleepIsJustified'
    BY <1>2, StepKeepsWakeup, StepKeepsSleep DEF IntakeInv
  <2>4. Turns'
    BY <1>2, StepKeepsTurns DEF IntakeInv, Turns
  <2> QED BY <2>1, <2>2, <2>3, <2>4 DEF IntakeInv, Turns
<1> QED BY <1>1, <1>2

\* The invariant of the intake.
THEOREM IntakeInvariant == IntakeSpec => []IntakeInv
BY IntakeInvInit, IntakeInvStep, PTL DEF IntakeSpec

LEMMA StepKeepsGap ==
    ASSUME IntakeTypeOK, IntakeNext, NEW x \in getting, x \notin getting'
    PROVE  turning.entry = x /\ (turning.at = "claimed" \/ x \in Channels)
<1>1. getting \subseteq Begun
  BY DEF Begun
<1>2. ~(get_difference \/ get_channel_difference)
  BY <1>1 DEF get_difference, get_channel_difference
<1>3. ~check_deadlines
  BY <1>1 DEF check_deadlines
<1>4. ~(TurnAgain \/ get_nowait \/ Sleep)
  BY <1>3 DEF TurnAgain, get_nowait, Sleep
<1>5. ~(Wake \/ process_updates \/ Deferred \/ Claim \/ Postponed \/ Resume \/ Flooded)
  BY DEF Wake, process_updates, Deferred, Claim, Postponed, Resume, Flooded, preserve_deferred, box
<1>6. ~(\/ \E m \in Methods : Hold(m) \/ Release(m)
        \/ Cooldown \/ (\E e \in Envelopes : Arrive(e)) \/ (\E y \in Entries : Elapse(y)) \/ Tick)
  BY DEF Hold, Release, Cooldown, Arrive, Elapse, Tick, box
<1>7. AccessLost \/ Answered
  BY <1>2, <1>4, <1>5, <1>6 DEF IntakeNext, Turn
<1> QED BY <1>7 DEF AccessLost, Answered

\* A turn without a wait and without a new difference would have had a hint at
\* its boundary, whose gap was asked and not held.
LEMMA TurnAgainBegins ==
    ASSUME IntakeTypeOK, HintHasGap, TurnAgain
    PROVE  getting' # getting
<1> SUFFICES ASSUME getting' = getting PROVE FALSE
  OBVIOUS
<1>1. Withheld /\ Delay = 0 /\ check_deadlines /\ getting \subseteq Begun
  BY DEF TurnAgain, Begun
<1>2. ~intake_due /\ (Begun # {} \/ due # {})
  BY <1>1, IntakeNumbers DEF Delay
<1>3. Begun # {} /\ Begun = getting
  BY <1>1, <1>2 DEF check_deadlines
<1>4. PICK x \in Begun : TRUE
  BY <1>3
<1>5. Method(x) \in Methods /\ HeldBy(Method(x)) /\ BlockedNow[Method(x)] = Hint(Method(x))
  BY <1>1, <1>2, WithheldIsHeld, IntakeNumbers
<1>6. BlockedNow[Method(x)] # Free
  BY <1>5, HintFacts
<1>7. PICK m \in Methods : BlockedNow[m] = 0
  BY <1>1, <1>2, <1>3, <1>5, <1>6, BoxFacts
<1>8. PICK y \in Begun : Method(y) = m
  BY <1>7, NowHasGap, IntakeNumbers
<1>9. HeldBy(m) /\ BlockedNow[m] = Hint(m)
  BY <1>1, <1>2, <1>8, WithheldIsHeld
<1>10. Hint(m) \in {Never} \union 1..Wait
  BY <1>9, HintFacts
<1> QED BY <1>7, <1>9, <1>10, IntakeNumbers

\* The intake keeps its types.
THEOREM IntakeIsTyped == IntakeSpec => []IntakeTypeOK
BY IntakeInvariant, PTL DEF IntakeInv

THEOREM TurnsTaken == IntakeSpec => TurnsAreTaken
<1>1. IntakeInv => OneDifferencePerTurn /\ SleepIsJustified
  BY DEF IntakeInv, OneDifferencePerTurn, SeenStillWaits
<1>2. IntakeInv /\ [IntakeNext]_intakeVars =>
        [\A x \in getting : x \notin getting' =>
           turning.entry = x /\ (turning.at = "claimed" \/ x \in Channels)]_intakeVars
  BY StepKeepsGap DEF IntakeInv
<1>3. IntakeInv /\ [IntakeNext]_intakeVars => [TurnAgain => getting' # getting]_intakeVars
  BY TurnAgainBegins DEF IntakeInv
<1>4. IntakeSpec => [](OneDifferencePerTurn /\ SleepIsJustified)
  BY <1>1, IntakeInvariant, PTL
<1>5. IntakeSpec => GapsKept
  BY <1>2, IntakeInvariant, PTL DEF IntakeSpec, GapsKept
<1>6. IntakeSpec => NeverSpins
  BY <1>3, IntakeInvariant, PTL DEF IntakeSpec, NeverSpins
<1> QED BY <1>4, <1>5, <1>6 DEF TurnsAreTaken
=============================================================================
