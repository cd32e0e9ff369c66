------------------------- MODULE SqliteWriterProofs -------------------------
(***************************************************************************)
(* Proofs about SqliteWriter: for every finite set of callers and every    *)
(* capacity, a submission is queued, executed and answered once, and its   *)
(* slot goes back once, wherever a close, a broken callback or the failure *)
(* of the thread cuts in.                                                  *)
(*                                                                         *)
(* SubmissionsKept is not inductive: it also takes that the queue holds a  *)
(* submission once with the stop item last (QueueInOrder), that the thread *)
(* holds one exactly while it works on it (JobInHand), that pending        *)
(* outcomes are those queued or executed (OutcomesOwed), and that nothing  *)
(* is queued at a thread that has retired (RetiredIsEmpty).                *)
(*                                                                         *)
(* The second part is about the other loop that serves one queue for all,  *)
(* DemandCoordinator: for every set of works and every order of the kinds  *)
(* it forgets no revision that could run and runs none that is held.       *)
(* CoordinatorInv says what else that takes.                               *)
(***************************************************************************)
EXTENDS SqliteWriter, DemandCoordinator, FiniteSetTheorems, TLAPS

\* What _queue carries.
Items == Callers \cup {Stop}

\* Putting an item in the queue adds it to what is queued.
LEMMA SetOfAppend ==
    ASSUME NEW q \in Seq(Items), NEW e \in Items
    PROVE  /\ ToSet(Append(q, e)) = ToSet(q) \cup {e}
           /\ Append(q, e) \in Seq(Items)
<1> DEFINE r == Append(q, e)
<1>1. r \in Seq(Items) /\ Len(r) = Len(q) + 1
  OBVIOUS
<1>2. \A i \in 1..Len(q) : r[i] = q[i]
  OBVIOUS
<1>3. r[Len(q) + 1] = e
  OBVIOUS
<1>4. DOMAIN r = 1..(Len(q) + 1) /\ DOMAIN q = 1..Len(q)
  BY <1>1
<1> HIDE DEF r
<1>5. ToSet(r) = ToSet(q) \cup {e}
  BY <1>1, <1>2, <1>3, <1>4 DEF ToSet
<1> QED BY <1>1, <1>5 DEF r

\* Getting one takes away the head; the others move up by one.
LEMMA SetOfTail ==
    ASSUME NEW q \in Seq(Items), q # << >>
    PROVE  /\ ToSet(q) = {Head(q)} \cup ToSet(Tail(q))
           /\ Tail(q) \in Seq(Items) /\ Head(q) \in Items
           /\ Len(Tail(q)) = Len(q) - 1 /\ Len(q) > 0
           /\ \A i \in 1..Len(Tail(q)) : Tail(q)[i] = q[i + 1]
<1> DEFINE r == Tail(q)
<1>1. r \in Seq(Items) /\ Len(r) = Len(q) - 1 /\ Len(q) > 0 /\ Head(q) = q[1]
  OBVIOUS
<1>2. \A i \in 1..Len(r) : r[i] = q[i + 1]
  OBVIOUS
<1>3. DOMAIN r = 1..Len(r) /\ DOMAIN q = 1..Len(q)
  BY <1>1
<1> HIDE DEF r
<1>4. ASSUME NEW x \in ToSet(q) PROVE x \in {Head(q)} \cup ToSet(r)
  <2>1. PICK i \in 1..Len(q) : x = q[i]
    BY <1>3 DEF ToSet
  <2>2. CASE i = 1
    BY <2>1, <2>2, <1>1
  <2>3. CASE i > 1
    <3>1. i - 1 \in 1..Len(r) /\ q[i] = r[i - 1]
      BY <2>3, <1>1, <1>2
    <3> QED BY <3>1, <2>1, <1>3 DEF ToSet
  <2> QED BY <2>2, <2>3
<1>5. ASSUME NEW x \in {Head(q)} \cup ToSet(r) PROVE x \in ToSet(q)
  <2>1. CASE x = Head(q)
    BY <2>1, <1>1, <1>3 DEF ToSet
  <2>2. CASE x \in ToSet(r)
    <3>1. PICK i \in 1..Len(r) : x = r[i]
      BY <2>2, <1>3 DEF ToSet
    <3>2. i + 1 \in 1..Len(q) /\ x = q[i + 1]
      BY <3>1, <1>1, <1>2
    <3> QED BY <3>2, <1>3 DEF ToSet
  <2> QED BY <2>1, <2>2
<1> QED BY <1>1, <1>2, <1>4, <1>5 DEF r

-----------------------------------------------------------------------------
(* What the proof takes besides the properties *)

\* A submission is queued once, and the stop item is put last, once, by a close.
QueueInOrder ==
    /\ \A i, j \in 1..Len(queue) : queue[i] = queue[j] => i = j
    /\ \A i \in 1..Len(queue) : queue[i] = Stop => i = Len(queue) /\ closed

\* The thread has a submission from the moment it takes it until its slot is posted.
JobInHand ==
    /\ job # NoJob <=> worker \in {"executing", "retiring", "releasing"}
    /\ job # NoJob => result[job] # "none"

\* What is queued has no outcome; what has none is queued or executed.
OutcomesOwed ==
    /\ \A c \in Submissions(queue) : result[c] = "pending" /\ c # job
    /\ \A c \in Callers : result[c] = "pending" =>
           c \in Submissions(queue) \/ (worker = "executing" /\ c = job)
    /\ \A c \in Callers : caller[c] \in {"idle", "acquiring"} => result[c] = "none"

\* Nothing is queued once the thread has failed or stopped.
RetiredIsEmpty ==
    /\ fatal => worker \in {"releasing", "finishing", "dead"} /\ queue = << >>
    /\ worker \in {"finishing", "dead"} => (closed \/ fatal) /\ queue = << >>

\* The inductive invariant.
Inv ==
    /\ TypeOK /\ QueueInOrder /\ JobInHand /\ OutcomesOwed /\ RetiredIsEmpty
    /\ SlotsConserved /\ CustodyKept

-----------------------------------------------------------------------------
(* Facts about what is in flight *)

\* Submissions in flight are callers, so they can be counted.
LEMMA FlightFinite ==
    ASSUME Inv
    PROVE  /\ InFlight \subseteq Callers /\ IsFiniteSet(InFlight)
           /\ Cardinality(InFlight) \in Nat
           /\ IsFiniteSet(Submissions(queue)) /\ Cardinality(Submissions(queue)) \in Nat
<1>1. ToSet(queue) \subseteq Items
  BY DEF Inv, TypeOK, ToSet, Items
<1>2. Submissions(queue) \subseteq Callers /\ InFlight \subseteq Callers
  BY <1>1 DEF Inv, TypeOK, InFlight, Submissions, Items
<1> QED BY <1>2, WriterAssumption, FS_Subset, FS_CardinalityType

\* Where the queue, the outcomes and the thread stay as they are, so does Inv.
LEMMA QuietStep ==
    ASSUME Inv, TypeOK', UNCHANGED <<result, queue, closed, fatal, worker, job>>,
           slots' + releases' = slots + releases,
           \A c \in Callers : caller'[c] # caller[c] =>
               /\ caller'[c] \in {"idle", "acquiring"} => caller[c] \in {"idle", "acquiring"}
               /\ result[c] = "pending" => caller'[c] \in {"waiting", "cancelling"}
    PROVE  Inv'
<1>1. InFlight' = InFlight
  BY DEF InFlight, Submissions
<1>2. SlotsConserved'
  BY <1>1 DEF Inv, SlotsConserved
<1>3. QueueInOrder' /\ JobInHand' /\ RetiredIsEmpty'
  BY DEF Inv, QueueInOrder, JobInHand, RetiredIsEmpty
<1>4. OutcomesOwed' /\ CustodyKept'
  BY DEF Inv, OutcomesOwed, CustodyKept, Submissions, TypeOK
<1> QED BY <1>2, <1>3, <1>4 DEF Inv

\* A new writer has all its slots and nothing queued.
LEMMA InitInv == Init => Inv
<1> SUFFICES ASSUME Init PROVE Inv
  OBVIOUS
<1>1. TypeOK
  <2>1. slots \in 0..Slots /\ releases \in 0..Slots
    BY WriterAssumption DEF Init
  <2>2. queue \in Seq(Callers \cup {Stop})
    BY DEF Init
  <2>3. /\ caller \in [Callers -> {"idle", "acquiring", "waiting", "cancelling", "done"}]
        /\ result \in [Callers -> {"none", "pending", "value", "error", "retired"}]
    BY DEF Init
  <2> QED BY <2>1, <2>2, <2>3 DEF Init, TypeOK
<1>2. ToSet(queue) = {} /\ InFlight = {}
  BY DEF Init, ToSet, InFlight, Submissions
<1>3. SlotsConserved
  BY <1>2, FS_EmptySet, WriterAssumption DEF Init, SlotsConserved
<1>4. QueueInOrder
  BY DEF Init, QueueInOrder
<1>5. JobInHand /\ RetiredIsEmpty /\ CustodyKept
  BY DEF Init, JobInHand, RetiredIsEmpty, CustodyKept
<1>6. OutcomesOwed
  BY <1>2 DEF Init, OutcomesOwed, Submissions
<1> QED BY <1>1, <1>3, <1>4, <1>5, <1>6 DEF Inv

-----------------------------------------------------------------------------
(* The steps of the loop *)

\* A caller that asks, is cancelled or returns leaves what was submitted alone.
LEMMA CallerSteps ==
    ASSUME Inv, NEW c \in Callers, Run(c) \/ Cancel(c) \/ Return(c)
    PROVE  Inv'
<1>1. TypeOK'
  BY DEF Inv, TypeOK, Run, Cancel, Return, control, thread
<1>2. \A d \in Callers : caller'[d] # caller[d] =>
          /\ caller'[d] \in {"idle", "acquiring"} => caller[d] \in {"idle", "acquiring"}
          /\ result[d] = "pending" => caller'[d] \in {"waiting", "cancelling"}
  <2> SUFFICES ASSUME NEW d \in Callers, caller'[d] # caller[d]
               PROVE  /\ caller'[d] \in {"idle", "acquiring"} => caller[d] \in {"idle", "acquiring"}
                      /\ result[d] = "pending" => caller'[d] \in {"waiting", "cancelling"}
    OBVIOUS
  <2>1. d = c
    BY DEF Inv, TypeOK, Run, Cancel, Return
  <2>2. caller[c] \in {"idle", "acquiring"} => result[c] = "none"
    BY DEF Inv, OutcomesOwed
  <2> QED BY <2>1, <2>2 DEF Inv, TypeOK, Run, Cancel, Return
<1>3. /\ UNCHANGED <<result, queue, closed, fatal, worker, job>>
      /\ slots' + releases' = slots + releases
  BY DEF Run, Cancel, Return, control, thread
<1> QED BY <1>1, <1>2, <1>3, QuietStep

\* A release that runs, and the ends of open() and aclose(), move slots at most.
LEMMA LoopSteps ==
    ASSUME Inv, RunRelease \/ OpenReturns \/ OpenCancelReturns \/ CloseReturns
    PROVE  Inv'
<1>1. slots' + releases' = slots + releases /\ slots' \in Nat /\ releases' \in Nat
  BY DEF Inv, TypeOK, RunRelease, OpenReturns, OpenCancelReturns, CloseReturns
<1>2. slots' \in 0..Slots /\ releases' \in 0..Slots
  <2> DEFINE n == Cardinality(InFlight)
  <2>1. n \in Nat /\ slots + releases + n = Slots
    BY FlightFinite DEF Inv, SlotsConserved
  <2>2. slots \in Nat /\ releases \in Nat /\ Slots \in Nat
    BY WriterAssumption DEF Inv, TypeOK
  <2> HIDE DEF n
  <2>3. \A p, q \in Nat : p + q = slots + releases => p \in 0..Slots /\ q \in 0..Slots
    BY <2>1, <2>2
  <2> QED BY <1>1, <2>3
<1>3. TypeOK'
  BY <1>2 DEF Inv, TypeOK, RunRelease, OpenReturns, OpenCancelReturns, CloseReturns,
              control, thread
<1>4. UNCHANGED <<caller, result, queue, closed, fatal, worker, job>>
  BY DEF RunRelease, OpenReturns, OpenCancelReturns, CloseReturns, control, thread
<1> QED BY <1>1, <1>3, <1>4, QuietStep

\* A submission takes a slot and goes behind what is queued, unless refused.
LEMMA SubmitStep ==
    ASSUME Inv, NEW c \in Callers, Submit(c)
    PROVE  Inv'
<1>1. CASE closed \/ fatal
  <2>1. TypeOK'
    BY <1>1 DEF Inv, TypeOK, Submit, control, thread
  <2>2. \A d \in Callers : caller'[d] # caller[d] =>
            /\ caller'[d] \in {"idle", "acquiring"} => caller[d] \in {"idle", "acquiring"}
            /\ result[d] = "pending" => caller'[d] \in {"waiting", "cancelling"}
    BY <1>1 DEF Inv, TypeOK, Submit, OutcomesOwed
  <2>3. /\ UNCHANGED <<result, queue, closed, fatal, worker, job>>
        /\ slots' + releases' = slots + releases
    BY <1>1 DEF Submit, control, thread
  <2> QED BY <2>1, <2>2, <2>3, QuietStep
<1>2. CASE ~closed /\ ~fatal
  <2>1. /\ queue \in Seq(Items) /\ queue' = Append(queue, c) /\ c \in Items /\ c # Stop
        /\ result[c] = "none" /\ slots' = slots - 1 /\ slots > 0
        /\ result' = [result EXCEPT ![c] = "pending"] /\ caller' = [caller EXCEPT ![c] = "waiting"]
        /\ UNCHANGED <<opener, closer, releases, closed, fatal, ready, ended, worker, job, conn>>
    BY <1>2, NamesAssumption DEF Inv, TypeOK, OutcomesOwed, Submit, control, thread, Items
  <2>2. ToSet(queue') = ToSet(queue) \cup {c} /\ queue' \in Seq(Items)
    BY <2>1, SetOfAppend
  <2>3. Submissions(queue') = Submissions(queue) \cup {c} /\ InFlight' = InFlight \cup {c}
    BY <2>1, <2>2 DEF Submissions, InFlight
  <2>4. c \notin Submissions(queue) /\ c # job /\ c \notin InFlight
    BY <2>1, NamesAssumption DEF Inv, OutcomesOwed, JobInHand, InFlight
  <2>5. Cardinality(InFlight') = Cardinality(InFlight) + 1
    BY <2>3, <2>4, FlightFinite, FS_AddElement
  <2>6. SlotsConserved'
    BY <2>1, <2>5, FlightFinite, WriterAssumption DEF Inv, TypeOK, SlotsConserved
  <2>7. TypeOK'
    <3>1. slots' \in 0..Slots
      BY <2>1, WriterAssumption DEF Inv, TypeOK
    <3>2. caller' \in [Callers -> {"idle", "acquiring", "waiting", "cancelling", "done"}]
          /\ result' \in [Callers -> {"none", "pending", "value", "error", "retired"}]
      BY <2>1 DEF Inv, TypeOK
    <3> QED BY <2>1, <2>2, <3>1, <3>2 DEF Inv, TypeOK, Items, Submit
  <2>8. QueueInOrder'
    <3>1. /\ Len(queue') = Len(queue) + 1 /\ queue'[Len(queue) + 1] = c
          /\ \A i \in 1..Len(queue) : queue'[i] = queue[i]
          /\ Len(queue) \in Nat
      BY <2>1
    <3>2. \A i \in 1..Len(queue) : queue[i] # Stop
      BY <1>2 DEF Inv, QueueInOrder
    <3>3. \A i \in 1..Len(queue) : queue[i] # c
      BY <2>1, <2>4 DEF Submissions, ToSet
    <3> QED BY <2>1, <3>1, <3>2, <3>3 DEF Inv, QueueInOrder
  <2>9. JobInHand' /\ RetiredIsEmpty'
    BY <1>2, <2>1 DEF Inv, TypeOK, JobInHand, RetiredIsEmpty
  <2>10. OutcomesOwed'
    BY <2>1, <2>3, <2>4 DEF Inv, TypeOK, OutcomesOwed
  <2>11. CustodyKept'
    BY <2>1 DEF Inv, TypeOK, CustodyKept
  <2> QED BY <2>6, <2>7, <2>8, <2>9, <2>10, <2>11 DEF Inv
<1> QED BY <1>1, <1>2 DEF Inv, TypeOK

\* A close puts the stop item behind everything that was submitted.
LEMMA CloseSteps ==
    ASSUME Inv, OpenCancelled \/ Close
    PROVE  Inv'
<1>1. /\ RequestClose /\ queue \in Seq(Items) /\ Stop \in Items
      /\ UNCHANGED <<caller, result, slots, releases, fatal, ready, ended, worker, job, conn>>
  BY DEF Inv, TypeOK, OpenCancelled, Close, thread, Items
<1>2. queue' = queue \/ (~closed /\ ~fatal /\ queue' = Append(queue, Stop))
  BY <1>1 DEF RequestClose
<1>3. queue' \in Seq(Items) /\ (queue' # queue => ToSet(queue') = ToSet(queue) \cup {Stop})
  BY <1>1, <1>2, SetOfAppend
<1>4. Submissions(queue') = Submissions(queue)
  BY <1>3 DEF Submissions
<1>5. InFlight' = InFlight
  BY <1>1, <1>4 DEF InFlight
<1>6. TypeOK' /\ SlotsConserved'
  BY <1>1, <1>3, <1>5 DEF Inv, TypeOK, SlotsConserved, OpenCancelled, Close, RequestClose, Items
<1>7. QueueInOrder'
  <2>1. CASE queue' = queue
    BY <1>1, <2>1 DEF Inv, QueueInOrder, RequestClose
  <2>2. CASE ~closed /\ queue' = Append(queue, Stop)
    <3>1. /\ Len(queue') = Len(queue) + 1 /\ queue'[Len(queue) + 1] = Stop
          /\ \A i \in 1..Len(queue) : queue'[i] = queue[i]
          /\ Len(queue) \in Nat
      BY <1>1, <2>2
    <3>2. \A i \in 1..Len(queue) : queue[i] # Stop
      BY <2>2 DEF Inv, QueueInOrder
    <3>3. closed'
      BY <1>1 DEF RequestClose
    <3> QED BY <3>1, <3>2, <3>3 DEF Inv, QueueInOrder
  <2> QED BY <1>2, <2>1, <2>2
<1>8. RetiredIsEmpty'
  BY <1>1, <1>2 DEF Inv, RetiredIsEmpty, RequestClose, TypeOK
<1>9. JobInHand' /\ OutcomesOwed' /\ CustodyKept'
  BY <1>1, <1>4 DEF Inv, JobInHand, OutcomesOwed, CustodyKept
<1> QED BY <1>6, <1>7, <1>8, <1>9 DEF Inv

-----------------------------------------------------------------------------
(* The steps of the thread *)

\* Steps that change neither the queue nor what is in hand.
LEMMA ThreadStays ==
    ASSUME Inv, OpenDatabase \/ Finish
    PROVE  Inv'
<1>1. UNCHANGED <<caller, result, slots, releases, queue, closed, fatal, job>>
  BY DEF OpenDatabase, Finish
<1>2. InFlight' = InFlight /\ Submissions(queue') = Submissions(queue)
  BY <1>1 DEF InFlight, Submissions
<1>3. TypeOK'
  BY <1>1 DEF Inv, TypeOK, OpenDatabase, Finish
<1>4. SlotsConserved' /\ QueueInOrder' /\ CustodyKept'
  BY <1>1, <1>2 DEF Inv, SlotsConserved, QueueInOrder, CustodyKept
<1>5. worker \in {"opening", "finishing"} /\ worker' \in {"getting", "failing", "dead"}
      /\ (worker' = "dead" <=> worker = "finishing")
  BY DEF OpenDatabase, Finish
<1>6. JobInHand' /\ RetiredIsEmpty' /\ OutcomesOwed'
  BY <1>1, <1>2, <1>5 DEF Inv, JobInHand, RetiredIsEmpty, OutcomesOwed
<1> QED BY <1>3, <1>4, <1>6 DEF Inv

\* Taking the first submission moves it from the queue to the thread's hand.
LEMMA GetJobStep ==
    ASSUME Inv, GetJob
    PROVE  Inv'
<1>1. /\ queue \in Seq(Items) /\ queue # << >> /\ queue' = Tail(queue)
      /\ job' = Head(queue) /\ job' # Stop /\ worker = "getting" /\ worker' = "executing"
      /\ UNCHANGED <<opener, closer, caller, result, slots, releases, control, conn>>
  BY DEF Inv, TypeOK, GetJob, Items
<1>2. /\ ToSet(queue) = {Head(queue)} \cup ToSet(queue')
      /\ queue' \in Seq(Items) /\ Head(queue) \in Items /\ Len(queue) > 0
      /\ Len(queue') = Len(queue) - 1 /\ Head(queue) = queue[1]
      /\ \A i \in 1..Len(queue') : queue'[i] = queue[i + 1]
  BY <1>1, SetOfTail
<1>3. Head(queue) \notin ToSet(queue')
  <2> SUFFICES ASSUME Head(queue) \in ToSet(queue') PROVE FALSE
    OBVIOUS
  <2>1. PICK i \in 1..Len(queue') : Head(queue) = queue'[i]
    BY <1>2 DEF ToSet
  <2>2. i + 1 \in 1..Len(queue) /\ 1 \in 1..Len(queue) /\ queue[i + 1] = queue[1] /\ i + 1 # 1
    BY <1>1, <1>2, <2>1
  <2> QED BY <2>2 DEF Inv, QueueInOrder
<1>4. job = NoJob /\ job' \in Callers /\ job' # NoJob
  BY <1>1, <1>2, NamesAssumption DEF Inv, JobInHand, Items
<1>5. /\ Submissions(queue) = Submissions(queue') \cup {job'} /\ job' \notin Submissions(queue')
      /\ job' \in Submissions(queue)
  BY <1>1, <1>2, <1>3 DEF Submissions
<1>6. InFlight' = InFlight
  BY <1>4, <1>5 DEF InFlight
<1>7. TypeOK' /\ SlotsConserved'
  BY <1>1, <1>2, <1>4, <1>6 DEF Inv, TypeOK, SlotsConserved, control, Items
<1>8. QueueInOrder'
  <2>1. ASSUME NEW i \in 1..Len(queue'), NEW j \in 1..Len(queue'), queue'[i] = queue'[j]
        PROVE  i = j
    <3>1. i + 1 \in 1..Len(queue) /\ j + 1 \in 1..Len(queue) /\ queue[i + 1] = queue[j + 1]
      BY <1>1, <1>2, <2>1
    <3>2. i + 1 = j + 1
      BY <3>1 DEF Inv, QueueInOrder
    <3> QED BY <3>2
  <2>2. ASSUME NEW i \in 1..Len(queue'), queue'[i] = Stop
        PROVE  i = Len(queue') /\ closed'
    <3>1. i + 1 \in 1..Len(queue) /\ queue[i + 1] = Stop
      BY <1>1, <1>2, <2>2
    <3>2. i + 1 = Len(queue) /\ closed
      BY <3>1 DEF Inv, QueueInOrder
    <3>3. Len(queue) \in Nat /\ Len(queue') = Len(queue) - 1 /\ i \in Nat
      BY <1>1, <1>2
    <3>4. \A n, m \in Nat : m + 1 = n => m = n - 1
      OBVIOUS
    <3>5. i = Len(queue')
      BY <3>2, <3>3, <3>4
    <3>6. closed'
      BY <1>1, <3>2 DEF control
    <3> QED BY <3>5, <3>6
  <2> QED BY <2>1, <2>2 DEF QueueInOrder
<1>9. result[job'] = "pending"
  BY <1>5 DEF Inv, OutcomesOwed
<1>10. JobInHand' /\ CustodyKept'
  BY <1>1, <1>4, <1>9 DEF Inv, JobInHand, CustodyKept
<1>11. RetiredIsEmpty'
  BY <1>1 DEF Inv, RetiredIsEmpty, control
<1>12. OutcomesOwed'
  BY <1>1, <1>4, <1>5 DEF Inv, OutcomesOwed
<1> QED BY <1>7, <1>8, <1>10, <1>11, <1>12 DEF Inv

\* The stop item is the last one: nothing is left behind it.
LEMMA GetStopStep ==
    ASSUME Inv, GetStop
    PROVE  Inv'
<1>1. /\ queue \in Seq(Items) /\ queue # << >> /\ queue' = Tail(queue)
      /\ Head(queue) = Stop /\ worker = "getting" /\ worker' \in {"finishing", "failing"}
      /\ UNCHANGED <<opener, closer, caller, result, slots, releases, control, job, conn>>
  BY DEF Inv, TypeOK, GetStop, Items
<1>2. /\ ToSet(queue) = {Head(queue)} \cup ToSet(queue')
      /\ queue' \in Seq(Items) /\ Len(queue) > 0
      /\ Len(queue') = Len(queue) - 1 /\ Head(queue) = queue[1]
  BY <1>1, SetOfTail
<1>3. 1 \in 1..Len(queue) /\ queue[1] = Stop
  BY <1>1, <1>2
<1>4. Len(queue) = 1 /\ closed
  BY <1>3 DEF Inv, QueueInOrder
<1>5. queue' = << >>
  BY <1>2, <1>4
<1>6. Submissions(queue') = Submissions(queue)
  BY <1>1, <1>2 DEF Submissions
<1>7. InFlight' = InFlight
  BY <1>1, <1>6 DEF InFlight
<1>8. TypeOK' /\ SlotsConserved'
  BY <1>1, <1>2, <1>7 DEF Inv, TypeOK, SlotsConserved, control, Items
<1>9. QueueInOrder'
  BY <1>5 DEF QueueInOrder
<1>10. JobInHand' /\ OutcomesOwed' /\ CustodyKept'
  BY <1>1, <1>6 DEF Inv, JobInHand, OutcomesOwed, CustodyKept
<1>11. RetiredIsEmpty'
  BY <1>1, <1>4, <1>5 DEF Inv, RetiredIsEmpty, control
<1> QED BY <1>8, <1>9, <1>10, <1>11 DEF Inv

\* The callback's outcome is set once, while the thread still holds its slot.
LEMMA ExecuteSteps ==
    ASSUME Inv, ExecuteSettles \/ ExecuteBreaks
    PROVE  Inv'
<1>1. /\ worker = "executing" /\ worker' \in {"releasing", "retiring"}
      /\ \E outcome \in {"value", "error"} : result' = [result EXCEPT ![job] = outcome]
      /\ conn' \in {"idle", "unsafe", "closed"}
      /\ UNCHANGED <<opener, closer, caller, slots, releases, queue, control, job>>
  BY DEF ExecuteSettles, ExecuteBreaks
<1>2. job \in Callers /\ job # NoJob /\ job \notin Submissions(queue)
  BY <1>1 DEF Inv, TypeOK, JobInHand, OutcomesOwed
<1>3. Submissions(queue') = Submissions(queue) /\ InFlight' = InFlight
  BY <1>1 DEF Submissions, InFlight
<1>4. TypeOK' /\ SlotsConserved'
  BY <1>1, <1>2, <1>3 DEF Inv, TypeOK, SlotsConserved, control
<1>5. QueueInOrder' /\ RetiredIsEmpty'
  BY <1>1 DEF Inv, QueueInOrder, RetiredIsEmpty, control
<1>6. /\ result'[job] \in {"value", "error"}
      /\ \A c \in Callers : c # job => result'[c] = result[c]
  BY <1>1, <1>2 DEF Inv, TypeOK
<1>7. JobInHand' /\ CustodyKept'
  BY <1>1, <1>2, <1>6 DEF Inv, JobInHand, CustodyKept
<1>8. caller[job] \notin {"idle", "acquiring"}
  BY <1>1, <1>2 DEF Inv, JobInHand, OutcomesOwed
<1>9. Submissions(queue) \subseteq Callers
  BY FlightFinite DEF InFlight
<1>10. OutcomesOwed'
  BY <1>1, <1>2, <1>3, <1>6, <1>8, <1>9 DEF Inv, OutcomesOwed
<1> QED BY <1>4, <1>5, <1>7, <1>10 DEF Inv

\* _fail_pending leaves nothing pending but what the thread holds, and posts one
\* release for each submission it answers.
LEMMA PendingFailed ==
    ASSUME Inv, FailPending, worker # "executing", slots' = slots
    PROVE  /\ queue' = << >> /\ Submissions(queue') = {}
           /\ result' \in [Callers -> {"none", "pending", "value", "error", "retired"}]
           /\ \A c \in Callers : result'[c] # "pending" /\ (result'[c] = "none" <=> result[c] = "none")
           /\ releases' \in 0..Slots
           /\ slots' + releases' + Cardinality({job} \ {NoJob}) = Slots
<1> DEFINE S == Submissions(queue)
           H == {job} \ {NoJob}
<1>1. queue' = << >> /\ Submissions(queue') = {}
  BY DEF FailPending, Submissions, ToSet
<1>2. /\ result' \in [Callers -> {"none", "pending", "value", "error", "retired"}]
      /\ \A c \in Callers : result'[c] = IF c \in S THEN "retired" ELSE result[c]
  BY DEF FailPending, Inv, TypeOK
<1>3. \A c \in Callers : result'[c] # "pending" /\ (result'[c] = "none" <=> result[c] = "none")
  BY <1>2 DEF Inv, OutcomesOwed
<1>4. IsFiniteSet(S) /\ Cardinality(S) \in Nat /\ job \notin S /\ InFlight = S \cup H
  BY FlightFinite DEF Inv, OutcomesOwed, InFlight
<1>5. Cardinality(InFlight) = Cardinality(S) + Cardinality(H) /\ Cardinality(H) \in Nat
  <2>1. CASE job = NoJob
    <3>1. H = {} /\ InFlight = S
      BY <2>1, <1>4
    <3> QED BY <3>1, <1>4, FS_EmptySet
  <2>2. CASE job # NoJob
    <3>1. H = {job} /\ InFlight = S \cup {job}
      BY <2>2, <1>4
    <3>2. Cardinality(S \cup {job}) = Cardinality(S) + 1
      BY <1>4, FS_AddElement
    <3>3. Cardinality({job}) = 1
      BY FS_Singleton
    <3> HIDE DEF S, H
    <3> QED BY <3>1, <3>2, <3>3
  <2> QED BY <2>1, <2>2
<1>6. releases' = releases + Cardinality(S) /\ slots' = slots
  BY DEF FailPending
<1>7. slots + releases + Cardinality(InFlight) = Slots
      /\ slots \in Nat /\ releases \in Nat /\ Slots \in Nat
  BY WriterAssumption DEF Inv, TypeOK, SlotsConserved
<1> HIDE DEF S, H
<1>8. \A a, b, m, n, t \in Nat : a + b + (m + n) = t =>
          b + m \in 0..t /\ a + (b + m) + n = t
  OBVIOUS
<1>9. releases' \in 0..Slots /\ slots' + releases' + Cardinality(H) = Slots
  BY <1>4, <1>5, <1>6, <1>7, <1>8
<1> QED BY <1>1, <1>2, <1>3, <1>9 DEF H

\* A retired worker keeps the submission that retired it, which is answered.
LEMMA RetireStep ==
    ASSUME Inv, Retire
    PROVE  Inv'
<1>1. /\ worker = "retiring" /\ worker' = "releasing" /\ fatal' = TRUE /\ FailPending
      /\ UNCHANGED <<opener, closer, caller, slots, closed, ready, ended, job, conn>>
  BY DEF Retire
<1>2. /\ queue' = << >> /\ Submissions(queue') = {}
      /\ result' \in [Callers -> {"none", "pending", "value", "error", "retired"}]
      /\ \A c \in Callers : result'[c] # "pending" /\ (result'[c] = "none" <=> result[c] = "none")
      /\ releases' \in 0..Slots
      /\ slots' + releases' + Cardinality({job} \ {NoJob}) = Slots
  BY <1>1, PendingFailed
<1>3. job \in Callers /\ job # NoJob
  BY <1>1 DEF Inv, TypeOK, JobInHand
<1>4. TypeOK'
  BY <1>1, <1>2 DEF Inv, TypeOK
<1>5. InFlight' = {job} \ {NoJob}
  BY <1>1, <1>2 DEF InFlight
<1>6. SlotsConserved'
  BY <1>2, <1>5 DEF SlotsConserved
<1>7. QueueInOrder' /\ RetiredIsEmpty'
  BY <1>1, <1>2 DEF QueueInOrder, RetiredIsEmpty
<1>8. JobInHand' /\ OutcomesOwed' /\ CustodyKept'
  BY <1>1, <1>2, <1>3 DEF Inv, JobInHand, OutcomesOwed, CustodyKept
<1> QED BY <1>4, <1>6, <1>7, <1>8 DEF Inv

\* The thread failed between two submissions: nothing is in its hand.
LEMMA FailWorkerStep ==
    ASSUME Inv, FailWorker
    PROVE  Inv'
<1>1. /\ worker = "failing" /\ worker' = "finishing" /\ fatal' = TRUE /\ FailPending
      /\ ready' = IF ready = "pending" THEN "error" ELSE ready
      /\ UNCHANGED <<opener, closer, caller, slots, closed, ended, job, conn>>
  BY DEF FailWorker
<1>2. /\ queue' = << >> /\ Submissions(queue') = {}
      /\ result' \in [Callers -> {"none", "pending", "value", "error", "retired"}]
      /\ \A c \in Callers : result'[c] # "pending" /\ (result'[c] = "none" <=> result[c] = "none")
      /\ releases' \in 0..Slots
      /\ slots' + releases' + Cardinality({job} \ {NoJob}) = Slots
  BY <1>1, PendingFailed
<1>3. job = NoJob
  BY <1>1 DEF Inv, JobInHand
<1>4. TypeOK'
  BY <1>1, <1>2 DEF Inv, TypeOK
<1>5. InFlight' = {job} \ {NoJob}
  BY <1>1, <1>2 DEF InFlight
<1>6. SlotsConserved'
  BY <1>2, <1>5 DEF SlotsConserved
<1>7. QueueInOrder' /\ RetiredIsEmpty'
  BY <1>1, <1>2 DEF QueueInOrder, RetiredIsEmpty
<1>8. JobInHand' /\ OutcomesOwed' /\ CustodyKept'
  BY <1>1, <1>2, <1>3 DEF Inv, JobInHand, OutcomesOwed, CustodyKept
<1> QED BY <1>4, <1>6, <1>7, <1>8 DEF Inv

\* The slot of the submission in hand goes back as a message to the loop.
LEMMA ReleaseJobStep ==
    ASSUME Inv, ReleaseJob
    PROVE  Inv'
<1>1. /\ worker = "releasing" /\ worker' = (IF fatal THEN "finishing" ELSE "getting")
      /\ releases' = releases + 1 /\ job' = NoJob
      /\ UNCHANGED <<opener, closer, caller, result, slots, queue, control, conn>>
  BY DEF ReleaseJob
<1>2. job \in Callers /\ job # NoJob /\ job \notin Submissions(queue)
  BY <1>1 DEF Inv, TypeOK, JobInHand, OutcomesOwed
<1>3. InFlight = Submissions(queue) \cup {job} /\ InFlight' = Submissions(queue)
  BY <1>1, <1>2 DEF InFlight, Submissions
<1>4. /\ Cardinality(InFlight) = Cardinality(InFlight') + 1
      /\ Cardinality(InFlight') \in Nat
  BY <1>2, <1>3, FlightFinite, FS_AddElement
<1>5. slots + releases + Cardinality(InFlight) = Slots /\ slots' = slots
      /\ slots \in Nat /\ releases \in Nat /\ Slots \in Nat
  BY <1>1, WriterAssumption DEF Inv, TypeOK, SlotsConserved
<1>6. \A a, b, n, t \in Nat : a + b + (n + 1) = t => b + 1 \in 0..t /\ a + (b + 1) + n = t
  OBVIOUS
<1>7. releases' \in 0..Slots /\ SlotsConserved'
  BY <1>1, <1>4, <1>5, <1>6 DEF SlotsConserved
<1>8. TypeOK'
  BY <1>1, <1>7 DEF Inv, TypeOK, control
<1>9. QueueInOrder' /\ RetiredIsEmpty'
  BY <1>1 DEF Inv, QueueInOrder, RetiredIsEmpty, control
<1>10. JobInHand' /\ CustodyKept'
  BY <1>1 DEF Inv, JobInHand, CustodyKept
<1>11. Submissions(queue) \subseteq Callers
  BY FlightFinite DEF InFlight
<1>12. OutcomesOwed'
  BY <1>1, <1>2, <1>11, NamesAssumption DEF Inv, OutcomesOwed, Submissions
<1> QED BY <1>7, <1>8, <1>9, <1>10, <1>12 DEF Inv

-----------------------------------------------------------------------------
(* The theorems *)

\* Every step of the loop and of the thread preserves the invariant.
LEMMA StepInv == Inv /\ [Next]_vars => Inv'
<1> SUFFICES ASSUME Inv, [Next]_vars PROVE Inv'
  OBVIOUS
<1>1. ASSUME NEW c \in Callers, Run(c) \/ Cancel(c) \/ Return(c) PROVE Inv'
  BY <1>1, CallerSteps
<1>2. ASSUME NEW c \in Callers, Submit(c) PROVE Inv'
  BY <1>2, SubmitStep
<1>3. CASE RunRelease \/ OpenReturns \/ OpenCancelReturns \/ CloseReturns
  BY <1>3, LoopSteps
<1>4. CASE OpenCancelled \/ Close
  BY <1>4, CloseSteps
<1>5. CASE OpenDatabase \/ Finish
  BY <1>5, ThreadStays
<1>6. CASE GetJob
  BY <1>6, GetJobStep
<1>7. CASE GetStop
  BY <1>7, GetStopStep
<1>8. CASE ExecuteSettles \/ ExecuteBreaks
  BY <1>8, ExecuteSteps
<1>9. CASE Retire
  BY <1>9, RetireStep
<1>10. CASE ReleaseJob
  BY <1>10, ReleaseJobStep
<1>11. CASE FailWorker
  BY <1>11, FailWorkerStep
<1>12. CASE UNCHANGED vars
  <2>1. TypeOK' /\ UNCHANGED <<result, queue, closed, fatal, worker, job, caller, slots, releases>>
    BY <1>12 DEF vars, control, thread, Inv, TypeOK
  <2> QED BY <2>1, QuietStep
<1> QED BY <1>1, <1>2, <1>3, <1>4, <1>5, <1>6, <1>7, <1>8, <1>9, <1>10, <1>11, <1>12
        DEF Next, Loop, Work

\* The inductive invariant holds in every reachable state.
THEOREM InvHolds == Spec => []Inv
BY InitInv, StepInv, PTL DEF Spec

\* The type invariant.
THEOREM TypeCorrect == Spec => []TypeOK
<1>1. Inv => TypeOK
  BY DEF Inv
<1> QED BY <1>1, InvHolds, PTL

\* Each admitted submission holds one slot and gets one outcome, the thread does
\* not die with one in its queue, and run() does not leave one behind.
THEOREM SubmissionsAreKept == Spec => []SubmissionsKept
<1>1. Inv => PendingIsServed
  <2> SUFFICES ASSUME Inv, NEW c \in Callers, result[c] = "pending"
               PROVE  c \in InFlight /\ worker \notin {"finishing", "dead"}
    BY DEF PendingIsServed
  <2>1. c \in Submissions(queue) \/ (worker = "executing" /\ c = job)
    BY DEF Inv, OutcomesOwed
  <2>2. queue = << >> => Submissions(queue) = {}
    BY DEF Submissions, ToSet
  <2> QED BY <2>1, <2>2, NamesAssumption DEF Inv, RetiredIsEmpty, InFlight
<1>2. Inv => SubmissionsKept
  BY <1>1 DEF Inv, SubmissionsKept
<1> QED BY <1>2, InvHolds, PTL

-----------------------------------------------------------------------------
(* The demand coordinator *)

\* A slice and what is kept of its revision: nothing holds it, for it was released when
\* it was selected; what runs does not back off either; and a refusal for capacity that
\* is not handled yet knows whether capacity was freed after it.
SliceSound(s, h, taken) ==
    /\ s.step = "none" <=> s.revision = None
    /\ s.step \notin {"none", "ended"} =>
            h[s.revision].reason = "none" /\ h[s.revision].wait = "no"
    /\ s.step \notin {"none", "created", "ended"} => h[s.revision].transient = "no"
    /\ s.step = "capacity" => s.changed \/ taken

\* The slice of the loop is of a kind that is not retained, and the loop waits for it;
\* the one aside is of a retained kind.
SlicesPlaced ==
    /\ SliceSound(inline, held, busy) /\ SliceSound(aside, held, busy)
    /\ inline.revision # None => KindFor(inline.revision) \notin Retained /\ pump.stage = "slice"
    /\ aside.revision # None => KindFor(aside.revision) \in Retained

\* What waits for capacity waits for nothing else, and only while it is taken.
CapacityHeld ==
    /\ \A k \in DemandKinds \ Gated : eligible[k] = "open"
    /\ \A r \in Revisions :
            held[r].reason = "capacity" =>
                /\ held[r].wait = "open" /\ held[r].transient = "no"
                /\ KindFor(r) \notin Gated => busy

\* The queue is of distinct kinds that the last scan found ready.
QueueKept ==
    /\ IsInjective(pump.queue)
    /\ \A k \in ToSet(pump.queue) : pump.selected[k] # None /\ ~RetainedKind(aside, k)
    /\ pump.stage = "wait" => pump.queue = <<>>
    /\ pump.offered # {} => pump.wake

\* What the loop could run, its gate apart, while it waits: the safety scan is
\* left for a kind whose status failed only.
WorkNoticed ==
    (pump.stage = "wait" /\ ~pump.wake) =>
        \A r \in Revisions :
            (CurrentOf(r) /\ ~Excluded(held, r) /\ ~RetainedKind(aside, KindFor(r)))
                => pump.failed[KindFor(r)] # "no"

CoordinatorInv ==
    CoordinatorTypeOK /\ SlicesPlaced /\ CapacityHeld /\ QueueKept /\ WorkNoticed

-----------------------------------------------------------------------------
LEMMA KindFacts ==
    /\ None \notin Revisions /\ None \notin DemandKinds
    /\ \A r \in Revisions : r[1] \in Works /\ KindFor(r) \in DemandKinds
    /\ Retained \subseteq DemandKinds /\ \A k, m \in Retained : k = m
BY WorkAssumption DEF Revisions, KindFor

LEMMA BlankFacts ==
    Blank \in Entries /\ NoSlice \in SliceRecords
BY DEF Blank, Entries, NoInvocation, NoSlice, SliceRecords

\* A release leaves the backoff and the invocation alone.
LEMMA ReleaseFacts ==
    ASSUME NEW h \in [Revisions -> Entries], NEW R
    PROVE  /\ ReleaseAll(h, R) \in [Revisions -> Entries]
           /\ \A r \in Revisions :
                /\ r \notin R => ReleaseAll(h, R)[r] = h[r]
                /\ ReleaseAll(h, R)[r].transient = h[r].transient
                /\ r \in R => ReleaseAll(h, R)[r].reason = "none" /\ ReleaseAll(h, R)[r].wait = "no"
<1>1. \A e \in Entries : /\ Released(e) \in Entries /\ Released(e).transient = e.transient
                         /\ Released(e).reason = "none" /\ Released(e).wait = "no"
  BY DEF Released, Entries
<1> QED BY <1>1 DEF ReleaseAll

\* What releases and expired waits make of the entries.
Weakened(h, g) ==
    \A r \in Revisions :
        /\ g[r].transient = h[r].transient
        /\ g[r].reason = h[r].reason \/ g[r].reason = "none"
        /\ g[r].wait = h[r].wait \/ g[r].wait = "no"
        /\ g[r].reason = "capacity" => g[r] = h[r]

LEMMA ReleaseWeakens ==
    ASSUME NEW h \in [Revisions -> Entries], NEW R
    PROVE  ReleaseAll(h, R) \in [Revisions -> Entries] /\ Weakened(h, ReleaseAll(h, R))
BY ReleaseFacts DEF Weakened

LEMMA ExpiredFacts ==
    ASSUME NEW h \in [Revisions -> Entries]
    PROVE  Expired(h) \in [Revisions -> Entries] /\ Weakened(h, Expired(h))
<1> DEFINE R == {r \in Revisions : h[r].wait = "due" /\ h[r].transient # "timed"}
           g == ReleaseAll(h, R)
<1>1. g \in [Revisions -> Entries] /\ Weakened(h, g)
  BY ReleaseWeakens
<1>2. Expired(h) = [r \in Revisions |->
            IF g[r].transient = "due" /\ g[r].wait = "no" THEN [g[r] EXCEPT !.reason = "none"] ELSE g[r]]
  BY DEF Expired
<1> HIDE DEF g
<1> DEFINE e(r) == [g[r] EXCEPT !.reason = "none"]
<1>3. \A r \in Revisions :
        /\ e(r) \in Entries /\ e(r).reason = "none"
        /\ e(r).wait = g[r].wait /\ e(r).transient = g[r].transient
  BY <1>1, SMTT(40) DEF Entries
<1>4. Expired(h) \in [Revisions -> Entries]
  <2>1. \A r \in Revisions : g[r] \in Entries
    BY <1>1
  <2> QED BY <2>1, <1>2, <1>3
<1>5. \A r \in Revisions : Expired(h)[r] = g[r] \/ Expired(h)[r] = e(r)
  BY <1>2
<1> HIDE DEF e
<1>6. Weakened(h, Expired(h))
  BY <1>1, <1>3, <1>5 DEF Weakened
<1> QED BY <1>4, <1>6

LEMMA CandidateFacts ==
    ASSUME NEW h \in [Revisions -> Entries], NEW k
    PROVE  \A r \in Candidates(h, k) :
              r \in Revisions /\ KindFor(r) = k /\ CurrentOf(r) /\ h[r].reason = "none"
BY DEF Candidates, Excluded

LEMMA SelectionFacts ==
    ASSUME NEW h \in [Revisions -> Entries], NEW slice, NEW broken, NEW c \in Selections(h, slice, broken)
    PROVE  /\ c \in [DemandKinds -> Revisions \cup {None}]
           /\ \A k \in DemandKinds :
                c[k] # None => /\ Scanned(slice, k) /\ k \notin broken /\ eligible[k] = "open"
                               /\ c[k] \in Candidates(h, k)
           /\ \A k \in DemandKinds :
                (Scanned(slice, k) /\ k \notin broken /\ eligible[k] = "open" /\ Candidates(h, k) # {})
                    => c[k] # None
BY KindFacts, CandidateFacts DEF Selections

LEMMA ParkedFacts ==
    ASSUME NEW e \in Entries, NEW reason \in {"gate", "capacity"}, NEW wait \in {"open", "timed"}
    PROVE  /\ Parked(e, reason, wait) \in Entries /\ Parked(e, reason, wait).reason = reason
           /\ Parked(e, reason, wait).wait = wait /\ Parked(e, reason, wait).transient = e.transient
BY DEF Parked, Entries

\* A scan excludes what its gate stops, and leaves what it selects held by nothing.
LEMMA ScanFacts ==
    ASSUME NEW h \in [Revisions -> Entries], NEW slice, NEW broken, NEW c \in Selections(h, slice, broken),
           NEW r \in Revisions
    PROVE  LET g == ScannedHeld(h, slice, broken, c)
               k == KindFor(r)
           IN  /\ g \in [Revisions -> Entries]
               /\ (~Scanned(slice, k) \/ k \in broken) => g[r] = h[r]
               /\ r = c[k] => g[r].reason = "none" /\ g[r].wait = "no"
               /\ g[r].reason = "capacity" => g[r] = h[r]
               /\ (g[r].reason = "none" /\ CurrentOf(r) /\ Scanned(slice, k) /\ k \notin broken)
                    => c[k] # None
<1> DEFINE g == ScannedHeld(h, slice, broken, c)
           k(q) == KindFor(q)
           parked(q) == Parked(h[q], "gate", IF eligible[k(q)] = "timed" THEN "timed" ELSE "open")
<1>1. \A q \in Revisions : /\ parked(q) \in Entries /\ [h[q] EXCEPT !.wait = "no"] \in Entries
                           /\ parked(q).reason = "gate"
  <2>1. \A q \in Revisions : h[q] \in Entries
    OBVIOUS
  <2>2. \A q \in Revisions : parked(q) \in Entries /\ parked(q).reason = "gate"
    BY <2>1, ParkedFacts
  <2>3. \A e \in Entries : [e EXCEPT !.wait = "no"] \in Entries
    BY DEF Entries
  <2> QED BY <2>1, <2>2, <2>3
<1>2. g = [q \in Revisions |->
            IF ~Scanned(slice, k(q)) \/ k(q) \in broken THEN h[q]
            ELSE IF q \in Candidates(h, k(q)) /\ eligible[k(q)] # "open" THEN parked(q)
            ELSE IF q = c[k(q)] THEN [h[q] EXCEPT !.wait = "no"]
            ELSE IF c[k(q)] # None /\ c[k(q)][1] = q[1] /\ h[q].invocation # NoInvocation
            THEN Blank ELSE h[q]]
  BY DEF ScannedHeld
<1> HIDE DEF g, parked
<1>3. g \in [Revisions -> Entries]
  BY <1>1, <1>2, BlankFacts
<1>4. /\ k(r) \in DemandKinds /\ r \in Revisions
      /\ c[k(r)] # None => /\ Scanned(slice, k(r)) /\ k(r) \notin broken /\ eligible[k(r)] = "open"
                           /\ c[k(r)] \in Candidates(h, k(r))
      /\ (Scanned(slice, k(r)) /\ k(r) \notin broken /\ eligible[k(r)] = "open" /\ Candidates(h, k(r)) # {})
            => c[k(r)] # None
  BY KindFacts, SelectionFacts
<1>5. r = c[k(r)] => g[r] = [h[r] EXCEPT !.wait = "no"] /\ h[r].reason = "none"
  BY <1>2, <1>4, KindFacts, CandidateFacts
<1>6. r = c[k(r)] => g[r].reason = "none" /\ g[r].wait = "no"
  BY <1>5, <1>3 DEF Entries
<1>7. g[r].reason = "capacity" => g[r] = h[r]
  BY <1>1, <1>2, <1>6 DEF Blank
<1>8. CurrentOf(r) /\ h[r].reason = "none" => r \in Candidates(h, k(r))
  BY DEF Candidates, Excluded
<1>9. ASSUME g[r].reason = "none", CurrentOf(r), Scanned(slice, k(r)), k(r) \notin broken
      PROVE  c[k(r)] # None
  <2> SUFFICES ASSUME c[k(r)] = None PROVE FALSE
    OBVIOUS
  <2>1. c[k(r)] # r
    BY KindFacts
  <2>2. g[r] = IF r \in Candidates(h, k(r)) /\ eligible[k(r)] # "open" THEN parked(r) ELSE h[r]
    BY <1>2, <1>9, <2>1
  <2>3. r \notin Candidates(h, k(r)) \/ eligible[k(r)] # "open"
    BY <1>4, <1>9
  <2>4. r \notin Candidates(h, k(r))
    BY <1>1, <1>9, <2>2, <2>3
  <2> QED BY <1>8, <1>9, <2>2, <2>4
<1>10. (~Scanned(slice, k(r)) \/ k(r) \in broken) => g[r] = h[r]
  BY <1>2
<1> QED BY <1>3, <1>6, <1>7, <1>9, <1>10 DEF g

-----------------------------------------------------------------------------
LEMMA WeakenedIsSound ==
    ASSUME NEW h \in [Revisions -> Entries], NEW g \in [Revisions -> Entries], Weakened(h, g),
           NEW s \in SliceRecords, NEW b, SliceSound(s, h, b)
    PROVE  SliceSound(s, g, b)
<1>1. s.revision # None => s.revision \in Revisions
  BY DEF SliceRecords
<1> QED BY <1>1 DEF Weakened, SliceSound

\* A notification releases some entries, marks the slices and wakes the loop.
LEMMA NotificationFacts ==
    ASSUME CoordinatorInv, NEW k, NEW g, EligibilityChanged(k, g)
    PROVE  /\ held' \in [Revisions -> Entries] /\ Weakened(held, held')
           /\ inline' \in SliceRecords /\ inline'.revision = inline.revision
           /\ aside' \in SliceRecords /\ aside'.revision = aside.revision
           /\ SliceSound(inline', held', FALSE) /\ SliceSound(aside', held', FALSE)
           /\ pump' \in PumpRecords /\ pump'.wake /\ pump'.stage = pump.stage
           /\ pump'.queue = pump.queue /\ pump'.selected = pump.selected
<1> USE DEF CoordinatorInv, CoordinatorTypeOK
<1>1. PICK R : held' = ReleaseAll(held, R)
  BY DEF EligibilityChanged, ReleaseReady
<1>2. held' \in [Revisions -> Entries] /\ Weakened(held, held')
  BY <1>1, ReleaseWeakens
<1>3. ASSUME NEW s \in SliceRecords, SliceSound(s, held, busy), NEW t, t = [s EXCEPT !.changed = s.revision # None]
      PROVE  t \in SliceRecords /\ t.revision = s.revision /\ SliceSound(t, held', FALSE)
  <2>1. SliceSound(s, held', busy)
    BY <1>2, <1>3, WeakenedIsSound
  <2>2. t \in SliceRecords /\ t.revision = s.revision /\ t.step = s.step /\ (t.changed <=> s.revision # None)
    BY <1>3 DEF SliceRecords
  <2> QED BY <2>1, <2>2 DEF SliceSound
<1>4. pump' = [pump EXCEPT !.wake = TRUE]
  BY DEF EligibilityChanged
<1>5. /\ pump' \in PumpRecords /\ pump'.wake /\ pump'.stage = pump.stage
      /\ pump'.queue = pump.queue /\ pump'.selected = pump.selected
  BY <1>4 DEF PumpRecords
<1>6. /\ inline' = [inline EXCEPT !.changed = inline.revision # None]
      /\ aside' = [aside EXCEPT !.changed = aside.revision # None]
  BY DEF EligibilityChanged
<1>7. SliceSound(inline, held, busy) /\ SliceSound(aside, held, busy)
  BY DEF SlicesPlaced
<1> QED BY <1>2, <1>3, <1>5, <1>6, <1>7

LEMMA NotifiedStep ==
    ASSUME CoordinatorInv, NEW k, EligibilityChanged(k, eligible'), UNCHANGED <<work, closing, refusals>>,
           eligible' \in [DemandKinds -> {"open", "timed", "blocked"}], busy' \in BOOLEAN,
           \A m \in DemandKinds \ Gated : eligible'[m] = "open",
           \A r \in Revisions : held'[r].reason = "capacity" /\ KindFor(r) \notin Gated => busy'
    PROVE  CoordinatorInv'
<1> USE NotificationFacts
<1>1. CoordinatorTypeOK'
  BY DEF CoordinatorInv, CoordinatorTypeOK
<1>2. SlicesPlaced'
  <2>1. SliceSound(inline', held', busy') /\ SliceSound(aside', held', busy')
    BY DEF SliceSound
  <2> QED BY <2>1 DEF CoordinatorInv, SlicesPlaced, KindFor
<1>3. CapacityHeld'
  <2>1. Weakened(held, held')
    OBVIOUS
  <2>2. \A r \in Revisions : held'[r].reason = "capacity" => held'[r] = held[r]
    BY <2>1 DEF Weakened
  <2> QED BY <2>2 DEF CoordinatorInv, CapacityHeld, KindFor
<1>4. QueueKept'
  BY DEF CoordinatorInv, QueueKept, RetainedKind, KindFor
<1>5. WorkNoticed'
  BY DEF WorkNoticed
<1> QED BY <1>1, <1>2, <1>3, <1>4, <1>5 DEF CoordinatorInv

LEMMA GateOpensStep ==
    ASSUME CoordinatorInv, NEW k \in DemandKinds, NEW method, GateOpens(k, method)
    PROVE  CoordinatorInv'
<1>1. /\ EligibilityChanged(method, eligible') /\ UNCHANGED <<work, closing, refusals, busy>>
      /\ eligible' = [eligible EXCEPT ![k] = "open"]
  BY DEF GateOpens
<1>2. held' \in [Revisions -> Entries] /\ Weakened(held, held')
  BY <1>1, NotificationFacts
<1>3. /\ eligible' \in [DemandKinds -> {"open", "timed", "blocked"}] /\ busy' \in BOOLEAN
      /\ \A m \in DemandKinds \ Gated : eligible'[m] = "open"
  BY <1>1 DEF CoordinatorInv, CoordinatorTypeOK, CapacityHeld
<1>4. \A r \in Revisions : held'[r].reason = "capacity" /\ KindFor(r) \notin Gated => busy'
  BY <1>1, <1>2 DEF Weakened, CoordinatorInv, CapacityHeld
<1> QED BY <1>1, <1>3, <1>4, NotifiedStep

\* Capacity that is freed releases whatever waits for it and whose gate is open.
LEMMA CapacityFreedStep ==
    ASSUME CoordinatorInv, CapacityFreed PROVE CoordinatorInv'
<1>1. /\ EligibilityChanged(None, eligible') /\ UNCHANGED <<work, closing, refusals, eligible>> /\ busy' = FALSE
      /\ held' = ReleaseReady(held, eligible)
  BY DEF CapacityFreed, EligibilityChanged
<1>2. held \in [Revisions -> Entries]
  BY DEF CoordinatorInv, CoordinatorTypeOK
<1>3. held' \in [Revisions -> Entries] /\ Weakened(held, held')
  BY <1>1, NotificationFacts
<1>4. ASSUME NEW r \in Revisions, held'[r].reason = "capacity", KindFor(r) \notin Gated PROVE FALSE
  <2>1. held[r].reason = "capacity"
    BY <1>3, <1>4 DEF Weakened
  <2>2. WaitReady(held, r) /\ eligible[KindFor(r)] = "open"
    BY <2>1, <1>4, KindFacts DEF WaitReady, CoordinatorInv, CapacityHeld
  <2> QED BY <1>1, <1>2, <1>4, <2>2, ReleaseFacts DEF ReleaseReady
<1>5. /\ eligible' \in [DemandKinds -> {"open", "timed", "blocked"}] /\ busy' \in BOOLEAN
      /\ \A m \in DemandKinds \ Gated : eligible'[m] = "open"
  BY <1>1 DEF CoordinatorInv, CoordinatorTypeOK, CapacityHeld
<1> QED BY <1>1, <1>4, <1>5, NotifiedStep

-----------------------------------------------------------------------------
\* Steps that leave the entries, the slices and the rows alone.
LEMMA OutsideSteps ==
    ASSUME CoordinatorInv
    PROVE  /\ WaitEnds => CoordinatorInv'
           /\ \A k \in DemandKinds : StatusRetried(k) => CoordinatorInv'
           /\ \A k \in DemandKinds : RestrictionPasses(k) => CoordinatorInv'
           /\ \A k \in DemandKinds, how \in {"timed", "blocked"} : GateCloses(k, how) => CoordinatorInv'
           /\ CapacityTaken => CoordinatorInv'
           /\ Shutdown => CoordinatorInv'
           /\ UNCHANGED coordinatorVars => CoordinatorInv'
<1> USE DEF CoordinatorInv, CoordinatorTypeOK, SlicesPlaced, CapacityHeld, QueueKept, WorkNoticed,
        KindFor, RetainedKind, CurrentOf, Current, Pending, Excluded
<1>1. ASSUME WaitEnds PROVE CoordinatorInv'
  <2>1. /\ pump' \in PumpRecords /\ pump'.stage = "turn" /\ pump'.queue = pump.queue
        /\ pump'.selected = pump.selected /\ pump'.offered = pump.offered /\ pump'.wake = pump.wake
        /\ pump.stage = "wait"
    BY <1>1 DEF WaitEnds, PumpRecords
  <2>2. UNCHANGED <<work, eligible, busy, held, inline, aside, closing, refusals>>
    BY <1>1 DEF WaitEnds
  <2> QED BY <2>1, <2>2 DEF SliceSound
<1>2. ASSUME NEW k \in DemandKinds, StatusRetried(k) PROVE CoordinatorInv'
  <2>1. /\ pump' \in PumpRecords /\ pump'.stage = pump.stage /\ pump'.queue = pump.queue
        /\ pump'.selected = pump.selected /\ pump'.offered = pump.offered /\ pump'.wake = pump.wake
        /\ \A m \in DemandKinds : pump.failed[m] # "no" => pump'.failed[m] # "no"
    BY <1>2 DEF StatusRetried, PumpRecords
  <2>2. UNCHANGED <<work, eligible, busy, held, inline, aside, closing, refusals>>
    BY <1>2 DEF StatusRetried
  <2> QED BY <2>1, <2>2, KindFacts DEF SliceSound
<1>3. ASSUME NEW k \in DemandKinds, RestrictionPasses(k) PROVE CoordinatorInv'
  BY <1>3 DEF RestrictionPasses, SliceSound
<1>4. ASSUME NEW k \in DemandKinds, NEW how \in {"timed", "blocked"}, GateCloses(k, how) PROVE CoordinatorInv'
  BY <1>4, WorkAssumption DEF GateCloses, SliceSound
<1>5. ASSUME CapacityTaken PROVE CoordinatorInv'
  BY <1>5, WorkAssumption DEF CapacityTaken, SliceSound
<1>6. ASSUME Shutdown PROVE CoordinatorInv'
  <2>1. /\ pump' \in PumpRecords /\ pump'.stage = pump.stage /\ pump'.queue = pump.queue
        /\ pump'.selected = pump.selected /\ pump'.wake
    BY <1>6 DEF Shutdown, PumpRecords
  <2>2. UNCHANGED <<work, eligible, busy, held, inline, aside>> /\ closing' = TRUE
        /\ refusals < MaxRefusals /\ refusals' = refusals + 1
    BY <1>6 DEF Shutdown
  <2> QED BY <2>1, <2>2, WorkAssumption DEF SliceSound
<1>7. ASSUME UNCHANGED coordinatorVars PROVE CoordinatorInv'
  BY <1>7 DEF coordinatorVars, SliceSound
<1> QED BY <1>1, <1>2, <1>3, <1>4, <1>5, <1>6, <1>7

\* Shutdown drops the retained task.
LEMMA LoopStopsStep ==
    ASSUME CoordinatorInv, LoopStops PROVE CoordinatorInv'
<1> USE DEF CoordinatorInv, CoordinatorTypeOK, SlicesPlaced, CapacityHeld, QueueKept, WorkNoticed
<1>1. /\ pump' \in PumpRecords /\ pump'.stage = "stopped" /\ pump'.queue = pump.queue
      /\ pump'.selected = pump.selected /\ pump'.offered = pump.offered /\ pump'.wake = pump.wake
      /\ pump.stage # "slice"
  BY DEF LoopStops, PumpRecords
<1>2. aside' = NoSlice /\ UNCHANGED <<work, eligible, busy, held, inline, closing, refusals>>
  BY DEF LoopStops
<1>3. SliceSound(aside', held', busy') /\ aside' \in SliceRecords /\ aside'.revision = None
  BY <1>2, BlankFacts DEF SliceSound, NoSlice
<1> QED BY <1>1, <1>2, <1>3 DEF SliceSound, KindFor, RetainedKind

\* A deadline that passes holds nothing that was not held.
LEMMA TickStep ==
    ASSUME CoordinatorInv, NEW r \in Revisions, Tick(r) PROVE CoordinatorInv'
<1>1. UNCHANGED <<work, eligible, busy, pump, inline, aside, closing, refusals>>
  BY DEF Tick
<1>2. /\ held' \in [Revisions -> Entries]
      /\ \A q \in Revisions :
            /\ held'[q].reason = held[q].reason
            /\ held[q].wait # "timed" => held'[q].wait = held[q].wait
            /\ held[q].transient # "timed" => held'[q].transient = held[q].transient
  <2>1. held \in [Revisions -> Entries] /\ held[r] \in Entries
    BY DEF CoordinatorInv, CoordinatorTypeOK
  <2>2. PICK e \in Entries :
            /\ held' = [held EXCEPT ![r] = e] /\ e.reason = held[r].reason
            /\ held[r].wait # "timed" => e.wait = held[r].wait
            /\ held[r].transient # "timed" => e.transient = held[r].transient
    <3>1. CASE held[r].wait = "timed" /\ held' = [held EXCEPT ![r].wait = "due"]
      <4> DEFINE e == [held[r] EXCEPT !.wait = "due"]
      <4>1. held' = [held EXCEPT ![r] = e]
        BY <3>1
      <4>2. /\ e \in Entries /\ e.reason = held[r].reason
            /\ held[r].wait # "timed" => e.wait = held[r].wait
            /\ held[r].transient # "timed" => e.transient = held[r].transient
        BY <2>1, <3>1 DEF Entries
      <4> HIDE DEF e
      <4> QED BY <4>1, <4>2
    <3>2. CASE held[r].transient = "timed" /\ held' = [held EXCEPT ![r].transient = "due"]
      <4> DEFINE e == [held[r] EXCEPT !.transient = "due"]
      <4>1. held' = [held EXCEPT ![r] = e]
        BY <3>2
      <4>2. /\ e \in Entries /\ e.reason = held[r].reason
            /\ held[r].wait # "timed" => e.wait = held[r].wait
            /\ held[r].transient # "timed" => e.transient = held[r].transient
        BY <2>1, <3>2 DEF Entries
      <4> HIDE DEF e
      <4> QED BY <4>1, <4>2
    <3>3. CASE held' = [held EXCEPT ![r].invocation.deadline = "passed"]
      <4> DEFINE e == [held[r] EXCEPT !.invocation.deadline = "passed"]
      <4>1. held' = [held EXCEPT ![r] = e]
        BY <3>3
      <4>2. /\ e \in Entries /\ e.reason = held[r].reason
            /\ held[r].wait # "timed" => e.wait = held[r].wait
            /\ held[r].transient # "timed" => e.transient = held[r].transient
        BY <2>1 DEF Entries
      <4> HIDE DEF e
      <4> QED BY <4>1, <4>2
    <3> QED BY <3>1, <3>2, <3>3 DEF Tick
  <2> QED BY <2>1, <2>2
<1>3. CoordinatorTypeOK'
  BY <1>1, <1>2 DEF CoordinatorInv, CoordinatorTypeOK
<1>4. ASSUME NEW s \in SliceRecords, SliceSound(s, held, busy) PROVE SliceSound(s, held', busy)
  <2>1. s.revision # None => s.revision \in Revisions
    BY DEF SliceRecords
  <2> QED BY <1>2, <1>4, <2>1 DEF SliceSound
<1>5. SlicesPlaced'
  BY <1>1, <1>4 DEF CoordinatorInv, CoordinatorTypeOK, SlicesPlaced, KindFor
<1>6. CapacityHeld'
  BY <1>1, <1>2 DEF CoordinatorInv, CapacityHeld, KindFor
<1>7. QueueKept' /\ WorkNoticed'
  BY <1>1, <1>2 DEF CoordinatorInv, QueueKept, WorkNoticed, RetainedKind, KindFor, CurrentOf, Current,
     Pending, Excluded
<1> QED BY <1>3, <1>5, <1>6, <1>7 DEF CoordinatorInv

\* Work that is offered wakes the loop, or the loop does not wait, or its kind runs.
LEMMA OfferStep ==
    ASSUME CoordinatorInv, NEW w \in Works, OfferWork(w) PROVE CoordinatorInv'
<1> DEFINE k == KindOf[w]
           ignored == \/ k \in pump.offered \/ k \in ToSet(pump.queue)
                      \/ RetainedKind(inline, k) \/ RetainedKind(aside, k)
<1>1. /\ work' = [work EXCEPT ![w] = [revision |-> @.revision + 1, pending |-> TRUE]]
      /\ work[w].revision < MaxRevision
      /\ pump' = IF ignored THEN pump ELSE [pump EXCEPT !.wake = TRUE, !.offered = @ \cup {k}]
      /\ UNCHANGED <<eligible, busy, held, inline, aside, closing, refusals>>
  BY DEF OfferWork
<1>2. k \in DemandKinds
  BY WorkAssumption
<1>3. /\ pump' \in PumpRecords /\ pump'.stage = pump.stage /\ pump'.queue = pump.queue
      /\ pump'.selected = pump.selected /\ pump'.failed = pump.failed
      /\ pump' = pump \/ pump'.wake
      /\ ~pump'.wake => pump' = pump /\ ignored
  BY <1>1, <1>2 DEF PumpRecords, CoordinatorInv, CoordinatorTypeOK
<1>4. work' \in [Works -> [revision : 1..MaxRevision, pending : BOOLEAN]]
  BY <1>1, WorkAssumption DEF CoordinatorInv, CoordinatorTypeOK
<1>5. CoordinatorTypeOK' /\ SlicesPlaced' /\ CapacityHeld'
  BY <1>1, <1>3, <1>4 DEF CoordinatorInv, CoordinatorTypeOK, SlicesPlaced, SliceSound, CapacityHeld, KindFor
<1>6. QueueKept'
  <2>1. pump'.offered # {} => pump'.wake
    BY <1>3 DEF CoordinatorInv, QueueKept
  <2> QED BY <1>1, <1>3, <2>1 DEF CoordinatorInv, QueueKept, RetainedKind, KindFor
<1>7. WorkNoticed'
  <2> SUFFICES ASSUME pump.stage = "wait", ~pump'.wake, NEW r \in Revisions,
                      CurrentOf(r)', ~Excluded(held, r), ~RetainedKind(aside, KindFor(r))
               PROVE  pump.failed[KindFor(r)] # "no"
    BY <1>1, <1>3 DEF WorkNoticed, RetainedKind, KindFor, Excluded
  <2>1. RetainedKind(aside, k)
    <3>1. pump.offered = {} /\ pump.queue = <<>> /\ inline.revision = None /\ ignored
      BY <1>3 DEF CoordinatorInv, QueueKept, SlicesPlaced
    <3> QED BY <3>1 DEF RetainedKind, ToSet
  <2>2. r[1] # w
    BY <2>1 DEF KindFor
  <2>3. CurrentOf(r)
    BY <1>1, <2>2 DEF CurrentOf, Current, Pending
  <2> QED BY <1>3, <2>3 DEF CoordinatorInv, WorkNoticed
<1> QED BY <1>5, <1>6, <1>7 DEF CoordinatorInv

-----------------------------------------------------------------------------
\* A step of a slice changes what is kept of its revision, and at most releases others.
LEMMA SliceStep ==
    ASSUME CoordinatorInv, NEW where \in Slices, NEW t \in SliceRecords, NEW p \in PumpRecords,
           NEW rev \in Revisions, rev = SliceAt(where).revision, Put(where, t, p),
           t.revision \in {rev, None}, UNCHANGED <<eligible, busy, closing, refusals>>,
           work' \in [Works -> [revision : 1..MaxRevision, pending : BOOLEAN]],
           held' \in [Revisions -> Entries], SliceSound(t, held', busy),
           \A q \in Revisions \ {rev} :
                /\ held'[q].transient = held[q].transient
                /\ held'[q].reason = held[q].reason \/ held'[q].reason = "none"
                /\ held'[q].wait = held[q].wait \/ held'[q].wait = "no"
                /\ held'[q].reason = "capacity" => held'[q] = held[q],
           held'[rev].reason = "capacity" =>
                /\ held'[rev].wait = "open" /\ held'[rev].transient = "no"
                /\ KindFor(rev) \notin Gated => busy,
           p.queue = pump.queue, p.selected = pump.selected, p.failed = pump.failed,
           p.offered = pump.offered, pump.wake => p.wake,
           where = "inline" => p.stage = IF t.revision = None THEN "turn" ELSE pump.stage,
           where = "aside" => p.stage = pump.stage,
           where = "aside" /\ ~p.wake =>
                /\ t.revision = rev
                /\ \A q \in Revisions \ {rev} :
                        /\ held'[q].reason = held[q].reason
                        /\ CurrentOf(q)' /\ KindFor(q) # KindFor(rev) => CurrentOf(q)
    PROVE  CoordinatorInv'
<1> USE DEF CoordinatorInv
<1>1. pump' = p /\ rev # None
  BY KindFacts DEF Put
<1>2. CASE where = "inline"
  <2>1. inline' = t /\ aside' = aside /\ inline.revision = rev /\ pump.stage = "slice"
    BY <1>1, <1>2 DEF Put, SliceAt, SlicesPlaced
  <2>2. CoordinatorTypeOK'
    BY <1>1, <2>1 DEF CoordinatorTypeOK
  <2>3. SliceSound(aside, held', busy) /\ (aside.revision # None => KindFor(aside.revision) \in Retained)
    <3>1. aside.revision # None => aside.revision \in Revisions \ {rev}
      BY <1>1, <2>1 DEF SlicesPlaced, CoordinatorTypeOK, SliceRecords
    <3> QED BY <3>1 DEF SliceSound, SlicesPlaced
  <2>4. SlicesPlaced'
    BY <1>1, <1>2, <2>1, <2>3 DEF SlicesPlaced, KindFor
  <2>5. CapacityHeld'
    BY DEF CapacityHeld, KindFor
  <2>6. QueueKept' /\ WorkNoticed'
    BY <1>1, <1>2, <2>1 DEF QueueKept, WorkNoticed, RetainedKind, KindFor
  <2> QED BY <2>2, <2>4, <2>5, <2>6
<1>3. CASE where = "aside"
  <2>1. aside' = t /\ inline' = inline /\ aside.revision = rev /\ KindFor(rev) \in Retained
    BY <1>1, <1>3 DEF Put, SliceAt, SlicesPlaced
  <2>2. CoordinatorTypeOK'
    BY <1>1, <2>1 DEF CoordinatorTypeOK
  <2>3. SliceSound(inline, held', busy)
    <3>1. inline.revision # None => inline.revision \in Revisions \ {rev}
      BY <1>1, <2>1 DEF SlicesPlaced, CoordinatorTypeOK, SliceRecords
    <3> QED BY <3>1 DEF SliceSound, SlicesPlaced
  <2>4. SlicesPlaced'
    BY <1>1, <1>3, <2>1, <2>3 DEF SlicesPlaced, KindFor
  <2>5. CapacityHeld'
    BY DEF CapacityHeld, KindFor
  <2>6. QueueKept'
    BY <1>1, <1>3, <2>1 DEF QueueKept, RetainedKind, KindFor
  <2>7. WorkNoticed'
    <3> SUFFICES ASSUME pump.stage = "wait", ~p.wake, NEW q \in Revisions,
                        CurrentOf(q)', held'[q].reason = "none", ~RetainedKind(t, KindFor(q))
                 PROVE  pump.failed[KindFor(q)] # "no"
      BY <1>1, <1>3, <2>1 DEF WorkNoticed, RetainedKind, KindFor, Excluded
    <3>1. t.revision = rev /\ KindFor(q) # KindFor(rev)
      BY <1>1, <1>3 DEF RetainedKind
    <3>2. CurrentOf(q) /\ ~Excluded(held, q) /\ ~RetainedKind(aside, KindFor(q)) /\ ~pump.wake
      BY <1>3, <2>1, <3>1 DEF RetainedKind, Excluded
    <3> QED BY <3>2 DEF WorkNoticed
  <2> QED BY <2>2, <2>4, <2>5, <2>6, <2>7
<1> QED BY <1>2, <1>3 DEF Slices

\* The slice that takes a step, and its revision.
LEMMA RunningFacts ==
    ASSUME CoordinatorInv, NEW where \in Slices, SliceAt(where).step # "none"
    PROVE  LET s == SliceAt(where)
           IN  /\ s \in SliceRecords /\ s.revision \in Revisions /\ SliceSound(s, held, busy)
               /\ held[s.revision] \in Entries /\ KindFor(s.revision) \in DemandKinds
               /\ where = "inline" => pump.stage = "slice"
<1> DEFINE s == SliceAt(where)
<1>1. s \in SliceRecords /\ SliceSound(s, held, busy)
  BY DEF CoordinatorInv, CoordinatorTypeOK, SlicesPlaced, SliceAt, Slices
<1>2. s.revision \in Revisions
  BY <1>1 DEF SliceSound, SliceRecords
<1>3. where = "inline" => pump.stage = "slice"
  BY <1>2, KindFacts DEF CoordinatorInv, SlicesPlaced, SliceAt
<1> QED BY <1>1, <1>2, <1>3, KindFacts DEF CoordinatorInv, CoordinatorTypeOK

\* A slice that is over leaves the loop's turn to come, or wakes the loop.
LEMMA OverFacts ==
    ASSUME CoordinatorInv, NEW where \in Slices, SliceAt(where).step # "none", SliceOver(where)
    PROVE  \E t \in SliceRecords, p \in PumpRecords :
                /\ Put(where, t, p) /\ t.revision \in {SliceAt(where).revision, None}
                /\ \A h, b : SliceSound(t, h, b)
                /\ p.queue = pump.queue /\ p.selected = pump.selected /\ p.failed = pump.failed
                /\ p.offered = pump.offered /\ (pump.wake => p.wake)
                /\ where = "inline" => p.stage = "turn" /\ t.revision = None
                /\ where = "aside" => p.stage = pump.stage /\ p.wake
<1>1. /\ SliceAt(where) \in SliceRecords /\ SliceAt(where).revision \in Revisions
      /\ pump \in PumpRecords
  BY RunningFacts DEF CoordinatorInv, CoordinatorTypeOK
<1>2. CASE where = "inline"
  <2> DEFINE p == [pump EXCEPT !.stage = "turn"]
  <2>1. /\ p \in PumpRecords /\ p.stage = "turn" /\ p.queue = pump.queue /\ p.selected = pump.selected
        /\ p.failed = pump.failed /\ p.offered = pump.offered /\ p.wake = pump.wake
    BY <1>1 DEF PumpRecords
  <2>2. NoSlice \in SliceRecords /\ NoSlice.revision = None /\ \A h, b : SliceSound(NoSlice, h, b)
    BY BlankFacts DEF SliceSound, NoSlice
  <2>3. Put(where, NoSlice, p)
    BY <1>2 DEF SliceOver
  <2> HIDE DEF p
  <2> QED BY <1>2, <2>1, <2>2, <2>3
<1>3. CASE where = "aside"
  <2> DEFINE p == [pump EXCEPT !.wake = TRUE]
             t == [aside EXCEPT !.step = "ended"]
  <2>1. /\ p \in PumpRecords /\ p.stage = pump.stage /\ p.queue = pump.queue /\ p.selected = pump.selected
        /\ p.failed = pump.failed /\ p.offered = pump.offered /\ p.wake
    BY <1>1 DEF PumpRecords
  <2>2. t \in SliceRecords /\ t.revision = SliceAt(where).revision /\ t.step = "ended"
    BY <1>1, <1>3 DEF SliceRecords, SliceAt
  <2>3. \A h, b : SliceSound(t, h, b)
    BY <1>1, <2>2, KindFacts DEF SliceSound
  <2>4. Put(where, t, p)
    BY <1>3 DEF SliceOver
  <2> HIDE DEF p, t
  <2> QED BY <1>3, <2>1, <2>2, <2>3, <2>4
<1> QED BY <1>2, <1>3 DEF Slices

\* A slice that is over, whatever is kept of its revision then.
LEMMA OverStep ==
    ASSUME CoordinatorInv, NEW where \in Slices, SliceAt(where).step # "none", SliceOver(where),
           UNCHANGED <<work, eligible, busy, closing, refusals>>, held' \in [Revisions -> Entries],
           \A q \in Revisions \ {SliceAt(where).revision} :
                /\ held'[q].transient = held[q].transient
                /\ held'[q].reason = held[q].reason \/ held'[q].reason = "none"
                /\ held'[q].wait = held[q].wait \/ held'[q].wait = "no"
                /\ held'[q].reason = "capacity" => held'[q] = held[q],
           held'[SliceAt(where).revision].reason = "capacity" =>
                /\ held'[SliceAt(where).revision].wait = "open"
                /\ held'[SliceAt(where).revision].transient = "no"
                /\ KindFor(SliceAt(where).revision) \notin Gated => busy
    PROVE  CoordinatorInv'
<1>1. PICK t \in SliceRecords, p \in PumpRecords :
                /\ Put(where, t, p) /\ t.revision \in {SliceAt(where).revision, None}
                /\ \A h, b : SliceSound(t, h, b)
                /\ p.queue = pump.queue /\ p.selected = pump.selected /\ p.failed = pump.failed
                /\ p.offered = pump.offered /\ (pump.wake => p.wake)
                /\ where = "inline" => p.stage = "turn" /\ t.revision = None
                /\ where = "aside" => p.stage = pump.stage /\ p.wake
  BY OverFacts
<1>2. PICK rev \in Revisions : rev = SliceAt(where).revision
  BY RunningFacts
<1>3. work' \in [Works -> [revision : 1..MaxRevision, pending : BOOLEAN]]
  BY DEF CoordinatorInv, CoordinatorTypeOK
<1>4. SliceSound(t, held', busy) /\ (where = "aside" => p.wake)
      /\ (where = "inline" => p.stage = IF t.revision = None THEN "turn" ELSE pump.stage)
      /\ (where = "aside" => p.stage = pump.stage)
  BY <1>1
<1> QED BY <1>1, <1>2, <1>3, <1>4, SliceStep

LEMMA SliceBeginsStep ==
    ASSUME CoordinatorInv, NEW where \in Slices, NEW credit \in BOOLEAN, SliceBegins(where, credit)
    PROVE  CoordinatorInv'
<1> DEFINE s == SliceAt(where)
           r == s.revision
           e == held[r]
           created == IF e.invocation = NoInvocation
                      THEN [budget |-> "left", deadline |-> "live"] ELSE e.invocation
           awaits == e.transient = "timed" \/ (e.transient = "due" /\ eligible[KindFor(r)] # "open")
           active == IF e.transient = "due" THEN Activated(created, credit) ELSE created
           resumed == IF eligible[KindFor(r)] = "open" THEN Resumed(e, active) ELSE active
           authorized == (resumed.budget = "left" /\ resumed.deadline = "live") \/ credit
           Invocations == [budget : {"none", "left", "spent", "read"}, deadline : {"none", "live", "passed"}]
           waiting == [e EXCEPT !.invocation = created]
           started == [e EXCEPT !.transient = "no", !.released = FALSE,
                                !.invocation = [resumed EXCEPT !.deadline = "live"]]
           stopped == Parked([e EXCEPT !.transient = "no", !.released = FALSE, !.invocation = resumed],
                             "unauthorized", "open")
           t == [s EXCEPT !.step = "running", !.changed = FALSE]
<1>1. /\ s.step = "created" /\ UNCHANGED <<work, eligible, busy, closing, refusals>>
      /\ \/ held' = [held EXCEPT ![r] = waiting] /\ SliceOver(where)
         \/ held' = [held EXCEPT ![r] = started] /\ Put(where, t, pump)
         \/ held' = [held EXCEPT ![r] = stopped] /\ SliceOver(where)
  BY DEF SliceBegins
<1>2. /\ s \in SliceRecords /\ r \in Revisions /\ SliceSound(s, held, busy) /\ e \in Entries
      /\ e.reason = "none" /\ e.wait = "no"
      /\ where = "inline" => pump.stage = "slice"
  BY <1>1, RunningFacts DEF SliceSound
<1>3. created \in Invocations /\ active \in Invocations /\ resumed \in Invocations
  <2>1. created \in Invocations
    BY <1>2 DEF Entries
  <2> HIDE DEF created
  <2>2. active \in Invocations
    BY <2>1 DEF Activated
  <2> HIDE DEF active
  <2>3. resumed \in Invocations
    BY <2>2 DEF Resumed
  <2> QED BY <2>1, <2>2, <2>3
<1> HIDE DEF created, resumed
<1>4. /\ waiting \in Entries /\ waiting.reason = "none"
      /\ started \in Entries /\ started.reason = "none" /\ started.wait = "no" /\ started.transient = "no"
      /\ stopped \in Entries /\ stopped.reason = "unauthorized"
  BY <1>2, <1>3 DEF Entries, Parked
<1> HIDE DEF waiting, started, stopped
<1>5. held \in [Revisions -> Entries] /\ pump \in PumpRecords
  BY DEF CoordinatorInv, CoordinatorTypeOK
<1>6. ASSUME NEW f \in Entries, held' = [held EXCEPT ![r] = f]
      PROVE  held' \in [Revisions -> Entries] /\ held'[r] = f /\ \A q \in Revisions \ {r} : held'[q] = held[q]
  BY <1>2, <1>5, <1>6
<1>7. ASSUME NEW f \in Entries, f.reason # "capacity", held' = [held EXCEPT ![r] = f], SliceOver(where)
      PROVE  CoordinatorInv'
  <2>1. held' \in [Revisions -> Entries] /\ held'[r] = f /\ \A q \in Revisions \ {r} : held'[q] = held[q]
    BY <1>6, <1>7
  <2> QED BY <1>1, <1>7, <2>1, OverStep
<1>8. ASSUME held' = [held EXCEPT ![r] = started], Put(where, t, pump) PROVE CoordinatorInv'
  <2>1. held' \in [Revisions -> Entries] /\ held'[r] = started /\ \A q \in Revisions \ {r} : held'[q] = held[q]
    BY <1>4, <1>6, <1>8
  <2>2. t \in SliceRecords /\ t.revision = r /\ t.step = "running"
    BY <1>2 DEF SliceRecords
  <2> HIDE DEF t
  <2>3. SliceSound(t, held', busy)
    BY <1>2, <1>4, <2>1, <2>2, KindFacts DEF SliceSound
  <2>4. /\ work' \in [Works -> [revision : 1..MaxRevision, pending : BOOLEAN]]
        /\ \A q \in Revisions : CurrentOf(q)' = CurrentOf(q)
    BY <1>1 DEF CoordinatorInv, CoordinatorTypeOK, CurrentOf, Current, Pending
  <2>5. r # None /\ held'[r].reason # "capacity"
    BY <1>2, <1>4, <2>1, KindFacts
  <2> QED BY <1>1, <1>2, <1>5, <1>8, <2>1, <2>2, <2>3, <2>4, <2>5, SliceStep
<1> QED BY <1>1, <1>4, <1>7, <1>8

LEMMA SliceCommitsStep ==
    ASSUME CoordinatorInv, NEW where \in Slices, NEW more \in BOOLEAN, SliceCommits(where, more)
    PROVE  CoordinatorInv'
<1> DEFINE s == SliceAt(where)
           r == s.revision
           w == r[1]
           t == [s EXCEPT !.step = "committed"]
<1>1. /\ s.step = "running" /\ UNCHANGED <<eligible, busy, held, closing, refusals>>
      /\ Put(where, t, pump)
      /\ \/ work[w].revision < MaxRevision /\ work' = [work EXCEPT ![w].revision = @ + 1]
         \/ work' = [work EXCEPT ![w].pending = FALSE]
  BY DEF SliceCommits
<1>2. /\ s \in SliceRecords /\ r \in Revisions /\ SliceSound(s, held, busy)
      /\ where = "inline" => pump.stage = "slice"
  BY <1>1, RunningFacts
<1>3. /\ work \in [Works -> [revision : 1..MaxRevision, pending : BOOLEAN]]
      /\ held \in [Revisions -> Entries] /\ pump \in PumpRecords
  BY DEF CoordinatorInv, CoordinatorTypeOK
<1>4. /\ work' \in [Works -> [revision : 1..MaxRevision, pending : BOOLEAN]]
      /\ \A v \in Works \ {w} : work'[v] = work[v]
  <2>1. w \in Works /\ work[w] \in [revision : 1..MaxRevision, pending : BOOLEAN] /\ MaxRevision \in Nat
    BY <1>2, <1>3, KindFacts, WorkAssumption
  <2>2. CASE work[w].revision < MaxRevision /\ work' = [work EXCEPT ![w].revision = @ + 1]
    BY <1>3, <2>1, <2>2
  <2>3. CASE work' = [work EXCEPT ![w].pending = FALSE]
    BY <1>3, <2>1, <2>3
  <2> QED BY <1>1, <2>2, <2>3
<1>5. t \in SliceRecords /\ t.revision = r /\ t.step = "committed"
  BY <1>2 DEF SliceRecords
<1> HIDE DEF t
<1>6. SliceSound(t, held', busy)
  BY <1>1, <1>2, <1>5, KindFacts DEF SliceSound
<1>7. ASSUME NEW q \in Revisions, CurrentOf(q)', KindFor(q) # KindFor(r) PROVE CurrentOf(q)
  <2>1. q[1] \in Works \ {w}
    BY <1>7, KindFacts DEF KindFor
  <2> QED BY <1>4, <1>7, <2>1 DEF CurrentOf, Current, Pending
<1>8. held'[r].reason # "capacity" /\ r # None
  BY <1>1, <1>2, KindFacts DEF SliceSound
<1> QED BY <1>1, <1>2, <1>3, <1>4, <1>5, <1>6, <1>7, <1>8, SliceStep

LEMMA SliceAnswersStep ==
    ASSUME CoordinatorInv, NEW where \in Slices, NEW answer \in AnswerNames, SliceAnswers(where, answer)
    PROVE  CoordinatorInv'
<1> DEFINE s == SliceAt(where)
           r == s.revision
           spent == CASE answer = "budget" -> "spent" [] answer = "readfail" -> "read"
                      [] OTHER -> held[r].invocation.budget
           e == [held[r] EXCEPT !.invocation.budget = spent]
           t == [s EXCEPT !.step = answer]
<1>1. /\ s.step = "running" /\ answer \in Answers(r) /\ UNCHANGED <<work, eligible, busy, closing, refusals>>
      /\ held' = [held EXCEPT ![r] = e] /\ Put(where, t, pump)
  BY DEF SliceAnswers
<1>2. /\ s \in SliceRecords /\ r \in Revisions /\ SliceSound(s, held, busy) /\ held[r] \in Entries
      /\ where = "inline" => pump.stage = "slice"
  BY <1>1, RunningFacts
<1>3. /\ work' \in [Works -> [revision : 1..MaxRevision, pending : BOOLEAN]]
      /\ held \in [Revisions -> Entries] /\ pump \in PumpRecords
      /\ \A q \in Revisions : CurrentOf(q)' = CurrentOf(q)
  BY <1>1 DEF CoordinatorInv, CoordinatorTypeOK, CurrentOf, Current, Pending
<1>4. answer = "capacity" => busy
  BY <1>1 DEF Answers
<1>5. /\ e \in Entries /\ e.reason = held[r].reason /\ e.wait = held[r].wait
      /\ e.transient = held[r].transient
  <2>1. spent \in {"none", "left", "spent", "read"}
    BY <1>2 DEF Entries
  <2> HIDE DEF spent
  <2> QED BY <1>2, <2>1 DEF Entries
<1> HIDE DEF e
<1>6. t \in SliceRecords /\ t.revision = r /\ t.step = answer
  BY <1>2 DEF SliceRecords
<1> HIDE DEF t
<1>7. held' \in [Revisions -> Entries] /\ held'[r] = e /\ \A q \in Revisions \ {r} : held'[q] = held[q]
  BY <1>1, <1>2, <1>3, <1>5
<1>8. /\ r # None /\ s.step \notin {"none", "created", "ended"}
      /\ held[r].reason = "none" /\ held[r].wait = "no" /\ held[r].transient = "no"
  BY <1>1, <1>2, KindFacts DEF SliceSound
<1>9. SliceSound(t, held', busy)
  BY <1>4, <1>5, <1>6, <1>7, <1>8 DEF SliceSound, AnswerNames
<1>10. held'[r].reason # "capacity"
  BY <1>5, <1>7, <1>8
<1> QED BY <1>1, <1>2, <1>3, <1>6, <1>7, <1>8, <1>9, <1>10, SliceStep

\* Whatever the slice answered, its revision is parked, excluded or done; what is released
\* besides was waiting.
LEMMA HandledFacts ==
    ASSUME CoordinatorInv, NEW s \in SliceRecords, NEW r \in Revisions, r = s.revision,
           SliceSound(s, held, busy), s.step \notin {"none", "created", "running", "ended"}
    PROVE  LET h == Handled(s)
           IN  /\ h \in [Revisions -> Entries]
               /\ \A q \in Revisions \ {r} :
                    /\ h[q].transient = held[q].transient
                    /\ h[q].reason = held[q].reason \/ h[q].reason = "none"
                    /\ h[q].wait = held[q].wait \/ h[q].wait = "no"
                    /\ h[q].reason = "capacity" => h[q] = held[q]
               /\ h[r].reason = "capacity" =>
                    /\ h[r].wait = "open" /\ h[r].transient = "no"
                    /\ KindFor(r) \notin Gated => busy
<1> DEFINE k == KindFor(r)
           h == Handled(s)
           With(e) == [held EXCEPT ![r] = e]
           parked(reason, wait) == Parked(held[r], reason, wait)
           excluded == [held[r] EXCEPT !.reason = "final"]
           later == [held[r] EXCEPT !.reason = "retryable", !.transient = "timed"]
           Good(g) == /\ g \in [Revisions -> Entries]
                      /\ \A q \in Revisions \ {r} :
                            /\ g[q].transient = held[q].transient
                            /\ g[q].reason = held[q].reason \/ g[q].reason = "none"
                            /\ g[q].wait = held[q].wait \/ g[q].wait = "no"
                            /\ g[q].reason = "capacity" => g[q] = held[q]
                      /\ g[r].reason = "capacity" =>
                            /\ g[r].wait = "open" /\ g[r].transient = "no"
                            /\ k \notin Gated => busy
<1>1. /\ held \in [Revisions -> Entries] /\ held[r] \in Entries /\ k \in DemandKinds
      /\ held[r].reason = "none" /\ held[r].wait = "no" /\ held[r].transient = "no"
      /\ s.step = "capacity" => s.changed \/ busy
      /\ k \notin Gated => eligible[k] = "open"
  BY KindFacts DEF CoordinatorInv, CoordinatorTypeOK, SliceSound, CapacityHeld
<1>2. ASSUME NEW e \in Entries, e.reason = "capacity" => e.wait = "open" /\ e.transient = "no" /\ (k \notin Gated => busy)
      PROVE  Good(With(e))
  BY <1>1, <1>2
<1>3. ASSUME NEW reason \in {"gate", "capacity"}, NEW wait \in {"open", "timed"}
      PROVE  /\ parked(reason, wait) \in Entries /\ parked(reason, wait).reason = reason
             /\ parked(reason, wait).wait = wait /\ parked(reason, wait).transient = "no"
  BY <1>1, ParkedFacts
<1>4. /\ excluded \in Entries /\ excluded.reason = "final"
      /\ later \in Entries /\ later.reason = "retryable"
      /\ Blank \in Entries /\ Blank.reason = "none"
  BY <1>1, BlankFacts DEF Entries, Blank
<1>5. ASSUME NEW reason \in {"gate", "capacity"}
      PROVE  Good(ReleaseReady(With(parked(reason, "open")), eligible))
  <2> DEFINE p == parked(reason, "open")
             f == With(p)
             R == {q \in Revisions : WaitReady(f, q) /\ eligible[KindFor(q)] = "open"}
  <2>1. /\ p \in Entries /\ p.reason = reason /\ p.wait = "open" /\ p.transient = "no"
    BY <1>3
  <2> HIDE DEF p
  <2>2. f \in [Revisions -> Entries] /\ f[r] = p /\ \A q \in Revisions \ {r} : f[q] = held[q]
    BY <1>1, <2>1
  <2> HIDE DEF f
  <2>3. ReleaseReady(f, eligible) = ReleaseAll(f, R)
    BY DEF ReleaseReady
  <2>4. ReleaseAll(f, R) \in [Revisions -> Entries] /\ Weakened(f, ReleaseAll(f, R))
    BY <2>2, ReleaseWeakens
  <2>5. k \notin Gated => r \in R
    BY <1>1, <2>1, <2>2 DEF WaitReady
  <2>6. r \in R => ReleaseAll(f, R)[r].reason = "none"
    BY <2>2, ReleaseFacts
  <2> HIDE DEF R
  <2> DEFINE g == ReleaseAll(f, R)
  <2>7. g \in [Revisions -> Entries] /\ Weakened(f, g) /\ (k \notin Gated => g[r].reason = "none")
    BY <2>4, <2>5, <2>6
  <2>8. g = ReleaseReady(With(parked(reason, "open")), eligible)
    BY <2>3 DEF g, f, p
  <2> HIDE DEF g
  <2>9. g[r].reason = "capacity" => g[r] = p
    BY <2>2, <2>7 DEF Weakened
  <2>10. Good(g)
    BY <2>1, <2>2, <2>7, <2>9 DEF Weakened
  <2> HIDE DEF Good, With, parked
  <2> QED BY <2>8, <2>10
<1> HIDE DEF parked, excluded, later
<1>6. GateWait(k) \in {"open", "timed"}
  BY DEF GateWait
<1>7. \/ h = With(Blank) \/ h = With(excluded) \/ h = With(later)
      \/ \E wait \in {"open", "timed"} : h = With(parked("gate", wait))
      \/ s.step = "capacity" /\ ~s.changed /\ h = With(parked("capacity", "open"))
      \/ \E reason \in {"gate", "capacity"} : h = ReleaseReady(With(parked(reason, "open")), eligible)
  <2> DEFINE Goal(g) ==
        \/ g = With(Blank) \/ g = With(excluded) \/ g = With(later)
        \/ \E wait \in {"open", "timed"} : g = With(parked("gate", wait))
        \/ s.step = "capacity" /\ ~s.changed /\ g = With(parked("capacity", "open"))
        \/ \E reason \in {"gate", "capacity"} : g = ReleaseReady(With(parked(reason, "open")), eligible)
  <2>1. s.step \in {"committed"} \cup AnswerNames
    BY DEF SliceRecords
  <2>2. CASE s.step \in {"committed", "final", "budget", "retryable"}
    BY <2>2 DEF Handled, excluded, later
  <2>3. CASE s.step \in {"deferred", "timed", "blocked", "throttled"}
    BY <1>6, <2>3 DEF Handled, excluded, parked
  <2>4. CASE s.step = "capacity"
    BY <2>4 DEF Handled, parked
  <2>5. CASE s.step = "readfail"
    BY <1>6, <2>5 DEF Handled, parked
  <2> QED BY <2>1, <2>2, <2>3, <2>4, <2>5 DEF AnswerNames
<1>8. Good(h)
  <2>1. ASSUME NEW wait \in {"open", "timed"} PROVE Good(With(parked("gate", wait)))
    BY <1>2, <1>3
  <2>2. ASSUME s.step = "capacity", ~s.changed PROVE Good(With(parked("capacity", "open")))
    BY <1>1, <1>2, <1>3, <2>2
  <2>3. Good(With(Blank)) /\ Good(With(excluded)) /\ Good(With(later))
    BY <1>2, <1>4
  <2> HIDE DEF Good, With, h
  <2> QED BY <1>5, <1>7, <2>1, <2>2, <2>3
<1> QED BY <1>8

LEMMA SliceEndsStep ==
    ASSUME CoordinatorInv, NEW where \in Slices, SliceEnds(where) PROVE CoordinatorInv'
<1>1. /\ SliceAt(where).step \notin {"none", "created", "running", "ended"}
      /\ held' = Handled(SliceAt(where)) /\ SliceOver(where)
      /\ UNCHANGED <<work, eligible, busy, closing, refusals>>
  BY DEF SliceEnds
<1>2. /\ SliceAt(where) \in SliceRecords /\ SliceAt(where).revision \in Revisions
      /\ SliceSound(SliceAt(where), held, busy)
  BY <1>1, RunningFacts
<1> QED BY <1>1, <1>2, HandledFacts, OverStep

-----------------------------------------------------------------------------
\* A queue of the ready kinds: each once, and the empty one only when none is ready.
LEMMA QueuedFacts ==
    ASSUME NEW old, NEW runnable \in SUBSET DemandKinds, NEW q \in Queued(old, runnable)
    PROVE  /\ q \in Seq(DemandKinds) /\ IsInjective(q) /\ ToSet(q) \subseteq runnable
           /\ q = <<>> => runnable = {}
           /\ q # <<>> => /\ Head(q) \in runnable /\ Tail(q) \in Seq(DemandKinds) /\ IsInjective(Tail(q))
                          /\ ToSet(Tail(q)) \subseteq runnable \ {Head(q)}
<1> DEFINE n == Cardinality(runnable)
<1>1. IsFiniteSet(runnable) /\ n \in Nat /\ (n = 0 => runnable = {})
  BY WorkAssumption, FS_Subset, FS_CardinalityType, FS_EmptySet
<1>2. q \in [1..n -> runnable] /\ IsInjective(q)
  BY DEF Queued
<1> HIDE DEF n
<1>3. q \in Seq(runnable) /\ Len(q) = n /\ q \in Seq(DemandKinds)
  BY <1>1, <1>2
<1>4. \A i, j \in 1..n : q[i] = q[j] => i = j
  BY <1>2 DEF IsInjective
<1>5. ToSet(q) \subseteq runnable
  BY <1>2 DEF ToSet
<1>6. q = <<>> => runnable = {}
  BY <1>1, <1>3
<1>7. ASSUME q # <<>>
      PROVE  /\ Head(q) \in runnable /\ Tail(q) \in Seq(DemandKinds) /\ IsInjective(Tail(q))
             /\ ToSet(Tail(q)) \subseteq runnable \ {Head(q)}
  <2>1. /\ n > 0 /\ Head(q) = q[1] /\ q[1] \in runnable /\ Tail(q) \in Seq(runnable) /\ Len(Tail(q)) = n - 1
        /\ \A i \in 1..(n - 1) : Tail(q)[i] = q[i + 1]
    BY <1>1, <1>2, <1>3, <1>7
  <2>2. DOMAIN Tail(q) = 1..(n - 1) /\ Tail(q) \in Seq(DemandKinds)
    BY <2>1
  <2>3. IsInjective(Tail(q))
    <3> SUFFICES ASSUME NEW i \in 1..(n - 1), NEW j \in 1..(n - 1), Tail(q)[i] = Tail(q)[j] PROVE i = j
      BY <2>2 DEF IsInjective
    <3>1. i + 1 \in 1..n /\ j + 1 \in 1..n /\ q[i + 1] = q[j + 1]
      BY <1>1, <2>1
    <3>2. i + 1 = j + 1
      BY <1>4, <3>1
    <3> QED BY <3>2, <1>1
  <2>4. ASSUME NEW i \in 1..(n - 1) PROVE Tail(q)[i] \in runnable \ {Head(q)}
    <3>1. i + 1 \in 1..n /\ 1 \in 1..n /\ i + 1 # 1
      BY <1>1
    <3>2. q[i + 1] # q[1] /\ q[i + 1] \in runnable
      BY <1>2, <1>4, <3>1
    <3> QED BY <2>1, <3>2
  <2>5. ToSet(Tail(q)) \subseteq runnable \ {Head(q)}
    BY <2>2, <2>4 DEF ToSet
  <2> QED BY <2>1, <2>2, <2>3, <2>5
<1> QED BY <1>2, <1>3, <1>5, <1>6, <1>7

LEMMA HarvestedFacts ==
    ASSUME CoordinatorInv
    PROVE  /\ Harvested \in SliceRecords /\ SliceSound(Harvested, held, busy)
           /\ Harvested.revision # None =>
                Harvested.revision \in Revisions /\ KindFor(Harvested.revision) \in Retained
<1>1. aside \in SliceRecords /\ SliceSound(aside, held, busy)
      /\ (aside.revision # None => KindFor(aside.revision) \in Retained)
  BY DEF CoordinatorInv, CoordinatorTypeOK, SlicesPlaced
<1>2. NoSlice \in SliceRecords /\ NoSlice.revision = None /\ SliceSound(NoSlice, held, busy)
  BY BlankFacts DEF NoSlice, SliceSound
<1>3. Harvested = aside \/ Harvested = NoSlice
  BY DEF Harvested
<1> QED BY <1>1, <1>2, <1>3 DEF SliceRecords

LEMMA LoopTurnStep ==
    ASSUME CoordinatorInv, NEW broken \in SUBSET DemandKinds, LoopTurn(broken) PROVE CoordinatorInv'
<1> DEFINE h == Expired(held)
           H == Harvested
<1>1. /\ pump.stage \in {"turn", "again"} /\ UNCHANGED <<work, eligible, busy, closing>>
      /\ refusals + Cardinality(broken) <= MaxRefusals /\ refusals' = refusals + Cardinality(broken)
  BY DEF LoopTurn
<1> DEFINE Turn(chosen, scanned) ==
        LET head == IF scanned = <<>> THEN None ELSE Head(scanned)
            scan == [pump EXCEPT
                        !.wake = FALSE, !.offered = {},
                        !.selected = chosen,
                        !.failed = [k \in DemandKinds |->
                            IF ~Scanned(H, k) THEN @[k] ELSE IF k \in broken THEN "timed" ELSE "no"]]
        IN  /\ held' = ScannedHeld(h, H, broken, chosen)
            /\ IF head = None
               THEN /\ pump' = [scan EXCEPT !.stage = "wait", !.queue = <<>>]
                    /\ aside' = H /\ UNCHANGED inline
               ELSE /\ pump' = [scan EXCEPT !.queue = Tail(scanned),
                                            !.stage = IF head \in Retained THEN "again" ELSE "slice"]
                    /\ aside' = IF head \in Retained
                                THEN [NoSlice EXCEPT !.revision = chosen[head], !.step = "created"]
                                ELSE H
                    /\ inline' = IF head \in Retained THEN inline
                                 ELSE [NoSlice EXCEPT !.revision = chosen[head], !.step = "created"]
<1>1a. PICK chosen \in Selections(h, H, broken) :
        \E scanned \in Queued(pump.queue, {k \in DemandKinds : chosen[k] # None}) : Turn(chosen, scanned)
  BY DEF LoopTurn
<1>2. PICK scanned \in Queued(pump.queue, {k \in DemandKinds : chosen[k] # None}) : Turn(chosen, scanned)
  BY <1>1a
<1> DEFINE runnable == {k \in DemandKinds : chosen[k] # None}
           failed == [k \in DemandKinds |->
                        IF ~Scanned(H, k) THEN pump.failed[k] ELSE IF k \in broken THEN "timed" ELSE "no"]
           started(k) == [NoSlice EXCEPT !.revision = chosen[k], !.step = "created"]
<1>3. /\ held \in [Revisions -> Entries] /\ h \in [Revisions -> Entries] /\ Weakened(held, h)
  BY ExpiredFacts DEF CoordinatorInv, CoordinatorTypeOK
<1>4. /\ H \in SliceRecords /\ SliceSound(H, held, busy) /\ SliceSound(H, h, busy)
      /\ H.revision # None => H.revision \in Revisions /\ KindFor(H.revision) \in Retained
  BY <1>3, HarvestedFacts, WeakenedIsSound
<1> HIDE DEF h, H
<1>5. /\ chosen \in [DemandKinds -> Revisions \cup {None}]
      /\ \A k \in runnable : /\ Scanned(H, k) /\ k \notin broken /\ ~RetainedKind(H, k)
                          /\ chosen[k] \in Revisions /\ KindFor(chosen[k]) = k
  <2>1. \A k \in runnable : /\ Scanned(H, k) /\ k \notin broken /\ chosen[k] \in Candidates(h, k)
    BY <1>3, SelectionFacts
  <2>2. chosen \in [DemandKinds -> Revisions \cup {None}]
    BY <1>3, SelectionFacts
  <2> QED BY <2>1, <2>2 DEF Scanned, Candidates
<1>6. /\ held' \in [Revisions -> Entries]
      /\ \A r \in Revisions :
            /\ (~Scanned(H, KindFor(r)) \/ KindFor(r) \in broken) => held'[r] = h[r]
            /\ r = chosen[KindFor(r)] => held'[r].reason = "none" /\ held'[r].wait = "no"
            /\ held'[r].reason = "capacity" => held'[r] = held[r]
            /\ (held'[r].reason = "none" /\ CurrentOf(r) /\ Scanned(H, KindFor(r)) /\ KindFor(r) \notin broken)
                 => chosen[KindFor(r)] # None
  <2>1. held' = ScannedHeld(h, H, broken, chosen)
    BY <1>2
  <2>2. \A r \in Revisions : h[r].reason = "capacity" => h[r] = held[r]
    BY <1>3 DEF Weakened
  <2>3. held' \in [Revisions -> Entries]
    <3>1. CASE Revisions = {}
      BY <2>1, <3>1 DEF ScannedHeld
    <3>2. CASE \E r \in Revisions : TRUE
      BY <1>3, <2>1, <3>2, ScanFacts
    <3> QED BY <3>1, <3>2
  <2> QED BY <1>3, <2>1, <2>2, <2>3, ScanFacts
<1>7. failed \in [DemandKinds -> {"no", "timed", "due"}] /\ pump \in PumpRecords
  BY DEF CoordinatorInv, CoordinatorTypeOK, PumpRecords
<1>8. /\ scanned \in Seq(DemandKinds) /\ IsInjective(scanned) /\ ToSet(scanned) \subseteq runnable
      /\ scanned = <<>> => runnable = {}
      /\ scanned # <<>> => /\ Head(scanned) \in runnable /\ Tail(scanned) \in Seq(DemandKinds)
                         /\ IsInjective(Tail(scanned)) /\ ToSet(Tail(scanned)) \subseteq runnable \ {Head(scanned)}
  BY QueuedFacts
<1>9. inline \in SliceRecords /\ inline.revision = None /\ inline.step = "none"
  BY <1>1 DEF CoordinatorInv, CoordinatorTypeOK, SlicesPlaced, SliceSound
<1>10. SliceSound(H, held', busy)
  <2>1. H.revision # None => held'[H.revision] = h[H.revision]
    BY <1>4, <1>6 DEF Scanned, RetainedKind
  <2> QED BY <1>4, <2>1 DEF SliceSound
<1>11. refusals' \in 0..MaxRefusals
  <2>1. Cardinality(broken) \in Nat
    BY WorkAssumption, FS_Subset, FS_CardinalityType
  <2> QED BY <1>1, <2>1, WorkAssumption DEF CoordinatorInv, CoordinatorTypeOK
<1>12. CapacityHeld'
  BY <1>1, <1>6 DEF CoordinatorInv, CapacityHeld, KindFor
<1> HIDE DEF runnable, failed, started
<1>13. CASE scanned = <<>>
  <2>1. /\ pump' \in PumpRecords /\ pump'.stage = "wait" /\ pump'.queue = <<>> /\ pump'.offered = {}
        /\ pump'.failed = failed /\ aside' = H /\ inline' = inline
    <3>1. /\ pump' = [pump EXCEPT !.wake = FALSE, !.offered = {}, !.selected = chosen, !.failed = failed,
                                  !.stage = "wait", !.queue = <<>>]
          /\ aside' = H /\ inline' = inline
      BY <1>2, <1>13 DEF failed
    <3>2. <<>> \in Seq(DemandKinds) /\ {} \in SUBSET DemandKinds
      OBVIOUS
    <3> QED BY <1>5, <1>7, <3>1, <3>2 DEF PumpRecords
  <2>2. CoordinatorTypeOK'
    BY <1>1, <1>4, <1>6, <1>9, <1>11, <2>1 DEF CoordinatorInv, CoordinatorTypeOK
  <2>3. SlicesPlaced'
    BY <1>1, <1>4, <1>9, <1>10, <2>1 DEF SlicesPlaced, SliceSound, KindFor
  <2>4. QueueKept'
    BY <2>1 DEF QueueKept, IsInjective, ToSet
  <2>5. WorkNoticed'
    <3> SUFFICES ASSUME NEW r \in Revisions, CurrentOf(r), held'[r].reason = "none", ~RetainedKind(H, KindFor(r))
                 PROVE  failed[KindFor(r)] # "no"
      BY <1>1, <2>1 DEF WorkNoticed, RetainedKind, KindFor, Excluded, CurrentOf, Current, Pending
    <3>1. KindFor(r) \in DemandKinds /\ chosen[KindFor(r)] = None
      BY <1>8, <1>13, KindFacts DEF runnable
    <3>2. ~Scanned(H, KindFor(r)) \/ KindFor(r) \in broken
      BY <1>6, <3>1
    <3> QED BY <3>1, <3>2 DEF failed, Scanned
  <2> QED BY <1>12, <2>2, <2>3, <2>4, <2>5 DEF CoordinatorInv
<1>14. CASE scanned # <<>>
  <2> DEFINE head == Head(scanned)
             rest == Tail(scanned)
  <2>1. /\ head \in runnable /\ head \in DemandKinds /\ head # None
        /\ rest \in Seq(DemandKinds) /\ IsInjective(rest) /\ ToSet(rest) \subseteq runnable \ {head}
    BY <1>8, <1>14, KindFacts DEF runnable
  <2>2. /\ pump' = [pump EXCEPT !.wake = FALSE, !.offered = {}, !.selected = chosen, !.failed = failed,
                                !.queue = rest, !.stage = IF head \in Retained THEN "again" ELSE "slice"]
        /\ aside' = IF head \in Retained THEN started(head) ELSE H
        /\ inline' = IF head \in Retained THEN inline ELSE started(head)
    BY <1>2, <1>14, <2>1 DEF failed, started
  <2> HIDE DEF head, rest
  <2>3. /\ pump' \in PumpRecords /\ pump'.stage = (IF head \in Retained THEN "again" ELSE "slice")
        /\ pump'.queue = rest /\ pump'.offered = {} /\ pump'.selected = chosen
    BY <1>5, <1>7, <2>1, <2>2 DEF PumpRecords
  <2> DEFINE t == started(head)
  <2>4. chosen[head] \in Revisions /\ KindFor(chosen[head]) = head /\ chosen[head] # None
    BY <1>5, <2>1, KindFacts
  <2>5. t \in SliceRecords /\ t.revision = chosen[head] /\ t.step = "created"
    BY <2>4, BlankFacts DEF started, NoSlice, SliceRecords
  <2> HIDE DEF t
  <2>6. SliceSound(t, held', busy)
    BY <1>6, <2>4, <2>5 DEF SliceSound
  <2>7. CoordinatorTypeOK'
    BY <1>1, <1>4, <1>6, <1>9, <1>11, <2>2, <2>3, <2>5 DEF CoordinatorInv, CoordinatorTypeOK, t
  <2>8. SlicesPlaced'
    <3>1. CASE head \in Retained
      BY <1>1, <1>9, <2>2, <2>4, <2>5, <2>6, <3>1 DEF SlicesPlaced, SliceSound, KindFor, t
    <3>2. CASE head \notin Retained
      BY <1>1, <1>4, <1>10, <2>2, <2>3, <2>4, <2>5, <2>6, <3>2 DEF SlicesPlaced, KindFor, t
    <3> QED BY <3>1, <3>2
  <2>9. \A k \in ToSet(rest) : chosen[k] # None /\ ~RetainedKind(aside', k)
    <3> SUFFICES ASSUME NEW k \in ToSet(rest) PROVE chosen[k] # None /\ ~RetainedKind(aside', k)
      OBVIOUS
    <3>1. k \in runnable /\ k # head
      BY <2>1
    <3>2. chosen[k] # None /\ ~RetainedKind(H, k)
      BY <1>5, <3>1 DEF runnable
    <3>3. ~RetainedKind(t, k)
      BY <2>4, <2>5, <3>1 DEF RetainedKind
    <3> QED BY <2>2, <3>2, <3>3 DEF t
  <2>10. QueueKept'
    BY <2>1, <2>3, <2>9 DEF QueueKept, RetainedKind, KindFor
  <2>11. WorkNoticed'
    BY <2>3 DEF WorkNoticed
  <2> QED BY <1>12, <2>7, <2>8, <2>10, <2>11 DEF CoordinatorInv
<1> QED BY <1>13, <1>14

-----------------------------------------------------------------------------
LEMMA CoordinatorInvInit ==
    ASSUME CoordinatorInit PROVE CoordinatorInv
<1> USE DEF CoordinatorInit
<1>1. CoordinatorTypeOK
  <2>1. pump \in PumpRecords
    BY DEF PumpRecords
  <2>2. work \in [Works -> [revision : 1..MaxRevision, pending : BOOLEAN]]
    <3>1. [revision : {1}, pending : BOOLEAN] \subseteq [revision : 1..MaxRevision, pending : BOOLEAN]
      BY WorkAssumption
    <3> QED BY <3>1
  <2>3. held \in [Revisions -> Entries]
    BY BlankFacts
  <2>4. 0 \in 0..MaxRefusals
    BY WorkAssumption
  <2>5. eligible \in [DemandKinds -> {"open", "timed", "blocked"}]
    OBVIOUS
  <2> QED BY <2>1, <2>2, <2>3, <2>4, <2>5, BlankFacts DEF CoordinatorTypeOK
<1>2. SlicesPlaced /\ CapacityHeld
  BY DEF SlicesPlaced, SliceSound, NoSlice, CapacityHeld, Blank
<1>3. QueueKept /\ WorkNoticed
  BY DEF QueueKept, WorkNoticed, IsInjective, ToSet
<1> QED BY <1>1, <1>2, <1>3 DEF CoordinatorInv

LEMMA CoordinatorInvNext ==
    ASSUME CoordinatorInv, [CoordinatorNext]_coordinatorVars PROVE CoordinatorInv'
<1>1. ASSUME Coordinator PROVE CoordinatorInv'
  BY <1>1, LoopTurnStep, OutsideSteps, LoopStopsStep DEF Coordinator
<1>2. ASSUME NEW where \in Slices, Slice(where) PROVE CoordinatorInv'
  BY <1>2, SliceBeginsStep, SliceCommitsStep, SliceEndsStep, SliceAnswersStep DEF Slice
<1>3. ASSUME Clock PROVE CoordinatorInv'
  BY <1>3, TickStep, OutsideSteps DEF Clock
<1>4. ASSUME Environment PROVE CoordinatorInv'
  <2>1. \A k \in DemandKinds, method \in DemandKinds \cup {None} : GateOpens(k, method) => CoordinatorInv'
    BY GateOpensStep
  <2>2. \A w \in Works : OfferWork(w) => CoordinatorInv'
    BY OfferStep
  <2> QED BY <1>4, <2>1, <2>2, OutsideSteps, CapacityFreedStep DEF Environment
<1>5. ASSUME NEW credit \in BOOLEAN, SliceBegins("inline", credit) PROVE CoordinatorInv'
  BY <1>5, SliceBeginsStep DEF Slices
<1>6. ASSUME UNCHANGED coordinatorVars PROVE CoordinatorInv'
  BY <1>6, OutsideSteps
<1> QED BY <1>1, <1>2, <1>3, <1>4, <1>5, <1>6 DEF CoordinatorNext

\* The coordinator's state is sound in every reachable state.
THEOREM CoordinatorInvariant == CoordinatorSpec => []CoordinatorInv
<1> QED BY CoordinatorInvInit, CoordinatorInvNext, PTL DEF CoordinatorSpec

\* The loop runs released exact revisions (run, _execute_slice), and waits without a wake
\* only when nothing it could run is left.
THEOREM WorkKept == CoordinatorSpec => []WorkIsKept
<1>1. CoordinatorInv => WorkIsKept
  <2> SUFFICES ASSUME CoordinatorInv PROVE WorkIsKept
    OBVIOUS
  <2>1. NothingForgotten
    BY DEF CoordinatorInv, WorkNoticed, NothingForgotten
  <2>2. CapacityWaitsEnd
    BY DEF CoordinatorInv, CapacityHeld, CapacityWaitsEnd
  <2>3. \A where \in Slices : SliceSound(SliceAt(where), held, busy)
    BY DEF CoordinatorInv, SlicesPlaced, SliceAt, Slices
  <2>4. RunsOnlyReleased
    BY <2>3 DEF SliceSound, RunsOnlyReleased
  <2>5. QueueIsReady
    BY <2>3 DEF SliceSound, QueueIsReady, CoordinatorInv, QueueKept
  <2> QED BY <2>1, <2>2, <2>4, <2>5 DEF WorkIsKept
<1> QED BY <1>1, CoordinatorInvariant, PTL

\* What a step makes of the invocations whose claimed read has failed.
ReadKept == \A r \in Revisions :
    held[r].invocation.budget = "read" => held'[r].invocation.budget = "read" \/ held'[r] = Blank

LEMMA ReleaseKeepsInvocation ==
    ASSUME NEW h \in [Revisions -> Entries], NEW R, NEW r \in Revisions
    PROVE  ReleaseAll(h, R)[r].invocation = h[r].invocation
BY DEF ReleaseAll, Released, Entries

LEMMA ScanKeepsInvocation ==
    ASSUME NEW h \in [Revisions -> Entries], NEW slice, NEW broken, NEW c, NEW r \in Revisions
    PROVE  \/ ScannedHeld(Expired(h), slice, broken, c)[r].invocation = h[r].invocation
           \/ ScannedHeld(Expired(h), slice, broken, c)[r] = Blank
<1> DEFINE g == Expired(h)
           parked(e) == Parked(e, "gate", IF eligible[KindFor(r)] = "timed" THEN "timed" ELSE "open")
           freed(e) == [e EXCEPT !.wait = "no"]
           lifted(e) == [e EXCEPT !.reason = "none"]
<1>1. \A e \in Entries : /\ parked(e).invocation = e.invocation /\ freed(e).invocation = e.invocation
                         /\ lifted(e).invocation = e.invocation
  BY DEF Parked, Entries
<1>2. g \in [Revisions -> Entries]
  BY ExpiredFacts
<1>3. PICK R : \/ g[r] = lifted(ReleaseAll(h, R)[r]) \/ g[r] = ReleaseAll(h, R)[r]
  BY DEF Expired
<1>4. ScannedHeld(g, slice, broken, c)[r] \in {g[r], parked(g[r]), freed(g[r]), Blank}
  BY DEF ScannedHeld
<1> HIDE DEF g, parked, freed, lifted
<1>5. g[r].invocation = h[r].invocation
  <2>1. ReleaseAll(h, R)[r] \in Entries
    BY ReleaseFacts
  <2> QED BY <1>1, <1>3, <2>1, ReleaseKeepsInvocation
<1>6. g[r] \in Entries
  BY <1>2
<1>7. \/ ScannedHeld(g, slice, broken, c)[r].invocation = h[r].invocation
      \/ ScannedHeld(g, slice, broken, c)[r] = Blank
  BY <1>1, <1>4, <1>5, <1>6
<1> QED BY <1>7 DEF g

LEMMA SliceBeginsKeepsRead ==
    ASSUME CoordinatorInv, NEW where \in Slices, NEW credit \in BOOLEAN, SliceBegins(where, credit)
    PROVE  ReadKept
<1> DEFINE s == SliceAt(where)
           r == s.revision
           e == held[r]
           created == IF e.invocation = NoInvocation
                      THEN [budget |-> "left", deadline |-> "live"] ELSE e.invocation
           active == IF e.transient = "due" THEN Activated(created, credit) ELSE created
           resumed == IF eligible[KindFor(r)] = "open" THEN Resumed(e, active) ELSE active
           Invocations == [budget : {"none", "left", "spent", "read"}, deadline : {"none", "live", "passed"}]
           waiting == [e EXCEPT !.invocation = created]
           started == [e EXCEPT !.transient = "no", !.released = FALSE,
                                !.invocation = [resumed EXCEPT !.deadline = "live"]]
           stopped == Parked([e EXCEPT !.transient = "no", !.released = FALSE, !.invocation = resumed],
                             "unauthorized", "open")
<1>1. /\ s.step = "created"
      /\ held' \in {[held EXCEPT ![r] = waiting], [held EXCEPT ![r] = started], [held EXCEPT ![r] = stopped]}
  BY DEF SliceBegins
<1>2. /\ r \in Revisions /\ held \in [Revisions -> Entries] /\ e \in Entries /\ e.invocation \in Invocations
  BY <1>1, RunningFacts DEF CoordinatorInv, CoordinatorTypeOK, Entries
<1>3. ASSUME e.invocation.budget = "read"
      PROVE  /\ created.budget = "read" /\ resumed \in Invocations /\ resumed.budget = "read"
  <2>1. created = e.invocation
    BY <1>3 DEF NoInvocation
  <2>2. created \in Invocations /\ created.budget = "read"
    BY <1>2, <1>3, <2>1
  <2> HIDE DEF created
  <2>3. active \in Invocations /\ active.budget = "read"
    BY <2>2 DEF Activated
  <2> HIDE DEF active
  <2>4. resumed \in Invocations /\ resumed.budget = "read"
    BY <2>3 DEF Resumed
  <2> QED BY <2>2, <2>4
<1> HIDE DEF created, resumed
<1>4. ASSUME e.invocation.budget = "read"
      PROVE  /\ waiting.invocation.budget = "read" /\ started.invocation.budget = "read"
             /\ stopped.invocation.budget = "read"
  <2>1. [resumed EXCEPT !.deadline = "live"].budget = "read"
    BY <1>3, <1>4
  <2> QED BY <1>2, <1>3, <1>4, <2>1 DEF Parked, Entries
<1> HIDE DEF waiting, started, stopped
<1> QED BY <1>1, <1>2, <1>4 DEF ReadKept

LEMMA HandledKeepsRead ==
    ASSUME CoordinatorInv, NEW s \in SliceRecords, s.revision \in Revisions,
           s.step \notin {"none", "created", "running", "ended"}, NEW q \in Revisions
    PROVE  Handled(s)[q].invocation = held[q].invocation \/ Handled(s)[q] = Blank
<1> DEFINE r == s.revision
           With(e) == [held EXCEPT ![r] = e]
           Fits(h) == h[q].invocation = held[q].invocation \/ h[q] = Blank
           excluded == [held[r] EXCEPT !.reason = "final"]
           later == [held[r] EXCEPT !.reason = "retryable", !.transient = "timed"]
<1>1. held \in [Revisions -> Entries] /\ held[r] \in Entries
  BY DEF CoordinatorInv, CoordinatorTypeOK
<1>2. ASSUME NEW e \in Entries, e.invocation = held[r].invocation
      PROVE  With(e) \in [Revisions -> Entries] /\ Fits(With(e))
  BY <1>1, <1>2
<1>3. ASSUME NEW reason \in {"gate", "capacity"}, NEW wait \in {"open", "timed"}
      PROVE  Parked(held[r], reason, wait) \in Entries
             /\ Parked(held[r], reason, wait).invocation = held[r].invocation
  BY <1>1 DEF Parked, Entries
<1>4. /\ excluded \in Entries /\ excluded.invocation = held[r].invocation
      /\ later \in Entries /\ later.invocation = held[r].invocation
  BY <1>1 DEF Entries
<1>5. Fits(With(excluded)) /\ Fits(With(later)) /\ Fits(With(Blank))
  BY <1>1, <1>2, <1>4
<1>6. ASSUME NEW reason \in {"gate", "capacity"}, NEW wait \in {"open", "timed"}
      PROVE  /\ Fits(With(Parked(held[r], reason, wait)))
             /\ Fits(ReleaseReady(With(Parked(held[r], reason, wait)), eligible))
  <2> DEFINE f == With(Parked(held[r], reason, wait))
  <2>1. f \in [Revisions -> Entries] /\ f[q].invocation = held[q].invocation
    BY <1>1, <1>3
  <2> HIDE DEF f
  <2>2. ReleaseReady(f, eligible)[q].invocation = f[q].invocation
    BY <2>1, ReleaseKeepsInvocation DEF ReleaseReady
  <2> QED BY <2>1, <2>2 DEF f
<1>7. GateWait(KindFor(r)) \in {"open", "timed"}
  BY DEF GateWait
<1>8. s.step \in {"committed"} \cup AnswerNames
  BY DEF SliceRecords
<1> HIDE DEF Fits, With, excluded, later
<1>9. CASE s.step \in {"committed", "final", "budget", "retryable"}
  <2>1. Handled(s) \in {With(Blank), With(excluded), With(later)}
    BY <1>9 DEF Handled, With, excluded, later
  <2> QED BY <1>5, <2>1 DEF Fits
<1>10. CASE s.step \in {"deferred", "timed", "blocked", "throttled"}
  <2>1. \/ Handled(s) = With(excluded)
        \/ \E wait \in {"open", "timed"} : Handled(s) = With(Parked(held[r], "gate", wait))
    BY <1>7, <1>10 DEF Handled, With, excluded
  <2> QED BY <1>5, <1>6, <2>1 DEF Fits
<1>11. CASE s.step \in {"capacity", "readfail"}
  <2>1. \E reason \in {"gate", "capacity"}, wait \in {"open", "timed"} :
            \/ Handled(s) = With(Parked(held[r], reason, wait))
            \/ Handled(s) = ReleaseReady(With(Parked(held[r], reason, wait)), eligible)
    BY <1>7, <1>11 DEF Handled, With
  <2> QED BY <1>6, <2>1 DEF Fits
<1> QED BY <1>8, <1>9, <1>10, <1>11 DEF AnswerNames

\* A claimed read that failed takes no attempt but the gate's credit until its work commits
\* or is revised: no backoff refills it (_activate_transient_retry).
THEOREM ReadFailuresAreKept == CoordinatorSpec => ReadFailureKept
<1>1. ASSUME CoordinatorInv, [CoordinatorNext]_coordinatorVars PROVE ReadKept
  <2> DEFINE Same == held' = held
  <2>0. held \in [Revisions -> Entries]
    BY <1>1 DEF CoordinatorInv, CoordinatorTypeOK
  <2>1. Same => ReadKept
    BY DEF ReadKept
  <2>2. ASSUME NEW broken \in SUBSET DemandKinds, LoopTurn(broken) PROVE ReadKept
    <3>1. PICK c : held' = ScannedHeld(Expired(held), Harvested, broken, c)
      BY <2>2 DEF LoopTurn
    <3> QED BY <2>0, <3>1, ScanKeepsInvocation DEF ReadKept
  <2>3. ASSUME NEW k, NEW g, EligibilityChanged(k, g) PROVE ReadKept
    <3>1. PICK R : held' = ReleaseAll(held, R)
      BY <2>3 DEF EligibilityChanged, ReleaseReady
    <3> QED BY <2>0, <3>1, ReleaseKeepsInvocation DEF ReadKept
  <2>4. ASSUME NEW where \in Slices, NEW answer \in AnswerNames, SliceAnswers(where, answer) PROVE ReadKept
    <3> DEFINE r == SliceAt(where).revision
               spent == CASE answer = "budget" -> "spent" [] answer = "readfail" -> "read"
                          [] OTHER -> held[r].invocation.budget
    <3>1. held' = [held EXCEPT ![r].invocation.budget = spent] /\ answer \in Answers(r)
          /\ SliceAt(where).step = "running"
      BY <2>4 DEF SliceAnswers
    <3>2. r \in Revisions
      BY <1>1, <3>1, RunningFacts
    <3>3. held[r].invocation.budget = "read" => spent = "read"
      BY <3>1 DEF Answers
    <3> HIDE DEF r, spent
    <3>4. \A q \in Revisions : q # r => held'[q] = held[q]
      BY <2>0, <3>1, <3>2
    <3>5. held[r].invocation.budget = "read" => held'[r].invocation.budget = "read"
      <4> DEFINE e == [held[r] EXCEPT !.invocation.budget = spent]
      <4>1. held' = [held EXCEPT ![r] = e]
        BY <3>1
      <4>2. held[r] \in Entries
        BY <2>0, <3>2
      <4>3. e.invocation.budget = spent
        BY <4>2 DEF Entries
      <4> HIDE DEF e
      <4> QED BY <2>0, <3>2, <3>3, <4>1, <4>3
    <3> QED BY <3>4, <3>5 DEF ReadKept
  <2>5. ASSUME NEW where \in Slices, SliceEnds(where) PROVE ReadKept
    <3>1. /\ held' = Handled(SliceAt(where))
          /\ SliceAt(where).step \notin {"none", "created", "running", "ended"}
      BY <2>5 DEF SliceEnds
    <3>2. SliceAt(where) \in SliceRecords /\ SliceAt(where).revision \in Revisions
      BY <1>1, <3>1, RunningFacts
    <3> QED BY <1>1, <3>1, <3>2, HandledKeepsRead DEF ReadKept
  <2>6. ASSUME NEW r \in Revisions, Tick(r) PROVE ReadKept
    <3> DEFINE waited == [held[r] EXCEPT !.wait = "due"]
               backed == [held[r] EXCEPT !.transient = "due"]
               late == [held[r] EXCEPT !.invocation.deadline = "passed"]
    <3>1. held[r] \in Entries
      BY <2>0
    <3>2. /\ waited.invocation.budget = held[r].invocation.budget
          /\ backed.invocation.budget = held[r].invocation.budget
          /\ late.invocation.budget = held[r].invocation.budget
      BY <3>1 DEF Entries
    <3>3. \E e \in {waited, backed, late} : held' = [held EXCEPT ![r] = e]
      BY <2>6 DEF Tick
    <3> HIDE DEF waited, backed, late
    <3> QED BY <2>0, <3>2, <3>3 DEF ReadKept
  <2>7. ASSUME Coordinator PROVE ReadKept
    BY <2>1, <2>2, <2>7 DEF Coordinator, WaitEnds, LoopStops
  <2>8. ASSUME NEW where \in Slices, Slice(where) PROVE ReadKept
    BY <1>1, <2>1, <2>4, <2>5, <2>8, SliceBeginsKeepsRead DEF Slice, SliceCommits
  <2>9. ASSUME Clock PROVE ReadKept
    BY <2>1, <2>6, <2>9 DEF Clock, StatusRetried, RestrictionPasses
  <2>10. ASSUME Environment PROVE ReadKept
    BY <2>1, <2>3, <2>10 DEF Environment, OfferWork, GateCloses, GateOpens, CapacityTaken, CapacityFreed, Shutdown
  <2>11. ASSUME NEW credit \in BOOLEAN, SliceBegins("inline", credit) PROVE ReadKept
    BY <1>1, <2>11, SliceBeginsKeepsRead DEF Slices
  <2>12. ASSUME UNCHANGED coordinatorVars PROVE ReadKept
    BY <2>1, <2>12 DEF coordinatorVars
  <2> QED BY <1>1, <2>7, <2>8, <2>9, <2>10, <2>11, <2>12 DEF CoordinatorNext
<1>2. ASSUME CoordinatorInv, [CoordinatorNext]_coordinatorVars
      PROVE  [\A r \in Revisions : held[r].invocation.budget = "read" =>
                    held'[r].invocation.budget = "read" \/ held'[r] = Blank]_coordinatorVars
  BY <1>1, <1>2 DEF ReadKept
<1> QED BY <1>2, CoordinatorInvariant, PTL DEF CoordinatorSpec, ReadFailureKept
=============================================================================
