------------------------- MODULE RpcSchedulerProofs -------------------------
(***************************************************************************)
(* Theorems about RpcScheduler, for every value of its constants, in three *)
(* parts: the types; who answers a waiting caller and who gives a slot     *)
(* back; and the accounts of the slots.                                    *)
(***************************************************************************)
EXTENDS RpcScheduler, FiniteSetTheorems, WellFoundedInduction, TLAPS

-----------------------------------------------------------------------------
(* The least element of a set of instants or cursor offsets. *)

\* LeastOf (min(future), the first turn that serves) returns the minimum.
LEMMA LeastOfNat ==
    ASSUME NEW S, S \subseteq Nat, S # {}
    PROVE  LeastOf(S) \in S /\ \A y \in S : LeastOf(S) <= y
<1>1. \E x \in S : \A y \in S : ~ (<<y, x>> \in OpToRel(<, Nat))
  <2>. HIDE DEF OpToRel
  <2> QED BY NatLessThanWellFounded, WFMin
<1>2. \A x, y \in Nat : y < x => <<y, x>> \in OpToRel(<, Nat)
  BY DEF OpToRel
<1>3. PICK x \in S : \A y \in S : ~ (<<y, x>> \in OpToRel(<, Nat))
  BY <1>1
<1>4. \A y \in S : x <= y
  <2>. HIDE DEF OpToRel
  <2>1. \A y \in S : ~ (y < x) BY <1>2, <1>3
  <2> QED BY <2>1
<1> QED BY <1>4 DEF LeastOf

\* Arming the release timer keeps it an instant.
LEMMA RearmType ==
    ASSUME NEW armed \in Instants, Rearm(armed),
           queued' \subseteq Tickets, source' \in [Tickets -> Sources],
           nextWrite' \in Instants, releaseAt' \in [Sources -> Instants]
    PROVE  timer' \in Instants
<1>1. FutureReleases' \subseteq Instants
  BY DEF FutureReleases, ReleaseTime, Later, Instants
<1>. DEFINE T == {armed} \cup FutureReleases'
<1>2. T \subseteq Instants /\ T # {}
  BY <1>1
<1>3. Instants \subseteq Nat
  BY TimeAssumption DEF Instants, Never
<1>4. timer' = LeastOf(T)
  BY DEF Rearm
<1>. HIDE DEF T
<1>5. LeastOf(T) \in T
  BY <1>2, <1>3, LeastOfNat
<1> QED BY <1>2, <1>4, <1>5

\* _ensure_dispatcher_locked arms the timer for an instant of the clock.
LEMMA EnsureType ==
    ASSUME NEW armed \in Instants, EnsureDispatcher(armed),
           queued' \subseteq Tickets, source' \in [Tickets -> Sources],
           nextWrite' \in Instants, releaseAt' \in [Sources -> Instants],
           dispatcher \in DispatcherState
    PROVE  timer' \in Instants /\ dispatcher' \in DispatcherState
<1>1. CASE Rearm(armed) /\ dispatcher' = dispatcher
  BY <1>1, RearmType
<1>2. CASE dispatcher' = "readiness" /\ timer' = armed
  BY <1>2 DEF DispatcherState
<1> QED BY <1>1, <1>2 DEF EnsureDispatcher, DispatcherState

-----------------------------------------------------------------------------
(* Type correctness, action by action. *)

\* A settled or answered ticket map keeps its type.
LEMMA SettleType ==
    ASSUME NEW D, NEW E, NEW G, 
           NEW st \in [Tickets -> TicketState],
           NEW ft \in [Tickets -> FutureState]
    PROVE  /\ Settled(st, D, E, G) \in [Tickets -> TicketState]
           /\ Answered(ft, D, E, G) \in [Tickets -> FutureState]
BY DEF Settled, Answered, TicketState, FutureState

\* Giving a slot back keeps the counters integers.
LEMMA ReleaseType ==
    ASSUME TypeOK, NEW t \in Tickets, Release(t)
    PROVE  /\ active' \subseteq Tickets /\ recorded' \subseteq Tickets
           /\ classCount' \in [Classes -> Int] /\ sourceCount' \in [Sources -> Int]
<1>1. active' \subseteq Tickets /\ recorded' \subseteq Tickets
  BY DEF TypeOK, Release
<1>2. source[t] \in Sources /\ Class(t) \in Classes
  BY ContractAssumption DEF TypeOK, Class
<1>3. classCount \in [Classes -> Int] /\ sourceCount \in [Sources -> Int]
  BY DEF TypeOK
<1>4. /\ classCount' = [classCount EXCEPT ![Class(t)] = classCount[Class(t)] - 1]
      /\ sourceCount' = [sourceCount EXCEPT ![source[t]] = sourceCount[source[t]] - 1]
  BY DEF Release
<1>5. classCount' \in [Classes -> Int]
  BY <1>2, <1>3, <1>4
<1>6. sourceCount' \in [Sources -> Int]
  BY <1>2, <1>3, <1>4
<1> QED BY <1>1, <1>5, <1>6

\* Resuming keeps the types.
LEMMA TypeResume ==
    ASSUME TypeOK, NEW t \in Tickets, Resume(t) PROVE TypeOK'
BY DEF TypeOK, Resume, CallerState, tickets, slots, cursors, environment, Instants, Never
\* Cancelling a caller keeps the types.
LEMMA TypeCallerCancel ==
    ASSUME TypeOK, NEW t \in Tickets, CallerCancel(t) PROVE TypeOK'
BY DEF TypeOK, CallerCancel, CallerState, FutureState, tickets, slots, cursors, environment, Instants, Never
\* _cancel_ticket keeps the types.
LEMMA TypeCancelTicket ==
    ASSUME TypeOK, NEW t \in Tickets, CancelTicket(t) PROVE TypeOK'
<1>1. /\ active' \subseteq Tickets /\ recorded' \subseteq Tickets
      /\ classCount' \in [Classes -> Int] /\ sourceCount' \in [Sources -> Int]
  <2>1. CASE Release(t)
    BY <2>1, ReleaseType
  <2>2. CASE UNCHANGED slots
    BY <2>2 DEF TypeOK, slots
  <2> QED BY <2>1, <2>2 DEF CancelTicket
<1>2. /\ caller' \in [Tickets -> CallerState]
      /\ state' \in [Tickets -> TicketState]
      /\ queued' \subseteq Tickets
  BY DEF TypeOK, CancelTicket, CallerState, TicketState
<1> QED BY <1>1, <1>2 DEF TypeOK, CancelTicket, tickets, cursors, environment

\* record_dispatch keeps the types.
LEMMA TypeRecordDispatch ==
    ASSUME TypeOK, NEW t \in Tickets, RecordDispatch(t) PROVE TypeOK'
<1>1. nextWrite' \in Instants
  BY TimeAssumption DEF TypeOK, RecordDispatch, Instants, Never
<1>2. timer' \in Instants
  <2>1. /\ queued' \subseteq Tickets /\ source' \in [Tickets -> Sources]
        /\ releaseAt' \in [Sources -> Instants] /\ timer \in Instants /\ Rearm(timer)
    BY DEF TypeOK, RecordDispatch, tickets, environment
  <2> QED BY <1>1, <2>1, RearmType
<1> QED BY <1>1, <1>2 DEF TypeOK, RecordDispatch, tickets, environment, cursors

\* Deferring and re-examining the queues keeps the types.
LEMMA TypeDeferAndEnsure ==
    ASSUME TypeOK, NEW armed \in Instants, DeferAndEnsure(armed),
           source' \in [Tickets -> Sources],
           nextWrite' \in Instants, releaseAt' \in [Sources -> Instants]
    PROVE  /\ state' \in [Tickets -> TicketState]
           /\ fut' \in [Tickets -> FutureState]
           /\ queued' \subseteq Tickets
           /\ timer' \in Instants
           /\ dispatcher' \in DispatcherState
<1>1. CASE closed
  BY <1>1 DEF TypeOK, DeferAndEnsure
<1>2. CASE ~closed
  <2>1. queued' \subseteq Tickets
    BY <1>2 DEF TypeOK, DeferAndEnsure
  <2>2. timer' \in Instants /\ dispatcher' \in DispatcherState
    <3>1. EnsureDispatcher(armed) /\ dispatcher \in DispatcherState
      BY <1>2 DEF TypeOK, DeferAndEnsure
    <3> QED BY <2>1, <3>1, EnsureType
  <2>3. state' \in [Tickets -> TicketState] /\ fut' \in [Tickets -> FutureState]
    <3>. DEFINE D == {t \in queued : source[t] \in held'}
    <3>1. state' = Settled(state, D, {}, {}) /\ fut' = Answered(fut, D, {}, {})
      BY <1>2 DEF DeferAndEnsure
    <3>. HIDE DEF D
    <3> QED BY <3>1, SettleType DEF TypeOK
  <2> QED BY <2>1, <2>2, <2>3
<1> QED BY <1>1, <1>2

\* _release_ready keeps the types.
LEMMA TypeReleaseTimer == ASSUME TypeOK, ReleaseTimer PROVE TypeOK'
<1>1. /\ source' \in [Tickets -> Sources] /\ nextWrite' \in Instants
      /\ releaseAt' \in [Sources -> Instants] /\ Never \in Instants
      /\ DeferAndEnsure(Never)
  BY TimeAssumption DEF TypeOK, ReleaseTimer, tickets, environment, Instants, Never
<1>2. /\ state' \in [Tickets -> TicketState]
      /\ fut' \in [Tickets -> FutureState]
      /\ queued' \subseteq Tickets
      /\ timer' \in Instants
      /\ dispatcher' \in DispatcherState
  BY <1>1, TypeDeferAndEnsure
<1> QED BY <1>1, <1>2
        DEF TypeOK, ReleaseTimer, tickets, slots, cursors, environment

\* A changed restriction keeps the types.
LEMMA TypeEligibilityChange ==
    ASSUME TypeOK, NEW s \in Sources, EligibilityChange(s) PROVE TypeOK'
<1>1. /\ source' \in [Tickets -> Sources] /\ nextWrite' \in Instants
      /\ Never \in Instants /\ DeferAndEnsure(Never)
  BY TimeAssumption DEF TypeOK, EligibilityChange, tickets, Instants, Never
<1>2. releaseAt' \in [Sources -> Instants] /\ held' \subseteq Sources
  <2>1. Releases \cup {Never} \subseteq Instants
    BY TimeAssumption DEF Instants, Never
  <2>2. releaseAt \in [Sources -> Instants] /\ held \subseteq Sources
    BY DEF TypeOK
  <2>3. CASE /\ \E r \in Releases \cup {Never} : releaseAt' = [releaseAt EXCEPT ![s] = r]
             /\ UNCHANGED held
    BY <2>1, <2>2, <2>3
  <2>4. CASE /\ held' = IF s \in held THEN held \ {s} ELSE held \cup {s}
             /\ UNCHANGED releaseAt
    BY <2>2, <2>4
  <2> QED BY <2>3, <2>4 DEF EligibilityChange
<1>3. /\ state' \in [Tickets -> TicketState]
      /\ fut' \in [Tickets -> FutureState]
      /\ queued' \subseteq Tickets
      /\ timer' \in Instants
      /\ dispatcher' \in DispatcherState
  BY <1>1, <1>2, TypeDeferAndEnsure
<1> QED BY <1>1, <1>2, <1>3
        DEF TypeOK, EligibilityChange, tickets, slots, cursors

\* admit keeps the types.
LEMMA TypeAdmit ==
    ASSUME TypeOK, NEW s \in Sources, NEW d \in Deadlines, Admit(s, d) PROVE TypeOK'
<1>1. seq + 1 \in Tickets /\ clock + d \in 0..MaxTime
  BY TimeAssumption DEF TypeOK, Admit, Tickets
<1>2. /\ source' \in [Tickets -> Sources]
      /\ deadline' \in [Tickets -> 0..MaxTime]
      /\ caller' \in [Tickets -> CallerState]
      /\ queued' \subseteq Tickets
  BY <1>1 DEF TypeOK, Admit, CallerState
<1>5. seq' \in 0..MaxTicket
  BY TimeAssumption DEF TypeOK, Admit
<1>3. /\ state' \in [Tickets -> TicketState]
      /\ fut' \in [Tickets -> FutureState]
  BY <1>1 DEF TypeOK, Admit, Settled, Answered, TicketState, FutureState
<1>4. timer' \in Instants /\ dispatcher' \in DispatcherState
  <2>1. /\ nextWrite' \in Instants /\ releaseAt' \in [Sources -> Instants]
        /\ timer \in Instants /\ dispatcher \in DispatcherState
        /\ EnsureDispatcher(timer)
    BY DEF TypeOK, Admit, environment
  <2> QED BY <1>2, <2>1, EnsureType
<1> QED BY <1>2, <1>3, <1>4, <1>5 DEF TypeOK, Admit, slots, environment, cursors

\* complete keeps the types.
LEMMA TypeComplete ==
    ASSUME TypeOK, NEW t \in Tickets, Complete(t) PROVE TypeOK'
<1>1. CASE UNCHANGED <<state, fut, queued, timer, dispatcher>>
  <2>1. /\ active' \subseteq Tickets /\ recorded' \subseteq Tickets
        /\ classCount' \in [Classes -> Int] /\ sourceCount' \in [Sources -> Int]
    <3>1. CASE Release(t)
      BY <3>1, ReleaseType
    <3>2. CASE UNCHANGED slots
      BY <3>2 DEF TypeOK, slots
    <3> QED BY <3>1, <3>2 DEF Complete
  <2> QED BY <1>1, <2>1
          DEF TypeOK, Complete, tickets, cursors, environment, CallerState
<1>2. CASE /\ state' = Settled(state, HeldIn(queued), {}, {})
           /\ fut' = Answered(fut, HeldIn(queued), {}, {})
           /\ queued' = queued \ HeldIn(queued)
           /\ Release(t)
           /\ EnsureDispatcher(timer)
  <2>1. /\ nextWrite' \in Instants /\ releaseAt' \in [Sources -> Instants]
        /\ timer \in Instants /\ dispatcher \in DispatcherState
        /\ source' \in [Tickets -> Sources] /\ queued' \subseteq Tickets
        /\ EnsureDispatcher(timer)
    BY <1>2 DEF TypeOK, Complete, tickets, environment
  <2>2. timer' \in Instants /\ dispatcher' \in DispatcherState
    BY <2>1, EnsureType
  <2>3. /\ state' \in [Tickets -> TicketState]
        /\ fut' \in [Tickets -> FutureState]
    BY <1>2, SettleType DEF TypeOK
  <2>4. /\ active' \subseteq Tickets /\ recorded' \subseteq Tickets
        /\ classCount' \in [Classes -> Int] /\ sourceCount' \in [Sources -> Int]
    BY <1>2, ReleaseType
  <2> QED BY <2>1, <2>2, <2>3, <2>4
          DEF TypeOK, Complete, tickets, cursors, environment, CallerState
<1> QED BY <1>1, <1>2 DEF Complete

\* A refused admission keeps the types.
LEMMA TypeAdmitRejected ==
    ASSUME TypeOK, NEW s \in Sources, AdmitRejected(s) PROVE TypeOK'
BY DEF TypeOK, AdmitRejected, tickets, slots, cursors, environment

\* An expiry timer keeps the types.
LEMMA TypeExpireTicket ==
    ASSUME TypeOK, NEW t \in Tickets, ExpireTicket(t) PROVE TypeOK'
BY SettleType DEF TypeOK, ExpireTicket, tickets, slots, cursors, environment

\* _acquire_dispatch_capacity keeps the types.
LEMMA TypeDispatcherCheck == ASSUME TypeOK, DispatcherCheck PROVE TypeOK'
BY SettleType DEF TypeOK, DispatcherCheck, tickets, slots, cursors, environment,
                  DispatcherState

-----------------------------------------------------------------------------
(* Selection: whenever something can be dispatched, a ticket that can be is  *)
(* chosen, and the cursors stay inside their cycles.                         *)

\* Every position of a cycle of n entries is reached within one lap.
LEMMA WrapLap ==
    ASSUME NEW n \in Nat \ {0}, NEW p \in 0..n-1
    PROVE  /\ \A k \in 0..n-1 : Wrap(p + k, n) \in 0..n-1 /\ Wrap(p + k + 1, n) \in 0..n-1
           /\ \A i \in 1..n : \E k \in 0..n-1 : Wrap(p + k, n) + 1 = i
<1>1. \A k \in 0..n-1 : Wrap(p + k, n) \in 0..n-1 /\ Wrap(p + k + 1, n) \in 0..n-1
  BY DEF Wrap
<1>2. ASSUME NEW i \in 1..n PROVE \E k \in 0..n-1 : Wrap(p + k, n) + 1 = i
  <2>1. CASE i - 1 >= p
    <3>1. i - 1 - p \in 0..n-1 /\ Wrap(p + (i - 1 - p), n) + 1 = i
      BY <2>1 DEF Wrap
    <3> QED BY <3>1
  <2>2. CASE i - 1 < p
    <3>1. i - 1 - p + n \in 0..n-1 /\ Wrap(p + (i - 1 - p + n), n) + 1 = i
      BY <2>2 DEF Wrap
    <3> QED BY <3>1
  <2> QED BY <2>1, <2>2
<1> QED BY <1>1, <1>2

\* Some turn of the class cycle serves a nonempty set of tickets.
LEMMA ClassTurnServes ==
    ASSUME TypeOK, NEW R \in SUBSET Tickets, R # {}
    PROVE  /\ ClassTurn(R) \in 0..Len(FairCycle)-1
           /\ TurnClass(ClassTurn(R)) \in Classes
           /\ OfClass(R, TurnClass(ClassTurn(R))) # {}
<1>. DEFINE n == Len(FairCycle)
            S == {k \in 0..n-1 : OfClass(R, TurnClass(k)) # {}}
<1>1. n \in Nat \ {0} /\ fair \in 0..n-1 /\ DOMAIN FairCycle = 1..n
  BY CycleAssumption DEF TypeOK
<1>2. PICK t \in R : TRUE
  OBVIOUS
<1>3. Class(t) \in Classes
  BY ContractAssumption DEF TypeOK, Class
<1>4. PICK i \in 1..n : FairCycle[i] = Class(t)
  BY <1>1, <1>3, CycleAssumption
<1>5. PICK k \in 0..n-1 : Wrap(fair + k, n) + 1 = i
  BY <1>1, WrapLap
<1>6. k \in S
  BY <1>2, <1>4, <1>5 DEF TurnClass, OfClass
<1>7. ClassTurn(R) = LeastOf(S) /\ S \subseteq 0..n-1 /\ S \subseteq Nat
  BY <1>1 DEF ClassTurn
<1>8. ClassTurn(R) \in S
  <2>. HIDE DEF S
  <2> QED BY <1>6, <1>7, LeastOfNat
<1>9. TurnClass(ClassTurn(R)) \in Classes
  <2>1. ClassTurn(R) \in 0..n-1
    BY <1>7, <1>8
  <2>2. Wrap(fair + ClassTurn(R), n) \in 0..n-1
    <3>. HIDE DEF S, n
    <3> QED BY <1>1, <2>1, WrapLap
  <2>3. Wrap(fair + ClassTurn(R), n) + 1 \in 1..n
    <3>. HIDE DEF S, n
    <3> QED BY <1>1, <2>2
  <2> QED BY <2>3, <1>1, CycleAssumption DEF TurnClass
<1> QED BY <1>8, <1>9

\* Some source of the class whose turn it is serves its tickets.
LEMMA SourceTurnServes ==
    ASSUME TypeOK, NEW R \in SUBSET Tickets, NEW c \in Classes, OfClass(R, c) # {}
    PROVE  /\ SourceTurn(R, c) \in 0..Len(SourceCycle[c])-1
           /\ OfSource(R, TurnSource(c, SourceTurn(R, c))) # {}
<1>. DEFINE n == Len(SourceCycle[c])
            S == {k \in 0..n-1 : OfSource(R, TurnSource(c, k)) # {}}
<1>1. n \in Nat \ {0} /\ rotation[c] \in 0..n-1 /\ DOMAIN SourceCycle[c] = 1..n
  <2>1. SourceCycle[c] \in Seq(Sources) /\ SourceCycle[c] # << >>
    BY CycleAssumption
  <2>2. n \in Nat \ {0} /\ DOMAIN SourceCycle[c] = 1..n
    BY <2>1
  <2> QED BY <2>2 DEF TypeOK
<1>2. PICK t \in R : Class(t) = c
  BY DEF OfClass
<1>3. source[t] \in Sources /\ ClassOf[source[t]] = c
  BY <1>2 DEF TypeOK, Class
<1>4. PICK i \in 1..n : SourceCycle[c][i] = source[t]
  BY <1>1, <1>3, CycleAssumption
<1>5. PICK k \in 0..n-1 : Wrap(rotation[c] + k, n) + 1 = i
  BY <1>1, WrapLap
<1>6. k \in S
  BY <1>2, <1>4, <1>5 DEF TurnSource, OfSource
<1>7. SourceTurn(R, c) = LeastOf(S) /\ S \subseteq Nat
  BY <1>1 DEF SourceTurn
<1>8. SourceTurn(R, c) \in S
  <2>. HIDE DEF S
  <2> QED BY <1>6, <1>7, LeastOfNat
<1> QED BY <1>8

\* _select_ticket_locked returns a ticket of R and moves the cursors in range.
LEMMA SelectionServes ==
    ASSUME TypeOK, NEW R \in SUBSET Tickets, R # {}
    PROVE  /\ Selected(R) \in R
           /\ AdvanceCursors(R) =>
                /\ fair' \in 0..Len(FairCycle)-1
                /\ rotation' \in [Classes -> Nat]
                /\ \A c \in Classes : rotation'[c] < Len(SourceCycle[c])
<1>. DEFINE c == TurnClass(ClassTurn(R))
<1>1. /\ ClassTurn(R) \in 0..Len(FairCycle)-1
      /\ c \in Classes
      /\ OfClass(R, c) # {}
  BY ClassTurnServes
<1>. HIDE DEF c
<1>2. /\ SourceTurn(R, c) \in 0..Len(SourceCycle[c])-1
      /\ OfSource(R, TurnSource(c, SourceTurn(R, c))) # {}
  BY <1>1, SourceTurnServes
<1>3. Selected(R) \in R
  <2>. DEFINE T == OfSource(R, TurnSource(c, SourceTurn(R, c)))
  <2>1. T \subseteq R
    BY DEF OfSource
  <2>2. R \subseteq Nat
    BY DEF Tickets
  <2>3. Selected(R) = LeastOf(T)
    BY DEF Selected, c
  <2>4. T # {}
    BY <1>2
  <2>. HIDE DEF T
  <2> QED BY <2>1, <2>2, <2>3, <2>4, LeastOfNat
<1>4. Len(FairCycle) \in Nat \ {0} /\ fair \in 0..Len(FairCycle)-1
  BY CycleAssumption DEF TypeOK
<1>5. Len(SourceCycle[c]) \in Nat \ {0} /\ rotation[c] \in 0..Len(SourceCycle[c])-1
  <2>1. SourceCycle[c] \in Seq(Sources) /\ SourceCycle[c] # << >>
    BY <1>1, CycleAssumption
  <2>2. Len(SourceCycle[c]) \in Nat \ {0}
    BY <2>1
  <2> QED BY <1>1, <2>2 DEF TypeOK
<1>6. ASSUME AdvanceCursors(R)
      PROVE  /\ fair' \in 0..Len(FairCycle)-1
             /\ rotation' \in [Classes -> Nat]
             /\ \A d \in Classes : rotation'[d] < Len(SourceCycle[d])
  <2>1. /\ fair' = Wrap(fair + ClassTurn(R) + 1, Len(FairCycle))
        /\ rotation' = [rotation EXCEPT ![c] =
              Wrap(rotation[c] + SourceTurn(R, c) + 1, Len(SourceCycle[c]))]
    BY <1>6 DEF AdvanceCursors, c
  <2>2. fair' \in 0..Len(FairCycle)-1
    BY <1>1, <1>4, <2>1, WrapLap
  <2>3. Wrap(rotation[c] + SourceTurn(R, c) + 1, Len(SourceCycle[c]))
           \in 0..Len(SourceCycle[c])-1
    BY <1>2, <1>5, WrapLap
  <2>. DEFINE w == Wrap(rotation[c] + SourceTurn(R, c) + 1, Len(SourceCycle[c]))
  <2>4. w \in Nat /\ w < Len(SourceCycle[c])
    BY <1>5, <2>3
  <2>5. rotation' = [rotation EXCEPT ![c] = w]
    BY <2>1
  <2>. HIDE DEF w
  <2>6. /\ rotation \in [Classes -> Nat]
        /\ \A d \in Classes : rotation[d] < Len(SourceCycle[d])
    BY DEF TypeOK
  <2>7. rotation' \in [Classes -> Nat]
    BY <1>1, <2>4, <2>5, <2>6
  <2>8. \A d \in Classes : rotation'[d] < Len(SourceCycle[d])
    BY <1>1, <2>4, <2>5, <2>6
  <2> QED BY <2>2, <2>7, <2>8
<1> QED BY <1>3, <1>6

\* _dispatch_one_ready_ticket keeps the types.
LEMMA TypeDispatcherSelect == ASSUME TypeOK, DispatcherSelect PROVE TypeOK'
<1>. DEFINE D == HeldIn(queued)
            kept == (queued \ D) \ Abandoned
            E == DueIn(kept)
            R == {t \in kept \ E : CanDispatch(t)}
            G == IF closed \/ R = {} THEN {} ELSE {Selected(R)}
<1>1. CASE ~ready
  BY <1>1 DEF TypeOK, DispatcherSelect, tickets, slots, cursors, environment, DispatcherState
<1>2. CASE ready
  <2>1. R \in SUBSET Tickets /\ kept \subseteq Tickets
    BY DEF TypeOK
  <2>2. /\ state' = Settled(state, D, E, G) /\ fut' = Answered(fut, D, E, G)
        /\ queued' = (kept \ E) \ G
        /\ active' = active \cup G
        /\ classCount' = [c \in Classes |-> classCount[c] + Cardinality(OfClass(G, c))]
        /\ sourceCount' = [s \in Sources |-> sourceCount[s] + Cardinality(OfSource(G, s))]
        /\ recorded' = recorded
        /\ IF G = {} THEN UNCHANGED cursors ELSE AdvanceCursors(R)
    BY <1>2 DEF DispatcherSelect
  <2>3. G = {} \/ (R # {} /\ G = {Selected(R)})
    OBVIOUS
  <2>. HIDE DEF D, kept, E, R, G
  <2>4. G \subseteq Tickets /\ IsFiniteSet(G)
    <3>1. CASE G = {}
      BY <3>1, FS_EmptySet
    <3>2. CASE R # {} /\ G = {Selected(R)}
      <4>1. Selected(R) \in R
        BY <2>1, <3>2, SelectionServes
      <4>2. IsFiniteSet(G)
        BY <3>2, FS_Singleton
      <4> QED BY <2>1, <3>2, <4>1, <4>2
    <3> QED BY <2>3, <3>1, <3>2
  <2>5. /\ fair' \in 0..Len(FairCycle)-1
        /\ rotation' \in [Classes -> Nat]
        /\ \A c \in Classes : rotation'[c] < Len(SourceCycle[c])
    <3>1. CASE G = {}
      BY <3>1, <2>2 DEF TypeOK, cursors
    <3>2. CASE G # {}
      BY <3>2, <2>1, <2>2, <2>3, SelectionServes
    <3> QED BY <3>1, <3>2
  <2>6. classCount' \in [Classes -> Int] /\ sourceCount' \in [Sources -> Int]
    <3>1. \A c \in Classes : Cardinality(OfClass(G, c)) \in Nat
      BY <2>4, FS_Subset, FS_CardinalityType DEF OfClass
    <3>2. \A s \in Sources : Cardinality(OfSource(G, s)) \in Nat
      BY <2>4, FS_Subset, FS_CardinalityType DEF OfSource
    <3> QED BY <2>2, <3>1, <3>2 DEF TypeOK
  <2>7. /\ state' \in [Tickets -> TicketState] /\ fut' \in [Tickets -> FutureState]
    BY <2>2, SettleType DEF TypeOK
  <2>8. queued' \subseteq Tickets /\ active' \subseteq Tickets
    BY <2>1, <2>2, <2>4 DEF TypeOK
  <2> QED BY <2>2, <2>5, <2>6, <2>7, <2>8
          DEF TypeOK, DispatcherSelect, tickets, environment, DispatcherState
<1> QED BY <1>1, <1>2 DEF TypeOK

\* A failing limiter keeps the types.
LEMMA TypeLimiterFails == ASSUME TypeOK, LimiterFails PROVE TypeOK'
BY TimeAssumption DEF TypeOK, LimiterFails, tickets, slots, cursors, environment,
                      DispatcherState, Instants, Never, closed

\* _start_shutdown keeps the types.
LEMMA TypeStartShutdown == ASSUME TypeOK, StartShutdown PROVE TypeOK'
BY TimeAssumption DEF TypeOK, StartShutdown, tickets, slots, cursors, environment,
                      Instants, Never

\* _drain_shutdown keeps the types.
LEMMA TypeDrainShutdown == ASSUME TypeOK, DrainShutdown PROVE TypeOK'
<1>1. fut' \in [Tickets -> FutureState]
  BY SettleType DEF TypeOK, DrainShutdown
<1>2. /\ state' \in [Tickets -> TicketState] /\ caller' \in [Tickets -> CallerState]
      /\ classCount' \in [Classes -> Int] /\ sourceCount' \in [Sources -> Int]
  BY DEF TypeOK, DrainShutdown, TicketState, CallerState
<1> QED BY <1>1, <1>2 DEF TypeOK, DrainShutdown, tickets, cursors, environment, DispatcherState

\* A change of the transport keeps the types.
LEMMA TypeReadinessChange == ASSUME TypeOK, ReadinessChange PROVE TypeOK'
BY DEF TypeOK, ReadinessChange, tickets, slots, cursors

\* The clock keeps the types.
LEMMA TypeTick == ASSUME TypeOK, Tick PROVE TypeOK'
BY TimeAssumption DEF TypeOK, Tick, tickets, slots, cursors

\* The scheduler is constructed with its types.
LEMMA TypeInit == Init => TypeOK
<1>1. (CHOOSE s \in Sources : TRUE) \in Sources
  BY ContractAssumption
<1>2. Len(FairCycle) \in Nat \ {0}
  BY CycleAssumption
<1>3. \A c \in Classes : Len(SourceCycle[c]) \in Nat \ {0}
  <2>1. \A c \in Classes : SourceCycle[c] \in Seq(Sources) /\ SourceCycle[c] # << >>
    BY CycleAssumption
  <2> QED BY <2>1
<1>4. 0 \in Instants /\ Never \in Instants
  BY TimeAssumption DEF Instants, Never
<1> SUFFICES ASSUME Init PROVE TypeOK
  OBVIOUS
<1>5. /\ state \in [Tickets -> TicketState] /\ fut \in [Tickets -> FutureState]
      /\ caller \in [Tickets -> CallerState]
  BY DEF Init, TicketState, FutureState, CallerState
<1> QED BY <1>1, <1>2, <1>3, <1>4, <1>5, TimeAssumption DEF Init, TypeOK, DispatcherState

\* Type correctness holds in every run of the scheduler: in particular the
\* cursors of the fair cycle and of every source rotation stay in range and a
\* release timer is always armed for an instant the clock can reach.
THEOREM TypeCorrect == Spec => []TypeOK
<1>1. ASSUME TypeOK, [Next]_vars PROVE TypeOK'
  <2>. USE <1>1
  <2>1. ASSUME NEW s \in Sources, NEW d \in Deadlines, Admit(s, d) PROVE TypeOK'
    BY <2>1, TypeAdmit
  <2>2. ASSUME NEW s \in Sources, AdmitRejected(s) PROVE TypeOK'
    BY <2>2, TypeAdmitRejected
  <2>3. ASSUME NEW s \in Sources, EligibilityChange(s) PROVE TypeOK'
    BY <2>3, TypeEligibilityChange
  <2>4. ASSUME NEW t \in Tickets, CallerStep(t) PROVE TypeOK'
    BY <2>4, TypeResume, TypeCallerCancel, TypeCancelTicket, TypeRecordDispatch,
       TypeComplete DEF CallerStep
  <2>5. ASSUME NEW t \in Tickets, ExpireTicket(t) PROVE TypeOK'
    BY <2>5, TypeExpireTicket
  <2>6. CASE ReleaseTimer BY <2>6, TypeReleaseTimer
  <2>7. CASE DispatcherCheck BY <2>7, TypeDispatcherCheck
  <2>8. CASE DispatcherSelect BY <2>8, TypeDispatcherSelect
  <2>9. CASE LimiterFails BY <2>9, TypeLimiterFails
  <2>10. CASE StartShutdown BY <2>10, TypeStartShutdown
  <2>11. CASE DrainShutdown BY <2>11, TypeDrainShutdown
  <2>12. CASE ReadinessChange BY <2>12, TypeReadinessChange
  <2>13. CASE Tick BY <2>13, TypeTick
  <2>14. CASE UNCHANGED vars
    BY <2>14 DEF vars, TypeOK, tickets, slots, cursors, environment
  <2> QED BY <2>1, <2>2, <2>3, <2>4, <2>5, <2>6, <2>7, <2>8, <2>9, <2>10, <2>11,
             <2>12, <2>13, <2>14 DEF Next
<1> QED BY TypeInit, <1>1, PTL DEF Spec


-----------------------------------------------------------------------------
(***************************************************************************)
(* Who answers a waiting caller and who gives a slot back, in every        *)
(* interleaving of callers, timers, dispatcher and shutdown: the inductive *)
(* invariant of RpcScheduler and the safety theorems that follow from it.  *)
(***************************************************************************)

\* Where a ticket, its future and its caller may be in relation to each other.
\* "state" of a pruned ticket stays "queued" until its caller runs again, so
\* membership in a queue, not the state, is what the invariant speaks of.
TicketOwned(t) ==
    /\ t \in queued => state[t] = "queued" /\ t <= seq
    /\ fut[t] = "pending" => t \in queued /\ caller[t] = "waiting"
    /\ t \in active => /\ state[t] = "dispatched" /\ fut[t] = "result" /\ t <= seq
                       /\ caller[t] \in {"waiting", "cancelling", "holding"}
    /\ shutdown # "drained" /\ caller[t] = "holding" => t \in active
    /\ shutdown # "drained" /\ caller[t] = "waiting" /\ fut[t] = "result" => t \in active
    /\ t > seq => caller[t] = "idle" /\ fut[t] = "none"

\* What a shutdown has already put away stays away.
ShutdownQuiet ==
    /\ closed => timer = Never
    /\ shutdown = "drained" => queued = {} /\ active = {} /\ dispatcher = "none"

Ownership == (\A t \in Tickets : TicketOwned(t)) /\ ShutdownQuiet

Strong == TypeOK /\ Ownership

\* At first no ticket exists and nothing is shut down.
LEMMA OwnInit == Init => Ownership
<1> SUFFICES ASSUME Init PROVE Ownership
  OBVIOUS
<1>1. ASSUME NEW t \in Tickets PROVE TicketOwned(t)
  BY DEF Init, TicketOwned, Tickets
<1>2. ShutdownQuiet
  BY DEF Init, ShutdownQuiet, closed
<1> QED BY <1>1, <1>2 DEF Ownership

-----------------------------------------------------------------------------
(* Callers *)

\* A new ticket is queued with its caller waiting, or answered with a deferral.
LEMMA OwnAdmit ==
    ASSUME Strong, NEW s \in Sources, NEW d \in Deadlines, Admit(s, d)
    PROVE  Ownership'
<1>. DEFINE n == seq + 1
            waiting == (queued \ Abandoned) \cup {n}
            D == {x \in waiting : source'[x] \in held}
<1>1. /\ n \in Tickets /\ seq' = n /\ seq \in Nat
      /\ caller' = [caller EXCEPT ![n] = "waiting"]
      /\ state' = Settled([state EXCEPT ![n] = "queued"], D, {}, {})
      /\ fut' = Answered([fut EXCEPT ![n] = "pending"], D, {}, {})
      /\ queued' = waiting \ D
      /\ active' = active /\ shutdown' = shutdown /\ ~closed
  BY TimeAssumption DEF Strong, TypeOK, Admit, Tickets, slots
<1>2. /\ state \in [Tickets -> TicketState] /\ fut \in [Tickets -> FutureState]
      /\ caller \in [Tickets -> CallerState] /\ Tickets \subseteq Nat
  BY DEF Strong, TypeOK, Tickets
<1>3. ASSUME NEW t \in Tickets PROVE TicketOwned(t)'
  <2>1. TicketOwned(t)
    BY DEF Strong, Ownership
  <2>2. CASE t = n
    <3>1. t \notin active /\ fut'[t] \in {"pending", "error"} /\ state'[t] \in {"queued", "deferred"}
      BY <1>1, <1>2, <2>1, <2>2 DEF TicketOwned, Settled, Answered
    <3>2. (t \in D /\ fut'[t] = "error") \/ (t \in queued' /\ state'[t] = "queued")
      BY <1>1, <1>2, <2>2 DEF Settled, Answered
    <3>3. t \in D => t \notin queued'
      BY <1>1
    <3>. HIDE DEF D, waiting
    <3> QED BY <1>1, <1>2, <2>2, <3>1, <3>2, <3>3 DEF TicketOwned
  <2>3. CASE t # n
    <3>1. /\ state'[t] = IF t \in D THEN "deferred" ELSE state[t]
          /\ fut'[t] = IF fut[t] # "pending" THEN fut[t]
                       ELSE IF t \in D THEN "error" ELSE "pending"
          /\ caller'[t] = caller[t]
      BY <1>1, <1>2, <2>3 DEF Settled, Answered
    <3>2. /\ t \in D => t \in queued
          /\ t \in queued' <=> t \in queued /\ t \notin D /\ fut[t] = "pending"
      BY <1>1, <2>3 DEF Abandoned
    <3>. HIDE DEF D, waiting
    <3> QED BY <1>1, <1>2, <2>1, <2>3, <3>1, <3>2 DEF TicketOwned
  <2> QED BY <2>2, <2>3
<1>4. ShutdownQuiet'
  BY <1>1 DEF ShutdownQuiet, closed
<1> QED BY <1>3, <1>4 DEF Ownership

\* A refusal only prunes tickets that are answered already.
LEMMA OwnAdmitRejected ==
    ASSUME Strong, NEW s \in Sources, AdmitRejected(s) PROVE Ownership'
<1>1. ASSUME NEW t \in Tickets PROVE TicketOwned(t)'
  BY DEF Strong, TypeOK, Ownership, TicketOwned, AdmitRejected, Abandoned, tickets, slots
<1>2. ShutdownQuiet'
  BY DEF Strong, Ownership, ShutdownQuiet, AdmitRejected, closed, slots
<1> QED BY <1>1, <1>2 DEF Ownership

\* A caller that was granted resumes as the holder of its slot.
LEMMA OwnResume ==
    ASSUME Strong, NEW u \in Tickets, Resume(u) PROVE Ownership'
<1>1. ASSUME NEW t \in Tickets PROVE TicketOwned(t)'
  BY DEF Strong, TypeOK, Ownership, TicketOwned, Resume, tickets, slots
<1>2. ShutdownQuiet'
  BY DEF Strong, Ownership, ShutdownQuiet, Resume, closed, slots
<1> QED BY <1>1, <1>2 DEF Ownership

\* A cancelled caller still owns the slot it was granted.
LEMMA OwnCallerCancel ==
    ASSUME Strong, NEW u \in Tickets, CallerCancel(u) PROVE Ownership'
<1>1. ASSUME NEW t \in Tickets PROVE TicketOwned(t)'
  BY DEF Strong, TypeOK, Ownership, TicketOwned, CallerCancel, tickets, slots
<1>2. ShutdownQuiet'
  BY DEF Strong, Ownership, ShutdownQuiet, CallerCancel, closed, slots
<1> QED BY <1>1, <1>2 DEF Ownership

\* A caller that leaves gives back the slot it was granted.
LEMMA OwnCancelTicket ==
    ASSUME Strong, NEW u \in Tickets, CancelTicket(u) PROVE Ownership'
<1>1. active' = active \ {u}
  BY DEF Strong, Ownership, TicketOwned, CancelTicket, Release, slots
<1>2. ASSUME NEW t \in Tickets PROVE TicketOwned(t)'
  BY <1>1 DEF Strong, TypeOK, Ownership, TicketOwned, CancelTicket, tickets
<1>3. ShutdownQuiet'
  BY <1>1 DEF Strong, Ownership, ShutdownQuiet, CancelTicket, closed
<1> QED BY <1>2, <1>3 DEF Ownership

\* Claiming the physical write keeps the slot.
LEMMA OwnRecordDispatch ==
    ASSUME Strong, NEW u \in Tickets, RecordDispatch(u) PROVE Ownership'
<1>1. ASSUME NEW t \in Tickets PROVE TicketOwned(t)'
  BY DEF Strong, TypeOK, Ownership, TicketOwned, RecordDispatch, tickets
<1>2. ShutdownQuiet'
  BY DEF ShutdownQuiet, RecordDispatch, closed
<1> QED BY <1>1, <1>2 DEF Ownership

\* Deferring the held tickets answers exactly the ones it takes off the queues.
LEMMA OwnDeferred ==
    ASSUME Strong, NEW D \in SUBSET queued, NEW t \in Tickets,
           state' = Settled(state, D, {}, {}), fut' = Answered(fut, D, {}, {}),
           queued' = queued \ D
    PROVE  /\ t \in queued' => t \in queued /\ state'[t] = state[t]
           /\ fut'[t] = "pending" => fut[t] = "pending" /\ t \in queued'
           /\ fut[t] # "pending" => fut'[t] = fut[t]
           /\ fut'[t] = "result" => fut[t] = "result"
           /\ t \in active => state'[t] = state[t]
           /\ t \notin queued => fut'[t] = fut[t] /\ state'[t] = state[t]
BY DEF Strong, TypeOK, Ownership, TicketOwned, Settled, Answered

\* A holder gives its slot back and leaves.
LEMMA OwnComplete ==
    ASSUME Strong, NEW u \in Tickets, Complete(u) PROVE Ownership'
<1>1. active' = active \ {u}
  BY DEF Complete, Release, slots
<1>2. CASE UNCHANGED <<state, fut, queued, timer, dispatcher>>
  <2>1. ASSUME NEW t \in Tickets PROVE TicketOwned(t)'
    BY <1>1, <1>2 DEF Strong, TypeOK, Ownership, TicketOwned, Complete, tickets
  <2>2. ShutdownQuiet'
    BY <1>1, <1>2 DEF Strong, Ownership, ShutdownQuiet, Complete, closed
  <2> QED BY <2>1, <2>2 DEF Ownership
<1>3. CASE /\ state' = Settled(state, HeldIn(queued), {}, {})
           /\ fut' = Answered(fut, HeldIn(queued), {}, {})
           /\ queued' = queued \ HeldIn(queued)
           /\ ~closed
  <2>1. HeldIn(queued) \in SUBSET queued
    BY DEF HeldIn
  <2>2. ASSUME NEW t \in Tickets PROVE TicketOwned(t)'
    <3>1. /\ t \in queued' => t \in queued /\ state'[t] = state[t]
          /\ fut'[t] = "pending" => fut[t] = "pending" /\ t \in queued'
          /\ fut[t] # "pending" => fut'[t] = fut[t]
          /\ fut'[t] = "result" => fut[t] = "result"
          /\ t \in active => state'[t] = state[t]
          /\ t \notin queued => fut'[t] = fut[t] /\ state'[t] = state[t]
      BY <1>3, <2>1, OwnDeferred
    <3> QED BY <1>1, <3>1 DEF Strong, TypeOK, Ownership, TicketOwned, Complete, tickets
  <2>3. ShutdownQuiet'
    BY <1>3 DEF ShutdownQuiet, Complete, closed
  <2> QED BY <2>2, <2>3 DEF Ownership
<1> QED BY <1>2, <1>3 DEF Complete

-----------------------------------------------------------------------------
(* Timers, the dispatcher and shutdown *)

\* A ticket that expires is answered and leaves its queue.
LEMMA OwnExpireTicket ==
    ASSUME Strong, NEW u \in Tickets, ExpireTicket(u) PROVE Ownership'
<1>1. ASSUME NEW t \in Tickets PROVE TicketOwned(t)'
  BY DEF Strong, TypeOK, Ownership, TicketOwned, ExpireTicket, Settled, Answered,
         tickets, slots
<1>2. ShutdownQuiet'
  BY DEF Strong, Ownership, ShutdownQuiet, ExpireTicket, closed, slots
<1> QED BY <1>1, <1>2 DEF Ownership

\* Common to _release_ready and notify_eligibility_changed.
LEMMA OwnDeferAndEnsure ==
    ASSUME Strong, DeferAndEnsure(Never),
           UNCHANGED <<seq, caller, active, shutdown>>
    PROVE  Ownership'
<1>. DEFINE D == {t \in queued : source[t] \in held'}
<1>1. CASE closed
  <2>1. UNCHANGED <<state, fut, queued, dispatcher>> /\ timer' = Never
    BY <1>1 DEF DeferAndEnsure
  <2>2. ASSUME NEW t \in Tickets PROVE TicketOwned(t)'
    BY <2>1 DEF Strong, Ownership, TicketOwned
  <2>3. ShutdownQuiet'
    BY <2>1 DEF Strong, Ownership, ShutdownQuiet, closed
  <2> QED BY <2>2, <2>3 DEF Ownership
<1>2. CASE ~closed
  <2>1. /\ state' = Settled(state, D, {}, {}) /\ fut' = Answered(fut, D, {}, {})
        /\ queued' = queued \ D
    BY <1>2 DEF DeferAndEnsure
  <2>2. D \in SUBSET queued
    OBVIOUS
  <2>. HIDE DEF D
  <2>3. ASSUME NEW t \in Tickets PROVE TicketOwned(t)'
    <3>1. /\ t \in queued' => t \in queued /\ state'[t] = state[t]
          /\ fut'[t] = "pending" => fut[t] = "pending" /\ t \in queued'
          /\ fut[t] # "pending" => fut'[t] = fut[t]
          /\ fut'[t] = "result" => fut[t] = "result"
          /\ t \in active => state'[t] = state[t]
          /\ t \notin queued => fut'[t] = fut[t] /\ state'[t] = state[t]
      BY <2>1, <2>2, OwnDeferred
    <3> QED BY <3>1, <2>1 DEF Strong, TypeOK, Ownership, TicketOwned
  <2>4. ShutdownQuiet'
    BY <1>2 DEF ShutdownQuiet, closed
  <2> QED BY <2>3, <2>4 DEF Ownership
<1> QED BY <1>1, <1>2

\* The release timer only answers what is deferred.
LEMMA OwnReleaseTimer == ASSUME Strong, ReleaseTimer PROVE Ownership'
BY OwnDeferAndEnsure DEF ReleaseTimer, tickets, slots

\* A changed restriction only answers what is deferred.
LEMMA OwnEligibilityChange ==
    ASSUME Strong, NEW s \in Sources, EligibilityChange(s) PROVE Ownership'
BY OwnDeferAndEnsure DEF EligibilityChange, tickets, slots

\* What the dispatcher prunes is answered already, what is due is answered now.
LEMMA OwnDispatcherCheck == ASSUME Strong, DispatcherCheck PROVE Ownership'
<1>. DEFINE kept == queued \ Abandoned
            E == DueIn(kept)
<1>1. /\ state' = Settled(state, {}, E, {}) /\ fut' = Answered(fut, {}, E, {})
      /\ queued' = kept \ E
      /\ UNCHANGED <<seq, caller, active, shutdown, timer>> /\ dispatcher # "none"
  BY DEF DispatcherCheck, tickets, slots
<1>2. /\ E \subseteq kept /\ kept \subseteq queued
      /\ \A t \in queued : fut[t] = "pending" => t \in kept
  BY DEF DueIn, Abandoned
<1>. HIDE DEF kept, E
<1>3. ASSUME NEW t \in Tickets PROVE TicketOwned(t)'
  BY <1>1, <1>2 DEF Strong, TypeOK, Ownership, TicketOwned, Settled, Answered
<1>4. ShutdownQuiet'
  BY <1>1 DEF Strong, Ownership, ShutdownQuiet, closed
<1> QED BY <1>3, <1>4 DEF Ownership

\* What _dispatch_one_ready_ticket does: it defers D, prunes, expires E and
\* grants G, at most one ticket, still queued, unanswered, before its deadline
\* and within its class capacity.
GrantStep(D, E, kept, G) ==
    /\ D \subseteq queued /\ kept \subseteq queued \ D
    /\ E \subseteq kept /\ G \subseteq kept \ E
    /\ \A t \in queued \ D : fut[t] = "pending" <=> t \in kept
    /\ state' = Settled(state, D, E, G) /\ fut' = Answered(fut, D, E, G)
    /\ queued' = (kept \ E) \ G /\ active' = active \cup G
    /\ G = {} \/ \E g \in Tickets : G = {g} /\ CanDispatch(g)
    /\ closed => G = {}
    /\ \A t \in G : fut[t] = "pending" /\ ~(deadline[t] <= clock)
    /\ classCount' = [c \in Classes |-> classCount[c] + Cardinality(OfClass(G, c))]
    /\ sourceCount' = [s \in Sources |-> sourceCount[s] + Cardinality(OfSource(G, s))]

\* What the dispatcher grants is one queued ticket with a pending future and time left.
LEMMA GrantSound ==
    ASSUME Strong, DispatcherSelect, ready
    PROVE  \E D, E, kept, G \in SUBSET Tickets : GrantStep(D, E, kept, G)
<1>. DEFINE D == HeldIn(queued)
            kept == (queued \ D) \ Abandoned
            E == DueIn(kept)
            R == {t \in kept \ E : CanDispatch(t)}
            G == IF closed \/ R = {} THEN {} ELSE {Selected(R)}
<1>1. R \in SUBSET Tickets
  BY DEF Strong, TypeOK
<1>2. G = {} \/ (~closed /\ R # {} /\ G = {Selected(R)})
  OBVIOUS
<1>3. G = {} \/ (Selected(R) \in R /\ G = {Selected(R)})
  <2>. HIDE DEF R, G
  <2> QED BY <1>1, <1>2, SelectionServes DEF Strong
<1>4. /\ D \subseteq queued /\ kept \subseteq queued \ D /\ E \subseteq kept
      /\ R \subseteq kept \ E /\ \A t \in R : CanDispatch(t)
      /\ \A t \in queued \ D : fut[t] = "pending" <=> t \in kept
      /\ \A t \in kept \ E : ~(deadline[t] <= clock)
  BY DEF HeldIn, Abandoned, DueIn
<1>5. /\ state' = Settled(state, D, E, G) /\ fut' = Answered(fut, D, E, G)
      /\ queued' = (kept \ E) \ G /\ active' = active \cup G
      /\ classCount' = [c \in Classes |-> classCount[c] + Cardinality(OfClass(G, c))]
      /\ sourceCount' = [s \in Sources |-> sourceCount[s] + Cardinality(OfSource(G, s))]
  BY DEF DispatcherSelect
<1>6. queued \subseteq Tickets
  BY DEF Strong, TypeOK
<1>. HIDE DEF D, kept, E, R, G
<1>7. G = {} \/ \E g \in Tickets : G = {g} /\ CanDispatch(g)
  BY <1>1, <1>3, <1>4
<1>8. closed => G = {}
  BY <1>2
<1>9. G \subseteq kept \ E
  BY <1>3, <1>4
<1>10. \A t \in G : fut[t] = "pending" /\ ~(deadline[t] <= clock)
  BY <1>4, <1>9
<1>11. D \in SUBSET Tickets /\ E \in SUBSET Tickets /\ kept \in SUBSET Tickets /\ G \in SUBSET Tickets
  BY <1>4, <1>6, <1>9
<1>12. GrantStep(D, E, kept, G)
  BY <1>4, <1>5, <1>7, <1>8, <1>9, <1>10 DEF GrantStep
<1> QED BY <1>11, <1>12

\* A granted ticket is answered and active in the same step.
LEMMA OwnDispatcherSelect == ASSUME Strong, DispatcherSelect PROVE Ownership'
<1>1. CASE ~ready
  <2>1. ASSUME NEW t \in Tickets PROVE TicketOwned(t)'
    BY <1>1 DEF Strong, Ownership, TicketOwned, DispatcherSelect, tickets, slots
  <2>2. ShutdownQuiet'
    BY <1>1 DEF Strong, Ownership, ShutdownQuiet, DispatcherSelect, closed, slots
  <2> QED BY <2>1, <2>2 DEF Ownership
<1>2. CASE ready
  <2>1. UNCHANGED <<seq, caller, shutdown, timer>> /\ dispatcher # "none"
    BY DEF DispatcherSelect, tickets
  <2>2. PICK D, E, kept, G \in SUBSET Tickets : GrantStep(D, E, kept, G)
    BY <1>2, GrantSound
  <2>3. ASSUME NEW t \in Tickets PROVE TicketOwned(t)'
    <3>1. TicketOwned(t)
      BY DEF Strong, Ownership
    <3>2. CASE t \in G
      BY <2>1, <2>2, <3>1, <3>2
         DEF GrantStep, Strong, TypeOK, TicketOwned, Settled, Answered
    <3>3. CASE t \notin G
      BY <2>1, <2>2, <3>1, <3>3
         DEF GrantStep, Strong, TypeOK, TicketOwned, Settled, Answered
    <3> QED BY <3>2, <3>3
  <2>4. ShutdownQuiet'
    BY <2>1 DEF Strong, Ownership, ShutdownQuiet, closed
  <2> QED BY <2>3, <2>4 DEF Ownership
<1> QED BY <1>1, <1>2 DEF Strong, TypeOK

\* A failing limiter only starts the shutdown.
LEMMA OwnLimiterFails == ASSUME Strong, LimiterFails PROVE Ownership'
<1>1. ASSUME NEW t \in Tickets PROVE TicketOwned(t)'
  BY DEF Strong, Ownership, TicketOwned, LimiterFails, closed, tickets, slots
<1>2. ShutdownQuiet'
  BY DEF Strong, Ownership, ShutdownQuiet, LimiterFails, closed, slots
<1> QED BY <1>1, <1>2 DEF Ownership

\* Starting the shutdown drops the timer and nothing else.
LEMMA OwnStartShutdown == ASSUME Strong, StartShutdown PROVE Ownership'
<1>1. ASSUME NEW t \in Tickets PROVE TicketOwned(t)'
  BY DEF Strong, Ownership, TicketOwned, StartShutdown, closed, tickets, slots
<1>2. ShutdownQuiet'
  BY DEF ShutdownQuiet, StartShutdown
<1> QED BY <1>1, <1>2 DEF Ownership

\* The drain answers what is queued and takes every slot.
LEMMA OwnDrainShutdown == ASSUME Strong, DrainShutdown PROVE Ownership'
<1>1. ASSUME NEW t \in Tickets PROVE TicketOwned(t)'
  <2>1. /\ TicketOwned(t) /\ fut[t] \in FutureState /\ seq' = seq
        /\ caller \in [Tickets -> CallerState]
    BY DEF Strong, TypeOK, Ownership, DrainShutdown, tickets
  <2>2. /\ queued' = {} /\ active' = {} /\ shutdown' = "drained"
        /\ caller'[t] = IF t \in active /\ caller[t] = "waiting"
                         THEN "cancelling" ELSE caller[t]
        /\ fut'[t] = IF fut[t] # "pending" THEN fut[t]
                      ELSE IF t \in queued THEN "error" ELSE "pending"
    BY DEF DrainShutdown, Answered
  <2>3. fut'[t] # "pending"
    BY <2>1, <2>2 DEF TicketOwned
  <2>4. t > seq => caller'[t] = "idle" /\ fut'[t] = "none"
    BY <2>1, <2>2 DEF TicketOwned
  <2> QED BY <2>1, <2>2, <2>3, <2>4 DEF TicketOwned
<1>2. ShutdownQuiet'
  BY DEF Strong, Ownership, ShutdownQuiet, DrainShutdown, closed
<1> QED BY <1>1, <1>2 DEF Ownership

\* Time and transport touch no ticket.
LEMMA OwnEnvironment ==
    ASSUME Strong, ReadinessChange \/ Tick \/ UNCHANGED vars PROVE Ownership'
<1>1. UNCHANGED <<seq, state, fut, caller, queued, active, timer, dispatcher, shutdown>>
  BY DEF ReadinessChange, Tick, vars, tickets, slots
<1>2. ASSUME NEW t \in Tickets PROVE TicketOwned(t)'
  BY <1>1 DEF Strong, Ownership, TicketOwned
<1>3. ShutdownQuiet'
  BY <1>1 DEF Strong, Ownership, ShutdownQuiet, closed
<1> QED BY <1>2, <1>3 DEF Ownership

-----------------------------------------------------------------------------

\* The inductive invariant behind the safety properties of the scheduler.
THEOREM OwnershipHolds == Spec => []Strong
<1>1. Init => Ownership
  BY OwnInit
<1>2. ASSUME Strong, [Next]_vars PROVE Ownership'
  <2>. USE <1>2
  <2>1. ASSUME NEW s \in Sources, NEW d \in Deadlines, Admit(s, d) PROVE Ownership'
    BY <2>1, OwnAdmit
  <2>2. ASSUME NEW s \in Sources, AdmitRejected(s) PROVE Ownership'
    BY <2>2, OwnAdmitRejected
  <2>3. ASSUME NEW s \in Sources, EligibilityChange(s) PROVE Ownership'
    BY <2>3, OwnEligibilityChange
  <2>4. ASSUME NEW t \in Tickets, CallerStep(t) PROVE Ownership'
    BY <2>4, OwnResume, OwnCallerCancel, OwnCancelTicket, OwnRecordDispatch,
       OwnComplete DEF CallerStep
  <2>5. ASSUME NEW t \in Tickets, ExpireTicket(t) PROVE Ownership'
    BY <2>5, OwnExpireTicket
  <2>6. CASE ReleaseTimer BY <2>6, OwnReleaseTimer
  <2>7. CASE DispatcherCheck BY <2>7, OwnDispatcherCheck
  <2>8. CASE DispatcherSelect BY <2>8, OwnDispatcherSelect
  <2>9. CASE LimiterFails BY <2>9, OwnLimiterFails
  <2>10. CASE StartShutdown BY <2>10, OwnStartShutdown
  <2>11. CASE DrainShutdown BY <2>11, OwnDrainShutdown
  <2>12. CASE ReadinessChange \/ Tick \/ UNCHANGED vars BY <2>12, OwnEnvironment
  <2> QED BY <2>1, <2>2, <2>3, <2>4, <2>5, <2>6, <2>7, <2>8, <2>9, <2>10, <2>11,
             <2>12 DEF Next
<1>3. Spec => []TypeOK
  BY TypeCorrect
<1>4. TypeOK /\ Ownership => Strong
  BY DEF Strong
<1>5. TypeOK /\ Ownership /\ [Next]_vars => Ownership'
  BY <1>2 DEF Strong
<1> QED BY <1>1, <1>3, <1>4, <1>5, PTL DEF Spec

\* A caller suspended on an unanswered future is always in a queue, where its
\* expiry, the dispatcher or the drain finds it: pruning, deferral, selection
\* and shutdown never forget a waiter.
THEOREM WaitersQueued == Spec => []PendingIsQueued
<1>1. Strong => PendingIsQueued
  BY DEF Strong, Ownership, TicketOwned, PendingIsQueued
<1> QED BY <1>1, OwnershipHolds, PTL

\* Every active slot belongs to a caller that has been granted and has not yet
\* given it back, also when the caller is cancelled between the two.
THEOREM SlotsAlwaysOwned == Spec => []SlotsOwned
<1>1. Strong => SlotsOwned
  BY DEF Strong, TypeOK, Ownership, TicketOwned, SlotsOwned
<1> QED BY <1>1, OwnershipHolds, PTL

\* A caller that was granted keeps its slot until it returns it or the scheduler
\* is drained.
THEOREM HoldersAlwaysActive == Spec => []HoldersActive
<1>1. Strong => HoldersActive
  BY DEF Strong, Ownership, TicketOwned, HoldersActive
<1> QED BY <1>1, OwnershipHolds, PTL

\* Nothing scheduled before close comes back to life after the drain.
THEOREM DrainStaysEmpty == Spec => []DrainedIsEmpty
<1>1. Strong => DrainedIsEmpty
  BY DEF Strong, Ownership, TicketOwned, ShutdownQuiet, DrainedIsEmpty, closed
<1> QED BY <1>1, OwnershipHolds, PTL

\* No step grants a ticket that is due, answered or cancelled.
THEOREM GrantsTimely == Spec => GrantsAreTimely
<1>1. Strong /\ [Next]_vars =>
        [\A t \in active' \ active : deadline[t] > clock /\ fut[t] = "pending"]_vars
  <2> SUFFICES ASSUME Strong, Next, NEW t \in active' \ active
               PROVE  deadline[t] > clock /\ fut[t] = "pending"
    OBVIOUS
  <2>1. DispatcherSelect /\ ready
    BY DEF Next, CallerStep, Admit, AdmitRejected, EligibilityChange, Resume,
           CallerCancel, CancelTicket, RecordDispatch, Complete, ExpireTicket,
           ReleaseTimer, DispatcherCheck, DispatcherSelect, LimiterFails,
           StartShutdown, DrainShutdown, ReadinessChange, Tick, Release, slots
  <2>2. PICK D, E, kept, G \in SUBSET Tickets : GrantStep(D, E, kept, G)
    BY <2>1, GrantSound
  <2>3. t \in G /\ t \in Tickets /\ fut[t] = "pending" /\ ~(deadline[t] <= clock)
    BY <2>2 DEF GrantStep
  <2>4. deadline[t] \in Nat /\ clock \in Nat
    BY <2>3, TimeAssumption DEF Strong, TypeOK
  <2> QED BY <2>3, <2>4
<1> QED BY <1>1, OwnershipHolds, PTL DEF Spec, GrantsAreTimely


-----------------------------------------------------------------------------
(***************************************************************************)
(* The slots of RpcScheduler are accounted for: the counters admit and the *)
(* dispatcher decide on are the numbers of active attempts, and outstanding *)
(* work never exceeds a class capacity or a source contract.               *)
(***************************************************************************)

Accounts == CountersExact /\ OutstandingBounded

\* Every set of tickets is finite and has a size.
LEMMA TicketsFinite ==
    ASSUME NEW S \in SUBSET Tickets
    PROVE  IsFiniteSet(S) /\ Cardinality(S) \in Nat
<1>1. IsFiniteSet(1..MaxTicket)
  BY TimeAssumption, FS_Interval
<1>2. IsFiniteSet(S)
  BY <1>1, FS_Subset DEF Tickets
<1> QED BY <1>2, FS_CardinalityType

\* A set of tickets has at least the size of its subsets.
LEMMA Monotone ==
    ASSUME NEW S \in SUBSET Tickets, NEW T \in SUBSET S
    PROVE  Cardinality(T) <= Cardinality(S)
BY TicketsFinite, FS_Subset

\* Taking one ticket off the active ones of a class or source takes one off its
\* counter, and off no other.
LEMMA OneLess ==
    ASSUME NEW S \in SUBSET Tickets, NEW t \in Tickets
    PROVE  Cardinality(S \ {t}) = IF t \in S THEN Cardinality(S) - 1 ELSE Cardinality(S)
BY TicketsFinite, FS_RemoveElement

\* One ticket more counts one more, unless it was counted already.
LEMMA OneMore ==
    ASSUME NEW S \in SUBSET Tickets, NEW t \in Tickets
    PROVE  Cardinality(S \cup {t}) = IF t \in S THEN Cardinality(S) ELSE Cardinality(S) + 1
BY TicketsFinite, FS_AddElement

\* The counters start at zero, with nothing queued or active.
LEMMA AccountsInit == Init => Accounts
<1> SUFFICES ASSUME Init PROVE Accounts
  OBVIOUS
<1>1. /\ \A c \in Classes : ActiveOfClass(c) = {} /\ QueuedOfClass(c) = {}
      /\ \A s \in Sources : ActiveOfSource(s) = {} /\ QueuedOfSource(s) = {}
      /\ \A c \in Classes : classCount[c] = 0
      /\ \A s \in Sources : sourceCount[s] = 0
  BY DEF Init, ActiveOfClass, ActiveOfSource, QueuedOfClass, QueuedOfSource
<1>2. Cardinality({}) = 0
  BY FS_EmptySet
<1>3. CountersExact
  BY <1>1, <1>2 DEF CountersExact
<1>4. (\A c \in Classes : Capacity[c] \in Nat) /\ (\A s \in Sources : SourceLimit[s] \in Nat)
  BY ContractAssumption
<1>5. OutstandingBounded
  <2>1. ASSUME NEW c \in Classes
        PROVE  Cardinality(QueuedOfClass(c)) + classCount[c] <= Capacity[c]
    <3>1. Cardinality(QueuedOfClass(c)) = 0 /\ classCount[c] = 0 /\ Capacity[c] \in Nat
      BY <1>1, <1>2, <1>4
    <3> QED BY <3>1
  <2>2. ASSUME NEW s \in Sources
        PROVE  Cardinality(QueuedOfSource(s)) + sourceCount[s] <= SourceLimit[s]
    <3>1. Cardinality(QueuedOfSource(s)) = 0 /\ sourceCount[s] = 0 /\ SourceLimit[s] \in Nat
      BY <1>1, <1>2, <1>4
    <3> QED BY <3>1
  <2> QED BY <2>1, <2>2 DEF OutstandingBounded
<1> QED BY <1>3, <1>5 DEF Accounts

\* Steps that give and take no slot and only ever shorten the queues.
LEMMA AccountsQuiet ==
    ASSUME Strong, Accounts, UNCHANGED <<source, active, classCount, sourceCount>>,
           queued' \subseteq queued
    PROVE  Accounts'
<1>1. /\ \A c \in Classes : ActiveOfClass(c)' = ActiveOfClass(c)
      /\ \A s \in Sources : ActiveOfSource(s)' = ActiveOfSource(s)
  BY DEF ActiveOfClass, ActiveOfSource, Class
<1>2. CountersExact'
  BY <1>1 DEF Accounts, CountersExact
<1>3. ASSUME NEW c \in Classes
      PROVE  Cardinality(QueuedOfClass(c)') + classCount'[c] <= Capacity[c]
  <2>1. QueuedOfClass(c) \in SUBSET Tickets /\ QueuedOfClass(c)' \in SUBSET QueuedOfClass(c)
    BY DEF Strong, TypeOK, QueuedOfClass, Class
  <2>2. /\ Cardinality(QueuedOfClass(c)') <= Cardinality(QueuedOfClass(c))
        /\ Cardinality(QueuedOfClass(c)) \in Nat /\ Cardinality(QueuedOfClass(c)') \in Nat
    BY <2>1, Monotone, TicketsFinite
  <2>3. classCount[c] \in Int /\ Capacity[c] \in Nat
    BY ContractAssumption DEF Strong, TypeOK
  <2> QED BY <2>2, <2>3 DEF Accounts, OutstandingBounded
<1>4. ASSUME NEW s \in Sources
      PROVE  Cardinality(QueuedOfSource(s)') + sourceCount'[s] <= SourceLimit[s]
  <2>1. QueuedOfSource(s) \in SUBSET Tickets /\ QueuedOfSource(s)' \in SUBSET QueuedOfSource(s)
    BY DEF Strong, TypeOK, QueuedOfSource
  <2>2. /\ Cardinality(QueuedOfSource(s)') <= Cardinality(QueuedOfSource(s))
        /\ Cardinality(QueuedOfSource(s)) \in Nat /\ Cardinality(QueuedOfSource(s)') \in Nat
    BY <2>1, Monotone, TicketsFinite
  <2>3. sourceCount[s] \in Int /\ SourceLimit[s] \in Nat
    BY ContractAssumption DEF Strong, TypeOK
  <2> QED BY <2>2, <2>3 DEF Accounts, OutstandingBounded
<1> QED BY <1>2, <1>3, <1>4 DEF Accounts, OutstandingBounded

\* A slot given back once takes one off its class and one off its source.
LEMMA AccountsRelease ==
    ASSUME Strong, Accounts, NEW t \in active, Release(t), UNCHANGED source,
           queued' \subseteq queued
    PROVE  Accounts'
<1>1. t \in Tickets /\ source[t] \in Sources /\ Class(t) \in Classes
  BY ContractAssumption DEF Strong, TypeOK, Class
<1>2. /\ classCount \in [Classes -> Int] /\ sourceCount \in [Sources -> Int]
      /\ active \subseteq Tickets
  BY DEF Strong, TypeOK
<1>3. /\ \A c \in Classes :
            classCount'[c] = IF c = Class(t) THEN classCount[c] - 1 ELSE classCount[c]
      /\ \A s \in Sources :
            sourceCount'[s] = IF s = source[t] THEN sourceCount[s] - 1 ELSE sourceCount[s]
      /\ active' = active \ {t}
  BY <1>1, <1>2 DEF Release
<1>4. /\ \A c \in Classes : ActiveOfClass(c)' = ActiveOfClass(c) \ {t}
      /\ \A s \in Sources : ActiveOfSource(s)' = ActiveOfSource(s) \ {t}
      /\ \A c \in Classes : ActiveOfClass(c) \in SUBSET Tickets /\ (t \in ActiveOfClass(c) <=> c = Class(t))
      /\ \A s \in Sources : ActiveOfSource(s) \in SUBSET Tickets /\ (t \in ActiveOfSource(s) <=> s = source[t])
  BY <1>2, <1>3 DEF ActiveOfClass, ActiveOfSource, Class
<1>5. ASSUME NEW c \in Classes PROVE classCount'[c] = Cardinality(ActiveOfClass(c)')
  <2>1. Cardinality(ActiveOfClass(c)') =
          IF t \in ActiveOfClass(c) THEN Cardinality(ActiveOfClass(c)) - 1
          ELSE Cardinality(ActiveOfClass(c))
    BY <1>1, <1>4, OneLess
  <2> QED BY <1>3, <1>4, <2>1 DEF Accounts, CountersExact
<1>6. ASSUME NEW s \in Sources PROVE sourceCount'[s] = Cardinality(ActiveOfSource(s)')
  <2>1. Cardinality(ActiveOfSource(s)') =
          IF t \in ActiveOfSource(s) THEN Cardinality(ActiveOfSource(s)) - 1
          ELSE Cardinality(ActiveOfSource(s))
    BY <1>1, <1>4, OneLess
  <2> QED BY <1>3, <1>4, <2>1 DEF Accounts, CountersExact
<1>7. ASSUME NEW c \in Classes
      PROVE  Cardinality(QueuedOfClass(c)') + classCount'[c] <= Capacity[c]
  <2>1. QueuedOfClass(c) \in SUBSET Tickets /\ QueuedOfClass(c)' \in SUBSET QueuedOfClass(c)
    BY DEF Strong, TypeOK, QueuedOfClass, Class
  <2>2. /\ Cardinality(QueuedOfClass(c)') <= Cardinality(QueuedOfClass(c))
        /\ Cardinality(QueuedOfClass(c)) \in Nat /\ Cardinality(QueuedOfClass(c)') \in Nat
    BY <2>1, Monotone, TicketsFinite
  <2>3. classCount[c] \in Int /\ Capacity[c] \in Nat /\ classCount'[c] <= classCount[c]
        /\ classCount'[c] \in Int
    BY <1>2, <1>3, ContractAssumption
  <2> QED BY <2>2, <2>3 DEF Accounts, OutstandingBounded
<1>8. ASSUME NEW s \in Sources
      PROVE  Cardinality(QueuedOfSource(s)') + sourceCount'[s] <= SourceLimit[s]
  <2>1. QueuedOfSource(s) \in SUBSET Tickets /\ QueuedOfSource(s)' \in SUBSET QueuedOfSource(s)
    BY DEF Strong, TypeOK, QueuedOfSource
  <2>2. /\ Cardinality(QueuedOfSource(s)') <= Cardinality(QueuedOfSource(s))
        /\ Cardinality(QueuedOfSource(s)) \in Nat /\ Cardinality(QueuedOfSource(s)') \in Nat
    BY <2>1, Monotone, TicketsFinite
  <2>3. sourceCount[s] \in Int /\ SourceLimit[s] \in Nat /\ sourceCount'[s] <= sourceCount[s]
        /\ sourceCount'[s] \in Int
    BY <1>2, <1>3, ContractAssumption
  <2> QED BY <2>2, <2>3 DEF Accounts, OutstandingBounded
<1> QED BY <1>5, <1>6, <1>7, <1>8 DEF Accounts, CountersExact, OutstandingBounded

\* admit adds one ticket, of a class and a source that were not saturated.
LEMMA AccountsAdmit ==
    ASSUME Strong, Accounts, NEW s \in Sources, NEW d \in Deadlines, Admit(s, d)
    PROVE  Accounts'
<1>. DEFINE n == seq + 1
            kept == queued \ Abandoned
<1>1. /\ n \in Tickets /\ seq \in Nat /\ kept \subseteq queued
      /\ queued' \subseteq kept \cup {n} /\ source' = [source EXCEPT ![n] = s]
      /\ UNCHANGED <<active, classCount, sourceCount>> /\ ~Saturated(s, kept)
  BY TimeAssumption DEF Strong, TypeOK, Admit, Tickets, slots
<1>2. n \notin queued /\ n \notin active
  BY <1>1 DEF Strong, TypeOK, Ownership, TicketOwned, Tickets
<1>3. /\ source'[n] = s /\ \A t \in Tickets \ {n} : source'[t] = source[t]
      /\ queued \subseteq Tickets /\ active \subseteq Tickets
  BY <1>1 DEF Strong, TypeOK
<1>. HIDE DEF kept, n
<1>4. CountersExact'
  <2>1. /\ \A c \in Classes : ActiveOfClass(c)' = ActiveOfClass(c)
        /\ \A x \in Sources : ActiveOfSource(x)' = ActiveOfSource(x)
    BY <1>1, <1>2, <1>3 DEF ActiveOfClass, ActiveOfSource, Class
  <2> QED BY <1>1, <2>1 DEF Accounts, CountersExact
<1>5. ASSUME NEW c \in Classes
      PROVE  Cardinality(QueuedOfClass(c)') + classCount'[c] <= Capacity[c]
  <2>1. /\ QueuedOfClass(c) \in SUBSET Tickets /\ OfClass(kept, c) \in SUBSET QueuedOfClass(c)
        /\ OfClass(kept, c) \in SUBSET Tickets
    BY <1>1, <1>3 DEF QueuedOfClass, OfClass
  <2>2. /\ Cardinality(OfClass(kept, c)) <= Cardinality(QueuedOfClass(c))
        /\ Cardinality(QueuedOfClass(c)) \in Nat /\ Cardinality(OfClass(kept, c)) \in Nat
    BY <2>1, Monotone, TicketsFinite
  <2>3. classCount'[c] = classCount[c] /\ classCount[c] \in Int /\ Capacity[c] \in Nat
    BY <1>1, ContractAssumption DEF Strong, TypeOK
  <2>4. CASE c # ClassOf[s]
    <3>1. QueuedOfClass(c)' \in SUBSET OfClass(kept, c)
      BY <1>1, <1>3, <2>4 DEF QueuedOfClass, OfClass, Class
    <3>2. /\ Cardinality(QueuedOfClass(c)') <= Cardinality(OfClass(kept, c))
          /\ Cardinality(QueuedOfClass(c)') \in Nat
      BY <2>1, <3>1, Monotone, TicketsFinite
    <3>3. Cardinality(QueuedOfClass(c)) + classCount[c] <= Capacity[c]
      BY DEF Accounts, OutstandingBounded
    <3> QED BY <2>2, <2>3, <3>2, <3>3
  <2>5. CASE c = ClassOf[s]
    <3>1. QueuedOfClass(c)' \in SUBSET (OfClass(kept, c) \cup {n})
      BY <1>1, <1>3, <2>5 DEF QueuedOfClass, OfClass, Class
    <3>2. /\ Cardinality(OfClass(kept, c) \cup {n}) <= Cardinality(OfClass(kept, c)) + 1
          /\ OfClass(kept, c) \cup {n} \in SUBSET Tickets
      BY <1>1, <2>1, <2>2, OneMore
    <3>3. /\ Cardinality(QueuedOfClass(c)') <= Cardinality(OfClass(kept, c) \cup {n})
          /\ Cardinality(QueuedOfClass(c)') \in Nat
          /\ Cardinality(OfClass(kept, c) \cup {n}) \in Nat
      BY <3>1, <3>2, Monotone, TicketsFinite
    <3>4. ~(Cardinality(OfClass(kept, c)) + classCount[c] >= Capacity[c])
      BY <1>1, <2>5 DEF Saturated
    <3> QED BY <2>2, <2>3, <3>2, <3>3, <3>4
  <2> QED BY <2>4, <2>5
<1>6. ASSUME NEW x \in Sources
      PROVE  Cardinality(QueuedOfSource(x)') + sourceCount'[x] <= SourceLimit[x]
  <2>. DEFINE K == {t \in kept : source[t] = x}
  <2>1. /\ QueuedOfSource(x) \in SUBSET Tickets /\ K \in SUBSET QueuedOfSource(x)
        /\ K \in SUBSET Tickets
    BY <1>1, <1>3 DEF QueuedOfSource
  <2>2. /\ Cardinality(K) <= Cardinality(QueuedOfSource(x))
        /\ Cardinality(QueuedOfSource(x)) \in Nat /\ Cardinality(K) \in Nat
    BY <2>1, Monotone, TicketsFinite
  <2>3. sourceCount'[x] = sourceCount[x] /\ sourceCount[x] \in Int /\ SourceLimit[x] \in Nat
    BY <1>1, ContractAssumption DEF Strong, TypeOK
  <2>4. CASE x # s
    <3>1. QueuedOfSource(x)' \in SUBSET K
      BY <1>1, <1>3, <2>4 DEF QueuedOfSource
    <3>2. /\ Cardinality(QueuedOfSource(x)') <= Cardinality(K)
          /\ Cardinality(QueuedOfSource(x)') \in Nat
      BY <2>1, <3>1, Monotone, TicketsFinite
    <3>3. Cardinality(QueuedOfSource(x)) + sourceCount[x] <= SourceLimit[x]
      BY DEF Accounts, OutstandingBounded
    <3>. HIDE DEF K
    <3> QED BY <2>2, <2>3, <3>2, <3>3
  <2>5. CASE x = s
    <3>1. QueuedOfSource(x)' \in SUBSET (K \cup {n})
      BY <1>1, <1>3, <2>5 DEF QueuedOfSource
    <3>4. ~(Cardinality(K) + sourceCount[x] >= SourceLimit[x])
      BY <1>1, <2>5 DEF Saturated
    <3>. HIDE DEF K
    <3>2. /\ Cardinality(K \cup {n}) <= Cardinality(K) + 1
          /\ K \cup {n} \in SUBSET Tickets
      BY <1>1, <2>1, <2>2, OneMore
    <3>3. /\ Cardinality(QueuedOfSource(x)') <= Cardinality(K \cup {n})
          /\ Cardinality(QueuedOfSource(x)') \in Nat
          /\ Cardinality(K \cup {n}) \in Nat
      BY <3>1, <3>2, Monotone, TicketsFinite
    <3> QED BY <2>2, <2>3, <3>2, <3>3, <3>4
  <2> QED BY <2>4, <2>5
<1> QED BY <1>4, <1>5, <1>6 DEF Accounts, OutstandingBounded

\* A grant moves one ticket of each count from queued to active.
LEMMA AccountsGrant ==
    ASSUME Strong, Accounts, NEW g \in queued, g \notin active, UNCHANGED source,
           queued' \subseteq queued \ {g}, active' = active \cup {g},
           classCount' = [c \in Classes |-> classCount[c] + Cardinality(OfClass({g}, c))],
           sourceCount' = [s \in Sources |-> sourceCount[s] + Cardinality(OfSource({g}, s))]
    PROVE  Accounts'
<1>1. g \in Tickets /\ queued \subseteq Tickets /\ active \subseteq Tickets
  BY DEF Strong, TypeOK
<1>2. Cardinality({}) = 0 /\ Cardinality({g}) = 1
  BY FS_EmptySet, FS_Singleton
<1>3. ASSUME NEW c \in Classes
      PROVE  /\ classCount'[c] = Cardinality(ActiveOfClass(c)')
             /\ Cardinality(QueuedOfClass(c)') + classCount'[c] <= Capacity[c]
  <2>1. /\ classCount[c] = Cardinality(ActiveOfClass(c)) /\ classCount[c] \in Int
        /\ Cardinality(QueuedOfClass(c)) + classCount[c] <= Capacity[c]
        /\ Capacity[c] \in Nat
    BY ContractAssumption DEF Strong, TypeOK, Accounts, CountersExact, OutstandingBounded
  <2>2. /\ QueuedOfClass(c) \in SUBSET Tickets /\ ActiveOfClass(c) \in SUBSET Tickets
        /\ Cardinality(QueuedOfClass(c)) \in Nat
    BY <1>1, TicketsFinite DEF QueuedOfClass, ActiveOfClass
  <2>3. CASE Class(g) = c
    <3>1. /\ ActiveOfClass(c)' = ActiveOfClass(c) \cup {g} /\ g \notin ActiveOfClass(c)
          /\ QueuedOfClass(c)' \in SUBSET (QueuedOfClass(c) \ {g}) /\ g \in QueuedOfClass(c)
          /\ OfClass({g}, c) = {g}
      BY <2>3 DEF ActiveOfClass, QueuedOfClass, OfClass, Class
    <3>2. /\ Cardinality(ActiveOfClass(c)') = Cardinality(ActiveOfClass(c)) + 1
          /\ Cardinality(QueuedOfClass(c) \ {g}) = Cardinality(QueuedOfClass(c)) - 1
      BY <1>1, <2>2, <3>1, OneMore, OneLess
    <3>3. /\ Cardinality(QueuedOfClass(c)') <= Cardinality(QueuedOfClass(c) \ {g})
          /\ Cardinality(QueuedOfClass(c)') \in Nat
      BY <2>2, <3>1, Monotone, TicketsFinite
    <3>4. classCount'[c] = classCount[c] + 1
      BY <1>2, <3>1
    <3> QED BY <2>1, <2>2, <3>2, <3>3, <3>4
  <2>4. CASE Class(g) # c
    <3>1. /\ ActiveOfClass(c)' = ActiveOfClass(c) /\ OfClass({g}, c) = {}
          /\ QueuedOfClass(c)' \in SUBSET QueuedOfClass(c)
      BY <2>4 DEF ActiveOfClass, QueuedOfClass, OfClass, Class
    <3>2. /\ Cardinality(QueuedOfClass(c)') <= Cardinality(QueuedOfClass(c))
          /\ Cardinality(QueuedOfClass(c)') \in Nat
      BY <2>2, <3>1, Monotone, TicketsFinite
    <3>3. classCount'[c] = classCount[c]
      <4>1. classCount'[c] = classCount[c] + Cardinality(OfClass({g}, c))
        OBVIOUS
      <4>2. Cardinality(OfClass({g}, c)) = 0
        BY <1>2, <3>1
      <4> QED BY <2>1, <4>1, <4>2
    <3> QED BY <2>1, <2>2, <3>1, <3>2, <3>3
  <2> QED BY <2>3, <2>4
<1>4. ASSUME NEW s \in Sources
      PROVE  /\ sourceCount'[s] = Cardinality(ActiveOfSource(s)')
             /\ Cardinality(QueuedOfSource(s)') + sourceCount'[s] <= SourceLimit[s]
  <2>1. /\ sourceCount[s] = Cardinality(ActiveOfSource(s)) /\ sourceCount[s] \in Int
        /\ Cardinality(QueuedOfSource(s)) + sourceCount[s] <= SourceLimit[s]
        /\ SourceLimit[s] \in Nat
    BY ContractAssumption DEF Strong, TypeOK, Accounts, CountersExact, OutstandingBounded
  <2>2. /\ QueuedOfSource(s) \in SUBSET Tickets /\ ActiveOfSource(s) \in SUBSET Tickets
        /\ Cardinality(QueuedOfSource(s)) \in Nat
    BY <1>1, TicketsFinite DEF QueuedOfSource, ActiveOfSource
  <2>3. CASE source[g] = s
    <3>1. /\ ActiveOfSource(s)' = ActiveOfSource(s) \cup {g} /\ g \notin ActiveOfSource(s)
          /\ QueuedOfSource(s)' \in SUBSET (QueuedOfSource(s) \ {g}) /\ g \in QueuedOfSource(s)
          /\ OfSource({g}, s) = {g}
      BY <2>3 DEF ActiveOfSource, QueuedOfSource, OfSource
    <3>2. /\ Cardinality(ActiveOfSource(s)') = Cardinality(ActiveOfSource(s)) + 1
          /\ Cardinality(QueuedOfSource(s) \ {g}) = Cardinality(QueuedOfSource(s)) - 1
      BY <1>1, <2>2, <3>1, OneMore, OneLess
    <3>3. /\ Cardinality(QueuedOfSource(s)') <= Cardinality(QueuedOfSource(s) \ {g})
          /\ Cardinality(QueuedOfSource(s)') \in Nat
      BY <2>2, <3>1, Monotone, TicketsFinite
    <3>4. sourceCount'[s] = sourceCount[s] + 1
      BY <1>2, <3>1
    <3> QED BY <2>1, <2>2, <3>2, <3>3, <3>4
  <2>4. CASE source[g] # s
    <3>1. /\ ActiveOfSource(s)' = ActiveOfSource(s) /\ OfSource({g}, s) = {}
          /\ QueuedOfSource(s)' \in SUBSET QueuedOfSource(s)
      BY <2>4 DEF ActiveOfSource, QueuedOfSource, OfSource
    <3>2. /\ Cardinality(QueuedOfSource(s)') <= Cardinality(QueuedOfSource(s))
          /\ Cardinality(QueuedOfSource(s)') \in Nat
      BY <2>2, <3>1, Monotone, TicketsFinite
    <3>3. sourceCount'[s] = sourceCount[s]
      <4>1. sourceCount'[s] = sourceCount[s] + Cardinality(OfSource({g}, s))
        OBVIOUS
      <4>2. Cardinality(OfSource({g}, s)) = 0
        BY <1>2, <3>1
      <4> QED BY <2>1, <4>1, <4>2
    <3> QED BY <2>1, <2>2, <3>1, <3>2, <3>3, SMTT(40)
  <2> QED BY <2>3, <2>4
<1> QED BY <1>3, <1>4 DEF Accounts, CountersExact, OutstandingBounded

\* A grant moves one ticket from the queued to the active ones and counts it.
LEMMA AccountsSelect ==
    ASSUME Strong, Accounts, DispatcherSelect PROVE Accounts'
<1>1. CASE ~ready
  BY <1>1, AccountsQuiet DEF DispatcherSelect, tickets, slots
<1>2. CASE ready
  <2>1. PICK D, E, kept, G \in SUBSET Tickets : GrantStep(D, E, kept, G)
    BY <1>2, GrantSound
  <2>2. UNCHANGED source
    BY DEF DispatcherSelect, tickets
  <2>3. CASE G = {}
    <3>1. Cardinality({}) = 0
      BY FS_EmptySet
    <3>2. /\ \A c \in Classes : OfClass(G, c) = {}
          /\ \A s \in Sources : OfSource(G, s) = {}
      BY <2>3 DEF OfClass, OfSource
    <3>3. classCount \in [Classes -> Int] /\ sourceCount \in [Sources -> Int]
      BY DEF Strong, TypeOK
    <3>4. UNCHANGED <<classCount, sourceCount>>
      <4>1. /\ classCount' = [c \in Classes |-> classCount[c] + Cardinality(OfClass(G, c))]
            /\ sourceCount' = [s \in Sources |-> sourceCount[s] + Cardinality(OfSource(G, s))]
        BY <2>1 DEF GrantStep
      <4>2. /\ \A c \in Classes : Cardinality(OfClass(G, c)) = 0 /\ classCount[c] \in Int
            /\ \A s \in Sources : Cardinality(OfSource(G, s)) = 0 /\ sourceCount[s] \in Int
        BY <3>1, <3>2, <3>3
      <4>3. /\ \A c \in Classes : classCount[c] + Cardinality(OfClass(G, c)) = classCount[c]
            /\ \A s \in Sources : sourceCount[s] + Cardinality(OfSource(G, s)) = sourceCount[s]
        BY <4>2
      <4>4. classCount' = [c \in Classes |-> classCount[c]]
        BY <4>1, <4>3
      <4>5. sourceCount' = [s \in Sources |-> sourceCount[s]]
        BY <4>1, <4>3
      <4> QED BY <3>3, <4>4, <4>5
    <3>5. active' = active /\ queued' \subseteq queued
      BY <2>1, <2>3 DEF GrantStep
    <3> QED BY <2>2, <3>4, <3>5, AccountsQuiet
  <2>4. CASE G # {}
    <3>1. PICK g \in Tickets : G = {g}
      BY <2>1, <2>4 DEF GrantStep
    <3>2. g \in queued /\ g \notin active
      BY <2>1, <3>1 DEF GrantStep, Strong, Ownership, TicketOwned
    <3>3. queued' \subseteq queued \ {g} /\ active' = active \cup {g}
      BY <2>1, <3>1 DEF GrantStep
    <3>4. /\ classCount' = [c \in Classes |-> classCount[c] + Cardinality(OfClass({g}, c))]
          /\ sourceCount' = [s \in Sources |-> sourceCount[s] + Cardinality(OfSource({g}, s))]
      BY <2>1, <3>1 DEF GrantStep
    <3> QED BY <2>2, <3>2, <3>3, <3>4, AccountsGrant
  <2> QED BY <2>3, <2>4
<1> QED BY <1>1, <1>2 DEF Strong, TypeOK

\* The drain takes every slot and clears every counter.
LEMMA AccountsDrain == ASSUME Strong, DrainShutdown PROVE Accounts'
<1>1. /\ \A c \in Classes : ActiveOfClass(c)' = {} /\ QueuedOfClass(c)' = {} /\ classCount'[c] = 0
      /\ \A s \in Sources : ActiveOfSource(s)' = {} /\ QueuedOfSource(s)' = {} /\ sourceCount'[s] = 0
  BY DEF DrainShutdown, ActiveOfClass, ActiveOfSource, QueuedOfClass, QueuedOfSource
<1>2. Cardinality({}) = 0
  BY FS_EmptySet
<1>3. (\A c \in Classes : Capacity[c] \in Nat) /\ (\A s \in Sources : SourceLimit[s] \in Nat)
  BY ContractAssumption
<1>4. ASSUME NEW c \in Classes
      PROVE  /\ classCount'[c] = Cardinality(ActiveOfClass(c)')
             /\ Cardinality(QueuedOfClass(c)') + classCount'[c] <= Capacity[c]
  <2>1. /\ Cardinality(ActiveOfClass(c)') = 0 /\ Cardinality(QueuedOfClass(c)') = 0
        /\ classCount'[c] = 0 /\ Capacity[c] \in Nat
    BY <1>1, <1>2, <1>3
  <2> QED BY <2>1
<1>5. ASSUME NEW s \in Sources
      PROVE  /\ sourceCount'[s] = Cardinality(ActiveOfSource(s)')
             /\ Cardinality(QueuedOfSource(s)') + sourceCount'[s] <= SourceLimit[s]
  <2>1. /\ Cardinality(ActiveOfSource(s)') = 0 /\ Cardinality(QueuedOfSource(s)') = 0
        /\ sourceCount'[s] = 0 /\ SourceLimit[s] \in Nat
    BY <1>1, <1>2, <1>3
  <2> QED BY <2>1
<1> QED BY <1>4, <1>5 DEF Accounts, CountersExact, OutstandingBounded

\* A slot leaves the active ones through complete or _cancel_ticket only, and
\* only while it is still there.
LEMMA AccountsReturn ==
    ASSUME Strong, Accounts, NEW t \in Tickets, Complete(t) \/ CancelTicket(t)
    PROVE  Accounts'
<1>1. UNCHANGED source /\ queued' \subseteq queued
  BY DEF Complete, CancelTicket, tickets
<1>2. (t \in active /\ Release(t)) \/ UNCHANGED slots
  BY DEF Complete, CancelTicket
<1>3. CASE t \in active /\ Release(t)
  BY <1>1, <1>3, AccountsRelease
<1>4. CASE UNCHANGED slots
  BY <1>1, <1>4, AccountsQuiet DEF slots
<1> QED BY <1>2, <1>3, <1>4

-----------------------------------------------------------------------------

\* The accounting invariant is inductive on top of ownership.
THEOREM AccountsHold == Spec => []Accounts
<1>1. ASSUME Strong, Accounts, [Next]_vars PROVE Accounts'
  <2>. USE <1>1
  <2>1. ASSUME NEW s \in Sources, NEW d \in Deadlines, Admit(s, d) PROVE Accounts'
    BY <2>1, AccountsAdmit
  <2>2. ASSUME NEW s \in Sources, AdmitRejected(s) PROVE Accounts'
    BY <2>2, AccountsQuiet DEF AdmitRejected, tickets, slots
  <2>3. ASSUME NEW s \in Sources, EligibilityChange(s) PROVE Accounts'
    BY <2>3, AccountsQuiet DEF EligibilityChange, DeferAndEnsure, tickets, slots
  <2>4. ASSUME NEW t \in Tickets, Complete(t) \/ CancelTicket(t) PROVE Accounts'
    BY <2>4, AccountsReturn
  <2>5. ASSUME NEW t \in Tickets, Resume(t) \/ CallerCancel(t) \/ RecordDispatch(t)
        PROVE Accounts'
    BY <2>5, AccountsQuiet DEF Resume, CallerCancel, RecordDispatch, tickets, slots
  <2>6. ASSUME NEW t \in Tickets, ExpireTicket(t) PROVE Accounts'
    BY <2>6, AccountsQuiet DEF ExpireTicket, tickets, slots
  <2>7. CASE ReleaseTimer
    BY <2>7, AccountsQuiet DEF ReleaseTimer, DeferAndEnsure, tickets, slots
  <2>8. CASE DispatcherCheck
    BY <2>8, AccountsQuiet DEF DispatcherCheck, tickets, slots
  <2>9. CASE DispatcherSelect
    BY <2>9, AccountsSelect
  <2>10. CASE DrainShutdown
    BY <2>10, AccountsDrain
  <2>11. CASE LimiterFails \/ StartShutdown \/ ReadinessChange \/ Tick \/ UNCHANGED vars
    BY <2>11, AccountsQuiet
       DEF LimiterFails, StartShutdown, ReadinessChange, Tick, vars, tickets, slots
  <2> QED BY <2>1, <2>2, <2>3, <2>4, <2>5, <2>6, <2>7, <2>8, <2>9, <2>10, <2>11
          DEF Next, CallerStep
<1>2. Init => Accounts
  BY AccountsInit
<1> QED BY <1>1, <1>2, OwnershipHolds, PTL DEF Spec

\* No interleaving of completion, cancellation and shutdown releases a slot
\* twice or forgets one: the counters are exactly the active attempts.
THEOREM CountersAreExact == Spec => []CountersExact
BY AccountsHold, PTL DEF Accounts

\* Outstanding work, queued and active together, stays within the capacity of
\* every class and the contract of every source.
THEOREM OutstandingIsBounded == Spec => []OutstandingBounded
BY AccountsHold, PTL DEF Accounts

=============================================================================
