-------------------------- MODULE RpcSchedulerFair --------------------------
(***************************************************************************)
(* RpcScheduler under sustained load, with the history of whom the         *)
(* dispatcher passed over.  Restrictions, time and shutdown are left out:  *)
(* they only remove tickets from the contest, and a class or source is     *)
(* counted as passed over only while it stays in the contest.              *)
(***************************************************************************)
EXTENDS RpcScheduler

VARIABLES
    classPassed,  \* grants to other classes since the class had a turn
    sourcePassed  \* grants to its class since the source had a turn

fairVars == <<vars, classPassed, sourcePassed>>

\* Somebody can be dispatched now and the caller still waits.
Contending(t) == t \in queued /\ fut[t] = "pending" /\ CanDispatch(t)

\* passed, after a step in which "served" holds of who had the turn, "counted"
\* of a grant that passed over x, and x contends afterwards or not.
Passed(was, contends, served, counted) ==
    IF served \/ ~contends THEN 0 ELSE IF counted THEN was + 1 ELSE was

History ==
    LET granted == active' \ active IN
    /\ classPassed' = [c \in Classes |->
          Passed(classPassed[c],
                 \E t \in Tickets : Contending(t)' /\ Class(t)' = c,
                 \E t \in granted : Class(t) = c,
                 granted # {})]
    /\ sourcePassed' = [s \in Sources |->
          Passed(sourcePassed[s],
                 \E t \in Tickets : Contending(t)' /\ source'[t] = s,
                 \E t \in granted : source[t] = s,
                 \E t \in granted : Class(t) = ClassOf[s])]

LoadStep ==
    \/ \E s \in Sources, d \in Deadlines : Admit(s, d)
    \/ \E t \in Tickets : Resume(t) \/ CallerCancel(t) \/ CancelTicket(t) \/ Complete(t)
    \/ DispatcherCheck
    \/ DispatcherSelect

FairInit == Init /\ classPassed = [c \in Classes |-> 0]
                 /\ sourcePassed = [s \in Sources |-> 0]
LoadNext == LoadStep /\ History
LoadSpec == FairInit /\ [][LoadNext]_fairVars

-----------------------------------------------------------------------------
\* The longest run of cycle entries, read cyclically, without class c.
LongestGap(c) ==
    LET n == Len(FairCycle)
        Absent(i, k) == \A j \in 0..k-1 : FairCycle[((i + j) % n) + 1] # c
    IN  CHOOSE k \in 0..n-1 :
            /\ \E i \in 0..n-1 : Absent(i, k)
            /\ \A i \in 0..n-1 : ~Absent(i, k + 1)

\* A class with work that may be written waits for at most the longest gap of
\* the weight cycle: "a late interactive ticket cannot wait behind more than one
\* fair cycle", whatever was cancelled or admitted meanwhile.
ClassTurnBounded ==
    \A c \in Classes : classPassed[c] <= LongestGap(c)

\* Within its class a source is passed over at most once by every other source:
\* "One source cannot capture its whole service class."
SourceTurnBounded ==
    \A s \in Sources : sourcePassed[s] <= Len(SourceCycle[ClassOf[s]]) - 1

=============================================================================
