---------------------------- MODULE RpcFairCycle ----------------------------
(***************************************************************************)
(* _build_fair_cycle of TelegramRpcAdmissionScheduler: the smooth weighted *)
(* round-robin that turns the class weights into the cycle the dispatcher  *)
(* walks.  One step is one iteration of its outer loop.                    *)
(***************************************************************************)
EXTENDS Integers, Sequences, FiniteSets, FiniteSetsExt, Functions

CONSTANTS
    NumClasses,  \* classes are 1..NumClasses in the order of RpcServiceClass
    MaxWeight    \* bound: largest configured weight

WeightAssumption == NumClasses \in Nat \ {0} /\ MaxWeight \in Nat \ {0}

Class == 1..NumClasses

VARIABLES
    weight,  \* normalized: the configured weights over their divisor
    score,   \* scores
    order    \* the cycle built so far

vars == <<weight, score, order>>

Gcd(w) == Max({d \in 1..MaxWeight : \A c \in Class : w[c] % d = 0})
Normalized(w) == [c \in Class |-> w[c] \div Gcd(w)]
total == SumFunction(weight)

\* max(RpcServiceClass, key=(score, preference)): the first class with the
\* highest score.
PreferredLeast(s) == Max({c \in Class : s[c] > 0})   \* mutant: any class in credit
Preferred(s) == Min({c \in Class : \A d \in Class : s[c] >= s[d]})

Init ==
    /\ \E w \in [Class -> 1..MaxWeight] : weight = Normalized(w)
    /\ score = [c \in Class |-> 0]
    /\ order = << >>

\* Mutant: the score of the selected class is not lowered.
TurnUnpaid ==
    LET raised == [c \in Class |-> score[c] + weight[c]]
        selected == Preferred(raised)
    IN  /\ Len(order) < total
        /\ score' = raised
        /\ order' = Append(order, selected)
        /\ UNCHANGED weight
Turn ==
    LET raised == [c \in Class |-> score[c] + weight[c]]
        selected == Preferred(raised)
    IN  /\ Len(order) < total
        /\ score' = [raised EXCEPT ![selected] = @ - total]
        /\ order' = Append(order, selected)
        /\ UNCHANGED weight

Next == Turn
Spec == Init /\ [][Next]_vars

-----------------------------------------------------------------------------
Turns(c) == Cardinality({i \in DOMAIN order : order[i] = c})

\* The finished cycle gives each class exactly its configured ratio.
ExactShare ==
    Len(order) = total => \A c \in Class : Turns(c) = weight[c]

\* In every prefix of the cycle no class is a whole turn ahead of or behind its
\* proportional share: the cycle is smooth, so no class waits for a burst.
SmoothShare ==
    \A c \in Class : LET lead == total * Turns(c) - Len(order) * weight[c]
                     IN  -total < lead /\ lead < total

=============================================================================
