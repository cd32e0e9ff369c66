------------------------- MODULE MCRpcSchedulerFair -------------------------
(***************************************************************************)
(* The dispatcher's turns: the weight cycle for all small weights, and the *)
(* scheduler under load with two classes in the ratio 2 to 1, of which the *)
(* first has two sources.  A behaviour studies one of the two.             *)
(***************************************************************************)
EXTENDS RpcSchedulerFair

CONSTANTS interactive, background, mcp, export, fullSync

MCClasses == {interactive, background}
MCSources == {mcp, export, fullSync}
MCClassOf == [s \in MCSources |-> IF s = fullSync THEN background ELSE interactive]
MCCapacity == [c \in MCClasses |-> 4]
MCSourceLimit == [s \in MCSources |-> 4]
MCFairCycle == <<interactive, background, interactive>>
MCSourceCycle == [c \in MCClasses |->
    IF c = interactive THEN <<mcp, export>> ELSE <<fullSync>>]

VARIABLES subject, weight, score, order

cycleVars == <<weight, score, order>>
Cycle == INSTANCE RpcFairCycle WITH NumClasses <- 3, MaxWeight <- 7
ASSUME Cycle!WeightAssumption

TurnsInit ==
    /\ subject \in {"load", "cycle"} /\ FairInit /\ Cycle!Init
    /\ subject = "load" => weight = [c \in 1..3 |-> 1]

TurnsNext ==
    \/ subject = "load" /\ LoadNext /\ UNCHANGED <<subject, cycleVars>>
    \/ subject = "cycle" /\ Cycle!Next /\ UNCHANGED <<subject, fairVars>>

TurnsSpec == TurnsInit /\ [][TurnsNext]_<<subject, fairVars, cycleVars>>

-----------------------------------------------------------------------------
\* The finished cycle of _build_fair_cycle gives each class its configured ratio.
ExactShare == Cycle!ExactShare

\* In no prefix of the cycle is a class a whole turn from its share.
SmoothShare == Cycle!SmoothShare

\* Nobody eligible is passed over beyond its bound, and the cycle is exact and smooth.
SharesAreFair ==
    /\ ClassTurnBounded /\ SourceTurnBounded
    /\ ExactShare /\ SmoothShare
=============================================================================
