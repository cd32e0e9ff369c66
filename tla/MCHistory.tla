----------------------------- MODULE MCHistory -----------------------------
(***************************************************************************)
(* Instances of what fills and keeps the stored history: the sweep for     *)
(* deleted messages, the walks and the access of a dialog, and the facts   *)
(* of one message.  A behaviour studies one subject, while the others stay *)
(* as they are initially: the states are those of the subjects together,   *)
(* not their product.                                                      *)
(*   "sweep"     one generation over two DMs of two messages, and a fault  *)
(*   "again"     two generations, and a DM that enters or leaves           *)
(*   "direct"    the history of a DM: two absences, three decisions        *)
(*   "deep"      the history of a DM with a message more, hence with a     *)
(*               recovery of two pages, and one absence                    *)
(*   "group"     the history of a group, which is cut at its limit         *)
(*   "answers"   a message, an edit and two answers                        *)
(*   "edits"     a message, two edits, of one second or of two, an answer  *)
(*   "coverage"  a message, an edit, an answer, a redelivery; the coverage *)
(*               of the dialog changes                                     *)
(***************************************************************************)
EXTENDS DmDeletionScan, HistorySync

VARIABLES
    subject,
    tg, flight, ups, pages, stored_row, obs, peerless, versions, cover, outgoing, next,
    fact_left, known

scanVars == vars
factVars == <<tg, flight, ups, pages, stored_row, obs, peerless, versions, cover, outgoing, next,
              fact_left, known>>

Again == INSTANCE DmDeletionScan WITH MaxId <- 1, MaxGen <- 2, MaxChanges <- 1
Deep == INSTANCE HistorySync WITH MaxTop <- 3, MaxMoves <- 1, MaxUser <- 2
Group == INSTANCE HistorySync WITH
    Private <- FALSE, HistoryPage <- 2, MaxGroup <- 1, MaxMoves <- 1, MaxUser <- 2
Answers == INSTANCE MessageFacts WITH
    row <- stored_row, left <- fact_left, hist <- known,
    MaxEdits <- 1, MaxPages <- 2, MaxFaults <- 0, MaxChanges <- 0
Edits == INSTANCE MessageFacts WITH
    row <- stored_row, left <- fact_left, hist <- known,
    MaxEdits <- 2, MaxPages <- 1, MaxFaults <- 0, MaxChanges <- 0
Coverage == INSTANCE MessageFacts WITH
    row <- stored_row, left <- fact_left, hist <- known,
    MaxEdits <- 1, MaxPages <- 1, MaxFaults <- 1, MaxChanges <- 1

ASSUME Again!ScanAssumption
ASSUME Deep!HistoryAssumption /\ Group!HistoryAssumption
ASSUME Answers!FactsAssumption /\ Edits!FactsAssumption /\ Coverage!FactsAssumption

OfHistory == {"direct", "deep", "group"}
OfSweep == {"sweep", "again"}
OfFacts == {"answers", "edits", "coverage"}

AnyInit ==
    /\ subject \in OfHistory \cup OfSweep \cup OfFacts
    /\ IF subject = "again" THEN Again!Init ELSE Init
    /\ subject \notin OfSweep =>
           state.status = "idle" /\ ~state.legacy /\ eligible = {1} /\ rows = held
    /\ CASE subject = "group" -> Group!HistoryInit
         [] subject = "deep" -> Deep!HistoryInit
         [] OTHER -> HistoryInit
    /\ subject \notin OfHistory => row.status = "none"
    /\ CASE subject = "edits" -> Edits!Init
         [] subject = "coverage" -> Coverage!Init
         [] OTHER -> Answers!Init

AnyNext ==
    \/ subject = "sweep" /\ Next /\ UNCHANGED <<subject, historyVars, factVars>>
    \/ subject = "again" /\ Again!Next /\ UNCHANGED <<subject, historyVars, factVars>>
    \/ subject = "direct" /\ HistoryNext /\ UNCHANGED <<subject, scanVars, factVars>>
    \/ subject = "deep" /\ Deep!HistoryNext /\ UNCHANGED <<subject, scanVars, factVars>>
    \/ subject = "group" /\ Group!HistoryNext /\ UNCHANGED <<subject, scanVars, factVars>>
    \/ subject = "answers" /\ Answers!Next /\ UNCHANGED <<subject, scanVars, historyVars>>
    \/ subject = "edits" /\ Edits!Next /\ UNCHANGED <<subject, scanVars, historyVars>>
    \/ subject = "coverage" /\ Coverage!Next /\ UNCHANGED <<subject, scanVars, historyVars>>

AnySpec == AnyInit /\ [][AnyNext]_<<subject, scanVars, historyVars, factVars>>

-----------------------------------------------------------------------------
\* The facts of a message settle to what Telegram has: no deleted message comes back, no
\* body is written that the coverage forbids, no old text is mixed up.  The body is left
\* out where two edits had one date: there an older edit that is committed late wins.
FactsSettle ==
    /\ Answers!NoResurrection /\ Coverage!OnlyCovered
    /\ []Answers!Settled
    /\ [](subject # "coverage" => Answers!VersionsInOrder)
=============================================================================
