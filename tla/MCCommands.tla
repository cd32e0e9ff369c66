----------------------------- MODULE MCCommands -----------------------------
(***************************************************************************)
(* Instances of the three command stacks: drafts, the scheduled queue and  *)
(* contacts, each with the projection and the fences it works against.  A  *)
(* behaviour studies one subject, while the others stay as they are        *)
(* initially: the states are those of the subjects together, not their     *)
(* product.                                                                *)
(*   "drafts"    the projection, also of a database from before orders     *)
(*   "saves"     a command of each action, and an edit on another device   *)
(*   "crash"     an update of a draft, a fault and a crash                 *)
(*   "faults"    the queue: a change by another client and a fault         *)
(*   "changes"   the queue: two changes by other clients, no fault         *)
(*   "broken"    the queue: two faults                                     *)
(*   "contact"   two commands on a contact, a failed read and a crash      *)
(*   "fences"    a command, a push, a reset, another device and a refresh  *)
(***************************************************************************)
EXTENDS Drafts, ContactCommand, ScheduledQueue, TLC

CONSTANTS a, b, key1, key2, value1, value2

VARIABLE subject

draftVars == vars

\* Keys and values of contact commands are interchangeable: nothing names them.
Interchangeable == Permutations({key1, key2}) \cup Permutations({value1, value2})

Saves == INSTANCE Drafts WITH
    Legacy <- FALSE, Actions <- {"create", "update", "clear"},
    MaxEdits <- 1, MaxSecond <- 2, MaxFaults <- 0, MaxCrash <- 0
Crashed == INSTANCE Drafts WITH
    Texts <- {a, b}, Legacy <- FALSE, Actions <- {"update"},
    MaxEdits <- 1, MaxSecond <- 1, MaxFaults <- 1, MaxCrash <- 1
Changing == INSTANCE ScheduledQueue WITH QueueChanges <- 2, QueueFaults <- 0
Broken == INSTANCE ScheduledQueue WITH QueueChanges <- 0, QueueFaults <- 2
Fences == INSTANCE ContactCommand WITH
    MaxOrder <- 5, MaxRestarts <- 0, MaxPush <- 1,
    MaxOther <- 1, MaxReset <- 1, MaxRefresh <- 1, MaxFail <- 0, MaxBegin <- 1

ASSUME Changing!ScheduledAssumption /\ Broken!ScheduledAssumption
ASSUME Fences!ContactAssumption

OfDrafts == {"drafts", "saves", "crash"}
OfQueue == {"faults", "changes", "broken"}

AnyInit ==
    /\ subject \in {"drafts", "saves", "crash", "faults", "changes", "broken", "contact", "fences"}
    /\ CASE subject = "drafts" -> Init
         [] subject = "crash" -> Crashed!Init
         [] OTHER -> Saves!Init
    /\ subject \notin OfDrafts => telegram.draft = "absent" /\ telegram.absence = None
    /\ QueueInit
    /\ subject \notin OfQueue =>
           recon.coverage = "unseeded" /\ \A m \in Messages : server[m].state = "absent"
    /\ ContactInit

AnyNext ==
    \/ subject = "drafts" /\ Next /\ UNCHANGED <<subject, queueVars, contactVars>>
    \/ subject = "saves" /\ Saves!Next /\ UNCHANGED <<subject, queueVars, contactVars>>
    \/ subject = "crash" /\ Crashed!Next /\ UNCHANGED <<subject, queueVars, contactVars>>
    \/ subject = "faults" /\ QueueNext /\ UNCHANGED <<subject, draftVars, contactVars>>
    \/ subject = "changes" /\ Changing!QueueNext /\ UNCHANGED <<subject, draftVars, contactVars>>
    \/ subject = "broken" /\ Broken!QueueNext /\ UNCHANGED <<subject, draftVars, contactVars>>
    \/ subject = "contact" /\ ContactNext /\ UNCHANGED <<subject, draftVars, queueVars>>
    \/ subject = "fences" /\ Fences!ContactNext /\ UNCHANGED <<subject, draftVars, queueVars>>

AnySpec == AnyInit /\ [][AnyNext]_<<subject, draftVars, queueVars, contactVars>>

-----------------------------------------------------------------------------
\* Neither a mirror, nor the orders of a scope, nor an outcome goes back, and no request
\* of the queue leaves for a version its caller has not seen.
NothingGoesBack == OrdersAdvance /\ MirrorAdvances /\ OutcomeKept /\ SentForVersion
=============================================================================
