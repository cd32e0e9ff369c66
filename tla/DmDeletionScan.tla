--------------------------- MODULE DmDeletionScan ---------------------------
(***************************************************************************)
(* The weekly sweep for deleted DM messages (delta_sync.py,                *)
(* event_handlers.py): a durable checkpoint walks the synced DMs and their *)
(* stored messages a page at a time.  A page is claimed in the checkpoint  *)
(* before it is asked for; a page whose fate is not known stops the sweep, *)
(* across crashes, throttles and errors.                                   *)
(***************************************************************************)
EXTENDS Integers, FiniteSets, FiniteSetsExt

CONSTANTS
    Dialogs,    \* the DMs, numbered in the order of their ids
    PageSize,   \* _DM_GAP_SCAN_RPC_CHUNK
    MaxId,      \* bound: message ids of a dialog
    MaxGen,     \* bound: generations
    MaxFaults,  \* bound: requests that fail and crashes
    MaxChanges  \* bound: times a dialog enters or leaves the sweep

ASSUME ScanAssumption ==
    /\ Dialogs \subseteq Nat \ {0} /\ PageSize \in Nat \ {0}
    /\ {MaxId, MaxGen, MaxFaults, MaxChanges} \subseteq Nat

VARIABLES
    state,    \* the checkpoint in daemon_state
    due,      \* next_run_at is reached
    up,       \* the process runs, prepared
    slice,    \* the slice in progress (memory of the process)
    withheld, \* the coordinator excluded the revision of the sweep (memory)
    held,     \* Telegram: the messages it holds
    rows,     \* messages: undeleted rows
    young,    \* rows sent in the current second
    old,      \* rows sent before scan_started_at
    eligible, \* the DMs that _SELECT_DM_GAP_DIALOGS_SQL returns
    left,     \* what is left of the bounds
    hist      \* history of the generation: messages asked for, verified, owed

vars == <<state, due, up, slice, withheld, held, rows, young, old, eligible, left, hist>>

Keys == Dialogs \X (1..MaxId)
NoSlice == [step |-> "none", dialog |-> 0, page |-> {}, absent |-> {}]
EndSlice == slice' = NoSlice

Of(d, keys) == {k \in keys : k[1] = d}
At(step) == up /\ slice.step = step

-----------------------------------------------------------------------------
(* Selection: _select_page, one transaction for each of its outcomes *)

\* _start_scan: a generation that is due starts at the first dialog
StartScan ==
    /\ At("none") /\ state.status = "idle" /\ due /\ state.gen < MaxGen
    /\ state' = [state EXCEPT !.status = "running", !.gen = @ + 1, !.dialog = 0, !.message = 0]
    /\ old' = rows \ young
    /\ hist' = [asked |-> {}, verified |-> {}, owed |-> {k \in rows \ young : k[1] \in eligible}]
    /\ UNCHANGED <<due, up, slice, held, rows, young, eligible, left, withheld>>

\* (mutant) the dialog in progress is always left behind
DialogAfter == LET later == {d \in eligible : d > state.dialog}
               IN  IF later = {} THEN 0 ELSE Min(later)

\* _next_dialog (0: none)
NextDialog ==
    IF state.message > 0 /\ state.dialog \in eligible THEN state.dialog
    ELSE LET later == {d \in eligible : d > state.dialog}
         IN  IF later = {} THEN 0 ELSE Min(later)

\* _dm_gap_scan_page_ids: the first undeleted old rows after the cursor
PageOf(d) ==
    LET cursor == IF d = state.dialog THEN state.message ELSE 0
        rest == {k \in Of(d, rows \cap old) : k[2] > cursor}
    IN  {k \in rest : Cardinality({j \in rest : j[2] < k[2]}) < PageSize}

\* An excluded revision is not offered.
Selecting == At("none") /\ state.status = "running" /\ ~withheld

CompleteScan ==
    /\ Selecting /\ NextDialog = 0
    /\ state' = [state EXCEPT !.status = "idle", !.dialog = 0, !.message = 0] /\ due' = FALSE
    /\ UNCHANGED <<up, slice, held, rows, young, old, eligible, left, hist, withheld>>

\* (mutant) a finished dialog keeps the cursor
EmptyDialogKept ==
    /\ Selecting /\ NextDialog # 0 /\ PageOf(NextDialog) = {}
    /\ state' = [state EXCEPT !.message = 0]
    /\ UNCHANGED <<due, up, slice, held, rows, young, old, eligible, left, hist, withheld>>

AdvanceEmptyDialog ==
    /\ Selecting /\ NextDialog # 0 /\ PageOf(NextDialog) = {}
    /\ state' = [state EXCEPT !.dialog = NextDialog, !.message = 0]
    /\ UNCHANGED <<due, up, slice, held, rows, young, old, eligible, left, hist, withheld>>

SelectPage ==
    /\ Selecting /\ NextDialog # 0 /\ PageOf(NextDialog) # {}
    /\ slice' = [NoSlice EXCEPT !.step = "claim", !.dialog = NextDialog,
                                !.page = PageOf(NextDialog)]
    /\ UNCHANGED <<state, due, up, held, rows, young, old, eligible, left, hist, withheld>>

-----------------------------------------------------------------------------
(* One page: claim, request, evidence, commit *)

\* (mutant) the claim is written with the answer
AskUnclaimed ==
    /\ At("claim") /\ slice' = [slice EXCEPT !.step = "ask"]
    /\ UNCHANGED <<state, due, up, held, rows, young, old, eligible, left, hist, withheld>>

\* _claim_page: the checkpoint says that a page is being verified
ClaimPage ==
    /\ At("claim")
    /\ state' = [state EXCEPT !.status = "verifying"]
    /\ slice' = [slice EXCEPT !.step = "ask"]
    /\ UNCHANGED <<due, up, held, rows, young, old, eligible, left, hist, withheld>>

\* The request leaves for Telegram
Dispatch ==
    /\ At("ask") /\ slice' = [slice EXCEPT !.step = "asked"]
    /\ hist' = [hist EXCEPT !.asked = @ \cup slice.page]
    /\ UNCHANGED <<state, due, up, held, rows, young, old, eligible, left, withheld>>

\* _has_zero_dispatches: neither the budget nor the demand saw an attempt
ZeroDispatches == slice.step = "ask"

\* _handle_zero_dispatch_deferral and _restore_after_proven_defer
RestorableDeferral == ZeroDispatches

\* The gate defers or refuses the request, before the dispatch or on a later attempt.
\* A restored checkpoint has the revision that was selected, unless the slice began the
\* generation: offered again when the gate opens, not at all after an admission that
\* expired or a spent budget.
Deferred ==
    /\ up /\ slice.step \in {"ask", "asked"} /\ left.faults > 0
    /\ left' = [left EXCEPT !.faults = @ - 1]
    /\ state' = [state EXCEPT !.status = IF RestorableDeferral THEN "running" ELSE @]
    /\ EndSlice /\ withheld' \in {FALSE, RestorableDeferral}
    /\ UNCHANGED <<due, up, held, rows, young, old, eligible, hist>>

\* _suspend_after_throttle
Throttled ==
    /\ At("asked") /\ left.faults > 0 /\ left' = [left EXCEPT !.faults = @ - 1]
    /\ state' = [state EXCEPT !.status = "suspended"] /\ EndSlice
    /\ UNCHANGED <<due, up, held, rows, young, old, eligible, hist, withheld>>

\* A timeout, a cancellation or another error leaves the claim as it is
Failed ==
    /\ up /\ slice.step \in {"asked", "commit"} /\ left.faults > 0
    /\ left' = [left EXCEPT !.faults = @ - 1] /\ EndSlice
    /\ UNCHANGED <<state, due, up, held, rows, young, old, eligible, hist, withheld>>

Answered ==
    /\ At("asked")
    /\ slice' = [slice EXCEPT !.step = "evidence", !.absent = slice.page \ held]
    /\ UNCHANGED <<state, due, up, held, rows, young, old, eligible, left, hist, withheld>>

\* The transaction of _scan_dm_gap_message_page: absent messages of a dialog that still
\* is synced are marked
Evidence ==
    /\ At("evidence")
    /\ rows' = IF slice.dialog \in eligible THEN rows \ slice.absent ELSE rows
    /\ hist' = [hist EXCEPT !.verified = @ \cup slice.page]
    /\ slice' = [slice EXCEPT !.step = "commit"]
    /\ UNCHANGED <<state, due, up, held, young, old, eligible, left, withheld>>

\* (mutant) the cursor moves past the next message
CommitPastPage ==
    /\ At("commit") /\ EndSlice
    /\ state' = [state EXCEPT !.status = "running", !.dialog = slice.dialog,
                              !.message = 1 + Max({k[2] : k \in slice.page})]
    /\ UNCHANGED <<due, up, held, rows, young, old, eligible, left, hist, withheld>>

\* _commit_page
CommitPage ==
    /\ At("commit")
    /\ state' = [state EXCEPT !.status = "running", !.dialog = slice.dialog,
                              !.message = Max({k[2] : k \in slice.page})]
    /\ EndSlice
    /\ UNCHANGED <<due, up, held, rows, young, old, eligible, left, hist, withheld>>

-----------------------------------------------------------------------------
(* Restart *)

Crash ==
    /\ up /\ left.faults > 0 /\ left' = [left EXCEPT !.faults = @ - 1]
    /\ up' = FALSE /\ EndSlice /\ withheld' = FALSE
    /\ UNCHANGED <<state, due, held, rows, young, old, eligible, hist>>

\* (mutant) an interrupted claim goes on
PreparedToGoOn == [state EXCEPT !.status = IF @ = "verifying" THEN "running" ELSE @,
                                !.legacy = FALSE]

\* prepare_dm_deletion_reconciliation and _prepare_legacy_dm_scan_state
PreparedState ==
    [state EXCEPT
        !.status = IF (state.legacy /\ @ = "running") \/ @ = "verifying" THEN "suspended" ELSE @,
        !.legacy = FALSE]

Prepare ==
    /\ ~up /\ up' = TRUE /\ state' = PreparedState
    /\ UNCHANGED <<due, slice, held, rows, young, old, eligible, left, hist, withheld>>

-----------------------------------------------------------------------------
(* The environment *)

TimePasses ==
    /\ ~due \/ young # {}
    /\ due' = TRUE /\ young' = {}
    /\ UNCHANGED <<state, up, slice, held, rows, old, eligible, left, hist, withheld>>

\* A message is stored: a new one, or an older one by a walk that is not over
Store ==
    /\ \E k \in held \ rows, new \in BOOLEAN :
         /\ k[1] \in eligible
         /\ rows' = rows \cup {k}
         /\ young' = IF new THEN young \cup {k} ELSE young
         /\ old' = IF ~new /\ state.gen > 0 THEN old \cup {k} ELSE old
    /\ UNCHANGED <<state, due, up, slice, held, eligible, left, hist, withheld>>

\* The other side deletes a message; the update may be lost or be heard
Deleted ==
    /\ \E k \in held, heard \in BOOLEAN :
         /\ held' = held \ {k}
         /\ heard => up
         /\ rows' = IF heard THEN rows \ {k} ELSE rows
         /\ hist' = [hist EXCEPT !.owed = IF heard THEN @ \ {k} ELSE @]
    /\ UNCHANGED <<state, due, up, slice, young, old, eligible, left, withheld>>

\* Access, enrollment and hiding move a dialog in and out of the sweep
Change ==
    /\ left.changes > 0 /\ left' = [left EXCEPT !.changes = @ - 1]
    /\ \E d \in Dialogs :
         /\ eligible' = IF d \in eligible THEN eligible \ {d} ELSE eligible \cup {d}
         /\ hist' = [hist EXCEPT !.owed = {k \in @ : k[1] # d}]
    /\ UNCHANGED <<state, due, up, slice, held, rows, young, old, withheld>>

-----------------------------------------------------------------------------

Init ==
    /\ \E status \in {"idle", "running"}, legacy \in BOOLEAN :
         /\ status = "running" => legacy
         /\ state = [status |-> status, gen |-> 0, dialog |-> 0, message |-> 0, legacy |-> legacy]
    /\ due = TRUE /\ up = FALSE /\ slice = NoSlice /\ withheld = FALSE
    /\ held = Keys /\ eligible \in SUBSET Dialogs
    /\ rows \in {Keys, {k \in Keys : k[2] = 1}}
    /\ young = {} /\ old = {}
    /\ left = [faults |-> MaxFaults, changes |-> MaxChanges]
    /\ hist = [asked |-> {}, verified |-> {}, owed |-> {}]

Slice == StartScan \/ CompleteScan \/ AdvanceEmptyDialog \/ SelectPage \/ ClaimPage
         \/ Dispatch \/ Answered \/ Evidence \/ CommitPage
Faults == Deferred \/ Throttled \/ Failed \/ Crash
Next == Slice \/ Faults \/ Prepare \/ TimePasses \/ Store \/ Deleted \/ Change
Spec == Init /\ [][Next]_vars
Fairness == WF_vars(Slice) /\ WF_vars(Prepare)
FairSpec == Spec /\ Fairness

-----------------------------------------------------------------------------
(* Properties *)

TypeOK ==
    /\ state \in [status: {"idle", "running", "verifying", "suspended"}, gen: 0..MaxGen,
                  dialog: Dialogs \cup {0}, message: 0..MaxId, legacy: BOOLEAN]
    /\ slice \in [step: {"none", "claim", "ask", "asked", "evidence", "commit"},
                  dialog: Dialogs \cup {0}, page: SUBSET Keys, absent: SUBSET Keys]
    /\ due \in BOOLEAN /\ up \in BOOLEAN /\ withheld \in BOOLEAN
    /\ eligible \subseteq Dialogs
    /\ rows \subseteq Keys /\ held \subseteq Keys /\ old \subseteq Keys /\ young \subseteq Keys
    /\ left \in [faults: 0..MaxFaults, changes: 0..MaxChanges]
    /\ hist \in [asked: SUBSET Keys, verified: SUBSET Keys, owed: SUBSET Keys]

\* A generation asks Telegram for no message twice, whatever failed, crashed, was
\* deferred or left the sweep in between.
NeverTwice == [][slice.step = "ask" /\ slice'.step = "asked" => slice.page \cap hist.asked = {}]_vars

\* A generation that completes has verified every message that was there when it
\* started, in every dialog that stayed in the sweep.
SweepComplete ==
    [][state.status = "running" /\ state'.status = "idle" => hist.owed \subseteq hist.verified]_vars

\* A request is on its way only under a claim that a restart will see.
ClaimedFirst == slice.step \in {"asked", "evidence", "commit"} => state.status = "verifying"

\* A sweep that started completes, or stops at a page whose fate is not known, or waits
\* for a restart, its revision excluded.
SweepEnds == state.status = "running" ~> (state.status # "running" \/ withheld)

=============================================================================
