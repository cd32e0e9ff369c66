--------------------------- MODULE HistoryProofs ---------------------------
(***************************************************************************)
(* Proofs about what fills and keeps the stored history: the sweep for     *)
(* deleted messages (DmDeletionScan) and the history of a dialog           *)
(* (HistorySync), for all constants.                                       *)
(*                                                                         *)
(* The sweep: whatever fails, crashes, is deferred or leaves it, a         *)
(* generation asks for no message twice and completes only with all it     *)
(* owed verified.  Both rest on one fact about the checkpoint: its cursor  *)
(* separates what was asked for (AskedIsBehind) from what is still owed    *)
(* (OwedIsAhead).  The cursor moves by a page, which is the next one       *)
(* (PageIsNext), and may only move on while the fate of the page is known  *)
(* (PageInHand).                                                           *)
(*                                                                         *)
(* The dialog: the walk leaves no gap, a refresh is served, and evidence   *)
(* and the user decide.  A page that is held still joins the cursor it was *)
(* asked at (PagesFit), since nobody but its slice moves a cursor; what    *)
(* was walked has a forward cursor, and a walk that is done went to the    *)
(* end (WalkKept); the newest observation of the access is the one of its  *)
(* row, and a witness says that it is regained (AccessKept).               *)
(***************************************************************************)
EXTENDS DmDeletionScan, HistorySync, FiniteSetTheorems, WellFoundedInduction, TLAPS

-----------------------------------------------------------------------------
(* The sweep for deleted messages *)

\* The checkpoint's cursor is at or past a message; a cursor without a message says that
\* the dialog is finished.
Passed(k) ==
    \/ k[1] < state.dialog
    \/ k[1] = state.dialog /\ (state.message = 0 \/ k[2] <= state.message)

\* A page is in the hands of a running process, and under a claim from before the
\* request until its commit.
PageInHand ==
    /\ slice.step # "none" => up /\ slice.page # {} /\ slice.absent \subseteq slice.page
    /\ slice.step = "claim" => state.status = "running"
    /\ slice.step \in {"ask", "asked", "evidence", "commit"} => state.status = "verifying"

\* A page holds messages of its dialog that the cursor has not passed.
PageAhead ==
    slice.step # "none" =>
        \A k \in slice.page : k[1] = slice.dialog /\ ~Passed(k)

\* The part of the page that Telegram was asked for.
Asked == IF slice.step \in {"asked", "evidence", "commit"} THEN slice.page ELSE {}

\* While the sweep can go on, what was asked for lies behind the cursor.
AskedIsBehind ==
    state.status = "running" \/ slice.step # "none" =>
        \A k \in hist.asked : Passed(k) \/ k \in Asked

\* What is owed and not verified lies ahead of the cursor, where it will be selected.
OwedIsAhead ==
    \A k \in hist.owed \ hist.verified :
        k \in rows /\ k \in old /\ k[1] \in eligible /\ ~Passed(k)

\* A page leaves nothing out that its commit will pass.
PageIsNext ==
    slice.step # "none" =>
        \A k \in hist.owed \ hist.verified :
            \/ k \in slice.page
            \/ k[1] > slice.dialog
            \/ k[1] = slice.dialog /\ \A j \in slice.page : j[2] < k[2]

\* An answered page is verified before it is committed.
VerifiedFirst == slice.step = "commit" => slice.page \subseteq hist.verified

\* The inductive invariant.
Inv ==
    /\ TypeOK /\ PageInHand /\ PageAhead /\ AskedIsBehind /\ OwedIsAhead /\ PageIsNext
    /\ VerifiedFirst

-----------------------------------------------------------------------------
(* Facts about the selection *)

\* The constants, one by one.
LEMMA Constants ==
    /\ MaxId \in Nat /\ MaxGen \in Nat /\ MaxFaults \in Nat /\ MaxChanges \in Nat
    /\ PageSize \in Nat /\ PageSize > 0
    /\ \A d \in Dialogs : d \in Nat /\ d > 0
<1>1. MaxId \in Nat /\ MaxGen \in Nat /\ MaxFaults \in Nat /\ MaxChanges \in Nat
  BY ScanAssumption, Zenon
<1>2. PageSize \in Nat /\ PageSize > 0 /\ \A d \in Dialogs : d \in Nat /\ d > 0
  BY ScanAssumption
<1> QED BY <1>1, <1>2

\* The first of a nonempty set of numbers exists.
LEMMA FirstOf ==
    ASSUME NEW S, S \subseteq Nat, S # {}
    PROVE  Min(S) \in S /\ \A y \in S : Min(S) <= y
<1>1. \E x \in S : \A y \in S : ~ (<<y, x>> \in OpToRel(<, Nat))
  <2> HIDE DEF OpToRel
  <2> QED BY NatLessThanWellFounded, WFMin
<1>2. \A x, y \in Nat : y < x => <<y, x>> \in OpToRel(<, Nat)
  BY DEF OpToRel
<1>3. PICK x \in S : \A y \in S : ~ (<<y, x>> \in OpToRel(<, Nat))
  BY <1>1
<1>4. \A y \in S : ~ (y < x)
  <2> HIDE DEF OpToRel
  <2> QED BY <1>2, <1>3
<1>5. \A y \in S : x <= y
  BY <1>4
<1> QED BY <1>5 DEF Min

\* So does the last of a bounded one.
LEMMA LastOf ==
    ASSUME NEW n \in Nat, NEW S, S \subseteq 1..n, S # {}
    PROVE  Max(S) \in S /\ \A y \in S : y <= Max(S)
<1> DEFINE T == {n - x : x \in S}
<1>1. T \subseteq Nat /\ T # {}
  <2>1. \A x \in 1..n : n - x \in Nat
    OBVIOUS
  <2> QED BY <2>1
<1>2. Min(T) \in T /\ \A y \in T : Min(T) <= y
  BY <1>1, FirstOf
<1>3. PICK m \in S : Min(T) = n - m
  BY <1>2
<1>4. \A y \in S : n - m <= n - y
  BY <1>2, <1>3
<1>5. \A y \in S : y <= m
  BY <1>4
<1> QED BY <1>5 DEF Max

\* Where the page of a dialog starts.
Cursor(d) == IF d = state.dialog THEN state.message ELSE 0

\* A page is a prefix of the rows after the cursor, empty only when there are none.
LEMMA PageIsPrefix ==
    ASSUME TypeOK, NEW d \in Dialogs
    PROVE  /\ PageOf(d) \subseteq Keys
           /\ \A k \in PageOf(d) : k[1] = d /\ k[2] > Cursor(d)
           /\ \A k \in rows \cap old : k[1] = d /\ k[2] > Cursor(d) =>
                  /\ PageOf(d) # {}
                  /\ k \in PageOf(d) \/ \A j \in PageOf(d) : j[2] < k[2]
<1> DEFINE rest == {k \in Of(d, rows \cap old) : k[2] > Cursor(d)}
           below(k) == {j \in rest : j[2] < k[2]}
<1>1. PageOf(d) = {k \in rest : Cardinality(below(k)) < PageSize}
  BY DEF PageOf, Cursor
<1>2. rest \subseteq Keys /\ \A k \in rest : k[1] = d /\ k[2] > Cursor(d)
  BY DEF Of, TypeOK
<1>3. \A k \in rows \cap old : k[1] = d /\ k[2] > Cursor(d) => k \in rest
  BY DEF Of
<1>4. \A k \in Keys : k[2] \in Nat
  BY Constants DEF Keys
<1>5. \A k \in Keys : IsFiniteSet(below(k)) /\ Cardinality(below(k)) \in Nat
  <2>1. IsFiniteSet({d} \X (1..MaxId))
    <3>1. IsFiniteSet(1..MaxId)
      BY FS_Interval, Constants
    <3>2. IsFiniteSet({d})
      BY FS_Singleton
    <3> QED BY <3>1, <3>2, FS_Product
  <2>2. rest \subseteq {d} \X (1..MaxId)
    BY <1>2 DEF Keys
  <2> QED BY <2>1, <2>2, FS_Subset, FS_CardinalityType
<1> HIDE DEF rest
<1>6. ASSUME NEW k \in rest, NEW j \in PageOf(d), ~ (j[2] < k[2])
      PROVE  k \in PageOf(d)
  <2>1. j \in rest /\ j \in Keys /\ k \in Keys /\ Cardinality(below(j)) < PageSize
    BY <1>1, <1>2
  <2>2. below(k) \subseteq below(j)
    BY <2>1, <1>2, <1>4, <1>6
  <2>3. Cardinality(below(k)) <= Cardinality(below(j))
    BY <2>1, <2>2, <1>5, FS_Subset
  <2>4. /\ Cardinality(below(k)) \in Nat /\ Cardinality(below(j)) \in Nat /\ PageSize \in Nat
    BY <2>1, <1>5, Constants
  <2> HIDE DEF below
  <2>5. Cardinality(below(k)) < PageSize
    BY <2>1, <2>3, <2>4
  <2> QED BY <2>5, <1>1 DEF below
<1>7. ASSUME rest # {} PROVE PageOf(d) # {}
  <2> DEFINE ids == {k[2] : k \in rest}
  <2>1. ids \subseteq Nat /\ ids # {}
    BY <1>2, <1>4, <1>7
  <2>2. Min(ids) \in ids /\ \A y \in ids : Min(ids) <= y
    BY <2>1, FirstOf
  <2>3. PICK k \in rest : k[2] = Min(ids)
    BY <2>2
  <2>4. \A j \in rest : ~ (j[2] < k[2])
    <3> SUFFICES ASSUME NEW j \in rest PROVE ~ (j[2] < k[2])
      OBVIOUS
    <3>1. j[2] \in ids /\ Min(ids) \in Nat /\ j[2] \in Nat
      BY <2>1, <2>2
    <3>2. Min(ids) <= j[2]
      BY <2>2, <3>1
    <3> HIDE DEF ids
    <3> QED BY <2>3, <3>1, <3>2
  <2>5. below(k) = {}
    BY <2>4
  <2>6. Cardinality(below(k)) < PageSize
    BY <2>5, FS_EmptySet, Constants
  <2> QED BY <2>6, <1>1
<1> QED BY <1>1, <1>2, <1>3, <1>6, <1>7

\* The dialog selected is the first of the sweep that the cursor has not passed.
LEMMA NextIsFirst ==
    ASSUME TypeOK
    PROVE  /\ NextDialog # 0 =>
                  /\ NextDialog \in eligible /\ NextDialog \in Dialogs
                  /\ \/ NextDialog > state.dialog
                     \/ NextDialog = state.dialog /\ state.message > 0
           /\ \A k \in Keys : k[1] \in eligible /\ ~Passed(k) =>
                  NextDialog # 0 /\ NextDialog <= k[1]
<1> DEFINE later == {d \in eligible : d > state.dialog}
<1>1. later \subseteq Nat /\ 0 \notin later /\ later \subseteq Dialogs
  BY Constants DEF TypeOK
<1>2. later # {} => Min(later) \in later /\ \A y \in later : Min(later) <= y
  BY <1>1, FirstOf
<1>3. NextDialog = IF state.message > 0 /\ state.dialog \in eligible THEN state.dialog
                   ELSE IF later = {} THEN 0 ELSE Min(later)
  BY DEF NextDialog
<1>4. state.dialog \in Nat /\ state.message \in Nat /\ eligible \subseteq Dialogs
  BY Constants DEF TypeOK
<1>5. ASSUME NEW k \in Keys, k[1] \in eligible, ~Passed(k)
      PROVE  NextDialog # 0 /\ NextDialog <= k[1]
  <2>1. k[1] \in Nat \ {0} /\ k[2] \in Nat
    BY Constants DEF Keys
  <2>2. k[1] > state.dialog \/ (k[1] = state.dialog /\ state.message > 0)
    BY <2>1, <1>4, <1>5 DEF Passed
  <2>3. CASE state.message > 0 /\ state.dialog \in eligible
    BY <2>1, <2>2, <2>3, <1>3, <1>4, Constants
  <2>4. CASE ~(state.message > 0 /\ state.dialog \in eligible)
    <3>1. k[1] \in later
      BY <2>2, <2>4, <1>5
    <3> HIDE DEF later
    <3> QED BY <3>1, <2>4, <1>1, <1>2, <1>3
  <2> QED BY <2>3, <2>4
<1>6. ASSUME NextDialog # 0
      PROVE  /\ NextDialog \in eligible /\ NextDialog \in Dialogs
             /\ \/ NextDialog > state.dialog
                \/ NextDialog = state.dialog /\ state.message > 0
  <2>1. CASE state.message > 0 /\ state.dialog \in eligible
    BY <2>1, <1>3, <1>4
  <2>2. CASE ~(state.message > 0 /\ state.dialog \in eligible)
    <3>1. NextDialog \in later
      BY <2>2, <1>2, <1>3, <1>6
    <3> QED BY <3>1, <1>4
  <2> QED BY <2>1, <2>2
<1> QED BY <1>5, <1>6

-----------------------------------------------------------------------------
(* The steps of a slice *)

\* A message of a page, or one owed, is a key.
LEMMA OwnedKeys ==
    ASSUME TypeOK
    PROVE  /\ slice.page \subseteq Keys /\ hist.owed \subseteq Keys /\ hist.asked \subseteq Keys
           /\ \A k \in Keys : k[1] \in Dialogs /\ k[1] \in Nat /\ k[1] > 0
                              /\ k[2] \in 1..MaxId /\ k[2] \in Nat /\ k[2] > 0
           /\ state.dialog \in Nat /\ state.message \in Nat
<1>1. /\ slice.page \subseteq Keys /\ hist.owed \subseteq Keys /\ hist.asked \subseteq Keys
  BY DEF TypeOK
<1>2. \A k \in Keys : k[1] \in Dialogs /\ k[2] \in 1..MaxId
  BY DEF Keys
<1>3. state.dialog \in Nat /\ state.message \in Nat
  BY Constants DEF TypeOK
<1> QED BY <1>1, <1>2, <1>3, Constants

\* A process that has not prepared yet owes nothing and asks for nothing.
LEMMA InitInv == Init => Inv
<1> SUFFICES ASSUME Init PROVE Inv
  OBVIOUS
<1>1. /\ slice = NoSlice /\ state.status \in {"idle", "running"}
      /\ hist = [asked |-> {}, verified |-> {}, owed |-> {}]
  BY DEF Init
<1>2. TypeOK
  <2>1. state \in [status: {"idle", "running", "verifying", "suspended"}, gen: 0..MaxGen,
                   dialog: Dialogs \cup {0}, message: 0..MaxId, legacy: BOOLEAN]
    BY Constants DEF Init
  <2>2. slice \in [step: {"none", "claim", "ask", "asked", "evidence", "commit"},
                   dialog: Dialogs \cup {0}, page: SUBSET Keys, absent: SUBSET Keys]
    BY <1>1 DEF NoSlice
  <2>3. left \in [faults: 0..MaxFaults, changes: 0..MaxChanges]
    BY Constants DEF Init
  <2>4. rows \subseteq Keys /\ held \subseteq Keys /\ old \subseteq Keys /\ young \subseteq Keys
    BY DEF Init
  <2>5. due \in BOOLEAN /\ up \in BOOLEAN /\ withheld \in BOOLEAN /\ eligible \subseteq Dialogs
    BY DEF Init
  <2> QED BY <1>1, <2>1, <2>2, <2>3, <2>4, <2>5 DEF TypeOK
<1>3. slice.step = "none" /\ hist.asked = {} /\ hist.owed = {}
  BY <1>1 DEF NoSlice
<1> QED BY <1>2, <1>3 DEF Inv, PageInHand, PageAhead, AskedIsBehind, OwedIsAhead, PageIsNext,
                          VerifiedFirst

\* A new generation starts before every message, and owes the old rows of its dialogs.
LEMMA StartStep ==
    ASSUME Inv, StartScan
    PROVE  Inv'
<1>1. /\ TypeOK /\ slice' = slice /\ slice.step = "none" /\ up /\ up' = up
      /\ state.gen < MaxGen /\ state.status = "idle"
      /\ state' = [state EXCEPT !.status = "running", !.gen = @ + 1, !.dialog = 0, !.message = 0]
      /\ old' = rows \ young
      /\ hist' = [asked |-> {}, verified |-> {}, owed |-> {k \in rows \ young : k[1] \in eligible}]
      /\ UNCHANGED <<due, held, rows, young, eligible, left, withheld>>
  BY DEF Inv, StartScan, At
<1>2. TypeOK'
  <2>1. state.gen + 1 \in 0..MaxGen /\ 0 \in 0..MaxId
    BY <1>1, Constants DEF TypeOK
  <2>2. state' \in [status: {"idle", "running", "verifying", "suspended"}, gen: 0..MaxGen,
                   dialog: Dialogs \cup {0}, message: 0..MaxId, legacy: BOOLEAN]
    BY <1>1, <2>1 DEF TypeOK
  <2> QED BY <1>1, <2>2 DEF TypeOK
<1>3. state'.dialog = 0 /\ state'.status = "running"
  BY <1>1 DEF TypeOK
<1>4. \A k \in Keys : k[1] > 0 /\ k[1] \in Nat
  BY <1>1, OwnedKeys
<1>5. OwedIsAhead'
  <2> SUFFICES ASSUME NEW k \in (hist.owed \ hist.verified)'
               PROVE  (k \in rows /\ k \in old /\ k[1] \in eligible /\ ~Passed(k))'
    BY DEF OwedIsAhead
  <2>1. k \in rows' /\ k \in old' /\ k[1] \in eligible' /\ k \in Keys
    BY <1>1 DEF TypeOK
  <2>2. k[1] > 0 /\ k[1] \in Nat
    BY <2>1, <1>4
  <2> QED BY <2>1, <2>2, <1>3 DEF Passed
<1>6. hist'.asked = {}
  BY <1>1
<1>7. PageInHand' /\ PageAhead' /\ AskedIsBehind' /\ PageIsNext' /\ VerifiedFirst'
  BY <1>1, <1>3, <1>6 DEF PageInHand, PageAhead, AskedIsBehind, PageIsNext, VerifiedFirst
<1> QED BY <1>2, <1>5, <1>7 DEF Inv

\* A generation completes only past every message it owes.
LEMMA CompleteStep ==
    ASSUME Inv, CompleteScan
    PROVE  Inv' /\ hist.owed \subseteq hist.verified
<1>1. /\ TypeOK /\ slice' = slice /\ slice.step = "none" /\ up /\ up' = up /\ NextDialog = 0
      /\ state' = [state EXCEPT !.status = "idle", !.dialog = 0, !.message = 0] /\ due' = FALSE
      /\ UNCHANGED <<held, rows, young, old, eligible, left, hist, withheld>>
  BY DEF Inv, CompleteScan, Selecting, At
<1>2. \A k \in hist.owed : k \in Keys
  BY <1>1, OwnedKeys
<1>3. hist.owed \subseteq hist.verified
  BY <1>1, <1>2, NextIsFirst DEF Inv, OwedIsAhead
<1>4. TypeOK'
  <2>1. state' \in [status: {"idle", "running", "verifying", "suspended"}, gen: 0..MaxGen,
                   dialog: Dialogs \cup {0}, message: 0..MaxId, legacy: BOOLEAN]
    <3>1. 0 \in 0..MaxId
      BY Constants
    <3> QED BY <1>1, <3>1 DEF TypeOK
  <2> QED BY <1>1, <2>1 DEF TypeOK
<1>5. state'.status = "idle"
  BY <1>1 DEF TypeOK
<1>6. /\ PageInHand' /\ PageAhead' /\ AskedIsBehind' /\ OwedIsAhead' /\ PageIsNext'
      /\ VerifiedFirst'
  BY <1>1, <1>3, <1>5 DEF PageInHand, PageAhead, AskedIsBehind, OwedIsAhead, PageIsNext,
                          VerifiedFirst
<1> QED BY <1>3, <1>4, <1>6 DEF Inv

\* A dialog without a page to come is finished: nothing owed is jumped over.
LEMMA AdvanceStep ==
    ASSUME Inv, AdvanceEmptyDialog
    PROVE  Inv'
<1>1. /\ TypeOK /\ slice' = slice /\ slice.step = "none" /\ up /\ up' = up
      /\ NextDialog # 0 /\ PageOf(NextDialog) = {} /\ state.status = "running"
      /\ state' = [state EXCEPT !.dialog = NextDialog, !.message = 0]
      /\ UNCHANGED <<due, held, rows, young, old, eligible, left, hist, withheld>>
  BY DEF Inv, AdvanceEmptyDialog, Selecting, At
<1>2. /\ NextDialog \in Dialogs /\ NextDialog \in Nat /\ state.dialog \in Nat /\ state.message \in Nat
      /\ state.dialog <= NextDialog
      /\ NextDialog = state.dialog => state.message > 0
  BY <1>1, NextIsFirst, OwnedKeys, Constants
<1>3. state'.dialog = NextDialog /\ state'.message = 0 /\ state'.status = "running"
  BY <1>1 DEF TypeOK
<1>4. TypeOK'
  <2>1. state' \in [status: {"idle", "running", "verifying", "suspended"}, gen: 0..MaxGen,
                   dialog: Dialogs \cup {0}, message: 0..MaxId, legacy: BOOLEAN]
    <3>1. 0 \in 0..MaxId
      BY Constants
    <3> QED BY <1>1, <1>2, <3>1 DEF TypeOK
  <2> QED BY <1>1, <2>1 DEF TypeOK
<1>5. OwedIsAhead'
  <2> SUFFICES ASSUME NEW k \in hist.owed \ hist.verified
               PROVE  ~Passed(k)'
    BY <1>1 DEF Inv, OwedIsAhead
  <2>1. /\ k \in Keys /\ k \in rows \cap old /\ k[1] \in eligible /\ ~Passed(k)
        /\ k[1] \in Nat /\ k[2] \in Nat /\ k[2] > 0
    BY <1>1, OwnedKeys DEF Inv, OwedIsAhead
  <2>2. NextDialog <= k[1]
    BY <1>1, <2>1, NextIsFirst
  <2>3. k[1] = NextDialog => k[2] > Cursor(NextDialog)
    BY <1>2, <2>1 DEF Passed, Cursor
  <2>4. k[1] # NextDialog
    BY <1>1, <1>2, <2>1, <2>3, PageIsPrefix
  <2> QED BY <1>2, <1>3, <2>1, <2>2, <2>4 DEF Passed
<1>6. AskedIsBehind'
  <2> SUFFICES ASSUME NEW k \in hist.asked PROVE Passed(k)'
    BY <1>1 DEF AskedIsBehind
  <2>1. Passed(k) /\ k[1] \in Nat /\ k[2] \in Nat
    BY <1>1, OwnedKeys DEF Inv, AskedIsBehind, Asked
  <2> QED BY <1>2, <1>3, <2>1 DEF Passed
<1>7. PageInHand' /\ PageAhead' /\ PageIsNext' /\ VerifiedFirst'
  BY <1>1 DEF PageInHand, PageAhead, PageIsNext, VerifiedFirst
<1> QED BY <1>4, <1>5, <1>6, <1>7 DEF Inv

\* The page selected is what follows the cursor.
LEMMA SelectStep ==
    ASSUME Inv, SelectPage
    PROVE  Inv'
<1>1. /\ TypeOK /\ state.status = "running" /\ slice.step = "none" /\ up
      /\ NextDialog # 0 /\ PageOf(NextDialog) # {}
      /\ slice' = [NoSlice EXCEPT !.step = "claim", !.dialog = NextDialog,
                                  !.page = PageOf(NextDialog)]
      /\ UNCHANGED <<state, due, up, held, rows, young, old, eligible, left, hist, withheld>>
  BY DEF Inv, SelectPage, Selecting, At
<1>2. /\ NextDialog \in Dialogs /\ NextDialog \in Nat /\ state.dialog \in Nat /\ state.message \in Nat
      /\ state.dialog <= NextDialog
      /\ NextDialog = state.dialog => state.message > 0
  BY <1>1, NextIsFirst, OwnedKeys, Constants
<1>3. /\ slice'.step = "claim" /\ slice'.dialog = NextDialog /\ slice'.page = PageOf(NextDialog)
      /\ slice'.absent = {}
  BY <1>1 DEF NoSlice
<1>4. /\ PageOf(NextDialog) \subseteq Keys
      /\ \A k \in PageOf(NextDialog) : k[1] = NextDialog /\ k[2] > Cursor(NextDialog)
  BY <1>1, <1>2, PageIsPrefix
<1>5. TypeOK'
  <2>1. slice' \in [step: {"none", "claim", "ask", "asked", "evidence", "commit"},
                   dialog: Dialogs \cup {0}, page: SUBSET Keys, absent: SUBSET Keys]
    BY <1>1, <1>2, <1>4 DEF NoSlice
  <2> QED BY <1>1, <2>1 DEF TypeOK
<1>6. PageAhead'
  <2> SUFFICES ASSUME NEW k \in PageOf(NextDialog)
               PROVE  k[1] = NextDialog /\ ~Passed(k)
    BY <1>1, <1>3 DEF PageAhead, Passed
  <2>1. k[1] = NextDialog /\ k[2] > Cursor(NextDialog) /\ k[1] \in Nat /\ k[2] \in Nat /\ k[2] > 0
    BY <1>1, <1>4, OwnedKeys
  <2> QED BY <2>1, <1>2 DEF Cursor, Passed
<1>7. PageIsNext'
  <2> SUFFICES ASSUME NEW k \in hist.owed \ hist.verified
               PROVE  \/ k \in PageOf(NextDialog)
                      \/ k[1] > NextDialog
                      \/ k[1] = NextDialog /\ \A j \in PageOf(NextDialog) : j[2] < k[2]
    BY <1>1, <1>3 DEF PageIsNext
  <2>1. /\ k \in Keys /\ k \in rows \cap old /\ k[1] \in eligible /\ ~Passed(k)
        /\ k[1] \in Nat /\ k[2] \in Nat /\ k[2] > 0
    BY <1>1, OwnedKeys DEF Inv, OwedIsAhead
  <2>2. NextDialog <= k[1]
    BY <1>1, <2>1, NextIsFirst
  <2>3. k[1] = NextDialog => k[2] > Cursor(NextDialog)
    BY <1>2, <2>1 DEF Passed, Cursor
  <2>4. k[1] = NextDialog =>
            k \in PageOf(NextDialog) \/ \A j \in PageOf(NextDialog) : j[2] < k[2]
    BY <1>1, <1>2, <2>1, <2>3, PageIsPrefix
  <2> QED BY <1>2, <2>1, <2>2, <2>4
<1>8. AskedIsBehind' /\ OwedIsAhead'
  BY <1>1, <1>3 DEF Inv, AskedIsBehind, OwedIsAhead, Asked, Passed
<1>9. PageInHand' /\ VerifiedFirst'
  BY <1>1, <1>3 DEF PageInHand, VerifiedFirst
<1> QED BY <1>5, <1>6, <1>7, <1>8, <1>9 DEF Inv

\* Claim, request and answer move the page on; a page asked for is known to be.
LEMMA PageSteps ==
    ASSUME Inv, ClaimPage \/ Dispatch \/ Answered
    PROVE  Inv' /\ (Dispatch => slice.page \cap hist.asked = {})
<1>1. /\ up /\ up' = up /\ slice.step \in {"claim", "ask", "asked"}
      /\ slice'.step \in {"ask", "asked", "evidence"}
      /\ slice'.page = slice.page /\ slice'.dialog = slice.dialog
      /\ state'.status = "verifying"
      /\ state'.dialog = state.dialog /\ state'.message = state.message
      /\ hist'.asked = IF slice.step = "ask" THEN hist.asked \cup slice.page ELSE hist.asked
      /\ slice.step # "asked" => slice'.step \in {"ask", "asked"} /\ slice.step \in {"claim", "ask"}
      /\ slice'.step = "ask" <=> slice.step = "claim"
      /\ hist'.owed = hist.owed /\ hist'.verified = hist.verified
      /\ slice.absent \subseteq slice.page => slice'.absent \subseteq slice'.page
      /\ UNCHANGED <<due, held, rows, young, old, eligible, left, withheld>>
  <2>1. CASE ClaimPage
    BY <2>1 DEF Inv, TypeOK, PageInHand, ClaimPage, At
  <2>2. CASE Dispatch
    BY <2>2 DEF Inv, TypeOK, PageInHand, Dispatch, At
  <2>3. CASE Answered
    BY <2>3 DEF Inv, TypeOK, PageInHand, Answered, At
  <2> QED BY <2>1, <2>2, <2>3
<1>2. TypeOK'
  <2>1. CASE ClaimPage
    BY <2>1 DEF Inv, TypeOK, ClaimPage
  <2>2. CASE Dispatch
    BY <2>2 DEF Inv, TypeOK, Dispatch
  <2>3. CASE Answered
    BY <2>3 DEF Inv, TypeOK, Answered
  <2> QED BY <2>1, <2>2, <2>3
<1>3. \A k : Passed(k)' <=> Passed(k)
  BY <1>1 DEF Passed
<1>4. PageInHand' /\ PageAhead' /\ VerifiedFirst' /\ PageIsNext' /\ OwedIsAhead'
  BY <1>1, <1>3 DEF Inv, PageInHand, PageAhead, VerifiedFirst, PageIsNext, OwedIsAhead
<1>5. AskedIsBehind'
  BY <1>1, <1>3 DEF Inv, AskedIsBehind, Asked
<1>6. ASSUME Dispatch PROVE slice.page \cap hist.asked = {}
  BY <1>6 DEF Inv, Dispatch, At, PageAhead, AskedIsBehind, Asked
<1> QED BY <1>2, <1>4, <1>5, <1>6 DEF Inv

\* The absent messages are marked together with what was verified.
LEMMA EvidenceStep ==
    ASSUME Inv, Evidence
    PROVE  Inv'
<1>1. /\ TypeOK /\ up /\ up' = up /\ slice.step = "evidence" /\ slice' = [slice EXCEPT !.step = "commit"]
      /\ rows \ slice.absent \subseteq rows' /\ rows' \subseteq rows
      /\ hist' = [hist EXCEPT !.verified = @ \cup slice.page]
      /\ UNCHANGED <<state, due, held, young, old, eligible, left, withheld>>
  BY DEF Inv, Evidence, At
<1>2. /\ slice'.step = "commit" /\ slice'.page = slice.page /\ slice'.dialog = slice.dialog
      /\ hist'.asked = hist.asked /\ hist'.owed = hist.owed
      /\ hist'.verified = hist.verified \cup slice.page
      /\ slice'.absent = slice.absent
  BY <1>1 DEF TypeOK
<1>3. TypeOK'
  BY <1>1 DEF TypeOK
<1>4. OwedIsAhead'
  <2> SUFFICES ASSUME NEW k \in hist.owed \ (hist.verified \cup slice.page)
               PROVE  k \in rows' /\ k \in old /\ k[1] \in eligible /\ ~Passed(k)
    BY <1>1, <1>2 DEF OwedIsAhead, Passed
  <2>1. k \notin slice.absent
    BY <1>1 DEF Inv, PageInHand
  <2> QED BY <1>1, <2>1 DEF Inv, OwedIsAhead
<1>5. PageInHand' /\ PageAhead' /\ AskedIsBehind' /\ PageIsNext' /\ VerifiedFirst'
  BY <1>1, <1>2 DEF Inv, PageInHand, PageAhead, AskedIsBehind, Asked, PageIsNext, VerifiedFirst,
                    Passed
<1> QED BY <1>3, <1>4, <1>5 DEF Inv

\* The commit passes the page and nothing else that is owed.
LEMMA CommitStep ==
    ASSUME Inv, CommitPage
    PROVE  Inv'
<1> DEFINE ids == {k[2] : k \in slice.page}
           last == Max(ids)
<1>1. /\ TypeOK /\ up /\ up' = up /\ slice.step = "commit" /\ slice' = NoSlice
      /\ state' = [state EXCEPT !.status = "running", !.dialog = slice.dialog, !.message = last]
      /\ UNCHANGED <<due, held, rows, young, old, eligible, left, hist, withheld>>
  BY DEF Inv, CommitPage, At, EndSlice
<1>2. /\ slice.page # {} /\ slice.page \subseteq Keys /\ slice.page \subseteq hist.verified
      /\ \A k \in slice.page : k[1] = slice.dialog /\ ~Passed(k)
  BY <1>1 DEF Inv, TypeOK, PageInHand, PageAhead, VerifiedFirst
<1>3. /\ \A k \in Keys : k[1] \in Dialogs /\ k[1] \in Nat /\ k[2] \in 1..MaxId /\ k[2] \in Nat
      /\ state.dialog \in Nat /\ state.message \in Nat
  BY <1>1, OwnedKeys
<1>4. ids \subseteq 1..MaxId /\ ids # {}
  BY <1>2, <1>3
<1>5. last \in ids /\ \A y \in ids : y <= last
  BY <1>4, LastOf, Constants
<1>6. last \in 1..MaxId /\ last \in Nat /\ last > 0 /\ last \in 0..MaxId
  BY <1>4, <1>5, Constants
<1>7. PICK l \in slice.page : l[2] = last
  BY <1>5
<1>8. \A k \in slice.page : k[2] <= last
  BY <1>5
<1> HIDE DEF ids, last
<1>9. slice.dialog = l[1] /\ slice.dialog \in Dialogs /\ slice.dialog \in Nat /\ ~Passed(l)
  BY <1>2, <1>3, <1>7
<1>10. \/ state.dialog < slice.dialog
       \/ state.dialog = slice.dialog /\ state.message > 0 /\ state.message < last
  BY <1>3, <1>6, <1>7, <1>9 DEF Passed
<1>11. /\ state'.dialog = slice.dialog /\ state'.message = last /\ state'.status = "running"
       /\ slice'.step = "none" /\ slice'.page = {}
  BY <1>1 DEF TypeOK, NoSlice
<1>12. TypeOK'
  <2>1. state' \in [status: {"idle", "running", "verifying", "suspended"}, gen: 0..MaxGen,
                   dialog: Dialogs \cup {0}, message: 0..MaxId, legacy: BOOLEAN]
    BY <1>1, <1>6, <1>9 DEF TypeOK
  <2>2. slice' \in [step: {"none", "claim", "ask", "asked", "evidence", "commit"},
                   dialog: Dialogs \cup {0}, page: SUBSET Keys, absent: SUBSET Keys]
    BY <1>1 DEF NoSlice
  <2> QED BY <1>1, <2>1, <2>2 DEF TypeOK
<1>13. \A k \in Keys : Passed(k)' <=>
           k[1] < slice.dialog \/ (k[1] = slice.dialog /\ k[2] <= last)
  BY <1>6, <1>11 DEF Passed
<1>14. AskedIsBehind'
  <2> SUFFICES ASSUME NEW k \in hist.asked PROVE Passed(k)'
    BY <1>1 DEF AskedIsBehind
  <2>1. k \in Keys /\ k[1] \in Nat /\ k[2] \in Nat
    BY <1>1, OwnedKeys
  <2>2. Passed(k) \/ k \in slice.page
    BY <1>1 DEF Inv, AskedIsBehind, Asked
  <2>3. CASE Passed(k)
    BY <2>1, <2>3, <1>3, <1>6, <1>9, <1>10, <1>13 DEF Passed
  <2>4. CASE k \in slice.page
    BY <2>1, <2>4, <1>2, <1>8, <1>13
  <2> QED BY <2>2, <2>3, <2>4
<1>15. OwedIsAhead'
  <2> SUFFICES ASSUME NEW k \in hist.owed \ hist.verified
               PROVE  ~Passed(k)'
    BY <1>1 DEF Inv, OwedIsAhead
  <2>1. k \in Keys /\ k[1] \in Nat /\ k[2] \in Nat /\ k \notin slice.page
    BY <1>1, <1>2, OwnedKeys
  <2>2. \/ k[1] > slice.dialog
        \/ k[1] = slice.dialog /\ last < k[2]
    BY <1>1, <1>7, <2>1 DEF Inv, PageIsNext
  <2> QED BY <2>1, <2>2, <1>6, <1>9, <1>13
<1>16. PageInHand' /\ PageAhead' /\ PageIsNext' /\ VerifiedFirst'
  BY <1>11 DEF PageInHand, PageAhead, PageIsNext, VerifiedFirst
<1> QED BY <1>12, <1>14, <1>15, <1>16 DEF Inv

-----------------------------------------------------------------------------
(* Faults, restarts and the environment *)

\* A slice that is given up leaves the cursor; it may go on only where it was not asked.
LEMMA FaultSteps ==
    ASSUME Inv, Deferred \/ Throttled \/ Failed \/ Crash \/ Prepare
    PROVE  Inv'
<1>1. /\ TypeOK /\ slice'.step = "none"
      /\ slice' = NoSlice \/ slice' = slice
      /\ state'.dialog = state.dialog /\ state'.message = state.message
      /\ state'.status = "running" =>
             /\ state.status = "running" \/ slice.step = "ask"
             /\ slice.step \in {"none", "claim", "ask"}
      /\ UNCHANGED <<due, held, rows, young, old, eligible, hist>>
  <2>1. CASE Deferred
    BY <2>1 DEF Inv, TypeOK, PageInHand, Deferred, RestorableDeferral, ZeroDispatches, EndSlice, NoSlice
  <2>2. CASE Throttled \/ Failed
    BY <2>2 DEF Inv, TypeOK, PageInHand, Throttled, Failed, At, EndSlice, NoSlice
  <2>3. CASE Crash
    BY <2>3 DEF Inv, TypeOK, PageInHand, Crash, EndSlice, NoSlice
  <2>4. CASE Prepare
    BY <2>4 DEF Inv, TypeOK, PageInHand, Prepare, PreparedState
  <2> QED BY <2>1, <2>2, <2>3, <2>4
<1>2. slice'.step = "none"
  BY <1>1
<1>3. TypeOK'
  <2>1. slice' \in [step: {"none", "claim", "ask", "asked", "evidence", "commit"},
                   dialog: Dialogs \cup {0}, page: SUBSET Keys, absent: SUBSET Keys]
    BY <1>1 DEF TypeOK, NoSlice
  <2>2. state' \in [status: {"idle", "running", "verifying", "suspended"}, gen: 0..MaxGen,
                    dialog: Dialogs \cup {0}, message: 0..MaxId, legacy: BOOLEAN]
    BY <1>1, ZenonT(60) DEF TypeOK, Deferred, Throttled, Failed, Crash, Prepare, PreparedState
  <2>3. left' \in [faults: 0..MaxFaults, changes: 0..MaxChanges] /\ up' \in BOOLEAN
    <3>1. \A n \in 0..MaxFaults : n > 0 => n - 1 \in 0..MaxFaults
      BY Constants
    <3>2. left' = left \/ (left.faults > 0 /\ left' = [left EXCEPT !.faults = @ - 1])
      BY DEF Deferred, Throttled, Failed, Crash, Prepare
    <3>3. up' \in BOOLEAN
      BY <1>1 DEF TypeOK, Deferred, Throttled, Failed, Crash, Prepare
    <3> QED BY <1>1, <3>1, <3>2, <3>3 DEF TypeOK
  <2>4. withheld' \in BOOLEAN
    <3>1. withheld' \in {withheld, TRUE, FALSE}
      BY DEF Deferred, RestorableDeferral, ZeroDispatches, Throttled, Failed, Crash, Prepare
    <3> QED BY <1>1, <3>1 DEF TypeOK
  <2> QED BY <1>1, <2>1, <2>2, <2>3, <2>4 DEF TypeOK
<1>4. \A k : Passed(k)' <=> Passed(k)
  BY <1>1 DEF Passed
<1>5. OwedIsAhead'
  BY <1>1, <1>4 DEF Inv, OwedIsAhead
<1>6. AskedIsBehind'
  BY <1>1, <1>2, <1>4 DEF Inv, AskedIsBehind, Asked
<1>7. PageInHand' /\ PageAhead' /\ PageIsNext' /\ VerifiedFirst'
  BY <1>1, <1>2 DEF PageInHand, PageAhead, PageIsNext, VerifiedFirst
<1> QED BY <1>3, <1>5, <1>6, <1>7 DEF Inv

\* What others do keeps, of what is owed, the row and its dialog.
LEMMA OutsideSteps ==
    ASSUME Inv, TimePasses \/ Store \/ Deleted \/ Change
    PROVE  Inv'
<1>1. /\ TypeOK /\ UNCHANGED <<state, up, slice>>
      /\ hist'.asked = hist.asked /\ hist'.verified = hist.verified
      /\ \A k \in hist'.owed : k \in hist.owed /\ (k \in rows => k \in rows')
                                /\ (k \in old => k \in old')
                                /\ (k[1] \in eligible => k[1] \in eligible')
  <2>1. CASE TimePasses \/ Store
    BY <2>1 DEF Inv, TimePasses, Store
  <2>2. CASE Deleted
    BY <2>2 DEF Inv, TypeOK, Deleted
  <2>3. CASE Change
    BY <2>3 DEF Inv, TypeOK, Change
  <2> QED BY <2>1, <2>2, <2>3
<1>2. TypeOK'
  <2>1. CASE TimePasses \/ Store
    BY <2>1 DEF Inv, TypeOK, TimePasses, Store
  <2>2. CASE Deleted
    BY <2>2 DEF Inv, TypeOK, Deleted
  <2>3. CASE Change
    <3>1. left' \in [faults: 0..MaxFaults, changes: 0..MaxChanges]
      BY <2>3, Constants DEF Inv, TypeOK, Change
    <3> QED BY <2>3, <3>1 DEF Inv, TypeOK, Change
  <2> QED BY <2>1, <2>2, <2>3
<1>3. \A k : Passed(k)' <=> Passed(k)
  BY <1>1 DEF Passed
<1>4. OwedIsAhead'
  BY <1>1, <1>3 DEF Inv, OwedIsAhead
<1>5. AskedIsBehind' /\ PageIsNext'
  BY <1>1, <1>3 DEF Inv, AskedIsBehind, Asked, PageIsNext
<1>6. PageInHand' /\ PageAhead' /\ VerifiedFirst'
  BY <1>1, <1>3 DEF Inv, PageInHand, PageAhead, VerifiedFirst
<1> QED BY <1>2, <1>4, <1>5, <1>6 DEF Inv

-----------------------------------------------------------------------------
(* The theorems *)

\* Every step of the sweep and of its environment preserves the invariant.
LEMMA StepInv == Inv /\ [Next]_vars => Inv'
<1> SUFFICES ASSUME Inv, [Next]_vars PROVE Inv'
  OBVIOUS
<1>1. CASE StartScan
  BY <1>1, StartStep
<1>2. CASE CompleteScan
  BY <1>2, CompleteStep
<1>3. CASE AdvanceEmptyDialog
  BY <1>3, AdvanceStep
<1>4. CASE SelectPage
  BY <1>4, SelectStep
<1>5. CASE ClaimPage \/ Dispatch \/ Answered
  BY <1>5, PageSteps
<1>6. CASE Evidence
  BY <1>6, EvidenceStep
<1>7. CASE CommitPage
  BY <1>7, CommitStep
<1>8. CASE Faults \/ Prepare
  BY <1>8, FaultSteps DEF Faults
<1>9. CASE TimePasses \/ Store \/ Deleted \/ Change
  BY <1>9, OutsideSteps
<1>10. CASE UNCHANGED vars
  BY <1>10 DEF vars, Inv, TypeOK, PageInHand, PageAhead, AskedIsBehind, Asked, OwedIsAhead,
               PageIsNext, VerifiedFirst, Passed
<1> QED BY <1>1, <1>2, <1>3, <1>4, <1>5, <1>6, <1>7, <1>8, <1>9, <1>10 DEF Next, Slice

\* The inductive invariant holds in every reachable state.
THEOREM InvHolds == Spec => []Inv
BY InitInv, StepInv, PTL DEF Spec

\* The type invariant.
THEOREM TypeCorrect == Spec => []TypeOK
<1>1. Inv => TypeOK
  BY DEF Inv
<1> QED BY <1>1, InvHolds, PTL

\* A request is on its way only under a claim that a restart will see.
THEOREM ClaimIsFirst == Spec => []ClaimedFirst
<1>1. Inv => ClaimedFirst
  BY DEF Inv, PageInHand, ClaimedFirst
<1> QED BY <1>1, InvHolds, PTL

\* A generation asks for no message twice: what was asked for lies behind the cursor,
\* and a page is taken from what lies ahead.
THEOREM AskedOnce == Spec => NeverTwice
<1>1. Inv /\ [Next]_vars =>
          [slice.step = "ask" /\ slice'.step = "asked" => slice.page \cap hist.asked = {}]_vars
  <2> SUFFICES ASSUME Inv, Next, slice.step = "ask", slice'.step = "asked"
               PROVE  slice.page \cap hist.asked = {}
    BY DEF vars
  <2>1. ~Faults
    <3>1. Faults => slice' = NoSlice
      BY DEF Faults, Deferred, Throttled, Failed, Crash, EndSlice
    <3>2. NoSlice.step = "none"
      BY DEF NoSlice
    <3> QED BY <3>1, <3>2
  <2>2. ~(Prepare \/ TimePasses \/ Store \/ Deleted \/ Change)
    BY DEF Prepare, TimePasses, Store, Deleted, Change
  <2>3. ~(StartScan \/ CompleteScan \/ AdvanceEmptyDialog \/ SelectPage)
    BY DEF StartScan, CompleteScan, AdvanceEmptyDialog, SelectPage, Selecting, At
  <2>4. ~(ClaimPage \/ Answered \/ Evidence \/ CommitPage)
    BY DEF ClaimPage, Answered, Evidence, CommitPage, At
  <2>5. Dispatch
    BY <2>1, <2>2, <2>3, <2>4 DEF Next, Slice
  <2> QED BY <2>5, PageSteps
<1> QED BY <1>1, InvHolds, PTL DEF Spec, NeverTwice

\* A generation completes with everything it owed verified: what is owed and not
\* verified lies ahead of the cursor, in a dialog that is selected before the end.
THEOREM SweepIsComplete == Spec => SweepComplete
<1>1. Inv /\ [Next]_vars =>
          [state.status = "running" /\ state'.status = "idle" => hist.owed \subseteq hist.verified]_vars
  <2> SUFFICES ASSUME Inv, Next, state.status = "running", state'.status = "idle"
               PROVE  hist.owed \subseteq hist.verified
    BY DEF vars
  <2>1. CompleteScan
    BY DEF Inv, TypeOK, Next, Slice, Faults, StartScan, CompleteScan, AdvanceEmptyDialog, SelectPage,
           Selecting, ClaimPage, Dispatch, Answered, Evidence, CommitPage, Deferred, Throttled, Failed,
           Crash, Prepare, PreparedState, TimePasses, Store, Deleted, Change, At
  <2> QED BY <2>1, CompleteStep
<1> QED BY <1>1, InvHolds, PTL DEF Spec, SweepComplete

-----------------------------------------------------------------------------
(* Facts about numbers, orders and pages *)

\* A bounded set of numbers and the missing cursor has a last.
LEMMA TopOf ==
    ASSUME NEW n \in Nat, NEW S, S \subseteq -1..n, S # {}
    PROVE  Max(S) \in S /\ \A y \in S : y <= Max(S)
<1> DEFINE T == {n - x : x \in S}
<1>1. T \subseteq Nat /\ T # {}
  <2>1. \A x \in -1..n : n - x \in Nat
    OBVIOUS
  <2> QED BY <2>1
<1>2. Min(T) \in T /\ \A y \in T : Min(T) <= y
  BY <1>1, FirstOf
<1>3. PICK m \in S : Min(T) = n - m
  BY <1>2
<1>4. \A y \in S : n - m <= n - y
  BY <1>2, <1>3
<1>5. \A y \in S : y <= m
  BY <1>4
<1> QED BY <1>5 DEF Max

LEMMA LaterOf ==
    ASSUME NEW a \in Int, NEW b \in Int
    PROVE  Max({a, b}) = IF a >= b THEN a ELSE b
BY DEF Max

Orders == {"access", "witness", "slice", "selected", "ext", "last"}
Ordered == [Orders -> Nat]

\* A new order is after all that are in use.
LEMMA FreshIsNew ==
    ASSUME NEW o \in Ordered
    PROVE  Fresh(o) \in Nat /\ \A n \in Orders : o[n] < Fresh(o)
<1> DEFINE N == o["access"] + o["witness"] + o["slice"] + o["selected"] + o["ext"] + o["last"]
<1> DEFINE S == {o[m] : m \in DOMAIN o}
<1>1. \A n \in Orders : o[n] \in Nat
  BY DEF Ordered
<1>2. N \in Nat /\ \A n \in Orders : o[n] \in -1..N
  BY <1>1 DEF Orders
<1>3. DOMAIN o = Orders
  BY DEF Ordered
<1>4. S \subseteq -1..N /\ S # {} /\ \A n \in Orders : o[n] \in S
  BY <1>2, <1>3 DEF Orders
<1> HIDE DEF N
<1>5. Max(S) \in S /\ \A y \in S : y <= Max(S)
  BY <1>2, <1>4, TopOf
<1>6. Max(S) \in Nat
  BY <1>1, <1>3, <1>5
<1>7. \A n \in Orders : o[n] <= Max(S)
  BY <1>4, <1>5
<1>8. Fresh(o) = 1 + Max(S)
  BY DEF Fresh
<1> QED BY <1>1, <1>6, <1>7, <1>8

\* Ranks keep the order of the orders.
LEMMA RankKeeps ==
    ASSUME NEW o \in Ordered
    PROVE  /\ Rank(o) \in Ordered
           /\ \A m, n \in Orders : o[m] <= o[n] <=> Rank(o)[m] <= Rank(o)[n]
<1> DEFINE V == {0} \cup {o[m] : m \in Orders}
           Below(n) == {v \in V : v < o[n]}
<1>1. DOMAIN o = Orders /\ \A n \in Orders : o[n] \in Nat
  BY DEF Ordered
<1>2. IsFiniteSet(V)
  <2> DEFINE first == {0} \cup ({o["access"]} \cup {o["witness"]})
             second == {o["slice"]} \cup ({o["selected"]} \cup ({o["ext"]} \cup {o["last"]}))
  <2>1. V = first \cup second
    BY DEF Orders
  <2>2. IsFiniteSet(first)
    BY FS_Singleton, FS_Union
  <2>3. IsFiniteSet(second)
    BY FS_Singleton, FS_Union
  <2> HIDE DEF first, second, V
  <2> QED BY <2>1, <2>2, <2>3, FS_Union
<1>3. \A n \in Orders : Below(n) \subseteq V
  OBVIOUS
<1>4. \A n \in Orders : IsFiniteSet(Below(n)) /\ Cardinality(Below(n)) \in Nat
  BY <1>2, <1>3, FS_Subset, FS_CardinalityType
<1>5. \A n \in Orders : Rank(o)[n] = Cardinality(Below(n))
  BY <1>1 DEF Rank
<1>6. Rank(o) \in Ordered
  BY <1>1, <1>4, <1>5 DEF Rank, Ordered
<1>7. ASSUME NEW m \in Orders, NEW n \in Orders, o[m] <= o[n]
      PROVE  Rank(o)[m] <= Rank(o)[n]
  <2>1. Below(m) \subseteq Below(n)
    BY <1>1, <1>7
  <2> HIDE DEF Below
  <2>2. Cardinality(Below(m)) <= Cardinality(Below(n))
    BY <1>4, <2>1, FS_Subset
  <2> QED BY <1>5, <2>2
<1>8. ASSUME NEW m \in Orders, NEW n \in Orders, o[m] < o[n]
      PROVE  Rank(o)[m] < Rank(o)[n]
  <2>1. Below(m) \subseteq Below(n) /\ Below(m) # Below(n)
    <3>1. o[m] \in Below(n) /\ o[m] \notin Below(m)
      BY <1>1, <1>8
    <3> QED BY <1>1, <1>8, <3>1
  <2> HIDE DEF Below
  <2>2. Cardinality(Below(m)) <= Cardinality(Below(n)) /\ Cardinality(Below(m)) # Cardinality(Below(n))
    BY <1>4, <2>1, FS_Subset
  <2> QED BY <1>4, <1>5, <2>2
<1>9. ASSUME NEW m \in Orders, NEW n \in Orders
      PROVE  o[m] <= o[n] <=> Rank(o)[m] <= Rank(o)[n]
  <2>1. Rank(o)[m] \in Nat /\ Rank(o)[n] \in Nat
    BY <1>6 DEF Ordered
  <2>2. CASE o[m] <= o[n]
    BY <1>7, <2>2
  <2>3. CASE ~(o[m] <= o[n])
    <3>1. o[n] < o[m]
      BY <1>1, <2>3
    <3> QED BY <1>8, <2>1, <2>3, <3>1
  <2> QED BY <2>2, <2>3
<1> QED BY <1>6, <1>9

\* What is asked in the direction of the walk ends at its page.
Closed(page, top, cursor) ==
    /\ page \subseteq 1..top
    /\ \A m \in 1..top : \A p \in page :
          m >= p /\ (cursor = 0 \/ m < cursor) => m \in page
    /\ page = {} => \A m \in 1..top : cursor # 0 /\ m >= cursor

LEMMA BackwardIsClosed ==
    ASSUME NEW cursor \in Nat, srv.top \in Nat
    PROVE  Closed(Backward(cursor), srv.top, cursor)
<1> DEFINE older == {m \in 1..srv.top : cursor = 0 \/ m < cursor}
           After(m) == {n \in older : n > m}
<1>0. HistoryPage \in Nat /\ HistoryPage > 0
  BY HistoryAssumption
<1>1. IsFiniteSet(older) /\ older \subseteq 1..srv.top
  <2>1. IsFiniteSet(1..srv.top)
    BY FS_Interval
  <2> QED BY <2>1, FS_Subset
<1>2. \A m \in older : IsFiniteSet(After(m)) /\ Cardinality(After(m)) \in Nat
  BY <1>1, FS_Subset, FS_CardinalityType
<1>3. Backward(cursor) = {m \in older : Cardinality(After(m)) < HistoryPage}
  BY DEF Backward
<1>4. ASSUME NEW m \in older, NEW p \in Backward(cursor), m >= p
      PROVE  m \in Backward(cursor)
  <2>1. p \in older /\ Cardinality(After(p)) < HistoryPage
    BY <1>3, <1>4
  <2>2. After(m) \subseteq After(p)
    BY <1>1, <1>4, <2>1
  <2> HIDE DEF After, older
  <2>3. Cardinality(After(m)) <= Cardinality(After(p))
    BY <1>2, <2>1, <2>2, FS_Subset
  <2>4. Cardinality(After(m)) < HistoryPage
    BY <1>0, <1>2, <1>4, <2>1, <2>3
  <2> QED BY <1>3, <2>4
<1>5. ASSUME Backward(cursor) = {}
      PROVE  older = {}
  <2> SUFFICES ASSUME older # {} PROVE FALSE
    OBVIOUS
  <2>1. older \subseteq -1..srv.top
    BY <1>1
  <2> DEFINE m == Max(older)
  <2>2. m \in older /\ \A y \in older : y <= m
    BY <2>1, TopOf
  <2>3. After(m) = {}
    BY <1>1, <2>2
  <2>4. Cardinality(After(m)) < HistoryPage
    BY <1>0, <2>3, FS_EmptySet
  <2> HIDE DEF After, m
  <2> QED BY <1>3, <1>5, <2>2, <2>4
<1>6. Backward(cursor) \subseteq 1..srv.top
  BY <1>1, <1>3
<1>7. \A m \in 1..srv.top : \A p \in Backward(cursor) :
          m >= p /\ (cursor = 0 \/ m < cursor) => m \in Backward(cursor)
  BY <1>4
<1>8. Backward(cursor) = {} => \A m \in 1..srv.top : cursor # 0 /\ m >= cursor
  BY <1>5
<1> QED BY <1>6, <1>7, <1>8 DEF Closed

\* What is asked forward begins at the cursor, and ends the history unless it is full.
Filled(page, top, cursor) ==
    /\ page \subseteq 1..top
    /\ \A m \in 1..top : \A p \in page : m > cursor /\ m <= p => m \in page
Ends(page, top, cursor) == \A m \in 1..top : m > cursor => m \in page

LEMMA ForwardIsFilled ==
    ASSUME NEW cursor \in Nat, srv.top \in Nat
    PROVE  /\ Filled(Forward(cursor), srv.top, cursor)
           /\ Cardinality(Forward(cursor)) < HistoryPage => Ends(Forward(cursor), srv.top, cursor)
           /\ Forward(cursor) = {} => Ends(Forward(cursor), srv.top, cursor)
<1> DEFINE newer == {m \in 1..srv.top : m > cursor}
           Before(m) == {n \in newer : n < m}
           page == Forward(cursor)
<1>0. HistoryPage \in Nat /\ HistoryPage > 0
  BY HistoryAssumption
<1>1. IsFiniteSet(newer) /\ newer \subseteq 1..srv.top
  <2>1. IsFiniteSet(1..srv.top)
    BY FS_Interval
  <2> QED BY <2>1, FS_Subset
<1>2. \A m \in newer : IsFiniteSet(Before(m)) /\ Cardinality(Before(m)) \in Nat
  BY <1>1, FS_Subset, FS_CardinalityType
<1>3. page = {m \in newer : Cardinality(Before(m)) < HistoryPage}
  BY DEF Forward
<1>4. ASSUME NEW m \in newer, NEW p \in page, m <= p
      PROVE  m \in page
  <2>1. p \in newer /\ Cardinality(Before(p)) < HistoryPage
    BY <1>3, <1>4
  <2>2. Before(m) \subseteq Before(p)
    BY <1>1, <1>4, <2>1
  <2> HIDE DEF Before, newer, page
  <2>3. Cardinality(Before(m)) <= Cardinality(Before(p))
    BY <1>2, <2>1, <2>2, FS_Subset
  <2>4. Cardinality(Before(m)) < HistoryPage
    BY <1>0, <1>2, <1>4, <2>1, <2>3
  <2> QED BY <1>3, <2>4
<1>5. IsFiniteSet(page) /\ Cardinality(page) \in Nat
  BY <1>1, <1>3, FS_Subset, FS_CardinalityType
<1>6. ASSUME Cardinality(page) < HistoryPage, NEW m \in newer
      PROVE  m \in page
  <2> SUFFICES ASSUME m \notin page PROVE FALSE
    OBVIOUS
  <2> DEFINE rest == newer \ page
             least == Min(rest)
  <2>1. rest \subseteq Nat /\ rest # {}
    BY <1>1
  <2>2. least \in rest /\ \A y \in rest : least <= y
    BY <2>1, FirstOf
  <2>3. Before(least) \subseteq page
    <3> SUFFICES ASSUME NEW n \in newer, n < least, n \notin page PROVE FALSE
      OBVIOUS
    <3>1. n \in rest
      OBVIOUS
    <3> QED BY <1>1, <2>1, <2>2, <3>1
  <2> HIDE DEF Before, newer, page, rest, least
  <2>4. least \in newer /\ least \notin page
    BY <2>2 DEF rest
  <2>5. Cardinality(Before(least)) <= Cardinality(page)
    BY <1>5, <2>3, FS_Subset
  <2>6. Cardinality(Before(least)) < HistoryPage
    BY <1>0, <1>2, <1>5, <1>6, <2>4, <2>5
  <2> QED BY <1>3, <2>4, <2>6
<1>7. page = {} => Cardinality(page) < HistoryPage
  BY <1>0, FS_EmptySet
<1>8. page \subseteq 1..srv.top
  BY <1>1, <1>3
<1>9. Filled(page, srv.top, cursor)
  BY <1>4, <1>8 DEF Filled
<1>10. Cardinality(page) < HistoryPage => Ends(page, srv.top, cursor)
  BY <1>6 DEF Ends
<1> QED BY <1>7, <1>9, <1>10
-----------------------------------------------------------------------------
(* Types *)

Servers == [top : 1..MaxTop, member : BOOLEAN, removal : BOOLEAN]
Rows == [status : Statuses, progress : 0..MaxTop, delta : -1..MaxTop,
         requested : BOOLEAN, fresh : BOOLEAN, checked : BOOLEAN, depth : BOOLEAN,
         topics : {"old", "partial", "complete"}, total : BOOLEAN]
Kinds == {"none", "full", "group", "total", "gap", "probe", "recovery"}
Steps == {"none", "read", "reserve", "asked", "commit", "more", "later", "finish"}
Actives(top) ==
    [kind : Kinds, step : Steps, cursor : 0..MaxTop, moved : BOOLEAN,
     answer : {"none", "page", "lost", "failed"}, page : SUBSET (1..top),
     complete : BOOLEAN, total : 0..top]
Spares == [moves : 0..MaxMoves, user : 0..MaxUser, faults : 0..MaxRefusals]
Histories(top) ==
    [user : {"unset", "on", "off"}, access : {"member", "lost"},
     owed : 0..top, probed : 0..top]
Waits == [lost : BOOLEAN, group : BOOLEAN]
Demands == [selected : Revisions, excluded : SUBSET Revisions]

LEMMA TypeParts ==
    HistoryTypeOK <=>
        /\ srv \in Servers /\ row \in Rows /\ intent \in {"unset", "on", "off"}
        /\ stored \subseteq 1..srv.top /\ recovery \in {"none", "due", "wait"}
        /\ ext \in BOOLEAN /\ waits \in Waits /\ ord \in Ordered
        /\ active \in Actives(srv.top) /\ spare \in Spares /\ history \in Histories(srv.top)
        /\ demand \in Demands
BY DEF HistoryTypeOK, Demands, Servers, Rows, Ordered, Orders, Actives, Kinds, Steps, Spares,
       Histories, Waits

\* The numbers of a typed state.
LEMMA Numbers ==
    ASSUME HistoryTypeOK
    PROVE  /\ srv.top \in Nat /\ srv.top >= 1 /\ srv.top <= MaxTop /\ MaxTop \in Nat
           /\ row.delta \in Int /\ row.delta >= -1 /\ row.delta <= MaxTop
           /\ row.progress \in Nat /\ row.progress <= MaxTop
           /\ active.cursor \in Nat /\ active.cursor <= MaxTop
           /\ active.total \in Nat /\ active.total <= srv.top
           /\ active.page \subseteq 1..srv.top
           /\ history.owed \in 0..srv.top /\ history.probed \in 0..srv.top
           /\ \A n \in Orders : ord[n] \in Nat
BY HistoryAssumption, TypeParts DEF Servers, Rows, Actives, Histories, Ordered

\* What is read of an order is one of the orders.
LEMMA OrderFields ==
    ASSUME NEW o \in Ordered
    PROVE  /\ DOMAIN o = Orders
           /\ o.access \in Nat /\ o.witness \in Nat /\ o.slice \in Nat /\ o.selected \in Nat
           /\ o.ext \in Nat /\ o.last \in Nat
BY DEF Ordered, Orders

\* A change of one order gives orders.
LEMMA OrderSet ==
    ASSUME NEW o \in Ordered, NEW n \in Orders, NEW x \in Nat
    PROVE  [o EXCEPT ![n] = x] \in Ordered
BY DEF Ordered

LEMMA EmptySlice == \A top \in Nat : NoneActive \in Actives(top)
BY HistoryAssumption DEF NoneActive, Actives, Kinds, Steps

\* What the user and the automatic enrollment make of a row.
LEMMA EnabledTyped ==
    ASSUME NEW r \in Rows
    PROVE  /\ EnabledRow(r) \in Rows
           /\ EnabledRow(r).delta = r.delta /\ EnabledRow(r).depth = r.depth
           /\ EnabledRow(r).progress \in {0, r.progress}
           /\ EnabledRow(r).status # "access_lost" <=> r.status # "access_lost"
           /\ EnabledRow(r).status = "synced" => r.status = "synced"
           /\ r.requested => EnabledRow(r).requested
           /\ Refreshes(r) => EnabledRow(r) = RequestRefresh(r)
<1>0. 0 \in 0..MaxTop
  BY HistoryAssumption
<1> QED BY <1>0 DEF EnabledRow, RequestRefresh, Refreshes, Rows, Statuses

LEMMA RestoredTyped ==
    ASSUME NEW r \in Rows
    PROVE  /\ RestoredRow(r) \in Rows
           /\ RestoredRow(r).delta = r.delta /\ RestoredRow(r).depth = r.depth
           /\ RestoredRow(r).progress = r.progress
           /\ RestoredRow(r).status = IF Enabled THEN "syncing" ELSE "not_synced"
BY DEF RestoredRow, Rows, Statuses

LEMMA GroupTyped ==
    ASSUME NEW r \in Rows, NEW accepted \in BOOLEAN
    PROVE  /\ GroupRow(r, accepted) \in Rows
           /\ GroupRow(r, accepted).delta = r.delta /\ GroupRow(r, accepted).depth = r.depth
           /\ GroupRow(r, accepted).progress \in {0, r.progress}
           /\ GroupRow(r, accepted).status # "access_lost" <=> r.status # "access_lost"
           /\ GroupRow(r, accepted).status = "synced" <=> r.status = "synced"
           /\ GroupRow(r, accepted).requested = r.requested
<1>0. 0 \in 0..MaxTop
  BY HistoryAssumption
<1> QED BY <1>0 DEF GroupRow, Rows, Statuses

\* The later of the forward cursor and the beginning.
LEMMA ForwardStart ==
    ASSUME NEW r \in Rows
    PROVE  /\ Max({r.delta, 0}) = IF r.delta >= 0 THEN r.delta ELSE 0
           /\ Max({r.delta, 0}) \in 0..MaxTop
<1>1. r.delta \in -1..MaxTop /\ MaxTop \in Nat
  BY HistoryAssumption DEF Rows
<1> QED BY <1>1, LaterOf

\* What a page does to the row of a walk.
LEMMA WalkTyped ==
    ASSUME HistoryTypeOK, NEW r \in Rows
    PROVE  /\ WalkedRow(r) \in Rows
           /\ WalkedRow(r).status = IF active.page = {} THEN "synced" ELSE "syncing"
           /\ WalkedRow(r).depth <=> r.depth \/ active.page = {}
           /\ WalkedRow(r).requested = r.requested
           /\ WalkedRow(r).progress = IF active.page = {} THEN r.progress ELSE Min(active.page)
           /\ WalkedRow(r).delta = IF active.cursor = 0 /\ r.delta = Null
                                   THEN IF active.page = {} THEN 0 ELSE Max(active.page)
                                   ELSE r.delta
<1> DEFINE page == active.page
           top == srv.top
           first == active.cursor = 0
           pass == IF first THEN "partial" ELSE r.topics
           low == Min(page)
           high == Max(page)
           status == IF page = {} THEN "synced" ELSE "syncing"
           progress == IF page = {} THEN r.progress ELSE low
           depth == r.depth \/ page = {}
           fresh == IF page = {} /\ ~r.checked THEN TRUE ELSE r.fresh
           topics == IF page = {} /\ pass = "partial" THEN "complete" ELSE pass
           total == r.total \/ first
           next == [r EXCEPT !.status = status, !.progress = progress, !.depth = depth,
                             !.fresh = fresh, !.topics = topics, !.total = total]
<1>1. top \in Nat /\ top <= MaxTop /\ MaxTop \in Nat /\ page \subseteq 1..top
  BY Numbers
<1>2. page # {} => low \in 0..MaxTop
  <2>1. page \subseteq Nat
    BY <1>1
  <2>2. page # {} => low \in page
    BY <2>1, FirstOf
  <2> QED BY <1>1, <2>2
<1>3. page # {} => high \in 0..MaxTop
  <2>1. page \subseteq -1..top
    BY <1>1
  <2>2. page # {} => high \in page
    BY <1>1, <2>1, TopOf
  <2> QED BY <1>1, <2>2
<1>4. /\ status \in Statuses /\ progress \in 0..MaxTop /\ depth \in BOOLEAN
      /\ fresh \in BOOLEAN /\ total \in BOOLEAN
      /\ topics \in {"old", "partial", "complete"}
  <2>1. r.fresh \in BOOLEAN /\ r.topics \in {"old", "partial", "complete"} /\ r.progress \in 0..MaxTop
    BY DEF Rows
  <2> HIDE DEF low
  <2> QED BY <1>2, <2>1 DEF Statuses
<1>5. WalkedRow(r) = IF first /\ NoBaseline(next)
                     THEN [next EXCEPT !.delta = IF page = {} THEN 0 ELSE high] ELSE next
  BY DEF WalkedRow
<1> HIDE DEF status, progress, depth, fresh, topics, total
<1>9. /\ next \in Rows
      /\ next.status = status /\ (next.depth <=> depth)
      /\ next.requested = r.requested /\ next.delta = r.delta /\ next.progress = progress
  BY <1>4 DEF Rows
<1> HIDE DEF next, high, low
<1>6. NoBaseline(next) <=> r.delta = Null
  BY <1>9 DEF NoBaseline
<1>7. CASE first /\ r.delta = Null
  <2> DEFINE delta == IF page = {} THEN 0 ELSE high
  <2>1. WalkedRow(r) = [next EXCEPT !.delta = delta]
    BY <1>5, <1>6, <1>7
  <2>2. delta \in -1..MaxTop
    BY <1>1, <1>3
  <2> HIDE DEF delta
  <2>3. /\ WalkedRow(r) \in Rows /\ WalkedRow(r).delta = delta
        /\ WalkedRow(r).status = next.status /\ (WalkedRow(r).depth <=> next.depth)
        /\ WalkedRow(r).requested = next.requested /\ WalkedRow(r).progress = next.progress
    BY <1>9, <2>1, <2>2 DEF Rows
  <2> QED BY <1>9, <1>7, <2>3 DEF delta, low, high, status, depth, progress
<1>8. CASE ~(first /\ r.delta = Null)
  <2>1. WalkedRow(r) = next
    BY <1>5, <1>6, <1>8
  <2> QED BY <1>9, <1>8, <2>1 DEF low, status, depth, progress
<1> QED BY <1>7, <1>8

\* A page of the walk leaves no gap: it joins the cursor it was asked at.
LEMMA WalkKeeps ==
    ASSUME HistoryTypeOK, NEW r \in Rows, Walked(r) \subseteq stored,
           r.progress = active.cursor, r.delta <= active.total, r.depth => r.delta # Null,
           Closed(active.page, active.total, active.cursor)
    PROVE  Walked(WalkedRow(r)) \subseteq stored \cup active.page
<1> DEFINE page == active.page
           total == active.total
           w == WalkedRow(r)
<1>1. /\ total \in Nat /\ MaxTop \in Nat /\ active.cursor \in Nat /\ page \subseteq 1..total
      /\ r.delta \in -1..MaxTop /\ r.progress \in Nat /\ Null = -1
  BY Numbers, HistoryAssumption DEF Rows, Closed, Null
<1>2. /\ w \in Rows
      /\ (w.depth <=> r.depth \/ page = {})
      /\ w.progress = IF page = {} THEN r.progress ELSE Min(page)
      /\ w.delta = IF active.cursor = 0 /\ r.delta = Null
                   THEN IF page = {} THEN 0 ELSE Max(page) ELSE r.delta
  BY WalkTyped
<1>3. page # {} => Min(page) \in page
  <2>1. page \subseteq Nat
    BY <1>1
  <2> QED BY <2>1, FirstOf
<1>4. page # {} => Max(page) \in page
  <2>1. page \subseteq -1..total
    BY <1>1
  <2> QED BY <1>1, <2>1, TopOf
<1>5. w.delta <= total /\ w.delta \in Int
  BY <1>1, <1>2, <1>4
<1>6. Max({r.delta, 0}) = (IF r.delta >= 0 THEN r.delta ELSE 0)
      /\ Max({w.delta, 0}) = (IF w.delta >= 0 THEN w.delta ELSE 0)
  BY <1>2, ForwardStart
<1>14. \A p \in page : p \in Nat
  BY <1>1
<1> HIDE DEF w, page, total
<1>7. SUFFICES ASSUME NEW m \in Nat, m >= 1, m <= w.delta, m <= total,
                      w.depth \/ (w.progress > 0 /\ m >= w.progress),
                      m \notin page
               PROVE  m \in stored
  <2>1. Walked(w) = {m \in 1..Max({w.delta, 0}) : w.depth \/ (w.progress > 0 /\ m >= w.progress)}
    BY DEF Walked
  <2>2. \A m \in Walked(w) : m \in Nat /\ m >= 1 /\ m <= w.delta /\ m <= total
    BY <1>5, <1>6, <1>1, <2>1
  <2> QED BY <2>1, <2>2, <1>7 DEF w, page
<1>8. \A n \in Nat : n >= 1 /\ n <= r.delta /\ (r.depth \/ (r.progress > 0 /\ n >= r.progress)) => n \in stored
  BY <1>1, <1>6 DEF Walked
<1>9. m \in 1..total
  BY <1>1, <1>7
<1>10. \A p \in page : m >= p => ~(active.cursor = 0 \/ m < active.cursor)
  BY <1>7, <1>9 DEF Closed, page, total
<1>11. page = {} => active.cursor # 0 /\ m >= active.cursor
  BY <1>9 DEF Closed, page, total
<1>12. CASE page = {}
  <2>1. w.delta = r.delta /\ active.cursor # 0 /\ m >= r.progress
    BY <1>2, <1>11, <1>12
  <2> QED BY <1>1, <1>7, <1>8, <2>1
<1>13. CASE page # {}
  <2>1. CASE active.cursor = 0 /\ r.delta = Null
    <3>1. Max(page) \in page /\ w.delta = Max(page) /\ w.progress = Min(page) /\ Min(page) \in page
      BY <1>2, <1>3, <1>4, <1>13, <2>1
    <3>2. Max(page) \in Nat /\ Min(page) \in Nat
      BY <1>14, <3>1
    <3>3. w.depth <=> r.depth
      BY <1>2, <1>13
    <3>4. ~(m >= Min(page))
      BY <1>10, <2>1, <3>1
    <3>5. ~r.depth
      BY <2>1
    <3> QED BY <1>7, <3>1, <3>2, <3>3, <3>4, <3>5
  <2>2. CASE ~(active.cursor = 0 /\ r.delta = Null)
    <3>1. w.delta = r.delta /\ w.progress = Min(page) /\ Min(page) \in page /\ (w.depth <=> r.depth)
      BY <1>2, <1>3, <1>13, <2>2
    <3>3. m >= Min(page) => ~(active.cursor = 0 \/ m < active.cursor)
      BY <1>10, <3>1
    <3>2. m >= Min(page) => active.cursor # 0 /\ m >= active.cursor
      BY <1>1, <3>3
    <3> QED BY <1>1, <1>7, <1>8, <3>1, <3>2
  <2> QED BY <2>1, <2>2
<1> QED BY <1>12, <1>13

\* What a page does to the forward cursor.
LEMMA FillTyped ==
    ASSUME HistoryTypeOK, NEW r \in Rows
    PROVE  /\ FilledRow(r) \in Rows
           /\ FilledRow(r).status = r.status /\ (FilledRow(r).depth <=> r.depth)
           /\ FilledRow(r).progress = r.progress
           /\ FilledRow(r).delta = Max({r.delta, 0} \cup active.page)
           /\ FilledRow(r).requested <=> Continues
           /\ FilledRow(r).delta \in Nat
           /\ r.delta <= FilledRow(r).delta /\ Max({r.delta, 0}) <= FilledRow(r).delta
           /\ FilledRow(r).delta \in {Max({r.delta, 0})} \cup active.page
           /\ \A p \in active.page : p <= FilledRow(r).delta
<1> DEFINE page == active.page
           top == Max({r.delta, 0} \cup page)
<1>1. page \subseteq 1..srv.top /\ srv.top \in Nat /\ srv.top <= MaxTop /\ MaxTop \in Nat
  BY Numbers
<1>2. r.delta \in -1..MaxTop
  BY DEF Rows
<1>3. {r.delta, 0} \cup page \subseteq -1..MaxTop
  BY <1>1, <1>2
<1>4. top \in {r.delta, 0} \cup page /\ \A y \in {r.delta, 0} \cup page : y <= top
  BY <1>1, <1>3, TopOf
<1>5. Max({r.delta, 0}) = IF r.delta >= 0 THEN r.delta ELSE 0
  BY ForwardStart
<1> HIDE DEF top
<1>6. top \in 0..MaxTop /\ top \in -1..MaxTop
  BY <1>1, <1>2, <1>3, <1>4
<1>8. FilledRow(r) = IF Continues THEN [r EXCEPT !.delta = top, !.requested = TRUE]
                     ELSE [r EXCEPT !.delta = top, !.fresh = TRUE, !.checked = TRUE,
                                    !.requested = FALSE]
  BY DEF FilledRow, top
<1>9. /\ FilledRow(r) \in Rows
      /\ FilledRow(r).status = r.status /\ (FilledRow(r).depth <=> r.depth)
      /\ FilledRow(r).progress = r.progress
      /\ FilledRow(r).delta = top
      /\ FilledRow(r).requested <=> Continues
  <2> HIDE DEF Continues
  <2>1. CASE Continues
    <3>1. FilledRow(r) = [r EXCEPT !.delta = top, !.requested = TRUE]
      BY <1>8, <2>1
    <3> QED BY <1>6, <2>1, <3>1 DEF Rows
  <2>2. CASE ~Continues
    <3>1. FilledRow(r) = [r EXCEPT !.delta = top, !.fresh = TRUE, !.checked = TRUE,
                                   !.requested = FALSE]
      BY <1>8, <2>2
    <3> QED BY <1>6, <2>2, <3>1 DEF Rows
  <2> QED BY <2>1, <2>2
<1>10. top \in Nat /\ r.delta <= top /\ Max({r.delta, 0}) <= top
  BY <1>2, <1>4, <1>5, <1>6
<1>11. top \in {Max({r.delta, 0})} \cup page
  BY <1>2, <1>4, <1>5, <1>6
<1>12. \A p \in page : p <= top
  BY <1>4
<1> QED BY <1>9, <1>10, <1>11, <1>12 DEF top

\* A page of the gap joins the forward cursor it was asked at.
LEMMA FillKeeps ==
    ASSUME HistoryTypeOK, NEW r \in Rows, Walked(r) \subseteq stored,
           active.cursor = Max({r.delta, 0}),
           Filled(active.page, active.total, active.cursor)
    PROVE  Walked(FilledRow(r)) \subseteq stored \cup active.page
<1> DEFINE page == active.page
           total == active.total
           cursor == active.cursor
           w == FilledRow(r)
<1>1. /\ total \in Nat /\ MaxTop \in Nat /\ cursor \in Nat
      /\ r.delta \in -1..MaxTop /\ r.progress \in Nat
  BY Numbers, HistoryAssumption DEF Rows
<1>2. /\ w \in Rows
      /\ (w.depth <=> r.depth) /\ w.progress = r.progress
      /\ w.delta \in Nat /\ w.delta \in {cursor} \cup page
  BY FillTyped
<1>3. Max({w.delta, 0}) = w.delta
  BY <1>2, ForwardStart
<1>4. /\ \A p \in page : p \in 1..total
      /\ \A m \in 1..total : \A p \in page : m > cursor /\ m <= p => m \in page
  BY DEF Filled
<1>5. \A m \in 1..cursor : (r.depth \/ (r.progress > 0 /\ m >= r.progress)) => m \in stored
  BY DEF Walked
<1> HIDE DEF w, page, total, cursor
<1>6. ASSUME NEW m \in 1..w.delta, w.depth \/ (w.progress > 0 /\ m >= w.progress)
      PROVE  m \in stored \cup page
  <2>0. m \in Nat /\ m >= 1
    BY <1>2, <1>6
  <2>1. CASE m <= cursor
    <3>1. m \in 1..cursor
      BY <1>1, <2>0, <2>1
    <3> QED BY <1>2, <1>5, <1>6, <3>1
  <2>2. CASE m > cursor
    <3>1. w.delta \in page /\ m <= w.delta
      BY <1>1, <1>2, <1>6, <2>0, <2>2
    <3>2. w.delta \in 1..total
      BY <1>4, <3>1
    <3>3. m \in 1..total
      BY <1>1, <2>0, <3>1, <3>2
    <3> QED BY <1>4, <2>2, <3>1, <3>3
  <2> QED BY <1>1, <2>0, <2>1, <2>2
<1>7. Walked(w) = {m \in 1..w.delta : w.depth \/ (w.progress > 0 /\ m >= w.progress)}
  BY <1>3 DEF Walked
<1> QED BY <1>6, <1>7 DEF w, page

\* A page that ends the history leads the forward cursor to its end.
LEMMA FillReaches ==
    ASSUME HistoryTypeOK, NEW r \in Rows, active.cursor = Max({r.delta, 0}),
           Ends(active.page, active.total, active.cursor)
    PROVE  active.total <= FilledRow(r).delta
<1> DEFINE total == active.total
           cursor == active.cursor
           w == FilledRow(r)
<1>1. total \in Nat /\ cursor \in Nat
  BY Numbers
<1>2. w.delta \in Nat /\ cursor <= w.delta /\ \A p \in active.page : p <= w.delta
  BY FillTyped
<1>3. total > cursor => total \in active.page
  <2>1. \A m \in 1..total : m > cursor => m \in active.page
    BY DEF Ends
  <2>2. total > cursor => total \in 1..total
    BY <1>1
  <2> QED BY <2>1, <2>2
<1> HIDE DEF w, total, cursor
<1>4. total <= w.delta
  BY <1>1, <1>2, <1>3
<1> QED BY <1>4 DEF w, total

-----------------------------------------------------------------------------
(* The orders of an access *)

\* The newest observation of the access is the one of its row, and the witness of a
\* recovery says that it is regained.
AccessOrder(o, h) ==
    /\ o.last = o.access /\ o.witness <= o.access
    /\ o.access = o.witness => h.access = "member"

\* Ranks, and orders that do not speak of the access, change nothing.
LEMMA AccessOrderKept ==
    ASSUME NEW o \in Ordered, NEW p \in Ordered, NEW h, AccessOrder(o, h),
           p.access = o.access, p.witness = o.witness, p.last = o.last
    PROVE  Rank(p) \in Ordered /\ AccessOrder(Rank(p), h)
<1>1. Rank(p) \in Ordered /\ \A m, n \in Orders : p[m] <= p[n] <=> Rank(p)[m] <= Rank(p)[n]
  BY RankKeeps
<1>2. {"access", "witness", "last"} \subseteq Orders
  BY DEF Orders
<1>3. /\ p.access \in Nat /\ p.witness \in Nat /\ p.last \in Nat
      /\ Rank(p).access \in Nat /\ Rank(p).witness \in Nat /\ Rank(p).last \in Nat
  BY <1>1, OrderFields
<1>4. /\ p.last <= p.access <=> Rank(p).last <= Rank(p).access
      /\ p.access <= p.last <=> Rank(p).access <= Rank(p).last
      /\ p.witness <= p.access <=> Rank(p).witness <= Rank(p).access
      /\ p.access <= p.witness <=> Rank(p).access <= Rank(p).witness
  BY <1>1, <1>2
<1>5. p.last = p.access /\ p.witness <= p.access /\ (p.access = p.witness => h.access = "member")
  BY DEF AccessOrder
<1>6. Rank(p).last = Rank(p).access /\ Rank(p).witness <= Rank(p).access
  BY <1>3, <1>4, <1>5
<1>7. Rank(p).access = Rank(p).witness => p.access = p.witness
  BY <1>3, <1>4
<1> QED BY <1>1, <1>5, <1>6, <1>7 DEF AccessOrder

\* So it is with the order of a slice that ends.
LEMMA ForgetKeeps ==
    ASSUME NEW o \in Ordered, NEW h, AccessOrder(o, h)
    PROVE  Forget(o) \in Ordered /\ AccessOrder(Forget(o), h)
<1> DEFINE p == [o EXCEPT !.slice = 0, !.selected = 0]
<1>1. p \in Ordered /\ p.access = o.access /\ p.witness = o.witness /\ p.last = o.last
  BY DEF Ordered, Orders
<1>2. Forget(o) = Rank(p)
  BY DEF Forget
<1> HIDE DEF p
<1> QED BY <1>1, <1>2, AccessOrderKept

\* What a loss that is committed leaves behind.
LEMMA LossFacts ==
    ASSUME HistoryTypeOK, NEW o \in Ordered, NEW order \in Nat,
           NEW keep \in BOOLEAN, NEW probed \in BOOLEAN,
           AccessOrder(o, history), LossStands, LoseAccess(o, order, keep, probed)
    PROVE  /\ row' \in Rows /\ recovery' \in {"none", "due", "wait"} /\ waits' \in Waits
           /\ history' \in Histories(srv.top) /\ ord' \in Ordered
           /\ row'.delta = row.delta /\ (row'.depth <=> row.depth) /\ row'.progress = row.progress
           /\ row'.status \in {"access_lost", row.status}
           /\ row.requested /\ ~row'.requested => row'.status = "access_lost"
           /\ history'.user = history.user /\ history'.probed = history.probed
           /\ history'.owed \in {0, history.owed}
           /\ AccessOrder(ord', history')
           /\ history'.access = "lost" => row'.status = "access_lost"
<1> DEFINE accepted == order > o.access
           p == [o EXCEPT !.access = Max({@, order}), !.last = Max({@, order})]
           known == Newest(history, o, order, "lost")
<1>1. o.access \in Nat /\ o.last \in Nat /\ o.witness \in Nat
  BY OrderFields
<1>2. row \in Rows /\ history \in Histories(srv.top) /\ waits \in Waits
      /\ recovery \in {"none", "due", "wait"} /\ srv.top \in Nat
  BY TypeParts, Numbers
<1>3. o.last = o.access /\ o.witness <= o.access /\ (o.access = o.witness => history.access = "member")
  BY DEF AccessOrder
<1>4. Max({o.access, order}) = (IF accepted THEN order ELSE o.access)
      /\ Max({o.last, order}) = (IF accepted THEN order ELSE o.access)
  BY <1>1, <1>3, LaterOf
<1>5. /\ p \in Ordered
      /\ p.access = (IF accepted THEN order ELSE o.access) /\ p.last = p.access
      /\ p.witness = o.witness
  <2> DEFINE x == Max({o.access, order})
             y == Max({o.last, order})
  <2>1. x \in Nat /\ y \in Nat /\ p = [o EXCEPT !.access = x, !.last = y]
    BY <1>1, <1>4
  <2> HIDE DEF x, y, p
  <2>2. p \in Ordered /\ p.access = x /\ p.last = y /\ p.witness = o.witness
    BY <2>1 DEF Ordered, Orders
  <2> QED BY <1>4, <2>2 DEF x, y
<1>6. /\ known \in Histories(srv.top)
      /\ known.user = history.user /\ known.probed = history.probed /\ known.owed = history.owed
      /\ known.access = IF accepted THEN "lost" ELSE history.access
  BY <1>1, <1>2, <1>3 DEF Newest, Histories
<1> HIDE DEF accepted, p, known
<1>7. /\ history' = [known EXCEPT !.owed = IF accepted THEN 0 ELSE @]
      /\ row' = IF accepted THEN [row EXCEPT !.status = "access_lost", !.requested = @ /\ keep] ELSE row
      /\ recovery' = IF accepted THEN "none" ELSE recovery
      /\ waits' = IF accepted THEN [lost |-> TRUE, group |-> waits.group \/ (probed /\ ~Lost)] ELSE waits
      /\ ord' = Rank(p)
  BY DEF LoseAccess, RecoveryAfterLoss, accepted, p, known
<1>8. /\ history' \in Histories(srv.top) /\ history'.user = history.user
      /\ history'.probed = history.probed /\ history'.owed \in {0, history.owed}
      /\ history'.access = known.access
  <2> DEFINE debt == IF accepted THEN 0 ELSE known.owed
  <2>1. debt \in 0..srv.top /\ debt \in {0, history.owed} /\ history' = [known EXCEPT !.owed = debt]
    BY <1>2, <1>6, <1>7 DEF Histories
  <2> HIDE DEF debt
  <2> QED BY <1>6, <2>1 DEF Histories
<1>9. /\ row' \in Rows /\ row'.delta = row.delta /\ (row'.depth <=> row.depth)
      /\ row'.progress = row.progress
      /\ row'.status = IF accepted THEN "access_lost" ELSE row.status
      /\ row.requested /\ ~row'.requested => accepted
  <2>1. CASE accepted
    <3> DEFINE requested == row.requested /\ keep
    <3>1. row' = [row EXCEPT !.status = "access_lost", !.requested = requested] /\ requested \in BOOLEAN
      BY <1>7, <2>1
    <3> HIDE DEF requested
    <3> QED BY <1>2, <2>1, <3>1 DEF Rows, Statuses
  <2>2. CASE ~accepted
    BY <1>2, <1>7, <2>2
  <2> QED BY <2>1, <2>2
<1>10. recovery' \in {"none", "due", "wait"}
  BY <1>2, <1>7
<1>11. waits' \in Waits
  <2> DEFINE group == waits.group \/ (probed /\ ~Lost)
  <2>1. group \in BOOLEAN /\ waits' = IF accepted THEN [lost |-> TRUE, group |-> group] ELSE waits
    BY <1>2, <1>7 DEF Waits, Lost
  <2> HIDE DEF group
  <2> QED BY <1>2, <2>1 DEF Waits
<1>12. AccessOrder(p, history')
  <2>1. CASE accepted
    <3>1. o.access < order
      BY <2>1 DEF accepted
    <3> QED BY <1>1, <1>3, <1>5, <2>1, <3>1 DEF AccessOrder
  <2>2. CASE ~accepted
    BY <1>3, <1>5, <1>6, <1>8, <2>2 DEF AccessOrder
  <2> QED BY <2>1, <2>2
<1>13. ord' \in Ordered /\ AccessOrder(ord', history')
  BY <1>5, <1>7, <1>12, AccessOrderKept
<1>14. history'.access = "lost" => row'.status = "access_lost"
  BY <1>6, <1>8, <1>9 DEF LossStands, Lost
<1> QED BY <1>8, <1>9, <1>10, <1>11, <1>13, <1>14

\* An observation that is newer than the row is the newest of all.
LEMMA MemberFacts ==
    ASSUME NEW top \in Nat, NEW o \in Ordered, NEW h \in Histories(top), AccessOrder(o, h),
           o.slice > o.access
    PROVE  /\ Max({o.last, o.slice}) = o.slice
           /\ Newest(h, o, o.slice, "member") \in Histories(top)
           /\ Newest(h, o, o.slice, "member") = [h EXCEPT !.access = "member"]
<1>1. o.access \in Nat /\ o.last \in Nat /\ o.slice \in Nat
  BY OrderFields
<1>2. o.last = o.access
  BY DEF AccessOrder
<1>3. Max({o.last, o.slice}) = o.slice
  BY <1>1, <1>2, LaterOf
<1>4. Newest(h, o, o.slice, "member") = [h EXCEPT !.access = "member"]
  BY <1>1, <1>2 DEF Newest
<1> QED BY <1>3, <1>4 DEF Histories

-----------------------------------------------------------------------------
(* The inductive invariant *)

\* A slice has its kind, its step and its answer.
SliceShape ==
    /\ active.kind = "none" <=> active.step = "none"
    /\ active.step \in {"more", "later", "finish"} => active.kind = "recovery"
    /\ active.step = "finish" => active.answer \in {"none", "page"}
    /\ active.kind = "group" => active.cursor = 0

Backwards == {"full", "group"}
Forwards == {"gap", "recovery"}
HoldsPage(kinds) == active.kind \in kinds /\ active.step = "commit" /\ active.answer = "page"

\* A page of the walk ends what was asked, and the forward cursor is not after it.
BackwardFits ==
    HoldsPage(Backwards) =>
        row.delta <= active.total /\ Closed(active.page, active.total, active.cursor)

\* A page of the gap begins where the forward cursor still is, is the last only at the
\* end of the history, and saw what its probe saw and what was asked for before it.
ForwardFits ==
    HoldsPage(Forwards) =>
        /\ Filled(active.page, active.total, active.cursor)
        /\ ~Continues => Ends(active.page, active.total, active.cursor)
        /\ history.probed <= active.total
        /\ ~active.moved => history.owed <= active.total
CursorKept ==
    active.kind \in Forwards /\ active.step \in {"reserve", "asked", "commit"} =>
        active.cursor = Max({row.delta, 0})

\* A recovery that fetched its last page has what the probe saw.
Restoring == active.step = "finish" /\ active.answer = "page" => history.probed <= row.delta

PagesFit == BackwardFits /\ ForwardFits /\ CursorKept /\ Restoring

\* The walk that is done went to the end, and what was walked has a forward cursor.
WalkKept ==
    /\ WalkHasNoGap
    /\ row.status = "synced" => row.depth
    /\ row.delta <= srv.top
    /\ row.depth \/ row.progress > 0 => row.delta # Null

AccessKept == AccessOrder(ord, history) /\ LossStands /\ UserDecides

HistoryInv == HistoryTypeOK /\ SliceShape /\ PagesFit /\ WalkKept /\ AccessKept

-----------------------------------------------------------------------------
(* What most steps leave alone *)

LEMMA SliceOver ==
    ASSUME active' = NoneActive
    PROVE  SliceShape' /\ PagesFit'
<1>1. active'.kind = "none" /\ active'.step = "none" /\ active'.answer = "none"
  BY DEF NoneActive
<1> QED BY <1>1 DEF SliceShape, PagesFit, BackwardFits, ForwardFits, CursorKept, Restoring,
                    HoldsPage, Backwards, Forwards

\* A slice that is not moved on is what it was while its row keeps the forward cursor.
LEMMA SliceKept ==
    ASSUME HistoryTypeOK, SliceShape, PagesFit, active' = active, row'.delta = row.delta,
           history'.probed = history.probed, history'.owed \in {0, history.owed}
    PROVE  SliceShape' /\ PagesFit'
<1>1. SliceShape'
  BY DEF SliceShape
<1>2. BackwardFits' /\ CursorKept' /\ Restoring'
  BY DEF PagesFit, BackwardFits, CursorKept, Restoring, HoldsPage
<1>3. ForwardFits'
  <2>1. Continues' <=> Continues
    BY DEF Continues
  <2>2. HoldsPage(Forwards)' <=> HoldsPage(Forwards)
    BY DEF HoldsPage, Forwards
  <2>3. active.total >= 0
    BY Numbers
  <2> HIDE DEF Continues
  <2> QED BY <2>1, <2>2, <2>3 DEF PagesFit, ForwardFits
<1> QED BY <1>1, <1>2, <1>3 DEF PagesFit

\* A walk that does not move leaves no gap.
LEMMA WalkRests ==
    ASSUME HistoryTypeOK, HistoryTypeOK', WalkKept, row'.delta = row.delta,
           row'.depth <=> row.depth, row'.progress \in {0, row.progress},
           row'.status = "synced" => row'.depth,
           stored \subseteq stored', srv.top <= srv'.top
    PROVE  WalkKept'
<1>1. row \in Rows /\ row' \in Rows
  BY TypeParts DEF HistoryTypeOK, Rows
<1>2. row.progress \in Nat /\ row.delta \in Int /\ srv.top \in Nat /\ srv'.top \in Nat
  BY Numbers DEF HistoryTypeOK
<1>3. Walked(row') \subseteq Walked(row)
  <2>1. Max({row'.delta, 0}) = Max({row.delta, 0})
    OBVIOUS
  <2> QED BY <1>2, <2>1 DEF Walked
<1>4. WalkHasNoGap'
  BY <1>3 DEF WalkHasNoGap, WalkKept
<1>5. row'.depth \/ row'.progress > 0 => row'.delta # Null
  BY <1>2 DEF WalkKept
<1>6. row'.delta <= srv'.top
  BY <1>2 DEF WalkKept
<1> QED BY <1>4, <1>5, <1>6 DEF WalkKept

\* The action properties, of one step.
RefreshLawful ==
    row.requested /\ ~row'.requested /\ row'.status = "synced" /\ intent' = "on"
        => 1..history.owed \subseteq stored'
EvidenceLawful == Lost /\ row'.status # "access_lost" => history'.access = "member"
Lawful == RefreshLawful /\ EvidenceLawful /\ WhollyRestored

\* A step that neither answers a request nor restores an access is lawful.
LEMMA QuietLawful ==
    ASSUME row.requested => row'.requested \/ row'.status # "synced" \/ intent' # "on",
           Lost => row'.status = "access_lost"
    PROVE  Lawful
BY DEF Lawful, RefreshLawful, EvidenceLawful, WhollyRestored, Lost

LEMMA InitOK ==
    ASSUME HistoryInit
    PROVE  HistoryInv
<1>0. MaxTop \in Nat /\ MaxTop >= 1 /\ MaxMoves \in Nat /\ MaxUser \in Nat /\ MaxRefusals \in Nat
  BY HistoryAssumption
<1>1. PICK s \in {"none", "own_only"} :
         row = [status |-> s, progress |-> 0, delta |-> Null, requested |-> FALSE,
                fresh |-> FALSE, checked |-> FALSE, depth |-> FALSE, topics |-> "old",
                total |-> FALSE]
  BY DEF HistoryInit
<1>2. row \in Rows
  BY <1>0, <1>1 DEF Rows, Statuses, Null
<1>3. ord \in Ordered
  BY DEF HistoryInit, Ordered, Orders
<1>4. active \in Actives(srv.top)
  <2>1. srv.top = 1 /\ active = NoneActive
    BY DEF HistoryInit
  <2> QED BY <2>1, EmptySlice
<1>5. srv \in Servers /\ intent \in {"unset", "on", "off"} /\ stored \subseteq 1..srv.top
  BY <1>0 DEF HistoryInit, Servers
<1>6. recovery \in {"none", "due", "wait"} /\ ext \in BOOLEAN /\ waits \in Waits
  BY DEF HistoryInit, Waits
<1>7. spare \in Spares /\ history \in Histories(srv.top)
  BY <1>0 DEF HistoryInit, Spares, Histories
<1>8. demand \in Demands
  BY <1>0 DEF HistoryInit, NoDemand, NoRevision, Revisions, Statuses, Demands
<1>9. HistoryTypeOK
  BY <1>2, <1>3, <1>4, <1>5, <1>6, <1>7, <1>8, TypeParts
<1>10. SliceShape /\ PagesFit
  <2>1. active.kind = "none" /\ active.step = "none" /\ active.answer = "none"
    BY DEF HistoryInit, NoneActive
  <2> QED BY <2>1 DEF SliceShape, PagesFit, BackwardFits, ForwardFits, CursorKept, Restoring,
                      HoldsPage, Backwards, Forwards
<1>11. WalkKept
  <2>1. row.delta = -1 /\ row.status # "synced" /\ ~row.depth /\ row.progress = 0 /\ srv.top = 1
    BY <1>1 DEF HistoryInit, Null
  <2>2. Walked(row) = {}
    BY <2>1 DEF Walked
  <2> QED BY <2>1, <2>2 DEF WalkKept, WalkHasNoGap
<1>12. AccessKept
  BY DEF HistoryInit, AccessKept, AccessOrder, LossStands, UserDecides
<1> QED BY <1>9, <1>10, <1>11, <1>12 DEF HistoryInv

LEMMA NextParts ==
    (/\ srv' \in Servers /\ row' \in Rows /\ intent' \in {"unset", "on", "off"}
     /\ stored' \subseteq 1..srv'.top /\ recovery' \in {"none", "due", "wait"}
     /\ ext' \in BOOLEAN /\ waits' \in Waits /\ ord' \in Ordered
     /\ active' \in Actives(srv'.top) /\ spare' \in Spares /\ history' \in Histories(srv'.top)
     /\ demand' \in Demands)
    => HistoryTypeOK'
BY DEF HistoryTypeOK, Demands, Servers, Rows, Ordered, Orders, Actives, Kinds, Steps, Spares,
       Histories, Waits

\* A step that leaves the walk, the access and the decision as they were.
LEMMA Rests ==
    ASSUME HistoryInv, HistoryTypeOK', AccessOrder(ord', history'), SliceShape', PagesFit',
           row'.delta = row.delta, row'.depth <=> row.depth, row'.progress = row.progress,
           row'.status = row.status, row'.requested <=> row.requested,
           stored \subseteq stored', srv.top <= srv'.top, intent' = intent, history' = history
    PROVE  HistoryInv' /\ Lawful
<1>1. WalkKept'
  <2>1. row'.progress \in {0, row.progress} /\ (row'.status = "synced" => row'.depth)
    BY DEF HistoryInv, WalkKept
  <2> QED BY <2>1, WalkRests DEF HistoryInv
<1>2. AccessKept'
  BY DEF HistoryInv, AccessKept, LossStands, UserDecides, Lost
<1>3. Lawful
  <2>1. (row.requested => row'.requested) /\ (Lost => row'.status = "access_lost")
    BY DEF Lost
  <2> QED BY <2>1, QuietLawful
<1> QED BY <1>1, <1>2, <1>3 DEF HistoryInv

\* One that leaves all of them as they were, but moves the slice.
LEMMA Moves ==
    ASSUME HistoryInv, demand' \in Demands, active' \in Actives(srv.top), ord' \in Ordered, AccessOrder(ord', history),
           waits' \in Waits, recovery' \in {"none", "due", "wait"}, spare' \in Spares,
           ext' \in BOOLEAN, SliceShape', PagesFit',
           UNCHANGED <<srv, row, intent, stored, history>>
    PROVE  HistoryInv' /\ Lawful
<1>1. HistoryTypeOK'
  BY TypeParts, NextParts DEF HistoryInv
<1>2. srv.top <= srv'.top
  BY Numbers DEF HistoryInv
<1> QED BY <1>1, <1>2, Rests

\* The state that the steps of a slice start from.
LEMMA Parts ==
    ASSUME HistoryInv
    PROVE  /\ srv \in Servers /\ row \in Rows /\ intent \in {"unset", "on", "off"}
           /\ stored \subseteq 1..srv.top /\ recovery \in {"none", "due", "wait"}
           /\ ext \in BOOLEAN /\ waits \in Waits /\ ord \in Ordered
           /\ active \in Actives(srv.top) /\ spare \in Spares /\ history \in Histories(srv.top)
           /\ srv.top \in Nat /\ AccessOrder(ord, history) /\ NoneActive \in Actives(srv.top)
BY TypeParts, Numbers, EmptySlice DEF HistoryInv, AccessKept

\* A slice begins.
LEMMA Begins ==
    ASSUME NEW work \in Kinds, NEW at \in Steps, NEW from, from \in 0..MaxTop, srv.top \in Nat,
           active' = [NoneActive EXCEPT !.kind = work, !.cursor = from, !.step = at]
    PROVE  /\ active' \in Actives(srv.top)
           /\ active'.kind = work /\ active'.step = at /\ active'.cursor = from
           /\ active'.answer = "none"
<1>1. active' = [kind |-> work, step |-> at, cursor |-> from, moved |-> FALSE,
                 answer |-> "none", page |-> {}, complete |-> FALSE, total |-> 0]
  BY DEF NoneActive
<1>2. 0 \in 0..srv.top /\ {} \in SUBSET (1..srv.top) /\ FALSE \in BOOLEAN
      /\ "none" \in {"none", "page", "lost", "failed"}
  OBVIOUS
<1>3. [kind |-> work, step |-> at, cursor |-> from, moved |-> FALSE,
       answer |-> "none", page |-> {}, complete |-> FALSE, total |-> 0] \in Actives(srv.top)
  BY <1>2 DEF Actives
<1>4. active' \in Actives(srv.top)
  BY <1>1, <1>3
<1>5. /\ active'.kind = work /\ active'.step = at /\ active'.cursor = from
      /\ active'.answer = "none"
  BY DEF NoneActive
<1> QED BY <1>4, <1>5

LEMMA SliceBegun ==
    ASSUME active'.kind # "none", active'.step \in {"read", "reserve"}, active'.answer = "none",
           active'.kind = "group" => active'.cursor = 0,
           active'.step = "read" \/ active'.kind \notin Forwards \/ active'.cursor = Max({row.delta, 0}),
           row' = row
    PROVE  SliceShape' /\ PagesFit'
BY DEF SliceShape, PagesFit, BackwardFits, ForwardFits, CursorKept, Restoring, HoldsPage

LEMMA BeginFullOK ==
    ASSUME HistoryInv, demand' \in Demands, BeginFull
    PROVE  HistoryInv' /\ Lawful
<1>1. /\ row \in Rows /\ ord \in Ordered /\ srv.top \in Nat /\ AccessOrder(ord, history)
      /\ waits \in Waits /\ recovery \in {"none", "due", "wait"} /\ spare \in Spares /\ ext \in BOOLEAN
  BY Parts
<1>2. row.progress \in 0..MaxTop
  BY <1>1, HistoryAssumption DEF Rows
<1>3. /\ active' \in Actives(srv.top)
      /\ active'.kind = "full" /\ active'.step = "reserve" /\ active'.answer = "none"
      /\ active'.cursor = row.progress
  <2>1. "full" \in Kinds /\ "reserve" \in Steps
    BY DEF Kinds, Steps
  <2>2. active' = [NoneActive EXCEPT !.kind = "full", !.cursor = row.progress, !.step = "reserve"]
    BY DEF BeginFull, Begin
  <2> QED BY <1>1, <1>2, <2>1, <2>2, Begins
<1>4. ord' \in Ordered /\ AccessOrder(ord', history)
  BY <1>1 DEF BeginFull
<1>5. UNCHANGED <<srv, row, intent, stored, recovery, waits, ext, spare, history>>
  BY DEF BeginFull, Begin
<1>6. SliceShape' /\ PagesFit'
  BY <1>3, <1>5, SliceBegun DEF Forwards
<1> QED BY <1>1, <1>3, <1>4, <1>5, <1>6, Moves

LEMMA BeginGroupOK ==
    ASSUME HistoryInv, demand' \in Demands, BeginGroup
    PROVE  HistoryInv' /\ Lawful
<1>1. /\ row \in Rows /\ ord \in Ordered /\ srv.top \in Nat /\ AccessOrder(ord, history)
      /\ waits \in Waits /\ recovery \in {"none", "due", "wait"} /\ spare \in Spares /\ ext \in BOOLEAN
  BY Parts
<1>2. 0 \in 0..MaxTop
  BY <1>1, HistoryAssumption DEF Rows
<1>3. /\ active' \in Actives(srv.top)
      /\ active'.kind = "group" /\ active'.step = "reserve" /\ active'.answer = "none"
      /\ active'.cursor = 0
  <2>1. "group" \in Kinds /\ "reserve" \in Steps
    BY DEF Kinds, Steps
  <2>2. active' = [NoneActive EXCEPT !.kind = "group", !.cursor = 0, !.step = "reserve"]
    BY DEF BeginGroup, Begin
  <2> QED BY <1>1, <1>2, <2>1, <2>2, Begins
<1>4. ord' \in Ordered /\ AccessOrder(ord', history)
  BY <1>1 DEF BeginGroup
<1>5. UNCHANGED <<srv, row, intent, stored, recovery, waits, ext, spare, history>>
  BY DEF BeginGroup, Begin
<1>6. SliceShape' /\ PagesFit'
  BY <1>3, <1>5, SliceBegun DEF Forwards
<1> QED BY <1>1, <1>3, <1>4, <1>5, <1>6, Moves

LEMMA BeginTotalOK ==
    ASSUME HistoryInv, demand' \in Demands, BeginTotal
    PROVE  HistoryInv' /\ Lawful
<1>1. /\ row \in Rows /\ ord \in Ordered /\ srv.top \in Nat /\ AccessOrder(ord, history)
      /\ waits \in Waits /\ recovery \in {"none", "due", "wait"} /\ spare \in Spares /\ ext \in BOOLEAN
  BY Parts
<1>2. 0 \in 0..MaxTop
  BY <1>1, HistoryAssumption DEF Rows
<1>3. /\ active' \in Actives(srv.top)
      /\ active'.kind = "total" /\ active'.step = "reserve" /\ active'.answer = "none"
      /\ active'.cursor = 0
  <2>1. "total" \in Kinds /\ "reserve" \in Steps
    BY DEF Kinds, Steps
  <2>2. active' = [NoneActive EXCEPT !.kind = "total", !.cursor = 0, !.step = "reserve"]
    BY DEF BeginTotal, Begin
  <2> QED BY <1>1, <1>2, <2>1, <2>2, Begins
<1>4. ord' \in Ordered /\ AccessOrder(ord', history)
  BY <1>1 DEF BeginTotal
<1>5. UNCHANGED <<srv, row, intent, stored, recovery, waits, ext, spare, history>>
  BY DEF BeginTotal, Begin
<1>6. SliceShape' /\ PagesFit'
  BY <1>3, <1>5, SliceBegun DEF Forwards
<1> QED BY <1>1, <1>3, <1>4, <1>5, <1>6, Moves

LEMMA BeginGapOK ==
    ASSUME HistoryInv, demand' \in Demands, BeginGap
    PROVE  HistoryInv' /\ Lawful
<1>1. /\ row \in Rows /\ ord \in Ordered /\ srv.top \in Nat /\ AccessOrder(ord, history)
      /\ waits \in Waits /\ recovery \in {"none", "due", "wait"} /\ spare \in Spares /\ ext \in BOOLEAN
  BY Parts
<1>2. 0 \in 0..MaxTop
  BY <1>1, HistoryAssumption DEF Rows
<1>3. /\ active' \in Actives(srv.top)
      /\ active'.kind = "gap" /\ active'.step = "read" /\ active'.answer = "none"
      /\ active'.cursor = 0
  <2>1. "gap" \in Kinds /\ "read" \in Steps
    BY DEF Kinds, Steps
  <2>2. active' = [NoneActive EXCEPT !.kind = "gap", !.cursor = 0, !.step = "read"]
    BY DEF BeginGap, Begin
  <2> QED BY <1>1, <1>2, <2>1, <2>2, Begins
<1>4. ord' \in Ordered /\ AccessOrder(ord', history)
  BY <1>1 DEF BeginGap
<1>5. UNCHANGED <<srv, row, intent, stored, recovery, waits, ext, spare, history>>
  BY DEF BeginGap, Begin
<1>6. SliceShape' /\ PagesFit'
  BY <1>3, <1>5, SliceBegun DEF Forwards
<1> QED BY <1>1, <1>3, <1>4, <1>5, <1>6, Moves

LEMMA BeginProbeOK ==
    ASSUME HistoryInv, demand' \in Demands, BeginProbe
    PROVE  HistoryInv' /\ Lawful
<1>1. /\ row \in Rows /\ ord \in Ordered /\ srv.top \in Nat /\ AccessOrder(ord, history)
      /\ waits \in Waits /\ recovery \in {"none", "due", "wait"} /\ spare \in Spares /\ ext \in BOOLEAN
  BY Parts
<1>2. 0 \in 0..MaxTop
  BY <1>1, HistoryAssumption DEF Rows
<1>3. /\ active' \in Actives(srv.top)
      /\ active'.kind = "probe" /\ active'.step = "reserve" /\ active'.answer = "none"
      /\ active'.cursor = 0
  <2>1. "probe" \in Kinds /\ "reserve" \in Steps
    BY DEF Kinds, Steps
  <2>2. active' = [NoneActive EXCEPT !.kind = "probe", !.cursor = 0, !.step = "reserve"]
    BY DEF BeginProbe, Begin
  <2> QED BY <1>1, <1>2, <2>1, <2>2, Begins
<1>4. ord' \in Ordered /\ AccessOrder(ord', history)
  BY <1>1, OrderFields DEF BeginProbe, Ordered, Orders, AccessOrder
<1>5. UNCHANGED <<srv, row, intent, stored, recovery, waits, ext, spare, history>>
  BY DEF BeginProbe, Begin
<1>6. SliceShape' /\ PagesFit'
  BY <1>3, <1>5, SliceBegun DEF Forwards
<1> QED BY <1>1, <1>3, <1>4, <1>5, <1>6, Moves

LEMMA BeginRecoveryOK ==
    ASSUME HistoryInv, demand' \in Demands, BeginRecovery
    PROVE  HistoryInv' /\ Lawful
<1>1. /\ row \in Rows /\ ord \in Ordered /\ srv.top \in Nat /\ AccessOrder(ord, history)
      /\ waits \in Waits /\ recovery \in {"none", "due", "wait"} /\ spare \in Spares /\ ext \in BOOLEAN
  BY Parts
<1> DEFINE cursor == Max({row.delta, 0})
           step == IF Enabled THEN "reserve" ELSE "finish"
<1>2. cursor \in 0..MaxTop
  BY <1>1, ForwardStart
<1>3. /\ active' \in Actives(srv.top)
      /\ active'.kind = "recovery" /\ active'.step = step /\ active'.answer = "none"
      /\ active'.cursor = cursor
  <2>1. "recovery" \in Kinds /\ step \in Steps
    BY DEF Kinds, Steps
  <2>2. active' = [NoneActive EXCEPT !.kind = "recovery", !.cursor = cursor, !.step = step]
    BY DEF BeginRecovery
  <2> HIDE DEF cursor, step
  <2> QED BY <1>1, <1>2, <2>1, <2>2, Begins
<1>4. ord' \in Ordered /\ AccessOrder(ord', history)
  BY <1>1, OrderFields DEF BeginRecovery, Ordered, Orders, AccessOrder
<1>5. UNCHANGED <<srv, row, intent, stored, recovery, waits, ext, spare, history>>
  BY DEF BeginRecovery
<1>6. SliceShape' /\ PagesFit'
  <2>1. CASE step = "reserve"
    BY <1>3, <1>5, <2>1, SliceBegun DEF Forwards
  <2>2. CASE step = "finish"
    BY <1>3, <2>2 DEF SliceShape, PagesFit, BackwardFits, ForwardFits, CursorKept, Restoring, HoldsPage
  <2> QED BY <2>1, <2>2
<1> QED BY <1>1, <1>3, <1>4, <1>5, <1>6, Moves

-----------------------------------------------------------------------------
(* The user, the updates and the other observers *)

\* A new generation only marks the slice.
LEMMA MovedTyped ==
    ASSUME NEW top \in Nat, NEW s \in Actives(top), NEW yes \in BOOLEAN
    PROVE  /\ Moved(s, yes) \in Actives(top)
           /\ Moved(s, yes).kind = s.kind /\ Moved(s, yes).step = s.step
           /\ Moved(s, yes).cursor = s.cursor /\ Moved(s, yes).answer = s.answer
           /\ Moved(s, yes).page = s.page /\ Moved(s, yes).total = s.total
           /\ Moved(s, yes).complete <=> s.complete
           /\ s.step = "commit" => (Moved(s, yes).moved <=> s.moved \/ yes)
<1> DEFINE moved == s.moved \/ yes
<1>1. CASE s.step \in {"none", "read"}
  BY <1>1 DEF Moved
<1>2. CASE s.step \notin {"none", "read"}
  <2>1. Moved(s, yes) = [s EXCEPT !.moved = moved] /\ moved \in BOOLEAN
    BY <1>2 DEF Moved
  <2> HIDE DEF moved
  <2>2. /\ Moved(s, yes) \in Actives(top)
        /\ Moved(s, yes).kind = s.kind /\ Moved(s, yes).step = s.step
        /\ Moved(s, yes).cursor = s.cursor /\ Moved(s, yes).answer = s.answer
        /\ Moved(s, yes).page = s.page /\ Moved(s, yes).total = s.total
        /\ Moved(s, yes).complete <=> s.complete
        /\ Moved(s, yes).moved <=> moved
    BY <2>1 DEF Actives
  <2> QED BY <2>2 DEF moved
<1> QED BY <1>1, <1>2

LEMMA EnableHistoryOK ==
    ASSUME HistoryInv, demand' \in Demands, EnableHistory
    PROVE  HistoryInv' /\ Lawful
<1> DEFINE yes == Refreshes(row)
           debt == IF yes THEN srv.top ELSE history.owed
<1>1. /\ srv \in Servers /\ row \in Rows /\ stored \subseteq 1..srv.top
      /\ recovery \in {"none", "due", "wait"} /\ ext \in BOOLEAN /\ waits \in Waits
      /\ ord \in Ordered /\ active \in Actives(srv.top) /\ spare \in Spares
      /\ history \in Histories(srv.top) /\ srv.top \in Nat /\ AccessOrder(ord, history)
  BY Parts
<1>2. /\ row' = EnabledRow(row) /\ active' = Moved(active, yes) /\ intent' = "on"
      /\ history' = [history EXCEPT !.user = "on", !.owed = debt]
      /\ spare' = [spare EXCEPT !.user = @ - 1] /\ spare.user > 0
      /\ UNCHANGED <<srv, stored, recovery, waits, ord, ext>>
  BY DEF EnableHistory
<1>3. /\ row' \in Rows
      /\ row'.delta = row.delta /\ row'.depth = row.depth
      /\ row'.progress \in {0, row.progress}
      /\ row'.status # "access_lost" <=> row.status # "access_lost"
      /\ row'.status = "synced" => row.status = "synced"
      /\ row.requested => row'.requested
  BY <1>1, <1>2, EnabledTyped
<1>4. /\ yes \in BOOLEAN
      /\ debt \in 0..srv.top /\ (~yes => debt = history.owed)
  BY <1>1 DEF Refreshes, Histories
<1>5. /\ active' \in Actives(srv.top)
      /\ active'.kind = active.kind /\ active'.step = active.step
      /\ active'.cursor = active.cursor /\ active'.answer = active.answer
      /\ active'.page = active.page /\ active'.total = active.total
      /\ active'.complete <=> active.complete
      /\ active.step = "commit" => (active'.moved <=> active.moved \/ yes)
  <2> HIDE DEF yes
  <2> QED BY <1>1, <1>2, <1>4, MovedTyped
<1> HIDE DEF yes, debt
<1>6. /\ history' \in Histories(srv.top) /\ history'.user = "on" /\ history'.owed = debt
      /\ history'.access = history.access /\ history'.probed = history.probed
  BY <1>1, <1>2, <1>4 DEF Histories
<1>7. spare' \in Spares
  <2>1. spare.user \in Nat /\ spare.user <= MaxUser
    BY <1>1, HistoryAssumption DEF Spares
  <2>2. spare.user - 1 \in 0..MaxUser
    BY <1>2, <2>1, HistoryAssumption
  <2> QED BY <1>1, <1>2, <2>2 DEF Spares
<1>8. HistoryTypeOK'
  BY <1>1, <1>2, <1>3, <1>5, <1>6, <1>7, NextParts
<1>9. SliceShape'
  BY <1>5 DEF HistoryInv, SliceShape
<1>10. BackwardFits' /\ CursorKept' /\ Restoring'
  BY <1>3, <1>5, <1>6 DEF HistoryInv, PagesFit, BackwardFits, CursorKept, Restoring, HoldsPage
<1>11. ForwardFits'
  <2>1. Continues' <=> Continues
    BY <1>5 DEF Continues
  <2>2. HoldsPage(Forwards)' <=> HoldsPage(Forwards)
    BY <1>5 DEF HoldsPage, Forwards
  <2>3. HoldsPage(Forwards) /\ ~active'.moved => ~active.moved /\ debt = history.owed
    BY <1>4, <1>5 DEF HoldsPage
  <2> HIDE DEF Continues
  <2> QED BY <1>5, <1>6, <2>1, <2>2, <2>3 DEF HistoryInv, PagesFit, ForwardFits
<1>12. WalkKept'
  <2>1. row'.status = "synced" => row'.depth
    BY <1>3 DEF HistoryInv, WalkKept
  <2> QED BY <1>1, <1>2, <1>3, <1>8, <2>1, WalkRests DEF HistoryInv
<1>13. AccessKept'
  <2>1. AccessOrder(ord, history)'
    BY <1>1, <1>2, <1>6 DEF AccessOrder
  <2> QED BY <1>2, <1>3, <1>6, <2>1 DEF HistoryInv, AccessKept, LossStands, UserDecides, Lost
<1>14. Lawful
  BY <1>3, QuietLawful DEF Lost
<1> QED BY <1>8, <1>9, <1>10, <1>11, <1>12, <1>13, <1>14 DEF HistoryInv, PagesFit

LEMMA DisableHistoryOK ==
    ASSUME HistoryInv, demand' \in Demands, DisableHistory
    PROVE  HistoryInv' /\ Lawful
<1>1. /\ srv \in Servers /\ row \in Rows /\ stored \subseteq 1..srv.top
      /\ recovery \in {"none", "due", "wait"} /\ ext \in BOOLEAN /\ waits \in Waits
      /\ ord \in Ordered /\ active \in Actives(srv.top) /\ spare \in Spares
      /\ history \in Histories(srv.top) /\ srv.top \in Nat /\ AccessOrder(ord, history)
  BY Parts
<1>2. /\ row' = [row EXCEPT !.status = IF @ = "syncing" THEN "not_synced" ELSE @,
                            !.requested = FALSE]
      /\ history' = [history EXCEPT !.user = "off", !.owed = 0] /\ intent' = "off"
      /\ spare' = [spare EXCEPT !.user = @ - 1] /\ spare.user > 0
      /\ UNCHANGED <<srv, stored, recovery, waits, ord, active, ext>>
  BY DEF DisableHistory
<1>3. /\ row' \in Rows
      /\ row'.delta = row.delta /\ row'.depth = row.depth
      /\ row'.progress = row.progress
      /\ row'.status # "access_lost" <=> row.status # "access_lost"
      /\ row'.status = "synced" => row.status = "synced"
  <2> DEFINE status == IF row.status = "syncing" THEN "not_synced" ELSE row.status
  <2>1. row' = [row EXCEPT !.status = status, !.requested = FALSE]
    BY <1>2
  <2>2. /\ status \in Statuses /\ (status # "access_lost" <=> row.status # "access_lost")
        /\ status = "synced" => row.status = "synced"
    BY <1>1 DEF Rows, Statuses
  <2> HIDE DEF status
  <2> QED BY <1>1, <2>1, <2>2 DEF Rows
<1>4. /\ history' \in Histories(srv.top) /\ history'.user = "off" /\ history'.owed = 0
      /\ history'.access = history.access /\ history'.probed = history.probed
  <2>1. 0 \in 0..srv.top
    BY <1>1
  <2> QED BY <1>1, <1>2, <2>1 DEF Histories
<1>5. spare' \in Spares
  <2>1. spare.user \in Nat /\ spare.user <= MaxUser
    BY <1>1, HistoryAssumption DEF Spares
  <2>2. spare.user - 1 \in 0..MaxUser
    BY <1>2, <2>1, HistoryAssumption
  <2> QED BY <1>1, <1>2, <2>2 DEF Spares
<1>6. HistoryTypeOK'
  BY <1>1, <1>2, <1>3, <1>4, <1>5, NextParts
<1>7. SliceShape' /\ PagesFit'
  BY <1>2, <1>3, <1>4, SliceKept DEF HistoryInv
<1>8. WalkKept'
  <2>1. row'.status = "synced" => row'.depth
    BY <1>3 DEF HistoryInv, WalkKept
  <2> QED BY <1>1, <1>2, <1>3, <1>6, <2>1, WalkRests DEF HistoryInv
<1>9. AccessKept'
  <2>1. AccessOrder(ord, history)'
    BY <1>1, <1>2, <1>4 DEF AccessOrder
  <2> QED BY <1>2, <1>3, <1>4, <2>1 DEF HistoryInv, AccessKept, LossStands, UserDecides, Lost
<1>10. Lawful
  BY <1>2, <1>3, QuietLawful DEF Lost
<1> QED BY <1>6, <1>7, <1>8, <1>9, <1>10 DEF HistoryInv

LEMMA AutoEnrollDmOK ==
    ASSUME HistoryInv, demand' \in Demands, AutoEnrollDm
    PROVE  HistoryInv' /\ Lawful
<1>1. /\ srv \in Servers /\ row \in Rows /\ stored \subseteq 1..srv.top
      /\ recovery \in {"none", "due", "wait"} /\ ext \in BOOLEAN /\ waits \in Waits
      /\ ord \in Ordered /\ active \in Actives(srv.top) /\ spare \in Spares
      /\ history \in Histories(srv.top) /\ srv.top \in Nat /\ AccessOrder(ord, history)
  BY Parts
<1> DEFINE r == EnabledRow(row)
<1>2. /\ row' = IF r.status = "not_synced" THEN [r EXCEPT !.status = "syncing"] ELSE r
      /\ intent = "unset" /\ intent' = "on"
      /\ UNCHANGED <<srv, stored, recovery, waits, ord, active, ext, spare, history>>
  BY DEF AutoEnrollDm, Undecided
<1>3. /\ r \in Rows
      /\ r.delta = row.delta /\ r.depth = row.depth
      /\ r.progress \in {0, row.progress}
      /\ r.status # "access_lost" <=> row.status # "access_lost"
      /\ r.status = "synced" => row.status = "synced"
      /\ row.requested => r.requested
  BY <1>1, EnabledTyped
<1> HIDE DEF r
<1>4. /\ row' \in Rows
      /\ row'.delta = row.delta /\ row'.depth = row.depth
      /\ row'.progress \in {0, row.progress}
      /\ row'.status # "access_lost" <=> row.status # "access_lost"
      /\ row'.status = "synced" => row.status = "synced"
      /\ row.requested => row'.requested
  <2>1. CASE r.status = "not_synced"
    BY <1>2, <1>3, <2>1 DEF Rows, Statuses
  <2>2. CASE r.status # "not_synced"
    BY <1>2, <1>3, <2>2
  <2> QED BY <2>1, <2>2
<1>6. HistoryTypeOK'
  BY <1>1, <1>2, <1>4, NextParts
<1>7. SliceShape' /\ PagesFit'
  BY <1>2, <1>4, SliceKept DEF HistoryInv
<1>8. WalkKept'
  <2>1. row'.status = "synced" => row'.depth
    BY <1>4 DEF HistoryInv, WalkKept
  <2> QED BY <1>1, <1>2, <1>4, <1>6, <2>1, WalkRests DEF HistoryInv
<1>9. AccessKept'
  BY <1>2, <1>4 DEF HistoryInv, AccessKept, AccessOrder, LossStands, UserDecides, Lost
<1>10. Lawful
  BY <1>4, QuietLawful DEF Lost
<1> QED BY <1>6, <1>7, <1>8, <1>9, <1>10 DEF HistoryInv

\* Whoever commits a loss.
LEMMA LossOK ==
    ASSUME HistoryInv, demand' \in Demands, NEW o \in Ordered, NEW order \in Nat,
           NEW keep \in BOOLEAN, NEW probed \in BOOLEAN,
           AccessOrder(o, history), LoseAccess(o, order, keep, probed),
           srv' \in Servers, srv'.top = srv.top, intent' = intent, stored' = stored,
           spare' = spare, ext' \in BOOLEAN, active' \in {active, NoneActive}
    PROVE  HistoryInv' /\ Lawful
<1>1. /\ srv \in Servers /\ row \in Rows /\ intent \in {"unset", "on", "off"}
      /\ stored \subseteq 1..srv.top /\ active \in Actives(srv.top) /\ spare \in Spares
      /\ history \in Histories(srv.top) /\ srv.top \in Nat /\ NoneActive \in Actives(srv.top)
  BY Parts
<1>2. /\ row' \in Rows /\ recovery' \in {"none", "due", "wait"} /\ waits' \in Waits
      /\ history' \in Histories(srv.top) /\ ord' \in Ordered
      /\ row'.delta = row.delta /\ (row'.depth <=> row.depth) /\ row'.progress = row.progress
      /\ row'.status \in {"access_lost", row.status}
      /\ row.requested /\ ~row'.requested => row'.status = "access_lost"
      /\ history'.user = history.user /\ history'.probed = history.probed
      /\ history'.owed \in {0, history.owed}
      /\ AccessOrder(ord', history')
      /\ history'.access = "lost" => row'.status = "access_lost"
  BY LossFacts DEF HistoryInv, AccessKept
<1>3. HistoryTypeOK'
  BY <1>1, <1>2, NextParts
<1>4. SliceShape' /\ PagesFit'
  <2>1. CASE active' = active
    BY <1>2, <2>1, SliceKept DEF HistoryInv
  <2>2. CASE active' = NoneActive
    BY <2>2, SliceOver
  <2> QED BY <2>1, <2>2
<1>5. WalkKept'
  <2>1. row'.status = "synced" => row'.depth
    BY <1>2 DEF HistoryInv, WalkKept
  <2>2. row'.progress \in {0, row.progress} /\ stored \subseteq stored' /\ srv.top <= srv'.top
    BY <1>1, <1>2
  <2> QED BY <1>2, <1>3, <2>1, <2>2, WalkRests DEF HistoryInv
<1>6. AccessKept'
  <2>1. AccessOrder(ord, history)'
    BY <1>2 DEF AccessOrder
  <2> QED BY <1>2, <2>1 DEF HistoryInv, AccessKept, LossStands, UserDecides, Lost
<1>7. Lawful
  <2>1. row.requested => row'.requested \/ row'.status # "synced" \/ intent' # "on"
    BY <1>2
  <2>2. Lost => row'.status = "access_lost"
    BY <1>2 DEF Lost
  <2> QED BY <2>1, <2>2, QuietLawful
<1> QED BY <1>3, <1>4, <1>5, <1>6, <1>7 DEF HistoryInv

LEMMA RealtimeLossOK ==
    ASSUME HistoryInv, demand' \in Demands, RealtimeLoss
    PROVE  HistoryInv' /\ Lawful
<1>1. /\ ord \in Ordered /\ AccessOrder(ord, history) /\ srv \in Servers /\ ext \in BOOLEAN
  BY Parts
<1>2. Fresh(ord) \in Nat
  BY <1>1, FreshIsNew
<1>3. srv' \in Servers /\ srv'.top = srv.top
  BY <1>1 DEF RealtimeLoss, Servers
<1>4. LoseAccess(ord, Fresh(ord), FALSE, FALSE)
      /\ UNCHANGED <<intent, stored, active, ext, spare>>
  BY DEF RealtimeLoss
<1> QED BY <1>1, <1>2, <1>3, <1>4, LossOK

LEMMA OtherObservesOK ==
    ASSUME HistoryInv, demand' \in Demands, OtherObserves
    PROVE  HistoryInv' /\ Lawful
<1>1. /\ row \in Rows /\ ord \in Ordered /\ srv.top \in Nat /\ AccessOrder(ord, history)
      /\ waits \in Waits /\ recovery \in {"none", "due", "wait"} /\ spare \in Spares
      /\ active \in Actives(srv.top)
  BY Parts
<1>2. Fresh(ord) \in Nat /\ "ext" \in Orders
  BY <1>1, FreshIsNew DEF Orders
<1> DEFINE fresh == Fresh(ord)
           p == [ord EXCEPT !["ext"] = fresh]
<1>3. ord' = Rank(p) /\ ext' = TRUE /\ spare' = [spare EXCEPT !.faults = @ - 1]
      /\ spare.faults > 0
      /\ UNCHANGED <<srv, row, intent, stored, recovery, waits, active, history>>
  BY DEF OtherObserves
<1> HIDE DEF fresh
<1>4. p \in Ordered /\ p.access = ord.access /\ p.witness = ord.witness /\ p.last = ord.last
  BY <1>1, <1>2 DEF Ordered, Orders, fresh
<1> HIDE DEF p
<1>5. ord' \in Ordered /\ AccessOrder(ord', history)
  BY <1>1, <1>3, <1>4, AccessOrderKept
<1>6. spare' \in Spares
  <2>1. spare.faults \in Nat /\ spare.faults <= MaxRefusals
    BY <1>1, HistoryAssumption DEF Spares
  <2>2. spare.faults - 1 \in 0..MaxRefusals
    BY <1>3, <2>1, HistoryAssumption
  <2> QED BY <1>1, <1>3, <2>2 DEF Spares
<1>7. SliceShape' /\ PagesFit'
  BY <1>3, SliceKept DEF HistoryInv
<1> QED BY <1>1, <1>3, <1>5, <1>6, <1>7, Moves

LEMMA OtherCommitsOK ==
    ASSUME HistoryInv, demand' \in Demands, OtherCommits
    PROVE  HistoryInv' /\ Lawful
<1>1. /\ ord \in Ordered /\ AccessOrder(ord, history) /\ srv \in Servers
  BY Parts
<1> DEFINE p == [ord EXCEPT !.ext = 0]
<1>2. ord.ext \in Nat
  BY <1>1, OrderFields
<1>3. p \in Ordered /\ p.access = ord.access /\ p.witness = ord.witness /\ p.last = ord.last
  BY <1>1 DEF Ordered, Orders
<1>4. LoseAccess(p, ord.ext, FALSE, FALSE) /\ ext' = FALSE
      /\ UNCHANGED <<srv, intent, stored, active, spare>>
  BY DEF OtherCommits
<1> HIDE DEF p
<1>5. AccessOrder(p, history)
  BY <1>1, <1>3 DEF AccessOrder
<1> QED BY <1>1, <1>2, <1>3, <1>4, <1>5, LossOK

LEMMA CommitLossOK ==
    ASSUME HistoryInv, demand' \in Demands, CommitLoss
    PROVE  HistoryInv' /\ Lawful
<1>1. /\ ord \in Ordered /\ AccessOrder(ord, history) /\ srv \in Servers /\ ext \in BOOLEAN
      /\ active \in Actives(srv.top)
  BY Parts
<1> DEFINE p == [ord EXCEPT !.slice = 0, !.selected = 0]
           keep == active.kind \in {"gap", "recovery"} /\ active.moved
           probed == active.kind = "group"
<1>2. ord.slice \in Nat
  BY <1>1, OrderFields
<1>3. p \in Ordered /\ p.access = ord.access /\ p.witness = ord.witness /\ p.last = ord.last
  BY <1>1 DEF Ordered, Orders
<1>4. LoseAccess(p, ord.slice, keep, probed) /\ active' = NoneActive
      /\ UNCHANGED <<srv, intent, stored, ext, spare>>
  BY DEF CommitLoss, EndActive
<1>5. keep \in BOOLEAN /\ probed \in BOOLEAN
  BY <1>1 DEF Actives
<1> HIDE DEF p, keep, probed
<1>6. AccessOrder(p, history)
  BY <1>1, <1>3 DEF AccessOrder
<1> QED BY <1>1, <1>2, <1>3, <1>4, <1>5, <1>6, LossOK

-----------------------------------------------------------------------------
(* The environment *)

LEMMA PostOK ==
    ASSUME HistoryInv, demand' \in Demands, Post
    PROVE  HistoryInv' /\ Lawful
<1>1. /\ srv \in Servers /\ row \in Rows /\ intent \in {"unset", "on", "off"}
      /\ stored \subseteq 1..srv.top /\ recovery \in {"none", "due", "wait"}
      /\ ext \in BOOLEAN /\ waits \in Waits /\ ord \in Ordered
      /\ active \in Actives(srv.top) /\ spare \in Spares /\ history \in Histories(srv.top)
      /\ srv.top \in Nat /\ AccessOrder(ord, history)
  BY Parts
<1> DEFINE top == srv.top + 1
<1>2. /\ srv.top < MaxTop /\ srv' = [srv EXCEPT !.top = top]
      /\ stored' \in {stored, stored \cup {top}}
      /\ UNCHANGED <<row, intent, recovery, waits, ord, active, ext, spare, history>>
  BY DEF Post
<1>3. top \in 1..MaxTop /\ srv.top <= top /\ top \in Nat /\ top \in 1..top
      /\ 1..srv.top \subseteq 1..top /\ 0..srv.top \subseteq 0..top
  BY <1>1, <1>2, HistoryAssumption
<1> HIDE DEF top
<1>4. srv' \in Servers /\ srv'.top = top
  BY <1>1, <1>2, <1>3 DEF Servers
<1>5. active' \in Actives(srv'.top)
  <2>1. SUBSET (1..srv.top) \subseteq SUBSET (1..top)
    BY <1>3
  <2> QED BY <1>1, <1>2, <1>3, <1>4, <2>1 DEF Actives
<1>6. history' \in Histories(srv'.top)
  BY <1>1, <1>2, <1>3, <1>4 DEF Histories
<1>7. stored' \subseteq 1..srv'.top /\ stored \subseteq stored'
  BY <1>1, <1>2, <1>3, <1>4
<1>8. HistoryTypeOK'
  BY <1>1, <1>2, <1>4, <1>5, <1>6, <1>7, NextParts
<1>9. SliceShape' /\ PagesFit'
  BY <1>2, SliceKept DEF HistoryInv
<1>10. AccessOrder(ord', history')
  BY <1>1, <1>2
<1> QED BY <1>2, <1>3, <1>4, <1>7, <1>8, <1>9, <1>10, Rests

LEMMA LeaveOK ==
    ASSUME HistoryInv, demand' \in Demands, Leave
    PROVE  HistoryInv' /\ Lawful
<1>1. /\ srv \in Servers /\ row \in Rows /\ intent \in {"unset", "on", "off"}
      /\ stored \subseteq 1..srv.top /\ recovery \in {"none", "due", "wait"}
      /\ ext \in BOOLEAN /\ waits \in Waits /\ ord \in Ordered
      /\ active \in Actives(srv.top) /\ spare \in Spares /\ history \in Histories(srv.top)
      /\ srv.top \in Nat /\ AccessOrder(ord, history)
  BY Parts
<1>2. /\ spare' = [spare EXCEPT !.moves = @ - 1] /\ spare.moves > 0
      /\ UNCHANGED <<row, intent, stored, recovery, waits, ord, active, ext, history>>
  BY DEF Leave
<1>3. srv' \in Servers /\ srv'.top = srv.top
  <2>1. PICK told \in {FALSE, ~Private} : srv' = [srv EXCEPT !.member = FALSE, !.removal = told]
    BY DEF Leave
  <2>2. told \in BOOLEAN
    BY <2>1, HistoryAssumption
  <2> QED BY <1>1, <2>1, <2>2 DEF Servers
<1>4. spare' \in Spares
  <2>1. spare.moves \in Nat /\ spare.moves <= MaxMoves
    BY <1>1, HistoryAssumption DEF Spares
  <2>2. spare.moves - 1 \in 0..MaxMoves
    BY <1>2, <2>1, HistoryAssumption
  <2> QED BY <1>1, <1>2, <2>2 DEF Spares
<1>5. HistoryTypeOK'
  BY <1>1, <1>2, <1>3, <1>4, NextParts
<1>6. SliceShape' /\ PagesFit'
  BY <1>2, SliceKept DEF HistoryInv
<1>7. AccessOrder(ord', history') /\ srv.top <= srv'.top /\ stored \subseteq stored'
  BY <1>1, <1>2, <1>3
<1> QED BY <1>2, <1>5, <1>6, <1>7, Rests

LEMMA RejoinOK ==
    ASSUME HistoryInv, demand' \in Demands, Rejoin
    PROVE  HistoryInv' /\ Lawful
<1>1. /\ srv \in Servers /\ row \in Rows /\ intent \in {"unset", "on", "off"}
      /\ stored \subseteq 1..srv.top /\ recovery \in {"none", "due", "wait"}
      /\ ext \in BOOLEAN /\ waits \in Waits /\ ord \in Ordered
      /\ active \in Actives(srv.top) /\ spare \in Spares /\ history \in Histories(srv.top)
      /\ srv.top \in Nat /\ AccessOrder(ord, history)
  BY Parts
<1>2. UNCHANGED <<row, intent, stored, recovery, waits, ord, active, ext, spare, history>>
  BY DEF Rejoin
<1>3. srv' \in Servers /\ srv'.top = srv.top
  BY <1>1 DEF Rejoin, Servers
<1>5. HistoryTypeOK'
  BY <1>1, <1>2, <1>3, NextParts
<1>6. SliceShape' /\ PagesFit'
  BY <1>2, SliceKept DEF HistoryInv
<1>7. AccessOrder(ord', history') /\ srv.top <= srv'.top /\ stored \subseteq stored'
  BY <1>1, <1>2, <1>3
<1> QED BY <1>2, <1>5, <1>6, <1>7, Rests

LEMMA DeadlinesPassOK ==
    ASSUME HistoryInv, demand' \in Demands, DeadlinesPass
    PROVE  HistoryInv' /\ Lawful
<1>1. /\ srv \in Servers /\ row \in Rows /\ intent \in {"unset", "on", "off"}
      /\ stored \subseteq 1..srv.top /\ recovery \in {"none", "due", "wait"}
      /\ ext \in BOOLEAN /\ waits \in Waits /\ ord \in Ordered
      /\ active \in Actives(srv.top) /\ spare \in Spares /\ history \in Histories(srv.top)
      /\ srv.top \in Nat /\ AccessOrder(ord, history)
  BY Parts
<1>2. /\ waits' = [lost |-> FALSE, group |-> FALSE]
      /\ recovery' = IF recovery = "wait" THEN "due" ELSE recovery
      /\ row' = [row EXCEPT !.fresh = FALSE]
      /\ UNCHANGED <<srv, intent, stored, ord, active, ext, spare, history>>
  BY DEF DeadlinesPass
<1>3. /\ row' \in Rows /\ row'.delta = row.delta /\ (row'.depth <=> row.depth)
      /\ row'.progress = row.progress /\ row'.status = row.status
      /\ row'.requested <=> row.requested
  BY <1>1, <1>2 DEF Rows
<1>4. waits' \in Waits /\ recovery' \in {"none", "due", "wait"}
  BY <1>1, <1>2 DEF Waits
<1>5. HistoryTypeOK'
  BY <1>1, <1>2, <1>3, <1>4, NextParts
<1>6. SliceShape' /\ PagesFit'
  BY <1>2, <1>3, SliceKept DEF HistoryInv
<1>7. AccessOrder(ord', history') /\ srv.top <= srv'.top /\ stored \subseteq stored'
  BY <1>1, <1>2, <1>3
<1> QED BY <1>2, <1>3, <1>5, <1>6, <1>7, Rests

LEMMA ProcessStopsOK ==
    ASSUME HistoryInv, demand' \in Demands, ProcessStops
    PROVE  HistoryInv' /\ Lawful
<1>1. /\ srv \in Servers /\ row \in Rows /\ intent \in {"unset", "on", "off"}
      /\ stored \subseteq 1..srv.top /\ recovery \in {"none", "due", "wait"}
      /\ waits \in Waits /\ ord \in Ordered /\ NoneActive \in Actives(srv.top)
      /\ spare \in Spares /\ history \in Histories(srv.top)
      /\ srv.top \in Nat /\ AccessOrder(ord, history)
  BY Parts
<1> DEFINE p == [ord EXCEPT !.ext = 0]
<1>2. /\ spare' = [spare EXCEPT !.faults = @ - 1] /\ spare.faults > 0
      /\ active' = NoneActive /\ ext' = FALSE /\ ord' = Forget(p)
      /\ row' \in {row, [row EXCEPT !.topics = "old"]}
      /\ UNCHANGED <<srv, intent, stored, recovery, waits, history>>
  BY DEF ProcessStops, EndActive
<1>3. /\ row' \in Rows /\ row'.delta = row.delta /\ (row'.depth <=> row.depth)
      /\ row'.progress = row.progress /\ row'.status = row.status
      /\ row'.requested <=> row.requested
  <2>1. CASE row' = row
    BY <1>1, <2>1
  <2>2. CASE row' = [row EXCEPT !.topics = "old"]
    BY <1>1, <2>2 DEF Rows
  <2> QED BY <1>2, <2>1, <2>2
<1>4. p \in Ordered /\ p.access = ord.access /\ p.witness = ord.witness /\ p.last = ord.last
  BY <1>1 DEF Ordered, Orders
<1> HIDE DEF p
<1>5. ord' \in Ordered /\ AccessOrder(ord', history')
  <2>1. AccessOrder(p, history)
    BY <1>1, <1>4 DEF AccessOrder
  <2> QED BY <1>2, <1>4, <2>1, ForgetKeeps
<1>6. spare' \in Spares
  <2>1. spare.faults \in Nat /\ spare.faults <= MaxRefusals
    BY <1>1, HistoryAssumption DEF Spares
  <2>2. spare.faults - 1 \in 0..MaxRefusals
    BY <1>2, <2>1, HistoryAssumption
  <2> QED BY <1>1, <1>2, <2>2 DEF Spares
<1>7. HistoryTypeOK'
  BY <1>1, <1>2, <1>3, <1>5, <1>6, NextParts
<1>8. SliceShape' /\ PagesFit'
  BY <1>2, SliceOver
<1>9. srv.top <= srv'.top /\ stored \subseteq stored'
  BY <1>1, <1>2
<1> QED BY <1>2, <1>3, <1>5, <1>7, <1>8, <1>9, Rests

-----------------------------------------------------------------------------
(* A slice goes on *)

\* A slice that was sent on without a page.
LEMMA SliceSent ==
    ASSUME SliceShape, PagesFit, active.step \in {"reserve", "asked"},
           active'.step \in {"asked", "commit"}, active'.kind = active.kind,
           active'.cursor = active.cursor, active'.step = "asked" \/ active'.answer # "page",
           row' = row
    PROVE  SliceShape' /\ PagesFit'
<1>1. SliceShape'
  BY DEF SliceShape
<1>2. CursorKept'
  BY DEF PagesFit, CursorKept
<1>3. BackwardFits' /\ ForwardFits' /\ Restoring'
  BY DEF BackwardFits, ForwardFits, Restoring, HoldsPage
<1> QED BY <1>1, <1>2, <1>3 DEF PagesFit

\* A slice of the recovery that only has its stamp before it.
LEMMA SliceStamps ==
    ASSUME SliceShape, active.kind = "recovery", active'.kind = "recovery",
           active'.step \in {"more", "later"}
    PROVE  SliceShape' /\ PagesFit'
BY DEF SliceShape, PagesFit, BackwardFits, ForwardFits, CursorKept, Restoring, HoldsPage

LEMMA ReadGapOK ==
    ASSUME HistoryInv, demand' \in Demands, ReadGap
    PROVE  HistoryInv' /\ Lawful
<1>1. /\ row \in Rows /\ ord \in Ordered /\ srv.top \in Nat /\ AccessOrder(ord, history)
      /\ waits \in Waits /\ recovery \in {"none", "due", "wait"} /\ spare \in Spares
      /\ ext \in BOOLEAN /\ active \in Actives(srv.top)
  BY Parts
<1> DEFINE cursor == Max({row.delta, 0})
<1>2. cursor \in 0..MaxTop
  BY <1>1, ForwardStart
<1>3. /\ active.kind = "gap" /\ active' = [active EXCEPT !.step = "reserve", !.cursor = cursor]
      /\ UNCHANGED <<srv, row, intent, stored, recovery, waits, ord, ext, spare, history>>
  BY DEF ReadGap, AtStep
<1> HIDE DEF cursor
<1>4. /\ active' \in Actives(srv.top) /\ active'.kind = "gap" /\ active'.step = "reserve"
      /\ active'.cursor = cursor
  BY <1>1, <1>2, <1>3 DEF Actives, Steps
<1>5. SliceShape'
  BY <1>4 DEF SliceShape
<1>6. PagesFit'
  BY <1>3, <1>4 DEF PagesFit, BackwardFits, ForwardFits, CursorKept, Restoring, HoldsPage, cursor
<1> QED BY <1>1, <1>3, <1>4, <1>5, <1>6, Moves

LEMMA DropSliceOK ==
    ASSUME HistoryInv, demand' \in Demands, DropSlice
    PROVE  HistoryInv' /\ Lawful
<1>1. /\ ord \in Ordered /\ srv.top \in Nat /\ AccessOrder(ord, history)
      /\ waits \in Waits /\ recovery \in {"none", "due", "wait"} /\ spare \in Spares
      /\ ext \in BOOLEAN /\ NoneActive \in Actives(srv.top)
  BY Parts
<1>2. /\ active' = NoneActive /\ ord' = Forget(ord)
      /\ UNCHANGED <<srv, row, intent, stored, recovery, waits, ext, spare, history>>
  BY DEF DropSlice, EndActive
<1>3. ord' \in Ordered /\ AccessOrder(ord', history)
  BY <1>1, <1>2, ForgetKeeps
<1>4. SliceShape' /\ PagesFit'
  BY <1>2, SliceOver
<1> QED BY <1>1, <1>2, <1>3, <1>4, Moves

LEMMA ReserveOK ==
    ASSUME HistoryInv, demand' \in Demands, Reserve
    PROVE  HistoryInv' /\ Lawful
<1>1. /\ row \in Rows /\ ord \in Ordered /\ srv.top \in Nat /\ AccessOrder(ord, history)
      /\ waits \in Waits /\ recovery \in {"none", "due", "wait"} /\ spare \in Spares
      /\ ext \in BOOLEAN /\ active \in Actives(srv.top)
  BY Parts
<1> DEFINE fresh == Fresh(ord)
           p == [ord EXCEPT !["slice"] = fresh]
<1>2. fresh \in Nat
  BY <1>1, FreshIsNew
<1>3. /\ ord' = Rank(p) /\ active.step = "reserve"
      /\ active' = [active EXCEPT !.step = "asked"]
      /\ UNCHANGED <<srv, row, intent, stored, recovery, waits, ext, spare, history>>
  BY DEF Reserve
<1> HIDE DEF fresh
<1>4. p \in Ordered /\ p.access = ord.access /\ p.witness = ord.witness /\ p.last = ord.last
  BY <1>1, <1>2 DEF Ordered, Orders
<1> HIDE DEF p
<1>5. ord' \in Ordered /\ AccessOrder(ord', history)
  BY <1>1, <1>3, <1>4, AccessOrderKept
<1>6. /\ active' \in Actives(srv.top) /\ active'.kind = active.kind /\ active'.step = "asked"
      /\ active'.cursor = active.cursor
  BY <1>1, <1>3 DEF Actives, Steps
<1>7. SliceShape' /\ PagesFit'
  BY <1>3, <1>6, SliceSent DEF HistoryInv
<1> QED BY <1>1, <1>3, <1>5, <1>6, <1>7, Moves

LEMMA AnsweredLostOK ==
    ASSUME HistoryInv, demand' \in Demands, AnsweredLost
    PROVE  HistoryInv' /\ Lawful
<1>1. /\ row \in Rows /\ ord \in Ordered /\ srv.top \in Nat /\ AccessOrder(ord, history)
      /\ waits \in Waits /\ recovery \in {"none", "due", "wait"} /\ spare \in Spares
      /\ ext \in BOOLEAN /\ active \in Actives(srv.top)
  BY Parts
<1>2. /\ active.step = "asked"
      /\ active' = [active EXCEPT !.step = "commit", !.answer = "lost"]
      /\ UNCHANGED <<srv, row, intent, stored, recovery, waits, ord, ext, spare, history>>
  BY DEF AnsweredLost
<1>3. /\ active' \in Actives(srv.top) /\ active'.kind = active.kind /\ active'.step = "commit"
      /\ active'.cursor = active.cursor /\ active'.answer = "lost"
  BY <1>1, <1>2 DEF Actives, Steps
<1>4. SliceShape' /\ PagesFit'
  BY <1>2, <1>3, SliceSent DEF HistoryInv
<1> QED BY <1>1, <1>2, <1>3, <1>4, Moves

LEMMA RefusedOK ==
    ASSUME HistoryInv, demand' \in Demands, Refused
    PROVE  HistoryInv' /\ Lawful
<1>1. /\ row \in Rows /\ ord \in Ordered /\ srv.top \in Nat /\ AccessOrder(ord, history)
      /\ waits \in Waits /\ recovery \in {"none", "due", "wait"} /\ spare \in Spares
      /\ ext \in BOOLEAN /\ active \in Actives(srv.top) /\ NoneActive \in Actives(srv.top)
  BY Parts
<1>2. /\ active.step = "asked" /\ spare.faults > 0 /\ spare' = [spare EXCEPT !.faults = @ - 1]
      /\ UNCHANGED <<srv, row, intent, stored, recovery, ext, history>>
  BY DEF Refused
<1>3. spare' \in Spares
  <2>1. spare.faults \in Nat /\ spare.faults <= MaxRefusals
    BY <1>1, HistoryAssumption DEF Spares
  <2>2. spare.faults - 1 \in 0..MaxRefusals
    BY <1>2, <2>1, HistoryAssumption
  <2> QED BY <1>1, <1>2, <2>2 DEF Spares
<1>4. CASE /\ active' = [active EXCEPT !.step = "commit", !.answer = "failed"]
           /\ UNCHANGED <<ord, waits>>
  <2>1. /\ active' \in Actives(srv.top) /\ active'.kind = active.kind /\ active'.step = "commit"
        /\ active'.cursor = active.cursor /\ active'.answer = "failed"
    BY <1>1, <1>4 DEF Actives, Steps
  <2>2. SliceShape' /\ PagesFit'
    BY <1>2, <2>1, SliceSent DEF HistoryInv
  <2> QED BY <1>1, <1>2, <1>3, <1>4, <2>1, <2>2, Moves
<1>5. CASE /\ waits' = [waits EXCEPT !.group = @ \/ active.kind = "group"]
           /\ EndActive /\ ord' = Forget(ord)
  <2>1. active' = NoneActive /\ ord' \in Ordered /\ AccessOrder(ord', history)
    BY <1>1, <1>5, ForgetKeeps DEF EndActive
  <2>2. waits' \in Waits
    <3> DEFINE group == waits.group \/ active.kind = "group"
    <3>1. group \in BOOLEAN /\ waits' = [waits EXCEPT !.group = group]
      BY <1>1, <1>5 DEF Waits
    <3> HIDE DEF group
    <3> QED BY <1>1, <3>1 DEF Waits
  <2>3. SliceShape' /\ PagesFit'
    BY <2>1, SliceOver
  <2> QED BY <1>1, <1>2, <1>3, <2>1, <2>2, <2>3, Moves
<1> QED BY <1>4, <1>5 DEF Refused

LEMMA AnsweredPageOK ==
    ASSUME HistoryInv, demand' \in Demands, AnsweredPage
    PROVE  HistoryInv' /\ Lawful
<1>1. /\ row \in Rows /\ ord \in Ordered /\ srv.top \in Nat /\ AccessOrder(ord, history)
      /\ waits \in Waits /\ recovery \in {"none", "due", "wait"} /\ spare \in Spares
      /\ ext \in BOOLEAN /\ active \in Actives(srv.top)
  BY Parts
<1>2. active.cursor \in Nat /\ history.owed <= srv.top /\ history.probed <= srv.top
  BY Numbers DEF HistoryInv
<1> DEFINE pages == CASE active.kind \in {"full", "group"} -> {Backward(active.cursor)}
                      [] active.kind \in {"gap", "recovery"} -> {Forward(active.cursor)}
                      [] OTHER -> {{}}
<1>3. PICK page \in pages : \E complete \in Completes(page) :
         active' = [active EXCEPT !.step = "commit", !.answer = "page", !.page = page,
                                  !.complete = complete, !.total = srv.top]
  BY DEF AnsweredPage
<1>4. PICK complete \in Completes(page) :
         active' = [active EXCEPT !.step = "commit", !.answer = "page", !.page = page,
                                  !.complete = complete, !.total = srv.top]
  BY <1>3
<1>5. /\ active.step = "asked"
      /\ UNCHANGED <<srv, row, intent, stored, recovery, waits, ord, ext, spare, history>>
  BY DEF AnsweredPage
<1>6. /\ active.kind \in {"full", "group"} => page = Backward(active.cursor)
      /\ active.kind \in {"gap", "recovery"} => page = Forward(active.cursor)
      /\ active.kind \notin {"full", "group", "gap", "recovery"} => page = {}
  BY <1>3
<1> HIDE DEF pages
<1>7. active.kind \in Backwards => Closed(page, srv.top, active.cursor)
  BY <1>1, <1>2, <1>6, BackwardIsClosed DEF Backwards
<1>8. active.kind \in Forwards =>
        /\ Filled(page, srv.top, active.cursor)
        /\ Cardinality(page) < HistoryPage => Ends(page, srv.top, active.cursor)
        /\ page = {} => Ends(page, srv.top, active.cursor)
  BY <1>1, <1>2, <1>6, ForwardIsFilled DEF Forwards
<1>9. page \in SUBSET (1..srv.top)
  <2>1. active.kind \in Backwards => page \subseteq 1..srv.top
    BY <1>7 DEF Closed
  <2>2. active.kind \in Forwards => page \subseteq 1..srv.top
    BY <1>8 DEF Filled
  <2> QED BY <1>6, <2>1, <2>2 DEF Backwards, Forwards
<1>10. complete \in BOOLEAN /\ (complete => page = {} \/ Cardinality(page) < HistoryPage)
  BY <1>4 DEF Completes
<1>11. /\ active' \in Actives(srv.top) /\ active'.kind = active.kind /\ active'.step = "commit"
       /\ active'.answer = "page" /\ active'.cursor = active.cursor /\ active'.page = page
       /\ active'.complete <=> complete
       /\ active'.total = srv.top
  <2>1. srv.top \in 0..srv.top
    BY <1>1
  <2> QED BY <1>1, <1>4, <1>9, <1>10, <2>1 DEF Actives, Steps
<1>12. SliceShape'
  BY <1>5, <1>11 DEF HistoryInv, SliceShape
<1>13. BackwardFits'
  <2>1. row.delta <= srv.top
    BY DEF HistoryInv, WalkKept
  <2> QED BY <1>5, <1>7, <1>11, <2>1 DEF BackwardFits, HoldsPage, Backwards
<1>14. ForwardFits'
  <2> SUFFICES ASSUME active.kind \in Forwards PROVE ForwardFits'
    BY <1>11 DEF ForwardFits, HoldsPage, Forwards
  <2>1. ~Continues' => complete
    BY <1>11 DEF Continues
  <2>2. ~Continues' => Ends(page, srv.top, active.cursor)
    BY <1>8, <1>10, <2>1
  <2> HIDE DEF Continues
  <2> QED BY <1>2, <1>5, <1>8, <1>11, <2>2 DEF ForwardFits
<1>15. CursorKept' /\ Restoring'
  BY <1>5, <1>11 DEF HistoryInv, PagesFit, CursorKept, Restoring
<1>16. ord' \in Ordered /\ AccessOrder(ord', history)
  BY <1>1, <1>5
<1>17. PagesFit'
  BY <1>13, <1>14, <1>15 DEF PagesFit
<1> QED BY <1>1, <1>5, <1>11, <1>12, <1>16, <1>17, Moves

-----------------------------------------------------------------------------
(* The commits *)

\* A page of the walk is committed to the row its slice may write.
LEMMA WalkOK ==
    ASSUME HistoryInv, demand' \in Demands, HoldsPage(Backwards), NEW start \in Rows,
           start.delta = row.delta, start.depth <=> row.depth,
           start.progress \in {0, row.progress}, start.requested <=> row.requested,
           start.status # "access_lost" <=> row.status # "access_lost",
           Walkable(start), row' = WalkedRow(start), stored' = stored \cup active.page,
           active' = NoneActive, ord' = Forget(ord), intent' \in {"unset", "on", "off"},
           UserDecides', UNCHANGED <<srv, recovery, waits, ext, spare, history>>
    PROVE  HistoryInv' /\ Lawful
<1>1. /\ srv \in Servers /\ row \in Rows /\ stored \subseteq 1..srv.top
      /\ recovery \in {"none", "due", "wait"} /\ ext \in BOOLEAN /\ waits \in Waits
      /\ ord \in Ordered /\ NoneActive \in Actives(srv.top) /\ spare \in Spares
      /\ history \in Histories(srv.top) /\ srv.top \in Nat /\ AccessOrder(ord, history)
  BY Parts
<1>2. /\ row.progress \in Nat /\ row.delta \in Int /\ active.cursor \in Nat
      /\ active.page \subseteq 1..srv.top /\ row.delta >= -1
  BY Numbers DEF HistoryInv
<1>3. start.progress = active.cursor /\ start.status \in {"not_synced", "syncing"}
  BY DEF Walkable
<1>4. row.delta <= active.total /\ Closed(active.page, active.total, active.cursor)
  BY DEF HistoryInv, PagesFit, BackwardFits
<1>5. /\ WalkHasNoGap /\ row.delta <= srv.top
      /\ row.depth \/ row.progress > 0 => row.delta # Null
  BY DEF HistoryInv, WalkKept
<1>6. Walked(start) \subseteq stored
  BY <1>2, <1>5 DEF Walked, WalkHasNoGap
<1>7. Walked(row') \subseteq stored'
  BY <1>3, <1>4, <1>5, <1>6, WalkKeeps DEF HistoryInv
<1>8. /\ row' \in Rows
      /\ row'.status = IF active.page = {} THEN "synced" ELSE "syncing"
      /\ row'.depth <=> start.depth \/ active.page = {}
      /\ row'.requested = start.requested
      /\ row'.progress = IF active.page = {} THEN start.progress ELSE Min(active.page)
      /\ row'.delta = IF active.cursor = 0 /\ start.delta = Null
                      THEN IF active.page = {} THEN 0 ELSE Max(active.page)
                      ELSE start.delta
  BY WalkTyped DEF HistoryInv
<1>9. active.page # {} => Max(active.page) \in active.page
  <2>1. active.page \subseteq -1..srv.top
    BY <1>1, <1>2
  <2> QED BY <1>1, <2>1, TopOf
<1>10. row'.delta <= srv.top
  BY <1>1, <1>2, <1>5, <1>8, <1>9
<1>11. row'.delta # Null
  <2>1. CASE row.delta = Null
    <3>1. row.progress = 0
      BY <1>2, <1>5, <2>1
    <3>2. active.cursor = 0
      BY <1>3, <3>1
    <3>3. active.page # {} => Max(active.page) \in Nat
      BY <1>2, <1>9
    <3> QED BY <1>8, <2>1, <3>2, <3>3 DEF Null
  <2>2. CASE row.delta # Null
    BY <1>8, <2>2
  <2> QED BY <2>1, <2>2
<1>12. ord' \in Ordered /\ AccessOrder(ord', history')
  BY <1>1, ForgetKeeps
<1>13. HistoryTypeOK'
  <2>1. stored' \subseteq 1..srv'.top
    BY <1>1, <1>2
  <2> QED BY <1>1, <1>8, <1>12, <2>1, NextParts
<1>14. WalkKept'
  <2>1. WalkHasNoGap'
    BY <1>7 DEF WalkHasNoGap
  <2> QED BY <1>8, <1>10, <1>11, <2>1 DEF WalkKept
<1>15. SliceShape' /\ PagesFit'
  BY SliceOver
<1>16. ~Lost
  BY <1>3 DEF Lost
<1>17. AccessKept'
  BY <1>12, <1>16 DEF HistoryInv, AccessKept, LossStands
<1>18. Lawful
  BY <1>8, <1>16, QuietLawful
<1> QED BY <1>13, <1>14, <1>15, <1>17, <1>18 DEF HistoryInv

LEMMA CommitFullOK ==
    ASSUME HistoryInv, demand' \in Demands, CommitFull
    PROVE  HistoryInv' /\ Lawful
<1>1. /\ row \in Rows /\ ord \in Ordered /\ srv.top \in Nat /\ AccessOrder(ord, history)
      /\ waits \in Waits /\ recovery \in {"none", "due", "wait"} /\ spare \in Spares
      /\ ext \in BOOLEAN /\ NoneActive \in Actives(srv.top) /\ intent \in {"unset", "on", "off"}
  BY Parts
<1>2. /\ HoldsPage(Backwards) /\ active' = NoneActive /\ ord' = Forget(ord)
      /\ UNCHANGED <<srv, intent, recovery, waits, ext, spare, history>>
  BY DEF CommitFull, AtStep, HoldsPage, Backwards, EndActive
<1>3. CASE Enabled /\ Walkable(row)
  <2>1. row' = WalkedRow(row) /\ stored' = stored \cup active.page
    BY <1>3 DEF CommitFull
  <2>2. UserDecides'
    BY <1>2 DEF HistoryInv, AccessKept, UserDecides
  <2>3. row.progress \in {0, row.progress}
    OBVIOUS
  <2> QED BY <1>1, <1>2, <1>3, <2>1, <2>2, <2>3, WalkOK
<1>4. CASE ~(Enabled /\ Walkable(row))
  <2>1. UNCHANGED <<row, stored>>
    BY <1>4 DEF CommitFull
  <2>2. ord' \in Ordered /\ AccessOrder(ord', history)
    BY <1>1, <1>2, ForgetKeeps
  <2>3. SliceShape' /\ PagesFit'
    BY <1>2, SliceOver
  <2> QED BY <1>1, <1>2, <2>1, <2>2, <2>3, Moves
<1> QED BY <1>3, <1>4

LEMMA CommitTotalOK ==
    ASSUME HistoryInv, demand' \in Demands, CommitTotal
    PROVE  HistoryInv' /\ Lawful
<1>1. /\ srv \in Servers /\ row \in Rows /\ intent \in {"unset", "on", "off"}
      /\ stored \subseteq 1..srv.top /\ recovery \in {"none", "due", "wait"}
      /\ ext \in BOOLEAN /\ waits \in Waits /\ ord \in Ordered
      /\ NoneActive \in Actives(srv.top) /\ spare \in Spares /\ history \in Histories(srv.top)
      /\ srv.top \in Nat /\ AccessOrder(ord, history)
  BY Parts
<1> DEFINE total == row.total \/ TotalDue
<1>2. /\ row' = [row EXCEPT !.total = total] /\ active' = NoneActive /\ ord' = Forget(ord)
      /\ UNCHANGED <<srv, intent, stored, recovery, waits, ext, spare, history>>
  BY DEF CommitTotal, EndActive
<1>3. total \in BOOLEAN
  BY <1>1 DEF Rows, TotalDue, Enabled
<1> HIDE DEF total
<1>4. /\ row' \in Rows /\ row'.delta = row.delta /\ (row'.depth <=> row.depth)
      /\ row'.progress = row.progress /\ row'.status = row.status
      /\ row'.requested <=> row.requested
  BY <1>1, <1>2, <1>3 DEF Rows
<1>5. ord' \in Ordered /\ AccessOrder(ord', history')
  BY <1>1, <1>2, ForgetKeeps
<1>6. SliceShape' /\ PagesFit'
  BY <1>2, SliceOver
<1>7. HistoryTypeOK'
  BY <1>1, <1>2, <1>4, <1>5, NextParts
<1>8. srv.top <= srv'.top /\ stored \subseteq stored'
  BY <1>1, <1>2
<1> QED BY <1>2, <1>4, <1>5, <1>6, <1>7, <1>8, Rests

LEMMA CommitGroupOK ==
    ASSUME HistoryInv, demand' \in Demands, CommitGroup
    PROVE  HistoryInv' /\ Lawful
<1>1. /\ srv \in Servers /\ row \in Rows /\ intent \in {"unset", "on", "off"}
      /\ stored \subseteq 1..srv.top /\ recovery \in {"none", "due", "wait"}
      /\ ext \in BOOLEAN /\ waits \in Waits /\ ord \in Ordered
      /\ NoneActive \in Actives(srv.top) /\ spare \in Spares /\ history \in Histories(srv.top)
      /\ srv.top \in Nat /\ AccessOrder(ord, history) /\ active \in Actives(srv.top)
  BY Parts
<1> DEFINE accepted == active.total <= MaxGroup
           own == [row EXCEPT !.status = "syncing", !.progress = 0]
           on == IF ~Undecided THEN Enabled ELSE GroupEligible /\ accepted
           start == IF ~Undecided
                    THEN IF Enabled /\ row.status = "own_only" THEN own ELSE row
                    ELSE IF GroupEligible THEN GroupRow(row, accepted) ELSE row
<1>2. /\ HoldsPage(Backwards) /\ active' = NoneActive /\ ord' = Forget(ord)
      /\ UNCHANGED <<srv, recovery, waits, ext, spare, history>>
  BY DEF CommitGroup, AtStep, HoldsPage, Backwards, EndActive
<1>3. /\ intent' = (IF ~Undecided \/ ~GroupEligible THEN intent
                    ELSE IF accepted THEN "on" ELSE "off")
      /\ IF on /\ Walkable(start)
         THEN row' = WalkedRow(start) /\ stored' = stored \cup active.page
         ELSE row' = start /\ UNCHANGED stored
  BY DEF CommitGroup
<1>4. accepted \in BOOLEAN
  OBVIOUS
<1>5. own \in Rows /\ own.delta = row.delta /\ own.depth = row.depth /\ own.progress = 0
      /\ own.status = "syncing" /\ own.requested = row.requested
  <2>1. 0 \in 0..MaxTop
    BY HistoryAssumption
  <2> QED BY <1>1, <2>1 DEF Rows, Statuses
<1> HIDE DEF accepted, own
<1>6. /\ start \in Rows
      /\ start.delta = row.delta /\ (start.depth <=> row.depth)
      /\ start.progress \in {0, row.progress} /\ (start.requested <=> row.requested)
      /\ start.status # "access_lost" <=> row.status # "access_lost"
      /\ start.status = "synced" => row.status = "synced"
  <2>1. CASE start = row
    BY <1>1, <2>1
  <2>2. CASE start = own /\ row.status = "own_only"
    BY <1>5, <2>2
  <2>3. CASE start = GroupRow(row, accepted)
    BY <1>1, <1>4, <2>3, GroupTyped
  <2> QED BY <2>1, <2>2, <2>3
<1> HIDE DEF on, start
<1>7. intent' \in {"unset", "on", "off"} /\ UserDecides'
  <2>1. CASE intent = "unset"
    <3>1. history.user = "unset"
      BY <2>1 DEF HistoryInv, AccessKept, UserDecides
    <3> QED BY <1>2, <1>3, <2>1, <3>1 DEF UserDecides
  <2>2. CASE intent # "unset"
    BY <1>1, <1>2, <1>3, <2>2 DEF HistoryInv, AccessKept, UserDecides, Undecided
  <2> QED BY <2>1, <2>2
<1>8. CASE on /\ Walkable(start)
  <2>1. row' = WalkedRow(start) /\ stored' = stored \cup active.page
    BY <1>3, <1>8
  <2> QED BY <1>2, <1>6, <1>7, <1>8, <2>1, WalkOK
<1>9. CASE ~(on /\ Walkable(start))
  <2>1. row' = start /\ stored' = stored
    BY <1>3, <1>9
  <2>2. ord' \in Ordered /\ AccessOrder(ord', history')
    BY <1>1, <1>2, ForgetKeeps
  <2>3. SliceShape' /\ PagesFit'
    BY <1>2, SliceOver
  <2>4. HistoryTypeOK'
    BY <1>1, <1>2, <1>6, <1>7, <2>1, <2>2, NextParts
  <2>5. WalkKept'
    <3>1. row'.status = "synced" => row'.depth
      BY <1>6, <2>1 DEF HistoryInv, WalkKept
    <3>2. srv.top <= srv'.top /\ stored \subseteq stored'
      BY <1>1, <1>2, <2>1
    <3> QED BY <1>6, <2>1, <2>4, <3>1, <3>2, WalkRests DEF HistoryInv
  <2>6. AccessKept'
    BY <1>2, <1>6, <1>7, <2>1, <2>2 DEF HistoryInv, AccessKept, LossStands, Lost
  <2>7. Lawful
    <3>1. row.requested => row'.requested
      BY <1>6, <2>1
    <3>2. Lost => row'.status = "access_lost"
      BY <1>6, <2>1 DEF Lost
    <3> QED BY <3>1, <3>2, QuietLawful
  <2> QED BY <2>3, <2>4, <2>5, <2>6, <2>7 DEF HistoryInv
<1> QED BY <1>8, <1>9

\* A page of the gap is committed.
LEMMA FillOK ==
    ASSUME HistoryInv, demand' \in Demands, HoldsPage(Forwards), Fillable, row' = FilledRow(row),
           stored' = stored \cup active.page, srv' = srv
    PROVE  /\ row' \in Rows /\ stored' \subseteq 1..srv'.top /\ row'.status = row.status
           /\ WalkKept' /\ RefreshLawful
           /\ ~Continues => history.probed <= row'.delta
<1>1. /\ row \in Rows /\ stored \subseteq 1..srv.top /\ srv.top \in Nat
      /\ history \in Histories(srv.top)
  BY Parts
<1>2. /\ row.progress \in Nat /\ row.delta \in Int /\ active.page \subseteq 1..srv.top
      /\ active.total \in Nat /\ history.owed \in Nat /\ history.probed \in Nat
      /\ row.delta <= srv.top
  BY Numbers DEF HistoryInv, WalkKept
<1>3. /\ Filled(active.page, active.total, active.cursor)
      /\ ~Continues => Ends(active.page, active.total, active.cursor)
      /\ history.probed <= active.total /\ history.owed <= active.total
      /\ active.cursor = Max({row.delta, 0})
  <2> HIDE DEF Continues
  <2> QED BY DEF HistoryInv, PagesFit, ForwardFits, CursorKept, HoldsPage, Fillable
<1>4. /\ row' \in Rows
      /\ row'.status = row.status /\ (row'.depth <=> row.depth)
      /\ row'.progress = row.progress
      /\ row'.requested <=> Continues
      /\ row'.delta \in Nat
      /\ row'.delta \in {Max({row.delta, 0})} \cup active.page
  <2> HIDE DEF Continues
  <2> QED BY <1>1, FillTyped DEF HistoryInv
<1>5. Max({row.delta, 0}) = IF row.delta >= 0 THEN row.delta ELSE 0
  BY <1>1, ForwardStart
<1>6. row'.delta <= srv.top
  BY <1>1, <1>2, <1>4, <1>5
<1>7. Walked(row') \subseteq stored'
  BY <1>1, <1>3, FillKeeps DEF HistoryInv, WalkKept, WalkHasNoGap
<1>8. WalkKept'
  <2>1. row'.status = "synced" => row'.depth
    BY <1>4 DEF HistoryInv, WalkKept
  <2>2. row'.delta # Null
    BY <1>4 DEF Null
  <2>3. row'.delta <= srv'.top
    BY <1>6
  <2> QED BY <1>7, <2>1, <2>2, <2>3 DEF WalkKept, WalkHasNoGap
<1>9. ~Continues => active.total <= row'.delta
  <2> HIDE DEF Continues
  <2> QED BY <1>1, <1>3, FillReaches DEF HistoryInv
<1> HIDE DEF Continues
<1>10. RefreshLawful
  <2> SUFFICES ASSUME row.requested, ~row'.requested, row'.status = "synced",
                      NEW m \in 1..history.owed
               PROVE  m \in stored'
    BY DEF RefreshLawful
  <2>1. active.total <= row'.delta /\ row'.depth
    BY <1>4, <1>9 DEF HistoryInv, WalkKept
  <2>2. m \in 1..row'.delta
    BY <1>2, <1>3, <1>4, <2>1
  <2>3. row'.delta = Max({row'.delta, 0})
    BY <1>4, ForwardStart
  <2>4. m \in Walked(row')
    BY <2>1, <2>2, <2>3 DEF Walked
  <2> QED BY <1>7, <2>4
<1>11. ~Continues => history.probed <= row'.delta
  BY <1>2, <1>3, <1>4, <1>9
<1>12. stored' \subseteq 1..srv'.top
  BY <1>1, <1>2
<1> QED BY <1>4, <1>8, <1>10, <1>11, <1>12

LEMMA CommitGapOK ==
    ASSUME HistoryInv, demand' \in Demands, CommitGap
    PROVE  HistoryInv' /\ Lawful
<1>1. /\ srv \in Servers /\ row \in Rows /\ intent \in {"unset", "on", "off"}
      /\ stored \subseteq 1..srv.top /\ recovery \in {"none", "due", "wait"}
      /\ ext \in BOOLEAN /\ waits \in Waits /\ ord \in Ordered
      /\ NoneActive \in Actives(srv.top) /\ spare \in Spares /\ history \in Histories(srv.top)
      /\ srv.top \in Nat /\ AccessOrder(ord, history)
  BY Parts
<1>2. /\ HoldsPage(Forwards) /\ active' = NoneActive /\ ord' = Forget(ord)
      /\ UNCHANGED <<srv, intent, recovery, waits, ext, spare>>
  BY DEF CommitGap, AtStep, HoldsPage, Forwards, EndActive
<1>3. SliceShape' /\ PagesFit'
  BY <1>2, SliceOver
<1>4. CASE Fillable
  <2> DEFINE debt == IF Continues THEN history.owed ELSE 0
  <2>1. /\ row' = FilledRow(row) /\ stored' = stored \cup active.page
        /\ history' = [history EXCEPT !.owed = debt]
    <3> HIDE DEF Continues
    <3> QED BY <1>4 DEF CommitGap
  <2>2. /\ row' \in Rows /\ stored' \subseteq 1..srv'.top /\ row'.status = row.status
        /\ WalkKept' /\ RefreshLawful
    BY <1>2, <1>4, <2>1, FillOK
  <2>3. debt \in 0..srv.top
    <3> HIDE DEF Continues
    <3> QED BY <1>1 DEF Histories
  <2> HIDE DEF debt
  <2>4. /\ history' \in Histories(srv.top) /\ history'.user = history.user
        /\ history'.access = history.access
    BY <1>1, <2>1, <2>3 DEF Histories
  <2>5. ord' \in Ordered /\ AccessOrder(ord', history')
    <3>1. ord' \in Ordered /\ AccessOrder(ord', history)
      BY <1>1, <1>2, ForgetKeeps
    <3> QED BY <2>4, <3>1 DEF AccessOrder
  <2>6. HistoryTypeOK'
    BY <1>1, <1>2, <2>2, <2>4, <2>5, NextParts
  <2>7. AccessKept'
    BY <1>2, <2>2, <2>4, <2>5 DEF HistoryInv, AccessKept, LossStands, Lost, UserDecides
  <2>8. Lawful
    BY <2>2 DEF Lawful, EvidenceLawful, WhollyRestored, Lost
  <2> QED BY <1>3, <2>2, <2>6, <2>7, <2>8 DEF HistoryInv
<1>5. CASE ~Fillable
  <2>1. UNCHANGED <<row, stored, history>>
    BY <1>5 DEF CommitGap
  <2>2. ord' \in Ordered /\ AccessOrder(ord', history)
    BY <1>1, <1>2, ForgetKeeps
  <2> QED BY <1>1, <1>2, <1>3, <2>1, <2>2, Moves
<1> QED BY <1>4, <1>5

LEMMA CommitRecoveryPageOK ==
    ASSUME HistoryInv, demand' \in Demands, CommitRecoveryPage
    PROVE  HistoryInv' /\ Lawful
<1>1. /\ srv \in Servers /\ row \in Rows /\ intent \in {"unset", "on", "off"}
      /\ stored \subseteq 1..srv.top /\ recovery \in {"none", "due", "wait"}
      /\ ext \in BOOLEAN /\ waits \in Waits /\ ord \in Ordered
      /\ active \in Actives(srv.top) /\ spare \in Spares /\ history \in Histories(srv.top)
      /\ srv.top \in Nat /\ AccessOrder(ord, history)
  BY Parts
<1>2. /\ HoldsPage(Forwards) /\ active.kind = "recovery" /\ active.answer = "page"
      /\ UNCHANGED <<srv, intent, recovery, waits, ext, spare>>
  BY DEF CommitRecoveryPage, AtStep, HoldsPage, Forwards
<1>3. CASE RecoverablePage
  <2> DEFINE p == [ord EXCEPT !.access = ord.slice, !.witness = ord.slice,
                              !.selected = ord.slice, !.last = Max({@, ord.slice})]
             known == Newest(history, ord, ord.slice, "member")
             step == IF Continues THEN "more" ELSE "finish"
  <2>1. /\ row' = FilledRow(row) /\ stored' = stored \cup active.page
        /\ history' = known /\ ord' = Rank(p) /\ active' = [active EXCEPT !.step = step]
    <3> HIDE DEF Continues
    <3> QED BY <1>3 DEF CommitRecoveryPage
  <2>2. Fillable /\ ord.slice > ord.access
    BY <1>3 DEF RecoverablePage
  <2>3. /\ row' \in Rows /\ stored' \subseteq 1..srv'.top /\ row'.status = row.status
        /\ WalkKept' /\ RefreshLawful
        /\ ~Continues => history.probed <= row'.delta
    <3> HIDE DEF Continues, p, known, step
    <3> QED BY <1>2, <2>1, <2>2, FillOK
  <2>4. Max({ord.last, ord.slice}) = ord.slice /\ ord.slice \in Nat
        /\ known \in Histories(srv.top) /\ known = [history EXCEPT !.access = "member"]
    BY <1>1, <2>2, MemberFacts, OrderFields
  <2>5. p \in Ordered /\ p.access = ord.slice /\ p.witness = ord.slice /\ p.last = ord.slice
    <3> HIDE DEF known
    <3> QED BY <1>1, <2>4 DEF Ordered, Orders
  <2> HIDE DEF p, known
  <2>6. /\ Rank(p) \in Ordered
        /\ known \in Histories(srv.top) /\ known.access = "member"
        /\ known.user = history.user /\ known.probed = history.probed
        /\ AccessOrder(Rank(p), known)
    <3>1. /\ known.access = "member" /\ known.user = history.user
          /\ known.probed = history.probed
      BY <1>1, <2>4 DEF Histories
    <3>2. AccessOrder(p, known)
      BY <2>4, <2>5, <3>1 DEF AccessOrder
    <3> QED BY <2>4, <2>5, <3>1, <3>2, AccessOrderKept
  <2>7. /\ active' \in Actives(srv.top) /\ active'.kind = "recovery" /\ active'.step = step
        /\ active'.answer = "page" /\ step \in {"more", "finish"}
    <3>1. step \in {"more", "finish"} /\ step \in Steps
      BY DEF Steps
    <3> HIDE DEF step
    <3> QED BY <1>1, <1>2, <2>1, <3>1 DEF Actives
  <2>8. HistoryTypeOK'
    BY <1>1, <1>2, <2>1, <2>3, <2>6, <2>7, NextParts
  <2>9. SliceShape'
    BY <2>7 DEF SliceShape
  <2>10. BackwardFits' /\ ForwardFits' /\ CursorKept'
    <3> HIDE DEF step
    <3> QED BY <2>7 DEF BackwardFits, ForwardFits, CursorKept, HoldsPage, Backwards
  <2>11. Restoring'
    <3>1. active'.step = "finish" => ~Continues
      BY <2>7
    <3> HIDE DEF step, Continues
    <3> QED BY <2>1, <2>3, <2>6, <3>1 DEF Restoring
  <2>12. AccessKept'
    <3>1. AccessOrder(ord', history')
      BY <2>1, <2>6
    <3> QED BY <1>2, <2>1, <2>6, <3>1 DEF HistoryInv, AccessKept, LossStands, UserDecides
  <2>13. Lawful
    BY <2>3 DEF Lawful, EvidenceLawful, WhollyRestored, Lost
  <2> QED BY <2>3, <2>8, <2>9, <2>10, <2>11, <2>12, <2>13 DEF HistoryInv, PagesFit
<1>4. CASE ~RecoverablePage
  <2>1. active' = [active EXCEPT !.step = "later"] /\ UNCHANGED <<row, stored, ord, history>>
    BY <1>4 DEF CommitRecoveryPage
  <2>2. active' \in Actives(srv.top) /\ active'.kind = "recovery" /\ active'.step = "later"
    BY <1>1, <1>2, <2>1 DEF Actives, Steps
  <2>3. SliceShape' /\ PagesFit'
    BY <1>2, <2>2, SliceStamps DEF HistoryInv
  <2> QED BY <1>1, <1>2, <2>1, <2>2, <2>3, Moves
<1> QED BY <1>3, <1>4

LEMMA RecoveryRefusedOK ==
    ASSUME HistoryInv, demand' \in Demands, RecoveryRefused
    PROVE  HistoryInv' /\ Lawful
<1>1. /\ ord \in Ordered /\ AccessOrder(ord, history) /\ active \in Actives(srv.top)
      /\ waits \in Waits /\ recovery \in {"none", "due", "wait"} /\ spare \in Spares
      /\ ext \in BOOLEAN
  BY Parts
<1>2. /\ active.kind = "recovery" /\ active' = [active EXCEPT !.step = "later"]
      /\ UNCHANGED <<srv, row, intent, stored, recovery, waits, ord, ext, spare, history>>
  BY DEF RecoveryRefused, AtStep
<1>3. active' \in Actives(srv.top) /\ active'.kind = "recovery" /\ active'.step = "later"
  BY <1>1, <1>2 DEF Actives, Steps
<1>4. SliceShape' /\ PagesFit'
  BY <1>2, <1>3, SliceStamps DEF HistoryInv
<1> QED BY <1>1, <1>2, <1>3, <1>4, Moves

LEMMA StampRecoveryOK ==
    ASSUME HistoryInv, demand' \in Demands, StampRecovery
    PROVE  HistoryInv' /\ Lawful
<1>1. /\ ord \in Ordered /\ AccessOrder(ord, history) /\ NoneActive \in Actives(srv.top)
      /\ waits \in Waits /\ recovery \in {"none", "due", "wait"} /\ spare \in Spares
      /\ ext \in BOOLEAN
  BY Parts
<1>2. /\ active' = NoneActive /\ ord' = Forget(ord)
      /\ recovery' \in {recovery, "wait", "due"}
      /\ UNCHANGED <<srv, row, intent, stored, waits, ext, spare, history>>
  BY DEF StampRecovery, EndActive
<1>3. ord' \in Ordered /\ AccessOrder(ord', history) /\ recovery' \in {"none", "due", "wait"}
  BY <1>1, <1>2, ForgetKeeps
<1>4. SliceShape' /\ PagesFit'
  BY <1>2, SliceOver
<1> QED BY <1>1, <1>2, <1>3, <1>4, Moves

LEMMA FinishRecoveryOK ==
    ASSUME HistoryInv, demand' \in Demands, FinishRecovery
    PROVE  HistoryInv' /\ Lawful
<1>1. /\ srv \in Servers /\ row \in Rows /\ intent \in {"unset", "on", "off"}
      /\ stored \subseteq 1..srv.top /\ recovery \in {"none", "due", "wait"}
      /\ ext \in BOOLEAN /\ waits \in Waits /\ ord \in Ordered
      /\ NoneActive \in Actives(srv.top) /\ spare \in Spares /\ history \in Histories(srv.top)
      /\ srv.top \in Nat /\ AccessOrder(ord, history)
  BY Parts
<1>2. /\ active.step = "finish" /\ active' = NoneActive /\ ord' = Forget(ord)
      /\ UNCHANGED <<srv, intent, stored, ext, spare, history>>
  BY DEF FinishRecovery, AtStep, EndActive
<1>3. SliceShape' /\ PagesFit'
  BY <1>2, SliceOver
<1>4. ord' \in Ordered /\ AccessOrder(ord', history)
  BY <1>1, <1>2, ForgetKeeps
<1>5. CASE RecoveryCurrent
  <2>1. row' = RestoredRow(row) /\ recovery' = "none" /\ waits' = [waits EXCEPT !.lost = FALSE]
    BY <1>5 DEF FinishRecovery
  <2>2. /\ row' \in Rows
        /\ row'.delta = row.delta /\ row'.depth = row.depth
        /\ row'.progress = row.progress /\ row'.status \in {"syncing", "not_synced"}
    BY <1>1, <2>1, RestoredTyped
  <2>3. waits' \in Waits
    BY <1>1, <2>1 DEF Waits
  <2>4. history.access = "member"
    BY <1>1, <1>5 DEF AccessOrder, RecoveryCurrent
  <2>5. HistoryTypeOK'
    BY <1>1, <1>2, <1>4, <2>1, <2>2, <2>3, NextParts
  <2>6. WalkKept'
    <3>1. srv.top <= srv'.top /\ stored \subseteq stored' /\ row'.progress \in {0, row.progress}
          /\ (row'.status = "synced" => row'.depth)
      BY <1>1, <1>2, <2>2
    <3> QED BY <2>2, <2>5, <3>1, WalkRests DEF HistoryInv
  <2>7. AccessKept'
    <3>1. AccessOrder(ord', history')
      BY <1>2, <1>4
    <3> QED BY <1>2, <2>4, <3>1 DEF HistoryInv, AccessKept, LossStands, UserDecides
  <2>8. WhollyRestored
    <3> SUFFICES ASSUME active.answer = "page", NEW m \in 1..history.probed,
                        row.depth \/ (row.progress > 0 /\ m >= row.progress)
                 PROVE  m \in stored
      BY <1>2 DEF WhollyRestored
    <3>1. history.probed <= row.delta
      BY <1>2 DEF HistoryInv, PagesFit, Restoring
    <3>2. history.probed \in Nat /\ row.delta \in Int
      BY Numbers DEF HistoryInv
    <3>3. Max({row.delta, 0}) = IF row.delta >= 0 THEN row.delta ELSE 0
      BY <1>1, ForwardStart
    <3>4. m \in 1..Max({row.delta, 0})
      BY <3>1, <3>2, <3>3
    <3> QED BY <3>4 DEF HistoryInv, WalkKept, WalkHasNoGap, Walked
  <2>9. Lawful
    BY <1>2, <2>2, <2>4, <2>8 DEF Lawful, RefreshLawful, EvidenceLawful
  <2> QED BY <1>3, <2>5, <2>6, <2>7, <2>9 DEF HistoryInv
<1>6. CASE ~RecoveryCurrent
  <2>1. UNCHANGED <<row, recovery, waits>>
    BY <1>6 DEF FinishRecovery
  <2> QED BY <1>1, <1>2, <1>3, <1>4, <2>1, Moves
<1> QED BY <1>5, <1>6

LEMMA CommitProbeOK ==
    ASSUME HistoryInv, demand' \in Demands, CommitProbe
    PROVE  HistoryInv' /\ Lawful
<1>1. /\ srv \in Servers /\ row \in Rows /\ intent \in {"unset", "on", "off"}
      /\ stored \subseteq 1..srv.top /\ recovery \in {"none", "due", "wait"}
      /\ ext \in BOOLEAN /\ waits \in Waits /\ ord \in Ordered
      /\ NoneActive \in Actives(srv.top) /\ spare \in Spares /\ history \in Histories(srv.top)
      /\ srv.top \in Nat /\ AccessOrder(ord, history) /\ active \in Actives(srv.top)
  BY Parts
<1>2. active' = NoneActive /\ UNCHANGED <<srv, intent, stored, ext, spare>>
  BY DEF CommitProbe, EndActive
<1>3. SliceShape' /\ PagesFit'
  BY <1>2, SliceOver
<1>4. CASE Witnessed
  <2> DEFINE q == [ord EXCEPT !.access = ord.slice, !.witness = ord.slice,
                              !.last = Max({@, ord.slice})]
             known == Newest(history, ord, ord.slice, "member")
  <2>1. /\ history' = [known EXCEPT !.probed = active.total] /\ ord' = Forget(q)
        /\ waits' = [waits EXCEPT !.lost = FALSE]
        /\ IF Enabled THEN recovery' = "due" /\ row' = row
           ELSE row' = RestoredRow(row) /\ recovery' = recovery
    BY <1>4 DEF CommitProbe
  <2>2. Lost /\ ord.slice > ord.access
    BY <1>4 DEF Witnessed
  <2>3. Max({ord.last, ord.slice}) = ord.slice /\ ord.slice \in Nat
        /\ known \in Histories(srv.top) /\ known = [history EXCEPT !.access = "member"]
    BY <1>1, <2>2, MemberFacts, OrderFields
  <2>4. q \in Ordered /\ q.access = ord.slice /\ q.witness = ord.slice /\ q.last = ord.slice
    <3> HIDE DEF known
    <3> QED BY <1>1, <2>3 DEF Ordered, Orders
  <2> HIDE DEF q, known
  <2>5. /\ known.access = "member" /\ known.user = history.user
        /\ known \in Histories(srv.top)
    BY <1>1, <2>3 DEF Histories
  <2>6. /\ history' \in Histories(srv.top) /\ history'.access = "member"
        /\ history'.user = history.user
    <3>1. active.total \in 0..srv.top
      BY <1>1 DEF Actives
    <3> QED BY <2>1, <2>5, <3>1 DEF Histories
  <2>7. ord' \in Ordered /\ AccessOrder(ord', history')
    <3>1. AccessOrder(q, history')
      BY <2>3, <2>4, <2>6 DEF AccessOrder
    <3> QED BY <2>1, <2>4, <3>1, ForgetKeeps
  <2>8. waits' \in Waits /\ recovery' \in {"none", "due", "wait"}
    BY <1>1, <2>1 DEF Waits
  <2>9. /\ row' \in Rows /\ row'.delta = row.delta /\ (row'.depth <=> row.depth)
        /\ row'.progress = row.progress
        /\ row' = row \/ row'.status = "not_synced"
    <3>1. CASE Enabled
      BY <1>1, <2>1, <3>1
    <3>2. CASE ~Enabled
      BY <1>1, <2>1, <3>2, RestoredTyped
    <3> QED BY <3>1, <3>2
  <2>10. HistoryTypeOK'
    BY <1>1, <1>2, <2>6, <2>7, <2>8, <2>9, NextParts
  <2>11. WalkKept'
    <3>1. srv.top <= srv'.top /\ stored \subseteq stored' /\ row'.progress \in {0, row.progress}
      BY <1>1, <1>2, <2>9
    <3>2. row'.status = "synced" => row'.depth
      BY <2>9 DEF HistoryInv, WalkKept
    <3> QED BY <2>9, <2>10, <3>1, <3>2, WalkRests DEF HistoryInv
  <2>12. AccessKept'
    BY <1>2, <2>6, <2>7 DEF HistoryInv, AccessKept, LossStands, UserDecides
  <2>13. Lawful
    BY <2>2, <2>6, <2>9 DEF Lawful, RefreshLawful, EvidenceLawful, WhollyRestored, Lost
  <2> QED BY <1>3, <2>10, <2>11, <2>12, <2>13 DEF HistoryInv
<1>5. CASE ~Witnessed
  <2>1. ord' = Forget(ord) /\ UNCHANGED <<row, recovery, waits, history>>
    BY <1>5 DEF CommitProbe
  <2>2. ord' \in Ordered /\ AccessOrder(ord', history)
    BY <1>1, <2>1, ForgetKeeps
  <2> QED BY <1>1, <1>2, <1>3, <2>1, <2>2, Moves
<1> QED BY <1>4, <1>5

LEMMA CommitProbeErrorOK ==
    ASSUME HistoryInv, demand' \in Demands, CommitProbeError
    PROVE  HistoryInv' /\ Lawful
<1>1. /\ ord \in Ordered /\ AccessOrder(ord, history) /\ NoneActive \in Actives(srv.top)
      /\ waits \in Waits /\ recovery \in {"none", "due", "wait"} /\ spare \in Spares
      /\ ext \in BOOLEAN /\ row \in Rows
  BY Parts
<1> DEFINE lost == waits.lost \/ (Lost /\ ord.slice > ord.access)
<1>2. /\ active' = NoneActive /\ ord' = Forget(ord) /\ waits' = [waits EXCEPT !.lost = lost]
      /\ UNCHANGED <<srv, row, intent, stored, recovery, ext, spare, history>>
  BY DEF CommitProbeError, EndActive
<1>3. lost \in BOOLEAN
  BY <1>1 DEF Waits, Lost
<1> HIDE DEF lost
<1>4. waits' \in Waits
  BY <1>1, <1>2, <1>3 DEF Waits
<1>5. ord' \in Ordered /\ AccessOrder(ord', history)
  BY <1>1, <1>2, ForgetKeeps
<1>6. SliceShape' /\ PagesFit'
  BY <1>2, SliceOver
<1> QED BY <1>1, <1>2, <1>4, <1>5, <1>6, Moves

-----------------------------------------------------------------------------
(* The theorems *)

LEMMA StutterOK ==
    ASSUME HistoryInv, UNCHANGED historyVars
    PROVE  HistoryInv' /\ Lawful
<1>1. /\ ord \in Ordered /\ AccessOrder(ord, history) /\ active \in Actives(srv.top)
      /\ waits \in Waits /\ recovery \in {"none", "due", "wait"} /\ spare \in Spares
      /\ ext \in BOOLEAN
  BY Parts
<1>2. UNCHANGED <<srv, row, intent, stored, recovery, waits, ord, active, ext, spare, history, demand>>
  BY DEF historyVars
<1>3. SliceShape' /\ PagesFit'
  BY <1>2, SliceKept DEF HistoryInv
<1>4. demand' \in Demands
  BY <1>2, TypeParts DEF HistoryInv
<1> QED BY <1>1, <1>2, <1>3, <1>4, Moves

\* What is selected and excluded are revisions of the kinds of work.
LEMMA DemandFacts ==
    ASSUME HistoryInv
    PROVE  /\ demand \in Demands /\ NoDemand \in Demands
           /\ Offering(demand) \in Demands /\ Excluding(demand) \in Demands
           /\ \A kind \in Kinds : Demanded(kind) \in Demands
           /\ \A d \in Demands : \A kinds : Revised(d, kinds) \in Demands
           /\ \A d \in Demands : \A n : LossNoted(d, n) \in Demands
<1>1. demand \in Demands /\ row.progress \in 0..MaxTop /\ row.status \in Statuses
  BY TypeParts DEF HistoryInv, Rows
<1>2. NoRevision \in Revisions /\ \A kind \in Kinds : Revision(kind) \in Revisions
  BY <1>1, HistoryAssumption DEF NoRevision, Revision, Revisions, Statuses, Kinds
<1>3. NoDemand \in Demands /\ \A kind \in Kinds : Demanded(kind) \in Demands
  BY <1>1, <1>2 DEF NoDemand, Demanded, Demands
<1>4. Offering(demand) \in Demands /\ Excluding(demand) \in Demands
  BY <1>1, <1>2 DEF Offering, Excluding, Demands
<1>5. \A d \in Demands : \A kinds : Revised(d, kinds) \in Demands
  BY <1>2 DEF Revised, Demands
<1>6. \A d \in Demands : \A n : LossNoted(d, n) \in Demands
  BY <1>5 DEF LossNoted
<1> QED BY <1>1, <1>3, <1>4, <1>5, <1>6

LEMMA DemandTyped ==
    ASSUME HistoryInv, [HistoryNext]_historyVars
    PROVE  demand' \in Demands
<1>1. CASE BeginFull \/ BeginGroup \/ BeginTotal \/ BeginGap \/ BeginProbe \/ BeginRecovery
  <2>1. \E kind \in Kinds : demand' = Demanded(kind)
    BY <1>1 DEF BeginFull, BeginGroup, BeginTotal, BeginGap, BeginProbe, BeginRecovery, Begin, Kinds
  <2> QED BY <2>1, DemandFacts
<1>2. CASE ReadGap \/ DropSlice \/ Reserve \/ AnsweredPage \/ AnsweredLost
  BY <1>2, DemandFacts DEF ReadGap, DropSlice, Reserve, AnsweredPage, AnsweredLost
<1>3. CASE CommitLoss \/ CommitFull \/ CommitGroup \/ CommitTotal \/ CommitGap
  BY <1>3, DemandFacts DEF CommitLoss, CommitFull, CommitGroup, CommitTotal, CommitGap
<1>4. CASE \/ CommitRecoveryPage \/ RecoveryRefused \/ StampRecovery \/ FinishRecovery
           \/ CommitProbe \/ CommitProbeError
  BY <1>4, DemandFacts
     DEF CommitRecoveryPage, RecoveryRefused, StampRecovery, FinishRecovery, CommitProbe,
         CommitProbeError
<1>5. CASE EnableHistory \/ DisableHistory \/ AutoEnrollDm \/ RealtimeLoss \/ OtherObserves
           \/ OtherCommits \/ Refused
  <2>1. CASE EnableHistory
    BY <2>1, DemandFacts DEF EnableHistory
  <2>2. CASE DisableHistory \/ AutoEnrollDm \/ OtherObserves
    BY <2>2, DemandFacts DEF DisableHistory, AutoEnrollDm, OtherObserves
  <2>3. CASE RealtimeLoss \/ OtherCommits
    BY <2>3, DemandFacts DEF RealtimeLoss, OtherCommits
  <2>4. CASE Refused
    BY <2>4, DemandFacts DEF Refused
  <2> QED BY <1>5, <2>1, <2>2, <2>3, <2>4
<1>6. CASE Post \/ Leave \/ Rejoin \/ DeadlinesPass \/ ProcessStops
  BY <1>6, DemandFacts DEF Post, Leave, Rejoin, DeadlinesPass, ProcessStops
<1>7. CASE UNCHANGED historyVars
  BY <1>7, DemandFacts DEF historyVars
<1> QED BY <1>1, <1>2, <1>3, <1>4, <1>5, <1>6, <1>7 DEF HistoryNext, Work, Environment

\* Every step keeps the inductive invariant and is lawful.
LEMMA StepOK ==
    ASSUME HistoryInv, [HistoryNext]_historyVars
    PROVE  HistoryInv' /\ Lawful
<1>0. demand' \in Demands
  BY DemandTyped
<1>1. CASE UNCHANGED historyVars
  BY <1>1, StutterOK
<1>2. CASE Environment
  BY <1>0, <1>2, EnableHistoryOK, DisableHistoryOK, AutoEnrollDmOK, RealtimeLossOK, OtherObservesOK,
     OtherCommitsOK, RefusedOK, PostOK, LeaveOK, RejoinOK, DeadlinesPassOK, ProcessStopsOK
     DEF Environment
<1>3. CASE Work
  <2>1. CASE BeginFull \/ BeginGroup \/ BeginTotal \/ BeginGap \/ BeginProbe \/ BeginRecovery
    BY <1>0, <2>1, BeginFullOK, BeginGroupOK, BeginTotalOK, BeginGapOK, BeginProbeOK, BeginRecoveryOK
  <2>2. CASE ReadGap \/ DropSlice \/ Reserve \/ AnsweredPage \/ AnsweredLost
    BY <1>0, <2>2, ReadGapOK, DropSliceOK, ReserveOK, AnsweredPageOK, AnsweredLostOK
  <2>3. CASE CommitLoss \/ CommitFull \/ CommitGroup \/ CommitTotal \/ CommitGap
    BY <1>0, <2>3, CommitLossOK, CommitFullOK, CommitGroupOK, CommitTotalOK, CommitGapOK
  <2>4. CASE \/ CommitRecoveryPage \/ RecoveryRefused \/ StampRecovery \/ FinishRecovery
             \/ CommitProbe \/ CommitProbeError
    BY <1>0, <2>4, CommitRecoveryPageOK, RecoveryRefusedOK, StampRecoveryOK, FinishRecoveryOK,
       CommitProbeOK, CommitProbeErrorOK
  <2> QED BY <1>3, <2>1, <2>2, <2>3, <2>4 DEF Work
<1> QED BY <1>1, <1>2, <1>3 DEF HistoryNext

\* The slices, the walk and the access stay as HistoryInv says, through every
\* interleaving of slices, users, observers, losses and crashes.
THEOREM HistoryInvariant == HistorySpec => []HistoryInv
<1>1. HistoryInit => HistoryInv
  BY InitOK
<1>2. HistoryInv /\ [HistoryNext]_historyVars => HistoryInv'
  BY StepOK
<1> QED BY <1>1, <1>2, PTL DEF HistorySpec

\* Type correctness: rows, slices, orders and pages stay in their sets.
THEOREM HistoryIsTyped == HistorySpec => []HistoryTypeOK
<1>1. HistoryInv => HistoryTypeOK
  BY DEF HistoryInv
<1> QED BY <1>1, HistoryInvariant, PTL

\* WalkHasNoGap: the backward walk and the forward cursor (sync_worker.py, delta_sync.py)
\* leave no message out between them, for every page size and any history.
THEOREM NoGapIsLeft == HistorySpec => []WalkHasNoGap
<1>1. HistoryInv => WalkHasNoGap
  BY DEF HistoryInv, WalkKept
<1> QED BY <1>1, HistoryInvariant, PTL

\* RefreshServed: a refresh the user asked for ends only when all that was posted before it
\* is stored (delta_refresh_generation).
THEOREM RefreshIsServed == HistorySpec => RefreshServed
<1>1. HistoryInv /\ [HistoryNext]_historyVars
        => [row.requested /\ ~row'.requested /\ row'.status = "synced" /\ intent' = "on"
              => 1..history.owed \subseteq stored']_historyVars
  BY StepOK DEF Lawful, RefreshLawful
<1> QED BY <1>1, HistoryInvariant, PTL DEF HistorySpec, RefreshServed

\* AccessOnEvidence: access is lost and regained on newer evidence only, comes back with all
\* the probe saw, and no automatic enrollment overrides the user (claim_dialog_fact).
THEOREM EvidenceDecides == HistorySpec => AccessOnEvidence
<1>1. HistoryInv => LossStands /\ UserDecides
  BY DEF HistoryInv, AccessKept
<1>2. HistoryInv /\ [HistoryNext]_historyVars
        => [Lost /\ row'.status # "access_lost" => history'.access = "member"]_historyVars
  BY StepOK DEF Lawful, EvidenceLawful
<1>3. HistoryInv /\ [HistoryNext]_historyVars => [WhollyRestored]_historyVars
  BY StepOK DEF Lawful
<1> QED BY <1>1, <1>2, <1>3, HistoryInvariant, PTL
        DEF HistorySpec, AccessOnEvidence, RestoredOnEvidence, RestoredWhole

=============================================================================
