--------------------------- MODULE CommandProofs ---------------------------
(***************************************************************************)
(* The native commands, for every set of texts, contact values and keys    *)
(* and every value of the bounds.                                          *)
(*   Drafts: a quiet draft is what Telegram has, its orders never go back, *)
(*   and the fate of the one write is known.                               *)
(*   Contacts: the fate of every write is what its receipt says, known or  *)
(*   owed a read after it, and a packet leaves only for a fresh version.   *)
(*   Scheduled queue: a mirror that calls itself complete and is quiet is  *)
(*   Telegram's queue, what is not known is due, and no key is sent twice. *)
(***************************************************************************)
EXTENDS CommandInvariants, WellFoundedInduction, TLAPS

(* DRAFTS *)

-----------------------------------------------------------------------------
(* What the operations of the projection do *)

\* What a step that only asks for, claims or releases a recovery leaves alone
Kept(d, e) ==
    /\ e.row = d.row /\ e.floor = d.floor /\ e.uncertain = d.uncertain
    /\ e.revision = d.revision /\ e.receipt = d.receipt /\ e.kept = d.kept

\* _invalidate_recovery_claim: a recovery is due and no claim is left.
LEMMA MarkedFacts ==
    ASSUME NEW d \in Projection, NEW retry \in {"now", "later"}, NEW m, m = Marked(d, retry)
    PROVE  m \in Projection /\ Kept(d, m) /\ ~m.claimed /\ m.due \in {"now", "later"}
BY DEF Marked, Projection, Kept, Statuses

\* claim_recovery
LEMMA ClaimedFacts ==
    ASSUME NEW d \in Projection, NEW c, c = Claimed(d)
    PROVE  c \in Projection /\ Kept(d, c) /\ c.claimed /\ Pending(c)
BY DEF Claimed, Projection, Kept, Statuses, Pending

\* release_recovery_claim: what was pending is.
LEMMA ReleasedFacts ==
    ASSUME NEW d \in Projection, NEW r, r = Released(d)
    PROVE  r \in Projection /\ Kept(d, r) /\ ~r.claimed /\ (Pending(d) <=> Pending(r))
BY DEF Released, Projection, Kept, Statuses, Pending

\* bind_account: what is uncertain is due.
LEMMA BoundFacts ==
    ASSUME NEW d \in Projection, NEW e, e = Bound(d)
    PROVE  /\ e \in Projection /\ Kept(d, e) /\ ~e.claimed
           /\ d.uncertain \/ LegacyPending(d) => Pending(e)
BY DEF Bound, Marked, LegacyPending, Projection, Kept, Statuses, Pending

\* _upsert_current: the draft is the row, and the displaced one is kept.
LEMMA SavedFacts ==
    ASSUME NEW d \in Projection, NEW draft \in Held, NEW stamp \in Seconds,
           NEW s, s = Saved(d, draft, stamp)
    PROVE  /\ s \in Projection /\ s.row.draft = draft /\ s.row.order = stamp
           /\ s.floor = d.floor /\ s.receipt = d.receipt /\ d.kept \subseteq s.kept
           /\ s.uncertain = d.uncertain /\ s.claimed = d.claimed /\ (Pending(s) <=> Pending(d))
<1>1. d.row.draft \in Held /\ d.revision + 1 \in Nat
  BY DEF Projection
<1> QED BY <1>1 DEF Saved, Projection, Pending

\* An update either changes nothing, or is newer and becomes the row, or it is ambiguous:
\* the row stays and a recovery is due.
LEMMA RealtimeFacts ==
    ASSUME NEW d \in Projection, NEW retry \in {"now", "later"},
           NEW u \in UpdateType,
           NEW e, e = Realtime(d, u, retry)
    PROVE  /\ e \in Projection /\ e.floor = d.floor /\ e.receipt = d.receipt /\ d.kept \subseteq e.kept
           /\ \/ e = d /\ ~Ambiguous(Decision(d, u)) /\ 0 < u.order /\ u.order <= Current(d)
                 /\ (u.order = Current(d) => d.row.draft = u.draft)
              \/ /\ ~Ambiguous(Decision(d, u)) /\ u.order > Current(d) /\ ~d.uncertain
                 /\ ~e.uncertain /\ ~e.claimed /\ (Pending(d) => Pending(e)) /\ (Pending(e) => Pending(d))
                 /\ e.row.draft = u.draft /\ e.row.order = u.order
              \/ /\ Ambiguous(Decision(d, u)) /\ e.row = d.row /\ e.kept = d.kept
                 /\ ~e.claimed /\ Pending(e)
<1>1. Seconds \subseteq Nat /\ Seconds \subseteq Int
  BY DEF Seconds
<1>2. d.floor \in Seconds /\ d.row.order \in Seconds /\ u.order \in Seconds /\ u.draft \in Held
  BY DEF Projection, Held, UpdateType
<1>3. Current(d) \in Nat /\ u.order \in Nat
  BY <1>1, <1>2 DEF Current, LaterOf
<1>4. CASE Decision(d, u) = "missing_source_order"
  <2>. DEFINE m == Marked(d, retry)
  <2>1. m \in Projection /\ Kept(d, m) /\ ~m.claimed /\ m.due \in {"now", "later"}
    BY MarkedFacts
  <2>2. e = [m EXCEPT !.uncertain = TRUE]
    BY <1>4 DEF Realtime
  <2>. HIDE DEF m
  <2> QED BY <1>4, <2>1, <2>2 DEF Projection, Kept, Pending, Ambiguous
<1>5. CASE Decision(d, u) \in {"stale", "duplicate"}
  <2>1. e = d
    BY <1>5 DEF Realtime
  <2> QED BY <1>1, <1>2, <1>3, <1>5, <2>1 DEF Decision, Current, Ambiguous
<1>6. CASE Decision(d, u) = "advanced"
  <2>. DEFINE m == IF d.claimed THEN Marked(d, retry) ELSE d
  <2>1. /\ m \in Projection /\ Kept(d, m) /\ ~m.claimed /\ (Pending(m) <=> Pending(d))
    BY MarkedFacts DEF Pending, Kept
  <2>2. e = Advanced(m, u)
    BY <1>6 DEF Realtime
  <2>3. u.order > Current(d) /\ ~d.uncertain
    BY <1>1, <1>2, <1>3, <1>6 DEF Decision, Current
  <2>. HIDE DEF m
  <2>4. /\ e \in Projection /\ e.floor = m.floor /\ e.receipt = m.receipt /\ m.kept \subseteq e.kept
        /\ e.uncertain = m.uncertain /\ e.claimed = m.claimed /\ (Pending(e) <=> Pending(m))
        /\ e.row.draft = u.draft /\ e.row.order = u.order
    <3>1. CASE m.row.draft = u.draft
      <4>1. e = [m EXCEPT !.row = [m.row EXCEPT !.order = u.order]]
        BY <2>2, <3>1 DEF Advanced, Projection
      <4> QED BY <1>2, <2>1, <3>1, <4>1 DEF Projection, Pending
    <3>2. CASE m.row.draft # u.draft
      <4>. DEFINE s == Saved(m, u.draft, u.order)
      <4>1. /\ s \in Projection /\ s.row.draft = u.draft /\ s.row.order = u.order
            /\ s.floor = m.floor /\ s.receipt = m.receipt /\ m.kept \subseteq s.kept
            /\ s.uncertain = m.uncertain /\ s.claimed = m.claimed /\ (Pending(s) <=> Pending(m))
        BY <1>2, <2>1, SavedFacts
      <4>2. e = s \/ e = [s EXCEPT !.status = "ready"]
        BY <2>2, <3>2 DEF Advanced
      <4>. HIDE DEF s
      <4> QED BY <4>1, <4>2 DEF Projection, Pending, Statuses
    <3> QED BY <3>1, <3>2
  <2> QED BY <1>6, <2>1, <2>3, <2>4 DEF Kept, Ambiguous
<1>7. CASE Decision(d, u) \in {"scope_order_uncertain", "equal_order_conflict", "legacy_order_pending"}
  <2>1. e = Marked(d, retry)
    BY <1>7 DEF Realtime
  <2> QED BY <1>7, <2>1, MarkedFacts DEF Kept, Pending, Ambiguous
<1>8. Decision(d, u) \in {"missing_source_order", "stale", "duplicate", "advanced",
                          "scope_order_uncertain", "equal_order_conflict", "legacy_order_pending"}
  BY <1>1, <1>2, <1>3 DEF Decision, Current
<1> QED BY <1>4, <1>5, <1>6, <1>7, <1>8

\* A snapshot that is as new as the row becomes the row and the floor, and ends the recovery.
LEMMA PublishedFacts ==
    ASSUME NEW d \in Projection, d.row.draft = None => d.row = NoRow,
           NEW draft \in Listed, NEW stamp \in Seconds, d.floor <= stamp, d.row.order <= stamp,
           NEW p, p = Completed(Observed(d, draft, stamp), stamp)
    PROVE  /\ p \in Projection /\ p.receipt = d.receipt /\ d.kept \subseteq p.kept
           /\ p.floor = stamp /\ ~p.uncertain /\ ~Pending(p) /\ p.status = "ready"
           /\ \/ p.row = NoRow /\ d.row = NoRow /\ draft = None
              \/ /\ p.row.order = stamp /\ p.row.draft # None
                 /\ p.row.draft = IF draft = None THEN "cleared" ELSE draft
<1>. DEFINE o == Observed(d, draft, stamp)
<1>1. Seconds \subseteq Nat /\ Seconds \subseteq Int
  BY DEF Seconds
<1>2. d.floor \in Seconds /\ d.row.order \in Seconds
  BY DEF Projection
<1>3. /\ o \in Projection /\ o.receipt = d.receipt /\ d.kept \subseteq o.kept
      /\ o.floor = d.floor /\ ~o.uncertain
      /\ \/ o.row = NoRow /\ d.row = NoRow /\ draft = None
         \/ /\ o.row.order = stamp /\ o.row.draft # None
            /\ o.row.draft = IF draft = None THEN "cleared" ELSE draft
  <2>. DEFINE new == IF draft = None THEN "cleared" ELSE draft
  <2>1. new \in Held /\ new # None
    BY DraftAssumption DEF Held, Listed
  <2>2. CASE d.row = NoRow /\ draft = None /\ ~d.uncertain
    BY <2>2 DEF Observed
  <2>3. CASE ~(d.row = NoRow /\ draft = None /\ ~d.uncertain) /\ d.row.draft = new
    <3>1. o = [d EXCEPT !.row.order = stamp, !.uncertain = FALSE]
      BY <1>1, <1>2, <2>3 DEF Observed
    <3>. HIDE DEF o
    <3> QED BY <2>1, <2>3, <3>1 DEF Projection
  <2>4. CASE ~(d.row = NoRow /\ draft = None /\ ~d.uncertain) /\ d.row.draft # new
    <3>. DEFINE s == Saved(d, new, stamp)
    <3>1. o = [s EXCEPT !.uncertain = FALSE]
      BY <1>1, <1>2, <2>4 DEF Observed
    <3>2. /\ s \in Projection /\ s.row.draft = new /\ s.row.order = stamp
          /\ s.floor = d.floor /\ s.receipt = d.receipt /\ d.kept \subseteq s.kept
      BY <2>1, SavedFacts
    <3>. HIDE DEF o, s
    <3> QED BY <2>1, <3>1, <3>2 DEF Projection
  <2> QED BY <2>2, <2>3, <2>4
<1>4. p = Completed(o, stamp)
  OBVIOUS
<1>. HIDE DEF o
<1>5. p = [o EXCEPT !.due = "none", !.claimed = FALSE, !.status = "ready", !.coverage = "complete",
                    !.floor = stamp]
  <2>1. LaterOf(o.floor, stamp) = stamp
    <3>1. o.floor \in Int /\ stamp \in Int /\ o.floor <= stamp
      BY <1>1, <1>2, <1>3
    <3> QED BY <3>1 DEF LaterOf
  <2> QED BY <1>3, <1>4, <2>1 DEF Completed
<1>6. p \in Projection
  BY <1>3, <1>5 DEF Projection, Statuses
<1>7. /\ p.receipt = o.receipt /\ p.kept = o.kept /\ p.row = o.row /\ p.uncertain = o.uncertain
      /\ p.floor = stamp /\ p.due = "none" /\ p.claimed = FALSE /\ p.status = "ready"
  BY <1>3, <1>5 DEF Projection
<1> QED BY <1>3, <1>6, <1>7 DEF Pending
-----------------------------------------------------------------------------
(* Types *)

\* A version that read_current_draft gives is one.
LEMMA VersionType ==
    ASSUME NEW d \in Projection PROVE Version(d) \in Versions
BY DEF Version, Versions, Projection

\* The selected work is a revision of it.
LEMMA WorkType ==
    ASSUME NEW d \in Projection PROVE Work(d) \in Works
BY DEF Work, Works, Projection

\* What nobody uses has a type.
LEMMA IdleTypes == NoRefresh \in RefreshType /\ Idle \in CommandType
<1>1. 0 \in Seconds
  BY DraftAssumption DEF Seconds
<1> QED BY <1>1 DEF NoRefresh, Idle, RefreshType, CommandType, Listed, Steps, Versions

\* A fault within the bound is counted.
LEMMA FaultType ==
    ASSUME NEW h \in HistoryType, h.faults < MaxFaults
    PROVE  [h EXCEPT !.faults = @ + 1] \in HistoryType
<1>1. h.faults \in 0..MaxFaults
  BY DEF HistoryType
<1>2. h.faults + 1 \in 0..MaxFaults
  BY <1>1, DraftAssumption
<1> QED BY <1>2 DEF HistoryType

\* The holder of the lock returns an idle or a going on command.
LEMMA ReturnsType ==
    ASSUME TypeOK, NEW accepted \in BOOLEAN, NEW blocked \in BOOLEAN, Returns(accepted, blocked)
    PROVE  refresh' \in RefreshType /\ command' \in CommandType /\ excluded' \subseteq Works \cup {None}
<1>1. NoRefresh \in RefreshType /\ Idle \in CommandType
  BY IdleTypes
<1>2. command' \in CommandType
  <2>1. \/ command' \in {command, Idle} \/ command' = [command EXCEPT !.step = "read"]
        \/ command' = [command EXCEPT !.step = "compare", !.verdict = accepted]
    BY DEF Returns
  <2> QED BY <1>1, <2>1 DEF TypeOK, CommandType, Steps
<1>3. refresh.selected \in Works \cup {None}
  BY DEF TypeOK, RefreshType
<1> QED BY <1>1, <1>2, <1>3 DEF Returns, TypeOK

-----------------------------------------------------------------------------
(* The lock and the steps of a command *)

\* What Returns makes of a command: a preflight goes on to read or gives up, a postflight
\* goes on to compare, and a slice leaves it alone.
LEMMA ReturnsCommand ==
    ASSUME TypeOK, Control, refresh.step # "none", NEW accepted \in BOOLEAN, NEW blocked \in BOOLEAN,
           Returns(accepted, blocked)
    PROVE  /\ refresh' = NoRefresh
           /\ \/ refresh.who = "slice" /\ command' = command
              \/ /\ refresh.who = "preflight" /\ command.step = "preflight" /\ ~accepted
                 /\ command' = Idle
              \/ /\ refresh.who = "preflight" /\ command.step = "preflight" /\ accepted
                 /\ command' = [command EXCEPT !.step = "read"]
              \/ /\ refresh.who = "postflight" /\ command.step = "verify"
                 /\ command' = [command EXCEPT !.step = "compare", !.verdict = accepted]
<1>1. refresh.who \in {"slice", "preflight", "postflight"}
  BY DEF TypeOK, RefreshType, Control
<1> QED BY <1>1 DEF Returns, Control

LEMMA ReturnsControl ==
    ASSUME TypeOK, Control, refresh.step # "none", NEW accepted \in BOOLEAN, NEW blocked \in BOOLEAN,
           Returns(accepted, blocked)
    PROVE  Control'
<1>1. command \in CommandType
  BY DEF TypeOK
<1>2. refresh' = NoRefresh /\ NoRefresh.who = None /\ NoRefresh.step = "none"
  BY ReturnsCommand DEF NoRefresh
<1>3. CASE refresh.who = "slice" /\ command' = command
  BY <1>2, <1>3, DraftAssumption DEF Control
<1>4. CASE command' = Idle
  BY <1>2, <1>4, DraftAssumption DEF Control, Idle
<1>5. CASE command.step = "preflight" /\ command' = [command EXCEPT !.step = "read"]
  BY <1>1, <1>2, <1>5, DraftAssumption DEF Control, CommandType
<1>6. CASE command.step = "verify" /\ command' = [command EXCEPT !.step = "compare", !.verdict = accepted]
  BY <1>1, <1>2, <1>6, DraftAssumption DEF Control, CommandType
<1> QED BY <1>3, <1>4, <1>5, <1>6, ReturnsCommand

LEMMA ControlInit == Init => Control
<1> SUFFICES ASSUME Init PROVE Control
  OBVIOUS
<1>1. refresh.who = None /\ refresh.step = "none" /\ command.step = "idle" /\ command.verdict = FALSE
  BY DEF Init, NoRefresh, Idle
<1> QED BY <1>1, DraftAssumption DEF Control

\* Every step keeps them so.
LEMMA ControlStep == ASSUME TypeOK, Control, [Next]_vars PROVE Control'
<1>. USE DraftAssumption
<1>1. command \in CommandType /\ refresh \in RefreshType
  BY DEF TypeOK
<1>2. CASE UNCHANGED <<refresh, command>>
  BY <1>2 DEF Control
<1>3. CASE SliceBegins
  BY <1>1, <1>3 DEF SliceBegins, Control, NoRefresh
<1>4. CASE Claim
  <2>1. CASE Returns(FALSE, TRUE)
    BY <1>4, <2>1, ReturnsControl DEF Claim
  <2>2. CASE refresh' = [refresh EXCEPT !.step = "fetch"] /\ command' = command
    BY <1>1, <1>4, <2>2 DEF Claim, Control, RefreshType
  <2> QED BY <1>4, <2>1, <2>2 DEF Claim
<1>5. CASE SnapshotAnswered
  BY <1>1, <1>5 DEF SnapshotAnswered, Control, RefreshType
<1>6. ASSUME NEW how \in {"deferred", "incomplete", "error"}, SnapshotFails(how) PROVE Control'
  BY <1>6, ReturnsControl DEF SnapshotFails
<1>7. CASE Publish
  BY <1>7, ReturnsControl DEF Publish
<1>8. ASSUME NEW action \in Actions, CommandBegins(action) PROVE Control'
  <2>1. /\ refresh'.who = "preflight" /\ command'.step = "preflight"
        /\ command'.outcome = None /\ ~command'.verdict
    BY <1>8 DEF CommandBegins, NoRefresh, Idle
  <2> QED BY <2>1 DEF Control
<1>9. CASE CommandReads
  <2>1. \/ command' = Idle \/ command' = [command EXCEPT !.step = "conflict"]
        \/ \E outcome \in {"unchanged", None} :
              command' = [command EXCEPT !.step = "prepare", !.seen = Version(db), !.outcome = outcome]
    BY <1>9 DEF CommandReads
  <2>2. command.step = "read" /\ refresh' = refresh
    BY <1>9 DEF CommandReads
  <2>3. CASE command' = Idle
    BY <2>2, <2>3 DEF Control, Idle
  <2>4. CASE command' = [command EXCEPT !.step = "conflict"]
    BY <1>1, <2>2, <2>4 DEF Control, CommandType
  <2>5. ASSUME NEW outcome \in {"unchanged", None},
               command' = [command EXCEPT !.step = "prepare", !.seen = Version(db), !.outcome = outcome]
        PROVE  Control'
    <3>1. command'.step = "prepare" /\ command'.outcome = outcome /\ command'.verdict = command.verdict
      BY <1>1, <2>5 DEF CommandType
    <3> QED BY <2>2, <3>1 DEF Control
  <2> QED BY <2>1, <2>3, <2>4, <2>5
<1>10. CASE Prepare
  BY <1>1, <1>10 DEF Prepare, Control, CommandType
<1>11. CASE ConflictReported
  BY <1>1, <1>11 DEF ConflictReported, Control, Idle
<1>12. CASE Save
  BY <1>1, <1>12 DEF Save, Control, CommandType
<1>13. CASE CommandAnswered
  BY <1>1, <1>13 DEF CommandAnswered, Answered, Control, CommandType
<1>14. ASSUME NEW saved \in BOOLEAN, Checkpoint(saved) PROVE Control'
  BY <1>1, <1>14 DEF Checkpoint, Control, CommandType
<1>15. CASE Recover
  BY <1>1, <1>15 DEF Recover, Control, CommandType
<1>16. CASE PostflightBegins
  BY <1>1, <1>16 DEF PostflightBegins, Control, CommandType, NoRefresh
<1>17. CASE PostflightExpires
  BY <1>1, <1>17 DEF PostflightExpires, Control, CommandType
<1>18. CASE Finish
  BY <1>1, <1>18 DEF Finish, Control, Idle
<1>19. CASE Shutdown \/ Restart
  BY <1>19 DEF Shutdown, Restart, Control, Idle, NoRefresh
<1>20. CASE Updates \/ CallerReads \/ Applied \/ Startup \/ UNCHANGED vars
  BY <1>2, <1>20 DEF Updates, RemoteEdit, ClockTicks, Deliver, DeliverFails, Ask, ReconnectObserved,
                     DuePasses, CallerReads, Applied, Startup, vars
<1> QED BY <1>3, <1>4, <1>5, <1>6, <1>7, <1>8, <1>9, <1>10, <1>11, <1>12, <1>13, <1>14, <1>15,
           <1>16, <1>17, <1>18, <1>19, <1>20 DEF Next, Snapshot, Executing

-----------------------------------------------------------------------------
(* Type correctness, step by step *)

\* A new projection is empty, or has one text from before orders were kept.
LEMMA InitialRows ==
    ASSUME Init
    PROVE  \E d \in Projection :
             /\ db = Bound(d) /\ (d.row.draft = None => d.row = NoRow)
             /\ d.receipt = "none" /\ d.floor = 0 /\ d.row.order = 0 /\ ~d.claimed /\ ~d.uncertain
<1>. DEFINE Old(t) == [Empty EXCEPT !.revision = 1, !.row = [draft |-> t, order |-> 0, version |-> 1]]
            Fits(d) == /\ d \in Projection /\ (d.row.draft = None => d.row = NoRow) /\ d.receipt = "none"
                       /\ d.floor = 0 /\ d.row.order = 0 /\ ~d.claimed /\ ~d.uncertain
<1>1. 0 \in Seconds /\ NoRow \in [draft : Held, order : Seconds, version : Nat] /\ NoRow.order = 0
  BY DraftAssumption DEF NoRow, Held, Seconds
<1>2. Fits(Empty)
  BY <1>1 DEF Empty, Projection, Statuses, Receipts
<1>3. ASSUME NEW t \in Texts PROVE Fits(Old(t))
  <2>. DEFINE row == [draft |-> t, order |-> 0, version |-> 1]
  <2>1. row \in [draft : Held, order : Seconds, version : Nat] /\ row.draft # None /\ row.order = 0
    BY <1>1, DraftAssumption DEF Held
  <2>. HIDE DEF row
  <2>2. Old(t) = [Empty EXCEPT !.revision = 1, !.row = row]
    BY DEF row
  <2> QED BY <1>2, <2>1, <2>2 DEF Projection
<1>4. db = Bound(Empty) \/ \E t \in Texts : db = Bound(Old(t))
  BY DEF Init
<1>. HIDE DEF Old
<1> QED BY <1>2, <1>3, <1>4

\* At first every variable has its type.
LEMMA TypeInit == Init => TypeOK
<1> SUFFICES ASSUME Init PROVE TypeOK
  OBVIOUS
<1>1. 0 \in Seconds
  BY DraftAssumption DEF Seconds
<1>4. db \in Projection /\ (db.row.draft = None => db.row = NoRow)
  BY InitialRows, BoundFacts DEF Kept
<1>5. telegram \in TelegramType
  <2>1. PICK t \in Drafted, l \in {"empty", None} :
          telegram = [draft |-> t, lately |-> {t}, absence |-> l, second |-> 1, edits |-> 0]
    BY DEF Init, Drafted
  <2> QED BY <2>1, DraftAssumption DEF TelegramType
<1>6. refresh \in RefreshType /\ command \in CommandType /\ wire \in WireType
  BY IdleTypes DEF Init, WireType
<1>7. history \in HistoryType
  <2>1. 0 \in 0..MaxFaults /\ 0 \in 0..MaxCrash /\ 0 \in Nat
    BY DraftAssumption
  <2> QED BY <1>1, <2>1 DEF Init, HistoryType
<1> QED BY <1>4, <1>5, <1>6, <1>7 DEF Init, TypeOK, Versions

\* Edits, the clock, the updates and their recoveries keep the types.
LEMMA TypeUpdates == ASSUME TypeOK, Updates PROVE TypeOK'
<1>1. ASSUME NEW draft \in Drafted, NEW dated \in BOOLEAN, NEW heard \in BOOLEAN,
             RemoteEdit(draft, dated, heard)
      PROVE  TypeOK'
  <2>. DEFINE stamp == IF dated THEN telegram.second ELSE 0
              told == [history EXCEPT !.calm = FALSE, !.moved = TRUE,
                                      !.doubt = @ \/ draft \in telegram.lately]
              u == [draft |-> IF draft = "absent" THEN "empty" ELSE draft, order |-> stamp]
  <2>1. /\ telegram.edits \in 0..MaxEdits /\ telegram.lately \subseteq Drafted
        /\ telegram.second \in Seconds /\ 0 \in Seconds
    BY DraftAssumption DEF TypeOK, TelegramType, Seconds
  <2>2. telegram' \in TelegramType
    <3>1. telegram' = [telegram EXCEPT !.draft = draft, !.edits = @ + 1, !.lately = @ \cup {draft}]
      BY <1>1 DEF RemoteEdit
    <3>2. telegram.edits + 1 \in 0..MaxEdits /\ telegram.lately \cup {draft} \in SUBSET Drafted
      BY <1>1, <2>1, DraftAssumption DEF RemoteEdit
    <3> QED BY <3>1, <3>2 DEF TypeOK, TelegramType
  <2>3. flight' \subseteq UpdateType
    <3>1. u \in UpdateType
      BY <2>1 DEF UpdateType, Drafted
    <3>2. flight' = flight \/ flight' = flight \cup {u}
      BY <1>1 DEF RemoteEdit
    <3> QED BY <3>1, <3>2 DEF TypeOK
  <2>4. history' \in HistoryType
    <3>1. told \in HistoryType /\ told.faults = history.faults
      BY DEF TypeOK, HistoryType
    <3>2. \/ history' = told
          \/ history.faults < MaxFaults /\ history' = [told EXCEPT !.faults = @ + 1]
      BY <1>1 DEF RemoteEdit
    <3>. HIDE DEF told
    <3> QED BY <3>1, <3>2, FaultType
  <2> QED BY <1>1, <2>2, <2>3, <2>4 DEF TypeOK, RemoteEdit
<1>2. CASE ClockTicks
  <2>1. telegram.second + 1 \in 1..MaxSecond /\ {telegram.draft} \in SUBSET Drafted
    BY <1>2, DraftAssumption DEF TypeOK, ClockTicks, TelegramType
  <2>2. telegram' \in TelegramType
    BY <1>2, <2>1 DEF TypeOK, ClockTicks, TelegramType
  <2> QED BY <1>2, <2>2 DEF TypeOK, ClockTicks
<1>3. ASSUME NEW u \in flight, DeliverFails(u) PROVE TypeOK'
  <2>1. history' \in HistoryType
    BY <1>3, FaultType DEF TypeOK, DeliverFails
  <2> QED BY <1>3, <2>1, MarkedFacts DEF TypeOK, DeliverFails, Kept
<1>4. ASSUME NEW u \in flight, NEW retry \in {"now", "later"}, Deliver(u, retry) PROVE TypeOK'
  <2>1. u \in UpdateType /\ u.draft # None
    BY DraftAssumption DEF TypeOK, UpdateType
  <2>2. db' \in Projection /\ (db'.row = db.row \/ db'.row.draft = u.draft)
    BY <1>4, <2>1, RealtimeFacts DEF TypeOK, Deliver
  <2> QED BY <1>4, <2>1, <2>2 DEF TypeOK, Deliver
<1>5. CASE Ask \/ ReconnectObserved
  BY <1>5, MarkedFacts DEF TypeOK, Ask, ReconnectObserved, Kept
<1>6. CASE DuePasses
  BY <1>6 DEF TypeOK, DuePasses, Projection
<1> QED BY <1>1, <1>2, <1>3, <1>4, <1>5, <1>6 DEF Updates, Drafted
\* What a snapshot says of the scope is a projection with a row that has a draft, or none.
LEMMA ObservedType ==
    ASSUME NEW d \in Projection, d.row.draft = None => d.row = NoRow,
           NEW draft \in Listed, NEW stamp \in Seconds, NEW o, o = Observed(d, draft, stamp)
    PROVE  /\ o \in Projection /\ (o.row.draft = None => o.row = NoRow)
           /\ o.receipt = d.receipt /\ d.kept \subseteq o.kept
<1>. DEFINE new == IF draft = None THEN "cleared" ELSE draft
            s == Saved(d, new, stamp)
<1>1. new \in Held /\ new # None
  BY DraftAssumption DEF Held, Listed
<1>2. s \in Projection /\ s.row.draft = new /\ s.receipt = d.receipt /\ d.kept \subseteq s.kept
  BY <1>1, SavedFacts
<1>3. \/ o = d \/ o = [s EXCEPT !.uncertain = FALSE]
      \/ d.row.draft = new /\ o = [d EXCEPT !.row = [d.row EXCEPT !.order = stamp], !.uncertain = FALSE]
  BY DEF Observed, Projection
<1>. HIDE DEF s
<1>4. CASE o = [s EXCEPT !.uncertain = FALSE]
  BY <1>1, <1>2, <1>4, ZenonT(60) DEF Projection
<1>5. CASE d.row.draft = new /\ o = [d EXCEPT !.row = [d.row EXCEPT !.order = stamp], !.uncertain = FALSE]
  <2>. DEFINE row == [d.row EXCEPT !.order = stamp]
  <2>1. row \in [draft : Held, order : Seconds, version : Nat] /\ row.draft = new
    BY <1>5 DEF Projection
  <2>. HIDE DEF row
  <2>2. o = [d EXCEPT !.row = row, !.uncertain = FALSE]
    BY <1>5 DEF row
  <2> QED BY <1>1, <2>1, <2>2 DEF Projection
<1> QED BY <1>3, <1>4, <1>5

\* _mark_snapshot_complete leaves the row.
LEMMA CompletedType ==
    ASSUME NEW d \in Projection, NEW stamp \in Seconds, NEW c, c = Completed(d, stamp)
    PROVE  c \in Projection /\ c.row = d.row /\ c.receipt = d.receipt /\ c.kept = d.kept
<1>1. d.floor \in Seconds
  BY DEF Projection
<1>2. LaterOf(d.floor, stamp) \in Seconds
  BY <1>1 DEF LaterOf
<1>3. \/ c = [d EXCEPT !.floor = LaterOf(d.floor, stamp)]
      \/ c = [d EXCEPT !.due = "none", !.claimed = FALSE, !.status = "ready", !.coverage = "complete",
                       !.floor = LaterOf(d.floor, stamp)]
  BY DEF Completed
<1>. DEFINE floor == LaterOf(d.floor, stamp)
<1>. HIDE DEF floor
<1>4. CASE c = [d EXCEPT !.floor = floor]
  BY <1>2, <1>4 DEF Projection, floor
<1>5. CASE c = [d EXCEPT !.due = "none", !.claimed = FALSE, !.status = "ready", !.coverage = "complete",
                         !.floor = floor]
  <2>1. floor \in Seconds
    BY <1>2 DEF floor
  <2>. DEFINE open == [d EXCEPT !.due = "none", !.claimed = FALSE, !.floor = floor]
  <2>2. open \in Projection /\ open.row = d.row /\ open.receipt = d.receipt /\ open.kept = d.kept
    BY <2>1 DEF Projection
  <2>3. c = [open EXCEPT !.status = "ready", !.coverage = "complete"]
    BY <1>5 DEF Projection
  <2>4. "ready" \in Statuses
    BY DEF Statuses
  <2>. HIDE DEF open
  <2> QED BY <2>2, <2>3, <2>4 DEF Projection
<1> QED BY <1>3, <1>4, <1>5 DEF floor

LEMMA TypePublish == ASSUME TypeOK, Publish PROVE TypeOK'
<1>. DEFINE o == Observed(db, refresh.draft, refresh.order)
            published == Completed(o, refresh.order)
<1>1. refresh.draft \in Listed /\ refresh.order \in Seconds
  BY DEF TypeOK, RefreshType
<1>2. published \in Projection /\ (published.row.draft = None => published.row = NoRow)
  <2>1. o \in Projection /\ (o.row.draft = None => o.row = NoRow)
    BY <1>1, ObservedType DEF TypeOK
  <2>. HIDE DEF o
  <2> QED BY <1>1, <2>1, CompletedType
<1>3. \/ db' = published \/ db' = Released(published) \/ db' = Released(db)
  BY DEF Publish
<1>4. \E accepted \in BOOLEAN, blocked \in BOOLEAN : Returns(accepted, blocked)
  BY DEF Publish
<1>. HIDE DEF published
<1>5. db' \in Projection /\ (db'.row.draft = None => db'.row = NoRow)
  BY <1>2, <1>3, ReleasedFacts DEF TypeOK, Kept
<1>6. refresh' \in RefreshType /\ command' \in CommandType /\ excluded' \subseteq Works \cup {None}
  BY <1>4, ReturnsType
<1>7. history' \in HistoryType
  BY DEF Publish, TypeOK, HistoryType, RefreshType
<1> QED BY <1>5, <1>6, <1>7 DEF TypeOK, Publish

\* A refresh, from its selection to its publication, keeps the types.
LEMMA TypeSnapshot == ASSUME TypeOK, SliceBegins \/ Snapshot PROVE TypeOK'
<1>1. CASE SliceBegins
  <2>1. refresh' \in RefreshType
    BY <1>1, WorkType, IdleTypes DEF TypeOK, SliceBegins, RefreshType
  <2> QED BY <1>1, <2>1 DEF TypeOK, SliceBegins
<1>2. CASE Claim
  <2>. DEFINE m == IF refresh.who = "slice" THEN db ELSE Marked(db, "later")
  <2>1. m \in Projection /\ (m.row.draft = None => m.row = NoRow)
    BY MarkedFacts DEF TypeOK, Kept
  <2>2. CASE m.due = "now"
    <3>1. db' = Claimed(m) /\ refresh' = [refresh EXCEPT !.step = "fetch"]
      BY <1>2, <2>2 DEF Claim
    <3>2. refresh' \in RefreshType
      BY <3>1 DEF TypeOK, RefreshType
    <3>. HIDE DEF m
    <3>3. db' \in Projection /\ (db'.row.draft = None => db'.row = NoRow)
      BY <2>1, <3>1, ClaimedFacts DEF Kept
    <3>4. UNCHANGED <<telegram, flight, gap, asks, caller, command, wire, phase, history, excluded>>
      BY <1>2, <2>2 DEF Claim, m
    <3> QED BY <3>2, <3>3, <3>4 DEF TypeOK
  <2>3. CASE m.due # "now"
    <3>1. db' = m /\ Returns(FALSE, TRUE)
      BY <1>2, <2>3 DEF Claim
    <3>. HIDE DEF m
    <3> QED BY <1>2, <2>1, <3>1, ReturnsType DEF TypeOK, Claim
  <2> QED BY <2>2, <2>3
<1>3. CASE SnapshotAnswered
  <2>1. /\ telegram.second \in Seconds /\ (history.wrote > 0) \in BOOLEAN
        /\ (IF telegram.draft = "absent" THEN telegram.absence ELSE telegram.draft) \in Listed
    BY DraftAssumption DEF TypeOK, TelegramType, Seconds, Listed, Drafted
  <2>2. refresh' \in RefreshType
    BY <1>3, <2>1 DEF TypeOK, SnapshotAnswered, RefreshType
  <2>3. history' \in HistoryType
    BY <1>3 DEF TypeOK, SnapshotAnswered, HistoryType
  <2> QED BY <1>3, <2>2, <2>3 DEF TypeOK, SnapshotAnswered
<1>4. ASSUME NEW how \in {"deferred", "incomplete", "error"}, SnapshotFails(how) PROVE TypeOK'
  <2>1. history' \in HistoryType
    BY <1>4, FaultType DEF TypeOK, SnapshotFails
  <2>2. Returns(FALSE, how # "deferred")
    BY <1>4 DEF SnapshotFails
  <2>3. refresh' \in RefreshType /\ command' \in CommandType /\ excluded' \subseteq Works \cup {None}
    BY <2>2, ReturnsType
  <2>4. db' \in Projection /\ (db'.row.draft = None => db'.row = NoRow)
    BY <1>4, ReleasedFacts DEF TypeOK, SnapshotFails, Kept
  <2> QED BY <1>4, <2>1, <2>3, <2>4 DEF TypeOK, SnapshotFails
<1>5. CASE Publish
  BY <1>5, TypePublish
<1> QED BY <1>1, <1>2, <1>3, <1>4, <1>5 DEF Snapshot

\* So does the command, until it waits for its postflight.
LEMMA TypeCommand ==
    ASSUME TypeOK,
           CallerReads \/ (\E action \in Actions : CommandBegins(action)) \/ CommandReads \/ Prepare \/ Save
    PROVE  TypeOK'
<1>1. CASE CallerReads
  <2>1. history' \in HistoryType
    BY <1>1 DEF TypeOK, CallerReads, HistoryType
  <2> QED BY <1>1, <2>1, VersionType DEF TypeOK, CallerReads
<1>2. ASSUME NEW action \in Actions, CommandBegins(action) PROVE TypeOK'
  <2>1. command' \in CommandType /\ refresh' \in RefreshType
    BY <1>2, IdleTypes DEF CommandBegins, CommandType, RefreshType, Steps
  <2> QED BY <1>2, <2>1 DEF TypeOK, CommandBegins
<1>3. CASE CommandReads
  <2>1. Version(db) \in Versions
    BY VersionType DEF TypeOK
  <2>2. \/ command' = Idle \/ command' = [command EXCEPT !.step = "conflict"]
        \/ \E outcome \in {"unchanged", None} :
              command' = [command EXCEPT !.step = "prepare", !.seen = Version(db), !.outcome = outcome]
    BY <1>3 DEF CommandReads
  <2>3. command' \in CommandType
    BY <2>1, <2>2, IdleTypes DEF TypeOK, CommandType, Steps
  <2> QED BY <1>3, <2>3 DEF TypeOK, CommandReads
<1>4. CASE Prepare
  <2>1. command' \in CommandType
    BY <1>4 DEF TypeOK, Prepare, CommandType, Steps
  <2>2. db' \in Projection /\ db'.row = db.row
    <3>1. db.row.draft \in Held
      BY DEF TypeOK, Projection
    <3>2. \/ db' = db \/ db' = [db EXCEPT !.receipt = "pending"]
          \/ db' = [db EXCEPT !.receipt = "pending", !.kept = @ \cup {db.row.draft}]
      <4>1. \/ db' = db
            \/ db' = [db EXCEPT !.receipt = "pending", !.kept = @]
            \/ db' = [db EXCEPT !.receipt = "pending", !.kept = @ \cup {db.row.draft}]
        BY <1>4 DEF Prepare
      <4>2. [db EXCEPT !.receipt = "pending", !.kept = @] = [db EXCEPT !.receipt = "pending"]
        BY DEF TypeOK, Projection
      <4> QED BY <4>1, <4>2
    <3>3. db.kept \cup {db.row.draft} \in SUBSET Held
      BY <3>1 DEF TypeOK, Projection
    <3>4. CASE db' = [db EXCEPT !.receipt = "pending"]
      BY <3>4 DEF TypeOK, Projection, Receipts
    <3>5. CASE db' = [db EXCEPT !.receipt = "pending", !.kept = @ \cup {db.row.draft}]
      BY <3>3, <3>5 DEF TypeOK, Projection, Receipts
    <3> QED BY <3>2, <3>4, <3>5 DEF TypeOK
  <2> QED BY <1>4, <2>1, <2>2 DEF TypeOK, Prepare
<1>5. CASE Save
  <2>1. wire' \in WireType /\ command' \in CommandType /\ history' \in HistoryType
    BY <1>5 DEF TypeOK, Save, CommandType, WireType, HistoryType, Steps
  <2> QED BY <1>5, <2>1 DEF TypeOK, Save
<1> QED BY <1>1, <1>2, <1>3, <1>4, <1>5
\* So do the write, what becomes of it, and the end of the command.
LEMMA TypeWrite ==
    ASSUME TypeOK, Control,
           \/ ConflictReported \/ Applied \/ CommandAnswered \/ (\E saved \in BOOLEAN : Checkpoint(saved))
           \/ Recover \/ PostflightBegins \/ PostflightExpires \/ Finish
    PROVE  TypeOK'
<1>1. CASE ConflictReported
  BY <1>1, IdleTypes DEF TypeOK, ConflictReported, Versions
<1>2. CASE Applied
  <2>1. Result(wire.action) \in Drafted /\ telegram.second \in Seconds
    BY DraftAssumption DEF Result, Drafted, TypeOK, TelegramType, Seconds
  <2>2. telegram' \in TelegramType /\ wire' \in WireType
    BY <1>2, <2>1 DEF Applied, TypeOK, TelegramType, WireType
  <2>. DEFINE doubted == command.step # "wait" \/ Result(wire.action) \in telegram.lately
              replaced == IF telegram.draft \in Texts /\ ~history.moved THEN {telegram.draft} ELSE {}
  <2>3. doubted \in BOOLEAN /\ replaced \in SUBSET Texts
    OBVIOUS
  <2>4. history' = [history EXCEPT !.wrote = telegram.second, !.calm = FALSE, !.doubt = doubted,
                                   !.replaced = replaced]
    BY <1>2 DEF Applied
  <2>. HIDE DEF doubted, replaced
  <2>5. history' \in HistoryType
    BY <2>1, <2>3, <2>4 DEF TypeOK, HistoryType
  <2> QED BY <1>2, <2>2, <2>5 DEF TypeOK, Applied
<1>3. CASE CommandAnswered
  <2>1. \/ wire' = wire \/ wire' = [wire EXCEPT !.step = "refused"]
    BY <1>3 DEF CommandAnswered
  <2>2. \/ history' = history
        \/ history.faults < MaxFaults /\ history' = [history EXCEPT !.faults = @ + 1]
    BY <1>3 DEF CommandAnswered
  <2>3. \E outcome \in {"acknowledged", "rejected", "unknown"}, step \in {"acked", "recover"} :
            command' = [command EXCEPT !.outcome = outcome, !.step = step]
    BY <1>3 DEF CommandAnswered, Answered
  <2>4. wire' \in WireType /\ history' \in HistoryType /\ command' \in CommandType
    BY <2>1, <2>2, <2>3, FaultType DEF TypeOK, WireType, CommandType, Steps
  <2> QED BY <1>3, <2>4 DEF TypeOK, CommandAnswered
<1>4. ASSUME NEW saved \in BOOLEAN, Checkpoint(saved) PROVE TypeOK'
  <2>1. \/ history' = history
        \/ history.faults < MaxFaults /\ history' = [history EXCEPT !.faults = @ + 1]
    BY <1>4 DEF Checkpoint
  <2>2. \/ db' = db \/ db' = [db EXCEPT !.receipt = "verifying"]
    BY <1>4 DEF Checkpoint
  <2>3. command' \in CommandType
    BY <1>4 DEF TypeOK, Checkpoint, CommandType, Steps
  <2>4. history' \in HistoryType
    BY <2>1, FaultType DEF TypeOK
  <2>5. db' \in Projection /\ db'.row = db.row
    BY <2>2 DEF TypeOK, Projection, Receipts
  <2> QED BY <1>4, <2>3, <2>4, <2>5 DEF TypeOK, Checkpoint
<1>5. CASE Recover
  <2>1. command' \in CommandType
    BY <1>5 DEF TypeOK, Recover, CommandType, Steps
  <2> QED BY <1>5, <2>1, MarkedFacts DEF TypeOK, Recover, Kept
<1>6. CASE PostflightBegins \/ PostflightExpires
  <2>1. command' \in CommandType
    BY <1>6 DEF TypeOK, PostflightBegins, PostflightExpires, CommandType, Steps
  <2>2. refresh' \in RefreshType
    BY <1>6, IdleTypes DEF TypeOK, PostflightBegins, PostflightExpires, RefreshType
  <2> QED BY <1>6, <2>1, <2>2 DEF TypeOK, PostflightBegins, PostflightExpires
<1>7. CASE Finish
  <2>1. command.outcome # "acknowledged" => command.outcome \in Receipts
    BY <1>7 DEF Finish, Control, Receipts
  <2>2. db.receipt \in Receipts
    BY DEF TypeOK, Projection
  <2>3. Verdict \in Receipts
    BY DEF Verdict, Receipts
  <2>4. \E receipt \in Receipts : db' = [db EXCEPT !.receipt = receipt]
    BY <1>7, <2>1, <2>2, <2>3 DEF Finish
  <2>5. db' \in Projection /\ db'.row = db.row
    BY <2>4 DEF TypeOK, Projection
  <2> QED BY <1>7, <2>5, IdleTypes DEF TypeOK, Finish
<1> QED BY <1>1, <1>2, <1>3, <1>4, <1>5, <1>6, <1>7

\* Stops and starts keep the types.
LEMMA TypeStops == ASSUME TypeOK, Control, Shutdown \/ Restart \/ Startup PROVE TypeOK'
<1>1. CASE Shutdown
  <2>1. db.receipt \in Receipts /\ (command.step = "finish" => command.outcome \in Receipts)
    BY DEF TypeOK, Projection, Receipts, Control
  <2>2. Interrupted \subseteq Receipts
    BY <2>1 DEF Interrupted, Receipts
  <2>. DEFINE r == Released(db)
  <2>3. r \in Projection /\ r.row = db.row
    BY ReleasedFacts DEF TypeOK, Kept
  <2>4. PICK receipt \in Receipts : db' = [r EXCEPT !.receipt = receipt]
    BY <1>1, <2>2 DEF Shutdown
  <2>. HIDE DEF r
  <2>5. db' \in Projection /\ db'.row = db.row
    BY <2>3, <2>4 DEF Projection
  <2> QED BY <1>1, <2>5, IdleTypes DEF TypeOK, Shutdown
<1>2. CASE Restart
  <2>. DEFINE e == Bound(db)
  <2>1. e \in Projection /\ e.row = db.row
    BY BoundFacts DEF TypeOK, Kept
  <2>2. Settled(e.receipt) \in Receipts /\ db' = [e EXCEPT !.receipt = Settled(@)]
    BY <1>2, <2>1 DEF Restart, Settled, Receipts, Projection
  <2>. HIDE DEF e
  <2>3. db' \in Projection /\ db'.row = db.row
    BY <2>1, <2>2 DEF Projection
  <2>4. history.crashes + 1 \in 0..MaxCrash
    BY <1>2, DraftAssumption DEF Restart, TypeOK, HistoryType
  <2>5. history' \in HistoryType
    BY <1>2, <2>4 DEF Restart, TypeOK, HistoryType
  <2> QED BY <1>2, <2>3, <2>5, IdleTypes DEF TypeOK, Restart
<1>3. CASE Startup
  BY <1>3, MarkedFacts DEF TypeOK, Startup, Kept
<1> QED BY <1>1, <1>2, <1>3

LEMMA TypeStep == ASSUME TypeOK, Control, [Next]_vars PROVE TypeOK'
<1>1. CASE UNCHANGED vars
  BY <1>1 DEF vars, TypeOK
<1> QED BY <1>1, TypeUpdates, TypeSnapshot, TypeCommand, TypeWrite, TypeStops DEF Next, Executing

\* Every variable keeps its type, and the command and the lock their agreement.
THEOREM TypeCorrect == Spec => [](TypeOK /\ Control)
<1>1. Init => TypeOK /\ Control
  BY TypeInit, ControlInit
<1>2. TypeOK /\ Control /\ [Next]_vars => (TypeOK /\ Control)'
  BY TypeStep, ControlStep
<1> QED BY <1>1, <1>2, PTL DEF Spec
-----------------------------------------------------------------------------
(* The fate of the write *)

\* _publish_snapshot leaves the receipt.
LEMMA PublishReceipt == ASSUME TypeOK, Publish PROVE db'.receipt = db.receipt
<1>. DEFINE o == Observed(db, refresh.draft, refresh.order)
            published == Completed(o, refresh.order)
<1>1. refresh.draft \in Listed /\ refresh.order \in Seconds
  BY DEF TypeOK, RefreshType
<1>2. published \in Projection /\ published.receipt = db.receipt
  <2>1. o \in Projection /\ o.receipt = db.receipt
    BY <1>1, ObservedType DEF TypeOK
  <2>. HIDE DEF o
  <2> QED BY <1>1, <2>1, CompletedType
<1>3. db' = published \/ db' = Released(published) \/ db' = Released(db)
  BY DEF Publish
<1>. HIDE DEF published
<1> QED BY <1>2, <1>3, ReleasedFacts DEF TypeOK, Kept

LEMMA FateInit == Init => Fate
<1> SUFFICES ASSUME Init PROVE Fate
  OBVIOUS
<1>1. /\ refresh.who = None /\ command.step = "idle" /\ command.outcome = None /\ wire.step = "none"
      /\ history.sent = 0
  BY DEF Init, NoRefresh, Idle
<1>2. db.receipt = "none"
  BY InitialRows, BoundFacts DEF Kept
<1> QED BY <1>1, <1>2, DraftAssumption DEF Fate

\* The parts of the state that speak of the write stay.
LEMMA FateStays ==
    ASSUME Fate, command' = command, wire' = wire, db'.receipt = db.receipt,
           history'.sent = history.sent, history'.wrote = history.wrote, history'.proved = history.proved,
           refresh'.step = "answered" => refresh' = refresh
    PROVE  Fate'
BY DEF Fate

\* A refresh returns without having proved anything, to whoever holds the lock.
LEMMA FateReturns ==
    ASSUME TypeOK, Control, Fate, refresh.step # "none", NEW accepted \in BOOLEAN, NEW blocked \in BOOLEAN,
           Returns(accepted, blocked), wire' = wire, db'.receipt = db.receipt,
           history'.sent = history.sent, history'.wrote = history.wrote,
           history.proved => history'.proved,
           accepted /\ refresh.who = "postflight" /\ command.outcome = "acknowledged" => history'.proved
    PROVE  Fate'
<1>1. command \in CommandType /\ refresh'.who = None
  <2>1. refresh' = NoRefresh
    BY ReturnsCommand
  <2> QED BY <2>1 DEF TypeOK, NoRefresh
<1>2. CASE refresh.who = "slice" /\ command' = command
  BY <1>1, <1>2, DraftAssumption DEF Fate
<1>3. CASE command' = Idle
  BY <1>1, <1>3, DraftAssumption DEF Fate, Idle
<1>4. CASE command.step = "preflight" /\ command' = [command EXCEPT !.step = "read"]
  <2>1. command'.step = "read" /\ command'.outcome = command.outcome
    BY <1>1, <1>4 DEF CommandType
  <2> QED BY <1>1, <1>4, <2>1, DraftAssumption DEF Fate
<1>5. CASE /\ refresh.who = "postflight" /\ command.step = "verify"
           /\ command' = [command EXCEPT !.step = "compare", !.verdict = accepted]
  <2>1. command'.step = "compare" /\ command'.outcome = command.outcome /\ (command'.verdict <=> accepted)
    BY <1>1, <1>5 DEF CommandType
  <2> QED BY <1>1, <1>5, <2>1, DraftAssumption DEF Fate
<1> QED BY <1>2, <1>3, <1>4, <1>5, ReturnsCommand

\* Updates, refreshes and stops leave the fate of the write known.
LEMMA FateProjection ==
    ASSUME TypeOK, Control, Fate, Updates \/ SliceBegins \/ Snapshot \/ Startup PROVE Fate'
<1>1. db \in Projection /\ history \in HistoryType /\ refresh \in RefreshType
  BY DEF TypeOK
<1>2. ASSUME NEW draft, NEW dated \in BOOLEAN, NEW heard \in BOOLEAN, RemoteEdit(draft, dated, heard) PROVE Fate'
  <2>. DEFINE doubted == history.doubt \/ draft \in telegram.lately
              told == [history EXCEPT !.calm = FALSE, !.moved = TRUE, !.doubt = doubted]
  <2>1. history' = told \/ history' = [told EXCEPT !.faults = @ + 1]
    BY <1>2 DEF RemoteEdit
  <2>2. history'.sent = history.sent /\ history'.wrote = history.wrote /\ history'.proved = history.proved
    BY <1>1, <2>1 DEF HistoryType
  <2> QED BY <1>2, <2>2, FateStays DEF RemoteEdit
<1>3. CASE ClockTicks
  BY <1>3, FateStays DEF ClockTicks
<1>4. ASSUME NEW u \in flight, NEW retry \in {"now", "later"}, Deliver(u, retry) PROVE Fate'
  <2>1. db'.receipt = db.receipt
    BY <1>1, <1>4, RealtimeFacts DEF Deliver, TypeOK
  <2> QED BY <1>4, <2>1, FateStays DEF Deliver
<1>5. ASSUME NEW u \in flight, DeliverFails(u) PROVE Fate'
  <2>1. history'.sent = history.sent /\ history'.wrote = history.wrote /\ history'.proved = history.proved
    BY <1>1, <1>5 DEF DeliverFails, HistoryType
  <2> QED BY <1>1, <1>5, <2>1, MarkedFacts, FateStays DEF DeliverFails, Kept
<1>6. CASE Ask \/ ReconnectObserved \/ Startup
  BY <1>1, <1>6, MarkedFacts, FateStays DEF Ask, ReconnectObserved, Startup, Kept
<1>7. CASE DuePasses
  <2>1. db'.receipt = db.receipt
    BY <1>1, <1>7 DEF DuePasses, Projection
  <2> QED BY <1>7, <2>1, FateStays DEF DuePasses
<1>8. CASE SliceBegins
  BY <1>8, FateStays DEF SliceBegins, NoRefresh
<1>9. CASE Claim
  <2>. DEFINE m == IF refresh.who = "slice" THEN db ELSE Marked(db, "later")
  <2>1. m \in Projection /\ m.receipt = db.receipt
    BY <1>1, MarkedFacts DEF Kept
  <2>2. CASE db' = m /\ Returns(FALSE, TRUE)
    <3>. HIDE DEF m
    <3> QED BY <1>9, <2>1, <2>2, FateReturns DEF Claim
  <2>3. CASE db' = Claimed(m) /\ refresh' = [refresh EXCEPT !.step = "fetch"] /\ command' = command
    <3>. HIDE DEF m
    <3>1. db'.receipt = db.receipt /\ refresh'.step = "fetch"
      BY <1>1, <2>1, <2>3, ClaimedFacts DEF Kept, RefreshType
    <3> QED BY <1>9, <2>3, <3>1, FateStays DEF Claim
  <2> QED BY <1>9, <2>2, <2>3 DEF Claim
<1>10. CASE SnapshotAnswered
  <2>1. refresh'.after = (history.wrote > 0) /\ refresh'.who = refresh.who
    BY <1>1, <1>10 DEF SnapshotAnswered, RefreshType
  <2>2. history'.sent = history.sent /\ history'.wrote = history.wrote /\ history'.proved = history.proved
    BY <1>1, <1>10 DEF SnapshotAnswered, HistoryType
  <2> QED BY <1>10, <2>1, <2>2 DEF SnapshotAnswered, Fate
<1>11. ASSUME NEW how \in {"deferred", "incomplete", "error"}, SnapshotFails(how) PROVE Fate'
  <2>1. history'.sent = history.sent /\ history'.wrote = history.wrote /\ history'.proved = history.proved
    BY <1>1, <1>11 DEF SnapshotFails, HistoryType
  <2>2. db'.receipt = db.receipt
    BY <1>1, <1>11, ReleasedFacts DEF SnapshotFails, Kept
  <2>3. (how # "deferred") \in BOOLEAN /\ Returns(FALSE, how # "deferred")
    BY <1>11 DEF SnapshotFails
  <2>4. \E blocked \in BOOLEAN : Returns(FALSE, blocked)
    BY <2>3, Zenon
  <2> QED BY <1>11, <2>1, <2>2, <2>4, FateReturns DEF SnapshotFails
<1>12. CASE Publish
  <2>1. db'.receipt = db.receipt
    BY <1>12, PublishReceipt
  <2>2. CASE Returns(TRUE, FALSE) /\ history' = [history EXCEPT !.proved = @ \/ refresh.after]
    <3>1. /\ history'.sent = history.sent /\ history'.wrote = history.wrote
          /\ history.proved => history'.proved
          /\ refresh.after => history'.proved
      BY <1>1, <2>2 DEF HistoryType
    <3>2. refresh.who = "postflight" /\ command.outcome = "acknowledged" => refresh.after
      BY <1>12 DEF Publish, Fate
    <3> QED BY <1>12, <2>1, <2>2, <3>1, <3>2, FateReturns DEF Publish
  <2>3. CASE Returns(FALSE, TRUE) /\ history' = history
    BY <1>12, <2>1, <2>3, FateReturns DEF Publish
  <2> QED BY <1>12, <2>2, <2>3 DEF Publish
<1> QED BY <1>2, <1>3, <1>4, <1>5, <1>6, <1>7, <1>8, <1>9, <1>10, <1>11, <1>12 DEF Updates, Snapshot
\* So does the command, from the version its caller has read to the end of its write.
LEMMA FateCommand ==
    ASSUME TypeOK, Control, Fate,
           CallerReads \/ (\E action \in Actions : CommandBegins(action)) \/ Executing \/ Applied
    PROVE  Fate'
<1>. USE DraftAssumption
<1>1. db \in Projection /\ history \in HistoryType /\ command \in CommandType /\ wire \in WireType
  BY DEF TypeOK
<1>2. CASE CallerReads
  <2>1. history'.sent = history.sent /\ history'.wrote = history.wrote /\ history'.proved = history.proved
    BY <1>1, <1>2 DEF CallerReads, HistoryType
  <2> QED BY <1>2, <2>1, FateStays DEF CallerReads
<1>3. ASSUME NEW action \in Actions, CommandBegins(action) PROVE Fate'
  <2>1. refresh'.step = "begun" /\ command'.step = "preflight" /\ command'.outcome = None /\ ~command'.verdict
    BY <1>3 DEF CommandBegins, NoRefresh, Idle
  <2> QED BY <1>3, <2>1 DEF CommandBegins, Fate
<1>4. CASE CommandReads
  <2>1. \/ command' = Idle \/ command' = [command EXCEPT !.step = "conflict"]
        \/ \E outcome \in {"unchanged", None} :
              command' = [command EXCEPT !.step = "prepare", !.seen = Version(db), !.outcome = outcome]
    BY <1>4 DEF CommandReads
  <2>2. /\ command'.step \in {"idle", "conflict", "prepare"}
        /\ command'.outcome \in {None, "unchanged", command.outcome}
    <3>1. CASE command' = Idle
      BY <3>1 DEF Idle
    <3>2. CASE command' = [command EXCEPT !.step = "conflict"]
      BY <1>1, <3>2 DEF CommandType
    <3>3. ASSUME NEW outcome \in {"unchanged", None},
                 command' = [command EXCEPT !.step = "prepare", !.seen = Version(db), !.outcome = outcome]
          PROVE  command'.step = "prepare" /\ command'.outcome = outcome
      BY <1>1, <3>3 DEF CommandType
    <3> QED BY <2>1, <3>1, <3>2, <3>3
  <2> QED BY <1>4, <2>2 DEF CommandReads, Fate
<1>5. CASE Prepare
  <2>1. /\ command'.outcome = command.outcome
        /\ \/ command'.step = "conflict" /\ db' = db
           \/ command'.step \in {"finish", "dispatch"} /\ db'.receipt = "pending"
    <3>1. CASE command' = [command EXCEPT !.step = "conflict"] /\ db' = db
      BY <1>1, <3>1 DEF CommandType
    <3>2. CASE Version(db) = command.seen
      <4>1. command'.outcome = command.outcome /\ command'.step \in {"finish", "dispatch"}
        BY <1>1, <1>5, <3>2 DEF Prepare, CommandType
      <4>2. db'.receipt = "pending"
        BY <1>1, <1>5, <3>2 DEF Prepare, Projection
      <4> QED BY <4>1, <4>2
    <3> QED BY <1>5, <3>1, <3>2 DEF Prepare
  <2> QED BY <1>5, <2>1 DEF Prepare, Fate
<1>6. CASE ConflictReported
  <2>1. command'.step = "idle" /\ command'.outcome = None
    BY <1>6 DEF ConflictReported, Idle
  <2> QED BY <1>6, <2>1 DEF ConflictReported, Fate
<1>7. CASE Save
  <2>1. /\ history'.sent = history.sent + 1 /\ history'.wrote = history.wrote /\ history'.proved = history.proved
        /\ command'.step = "wait" /\ command'.outcome = command.outcome /\ wire'.step = "sent"
    BY <1>1, <1>7 DEF Save, HistoryType, CommandType
  <2> QED BY <1>7, <2>1 DEF Save, Fate
<1>8. CASE Applied
  <2>1. history'.sent = history.sent /\ history'.wrote = telegram.second /\ history'.proved = history.proved
        /\ wire'.step = "applied"
    BY <1>1, <1>8 DEF Applied, HistoryType, WireType
  <2>2. telegram.second > 0
    BY DEF TypeOK, TelegramType
  <2> QED BY <1>8, <2>1, <2>2 DEF Applied, Fate
<1>9. CASE CommandAnswered
  <2>1. history'.sent = history.sent /\ history'.wrote = history.wrote /\ history'.proved = history.proved
    BY <1>1, <1>9 DEF CommandAnswered, HistoryType
  <2>2. /\ command'.step \in {"acked", "recover"}
        /\ command'.outcome \in {"rejected", "unknown"} \/ (command'.outcome = "acknowledged" /\ wire.step = "applied")
    BY <1>1, <1>9 DEF CommandAnswered, Answered, CommandType
  <2>3. wire' = wire \/ (wire.step = "sent" /\ wire'.step = "refused")
    BY <1>1, <1>9 DEF CommandAnswered, WireType
  <2>4. refresh' = refresh /\ refresh.who # "postflight" /\ db' = db
    BY <1>9 DEF CommandAnswered, Control
  <2> QED BY <2>1, <2>2, <2>3, <2>4 DEF Fate
<1>10. ASSUME NEW saved \in BOOLEAN, Checkpoint(saved) PROVE Fate'
  <2>1. history'.sent = history.sent /\ history'.wrote = history.wrote /\ history'.proved = history.proved
    BY <1>1, <1>10 DEF Checkpoint, HistoryType
  <2>2. command'.step = "recover" /\ command'.outcome = command.outcome
    BY <1>1, <1>10 DEF Checkpoint, CommandType
  <2>3. db' = db \/ db'.receipt = "verifying"
    BY <1>1, <1>10 DEF Checkpoint, Projection
  <2> QED BY <1>10, <2>1, <2>2, <2>3 DEF Checkpoint, Fate
<1>11. CASE Recover
  <2>1. db'.receipt = db.receipt
    BY <1>1, <1>11, MarkedFacts DEF Recover, Kept
  <2>2. command'.step \in {"finish", "postflight"} /\ command'.outcome = command.outcome
    BY <1>1, <1>11 DEF Recover, CommandType
  <2> QED BY <1>11, <2>1, <2>2 DEF Recover, Fate
<1>12. CASE PostflightBegins
  <2>1. command'.step = "verify" /\ command'.outcome = command.outcome /\ refresh'.step = "begun"
    BY <1>1, <1>12 DEF PostflightBegins, CommandType, NoRefresh
  <2> QED BY <1>12, <2>1 DEF PostflightBegins, Fate
<1>13. CASE PostflightExpires
  <2>1. command'.step = "compare" /\ command'.outcome = command.outcome /\ ~command'.verdict
    BY <1>1, <1>13 DEF PostflightExpires, CommandType, Control
  <2> QED BY <1>13, <2>1 DEF PostflightExpires, Fate
<1>14. CASE Finish
  <2>1. command'.step = "idle" /\ command'.outcome = None /\ ~command'.verdict
    BY <1>14 DEF Finish, Idle
  <2>2. command.outcome # "acknowledged" => command.outcome \in {"unchanged", "rejected", "unknown"}
    BY <1>14 DEF Finish, Control
  <2>3. command.outcome = "acknowledged" => command.step = "compare"
    BY <1>14 DEF Finish, Control
  <2>4. /\ Verdict \in {"unverified", "verified", "conflict"}
        /\ Verdict # "unverified" => command.verdict
    BY DEF Verdict
  <2>5. db'.receipt = IF command.outcome # "acknowledged" THEN command.outcome
                      ELSE IF db.receipt = "verifying" THEN Verdict ELSE db.receipt
    BY <1>1, <1>14 DEF Finish, Projection
  <2>6. db'.receipt # "none" \/ db'.receipt = db.receipt
    BY <2>2, <2>4, <2>5
  <2>7. db'.receipt \in {"verified", "conflict"} => history.proved
    BY <2>2, <2>3, <2>4, <2>5 DEF Fate
  <2> QED BY <1>14, <2>1, <2>6, <2>7 DEF Finish, Fate
<1> QED BY <1>2, <1>3, <1>4, <1>5, <1>6, <1>7, <1>8, <1>9, <1>10, <1>11, <1>12, <1>13, <1>14 DEF Executing

\* A stop settles the receipt without a verdict.
LEMMA FateStops == ASSUME TypeOK, Control, Fate, Shutdown \/ Restart PROVE Fate'
<1>. USE DraftAssumption
<1>1. db \in Projection /\ history \in HistoryType
  BY DEF TypeOK
<1>2. /\ command'.step = "idle" /\ command'.outcome = None /\ refresh'.step = "none" /\ wire' = wire
  BY DEF Shutdown, Restart, Idle, NoRefresh
<1>3. history'.sent = history.sent /\ history'.wrote = history.wrote /\ history'.proved = history.proved
  BY <1>1 DEF Shutdown, Restart, HistoryType
<1>4. db'.receipt = db.receipt \/ db'.receipt \in {"unknown", "rejected", "pending", "unchanged", "unverified"}
  <2>1. CASE Shutdown
    <3>. DEFINE r == Released(db)
    <3>1. r \in Projection
      BY <1>1, ReleasedFacts
    <3>2. PICK receipt \in Interrupted : db' = [r EXCEPT !.receipt = receipt]
      BY <2>1 DEF Shutdown
    <3>3. command.step = "finish" => command.outcome \in {"unchanged", "rejected"}
      BY DEF Control
    <3>4. receipt \in {db.receipt, "unknown", "rejected", "pending", "unchanged", "unverified"}
      BY <3>2, <3>3 DEF Interrupted
    <3>. HIDE DEF r
    <3> QED BY <3>1, <3>2, <3>4 DEF Projection
  <2>2. CASE Restart
    <3>. DEFINE e == Bound(db)
    <3>1. e \in Projection /\ e.receipt = db.receipt
      BY <1>1, BoundFacts DEF Kept
    <3>2. db' = [e EXCEPT !.receipt = Settled(e.receipt)]
      BY <2>2 DEF Restart
    <3>. HIDE DEF e
    <3>3. db'.receipt = Settled(db.receipt)
      BY <3>1, <3>2 DEF Projection
    <3> QED BY <3>3 DEF Settled
  <2> QED BY <2>1, <2>2
<1> QED BY <1>2, <1>3, <1>4 DEF Fate

LEMMA FateStep == ASSUME TypeOK, Control, Fate, [Next]_vars PROVE Fate'
<1>1. CASE UNCHANGED vars
  BY <1>1, FateStays DEF vars
<1> QED BY <1>1, FateProjection, FateCommand, FateStops DEF Next
-----------------------------------------------------------------------------
(* Steps that leave what is known of the draft alone *)

\* A recovery that is asked for, whatever the step does besides
LEMMA SteadyMark ==
    ASSUME TypeOK, db' = Marked(db, "later"), telegram' = telegram, flight' = flight,
           refresh'.step = "answered" => refresh' = refresh
    PROVE  Steady
BY MarkedFacts DEF TypeOK, Steady, Kept, Pending

\* A step of the command, or of the lock, that does not touch the projection
LEMMA SteadyElsewhere ==
    ASSUME db' = db, telegram' = telegram, flight' = flight,
           refresh' = refresh \/ (~db.claimed /\ refresh'.step # "answered"),
           Blocked => Blocked'
    PROVE  Steady
BY DEF Steady

\* Returns does not touch what blocks the projection.
LEMMA ReturnsBlocked ==
    ASSUME TypeOK, Control, refresh.step # "none", NEW accepted \in BOOLEAN, NEW blocked \in BOOLEAN,
           Returns(accepted, blocked), gap' = gap, asks' = asks, wire' = wire, phase' = phase,
           history'.doubt = history.doubt
    PROVE  Blocked => Blocked'
<1>1. command.step \in {"wait", "acked", "recover"} => command' = command
  BY ReturnsCommand
<1> QED BY <1>1 DEF Blocked

\* Recoveries, claims, selections and stops are steady.
LEMMA SteadyProjection ==
    ASSUME TypeOK, Control, ClaimHasOwner,
           \/ (\E u \in flight : DeliverFails(u)) \/ Ask \/ ReconnectObserved \/ DuePasses \/ SliceBegins
           \/ Claim \/ (\E how \in {"deferred", "incomplete", "error"} : SnapshotFails(how))
           \/ (Publish /\ ~Accepts(db, refresh.order)) \/ Shutdown \/ Restart \/ Startup
    PROVE  Steady
<1>1. db \in Projection /\ history \in HistoryType /\ refresh \in RefreshType
  BY DEF TypeOK
<1>2. ASSUME NEW u \in flight, DeliverFails(u) PROVE Steady
  BY <1>2, SteadyMark DEF DeliverFails
<1>3. CASE Ask \/ ReconnectObserved \/ Startup
  BY <1>3, SteadyMark DEF Ask, ReconnectObserved, Startup
<1>4. CASE DuePasses
  <2>1. /\ db'.row = db.row /\ db'.floor = db.floor /\ db'.uncertain = db.uncertain
        /\ db'.kept = db.kept /\ db'.claimed = db.claimed /\ db'.due = "now"
    BY <1>1, <1>4 DEF DuePasses, Projection
  <2>2. Blocked' <=> Blocked
    BY <1>4 DEF DuePasses, Blocked
  <2> QED BY <1>4, <2>1, <2>2 DEF DuePasses, Steady, Pending
<1>5. CASE SliceBegins
  <2>1. ~db.claimed /\ refresh'.step = "begun" /\ (Blocked => Blocked')
    BY <1>5 DEF SliceBegins, ClaimHasOwner, NoRefresh, Blocked
  <2> QED BY <1>5, <2>1, SteadyElsewhere DEF SliceBegins
<1>6. CASE Claim
  <2>1. ~db.claimed
    BY <1>6 DEF Claim, ClaimHasOwner
  <2>2. CASE refresh.who # "slice"
    <3>. DEFINE m == Marked(db, "later")
    <3>1. m \in Projection /\ Kept(db, m) /\ ~m.claimed /\ m.due \in {"now", "later"}
      BY <1>1, MarkedFacts
    <3>2. CASE db' = m /\ Returns(FALSE, TRUE)
      <4>1. refresh'.step = "none"
        BY <3>2 DEF Returns, NoRefresh
      <4> QED BY <1>6, <3>2, <4>1, SteadyMark DEF Claim
    <3>3. CASE /\ db' = Claimed(m) /\ refresh' = [refresh EXCEPT !.step = "fetch"]
               /\ UNCHANGED <<command, excluded>>
      <4>. HIDE DEF m
      <4>1. db' \in Projection /\ Kept(m, db') /\ db'.claimed /\ Pending(db')
        BY <3>1, <3>3, ClaimedFacts
      <4>2. refresh'.step = "fetch" /\ (Blocked => Blocked')
        BY <1>1, <1>6, <3>3 DEF RefreshType, Blocked, Claim
      <4> QED BY <1>6, <3>1, <4>1, <4>2 DEF Claim, Steady, Kept
    <3> QED BY <1>6, <2>2, <3>2, <3>3 DEF Claim
  <2>3. CASE refresh.who = "slice"
    <3>1. CASE db' = db /\ Returns(FALSE, TRUE)
      <4>1. refresh'.step = "none" /\ (Blocked => Blocked')
        <5>1. refresh'.step = "none"
          BY <3>1 DEF Returns, NoRefresh
        <5> QED BY <1>6, <3>1, <5>1, ReturnsBlocked DEF Claim
      <4> QED BY <1>6, <2>1, <3>1, <4>1, SteadyElsewhere DEF Claim
    <3>2. CASE /\ db' = Claimed(db) /\ refresh' = [refresh EXCEPT !.step = "fetch"]
               /\ UNCHANGED <<command, excluded>>
      <4>1. db' \in Projection /\ Kept(db, db') /\ db'.claimed /\ Pending(db')
        BY <1>1, <3>2, ClaimedFacts
      <4>2. refresh'.step = "fetch" /\ (Blocked => Blocked')
        BY <1>1, <1>6, <3>2 DEF RefreshType, Blocked, Claim
      <4> QED BY <1>6, <4>1, <4>2 DEF Claim, Steady, Kept
    <3> QED BY <1>6, <2>3, <3>1, <3>2 DEF Claim
  <2> QED BY <2>2, <2>3
<1>7. ASSUME db' = Released(db), UNCHANGED <<telegram, flight, gap, asks, wire, phase>>,
             history'.doubt = history.doubt, refresh.step # "none",
             NEW blocked \in BOOLEAN, Returns(FALSE, blocked)
      PROVE  Steady
  <2>1. refresh'.step = "none" /\ (Blocked => Blocked')
    <3>1. refresh'.step = "none"
      BY <1>7 DEF Returns, NoRefresh
    <3> QED BY <1>7, <3>1, ReturnsBlocked
  <2>2. db' \in Projection /\ Kept(db, db') /\ ~db'.claimed /\ (Pending(db) <=> Pending(db'))
    BY <1>1, <1>7, ReleasedFacts
  <2> QED BY <1>7, <2>1, <2>2 DEF Steady, Kept
<1>8. ASSUME NEW how \in {"deferred", "incomplete", "error"}, SnapshotFails(how) PROVE Steady
  <2>1. history'.doubt = history.doubt
    BY <1>1, <1>8 DEF SnapshotFails, HistoryType
  <2>2. (how # "deferred") \in BOOLEAN /\ Returns(FALSE, how # "deferred")
    BY <1>8 DEF SnapshotFails
  <2>3. \E blocked \in BOOLEAN : Returns(FALSE, blocked)
    BY <2>2, Zenon
  <2> QED BY <1>7, <1>8, <2>1, <2>3 DEF SnapshotFails
<1>9. CASE Publish /\ ~Accepts(db, refresh.order)
  BY <1>7, <1>9 DEF Publish
<1>10. CASE Shutdown
  <2>. DEFINE r == Released(db)
  <2>1. r \in Projection /\ Kept(db, r) /\ ~r.claimed /\ (Pending(db) <=> Pending(r))
    BY <1>1, ReleasedFacts
  <2>2. \E receipt \in Interrupted : db' = [r EXCEPT !.receipt = receipt]
    BY <1>10 DEF Shutdown
  <2>. HIDE DEF r
  <2>3. /\ db'.row = db.row /\ db'.floor = db.floor /\ db'.uncertain = db.uncertain
        /\ db'.kept = db.kept /\ ~db'.claimed /\ (Pending(db) <=> Pending(db'))
    BY <2>1, <2>2 DEF Projection, Kept, Pending
  <2>4. Blocked' /\ refresh'.step = "none"
    BY <1>10 DEF Shutdown, Blocked, NoRefresh
  <2> QED BY <1>10, <2>3, <2>4 DEF Shutdown, Steady
<1>11. CASE Restart
  <2>. DEFINE e == Bound(db)
  <2>1. /\ e \in Projection /\ Kept(db, e) /\ ~e.claimed
        /\ db.uncertain \/ LegacyPending(db) => Pending(e)
    BY <1>1, BoundFacts
  <2>2. db' = [e EXCEPT !.receipt = Settled(e.receipt)]
    BY <1>11 DEF Restart
  <2>. HIDE DEF e
  <2>3. /\ db'.row = db.row /\ db'.floor = db.floor /\ db'.uncertain = db.uncertain
        /\ db'.kept = db.kept /\ ~db'.claimed /\ (db.uncertain \/ LegacyPending(db) => Pending(db'))
    BY <2>1, <2>2 DEF Projection, Kept, Pending
  <2>4. /\ Blocked' /\ refresh'.step = "none" /\ phase' = "starting" /\ telegram' = telegram
        /\ flight' \subseteq flight
    BY <1>11 DEF Restart, Blocked, NoRefresh
  <2> QED BY <2>3, <2>4 DEF Steady
<1> QED BY <1>2, <1>3, <1>4, <1>5, <1>6, <1>8, <1>9, <1>10, <1>11
\* The receipt and the archive of a scope say nothing of its draft.
LEMMA SteadyReceipt ==
    ASSUME TypeOK, NEW receipt, NEW kept, db.kept \subseteq kept,
           db' = [db EXCEPT !.receipt = receipt, !.kept = kept],
           telegram' = telegram, flight' = flight, refresh' = refresh, Blocked => Blocked'
    PROVE  Steady
<1>1. /\ db'.row = db.row /\ db'.floor = db.floor /\ db'.uncertain = db.uncertain
      /\ db'.kept = kept /\ db'.claimed = db.claimed /\ db'.due = db.due
  BY DEF TypeOK, Projection
<1> QED BY <1>1 DEF Steady, Pending

\* The command is steady.
LEMMA SteadyCommand ==
    ASSUME TypeOK, Control, ClaimHasOwner,
           CallerReads \/ (\E action \in Actions : CommandBegins(action)) \/ Executing \/ UNCHANGED vars
    PROVE  Steady
<1>1. db \in Projection /\ history \in HistoryType /\ command \in CommandType /\ wire \in WireType
  BY DEF TypeOK
<1>2. refresh = NoRefresh => ~db.claimed
  BY DEF ClaimHasOwner, NoRefresh
<1>3. ASSUME NEW receipt PROVE [db EXCEPT !.receipt = receipt] = [db EXCEPT !.receipt = receipt, !.kept = db.kept]
  BY <1>1 DEF Projection
<1>4. CASE CallerReads
  <2>1. history'.doubt = history.doubt
    BY <1>1, <1>4 DEF CallerReads, HistoryType
  <2>2. Blocked => Blocked'
    BY <1>4, <2>1 DEF CallerReads, Blocked
  <2> QED BY <1>4, <2>2, SteadyElsewhere DEF CallerReads
<1>5. ASSUME NEW action \in Actions, CommandBegins(action) PROVE Steady
  <2>1. refresh'.step = "begun" /\ (Blocked => Blocked')
    BY <1>5 DEF CommandBegins, NoRefresh, Blocked
  <2> QED BY <1>2, <1>5, <2>1, SteadyElsewhere DEF CommandBegins
<1>6. CASE CommandReads
  <2>1. Blocked => Blocked'
    BY <1>6 DEF CommandReads, Blocked
  <2> QED BY <1>6, <2>1, SteadyElsewhere DEF CommandReads
<1>7. CASE Prepare
  <2>1. Blocked => Blocked'
    BY <1>7 DEF Prepare, Blocked
  <2>2. CASE db' = db
    BY <1>7, <2>1, <2>2, SteadyElsewhere DEF Prepare
  <2>3. CASE Version(db) = command.seen
    <3>. DEFINE kept == IF db.row = NoRow \/ command.outcome = "unchanged" THEN db.kept
                        ELSE db.kept \cup {db.row.draft}
    <3>1. db' = [db EXCEPT !.receipt = "pending", !.kept = kept] /\ db.kept \subseteq kept
      BY <1>7, <2>3 DEF Prepare
    <3>. HIDE DEF kept
    <3> QED BY <1>7, <2>1, <3>1, SteadyReceipt DEF Prepare
  <2> QED BY <1>7, <2>2, <2>3 DEF Prepare
<1>8. CASE ConflictReported \/ PostflightExpires \/ UNCHANGED vars
  <2>1. Blocked => Blocked'
    BY <1>8 DEF ConflictReported, PostflightExpires, vars, Blocked
  <2> QED BY <1>8, <2>1, SteadyElsewhere DEF ConflictReported, PostflightExpires, vars
<1>9. CASE Save
  <2>1. Blocked'
    BY <1>1, <1>9 DEF Save, Blocked, CommandType
  <2> QED BY <1>9, <2>1, SteadyElsewhere DEF Save
<1>10. CASE CommandAnswered
  <2>1. Blocked'
    BY <1>1, <1>10 DEF CommandAnswered, Answered, Blocked, CommandType
  <2> QED BY <1>10, <2>1, SteadyElsewhere DEF CommandAnswered
<1>11. ASSUME NEW saved \in BOOLEAN, Checkpoint(saved) PROVE Steady
  <2>1. Blocked'
    BY <1>1, <1>11 DEF Checkpoint, Blocked, CommandType
  <2>2. db' = db \/ db' = [db EXCEPT !.receipt = "verifying"]
    BY <1>11 DEF Checkpoint
  <2>3. CASE db' = db
    BY <1>11, <2>1, <2>3, SteadyElsewhere DEF Checkpoint
  <2>4. CASE db' = [db EXCEPT !.receipt = "verifying"]
    <3>1. db' = [db EXCEPT !.receipt = "verifying", !.kept = db.kept]
      BY <1>3, <2>4
    <3> QED BY <1>11, <2>1, <3>1, SteadyReceipt DEF Checkpoint
  <2> QED BY <2>2, <2>3, <2>4
<1>12. CASE Recover
  BY <1>12, SteadyMark DEF Recover
<1>13. CASE PostflightBegins
  <2>1. refresh'.step = "begun" /\ (Blocked => Blocked')
    BY <1>13 DEF PostflightBegins, NoRefresh, Blocked
  <2> QED BY <1>2, <1>13, <2>1, SteadyElsewhere DEF PostflightBegins
<1>14. CASE Finish
  <2>1. Blocked => Blocked'
    BY <1>14 DEF Finish, Blocked
  <2>2. \E receipt : db' = [db EXCEPT !.receipt = receipt]
    BY <1>14 DEF Finish
  <2>3. PICK receipt : db' = [db EXCEPT !.receipt = receipt, !.kept = db.kept]
    BY <1>3, <2>2
  <2> QED BY <1>14, <2>1, <2>3, SteadyReceipt DEF Finish
<1> QED BY <1>4, <1>5, <1>6, <1>7, <1>8, <1>9, <1>10, <1>11, <1>12, <1>13, <1>14 DEF Executing

\* The other steps are an edit, a second, an update, the write, an answer and a publication.
LEMMA StepKinds ==
    ASSUME TypeOK, Control, ClaimHasOwner, [Next]_vars
    PROVE  \/ Steady \/ ClockTicks \/ Applied \/ SnapshotAnswered
           \/ (Publish /\ Accepts(db, refresh.order))
           \/ \E draft \in Drafted, dated \in BOOLEAN, heard \in BOOLEAN : RemoteEdit(draft, dated, heard)
           \/ \E u \in flight, retry \in {"now", "later"} : Deliver(u, retry)
<1>1. CASE UNCHANGED vars \/ CallerReads \/ (\E action \in Actions : CommandBegins(action)) \/ Executing
  BY <1>1, SteadyCommand
<1>2. CASE SliceBegins \/ Shutdown \/ Restart \/ Startup \/ Snapshot
  BY <1>2, SteadyProjection DEF Snapshot
<1>3. CASE Updates
  BY <1>3, SteadyProjection DEF Updates, Drafted
<1> QED BY <1>1, <1>2, <1>3 DEF Next
-----------------------------------------------------------------------------
(* Claims, recoveries and orders *)

\* Orders and the clock are numbers.
LEMMA OrderTypes ==
    ASSUME TypeOK
    PROVE  /\ telegram.second \in Nat /\ telegram.second > 0 /\ telegram.second \in Seconds
           /\ db.row.order \in Nat /\ db.floor \in Nat /\ refresh.order \in Nat /\ refresh.order \in Seconds
           /\ Current(db) \in Nat /\ db.floor <= Current(db) /\ db.row.order <= Current(db)
           /\ Current(db) \in {db.floor, db.row.order}
           /\ \A v \in flight : v.order \in Nat /\ v \in UpdateType
<1>1. /\ telegram.second \in Nat /\ telegram.second > 0 /\ telegram.second \in Seconds
      /\ db.row.order \in Nat /\ db.floor \in Nat /\ refresh.order \in Nat /\ refresh.order \in Seconds
  BY DraftAssumption DEF TypeOK, TelegramType, Projection, RefreshType, Seconds
<1>2. \A v \in flight : v.order \in Nat /\ v \in UpdateType
  BY DraftAssumption DEF TypeOK, UpdateType, Seconds
<1> QED BY <1>1, <1>2 DEF Current, LaterOf

\* An edit is told, or there is a gap.
LEMMA EditFacts ==
    ASSUME TypeOK, NEW draft \in Drafted, NEW dated \in BOOLEAN, NEW heard \in BOOLEAN,
           RemoteEdit(draft, dated, heard)
    PROVE  /\ telegram'.draft = draft /\ telegram'.second = telegram.second
           /\ telegram'.lately = telegram.lately \cup {draft}
           /\ UNCHANGED <<asks, db, excluded, refresh, caller, command, wire, phase>>
           /\ history'.moved /\ (history'.doubt <=> history.doubt \/ draft \in telegram.lately)
           /\ history'.replaced = history.replaced
           /\ \/ gap' = TRUE /\ flight' = flight
              \/ \E u \in UpdateType : /\ flight' = flight \cup {u} /\ u.order \in {0, telegram.second}
                                      /\ u.draft = IF draft = "absent" THEN "empty" ELSE draft
<1>. DEFINE doubted == history.doubt \/ draft \in telegram.lately
            told == [history EXCEPT !.calm = FALSE, !.moved = TRUE, !.doubt = doubted]
            stamp == IF dated THEN telegram.second ELSE 0
            u == [draft |-> IF draft = "absent" THEN "empty" ELSE draft, order |-> stamp]
<1>1. telegram' = [telegram EXCEPT !.draft = draft, !.edits = @ + 1, !.lately = @ \cup {draft}]
  BY DEF RemoteEdit
<1>2. /\ telegram'.draft = draft /\ telegram'.second = telegram.second
      /\ telegram'.lately = telegram.lately \cup {draft}
  BY <1>1 DEF TypeOK, TelegramType
<1>3. history' = told \/ history' = [told EXCEPT !.faults = @ + 1]
  BY DEF RemoteEdit
<1>4. told.moved /\ (told.doubt <=> doubted) /\ told.replaced = history.replaced /\ told \in HistoryType
  <2>1. doubted \in BOOLEAN
    OBVIOUS
  <2>. HIDE DEF doubted
  <2> QED BY <2>1 DEF TypeOK, HistoryType
<1>5. history'.moved /\ (history'.doubt <=> doubted) /\ history'.replaced = history.replaced
  <2>. HIDE DEF told, doubted
  <2> QED BY <1>3, <1>4 DEF HistoryType
<1>6. 0 \in Seconds
  BY DraftAssumption DEF Seconds
<1>7. u \in UpdateType /\ u.order \in {0, telegram.second}
  BY <1>6, OrderTypes DEF UpdateType, Drafted
<1>8. (gap' = TRUE /\ flight' = flight) \/ flight' = flight \cup {u}
  BY DEF RemoteEdit
<1> QED BY <1>2, <1>5, <1>7, <1>8 DEF RemoteEdit

\* A snapshot that is accepted is the row and the floor, and ends the recovery.
LEMMA AcceptedFacts ==
    ASSUME TypeOK, Clocked, Publish, Accepts(db, refresh.order)
    PROVE  /\ InAnswer /\ Returns(TRUE, FALSE) /\ refresh' = NoRefresh
           /\ UNCHANGED <<telegram, flight, gap, asks, wire, phase>>
           /\ history'.doubt = history.doubt /\ history'.moved = history.moved
           /\ history'.replaced = history.replaced
           /\ db' \in Projection /\ db.kept \subseteq db'.kept
           /\ db'.floor = refresh.order /\ ~db'.uncertain /\ ~Pending(db')
           /\ \/ db'.row = NoRow /\ db.row = NoRow /\ refresh.draft = None
              \/ /\ db'.row.order = refresh.order /\ db'.row.draft # None
                 /\ db'.row.draft = IF refresh.draft = None THEN "cleared" ELSE refresh.draft
<1>. DEFINE published == Completed(Observed(db, refresh.draft, refresh.order), refresh.order)
<1>1. InAnswer /\ db.floor <= refresh.order /\ db.row.order <= refresh.order
  BY OrderTypes DEF Publish, Accepts, Clocked, InAnswer
<1>2. refresh.draft \in Listed /\ refresh.order \in Seconds
  BY DEF TypeOK, RefreshType
<1>3. /\ published \in Projection /\ db.kept \subseteq published.kept
      /\ published.floor = refresh.order /\ ~published.uncertain /\ ~Pending(published)
      /\ published.status = "ready"
      /\ \/ published.row = NoRow /\ db.row = NoRow /\ refresh.draft = None
         \/ /\ published.row.order = refresh.order /\ published.row.draft # None
            /\ published.row.draft = IF refresh.draft = None THEN "cleared" ELSE refresh.draft
  BY <1>1, <1>2, PublishedFacts DEF TypeOK
<1>4. /\ db' = published /\ Returns(TRUE, FALSE)
      /\ history' = [history EXCEPT !.proved = @ \/ refresh.after]
  BY <1>3 DEF Publish
<1>. HIDE DEF published
<1>5. /\ history'.doubt = history.doubt /\ history'.moved = history.moved
      /\ history'.replaced = history.replaced
  BY <1>4 DEF TypeOK, HistoryType
<1>6. refresh' = NoRefresh
  BY <1>4 DEF Returns
<1> QED BY <1>1, <1>3, <1>4, <1>5, <1>6 DEF Publish

LEMMA OrderedInit == Init => Ordered
<1> SUFFICES ASSUME Init PROVE Ordered
  OBVIOUS
<1>1. PICK d \in Projection :
         /\ db = Bound(d) /\ (d.row.draft = None => d.row = NoRow)
         /\ d.receipt = "none" /\ d.floor = 0 /\ d.row.order = 0 /\ ~d.claimed /\ ~d.uncertain
  BY InitialRows
<1>2. /\ db.row = d.row /\ db.floor = 0 /\ db.row.order = 0 /\ ~db.claimed /\ ~db.uncertain
      /\ LegacyPending(db) => Pending(db)
  BY <1>1, BoundFacts DEF Kept, LegacyPending
<1>3. flight = {} /\ refresh.step = "none"
  BY DEF Init, NoRefresh
<1>4. telegram.second = 1
  <2>1. PICK t \in Drafted, l \in {"empty", None} :
          telegram = [draft |-> t, lately |-> {t}, absence |-> l, second |-> 1, edits |-> 0]
    BY DEF Init, Drafted
  <2> QED BY <2>1
<1> QED BY <1>2, <1>3, <1>4 DEF Ordered, ClaimHasOwner, UncertaintyIsPursued, Clocked, InAnswer

\* Every step keeps the orders below the clock and what is uncertain under recovery.
LEMMA OrderedStep == ASSUME TypeOK, TypeOK', Control, Ordered, [Next]_vars PROVE Ordered'
<1>. USE OrderTypes
<1>1. CASE Steady
  <2>1. ClaimHasOwner' /\ UncertaintyIsPursued'
    BY <1>1 DEF Steady, Ordered, ClaimHasOwner, UncertaintyIsPursued, LegacyPending
  <2>2. Clocked'
    BY <1>1 DEF Steady, Ordered, Clocked, InAnswer
  <2> QED BY <2>1, <2>2 DEF Ordered
<1>2. CASE ClockTicks
  <2>1. telegram'.second = telegram.second + 1
    BY <1>2 DEF ClockTicks, TypeOK, TelegramType
  <2>2. Clocked'
    BY <1>2, <2>1 DEF ClockTicks, Ordered, Clocked, InAnswer
  <2> QED BY <1>2, <2>2 DEF ClockTicks, Ordered, ClaimHasOwner, UncertaintyIsPursued, LegacyPending
<1>3. CASE Applied
  <2>1. telegram'.second = telegram.second
    BY <1>3 DEF Applied, TypeOK, TelegramType
  <2> QED BY <1>3, <2>1 DEF Applied, Ordered, ClaimHasOwner, UncertaintyIsPursued, LegacyPending, Clocked, InAnswer
<1>4. CASE SnapshotAnswered
  <2>1. refresh'.order = telegram.second /\ refresh'.step = "answered"
    BY <1>4 DEF SnapshotAnswered, TypeOK, RefreshType
  <2> QED BY <1>4, <2>1 DEF SnapshotAnswered, Ordered, ClaimHasOwner, UncertaintyIsPursued, LegacyPending, Clocked, InAnswer
<1>5. CASE Publish /\ Accepts(db, refresh.order)
  <2>. HIDE OrderTypes
  <2>1. /\ InAnswer /\ refresh' = NoRefresh /\ UNCHANGED <<telegram, flight>>
        /\ db'.floor = refresh.order /\ ~db'.uncertain /\ ~Pending(db')
        /\ db'.row = NoRow \/ db'.row.order = refresh.order
    BY <1>5, AcceptedFacts DEF Ordered
  <2>2. 0 < refresh.order /\ refresh.order <= telegram.second
    BY <2>1 DEF Ordered, Clocked, InAnswer
  <2>3. NoRefresh.step = "none" /\ NoRow.order = 0
    BY DEF NoRefresh, NoRow
  <2>4. ClaimHasOwner' /\ UncertaintyIsPursued'
    BY <2>1, <2>2 DEF ClaimHasOwner, UncertaintyIsPursued, LegacyPending, Pending
  <2>5. Clocked'
    BY <2>1, <2>2, <2>3, OrderTypes DEF Ordered, Clocked, InAnswer
  <2> QED BY <2>4, <2>5 DEF Ordered
<1>6. ASSUME NEW draft \in Drafted, NEW dated \in BOOLEAN, NEW heard \in BOOLEAN,
             RemoteEdit(draft, dated, heard)
      PROVE  Ordered'
  <2>1. /\ telegram'.second = telegram.second /\ db' = db /\ refresh' = refresh
        /\ flight' = flight \/ \E u \in UpdateType : flight' = flight \cup {u} /\ u.order \in {0, telegram.second}
    <3>. HIDE OrderTypes
    <3> QED BY <1>6, EditFacts
  <2> QED BY <2>1 DEF Ordered, ClaimHasOwner, UncertaintyIsPursued, LegacyPending, Clocked, InAnswer
<1>7. ASSUME NEW u \in flight, NEW retry \in {"now", "later"}, Deliver(u, retry) PROVE Ordered'
  <2>1. /\ db'.floor = db.floor /\ telegram' = telegram /\ refresh' = refresh /\ flight' \subseteq flight
        /\ \/ db' = db
           \/ /\ u.order > Current(db) /\ ~db'.uncertain /\ ~db'.claimed
              /\ db'.row.draft = u.draft /\ db'.row.order = u.order
           \/ db'.row = db.row /\ ~db'.claimed /\ Pending(db')
    BY <1>7, RealtimeFacts DEF Deliver, TypeOK
  <2>2. u.order <= telegram.second
    BY DEF Ordered, Clocked
  <2> QED BY <2>1, <2>2 DEF Ordered, ClaimHasOwner, UncertaintyIsPursued, LegacyPending, Clocked, InAnswer
<1> QED BY <1>1, <1>2, <1>3, <1>4, <1>5, <1>6, <1>7, StepKinds DEF Ordered
-----------------------------------------------------------------------------
(* What the projection knows of Telegram's draft *)

LEMMA ToldFacts ==
    /\ \A t \in Drafted : Told(t) = t
    /\ \A t \in Drafted : Told(IF t = "absent" THEN "empty" ELSE t) = t
    /\ Told(None) = "absent" /\ Told("cleared") = "absent" /\ Told("empty") = "absent"
BY DraftAssumption DEF Told, Drafted

LEMMA LatelyInit == Init => Lately
<1> SUFFICES ASSUME Init PROVE Lately
  OBVIOUS
<1>1. PICK t \in Drafted, l \in {"empty", None} :
        telegram = [draft |-> t, lately |-> {t}, absence |-> l, second |-> 1, edits |-> 0]
  BY DEF Init, Drafted
<1>2. telegram.draft = t /\ telegram.lately = {t} /\ telegram.second = 1
  BY <1>1
<1>3. db.row.order = 0
  BY InitialRows, BoundFacts DEF Kept
<1>4. flight = {} /\ refresh.step = "none"
  BY DEF Init, NoRefresh
<1> QED BY <1>2, <1>3, <1>4 DEF Lately

\* Telegram's seconds only grow, and what is taken over keeps its order.
LEMMA LatelyStep == ASSUME TypeOK, Control, Ordered, Lately, [Next]_vars PROVE Lately'
<1>1. CASE Steady
  BY <1>1 DEF Steady, Lately
<1>2. CASE ClockTicks
  <2>1. /\ telegram'.second = telegram.second + 1 /\ telegram'.draft = telegram.draft
        /\ telegram'.lately = {telegram.draft}
    BY <1>2 DEF ClockTicks, TypeOK, TelegramType
  <2>2. /\ db' = db /\ flight' = flight /\ refresh' = refresh /\ Clocked
    BY <1>2 DEF ClockTicks, Ordered
  <2> QED BY <2>1, <2>2, OrderTypes DEF Lately, Clocked
<1>3. CASE Applied
  <2>1. /\ telegram'.second = telegram.second /\ telegram'.draft = Result(wire.action)
        /\ telegram'.lately = telegram.lately \cup {Result(wire.action)}
    BY <1>3 DEF Applied, TypeOK, TelegramType
  <2> QED BY <1>3, <2>1 DEF Applied, Lately
<1>4. CASE SnapshotAnswered
  <2>1. refresh'.draft = IF telegram.draft = "absent" THEN telegram.absence ELSE telegram.draft
    BY <1>4 DEF SnapshotAnswered, TypeOK, RefreshType
  <2>2. telegram.draft \in Drafted /\ telegram.absence \in {"empty", None}
    BY DEF TypeOK, TelegramType
  <2>3. Told(refresh'.draft) = telegram.draft
    BY <2>1, <2>2, ToldFacts
  <2> QED BY <1>4, <2>3 DEF SnapshotAnswered, Lately
<1>5. CASE Publish /\ Accepts(db, refresh.order)
  <2>1. /\ InAnswer /\ refresh' = NoRefresh /\ UNCHANGED <<telegram, flight>>
        /\ \/ db'.row = NoRow
           \/ /\ db'.row.order = refresh.order
              /\ db'.row.draft = IF refresh.draft = None THEN "cleared" ELSE refresh.draft
    BY <1>5, AcceptedFacts DEF Ordered
  <2>2. refresh'.step = "none" /\ NoRow.order = 0
    BY <2>1 DEF NoRefresh, NoRow
  <2>3. CASE db'.row = NoRow
    BY <2>1, <2>2, <2>3, OrderTypes DEF Lately
  <2>4. CASE /\ db'.row.order = refresh.order
             /\ db'.row.draft = IF refresh.draft = None THEN "cleared" ELSE refresh.draft
    <3>1. Told(db'.row.draft) = Told(refresh.draft)
      BY <2>4, ToldFacts
    <3> QED BY <2>1, <2>2, <2>4, <3>1 DEF Lately, InAnswer
  <2> QED BY <2>1, <2>3, <2>4
<1>6. ASSUME NEW draft \in Drafted, NEW dated \in BOOLEAN, NEW heard \in BOOLEAN,
             RemoteEdit(draft, dated, heard)
      PROVE  Lately'
  <2>1. /\ telegram'.draft = draft /\ telegram'.second = telegram.second
        /\ telegram'.lately = telegram.lately \cup {draft} /\ db' = db /\ refresh' = refresh
        /\ flight' = flight \/ \E u \in UpdateType : /\ flight' = flight \cup {u}
                                                   /\ u.draft = IF draft = "absent" THEN "empty" ELSE draft
    BY <1>6, EditFacts
  <2>2. flight' = flight \/ \E u : flight' = flight \cup {u} /\ Told(u.draft) = draft
    BY <2>1, ToldFacts
  <2> QED BY <2>1, <2>2 DEF Lately
<1>7. ASSUME NEW u \in flight, NEW retry \in {"now", "later"}, Deliver(u, retry) PROVE Lately'
  <2>1. /\ telegram' = telegram /\ refresh' = refresh /\ flight' \subseteq flight
        /\ \/ db'.row.draft = u.draft /\ db'.row.order = u.order
           \/ db'.row = db.row
    BY <1>7, RealtimeFacts DEF Deliver, TypeOK
  <2> QED BY <2>1 DEF Lately
<1> QED BY <1>1, <1>2, <1>3, <1>4, <1>5, <1>6, <1>7, StepKinds DEF Ordered
LEMMA TruthInit == Init => Truth
BY DEF Init, Truth, Blocked

\* An edit that is told is the newest update, and no row or answer of its second says the same.
LEMMA TruthEdit ==
    ASSUME TypeOK, Ordered, Lately, Truth,
           NEW draft \in Drafted, NEW dated \in BOOLEAN, NEW heard \in BOOLEAN,
           RemoteEdit(draft, dated, heard)
    PROVE  Truth'
<1> SUFFICES ASSUME ~Blocked' PROVE (~Pending(db) => RowUnderway') /\ (InAnswer' => SnapUnderway')
  <2>1. db' = db
    BY EditFacts
  <2> QED BY <2>1 DEF Truth
<1>1. /\ telegram'.draft = draft /\ telegram'.second = telegram.second
      /\ db' = db /\ refresh' = refresh
      /\ (history'.doubt <=> history.doubt \/ draft \in telegram.lately)
      /\ \/ gap' = TRUE /\ flight' = flight
         \/ \E u \in UpdateType : /\ flight' = flight \cup {u} /\ u.order \in {0, telegram.second}
                                 /\ u.draft = IF draft = "absent" THEN "empty" ELSE draft
  BY EditFacts
<1>2. draft \notin telegram.lately /\ ~gap'
  BY <1>1 DEF Blocked
<1>3. PICK u \in UpdateType : /\ flight' = flight \cup {u} /\ u.order \in {0, telegram.second}
                              /\ u.draft = IF draft = "absent" THEN "empty" ELSE draft
  BY <1>1, <1>2
<1>4. Told(u.draft) = draft
  BY <1>3, ToldFacts
<1>5. CASE u.order = 0
  BY <1>3, <1>5 DEF RowUnderway, SnapUnderway
<1>6. CASE u.order = telegram.second
  <2>1. /\ \A v \in flight' : v.order <= u.order
        /\ u.order >= Current(db) /\ (refresh.step = "answered" => u.order >= refresh.order)
    BY <1>3, <1>6, OrderTypes DEF Ordered, Clocked
  <2>2. u.order = db.row.order => u.draft # db.row.draft
    BY <1>2, <1>4, <1>6 DEF Lately
  <2>3. Newest(u)'
    BY <1>1, <1>4, <2>1 DEF Newest
  <2> QED BY <1>1, <1>3, <2>1, <2>2, <2>3 DEF RowUnderway, SnapUnderway, InAnswer
<1> QED BY <1>3, <1>5, <1>6

\* An update that the projection takes over, or has no need of, leaves it right or about to be.
LEMMA TruthDeliver ==
    ASSUME TypeOK, Ordered, Truth, NEW u \in flight, NEW retry \in {"now", "later"}, Deliver(u, retry)
    PROVE  Truth'
<1> SUFFICES ASSUME ~Blocked'
             PROVE  /\ ~Pending(db') => RowStands' \/ RowUnderway'
                    /\ InAnswer' => SnapStands' \/ SnapUnderway'
  BY DEF Truth
<1>. DEFINE stays == /\ db' = db /\ 0 < u.order /\ u.order <= Current(db)
                     /\ u.order = Current(db) => db.row.draft = u.draft
            advances == /\ u.order > Current(db) /\ db'.floor = db.floor /\ ~db'.claimed
                        /\ (Pending(db) => Pending(db')) /\ (Pending(db') => Pending(db))
                        /\ db'.row.draft = u.draft /\ db'.row.order = u.order
<1>1. /\ telegram' = telegram /\ refresh' = refresh /\ flight' = flight \ {u}
      /\ ~Blocked /\ ~Ambiguous(Decision(db, u))
  BY DEF Deliver, Blocked
<1>2. stays \/ advances
  <2>1. db \in Projection /\ u \in UpdateType /\ db' = Realtime(db, u, retry)
    BY OrderTypes DEF TypeOK, Deliver
  <2> QED BY <1>1, <2>1, RealtimeFacts
<1>3. /\ ~Pending(db) => RowStands \/ RowUnderway
      /\ InAnswer => SnapStands \/ SnapUnderway
  BY <1>1 DEF Truth
<1>4. u.draft # None
  BY OrderTypes, DraftAssumption DEF UpdateType
<1>5. CASE stays
  <2>1. Current(db') = Current(db)
    BY <1>5
  <2>2. RowStands => RowStands'
    BY <1>1, <1>5, <2>1 DEF RowStands, Overtaken
  <2>3. SnapStands => SnapStands'
    BY <1>1 DEF SnapStands, Overtaken
  <2>4. RowUnderway => RowUnderway' \/ RowStands'
    <3>1. SUFFICES ASSUME NEW w \in flight, w.order = 0 \/ (Newest(w) /\ w.order >= Current(db))
                   PROVE  RowUnderway' \/ RowStands'
      BY DEF RowUnderway
    <3>2. CASE w # u
      BY <1>1, <1>5, <2>1, <3>1, <3>2 DEF RowUnderway, Newest
    <3>3. CASE w = u
      <4>1. Newest(u) /\ u.order = Current(db) /\ db.row.draft = u.draft
        BY <1>5, <3>1, <3>3, OrderTypes
      <4> QED BY <1>1, <1>5, <2>1, <4>1 DEF RowStands, Overtaken, Newest
    <3> QED BY <3>2, <3>3
  <2>5. SnapUnderway => SnapUnderway'
    <3>1. SUFFICES ASSUME NEW w \in flight,
                          w.order = 0 \/ /\ Newest(w) /\ w.order >= Current(db) /\ w.order >= refresh.order
                                         /\ (w.order = db.row.order => w.draft # db.row.draft)
                   PROVE  SnapUnderway'
      BY DEF SnapUnderway
    <3>2. w # u
      <4>1. SUFFICES ASSUME w = u PROVE FALSE
        OBVIOUS
      <4>2. u.order = Current(db) /\ db.row.draft = u.draft /\ u.order # db.row.order
        BY <1>5, <3>1, <4>1, OrderTypes
      <4>3. db.row # NoRow
        BY <1>4, <4>2 DEF NoRow
      <4> QED BY <4>2, <4>3, OrderTypes DEF Ordered, Clocked
    <3> QED BY <1>1, <1>5, <2>1, <3>1, <3>2 DEF SnapUnderway, Newest
  <2> QED BY <1>1, <1>3, <1>5, <2>2, <2>3, <2>4, <2>5 DEF InAnswer
<1>6. CASE advances
  <2>1. Current(db') = u.order
    BY <1>6, OrderTypes DEF Current, LaterOf
  <2>2. RowStands => RowStands'
    <3>1. SUFFICES ASSUME RowStands PROVE RowStands'
      OBVIOUS
    <3>2. Told(u.draft) = telegram.draft
      BY <1>6, <3>1, OrderTypes DEF RowStands, Overtaken
    <3>3. \A v \in flight : v.order = 0 \/ v.order <= u.order \/ Told(v.draft) = telegram.draft
      BY <1>6, <3>1, OrderTypes DEF RowStands, Overtaken
    <3> QED BY <1>1, <1>6, <2>1, <3>2, <3>3 DEF RowStands, Overtaken
  <2>3. RowUnderway => RowUnderway' \/ RowStands'
    <3>1. SUFFICES ASSUME NEW w \in flight, w.order = 0 \/ (Newest(w) /\ w.order >= Current(db))
                   PROVE  RowUnderway' \/ RowStands'
      BY DEF RowUnderway
    <3>2. CASE w # u
      BY <1>1, <2>1, <3>1, <3>2 DEF RowUnderway, Newest
    <3>3. CASE w = u
      <4>1. Newest(u)
        BY <1>6, <3>1, <3>3, OrderTypes
      <4> QED BY <1>1, <1>6, <2>1, <4>1 DEF RowStands, Overtaken, Newest
    <3> QED BY <3>2, <3>3
  <2> QED BY <1>3, <1>6, <2>2, <2>3 DEF InAnswer
<1> QED BY <1>2, <1>5, <1>6

\* What the projection has is what Telegram has, or it will learn.
LEMMA TruthStep == ASSUME TypeOK, Control, Ordered, Lately, Truth, [Next]_vars PROVE Truth'
<1>1. CASE Steady
  <2>1. SUFFICES ASSUME ~Blocked'
                 PROVE  /\ ~Pending(db') => RowStands' \/ RowUnderway'
                        /\ InAnswer' => SnapStands' \/ SnapUnderway'
    BY DEF Truth
  <2>2. CASE Blocked
    BY <1>1, <2>1, <2>2 DEF Steady, InAnswer
  <2>3. CASE ~Blocked
    <3>1. flight' = flight /\ telegram' = telegram /\ db'.row = db.row /\ db'.floor = db.floor
          /\ (~Pending(db') => ~Pending(db)) /\ (InAnswer' => InAnswer /\ refresh' = refresh)
      BY <1>1, <2>1 DEF Steady, Blocked, InAnswer
    <3>2. Current(db') = Current(db)
      BY <3>1 DEF Current
    <3>3. (RowStands => RowStands') /\ (RowUnderway => RowUnderway')
      BY <3>1, <3>2 DEF RowStands, RowUnderway, Overtaken, Newest
    <3>4. InAnswer' => (SnapStands => SnapStands') /\ (SnapUnderway => SnapUnderway')
      BY <3>1, <3>2 DEF SnapStands, SnapUnderway, Overtaken, Newest
    <3> QED BY <2>3, <3>1, <3>3, <3>4 DEF Truth
  <2> QED BY <2>2, <2>3
<1>2. CASE ClockTicks
  <2>1. telegram'.draft = telegram.draft /\ UNCHANGED <<flight, gap, asks, db, refresh, command, wire, phase, history>>
    BY <1>2 DEF ClockTicks, TypeOK, TelegramType
  <2> QED BY <2>1 DEF Truth, Blocked, RowStands, RowUnderway, SnapStands, SnapUnderway, Overtaken, Newest, InAnswer
<1>3. CASE Applied
  <2>1. command' = command /\ (history'.doubt <=> command.step # "wait" \/ Result(wire.action) \in telegram.lately)
    <3>. DEFINE doubted == command.step # "wait" \/ Result(wire.action) \in telegram.lately
    <3>1. doubted \in BOOLEAN /\ history'.doubt = doubted
      BY <1>3 DEF Applied, TypeOK, HistoryType
    <3> QED BY <1>3, <3>1 DEF Applied
  <2>2. Blocked'
    BY <2>1 DEF Blocked
  <2> QED BY <2>2 DEF Truth
<1>4. CASE SnapshotAnswered
  <2>1. /\ refresh'.draft = IF telegram.draft = "absent" THEN telegram.absence ELSE telegram.draft
        /\ refresh'.order = telegram.second
    BY <1>4 DEF SnapshotAnswered, TypeOK, RefreshType
  <2>2. telegram.draft \in Drafted /\ telegram.absence \in {"empty", None}
    BY DEF TypeOK, TelegramType
  <2>3. Told(refresh'.draft) = telegram.draft
    BY <2>1, <2>2, ToldFacts
  <2>4. SnapStands'
    BY <1>4, <2>1, <2>3 DEF SnapshotAnswered, SnapStands, Overtaken, Ordered, Clocked
  <2>5. /\ UNCHANGED <<telegram, flight, gap, asks, db, command, wire, phase>>
        /\ history'.doubt = history.doubt
    BY <1>4 DEF SnapshotAnswered, TypeOK, HistoryType
  <2>6. (Blocked' <=> Blocked) /\ (RowStands' <=> RowStands) /\ (RowUnderway' <=> RowUnderway)
    BY <2>5 DEF Blocked, RowStands, RowUnderway, Overtaken, Newest
  <2> QED BY <2>4, <2>5, <2>6 DEF Truth
<1>5. CASE Publish /\ Accepts(db, refresh.order)
  <2>1. /\ InAnswer /\ refresh' = NoRefresh /\ UNCHANGED <<telegram, flight, gap, asks, wire, phase>>
        /\ history'.doubt = history.doubt /\ Returns(TRUE, FALSE)
        /\ db' \in Projection /\ db'.floor = refresh.order
        /\ \/ db'.row = NoRow /\ refresh.draft = None
           \/ /\ db'.row.order = refresh.order
              /\ db'.row.draft = IF refresh.draft = None THEN "cleared" ELSE refresh.draft
    BY <1>5, AcceptedFacts DEF Ordered
  <2>2. ~InAnswer' /\ NoRow.order = 0 /\ NoRow.draft = None
    BY <2>1 DEF NoRefresh, NoRow, InAnswer
  <2>3. Current(db') = refresh.order
    BY <2>1, <2>2, OrderTypes DEF Current, LaterOf
  <2>4. Told(db'.row.draft) = Told(refresh.draft)
    BY <2>1, <2>2, ToldFacts
  <2>5. SnapStands => RowStands'
    BY <2>1, <2>3, <2>4 DEF SnapStands, RowStands, Overtaken
  <2>6. SnapUnderway => RowUnderway'
    BY <2>1, <2>3 DEF SnapUnderway, RowUnderway, Newest
  <2>7. Blocked => Blocked'
    BY <1>5, <2>1, ReturnsBlocked DEF Publish
  <2> QED BY <2>1, <2>2, <2>5, <2>6, <2>7 DEF Truth
<1>6. ASSUME NEW draft \in Drafted, NEW dated \in BOOLEAN, NEW heard \in BOOLEAN,
             RemoteEdit(draft, dated, heard)
      PROVE  Truth'
  BY <1>6, TruthEdit
<1>7. ASSUME NEW u \in flight, NEW retry \in {"now", "later"}, Deliver(u, retry) PROVE Truth'
  BY <1>7, TruthDeliver
<1> QED BY <1>1, <1>2, <1>3, <1>4, <1>5, <1>6, <1>7, StepKinds DEF Ordered
-----------------------------------------------------------------------------
(* What the write replaces *)

LEMMA ReplacedInit == Init => Replaced
<1> SUFFICES ASSUME Init PROVE Replaced
  OBVIOUS
<1>1. history.replaced = {} /\ history.moved = TRUE
  BY DEF Init
<1> QED BY <1>1 DEF Replaced

\* A step that leaves the draft alone, and takes no command any further
LEMMA ReplacedStays ==
    ASSUME TypeOK, Replaced, telegram'.draft = telegram.draft, flight' \subseteq flight,
           db'.row = db.row, db'.floor = db.floor, db.kept \subseteq db'.kept,
           history'.replaced = history.replaced, history'.moved = history.moved,
           InAnswer' => InAnswer /\ refresh' = refresh,
           command'.step \in {"read", "prepare"} => command.step \in {"read", "prepare"},
           command'.step = "dispatch" \/ wire'.step = "sent" => command.step = "dispatch" \/ wire.step = "sent"
    PROVE  Replaced'
<1>1. Current(db') = Current(db)
  BY DEF Current
<1>2. RowTrue => RowTrue'
  BY <1>1 DEF RowTrue
<1>3. InAnswer' => (SnapTrue => SnapTrue')
  BY DEF SnapTrue
<1>4. (history.replaced \subseteq db.kept) /\ (history'.replaced \subseteq db'.kept)
  BY DEF Replaced
<1>5. ASSUME ~history'.moved
      PROVE  /\ refresh'.who = "preflight" /\ InAnswer' => SnapTrue'
             /\ command'.step \in {"read", "prepare"} => RowTrue' /\ (InAnswer' => SnapTrue')
             /\ (command'.step = "dispatch" \/ wire'.step = "sent") /\ telegram'.draft \in Texts
                  => telegram'.draft \in db'.kept
  BY <1>2, <1>3, <1>5 DEF Replaced
<1> QED BY <1>4, <1>5 DEF Replaced

LEMMA ReplacedSteady ==
    ASSUME TypeOK, Replaced, Steady, history'.replaced = history.replaced, history'.moved = history.moved,
           command'.step \in {"read", "prepare"} => command.step \in {"read", "prepare"},
           command'.step = "dispatch" \/ wire'.step = "sent" => command.step = "dispatch" \/ wire.step = "sent"
    PROVE  Replaced'
BY ReplacedStays DEF Steady, InAnswer

\* Recoveries, refreshes that fail and stops take no command further.
LEMMA ReplacedProjection ==
    ASSUME TypeOK, Control, ClaimHasOwner, Replaced,
           \/ (\E u \in flight : DeliverFails(u)) \/ Ask \/ ReconnectObserved \/ DuePasses \/ SliceBegins
           \/ Claim \/ (\E how \in {"deferred", "incomplete", "error"} : SnapshotFails(how))
           \/ (Publish /\ ~Accepts(db, refresh.order)) \/ Shutdown \/ Restart \/ Startup
    PROVE  Replaced'
<1>1. Steady
  BY SteadyProjection
<1>2. history'.replaced = history.replaced /\ history'.moved = history.moved /\ wire' = wire
  BY DEF DeliverFails, Ask, ReconnectObserved, DuePasses, SliceBegins, Claim, SnapshotFails, Publish,
         Shutdown, Restart, Startup, TypeOK, HistoryType
<1>3. ASSUME NEW blocked \in BOOLEAN, Returns(FALSE, blocked), refresh.step # "none"
      PROVE  command' = command \/ command'.step \in {"idle", "compare"}
  <2>1. \/ command' = command \/ command' = Idle
        \/ command' = [command EXCEPT !.step = "compare", !.verdict = FALSE]
    BY <1>3, ReturnsCommand
  <2>2. CASE command' = Idle
    BY <2>2 DEF Idle
  <2>3. CASE command' = [command EXCEPT !.step = "compare", !.verdict = FALSE]
    BY <2>3 DEF TypeOK, CommandType
  <2> QED BY <2>1, <2>2, <2>3
<1>4. command' = command \/ command'.step \in {"idle", "compare"}
  <2>1. ASSUME NEW how \in {"deferred", "incomplete", "error"}, SnapshotFails(how)
        PROVE  command' = command \/ command'.step \in {"idle", "compare"}
    <3>1. (how # "deferred") \in BOOLEAN /\ Returns(FALSE, how # "deferred")
      BY <2>1 DEF SnapshotFails
    <3>2. \E blocked \in BOOLEAN : Returns(FALSE, blocked)
      BY <3>1, Zenon
    <3> QED BY <1>3, <2>1, <3>2 DEF SnapshotFails
  <2>2. CASE Claim \/ (Publish /\ ~Accepts(db, refresh.order))
    BY <1>3, <2>2 DEF Claim, Publish
  <2> QED BY <2>1, <2>2 DEF DeliverFails, Ask, ReconnectObserved, DuePasses, SliceBegins,
                            Shutdown, Restart, Startup, Idle
<1> QED BY <1>1, <1>2, <1>4, ReplacedSteady

\* The preimage is archived where the receipt is written.
LEMMA ReplacedPrepare == ASSUME TypeOK, Control, Fate, Replaced, Steady, Prepare PROVE Replaced'
<1>1. /\ UNCHANGED <<telegram, refresh, wire, history>> /\ command.step = "prepare"
      /\ wire.step = "none" /\ refresh.who # "preflight"
  BY DEF Prepare, Fate, Control
<1>2. CASE command' = [command EXCEPT !.step = "conflict"]
  <2>1. command'.step = "conflict"
    BY <1>2 DEF TypeOK, CommandType
  <2> QED BY <1>1, <2>1, ReplacedSteady
<1>3. CASE Version(db) = command.seen
  <2>1. command'.step = IF command.outcome = "unchanged" THEN "finish" ELSE "dispatch"
    BY <1>3 DEF Prepare, TypeOK, CommandType
  <2>2. command.outcome # "unchanged" /\ db.row # NoRow => db.row.draft \in db'.kept
    <3>. DEFINE kept == IF db.row = NoRow \/ command.outcome = "unchanged"
                        THEN db.kept ELSE db.kept \cup {db.row.draft}
    <3>1. db' = [db EXCEPT !.receipt = "pending", !.kept = kept]
      BY <1>3 DEF Prepare
    <3>2. command.outcome # "unchanged" /\ db.row # NoRow => db.row.draft \in kept
      OBVIOUS
    <3>. HIDE DEF kept
    <3>3. db'.kept = kept
      BY <3>1 DEF TypeOK, Projection
    <3> QED BY <3>2, <3>3
  <2>3. ASSUME RowTrue, telegram.draft \in Texts PROVE db.row # NoRow /\ db.row.draft = telegram.draft
    BY <2>3, DraftAssumption DEF RowTrue, Told, NoRow
  <2>4. ~history.moved => RowTrue
    BY <1>1 DEF Replaced
  <2>5. ~history.moved /\ command'.step = "dispatch" /\ telegram.draft \in Texts
          => telegram.draft \in db'.kept
    BY <2>1, <2>2, <2>3, <2>4
  <2>6. history.replaced \subseteq db'.kept
    BY DEF Replaced, Steady
  <2>7. command'.step \in {"finish", "dispatch"}
    BY <2>1
  <2> QED BY <1>1, <2>5, <2>6, <2>7 DEF Replaced
<1> QED BY <1>2, <1>3 DEF Prepare

\* A command keeps what it replaces.
LEMMA ReplacedCommand ==
    ASSUME TypeOK, Control, ClaimHasOwner, Fate, Replaced,
           CallerReads \/ (\E action \in Actions : CommandBegins(action)) \/ Executing \/ UNCHANGED vars
    PROVE  Replaced'
<1>1. Steady
  BY SteadyCommand
<1>2. command \in CommandType /\ history \in HistoryType /\ wire \in WireType
  BY DEF TypeOK
<1>3. CASE Prepare
  BY <1>1, <1>3, ReplacedPrepare
<1>4. CASE CallerReads \/ (\E action \in Actions : CommandBegins(action)) \/ ConflictReported \/ Recover
           \/ PostflightBegins \/ PostflightExpires \/ Finish \/ UNCHANGED vars
  <2>1. history'.replaced = history.replaced /\ history'.moved = history.moved /\ wire' = wire
    BY <1>2, <1>4 DEF CallerReads, CommandBegins, ConflictReported, Recover, PostflightBegins,
                      PostflightExpires, Finish, vars, HistoryType
  <2>2. command' = command \/ command'.step \in {"idle", "preflight", "finish", "postflight", "verify", "compare"}
    <3>1. CASE CallerReads \/ ConflictReported \/ Finish \/ UNCHANGED vars
      BY <3>1 DEF CallerReads, ConflictReported, Finish, vars, Idle
    <3>2. CASE \E action \in Actions : CommandBegins(action)
      BY <3>2 DEF CommandBegins, Idle
    <3>3. CASE Recover
      <4>. DEFINE step == IF command.outcome = "rejected" THEN "finish" ELSE "postflight"
      <4>1. command' = [command EXCEPT !.step = step] /\ step \in {"finish", "postflight"}
        BY <3>3 DEF Recover
      <4>. HIDE DEF step
      <4> QED BY <1>2, <4>1 DEF CommandType
    <3>4. CASE PostflightBegins \/ PostflightExpires
      BY <1>2, <3>4 DEF PostflightBegins, PostflightExpires, CommandType
    <3> QED BY <1>4, <3>1, <3>2, <3>3, <3>4
  <2> QED BY <1>1, <2>1, <2>2, ReplacedSteady
<1>5. CASE CommandReads
  <2>2. command.step = "read" /\ command'.step # "dispatch"
    <3>1. \/ command' = Idle \/ command' = [command EXCEPT !.step = "conflict"]
          \/ \E outcome \in {"unchanged", None} :
                command' = [command EXCEPT !.step = "prepare", !.seen = Version(db), !.outcome = outcome]
      BY <1>5 DEF CommandReads
    <3> QED BY <1>2, <1>5, <3>1 DEF CommandReads, Idle, CommandType
  <2> QED BY <1>1, <1>5, <2>2, ReplacedSteady DEF CommandReads
<1>6. CASE Save
  <2>1. /\ command.step = "dispatch" /\ command'.step = "wait"
        /\ history'.replaced = history.replaced /\ history'.moved = history.moved
    BY <1>2, <1>6 DEF Save, CommandType, HistoryType
  <2> QED BY <1>1, <2>1, ReplacedSteady
<1>7. CASE CommandAnswered
  <2>1. history'.replaced = history.replaced /\ history'.moved = history.moved
    BY <1>2, <1>7 DEF CommandAnswered, HistoryType
  <2>2. command'.step \in {"acked", "recover"} /\ (wire' = wire \/ wire'.step = "refused")
    BY <1>2, <1>7 DEF CommandAnswered, Answered, CommandType, WireType
  <2> QED BY <1>1, <2>1, <2>2, ReplacedSteady
<1>8. ASSUME NEW saved \in BOOLEAN, Checkpoint(saved) PROVE Replaced'
  <2>1. history'.replaced = history.replaced /\ history'.moved = history.moved
    BY <1>2, <1>8 DEF Checkpoint, HistoryType
  <2>2. command'.step = "recover" /\ wire' = wire
    BY <1>2, <1>8 DEF Checkpoint, CommandType
  <2> QED BY <1>1, <2>1, <2>2, ReplacedSteady
<1> QED BY <1>3, <1>4, <1>5, <1>6, <1>7, <1>8 DEF Executing

\* Every step keeps what the write replaces.
LEMMA ReplacedStep == ASSUME TypeOK, Control, Ordered, Fate, Replaced, [Next]_vars PROVE Replaced'
<1>1. CASE UNCHANGED vars \/ CallerReads \/ (\E action \in Actions : CommandBegins(action)) \/ Executing
  BY <1>1, ReplacedCommand DEF Ordered
<1>2. CASE SliceBegins \/ Shutdown \/ Restart \/ Startup \/ Claim
           \/ \E how \in {"deferred", "incomplete", "error"} : SnapshotFails(how)
  BY <1>2, ReplacedProjection DEF Ordered
<1>3. CASE ClockTicks
  <2>1. telegram'.draft = telegram.draft
    BY <1>3 DEF ClockTicks, TypeOK, TelegramType
  <2> QED BY <1>3, <2>1, ReplacedStays DEF ClockTicks, InAnswer
<1>4. CASE Applied
  <2>1. /\ history'.moved = history.moved /\ wire'.step = "applied" /\ wire.step = "sent" /\ history.sent # 0
        /\ history'.replaced = IF telegram.draft \in Texts /\ ~history.moved THEN {telegram.draft} ELSE {}
        /\ db' = db /\ command' = command
    <3>1. history'.moved = history.moved /\ wire'.step = "applied"
      BY <1>4 DEF Applied, TypeOK, HistoryType, WireType
    <3>2. history'.replaced = IF telegram.draft \in Texts /\ ~history.moved THEN {telegram.draft} ELSE {}
      BY <1>4 DEF Applied, TypeOK, HistoryType
    <3> QED BY <1>4, <3>1, <3>2 DEF Applied, Fate
  <2>2. command.step \notin {"preflight", "read", "prepare", "dispatch"}
    BY <2>1 DEF Fate
  <2>3. refresh'.who # "preflight"
    BY <1>4, <2>2 DEF Applied, Control
  <2>4. history'.replaced \subseteq db'.kept
    BY <2>1 DEF Replaced
  <2> QED BY <2>1, <2>2, <2>3, <2>4 DEF Replaced
<1>5. CASE SnapshotAnswered
  <2>1. /\ refresh'.draft = IF telegram.draft = "absent" THEN telegram.absence ELSE telegram.draft
        /\ refresh'.order = telegram.second /\ refresh'.who = refresh.who
    BY <1>5 DEF SnapshotAnswered, TypeOK, RefreshType
  <2>2. telegram.draft \in Drafted /\ telegram.absence \in {"empty", None}
    BY DEF TypeOK, TelegramType
  <2>3. Told(refresh'.draft) = telegram.draft
    BY <2>1, <2>2, ToldFacts
  <2>4. SnapTrue'
    BY <1>5, <2>1, <2>3 DEF SnapshotAnswered, SnapTrue, Ordered, Clocked
  <2>5. history'.moved = (IF refresh.who = "preflight" THEN FALSE ELSE history.moved)
        /\ history'.replaced = history.replaced
    BY <1>5 DEF SnapshotAnswered, TypeOK, HistoryType
  <2>6. UNCHANGED <<telegram, flight, db, command, wire>> /\ (RowTrue' <=> RowTrue)
    BY <1>5 DEF SnapshotAnswered, RowTrue
  <2>7. CASE refresh.who = "preflight"
    <3>1. command.step = "preflight" /\ wire.step = "none"
      BY <2>7 DEF Control, Fate
    <3> QED BY <2>4, <2>5, <2>6, <3>1 DEF Replaced
  <2>8. CASE refresh.who # "preflight"
    BY <2>1, <2>4, <2>5, <2>6, <2>8 DEF Replaced
  <2> QED BY <2>7, <2>8
<1>6. CASE Publish
  <2>1. CASE ~Accepts(db, refresh.order)
    BY <1>6, <2>1, ReplacedProjection DEF Ordered
  <2>2. CASE Accepts(db, refresh.order)
    <3>1. /\ InAnswer /\ refresh' = NoRefresh /\ UNCHANGED <<telegram, flight, wire>>
          /\ Returns(TRUE, FALSE) /\ db.kept \subseteq db'.kept /\ db'.floor = refresh.order
          /\ history'.moved = history.moved /\ history'.replaced = history.replaced
          /\ \/ db'.row = NoRow /\ refresh.draft = None
             \/ /\ db'.row.order = refresh.order
                /\ db'.row.draft = IF refresh.draft = None THEN "cleared" ELSE refresh.draft
      BY <1>6, <2>2, AcceptedFacts DEF Ordered
    <3>2. ~InAnswer' /\ NoRow.order = 0 /\ NoRow.draft = None
      BY <3>1 DEF NoRefresh, NoRow, InAnswer
    <3>3. Current(db') = refresh.order
      BY <3>1, <3>2, OrderTypes DEF Current, LaterOf
    <3>4. SnapTrue => RowTrue'
      <4>1. Told(db'.row.draft) = Told(refresh.draft)
        BY <3>1, <3>2, ToldFacts
      <4> QED BY <3>1, <3>3, <4>1 DEF SnapTrue, RowTrue
    <3>5. \/ command' = command
          \/ refresh.who = "preflight" /\ command'.step = "read"
          \/ command'.step = "compare"
      <4>1. refresh.step # "none"
        BY <3>1 DEF InAnswer
      <4>2. \/ command' = command
            \/ refresh.who = "preflight" /\ command' = [command EXCEPT !.step = "read"]
            \/ command' = [command EXCEPT !.step = "compare", !.verdict = TRUE]
        BY <3>1, <4>1, ReturnsCommand
      <4> QED BY <4>2 DEF TypeOK, CommandType
    <3>6. ASSUME ~history.moved, command'.step \in {"read", "prepare"} PROVE RowTrue'
      BY <3>1, <3>4, <3>5, <3>6 DEF Replaced
    <3>7. command'.step = "dispatch" => command.step = "dispatch"
      BY <3>5
    <3> QED BY <3>1, <3>2, <3>6, <3>7 DEF Replaced
  <2> QED BY <2>1, <2>2
<1>7. ASSUME NEW draft \in Drafted, NEW dated \in BOOLEAN, NEW heard \in BOOLEAN,
             RemoteEdit(draft, dated, heard)
      PROVE  Replaced'
  <2>1. history'.moved /\ history'.replaced = history.replaced /\ db' = db
    BY <1>7, EditFacts
  <2> QED BY <2>1 DEF Replaced
<1>8. ASSUME NEW u \in flight, NEW retry \in {"now", "later"}, Deliver(u, retry) PROVE Replaced'
  <2>1. db \in Projection /\ u \in UpdateType /\ db' = Realtime(db, u, retry)
    BY <1>8, OrderTypes DEF TypeOK, Deliver
  <2>2. /\ db'.floor = db.floor /\ db.kept \subseteq db'.kept
        /\ \/ db' = db
           \/ u.order > Current(db) /\ ~db'.claimed
           \/ db'.row = db.row /\ ~db'.claimed
    BY <2>1, RealtimeFacts
  <2>3. UNCHANGED <<telegram, refresh, command, wire, history>> /\ flight' \subseteq flight
    BY <1>8 DEF Deliver
  <2>4. CASE db'.row = db.row /\ (db' = db \/ ~db'.claimed)
    BY <2>2, <2>3, <2>4, ReplacedStays DEF InAnswer
  <2>5. CASE u.order > Current(db) /\ ~db'.claimed
    <3>1. ~RowTrue
      BY <2>5, OrderTypes DEF RowTrue
    <3>2. ~InAnswer'
      BY <2>5 DEF InAnswer
    <3> QED BY <2>2, <2>3, <3>1, <3>2 DEF Replaced
  <2> QED BY <2>2, <2>4, <2>5
<1>9. CASE (\E u \in flight : DeliverFails(u)) \/ Ask \/ ReconnectObserved \/ DuePasses
  BY <1>9, ReplacedProjection DEF Ordered
<1> QED BY <1>1, <1>2, <1>3, <1>4, <1>5, <1>6, <1>7, <1>8, <1>9 DEF Next, Snapshot, Updates, Drafted
-----------------------------------------------------------------------------
(* The theorems *)

\* Every state that edits, updates, snapshots, the command, stops and crashes lead to
THEOREM Invariant == Spec => []IInv
<1>1. Init => IInv
  BY TypeInit, ControlInit, FateInit, OrderedInit, LatelyInit, TruthInit, ReplacedInit DEF IInv
<1>2. IInv /\ [Next]_vars => IInv'
  <2> SUFFICES ASSUME IInv, [Next]_vars PROVE IInv'
    OBVIOUS
  <2>1. TypeOK /\ Control /\ Fate /\ Ordered /\ Lately /\ Truth /\ Replaced
    BY DEF IInv
  <2>2. TypeOK' /\ Control'
    BY <2>1, TypeStep, ControlStep
  <2>3. Fate' /\ Ordered'
    BY <2>1, <2>2, FateStep, OrderedStep
  <2>4. Lately' /\ Truth' /\ Replaced'
    BY <2>1, LatelyStep, TruthStep, ReplacedStep
  <2> QED BY <2>2, <2>3, <2>4 DEF IInv
<1> QED BY <1>1, <1>2, PTL DEF Spec

\* get_draft: when nothing is on its way or pending, a draft that carries a version is
\* what Telegram has, unless a draft came back within its second or a command was applied
\* that the daemon had given up (history.doubt; see Quiet).
THEOREM QuietTrue == Spec => []QuietIsTrue
<1>1. IInv => QuietIsTrue
  <2> SUFFICES ASSUME IInv, Quiet PROVE Shown(db) = telegram.draft
    BY DEF QuietIsTrue
  <2>1. ~Blocked /\ ~Pending(db) /\ flight = {}
    BY DEF Quiet, Blocked
  <2>2. RowStands
    BY <2>1 DEF IInv, Truth, RowUnderway
  <2> QED BY <2>2 DEF RowStands, Shown, Told
<1> QED BY <1>1, Invariant, PTL

\* A key writes once, under a claim that has an owner; a verdict on the write comes from a
\* read after it, what it replaced is kept, and what is uncertain is under recovery.
THEOREM FateKnown == Spec => []DraftFateKnown
<1>1. IInv => DraftFateKnown
  <2> SUFFICES ASSUME IInv PROVE DraftFateKnown
    OBVIOUS
  <2>1. VerdictIsPostWrite /\ OneWrite
    BY DEF IInv, Fate, VerdictIsPostWrite, OneWrite
  <2>2. ReplacedIsKept /\ ClaimHasOwner /\ UncertaintyIsPursued
    BY DEF IInv, Replaced, Ordered, ReplacedIsKept
  <2> QED BY <2>1, <2>2 DEF DraftFateKnown
<1> QED BY <1>1, Invariant, PTL

\* Only a newer update or a snapshot no older than the floor and the row moves them.
LEMMA AdvanceStep ==
    ASSUME TypeOK, Control, Ordered, [Next]_vars
    PROVE  db'.row.order >= db.row.order /\ db'.floor >= db.floor
<1>1. CASE Steady
  BY <1>1, OrderTypes DEF Steady
<1>2. CASE db' = db
  BY <1>2, OrderTypes
<1>3. CASE Publish /\ Accepts(db, refresh.order)
  <2>1. /\ db'.floor = refresh.order
        /\ db'.row = db.row \/ db'.row.order = refresh.order
    BY <1>3, AcceptedFacts DEF Ordered
  <2>2. db.floor <= refresh.order /\ db.row.order <= refresh.order
    BY <1>3, OrderTypes DEF Publish, Accepts, Ordered, Clocked, InAnswer
  <2> QED BY <2>1, <2>2, OrderTypes
<1>4. ASSUME NEW u \in flight, NEW retry \in {"now", "later"}, Deliver(u, retry)
      PROVE  db'.row.order >= db.row.order /\ db'.floor >= db.floor
  <2>1. db \in Projection /\ u \in UpdateType /\ db' = Realtime(db, u, retry)
    BY <1>4 DEF TypeOK, Deliver
  <2>2. /\ db'.floor = db.floor
        /\ \/ db' = db
           \/ u.order > Current(db) /\ db'.row.order = u.order
           \/ db'.row = db.row
    BY <2>1, RealtimeFacts
  <2> QED BY <1>4, <2>2, OrderTypes
<1>5. ClockTicks \/ Applied \/ SnapshotAnswered => db' = db
  BY DEF ClockTicks, Applied, SnapshotAnswered
<1>6. (\E draft \in Drafted, dated \in BOOLEAN, heard \in BOOLEAN : RemoteEdit(draft, dated, heard))
        => db' = db
  BY DEF RemoteEdit
<1> QED BY <1>1, <1>2, <1>3, <1>4, <1>5, <1>6, StepKinds DEF Ordered

\* apply_realtime, apply_snapshot and bind_account: the order of the row and the floor never
\* go back, whatever arrives late and whenever the daemon stops.
THEOREM OrdersNeverGoBack == Spec => OrdersAdvance
<1>1. IInv /\ [Next]_vars => [db'.row.order >= db.row.order /\ db'.floor >= db.floor]_db
  BY AdvanceStep DEF IInv
<1> QED BY <1>1, Invariant, PTL DEF Spec, OrdersAdvance

-----------------------------------------------------------------------------
(* CONTACTS.  What the commands on a contact preserve.                       *)

-----------------------------------------------------------------------------
(* Receipts *)

\* An observation changes a verdict only of a receipt that was settled before it, and then
\* the receipt is no longer pending.
LEMMA RefinedFacts ==
    ASSUME NEW r \in Receipt, NEW ord \in 0..clock, NEW val
    PROVE  /\ RefinedUnknown(r, ord) \in Receipt /\ SameOutcome(r, RefinedUnknown(r, ord))
           /\ RefinedAcknowledged(r, ord, val) \in Receipt /\ SameOutcome(r, RefinedAcknowledged(r, ord, val))
           /\ LET s == RefinedAcknowledged(RefinedUnknown(r, ord), ord, val)
              IN  /\ s \in Receipt /\ SameOutcome(r, s)
                  /\ s.ver # r.ver => r.outcome \in {"unknown", "acknowledged"} /\ r.term < ord
                  /\ r.term < ord => ~VerificationPending(s)
BY SMTT(40), ZenonT(60) DEF RefinedUnknown, RefinedAcknowledged, SameOutcome, VerificationPending, Receipt, Verdicts, Outcomes

\* The end of a refresh leaves nothing pending that was settled before its request.
LEMMA FinishFacts ==
    ASSUME NEW rs \in [Keys -> Receipt], NEW ord \in 0..clock, NEW k \in Keys
    PROVE  /\ FinishAttempt(rs, ord)[k] \in Receipt /\ SameOutcome(rs[k], FinishAttempt(rs, ord)[k])
           /\ FinishAttempt(rs, ord)[k].ver \in {rs[k].ver, "inconclusive"}
           /\ rs[k].term < ord => ~VerificationPending(FinishAttempt(rs, ord)[k])
BY DEF FinishAttempt, SameOutcome, VerificationPending, Receipt, Verdicts, Outcomes

\* Leaving outcomes alone is transitive ...
LEMMA SameIsTransitive ==
    ASSUME NEW a, NEW b, NEW c, SameOutcome(a, b), SameOutcome(b, c) PROVE SameOutcome(a, c)
BY DEF SameOutcome

\* ... and reflexive.
LEMMA SameIsReflexive == ASSUME NEW a PROVE SameOutcome(a, a)
BY DEF SameOutcome

\* Refining by an observation judges by it (refine_unknown, refine_acknowledged).
LEMMA RefinedJudges ==
    ASSUME rec \in [Keys -> Receipt], NEW o, o.ord \in 0..clock, rec' = Refined(rec, o) \/ rec' = rec
    PROVE  rec' \in [Keys -> Receipt] /\ Judged(o)
<1>1. CASE rec' = rec
  BY <1>1, SameIsReflexive DEF Judged
<1>2. CASE rec' = Refined(rec, o)
  <2>1. \A k \in Keys : rec'[k] = RefinedAcknowledged(RefinedUnknown(rec[k], o.ord), o.ord, o.val)
    BY <1>2 DEF Refined
  <2>2. \A k \in Keys : rec[k] \in Receipt
    OBVIOUS
  <2>3. \A k \in Keys : rec'[k] \in Receipt
    BY <2>1, <2>2, RefinedFacts
  <2>4. Judged(o)
    BY <2>1, <2>2, RefinedFacts DEF Judged
  <2> QED BY <1>2, <2>3, <2>4 DEF Refined
<1> QED BY <1>1, <1>2

\* The steps that judge receipts, and the observation each of them judges by
LEMMA CommandPublishJudges ==
    ASSUME ContactTypeOK, CommandPublish
    PROVE  rec' \in [Keys -> Receipt] /\ Judged(FetchedBy("cmd"))
<1>1. rec \in [Keys -> Receipt] /\ FetchedBy("cmd").ord \in 0..clock
  BY DEF ContactTypeOK, FetchedBy, Acquisition, Readers
<1>2. rec' = Refined(rec, FetchedBy("cmd")) \/ rec' = rec
  BY DEF CommandPublish
<1> QED BY <1>1, <1>2, RefinedJudges

\* record_verification judges by the canonical observation,
LEMMA PublishVerificationJudges ==
    ASSUME ContactTypeOK, PublishVerification
    PROVE  rec' \in [Keys -> Receipt] /\ Judged(local)
<1>1. /\ rec \in [Keys -> Receipt] /\ local.ord \in 0..clock /\ cmd.key \in Keys
      /\ \A k \in Keys : rec[k] \in Receipt
  BY DEF ContactTypeOK, Evidence, PublishVerification
<1>2. \/ rec' = rec
      \/ rec' = [rec EXCEPT ![cmd.key] = RefinedAcknowledged(rec[cmd.key], local.ord, local.val)]
  BY DEF PublishVerification
<1>3. /\ RefinedAcknowledged(rec[cmd.key], local.ord, local.val) \in Receipt
      /\ SameOutcome(rec[cmd.key], RefinedAcknowledged(rec[cmd.key], local.ord, local.val))
  BY <1>1, RefinedFacts
<1>4. RefinedAcknowledged(rec[cmd.key], local.ord, local.val).ver # rec[cmd.key].ver =>
          rec[cmd.key].outcome \in {"unknown", "acknowledged"} /\ rec[cmd.key].term < local.ord
  BY DEF RefinedAcknowledged
<1>5. rec' \in [Keys -> Receipt]
  BY <1>1, <1>2, <1>3
<1>6. ASSUME NEW k \in Keys
      PROVE  /\ SameOutcome(rec[k], rec'[k])
             /\ rec'[k].ver # rec[k].ver => rec[k].outcome \in {"unknown", "acknowledged"} /\ rec[k].term < local.ord
  BY <1>1, <1>2, <1>3, <1>4, SameIsReflexive
<1> QED BY <1>5, <1>6 DEF Judged

\* so does a refresh before it reads,
LEMMA RefreshStartJudges ==
    ASSUME ContactTypeOK, RefreshStart
    PROVE  rec' \in [Keys -> Receipt] /\ Judged(local)
<1>1. rec \in [Keys -> Receipt] /\ local.ord \in 0..clock
  BY DEF ContactTypeOK, Evidence
<1>2. rec' = Refined(rec, local) \/ rec' = rec
  BY DEF RefreshStart
<1> QED BY <1>1, <1>2, RefinedJudges

\* and its commit judges by what it read, and closes what precedes it.
LEMMA RefreshPublishJudges ==
    ASSUME ContactTypeOK, RefreshPublish
    PROVE  /\ rec' \in [Keys -> Receipt] /\ Judged(FetchedBy("refresh"))
           /\ \/ profile' = profile
              \/ /\ profile' = "rest" /\ fetch["refresh"].st = "got"
                 /\ \A k \in Keys : VerificationPending(rec'[k]) => rec[k].term >= fetch["refresh"].ord
<1>. DEFINE o == FetchedBy("refresh")
            rs == IF local' = o THEN Refined(rec, o) ELSE rec
<1>1. /\ rec \in [Keys -> Receipt] /\ o.ord \in 0..clock /\ o.ord = fetch["refresh"].ord
      /\ clock \in Nat /\ \A k \in Keys : rec[k] \in Receipt /\ rec[k].term \in Nat
  BY DEF ContactTypeOK, FetchedBy, Acquisition, Readers, Receipt
<1>2. \/ rec' = rec /\ profile' = profile
      \/ rec' = FinishAttempt(rs, o.ord) /\ profile' = "rest" /\ fetch["refresh"].st = "got"
  BY DEF RefreshPublish
<1>3. CASE rec' = rec /\ profile' = profile
  BY <1>1, <1>3, SameIsReflexive DEF Judged
<1>4. CASE rec' = FinishAttempt(rs, o.ord) /\ profile' = "rest" /\ fetch["refresh"].st = "got"
  <2>1. /\ rs \in [Keys -> Receipt]
        /\ \A k \in Keys : /\ SameOutcome(rec[k], rs[k])
                           /\ rs[k].ver # rec[k].ver =>
                                 rec[k].outcome \in {"unknown", "acknowledged"} /\ rec[k].term < o.ord
    <3>1. CASE rs = rec
      BY <1>1, <3>1, SameIsReflexive
    <3>2. CASE rs = Refined(rec, o)
      <4>1. \A k \in Keys : rs[k] = RefinedAcknowledged(RefinedUnknown(rec[k], o.ord), o.ord, o.val)
        BY <3>2 DEF Refined
      <4>2. \A k \in Keys : rs[k] \in Receipt
        BY <1>1, <4>1, RefinedFacts
      <4>3. rs \in [Keys -> Receipt]
        BY <3>2, <4>2 DEF Refined
      <4> QED BY <1>1, <4>1, <4>3, RefinedFacts
    <3> QED BY <3>1, <3>2
  <2>. HIDE DEF rs
  <2>2. \A k \in Keys : /\ rec'[k] \in Receipt /\ SameOutcome(rs[k], rec'[k])
                        /\ rec'[k].ver \in {rs[k].ver, "inconclusive"}
                        /\ rs[k].term < o.ord => ~VerificationPending(rec'[k])
    BY <1>1, <1>4, <2>1, FinishFacts
  <2>3. rec' \in [Keys -> Receipt]
    BY <1>4, <2>2 DEF FinishAttempt
  <2>4. Judged(o)
    BY <2>1, <2>2, SameIsTransitive DEF Judged
  <2>5. ASSUME NEW k \in Keys, VerificationPending(rec'[k]) PROVE rec[k].term >= o.ord
    <3>1. rs[k].term = rec[k].term
      BY <2>1 DEF SameOutcome
    <3> QED BY <1>1, <2>2, <2>5, <3>1
  <2> QED BY <1>1, <1>4, <2>3, <2>4, <2>5
<1> QED BY <1>2, <1>3, <1>4

-----------------------------------------------------------------------------
(* Which steps change what *)

\* Each variable is changed by few actions.
LEMMA ContactFrames ==
    ASSUME ContactNext
    PROVE  /\ rec' = rec \/ ReceiptSteps
           /\ cmd' = cmd \/ CommandSteps
           /\ fetch' = fetch \/ FetchSteps
           /\ clock' = clock \/ ClockSteps
           /\ local' = local \/ CommandPublish \/ RefreshPublish \/ ApplyPush
<1>. USE DEF remote, disk, fences, bounds, ghosts, NoOffer, Ended, Settling, Serving, Beginning
<1>1. rec' = rec \/ ReceiptSteps
  <2>1. CASE Command
    BY <2>1 DEF Command, Begin, AcquireStart, CommandPublish, Judge, Reserve, Arm, BindAttempt, PrepareIntent, PreclaimTokens, ClaimWrite, ClaimRefused, CallReturns, PostJudge, PublishVerification, Cleanup, Cancel, ReceiptSteps
  <2>2. CASE Wire
    BY <2>2 DEF Wire, TelegramApplies, TelegramRefuses, SettleReceipt, SettleLedger, ReceiptSteps
  <2>3. CASE Refresh
    BY <2>3 DEF Refresh, AskRefresh, RefreshStart, RefreshPublish, RefreshDone, ReceiptSteps
  <2>4. CASE World
    BY <2>4 DEF World, Serve, OtherDevice, CapturePush, ApplyPush, ResetScope, ReceiptSteps
  <2>5. CASE Restarting
    BY <2>5 DEF Restarting, Crash, ReconcileIntents, RecoverInterrupted, OfferUnresolved, ReceiptSteps
  <2> QED BY <2>1, <2>2, <2>3, <2>4, <2>5 DEF ContactNext
<1>2. cmd' = cmd \/ CommandSteps
  <2>1. CASE Command
    BY <2>1 DEF Command, Begin, AcquireStart, CommandPublish, Judge, Reserve, Arm, BindAttempt, PrepareIntent, PreclaimTokens, ClaimWrite, ClaimRefused, CallReturns, PostJudge, PublishVerification, Cleanup, Cancel, CommandSteps
  <2>2. CASE Wire
    BY <2>2 DEF Wire, TelegramApplies, TelegramRefuses, SettleReceipt, SettleLedger, CommandSteps
  <2>3. CASE Refresh
    BY <2>3 DEF Refresh, AskRefresh, RefreshStart, RefreshPublish, RefreshDone, CommandSteps
  <2>4. CASE World
    BY <2>4 DEF World, Serve, OtherDevice, CapturePush, ApplyPush, ResetScope, CommandSteps
  <2>5. CASE Restarting
    BY <2>5 DEF Restarting, Crash, ReconcileIntents, RecoverInterrupted, OfferUnresolved, CommandSteps
  <2> QED BY <2>1, <2>2, <2>3, <2>4, <2>5 DEF ContactNext
<1>3. fetch' = fetch \/ FetchSteps
  <2>1. CASE Command
    BY <2>1 DEF Command, Begin, AcquireStart, CommandPublish, Judge, Reserve, Arm, BindAttempt, PrepareIntent, PreclaimTokens, ClaimWrite, ClaimRefused, CallReturns, PostJudge, PublishVerification, Cleanup, Cancel, FetchSteps
  <2>2. CASE Wire
    BY <2>2 DEF Wire, TelegramApplies, TelegramRefuses, SettleReceipt, SettleLedger, FetchSteps
  <2>3. CASE Refresh
    BY <2>3 DEF Refresh, AskRefresh, RefreshStart, RefreshPublish, RefreshDone, FetchSteps
  <2>4. CASE World
    BY <2>4 DEF World, Serve, OtherDevice, CapturePush, ApplyPush, ResetScope, FetchSteps
  <2>5. CASE Restarting
    BY <2>5 DEF Restarting, Crash, ReconcileIntents, RecoverInterrupted, OfferUnresolved, FetchSteps
  <2> QED BY <2>1, <2>2, <2>3, <2>4, <2>5 DEF ContactNext
<1>4. clock' = clock \/ ClockSteps
  <2>1. CASE Command
    BY <2>1 DEF Command, Begin, AcquireStart, CommandPublish, Judge, Reserve, Arm, BindAttempt, PrepareIntent, PreclaimTokens, ClaimWrite, ClaimRefused, CallReturns, PostJudge, PublishVerification, Cleanup, Cancel, ClockSteps
  <2>2. CASE Wire
    BY <2>2 DEF Wire, TelegramApplies, TelegramRefuses, SettleReceipt, SettleLedger, ClockSteps
  <2>3. CASE Refresh
    BY <2>3 DEF Refresh, AskRefresh, RefreshStart, RefreshPublish, RefreshDone, ClockSteps
  <2>4. CASE World
    BY <2>4 DEF World, Serve, OtherDevice, CapturePush, ApplyPush, ResetScope, ClockSteps
  <2>5. CASE Restarting
    BY <2>5 DEF Restarting, Crash, ReconcileIntents, RecoverInterrupted, OfferUnresolved, ClockSteps
  <2> QED BY <2>1, <2>2, <2>3, <2>4, <2>5 DEF ContactNext
<1>5. local' = local \/ CommandPublish \/ RefreshPublish \/ ApplyPush
  <2>1. CASE Command
    BY <2>1 DEF Command, Begin, AcquireStart, CommandPublish, Judge, Reserve, Arm, BindAttempt, PrepareIntent, PreclaimTokens, ClaimWrite, ClaimRefused, CallReturns, PostJudge, PublishVerification, Cleanup, Cancel
  <2>2. CASE Wire
    BY <2>2 DEF Wire, TelegramApplies, TelegramRefuses, SettleReceipt, SettleLedger
  <2>3. CASE Refresh
    BY <2>3 DEF Refresh, AskRefresh, RefreshStart, RefreshPublish, RefreshDone
  <2>4. CASE World
    BY <2>4 DEF World, Serve, OtherDevice, CapturePush, ApplyPush, ResetScope
  <2>5. CASE Restarting
    BY <2>5 DEF Restarting, Crash, ReconcileIntents, RecoverInterrupted, OfferUnresolved
  <2> QED BY <2>1, <2>2, <2>3, <2>4, <2>5 DEF ContactNext
<1> QED BY <1>1, <1>2, <1>3, <1>4, <1>5

-----------------------------------------------------------------------------
(* Types *)

\* The durable sequence only grows, within its bound.
LEMMA ClockGrows ==
    ASSUME ContactTypeOK, ContactNext
    PROVE  clock' \in Nat /\ clock' <= MaxOrder /\ clock <= clock'
<1>1. clock \in Nat /\ clock <= MaxOrder /\ MaxOrder \in Nat
  BY ContactAssumption DEF ContactTypeOK
<1>2. clock' = clock \/ (clock < MaxOrder /\ clock' = clock + 1)
  <2>1. CASE Settling
    BY <2>1 DEF Settling, SettleReceipt
  <2>2. CASE AcquireStart \/ RefreshStart \/ ApplyPush \/ ReconcileIntents \/ RecoverInterrupted
    BY <2>2 DEF AcquireStart, StartFetch, RefreshStart, ApplyPush, ReconcileIntents, RecoverInterrupted
  <2> QED BY <2>1, <2>2, ContactFrames DEF ClockSteps
<1> QED BY <1>1, <1>2

\* What had a type keeps it when the sequence grows.
LEMMA TypesGrow ==
    ASSUME ContactTypeOK, ContactNext
    PROVE  /\ Receipt \subseteq Receipt' /\ Evidence \subseteq Evidence'
           /\ Acquisition \subseteq Acquisition' /\ Running \subseteq Running'
<1>1. clock \in Nat /\ clock' \in Nat /\ clock <= clock'
  BY ClockGrows DEF ContactTypeOK
<1>2. 0..clock \subseteq 0..clock'
  BY <1>1
<1> QED BY <1>2 DEF Receipt, Evidence, Acquisition, Running, Contents, Marks, Stages

\* What the gate or a restart writes into a receipt
LEMMA OutcomeFacts ==
    ASSUME NEW r \in Receipt, NEW outcome \in Terminal, clock \in Nat, clock' = clock + 1
    PROVE  /\ WireOutcome(r, outcome) \in Receipt'
           /\ WireOutcome(r, outcome).outcome = outcome /\ WireOutcome(r, outcome).bound = r.bound
           /\ WireOutcome(r, outcome).term = clock + 1 /\ WireOutcome(r, outcome).ver = r.ver
<1>1. r.term \in 0..clock' /\ r.verOrd \in 0..clock' /\ clock + 1 \in 0..clock' /\ outcome \in Outcomes
  BY DEF Receipt, Terminal, Outcomes
<1>2. r.want \in Contents /\ r.bound \in BOOLEAN /\ r.ver \in Verdicts
  BY DEF Receipt
<1>3. /\ WireOutcome(r, outcome).outcome = outcome /\ WireOutcome(r, outcome).bound = r.bound
      /\ WireOutcome(r, outcome).term = clock + 1 /\ WireOutcome(r, outcome).ver = r.ver
  BY DEF WireOutcome, Receipt
<1>. DEFINE now == clock + 1
<1>4. WireOutcome(r, outcome) = [r EXCEPT !.outcome = outcome, !.term = now]
  BY DEF WireOutcome
<1>5. now \in 0..clock'
  BY <1>1
<1>. HIDE DEF now
<1>6. [r EXCEPT !.outcome = outcome, !.term = now] \in Receipt'
  BY <1>1, <1>2, <1>5 DEF Receipt, Contents
<1> QED BY <1>3, <1>4, <1>6

\* The receipts that settling, a recovery or a command makes
LEMMA SettledReceipt ==
    ASSUME ContactTypeOK, NEW k \in Keys, NEW outcome \in Terminal, SettleReceipt(k, outcome)
    PROVE  /\ rec' \in [Keys -> Receipt'] /\ clock' = clock + 1
           /\ \A j \in Keys \ {k} : rec'[j] = rec[j]
           /\ rec'[k] = IF rec[k].outcome = "pending" THEN WireOutcome(rec[k], outcome) ELSE rec[k]
<1>1. rec \in [Keys -> Receipt] /\ clock \in Nat /\ clock' = clock + 1
  BY DEF ContactTypeOK, SettleReceipt
<1>2. rec' = [rec EXCEPT ![k] = IF rec[k].outcome = "pending" THEN WireOutcome(rec[k], outcome) ELSE rec[k]]
  BY DEF SettleReceipt
<1>3. \A j \in Keys : rec[j] \in Receipt /\ rec[j] \in Receipt'
  BY <1>1 DEF Receipt
<1>4. WireOutcome(rec[k], outcome) \in Receipt'
  BY <1>1, <1>3, OutcomeFacts
<1> QED BY <1>1, <1>2, <1>3, <1>4

\* _reconcile_native_receipts: a bound receipt of an intent becomes unknown.
LEMMA ReconciledReceipts ==
    ASSUME ContactTypeOK, ReconcileIntents
    PROVE  /\ rec' \in [Keys -> Receipt'] /\ clock' = clock + 1
           /\ \A k \in Keys : rec'[k] = IF intent[k] = "prepared" /\ rec[k].outcome = "pending" /\ rec[k].bound
                                        THEN WireOutcome(rec[k], "unknown") ELSE rec[k]
<1>1. rec \in [Keys -> Receipt] /\ clock \in Nat /\ clock' = clock + 1
  BY DEF ContactTypeOK, ReconcileIntents
<1>2. rec' = [k \in Keys |-> IF intent[k] = "prepared" THEN RecoveredBinding(rec[k]) ELSE rec[k]]
  BY DEF ReconcileIntents
<1>3. \A k \in Keys : rec'[k] = IF intent[k] = "prepared" /\ rec[k].outcome = "pending" /\ rec[k].bound
                                THEN WireOutcome(rec[k], "unknown") ELSE rec[k]
  BY <1>2 DEF RecoveredBinding
<1>4. \A k \in Keys : WireOutcome(rec[k], "unknown") \in Receipt' /\ rec[k] \in Receipt'
  <2>1. SUFFICES ASSUME NEW k \in Keys
                 PROVE  WireOutcome(rec[k], "unknown") \in Receipt' /\ rec[k] \in Receipt'
    OBVIOUS
  <2>2. rec[k] \in Receipt /\ "unknown" \in Terminal
    BY <1>1 DEF Terminal
  <2> QED BY <1>1, <2>2, OutcomeFacts DEF Receipt
<1>5. \A k \in Keys : rec'[k] \in Receipt'
  BY <1>3, <1>4
<1> QED BY <1>1, <1>2, <1>3, <1>5

\* recover_interrupted_operations: so does every pending one.
LEMMA RecoveredReceipts ==
    ASSUME ContactTypeOK, RecoverInterrupted
    PROVE  /\ rec' \in [Keys -> Receipt'] /\ clock' = clock + 1
           /\ \A k \in Keys : rec'[k] = IF rec[k].outcome = "pending"
                                        THEN WireOutcome(rec[k], "unknown") ELSE rec[k]
<1>1. rec \in [Keys -> Receipt] /\ clock \in Nat /\ clock' = clock + 1
  BY DEF ContactTypeOK, RecoverInterrupted
<1>2. rec' = [k \in Keys |-> IF rec[k].outcome = "pending" THEN WireOutcome(rec[k], "unknown") ELSE rec[k]]
  BY DEF RecoverInterrupted
<1>3. \A k \in Keys : WireOutcome(rec[k], "unknown") \in Receipt' /\ rec[k] \in Receipt'
  <2>1. SUFFICES ASSUME NEW k \in Keys
                 PROVE  WireOutcome(rec[k], "unknown") \in Receipt' /\ rec[k] \in Receipt'
    OBVIOUS
  <2>2. rec[k] \in Receipt /\ "unknown" \in Terminal
    BY <1>1 DEF Terminal
  <2> QED BY <1>1, <2>2, OutcomeFacts DEF Receipt
<1>4. \A k \in Keys : rec'[k] \in Receipt'
  BY <1>2, <1>3
<1> QED BY <1>1, <1>2, <1>4

\* Every step leaves receipts ...
LEMMA ReceiptsTyped ==
    ASSUME ContactTypeOK, ContactNext
    PROVE  rec' \in [Keys -> Receipt']
<1>1. rec \in [Keys -> Receipt] /\ Receipt \subseteq Receipt'
      /\ cmd.ord \in 0..clock /\ cmd.want \in Contents /\ (cmd.pc # "idle" => cmd.key \in Keys)
  BY TypesGrow DEF ContactTypeOK, Running
<1>2. CASE Settling
  BY <1>2, SettledReceipt DEF Settling
<1>3. CASE ReconcileIntents \/ RecoverInterrupted
  BY <1>3, ReconciledReceipts, RecoveredReceipts
<1>4. CASE CommandPublish \/ PublishVerification \/ RefreshStart \/ RefreshPublish
  <2>1. rec' \in [Keys -> Receipt]
    BY <1>4, CommandPublishJudges, PublishVerificationJudges, RefreshStartJudges, RefreshPublishJudges
  <2> QED BY <1>1, <2>1
<1>5. CASE Reserve
  <2>1. /\ [NoRec EXCEPT !.outcome = "unchanged", !.want = cmd.want, !.ver = "verified", !.verOrd = cmd.ord] \in Receipt
        /\ [NoRec EXCEPT !.outcome = "pending", !.want = cmd.want] \in Receipt
    <3>1. 0 \in 0..clock
      BY DEF ContactTypeOK
    <3> QED BY <1>1, <3>1 DEF NoRec, Receipt, Outcomes, Verdicts
  <2>2. rec' \in [Keys -> Receipt]
    BY <1>1, <1>5, <2>1 DEF Reserve
  <2> QED BY <1>1, <2>2
<1>6. CASE BindAttempt \/ Cleanup
  <2>1. rec' = [rec EXCEPT ![cmd.key] = [rec[cmd.key] EXCEPT !.bound = TRUE]]
        \/ rec' = [rec EXCEPT ![cmd.key] = RejectUnclaimed(rec[cmd.key])]
    BY <1>6 DEF BindAttempt, Cleanup
  <2>2. rec[cmd.key] \in Receipt
    BY <1>1, <1>6 DEF BindAttempt, Cleanup
  <2>3. [rec[cmd.key] EXCEPT !.bound = TRUE] \in Receipt /\ RejectUnclaimed(rec[cmd.key]) \in Receipt
    BY <2>2 DEF Receipt, RejectUnclaimed, Outcomes
  <2>4. rec' \in [Keys -> Receipt]
    BY <1>1, <2>1, <2>3
  <2> QED BY <1>1, <2>4
<1>7. CASE rec' = rec
  BY <1>1, <1>7
<1> QED BY <1>2, <1>3, <1>4, <1>5, <1>6, <1>7, ContactFrames DEF ReceiptSteps

\* ... a command ...
LEMMA CommandTyped ==
    ASSUME ContactTypeOK, ContactNext
    PROVE  cmd' \in Running' /\ (cmd'.pc # "idle" => cmd'.key \in Keys /\ cmd'.intake # NoMark)
<1>. DEFINE Good(c) == c \in Running /\ (c.pc # "idle" => c.key \in Keys /\ c.intake # NoMark)
<1>1. /\ Good(cmd) /\ Running \subseteq Running' /\ local.ord \in 0..clock /\ scopeGen \in Nat /\ gen \in Nat
      /\ delivered \in Nat /\ clock \in Nat
  BY TypesGrow DEF ContactTypeOK, Evidence
<1>2. Good(NoCmd)
  BY <1>1 DEF NoCmd, NoMark, Running, Stages, Contents, Marks
<1>3. ASSUME NEW p \in Stages \ {"idle"}, cmd.pc # "idle" PROVE Good([cmd EXCEPT !.pc = p])
  BY <1>1, <1>3 DEF Running, NoMark
<1>4. ASSUME NEW k \in Keys, NEW want \in Values, NEW ver \in Values, Begin(k, want, ver) PROVE Good(cmd')
  <2>. DEFINE m == <<scopeGen, IF Tracked(cmd, fetch) THEN delivered ELSE 0>>
  <2>1. m \in Marks /\ m # NoMark
    BY <1>1 DEF Marks, NoMark
  <2>2. cmd' = [NoCmd EXCEPT !.pc = "acquire", !.key = k, !.want = want, !.ver = ver, !.intake = m]
    BY <1>4 DEF Begin
  <2>. HIDE DEF m
  <2>3. NoCmd \in Running /\ want \in Contents /\ ver \in Contents /\ "acquire" \in Stages
    BY <1>2 DEF Contents, Stages
  <2>4. [NoCmd EXCEPT !.pc = "acquire", !.key = k, !.want = want, !.ver = ver, !.intake = m] \in Running
    BY <2>1, <2>3 DEF Running
  <2> QED BY <2>1, <2>2, <2>3, <2>4 DEF Running
<1>5. ASSUME AcquireStart PROVE Good(cmd')
  <2>. DEFINE m == <<scopeGen, delivered>>
  <2>1. m \in Marks /\ m # NoMark
    BY <1>1 DEF Marks, NoMark
  <2>2. cmd' = cmd \/ cmd' = [cmd EXCEPT !.intake = m]
    BY <1>5 DEF AcquireStart
  <2>. HIDE DEF m
  <2> QED BY <1>1, <2>1, <2>2 DEF Running
<1>6. ASSUME Judge \/ PostJudge PROVE Good(cmd')
  <2>1. \/ cmd' = NoCmd
        \/ \E p \in Stages \ {"idle"}, b \in BOOLEAN : cmd' = [cmd EXCEPT !.pc = p, !.ord = local.ord, !.noop = b]
    <3>1. CASE Judge
      BY <3>1 DEF Judge, Ended, Stages
    <3>2. CASE PostJudge
      <4>1. cmd' = NoCmd \/ cmd' = [cmd EXCEPT !.pc = "verify", !.ord = local.ord]
        BY <3>2 DEF PostJudge, Ended
      <4>2. [cmd EXCEPT !.pc = "verify", !.ord = local.ord] =
                [cmd EXCEPT !.pc = "verify", !.ord = local.ord, !.noop = cmd.noop]
        BY <1>1 DEF Running
      <4> QED BY <1>1, <4>1, <4>2 DEF Running, Stages
    <3> QED BY <1>6, <3>1, <3>2
  <2>2. cmd.pc # "idle"
    BY <1>6 DEF Judge, PostJudge
  <2> QED BY <1>1, <1>2, <2>1, <2>2 DEF Running, NoMark
<1>7. ASSUME Arm PROVE Good(cmd')
  <2>. DEFINE m == <<scopeGen, gen>>
  <2>1. m \in Marks
    BY <1>1 DEF Marks
  <2>2. cmd' = [cmd EXCEPT !.pc = "bind", !.permit = m] \/ cmd' = [cmd EXCEPT !.pc = "clean"]
    BY <1>7 DEF Arm
  <2>3. cmd.pc # "idle"
    BY <1>7 DEF Arm
  <2>. HIDE DEF m
  <2> QED BY <1>1, <2>1, <2>2, <2>3 DEF Running, Stages, NoMark
<1>8. ASSUME CommandSteps, ~Beginning, ~AcquireStart, ~Judge, ~PostJudge, ~Arm PROVE Good(cmd')
  <2>1. cmd' = NoCmd \/ (cmd.pc # "idle" /\ \E p \in Stages \ {"idle"} : cmd' = [cmd EXCEPT !.pc = p])
    BY <1>8 DEF CommandSteps, Stages, Ended, Refused, Reserve, BindAttempt, PrepareIntent, PreclaimTokens,
       ClaimWrite, ClaimRefused, CallReturns, PublishVerification, Cleanup, Cancel, Crash
  <2> QED BY <1>2, <1>3, <2>1
<1>9. Good(cmd')
  BY <1>1, <1>4, <1>5, <1>6, <1>7, <1>8, ContactFrames DEF Beginning
<1> QED BY <1>1, <1>9

\* ... attempts on the wire ...
LEMMA RequestsTyped ==
    ASSUME ContactTypeOK, ContactNext
    PROVE  request' \in [Keys -> [st : {"none", "sent", "reject", "settled", "closed"}, revoked : BOOLEAN]]
<1>. DEFINE R == [st : {"none", "sent", "reject", "settled", "closed"}, revoked : BOOLEAN]
<1>1. request \in [Keys -> R] /\ NoWire \in R
  BY DEF ContactTypeOK, NoWire
<1>2. \/ request' = request \/ request' = [k \in Keys |-> NoWire]
      \/ \E k \in Keys, w \in R : request' = [request EXCEPT ![k] = w]
  <2>1. CASE Wire
    <3>1. ASSUME NEW k \in Keys, NEW o \in Terminal, SettleReceipt(k, o)
          PROVE  \E w \in R : request' = [request EXCEPT ![k] = w]
      <4>. DEFINE s == IF request[k].st = "sent" THEN "settled" ELSE "closed"
                  w == [request[k] EXCEPT !.st = s]
      <4>1. request' = [request EXCEPT ![k] = w]
        BY <3>1 DEF SettleReceipt
      <4>2. w \in R
        BY <1>1
      <4> QED BY <4>1, <4>2
    <3> QED BY <1>1, <2>1, <3>1 DEF Wire, TelegramApplies, TelegramRefuses, SettleLedger
  <2>2. CASE PreclaimTokens \/ ClaimWrite \/ Cancel
    <3>1. /\ cmd.pc # "idle"
          /\ \/ request' = request
             \/ request' = [request EXCEPT ![cmd.key] = [request[cmd.key] EXCEPT !.st = "reject"]]
             \/ request' = [request EXCEPT ![cmd.key] = [request[cmd.key] EXCEPT !.st = "sent"]]
             \/ request' = [request EXCEPT ![cmd.key] =
                  [request[cmd.key] EXCEPT !.revoked = (request[cmd.key].revoked \/ request[cmd.key].st # "none")]]
      BY <2>2 DEF PreclaimTokens, ClaimWrite, Cancel, Refused
    <3>2. cmd.key \in Keys /\ request[cmd.key] \in R
      BY <1>1, <3>1 DEF ContactTypeOK
    <3> QED BY <3>1, <3>2
  <2>3. CASE Crash
    BY <2>3 DEF Crash
  <2>4. CASE Refresh \/ World \/ ReconcileIntents \/ RecoverInterrupted \/ OfferUnresolved
    BY <2>4 DEF Refresh, World, AskRefresh, RefreshStart, RefreshPublish, RefreshDone, Serve, OtherDevice,
       CapturePush, ApplyPush, ResetScope, ReconcileIntents, RecoverInterrupted, OfferUnresolved
  <2>5. CASE Command /\ ~PreclaimTokens /\ ~ClaimWrite /\ ~Cancel
    BY <2>5 DEF Command, Begin, AcquireStart, CommandPublish, Judge, Reserve, Arm, BindAttempt, PrepareIntent,
       ClaimRefused, CallReturns, PostJudge, PublishVerification, Cleanup
  <2> QED BY <2>1, <2>2, <2>3, <2>4, <2>5 DEF ContactNext, Restarting
<1> QED BY <1>1, <1>2

\* ... acquisitions ...
LEMMA FetchTyped ==
    ASSUME ContactTypeOK, ContactNext
    PROVE  fetch' \in [Readers -> Acquisition']
<1>1. /\ fetch \in [Readers -> Acquisition] /\ Acquisition \subseteq Acquisition' /\ clock \in Nat
      /\ scopeGen \in Nat /\ delivered \in Nat /\ tg \in Contents
  BY TypesGrow DEF ContactTypeOK
<1>2. NoFetch \in Acquisition
  BY <1>1 DEF NoFetch, NoMark, Acquisition, Contents, Marks
<1>3. ASSUME NEW r \in Readers, NEW mark \in Marks, clock' = clock + 1,
             fetch' = [fetch EXCEPT ![r] = [NoFetch EXCEPT !.st = "sent", !.ord = clock + 1, !.mark = mark]]
      PROVE  fetch' \in [Readers -> Acquisition']
  <2>. DEFINE now == clock + 1
  <2>1. now \in 0..clock'
    BY <1>1, <1>3
  <2>. HIDE DEF now
  <2>2. [NoFetch EXCEPT !.st = "sent", !.ord = now, !.mark = mark] \in Acquisition'
    BY <2>1 DEF NoFetch, NoMark, Acquisition, Contents, Marks
  <2>3. fetch' = [fetch EXCEPT ![r] = [NoFetch EXCEPT !.st = "sent", !.ord = now, !.mark = mark]]
    BY <1>3 DEF now
  <2> QED BY <1>1, <2>2, <2>3
<1>4. CASE AcquireStart
  <2>1. Marker(cmd', fetch) \in Marks
    BY <1>1 DEF Marker, Marks, NoMark
  <2> QED BY <1>3, <1>4, <2>1 DEF AcquireStart, StartFetch, Readers
<1>5. CASE RefreshStart
  <2>1. <<scopeGen, IF Tracked(cmd, fetch) THEN delivered ELSE 0>> \in Marks
    BY <1>1 DEF Marks
  <2>2. CASE fetch' = fetch
    BY <1>1, <2>2
  <2>. QED BY <1>3, <1>5, <2>1, <2>2 DEF RefreshStart, Readers
<1>6. ASSUME NEW r \in Readers, Serve(r) PROVE fetch' \in [Readers -> Acquisition]
  <2>. DEFINE settled == {k \in Keys : rec[k].outcome \in Terminal}
  <2>1. \/ fetch' = [fetch EXCEPT ![r] = [fetch[r] EXCEPT !.st = "got", !.val = tg, !.after = settled]]
        \/ fetch' = [fetch EXCEPT ![r] = [fetch[r] EXCEPT !.st = "failed"]]
    BY <1>6 DEF Serve
  <2>2. settled \in SUBSET Keys /\ fetch[r] \in Acquisition /\ tg \in Contents
    BY <1>1 DEF Contents
  <2>. HIDE DEF settled
  <2>3. [fetch[r] EXCEPT !.st = "got", !.val = tg, !.after = settled] \in Acquisition
    BY <2>2 DEF Acquisition
  <2>4. [fetch[r] EXCEPT !.st = "failed"] \in Acquisition
    BY <2>2 DEF Acquisition
  <2> QED BY <1>1, <2>1, <2>3, <2>4
<1>7. CASE CommandPublish
  <2>1. \E s \in {"done", "failed"} : fetch' = [fetch EXCEPT !["cmd"] = [fetch["cmd"] EXCEPT !.st = s]]
    BY <1>7 DEF CommandPublish
  <2> QED BY <1>1, <2>1 DEF Acquisition, Readers
<1>8. CASE Judge \/ PostJudge \/ Cancel \/ RefreshPublish \/ Crash
  <2>1. \/ fetch' = [r \in Readers |-> NoFetch]
        \/ fetch' = [fetch EXCEPT !["cmd"] = NoFetch] \/ fetch' = [fetch EXCEPT !["refresh"] = NoFetch]
    BY <1>8 DEF Judge, PostJudge, Cancel, RefreshPublish, Crash
  <2> QED BY <1>1, <1>2, <2>1
<1>9. CASE fetch' = fetch
  BY <1>1, <1>9
<1> QED BY <1>1, <1>4, <1>5, <1>6, <1>7, <1>8, <1>9, ContactFrames DEF FetchSteps, Serving

\* ... a canonical observation ...
LEMMA LocalTyped ==
    ASSUME ContactTypeOK, ContactNext
    PROVE  /\ local' \in Evidence'
           /\ waiting' \in Seq([val : Contents, after : SUBSET Keys])
<1>. DEFINE P == [val : Contents, after : SUBSET Keys]
<1>1. /\ local \in Evidence /\ Evidence \subseteq Evidence' /\ clock \in Nat /\ tg \in Contents
      /\ waiting \in Seq(P) /\ fetch \in [Readers -> Acquisition]
  BY TypesGrow DEF ContactTypeOK
<1>2. \A r \in Readers : FetchedBy(r) \in Evidence
  BY <1>1 DEF FetchedBy, Evidence, Acquisition, Sources
<1>3. ASSUME ApplyPush PROVE local' \in Evidence' /\ waiting' \in Seq(P)
  <2>1. Head(waiting) \in P /\ waiting' \in Seq(P)
    <3>1. waiting # <<>> /\ waiting' = Tail(waiting)
      BY <1>3 DEF ApplyPush
    <3>. HIDE DEF P
    <3> QED BY <1>1, <3>1
  <2>2. clock' = clock + 1 /\ clock' \in 0..clock'
    BY <1>1, <1>3 DEF ApplyPush
  <2>3. local' = [val |-> Head(waiting).val, ord |-> clock', src |-> "push", after |-> Head(waiting).after]
    BY <1>3, <2>2 DEF ApplyPush
  <2> QED BY <2>1, <2>2, <2>3 DEF Evidence, Sources, Contents
<1>4. ASSUME CommandPublish \/ RefreshPublish PROVE local' \in Evidence'
  <2>1. local' = local \/ local' = FetchedBy("cmd") \/ local' = FetchedBy("refresh")
    BY <1>4 DEF CommandPublish, RefreshPublish, Canonical
  <2> QED BY <1>1, <1>2, <2>1 DEF Readers
<1>5. local' \in Evidence'
  BY <1>1, <1>3, <1>4, ContactFrames
<1>6. ASSUME NEW named \in BOOLEAN, CapturePush(named) PROVE waiting' \in Seq(P)
  <2>. DEFINE u == [val |-> tg, after |-> {k \in Keys : rec[k].outcome \in Terminal}]
  <2>1. u \in P /\ waiting' = Append(waiting, u)
    BY <1>1, <1>6 DEF CapturePush
  <2>. HIDE DEF u, P
  <2> QED BY <1>1, <2>1
<1>7. \/ waiting' = waiting \/ waiting' = <<>> \/ ApplyPush
      \/ \E named \in BOOLEAN : CapturePush(named)
  BY DEF ContactNext, Command, Wire, Refresh, World, Restarting, Begin, AcquireStart, CommandPublish, Judge,
     Reserve, Arm, BindAttempt, PrepareIntent, PreclaimTokens, ClaimWrite, ClaimRefused, CallReturns, PostJudge,
     PublishVerification, Cleanup, Cancel, TelegramApplies, TelegramRefuses, SettleReceipt, SettleLedger,
     AskRefresh, RefreshStart, RefreshPublish, RefreshDone, Serve, OtherDevice, ResetScope,
     Crash, ReconcileIntents, RecoverInterrupted, OfferUnresolved
<1>8. waiting' \in Seq(P)
  <2>. HIDE DEF P
  <2>1. <<>> \in Seq(P)
    OBVIOUS
  <2> QED BY <1>1, <1>3, <1>6, <1>7, <2>1
<1> QED BY <1>5, <1>8

\* ... evidence of verdicts ...
LEMMA ProofTyped ==
    ASSUME ContactTypeOK, ContactNext
    PROVE  proof' \in [Keys -> [src : Sources, after : BOOLEAN]]
<1>1. /\ proof \in [Keys -> [src : Sources, after : BOOLEAN]] /\ local \in Evidence
  BY DEF ContactTypeOK
<1>2. local.src \in Sources /\ FetchedBy("cmd").src \in Sources /\ FetchedBy("refresh").src \in Sources
  BY <1>1 DEF Evidence, FetchedBy, Sources
<1>3. ASSUME NEW o \in {local, FetchedBy("cmd"), FetchedBy("refresh")}, proof' = Proven(o)
      PROVE  proof' \in [Keys -> [src : Sources, after : BOOLEAN]]
  <2>1. o.src \in Sources
    BY <1>2
  <2>2. \A k \in Keys : proof'[k] \in [src : Sources, after : BOOLEAN]
    <3>1. ASSUME NEW k \in Keys PROVE proof'[k] = [src |-> o.src, after |-> k \in o.after] \/ proof'[k] = proof[k]
      BY <1>3 DEF Proven
    <3>2. ASSUME NEW k \in Keys PROVE [src |-> o.src, after |-> k \in o.after] \in [src : Sources, after : BOOLEAN]
      <4>. DEFINE b == k \in o.after
      <4>1. b \in BOOLEAN
        OBVIOUS
      <4>. HIDE DEF b
      <4>2. [src |-> o.src, after |-> b] \in [src : Sources, after : BOOLEAN]
        BY <2>1, <4>1
      <4> QED BY <4>2 DEF b
    <3> QED BY <1>1, <3>1, <3>2
  <2> QED BY <1>3, <2>2 DEF Proven
<1>4. \/ proof' = proof \/ CommandPublish \/ RefreshPublish \/ PublishVerification \/ RefreshStart
  BY DEF ContactNext, Command, Wire, Refresh, World, Restarting, Begin, AcquireStart, Judge, ghosts,
     Reserve, Arm, BindAttempt, PrepareIntent, PreclaimTokens, ClaimWrite, ClaimRefused, CallReturns, PostJudge,
     Cleanup, Cancel, TelegramApplies, TelegramRefuses, SettleReceipt, SettleLedger,
     AskRefresh, RefreshDone, Serve, OtherDevice, CapturePush, ApplyPush, ResetScope,
     Crash, ReconcileIntents, RecoverInterrupted, OfferUnresolved
<1>5. proof' = proof \/ \E o \in {local, FetchedBy("cmd"), FetchedBy("refresh")} : proof' = Proven(o)
  BY <1>4 DEF CommandPublish, RefreshPublish, PublishVerification, RefreshStart
<1> QED BY <1>1, <1>3, <1>5

\* ... fences and updates that wait ...
LEMMA CountersTyped ==
    ASSUME ContactTypeOK, ContactNext
    PROVE  gen' \in Nat /\ delivered' \in Nat /\ scopeGen' \in Nat
<1>. DEFINE counts == \E dg, dd \in {0, 1} : Count(dg, dd)
<1>1. gen \in Nat /\ delivered \in Nat /\ scopeGen \in Nat
  BY DEF ContactTypeOK
<1>2. counts => gen' \in Nat /\ delivered' \in Nat
  BY <1>1 DEF Count
<1>3. counts \/ UNCHANGED <<gen, delivered>> \/ Crash
  <2>1. CASE Command
    BY <2>1 DEF Command, Begin, AcquireStart, CommandPublish, Judge, Reserve, Arm, BindAttempt, PrepareIntent,
       PreclaimTokens, ClaimWrite, ClaimRefused, CallReturns, PostJudge, PublishVerification, Cleanup, Cancel, KeepCount
  <2>2. CASE Wire \/ Refresh
    BY <2>2 DEF Wire, Refresh, TelegramApplies, TelegramRefuses, SettleReceipt, SettleLedger, fences,
       AskRefresh, RefreshStart, RefreshPublish, RefreshDone, KeepCount
  <2>3. CASE World \/ Restarting
    BY <2>3 DEF World, Serve, OtherDevice, CapturePush, ApplyPush, ResetScope, Restarting, ReconcileIntents,
       RecoverInterrupted, OfferUnresolved, fences, KeepCount
  <2> QED BY <2>1, <2>2, <2>3 DEF ContactNext
<1>4. scopeGen' \in {scopeGen, scopeGen + 1, 0}
  BY DEF ContactNext, Command, Wire, Refresh, World, Restarting, Begin, AcquireStart, CommandPublish, Judge,
     Reserve, Arm, BindAttempt, PrepareIntent, PreclaimTokens, ClaimWrite, ClaimRefused, CallReturns, PostJudge,
     PublishVerification, Cleanup, Cancel, TelegramApplies, TelegramRefuses, SettleReceipt, SettleLedger,
     AskRefresh, RefreshStart, RefreshPublish, RefreshDone, Serve, OtherDevice, CapturePush, ApplyPush, ResetScope,
     Crash, ReconcileIntents, RecoverInterrupted, OfferUnresolved, KeepCount, fences
<1> QED BY <1>1, <1>2, <1>3, <1>4 DEF Crash

\* ... and the rest typed.
LEMMA RestTyped ==
    ASSUME ContactTypeOK, ContactNext
    PROVE  /\ tg' \in Contents /\ net' \in [Keys -> {"none", "sent", "applied", "refused"}]
           /\ intent' \in [Keys -> {"none", "prepared", "contained", "done"}]
           /\ profile' \in {"idle", "profile", "rest"} /\ follow' \in BOOLEAN
           /\ up' \in {"up", "safe", "down"} /\ startup' \in BOOLEAN
           /\ sent' \in [Keys -> Nat] /\ dirty' \in BOOLEAN
<1>1. /\ tg \in Contents /\ net \in [Keys -> {"none", "sent", "applied", "refused"}]
      /\ intent \in [Keys -> {"none", "prepared", "contained", "done"}]
      /\ profile \in {"idle", "profile", "rest"} /\ follow \in BOOLEAN
      /\ up \in {"up", "safe", "down"} /\ startup \in BOOLEAN
      /\ sent \in [Keys -> Nat] /\ dirty \in BOOLEAN
      /\ (cmd.pc # "idle" => cmd.key \in Keys) /\ \A k \in Keys : rec[k].want \in Contents
  BY DEF ContactTypeOK, Receipt
<1>2. profile' \in {"idle", "profile", "rest"} /\ follow' \in BOOLEAN /\ up' \in {"up", "safe", "down"} /\ startup' \in BOOLEAN
  <2>1. CASE Command
    BY <1>1, <2>1, ZenonT(60) DEF Command, Begin, AcquireStart, CommandPublish, Judge, Reserve, Arm, BindAttempt,
       PrepareIntent, PreclaimTokens, ClaimWrite, ClaimRefused, CallReturns, PostJudge, PublishVerification,
       Cleanup, Cancel, disk, Offer, NoOffer
  <2>2. CASE Wire
    BY <1>1, <2>2 DEF Wire, TelegramApplies, TelegramRefuses, SettleReceipt, SettleLedger, disk, Offer, NoOffer
  <2>3. CASE Refresh
    BY <1>1, <2>3 DEF Refresh, AskRefresh, RefreshStart, RefreshPublish, RefreshDone, disk, Offer, NoOffer
  <2>4. CASE World
    BY <1>1, <2>4 DEF World, Serve, OtherDevice, CapturePush, ApplyPush, ResetScope, disk, Offer, NoOffer
  <2>5. CASE Restarting
    BY <1>1, <2>5 DEF Restarting, Crash, ReconcileIntents, RecoverInterrupted, OfferUnresolved, disk, Offer,
       NoOffer
  <2> QED BY <2>1, <2>2, <2>3, <2>4, <2>5 DEF ContactNext
<1>3. tg' \in Contents /\ net' \in [Keys -> {"none", "sent", "applied", "refused"}]
  <2>1. CASE Command
    BY <1>1, <2>1 DEF Command, Begin, AcquireStart, CommandPublish, Judge, Reserve, Arm, BindAttempt,
       PrepareIntent, PreclaimTokens, ClaimWrite, ClaimRefused, CallReturns, PostJudge, PublishVerification,
       Cleanup, Cancel, remote, Contents
  <2>2. CASE Wire
    BY <1>1, <2>2 DEF Wire, TelegramApplies, TelegramRefuses, SettleReceipt, SettleLedger, remote, Contents
  <2>3. CASE Refresh
    BY <1>1, <2>3 DEF Refresh, AskRefresh, RefreshStart, RefreshPublish, RefreshDone, remote, Contents
  <2>4. CASE World
    BY <1>1, <2>4 DEF World, Serve, OtherDevice, CapturePush, ApplyPush, ResetScope, remote, Contents
  <2>5. CASE Restarting
    BY <1>1, <2>5 DEF Restarting, Crash, ReconcileIntents, RecoverInterrupted, OfferUnresolved, remote, Contents
  <2> QED BY <2>1, <2>2, <2>3, <2>4, <2>5 DEF ContactNext
<1>4. intent' \in [Keys -> {"none", "prepared", "contained", "done"}]
  <2>1. CASE Command
    BY <1>1, <2>1 DEF Command, Begin, AcquireStart, CommandPublish, Judge, Reserve, Arm, BindAttempt,
       PrepareIntent, PreclaimTokens, ClaimWrite, ClaimRefused, CallReturns, PostJudge, PublishVerification,
       Cleanup, Cancel, disk
  <2>2. CASE Wire
    BY <1>1, <2>2 DEF Wire, TelegramApplies, TelegramRefuses, SettleReceipt, SettleLedger, disk
  <2>3. CASE Refresh
    BY <1>1, <2>3 DEF Refresh, AskRefresh, RefreshStart, RefreshPublish, RefreshDone, disk
  <2>4. CASE World
    BY <1>1, <2>4 DEF World, Serve, OtherDevice, CapturePush, ApplyPush, ResetScope, disk
  <2>5. CASE Restarting
    BY <1>1, <2>5 DEF Restarting, Crash, ReconcileIntents, RecoverInterrupted, OfferUnresolved, disk
  <2> QED BY <2>1, <2>2, <2>3, <2>4, <2>5 DEF ContactNext
<1>5. sent' \in [Keys -> Nat]
  <2>1. CASE Command
    <3>1. CASE ClaimWrite
      <4>1. cmd.key \in Keys /\ (sent' = sent \/ sent' = [sent EXCEPT ![cmd.key] = sent[cmd.key] + 1])
        BY <1>1, <3>1 DEF ClaimWrite
      <4> QED BY <1>1, <4>1
    <3>2. CASE sent' = sent
      BY <1>1, <3>2
    <3>3. ClaimWrite \/ sent' = sent
      BY <2>1 DEF Command, Begin, AcquireStart, CommandPublish, Judge, Reserve, Arm, BindAttempt, PrepareIntent,
         PreclaimTokens, ClaimRefused, CallReturns, PostJudge, PublishVerification, Cleanup, Cancel, ghosts
    <3> QED BY <3>1, <3>2, <3>3
  <2>2. CASE Wire
    BY <1>1, <2>2 DEF Wire, TelegramApplies, TelegramRefuses, SettleReceipt, SettleLedger, ghosts
  <2>3. CASE Refresh
    BY <1>1, <2>3 DEF Refresh, AskRefresh, RefreshStart, RefreshPublish, RefreshDone, ghosts
  <2>4. CASE World
    BY <1>1, <2>4 DEF World, Serve, OtherDevice, CapturePush, ApplyPush, ResetScope, ghosts
  <2>5. CASE Restarting
    BY <1>1, <2>5 DEF Restarting, Crash, ReconcileIntents, RecoverInterrupted, OfferUnresolved, ghosts
  <2> QED BY <2>1, <2>2, <2>3, <2>4, <2>5 DEF ContactNext
<1>6. dirty' \in BOOLEAN
  <2>1. CASE Command
    BY <1>1, <2>1 DEF Command, Begin, AcquireStart, CommandPublish, Judge, Reserve, Arm, BindAttempt,
       PrepareIntent, PreclaimTokens, ClaimWrite, ClaimRefused, CallReturns, PostJudge, PublishVerification,
       Cleanup, Cancel, ghosts
  <2>2. CASE Wire
    BY <1>1, <2>2 DEF Wire, TelegramApplies, TelegramRefuses, SettleReceipt, SettleLedger, ghosts
  <2>3. CASE Refresh
    BY <1>1, <2>3 DEF Refresh, AskRefresh, RefreshStart, RefreshPublish, RefreshDone, ghosts
  <2>4. CASE World
    BY <1>1, <2>4 DEF World, Serve, OtherDevice, CapturePush, ApplyPush, ResetScope, ghosts
  <2>5. CASE Restarting
    BY <1>1, <2>5 DEF Restarting, Crash, ReconcileIntents, RecoverInterrupted, OfferUnresolved, ghosts
  <2> QED BY <2>1, <2>2, <2>3, <2>4, <2>5 DEF ContactNext
<1> QED BY <1>2, <1>3, <1>4, <1>5, <1>6

\* The types are inductive.
LEMMA ContactTyped ==
    ASSUME ContactTypeOK, ContactNext PROVE ContactTypeOK'
BY ClockGrows, ReceiptsTyped, CommandTyped, RequestsTyped, FetchTyped, LocalTyped, ProofTyped, CountersTyped,
   RestTyped DEF ContactTypeOK

-----------------------------------------------------------------------------
(* The fate of a write *)

\* A write stays where it is in a step that touches neither its packet nor its receipt.
LEMMA StillFate ==
    ASSUME ContactInv, NEW k \in Keys, Still PROVE WriteFate(k)'
<1>1. WriteFate(k) /\ SameOutcome(rec[k], rec'[k])
  BY DEF ContactInv, Still
<1> QED BY <1>1 DEF Still, SameOutcome, WriteFate, Passage, Commanded, Truthful, Intended, Holds

\* Reads, publications, refreshes and updates are such steps.
LEMMA StillSteps ==
    ASSUME ContactInv,
           \/ Serving \/ CommandPublish \/ Refresh \/ ApplyPush \/ ResetScope \/ OfferUnresolved
           \/ \E v \in Values : OtherDevice(v)
           \/ \E named \in BOOLEAN : CapturePush(named)
    PROVE  Still
<1>1. CASE CommandPublish \/ RefreshStart \/ RefreshPublish
  <2>1. \A k \in Keys : SameOutcome(rec[k], rec'[k])
    BY <1>1, CommandPublishJudges, RefreshStartJudges, RefreshPublishJudges DEF ContactInv, Judged
  <2> QED BY <1>1, <2>1 DEF Still, CommandPublish, RefreshStart, RefreshPublish, remote
<1>2. CASE Serving \/ AskRefresh \/ RefreshDone \/ ApplyPush \/ ResetScope \/ OfferUnresolved
           \/ (\E v \in Values : OtherDevice(v)) \/ (\E named \in BOOLEAN : CapturePush(named))
  <2>1. UNCHANGED <<net, sent, intent, request, up, cmd, rec>>
    BY <1>2 DEF Serving, Serve, AskRefresh, RefreshDone, ApplyPush, ResetScope, OfferUnresolved, OtherDevice,
       CapturePush, remote, disk, ghosts
  <2> QED BY <2>1, SameIsReflexive DEF Still
<1> QED BY <1>1, <1>2 DEF Refresh

\* What the fate of a write is argued from
LEMMA FateFacts ==
    ASSUME ContactInv, NEW k \in Keys
    PROVE  /\ cmd \in Running /\ (cmd.pc # "idle" => cmd.key \in Keys) /\ rec \in [Keys -> Receipt]
           /\ request \in [Keys -> [st : {"none", "sent", "reject", "settled", "closed"}, revoked : BOOLEAN]]
           /\ net \in [Keys -> {"none", "sent", "applied", "refused"}] /\ sent \in [Keys -> Nat]
           /\ intent \in [Keys -> {"none", "prepared", "contained", "done"}]
           /\ WriteFate(k)
BY DEF ContactInv, ContactTypeOK

\* A command begins with a key that has no receipt (_locked, prior receipt).
LEMMA BeginFate ==
    ASSUME ContactInv, NEW k \in Keys, NEW kk \in Keys, NEW want \in Values, NEW ver \in Values, Begin(kk, want, ver)
    PROVE  WriteFate(k)'
<1>1. net' = net /\ sent' = sent /\ intent' = intent /\ request' = request /\ up' = up /\ rec' = rec
  BY DEF Begin, remote, disk, ghosts, fences, NoOffer
<1> QED
  BY FateFacts, <1>1 DEF Begin, WriteFate, Passage, Commanded, Truthful, Intended, Holds, Running, Receipt, Outcomes,
     NoPrior, NoCmd, Preparing, Terminal

\* The gate decides the outcome from the wire (_native_outcome).
LEMMA SettleReceiptFate ==
    ASSUME ContactInv, NEW k \in Keys, NEW kk \in Keys, NEW o \in Terminal, SettleReceipt(kk, o)
    PROVE  WriteFate(k)'
<1>1. net' = net /\ sent' = sent /\ intent' = intent /\ up' = up /\ cmd' = cmd
  BY DEF SettleReceipt, remote, disk, ghosts, fences, NoOffer
<1> QED
  BY FateFacts, <1>1 DEF SettleReceipt, WriteFate, Passage, Commanded, Truthful, Intended, Holds, Running, Receipt,
     Outcomes, WireOutcome, PossibleOutcomes, Preparing, Terminal

\* The ledger is closed after the receipt (_settle_native_result).
LEMMA SettleLedgerFate ==
    ASSUME ContactInv, NEW k \in Keys, NEW kk \in Keys, SettleLedger(kk)
    PROVE  WriteFate(k)'
<1>1. net' = net /\ sent' = sent /\ up' = up /\ rec' = rec /\ cmd' = cmd
  BY DEF SettleLedger, remote, disk, ghosts, fences, NoOffer
<1> QED
  BY FateFacts, <1>1 DEF SettleLedger, WriteFate, Passage, Commanded, Truthful, Intended, Holds, Running, Receipt,
     Outcomes, NoWire, Preparing, Terminal

\* Telegram applies a packet that was sent ...
LEMMA TelegramAppliesFate ==
    ASSUME ContactInv, NEW k \in Keys, NEW kk \in Keys, TelegramApplies(kk)
    PROVE  WriteFate(k)'
<1>1. sent' = sent /\ intent' = intent /\ request' = request /\ up' = up /\ rec' = rec /\ cmd' = cmd
  BY DEF TelegramApplies, remote, disk, ghosts, fences, NoOffer
<1> QED
  BY FateFacts, <1>1 DEF TelegramApplies, WriteFate, Passage, Commanded, Truthful, Intended, Holds, Running, Receipt,
     Outcomes, Preparing, Terminal

\* ... or refuses it.
LEMMA TelegramRefusesFate ==
    ASSUME ContactInv, NEW k \in Keys, NEW kk \in Keys, TelegramRefuses(kk)
    PROVE  WriteFate(k)'
<1>1. sent' = sent /\ intent' = intent /\ request' = request /\ up' = up /\ rec' = rec /\ cmd' = cmd
  BY DEF TelegramRefuses, remote, disk, ghosts, fences, NoOffer
<1> QED
  BY FateFacts, <1>1 DEF TelegramRefuses, WriteFate, Passage, Commanded, Truthful, Intended, Holds, Running, Receipt,
     Outcomes, Preparing, Terminal

\* The acquisition changes neither receipt nor packet.
LEMMA AcquireStartFate ==
    ASSUME ContactInv, NEW k \in Keys, AcquireStart
    PROVE  WriteFate(k)'
<1>1. net' = net /\ sent' = sent /\ intent' = intent /\ request' = request /\ up' = up /\ rec' = rec
  BY DEF AcquireStart, remote, disk, ghosts, fences, NoOffer
<1> QED
  BY FateFacts, <1>1 DEF AcquireStart, WriteFate, Passage, Commanded, Truthful, Intended, Holds, Running, Receipt,
     Outcomes, Preparing, Terminal

\* The preflight lets the command go on to its reservation, or ends it.
LEMMA JudgeFate ==
    ASSUME ContactInv, NEW k \in Keys, Judge
    PROVE  WriteFate(k)'
<1>1. net' = net /\ sent' = sent /\ intent' = intent /\ request' = request /\ up' = up /\ rec' = rec
  BY DEF Judge, remote, disk, ghosts, fences, NoOffer
<1>2. cmd' = NoCmd \/ (cmd'.pc = "reserve" /\ cmd'.key = cmd.key)
  BY FateFacts DEF Judge, Ended, Running
<1> QED
  BY FateFacts, <1>1, <1>2 DEF Judge, WriteFate, Passage, Commanded, Truthful, Intended, Holds, NoCmd, Preparing, Terminal

\* reserve_operation: nothing, an unchanged receipt, or a pending one that no attempt is bound to
LEMMA ReservedReceipt ==
    ASSUME ContactTypeOK, Reserve
    PROVE  /\ \/ cmd' = NoCmd /\ rec' = rec
              \/ cmd' = NoCmd /\ rec'[cmd.key].outcome = "unchanged" /\ rec'[cmd.key].bound = FALSE
              \/ /\ cmd'.pc = "arm" /\ cmd'.key = cmd.key
                 /\ rec'[cmd.key].outcome = "pending" /\ rec'[cmd.key].bound = FALSE
           /\ \A k \in Keys : k # cmd.key => rec'[k] = rec[k]
<1>1. cmd \in Running /\ rec \in [Keys -> Receipt] /\ (cmd.pc # "idle" => cmd.key \in Keys)
  BY DEF ContactTypeOK
<1>. DEFINE same == [NoRec EXCEPT !.outcome = "unchanged", !.want = cmd.want, !.ver = "verified", !.verOrd = cmd.ord]
            new == [NoRec EXCEPT !.outcome = "pending", !.want = cmd.want]
<1>2. \/ cmd' = NoCmd /\ rec' = rec
      \/ cmd' = NoCmd /\ rec' = [rec EXCEPT ![cmd.key] = same]
      \/ cmd' = [cmd EXCEPT !.pc = "arm"] /\ rec' = [rec EXCEPT ![cmd.key] = new]
  BY DEF Reserve, Ended
<1>3. cmd.key \in Keys
  BY <1>1 DEF Reserve
<1>4. same.outcome = "unchanged" /\ same.bound = FALSE /\ new.outcome = "pending" /\ new.bound = FALSE
  BY DEF NoRec
<1>. HIDE DEF same, new
<1> QED BY <1>1, <1>2, <1>3, <1>4 DEF Running

\* The reservation makes the receipt of the command (reserve_operation).
LEMMA ReserveFate ==
    ASSUME ContactInv, NEW k \in Keys, Reserve
    PROVE  WriteFate(k)'
<1>1. net' = net /\ sent' = sent /\ intent' = intent /\ request' = request /\ up' = up
  BY DEF Reserve, remote, disk, ghosts, fences, NoOffer
<1>2. k # cmd.key => rec'[k] = rec[k]
  BY ReservedReceipt DEF ContactInv
<1>3. \/ cmd' = NoCmd /\ rec' = rec
      \/ cmd' = NoCmd /\ rec'[cmd.key].outcome = "unchanged" /\ rec'[cmd.key].bound = FALSE
      \/ /\ cmd'.pc = "arm" /\ cmd'.key = cmd.key
         /\ rec'[cmd.key].outcome = "pending" /\ rec'[cmd.key].bound = FALSE
  BY ReservedReceipt DEF ContactInv
<1> QED
  BY FateFacts, <1>1, <1>2, <1>3 DEF Reserve, WriteFate, Passage, Commanded, Truthful, Intended, Holds, NoCmd, Preparing,
     Terminal

\* The permit is armed before a receipt is bound (ContactWriteWatch.arm).
LEMMA ArmFate ==
    ASSUME ContactInv, NEW k \in Keys, Arm
    PROVE  WriteFate(k)'
<1>1. net' = net /\ sent' = sent /\ intent' = intent /\ request' = request /\ up' = up /\ rec' = rec
  BY DEF Arm, remote, disk, ghosts, fences, NoOffer
<1> QED
  BY FateFacts, <1>1 DEF Arm, WriteFate, Passage, Commanded, Truthful, Intended, Holds, Running, Receipt, Outcomes,
     Preparing, Terminal

\* The receipt is bound before the intent is recorded (bind_attempt) ...
LEMMA BindAttemptFate ==
    ASSUME ContactInv, NEW k \in Keys, BindAttempt
    PROVE  WriteFate(k)'
<1>1. net' = net /\ sent' = sent /\ intent' = intent /\ request' = request /\ up' = up
  BY DEF BindAttempt, remote, disk, ghosts, fences, NoOffer
<1> QED
  BY FateFacts, <1>1 DEF BindAttempt, WriteFate, Passage, Commanded, Truthful, Intended, Holds, Running, Receipt,
     Outcomes, Preparing, Terminal

\* ... and the intent after it (the ledger of native writes).
LEMMA PrepareIntentFate ==
    ASSUME ContactInv, NEW k \in Keys, PrepareIntent
    PROVE  WriteFate(k)'
<1>1. net' = net /\ sent' = sent /\ request' = request /\ up' = up /\ rec' = rec
  BY DEF PrepareIntent, remote, disk, ghosts, fences, NoOffer
<1> QED
  BY FateFacts, <1>1 DEF PrepareIntent, WriteFate, Passage, Commanded, Truthful, Intended, Holds, Running, Receipt,
     Outcomes, Preparing, Terminal

\* The tokens are refused, or the command may claim.
LEMMA PreclaimTokensFate ==
    ASSUME ContactInv, NEW k \in Keys, PreclaimTokens
    PROVE  WriteFate(k)'
<1>1. net' = net /\ sent' = sent /\ intent' = intent /\ up' = up /\ rec' = rec
  BY DEF PreclaimTokens, remote, disk, ghosts, fences, NoOffer
<1> QED
  BY FateFacts, <1>1 DEF PreclaimTokens, WriteFate, Passage, Commanded, Truthful, Intended, Holds, Running, Receipt,
     Outcomes, Refused, Preparing, Terminal

\* The claim sends the one packet of the key, or the attempt is refused.
LEMMA ClaimWriteFate ==
    ASSUME ContactInv, NEW k \in Keys, ClaimWrite
    PROVE  WriteFate(k)'
<1>1. intent' = intent /\ up' = up /\ rec' = rec
  BY DEF ClaimWrite, remote, disk, ghosts, fences, NoOffer
<1> QED
  BY FateFacts, <1>1 DEF ClaimWrite, WriteFate, Passage, Commanded, Truthful, Intended, Holds, Running, Receipt,
     Outcomes, Refused, Preparing, Terminal

\* A refused permit leaves the packet to be prepared again.
LEMMA ClaimRefusedFate ==
    ASSUME ContactInv, NEW k \in Keys, ClaimRefused
    PROVE  WriteFate(k)'
<1>1. net' = net /\ sent' = sent /\ intent' = intent /\ request' = request /\ up' = up /\ rec' = rec
  BY DEF ClaimRefused, remote, disk, ghosts, fences, NoOffer
<1> QED
  BY FateFacts, <1>1 DEF ClaimRefused, WriteFate, Passage, Commanded, Truthful, Intended, Holds, Running, Receipt,
     Outcomes, Preparing, Terminal

\* The call returns once its attempt is settled.
LEMMA CallReturnsFate ==
    ASSUME ContactInv, NEW k \in Keys, CallReturns
    PROVE  WriteFate(k)'
<1>1. net' = net /\ sent' = sent /\ intent' = intent /\ request' = request /\ up' = up /\ rec' = rec
  BY DEF CallReturns, remote, disk, ghosts, fences, NoOffer
<1> QED
  BY FateFacts, <1>1 DEF CallReturns, WriteFate, Passage, Commanded, Truthful, Intended, Holds, Running, Receipt,
     Outcomes, Preparing, Terminal

\* The read back leads to the verification, or ends the command.
LEMMA PostJudgeFate ==
    ASSUME ContactInv, NEW k \in Keys, PostJudge
    PROVE  WriteFate(k)'
<1>1. net' = net /\ sent' = sent /\ intent' = intent /\ request' = request /\ up' = up /\ rec' = rec
  BY DEF PostJudge, remote, disk, ghosts, fences, NoOffer
<1>2. cmd' = NoCmd \/ (cmd'.pc = "verify" /\ cmd'.key = cmd.key)
  BY FateFacts DEF PostJudge, Ended, Running
<1> QED
  BY FateFacts, <1>1, <1>2 DEF PostJudge, WriteFate, Passage, Commanded, Truthful, Intended, Holds, NoCmd, Preparing,
     Terminal

\* The verification changes a verdict, no outcome (record_verification).
LEMMA PublishVerificationFate ==
    ASSUME ContactInv, NEW k \in Keys, PublishVerification
    PROVE  WriteFate(k)'
<1>1. net' = net /\ sent' = sent /\ intent' = intent /\ request' = request /\ up' = up
  BY DEF PublishVerification, remote, disk, ghosts, fences, NoOffer
<1>2. SameOutcome(rec[k], rec'[k]) /\ cmd' = NoCmd
  BY PublishVerificationJudges DEF ContactInv, Judged, PublishVerification, Ended
<1> QED
  BY FateFacts, <1>1, <1>2 DEF PublishVerification, WriteFate, Passage, Commanded, Truthful, Intended, Holds, NoCmd,
     SameOutcome, Preparing, Terminal

\* The cleanup rejects only what no attempt is bound to (_reject_unclaimed).
LEMMA CleanupFate ==
    ASSUME ContactInv, NEW k \in Keys, Cleanup
    PROVE  WriteFate(k)'
<1>1. net' = net /\ sent' = sent /\ intent' = intent /\ request' = request /\ up' = up
  BY DEF Cleanup, remote, disk, ghosts, fences, NoOffer
<1> QED
  BY FateFacts, <1>1 DEF Cleanup, WriteFate, Passage, Commanded, Truthful, Intended, Holds, Running, Receipt, Outcomes,
     Ended, NoCmd, RejectUnclaimed, Preparing, Terminal

\* A cancellation refuses the attempt, or abandons what is on the wire.
LEMMA CancelFate ==
    ASSUME ContactInv, NEW k \in Keys, Cancel
    PROVE  WriteFate(k)'
<1>1. net' = net /\ sent' = sent /\ intent' = intent /\ up' = up /\ rec' = rec
  BY DEF Cancel, remote, disk, ghosts, fences, NoOffer
<1> QED
  BY FateFacts, <1>1 DEF Cancel, WriteFate, Passage, Commanded, Truthful, Intended, Holds, Running, Receipt, Outcomes,
     Ended, NoCmd, Refused, Preparing, Terminal

\* A crash leaves the databases and Telegram.
LEMMA CrashFate ==
    ASSUME ContactInv, NEW k \in Keys, Crash
    PROVE  WriteFate(k)'
<1>1. net' = net /\ sent' = sent /\ intent' = intent /\ rec' = rec
  BY DEF Crash, remote, disk, ghosts, fences, NoOffer
<1> QED
  BY FateFacts, <1>1 DEF Crash, WriteFate, Passage, Commanded, Truthful, Intended, Holds, Running, Receipt, Outcomes,
     NoCmd, NoWire, Preparing, Terminal

\* A restart contains each intent together with its bound receipt ...
LEMMA ReconcileIntentsFate ==
    ASSUME ContactInv, NEW k \in Keys, ReconcileIntents
    PROVE  WriteFate(k)'
<1>1. net' = net /\ sent' = sent /\ request' = request /\ cmd' = cmd
  BY DEF ReconcileIntents, remote, disk, ghosts, fences, NoOffer
<1>2. /\ rec'[k].outcome = (IF intent[k] = "prepared" /\ rec[k].outcome = "pending" /\ rec[k].bound
                              THEN "unknown" ELSE rec[k].outcome)
      /\ rec'[k].bound = rec[k].bound
  <2>1. rec[k] \in Receipt
    BY FateFacts
  <2> QED BY <2>1, ReconciledReceipts DEF ContactInv, WireOutcome, Receipt
<1>3. intent'[k] = IF intent[k] = "prepared" /\ rec'[k].bound /\ rec'[k].outcome \in Terminal
                   THEN "contained" ELSE intent[k]
  BY DEF ReconcileIntents
<1>4. up = "down" /\ up' = "safe"
  BY DEF ReconcileIntents
<1> QED
  BY FateFacts, <1>1, <1>2, <1>3, <1>4 DEF WriteFate, Passage, Commanded, Truthful, Intended, Holds, Preparing, Terminal

\* ... and calls every other pending receipt unknown.
LEMMA RecoverInterruptedFate ==
    ASSUME ContactInv, NEW k \in Keys, RecoverInterrupted
    PROVE  WriteFate(k)'
<1>1. net' = net /\ sent' = sent /\ intent' = intent /\ request' = request /\ cmd' = cmd
  BY DEF RecoverInterrupted, remote, disk, ghosts, fences, NoOffer
<1>2. /\ rec'[k].outcome = (IF rec[k].outcome = "pending" THEN "unknown" ELSE rec[k].outcome)
      /\ rec'[k].bound = rec[k].bound
  BY FateFacts, RecoveredReceipts, ZenonT(60) DEF ContactInv, WireOutcome, Receipt
<1>3. up = "safe" /\ up' = "up"
  BY DEF RecoverInterrupted
<1> QED
  BY FateFacts, <1>1, <1>2, <1>3 DEF WriteFate, Passage, Commanded, Truthful, Intended, Holds, Preparing, Terminal

-----------------------------------------------------------------------------
(* What is owed to a settled write *)

\* Whoever settles a write, or gives up reading it back, hands the obligation on.
LEMMA OwedKept ==
    ASSUME ContactInv, NEW k \in Keys, ContactNext
    PROVE  Owed(k)'
<1>1. /\ cmd \in Running /\ (cmd.pc # "idle" => cmd.key \in Keys) /\ rec \in [Keys -> Receipt]
      /\ request \in [Keys -> [st : {"none", "sent", "reject", "settled", "closed"}, revoked : BOOLEAN]]
      /\ profile \in {"idle", "profile", "rest"} /\ fetch \in [Readers -> Acquisition] /\ clock \in Nat
      /\ rec[k].term \in 0..clock
      /\ WriteFate(k) /\ Owed(k) /\ FetchOwned
  BY DEF ContactInv, ContactTypeOK, Receipt
<1>2. ASSUME NEW kk \in Keys, NEW want \in Values, NEW ver \in Values, Begin(kk, want, ver) PROVE Owed(k)'
  BY <1>1, <1>2 DEF Begin, Owed, Holds, VerificationPending, Readers, remote, disk, fences, NoOffer, Running,
     Acquisition, Receipt, WriteFate, Passage, Commanded, Ended, NoCmd, NoPrior
<1>3. ASSUME NEW kk \in Keys, SettleLedger(kk) PROVE Owed(k)'
  BY <1>1, <1>3 DEF SettleLedger, Owed, Holds, VerificationPending, Readers, remote, disk, fences, NoOffer,
     Running, Acquisition, Receipt, WriteFate, Passage, Commanded, Abandoned, Offer, NoWire, FetchOwned, Terminal
<1>4. ASSUME NEW kk \in Keys, TelegramApplies(kk) PROVE Owed(k)'
  BY <1>1, <1>4 DEF TelegramApplies, Owed, Holds, VerificationPending, Readers, remote, disk, fences, NoOffer,
     Running, Acquisition, Receipt
<1>5. ASSUME NEW kk \in Keys, TelegramRefuses(kk) PROVE Owed(k)'
  BY <1>1, <1>5 DEF TelegramRefuses, Owed, Holds, VerificationPending, Readers, remote, disk, fences, NoOffer,
     Running, Acquisition, Receipt
<1>6. ASSUME NEW r \in Readers, Serve(r) PROVE Owed(k)'
  BY <1>1, <1>6 DEF Serve, Owed, Holds, VerificationPending, Readers, remote, disk, fences, NoOffer, Running,
     Acquisition, Receipt
<1>7. ASSUME NEW v \in Values, OtherDevice(v) PROVE Owed(k)'
  BY <1>1, <1>7 DEF OtherDevice, Owed, Holds, VerificationPending, Readers, remote, disk, fences, NoOffer,
     Running, Acquisition, Receipt
<1>8. ASSUME NEW named \in BOOLEAN, CapturePush(named) PROVE Owed(k)'
  BY <1>1, <1>8 DEF CapturePush, Owed, Holds, VerificationPending, Readers, remote, disk, fences, NoOffer,
     Running, Acquisition, Receipt
<1>9. ASSUME AcquireStart PROVE Owed(k)'
  BY <1>1, <1>9 DEF AcquireStart, Owed, Holds, VerificationPending, Readers, remote, disk, fences, NoOffer,
     Running, Acquisition, Receipt, StartFetch, NoFetch
<1>10. ASSUME CommandPublish PROVE Owed(k)'
  <2>1. SameOutcome(rec[k], rec'[k])
    BY <1>10, CommandPublishJudges DEF ContactInv, Judged
  <2> QED
    BY <1>1, <1>10, <2>1 DEF CommandPublish, Owed, Holds, VerificationPending, Readers, remote, disk,
       fences, NoOffer, Running, Acquisition, Receipt, SameOutcome
<1>11. ASSUME Judge PROVE Owed(k)'
  BY <1>1, <1>11 DEF Judge, Owed, Holds, VerificationPending, Readers, remote, disk, fences, NoOffer, Running,
     Acquisition, Receipt, WriteFate, Passage, Commanded, Ended, NoCmd, NoFetch, NoWire
<1>12. ASSUME Arm PROVE Owed(k)'
  BY <1>1, <1>12 DEF Arm, Owed, Holds, VerificationPending, Readers, remote, disk, fences, NoOffer, Running,
     Acquisition, Receipt
<1>13. ASSUME BindAttempt PROVE Owed(k)'
  BY <1>1, <1>13 DEF BindAttempt, Owed, Holds, VerificationPending, Readers, remote, disk, fences, NoOffer,
     Running, Acquisition, Receipt
<1>14. ASSUME PrepareIntent PROVE Owed(k)'
  BY <1>1, <1>14 DEF PrepareIntent, Owed, Holds, VerificationPending, Readers, remote, disk, fences, NoOffer,
     Running, Acquisition, Receipt
<1>15. ASSUME PreclaimTokens PROVE Owed(k)'
  BY <1>1, <1>15 DEF PreclaimTokens, Owed, Holds, VerificationPending, Readers, remote, disk, fences, NoOffer,
     Running, Acquisition, Receipt, Refused
<1>16. ASSUME ClaimWrite PROVE Owed(k)'
  BY <1>1, <1>16 DEF ClaimWrite, Owed, Holds, VerificationPending, Readers, remote, disk, fences, NoOffer,
     Running, Acquisition, Receipt, Refused
<1>17. ASSUME ClaimRefused PROVE Owed(k)'
  BY <1>1, <1>17 DEF ClaimRefused, Owed, Holds, VerificationPending, Readers, remote, disk, fences, NoOffer,
     Running, Acquisition, Receipt
<1>18. ASSUME CallReturns PROVE Owed(k)'
  BY <1>1, <1>18 DEF CallReturns, Owed, Holds, VerificationPending, Readers, remote, disk, fences, NoOffer,
     Running, Acquisition, Receipt
<1>19. ASSUME PostJudge PROVE Owed(k)'
  BY <1>1, <1>19 DEF PostJudge, Owed, Holds, VerificationPending, Readers, remote, disk, fences, NoOffer,
     Running, Acquisition, Receipt, WriteFate, Passage, Commanded, Ended, NoCmd, NoFetch, NoWire, Offer, FetchOwned,
     RejectUnclaimed
<1>20. ASSUME PublishVerification PROVE Owed(k)'
  <2>1. SameOutcome(rec[k], rec'[k])
    BY <1>20, PublishVerificationJudges DEF ContactInv, Judged
  <2> QED
    BY <1>1, <1>20, <2>1 DEF PublishVerification, Owed, Holds, VerificationPending, Readers, remote,
       disk, fences, NoOffer, Running, Acquisition, Receipt, SameOutcome, WriteFate, Passage, Commanded, Ended,
       NoCmd, Offer, FetchOwned, RejectUnclaimed
<1>21. ASSUME Cleanup PROVE Owed(k)'
  BY <1>1, <1>21 DEF Cleanup, Owed, Holds, VerificationPending, Readers, remote, disk, fences, NoOffer,
     Running, Acquisition, Receipt, WriteFate, Passage, Commanded, Ended, NoCmd, Offer, FetchOwned, RejectUnclaimed
<1>22. ASSUME Cancel PROVE Owed(k)'
  BY <1>1, <1>22 DEF Cancel, Owed, Holds, VerificationPending, Readers, remote, disk, fences, NoOffer, Running,
     Acquisition, Receipt, WriteFate, Passage, Commanded, Ended, NoCmd, Refused, NoFetch
<1>23. ASSUME AskRefresh PROVE Owed(k)'
  BY <1>1, <1>23 DEF AskRefresh, Owed, Holds, VerificationPending, Readers, remote, disk, fences, NoOffer,
     Running, Acquisition, Receipt
<1>24. ASSUME RefreshPublish PROVE Owed(k)'
  <2>1. SameOutcome(rec[k], rec'[k])
    BY <1>24, RefreshPublishJudges DEF ContactInv, Judged
  <2>2. \/ profile' = profile
        \/ profile' = "rest" /\ (VerificationPending(rec'[k]) => rec[k].term >= fetch["refresh"].ord)
    BY <1>24, RefreshPublishJudges DEF ContactInv
  <2> QED
    BY <1>1, <1>24, <2>1, <2>2 DEF RefreshPublish, Owed, Holds, VerificationPending, Readers, remote,
       disk, fences, NoOffer, Running, Acquisition, Receipt, SameOutcome, NoFetch, NoWire, FetchOwned
<1>25. ASSUME RefreshDone PROVE Owed(k)'
  BY <1>1, <1>25 DEF RefreshDone, Owed, Holds, VerificationPending, Readers, remote, disk, fences, NoOffer,
     Running, Acquisition, Receipt, FetchOwned
<1>26. ASSUME ApplyPush PROVE Owed(k)'
  BY <1>1, <1>26 DEF ApplyPush, Owed, Holds, VerificationPending, Readers, remote, disk, fences, NoOffer,
     Running, Acquisition, Receipt
<1>27. ASSUME ResetScope PROVE Owed(k)'
  BY <1>1, <1>27 DEF ResetScope, Owed, Holds, VerificationPending, Readers, remote, disk, fences, NoOffer,
     Running, Acquisition, Receipt
<1>28. ASSUME Crash PROVE Owed(k)'
  BY <1>1, <1>28 DEF Crash, Owed, Holds, VerificationPending, Readers, remote, disk, fences, NoOffer, Running,
     Acquisition, Receipt, WriteFate, Passage, Commanded, Ended, NoCmd, NoFetch, NoWire
<1>29. ASSUME ReconcileIntents PROVE Owed(k)'
  BY <1>1, <1>29 DEF ReconcileIntents, Owed, Holds, VerificationPending, Readers, remote, disk, fences,
     NoOffer, Running, Acquisition, Receipt, RecoveredBinding
<1>30. ASSUME RecoverInterrupted PROVE Owed(k)'
  BY <1>1, <1>30 DEF RecoverInterrupted, Owed, Holds, VerificationPending, Readers, remote, disk, fences,
     NoOffer, Running, Acquisition, Receipt
<1>31. ASSUME OfferUnresolved PROVE Owed(k)'
  BY <1>1, <1>31 DEF OfferUnresolved, Owed, Holds, VerificationPending, Readers, remote, disk, fences, NoOffer,
     Running, Acquisition, Receipt, Offer, FetchOwned, RejectUnclaimed
<1>32. ASSUME NEW j \in Keys, NEW outcome \in Terminal, SettleReceipt(j, outcome) PROVE Owed(k)'
  <2>1. /\ k # j => rec'[k] = rec[k] /\ request'[k] = request[k]
        /\ UNCHANGED <<profile, follow, startup, up, cmd, fetch>>
        /\ outcome \in PossibleOutcomes(j) /\ request[j].st \in {"sent", "reject"}
    BY <1>1, <1>32, SettledReceipt DEF ContactInv, SettleReceipt, remote, fences
  <2>2. CASE k # j
    BY <1>1, <2>1, <2>2 DEF Owed, Holds, VerificationPending
  <2>3. CASE k = j /\ request[k].st = "reject"
    <3>1. rec'[k].outcome = "rejected"
      <4>1. outcome = "rejected" /\ rec[k].outcome = "pending" /\ rec[k] \in Receipt
        BY <1>1, <2>1, <2>3 DEF WriteFate, Passage, PossibleOutcomes
      <4>2. rec'[k] = WireOutcome(rec[k], outcome)
        BY <1>32, <2>3, <4>1, SettledReceipt DEF ContactInv
      <4> QED BY <4>1, <4>2 DEF WireOutcome, Receipt
    <3> QED BY <3>1 DEF Owed, VerificationPending
  <2>4. CASE k = j /\ request[k].st = "sent"
    <3>1. request'[k].st = "settled" /\ request'[k].revoked = request[k].revoked
      BY <1>1, <1>32, <2>4 DEF SettleReceipt
    <3> QED BY <1>1, <2>1, <2>4, <3>1 DEF Owed, WriteFate, Passage, Holds
  <2> QED BY <2>1, <2>2, <2>3, <2>4
<1>33. ASSUME Reserve PROVE Owed(k)'
  <2>1. UNCHANGED <<profile, follow, startup, up, request, fetch>>
    BY <1>33 DEF Reserve, remote
  <2>2. CASE k = cmd.key
    BY <1>1, <1>33, <2>2, ReservedReceipt DEF ContactInv, Owed, VerificationPending, WriteFate, Commanded, Holds, Reserve
  <2>3. CASE k # cmd.key
    BY <1>1, <1>33, <2>1, <2>3, ReservedReceipt DEF ContactInv, Owed, VerificationPending, Holds
  <2> QED BY <2>2, <2>3
<1>34. ASSUME RefreshStart PROVE Owed(k)'
  <2>1. /\ SameOutcome(rec[k], rec'[k]) /\ UNCHANGED <<follow, startup, up, cmd, request>>
        /\ profile = "profile" /\ fetch["refresh"].st = "off"
    BY <1>34, RefreshStartJudges DEF ContactInv, Judged, RefreshStart, remote
  <2>2. CASE \E x \in Keys : VerificationPending(rec'[x])
    <3>1. profile' = profile /\ fetch'["refresh"].ord = clock + 1
      <4>. DEFINE asking == [NoFetch EXCEPT !.st = "sent", !.ord = clock + 1,
                             !.mark = <<scopeGen, IF Tracked(cmd, fetch) THEN delivered ELSE 0>>]
      <4>1. profile' = profile /\ fetch' = [fetch EXCEPT !["refresh"] = asking]
        BY <1>34, <2>2 DEF RefreshStart
      <4>2. asking.ord = clock + 1
        BY DEF NoFetch
      <4>. HIDE DEF asking
      <4> QED BY <1>1, <4>1, <4>2 DEF Readers
    <3> QED BY <1>1, <2>1, <3>1 DEF Owed, SameOutcome
  <2>3. CASE ~\E x \in Keys : VerificationPending(rec'[x])
    BY <2>3 DEF Owed
  <2> QED BY <2>2, <2>3
<1> QED
  BY <1>2, <1>3, <1>4, <1>5, <1>6, <1>7, <1>8, <1>9, <1>10, <1>11, <1>12, <1>13, <1>14, <1>15, <1>16, <1>17, <1>18, <1>19, <1>20, <1>21, <1>22, <1>23, <1>24, <1>25, <1>26, <1>27, <1>28, <1>29, <1>30, <1>31, <1>32, <1>33, <1>34
  DEF ContactNext, Command, Wire, Refresh, World, Restarting

\* Every step keeps the fate of every write.
LEMMA FateKept ==
    ASSUME ContactInv, NEW k \in Keys, ContactNext PROVE WriteFate(k)'
<1>1. CASE Serving \/ CommandPublish \/ Refresh \/ ApplyPush \/ ResetScope \/ OfferUnresolved
           \/ (\E v \in Values : OtherDevice(v)) \/ (\E named \in BOOLEAN : CapturePush(named))
  BY <1>1, StillSteps, StillFate
<1>2. CASE Wire
  BY <1>2, SettleReceiptFate, SettleLedgerFate, TelegramAppliesFate, TelegramRefusesFate DEF Wire
<1>3. CASE Command
  BY <1>1, <1>3, BeginFate, AcquireStartFate, JudgeFate, ReserveFate, ArmFate, BindAttemptFate, PrepareIntentFate,
     PreclaimTokensFate, ClaimWriteFate, ClaimRefusedFate, CallReturnsFate, PostJudgeFate, PublishVerificationFate,
     CleanupFate, CancelFate DEF Command
<1>4. CASE Crash \/ ReconcileIntents \/ RecoverInterrupted
  BY <1>4, CrashFate, ReconcileIntentsFate, RecoverInterruptedFate
<1> QED BY <1>1, <1>2, <1>3, <1>4 DEF ContactNext, World, Restarting, Serving

-----------------------------------------------------------------------------
(* One unresolved write *)

\* Only a reservation makes a receipt that holds the peer, and only if none does.
LEMMA OneKept ==
    ASSUME ContactInv, ContactNext PROVE OneUnresolved'
<1>1. ContactTypeOK /\ OneUnresolved
  BY DEF ContactInv
<1>2. /\ rec \in [Keys -> Receipt] /\ (cmd.pc # "idle" => cmd.key \in Keys) /\ \A j \in Keys : rec[j] \in Receipt
  BY <1>1 DEF ContactTypeOK
<1>3. ASSUME NEW j \in Keys, Quarantining(j)'
      PROVE  Quarantining(j) \/ (Reserve /\ j = cmd.key /\ ~PeerQuarantined)
  <2>1. CASE rec' = rec
    BY <1>3, <2>1 DEF Quarantining
  <2>2. CASE CommandPublish \/ PublishVerification \/ RefreshStart \/ RefreshPublish
    <3>1. SameOutcome(rec[j], rec'[j])
      BY <1>1, <2>2, CommandPublishJudges, PublishVerificationJudges, RefreshStartJudges, RefreshPublishJudges DEF Judged
    <3> QED BY <1>3, <3>1 DEF Quarantining, SameOutcome
  <2>3. CASE Settling
    <3>1. PICK k \in Keys, outcome \in Terminal : SettleReceipt(k, outcome)
      BY <2>3 DEF Settling
    <3>2. rec'[j] = rec[j] \/ rec[j].outcome = "pending"
      BY <1>1, <3>1, SettledReceipt
    <3> QED BY <1>3, <3>2 DEF Quarantining
  <2>4. CASE ReconcileIntents \/ RecoverInterrupted
    <3>1. rec'[j] = rec[j] \/ rec[j].outcome = "pending"
      BY <1>1, <2>4, ReconciledReceipts, RecoveredReceipts
    <3> QED BY <1>3, <3>1 DEF Quarantining
  <2>5. CASE BindAttempt \/ Cleanup
    <3>1. rec' = [rec EXCEPT ![cmd.key] = [rec[cmd.key] EXCEPT !.bound = TRUE]]
          \/ rec' = [rec EXCEPT ![cmd.key] = RejectUnclaimed(rec[cmd.key])]
      BY <2>5 DEF BindAttempt, Cleanup
    <3> QED BY <1>2, <1>3, <3>1 DEF Quarantining, RejectUnclaimed, Receipt
  <2>6. CASE Reserve
    <3>1. PeerQuarantined => rec' = rec
      BY <2>6 DEF Reserve
    <3>2. j # cmd.key => rec'[j] = rec[j]
      BY <1>1, <2>6, ReservedReceipt
    <3> QED BY <1>3, <2>6, <3>1, <3>2 DEF Quarantining
  <2> QED BY <2>1, <2>2, <2>3, <2>4, <2>5, <2>6, ContactFrames DEF ReceiptSteps
<1> QED BY <1>1, <1>3 DEF OneUnresolved, PeerQuarantined

-----------------------------------------------------------------------------
(* Answers and what they are about *)

\* The end of a write is dated after every observation asked for so far.
LEMMA SettledLater ==
    ASSUME ContactTypeOK, ContactNext, NEW k \in Keys, rec'[k].outcome \in {"unknown", "acknowledged"}
    PROVE  (rec[k].outcome = rec'[k].outcome /\ rec[k].term = rec'[k].term) \/ rec'[k].term = clock + 1
<1>1. /\ rec \in [Keys -> Receipt] /\ (cmd.pc # "idle" => cmd.key \in Keys) /\ rec[k] \in Receipt /\ clock \in Nat
  BY DEF ContactTypeOK
<1>2. CASE rec' = rec
  BY <1>2
<1>3. CASE CommandPublish \/ PublishVerification \/ RefreshStart \/ RefreshPublish
  <2>1. SameOutcome(rec[k], rec'[k])
    BY <1>3, CommandPublishJudges, PublishVerificationJudges, RefreshStartJudges, RefreshPublishJudges DEF Judged
  <2> QED BY <2>1 DEF SameOutcome
<1>4. CASE Settling
  <2>1. PICK j \in Keys, outcome \in Terminal : SettleReceipt(j, outcome)
    BY <1>4 DEF Settling
  <2>2. rec'[k] = rec[k] \/ rec'[k] = WireOutcome(rec[k], outcome)
    BY <2>1, SettledReceipt
  <2> QED BY <1>1, <2>2 DEF WireOutcome, Receipt
<1>5. CASE ReconcileIntents \/ RecoverInterrupted
  <2>1. rec'[k] = rec[k] \/ rec'[k] = WireOutcome(rec[k], "unknown")
    BY <1>5, ReconciledReceipts, RecoveredReceipts
  <2> QED BY <1>1, <2>1 DEF WireOutcome, Receipt
<1>6. CASE BindAttempt \/ Cleanup
  <2>1. rec' = [rec EXCEPT ![cmd.key] = [rec[cmd.key] EXCEPT !.bound = TRUE]]
        \/ rec' = [rec EXCEPT ![cmd.key] = RejectUnclaimed(rec[cmd.key])]
    BY <1>6 DEF BindAttempt, Cleanup
  <2> QED BY <1>1, <2>1 DEF RejectUnclaimed, Receipt
<1>7. CASE Reserve
  <2>1. k # cmd.key => rec'[k] = rec[k]
    BY <1>7, ReservedReceipt
  <2>2. rec' = rec \/ rec'[cmd.key].outcome \in {"unchanged", "pending"}
    BY <1>7, ReservedReceipt
  <2> QED BY <2>1, <2>2
<1> QED BY <1>2, <1>3, <1>4, <1>5, <1>6, <1>7, ContactFrames DEF ReceiptSteps

\* What was after an observation's writes stays so.
LEMMA AfterStays ==
    ASSUME ContactTypeOK, ContactNext, NEW ord \in 0..clock, NEW after, AfterIn(ord, after)
    PROVE  \A k \in Keys : rec'[k].outcome \in {"unknown", "acknowledged"} /\ rec'[k].term < ord => k \in after
<1>1. SUFFICES ASSUME NEW k \in Keys, rec'[k].outcome \in {"unknown", "acknowledged"}, rec'[k].term < ord
               PROVE  k \in after
  OBVIOUS
<1>2. clock \in Nat
  BY DEF ContactTypeOK
<1>3. rec'[k].term # clock + 1
  BY <1>1, <1>2
<1> QED BY <1>1, <1>3, SettledLater DEF AfterIn

\* An answer is the one that was there, its publication, or has just come.
LEMMA AnswersMove ==
    ASSUME ContactTypeOK, ContactNext, NEW r \in Readers, fetch'[r].st \in {"got", "done"}
    PROVE  \/ /\ fetch[r].st \in {"got", "done"}
              /\ fetch'[r].ord = fetch[r].ord /\ fetch'[r].after = fetch[r].after
           \/ /\ rec' = rec /\ fetch'[r].after = {k \in Keys : rec[k].outcome \in Terminal}
<1>1. fetch \in [Readers -> Acquisition]
  BY DEF ContactTypeOK
<1>2. CASE fetch' = fetch
  BY <1>2
<1>3. CASE Serving
  <2>1. PICK x \in Readers : Serve(x)
    BY <1>3 DEF Serving
  <2>2. rec' = rec
    BY <2>1 DEF Serve, disk
  <2>3. CASE x = r
    <3>1. fetch' = [fetch EXCEPT ![x].st = "got", ![x].val = tg,
                                 ![x].after = {k \in Keys : rec[k].outcome \in Terminal}]
          \/ fetch' = [fetch EXCEPT ![x].st = "failed"]
      BY <2>1 DEF Serve
    <3> QED BY <1>1, <2>2, <2>3, <3>1 DEF Acquisition
  <2>4. CASE x # r
    BY <1>1, <2>1, <2>4 DEF Serve
  <2> QED BY <2>3, <2>4
<1>4. CASE CommandPublish
  <2>1. fetch["cmd"].st = "got" /\ (\/ fetch' = [fetch EXCEPT !["cmd"].st = "done"]
                                    \/ fetch' = [fetch EXCEPT !["cmd"].st = "failed"])
    BY <1>4 DEF CommandPublish
  <2> QED BY <1>1, <2>1 DEF Acquisition, Readers
<1>5. CASE AcquireStart \/ RefreshStart
  <2>. DEFINE asking(m) == [NoFetch EXCEPT !.st = "sent", !.ord = clock + 1, !.mark = m]
  <2>1. asking(Marker(cmd', fetch)).st = "sent"
        /\ asking(<<scopeGen, IF Tracked(cmd, fetch) THEN delivered ELSE 0>>).st = "sent"
    BY DEF NoFetch
  <2>2. \/ fetch' = fetch
        \/ fetch' = [fetch EXCEPT !["cmd"] = asking(Marker(cmd', fetch))]
        \/ fetch' = [fetch EXCEPT !["refresh"] = asking(<<scopeGen, IF Tracked(cmd, fetch) THEN delivered ELSE 0>>)]
    BY <1>5 DEF AcquireStart, StartFetch, RefreshStart
  <2>. HIDE DEF asking
  <2>3. CASE fetch' = [fetch EXCEPT !["cmd"] = asking(Marker(cmd', fetch))]
    BY <1>1, <2>1, <2>3 DEF Readers
  <2>4. CASE fetch' = [fetch EXCEPT !["refresh"] = asking(<<scopeGen, IF Tracked(cmd, fetch) THEN delivered ELSE 0>>)]
    BY <1>1, <2>1, <2>4 DEF Readers
  <2> QED BY <2>2, <2>3, <2>4
<1>6. CASE Judge \/ PostJudge \/ Cancel \/ RefreshPublish \/ Crash
  <2>1. \/ \E x \in Readers : fetch' = [fetch EXCEPT ![x] = NoFetch]
        \/ fetch' = [x \in Readers |-> NoFetch]
    BY <1>6 DEF Judge, PostJudge, Cancel, RefreshPublish, Crash, Readers
  <2> QED BY <1>1, <2>1 DEF NoFetch
<1> QED BY <1>2, <1>3, <1>4, <1>5, <1>6, ContactFrames DEF FetchSteps

\* The canonical observation changes to an answer that was there, or to an update.
LEMMA LocalMoves ==
    ASSUME ContactTypeOK, ContactNext
    PROVE  \/ local' = local
           \/ \E r \in Readers : /\ local' = FetchedBy(r) /\ fetch[r].st = "got" /\ (CommandPublish \/ RefreshPublish)
                                 /\ CommandPublish => r = "cmd"
           \/ ApplyPush /\ local'.src = "push" /\ local'.ord = clock + 1
<1>1. CASE CommandPublish
  BY <1>1 DEF CommandPublish, Canonical, Readers
<1>2. CASE RefreshPublish /\ ~CommandPublish
  BY <1>2 DEF RefreshPublish, Canonical, Readers
<1>3. CASE ApplyPush
  BY <1>3 DEF ApplyPush
<1> QED BY <1>1, <1>2, <1>3, ContactFrames

\* Every newer answer is about the state after the end of a write.
LEMMA AnswersKept ==
    ASSUME ContactInv, ContactNext PROVE Answers'
<1>1. /\ ContactTypeOK /\ Answers /\ fetch \in [Readers -> Acquisition] /\ local \in Evidence /\ clock \in Nat
      /\ local.ord \in 0..clock /\ \A r \in Readers : fetch[r].ord \in 0..clock
      /\ rec \in [Keys -> Receipt]
  BY DEF ContactInv, ContactTypeOK, Acquisition, Evidence
<1>2. ASSUME NEW r \in Readers, fetch'[r].st \in {"got", "done"} PROVE AfterIn(fetch[r].ord, fetch[r].after)'
  <2>1. CASE /\ fetch[r].st \in {"got", "done"}
             /\ fetch'[r].ord = fetch[r].ord /\ fetch'[r].after = fetch[r].after
    <3>1. AfterIn(fetch[r].ord, fetch[r].after)
      BY <1>1, <2>1 DEF Answers
    <3>2. \A k \in Keys : rec'[k].outcome \in {"unknown", "acknowledged"} /\ rec'[k].term < fetch[r].ord
                          => k \in fetch[r].after
      BY <1>1, <3>1, AfterStays
    <3> QED BY <2>1, <3>2 DEF AfterIn
  <2>2. CASE rec' = rec /\ fetch'[r].after = {k \in Keys : rec[k].outcome \in Terminal}
    BY <2>2 DEF AfterIn, Terminal
  <2> QED BY <1>1, <1>2, <2>1, <2>2, AnswersMove
<1>3. ASSUME local'.src = "fetch" PROVE AfterIn(local.ord, local.after)'
  <2>1. CASE local' = local
    <3>1. AfterIn(local.ord, local.after)
      BY <1>1, <1>3, <2>1 DEF Answers
    <3>2. \A k \in Keys : rec'[k].outcome \in {"unknown", "acknowledged"} /\ rec'[k].term < local.ord
                          => k \in local.after
      BY <1>1, <3>1, AfterStays
    <3> QED BY <2>1, <3>2 DEF AfterIn
  <2>2. CASE \E r \in Readers : local' = FetchedBy(r) /\ fetch[r].st = "got"
    <3>1. PICK r \in Readers : local' = FetchedBy(r) /\ fetch[r].st = "got"
      BY <2>2
    <3>2. AfterIn(fetch[r].ord, fetch[r].after)
      BY <1>1, <3>1 DEF Answers
    <3>3. \A k \in Keys : rec'[k].outcome \in {"unknown", "acknowledged"} /\ rec'[k].term < fetch[r].ord
                          => k \in fetch[r].after
      BY <1>1, <3>2, AfterStays
    <3>4. local'.ord = fetch[r].ord /\ local'.after = fetch[r].after
      BY <3>1 DEF FetchedBy
    <3> QED BY <3>3, <3>4 DEF AfterIn
  <2>3. CASE local'.src = "push"
    BY <1>3, <2>3
  <2> QED BY <1>1, <2>1, <2>2, <2>3, LocalMoves
<1> QED BY <1>2, <1>3 DEF Answers

\* A verdict is given by an observation that is about the state after the write.
LEMMA ProvenAfter ==
    ASSUME ReadAfterWrite, NEW o, Judged(o), o.src = "fetch" => AfterIn(o.ord, o.after), proof' = Proven(o)
    PROVE  ReadAfterWrite'
<1>1. SUFFICES ASSUME NEW k \in Keys, proof'[k].src = "fetch" PROVE proof'[k].after
  BY DEF ReadAfterWrite
<1>2. CASE rec'[k].ver # rec[k].ver /\ rec'[k].ver \in {"verified", "mismatch", "observed"}
  <2>1. proof'[k] = [src |-> o.src, after |-> k \in o.after]
    BY <1>2 DEF Proven
  <2>2. o.src = "fetch" /\ proof'[k].after = (k \in o.after)
    BY <1>1, <2>1
  <2>3. rec[k].outcome \in {"unknown", "acknowledged"} /\ rec[k].term < o.ord
    BY <1>2 DEF Judged
  <2>4. SameOutcome(rec[k], rec'[k])
    BY DEF Judged
  <2>5. k \in o.after
    BY <2>2, <2>3, <2>4 DEF AfterIn
  <2> QED BY <2>2, <2>5
<1>3. CASE ~(rec'[k].ver # rec[k].ver /\ rec'[k].ver \in {"verified", "mismatch", "observed"})
  <2>1. proof'[k] = proof[k]
    BY <1>3 DEF Proven
  <2> QED BY <1>1, <2>1 DEF ReadAfterWrite
<1> QED BY <1>2, <1>3

\* Every step that judges does so by a read after the write.
LEMMA ReadAfterWriteKept ==
    ASSUME ContactInv, ContactNext PROVE ReadAfterWrite'
<1>1. ContactTypeOK /\ Answers /\ ReadAfterWrite /\ proof \in [Keys -> [src : Sources, after : BOOLEAN]]
  BY DEF ContactInv, ContactTypeOK
<1>2. CASE CommandPublish
  <2>1. fetch["cmd"].st = "got" /\ proof' = Proven(FetchedBy("cmd"))
    BY <1>2 DEF CommandPublish
  <2>2. AfterIn(FetchedBy("cmd").ord, FetchedBy("cmd").after)
    BY <1>1, <2>1 DEF Answers, FetchedBy, Readers
  <2>3. Judged(FetchedBy("cmd"))
    BY <1>1, <1>2, CommandPublishJudges
  <2> QED BY <1>1, <2>1, <2>2, <2>3, ProvenAfter
<1>3. CASE RefreshPublish
  <2>1. proof' = Proven(FetchedBy("refresh"))
    BY <1>3 DEF RefreshPublish
  <2>2. CASE fetch["refresh"].st = "got"
    <3>1. AfterIn(FetchedBy("refresh").ord, FetchedBy("refresh").after)
      BY <1>1, <2>2 DEF Answers, FetchedBy, Readers
    <3>2. Judged(FetchedBy("refresh"))
      BY <1>1, <1>3, RefreshPublishJudges
    <3> QED BY <1>1, <2>1, <3>1, <3>2, ProvenAfter
  <2>3. CASE fetch["refresh"].st # "got"
    <3>1. rec' = rec
      BY <1>3, <2>3 DEF RefreshPublish
    <3>2. \A k \in Keys : proof'[k] = proof[k]
      BY <2>1, <3>1 DEF Proven
    <3> QED BY <1>1, <3>2 DEF ReadAfterWrite
  <2> QED BY <2>2, <2>3
<1>4. CASE RefreshStart \/ PublishVerification
  <2>1. proof' = Proven(local) /\ Judged(local)
    BY <1>1, <1>4, RefreshStartJudges, PublishVerificationJudges DEF RefreshStart, PublishVerification
  <2>2. local.src = "fetch" => AfterIn(local.ord, local.after)
    BY <1>1 DEF Answers
  <2> QED BY <1>1, <2>1, <2>2, ProvenAfter
<1>5. CASE proof' = proof
  BY <1>1, <1>5 DEF ReadAfterWrite
<1>6. \/ CommandPublish \/ RefreshPublish \/ RefreshStart \/ PublishVerification \/ proof' = proof
  <2>. USE DEF ghosts
  <2>1. CASE Command
    BY <2>1 DEF Command, Begin, AcquireStart, Judge, Reserve, Arm, BindAttempt, PrepareIntent, PreclaimTokens,
       ClaimWrite, ClaimRefused, CallReturns, PostJudge, Cleanup, Cancel
  <2>2. CASE Wire
    BY <2>2 DEF Wire, TelegramApplies, TelegramRefuses, SettleReceipt, SettleLedger
  <2>3. CASE Refresh
    BY <2>3 DEF Refresh, AskRefresh, RefreshDone
  <2>4. CASE World
    BY <2>4 DEF World, Serve, OtherDevice, CapturePush, ApplyPush, ResetScope
  <2>5. CASE Restarting
    BY <2>5 DEF Restarting, Crash, ReconcileIntents, RecoverInterrupted, OfferUnresolved
  <2> QED BY <2>1, <2>2, <2>3, <2>4, <2>5 DEF ContactNext
<1> QED BY <1>2, <1>3, <1>4, <1>5, <1>6

-----------------------------------------------------------------------------
(* Who reads *)

\* A refresh reads in its profile section only, the command before and after its write.
LEMMA FetchOwnedKept ==
    ASSUME ContactInv, ContactNext PROVE FetchOwned'
<1>1. /\ FetchOwned /\ fetch \in [Readers -> Acquisition] /\ cmd \in Running
      /\ profile \in {"idle", "profile", "rest"} /\ "cmd" \in Readers /\ "refresh" \in Readers
  BY DEF ContactInv, ContactTypeOK, Readers
<1>. DEFINE Off(r) == fetch'[r].st = "off"
<1>2. CASE AcquireStart
  <2>. DEFINE asking == [NoFetch EXCEPT !.st = "sent", !.ord = clock + 1, !.mark = Marker(cmd', fetch)]
  <2>1. fetch' = [fetch EXCEPT !["cmd"] = asking] /\ profile' = profile /\ cmd.pc \in {"acquire", "post"}
    BY <1>2 DEF AcquireStart, StartFetch
  <2>2. cmd'.pc = cmd.pc
    BY <1>1, <1>2 DEF AcquireStart, Running
  <2>. HIDE DEF asking
  <2> QED BY <1>1, <2>1, <2>2 DEF FetchOwned
<1>3. CASE RefreshStart
  <2>. DEFINE asking == [NoFetch EXCEPT !.st = "sent", !.ord = clock + 1,
                         !.mark = <<scopeGen, IF Tracked(cmd, fetch) THEN delivered ELSE 0>>]
  <2>1. \/ fetch' = [fetch EXCEPT !["refresh"] = asking] /\ profile' = profile
        \/ fetch' = fetch
    BY <1>3 DEF RefreshStart
  <2>2. asking.st = "sent" /\ cmd' = cmd /\ profile = "profile" /\ fetch["refresh"].st = "off"
    BY <1>3 DEF RefreshStart, NoFetch
  <2>. HIDE DEF asking
  <2> QED BY <1>1, <2>1, <2>2 DEF FetchOwned
<1>4. CASE Serving
  <2>1. PICK r \in Readers : Serve(r)
    BY <1>4 DEF Serving
  <2>2. cmd' = cmd /\ profile' = profile /\ fetch[r].st = "sent"
    BY <2>1 DEF Serve, disk
  <2>3. fetch'[r].st \in {"got", "failed"} /\ \A x \in Readers \ {r} : fetch'[x] = fetch[x]
    BY <1>1, <2>1 DEF Serve, Acquisition
  <2> QED BY <1>1, <2>2, <2>3 DEF FetchOwned
<1>5. CASE CommandPublish
  <2>1. fetch["cmd"].st = "got" /\ profile' = profile /\ cmd' = cmd /\ fetch'["refresh"] = fetch["refresh"]
    BY <1>1, <1>5 DEF CommandPublish
  <2> QED BY <1>1, <2>1 DEF FetchOwned
<1>6. CASE Judge \/ PostJudge \/ Cancel
  <2>1. fetch' = [fetch EXCEPT !["cmd"] = NoFetch] /\ (profile = "profile" => profile' = "profile")
    BY <1>6 DEF Judge, PostJudge, Cancel, disk, Offer, NoOffer
  <2> QED BY <1>1, <2>1 DEF FetchOwned, NoFetch
<1>7. CASE RefreshPublish
  <2>1. fetch' = [fetch EXCEPT !["refresh"] = NoFetch] /\ cmd' = cmd
    BY <1>7 DEF RefreshPublish
  <2> QED BY <1>1, <2>1 DEF FetchOwned, NoFetch
<1>8. CASE Crash
  BY <1>1, <1>8 DEF Crash, FetchOwned, NoFetch
<1>9. CASE Beginning \/ Reserve \/ Arm \/ BindAttempt \/ PrepareIntent \/ PreclaimTokens \/ ClaimWrite
           \/ ClaimRefused \/ CallReturns \/ PublishVerification \/ Cleanup
  <2>1. fetch' = fetch /\ (profile = "profile" => profile' = "profile")
    BY <1>9 DEF Beginning, Begin, Reserve, Arm, BindAttempt, PrepareIntent, PreclaimTokens, ClaimWrite, ClaimRefused,
       CallReturns, PublishVerification, Cleanup, disk, Offer, NoOffer
  <2>2. cmd.pc \notin {"acquire", "post"}
    BY <1>9 DEF Beginning, Begin, Reserve, Arm, BindAttempt, PrepareIntent, PreclaimTokens, ClaimWrite, ClaimRefused,
       CallReturns, PublishVerification, Cleanup
  <2> QED BY <1>1, <2>1, <2>2 DEF FetchOwned
<1>10. CASE cmd' = cmd /\ fetch' = fetch
  <2>1. \/ profile = "profile" => profile' = "profile"
        \/ fetch["refresh"].st = "off"
    <3>. USE DEF disk, Offer, NoOffer
    <3>1. CASE Command
      BY <3>1 DEF Command, Begin, AcquireStart, CommandPublish, Judge, Reserve, Arm, BindAttempt, PrepareIntent,
         PreclaimTokens, ClaimWrite, ClaimRefused, CallReturns, PostJudge, PublishVerification, Cleanup, Cancel
    <3>2. CASE Wire
      BY <3>2 DEF Wire, TelegramApplies, TelegramRefuses, SettleReceipt, SettleLedger
    <3>3. CASE Refresh
      BY <1>1, <1>10, <3>3 DEF Refresh, AskRefresh, RefreshStart, RefreshPublish, RefreshDone, NoFetch
    <3>4. CASE World
      BY <3>4 DEF World, Serve, OtherDevice, CapturePush, ApplyPush, ResetScope
    <3>5. CASE Restarting
      BY <3>5 DEF Restarting, Crash, ReconcileIntents, RecoverInterrupted, OfferUnresolved
    <3> QED BY <3>1, <3>2, <3>3, <3>4, <3>5 DEF ContactNext
  <2> QED BY <1>1, <1>10, <2>1 DEF FetchOwned
<1> QED
  BY <1>2, <1>3, <1>4, <1>5, <1>6, <1>7, <1>8, <1>9, <1>10, ContactFrames DEF CommandSteps, FetchSteps

-----------------------------------------------------------------------------
(* What the command was promised *)

\* While a command runs its counters only grow, the canonical observation does not change
\* unseen, and what dirties its answer moves the watch.
LEMMA CountersGrow ==
    ASSUME ContactTypeOK, ContactNext, cmd'.pc # "idle"
    PROVE  /\ scopeGen <= scopeGen' /\ gen <= gen' /\ delivered <= delivered'
           /\ local' # local => gen < gen'
           /\ dirty' /\ ~dirty => scopeGen < scopeGen' \/ delivered < delivered'
<1>1. gen \in Nat /\ delivered \in Nat /\ scopeGen \in Nat /\ Tracked(cmd', fetch')
  BY DEF ContactTypeOK, Tracked
<1>2. KeepCount /\ local' = local /\ (dirty' => dirty) =>
        /\ scopeGen' = scopeGen /\ gen' = gen /\ delivered' = delivered /\ local' = local /\ (dirty' => dirty)
  BY <1>1 DEF KeepCount, Count
<1>3. CASE CommandPublish \/ RefreshPublish
  BY <1>1, <1>3 DEF CommandPublish, RefreshPublish, Count
<1>4. CASE Command /\ ~CommandPublish
  <2>1. KeepCount
    BY <1>4 DEF Command, Begin, AcquireStart, Judge, Reserve, Arm, BindAttempt, PrepareIntent,
       PreclaimTokens, ClaimWrite, ClaimRefused, CallReturns, PostJudge, PublishVerification, Cleanup, Cancel
  <2>2. local' = local /\ dirty' = dirty
    BY <1>4 DEF Command, Begin, AcquireStart, Judge, Reserve, Arm, BindAttempt, PrepareIntent, PreclaimTokens,
       ClaimWrite, ClaimRefused, CallReturns, PostJudge, PublishVerification, Cleanup, Cancel, ghosts, disk
  <2> QED BY <1>1, <1>2, <2>1, <2>2
<1>5. CASE Wire \/ AskRefresh \/ RefreshDone \/ ReconcileIntents \/ RecoverInterrupted \/ OfferUnresolved
           \/ \E v \in Values : OtherDevice(v)
  <2>1. UNCHANGED <<gen, delivered, scopeGen, local, dirty>>
    BY <1>5 DEF Wire, TelegramApplies, TelegramRefuses, SettleReceipt, SettleLedger, AskRefresh, RefreshDone,
       ReconcileIntents, RecoverInterrupted, OfferUnresolved, OtherDevice, fences, ghosts, disk
  <2> QED BY <1>1, <2>1
<1>6. CASE Serving \/ RefreshStart
  <2>1. KeepCount /\ local' = local /\ (dirty' => dirty)
    <3>1. CASE Serving
      <4>1. PICK r \in Readers : Serve(r)
        BY <3>1 DEF Serving
      <4> QED BY <4>1 DEF Serve, disk
    <3>2. CASE RefreshStart
      BY <3>2 DEF RefreshStart
    <3> QED BY <1>6, <3>1, <3>2
  <2> QED BY <1>1, <1>2, <2>1
<1>7. CASE \E named \in BOOLEAN : CapturePush(named)
  <2>1. PICK named \in BOOLEAN : CapturePush(named)
    BY <1>7
  <2>2. local' = local /\ scopeGen' = scopeGen /\ dirty' = (dirty \/ named)
    BY <2>1 DEF CapturePush, disk
  <2>3. CASE named
    BY <1>1, <2>1, <2>2, <2>3 DEF CapturePush, Count
  <2>4. CASE ~named
    BY <1>1, <2>1, <2>2, <2>4 DEF CapturePush, Count
  <2> QED BY <2>3, <2>4
<1>8. CASE ApplyPush
  BY <1>1, <1>8 DEF ApplyPush, Count, ghosts
<1>9. CASE ResetScope
  BY <1>1, <1>9 DEF ResetScope, disk
<1>10. CASE Crash
  BY <1>10 DEF Crash, NoCmd
<1> QED
  BY <1>3, <1>4, <1>5, <1>6, <1>7, <1>8, <1>9, <1>10 DEF ContactNext, Command, Refresh, World, Restarting, Serving

\* Only the steps named here change what a running command relies on.
LEMMA PromisesMove ==
    ASSUME ContactTypeOK, ContactNext
    PROVE  Onward \/ Beginning \/ AcquireStart \/ Judge \/ Arm \/ PreclaimTokens
<1>1. cmd \in Running
  BY DEF ContactTypeOK
<1>2. CASE cmd' = cmd
  BY <1>2 DEF Onward
<1>3. CASE Reserve \/ BindAttempt \/ PrepareIntent \/ ClaimRefused \/ CallReturns
  BY <1>1, <1>3 DEF Reserve, BindAttempt, PrepareIntent, ClaimRefused, CallReturns, Onward, Ended, NoCmd, Running,
     Accepted, Preparing
<1>4. CASE ClaimWrite \/ PublishVerification \/ Cleanup \/ Crash
  BY <1>1, <1>4 DEF ClaimWrite, PublishVerification, Cleanup, Crash, Onward, Ended, NoCmd, Running,
     Accepted, Preparing, Refused
<1>5. CASE PostJudge
  <2>1. cmd' = NoCmd \/ (cmd.pc = "post" /\ cmd' = [cmd EXCEPT !.pc = "verify", !.ord = local.ord])
    BY <1>5 DEF PostJudge, Ended
  <2>2. CASE cmd' = NoCmd
    BY <2>2 DEF Onward, NoCmd
  <2>3. CASE cmd.pc = "post" /\ cmd' = [cmd EXCEPT !.pc = "verify", !.ord = local.ord]
    <3>. DEFINE at == local.ord
    <3>1. cmd' = [cmd EXCEPT !.pc = "verify", !.ord = at]
      BY <2>3
    <3>. HIDE DEF at
    <3>2. cmd'.pc = "verify" /\ cmd'.intake = cmd.intake /\ cmd'.permit = cmd.permit /\ cmd'.ver = cmd.ver
      BY <1>1, <3>1 DEF Running
    <3> QED BY <2>3, <3>2 DEF Onward, Accepted, Preparing
  <2> QED BY <2>1, <2>2, <2>3
<1>6. CASE Cancel
  <2>1. cmd' = NoCmd \/ (cmd.pc # "idle" /\ cmd' = [cmd EXCEPT !.pc = "clean"])
    BY <1>6 DEF Cancel, Ended, Refused
  <2> QED BY <1>1, <2>1 DEF Onward, NoCmd, Running, Accepted, Preparing
<1> QED BY <1>2, <1>3, <1>4, <1>5, <1>6, ContactFrames DEF CommandSteps

\* The command's read goes on, or starts with an order of its own.
LEMMA ReadGoesOn ==
    ASSUME ContactTypeOK, ContactNext, fetch'["cmd"].st # "off"
    PROVE  \/ /\ fetch["cmd"].st # "off" /\ fetch'["cmd"].ord = fetch["cmd"].ord
              /\ fetch'["cmd"].st \in {"got", "done"} => fetch["cmd"].st \in {"got", "done"} \/ Serve("cmd")
           \/ AcquireStart /\ fetch'["cmd"].st = "sent" /\ fetch'["cmd"].ord = clock + 1
<1>1. fetch \in [Readers -> Acquisition] /\ "cmd" \in Readers
  BY DEF ContactTypeOK, Readers
<1>2. CASE fetch' = fetch
  BY <1>2
<1>3. CASE Serving
  <2>1. PICK r \in Readers : Serve(r)
    BY <1>3 DEF Serving
  <2>2. CASE r = "cmd"
    BY <1>1, <2>1, <2>2 DEF Serve, Acquisition
  <2>3. CASE r # "cmd"
    BY <1>1, <2>1, <2>3 DEF Serve
  <2> QED BY <2>2, <2>3
<1>4. CASE CommandPublish
  <2>1. fetch["cmd"].st = "got" /\ (\/ fetch' = [fetch EXCEPT !["cmd"].st = "done"]
                                    \/ fetch' = [fetch EXCEPT !["cmd"].st = "failed"])
    BY <1>4 DEF CommandPublish
  <2> QED BY <1>1, <2>1 DEF Acquisition, Readers
<1>5. CASE AcquireStart
  <2>. DEFINE asking == [NoFetch EXCEPT !.st = "sent", !.ord = clock + 1, !.mark = Marker(cmd', fetch)]
  <2>1. fetch' = [fetch EXCEPT !["cmd"] = asking]
    BY <1>5 DEF AcquireStart, StartFetch
  <2>2. asking.st = "sent" /\ asking.ord = clock + 1
    BY DEF NoFetch
  <2>. HIDE DEF asking
  <2> QED BY <1>1, <1>5, <2>1, <2>2
<1>6. CASE RefreshStart \/ RefreshPublish
  <2>1. fetch'["cmd"] = fetch["cmd"]
    BY <1>1, <1>6 DEF RefreshStart, RefreshPublish
  <2> QED BY <2>1
<1>7. CASE Judge \/ PostJudge \/ Cancel \/ Crash
  <2>1. fetch' = [fetch EXCEPT !["cmd"] = NoFetch] \/ fetch' = [x \in Readers |-> NoFetch]
    BY <1>7 DEF Judge, PostJudge, Cancel, Crash
  <2> QED BY <1>1, <2>1 DEF NoFetch
<1> QED BY <1>2, <1>3, <1>4, <1>5, <1>6, <1>7, ContactFrames DEF FetchSteps

\* What a running command relies on after a step
LEMMA CommandPromises ==
    ASSUME ContactTypeOK, ContactNext, cmd'.pc # "idle"
    PROVE  /\ (cmd.pc # "idle" /\ cmd'.intake = cmd.intake) \/ cmd'.intake \in {<<scopeGen, delivered>>, <<scopeGen, 0>>}
           /\ cmd'.pc \in Preparing => \/ cmd.pc \in Preparing /\ cmd'.permit = cmd.permit
                                       \/ cmd'.permit = <<scopeGen, gen>>
           /\ cmd'.pc \in Accepted => /\ cmd.pc # "idle" /\ cmd'.intake = cmd.intake
                                      /\ \/ cmd.pc \in Accepted /\ cmd'.ord = cmd.ord
                                         \/ Judge /\ Fresh /\ cmd.pc = "acquire" /\ cmd'.ord = local.ord
           /\ cmd'.pc = "acquire" => Beginning \/ AcquireStart \/ (cmd.pc = "acquire" /\ cmd'.intake = cmd.intake)
           /\ cmd'.pc = "claim" => /\ cmd.pc \in Preparing /\ cmd'.permit = cmd.permit
                                   /\ cmd'.ver = cmd.ver /\ cmd'.ord = cmd.ord
                                   /\ cmd.pc = "claim" \/ (PreclaimTokens /\ StillCurrent)
<1>1. cmd \in Running
  BY DEF ContactTypeOK
<1>2. CASE Onward
  BY <1>2 DEF Onward, Accepted, Preparing
<1>3. CASE Beginning
  <2>1. PICK k \in Keys, want \in Values, ver \in Values : Begin(k, want, ver)
    BY <1>3 DEF Beginning
  <2>. DEFINE mark == <<scopeGen, IF Tracked(cmd, fetch) THEN delivered ELSE 0>>
  <2>2. mark \in {<<scopeGen, delivered>>, <<scopeGen, 0>>}
    OBVIOUS
  <2>3. cmd' = [NoCmd EXCEPT !.pc = "acquire", !.key = k, !.want = want, !.ver = ver, !.intake = mark]
    BY <2>1 DEF Begin
  <2>. HIDE DEF mark
  <2>4. cmd'.pc = "acquire" /\ cmd'.intake = mark
    BY <2>3 DEF NoCmd
  <2> QED BY <1>3, <2>2, <2>4 DEF Accepted, Preparing
<1>4. CASE AcquireStart
  <2>1. cmd.pc \in {"acquire", "post"} /\ cmd'.pc = cmd.pc
        /\ (cmd'.intake = cmd.intake \/ cmd'.intake = <<scopeGen, delivered>>)
    <3>1. cmd.pc \in {"acquire", "post"} /\ (cmd' = cmd \/ cmd' = [cmd EXCEPT !.intake = <<scopeGen, delivered>>])
      BY <1>4 DEF AcquireStart
    <3> QED BY <1>1, <3>1 DEF Running
  <2> QED BY <1>4, <2>1 DEF Accepted, Preparing
<1>5. CASE Judge
  <2>. DEFINE at == local.ord  free == (cmd.want = local.val)
  <2>1. /\ cmd.pc = "acquire" /\ Fresh
        /\ cmd' = [cmd EXCEPT !.pc = "reserve", !.ord = at, !.noop = free]
    BY <1>5 DEF Judge, Ended, NoCmd
  <2>2. at = local.ord
    OBVIOUS
  <2>. HIDE DEF at, free
  <2>3. cmd'.pc = "reserve" /\ cmd'.ord = at /\ cmd'.intake = cmd.intake
    BY <1>1, <2>1 DEF Running
  <2> QED BY <1>5, <2>1, <2>2, <2>3 DEF Accepted, Preparing
<1>6. CASE Arm
  <2>1. /\ cmd.pc = "arm"
        /\ \/ cmd' = [cmd EXCEPT !.pc = "bind", !.permit = <<scopeGen, gen>>]
           \/ cmd' = [cmd EXCEPT !.pc = "clean"]
    BY <1>6 DEF Arm
  <2> QED BY <1>1, <2>1 DEF Running, Accepted, Preparing
<1>7. CASE PreclaimTokens
  <2>1. /\ cmd.pc = "tokens"
        /\ \/ cmd' = [cmd EXCEPT !.pc = "claim"] /\ StillCurrent
           \/ cmd' = [cmd EXCEPT !.pc = "clean"]
    BY <1>7 DEF PreclaimTokens, Refused
  <2> QED BY <1>1, <1>7, <2>1 DEF Running, Accepted, Preparing
<1> QED BY <1>2, <1>3, <1>4, <1>5, <1>6, <1>7, PromisesMove

\* The watch, the permit and the tokens hold until a counter moves.
LEMMA WatchKept ==
    ASSUME ContactInv, ContactNext PROVE Watch'
<1>1. /\ ContactTypeOK /\ Watch /\ FetchOwned
      /\ clock \in Nat /\ local.ord \in 0..clock /\ cmd.ord \in 0..clock /\ fetch["cmd"].ord \in 0..clock
      /\ gen \in Nat /\ delivered \in Nat /\ scopeGen \in Nat
      /\ cmd.pc # "idle" => cmd.intake \in Nat \X Nat
      /\ cmd.permit \in Marks
  BY DEF ContactInv, ContactTypeOK, Evidence, Running, Acquisition, Readers, Marks
<1>2. gen' \in Nat /\ delivered' \in Nat /\ scopeGen' \in Nat /\ local'.ord \in Nat
  BY <1>1, ContactTyped DEF ContactTypeOK, Evidence
<1>3. ASSUME cmd'.pc # "idle" PROVE cmd'.intake[1] <= scopeGen' /\ cmd'.intake[2] <= delivered'
  <2>1. \/ cmd.pc # "idle" /\ cmd'.intake = cmd.intake
        \/ cmd'.intake \in {<<scopeGen, delivered>>, <<scopeGen, 0>>}
    BY <1>1, <1>3, CommandPromises
  <2>2. scopeGen <= scopeGen' /\ delivered <= delivered'
    BY <1>1, <1>3, CountersGrow
  <2> QED BY <1>1, <1>2, <2>1, <2>2 DEF Watch
<1>4. ASSUME cmd'.pc \in Preparing
      PROVE  cmd'.permit # NoMark /\ cmd'.permit[1] <= scopeGen' /\ cmd'.permit[2] <= gen'
  <2>1. cmd'.pc # "idle"
    BY <1>4 DEF Preparing
  <2>2. scopeGen <= scopeGen' /\ gen <= gen'
    BY <1>1, <2>1, CountersGrow
  <2>3. (cmd.pc \in Preparing /\ cmd'.permit = cmd.permit) \/ cmd'.permit = <<scopeGen, gen>>
    BY <1>1, <1>4, <2>1, CommandPromises
  <2>4. CASE cmd.pc \in Preparing /\ cmd'.permit = cmd.permit
    <3>1. cmd.permit \in Nat \X Nat /\ cmd.permit[1] <= scopeGen /\ cmd.permit[2] <= gen
      BY <1>1, <2>4 DEF Watch, Marks
    <3> QED BY <1>1, <1>2, <2>2, <2>4, <3>1, SMTT(40) DEF NoMark
  <2>5. CASE cmd'.permit = <<scopeGen, gen>>
    BY <1>1, <1>2, <2>2, <2>5 DEF NoMark
  <2> QED BY <2>3, <2>4, <2>5
\* A watch that is still current was current before, and its answer was clean.
<1>5. ASSUME cmd'.pc # "idle", cmd.pc # "idle", cmd'.intake = cmd.intake, IntakeCurrent(cmd.intake)'
      PROVE  IntakeCurrent(cmd.intake) /\ (dirty' => dirty)
  <2>1. /\ scopeGen <= scopeGen' /\ delivered <= delivered'
        /\ dirty' /\ ~dirty => scopeGen < scopeGen' \/ delivered < delivered'
    BY <1>1, <1>5, CountersGrow
  <2>2. cmd.intake \in Nat \X Nat /\ cmd.intake[1] <= scopeGen /\ cmd.intake[2] <= delivered
    BY <1>1, <1>5 DEF Watch
  <2>3. cmd.intake = <<scopeGen', delivered'>>
    BY <1>5 DEF IntakeCurrent
  <2>4. scopeGen' = scopeGen /\ delivered' = delivered
    BY <1>1, <1>2, <2>1, <2>2, <2>3
  <2> QED BY <1>1, <1>5, <2>1, <2>3, <2>4 DEF IntakeCurrent, Tracked
<1>6. ASSUME IntakeCurrent(cmd.intake)',
             cmd'.pc \in Accepted \/ (cmd'.pc = "acquire" /\ fetch'["cmd"].st \in {"got", "done"})
      PROVE  ~dirty'
  <2>1. cmd'.pc # "idle"
    BY <1>6 DEF Accepted, Preparing
  <2>2. CASE cmd'.pc \in Accepted
    <3>1. /\ cmd.pc # "idle" /\ cmd'.intake = cmd.intake
          /\ cmd.pc \in Accepted \/ (Fresh /\ cmd.pc = "acquire")
      BY <1>1, <2>1, <2>2, CommandPromises
    <3>2. IntakeCurrent(cmd.intake) /\ (dirty' => dirty)
      BY <1>5, <1>6, <2>1, <3>1
    <3> QED BY <1>1, <3>1, <3>2 DEF Watch, Fresh
  <2>3. CASE cmd'.pc = "acquire" /\ fetch'["cmd"].st \in {"got", "done"}
    <3>1. /\ fetch["cmd"].st # "off"
          /\ fetch["cmd"].st \in {"got", "done"} \/ Serve("cmd")
      BY <1>1, <2>3, ReadGoesOn
    <3>2. CASE Serve("cmd")
      BY <3>2 DEF Serve
    <3>3. CASE fetch["cmd"].st \in {"got", "done"}
      <4>1. ~Beginning /\ ~AcquireStart
        BY <1>1, <3>3 DEF FetchOwned, Beginning, Begin, AcquireStart
      <4>2. cmd.pc = "acquire" /\ cmd'.intake = cmd.intake
        BY <1>1, <2>1, <2>3, <4>1, CommandPromises
      <4>3. IntakeCurrent(cmd.intake) /\ (dirty' => dirty)
        BY <1>5, <1>6, <2>1, <4>2
      <4> QED BY <1>1, <3>3, <4>2, <4>3 DEF Watch
    <3> QED BY <3>1, <3>2, <3>3
  <2> QED BY <1>6, <2>2, <2>3
\* An update takes an order nobody holds yet.
<1>7. ASSUME NEW ord \in 0..clock, local'.ord = ord, local.ord = ord => local.src = "fetch"
      PROVE  local'.src = "fetch"
  <2>1. CASE local' = local
    BY <1>7, <2>1
  <2>2. CASE \E r \in Readers : local' = FetchedBy(r)
    BY <2>2 DEF FetchedBy
  <2>3. CASE local'.ord = clock + 1
    BY <1>1, <1>7, <2>3
  <2> QED BY <1>1, <2>1, <2>2, <2>3, LocalMoves
<1>8. ASSUME cmd'.pc \in Accepted, local'.ord = cmd'.ord PROVE local'.src = "fetch"
  <2>1. cmd'.pc # "idle"
    BY <1>8 DEF Accepted, Preparing
  <2>2. \/ cmd.pc \in Accepted /\ cmd'.ord = cmd.ord
        \/ Judge /\ Fresh /\ cmd'.ord = local.ord
    BY <1>1, <1>8, <2>1, CommandPromises
  <2>3. CASE cmd.pc \in Accepted /\ cmd'.ord = cmd.ord
    <3>1. local.ord = cmd.ord => local.src = "fetch"
      BY <1>1, <2>3 DEF Watch
    <3> QED BY <1>1, <1>7, <1>8, <2>3, <3>1
  <2>4. CASE Judge /\ Fresh /\ cmd'.ord = local.ord
    <3>1. local.src = "fetch"
      BY <1>1, <2>4 DEF Watch, Fresh
    <3> QED BY <1>1, <1>7, <1>8, <2>4, <3>1
  <2> QED BY <2>2, <2>3, <2>4
<1>9. ASSUME fetch'["cmd"].st # "off", local'.ord = fetch'["cmd"].ord PROVE local'.src = "fetch"
  <2>1. CASE fetch["cmd"].st # "off" /\ fetch'["cmd"].ord = fetch["cmd"].ord
    <3>1. local.ord = fetch["cmd"].ord => local.src = "fetch"
      BY <1>1, <2>1 DEF Watch
    <3> QED BY <1>1, <1>7, <1>9, <2>1, <3>1
  <2>2. CASE AcquireStart /\ fetch'["cmd"].ord = clock + 1
    <3>1. local' = local
      BY <2>2 DEF AcquireStart
    <3> QED BY <1>1, <1>9, <2>2, <3>1
  <2> QED BY <1>1, <1>9, <2>1, <2>2, ReadGoesOn
<1>10. ASSUME cmd'.pc = "claim", cmd'.permit = <<scopeGen', gen'>>
       PROVE  local'.val = cmd'.ver /\ local'.ord = cmd'.ord
  <2>1. cmd'.pc # "idle"
    BY <1>10
  <2>2. /\ cmd.pc \in Preparing /\ cmd'.permit = cmd.permit /\ cmd'.ver = cmd.ver /\ cmd'.ord = cmd.ord
        /\ cmd.pc = "claim" \/ (PreclaimTokens /\ StillCurrent)
    BY <1>1, <1>10, <2>1, CommandPromises
  <2>3. cmd.permit \in Nat \X Nat /\ cmd.permit[1] <= scopeGen /\ cmd.permit[2] <= gen
    BY <1>1, <2>2 DEF Watch, Marks
  <2>4. scopeGen <= scopeGen' /\ gen <= gen' /\ (local' # local => gen < gen')
    BY <1>1, <2>1, CountersGrow
  <2>5. cmd.permit = <<scopeGen', gen'>>
    BY <1>10, <2>2
  <2>6. scopeGen' = scopeGen /\ gen' = gen
    BY <1>1, <1>2, <2>3, <2>4, <2>5
  <2>7. local' = local
    BY <1>1, <2>4, <2>6
  <2> QED BY <1>1, <2>2, <2>5, <2>6, <2>7 DEF Watch, StillCurrent
<1> QED
  BY <1>3, <1>4, <1>6, <1>8, <1>9, <1>10 DEF Watch, IntakeCurrent

-----------------------------------------------------------------------------
(* Theorems *)

\* Nothing is written, asked or promised at first.
LEMMA ContactStarts == ASSUME ContactInit PROVE ContactInv
<1>1. MaxOrder \in Nat /\ clock = 0 /\ 0 \in 0..clock
  BY ContactAssumption DEF ContactInit
<1>2. ContactTypeOK
  <2>1. /\ tg \in Contents /\ net \in [Keys -> {"none", "sent", "applied", "refused"}]
        /\ intent \in [Keys -> {"none", "prepared", "contained", "done"}]
        /\ profile \in {"idle", "profile", "rest"} /\ follow \in BOOLEAN
        /\ up \in {"up", "safe", "down"} /\ startup \in BOOLEAN
    BY DEF ContactInit, Contents
  <2>2. local \in Evidence
    BY <1>1 DEF ContactInit, Contents, Evidence, Sources
  <2>3. clock \in Nat /\ clock <= MaxOrder
    BY <1>1
  <2>4. NoRec \in Receipt /\ NoFetch \in Acquisition /\ NoCmd \in Running
    BY <1>1 DEF NoRec, NoFetch, NoCmd, NoMark, Receipt, Acquisition, Running, Outcomes, Verdicts, Contents, Marks, Stages
  <2>5. rec \in [Keys -> Receipt] /\ fetch \in [Readers -> Acquisition] /\ cmd \in Running
        /\ (cmd.pc # "idle" => cmd.key \in Keys /\ cmd.intake # NoMark)
    BY <2>4 DEF ContactInit, NoCmd
  <2>6. request \in [Keys -> [st : {"none", "sent", "reject", "settled", "closed"}, revoked : BOOLEAN]]
    BY DEF ContactInit, NoWire
  <2>7. /\ gen \in Nat /\ delivered \in Nat /\ scopeGen \in Nat
        /\ sent \in [Keys -> Nat] /\ dirty \in BOOLEAN
    BY DEF ContactInit
  <2>8. waiting \in Seq([val : Contents, after : SUBSET Keys])
    <3>. DEFINE S == [val : Contents, after : SUBSET Keys]
    <3>. HIDE DEF S
    <3>1. waiting \in Seq(S)
      BY DEF ContactInit
    <3> QED BY <3>1 DEF S
  <2>9. proof \in [Keys -> [src : Sources, after : BOOLEAN]]
    BY DEF ContactInit, Sources
  <2> QED BY <2>1, <2>2, <2>3, <2>5, <2>6, <2>7, <2>8, <2>9 DEF ContactTypeOK
<1>3. ASSUME NEW k \in Keys PROVE WriteFate(k) /\ Owed(k)
  BY DEF ContactInit, WriteFate, Passage, Commanded, Truthful, Intended, Owed, Holds, VerificationPending, NoRec, NoCmd,
     NoWire, Terminal, Preparing
<1>4. OneUnresolved /\ FetchOwned /\ Answers /\ ReadAfterWrite
  BY DEF ContactInit, OneUnresolved, Quarantining, FetchOwned, Answers, ReadAfterWrite, NoRec, NoFetch, NoCmd, Readers
<1>5. Watch
  BY DEF ContactInit, Watch, NoCmd, NoFetch, Accepted, Preparing, Readers
<1> QED BY <1>2, <1>3, <1>4, <1>5 DEF ContactInv

\* The invariant is inductive ...
LEMMA ContactSteps == ASSUME ContactInv, ContactNext PROVE ContactInv'
<1>1. ContactTypeOK'
  BY ContactTyped DEF ContactInv
<1>2. ASSUME NEW k \in Keys PROVE (WriteFate(k) /\ Owed(k))'
  BY FateKept, OwedKept
<1> QED
  BY <1>1, <1>2, OneKept, FetchOwnedKept, AnswersKept, ReadAfterWriteKept, WatchKept DEF ContactInv

\* ... and does not see a stutter.
LEMMA ContactStutters == ASSUME ContactInv, UNCHANGED contactVars PROVE ContactInv'
<1>. USE DEF contactVars, remote, disk, fences, bounds, ghosts
<1>1. ContactTypeOK'
  BY DEF ContactInv, ContactTypeOK, Receipt, Evidence, Acquisition, Running
<1>2. ASSUME NEW k \in Keys PROVE (WriteFate(k) /\ Owed(k))'
  BY DEF ContactInv, WriteFate, Passage, Commanded, Truthful, Intended, Owed, Holds
<1>3. OneUnresolved' /\ FetchOwned' /\ Answers' /\ ReadAfterWrite'
  BY DEF ContactInv, OneUnresolved, Quarantining, FetchOwned, Answers, AfterIn, ReadAfterWrite
<1>4. Watch'
  BY DEF ContactInv, Watch, IntakeCurrent, Tracked
<1> QED BY <1>1, <1>2, <1>3, <1>4 DEF ContactInv

\* The inductive invariant of the contact commands
THEOREM ContactInvariant == ContactSpec => []ContactInv
<1>1. ContactInit => ContactInv
  BY ContactStarts
<1>2. ContactInv /\ [ContactNext]_contactVars => ContactInv'
  BY ContactSteps, ContactStutters
<1> QED BY <1>1, <1>2, PTL DEF ContactSpec

\* Every variable of the contact commands keeps its type: a receipt is dated within the
\* durable sequence, and a command that runs has a key and a watch.
THEOREM ContactIsTyped == ContactSpec => []ContactTypeOK
<1>1. ContactInv => ContactTypeOK
  BY DEF ContactInv
<1> QED BY <1>1, ContactInvariant, PTL

\* The invariant says all that the property says.
LEMMA FateIsKnown == ASSUME ContactInv PROVE ContactFateKnown
<1>1. ASSUME NEW k \in Keys PROVE sent[k] <= 1
  BY DEF ContactInv, WriteFate, Passage
<1>2. OutcomeTrue
  BY DEF ContactInv, WriteFate, Truthful, OutcomeTrue
<1>3. NoOrphanIntent
  BY DEF ContactInv, WriteFate, Intended, Preparing, NoOrphanIntent
<1>4. ReadbackOwed
  BY DEF ContactInv, Owed, ReadbackOwed
<1> QED BY <1>1, <1>2, <1>3, <1>4 DEF ContactInv, ContactFateKnown, ClaimedOnce

\* The fate of a contact write is what its receipt says, however the command is cancelled,
\* settled late or cut by a restart.
THEOREM ContactFateTrue == ContactSpec => []ContactFateKnown
<1>1. ContactInv => ContactFateKnown
  BY FateIsKnown
<1> QED BY <1>1, ContactInvariant, PTL

\* Only a claim sends, and a claim asks the watch and the permit again.
LEMMA ClaimIsFresh ==
    ASSUME ContactInv, ContactNext, NEW k \in Keys, sent'[k] > sent[k]
    PROVE  ~dirty /\ local.val = cmd.ver /\ local.ord = cmd.ord /\ local.src = "fetch"
<1>1. sent \in [Keys -> Nat] /\ Watch
  BY DEF ContactInv, ContactTypeOK
<1>2. sent' # sent
  BY <1>1
<1>3. ClaimWrite
  <2>. USE DEF ghosts
  <2>1. CASE Command
    BY <1>2, <2>1 DEF Command, Begin, AcquireStart, CommandPublish, Judge, Reserve, Arm, BindAttempt, PrepareIntent,
       PreclaimTokens, ClaimRefused, CallReturns, PostJudge, PublishVerification, Cleanup, Cancel
  <2>2. CASE Wire
    BY <1>2, <2>2 DEF Wire, TelegramApplies, TelegramRefuses, SettleReceipt, SettleLedger
  <2>3. CASE Refresh
    BY <1>2, <2>3 DEF Refresh, AskRefresh, RefreshStart, RefreshPublish, RefreshDone
  <2>4. CASE World
    BY <1>2, <2>4 DEF World, Serve, OtherDevice, CapturePush, ApplyPush, ResetScope
  <2>5. CASE Restarting
    BY <1>2, <2>5 DEF Restarting, Crash, ReconcileIntents, RecoverInterrupted, OfferUnresolved
  <2> QED BY <2>1, <2>2, <2>3, <2>4, <2>5 DEF ContactNext
<1>4. cmd.pc = "claim" /\ ClaimCurrent
  BY <1>2, <1>3 DEF ClaimWrite
<1> QED BY <1>1, <1>4 DEF ClaimCurrent, Watch, Accepted, Preparing

\* A packet leaves only while the observation the caller's version was checked against is the
\* canonical one, with no update naming the peer and no reset since (watch, permit, tokens).
THEOREM ClaimsAreFresh == ContactSpec => FreshClaim
<1>1. ContactInv /\ [ContactNext]_contactVars =>
          [\A k \in Keys : sent'[k] > sent[k] =>
              ~dirty /\ local.val = cmd.ver /\ local.ord = cmd.ord /\ local.src = "fetch"]_contactVars
  BY ClaimIsFresh
<1> QED BY <1>1, ContactInvariant, PTL DEF ContactSpec, FreshClaim

(* THE SCHEDULED QUEUE *)

-----------------------------------------------------------------------------
(* The orders of the updates *)

\* Two numbers of which neither is less are one.
LEMMA NotLess ==
    ASSUME NEW x \in Int, NEW y \in Int, x <= y, y <= x
    PROVE  x = y
OBVIOUS

\* Of the updates about a message that are on their way one is the last.
LEMMA LastExists ==
    ASSUME QueueTypeOK, NEW m, NEW i, Waits(i, m)
    PROVE  \E j : Last(j, m) /\ i <= j
<1> DEFINE S == {Len(updates) - j : j \in {x \in DOMAIN updates : Waits(x, m)}}
<1>1. DOMAIN updates = 1..Len(updates) /\ Len(updates) \in Nat
  BY DEF QueueTypeOK
<1>2. S \subseteq Nat /\ Len(updates) - i \in S
  BY <1>1 DEF Waits
<1>3. \E x \in S : \A y \in S : ~ (<<y, x>> \in OpToRel(<, Nat))
  <2> HIDE DEF OpToRel, S
  <2> QED BY <1>2, NatLessThanWellFounded, WFMin
<1>4. PICK x \in S : \A y \in S : ~ (<<y, x>> \in OpToRel(<, Nat))
  BY <1>3
<1>5. \A y \in S : ~ (y < x)
  BY <1>2, <1>4 DEF OpToRel
<1>6. PICK j \in {z \in DOMAIN updates : Waits(z, m)} : x = Len(updates) - j
  BY <1>4
<1>7. \A z \in DOMAIN updates : Waits(z, m) => z <= j
  <2> SUFFICES ASSUME NEW z \in DOMAIN updates, Waits(z, m) PROVE z <= j
    OBVIOUS
  <2>1. Len(updates) - z \in S
    OBVIOUS
  <2>2. ~ (Len(updates) - z < Len(updates) - j)
    BY <2>1, <1>5, <1>6
  <2> HIDE DEF S
  <2> QED BY <2>2, <1>1
<1> QED BY <1>1, <1>6, <1>7 DEF Last, Waits

-----------------------------------------------------------------------------
(* What the steps of the mirror do *)

LEMMA DueMeans == UnknownIsDue <=> DueHolds(recon)
BY DEF UnknownIsDue, DueHolds

LEMMA RevokeFacts ==
    ASSUME NEW c \in OperationRecords, NEW m
    PROVE  /\ Loses(c, c) /\ Loses(c, RevokeDialog(c)) /\ Loses(c, RevokeMessage(c, m))
           /\ RevokeDialog(c).permit # "valid"
           /\ RevokeMessage(c, m).permit = "valid" => RevokeMessage(c, m).message # m
BY DEF OperationRecords, Loses, RevokeDialog, RevokeMessage

LEMMA LosesTwice ==
    ASSUME NEW c, NEW d, NEW e, Loses(c, d), Loses(d, e)
    PROVE  Loses(c, e)
BY DEF Loses

LEMMA DirtyFacts ==
    ASSUME NEW r \in ReconRecords
    PROVE  /\ Moves(r, Dirty(r)) /\ Dirty(r).generation = r.generation + 1
           /\ Dirty(r).coverage = "complete" <=> r.coverage = "complete"
           /\ Dirty(r).access = r.access /\ Dirty(r).blocked = r.blocked
           /\ Dirty(r).authorization = r.authorization
<1> DEFINE s == Dirty(r)
<1>1. s \in ReconRecords /\ s.snapshot = r.snapshot /\ s.generation = r.generation + 1
      /\ s.access = r.access /\ s.blocked = r.blocked /\ s.authorization = r.authorization
      /\ (s.coverage = "complete" <=> r.coverage = "complete")
      /\ s.coverage \in {"complete", "unknown"}
  <2>1. /\ r.repair \in {"none", "now", "later"} /\ r.discovery \in {"none", "now", "later"}
        /\ r.generation + 1 \in Nat
    BY DEF ReconRecords
  <2> DEFINE cov == IF r.coverage = "complete" THEN "complete" ELSE "unknown"
  <2>2. \E p, d \in {"none", "now", "later"} :
           s = [r EXCEPT !.generation = r.generation + 1, !.failing = FALSE, !.repair = p,
                         !.discovery = d, !.coverage = cov]
    BY <2>1, Zenon DEF Dirty
  <2>3. cov \in {"complete", "unknown"} /\ (cov = "complete" <=> r.coverage = "complete")
    OBVIOUS
  <2> HIDE DEF s, cov
  <2> QED BY <2>1, <2>2, <2>3 DEF ReconRecords
<1>2. /\ s.discovery \in {r.discovery, "now"} /\ s.repair \in {r.repair, "now"}
      /\ r.coverage = "unseeded" => s.discovery = "now"
      /\ (r.coverage \in {"unknown", "unsupported"} /\ r.discovery = "none") =>
           s.discovery = "now"
  BY DEF Dirty, ReconRecords
<1>3. DueHolds(r) => DueHolds(s)
  BY <1>1, <1>2 DEF DueHolds, ReconRecords
<1> QED BY <1>1, <1>3 DEF Moves, ReconRecords

LEMMA MarkDirtyFacts ==
    ASSUME NEW M \in MirrorRecords, NEW N, N = MarkDirty(M)
    PROVE  /\ N \in MirrorRecords /\ N.rows = M.rows /\ N.evidence = M.evidence
           /\ N.recon = Dirty(M.recon) /\ Loses(M.operation, N.operation)
<1>1. M.recon \in ReconRecords /\ M.operation \in OperationRecords
  BY DEF MirrorRecords
<1>2. Dirty(M.recon) \in ReconRecords
  BY <1>1, DirtyFacts DEF Moves
<1>3. RevokeDialog(M.operation) \in OperationRecords
  BY <1>1, RevokeFacts DEF Loses
<1> QED BY <1>1, <1>2, <1>3, RevokeFacts DEF MarkDirty, MirrorRecords

LEMMA MarkTouches ==
    ASSUME NEW M \in MirrorRecords, NEW m \in Messages, NEW L \in MirrorRecords,
           L.rows = [M.rows EXCEPT ![m] = L.rows[m]], L.recon = M.recon,
           Loses(M.operation, L.operation), L.operation.permit = "valid" =>
             L.operation.message # m
    PROVE  /\ Touches(M, MarkDirty(L), m) /\ MarkDirty(L).rows = L.rows
           /\ MarkDirty(L).evidence = L.evidence
<1> DEFINE N == MarkDirty(L)
<1>1. N \in MirrorRecords /\ N.rows = L.rows /\ N.evidence = L.evidence
      /\ N.recon = Dirty(M.recon) /\ Loses(L.operation, N.operation)
  BY MarkDirtyFacts
<1>2. M.recon \in ReconRecords
  BY DEF MirrorRecords
<1>3. Stands(M.recon, N.recon) /\ N.recon.generation > M.recon.generation
  BY <1>1, <1>2, DirtyFacts DEF Stands, ReconRecords
<1>4. Loses(M.operation, N.operation) /\ (N.operation.permit = "valid" => N.operation.message # m)
  BY <1>1, LosesTwice DEF Loses
<1> QED BY <1>1, <1>3, <1>4 DEF Touches

LEMMA RowChanged ==
    ASSUME NEW M \in MirrorRecords, NEW m \in Messages, NEW row \in RowRecords
    PROVE  LET L == WithRow(M, m, row)
           IN  /\ L \in MirrorRecords /\ L.rows = [M.rows EXCEPT ![m] = L.rows[m]]
               /\ L.rows[m] = row /\ L.recon = M.recon /\ L.evidence = M.evidence
               /\ Loses(M.operation, L.operation)
               /\ L.operation.permit = "valid" => L.operation.message # m
<1>1. M.operation \in OperationRecords
  BY DEF MirrorRecords
<1>2. /\ Loses(M.operation, RevokeMessage(M.operation, m))
      /\ RevokeMessage(M.operation, m).permit = "valid" =>
           RevokeMessage(M.operation, m).message # m
  BY <1>1, RevokeFacts
<1>3. RevokeMessage(M.operation, m) \in OperationRecords
  BY <1>2 DEF Loses
<1> QED BY <1>2, <1>3 DEF MirrorRecords, WithRow

\* An observed message is stored.
LEMMA UpsertFacts ==
    ASSUME NEW M \in MirrorRecords, NEW m \in Messages, NEW rev \in Nat, NEW o \in Nat,
           NEW N, N = Upsert(M, m, rev, o)
    PROVE  /\ ~ObservationCurrent(M, m, o) => N = M
           /\ ObservationCurrent(M, m, o) =>
                /\ Touches(M, N, m) /\ N.rows[m].order = o /\ N.evidence = M.evidence
                /\ N.rows[m].state = "scheduled" /\ N.rows[m].rev = rev
<1> DEFINE row == [state |-> "scheduled", order |-> o, rev |-> rev, hint |-> FALSE]
           L == WithRow(M, m, row)
<1>1. M.rows[m] \in RowRecords
  BY DEF MirrorRecords
<1>2. row \in RowRecords /\ row.order = o /\ row.state = "scheduled" /\ row.rev = rev
  BY <1>1 DEF RowRecords
<1>3. ObservationCurrent(M, m, o) => N = MarkDirty(L)
  BY DEF Upsert, WithRow
<1>4. ~ObservationCurrent(M, m, o) => N = M
  BY DEF Upsert
<1> HIDE DEF row
<1>5. /\ L \in MirrorRecords /\ L.rows = [M.rows EXCEPT ![m] = L.rows[m]]
      /\ L.rows[m] = row /\ L.recon = M.recon /\ L.evidence = M.evidence
      /\ Loses(M.operation, L.operation)
      /\ L.operation.permit = "valid" => L.operation.message # m
  BY <1>2, RowChanged
<1> HIDE DEF L
<1>6. Touches(M, MarkDirty(L), m) /\ MarkDirty(L).rows = L.rows
        /\ MarkDirty(L).evidence = L.evidence
  BY <1>5, MarkTouches
<1> QED BY <1>2, <1>3, <1>4, <1>5, <1>6

\* verify_scheduled_publication and the removal: a message is published when both are known.
LEMMA ReconciledFacts ==
    ASSUME NEW M \in MirrorRecords, NEW m \in Messages, NEW N, N = Reconciled(M, m)
    PROVE  \/ N = M
           \/ /\ Touches(M, N, m) /\ N.rows[m].order = M.rows[m].order /\ N.evidence = M.evidence
              /\ M.rows[m].state = "unknown_missing" /\ N.rows[m].state = "published"
              /\ m \in M.evidence
<1> DEFINE row == [M.rows[m] EXCEPT !.state = "published"]
           L == WithRow(M, m, row)
<1>1. M.rows[m] \in RowRecords
  BY DEF MirrorRecords
<1>2. row \in RowRecords /\ row.order = M.rows[m].order /\ row.state = "published"
  BY <1>1 DEF RowRecords
<1>3. \/ N = M
      \/ N = MarkDirty(L) /\ M.rows[m].state = "unknown_missing" /\ m \in M.evidence
  BY DEF Reconciled, WithRow
<1> HIDE DEF row
<1>5. /\ L \in MirrorRecords /\ L.rows = [M.rows EXCEPT ![m] = L.rows[m]]
      /\ L.rows[m] = row /\ L.recon = M.recon /\ L.evidence = M.evidence
      /\ Loses(M.operation, L.operation)
      /\ L.operation.permit = "valid" => L.operation.message # m
  BY <1>2, RowChanged
<1> HIDE DEF L
<1>6. Touches(M, MarkDirty(L), m) /\ MarkDirty(L).rows = L.rows
        /\ MarkDirty(L).evidence = L.evidence
  BY <1>5, MarkTouches
<1> QED BY <1>2, <1>3, <1>5, <1>6

LEMMA TouchesTwice ==
    ASSUME NEW M, NEW L, NEW N, NEW m, Touches(M, L, m), Touches(L, N, m),
           M \in MirrorRecords
    PROVE  Touches(M, N, m)
<1>1. /\ M.rows \in [Messages -> RowRecords] /\ L.rows \in [Messages -> RowRecords]
      /\ N.rows \in [Messages -> RowRecords]
      /\ M.recon \in ReconRecords /\ L.recon \in ReconRecords /\ N.recon \in ReconRecords
  BY DEF Touches, MirrorRecords
<1>2. N.rows = [M.rows EXCEPT ![m] = N.rows[m]]
  BY <1>1 DEF Touches
<1>3. Stands(M.recon, N.recon) /\ N.recon.generation > M.recon.generation
  BY <1>1 DEF Touches, Stands, Moves, ReconRecords
<1>4. Loses(M.operation, N.operation)
  BY LosesTwice DEF Touches
<1> QED BY <1>2, <1>3, <1>4 DEF Touches

\* verify_scheduled_publication
LEMMA VerifiedFacts ==
    ASSUME NEW M \in MirrorRecords, NEW m \in Messages, NEW N, N = Verified(M, m)
    PROVE  /\ N.evidence = M.evidence \cup {m} /\ N \in MirrorRecords
           /\ \/ N.rows = M.rows /\ N.recon = M.recon /\ N.operation = M.operation
              \/ /\ Touches(M, N, m) /\ N.rows[m].order = M.rows[m].order
                 /\ M.rows[m].state = "unknown_missing" /\ N.rows[m].state = "published"
<1> DEFINE L == [M EXCEPT !.evidence = @ \cup {m}]
<1>1. /\ L \in MirrorRecords /\ L.evidence = M.evidence \cup {m} /\ L.rows = M.rows
      /\ L.recon = M.recon /\ L.operation = M.operation
  BY DEF MirrorRecords
<1>2. N = Reconciled(L, m)
  BY DEF Verified
<1> HIDE DEF L
<1>3. \/ N = L
      \/ /\ Touches(L, N, m) /\ N.rows[m].order = L.rows[m].order /\ N.evidence = L.evidence
         /\ L.rows[m].state = "unknown_missing" /\ N.rows[m].state = "published"
  BY <1>1, <1>2, ReconciledFacts
<1>4. Touches(L, N, m) => Touches(M, N, m)
  BY <1>1 DEF Touches
<1> QED BY <1>1, <1>3, <1>4 DEF Touches

\* mark_scheduled_messages_removed
LEMMA RemovedFacts ==
    ASSUME NEW M \in MirrorRecords, NEW m \in Messages, NEW hint \in BOOLEAN, NEW o \in Nat,
           NEW N, N = Removed(M, m, hint, o)
    PROVE  /\ ~ObservationCurrent(M, m, o) => N = M
           /\ ObservationCurrent(M, m, o) =>
                /\ Touches(M, N, m) /\ N.rows[m].order = o /\ N.evidence = M.evidence
                /\ N.rows[m].state \in {"cancelled", "unknown_missing", "published"}
                /\ ~hint => N.rows[m].state = "cancelled"
                /\ N.rows[m].state = "published" => m \in M.evidence
<1> DEFINE row == [M.rows[m] EXCEPT !.state = IF hint THEN "unknown_missing" ELSE "cancelled",
                                    !.hint = M.rows[m].hint \/ hint]
           L == WithRow(M, m, row)
           K == IF hint THEN Reconciled(L, m) ELSE L
           J == [K EXCEPT !.rows = [K.rows EXCEPT ![m] = [K.rows[m] EXCEPT !.order = o]]]
<1>1. M.rows[m] \in RowRecords
  BY DEF MirrorRecords
<1>2. /\ row \in RowRecords
      /\ hint => row.state = "unknown_missing"
      /\ ~hint => row.state = "cancelled"
  <2>1. M.rows[m].hint \in BOOLEAN /\ (M.rows[m].hint \/ hint) \in BOOLEAN
    BY <1>1 DEF RowRecords
  <2>2. CASE hint
    BY <2>1, <2>2, <1>1 DEF RowRecords
  <2>3. CASE ~hint
    BY <2>1, <2>3, <1>1 DEF RowRecords
  <2> QED BY <2>2, <2>3
<1>3. ObservationCurrent(M, m, o) => N = MarkDirty(J)
  BY DEF Removed, WithRow
<1>4. ~ObservationCurrent(M, m, o) => N = M
  BY DEF Removed
<1> HIDE DEF row
<1>5. /\ L \in MirrorRecords /\ L.rows = [M.rows EXCEPT ![m] = L.rows[m]]
      /\ L.rows[m] = row /\ L.recon = M.recon /\ L.evidence = M.evidence
      /\ Loses(M.operation, L.operation)
      /\ L.operation.permit = "valid" => L.operation.message # m
  BY <1>2, RowChanged
<1> HIDE DEF L
<1>6. /\ K \in MirrorRecords /\ K.evidence = L.evidence
      /\ K = L \/ Touches(L, K, m)
      /\ K.rows[m].state \in {"cancelled", "unknown_missing", "published"}
      /\ ~hint => K.rows[m].state = "cancelled"
      /\ K.rows[m].state = "published" => m \in M.evidence
  <2>1. CASE ~hint
    BY <2>1, <1>2, <1>5
  <2>2. CASE hint
    <3>1. \/ K = L
          \/ /\ Touches(L, K, m) /\ K.evidence = L.evidence
             /\ K.rows[m].state = "published" /\ m \in L.evidence
      BY <2>2, <1>5, ReconciledFacts
    <3> QED BY <2>2, <3>1, <1>2, <1>5 DEF Touches
  <2> QED BY <2>1, <2>2
<1> HIDE DEF K
<1>7. /\ J \in MirrorRecords /\ J.evidence = K.evidence /\ J.recon = K.recon
      /\ J.operation = K.operation /\ J.rows = [K.rows EXCEPT ![m] = J.rows[m]]
      /\ J.rows[m].order = o /\ J.rows[m].state = K.rows[m].state
  <2>1. K.rows[m] \in RowRecords /\ K.rows \in [Messages -> RowRecords]
    BY <1>6 DEF MirrorRecords
  <2> DEFINE last == [K.rows[m] EXCEPT !.order = o]
  <2>2. last \in RowRecords /\ last.order = o /\ last.state = K.rows[m].state
    BY <2>1 DEF RowRecords
  <2> HIDE DEF last
  <2>3. J = [K EXCEPT !.rows = [K.rows EXCEPT ![m] = last]]
    BY DEF last
  <2> HIDE DEF J
  <2> QED BY <1>6, <2>1, <2>2, <2>3 DEF MirrorRecords
<1> HIDE DEF J
<1>8. Touches(M, MarkDirty(J), m) /\ MarkDirty(J).rows = J.rows
        /\ MarkDirty(J).evidence = J.evidence
  <2>1. CASE K = L
    <3>1. J.rows = [M.rows EXCEPT ![m] = J.rows[m]]
      <4>1. M.rows \in [Messages -> RowRecords] /\ J.rows \in [Messages -> RowRecords]
        BY <1>7 DEF MirrorRecords
      <4> QED BY <2>1, <4>1, <1>5, <1>7
    <3> QED BY <2>1, <3>1, <1>5, <1>7, MarkTouches
  <2>2. CASE Touches(L, K, m)
    <3>1. Touches(K, MarkDirty(J), m) /\ MarkDirty(J).rows = J.rows
          /\ MarkDirty(J).evidence = J.evidence
      <4>1. Loses(K.operation, J.operation)
            /\ (J.operation.permit = "valid" => J.operation.message # m)
        BY <2>2, <1>6, <1>7, RevokeFacts DEF Touches, MirrorRecords
      <4> QED BY <4>1, <1>6, <1>7, MarkTouches
    <3>2. Touches(L, MarkDirty(J), m)
      BY <3>1, <2>2, <1>5, TouchesTwice
    <3>3. Touches(M, MarkDirty(J), m)
      <4> DEFINE Q == MarkDirty(J)
      <4>1. /\ M.rows \in [Messages -> RowRecords] /\ L.rows \in [Messages -> RowRecords]
            /\ Q.rows \in [Messages -> RowRecords]
        BY <3>2, <1>5 DEF Touches, MirrorRecords
      <4>2. Q.rows = [M.rows EXCEPT ![m] = Q.rows[m]]
        BY <4>1, <3>2, <1>5 DEF Touches
      <4>3. Loses(M.operation, Q.operation)
        BY <3>2, <1>5, LosesTwice DEF Touches
      <4> HIDE DEF Q
      <4> QED BY <3>2, <4>2, <4>3, <1>5 DEF Touches, Q
    <3> QED BY <3>1, <3>3
  <2> QED BY <2>1, <2>2, <1>6
<1> QED BY <1>3, <1>4, <1>5, <1>6, <1>7, <1>8

-----------------------------------------------------------------------------
(* What leaves the parts of the invariant as they are *)

LEMMA NothingHeld ==
    /\ NoCommand \in OperationRecords /\ NoAttempt \in AttemptRecords({})
    /\ NoCommand.phase = "idle" /\ NoCommand.permit = "none" /\ NoCommand.order = 0
    /\ ~NoCommand.confirmed
    /\ NoAttempt.phase = "idle" /\ NoAttempt.order = 0 /\ NoAttempt.generation = 0
BY DEF NoCommand, NoAttempt, OperationRecords, AttemptRecords, CommandActions

LEMMA SameReconMoves ==
    ASSUME NEW r \in ReconRecords
    PROVE  Moves(r, r) /\ Stands(r, r)
BY DEF Moves, Stands, ReconRecords

LEMMA Fields ==
    ASSUME QueueTypeOK
    PROVE  /\ \A i \in DOMAIN updates : updates[i] \in UpdateRecords /\ updates[i].order \in Nat
           /\ DOMAIN updates = 1..Len(updates) /\ Len(updates) \in Nat
           /\ \A m \in Messages : rows[m] \in RowRecords /\ rows[m].order \in Nat
           /\ \A k \in OperationKeys : receipts[k] \in ReceiptRecords /\ receipts[k].order \in Nat
           /\ recon \in ReconRecords /\ recon.snapshot \in Nat /\ recon.generation \in Nat
           /\ operation \in OperationRecords /\ operation.order \in Nat
           /\ attempt.order \in Nat /\ attempt.generation \in Nat /\ order \in Nat
<1>1. /\ \A i \in DOMAIN updates : updates[i] \in UpdateRecords
      /\ DOMAIN updates = 1..Len(updates) /\ Len(updates) \in Nat
  BY DEF QueueTypeOK
<1>2. \A u \in UpdateRecords : u.order \in Nat
  BY DEF UpdateRecords
<1>3. /\ \A m \in Messages : rows[m] \in RowRecords /\ rows[m].order \in Nat
      /\ \A k \in OperationKeys : receipts[k] \in ReceiptRecords /\ receipts[k].order \in Nat
  BY DEF QueueTypeOK, RowRecords, ReceiptRecords
<1>4. /\ recon \in ReconRecords /\ recon.snapshot \in Nat /\ recon.generation \in Nat
      /\ operation \in OperationRecords /\ operation.order \in Nat
      /\ attempt.order \in Nat /\ attempt.generation \in Nat /\ order \in Nat
  BY DEF QueueTypeOK, ReconRecords, OperationRecords, AttemptRecords
<1> QED BY <1>1, <1>2, <1>3, <1>4

\* What is shown, or will be, is still shown, where a write that is not shown stays known.
LEMMA MirrorFrame ==
    ASSUME QueueTypeOK, MirrorKept, UNCHANGED <<server, updates, rows>>,
           Moves(recon, recon'), doubt => doubt', (lost /\ ~lost') =>
             recon'.coverage # "complete",
           \A m \in Messages :
              Exposed(m) => Exposed(m)' \/ doubt' \/ recon'.coverage # "complete",
           (boot' = "recovering" => InterruptedKeys' = {}) =>
              (boot = "recovering" => InterruptedKeys = {}) \/ recon'.coverage # "complete"
    PROVE  MirrorKept'
<1> SUFFICES ASSUME ~doubt', ~lost', recon'.coverage = "complete",
                    boot' = "recovering" => InterruptedKeys' = {}, NEW m \in Messages
             PROVE  Exposed(m)' \/ RowRight(m)'
  BY DEF MirrorKept
<1>1. Exposed(m) \/ RowRight(m)
  BY DEF MirrorKept, Moves, QueueTypeOK
<1>2. RowRight(m) => RowRight(m)'
  BY DEF RowRight, Comes, Last, Waits, After, Moves
<1> QED BY <1>1, <1>2

LEMMA AnswerFrame ==
    ASSUME QueueTypeOK, AttemptKept, AnswerKept, UNCHANGED <<server, updates, rows>>,
           attempt' = attempt \/ ~Captured',
           Moves(recon, recon'), doubt => doubt',
           (lost /\ ~lost') => recon'.generation > recon.generation,
           \A m \in Messages :
              Exposed(m) => Exposed(m)' \/ doubt' \/ recon'.generation > recon.generation
    PROVE  AnswerKept'
<1> SUFFICES ASSUME Unmoved', attempt'.phase = "answered", ~doubt', ~lost', NEW m \in Messages
             PROVE  Exposed(m)' \/ SnapshotRight(m)'
  BY DEF AnswerKept
<1>0. recon.generation \in Nat /\ recon'.generation \in Nat /\ attempt.generation \in Nat
  BY DEF QueueTypeOK, ReconRecords, AttemptRecords, Moves
<1>1. attempt' = attempt
  BY DEF Unmoved
<1>2. recon'.generation = recon.generation /\ Unmoved
  BY <1>0, <1>1 DEF Unmoved, AttemptKept, Moves, Captured
<1>3. Exposed(m) \/ SnapshotRight(m)
  BY <1>0, <1>1, <1>2 DEF AnswerKept, QueueTypeOK
<1>4. SnapshotRight(m) => SnapshotRight(m)'
  BY <1>1 DEF SnapshotRight, Comes, Last, Waits, After
<1> QED BY <1>0, <1>2, <1>3, <1>4

LEMMA TellFrame ==
    ASSUME UpdatesTell, UNCHANGED <<server, updates, rows, evidence>>, doubt => doubt'
    PROVE  UpdatesTell'
BY DEF UpdatesTell, Last, Waits, Tells

\* A permit outlives a change of the reconciliation state that keeps the queue open.
LEMMA PermitFrame ==
    ASSUME QueueTypeOK, OperationHeld, UNCHANGED <<rows, receipts, sends>>, boot' = boot,
           Loses(operation, operation'), recon'.snapshot = recon.snapshot,
           (operation'.permit = "valid" /\ OpenQueue(recon)) => OpenQueue(recon')
    PROVE  OperationHeld'
<1>1. (operation.permit = "valid" /\ operation'.permit = "valid") =>
        StateKnown(operation.message)' /\ VersionSeen(operation.message)' = operation'.version
  BY DEF OperationHeld, OpenQueue, StateKnown, VersionSeen, Available, Loses
<1> QED BY <1>1 DEF OperationHeld, Loses

-----------------------------------------------------------------------------
(* The steps that change the reconciliation state and no row *)

LEMMA RestsFacts ==
    ASSUME QueueTypeOK, AttemptRests
    PROVE  /\ \E D \in SUBSET Messages : attempt' \in AttemptRecords(D)
           /\ attempt' = attempt \/ ~Captured'
           /\ attempt'.order \in {0, attempt.order}
                /\ attempt'.generation \in {0, attempt.generation}
           /\ attempt'.phase # "idle" => attempt.phase # "idle"
<1>1. PICK D \in SUBSET Messages : attempt \in AttemptRecords(D)
  BY DEF QueueTypeOK
<1>2. CASE attempt' = attempt
  BY <1>1, <1>2
<1>3. CASE attempt' = NoAttempt
  BY <1>3, NothingHeld DEF Captured
<1>4. CASE attempt.phase = "excluding" /\ attempt' = [attempt EXCEPT !.phase = "selected"]
  <2>1. attempt' \in AttemptRecords(D) /\ attempt'.phase = "selected"
        /\ attempt'.order = attempt.order /\ attempt'.generation = attempt.generation
    BY <1>1, <1>4 DEF AttemptRecords
  <2> QED BY <2>1, <1>4 DEF Captured
<1> QED BY <1>2, <1>3, <1>4 DEF AttemptRests

\* What an attempt and the orders are after such a step
LEMMA RestFrame ==
    ASSUME QueueTypeOK, AttemptKept, OrdersGiven, AttemptRests, Moves(recon, recon'),
           UNCHANGED <<rows, updates, order>>, operation'.order \in {0, operation.order},
           boot' = boot \/ attempt'.phase = "idle",
           \A k \in OperationKeys :
              /\ receipts'[k].order = receipts[k].order
              /\ (Captured' /\ receipts'[k].outcome = "interrupted") =>
                    receipts[k].outcome = "interrupted",
           (attempt' = attempt /\ recon'.generation = recon.generation /\ Unmoved
              /\ attempt.order < operation'.order /\ OnTheWire') =>
                 recon'.coverage = "complete"
    PROVE  AttemptKept' /\ OrdersGiven'
<1>0. /\ recon.generation \in Nat /\ recon'.generation \in Nat /\ attempt.generation \in Nat
      /\ recon.snapshot \in Nat /\ attempt.order \in Nat /\ order \in Nat
      /\ operation.order \in Nat /\ recon'.snapshot = recon.snapshot
      /\ recon'.generation >= recon.generation
  BY DEF QueueTypeOK, ReconRecords, AttemptRecords, OperationRecords, Moves
<1>1. /\ attempt' = attempt \/ ~Captured'
      /\ attempt'.order \in {0, attempt.order} /\ attempt'.generation \in {0, attempt.generation}
      /\ attempt'.phase # "idle" => attempt.phase # "idle"
  BY RestsFacts
<1>2. OrdersGiven'
  BY <1>0, <1>1 DEF OrdersGiven
<1>3. (attempt'.phase # "idle" => boot' = "running") /\ attempt'.generation <= recon'.generation
  BY <1>0, <1>1 DEF AttemptKept
<1>4. Captured' => attempt' = attempt /\ Captured
  BY <1>1 DEF Captured
<1>5. Unmoved' => Unmoved /\ recon'.generation = recon.generation
  BY <1>0, <1>4 DEF Unmoved, AttemptKept
<1> QED BY <1>0, <1>2, <1>3, <1>4, <1>5 DEF AttemptKept, Unmoved

LEMMA ReconStep ==
    ASSUME QueueInv, parked' \in Nat \cup {-1}, AttemptRests, Moves(recon, recon'),
           Loses(operation, operation'),
           UNCHANGED <<server, updates, rows, evidence, receipts, order, boot, sends, doubt>>,
           lost' \in BOOLEAN,
           (lost /\ ~lost') =>
             recon'.generation > recon.generation /\ recon'.coverage # "complete",
           (attempt' = attempt /\ Captured /\ recon'.generation = recon.generation) =>
              (recon.coverage = "complete" => recon'.coverage = "complete"),
           (operation'.permit = "valid" /\ OpenQueue(recon)) => OpenQueue(recon')
    PROVE  QueueInv'
<1> USE DEF QueueInv
<1>1. QueueTypeOK'
  BY RestsFacts DEF QueueTypeOK, Moves, Loses
<1>2. /\ operation'.order = operation.order /\ operation'.phase = operation.phase
      /\ \A m : Exposed(m)' <=> Exposed(m)
      /\ (Written' <=> Written) /\ (OnTheWire' <=> OnTheWire)
  BY DEF Loses, Exposed, Written, OnTheWire, OfferNeeded
<1>3. AttemptKept' /\ OrdersGiven'
  <2>1. (attempt' = attempt /\ recon'.generation = recon.generation /\ Unmoved
           /\ attempt.order < operation'.order /\ OnTheWire') =>
              recon'.coverage = "complete"
    BY <1>2 DEF AttemptKept, Unmoved
  <2>2. \A k \in OperationKeys :
           /\ receipts'[k].order = receipts[k].order
           /\ (Captured' /\ receipts'[k].outcome = "interrupted") =>
                 receipts[k].outcome = "interrupted"
    OBVIOUS
  <2> QED BY <2>1, <2>2, <1>2, RestFrame
<1>4. UpdatesTell'
  BY TellFrame
<1>5. OperationHeld'
  BY PermitFrame DEF Moves
<1>6. WriteOrdered'
  <2>1. attempt'.order # 0 => attempt'.order = attempt.order
    BY RestsFacts
  <2>2. operation'.action = operation.action /\ operation'.message = operation.message
    BY DEF Loses
  <2>3. recon'.snapshot = recon.snapshot /\ (recon'.coverage = "complete" =>
          recon.coverage = "complete")
    BY DEF Moves
  <2> QED BY <1>2, <2>1, <2>2, <2>3 DEF WriteOrdered, Written, After, Waits, QueueTypeOK
<1>7. AnswerKept'
  BY <1>2, RestsFacts, AnswerFrame
<1>8. MirrorKept'
  BY <1>2, MirrorFrame DEF InterruptedKeys
<1>9. StartKept' /\ InterruptedIsRecovered'
  BY DEF StartKept, InterruptedIsRecovered, Moves, InterruptedKeys
<1>10. UnknownIsDue'
  <2>1. DueHolds(recon)'
    BY DueMeans DEF Moves, DueHolds
  <2>2. UnknownIsDue' <=> DueHolds(recon)'
    BY DueMeans, PTL
  <2> QED BY <2>1, <2>2
<1> QED BY <1>10, <1>1, <1>3, <1>4, <1>5, <1>6, <1>7, <1>8, <1>9

LEMMA MirrorIsTyped ==
    ASSUME QueueTypeOK
    PROVE  /\ Mirror \in MirrorRecords /\ Mirror.rows = rows /\ Mirror.evidence = evidence
           /\ Mirror.recon = recon /\ Mirror.operation = operation
BY DEF QueueTypeOK, Mirror, MirrorRecords

LEMMA ContinuityFacts ==
    ASSUME NEW M \in MirrorRecords, NEW N, N = ContinuityLost(M)
    PROVE  /\ N.rows = M.rows /\ N.evidence = M.evidence /\ Moves(M.recon, N.recon)
           /\ N.recon.generation > M.recon.generation /\ N.recon.coverage = "unknown"
           /\ N.operation = RevokeDialog(M.operation)
<1> DEFINE r == M.recon
           s == N.recon
<1>1. r \in ReconRecords
  BY DEF MirrorRecords
<1>2. /\ N.rows = M.rows /\ N.evidence = M.evidence /\ N.operation = RevokeDialog(M.operation)
      /\ s = [r EXCEPT !.discovery =
           IF r.coverage \in {"complete", "unseeded"} \/ r.discovery = "none"
                                     THEN "now" ELSE r.discovery,
                       !.generation = r.generation + 1, !.coverage = "unknown", !.failing = FALSE]
  BY DEF ContinuityLost, MirrorRecords
<1>3. PICK d \in {"now", "later"} :
         s = [r EXCEPT !.discovery = d, !.generation = r.generation + 1, !.coverage = "unknown",
                       !.failing = FALSE]
  <2>1. r.discovery \in {"none", "now", "later"}
    BY <1>1 DEF ReconRecords
  <2> HIDE DEF s, r
  <2> QED BY <1>2, <2>1, Zenon
<1> HIDE DEF r, s
<1>4. /\ s.discovery # "none" /\ s \in ReconRecords /\ s.snapshot = r.snapshot
      /\ s.generation > r.generation /\ s.generation >= r.generation /\ s.coverage = "unknown"
  <2>1. r.generation \in Nat /\ r.generation + 1 \in Nat /\ d \in {"none", "now", "later"}
    BY <1>1 DEF ReconRecords
  <2>2. /\ s.discovery # "none" /\ s \in ReconRecords /\ s.snapshot = r.snapshot
        /\ s.generation = r.generation + 1 /\ s.coverage = "unknown"
    BY <1>1, <1>3, <2>1 DEF ReconRecords
  <2> QED BY <2>1, <2>2
<1> QED BY <1>2, <1>4 DEF Moves, DueHolds, r, s

LEMMA AccessFacts ==
    ASSUME NEW M \in MirrorRecords, NEW N, N = AccessLost(M)
    PROVE  /\ N.rows = M.rows /\ N.evidence = M.evidence /\ Moves(M.recon, N.recon)
           /\ M.recon.coverage = "complete" <=> N.recon.coverage = "complete"
           /\ N.operation = RevokeDialog(M.operation)
<1> DEFINE r == M.recon
           s == N.recon
<1>1. r \in ReconRecords
  BY DEF MirrorRecords
<1>2. /\ N.rows = M.rows /\ N.evidence = M.evidence /\ N.operation = RevokeDialog(M.operation)
      /\ s = IF r.coverage = "unseeded" THEN [r EXCEPT !.access = FALSE]
             ELSE [r EXCEPT !.access = FALSE, !.generation = r.generation + 1,
                            !.authorization = TRUE,
                            !.discovery = IF r.discovery = "none" THEN "now" ELSE r.discovery]
  BY DEF AccessLost, MirrorRecords
<1>3. \/ s = [r EXCEPT !.access = FALSE]
      \/ \E d \in {"now", "later"} :
           s = [r EXCEPT !.access = FALSE, !.generation = r.generation + 1,
             !.authorization = TRUE,
                         !.discovery = d]
  <2>1. r.discovery \in {"none", "now", "later"}
    BY <1>1 DEF ReconRecords
  <2> HIDE DEF s, r
  <2> QED BY <1>2, <2>1, Zenon
<1> HIDE DEF r, s
<1>4. s \in ReconRecords /\ s.snapshot = r.snapshot /\ s.generation >= r.generation
      /\ s.coverage = r.coverage
  <2>1. r.generation \in Nat /\ r.generation + 1 \in Nat
    BY <1>1 DEF ReconRecords
  <2>2. s \in ReconRecords /\ s.snapshot = r.snapshot /\ s.coverage = r.coverage
        /\ s.generation \in {r.generation, r.generation + 1}
    <3>1. CASE s = [r EXCEPT !.access = FALSE]
      BY <1>1, <3>1 DEF ReconRecords
    <3>2. ASSUME NEW d \in {"now", "later"},
                 s = [r EXCEPT !.access = FALSE, !.generation = r.generation + 1,
                               !.authorization = TRUE, !.discovery = d]
          PROVE  /\ s \in ReconRecords /\ s.snapshot = r.snapshot /\ s.coverage = r.coverage
                 /\ s.generation = r.generation + 1
      BY <1>1, <2>1, <3>2 DEF ReconRecords
    <3> QED BY <1>3, <3>1, <3>2
  <2> QED BY <2>1, <2>2
<1>5. \/ s.discovery # "none"
      \/ /\ s.discovery = r.discovery /\ s.repair = r.repair /\ s.coverage = r.coverage
         /\ s.authorization = r.authorization
  BY <1>1, <1>3 DEF ReconRecords
<1> QED BY <1>2, <1>4, <1>5 DEF Moves, DueHolds, r, s

LEMMA GapStep ==
    ASSUME QueueInv, parked' \in Nat \cup {-1}, GapReported
    PROVE  QueueInv'
<1>1. QueueTypeOK /\ operation \in OperationRecords
  BY DEF QueueInv, QueueTypeOK
<1>2. PICK N : N = ContinuityLost(Mirror)
  OBVIOUS
<1>3. /\ N.rows = rows /\ N.evidence = evidence /\ Moves(recon, N.recon)
      /\ N.recon.generation > recon.generation /\ N.recon.coverage = "unknown"
      /\ N.operation = RevokeDialog(operation)
  BY <1>1, <1>2, ContinuityFacts, MirrorIsTyped
<1>4. /\ rows' = rows /\ evidence' = evidence /\ recon' = N.recon /\ operation' = N.operation
      /\ lost /\ ~lost' /\ lost' \in BOOLEAN
      /\ UNCHANGED <<server, updates, attempt, receipts, order, boot, sends, doubt>>
  BY <1>2, <1>3 DEF GapReported, Becomes
<1>5. Loses(operation, operation') /\ operation'.permit # "valid"
  BY <1>1, <1>3, <1>4, RevokeFacts
<1>6. recon'.generation # recon.generation
  BY <1>1, <1>3, <1>4 DEF Moves, ReconRecords, QueueTypeOK
<1> QED BY <1>3, <1>4, <1>5, <1>6, ReconStep DEF AttemptRests

LEMMA KickedStep ==
    ASSUME QueueInv, parked' \in Nat \cup {-1}, Kicked
    PROVE  QueueInv'
<1>1. QueueTypeOK /\ operation \in OperationRecords
  BY DEF QueueInv, QueueTypeOK
<1>2. PICK N : N = AccessLost(Mirror)
  OBVIOUS
<1>3. /\ N.rows = rows /\ N.evidence = evidence /\ Moves(recon, N.recon)
      /\ recon.coverage = "complete" <=> N.recon.coverage = "complete"
      /\ N.operation = RevokeDialog(operation)
  BY <1>1, <1>2, AccessFacts, MirrorIsTyped
<1>4. /\ rows' = rows /\ evidence' = evidence /\ recon' = N.recon /\ operation' = N.operation
      /\ UNCHANGED <<server, updates, lost, attempt, receipts, order, boot, sends, doubt>>
  BY <1>2, <1>3 DEF Kicked, Becomes
<1>5. Loses(operation, operation') /\ operation'.permit # "valid" /\ lost' \in BOOLEAN
  BY <1>1, <1>3, <1>4, RevokeFacts DEF QueueTypeOK
<1> QED BY <1>3, <1>4, <1>5, ReconStep DEF AttemptRests

LEMMA ReadmittedStep ==
    ASSUME QueueInv, parked' \in Nat \cup {-1}, Readmitted
    PROVE  QueueInv'
<1>1. QueueTypeOK /\ operation \in OperationRecords /\ recon \in ReconRecords /\ lost' \in BOOLEAN
  BY DEF QueueInv, QueueTypeOK, Readmitted
<1>2. /\ recon' \in ReconRecords /\ recon'.snapshot = recon.snapshot
      /\ recon'.generation = recon.generation /\ recon'.coverage = recon.coverage
      /\ recon'.repair = recon.repair /\ recon'.discovery = recon.discovery
      /\ recon'.authorization = recon.authorization /\ recon.generation \in Nat
  BY <1>1 DEF Readmitted, ReconRecords
<1>4. Moves(recon, recon')
  BY <1>2 DEF Moves, DueHolds
<1>3. ~OpenQueue(recon)
  BY DEF Readmitted, OpenQueue
<1> QED BY <1>1, <1>2, <1>3, <1>4, RevokeFacts, ReconStep DEF AttemptRests, Readmitted

LEMMA SeedStep ==
    ASSUME QueueInv, parked' \in Nat \cup {-1}, Seed
    PROVE  QueueInv'
<1>1. QueueTypeOK /\ operation \in OperationRecords /\ recon \in ReconRecords /\ lost' \in BOOLEAN
  BY DEF QueueInv, QueueTypeOK, Seed
<1>2. /\ recon' \in ReconRecords /\ recon'.snapshot = recon.snapshot
      /\ recon'.generation = recon.generation /\ recon'.coverage = "unknown"
      /\ recon'.discovery = "now" /\ recon.generation \in Nat
      /\ recon.coverage = "unseeded"
  BY <1>1 DEF Seed, ReconRecords
<1>4. Moves(recon, recon')
  BY <1>2 DEF Moves, DueHolds
<1>3. ~OpenQueue(recon)
  BY DEF Seed, OpenQueue
<1> QED BY <1>1, <1>2, <1>3, <1>4, RevokeFacts, ReconStep DEF AttemptRests, Seed

LEMMA DueStep ==
    ASSUME QueueInv, parked' \in Nat \cup {-1}, BecomesDue
    PROVE  QueueInv'
<1>1. QueueTypeOK /\ operation \in OperationRecords /\ recon \in ReconRecords /\ lost' \in BOOLEAN
  BY DEF QueueInv, QueueTypeOK, BecomesDue
<1>2. PICK p \in {"none", "now", "later"}, d \in {"none", "now", "later"} :
         /\ recon' = [recon EXCEPT !.repair = p, !.discovery = d]
         /\ p = "none" <=> recon.repair = "none"
         /\ d = "none" <=> recon.discovery = "none"
  <2>1. recon.repair \in {"none", "now", "later"} /\ recon.discovery \in {"none", "now", "later"}
    BY <1>1 DEF ReconRecords
  <2> DEFINE p == IF recon.repair = "later" THEN "now" ELSE recon.repair
             d == IF recon.discovery = "later" THEN "now" ELSE recon.discovery
  <2>2. /\ p \in {"none", "now", "later"} /\ d \in {"none", "now", "later"}
        /\ p = "none" <=> recon.repair = "none"
        /\ d = "none" <=> recon.discovery = "none"
    BY <2>1
  <2>3. recon' = [recon EXCEPT !.repair = p, !.discovery = d]
    BY DEF BecomesDue
  <2> HIDE DEF p, d
  <2> QED BY <2>2, <2>3
<1>3. recon' \in ReconRecords /\ recon'.snapshot = recon.snapshot
      /\ recon'.generation = recon.generation /\ recon'.coverage = recon.coverage
      /\ recon'.authorization = recon.authorization /\ recon'.access = recon.access
      /\ recon'.blocked = recon.blocked /\ recon'.repair = p /\ recon'.discovery = d
  BY <1>1, <1>2 DEF ReconRecords
<1>4. Moves(recon, recon') /\ (OpenQueue(recon) => OpenQueue(recon'))
  BY <1>1, <1>2, <1>3 DEF Moves, DueHolds, OpenQueue, ReconRecords
<1> QED BY <1>1, <1>3, <1>4, RevokeFacts, ReconStep DEF AttemptRests, BecomesDue

LEMMA PermissionStep ==
    ASSUME QueueInv, parked' \in Nat \cup {-1}, PermissionPublished
    PROVE  QueueInv'
<1>1. QueueTypeOK /\ operation \in OperationRecords /\ recon \in ReconRecords /\ lost' \in BOOLEAN
  BY DEF QueueInv, QueueTypeOK, PermissionPublished
<1>2. PICK denied \in BOOLEAN :
         Becomes([Mirror EXCEPT
            !.operation = RevokeDialog(operation),
            !.recon = IF recon.coverage = "unseeded"
                      THEN [recon EXCEPT !.coverage = "unknown", !.discovery = "now",
                                         !.blocked = denied]
                      ELSE [recon EXCEPT
                               !.blocked = denied, !.authorization = TRUE,
                               !.generation = @ + 1, !.failing = FALSE,
                               !.repair = IF recon.failing /\ @ # "none" THEN "now" ELSE @,
                               !.discovery =
                                   IF (recon.failing /\ recon.repair = "none") \/ @ = "none"
                                   THEN "now" ELSE @]])
  BY DEF PermissionPublished, Mirror
<1>3. /\ rows' = rows /\ evidence' = evidence /\ operation' = RevokeDialog(operation)
      /\ recon' = IF recon.coverage = "unseeded"
                  THEN [recon EXCEPT !.coverage = "unknown", !.discovery = "now",
                                     !.blocked = denied]
                  ELSE [recon EXCEPT
                           !.blocked = denied, !.authorization = TRUE,
                           !.generation = recon.generation + 1, !.failing = FALSE,
                           !.repair = IF recon.failing /\ recon.repair # "none" THEN "now"
                                      ELSE recon.repair,
                           !.discovery = IF (recon.failing /\ recon.repair = "none")
                                            \/ recon.discovery = "none"
                                         THEN "now" ELSE recon.discovery]
  BY <1>2 DEF Becomes, Mirror
<1>4. /\ recon.repair \in {"none", "now", "later"} /\ recon.discovery \in {"none", "now", "later"}
      /\ recon.generation \in Nat /\ recon.generation + 1 \in Nat
  BY <1>1 DEF ReconRecords
<1>5. \/ /\ recon.coverage = "unseeded"
         /\ recon' = [recon EXCEPT !.coverage = "unknown", !.discovery = "now",
              !.blocked = denied]
      \/ \E p \in {"none", "now", "later"}, d \in {"now", "later"} :
            recon' = [recon EXCEPT !.blocked = denied, !.authorization = TRUE,
                                   !.generation = recon.generation + 1, !.failing = FALSE,
                                   !.repair = p, !.discovery = d]
  BY <1>3, <1>4, Zenon
<1>6. /\ recon' \in ReconRecords /\ recon'.snapshot = recon.snapshot
      /\ recon'.generation \in {recon.generation, recon.generation + 1}
      /\ recon'.discovery # "none"
      /\ recon'.coverage = "complete" <=> recon.coverage = "complete"
  <2>1. CASE /\ recon.coverage = "unseeded"
             /\ recon' = [recon EXCEPT !.coverage = "unknown", !.discovery = "now",
                                       !.blocked = denied]
    BY <1>1, <1>4, <2>1 DEF ReconRecords
  <2>2. ASSUME NEW p \in {"none", "now", "later"}, NEW d \in {"now", "later"},
               recon' = [recon EXCEPT !.blocked = denied, !.authorization = TRUE,
                                      !.generation = recon.generation + 1, !.failing = FALSE,
                                      !.repair = p, !.discovery = d]
        PROVE  /\ recon' \in ReconRecords /\ recon'.snapshot = recon.snapshot
               /\ recon'.generation = recon.generation + 1
               /\ recon'.discovery # "none"
               /\ recon'.coverage = recon.coverage
    BY <1>1, <1>4, <2>2 DEF ReconRecords
  <2> QED BY <1>5, <2>1, <2>2
<1>7. Moves(recon, recon')
  BY <1>4, <1>6 DEF Moves, DueHolds
<1>8. Loses(operation, operation') /\ operation'.permit # "valid"
  BY <1>1, <1>3, RevokeFacts
<1> QED BY <1>1, <1>3, <1>6, <1>7, <1>8, ReconStep DEF AttemptRests, PermissionPublished

LEMMA ExcludedStep ==
    ASSUME QueueInv, parked' \in Nat \cup {-1}, FinishExcluded
    PROVE  QueueInv'
<1>1. QueueTypeOK /\ operation \in OperationRecords /\ recon \in ReconRecords /\ lost' \in BOOLEAN
  BY DEF QueueInv, QueueTypeOK, FinishExcluded
<1>2. CASE attempt' = [attempt EXCEPT !.phase = "selected"] /\ UNCHANGED <<mirror, operation>>
  BY <1>1, <1>2, RevokeFacts, SameReconMoves, ReconStep DEF AttemptRests, FinishExcluded, mirror
<1>3. CASE /\ Becomes([Mirror EXCEPT !.operation = RevokeDialog(operation),
                           !.recon = [recon EXCEPT !.repair = "none", !.discovery = "none",
                                                   !.coverage = "unsupported",
                                                     !.failing = FALSE]])
           /\ attempt' = NoAttempt
  <2>1. /\ rows' = rows /\ evidence' = evidence /\ operation' = RevokeDialog(operation)
        /\ recon' = [recon EXCEPT !.repair = "none", !.discovery = "none",
                                  !.coverage = "unsupported", !.failing = FALSE]
    BY <1>3 DEF Becomes, Mirror
  <2>2. /\ recon' \in ReconRecords /\ recon'.snapshot = recon.snapshot
        /\ recon'.generation = recon.generation /\ recon'.coverage = "unsupported"
        /\ recon.generation \in Nat
    BY <1>1, <2>1 DEF ReconRecords
  <2>3. Moves(recon, recon')
    BY <2>2 DEF Moves, DueHolds
  <2>4. Loses(operation, operation') /\ operation'.permit # "valid"
    BY <1>1, <2>1, RevokeFacts
  <2>5. ~(attempt' = attempt /\ Captured)
    BY <1>3, NothingHeld DEF Captured
  <2> QED BY <1>1, <1>3, <2>1, <2>3, <2>4, <2>5, ReconStep DEF AttemptRests, FinishExcluded
<1> QED BY <1>2, <1>3 DEF FinishExcluded, Mirror

LEMMA FailedStep ==
    ASSUME QueueInv, parked' \in Nat \cup {-1}, SnapshotFailed
    PROVE  QueueInv'
<1>1. QueueTypeOK /\ operation \in OperationRecords /\ recon \in ReconRecords /\ lost' \in BOOLEAN
      /\ Mirror \in MirrorRecords
  BY MirrorIsTyped DEF QueueInv, QueueTypeOK, SnapshotFailed
<1>2. /\ attempt' = NoAttempt
      /\ UNCHANGED <<server, updates, lost, receipts, order, boot, sends, doubt>>
  BY DEF SnapshotFailed
<1>3. ASSUME rows' = rows, evidence' = evidence, Moves(recon, recon'),
             Loses(operation, operation'),
             operation'.permit = "valid" => OpenQueue(recon') \/ ~OpenQueue(recon)
      PROVE  QueueInv'
  <2>1. ~(attempt' = attempt /\ Captured)
    BY <1>2, NothingHeld DEF Captured
  <2> QED BY <1>1, <1>2, <1>3, <2>1, ReconStep DEF AttemptRests
<1>4. CASE Becomes(AccessLost(Mirror))
  <2>1. PICK N : N = AccessLost(Mirror)
    OBVIOUS
  <2>2. /\ rows' = rows /\ evidence' = evidence /\ Moves(recon, recon')
        /\ operation' = RevokeDialog(operation)
    BY <1>1, <1>4, <2>1, AccessFacts, MirrorIsTyped DEF Becomes
  <2> QED BY <1>1, <1>3, <2>2, RevokeFacts
<1>5. CASE Becomes([Mirror EXCEPT !.operation = RevokeDialog(operation),
                        !.recon = [recon EXCEPT !.blocked = TRUE, !.failing = TRUE,
                                                !.generation = recon.generation + 1]])
  <2>1. /\ rows' = rows /\ evidence' = evidence /\ operation' = RevokeDialog(operation)
        /\ recon' = [recon EXCEPT !.blocked = TRUE, !.failing = TRUE,
                                  !.generation = recon.generation + 1]
    BY <1>5 DEF Becomes, Mirror
  <2>2. recon.generation \in Nat /\ recon.generation + 1 \in Nat
    BY <1>1 DEF ReconRecords
  <2>3. /\ recon' \in ReconRecords /\ recon'.snapshot = recon.snapshot
        /\ recon'.generation = recon.generation + 1 /\ recon'.coverage = recon.coverage
        /\ recon'.authorization = recon.authorization /\ recon'.repair = recon.repair
        /\ recon'.discovery = recon.discovery
    BY <1>1, <2>1, <2>2 DEF ReconRecords
  <2>4. Moves(recon, recon')
    BY <2>2, <2>3 DEF Moves, DueHolds
  <2> QED BY <1>1, <1>3, <2>1, <2>4, RevokeFacts
<1>6. ASSUME NEW r \in ReconRecords, Becomes([Mirror EXCEPT !.recon = r]),
             r.snapshot = recon.snapshot, r.generation = recon.generation,
             r.coverage = recon.coverage, r.authorization = recon.authorization,
             r.access = recon.access, r.blocked = recon.blocked,
             recon.repair = "none" \/ r.repair # "none",
             recon.discovery = "none" \/ r.discovery # "none"
      PROVE  QueueInv'
  <2>1. /\ rows' = rows /\ evidence' = evidence /\ operation' = operation /\ recon' = r
    BY <1>6 DEF Becomes, Mirror
  <2>2. recon.generation \in Nat
    BY <1>1 DEF ReconRecords
  <2>3. Moves(recon, recon') /\ (OpenQueue(recon) => OpenQueue(recon'))
    BY <1>6, <2>1, <2>2 DEF Moves, OpenQueue, DueHolds
  <2> QED BY <1>1, <1>3, <2>1, <2>3, RevokeFacts
<1>7. CASE Becomes([Mirror EXCEPT !.recon = IF attempt.discovery
                         THEN [recon EXCEPT !.discovery = "later", !.failing = TRUE]
                         ELSE [recon EXCEPT !.repair = "later", !.failing = TRUE]])
  <2>1. CASE attempt.discovery
    <3> DEFINE r == [recon EXCEPT !.discovery = "later", !.failing = TRUE]
    <3>1. /\ r \in ReconRecords /\ r.snapshot = recon.snapshot /\ r.generation = recon.generation
          /\ r.coverage = recon.coverage /\ r.authorization = recon.authorization
          /\ r.access = recon.access /\ r.blocked = recon.blocked /\ r.repair = recon.repair
          /\ r.discovery = "later"
      BY <1>1 DEF ReconRecords
    <3>2. Becomes([Mirror EXCEPT !.recon = r])
      BY <1>7, <2>1
    <3> HIDE DEF r
    <3> QED BY <1>6, <3>1, <3>2
  <2>2. CASE ~attempt.discovery
    <3> DEFINE r == [recon EXCEPT !.repair = "later", !.failing = TRUE]
    <3>1. /\ r \in ReconRecords /\ r.snapshot = recon.snapshot /\ r.generation = recon.generation
          /\ r.coverage = recon.coverage /\ r.authorization = recon.authorization
          /\ r.access = recon.access /\ r.blocked = recon.blocked /\ r.repair = "later"
          /\ r.discovery = recon.discovery
      BY <1>1 DEF ReconRecords
    <3>2. Becomes([Mirror EXCEPT !.recon = r])
      BY <1>7, <2>2
    <3> HIDE DEF r
    <3> QED BY <1>6, <3>1, <3>2
  <2> QED BY <2>1, <2>2
<1>8. CASE Becomes([Mirror EXCEPT !.recon.failing = FALSE])
  <2> DEFINE r == [recon EXCEPT !.failing = FALSE]
  <2>1. /\ r \in ReconRecords /\ r.snapshot = recon.snapshot /\ r.generation = recon.generation
        /\ r.coverage = recon.coverage /\ r.authorization = recon.authorization
        /\ r.access = recon.access /\ r.blocked = recon.blocked /\ r.repair = recon.repair
        /\ r.discovery = recon.discovery
    BY <1>1 DEF ReconRecords
  <2>2. Becomes([Mirror EXCEPT !.recon = r])
    BY <1>8 DEF Becomes, Mirror
  <2> HIDE DEF r
  <2> QED BY <1>6, <2>1, <2>2
<1>9. CASE UNCHANGED <<mirror, operation>>
  BY <1>1, <1>3, <1>9, RevokeFacts, SameReconMoves DEF mirror
<1> QED BY <1>4, <1>5, <1>7, <1>8, <1>9 DEF SnapshotFailed, Mirror

-----------------------------------------------------------------------------
(* The steps of the reconciler before it applies *)

LEMMA AttemptStep ==
    ASSUME QueueInv, parked' \in Nat \cup {-1},
           UNCHANGED <<server, updates, lost, rows, evidence, recon, operation, receipts, boot,
                       sends, doubt>>,
           order' \in {order, order + 1}, boot = "running",
           \E D \in SUBSET Messages : attempt' \in AttemptRecords(D),
           attempt'.generation <= recon.generation,
           attempt'.order <= order', attempt'.order \in {0, attempt.order, order + 1},
           Captured' => (Captured /\ attempt'.order = attempt.order
                           /\ attempt'.generation = attempt.generation)
                        \/ attempt'.order = order + 1,
           AnswerKept'
    PROVE  QueueInv'
<1> USE DEF QueueInv
<1>1. QueueTypeOK' /\ order \in Nat /\ operation.order \in Nat
  BY DEF QueueTypeOK, OperationRecords
<1>2. OrdersGiven'
  BY Fields DEF OrdersGiven
<1>3. UpdatesTell' /\ StartKept' /\ UnknownIsDue' /\ InterruptedIsRecovered'
  BY TellFrame DEF StartKept, UnknownIsDue, InterruptedIsRecovered, InterruptedKeys
<1>4. OperationHeld'
  BY DEF OperationHeld, StateKnown, VersionSeen, Available
<1>5. WriteOrdered'
  <2>1. operation.order # order + 1
    BY <1>1 DEF OrdersGiven
  <2> QED BY <1>1, <2>1 DEF WriteOrdered, Written, After, Waits
<1>6. AttemptKept'
  <2>1. /\ \A m \in Messages : rows[m].order < order + 1
        /\ \A k \in OperationKeys : receipts[k].order < order + 1
        /\ recon.snapshot < order + 1 /\ ~(order + 1 < operation.order)
    BY Fields DEF OrdersGiven
  <2> QED BY <2>1 DEF AttemptKept, Unmoved, OnTheWire
<1>7. MirrorKept'
  BY MirrorFrame, SameReconMoves DEF QueueTypeOK, Exposed, Written, OfferNeeded, InterruptedKeys
<1> QED BY <1>1, <1>2, <1>3, <1>4, <1>5, <1>6, <1>7

LEMMA ExcludingStep ==
    ASSUME QueueInv, parked' \in Nat \cup {-1}, Excluding
    PROVE  QueueInv'
<1>1. QueueTypeOK /\ recon.generation \in Nat /\ order \in Nat
  BY DEF QueueInv, QueueTypeOK, ReconRecords
<1>2. /\ attempt' \in AttemptRecords({}) /\ attempt'.phase = "excluding" /\ attempt'.order = 0
      /\ attempt'.generation = recon.generation
  BY <1>1, NothingHeld DEF Excluding, AttemptRecords
<1>3. AnswerKept' /\ ~Captured'
  BY <1>2 DEF AnswerKept, Captured
<1> QED BY <1>1, <1>2, <1>3, AttemptStep DEF Excluding, mirror

LEMMA CaptureStep ==
    ASSUME QueueInv, parked' \in Nat \cup {-1}, NEW a,
           NEW D \in SUBSET Messages, a \in AttemptRecords(D), Capture(a),
           a.generation <= recon.generation, boot = "running",
           UNCHANGED <<server, updates, lost, mirror, operation, receipts, boot, sends, doubt>>
    PROVE  QueueInv'
<1>1. QueueTypeOK /\ recon \in ReconRecords /\ order \in Nat /\ order + 1 \in Nat
  BY DEF QueueInv, QueueTypeOK
<1>2. /\ attempt' \in AttemptRecords(D) /\ attempt'.phase = "away" /\ attempt'.order = order + 1
      /\ attempt'.generation = a.generation /\ order' = order + 1
  BY <1>1 DEF Capture, AttemptRecords, ReconRecords
<1>3. AnswerKept'
  BY <1>2 DEF AnswerKept
<1> QED BY <1>1, <1>2, <1>3, AttemptStep DEF mirror

LEMMA SelectStep ==
    ASSUME QueueInv, parked' \in Nat \cup {-1}, Select
    PROVE  QueueInv'
<1> DEFINE a == [NoAttempt EXCEPT !.generation = recon.generation,
                                  !.discovery = recon.repair = "none"]
<1>1. QueueTypeOK /\ recon.generation \in Nat
  BY DEF QueueInv, QueueTypeOK, ReconRecords
<1>2. a \in AttemptRecords({}) /\ a.generation = recon.generation
  <2>1. (recon.repair = "none") \in BOOLEAN
    OBVIOUS
  <2> QED BY <1>1, <2>1, NothingHeld DEF AttemptRecords
<1>3. Capture(a)
  BY DEF Select
<1> HIDE DEF a
<1> QED BY <1>1, <1>2, <1>3, CaptureStep DEF Select

LEMMA CaptureKeptStep ==
    ASSUME QueueInv, parked' \in Nat \cup {-1}, CaptureKept
    PROVE  QueueInv'
<1>1. QueueTypeOK /\ boot = "running" /\ attempt.generation <= recon.generation
      /\ operation \in OperationRecords /\ lost \in BOOLEAN
  BY DEF QueueInv, QueueTypeOK, AttemptKept, CaptureKept
<1>2. PICK D \in SUBSET Messages : attempt \in AttemptRecords(D)
  BY <1>1 DEF QueueTypeOK
<1>3. CASE Capture(attempt)
  BY <1>1, <1>2, <1>3, CaptureStep DEF CaptureKept
<1>4. CASE attempt' = NoAttempt /\ UNCHANGED order
  BY <1>1, <1>4, RevokeFacts, SameReconMoves, ReconStep
       DEF AttemptRests, CaptureKept, mirror, QueueTypeOK
<1> QED BY <1>3, <1>4 DEF CaptureKept

LEMMA ReadStep ==
    ASSUME QueueInv, parked' \in Nat \cup {-1}, Read
    PROVE  QueueInv'
<1> DEFINE S == [m \in {x \in Messages : server[x].state = "scheduled"} |-> server[m].rev]
<1>1. /\ QueueTypeOK /\ boot = "running" /\ attempt.generation <= recon.generation
      /\ order \in Nat /\ attempt.order <= order
  BY DEF QueueInv, QueueTypeOK, AttemptKept, Read, OrdersGiven
<1>2. PICK D \in SUBSET Messages : attempt \in AttemptRecords(D)
  BY <1>1 DEF QueueTypeOK
<1>3. /\ DOMAIN S = {x \in Messages : server[x].state = "scheduled"}
           /\ DOMAIN S \subseteq Messages
      /\ \A m \in DOMAIN S : S[m] = server[m].rev
      /\ S \in [DOMAIN S -> Nat]
  BY <1>1 DEF QueueTypeOK, ServerRecords
<1>4. /\ attempt' = [attempt EXCEPT !.phase = "answered", !.snapshot = S]
      /\ attempt.phase = "away"
      /\ UNCHANGED <<server, updates, lost, rows, evidence, recon, operation, receipts, order,
                     boot, sends, doubt>>
  BY DEF Read, mirror
<1> HIDE DEF S
<1>5. /\ attempt' \in AttemptRecords(DOMAIN S) /\ attempt'.order = attempt.order
      /\ attempt'.generation = attempt.generation /\ attempt'.snapshot = S
  BY <1>2, <1>3, <1>4 DEF AttemptRecords
<1>6. \A m \in Messages : SnapshotRight(m)'
  BY <1>3, <1>4, <1>5 DEF SnapshotRight
<1>7. AnswerKept'
  BY <1>6 DEF AnswerKept
<1>8. Captured
  BY <1>4 DEF Captured
<1> QED BY <1>1, <1>3, <1>4, <1>5, <1>7, <1>8, AttemptStep

-----------------------------------------------------------------------------
(* The steps of a command that change no mirror *)

LEMMA OperationStep ==
    ASSUME QueueInv, parked' \in Nat \cup {-1}, operation.phase # "idle",
           UNCHANGED <<server, updates, lost, rows, evidence, recon, attempt, order, boot>>,
           operation' \in OperationRecords, operation'.permit # "none" <=>
             operation'.phase = "permitted",
           sends' \in [OperationKeys -> Nat], receipts' \in [OperationKeys -> ReceiptRecords],
           \A k \in OperationKeys :
              /\ receipts'[k].order = receipts[k].order
              /\ receipts'[k].outcome = "interrupted" => receipts[k].outcome = "interrupted",
           doubt' \in BOOLEAN, doubt => doubt',
           operation'.order \in {0, operation.order},
           operation'.phase \in OrderedPhases =>
              operation.phase \in OrderedPhases /\ operation'.order = operation.order,
           Written' => Written /\ operation'.message = operation.message
                               /\ operation'.action = operation.action,
           OnTheWire' => OnTheWire \/ recon.coverage = "complete" \/ operation'.order = 0,
           \A m \in Messages : Exposed(m) => Exposed(m)' \/ doubt',
           OperationHeld'
    PROVE  QueueInv'
<1> USE DEF QueueInv
<1>1. QueueTypeOK'
  BY DEF QueueTypeOK
<1>2. boot = "running" /\ boot' = "running"
  BY DEF OperationHeld
<1>3. OrdersGiven' /\ AttemptKept'
  <2>1. (attempt.order < operation'.order /\ OnTheWire' /\ Unmoved) => recon.coverage = "complete"
    BY Fields DEF AttemptKept
  <2>2. Moves(recon, recon')
    BY Fields, SameReconMoves
  <2> QED BY <2>1, <2>2, RestFrame DEF AttemptRests
<1>4. UpdatesTell'
  BY TellFrame
<1>5. WriteOrdered'
  BY DEF WriteOrdered, Written, After, Waits, OrderedPhases
<1>6. AnswerKept'
  BY Fields, SameReconMoves, AnswerFrame
<1>7. MirrorKept'
  BY <1>2, Fields, SameReconMoves, MirrorFrame
<1>8. StartKept' /\ UnknownIsDue' /\ InterruptedIsRecovered'
  BY <1>2 DEF StartKept, UnknownIsDue, InterruptedIsRecovered
<1> QED BY <1>1, <1>3, <1>4, <1>5, <1>6, <1>7, <1>8

\* An outcome that is known
LEMMA EndedFacts ==
    ASSUME operation \in OperationRecords, operation.phase # "idle",
           NEW result \in {"acknowledged", "rejected", "unknown"}, NEW c, c = EndedWith(result)
    PROVE  /\ c \in OperationRecords /\ c.phase = "finishing" /\ c.permit = "none" /\ c.order = 0
           /\ c.result = result /\ c.key = operation.key /\ c.message = operation.message
           /\ c.sent = operation.sent /\ c.confirmed = operation.confirmed
BY DEF EndedWith, OperationRecords

\* A command that ends leaves a write behind only where it says so.
LEMMA EndStep ==
    ASSUME QueueInv, parked' \in Nat \cup {-1},
           NEW result \in {"acknowledged", "rejected", "unknown"},
           operation.phase \in {"admitting", "permitted", "sent", "handled", "applying"},
           operation' = EndedWith(result),
           result = "rejected" => ~Written,
           UNCHANGED <<server, updates, lost, rows, evidence, recon, attempt, receipts, order,
             boot,
                       sends, doubt>>
    PROVE  QueueInv'
<1>1. QueueTypeOK /\ operation \in OperationRecords /\ OperationHeld
  BY DEF QueueInv, QueueTypeOK
<1>2. /\ operation' \in OperationRecords /\ operation'.phase = "finishing"
      /\ operation'.permit = "none" /\ operation'.order = 0
      /\ operation'.result = result /\ operation'.key = operation.key
      /\ operation'.message = operation.message
      /\ operation'.sent = operation.sent /\ operation'.confirmed = operation.confirmed
  BY <1>1, EndedFacts
<1>3. ~operation.confirmed
  BY <1>1 DEF OperationHeld
<1>4. Written => operation.sent
  BY <1>1 DEF OperationHeld, Written
<1>5. \A m \in Messages : Exposed(m) => Exposed(m)'
  BY <1>2, <1>3, <1>4 DEF Exposed, OfferNeeded, Written
<1>6. OperationHeld'
  BY <1>1, <1>2 DEF OperationHeld
<1> QED BY <1>1, <1>2, <1>5, <1>6, OperationStep DEF QueueTypeOK, Written, OrderedPhases

LEMMA RefuseStep ==
    ASSUME QueueInv, parked' \in Nat \cup {-1}, Refuse
    PROVE  QueueInv'
<1>1. QueueTypeOK /\ OperationHeld
  BY DEF QueueInv
<1>2. /\ operation.phase = "reading" /\ operation' = NoCommand
      /\ UNCHANGED <<server, updates, lost, rows, evidence, recon, attempt, receipts, order, boot,
                     sends, doubt>>
  BY DEF Refuse, mirror
<1>3. OperationHeld'
  BY <1>1, <1>2, NothingHeld DEF OperationHeld
<1>4. \A m \in Messages : ~Exposed(m)
  BY <1>2 DEF Exposed, Written
<1> QED BY <1>1, <1>2, <1>3, <1>4, NothingHeld, OperationStep
       DEF QueueTypeOK, Written, OrderedPhases, OnTheWire

LEMMA VerifyStep ==
    ASSUME QueueInv, parked' \in Nat \cup {-1}, Verify
    PROVE  QueueInv'
<1>1. QueueTypeOK /\ OperationHeld /\ operation \in OperationRecords
  BY DEF QueueInv, QueueTypeOK
<1>2. PICK a \in CommandActions, m \in Messages \cup {Unset} :
         /\ (a = "create") = (m = Unset)
         /\ operation' = [operation EXCEPT !.phase = "preparing", !.action = a, !.message = m,
                                           !.version = VersionSeen(m)]
  BY DEF Verify
<1>3. /\ operation.phase = "reading"
      /\ UNCHANGED <<server, updates, lost, rows, evidence, recon, attempt, receipts, order, boot,
                     sends, doubt>>
  BY DEF Verify, mirror
<1>4. VersionSeen(m) \in Nat
  BY <1>1, Fields DEF VersionSeen
<1>5. /\ operation' \in OperationRecords /\ operation'.phase = "preparing"
      /\ operation'.permit = operation.permit /\ operation'.order = operation.order
      /\ operation'.key = operation.key /\ operation'.action = a /\ operation'.message = m
      /\ operation'.confirmed = operation.confirmed
  BY <1>1, <1>2, <1>4 DEF OperationRecords
<1>6. operation.permit = "none"
  BY <1>1, <1>3 DEF QueueTypeOK
<1>7. OperationHeld'
  BY <1>1, <1>2, <1>3, <1>5, <1>6 DEF OperationHeld
<1>8. \A x \in Messages : ~Exposed(x)
  BY <1>3 DEF Exposed, Written
<1> QED BY <1>1, <1>3, <1>5, <1>6, <1>7, <1>8, OperationStep
       DEF QueueTypeOK, Written, OrderedPhases, OnTheWire

LEMMA RevalidateStep ==
    ASSUME QueueInv, parked' \in Nat \cup {-1}, Revalidate
    PROVE  QueueInv'
<1>1. QueueTypeOK /\ OperationHeld /\ operation \in OperationRecords
  BY DEF QueueInv, QueueTypeOK
<1>2. /\ operation.phase = "admitting"
      /\ UNCHANGED <<server, updates, lost, rows, evidence, recon, attempt, receipts, order, boot,
                     sends, doubt>>
  BY DEF Revalidate, mirror
<1>3. CASE /\ StateKnown(operation.message) /\ VersionSeen(operation.message) = operation.version
           /\ operation' = [operation EXCEPT !.phase = "permitted", !.permit = "valid"]
  <2>1. /\ operation' \in OperationRecords /\ operation'.phase = "permitted"
        /\ operation'.permit = "valid" /\ operation'.order = operation.order
        /\ operation'.key = operation.key /\ operation'.message = operation.message
        /\ operation'.action = operation.action /\ operation'.version = operation.version
        /\ operation'.confirmed = operation.confirmed
    BY <1>1, <1>3 DEF OperationRecords
  <2>2. recon.coverage = "complete"
    BY <1>3 DEF StateKnown
  <2>3. StateKnown(operation.message)' /\ VersionSeen(operation.message)' = operation'.version
    BY <1>2, <1>3, <2>1 DEF StateKnown, VersionSeen, Available
  <2>4. OperationHeld'
    BY <1>1, <1>2, <2>1, <2>3 DEF OperationHeld
  <2>5. \A m \in Messages : ~Exposed(m)
    BY <1>2 DEF Exposed, Written
  <2> QED BY <1>1, <1>2, <2>1, <2>2, <2>4, <2>5, OperationStep DEF QueueTypeOK, Written, OrderedPhases
<1>4. CASE operation' = EndedWith("rejected")
  BY <1>2, <1>4, EndStep DEF Written
<1> QED BY <1>3, <1>4 DEF Revalidate

LEMMA RefusedStep ==
    ASSUME QueueInv, parked' \in Nat \cup {-1}, GateRefuses
    PROVE  QueueInv'
<1>1. QueueTypeOK /\ OperationHeld /\ operation \in OperationRecords
  BY DEF QueueInv, QueueTypeOK
<1>2. UNCHANGED <<server, updates, lost, rows, evidence, recon, attempt, receipts, order, boot,
                  sends, doubt>>
  BY DEF GateRefuses, mirror
<1>3. CASE operation.phase \in {"admitting", "permitted"} /\ operation' = EndedWith("rejected")
  BY <1>2, <1>3, EndStep DEF Written
<1>4. CASE /\ operation.phase = "permitted"
           /\ operation' = [operation EXCEPT !.phase = "admitting", !.permit = "none"]
  <2>1. /\ operation' \in OperationRecords /\ operation'.phase = "admitting"
        /\ operation'.permit = "none" /\ operation'.order = operation.order
        /\ operation'.key = operation.key /\ operation'.message = operation.message
        /\ operation'.action = operation.action /\ operation'.confirmed = operation.confirmed
    BY <1>1, <1>4 DEF OperationRecords
  <2>2. OperationHeld'
    BY <1>1, <1>2, <1>4, <2>1 DEF OperationHeld
  <2>3. \A m \in Messages : ~Exposed(m)
    BY <1>4 DEF Exposed, Written
  <2> QED BY <1>1, <1>2, <1>4, <2>1, <2>2, <2>3, OperationStep
         DEF QueueTypeOK, Written, OrderedPhases, OnTheWire
<1> QED BY <1>3, <1>4 DEF GateRefuses

LEMMA ClaimStep ==
    ASSUME QueueInv, parked' \in Nat \cup {-1}, ClaimSend
    PROVE  QueueInv'
<1>1. QueueTypeOK /\ OperationHeld /\ operation \in OperationRecords
  BY DEF QueueInv, QueueTypeOK
<1>2. /\ operation.phase = "permitted"
      /\ UNCHANGED <<server, updates, lost, rows, evidence, recon, attempt, receipts, order, boot,
                     doubt>>
  BY DEF ClaimSend, mirror
<1>3. CASE /\ operation' = [operation EXCEPT !.phase = "sent", !.permit = "none", !.sent = TRUE]
           /\ sends' = [sends EXCEPT ![operation.key] =
                           IF sends[operation.key] < 2 THEN sends[operation.key] + 1
                           ELSE sends[operation.key]]
  <2>1. /\ operation' \in OperationRecords /\ operation'.phase = "sent"
        /\ operation'.permit = "none" /\ operation'.order = operation.order
        /\ operation'.key = operation.key /\ operation'.message = operation.message
        /\ operation'.action = operation.action /\ operation'.confirmed = operation.confirmed
        /\ operation'.sent
    BY <1>1, <1>3 DEF OperationRecords
  <2>2. operation.key \in OperationKeys /\ sends[operation.key] = 0
        /\ receipts[operation.key].outcome = "pending"
    BY <1>1, <1>2 DEF OperationHeld
  <2>3. sends' = [sends EXCEPT ![operation.key] = 1] /\ sends \in [OperationKeys -> Nat]
    BY <1>1, <1>3, <2>2 DEF QueueTypeOK
  <2>4. sends' \in [OperationKeys -> Nat]
    BY <2>3
  <2>5. OperationHeld'
    <3>1. \A k \in OperationKeys : sends'[k] <= 1 /\ (receipts'[k].outcome = "none" =>
            sends'[k] = 0)
      BY <1>1, <1>2, <2>2, <2>3 DEF OperationHeld
    <3> QED BY <1>1, <1>2, <2>1, <3>1 DEF OperationHeld
  <2>6. \A m \in Messages : ~Exposed(m)
    BY <1>2 DEF Exposed, Written
  <2> QED BY <1>1, <1>2, <2>1, <2>4, <2>5, <2>6, OperationStep
         DEF QueueTypeOK, Written, OrderedPhases, OnTheWire
<1>4. CASE operation' = EndedWith("rejected") /\ UNCHANGED sends
  BY <1>2, <1>4, EndStep DEF Written
<1> QED BY <1>3, <1>4 DEF ClaimSend

LEMMA AnswerStep ==
    ASSUME QueueInv, parked' \in Nat \cup {-1}, AnswerArrives
    PROVE  QueueInv'
<1>1. QueueTypeOK /\ OperationHeld /\ operation \in OperationRecords
  BY DEF QueueInv, QueueTypeOK
<1>2. UNCHANGED <<server, updates, lost, rows, evidence, recon, attempt, receipts, order, boot,
                  sends, doubt>>
  BY DEF AnswerArrives, mirror
<1>3. CASE /\ operation.phase = "handled" /\ operation.reply = "refused"
           /\ operation' = EndedWith("rejected")
  BY <1>2, <1>3, EndStep DEF Written
<1>4. CASE /\ operation.phase = "handled" /\ operation.reply = "applied"
           /\ operation' = [operation EXCEPT !.phase = "applying", !.result = "acknowledged"]
  <2>1. /\ operation' \in OperationRecords /\ operation'.phase = "applying"
        /\ operation'.permit = operation.permit /\ operation'.order = operation.order
        /\ operation'.key = operation.key /\ operation'.message = operation.message
        /\ operation'.action = operation.action /\ operation'.confirmed = operation.confirmed
        /\ operation'.sent = operation.sent
    BY <1>1, <1>4 DEF OperationRecords
  <2>2. operation.permit = "none"
    BY <1>1, <1>4 DEF QueueTypeOK
  <2>3. OperationHeld'
    BY <1>1, <1>2, <1>4, <2>1, <2>2 DEF OperationHeld
  <2>4. \A m \in Messages : Exposed(m) => Exposed(m)'
    BY <1>4, <2>1 DEF Exposed, Written
  <2>5. Written /\ operation'.order \in {0, operation.order}
    BY <1>4, <2>1 DEF Written
  <2> QED BY <1>1, <1>2, <1>4, <2>1, <2>2, <2>3, <2>4, <2>5, OperationStep
         DEF QueueTypeOK, OrderedPhases, OnTheWire
<1>5. CASE operation.phase = "handled" /\ operation' = EndedWith("acknowledged")
  BY <1>2, <1>5, EndStep
<1>6. CASE operation.phase \in {"sent", "handled"} /\ operation' = EndedWith("unknown")
  BY <1>2, <1>6, EndStep
<1> QED BY <1>3, <1>4, <1>5, <1>6 DEF AnswerArrives

LEMMA FinishStep ==
    ASSUME QueueInv, parked' \in Nat \cup {-1}, FinishOperation
    PROVE  QueueInv'
<1>1. QueueTypeOK /\ OperationHeld /\ operation \in OperationRecords
  BY DEF QueueInv, QueueTypeOK
<1>2. /\ operation.phase = "finishing"
      /\ UNCHANGED <<server, updates, lost, rows, evidence, recon, attempt, order, boot, sends,
                     doubt>>
      /\ receipts' = FinishReceipt(operation.key, operation.result) \/ receipts' = receipts
      /\ operation' = IF OfferNeeded THEN [operation EXCEPT !.phase = "offering"] ELSE NoCommand
  BY DEF FinishOperation, mirror
<1>3. operation.key \in OperationKeys /\ receipts[operation.key].outcome = "pending"
  BY <1>1, <1>2 DEF OperationHeld
<1>4. /\ receipts' \in [OperationKeys -> ReceiptRecords]
      /\ \A k \in OperationKeys :
           /\ receipts'[k].order = receipts[k].order
           /\ receipts'[k].outcome = "interrupted" => receipts[k].outcome = "interrupted"
           /\ receipts'[k].outcome = "none" => receipts[k].outcome = "none"
  <2>1. CASE receipts' = receipts
    BY <1>1, <2>1 DEF QueueTypeOK
  <2>2. CASE receipts' = FinishReceipt(operation.key, operation.result)
    <3>1. operation.result \in {"unchanged", "acknowledged", "rejected", "unknown"}
      BY <1>1, <1>2 DEF OperationRecords, OperationHeld
    <3>2. receipts' = [receipts EXCEPT ![operation.key].outcome = operation.result]
      BY <1>3, <2>2 DEF FinishReceipt
    <3> QED BY <1>1, <1>3, <3>1, <3>2 DEF QueueTypeOK, ReceiptRecords
  <2> QED BY <1>2, <2>1, <2>2
<1>5. CASE OfferNeeded
  <2>1. /\ operation' \in OperationRecords /\ operation'.phase = "offering"
        /\ operation'.permit = operation.permit /\ operation'.order = operation.order
        /\ operation'.key = operation.key /\ operation'.message = operation.message
        /\ operation'.confirmed = operation.confirmed
    BY <1>1, <1>2, <1>5 DEF OperationRecords
  <2>2. operation.permit = "none"
    BY <1>1, <1>2 DEF QueueTypeOK
  <2>3. OperationHeld'
    BY <1>1, <1>2, <1>4, <2>1, <2>2 DEF OperationHeld
  <2>4. \A m \in Messages : Exposed(m) => Exposed(m)'
    BY <2>1 DEF Exposed, Written
  <2> QED BY <1>1, <1>2, <1>4, <2>1, <2>2, <2>3, <2>4, OperationStep
         DEF QueueTypeOK, OrderedPhases, OnTheWire, Written
<1>6. CASE ~OfferNeeded
  <2>1. operation' = NoCommand
    BY <1>2, <1>6
  <2>2. OperationHeld'
    BY <1>1, <1>2, <1>4, <2>1, NothingHeld DEF OperationHeld
  <2>3. \A m \in Messages : ~Exposed(m)
    BY <1>2, <1>6 DEF Exposed, Written
  <2> QED BY <1>1, <1>2, <1>4, <2>1, <2>2, <2>3, NothingHeld, OperationStep
         DEF QueueTypeOK, OrderedPhases, OnTheWire, Written
<1> QED BY <1>5, <1>6

LEMMA OfferFailsStep ==
    ASSUME QueueInv, parked' \in Nat \cup {-1}, OfferFails
    PROVE  QueueInv'
<1>1. QueueTypeOK /\ OperationHeld
  BY DEF QueueInv
<1>2. /\ operation.phase = "offering" /\ operation' = NoCommand /\ doubt' = TRUE
      /\ UNCHANGED <<server, updates, lost, rows, evidence, recon, attempt, receipts, order, boot,
                     sends>>
  BY DEF OfferFails, mirror
<1>3. OperationHeld'
  BY <1>1, <1>2, NothingHeld DEF OperationHeld
<1> QED BY <1>1, <1>2, <1>3, NothingHeld, OperationStep
       DEF QueueTypeOK, Written, OrderedPhases, OnTheWire

LEMMA PrepareStep ==
    ASSUME QueueInv, parked' \in Nat \cup {-1}, PrepareReceipt
    PROVE  QueueInv'
<1>1. /\ QueueTypeOK /\ OperationHeld /\ operation \in OperationRecords /\ OrdersGiven
      /\ AttemptKept /\ AnswerKept /\ MirrorKept /\ UpdatesTell /\ StartKept /\ UnknownIsDue
      /\ InterruptedIsRecovered /\ WriteOrdered
  BY DEF QueueInv, QueueTypeOK
<1>2. /\ operation.phase = "preparing" /\ order' = order + 1
      /\ receipts' = [receipts EXCEPT ![operation.key] = [outcome |-> "pending",
           order |-> order + 1]]
      /\ UNCHANGED <<server, updates, lost, rows, evidence, recon, attempt, boot, sends, doubt>>
  BY DEF PrepareReceipt, mirror
<1>3. /\ operation.key \in OperationKeys /\ receipts[operation.key].outcome = "none"
      /\ operation.order = 0 /\ operation.permit = "none" /\ boot = "running"
      /\ sends[operation.key] = 0 /\ ~operation.confirmed
      /\ (operation.action = "create") = (operation.message = Unset)
  BY <1>1, <1>2 DEF OperationHeld, QueueTypeOK
<1>4. /\ operation' \in OperationRecords /\ operation'.permit = "none"
      /\ operation'.key = operation.key /\ operation'.action = operation.action
      /\ operation'.message = operation.message /\ ~operation'.confirmed
      /\ \/ operation'.phase = "admitting" /\ operation'.order = order + 1
         \/ operation'.phase = "finishing" /\ operation'.order = 0
              /\ operation'.result = "unchanged"
  <2>1. order + 1 \in Nat
    BY <1>1, Fields
  <2>2. CASE operation' = [operation EXCEPT !.phase = "admitting", !.order = order']
    BY <1>1, <1>2, <1>3, <2>1, <2>2 DEF OperationRecords
  <2>3. CASE operation' = [operation EXCEPT !.phase = "finishing", !.result = "unchanged"]
    BY <1>1, <1>3, <2>3 DEF OperationRecords
  <2> QED BY <2>2, <2>3 DEF PrepareReceipt
<1>5. /\ receipts' \in [OperationKeys -> ReceiptRecords]
      /\ receipts'[operation.key].outcome = "pending"
      /\ \A k \in OperationKeys :
            k # operation.key => receipts'[k] = receipts[k]
  BY <1>1, <1>2, <1>3, Fields DEF ReceiptRecords, QueueTypeOK
<1>6. QueueTypeOK'
  BY <1>1, <1>2, <1>4, <1>5, Fields DEF QueueTypeOK
<1>7. OrdersGiven'
  <2>1. receipts'[operation.key].order = order + 1
    BY <1>1, <1>2, <1>3 DEF QueueTypeOK
  <2>2. \A k \in OperationKeys : receipts'[k].order <= order + 1
    BY <1>1, <1>5, <2>1, Fields DEF OrdersGiven
  <2> QED BY <1>1, <1>2, <1>4, <2>2, Fields DEF OrdersGiven
<1>8. UpdatesTell'
  BY <1>1, <1>2, TellFrame
<1>9. OperationHeld'
  <2>1. \A k \in OperationKeys : sends'[k] <= 1 /\ (receipts'[k].outcome = "none" =>
          sends'[k] = 0)
    BY <1>1, <1>2, <1>5 DEF OperationHeld
  <2> QED BY <1>2, <1>3, <1>4, <1>5, <2>1 DEF OperationHeld
<1>10. WriteOrdered'
  <2>1. ~Written'
    BY <1>4 DEF Written
  <2>2. operation'.phase = "admitting" =>
          /\ \A m \in Messages : rows[m].order # operation'.order
          /\ \A i \in DOMAIN updates : updates[i].order # operation'.order
          /\ attempt.order # operation'.order /\ operation'.order > 0
    BY <1>1, <1>4, Fields DEF OrdersGiven
  <2> QED BY <1>2, <1>4, <2>1, <2>2 DEF WriteOrdered
<1>11. AttemptKept'
  <2>1. ~(OnTheWire' /\ attempt.order < operation'.order)
    BY <1>1, <1>4, Fields DEF OnTheWire
  <2> QED BY <1>1, <1>2, <1>5, <2>1 DEF AttemptKept, Captured, Unmoved
<1>12. \A m \in Messages : ~Exposed(m)
  BY <1>2 DEF Exposed, Written
<1>13. AnswerKept'
  BY <1>1, <1>2, <1>12, Fields, SameReconMoves, AnswerFrame
<1>14. MirrorKept'
  BY <1>1, <1>2, <1>3, <1>12, Fields, SameReconMoves, MirrorFrame
<1>15. StartKept' /\ UnknownIsDue' /\ InterruptedIsRecovered'
  BY <1>1, <1>2, <1>3, <1>5 DEF StartKept, UnknownIsDue, InterruptedIsRecovered
<1> QED BY <1>6, <1>7, <1>8, <1>9, <1>10, <1>11, <1>13, <1>14, <1>15 DEF QueueInv

-----------------------------------------------------------------------------
(* Continuity is lost, and the starts *)

\* The reconciler is asked, and no command goes on.
LEMMA RecoveryStep ==
    ASSUME QueueInv, parked' \in Nat \cup {-1},
           operation' \in OperationRecords, operation'.phase = "idle",
           operation'.permit = "none", operation'.order \in {0, operation.order},
           ~operation'.confirmed, boot' \in {"running", "settling"},
           boot' = boot \/ attempt.phase = "idle",
           recon' = ContinuityLost(Mirror).recon,
           UNCHANGED <<server, updates, lost, rows, evidence, attempt, receipts, order, sends,
             doubt>>
    PROVE  QueueInv'
<1>1. /\ QueueTypeOK /\ OperationHeld /\ OrdersGiven /\ AttemptKept /\ AnswerKept
      /\ MirrorKept /\ UpdatesTell /\ InterruptedIsRecovered
  BY DEF QueueInv
<1>2. PICK N : N = ContinuityLost(Mirror)
  OBVIOUS
<1>3. /\ Moves(recon, recon') /\ recon'.generation > recon.generation
      /\ recon'.coverage = "unknown"
  BY <1>1, <1>2, ContinuityFacts, MirrorIsTyped
<1>4. /\ ~OnTheWire' /\ ~Written'
  BY DEF OnTheWire, Written
<1>5. QueueTypeOK'
  BY <1>1, <1>3 DEF QueueTypeOK, Moves
<1>6. OrdersGiven' /\ AttemptKept'
  BY <1>1, <1>3, <1>4, RestFrame DEF AttemptRests
<1>7. UpdatesTell'
  BY <1>1, TellFrame
<1>8. OperationHeld'
  BY <1>1 DEF OperationHeld
<1>9. WriteOrdered'
  BY <1>4 DEF WriteOrdered
<1>10. AnswerKept'
  BY <1>1, <1>3, AnswerFrame
<1>11. MirrorKept' /\ StartKept' /\ InterruptedIsRecovered'
  BY <1>3 DEF MirrorKept, StartKept, InterruptedIsRecovered
<1>12. UnknownIsDue'
  <2>1. DueHolds(recon)
    BY DueMeans DEF QueueInv
  <2>2. DueHolds(recon)'
    BY <1>3, <2>1 DEF Moves, DueHolds
  <2>3. UnknownIsDue' <=> DueHolds(recon)'
    BY DueMeans, PTL
  <2> QED BY <2>2, <2>3
<1> QED BY <1>5, <1>6, <1>7, <1>8, <1>9, <1>10, <1>11, <1>12 DEF QueueInv

LEMMA OfferStep ==
    ASSUME QueueInv, parked' \in Nat \cup {-1}, OfferRecovery
    PROVE  QueueInv'
<1>1. QueueTypeOK /\ OperationHeld
  BY DEF QueueInv
<1>2. PICK N : N = ContinuityLost(Mirror)
  OBVIOUS
<1>3. N.rows = rows /\ N.evidence = evidence
  BY <1>1, <1>2, ContinuityFacts, MirrorIsTyped
<1>4. /\ rows' = rows /\ evidence' = evidence /\ recon' = ContinuityLost(Mirror).recon
      /\ operation' = NoCommand /\ boot = "running" /\ boot' = "running"
      /\ UNCHANGED <<server, updates, lost, attempt, receipts, order, sends, doubt>>
  <2>1. Becomes([N EXCEPT !.operation = NoCommand])
    BY <1>2 DEF OfferRecovery
  <2>2. N = [rows |-> N.rows, evidence |-> N.evidence, recon |-> N.recon,
          operation |-> N.operation]
    BY <1>2 DEF ContinuityLost, Mirror
  <2> QED BY <1>1, <1>2, <1>3, <2>1, <2>2 DEF OfferRecovery, Becomes, OperationHeld
<1> QED BY <1>4, NothingHeld, RecoveryStep

LEMMA StoreStep ==
    ASSUME QueueInv, parked' \in Nat \cup {-1}, StoreRecovery
    PROVE  QueueInv'
<1>1. /\ QueueTypeOK /\ OperationHeld /\ OrdersGiven /\ AttemptKept /\ AnswerKept
           /\ operation \in OperationRecords
      /\ MirrorKept /\ UpdatesTell /\ InterruptedIsRecovered /\ UnknownIsDue /\ WriteOrdered
  BY DEF QueueInv, QueueTypeOK
<1>2. /\ boot = "recovering" /\ boot' = "settling"
      /\ UNCHANGED <<server, updates, lost, attempt, receipts, order, sends, doubt>>
  BY DEF StoreRecovery
<1>3. operation.phase = "idle" /\ attempt.phase = "idle" /\ operation.permit = "none"
      /\ ~operation.confirmed
  BY <1>1, <1>2 DEF OperationHeld, AttemptKept, QueueTypeOK
<1>4. CASE InterruptedKeys = {} /\ UNCHANGED <<mirror, operation>>
  <2>1. UNCHANGED <<rows, evidence, recon, operation>>
    BY <1>4 DEF mirror
  <2>2. QueueTypeOK' /\ OrdersGiven' /\ UpdatesTell' /\ WriteOrdered'
    BY <1>1, <1>2, <2>1, TellFrame
         DEF QueueTypeOK, OrdersGiven, WriteOrdered, Written, After, Waits
  <2>3. OperationHeld' /\ AttemptKept' /\ UnknownIsDue' /\ InterruptedIsRecovered'
    BY <1>1, <1>2, <1>3, <2>1
         DEF OperationHeld, AttemptKept, UnknownIsDue, InterruptedIsRecovered,
       Captured, Unmoved
  <2>4. AnswerKept'
    BY <1>2, <1>3 DEF AnswerKept
  <2>5. StartKept' /\ InterruptedKeys' = InterruptedKeys
    BY <1>2, <1>4 DEF StartKept, InterruptedKeys
  <2>6. \A m \in Messages : Exposed(m) => Exposed(m)'
    BY <2>1 DEF Exposed, Written, OfferNeeded
  <2>7. MirrorKept'
    BY <1>1, <1>2, <1>4, <2>1, <2>5, <2>6, Fields, SameReconMoves, MirrorFrame
  <2> QED BY <2>2, <2>3, <2>4, <2>5, <2>7 DEF QueueInv
<1>5. CASE Becomes(ContinuityLost(Mirror))
  <2>1. PICK N : N = ContinuityLost(Mirror)
    OBVIOUS
  <2>2. N.rows = rows /\ N.evidence = evidence /\ N.operation = RevokeDialog(operation)
    BY <1>1, <2>1, ContinuityFacts, MirrorIsTyped
  <2>3. /\ rows' = rows /\ evidence' = evidence /\ recon' = ContinuityLost(Mirror).recon
        /\ operation' = operation
    BY <1>3, <1>5, <2>1, <2>2 DEF Becomes, RevokeDialog
  <2> QED BY <1>1, <1>2, <1>3, <2>3, RecoveryStep
<1> QED BY <1>4, <1>5 DEF StoreRecovery

LEMMA SettleStep ==
    ASSUME QueueInv, parked' \in Nat \cup {-1}, SettleInterrupted
    PROVE  QueueInv'
<1>1. /\ QueueTypeOK /\ OperationHeld /\ OrdersGiven /\ AttemptKept /\ AnswerKept
           /\ operation \in OperationRecords
      /\ MirrorKept /\ UpdatesTell /\ InterruptedIsRecovered /\ UnknownIsDue /\ WriteOrdered
      /\ StartKept
  BY DEF QueueInv, QueueTypeOK
<1>2. /\ boot = "settling" /\ boot' = "running"
      /\ UNCHANGED <<server, updates, lost, rows, evidence, recon, attempt, operation, order,
           sends,
                     doubt>>
      /\ receipts' = [k \in OperationKeys |->
                        IF k \in InterruptedKeys THEN [receipts[k] EXCEPT !.outcome = "interrupted"]
                        ELSE receipts[k]]
  BY DEF SettleInterrupted, mirror
<1>3. operation.phase = "idle" /\ attempt.phase = "idle" /\ operation.permit = "none"
  BY <1>1, <1>2 DEF OperationHeld, AttemptKept, QueueTypeOK
<1>4. /\ receipts' \in [OperationKeys -> ReceiptRecords]
      /\ \A k \in OperationKeys :
           /\ receipts'[k].order = receipts[k].order
           /\ receipts'[k].outcome = "none" => receipts[k].outcome = "none"
           /\ receipts'[k].outcome = "interrupted" =>
                 receipts[k].outcome = "interrupted" \/ k \in InterruptedKeys
  BY <1>1, <1>2 DEF QueueTypeOK, ReceiptRecords, InterruptedKeys
<1>5. QueueTypeOK' /\ UpdatesTell' /\ OrdersGiven'
  BY <1>1, <1>2, <1>4, TellFrame DEF QueueTypeOK, OrdersGiven
<1>6. OperationHeld'
  BY <1>1, <1>2, <1>3, <1>4 DEF OperationHeld
<1>7. WriteOrdered' /\ AttemptKept' /\ UnknownIsDue'
  BY <1>1, <1>2, <1>3 DEF WriteOrdered, Written, AttemptKept, Captured, Unmoved, UnknownIsDue
<1>8. AnswerKept'
  BY <1>2, <1>3 DEF AnswerKept
<1>9. \A m \in Messages : Exposed(m) => Exposed(m)'
  BY <1>2 DEF Exposed, Written, OfferNeeded
<1>10. MirrorKept'
  BY <1>1, <1>2, <1>9, Fields, SameReconMoves, MirrorFrame
<1>11. StartKept' /\ InterruptedIsRecovered'
  BY <1>1, <1>2, <1>4 DEF StartKept, InterruptedIsRecovered
<1> QED BY <1>5, <1>6, <1>7, <1>8, <1>10, <1>11 DEF QueueInv

LEMMA BeginStep ==
    ASSUME QueueInv, parked' \in Nat \cup {-1}, NEW k \in OperationKeys, BeginOperation(k)
    PROVE  QueueInv'
<1>1. /\ QueueTypeOK /\ OperationHeld /\ OrdersGiven /\ AttemptKept /\ AnswerKept /\ StartKept
      /\ MirrorKept /\ UpdatesTell /\ InterruptedIsRecovered /\ UnknownIsDue /\ WriteOrdered
      /\ operation \in OperationRecords /\ recon \in ReconRecords
  BY DEF QueueInv, QueueTypeOK
<1>2. /\ boot = "running" /\ boot' = "running" /\ operation.phase = "idle"
      /\ receipts[k].outcome = "none"
      /\ operation' = [NoCommand EXCEPT !.phase = "reading", !.key = k]
      /\ recon' = IF recon.blocked
                  THEN [recon EXCEPT !.blocked = FALSE, !.authorization = TRUE, !.failing = FALSE,
                                     !.generation = recon.generation + 1,
                                     !.discovery = IF recon.discovery = "none" THEN "now"
                                                   ELSE recon.discovery]
                  ELSE recon
      /\ UNCHANGED <<server, updates, lost, rows, evidence, attempt, receipts, order, sends,
           doubt>>
  BY DEF BeginOperation, FreshKey
<1>3. /\ operation' \in OperationRecords /\ operation'.phase = "reading" /\ operation'.key = k
      /\ operation'.permit = "none" /\ operation'.order = 0 /\ ~operation'.confirmed
  BY <1>2, NothingHeld DEF OperationRecords
<1>4. Moves(recon, recon')
  <2>1. CASE ~recon.blocked
    BY <1>1, <1>2, <2>1, SameReconMoves
  <2>2. CASE recon.blocked
    <3>1. PICK d \in {"now", "later"} :
             recon' = [recon EXCEPT !.blocked = FALSE, !.authorization = TRUE, !.failing = FALSE,
                                    !.generation = recon.generation + 1, !.discovery = d]
      <4>1. recon.discovery \in {"none", "now", "later"}
        BY <1>1 DEF ReconRecords
      <4> QED BY <1>2, <2>2, <4>1, Zenon
    <3>2. recon.generation \in Nat /\ recon.generation + 1 \in Nat
      BY <1>1 DEF ReconRecords
    <3>3. /\ recon' \in ReconRecords /\ recon'.snapshot = recon.snapshot
          /\ recon'.generation = recon.generation + 1 /\ recon'.coverage = recon.coverage
          /\ recon'.discovery # "none"
      BY <1>1, <3>1, <3>2 DEF ReconRecords
    <3> QED BY <3>2, <3>3 DEF Moves, DueHolds
  <2> QED BY <2>1, <2>2
<1>5. ~OnTheWire' /\ ~Written' /\ \A m \in Messages : ~Exposed(m)
  BY <1>2, <1>3 DEF OnTheWire, Written, Exposed
<1>6. QueueTypeOK'
  BY <1>1, <1>2, <1>3, <1>4 DEF QueueTypeOK, Moves
<1>7. OrdersGiven' /\ AttemptKept'
  BY <1>1, <1>2, <1>3, <1>4, <1>5, RestFrame DEF AttemptRests
<1>8. UpdatesTell' /\ WriteOrdered'
  BY <1>1, <1>2, <1>3, <1>5, TellFrame DEF WriteOrdered
<1>9. OperationHeld'
  BY <1>1, <1>2, <1>3 DEF OperationHeld
<1>10. AnswerKept'
  BY <1>1, <1>2, <1>4, <1>5, AnswerFrame
<1>11. MirrorKept'
  BY <1>1, <1>2, <1>4, <1>5, MirrorFrame
<1>12. StartKept' /\ InterruptedIsRecovered'
  BY <1>1, <1>2, <1>4 DEF StartKept, InterruptedIsRecovered, Moves
<1>13. UnknownIsDue'
  <2>1. DueHolds(recon)'
    BY <1>1, <1>4, DueMeans DEF Moves, DueHolds
  <2>2. UnknownIsDue' <=> DueHolds(recon)'
    BY DueMeans, PTL
  <2> QED BY <2>1, <2>2
<1> QED BY <1>6, <1>7, <1>8, <1>9, <1>10, <1>11, <1>12, <1>13 DEF QueueInv

LEMMA StopStep ==
    ASSUME QueueInv, parked' \in Nat \cup {-1}, ProcessStops
    PROVE  QueueInv'
<1>1. /\ QueueTypeOK /\ OperationHeld /\ OrdersGiven /\ AttemptKept /\ AnswerKept /\ StartKept
      /\ MirrorKept /\ UpdatesTell /\ InterruptedIsRecovered /\ UnknownIsDue /\ WriteOrdered
  BY DEF QueueInv
<1>2. /\ boot' = "recovering" /\ operation' = NoCommand /\ attempt' = NoAttempt
      /\ updates' = [i \in DOMAIN updates |-> [updates[i] EXCEPT !.order = 0]]
      /\ doubt' = (doubt \/ operation.phase = "offering")
      /\ UNCHANGED <<server, lost, rows, evidence, recon, receipts, order, sends>>
  BY DEF ProcessStops, mirror
<1>3. /\ updates' \in Seq(UpdateRecords) /\ DOMAIN updates' = DOMAIN updates
      /\ \A i \in DOMAIN updates :
            /\ updates'[i].order = 0 /\ updates'[i].kind = updates[i].kind
            /\ updates'[i].message = updates[i].message /\ updates'[i].rev = updates[i].rev
  <2>1. \A u \in UpdateRecords : LET v == [u EXCEPT !.order = 0]
                                IN  /\ v \in UpdateRecords /\ v.order = 0 /\ v.kind = u.kind
                                    /\ v.message = u.message /\ v.rev = u.rev
    BY DEF UpdateRecords
  <2>2. DOMAIN updates = 1..Len(updates) /\ \A i \in DOMAIN updates : updates[i] \in UpdateRecords
    BY <1>1, Fields
  <2>3. updates' \in [1..Len(updates) -> UpdateRecords]
    BY <1>2, <2>1, <2>2
  <2>4. Len(updates) \in Nat
    BY <1>1, Fields
  <2>5. DOMAIN updates' = DOMAIN updates
    BY <1>2
  <2>6. updates' \in Seq(UpdateRecords)
    BY <2>3, <2>4
  <2>7. ASSUME NEW i \in DOMAIN updates
        PROVE  /\ updates'[i].order = 0 /\ updates'[i].kind = updates[i].kind
               /\ updates'[i].message = updates[i].message /\ updates'[i].rev = updates[i].rev
    <3>1. updates[i] \in UpdateRecords /\ updates'[i] = [updates[i] EXCEPT !.order = 0]
      BY <1>2, <2>2
    <3> QED BY <2>1, <3>1
  <2> QED BY <2>5, <2>6, <2>7
<1>4. QueueTypeOK'
  <2>1. doubt' \in BOOLEAN
    BY <1>1, <1>2 DEF QueueTypeOK
  <2> QED BY <1>1, <1>2, <1>3, <2>1, NothingHeld DEF QueueTypeOK
<1>5. OrdersGiven'
  <2>1. \A i \in DOMAIN updates' : updates'[i].order = 0
    BY <1>3
  <2>2. attempt'.order = 0 /\ operation'.order = 0 /\ order \in Nat
    BY <1>1, <1>2, NothingHeld, Fields
  <2> QED BY <1>1, <1>2, <2>1, <2>2 DEF OrdersGiven
<1>6. \A m \in Messages : \A i : (Waits(i, m)' <=> Waits(i, m)) /\ (Last(i, m)' <=> Last(i, m))
  BY <1>3 DEF Waits, Last
<1>7. UpdatesTell'
  <2>1. \A i \in DOMAIN updates' :
           updates'[i].kind \in {"published", "sent"} =>
             server'[updates'[i].message].state = "published"
    BY <1>1, <1>2, <1>3 DEF UpdatesTell
  <2>2. ASSUME ~doubt', NEW m \in Messages, NEW i \in DOMAIN updates', Last(i, m)'
        PROVE  Tells(updates'[i], server'[m])
    <3>1. Last(i, m) /\ i \in DOMAIN updates /\ ~doubt
      BY <1>2, <1>3, <1>6, <2>2
    <3>2. Tells(updates[i], server[m])
      BY <1>1, <3>1 DEF UpdatesTell
    <3> QED BY <1>2, <1>3, <3>1, <3>2 DEF Tells
  <2>3. \A m \in Messages :
          (m \in evidence' \/ rows'[m].state = "published") => server'[m].state = "published"
    BY <1>1, <1>2 DEF UpdatesTell
  <2>4. ~doubt' => \A m \in Messages : \A i \in DOMAIN updates' :
           Last(i, m)' => Tells(updates'[i], server'[m])
    BY <2>2
  <2>5. \A i, m : Tells(updates[i], server[m])' <=> Tells(updates'[i], server'[m])
    BY DEF Tells
  <2> QED BY <2>1, <2>3, <2>4, <2>5 DEF UpdatesTell
<1>8. OperationHeld' /\ WriteOrdered'
  BY <1>1, <1>2, NothingHeld DEF OperationHeld, WriteOrdered, Written
<1>9. AttemptKept' /\ AnswerKept'
  BY <1>1, <1>2, NothingHeld, Fields DEF AttemptKept, AnswerKept, Captured, Unmoved
<1>10. MirrorKept'
  <2> SUFFICES ASSUME ~doubt', ~lost', recon'.coverage = "complete", InterruptedKeys' = {},
                      NEW m \in Messages
               PROVE  RowRight(m)'
    BY <1>2 DEF MirrorKept
  <2>1. InterruptedKeys = {}
    BY <1>2 DEF InterruptedKeys
  <2>2. ~Exposed(m)
    BY <1>1, <1>2, <2>1 DEF Exposed, Written, OperationHeld, InterruptedKeys
  <2>3. RowRight(m)
    BY <1>1, <1>2, <2>1, <2>2 DEF MirrorKept, QueueTypeOK
  <2>4. ASSUME NEW o, Comes(m, o) PROVE Comes(m, o)'
    BY <1>3, <1>6, <2>4 DEF Comes, After, Last, Waits
  <2>5. Newer(rows[m].order, recon.snapshot)' = Newer(rows[m].order, recon.snapshot)
    BY <1>2 DEF Newer
  <2> QED BY <1>2, <2>3, <2>4, <2>5 DEF RowRight
<1>11. StartKept' /\ UnknownIsDue' /\ InterruptedIsRecovered'
  BY <1>1, <1>2 DEF StartKept, UnknownIsDue, InterruptedIsRecovered
<1> QED BY <1>4, <1>5, <1>7, <1>8, <1>9, <1>10, <1>11 DEF QueueInv

LEMMA LostStep ==
    ASSUME QueueInv, parked' \in Nat \cup {-1}, UpdatesLost
    PROVE  QueueInv'
<1>1. /\ QueueTypeOK /\ OperationHeld /\ OrdersGiven /\ AttemptKept /\ AnswerKept /\ StartKept
      /\ MirrorKept /\ UpdatesTell /\ InterruptedIsRecovered /\ UnknownIsDue /\ WriteOrdered
  BY DEF QueueInv
<1>2. /\ updates' = <<>> /\ lost' = TRUE /\ DOMAIN updates' = {}
      /\ UNCHANGED <<server, rows, evidence, recon, attempt, operation, receipts, order, boot,
           sends,
                     doubt>>
  BY DEF UpdatesLost, mirror
<1>3. QueueTypeOK' /\ OrdersGiven' /\ UpdatesTell'
  BY <1>1, <1>2 DEF QueueTypeOK, OrdersGiven, UpdatesTell, Last, Waits
<1>4. OperationHeld'
  BY <1>1, <1>2 DEF OperationHeld, StateKnown, VersionSeen, Available
<1>5. WriteOrdered' /\ AttemptKept' /\ AnswerKept' /\ MirrorKept'
  BY <1>1, <1>2 DEF WriteOrdered, Written, AttemptKept, AnswerKept, MirrorKept, Captured, Unmoved,
     OnTheWire
<1>6. StartKept' /\ UnknownIsDue' /\ InterruptedIsRecovered'
  BY <1>1, <1>2 DEF StartKept, UnknownIsDue, InterruptedIsRecovered, InterruptedKeys
<1> QED BY <1>3, <1>4, <1>5, <1>6 DEF QueueInv

-----------------------------------------------------------------------------
(* Telegram and its updates *)

LEMMA AdmitStep ==
    ASSUME QueueInv, parked' \in Nat \cup {-1}, Admit
    PROVE  QueueInv'
<1>1. /\ QueueTypeOK /\ OperationHeld /\ OrdersGiven /\ AttemptKept /\ AnswerKept /\ StartKept
      /\ MirrorKept /\ UpdatesTell /\ InterruptedIsRecovered /\ UnknownIsDue /\ WriteOrdered
  BY DEF QueueInv
<1>2. PICK i \in 1..Len(updates) :
         /\ updates[i].order = 0 /\ \A j \in 1..(i - 1) : updates[j].order > 0
         /\ updates' = [updates EXCEPT ![i].order = order']
  BY DEF Admit
<1>3. /\ order' = order + 1
      /\ UNCHANGED <<server, lost, rows, evidence, recon, attempt, operation, receipts, boot,
           sends,
                     doubt>>
  BY DEF Admit, mirror
<1>4. /\ DOMAIN updates = 1..Len(updates) /\ Len(updates) \in Nat /\ order \in Nat
      /\ \A j \in DOMAIN updates : updates[j] \in UpdateRecords /\ updates[j].order \in Nat
  BY <1>1, Fields
<1>5. /\ DOMAIN updates' = DOMAIN updates
      /\ \A j \in DOMAIN updates : j # i => updates'[j] = updates[j]
      /\ updates'[i] = [updates[i] EXCEPT !.order = order + 1]
  BY <1>2, <1>3, <1>4
<1>6. /\ updates'[i] \in UpdateRecords /\ updates'[i].order = order + 1
      /\ updates'[i].kind = updates[i].kind /\ updates'[i].message = updates[i].message
      /\ updates'[i].rev = updates[i].rev
  BY <1>2, <1>4, <1>5 DEF UpdateRecords
<1>7. /\ updates' \in Seq(UpdateRecords)
      /\ \A j \in DOMAIN updates : updates'[j].kind = updates[j].kind
            /\ updates'[j].message = updates[j].message /\ updates'[j].rev = updates[j].rev
  <2>1. updates' \in [1..Len(updates) -> UpdateRecords]
    <3>1. \A j \in 1..Len(updates) : updates'[j] \in UpdateRecords
      BY <1>4, <1>5, <1>6
    <3>2. updates' = [j \in 1..Len(updates) |-> updates'[j]]
      BY <1>2, <1>4
    <3> QED BY <3>1, <3>2
  <2>2. updates' \in Seq(UpdateRecords)
    BY <2>1, <1>4
  <2>3. ASSUME NEW j \in DOMAIN updates
        PROVE  updates'[j].kind = updates[j].kind /\ updates'[j].message = updates[j].message
               /\ updates'[j].rev = updates[j].rev
    <3>1. CASE j = i
      BY <1>6, <3>1
    <3>2. CASE j # i
      BY <1>5, <3>2
    <3> QED BY <3>1, <3>2
  <2> QED BY <2>2, <2>3
<1>8. QueueTypeOK'
  BY <1>1, <1>3, <1>4, <1>7 DEF QueueTypeOK
<1>9. OrdersGiven'
  <2>1. \A j \in DOMAIN updates' : updates'[j].order <= order'
    <3> SUFFICES ASSUME NEW j \in DOMAIN updates PROVE updates'[j].order <= order + 1
      BY <1>3, <1>5
    <3>1. CASE j = i
      BY <1>4, <1>6, <3>1
    <3>2. CASE j # i
      BY <1>1, <1>4, <1>5, <3>2 DEF OrdersGiven
    <3> QED BY <3>1, <3>2
  <2>2. ASSUME NEW j \in DOMAIN updates', NEW l \in DOMAIN updates', j < l, updates'[l].order > 0
        PROVE  updates'[j].order > 0 /\ updates'[j].order < updates'[l].order
    <3>1. CASE l = i
      BY <1>1, <1>2, <1>4, <1>5, <1>6, <2>2, <3>1 DEF OrdersGiven
    <3>2. CASE l # i
      <4>1. updates[l].order > 0 /\ updates[j].order > 0 /\ updates[j].order < updates[l].order
        BY <1>1, <1>5, <2>2, <3>2 DEF OrdersGiven
      <4>2. j # i
        BY <1>2, <4>1
      <4> QED BY <1>5, <2>2, <3>2, <4>1, <4>2
    <3> QED BY <3>1, <3>2
  <2>3. /\ \A m \in Messages : rows[m].order <= order + 1
        /\ recon.snapshot <= order + 1 /\ attempt.order <= order + 1
             /\ operation.order <= order + 1
        /\ \A k \in OperationKeys : receipts[k].order <= order + 1
    BY <1>1, Fields DEF OrdersGiven
  <2> QED BY <1>3, <2>1, <2>2, <2>3 DEF OrdersGiven
<1>10. \A m : \A j : (Waits(j, m)' <=> Waits(j, m)) /\ (Last(j, m)' <=> Last(j, m))
  BY <1>5, <1>7 DEF Waits, Last
<1>11. ASSUME NEW o \in Nat, o <= order, NEW j \in DOMAIN updates, After(updates[j], o)
       PROVE  After(updates'[j], o)
  <2>1. CASE j = i
    BY <1>4, <1>6, <1>11, <2>1 DEF After
  <2>2. CASE j # i
    BY <1>5, <1>11, <2>2
  <2> QED BY <2>1, <2>2
<1>12. ASSUME NEW m, NEW o \in Nat, o <= order, Comes(m, o)
       PROVE  Comes(m, o)'
  <2>1. PICK j \in DOMAIN updates : Last(j, m) /\ After(updates[j], o)
    BY <1>12 DEF Comes
  <2>2. Last(j, m)' /\ After(updates'[j], o) /\ j \in DOMAIN updates'
    BY <1>5, <1>10, <1>11, <1>12, <2>1
  <2>3. After(updates[j], o)'
    BY <2>2 DEF After
  <2> QED BY <2>2, <2>3 DEF Comes
<1>13. UpdatesTell'
  <2>1. \A j \in DOMAIN updates' :
           updates'[j].kind \in {"published", "sent"} =>
             server'[updates'[j].message].state = "published"
    BY <1>1, <1>3, <1>5, <1>7 DEF UpdatesTell
  <2>2. ASSUME ~doubt', NEW m \in Messages, NEW j \in DOMAIN updates', Last(j, m)'
        PROVE  Tells(updates[j], server[m])'
    <3>1. Last(j, m) /\ j \in DOMAIN updates /\ ~doubt
      BY <1>3, <1>5, <1>10, <2>2
    <3>2. Tells(updates[j], server[m])
      BY <1>1, <3>1 DEF UpdatesTell
    <3> QED BY <1>3, <1>7, <3>1, <3>2 DEF Tells
  <2> QED BY <1>1, <1>3, <2>1, <2>2 DEF UpdatesTell
<1>14. OperationHeld'
  BY <1>1, <1>3 DEF OperationHeld, StateKnown, VersionSeen, Available
<1>15. WriteOrdered'
  <2>1. operation.order \in Nat /\ operation.order <= order /\ operation.order # order + 1
    BY <1>1, Fields DEF OrdersGiven
  <2>2. operation.phase \in OrderedPhases =>
           /\ \A m \in Messages : rows[m].order # operation.order
           /\ \A j \in DOMAIN updates' : updates'[j].order # operation.order
           /\ attempt.order # operation.order /\ operation.order > 0
    BY <1>1, <1>5, <1>6, <2>1 DEF WriteOrdered, OrderedPhases
  <2>3. ASSUME Written, ~doubt, NEW j \in DOMAIN updates'
        PROVE  After(updates[j], operation.order)'
    <3>1. After(updates[j], operation.order)
      BY <1>1, <1>5, <2>3 DEF WriteOrdered
    <3> QED BY <1>3, <1>5, <1>11, <2>1, <3>1 DEF After
  <2>4. Written' <=> Written
    BY <1>3 DEF Written
  <2>5. Written => operation.message \in Messages
    BY <1>1 DEF WriteOrdered
  <2>6. (Written /\ ~doubt /\ ~lost /\ recon.coverage = "complete") =>
           LET m == operation.message
           IN  \/ server[m].state =
                    IF operation.action = "cancel" THEN "cancelled" ELSE "scheduled"
               \/ \E j \in DOMAIN updates' : Waits(j, m)'
               \/ Newer(rows[m].order, recon.snapshot) > operation.order
               \/ rows[m].state = "published"
    BY <1>1, <1>3, <1>5, <1>10 DEF WriteOrdered
  <2> QED BY <1>3, <2>2, <2>3, <2>4, <2>5, <2>6 DEF WriteOrdered, OrderedPhases, Newer, Waits
<1>16. AttemptKept'
  BY <1>1, <1>3 DEF AttemptKept, Captured, Unmoved, OnTheWire
<1>17. \A m : Exposed(m)' <=> Exposed(m)
  BY <1>3 DEF Exposed, Written, OfferNeeded
<1>18. AnswerKept'
  <2> SUFFICES ASSUME Unmoved, attempt.phase = "answered", ~doubt, ~lost, NEW m \in Messages
               PROVE  Exposed(m)' \/ SnapshotRight(m)'
    BY <1>3 DEF AnswerKept, Unmoved, Captured
  <2>1. Exposed(m) \/ SnapshotRight(m)
    BY <1>1 DEF AnswerKept
  <2>2. attempt.order \in Nat /\ attempt.order <= order
    BY <1>1, Fields DEF OrdersGiven
  <2>3. Comes(m, attempt.order) => Comes(m, attempt.order)'
    BY <1>3, <1>12, <2>2 DEF Comes
  <2> QED BY <1>3, <1>17, <2>1, <2>3 DEF SnapshotRight
<1>19. MirrorKept'
  <2> SUFFICES ASSUME ~doubt, ~lost, recon.coverage = "complete",
                      boot = "recovering" => InterruptedKeys = {}, NEW m \in Messages
               PROVE  Exposed(m)' \/ RowRight(m)'
    BY <1>3 DEF MirrorKept, InterruptedKeys
  <2>1. Exposed(m) \/ RowRight(m)
    BY <1>1 DEF MirrorKept
  <2>2. Newer(rows[m].order, recon.snapshot) \in Nat
          /\ Newer(rows[m].order, recon.snapshot) <= order
    BY <1>1, Fields DEF OrdersGiven, Newer
  <2>3. Comes(m, Newer(rows[m].order, recon.snapshot)) =>
          Comes(m, Newer(rows[m].order, recon.snapshot))'
    <3> DEFINE o == Newer(rows[m].order, recon.snapshot)
    <3>1. o' = o
      BY <1>3 DEF Newer
    <3> HIDE DEF o
    <3>2. Comes(m, o) => \E j \in DOMAIN updates' : Last(j, m)' /\ After(updates'[j], o)
      BY <1>5, <1>10, <1>11, <2>2 DEF Comes, o
    <3> QED BY <3>1, <3>2 DEF Comes, After, o
  <2> QED BY <1>3, <1>17, <2>1, <2>3 DEF RowRight
<1>20. StartKept' /\ UnknownIsDue' /\ InterruptedIsRecovered'
  BY <1>1, <1>3 DEF StartKept, UnknownIsDue, InterruptedIsRecovered, InterruptedKeys
<1> QED BY <1>8, <1>9, <1>13, <1>14, <1>15, <1>16, <1>18, <1>19, <1>20 DEF QueueInv

\* Another client changes a message, and the last of the updates about that says how.
LEMMA PushStep ==
    ASSUME QueueInv, parked' \in Nat \cup {-1},
           NEW m \in Messages, NEW s \in ServerRecords, NEW us \in Seq(UpdateRecords),
           server[m].state # "published", server' = [server EXCEPT ![m] = s], Push(us),
           \A i \in 1..Len(us) :
              /\ us[i].message = m /\ us[i].order = 0
              /\ us[i].kind \in {"published", "sent"} => s.state = "published",
           NEW l \in 1..Len(us), us[l].kind # "sent", Tells(us[l], s),
           \A i \in 1..Len(us) : us[i].kind # "sent" => i <= l,
           UNCHANGED <<lost, rows, evidence, recon, attempt, operation, receipts, order, boot,
             sends,
                       doubt>>
    PROVE  QueueInv'
<1>1. /\ QueueTypeOK /\ OperationHeld /\ OrdersGiven /\ AttemptKept /\ AnswerKept /\ StartKept
      /\ MirrorKept /\ UpdatesTell /\ InterruptedIsRecovered /\ UnknownIsDue /\ WriteOrdered
  BY DEF QueueInv
<1>0. PICK n \in Nat : n = Len(updates)
  BY <1>1, Fields
<1>2. /\ DOMAIN updates = 1..n /\ n \in Nat /\ order \in Nat /\ Len(us) \in Nat
      /\ \A j \in DOMAIN updates : updates[j] \in UpdateRecords /\ updates[j].order \in Nat
  BY <1>0, <1>1, Fields
<1>3. /\ updates' \in Seq(UpdateRecords) /\ DOMAIN updates' = 1..(n + Len(us))
      /\ \A j \in 1..n : updates'[j] = updates[j]
      /\ \A j \in 1..Len(us) : updates'[n + j] = us[j]
  BY <1>0, <1>1, <1>2 DEF Push, QueueTypeOK
<1>4. \A j \in DOMAIN updates' : j \in 1..n \/ (j - n \in 1..Len(us) /\ updates'[j] = us[j - n])
  BY <1>2, <1>3
<1>5. server \in [Messages -> ServerRecords] /\ server'[m] = s
      /\ \A x \in Messages : x # m => server'[x] = server[x]
  BY <1>1 DEF QueueTypeOK
<1>6. QueueTypeOK'
  BY <1>1, <1>3, <1>5 DEF QueueTypeOK
<1>7. /\ Last(n + l, m)' /\ n + l \in DOMAIN updates' /\ updates'[n + l] = us[l]
      /\ updates'[n + l].order = 0 /\ Waits(n + l, m)'
  <2>1. n + l \in DOMAIN updates' /\ updates'[n + l] = us[l]
    BY <1>2, <1>3
  <2>2. ASSUME NEW j \in DOMAIN updates', Waits(j, m)' PROVE j <= n + l
    <3>1. CASE j \in 1..n
      BY <1>2, <3>1
    <3>2. CASE j - n \in 1..Len(us) /\ updates'[j] = us[j - n]
      <4>1. j - n <= l
        BY <2>2, <3>2 DEF Waits
      <4> QED BY <1>2, <1>3, <4>1
    <3> QED BY <1>4, <3>1, <3>2
  <2>3. Waits(n + l, m)' /\ updates'[n + l].order = 0
    BY <2>1 DEF Waits
  <2> QED BY <2>1, <2>2, <2>3 DEF Last
<1>8. ASSUME NEW x, x # m
      PROVE  \A j : (Waits(j, x)' <=> Waits(j, x)) /\ (Last(j, x)' <=> Last(j, x))
  <2>1. \A j : Waits(j, x)' <=> Waits(j, x)
    <3> SUFFICES ASSUME NEW j PROVE Waits(j, x)' <=> Waits(j, x)
      OBVIOUS
    <3>1. CASE j \in 1..n
      <4>1. j \in DOMAIN updates' /\ j \in DOMAIN updates /\ updates'[j] = updates[j]
        BY <1>2, <1>3, <3>1
      <4> QED BY <4>1 DEF Waits
    <3>2. CASE j \notin 1..n
      <4>1. j \notin DOMAIN updates
        BY <1>2, <3>2
      <4>2. j \in DOMAIN updates' => updates'[j].message = m
        BY <1>4, <3>2
      <4> QED BY <1>8, <4>1, <4>2 DEF Waits
    <3> QED BY <3>1, <3>2
  <2> QED BY <2>1, <1>2, <1>3 DEF Last, Waits
<1>9. OrdersGiven'
  <2>1. \A j \in DOMAIN updates' : updates'[j].order <= order
    <3> SUFFICES ASSUME NEW j \in DOMAIN updates' PROVE updates'[j].order <= order
      OBVIOUS
    <3>1. CASE j \in 1..n
      BY <1>1, <1>2, <1>3, <3>1 DEF OrdersGiven
    <3>2. CASE j - n \in 1..Len(us) /\ updates'[j] = us[j - n]
      BY <1>2, <3>2
    <3> QED BY <1>4, <3>1, <3>2
  <2>2. ASSUME NEW i \in DOMAIN updates', NEW j \in DOMAIN updates', i < j, updates'[j].order > 0
        PROVE  updates'[i].order > 0 /\ updates'[i].order < updates'[j].order
    <3>1. j \in 1..n
      BY <1>4, <2>2
    <3>2. i \in 1..n
      BY <1>2, <1>3, <2>2, <3>1
    <3> QED BY <1>1, <1>2, <1>3, <2>2, <3>1, <3>2 DEF OrdersGiven
  <2> QED BY <1>1, <2>1, <2>2 DEF OrdersGiven
<1>10. UpdatesTell'
  <2>1. ASSUME NEW j \in DOMAIN updates', updates'[j].kind \in {"published", "sent"}
        PROVE  server'[updates'[j].message].state = "published"
    <3>1. CASE j \in 1..n
      <4>1. server[updates[j].message].state = "published" /\ updates[j].message \in Messages
        BY <1>1, <1>2, <1>3, <2>1, <3>1 DEF UpdatesTell, UpdateRecords
      <4> QED BY <1>3, <1>5, <3>1, <4>1
    <3>2. CASE j - n \in 1..Len(us) /\ updates'[j] = us[j - n]
      BY <1>5, <2>1, <3>2
    <3> QED BY <1>4, <3>1, <3>2
  <2>2. ASSUME ~doubt, NEW x \in Messages, NEW j \in DOMAIN updates', Last(j, x)'
        PROVE  Tells(updates[j], server[x])'
    <3>1. CASE x = m
      <4>1. j = n + l
        <5>1. Waits(j, m)' /\ (Waits(n + l, m)' => n + l <= j)
          BY <1>7, <2>2, <3>1 DEF Last
        <5>2. Waits(j, m)' => j <= n + l
          BY <1>7, <2>2 DEF Last
        <5>3. n + l <= j /\ j <= n + l
          BY <1>7, <5>1, <5>2, Zenon
        <5>4. j \in Int /\ n + l \in Int
          BY <1>2, <1>3, <2>2
        <5> QED BY <5>3, <5>4, NotLess, Zenon
      <4> QED BY <1>5, <1>7, <3>1, <4>1 DEF Tells
    <3>2. CASE x # m
      <4>1. Last(j, x) /\ j \in DOMAIN updates
        BY <1>8, <2>2, <3>2 DEF Last, Waits
      <4>2. Tells(updates[j], server[x])
        BY <1>1, <2>2, <4>1 DEF UpdatesTell
      <4>3. updates'[j] = updates[j] /\ server'[x] = server[x]
        BY <1>2, <1>3, <1>5, <3>2, <4>1
      <4> QED BY <4>2, <4>3 DEF Tells
    <3> QED BY <3>1, <3>2
  <2>3. ASSUME NEW x \in Messages, x \in evidence \/ rows[x].state = "published"
        PROVE  server'[x].state = "published"
    BY <1>1, <1>5, <2>3 DEF UpdatesTell
  <2> QED BY <2>1, <2>2, <2>3 DEF UpdatesTell
<1>11. OperationHeld' /\ AttemptKept'
  BY <1>1 DEF OperationHeld, StateKnown, VersionSeen, Available, AttemptKept, Captured, Unmoved,
     OnTheWire
<1>12. ASSUME NEW x \in Messages, NEW o, x = m \/ Comes(x, o)
       PROVE  \E j \in DOMAIN updates' : Last(j, x)' /\ After(updates'[j], o)
  <2>1. CASE x = m
    BY <1>7, <2>1 DEF After
  <2>2. CASE x # m
    <3>1. PICK j \in DOMAIN updates : Last(j, x) /\ After(updates[j], o)
      BY <1>12, <2>2 DEF Comes
    <3>2. j \in DOMAIN updates' /\ updates'[j] = updates[j]
      BY <1>2, <1>3
    <3> QED BY <1>8, <2>2, <3>1, <3>2
  <2> QED BY <2>1, <2>2
<1>13. WriteOrdered'
  <2>1. operation.phase \in OrderedPhases =>
           /\ \A x \in Messages : rows[x].order # operation.order
           /\ \A j \in DOMAIN updates' : updates'[j].order # operation.order
           /\ attempt.order # operation.order /\ operation.order > 0
    <3> SUFFICES ASSUME operation.phase \in OrderedPhases, NEW j \in DOMAIN updates'
                 PROVE  updates'[j].order # operation.order
      BY <1>1, <1>7 DEF WriteOrdered, OrderedPhases
    <3>1. operation.order > 0 /\ operation.order \in Nat
      BY <1>1, Fields DEF WriteOrdered, OrderedPhases
    <3>2. CASE j \in 1..n
      BY <1>1, <1>2, <1>3, <3>2 DEF WriteOrdered, OrderedPhases
    <3>3. CASE j - n \in 1..Len(us) /\ updates'[j] = us[j - n]
      BY <3>1, <3>3
    <3> QED BY <1>4, <3>2, <3>3
  <2>2. ASSUME Written, ~doubt, NEW j \in DOMAIN updates'
        PROVE  After(updates[j], operation.order)'
    <3>1. CASE j \in 1..n
      BY <1>1, <1>2, <1>3, <2>2, <3>1 DEF WriteOrdered, After
    <3>2. CASE j - n \in 1..Len(us) /\ updates'[j] = us[j - n]
      BY <3>2 DEF After
    <3> QED BY <1>4, <3>1, <3>2
  <2>3. (Written' <=> Written) /\ (Written => operation.message \in Messages)
    BY <1>1 DEF Written, WriteOrdered
  <2>4. ASSUME Written, ~doubt, ~lost, recon.coverage = "complete", NEW x, x = operation.message
        PROVE  \/ server'[x].state =
                    IF operation.action = "cancel" THEN "cancelled" ELSE "scheduled"
               \/ \E j \in DOMAIN updates' : Waits(j, x)'
               \/ Newer(rows[x].order, recon.snapshot) > operation.order
               \/ rows[x].state = "published"
    <3>1. CASE x = m
      BY <1>7, <3>1
    <3>2. CASE x # m
      <4>1. \/ server[x].state = IF operation.action = "cancel" THEN "cancelled" ELSE "scheduled"
            \/ \E j \in DOMAIN updates : Waits(j, x)
            \/ Newer(rows[x].order, recon.snapshot) > operation.order
            \/ rows[x].state = "published"
        BY <1>1, <2>4 DEF WriteOrdered
      <4>2. server'[x] = server[x]
        BY <1>5, <2>3, <2>4, <3>2
      <4>3. (\E j \in DOMAIN updates : Waits(j, x)) => \E j \in DOMAIN updates' : Waits(j, x)'
        <5> SUFFICES ASSUME NEW j \in DOMAIN updates, Waits(j, x)
                     PROVE  j \in DOMAIN updates' /\ Waits(j, x)'
          OBVIOUS
        <5> QED BY <1>2, <1>3, <1>8, <3>2
      <4> QED BY <4>1, <4>2, <4>3
    <3> QED BY <3>1, <3>2
  <2> QED BY <2>1, <2>2, <2>3, <2>4 DEF WriteOrdered, OrderedPhases, Newer, Waits
<1>14. \A x : Exposed(x)' <=> Exposed(x)
  BY DEF Exposed, Written, OfferNeeded
<1>15. AnswerKept'
  <2> SUFFICES ASSUME Unmoved, attempt.phase = "answered", ~doubt, ~lost, NEW x \in Messages
               PROVE  Exposed(x)' \/ SnapshotRight(x)'
    BY DEF AnswerKept, Unmoved, Captured
  <2>1. Exposed(x) \/ SnapshotRight(x)
    BY <1>1 DEF AnswerKept
  <2>2. (x = m \/ Comes(x, attempt.order)) => Comes(x, attempt.order)'
    BY <1>12 DEF Comes, After
  <2> QED BY <1>5, <1>14, <2>1, <2>2 DEF SnapshotRight
<1>16. MirrorKept'
  <2> SUFFICES ASSUME ~doubt, ~lost, recon.coverage = "complete",
                      boot = "recovering" => InterruptedKeys = {}, NEW x \in Messages
               PROVE  Exposed(x)' \/ RowRight(x)'
    BY DEF MirrorKept, InterruptedKeys
  <2>1. Exposed(x) \/ RowRight(x)
    BY <1>1 DEF MirrorKept
  <2>2. (x = m \/ Comes(x, Newer(rows[x].order, recon.snapshot)))
           => Comes(x, Newer(rows[x].order, recon.snapshot))'
    BY <1>12 DEF Comes, After, Newer
  <2> QED BY <1>5, <1>14, <2>1, <2>2 DEF RowRight, Same
<1>17. StartKept' /\ UnknownIsDue' /\ InterruptedIsRecovered'
  BY <1>1 DEF StartKept, UnknownIsDue, InterruptedIsRecovered, InterruptedKeys
<1> QED BY <1>6, <1>9, <1>10, <1>11, <1>13, <1>15, <1>16, <1>17 DEF QueueInv

LEMMA OtherStep ==
    ASSUME QueueInv, parked' \in Nat \cup {-1}, OtherClient
    PROVE  QueueInv'
<1>1. server \in [Messages -> ServerRecords]
  BY DEF QueueInv, QueueTypeOK
<1>2. UNCHANGED <<lost, rows, evidence, recon, attempt, operation, receipts, order, boot, sends,
                  doubt>>
  BY DEF OtherClient, mirror
<1>3. PICK m \in Messages :
         \/ /\ server[m].state \in {"absent", "scheduled"}
            /\ server' = [server EXCEPT ![m] = [state |-> "scheduled", rev |-> server[m].rev + 1]]
            /\ Push(<<Update("new", m, server[m].rev + 1)>>)
         \/ /\ server[m].state = "scheduled"
            /\ server' = [server EXCEPT ![m].state = "cancelled"]
            /\ Push(<<Update("cancelled", m, 0)>>)
         \/ /\ server[m].state = "scheduled"
            /\ server' = [server EXCEPT ![m].state = "published"]
            /\ \/ Push(<<Update("published", m, 0), Update("sent", m, 0)>>)
               \/ Push(<<Update("sent", m, 0), Update("published", m, 0)>>)
  BY DEF OtherClient
<1>4. server[m] \in ServerRecords /\ server[m].rev \in Nat /\ server[m].rev + 1 \in Nat
  BY <1>1 DEF ServerRecords
<1>5. \A kind \in {"new", "cancelled", "published", "sent"}, rev \in Nat :
         LET u == Update(kind, m, rev)
         IN  u \in UpdateRecords /\ u.kind = kind /\ u.message = m /\ u.rev = rev /\ u.order = 0
  BY DEF Update, UpdateRecords
<1>6. CASE /\ server[m].state \in {"absent", "scheduled"}
           /\ server' = [server EXCEPT ![m] = [state |-> "scheduled", rev |-> server[m].rev + 1]]
           /\ Push(<<Update("new", m, server[m].rev + 1)>>)
  <2> DEFINE s == [state |-> "scheduled", rev |-> server[m].rev + 1]
             u == Update("new", m, server[m].rev + 1)
  <2>1. s \in ServerRecords /\ s.state = "scheduled" /\ s.rev = server[m].rev + 1
    BY <1>4 DEF ServerRecords
  <2>2. u \in UpdateRecords /\ u.kind = "new" /\ u.message = m /\ u.rev = s.rev /\ u.order = 0
    BY <1>4, <1>5
  <2>3. server' = [server EXCEPT ![m] = s] /\ Push(<<u>>) /\ server[m].state # "published"
    BY <1>6
  <2> HIDE DEF s, u
  <2> DEFINE us == <<u>>
  <2>4. us \in Seq(UpdateRecords) /\ Len(us) = 1 /\ us[1] = u /\ Push(us)
    BY <2>2, <2>3
  <2> HIDE DEF us
  <2>5. Tells(us[1], s)
    BY <2>1, <2>2, <2>4 DEF Tells
  <2>6. 1 \in 1..Len(us) /\ \A i \in 1..Len(us) : us[i] = u /\ i <= 1
    BY <2>4
  <2> QED BY <1>2, <2>1, <2>2, <2>3, <2>4, <2>5, <2>6, PushStep
<1>7. CASE /\ server[m].state = "scheduled" /\ server' = [server EXCEPT ![m].state = "cancelled"]
           /\ Push(<<Update("cancelled", m, 0)>>)
  <2> DEFINE s == [server[m] EXCEPT !.state = "cancelled"]
             u == Update("cancelled", m, 0)
  <2>1. s \in ServerRecords /\ s.state = "cancelled"
    BY <1>4 DEF ServerRecords
  <2>2. u \in UpdateRecords /\ u.kind = "cancelled" /\ u.message = m /\ u.order = 0
    BY <1>5
  <2>3. server' = [server EXCEPT ![m] = s] /\ Push(<<u>>) /\ server[m].state # "published"
    BY <1>7
  <2> HIDE DEF s, u
  <2> DEFINE us == <<u>>
  <2>4. us \in Seq(UpdateRecords) /\ Len(us) = 1 /\ us[1] = u /\ Push(us)
    BY <2>2, <2>3
  <2> HIDE DEF us
  <2>5. Tells(us[1], s)
    BY <2>1, <2>2, <2>4 DEF Tells
  <2>6. 1 \in 1..Len(us) /\ \A i \in 1..Len(us) : us[i] = u /\ i <= 1
    BY <2>4
  <2> QED BY <1>2, <2>1, <2>2, <2>3, <2>4, <2>5, <2>6, PushStep
<1>8. ASSUME NEW s, s = [server[m] EXCEPT !.state = "published"],
             server[m].state = "scheduled", server' = [server EXCEPT ![m] = s],
             NEW u, u = Update("published", m, 0), NEW v, v = Update("sent", m, 0),
             Push(<<u, v>>) \/ Push(<<v, u>>)
      PROVE  QueueInv'
  <2>1. s \in ServerRecords /\ s.state = "published"
    BY <1>4, <1>8 DEF ServerRecords
  <2>2. /\ u \in UpdateRecords /\ u.kind = "published" /\ u.message = m /\ u.order = 0
        /\ v \in UpdateRecords /\ v.kind = "sent" /\ v.message = m /\ v.order = 0
    BY <1>5, <1>8
  <2>3. Tells(u, s) /\ server[m].state # "published"
    BY <1>8, <2>1, <2>2 DEF Tells
  <2>4. CASE Push(<<u, v>>)
    <3> DEFINE us == <<u, v>>
    <3>1. us \in Seq(UpdateRecords) /\ Len(us) = 2 /\ us[1] = u /\ us[2] = v
      BY <2>2
    <3>2. Push(us)
      BY <2>4
    <3> HIDE DEF us
    <3>3. \A i \in 1..Len(us) : us[i] \in {u, v} /\ (us[i].kind # "sent" => i <= 1)
      BY <2>2, <3>1
    <3>4. 1 \in 1..Len(us)
      BY <3>1
    <3> QED BY <1>2, <1>8, <2>1, <2>2, <2>3, <3>1, <3>2, <3>3, <3>4, PushStep
  <2>5. CASE Push(<<v, u>>)
    <3> DEFINE us == <<v, u>>
    <3>1. us \in Seq(UpdateRecords) /\ Len(us) = 2 /\ us[1] = v /\ us[2] = u
      BY <2>2
    <3>2. Push(us)
      BY <2>5
    <3> HIDE DEF us
    <3>3. \A i \in 1..Len(us) : us[i] \in {u, v} /\ (us[i].kind # "sent" => i <= 2)
      BY <2>2, <3>1
    <3>4. 2 \in 1..Len(us)
      BY <3>1
    <3> QED BY <1>2, <1>8, <2>1, <2>2, <2>3, <3>1, <3>2, <3>3, <3>4, PushStep
  <2> QED BY <1>8, <2>4, <2>5
<1> QED BY <1>3, <1>6, <1>7, <1>8

\* The request is handled: what it changes is exposed from then on.
LEMMA WriteStep ==
    ASSUME QueueInv, parked' \in Nat \cup {-1},
           NEW m \in Messages, NEW s \in ServerRecords, server[m].state # "published",
           server' = [server EXCEPT ![m] = s], operation.phase = "sent",
           operation' \in OperationRecords, operation'.phase = "handled",
           operation'.reply = "applied", operation'.message = m,
             operation'.order = operation.order,
           operation'.key = operation.key, operation'.action = operation.action,
           operation'.permit = "none", ~operation'.confirmed, operation'.sent,
           doubt' \in BOOLEAN, doubt => doubt', ~doubt' => updates = <<>>,
           s.state = IF operation.action = "cancel" THEN "cancelled" ELSE "scheduled",
           UNCHANGED <<updates, lost, rows, evidence, recon, attempt, receipts, order, boot,
             sends>>
    PROVE  QueueInv'
<1>1. /\ QueueTypeOK /\ OperationHeld /\ OrdersGiven /\ AttemptKept /\ AnswerKept /\ StartKept
      /\ MirrorKept /\ UpdatesTell /\ InterruptedIsRecovered /\ UnknownIsDue /\ WriteOrdered
  BY DEF QueueInv
<1>2. server \in [Messages -> ServerRecords] /\ server'[m] = s
      /\ \A x \in Messages : x # m => server'[x] = server[x]
  BY <1>1 DEF QueueTypeOK
<1>3. QueueTypeOK' /\ OrdersGiven'
  BY <1>1, <1>2 DEF QueueTypeOK, OrdersGiven
<1>4. ~doubt' => DOMAIN updates' = {}
  OBVIOUS
<1>5. UpdatesTell'
  <2>1. ASSUME NEW x \in Messages, server[x].state = "published"
                 PROVE server'[x].state = "published"
    BY <1>2, <2>1
  <2>2. \A j \in DOMAIN updates : updates[j] \in UpdateRecords
    BY <1>1, Fields
  <2>3. ASSUME NEW j \in DOMAIN updates, updates[j].kind \in {"published", "sent"}
        PROVE  server'[updates[j].message].state = "published"
    BY <1>1, <2>1, <2>2, <2>3 DEF UpdatesTell, UpdateRecords
  <2>4. ASSUME NEW x \in Messages, x \in evidence \/ rows[x].state = "published"
        PROVE  server'[x].state = "published"
    BY <1>1, <2>1, <2>4 DEF UpdatesTell
  <2> QED BY <1>4, <2>3, <2>4 DEF UpdatesTell
<1>6. OperationHeld'
  BY <1>1 DEF OperationHeld
<1>7. WriteOrdered'
  <2>1. /\ \A x \in Messages : rows[x].order # operation.order
        /\ \A j \in DOMAIN updates : updates[j].order # operation.order
        /\ attempt.order # operation.order /\ operation.order > 0
    BY <1>1 DEF WriteOrdered
  <2>2. server'[operation'.message].state =
           IF operation'.action = "cancel" THEN "cancelled" ELSE "scheduled"
    BY <1>2
  <2> QED BY <1>4, <2>1, <2>2 DEF WriteOrdered, After
<1>8. AttemptKept'
  BY <1>1 DEF AttemptKept, Captured, Unmoved, OnTheWire
<1>9. /\ Exposed(m)' /\ \A x : ~Exposed(x)
  BY DEF Exposed, Written
<1>10. AnswerKept'
  <2> SUFFICES ASSUME Unmoved, attempt.phase = "answered", ~doubt', ~lost, NEW x \in Messages,
                        x # m
               PROVE  SnapshotRight(x)'
    BY <1>9 DEF AnswerKept, Unmoved, Captured
  <2>1. SnapshotRight(x)
    BY <1>1, <1>9 DEF AnswerKept
  <2>2. Comes(x, attempt.order)' <=> Comes(x, attempt.order)
    BY DEF Comes, Last, Waits, After
  <2> QED BY <1>2, <2>1, <2>2 DEF SnapshotRight
<1>11. MirrorKept'
  <2> SUFFICES ASSUME ~doubt', ~lost, recon.coverage = "complete",
                      boot = "recovering" => InterruptedKeys = {}, NEW x \in Messages, x # m
               PROVE  RowRight(x)'
    BY <1>9 DEF MirrorKept, InterruptedKeys
  <2>1. RowRight(x)
    BY <1>1, <1>9 DEF MirrorKept
  <2>2. Comes(x, Newer(rows[x].order, recon.snapshot))' <=>
          Comes(x, Newer(rows[x].order, recon.snapshot))
    BY DEF Comes, Last, Waits, After, Newer
  <2> QED BY <1>2, <2>1, <2>2 DEF RowRight, Same
<1>12. StartKept' /\ UnknownIsDue' /\ InterruptedIsRecovered'
  BY <1>1 DEF StartKept, UnknownIsDue, InterruptedIsRecovered, InterruptedKeys
<1> QED BY <1>3, <1>5, <1>6, <1>7, <1>8, <1>10, <1>11, <1>12 DEF QueueInv

LEMMA HandledStep ==
    ASSUME QueueInv, parked' \in Nat \cup {-1}, Handled
    PROVE  QueueInv'
<1>1. /\ QueueTypeOK /\ OperationHeld /\ operation \in OperationRecords /\ doubt \in BOOLEAN
      /\ server \in [Messages -> ServerRecords]
  BY DEF QueueInv, QueueTypeOK
<1>2. /\ operation.phase = "sent" /\ doubt' = (doubt \/ (server' # server /\ updates # <<>>))
      /\ UNCHANGED <<updates, lost, rows, evidence, recon, attempt, receipts, order, boot, sends>>
  BY DEF Handled, mirror
<1>3. operation.permit = "none" /\ ~operation.confirmed /\ operation.sent /\ doubt' \in BOOLEAN
  BY <1>1, <1>2 DEF OperationHeld, QueueTypeOK
<1>4. PICK m \in Messages :
         \/ /\ operation.action = "create" /\ server[m].state = "absent"
            /\ server' = [server EXCEPT ![m] = [state |-> "scheduled", rev |-> 1]]
            /\ operation' = [operation EXCEPT !.phase = "handled", !.message = m,
                 !.reply = "applied"]
         \/ /\ operation.action # "create" /\ m = operation.message
                 /\ server[m].state # "scheduled"
            /\ operation' = [operation EXCEPT !.phase = "handled", !.reply = "refused"]
            /\ UNCHANGED server
         \/ /\ operation.action # "create" /\ m = operation.message
                 /\ server[m].state = "scheduled"
            /\ server' = [server EXCEPT ![m] = IF operation.action = "update"
                                               THEN [server[m] EXCEPT !.rev = @ + 1]
                                               ELSE [server[m] EXCEPT !.state = "cancelled"]]
            /\ operation' = [operation EXCEPT !.phase = "handled", !.reply = "applied"]
  <2>1. PICK m \in Messages :
         IF operation.action = "create" THEN
            /\ server[m].state = "absent"
            /\ server' = [server EXCEPT ![m] = [state |-> "scheduled", rev |-> 1]]
            /\ operation' = [operation EXCEPT !.phase = "handled", !.message = m,
                 !.reply = "applied"]
         ELSE
            /\ m = operation.message
            /\ IF server[m].state # "scheduled"
               THEN /\ operation' = [operation EXCEPT !.phase = "handled", !.reply = "refused"]
                    /\ UNCHANGED server
               ELSE /\ server' = [server EXCEPT ![m] =
                                    IF operation.action = "update"
                                    THEN [server[m] EXCEPT !.rev = @ + 1]
                                    ELSE [server[m] EXCEPT !.state = "cancelled"]]
                    /\ operation' = [operation EXCEPT !.phase = "handled", !.reply = "applied"]
    BY DEF Handled
  <2> QED BY <2>1
<1>5. server[m] \in ServerRecords /\ server[m].rev \in Nat /\ server[m].rev + 1 \in Nat
  BY <1>1 DEF ServerRecords
<1>6. ASSUME NEW s \in ServerRecords, s # server[m], server' = [server EXCEPT ![m] = s],
             server[m].state \in {"absent", "scheduled"},
             s.state = IF operation.action = "cancel" THEN "cancelled" ELSE "scheduled",
             operation' = [operation EXCEPT !.phase = "handled", !.message = m,
               !.reply = "applied"]
      PROVE  QueueInv'
  <2>1. server'[m] = s /\ server' # server
    BY <1>1, <1>6
  <2>2. ~doubt' => updates = <<>>
    BY <1>2, <2>1
  <2>3. /\ operation' \in OperationRecords /\ operation'.phase = "handled"
        /\ operation'.reply = "applied" /\ operation'.message = m
        /\ operation'.order = operation.order /\ operation'.key = operation.key
        /\ operation'.action = operation.action /\ operation'.permit = operation.permit
        /\ operation'.confirmed = operation.confirmed /\ operation'.sent = operation.sent
    BY <1>1, <1>6 DEF OperationRecords
  <2> QED BY <1>2, <1>3, <1>6, <2>2, <2>3, WriteStep
<1>7. CASE /\ operation.action = "create" /\ server[m].state = "absent"
           /\ server' = [server EXCEPT ![m] = [state |-> "scheduled", rev |-> 1]]
           /\ operation' = [operation EXCEPT !.phase = "handled", !.message = m,
                !.reply = "applied"]
  <2> DEFINE s == [state |-> "scheduled", rev |-> 1]
  <2>1. s \in ServerRecords /\ s.state = "scheduled"
    BY DEF ServerRecords
  <2>2. server' = [server EXCEPT ![m] = s]
    BY <1>7
  <2> HIDE DEF s
  <2> QED BY <1>6, <1>7, <2>1, <2>2
<1>8. CASE /\ operation.action # "create" /\ m = operation.message
                /\ server[m].state # "scheduled"
           /\ operation' = [operation EXCEPT !.phase = "handled", !.reply = "refused"]
           /\ UNCHANGED server
  <2>1. /\ operation' \in OperationRecords /\ operation'.phase = "handled"
        /\ operation'.reply = "refused" /\ operation'.message = m
        /\ operation'.order = operation.order /\ operation'.key = operation.key
        /\ operation'.action = operation.action /\ operation'.permit = operation.permit
        /\ operation'.confirmed = operation.confirmed /\ operation'.sent = operation.sent
    BY <1>1, <1>8 DEF OperationRecords
  <2>2. OperationHeld'
    BY <1>1, <1>2, <1>3, <2>1 DEF OperationHeld
  <2>3. ~Written' /\ \A x : ~Exposed(x)
    BY <1>2, <2>1 DEF Written, Exposed
  <2> QED BY <1>1, <1>2, <1>3, <1>8, <2>1, <2>2, <2>3, OperationStep
         DEF QueueTypeOK, OrderedPhases, OnTheWire
<1>9. CASE /\ operation.action # "create" /\ m = operation.message
                /\ server[m].state = "scheduled"
           /\ server' = [server EXCEPT ![m] = IF operation.action = "update"
                                              THEN [server[m] EXCEPT !.rev = @ + 1]
                                              ELSE [server[m] EXCEPT !.state = "cancelled"]]
           /\ operation' = [operation EXCEPT !.phase = "handled", !.reply = "applied"]
  <2>1. operation' = [operation EXCEPT !.phase = "handled", !.message = m, !.reply = "applied"]
    BY <1>1, <1>9 DEF OperationRecords
  <2>2. operation.action \in {"update", "cancel"}
    BY <1>1, <1>9 DEF OperationRecords, CommandActions
  <2>3. CASE operation.action = "update"
    <3> DEFINE s == [server[m] EXCEPT !.rev = server[m].rev + 1]
    <3>1. s \in ServerRecords /\ s.state = "scheduled" /\ s.rev # server[m].rev
      BY <1>5, <1>9 DEF ServerRecords
    <3>2. server' = [server EXCEPT ![m] = s]
      BY <1>9, <2>3
    <3> HIDE DEF s
    <3> QED BY <1>6, <1>9, <2>1, <2>3, <3>1, <3>2
  <2>4. CASE operation.action = "cancel"
    <3> DEFINE s == [server[m] EXCEPT !.state = "cancelled"]
    <3>1. s \in ServerRecords /\ s.state = "cancelled"
      BY <1>5 DEF ServerRecords
    <3>2. server' = [server EXCEPT ![m] = s]
      BY <1>9, <2>4
    <3> HIDE DEF s
    <3> QED BY <1>6, <1>9, <2>1, <2>4, <3>1, <3>2
  <2> QED BY <2>2, <2>3, <2>4
<1> QED BY <1>4, <1>7, <1>8, <1>9

-----------------------------------------------------------------------------
(* An update is applied *)

\* What is left of the updates when the first of them is taken
LEMMA TailFacts ==
    ASSUME QueueTypeOK, updates # <<>>, updates' = Tail(updates)
    PROVE  /\ 1 \in DOMAIN updates /\ Head(updates) = updates[1]
                /\ updates' \in Seq(UpdateRecords)
           /\ \A j \in DOMAIN updates' : j + 1 \in DOMAIN updates /\ updates'[j] = updates[j + 1]
                                         /\ j \in Nat
           /\ \A j \in DOMAIN updates :
                 j # 1 => j - 1 \in DOMAIN updates' /\ updates'[j - 1] = updates[j] /\ j > 1
BY DEF QueueTypeOK

LEMMA TailWaits ==
    ASSUME QueueTypeOK, updates # <<>>, updates' = Tail(updates), NEW x
    PROVE  /\ \A j \in DOMAIN updates' : Last(j, x)' => Last(j + 1, x)
           /\ \A j \in DOMAIN updates : (Waits(j, x) /\ j # 1) => Waits(j - 1, x)'
           /\ \A o : Comes(x, o) => Comes(x, o)' \/ (Last(1, x) /\ After(updates[1], o))
           /\ \A j \in DOMAIN updates : (Last(j, x) /\ j # 1) => Last(j - 1, x)'
<1>1. \A j \in DOMAIN updates' : /\ j + 1 \in DOMAIN updates /\ j \in Nat
                                 /\ Waits(j, x)' <=> Waits(j + 1, x)
  BY TailFacts DEF Waits
<1>2. \A j \in DOMAIN updates : j \in Nat /\ (j # 1 => j - 1 \in DOMAIN updates' /\ j > 1
                                               /\ (Waits(j - 1, x)' <=> Waits(j, x)))
  <2>1. \A j \in DOMAIN updates : j \in Nat
    BY Fields
  <2> QED BY <2>1, TailFacts DEF Waits
<1>3. ASSUME NEW j \in DOMAIN updates', Last(j, x)'
      PROVE  Last(j + 1, x)
  <2>1. Waits(j, x)' /\ \A i \in DOMAIN updates' : Waits(i, x)' => i <= j
    BY <1>3 DEF Last
  <2>2. ASSUME NEW i \in DOMAIN updates, Waits(i, x)
        PROVE  i <= j + 1
    <3>1. CASE i = 1
      BY <1>1, <3>1
    <3>2. CASE i # 1
      <4>1. i - 1 <= j
        BY <1>2, <2>1, <2>2, <3>2
      <4> QED BY <1>1, <1>2, <4>1
    <3> QED BY <3>1, <3>2
  <2> QED BY <1>1, <2>1, <2>2 DEF Last
<1>4. ASSUME NEW j \in DOMAIN updates, Last(j, x), j # 1
      PROVE  Last(j - 1, x)'
  <2>1. Waits(j, x) /\ \A i \in DOMAIN updates : Waits(i, x) => i <= j
    BY <1>4 DEF Last
  <2>2. ASSUME NEW i \in DOMAIN updates', Waits(i, x)'
        PROVE  i <= j - 1
    <3>1. i + 1 <= j
      BY <1>1, <2>1, <2>2
    <3> QED BY <1>1, <1>2, <3>1
  <2> QED BY <1>2, <1>4, <2>1, <2>2 DEF Last
<1>5. ASSUME NEW o, Comes(x, o)
      PROVE  Comes(x, o)' \/ (Last(1, x) /\ After(updates[1], o))
  <2>1. PICK j \in DOMAIN updates : Last(j, x) /\ After(updates[j], o)
    BY <1>5 DEF Comes
  <2>2. CASE j # 1
    <3>1. j - 1 \in DOMAIN updates' /\ updates'[j - 1] = updates[j]
      BY <2>2, TailFacts
    <3>2. After(updates[j - 1], o)'
      BY <2>1, <3>1 DEF After
    <3> QED BY <1>4, <2>1, <2>2, <3>1, <3>2 DEF Comes
  <2> QED BY <2>1, <2>2
<1> QED BY <1>2, <1>3, <1>4, <1>5

LEMMA DeliveredFacts ==
    ASSUME QueueTypeOK, NEW u \in UpdateRecords, NEW N, N = Delivered(u)
    PROVE  LET m == u.message
           IN  /\ N \in MirrorRecords /\ Stands(recon, N.recon) /\ Loses(operation, N.operation)
               /\ \A x \in Messages : x # m => N.rows[x] = rows[x]
               /\ N.recon.generation = recon.generation =>
                     N.rows = rows /\ N.recon = recon /\ N.operation = operation
               /\ N.operation.permit = "valid" =>
                     (N.rows = rows /\ N.recon = recon) \/ N.operation.message # m
               /\ UpdateAccepted(u) =>
                     /\ N.rows[m].order = u.order
                     /\ u.kind = "new" => N.rows[m].state = "scheduled" /\ N.rows[m].rev = u.rev
                     /\ u.kind # "new" => N.rows[m].state # "scheduled"
               /\ ~UpdateAccepted(u) =>
                     \/ N.rows = rows
                     \/ /\ N.rows[m].order = rows[m].order
                        /\ rows[m].state = "unknown_missing" /\ N.rows[m].state = "published"
               /\ N.evidence = evidence \/ (u.kind = "sent" /\ N.evidence = evidence \cup {m})
               /\ N.rows[m].state = "published" => rows[m].state = "published" \/ m \in N.evidence
               /\ rows[m].state = "published" => N.rows[m].state = "published"
<1> DEFINE m == u.message
<1>1. /\ Mirror \in MirrorRecords /\ Mirror.rows = rows /\ Mirror.evidence = evidence
      /\ Mirror.recon = recon /\ Mirror.operation = operation
      /\ recon \in ReconRecords /\ operation \in OperationRecords
      /\ rows \in [Messages -> RowRecords] /\ recon.generation \in Nat
  BY MirrorIsTyped, Fields DEF QueueTypeOK
<1>2. /\ m \in Messages /\ u.rev \in Nat /\ u.order \in Nat
      /\ u.kind \in {"new", "cancelled", "published", "sent"}
  BY DEF UpdateRecords
<1> HIDE DEF m
<1>3. ASSUME Touches(Mirror, N, m)
      PROVE  /\ N \in MirrorRecords /\ Stands(recon, N.recon) /\ Loses(operation, N.operation)
             /\ \A x \in Messages : x # m => N.rows[x] = rows[x]
             /\ N.recon.generation # recon.generation
             /\ N.operation.permit = "valid" => N.operation.message # m
  <2>1. /\ N \in MirrorRecords /\ Stands(recon, N.recon) /\ Loses(operation, N.operation)
        /\ N.rows = [rows EXCEPT ![m] = N.rows[m]]
        /\ N.recon.generation > recon.generation
        /\ N.operation.permit = "valid" => N.operation.message # m
    BY <1>1, <1>3 DEF Touches
  <2>2. N.recon.generation \in Nat
    BY <2>1 DEF MirrorRecords, ReconRecords
  <2>3. \A x \in Messages : x # m => N.rows[x] = rows[x]
    BY <1>1, <2>1
  <2> QED BY <1>1, <2>1, <2>2, <2>3
<1>4. N = Mirror =>
        N \in MirrorRecords /\ Stands(recon, N.recon) /\ Loses(operation, N.operation)
                    /\ N.rows = rows /\ N.recon = recon /\ N.operation = operation
  BY <1>1, SameReconMoves, RevokeFacts
<1>5. CASE u.kind = "new"
  <2>1. N = Upsert(Mirror, m, u.rev, u.order)
    BY <1>5 DEF Delivered, m
  <2>2. /\ ~ObservationCurrent(Mirror, m, u.order) => N = Mirror
        /\ ObservationCurrent(Mirror, m, u.order) =>
             /\ Touches(Mirror, N, m) /\ N.rows[m].order = u.order /\ N.evidence = Mirror.evidence
             /\ N.rows[m].state = "scheduled" /\ N.rows[m].rev = u.rev
    BY <1>1, <1>2, <2>1, UpsertFacts
  <2>3. ObservationCurrent(Mirror, m, u.order) => rows[m].state # "published"
    BY <1>1 DEF ObservationCurrent
  <2> QED BY <1>1, <1>2, <1>3, <1>4, <1>5, <2>2, <2>3 DEF UpdateAccepted, m
<1>6. CASE u.kind = "sent"
  <2>1. N = Verified(Mirror, m)
    BY <1>6 DEF Delivered, m
  <2>2. /\ N.evidence = evidence \cup {m} /\ N \in MirrorRecords
        /\ \/ N.rows = rows /\ N.recon = recon /\ N.operation = operation
           \/ /\ Touches(Mirror, N, m) /\ N.rows[m].order = rows[m].order
              /\ rows[m].state = "unknown_missing" /\ N.rows[m].state = "published"
    BY <1>1, <1>2, <2>1, VerifiedFacts
  <2>3. Stands(recon, recon) /\ Loses(operation, operation)
    BY <1>1, SameReconMoves, RevokeFacts
  <2>4. m \in N.evidence
    BY <2>2
  <2> QED BY <1>1, <1>2, <1>3, <1>6, <2>2, <2>3, <2>4 DEF UpdateAccepted, m
<1>7. CASE u.kind \notin {"new", "sent"}
  <2>1. PICK hint \in BOOLEAN : hint = (u.kind = "published")
    OBVIOUS
  <2>2. N = Removed(Mirror, m, hint, u.order)
    BY <1>7, <2>1 DEF Delivered, m
  <2>3. /\ ~ObservationCurrent(Mirror, m, u.order) => N = Mirror
        /\ ObservationCurrent(Mirror, m, u.order) =>
             /\ Touches(Mirror, N, m) /\ N.rows[m].order = u.order /\ N.evidence = Mirror.evidence
             /\ N.rows[m].state \in {"cancelled", "unknown_missing", "published"}
             /\ N.rows[m].state = "published" => m \in Mirror.evidence
    BY <1>1, <1>2, <2>2, RemovedFacts
  <2>4. ObservationCurrent(Mirror, m, u.order) => rows[m].state # "published"
    BY <1>1 DEF ObservationCurrent
  <2> QED BY <1>1, <1>2, <1>3, <1>4, <1>7, <2>3, <2>4 DEF UpdateAccepted, m
<1> QED BY <1>2, <1>5, <1>6, <1>7

LEMMA DeliverStep ==
    ASSUME QueueInv, parked' \in Nat \cup {-1}, DeliverUpdate
    PROVE  QueueInv'
<1>1. /\ QueueTypeOK /\ OperationHeld /\ OrdersGiven /\ AttemptKept /\ AnswerKept /\ StartKept
      /\ MirrorKept /\ UpdatesTell /\ InterruptedIsRecovered /\ UnknownIsDue /\ WriteOrdered
      /\ boot = "running" /\ recon \in ReconRecords /\ operation \in OperationRecords
      /\ rows \in [Messages -> RowRecords]
  BY DEF QueueInv, QueueTypeOK, DeliverUpdate
<1>2. /\ updates # <<>> /\ updates' = Tail(updates) /\ Head(updates).order > 0
      /\ UNCHANGED <<server, lost, attempt, receipts, order, boot, sends, doubt>>
  BY DEF DeliverUpdate
<1>3. /\ 1 \in DOMAIN updates /\ Head(updates) = updates[1] /\ updates' \in Seq(UpdateRecords)
      /\ \A j \in DOMAIN updates' : j + 1 \in DOMAIN updates /\ updates'[j] = updates[j + 1]
                                    /\ j \in Nat
      /\ \A j \in DOMAIN updates :
            j # 1 => j - 1 \in DOMAIN updates' /\ updates'[j - 1] = updates[j] /\ j > 1
  BY <1>1, <1>2, TailFacts
<1>4. PICK u \in UpdateRecords : u = updates[1]
  BY <1>1, <1>3, Fields
<1>5. PICK m \in Messages : m = u.message
  BY DEF UpdateRecords
<1>6. PICK N : N = Delivered(u)
  OBVIOUS
<1>7. rows' = N.rows /\ evidence' = N.evidence /\ recon' = N.recon /\ operation' = N.operation
  BY <1>3, <1>4, <1>6 DEF DeliverUpdate, Becomes, Delivered
<1>8. /\ N \in MirrorRecords /\ Stands(recon, N.recon) /\ Loses(operation, N.operation)
      /\ \A x \in Messages : x # m => N.rows[x] = rows[x]
      /\ N.recon.generation = recon.generation =>
            N.rows = rows /\ N.recon = recon /\ N.operation = operation
      /\ N.operation.permit = "valid" =>
            (N.rows = rows /\ N.recon = recon) \/ N.operation.message # m
      /\ UpdateAccepted(u) =>
            /\ N.rows[m].order = u.order
            /\ u.kind = "new" => N.rows[m].state = "scheduled" /\ N.rows[m].rev = u.rev
            /\ u.kind # "new" => N.rows[m].state # "scheduled"
      /\ ~UpdateAccepted(u) =>
            \/ N.rows = rows
            \/ /\ N.rows[m].order = rows[m].order
               /\ rows[m].state = "unknown_missing" /\ N.rows[m].state = "published"
      /\ N.evidence = evidence \/ (u.kind = "sent" /\ N.evidence = evidence \cup {m})
      /\ N.rows[m].state = "published" => rows[m].state = "published" \/ m \in N.evidence
      /\ rows[m].state = "published" => N.rows[m].state = "published"
  BY <1>1, <1>5, <1>6, DeliveredFacts
<1>9. /\ Moves(recon, recon') /\ recon'.snapshot = recon.snapshot
      /\ recon'.coverage = "complete" <=> recon.coverage = "complete"
      /\ recon'.access = recon.access /\ recon'.blocked = recon.blocked
      /\ recon'.authorization = recon.authorization
  BY <1>7, <1>8 DEF Stands, Moves
<1>10. u.order \in Nat /\ u.order > 0 /\ u.order <= order
  BY <1>1, <1>2, <1>3, <1>4 DEF OrdersGiven, UpdateRecords
<1>11. \A x \in Messages : rows'[x].order = rows[x].order \/ (x = m /\ rows'[x].order = u.order)
  BY <1>7, <1>8
<1>12. QueueTypeOK'
  <2>1. /\ rows' \in [Messages -> RowRecords] /\ evidence' \in SUBSET Messages
        /\ recon' \in ReconRecords
    BY <1>7, <1>8 DEF MirrorRecords
  <2>2. operation' \in OperationRecords
          /\ (operation'.permit # "none" <=> operation'.phase = "permitted")
    BY <1>1, <1>7, <1>8 DEF Loses, QueueTypeOK
  <2> QED BY <1>1, <1>2, <1>3, <2>1, <2>2 DEF QueueTypeOK
<1>13. /\ operation'.order = operation.order /\ operation'.phase = operation.phase
       /\ operation'.message = operation.message /\ operation'.action = operation.action
       /\ operation'.key = operation.key /\ operation'.confirmed = operation.confirmed
       /\ operation'.version = operation.version /\ operation'.result = operation.result
       /\ operation'.sent = operation.sent
       /\ (\A x : Exposed(x)' <=> Exposed(x))
       /\ (Written' <=> Written) /\ (OnTheWire' <=> OnTheWire)
  BY <1>7, <1>8 DEF Loses, Exposed, Written, OnTheWire, OfferNeeded
<1>14. OrdersGiven'
  <2>1. \A x \in Messages : rows'[x].order <= order
    BY <1>1, <1>10, <1>11 DEF OrdersGiven
  <2>2. \A j \in DOMAIN updates' : updates'[j].order <= order
    BY <1>1, <1>3 DEF OrdersGiven
  <2>3. ASSUME NEW i \in DOMAIN updates', NEW j \in DOMAIN updates', i < j, updates'[j].order > 0
        PROVE  updates'[i].order > 0 /\ updates'[i].order < updates'[j].order
    <3>1. i + 1 < j + 1
      BY <1>3, <2>3
    <3> QED BY <1>1, <1>3, <2>3, <3>1 DEF OrdersGiven
  <2> QED BY <1>1, <1>2, <1>9, <1>13, <2>1, <2>2, <2>3 DEF OrdersGiven
<1>15. UpdatesTell'
  <2>1. \A j \in DOMAIN updates' :
           updates'[j].kind \in {"published", "sent"} =>
             server'[updates'[j].message].state = "published"
    BY <1>1, <1>2, <1>3 DEF UpdatesTell
  <2>2. ASSUME ~doubt, NEW x \in Messages, NEW j \in DOMAIN updates', Last(j, x)'
        PROVE  Tells(updates[j], server[x])'
    <3>1. Last(j + 1, x) /\ j + 1 \in DOMAIN updates
      BY <1>1, <1>2, <1>3, <2>2, TailWaits
    <3>2. Tells(updates[j + 1], server[x])
      BY <1>1, <2>2, <3>1 DEF UpdatesTell
    <3> QED BY <1>2, <1>3, <3>2 DEF Tells
  <2>3. u.kind = "sent" => server[m].state = "published"
    BY <1>1, <1>3, <1>4, <1>5 DEF UpdatesTell
  <2>4. ASSUME NEW x \in Messages, x \in evidence' PROVE server[x].state = "published"
    BY <1>1, <1>7, <1>8, <2>3, <2>4 DEF UpdatesTell
  <2>5. ASSUME NEW x \in Messages, rows'[x].state = "published"
                 PROVE server[x].state = "published"
    BY <1>1, <1>7, <1>8, <2>4, <2>5 DEF UpdatesTell
  <2> QED BY <1>2, <2>1, <2>2, <2>4, <2>5 DEF UpdatesTell
<1>16. OperationHeld'
  <2>1. operation'.permit = "valid" =>
          StateKnown(operation.message)' /\ VersionSeen(operation.message)' = operation'.version
    <3> SUFFICES ASSUME operation'.permit = "valid"
                 PROVE  StateKnown(operation.message)'
                          /\ VersionSeen(operation.message)' = operation'.version
      OBVIOUS
    <3>1. StateKnown(operation.message) /\ VersionSeen(operation.message) = operation.version
      BY <1>1, <1>7, <1>8 DEF OperationHeld, Loses
    <3>2. operation.message = Unset \/ (operation.message \in Messages
                                         /\ rows'[operation.message] = rows[operation.message])
      BY <1>1, <1>7, <1>8, <1>13 DEF OperationRecords
    <3> QED BY <1>9, <1>13, <3>1, <3>2 DEF StateKnown, VersionSeen, Available
  <2> QED BY <1>1, <1>2, <1>13, <2>1 DEF OperationHeld
<1>17. WriteOrdered'
  <2>1. operation.phase \in OrderedPhases =>
           /\ \A x \in Messages : rows'[x].order # operation.order
           /\ \A j \in DOMAIN updates' : updates'[j].order # operation.order
           /\ attempt.order # operation.order /\ operation.order > 0
    <3> SUFFICES ASSUME operation.phase \in OrderedPhases
                 PROVE  /\ \A x \in Messages : rows'[x].order # operation.order
                        /\ \A j \in DOMAIN updates' : updates'[j].order # operation.order
      BY <1>1 DEF WriteOrdered, OrderedPhases
    <3>1. /\ \A x \in Messages : rows[x].order # operation.order
          /\ \A j \in DOMAIN updates : updates[j].order # operation.order
      BY <1>1 DEF WriteOrdered, OrderedPhases
    <3> QED BY <1>3, <1>4, <1>11, <3>1
  <2>2. ASSUME Written, ~doubt, NEW j \in DOMAIN updates'
        PROVE  After(updates[j], operation.order)'
    BY <1>1, <1>3, <1>13, <2>2 DEF WriteOrdered, After
  <2>3. Written => operation.message \in Messages
    BY <1>1 DEF WriteOrdered
  <2>4. ASSUME Written, ~doubt, ~lost, recon.coverage = "complete", NEW x, x = operation.message
        PROVE  \/ server[x].state =
                     IF operation.action = "cancel" THEN "cancelled" ELSE "scheduled"
               \/ \E j \in DOMAIN updates' : Waits(j, x)'
               \/ Newer(rows'[x].order, recon.snapshot) > operation.order
               \/ rows'[x].state = "published"
    <3>1. \/ server[x].state = IF operation.action = "cancel" THEN "cancelled" ELSE "scheduled"
          \/ \E j \in DOMAIN updates : Waits(j, x)
          \/ Newer(rows[x].order, recon.snapshot) > operation.order
          \/ rows[x].state = "published"
      BY <1>1, <2>4 DEF WriteOrdered
    <3>2. x \in Messages /\ operation.order \in Nat /\ recon.snapshot \in Nat
            /\ rows[x].order \in Nat
          /\ rows'[x].order \in Nat
      BY <1>1, <1>10, <1>11, <2>3, <2>4, Fields
    <3>3. u.order > operation.order
      BY <1>1, <1>3, <1>4, <1>10, <2>4 DEF WriteOrdered, After
    <3>4. CASE \E j \in DOMAIN updates : Waits(j, x) /\ j # 1
      BY <1>1, <1>2, <1>3, <3>4, TailWaits
    <3>5. CASE Waits(1, x)
      <4>1. x = m /\ u.kind # "sent"
        BY <1>4, <1>5, <3>5 DEF Waits
      <4>2. CASE UpdateAccepted(u)
        BY <1>7, <1>8, <3>2, <3>3, <4>1, <4>2 DEF Newer
      <4>3. CASE ~ObservationCurrent(Mirror, m, u.order)
        <5>1. rows[x].state = "published" \/ ~(u.order > Newer(rows[x].order, recon.snapshot))
          BY <1>1, <4>1, <4>3, MirrorIsTyped DEF ObservationCurrent
        <5>2. rows[x].state = "published" => rows'[x].state = "published"
          BY <1>7, <1>8, <4>1
        <5>3. rows'[x].order = rows[x].order
          BY <1>7, <1>8, <4>1, <4>3, <1>5 DEF UpdateAccepted
        <5> QED BY <1>10, <3>2, <3>3, <5>1, <5>2, <5>3 DEF Newer
      <4> QED BY <1>5, <4>1, <4>2, <4>3 DEF UpdateAccepted
    <3>6. CASE Newer(rows[x].order, recon.snapshot) > operation.order
      BY <1>10, <1>11, <3>2, <3>3, <3>6 DEF Newer
    <3>7. CASE rows[x].state = "published"
      BY <1>7, <1>8, <3>2, <3>7
    <3> QED BY <3>1, <3>4, <3>5, <3>6, <3>7
  <2> QED BY <1>2, <1>9, <1>13, <2>1, <2>2, <2>3, <2>4 DEF WriteOrdered, OrderedPhases, Newer, Waits
<1>18. (Unmoved)' => Unmoved /\ rows' = rows /\ recon' = recon /\ operation' = operation
  <2>1. recon'.generation \in Nat /\ recon'.generation >= recon.generation
          /\ recon.generation \in Nat
    BY <1>1, <1>9, Fields DEF Moves, ReconRecords
  <2>2. attempt.generation \in Nat /\ attempt.generation <= recon.generation
    BY <1>1, Fields DEF AttemptKept
  <2>3. (Unmoved)' => Captured /\ attempt.generation = recon'.generation
    BY <1>2 DEF Unmoved, Captured
  <2> QED BY <1>7, <1>8, <2>1, <2>2, <2>3 DEF Unmoved
<1>19. AttemptKept'
  <2>1. attempt.generation <= recon'.generation
    BY <1>1, <1>9, Fields DEF AttemptKept, Moves, ReconRecords
  <2>2. (Captured)' <=> Captured
    BY <1>2 DEF Captured
  <2> QED BY <1>1, <1>2, <1>9, <1>13, <1>18, <2>1, <2>2 DEF AttemptKept
<1>20. AnswerKept'
  <2> SUFFICES ASSUME Unmoved, rows' = rows, recon' = recon, operation' = operation,
                      attempt.phase = "answered", ~doubt, ~lost, NEW x \in Messages
               PROVE  Exposed(x)' \/ SnapshotRight(x)'
    BY <1>2, <1>18 DEF AnswerKept
  <2>1. Exposed(x) \/ SnapshotRight(x)
    BY <1>1 DEF AnswerKept
  <2>2. ASSUME Comes(x, attempt.order), ~Comes(x, attempt.order)'
        PROVE  rows[x].state = "published"
    <3>1. Last(1, x) /\ After(updates[1], attempt.order)
      <4>1. PICK o \in Nat : o = attempt.order
        BY <1>1, Fields
      <4>2. Comes(x, o) /\ ~Comes(x, o)'
        BY <1>2, <2>2, <4>1 DEF Comes, After
      <4> QED BY <1>1, <1>2, <4>1, <4>2, TailWaits
    <3>2. x = m /\ u.kind # "sent" /\ u.order > attempt.order
      BY <1>4, <1>5, <1>10, <3>1 DEF Last, Waits, After
    <3>3. ~UpdateAccepted(u)
      <4>1. UpdateAccepted(u) => rows[m].order = u.order
        BY <1>7, <1>8
      <4>2. rows[m].order < attempt.order
        BY <1>1 DEF AttemptKept
      <4> QED BY <1>1, <1>10, <3>2, <4>1, <4>2, Fields
    <3>4. rows[m].state = "published" \/ ~(u.order > Newer(rows[m].order, recon.snapshot))
      BY <1>1, <1>5, <3>2, <3>3, MirrorIsTyped DEF ObservationCurrent, UpdateAccepted
    <3>5. rows[m].order < attempt.order /\ recon.snapshot < attempt.order
      BY <1>1 DEF AttemptKept, Unmoved
    <3> QED BY <1>1, <1>10, <3>2, <3>4, <3>5, Fields DEF Newer
  <2> QED BY <1>2, <1>13, <2>1, <2>2 DEF SnapshotRight
<1>21. MirrorKept'
  <2> SUFFICES ASSUME ~doubt, ~lost, recon.coverage = "complete", NEW x \in Messages
               PROVE  Exposed(x)' \/ RowRight(x)'
    BY <1>2, <1>9 DEF MirrorKept
  <2>1. Exposed(x) \/ RowRight(x)
    BY <1>1 DEF MirrorKept
  <2> SUFFICES ASSUME RowRight(x) PROVE RowRight(x)'
    BY <1>13, <2>1
  <2>2. PICK o \in Nat : o = Newer(rows[x].order, recon.snapshot)
    BY <1>1, Fields DEF Newer
  <2>3. CASE rows'[x].order = rows[x].order /\ Comes(x, o)'
    BY <1>9, <2>2, <2>3 DEF RowRight, Comes, After, Newer
  <2>4. CASE rows'[x] = rows[x]
    <3>1. CASE Same(rows[x], server[x])
      BY <1>2, <2>4, <3>1 DEF RowRight, Same
    <3>2. CASE Comes(x, o) /\ ~Comes(x, o)'
      <4>1. Last(1, x) /\ After(updates[1], o)
        BY <1>1, <1>2, <3>2, TailWaits
      <4>2. x = m /\ u.kind # "sent" /\ u.order > o
        BY <1>4, <1>5, <1>10, <4>1 DEF Last, Waits, After
      <4>3. Tells(u, server[x])
        BY <1>1, <1>3, <1>4, <4>1 DEF UpdatesTell
      <4>4. CASE UpdateAccepted(u)
        BY <1>2, <1>7, <1>8, <4>2, <4>3, <4>4 DEF RowRight, Same, Tells
      <4>5. CASE ~UpdateAccepted(u)
        <5>1. rows[x].state = "published"
          BY <1>1, <1>5, <2>2, <4>2, <4>5, MirrorIsTyped DEF ObservationCurrent, UpdateAccepted
        <5>2. server[x].state = "published"
          BY <1>1, <5>1 DEF UpdatesTell
        <5> QED BY <1>2, <2>4, <5>1, <5>2 DEF RowRight, Same
      <4> QED BY <4>4, <4>5
    <3> QED BY <2>2, <2>3, <2>4, <3>1, <3>2 DEF RowRight
  <2>5. CASE x = m /\ ~UpdateAccepted(u) /\ rows[m].state = "unknown_missing"
               /\ rows'[m].state = "published"
    <3>1. server[x].state = "published"
      <4>1. m \in evidence'
        BY <1>7, <1>8, <2>5
      <4>2. u.kind = "sent" => server[m].state = "published"
        BY <1>1, <1>3, <1>4, <1>5 DEF UpdatesTell
      <4> QED BY <1>1, <1>7, <1>8, <2>5, <4>1, <4>2 DEF UpdatesTell
    <3> QED BY <1>2, <2>5, <3>1 DEF RowRight, Same
  <2>6. CASE x = m /\ UpdateAccepted(u)
    <3>1. Waits(1, m) /\ rows'[m].order = u.order
      BY <1>3, <1>4, <1>5, <1>7, <1>8, <2>6 DEF UpdateAccepted, Waits
    <3>2. PICK j : Last(j, m) /\ 1 <= j
      BY <1>1, <3>1, LastExists
    <3>3. j \in DOMAIN updates
      BY <3>2 DEF Last, Waits
    <3>4. CASE j = 1
      <4>1. Tells(u, server[m])
        BY <1>1, <1>3, <1>4, <3>2, <3>4 DEF UpdatesTell
      <4> QED BY <1>2, <1>7, <1>8, <2>6, <4>1 DEF RowRight, Same, Tells
    <3>5. CASE j # 1
      <4>1. j - 1 \in DOMAIN updates' /\ updates'[j - 1] = updates[j] /\ j > 1
        BY <1>3, <3>3, <3>5
      <4>2. Last(j - 1, m)'
        BY <1>1, <1>2, <3>2, <3>3, <3>5, TailWaits
      <4>3. updates[j].order = 0 \/ updates[j].order > u.order
        <5>1. 1 \in DOMAIN updates /\ u = updates[1] /\ updates[j].order \in Nat
          BY <1>1, <1>3, <1>4, <3>3, Fields
        <5>2. updates[j].order > 0 => updates[1].order < updates[j].order
          BY <1>1, <3>3, <4>1, <5>1 DEF OrdersGiven
        <5> QED BY <1>10, <5>1, <5>2
      <4>4. Newer(rows'[m].order, recon'.snapshot) = u.order
        <5>1. u.order > Newer(rows[m].order, recon.snapshot)
          BY <1>1, <1>5, <2>6, MirrorIsTyped DEF UpdateAccepted, ObservationCurrent
        <5> QED BY <1>1, <1>9, <1>10, <3>1, <5>1, Fields DEF Newer
      <4> QED BY <2>6, <4>1, <4>2, <4>3, <4>4 DEF RowRight, Comes, After, Newer
    <3> QED BY <3>4, <3>5
  <2> QED BY <1>7, <1>8, <2>4, <2>5, <2>6
<1>22. StartKept' /\ InterruptedIsRecovered'
  BY <1>1, <1>2, <1>9 DEF StartKept, InterruptedIsRecovered
<1>23. UnknownIsDue'
  <2>1. DueHolds(recon)'
    BY <1>1, <1>9, DueMeans DEF Moves, DueHolds
  <2>2. UnknownIsDue' <=> DueHolds(recon)'
    BY DueMeans, PTL
  <2> QED BY <2>1, <2>2
<1> QED BY <1>12, <1>14, <1>15, <1>16, <1>17, <1>19, <1>20, <1>21, <1>22, <1>23 DEF QueueInv

-----------------------------------------------------------------------------
(* A snapshot is applied *)

LEMMA SnapshotRowFacts ==
    ASSUME QueueTypeOK, NEW m \in Messages, NEW row, row = SnapshotRow(m)
    PROVE  /\ row \in RowRecords /\ row.order \in {rows[m].order, attempt.order}
           /\ row.state = "published" <=> rows[m].state = "published"
           /\ ObservationCurrent(Mirror, m, attempt.order) =>
                /\ row.state = "scheduled" <=> m \in DOMAIN attempt.snapshot
                /\ row.state = "scheduled" => row.rev = attempt.snapshot[m]
<1>1. /\ rows[m] \in RowRecords /\ attempt.order \in Nat
      /\ m \in DOMAIN attempt.snapshot => attempt.snapshot[m] \in Nat
  <2>1. PICK D \in SUBSET Messages : attempt \in AttemptRecords(D)
    BY DEF QueueTypeOK
  <2>2. attempt.snapshot \in [D -> Nat]
    BY <2>1 DEF AttemptRecords
  <2> QED BY <2>2, Fields
<1>2. ObservationCurrent(Mirror, m, attempt.order) => rows[m].state # "published"
  BY MirrorIsTyped DEF ObservationCurrent, Mirror
<1>3. CASE ~ObservationCurrent(Mirror, m, attempt.order)
  BY <1>1, <1>3 DEF SnapshotRow
<1>4. CASE ObservationCurrent(Mirror, m, attempt.order) /\ m \in DOMAIN attempt.snapshot
  BY <1>1, <1>2, <1>4 DEF SnapshotRow, RowRecords
<1>5. CASE ObservationCurrent(Mirror, m, attempt.order) /\ m \notin DOMAIN attempt.snapshot
  BY <1>1, <1>2, <1>5 DEF SnapshotRow, RowRecords
<1> QED BY <1>3, <1>4, <1>5

\* The rows are those of an answer that is newer than all of them: each is right then,
\* or an update about its message is newer than the answer.
LEMMA AppliedStep ==
    ASSUME QueueInv, parked' \in Nat \cup {-1}, ApplySnapshot, SnapshotCurrent
    PROVE  QueueInv'
<1>1. /\ QueueTypeOK /\ OperationHeld /\ OrdersGiven /\ AttemptKept /\ AnswerKept
      /\ UpdatesTell /\ WriteOrdered
      /\ recon \in ReconRecords /\ operation \in OperationRecords
      /\ rows \in [Messages -> RowRecords]
  BY DEF QueueInv, QueueTypeOK
<1>2. /\ attempt.phase = "answered" /\ attempt' = NoAttempt /\ evidence' = evidence
      /\ operation' = RevokeDialog(operation)
      /\ rows' = [m \in Messages |-> SnapshotRow(m)]
      /\ recon' = [recon EXCEPT !.repair = "none", !.discovery = "none", !.coverage = "complete",
                                !.failing = FALSE, !.authorization = FALSE,
                                !.snapshot = attempt.order]
      /\ UNCHANGED <<server, updates, lost, receipts, order, boot, sends, doubt>>
  BY DEF ApplySnapshot, Becomes, Mirror, SnapshotRow
<1>3. /\ attempt.order \in Nat /\ order \in Nat /\ recon.snapshot \in Nat
           /\ operation.order \in Nat
      /\ boot = "running" /\ attempt.order <= order /\ Unmoved /\ Captured
      /\ recon.snapshot < attempt.order
      /\ \A m \in Messages : rows[m].order \in Nat /\ rows[m].order < attempt.order
  BY <1>1, <1>2, Fields DEF AttemptKept, Unmoved, Captured, SnapshotCurrent, OrdersGiven
<1>4. \A m \in Messages :
        /\ rows'[m] \in RowRecords /\ rows'[m].order \in {rows[m].order, attempt.order}
        /\ rows'[m].state = "published" <=> rows[m].state = "published"
        /\ ObservationCurrent(Mirror, m, attempt.order) =>
             /\ rows'[m].state = "scheduled" <=> m \in DOMAIN attempt.snapshot
             /\ rows'[m].state = "scheduled" => rows'[m].rev = attempt.snapshot[m]
  BY <1>1, <1>2, SnapshotRowFacts
<1>5. /\ recon' \in ReconRecords /\ recon'.coverage = "complete"
           /\ recon'.snapshot = attempt.order
      /\ ~recon'.authorization
  BY <1>1, <1>2, <1>3 DEF ReconRecords
<1>6. /\ Loses(operation, operation') /\ operation'.permit # "valid"
  BY <1>1, <1>2, RevokeFacts
<1>7. /\ operation'.order = operation.order /\ operation'.phase = operation.phase
      /\ operation'.message = operation.message /\ operation'.action = operation.action
      /\ operation'.key = operation.key /\ operation'.confirmed = operation.confirmed
      /\ operation'.result = operation.result /\ operation'.sent = operation.sent
      /\ (\A x : Exposed(x)' <=> Exposed(x))
      /\ (Written' <=> Written)
  BY <1>6 DEF Loses, Exposed, Written, OfferNeeded
<1>8. /\ ~Captured' /\ attempt'.phase = "idle" /\ attempt'.order = 0 /\ attempt'.generation = 0
  BY <1>2, NothingHeld DEF Captured
<1>9. QueueTypeOK'
  <2>1. rows' \in [Messages -> RowRecords]
    BY <1>2, <1>4
  <2>2. operation' \in OperationRecords
          /\ (operation'.permit # "none" <=> operation'.phase = "permitted")
    BY <1>1, <1>6 DEF Loses, QueueTypeOK
  <2>3. \E D \in SUBSET Messages : attempt' \in AttemptRecords(D)
    BY <1>2, NothingHeld
  <2> QED BY <1>1, <1>2, <1>5, <2>1, <2>2, <2>3 DEF QueueTypeOK
<1>10. OrdersGiven'
  <2>1. \A m \in Messages : rows'[m].order <= order
    BY <1>3, <1>4
  <2> QED BY <1>1, <1>2, <1>3, <1>5, <1>7, <1>8, <2>1 DEF OrdersGiven
<1>11. UpdatesTell'
  BY <1>1, <1>2, <1>4 DEF UpdatesTell, Last, Waits, Tells
<1>12. OperationHeld'
  BY <1>1, <1>2, <1>6, <1>7 DEF OperationHeld, Loses
<1>13. WriteOrdered'
  <2>1. operation.phase \in OrderedPhases =>
           /\ \A x \in Messages : rows'[x].order # operation.order
           /\ \A j \in DOMAIN updates : updates[j].order # operation.order
           /\ attempt'.order # operation.order /\ operation.order > 0
    BY <1>1, <1>3, <1>4, <1>8 DEF WriteOrdered, OrderedPhases
  <2>2. Written =>
           /\ operation.message \in Messages
           /\ ~doubt => \A i \in DOMAIN updates : After(updates[i], operation.order)
    BY <1>1 DEF WriteOrdered
  <2>3. ASSUME Written, ~doubt, ~lost, NEW x, x = operation.message
        PROVE  \/ server[x].state =
                     IF operation.action = "cancel" THEN "cancelled" ELSE "scheduled"
               \/ \E j \in DOMAIN updates : Waits(j, x)
               \/ Newer(rows'[x].order, recon'.snapshot) > operation.order
               \/ rows'[x].state = "published"
    <3>1. x \in Messages /\ rows'[x].order \in Nat
      BY <1>3, <1>4, <2>2, <2>3
    <3>2. CASE attempt.order > operation.order
      BY <1>3, <1>5, <3>1, <3>2 DEF Newer
    <3>3. CASE ~(attempt.order > operation.order)
      <4>1. attempt.order # operation.order /\ OnTheWire
        BY <1>1, <2>3 DEF WriteOrdered, Written, OnTheWire
      <4>2. recon.coverage = "complete"
        BY <1>1, <1>3, <3>3, <4>1 DEF AttemptKept
      <4>3. \/ server[x].state = IF operation.action = "cancel" THEN "cancelled" ELSE "scheduled"
            \/ \E j \in DOMAIN updates : Waits(j, x)
            \/ Newer(rows[x].order, recon.snapshot) > operation.order
            \/ rows[x].state = "published"
        BY <1>1, <2>3, <4>2 DEF WriteOrdered
      <4>4. ~(Newer(rows[x].order, recon.snapshot) > operation.order)
        BY <1>3, <3>1, <3>3 DEF Newer
      <4> QED BY <1>4, <3>1, <4>3, <4>4
    <3> QED BY <3>2, <3>3
  <2> QED BY <1>2, <1>7, <2>1, <2>2, <2>3 DEF WriteOrdered, OrderedPhases, After, Newer, Waits
<1>14. AttemptKept' /\ AnswerKept'
  <2>1. ~Unmoved' /\ 0 <= recon'.generation
    BY <1>5, <1>8 DEF Unmoved, ReconRecords
  <2> QED BY <1>8, <2>1 DEF AttemptKept, AnswerKept
<1>15. MirrorKept'
  <2> SUFFICES ASSUME ~doubt, ~lost, NEW m \in Messages, ~Exposed(m) PROVE RowRight(m)'
    BY <1>2, <1>7 DEF MirrorKept
  <2>1. SnapshotRight(m)
    BY <1>1, <1>2, <1>3 DEF AnswerKept
  <2>2. CASE rows[m].state = "published"
    BY <1>1, <1>2, <1>4, <2>2 DEF RowRight, Same, UpdatesTell
  <2>3. CASE /\ rows[m].state # "published"
             /\ m \in DOMAIN attempt.snapshot <=> server[m].state = "scheduled"
             /\ m \in DOMAIN attempt.snapshot => attempt.snapshot[m] = server[m].rev
    <3>1. ObservationCurrent(Mirror, m, attempt.order)
      BY <1>1, <1>3, <2>3, MirrorIsTyped DEF ObservationCurrent, Newer, Mirror
    <3> QED BY <1>2, <1>4, <2>3, <3>1 DEF RowRight, Same
  <2>4. CASE Comes(m, attempt.order)
    <3>1. Newer(rows'[m].order, recon'.snapshot) = attempt.order
      BY <1>3, <1>4, <1>5 DEF Newer
    <3> QED BY <1>2, <2>4, <3>1 DEF RowRight, Comes, Last, Waits, After
  <2> QED BY <2>1, <2>2, <2>3, <2>4 DEF SnapshotRight
<1>16. StartKept' /\ UnknownIsDue'
  BY <1>2, <1>3, <1>5 DEF StartKept, UnknownIsDue
<1>17. InterruptedIsRecovered'
  BY <1>1, <1>2, <1>3, <1>5, Fields DEF InterruptedIsRecovered, AttemptKept
<1> QED BY <1>9, <1>10, <1>11, <1>12, <1>13, <1>14, <1>15, <1>16, <1>17 DEF QueueInv

LEMMA SnapshotStep ==
    ASSUME QueueInv, parked' \in Nat \cup {-1}, ApplySnapshot
    PROVE  QueueInv'
<1>1. CASE SnapshotCurrent
  BY <1>1, AppliedStep
<1>2. CASE ~SnapshotCurrent
  <2>1. /\ attempt' = NoAttempt /\ operation' = operation /\ recon' = recon
        /\ UNCHANGED <<server, updates, lost, rows, evidence, receipts, order, boot, sends,
             doubt>>
    BY <1>2 DEF ApplySnapshot, mirror
  <2>2. Moves(recon, recon') /\ Loses(operation, operation') /\ lost' \in BOOLEAN
    BY <2>1, SameReconMoves, RevokeFacts DEF QueueInv, QueueTypeOK
  <2> QED BY <2>1, <2>2, ReconStep DEF AttemptRests
<1> QED BY <1>1, <1>2

-----------------------------------------------------------------------------
(* The answer of Telegram is applied *)

LEMMA AnsweredFacts ==
    ASSUME QueueTypeOK, NEW m \in Messages, m = operation.message, NEW N, N = AnswerStored
    PROVE  /\ ~ObservationCurrent(Mirror, m, operation.order) => N = Mirror
           /\ ObservationCurrent(Mirror, m, operation.order) =>
                /\ Touches(Mirror, N, m) /\ N.rows[m].order = operation.order
                /\ N.evidence = evidence /\ N.rows[m].state = Expected
                /\ Expected = "scheduled" => N.rows[m].rev = server[m].rev
<1>1. Mirror \in MirrorRecords /\ Mirror.evidence = evidence
  BY MirrorIsTyped
<1>2. PICK o \in Nat : o = operation.order
  BY Fields
<1>3. PICK rev \in Nat : rev = server[m].rev
  BY DEF QueueTypeOK, ServerRecords
<1>4. CASE operation.action = "cancel"
  <2>1. PICK hint \in BOOLEAN : hint = FALSE
    OBVIOUS
  <2>2. N = Removed(Mirror, m, hint, o)
    BY <1>2, <1>4, <2>1 DEF AnswerStored
  <2>3. /\ ~ObservationCurrent(Mirror, m, o) => N = Mirror
        /\ ObservationCurrent(Mirror, m, o) =>
             /\ Touches(Mirror, N, m) /\ N.rows[m].order = o /\ N.evidence = Mirror.evidence
             /\ N.rows[m].state = "cancelled"
    BY <1>1, <2>1, <2>2, RemovedFacts
  <2> QED BY <1>1, <1>2, <1>4, <2>3 DEF Expected
<1>5. CASE operation.action # "cancel"
  <2>1. N = Upsert(Mirror, m, rev, o)
    BY <1>2, <1>3, <1>5 DEF AnswerStored
  <2> QED BY <1>1, <1>2, <1>3, <1>5, <2>1, UpsertFacts DEF Expected
<1> QED BY <1>4, <1>5

\* The step that stores the answer, and what is confirmed by it
LEMMA ConfirmFacts ==
    ASSUME QueueInv, operation.phase = "applying",
           Becomes([AnswerStored EXCEPT !.operation =
                      [EndedWith("acknowledged") EXCEPT !.confirmed =
                          AnswerStored.rows[operation.message].state = Expected
                          /\ AnswerStored.rows[operation.message].order = operation.order]]),
           NEW m, m = operation.message
    PROVE  /\ m \in Messages /\ m = operation'.message
           /\ operation' \in OperationRecords /\ operation'.phase = "finishing"
           /\ operation'.permit = "none" /\ operation'.order = 0
           /\ operation'.result = "acknowledged" /\ operation'.key = operation.key
           /\ operation'.sent = operation.sent
           /\ ~ObservationCurrent(Mirror, m, operation.order) =>
                ~operation'.confirmed /\ UNCHANGED <<rows, evidence, recon>>
           /\ ObservationCurrent(Mirror, m, operation.order) =>
                /\ rows' \in [Messages -> RowRecords] /\ evidence' = evidence
                /\ recon' \in ReconRecords /\ Stands(recon, recon')
                /\ recon'.generation > recon.generation
                /\ \A x \in Messages : x # m => rows'[x] = rows[x]
                /\ rows'[m].order = operation.order /\ rows'[m].state = Expected
                /\ Expected = "scheduled" => rows'[m].rev = server[m].rev
<1>1. /\ QueueTypeOK /\ OperationHeld /\ WriteOrdered /\ operation \in OperationRecords
      /\ rows \in [Messages -> RowRecords]
  BY DEF QueueInv, QueueTypeOK
<1>2. m \in Messages /\ \A x \in Messages : rows[x].order # operation.order
  BY <1>1 DEF WriteOrdered, Written
<1>3. PICK N : N = AnswerStored
  OBVIOUS
<1>4. PICK E : E = EndedWith("acknowledged")
  OBVIOUS
<1>5. /\ E \in OperationRecords /\ E.phase = "finishing" /\ E.permit = "none" /\ E.order = 0
      /\ E.result = "acknowledged" /\ E.key = operation.key /\ E.message = operation.message
      /\ E.sent = operation.sent
  BY <1>1, <1>4, EndedFacts
<1>6. PICK c \in BOOLEAN : c <=> (N.rows[m].state = Expected /\ N.rows[m].order = operation.order)
  OBVIOUS
<1>7. /\ ~ObservationCurrent(Mirror, m, operation.order) => N = Mirror
      /\ ObservationCurrent(Mirror, m, operation.order) =>
           /\ Touches(Mirror, N, m) /\ N.rows[m].order = operation.order
           /\ N.evidence = evidence /\ N.rows[m].state = Expected
           /\ Expected = "scheduled" => N.rows[m].rev = server[m].rev
  BY <1>1, <1>2, <1>3, AnsweredFacts
<1>8. N \in MirrorRecords
  BY <1>1, <1>7, MirrorIsTyped DEF Touches
<1>9. /\ rows' = N.rows /\ evidence' = N.evidence /\ recon' = N.recon
      /\ operation' = [E EXCEPT !.confirmed = N.rows[m].state = Expected
                                              /\ N.rows[m].order = operation.order]
  BY <1>3, <1>4, <1>8 DEF Becomes, MirrorRecords
<1>10. operation' = [E EXCEPT !.confirmed = c]
  BY <1>6, <1>9, Zenon
<1>11. /\ operation' \in OperationRecords /\ operation'.phase = "finishing"
       /\ operation'.permit = "none" /\ operation'.order = 0
       /\ operation'.result = "acknowledged" /\ operation'.key = operation.key
       /\ operation'.sent = operation.sent /\ operation'.message = m
       /\ operation'.confirmed = c
  BY <1>5, <1>10 DEF OperationRecords
<1>12. CASE ~ObservationCurrent(Mirror, m, operation.order)
  <2>1. N.rows = rows /\ N.evidence = evidence /\ N.recon = recon
    BY <1>1, <1>7, <1>12, MirrorIsTyped
  <2>2. ~c
    BY <1>2, <1>6, <2>1
  <2> QED BY <1>2, <1>9, <1>11, <1>12, <2>1, <2>2
<1>13. CASE ObservationCurrent(Mirror, m, operation.order)
  <2>1. /\ N.rows = [rows EXCEPT ![m] = N.rows[m]] /\ Stands(recon, N.recon)
        /\ N.recon.generation > recon.generation
    BY <1>1, <1>7, <1>13, MirrorIsTyped DEF Touches
  <2>2. N.rows \in [Messages -> RowRecords] /\ N.recon \in ReconRecords
    BY <1>8 DEF MirrorRecords
  <2>3. \A x \in Messages : x # m => N.rows[x] = rows[x]
    BY <1>1, <2>1
  <2> QED BY <1>2, <1>7, <1>9, <1>11, <1>13, <2>1, <2>2, <2>3
<1> QED BY <1>12, <1>13

\* The answer is older than what the mirror shows, and shows nothing; or the row is
\* that of the request, and what came after it is on its way.
LEMMA ConfirmStep ==
    ASSUME QueueInv, parked' \in Nat \cup {-1}, operation.phase = "applying",
           Becomes([AnswerStored EXCEPT !.operation =
                      [EndedWith("acknowledged") EXCEPT !.confirmed =
                          AnswerStored.rows[operation.message].state = Expected
                          /\ AnswerStored.rows[operation.message].order = operation.order]]),
           UNCHANGED <<server, updates, lost, attempt, receipts, order, boot, sends, doubt>>
    PROVE  QueueInv'
<1>1. /\ QueueTypeOK /\ OperationHeld /\ OrdersGiven /\ AttemptKept /\ AnswerKept /\ StartKept
      /\ MirrorKept /\ UpdatesTell /\ InterruptedIsRecovered /\ UnknownIsDue /\ WriteOrdered
      /\ recon \in ReconRecords /\ operation \in OperationRecords
      /\ rows \in [Messages -> RowRecords]
  BY DEF QueueInv, QueueTypeOK
<1>2. PICK m : m = operation.message
  OBVIOUS
<1>3. PICK current \in BOOLEAN : current <=> ObservationCurrent(Mirror, m, operation.order)
  OBVIOUS
<1>4. /\ m \in Messages /\ m = operation'.message
      /\ operation' \in OperationRecords /\ operation'.phase = "finishing"
      /\ operation'.permit = "none" /\ operation'.order = 0
      /\ operation'.result = "acknowledged" /\ operation'.key = operation.key
      /\ operation'.sent = operation.sent
      /\ ~current => ~operation'.confirmed /\ UNCHANGED <<rows, evidence, recon>>
      /\ current =>
           /\ rows' \in [Messages -> RowRecords] /\ evidence' = evidence
           /\ recon' \in ReconRecords /\ Stands(recon, recon')
           /\ recon'.generation > recon.generation
           /\ \A x \in Messages : x # m => rows'[x] = rows[x]
           /\ rows'[m].order = operation.order /\ rows'[m].state = Expected
           /\ Expected = "scheduled" => rows'[m].rev = server[m].rev
  BY <1>2, <1>3, ConfirmFacts
<1>5. Stands(recon, recon') /\ recon' \in ReconRecords
  BY <1>1, <1>4, SameReconMoves
<1>6. /\ Moves(recon, recon') /\ recon'.snapshot = recon.snapshot
      /\ recon'.coverage = "complete" <=> recon.coverage = "complete"
      /\ recon'.authorization = recon.authorization /\ recon'.generation >= recon.generation
  BY <1>5 DEF Stands, Moves
<1>7. /\ operation.order \in Nat /\ order \in Nat /\ recon.snapshot \in Nat
           /\ attempt.order \in Nat
      /\ attempt.generation \in Nat /\ recon.generation \in Nat /\ recon'.generation \in Nat
      /\ \A x \in Messages : rows[x].order \in Nat
      /\ operation.order <= order
  BY <1>1, <1>5, Fields DEF OrdersGiven, ReconRecords
<1>8. /\ evidence' = evidence /\ rows' \in [Messages -> RowRecords]
      /\ \A x \in Messages : x # m => rows'[x] = rows[x]
      /\ \A x \in Messages : rows'[x].order \in {rows[x].order, operation.order}
      /\ rows'[m].state = "published" => rows[m].state = "published"
  BY <1>1, <1>4 DEF Expected
<1>9. QueueTypeOK'
  BY <1>1, <1>4, <1>5, <1>8 DEF QueueTypeOK
<1>10. OrdersGiven'
  <2>1. \A x \in Messages : rows'[x].order <= order
    BY <1>1, <1>7, <1>8 DEF OrdersGiven
  <2> QED BY <1>1, <1>4, <1>6, <1>7, <2>1 DEF OrdersGiven
<1>11. UpdatesTell'
  <2>1. \A x \in Messages : rows'[x].state = "published" => rows[x].state = "published"
    BY <1>8
  <2> QED BY <1>1, <1>8, <2>1 DEF UpdatesTell, Last, Waits, Tells
<1>12. OperationHeld'
  BY <1>1, <1>4 DEF OperationHeld
<1>13. WriteOrdered'
  BY <1>4 DEF WriteOrdered, Written
<1>14. Unmoved' => Unmoved /\ ~current
  BY <1>1, <1>4, <1>7 DEF Unmoved, AttemptKept, Captured
<1>15. AttemptKept'
  <2>1. attempt.generation <= recon'.generation
    BY <1>1, <1>6, <1>7 DEF AttemptKept
  <2>2. ~(attempt.order < operation'.order)
    BY <1>4, <1>7
  <2>3. Captured' <=> Captured
    BY DEF Captured
  <2> QED BY <1>1, <1>4, <1>6, <1>14, <2>1, <2>2, <2>3 DEF AttemptKept
<1>16. \A x \in Messages : (Exposed(x) => x = m) /\ (~current /\ Exposed(x) => Exposed(x)')
  BY <1>2, <1>4 DEF Exposed, Written, OfferNeeded
<1>17. AnswerKept'
  <2> SUFFICES ASSUME Unmoved, ~current, attempt.phase = "answered", ~doubt, ~lost,
                        NEW x \in Messages
               PROVE  Exposed(x)' \/ SnapshotRight(x)'
    BY <1>14 DEF AnswerKept
  <2>1. Exposed(x) \/ SnapshotRight(x)
    BY <1>1 DEF AnswerKept
  <2>2. SnapshotRight(x) => SnapshotRight(x)'
    BY <1>4 DEF SnapshotRight, Comes, Last, Waits, After
  <2> QED BY <1>16, <2>1, <2>2
<1>18. MirrorKept'
  <2> SUFFICES ASSUME ~doubt, ~lost, recon.coverage = "complete", NEW x \in Messages
               PROVE  Exposed(x)' \/ RowRight(x)'
    BY <1>6 DEF MirrorKept
  <2>1. Exposed(x) \/ RowRight(x)
    BY <1>1 DEF MirrorKept, OperationHeld
  <2>2. ASSUME rows'[x] = rows[x], RowRight(x) PROVE RowRight(x)'
    BY <1>6, <2>2 DEF RowRight, Same, Comes, Last, Waits, After
  <2>3. CASE ~current
    BY <1>4, <1>16, <2>1, <2>2, <2>3
  <2>4. CASE current /\ x # m
    BY <1>4, <1>16, <2>1, <2>2, <2>4
  <2>5. CASE current /\ x = m
    <3>1. /\ rows[m].state # "published"
          /\ operation.order > Newer(rows[m].order, recon.snapshot)
      BY <1>1, <1>3, <2>5, MirrorIsTyped DEF ObservationCurrent
    <3>2. \/ server[m].state = Expected
          \/ \E i \in DOMAIN updates : Waits(i, m)
          \/ Newer(rows[m].order, recon.snapshot) > operation.order
          \/ rows[m].state = "published"
      BY <1>1, <1>2 DEF WriteOrdered, Written, Expected
    <3>3. ~(Newer(rows[m].order, recon.snapshot) > operation.order)
      BY <1>4, <1>7, <3>1 DEF Newer
    <3>4. CASE server[m].state = Expected
      BY <1>4, <2>5, <3>4 DEF RowRight, Same, Expected
    <3>5. CASE \E i \in DOMAIN updates : Waits(i, m)
      <4>1. PICK j : Last(j, m)
        BY <1>1, <3>5, LastExists
      <4>2. After(updates[j], operation.order) /\ j \in DOMAIN updates
        BY <1>1, <4>1 DEF WriteOrdered, Written, Last, Waits
      <4>3. Newer(rows'[m].order, recon'.snapshot) = operation.order
        BY <1>4, <1>6, <1>7, <2>5, <3>1 DEF Newer
      <4>4. Comes(m, operation.order)
        BY <4>1, <4>2 DEF Comes
      <4> QED BY <2>5, <4>3, <4>4 DEF RowRight, Comes, Last, Waits, After
    <3> QED BY <3>1, <3>2, <3>3, <3>4, <3>5
  <2> QED BY <2>3, <2>4, <2>5
<1>19. StartKept' /\ InterruptedIsRecovered'
  BY <1>1, <1>6 DEF StartKept, InterruptedIsRecovered, InterruptedKeys
<1>20. UnknownIsDue'
  <2>1. DueHolds(recon)'
    BY <1>1, <1>6, DueMeans DEF Moves, DueHolds
  <2>2. UnknownIsDue' <=> DueHolds(recon)'
    BY DueMeans, PTL
  <2> QED BY <2>1, <2>2
<1> QED BY <1>9, <1>10, <1>11, <1>12, <1>13, <1>15, <1>17, <1>18, <1>19, <1>20 DEF QueueInv

LEMMA ResponseStep ==
    ASSUME QueueInv, parked' \in Nat \cup {-1}, ApplyResponse
    PROVE  QueueInv'
<1>1. /\ operation.phase = "applying"
      /\ UNCHANGED <<server, updates, lost, attempt, receipts, order, boot, sends, doubt>>
  BY DEF ApplyResponse
<1>2. CASE Becomes([AnswerStored EXCEPT !.operation =
                      [EndedWith("acknowledged") EXCEPT !.confirmed =
                          AnswerStored.rows[operation.message].state = Expected
                          /\ AnswerStored.rows[operation.message].order = operation.order]])
  BY <1>1, <1>2, ConfirmStep
<1>3. CASE operation' = EndedWith("acknowledged") /\ UNCHANGED mirror
  <2>1. UNCHANGED <<rows, evidence, recon>>
    BY <1>3 DEF mirror
  <2> QED BY <1>1, <1>3, <2>1, EndStep
<1> QED BY <1>2, <1>3 DEF ApplyResponse, AnswerStored, Expected

-----------------------------------------------------------------------------
(* The theorems of the queue *)

LEMMA QueueStarts ==
    ASSUME QueueInit
    PROVE  QueueInv
<1>1. PICK known \in SUBSET Messages :
        server = [m \in Messages |-> IF m \in known THEN [state |-> "scheduled", rev |-> 1]
                                     ELSE [state |-> "absent", rev |-> 0]]
  BY DEF QueueInit
<1>2. PICK coverage \in {"unseeded", "unknown", "complete"}, repair \in {"none", "now"} :
         /\ rows = [m \in Messages |-> IF coverage = "complete" /\ server[m].state = "scheduled"
                                       THEN [state |-> "scheduled", order |-> 1, rev |-> 1,
                                              hint |-> FALSE]
                                       ELSE AbsentRow]
         /\ recon = [coverage |-> coverage, repair |-> repair,
                     discovery |-> IF coverage = "unknown" THEN "now" ELSE "none",
                     generation |-> 0, snapshot |-> IF coverage = "complete" THEN 1 ELSE 0,
                     failing |-> FALSE, blocked |-> FALSE, authorization |-> FALSE,
                       access |-> TRUE]
  BY DEF QueueInit
<1>3. /\ updates = <<>> /\ lost = FALSE /\ evidence = {} /\ attempt = NoAttempt
      /\ operation = NoCommand /\ receipts = [k \in OperationKeys |-> NoReceipt]
      /\ sends = [k \in OperationKeys |-> 0] /\ order = 1 /\ boot = "running" /\ doubt = FALSE
      /\ parked \in Nat \cup {-1}
  BY DEF QueueInit
<1>4. \A m \in Messages :
        /\ server[m] \in ServerRecords /\ server[m].state \in {"absent", "scheduled"}
        /\ rows[m] \in RowRecords /\ rows[m].order \in {0, 1}
        /\ rows[m].state \in {"absent", "scheduled"}
        /\ coverage = "complete" => Same(rows[m], server[m])
  <2> TAKE m \in Messages
  <2>1. CASE m \in known
    <3>1. server[m] = [state |-> "scheduled", rev |-> 1]
      BY <1>1, <2>1
    <3> QED BY <1>2, <3>1 DEF ServerRecords, RowRecords, AbsentRow, Same
  <2>2. CASE m \notin known
    <3>1. server[m] = [state |-> "absent", rev |-> 0]
      BY <1>1, <2>2
    <3> QED BY <1>2, <3>1 DEF ServerRecords, RowRecords, AbsentRow, Same
  <2> QED BY <2>1, <2>2
<1>5. /\ recon \in ReconRecords /\ recon.snapshot \in {0, 1} /\ recon.coverage = coverage
      /\ coverage = "unknown" => recon.discovery = "now"
      /\ ~recon.authorization
  BY <1>2 DEF ReconRecords
<1>6. DOMAIN updates = {}
  BY <1>3
<1>7. \A k \in OperationKeys : receipts[k] = NoReceipt /\ sends[k] = 0
  BY <1>3
<1>8. NoReceipt \in ReceiptRecords /\ NoReceipt.outcome = "none" /\ NoReceipt.order = 0
  BY DEF NoReceipt, ReceiptRecords
<1>9. QueueTypeOK
  <2>1. server \in [Messages -> ServerRecords] /\ rows \in [Messages -> RowRecords]
    BY <1>1, <1>2, <1>4
  <2>2. receipts \in [OperationKeys -> ReceiptRecords] /\ sends \in [OperationKeys -> Nat]
    BY <1>3, <1>8
  <2>3. \E D \in SUBSET Messages : attempt \in AttemptRecords(D)
    BY <1>3, NothingHeld
  <2>4. updates \in Seq(UpdateRecords) /\ evidence \subseteq Messages
    BY <1>3
  <2>5. operation \in OperationRecords /\ operation.permit = "none" /\ operation.phase = "idle"
    BY <1>3, NothingHeld
  <2>6. order \in Nat /\ boot \in {"running", "recovering", "settling"} /\ doubt \in BOOLEAN
        /\ lost \in BOOLEAN
    BY <1>3
  <2> QED BY <1>3, <1>5, <2>1, <2>2, <2>3, <2>4, <2>5, <2>6 DEF QueueTypeOK
<1>10. OrdersGiven
  BY <1>3, <1>4, <1>5, <1>6, <1>7, <1>8, NothingHeld DEF OrdersGiven
<1>11. UpdatesTell
  BY <1>3, <1>4, <1>6 DEF UpdatesTell
<1>12. OperationHeld
  BY <1>3, <1>7, <1>8, NothingHeld DEF OperationHeld
<1>13. WriteOrdered
  BY <1>3, NothingHeld DEF WriteOrdered, Written
<1>14. AttemptKept /\ AnswerKept
  BY <1>3, <1>5, NothingHeld DEF AttemptKept, AnswerKept, Captured, Unmoved, ReconRecords
<1>15. MirrorKept
  BY <1>4, <1>5 DEF MirrorKept, RowRight
<1>16. StartKept /\ UnknownIsDue /\ InterruptedIsRecovered
  BY <1>3, <1>5, <1>7, <1>8 DEF StartKept, UnknownIsDue, InterruptedIsRecovered
<1> QED BY <1>9, <1>10, <1>11, <1>12, <1>13, <1>14, <1>15, <1>16 DEF QueueInv

LEMMA QueueIdles ==
    ASSUME QueueInv, parked' \in Nat \cup {-1}, UNCHANGED queueVars
    PROVE  QueueInv'
<1>1. operation' = operation /\ attempt' = attempt /\ lost' \in BOOLEAN
  BY DEF queueVars, QueueInv, QueueTypeOK
<1>2. /\ recon' = recon
      /\ UNCHANGED <<server, updates, lost, rows, evidence, receipts, order, boot, sends, doubt>>
  BY DEF queueVars, mirror
<1>3. Moves(recon, recon') /\ Loses(operation, operation')
  BY <1>1, <1>2, SameReconMoves, RevokeFacts DEF QueueInv, QueueTypeOK
<1> QED BY <1>1, <1>2, <1>3, ReconStep DEF AttemptRests

\* The revision that is excluded is one of a selected attempt.
LEMMA ParkedTyped ==
    ASSUME QueueTypeOK, [QueueNext]_queueVars
    PROVE  parked' \in Nat \cup {-1}
<1>1. parked \in Nat \cup {-1} /\ attempt.generation \in Nat /\ recon.generation \in Nat
  BY Fields DEF QueueTypeOK
<1>2. parked' \in {parked, -1, attempt.generation, recon.generation}
  <2>1. CASE UNCHANGED queueVars
    BY <2>1 DEF queueVars
  <2>2. CASE OtherClient \/ UpdatesLost \/ ReceiveUpdates
    BY <2>2 DEF OtherClient, UpdatesLost, ReceiveUpdates, Admit, DeliverUpdate, GapReported
  <2>3. CASE Kicked \/ Readmitted \/ PermissionPublished
    BY <2>3 DEF Kicked, Readmitted, PermissionPublished
  <2>4. CASE ReconcileQueue
    BY <2>4 DEF ReconcileQueue, Seed, Select, FinishExcluded, CaptureKept, Read, ApplySnapshot,
       BecomesDue, Parks
  <2>5. CASE Excluding \/ Undiscovered \/ SnapshotFailed
    BY <2>5 DEF Excluding, Undiscovered, SnapshotFailed, Parks
  <2>6. CASE \E k \in OperationKeys : BeginOperation(k)
    BY <2>6 DEF BeginOperation
  <2>7. CASE Operate \/ OfferFails
    BY <2>7 DEF Operate, Verify, Refuse, PrepareReceipt, Revalidate, GateRefuses, ClaimSend,
       Handled, AnswerArrives, ApplyResponse, FinishOperation, OfferRecovery, OfferFails
  <2>8. CASE ProcessStops \/ StartQueue
    BY <2>8 DEF ProcessStops, StartQueue, StoreRecovery, SettleInterrupted
  <2> QED BY <2>1, <2>2, <2>3, <2>4, <2>5, <2>6, <2>7, <2>8 DEF QueueNext
<1> QED BY <1>1, <1>2

LEMMA UndiscoveredStep ==
    ASSUME QueueInv, parked' \in Nat \cup {-1}, Undiscovered
    PROVE  QueueInv'
<1>1. operation' = operation /\ attempt' = attempt /\ lost' \in BOOLEAN
  BY DEF Undiscovered, mirror, QueueInv, QueueTypeOK
<1>2. /\ recon' = recon
      /\ UNCHANGED <<server, updates, lost, rows, evidence, receipts, order, boot, sends, doubt>>
  BY DEF Undiscovered, mirror
<1>3. Moves(recon, recon') /\ Loses(operation, operation')
  BY <1>1, <1>2, SameReconMoves, RevokeFacts DEF QueueInv, QueueTypeOK
<1> QED BY <1>1, <1>2, <1>3, ReconStep DEF AttemptRests

\* The queue of a dialog: the mirror, the commands and the fence keep their invariant.
THEOREM QueueInvariant == QueueSpec => []QueueInv
<1>1. QueueInit => QueueInv
  BY QueueStarts
<1>2. QueueInv /\ [QueueNext]_queueVars => QueueInv'
  <2> SUFFICES ASSUME QueueInv, [QueueNext]_queueVars
               PROVE  QueueInv'
    OBVIOUS
  <2>0. parked' \in Nat \cup {-1}
    BY ParkedTyped DEF QueueInv
  <2>1. CASE UNCHANGED queueVars
    BY <2>0, <2>1, QueueIdles
  <2>2. CASE OtherClient \/ UpdatesLost \/ ReceiveUpdates
    BY <2>0, <2>2, OtherStep, LostStep, AdmitStep, DeliverStep, GapStep DEF ReceiveUpdates
  <2>3. CASE Kicked \/ Readmitted \/ PermissionPublished
    BY <2>0, <2>3, KickedStep, ReadmittedStep, PermissionStep
  <2>4. CASE ReconcileQueue \/ Excluding \/ Undiscovered \/ SnapshotFailed
    BY <2>0, <2>4, SeedStep, SelectStep, ExcludedStep, CaptureKeptStep, ReadStep, SnapshotStep,
       DueStep,
       ExcludingStep, UndiscoveredStep, FailedStep DEF ReconcileQueue
  <2>5. CASE \E k \in OperationKeys : BeginOperation(k)
    BY <2>0, <2>5, BeginStep
  <2>6. CASE Operate \/ OfferFails
    BY <2>0, <2>6, VerifyStep, RefuseStep, PrepareStep, RevalidateStep, RefusedStep, ClaimStep,
       HandledStep, AnswerStep, ResponseStep, FinishStep, OfferStep, OfferFailsStep DEF Operate
  <2>7. CASE ProcessStops \/ StartQueue
    BY <2>0, <2>7, StopStep, StoreStep, SettleStep DEF StartQueue
  <2> QED BY <2>1, <2>2, <2>3, <2>4, <2>5, <2>6, <2>7 DEF QueueNext
<1> QED BY <1>1, <1>2, PTL DEF QueueSpec

\* The mirror that calls itself complete is the queue of Telegram when nothing is on its
\* way; what is not known is due; no key is sent twice; and a receipt that a restart
\* settled is not beside a baseline from before its write.
THEOREM QueueTrue == QueueSpec => []QueueIsTrue
<1>1. QueueInv => QueueIsTrue
  <2> SUFFICES ASSUME QueueInv PROVE QueueIsTrue
    OBVIOUS
  <2>1. CompleteIsTrue
    <3> SUFFICES ASSUME QueueQuiet, ~doubt, recon.coverage = "complete", NEW m \in Messages
                 PROVE  Same(rows[m], server[m])
      BY DEF CompleteIsTrue, Same
    <3>1. ~Exposed(m)
      BY DEF QueueQuiet, Exposed, Written
    <3>2. DOMAIN updates = {}
      BY DEF QueueQuiet
    <3>3. RowRight(m)
      BY <3>1 DEF QueueInv, MirrorKept, QueueQuiet
    <3> QED BY <3>2, <3>3 DEF RowRight, Comes
  <2>2. SentOnce
    BY DEF QueueInv, OperationHeld, SentOnce
  <2> QED BY <2>1, <2>2 DEF QueueInv, QueueIsTrue
<1> QED BY <1>1, QueueInvariant, PTL

\* A request leaves the gate only for the version that the caller has seen: the permit
\* is revoked by whatever changes that version in between.
THEOREM SendsAreForVersion == QueueSpec => SentForVersion
<1>1. ASSUME QueueInv, QueueNext, sends' # sends
      PROVE  StateKnown(operation.message) /\ VersionSeen(operation.message) = operation.version
  <2>1. ClaimSend
    BY <1>1 DEF QueueNext, OtherClient, ReceiveUpdates, Admit, DeliverUpdate, GapReported,
       UpdatesLost, Kicked, Readmitted, PermissionPublished, ReconcileQueue, Seed, Select,
       FinishExcluded, CaptureKept, Read, ApplySnapshot, BecomesDue, Excluding, Undiscovered,
       SnapshotFailed,
       BeginOperation, Operate, Verify, Refuse, PrepareReceipt, Revalidate, GateRefuses, Handled,
       AnswerArrives, ApplyResponse, FinishOperation, OfferRecovery, OfferFails, ProcessStops,
       StartQueue, StoreRecovery, SettleInterrupted
  <2>2. operation.permit = "valid"
    BY <1>1, <2>1 DEF ClaimSend, PermitValid
  <2> QED BY <1>1, <2>2 DEF QueueInv, OperationHeld
<1>2. QueueInv /\ [QueueNext]_queueVars =>
        [sends' # sends =>
            /\ StateKnown(operation.message)
            /\ VersionSeen(operation.message) = operation.version]_queueVars
  BY <1>1
<1> QED BY <1>2, QueueInvariant, PTL DEF QueueSpec, SentForVersion

\* An outcome is decided once: neither a late answer nor a restart decides it again.
THEOREM OutcomesAreKept == QueueSpec => OutcomeKept
<1>1. ASSUME QueueInv, QueueNext, NEW k \in OperationKeys,
             receipts[k].outcome \notin {"none", "pending"}
      PROVE  receipts'[k] = receipts[k]
  <2>1. receipts \in [OperationKeys -> ReceiptRecords] /\ OperationHeld
    BY <1>1 DEF QueueInv, QueueTypeOK
  <2>2. \/ receipts' = receipts \/ PrepareReceipt \/ FinishOperation \/ SettleInterrupted
    BY <1>1 DEF QueueNext, OtherClient, ReceiveUpdates, Admit, DeliverUpdate, GapReported,
       UpdatesLost, Kicked, Readmitted, PermissionPublished, ReconcileQueue, Seed, Select,
       FinishExcluded, CaptureKept, Read, ApplySnapshot, BecomesDue, Excluding, Undiscovered,
       SnapshotFailed,
       BeginOperation, Operate, Verify, Refuse, Revalidate, GateRefuses, ClaimSend, Handled,
       AnswerArrives, ApplyResponse, OfferRecovery, OfferFails, ProcessStops,
       StartQueue, StoreRecovery
  <2>3. CASE PrepareReceipt
    BY <1>1, <2>1, <2>3 DEF PrepareReceipt, OperationHeld
  <2>4. CASE FinishOperation
    BY <1>1, <2>1, <2>4 DEF FinishOperation, FinishReceipt
  <2>5. CASE SettleInterrupted
    BY <1>1, <2>1, <2>5 DEF SettleInterrupted, InterruptedKeys
  <2> QED BY <2>2, <2>3, <2>4, <2>5
<1>2. QueueInv /\ [QueueNext]_queueVars =>
        [\A k \in OperationKeys :
            receipts[k].outcome \notin {"none", "pending"} =>
              receipts'[k] = receipts[k]]_queueVars
  BY <1>1
<1> QED BY <1>2, QueueInvariant, PTL DEF QueueSpec, OutcomeKept

\* The mirror does not go back, whichever of the three writers comes last: an accepted row
\* has a newer order, and only evidence publishes a message.
THEOREM MirrorOnlyAdvances == QueueSpec => MirrorAdvances
<1>1. ASSUME QueueInv, QueueNext, NEW m \in Messages
      PROVE  /\ rows[m].order <= rows'[m].order
             /\ rows[m].state = "published" => rows'[m].state = "published"
             /\ (rows'[m].state = "published" /\ rows[m].state # "published") => m \in evidence'
  <2>1. /\ QueueTypeOK /\ AttemptKept /\ rows[m].order \in Nat /\ Mirror \in MirrorRecords
        /\ Mirror.rows = rows /\ Mirror.recon = recon /\ operation.order \in Nat
        /\ attempt.order \in Nat /\ recon.snapshot \in Nat
    BY <1>1, Fields, MirrorIsTyped DEF QueueInv
  <2>2. \/ rows' = rows \/ DeliverUpdate \/ ApplySnapshot \/ ApplyResponse
    <3>1. ContinuityLost(Mirror).rows = rows /\ AccessLost(Mirror).rows = rows
      BY <2>1, ContinuityFacts, AccessFacts
    <3>2. GapReported \/ OfferRecovery \/ StoreRecovery => rows' = rows
      BY <3>1 DEF GapReported, OfferRecovery, StoreRecovery, Becomes, mirror, ContinuityLost,
           Mirror
    <3>3. Kicked \/ SnapshotFailed \/ PermissionPublished \/ FinishExcluded => rows' = rows
      BY <3>1 DEF Kicked, SnapshotFailed, PermissionPublished, FinishExcluded, Becomes, mirror,
           Mirror
    <3> QED BY <1>1, <3>2, <3>3 DEF QueueNext, mirror, OtherClient, ReceiveUpdates, Admit,
         UpdatesLost, Readmitted, ReconcileQueue, Seed, Select,
         CaptureKept, Read, BecomesDue, Excluding, Undiscovered,
         BeginOperation, Operate, Verify, Refuse, PrepareReceipt, Revalidate, GateRefuses,
         ClaimSend, Handled, AnswerArrives, FinishOperation, OfferFails, ProcessStops,
         StartQueue, SettleInterrupted
  <2>3. CASE DeliverUpdate
    <3>1. /\ updates # <<>> /\ 1 \in DOMAIN updates /\ Head(updates) = updates[1]
      BY <2>1, <2>3 DEF DeliverUpdate, QueueTypeOK
    <3>2. PICK u \in UpdateRecords : u = updates[1]
      BY <2>1, <3>1, Fields
    <3>3. PICK x \in Messages : x = u.message
      BY DEF UpdateRecords
    <3>4. PICK N : N = Delivered(u)
      OBVIOUS
    <3>5. rows' = N.rows /\ evidence' = N.evidence
      BY <2>3, <3>1, <3>2, <3>4 DEF DeliverUpdate, Becomes, Delivered
    <3>6. /\ \A y \in Messages : y # x => N.rows[y] = rows[y]
          /\ UpdateAccepted(u) => N.rows[x].order = u.order
          /\ ~UpdateAccepted(u) => N.rows = rows \/ N.rows[x].order = rows[x].order
          /\ N.rows[x].state = "published" => rows[x].state = "published" \/ x \in N.evidence
          /\ rows[x].state = "published" => N.rows[x].state = "published"
      BY <2>1, <3>3, <3>4, DeliveredFacts
    <3>7. UpdateAccepted(u) => u.order > rows[x].order
      BY <2>1, <3>3, Fields DEF UpdateAccepted, ObservationCurrent, Newer, UpdateRecords
    <3> QED BY <2>1, <3>2, <3>3, <3>5, <3>6, <3>7 DEF UpdateRecords
  <2>4. CASE ApplySnapshot
    <3>1. CASE ~SnapshotCurrent
      BY <2>1, <2>4, <3>1 DEF ApplySnapshot, mirror
    <3>2. CASE SnapshotCurrent
      <4>1. rows'[m] = SnapshotRow(m)
        BY <2>4, <3>2 DEF ApplySnapshot, Becomes, Mirror, SnapshotRow
      <4>2. /\ SnapshotRow(m).order \in {rows[m].order, attempt.order}
            /\ SnapshotRow(m).state = "published" <=> rows[m].state = "published"
        BY <2>1, SnapshotRowFacts
      <4>3. rows[m].order < attempt.order
        BY <2>1, <2>4, <3>2 DEF ApplySnapshot, AttemptKept, Unmoved, Captured, SnapshotCurrent
      <4> QED BY <2>1, <4>1, <4>2, <4>3
    <3> QED BY <3>1, <3>2
  <2>5. CASE ApplyResponse
    <3>1. CASE UNCHANGED mirror
      BY <2>1, <3>1 DEF mirror
    <3>2. CASE Becomes([AnswerStored EXCEPT !.operation =
                      [EndedWith("acknowledged") EXCEPT !.confirmed =
                          AnswerStored.rows[operation.message].state = Expected
                          /\ AnswerStored.rows[operation.message].order = operation.order]])
      <4>1. PICK x : x = operation.message
        OBVIOUS
      <4>2. /\ x \in Messages
            /\ ~ObservationCurrent(Mirror, x, operation.order) => rows' = rows
            /\ ObservationCurrent(Mirror, x, operation.order) =>
                 /\ \A y \in Messages : y # x => rows'[y] = rows[y]
                 /\ rows'[x].order = operation.order /\ rows'[x].state = Expected
        BY <1>1, <2>5, <3>2, <4>1, ConfirmFacts DEF ApplyResponse
      <4>3. ObservationCurrent(Mirror, x, operation.order) =>
              rows[x].state # "published" /\ operation.order > rows[x].order
        BY <2>1, <4>2, Fields DEF ObservationCurrent, Newer
      <4> QED BY <2>1, <4>2, <4>3, Fields DEF Expected
    <3> QED BY <2>5, <3>1, <3>2 DEF ApplyResponse, AnswerStored, Expected
  <2> QED BY <2>1, <2>2, <2>3, <2>4, <2>5
<1>2. ASSUME QueueInv, [QueueNext]_queueVars
      PROVE  [\A m \in Messages :
               /\ rows[m].order <= rows'[m].order
               /\ rows[m].state = "published" => rows'[m].state = "published"
               /\ (rows'[m].state = "published" /\ rows[m].state # "published")
                     => m \in evidence']_queueVars
  BY <1>1, <1>2
<1> QED BY <1>2, QueueInvariant, PTL DEF QueueSpec, MirrorAdvances
=============================================================================
