---------------------------- MODULE MessageFacts ----------------------------
(***************************************************************************)
(* The stored facts of one message outside channels                        *)
(* (messages/sqlite_bundle.py and the handlers of event_handlers.py).      *)
(* Updates carry what the message was when Telegram wrote them and the     *)
(* order they were admitted with; answers of Telegram to history pages,    *)
(* lookups and the deletion sweep carry an order reserved before the       *)
(* request.  They are committed in any order, and may be committed again.  *)
(***************************************************************************)
EXTENDS Integers, Sequences, FiniteSets

CONSTANTS
    MaxEdits,   \* bound: edits of the message
    MaxPages,   \* bound: requests
    MaxFaults,  \* bound: redeliveries
    MaxChanges  \* bound: changes of the dialog's coverage

FactsAssumption ==
    {MaxEdits, MaxPages, MaxFaults, MaxChanges} \subseteq Nat

VARIABLES
    tg,       \* Telegram: the message's body, edit date (0: none), existence
    flight,   \* its updates that are not admitted yet, in order
    ups,      \* the admitted updates, and how far the handler of each is
    pages,    \* the requests: reserved, answered
    row,      \* messages
    obs,      \* message_observations
    peerless, \* nonchannel_message_deletions has the id
    versions, \* message_versions: old texts, in order
    cover,    \* realtime coverage of the dialog: full, own, none
    outgoing, \* the message is our own
    next,     \* the next observation order
    left,     \* what is left of the bounds
    hist      \* history: the coverage was full all the time, newest order accepted,
              \* two edits had one date

facts == <<row, obs, versions, hist>>
vars == <<tg, flight, ups, pages, facts, peerless, cover, outgoing, next, left>>

Rank(kind) == CASE kind = "new" -> 40 [] kind = "edit" -> 50 [] OTHER -> 20

\* realtime_history_policy: whether a body may be written
Allowed == cover = "full" \/ (cover = "own" /\ outgoing)
Live == row.present /\ ~row.deleted

-----------------------------------------------------------------------------
(* sqlite_bundle *)

\* _stored_message_deleted and has_nonchannel_deletion
KnownDeleted == peerless \/ obs.deleted \/ (row.present /\ row.deleted)

\* _follows_stored_observation
Follows(item, kind) ==
    obs.order = 0 \/ item.order > obs.order
    \/ (item.order = obs.order /\ Rank(kind) >= obs.rank)

\* (mutant) an older edit date does not refuse the item
CurrentByOrder(item, kind) == ~KnownDeleted /\ Follows(item, kind)

\* (mutant) the deletions are not looked at
CurrentIfDeleted(item, kind) ==
    /\ row.present => item.date >= row.date
    /\ (row.present /\ row.date # 0 /\ item.date > row.date) \/ Follows(item, kind)

\* _is_current_observation
IsCurrent(item, kind) ==
    /\ ~KnownDeleted
    /\ row.present => item.date >= row.date
    /\ (row.present /\ row.date # 0 /\ item.date > row.date) \/ Follows(item, kind)

\* _received_body_unchanged
BodyUnchanged(item) ==
    row.present /\ item.date # 0 /\ row.body = item.body /\ row.date = item.date

\* _record_message_observations, with the order _preserve_newer_received_media keeps
Recorded(item, kind) ==
    LET order == IF BodyUnchanged(item) THEN obs.order ELSE item.order
    IN  [obs EXCEPT !.order = IF order > @ THEN order ELSE @,
                    !.rank = IF order > obs.order THEN Rank(kind)
                             ELSE IF order = obs.order /\ Rank(kind) > @ THEN Rank(kind) ELSE @]

\* _write_message_rows_and_fts
Written(item) == [present |-> TRUE, body |-> item.body, date |-> item.date, deleted |-> FALSE]

Accept(item, kind) ==
    /\ row' = Written(item) /\ obs' = Recorded(item, kind)
    /\ hist' = [hist EXCEPT !.newest = IF item.order > @ THEN item.order ELSE @]

\* insert_messages_with_fts
Insert(item, kind) ==
    /\ IF IsCurrent(item, kind) THEN Accept(item, kind) ELSE UNCHANGED <<row, obs, hist>>
    /\ UNCHANGED versions

\* persist_edited_message: a changed text keeps the old one as a version
PersistEdited(item, kind) ==
    IF row.present /\ IsCurrent(item, kind) /\ row.body # item.body
    THEN /\ versions' = Append(versions, row.body)
         /\ Accept(item, kind)
    ELSE IF row.present THEN Insert(item, kind) ELSE UNCHANGED facts

\* _received_body_superseded
Superseded(item) ==
    /\ row.present /\ obs.order > item.order
    /\ row.date = 0 \/ item.date = 0 \/ item.date <= row.date

\* _persist_received_message
PersistReceived(item) ==
    IF peerless \/ Superseded(item) THEN UNCHANGED facts
    ELSE IF row.present /\ row.body # item.body THEN PersistEdited(item, "page")
    ELSE Insert(item, "page")

\* (mutant) only a stored message is marked
MarkedIfStored(o, order) == IF row.present THEN [o EXCEPT !.deleted = TRUE] ELSE o

\* record_message_deletions: the key is kept, with or without a body
DeletionRecorded(o, order) ==
    IF o.deleted THEN o ELSE [o EXCEPT !.deleted = TRUE, !.order = order]

\* (mutant) a row is made for a message that has none
MarkedUnstored ==
    /\ row' = [row EXCEPT !.deleted = TRUE] /\ obs' = DeletionRecorded(obs, next)
    /\ UNCHANGED <<versions, hist>>

\* mark_message_deleted
Marked ==
    /\ row' = [row EXCEPT !.deleted = row.present] /\ obs' = DeletionRecorded(obs, next)
    /\ UNCHANGED <<versions, hist>>

-----------------------------------------------------------------------------
(* Updates *)

\* The handlers of several updates run at the same time
Handling(u, kinds, step) == u \in ups /\ u.kind \in kinds /\ u.step = step

\* The update is acknowledged, or is delivered again
Finish(u) ==
    \/ ups' = ups \ {u} /\ UNCHANGED left
    \/ /\ left.faults > 0 /\ left' = [left EXCEPT !.faults = @ - 1]
       /\ ups' = (ups \ {u}) \cup {[u EXCEPT !.step = "none", !.found = FALSE]}

\* Admission gives the order (UpdateDelivery)
Admit ==
    /\ flight # <<>> /\ flight' = Tail(flight)
    /\ ups' = ups \cup {[kind |-> Head(flight).kind, body |-> Head(flight).body,
                         date |-> Head(flight).date, order |-> next, step |-> "none",
                         found |-> FALSE]}
    /\ next' = next + 1
    /\ UNCHANGED <<tg, pages, facts, peerless, cover, outgoing, left>>

\* The first read of on_new_message and on_message_edited; the rest follows after awaits
HandlerReads(u) ==
    /\ Handling(u, {"new", "edit"}, "none") /\ cover # "none"
    /\ ups' = (ups \ {u}) \cup {[u EXCEPT !.step = "read", !.found = row.present]}
    /\ UNCHANGED <<tg, flight, pages, facts, peerless, cover, outgoing, next, left>>

\* NO_REALTIME_HISTORY
HandlerSkips(u) ==
    /\ Handling(u, {"new", "edit"}, "none") /\ cover = "none" /\ Finish(u)
    /\ UNCHANGED <<tg, flight, pages, facts, peerless, cover, outgoing, next>>

\* (mutant) the coverage that was read before the awaits decides
AllowedAsRead == TRUE

\* The coverage is read again in the transaction
StillAllowed == Allowed

\* The transaction of on_new_message
NewCommits(u) ==
    /\ Handling(u, {"new"}, "read") /\ Finish(u)
    /\ IF StillAllowed THEN Insert(u, "new") ELSE UNCHANGED facts
    /\ UNCHANGED <<tg, flight, pages, peerless, cover, outgoing, next>>

\* _insert_missing_edited_message
MissingEditCommits(u) ==
    /\ Handling(u, {"edit"}, "read") /\ ~u.found /\ Finish(u)
    /\ IF StillAllowed THEN Insert(u, "edit") ELSE UNCHANGED facts
    /\ UNCHANGED <<tg, flight, pages, peerless, cover, outgoing, next>>

\* _persist_changed_edit
EditCommits(u) ==
    /\ Handling(u, {"edit"}, "read") /\ u.found /\ Finish(u)
    /\ IF StillAllowed THEN PersistEdited(u, "edit") ELSE UNCHANGED facts
    /\ UNCHANGED <<tg, flight, pages, peerless, cover, outgoing, next>>

\* on_message_deleted of a known peer
DeletionCommits(u) ==
    /\ Handling(u, {"del"}, "none") /\ Finish(u)
    /\ IF Allowed THEN Marked
       ELSE obs' = DeletionRecorded(obs, next) /\ UNCHANGED <<row, versions, hist>>
    /\ next' = next + 1
    /\ UNCHANGED <<tg, flight, pages, peerless, cover, outgoing>>

\* _handle_peerless_deletions: the id is enough for the one stored message that has it
PeerlessCommits(u) ==
    /\ Handling(u, {"peerless"}, "none") /\ Finish(u) /\ peerless' = TRUE
    /\ IF Live THEN Marked /\ next' = next + 1 ELSE UNCHANGED <<facts, next>>
    /\ UNCHANGED <<tg, flight, pages, cover, outgoing>>

-----------------------------------------------------------------------------
(* Answers of Telegram *)

\* A history page, a lookup of received messages or a page of the deletion sweep
Reserve ==
    /\ left.pages > 0 /\ left' = [left EXCEPT !.pages = @ - 1]
    /\ \E kind \in {"walk", "received", "sweep"} :
         pages' = pages \cup {[kind |-> kind, order |-> next, answered |-> FALSE, body |-> 0,
                              date |-> 0, gone |-> FALSE]}
    /\ next' = next + 1
    /\ UNCHANGED <<tg, flight, ups, facts, peerless, cover, outgoing>>

Answer(p) ==
    /\ p \in pages /\ ~p.answered
    /\ pages' = (pages \ {p}) \cup {[p EXCEPT !.answered = TRUE, !.body = tg.body,
                                            !.date = tg.date, !.gone = tg.gone]}
    /\ UNCHANGED <<tg, flight, ups, facts, peerless, cover, outgoing, next, left>>

\* The sweep marks an absent message unless a newer observation saw it
SweepMarks(p) == p.kind = "sweep" /\ cover = "full" /\ obs.order <= p.order

\* _scan_dm_gap_message_page
AbsenceCommits(p) ==
    /\ p \in pages /\ p.answered /\ p.gone /\ pages' = pages \ {p}
    /\ IF SweepMarks(p) /\ row.present THEN Marked /\ next' = next + 1
       ELSE UNCHANGED <<facts, next>>
    /\ UNCHANGED <<tg, flight, ups, peerless, cover, outgoing, left>>

\* persist_received_messages; a history page of an enrolled dialog is inserted
PageCommits(p) ==
    /\ p \in pages /\ p.answered /\ ~p.gone /\ pages' = pages \ {p}
    /\ IF p.kind = "walk" /\ cover = "full" THEN Insert(p, "page")
       ELSE IF p.kind # "walk" /\ StillAllowed THEN PersistReceived(p)
       ELSE UNCHANGED facts
    /\ UNCHANGED <<tg, flight, ups, peerless, cover, outgoing, next, left>>

-----------------------------------------------------------------------------
(* Telegram and the dialog *)

\* The date of an edit has whole seconds: a second edit may have the date of the first.
Edited ==
    /\ ~tg.gone /\ tg.body < MaxEdits
    /\ \E date \in {tg.date + 1} \cup (IF tg.date > 0 THEN {tg.date} ELSE {}) :
         /\ tg' = [tg EXCEPT !.body = @ + 1, !.date = date]
         /\ flight' = Append(flight, [kind |-> "edit", body |-> tg.body + 1, date |-> date])
         /\ hist' = [hist EXCEPT !.twins = @ \/ date = tg.date]
    /\ UNCHANGED <<ups, pages, row, obs, versions, peerless, cover, outgoing, next, left>>

\* DMs and small groups delete without a peer; Telethon may know the chat
Deleted ==
    /\ ~tg.gone /\ tg' = [tg EXCEPT !.gone = TRUE]
    /\ \E kind \in {"del", "peerless"} :
         flight' = Append(flight, [kind |-> kind, body |-> 0, date |-> 0])
    /\ UNCHANGED <<ups, pages, facts, peerless, cover, outgoing, next, left>>

CoverageChanges ==
    /\ left.changes > 0 /\ left' = [left EXCEPT !.changes = @ - 1]
    /\ cover' \in {"full", "own", "none"} \ {cover}
    /\ hist' = [hist EXCEPT !.covered = FALSE]
    /\ UNCHANGED <<tg, flight, ups, pages, row, obs, peerless, versions, outgoing, next>>

-----------------------------------------------------------------------------

Init ==
    /\ tg = [body |-> 0, date |-> 0, gone |-> FALSE]
    /\ flight = <<[kind |-> "new", body |-> 0, date |-> 0]>> /\ ups = {} /\ pages = {}
    /\ row = [present |-> FALSE, body |-> 0, date |-> 0, deleted |-> FALSE]
    /\ obs = [order |-> 0, rank |-> 0, deleted |-> FALSE]
    /\ peerless = FALSE /\ versions = <<>> /\ cover = "full"
    /\ outgoing \in (IF MaxChanges = 0 THEN {TRUE} ELSE BOOLEAN)
    /\ next = 1 /\ left = [pages |-> MaxPages, faults |-> MaxFaults, changes |-> MaxChanges]
    /\ hist = [covered |-> TRUE, newest |-> 0, twins |-> FALSE]

Next ==
    \/ Admit \/ Reserve \/ Edited \/ Deleted \/ CoverageChanges
    \/ \E u \in ups : \/ HandlerReads(u) \/ HandlerSkips(u) \/ NewCommits(u)
                     \/ MissingEditCommits(u) \/ EditCommits(u)
                     \/ DeletionCommits(u) \/ PeerlessCommits(u)
    \/ \E p \in pages : Answer(p) \/ AbsenceCommits(p) \/ PageCommits(p)

Spec == Init /\ [][Next]_vars

-----------------------------------------------------------------------------
(* Properties *)

TypeOK ==
    /\ \A u \in ups : u.step \in {"none", "read"} /\ u.order \in 1..(next - 1)
    /\ row.present \in BOOLEAN /\ row.body \in 0..MaxEdits /\ row.date \in 0..MaxEdits
    /\ row.deleted => row.present
    /\ obs.order \in 0..(next - 1) /\ obs.rank \in {0, 20, 40, 50}
    /\ \A i \in DOMAIN versions : versions[i] \in 0..MaxEdits
    /\ cover \in {"full", "own", "none"}

\* When every update is handled and every answer committed, the row shows whether Telegram
\* has the message and the date of its last edit, in whatever order they were committed;
\* and it shows the body too, unless two edits had one date.  Then the order decides, and a
\* body that is seen again keeps its old order (_preserve_newer_received_media): an older
\* edit of that second that is committed after an answer with the newer one replaces it.
Quiet == flight = <<>> /\ ups = {} /\ pages = {}
Settled ==
    Quiet /\ hist.covered =>
        IF tg.gone THEN ~Live
        ELSE Live /\ row.date = tg.date /\ (row.body = tg.body \/ hist.twins)

\* A message that is known to be deleted does not come back, whatever answers and updates
\* from before its deletion are still to come.
NoResurrection == [][KnownDeleted /\ ~Live => ~Live']_vars

\* The old texts are kept once each and in order, unless two edits had one date.
VersionsInOrder ==
    ~hist.twins => \A i, j \in DOMAIN versions : i < j => versions[i] < versions[j]

\* No answer and no update writes a body that the dialog's coverage at that moment does
\* not allow, though the handlers read it before they wait.
OnlyCovered ==
    [][row'.present /\ (row'.body # row.body \/ ~row.present) => Allowed]_vars

\* A delayed observation of the same second cannot replace a newer one
\* (test_same_second_delayed_observation_cannot_replace_newer_bundle).
NoDelayedReplacement ==
    [][row.present /\ row'.date = row.date /\ row'.body # row.body => hist'.newest > hist.newest]_vars

\* on_message_edited: when the text of a stored message changes, the old text is kept.
EditKeepsOldText ==
    [][row.present /\ row'.body # row.body /\ ups' # ups => versions' # versions]_vars

=============================================================================
