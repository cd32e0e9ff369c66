---------------------------- MODULE CommandInvariants ----------------------------
(***************************************************************************)
(* What the native commands keep.  For drafts, contacts and the scheduled  *)
(* queue: the invariant that holds in every state and from which their     *)
(* properties follow, and what groups of steps leave as it is.             *)
(***************************************************************************)
EXTENDS Drafts, ContactCommand, ScheduledQueue

-----------------------------------------------------------------------------
(* Drafts: the invariant *)

\* The order that updates are measured against
Current(d) == LaterOf(d.floor, d.row.order)

\* Whoever waits for a snapshot holds the lock, and what a command has learnt so far
\* depends on how far it is.
Control ==
    /\ refresh.step # "none" => refresh.who # None
    /\ refresh.who = "preflight" <=> command.step = "preflight"
    /\ refresh.who = "postflight" <=> command.step = "verify"
    /\ command.step \in {"preflight", "read", "dispatch", "wait"} => command.outcome = None
    /\ command.step \in {"prepare", "conflict"} => command.outcome \in {None, "unchanged"}
    /\ command.step = "acked" => command.outcome = "acknowledged"
    /\ command.step = "recover" => command.outcome \in {"acknowledged", "rejected", "unknown"}
    /\ command.step \in {"postflight", "verify", "compare"} => command.outcome \in {"acknowledged", "unknown"}
    /\ command.step = "finish" => command.outcome \in {"unchanged", "rejected"}
    /\ command.verdict => command.step = "compare"

\* A key without a receipt has sent nothing, an acknowledged write was applied, and a
\* postflight that answers for it was answered after it.
Fate ==
    /\ history.sent <= 1
    /\ history.sent = 0 => wire.step = "none"
    /\ wire.step = "applied" => history.wrote > 0
    /\ db.receipt = "none" => history.sent = 0
    /\ command.step \in {"preflight", "read", "prepare"} => db.receipt = "none"
    /\ command.step = "dispatch" => history.sent = 0 /\ db.receipt # "none"
    /\ command.outcome = "acknowledged" => history.wrote > 0
    /\ refresh.who = "postflight" /\ refresh.step = "answered" /\ command.outcome = "acknowledged"
         => refresh.after
    /\ command.step = "compare" /\ command.verdict /\ command.outcome = "acknowledged" => history.proved
    /\ db.receipt \in {"verified", "conflict"} => history.proved

\* An answered snapshot under a claim that nothing has superseded
InAnswer == db.claimed /\ refresh.step = "answered"

\* Something is on its way that the projection cannot know of, or a recovery is about
\* to be requested.
Blocked ==
    \/ phase # "running" \/ gap \/ asks \/ history.doubt \/ wire.step = "sent"
    \/ command.step \in {"wait", "acked", "recover"}

\* No order is ahead of Telegram's clock, a row is not older than the floor, and under a
\* claim nothing is newer than the answer.
Clocked ==
    /\ \A v \in flight : v.order <= telegram.second
    /\ db.row.order <= telegram.second /\ db.floor <= telegram.second
    /\ refresh.step = "answered" => 0 < refresh.order /\ refresh.order <= telegram.second
    /\ db.row # NoRow => db.floor <= db.row.order
    /\ InAnswer => db.row.order <= refresh.order

Ordered == ClaimHasOwner /\ UncertaintyIsPursued /\ Clocked

\* What a row, an update or a snapshot says that Telegram has
Told(draft) == IF draft \in {None, "empty", "cleared"} THEN "absent" ELSE draft

\* What carries the second of the clock says what Telegram has had in that second.
Lately ==
    /\ telegram.draft \in telegram.lately
    /\ db.row.order = telegram.second => Told(db.row.draft) \in telegram.lately
    /\ \A v \in flight : v.order = telegram.second => Told(v.draft) \in telegram.lately
    /\ refresh.step = "answered" /\ refresh.order = telegram.second => Told(refresh.draft) \in telegram.lately

\* u is the newest update and says what Telegram has.
Newest(u) == Told(u.draft) = telegram.draft /\ \A v \in flight : v.order <= u.order

\* No update newer than an order will say anything else than what Telegram has.
Overtaken(stamp) == \A v \in flight : v.order = 0 \/ v.order <= stamp \/ Told(v.draft) = telegram.draft

\* The row is right and stays so, or an update on its way will correct it or is ambiguous.
RowStands == Told(db.row.draft) = telegram.draft /\ Overtaken(Current(db))
RowUnderway == \E u \in flight : u.order = 0 \/ (Newest(u) /\ u.order >= Current(db))

\* The same of an answered snapshot: what it says will stand, or an update will supersede it.
SnapStands == Told(refresh.draft) = telegram.draft /\ Overtaken(refresh.order)
SnapUnderway ==
    \E u \in flight :
       u.order = 0 \/ /\ Newest(u) /\ u.order >= Current(db) /\ u.order >= refresh.order
                      /\ (u.order = db.row.order => u.draft # db.row.draft)

Truth ==
    ~Blocked => /\ ~Pending(db) => RowStands \/ RowUnderway
                /\ InAnswer => SnapStands \/ SnapUnderway

\* Nothing on its way is newer than the row, or the answer, and they say what Telegram has.
RowTrue == Told(db.row.draft) = telegram.draft /\ \A v \in flight : v.order <= Current(db)
SnapTrue == Told(refresh.draft) = telegram.draft /\ \A v \in flight : v.order <= refresh.order

\* Until another device edits, a command has read what Telegram has, and keeps it before it
\* writes.
Replaced ==
    /\ history.replaced \subseteq db.kept
    /\ ~history.moved =>
         /\ refresh.who = "preflight" /\ InAnswer => SnapTrue
         /\ command.step \in {"read", "prepare"} => RowTrue /\ (InAnswer => SnapTrue)
         /\ (command.step = "dispatch" \/ wire.step = "sent") /\ telegram.draft \in Texts
              => telegram.draft \in db.kept

\* QuietIsTrue says nothing of what is under way and DraftFateKnown nothing of the steps
\* between a receipt and its verdict; together with these the steps preserve them.
IInv == TypeOK /\ Control /\ Fate /\ Ordered /\ Lately /\ Truth /\ Replaced

-----------------------------------------------------------------------------
(* Drafts: the steps *)

\* Most steps keep the draft, the updates, the orders and the answered snapshot; they end
\* no recovery, and what unblocks the projection asks for one.
Steady ==
    /\ telegram' = telegram
    /\ flight' = flight \/ (flight' \subseteq flight /\ phase' # "running")
    /\ db'.row = db.row /\ db'.floor = db.floor /\ db'.uncertain = db.uncertain
    /\ db.kept \subseteq db'.kept
    /\ refresh'.step = "answered" => refresh' = refresh
    /\ db'.claimed => refresh'.step = "fetch" \/ (db.claimed /\ refresh' = refresh)
    /\ Pending(db) /\ (phase' = "running" \/ db.uncertain \/ LegacyPending(db)) => Pending(db')
    /\ Blocked /\ ~Blocked' => Pending(db') /\ ~db'.claimed

-----------------------------------------------------------------------------
(* Contacts: the invariant *)

Preparing == {"bind", "intend", "tokens", "claim"}
Accepted == {"reserve", "arm"} \cup Preparing

\* Where the write of a key stands: its packet, its request, its receipt and its intent
Passage(k) ==
    /\ sent[k] = (IF net[k] = "none" THEN 0 ELSE 1)
    /\ rec[k].bound => rec[k].outcome \in {"pending"} \cup Terminal
    /\ net[k] # "none" \/ request[k].st # "none" \/ intent[k] = "prepared" => rec[k].bound
    /\ request[k].st \in {"sent", "reject"} => rec[k].outcome = "pending"
    /\ request[k].st = "sent" => net[k] # "none"
    /\ request[k].st = "reject" => net[k] = "none"
    /\ request[k].st = "settled" => rec[k].outcome \in Terminal
    /\ request[k].st = "closed" => rec[k].outcome = "rejected"
    /\ request[k].st # "none" => up = "up"
    /\ request[k].st \in {"sent", "settled"} /\ ~request[k].revoked => Holds(k) /\ cmd.pc = "wire"

\* What the command has done before each of its steps
Commanded(k) ==
    Holds(k) =>
        /\ up = "up"
        /\ cmd.pc \in {"acquire", "reserve"} => rec[k].outcome = "none"
        /\ cmd.pc \in {"arm"} \cup Preparing =>
              rec[k].outcome = "pending" /\ request[k].st = "none" /\ net[k] = "none"
        /\ cmd.pc = "arm" => ~rec[k].bound
        /\ cmd.pc \in {"intend", "tokens", "claim"} => rec[k].bound
        /\ cmd.pc \in {"post", "verify"} => rec[k].outcome = "acknowledged" /\ request[k].st = "none"

\* A receipt is true
Truthful(k) ==
    /\ rec[k].outcome = "rejected" => net[k] \in {"none", "refused"} /\ request[k].st # "sent"
    /\ rec[k].outcome = "acknowledged" => net[k] = "applied"

\* An intent has an owner, or the process is not ready
Intended(k) ==
    /\ up = "up" /\ intent[k] = "prepared" =>
          request[k].st # "none" \/ (Holds(k) /\ cmd.pc \in Preparing)
    /\ up = "safe" => intent[k] # "prepared"

\* A refresh that is running reads back what was settled before it began.
Owed(k) ==
    VerificationPending(rec[k]) =>
        \/ profile = "profile" /\ (fetch["refresh"].st = "off" \/ rec[k].term < fetch["refresh"].ord)
        \/ follow \/ startup \/ up # "up" \/ Holds(k)
        \/ request[k].st # "none" /\ request[k].revoked

FetchOwned ==
    /\ fetch["refresh"].st # "off" => profile = "profile"
    /\ fetch["refresh"].st # "done"
    /\ fetch["cmd"].st # "off" => cmd.pc \in {"acquire", "post"}

\* An answer that is newer than the end of a write is about the state after it.
AfterIn(ord, after) ==
    \A k \in Keys : rec[k].outcome \in {"unknown", "acknowledged"} /\ rec[k].term < ord => k \in after

Answers ==
    /\ \A r \in Readers : fetch[r].st \in {"got", "done"} => AfterIn(fetch[r].ord, fetch[r].after)
    /\ local.src = "fetch" => AfterIn(local.ord, local.after)

\* What the command was promised holds as long as the counters stand still.
Watch ==
    /\ cmd.pc # "idle" => cmd.intake[1] <= scopeGen /\ cmd.intake[2] <= delivered
    /\ cmd.pc \in Preparing => cmd.permit # NoMark /\ cmd.permit[1] <= scopeGen /\ cmd.permit[2] <= gen
    /\ IntakeCurrent(cmd.intake) /\ (cmd.pc \in Accepted \/ (cmd.pc = "acquire" /\ fetch["cmd"].st \in {"got", "done"}))
          => ~dirty
    /\ cmd.pc \in Accepted /\ local.ord = cmd.ord => local.src = "fetch"
    /\ fetch["cmd"].st # "off" /\ local.ord = fetch["cmd"].ord => local.src = "fetch"
    /\ cmd.pc = "claim" /\ cmd.permit = <<scopeGen, gen>> => local.val = cmd.ver /\ local.ord = cmd.ord

WriteFate(k) == Passage(k) /\ Commanded(k) /\ Truthful(k) /\ Intended(k)

ContactInv ==
    /\ ContactTypeOK /\ (\A k \in Keys : WriteFate(k) /\ Owed(k))
    /\ OneUnresolved /\ FetchOwned /\ Answers /\ ReadAfterWrite /\ Watch

-----------------------------------------------------------------------------
(* Contacts: the steps *)

\* A step that settles nothing and forgets nothing
SameOutcome(r, s) ==
    /\ s.outcome = r.outcome /\ s.bound = r.bound /\ s.term = r.term /\ s.want = r.want
    /\ r.ver = "observed" => s.ver = "observed"
    /\ VerificationPending(s) => VerificationPending(r)

\* A verdict from a read is of a receipt that was settled before the read.
Judged(o) ==
    \A k \in Keys :
        /\ SameOutcome(rec[k], rec'[k])
        /\ rec'[k].ver # rec[k].ver /\ rec'[k].ver \in {"verified", "mismatch", "observed"} =>
              rec[k].outcome \in {"unknown", "acknowledged"} /\ rec[k].term < o.ord

Settling == \E k \in Keys, outcome \in Terminal : SettleReceipt(k, outcome)
Serving == \E r \in Readers : Serve(r)
Beginning == \E k \in Keys, want, ver \in Values : Begin(k, want, ver)

ReceiptSteps ==
    \/ CommandPublish \/ Reserve \/ BindAttempt \/ PublishVerification \/ Cleanup
    \/ Settling \/ RefreshStart \/ RefreshPublish \/ ReconcileIntents \/ RecoverInterrupted
CommandSteps ==
    \/ Beginning \/ AcquireStart \/ Judge \/ Reserve \/ Arm \/ BindAttempt \/ PrepareIntent
    \/ PreclaimTokens \/ ClaimWrite \/ ClaimRefused \/ CallReturns \/ PostJudge
    \/ PublishVerification \/ Cleanup \/ Cancel \/ Crash
FetchSteps ==
    \/ AcquireStart \/ Serving \/ CommandPublish \/ Judge \/ PostJudge \/ Cancel
    \/ RefreshStart \/ RefreshPublish \/ Crash
ClockSteps ==
    \/ AcquireStart \/ Settling \/ RefreshStart \/ ApplyPush \/ ReconcileIntents \/ RecoverInterrupted

\* Steps that leave a write where it is
Still == UNCHANGED <<net, sent, intent, request, up, cmd>> /\ \A k \in Keys : SameOutcome(rec[k], rec'[k])

\* A step that leaves the command's promises alone, or ends it
Onward ==
    \/ cmd'.pc = "idle"
    \/ /\ cmd.pc # "idle" /\ cmd'.intake = cmd.intake /\ cmd'.permit = cmd.permit /\ cmd'.ver = cmd.ver
       /\ cmd'.pc \in Accepted => cmd.pc \in Accepted /\ cmd'.ord = cmd.ord
       /\ cmd'.pc \in Preparing => cmd.pc \in Preparing
       /\ cmd'.pc = "acquire" => cmd.pc = "acquire"
       /\ cmd'.pc = "claim" => cmd.pc = "claim"

-----------------------------------------------------------------------------
(* The scheduled queue: the invariant *)

\* The request of the command may have changed Telegram's queue, and the mirror does
\* not show it yet; what the mirror will not show is offered to the reconciler.
Written ==
    operation.phase = "applying" \/ (operation.phase = "handled" /\ operation.reply = "applied")
Exposed(m) ==
    /\ operation.message = m
    /\ Written \/ operation.phase = "offering" \/ (operation.phase = "finishing" /\ OfferNeeded)

Captured == attempt.phase \in {"away", "answered"}
Unmoved == Captured /\ attempt.generation = recon.generation
OnTheWire ==
    operation.phase \in {"permitted", "sent", "handled", "applying", "finishing", "offering"}

\* The last update about a message that is on its way
Waits(i, m) == i \in DOMAIN updates /\ updates[i].message = m /\ updates[i].kind # "sent"
Last(i, m) == Waits(i, m) /\ \A j \in DOMAIN updates : Waits(j, m) => j <= i

Same(r, s) ==
    /\ r.state = "scheduled" <=> s.state = "scheduled"
    /\ r.state = "scheduled" => r.rev = s.rev
Tells(u, s) ==
    IF u.kind = "new" THEN s.state = "scheduled" /\ u.rev = s.rev ELSE s.state # "scheduled"

\* An observation of this order comes after order o: it has none yet, or a later one.
After(u, o) == u.order = 0 \/ u.order > o
Comes(m, o) == \E i \in DOMAIN updates : Last(i, m) /\ After(updates[i], o)

\* A row is right, or the last update about its message will make it so.
RowRight(m) ==
    \/ Same(rows[m], server[m])
    \/ Comes(m, Newer(rows[m].order, recon.snapshot))

\* The snapshot is right about a message, or the last update about it is newer.
SnapshotRight(m) ==
    \/ rows[m].state = "published"
    \/ /\ m \in DOMAIN attempt.snapshot <=> server[m].state = "scheduled"
       /\ m \in DOMAIN attempt.snapshot => attempt.snapshot[m] = server[m].rev
    \/ Comes(m, attempt.order)

\* Orders are those that were given out; updates are admitted in their order.
OrdersGiven ==
    /\ \A m \in Messages : rows[m].order <= order
    /\ recon.snapshot <= order /\ attempt.order <= order /\ operation.order <= order
    /\ \A k \in OperationKeys : receipts[k].order <= order
    /\ \A i \in DOMAIN updates : updates[i].order <= order
    /\ \A i, j \in DOMAIN updates :
          (i < j /\ updates[j].order > 0) =>
             updates[i].order > 0 /\ updates[i].order < updates[j].order

\* What is published stays so, and the last update about a message says how it is.
UpdatesTell ==
    /\ \A i \in DOMAIN updates :
          updates[i].kind \in {"published", "sent"} =>
            server[updates[i].message].state = "published"
    /\ \A m \in Messages :
          (m \in evidence \/ rows[m].state = "published") => server[m].state = "published"
    /\ ~doubt => \A m \in Messages : \A i \in DOMAIN updates :
          Last(i, m) => Tells(updates[i], server[m])

\* A command and its key
OperationHeld ==
    /\ operation.phase # "idle" => boot = "running" /\ operation.key \in OperationKeys
    /\ operation.phase \in {"reading", "preparing"} =>
          receipts[operation.key].outcome = "none" /\ operation.order = 0
    /\ operation.phase \in {"admitting", "permitted"} => sends[operation.key] = 0
    /\ operation.phase \in
          {"admitting", "permitted", "sent", "handled", "applying", "finishing"} =>
          receipts[operation.key].outcome = "pending"
    /\ operation.phase \in {"sent", "handled", "applying"} => operation.sent
    /\ operation.phase \in {"preparing", "admitting", "permitted", "sent"} =>
          (operation.action = "create") = (operation.message = Unset)
    /\ operation.confirmed => operation.phase \in {"finishing", "offering"}
    /\ operation.phase = "finishing" => operation.result # "none"
    /\ \A k \in OperationKeys : sends[k] <= 1 /\ (receipts[k].outcome = "none" => sends[k] = 0)
    /\ operation.permit = "valid" =>
          StateKnown(operation.message) /\ VersionSeen(operation.message) = operation.version

\* The order of the command is its own; what Telegram changed after the request has a
\* newer one, and so has the row that shows it.
WriteOrdered ==
    /\ operation.phase \in {"admitting", "permitted", "sent", "handled", "applying"} =>
          /\ \A m \in Messages : rows[m].order # operation.order
          /\ \A i \in DOMAIN updates : updates[i].order # operation.order
          /\ attempt.order # operation.order /\ operation.order > 0
    /\ Written =>
          /\ operation.message \in Messages
          /\ ~doubt => \A i \in DOMAIN updates : After(updates[i], operation.order)
          /\ (~doubt /\ ~lost /\ recon.coverage = "complete") =>
               LET m == operation.message
               IN  \/ server[m].state =
                         IF operation.action = "cancel" THEN "cancelled" ELSE "scheduled"
                   \/ \E i \in DOMAIN updates : Waits(i, m)
                   \/ Newer(rows[m].order, recon.snapshot) > operation.order
                   \/ rows[m].state = "published"

\* A snapshot that is not stale is newer than all the rows, and than what has been
\* observed before it; and a baseline that was complete when the command was
\* checked is complete still.
AttemptKept ==
    /\ attempt.phase # "idle" => boot = "running"
    /\ attempt.generation <= recon.generation
    /\ Captured =>
          /\ recon.snapshot < attempt.order
          /\ \A k \in OperationKeys :
                receipts[k].outcome = "interrupted" => receipts[k].order < attempt.order
    /\ Unmoved =>
          /\ \A m \in Messages : rows[m].order < attempt.order
          /\ (OnTheWire /\ attempt.order < operation.order) => recon.coverage = "complete"

AnswerKept ==
    (Unmoved /\ attempt.phase = "answered" /\ ~doubt /\ ~lost) =>
        \A m \in Messages : Exposed(m) \/ SnapshotRight(m)

MirrorKept ==
    (/\ ~doubt /\ ~lost /\ recon.coverage = "complete"
     /\ boot = "recovering" => InterruptedKeys = {}) =>
        \A m \in Messages : Exposed(m) \/ RowRight(m)

\* A start is over only after the recovery of what it found interrupted.
StartKept == (boot = "settling" /\ InterruptedKeys # {}) => recon.coverage # "complete"

QueueInv ==
    /\ QueueTypeOK /\ OrdersGiven /\ UpdatesTell /\ OperationHeld /\ WriteOrdered
    /\ AttemptKept /\ AnswerKept /\ MirrorKept /\ StartKept
    /\ UnknownIsDue /\ InterruptedIsRecovered

-----------------------------------------------------------------------------
(* The scheduled queue: the steps *)

MirrorRecords ==
    [rows : [Messages -> RowRecords], evidence : SUBSET Messages, recon : ReconRecords,
     operation : OperationRecords]

\* A queue that is not known, or not authorised, has work that is due.
DueHolds(r) ==
    (r.coverage = "unknown" \/ (r.coverage = "complete" /\ r.authorization)) =>
        r.repair # "none" \/ r.discovery # "none"

\* A permit may be taken away and nothing else changes.
Loses(c, d) ==
    /\ d \in OperationRecords
    /\ d.phase = c.phase /\ d.key = c.key /\ d.action = c.action /\ d.message = c.message
    /\ d.version = c.version /\ d.order = c.order /\ d.reply = c.reply /\ d.result = c.result
    /\ d.sent = c.sent /\ d.confirmed = c.confirmed
    /\ d.permit = "none" <=> c.permit = "none"
    /\ d.permit = "valid" => c.permit = "valid"

\* What becomes of the reconciliation state outside of an applied snapshot
Moves(r, s) ==
    /\ s \in ReconRecords /\ s.snapshot = r.snapshot /\ s.generation >= r.generation
    /\ s.coverage = "complete" => r.coverage = "complete"
    /\ DueHolds(r) => DueHolds(s)

\* What a change of one row leaves of the reconciliation state
Stands(r, s) ==
    /\ Moves(r, s) /\ s.access = r.access /\ s.blocked = r.blocked
    /\ s.authorization = r.authorization
    /\ s.coverage = "complete" <=> r.coverage = "complete"

\* The row of a message is changed: the dialog is marked, and no permit for the message
\* is valid.
Touches(M, N, m) ==
    /\ N \in MirrorRecords /\ N.rows = [M.rows EXCEPT ![m] = N.rows[m]]
    /\ Stands(M.recon, N.recon) /\ N.recon.generation > M.recon.generation
    /\ Loses(M.operation, N.operation)
    /\ N.operation.permit = "valid" => N.operation.message # m

\* One row is changed and its permit taken.
WithRow(M, m, row) ==
    [M EXCEPT !.rows = [M.rows EXCEPT ![m] = row], !.operation = RevokeMessage(M.operation, m)]

\* The three states of the dialog that a permit rests on
OpenQueue(r) == r.access /\ ~r.blocked /\ r.coverage = "complete" /\ ~r.authorization

AttemptRests ==
    \/ attempt' = attempt
    \/ attempt' = NoAttempt
    \/ attempt.phase = "excluding" /\ attempt' = [attempt EXCEPT !.phase = "selected"]

OrderedPhases == {"admitting", "permitted", "sent", "handled", "applying"}

\* What an update does to the mirror: it is not current, it is accepted, or a
\* publication is verified.
Delivered(u) ==
    CASE u.kind = "new" -> Upsert(Mirror, u.message, u.rev, u.order)
      [] u.kind = "sent" -> Verified(Mirror, u.message)
      [] OTHER -> Removed(Mirror, u.message, u.kind = "published", u.order)

UpdateAccepted(u) == u.kind # "sent" /\ ObservationCurrent(Mirror, u.message, u.order)

\* What _apply_snapshot makes of the row of a message
SnapshotRow(m) ==
    IF ~ObservationCurrent(Mirror, m, attempt.order) THEN rows[m]
    ELSE IF m \in DOMAIN attempt.snapshot
    THEN [state |-> "scheduled", order |-> attempt.order, rev |-> attempt.snapshot[m],
          hint |-> FALSE]
    ELSE IF rows[m].state = "scheduled"
    THEN [rows[m] EXCEPT !.state = "unknown_missing", !.order = attempt.order]
    ELSE rows[m]

\* What _apply_response makes of the mirror
AnswerStored ==
    IF operation.action = "cancel" THEN Removed(Mirror, operation.message, FALSE, operation.order)
    ELSE Upsert(Mirror, operation.message, server[operation.message].rev, operation.order)

Expected == IF operation.action = "cancel" THEN "cancelled" ELSE "scheduled"
=============================================================================
