----------------------------- MODULE UpdateRing -----------------------------
(***************************************************************************)
(* Raw-update diagnostics: TelegramUpdateRing (telegram_update_ring.py)    *)
(* stages what the connection receives, the flush task of                  *)
(* RuntimeObservationSink (runtime_observations.py) binds the account and  *)
(* writes batches, and telegram_update_store.py keeps them in sync.db.     *)
(* Captures, verifications and logouts go on while the flush task awaits   *)
(* the SQLite writer, and the process may stop anywhere.                   *)
(*                                                                         *)
(* A step runs to the next await.  The four counters of lost records are   *)
(* one counter, the reason of a reset is not kept, and rows are ordered by *)
(* run and sequence (the code orders them by capture time).                *)
(***************************************************************************)
EXTENDS Integers, Sequences, FiniteSets, SequencesExt

CONSTANTS
    Accounts,
    None,       \* no account, no generation, no run
    MaxBytes,   \* MAX_RETAINED_BYTES
    MaxEntry,   \* MAX_ENTRY_BYTES, which is also max_bytes of one batch
    MaxEntries, \* MAX_ENTRIES
    MaxCount,   \* max_count of one batch
    MaxRows,    \* MAX_ROWS of the store
    MaxSequence,\* bound: captures of one process
    MaxRuns,    \* bound: processes
    MaxWriterFaults, \* bound: failures of the writer
    MaxLogouts  \* bound: logouts of one process

ASSUME RingAssumption ==
    /\ None \notin Accounts /\ None \notin Nat
    /\ {MaxBytes, MaxEntry, MaxEntries, MaxCount, MaxRows, MaxRuns} \subseteq Nat \ {0}
    /\ {MaxSequence, MaxWriterFaults, MaxLogouts} \subseteq Nat

VARIABLES
    ring,    \* TelegramUpdateRing
    flush,   \* the flush task: its stage, its locals, _ring_failed and _ring_counters (known;
             \* settled: nothing was pending then)
    store,   \* raw_telegram_updates and its keys of daemon_state
    run,     \* runtime_id of the process
    session, \* the account the connection belongs to
    closing, \* the connection is closed and the sink is asked to close
    writer_faults,
    \* history
    stored,  \* records of this process that were ever committed
    late,    \* something was captured while counters were written without records
    lossy    \* runs of the store's generation that stopped with a loss the store does not count

ringVars == <<ring, flush, store, run, session, closing, writer_faults, stored, late, lossy>>

\* An entry occupies the bytes after start up to end of what is staged.
Entry == [seq : 1..MaxSequence, start : Nat, end : Nat, owner : Accounts]
Row == [run : 1..MaxRuns, seq : 1..MaxSequence, owner : Accounts]

\* What the code adds up entry by entry: entries that stay together are adjacent.
Bytes(entries) == IF entries = <<>> THEN 0 ELSE Last(entries).end - entries[1].start

NewRing == [entries |-> <<>>, last |-> 0, through |-> 0, inflight |-> 0, orphaned |-> 0,
            account |-> None, generation |-> None, desired |-> None,
            revision |-> 0, logouts |-> 0, cleared |-> 0, dropped |-> 0]

NewFlush == [stage |-> "idle", done |-> FALSE, again |-> FALSE, account |-> None, revision |-> 0,
             serial |-> 0, generation |-> None, answer |-> FALSE, batch |-> <<>>, counted |-> 0,
             failed |-> FALSE, known |-> 0, settled |-> FALSE]

-----------------------------------------------------------------------------
(* TelegramUpdateRing *)

Reset(r) ==
    [r EXCEPT !.dropped = @ + Len(r.entries), !.entries = <<>>, !.orphaned = r.inflight,
              !.through = 0, !.account = None]

RequestVerifiedAccount(r, a) ==
    IF r.desired = a THEN r
    ELSE LET kept == IF r.account \notin {None, a} THEN Reset(r) ELSE r
         IN  [kept EXCEPT !.generation = None, !.desired = a, !.revision = @ + 1]

\* (mutant) a logout leaves the staged entries to the next account
LogoutKeepsEntries(r) ==
    [r EXCEPT !.generation = None, !.desired = None, !.revision = @ + 1, !.logouts = @ + 1]

RequestLogout(r) ==
    [Reset(r) EXCEPT !.generation = None, !.desired = None, !.revision = @ + 1, !.logouts = @ + 1]

CompleteBind(r, a, revision, generation) ==
    IF revision = r.revision /\ r.cleared = r.logouts
    THEN [r EXCEPT !.account = a, !.generation = generation]
    ELSE r

Fits(r, entries, size) ==
    /\ Bytes(entries) + r.orphaned + size <= MaxBytes
    /\ Len(entries) < MaxEntries

\* The oldest entries go until there is room, but none of the batch in flight.
MakeRoom(r, size) ==
    LET Rest(n) == SubSeq(r.entries, n + 1, Len(r.entries))
        stops == {n \in 0..Len(r.entries) :
                     \/ Fits(r, Rest(n), size)
                     \/ n = Len(r.entries)
                     \/ r.entries[n + 1].seq <= r.through}
        cut == CHOOSE n \in stops : \A m \in stops : n <= m
    IN  [room |-> Fits(r, Rest(cut), size), evicted |-> cut, kept |-> Rest(cut)]

\* A size above MaxEntry stands for an item that is too large or that cannot
\* be serialised.
CaptureInto(r, size, owner) ==
    LET seq == r.last + 1
        made == MakeRoom(r, size)
        start == IF made.kept = <<>> THEN 0 ELSE Last(made.kept).end
    IN  IF size > MaxEntry
        THEN [r EXCEPT !.last = seq, !.dropped = @ + 1]
        ELSE IF ~made.room
        THEN [r EXCEPT !.last = seq, !.entries = made.kept, !.dropped = @ + made.evicted + 1]
        ELSE [r EXCEPT !.last = seq, !.dropped = @ + made.evicted,
                       !.entries = Append(made.kept, [seq |-> seq, start |-> start,
                                                      end |-> start + size, owner |-> owner])]

PeekBatch(r) ==
    LET fitting == {n \in 0..Len(r.entries) :
                       n <= MaxCount /\ Bytes(SubSeq(r.entries, 1, n)) <= MaxEntry}
        count == CHOOSE n \in fitting : \A m \in fitting : m <= n
    IN  SubSeq(r.entries, 1, count)

Peeked(r, batch) ==
    IF batch = <<>> THEN r
    ELSE [r EXCEPT !.through = Last(batch).seq, !.inflight = Bytes(batch)]

ReleaseBatch(r) == [r EXCEPT !.through = 0, !.inflight = 0, !.orphaned = 0]

AckBatch(r, batch) ==
    IF batch = <<>> THEN r
    ELSE LET stops == {n \in 0..Len(r.entries) :
                          n < Len(r.entries) => r.entries[n + 1].seq > Last(batch).seq}
             cut == CHOOSE n \in stops : \A m \in stops : n <= m
         IN  [ReleaseBatch(r) EXCEPT !.entries = SubSeq(@, cut + 1, Len(@))]

DiscardBatch(r, batch) ==
    LET acked == AckBatch(r, batch)
    IN  [acked EXCEPT !.dropped = @ + Len(r.entries) - Len(acked.entries)]

-----------------------------------------------------------------------------
(* telegram_update_store: one transaction each *)

Cleared(generation) ==
    [generation |-> generation, account |-> None, runtime |-> None, open |-> FALSE,
     rows |-> {}, unknown |-> 0, total |-> 0, snapshot |-> 0, evicted |-> 0]

AccountChanges(d, a) == d.account \notin {None, a}

BoundStore(d, a) ==
    [(IF AccountChanges(d, a) THEN Cleared(d.generation + 1)
      ELSE IF d.generation = 0 THEN [d EXCEPT !.generation = 1] ELSE d) EXCEPT !.account = a]

ResetUpdates(d) == Cleared(d.generation + 1)

IsGeneration(d, expected) == d.account # None /\ d.generation = expected

BeginUpdateRun(d, runtime) ==
    IF d.runtime = runtime THEN d
    ELSE [d EXCEPT !.unknown = @ + (IF d.runtime # None /\ d.open THEN 1 ELSE 0),
                   !.snapshot = 0, !.runtime = runtime, !.open = TRUE]

Older(a, b) == a.run < b.run \/ (a.run = b.run /\ a.seq < b.seq)

PruneCapacity(d) ==
    LET kept == {a \in d.rows : Cardinality({b \in d.rows : Older(a, b)}) < MaxRows}
    IN  [d EXCEPT !.rows = kept, !.evicted = @ + Cardinality(d.rows \ kept)]

Accepts(d, expected, runtime) ==
    IsGeneration(d, expected) /\ d.runtime = runtime /\ d.open

WriteUpdateBatch(d, batch, counted, runtime) ==
    LET new == {[run |-> runtime, seq |-> e.seq, owner |-> e.owner] : e \in ToSet(batch)}
        raised == IF counted > d.snapshot THEN counted - d.snapshot ELSE 0
    IN  [PruneCapacity([d EXCEPT !.rows = @ \cup new]) EXCEPT
            !.total = @ + raised, !.snapshot = @ + raised]

-----------------------------------------------------------------------------
(* The connection: captures, verification, logout *)

Capture(size) ==
    /\ session # None /\ ~closing /\ ring.last < MaxSequence
    /\ ring' = CaptureInto(ring, size, session)
    /\ late' = (late \/ (flush.stage = "write" /\ flush.batch = <<>>))
    /\ UNCHANGED <<flush, store, run, session, closing, writer_faults, stored, lossy>>

Login(a) ==
    /\ session = None /\ ~closing
    /\ session' = a
    /\ UNCHANGED <<ring, flush, store, run, closing, writer_faults, stored, late, lossy>>

Verify ==
    /\ session # None /\ ~closing /\ ring.desired # session
    /\ ring' = RequestVerifiedAccount(ring, session)
    /\ UNCHANGED <<flush, store, run, session, closing, writer_faults, stored, late, lossy>>

Logout ==
    /\ session # None /\ ~closing /\ ring.logouts < MaxLogouts
    /\ session' = None
    /\ ring' = RequestLogout(ring)
    /\ UNCHANGED <<flush, store, run, closing, writer_faults, stored, late, lossy>>

CloseConnection ==
    /\ ~closing
    /\ closing' = TRUE
    /\ UNCHANGED <<ring, flush, store, run, session, writer_faults, stored, late, lossy>>

-----------------------------------------------------------------------------
(* The flush task.  A stage other than idle awaits the writer; done says    *)
(* that its transaction is committed.                                       *)

\* _flush_finished, and the next turn of _flush_loop otherwise
TurnEnds(f, active) ==
    [NewFlush EXCEPT !.failed = f.failed, !.known = f.known, !.settled = f.settled,
                     !.stage = IF closing /\ ~active THEN "finished" ELSE "idle"]

\* _flush_updates up to its await, after a lifecycle step that wants another
\* turn iff again.  Nothing is written when the counters are the ones written last; they
\* tell what is pending too, so that a batch is followed by a write of counters alone.
FlushUpdates(r, f, again) ==
    LET batch == PeekBatch(r)
    IN  IF r.generation = None \/ (batch = <<>> /\ r.dropped = f.known /\ f.settled)
        THEN ring' = r /\ flush' = TurnEnds(f, again)
        ELSE /\ ring' = Peeked(r, batch)
             /\ flush' = [TurnEnds(f, TRUE) EXCEPT !.stage = "write", !.again = again, !.batch = batch,
                              !.counted = r.dropped, !.generation = r.generation]

\* _update_ring_lifecycle up to its await
TurnBegins ==
    /\ flush.stage = "idle"
    /\ IF ring.cleared < ring.logouts
       THEN /\ flush' = [flush EXCEPT !.stage = "clear", !.serial = ring.logouts]
            /\ UNCHANGED ring
       ELSE IF ring.generation = None /\ ring.desired # None
       THEN /\ flush' = [flush EXCEPT !.stage = "bind", !.account = ring.desired,
                                      !.revision = ring.revision]
            /\ UNCHANGED ring
       ELSE FlushUpdates(ring, flush, FALSE)
    /\ late' = FALSE
    /\ UNCHANGED <<store, run, session, closing, writer_faults, stored, lossy>>

ClearCommits ==
    /\ flush.stage = "clear" /\ ~flush.done
    /\ store' = ResetUpdates(store) /\ lossy' = 0
    /\ flush' = [flush EXCEPT !.done = TRUE]
    /\ UNCHANGED <<ring, run, session, closing, writer_faults, stored, late>>

ClearReturns ==
    /\ flush.stage = "clear" /\ flush.done
    /\ LET r == [ring EXCEPT !.cleared = flush.serial]
       IN  FlushUpdates(r, flush, r.desired # None \/ r.cleared < r.logouts)
    /\ UNCHANGED <<store, run, session, closing, writer_faults, stored, late, lossy>>

BindCommits ==
    /\ flush.stage = "bind" /\ ~flush.done
    /\ store' = BoundStore(store, flush.account)
    /\ lossy' = IF store'.generation # store.generation THEN 0 ELSE lossy
    /\ flush' = [flush EXCEPT !.done = TRUE, !.answer = AccountChanges(store, flush.account),
                              !.generation = store'.generation]
    /\ UNCHANGED <<ring, run, session, closing, writer_faults, stored, late>>

LifecyclePending(r, f) == f.revision # r.revision \/ r.cleared < r.logouts

BindReturns ==
    /\ flush.stage = "bind" /\ flush.done
    /\ LET r == IF flush.answer THEN Reset(ring) ELSE ring
       IN  IF flush.revision # r.revision
           THEN FlushUpdates(r, flush, LifecyclePending(r, flush))
           ELSE /\ ring' = r
                /\ flush' = [flush EXCEPT !.stage = "begin", !.done = FALSE, !.answer = FALSE]
    /\ UNCHANGED <<store, run, session, closing, writer_faults, stored, late, lossy>>

BeginCommits ==
    /\ flush.stage = "begin" /\ ~flush.done
    /\ LET ok == IsGeneration(store, flush.generation)
       IN  /\ flush' = [flush EXCEPT !.done = TRUE, !.answer = ok]
           /\ store' = IF ok THEN BeginUpdateRun(store, run) ELSE store
    /\ UNCHANGED <<ring, run, session, closing, writer_faults, stored, late, lossy>>

BeginReturns ==
    /\ flush.stage = "begin" /\ flush.done
    /\ IF flush.answer
       THEN LET r == CompleteBind(ring, flush.account, flush.revision, flush.generation)
            IN  FlushUpdates(r, flush, LifecyclePending(r, flush))
       ELSE FlushUpdates(ring, [flush EXCEPT !.failed = TRUE], FALSE)
    /\ UNCHANGED <<store, run, session, closing, writer_faults, stored, late, lossy>>

WriteCommits ==
    /\ flush.stage = "write" /\ ~flush.done
    /\ LET ok == Accepts(store, flush.generation, run)
       IN  /\ flush' = [flush EXCEPT !.done = TRUE, !.answer = ok]
           /\ store' = IF ok THEN WriteUpdateBatch(store, flush.batch, flush.counted, run) ELSE store
           /\ stored' = IF ok THEN stored \cup {e.seq : e \in ToSet(flush.batch)} ELSE stored
    /\ UNCHANGED <<ring, run, session, closing, writer_faults, late, lossy>>

WriteReturns ==
    /\ flush.stage = "write" /\ flush.done
    /\ IF flush.answer
       THEN /\ ring' = AckBatch(ring, flush.batch)
            /\ flush' = TurnEnds([flush EXCEPT !.failed = FALSE, !.known = flush.counted,
                                                 !.settled = flush.batch = <<>>],
                                 flush.batch # <<>> \/ flush.again)
       ELSE /\ ring' = DiscardBatch(ring, flush.batch)
            /\ flush' = TurnEnds([flush EXCEPT !.failed = TRUE], flush.again)
    /\ UNCHANGED <<store, run, session, closing, writer_faults, stored, late, lossy>>

\* The writer answers with an exception and nothing is committed.
WriterFails ==
    /\ flush.stage \in {"clear", "bind", "begin", "write", "end"} /\ ~flush.done
    /\ writer_faults < MaxWriterFaults /\ writer_faults' = writer_faults + 1
    /\ CASE flush.stage = "write" ->
              /\ ring' = ReleaseBatch(ring)
              /\ flush' = TurnEnds([flush EXCEPT !.failed = TRUE], flush.again)
         [] flush.stage = "end" -> ring' = ring /\ flush' = [flush EXCEPT !.stage = "exited"]
         [] OTHER -> FlushUpdates(ring, [flush EXCEPT !.failed = TRUE], FALSE)
    /\ UNCHANGED <<store, run, session, closing, stored, late, lossy>>

\* aclose after the flush task: _end_update_run
EndBegins ==
    /\ flush.stage = "finished"
    /\ flush' = [flush EXCEPT !.stage =
                    IF ring.generation # None /\ ~flush.failed THEN "end" ELSE "exited"]
    /\ UNCHANGED <<ring, store, run, session, closing, writer_faults, stored, late, lossy>>

EndCommits ==
    /\ flush.stage = "end"
    /\ store' = IF IsGeneration(store, ring.generation) /\ store.runtime = run
               THEN [store EXCEPT !.open = FALSE] ELSE store
    /\ flush' = [flush EXCEPT !.stage = "exited"]
    /\ UNCHANGED <<ring, run, session, closing, writer_faults, stored, late, lossy>>

\* Records of this process that were neither stored nor counted as lost.
Unreported ==
    \/ ring.dropped > flush.known
    \/ \E e \in ToSet(ring.entries) : e.seq \notin stored

\* A write of counters alone counts as an idle turn, so that a connection that
\* closed meanwhile ends the flush task with what it captured during that write.
LateLoss == flush.stage = "exited" /\ late

\* The process stops, after its close or anywhere before, and another starts
\* with whatever session it finds.
Restart(a) ==
    /\ run < MaxRuns
    /\ run' = run + 1 /\ session' = a
    /\ lossy' = lossy + (IF store.runtime = run /\ Unreported /\ ~LateLoss THEN 1 ELSE 0)
    /\ ring' = NewRing /\ flush' = NewFlush /\ closing' = FALSE /\ stored' = {} /\ late' = FALSE
    /\ UNCHANGED <<store, writer_faults>>

-----------------------------------------------------------------------------
RingInit ==
    /\ ring = NewRing /\ flush = NewFlush /\ store = Cleared(0)
    /\ run = 1 /\ session \in Accounts \cup {None} /\ closing = FALSE
    /\ writer_faults = 0 /\ stored = {} /\ late = FALSE /\ lossy = 0

FlushTask ==
    \/ TurnBegins
    \/ ClearCommits \/ ClearReturns
    \/ BindCommits \/ BindReturns
    \/ BeginCommits \/ BeginReturns
    \/ WriteCommits \/ WriteReturns
    \/ EndBegins \/ EndCommits

Environment ==
    \/ \E size \in 1..(MaxEntry + 1) : Capture(size)
    \/ \E a \in Accounts : Login(a)
    \/ Verify \/ Logout \/ CloseConnection \/ WriterFails
    \/ \E a \in Accounts \cup {None} : Restart(a)

RingNext == FlushTask \/ Environment

RingSpec == RingInit /\ [][RingNext]_ringVars

\* asyncio runs the flush task again and the writer answers; the gate verifies
\* the account of a session it keeps.
RingFairness == WF_ringVars(FlushTask) /\ WF_ringVars(Verify)

FairRingSpec == RingSpec /\ RingFairness

-----------------------------------------------------------------------------
\* The bodies and the queue of the ring stay in their sets and limits: the ring
\* never holds more than MAX_ENTRIES, the store never more than MAX_ROWS.
RingTypeOK ==
    /\ ring.entries \in Seq(Entry) /\ Len(ring.entries) <= MaxEntries
    /\ ring.last \in 0..MaxSequence /\ {ring.through, ring.inflight, ring.orphaned} \subseteq Nat
    /\ {ring.account, ring.desired} \subseteq Accounts \cup {None}
    /\ ring.generation \in Nat \cup {None} /\ ring.cleared <= ring.logouts
    /\ flush.stage \in {"idle", "clear", "bind", "begin", "write", "finished", "end", "exited"}
    /\ store.rows \subseteq Row /\ Cardinality(store.rows) <= MaxRows
    /\ run \in 1..MaxRuns /\ session \in Accounts \cup {None} /\ lossy \in Nat

\* The bytes of the staged entries and of the batch handed to the writer stay
\* within MAX_RETAINED_BYTES together, also when a reset forgets the entries of
\* a batch that is still being written (_orphaned_bytes).
RetainedBounded ==
    LET handed == IF flush.stage = "write" /\ ~(ToSet(flush.batch) \subseteq ToSet(ring.entries))
                  THEN Bytes(flush.batch) ELSE 0
    IN  Bytes(ring.entries) + handed <= MaxBytes

\* What the store keeps was received by the account it is bound to: whatever
\* a logout, a new login or a restart interrupts, the records of one account are
\* never kept as those of another.
OwnerOnly == \A row \in store.rows : row.owner = store.account

\* A captured record is staged, or was committed, or is counted as lost.
NothingUncounted ==
    ring.last <= ring.dropped + Cardinality(stored \cup {e.seq : e \in ToSet(ring.entries)})

\* A run that stopped while records were neither stored nor counted is
\* reported: it counts as an unknown tail, or will when the next run begins.
\* (But for what was captured during a last write of counters: LateLoss.)
LossIsReported ==
    lossy <= store.unknown + (IF store.open /\ store.runtime # run THEN 1 ELSE 0)

\* The ring keeps each account's records apart and within its bounds; what it does
\* not keep it counts, and a loss is reported.
RingKeepsAccount == OwnerOnly /\ RetainedBounded /\ NothingUncounted /\ LossIsReported

\* A run is marked as closed only when it was drained (telegram_update_store.py,
\* end_update_run: "Mark a successfully drained run clean").
CleanRunWasDrained ==
    (flush.stage = "exited" /\ store.runtime = run /\ ~store.open) => ~Unreported

\* Whatever is staged leaves the ring: it is written, dropped by a logout or an
\* eviction, or lost with its process.  A bind refused because of a newer login
\* or logout is tried again.  (A connection that is never verified, or one that
\* closed before it was, keeps what it staged.)
StagedIsSettled ==
    \A n \in 1..MaxSequence :
        (n \in {e.seq : e \in ToSet(ring.entries)} /\ session # None)
            ~> (n \notin {e.seq : e \in ToSet(ring.entries)} \/ closing)
=============================================================================
