-------------------------- MODULE HydrationProofs --------------------------
(***************************************************************************)
(* Proofs about Hydration: for every set of messages, every number of      *)
(* attempts and every bound, whatever the writers, the crashes and the     *)
(* ends of the scope do while a request is away, jobs follow the newest    *)
(* evidence.                                                               *)
(*                                                                         *)
(* The properties that runs check are not inductive: an answer may bring   *)
(* a job back.  It does not, because its slice is for a job that is active *)
(* or gone (SliceHasJob) and knows an order at which nothing else was      *)
(* observed (SliceHasOrder), so an answer for a deleted message or a lost  *)
(* dialog is recognised as older than what was seen meanwhile.             *)
(***************************************************************************)
EXTENDS Hydration, TLAPS

\* An active row was started at most as often as the limit allows.
StartsBounded == \A j \in Jobs : Active(rows, j) => rows[j].attempts <= MaxAttempts

\* The job of a slice is not suppressed while the slice lasts.
SliceHasJob ==
    slice.phase # "idle" =>
        /\ slice.job \in Jobs
        /\ Active(rows, slice.job) \/ rows[slice.job] = None

\* The order of a slice is its own: no message was observed at it.
SliceHasOrder ==
    slice.phase \in {"away", "answered", "settling"} =>
        \A m \in Messages : message[m].order # slice.order

\* A slice that was answered has an answer for its kind of job.
SliceHasAnswer ==
    slice.phase \in {"answered", "settling"} => slice.answer \in Answerable(slice.job)

\* The inductive invariant
Inv ==
    /\ TypeOK /\ StartsBounded /\ SliceHasJob /\ SliceHasOrder /\ SliceHasAnswer
    /\ DeletedHasNoJob /\ NoWorkWhenLost

-----------------------------------------------------------------------------
(* Facts about the operations of the queue *)

\* Rows within the limit, that is what every operation must leave.
Fine(R) ==
    /\ R \in [Jobs -> JobRow \cup {None}]
    /\ \A j \in Jobs : Active(R, j) => R[j].attempts <= MaxAttempts

\* A row that is kept so that its job is never tried again
Suppressed(R, j) == R[j] # None /\ R[j].terminal

\* No row is suppressed, and a suppressed one is kept or removed.
Calm(R, S) ==
    \A j \in Jobs :
        /\ Suppressed(S, j) => Suppressed(R, j)
        /\ Suppressed(R, j) => Suppressed(S, j) \/ S[j] = None

\* A job is its kind and its message.
LEMMA JobParts ==
    /\ \A j \in Jobs : j = <<j[1], j[2]>> /\ j[1] \in {"media", "voice"} /\ j[2] \in Messages
    /\ \A m \in Messages : <<"media", m>> \in Jobs /\ <<"voice", m>> \in Jobs
BY DEF Jobs, HydrationKinds

\* A row that is enqueued anew has not been started.
LEMMA QueuedIsRow == Queued \in JobRow /\ Queued # None /\ ~Queued.terminal /\ Queued.attempts = 0
<1>1. Queued \in JobRow
  BY HydrationAssumption DEF Queued, JobRow
<1> QED BY <1>1, HydrationAssumption DEF Queued

\* Enqueueing leaves what is suppressed and what is not named.
LEMMA EnqueueRows ==
    ASSUME NEW R, Fine(R), NEW J
    PROVE  /\ Fine(Enqueue(R, J))
           /\ \A j \in Jobs :
                  /\ j \notin J => Enqueue(R, J)[j] = R[j]
                  /\ Suppressed(R, j) <=> Suppressed(Enqueue(R, J), j)
<1> DEFINE S == Enqueue(R, J)
<1>1. S = [j \in Jobs |->
              IF j \notin J THEN R[j]
              ELSE IF R[j] = None THEN Queued
              ELSE IF ~R[j].terminal /\ R[j].attempts = 0 /\ R[j].outcome = "queued"
              THEN [R[j] EXCEPT !.due = TRUE]
              ELSE R[j]]
  BY DEF Enqueue
<1> HIDE DEF S
<1>2. ASSUME NEW j \in Jobs
      PROVE  /\ S[j] \in JobRow \cup {None}
             /\ Active(S, j) => S[j].attempts <= MaxAttempts
             /\ j \notin J => S[j] = R[j]
             /\ Suppressed(R, j) <=> Suppressed(S, j)
  <2>1. R[j] \in JobRow \cup {None} /\ (Active(R, j) => R[j].attempts <= MaxAttempts)
    BY DEF Fine
  <2>2. CASE S[j] = R[j]
    BY <2>1, <2>2 DEF Active, Suppressed
  <2>3. CASE j \in J /\ R[j] = None /\ S[j] = Queued
    BY <2>3, QueuedIsRow, HydrationAssumption DEF Active, Suppressed
  <2>4. CASE j \in J /\ R[j] # None /\ ~R[j].terminal /\ S[j] = [R[j] EXCEPT !.due = TRUE]
    <3>1. S[j] \in JobRow /\ S[j].attempts = R[j].attempts /\ ~S[j].terminal
      BY <2>1, <2>4 DEF JobRow
    <3> QED BY <2>1, <2>4, <3>1 DEF Active, Suppressed
  <2> QED BY <1>1, <2>2, <2>3, <2>4
<1>3. S \in [Jobs -> JobRow \cup {None}]
  BY <1>1, <1>2
<1> QED BY <1>2, <1>3 DEF Fine, S

\* Removal forgets rows and changes no other.
LEMMA RemoveRows ==
    ASSUME NEW R, Fine(R), NEW J
    PROVE  /\ Fine(Remove(R, J))
           /\ \A j \in Jobs : Remove(R, J)[j] = IF j \in J THEN None ELSE R[j]
BY DEF Fine, Remove, Active

\* A purge removes the active rows only.
LEMMA PurgeRows ==
    ASSUME NEW R, Fine(R), NEW J
    PROVE  /\ Fine(RemoveActive(R, J)) /\ Calm(R, RemoveActive(R, J))
           /\ \A j \in Jobs :
                  /\ j \in J => ~Active(RemoveActive(R, J), j)
                  /\ j \notin J => RemoveActive(R, J)[j] = R[j]
                  /\ Suppressed(R, j) <=> Suppressed(RemoveActive(R, J), j)
                  /\ R[j] = None => RemoveActive(R, J)[j] = None
<1> DEFINE K == {j \in J : Active(R, j)}
           S == RemoveActive(R, J)
<1>1. S = Remove(R, K)
  BY DEF RemoveActive
<1>2. Fine(S) /\ \A j \in Jobs : S[j] = IF j \in K THEN None ELSE R[j]
  BY <1>1, RemoveRows
<1> HIDE DEF S
<1>3. \A j \in Jobs :
          /\ j \in J => ~Active(S, j)
          /\ j \notin J => S[j] = R[j]
          /\ Suppressed(R, j) <=> Suppressed(S, j)
          /\ R[j] = None => S[j] = None
  BY <1>2 DEF Active, Suppressed
<1>4. Calm(R, S)
  BY <1>3 DEF Calm
<1> QED BY <1>2, <1>3, <1>4 DEF S

\* A message that is stored touches its own jobs, and brings no work to a dialog that
\* is not eligible.
LEMMA ReconciledRows ==
    ASSUME NEW R, Fine(R), NEW m \in Messages, NEW need
    PROVE  /\ Fine(Reconciled(R, m, need)) /\ Calm(R, Reconciled(R, m, need))
           /\ \A j \in Jobs :
                  /\ j[2] # m => Reconciled(R, m, need)[j] = R[j]
                  /\ j[2] = m /\ ~DialogEligible => ~Active(Reconciled(R, m, need), j)
           /\ need = "voice" /\ ~message[m].transcript =>
                  (Suppressed(R, <<"voice", m>>) => Suppressed(Reconciled(R, m, need), <<"voice", m>>))
                  \/ ~DialogEligible
<1> DEFINE media == <<"media", m>>
           voice == <<"voice", m>>
           A == IF need # "media" THEN Remove(R, {media})
                ELSE IF DialogEligible THEN Enqueue(R, {media})
                ELSE RemoveActive(R, {media})
           S == Reconciled(R, m, need)
<1>1. S = IF need # "voice" \/ message[m].transcript THEN Remove(A, {voice})
          ELSE IF DialogEligible THEN Enqueue(A, {voice})
          ELSE RemoveActive(A, {voice})
  BY DEF Reconciled
<1>2. /\ media \in Jobs /\ voice \in Jobs /\ media # voice /\ media[2] = m /\ voice[2] = m
      /\ \A j \in Jobs : j[2] = m => (j = media \/ j = voice)
      /\ \A j \in Jobs : j[2] # m => (j # media /\ j # voice)
  BY JobParts
<1> HIDE DEF S, media, voice
<1>3. /\ Fine(A) /\ Calm(R, A)
      /\ \A j \in Jobs : j # media => A[j] = R[j]
      /\ ~DialogEligible => ~Active(A, media)
  <2>1. CASE need # "media"
    BY <2>1, <1>2, RemoveRows DEF Calm, Suppressed, Active
  <2>2. CASE need = "media" /\ DialogEligible
    BY <2>2, <1>2, EnqueueRows DEF Calm
  <2>3. CASE need = "media" /\ ~DialogEligible
    BY <2>3, <1>2, PurgeRows
  <2> QED BY <2>1, <2>2, <2>3
<1> HIDE DEF A
<1>4. /\ Fine(S) /\ Calm(A, S)
      /\ \A j \in Jobs : j # voice => S[j] = A[j]
      /\ ~DialogEligible => ~Active(S, voice)
      /\ need = "voice" /\ ~message[m].transcript /\ DialogEligible =>
             (Suppressed(A, voice) => Suppressed(S, voice))
  <2>1. CASE need # "voice" \/ message[m].transcript
    <3>1. S = Remove(A, {voice})
      BY <1>1, <2>1
    <3>2. Fine(S) /\ \A j \in Jobs : S[j] = IF j \in {voice} THEN None ELSE A[j]
      BY <1>3, <3>1, RemoveRows
    <3> QED BY <2>1, <1>2, <3>2 DEF Calm, Suppressed, Active
  <2>2. CASE ~(need # "voice" \/ message[m].transcript) /\ DialogEligible
    <3>1. S = Enqueue(A, {voice})
      BY <1>1, <2>2
    <3> QED BY <2>2, <1>2, <1>3, <3>1, EnqueueRows DEF Calm
  <2>3. CASE ~(need # "voice" \/ message[m].transcript) /\ ~DialogEligible
    <3>1. S = RemoveActive(A, {voice})
      BY <1>1, <2>3
    <3> QED BY <2>3, <1>2, <1>3, <3>1, PurgeRows
  <2> QED BY <2>1, <2>2, <2>3
<1>5. Calm(R, S)
  <2>1. ASSUME NEW j \in Jobs
        PROVE  /\ Suppressed(S, j) => Suppressed(R, j)
               /\ Suppressed(R, j) => Suppressed(S, j) \/ S[j] = None
    <3>1. A[j] = R[j] \/ S[j] = A[j]
      BY <1>2, <1>3, <1>4
    <3> QED BY <3>1, <1>3, <1>4 DEF Calm, Suppressed
  <2> QED BY <2>1 DEF Calm
<1>6. ASSUME NEW j \in Jobs
      PROVE  /\ j[2] # m => S[j] = R[j]
             /\ j[2] = m /\ ~DialogEligible => ~Active(S, j)
  <2>1. CASE j = media
    <3>1. S[media] = A[media] /\ media[2] = m
      BY <1>2, <1>4
    <3>2. ~DialogEligible => ~Active(S, media)
      BY <3>1, <1>3 DEF Active
    <3> QED BY <2>1, <3>1, <3>2
  <2>2. CASE j = voice
    <3>1. voice[2] = m /\ (~DialogEligible => ~Active(S, voice))
      BY <1>2, <1>4
    <3> QED BY <2>2, <3>1
  <2>3. CASE j # media /\ j # voice
    BY <2>3, <1>2, <1>3, <1>4
  <2> QED BY <2>1, <2>2, <2>3
<1>7. need = "voice" /\ ~message[m].transcript =>
          (Suppressed(R, voice) => Suppressed(S, voice)) \/ ~DialogEligible
  BY <1>2, <1>3, <1>4 DEF Suppressed
<1> QED BY <1>4, <1>5, <1>6, <1>7 DEF S, voice

\* One row was rewritten: it was there, and is active only if it was.
Rewritten(R, S, j) ==
    \A i \in Jobs :
        /\ i # j => S[i] = R[i]
        /\ R[i] = None => S[i] = None
        /\ Suppressed(R, i) => Suppressed(S, i)
        /\ Active(S, i) => Active(R, i)

\* A row that is given back or put off keeps its place within the limit.
LEMMA RowsGivenBack ==
    ASSUME NEW R, Fine(R), NEW j \in Jobs, NEW S,
           \/ S = R
           \/ S = Reschedule(R, j) \/ S = RequeueUndispatched(R, j)
           \/ S = MarkTerminal(R, j)
    PROVE  Fine(S) /\ Rewritten(R, S, j)
<1>1. R[j] \in JobRow \cup {None} /\ (Active(R, j) => R[j].attempts <= MaxAttempts)
  BY DEF Fine
<1>2. \/ S = R
      \/ R[j] # None /\ \E r \in JobRow :
            /\ S = [R EXCEPT ![j] = r]
            /\ r.terminal \/ (Active(R, j) /\ r.attempts <= MaxAttempts /\ ~r.terminal)
  <2>1. CASE S = R
    BY <2>1
  <2>2. CASE S # R /\ S = Reschedule(R, j)
    <3>1. R[j] \in JobRow /\ Active(R, j)
      BY <1>1, <2>2 DEF Reschedule, Active
    <3>2. [R[j] EXCEPT !.due = FALSE, !.outcome = "retry"] \in JobRow
      BY <3>1 DEF JobRow
    <3>3. S = [R EXCEPT ![j] = [R[j] EXCEPT !.due = FALSE, !.outcome = "retry"]]
      BY <2>2, <3>1, <1>1 DEF Reschedule, Fine, JobRow
    <3>4. /\ [R[j] EXCEPT !.due = FALSE, !.outcome = "retry"].attempts = R[j].attempts
          /\ [R[j] EXCEPT !.due = FALSE, !.outcome = "retry"].terminal = R[j].terminal
      BY <3>1 DEF JobRow
    <3> QED BY <1>1, <3>1, <3>2, <3>3, <3>4 DEF Active
  <2>3. CASE S # R /\ S = RequeueUndispatched(R, j)
    <3>1. R[j] \in JobRow /\ Active(R, j) /\ R[j].attempts > 0
      BY <1>1, <2>3 DEF RequeueUndispatched, Active
    <3> DEFINE r == [R[j] EXCEPT !.attempts = @ - 1, !.outcome = "retry"]
    <3>2. R[j].attempts - 1 \in 0..MaxAttempts + 1 /\ R[j].attempts - 1 <= MaxAttempts
      BY <1>1, <3>1, HydrationAssumption DEF JobRow
    <3>3. r \in JobRow /\ r.attempts = R[j].attempts - 1 /\ r.terminal = R[j].terminal
      BY <3>1, <3>2 DEF JobRow
    <3>4. S = [R EXCEPT ![j] = r]
      BY <2>3, <3>1 DEF RequeueUndispatched, Fine, JobRow
    <3> QED BY <3>1, <3>2, <3>3, <3>4 DEF Active
  <2>4. CASE S # R /\ S = MarkTerminal(R, j)
    <3>1. R[j] \in JobRow /\ R[j] # None
      BY <1>1, <2>4 DEF MarkTerminal
    <3>2. [R[j] EXCEPT !.terminal = TRUE] \in JobRow /\ [R[j] EXCEPT !.terminal = TRUE].terminal
      BY <3>1 DEF JobRow
    <3>3. S = [R EXCEPT ![j] = [R[j] EXCEPT !.terminal = TRUE]]
      BY <2>4, <3>1 DEF MarkTerminal, Fine, JobRow
    <3> QED BY <3>1, <3>2, <3>3
  <2> QED BY <2>1, <2>2, <2>3, <2>4
<1>3. CASE S = R
  BY <1>3 DEF Rewritten
<1>4. ASSUME R[j] # None, NEW r \in JobRow, S = [R EXCEPT ![j] = r],
             r.terminal \/ (Active(R, j) /\ r.attempts <= MaxAttempts /\ ~r.terminal)
      PROVE  Fine(S) /\ Rewritten(R, S, j)
  <2>1. r # None
    BY HydrationAssumption
  <2>2. S \in [Jobs -> JobRow \cup {None}] /\ S[j] = r /\ \A i \in Jobs : i # j => S[i] = R[i]
    BY <1>4 DEF Fine
  <2>3. Fine(S)
    BY <1>4, <2>2 DEF Fine, Active
  <2>4. Rewritten(R, S, j)
    BY <1>4, <2>1, <2>2 DEF Rewritten, Suppressed, Active
  <2> QED BY <2>3, <2>4
<1> QED BY <1>2, <1>3, <1>4

\* So does one that is given back only if it is still leased.
LEMMA LeaseGivenBack ==
    ASSUME NEW R, Fine(R), NEW s, s.job \in Jobs
    PROVE  /\ Fine(RequeueNotApplied(R, s)) /\ Rewritten(R, RequeueNotApplied(R, s), s.job)
           /\ Active(R, s.job) => Active(RequeueNotApplied(R, s), s.job)
<1> DEFINE S == RequeueNotApplied(R, s)
           j == s.job
           r == [R[j] EXCEPT !.attempts = @ - 1, !.outcome = "retry"]
<1>1. S = R \/ (Leased(R, s) /\ s.attempts > 0 /\ S = RequeueUndispatched(R, s.job))
  BY DEF RequeueNotApplied, RequeueUndispatched, Leased
<1>2. Fine(S) /\ Rewritten(R, S, j)
  BY <1>1, RowsGivenBack
<1>3. ASSUME S # R PROVE Active(S, j)
  <2>1. R[j] \in JobRow /\ Active(R, j) /\ R[j].attempts > 0
    BY <1>1, <1>3 DEF Leased, Active, Fine
  <2>2. R[j].attempts - 1 \in 0..MaxAttempts + 1
    BY <2>1, HydrationAssumption DEF JobRow
  <2>3. r \in JobRow /\ r.terminal = R[j].terminal
    BY <2>1, <2>2 DEF JobRow
  <2>4. S[j] = r
    BY <1>1, <1>3, <2>1 DEF RequeueUndispatched, Fine, JobRow
  <2> QED BY <2>1, <2>3, <2>4, HydrationAssumption DEF Active
<1> QED BY <1>2, <1>3

\* A started row counts one more, and one suppressed for it is within the limit again.
LEMMA StartedRows ==
    ASSUME NEW R, Fine(R), NEW j \in Jobs, Active(R, j)
    PROVE  /\ R[j].attempts + 1 <= MaxAttempts =>
                  /\ Fine(Start(R, j)) /\ Rewritten(R, Start(R, j), j)
                  /\ Active(Start(R, j), j)
           /\ Fine(MarkTerminal(Start(R, j), j)) /\ Rewritten(R, MarkTerminal(Start(R, j), j), j)
<1> DEFINE r == [R[j] EXCEPT !.attempts = @ + 1, !.outcome = "processing"]
           t == [r EXCEPT !.terminal = TRUE]
           S == Start(R, j)
           T == MarkTerminal(S, j)
<1>1. R[j] \in JobRow /\ R[j] # None /\ ~R[j].terminal /\ R[j].attempts <= MaxAttempts
  BY DEF Fine, Active
<1>2. R[j].attempts + 1 \in 0..MaxAttempts + 1
  BY <1>1, HydrationAssumption DEF JobRow
<1>3. r \in JobRow /\ r.attempts = R[j].attempts + 1 /\ ~r.terminal
  BY <1>1, <1>2 DEF JobRow
<1>4. t \in JobRow /\ t.terminal
  BY <1>3 DEF JobRow
<1>5. S = [R EXCEPT ![j] = r]
  BY <1>1 DEF Start, Fine, JobRow
<1>6. r # None /\ t # None
  BY <1>3, <1>4, HydrationAssumption
<1> HIDE DEF r
<1>7. S \in [Jobs -> JobRow \cup {None}] /\ S[j] = r /\ \A i \in Jobs : i # j => S[i] = R[i]
  BY <1>3, <1>5 DEF Fine
<1> HIDE DEF S
<1>8. T = [S EXCEPT ![j] = t]
  BY <1>3, <1>6, <1>7 DEF MarkTerminal, JobRow
<1> HIDE DEF t
<1>9. T \in [Jobs -> JobRow \cup {None}] /\ T[j] = t /\ \A i \in Jobs : i # j => T[i] = R[i]
  BY <1>4, <1>7, <1>8
<1> HIDE DEF T
<1>10. R[j].attempts + 1 <= MaxAttempts => Fine(S)
  BY <1>3, <1>7 DEF Fine, Active
<1>11. Rewritten(R, S, j) /\ Active(S, j)
  BY <1>1, <1>3, <1>6, <1>7 DEF Rewritten, Suppressed, Active
<1>12. Fine(T)
  BY <1>4, <1>9 DEF Fine, Active
<1>13. Rewritten(R, T, j)
  BY <1>1, <1>4, <1>6, <1>9 DEF Rewritten, Suppressed, Active
<1> QED BY <1>10, <1>11, <1>12, <1>13 DEF S, T

-----------------------------------------------------------------------------
(* The parts of the action properties *)

\* NoStaleFact, TerminalStays and StaleLossIgnored, of one step
FactsAreFresh ==
    \A m \in Messages :
        slice.phase = "settling" /\ message'[m] # message[m] /\ order' = order =>
            ~message[m].deleted /\ slice.order >= message[m].order

SuppressedStay ==
    \A j \in Jobs :
        Suppressed(rows, j) => Suppressed(rows', j) \/ (rows'[j] = None /\ message' # message)

LossIsFresh ==
    slice.phase = "settling" /\ dialog'.access # dialog.access /\ order' = order =>
        slice.order > dialog.order

Kept == FactsAreFresh /\ SuppressedStay /\ LossIsFresh

\* The types of the records when the last order is top
MessageTypes(top) ==
    [Messages -> [need : Needs, order : 0..top, deleted : BOOLEAN, transcript : BOOLEAN]]
DialogTypes(top) == [access : BOOLEAN, enabled : BOOLEAN, order : 0..top]
SliceTypes(top) ==
    [phase : {"idle", "selected", "away", "answered", "settling"}, job : Jobs \cup {None},
     revision : Nat, attempts : 0..MaxAttempts + 1, order : 0..top, answer : Answers \cup {"none"},
     scoped : BOOLEAN]

\* Orders only grow, so what is typed with the last one stays so.
LEMMA TypesGrow ==
    ASSUME TypeOK, order' \in {order, order + 1}
    PROVE  /\ order \in Nat /\ order' \in Nat /\ 0..order \subseteq 0..order'
           /\ order' \in 0..order' /\ 0 \in 0..order'
           /\ message \in MessageTypes(order') /\ dialog \in DialogTypes(order')
           /\ slice \in SliceTypes(order') /\ NoSlice \in SliceTypes(order')
<1>1. order \in Nat /\ order' \in Nat /\ order <= order'
  BY DEF TypeOK
<1>2. 0..order \subseteq 0..order' /\ order' \in 0..order' /\ 0 \in 0..order'
  <2>1. \A p, q \in Nat : p <= q => 0..p \subseteq 0..q /\ q \in 0..q /\ 0 \in 0..q
    OBVIOUS
  <2> QED BY <1>1, <2>1
<1>3. message \in MessageTypes(order) /\ dialog \in DialogTypes(order) /\ slice \in SliceTypes(order)
  BY DEF TypeOK, MessageTypes, DialogTypes, SliceTypes
<1>4. message \in MessageTypes(order')
  <2>1. \A m \in Messages : message[m] \in
            [need : Needs, order : 0..order', deleted : BOOLEAN, transcript : BOOLEAN]
    BY <1>2, <1>3 DEF MessageTypes
  <2> QED BY <1>3, <2>1 DEF MessageTypes
<1>5. dialog \in DialogTypes(order')
  BY <1>2, <1>3 DEF DialogTypes
<1>6. slice \in SliceTypes(order')
  BY <1>2, <1>3 DEF SliceTypes
<1>7. NoSlice \in SliceTypes(order')
  BY <1>2, HydrationAssumption DEF NoSlice, SliceTypes
<1> QED BY <1>1, <1>2, <1>4, <1>5, <1>6, <1>7

\* What is excluded are revisions of jobs.
ExclusionsTyped == excluded \subseteq (Jobs \X Nat)

\* Only the slice excludes a revision: the one it was selected with.
LEMMA ExclusionsStayTyped == ASSUME Inv, [Next]_vars PROVE ExclusionsTyped'
<1>1. excluded \subseteq (Jobs \X Nat) /\ slice.revision \in Nat
  BY DEF Inv, TypeOK
<1>2. slice.phase # "idle" => <<slice.job, slice.revision>> \in Jobs \X Nat
  BY <1>1 DEF Inv, SliceHasJob
<1>3. CASE excluded' \subseteq excluded
  BY <1>1, <1>3 DEF ExclusionsTyped
<1>4. CASE slice.phase # "idle" /\ Excludes
  BY <1>1, <1>2, <1>4 DEF ExclusionsTyped, Excludes
<1>5. excluded' \subseteq excluded \/ (slice.phase # "idle" /\ Excludes)
  <2>1. CASE Writers
    BY <2>1 DEF Writers, Delivered, TranscriptDelivered, Deleted, AccessLost, HistoryDisabled,
                Restored, HistoryEnabled
  <2>2. CASE Steps
    <3>1. CASE StartBatch
      BY <3>1 DEF StartBatch, Offers
    <3>2. CASE RequeueObsolete \/ SettleMedia \/ SettleVoice
      BY <3>2 DEF RequeueObsolete, SettleMedia, SettleVoice, Offers
    <3>3. CASE FailureDropped \/ AdmissionRejected \/ Throttled \/ AccessLostAnswered \/ RequestFailed
      BY <3>3 DEF FailureDropped, AdmissionRejected, Throttled, AccessLostAnswered, RequestFailed,
                  Settles, Offers
    <3>4. ASSUME NEW a \in Answers, Answer(a)
          PROVE  excluded' \subseteq excluded \/ (slice.phase # "idle" /\ Excludes)
      BY <3>4 DEF Answer, Offers
    <3> QED BY <2>2, <3>1, <3>2, <3>3, <3>4 DEF Steps
  <2>3. CASE Crash \/ ScopeEnds \/ \E j \in Jobs : Select(j) \/ BecomesDue(j)
    BY <2>3 DEF Crash, ScopeEnds, Select, BecomesDue
  <2>4. CASE UNCHANGED vars
    BY <2>4 DEF vars
  <2> QED BY <2>1, <2>2, <2>3, <2>4 DEF Next
<1> QED BY <1>3, <1>4, <1>5

\* A writer that is not the slice: it observes at an order of its own, or at none, and
\* suppresses nothing.
LEMMA WriterKeeps ==
    ASSUME Inv, ExclusionsTyped', slice' = slice, order' \in {order, order + 1}, faults' \in 0..MaxFaults,
           Fine(rows'), Calm(rows, rows'),
           message' \in MessageTypes(order'), dialog' \in DialogTypes(order'),
           \A m \in Messages : message'[m].order = message[m].order
                                 \/ (order' = order + 1 /\ message'[m].order = order'),
           DeletedHasNoJob', NoWorkWhenLost'
    PROVE  Inv'
<1>1. TypeOK'
  <2>1. rows' \in [Jobs -> JobRow \cup {None}]
    BY DEF Fine
  <2>2. slice' \in SliceTypes(order') /\ order' \in Nat
    BY TypesGrow DEF Inv
  <2> QED BY <2>1, <2>2 DEF TypeOK, ExclusionsTyped, MessageTypes, DialogTypes, SliceTypes
<1>2. StartsBounded'
  BY DEF StartsBounded, Fine, Active
<1>3. SliceHasJob'
  BY DEF Inv, SliceHasJob, Calm, Suppressed, Active
<1>4. SliceHasOrder'
  <2>1. slice.order <= order /\ order \in Nat /\ slice.order \in Nat
    BY DEF Inv, TypeOK
  <2>2. order + 1 # slice.order
    BY <2>1
  <2> QED BY <2>2 DEF Inv, SliceHasOrder
<1>5. SliceHasAnswer'
  BY DEF Inv, SliceHasAnswer, Answerable
<1> QED BY <1>1, <1>2, <1>3, <1>4, <1>5 DEF Inv

\* The end of a slice.
LEMMA EndKeeps ==
    ASSUME Inv, ExclusionsTyped', slice' = NoSlice, order' = order, faults' \in 0..MaxFaults, Fine(rows'),
           message' \in MessageTypes(order), dialog' \in DialogTypes(order),
           DeletedHasNoJob', NoWorkWhenLost'
    PROVE  Inv'
<1>1. TypeOK'
  <2>1. rows' \in [Jobs -> JobRow \cup {None}]
    BY DEF Fine
  <2>2. slice' \in SliceTypes(order') /\ order' \in Nat
    BY TypesGrow DEF Inv
  <2> QED BY <2>1, <2>2 DEF TypeOK, ExclusionsTyped, MessageTypes, DialogTypes, SliceTypes
<1>2. StartsBounded'
  BY DEF StartsBounded, Fine, Active
<1>3. slice'.phase = "idle"
  BY DEF NoSlice
<1> QED BY <1>1, <1>2, <1>3 DEF Inv, SliceHasJob, SliceHasOrder, SliceHasAnswer

\* What a row that was rewritten keeps.
LEMMA RewrittenKeeps ==
    ASSUME Inv, NEW j \in Jobs, Rewritten(rows, rows', j), UNCHANGED <<message, dialog>>
    PROVE  DeletedHasNoJob' /\ NoWorkWhenLost' /\ Kept
<1>1. DeletedHasNoJob'
  BY DEF Inv, DeletedHasNoJob, Rewritten
<1>2. NoWorkWhenLost'
  BY DEF Inv, NoWorkWhenLost, DialogEligible, Rewritten, Active
<1>3. Kept
  BY DEF Kept, FactsAreFresh, SuppressedStay, LossIsFresh, Rewritten
<1> QED BY <1>1, <1>2, <1>3

\* The invariant says that the rows are fine.
LEMMA RowsAreFine == ASSUME Inv PROVE Fine(rows)
BY DEF Inv, TypeOK, StartsBounded, Fine

-----------------------------------------------------------------------------
(* The other writers *)

LEMMA DeliveredStep ==
    ASSUME Inv, ExclusionsTyped', NEW m \in Messages, NEW need \in Needs, Delivered(m, need)
    PROVE  Inv' /\ Kept
<1>1. /\ order' = order + 1 /\ order' \in Nat /\ ~message[m].deleted
      /\ message' = Stored(m, need, order') /\ rows' = Reconciled(rows, m, need)
      /\ UNCHANGED <<dialog, slice, faults>>
  BY DEF Inv, TypeOK, Delivered
<1>2. Fine(rows)
  BY RowsAreFine
<1>3. /\ Fine(rows') /\ Calm(rows, rows')
      /\ \A j \in Jobs :
             /\ j[2] # m => rows'[j] = rows[j]
             /\ j[2] = m /\ ~DialogEligible => ~Active(rows', j)
  BY <1>1, <1>2, ReconciledRows
<1>4. message \in MessageTypes(order') /\ order' \in 0..order' /\ dialog' \in DialogTypes(order')
  BY <1>1, TypesGrow DEF Inv
<1>5. /\ message' \in MessageTypes(order')
      /\ \A x \in Messages : x # m => message'[x] = message[x]
      /\ message'[m].order = order' /\ message'[m].deleted = message[m].deleted
  BY <1>1, <1>4 DEF MessageTypes, Stored
<1>6. message' # message
  <2>1. message[m].order \in 0..order /\ order \in Nat
    BY DEF Inv, TypeOK
  <2>2. message'[m].order # message[m].order
    BY <1>1, <1>5, <2>1
  <2> QED BY <2>2
<1>7. DeletedHasNoJob'
  <2> SUFFICES ASSUME NEW j \in Jobs, message'[j[2]].deleted PROVE rows'[j] = None
    BY DEF DeletedHasNoJob, MessageOf
  <2>1. j[2] # m /\ j[2] \in Messages
    BY <1>1, <1>5, JobParts
  <2> QED BY <1>3, <1>5, <2>1 DEF Inv, DeletedHasNoJob, MessageOf
<1>8. NoWorkWhenLost'
  <2> SUFFICES ASSUME ~DialogEligible, NEW j \in Jobs PROVE ~Active(rows', j)
    BY <1>1 DEF NoWorkWhenLost, DialogEligible, Active
  <2> QED BY <1>3 DEF Inv, NoWorkWhenLost, Active
<1>9. faults' \in 0..MaxFaults /\ order' # order
  BY <1>1 DEF Inv, TypeOK
<1>10. Inv'
  BY <1>1, <1>3, <1>4, <1>5, <1>7, <1>8, <1>9, WriterKeeps
<1>11. Kept
  BY <1>3, <1>6, <1>9 DEF Kept, FactsAreFresh, SuppressedStay, LossIsFresh, Calm
<1> QED BY <1>10, <1>11

\* A transcript that is delivered, or a deletion, takes the jobs of its message away.
LEMMA RemovedStep ==
    ASSUME Inv, ExclusionsTyped', NEW m \in Messages, TranscriptDelivered(m) \/ Deleted(m)
    PROVE  Inv' /\ Kept
<1> DEFINE K == IF message'[m].deleted THEN {<<k, m>> : k \in HydrationKinds} ELSE {<<"voice", m>>}
<1>1. /\ order' = order + 1 /\ order' \in Nat /\ ~message[m].deleted
      /\ UNCHANGED <<dialog, slice, faults>>
  BY DEF Inv, TypeOK, TranscriptDelivered, Deleted, Untranscribed
<1>2. message \in MessageTypes(order') /\ order' \in 0..order' /\ dialog' \in DialogTypes(order')
  BY <1>1, TypesGrow DEF Inv
<1>3. /\ message' \in MessageTypes(order')
      /\ \A x \in Messages : x # m => message'[x] = message[x]
      /\ message'[m].order \in {message[m].order, order'}
      /\ message'[m].deleted # message[m].deleted \/ message'[m].transcript # message[m].transcript
      /\ rows' = Remove(rows, K)
  <2>1. CASE TranscriptDelivered(m)
    BY <1>1, <1>2, <2>1 DEF MessageTypes, TranscriptDelivered, Untranscribed
  <2>2. CASE Deleted(m)
    BY <1>1, <1>2, <2>2 DEF MessageTypes, Deleted
  <2> QED BY <2>1, <2>2
<1>4. Fine(rows') /\ \A j \in Jobs : rows'[j] = IF j \in K THEN None ELSE rows[j]
  BY <1>3, RowsAreFine, RemoveRows
<1>5. Calm(rows, rows')
  BY <1>4 DEF Calm, Suppressed
<1>6. DeletedHasNoJob'
  <2> SUFFICES ASSUME NEW j \in Jobs, message'[j[2]].deleted PROVE rows'[j] = None
    BY DEF DeletedHasNoJob, MessageOf
  <2>1. CASE j[2] = m
    BY <2>1, <1>4, JobParts DEF HydrationKinds
  <2>2. CASE j[2] # m
    BY <2>2, <1>3, <1>4, JobParts DEF Inv, DeletedHasNoJob, MessageOf
  <2> QED BY <2>1, <2>2
<1>7. NoWorkWhenLost'
  BY <1>1, <1>4 DEF Inv, NoWorkWhenLost, DialogEligible, Active
<1>8. faults' \in 0..MaxFaults /\ order' # order /\ message' # message
  BY <1>1, <1>3 DEF Inv, TypeOK
<1>9. Inv'
  BY <1>1, <1>2, <1>3, <1>4, <1>5, <1>6, <1>7, <1>8, WriterKeeps
<1>10. Kept
  BY <1>4, <1>8 DEF Kept, FactsAreFresh, SuppressedStay, LossIsFresh, Suppressed
<1> QED BY <1>9, <1>10

\* The end of access or of the history purges what is active.
LEMMA LossSteps ==
    ASSUME Inv, ExclusionsTyped', AccessLost \/ HistoryDisabled
    PROVE  Inv' /\ Kept
<1>1. /\ order' \in {order, order + 1} /\ order' \in Nat /\ faults' \in 0..MaxFaults
      /\ message' = message /\ slice' = slice /\ rows' = RemoveActive(rows, Jobs)
      /\ dialog'.access # dialog.access => order' # order
  BY HydrationAssumption DEF Inv, TypeOK, AccessLost, HistoryDisabled
<1>2. message' \in MessageTypes(order') /\ dialog \in DialogTypes(order') /\ order' \in 0..order'
  BY <1>1, TypesGrow DEF Inv
<1>3. dialog' \in DialogTypes(order')
  BY <1>2 DEF DialogTypes, AccessLost, HistoryDisabled
<1>4. /\ Fine(rows') /\ Calm(rows, rows')
      /\ \A j \in Jobs :
             /\ ~Active(rows', j)
             /\ Suppressed(rows, j) <=> Suppressed(rows', j)
             /\ rows[j] = None => rows'[j] = None
  BY <1>1, RowsAreFine, PurgeRows
<1>5. DeletedHasNoJob' /\ NoWorkWhenLost'
  BY <1>1, <1>4 DEF Inv, DeletedHasNoJob, NoWorkWhenLost, Active
<1>6. Inv'
  BY <1>1, <1>2, <1>3, <1>4, <1>5, WriterKeeps
<1>7. Kept
  BY <1>1, <1>4 DEF Kept, FactsAreFresh, SuppressedStay, LossIsFresh
<1> QED BY <1>6, <1>7

\* A dialog that is eligible again gets the jobs its messages need, and none deleted.
LEMMA RecoverySteps ==
    ASSUME Inv, ExclusionsTyped', Restored \/ HistoryEnabled
    PROVE  Inv' /\ Kept
<1> DEFINE J == {<<"media", m>> : m \in {x \in Messages : Unresolved(x)}}
                \cup {<<"voice", m>> : m \in {x \in Messages : Untranscribed(x)}}
<1>1. /\ order' \in {order, order + 1} /\ order' \in Nat /\ faults' \in 0..MaxFaults
      /\ message' = message /\ slice' = slice
      /\ dialog'.access # dialog.access => order' # order
      /\ \/ rows' = rows /\ ~(dialog'.access /\ dialog'.enabled) /\ ~DialogEligible
         \/ rows' = Enqueue(rows, J) /\ dialog'.access /\ dialog'.enabled
  <2>1. \A e \in BOOLEAN : DialogReconciled(e) = IF e THEN Enqueue(rows, J) ELSE rows
    BY DEF DialogReconciled
  <2> HIDE DEF J
  <2>2. CASE Restored
    <3>1. /\ order' = order + 1 /\ order' \in Nat /\ faults' \in 0..MaxFaults
          /\ message' = message /\ slice' = slice /\ ~dialog.access
          /\ dialog.enabled \in BOOLEAN /\ rows' = DialogReconciled(dialog.enabled)
      BY <2>2 DEF Inv, TypeOK, Restored
    <3>2. dialog'.access /\ dialog'.enabled = dialog.enabled
      BY <2>2 DEF Inv, TypeOK, Restored
    <3>3. order' # order
      BY <3>1 DEF Inv, TypeOK
    <3> QED BY <2>1, <3>1, <3>2, <3>3 DEF DialogEligible
  <2>3. CASE HistoryEnabled
    BY <2>1, <2>3 DEF Inv, TypeOK, HistoryEnabled, DialogEligible
  <2> QED BY <2>2, <2>3
<1>2. message' \in MessageTypes(order') /\ dialog \in DialogTypes(order') /\ order' \in 0..order'
  BY <1>1, TypesGrow DEF Inv
<1>3. dialog' \in DialogTypes(order')
  BY <1>2 DEF DialogTypes, Restored, HistoryEnabled
<1>4. \A j \in J : ~message[j[2]].deleted
  BY DEF Unresolved, Untranscribed
<1> HIDE DEF J
<1>5. /\ Fine(rows') /\ \A j \in Jobs :
             /\ j \notin J => rows'[j] = rows[j]
             /\ Suppressed(rows, j) <=> Suppressed(rows', j)
  BY <1>1, RowsAreFine, EnqueueRows
<1>6. Calm(rows, rows')
  BY <1>5 DEF Calm
<1>7. DeletedHasNoJob'
  BY <1>1, <1>4, <1>5 DEF Inv, DeletedHasNoJob, MessageOf
<1>8. NoWorkWhenLost'
  BY <1>1 DEF Inv, NoWorkWhenLost, DialogEligible, Active
<1>9. Inv'
  BY <1>1, <1>2, <1>3, <1>5, <1>6, <1>7, <1>8, WriterKeeps
<1>10. Kept
  BY <1>1, <1>5 DEF Kept, FactsAreFresh, SuppressedStay, LossIsFresh
<1> QED BY <1>9, <1>10

-----------------------------------------------------------------------------
(* The slice *)

\* A slice that goes on.
LEMMA SliceKeeps ==
    ASSUME Inv, ExclusionsTyped', order' \in {order, order + 1}, faults' \in 0..MaxFaults, Fine(rows'),
           slice' \in SliceTypes(order'), UNCHANGED <<message, dialog>>,
           SliceHasJob', SliceHasOrder', SliceHasAnswer', DeletedHasNoJob', NoWorkWhenLost'
    PROVE  Inv'
<1>1. order' \in Nat /\ message \in MessageTypes(order') /\ dialog \in DialogTypes(order')
  BY TypesGrow DEF Inv
<1>2. TypeOK'
  BY <1>1 DEF TypeOK, ExclusionsTyped, Fine, MessageTypes, DialogTypes, SliceTypes
<1>3. StartsBounded'
  BY DEF StartsBounded, Fine, Active
<1> QED BY <1>2, <1>3 DEF Inv

\* Rows that stay as they are keep what is said of them.
LEMMA RowsStay ==
    ASSUME Inv, UNCHANGED <<rows, message, dialog>>
    PROVE  Fine(rows') /\ DeletedHasNoJob' /\ NoWorkWhenLost' /\ Kept
<1>1. Fine(rows') /\ DeletedHasNoJob' /\ NoWorkWhenLost'
  BY RowsAreFine DEF Inv, DeletedHasNoJob, NoWorkWhenLost, DialogEligible, Active
<1>2. Kept
  BY DEF Kept, FactsAreFresh, SuppressedStay, LossIsFresh
<1> QED BY <1>1, <1>2

LEMMA SelectStep ==
    ASSUME Inv, ExclusionsTyped', NEW j \in Jobs, Select(j)
    PROVE  Inv' /\ Kept
<1>1. /\ Active(rows, j) /\ UNCHANGED <<rows, message, dialog, order, faults>>
      /\ slice' = [NoSlice EXCEPT !.phase = "selected", !.job = j, !.attempts = rows[j].attempts,
                                  !.revision = message[MessageOf(j)].order]
  BY DEF Select, Due
<1>2. rows[j].attempts \in 0..MaxAttempts + 1 /\ message[MessageOf(j)].order \in Nat
  BY <1>1, JobParts DEF Inv, TypeOK, Active, JobRow, MessageOf
<1>3. /\ slice' \in SliceTypes(order') /\ slice'.phase = "selected" /\ slice'.job = j
  BY <1>1, <1>2, TypesGrow DEF Inv, SliceTypes, NoSlice
<1>4. SliceHasJob' /\ SliceHasOrder' /\ SliceHasAnswer'
  BY <1>1, <1>3 DEF SliceHasJob, SliceHasOrder, SliceHasAnswer, Active
<1>5. Fine(rows') /\ DeletedHasNoJob' /\ NoWorkWhenLost' /\ Kept
  BY <1>1, RowsStay
<1>6. faults' \in 0..MaxFaults
  BY <1>1 DEF Inv, TypeOK
<1> QED BY <1>1, <1>3, <1>4, <1>5, <1>6, SliceKeeps

LEMMA BecomesDueStep ==
    ASSUME Inv, ExclusionsTyped', NEW j \in Jobs, BecomesDue(j)
    PROVE  Inv' /\ Kept
<1> DEFINE r == [rows[j] EXCEPT !.due = TRUE]
<1>1. /\ Active(rows, j) /\ rows' = [rows EXCEPT ![j].due = TRUE]
      /\ UNCHANGED <<message, dialog, order, slice, faults>>
  BY DEF BecomesDue
<1>2. rows[j] \in JobRow /\ rows \in [Jobs -> JobRow \cup {None}] /\ rows[j].attempts <= MaxAttempts
  BY <1>1 DEF Inv, TypeOK, StartsBounded, Active
<1>3. r \in JobRow /\ r.terminal = rows[j].terminal /\ r.attempts = rows[j].attempts /\ r # None
  BY <1>2, HydrationAssumption DEF JobRow
<1>4. rows' = [rows EXCEPT ![j] = r]
  BY <1>1, <1>2
<1> HIDE DEF r
<1>5. /\ rows' \in [Jobs -> JobRow \cup {None}] /\ rows'[j] = r
      /\ \A i \in Jobs : i # j => rows'[i] = rows[i]
  BY <1>2, <1>3, <1>4
<1>6. \A i \in Jobs : /\ Active(rows', i) <=> Active(rows, i)
                      /\ Suppressed(rows', i) <=> Suppressed(rows, i)
                      /\ rows'[i] = None <=> rows[i] = None
  BY <1>1, <1>3, <1>5 DEF Active, Suppressed
<1>7. Fine(rows')
  BY <1>2, <1>3, <1>5, <1>6, RowsAreFine DEF Fine
<1>8. Calm(rows, rows')
  BY <1>6 DEF Calm
<1>9. DeletedHasNoJob' /\ NoWorkWhenLost'
  BY <1>1, <1>6 DEF Inv, DeletedHasNoJob, NoWorkWhenLost, DialogEligible, Active
<1>10. Kept
  BY <1>1, <1>6 DEF Kept, FactsAreFresh, SuppressedStay, LossIsFresh
<1>11. /\ message' \in MessageTypes(order') /\ dialog' \in DialogTypes(order')
       /\ faults' \in 0..MaxFaults
  BY <1>1, TypesGrow DEF Inv, TypeOK
<1> QED BY <1>1, <1>7, <1>8, <1>9, <1>10, <1>11, WriterKeeps

\* The process stops, or the slice leaves everything as it is.
LEMMA LeaveSteps ==
    ASSUME Inv, ExclusionsTyped', slice' = NoSlice, faults' \in 0..MaxFaults,
           UNCHANGED <<rows, message, dialog, order>>
    PROVE  Inv' /\ Kept
<1>1. Fine(rows') /\ DeletedHasNoJob' /\ NoWorkWhenLost' /\ Kept
  BY RowsStay
<1>2. message' \in MessageTypes(order) /\ dialog' \in DialogTypes(order)
  BY TypesGrow DEF Inv
<1> QED BY <1>1, <1>2, EndKeeps

LEMMA ScopeEndsStep ==
    ASSUME Inv, ExclusionsTyped', ScopeEnds
    PROVE  Inv' /\ Kept
<1>1. /\ slice' = [slice EXCEPT !.scoped = FALSE] /\ UNCHANGED <<rows, message, dialog, order>>
      /\ faults' \in 0..MaxFaults
  BY HydrationAssumption DEF Inv, TypeOK, ScopeEnds
<1>2. slice' \in SliceTypes(order')
  BY <1>1, TypesGrow DEF Inv, SliceTypes
<1>3. /\ slice'.phase = slice.phase /\ slice'.job = slice.job /\ slice'.order = slice.order
      /\ slice'.answer = slice.answer
  BY <1>1 DEF Inv, TypeOK
<1>4. SliceHasJob' /\ SliceHasOrder' /\ SliceHasAnswer'
  BY <1>1, <1>3 DEF Inv, SliceHasJob, SliceHasOrder, SliceHasAnswer, Active, Answerable
<1>5. Fine(rows') /\ DeletedHasNoJob' /\ NoWorkWhenLost' /\ Kept
  BY <1>1, RowsStay
<1> QED BY <1>1, <1>2, <1>4, <1>5, SliceKeeps

LEMMA AnswerStep ==
    ASSUME Inv, ExclusionsTyped', NEW a \in Answers, Answer(a)
    PROVE  Inv' /\ Kept
<1>1. /\ UNCHANGED <<rows, message, dialog, order>> /\ faults' \in 0..MaxFaults
      /\ slice.phase = "away" /\ a \in Answerable(slice.job)
      /\ slice' = [slice EXCEPT !.phase = "answered", !.answer = a] \/ slice' = NoSlice
  BY HydrationAssumption DEF Inv, TypeOK, Answer
<1>2. CASE slice' = NoSlice
  BY <1>1, <1>2, LeaveSteps
<1>3. CASE slice' = [slice EXCEPT !.phase = "answered", !.answer = a]
  <2>1. slice' \in SliceTypes(order')
    BY <1>1, <1>3, TypesGrow DEF Inv, SliceTypes
  <2>2. /\ slice'.phase = "answered" /\ slice'.job = slice.job /\ slice'.order = slice.order
        /\ slice'.answer = a
    BY <1>3 DEF Inv, TypeOK
  <2>3. SliceHasJob' /\ SliceHasOrder' /\ SliceHasAnswer'
    BY <1>1, <2>2 DEF Inv, SliceHasJob, SliceHasOrder, SliceHasAnswer, Active, Answerable
  <2>4. Fine(rows') /\ DeletedHasNoJob' /\ NoWorkWhenLost' /\ Kept
    BY <1>1, RowsStay
  <2> QED BY <1>1, <2>1, <2>3, <2>4, SliceKeeps
<1> QED BY <1>1, <1>2, <1>3

LEMMA RequeueObsoleteStep ==
    ASSUME Inv, ExclusionsTyped', RequeueObsolete
    PROVE  Inv' /\ Kept
<1>1. /\ UNCHANGED <<message, dialog, order, faults>> /\ slice.phase = "answered"
      /\ \/ slice' = NoSlice /\ rows' = rows
         \/ /\ slice' = [slice EXCEPT !.phase = "settling"]
            /\ rows' = rows \/ rows' = RequeueNotApplied(rows, slice)
  BY DEF RequeueObsolete
<1>2. faults' \in 0..MaxFaults /\ slice.job \in Jobs
      /\ (Active(rows, slice.job) \/ rows[slice.job] = None)
  BY <1>1 DEF Inv, TypeOK, SliceHasJob
<1>3. CASE slice' = NoSlice /\ rows' = rows
  BY <1>1, <1>2, <1>3, LeaveSteps
<1>4. CASE slice' = [slice EXCEPT !.phase = "settling"]
           /\ (rows' = rows \/ rows' = RequeueNotApplied(rows, slice))
  <2>1. /\ Fine(rows') /\ Rewritten(rows, rows', slice.job)
        /\ Active(rows, slice.job) => Active(rows', slice.job)
    BY <1>2, <1>4, RowsAreFine, LeaseGivenBack DEF Rewritten
  <2>2. slice' \in SliceTypes(order')
    BY <1>1, <1>4, TypesGrow DEF Inv, SliceTypes
  <2>3. /\ slice'.phase = "settling" /\ slice'.job = slice.job /\ slice'.order = slice.order
        /\ slice'.answer = slice.answer
    BY <1>4 DEF Inv, TypeOK
  <2>4. SliceHasJob'
    BY <1>2, <2>1, <2>3 DEF SliceHasJob, Rewritten, Active
  <2>5. SliceHasOrder' /\ SliceHasAnswer'
    BY <1>1, <2>3 DEF Inv, SliceHasOrder, SliceHasAnswer, Answerable
  <2>6. DeletedHasNoJob' /\ NoWorkWhenLost' /\ Kept
    BY <1>1, <1>2, <2>1, RewrittenKeeps
  <2> QED BY <1>1, <1>2, <2>1, <2>2, <2>4, <2>5, <2>6, SliceKeeps
<1> QED BY <1>1, <1>3, <1>4

\* A job is started within the limit and at an order of its own, or dropped, or
\* suppressed by the start that exceeds the limit.
LEMMA StartBatchStep ==
    ASSUME Inv, ExclusionsTyped', StartBatch
    PROVE  Inv' /\ Kept
<1> DEFINE j == slice.job
<1>1. /\ UNCHANGED <<message, dialog, faults>> /\ slice.phase = "selected"
      /\ \/ slice' = NoSlice /\ order' = order /\ rows' = rows
         \/ slice' = NoSlice /\ order' = order /\ rows' = Remove(rows, {j})
         \/ /\ Active(rows, j) /\ slice' = NoSlice /\ order' = order
            /\ rows' = MarkTerminal(Start(rows, j), j)
         \/ /\ Active(rows, j) /\ ~(rows[j].attempts + 1 > MaxAttempts)
            /\ order' = order + 1 /\ rows' = Start(rows, j)
            /\ slice' = [slice EXCEPT !.phase = "away", !.attempts = rows[j].attempts + 1,
                                      !.order = order']
  BY DEF StartBatch
<1>2. /\ j \in Jobs /\ (Active(rows, j) \/ rows[j] = None) /\ Fine(rows)
      /\ faults' \in 0..MaxFaults
      /\ message' \in MessageTypes(order) /\ dialog' \in DialogTypes(order)
  BY <1>1, RowsAreFine DEF Inv, TypeOK, SliceHasJob, MessageTypes, DialogTypes
<1> HIDE DEF j
<1>3. CASE slice' = NoSlice /\ order' = order /\ rows' = rows
  BY <1>1, <1>2, <1>3, LeaveSteps
<1>4. CASE slice' = NoSlice /\ order' = order /\ rows' = Remove(rows, {j})
  <2>1. Fine(rows') /\ \A i \in Jobs : rows'[i] = IF i = j THEN None ELSE rows[i]
    BY <1>2, <1>4, RemoveRows
  <2>2. DeletedHasNoJob' /\ NoWorkWhenLost'
    BY <1>1, <2>1 DEF Inv, DeletedHasNoJob, NoWorkWhenLost, DialogEligible, Active
  <2>3. Kept
    BY <1>1, <1>2, <2>1 DEF Kept, FactsAreFresh, SuppressedStay, LossIsFresh, Suppressed, Active
  <2> QED BY <1>2, <1>4, <2>1, <2>2, <2>3, EndKeeps
<1>5. CASE /\ Active(rows, j) /\ slice' = NoSlice /\ order' = order
           /\ rows' = MarkTerminal(Start(rows, j), j)
  <2>1. Fine(rows') /\ Rewritten(rows, rows', j)
    BY <1>2, <1>5, StartedRows
  <2>2. DeletedHasNoJob' /\ NoWorkWhenLost' /\ Kept
    BY <1>1, <1>2, <2>1, RewrittenKeeps
  <2> QED BY <1>2, <1>5, <2>1, <2>2, EndKeeps
<1>6. CASE /\ Active(rows, j) /\ ~(rows[j].attempts + 1 > MaxAttempts)
           /\ order' = order + 1 /\ rows' = Start(rows, j)
           /\ slice' = [slice EXCEPT !.phase = "away", !.attempts = rows[j].attempts + 1,
                                     !.order = order']
  <2>1. rows[j].attempts + 1 \in 0..MaxAttempts + 1 /\ rows[j].attempts + 1 <= MaxAttempts
    <3>1. rows[j].attempts \in Nat
      BY <1>2, <1>6 DEF Fine, Active, JobRow
    <3> QED BY <3>1, <1>6, HydrationAssumption
  <2>2. Fine(rows') /\ Rewritten(rows, rows', j) /\ Active(rows', j)
    BY <1>2, <1>6, <2>1, StartedRows
  <2>3. slice \in SliceTypes(order') /\ order' \in 0..order' /\ order \in Nat /\ order' \in Nat
    BY <1>6, TypesGrow DEF Inv
  <2>4. slice' \in SliceTypes(order')
    BY <1>6, <2>1, <2>3 DEF SliceTypes
  <2>5. slice'.phase = "away" /\ slice'.job = j /\ slice'.order = order + 1
    BY <1>6, <2>3 DEF SliceTypes, j
  <2>6. SliceHasJob' /\ SliceHasAnswer'
    BY <1>2, <2>2, <2>5 DEF SliceHasJob, SliceHasAnswer, Active
  <2>7. SliceHasOrder'
    <3>1. \A m \in Messages : message[m].order \in 0..order
      BY DEF Inv, TypeOK
    <3>2. \A n \in 0..order : n # order + 1
      BY <2>3
    <3> QED BY <1>1, <2>5, <3>1, <3>2 DEF SliceHasOrder
  <2>8. DeletedHasNoJob' /\ NoWorkWhenLost' /\ Kept
    BY <1>1, <1>2, <2>2, RewrittenKeeps
  <2> QED BY <1>1, <1>2, <1>6, <2>2, <2>4, <2>6, <2>7, <2>8, SliceKeeps
<1> QED BY <1>1, <1>3, <1>4, <1>5, <1>6 DEF j

\* The failures that settle the row of the job and nothing else.
LEMMA RowFailureSteps ==
    ASSUME Inv, ExclusionsTyped', FailureDropped \/ AdmissionRejected \/ Throttled \/ RequestFailed
    PROVE  Inv' /\ Kept
<1>1. /\ UNCHANGED <<message, dialog, order, faults>> /\ slice.phase = "settling" /\ slice' = NoSlice
      /\ \/ rows' = rows
         \/ rows' = RequeueUndispatched(rows, slice.job)
         \/ rows' = MarkTerminal(rows, slice.job)
         \/ rows' = RequeueNotApplied(rows, slice)
  BY DEF FailureDropped, AdmissionRejected, Throttled, RequestFailed, Settles, Ends
<1>2. /\ slice.job \in Jobs /\ Fine(rows) /\ faults' \in 0..MaxFaults
      /\ message' \in MessageTypes(order) /\ dialog' \in DialogTypes(order)
  BY <1>1, RowsAreFine DEF Inv, TypeOK, SliceHasJob, MessageTypes, DialogTypes
<1>3. Fine(rows') /\ Rewritten(rows, rows', slice.job)
  BY <1>1, <1>2, RowsGivenBack, LeaseGivenBack
<1>4. DeletedHasNoJob' /\ NoWorkWhenLost' /\ Kept
  BY <1>1, <1>2, <1>3, RewrittenKeeps
<1> QED BY <1>1, <1>2, <1>3, <1>4, EndKeeps

\* A loss that a slice reports counts only against an older access state.
LEMMA LossAnsweredStep ==
    ASSUME Inv, ExclusionsTyped', AccessLostAnswered
    PROVE  Inv' /\ Kept
<1>1. /\ UNCHANGED <<message, order, faults>> /\ slice.phase = "settling" /\ slice' = NoSlice
      /\ \/ UNCHANGED <<rows, dialog>>
         \/ /\ slice.order > dialog.order
            /\ dialog' = [dialog EXCEPT !.access = FALSE, !.order = slice.order]
            /\ rows' = RemoveActive(rows, Jobs)
  BY DEF AccessLostAnswered, Settles, Ends, AccessClaimed
<1>2. faults' \in 0..MaxFaults /\ message' \in MessageTypes(order)
  BY <1>1 DEF Inv, TypeOK, MessageTypes
<1>3. CASE UNCHANGED <<rows, dialog>>
  BY <1>1, <1>2, <1>3, LeaveSteps
<1>4. CASE /\ slice.order > dialog.order
           /\ dialog' = [dialog EXCEPT !.access = FALSE, !.order = slice.order]
           /\ rows' = RemoveActive(rows, Jobs)
  <2>1. /\ Fine(rows')
        /\ \A j \in Jobs :
               /\ ~Active(rows', j)
               /\ Suppressed(rows, j) <=> Suppressed(rows', j)
               /\ rows[j] = None => rows'[j] = None
    BY <1>4, RowsAreFine, PurgeRows
  <2>2. dialog' \in DialogTypes(order)
    BY <1>4 DEF Inv, TypeOK, DialogTypes
  <2>3. DeletedHasNoJob' /\ NoWorkWhenLost'
    BY <1>1, <2>1 DEF Inv, DeletedHasNoJob, NoWorkWhenLost, Active
  <2>4. Kept
    BY <1>1, <1>4, <2>1 DEF Kept, FactsAreFresh, SuppressedStay, LossIsFresh
  <2> QED BY <1>1, <1>2, <2>1, <2>2, <2>3, <2>4, EndKeeps
<1> QED BY <1>1, <1>3, <1>4

\* A transcription is kept, and its row settled, for a current observation only.
LEMMA SettleVoiceStep ==
    ASSUME Inv, ExclusionsTyped', SettleVoice
    PROVE  Inv' /\ Kept
<1> DEFINE j == slice.job
           m == MessageOf(j)
<1>1. /\ UNCHANGED <<dialog, order, faults>> /\ slice.phase = "settling" /\ slice' = NoSlice
      /\ \/ UNCHANGED <<rows, message>>
         \/ /\ ~message[m].deleted /\ slice.order >= message[m].order
            /\ message' = message \/ message' = [message EXCEPT ![m].transcript = TRUE]
            /\ \/ rows' = MarkTerminal(rows, j) \/ rows' = Reschedule(rows, j)
               \/ rows' = Remove(rows, {j})
  BY DEF SettleVoice, Ends, CurrentJob, ObservationCurrent
<1>2. /\ j \in Jobs /\ (Active(rows, j) \/ rows[j] = None) /\ Fine(rows)
      /\ faults' \in 0..MaxFaults /\ dialog' \in DialogTypes(order)
      /\ m \in Messages /\ message \in MessageTypes(order)
  BY <1>1, RowsAreFine, JobParts DEF Inv, TypeOK, SliceHasJob, MessageTypes, DialogTypes, MessageOf
<1> HIDE DEF j, m
<1>3. CASE UNCHANGED <<rows, message>>
  BY <1>1, <1>2, <1>3, LeaveSteps
<1>4. CASE /\ ~message[m].deleted /\ slice.order >= message[m].order
           /\ message' = message \/ message' = [message EXCEPT ![m].transcript = TRUE]
           /\ \/ rows' = MarkTerminal(rows, j) \/ rows' = Reschedule(rows, j)
              \/ rows' = Remove(rows, {j})
  <2>1. /\ Fine(rows')
        /\ \A i \in Jobs :
               /\ rows[i] = None => rows'[i] = None
               /\ Suppressed(rows, i) => Suppressed(rows', i)
               /\ Active(rows', i) => Active(rows, i)
    <3>1. CASE rows' = MarkTerminal(rows, j) \/ rows' = Reschedule(rows, j)
      BY <1>2, <3>1, RowsGivenBack DEF Rewritten
    <3>2. CASE rows' = Remove(rows, {j})
      <4>1. Fine(rows') /\ \A i \in Jobs : rows'[i] = IF i = j THEN None ELSE rows[i]
        BY <1>2, <3>2, RemoveRows
      <4> QED BY <1>2, <4>1 DEF Suppressed, Active
    <3> QED BY <1>4, <3>1, <3>2
  <2>2. /\ message' \in MessageTypes(order)
        /\ \A x \in Messages : x # m => message'[x] = message[x]
        /\ \A x \in Messages : message'[x].deleted = message[x].deleted
    <3>1. CASE message' = message
      BY <1>2, <3>1
    <3>2. CASE message' = [message EXCEPT ![m].transcript = TRUE]
      BY <1>2, <3>2 DEF MessageTypes
    <3> QED BY <1>4, <3>1, <3>2
  <2>3. DeletedHasNoJob'
    BY <2>1, <2>2, JobParts DEF Inv, DeletedHasNoJob, MessageOf
  <2>4. NoWorkWhenLost'
    BY <1>1, <2>1 DEF Inv, NoWorkWhenLost, DialogEligible, Active
  <2>5. Kept
    BY <1>1, <1>4, <2>1, <2>2 DEF Kept, FactsAreFresh, SuppressedStay, LossIsFresh
  <2> QED BY <1>1, <1>2, <2>1, <2>2, <2>3, <2>4, <2>5, EndKeeps
<1> QED BY <1>1, <1>3, <1>4

\* What publishing an answer makes of the rows: it touches the message of the slice.
LEMMA PublishedRows ==
    ASSUME Inv, NEW m \in Messages, NEW kept, NEW j \in Jobs, Active(rows, j) \/ rows[j] = None,
           kept = rows \/ kept = Remove(rows, {j}), ~message[m].deleted, NEW need
    PROVE  /\ Fine(Reconciled(kept, m, need)) /\ Calm(rows, Reconciled(kept, m, need))
           /\ \A i \in Jobs :
                  /\ i[2] # m /\ rows[i] = None => Reconciled(kept, m, need)[i] = None
                  /\ ~DialogEligible => ~Active(Reconciled(kept, m, need), i)
           /\ need = "voice" /\ ~message[m].transcript /\ DialogEligible =>
                  (Suppressed(rows, <<"voice", m>>) =>
                       Suppressed(Reconciled(kept, m, need), <<"voice", m>>))
<1> DEFINE S == Reconciled(kept, m, need)
<1>1. /\ Fine(kept)
      /\ \A i \in Jobs :
             /\ kept[i] = rows[i] \/ (i = j /\ kept[i] = None)
             /\ Suppressed(kept, i) <=> Suppressed(rows, i)
             /\ Active(kept, i) => Active(rows, i)
  <2>1. CASE kept = rows
    BY <2>1, RowsAreFine
  <2>2. CASE kept = Remove(rows, {j})
    <3>1. Fine(kept) /\ \A i \in Jobs : kept[i] = IF i = j THEN None ELSE rows[i]
      BY <2>2, RowsAreFine, RemoveRows
    <3> QED BY <3>1 DEF Suppressed, Active
  <2> QED BY <2>1, <2>2
<1>2. /\ Fine(S) /\ Calm(kept, S)
      /\ \A i \in Jobs :
             /\ i[2] # m => S[i] = kept[i]
             /\ i[2] = m /\ ~DialogEligible => ~Active(S, i)
      /\ need = "voice" /\ ~message[m].transcript =>
             (Suppressed(kept, <<"voice", m>>) => Suppressed(S, <<"voice", m>>))
             \/ ~DialogEligible
  BY <1>1, ReconciledRows
<1> HIDE DEF S
<1>3. Calm(rows, S)
  BY <1>1, <1>2 DEF Calm
<1>4. \A i \in Jobs :
          /\ i[2] # m /\ rows[i] = None => S[i] = None
          /\ ~DialogEligible => ~Active(S, i)
  <2> SUFFICES ASSUME NEW i \in Jobs
               PROVE  /\ i[2] # m /\ rows[i] = None => S[i] = None
                      /\ ~DialogEligible => ~Active(S, i)
    OBVIOUS
  <2>1. i[2] # m => S[i] = kept[i]
    BY <1>2
  <2>2. kept[i] = rows[i] \/ kept[i] = None
    BY <1>1
  <2>3. ~DialogEligible => ~Active(rows, i) /\ ~Active(kept, i)
    BY <1>1 DEF Inv, NoWorkWhenLost
  <2> QED BY <1>2, <2>1, <2>2, <2>3 DEF Active
<1>5. <<"voice", m>> \in Jobs
  BY JobParts
<1> QED BY <1>1, <1>2, <1>3, <1>4, <1>5 DEF S

\* A media answer is published for a current observation only, and its row is settled
\* by what became of it.
LEMMA SettleMediaStep ==
    ASSUME Inv, ExclusionsTyped', SettleMedia
    PROVE  Inv' /\ Kept
<1> DEFINE j == slice.job
           m == MessageOf(j)
           answered == slice.answer # "invalid"
           fresh == ObservationCurrent(m, slice.order)
           leased == Leased(rows, slice)
           kept == IF leased /\ ~Eligible(j) THEN Remove(rows, {j}) ELSE rows
           published == IF answered /\ fresh THEN Reconciled(kept, m, slice.answer) ELSE kept
           more == IF slice.answer = "voice" /\ ~message[m].transcript THEN {<<"voice", m>>} ELSE {}
<1>1. /\ UNCHANGED <<dialog, order, faults>> /\ slice.phase = "settling" /\ slice' = NoSlice
      /\ ~Failed /\ KindOf(j) = "media"
      /\ \/ UNCHANGED <<rows, message>>
         \/ /\ message' = IF answered /\ fresh THEN Stored(m, slice.answer, slice.order) ELSE message
            /\ rows' = CASE ~leased \/ ~Eligible(j) -> published
                         [] leased /\ Eligible(j) /\ ~fresh -> RequeueNotApplied(rows, slice)
                         [] leased /\ Eligible(j) /\ fresh /\ ~answered -> MarkTerminal(rows, j)
                         [] OTHER -> Enqueue(Remove(published, {j}), more)
  BY DEF SettleMedia, Ends
<1>2. /\ j \in Jobs /\ (Active(rows, j) \/ rows[j] = None) /\ Fine(rows)
      /\ faults' \in 0..MaxFaults /\ dialog' \in DialogTypes(order)
      /\ m = j[2] /\ m \in Messages /\ message \in MessageTypes(order)
      /\ slice.order \in 0..order /\ message[m].order # slice.order
  BY <1>1, RowsAreFine, JobParts
     DEF Inv, TypeOK, SliceHasJob, SliceHasOrder, MessageTypes, DialogTypes, MessageOf
<1>3. answered => slice.answer \in Needs
  BY <1>1 DEF Inv, SliceHasAnswer, Answerable, Failed, Needs
<1>4. fresh => ~message[m].deleted /\ slice.order >= message[m].order
  BY DEF ObservationCurrent
<1>5. Eligible(j) => DialogEligible /\ ~message[m].deleted
  BY <1>1 DEF Eligible, Unresolved, MessageOf
<1>6. kept = rows \/ kept = Remove(rows, {j})
  OBVIOUS
<1> HIDE DEF j, m, fresh, leased, kept
<1>7. /\ message' \in MessageTypes(order)
      /\ \A x \in Messages : message'[x].deleted = message[x].deleted
      /\ \A x \in Messages : x # m => message'[x] = message[x]
      /\ message' # message => fresh
  <2>1. CASE message' = message
    BY <1>2, <2>1
  <2>2. CASE answered /\ fresh /\ message' = Stored(m, slice.answer, slice.order)
    BY <1>2, <1>3, <2>2 DEF MessageTypes, Stored
  <2> QED BY <1>1, <2>1, <2>2
<1>8. FactsAreFresh /\ LossIsFresh
  BY <1>1, <1>2, <1>4, <1>7 DEF FactsAreFresh, LossIsFresh
<1>9. SUFFICES /\ Fine(rows')
               /\ \A i \in Jobs : message[i[2]].deleted => (rows[i] = None => rows'[i] = None)
               /\ ~DialogEligible => \A i \in Jobs : ~Active(rows', i)
               /\ SuppressedStay
  <2>1. DeletedHasNoJob'
    BY <1>7, <1>9, JobParts DEF Inv, DeletedHasNoJob, MessageOf
  <2>2. NoWorkWhenLost'
    BY <1>1, <1>9 DEF NoWorkWhenLost, DialogEligible, Active
  <2> QED BY <1>1, <1>2, <1>7, <1>8, <1>9, <2>1, <2>2, EndKeeps DEF Kept
<1>10. CASE UNCHANGED <<rows, message>>
  BY <1>2, <1>10 DEF Inv, NoWorkWhenLost, SuppressedStay
<1>11. ASSUME NEW S, S = RequeueNotApplied(rows, slice) \/ S = MarkTerminal(rows, j) \/ S = rows,
              rows' = S
       PROVE  /\ Fine(rows')
              /\ \A i \in Jobs : message[i[2]].deleted => (rows[i] = None => rows'[i] = None)
              /\ ~DialogEligible => \A i \in Jobs : ~Active(rows', i)
              /\ SuppressedStay
  <2>1. Fine(rows') /\ Rewritten(rows, rows', j)
    BY <1>2, <1>11, RowsGivenBack, LeaseGivenBack DEF j
  <2> QED BY <2>1 DEF Rewritten, SuppressedStay, Inv, NoWorkWhenLost
<1>12. CASE rows' = kept
  <2>1. CASE kept = rows
    BY <1>11, <1>12, <2>1
  <2>2. CASE kept = Remove(rows, {j})
    <3>1. Fine(rows') /\ \A i \in Jobs : rows'[i] = IF i = j THEN None ELSE rows[i]
      BY <1>2, <1>12, <2>2, RemoveRows
    <3>2. \A i \in Jobs : /\ Active(rows', i) => Active(rows, i)
                          /\ Suppressed(rows, i) => Suppressed(rows', i)
      BY <1>2, <3>1 DEF Active, Suppressed
    <3> QED BY <3>1, <3>2 DEF Inv, NoWorkWhenLost, SuppressedStay
  <2> QED BY <1>6, <2>1, <2>2
<1>13. ASSUME answered, fresh
       PROVE  /\ Fine(published) /\ Calm(rows, published)
              /\ \A i \in Jobs :
                     /\ i[2] # m /\ rows[i] = None => published[i] = None
                     /\ ~DialogEligible => ~Active(published, i)
              /\ slice.answer = "voice" /\ ~message[m].transcript /\ DialogEligible =>
                     (Suppressed(rows, <<"voice", m>>) => Suppressed(published, <<"voice", m>>))
  <2>1. published = Reconciled(kept, m, slice.answer)
    BY <1>13
  <2>2. ~message[m].deleted
    BY <1>4, <1>13
  <2> HIDE DEF published, answered
  <2>3. Active(rows, j) \/ rows[j] = None
    BY <1>2
  <2>4. m \in Messages
    BY <1>2
  <2>5. j \in Jobs
    BY <1>2
  <2>6. /\ Fine(Reconciled(kept, m, slice.answer)) /\ Calm(rows, Reconciled(kept, m, slice.answer))
        /\ \A i \in Jobs :
               /\ i[2] # m /\ rows[i] = None => Reconciled(kept, m, slice.answer)[i] = None
               /\ ~DialogEligible => ~Active(Reconciled(kept, m, slice.answer), i)
        /\ slice.answer = "voice" /\ ~message[m].transcript /\ DialogEligible =>
               (Suppressed(rows, <<"voice", m>>) =>
                    Suppressed(Reconciled(kept, m, slice.answer), <<"voice", m>>))
    BY ONLY Inv, <1>6, <2>2, <2>3, <2>4, <2>5, PublishedRows
  <2> QED BY ONLY <2>1, <2>6
<1>14. ASSUME answered, fresh, message' = Stored(m, slice.answer, slice.order)
       PROVE  message' # message
  <2>1. message'[m].order = slice.order
    BY <1>2, <1>14 DEF Stored, MessageTypes
  <2> QED BY <1>2, <2>1
<1> HIDE DEF published
<1>15. CASE answered /\ fresh /\ rows' = published /\ message' = Stored(m, slice.answer, slice.order)
  <2>1. SuppressedStay
    BY <1>13, <1>14, <1>15 DEF Calm, SuppressedStay
  <2> QED BY <1>4, <1>13, <1>15, <2>1
<1>16. CASE /\ answered /\ fresh /\ Eligible(j) /\ message' = Stored(m, slice.answer, slice.order)
            /\ rows' = Enqueue(Remove(published, {j}), more)
  <2> DEFINE R == Remove(published, {j})
  <2>1. Fine(R) /\ \A i \in Jobs : R[i] = IF i = j THEN None ELSE published[i]
    BY <1>13, <1>16, RemoveRows
  <2>2. /\ Fine(rows')
        /\ \A i \in Jobs : /\ i \notin more => rows'[i] = R[i]
                           /\ Suppressed(R, i) <=> Suppressed(rows', i)
    BY <1>16, <2>1, EnqueueRows
  <2> HIDE DEF R
  <2>3. \A i \in more : i[2] = m
    OBVIOUS
  <2>4. \A i \in Jobs : message[i[2]].deleted => (rows[i] = None => rows'[i] = None)
    <3> SUFFICES ASSUME NEW i \in Jobs, message[i[2]].deleted, rows[i] = None
                 PROVE  rows'[i] = None
      OBVIOUS
    <3>1. i[2] # m /\ i \notin more
      BY <1>4, <1>16, <2>3
    <3> QED BY <1>13, <1>16, <2>1, <2>2, <3>1
  <2>5. DialogEligible
    BY <1>5, <1>16
  <2>6. SuppressedStay
    <3> SUFFICES ASSUME NEW i \in Jobs, Suppressed(rows, i)
                 PROVE  Suppressed(rows', i) \/ rows'[i] = None
      BY <1>14, <1>16 DEF SuppressedStay
    <3>1. i # j /\ R[i] = published[i] /\ (Suppressed(published, i) \/ published[i] = None)
      BY <1>2, <1>13, <1>16, <2>1 DEF Suppressed, Active, Calm
    <3>2. CASE Suppressed(published, i)
      BY <2>2, <3>1, <3>2 DEF Suppressed
    <3>3. CASE published[i] = None /\ ~Suppressed(published, i)
      <4>1. i \notin more
        BY <1>13, <1>16, <2>5, <3>3
      <4> QED BY <2>2, <3>1, <3>3, <4>1
    <3> QED BY <3>1, <3>2, <3>3
  <2> QED BY <2>2, <2>4, <2>5, <2>6
<1>17. CASE /\ message' = IF answered /\ fresh THEN Stored(m, slice.answer, slice.order) ELSE message
            /\ rows' = CASE ~leased \/ ~Eligible(j) -> published
                         [] leased /\ Eligible(j) /\ ~fresh -> RequeueNotApplied(rows, slice)
                         [] leased /\ Eligible(j) /\ fresh /\ ~answered -> MarkTerminal(rows, j)
                         [] OTHER -> Enqueue(Remove(published, {j}), more)
  <2>1. CASE ~leased \/ ~Eligible(j)
    BY <1>12, <1>15, <1>17, <2>1 DEF published
  <2>2. CASE leased /\ Eligible(j) /\ ~fresh
    BY <1>11, <1>17, <2>2
  <2>3. CASE leased /\ Eligible(j) /\ fresh /\ ~answered
    BY <1>11, <1>17, <2>3
  <2>4. CASE leased /\ Eligible(j) /\ fresh /\ answered
    BY <1>16, <1>17, <2>4
  <2> QED BY <2>1, <2>2, <2>3, <2>4
<1> QED BY <1>1, <1>10, <1>17 DEF published

-----------------------------------------------------------------------------
(* The invariant *)

\* The first rows are none, and no slice runs.
LEMMA InitInv == ASSUME Init PROVE Inv
<1>1. TypeOK
  <2>1. rows \in [Jobs -> JobRow \cup {None}] /\ order \in Nat /\ faults \in 0..MaxFaults
    BY HydrationAssumption DEF Init
  <2>2. slice \in SliceTypes(order)
    BY HydrationAssumption DEF Init, NoSlice, SliceTypes
  <2>3. message \in [Messages -> [need : Needs, order : 0..order, deleted : BOOLEAN, transcript : BOOLEAN]]
    <3> SUFFICES ASSUME NEW m \in Messages
                 PROVE  message[m] \in [need : Needs, order : 0..order, deleted : BOOLEAN, transcript : BOOLEAN]
      BY DEF Init
    <3>1. message[m] \in [need : Needs, order : {0}, deleted : {FALSE}, transcript : {FALSE}]
      BY DEF Init
    <3>2. 0 \in 0..order
      BY DEF Init
    <3> QED BY <3>1, <3>2
  <2>4. dialog \in [access : BOOLEAN, enabled : BOOLEAN, order : 0..order]
    BY DEF Init
  <2>5. excluded \subseteq (Jobs \X Nat)
    BY DEF Init
  <2> QED BY <2>1, <2>2, <2>3, <2>4, <2>5 DEF TypeOK, SliceTypes
<1> QED BY <1>1 DEF Init, Inv, StartsBounded, SliceHasJob, SliceHasOrder, SliceHasAnswer,
                    DeletedHasNoJob, NoWorkWhenLost, Active, NoSlice, Jobs, MessageOf

\* Every step of the writers, of the slice and of the process keeps the invariant, and
\* does to the facts and to the suppressed rows only what it may.
LEMMA NextStep == ASSUME Inv, Next PROVE Inv' /\ Kept
<1>0. ExclusionsTyped'
  BY ExclusionsStayTyped
<1>1. CASE Writers
  <2>1. ASSUME NEW m \in Messages, NEW need \in Needs \ {"legacy"}, Delivered(m, need)
        PROVE  Inv' /\ Kept
    BY <1>0, <2>1, DeliveredStep
  <2>2. ASSUME NEW m \in Messages, TranscriptDelivered(m) \/ Deleted(m)
        PROVE  Inv' /\ Kept
    BY <1>0, <2>2, RemovedStep
  <2> QED BY <1>0, <1>1, <2>1, <2>2, LossSteps, RecoverySteps DEF Writers
<1>2. CASE Steps
  <2>1. ASSUME NEW a \in Answers, Answer(a)
        PROVE  Inv' /\ Kept
    BY <1>0, <2>1, AnswerStep
  <2> QED BY <1>0, <1>2, <2>1, StartBatchStep, RequeueObsoleteStep, SettleMediaStep, SettleVoiceStep,
             RowFailureSteps, LossAnsweredStep DEF Steps
<1>3. CASE Crash
  <2>1. faults' \in 0..MaxFaults
    BY <1>3, HydrationAssumption DEF Inv, TypeOK, Crash
  <2> QED BY <1>0, <1>3, <2>1, LeaveSteps DEF Crash
<1>4. CASE ScopeEnds
  BY <1>0, <1>4, ScopeEndsStep
<1>5. ASSUME NEW j \in Jobs, Select(j) \/ BecomesDue(j)
      PROVE  Inv' /\ Kept
  BY <1>0, <1>5, SelectStep, BecomesDueStep
<1> QED BY <1>1, <1>2, <1>3, <1>4, <1>5 DEF Next

\* A step that changes nothing keeps the invariant.
LEMMA StutterStep == ASSUME Inv, UNCHANGED vars PROVE Inv' /\ Kept
<1>1. Inv'
  BY DEF Inv, vars, TypeOK, StartsBounded, SliceHasJob, SliceHasOrder, SliceHasAnswer,
         DeletedHasNoJob, NoWorkWhenLost, DialogEligible, Active, Answerable
<1>2. Kept
  BY RowsStay DEF vars
<1> QED BY <1>1, <1>2

\* In every behaviour of the queue, the writers and one slice, with crashes and scope
\* ends at any point, the invariant holds.
THEOREM InvHolds == Spec => []Inv
<1>1. Inv /\ [Next]_vars => Inv'
  BY NextStep, StutterStep
<1> QED BY <1>1, InitInv, PTL DEF Spec

\* The variables have their types; in particular no row is started more than once over
\* the limit.
THEOREM TypeCorrect == Spec => []TypeOK
<1>1. Inv => TypeOK
  BY DEF Inv
<1> QED BY <1>1, InvHolds, PTL

\* A deleted message has no job and an ineligible dialog no active one; an answer
\* changes a fact, or the access, only if nothing newer was observed; a suppressed job
\* stays so until the fact it was for changes.
THEOREM JobsFollow == Spec => JobsFollowEvidence
<1>1. Inv /\ [Next]_vars => Kept
  BY NextStep, StutterStep
<1>2. Inv => DeletedHasNoJob /\ NoWorkWhenLost
  BY DEF Inv
<1>3. Kept => FactsAreFresh /\ SuppressedStay /\ LossIsFresh
  BY DEF Kept
<1>4. Spec => [](DeletedHasNoJob /\ NoWorkWhenLost)
  BY <1>2, InvHolds, PTL
<1>5. Spec => NoStaleFact
  BY <1>1, <1>3, InvHolds, PTL DEF Spec, NoStaleFact, FactsAreFresh
<1>6. Spec => TerminalStays
  <2>1. Inv /\ [Next]_vars =>
          \A j \in Jobs :
              (rows[j] # None /\ rows[j].terminal) =>
                  \/ rows'[j] # None /\ rows'[j].terminal
                  \/ rows'[j] = None /\ message' # message
    BY <1>1, <1>3 DEF SuppressedStay, Suppressed
  <2> QED BY <2>1, InvHolds, PTL DEF Spec, TerminalStays
<1>7. Spec => StaleLossIgnored
  BY <1>1, <1>3, InvHolds, PTL DEF Spec, StaleLossIgnored, LossIsFresh
<1> QED BY <1>4, <1>5, <1>6, <1>7, PTL DEF JobsFollowEvidence
=============================================================================
