----------------------------- MODULE UpdateIntake -----------------------------
(***************************************************************************)
(* How pushed updates and difference requests share the update loop: the   *)
(* queue that counts real envelopes (UpdateIntakeQueue), the message box   *)
(* that withholds a request while input waits or the gate holds its method *)
(* (GateMessageBox), and the gate's admission of the request it lets go.   *)
(* The loop and the gap bookkeeping under it are the vendor's.             *)
(***************************************************************************)
EXTENDS Integers, Sequences, FiniteSets, FiniteSetsExt, SequencesExt

CONSTANTS
    Channels,    \* entries of the message box besides the account
    Envelopes,   \* real items; one is in the queue at most once
    Wait,        \* ticks of a server or method wait
    MaxHolds     \* bound: waits and holds the environment injects

Account == "account"
Never == Wait + 1   \* past every wait

ASSUME IntakeAssumption ==
    /\ Account \notin Channels /\ "wakeup" \notin Envelopes
    /\ Wait \in Nat \ {0} /\ MaxHolds \in Nat

Entries == Channels \union {Account}
Methods == {"difference", "channelDifference"}
Method(x) == IF x = Account THEN "difference" ELSE "channelDifference"

Free == -1

VARIABLES
    queue,       \* _updates_queue
    wakeup_queued,
    difference_credit,
    remaining,   \* _intake_remaining, Free for None
    getting,     \* getting_diff_for
    due,         \* entries whose deadline, or whose gap's, has passed
    blocked,     \* _blocked: ticks to the boundary of the hint, Never without one
    wait,        \* the gate's waits, in ticks left
    held,        \* methods the gate holds without a boundary: protection, receipts
    turning,     \* the loop: [at, entry, until]
    holds,
    seen         \* history: differences claimed while the envelope waits, up to 2

box == <<difference_credit, remaining, getting, due, blocked>>
gate == <<wait, held, holds>>
intakeVars == <<queue, wakeup_queued, box, gate, turning, seen>>

At(where, entry) == [at |-> where, entry |-> entry, until |-> Never]
Turning == At("turn", Account)

-----------------------------------------------------------------------------
(* The intake's share *)

RealIn(q) == {i \in DOMAIN q : q[i] # "wakeup"}

IntakeDueLax == FALSE   \* (mutant) input never takes its turn
intake_due == RealIn(queue) # {} /\ ~difference_credit

RealDequeuedAtOnce ==   \* (mutant) one envelope earns the credit
    difference_credit' = TRUE /\ UNCHANGED remaining
RealDequeuedNever ==   \* (mutant) the turn is measured anew by every envelope
    /\ remaining' = Cardinality(RealIn(queue)) - 1
    /\ difference_credit' = (difference_credit \/ remaining' = 0)
real_dequeued ==
    IF difference_credit THEN UNCHANGED <<difference_credit, remaining>>
    ELSE /\ remaining' = (IF remaining = Free THEN Cardinality(RealIn(queue)) ELSE remaining) - 1
         /\ difference_credit' = (remaining' = 0)

difference_claimed == difference_credit' = FALSE /\ remaining' = Free

put_nowait(e) == queue' = Append(queue, e)

-----------------------------------------------------------------------------
(* The gate's answer for a method *)

HeldBy(m) == m \in held \/ wait[m] > 0
Hint(m) == IF m \in held THEN Never ELSE IF wait[m] > 0 THEN wait[m] ELSE Free

Notify ==
    IF wakeup_queued THEN UNCHANGED <<wakeup_queued, queue>>
    ELSE wakeup_queued' = TRUE /\ put_nowait("wakeup")

-----------------------------------------------------------------------------
(* One turn of the vendor's loop: it asks for the account's difference, then
   for a channel's, then for how long it may wait for input. *)

AccountBegun == IF ~intake_due /\ Account \in due THEN {Account} ELSE {}
Begun == getting \union AccountBegun

\* What the box looks at this turn: an account difference hides the channels'
\* unless it is withheld.
Asked(m) == ~intake_due /\ \E x \in Begun : Method(x) = m
Granted(m) == Asked(m) /\ ~HeldBy(m)
AskedChannels == Asked("channelDifference") /\ ~Granted("difference")

BlockedNow ==
    [m \in Methods |->
        IF Asked(m) /\ (m = "channelDifference" => AskedChannels) THEN Hint(m) ELSE blocked[m]]

get_difference ==
    /\ turning.at = "turn" /\ Granted("difference")
    /\ turning' = At("calling", Account)
    /\ getting' = Begun /\ due' = due \ AccountBegun
    /\ blocked' = [blocked EXCEPT !["difference"] = Free]
    /\ UNCHANGED <<queue, wakeup_queued, difference_credit, remaining, gate, seen>>

get_channel_difference ==
    /\ turning.at = "turn" /\ AskedChannels /\ Granted("channelDifference")
    /\ \E c \in Channels \intersect getting : turning' = At("calling", c)
    /\ getting' = Begun /\ due' = due \ AccountBegun
    /\ blocked' = BlockedNow
    /\ UNCHANGED <<queue, wakeup_queued, difference_credit, remaining, gate, seen>>

Boundaries == {BlockedNow[m] : m \in Methods} \ {Free}

\* Ticks to the deadline check_deadlines answers with; without a due entry it
\* lies where the next one begins.
DelayVendor ==   \* (mutant) a difference in progress is always due
    IF Begun # {} \/ due # {} THEN 0 ELSE Never
DelayForever ==   \* (mutant) the boundaries of the hints are not looked at
    IF intake_due THEN Never
    ELSE IF Begun = {} /\ due = {} THEN Never
    ELSE IF Boundaries = {} THEN 0 ELSE Never
Delay ==
    IF intake_due THEN Never
    ELSE IF Begun = {} /\ due = {} THEN Never
    ELSE IF Boundaries = {} THEN 0 ELSE Min(Boundaries)

DueKept ==   \* (mutant) a begun difference keeps its old deadline
    getting' = (IF Begun = {} THEN due ELSE Begun) /\ due' = due /\ blocked' = BlockedNow
\* The vendor begins the due differences only while none is in progress.
check_deadlines ==
    /\ getting' = IF Begun = {} THEN due ELSE Begun
    /\ due' = due \ getting'
    /\ blocked' = BlockedNow

Withheld == ~Granted("difference") /\ ~(AskedChannels /\ Granted("channelDifference"))

\* Nothing to ask for yet and no time to wait: the loop turns again.
TurnAgain ==
    /\ turning.at = "turn" /\ Withheld /\ Delay = 0
    /\ check_deadlines
    /\ UNCHANGED <<queue, wakeup_queued, difference_credit, remaining, gate, turning, seen>>

get_nowait ==
    /\ turning.at = "turn" /\ Withheld /\ Delay > 0 /\ queue # <<>>
    /\ turning' = At("process", Head(queue)) /\ queue' = Tail(queue)
    /\ IF Head(queue) = "wakeup" THEN UNCHANGED <<difference_credit, remaining>>
       ELSE real_dequeued
    /\ check_deadlines
    /\ seen' = [e \in Envelopes |-> IF e = Head(queue) THEN 0 ELSE seen[e]]
    /\ UNCHANGED <<wakeup_queued, gate>>

Sleep ==
    /\ turning.at = "turn" /\ Withheld /\ Delay > 0 /\ queue = <<>>
    /\ turning' = [At("asleep", Account) EXCEPT !.until = Delay]
    /\ check_deadlines
    /\ UNCHANGED <<queue, wakeup_queued, difference_credit, remaining, gate, seen>>

\* The wait ends with an item, at its boundary, or at a deadline when no
\* difference was in progress.
Wake ==
    /\ turning.at = "asleep"
    /\ queue # <<>> \/ turning.until = 0 \/ (getting = {} /\ due # {})
    /\ turning' = Turning
    /\ UNCHANGED <<queue, wakeup_queued, box, gate, seen>>

\* A sentinel only turns the loop; an envelope may show a gap, and one that
\* is applied moves its entry's deadline.
process_updates ==
    /\ turning.at = "process" /\ turning' = Turning
    /\ IF turning.entry = "wakeup"
       THEN wakeup_queued' = FALSE /\ UNCHANGED <<getting, due>>
       ELSE /\ \E x \in Entries :
                \/ getting' = getting \union {x} /\ due' = due \ {x}
                \/ due' = due \ {x} /\ UNCHANGED getting
            /\ UNCHANGED wakeup_queued
    /\ UNCHANGED <<queue, difference_credit, remaining, blocked, gate, seen>>

-----------------------------------------------------------------------------
(* A difference request in the gate *)

\* Withheld before its first write: the box keeps the gap.
PreserveNothing(hint) ==   \* (mutant) the vendor's end of the difference runs
    /\ blocked' = [blocked EXCEPT ![Method(turning.entry)] = hint]
    /\ getting' = getting \ {turning.entry}
preserve_deferred(hint) ==
    /\ blocked' = [blocked EXCEPT ![Method(turning.entry)] = hint]
    /\ UNCHANGED getting

Deferred ==
    /\ turning.at = "calling"
    /\ HeldBy(Method(turning.entry)) \/ intake_due
    /\ preserve_deferred(IF HeldBy(Method(turning.entry)) THEN Hint(Method(turning.entry)) ELSE Never)
    /\ turning' = Turning
    /\ UNCHANGED <<queue, wakeup_queued, difference_credit, remaining, due, gate, seen>>

Claim ==
    /\ turning.at = "calling" /\ ~HeldBy(Method(turning.entry)) /\ ~intake_due
    /\ difference_claimed
    /\ turning' = [turning EXCEPT !.at = "claimed"]
    /\ seen' = [e \in Envelopes |-> IF e \in ToSet(queue) THEN Min({seen[e] + 1, 2}) ELSE 0]
    /\ UNCHANGED <<queue, wakeup_queued, getting, due, blocked, gate>>

\* The deadline of the admission passes, or access to the channel is in
\* doubt: the loop pauses and the gap stays.
Postponed ==
    /\ turning.at = "calling" /\ turning' = At("paused", Account)
    /\ UNCHANGED <<queue, wakeup_queued, box, gate, seen>>

Resume ==
    /\ turning.at = "paused" /\ turning' = Turning
    /\ UNCHANGED <<queue, wakeup_queued, box, gate, seen>>

\* Access to the channel is lost for certain: the vendor retires the entry.
AccessLost ==
    /\ turning.at = "calling" /\ turning.entry \in Channels
    /\ getting' = getting \ {turning.entry} /\ turning' = Turning
    /\ UNCHANGED <<queue, wakeup_queued, difference_credit, remaining, due, blocked, gate, seen>>

\* The last slice, a server error that ends the attempt, or one slice of more.
Answered ==
    /\ turning.at = "claimed" /\ turning' = Turning
    /\ getting' \in {getting, getting \ {turning.entry}}
    /\ UNCHANGED <<queue, wakeup_queued, difference_credit, remaining, due, blocked, gate, seen>>

Flooded ==
    /\ turning.at = "claimed" /\ holds < MaxHolds
    /\ wait' = [wait EXCEPT ![Method(turning.entry)] = Wait]
    /\ preserve_deferred(Never) /\ Notify
    /\ turning' = Turning /\ holds' = holds + 1
    /\ UNCHANGED <<difference_credit, remaining, due, held, seen>>

-----------------------------------------------------------------------------
(* The gate and the connection around it *)

Hold(m) ==
    /\ m \notin held /\ holds < MaxHolds
    /\ held' = held \union {m} /\ holds' = holds + 1 /\ Notify
    /\ UNCHANGED <<box, wait, turning, seen>>

Release(m) ==
    /\ m \in held /\ held' = held \ {m} /\ Notify
    /\ UNCHANGED <<box, wait, holds, turning, seen>>

\* A server wait covers every method; nobody is told, the wait only grows.
Cooldown ==
    /\ holds < MaxHolds
    /\ wait' = [m \in Methods |-> Wait] /\ holds' = holds + 1
    /\ UNCHANGED <<queue, wakeup_queued, box, held, turning, seen>>

Arrive(e) ==
    /\ e \notin ToSet(queue) /\ ~(turning.at = "process" /\ turning.entry = e)
    /\ put_nowait(e)
    /\ UNCHANGED <<wakeup_queued, box, gate, turning, seen>>

Elapse(x) ==
    /\ x \notin getting \union due
    /\ due' = due \union {x}
    /\ UNCHANGED <<queue, wakeup_queued, difference_credit, remaining, getting, blocked,
                   gate, turning, seen>>

Down(n) == IF n > 0 /\ n # Never THEN n - 1 ELSE n
Ticking == (\E m \in Methods : wait[m] > 0) \/ turning.until \notin {0, Never}
Tick ==
    /\ Ticking
    /\ wait' = [m \in Methods |-> Down(wait[m])]
    /\ blocked' = [m \in Methods |-> Down(blocked[m])]
    /\ turning' = [turning EXCEPT !.until = Down(@)]
    /\ UNCHANGED <<queue, wakeup_queued, difference_credit, remaining, getting, due,
                   held, holds, seen>>

-----------------------------------------------------------------------------
IntakeInit ==
    /\ queue = <<>> /\ wakeup_queued = FALSE
    /\ difference_credit = FALSE /\ remaining = Free
    /\ getting \in {{}, {Account}} /\ due = {}
    /\ blocked = [m \in Methods |-> Free] /\ wait = [m \in Methods |-> 0]
    /\ held = {} /\ turning = Turning /\ holds = 0
    /\ seen = [e \in Envelopes |-> 0]

Turn == get_difference \/ get_channel_difference \/ TurnAgain \/ get_nowait \/ Sleep

IntakeNext ==
    \/ Turn \/ Wake \/ process_updates
    \/ Deferred \/ Claim \/ Postponed \/ Resume \/ AccessLost \/ Answered \/ Flooded
    \/ \E m \in Methods : Hold(m) \/ Release(m)
    \/ Cooldown
    \/ \E e \in Envelopes : Arrive(e)
    \/ \E x \in Entries : Elapse(x)
    \/ Tick

IntakeSpec == IntakeInit /\ [][IntakeNext]_intakeVars

\* The loop runs, time passes, and an admitted request is written before its
\* deadline; nothing is assumed of arrivals, holds and answers but that an
\* answer or its failure comes.
IntakeFairness ==
    /\ WF_intakeVars(Turn) /\ WF_intakeVars(Wake)
    /\ WF_intakeVars(process_updates)
    /\ WF_intakeVars(Deferred) /\ SF_intakeVars(Claim) /\ WF_intakeVars(Resume)
    /\ WF_intakeVars(Answered \/ Flooded) /\ WF_intakeVars(Tick)

FairIntakeSpec == IntakeSpec /\ IntakeFairness

-----------------------------------------------------------------------------
IntakeTypeOK ==
    /\ queue \in Seq(Envelopes \union {"wakeup"}) /\ wakeup_queued \in BOOLEAN
    /\ difference_credit \in BOOLEAN /\ remaining \in {Free} \union Nat
    /\ getting \subseteq Entries /\ due \subseteq Entries \ getting
    /\ blocked \in [Methods -> {Free, Never} \union 0..Wait]
    /\ wait \in [Methods -> 0..Wait] /\ held \subseteq Methods
    /\ turning \in [at : {"turn", "asleep", "process", "calling", "claimed", "paused"},
                   entry : Entries \union Envelopes \union {"wakeup"},
                   until : {Never} \union 0..Wait]
    /\ holds \in 0..MaxHolds /\ seen \in [Envelopes -> 0..2]

\* Input takes turns with differences: however they interleave with holds and
\* deferrals, no envelope waits in the queue while two differences are asked.
OneDifferencePerTurn == \A e \in Envelopes : seen[e] <= 1

\* While the loop sleeps with nothing queued, every difference in progress is
\* withheld by the gate, and no later than until the boundary it sleeps to:
\* a release is never missed.
SleepIsJustified ==
    turning.at = "asleep" /\ queue = <<>> /\ turning.until > 0 =>
        \A x \in getting : /\ HeldBy(Method(x))
                           /\ Method(x) \notin held => turning.until <= wait[Method(x)]

\* The loop turns again without waiting only when that began something: a
\* withheld difference never spins the event loop.
NeverSpins ==
    [][TurnAgain => getting' # getting]_intakeVars

\* A gap is dropped only by an answer, or by the certain loss of its channel;
\* a request that was held back keeps it.
GapsKept ==
    [][\A x \in getting : x \notin getting' =>
           turning.entry = x /\ (turning.at = "claimed" \/ x \in Channels)]_intakeVars

\* The intake gives input and differences their turns and sleeps with a reason; a
\* deferral costs neither the gap nor the peace of the loop.
TurnsAreTaken ==
    [](OneDifferencePerTurn /\ SleepIsJustified) /\ GapsKept /\ NeverSpins

\* Whatever the pace of input, a difference that the gate does not hold is
\* asked for.
AccountAsked ==
    Account \in getting ~> \/ Account \notin getting \/ HeldBy("difference")
                           \/ (turning.at = "claimed" /\ turning.entry = Account)

\* And whatever the pace of differences, input is taken.
InputTaken ==
    \A e \in Envelopes : e \in ToSet(queue) ~> e \notin ToSet(queue)

\* test_telegram_update_fairness.py: a due account deadline preempts busy
\* channels.  The loop does not sleep past it because of a channel.
DueAccountPreempts ==
    Account \in due /\ getting # {} /\ ~HeldBy("difference") =>
        ~(turning.at = "asleep" /\ queue = <<>> /\ turning.until > 0)
=============================================================================
