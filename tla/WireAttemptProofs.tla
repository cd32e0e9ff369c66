------------------------- MODULE WireAttemptProofs --------------------------
(***************************************************************************)
(* WireAttempt keeps slots, permissions and the record of what is unlearnt *)
(* sound, and writes nothing past an unlearnt outcome or a flood wait, for *)
(* every set of requests, every budget, limit and number of faults.        *)
(***************************************************************************)
EXTENDS WireAttempt, FiniteSetTheorems, TLAPS

\* An attempt of an earlier process, after Restart
Gone == [Fresh EXCEPT !.caller = "gone", !.outcome = "gone", !.settled = TRUE]

-----------------------------------------------------------------------------
(* The inductive invariant *)

\* What the parts of the state say of one request, whoever else is on the way: who
\* forgot it, what its outcome, receipt and settlement say of each other, and what of
\* it is on record.
Passage(a) ==
  LET s == att[a]
      intent == disk.intent[a] IN
  /\ s.caller = "idle" => s = Fresh /\ intent = "none" /\ a \notin exposed
  /\ s.caller = "gone" => s = Gone
  /\ s.caller \in {"idle", "gone"} => a \notin gate.claimed
  /\ s.settled => s.outcome # "open" /\ s.receipt \notin {"flood", "read"}
  /\ s.outcome = "open" => s.receipt = "none"
  /\ s.receipt = "flood" => s.outcome = "flood"
  /\ s.receipt = "read" => Kind[a] = "read" /\ s.outcome \in {"timeout", "exhausted"}
  /\ s.receipt = "lost" => gate.failed
  /\ s.receipt = "saved" /\ s.outcome # "flood" => intent = "retry"
  /\ ~s.settled /\ s.receipt # "saved" => intent \in {"none", "prepared"}
  /\ intent = "retry" => Kind[a] = "read"
  /\ s.outcome = "open" /\ s.place \in {"admit", "trial", "packet", "pending"} => intent # "none"
  /\ s.outcome # "open" /\ s.place \notin {"none", "pending"} => s.receipt # "none"
  /\ s.outcome = "flood" => s.place = "none"
  /\ s.slot /\ s.settled => s.place \in {"trial", "packet"}

\* What was written and not answered is on record, and on the way to stay there.
Recorded(a) ==
  a \in exposed =>
    /\ disk.intent[a] # "none"
    /\ att[a].caller # "gone" =>
         /\ att[a].claims > 0 /\ att[a].outcome \notin {"ok", "error", "flood"}
         /\ a \in gate.claimed \/ att[a].receipt = "saved" \/ att[a].settled

\* A connection that is over for good has ended every request it owned.
Over(a) ==
  /\ gate.link \notin {"up", "down"} => att[a].place = "none" /\ (Open(a) => att[a].caller = "idle")
  /\ gate.link = "closed" /\ att[a].caller # "idle" => att[a].settled
  /\ a \in gate.cut => Kind[a] = "read" /\ gate.link \in {"closing", "closed"} /\ att[a].outcome = "cut"

\* What the episode of a method knows of a request that calls it: the permission a
\* request is on the wire with is the one that the episode gave out last.
Permitted(a) ==
  LET s == att[a] IN
  /\ s.permit <= Episode(a).generation /\ s.sent <= Episode(a).generation
  /\ Live(a) /\ Open(a) /\ s.claims > 0 /\ s.sent = Episode(a).generation => Episode(a).claim = a
  /\ s.receipt = "saved" /\ s.place # "none" =>
       Live(a) /\ Episode(a).floor /\ Episode(a).claim = "none"
  /\ Episode(a).claim = a /\ s.caller # "gone" /\ ~gate.failed => ~s.settled /\ s.receipt # "saved"

\* What keeps the next write away from an unlearnt outcome
Fenced(a) ==
  \/ a \notin exposed \/ Open(a) \/ (Kind[a] = "read" /\ disk.intent[a] = "retry")
  \/ att[a].receipt = "read" \/ gate.fault \/ Protected \/ gate.link \notin {"up", "down"}

\* A flood wait is waited for by this process.
FloodIsKnown == penalty => gate.cool \/ (gate.hold /\ ~gate.clean)

\* The next process will find a reason to wait: the floor, or an intent that blocks.
FloodSurvives ==
  penalty => disk.floor \/ \E a \in Attempts :
    /\ Blocks(disk.intent[a])
    /\ att[a].caller = "gone" \/ (att[a].outcome = "flood" /\ att[a].receipt \in {"flood", "lost"})

\* Settled requests whose intents block the account
Causes == {a \in Attempts : att[a].settled /\ Blocks(disk.intent[a])}

\* A protection and a hold have a cause, which a shutdown that is not clean leaves.
ProtectedForCause ==
  /\ disk.protection => Causes # {}
  /\ gate.hold /\ ~gate.failed /\ gate.link # "closed" => Causes # {}
  /\ gate.clean => gate.link \in {"closing", "closed"} /\ gate.cut # {}
  /\ gate.link = "closing" /\ gate.cut # {} /\ ~gate.clean /\ ~gate.failed => Causes \ gate.cut # {}

Holders == {a \in Attempts : att[a].slot}
SlotsBounded == IsFiniteSet(Holders) /\ InUse <= Slots

Each(a) == Passage(a) /\ Recorded(a) /\ Over(a) /\ Permitted(a) /\ Fenced(a)

Inv ==
  /\ TypeOK /\ SlotsBounded /\ \A a \in Attempts : Each(a)
  /\ FloodIsKnown /\ FloodSurvives /\ ProtectedForCause

\* The number of writes of every request stays.
NoWrite == \A a \in Attempts : att'[a].claims <= att[a].claims

-----------------------------------------------------------------------------
(* Types *)

GateType ==
  [link : {"up", "down", "closing", "closed", "failed"}, token : Nat,
   fault : BOOLEAN, hold : BOOLEAN, failed : BOOLEAN, cool : BOOLEAN,
   claimed : SUBSET Attempts, cut : SUBSET Attempts, clean : BOOLEAN]
IntentTypes == [Attempts -> {"none", "prepared", "unknown", "retry"}]
DiskType ==
  [intent : IntentTypes, protection : BOOLEAN, floor : BOOLEAN, method : [Kinds -> EpisodeType]]
CountType == [drop : 0..MaxDrop, salt : 0..MaxSalt, crash : 0..MaxCrash, fail : 0..MaxFail]

\* The type invariant, with names for its parts
LEMMA TypeParts ==
  TypeOK <=> /\ att \in [Attempts -> AttemptType] /\ gate \in GateType /\ disk \in DiskType
             /\ count \in CountType /\ exposed \in SUBSET Attempts /\ penalty \in BOOLEAN
BY DEF TypeOK, GateType, DiskType, CountType, IntentTypes

\* The same of the next state
LEMMA NextTypeParts ==
  TypeOK' <=> /\ att' \in [Attempts -> AttemptType] /\ gate' \in GateType /\ disk' \in DiskType
              /\ count' \in CountType /\ exposed' \in SUBSET Attempts /\ penalty' \in BOOLEAN
BY DEF TypeOK, GateType, DiskType, CountType, IntentTypes

-----------------------------------------------------------------------------
(* What a step that leaves a request alone leaves of the invariant *)

\* A request that no step touches keeps its passage.
LEMMA PassageStays ==
  ASSUME NEW a \in Attempts, Passage(a), att'[a] = att[a], disk'.intent[a] = disk.intent[a],
         a \in exposed' => a \in exposed, a \in gate'.claimed => a \in gate.claimed,
         gate.failed => gate'.failed
  PROVE  Passage(a)'
BY DEF Passage, Fresh, Gone

\* What is on record of a request stays while its intent does.
LEMMA RecordedStays ==
  ASSUME NEW a \in Attempts, Recorded(a), att'[a] = att[a], disk'.intent[a] = disk.intent[a],
         a \in exposed' => a \in exposed, a \in gate.claimed => a \in gate'.claimed
  PROVE  Recorded(a)'
BY DEF Recorded

\* A connection that stays as it is stays over for its requests.
LEMMA OverStays ==
  ASSUME NEW a \in Attempts, Over(a), att'[a] = att[a], a \in gate'.cut => a \in gate.cut,
         gate'.link = gate.link
  PROVE  Over(a)'
BY DEF Over, Open

\* A permission stays valid while the episode of its method does.
LEMMA PermittedStays ==
  ASSUME NEW a \in Attempts, Permitted(a), att'[a] = att[a],
         disk'.method[Kind[a]] = disk.method[Kind[a]], gate.failed => gate'.failed,
         gate \in GateType, gate' \in GateType
  PROVE  Permitted(a)'
BY DEF Permitted, Episode, Live, Open, GateType

\* A fence stands as long as its reason does.
LEMMA FencedStays ==
  ASSUME NEW a \in Attempts, Fenced(a), att'[a] = att[a],
         a \in exposed' => a \in exposed, disk.intent[a] = "retry" => disk'.intent[a] = "retry",
         gate.fault => gate'.fault, Protected => Protected',
         gate'.link = gate.link
  PROVE  Fenced(a)'
BY DEF Fenced, Open

\* Slots that are only given back stay within the limit.
LEMMA SlotsShrink ==
  ASSUME SlotsBounded, \A a \in Attempts : att'[a].slot => att[a].slot
  PROVE  SlotsBounded'
<1>1. Holders' \subseteq Holders
  BY DEF Holders
<1>2. IsFiniteSet(Holders') /\ Cardinality(Holders') <= Cardinality(Holders)
  BY <1>1, FS_Subset DEF SlotsBounded
<1>3. InUse = Cardinality(Holders) /\ InUse' = Cardinality(Holders')
  BY DEF InUse, Holders
<1>4. Cardinality(Holders) \in Nat /\ Cardinality(Holders') \in Nat /\ Slots \in Nat
  BY <1>2, FS_CardinalityType, WireAssumption DEF SlotsBounded
<1> QED BY <1>2, <1>3, <1>4 DEF SlotsBounded

\* Causes and witnesses that stay keep what rests on them.
LEMMA ReasonsStay ==
  ASSUME FloodIsKnown, FloodSurvives, ProtectedForCause,
         penalty' = penalty, disk'.floor = disk.floor, disk'.protection = disk.protection,
         gate'.cool = gate.cool, gate'.hold = gate.hold, gate'.clean = gate.clean,
         gate'.cut = gate.cut, gate.failed => gate'.failed,
         \A a \in Attempts :
           /\ Blocks(disk.intent[a]) => Blocks(disk'.intent[a])
           /\ att[a].settled => att'[a].settled
           /\ att[a].caller = "gone" => att'[a].caller = "gone"
           /\ att[a].outcome = "flood" /\ att[a].receipt \in {"flood", "lost"} =>
                att'[a].outcome = "flood" /\ att'[a].receipt \in {"flood", "lost"},
         gate'.link = gate.link \/ {gate.link, gate'.link} \subseteq {"up", "down"}
  PROVE  FloodIsKnown' /\ FloodSurvives' /\ ProtectedForCause'
<1>1. FloodIsKnown'
  BY DEF FloodIsKnown
<1>2. FloodSurvives'
  BY DEF FloodSurvives, Blocks
<1>3. Causes \subseteq Causes'
  BY DEF Causes, Blocks
<1>4. ProtectedForCause'
  BY <1>3 DEF ProtectedForCause
<1> QED BY <1>1, <1>2, <1>4

\* A step of the preparation, the caller or the wire of one request: the gate and the
\* record keep what they know of all others and of the account.
LEMMA AttemptStep ==
  ASSUME Inv, NEW a \in Attempts, NEW s \in AttemptType, att' = [att EXCEPT ![a] = s],
         att[a].caller # "gone", s.settled = att[a].settled, (s.slot => att[a].slot) \/ SlotsBounded',
         att[a].outcome = "flood" => s.outcome = "flood" /\ s.receipt = att[a].receipt,
         gate' \in GateType, gate'.cool = gate.cool, gate'.hold = gate.hold,
         gate'.clean = gate.clean, gate'.cut = gate.cut, gate'.link = gate.link,
         gate'.failed = gate.failed, gate.fault => gate'.fault,
         \A b \in Attempts \ {a} : b \in gate'.claimed <=> b \in gate.claimed,
         disk' \in DiskType, disk'.floor = disk.floor, disk'.protection = disk.protection,
         \A b \in Attempts \ {a} : disk'.intent[b] = disk.intent[b],
         disk'.intent[a] = disk.intent[a] \/ disk.intent[a] = "none",
         count' \in CountType, exposed' \in {exposed, exposed \cup {a}}, penalty' = penalty,
         \A b \in Attempts : Permitted(b)',
         Passage(a)', Recorded(a)', Over(a)', Fenced(a)'
  PROVE  Inv'
<1>1. TypeOK'
  BY TypeParts, NextTypeParts DEF Inv
<1>2. att'[a] = s /\ \A b \in Attempts \ {a} : att'[b] = att[b]
  BY TypeParts DEF Inv
<1>3. SlotsBounded'
  <2>1. CASE s.slot => att[a].slot
    BY <1>2, <2>1, SlotsShrink DEF Inv
  <2> QED BY <2>1
<1>4. ASSUME NEW b \in Attempts PROVE Each(b)'
  <2>1. CASE b = a
    BY <2>1 DEF Each
  <2>2. CASE b # a
    <3>1. Each(b) /\ att'[b] = att[b] /\ disk'.intent[b] = disk.intent[b]
          /\ (b \in gate'.claimed <=> b \in gate.claimed) /\ (b \in exposed' => b \in exposed)
      BY <1>2, <2>2 DEF Inv
    <3>2. Passage(b)' /\ Recorded(b)' /\ Over(b)'
      BY <3>1, PassageStays, RecordedStays, OverStays DEF Each
    <3>3. Protected => Protected'
      BY DEF Protected
    <3>4. Fenced(b)'
      BY <3>1, <3>3, FencedStays DEF Each
    <3> QED BY <3>2, <3>4 DEF Each
  <2> QED BY <2>1, <2>2
<1>5. FloodIsKnown' /\ FloodSurvives' /\ ProtectedForCause'
  <2>1. \A b \in Attempts :
           /\ Blocks(disk.intent[b]) => Blocks(disk'.intent[b])
           /\ att[b].settled => att'[b].settled
           /\ att[b].caller = "gone" => att'[b].caller = "gone"
           /\ att[b].outcome = "flood" /\ att[b].receipt \in {"flood", "lost"} =>
                att'[b].outcome = "flood" /\ att'[b].receipt \in {"flood", "lost"}
    <3> SUFFICES ASSUME NEW b \in Attempts
                 PROVE  /\ Blocks(disk.intent[b]) => Blocks(disk'.intent[b])
                        /\ att[b].settled => att'[b].settled
                        /\ att[b].caller = "gone" => att'[b].caller = "gone"
                        /\ att[b].outcome = "flood" /\ att[b].receipt \in {"flood", "lost"} =>
                             att'[b].outcome = "flood" /\ att'[b].receipt \in {"flood", "lost"}
      OBVIOUS
    <3>1. CASE b = a
      BY <1>2, <3>1 DEF Blocks
    <3>2. CASE b # a
      BY <1>2, <3>2 DEF Blocks
    <3> QED BY <3>1, <3>2
  <2> QED BY <2>1, ReasonsStay DEF Inv
<1> QED BY <1>1, <1>3, <1>4, <1>5 DEF Inv

-----------------------------------------------------------------------------
(* The records the model starts requests and processes from *)

\* The fields of a request that was never sent
LEMMA FreshParts ==
  /\ Fresh \in AttemptType /\ Fresh.caller = "idle" /\ ~Fresh.revoked /\ ~Fresh.settled /\ ~Fresh.slot
  /\ Fresh.place = "none" /\ Fresh.claims = 0 /\ Fresh.permit = 0 /\ Fresh.sent = 0
  /\ Fresh.outcome = "open" /\ Fresh.receipt = "none"
BY DEF Fresh, AttemptType, Outcomes, Preparing

\* The fields of a request that a restart left behind
LEMMA GoneParts ==
  /\ Gone \in AttemptType /\ Gone.caller = "gone" /\ ~Gone.revoked /\ Gone.settled /\ ~Gone.slot
  /\ Gone.place = "none" /\ Gone.claims = 0 /\ Gone.permit = 0 /\ Gone.sent = 0
  /\ Gone.outcome = "gone" /\ Gone.receipt = "none"
BY DEF Fresh, Gone, AttemptType, Outcomes, Preparing

\* The invariant, of the one request that a step is about
LEMMA InvParts ==
  ASSUME Inv
  PROVE  /\ att \in [Attempts -> AttemptType] /\ gate \in GateType /\ disk \in DiskType
         /\ count \in CountType /\ exposed \in SUBSET Attempts /\ penalty \in BOOLEAN
         /\ \A a \in Attempts : /\ att[a] \in AttemptType /\ Passage(a) /\ Recorded(a)
                                /\ Over(a) /\ Permitted(a) /\ Fenced(a)
         /\ SlotsBounded /\ FloodIsKnown /\ FloodSurvives /\ ProtectedForCause
BY TypeParts DEF Inv, Each

\* The episode of a request's method and the types of its fields
LEMMA EpisodeParts ==
  ASSUME disk \in DiskType, NEW a \in Attempts
  PROVE  /\ Kind[a] \in Kinds /\ Episode(a) = disk.method[Kind[a]] /\ Episode(a) \in EpisodeType
         /\ Episode(a).generation \in Nat /\ Episode(a).claim \in Attempts \cup {"none"}
         /\ Episode(a).floor \in BOOLEAN
<1>1. Kind[a] \in Kinds
  BY WireAssumption DEF Kinds
<1>2. Episode(a) \in EpisodeType
  BY <1>1 DEF Episode, DiskType
<1> QED BY <1>1, <1>2 DEF Episode, EpisodeType

Places == Preparing \cup {"none", "queue", "packet", "pending"}
Receipts == {"none", "flood", "read", "saved", "lost"}

-----------------------------------------------------------------------------
(* The way to the wire *)

\* The methods stay with their episodes when only a request changes.
LEMMA OthersPermitted ==
  ASSUME Inv, NEW a \in Attempts, NEW s \in AttemptType, att' = [att EXCEPT ![a] = s],
         disk'.method = disk.method, gate.failed => gate'.failed, gate' \in GateType, Permitted(a)'
  PROVE  \A b \in Attempts : Permitted(b)'
<1> SUFFICES ASSUME NEW b \in Attempts, b # a PROVE Permitted(b)'
  OBVIOUS
<1> QED BY TypeParts, PermittedStays DEF Inv, Each

\* A request that is on its way belongs to this process.
LEMMA OnTheWay ==
  ASSUME Inv, NEW a \in Attempts, att[a].place # "none"
  PROVE  att[a].caller \notin {"idle", "gone"} /\ gate.link \in {"up", "down"}
<1>1. att[a].caller # "idle" /\ att[a].caller # "gone"
  BY InvParts, FreshParts, GoneParts DEF Passage
<1>2. gate.link \in {"up", "down"}
  BY InvParts DEF Over
<1> QED BY <1>1, <1>2

\* A caller hands its request to the sender.
LEMMA SendStep ==
  ASSUME Inv, NEW a \in Attempts, Send(a)
  PROVE  Inv' /\ NoWrite
<1> DEFINE s == [att[a] EXCEPT !.caller = "waiting", !.place = "queue"]
<1>1. /\ att' = [att EXCEPT ![a] = s] /\ UNCHANGED <<gate, disk, count, exposed, penalty>>
      /\ att[a] = Fresh /\ gate.link \in {"up", "down"} /\ a \notin exposed /\ disk.intent[a] = "none"
      /\ a \notin gate.cut
  BY InvParts, FreshParts DEF Send, Passage, Over
<1>2. /\ s \in AttemptType /\ s.caller = "waiting" /\ ~s.settled /\ ~s.slot /\ s.place = "queue"
      /\ s.claims = 0 /\ s.permit = 0 /\ s.sent = 0 /\ s.outcome = "open" /\ s.receipt = "none"
  BY <1>1, FreshParts DEF AttemptType
<1>3. att'[a] = s
  BY <1>1, InvParts
<1> HIDE DEF s
<1>4. Passage(a)' /\ Recorded(a)' /\ Over(a)' /\ Fenced(a)'
  BY <1>1, <1>2, <1>3 DEF Passage, Recorded, Over, Fenced, Open
<1>5. Permitted(a)'
  <2>1. Episode(a)' = Episode(a) /\ Episode(a).generation \in Nat
    BY <1>1, InvParts, EpisodeParts DEF Episode
  <2> QED BY <1>1, <1>2, <1>3, <2>1 DEF Permitted, Live, Open
<1>6. \A b \in Attempts : Permitted(b)'
  BY <1>1, <1>2, <1>5, InvParts, OthersPermitted
<1>7. NoWrite
  BY <1>1, <1>2, <1>3, FreshParts, InvParts DEF NoWrite, AttemptType
<1>8. /\ att[a].caller # "gone" /\ s.settled = att[a].settled /\ (s.slot => att[a].slot)
      /\ att[a].outcome # "flood"
  BY <1>1, <1>2, FreshParts DEF AttemptType
<1>9. gate' \in GateType /\ disk' \in DiskType /\ count' \in CountType /\ penalty' = penalty
      /\ disk' = disk /\ gate' = gate /\ exposed' = exposed
  BY <1>1, InvParts
<1> QED BY <1>1, <1>2, <1>4, <1>6, <1>7, <1>8, <1>9, AttemptStep

\* A preparation that ends with an error leaves the request unwritten and without
\* a place, and fences the account when it had been written before.
LEMMA GivenUp ==
  ASSUME Inv, NEW a \in Attempts, NEW e \in {"none", "cancelled", "exhausted", "refused", "expired"},
         e = "none" => ~Open(a),
         att[a].place \in Preparing \cup {"queue"}, Unprepared(a, e),
         \/ disk' = disk
         \/ disk' = [disk EXCEPT !.intent[a] = IF @ = "none" THEN "prepared" ELSE @],
         UNCHANGED <<count, exposed, penalty>>
  PROVE  Inv' /\ NoWrite
<1> DEFINE ends == Open(a) /\ (e = "cancelled" => att[a].claims = 0)
           r == IF ends THEN ReceiptOf(a, e) ELSE att[a].receipt
           kept == att[a].slot /\ att[a].place # "trial"
           o == IF ends THEN e ELSE att[a].outcome
           s == [att[a] EXCEPT !.place = "none", !.slot = kept, !.outcome = o, !.receipt = r]
<1>1. /\ att[a] \in AttemptType /\ gate \in GateType /\ disk \in DiskType /\ count \in CountType
      /\ att[a].caller \notin {"idle", "gone"} /\ gate.link \in {"up", "down"}
      /\ Passage(a) /\ Recorded(a) /\ Over(a) /\ Permitted(a) /\ Fenced(a)
  BY OnTheWay, InvParts DEF Preparing
<1>2. /\ att' = [att EXCEPT ![a] = s]
      /\ gate' = [gate EXCEPT !.fault = @ \/ (ends /\ Faults(a, e))]
  <2>1. CASE ends
    <3>1. s = [Failed(a, e, "none") EXCEPT !.slot = @ /\ att[a].place # "trial"]
      BY <1>1, <2>1 DEF Failed, AttemptType
    <3> QED BY <2>1, <3>1 DEF Unprepared
  <2>2. CASE ~ends
    <3>1. s = [att[a] EXCEPT !.place = "none", !.slot = @ /\ att[a].place # "trial"]
      BY <1>1, <2>2 DEF AttemptType
    <3>2. att' = [att EXCEPT ![a] = s] /\ gate' = gate
      BY <2>2, <3>1, ZenonT(60) DEF Unprepared
    <3> QED BY <1>1, <2>2, <3>2 DEF GateType
  <2> QED BY <2>1, <2>2
<1>3. /\ s \in AttemptType /\ s.place = "none" /\ s.caller = att[a].caller
      /\ s.settled = att[a].settled /\ s.slot = (att[a].slot /\ att[a].place # "trial")
      /\ s.claims = att[a].claims /\ s.permit = att[a].permit /\ s.sent = att[a].sent
      /\ s.outcome = IF ends THEN e ELSE att[a].outcome
      /\ s.receipt = r
  <2>1. r \in {"none", "flood", "read", "saved", "lost"} /\ (ends => e \in Outcomes)
    BY <1>1 DEF ReceiptOf, AttemptType, Outcomes
  <2>2. o \in Outcomes /\ r \in Receipts /\ "none" \in Places /\ kept \in BOOLEAN
    BY <1>1, <2>1 DEF AttemptType, Receipts, Places
  <2>3. o = IF ends THEN e ELSE att[a].outcome
    OBVIOUS
  <2>4. kept = (att[a].slot /\ att[a].place # "trial")
    OBVIOUS
  <2> HIDE DEF r, ends, o, kept
  <2>5. /\ s \in AttemptType /\ s.place = "none" /\ s.caller = att[a].caller
        /\ s.settled = att[a].settled /\ s.slot = kept
        /\ s.claims = att[a].claims /\ s.permit = att[a].permit /\ s.sent = att[a].sent
        /\ s.outcome = o /\ s.receipt = r
    BY <1>1, <2>2 DEF AttemptType, Places, Receipts
  <2> QED BY <2>3, <2>4, <2>5
<1>4. att'[a] = s
  BY <1>2, InvParts
<1>5. /\ gate' \in GateType /\ gate'.fault = (gate.fault \/ (ends /\ Faults(a, e)))
      /\ gate'.cool = gate.cool /\ gate'.hold = gate.hold /\ gate'.clean = gate.clean
      /\ gate'.cut = gate.cut /\ gate'.link = gate.link /\ gate'.failed = gate.failed
      /\ gate'.claimed = gate.claimed
  <2>1. (ends /\ Faults(a, e)) \in BOOLEAN
    OBVIOUS
  <2> QED BY <1>1, <1>2, <2>1 DEF GateType
<1>6. /\ disk' \in DiskType /\ disk'.method = disk.method
      /\ disk'.floor = disk.floor /\ disk'.protection = disk.protection
      /\ \A b \in Attempts \ {a} : disk'.intent[b] = disk.intent[b]
      /\ disk'.intent[a] = disk.intent[a] \/ (disk.intent[a] = "none" /\ disk'.intent[a] = "prepared")
  <2>1. CASE disk' = disk
    BY <1>1, <2>1
  <2>2. CASE disk' = [disk EXCEPT !.intent[a] = IF @ = "none" THEN "prepared" ELSE @]
    BY <1>1, <2>2 DEF DiskType, IntentTypes
  <2> QED BY <2>1, <2>2
<1> HIDE DEF s
<1>7. /\ ends => e \in {"cancelled", "exhausted", "refused", "expired"}
      /\ ends => att[a].outcome = "open" /\ att[a].receipt = "none" /\ ~att[a].settled
      /\ ~ends => r = att[a].receipt
      /\ ends => r \in {"none", "read"} /\ (r = "read" => Kind[a] = "read" /\ e = "exhausted")
      /\ ends /\ a \in exposed => r = "read" \/ Faults(a, e)
  <2>1. att[a].claims \in Nat
    BY <1>1 DEF AttemptType
  <2> QED BY <1>1, <2>1 DEF Passage, Recorded, Open, ReceiptOf, Faults
<1> HIDE DEF r, ends
<1>8. Passage(a)'
  <2>2. CASE ends
    <3>1. s.outcome = e /\ s.receipt \in {"none", "read"} /\ ~s.settled /\ e # "open" /\ e # "flood"
      BY <1>3, <1>7, <2>2
    <3> QED BY <1>1, <1>3, <1>4, <1>5, <1>6, <1>7, <2>2, <3>1 DEF Passage
  <2>3. CASE ~ends
    <3>1. s.outcome = att[a].outcome /\ s.receipt = att[a].receipt
      BY <1>3, <1>7, <2>3
    <3>2. s.slot /\ s.settled => FALSE
      BY <1>1, <1>3 DEF Passage, Preparing
    <3> QED BY <1>1, <1>3, <1>4, <1>5, <1>6, <3>1, <3>2 DEF Passage
  <2> QED BY <2>2, <2>3
<1>9. Recorded(a)' /\ Over(a)'
  BY <1>1, <1>3, <1>4, <1>5, <1>6, <1>7 DEF Recorded, Over, Open
<1>10. Fenced(a)'
  BY <1>1, <1>3, <1>4, <1>5, <1>6, <1>7 DEF Recorded, Fenced, Open, Protected
<1>11. Permitted(a)'
  BY <1>1, <1>3, <1>4, <1>5, <1>6, <1>7 DEF Permitted, Open, Episode, Live
<1>12. NoWrite
  BY <1>2, <1>3, InvParts DEF NoWrite, AttemptType
<1>13. \A b \in Attempts : Permitted(b)'
  BY <1>2, <1>3, <1>5, <1>6, <1>11, OthersPermitted
<1> QED BY <1>1, <1>2, <1>3, <1>5, <1>6, <1>7, <1>8, <1>9, <1>10, <1>12, <1>13, AttemptStep

\* A request that gets another place, and may be revoked or lose its slot, keeps what
\* the invariant says of it as long as the place fits what is on record.
LEMMA Moved ==
  ASSUME Inv, NEW a \in Attempts, NEW s \in AttemptType, att' = [att EXCEPT ![a] = s],
         att[a].caller \notin {"idle", "gone"}, s.caller \notin {"idle", "gone"},
         s.settled = att[a].settled, s.claims = att[a].claims, s.permit = att[a].permit,
         s.sent = att[a].sent, s.outcome = att[a].outcome, s.receipt = att[a].receipt,
         (s.slot => att[a].slot) \/ SlotsBounded',
         att[a].place = "none" => s.place = "none",
         Open(a) /\ s.place \in {"admit", "trial", "packet", "pending"} => disk'.intent[a] # "none",
         ~Open(a) /\ s.place \notin {"none", "pending"} => s.receipt # "none",
         s.slot /\ s.settled => s.place \in {"trial", "packet"},
         \/ disk' = disk
         \/ disk' = [disk EXCEPT !.intent[a] = IF @ = "none" THEN "prepared" ELSE @],
         UNCHANGED <<gate, count, exposed, penalty>>
  PROVE  Inv' /\ NoWrite
<1>1. /\ att[a] \in AttemptType /\ gate \in GateType /\ disk \in DiskType /\ count \in CountType
      /\ Passage(a) /\ Recorded(a) /\ Over(a) /\ Permitted(a) /\ Fenced(a) /\ att'[a] = s
  BY InvParts
<1>2. /\ disk' \in DiskType /\ disk'.method = disk.method
      /\ disk'.floor = disk.floor /\ disk'.protection = disk.protection
      /\ \A b \in Attempts \ {a} : disk'.intent[b] = disk.intent[b]
      /\ disk'.intent[a] = disk.intent[a] \/ (disk.intent[a] = "none" /\ disk'.intent[a] = "prepared")
  <2>1. CASE disk' = disk
    BY <1>1, <2>1
  <2>2. CASE disk' = [disk EXCEPT !.intent[a] = IF @ = "none" THEN "prepared" ELSE @]
    BY <1>1, <2>2 DEF DiskType, IntentTypes
  <2> QED BY <2>1, <2>2
<1>3. Passage(a)'
  BY <1>1, <1>2 DEF Passage, Open
<1>4. Recorded(a)' /\ Over(a)'
  BY <1>1, <1>2 DEF Recorded, Over, Open
<1>5. Fenced(a)'
  BY <1>1, <1>2 DEF Fenced, Open, Protected
<1>6. Permitted(a)'
  BY <1>1, <1>2 DEF Permitted, Open, Episode, Live
<1>7. NoWrite
  BY <1>1, InvParts DEF NoWrite, AttemptType
<1>8. \A b \in Attempts : Permitted(b)'
  BY <1>1, <1>2, <1>6, OthersPermitted
<1> QED BY <1>1, <1>2, <1>3, <1>4, <1>5, <1>7, <1>8, AttemptStep


\* The queue offers a request, or ends one that is revoked, exhausted or held.
LEMMA OfferStep ==
  ASSUME Inv, NEW a \in Attempts, Offer(a)
  PROVE  Inv' /\ NoWrite
<1> DEFINE e == IF att[a].revoked THEN "cancelled"
                ELSE IF att[a].claims >= Budget[Kind[a]] THEN "exhausted"
                ELSE IF Protected \/ MethodHeld(a) THEN "refused" ELSE "none"
<1>1. CASE ~Open(a) \/ e # "none"
  <2>1. Unprepared(a, e)
    BY <1>1 DEF Offer
  <2>2. e \in {"none", "cancelled", "exhausted", "refused", "expired"}
    OBVIOUS
  <2>3. (e = "none" => ~Open(a)) /\ disk' = disk /\ UNCHANGED <<count, exposed, penalty>>
        /\ att[a].place \in Preparing \cup {"queue"}
    BY <1>1 DEF Offer
  <2> HIDE DEF e
  <2> QED BY <2>1, <2>2, <2>3, GivenUp
<1>2. CASE Open(a) /\ e = "none"
  <2> DEFINE s == [att[a] EXCEPT !.place = "intent", !.slot = att[a].slot, !.token = att[a].token]
  <2>1. /\ att[a] \in AttemptType /\ Passage(a) /\ att[a].place = "queue"
        /\ att[a].caller \notin {"idle", "gone"}
    BY InvParts, OnTheWay DEF Offer
  <2>2. /\ s = [att[a] EXCEPT !.place = "intent"]
        /\ s \in AttemptType /\ s.place = "intent" /\ s.slot = att[a].slot
        /\ s.outcome = att[a].outcome /\ s.receipt = att[a].receipt /\ s.caller = att[a].caller
        /\ s.settled = att[a].settled /\ s.claims = att[a].claims /\ s.permit = att[a].permit
        /\ s.sent = att[a].sent
    BY <2>1 DEF AttemptType, Preparing
  <2>3. att' = [att EXCEPT ![a] = s] /\ UNCHANGED <<gate, disk, count, exposed, penalty>>
    BY <1>2, <2>2 DEF Offer
  <2>4. ~att[a].settled
    BY <1>2, <2>1 DEF Passage, Open
  <2> HIDE DEF s
  <2> QED BY <1>2, <2>1, <2>2, <2>3, <2>4, Moved
<1> QED BY <1>1, <1>2

\* The durable intent is saved before anything is admitted.
LEMMA IntendStep ==
  ASSUME Inv, NEW a \in Attempts, Intend(a)
  PROVE  Inv' /\ NoWrite
<1>1. /\ att[a] \in AttemptType /\ gate \in GateType /\ disk \in DiskType /\ Passage(a)
      /\ att[a].place = "intent" /\ att[a].caller \notin {"idle", "gone"}
      /\ UNCHANGED <<count, exposed, penalty>>
  BY InvParts, OnTheWay DEF Intend
<1>2. CASE Protected \/ MethodHeld(a)
  <2>1. Unprepared(a, "refused")
    BY <1>2 DEF Intend
  <2>2. disk' = disk \/ disk' = [disk EXCEPT !.intent[a] = IF @ = "none" THEN "prepared" ELSE @]
    BY DEF Intend
  <2> QED BY <1>1, <2>1, <2>2, GivenUp DEF Preparing
<1>3. CASE ~(Protected \/ MethodHeld(a))
  <2> DEFINE s == [att[a] EXCEPT !.place = "admit", !.slot = FALSE, !.token = gate.token]
  <2>1. /\ att' = [att EXCEPT ![a] = s] /\ gate' = gate
        /\ disk' = [disk EXCEPT !.intent[a] = IF @ = "none" THEN "prepared" ELSE @]
    BY <1>3 DEF Intend
  <2>2. /\ s \in AttemptType /\ s.place = "admit" /\ ~s.slot
        /\ s.outcome = att[a].outcome /\ s.receipt = att[a].receipt /\ s.caller = att[a].caller
        /\ s.settled = att[a].settled /\ s.claims = att[a].claims /\ s.permit = att[a].permit
        /\ s.sent = att[a].sent
    BY <1>1 DEF AttemptType, GateType, Preparing
  <2>3. disk'.intent[a] # "none"
    BY <1>1, <2>1 DEF DiskType, IntentTypes
  <2>4. ~Open(a) => s.receipt # "none"
    BY <1>1, <2>2 DEF Passage, Open
  <2> HIDE DEF s
  <2> QED BY <1>1, <2>1, <2>2, <2>3, <2>4, Moved
<1> QED BY <1>2, <1>3

\* An admission that expires ends the preparation.
LEMMA ExpiryStep ==
  ASSUME Inv, NEW a \in Attempts, AdmissionExpires(a)
  PROVE  Inv' /\ NoWrite
BY GivenUp DEF AdmissionExpires, Preparing

\* An admission takes a slot, and there was one left.
LEMMA AdmitStep ==
  ASSUME Inv, NEW a \in Attempts, Admit(a)
  PROVE  Inv' /\ NoWrite
<1> DEFINE s == [att[a] EXCEPT !.place = "trial", !.slot = TRUE]
<1>1. /\ att[a] \in AttemptType /\ Passage(a) /\ att[a].place = "admit" /\ SlotsBounded
      /\ att[a].caller \notin {"idle", "gone"} /\ att' = [att EXCEPT ![a] = s]
      /\ UNCHANGED <<gate, disk, count, exposed, penalty>> /\ InUse < Slots
      /\ att \in [Attempts -> AttemptType]
  BY InvParts, OnTheWay DEF Admit
<1>2. /\ s \in AttemptType /\ s.place = "trial" /\ s.slot
      /\ s.outcome = att[a].outcome /\ s.receipt = att[a].receipt /\ s.caller = att[a].caller
      /\ s.settled = att[a].settled /\ s.claims = att[a].claims /\ s.permit = att[a].permit
      /\ s.sent = att[a].sent
  BY <1>1 DEF AttemptType, Preparing
<1> HIDE DEF s
<1>3. SlotsBounded'
  <2>1. Holders' = Holders \cup {a}
    BY <1>1, <1>2 DEF Holders
  <2>2. IsFiniteSet(Holders) /\ Cardinality(Holders) \in Nat /\ Cardinality(Holders) < Slots
    BY <1>1, FS_CardinalityType DEF SlotsBounded, InUse, Holders
  <2>3. IsFiniteSet(Holders') /\ Cardinality(Holders') <= Cardinality(Holders) + 1
    BY <2>1, <2>2, FS_AddElement
  <2>4. Cardinality(Holders') \in Nat /\ Slots \in Nat /\ InUse' = Cardinality(Holders')
    BY <2>3, FS_CardinalityType, WireAssumption DEF InUse, Holders
  <2> QED BY <2>2, <2>3, <2>4 DEF SlotsBounded
<1>4. (Open(a) => disk'.intent[a] # "none") /\ (~Open(a) => s.receipt # "none")
  BY <1>1, <1>2 DEF Passage, Open
<1> QED BY <1>1, <1>2, <1>3, <1>4, Moved

\* The reservation of an episode is made by a request that may make it, when no other
\* request has the episode's permission and its floor has passed.
LEMMA ReservationPermits ==
  ASSUME Inv, NEW a \in Attempts, NEW s \in AttemptType, att' = [att EXCEPT ![a] = s],
         att[a].place = "trial", s.claims = att[a].claims, s.sent = att[a].sent,
         s.receipt = att[a].receipt, s.settled = att[a].settled,
         s.outcome = "open" => att[a].outcome = "open", s.permit <= Episode(a).generation,
         gate' = gate, disk' = Reserved(a)
  PROVE  /\ disk' \in DiskType /\ disk'.floor = disk.floor /\ disk'.protection = disk.protection
         /\ disk'.intent = disk.intent /\ \A b \in Attempts : Permitted(b)'
<1>1. /\ att[a] \in AttemptType /\ disk \in DiskType /\ Passage(a) /\ Permitted(a)
      /\ att'[a] = s /\ att[a].caller # "gone" /\ gate \in GateType
  BY InvParts, OnTheWay
<1>2. /\ Kind[a] \in Kinds /\ Episode(a) = disk.method[Kind[a]] /\ Episode(a) \in EpisodeType
  BY <1>1, EpisodeParts
<1>3. CASE Live(a) /\ ~Protected /\ ~MethodHeld(a)
  <2> DEFINE m == [disk.method EXCEPT ![Kind[a]].claim = a]
  <2>1. disk' = [disk EXCEPT !.method = m]
    BY <1>1, <1>2, <1>3 DEF Reserved, DiskType
  <2>2. /\ m \in [Kinds -> EpisodeType]
        /\ m[Kind[a]] = [Episode(a) EXCEPT !.claim = a]
        /\ \A k \in Kinds \ {Kind[a]} : m[k] = disk.method[k]
    BY <1>1, <1>2 DEF DiskType, EpisodeType
  <2>3. /\ m[Kind[a]].state = "live" /\ m[Kind[a]].generation = Episode(a).generation
        /\ m[Kind[a]].floor = Episode(a).floor /\ m[Kind[a]].claim = a
    BY <1>2, <1>3, <2>2 DEF EpisodeType, Live
  <2> HIDE DEF m
  <2>4. /\ disk' \in DiskType /\ disk'.floor = disk.floor /\ disk'.protection = disk.protection
        /\ disk'.intent = disk.intent /\ disk'.method = m
    BY <1>1, <2>1, <2>2 DEF DiskType
  <2>5. Episode(a).claim \in {"none", a} /\ ~Episode(a).floor /\ ~gate.failed
    BY <1>3 DEF MethodHeld, Protected
  <2>6. ASSUME NEW b \in Attempts PROVE Permitted(b)'
    <3>1. CASE b = a
      <4>1. Episode(a)' = m[Kind[a]]
        BY <2>4 DEF Episode
      <4>2. att[a].receipt # "saved"
        BY <1>1, <1>3, <2>5 DEF Permitted
      <4>3. ~att[a].settled
        <5>1. att[a].receipt \in Receipts
          BY <1>1 DEF AttemptType, Receipts
        <5> QED BY <1>1, <2>5, <4>2, <5>1 DEF Passage, Receipts
      <4> QED BY <1>1, <1>2, <2>3, <3>1, <4>1, <4>2, <4>3 DEF Permitted, Open
    <3>2. CASE b # a /\ Kind[b] = Kind[a]
      <4>1. Permitted(b) /\ att'[b] = att[b]
        BY <3>2, InvParts
      <4>2. Episode(b) = Episode(a) /\ Episode(b)' = m[Kind[a]] /\ Live(b)
        BY <1>3, <2>4, <3>2 DEF Episode, Live
      <4>3. b # "none"
        BY WireAssumption
      <4> QED BY <2>3, <2>5, <3>2, <4>1, <4>2, <4>3 DEF Permitted, Open
    <3>3. CASE Kind[b] # Kind[a]
      <4>1. Permitted(b) /\ att'[b] = att[b]
        BY <3>3, InvParts
      <4>2. disk'.method[Kind[b]] = disk.method[Kind[b]]
        BY <2>2, <2>4, <3>3, EpisodeParts, <1>1
      <4> QED BY <1>1, <4>1, <4>2, PermittedStays
    <3> QED BY <3>1, <3>2, <3>3
  <2> QED BY <2>4, <2>6
<1>4. CASE ~(Live(a) /\ ~Protected /\ ~MethodHeld(a))
  <2>1. disk' = disk
    BY <1>4 DEF Reserved
  <2>2. Permitted(a)'
    <3>1. Episode(a)' = Episode(a)
      BY <2>1 DEF Episode
    <3> QED BY <1>1, <2>1, <3>1 DEF Permitted, Open, Live
  <2> QED BY <1>1, <2>1, <2>2, OthersPermitted
<1> QED BY <1>3, <1>4

\* The permission of an episode is given out, or refused.
LEMMA PermitStep ==
  ASSUME Inv, NEW a \in Attempts, Permit(a)
  PROVE  Inv' /\ NoWrite
<1>1. /\ att[a] \in AttemptType /\ gate \in GateType /\ disk \in DiskType /\ count \in CountType
      /\ Passage(a) /\ Recorded(a) /\ Over(a) /\ Permitted(a) /\ Fenced(a)
      /\ att[a].place = "trial" /\ att[a].caller \notin {"idle", "gone"}
      /\ gate.link \in {"up", "down"}
      /\ UNCHANGED <<count, exposed, penalty>> /\ disk' = Reserved(a)
      /\ att \in [Attempts -> AttemptType]
  BY InvParts, OnTheWay DEF Permit
<1>2. CASE Protected \/ MethodHeld(a)
  <2>1. Unprepared(a, "refused") /\ disk' = disk
    BY <1>1, <1>2 DEF Permit, Reserved
  <2> QED BY <1>1, <2>1, GivenUp DEF Preparing
<1>3. CASE ~(Protected \/ MethodHeld(a))
  <2> DEFINE g == IF Live(a) THEN Episode(a).generation ELSE 0
             p == [att[a] EXCEPT !.place = "packet", !.permit = g,
                     !.generation = IF att[a].claims = 0 THEN g ELSE @]
             s == IF gate.link = "up" THEN p
                  ELSE [p EXCEPT !.slot = FALSE, !.place = IF Open(a) THEN "queue" ELSE "none"]
  <2>1. att' = [att EXCEPT ![a] = s] /\ gate' = gate
    BY <1>3 DEF Permit
  <2>2. g \in Nat /\ g <= Episode(a).generation
    BY <1>1, EpisodeParts
  <2> HIDE DEF g
  <2>3. /\ p \in AttemptType /\ p.place = "packet" /\ p.slot = att[a].slot /\ p.permit = g
        /\ p.outcome = att[a].outcome /\ p.receipt = att[a].receipt /\ p.caller = att[a].caller
        /\ p.settled = att[a].settled /\ p.claims = att[a].claims /\ p.sent = att[a].sent
    BY <1>1, <2>2 DEF AttemptType
  <2> HIDE DEF p
  <2>4. /\ s \in AttemptType /\ s.permit = g
        /\ s.outcome = att[a].outcome /\ s.receipt = att[a].receipt /\ s.caller = att[a].caller
        /\ s.settled = att[a].settled /\ s.claims = att[a].claims /\ s.sent = att[a].sent
        /\ (s.slot => att[a].slot) /\ (s.slot => s.place = "packet")
        /\ s.place \in {"packet", "queue", "none"}
        /\ (~Open(a) => s.place # "queue")
    BY <2>3, ZenonT(60) DEF AttemptType
  <2>5. att'[a] = s
    BY <1>1, <2>1
  <2> HIDE DEF s
  <2>6. /\ disk' \in DiskType /\ disk'.floor = disk.floor /\ disk'.protection = disk.protection
        /\ disk'.intent = disk.intent /\ \A b \in Attempts : Permitted(b)'
    BY <1>1, <2>1, <2>2, <2>4, ReservationPermits
  <2>7. Passage(a)' /\ Recorded(a)' /\ Over(a)' /\ Fenced(a)'
    <3>1. Passage(a)'
      BY <1>1, <2>1, <2>4, <2>5, <2>6 DEF Passage, Open
    <3>2. Recorded(a)' /\ Over(a)'
      BY <1>1, <2>1, <2>4, <2>5, <2>6 DEF Recorded, Over, Open
    <3>3. Fenced(a)'
      BY <1>1, <2>1, <2>4, <2>5, <2>6 DEF Fenced, Open, Protected
    <3> QED BY <3>1, <3>2, <3>3
  <2>8. NoWrite
    BY <1>1, <2>1, <2>4 DEF NoWrite, AttemptType
  <2> QED BY <1>1, <2>1, <2>4, <2>6, <2>7, <2>8, AttemptStep
<1> QED BY <1>2, <1>3

\* A packet that is not written gives its slot back.
LEMMA DeferredParts ==
  ASSUME Inv, NEW a \in Attempts
  PROVE  LET s == Deferred(a) IN
         /\ s \in AttemptType /\ ~s.slot /\ s.place = (IF Open(a) THEN "queue" ELSE "none")
         /\ s.outcome = att[a].outcome /\ s.receipt = att[a].receipt /\ s.caller = att[a].caller
         /\ s.settled = att[a].settled /\ s.claims = att[a].claims /\ s.permit = att[a].permit
         /\ s.sent = att[a].sent
<1>1. att[a] \in AttemptType
  BY InvParts
<1> QED BY <1>1 DEF Deferred, AttemptType

\* The fields of a request that is written
LEMMA WrittenParts ==
  ASSUME Inv, NEW a \in Attempts
  PROVE  LET s == Written(a) IN
         /\ s \in AttemptType /\ s.slot = att[a].slot /\ s.place = "pending"
         /\ s.outcome = att[a].outcome /\ s.receipt = att[a].receipt /\ s.caller = att[a].caller
         /\ s.settled = att[a].settled /\ s.claims = att[a].claims + 1
         /\ s.permit = att[a].permit /\ s.sent = att[a].permit
<1>1. att[a] \in AttemptType
  BY InvParts
<1>2. att[a].claims \in Nat /\ att[a].permit \in Nat /\ att[a].claims + 1 \in Nat
  BY <1>1 DEF AttemptType
<1> DEFINE n == att[a].claims + 1
           p == att[a].permit
           s == [att[a] EXCEPT !.place = "pending", !.claims = n, !.sent = p]
<1>3. Written(a) = s
  BY <1>1 DEF Written, AttemptType
<1> HIDE DEF n
<1>4. /\ s \in AttemptType /\ s.slot = att[a].slot /\ s.place = "pending"
      /\ s.outcome = att[a].outcome /\ s.receipt = att[a].receipt /\ s.caller = att[a].caller
      /\ s.settled = att[a].settled /\ s.claims = n /\ s.permit = p /\ s.sent = p
  BY <1>1, <1>2 DEF n, AttemptType
<1> QED BY <1>3, <1>4 DEF n

\* What claim_write asks keeps a write behind every fence: no outcome is unlearnt but
\* that of a read of another method, and no flood wait runs.
LEMMA ClaimIsFenced ==
  ASSUME Inv, NEW a \in Attempts, Claimable(a),
         \A b \in Attempts : att'[b].claims > att[b].claims => b = a
  PROVE  WriteInCalm /\ FencedWrite
<1>1. gate \in GateType /\ gate.link = "up" /\ ~gate.fault /\ ~Protected /\ ~gate.cool
      /\ \A b \in Attempts : Kind[b] = Kind[a] => ~Running(b)
  BY InvParts DEF Claimable, WireHeld
<1>2. WriteInCalm
  BY <1>1, InvParts DEF WriteInCalm, FloodIsKnown, Protected
<1>3. ASSUME NEW b \in exposed
      PROVE  \/ Open(b)
             \/ Kind[b] = "read" /\ disk.intent[b] = "retry"
             \/ att[b].receipt = "read" /\ Kind[a] # Kind[b]
  <2>1. b \in Attempts /\ Fenced(b)
    BY InvParts
  <2> QED BY <1>1, <2>1 DEF Fenced, Running
<1> QED BY <1>2, <1>3 DEF FencedWrite

\* A packet is written with a valid claim, or gives its slot back.
LEMMA WriteStep ==
  ASSUME Inv, NEW a \in Attempts, Write(a)
  PROVE  Inv' /\ (NoWrite \/ (WriteInCalm /\ FencedWrite))
<1>1. /\ att[a] \in AttemptType /\ gate \in GateType /\ disk \in DiskType /\ count \in CountType
      /\ exposed \in SUBSET Attempts
      /\ Passage(a) /\ Recorded(a) /\ Over(a) /\ Permitted(a) /\ Fenced(a)
      /\ att[a].place = "packet" /\ att[a].caller \notin {"idle", "gone"}
      /\ gate.link = "up" /\ UNCHANGED <<disk, count, penalty>>
      /\ att \in [Attempts -> AttemptType]
  BY InvParts, OnTheWay DEF Write
<1>2. CASE Open(a) /\ Claimable(a)
  <2> DEFINE s == Written(a)
  <2>1. /\ att' = [att EXCEPT ![a] = s] /\ gate' = [gate EXCEPT !.claimed = @ \cup {a}]
        /\ exposed' = exposed \cup {a}
    BY <1>2 DEF Write
  <2>2. /\ s \in AttemptType /\ s.slot = att[a].slot /\ s.place = "pending"
        /\ s.outcome = att[a].outcome /\ s.receipt = att[a].receipt /\ s.caller = att[a].caller
        /\ s.settled = att[a].settled /\ s.claims = att[a].claims + 1
        /\ s.permit = att[a].permit /\ s.sent = att[a].permit /\ att[a].claims \in Nat
    BY <1>1, WrittenParts DEF AttemptType
  <2>3. att'[a] = s
    BY <1>1, <2>1
  <2> HIDE DEF s
  <2>4. /\ gate' \in GateType /\ gate'.fault = gate.fault /\ gate'.claimed = gate.claimed \cup {a}
        /\ gate'.cool = gate.cool /\ gate'.hold = gate.hold /\ gate'.clean = gate.clean
        /\ gate'.cut = gate.cut /\ gate'.link = gate.link /\ gate'.failed = gate.failed
    BY <1>1, <2>1 DEF GateType
  <2>5. Passage(a)' /\ Recorded(a)' /\ Over(a)' /\ Fenced(a)'
    <3>1. Passage(a)' /\ Fenced(a)'
      BY <1>1, <1>2, <2>1, <2>2, <2>3, <2>4 DEF Passage, Fenced, Open
    <3>2. Recorded(a)' /\ Over(a)'
      BY <1>1, <1>2, <2>1, <2>2, <2>3, <2>4 DEF Passage, Recorded, Over, Open
    <3> QED BY <3>1, <3>2
  <2>6. Permitted(a)'
    <3>1. Episode(a)' = Episode(a) /\ Episode(a).generation \in Nat
      BY <1>1, EpisodeParts DEF Episode
    <3>2. Live(a) => Episode(a).claim = a
      BY <1>2 DEF Claimable, ClaimValid
    <3>3. att[a].receipt = "none" /\ ~att[a].settled
      BY <1>1, <1>2 DEF Passage, Open
    <3> QED BY <1>1, <2>2, <2>3, <2>4, <3>1, <3>2, <3>3 DEF Permitted, Open, Live
  <2>7. \A b \in Attempts : Permitted(b)'
    BY <1>1, <2>1, <2>2, <2>4, <2>6, OthersPermitted
  <2>8. Inv'
    BY <1>1, <2>1, <2>2, <2>4, <2>5, <2>7, AttemptStep
  <2>9. \A b \in Attempts : att'[b].claims > att[b].claims => b = a
    BY <1>1, <2>1 DEF AttemptType
  <2> QED BY <1>2, <2>8, <2>9, ClaimIsFenced
<1>3. CASE ~(Open(a) /\ Claimable(a))
  <2>1. att' = [att EXCEPT ![a] = Deferred(a)] /\ UNCHANGED <<gate, exposed>>
    BY <1>3 DEF Write
  <2> QED BY <1>1, <2>1, DeferredParts, Moved
<1> QED BY <1>2, <1>3

-----------------------------------------------------------------------------
(* The caller *)

\* A caller that leaves revokes a preparation, and leaves a written request alone.
LEMMA RevokeStep ==
  ASSUME Inv, NEW a \in Attempts, att[a].caller \notin {"idle", "gone"}, Revoke(a),
         UNCHANGED <<gate, count, exposed, penalty>>
  PROVE  Inv' /\ NoWrite
<1>1. /\ att[a] \in AttemptType /\ gate \in GateType /\ disk \in DiskType /\ count \in CountType
      /\ Passage(a) /\ Recorded(a) /\ Over(a) /\ Permitted(a) /\ Fenced(a)
      /\ att \in [Attempts -> AttemptType]
  BY InvParts
<1>2. CASE att[a].place \in Preparing
  <2> DEFINE o == IF att[a].claims = 0 /\ Open(a) THEN "cancelled" ELSE att[a].outcome
             kept == att[a].slot /\ att[a].place # "trial"
             s == [att[a] EXCEPT !.caller = "left", !.revoked = TRUE, !.place = "none",
                                 !.slot = kept, !.outcome = o]
  <2>1. o \in Outcomes /\ kept \in BOOLEAN
    BY <1>1 DEF AttemptType, Outcomes
  <2>2. att' = [att EXCEPT ![a] = s]
    <3>1. s = [[att[a] EXCEPT !.caller = "left", !.revoked = TRUE] EXCEPT !.place = "none",
                 !.slot = @ /\ att[a].place # "trial",
                 !.outcome = IF att[a].claims = 0 /\ Open(a) THEN "cancelled" ELSE @]
      BY <1>1 DEF AttemptType
    <3> QED BY <1>2, <3>1 DEF Revoke
  <2>3. /\ (o = "cancelled" /\ att[a].claims = 0 /\ Open(a)) \/ o = att[a].outcome
        /\ kept => att[a].slot /\ att[a].place # "trial"
    OBVIOUS
  <2> HIDE DEF o, kept
  <2>4. /\ s \in AttemptType /\ s.caller = "left" /\ s.place = "none" /\ s.slot = kept
        /\ s.outcome = o /\ s.receipt = att[a].receipt /\ s.settled = att[a].settled
        /\ s.claims = att[a].claims /\ s.permit = att[a].permit /\ s.sent = att[a].sent
    BY <1>1, <2>1 DEF AttemptType
  <2>5. att'[a] = s
    BY <1>1, <2>2
  <2> HIDE DEF s
  <2>6. /\ disk' \in DiskType /\ disk'.floor = disk.floor /\ disk'.protection = disk.protection
        /\ disk'.intent = disk.intent /\ \A b \in Attempts : Permitted(b)'
    <3>1. s.outcome = "open" => att[a].outcome = "open"
      BY <2>3, <2>4
    <3>2. CASE att[a].place = "trial"
      <4>1. disk' = Reserved(a)
        BY <1>2, <3>2 DEF Revoke
      <4>2. s.permit <= Episode(a).generation
        BY <1>1, <2>4 DEF Permitted
      <4> QED BY <2>2, <2>4, <3>1, <3>2, <4>1, <4>2, ReservationPermits
    <3>3. CASE att[a].place # "trial"
      <4>1. disk' = disk
        BY <1>2, <3>3 DEF Revoke
      <4>2. Permitted(a)'
        BY <1>1, <2>4, <2>5, <3>1, <4>1 DEF Permitted, Open, Episode, Live
      <4> QED BY <1>1, <2>2, <2>4, <4>1, <4>2, OthersPermitted
    <3> QED BY <3>2, <3>3
  <2>7. Passage(a)'
    <3>1. o = "cancelled" /\ Open(a) => att[a].receipt = "none" /\ ~att[a].settled
      BY <1>1 DEF Passage, Open
    <3>2. kept /\ att[a].settled => FALSE
      BY <1>1, <1>2, <2>3 DEF Passage, Preparing
    <3> QED BY <1>1, <2>3, <2>4, <2>5, <2>6, <3>1, <3>2 DEF Passage, Open
  <2>8. Recorded(a)' /\ Over(a)'
    BY <1>1, <1>2, <2>3, <2>4, <2>5, <2>6 DEF Recorded, Over, Open
  <2>9. Fenced(a)'
    <3>1. o = att[a].outcome \/ a \notin exposed
      BY <1>1, <2>3 DEF Recorded
    <3> QED BY <1>1, <2>4, <2>5, <2>6, <3>1 DEF Fenced, Open, Protected
  <2>10. NoWrite
    BY <1>1, <2>2, <2>4 DEF NoWrite, AttemptType
  <2>11. att[a].outcome = "flood" => s.outcome = "flood"
    BY <2>3, <2>4 DEF Open
  <2> QED BY <1>1, <2>2, <2>3, <2>4, <2>6, <2>7, <2>8, <2>9, <2>10, <2>11, AttemptStep
<1>3. CASE att[a].place \notin Preparing
  <2> DEFINE s == [att[a] EXCEPT !.caller = "left", !.revoked = TRUE]
  <2>1. att' = [att EXCEPT ![a] = s] /\ disk' = disk
    BY <1>3 DEF Revoke
  <2>2. /\ s \in AttemptType /\ s.caller = "left" /\ s.place = att[a].place
        /\ s.slot = att[a].slot
        /\ s.outcome = att[a].outcome /\ s.receipt = att[a].receipt /\ s.settled = att[a].settled
        /\ s.claims = att[a].claims /\ s.permit = att[a].permit /\ s.sent = att[a].sent
    BY <1>1 DEF AttemptType
  <2> HIDE DEF s
  <2>3. /\ Open(a) /\ s.place \in {"admit", "trial", "packet", "pending"} => disk'.intent[a] # "none"
        /\ ~Open(a) /\ s.place \notin {"none", "pending"} => s.receipt # "none"
        /\ s.slot /\ s.settled => s.place \in {"trial", "packet"}
    BY <1>1, <2>1, <2>2 DEF Passage, Open
  <2> QED BY <1>1, <2>1, <2>2, <2>3, Moved
<1> QED BY <1>2, <1>3

\* A caller that is cancelled revokes its request.
LEMMA CancelStep ==
  ASSUME Inv, NEW a \in Attempts, Cancel(a)
  PROVE  Inv' /\ NoWrite
BY RevokeStep DEF Cancel

\* A request that Telegram wants again is queued again with its slot.
LEMMA ResendStep ==
  ASSUME Inv, NEW a \in Attempts, Resend(a)
  PROVE  Inv' /\ NoWrite
<1> DEFINE s == [att[a] EXCEPT !.place = "queue"]
<1>1. /\ att[a] \in AttemptType /\ gate \in GateType /\ disk \in DiskType /\ count \in CountType
      /\ Passage(a) /\ Recorded(a) /\ Over(a) /\ Permitted(a) /\ Fenced(a)
      /\ att[a].place = "pending" /\ att[a].caller \notin {"idle", "gone"} /\ Open(a)
      /\ att' = [att EXCEPT ![a] = s] /\ UNCHANGED <<gate, disk, exposed, penalty>>
      /\ count' = [count EXCEPT !.salt = @ + 1] /\ count.salt < MaxSalt
      /\ att \in [Attempts -> AttemptType]
  BY InvParts, OnTheWay DEF Resend
<1>2. /\ s \in AttemptType /\ s.place = "queue" /\ s.slot = att[a].slot
      /\ s.outcome = att[a].outcome /\ s.receipt = att[a].receipt /\ s.caller = att[a].caller
      /\ s.settled = att[a].settled /\ s.claims = att[a].claims /\ s.permit = att[a].permit
      /\ s.sent = att[a].sent
  BY <1>1 DEF AttemptType
<1>3. att'[a] = s
  BY <1>1
<1> HIDE DEF s
<1>4. count' \in CountType
  BY <1>1, WireAssumption DEF CountType
<1>5. Passage(a)' /\ Recorded(a)' /\ Over(a)' /\ Fenced(a)'
  <2>1. Passage(a)' /\ Fenced(a)'
    BY <1>1, <1>2, <1>3 DEF Passage, Fenced, Open
  <2>2. Recorded(a)' /\ Over(a)'
    BY <1>1, <1>2, <1>3, OnTheWay DEF Recorded, Over, Open
  <2> QED BY <2>1, <2>2
<1>6. Permitted(a)'
  <2>1. att[a].receipt = "none"
    BY <1>1 DEF Passage, Open
  <2> QED BY <1>1, <1>2, <1>3, <2>1 DEF Permitted, Open, Episode, Live
<1>7. \A b \in Attempts : Permitted(b)'
  BY <1>1, <1>2, <1>6, OthersPermitted
<1>8. NoWrite
  BY <1>1, <1>2 DEF NoWrite, AttemptType
<1> QED BY <1>1, <1>2, <1>4, <1>5, <1>7, <1>8, AttemptStep

\* A deadline retires a durable read, and revokes any other request.
LEMMA TimeoutStep ==
  ASSUME Inv, NEW a \in Attempts, Timeout(a)
  PROVE  Inv' /\ NoWrite
<1>1. /\ att[a] \in AttemptType /\ gate \in GateType /\ disk \in DiskType /\ count \in CountType
      /\ Passage(a) /\ Recorded(a) /\ Over(a) /\ Permitted(a) /\ Fenced(a)
      /\ att \in [Attempts -> AttemptType]
      /\ att[a].caller \notin {"idle", "gone"} /\ UNCHANGED <<gate, count, exposed, penalty>>
  BY InvParts DEF Timeout
<1>2. CASE ~Retirable(a)
  BY <1>1, <1>2, RevokeStep DEF Timeout
<1>3. CASE Retirable(a) /\ ~Open(a)
  <2> DEFINE s == [att[a] EXCEPT !.caller = "draining"]
  <2>1. att' = [att EXCEPT ![a] = s] /\ disk' = disk
    BY <1>3 DEF Timeout
  <2>2. /\ s \in AttemptType /\ s.caller = "draining" /\ s.place = att[a].place
        /\ s.slot = att[a].slot
        /\ s.outcome = att[a].outcome /\ s.receipt = att[a].receipt /\ s.settled = att[a].settled
        /\ s.claims = att[a].claims /\ s.permit = att[a].permit /\ s.sent = att[a].sent
    BY <1>1 DEF AttemptType
  <2> HIDE DEF s
  <2>3. /\ s.place \notin {"none", "pending"} => s.receipt # "none"
        /\ s.slot /\ s.settled => s.place \in {"trial", "packet"}
    BY <1>1, <1>3, <2>1, <2>2 DEF Passage, Open
  <2> QED BY <1>1, <1>3, <2>1, <2>2, <2>3, Moved
<1>4. CASE Retirable(a) /\ Open(a)
  <2> DEFINE s == [att[a] EXCEPT !.outcome = "timeout", !.receipt = "read", !.caller = "draining"]
  <2>1. ReceiptOf(a, "timeout") = "read"
    BY <1>4 DEF Retirable, ReceiptOf
  <2>2. s = [Failed(a, "timeout", att[a].place) EXCEPT !.caller = "draining"]
    BY <1>1, <2>1 DEF Failed, AttemptType
  <2>3. att' = [att EXCEPT ![a] = s] /\ disk' = disk
    BY <1>4, <2>2 DEF Timeout
  <2>4. /\ s \in AttemptType /\ s.caller = "draining" /\ s.place = att[a].place
        /\ s.slot = att[a].slot
        /\ s.outcome = "timeout" /\ s.receipt = "read" /\ s.settled = att[a].settled
        /\ s.claims = att[a].claims /\ s.permit = att[a].permit /\ s.sent = att[a].sent
    BY <1>1 DEF AttemptType, Outcomes
  <2>5. att'[a] = s
    BY <1>1, <2>3
  <2> HIDE DEF s
  <2>6. /\ att[a].outcome = "open" /\ ~att[a].settled /\ att[a].receipt = "none"
        /\ Kind[a] = "read" /\ gate.link \in {"up", "down"}
    BY <1>1, <1>4 DEF Passage, Open, Retirable
  <2>7. Passage(a)'
    BY <1>1, <2>3, <2>4, <2>5, <2>6 DEF Passage, Open
  <2>8. Recorded(a)' /\ Over(a)' /\ Fenced(a)'
    BY <1>1, <2>3, <2>4, <2>5, <2>6 DEF Recorded, Over, Fenced, Open
  <2>9. Permitted(a)'
    BY <1>1, <2>3, <2>4, <2>5, <2>6 DEF Permitted, Open, Episode, Live
  <2>10. \A b \in Attempts : Permitted(b)'
    BY <1>1, <2>3, <2>4, <2>9, OthersPermitted
  <2>11. NoWrite
    BY <1>1, <2>3, <2>4 DEF NoWrite, AttemptType
  <2> QED BY <1>1, <2>3, <2>4, <2>6, <2>7, <2>8, <2>10, <2>11, AttemptStep
<1> QED BY <1>2, <1>3, <1>4

-----------------------------------------------------------------------------
(* Answers, receipts and settlement *)

\* A step of one request that may also change what the account and the method know.
LEMMA OneStep ==
  ASSUME Inv, NEW a \in Attempts, NEW s \in AttemptType, att' = [att EXCEPT ![a] = s],
         s.slot => att[a].slot,
         gate' \in GateType, gate'.cut = gate.cut, gate'.link = gate.link,
         gate.failed => gate'.failed, gate.fault => gate'.fault, Protected => Protected',
         \A b \in Attempts \ {a} : b \in gate'.claimed <=> b \in gate.claimed,
         disk' \in DiskType, \A b \in Attempts \ {a} : disk'.intent[b] = disk.intent[b],
         count' \in CountType, exposed' \in SUBSET Attempts, penalty' \in BOOLEAN,
         \A b \in Attempts \ {a} : b \in exposed' => b \in exposed,
         \A b \in Attempts : Permitted(b)',
         Passage(a)', Recorded(a)', Over(a)', Fenced(a)',
         FloodIsKnown', FloodSurvives', ProtectedForCause'
  PROVE  Inv'
<1>1. TypeOK'
  BY TypeParts, NextTypeParts DEF Inv
<1>2. att'[a] = s /\ \A b \in Attempts \ {a} : att'[b] = att[b]
  BY InvParts
<1>3. SlotsBounded'
  BY <1>2, InvParts, SlotsShrink
<1>4. ASSUME NEW b \in Attempts PROVE Each(b)'
  <2>1. CASE b = a
    BY <2>1 DEF Each
  <2>2. CASE b # a
    <3>1. Each(b) /\ att'[b] = att[b] /\ disk'.intent[b] = disk.intent[b]
          /\ (b \in gate'.claimed <=> b \in gate.claimed) /\ (b \in exposed' => b \in exposed)
      BY <1>2, <2>2 DEF Inv
    <3>2. Passage(b)' /\ Recorded(b)' /\ Over(b)'
      BY <3>1, PassageStays, RecordedStays, OverStays DEF Each
    <3>3. Fenced(b)'
      BY <3>1, FencedStays DEF Each
    <3> QED BY <3>2, <3>3 DEF Each
  <2> QED BY <2>1, <2>2
<1> QED BY <1>1, <1>3, <1>4 DEF Inv

\* Floods that this process or an earlier one has not recorded
FloodWitness(b) ==
  /\ Blocks(disk.intent[b])
  /\ att[b].caller = "gone" \/ (att[b].outcome = "flood" /\ att[b].receipt \in {"flood", "lost"})

\* An answer or an error ends the request, a flood starts a wait.
LEMMA AnswerStep ==
  ASSUME Inv, NEW a \in Attempts, NEW e \in {"ok", "error", "flood"}, Answer(a, e)
  PROVE  Inv' /\ NoWrite
<1> DEFINE r == IF e = "flood" THEN "flood" ELSE "none"
           s == [att[a] EXCEPT !.outcome = e, !.receipt = r, !.place = "none"]
<1>1. /\ att[a] \in AttemptType /\ gate \in GateType /\ disk \in DiskType /\ count \in CountType
      /\ Passage(a) /\ Over(a) /\ Permitted(a) /\ att \in [Attempts -> AttemptType]
      /\ exposed \in SUBSET Attempts /\ penalty \in BOOLEAN
      /\ att[a].caller \notin {"idle", "gone"} /\ att[a].place = "pending" /\ gate.link = "up"
      /\ Open(a) /\ gate' = [gate EXCEPT !.cool = @ \/ e = "flood"] /\ exposed' = exposed \ {a}
      /\ penalty' = (penalty \/ e = "flood") /\ disk' = disk /\ count' = count
  BY InvParts, OnTheWay DEF Answer
<1>2. att' = [att EXCEPT ![a] = s]
  <2>1. ReceiptOf(a, e) = r
    BY DEF ReceiptOf
  <2> QED BY <2>1 DEF Answer, Failed
<1>3. r \in Receipts /\ e \in Outcomes
  BY DEF Receipts, Outcomes
<1>4. (r = "flood" => e = "flood") /\ r \in {"none", "flood"} /\ (e = "flood" => r = "flood")
  OBVIOUS
<1> HIDE DEF r
<1>5. /\ s \in AttemptType /\ s.place = "none" /\ s.slot = att[a].slot
      /\ s.outcome = e /\ s.receipt = r /\ s.caller = att[a].caller
      /\ s.settled = att[a].settled /\ s.claims = att[a].claims /\ s.permit = att[a].permit
      /\ s.sent = att[a].sent
  BY <1>1, <1>3 DEF AttemptType, Receipts
<1>6. att'[a] = s
  BY <1>1, <1>2
<1> HIDE DEF s
<1>7. /\ gate' \in GateType /\ gate'.fault = gate.fault /\ gate'.claimed = gate.claimed
      /\ gate'.cool = (gate.cool \/ e = "flood") /\ gate'.hold = gate.hold /\ gate'.clean = gate.clean
      /\ gate'.cut = gate.cut /\ gate'.link = gate.link /\ gate'.failed = gate.failed
  BY <1>1 DEF GateType
<1>8. /\ ~att[a].settled /\ att[a].receipt = "none" /\ disk.intent[a] = "prepared"
  BY <1>1 DEF Passage, Open
<1>9. Passage(a)' /\ Recorded(a)' /\ Over(a)' /\ Fenced(a)'
  <2>1. Passage(a)'
    BY <1>1, <1>4, <1>5, <1>6, <1>7, <1>8 DEF Passage
  <2>2. Recorded(a)' /\ Over(a)' /\ Fenced(a)'
    BY <1>1, <1>4, <1>5, <1>6, <1>7, <1>8 DEF Recorded, Over, Fenced, Open
  <2> QED BY <2>1, <2>2
<1>10. \A b \in Attempts : Permitted(b)'
  <2>1. Permitted(a)'
    BY <1>1, <1>4, <1>5, <1>6, <1>7, <1>8 DEF Permitted, Open, Episode, Live
  <2> QED BY <1>1, <1>2, <1>5, <1>7, <2>1, OthersPermitted
<1>11. FloodIsKnown'
  BY <1>1, <1>7, InvParts DEF FloodIsKnown
<1>12. FloodSurvives'
  <2>1. CASE e = "flood"
    BY <1>1, <1>4, <1>5, <1>6, <1>8, <2>1 DEF FloodSurvives, Blocks
  <2>2. CASE e # "flood"
    <3>1. \A b \in Attempts : FloodWitness(b) => att'[b] = att[b]
      BY <1>1, <1>2, <1>6 DEF FloodWitness, Open
    <3> QED BY <1>1, <2>2, <3>1, InvParts DEF FloodSurvives, FloodWitness
  <2> QED BY <2>1, <2>2
<1>13. ProtectedForCause'
  <2>1. \A b \in Attempts : att'[b].settled = att[b].settled
    BY <1>1, <1>2, <1>5
  <2>2. Causes' = Causes
    BY <1>1, <2>1 DEF Causes, Blocks
  <2> QED BY <1>1, <1>7, <2>2, InvParts DEF ProtectedForCause
<1>14. NoWrite
  BY <1>1, <1>2, <1>5 DEF NoWrite, AttemptType
<1>15. Protected' = Protected
  BY <1>1, <1>7 DEF Protected
<1> QED BY <1>1, <1>2, <1>5, <1>7, <1>9, <1>10, <1>11, <1>12, <1>13, <1>14, <1>15, OneStep

\* The record from its parts
LEMMA DiskParts ==
  ASSUME NEW i \in IntentTypes, NEW p \in BOOLEAN, NEW f \in BOOLEAN,
         NEW m \in [Kinds -> EpisodeType]
  PROVE  [intent |-> i, protection |-> p, floor |-> f, method |-> m] \in DiskType
BY DEF DiskType

\* What the count of failed saves becomes stays within its bound.
LEMMA SavingCounts ==
  ASSUME count \in CountType, Saves \/ SaveFails
  PROVE  count' \in CountType
<1>1. CASE UNCHANGED count
  BY <1>1
<1>2. CASE count.fail < MaxFail /\ count' = [count EXCEPT !.fail = @ + 1]
  BY <1>2, WireAssumption DEF CountType
<1> QED BY <1>1, <1>2 DEF Saves, SaveFails

\* A request whose method gets another episode, of which none of the old permissions
\* is valid, or gets the episode back that it had the permission of.
LEMMA EpisodePermits ==
  ASSUME Inv, NEW a \in Attempts, NEW s \in AttemptType, att' = [att EXCEPT ![a] = s],
         NEW m \in EpisodeType, disk'.method = [disk.method EXCEPT ![Kind[a]] = m],
         gate.failed => gate'.failed, gate' \in GateType,
         m.generation >= Episode(a).generation, Permitted(a)',
         m = Episode(a) \/ m.claim = "none",
         m = Episode(a) \/ m.generation > Episode(a).generation
           \/ (Episode(a).claim = a /\ m.generation = Episode(a).generation
               /\ (m.state = "live" => Live(a))),
         m.generation > Episode(a).generation => m.state = "live" /\ m.floor
  PROVE  \A b \in Attempts : Permitted(b)'
<1> SUFFICES ASSUME NEW b \in Attempts, b # a PROVE Permitted(b)'
  OBVIOUS
<1>1. /\ att[b] \in AttemptType /\ Permitted(b) /\ att'[b] = att[b] /\ disk \in DiskType
      /\ gate \in GateType
  BY InvParts
<1>2. /\ Kind[a] \in Kinds /\ Kind[b] \in Kinds /\ Episode(a) = disk.method[Kind[a]]
      /\ Episode(b) = disk.method[Kind[b]] /\ Episode(a).generation \in Nat
      /\ disk.method \in [Kinds -> EpisodeType]
  BY <1>1, EpisodeParts DEF DiskType
<1>3. CASE Kind[b] # Kind[a] \/ m = Episode(a)
  <2>1. disk'.method[Kind[b]] = disk.method[Kind[b]]
    BY <1>2, <1>3
  <2> QED BY <1>1, <2>1, PermittedStays
<1>4. CASE Kind[b] = Kind[a] /\ m # Episode(a)
  <2>1. Episode(b)' = m /\ Episode(b) = Episode(a) /\ m.claim = "none" /\ b # "none" /\ a # "none"
    BY <1>2, <1>4, WireAssumption DEF Episode
  <2>2. m.generation \in Nat /\ att[b].permit \in Nat /\ att[b].sent \in Nat
    BY <1>1 DEF AttemptType, EpisodeType
  <2>3. CASE m.generation > Episode(a).generation
    BY <1>1, <1>2, <2>1, <2>2, <2>3 DEF Permitted, Open, Live
  <2>4. CASE m.generation = Episode(a).generation /\ Episode(a).claim = a
    BY <1>1, <1>2, <2>1, <2>2, <2>4 DEF Permitted, Open, Live
  <2> QED BY <1>2, <1>4, <2>2, <2>3, <2>4
<1> QED BY <1>3, <1>4

\* A receipt is saved with a new episode of its method, or closes the ledger.
LEMMA SaveReceiptStep ==
  ASSUME Inv, NEW a \in Attempts, SaveReceipt(a)
  PROVE  Inv' /\ NoWrite
<1> DEFINE s(r) == [att[a] EXCEPT !.receipt = r]
<1>1. /\ att[a] \in AttemptType /\ gate \in GateType /\ disk \in DiskType /\ count \in CountType
      /\ Passage(a) /\ Recorded(a) /\ Over(a) /\ Permitted(a) /\ Fenced(a)
      /\ att \in [Attempts -> AttemptType]
      /\ exposed \in SUBSET Attempts /\ penalty \in BOOLEAN
      /\ att[a].receipt \in {"flood", "read"} /\ UNCHANGED <<exposed, penalty>>
      /\ count' \in CountType
  BY InvParts, SavingCounts DEF SaveReceipt, Running
<1>2. ASSUME NEW r \in {"saved", "lost"}
      PROVE  /\ s(r) \in AttemptType /\ s(r).place = att[a].place /\ s(r).slot = att[a].slot
             /\ s(r).outcome = att[a].outcome /\ s(r).receipt = r /\ s(r).caller = att[a].caller
             /\ s(r).settled = att[a].settled /\ s(r).claims = att[a].claims
             /\ s(r).permit = att[a].permit /\ s(r).sent = att[a].sent
  BY <1>1 DEF AttemptType
<1> HIDE DEF s
<1>3. /\ att[a].outcome # "open" /\ ~att[a].settled /\ disk.intent[a] \in {"none", "prepared"}
      /\ att[a].caller \notin {"idle", "gone"}
      /\ att[a].receipt = "flood" <=> att[a].outcome = "flood"
      /\ att[a].receipt = "read" => Kind[a] = "read"
      /\ a \in exposed => att[a].receipt = "read"
  BY <1>1, FreshParts, GoneParts DEF Passage, Recorded
<1>4. CASE Saves /\ att' = [att EXCEPT ![a].receipt = "saved"]
           /\ disk' = [disk EXCEPT
                !.intent[a] = IF att[a].receipt = "flood" THEN "none" ELSE "retry",
                !.method[Kind[a]] = NewEpisode(a), !.floor = @ \/ att[a].receipt = "flood"]
           /\ gate' = [gate EXCEPT !.claimed = @ \ {a}]
  <2>1. att' = [att EXCEPT ![a] = s("saved")] /\ att'[a] = s("saved")
    BY <1>1, <1>4 DEF s
  <2>2. /\ gate' \in GateType /\ gate'.fault = gate.fault /\ gate'.claimed = gate.claimed \ {a}
        /\ gate'.cool = gate.cool /\ gate'.hold = gate.hold /\ gate'.clean = gate.clean
        /\ gate'.cut = gate.cut /\ gate'.link = gate.link /\ gate'.failed = gate.failed
    BY <1>1, <1>4 DEF GateType
  <2> DEFINE m == NewEpisode(a)
  <2>3. /\ m \in EpisodeType /\ m.generation = Episode(a).generation + 1 /\ m.claim = "none"
        /\ m.state = "live" /\ m.floor /\ Episode(a).generation \in Nat /\ Kind[a] \in Kinds
    BY <1>1, EpisodeParts DEF NewEpisode, EpisodeType
  <2> HIDE DEF m
  <2>4. /\ disk'.method = [disk.method EXCEPT ![Kind[a]] = m]
        /\ disk'.intent = [disk.intent EXCEPT ![a] = IF att[a].receipt = "flood" THEN "none" ELSE "retry"]
        /\ disk'.floor = (disk.floor \/ att[a].receipt = "flood") /\ disk'.protection = disk.protection
    BY <1>1, <1>4 DEF DiskType, m
  <2>5. /\ disk' \in DiskType /\ \A b \in Attempts \ {a} : disk'.intent[b] = disk.intent[b]
        /\ disk'.intent[a] = IF att[a].receipt = "flood" THEN "none" ELSE "retry"
        /\ disk'.method[Kind[a]] = m
    <3>1. disk'.method \in [Kinds -> EpisodeType] /\ disk'.method[Kind[a]] = m
      BY <1>1, <2>3, <2>4 DEF DiskType
    <3>2. /\ disk'.intent \in IntentTypes
          /\ \A b \in Attempts \ {a} : disk'.intent[b] = disk.intent[b]
          /\ disk'.intent[a] = IF att[a].receipt = "flood" THEN "none" ELSE "retry"
      BY <1>1, <2>4 DEF DiskType, IntentTypes
    <3>3. disk'.floor \in BOOLEAN /\ disk'.protection \in BOOLEAN
      BY <1>1, <2>4 DEF DiskType
    <3>4. disk' = [intent |-> disk'.intent, protection |-> disk'.protection,
                   floor |-> disk'.floor, method |-> disk'.method]
      BY <1>1, <1>4 DEF DiskType
    <3>5. disk' \in DiskType
      BY <3>1, <3>2, <3>3, <3>4, DiskParts
    <3> QED BY <3>1, <3>2, <3>5
  <2>6. Passage(a)'
    BY <1>1, <1>2, <1>3, <2>1, <2>2, <2>5 DEF Passage
  <2>7. Recorded(a)' /\ Over(a)' /\ Fenced(a)'
    <3>1. Recorded(a)' /\ Over(a)'
      BY <1>1, <1>2, <1>3, <2>1, <2>2, <2>5 DEF Recorded, Over, Open
    <3>2. Fenced(a)'
      BY <1>1, <1>2, <1>3, <2>1, <2>2, <2>5 DEF Fenced, Open
    <3> QED BY <3>1, <3>2
  <2>8. Permitted(a)'
    <3>1. Episode(a)' = m /\ a # "none"
      BY <2>5, WireAssumption DEF Episode
    <3>2. att[a].permit \in Nat /\ att[a].sent \in Nat
      BY <1>1 DEF AttemptType
    <3> QED BY <1>1, <1>2, <1>3, <2>1, <2>2, <2>3, <3>1, <3>2 DEF Permitted, Open, Live
  <2>9. \A b \in Attempts : Permitted(b)'
    <3>1. m.generation > Episode(a).generation /\ m.generation >= Episode(a).generation
      BY <2>3
    <3> QED BY <1>2, <2>1, <2>2, <2>3, <2>4, <2>8, <3>1, EpisodePermits
  <2>10. FloodIsKnown'
    BY <1>1, <2>2, InvParts DEF FloodIsKnown
  <2>11. FloodSurvives'
    <3>1. CASE att[a].receipt = "flood"
      BY <2>4, <3>1 DEF FloodSurvives
    <3>2. CASE att[a].receipt # "flood"
      <4>1. \A b \in Attempts : FloodWitness(b) =>
              att'[b] = att[b] /\ disk'.intent[b] = disk.intent[b]
        BY <1>1, <1>3, <2>1, <2>5, <3>2 DEF FloodWitness
      <4> QED BY <1>1, <2>4, <3>2, <4>1, InvParts DEF FloodSurvives, FloodWitness
    <3> QED BY <3>1, <3>2
  <2>12. ProtectedForCause'
    <3>1. \A b \in Attempts : att'[b].settled = att[b].settled
      BY <1>1, <1>2, <2>1
    <3>2. Causes' = Causes
      BY <1>3, <2>5, <3>1 DEF Causes, Blocks
    <3> QED BY <1>1, <2>2, <2>4, <3>2, InvParts DEF ProtectedForCause
  <2>13. NoWrite
    BY <1>1, <1>2, <2>1 DEF NoWrite, AttemptType
  <2>14. Protected' = Protected
    BY <2>2, <2>4 DEF Protected
  <2> QED BY <1>1, <1>2, <2>1, <2>2, <2>5, <2>6, <2>7, <2>9, <2>10, <2>11, <2>12, <2>13, <2>14, OneStep
<1>5. CASE SaveFails /\ att' = [att EXCEPT ![a].receipt = "lost"] /\ disk' = disk
           /\ gate' = [gate EXCEPT !.failed = TRUE]
  <2>1. att' = [att EXCEPT ![a] = s("lost")] /\ att'[a] = s("lost")
    BY <1>1, <1>5 DEF s
  <2>2. /\ gate' \in GateType /\ gate'.fault = gate.fault /\ gate'.claimed = gate.claimed
        /\ gate'.cool = gate.cool /\ gate'.hold = gate.hold /\ gate'.clean = gate.clean
        /\ gate'.cut = gate.cut /\ gate'.link = gate.link /\ gate'.failed
    BY <1>1, <1>5 DEF GateType
  <2>3. Passage(a)'
    BY <1>1, <1>2, <1>3, <1>5, <2>1, <2>2 DEF Passage
  <2>4. Protected'
    BY <2>2 DEF Protected
  <2>5. Recorded(a)' /\ Over(a)' /\ Fenced(a)'
    BY <1>1, <1>2, <1>3, <1>5, <2>1, <2>2, <2>4 DEF Recorded, Over, Fenced, Open
  <2>6. Permitted(a)'
    BY <1>1, <1>2, <1>3, <1>5, <2>1, <2>2 DEF Permitted, Open, Episode, Live
  <2>7. \A b \in Attempts : Permitted(b)'
    BY <1>1, <1>2, <1>5, <2>1, <2>2, <2>6, OthersPermitted
  <2>8. FloodIsKnown'
    BY <1>1, <2>2, InvParts DEF FloodIsKnown
  <2>9. FloodSurvives'
    <3>1. \A b \in Attempts : FloodWitness(b) => FloodWitness(b)'
      BY <1>1, <1>2, <1>3, <1>5, <2>1 DEF FloodWitness, Blocks
    <3> QED BY <1>1, <1>5, <3>1, InvParts DEF FloodSurvives, FloodWitness
  <2>10. ProtectedForCause'
    <3>1. \A b \in Attempts : att'[b].settled = att[b].settled
      BY <1>1, <1>2, <2>1
    <3>2. Causes' = Causes
      BY <1>5, <3>1 DEF Causes, Blocks
    <3> QED BY <1>1, <1>5, <2>2, <3>2, InvParts DEF ProtectedForCause
  <2>11. NoWrite
    BY <1>1, <1>2, <2>1 DEF NoWrite, AttemptType
  <2> QED BY <1>1, <1>2, <1>5, <2>1, <2>2, <2>3, <2>4, <2>5, <2>7, <2>8, <2>9, <2>10, <2>11, OneStep
<1> QED BY <1>4, <1>5 DEF SaveReceipt

\* A request that is settled: what becomes of it is the same whatever is saved.
SettledAs(a, s) ==
  /\ s \in AttemptType /\ s.settled /\ s.caller \notin {"idle", "gone"}
  /\ s.slot => att[a].slot /\ s.place \in {"trial", "packet"}
  /\ s.place = att[a].place \/ (s.place = "none" /\ att[a].place \in {"queue", "pending"})
  /\ s.outcome = att[a].outcome /\ s.receipt = att[a].receipt
  /\ s.claims = att[a].claims /\ s.permit = att[a].permit /\ s.sent = att[a].sent

LEMMA SettledParts ==
  ASSUME Inv, NEW a \in Attempts, Settle(a)
  PROVE  \E s \in AttemptType : SettledAs(a, s) /\ att' = [att EXCEPT ![a] = s] /\ att'[a] = s
<1> DEFINE c == IF att[a].caller \in {"waiting", "draining"} THEN "told" ELSE att[a].caller
           b == att[a].slot /\ att[a].place \in {"trial", "packet"}
           p == IF att[a].place \in {"queue", "pending"} THEN "none" ELSE att[a].place
           s == [att[a] EXCEPT !.settled = TRUE, !.caller = c, !.slot = b, !.place = p]
<1>1. /\ att[a] \in AttemptType /\ Passage(a) /\ ~Open(a) /\ ~att[a].settled
      /\ att \in [Attempts -> AttemptType]
  BY InvParts DEF Settle
<1>2. att[a].caller \notin {"idle", "gone"}
  BY <1>1, FreshParts, GoneParts DEF Passage, Open
<1>3. att' = [att EXCEPT ![a] = s]
  <2>1. s = [att[a] EXCEPT !.settled = TRUE,
                 !.caller = IF @ \in {"waiting", "draining"} THEN "told" ELSE @,
                 !.slot = @ /\ att[a].place \in {"trial", "packet"},
                 !.place = IF @ \in {"queue", "pending"} THEN "none" ELSE @]
    BY <1>1 DEF AttemptType
  <2> QED BY <1>1, <2>1 DEF Settle
<1>4. /\ c \in {"idle", "waiting", "draining", "told", "left", "gone"} /\ c \notin {"idle", "gone"}
      /\ b \in BOOLEAN /\ p \in Places
      /\ p = att[a].place \/ (p = "none" /\ att[a].place \in {"queue", "pending"})
      /\ b => att[a].slot /\ p \in {"trial", "packet"}
  BY <1>1, <1>2 DEF AttemptType, Places
<1> HIDE DEF c, b, p
<1>5. SettledAs(a, s)
  BY <1>1, <1>4, ZenonT(60) DEF SettledAs, AttemptType, Places
<1>6. s \in AttemptType /\ att'[a] = s
  BY <1>1, <1>3, <1>5 DEF SettledAs
<1> HIDE DEF s
<1> QED BY <1>3, <1>5, <1>6

\* What a settlement that drops or keeps the intent, and may end an episode, leaves on record
LEMMA CompletedParts ==
  ASSUME Inv, NEW a \in Attempts, disk.intent[a] \in {"none", "prepared"}
  PROVE  LET i == IF Unknown(a) THEN "unknown" ELSE "none"
             d == Completed(a) IN
         /\ d \in DiskType /\ d.intent[a] = i /\ d.floor = disk.floor
         /\ \A b \in Attempts \ {a} : d.intent[b] = disk.intent[b]
         /\ d.protection = (disk.protection \/ Unknown(a))
         /\ MethodSettled(a) \in EpisodeType
         /\ d.method = [disk.method EXCEPT ![Kind[a]] = MethodSettled(a)]
<1> DEFINE i == IF Unknown(a) THEN "unknown" ELSE "none"
           m == MethodSettled(a)
<1>1. /\ disk \in DiskType /\ Kind[a] \in Kinds /\ Episode(a) \in EpisodeType
  BY InvParts, EpisodeParts
<1>2. m \in EpisodeType
  BY <1>1 DEF MethodSettled, EpisodeType
<1>3. /\ i \in {"none", "unknown"} /\ (i = "unknown") = Unknown(a) /\ Unknown(a) \in BOOLEAN
  BY DEF Unknown
<1>4. Completed(a) = [disk EXCEPT !.method[Kind[a]] = m, !.intent[a] = i,
                                  !.protection = @ \/ i = "unknown"]
  BY DEF Completed
<1> HIDE DEF i, m
<1>5. /\ Completed(a).method = [disk.method EXCEPT ![Kind[a]] = m]
      /\ Completed(a).intent = [disk.intent EXCEPT ![a] = i]
      /\ Completed(a).floor = disk.floor
      /\ Completed(a).protection = (disk.protection \/ i = "unknown")
      /\ Completed(a) = [intent |-> [disk.intent EXCEPT ![a] = i],
                         protection |-> (disk.protection \/ i = "unknown"), floor |-> disk.floor,
                         method |-> [disk.method EXCEPT ![Kind[a]] = m]]
  BY <1>1, <1>4 DEF DiskType
<1>6. /\ [disk.method EXCEPT ![Kind[a]] = m] \in [Kinds -> EpisodeType]
      /\ [disk.intent EXCEPT ![a] = i] \in IntentTypes
      /\ disk.floor \in BOOLEAN /\ (disk.protection \/ i = "unknown") \in BOOLEAN
  BY <1>1, <1>2, <1>3 DEF DiskType, IntentTypes
<1>7. Completed(a) \in DiskType
  <2>1. [intent |-> [disk.intent EXCEPT ![a] = i],
         protection |-> (disk.protection \/ i = "unknown"), floor |-> disk.floor,
         method |-> [disk.method EXCEPT ![Kind[a]] = m]] \in DiskType
    BY <1>6, DiskParts, Zenon
  <2> QED BY <1>5, <2>1, Zenon
<1>8. /\ Completed(a).intent[a] = i
      /\ \A b \in Attempts \ {a} : Completed(a).intent[b] = disk.intent[b]
  BY <1>1, <1>5 DEF DiskType, IntentTypes
<1>9. Completed(a).protection = (disk.protection \/ Unknown(a))
  BY <1>3, <1>5
<1> QED BY <1>2, <1>5, <1>7, <1>8, <1>9 DEF i, m

\* A settlement drops the intent, or keeps it as unknown behind a protection.
LEMMA SettleStep ==
  ASSUME Inv, NEW a \in Attempts, Settle(a)
  PROVE  Inv' /\ NoWrite
<1>1. /\ att[a] \in AttemptType /\ gate \in GateType /\ disk \in DiskType /\ count \in CountType
      /\ Passage(a) /\ Recorded(a) /\ Over(a) /\ Permitted(a) /\ Fenced(a)
      /\ att \in [Attempts -> AttemptType] /\ exposed \in SUBSET Attempts /\ penalty \in BOOLEAN
      /\ att[a].outcome # "open" /\ ~att[a].settled /\ att[a].receipt \notin {"flood", "read"}
      /\ UNCHANGED <<exposed, penalty>> /\ count' \in CountType
  BY InvParts, SavingCounts DEF Settle, Running, Open
<1>2. PICK s \in AttemptType :
        SettledAs(a, s) /\ att' = [att EXCEPT ![a] = s] /\ att'[a] = s
  BY SettledParts
<1>3. /\ att[a].caller \notin {"idle", "gone"} /\ ~Open(a)
      /\ att[a].receipt # "saved" => disk.intent[a] \in {"none", "prepared"}
  BY <1>1, FreshParts, GoneParts DEF Passage, Open
<1>4. NoWrite
  BY <1>1, <1>2 DEF NoWrite, AttemptType, SettledAs
<1>5. \A b \in Attempts : att[b].settled => att'[b].settled
  BY <1>1, <1>2 DEF SettledAs
<1>6. \A b \in Attempts : FloodWitness(b) => (att[b].receipt = "lost" \/ b # a)
  BY <1>1, <1>3 DEF FloodWitness
<1>7. s.slot => att[a].slot
  BY <1>2 DEF SettledAs
<1>8. CASE att[a].receipt = "none" /\ disk' = Completed(a)
           /\ gate' = [gate EXCEPT !.claimed = @ \ {a}, !.hold = @ \/ Unknown(a)]
  <2>1. Unknown(a) \in BOOLEAN
    BY DEF Unknown
  <2>2. /\ gate' \in GateType /\ gate'.fault = gate.fault /\ gate'.claimed = gate.claimed \ {a}
        /\ gate'.cool = gate.cool /\ gate'.hold = (gate.hold \/ Unknown(a))
        /\ gate'.clean = gate.clean
        /\ gate'.cut = gate.cut /\ gate'.link = gate.link /\ gate'.failed = gate.failed
    BY <1>1, <1>8, <2>1 DEF GateType
  <2>3. /\ disk' \in DiskType /\ disk'.intent[a] = IF Unknown(a) THEN "unknown" ELSE "none"
        /\ disk'.floor = disk.floor
        /\ \A b \in Attempts \ {a} : disk'.intent[b] = disk.intent[b]
        /\ disk'.protection = (disk.protection \/ Unknown(a))
        /\ MethodSettled(a) \in EpisodeType
        /\ disk'.method = [disk.method EXCEPT ![Kind[a]] = MethodSettled(a)]
    BY <1>3, <1>8, CompletedParts
  <2>4. a \in exposed => Unknown(a)
    BY <1>1, <1>3, <1>8 DEF Recorded, Unknown, Known
  <2>5. Passage(a)'
    BY <1>1, <1>2, <1>3, <1>8, <2>2, <2>3 DEF Passage, SettledAs
  <2>6. Recorded(a)' /\ Over(a)'
    BY <1>1, <1>2, <1>3, <1>8, <2>2, <2>3, <2>4 DEF Recorded, Over, Open, SettledAs
  <2>7. Protected => Protected'
    BY <2>2, <2>3 DEF Protected
  <2>8. Fenced(a)'
    BY <1>1, <2>3, <2>4 DEF Fenced, Protected
  <2>9. /\ Kind[a] \in Kinds /\ Episode(a) = disk.method[Kind[a]] /\ Episode(a) \in EpisodeType
        /\ Episode(a).generation \in Nat /\ Episode(a)' = MethodSettled(a) /\ a # "none"
    BY <1>1, <2>3, EpisodeParts, WireAssumption DEF Episode, DiskType
  <2>10. /\ MethodSettled(a).generation = Episode(a).generation
         /\ MethodSettled(a).claim # a
         /\ MethodSettled(a) = Episode(a) \/ (MethodSettled(a).claim = "none" /\ Episode(a).claim = a)
         /\ MethodSettled(a).state = "live" => Live(a)
    BY <2>9 DEF MethodSettled, EpisodeType, Live
  <2>11. Permitted(a)'
    BY <1>1, <1>2, <1>3, <1>8, <2>9, <2>10 DEF Permitted, Open, SettledAs
  <2>12. \A b \in Attempts : Permitted(b)'
    <3>1. /\ MethodSettled(a).generation >= Episode(a).generation
          /\ ~(MethodSettled(a).generation > Episode(a).generation)
      BY <2>9, <2>10
    <3> QED BY <1>2, <2>2, <2>3, <2>10, <2>11, <3>1, EpisodePermits
  <2>13. FloodIsKnown'
    BY <1>1, <2>2, InvParts DEF FloodIsKnown
  <2>14. FloodSurvives'
    <3>1. \A b \in Attempts : FloodWitness(b) => att'[b] = att[b] /\ disk'.intent[b] = disk.intent[b]
      BY <1>1, <1>2, <1>6, <1>8, <2>3
    <3> QED BY <1>1, <2>3, <3>1, InvParts DEF FloodSurvives, FloodWitness
  <2>15. ProtectedForCause'
    <3>1. Causes \subseteq Causes'
      BY <1>1, <1>5, <2>3 DEF Causes, Blocks
    <3>2. Unknown(a) => a \in Causes'
      BY <1>2, <2>3 DEF Causes, Blocks, SettledAs
    <3> QED BY <1>1, <2>2, <2>3, <3>1, <3>2, InvParts DEF ProtectedForCause
  <2> QED BY <1>1, <1>2, <1>4, <1>7, <2>2, <2>3, <2>5, <2>6, <2>7, <2>8, <2>12, <2>13, <2>14,
             <2>15, OneStep
<1>9. CASE /\ att[a].receipt = "none" /\ disk' = disk
           /\ gate' = [gate EXCEPT !.failed = TRUE, !.fault = TRUE, !.hold = @ \/ Unknown(a)]
  <2>1. Unknown(a) \in BOOLEAN
    BY DEF Unknown
  <2>2. /\ gate' \in GateType /\ gate'.fault /\ gate'.claimed = gate.claimed
        /\ gate'.cool = gate.cool /\ (gate.hold => gate'.hold) /\ gate'.clean = gate.clean
        /\ gate'.cut = gate.cut /\ gate'.link = gate.link /\ gate'.failed
    BY <1>1, <1>9, <2>1 DEF GateType
  <2>3. Passage(a)'
    BY <1>1, <1>2, <1>3, <1>9, <2>2 DEF Passage, SettledAs
  <2>4. Recorded(a)' /\ Over(a)' /\ Fenced(a)'
    BY <1>1, <1>2, <1>3, <1>9, <2>2 DEF Recorded, Over, Fenced, Open, SettledAs
  <2>5. Permitted(a)'
    BY <1>1, <1>2, <1>3, <1>9, <2>2 DEF Permitted, Open, Episode, Live, SettledAs
  <2>6. \A b \in Attempts : Permitted(b)'
    BY <1>1, <1>2, <1>9, <2>2, <2>5, OthersPermitted
  <2>7. FloodIsKnown'
    BY <1>1, <2>2, InvParts DEF FloodIsKnown
  <2>8. FloodSurvives'
    <3>1. \A b \in Attempts : FloodWitness(b) => att'[b] = att[b]
      BY <1>1, <1>2, <1>6, <1>9
    <3> QED BY <1>1, <1>9, <3>1, InvParts DEF FloodSurvives, FloodWitness
  <2>9. ProtectedForCause'
    <3>1. Causes \subseteq Causes'
      BY <1>5, <1>9 DEF Causes
    <3> QED BY <1>1, <1>9, <2>2, <3>1, InvParts DEF ProtectedForCause
  <2>10. Protected'
    BY <2>2 DEF Protected
  <2> QED BY <1>1, <1>2, <1>4, <1>7, <1>9, <2>2, <2>3, <2>4, <2>6, <2>7, <2>8, <2>9, <2>10, OneStep
<1>10. CASE /\ att[a].receipt \in {"saved", "lost"} /\ disk' = disk
            /\ gate' = gate \/ (att[a].receipt = "lost" /\ gate' = [gate EXCEPT !.fault = TRUE])
  <2>1. /\ gate' \in GateType /\ (gate.fault => gate'.fault) /\ gate'.claimed = gate.claimed
        /\ gate'.cool = gate.cool /\ gate'.hold = gate.hold /\ gate'.clean = gate.clean
        /\ gate'.cut = gate.cut /\ gate'.link = gate.link /\ gate'.failed = gate.failed
    BY <1>1, <1>10 DEF GateType
  <2>2. Protected' = Protected
    BY <1>10, <2>1 DEF Protected
  <2>3. Passage(a)'
    BY <1>1, <1>2, <1>3, <1>10, <2>1 DEF Passage, SettledAs
  <2>4. Recorded(a)' /\ Over(a)'
    BY <1>1, <1>2, <1>3, <1>10, <2>1 DEF Recorded, Over, Open, SettledAs
  <2>5. Fenced(a)'
    BY <1>1, <1>2, <1>3, <1>10, <2>1, <2>2 DEF Fenced, Open, SettledAs
  <2>6. Permitted(a)'
    <3>1. att[a].receipt = "lost" => gate.failed
      BY <1>1 DEF Passage
    <3> QED BY <1>1, <1>2, <1>3, <1>10, <2>1, <3>1 DEF Permitted, Open, Episode, Live, SettledAs
  <2>7. \A b \in Attempts : Permitted(b)'
    BY <1>1, <1>2, <1>10, <2>1, <2>6, OthersPermitted
  <2>8. FloodIsKnown'
    BY <1>1, <2>1, InvParts DEF FloodIsKnown
  <2>9. FloodSurvives'
    <3>1. \A b \in Attempts : FloodWitness(b) => FloodWitness(b)'
      BY <1>1, <1>2, <1>3, <1>10 DEF FloodWitness, SettledAs, Blocks
    <3> QED BY <1>1, <1>10, <3>1, InvParts DEF FloodSurvives, FloodWitness
  <2>10. ProtectedForCause'
    <3>1. Causes \subseteq Causes'
      BY <1>5, <1>10 DEF Causes
    <3> QED BY <1>1, <1>10, <2>1, <3>1, InvParts DEF ProtectedForCause
  <2> QED BY <1>1, <1>2, <1>4, <1>7, <1>10, <2>1, <2>2, <2>3, <2>4, <2>5, <2>7, <2>8, <2>9, <2>10,
             OneStep
<1>11. \/ att[a].receipt = "none" /\ disk' = Completed(a)
           /\ gate' = [gate EXCEPT !.claimed = @ \ {a}, !.hold = @ \/ Unknown(a)]
       \/ /\ att[a].receipt = "none" /\ disk' = disk
          /\ gate' = [gate EXCEPT !.failed = TRUE, !.fault = TRUE, !.hold = @ \/ Unknown(a)]
       \/ /\ att[a].receipt \in {"saved", "lost"} /\ disk' = disk
          /\ gate' = gate \/ (att[a].receipt = "lost" /\ gate' = [gate EXCEPT !.fault = TRUE])
  BY DEF Settle
<1> QED BY <1>8, <1>9, <1>10, <1>11

-----------------------------------------------------------------------------
(* The connection *)

\* A request stays as it is, or is queued again, or loses its place with its outcome.
Requeued(b) ==
  \/ att'[b] = att[b]
  \/ /\ att[b].place # "none" /\ att'[b].place = (IF Open(b) THEN "queue" ELSE "none")
     /\ att'[b].slot => att[b].slot /\ ~att[b].settled
     /\ att'[b].caller = att[b].caller /\ att'[b].settled = att[b].settled
     /\ att'[b].outcome = att[b].outcome /\ att'[b].receipt = att[b].receipt
     /\ att'[b].claims = att[b].claims /\ att'[b].permit = att[b].permit
     /\ att'[b].sent = att[b].sent

\* What is true of a request survives the loss and the return of the connection.
LEMMA LinkChange ==
  ASSUME Inv, NEW b \in Attempts, Requeued(b),
         gate.link \in {"up", "down"}, gate'.link \in {"up", "down"}, gate' \in GateType,
         gate'.failed = gate.failed, gate.fault => gate'.fault, gate'.hold = gate.hold,
         gate'.cut = gate.cut, b \in gate'.claimed <=> b \in gate.claimed,
         disk' = disk, b \in exposed' => b \in exposed
  PROVE  Each(b)'
<1>1. /\ att[b] \in AttemptType /\ gate \in GateType /\ disk \in DiskType
      /\ Passage(b) /\ Recorded(b) /\ Over(b) /\ Permitted(b) /\ Fenced(b)
  BY InvParts
<1>2. Protected' = Protected
  BY DEF Protected
<1>3. CASE att'[b] = att[b]
  <2>1. Passage(b)' /\ Recorded(b)' /\ Permitted(b)'
    BY <1>1, <1>3, PassageStays, RecordedStays, PermittedStays
  <2>2. Over(b)' /\ Fenced(b)'
    BY <1>1, <1>2, <1>3 DEF Over, Fenced, Open
  <2> QED BY <2>1, <2>2 DEF Each
<1>4. CASE att'[b] # att[b]
  <2>1. att[b].caller \notin {"idle", "gone"} /\ att[b].place # "none"
    BY <1>4, OnTheWay DEF Requeued
  <2>2. /\ att'[b].place = (IF Open(b) THEN "queue" ELSE "none")
        /\ att'[b].slot => att[b].slot /\ ~att[b].settled
        /\ att'[b].caller = att[b].caller /\ att'[b].settled = att[b].settled
        /\ att'[b].outcome = att[b].outcome /\ att'[b].receipt = att[b].receipt
        /\ att'[b].claims = att[b].claims /\ att'[b].permit = att[b].permit
        /\ att'[b].sent = att[b].sent
    BY <1>4 DEF Requeued
  <2>3. Passage(b)'
    BY <1>1, <2>1, <2>2 DEF Passage, Open
  <2>4. Recorded(b)' /\ Over(b)'
    BY <1>1, <2>1, <2>2 DEF Recorded, Over, Open
  <2>5. Fenced(b)'
    BY <1>1, <1>2, <2>1, <2>2 DEF Fenced, Open
  <2>6. Permitted(b)'
    BY <1>1, <2>1, <2>2 DEF Permitted, Open, Episode, Live
  <2> QED BY <2>3, <2>4, <2>5, <2>6 DEF Each
<1> QED BY <1>3, <1>4

\* What is left alone of a request that may be queued again
LEMMA RequeuedParts ==
  ASSUME NEW b \in Attempts, Requeued(b)
  PROVE  /\ att'[b].slot => att[b].slot
         /\ att'[b].settled = att[b].settled /\ att'[b].caller = att[b].caller
         /\ att'[b].outcome = att[b].outcome /\ att'[b].receipt = att[b].receipt
         /\ att'[b].claims = att[b].claims
BY DEF Requeued

\* The connection is lost or comes back, and nothing else happens.
LEMMA LinkStep ==
  ASSUME Inv, \A b \in Attempts : Requeued(b), att' \in [Attempts -> AttemptType],
         gate.link \in {"up", "down"}, NEW l \in {"up", "down"},
         gate' = [gate EXCEPT !.link = l, !.token = @ + 1],
         count' \in CountType, UNCHANGED <<disk, exposed, penalty>>
  PROVE  Inv' /\ NoWrite
<1>1. /\ gate \in GateType /\ disk \in DiskType /\ exposed \in SUBSET Attempts
      /\ penalty \in BOOLEAN /\ att \in [Attempts -> AttemptType]
  BY InvParts
<1>2. /\ gate' \in GateType /\ gate'.fault = gate.fault /\ gate'.claimed = gate.claimed
      /\ gate'.cool = gate.cool /\ gate'.hold = gate.hold /\ gate'.clean = gate.clean
      /\ gate'.cut = gate.cut /\ gate'.link = l /\ gate'.failed = gate.failed
  <2> DEFINE t == gate.token + 1
  <2>1. t \in Nat /\ gate' = [gate EXCEPT !.link = l, !.token = t]
    BY <1>1 DEF GateType
  <2> HIDE DEF t
  <2> QED BY <1>1, <2>1 DEF GateType
<1>3. TypeOK'
  BY <1>1, <1>2, NextTypeParts
<1>4. SlotsBounded' /\ NoWrite
  <2>1. SlotsBounded'
    BY InvParts, SlotsShrink, RequeuedParts
  <2>2. NoWrite
    BY <1>1, RequeuedParts DEF NoWrite, AttemptType
  <2> QED BY <2>1, <2>2
<1>5. \A b \in Attempts : Each(b)'
  BY <1>2, LinkChange
<1>6. FloodIsKnown' /\ FloodSurvives' /\ ProtectedForCause'
  <2>1. \A b \in Attempts :
           /\ Blocks(disk.intent[b]) => Blocks(disk'.intent[b])
           /\ att[b].settled => att'[b].settled
           /\ att[b].caller = "gone" => att'[b].caller = "gone"
           /\ att[b].outcome = "flood" /\ att[b].receipt \in {"flood", "lost"} =>
                att'[b].outcome = "flood" /\ att'[b].receipt \in {"flood", "lost"}
    BY RequeuedParts DEF Blocks
  <2>2. {gate.link, gate'.link} \subseteq {"up", "down"}
    BY <1>2
  <2> QED BY <1>2, <2>1, <2>2, InvParts, ReasonsStay
<1> QED BY <1>3, <1>4, <1>5, <1>6 DEF Inv

\* The connection is lost.
LEMMA DropStep ==
  ASSUME Inv, Drop
  PROVE  Inv' /\ NoWrite
<1>1. /\ att \in [Attempts -> AttemptType] /\ count \in CountType
      /\ att' = [b \in Attempts |-> IF att[b].place = "packet" THEN Deferred(b) ELSE att[b]]
      /\ gate.link = "up" /\ UNCHANGED <<disk, exposed, penalty>>
      /\ gate' = [gate EXCEPT !.link = "down", !.token = @ + 1]
      /\ count' = [count EXCEPT !.drop = @ + 1] /\ count.drop < MaxDrop
  BY InvParts DEF Drop, Emptied
<1>2. count' \in CountType
  BY <1>1, WireAssumption DEF CountType
<1>3. att' \in [Attempts -> AttemptType]
  BY <1>1, DeferredParts
<1>4. ASSUME NEW b \in Attempts PROVE Requeued(b)
  <2>1. CASE att[b].place = "packet"
    BY <1>1, <2>1, DeferredParts DEF Requeued
  <2>2. CASE att[b].place # "packet"
    BY <1>1, <2>2 DEF Requeued
  <2> QED BY <2>1, <2>2
<1> QED BY <1>1, <1>2, <1>3, <1>4, LinkStep

\* The connection comes back and what was pending is queued again.
LEMMA ReconnectStep ==
  ASSUME Inv, Reconnect
  PROVE  Inv' /\ NoWrite
<1>1. /\ att \in [Attempts -> AttemptType] /\ count \in CountType
      /\ att' = [b \in Attempts |-> IF att[b].place = "pending"
                   THEN [att[b] EXCEPT !.place = IF Open(b) THEN "queue" ELSE "none"]
                   ELSE att[b]]
      /\ gate.link = "down" /\ UNCHANGED <<disk, exposed, penalty>>
      /\ gate' = [gate EXCEPT !.link = "up", !.token = @ + 1] /\ count' = count
  BY InvParts DEF Reconnect
<1>2. ASSUME NEW b \in Attempts
      PROVE  att'[b] \in AttemptType /\ Requeued(b)
  <2>1. att[b] \in AttemptType /\ Passage(b)
    BY InvParts
  <2>2. CASE att[b].place = "pending"
    <3>1. att[b].slot => ~att[b].settled
      BY <2>1, <2>2 DEF Passage
    <3> QED BY <1>1, <2>1, <2>2, <3>1 DEF Requeued, AttemptType
  <2>3. CASE att[b].place # "pending"
    BY <1>1, <2>1, <2>3 DEF Requeued
  <2> QED BY <2>2, <2>3
<1>3. att' \in [Attempts -> AttemptType]
  BY <1>1, <1>2
<1> QED BY <1>1, <1>2, <1>3, LinkStep

\* The writer fails under a valid claim: the account is fenced at once.
LEMMA WriteFailsStep ==
  ASSUME Inv, NEW a \in Attempts, WriteFails(a)
  PROVE  Inv' /\ WriteInCalm /\ FencedWrite
<1> DEFINE w == Written(a)
           s == [w EXCEPT !.outcome = "lost"]
           t == gate.token + 1
<1>1. /\ att[a] \in AttemptType /\ gate \in GateType /\ disk \in DiskType /\ count \in CountType
      /\ Passage(a) /\ Recorded(a) /\ Over(a) /\ Permitted(a)
      /\ att \in [Attempts -> AttemptType] /\ exposed \in SUBSET Attempts /\ penalty \in BOOLEAN
      /\ att[a].place = "packet" /\ att[a].caller \notin {"idle", "gone"} /\ Open(a)
      /\ Claimable(a) /\ gate.link = "up" /\ UNCHANGED <<disk, penalty>>
      /\ exposed' = exposed \cup {a}
      /\ count' = [count EXCEPT !.drop = @ + 1] /\ count.drop < MaxDrop
  BY InvParts, OnTheWay DEF WriteFails
<1>2. /\ att' = Emptied([att EXCEPT ![a] = s])
      /\ t \in Nat /\ gate' = [gate EXCEPT !.claimed = @ \cup {a}, !.fault = TRUE,
                                           !.link = "down", !.token = t]
  BY <1>1 DEF WriteFails, GateType
<1>3. /\ s \in AttemptType /\ s.slot = att[a].slot /\ s.place = "pending" /\ s.outcome = "lost"
      /\ s.receipt = att[a].receipt /\ s.caller = att[a].caller
      /\ s.settled = att[a].settled /\ s.claims = att[a].claims + 1 /\ att[a].claims \in Nat
      /\ s.permit = att[a].permit /\ s.sent = att[a].permit
  <2>1. /\ w \in AttemptType /\ w.slot = att[a].slot /\ w.place = "pending"
        /\ w.receipt = att[a].receipt /\ w.caller = att[a].caller
        /\ w.settled = att[a].settled /\ w.claims = att[a].claims + 1 /\ att[a].claims \in Nat
        /\ w.permit = att[a].permit /\ w.sent = att[a].permit
    BY <1>1, WrittenParts DEF AttemptType
  <2> HIDE DEF w
  <2> QED BY <2>1 DEF AttemptType, Outcomes
<1> HIDE DEF s, t
<1>4. /\ att'[a] = s /\ att' \in [Attempts -> AttemptType]
      /\ \A b \in Attempts \ {a} :
           att'[b] = IF att[b].place = "packet" THEN Deferred(b) ELSE att[b]
  <2> DEFINE h == [att EXCEPT ![a] = s]
  <2>1. h \in [Attempts -> AttemptType] /\ h[a] = s /\ \A b \in Attempts \ {a} : h[b] = att[b]
    BY <1>1, <1>3
  <2>2. att' = [b \in Attempts |-> IF h[b].place = "packet" THEN Deferred(b) ELSE h[b]]
    BY <1>2 DEF Emptied
  <2> HIDE DEF h
  <2> QED BY <1>3, <2>1, <2>2, DeferredParts
<1>5. /\ gate' \in GateType /\ gate'.fault /\ gate'.claimed = gate.claimed \cup {a}
      /\ gate'.cool = gate.cool /\ gate'.hold = gate.hold /\ gate'.clean = gate.clean
      /\ gate'.cut = gate.cut /\ gate'.link = "down" /\ gate'.failed = gate.failed
  BY <1>1, <1>2 DEF GateType
<1>6. ASSUME NEW b \in Attempts \ {a} PROVE Requeued(b)
  <2>1. CASE att[b].place = "packet"
    BY <1>4, <2>1, DeferredParts DEF Requeued
  <2>2. CASE att[b].place # "packet"
    BY <1>4, <2>2 DEF Requeued
  <2> QED BY <2>1, <2>2
<1>7. \A b \in Attempts \ {a} : Each(b)'
  BY <1>1, <1>5, <1>6, LinkChange
<1>8. Each(a)'
  <2>1. disk.intent[a] # "none" /\ ~att[a].settled /\ att[a].receipt = "none"
    BY <1>1 DEF Passage, Open
  <2>2. Passage(a)'
    BY <1>1, <1>3, <1>4, <1>5, <2>1 DEF Passage, Open
  <2>3. Recorded(a)' /\ Over(a)' /\ Fenced(a)'
    BY <1>1, <1>3, <1>4, <1>5, <2>1 DEF Recorded, Over, Fenced, Open
  <2>4. Permitted(a)'
    BY <1>1, <1>3, <1>4, <1>5, <2>1 DEF Permitted, Open, Episode, Live
  <2> QED BY <2>2, <2>3, <2>4 DEF Each
<1>9. TypeOK'
  <2>1. count' \in CountType
    BY <1>1, WireAssumption DEF CountType
  <2> QED BY <1>1, <1>4, <1>5, <2>1, NextTypeParts
<1>10. \A b \in Attempts :
         /\ att'[b].slot => att[b].slot
         /\ att'[b].settled = att[b].settled /\ att'[b].caller = att[b].caller
         /\ att[b].outcome = "flood" => att'[b].outcome = "flood"
         /\ att'[b].receipt = att[b].receipt
         /\ b # a => att'[b].claims = att[b].claims
  BY <1>1, <1>3, <1>4, <1>6, RequeuedParts DEF Open
<1>11. SlotsBounded'
  BY <1>10, InvParts, SlotsShrink
<1>12. FloodIsKnown' /\ FloodSurvives' /\ ProtectedForCause'
  <2>1. \A b \in Attempts :
           /\ Blocks(disk.intent[b]) => Blocks(disk'.intent[b])
           /\ att[b].settled => att'[b].settled
           /\ att[b].caller = "gone" => att'[b].caller = "gone"
           /\ att[b].outcome = "flood" /\ att[b].receipt \in {"flood", "lost"} =>
                att'[b].outcome = "flood" /\ att'[b].receipt \in {"flood", "lost"}
    BY <1>1, <1>10 DEF Blocks
  <2>2. {gate.link, gate'.link} \subseteq {"up", "down"}
    BY <1>1, <1>5
  <2> QED BY <1>1, <1>5, <2>1, <2>2, InvParts, ReasonsStay
<1>13. WriteInCalm /\ FencedWrite
  <2>1. \A b \in Attempts : att'[b].claims > att[b].claims => b = a
    BY <1>1, <1>10 DEF AttemptType
  <2> QED BY <1>1, <2>1, ClaimIsFenced
<1>14. \A b \in Attempts : Each(b)'
  BY <1>7, <1>8
<1> QED BY <1>9, <1>11, <1>12, <1>13, <1>14 DEF Inv

\* A request that the end of a connection ends, or that was never sent
EndedAs(b, e) ==
  \/ att[b].caller = "idle" /\ att'[b] = att[b]
  \/ /\ att[b].caller # "idle" /\ att'[b].caller = att[b].caller
     /\ att'[b].place = "none" /\ (att'[b].slot => att[b].slot /\ att[b].place \notin {"trial", "packet"})
     /\ att'[b].outcome = (IF Open(b) THEN e ELSE att[b].outcome)
     /\ att'[b].receipt = att[b].receipt /\ att'[b].settled = att[b].settled
     /\ att'[b].claims = att[b].claims /\ att'[b].permit = att[b].permit
     /\ att'[b].sent = att[b].sent
     /\ att[b].caller = "gone" => att'[b] = att[b]

\* The end of a connection ends every request it owned.
LEMMA EndedParts ==
  ASSUME Inv, NEW e \in {"lost", "cut"}, att' = Ended(e)
  PROVE  /\ att' \in [Attempts -> AttemptType] /\ \A b \in Attempts : EndedAs(b, e)
<1>1. att \in [Attempts -> AttemptType]
  BY InvParts
<1>2. ASSUME NEW b \in Attempts PROVE att'[b] \in AttemptType /\ EndedAs(b, e)
  <2>1. att[b] \in AttemptType /\ Passage(b)
    BY InvParts
  <2>2. CASE att[b].caller = "idle"
    BY <1>1, <2>1, <2>2 DEF Ended, EndedAs
  <2>3. CASE att[b].caller # "idle"
    <3> DEFINE k == att[b].slot /\ att[b].place \notin {"trial", "packet"}
               o == IF Open(b) THEN e ELSE att[b].outcome
               s == [att[b] EXCEPT !.place = "none", !.slot = k, !.outcome = o]
    <3>1. att'[b] = s
      <4>1. s = [att[b] EXCEPT !.place = "none",
                      !.slot = @ /\ att[b].place \notin {"trial", "packet"},
                      !.outcome = IF @ = "open" THEN e ELSE @]
        BY <2>1 DEF AttemptType, Open
      <4> QED BY <2>3, <4>1 DEF Ended
    <3>2. k \in BOOLEAN /\ o \in Outcomes
      BY <2>1 DEF AttemptType, Outcomes
    <3>3. k => att[b].slot /\ att[b].place \notin {"trial", "packet"}
      OBVIOUS
    <3>4. o = (IF Open(b) THEN e ELSE att[b].outcome)
      OBVIOUS
    <3> HIDE DEF k, o
    <3>5. /\ s \in AttemptType /\ s.place = "none" /\ s.slot = k /\ s.outcome = o
          /\ s.caller = att[b].caller
          /\ s.receipt = att[b].receipt /\ s.settled = att[b].settled /\ s.claims = att[b].claims
          /\ s.permit = att[b].permit /\ s.sent = att[b].sent
      BY <2>1, <3>2 DEF AttemptType
    <3>6. att[b].caller = "gone" => s = att[b]
      <4>1. CASE att[b].caller = "gone"
        <5>1. att[b].place = "none" /\ ~att[b].slot /\ att[b].outcome = "gone"
          BY <2>1, <4>1, GoneParts DEF Passage
        <5>2. k = att[b].slot /\ o = att[b].outcome
          BY <2>1, <3>2, <3>3, <3>4, <5>1 DEF AttemptType, Open
        <5> QED BY <2>1, <5>1, <5>2 DEF AttemptType
      <4> QED BY <4>1
    <3> HIDE DEF s
    <3> QED BY <2>3, <3>1, <3>3, <3>4, <3>5, <3>6 DEF EndedAs
  <2> QED BY <2>2, <2>3
<1>3. att' \in [Attempts -> AttemptType]
  BY <1>2 DEF Ended
<1> QED BY <1>2, <1>3

\* The connection is over: what was on the way is ended and fenced.
LEMMA EndStep ==
  ASSUME Inv, NEW e \in {"lost", "cut"}, att' = Ended(e), gate.link \in {"up", "down"},
         gate' \in GateType, gate'.link \in {"failed", "closing"},
         gate'.failed = gate.failed, gate'.hold = gate.hold, gate'.cool = gate.cool,
         gate'.claimed = gate.claimed,
         \A b \in gate'.cut : Kind[b] = "read" /\ Open(b) /\ att[b].caller # "idle" /\ e = "cut",
         gate'.cut # {} => gate'.link = "closing",
         gate'.clean => ~gate.hold /\ ~disk.protection /\ gate'.cut # {},
         gate'.cut # {} /\ ~gate'.clean => gate.hold \/ disk.protection,
         UNCHANGED <<disk, count, exposed, penalty>>
  PROVE  Inv' /\ NoWrite
<1>1. /\ gate \in GateType /\ disk \in DiskType /\ exposed \in SUBSET Attempts /\ count \in CountType
      /\ penalty \in BOOLEAN /\ att \in [Attempts -> AttemptType]
      /\ att' \in [Attempts -> AttemptType] /\ \A b \in Attempts : EndedAs(b, e)
  BY InvParts, EndedParts
<1>2. TypeOK'
  BY <1>1, NextTypeParts
<1>3. \A b \in Attempts :
        /\ att'[b].slot => att[b].slot
        /\ att'[b].settled = att[b].settled /\ att'[b].caller = att[b].caller
        /\ att'[b].claims = att[b].claims /\ att'[b].receipt = att[b].receipt
        /\ att[b].outcome = "flood" => att'[b].outcome = "flood"
  BY <1>1 DEF EndedAs, Open
<1>4. SlotsBounded' /\ NoWrite
  <2>1. SlotsBounded'
    BY <1>3, InvParts, SlotsShrink
  <2>2. NoWrite
    BY <1>1, <1>3 DEF NoWrite, AttemptType
  <2> QED BY <2>1, <2>2
<1>5. ASSUME NEW b \in Attempts PROVE Each(b)'
  <2>1. /\ att[b] \in AttemptType /\ Passage(b) /\ Recorded(b) /\ Over(b) /\ Permitted(b)
        /\ EndedAs(b, e)
    BY <1>1, InvParts
  <2>2. CASE att[b].caller = "idle"
    <3>1. att'[b] = att[b] /\ att[b] = Fresh /\ att[b].place = "none"
      BY <2>1, <2>2, FreshParts DEF EndedAs, Passage
    <3>2. Passage(b)' /\ Recorded(b)' /\ Permitted(b)'
      BY <1>1, <2>1, <3>1, PassageStays, RecordedStays, PermittedStays
    <3>3. Over(b)' /\ Fenced(b)'
      BY <2>1, <2>2, <3>1 DEF Over, Fenced, Open
    <3> QED BY <3>2, <3>3 DEF Each
  <2>3. CASE att[b].caller # "idle"
    <3>1. /\ att'[b].caller = att[b].caller /\ att'[b].place = "none"
          /\ att'[b].slot => att[b].slot /\ att[b].place \notin {"trial", "packet"}
          /\ att'[b].outcome = (IF Open(b) THEN e ELSE att[b].outcome)
          /\ att'[b].receipt = att[b].receipt /\ att'[b].settled = att[b].settled
          /\ att'[b].claims = att[b].claims /\ att'[b].permit = att[b].permit
          /\ att'[b].sent = att[b].sent
          /\ att[b].caller = "gone" => att'[b] = att[b]
      BY <2>1, <2>3 DEF EndedAs
    <3>2. Passage(b)'
      <4>1. Gone' = Gone
        BY DEF Gone, Fresh
      <4> QED BY <2>1, <2>3, <3>1, <4>1 DEF Passage, Open
    <3>3. Recorded(b)' /\ Over(b)' /\ Fenced(b)'
      BY <2>1, <2>3, <3>1 DEF Recorded, Over, Fenced, Open
    <3>4. Permitted(b)'
      BY <2>1, <2>3, <3>1 DEF Permitted, Open, Episode, Live
    <3> QED BY <3>2, <3>3, <3>4 DEF Each
  <2> QED BY <2>2, <2>3
<1>6. FloodIsKnown'
  BY <1>1, InvParts DEF FloodIsKnown
<1>7. FloodSurvives'
  <2>1. \A b \in Attempts : FloodWitness(b) => FloodWitness(b)'
    BY <1>3 DEF FloodWitness, Blocks
  <2> QED BY <1>1, <2>1, InvParts DEF FloodSurvives, FloodWitness
<1>8. ProtectedForCause'
  <2>1. Causes' = Causes
    BY <1>3 DEF Causes, Blocks
  <2>2. Causes \ gate'.cut = Causes
    BY InvParts DEF Causes, Passage, Open
  <2> QED BY <1>1, <2>1, <2>2, InvParts DEF ProtectedForCause
<1> QED BY <1>2, <1>4, <1>5, <1>6, <1>7, <1>8 DEF Inv

\* The vendor gives the connection up.
LEMMA GiveUpStep ==
  ASSUME Inv, GiveUp
  PROVE  Inv' /\ NoWrite
<1> DEFINE t == gate.token + 1
<1>1. /\ gate \in GateType /\ gate.link = "down" /\ t \in Nat /\ att' = Ended("lost")
      /\ gate' = [gate EXCEPT !.link = "failed", !.token = t, !.fault = TRUE]
      /\ UNCHANGED <<disk, count, exposed, penalty>>
  BY InvParts DEF GiveUp, GateType
<1> HIDE DEF t
<1>2. /\ gate' \in GateType /\ gate'.link = "failed" /\ gate'.cut = gate.cut
      /\ gate'.failed = gate.failed /\ gate'.hold = gate.hold /\ gate'.cool = gate.cool
      /\ gate'.claimed = gate.claimed /\ gate'.clean = gate.clean
  BY <1>1 DEF GateType
<1>3. gate.cut = {}
  BY <1>1, InvParts DEF Over, GateType
<1>4. ~gate.clean
  BY <1>1, InvParts DEF ProtectedForCause
<1> QED BY <1>1, <1>2, <1>3, <1>4, EndStep

\* The shutdown cuts off what is written and notes the reads among it.
LEMMA CloseStep ==
  ASSUME Inv, Close
  PROVE  Inv' /\ NoWrite
<1> DEFINE t == gate.token + 1
           cut == {a \in WrittenOpen : Kind[a] = "read"}
           clean == cut # {} /\ ~gate.hold /\ ~disk.protection
           fault == gate.fault \/ WrittenOpen # {}
<1>1. /\ gate \in GateType /\ gate.link \in {"up", "down"} /\ t \in Nat /\ att' = Ended("cut")
      /\ gate' = [gate EXCEPT !.link = "closing", !.token = t, !.cut = cut, !.fault = fault,
                              !.clean = clean]
      /\ UNCHANGED <<disk, count, exposed, penalty>>
  BY InvParts DEF Close, GateType
<1>2. /\ cut \in SUBSET Attempts /\ clean \in BOOLEAN /\ fault \in BOOLEAN
      /\ clean = (cut # {} /\ ~gate.hold /\ ~disk.protection)
  BY <1>1 DEF WrittenOpen, GateType
<1>3. \A b \in cut : Kind[b] = "read" /\ Open(b) /\ att[b].caller # "idle"
  <2> SUFFICES ASSUME NEW b \in cut PROVE Kind[b] = "read" /\ Open(b) /\ att[b].caller # "idle"
    OBVIOUS
  <2>1. b \in Attempts /\ Open(b) /\ att[b].claims > 0 /\ Kind[b] = "read"
    BY DEF WrittenOpen
  <2>2. att[b].caller = "idle" => att[b].claims = 0
    BY <2>1, InvParts, FreshParts DEF Passage
  <2> QED BY <2>1, <2>2
<1> HIDE DEF t, cut, clean, fault
<1>4. /\ gate' \in GateType /\ gate'.link = "closing" /\ gate'.cut = cut
      /\ gate'.failed = gate.failed /\ gate'.hold = gate.hold /\ gate'.cool = gate.cool
      /\ gate'.claimed = gate.claimed /\ gate'.clean = clean
  BY <1>1, <1>2 DEF GateType
<1> QED BY <1>1, <1>2, <1>3, <1>4, EndStep

\* The reads that a shutdown cut off are recorded for the next process, and what was
\* protected only because of them is free again.
LEMMA ContainStep ==
  ASSUME Inv, Contain
  PROVE  Inv' /\ NoWrite
<1> DEFINE intents == [a \in Attempts |-> IF a \in gate.cut THEN "retry" ELSE disk.intent[a]]
           clear == gate.clean /\ ~Unresolved(intents)
<1>1. /\ gate \in GateType /\ disk \in DiskType /\ exposed \in SUBSET Attempts /\ count \in CountType
      /\ penalty \in BOOLEAN /\ att \in [Attempts -> AttemptType]
      /\ gate.link = "closing" /\ \A b \in Attempts : att[b].caller # "idle" => att[b].settled
      /\ UNCHANGED <<att, count, exposed, penalty>>
  BY InvParts DEF Contain
<1>2. NoWrite
  BY <1>1 DEF NoWrite, AttemptType
<1>3. SlotsBounded'
  BY <1>1, InvParts, SlotsShrink
<1>4. CASE (gate.failed \/ gate.cut = {}) /\ gate' = [gate EXCEPT !.link = "closed"] /\ disk' = disk
  <2>1. /\ gate' \in GateType /\ gate'.link = "closed" /\ gate'.cut = gate.cut
        /\ gate'.failed = gate.failed /\ gate'.hold = gate.hold /\ gate'.cool = gate.cool
        /\ gate'.claimed = gate.claimed /\ gate'.clean = gate.clean /\ gate'.fault = gate.fault
    BY <1>1, <1>4 DEF GateType
  <2>2. ASSUME NEW b \in Attempts PROVE Each(b)'
    <3>1. /\ att[b] \in AttemptType /\ Passage(b) /\ Recorded(b) /\ Over(b) /\ Permitted(b)
          /\ Fenced(b) /\ att'[b] = att[b]
      BY <1>1, InvParts
    <3>2. Passage(b)' /\ Recorded(b)' /\ Permitted(b)'
      BY <1>1, <1>4, <2>1, <3>1, PassageStays, RecordedStays, PermittedStays
    <3>3. Over(b)' /\ Fenced(b)'
      BY <1>1, <1>4, <2>1, <3>1 DEF Over, Fenced, Open
    <3> QED BY <3>2, <3>3 DEF Each
  <2>3. TypeOK'
    BY <1>1, <1>4, <2>1, NextTypeParts
  <2>4. FloodIsKnown' /\ FloodSurvives'
    BY <1>1, <1>4, <2>1, InvParts DEF FloodIsKnown, FloodSurvives
  <2>5. ProtectedForCause'
    <3>1. Causes' = Causes
      BY <1>1, <1>4 DEF Causes
    <3> QED BY <1>1, <1>4, <2>1, <3>1, InvParts DEF ProtectedForCause
  <2> QED BY <1>2, <1>3, <2>2, <2>3, <2>4, <2>5 DEF Inv
<1>5. CASE /\ ~gate.failed /\ gate.cut # {}
           /\ disk' = [disk EXCEPT !.intent = intents, !.protection = @ /\ ~clear]
           /\ gate' = [gate EXCEPT !.link = "closed", !.hold = @ /\ ~clear]
  <2>1. /\ clear \in BOOLEAN /\ clear = (gate.clean /\ ~Unresolved(intents))
        /\ intents \in IntentTypes
        /\ \A b \in Attempts : intents[b] = IF b \in gate.cut THEN "retry" ELSE disk.intent[b]
    <3>1. clear \in BOOLEAN
      BY <1>1 DEF GateType, Unresolved
    <3>2. disk.intent \in IntentTypes
      BY <1>1 DEF DiskType
    <3>3. intents \in IntentTypes
      BY <3>2 DEF IntentTypes
    <3> QED BY <3>1, <3>3
  <2> HIDE DEF intents, clear
  <2>2. /\ gate' \in GateType /\ gate'.link = "closed" /\ gate'.cut = gate.cut
        /\ gate'.failed = gate.failed /\ gate'.hold = (gate.hold /\ ~clear) /\ gate'.cool = gate.cool
        /\ gate'.claimed = gate.claimed /\ gate'.clean = gate.clean /\ gate'.fault = gate.fault
    BY <1>1, <1>5, <2>1 DEF GateType
  <2>3. /\ disk' \in DiskType /\ disk'.intent = intents /\ disk'.method = disk.method
        /\ disk'.floor = disk.floor /\ disk'.protection = (disk.protection /\ ~clear)
    <3> DEFINE p == disk.protection /\ ~clear
    <3>1. p \in BOOLEAN /\ disk' = [disk EXCEPT !.intent = intents, !.protection = p]
      BY <1>1, <1>5, <2>1 DEF DiskType
    <3>2. p = (disk.protection /\ ~clear)
      OBVIOUS
    <3> HIDE DEF p
    <3>3. disk' \in DiskType /\ disk'.intent = intents /\ disk'.method = disk.method
          /\ disk'.floor = disk.floor /\ disk'.protection = p
      BY <1>1, <2>1, <3>1 DEF DiskType
    <3> QED BY <3>2, <3>3
  <2>4. \A b \in Attempts : b \in gate.cut => /\ Kind[b] = "read" /\ att[b].outcome = "cut"
                                             /\ att[b].caller \notin {"idle", "gone"}
    BY InvParts, FreshParts, GoneParts DEF Over, Passage
  <2>5. ASSUME NEW b \in Attempts PROVE Each(b)'
    <3>1. /\ att[b] \in AttemptType /\ Passage(b) /\ Recorded(b) /\ Over(b) /\ Permitted(b)
          /\ Fenced(b) /\ att'[b] = att[b]
          /\ disk'.intent[b] = IF b \in gate.cut THEN "retry" ELSE disk.intent[b]
      BY <1>1, <2>1, <2>3, InvParts
    <3>2. Permitted(b)'
      BY <1>1, <2>2, <2>3, <3>1, PermittedStays
    <3>3. Over(b)' /\ Fenced(b)'
      BY <1>1, <2>2, <2>3, <3>1 DEF Over, Fenced, Open
    <3>4. Passage(b)' /\ Recorded(b)'
      <4>1. CASE b \in gate.cut
        <5>1. Passage(b)'
          BY <1>1, <2>2, <2>4, <3>1, <4>1 DEF Passage
        <5>2. Recorded(b)'
          BY <1>1, <2>2, <2>4, <3>1, <4>1 DEF Recorded
        <5> QED BY <5>1, <5>2
      <4>2. CASE b \notin gate.cut
        BY <1>1, <2>2, <3>1, <4>2, PassageStays, RecordedStays
      <4> QED BY <4>1, <4>2
    <3> QED BY <3>2, <3>3, <3>4 DEF Each
  <2>6. TypeOK'
    BY <1>1, <2>2, <2>3, NextTypeParts
  <2>7. FloodIsKnown'
    BY <1>1, <2>1, <2>2, InvParts DEF FloodIsKnown
  <2>8. FloodSurvives'
    <3>1. \A b \in Attempts : FloodWitness(b) => FloodWitness(b)'
      <4> SUFFICES ASSUME NEW b \in Attempts, FloodWitness(b) PROVE FloodWitness(b)'
        OBVIOUS
      <4>1. b \notin gate.cut
        BY <2>4 DEF FloodWitness
      <4> QED BY <1>1, <2>1, <2>3, <4>1 DEF FloodWitness, Blocks
    <3> QED BY <1>1, <2>3, <3>1, InvParts DEF FloodSurvives, FloodWitness
  <2>9. ProtectedForCause'
    <3>1. Causes' = Causes \ gate.cut
      BY <1>1, <2>1, <2>3 DEF Causes, Blocks
    <3>2. CASE ~clear
      <4>1. Causes \ gate.cut # {}
        <5>1. CASE ~gate.clean
          BY <1>1, <1>5, <5>1, InvParts DEF ProtectedForCause
        <5>2. CASE gate.clean
          <6>1. PICK b \in Attempts : Blocks(intents[b])
            BY <2>1, <3>2, <5>2 DEF Unresolved
          <6>2. b \notin gate.cut /\ Blocks(disk.intent[b])
            BY <2>1, <6>1 DEF Blocks
          <6>3. att[b].caller # "idle"
            BY <6>2, InvParts DEF Passage, Blocks
          <6> QED BY <1>1, <6>2, <6>3 DEF Causes
        <5> QED BY <5>1, <5>2
      <4> QED BY <1>5, <2>2, <3>1, <4>1
        DEF ProtectedForCause
    <3>3. CASE clear
      BY <1>5, <2>2, <2>3, <3>3, InvParts, <2>1 DEF ProtectedForCause
    <3> QED BY <3>2, <3>3
  <2> QED BY <1>2, <1>3, <2>5, <2>6, <2>7, <2>8, <2>9 DEF Inv
<1> QED BY <1>4, <1>5 DEF Contain

\* The process starts again from the record, at any moment.
LEMMA RestartStep ==
  ASSUME Inv, Restart
  PROVE  Inv' /\ NoWrite
<1> DEFINE hold == Unresolved(disk.intent)
<1>1. /\ gate \in GateType /\ disk \in DiskType /\ exposed \in SUBSET Attempts /\ count \in CountType
      /\ penalty \in BOOLEAN /\ att \in [Attempts -> AttemptType]
      /\ UNCHANGED <<disk, exposed, penalty>>
      /\ gate' = [gate EXCEPT !.link = "up", !.token = 0, !.fault = FALSE, !.failed = FALSE,
                    !.hold = hold, !.cool = disk.floor,
                    !.claimed = {}, !.cut = {}, !.clean = FALSE]
      /\ count' = [count EXCEPT !.crash = @ + 1] /\ count.crash < MaxCrash
      /\ att' = [a \in Attempts |-> IF att[a].caller = "idle" THEN att[a] ELSE Gone]
  BY InvParts DEF Restart, Gone
<1>2. hold \in BOOLEAN /\ disk.floor \in BOOLEAN
  BY <1>1 DEF Unresolved, DiskType
<1>3. hold <=> \E b \in Attempts : Blocks(disk.intent[b])
  BY DEF Unresolved
<1> HIDE DEF hold
<1>4. /\ gate' \in GateType /\ gate'.link = "up" /\ gate'.cut = {} /\ ~gate'.failed
      /\ gate'.hold = hold /\ gate'.cool = disk.floor /\ gate'.claimed = {} /\ ~gate'.clean
  BY <1>1, <1>2 DEF GateType
<1>5. att' \in [Attempts -> AttemptType]
  BY <1>1, GoneParts
<1>6. TypeOK'
  <2>1. count' \in CountType
    BY <1>1, WireAssumption DEF CountType
  <2> QED BY <1>1, <1>4, <1>5, <2>1, NextTypeParts
<1>7. /\ \A b \in Attempts : att[b].caller = "idle" => att[b] = Fresh /\ att'[b] = Fresh
      /\ \A b \in Attempts : att[b].caller # "idle" => att'[b] = Gone
  BY <1>1, InvParts DEF Passage
<1>8. SlotsBounded' /\ NoWrite
  <2>1. \A b \in Attempts : att'[b].slot => att[b].slot
    BY <1>7, GoneParts
  <2>2. NoWrite
    BY <1>1, <1>7, GoneParts DEF NoWrite, AttemptType
  <2> QED BY <2>1, <2>2, InvParts, SlotsShrink
<1>9. ASSUME NEW b \in Attempts PROVE Each(b)'
  <2>1. /\ att[b] \in AttemptType /\ Passage(b) /\ Recorded(b) /\ Permitted(b)
        /\ disk.intent \in IntentTypes /\ Episode(b).generation \in Nat
    BY <1>1, InvParts, EpisodeParts DEF DiskType
  <2>2. Fresh' = Fresh /\ Gone' = Gone
    BY DEF Fresh, Gone
  <2>3. CASE att[b].caller = "idle"
    <3>1. att[b] = Fresh /\ att'[b] = Fresh /\ disk.intent[b] = "none" /\ b \notin exposed
      BY <1>7, <2>1, <2>3 DEF Passage
    <3>2. Passage(b)' /\ Recorded(b)'
      BY <1>1, <1>4, <2>2, <3>1, FreshParts DEF Passage, Recorded
    <3>3. Over(b)' /\ Fenced(b)' /\ Permitted(b)'
      BY <1>1, <1>4, <2>1, <3>1, FreshParts DEF Over, Fenced, Permitted, Open, Episode, Live
    <3> QED BY <3>2, <3>3 DEF Each
  <2>4. CASE att[b].caller # "idle"
    <3>1. att'[b] = Gone
      BY <1>7, <2>4
    <3>2. Passage(b)' /\ Recorded(b)'
      BY <1>1, <1>4, <2>1, <2>2, <3>1, GoneParts DEF Passage, Recorded
    <3>3. Over(b)' /\ Permitted(b)'
      BY <1>1, <1>4, <2>1, <3>1, GoneParts DEF Over, Permitted, Open, Episode, Live
    <3>4. Fenced(b)'
      <4>1. CASE b \notin exposed
        BY <1>1, <4>1 DEF Fenced
      <4>2. CASE b \in exposed /\ disk.intent[b] = "retry"
        BY <1>1, <2>1, <4>2 DEF Fenced, Passage
      <4>3. CASE b \in exposed /\ disk.intent[b] # "retry"
        <5>1. Blocks(disk.intent[b])
          BY <2>1, <4>3 DEF Recorded, Blocks, IntentTypes
        <5> QED BY <1>3, <1>4, <5>1 DEF Fenced, Protected
      <4> QED BY <4>1, <4>2, <4>3
    <3> QED BY <3>2, <3>3, <3>4 DEF Each
  <2> QED BY <2>3, <2>4
<1>10. FloodIsKnown'
  BY <1>1, <1>3, <1>4, InvParts DEF FloodIsKnown, FloodSurvives
<1>11. FloodSurvives'
  <2>1. \A b \in Attempts : FloodWitness(b) => FloodWitness(b)'
    BY <1>1, <1>7, FreshParts, GoneParts DEF FloodWitness, Blocks
  <2> QED BY <1>1, <2>1, InvParts DEF FloodSurvives, FloodWitness
<1>12. ProtectedForCause'
  <2>1. ASSUME NEW b \in Attempts, Blocks(disk.intent[b]) PROVE b \in Causes'
    <3>1. att[b].caller # "idle"
      BY <2>1, InvParts DEF Passage, Blocks
    <3> QED BY <1>1, <1>7, <2>1, <3>1, GoneParts DEF Causes, Blocks
  <2>2. (disk.protection \/ hold) => Causes' # {}
    BY <1>3, <2>1, InvParts DEF ProtectedForCause, Causes
  <2> QED BY <1>1, <1>4, <2>2 DEF ProtectedForCause
<1> QED BY <1>6, <1>8, <1>9, <1>10, <1>11, <1>12 DEF Inv

-----------------------------------------------------------------------------
(* Time *)

\* The wait that Telegram announced is over.
LEMMA WaitStep ==
  ASSUME Inv, WaitPasses
  PROVE  Inv' /\ NoWrite
<1>1. /\ gate \in GateType /\ disk \in DiskType /\ exposed \in SUBSET Attempts /\ count \in CountType
      /\ att \in [Attempts -> AttemptType] /\ UNCHANGED <<att, count, exposed>> /\ ~penalty'
      /\ penalty' \in BOOLEAN
      /\ gate' = [gate EXCEPT !.cool = FALSE] /\ disk' = [disk EXCEPT !.floor = FALSE]
  BY InvParts DEF WaitPasses
<1>2. /\ gate' \in GateType /\ gate'.link = gate.link /\ gate'.cut = gate.cut
      /\ gate'.failed = gate.failed /\ gate'.hold = gate.hold
      /\ gate'.claimed = gate.claimed /\ gate'.clean = gate.clean /\ gate'.fault = gate.fault
  BY <1>1 DEF GateType
<1>3. /\ disk' \in DiskType /\ disk'.intent = disk.intent /\ disk'.method = disk.method
      /\ disk'.protection = disk.protection
  BY <1>1 DEF DiskType
<1>4. TypeOK'
  BY <1>1, <1>2, <1>3, NextTypeParts
<1>5. SlotsBounded' /\ NoWrite
  BY <1>1, InvParts, SlotsShrink DEF NoWrite, AttemptType
<1>6. Protected' = Protected
  BY <1>2, <1>3 DEF Protected
<1>7. ASSUME NEW b \in Attempts PROVE Each(b)'
  <2>1. /\ Passage(b) /\ Recorded(b) /\ Over(b) /\ Permitted(b) /\ Fenced(b) /\ att'[b] = att[b]
    BY <1>1, InvParts
  <2>2. Passage(b)' /\ Recorded(b)' /\ Over(b)'
    BY <1>1, <1>2, <1>3, <2>1, PassageStays, RecordedStays, OverStays
  <2>3. Permitted(b)' /\ Fenced(b)'
    BY <1>1, <1>2, <1>3, <1>6, <2>1, PermittedStays, FencedStays
  <2> QED BY <2>2, <2>3 DEF Each
<1>8. FloodIsKnown' /\ FloodSurvives'
  BY <1>1 DEF FloodIsKnown, FloodSurvives
<1>9. ProtectedForCause'
  <2>1. Causes' = Causes
    BY <1>1, <1>3 DEF Causes
  <2> QED BY <1>2, <1>3, <2>1, InvParts DEF ProtectedForCause
<1> QED BY <1>4, <1>5, <1>7, <1>8, <1>9 DEF Inv

\* The floor of a method has passed.
LEMMA FloorStep ==
  ASSUME Inv, NEW k \in Kinds, FloorPasses(k)
  PROVE  Inv' /\ NoWrite
<1> DEFINE m == [disk.method EXCEPT ![k].floor = FALSE]
<1>1. /\ gate \in GateType /\ disk \in DiskType /\ exposed \in SUBSET Attempts /\ count \in CountType
      /\ penalty \in BOOLEAN
      /\ att \in [Attempts -> AttemptType] /\ UNCHANGED <<att, gate, count, exposed, penalty>>
      /\ \A a \in Attempts : Kind[a] = k => Open(a) \/ att[a].place = "none"
      /\ disk.method \in [Kinds -> EpisodeType]
  BY InvParts DEF FloorPasses, DiskType
<1>2. disk' = [disk EXCEPT !.method = m]
  BY <1>1 DEF FloorPasses, DiskType
<1>3. /\ m \in [Kinds -> EpisodeType] /\ \A h \in Kinds \ {k} : m[h] = disk.method[h]
      /\ m[k].state = disk.method[k].state /\ m[k].generation = disk.method[k].generation
      /\ m[k].claim = disk.method[k].claim
  BY <1>1 DEF EpisodeType
<1> HIDE DEF m
<1>4. /\ disk' \in DiskType /\ disk'.intent = disk.intent /\ disk'.method = m
      /\ disk'.floor = disk.floor /\ disk'.protection = disk.protection
  BY <1>1, <1>2, <1>3 DEF DiskType
<1>5. TypeOK'
  BY <1>1, <1>4, NextTypeParts
<1>6. SlotsBounded' /\ NoWrite
  BY <1>1, InvParts, SlotsShrink DEF NoWrite, AttemptType
<1>7. Protected' = Protected
  BY <1>1, <1>4 DEF Protected
<1>8. ASSUME NEW b \in Attempts PROVE Each(b)'
  <2>1. /\ Passage(b) /\ Recorded(b) /\ Over(b) /\ Permitted(b) /\ Fenced(b) /\ att'[b] = att[b]
    BY <1>1, InvParts
  <2>2. Passage(b)' /\ Recorded(b)' /\ Over(b)' /\ Fenced(b)'
    BY <1>1, <1>4, <1>7, <2>1, PassageStays, RecordedStays, OverStays, FencedStays
  <2>3. Permitted(b)'
    <3>1. CASE Kind[b] # k
      <4>1. disk'.method[Kind[b]] = disk.method[Kind[b]]
        BY <1>1, <1>3, <1>4, <3>1, EpisodeParts
      <4> QED BY <1>1, <2>1, <4>1, PermittedStays
    <3>2. CASE Kind[b] = k
      <4>1. /\ Episode(b)'.state = Episode(b).state /\ Episode(b)'.claim = Episode(b).claim
            /\ Episode(b)'.generation = Episode(b).generation
        BY <1>3, <1>4, <3>2 DEF Episode
      <4>2. att[b].receipt = "saved" => att[b].place = "none"
        BY <1>1, <2>1, <3>2 DEF Passage, Open
      <4> QED BY <1>1, <2>1, <4>1, <4>2 DEF Permitted, Open, Live
    <3> QED BY <3>1, <3>2
  <2> QED BY <2>2, <2>3 DEF Each
<1>9. FloodIsKnown' /\ FloodSurvives'
  BY <1>1, <1>4, InvParts DEF FloodIsKnown, FloodSurvives
<1>10. ProtectedForCause'
  <2>1. Causes' = Causes
    BY <1>1, <1>4 DEF Causes
  <2> QED BY <1>1, <1>4, <2>1, InvParts DEF ProtectedForCause
<1> QED BY <1>5, <1>6, <1>8, <1>9, <1>10 DEF Inv

-----------------------------------------------------------------------------
(* The theorems *)

\* The invariant holds when the process starts.
LEMMA InitInv ==
  ASSUME Init
  PROVE  Inv
<1>1. \A k \in Kinds : /\ disk.method[k] \in EpisodeType /\ disk.method[k].claim = "none"
                       /\ disk.method[k].generation \in Nat
  BY DEF Init, NoEpisode, EpisodeType
<1>2. /\ att = [a \in Attempts |-> Fresh] /\ disk.intent = [a \in Attempts |-> "none"]
      /\ gate \in GateType /\ exposed = {} /\ penalty = FALSE /\ ~disk.protection /\ ~gate.hold
      /\ gate.link = "up" /\ gate.cut = {} /\ gate.claimed = {} /\ ~gate.clean
      /\ count \in CountType
  BY WireAssumption DEF Init, GateType, CountType
<1>3. disk \in DiskType
  <2>1. disk = [intent |-> [a \in Attempts |-> "none"], protection |-> FALSE, floor |-> FALSE,
                method |-> [k \in Kinds |->
                  IF k \in Earlier THEN [NoEpisode EXCEPT !.state = "live", !.generation = 1,
                                                          !.floor = TRUE]
                  ELSE NoEpisode]]
    BY DEF Init
  <2> DEFINE m == [k \in Kinds |->
                  IF k \in Earlier THEN [NoEpisode EXCEPT !.state = "live", !.generation = 1,
                                                          !.floor = TRUE]
                  ELSE NoEpisode]
  <2>2. m \in [Kinds -> EpisodeType]
    BY DEF NoEpisode, EpisodeType
  <2>3. disk = [intent |-> [a \in Attempts |-> "none"], protection |-> FALSE, floor |-> FALSE,
                method |-> m]
    BY <2>1
  <2> HIDE DEF m
  <2>4. [a \in Attempts |-> "none"] \in IntentTypes
    BY DEF IntentTypes
  <2> QED BY <2>2, <2>3, <2>4 DEF DiskType
<1>4. TypeOK
  BY <1>2, <1>3, FreshParts, TypeParts
<1>5. SlotsBounded
  <2>1. Holders = {}
    BY <1>2, FreshParts DEF Holders
  <2>2. IsFiniteSet(Holders) /\ InUse = 0
    BY <2>1, FS_EmptySet DEF InUse, Holders
  <2> QED BY <2>2, WireAssumption DEF SlotsBounded
<1>6. ASSUME NEW a \in Attempts PROVE Each(a)
  <2>1. att[a] = Fresh /\ disk.intent[a] = "none"
    BY <1>2
  <2>2. Passage(a) /\ Recorded(a) /\ Over(a) /\ Fenced(a)
    BY <1>2, <2>1, FreshParts DEF Passage, Recorded, Over, Fenced
  <2>3. Permitted(a)
    <3>1. Episode(a).claim = "none" /\ Episode(a).generation \in Nat /\ a # "none"
      BY <1>1, WireAssumption DEF Episode, Kinds
    <3> QED BY <2>1, <3>1, FreshParts DEF Permitted
  <2> QED BY <2>2, <2>3 DEF Each
<1>7. FloodIsKnown /\ FloodSurvives /\ ProtectedForCause
  BY <1>2 DEF FloodIsKnown, FloodSurvives, ProtectedForCause
<1> QED BY <1>4, <1>5, <1>6, <1>7 DEF Inv

\* A step that writes nothing breaks no fence.
LEMMA NoWriteIsFenced ==
  ASSUME Inv, Inv', NoWrite
  PROVE  WriteInCalm /\ FencedWrite
<1>1. \A a \in Attempts : ~(att'[a].claims > att[a].claims)
  <2> SUFFICES ASSUME NEW a \in Attempts PROVE ~(att'[a].claims > att[a].claims)
    OBVIOUS
  <2>1. att' \in [Attempts -> AttemptType] /\ att[a] \in AttemptType
    BY InvParts, NextTypeParts DEF Inv
  <2> QED BY <2>1 DEF NoWrite, AttemptType
<1> QED BY <1>1 DEF WriteInCalm, FencedWrite

\* Every step keeps the invariant, and a write finds every fence open.
LEMMA NextStep ==
  ASSUME Inv, Next
  PROVE  Inv' /\ WriteInCalm /\ FencedWrite
<1>1. ASSUME NEW a \in Attempts,
             \/ Send(a) \/ Offer(a) \/ Intend(a) \/ Admit(a) \/ AdmissionExpires(a)
             \/ Permit(a) \/ Resend(a)
             \/ Answer(a, "ok") \/ Answer(a, "error") \/ Answer(a, "flood")
             \/ SaveReceipt(a) \/ Settle(a) \/ Cancel(a) \/ Timeout(a)
      PROVE  Inv' /\ WriteInCalm /\ FencedWrite
  <2>1. Inv' /\ NoWrite
    BY <1>1, SendStep, OfferStep, IntendStep, AdmitStep, ExpiryStep, PermitStep, ResendStep,
       AnswerStep, SaveReceiptStep, SettleStep, CancelStep, TimeoutStep
  <2> QED BY <2>1, NoWriteIsFenced
<1>2. ASSUME NEW a \in Attempts, Write(a) \/ WriteFails(a)
      PROVE  Inv' /\ WriteInCalm /\ FencedWrite
  BY <1>2, WriteStep, WriteFailsStep, NoWriteIsFenced
<1>3. ASSUME Drop \/ Reconnect \/ GiveUp \/ Close \/ Contain \/ Restart
      PROVE  Inv' /\ WriteInCalm /\ FencedWrite
  BY <1>3, DropStep, ReconnectStep, GiveUpStep, CloseStep, ContainStep, RestartStep,
     NoWriteIsFenced
<1>4. ASSUME WaitPasses \/ \E k \in Kinds : FloorPasses(k)
      PROVE  Inv' /\ WriteInCalm /\ FencedWrite
  BY <1>4, WaitStep, FloorStep, NoWriteIsFenced
<1> QED BY <1>1, <1>2, <1>3, <1>4 DEF Next

\* A step that changes nothing keeps the invariant.
LEMMA StutterStep ==
  ASSUME Inv, UNCHANGED vars
  PROVE  Inv' /\ WriteInCalm /\ FencedWrite
<1>1. UNCHANGED <<att, gate, disk, count, exposed, penalty>>
  BY DEF vars
<1>2. TypeOK'
  BY <1>1, InvParts, NextTypeParts
<1>3. SlotsBounded' /\ NoWrite
  BY <1>1, InvParts, SlotsShrink DEF NoWrite, AttemptType
<1>4. ASSUME NEW b \in Attempts PROVE Each(b)'
  <2>1. /\ Passage(b) /\ Recorded(b) /\ Over(b) /\ Permitted(b) /\ Fenced(b)
    BY InvParts
  <2>2. Protected' = Protected
    BY <1>1 DEF Protected
  <2>3. Passage(b)' /\ Recorded(b)' /\ Over(b)' /\ Fenced(b)' /\ Permitted(b)'
    BY <1>1, <2>1, <2>2, InvParts, PassageStays, RecordedStays, OverStays, FencedStays,
       PermittedStays
  <2> QED BY <2>3 DEF Each
<1>5. FloodIsKnown' /\ FloodSurvives' /\ ProtectedForCause'
  BY <1>1, InvParts, ReasonsStay
<1>6. Inv'
  BY <1>2, <1>3, <1>4, <1>5 DEF Inv
<1> QED BY <1>3, <1>6, NoWriteIsFenced

\* The invariant holds in every state of the gate's attempts.
THEOREM InvHolds == Spec => []Inv
<1>1. Init => Inv
  BY InitInv
<1>2. Inv /\ [Next]_vars => Inv'
  BY NextStep, StutterStep
<1> QED BY <1>1, <1>2, PTL DEF Spec

\* The variables keep their types: every field of an attempt, of the gate's memory and
\* of the saved safety record holds one of the values the code gives it.
THEOREM TypeCorrect == Spec => []TypeOK
<1>1. Inv => TypeOK
  BY DEF Inv
<1> QED BY <1>1, InvHolds, PTL

\* Slots, permissions and trials have owners and what is unlearnt is on record: the
\* scheduler's limit is kept, one request at a time tries a method under recovery, a
\* settled request keeps no permission, a written request without an answer stays in the
\* safety record across crashes, and a clean shutdown protects the account only for cause.
THEOREM WireIsSound == Spec => []WireSound
<1>1. Inv => WireSound
  <2> SUFFICES ASSUME Inv PROVE WireSound
    OBVIOUS
  <2>1. SlotHasOwner
    BY InvParts DEF SlotHasOwner, SlotsBounded, Passage
  <2>2. OneTrial
    <3> SUFFICES ASSUME NEW a \in Attempts, NEW b \in Attempts, a # b, Kind[a] = Kind[b], Live(a),
                        {a, b} \subseteq WrittenOpen, att[a].sent = Episode(a).generation,
                        att[b].sent = att[a].sent
                 PROVE  FALSE
      BY DEF OneTrial
    <3>1. Episode(b) = Episode(a) /\ Live(b)
      BY DEF Episode, Live
    <3>2. Open(a) /\ Open(b) /\ att[a].claims > 0 /\ att[b].claims > 0
      BY DEF WrittenOpen
    <3> QED BY <3>1, <3>2, InvParts DEF Permitted
  <2>3. PermissionReturns
    BY InvParts DEF PermissionReturns, Permitted
  <2>4. UnlearntIsRecorded
    BY InvParts DEF UnlearntIsRecorded, Recorded
  <2>5. ClosedIsClean
    BY InvParts DEF ClosedIsClean, ProtectedForCause, Causes, Unresolved
  <2> QED BY <2>1, <2>2, <2>3, <2>4, <2>5 DEF WireSound
<1> QED BY <1>1, InvHolds, PTL

\* No write goes out past an outcome that nobody has learnt, in this process or the next.
THEOREM WritesFenced == Spec => WritesAreFenced
<1>1. Inv /\ [Next]_vars => [FencedWrite]_vars
  BY NextStep
<1> QED BY <1>1, InvHolds, PTL DEF Spec, WritesAreFenced

\* No write goes out while a flood wait runs that Telegram has announced, even when the
\* process dies between the answer and its receipt.
THEOREM FloodsRespected == Spec => FloodRespected
<1>1. Inv /\ [Next]_vars => [WriteInCalm]_vars
  BY NextStep
<1> QED BY <1>1, InvHolds, PTL DEF Spec, FloodRespected
=============================================================================
