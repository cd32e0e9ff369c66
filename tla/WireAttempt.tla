----------------------------- MODULE WireAttempt -----------------------------
(***************************************************************************)
(* One request on its way through the gate (telegram_rpc.py,                *)
(* _AdmissionAwareSender and the wire half of TelegramRpcGate), the owned   *)
(* sender (telegram_transport.py) and the durable safety ledger             *)
(* (TelegramRpcSafetyLedger): its durable intent, its scheduler slot, the   *)
(* single permission a method under recovery gives out, the write, the      *)
(* answer, the receipt, the settlement, and every way to lose one of them.  *)
(***************************************************************************)
EXTENDS Naturals, FiniteSets

CONSTANTS
  Attempts,     \* the requests, one _WireAttempt each
  Kind,         \* "read": of a durable slice; "call": of a user; "write": a mutation
  Budget,       \* writes an attempt of a kind may make (RpcAttemptBudget.limit)
  Earlier,      \* kinds whose method was under recovery when the process started
  Slots,        \* admissions the scheduler has outstanding at most
  MaxDrop,      \* how often the connection is lost, or a write to it fails
  MaxSalt,      \* how often Telegram asks for a resend
  MaxCrash,     \* how often the process dies
  MaxFail       \* how often saving the safety record fails

ASSUME WireAssumption ==
  /\ Kind \in [Attempts -> {"read", "call", "write"}] /\ "none" \notin Attempts
  /\ Budget \in [{"read", "call", "write"} -> Nat \ {0}]
  /\ Earlier \subseteq {"read", "call", "write"}
  /\ Slots \in Nat \ {0}
  /\ {MaxDrop, MaxSalt, MaxCrash, MaxFail} \subseteq Nat

Kinds == {"read", "call", "write"}   \* attempts of a kind call the same method

Preparing == {"intent", "admit", "trial"}
Outcomes == {"open", "ok", "error", "flood", "timeout", "exhausted", "refused",
             "expired", "cancelled", "lost", "cut", "gone"}

\* _WireAttempt with its _OwnedState and its caller
AttemptType ==
  [caller : {"idle", "waiting", "draining", "told", "left", "gone"},
   revoked : BOOLEAN, settled : BOOLEAN, slot : BOOLEAN,
   place : Preparing \cup {"none", "queue", "packet", "pending"},
   claims : Nat, token : Nat, permit : Nat, generation : Nat, sent : Nat,
   outcome : Outcomes, receipt : {"none", "flood", "read", "saved", "lost"}]

\* an episode of a method under recovery, in the safety record
EpisodeType == [state : {"none", "live", "recovered"}, generation : Nat, floor : BOOLEAN,
                claim : Attempts \cup {"none"}]

VARIABLES
  att,      \* [Attempts -> the _WireAttempt, its _OwnedState and its caller]
  gate,     \* the gate's and the ledger's memory
  disk,     \* the saved safety record: intents, protection, floor, methods
  count,    \* how often each fault happened
  exposed,  \* (ghost) attempts written and not answered, whatever was forgotten
  penalty   \* (ghost) a flood wait Telegram has announced is running

vars == <<att, gate, disk, count, exposed, penalty>>

Fresh == [caller |-> "idle", revoked |-> FALSE, place |-> "none", claims |-> 0,
          slot |-> FALSE, token |-> 0, permit |-> 0, generation |-> 0,
          outcome |-> "open", receipt |-> "none", settled |-> FALSE,
          sent |-> 0]
NoEpisode == [state |-> "none", generation |-> 0, floor |-> FALSE, claim |-> "none"]

Init ==
  /\ att = [a \in Attempts |-> Fresh]
  /\ gate = [link |-> "up", token |-> 0, fault |-> FALSE, hold |-> FALSE,
             failed |-> FALSE, cool |-> FALSE, claimed |-> {},
             cut |-> {}, clean |-> FALSE]
  /\ disk = [intent |-> [a \in Attempts |-> "none"], protection |-> FALSE,
             floor |-> FALSE, method |-> [k \in Kinds |->
               IF k \in Earlier THEN [NoEpisode EXCEPT !.state = "live", !.generation = 1,
                                                       !.floor = TRUE]
               ELSE NoEpisode]]
  /\ count = [drop |-> 0, salt |-> 0, crash |-> 0, fail |-> 0]
  /\ exposed = {} /\ penalty = FALSE

-----------------------------------------------------------------------------
(* What the gate asks of its memory and of the record *)

Episode(a) == disk.method[Kind[a]]
Live(a) == Episode(a).state = "live"
Running(a) == att[a].receipt \in {"flood", "read"}
Open(a) == att[a].outcome = "open"

\* (mutant) an intent that was only prepared does not block the next process
BlocksUnknown(intent) == intent = "unknown"
Blocks(intent) == intent \in {"prepared", "unknown"}
Unresolved(intents) == \E a \in Attempts : Blocks(intents[a])
Protected == gate.failed \/ gate.hold \/ disk.protection

\* (mutant) only the floor holds a method back, not another's permission
MethodHeldFloor(a) == Live(a) /\ Episode(a).floor

\* method_deferral and method_release_at: another attempt, or one of an earlier
\* run, has the episode's permission, or its floor has not passed
MethodHeld(a) == Live(a) /\ (Episode(a).claim \notin {"none", a} \/ Episode(a).floor)

\* (mutant) the account's cooldown is not asked
WireHeldUncooled(a) ==
  \/ gate.link # "up" \/ gate.fault \/ Protected \/ MethodHeld(a)
  \/ \E b \in Attempts : Kind[b] = Kind[a] /\ Running(b)

\* _wire_release_at is infinite or in the future
WireHeld(a) ==
  \/ gate.link # "up" \/ gate.fault \/ Protected \/ gate.cool \/ MethodHeld(a)
  \/ \E b \in Attempts : Kind[b] = Kind[a] /\ Running(b)

InUse == Cardinality({a \in Attempts : att[a].slot})

\* observe_error_now: what a future's failure starts before anything else runs
ReceiptOf(a, e) ==
  IF e = "flood" THEN "flood"
  ELSE IF e \in {"exhausted", "timeout"} /\ Kind[a] = "read" /\ att[a].claims > 0
       THEN "read" ELSE "none"
\* (mutant) an unknown outcome is fenced at its settlement only
FaultsLate(a, e) == FALSE
Faults(a, e) == att[a].claims > 0 /\ e # "error" /\ ReceiptOf(a, e) = "none"

\* a's future fails with e, its place becomes p
Failed(a, e, p) == [att[a] EXCEPT !.outcome = e, !.receipt = ReceiptOf(a, e), !.place = p]

\* _fail_preparation: a cancelled preparation ends an unwritten attempt and
\* leaves a written one alone; any other error ends it
Unprepared(a, e) ==
  IF Open(a) /\ (e = "cancelled" => att[a].claims = 0)
  THEN /\ att' = [att EXCEPT ![a] = [Failed(a, e, "none") EXCEPT !.slot =
                                       @ /\ att[a].place # "trial"]]
       /\ gate' = [gate EXCEPT !.fault = @ \/ Faults(a, e)]
  ELSE /\ att' = [att EXCEPT ![a].place = "none",
                             ![a].slot = @ /\ att[a].place # "trial"]
       /\ UNCHANGED gate

\* (mutant) a packet that is not written keeps its slot
DeferredHeld(a) == [att[a] EXCEPT !.place = IF Open(a) THEN "queue" ELSE "none"]

\* defer_packet: the slot goes back, an open request goes back to the queue
Deferred(a) == [att[a] EXCEPT !.slot = FALSE,
                              !.place = IF Open(a) THEN "queue" ELSE "none"]

-----------------------------------------------------------------------------
(* The way to the wire *)

Send(a) ==
  /\ att[a].caller = "idle" /\ gate.link \in {"up", "down"}
  /\ att' = [att EXCEPT ![a].caller = "waiting", ![a].place = "queue"]
  /\ UNCHANGED <<gate, disk, count, exposed, penalty>>

Offer(a) ==
  /\ att[a].place = "queue" /\ gate.link = "up"
  /\ LET e == IF att[a].revoked THEN "cancelled"
              ELSE IF att[a].claims >= Budget[Kind[a]] THEN "exhausted"
              ELSE IF Protected \/ MethodHeld(a) THEN "refused" ELSE "none" IN
     IF ~Open(a) \/ e # "none" THEN Unprepared(a, e)
     ELSE att' = [att EXCEPT ![a].place = "intent"] /\ UNCHANGED gate
  /\ UNCHANGED <<disk, count, exposed, penalty>>

\* the durable intent is saved; the slot of an earlier write is given back
Intend(a) ==
  /\ att[a].place = "intent"
  /\ IF Protected
     THEN Unprepared(a, "refused") /\ UNCHANGED disk
     ELSE /\ disk' = [disk EXCEPT !.intent[a] = IF @ = "none" THEN "prepared" ELSE @]
          /\ IF MethodHeld(a) THEN Unprepared(a, "refused")
             ELSE /\ att' = [att EXCEPT ![a].place = "admit", ![a].slot = FALSE,
                                        ![a].token = gate.token]
                  /\ UNCHANGED gate
  /\ UNCHANGED <<count, exposed, penalty>>

Admit(a) ==
  /\ att[a].place = "admit" /\ InUse < Slots /\ ~WireHeld(a)
  /\ att' = [att EXCEPT ![a].place = "trial", ![a].slot = TRUE]
  /\ UNCHANGED <<gate, disk, count, exposed, penalty>>

AdmissionExpires(a) ==
  /\ att[a].place = "admit"
  /\ Unprepared(a, "expired")
  /\ UNCHANGED <<disk, count, exposed, penalty>>

\* (mutant) the permission is noted under the method, not the attempt
ReservedByMethod(a) == IF Live(a) /\ ~Protected /\ ~MethodHeld(a)
                       THEN [disk EXCEPT !.method[Kind[a]].claim = Kind[a]] ELSE disk

\* prepare_method_trial: what the commit leaves, given that it may reserve
Reserved(a) == IF Live(a) /\ ~Protected /\ ~MethodHeld(a)
               THEN [disk EXCEPT !.method[Kind[a]].claim = a] ELSE disk

Permit(a) ==
  /\ att[a].place = "trial"
  /\ IF Protected \/ MethodHeld(a)
     THEN Unprepared(a, "refused")
     ELSE /\ att' = LET g == IF Live(a) THEN Episode(a).generation ELSE 0
                        p == [att[a] EXCEPT !.place = "packet", !.permit = g,
                                !.generation = IF att[a].claims = 0 THEN g ELSE @]
                    IN [att EXCEPT ![a] = IF gate.link = "up" THEN p
                                          ELSE [p EXCEPT !.slot = FALSE,
                                  !.place = IF Open(a) THEN "queue" ELSE "none"]]
          /\ UNCHANGED gate
  /\ disk' = Reserved(a)
  /\ UNCHANGED <<count, exposed, penalty>>

\* method_claim_valid
ClaimValid(a) ==
  IF Live(a) THEN att[a].permit = Episode(a).generation /\ Episode(a).claim = a
  ELSE att[a].permit = 0

\* claim_write: everything is asked again at the write itself
Claimable(a) ==
  /\ ~att[a].revoked /\ att[a].token = gate.token /\ ~WireHeld(a)
  /\ ClaimValid(a) /\ att[a].claims < Budget[Kind[a]]

Written(a) == [att[a] EXCEPT !.place = "pending", !.claims = @ + 1,
                             !.sent = att[a].permit]

Write(a) ==
  /\ att[a].place = "packet" /\ gate.link = "up"
  /\ IF Open(a) /\ Claimable(a)
     THEN /\ att' = [att EXCEPT ![a] = Written(a)]
          /\ gate' = [gate EXCEPT !.claimed = @ \cup {a}]
          /\ exposed' = exposed \cup {a}
     ELSE att' = [att EXCEPT ![a] = Deferred(a)] /\ UNCHANGED <<gate, exposed>>
  /\ UNCHANGED <<disk, count, penalty>>

\* the connection's disconnect: its queue is emptied, its epoch is over
Emptied(s) == [a \in Attempts |-> IF s[a].place = "packet" THEN Deferred(a) ELSE s[a]]

\* the claim stands, the writer fails: protect_transport, and the link is lost
WriteFails(a) ==
  /\ att[a].place = "packet" /\ gate.link = "up" /\ Open(a) /\ Claimable(a)
  /\ count.drop < MaxDrop
  /\ att' = Emptied([att EXCEPT ![a] = [Written(a) EXCEPT !.outcome = "lost"]])
  /\ gate' = [gate EXCEPT !.claimed = @ \cup {a}, !.fault = TRUE,
                          !.link = "down", !.token = @ + 1]
  /\ exposed' = exposed \cup {a}
  /\ count' = [count EXCEPT !.drop = @ + 1]
  /\ UNCHANGED <<disk, penalty>>

-----------------------------------------------------------------------------
(* Answers, receipts and settlement *)

Answer(a, e) ==
  /\ att[a].place = "pending" /\ gate.link = "up" /\ Open(a)
  /\ att' = [att EXCEPT ![a] = Failed(a, e, "none")]
  /\ gate' = [gate EXCEPT !.cool = @ \/ e = "flood"]
  /\ exposed' = exposed \ {a}
  /\ penalty' = (penalty \/ e = "flood")
  /\ UNCHANGED <<disk, count>>

\* bad_server_salt or bad_msg_notification: the same state is queued again
Resend(a) ==
  /\ att[a].place = "pending" /\ gate.link = "up" /\ Open(a)
  /\ count.salt < MaxSalt
  /\ att' = [att EXCEPT ![a].place = "queue"]
  /\ count' = [count EXCEPT !.salt = @ + 1]
  /\ UNCHANGED <<gate, disk, exposed, penalty>>

\* a save succeeds, or the first one to fail closes the ledger for good
Saves == ~gate.failed /\ UNCHANGED count
SaveFails ==
  \/ gate.failed /\ UNCHANGED count
  \/ ~gate.failed /\ count.fail < MaxFail /\ count' = [count EXCEPT !.fail = @ + 1]

\* _record_method_flood and _settle_read_budget_failure open a new episode
NewEpisode(a) == [state |-> "live", generation |-> Episode(a).generation + 1,
                  floor |-> TRUE, claim |-> "none"]

\* the receipt task of a flood wait or of a read that failed
SaveReceipt(a) ==
  /\ Running(a)
  /\ \/ /\ Saves
        /\ disk' = [disk EXCEPT
             !.intent[a] = IF att[a].receipt = "flood" THEN "none" ELSE "retry",
             !.method[Kind[a]] = NewEpisode(a),
             !.floor = @ \/ att[a].receipt = "flood"]
        /\ gate' = [gate EXCEPT !.claimed = @ \ {a}]
        /\ att' = [att EXCEPT ![a].receipt = "saved"]
     \/ /\ SaveFails
        /\ gate' = [gate EXCEPT !.failed = TRUE]
        /\ att' = [att EXCEPT ![a].receipt = "lost"]
        /\ UNCHANGED disk
  /\ UNCHANGED <<exposed, penalty>>

\* (mutant) only a success gives the permission back
MethodSettledOk(a) ==
  IF Episode(a).claim = a /\ att[a].outcome = "ok"
  THEN [Episode(a) EXCEPT !.state = "recovered", !.floor = FALSE, !.claim = "none"]
  ELSE Episode(a)

\* _settle_method of an attempt without a flood
MethodSettled(a) ==
  IF Episode(a).claim # a THEN Episode(a)
  ELSE IF att[a].outcome = "ok" /\ Episode(a).generation = att[a].generation
  THEN [Episode(a) EXCEPT !.state = "recovered", !.floor = FALSE, !.claim = "none"]
  ELSE [Episode(a) EXCEPT !.claim = "none"]

\* (mutant) only a broken connection leaves an outcome unknown
KnownUnlessLost(a) == att[a].outcome # "lost"
Known(a) == att[a].outcome \in {"ok", "error"}
Unknown(a) == ~Known(a) /\ a \in gate.claimed

\* complete(): the intent is dropped, or kept as unknown behind a protection
Completed(a) ==
  LET i == IF disk.intent[a] = "retry" THEN "retry"
           ELSE IF Unknown(a) THEN "unknown" ELSE "none" IN
  [disk EXCEPT !.method[Kind[a]] = MethodSettled(a), !.intent[a] = i,
               !.protection = @ \/ i = "unknown"]

\* observe_result and _finish_result: the caller is told, the slot given back
Settle(a) ==
  /\ ~Open(a) /\ ~att[a].settled /\ ~Running(a)
  /\ \/ /\ att[a].receipt = "none" /\ Saves
        /\ disk' = Completed(a)
        /\ gate' = [gate EXCEPT !.claimed = @ \ {a}, !.hold = @ \/ Unknown(a)]
     \/ /\ att[a].receipt = "none" /\ SaveFails
        /\ gate' = [gate EXCEPT !.failed = TRUE, !.fault = TRUE, !.hold = @ \/ Unknown(a)]
        /\ UNCHANGED disk
     \/ /\ att[a].receipt = "saved" /\ UNCHANGED <<disk, gate, count>>
     \/ /\ att[a].receipt = "lost" /\ gate' = [gate EXCEPT !.fault = TRUE]
        /\ UNCHANGED <<disk, count>>
  /\ att' = [att EXCEPT ![a].settled = TRUE,
                        ![a].caller = IF @ \in {"waiting", "draining"} THEN "told" ELSE @,
                        ![a].slot = @ /\ att[a].place \in {"trial", "packet"},
                        ![a].place = IF @ \in {"queue", "pending"} THEN "none" ELSE @]
  /\ UNCHANGED <<exposed, penalty>>

-----------------------------------------------------------------------------
(* The caller gives up *)

\* (mutant) the attempt is revoked, its caller goes on waiting
RevokeWaiting(a) == att' = [att EXCEPT ![a].revoked = TRUE] /\ UNCHANGED disk

\* _revoke_wire_owner: a preparation is cancelled; its commit still runs
Revoke(a) ==
  LET gone == [att[a] EXCEPT !.caller = "left", !.revoked = TRUE] IN
  IF att[a].place \in Preparing
  THEN /\ disk' = IF att[a].place = "trial" THEN Reserved(a) ELSE disk
       /\ att' = [att EXCEPT ![a] =
            [gone EXCEPT !.place = "none", !.slot = @ /\ att[a].place # "trial",
                         !.outcome = IF att[a].claims = 0 /\ Open(a) THEN "cancelled" ELSE @]]
  ELSE att' = [att EXCEPT ![a] = gone] /\ UNCHANGED disk

Cancel(a) ==
  /\ att[a].caller = "waiting"
  /\ Revoke(a)
  /\ UNCHANGED <<gate, count, exposed, penalty>>

\* _durable_read_timeout_owner
Retirable(a) ==
  /\ Kind[a] = "read" /\ att[a].claims > 0 /\ ~att[a].settled
  /\ gate.link \in {"up", "down"}

Timeout(a) ==
  /\ att[a].caller = "waiting"
  /\ IF Retirable(a)
     THEN /\ att' = [att EXCEPT ![a] =
               [IF Open(a) THEN Failed(a, "timeout", att[a].place) ELSE att[a]
                  EXCEPT !.caller = "draining"]]
          /\ UNCHANGED disk
     ELSE Revoke(a)
  /\ UNCHANGED <<gate, count, exposed, penalty>>

-----------------------------------------------------------------------------
(* The connection and the process *)

Drop ==
  /\ gate.link = "up" /\ count.drop < MaxDrop
  /\ gate' = [gate EXCEPT !.link = "down", !.token = @ + 1]
  /\ att' = Emptied(att)
  /\ count' = [count EXCEPT !.drop = @ + 1]
  /\ UNCHANGED <<disk, exposed, penalty>>

\* Telethon queues what was pending once more
Reconnect ==
  /\ gate.link = "down"
  /\ gate' = [gate EXCEPT !.link = "up", !.token = @ + 1]
  /\ att' = [a \in Attempts |-> IF att[a].place = "pending"
               THEN [att[a] EXCEPT !.place = IF Open(a) THEN "queue" ELSE "none"]
               ELSE att[a]]
  /\ UNCHANGED <<disk, count, exposed, penalty>>

\* every state the sender owns ends with e: pending ones, queued ones, prepared ones
Ended(e) == [a \in Attempts |->
  IF att[a].caller = "idle" THEN att[a]
  ELSE [att[a] EXCEPT !.place = "none",
                      !.slot = @ /\ att[a].place \notin {"trial", "packet"},
                      !.outcome = IF @ = "open" THEN e ELSE @]]
WrittenOpen == {a \in Attempts : Open(a) /\ att[a].claims > 0}

\* the vendor's retries are exhausted: transport_terminated, unexpectedly
GiveUp ==
  /\ gate.link = "down"
  /\ gate' = [gate EXCEPT !.link = "failed", !.token = @ + 1, !.fault = TRUE]
  /\ att' = Ended("lost")
  /\ UNCHANGED <<disk, count, exposed, penalty>>

\* _perform_main_disconnect: reads cut off by the shutdown are noted
Close ==
  /\ gate.link \in {"up", "down"}
  /\ LET cut == {a \in WrittenOpen : Kind[a] = "read"} IN
     gate' = [gate EXCEPT !.link = "closing", !.token = @ + 1, !.cut = cut,
                          !.fault = @ \/ WrittenOpen # {},
                          !.clean = cut # {} /\ ~gate.hold /\ ~disk.protection]
  /\ att' = Ended("cut")
  /\ UNCHANGED <<disk, count, exposed, penalty>>

\* (mutant) the reads are contained, the protection they raised stays
ContainUncleared ==
  /\ gate.link = "closing"
  /\ \A a \in Attempts : att[a].caller # "idle" => att[a].settled
  /\ disk' = [disk EXCEPT !.intent =
                [a \in Attempts |-> IF a \in gate.cut THEN "retry" ELSE @[a]]]
  /\ gate' = [gate EXCEPT !.link = "closed"]
  /\ UNCHANGED <<att, count, exposed, penalty>>

\* _contain_shutdown_reads, once every owner has settled
Contain ==
  /\ gate.link = "closing"
  /\ \A a \in Attempts : att[a].caller # "idle" => att[a].settled
  /\ LET intents == [a \in Attempts |-> IF a \in gate.cut THEN "retry" ELSE disk.intent[a]]
         clear == gate.clean /\ ~Unresolved(intents) IN
     IF gate.failed \/ gate.cut = {}
     THEN gate' = [gate EXCEPT !.link = "closed"] /\ UNCHANGED disk
     ELSE /\ disk' = [disk EXCEPT !.intent = intents, !.protection = @ /\ ~clear]
          /\ gate' = [gate EXCEPT !.link = "closed", !.hold = @ /\ ~clear]
  /\ UNCHANGED <<att, count, exposed, penalty>>

\* the process ends, at any moment, and starts again from the record
Restart ==
  /\ count.crash < MaxCrash
  /\ gate' = [gate EXCEPT !.link = "up", !.token = 0, !.fault = FALSE, !.failed = FALSE,
                !.hold = Unresolved(disk.intent), !.cool = disk.floor,
                !.claimed = {}, !.cut = {}, !.clean = FALSE]
  /\ att' = [a \in Attempts |-> IF att[a].caller = "idle" THEN att[a]
                                ELSE [Fresh EXCEPT !.caller = "gone", !.outcome = "gone",
                                                   !.settled = TRUE]]
  /\ count' = [count EXCEPT !.crash = @ + 1]
  /\ UNCHANGED <<disk, exposed, penalty>>

\* Telegram's wait is over, and the gate's, which has a buffer, too
WaitPasses ==
  /\ gate.cool \/ disk.floor \/ penalty
  /\ gate' = [gate EXCEPT !.cool = FALSE]
  /\ disk' = [disk EXCEPT !.floor = FALSE]
  /\ penalty' = FALSE
  /\ UNCHANGED <<att, count, exposed>>

\* a method's floor, five minutes or more, outlives every request's deadline
FloorPasses(k) ==
  /\ disk.method[k].floor
  /\ \A a \in Attempts : Kind[a] = k => Open(a) \/ att[a].place = "none"
  /\ disk' = [disk EXCEPT !.method[k].floor = FALSE]
  /\ UNCHANGED <<att, gate, count, exposed, penalty>>

Next ==
  \/ \E a \in Attempts :
       \/ Send(a) \/ Offer(a) \/ Intend(a) \/ Admit(a) \/ AdmissionExpires(a)
       \/ Permit(a) \/ Write(a) \/ WriteFails(a) \/ Resend(a)
       \/ Answer(a, "ok") \/ Answer(a, "error") \/ Answer(a, "flood")
       \/ SaveReceipt(a) \/ Settle(a) \/ Cancel(a) \/ Timeout(a)
  \/ Drop \/ Reconnect \/ GiveUp \/ Close \/ Contain \/ Restart
  \/ WaitPasses \/ \E k \in Kinds : FloorPasses(k)

Spec == Init /\ [][Next]_vars

\* A preparation and the send loop, and a receipt and its settlement, are tasks
\* that go on; a caller's deadline passes; a lost connection comes back or is given up.
Prepares(a) == Offer(a) \/ Intend(a) \/ AdmissionExpires(a) \/ Permit(a) \/ Write(a)
Finishes(a) == SaveReceipt(a) \/ Settle(a)
Fairness ==
  /\ \A a \in Attempts : WF_vars(Prepares(a)) /\ WF_vars(Finishes(a)) /\ WF_vars(Timeout(a))
  /\ WF_vars(Reconnect \/ GiveUp) /\ WF_vars(Contain)
FairSpec == Spec /\ Fairness

-----------------------------------------------------------------------------
(* Properties *)

\* Types of the variables.
TypeOK ==
  /\ att \in [Attempts -> AttemptType]
  /\ gate \in [link : {"up", "down", "closing", "closed", "failed"}, token : Nat,
               fault : BOOLEAN, hold : BOOLEAN, failed : BOOLEAN, cool : BOOLEAN,
               claimed : SUBSET Attempts, cut : SUBSET Attempts, clean : BOOLEAN]
  /\ disk \in [intent : [Attempts -> {"none", "prepared", "unknown", "retry"}],
               protection : BOOLEAN, floor : BOOLEAN,
               method : [Kinds -> EpisodeType]]
  /\ count \in [drop : 0..MaxDrop, salt : 0..MaxSalt, crash : 0..MaxCrash, fail : 0..MaxFail]
  /\ exposed \in SUBSET Attempts /\ penalty \in BOOLEAN

\* A request that was written and never answered stays in the saved record,
\* whatever became of its caller, its connection or its process
\* (TelegramRpcSafetyLedger.prepare before the write, complete after it).
UnlearntIsRecorded == \A a \in exposed : disk.intent[a] # "none"

\* Nothing is written while the outcome of another request is unlearnt and its
\* future has failed, unless that request is a read whose retry is recorded, or is
\* being recorded and the write is of another method (wire fault, startup hold, protection, storage failure: each covers a
\* stretch of the way from the failed future to the record of the next process).
FencedWrite ==
  \A a \in Attempts : att'[a].claims > att[a].claims =>
    \A b \in exposed :
      \/ Open(b)
      \/ Kind[b] = "read" /\ disk.intent[b] = "retry"
      \/ att[b].receipt = "read" /\ Kind[a] # Kind[b]
WritesAreFenced == [][FencedWrite]_vars

\* Nothing is written while a flood wait that Telegram announced still runs, even
\* when the process dies between the answer and its receipt (_record_flood,
\* _settle_flood_receipt, _restore_startup_protection).
WriteInCalm == \A a \in Attempts : att'[a].claims > att[a].claims => ~penalty
FloodRespected == [][WriteInCalm]_vars

\* While a method is under recovery one request at a time carries its permission
\* on the wire: two requests written under the same generation are never both
\* without an outcome (prepare_method_trial, method_claim_valid).
OneTrial ==
  \A a, b \in Attempts :
    a # b /\ Kind[a] = Kind[b] /\ Live(a)
          /\ {a, b} \subseteq WrittenOpen
          /\ att[a].sent = Episode(a).generation => att[b].sent # att[a].sent

\* A request that has an outcome keeps a slot only until its settlement, or
\* while a preparation or a packet of its resend is still on the way to the writer;
\* slots are never handed out past the limit (complete, defer_write, observe_result).
SlotHasOwner ==
  /\ InUse <= Slots
  /\ \A a \in Attempts : att[a].slot /\ att[a].settled => att[a].place \in {"trial", "packet"}

\* After a clean shutdown the record is protected only for a request that really
\* is unresolved: reads cut off by the shutdown do not lock the account
\* (_contain_shutdown_reads, _clear_shutdown_read_protection).
ClosedIsClean ==
  gate.link = "closed" /\ ~gate.failed /\ disk.protection => Unresolved(disk.intent)

\* A permission is not left with a request that has its outcome and its settlement
\* while the process that gave it out goes on (_settle_method clears the claim).
PermissionReturns ==
  \A a \in Attempts : Episode(a).claim = a /\ att[a].caller # "gone" /\ ~gate.failed
                        => ~att[a].settled

\* Slots, permissions and trials are held by their owners only, and what is not
\* known is on record, also after a clean shutdown.
WireSound ==
  /\ SlotHasOwner /\ OneTrial /\ PermissionReturns /\ UnlearntIsRecorded /\ ClosedIsClean

\* Every caller of the gate comes back: with the answer, an error, or its deadline
\* (_AdmissionAwareSender._send and _settle_timeout).
CallersReturn ==
  \A a \in Attempts : att[a].caller = "waiting" ~> att[a].caller \notin {"waiting", "draining"}

\* The slot of a request that has an outcome is given back
\* (observe_result's finally, defer_packet for a resend that comes too late).
SlotsReturn == \A a \in Attempts : ~Open(a) /\ att[a].slot ~> ~att[a].slot

\* test_abandoned_actual_future_keeps_capacity_and_records_later_flood: a written
\* request whose caller left keeps its slot until its answer. So one that holds a
\* slot is where an answer, a write or a refusal can still reach it.
NothingStranded ==
  \A a \in Attempts : Open(a) /\ att[a].slot => att[a].place # "none"
=============================================================================
