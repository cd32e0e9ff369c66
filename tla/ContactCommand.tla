--------------------------- MODULE ContactCommand ---------------------------
(***************************************************************************)
(* Native contact commands on one peer of one account                      *)
(* (contacts/commands.py, contacts/domain.py, contacts/receipts.py,         *)
(* contacts/intake.py), the part of the RPC gate and of the safety ledger   *)
(* they use (telegram_rpc.py, native_write_fence.py), and the profile       *)
(* refresh that reads back what was written (daemon_entity_info.py).        *)
(*                                                                          *)
(* A command reads the contact (preflight), reserves a durable receipt,     *)
(* arms a permit, binds the receipt to one wire attempt, records the        *)
(* intent, and writes only if nothing it relied on has changed.  The gate   *)
(* settles the receipt from the wire result even when the command is gone.  *)
(* An unknown outcome quarantines the peer until a later observation.       *)
(*                                                                          *)
(* A contact is a member of Values.  Observation orders are the durable     *)
(* sequence `clock`; order 0 is "never observed".                           *)
(***************************************************************************)
EXTENDS Naturals, FiniteSets, Sequences

CONSTANTS
    Keys,        \* operation keys: each names one command of the caller
    Values,      \* the contact values told apart
    MaxOrder,    \* bound: observation orders that may be allocated
    MaxRestarts, \* bound: restarts
    MaxPush,     \* bound: profile updates received
    MaxOther,    \* bound: changes of the contact made by other devices
    MaxReset,    \* bound: UpdateContactsReset and identity changes
    MaxRefresh,  \* bound: profile refreshes asked for by others
    MaxFail,     \* bound: reads that fail
    MaxBegin     \* bound: commands that reach their preflight

ASSUME ContactAssumption ==
    /\ MaxOrder \in Nat /\ MaxRestarts \in Nat /\ MaxPush \in Nat /\ MaxOther \in Nat
    /\ MaxReset \in Nat /\ MaxRefresh \in Nat /\ MaxFail \in Nat /\ MaxBegin \in Nat

VARIABLES
    \* Telegram
    tg, net, others,
    \* the databases: sync.db and the safety ledger
    clock, local, rec, intent, profile, follow,
    \* the process
    up, startup, cmd, request, fetch, gen, delivered, scopeGen, waiting,
    \* bounds and history
    crashes, pushes, resets, asked, fails, begun, sent, dirty, proof

remote == <<tg, net, others>>
disk     == <<clock, local, rec, intent, profile, follow>>
fences   == <<gen, delivered, scopeGen>>
bounds   == <<crashes, pushes, resets, asked, fails, begun>>
ghosts  == <<sent, dirty, proof>>
contactVars == <<remote, disk, up, startup, cmd, request, fetch, fences, waiting, bounds, ghosts>>

NoMark  == <<>>
Readers == {"cmd", "refresh"}
NoCmd   == [pc |-> "idle", key |-> 0, want |-> 0, ver |-> 0, ord |-> 0,
            noop |-> FALSE, intake |-> NoMark, permit |-> NoMark]
NoFetch == [st |-> "off", ord |-> 0, mark |-> NoMark, val |-> 0, after |-> {}]
NoWire  == [st |-> "none", revoked |-> FALSE]
NoRec   == [outcome |-> "none", want |-> 0, bound |-> FALSE, term |-> 0,
            ver |-> "pending", verOrd |-> 0]

Outcomes  == {"none", "pending", "unchanged", "acknowledged", "rejected", "unknown"}
Terminal  == {"acknowledged", "rejected", "unknown"}
Verdicts  == {"pending", "verified", "mismatch", "inconclusive", "observed"}

-----------------------------------------------------------------------------
(* Fences.  gen and delivered are the two counters of the tracked peer; they *)
(* start from zero each time the peer becomes tracked.                       *)

Tracked(c, f) == c.pc # "idle" \/ \E r \in Readers : f[r].st # "off"

Marker(c, f) == IF Tracked(c, f) THEN <<scopeGen, delivered>> ELSE NoMark

IntakeCurrent(mark) == /\ Tracked(cmd, fetch)
                       /\ mark = <<scopeGen, delivered>>

\* Counters after a step: forgotten when the last tracker leaves.
Count(dg, dd) == LET on == Tracked(cmd', fetch')
                 IN  /\ gen' = IF on THEN gen + dg ELSE 0
                     /\ delivered' = IF on THEN delivered + dd ELSE 0

KeepCount == Count(0, 0) /\ UNCHANGED scopeGen

Holds(k) == cmd.pc # "idle" /\ cmd.key = k

-----------------------------------------------------------------------------
(* Receipts                                                                  *)

Quarantining(k) == \/ rec[k].outcome = "pending"
                   \/ rec[k].outcome = "unknown" /\ rec[k].ver # "observed"
\* (mutant) a pending receipt does not hold the peer
UnknownQuarantined == \E k \in Keys : rec[k].outcome = "unknown" /\ rec[k].ver # "observed"

PeerQuarantined == \E k \in Keys : Quarantining(k)

\* The receipt still needs an observation later than its terminal order.
VerificationPending(r) == r.outcome \in {"unknown", "acknowledged"} /\ r.ver = "pending"
NeedsRefinement == \E k \in Keys : /\ rec[k].outcome \in {"unknown", "acknowledged"}
                                   /\ rec[k].ver \in {"pending", "inconclusive"}

\* (mutant) an observation refines whatever its order
RefinedAnyUnknown(r, ord) ==
    IF r.outcome = "unknown" /\ r.ver # "observed" THEN [r EXCEPT !.ver = "observed", !.verOrd = ord] ELSE r

\* What an accepted observation says of a receipt that was terminal before it.
RefinedUnknown(r, ord) ==
    IF r.outcome = "unknown" /\ r.ver # "observed" /\ r.term < ord
    THEN [r EXCEPT !.ver = "observed", !.verOrd = ord] ELSE r
RefinedAcknowledged(r, ord, val) ==
    IF r.outcome = "acknowledged" /\ r.ver \in {"pending", "inconclusive"} /\ r.term < ord
    THEN [r EXCEPT !.ver = IF val = r.want THEN "verified" ELSE "mismatch", !.verOrd = ord] ELSE r
Refined(rs, o) == [k \in Keys |-> RefinedAcknowledged(RefinedUnknown(rs[k], o.ord), o.ord, o.val)]

\* A refresh closes the obligations that precede it, whatever it could say.
FinishAttempt(rs, ord) ==
    [k \in Keys |-> IF VerificationPending(rs[k]) /\ rs[k].term < ord
                    THEN [rs[k] EXCEPT !.ver = "inconclusive"] ELSE rs[k]]

\* History: where the evidence of each verdict came from.
Proven(o) == [k \in Keys |-> IF rec'[k].ver # rec[k].ver /\ rec'[k].ver \in {"verified", "mismatch", "observed"}
                             THEN [src |-> o.src, after |-> k \in o.after] ELSE proof[k]]

\* (mutant) the terminal order is taken past the sequence
WireOutcomeAhead(r, outcome) == [r EXCEPT !.outcome = outcome, !.term = clock + 2]

WireOutcome(r, outcome) == [r EXCEPT !.outcome = outcome, !.term = clock + 1]

\* (mutant) a refresh that is running absorbs the request
OfferCoalesced == profile' = (IF profile = "idle" THEN "profile" ELSE profile) /\ UNCHANGED follow

\* request_note_reconciliation: start a refresh, or ask for one more after it.
Offer == IF profile = "idle" THEN profile' = "profile" /\ UNCHANGED follow
                             ELSE follow' = TRUE /\ UNCHANGED profile
NoOffer == UNCHANGED <<profile, follow>>

-----------------------------------------------------------------------------
ContactInit ==
    /\ tg \in Values /\ net = [k \in Keys |-> "none"] /\ others = 0
    /\ clock = 0
    /\ local = [val |-> 0, ord |-> 0, src |-> "none", after |-> {}]
    /\ rec = [k \in Keys |-> NoRec] /\ intent = [k \in Keys |-> "none"]
    /\ profile = "idle" /\ follow = FALSE
    /\ up = "up" /\ startup = FALSE
    /\ cmd = NoCmd /\ request = [k \in Keys |-> NoWire] /\ fetch = [r \in Readers |-> NoFetch]
    /\ gen = 0 /\ delivered = 0 /\ scopeGen = 0 /\ waiting = <<>>
    /\ crashes = 0 /\ pushes = 0 /\ resets = 0 /\ asked = 0 /\ fails = 0 /\ begun = 0
    /\ sent = [k \in Keys |-> 0] /\ dirty = FALSE
    /\ proof = [k \in Keys |-> [src |-> "none", after |-> TRUE]]

-----------------------------------------------------------------------------
(* The command                                                               *)

\* (mutant) a key whose outcome is unknown is tried again
NoPriorKnown(k) == rec[k].outcome \in {"none", "unknown"}

\* No receipt of the key: a receipt is replayed, whatever its outcome.
NoPrior(k) == rec[k].outcome = "none"

\* _locked up to the preflight: prior receipt, quarantine, watch.
Begin(k, want, ver) ==
    /\ up = "up" /\ cmd.pc = "idle"
    /\ begun < MaxBegin /\ begun' = begun + 1
    /\ NoPrior(k)
    /\ ~PeerQuarantined
    /\ cmd' = [NoCmd EXCEPT !.pc = "acquire", !.key = k, !.want = want, !.ver = ver,
               !.intake = <<scopeGen, IF Tracked(cmd, fetch) THEN delivered ELSE 0>>]
    /\ UNCHANGED <<remote, disk, up, startup, request, fetch, waiting, crashes, pushes, resets, asked, fails, ghosts>>
    /\ KeepCount

\* The command ends: the watch is left and its permit dropped.
Ended == cmd' = NoCmd

\* The owner starts an acquisition: a marker, then an order, then the request.
StartFetch(r) == /\ clock < MaxOrder
                 /\ clock' = clock + 1
                 /\ fetch' = [fetch EXCEPT ![r] = [NoFetch EXCEPT !.st = "sent", !.ord = clock + 1,
                              !.mark = Marker(cmd', fetch)]]

AcquireStart ==
    /\ cmd.pc \in {"acquire", "post"} /\ fetch["cmd"].st = "off"
    \* the read back has a watch of its own
    /\ cmd' = IF cmd.pc = "post" THEN [cmd EXCEPT !.intake = <<scopeGen, delivered>>] ELSE cmd
    /\ StartFetch("cmd") /\ KeepCount
    /\ UNCHANGED <<remote, local, rec, intent, profile, follow, up, startup, request, waiting, bounds, ghosts>>

\* Telegram answers a read.  after: the receipts settled before the answer.
Serve(r) ==
    /\ fetch[r].st = "sent"
    /\ \/ /\ fetch' = [fetch EXCEPT ![r].st = "got", ![r].val = tg,
                                    ![r].after = {k \in Keys : rec[k].outcome \in Terminal}]
          /\ UNCHANGED fails
       \/ /\ fails < MaxFail /\ fails' = fails + 1
          /\ fetch' = [fetch EXCEPT ![r].st = "failed"]
    /\ dirty' = (dirty /\ r # "cmd")
    /\ UNCHANGED <<remote, disk, up, startup, cmd, request, waiting, crashes, pushes, resets, asked, begun, sent, proof>>
    /\ KeepCount

\* publication_current: nothing about the peer was delivered since the marker.
PublicationCurrent(r) == IntakeCurrent(fetch[r].mark)

\* The canonical evidence after an observation: the greatest order wins.
Canonical(o) == IF o.ord > local.ord THEN o ELSE local

FetchedBy(r) == [val |-> fetch[r].val, ord |-> fetch[r].ord, src |-> "fetch", after |-> fetch[r].after]

\* The publication of an acquisition of the command, with its refinement.
CommandPublish ==
    LET o == FetchedBy("cmd")
    IN  /\ fetch["cmd"].st = "got"
        /\ IF PublicationCurrent("cmd")
           THEN /\ local' = Canonical(o)
                /\ rec' = IF local' = o THEN Refined(rec, o) ELSE rec
                /\ fetch' = [fetch EXCEPT !["cmd"].st = IF local' = o THEN "done" ELSE "failed"]
           ELSE /\ fetch' = [fetch EXCEPT !["cmd"].st = "failed"]
                /\ UNCHANGED <<local, rec>>
        /\ proof' = Proven(o)
        /\ UNCHANGED <<remote, clock, intent, profile, follow, up, startup, cmd, request, scopeGen,
                       waiting, bounds, sent, dirty>>
        /\ Count(IF local' # local THEN 1 ELSE 0, 0)

\* _preflight after the acquisition.
Fresh == /\ fetch["cmd"].st = "done"
         /\ local.ord = fetch["cmd"].ord
         /\ IntakeCurrent(cmd.intake)

Judge ==
    /\ cmd.pc = "acquire" /\ fetch["cmd"].st \in {"done", "failed"}
    /\ IF Fresh /\ local.val = cmd.ver
       THEN cmd' = [cmd EXCEPT !.pc = "reserve", !.ord = local.ord, !.noop = (cmd.want = local.val)]
       ELSE Ended
    /\ fetch' = [fetch EXCEPT !["cmd"] = NoFetch]
    /\ UNCHANGED <<remote, disk, up, startup, request, waiting, bounds, ghosts>>
    /\ KeepCount

\* _current: the version and the order the preflight accepted still hold.
StillCurrent == /\ IntakeCurrent(cmd.intake)
           /\ local.val = cmd.ver
           /\ local.ord = cmd.ord

\* reserve_operation, in one transaction.
Reserve ==
    /\ cmd.pc = "reserve"
    /\ IF PeerQuarantined \/ (cmd.noop /\ ~StillCurrent)
       THEN Ended /\ UNCHANGED rec
       ELSE IF cmd.noop
       THEN /\ rec' = [rec EXCEPT ![cmd.key] = [NoRec EXCEPT !.outcome = "unchanged", !.want = cmd.want,
                                                !.ver = "verified", !.verOrd = cmd.ord]]
            /\ Ended
       ELSE /\ rec' = [rec EXCEPT ![cmd.key] = [NoRec EXCEPT !.outcome = "pending", !.want = cmd.want]]
            /\ cmd' = [cmd EXCEPT !.pc = "arm"]
    /\ UNCHANGED <<remote, clock, local, intent, profile, follow, up, startup, request, fetch, waiting, bounds, ghosts>>
    /\ KeepCount

\* ContactWriteWatch.arm
Arm ==
    /\ cmd.pc = "arm"
    /\ cmd' = IF IntakeCurrent(cmd.intake)
              THEN [cmd EXCEPT !.pc = "bind", !.permit = <<scopeGen, gen>>]
              ELSE [cmd EXCEPT !.pc = "clean"]
    /\ UNCHANGED <<remote, disk, up, startup, request, fetch, waiting, bounds, ghosts>>
    /\ KeepCount

\* _prepare_native_write: the receipt is bound to the attempt first ...
BindAttempt ==
    /\ cmd.pc = "bind"
    /\ rec' = [rec EXCEPT ![cmd.key].bound = TRUE]
    /\ cmd' = [cmd EXCEPT !.pc = "intend"]
    /\ UNCHANGED <<remote, clock, local, intent, profile, follow, up, startup, request, fetch, waiting, bounds, ghosts>>
    /\ KeepCount

\* ... and the ledger records the intent after it.
PrepareIntent ==
    /\ cmd.pc = "intend"
    /\ intent' = [intent EXCEPT ![cmd.key] = "prepared"]
    /\ cmd' = [cmd EXCEPT !.pc = "tokens"]
    /\ UNCHANGED <<remote, clock, local, rec, profile, follow, up, startup, request, fetch, waiting, bounds, ghosts>>
    /\ KeepCount

\* The attempt ends without a claim: its bound receipt is settled as rejected.
Refused == /\ request' = [request EXCEPT ![cmd.key].st = "reject"]
           /\ cmd' = [cmd EXCEPT !.pc = "clean"]

\* _native_preclaim_tokens: revalidate and preclaim, after the admission.
PreclaimTokens ==
    /\ cmd.pc = "tokens"
    /\ IF StillCurrent /\ rec[cmd.key].outcome = "pending"
       THEN cmd' = [cmd EXCEPT !.pc = "claim"] /\ UNCHANGED request
       ELSE Refused
    /\ UNCHANGED <<remote, disk, up, startup, fetch, waiting, bounds, ghosts>>
    /\ KeepCount

\* (mutant) the claim forgets the permit
ClaimIntakeCurrent == IntakeCurrent(cmd.intake)

\* The two tokens, asked again at the physical claim.
ClaimCurrent == IntakeCurrent(cmd.intake) /\ cmd.permit = <<scopeGen, gen>>

ClaimWrite ==
    /\ cmd.pc = "claim"
    /\ IF ClaimCurrent
       THEN /\ net' = [net EXCEPT ![cmd.key] = "sent"]
            /\ sent' = [sent EXCEPT ![cmd.key] = @ + 1]
            /\ request' = [request EXCEPT ![cmd.key].st = "sent"]
            /\ cmd' = [cmd EXCEPT !.pc = "wire"]
       ELSE Refused /\ UNCHANGED <<net, sent>>
    /\ UNCHANGED <<tg, others, disk, up, startup, fetch, waiting, bounds, dirty, proof>>
    /\ KeepCount

\* The permit was refused by the gate: the packet is prepared again.
ClaimRefused ==
    /\ cmd.pc = "claim"
    /\ cmd' = [cmd EXCEPT !.pc = "bind"]
    /\ UNCHANGED <<remote, disk, up, startup, request, fetch, waiting, bounds, ghosts>>
    /\ KeepCount

\* The client's call returns once the attempt is settled.
CallReturns ==
    /\ cmd.pc = "wire" /\ request[cmd.key].st = "none"
    /\ cmd' = [cmd EXCEPT !.pc = IF rec[cmd.key].outcome = "acknowledged" THEN "post" ELSE "clean"]
    /\ UNCHANGED <<remote, disk, up, startup, request, fetch, waiting, bounds, ghosts>>
    /\ KeepCount

\* _postflight after the read back.
PostJudge ==
    /\ cmd.pc = "post" /\ fetch["cmd"].st \in {"done", "failed"}
    /\ IF Fresh
       THEN cmd' = [cmd EXCEPT !.pc = "verify", !.ord = local.ord] /\ NoOffer
       ELSE Ended /\ (IF rec[cmd.key].ver = "pending" THEN Offer ELSE NoOffer)
    /\ fetch' = [fetch EXCEPT !["cmd"] = NoFetch]
    /\ UNCHANGED <<remote, clock, local, rec, intent, up, startup, request, waiting, bounds, ghosts>>
    /\ KeepCount

\* record_verification, in one transaction, or the verdict already there.
PublishVerification ==
    LET k == cmd.key
        guard == IntakeCurrent(cmd.intake) /\ local.ord = cmd.ord
    IN  /\ cmd.pc = "verify"
        /\ rec' = IF guard THEN [rec EXCEPT ![k] = RefinedAcknowledged(@, cmd.ord, local.val)] ELSE rec
        /\ proof' = Proven(local)
        /\ IF rec'[k].ver = "pending" THEN Offer ELSE NoOffer
        /\ Ended
        /\ UNCHANGED <<remote, clock, local, intent, up, startup, request, fetch, waiting, bounds, sent, dirty>>
        /\ KeepCount

\* (mutant) the cleanup rejects a receipt an attempt is bound to
RejectPending(r) == IF r.outcome = "pending" THEN [r EXCEPT !.outcome = "rejected"] ELSE r

\* _reject_unclaimed: only a receipt no attempt was bound to.
RejectUnclaimed(r) == IF r.outcome = "pending" /\ ~r.bound THEN [r EXCEPT !.outcome = "rejected"] ELSE r

\* _cleanup, which a cancellation does not interrupt.
Cleanup ==
    /\ cmd.pc = "clean"
    /\ rec' = [rec EXCEPT ![cmd.key] = RejectUnclaimed(@)]
    /\ Offer
    /\ Ended
    /\ UNCHANGED <<remote, clock, local, intent, up, startup, request, fetch, waiting, bounds, ghosts>>
    /\ KeepCount

\* A cancellation or the command's deadline.  A write on the wire is abandoned.
Cancel ==
    /\ cmd.pc \in {"acquire", "arm", "bind", "intend", "tokens", "claim", "wire", "post", "verify"}
    /\ fetch' = [fetch EXCEPT !["cmd"] = NoFetch]
    /\ CASE cmd.pc = "acquire" -> Ended /\ UNCHANGED request
         [] cmd.pc \in {"bind", "intend", "tokens", "claim"} /\ rec[cmd.key].bound -> Refused
         [] cmd.pc = "wire" -> /\ request' = [request EXCEPT ![cmd.key].revoked = (@ \/ request[cmd.key].st # "none")]
                               /\ cmd' = [cmd EXCEPT !.pc = "clean"]
         [] OTHER -> cmd' = [cmd EXCEPT !.pc = "clean"] /\ UNCHANGED request
    /\ UNCHANGED <<remote, disk, up, startup, waiting, bounds, ghosts>>
    /\ KeepCount

-----------------------------------------------------------------------------
(* The wire attempt, settled by the gate                                     *)

\* What Telegram does with a write it was sent.
TelegramApplies(k) == /\ net[k] = "sent"
                      /\ net' = [net EXCEPT ![k] = "applied"] /\ tg' = rec[k].want
                      /\ UNCHANGED <<others, disk, up, startup, cmd, request, fetch, fences, waiting, bounds, ghosts>>
TelegramRefuses(k) == /\ net[k] = "sent"
                      /\ net' = [net EXCEPT ![k] = "refused"]
                      /\ UNCHANGED <<tg, others, disk, up, startup, cmd, request, fetch, fences, waiting, bounds, ghosts>>

\* _native_outcome
PossibleOutcomes(k) ==
    IF request[k].st = "reject" THEN {"rejected"}
    ELSE {"unknown"} \cup (IF net[k] = "applied" THEN {"acknowledged"} ELSE {})
                     \cup (IF net[k] = "refused" THEN {"rejected"} ELSE {})

\* _settle_native_result, the receipt: a terminal outcome is decided once.
SettleReceipt(k, outcome) ==
    /\ request[k].st \in {"sent", "reject"} /\ clock < MaxOrder
    /\ outcome \in PossibleOutcomes(k)
    /\ rec' = [rec EXCEPT ![k] = IF @.outcome = "pending" THEN WireOutcome(@, outcome) ELSE @]
    /\ clock' = clock + 1
    /\ request' = [request EXCEPT ![k].st = IF @ = "sent" THEN "settled" ELSE "closed"]
    /\ UNCHANGED <<remote, local, intent, profile, follow, up, startup, cmd, fetch, fences, waiting, bounds, ghosts>>

\* (mutant) nobody is told of the late end of an abandoned attempt
NeverAbandoned(k) == FALSE

\* _notify_detached_native_terminal: the command is gone, the write was sent.
Abandoned(k) == request[k].st = "settled" /\ request[k].revoked /\ rec[k].outcome \in {"acknowledged", "unknown"}

\* _settle_native_result, the ledger, and the notice of an abandoned attempt.
SettleLedger(k) ==
    /\ request[k].st \in {"settled", "closed"}
    /\ intent' = [intent EXCEPT ![k] = IF @ # "prepared" THEN @
                                       ELSE IF rec[k].outcome = "unknown" THEN "contained" ELSE "done"]
    /\ IF Abandoned(k) THEN Offer ELSE NoOffer
    /\ request' = [request EXCEPT ![k] = NoWire]
    /\ UNCHANGED <<remote, clock, local, rec, up, startup, cmd, fetch, fences, waiting, bounds, ghosts>>

-----------------------------------------------------------------------------
(* The profile refresh                                                       *)

\* Others ask for a refresh of the profile.
AskRefresh ==
    /\ up = "up" /\ profile = "idle" /\ asked < MaxRefresh
    /\ asked' = asked + 1 /\ profile' = "profile"
    /\ UNCHANGED <<remote, clock, local, rec, intent, follow, up, startup, cmd, request, fetch, fences,
                   waiting, crashes, pushes, resets, fails, begun, ghosts>>

\* settle_native_verification from what is stored, then the section is either
\* complete or fetched.
RefreshStart ==
    /\ up = "up" /\ profile = "profile" /\ fetch["refresh"].st = "off"
    /\ rec' = IF NeedsRefinement /\ local.ord > 0 THEN Refined(rec, local) ELSE rec
    /\ proof' = Proven(local)
    /\ IF \E k \in Keys : VerificationPending(rec'[k])
       THEN /\ clock < MaxOrder /\ clock' = clock + 1
            /\ fetch' = [fetch EXCEPT !["refresh"] = [NoFetch EXCEPT !.st = "sent", !.ord = clock + 1,
                         !.mark = <<scopeGen, IF Tracked(cmd, fetch) THEN delivered ELSE 0>>]]
            /\ UNCHANGED profile
       ELSE profile' = "rest" /\ UNCHANGED <<clock, fetch>>
    /\ UNCHANGED cmd
    /\ UNCHANGED <<remote, local, intent, follow, up, startup, request, waiting, bounds, sent, dirty>>
    /\ KeepCount

\* The commit of the fetched section with its refinement; a fence that moved
\* leaves the section to be tried again.
RefreshPublish ==
    LET o == FetchedBy("refresh")
    IN  /\ fetch["refresh"].st \in {"got", "failed"}
        /\ fetch' = [fetch EXCEPT !["refresh"] = NoFetch]
        /\ IF fetch["refresh"].st = "got" /\ PublicationCurrent("refresh")
           THEN /\ local' = Canonical(o)
                /\ rec' = FinishAttempt(IF local' = o THEN Refined(rec, o) ELSE rec, o.ord)
                /\ profile' = "rest"
           ELSE UNCHANGED <<local, rec, profile>>
        /\ proof' = Proven(o)
        /\ UNCHANGED <<cmd, scopeGen>>
        /\ Count(IF local' # local THEN 1 ELSE 0, 0)
        /\ UNCHANGED <<remote, clock, intent, follow, up, startup, request, waiting, bounds, sent, dirty>>

\* The other sections are done: a follow-up starts a new refresh.
RefreshDone ==
    /\ up = "up" /\ profile = "rest"
    /\ profile' = IF follow THEN "profile" ELSE "idle"
    /\ follow' = FALSE
    /\ UNCHANGED <<remote, clock, local, rec, intent, up, startup, cmd, request, fetch, fences, waiting, bounds, ghosts>>

-----------------------------------------------------------------------------
(* Telegram's updates                                                        *)

\* Another device changes the contact.
OtherDevice(v) == /\ others < MaxOther /\ v # tg
                  /\ tg' = v /\ others' = others + 1
                  /\ UNCHANGED <<net, disk, up, startup, cmd, request, fetch, fences, waiting, bounds, ghosts>>

\* An update with the user's profile is received.  One that names the user
\* moves the fences at once; one that only bundles the user does not.
CapturePush(named) ==
    /\ up = "up" /\ pushes < MaxPush
    /\ pushes' = pushes + 1
    /\ waiting' = Append(waiting, [val |-> tg, after |-> {k \in Keys : rec[k].outcome \in Terminal}])
    /\ UNCHANGED <<cmd, fetch, scopeGen>>
    /\ IF named THEN Count(1, 1) ELSE Count(0, 0)
    /\ dirty' = (dirty \/ named)
    /\ UNCHANGED <<remote, disk, up, startup, request, crashes, resets, asked, fails, begun, sent, proof>>

\* It is admitted and applied when the updates before it are done: its order
\* is allocated then.
ApplyPush ==
    /\ waiting # <<>> /\ clock < MaxOrder
    /\ clock' = clock + 1
    /\ local' = [val |-> Head(waiting).val, ord |-> clock + 1, src |-> "push", after |-> Head(waiting).after]
    /\ waiting' = Tail(waiting)
    /\ UNCHANGED <<cmd, fetch, scopeGen>>
    /\ Count(1, 0)
    /\ UNCHANGED <<remote, rec, intent, profile, follow, up, startup, request, bounds, ghosts>>

\* UpdateContactsReset, or another authorization scope.
ResetScope ==
    /\ up = "up" /\ resets < MaxReset
    /\ resets' = resets + 1 /\ scopeGen' = scopeGen + 1
    /\ dirty' = TRUE
    /\ UNCHANGED <<remote, disk, up, startup, cmd, request, fetch, gen, delivered, waiting,
                   crashes, pushes, asked, fails, begun, sent, proof>>

-----------------------------------------------------------------------------
(* Crash and restart                                                         *)

Crash ==
    /\ crashes < MaxRestarts
    /\ crashes' = crashes + 1
    /\ up' = "down" /\ startup' = FALSE
    /\ cmd' = NoCmd /\ request' = [k \in Keys |-> NoWire] /\ fetch' = [r \in Readers |-> NoFetch]
    /\ gen' = 0 /\ delivered' = 0 /\ scopeGen' = 0 /\ waiting' = <<>>
    /\ UNCHANGED <<remote, disk, pushes, resets, asked, fails, begun, ghosts>>

\* (mutant) the startup only validates the receipt
UnrecoveredBinding(r) == r

\* _reconcile_native_receipts: recover the bound receipt, then contain the intent.
RecoveredBinding(r) == IF r.outcome = "pending" /\ r.bound THEN WireOutcome(r, "unknown") ELSE r
ReconcileIntents ==
    /\ up = "down" /\ clock < MaxOrder
    /\ clock' = clock + 1
    /\ rec' = [k \in Keys |-> IF intent[k] = "prepared" THEN RecoveredBinding(rec[k]) ELSE rec[k]]
    /\ intent' = [k \in Keys |-> IF intent[k] = "prepared" /\ rec'[k].bound /\ rec'[k].outcome \in Terminal
                                 THEN "contained" ELSE intent[k]]
    /\ up' = "safe"
    /\ UNCHANGED <<remote, local, profile, follow, startup, cmd, request, fetch, fences, waiting, bounds, ghosts>>

\* recover_interrupted_operations, before commands are admitted.
RecoverInterrupted ==
    /\ up = "safe" /\ clock < MaxOrder
    /\ clock' = clock + 1
    /\ rec' = [k \in Keys |-> IF rec[k].outcome = "pending" THEN WireOutcome(rec[k], "unknown") ELSE rec[k]]
    /\ up' = "up" /\ startup' = TRUE
    /\ UNCHANGED <<remote, local, intent, profile, follow, cmd, request, fetch, fences, waiting, bounds, ghosts>>

\* _reconcile_note_receipts: offer what is still unresolved.
OfferUnresolved ==
    /\ startup /\ startup' = FALSE
    /\ IF \E k \in Keys : VerificationPending(rec[k]) THEN Offer ELSE NoOffer
    /\ UNCHANGED <<remote, clock, local, rec, intent, up, cmd, request, fetch, fences, waiting, bounds, ghosts>>

-----------------------------------------------------------------------------
Command == \/ \E k \in Keys, want, ver \in Values : Begin(k, want, ver)
           \/ AcquireStart \/ CommandPublish \/ Judge \/ Reserve \/ Arm \/ BindAttempt \/ PrepareIntent
           \/ PreclaimTokens \/ ClaimWrite \/ ClaimRefused \/ CallReturns \/ PostJudge
           \/ PublishVerification \/ Cleanup \/ Cancel
Wire == \E k \in Keys : \/ TelegramApplies(k) \/ TelegramRefuses(k)
                        \/ \E o \in Terminal : SettleReceipt(k, o)
                        \/ SettleLedger(k)
Refresh == AskRefresh \/ RefreshStart \/ RefreshPublish \/ RefreshDone
World == \/ \E r \in Readers : Serve(r)
         \/ \E v \in Values : OtherDevice(v)
         \/ \E named \in BOOLEAN : CapturePush(named)
         \/ ApplyPush \/ ResetScope
Restarting == Crash \/ ReconcileIntents \/ RecoverInterrupted \/ OfferUnresolved

ContactNext == Command \/ Wire \/ Refresh \/ World \/ Restarting

ContactSpec == ContactInit /\ [][ContactNext]_contactVars

-----------------------------------------------------------------------------
(* What is expected                                                          *)

Marks == {NoMark} \cup (Nat \X Nat)
Contents == Values \cup {0}
Sources == {"none", "fetch", "push"}
Stages == {"idle", "acquire", "reserve", "arm", "bind", "intend", "tokens", "claim", "wire",
           "post", "verify", "clean"}

Receipt == [outcome : Outcomes, want : Contents, bound : BOOLEAN, term : 0..clock,
            ver : Verdicts, verOrd : 0..clock]
Evidence == [val : Contents, ord : 0..clock, src : Sources, after : SUBSET Keys]
Acquisition == [st : {"off", "sent", "got", "done", "failed"}, ord : 0..clock, mark : Marks,
                val : Contents, after : SUBSET Keys]
Running == [pc : Stages, key : Keys \cup {0}, want : Contents, ver : Contents, ord : 0..clock,
            noop : BOOLEAN, intake : Marks, permit : Marks]

\* Types of the variables; a command that runs has a key and a watch.
ContactTypeOK ==
    /\ tg \in Contents /\ net \in [Keys -> {"none", "sent", "applied", "refused"}]
    /\ clock \in Nat /\ clock <= MaxOrder /\ local \in Evidence /\ rec \in [Keys -> Receipt]
    /\ intent \in [Keys -> {"none", "prepared", "contained", "done"}]
    /\ profile \in {"idle", "profile", "rest"} /\ follow \in BOOLEAN
    /\ up \in {"up", "safe", "down"} /\ startup \in BOOLEAN
    /\ cmd \in Running /\ (cmd.pc # "idle" => cmd.key \in Keys /\ cmd.intake # NoMark)
    /\ request \in [Keys -> [st : {"none", "sent", "reject", "settled", "closed"}, revoked : BOOLEAN]]
    /\ fetch \in [Readers -> Acquisition] /\ gen \in Nat /\ delivered \in Nat /\ scopeGen \in Nat
    /\ waiting \in Seq([val : Contents, after : SUBSET Keys])
    /\ sent \in [Keys -> Nat] /\ dirty \in BOOLEAN
    /\ proof \in [Keys -> [src : Sources, after : BOOLEAN]]

\* An operation key names one write: whatever is cancelled, retried, settled
\* late or cut by a restart, its packet is claimed at most once (receipt
\* replay, single claim per command).
ClaimedOnce == \A k \in Keys : sent[k] <= 1

\* A refusal is a promise to the caller: a receipt that says "rejected" is of a
\* write Telegram has not applied and will not apply, and one that says
\* "acknowledged" is of a write it did apply (_reject_unclaimed, _native_outcome).
OutcomeTrue ==
    \A k \in Keys : /\ rec[k].outcome = "rejected" => net[k] \in {"none", "refused"} /\ request[k].st # "sent"
                    /\ rec[k].outcome = "acknowledged" => net[k] = "applied"

\* At most one write on the peer has an unknown fate: a new command is not let
\* in between a cancelled command and the settlement of its packet, nor before
\* a later observation lifts the quarantine (peer_quarantined).
OneUnresolved ==
    \A j, k \in Keys : Quarantining(j) /\ Quarantining(k) => j = k

\* The packet leaves only while the observation the caller's version was
\* checked against is the canonical one, and no update naming the peer nor a
\* contacts reset was received since Telegram answered it (watch, permit, tokens).
FreshClaim ==
    [][\A k \in Keys : sent'[k] > sent[k] =>
          ~dirty /\ local.val = cmd.ver /\ local.ord = cmd.ord /\ local.src = "fetch"]_contactVars

\* The receipt and the ledger are two databases: once the process is ready, an
\* intent that no live attempt owns is contained or closed, so it cannot hold
\* the account (bind_attempt before prepare, _reconcile_native_receipt).
NoOrphanIntent ==
    up = "up" => \A k \in Keys : intent[k] = "prepared" =>
                    \/ request[k].st # "none"
                    \/ Holds(k) /\ cmd.pc \in {"tokens", "claim", "bind", "intend"}

\* A verdict that rests on an answer to a read is about the state after the
\* write: the answer came after the receipt was settled (terminal order).
ReadAfterWrite ==
    \A k \in Keys : proof[k].src = "fetch" => proof[k].after

\* A settled write that still needs a read back is never forgotten: a refresh is
\* asked for, or the one who will ask is still at work (cleanup, notify_terminal,
\* follow_up_required, the startup offer).
ReadbackOwed ==
    \A k \in Keys : VerificationPending(rec[k]) =>
        \/ profile = "profile" \/ follow \/ startup \/ up # "up"
        \/ Holds(k)
        \/ request[k].st # "none" /\ request[k].revoked

\* The fate of a contact write is what its receipt says, unknown for one write at
\* most, and owned until a read after the write has settled it (contacts/commands.py,
\* the settlement in the gate, the startup recovery).
ContactFateKnown ==
    /\ ClaimedOnce /\ OutcomeTrue /\ OneUnresolved
    /\ NoOrphanIntent /\ ReadbackOwed /\ ReadAfterWrite

\* The docstring of refine_acknowledged_for_observation: "accepted post-terminal
\* contact evidence", whatever channel brought it.
EvidencePostTerminal == \A k \in Keys : proof[k].after

ContactFairness ==
    \* the refresh worker, Telegram's answers, the gate's settlement
    /\ WF_contactVars(RefreshStart) /\ WF_contactVars(RefreshPublish) /\ WF_contactVars(RefreshDone)
    /\ \A r \in Readers : WF_contactVars(Serve(r))
    /\ \A k \in Keys : /\ WF_contactVars(\E o \in Terminal : SettleReceipt(k, o))
                      /\ WF_contactVars(SettleLedger(k))
    \* a restarted process starts up; updates are applied
    /\ WF_contactVars(ReconcileIntents) /\ WF_contactVars(RecoverInterrupted) /\ WF_contactVars(OfferUnresolved)
    /\ WF_contactVars(ApplyPush)
    \* a command that is running goes on
    /\ WF_contactVars(AcquireStart \/ CommandPublish \/ Judge \/ Reserve \/ Arm \/ BindAttempt \/ PrepareIntent
               \/ PreclaimTokens \/ CallReturns \/ PostJudge \/ PublishVerification \/ Cleanup)

FairContactSpec == ContactSpec /\ ContactFairness

\* Every settled write that needs a read back gets a verdict, through lost
\* commands, late settlements, failing reads and restarts.
ReadbackDone == \A k \in Keys : VerificationPending(rec[k]) ~> ~VerificationPending(rec[k])

=============================================================================
