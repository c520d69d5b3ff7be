----------------------------- MODULE SingleGrant -----------------------------
(***************************************************************************)
(* One single-grant provider (xai or kimi-coding): the grant Pi keeps in   *)
(* auth.json, the shared Keychain item qlb:<provider>:default, and the two *)
(* command families that may own it - `qlb migrate` (src/migration.ts, the *)
(* generic path) and `qlb pi migrate` (src/pi-migrate.ts, P7a) - beside    *)
(* `qlb gate`, which serves Pi and spends the refresh token                *)
(* (src/pi-gate.ts, src/single-consume.ts, src/single-stash.ts).           *)
(*                                                                         *)
(* Every command but rehearse runs under Pi's auth.json lock, so one       *)
(* command runs at a time; it may fail or die between any two of its       *)
(* durable writes.  The gate takes the consume lock instead and runs       *)
(* beside it.  A credential is its refresh token, numbered in the order    *)
(* of issue: a later token expires later.                                  *)
(***************************************************************************)
EXTENDS Integers, FiniteSets

CONSTANTS
    MaxTok,        \* bound: refresh tokens issued
    MaxTrouble,    \* bound: deaths, failing calls, logouts, lapsed leases
    MaxGen         \* bound: generation from which no further commit begins

BoundsAssumption == MaxTok \in Nat \ {0} /\ MaxTrouble \in Nat /\ MaxGen \in Nat

VARIABLES
    auth,      \* Pi's auth.json entry
    item,      \* the shared Keychain item: token and generation stamp
    stash,     \* successors the gate could not install: spent token, token, stamp
    kept,      \* 'kept:' items: copies a hand-back left, saved before P7a wrote
    backup,    \* Pi auth backup: token, and whether it is of the current cycle
    mig,       \* migrations['pi-<provider>']
    staging,   \* the staging owner file: none, in place, or renamed aside
    owner,     \* the provider's entry in the v2 owner map
    pj, pst,   \* P7a journal phase; config pi.<provider>.state is migrated
    base,      \* P7a baseline file
    G, lease,  \* grant generation; refresh lease row
    op,        \* the command under the auth.json lock
    reh,       \* a rehearsal waiting for its live call: the token staged when it began
    gate,      \* the gate process
    issued, spent,  \* provider: tokens issued and exchanged
    head,      \* provider: the newest login's unspent token
    lost,      \* history: head was lost by a death or reported unpersisted
    anomaly,   \* history: one of the gaps the code leaves open was met (see README)
    used

pi      == <<auth, issued, spent, head>>
generic == <<mig, staging, backup>>
p7a     == <<pj, pst, base, kept>>
shared  == <<item, owner, G>>
consume == <<gate, stash, lease>>
history == <<lost, anomaly>>
vars    == <<pi, generic, p7a, shared, consume, op, reh, history, used>>

Absent      == 0
NoLogin     == -1   \* auth.json holds the placeholder
Tokens      == 1..MaxTok
NoItem      == [tok |-> Absent, gen |-> 0]
NoBackup    == [tok |-> Absent, cur |-> FALSE]
NoDecision  == [kind |-> "", tok |-> Absent, gen |-> 0]
NoGate      == [pc |-> "idle", snap |-> Absent, tok |-> Absent, gen |-> 0, kind |-> "p7a", succ |-> Absent]
Phase       == [none |-> 0, started |-> 1, baseline |-> 2, saved |-> 3, publishing |-> 4, published |-> 5]

Init ==
    /\ auth = 1 /\ issued = 1 /\ spent = {} /\ head = 1
    /\ item = NoItem /\ owner = FALSE /\ G = 0
    /\ stash = {} /\ kept = {} /\ backup = NoBackup /\ staging = "none"
    /\ mig = [st |-> "none", intent |-> "none", dec |-> NoDecision, cg |-> -1, fp |-> Absent,
              hb |-> "none", keep |-> "no"]
    /\ pj = "none" /\ pst = FALSE /\ base = Absent
    /\ lease = "free" /\ gate = NoGate /\ op = [pc |-> "idle", tok |-> Absent] /\ reh = Absent
    /\ lost = FALSE /\ anomaly = FALSE /\ used = 0

Spending == gate.pc \in {"post", "got", "write"}
Trouble  == used < MaxTrouble /\ used' = used + 1
-----------------------------------------------------------------------------
(* Ownership facts.                                                        *)
P7aOwned    == pst \/ pj # "none"
Committed   == mig.st = "QLB_OWNED" \/ (mig.st = "VALIDATED" /\ owner /\ mig.cg >= 0)
RollingBack == mig.intent = "rollback" \/ mig.dec # NoDecision
HandbackDue == mig.hb # "none"
assertNoActiveHandbackMarker == ~HandbackDue /\ mig.intent # "pre" /\ ~RollingBack
assertNoOrphanOwnershipClaim == owner => Committed \/ RollingBack \/ HandbackDue

(* What `qlb pi migrate` admits.                                           *)
genericMigrationAtRest ==
    /\ mig.st \in {"none", "NATIVE", "VALIDATED"} /\ staging # "staged"
    /\ owner => Phase[pj] >= Phase.publishing \/ pst
    /\ ~RollingBack /\ ~HandbackDue

(* What keeps `qlb pi rollback` from the shared item.                      *)
genericHoldsSharedItem ==
    /\ mig.st # "none"
    /\ \/ mig.st \in {"MIRRORED", "QLB_OWNED"}
       \/ mig.st = "VALIDATED" /\ mig.cg >= 0
       \/ RollingBack \/ HandbackDue \/ staging = "staged"
-----------------------------------------------------------------------------
(* Commands.  A step ends at the next durable write.                       *)
At(pc)    == op.pc = pc
Go(pc)    == op' = [pc |-> pc, tok |-> Absent]
Begin(pc) == At("idle") /\ Go(pc)

(* Refusals, errors and a finished command release the lock.  A login      *)
(* without usable tokens is refused (parseAuthJsonGrant): auth is a token.  *)
stage ==
    /\ At("idle") /\ ~P7aOwned /\ assertNoActiveHandbackMarker /\ assertNoOrphanOwnershipClaim
    /\ ~owner /\ mig.st # "QLB_OWNED" /\ auth \in Tokens
    /\ mig' = [mig EXCEPT !.st = "MIRRORED", !.fp = auth, !.cg = -1, !.keep = "no"]
    /\ backup' = [backup EXCEPT !.cur = FALSE]
    /\ Go("stage_item")
    /\ UNCHANGED <<pi, staging, p7a, shared, consume, reh, history, used>>

stageItem ==
    /\ At("stage_item") /\ Go("stage_file")
    /\ item' = [tok |-> auth, gen |-> G]
    /\ UNCHANGED <<pi, generic, p7a, owner, G, consume, reh, history, used>>

stageFile ==
    /\ At("stage_file") /\ Go("idle")
    /\ staging' = "staged"
    /\ UNCHANGED <<pi, mig, backup, p7a, shared, consume, reh, history, used>>

rehearseStart ==
    /\ reh = Absent /\ mig.st \in {"MIRRORED", "VALIDATED"} /\ assertNoActiveHandbackMarker
    /\ item # NoItem
    /\ reh' = mig.fp
    /\ UNCHANGED <<pi, generic, p7a, shared, consume, op, history, used>>

rehearseEnd ==
    /\ reh # Absent /\ reh' = Absent
    /\ \/ mig' = [mig EXCEPT !.st = "VALIDATED"] /\ UNCHANGED used
       \/ mig' = [mig EXCEPT !.st = "MIRRORED"] /\ Trouble
    /\ anomaly' = (anomaly \/ mig.st \notin {"MIRRORED", "VALIDATED"} \/ Committed \/ mig.fp # reh)
    /\ UNCHANGED <<pi, staging, backup, p7a, shared, consume, op, lost>>

CanCommit ==
    /\ ~P7aOwned /\ assertNoActiveHandbackMarker /\ assertNoOrphanOwnershipClaim /\ ~owner
    /\ staging = "staged" /\ mig.st \in {"VALIDATED", "QLB_OWNED"} /\ auth = mig.fp
    /\ G < MaxGen

commit == CanCommit /\ Begin("c_gen")
    /\ UNCHANGED <<pi, generic, p7a, shared, consume, reh, history, used>>

commitGen ==
    /\ At("c_gen") /\ Go("c_backup")
    /\ mig' = [mig EXCEPT !.cg = G]
    /\ anomaly' = (anomaly \/ item.tok # mig.fp \/ mig.fp \in spent)
    /\ UNCHANGED <<pi, staging, backup, p7a, shared, consume, reh, lost, used>>

commitBackup ==
    /\ At("c_backup") /\ Go("c_owner")
    /\ backup' = [tok |-> auth, cur |-> TRUE]
    /\ UNCHANGED <<pi, mig, staging, p7a, shared, consume, reh, history, used>>

commitOwner ==
    /\ At("c_owner") /\ Go("c_place")
    /\ owner' = TRUE
    /\ UNCHANGED <<pi, generic, p7a, item, G, consume, reh, history, used>>

writePlaceholder(from, to) ==
    /\ At(from) /\ Go(to)
    /\ auth' = NoLogin
    /\ UNCHANGED <<issued, spent, head, generic, p7a, shared, consume, reh, history, used>>

commitUnstage ==
    /\ At("c_unstage") /\ Go("hygiene")
    /\ staging' = "none"
    /\ UNCHANGED <<pi, mig, backup, p7a, shared, consume, reh, history, used>>

(* A commit or resume that finds the claim already published.              *)
completeClaimForward ==
    /\ ~P7aOwned /\ ~HandbackDue /\ ~RollingBack /\ assertNoOrphanOwnershipClaim /\ owner
    /\ IF mig.st = "QLB_OWNED" \/ auth = NoLogin
       THEN Begin("hygiene") /\ UNCHANGED backup
       ELSE /\ auth \in Tokens /\ Begin("f_place")
            /\ IF backup.cur THEN backup.tok = auth /\ UNCHANGED backup
                             ELSE backup' = [tok |-> auth, cur |-> TRUE]
    /\ UNCHANGED <<pi, mig, staging, p7a, shared, consume, reh, history, used>>

finishHygiene(to) ==
    /\ At(IF to = "idle" THEN "hygiene" ELSE "hygiene_back") /\ Go(to)
    /\ mig' = [mig EXCEPT !.st = "QLB_OWNED", !.intent = "none"]
    /\ UNCHANGED <<pi, staging, backup, p7a, shared, consume, reh, history, used>>

-----------------------------------------------------------------------------
(* `qlb migrate rollback` and `resume`.  Resume's RH repair, a QLB_OWNED    *)
(* row whose owner entry is gone without an intent, is reached by no       *)
(* command here and left out.                                              *)
rollback ==
    /\ At("idle") /\ ~P7aOwned
    /\ \/ HandbackDue /\ Go("s6")
       \/ ~HandbackDue /\ RollingBack /\ Go("s2")
       \/ ~HandbackDue /\ ~RollingBack /\ assertNoOrphanOwnershipClaim
          /\ \/ mig.st = "VALIDATED" /\ Committed /\ Go("hygiene_back")
             \/ mig.st = "QLB_OWNED" /\ Go("s1")
             \/ mig.st # "QLB_OWNED" /\ ~Committed
                /\ (mig.intent = "pre" \/ mig.st = "MIRRORED" \/ staging = "staged") /\ Go("pre_intent")
    /\ UNCHANGED <<pi, generic, p7a, shared, consume, reh, history, used>>

resume ==
    /\ At("idle") /\ ~P7aOwned
    /\ \/ HandbackDue /\ Go("s6")
       \/ ~HandbackDue /\ RollingBack /\ Go("s2")
       \/ ~HandbackDue /\ ~RollingBack /\ ~owner
          /\ \/ mig.st # "QLB_OWNED" /\ mig.intent = "pre" /\ Go("pre_intent")
             \/ mig.intent # "pre" /\ mig.st = "VALIDATED" /\ staging = "staged" /\ CanCommit /\ Go("c_gen")
             \/ mig.st = "MIRRORED" /\ mig.intent # "pre" /\ Go("pre_intent")
    /\ UNCHANGED <<pi, generic, p7a, shared, consume, reh, history, used>>

preIntent ==
    /\ At("pre_intent")
    /\ IF staging = "staged" THEN Go("pre_aside") /\ mig' = [mig EXCEPT !.intent = "pre"]
                             ELSE Go("pre_item") /\ UNCHANGED mig
    /\ UNCHANGED <<pi, staging, backup, p7a, shared, consume, reh, history, used>>

preAside ==
    /\ At("pre_aside") /\ Go("pre_item")
    /\ staging' = "aside"
    /\ UNCHANGED <<pi, mig, backup, p7a, shared, consume, reh, history, used>>

preItem ==
    /\ At("pre_item")
    /\ \/ Go("pre_done") /\ item' = NoItem /\ UNCHANGED <<staging, used>>
       \/ Go("idle") /\ Trouble /\ UNCHANGED item
          /\ staging' = IF staging = "aside" THEN "staged" ELSE staging
    /\ UNCHANGED <<pi, mig, backup, p7a, owner, G, consume, reh, history>>

preDone ==
    /\ At("pre_done") /\ Go("idle")
    /\ staging' = "none"
    /\ backup' = IF backup.cur THEN NoBackup ELSE backup
    /\ mig' = [mig EXCEPT !.st = "NATIVE", !.intent = "none"]
    /\ UNCHANGED <<pi, p7a, shared, consume, reh, history, used>>

rollbackIntent ==
    /\ At("s1") /\ Go("s2")
    /\ mig' = [mig EXCEPT !.intent = "rollback"]
    /\ UNCHANGED <<pi, staging, backup, p7a, shared, consume, reh, history, used>>

(* Mutant: Pi's backup first, whatever the stamps say.                     *)
RankedBackup == IF backup.tok \in Tokens THEN {"backup"} ELSE IF item # NoItem THEN {"keychain"} ELSE {"none"}

(* Which copy is handed back: the Keychain grant when it is newer than the *)
(* commit, else Pi's backup, else the Keychain grant, else Pi's own entry. *)
Ranked ==
    LET trusted == item # NoItem /\ item.gen >= G IN
    IF trusted /\ mig.cg >= 0 /\ item.gen > mig.cg THEN {"keychain"}
    ELSE IF backup.tok \in Tokens THEN {"backup"}
    ELSE IF trusted THEN {"keychain"}
    ELSE IF auth \in Tokens THEN {"none"} ELSE {}

decideAndFence ==
    /\ At("s2") /\ Go("s3")
    /\ IF mig.dec # NoDecision THEN UNCHANGED <<mig, G>>
       ELSE /\ lease # "held"
            /\ \E kind \in Ranked :
                 mig' = [mig EXCEPT !.dec = [kind |-> kind, gen |-> item.gen,
                                             tok |-> IF kind = "backup" THEN backup.tok ELSE item.tok]]
            /\ G' = (IF item # NoItem /\ item.gen > G THEN item.gen ELSE G) + 1
    /\ UNCHANGED <<pi, staging, backup, p7a, item, owner, consume, reh, history, used>>

SourceIntact ==
    \/ mig.dec.kind = "keychain" /\ item = [tok |-> mig.dec.tok, gen |-> mig.dec.gen]
    \/ mig.dec.kind = "backup" /\ backup.tok = mig.dec.tok

restoreEntry ==
    /\ At("s3") /\ Go("s4")
    /\ IF auth \in Tokens THEN UNCHANGED auth ELSE SourceIntact /\ auth' = mig.dec.tok
    /\ UNCHANGED <<issued, spent, head, generic, p7a, shared, consume, reh, history, used>>

unown ==
    /\ At("s4") /\ lease # "held" /\ Go("s5")
    /\ owner' = FALSE
    /\ UNCHANGED <<pi, generic, p7a, item, G, consume, reh, history, used>>

handbackVerdict == IF item.tok = auth THEN "delete" ELSE "keep"

recordHandback ==
    /\ At("s5") /\ lease # "held" /\ Go("s6")
    /\ mig' = [mig EXCEPT !.st = "NATIVE", !.intent = "none", !.dec = NoDecision, !.cg = -1, !.hb = handbackVerdict]
    /\ UNCHANGED <<pi, staging, backup, p7a, shared, consume, reh, history, used>>

cleanupFiles ==
    /\ At("s6") /\ Go("s6c")
    /\ backup' = NoBackup /\ staging' = "none"
    /\ UNCHANGED <<pi, mig, p7a, shared, consume, reh, history, used>>

cleanupItem ==
    /\ At("s6c") /\ Go("s7")
    /\ item' = IF mig.hb = "delete" THEN NoItem ELSE item
    /\ UNCHANGED <<pi, generic, p7a, owner, G, consume, reh, history, used>>

cleanupDone ==
    /\ At("s7") /\ Go("idle")
    /\ mig' = [mig EXCEPT !.hb = "none", !.keep = IF mig.hb = "keep" THEN "keep" ELSE "no"]
    /\ UNCHANGED <<pi, staging, backup, p7a, shared, consume, reh, history, used>>

(* A step that refuses ends the command with what it has written.          *)
refuse ==
    /\ \/ At("s2") /\ mig.dec = NoDecision /\ (lease = "held" \/ Ranked = {})
       \/ At("s3") /\ auth \notin Tokens /\ ~SourceIntact
       \/ op.pc \in {"s4", "s5"} /\ lease = "held"
       \/ At("p_base") /\ Phase[pj] < Phase.baseline /\ auth = NoLogin
       \/ At("p_item") /\ Phase[pj] >= Phase.publishing /\ auth # NoLogin
       \/ At("p_tail") /\ item = NoItem
    /\ Go("idle")
    /\ UNCHANGED <<pi, generic, p7a, shared, consume, reh, history, used>>

die ==
    /\ ~At("idle") /\ Trouble /\ Go("idle")
    /\ UNCHANGED <<pi, generic, p7a, shared, consume, reh, history>>
-----------------------------------------------------------------------------
(* `qlb pi migrate` and `qlb pi rollback`.                                 *)
migratePiSingleProvider ==
    /\ genericMigrationAtRest
    /\ IF pj = "none" /\ auth = NoLogin THEN owner /\ Begin("p_tail") ELSE Begin("p_stash")
    /\ UNCHANGED <<pi, generic, p7a, shared, consume, reh, history, used>>

(* A copy a generic hand-back kept is saved before P7a overwrites it.      *)
stashKept ==
    IF ~pst /\ pj = "none" /\ mig.st = "NATIVE" /\ mig.keep = "keep" /\ item # NoItem
    THEN kept' = kept \cup {item.tok} /\ mig' = [mig EXCEPT !.keep = "saved"]
    ELSE UNCHANGED <<kept, mig>>

piStash ==
    /\ At("p_stash") /\ Go("p_start") /\ stashKept
    /\ UNCHANGED <<pi, staging, backup, pj, pst, base, shared, consume, reh, history, used>>

updatePhase(from, phase, to) ==
    /\ At(from) /\ Go(to)
    /\ pj' = IF Phase[pj] < Phase[phase] THEN phase ELSE pj
    /\ UNCHANGED <<pi, generic, pst, base, kept, shared, consume, reh, history, used>>

piBaseline ==
    /\ At("p_base")
    /\ \/ Phase[pj] >= Phase.baseline /\ Go("p_item") /\ UNCHANGED <<base, pj, pst>>
       \/ Phase[pj] < Phase.baseline /\ auth \in Tokens /\ base' = auth /\ Go("p_basej") /\ UNCHANGED <<pj, pst>>
       \/ Phase[pj] < Phase.baseline /\ auth = Absent
          /\ pst' = FALSE /\ pj' = "none" /\ Go("idle") /\ UNCHANGED base
    /\ UNCHANGED <<pi, generic, kept, shared, consume, reh, history, used>>

piSource ==
    /\ At("p_item") /\ (Phase[pj] >= Phase.publishing => auth = NoLogin)
    /\ IF Phase[pj] >= Phase.published \/ (pj = "publishing" /\ owner /\ item # NoItem)
       THEN Go("p_owner") /\ UNCHANGED base
       ELSE Go("p_key") /\ base' = IF auth \in Tokens THEN auth ELSE base
    /\ anomaly' = (anomaly \/ Spending)
    /\ UNCHANGED <<pi, generic, pj, pst, kept, shared, consume, reh, lost, used>>

piInstall ==
    /\ At("p_key") /\ Go("p_saved")
    /\ item' = [tok |-> base, gen |-> 0]
    /\ UNCHANGED <<pi, generic, p7a, owner, G, consume, reh, history, used>>

piOwner ==
    /\ At("p_owner") /\ Go("p_ownerj")
    /\ owner' = TRUE
    /\ UNCHANGED <<pi, generic, p7a, item, G, consume, reh, history, used>>

piTail ==
    /\ At("p_tail") /\ item # NoItem /\ Go("p_done")
    /\ pst' = TRUE
    /\ UNCHANGED <<pi, generic, pj, base, kept, shared, consume, reh, history, used>>

clearJournal(from) ==
    /\ At(from) /\ Go("idle")
    /\ pj' = "none"
    /\ UNCHANGED <<pi, generic, pst, base, kept, shared, consume, reh, history, used>>

(* The credential to restore is read before the first write; nothing here  *)
(* holds the consume lock, so a spending gate goes unseen.                 *)
RestoreSource == IF auth \in Tokens THEN auth ELSE IF item # NoItem THEN item.tok ELSE base
PiRollingBack == op.pc \in {"r_owner", "r_auth", "r_stash", "r_item", "r_state", "r_done"}

rollbackPiSingleProvider ==
    /\ At("idle") /\ ~genericHoldsSharedItem /\ RestoreSource # Absent
    /\ op' = [pc |-> "r_owner", tok |-> RestoreSource]
    /\ anomaly' = (anomaly \/ Spending)
    /\ UNCHANGED <<pi, generic, p7a, shared, consume, reh, lost, used>>

piUnown ==
    /\ At("r_owner") /\ op' = [op EXCEPT !.pc = "r_auth"]
    /\ owner' = FALSE
    /\ UNCHANGED <<pi, generic, p7a, item, G, consume, reh, history, used>>

piRestore ==
    /\ At("r_auth") /\ Go("r_stash")
    /\ auth' = op.tok
    /\ UNCHANGED <<issued, spent, head, generic, p7a, shared, consume, reh, history, used>>

piRollbackStash ==
    /\ At("r_stash") /\ Go("r_item") /\ stashKept
    /\ UNCHANGED <<pi, staging, backup, pj, pst, base, shared, consume, reh, history, used>>

piDelete ==
    /\ At("r_item") /\ Go("r_state")
    /\ item' = NoItem
    /\ UNCHANGED <<pi, generic, p7a, owner, G, consume, reh, history, used>>

piState ==
    /\ At("r_state") /\ Go("r_done")
    /\ pst' = FALSE
    /\ UNCHANGED <<pi, generic, pj, base, kept, shared, consume, reh, history, used>>
-----------------------------------------------------------------------------
(* `qlb gate`: prerequisites, then the consume lock.                       *)
Idle == gate' = NoGate

gateAdmit ==
    /\ gate.pc = "idle" /\ owner /\ auth = NoLogin /\ item # NoItem
    /\ gate' = [NoGate EXCEPT !.pc = "read", !.snap = item.tok]
    /\ UNCHANGED <<pi, generic, p7a, shared, stash, lease, op, reh, history, used>>

(* Who holds the shared item, as the gate sees it.                         *)
Marker == mig.intent # "none" \/ mig.dec # NoDecision \/ HandbackDue
sharedItemOwner ==
    IF mig.st # "QLB_OWNED" THEN "p7a"
    ELSE IF P7aOwned \/ Marker THEN "refused" ELSE "generic"

Unheld ==
    \/ ~owner \/ auth # NoLogin \/ PiRollingBack
    \/ sharedItemOwner = "p7a" /\ ~P7aOwned
    \/ Phase[pj] \in Phase.started .. Phase.saved

genericBaseline == sharedItemOwner = "generic" => item.gen >= G
Matching        == {e \in stash : e.of = item.tok /\ e.tok > item.tok}
Baseline        == IF sharedItemOwner = "generic" /\ item.gen > G THEN item.gen ELSE G
Newer(set, t)   == {e \in set : e.tok > t}

gateRefused ==
    /\ gate.pc = "read" /\ Idle
    /\ \/ sharedItemOwner = "refused" \/ item = NoItem \/ ~genericBaseline
       \/ item.tok # gate.snap /\ Matching = {}
    /\ UNCHANGED <<pi, generic, p7a, shared, stash, lease, op, reh, history, used>>

adoptStashedSuccessor ==
    /\ gate.pc = "read" /\ sharedItemOwner # "refused" /\ item # NoItem /\ genericBaseline
    /\ \E e \in Matching :
         /\ item' = [tok |-> e.tok, gen |-> IF sharedItemOwner = "generic" THEN Baseline + 1 ELSE e.gen]
         /\ stash' = Newer(stash, e.tok)
    /\ G' = IF sharedItemOwner = "generic" THEN Baseline + 1 ELSE G
    /\ Idle /\ anomaly' = (anomaly \/ Unheld)
    /\ UNCHANGED <<pi, generic, p7a, owner, lease, op, reh, lost, used>>

consumeSingleCredential ==
    /\ gate.pc = "read" /\ sharedItemOwner # "refused" /\ item # NoItem /\ genericBaseline
    /\ Matching = {} /\ item.tok = gate.snap
    /\ sharedItemOwner = "generic" => lease # "held"
    /\ lease' = IF sharedItemOwner = "generic" THEN "held" ELSE lease
    /\ G' = Baseline
    /\ stash' = Newer(stash, item.tok)
    /\ gate' = [gate EXCEPT !.pc = "post", !.tok = item.tok, !.gen = item.gen, !.kind = sharedItemOwner]
    /\ anomaly' = (anomaly \/ Unheld)
    /\ UNCHANGED <<pi, generic, p7a, item, owner, op, reh, lost, used>>

Release    == lease' = IF gate.kind = "generic" THEN "free" ELSE lease
LeaseLost  == gate.kind = "generic" /\ lease # "held"
Exchange(t, n) ==
    /\ issued' = n /\ spent' = spent \cup {t}
    /\ head' = IF head = t THEN n ELSE head

answerSuccess ==
    /\ gate.pc = "post" /\ gate.tok \notin spent /\ issued < MaxTok
    /\ Exchange(gate.tok, issued + 1)
    /\ gate' = [gate EXCEPT !.pc = "got", !.succ = issued + 1]
    /\ UNCHANGED <<auth, generic, p7a, shared, stash, lease, op, reh, history, used>>

answerDead ==
    /\ gate.pc = "post" /\ gate.tok \in spent /\ Release
    /\ gate' = IF gate.kind = "generic" /\ (LeaseLost \/ G # gate.gen)
               THEN [NoGate EXCEPT !.pc = "read", !.snap = gate.snap] ELSE NoGate
    /\ UNCHANGED <<pi, generic, p7a, shared, stash, op, reh, history, used>>

answerLost ==
    /\ gate.pc = "post" /\ Trouble /\ Idle /\ Release
    /\ \/ UNCHANGED <<issued, spent, head, lost>>
       \/ /\ gate.tok \notin spent /\ issued < MaxTok
          /\ Exchange(gate.tok, issued + 1)
          /\ lost' = (lost \/ head = gate.tok)
    /\ UNCHANGED <<auth, generic, p7a, shared, stash, op, reh, anomaly>>

(* Mutant: a pair that cannot be installed is dropped.                     *)
dropPair == Idle /\ UNCHANGED <<stash, lost, used>>

(* The issued pair goes to the stash, or is reported.                      *)
persistStash ==
    /\ Idle
    /\ \/ /\ stash' = stash \cup {[of |-> gate.tok, tok |-> gate.succ, gen |-> gate.gen]}
          /\ UNCHANGED <<lost, used>>
       \/ Trouble /\ lost' = (lost \/ head = gate.succ) /\ UNCHANGED stash

afterPost ==
    /\ gate.pc = "got"
    /\ IF LeaseLost \/ item # [tok |-> gate.tok, gen |-> gate.gen]
       THEN persistStash /\ Release
       ELSE gate' = [gate EXCEPT !.pc = "write"] /\ UNCHANGED <<stash, lost, lease, used>>
    /\ UNCHANGED <<pi, generic, p7a, shared, op, reh, anomaly>>

GenericWriteAdmits ==
    /\ gate.kind = "generic" /\ G = gate.gen /\ lease = "held"
    /\ item = [tok |-> gate.tok, gen |-> gate.gen]

persist ==
    /\ gate.pc = "write"
    /\ \/ /\ sharedItemOwner = "p7a" \/ (sharedItemOwner = "generic" /\ GenericWriteAdmits)
          /\ item' = [tok |-> gate.succ, gen |-> IF sharedItemOwner = "generic" THEN gate.gen + 1 ELSE gate.gen]
          /\ G' = IF sharedItemOwner = "generic" THEN gate.gen + 1 ELSE G
          /\ Idle /\ Release /\ UNCHANGED <<stash, lost, used>>
       \/ /\ sharedItemOwner = "refused" \/ (sharedItemOwner = "generic" /\ ~GenericWriteAdmits)
          /\ persistStash /\ Release /\ UNCHANGED <<item, G>>
       \/ /\ Trouble /\ Idle /\ Release   \* the Keychain write fails
          /\ stash' = stash \cup {[of |-> gate.tok, tok |-> gate.succ, gen |-> gate.gen]}
          /\ UNCHANGED <<item, G, lost>>
    /\ UNCHANGED <<pi, generic, p7a, owner, op, reh, anomaly>>

gateDies ==
    /\ gate.pc \in {"got", "write"} /\ Trouble /\ Idle
    /\ lost' = (lost \/ head = gate.succ)
    /\ UNCHANGED <<pi, generic, p7a, shared, stash, lease, op, reh, anomaly>>

leaseLapses ==
    /\ lease = "held" /\ lease' = "lapsed"
    /\ IF Spending /\ gate.kind = "generic" THEN Trouble /\ anomaly' = TRUE ELSE UNCHANGED <<used, anomaly>>
    /\ UNCHANGED <<pi, generic, p7a, shared, gate, stash, op, reh, lost>>
-----------------------------------------------------------------------------
(* Pi itself, under the auth.json lock.                                    *)
piRefreshes ==
    /\ At("idle") /\ auth \in Tokens \ spent /\ issued < MaxTok
    /\ Exchange(auth, issued + 1) /\ auth' = issued + 1
    /\ UNCHANGED <<generic, p7a, shared, consume, op, reh, history, used>>

piLogsIn ==
    /\ At("idle") /\ issued < MaxTok
    /\ auth' = issued + 1 /\ issued' = issued + 1 /\ head' = issued + 1
    /\ lost' = FALSE
    /\ UNCHANGED <<spent, generic, p7a, shared, consume, op, reh, anomaly, used>>

piLogsOut ==
    /\ At("idle") /\ auth # Absent /\ Trouble
    /\ auth' = Absent /\ lost' = (lost \/ auth = head)
    /\ UNCHANGED <<issued, spent, head, generic, p7a, shared, consume, op, reh, anomaly>>
-----------------------------------------------------------------------------
GenericStep ==
    \/ stage \/ stageItem \/ stageFile \/ rehearseStart \/ rehearseEnd
    \/ commit \/ commitGen \/ commitBackup \/ commitOwner
    \/ writePlaceholder("c_place", "c_unstage") \/ commitUnstage
    \/ completeClaimForward \/ writePlaceholder("f_place", "hygiene")
    \/ finishHygiene("idle") \/ finishHygiene("s1")
    \/ rollback \/ resume \/ preIntent \/ preAside \/ preItem \/ preDone
    \/ rollbackIntent \/ decideAndFence \/ restoreEntry \/ unown \/ recordHandback
    \/ cleanupFiles \/ cleanupItem \/ cleanupDone

P7aStep ==
    \/ migratePiSingleProvider \/ piStash \/ updatePhase("p_start", "started", "p_base") \/ piBaseline
    \/ updatePhase("p_basej", "baseline", "p_item") \/ piSource \/ piInstall
    \/ updatePhase("p_saved", "saved", "p_place") \/ writePlaceholder("p_place", "p_pub")
    \/ updatePhase("p_pub", "publishing", "p_owner") \/ piOwner
    \/ updatePhase("p_ownerj", "published", "p_tail") \/ piTail \/ clearJournal("p_done")
    \/ rollbackPiSingleProvider \/ piUnown \/ piRestore \/ piRollbackStash \/ piDelete \/ piState
    \/ clearJournal("r_done")

GateStep ==
    \/ gateAdmit \/ gateRefused \/ adoptStashedSuccessor \/ consumeSingleCredential
    \/ answerSuccess \/ answerDead \/ answerLost \/ afterPost \/ persist \/ gateDies \/ leaseLapses

Next == GenericStep \/ P7aStep \/ refuse \/ die \/ GateStep \/ piRefreshes \/ piLogsIn \/ piLogsOut

Spec == Init /\ [][Next]_vars
-----------------------------------------------------------------------------
(* Copies a command or the gate can still find.                            *)
Held == {auth, item.tok, gate.succ} \cup kept \cup {e.tok : e \in stash}
        \cup (IF P7aOwned THEN {base} ELSE {}) \cup (IF mig.st = "NATIVE" THEN {} ELSE {backup.tok})

(* The newest login's live refresh token is always in some copy, whatever  *)
(* migrations, hand-backs, refreshes and deaths interleave: single-consume *)
(* stashes a pair it may not install, P7a saves a kept copy before it      *)
(* overwrites it, and cleanup deletes only what Pi holds.  Exempt: a death *)
(* holding the only copy, and the gaps the code leaves (anomaly).          *)
LiveHeld == head \in Held \/ lost \/ anomaly

(* While the gate exchanges a token, Pi's auth.json does not offer the     *)
(* same token: a refresh and a hand-back never race for one token.         *)
PostIsOurs == gate.pc = "post" => auth # gate.tok \/ anomaly

(* A post-commit rollback hands Pi a token nobody has exchanged or is      *)
(* exchanging (rankSingleGrantSource prefers the Keychain grant once a     *)
(* refresh has moved its stamp past the commit), unless the successor is   *)
(* in the stash, which rollback does not read.                             *)
RestoreUnspent == [][At("s3") /\ auth' # auth =>
    \/ auth' \notin spent /\ ~(gate.pc = "post" /\ gate.tok = auth')
    \/ \E e \in stash : e.of = auth'
    \/ lost \/ anomaly]_vars

=============================================================================
