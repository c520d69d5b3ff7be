------------------------------ MODULE CodexSlot ------------------------------
(***************************************************************************)
(* One managed Codex account (src/codex-consume.ts, src/codex-slots.ts,    *)
(* src/codex-attribution.ts, src/codex-active.ts, src/lineage-log.ts, the  *)
(* commands `qlb codex refresh` and `qlb codex import-active`).            *)
(*                                                                         *)
(* The grant of the account is kept three times: the fingerprint in the    *)
(* codex_slots row, the document in the Keychain item (with its            *)
(* predecessor under :prev), and, while the account is the active login,   *)
(* the auth.json that Codex itself reads and rotates.  Three kinds of      *)
(* operation move them under different locks:                              *)
(*   refresh   consume and switch locks (an inactive slot is renewed)      *)
(*   active    consume, switch and auth locks (the active login)           *)
(*   import    the auth lock only                                          *)
(* SQLite's write lock (BEGIN IMMEDIATE) is the only thing all share; the  *)
(* Keychain is written inside such a transaction and cannot be rolled      *)
(* back with it.                                                           *)
(*                                                                         *)
(* A refresh token is a number, 0 for none; fingerprints are the tokens    *)
(* themselves.  Access tokens, expiry and process scans are the choices    *)
(* "due or not" and "a Codex holds this login or not".                     *)
(***************************************************************************)
EXTENDS Naturals, FiniteSets

CONSTANTS
    Ops,          \* processes that run one operation after another
    Kinds,        \* the kinds of operation they run
    MaxTok,       \* bound: refresh tokens the provider issues
    MaxLogins,    \* bound: logins in Codex
    MaxFaults,    \* bound: failing Keychain, file and SQLite calls
    MaxCrashes,   \* bound: processes killed
    MaxStalls,    \* bound: locks taken over from a holder that stalled
    None          \* nobody

ASSUME OpsAssumption == IsFiniteSet(Ops) /\ None \notin Ops
ASSUME KindsAssumption == Kinds \subseteq {"refresh", "active", "import"}
ASSUME BoundsAssumption ==
    MaxTok \in Nat \ {0} /\ {MaxLogins, MaxFaults, MaxCrashes, MaxStalls} \subseteq Nat

VARIABLES
    row,      \* the codex_slots row: fp, prev, dead, pend (pending_adopt)
    kc, prev, \* the Keychain item and its :prev item
    edges,    \* lineage_log: pairs <<from, to>>
    stash,    \* unclaimed successors: [from |-> spent, to |-> successor]
    live,     \* this account's token in auth.json, 0 if absent or another account's
    active,   \* active_login names this account
    db,       \* SQLite's write lock
    sw, auth, \* the consume-and-switch lock pair and the auth lock
    op,       \* each process: control state and local variables
    codex,    \* the token a running Codex has in memory, 0 if none runs
    valid,    \* provider: refresh tokens it accepts
    issued,   \* provider: the last token issued
    grew,     \* history: the rotations that happened, <<spent, successor>>
    arrived,  \* history: successors whose answer reached QLB
    gone,     \* history: arrived successors reported lost, or lost with their process's memory
    heads,    \* history: fingerprints the row has had
    torn,     \* history: a process died between a slot write and its commit
    skew,     \* history: a drift repair followed a Keychain read that was no longer true
    late,     \* history: an import of a new account wrote over a slot made since it had looked
    used      \* how much of each bound is used

slotVars == <<row, kc, prev, edges, stash>>
liveVars == <<live, active>>
locks    == <<db, sw, auth>>
provider == <<valid, issued, grew>>
history  == <<arrived, gone, heads, torn, skew, late>>
vars     == <<slotVars, liveVars, locks, op, codex, provider, history, used>>

Tok  == 1 .. MaxTok
Tok0 == 0 .. MaxTok
Idle == [kind |-> "none", pc |-> "idle", seen |-> 0, row |-> 0, kc |-> 0, cur |-> 0, suc |-> 0,
         old |-> <<0, 0>>, adopting |-> FALSE, wrote |-> FALSE, pinned |-> FALSE, phase |-> "pre"]
PCs  == {"idle", "observe", "first", "second", "imported", "decide", "publish", "mark", "adopted", "due",
         "read", "repair", "find", "post", "rejected", "refused", "got", "begin", "write", "commit",
         "save", "undo", "stash", "emergency", "unstash", "cas", "rename", "verify"}
\* Where the only copy of an arrived successor is in the process's memory.
InMemory == {"got", "begin", "write", "save", "stash", "emergency"}

Row    == [fp : Tok0, prev : Tok0, dead : BOOLEAN, pend : BOOLEAN]
Stash  == [from : Tok, to : Tok]
Bounds == [login : 0..MaxLogins, fault : 0..MaxFaults, crash : 0..MaxCrashes, stall : 0..MaxStalls]
OpRec  == [kind : {"none", "refresh", "active", "import"}, pc : PCs, seen : Tok0, row : Tok0, kc : Tok0,
           cur : Tok0, suc : Tok0, old : Tok0 \X Tok0, adopting : BOOLEAN, wrote : BOOLEAN,
           pinned : BOOLEAN, phase : {"pre", "post", "won"}]

\* The fields of every operation and of the shared state have their types.
TypeOK ==
    /\ row \in Row /\ {kc, prev, live, codex, issued} \subseteq Tok0
    /\ edges \subseteq Tok \X Tok /\ grew \subseteq Tok \X Tok /\ stash \subseteq Stash
    /\ {active, torn, skew, late} \subseteq BOOLEAN /\ {db, sw, auth} \subseteq Ops \cup {None}
    /\ op \in [Ops -> OpRec]
    /\ {valid, arrived, gone, heads} \subseteq SUBSET Tok /\ used \in Bounds

Init ==
    /\ \E managed \in BOOLEAN :
         /\ row = [fp |-> IF managed THEN 1 ELSE 0, prev |-> 0, dead |-> FALSE, pend |-> FALSE]
         /\ kc = row.fp /\ heads = {row.fp} \cap Tok
         /\ live \in IF managed THEN {0, 1} ELSE {1}
         /\ active = (managed /\ live = 1)
    /\ prev = 0 /\ edges = {} /\ stash = {} /\ codex = 0
    /\ db = None /\ sw = None /\ auth = None
    /\ op = [p \in Ops |-> Idle]
    /\ valid = {1} /\ issued = 1 /\ grew = {}
    /\ arrived = {} /\ gone = {} /\ torn = FALSE /\ skew = FALSE /\ late = FALSE
    /\ used = [login |-> 0, fault |-> 0, crash |-> 0, stall |-> 0]

-----------------------------------------------------------------------------
(* Helpers *)

\* isSuccessor: b is reached from a by persisted edges and the row's :prev edge.
Reaches(E, a, b) ==
    a # b /\ \A S \in SUBSET Tok : (a \in S /\ \A e \in E : e[1] \in S => e[2] \in S) => b \in S
\* Mutant: only a single recorded step counts.
isParent(a, b) == <<a, b>> \in edges \cup {<<row.prev, row.fp>>}
isSuccessor(a, b) == Reaches(edges \cup ({<<row.prev, row.fp>>} \cap (Tok \X Tok)), a, b)

\* assertHeld / assertNotCompromised: the operation's owner tokens are still its own.
assertHeld(p) ==
    /\ op[p].kind \in {"refresh", "active"} => sw = p
    /\ op[p].kind \in {"active", "import"} => auth = p

Goto(p, pc) == op' = [op EXCEPT ![p].pc = pc]
Release(p)  == /\ sw' = IF sw = p THEN None ELSE sw
               /\ auth' = IF auth = p THEN None ELSE auth
               /\ op' = [op EXCEPT ![p] = Idle]
\* The operation returns; its locks are released by owner token.
Finish(p)   == Release(p) /\ db' = db
\* The same from inside a transaction.
FinishTx(p) == Release(p) /\ db' = None
CanFail     == used.fault < MaxFaults
Fail        == CanFail /\ used' = [used EXCEPT !.fault = @ + 1]
\* A step cannot be taken: the locks are no longer held, or a call fails.
LostOrFailed(p) == (~assertHeld(p) /\ UNCHANGED used) \/ Fail

-----------------------------------------------------------------------------
(* CodexSlots and the statements of Store *)

\* writeSlot: the predecessor to :prev, then the document to the item.
writeSlot(document, previous) == prev' = previous /\ kc' = document
\* stashUnclaimedDurably: Keychain item or file, behind its index row.
stashUnclaimedDurably(from, to) == stash' = stash \cup {[from |-> from, to |-> to]}
\* stashSuccessorEmergency: the body first, under a name nobody replaces, then its index row.
stashSuccessorEmergency(from, to) == stash' = stash \cup {[from |-> from, to |-> to]}
\* findStashedSuccessor: indexed or orphaned successors of this very token.
findStashedSuccessor(fp) == {x \in stash : x.from = fp}
removeStashedSuccessor(from, to) == stash' = stash \ {[from |-> from, to |-> to]}
\* lineage_log rows are only ever appended.
recordTransition(from, to) == edges' = edges \cup {<<from, to>>}

\* markCodexSlotImportedActive: only while the row still has this fingerprint.
CanMark(fp) == row.fp = fp
markCodexSlotImportedActive(fp) == row' = [row EXCEPT !.pend = FALSE] /\ active' = TRUE
\* adoptCodexSlotWithKeychain: what its COMMIT publishes.
adoptCodexSlotWithKeychain(from, to) ==
    /\ row' = [fp |-> to, prev |-> from, dead |-> FALSE, pend |-> FALSE]
    /\ recordTransition(from, to) /\ active' = TRUE /\ heads' = heads \cup {to}
\* repairCodexSlotKeychain: the document the locked row names, from the live file or :prev.
CanRepairSlot(seen) == row.fp # 0 /\ row.fp \in {seen, prev}
repairCodexSlotKeychain == kc' = row.fp

-----------------------------------------------------------------------------
(* The environment: Codex and the provider (external) *)

\* A token is exchanged: the old one is spent, a new one accepted.
Rotate(f) ==
    /\ f \in valid /\ issued < MaxTok
    /\ issued' = issued + 1 /\ valid' = (valid \ {f}) \cup {issued + 1}
    /\ grew' = grew \cup {<<f, issued + 1>>}

CodexStart ==
    /\ codex = 0 /\ live # 0 /\ codex' = live
    /\ UNCHANGED <<slotVars, liveVars, locks, op, provider, history, used>>
CodexExit ==
    /\ codex # 0 /\ codex' = 0
    /\ UNCHANGED <<slotVars, liveVars, locks, op, provider, history, used>>
\* A running Codex renews the login it holds and writes auth.json.
CodexRotate ==
    /\ codex # 0 /\ Rotate(codex) /\ codex' = issued' /\ live' = issued'
    /\ UNCHANGED <<slotVars, active, locks, op, history, used>>
\* `codex login` with this account: a fresh grant that descends from none.
CodexLogin ==
    /\ used.login < MaxLogins /\ issued < MaxTok
    /\ used' = [used EXCEPT !.login = @ + 1]
    /\ issued' = issued + 1 /\ valid' = valid \cup {issued + 1} /\ live' = issued + 1
    /\ codex' = IF codex = 0 THEN 0 ELSE issued + 1
    /\ UNCHANGED <<slotVars, active, locks, op, grew, history>>
\* auth.json is logged out, or another account's.
CodexLeave ==
    /\ live # 0 /\ live' = 0 /\ codex' = 0
    /\ UNCHANGED <<slotVars, active, locks, op, provider, history, used>>

-----------------------------------------------------------------------------
(* Starting an operation *)

\* `qlb codex refresh`, freshenCodexTarget: refuses the active slot before and under its locks.
StartRefresh(p) ==
    /\ row.fp # 0 /\ ~active /\ sw = None /\ sw' = p
    /\ op' = [op EXCEPT ![p] = [Idle EXCEPT !.kind = "refresh", !.pc = "read"]]
    /\ UNCHANGED <<auth, db>>
\* refreshActiveCodexLogin takes consume, switch and auth locks in that order.
StartActive(p) ==
    /\ active /\ sw = None /\ auth = None /\ sw' = p /\ auth' = p
    /\ op' = [op EXCEPT ![p] = [Idle EXCEPT !.kind = "active", !.pc = "observe"]]
    /\ UNCHANGED db
\* `qlb codex import-active` takes the auth lock alone.
StartImport(p) ==
    /\ auth = None /\ auth' = p
    /\ op' = [op EXCEPT ![p] = [Idle EXCEPT !.kind = "import", !.pc = "observe"]]
    /\ UNCHANGED <<sw, db>>
Start(p) ==
    /\ op[p].pc = "idle"
    /\ \/ "refresh" \in Kinds /\ StartRefresh(p)
       \/ "active" \in Kinds /\ StartActive(p)
       \/ "import" \in Kinds /\ StartImport(p)
    /\ UNCHANGED <<slotVars, liveVars, codex, provider, history, used>>

-----------------------------------------------------------------------------
(* Attribution of the live document: import, and the first half of active *)

\* The stable read of auth.json.  A file of another account moves active_login there.
ObserveLive(p) ==
    /\ op[p].pc = "observe"
    /\ IF live = 0
         THEN Finish(p) /\ active' \in {active, FALSE}
         ELSE /\ op' = [op EXCEPT ![p].pc = "first", ![p].seen = live]
              /\ UNCHANGED <<locks, active>>
    /\ UNCHANGED <<slotVars, live, codex, provider, history, used>>

\* import-active reads the row and then the Keychain, observeLiveCodex the other way round.
\* The attribution behind a publication or a reuse reads them row first, too
\* (codex-active.ts:261, 295); here it follows observeLiveCodex.
ReadFirst(p) ==
    /\ op[p].pc = "first"
    /\ op' = IF op[p].kind = "import" THEN [op EXCEPT ![p].pc = "second", ![p].row = row.fp]
                                      ELSE [op EXCEPT ![p].pc = "second", ![p].kc = kc]
    /\ UNCHANGED <<slotVars, liveVars, locks, codex, provider, history, used>>
ReadSecond(p) ==
    /\ op[p].pc = "second" /\ (op[p].kind = "import" => op[p].row # 0)
    /\ op' = IF op[p].kind = "import" THEN [op EXCEPT ![p].pc = "decide", ![p].kc = kc]
                                      ELSE [op EXCEPT ![p].pc = "decide", ![p].row = row.fp]
    /\ UNCHANGED <<slotVars, liveVars, locks, codex, provider, history, used>>

\* The live account has no slot yet (importActiveCodexSlot): Keychain item, row, active login and
\* lineage in one transaction, unless admission refuses.  A failing COMMIT leaves the item.
ImportNew(p) ==
    /\ op[p].pc = "second" /\ op[p].kind = "import" /\ op[p].row = 0 /\ db = None
    /\ \/ /\ assertHeld(p) /\ kc' = op[p].seen /\ db' = p /\ Goto(p, "imported") /\ UNCHANGED <<sw, auth>>
          /\ prev' = IF row.fp \notin {0, op[p].seen} /\ kc = row.fp THEN kc ELSE prev
          /\ late' = (late \/ row.fp \notin {0, op[p].seen})
       \/ Finish(p) /\ UNCHANGED <<kc, prev, late>>
    /\ UNCHANGED <<row, edges, stash, liveVars, codex, provider, arrived, gone, heads, torn, skew, used>>
ImportCommit(p) ==
    /\ op[p].pc = "imported"
    /\ \/ /\ LET moved == row.fp # op[p].seen IN
             /\ row' = [fp |-> op[p].seen, prev |-> IF moved /\ row.fp # 0 THEN row.fp ELSE row.prev,
                        dead |-> row.dead /\ ~moved, pend |-> FALSE]
             /\ IF moved /\ row.fp # 0 THEN recordTransition(row.fp, op[p].seen) ELSE UNCHANGED edges
          /\ active' = TRUE /\ heads' = heads \cup {op[p].seen} /\ UNCHANGED used
       \/ Fail /\ UNCHANGED <<row, edges, active, heads>>
    /\ FinishTx(p)
    /\ UNCHANGED <<kc, prev, stash, live, codex, provider, arrived, gone, torn, skew, late>>

\* Row and Keychain differ: repairCodexSlotKeychain puts the recorded document back, from the
\* live file or from :prev, inside one write transaction; without one it is a split.
RepairSplit(p) ==
    /\ op[p].pc = "decide" /\ op[p].kc # op[p].row /\ db = None
    /\ IF assertHeld(p) /\ CanRepairSlot(op[p].seen)
         THEN /\ repairCodexSlotKeychain
              /\ op' = [op EXCEPT ![p].row = row.fp, ![p].kc = row.fp, ![p].pinned = TRUE]
              /\ UNCHANGED locks
         ELSE Finish(p) /\ UNCHANGED kc
    /\ UNCHANGED <<row, prev, edges, stash, liveVars, codex, provider, history, used>>

\* The same lineage: the slot is marked active.
Noop(p) ==
    /\ op[p].pc = "decide" /\ op[p].kc = op[p].row /\ op[p].row = op[p].seen
    /\ Goto(p, "mark")
    /\ UNCHANGED <<slotVars, liveVars, locks, codex, provider, history, used>>

\* Codex still has an ancestor of the slot's document: publish the slot's.  After a POST or in
\* recovery republishing is forbidden; the active path re-reads the file first and starts over
\* if it changed, import-active does not; after a repair the row is checked once more.
Republish(p) ==
    /\ op[p].pc = "decide" /\ op[p].kc = op[p].row /\ op[p].row # op[p].seen
    /\ isSuccessor(op[p].seen, op[p].row)
    /\ \/ /\ op[p].phase # "pre" \/ ~assertHeld(p) \/ (op[p].pinned /\ row.fp # op[p].row)
          /\ Finish(p)
       \/ /\ op[p].phase = "pre" /\ assertHeld(p) /\ (op[p].pinned => row.fp = op[p].row)
          /\ Goto(p, IF op[p].kind = "active" /\ live # op[p].seen THEN "observe" ELSE "publish")
          /\ UNCHANGED locks
    /\ UNCHANGED <<slotVars, liveVars, codex, provider, history, used>>
PublishSlot(p) ==
    /\ op[p].pc = "publish"
    /\ \/ assertHeld(p) /\ live' = op[p].row /\ UNCHANGED <<locks, used>>
          /\ op' = [op EXCEPT ![p].pc = "mark", ![p].phase = "post"]
       \/ LostOrFailed(p) /\ Finish(p) /\ UNCHANGED live
    /\ UNCHANGED <<slotVars, active, codex, provider, history>>

\* markCodexSlotImportedActive: only if the fingerprint is still the row's.  After a lost race
\* with Codex the mark is left out, so that pending_adopt stays.
Mark(p) ==
    /\ op[p].pc = "mark" /\ db = None
    /\ LET ok == assertHeld(p) /\ CanMark(op[p].row) IN
       /\ IF ok /\ op[p].phase # "won"
            THEN markCodexSlotImportedActive(op[p].row)
            ELSE UNCHANGED <<row, active>>
       /\ IF ok /\ op[p].kind = "active" /\ op[p].phase = "pre"
            THEN Goto(p, "due") /\ UNCHANGED locks
            ELSE Finish(p)
    /\ UNCHANGED <<kc, prev, edges, stash, live, codex, provider, history, used>>

\* Neither equal nor an ancestor: the live document becomes the slot's
\* (adoptCodexSlotWithKeychain: CAS on the row, Keychain writes, then COMMIT).  The item
\* and its ':prev' are taken as they are when SQLite's lock is taken, which the code reads
\* just before (codex-attribution.ts:216).
Adopt(p) ==
    /\ op[p].pc = "decide" /\ op[p].kc = op[p].row /\ op[p].row # op[p].seen
    /\ ~isSuccessor(op[p].seen, op[p].row) /\ db = None
    /\ IF assertHeld(p) /\ row.fp = op[p].row
         THEN /\ prev' = IF kc = op[p].row THEN kc ELSE prev
              /\ kc' = op[p].seen /\ db' = p /\ UNCHANGED <<sw, auth>>
              /\ op' = [op EXCEPT ![p].pc = "adopted", ![p].old = <<kc, prev>>]
         ELSE Finish(p) /\ UNCHANGED <<kc, prev>>
    /\ UNCHANGED <<row, edges, stash, liveVars, codex, provider, history, used>>

AdoptCommit(p) ==
    /\ op[p].pc = "adopted" /\ assertHeld(p)
    /\ adoptCodexSlotWithKeychain(op[p].row, op[p].seen)
    /\ IF op[p].kind = "active" /\ op[p].phase = "pre"
         THEN Goto(p, "due") /\ db' = None /\ UNCHANGED <<sw, auth>>
         ELSE FinishTx(p)
    /\ UNCHANGED <<kc, prev, stash, live, codex, provider, arrived, gone, torn, skew, late, used>>

\* restoreKeychain: each item goes back only if it still has the bytes this attempt wrote.
AdoptUndo(p) ==
    /\ op[p].pc = "adopted" /\ LostOrFailed(p)
    /\ kc' = IF kc = op[p].seen THEN op[p].old[1] ELSE kc
    /\ prev' = IF op[p].old[1] = op[p].row /\ prev = op[p].old[1] THEN op[p].old[2] ELSE prev
    /\ FinishTx(p)
    /\ UNCHANGED <<row, edges, stash, liveVars, codex, provider, history>>

\* The active login is settled: not due, or held by a running Codex, ends it.
Due(p) ==
    /\ op[p].pc = "due"
    /\ \/ Finish(p)
       \/ codex = 0 /\ Goto(p, "read") /\ UNCHANGED locks
    /\ UNCHANGED <<slotVars, liveVars, codex, provider, history, used>>
-----------------------------------------------------------------------------
(* consumeCodexSlotLocked: the slot's token is spent for its successor *)

ReadSlot(p) ==
    /\ op[p].pc = "read"
    /\ op' = [op EXCEPT ![p].pc = "repair", ![p].cur = kc]
    /\ UNCHANGED <<slotVars, liveVars, locks, codex, provider, history, used>>

\* A Keychain provably ahead of the row moves the row forward; anything else is a split.
RepairDrift(p) ==
    /\ op[p].pc = "repair" /\ db = None
    /\ LET cur   == op[p].cur
           ahead == row.fp # cur /\ (prev = row.fp \/ <<row.fp, cur>> \in edges)
       IN IF assertHeld(p) /\ (row.fp = cur \/ ahead)
            THEN /\ row' = [row EXCEPT !.fp = cur, !.prev = IF ahead /\ prev = row.fp THEN row.fp ELSE @]
                 /\ edges' = IF ahead THEN edges \cup {<<row.fp, cur>>} ELSE edges
                 /\ heads' = heads \cup {cur} /\ skew' = (skew \/ (ahead /\ kc # cur))
                 /\ Goto(p, "find") /\ UNCHANGED locks
            ELSE Finish(p) /\ UNCHANGED <<row, edges, heads, skew>>
    /\ UNCHANGED <<kc, prev, stash, liveVars, codex, provider, arrived, gone, torn, late, used>>

\* adoptSuccessor: a stashed successor of this very token is taken instead of a POST.
\* Otherwise a Codex that holds the login, or a token another caller just renewed, ends it.
FindStashed(p) ==
    /\ op[p].pc = "find"
    /\ LET found == findStashedSuccessor(op[p].cur) IN
       IF found # {}
         THEN /\ \E s \in found : op' = [op EXCEPT ![p].pc = "begin", ![p].suc = s.to, ![p].adopting = TRUE]
              /\ UNCHANGED locks
         ELSE \/ Finish(p)
              \/ codex = 0 /\ Goto(p, "post") /\ UNCHANGED locks
    /\ UNCHANGED <<slotVars, liveVars, codex, provider, history, used>>

\* The answer arrives, is lost after the token was spent, or the request never counted.
Post(p) ==
    /\ op[p].pc = "post" /\ assertHeld(p) /\ Rotate(op[p].cur)
    /\ \/ /\ op' = [op EXCEPT ![p].pc = "got", ![p].suc = issued']
          /\ arrived' = arrived \cup {issued'} /\ UNCHANGED <<locks, used>>
       \/ Fail /\ Finish(p) /\ UNCHANGED arrived
    /\ UNCHANGED <<slotVars, liveVars, codex, gone, heads, torn, skew, late>>
PostRejected(p) ==
    /\ op[p].pc = "post" /\ assertHeld(p) /\ op[p].cur \notin valid
    /\ Goto(p, "rejected")
    /\ UNCHANGED <<slotVars, liveVars, locks, codex, provider, history, used>>
PostFailed(p) ==
    /\ op[p].pc = "post" /\ Finish(p)
    /\ UNCHANGED <<slotVars, liveVars, codex, provider, history, used>>

\* invalid_grant: a slot that moved meanwhile supersedes the verdict.
Rejected(p) ==
    /\ op[p].pc = "rejected"
    /\ IF kc = op[p].cur THEN Goto(p, "refused") /\ UNCHANGED locks ELSE Finish(p)
    /\ UNCHANGED <<slotVars, liveVars, codex, provider, history, used>>

\* recordInStore: a reuse while a Codex runs leaves the slot to be adopted, else it is dead.
\* Only if the row still has this fingerprint.  The active path looks at the live file again.
\* The holders are listed in the same step, and the comparison of the re-read document
\* with the attempt (codex-consume.ts:580) is the one of fingerprints.
RecordRejected(p) ==
    /\ op[p].pc = "refused" /\ db = None
    /\ LET ok == assertHeld(p) /\ row.fp = op[p].cur IN
       /\ row' = IF ~ok THEN row
                 ELSE IF codex # 0 THEN [row EXCEPT !.pend = TRUE] ELSE [row EXCEPT !.dead = TRUE]
       /\ IF ok /\ codex # 0 /\ op[p].kind = "active"
            THEN op' = [op EXCEPT ![p].pc = "observe", ![p].phase = "won"] /\ UNCHANGED locks
            ELSE Finish(p)
    /\ UNCHANGED <<kc, prev, edges, stash, liveVars, codex, provider, history, used>>

\* The slot is read again: a document that is no longer ours is not overwritten.
GotSuccessor(p) ==
    /\ op[p].pc = "got"
    /\ Goto(p, IF kc = op[p].cur THEN "begin" ELSE "stash")
    /\ UNCHANGED <<slotVars, liveVars, locks, codex, provider, history, used>>

\* persistTransition: BEGIN IMMEDIATE and the CAS on the row.
PersistBegin(p) ==
    /\ op[p].pc = "begin" /\ db = None
    /\ IF assertHeld(p) /\ row.fp = op[p].cur
         THEN Goto(p, "write") /\ db' = p /\ UNCHANGED <<sw, auth>>
         ELSE IF op[p].adopting THEN Finish(p)
         ELSE Goto(p, IF assertHeld(p) THEN "stash" ELSE "emergency") /\ UNCHANGED locks
    /\ UNCHANGED <<slotVars, liveVars, codex, provider, history, used>>

\* writeSlot: :prev first, then the item.  A failing write may have done either, or both.
PersistWrite(p) ==
    /\ op[p].pc = "write" /\ assertHeld(p)
    /\ \/ /\ writeSlot(op[p].suc, op[p].cur) /\ UNCHANGED used
          /\ op' = [op EXCEPT ![p].pc = "commit", ![p].wrote = TRUE]
       \/ /\ Fail /\ Goto(p, IF op[p].adopting THEN "undo" ELSE "save")
          /\ \E w \in {<<prev, kc>>, <<op[p].cur, kc>>, <<op[p].cur, op[p].suc>>} :
               prev' = w[1] /\ kc' = w[2]
    /\ UNCHANGED <<row, edges, stash, liveVars, locks, codex, provider, history>>

\* Row, lineage and COMMIT, after authority was checked once more.
PersistCommit(p) ==
    /\ op[p].pc = "commit" /\ assertHeld(p)
    /\ \/ /\ row' = [fp |-> op[p].suc, prev |-> op[p].cur, dead |-> FALSE, pend |-> FALSE]
          /\ recordTransition(op[p].cur, op[p].suc)
          /\ heads' = heads \cup {op[p].suc} /\ db' = None /\ UNCHANGED <<sw, auth, used>>
          /\ Goto(p, IF op[p].adopting THEN "unstash" ELSE "cas")
       \/ /\ Fail /\ Goto(p, IF op[p].adopting THEN "undo" ELSE "save")
          /\ UNCHANGED <<row, edges, heads, locks>>
    /\ UNCHANGED <<kc, prev, stash, liveVars, codex, provider, arrived, gone, torn, skew, late>>

\* The locks were lost inside the transaction: ROLLBACK, then the emergency stash.
PersistLockLost(p) ==
    /\ op[p].pc \in {"write", "commit"} /\ ~assertHeld(p) /\ db' = None
    /\ IF op[p].adopting THEN Release(p) ELSE Goto(p, "emergency") /\ UNCHANGED <<sw, auth>>
    /\ UNCHANGED <<slotVars, liveVars, codex, provider, history, used>>

\* Mutant: the slot is compensated without a stashed copy.
PersistSkipSave(p) ==
    /\ op[p].pc = "save" /\ Goto(p, "undo")
    /\ UNCHANGED <<slotVars, liveVars, locks, codex, provider, history, used>>
\* An error inside the transaction: the successor is stashed before anything is restored, with
\* SQLite's lock still held.  If even that fails it is kept in the slot and reported, one
\* step here for its read and its write (codex-consume.ts:395, 614).
PersistSave(p) ==
    /\ op[p].pc = "save"
    /\ \/ /\ stashUnclaimedDurably(op[p].cur, op[p].suc)
          /\ Goto(p, "undo") /\ UNCHANGED <<kc, prev, locks, gone, used>>
       \/ /\ Fail /\ gone' = gone \cup {op[p].suc} /\ FinishTx(p) /\ UNCHANGED stash
          /\ IF ~op[p].wrote /\ assertHeld(p) /\ kc = op[p].cur
               THEN writeSlot(op[p].suc, op[p].cur)
               ELSE UNCHANGED <<kc, prev>>
    /\ UNCHANGED <<row, edges, liveVars, codex, provider, arrived, heads, torn, skew, late>>

\* compensateSlot: the predecessor goes back if the slot still has this attempt's successor.
PersistUndo(p) ==
    /\ op[p].pc = "undo"
    /\ IF op[p].wrote /\ assertHeld(p) /\ kc = op[p].suc
         THEN writeSlot(op[p].cur, op[p].suc)
         ELSE UNCHANGED <<kc, prev>>
    /\ recordTransition(op[p].cur, op[p].suc) \/ UNCHANGED edges
    /\ FinishTx(p)
    /\ UNCHANGED <<row, stash, liveVars, codex, provider, history, used>>

\* stashSuccessor and stashSuccessorEmergency, outside a transaction; the audit row may be missing.
StashSuccessor(p) ==
    /\ op[p].pc \in {"stash", "emergency"}
    /\ \/ /\ \/ /\ op[p].pc = "stash" /\ stashUnclaimedDurably(op[p].cur, op[p].suc)
                /\ \/ assertHeld(p) /\ db = None /\ recordTransition(op[p].cur, op[p].suc)
                   \/ UNCHANGED edges
             \/ op[p].pc = "emergency" /\ stashSuccessorEmergency(op[p].cur, op[p].suc) /\ UNCHANGED edges
          /\ UNCHANGED <<gone, used>>
       \/ Fail /\ gone' = gone \cup {op[p].suc} /\ UNCHANGED <<stash, edges>>
    /\ Finish(p)
    /\ UNCHANGED <<row, kc, prev, liveVars, codex, provider, arrived, heads, torn, skew, late>>

\* removeStashedSuccessor, after the commit; a failure leaves a harmless copy.
Unstash(p) ==
    /\ op[p].pc = "unstash"
    /\ \/ removeStashedSuccessor(op[p].cur, op[p].suc) /\ UNCHANGED used
       \/ Fail /\ UNCHANGED stash
    /\ Goto(p, "cas")
    /\ UNCHANGED <<row, kc, prev, edges, liveVars, locks, codex, provider, history>>

-----------------------------------------------------------------------------
(* publishActiveDocument: the active login's new document goes to auth.json *)

Again(p) == /\ op' = [op EXCEPT ![p].pc = "first", ![p].seen = live, ![p].phase = "post"]
            /\ UNCHANGED locks
\* The file must still be the one observed; another one of ours is attributed instead.
PublishCas(p) ==
    /\ op[p].pc = "cas"
    /\ IF op[p].kind = "refresh" \/ ~assertHeld(p) \/ live = 0 THEN Finish(p)
       ELSE IF live = op[p].seen THEN Goto(p, "rename") /\ UNCHANGED locks
       ELSE Again(p)
    /\ UNCHANGED <<slotVars, liveVars, codex, provider, history, used>>
PublishRename(p) ==
    /\ op[p].pc = "rename"
    /\ \/ assertHeld(p) /\ live' = op[p].suc /\ Goto(p, "verify") /\ UNCHANGED <<locks, used>>
       \/ LostOrFailed(p) /\ Finish(p) /\ UNCHANGED live
    /\ UNCHANGED <<slotVars, active, codex, provider, history>>
PublishVerify(p) ==
    /\ op[p].pc = "verify"
    /\ IF live \in {0, op[p].suc, op[p].seen} \/ ~assertHeld(p) THEN Finish(p) ELSE Again(p)
    /\ UNCHANGED <<slotVars, liveVars, codex, provider, history, used>>

-----------------------------------------------------------------------------
(* Faults *)

\* The process dies; SQLite rolls back, the lock directories become stale.
Crash(p) ==
    /\ op[p].pc # "idle" /\ used.crash < MaxCrashes
    /\ used' = [used EXCEPT !.crash = @ + 1]
    /\ Release(p) /\ db' = IF db = p THEN None ELSE db
    /\ gone' = IF op[p].pc \in InMemory /\ ~op[p].adopting THEN gone \cup {op[p].suc} ELSE gone
    /\ torn' = (torn \/ op[p].pc \in {"commit", "adopted"} \/ (op[p].pc = "save" /\ kc = op[p].suc))
    /\ UNCHANGED <<slotVars, liveVars, codex, provider, arrived, heads, skew, late>>

\* A lock whose holder stalled is taken over: the holder's token is no longer in it.
LoseSwitchLock(p) ==
    /\ sw = p /\ used.stall < MaxStalls /\ sw' = None
    /\ used' = [used EXCEPT !.stall = @ + 1]
    /\ UNCHANGED <<slotVars, liveVars, db, auth, op, codex, provider, history>>
LoseAuthLock(p) ==
    /\ auth = p /\ used.stall < MaxStalls /\ auth' = None
    /\ used' = [used EXCEPT !.stall = @ + 1]
    /\ UNCHANGED <<slotVars, liveVars, db, sw, op, codex, provider, history>>

Attribute(p) ==
    \/ ObserveLive(p) \/ ReadFirst(p) \/ ReadSecond(p) \/ ImportNew(p)
    \/ ImportCommit(p) \/ RepairSplit(p) \/ Noop(p) \/ Republish(p)
    \/ PublishSlot(p) \/ Mark(p) \/ Adopt(p) \/ AdoptCommit(p) \/ AdoptUndo(p) \/ Due(p)
Consume(p) ==
    \/ ReadSlot(p) \/ RepairDrift(p) \/ FindStashed(p) \/ Post(p) \/ PostRejected(p) \/ PostFailed(p)
    \/ Rejected(p) \/ RecordRejected(p) \/ GotSuccessor(p) \/ PersistBegin(p) \/ PersistWrite(p)
    \/ PersistCommit(p) \/ PersistLockLost(p) \/ PersistSave(p) \/ PersistUndo(p)
    \/ StashSuccessor(p) \/ Unstash(p)
Publish(p) == PublishCas(p) \/ PublishRename(p) \/ PublishVerify(p)
Next ==
    \/ CodexStart \/ CodexExit \/ CodexRotate \/ CodexLogin \/ CodexLeave
    \/ \E p \in Ops : Start(p) \/ Attribute(p) \/ Consume(p) \/ Publish(p)
                      \/ Crash(p) \/ LoseSwitchLock(p) \/ LoseAuthLock(p)
Spec == Init /\ [][Next]_vars

-----------------------------------------------------------------------------
(* Properties *)

\* While the provider accepts the token the row names, its document is in the slot, its :prev
\* item, the stash or auth.json, unless it was reported lost: the row never names a login nobody has.
HeadKept ==
    row.fp \in valid \ gone /\ ~skew => row.fp \in {kc, prev, live} \cup {x.to : x \in stash}

Kept(s) ==
    \/ s \in {kc, prev, live} \cup heads \cup gone
    \/ \E x \in stash : x.to = s
    \/ \E p \in Ops : op[p].suc = s
\* A successor that reached QLB is in the slot, in the stash, still in hand, or has been the slot's
\* head; what could not be kept was reported or died in memory.  The exception is a crash between
\* a slot write and its commit: a later repair of the split from :prev or from the live file puts
\* the spent predecessor back over the only copy.
SuccessorKept == torn \/ \A s \in arrived : Kept(s)

\* A slot is called dead only if the provider would refuse its document.  (A drift repair keeps
\* the mark of the token it leaves, and may leave it on the word of a read that is no longer true.)
DeadIsTrue == row.dead /\ ~torn /\ ~skew /\ used.stall = 0 => row.fp \notin valid

\* The row never returns to a token its head descends from, but after a drift repair on a read
\* that was no longer true, or an import of a new account that found a slot when it wrote.
HeadsNeverGoBack == [][Reaches(grew, row'.fp, row.fp) => skew' \/ late']_vars

\* A token is not presented again once its successor reached QLB, unless that was lost or a
\* lock was taken over from a holder that still had it.
Posting(p) == op[p].pc = "post" /\ op'[p].pc \in {"got", "rejected"}
NeverSpentTwice ==
    [][torn \/ used.stall > 0 \/ \A p \in Ops : Posting(p) =>
         \A e \in grew : e[1] = op[p].cur /\ e[2] \in arrived => e[2] \in gone]_vars

\* A token the row names and the provider accepts, and every successor that reached
\* QLB, is in the slot, ':prev', the stash or auth.json, unless it was reported lost;
\* and a slot is called dead only if the provider would refuse its document.
SlotKept == HeadKept /\ SuccessorKept /\ DeadIsTrue

\* A token is not presented again once its successor reached QLB, and the row never
\* returns to a token its head descends from (the exceptions are in CodexSlot).
SlotMovesOn == NeverSpentTwice /\ HeadsNeverGoBack
=============================================================================
