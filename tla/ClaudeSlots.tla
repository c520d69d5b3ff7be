----------------------------- MODULE ClaudeSlots -----------------------------
(***************************************************************************)
(* One Claude account's slot and everything that spends or moves its       *)
(* refresh token: consumption while it is inactive (src/cc-consume.ts),    *)
(* refresh of the active login and resync of what Claude Code rotated      *)
(* (src/cc-resync.ts, src/gate/anthropic.ts), add, restore and the stash   *)
(* of successors nobody could store (src/cc-slots.ts, src/cc-add.ts).      *)
(*                                                                         *)
(* A credential is its refresh token: the other bytes of the blob do not   *)
(* decide anything here.  Tokens are numbered in the order the provider    *)
(* issued them, so a larger number also expires later.  A write into the slot is        *)
(* several steps (':prev', item, row) inside a SQLite transaction that     *)
(* cannot roll the Keychain back; a process can fail or die at each.       *)
(***************************************************************************)
EXTENDS Naturals, FiniteSets

CONSTANTS
    Procs,
    None,          \* no holder
    Foreign,       \* the refresh token of some other account
    MaxTok,        \* bound: tokens of this account
    MaxTrouble     \* bound: failing calls, deaths and logins

ConstantsAssumption ==
    /\ IsFiniteSet(Procs) /\ None \notin Procs /\ Foreign \notin Nat
    /\ MaxTok \in Nat \ {0} /\ MaxTrouble \in Nat

VARIABLES
    live,      \* Claude Code's credential item
    own,       \* Claude Code's config names this account
    item, prev,\* the slot's Keychain items
    row,       \* claude_slots: fingerprint, previous fingerprint, dead
    edges,     \* lineage_log
    stash,     \* unclaimed index rows and their bodies
    cons, sw, cc, tx,  \* consume, switch and credential locks, write transaction
    claim,     \* config pi.anthropic.forced401: the access token a forced refresh was for
    op,        \* each process
    spent,     \* provider: refresh tokens exchanged
    expired,   \* tokens whose access token has expired
    issued, parent, \* tokens issued and the token each was issued for
    arrived,   \* history: successors that reached a process
    excused,   \* history: successors whose process died or reported that it could not store them, or that
               \* the user logged in over or replaced
    rewound,   \* history: a process died between the item and the row of a write, or could not put the
               \* item back; or the active refresh adopted a live credential with the slot's previous token
    used

slot    == <<item, prev, row, edges>>
locks   == <<cons, sw, cc, tx>>
world   == <<live, own, spent, expired, issued, parent>>
history == <<arrived, excused, rewound>>
vars    == <<slot, stash, locks, claim, op, world, history, used>>

NoCred   == 0
Tokens   == 1..MaxTok
Owned(c) == c \in Tokens
Idle == [kind |-> "none", pc |-> "idle", creds |-> NoCred, force |-> FALSE, claimed |-> FALSE, slot |-> NoCred, lv |-> NoCred,
         input |-> NoCred, src |-> "none", succ |-> NoCred, target |-> NoCred, old |-> NoCred, oldPrev |-> NoCred,
         ok |-> "idle", bad |-> "idle", entry |-> 0, posted |-> FALSE, wrote |-> FALSE]

Init ==
    /\ item = 1 /\ prev = NoCred /\ row = [fp |-> 1, prevFp |-> 0, dead |-> FALSE] /\ edges = {} /\ stash = {}
    /\ own \in BOOLEAN /\ live = IF own THEN item ELSE Foreign
    /\ cons = None /\ sw = None /\ cc = None /\ tx = None /\ claim = 0
    /\ op = [p \in Procs |-> Idle]
    /\ spent = {} /\ expired = {} /\ issued = 1 /\ parent = [t \in Tokens |-> 0]
    /\ arrived = {} /\ excused = {} /\ rewound = FALSE /\ used = 0

-----------------------------------------------------------------------------
(* Helpers *)

Trouble == used < MaxTrouble /\ used' = used + 1
\* On the way out only what Out looks at is still of use.
At(o, pc) == IF pc = "out" THEN [Idle EXCEPT !.pc = pc, !.claimed = o.claimed, !.posted = o.posted,
                                            !.creds = IF o.claimed THEN o.creds ELSE NoCred]
             ELSE [o EXCEPT !.pc = pc]
Goto(p, pc) == op' = [op EXCEPT ![p] = At(@, pc)]
\* The finally blocks: whatever is still held is released.
Free(p) ==
    /\ cons' = (IF cons = p THEN None ELSE cons) /\ sw' = (IF sw = p THEN None ELSE sw)
    /\ cc' = (IF cc = p THEN None ELSE cc) /\ tx' = (IF tx = p THEN None ELSE tx)
Done(p) == op' = [op EXCEPT ![p] = Idle] /\ Free(p)
\* isSuccessor: a path of lineage rows and of the slot's own step from its previous
\* fingerprint, here of at most three edges.
isSuccessor(x, y) ==
    LET links == edges \cup {<<row.prevFp, row.fp>>}
    IN x # y /\ \E m, n \in Tokens :
         /\ m = x \/ <<x, m>> \in links
         /\ n = y \/ <<n, y>> \in links
         /\ m = n \/ <<m, n>> \in links
Fresh(c) == (Owned(c) /\ c \notin expired) \/ c = Foreign
Stored(r) == item = r \/ live = r \/ \E e \in stash : e.tok = r /\ e.body # "none"

\* The provider exchanges token t: fresh succeeds, spent is invalid_grant.
Exchange(t) == /\ t \notin spent /\ issued < MaxTok /\ issued' = issued + 1 /\ spent' = spent \cup {t}
               /\ parent' = [parent EXCEPT ![issued + 1] = t]

-----------------------------------------------------------------------------
(* writeSlot: a subroutine entered at w_begin with target, left at ok or bad *)

Call(p, c, ok, bad) == [op[p] EXCEPT !.pc = "w_begin", !.target = c, !.ok = ok, !.bad = bad]

\* BEGIN IMMEDIATE, the row, the item and ':prev' are read; equal bytes are nothing to do
\* (applyAdd still clears the dead mark).
WriteBegin(p) ==
    /\ op[p].pc = "w_begin" /\ tx \in {None, p}
    /\ LET same == row.fp = op[p].target /\ item = op[p].target IN
       \/ /\ same /\ tx' = None /\ Goto(p, op[p].ok) /\ UNCHANGED used
          /\ row' = IF op[p].kind = "add" THEN [row EXCEPT !.dead = FALSE] ELSE row
       \/ /\ ~same /\ tx' = p /\ UNCHANGED <<used, row>>
          /\ op' = [op EXCEPT ![p] = [@ EXCEPT !.old = item, !.oldPrev = prev,
                                       !.pc = IF item # NoCred /\ item # op[p].target THEN "w_prev" ELSE "w_item"]]
       \/ Trouble /\ tx' = None /\ Goto(p, op[p].bad) /\ UNCHANGED row
    /\ UNCHANGED <<item, prev, edges, stash, cons, sw, cc, claim, world, history>>
WritePrev(p) ==
    /\ op[p].pc = "w_prev"
    /\ \/ prev' = op[p].old /\ Goto(p, "w_item") /\ UNCHANGED used
       \/ Trouble /\ prev' \in {prev, op[p].old} /\ Goto(p, "w_undo")
    /\ UNCHANGED <<item, row, edges, stash, locks, claim, world, history>>
WriteItem(p) ==
    /\ op[p].pc = "w_item"
    /\ \/ item' = op[p].target /\ Goto(p, "w_commit") /\ UNCHANGED used
       \/ Trouble /\ item' \in {item, op[p].target} /\ Goto(p, "w_undo")
    /\ UNCHANGED <<prev, row, edges, stash, locks, claim, world, history>>
\* updateCredentialWithLineage, applyAddEffects: a changed fingerprint adds an edge and heals.
WriteCommit(p) ==
    /\ op[p].pc = "w_commit"
    /\ LET fp == op[p].target
           moves == fp # row.fp
           kept == op[p].old # NoCred /\ op[p].old # op[p].target
       IN \/ /\ row' = [fp |-> fp, prevFp |-> IF moves \/ kept THEN row.fp ELSE row.prevFp,
                        dead |-> row.dead /\ ~moves /\ op[p].kind # "add"]
             /\ edges' = IF moves THEN edges \cup {<<row.fp, fp>>} ELSE edges
             /\ tx' = None /\ Goto(p, op[p].ok) /\ UNCHANGED used
          \/ Trouble /\ Goto(p, "w_undo") /\ UNCHANGED <<row, edges, tx>>
    /\ UNCHANGED <<item, prev, stash, cons, sw, cc, claim, world, history>>
WriteUndo(p) ==
    /\ op[p].pc = "w_undo" /\ tx' = None /\ Goto(p, "w_restore")
    /\ UNCHANGED <<slot, stash, cons, sw, cc, claim, world, history, used>>
\* restoreCredentialPair, after the ROLLBACK: the pre-image goes back where the new value still
\* is, the item first; a failing call ends it, and that is not reported.
WriteRestore(p) ==
    /\ op[p].pc = "w_restore" /\ Goto(p, op[p].bad)
    /\ LET back == IF item = op[p].target THEN op[p].old ELSE item
           prevBack == IF prev = op[p].old THEN op[p].oldPrev ELSE prev
       IN \/ item' = back /\ prev' = prevBack /\ UNCHANGED <<used, rewound>>
          \/ Trouble /\ item' \in {item, back} /\ UNCHANGED prev /\ rewound' = (rewound \/ item' # back)
    /\ UNCHANGED <<row, edges, stash, locks, claim, world, arrived, excused>>

-----------------------------------------------------------------------------
(* The stash *)

\* stashUnclaimed: the index row is reserved, then the body written to the Keychain or a file;
\* when neither works the caller gets the successor back as unpersisted.
StashReserve(p) ==
    /\ op[p].pc = "s_reserve"
    /\ stash' = stash \cup {[tok |-> op[p].succ, from |-> op[p].input, body |-> "none", by |-> p]}
    /\ Goto(p, "s_body")
    /\ UNCHANGED <<slot, locks, claim, world, history, used>>
StashBody(p) ==
    /\ op[p].pc = "s_body" /\ Goto(p, "out")
    /\ LET mine == {e \in stash : e.tok = op[p].succ /\ e.body = "none"}
           as(b) == (stash \ mine) \cup {[e EXCEPT !.body = b, !.by = None] : e \in mine}
       IN \/ stash' = as("keychain") /\ UNCHANGED <<used, excused>>
          \/ Trouble /\ stash' = as("file") /\ UNCHANGED excused
          \/ Trouble /\ UNCHANGED stash /\ excused' = excused \cup {op[p].succ}
    /\ UNCHANGED <<slot, locks, claim, world, arrived, rewound>>
\* sweepUnclaimed: a body in a file moves to the Keychain.
Sweep ==
    /\ \E e \in stash : e.body = "file" /\ stash' = (stash \ {e}) \cup {[e EXCEPT !.body = "keychain"]}
    /\ UNCHANGED <<slot, locks, claim, op, world, history, used>>

\* A consumption holds the switch lock for the adoption alone.
Adopted(p) == sw' = IF op[p].kind = "consume" THEN None ELSE sw

\* Mutant: the stash is not asked before a token is spent.
AdoptNothing(p) ==
    /\ op[p].pc = "a_begin" /\ tx = None /\ Goto(p, op[p].ok) /\ Adopted(p)
    /\ UNCHANGED <<slot, stash, cons, cc, tx, claim, world, history, used>>
\* adoptStashedSuccessor: a body issued for the item's token goes into the slot; a row whose
\* writer is dead and has no body is dropped; an unreadable body stops the caller.
AdoptStashed(p) ==
    /\ op[p].pc = "a_begin" /\ tx = None
    /\ LET bodies == {e \in stash : e.body # "none" /\ e.from = item}
           orphans == {e \in stash : e.body = "none" /\ e.by = None}
       IN /\ stash' = stash \ orphans
          /\ \/ bodies = {} /\ Goto(p, op[p].ok) /\ Adopted(p) /\ UNCHANGED tx
             \/ \E e \in bodies : /\ tx' = p /\ UNCHANGED sw
                                  /\ op' = [op EXCEPT ![p] = [Call(p, e.tok, "a_clean", op[p].bad) EXCEPT !.entry = e.tok,
                                                                                                          !.src = op[p].ok]]
             \/ bodies # {} /\ Goto(p, op[p].bad) /\ UNCHANGED <<sw, tx>>
    /\ UNCHANGED <<slot, cons, cc, claim, world, history, used>>
\* The safety copy goes once the slot has it, or stays for a later sweep.
AdoptClean(p) ==
    /\ op[p].pc = "a_clean" /\ Goto(p, op[p].src) /\ Adopted(p)
    /\ stash' \in {stash, {e \in stash : e.tok # op[p].entry}}
    /\ UNCHANGED <<slot, cons, cc, tx, claim, world, history, used>>

-----------------------------------------------------------------------------
(* consumeClaudeSlot *)

ConsumeStart(p) ==
    /\ op[p].pc = "idle" /\ ~own /\ cons = None /\ cons' = p
    /\ op' = [op EXCEPT ![p] = [Idle EXCEPT !.kind = "consume", !.pc = "c_adopt", !.creds = item]]
    /\ UNCHANGED <<slot, stash, sw, cc, tx, claim, world, history, used>>
ConsumeAdopt(p) ==
    /\ op[p].pc = "c_adopt" /\ sw = None /\ sw' = p
    /\ op' = [op EXCEPT ![p] = [@ EXCEPT !.pc = "a_begin", !.ok = "c_read", !.bad = "out"]]
    /\ UNCHANGED <<slot, stash, cons, cc, tx, claim, world, history, used>>
\* The re-read, under the switch lock taken again: only a changed and fresh token skips the POST.
ConsumeRead(p) ==
    /\ op[p].pc = "c_read" /\ sw = None
    /\ op' = [op EXCEPT ![p] = At([@ EXCEPT !.slot = item, !.input = item],
                                  IF item # op[p].creds /\ Fresh(item) THEN "out" ELSE "post")]
    /\ UNCHANGED <<slot, stash, locks, claim, world, history, used>>
\* Mutant: a slot that moved, or a lock that cannot be had, ends the call.
PersistOrDrop(p) ==
    /\ op[p].pc = "c_persist"
    /\ \/ /\ sw = None /\ item = op[p].slot /\ sw' = p /\ op' = [op EXCEPT ![p] = Call(p, op[p].succ, "out", "s_reserve")]
       \/ (sw \notin {None, p} \/ item # op[p].slot) /\ Goto(p, "out") /\ UNCHANGED sw
    /\ UNCHANGED <<slot, stash, cons, cc, tx, claim, world, history, used>>
\* The compare-and-swap: same bytes or same token take the successor; a slot that moved sends it
\* to the stash, as does a lock that cannot be had.
ConsumePersist(p) ==
    /\ op[p].pc = "c_persist"
    /\ \/ /\ sw = None /\ sw' = p
          /\ op' = [op EXCEPT ![p] = IF item = op[p].slot THEN Call(p, op[p].succ, "out", "s_reserve")
                                     ELSE [@ EXCEPT !.pc = "s_reserve"]]
       \/ sw \notin {None, p} /\ Goto(p, "s_reserve") /\ UNCHANGED sw
    /\ UNCHANGED <<slot, stash, cons, cc, tx, claim, world, history, used>>

-----------------------------------------------------------------------------
(* refreshActiveLogin, entered by a usage fetch or the gate *)

\* An expired live credential is refreshed; a fresh one only for a 401 on its own access token:
\* the gate's, once per token (claimForced401) and while it is the slot's; a usage fetch's at
\* each 401.  Never for a dead slot.
RefreshStart(p) ==
    /\ op[p].pc = "idle" /\ own /\ ~row.dead /\ Owned(live)
    /\ \E force \in BOOLEAN :
         /\ force = (live \notin expired)
         /\ claim' \in IF force /\ live = row.fp THEN {claim, live} ELSE {claim}
         /\ op' = [op EXCEPT ![p] = [Idle EXCEPT !.kind = "active", !.pc = "r_lock", !.creds = live, !.force = force,
                                                 !.claimed = claim' # claim]]
    /\ UNCHANGED <<slot, stash, locks, world, history, used>>
\* consume, switch and credential locks, in that order; all three or locks-held.
RefreshLock(p) ==
    /\ op[p].pc = "r_lock"
    /\ \/ cons = None /\ sw = None /\ cc = None /\ cons' = p /\ sw' = p /\ cc' = p /\ Goto(p, "r_read")
       \/ (cons # None \/ sw # None \/ cc # None) /\ Goto(p, "out") /\ UNCHANGED <<cons, sw, cc>>
    /\ UNCHANGED <<slot, stash, tx, claim, world, history, used>>

Post(c, source) == [kind |-> "post", input |-> c, src |-> source]
Defer == [kind |-> "defer", input |-> NoCred, src |-> "none"]
\* chooseRefreshInput and backupDecision.
chooseRefreshInput(creds, lv, backup, attributed, force) ==
    LET fromBackup == IF ~force /\ backup \notin expired THEN [kind |-> "restore", input |-> backup, src |-> "slot"]
                      ELSE Post(backup, "slot")
    IN CASE lv = backup -> Post(lv, "live")
         [] lv # creds -> Defer
         [] lv \in Tokens /\ lv > backup -> IF attributed THEN Post(lv, "live") ELSE Defer
         [] OTHER -> fromBackup

\* What is read under the locks decides: a rotation of Claude Code's is adopted, otherwise a
\* token to spend is chosen, or the slot restored.
RefreshRead(p) ==
    /\ op[p].pc = "r_read"
    /\ \E memo \in {"none", "own", "foreign"} :
         /\ memo = "own" => Owned(live)
         /\ memo = "foreign" => ~Owned(live)
         /\ LET creds == IF op[p].force /\ live = op[p].creds THEN live ELSE op[p].creds
                rotated == live # creds /\ Fresh(live)
                writes == live \in {item, row.prevFp} \/ memo = "own"
                d == chooseRefreshInput(creds, live, item, memo = "own" \/ isSuccessor(item, live), op[p].force)
            IN /\ op' = [op EXCEPT ![p] =
                 IF row.dead \/ ~own \/ (rotated /\ (memo = "foreign" \/ ~writes)) \/ (~rotated /\ d.kind = "defer")
                   THEN At(@, "out")
                 ELSE IF rotated THEN Call(p, live, "out", "out")
                 ELSE IF d.kind = "restore" THEN [@ EXCEPT !.pc = "r_restore", !.lv = live]
                 ELSE [@ EXCEPT !.pc = "a_begin", !.ok = "r_choose", !.bad = "out", !.creds = creds, !.lv = live, !.slot = item]]
               /\ rewound' = (rewound \/ (rotated /\ live = row.prevFp /\ live # item /\ op'[p].pc = "w_begin"))
    /\ UNCHANGED <<slot, stash, locks, claim, world, arrived, excused, used>>
\* After the stash: the decision again, on what the slot holds by now; a token that is not the
\* slot's own goes into the slot before it is spent.
RefreshChoose(p) ==
    /\ op[p].pc = "r_choose"
    /\ \E memo \in BOOLEAN :
         LET d == chooseRefreshInput(op[p].creds, op[p].lv, item, memo \/ isSuccessor(item, op[p].lv), op[p].force) IN
         /\ memo => Owned(op[p].lv)
         /\ op' = [op EXCEPT ![p] =
              IF d.kind = "defer" THEN At(@, "out")
              ELSE IF d.kind = "restore" THEN [@ EXCEPT !.pc = "r_restore"]
              ELSE IF d.input = item THEN [@ EXCEPT !.pc = "post", !.input = d.input, !.src = d.src]
              ELSE [Call(p, d.input, "post", "out") EXCEPT !.input = d.input, !.src = d.src]]
    /\ UNCHANGED <<slot, stash, locks, claim, world, history, used>>
\* The slot's credential is put back into the live store.
RefreshRestore(p) ==
    /\ op[p].pc = "r_restore" /\ Goto(p, "out")
    /\ \/ live' = item /\ UNCHANGED used
       \/ Trouble /\ UNCHANGED live
    /\ UNCHANGED <<slot, stash, locks, claim, own, spent, expired, issued, parent, history>>

\* The POST of a consumption or a refresh: answered, refused, or lost on the way back.
PostRefresh(p) ==
    /\ op[p].pc = "post"
    /\ LET t == op[p].input
           c == issued + 1 IN
       \/ /\ Exchange(t) /\ arrived' = arrived \cup {issued + 1} /\ UNCHANGED <<excused, rewound, used>>
          /\ op' = [op EXCEPT ![p] = IF @.kind = "consume" THEN [@ EXCEPT !.succ = c, !.posted = TRUE, !.pc = "c_persist"]
                                     ELSE [Call(p, c, "r_live", "r_edge") EXCEPT !.succ = c, !.posted = TRUE, !.wrote = TRUE]]
       \/ /\ Exchange(t) /\ Trouble /\ excused' = excused \cup {issued + 1} /\ UNCHANGED <<arrived, rewound>>
          /\ op' = [op EXCEPT ![p] = At([@ EXCEPT !.posted = TRUE], "out")]
       \/ /\ t \in spent /\ UNCHANGED <<issued, spent, parent, history, used>>
          /\ op' = [op EXCEPT ![p] = At([@ EXCEPT !.posted = TRUE], IF @.kind = "consume" THEN "out" ELSE "r_dead")]
    /\ UNCHANGED <<slot, stash, locks, claim, live, own, expired>>

\* invalid_grant: the source is read again, and the strike is bound to the row's fingerprint.
StrikeDead(p) ==
    /\ op[p].pc = "r_dead" /\ tx = None /\ Goto(p, "out")
    /\ LET now == IF op[p].src = "live" THEN live ELSE item IN
       row' = IF now = op[p].input /\ row.fp = op[p].input THEN [row EXCEPT !.dead = TRUE] ELSE row
    /\ UNCHANGED <<item, prev, edges, stash, locks, claim, world, history, used>>
\* The successor goes into the slot, then into the live store; without the slot its lineage row
\* is recorded, if the database that refused the slot takes it; without both it is stashed.
RefreshEdge(p) ==
    /\ op[p].pc = "r_edge" /\ op' = [op EXCEPT ![p].pc = "r_live", ![p].wrote = FALSE]
    /\ edges' \in {edges, edges \cup {<<op[p].input, op[p].succ>>}}
    /\ UNCHANGED <<item, prev, row, stash, locks, claim, world, history, used>>
RefreshLive(p) ==
    /\ op[p].pc = "r_live"
    /\ \/ live' = op[p].succ /\ Goto(p, "out") /\ UNCHANGED used
       \/ op[p].wrote /\ Trouble /\ UNCHANGED live /\ Goto(p, "out")
       \/ ~op[p].wrote /\ UNCHANGED <<live, used>> /\ Goto(p, "s_reserve")
    /\ UNCHANGED <<slot, stash, locks, claim, own, spent, expired, issued, parent, history>>

-----------------------------------------------------------------------------
(* resync, add, restore *)

\* resyncRotatedBackup, after a usage answer for the live credential: the slot is behind, and
\* lineage, a memo or the profile endpoint says it is the account's.
ResyncStart(p) ==
    /\ op[p].pc = "idle" /\ own /\ Owned(live) /\ item # live
    /\ op' = [op EXCEPT ![p] = [Idle EXCEPT !.kind = "resync", !.pc = "y_lock", !.creds = live]]
    /\ UNCHANGED <<slot, stash, locks, claim, world, history, used>>

\* resyncUnderHeldLocks: identity, row and live again; a slot that is ahead stays.
ResyncLocked(p) ==
    /\ op[p].pc = "y_lock" /\ sw = None /\ cc = None /\ sw' = p /\ cc' = p
    /\ LET fp == op[p].creds
           stays == ~own \/ row.fp = fp \/ isSuccessor(fp, row.fp) \/ fp = row.prevFp \/ live # fp
       IN op' = [op EXCEPT ![p] = IF stays THEN At(@, "out") ELSE Call(p, live, "out", "out")]
    /\ UNCHANGED <<slot, stash, cons, tx, claim, world, history, used>>
\* `qlb claude add --replace`: the live login, read before the switch lock, becomes the slot's.
AddStart(p) ==
    /\ op[p].pc = "idle" /\ own /\ Owned(live) /\ sw = None /\ sw' = p
    /\ op' = [op EXCEPT ![p] = [Call(p, live, "out", "out") EXCEPT !.kind = "add"]]
    /\ excused' = excused \cup 1..issued
    /\ UNCHANGED <<slot, stash, cons, cc, tx, claim, world, arrived, rewound, used>>
\* `qlb claude restore-unclaimed`: a stashed successor of the row's token.
RestoreUnclaimed(p) ==
    /\ op[p].pc = "idle" /\ sw = None /\ tx = None
    /\ \E e \in stash : /\ e.body # "none" /\ e.from = row.fp /\ sw' = p /\ tx' = p
                        /\ op' = [op EXCEPT ![p] = [Call(p, e.tok, "a_clean", "out") EXCEPT !.kind = "restore", !.src = "out",
                                                                                            !.entry = e.tok]]
    /\ UNCHANGED <<slot, stash, cons, cc, claim, world, history, used>>

\* Return: locks go, and a forced claim that spent nothing is given back.
Out(p) ==
    /\ op[p].pc = "out" /\ Done(p)
    /\ claim' = IF op[p].claimed /\ ~op[p].posted /\ claim = op[p].creds THEN 0 ELSE claim
    /\ UNCHANGED <<slot, stash, world, history, used>>
\* A death: locks go stale, the transaction rolls back, what was only in memory is gone.
Die(p) ==
    /\ op[p].pc # "idle" /\ Trouble /\ Done(p)
    /\ excused' = excused \cup ({op[p].succ} \cap Tokens)
    /\ rewound' = (rewound \/ op[p].pc \in {"w_commit", "w_undo", "w_restore"})
    /\ stash' = {[e EXCEPT !.by = IF @ = p THEN None ELSE @] : e \in stash}
    /\ UNCHANGED <<slot, claim, world, arrived>>

-----------------------------------------------------------------------------
(* Claude Code, its user and the switch (see ClaudeSwitch) *)

ClaudeCodeRefreshes ==
    /\ cc = None /\ own /\ Owned(live) /\ Exchange(live) /\ live' = issued + 1
    /\ UNCHANGED <<slot, stash, locks, claim, op, own, expired, history, used>>
UserLogsIn ==
    /\ Trouble /\ excused' = excused \cup ({live} \cap Tokens)
    /\ \/ own /\ live' = Foreign /\ own' = FALSE /\ UNCHANGED issued
       \/ issued < MaxTok /\ issued' = issued + 1 /\ live' = issued + 1 /\ own' = TRUE
    /\ UNCHANGED <<slot, stash, locks, claim, op, spent, expired, parent, arrived, rewound>>
\* A switch to this account.  What it does with a live credential that is not the configured
\* account's is ClaudeSwitch's business; here the live credential is the other account's.
SwitchTo ==
    /\ ~own /\ live = Foreign /\ sw = None /\ cc = None /\ ~row.dead /\ live' = item /\ own' = TRUE
    /\ UNCHANGED <<slot, stash, locks, claim, op, spent, expired, issued, parent, history, used>>
Expire ==
    /\ \E t \in 1..issued : t \notin expired /\ (\A u \in 1..(t - 1) : u \in expired) /\ expired' = expired \cup {t}
    /\ UNCHANGED <<slot, stash, locks, claim, op, live, own, spent, issued, parent, history, used>>

Next ==
    \/ Sweep \/ ClaudeCodeRefreshes \/ UserLogsIn \/ SwitchTo \/ Expire
    \/ \E p \in Procs :
         \/ WriteBegin(p) \/ WritePrev(p) \/ WriteItem(p) \/ WriteCommit(p) \/ WriteUndo(p) \/ WriteRestore(p)
         \/ StashReserve(p) \/ StashBody(p) \/ AdoptStashed(p) \/ AdoptClean(p)
         \/ ConsumeStart(p) \/ ConsumeAdopt(p) \/ ConsumeRead(p) \/ ConsumePersist(p)
         \/ RefreshStart(p) \/ RefreshLock(p) \/ RefreshRead(p) \/ RefreshChoose(p) \/ RefreshRestore(p)
         \/ PostRefresh(p) \/ StrikeDead(p) \/ RefreshEdge(p) \/ RefreshLive(p)
         \/ ResyncStart(p) \/ ResyncLocked(p) \/ AddStart(p) \/ RestoreUnclaimed(p) \/ Out(p) \/ Die(p)
Spec == Init /\ [][Next]_vars

-----------------------------------------------------------------------------
(* Properties *)

\* A successor that reached QLB is in the slot, in ':prev', live or in the stash until it is
\* spent, unless its process died with it or reported that it could not be stored, the user
\* logged in over it or replaced it, or made a new login of this account that can take the slot
\* over, or the slot was rewound (see SuccessorKept).
SuccessorHeld ==
    (~rewound /\ \A s \in 2..issued : parent[s] # 0) =>
    \A t \in arrived \ (spent \cup excused) :
        Stored(t) \/ prev = t \/ \E p \in Procs : op[p].succ = t \/ op[p].target = t

\* QLB does not present a token again while its successor is at hand, unless the user had put
\* the token back in its successor's place.
NeverSpentAgain ==
    [][ \A p \in Procs : op[p].pc = "post" /\ op'[p].pc = "r_dead" /\ op[p].input \notin excused =>
          ~\E s \in arrived : parent[s] = op[p].input /\ Stored(s) ]_vars

\* A slot is dead only for a token the provider has really taken.
DeadIsSpent == row.dead => row.fp \in spent

\* No resync, consumption or restore takes the row back to the token its own was issued for ("a
\* current successor is the only issued refresh chain", resyncUnderHeldLocks), unless a process
\* died inside a write (the row is then behind the item, and the lineage the next write records
\* misses a link) or the active refresh had adopted the slot's previous token.
SuccessorKept ==
    [][ \A p \in Procs : ~rewound /\ op[p].kind \in {"resync", "consume", "restore"} /\ op[p].pc = "w_commit"
          /\ row'.fp # row.fp => parent[row.fp] # row'.fp ]_vars

\* The same promise for the active refresh, which adopts a fresh live credential when its
\* fingerprint is the slot's previous one.  It does not hold.
ActiveSuccessorKept ==
    [][ \A p \in Procs : op[p].kind = "active" /\ op[p].pc = "w_commit" /\ row'.fp # row.fp => parent[row.fp] # row'.fp ]_vars
=============================================================================
