----------------------------- MODULE CswapImport -----------------------------
(***************************************************************************)
(* `qlb import cswap` (src/src/cswap-import.ts, commands/import-cswap.ts): *)
(* the logins another tool keeps are copied into QLB's Claude slots.  One  *)
(* run stages every credential, snapshots the live Claude Code login,      *)
(* overwrites each slot's current and previous Keychain item behind a      *)
(* journal and saved preimages, and makes one SQLite transaction the       *)
(* authority.  A run that fails undoes itself; a run that dies is put      *)
(* right by `qlb import cswap --reconcile`, which may die as well.         *)
(*                                                                         *)
(* A credential is the number of its refresh-token lineage, 0 when there   *)
(* is none.  The import lock admits one process at a time.                 *)
(***************************************************************************)
EXTENDS Naturals, FiniteSets

CONSTANTS
  N,           \* slots 1..N of the C-swap sequence
  Active,      \* the slot C-swap calls active, 0 when it has none
  MaxTok,      \* credentials 1..MaxTok
  MaxRuns,     \* imports and reconciliations started
  MaxTrouble   \* calls that throw, and processes that die

ASSUME ImportAssumption ==
  /\ N \in Nat \ {0}  /\ Active \in 0..N
  /\ MaxTok \in Nat /\ MaxTok >= N /\ MaxRuns \in Nat /\ MaxTrouble \in Nat

Slots == 1..N
Tok == 1..MaxTok

None == [none |-> TRUE]

VARIABLES
  source, sprev,      \* C-swap's current and previous credential of each slot; 0 is unreadable
  live,               \* Claude Code's own login: its credential and its slot
  dest, prev,         \* qlb:anthropic:<id> and qlb:anthropic:<id>:prev
  staging, bk, bkp,   \* the run's staging item and its two preimage items
  row,                \* claude_slots: current and previous fingerprint of a slot
  jr,                 \* the newest run's journal on disk
  committed,          \* import_runs rows
  p,                  \* the process that holds the import lock
  runs, trouble, next,
  before,             \* history: the slots when the run began
  raced               \* history: a slot was refreshed while a journal was open

vars == <<source, sprev, live, dest, prev, staging, bk, bkp, row, jr, committed,
          p, runs, trouble, next, before, raced>>
slots == <<dest, prev, row>>
world == <<source, sprev, live, next, raced>>

NewEntry == [seen |-> FALSE, dest0 |-> 0, prev0 |-> 0, saved |-> FALSE,
             psaved |-> FALSE, reached |-> "unreached", restored |-> FALSE]
Idle == [pc |-> "idle", mode |-> "import", i |-> 0, j |-> None, eff |-> None,
         first |-> None, failed |-> FALSE]

Init ==
  /\ source \in [Slots -> 0..N]  /\ sprev = [s \in Slots |-> 0]
  /\ live = [cred |-> 1, at |-> 1]
  /\ dest = [s \in Slots |-> 0] /\ prev = dest /\ staging = dest /\ bk = dest /\ bkp = dest
  /\ row = [s \in Slots |-> [fp |-> 0, pfp |-> 0]]
  /\ jr = None /\ committed = {} /\ p = Idle /\ runs = 0 /\ trouble = 0 /\ next = N + 1
  /\ before = [dest |-> dest, prev |-> prev, row |-> row] /\ raced = FALSE

----------------------------------------------------------------------------
(* What a stored journal asks for.                                         *)

recoveryMatchesSlotState(j) ==
  \A s \in Slots : LET e == j.e[s] IN
    (e.reached # "unreached" /\ ~e.restored) => /\ e.seen
                                                /\ row[s].fp = e.dest0

classify ==
  IF jr = None THEN "none"
  ELSE IF jr.phase = "torn" THEN "unclassifiable"
  ELSE IF jr.phase = "staged" THEN "purge-staging"
  ELSE IF jr.phase \in {"cleaned", "aborted"} THEN "none"
  ELSE IF jr.run \in committed THEN "finish-cleanup"
  ELSE IF jr.phase = "committed" \/ ~recoveryMatchesSlotState(jr) THEN "unclassifiable"
  ELSE "recover"

(* One login, one slot: no slot's credential is another slot's current or
   previous one.  fp and pfp are the credentials about to be imported. *)
assertOneLoginPerSlot(fp, pfp) ==
  \A s, o \in Slots : s # o => fp[o] # fp[s] /\ pfp[o] # fp[s]

\* Every slot's .enc file or Keychain item is a well-formed OAuth login.
readSourceSlots == (\A s \in Slots : source[s] # 0) /\ assertOneLoginPerSlot(source, sprev)

\* The same login, or one whose ':prev' is the slot's.  The third admission, a successor
\* by QLB's lineage log, is left out: what an import does does not depend on which admits it.
admittedReplace(s) == row[s].fp = source[s] \/ (sprev[s] # 0 /\ sprev[s] = row[s].fp)

assertDestination(replace) ==
  \A s \in Slots :
    \/ row[s].fp = 0 /\ dest[s] = 0 /\ prev[s] = 0
    \/ replace /\ row[s].fp # 0 /\ dest[s] # 0 /\ admittedReplace(s) /\ dest[s] = row[s].fp

----------------------------------------------------------------------------
(* The process: each step is one call that may throw or be the last.       *)

Goto(pc) == p' = [p EXCEPT !.pc = pc]
AtSlot(pc, i) == p' = [p EXCEPT !.pc = pc, !.i = i]

\* The journal is changed in memory and written whole.  (The code truncates the file and
\* writes it: a journal cut short by a power failure is not modelled.)
Journal(j, pc) == /\ p' = [p EXCEPT !.j = j, !.pc = pc]
                  /\ jr' = j
Entry == p.j.e[p.i]
WithEntry(e) == [p.j EXCEPT !.e[p.i] = e]

(* importCswapLocked up to its journal: no orphaned journal, a readable
   source with one login per slot, an empty or admissible destination. *)
importCswap(replace) ==
  /\ p.pc = "idle" /\ runs < MaxRuns
  /\ classify = "none"
  /\ readSourceSlots
  /\ assertDestination(replace)
  /\ runs' = runs + 1
  /\ p' = [Idle EXCEPT !.pc = "mkdir",
                       !.j = [run |-> runs + 1, phase |-> "staged", e |-> [s \in Slots |-> NewEntry]]]
  /\ before' = [dest |-> dest, prev |-> prev, row |-> row]
  /\ raced' = FALSE
  /\ UNCHANGED <<source, sprev, live, slots, staging, bk, bkp, jr, committed, trouble, next>>

\* writeJournal makes the run's directory before it writes the file in it.
mkdirJournal ==
  /\ p.pc = "mkdir"
  /\ jr' = [p.j EXCEPT !.phase = "torn"] /\ Goto("create")
  /\ UNCHANGED <<world, slots, staging, bk, bkp, committed, runs, trouble, before>>

createJournal ==
  /\ p.pc = "create"
  /\ jr' = p.j /\ AtSlot("stage", 1)
  /\ UNCHANGED <<world, slots, staging, bk, bkp, committed, runs, trouble, before>>

stage ==
  /\ p.pc = "stage"
  /\ staging' = [staging EXCEPT ![p.i] = source[p.i]]
  /\ IF p.i < N THEN AtSlot("stage", p.i + 1) ELSE AtSlot("live", 1)
  /\ UNCHANGED <<world, slots, bk, bkp, jr, committed, runs, trouble, before>>

(* The live login stands in for the active slot's stored one when they differ;
   its predecessor is then the stored credential. *)
Effective ==
  [s \in Slots |-> IF s = Active /\ live.cred # source[s]
                   THEN [cred |-> live.cred, prev |-> source[s]]
                   ELSE [cred |-> source[s], prev |-> sprev[s]]]

liveEffectiveCredentials ==
  /\ p.pc = "live"
  /\ LET eff == Effective
         ok == Active # 0 => /\ live.at = Active
                             /\ live.cred # source[Active] =>
                                  assertOneLoginPerSlot([s \in Slots |-> eff[s].cred],
                                                        [s \in Slots |-> eff[s].prev])
     IN p' = IF ok THEN [p EXCEPT !.pc = "promote", !.eff = eff,
                                  !.first = IF Active = 0 THEN None ELSE live]
                   ELSE [p EXCEPT !.pc = "catch"]
  /\ UNCHANGED <<world, slots, staging, bk, bkp, jr, committed, runs, trouble, before>>

promote ==
  /\ p.pc = "promote"
  /\ Journal([p.j EXCEPT !.phase = "promoting"], "preimage")
  /\ UNCHANGED <<world, slots, staging, bk, bkp, committed, runs, trouble, before>>

registerCurrentOnly ==
  /\ p.pc = "preimage"
  /\ Journal(WithEntry([NewEntry EXCEPT !.seen = TRUE, !.dest0 = dest[p.i], !.prev0 = prev[p.i]]),
             IF prev[p.i] # 0 THEN "savep" ELSE "reach")
  /\ UNCHANGED <<world, slots, staging, bk, bkp, committed, runs, trouble, before>>

(* Both preimages are read and journalled before anything is overwritten. *)
registerPreimage ==
  /\ p.pc = "preimage"
  /\ Journal(WithEntry([NewEntry EXCEPT !.seen = TRUE, !.dest0 = dest[p.i], !.prev0 = prev[p.i]]),
             IF dest[p.i] # 0 THEN "save" ELSE IF prev[p.i] # 0 THEN "savep" ELSE "reach")
  /\ UNCHANGED <<world, slots, staging, bk, bkp, committed, runs, trouble, before>>

savePreimage ==
  /\ p.pc = "save"
  /\ bk' = [bk EXCEPT ![p.i] = Entry.dest0] /\ Goto("saved")
  /\ UNCHANGED <<world, slots, staging, bkp, jr, committed, runs, trouble, before>>

savedPreimage ==
  /\ p.pc = "saved"
  /\ Journal(WithEntry([Entry EXCEPT !.saved = TRUE]), IF Entry.prev0 # 0 THEN "savep" ELSE "reach")
  /\ UNCHANGED <<world, slots, staging, bk, bkp, committed, runs, trouble, before>>

savePrevious ==
  /\ p.pc = "savep"
  /\ bkp' = [bkp EXCEPT ![p.i] = Entry.prev0] /\ Goto("savedp")
  /\ UNCHANGED <<world, slots, staging, bk, jr, committed, runs, trouble, before>>

savedPrevious ==
  /\ p.pc = "savedp"
  /\ Journal(WithEntry([Entry EXCEPT !.psaved = TRUE]), "reach")
  /\ UNCHANGED <<world, slots, staging, bk, bkp, committed, runs, trouble, before>>

reachDestination ==
  /\ p.pc = "reach"
  /\ Journal(WithEntry([Entry EXCEPT !.reached = "destination"]), "write")
  /\ UNCHANGED <<world, slots, staging, bk, bkp, committed, runs, trouble, before>>

NextSlot == IF p.i < N THEN AtSlot("preimage", p.i + 1) ELSE AtSlot("verify", 1)

writeDestination ==
  /\ p.pc = "write"
  /\ dest' = [dest EXCEPT ![p.i] = p.eff[p.i].cred]
  /\ IF p.eff[p.i].prev # 0 THEN Goto("reachp") ELSE NextSlot
  /\ UNCHANGED <<world, prev, row, staging, bk, bkp, jr, committed, runs, trouble, before>>

reachPrevious ==
  /\ p.pc = "reachp"
  /\ Journal(WithEntry([Entry EXCEPT !.reached = "previous"]), "writep")
  /\ UNCHANGED <<world, slots, staging, bk, bkp, committed, runs, trouble, before>>

writePrevious ==
  /\ p.pc = "writep"
  /\ prev' = [prev EXCEPT ![p.i] = p.eff[p.i].prev]
  /\ NextSlot
  /\ UNCHANGED <<world, dest, row, staging, bk, bkp, jr, committed, runs, trouble, before>>

verify ==
  /\ p.pc = "verify"
  /\ Goto(IF \A s \in Slots : dest[s] = p.eff[s].cred THEN "commit" ELSE "catch")
  /\ UNCHANGED <<world, slots, staging, bk, bkp, jr, committed, runs, trouble, before>>

\* One transaction: the slots, and the import_runs row that decides for recovery.
commitRows ==
  /\ row' = [s \in Slots |-> [fp |-> p.eff[s].cred, pfp |-> p.eff[s].prev]]
  /\ committed' = committed \cup {p.j.run}

commitUnchecked ==
  /\ p.pc = "commit"
  /\ commitRows /\ Goto("committed")
  /\ UNCHANGED <<world, dest, prev, staging, bk, bkp, jr, runs, trouble, before>>

(* The second live read and the SQLite transaction share one hold of Claude
   Code's locks. *)
commitCswapImport ==
  /\ p.pc = "commit"
  /\ IF p.first = None \/ p.first = live
     THEN commitRows /\ Goto("committed")
     ELSE Goto("catch") /\ UNCHANGED <<row, committed>>
  /\ UNCHANGED <<world, dest, prev, staging, bk, bkp, jr, runs, trouble, before>>

journalCommitted ==
  /\ p.pc = "committed"
  /\ p' = [p EXCEPT !.j.phase = "committed", !.pc = "clean", !.i = 1]
  /\ jr' = p'.j
  /\ UNCHANGED <<world, slots, staging, bk, bkp, committed, runs, trouble, before>>

----------------------------------------------------------------------------
(* The error path, cleanup, and the end of a run.                          *)

End == p' = Idle

(* import_runs decides: a committed run only records that it is; an
   unreadable table (a throw) leaves the verdict to recovery. *)
catchError ==
  /\ p.pc = "catch"
  /\ \/ /\ trouble < MaxTrouble /\ trouble' = trouble + 1
        /\ jr' = [p.j EXCEPT !.phase = "commit-unknown"] /\ End
     \/ /\ p.j.run \in committed
        /\ jr' = [p.j EXCEPT !.phase = "committed"] /\ End
        /\ UNCHANGED trouble
     \/ /\ p.j.run \notin committed
        /\ AtSlot("undo", N) /\ UNCHANGED <<jr, trouble>>
  /\ UNCHANGED <<world, slots, staging, bk, bkp, committed, runs, before>>

UndoNext(j, failed) ==
  p' = [p EXCEPT !.j = j, !.failed = failed,
                 !.pc = IF p.i > 1 THEN "undo" ELSE IF failed THEN "giveup" ELSE "clean",
                 !.i = IF p.i > 1 THEN p.i - 1 ELSE 1]

(* rollbackEffects, last slot first, from the preimages in memory.  A slot
   whose restore throws keeps its flag down and spoils the whole cleanup.  The
   item, its ':prev' and the flag are one step; restoring is idempotent. *)
rollbackEffects ==
  /\ p.pc = "undo"
  /\ \/ /\ ~Entry.seen /\ UndoNext(p.j, p.failed) /\ UNCHANGED <<dest, prev, jr, trouble>>
     \/ /\ Entry.seen
        /\ dest' = [dest EXCEPT ![p.i] = Entry.dest0]
        /\ prev' = [prev EXCEPT ![p.i] = Entry.prev0]
        /\ LET j == WithEntry([Entry EXCEPT !.restored = TRUE]) IN
             UndoNext(j, p.failed) /\ jr' = j
        /\ UNCHANGED trouble
     \/ /\ Entry.seen /\ trouble < MaxTrouble /\ trouble' = trouble + 1
        /\ \/ prev' = [prev EXCEPT ![p.i] = Entry.prev0] /\ UNCHANGED dest
           \/ dest' = [dest EXCEPT ![p.i] = Entry.dest0] /\ UNCHANGED prev
        /\ UndoNext(p.j, TRUE) /\ UNCHANGED jr
  /\ UNCHANGED <<world, row, staging, bk, bkp, committed, runs, before>>

giveUp ==
  /\ p.pc = "giveup"
  /\ jr' = p.j /\ End
  /\ UNCHANGED <<world, slots, staging, bk, bkp, committed, runs, trouble, before>>

(* A run that rolled back deletes only the preimages it put back. *)
Discards(e) == p.mode = "recover" \/ p.j.phase = "committed" \/ e.restored

cleanup ==
  /\ p.pc = "clean"
  /\ staging' = [staging EXCEPT ![p.i] = 0]
  /\ bk' = IF Discards(Entry) THEN [bk EXCEPT ![p.i] = 0] ELSE bk
  /\ bkp' = IF Discards(Entry) THEN [bkp EXCEPT ![p.i] = 0] ELSE bkp
  /\ IF p.i < N THEN AtSlot("clean", p.i + 1) ELSE Goto("finish")
  /\ UNCHANGED <<world, slots, jr, committed, runs, trouble, before>>

finish ==
  /\ p.pc = "finish"
  /\ jr' = [p.j EXCEPT !.phase = IF p.j.run \in committed THEN "cleaned" ELSE "aborted"]
  /\ End
  /\ UNCHANGED <<world, slots, staging, bk, bkp, committed, runs, trouble, before>>

(* A throw inside the import's try block. *)
Throw ==
  /\ trouble < MaxTrouble /\ trouble' = trouble + 1
  /\ p.mode = "import"
  /\ \/ p.pc \in {"stage", "live", "promote", "preimage", "save", "saved", "savep", "savedp",
                   "reach", "write", "reachp", "writep", "verify", "commit", "committed"}
     \/ p.pc \in {"clean", "finish"} /\ p.j.phase = "committed"
  /\ Goto("catch")
  /\ UNCHANGED <<world, slots, staging, bk, bkp, jr, committed, runs, before>>

(* The process dies; so does one whose reconciliation, rollback journal or
   post-rollback cleanup throws, for nothing catches those. *)
Crash ==
  /\ trouble < MaxTrouble /\ trouble' = trouble + 1
  /\ p.pc # "idle" /\ End
  /\ UNCHANGED <<world, slots, staging, bk, bkp, jr, committed, runs, before>>

----------------------------------------------------------------------------
(* `qlb import cswap --reconcile`.                                         *)

reconcileCswapImportJournals ==
  /\ p.pc = "idle" /\ runs < MaxRuns
  /\ runs' = runs + 1
  /\ LET begin(pc, i) == p' = [Idle EXCEPT !.pc = pc, !.i = i, !.mode = "recover", !.j = jr] IN
       \/ classify = "recover" /\ begin("rec", N)
       \/ classify = "finish-cleanup" /\ begin("clean", 1)
       \/ classify = "purge-staging" /\ begin("purge", 1)
  /\ UNCHANGED <<world, slots, staging, bk, bkp, jr, committed, trouble, before>>

purgeStaged ==
  /\ p.pc = "purge"
  /\ staging' = [staging EXCEPT ![p.i] = 0]
  /\ IF p.i < N THEN AtSlot("purge", p.i + 1) ELSE Goto("finish")
  /\ UNCHANGED <<world, slots, bk, bkp, jr, committed, runs, trouble, before>>

NextRecovery == IF p.i > 1 THEN AtSlot("rec", p.i - 1) ELSE AtSlot("clean", 1)

(* recoverUncommittedCswapImportLocked: a slot that was reached gets its
   preimage back from the saved item, or loses what had not existed.  A missing
   or different saved item stops the recovery. *)
recoverDestination ==
  /\ p.pc = "rec"
  /\ IF Entry.reached = "unreached" \/ Entry.restored
     THEN NextRecovery /\ UNCHANGED dest
     ELSE IF Entry.dest0 = 0 \/ (Entry.saved /\ bk[p.i] = Entry.dest0)
     THEN /\ dest' = [dest EXCEPT ![p.i] = Entry.dest0]
          /\ Goto(IF Entry.reached = "previous" THEN "recp" ELSE "recj")
     ELSE End /\ UNCHANGED dest
  /\ UNCHANGED <<world, prev, row, staging, bk, bkp, jr, committed, runs, trouble, before>>

recoverPrevious ==
  /\ p.pc = "recp"
  /\ IF Entry.prev0 = 0 \/ (Entry.psaved /\ bkp[p.i] = Entry.prev0)
     THEN prev' = [prev EXCEPT ![p.i] = Entry.prev0] /\ Goto("recj")
     ELSE End /\ UNCHANGED prev
  /\ UNCHANGED <<world, dest, row, staging, bk, bkp, jr, committed, runs, trouble, before>>

recoverJournal ==
  /\ p.pc = "recj"
  /\ LET j == WithEntry([Entry EXCEPT !.restored = TRUE]) IN
       /\ jr' = j
       /\ p' = [p EXCEPT !.j = j, !.pc = IF p.i > 1 THEN "rec" ELSE "clean",
                         !.i = IF p.i > 1 THEN p.i - 1 ELSE 1]
  /\ UNCHANGED <<world, slots, staging, bk, bkp, committed, runs, trouble, before>>

----------------------------------------------------------------------------
(* Everyone else.                                                          *)

Open == p.pc # "idle" \/ classify # "none"

(* The gate refreshes a slot.  It takes the account's consume lock, which the
   import does not, so nothing keeps the two apart. *)
GateRefresh(s) ==
  /\ next <= MaxTok /\ next' = next + 1
  /\ row[s].fp # 0 /\ dest[s] = row[s].fp
  /\ dest' = [dest EXCEPT ![s] = next] /\ prev' = [prev EXCEPT ![s] = dest[s]]
  /\ row' = [row EXCEPT ![s] = [fp |-> next, pfp |-> dest[s]]]
  /\ raced' = (raced \/ Open)
  /\ UNCHANGED <<source, sprev, live, staging, bk, bkp, jr, committed, p, runs, trouble, before>>

\* Claude Code rotates its login, switches account, or holds another slot's login.
NativeChange ==
  /\ \/ next <= MaxTok /\ next' = next + 1 /\ live' = [live EXCEPT !.cred = next]
     \/ \E s \in Slots : /\ source[s] # 0
                         /\ live' \in {[cred |-> source[s], at |-> s], [live EXCEPT !.cred = source[s]]}
                         /\ live' # live /\ UNCHANGED next
  /\ UNCHANGED <<source, sprev, slots, staging, bk, bkp, jr, committed, p, runs, trouble, before, raced>>

\* Between cutovers C-swap runs and rotates a slot of its own.
CswapRotate(s) ==
  /\ p.pc = "idle" /\ next <= MaxTok /\ next' = next + 1
  /\ source' = [source EXCEPT ![s] = next] /\ sprev' = [sprev EXCEPT ![s] = source[s]]
  /\ UNCHANGED <<live, slots, staging, bk, bkp, jr, committed, p, runs, trouble, before, raced>>

Next ==
  \/ \E r \in BOOLEAN : importCswap(r)
  \/ mkdirJournal \/ createJournal \/ stage \/ liveEffectiveCredentials \/ promote
  \/ registerPreimage \/ savePreimage \/ savedPreimage \/ savePrevious \/ savedPrevious
  \/ reachDestination \/ writeDestination \/ reachPrevious \/ writePrevious \/ verify
  \/ commitCswapImport \/ journalCommitted
  \/ catchError \/ rollbackEffects \/ giveUp \/ cleanup \/ finish \/ Throw \/ Crash
  \/ reconcileCswapImportJournals \/ purgeStaged
  \/ recoverDestination \/ recoverPrevious \/ recoverJournal
  \/ \E s \in Slots : GateRefresh(s) \/ CswapRotate(s)
  \/ NativeChange

Spec == Init /\ [][Next]_vars

----------------------------------------------------------------------------
(* A run that ends in `aborted`, by its own rollback or after any number of
   deaths and reconciliations, has left every slot's current and previous item
   and every row as they were when it began. *)
AbortRestores ==
  [][(jr' # jr /\ jr' # None /\ jr'.phase = "aborted" /\ ~raced)
       => [dest |-> dest', prev |-> prev', row |-> row'] = before]_vars

(* Until a run is committed or has put a slot back, the preimage of every item
   it may have overwritten is in the Keychain, so that a death now is still
   recoverable. *)
PreimageKept ==
  (jr # None /\ jr.phase \in {"promoting", "commit-unknown"} /\ jr.run \notin committed /\ ~raced) =>
    \A s \in Slots : LET e == jr.e[s] IN
      (e.reached # "unreached" /\ ~e.restored) =>
        /\ before.dest[s] # 0 => bk[s] = before.dest[s] /\ e.saved
        /\ e.reached = "previous" /\ before.prev[s] # 0 => bkp[s] = before.prev[s] /\ e.psaved

(* When a run becomes the authority, every row names the item it describes, no
   two slots hold one login, and the active slot holds the login Claude Code is
   using at that moment, whatever Claude Code did since the first reading. *)
CommitIsCurrent ==
  [][committed' # committed =>
       /\ \A s \in Slots : (dest[s] = row'[s].fp \/ raced) /\ (s = Active => row'[s].fp = live.cred)
       /\ \A s, o \in Slots : s # o => row'[s].fp # row'[o].fp /\ row'[s].fp # row'[o].pfp]_vars

(* No order of deaths and failures of imports and reconciliations leaves a
   journal that reconciliation refuses, except a death between making the run's
   directory and writing its journal. *)
StaysClassifiable == (classify = "unclassifiable" /\ ~raced) => jr.phase = "torn"

\* Until a run is committed or has put a slot back, the preimage of every item it may
\* have overwritten is stored, and no order of deaths and failures leaves a journal
\* that recovery cannot classify (but for a run directory without one).
ImportRecoverable == PreimageKept /\ StaysClassifiable

\* A run that ends aborted, by its own rollback or after any number of recoveries, has
\* put every slot back, and when a run becomes the authority every row names the item
\* it describes.
ImportOutcome == AbortRestores /\ CommitIsCurrent
=============================================================================
