------------------------------- MODULE Cutover -------------------------------
(***************************************************************************)
(* The change of owner of the Claude logins between C-swap and QLB         *)
(* (src/src/lifecycle.ts, cswap-agent.ts, cswap-undo.ts, cswap-retire.ts   *)
(* and their commands).  `cutover begin` stops C-swap, an import copies    *)
(* its logins, `cutover commit` makes QLB the owner; `undo cswap` hands    *)
(* the logins back and `retire cswap` removes C-swap for good.  Every      *)
(* command is several steps that may fail or be the process's last, other  *)
(* commands run beside it, and the lifecycle row with its note is what     *)
(* keeps them apart.                                                       *)
(*                                                                         *)
(* A login is the number of its refresh token in the chain the provider    *)
(* issued; only the newest one can still be spent.                         *)
(***************************************************************************)
EXTENDS Naturals, FiniteSets

CONSTANTS
  Cmds,        \* QLB processes
  MaxTok,      \* rotations of a login
  MaxStarts,   \* commands started
  MaxTrouble   \* steps that fail, processes that die, reboots

CutoverAssumption ==
  /\ IsFiniteSet(Cmds) /\ "nobody" \notin Cmds /\ MaxTok \in Nat \ {0} /\ MaxStarts \in Nat /\ MaxTrouble \in Nat

Slots == {"active", "other"}   \* the login Claude Code is using, and one it is not
None == [none |-> TRUE]

VARIABLES
  row,       \* the open lifecycle row: id, state, note, pre_fence_state
  agent,     \* C-swap's LaunchAgent: where its plist is, enabled, loaded
  cs,        \* the C-swap process: off, running, holding its locks, token spent
  flock,     \* who holds C-swap's flocks: nobody, C-swap, or a draining command
  cur,       \* the unspent token of each login
  item,      \* C-swap's Keychain item
  slot,      \* QLB's Keychain item
  live,      \* the token Claude Code holds for the active login
  pi,        \* pi.<provider>.state
  baseline,  \* Pi's baseline files exist
  rj,        \* the retirement journal
  rlock,     \* holder of the retirement mutation lock
  cmd,       \* what each QLB process is doing
  starts, trouble,
  used,      \* history: Claude Code rotated since the active login was handed back
  crossed,   \* history: a command acted on an admission or an import that no longer held
  imported   \* history: the slots were imported in this cutover

vars == <<row, agent, cs, flock, cur, item, slot, live, pi, baseline, rj, rlock, cmd,
          starts, trouble, used, crossed, imported>>
cswap == <<agent, cs, flock>>
tokens == <<cur, item, slot, live, used, imported>>
piVars == <<pi, baseline>>
retiring == <<rj, rlock>>

Idle == [pc |-> "idle", for |-> "", row |-> 0]

Init ==
  /\ row = [id |-> 0, state |-> "pre-cutover", note |-> "", pre |-> ""]
  /\ agent = [plist |-> "live", enabled |-> TRUE, loaded |-> TRUE]
  /\ cs = "off" /\ flock = "nobody"
  /\ cur = [s \in Slots |-> 1] /\ item = cur /\ live = 1 /\ slot = [s \in Slots |-> 0]
  /\ pi = "native" /\ baseline = FALSE /\ rj = None /\ rlock = "nobody"
  /\ cmd = [c \in Cmds |-> Idle]
  /\ starts = 0 /\ trouble = 0 /\ used = FALSE /\ crossed = FALSE /\ imported = FALSE

----------------------------------------------------------------------------
(* Admission: the phase table and the three notes that fence it.           *)

PHASE_RULES ==
  [s \in {"pre-cutover", "cutting-over", "cutover", "undoing", "rolled-back", "retired", "aborted"} |->
    CASE s = "pre-cutover"  -> {"cutover-begin"}
      [] s = "cutting-over" -> {"import-cswap", "use", "pi-migrate", "pi-inventory-record",
                                "cutover-commit", "cutover-abort"}
      [] s = "cutover"      -> {"use", "pi-migrate", "pi-inventory-record", "undo-cswap",
                                "retire-cswap", "retire-cswap:resume"}
      [] s = "undoing"      -> {"undo-cswap:resume"}
      [] s = "rolled-back"  -> {"undo-cswap:resume", "lifecycle-close"}
      [] s = "retired"      -> {"use", "retire-cswap:resume", "pi-inventory-record", "lifecycle-close"}
      [] s = "aborted"      -> {"undo-cswap:resume", "lifecycle-close"}]

assertAdmitted(op) ==
  /\ row.note # "begin"
  /\ ~(row.note = "restore" /\ op = "lifecycle-close")
  /\ ~(row.note = "retire" /\ op \in {"undo-cswap", "undo-cswap:resume", "retire-cswap",
                                      "pi-inventory-record", "lifecycle-close"})
  /\ op \in PHASE_RULES[row.state]

\* Pi rollback asks for the notes alone, whatever the phase.
assertPiRollbackFencesClear == row.note \notin {"retire", "begin"}

----------------------------------------------------------------------------
(* Commands.                                                               *)

Start(c, pc) ==
  /\ cmd[c].pc = "idle" /\ starts < MaxStarts /\ starts' = starts + 1
  /\ cmd' = [cmd EXCEPT ![c] = [Idle EXCEPT !.pc = pc]]
\* The command line admits a command by its operation, then runs it.
runExecutingCommand(c, op, pc) == assertAdmitted(op) /\ Start(c, pc)
\* A command whose steps nothing can come between.
AtOnce(c, op) == assertAdmitted(op) /\ cmd[c].pc = "idle"
At(c, pc) == cmd[c].pc = pc
Step(c, pc) == cmd' = [cmd EXCEPT ![c].pc = pc]
Done(c) == cmd' = [cmd EXCEPT ![c] = Idle]
Drain(c, for) == cmd' = [cmd EXCEPT ![c] = [Idle EXCEPT !.pc = "look", !.for = for]]
Fails == trouble < MaxTrouble /\ trouble' = trouble + 1

(* cutoverBegin: the row with its marker first, then C-swap is stopped.     *)
cutoverBegin(c) ==
  /\ runExecutingCommand(c, "cutover-begin", "insert")
  /\ UNCHANGED <<row, cswap, tokens, piVars, retiring, trouble, crossed>>

\* The unique index on open rows is the backstop of a second begin.
beginCutover(c) ==
  /\ At(c, "insert")
  /\ IF row.state = "pre-cutover"
     THEN row' = [id |-> row.id + 1, state |-> "cutting-over", note |-> "begin", pre |-> ""] /\ Step(c, "bootout")
     ELSE Done(c) /\ UNCHANGED row
  /\ imported' = (imported /\ row.state # "pre-cutover")
  /\ UNCHANGED <<cswap, cur, item, slot, live, used, piVars, retiring, starts, trouble, crossed>>

(* bootout, disable, movePlist: a booted-out job starts no new process; the one
   that runs is the drain's.  Retirement repeats them on every run. *)
stopCswap(c) ==
  /\ cmd[c].pc \in {"bootout", "r-bootout"}
  /\ LET retire == At(c, "r-bootout") IN
       \/ /\ agent' = [plist |-> IF agent.plist = "live" THEN "backup" ELSE agent.plist,
                       enabled |-> FALSE, loaded |-> FALSE]
          /\ Drain(c, IF retire THEN "retire" ELSE "begin")
          /\ UNCHANGED trouble
       \/ /\ Fails
          /\ agent' \in {[agent EXCEPT !.loaded = FALSE], [agent EXCEPT !.loaded = FALSE, !.enabled = FALSE]}
          /\ IF retire THEN Step(c, "r-unlock") ELSE Step(c, "compensate")
  /\ UNCHANGED <<row, cs, flock, tokens, piVars, retiring, starts, crossed>>

completeCutoverBegin(c) ==
  /\ At(c, "complete")
  /\ row' = IF row.state = "cutting-over" /\ row.note = "begin" THEN [row EXCEPT !.note = ""] ELSE row
  /\ Done(c)
  /\ UNCHANGED <<cswap, tokens, piVars, retiring, starts, trouble, crossed>>

\* restorePlist may be repeated: it needs the plist in either place.
restorePlist == /\ agent.plist # "gone"
                /\ agent' = [plist |-> "live", enabled |-> TRUE, loaded |-> TRUE]

compensate(c) ==
  /\ At(c, "compensate")
  /\ \/ restorePlist /\ Step(c, "abort") /\ UNCHANGED trouble
     \/ Fails /\ Done(c) /\ UNCHANGED agent
  /\ UNCHANGED <<row, cs, flock, tokens, piVars, retiring, starts, crossed>>

abortCutoverBegin(c) ==
  /\ At(c, "abort")
  /\ row' = IF row.state = "cutting-over" /\ row.note = "begin"
            THEN [row EXCEPT !.state = "aborted", !.note = "", !.pre = "cutting-over"] ELSE row
  /\ Done(c)
  /\ UNCHANGED <<cswap, tokens, piVars, retiring, starts, trouble, crossed>>

----------------------------------------------------------------------------
(* cooperativeDrain: look, wait, and only with every C-swap flock in hand
   signal what still runs. *)

\* A process whose command line is C-swap's, in any of the ways it is started.
isCswapCommand == cs # "off"

DrainOk(c) == Step(c, IF cmd[c].for = "begin" THEN "complete" ELSE "r-inventory")
DrainFailed(c) == Step(c, IF cmd[c].for = "begin" THEN "compensate" ELSE "r-unlock")

cooperativeDrain(c) ==
  /\ At(c, "look")
  /\ IF isCswapCommand THEN Step(c, "acquire") ELSE DrainOk(c)
  /\ UNCHANGED <<row, cswap, tokens, piVars, retiring, starts, trouble, crossed>>

acquireAllLocks(c) ==
  /\ At(c, "acquire")
  /\ \/ flock = "nobody" /\ flock' = "drain" /\ Step(c, "signal") /\ UNCHANGED trouble
     \/ Fails /\ DrainFailed(c) /\ UNCHANGED flock
  /\ UNCHANGED <<row, agent, cs, tokens, piVars, retiring, starts, crossed>>

signalBlindly(c) ==
  /\ At(c, "signal")
  /\ cs' = "off" /\ DrainOk(c) /\ flock' = "nobody"
  /\ UNCHANGED <<row, agent, tokens, piVars, retiring, starts, trouble, crossed>>

(* The last proof that the locks are held and the SIGTERM are one step.  A lost
   lease or a survivor that cannot be identified ends the drain unsignalled. *)
signalSurvivors(c) ==
  /\ At(c, "signal")
  /\ \/ flock = "drain" /\ cs' = "off" /\ DrainOk(c) /\ flock' = "nobody" /\ UNCHANGED trouble
     \/ flock = "drain" /\ isCswapCommand /\ Fails /\ DrainFailed(c) /\ flock' = "nobody" /\ UNCHANGED cs
     \/ flock # "drain" /\ DrainFailed(c) /\ UNCHANGED <<cs, flock, trouble>>
  /\ UNCHANGED <<row, agent, tokens, piVars, retiring, starts, crossed>>

\* The flock helper dies under a drain: the kernel drops its locks.
LeaseLost ==
  /\ flock = "drain" /\ Fails /\ flock' = "nobody"
  /\ UNCHANGED <<row, agent, cs, tokens, piVars, retiring, cmd, starts, crossed>>

----------------------------------------------------------------------------
(* Import, service and commit.                                             *)

\* An import copies what C-swap holds, and for the active login what Claude Code holds.
importCswap(c) ==
  /\ AtOnce(c, "import-cswap")
  /\ slot["other"] <= item["other"] /\ \A s \in Slots : item[s] # 0
  /\ slot' = [s \in Slots |-> IF s = "active" THEN live ELSE item[s]]
  /\ imported' = TRUE
  /\ UNCHANGED <<row, cswap, cur, item, live, used, piVars, retiring, cmd, starts, trouble, crossed>>

(* A QLB switch or auto tick, admitted now, refreshes a slot later. *)
use(c) ==
  /\ slot["other"] # 0 /\ runExecutingCommand(c, "use", "use")
  /\ UNCHANGED <<row, cswap, tokens, piVars, retiring, trouble, crossed>>

refreshSlot(c) ==
  /\ At(c, "use") /\ Done(c)
  /\ IF slot["other"] = cur["other"] /\ cur["other"] < MaxTok
     THEN cur' = [cur EXCEPT !["other"] = @ + 1] /\ slot' = [slot EXCEPT !["other"] = @ + 1]
     ELSE UNCHANGED <<cur, slot>>
  /\ UNCHANGED <<row, cswap, item, live, used, imported, piVars, retiring, starts, trouble, crossed>>

piMigrate(c) ==
  /\ AtOnce(c, "pi-migrate") /\ pi = "native"
  /\ pi' = "migrated" /\ baseline' = TRUE
  /\ UNCHANGED <<row, cswap, tokens, retiring, cmd, starts, trouble, crossed>>

piInventoryRecord(c) ==
  /\ AtOnce(c, "pi-inventory-record") /\ pi = "native"
  /\ pi' = "not-applicable"
  /\ UNCHANGED <<row, cswap, tokens, baseline, retiring, cmd, starts, trouble, crossed>>

hasImportedClaudeSlot == slot["other"] # 0
piResolved == pi \in {"migrated", "not-applicable"}

commitCutover(c) ==
  /\ AtOnce(c, "cutover-commit")
  /\ hasImportedClaudeSlot /\ piResolved
  /\ row' = [row EXCEPT !.state = "cutover"]
  /\ UNCHANGED <<cswap, tokens, piVars, retiring, cmd, starts, trouble, crossed>>

closeLifecycle(c) ==
  /\ AtOnce(c, "lifecycle-close")
  /\ row.state \in {"rolled-back", "aborted", "retired"} /\ row.note \notin {"retire", "restore"}
  /\ row' = [row EXCEPT !.state = "pre-cutover", !.note = "", !.pre = row.state]
  /\ UNCHANGED <<cswap, tokens, piVars, retiring, cmd, starts, trouble, crossed>>

----------------------------------------------------------------------------
(* undo cswap, cutover abort and their resume.                             *)

\* No Pi provider still runs on a migrated grant.
validateHandBackStructure == pi # "migrated"

\* Structural refusals come before the fence.
undoCswap(c) ==
  /\ validateHandBackStructure
  /\ runExecutingCommand(c, IF row.state = "cutover" THEN "undo-cswap" ELSE "cutover-abort", "fence")
  /\ UNCHANGED <<row, cswap, tokens, piVars, retiring, trouble, crossed>>

(* The transition compares the state, not the note: an undo admitted before a
   retirement wrote its fence still goes through. *)
transitionUndoing(c) ==
  /\ At(c, "fence")
  /\ IF row.state \in {"cutting-over", "cutover"}
     THEN /\ row' = [row EXCEPT !.state = "undoing", !.pre = row.state]
          /\ crossed' = (crossed \/ row.note = "retire" \/ (rj # None /\ rj.phase < 7) \/ rlock # "nobody")
          /\ cmd' = [cmd EXCEPT ![c] = [Idle EXCEPT !.pc = "wait", !.row = row.id]]
     ELSE Done(c) /\ UNCHANGED <<row, crossed>>
  /\ UNCHANGED <<cswap, tokens, piVars, retiring, starts, trouble>>

undoResume(c) ==
  /\ assertAdmitted("undo-cswap:resume")
  /\ cmd[c].pc = "idle" /\ starts < MaxStarts /\ starts' = starts + 1
  /\ cmd' = [cmd EXCEPT ![c] = [pc |-> IF row.state = "undoing" THEN "wait"
                                       ELSE IF row.note = "restore" THEN "restore" ELSE "pending",
                                for |-> "", row |-> row.id]]
  /\ UNCHANGED <<row, cswap, tokens, piVars, retiring, trouble, crossed>>

waitForLocks(c) ==
  /\ At(c, "wait")
  /\ Step(c, "plan")
  /\ UNCHANGED <<row, cswap, tokens, piVars, retiring, starts, trouble, crossed>>

\* Other QLB processes, by their command lines, and the locks they hold.
isQlbProcessCommand(c) == {o \in Cmds \ {c} : cmd[o].pc # "idle"}

(* QLB's agent is booted out and every other QLB process must be gone before
   the slots are read; the wait times out. *)
waitForDrain(c) ==
  /\ At(c, "wait")
  /\ IF isQlbProcessCommand(c) = {} THEN Step(c, "plan") ELSE Done(c)
  /\ UNCHANGED <<row, cswap, tokens, piVars, retiring, starts, trouble, crossed>>

(* planHandBack checks again with everything stopped, but not the phase: a resume
   that waited out another undo plans a hand-back that has already happened, or
   that of a later cutover, whose processes it has not waited for; and the slots
   of an earlier cutover, not imported again, are handed back too. *)
planHandBack(c) ==
  /\ At(c, "plan")
  /\ IF ~validateHandBackStructure THEN Done(c) ELSE Step(c, IF slot["other"] = 0 THEN "finish" ELSE "write")
  /\ crossed' = (crossed \/ row.state # "undoing" \/ row.id # cmd[c].row \/ (slot["other"] # 0 /\ ~imported))
  /\ UNCHANGED <<row, cswap, tokens, piVars, retiring, starts, trouble>>

writeSlot(c) ==
  /\ At(c, "write")
  /\ item' = [item EXCEPT !["other"] = slot["other"]] /\ Step(c, "write-active")
  /\ UNCHANGED <<row, cswap, cur, slot, live, used, imported, piVars, retiring, starts, trouble, crossed>>

\* The live login, proved to be the active account's, becomes the slot's.
resyncActive == slot' = [slot EXCEPT !["active"] = live]

(* Under Claude Code's locks the live login is adopted into the slot before the
   slot is written to C-swap's item. *)
writeActive(c) ==
  /\ At(c, "write-active")
  /\ resyncActive
  /\ item' = [item EXCEPT !["active"] = live] /\ used' = FALSE
  /\ Step(c, "verify")
  /\ UNCHANGED <<row, cswap, cur, live, imported, piVars, retiring, starts, trouble, crossed>>

verifyPlan(c) ==
  /\ At(c, "verify")
  /\ IF \A s \in Slots : item[s] = slot[s] THEN Step(c, "finish") ELSE Done(c)
  /\ UNCHANGED <<row, cswap, tokens, piVars, retiring, starts, trouble, crossed>>

\* State and fence in one write: only a restoring resume can finish from here.
finishHandBack(c) ==
  /\ At(c, "finish")
  /\ IF row.state = "undoing"
     THEN /\ row' = [row EXCEPT !.state = IF row.pre = "cutover" THEN "rolled-back" ELSE "aborted",
                                !.note = "restore"]
          /\ cmd' = [cmd EXCEPT ![c] = [Idle EXCEPT !.pc = "restore", !.row = row.id]]
     ELSE Done(c) /\ UNCHANGED row
  /\ UNCHANGED <<cswap, tokens, piVars, retiring, starts, trouble, crossed>>

\* A terminal row without the mark is claimed first; one that had it is restored as it is.
markRestorePending(c) ==
  /\ At(c, "pending")
  /\ IF row.id = cmd[c].row /\ row.state \in {"rolled-back", "aborted"} /\ row.note = ""
     THEN row' = [row EXCEPT !.note = "restore"] /\ Step(c, "restore")
     ELSE Done(c) /\ UNCHANGED row
  /\ UNCHANGED <<cswap, tokens, piVars, retiring, starts, trouble, crossed>>

(* Nothing reads the mark again between the claim and the effect: two resumes of
   one row, the slower one overtaken by a close, restore C-swap too late. *)
restoreCswap(c) ==
  /\ At(c, "restore")
  /\ \/ restorePlist /\ Step(c, "clear") /\ UNCHANGED trouble
     \/ agent.plist = "gone" /\ Done(c) /\ UNCHANGED <<agent, trouble>>
     \/ Fails /\ Done(c) /\ agent' \in {agent, [agent EXCEPT !.plist = IF @ = "backup" THEN "live" ELSE @]}
  /\ crossed' = (crossed \/ row.id # cmd[c].row \/ row.note # "restore")
  /\ UNCHANGED <<row, cs, flock, tokens, piVars, retiring, starts>>

clearRestorePending(c) ==
  /\ At(c, "clear") /\ Done(c)
  /\ row' = IF row.id = cmd[c].row /\ row.state \in {"rolled-back", "aborted"} /\ row.note = "restore"
            THEN [row EXCEPT !.note = ""] ELSE row
  /\ UNCHANGED <<cswap, tokens, piVars, retiring, starts, trouble, crossed>>

----------------------------------------------------------------------------
(* retire cswap: a journal, a fence, and effects checkpointed one by one.   *)

retireCswap(c) ==
  /\ rlock = "nobody" /\ rlock' = c
  /\ IF rj = None
     THEN assertAdmitted("retire-cswap") /\ Start(c, "r-gates")
     ELSE /\ assertAdmitted("retire-cswap:resume")
          /\ Start(c, IF row.state # "retired" THEN "r-fence"
                      ELSE IF row.note = "retire" THEN "r-clear" ELSE "r-remove")
  /\ UNCHANGED <<row, cswap, tokens, piVars, rj, trouble, crossed>>

\* C-swap's item is the slot's credential or one of its predecessors.
itemMapsToPassedSlot(s) == item[s] <= slot[s]

\* Every item is accounted for, and the phase is read again last.
evaluateRetirementGates(c) ==
  /\ At(c, "r-gates")
  /\ IF /\ row.state = "cutover" /\ piResolved
        /\ \A s \in Slots : itemMapsToPassedSlot(s)
     THEN rj' = [phase |-> 0, items |-> item, slots |-> slot] /\ Step(c, "r-fence")
     ELSE Step(c, "r-unlock") /\ UNCHANGED rj
  /\ UNCHANGED <<row, cswap, tokens, piVars, rlock, starts, trouble, crossed>>

beginRetirementFence(c) ==
  /\ At(c, "r-fence")
  /\ IF row.note = "retire" \/ (row.state = "cutover" /\ row.note = "")
     THEN row' = [row EXCEPT !.note = "retire"] /\ Step(c, "r-resume")
     ELSE Step(c, "r-unlock") /\ UNCHANGED row
  /\ UNCHANGED <<cswap, tokens, piVars, retiring, starts, trouble, crossed>>

\* The captured slots, or their successors, are still there.
resumeRetirement(c) ==
  /\ At(c, "r-resume")
  /\ Step(c, IF ~(\A s \in Slots : slot[s] >= rj.slots[s]) THEN "r-unlock"
             ELSE IF rj.phase < 5 THEN "r-bootout" ELSE "r-effect")
  /\ UNCHANGED <<row, cswap, tokens, piVars, retiring, starts, trouble, crossed>>

(* After the drain C-swap's inventory must be what the gates saw. *)
drainedInventory(c) ==
  /\ At(c, "r-inventory")
  /\ IF rj.phase < 2 /\ item # rj.items
     THEN Step(c, "r-unlock") /\ UNCHANGED rj
     ELSE rj' = [rj EXCEPT !.phase = IF @ < 1 THEN 1 ELSE @] /\ Step(c, "r-effect")
  /\ UNCHANGED <<row, cswap, tokens, piVars, rlock, starts, trouble, crossed>>

(* archive(2), delete-cswap-items(3), uninstall-cswap(4),
   remove-launch-artifacts(5), delete-pi-baselines(6), archive-stash(7): each
   effect, then its checkpoint, which a death may keep it from.  Inventory checks
   precede 3, 4 and 5, and 3 deletes an item only while it is the captured one.
   The archives of 2 and 7 are not state here, only their checkpoints. *)
Checkpoint(n) == rj' = [rj EXCEPT !.phase = n]

archiveCswap(c) ==
  /\ At(c, "r-effect") /\ rj.phase = 1 /\ Checkpoint(2)
  /\ UNCHANGED <<row, cswap, tokens, piVars, rlock, cmd, starts, trouble, crossed>>

deleteCswapItems(c) ==
  /\ At(c, "r-effect") /\ rj.phase = 2
  /\ IF \E s \in Slots : item[s] \notin {0, rj.items[s]}
     THEN Step(c, "r-unlock") /\ UNCHANGED <<rj, item>>
     ELSE /\ item' = [s \in Slots |-> 0] /\ UNCHANGED cmd
          /\ \/ Checkpoint(3) \/ UNCHANGED rj
  /\ UNCHANGED <<row, cswap, cur, slot, live, used, imported, piVars, rlock, starts, trouble, crossed>>

uninstallCswap(c) ==
  /\ At(c, "r-effect") /\ rj.phase \in {3, 4}
  /\ IF \E s \in Slots : item[s] # 0
     THEN Step(c, "r-unlock") /\ UNCHANGED <<rj, agent>>
     ELSE /\ agent' = IF rj.phase = 4 THEN [agent EXCEPT !.plist = "gone"] ELSE agent
          /\ Checkpoint(rj.phase + 1) \/ UNCHANGED rj
          /\ UNCHANGED cmd
  /\ UNCHANGED <<row, cs, flock, tokens, piVars, rlock, starts, trouble, crossed>>

deletePiBaselines(c) ==
  /\ At(c, "r-effect") /\ rj.phase \in {5, 6}
  /\ baseline' = FALSE
  /\ Checkpoint(rj.phase + 1) \/ UNCHANGED rj
  /\ UNCHANGED <<row, cswap, tokens, pi, rlock, cmd, starts, trouble, crossed>>

transitionRetired(c) ==
  /\ At(c, "r-effect") /\ rj.phase = 7
  /\ IF row.state = "cutover"
     THEN row' = [row EXCEPT !.state = "retired"] /\ Step(c, "r-commit")
     ELSE Step(c, "r-unlock") /\ UNCHANGED row
  /\ UNCHANGED <<cswap, tokens, piVars, retiring, starts, trouble, crossed>>

\* The last checkpoint, committed(8).  A journal that has it, left by a death before its
\* removal, takes the next retirement straight to the fence's clear, which it refuses.
checkpointCommitted(c) ==
  /\ \/ At(c, "r-commit") /\ Checkpoint(8)
     \/ At(c, "r-effect") /\ rj.phase = 8 /\ UNCHANGED rj
  /\ Step(c, "r-clear")
  /\ UNCHANGED <<row, cswap, tokens, piVars, rlock, starts, trouble, crossed>>

clearRetirementFence(c) ==
  /\ At(c, "r-clear")
  /\ IF row.state = "retired" /\ row.note = "retire"
     THEN row' = [row EXCEPT !.note = ""] /\ Step(c, "r-remove")
     ELSE Step(c, "r-unlock") /\ UNCHANGED row
  /\ UNCHANGED <<cswap, tokens, piVars, retiring, starts, trouble, crossed>>

removeRetirementJournal(c) ==
  /\ At(c, "r-remove") /\ rj' = None /\ Step(c, "r-unlock")
  /\ UNCHANGED <<row, cswap, tokens, piVars, rlock, starts, trouble, crossed>>

releaseRetirementLock(c) ==
  /\ cmd[c].pc \in {"r-unlock", "p-unlock"} /\ rlock' = "nobody" /\ Done(c)
  /\ UNCHANGED <<row, cswap, tokens, piVars, rj, starts, trouble, crossed>>

----------------------------------------------------------------------------
(* pi rollback: the fence is read, then the lock taken, then read again.    *)

piRollback(c) ==
  /\ assertPiRollbackFencesClear /\ pi = "migrated" /\ Start(c, "p-lock")
  /\ UNCHANGED <<row, cswap, tokens, piVars, retiring, trouble, crossed>>

lockRollback(c) ==
  /\ At(c, "p-lock")
  /\ IF rlock = "nobody" THEN rlock' = c /\ Step(c, "p-fence") ELSE Done(c) /\ UNCHANGED rlock
  /\ UNCHANGED <<row, cswap, tokens, piVars, rj, starts, trouble, crossed>>

fenceRollback(c) ==
  /\ At(c, "p-fence")
  /\ Step(c, IF assertPiRollbackFencesClear THEN "p-restore" ELSE "p-unlock")
  /\ UNCHANGED <<row, cswap, tokens, piVars, retiring, starts, trouble, crossed>>

restoreBaseline(c) ==
  /\ At(c, "p-restore") /\ Step(c, "p-unlock")
  /\ pi' = IF baseline THEN "native" ELSE pi
  /\ UNCHANGED <<row, cswap, tokens, baseline, retiring, starts, trouble, crossed>>

----------------------------------------------------------------------------
(* The rest of the machine.                                                *)

\* launchd starts C-swap's tick; it rotates a login behind its own flock.
CswapStart ==
  /\ cs = "off" /\ agent.loaded /\ cs' = "run"
  /\ UNCHANGED <<row, agent, flock, tokens, piVars, retiring, cmd, starts, trouble, crossed>>

CswapLock ==
  /\ cs = "run" /\ flock = "nobody" /\ cs' = "locked" /\ flock' = "cswap"
  /\ UNCHANGED <<row, agent, tokens, piVars, retiring, cmd, starts, trouble, crossed>>

CswapSpend ==
  /\ cs = "locked" /\ item["other"] = cur["other"] /\ cur["other"] < MaxTok
  /\ cur' = [cur EXCEPT !["other"] = @ + 1] /\ cs' = "spent"
  /\ UNCHANGED <<row, agent, flock, item, slot, live, used, imported, piVars, retiring, cmd, starts, trouble, crossed>>

CswapStore ==
  /\ \/ cs = "spent" /\ item' = [item EXCEPT !["other"] = cur["other"]]
     \/ cs \in {"run", "locked"} /\ UNCHANGED item
  /\ cs' = "off" /\ flock' = IF cs = "run" THEN flock ELSE "nobody"
  /\ UNCHANGED <<row, agent, cur, slot, live, used, imported, piVars, retiring, cmd, starts, trouble, crossed>>

\* Claude Code rotates the login it is using.
NativeRotate ==
  /\ live = cur["active"] /\ live < MaxTok
  /\ cur' = [cur EXCEPT !["active"] = @ + 1] /\ live' = live + 1 /\ used' = TRUE
  /\ UNCHANGED <<row, cswap, item, slot, imported, piVars, retiring, cmd, starts, trouble, crossed>>

\* launchd loads what is enabled and in place; every process is gone.
Reboot ==
  /\ Fails
  /\ cs \in {"off", "run"} /\ cs' = "off" /\ flock' = "nobody" /\ rlock' = "nobody"
  /\ agent' = [agent EXCEPT !.loaded = agent.enabled /\ agent.plist = "live"]
  /\ cmd' = [c \in Cmds |-> Idle]
  /\ UNCHANGED <<row, tokens, piVars, rj, starts, crossed>>

(* A command dies.  Its retirement lock names a dead owner and is reclaimed;
   its flocks go with its helper. *)
Crash(c) ==
  /\ Fails /\ cmd[c].pc # "idle" /\ Done(c)
  /\ rlock' = IF rlock = c THEN "nobody" ELSE rlock
  /\ flock' = IF At(c, "signal") /\ flock = "drain" THEN "nobody" ELSE flock
  /\ UNCHANGED <<row, agent, cs, tokens, piVars, rj, starts, crossed>>

Command(c) ==
  \/ cutoverBegin(c) \/ beginCutover(c) \/ stopCswap(c) \/ completeCutoverBegin(c)
  \/ compensate(c) \/ abortCutoverBegin(c)
  \/ cooperativeDrain(c) \/ acquireAllLocks(c) \/ signalSurvivors(c)
  \/ importCswap(c) \/ use(c) \/ refreshSlot(c) \/ commitCutover(c) \/ closeLifecycle(c)
  \/ undoCswap(c) \/ transitionUndoing(c) \/ undoResume(c) \/ waitForDrain(c) \/ planHandBack(c)
  \/ writeSlot(c) \/ writeActive(c) \/ verifyPlan(c) \/ finishHandBack(c)
  \/ markRestorePending(c) \/ restoreCswap(c) \/ clearRestorePending(c)
  \/ retireCswap(c) \/ evaluateRetirementGates(c) \/ beginRetirementFence(c) \/ resumeRetirement(c)
  \/ drainedInventory(c) \/ archiveCswap(c) \/ deleteCswapItems(c) \/ uninstallCswap(c)
  \/ deletePiBaselines(c) \/ transitionRetired(c) \/ checkpointCommitted(c)
  \/ clearRetirementFence(c) \/ removeRetirementJournal(c) \/ releaseRetirementLock(c)
  \/ piMigrate(c) \/ piInventoryRecord(c)
  \/ piRollback(c) \/ lockRollback(c) \/ fenceRollback(c) \/ restoreBaseline(c)
  \/ Crash(c)

Next == (\E c \in Cmds : Command(c)) \/ LeaseLost \/ CswapStart \/ CswapLock \/ CswapSpend
        \/ CswapStore \/ NativeRotate \/ Reboot

Spec == Init /\ [][Next]_vars

----------------------------------------------------------------------------
QlbOwns == row.state \in {"cutover", "undoing", "retired"} \/ (row.state = "cutting-over" /\ row.note = "")

(* From the end of `cutover begin` until the hand-back is recorded, through
   every failure, death and reboot, no C-swap process exists that could spend a
   login beside QLB. *)
OneOwner == QlbOwns /\ ~crossed => cs = "off" /\ ~agent.loaded

(* The unspent token of a login is always in C-swap's item, in QLB's slot, with
   Claude Code or with the process that just received it: no signal, no
   hand-back and no retirement destroys the last copy. *)
GrantKept ==
  ~crossed => \A s \in Slots :
    \/ cur[s] \in {item[s], slot[s]}
    \/ s = "active" /\ live = cur[s]
    \/ s = "other" /\ cs = "spent"

(* A hand-back is recorded only when C-swap's items hold the unspent tokens,
   save what Claude Code rotated itself after its login was copied. *)
HandBackCurrent ==
  [][(~crossed /\ row.state = "undoing" /\ row'.state # "undoing" /\ slot["other"] # 0) =>
       /\ item["other"] = cur["other"]
       /\ item["active"] = cur["active"] \/ used]_vars

(* A cutover that was undone or aborted and whose restore is not marked pending
   has C-swap installed, enabled and loaded again; nothing closes the row before
   that. *)
RestoreNotForgotten ==
  (/\ ~crossed
   /\ \/ row.state \in {"rolled-back", "aborted"} /\ row.note # "restore"
      \/ row.state = "pre-cutover" /\ row.pre \in {"rolled-back", "aborted"})
  => agent = [plist |-> "live", enabled |-> TRUE, loaded |-> TRUE]

(* A Pi rollback that got past its fences never has its baseline deleted under it
   by a retirement. *)
RollbackKeepsBaseline ==
  [][(\E c \in Cmds : At(c, "p-restore")) => (baseline => baseline')]_vars

=============================================================================
