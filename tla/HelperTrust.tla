---------------------------- MODULE HelperTrust ----------------------------
(***************************************************************************)
(* The signed Keychain helper: how its identity comes to be pinned (by a   *)
(* green helper matrix or by installing a release), how the live Keychain  *)
(* items come to be authorized for it, and how a release is published.     *)
(*                                                                         *)
(* A process runs one command.  Every command verifies the helper and acts *)
(* on it later, while the operator may rebuild it and other commands write *)
(* the same configuration rows, each row in a transaction of its own.      *)
(***************************************************************************)
EXTENDS Naturals, Sequences

CONSTANTS Procs,     \* the runs of qlb, one command each
          Builds,    \* the helper builds in order: [id, ours]
          Items,     \* the live items in order: Claude Code's, then C-swap's
          Shas,      \* release names
          Commands,  \* the commands explored
          MaxRotations, \* bound: rotations of one C-swap item
          None

VARIABLES
  helper,    \* the build at the helper's path, an index into Builds
  cfg,       \* the keychain.* configuration rows
  job,       \* [Procs -> the command in progress or run]
  child,     \* [Procs -> the matrix's one-shot launch agent]
  disp,      \* processes whose disposable matrix items exist
  agent,     \* [Procs -> the live check's launch agent and its run directory]
  items,     \* [item -> identities that have read it]
  cswap,     \* [C-swap item -> its value and its modification date]
  app,       \* [Shas -> None or the build inside the release]
  current    \* the published release

vars == <<helper, cfg, job, child, disp, agent, items, cswap, app, current>>

NoJob == [pc |-> "idle", cmd |-> "none", bin |-> 0, ok |-> FALSE,
          pin |-> None, at |-> 0, ver |-> 0, date |-> 0, sha |-> None, out |-> "none"]
NoChild == [st |-> "none", bin |-> 0]

Id(b) == Builds[b].id
cswapItems == 2 .. Len(Items)

Init ==
  /\ helper = 1
  /\ cfg = [pin |-> None, result |-> "none", bin |-> 0,
            readAt |-> FALSE, readId |-> None, liveId |-> None, cswapAt |-> FALSE]
  /\ job = [p \in Procs |-> NoJob]
  /\ child = [p \in Procs |-> NoChild]
  /\ disp = {}
  /\ agent = [p \in Procs |-> "none"]
  /\ items = [i \in DOMAIN Items |-> {}]
  /\ cswap = [i \in cswapItems |-> [ver |-> 0, date |-> 0]]
  /\ app = [s \in Shas |-> None]
  /\ current = None

MayRun(p, cmd) == cmd \in Commands /\ job[p].pc = "idle"
Started(cmd, pc) == [NoJob EXCEPT !.cmd = cmd, !.pc = pc]
Goto(p, pc) == job' = [job EXCEPT ![p].pc = pc]
StartsAndEnds(p, cmd, out) == job' = [job EXCEPT ![p] = [Started(cmd, "done") EXCEPT !.out = out]]
Ends(p, out) == StartsAndEnds(p, job[p].cmd, out)

(* codesign: the expected authority, and the pinned leaf when there is one. *)
trustedSigning(b) ==
  /\ Builds[b].ours
  /\ cfg.pin # None => Id(b) = cfg.pin

-----------------------------------------------------------------------------
(* The helper matrix, directly or under launchd *)

(* A failed matrix never records an identity; one that finds no helper, or  *)
(* no store to write, records nothing.                                      *)
helperMatrixConfig == cfg' \in {cfg, [cfg EXCEPT !.result = "failed"]}

MatrixFailed(p) == helperMatrixConfig /\ Ends(p, "failed")

(* The helper is verified, and the cases begin or the agent is loaded.  A   *)
(* helper that is not trusted, or a run directory that cannot be made, ends *)
(* the command.                                                             *)
CheckBegin(p, cmd) ==
  /\ MayRun(p, cmd) /\ cmd \in {"matrix", "check-launchd"}
  /\ \/ /\ helperMatrixConfig /\ StartsAndEnds(p, cmd, "failed")
        /\ UNCHANGED <<child, disp>>
     \/ /\ trustedSigning(helper) /\ cmd = "matrix"
        /\ job' = [job EXCEPT ![p] = [Started(cmd, "cases") EXCEPT !.bin = helper, !.pin = cfg.pin]]
        /\ disp' = disp \cup {p} /\ UNCHANGED <<cfg, child>>
     \/ /\ trustedSigning(helper) /\ cmd = "check-launchd"
        /\ job' = [job EXCEPT ![p] = [Started(cmd, "wait") EXCEPT !.bin = helper, !.pin = cfg.pin]]
        /\ child' = [child EXCEPT ![p].st = "loaded"] /\ UNCHANGED <<cfg, disp>>
  /\ UNCHANGED <<helper, agent, items, cswap, app, current>>

(* The three cases have run and their items are removed; a case whose       *)
(* cleanup fails is a failed case.                                          *)
runHelperMatrix(p, ok) ==
  disp' \in (IF ok THEN {disp \ {p}} ELSE {disp \cup {p}, disp \ {p}})

(* The helper is inspected again after the cases.                           *)
MatrixEnds(p) ==
  /\ job[p].pc = "cases"
  /\ \E ok \in BOOLEAN :
       /\ runHelperMatrix(p, ok)
       /\ job' = [job EXCEPT ![p].pc = "after", ![p].ok = ok]
  /\ UNCHANGED <<helper, cfg, child, agent, items, cswap, app, current>>

(* The launch agent verifies the helper itself and makes its items after    *)
(* it wrote their names to the manifest.                                    *)
ChildBegin(p) ==
  /\ child[p].st = "loaded"
  /\ IF trustedSigning(helper)
     THEN child' = [child EXCEPT ![p] = [st |-> "cases", bin |-> helper]] /\ disp' = disp \cup {p}
     ELSE child' = [child EXCEPT ![p].st = "failed"] /\ disp' = disp
  /\ UNCHANGED <<helper, cfg, job, agent, items, cswap, app, current>>

(* The agent publishes receipt and status, green only on an unchanged       *)
(* helper; nobody reads them once the parent has gone.                      *)
ChildEnds(p) ==
  /\ child[p].st = "cases"
  /\ \E ok \in BOOLEAN :
       /\ runHelperMatrix(p, ok)
       /\ child' = [child EXCEPT ![p] = [NoChild EXCEPT !.st =
            IF job[p].pc # "wait" THEN "none"
            ELSE IF ok /\ helper = child[p].bin THEN "ok" ELSE "failed"]]
  /\ UNCHANGED <<helper, cfg, job, agent, items, cswap, app, current>>

(* The parent reads the receipt.                                            *)
ReadReceipt(p) ==
  /\ job[p].pc = "wait" /\ child[p].st = "ok"
  /\ job' = [job EXCEPT ![p].pc = "after", ![p].ok = TRUE]
  /\ child' = [child EXCEPT ![p] = NoChild]
  /\ UNCHANGED <<helper, cfg, disp, agent, items, cswap, app, current>>

(* A red receipt, or one that cannot be read: the child has exited and what *)
(* its manifest names is removed where that succeeds.                       *)
ReadRedReceipt(p) ==
  /\ job[p].pc = "wait" /\ child[p].st \in {"ok", "failed"}
  /\ disp' \in {disp, disp \ {p}}
  /\ child' = [child EXCEPT ![p] = NoChild]
  /\ MatrixFailed(p)
  /\ UNCHANGED <<helper, agent, items, cswap, app, current>>

(* The parent gives up and boots the agent out.  After a timeout its items  *)
(* are removed only when launchd confirms that it exited; when launchctl    *)
(* threw they are removed even under an agent that runs.  One that starts   *)
(* once the run directory is gone makes none.                               *)
MatrixTimeout(p) ==
  /\ job[p].pc = "wait" /\ child[p].st \in {"loaded", "cases"}
  /\ child' = [child EXCEPT ![p] = NoChild] \/ (child[p].st = "cases" /\ child' = child)
  /\ disp' \in {disp, disp \ {p}}
  /\ MatrixFailed(p)
  /\ UNCHANGED <<helper, agent, items, cswap, app, current>>

(* Only a green matrix on an unchanged build is recorded, row by row with   *)
(* the identity last.                                                       *)
CheckAfter(p) ==
  /\ job[p].pc = "after"
  /\ IF job[p].ok /\ helper = job[p].bin
     THEN cfg' = [cfg EXCEPT !.result = "ok"] /\ Goto(p, "bin")
     ELSE MatrixFailed(p)
  /\ UNCHANGED <<helper, child, disp, agent, items, cswap, app, current>>

(* A row that cannot be written turns the matrix into a failed one.         *)
writeMatrixConfig(p) ==
  /\ job[p].cmd \in {"matrix", "check-launchd"}
  /\ \/ job[p].pc = "bin" /\ cfg' = [cfg EXCEPT !.bin = job[p].bin] /\ Goto(p, "pin")
     \/ job[p].pc = "pin" /\ cfg' = [cfg EXCEPT !.pin = Id(job[p].bin)] /\ Ends(p, "ok")
     \/ job[p].pc \in {"bin", "pin"} /\ MatrixFailed(p)
  /\ UNCHANGED <<helper, child, disp, agent, items, cswap, app, current>>

-----------------------------------------------------------------------------
(* qlb keychain authorize *)

(* The command has died and the helper it ran, in a session of its own, has *)
(* not.                                                                     *)
Orphaned(p) == job[p].pc # "done" /\ job[p].out = "failed"

(* The command goes on after its helper has ended, if it still runs.        *)
HelperEnds(p, next) == IF Orphaned(p) THEN Ends(p, "failed") ELSE job' = [job EXCEPT ![p] = next]

(* A private copy of the helper is verified and used for every probe.       *)
AuthorizeBegin(p) ==
  /\ MayRun(p, "authorize")
  /\ \/ /\ trustedSigning(helper)
        /\ job' = [job EXCEPT ![p] = [Started("authorize", "probe") EXCEPT !.bin = helper, !.at = 1]]
     \/ StartsAndEnds(p, "authorize", "failed")
  /\ UNCHANGED <<helper, cfg, child, disp, agent, items, cswap, app, current>>

(* Item after item: the user answers the prompt, or refuses.  Which service *)
(* name an item was found under (keychain.ts:791) is not told apart.        *)
ProbeRead(p) ==
  /\ job[p].pc = "probe" /\ job[p].at \in DOMAIN Items
  /\ \/ /\ items' = [items EXCEPT ![job[p].at] = @ \cup {Id(job[p].bin)}]
        /\ HelperEnds(p, [job[p] EXCEPT !.at = @ + 1])
     \/ items' = items /\ Ends(p, "failed")
  /\ UNCHANGED <<helper, cfg, child, disp, agent, cswap, app, current>>

(* Two rows, two writes.                                                    *)
RecordReadAt(p) ==
  /\ job[p].pc = "probe" /\ job[p].at > Len(Items)
  /\ cfg' = [cfg EXCEPT !.readAt = TRUE]
  /\ Goto(p, "readid")
  /\ UNCHANGED <<helper, child, disp, agent, items, cswap, app, current>>

RecordReadIdentity(p) ==
  /\ job[p].pc = "readid"
  /\ cfg' = [cfg EXCEPT !.readId = Id(job[p].bin)]
  /\ Ends(p, "ok")
  /\ UNCHANGED <<helper, child, disp, agent, items, cswap, app, current>>

(* authorize cswap reads each item and writes the same bytes back, through  *)
(* the helper, so that the helper becomes its author.  Refused when it is   *)
(* not admitted.                                                            *)
CswapBegin(p) ==
  /\ MayRun(p, "authorize cswap")
  /\ \/ job' = [job EXCEPT ![p] = [Started("authorize cswap", "read") EXCEPT !.at = 2]]
     \/ StartsAndEnds(p, "authorize cswap", "failed")
  /\ UNCHANGED <<helper, cfg, child, disp, agent, items, cswap, app, current>>

CswapRead(p) ==
  /\ job[p].pc = "read" /\ job[p].at \in cswapItems
  /\ \/ job' = [job EXCEPT ![p].pc = "s24", ![p].ver = cswap[job[p].at].ver]
     \/ Ends(p, "failed")
  /\ UNCHANGED <<helper, cfg, child, disp, agent, items, cswap, app, current>>

(* A live C-swap process refuses; then the helper is staged and verified.   *)
CswapStage(p) ==
  /\ job[p].pc = "s24"
  /\ Ends(p, "failed") \/ (trustedSigning(helper) /\ Goto(p, "hash"))
  /\ UNCHANGED <<helper, cfg, child, disp, agent, items, cswap, app, current>>

(* set --if-sha256: the stored bytes are hashed, their date is kept ...     *)
CswapHash(p) ==
  /\ job[p].pc = "hash"
  /\ \/ /\ cswap[job[p].at].ver = job[p].ver
        /\ job' = [job EXCEPT ![p].pc = "update", ![p].date = cswap[job[p].at].date]
     \/ Ends(p, "failed")
  /\ UNCHANGED <<helper, cfg, child, disp, agent, items, cswap, app, current>>

(* A plausible error: the update's query names the item and not its date.   *)
updateAnyDate(p) ==
  /\ cswap' = [cswap EXCEPT ![job[p].at] = [ver |-> job[p].ver, date |-> @.date + 1]]
  /\ HelperEnds(p, [job[p] EXCEPT !.pc = "read", !.at = @ + 1])

(* ... and updated only if the record still has that date, which two writes *)
(* of one instant share.                                                    *)
SecItemUpdate(p) ==
  \/ /\ cswap[job[p].at].date = job[p].date
     /\ cswap' = [cswap EXCEPT ![job[p].at] = [ver |-> job[p].ver, date |-> @.date + 1]]
     /\ HelperEnds(p, [job[p] EXCEPT !.pc = "read", !.at = @ + 1])
  \/ cswap' = cswap /\ Ends(p, "failed")

CswapUpdate(p) ==
  /\ job[p].pc = "update"
  /\ SecItemUpdate(p)
  /\ UNCHANGED <<helper, cfg, child, disp, agent, items, app, current>>

CswapAuthorized(p) ==
  /\ job[p].pc = "read" /\ job[p].at \notin cswapItems
  /\ cfg' = [cfg EXCEPT !.cswapAt = TRUE]
  /\ Ends(p, "ok")
  /\ UNCHANGED <<helper, child, disp, agent, items, cswap, app, current>>

-----------------------------------------------------------------------------
(* qlb keychain check-launchd --live *)

(* The gates before the run, one read after the other: the reads were       *)
(* authorized and the helper is the pinned one, ...                         *)
liveGates == cfg.readAt /\ cfg.pin # None /\ Id(helper) = cfg.pin

(* A plausible error: the identity the reads were authorized for is not     *)
(* compared with the pin.                                                   *)
anyReader(p) == cfg.readAt

(* ... and they were authorized for that pin.                               *)
sameReader(p) == cfg.readId = job[p].pin

(* Refused also when not admitted, or without an active login.              *)
LiveBegin(p) ==
  /\ MayRun(p, "check-live")
  /\ \/ liveGates /\ job' = [job EXCEPT ![p] = [Started("check-live", "gate") EXCEPT !.pin = cfg.pin]]
     \/ StartsAndEnds(p, "check-live", "failed")
  /\ UNCHANGED <<helper, cfg, child, disp, agent, items, cswap, app, current>>

LiveGate(p) ==
  /\ job[p].pc = "gate"
  /\ IF sameReader(p) THEN Goto(p, "sweep") ELSE Ends(p, "failed")
  /\ UNCHANGED <<helper, cfg, child, disp, agent, items, cswap, app, current>>

(* The sweep of earlier runs: directory after directory of a stopped agent  *)
(* is removed, one whose parent still waits for it too.  A running agent    *)
(* refuses, one of unknown state fails.                                     *)
LiveSweep(p) ==
  /\ job[p].pc = "sweep"
  /\ \E S \in SUBSET {q \in Procs : agent[q] \in {"ok", "failed"}} :
       /\ agent' = [q \in Procs |-> IF q \in S THEN "none" ELSE agent[q]]
       /\ \/ (\A q \in Procs \ S : agent[q] = "none") /\ Goto(p, "start")
          \/ (\E q \in Procs : agent[q] = "running") /\ Ends(p, "failed")
          \/ (\E q \in Procs \ S : agent[q] # "none") /\ Ends(p, "failed")
  /\ UNCHANGED <<helper, cfg, child, disp, items, cswap, app, current>>

(* The agent is loaded.  When launchctl refuses or is too late, the run     *)
(* directory stays unless the agent is known not to be loaded.              *)
LiveStart(p) ==
  /\ job[p].pc = "start"
  /\ \/ agent' = [agent EXCEPT ![p] = "running"] /\ Goto(p, "live")
     \/ agent' \in {[agent EXCEPT ![p] = o] : o \in {"none", "failed", "running"}} /\ Ends(p, "failed")
  /\ UNCHANGED <<helper, cfg, child, disp, items, cswap, app, current>>

(* The agent's self-switch republishes the active login, or fails.          *)
AgentEnds(p) ==
  /\ agent[p] = "running"
  /\ agent' \in {[agent EXCEPT ![p] = o] : o \in {"ok", "failed"}}
  /\ UNCHANGED <<helper, cfg, job, child, disp, items, cswap, app, current>>

(* The receipt is read, or the check times out and leaves the agent to a    *)
(* later sweep.  The pin read before the run is what is recorded.           *)
LiveEnds(p) ==
  /\ job[p].pc = "live"
  /\ \/ /\ agent[p] = "ok"
        /\ cfg' = [cfg EXCEPT !.liveId = job[p].pin]
        /\ agent' = [agent EXCEPT ![p] = "none"]
        /\ Ends(p, "ok")
     \/ /\ agent[p] \in {"ok", "failed"}
        /\ agent' = [agent EXCEPT ![p] = "none"]
        /\ cfg' = cfg
        /\ Ends(p, "failed")
     \/ /\ agent[p] \in {"running", "none"}
        /\ UNCHANGED <<agent, cfg>>
        /\ Ends(p, "failed")
  /\ UNCHANGED <<helper, child, disp, items, cswap, app, current>>

-----------------------------------------------------------------------------
(* qlb release install *)

(* The build's stamp is clean, and the checkout's helper verifies and is    *)
(* the pinned one, if any.                                                  *)
InstallBegin(p, s) ==
  /\ MayRun(p, "install")
  /\ \/ /\ trustedSigning(helper)
        /\ job' = [job EXCEPT ![p] = [Started("install", "copy") EXCEPT
                     !.sha = s, !.bin = helper, !.pin = cfg.pin]]
     \/ StartsAndEnds(p, "install", "failed")
  /\ UNCHANGED <<helper, cfg, child, disp, agent, items, cswap, app, current>>

(* The helper is copied after it was verified.  job.ver is the copy.  The   *)
(* staged build must have the digest of its stamp.                          *)
InstallCopy(p) ==
  /\ job[p].pc = "copy"
  /\ \/ job' = [job EXCEPT ![p].pc = "attest", ![p].ver = helper]
     \/ Ends(p, "failed")
  /\ UNCHANGED <<helper, cfg, child, disp, agent, items, cswap, app, current>>

(* An existing release of that name must attest to the same bytes.  Then    *)
(* the database is backed up, which may fail.                               *)
assertExistingRelease(p) ==
  /\ job[p].pc = "attest"
  /\ \/ app[job[p].sha] \in {None, job[p].ver} /\ Goto(p, "place")
     \/ Ends(p, "failed")
  /\ UNCHANGED <<helper, cfg, child, disp, agent, items, cswap, app, current>>

(* The staged tree is renamed, unless a release of that name is there by    *)
(* now; the rename fails over one that appears after the last look.         *)
InstallPlace(p) ==
  /\ job[p].pc = "place"
  /\ \/ app' = [app EXCEPT ![job[p].sha] = IF @ = None THEN job[p].ver ELSE @] /\ Goto(p, "pin")
     \/ app[job[p].sha] # None /\ app' = app /\ Ends(p, "failed")
  /\ UNCHANGED <<helper, cfg, child, disp, agent, items, cswap, current>>

(* A plausible error: the pin is written with INSERT OR REPLACE.            *)
recordReplacing(p) ==
  /\ job[p].pc = "pin" /\ job[p].cmd = "install"
  /\ cfg' = [cfg EXCEPT !.pin = Id(job[p].bin)]
  /\ Goto(p, "publish")
  /\ UNCHANGED <<helper, child, disp, agent, items, cswap, app, current>>

(* The pin is recorded before the release becomes visible, and never        *)
(* replaced.                                                                *)
recordHelperIdentityHash(p) ==
  /\ job[p].pc = "pin" /\ job[p].cmd = "install"
  /\ \/ /\ cfg.pin \in {None, Id(job[p].bin)}
        /\ cfg' = [cfg EXCEPT !.pin = Id(job[p].bin)] /\ Goto(p, "publish")
     \/ cfg' = cfg /\ Ends(p, "failed")
  /\ UNCHANGED <<helper, child, disp, agent, items, cswap, app, current>>

(* The relative symlink is swapped by a rename.  Where that fails the pin   *)
(* stays.                                                                   *)
publishCurrent(p) ==
  /\ job[p].pc = "publish"
  /\ (current' = job[p].sha /\ Ends(p, "ok")) \/ (current' = current /\ Ends(p, "failed"))
  /\ UNCHANGED <<helper, cfg, child, disp, agent, items, cswap, app>>

-----------------------------------------------------------------------------
(* The surroundings *)

(* npm run build:helper replaces the helper with a later build.             *)
Rebuild ==
  /\ \E b \in DOMAIN Builds : b > helper /\ helper' = b
  /\ UNCHANGED <<cfg, job, child, disp, agent, items, cswap, app, current>>

(* C-swap rotates an item while an authorization is under way, perhaps in   *)
(* the instant of the write before.                                         *)
CswapRotates(i) ==
  /\ \E p \in Procs : job[p].pc \in {"s24", "hash", "update"}
  /\ cswap[i].ver < MaxRotations
  /\ \E tick \in {0, 1} :
       cswap' = [cswap EXCEPT ![i] = [ver |-> @.ver + 1, date |-> @.date + tick]]
  /\ UNCHANGED <<helper, cfg, job, child, disp, agent, items, app, current>>

(* A process dies; launchd's agents live on, and so may the helper it runs. *)
Crash(p) ==
  /\ job[p].pc \notin {"idle", "done"} /\ ~Orphaned(p)
  /\ \/ Ends(p, "failed")
     \/ /\ job[p].pc \in {"hash", "update"} \/ (job[p].pc = "probe" /\ job[p].at \in DOMAIN Items)
        /\ job' = [job EXCEPT ![p].out = "failed"]
  /\ child' = [child EXCEPT ![p].st = IF @ \in {"ok", "failed"} THEN "none" ELSE @]
  /\ UNCHANGED <<helper, cfg, disp, agent, items, cswap, app, current>>

Next ==
  \/ \E p \in Procs :
       \/ \E c \in Commands : CheckBegin(p, c)
       \/ MatrixEnds(p) \/ ChildBegin(p) \/ ChildEnds(p) \/ ReadReceipt(p)
       \/ ReadRedReceipt(p) \/ MatrixTimeout(p) \/ CheckAfter(p) \/ writeMatrixConfig(p)
       \/ AuthorizeBegin(p) \/ ProbeRead(p) \/ RecordReadAt(p) \/ RecordReadIdentity(p)
       \/ CswapBegin(p) \/ CswapRead(p) \/ CswapStage(p) \/ CswapHash(p) \/ CswapUpdate(p)
       \/ CswapAuthorized(p)
       \/ LiveBegin(p) \/ LiveGate(p) \/ LiveSweep(p) \/ LiveStart(p) \/ AgentEnds(p) \/ LiveEnds(p)
       \/ \E s \in Shas : InstallBegin(p, s)
       \/ InstallCopy(p) \/ assertExistingRelease(p) \/ InstallPlace(p)
       \/ recordHelperIdentityHash(p) \/ publishCurrent(p)
       \/ Crash(p)
  \/ Rebuild \/ \E i \in cswapItems : CswapRotates(i)

Spec == Init /\ [][Next]_vars

-----------------------------------------------------------------------------
(* Properties *)

(* An established pin is replaced only by a matrix that verified its helper *)
(* against another one: neither an installer, however it interleaves with  *)
(* others, nor a matrix that saw this pin ever moves the anchor of the      *)
(* helper's identity.                                                       *)
PinKept ==
  [][cfg.pin # None /\ cfg'.pin # cfg.pin =>
       \E p \in Procs : /\ job[p].cmd \in {"matrix", "check-launchd"}
                        /\ job[p].pc = "pin" /\ job[p].pin # cfg.pin]_vars

(* The recorded live authorization names an identity with which every live  *)
(* item really was read, however stale the pin it was based on.             *)
LiveMeansGranted ==
  cfg.liveId # None => \A i \in DOMAIN Items : cfg.liveId \in items[i]

(* A matrix that reported success has left no disposable Keychain item.     *)
OkLeavesNothing ==
  \A p \in Procs :
    /\ job[p].cmd \in {"matrix", "check-launchd"}
    /\ job[p].out = "ok"
    => p \notin disp

(* Authorizing a C-swap item takes it back to an older value only when the  *)
(* rotation it undoes has the modification date of the write before it: the *)
(* residual risk the helper names.                                          *)
CswapNeverRewound ==
  [][\A i \in cswapItems : cswap'[i].ver < cswap[i].ver =>
       \E p \in Procs : job[p].pc = "update" /\ job[p].at = i /\ job[p].date = cswap[i].date]_vars
=============================================================================
