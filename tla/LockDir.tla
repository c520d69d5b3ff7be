------------------------------- MODULE LockDir -------------------------------
(***************************************************************************)
(* The directory locks shared with Claude Code and C-swap, and QLB's own   *)
(* variant with ownership tokens.                                          *)
(*                                                                         *)
(* `mkdir` acquires.  A directory whose mtime is too old is removed under  *)
(* a second, `takeover` directory, then acquired anew; a holder that only  *)
(* stalled may find itself beside its successor.  A "token" lock (the      *)
(* Codex auth lock) leaves a token file inside, and its holder asks before *)
(* each publication, and once more at the end, whether the directory is    *)
(* still its own; a "plain" lock (Claude Code's) has no such check; an     *)
(* "import" lock (C-swap import) never waits.                              *)
(*                                                                         *)
(* A file system may give a new directory the inode of the old one at      *)
(* once, so inodes distinguish nothing here.                               *)
(***************************************************************************)
EXTENDS Naturals

CONSTANTS Procs, Modes, None

Dirs == [tokens : SUBSET Procs, stale : BOOLEAN]
Sidecars == [by : Procs, stale : BOOLEAN]

ASSUME NoneAssumption == None \notin Dirs \cup Sidecars

VARIABLES
  mode,      \* what kind of lock this directory is
  dir,       \* None or the directory: its tokens and whether it is stale
  sidecar,   \* None or the takeover directory: its maker and staleness
  pc,        \* [Procs -> the next step]
  seen,      \* [Procs -> the tokens listed before removing them]
  lost,      \* [Procs -> the holder knows that it lost the lock]
  result,    \* [Procs -> what the holder reported]
  beside,    \* history: [Procs -> holders whose tenure overlapped]
  stalled,   \* history: a live holder's directory went stale
  reclaimed  \* history: a takeover directory was removed by another

vars == <<mode, dir, sidecar, pc, seen, lost, result, beside, stalled, reclaimed>>

Holding == {"in", "wrote"}
Idle == {"idle", "dead"}

Init ==
  /\ mode \in Modes
  /\ dir = None /\ sidecar = None
  /\ pc = [p \in Procs |-> "mkdir"]
  /\ seen = [p \in Procs |-> {}]
  /\ lost = [p \in Procs |-> FALSE]
  /\ result = [p \in Procs |-> "none"]
  /\ beside = [p \in Procs |-> {}]
  /\ stalled = FALSE /\ reclaimed = FALSE

Goto(p, l) == pc' = [pc EXCEPT ![p] = l]
Others == <<lost, result, beside, stalled, reclaimed>>

(* The holder enters its callback.                                          *)
Enter(p) ==
  /\ Goto(p, "in")
  /\ beside' = [q \in Procs |->
       IF q = p THEN {r \in Procs \ {p} : pc[r] \in Holding}
       ELSE IF pc[q] \in Holding THEN beside[q] \cup {p} ELSE beside[q]]

-----------------------------------------------------------------------------
(* Acquiring *)

(* An existing directory is looked at; an import that has just removed a     *)
(* stale one is refused when another contender was quicker.                 *)
Mkdir(p) ==
  /\ pc[p] \in {"mkdir", "mkdir-again"}
  /\ \/ /\ dir = None
        /\ dir' = [tokens |-> {}, stale |-> FALSE]
        /\ IF mode = "token" THEN Goto(p, "token") /\ beside' = beside
                             ELSE Enter(p)
     \/ /\ dir # None
        /\ Goto(p, IF pc[p] = "mkdir" THEN "stat" ELSE "idle")
        /\ UNCHANGED <<dir, beside>>
  /\ UNCHANGED <<mode, sidecar, seen, lost, result, stalled, reclaimed>>

(* Not stale: wait and try again, or give up after the timeout; an import   *)
(* is refused at once.                                                      *)
Stat(p) ==
  /\ pc[p] = "stat"
  /\ \/ dir # None /\ dir.stale /\ Goto(p, "take")
     \/ ~(dir # None /\ dir.stale) /\ mode # "import" /\ Goto(p, "mkdir")
     \/ (dir # None /\ dir.stale => mode # "import") /\ Goto(p, "idle")
  /\ UNCHANGED <<mode, dir, sidecar, seen>> /\ UNCHANGED Others

(* After a failed or a successful removal.                                  *)
Retry(p, removed) ==
  Goto(p, IF mode # "import" THEN "mkdir" ELSE IF removed THEN "mkdir-again" ELSE "idle")

(* removeIfStillStale: the takeover directory is made, or found; a stale    *)
(* one is removed, and the protocol starts again.                           *)
Take(p) ==
  /\ pc[p] = "take"
  /\ \/ /\ sidecar = None
        /\ sidecar' = [by |-> p, stale |-> FALSE]
        /\ Goto(p, "recheck")
     \/ /\ sidecar # None /\ sidecar.stale
        /\ Goto(p, "reclaim")
        /\ sidecar' = sidecar
     \/ /\ sidecar # None /\ ~sidecar.stale
        /\ Retry(p, FALSE)
        /\ sidecar' = sidecar
  /\ UNCHANGED <<mode, dir, seen>> /\ UNCHANGED Others

(* Checked, then deleted: whoever's takeover directory it is by now.        *)
Reclaim(p) ==
  /\ pc[p] = "reclaim"
  /\ sidecar' = None
  /\ reclaimed' = TRUE
  /\ Retry(p, FALSE)
  /\ UNCHANGED <<mode, dir, seen, lost, result, beside, stalled>>

(* The lock is looked at again.                                             *)
Recheck(p) ==
  /\ pc[p] = "recheck"
  /\ Goto(p, IF dir # None /\ dir.stale THEN "list" ELSE "untake")
  /\ UNCHANGED <<mode, dir, sidecar, seen>> /\ UNCHANGED Others

(* The tokens of the directory are listed, whosever it is by now.           *)
List(p) ==
  /\ pc[p] = "list"
  /\ IF dir # None
     THEN Goto(p, "unlink") /\ seen' = [seen EXCEPT ![p] = dir.tokens]
     ELSE Goto(p, "untake") /\ seen' = seen
  /\ UNCHANGED <<mode, dir, sidecar>> /\ UNCHANGED Others

(* The listed tokens are removed; a missing one ends the attempt.           *)
UnlinkTokens(p) ==
  /\ pc[p] = "unlink"
  /\ IF dir # None /\ seen[p] \subseteq dir.tokens
     THEN /\ Goto(p, "rmdir")
          /\ dir' = IF seen[p] = {} THEN dir
                    ELSE [tokens |-> dir.tokens \ seen[p], stale |-> FALSE]
     ELSE /\ Goto(p, "untake")
          /\ dir' = IF dir = None THEN None
                    ELSE [dir EXCEPT !.tokens = @ \ seen[p]]
  /\ seen' = [seen EXCEPT ![p] = {}]
  /\ UNCHANGED <<mode, sidecar>> /\ UNCHANGED Others

(* rmdir removes an empty directory only.                                   *)
Rmdir(p) ==
  /\ pc[p] = "rmdir"
  /\ dir' = IF dir # None /\ dir.tokens = {} THEN None ELSE dir
  /\ Goto(p, IF dir # None /\ dir.tokens = {} THEN "untake-removed" ELSE "untake")
  /\ UNCHANGED <<mode, sidecar, seen>> /\ UNCHANGED Others

(* The takeover directory is released by its name.                          *)
Untake(p) ==
  /\ pc[p] \in {"untake", "untake-removed"}
  /\ sidecar' = None
  /\ reclaimed' = (reclaimed \/ (sidecar # None /\ sidecar.by # p))
  /\ Retry(p, pc[p] = "untake-removed")
  /\ UNCHANGED <<mode, dir, seen, lost, result, beside, stalled>>

-----------------------------------------------------------------------------
(* The ownership token *)

(* Writing the token fails when the directory was taken meanwhile.          *)
WriteToken(p) ==
  /\ pc[p] = "token"
  /\ IF dir = None
     THEN Goto(p, "idle") /\ dir' = dir
     ELSE Goto(p, "readback")
          /\ dir' = [tokens |-> dir.tokens \cup {p}, stale |-> FALSE]
  /\ UNCHANGED <<mode, sidecar, seen>> /\ UNCHANGED Others

(* Another token in the directory: only the own one is withdrawn.           *)
ReadBack(p) ==
  /\ pc[p] = "readback"
  /\ \/ /\ dir = None
        /\ Goto(p, "idle") /\ UNCHANGED <<dir, beside>>
     \/ /\ dir # None /\ dir.tokens \ {p} # {}
        /\ dir' = [tokens |-> dir.tokens \ {p}, stale |-> FALSE]
        /\ Goto(p, "mkdir") /\ beside' = beside
     \/ /\ dir # None /\ dir.tokens \subseteq {p}
        /\ Enter(p) /\ dir' = dir
  /\ UNCHANGED <<mode, sidecar, seen, lost, result, stalled, reclaimed>>

Compromised(p) == lost[p] \/ dir = None \/ dir.tokens # {p}

(* A plausible error: only the directory's existence is asked for.          *)
existsOnly(p) ==
  IF mode = "token" THEN lost[p] \/ dir = None ELSE FALSE

(* assertNotCompromised; a plain holder asks nothing.                       *)
assertNotCompromised(p) == IF mode = "token" THEN Compromised(p) ELSE FALSE

-----------------------------------------------------------------------------
(* Holding and releasing *)

(* Before it publishes, a token holder asks; it fails closed.               *)
Publish(p) ==
  /\ pc[p] = "in"
  /\ lost' = [lost EXCEPT ![p] = assertNotCompromised(p)]
  /\ Goto(p, "wrote")
  /\ UNCHANGED <<mode, dir, sidecar, seen, result, beside, stalled, reclaimed>>

(* The timer touches whatever directory has the name; an absent one is a    *)
(* lost lock.                                                               *)
Touch(p) ==
  /\ pc[p] \in Holding
  /\ \/ dir = None /\ lost' = [lost EXCEPT ![p] = TRUE] /\ dir' = dir
     \/ dir # None /\ dir.stale /\ dir' = [dir EXCEPT !.stale = FALSE] /\ lost' = lost
  /\ UNCHANGED <<mode, sidecar, pc, seen, result, beside, stalled, reclaimed>>

(* The callback is over: a token holder asks once more and reports a lost   *)
(* lock instead of its result; only a lock still its own is released.       *)
Finish(p) ==
  /\ pc[p] = "wrote"
  /\ \E bad \in {lost[p] \/ assertNotCompromised(p)} :
       IF bad /\ mode = "token"
       THEN Goto(p, "idle") /\ result' = [result EXCEPT ![p] = "compromised"]
       ELSE /\ Goto(p, IF mode = "token" THEN "drop" ELSE "release")
            /\ result' = [result EXCEPT ![p] = "ok"]
  /\ UNCHANGED <<mode, dir, sidecar, seen, lost, beside, stalled, reclaimed>>

DropToken(p) ==
  /\ pc[p] = "drop"
  /\ IF dir # None /\ p \in dir.tokens
     THEN Goto(p, "release")
          /\ dir' = [tokens |-> dir.tokens \ {p}, stale |-> FALSE]
     ELSE Goto(p, "idle") /\ dir' = dir
  /\ UNCHANGED <<mode, sidecar, seen>> /\ UNCHANGED Others

(* rmdir by name: a plain holder may remove its successor's directory.      *)
Release(p) ==
  /\ pc[p] = "release"
  /\ dir' = IF dir # None /\ dir.tokens = {} THEN None ELSE dir
  /\ Goto(p, "idle")
  /\ UNCHANGED <<mode, sidecar, seen>> /\ UNCHANGED Others

-----------------------------------------------------------------------------
(* Time and death *)

GrowStale ==
  /\ dir # None /\ ~dir.stale
  /\ dir' = [dir EXCEPT !.stale = TRUE]
  /\ stalled' = (stalled \/ \E p \in Procs : pc[p] \in Holding \cup {"token", "readback", "drop", "release"})
  /\ UNCHANGED <<mode, sidecar, pc, seen, lost, result, beside, reclaimed>>

SidecarStale ==
  /\ sidecar # None /\ ~sidecar.stale
  /\ sidecar' = [sidecar EXCEPT !.stale = TRUE]
  /\ UNCHANGED <<mode, dir, pc, seen>> /\ UNCHANGED Others

Crash(p) ==
  /\ pc[p] \notin Idle
  /\ Goto(p, "dead")
  /\ UNCHANGED <<mode, dir, sidecar, seen>> /\ UNCHANGED Others

Next ==
  \/ \E p \in Procs :
       \/ Mkdir(p) \/ Stat(p) \/ Take(p) \/ Reclaim(p) \/ Recheck(p) \/ List(p)
       \/ UnlinkTokens(p) \/ Rmdir(p) \/ Untake(p)
       \/ WriteToken(p) \/ ReadBack(p)
       \/ Publish(p) \/ Touch(p) \/ Finish(p) \/ DropToken(p) \/ Release(p)
       \/ Crash(p)
  \/ GrowStale \/ SidecarStale

Spec == Init /\ [][Next]_vars

-----------------------------------------------------------------------------
(* Properties *)

(* Of two token holders whose tenures overlapped, because one stalled and   *)
(* was taken over, at most one reports success: the other fails closed with *)
(* a retryable error.                                                       *)
AtMostOneOk ==
  mode = "token" =>
    \A p \in Procs : \A q \in beside[p] : ~(result[p] = "ok" /\ result[q] = "ok")

(* As long as no live holder stalls beyond the staleness limit and no       *)
(* takeover directory is removed under its maker, dead holders included,    *)
(* every kind of lock excludes.                                             *)
ExcludesUnlessStalled ==
  ~stalled /\ ~reclaimed =>
    \A p, q \in Procs : pc[p] \in Holding /\ pc[q] \in Holding => p = q

\* Of two token holders whose tenures overlapped at most one reports success, and
\* while no live holder stalls beyond the limit every kind of lock excludes.
LocksExclude == AtMostOneOk /\ ExcludesUnlessStalled
=============================================================================
