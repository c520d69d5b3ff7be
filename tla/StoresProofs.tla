---------------------------- MODULE StoresProofs ----------------------------
(***************************************************************************)
(* What locks, keys and stores promise, for any number of contenders,      *)
(* terminals, builds, items and clients: the lock directories exclude, the *)
(* helper's authorizations are really granted and its anchors kept, and    *)
(* what a caller was told of its credential write is true.                 *)
(***************************************************************************)
EXTENDS MCStores, FiniteSetTheorems, TLAPS

-----------------------------------------------------------------------------
(* The lock directories *)

\* The places a process may be at.
Places == {"mkdir", "mkdir-again", "stat", "take", "reclaim", "recheck", "list", "unlink", "rmdir",
           "untake", "untake-removed", "token", "readback", "in", "wrote", "drop", "release",
           "idle", "dead"}

\* From a process's own mkdir to the end of its release; the holders of the takeover
\* directory; and those of them that are about to remove the lock.
Owning == {"in", "wrote", "token", "readback", "drop", "release"}
Taking == {"recheck", "list", "unlink", "rmdir", "untake", "untake-removed"}
Removing == {"list", "unlink", "rmdir"}

TypeInv ==
  /\ dir \in Dirs \cup {None}
  /\ sidecar \in Sidecars \cup {None}
  /\ pc \in [Procs -> Places]
  /\ seen \in [Procs -> SUBSET Procs]
  /\ result \in [Procs -> {"none", "ok", "compromised"}]
  /\ beside \in [Procs -> SUBSET Procs]

\* While nobody stalled and no takeover directory was reclaimed: the owner is one and
\* its directory is there and fresh, the taker is one, and what a taker is about to
\* remove is nobody's.
ExclusionInv ==
  ~stalled /\ ~reclaimed =>
    /\ \A p, q \in Procs : pc[p] \in Owning /\ pc[q] \in Owning => p = q
    /\ \A p \in Procs : pc[p] \in Owning => dir # None /\ ~dir.stale
    /\ \A p \in Procs : pc[p] \in Taking => sidecar # None /\ sidecar.by = p
    /\ \A p, q \in Procs : pc[p] \in Removing => dir # None /\ pc[q] \notin Owning

\* A holder whose token is gone can only report a lost lock: tokens are written before
\* the callback is entered, never afterwards.
Doomed(p) ==
  /\ pc[p] \in Holding \cup Idle
  /\ result[p] # "ok"
  /\ dir # None => p \notin dir.tokens

\* Nobody reports before its callback is over, and of two holders that met one is doomed.
OverlapInv ==
  mode = "token" =>
    /\ \A p \in Procs : result[p] = "ok" => pc[p] \in {"drop", "release"} \cup Idle
    /\ \A p \in Procs : \A q \in beside[p] : Doomed(p) \/ Doomed(q)

IInv == TypeInv /\ ExclusionInv /\ OverlapInv

-----------------------------------------------------------------------------
\* Nobody holds anything yet.
LEMMA InvInit == Init => IInv
  BY DEF Init, IInv, TypeInv, ExclusionInv, OverlapInv, Places, Holding, Owning, Taking, Removing

\* A directory that mkdir or a token's change leaves is fresh.
LEMMA FreshDir ==
  ASSUME NEW T \in SUBSET Procs
  PROVE  LET d == [tokens |-> T, stale |-> FALSE]
         IN  d \in Dirs /\ d # None /\ d.tokens = T /\ ~d.stale
<1>1. [tokens |-> T, stale |-> FALSE] \in Dirs
  BY DEF Dirs
<1> QED BY <1>1, NoneAssumption

\* So is a takeover directory just made.
LEMMA FreshSidecar ==
  ASSUME NEW p \in Procs
  PROVE  LET s == [by |-> p, stale |-> FALSE]
         IN  s \in Sidecars /\ s # None /\ s.by = p
<1>1. [by |-> p, stale |-> FALSE] \in Sidecars
  BY DEF Sidecars
<1> QED BY <1>1, NoneAssumption

\* What mkdir, the removal of a stale lock's tokens and the token's writes leave.
LEMMA DirAfter ==
  ASSUME TypeInv, NEW p \in Procs
  PROVE  /\ Mkdir(p) /\ dir = None => dir' \in Dirs /\ dir' # None /\ ~dir'.stale /\ dir'.tokens = {}
         /\ UnlinkTokens(p) /\ dir # None => dir' \in Dirs /\ dir' # None /\ dir'.tokens = dir.tokens \ seen[p]
         /\ WriteToken(p) /\ dir # None => dir' \in Dirs /\ dir' # None /\ ~dir'.stale /\ dir'.tokens = dir.tokens \cup {p}
         /\ ReadBack(p) /\ dir # None => dir' \in Dirs /\ dir' # None /\ dir'.tokens \subseteq dir.tokens
         /\ DropToken(p) /\ dir # None => dir' \in Dirs /\ dir' # None /\ dir'.tokens = dir.tokens \ {p}
<1>t. dir # None => dir \in Dirs /\ dir.tokens \in SUBSET Procs /\ dir.stale \in BOOLEAN
  BY DEF TypeInv, Dirs
<1>1. Mkdir(p) /\ dir = None => dir' = [tokens |-> {}, stale |-> FALSE]
  BY DEF Mkdir
<1>2. ASSUME UnlinkTokens(p), dir # None
      PROVE  dir' \in Dirs /\ dir' # None /\ dir'.tokens = dir.tokens \ seen[p]
  <2>1. CASE seen[p] \subseteq dir.tokens /\ seen[p] # {}
    BY <1>2, <1>t, <2>1, FreshDir DEF UnlinkTokens
  <2>2. CASE seen[p] = {}
    BY <1>2, <1>t, <2>2, NoneAssumption DEF UnlinkTokens, Dirs
  <2>3. CASE ~(seen[p] \subseteq dir.tokens)
    BY <1>2, <1>t, <2>3, NoneAssumption DEF UnlinkTokens, Dirs
  <2> QED BY <2>1, <2>2, <2>3
<1>3. WriteToken(p) /\ dir # None => dir' = [tokens |-> dir.tokens \cup {p}, stale |-> FALSE]
  BY DEF WriteToken
<1>4. ReadBack(p) /\ dir # None => dir' = dir \/ dir' = [tokens |-> dir.tokens \ {p}, stale |-> FALSE]
  BY DEF ReadBack
<1>5. DropToken(p) /\ dir # None =>
        \/ dir' = dir /\ p \notin dir.tokens
        \/ dir' = [tokens |-> dir.tokens \ {p}, stale |-> FALSE]
  BY DEF DropToken
<1> QED
  <2>1. {} \in SUBSET Procs
    OBVIOUS
  <2>2. dir # None => /\ dir.tokens \cup {p} \in SUBSET Procs
                      /\ dir.tokens \ {p} \in SUBSET Procs
    BY <1>t
  <2>3. Mkdir(p) /\ dir = None => dir' \in Dirs /\ dir' # None /\ ~dir'.stale /\ dir'.tokens = {}
    BY <1>1, <2>1, FreshDir
  <2>4. WriteToken(p) /\ dir # None => dir' \in Dirs /\ dir' # None /\ ~dir'.stale /\ dir'.tokens = dir.tokens \cup {p}
    BY <1>3, <2>2, FreshDir
  <2>5. ReadBack(p) /\ dir # None => dir' \in Dirs /\ dir' # None /\ dir'.tokens \subseteq dir.tokens
    BY <1>t, <1>4, <2>2, FreshDir
  <2>6. DropToken(p) /\ dir # None => dir' \in Dirs /\ dir' # None /\ dir'.tokens = dir.tokens \ {p}
    BY <1>t, <1>5, <2>2, FreshDir
  <2> QED BY <1>2, <2>3, <2>4, <2>5, <2>6

\* Every step keeps the places, tokens and reports in their sets.
LEMMA TypeStep ==
  ASSUME TypeInv, [Next]_vars
  PROVE  TypeInv'
<1> USE DEF TypeInv, Places, Goto, Others
<1>1. ASSUME NEW p \in Procs, Mkdir(p) PROVE TypeInv'
  BY <1>1, DirAfter DEF Mkdir, Enter, Holding
<1>2. ASSUME NEW p \in Procs, Stat(p) PROVE TypeInv'
  BY <1>2 DEF Stat
<1>3. ASSUME NEW p \in Procs, Take(p) PROVE TypeInv'
  BY <1>3, FreshSidecar DEF Take, Retry
<1>4. ASSUME NEW p \in Procs, Reclaim(p) PROVE TypeInv'
  BY <1>4 DEF Reclaim, Retry
<1>5. ASSUME NEW p \in Procs, Recheck(p) PROVE TypeInv'
  BY <1>5 DEF Recheck
<1>5a. ASSUME NEW p \in Procs, List(p) PROVE TypeInv'
  BY <1>5a DEF List, Dirs
<1>6. ASSUME NEW p \in Procs, UnlinkTokens(p) PROVE TypeInv'
  BY <1>6, DirAfter DEF UnlinkTokens
<1>7. ASSUME NEW p \in Procs, Rmdir(p) PROVE TypeInv'
  BY <1>7 DEF Rmdir
<1>8. ASSUME NEW p \in Procs, Untake(p) PROVE TypeInv'
  BY <1>8 DEF Untake, Retry
<1>9. ASSUME NEW p \in Procs, WriteToken(p) PROVE TypeInv'
  BY <1>9, DirAfter DEF WriteToken
<1>10. ASSUME NEW p \in Procs, ReadBack(p) PROVE TypeInv'
  BY <1>10, DirAfter DEF ReadBack, Enter, Holding
<1>11. ASSUME NEW p \in Procs, Publish(p) PROVE TypeInv'
  BY <1>11 DEF Publish, assertNotCompromised, Compromised
<1>12. ASSUME NEW p \in Procs, Touch(p) PROVE TypeInv'
  BY <1>12, NoneAssumption DEF Dirs, Touch
<1>13. ASSUME NEW p \in Procs, Finish(p) PROVE TypeInv'
  BY <1>13 DEF Finish
<1>14. ASSUME NEW p \in Procs, DropToken(p) PROVE TypeInv'
  BY <1>14, DirAfter DEF DropToken
<1>15. ASSUME NEW p \in Procs, Release(p) PROVE TypeInv'
  BY <1>15 DEF Release
<1>16. ASSUME NEW p \in Procs, Crash(p) PROVE TypeInv'
  BY <1>16 DEF Crash
<1>17. ASSUME GrowStale PROVE TypeInv'
  BY <1>17, NoneAssumption DEF Dirs, GrowStale
<1>18. ASSUME SidecarStale PROVE TypeInv'
  BY <1>18, NoneAssumption DEF Sidecars, SidecarStale
<1>19. ASSUME UNCHANGED vars PROVE TypeInv'
  BY <1>19 DEF vars
<1> QED BY <1>1, <1>2, <1>3, <1>4, <1>5, <1>5a, <1>6, <1>7, <1>8, <1>9, <1>10, <1>11, <1>12, <1>13,
           <1>14, <1>15, <1>16, <1>17, <1>18, <1>19 DEF Next

\* A new owner needs an absent directory, which owners and removers exclude; a remover
\* saw a stale one, which owners exclude.
LEMMA ExclusionStep ==
  ASSUME TypeInv, ExclusionInv, [Next]_vars
  PROVE  ExclusionInv'
<1> USE DEF TypeInv, Places, ExclusionInv, Owning, Taking, Removing, Goto, Others
<1>1. ASSUME NEW p \in Procs, Mkdir(p) PROVE ExclusionInv'
  BY <1>1, DirAfter DEF Mkdir, Enter
<1>2. ASSUME NEW p \in Procs, Stat(p) PROVE ExclusionInv'
  BY <1>2 DEF Stat
<1>3. ASSUME NEW p \in Procs, Take(p) PROVE ExclusionInv'
  BY <1>3, FreshSidecar DEF Take, Retry
<1>4. ASSUME NEW p \in Procs, Reclaim(p) PROVE ExclusionInv'
  BY <1>4 DEF Reclaim
<1>5. ASSUME NEW p \in Procs, Recheck(p) PROVE ExclusionInv'
  BY <1>5 DEF Recheck
<1>5a. ASSUME NEW p \in Procs, List(p) PROVE ExclusionInv'
  BY <1>5a DEF List
<1>6. ASSUME NEW p \in Procs, UnlinkTokens(p) PROVE ExclusionInv'
  <2>1. \E l \in {"rmdir", "untake"} : pc' = [pc EXCEPT ![p] = l]
    BY <1>6 DEF UnlinkTokens
  <2>2. dir # None => dir' # None
    BY <1>6, DirAfter
  <2>3. UNCHANGED <<sidecar, stalled, reclaimed>> /\ pc[p] = "unlink"
    BY <1>6 DEF UnlinkTokens
  <2> QED BY <2>1, <2>2, <2>3
<1>7. ASSUME NEW p \in Procs, Rmdir(p) PROVE ExclusionInv'
  BY <1>7 DEF Rmdir
<1>8. ASSUME NEW p \in Procs, Untake(p) PROVE ExclusionInv'
  BY <1>8 DEF Untake, Retry
<1>9. ASSUME NEW p \in Procs, WriteToken(p) PROVE ExclusionInv'
  BY <1>9, DirAfter DEF WriteToken
<1>10. ASSUME NEW p \in Procs, ReadBack(p) PROVE ExclusionInv'
  BY <1>10, DirAfter DEF ReadBack, Enter
<1>11. ASSUME NEW p \in Procs, Publish(p) PROVE ExclusionInv'
  BY <1>11 DEF Publish
<1>12. ASSUME NEW p \in Procs, Touch(p) PROVE ExclusionInv'
  BY <1>12, NoneAssumption DEF Dirs, Touch, Holding
<1>13. ASSUME NEW p \in Procs, Finish(p) PROVE ExclusionInv'
  BY <1>13 DEF Finish
<1>14. ASSUME NEW p \in Procs, DropToken(p) PROVE ExclusionInv'
  BY <1>14, DirAfter DEF DropToken
<1>15. ASSUME NEW p \in Procs, Release(p) PROVE ExclusionInv'
  BY <1>15 DEF Release
<1>16. ASSUME NEW p \in Procs, Crash(p) PROVE ExclusionInv'
  BY <1>16 DEF Crash
<1>17. ASSUME GrowStale PROVE ExclusionInv'
  BY <1>17, NoneAssumption DEF Dirs, GrowStale, Holding
<1>18. ASSUME SidecarStale PROVE ExclusionInv'
  BY <1>18, NoneAssumption DEF Sidecars, SidecarStale
<1>19. ASSUME UNCHANGED vars PROVE ExclusionInv'
  BY <1>19 DEF vars
<1> QED BY <1>1, <1>2, <1>3, <1>4, <1>5, <1>5a, <1>6, <1>7, <1>8, <1>9, <1>10, <1>11, <1>12, <1>13,
           <1>14, <1>15, <1>16, <1>17, <1>18, <1>19 DEF Next

\* Who enters found no other token, so that everybody already inside is doomed; and a
\* doomed holder stays doomed.
LEMMA OverlapStep ==
  ASSUME TypeInv, OverlapInv, [Next]_vars
  PROVE  OverlapInv'
<1> USE DEF TypeInv, Places, OverlapInv, Doomed, Holding, Idle, Goto, Others
<1>1. ASSUME NEW p \in Procs, Mkdir(p) PROVE OverlapInv'
  BY <1>1, DirAfter DEF Mkdir, Enter
<1>2. ASSUME NEW p \in Procs, Stat(p) PROVE OverlapInv'
  BY <1>2 DEF Stat
<1>3. ASSUME NEW p \in Procs, Take(p) PROVE OverlapInv'
  BY <1>3, FreshSidecar DEF Take, Retry
<1>4. ASSUME NEW p \in Procs, Reclaim(p) PROVE OverlapInv'
  BY <1>4 DEF Reclaim, Retry
<1>5. ASSUME NEW p \in Procs, Recheck(p) PROVE OverlapInv'
  BY <1>5 DEF Recheck
<1>5a. ASSUME NEW p \in Procs, List(p) PROVE OverlapInv'
  BY <1>5a DEF List
<1>6. ASSUME NEW p \in Procs, UnlinkTokens(p) PROVE OverlapInv'
  <2>1. \E l \in {"rmdir", "untake"} : pc' = [pc EXCEPT ![p] = l]
    BY <1>6 DEF UnlinkTokens
  <2>2. dir # None => dir'.tokens \subseteq dir.tokens
    BY <1>6, DirAfter
  <2>3. dir = None => dir' = None
    BY <1>6 DEF UnlinkTokens
  <2>4. UNCHANGED <<mode, result, beside>> /\ pc[p] = "unlink"
    BY <1>6 DEF UnlinkTokens
  <2> QED BY <2>1, <2>2, <2>3, <2>4
<1>7. ASSUME NEW p \in Procs, Rmdir(p) PROVE OverlapInv'
  BY <1>7 DEF Rmdir
<1>8. ASSUME NEW p \in Procs, Untake(p) PROVE OverlapInv'
  BY <1>8 DEF Untake, Retry
<1>9. ASSUME NEW p \in Procs, WriteToken(p) PROVE OverlapInv'
  BY <1>9, DirAfter DEF WriteToken
<1>10. ASSUME NEW p \in Procs, ReadBack(p) PROVE OverlapInv'
  <2>1. UNCHANGED <<mode, result>> /\ pc[p] = "readback" /\ (dir = None => dir' = None)
    BY <1>10 DEF ReadBack, Enter
  <2>2. dir # None => dir' # None /\ dir'.tokens \subseteq dir.tokens
    BY <1>10, DirAfter
  <2>3. CASE beside' = beside /\ \E l \in {"idle", "mkdir"} : pc' = [pc EXCEPT ![p] = l]
    BY <2>1, <2>2, <2>3
  <2>4. CASE dir # None /\ dir.tokens \subseteq {p} /\ dir' = dir /\ Enter(p)
    <3> SUFFICES ASSUME mode = "token" PROVE OverlapInv'
      BY <2>1
    <3>1. pc' = [pc EXCEPT ![p] = "in"]
      BY <2>4 DEF Enter
    <3>2. \A q \in Procs : q # p /\ pc[q] \in Holding => Doomed(q)'
      BY <2>1, <2>4, <3>1
    <3>3. \A q \in Procs : Doomed(q) => Doomed(q)'
      BY <2>1, <2>4, <3>1
    <3>4. \A q \in beside'[p] : Doomed(q)'
      BY <2>4, <3>2 DEF Enter
    <3>5. \A q \in Procs \ {p} : beside'[q] = beside[q] \/ (pc[q] \in Holding /\ beside'[q] = beside[q] \cup {p})
      BY <2>4 DEF Enter
    <3>6. result[p] # "ok"
      BY <2>1
    <3> QED BY <2>1, <3>1, <3>2, <3>3, <3>4, <3>5, <3>6
  <2> QED BY <1>10, <2>3, <2>4 DEF ReadBack
<1>11. ASSUME NEW p \in Procs, Publish(p) PROVE OverlapInv'
  BY <1>11 DEF Publish
<1>12. ASSUME NEW p \in Procs, Touch(p) PROVE OverlapInv'
  BY <1>12, NoneAssumption DEF Dirs, Touch
<1>13. ASSUME NEW p \in Procs, Finish(p) PROVE OverlapInv'
  <2> SUFFICES ASSUME mode = "token" PROVE OverlapInv'
    BY <1>13 DEF Finish
  <2>1. UNCHANGED <<mode, dir, beside>> /\ pc[p] = "wrote"
    BY <1>13 DEF Finish
  <2>2. CASE Compromised(p)
    <3>1. pc' = [pc EXCEPT ![p] = "idle"] /\ result' = [result EXCEPT ![p] = "compromised"]
      BY <1>13, <2>2 DEF Finish, assertNotCompromised
    <3> QED BY <2>1, <3>1
  <2>3. CASE ~Compromised(p)
    <3>1. pc' = [pc EXCEPT ![p] = "drop"] /\ result' = [result EXCEPT ![p] = "ok"]
      BY <1>13, <2>3 DEF Finish, assertNotCompromised, Compromised
    <3>2. ~Doomed(p)
      BY <2>3 DEF Compromised
    <3> QED BY <2>1, <3>1, <3>2
  <2> QED BY <2>2, <2>3
<1>14. ASSUME NEW p \in Procs, DropToken(p) PROVE OverlapInv'
  BY <1>14, DirAfter DEF DropToken
<1>15. ASSUME NEW p \in Procs, Release(p) PROVE OverlapInv'
  BY <1>15 DEF Release
<1>16. ASSUME NEW p \in Procs, Crash(p) PROVE OverlapInv'
  BY <1>16 DEF Crash
<1>17. ASSUME GrowStale PROVE OverlapInv'
  BY <1>17, NoneAssumption DEF Dirs, GrowStale
<1>18. ASSUME SidecarStale PROVE OverlapInv'
  BY <1>18, NoneAssumption DEF Sidecars, SidecarStale
<1>19. ASSUME UNCHANGED vars PROVE OverlapInv'
  BY <1>19 DEF vars
<1> QED BY <1>1, <1>2, <1>3, <1>4, <1>5, <1>5a, <1>6, <1>7, <1>8, <1>9, <1>10, <1>11, <1>12, <1>13,
           <1>14, <1>15, <1>16, <1>17, <1>18, <1>19 DEF Next

-----------------------------------------------------------------------------
\* Of two token holders whose tenures overlapped at most one reports success, and while
\* no live holder stalls beyond the limit every kind of lock excludes: withDirLock and
\* the Codex auth lock with any number of contenders, deaths and takeovers.
THEOREM LocksExcludeHolds == Spec => []LocksExclude
<1>1. Init => IInv
  BY InvInit
<1>2. IInv /\ [Next]_vars => IInv'
  BY TypeStep, ExclusionStep, OverlapStep DEF IInv
<1>3. IInv => LocksExclude
  BY DEF IInv, TypeInv, LocksExclude, AtMostOneOk, ExcludesUnlessStalled, ExclusionInv, OverlapInv,
         Doomed, Holding, Owning
<1> QED BY <1>1, <1>2, <1>3, PTL DEF Spec
-----------------------------------------------------------------------------
(* The helper: types *)

Matrix  == {"matrix", "check-launchd"}
Pins    == {Builds[b].id : b \in Nat} \cup {None}
JobPCs  == {"idle", "cases", "wait", "after", "bin", "pin", "probe", "readid", "read", "s24", "hash",
            "update", "gate", "sweep", "start", "live", "copy", "attest", "place", "publish", "done"}
Elsewhere == {"probe", "readid", "read", "s24", "hash", "update", "gate", "sweep", "start", "live",
              "copy", "attest", "place", "publish"}
Cmds    == Matrix \cup {"none", "authorize", "authorize cswap", "check-live", "install"}
Jobs    == [pc : JobPCs, cmd : Cmds, bin : Nat, ok : BOOLEAN, pin : Pins, at : Nat, ver : Nat,
            date : Nat, sha : Shas \cup {None}, out : {"none", "ok", "failed"}]
Configs == [pin : Pins, result : {"none", "ok", "failed"}, bin : Nat, readAt : BOOLEAN, readId : Pins, liveId : Pins,
            cswapAt : BOOLEAN]
Agents  == [st : {"none", "loaded", "cases", "ok", "failed"}, bin : Nat]

HelperType ==
  /\ helper \in Nat /\ cfg \in Configs
  /\ job \in [Terminals -> Jobs]
  /\ child \in [Terminals -> Agents]
  /\ items \in [DOMAIN Items -> SUBSET Pins]
  /\ cswap \in [Helper!cswapItems -> [ver : Nat, date : Nat]]

-----------------------------------------------------------------------------
(* The helper: the invariant *)

Granted(id) == \A i \in DOMAIN Items : id \in items[i]

\* A matrix that saw a pin runs the pinned helper.
Anchors(p) == job[p].cmd \in Matrix /\ job[p].pin # None => Helper!Id(job[p].bin) = job[p].pin

\* The command runs the helper, which may outlive it.
HelperRuns(p) == \/ job[p].pc \in {"hash", "update"}
                 \/ job[p].pc = "probe" /\ job[p].at \in DOMAIN Items

\* A one-shot agent exists only while its parent waits or after it failed, and a green one has
\* left nothing; nor has a matrix that goes on to record its identity.
Cleans(p) ==
  /\ child[p].st # "none" =>
       /\ job[p].cmd = "check-launchd"
       /\ job[p].pc = "wait" \/ (job[p].pc = "done" /\ job[p].out = "failed")
  /\ child[p].st = "ok" => p \notin disp
  /\ job[p].out # "none" => job[p].pc = "done" \/ (job[p].out = "failed" /\ HelperRuns(p))
  /\ job[p].pc \in {"cases", "wait", "after", "bin"} => job[p].cmd \in Matrix
  /\ job[p].pc \in Elsewhere => job[p].cmd \notin Matrix
  /\ job[p].pc = "after" /\ job[p].ok => p \notin disp
  /\ job[p].cmd \in Matrix /\ (job[p].pc \in {"bin", "pin"} \/ job[p].out = "ok") => p \notin disp

\* What a probe has read so far, and what a live check is based on.
Grants(p) ==
  /\ job[p].pc = "probe" => \A i \in DOMAIN Items : i < job[p].at => Helper!Id(job[p].bin) \in items[i]
  /\ job[p].pc = "readid" => Granted(Helper!Id(job[p].bin))
  /\ job[p].pc = "gate" => job[p].pin # None
  /\ job[p].pc \in {"sweep", "start", "live"} => Granted(job[p].pin)

Rewrites(p) == job[p].pc \in {"s24", "hash", "update"} => job[p].at \in Helper!cswapItems

Recorded == /\ cfg.readId # None => Granted(cfg.readId)
            /\ cfg.liveId # None => Granted(cfg.liveId)

Job(p) == Anchors(p) /\ Cleans(p) /\ Grants(p) /\ Rewrites(p)
HelperInv == HelperType /\ Recorded /\ \A p \in Terminals : Job(p)

LEMMA NoJobType == /\ Helper!NoJob \in Jobs /\ Helper!NoChild \in Agents
                   /\ Helper!NoJob.pc = "idle" /\ Helper!NoJob.cmd = "none" /\ Helper!NoJob.pin = None
                   /\ Helper!NoJob.out = "none" /\ Helper!NoJob.ok = FALSE
                   /\ Helper!NoChild.st = "none"
<1>1. None \in Pins
  BY DEF Pins
<1> QED BY <1>1 DEF Helper!NoJob, Helper!NoChild, Jobs, JobPCs, Cmds, Agents

LEMMA InitHelper == Helper!Init => HelperInv
<1> SUFFICES ASSUME Helper!Init PROVE HelperInv
  OBVIOUS
<1>1. job = [p \in Terminals |-> Helper!NoJob] /\ child = [p \in Terminals |-> Helper!NoChild] /\ disp = {}
  BY DEF Helper!Init
<1>2. cfg \in Configs /\ cfg.readId = None /\ cfg.liveId = None
  <2>1. None \in Pins
    BY DEF Pins
  <2> QED BY <2>1 DEF Helper!Init, Configs
<1>3. items \in [DOMAIN Items -> SUBSET Pins]
  BY DEF Helper!Init
<1>4. cswap \in [Helper!cswapItems -> [ver : Nat, date : Nat]]
  BY DEF Helper!Init
<1>5. HelperType
  BY <1>1, <1>2, <1>3, <1>4, NoJobType DEF Helper!Init, HelperType
<1>6. ASSUME NEW p \in Terminals PROVE Job(p)
  BY <1>1, NoJobType DEF Job, Anchors, Cleans, HelperRuns, Elsewhere, Grants, Rewrites, Matrix
<1> QED BY <1>2, <1>5, <1>6 DEF HelperInv, Recorded

-----------------------------------------------------------------------------
(* The helper: how a step of one run leaves the others *)

LEMMA IdIsPin == ASSUME NEW b \in Nat PROVE Helper!Id(b) \in Pins
  BY DEF Helper!Id, Pins

\* A command's first job, its end and its next step.
LEMMA StartedType ==
  ASSUME NEW cmd \in Cmds, NEW l \in JobPCs
  PROVE  LET j == Helper!Started(cmd, l)
         IN  j \in Jobs /\ j.pc = l /\ j.cmd = cmd /\ j.pin = None /\ j.out = "none" /\ j.ok = FALSE
  BY NoJobType DEF Helper!Started, Jobs, JobPCs

LEMMA EndedType ==
  ASSUME HelperType, NEW p \in Terminals, NEW cmd \in Cmds, NEW out \in {"ok", "failed"},
         Helper!StartsAndEnds(p, cmd, out)
  PROVE  /\ job' \in [Terminals -> Jobs] /\ \A q \in Terminals \ {p} : job'[q] = job[q]
         /\ job'[p].pc = "done" /\ job'[p].cmd = cmd /\ job'[p].pin = None /\ job'[p].out = out
<1>1. "done" \in JobPCs
  BY DEF JobPCs
<1> DEFINE s == Helper!Started(cmd, "done")
           j == [s EXCEPT !.out = out]
<1>2. job' = [job EXCEPT ![p] = j]
  BY DEF Helper!StartsAndEnds
<1>3. s \in Jobs /\ s.pc = "done" /\ s.cmd = cmd /\ s.pin = None
  BY <1>1, StartedType
<1> HIDE DEF s
<1>4. j \in Jobs /\ j.pc = "done" /\ j.cmd = cmd /\ j.pin = None /\ j.out = out
  BY <1>3 DEF Jobs
<1> HIDE DEF j
<1> QED BY <1>2, <1>4 DEF HelperType

LEMMA EndsType ==
  ASSUME HelperType, NEW p \in Terminals, NEW out \in {"ok", "failed"}, Helper!Ends(p, out)
  PROVE  /\ job' \in [Terminals -> Jobs] /\ \A q \in Terminals \ {p} : job'[q] = job[q]
         /\ job'[p].pc = "done" /\ job'[p].cmd = job[p].cmd /\ job'[p].pin = None /\ job'[p].out = out
<1>1. job[p].cmd \in Cmds
  BY DEF HelperType, Jobs
<1> QED BY <1>1, EndedType DEF Helper!Ends

LEMMA GotoType ==
  ASSUME HelperType, NEW p \in Terminals, NEW l \in JobPCs, Helper!Goto(p, l)
  PROVE  /\ job' \in [Terminals -> Jobs] /\ \A q \in Terminals \ {p} : job'[q] = job[q]
         /\ job'[p] = [job[p] EXCEPT !.pc = l] /\ job'[p].pc = l
         /\ job'[p].cmd = job[p].cmd /\ job'[p].bin = job[p].bin /\ job'[p].pin = job[p].pin
         /\ job'[p].at = job[p].at /\ job'[p].out = job[p].out /\ job'[p].ok = job[p].ok
  BY DEF HelperType, Jobs, Helper!Goto

\* The cases of p's matrix are over.
LEMMA CasesOver ==
  ASSUME HelperType, NEW p \in Terminals, NEW ok \in BOOLEAN,
         job' = [job EXCEPT ![p].pc = "after", ![p].ok = ok]
  PROVE  /\ job' \in [Terminals -> Jobs] /\ \A q \in Terminals \ {p} : job'[q] = job[q]
         /\ job'[p].pc = "after" /\ job'[p].cmd = job[p].cmd /\ job'[p].bin = job[p].bin
         /\ job'[p].pin = job[p].pin /\ job'[p].out = job[p].out /\ job'[p].ok = ok
<1> DEFINE j == [job[p] EXCEPT !.pc = "after", !.ok = ok]
<1>1. job' = [job EXCEPT ![p] = j] /\ job[p] \in Jobs
  BY DEF HelperType
<1>2. /\ j \in Jobs /\ j.pc = "after" /\ j.cmd = job[p].cmd /\ j.bin = job[p].bin /\ j.pin = job[p].pin
      /\ j.out = job[p].out /\ j.ok = ok
  <2>1. "after" \in JobPCs
    BY DEF JobPCs
  <2> QED BY <1>1, <2>1 DEF Jobs
<1> HIDE DEF j
<1> QED BY <1>1, <1>2 DEF HelperType

\* Items are only read by more identities.
Grow == \A i \in DOMAIN Items : items[i] \subseteq items'[i]

LEMMA OthersKeep ==
  ASSUME HelperInv, NEW p \in Terminals, Grow, job' \in [Terminals -> Jobs],
         \A q \in Terminals \ {p} : /\ job'[q] = job[q] /\ child'[q] = child[q]
                                    /\ q \in disp' => q \in disp
  PROVE  \A q \in Terminals \ {p} : Job(q)'
<1> TAKE q \in Terminals \ {p}
<1>1. Job(q) /\ job'[q] = job[q] /\ child'[q] = child[q] /\ (q \in disp' => q \in disp)
  BY DEF HelperInv
<1>2. \A id : Granted(id) => Granted(id)'
  BY DEF Granted, Grow
<1>3. Anchors(q)' /\ Cleans(q)' /\ Rewrites(q)'
  BY <1>1 DEF Job, Anchors, Cleans, HelperRuns, Elsewhere, Rewrites, Helper!Id
<1>4. Grants(q)'
  BY <1>1, <1>2 DEF Job, Grants, Helper!Id, Grow
<1> QED BY <1>3, <1>4 DEF Job

\* A step of p that ends its command, or goes on without touching agents and items.
LEMMA EndKeeps ==
  ASSUME HelperInv, NEW p \in Terminals, NEW out \in {"ok", "failed"}, Helper!Ends(p, out),
         child' = child \/ child'[p].st \in {"none"}, child' \in [Terminals -> Agents],
         \A q \in Terminals \ {p} : child'[q] = child[q],
         \A q \in Terminals : q \in disp' => q \in disp,
         items' = items, out = "ok" => job[p].cmd \notin Matrix \/ (job[p].pc = "pin" /\ job[p].cmd \in Matrix)
  PROVE  job' \in [Terminals -> Jobs] /\ \A q \in Terminals : Job(q)'
<1>1. /\ job' \in [Terminals -> Jobs] /\ \A q \in Terminals \ {p} : job'[q] = job[q]
      /\ job'[p].pc = "done" /\ job'[p].cmd = job[p].cmd /\ job'[p].pin = None /\ job'[p].out = out
  BY EndsType DEF HelperInv
<1>2. Job(p) /\ Grow
  BY DEF HelperInv, Grow
<1>3. Cleans(p)'
  BY <1>1, <1>2 DEF Job, Cleans, HelperRuns, Elsewhere, Matrix
<1>4. Anchors(p)' /\ Grants(p)' /\ Rewrites(p)'
  BY <1>1 DEF Anchors, Grants, Rewrites
<1>5. \A q \in Terminals \ {p} : Job(q)'
  BY <1>1, <1>2, OthersKeep
<1> QED BY <1>1, <1>3, <1>4, <1>5 DEF Job

\* A configuration row that is no identity of a reader changes.
LEMMA OtherRows ==
  ASSUME HelperType, NEW r \in {"none", "ok", "failed"}, NEW b \in Nat, NEW i \in Pins,
         \/ cfg' \in {cfg, [cfg EXCEPT !.result = r]}
         \/ cfg' = [cfg EXCEPT !.bin = b]
         \/ cfg' = [cfg EXCEPT !.pin = i]
         \/ cfg' = [cfg EXCEPT !.readAt = TRUE]
         \/ cfg' = [cfg EXCEPT !.cswapAt = TRUE]
         \/ cfg' = cfg
  PROVE  cfg' \in Configs /\ cfg'.readId = cfg.readId /\ cfg'.liveId = cfg.liveId
  BY DEF HelperType, Configs

LEMMA RecordedKept ==
  ASSUME HelperInv, cfg'.readId = cfg.readId, cfg'.liveId = cfg.liveId, Grow
  PROVE  Recorded'
  BY DEF HelperInv, Recorded, Granted, Grow

\* What is left to show of a step that ends p's command.
LEMMA EndStep ==
  ASSUME HelperInv, NEW p \in Terminals, NEW out \in {"ok", "failed"}, Helper!Ends(p, out),
         child' = child \/ child'[p].st \in {"none"}, child' \in [Terminals -> Agents],
         \A q \in Terminals \ {p} : child'[q] = child[q],
         \A q \in Terminals : q \in disp' => q \in disp,
         UNCHANGED <<helper, items, cswap>>,
         cfg' \in Configs, cfg'.readId = cfg.readId, cfg'.liveId = cfg.liveId,
         out = "ok" => job[p].cmd \notin Matrix \/ (job[p].pc = "pin" /\ job[p].cmd \in Matrix)
  PROVE  HelperInv'
<1>1. job' \in [Terminals -> Jobs] /\ \A q \in Terminals : Job(q)'
  BY EndKeeps
<1>2. Grow
  BY DEF Grow
<1>3. HelperType'
  BY <1>1 DEF HelperInv, HelperType, Helper!cswapItems
<1> QED BY <1>1, <1>2, <1>3, RecordedKept DEF HelperInv

\* What is left to show of a step that moves p on and touches no item.
LEMMA MoveStep ==
  ASSUME HelperInv, NEW p \in Terminals, job' \in [Terminals -> Jobs], child' \in [Terminals -> Agents],
         \A q \in Terminals \ {p} : /\ job'[q] = job[q] /\ child'[q] = child[q]
                                    /\ q \in disp' => q \in disp,
         UNCHANGED <<helper, items, cswap>>,
         cfg' \in Configs, cfg'.readId = cfg.readId, cfg'.liveId = cfg.liveId,
         Job(p)'
  PROVE  HelperInv'
<1>1. Grow
  BY DEF Grow
<1>2. \A q \in Terminals : Job(q)'
  BY <1>1, OthersKeep
<1>3. HelperType'
  BY DEF HelperInv, HelperType, Helper!cswapItems
<1> QED BY <1>1, <1>2, <1>3, RecordedKept DEF HelperInv

-----------------------------------------------------------------------------
(* The helper: the matrix *)

LEMMA PinTrusted ==
  ASSUME HelperType, Helper!trustedSigning(helper)
  PROVE  cfg.pin \in Pins /\ (cfg.pin # None => Helper!Id(helper) = cfg.pin)
  BY DEF HelperType, Configs, Helper!trustedSigning

LEMMA CheckBeginStep ==
  ASSUME HelperInv, NEW p \in Terminals, NEW cmd, Helper!CheckBegin(p, cmd)
  PROVE  HelperInv'
<1>1. HelperType /\ Job(p) /\ job[p].pc = "idle" /\ cmd \in Matrix /\ cmd \in Cmds
  BY DEF HelperInv, Helper!CheckBegin, Helper!MayRun, Matrix, Cmds
<1>2. child[p].st = "none" /\ child \in [Terminals -> Agents] /\ helper \in Nat
  BY <1>1 DEF HelperType, Job, Cleans
<1>3. UNCHANGED <<helper, agent, items, cswap, app, current>>
  BY DEF Helper!CheckBegin
<1>4. CASE Helper!helperMatrixConfig /\ Helper!StartsAndEnds(p, cmd, "failed") /\ UNCHANGED <<child, disp>>
  <2>1. /\ job' \in [Terminals -> Jobs] /\ \A q \in Terminals \ {p} : job'[q] = job[q]
        /\ job'[p].pc = "done" /\ job'[p].cmd = cmd /\ job'[p].pin = None /\ job'[p].out = "failed"
    BY <1>1, <1>4, EndedType
  <2>2. cfg' \in Configs /\ cfg'.readId = cfg.readId /\ cfg'.liveId = cfg.liveId
    BY <1>1, <1>4, OtherRows, 0 \in Nat, None \in Pins DEF Helper!helperMatrixConfig, Pins
  <2>3. Job(p)'
    BY <1>2, <1>4, <2>1 DEF Job, Anchors, Cleans, HelperRuns, Elsewhere, Grants, Rewrites
  <2> QED BY <1>2, <1>3, <1>4, <2>1, <2>2, <2>3, MoveStep
<1>5. ASSUME NEW l \in {"cases", "wait"}, Helper!trustedSigning(helper), cfg' = cfg,
             job' = [job EXCEPT ![p] = [Helper!Started(cmd, l) EXCEPT !.bin = helper, !.pin = cfg.pin]],
             child' \in [Terminals -> Agents], \A q \in Terminals \ {p} : child'[q] = child[q],
             \A q \in Terminals \ {p} : q \in disp' => q \in disp,
             child'[p].st = "none" \/ (l = "wait" /\ cmd = "check-launchd" /\ child'[p].st = "loaded")
      PROVE  HelperInv'
  <2> DEFINE s == Helper!Started(cmd, l)
             j == [s EXCEPT !.bin = helper, !.pin = cfg.pin]
  <2>1. l \in JobPCs
    BY <1>5 DEF JobPCs
  <2>2. s \in Jobs /\ s.pc = l /\ s.cmd = cmd /\ s.pin = None /\ s.out = "none" /\ s.ok = FALSE
    BY <1>1, <2>1, StartedType
  <2>3. job' = [job EXCEPT ![p] = j]
    BY <1>5
  <2>4. cfg.pin \in Pins /\ (cfg.pin # None => Helper!Id(helper) = cfg.pin)
    BY <1>1, <1>5, PinTrusted
  <2> HIDE DEF s
  <2>5. j \in Jobs /\ j.pc = l /\ j.cmd = cmd /\ j.pin = cfg.pin /\ j.bin = helper /\ j.out = "none" /\ j.ok = FALSE
    BY <1>2, <2>2, <2>4 DEF Jobs
  <2> HIDE DEF j
  <2>6. job' \in [Terminals -> Jobs] /\ job'[p] = j /\ \A q \in Terminals \ {p} : job'[q] = job[q]
    BY <1>1, <2>3, <2>5 DEF HelperType
  <2>7. Job(p)'
    BY <1>1, <1>5, <2>4, <2>5, <2>6 DEF Job, Anchors, Cleans, HelperRuns, Elsewhere, Grants, Rewrites, Helper!Id
  <2>8. cfg' \in Configs
    BY <1>1, <1>5 DEF HelperType
  <2> QED BY <1>3, <1>5, <2>6, <2>7, <2>8, MoveStep
<1>6. CASE /\ Helper!trustedSigning(helper) /\ cmd = "matrix"
           /\ job' = [job EXCEPT ![p] = [Helper!Started(cmd, "cases") EXCEPT !.bin = helper, !.pin = cfg.pin]]
           /\ disp' = disp \cup {p} /\ UNCHANGED <<cfg, child>>
  <2>1. child' = child /\ child'[p].st = "none" /\ \A q \in Terminals \ {p} : q \in disp' => q \in disp
    BY <1>2, <1>6
  <2> QED BY <1>2, <1>5, <1>6, <2>1
<1>7. CASE /\ Helper!trustedSigning(helper) /\ cmd = "check-launchd"
           /\ job' = [job EXCEPT ![p] = [Helper!Started(cmd, "wait") EXCEPT !.bin = helper, !.pin = cfg.pin]]
           /\ child' = [child EXCEPT ![p].st = "loaded"] /\ UNCHANGED <<cfg, disp>>
  <2>1. child' \in [Terminals -> Agents] /\ child'[p].st = "loaded" /\ \A q \in Terminals \ {p} : child'[q] = child[q]
    BY <1>2, <1>7 DEF Agents
  <2> QED BY <1>2, <1>5, <1>7, <2>1
<1> QED BY <1>4, <1>6, <1>7 DEF Helper!CheckBegin

LEMMA MatrixEndsStep == ASSUME HelperInv, NEW p \in Terminals, Helper!MatrixEnds(p) PROVE HelperInv'
<1>1. HelperType /\ Job(p) /\ job[p].pc = "cases" /\ UNCHANGED <<helper, cfg, child, agent, items, cswap, app, current>>
  BY DEF HelperInv, Helper!MatrixEnds
<1>2. PICK ok \in BOOLEAN : /\ Helper!runHelperMatrix(p, ok)
                            /\ job' = [job EXCEPT ![p].pc = "after", ![p].ok = ok]
  BY DEF Helper!MatrixEnds
<1>3. (ok => p \notin disp') /\ \A q \in Terminals \ {p} : q \in disp' => q \in disp
  BY <1>2 DEF Helper!runHelperMatrix
<1>4. /\ job' \in [Terminals -> Jobs] /\ \A q \in Terminals \ {p} : job'[q] = job[q]
      /\ job'[p].pc = "after" /\ job'[p].cmd = job[p].cmd /\ job'[p].bin = job[p].bin /\ job'[p].pin = job[p].pin
      /\ job'[p].out = job[p].out /\ job'[p].ok = ok
  BY <1>1, <1>2, CasesOver
<1>5. job[p].cmd \in Matrix
  BY <1>1 DEF Job, Cleans, HelperRuns, Elsewhere
<1>6. Job(p)'
  BY <1>1, <1>3, <1>4, <1>5 DEF Job, Anchors, Cleans, HelperRuns, Elsewhere, Grants, Rewrites, Helper!Id
<1>7. child' \in [Terminals -> Agents] /\ cfg' \in Configs /\ cfg'.readId = cfg.readId /\ cfg'.liveId = cfg.liveId
  BY <1>1 DEF HelperType
<1> QED BY <1>1, <1>3, <1>4, <1>6, <1>7, MoveStep

LEMMA ChildStep == ASSUME HelperInv, NEW p \in Terminals, Helper!ChildBegin(p) \/ Helper!ChildEnds(p) PROVE HelperInv'
<1>1. HelperType /\ Job(p) /\ UNCHANGED <<helper, cfg, job, agent, items, cswap, app, current>>
  BY DEF HelperInv, Helper!ChildBegin, Helper!ChildEnds
<1>2. cfg' \in Configs /\ cfg'.readId = cfg.readId /\ cfg'.liveId = cfg.liveId /\ job' \in [Terminals -> Jobs]
  BY <1>1 DEF HelperType
<1>3. Anchors(p)' /\ Grants(p)' /\ Rewrites(p)'
  BY <1>1 DEF Job, Anchors, Grants, Granted, Rewrites, Helper!Id, Helper!cswapItems
<1>4. CASE Helper!ChildBegin(p)
  <2>1. /\ child' \in [Terminals -> Agents] /\ child'[p].st \in {"cases", "failed"}
        /\ \A q \in Terminals \ {p} : child'[q] = child[q] /\ (q \in disp' => q \in disp)
    BY <1>1, <1>4 DEF Helper!ChildBegin, HelperType, Agents
  <2>2. child[p].st = "loaded"
    BY <1>4 DEF Helper!ChildBegin
  <2>3. Cleans(p)'
    BY <1>1, <2>1, <2>2 DEF Job, Cleans, HelperRuns, Elsewhere
  <2> QED BY <1>1, <1>2, <1>3, <2>1, <2>3, MoveStep DEF Job
<1>5. CASE Helper!ChildEnds(p)
  <2>1. PICK ok \in BOOLEAN :
          /\ Helper!runHelperMatrix(p, ok)
          /\ child' = [child EXCEPT ![p] = [Helper!NoChild EXCEPT !.st =
               IF job[p].pc # "wait" THEN "none"
               ELSE IF ok /\ helper = child[p].bin THEN "ok" ELSE "failed"]]
    BY <1>5 DEF Helper!ChildEnds
  <2>2. (ok => p \notin disp') /\ \A q \in Terminals \ {p} : q \in disp' => q \in disp
    BY <2>1 DEF Helper!runHelperMatrix
  <2> DEFINE s == IF job[p].pc # "wait" THEN "none"
                  ELSE IF ok /\ helper = child[p].bin THEN "ok" ELSE "failed"
  <2>3. child' = [child EXCEPT ![p] = [Helper!NoChild EXCEPT !.st = s]]
    BY <2>1
  <2>4. s \in {"none", "ok", "failed"} /\ (s # "none" => job[p].pc = "wait") /\ (s = "ok" => ok)
    OBVIOUS
  <2> HIDE DEF s
  <2>5. /\ child' \in [Terminals -> Agents] /\ child'[p].st = s
        /\ \A q \in Terminals \ {p} : child'[q] = child[q]
    BY <1>1, <2>3, <2>4 DEF HelperType, Helper!NoChild, Agents
  <2>6. child[p].st = "cases"
    BY <1>5 DEF Helper!ChildEnds
  <2>7. Cleans(p)'
    BY <1>1, <2>2, <2>4, <2>5, <2>6 DEF Job, Cleans, HelperRuns, Elsewhere
  <2> QED BY <1>1, <1>2, <1>3, <2>2, <2>5, <2>7, MoveStep DEF Job
<1> QED BY <1>4, <1>5

LEMMA NoChildKeeps ==
  ASSUME HelperType, NEW p \in Terminals, child' = [child EXCEPT ![p] = Helper!NoChild]
  PROVE  /\ child' \in [Terminals -> Agents] /\ child'[p].st = "none"
         /\ \A q \in Terminals \ {p} : child'[q] = child[q]
  BY NoJobType DEF HelperType

LEMMA FailedRow ==
  ASSUME HelperType, Helper!helperMatrixConfig
  PROVE  cfg' \in Configs /\ cfg'.readId = cfg.readId /\ cfg'.liveId = cfg.liveId
  BY OtherRows, 0 \in Nat, None \in Pins DEF Helper!helperMatrixConfig, Pins

LEMMA ReceiptSteps ==
  ASSUME HelperInv, NEW p \in Terminals,
         Helper!ReadReceipt(p) \/ Helper!ReadRedReceipt(p) \/ Helper!MatrixTimeout(p)
  PROVE  HelperInv'
<1>1. HelperType /\ Job(p) /\ child \in [Terminals -> Agents] /\ job[p].pc = "wait"
  BY DEF HelperInv, HelperType, Helper!ReadReceipt, Helper!ReadRedReceipt, Helper!MatrixTimeout
<1>2. CASE Helper!ReadReceipt(p)
  <2>1. /\ UNCHANGED <<helper, cfg, disp, agent, items, cswap, app, current>>
        /\ job' = [job EXCEPT ![p].pc = "after", ![p].ok = TRUE]
        /\ child[p].st = "ok" /\ child' = [child EXCEPT ![p] = Helper!NoChild]
    BY <1>2 DEF Helper!ReadReceipt
  <2>2. /\ job' \in [Terminals -> Jobs] /\ \A q \in Terminals \ {p} : job'[q] = job[q]
        /\ job'[p].pc = "after" /\ job'[p].cmd = job[p].cmd /\ job'[p].bin = job[p].bin /\ job'[p].pin = job[p].pin
        /\ job'[p].out = job[p].out /\ job'[p].ok = TRUE
    BY <1>1, <2>1, CasesOver
  <2>3. Job(p)'
    BY <1>1, <2>1, <2>2, NoChildKeeps DEF Job, Anchors, Cleans, HelperRuns, Elsewhere, Grants, Rewrites, Helper!Id
  <2>4. cfg' \in Configs /\ cfg'.readId = cfg.readId /\ cfg'.liveId = cfg.liveId
    BY <1>1, <2>1 DEF HelperType
  <2> QED BY <1>1, <2>1, <2>2, <2>3, <2>4, NoChildKeeps, MoveStep
<1>3. CASE Helper!ReadRedReceipt(p) \/ Helper!MatrixTimeout(p)
  <2>1. /\ UNCHANGED <<helper, agent, items, cswap, app, current>> /\ Helper!MatrixFailed(p)
        /\ child' = [child EXCEPT ![p] = Helper!NoChild] \/ child' = child
        /\ \A q \in Terminals : q \in disp' => q \in disp
    BY <1>3 DEF Helper!ReadRedReceipt, Helper!MatrixTimeout
  <2>2. child' \in [Terminals -> Agents] /\ (child' = child \/ child'[p].st = "none")
        /\ \A q \in Terminals \ {p} : child'[q] = child[q]
    BY <1>1, <2>1, NoChildKeeps
  <2> QED BY <1>1, <2>1, <2>2, EndStep, FailedRow DEF Helper!MatrixFailed
<1> QED BY <1>2, <1>3

\* After a green matrix the identity is recorded, or a row fails.
LEMMA RecordSteps ==
  ASSUME HelperInv, NEW p \in Terminals, Helper!CheckAfter(p) \/ Helper!writeMatrixConfig(p)
  PROVE  HelperInv'
<1>1. HelperType /\ Job(p) /\ UNCHANGED <<helper, child, disp, agent, items, cswap, app, current>>
  BY DEF HelperInv, Helper!CheckAfter, Helper!writeMatrixConfig
<1>2. child' \in [Terminals -> Agents] /\ job[p].bin \in Nat /\ Helper!Id(job[p].bin) \in Pins
  BY <1>1, IdIsPin DEF HelperType, Jobs
<1>3. CASE Helper!MatrixFailed(p)
  BY <1>1, <1>2, <1>3, EndStep, FailedRow DEF Helper!MatrixFailed
<1>4. ASSUME NEW l \in {"bin", "pin"}, Helper!Goto(p, l), job[p].cmd \in Matrix,
             job[p].pc = "bin" \/ (job[p].pc = "after" /\ job[p].ok),
             cfg' = [cfg EXCEPT !.result = "ok"] \/ cfg' = [cfg EXCEPT !.bin = job[p].bin]
      PROVE  HelperInv'
  <2>1. l \in JobPCs
    BY DEF JobPCs
  <2>2. /\ job' \in [Terminals -> Jobs] /\ \A q \in Terminals \ {p} : job'[q] = job[q]
        /\ job'[p].pc = l /\ job'[p].cmd = job[p].cmd /\ job'[p].bin = job[p].bin /\ job'[p].pin = job[p].pin
        /\ job'[p].at = job[p].at /\ job'[p].out = job[p].out
    BY <1>1, <1>4, <2>1, GotoType
  <2>3. Job(p)'
    BY <1>1, <1>4, <2>2 DEF Job, Anchors, Cleans, HelperRuns, Elsewhere, Grants, Rewrites, Helper!Id
  <2>4. cfg' \in Configs /\ cfg'.readId = cfg.readId /\ cfg'.liveId = cfg.liveId
    BY <1>1, <1>2, <1>4, OtherRows
  <2> QED BY <1>1, <1>2, <2>2, <2>3, <2>4, MoveStep
<1>5. CASE Helper!CheckAfter(p)
  <2>1. job[p].cmd \in Matrix
    BY <1>1, <1>5 DEF Job, Cleans, HelperRuns, Elsewhere, Helper!CheckAfter
  <2> QED BY <1>3, <1>4, <1>5, <2>1 DEF Helper!CheckAfter
<1>6. CASE Helper!writeMatrixConfig(p)
  <2>1. job[p].cmd \in Matrix
    BY <1>6 DEF Helper!writeMatrixConfig, Matrix
  <2>2. CASE job[p].pc = "pin" /\ cfg' = [cfg EXCEPT !.pin = Helper!Id(job[p].bin)] /\ Helper!Ends(p, "ok")
    <3>1. cfg' \in Configs /\ cfg'.readId = cfg.readId /\ cfg'.liveId = cfg.liveId
      BY <1>1, <1>2, <2>2, OtherRows
    <3> QED BY <1>1, <1>2, <2>1, <2>2, <3>1, EndStep
  <2> QED BY <1>3, <1>4, <1>6, <2>1, <2>2 DEF Helper!writeMatrixConfig
<1> QED BY <1>5, <1>6

-----------------------------------------------------------------------------
(* The helper: authorization of the live items *)

LEMMA AuthorizeSteps ==
  ASSUME HelperInv, NEW p \in Terminals,
         \/ Helper!AuthorizeBegin(p) \/ Helper!ProbeRead(p) \/ Helper!RecordReadAt(p) \/ Helper!RecordReadIdentity(p)
  PROVE  HelperInv'
<1>1. HelperType /\ Job(p) /\ UNCHANGED <<helper, child, disp, agent, cswap, app, current>>
  BY DEF HelperInv, Helper!AuthorizeBegin, Helper!ProbeRead, Helper!RecordReadAt, Helper!RecordReadIdentity
<1>2. /\ child' \in [Terminals -> Agents] /\ job[p].bin \in Nat /\ Helper!Id(job[p].bin) \in Pins
      /\ job[p].at \in Nat /\ cfg \in Configs /\ helper \in Nat /\ job[p] \in Jobs
  BY <1>1, IdIsPin DEF HelperType, Jobs
<1>3. CASE Helper!AuthorizeBegin(p)
  <2>1. job[p].pc = "idle" /\ UNCHANGED <<cfg, items>> /\ child[p].st = "none"
    BY <1>1, <1>3 DEF Helper!AuthorizeBegin, Helper!MayRun, Job, Cleans, HelperType, Agents
  <2>2. CASE Helper!StartsAndEnds(p, "authorize", "failed")
    <3>1. "authorize" \in Cmds
      BY DEF Cmds
    <3>2. /\ job' \in [Terminals -> Jobs] /\ \A q \in Terminals \ {p} : job'[q] = job[q]
          /\ job'[p].pc = "done" /\ job'[p].cmd = "authorize" /\ job'[p].pin = None /\ job'[p].out = "failed"
      BY <1>1, <2>2, <3>1, EndedType
    <3>3. Job(p)'
      BY <1>1, <2>1, <3>2 DEF Job, Anchors, Cleans, HelperRuns, Elsewhere, Grants, Rewrites, Matrix
    <3> QED BY <1>1, <1>2, <2>1, <3>2, <3>3, MoveStep
  <2>3. CASE job' = [job EXCEPT ![p] = [Helper!Started("authorize", "probe") EXCEPT !.bin = helper, !.at = 1]]
    <3> DEFINE s == Helper!Started("authorize", "probe")
               j == [s EXCEPT !.bin = helper, !.at = 1]
    <3>1. "authorize" \in Cmds /\ "probe" \in JobPCs
      BY DEF Cmds, JobPCs
    <3>2. s \in Jobs /\ s.pc = "probe" /\ s.cmd = "authorize" /\ s.pin = None /\ s.out = "none"
      BY <3>1, NoJobType DEF Helper!Started, Jobs
    <3> HIDE DEF s
    <3>3. j \in Jobs /\ j.pc = "probe" /\ j.cmd = "authorize" /\ j.pin = None /\ j.out = "none" /\ j.at = 1
      BY <1>2, <3>2 DEF Jobs
    <3>4. job' = [job EXCEPT ![p] = j]
      BY <2>3 DEF s
    <3> HIDE DEF j
    <3>5. job' \in [Terminals -> Jobs] /\ job'[p] = j /\ \A q \in Terminals \ {p} : job'[q] = job[q]
      BY <1>1, <3>3, <3>4 DEF HelperType
    <3>6. \A i \in DOMAIN Items : ~(i < 1)
      BY ItemsAssumption
    <3>7. Job(p)'
      BY <1>1, <2>1, <3>3, <3>5, <3>6 DEF Job, Anchors, Cleans, HelperRuns, Elsewhere, Grants, Rewrites, Matrix
    <3> QED BY <1>1, <1>2, <2>1, <3>5, <3>7, MoveStep
  <2> QED BY <1>3, <2>2, <2>3 DEF Helper!AuthorizeBegin
<1>4. CASE Helper!ProbeRead(p)
  <2>1. job[p].pc = "probe" /\ cfg' = cfg /\ job[p].at \in DOMAIN Items
    BY <1>4 DEF Helper!ProbeRead
  <2>2. CASE items' = items /\ Helper!Ends(p, "failed")
    BY <1>1, <1>2, <2>1, <2>2, EndStep
  <2>3. CASE /\ items' = [items EXCEPT ![job[p].at] = @ \cup {Helper!Id(job[p].bin)}]
             /\ Helper!HelperEnds(p, [job[p] EXCEPT !.at = @ + 1])
    <3>1. items' \in [DOMAIN Items -> SUBSET Pins] /\ Grow /\ Helper!Id(job[p].bin) \in items'[job[p].at]
      BY <1>1, <1>2, <2>1, <2>3 DEF HelperType, Grow
    <3>8. Recorded'
      BY <2>1, <3>1, RecordedKept
    <3>9. ASSUME Helper!Ends(p, "failed") PROVE HelperInv'
      <4>1. /\ job' \in [Terminals -> Jobs] /\ \A q \in Terminals \ {p} : job'[q] = job[q]
            /\ job'[p].pc = "done" /\ job'[p].cmd = job[p].cmd /\ job'[p].pin = None /\ job'[p].out = "failed"
        BY <1>1, <3>9, EndsType
      <4>2. job[p].cmd \notin Matrix
        BY <1>1, <2>1 DEF Job, Cleans, Elsewhere
      <4>3. Job(p)'
        BY <1>1, <4>1, <4>2 DEF Job, Anchors, Cleans, HelperRuns, Elsewhere, Grants, Rewrites, Matrix
      <4>4. \A q \in Terminals : Job(q)'
        BY <1>1, <3>1, <4>1, <4>3, OthersKeep
      <4> QED BY <1>1, <1>2, <2>1, <3>1, <3>8, <4>1, <4>4 DEF HelperInv, HelperType, Helper!cswapItems
    <3> SUFFICES ASSUME job[p].out = "none", job' = [job EXCEPT ![p] = [job[p] EXCEPT !.at = @ + 1]]
                 PROVE  HelperInv'
      BY <1>2, <2>1, <2>3, <3>9 DEF Helper!HelperEnds, Helper!Orphaned, Jobs, Job, Cleans, HelperInv
    <3>2. /\ job' \in [Terminals -> Jobs] /\ \A q \in Terminals \ {p} : job'[q] = job[q]
          /\ job'[p].pc = "probe" /\ job'[p].cmd = job[p].cmd /\ job'[p].bin = job[p].bin /\ job'[p].pin = job[p].pin
          /\ job'[p].out = job[p].out /\ job'[p].at = job[p].at + 1
      BY <1>1, <1>2, <2>1 DEF HelperType, Jobs
    <3>3. \A i \in DOMAIN Items : i < job[p].at + 1 => i < job[p].at \/ i = job[p].at
      BY <1>2, ItemsAssumption
    <3>4. \A i \in DOMAIN Items : i < job'[p].at => Helper!Id(job[p].bin) \in items'[i]
      BY <1>1, <2>1, <3>1, <3>2, <3>3 DEF Job, Grants, Grow
    <3>5. Job(p)'
      BY <1>1, <2>1, <3>2, <3>4 DEF Job, Anchors, Cleans, HelperRuns, Elsewhere, Grants, Rewrites, Helper!Id
    <3>6. \A q \in Terminals : Job(q)'
      BY <1>1, <3>1, <3>2, <3>5, OthersKeep
    <3> QED BY <1>1, <1>2, <2>1, <3>1, <3>2, <3>6, <3>8 DEF HelperInv, HelperType, Helper!cswapItems
  <2> QED BY <1>4, <2>2, <2>3 DEF Helper!ProbeRead
<1>5. CASE Helper!RecordReadAt(p)
  <2>1. /\ job[p].pc = "probe" /\ job[p].at > Len(Items) /\ items' = items
        /\ cfg' = [cfg EXCEPT !.readAt = TRUE] /\ Helper!Goto(p, "readid")
    BY <1>5 DEF Helper!RecordReadAt
  <2>2. /\ job' \in [Terminals -> Jobs] /\ \A q \in Terminals \ {p} : job'[q] = job[q]
        /\ job'[p].pc = "readid" /\ job'[p].cmd = job[p].cmd /\ job'[p].bin = job[p].bin /\ job'[p].pin = job[p].pin
        /\ job'[p].at = job[p].at /\ job'[p].out = job[p].out
    BY <1>1, <2>1, GotoType, "readid" \in JobPCs DEF JobPCs
  <2>3. Granted(Helper!Id(job[p].bin))
    BY <1>1, <1>2, <2>1, ItemsAssumption DEF Job, Grants, Granted
  <2>6. job[p].out = "none"
    BY <1>1, <1>2, <2>1, ItemsAssumption DEF Job, Cleans, HelperRuns
  <2>4. Job(p)'
    BY <1>1, <2>1, <2>2, <2>3, <2>6 DEF Job, Anchors, Cleans, HelperRuns, Elsewhere, Grants, Granted, Rewrites, Helper!Id
  <2>5. cfg' \in Configs /\ cfg'.readId = cfg.readId /\ cfg'.liveId = cfg.liveId
    BY <1>2, <2>1 DEF Configs
  <2> QED BY <1>1, <1>2, <2>1, <2>2, <2>4, <2>5, MoveStep
<1>6. CASE Helper!RecordReadIdentity(p)
  <2>1. /\ job[p].pc = "readid" /\ items' = items
        /\ cfg' = [cfg EXCEPT !.readId = Helper!Id(job[p].bin)] /\ Helper!Ends(p, "ok")
    BY <1>6 DEF Helper!RecordReadIdentity
  <2>2. cfg' \in Configs /\ cfg'.readId = Helper!Id(job[p].bin) /\ cfg'.liveId = cfg.liveId
    BY <1>2, <2>1 DEF Configs
  <2>3. job[p].cmd \notin Matrix
    BY <1>1, <2>1 DEF Job, Cleans, HelperRuns, Elsewhere
  <2>4. Granted(Helper!Id(job[p].bin)) /\ Grow
    BY <1>1, <2>1 DEF Job, Grants, Grow
  <2>5. job' \in [Terminals -> Jobs] /\ \A q \in Terminals : Job(q)'
    BY <1>1, <1>2, <2>1, <2>3, EndKeeps
  <2>6. Recorded'
    BY <2>1, <2>2, <2>4 DEF HelperInv, Recorded, Granted
  <2>7. HelperType'
    BY <1>1, <1>2, <2>1, <2>2, <2>5 DEF HelperType, Helper!cswapItems
  <2> QED BY <2>5, <2>6, <2>7 DEF HelperInv
<1> QED BY <1>3, <1>4, <1>5, <1>6

-----------------------------------------------------------------------------
(* The helper: the other commands *)

\* A command of another kind than the matrix starts, or is refused.
LEMMA BeginElsewhere ==
  ASSUME HelperInv, NEW p \in Terminals, NEW cmd \in Cmds \ Matrix, NEW j \in Jobs,
         job[p].pc = "idle", UNCHANGED <<helper, cfg, child, disp, items, cswap>>,
         \/ Helper!StartsAndEnds(p, cmd, "failed")
         \/ /\ job' = [job EXCEPT ![p] = j] /\ j.cmd = cmd /\ j.out = "none"
            /\ j.pc \in {"read", "gate", "copy"} /\ (j.pc = "gate" => j.pin # None)
  PROVE  HelperInv'
<1>1. HelperType /\ Job(p) /\ cmd \in Cmds /\ cmd \notin Matrix
  BY DEF HelperInv
<1>2. child[p].st = "none" /\ child' \in [Terminals -> Agents] /\ cfg' \in Configs
  BY <1>1 DEF HelperType, Agents, Job, Cleans
<1>3. CASE Helper!StartsAndEnds(p, cmd, "failed")
  <2>1. /\ job' \in [Terminals -> Jobs] /\ \A q \in Terminals \ {p} : job'[q] = job[q]
        /\ job'[p].pc = "done" /\ job'[p].cmd = cmd /\ job'[p].pin = None /\ job'[p].out = "failed"
    BY <1>1, <1>3, EndedType
  <2>2. Job(p)'
    BY <1>1, <1>2, <2>1 DEF Job, Anchors, Cleans, HelperRuns, Elsewhere, Grants, Rewrites
  <2> QED BY <1>2, <2>1, <2>2, MoveStep
<1>4. CASE /\ job' = [job EXCEPT ![p] = j] /\ j.cmd = cmd /\ j.out = "none"
           /\ j.pc \in {"read", "gate", "copy"} /\ (j.pc = "gate" => j.pin # None)
  <2>1. job' \in [Terminals -> Jobs] /\ job'[p] = j /\ \A q \in Terminals \ {p} : job'[q] = job[q]
    BY <1>1, <1>4 DEF HelperType
  <2>2. Granted(j.pin)' <=> Granted(j.pin)
    BY DEF Granted
  <2>3. Job(p)'
    BY <1>1, <1>2, <1>4, <2>1, <2>2 DEF Job, Anchors, Cleans, HelperRuns, Elsewhere, Grants, Granted, Rewrites
  <2> QED BY <1>2, <2>1, <2>3, MoveStep
<1> QED BY <1>3, <1>4

\* Such a command goes on and leaves agents, items and identities alone.
LEMMA GoElsewhere ==
  ASSUME HelperInv, NEW p \in Terminals, job' \in [Terminals -> Jobs],
         \A q \in Terminals \ {p} : job'[q] = job[q],
         UNCHANGED <<helper, child, disp, items, cswap>>, cfg' = cfg,
         job[p].pc \in Elsewhere, HelperRuns(p) => job'[p].pc \in {"hash", "update"}, job'[p].cmd = job[p].cmd, job'[p].pin = job[p].pin, job'[p].out = job[p].out,
         \/ job'[p].pc \in {"read", "copy", "attest", "place", "publish", "pin"}
         \/ job'[p].pc \in {"start", "live"} /\ job[p].pc \in {"sweep", "start"}
         \/ job'[p].pc = "sweep" /\ Granted(job[p].pin)
         \/ job'[p].pc \in {"s24", "hash", "update"} /\ job'[p].at \in Helper!cswapItems
  PROVE  HelperInv'
<1>1. HelperType /\ Job(p)
  BY DEF HelperInv
<1>2. child' \in [Terminals -> Agents] /\ cfg' \in Configs
  BY <1>1 DEF HelperType
<1>3. /\ job[p].cmd \notin Matrix /\ child[p].st = "none"
      /\ job[p].out = "none" \/ (job[p].out = "failed" /\ job'[p].pc \in {"hash", "update"})
  <2>1. child[p].st \in {"none", "loaded", "cases", "ok", "failed"} /\ job[p].out \in {"none", "ok", "failed"}
    BY <1>1 DEF HelperType, Agents, Jobs
  <2>2. job[p].out # "none" => job[p].out = "failed" /\ HelperRuns(p)
    BY <1>1 DEF Job, Cleans, Elsewhere
  <2> QED BY <1>1, <2>1, <2>2 DEF Job, Cleans, Elsewhere, Matrix
<1>4. Granted(job[p].pin)' <=> Granted(job[p].pin)
  BY DEF Granted
<1>5. Anchors(p)' /\ Cleans(p)' /\ Rewrites(p)'
  BY <1>1, <1>3 DEF Anchors, Cleans, HelperRuns, Elsewhere, Rewrites, Matrix, Helper!cswapItems
<1>6. Grants(p)'
  BY <1>1, <1>4 DEF Job, Grants, Granted
<1> QED BY <1>2, <1>5, <1>6, MoveStep DEF Job

LEMMA CswapBeginStep == ASSUME HelperInv, NEW p \in Terminals, Helper!CswapBegin(p) PROVE HelperInv'
<1>1. job[p].pc = "idle" /\ UNCHANGED <<helper, cfg, child, disp, items, cswap>>
  BY DEF Helper!CswapBegin, Helper!MayRun
<1>2. "authorize cswap" \in Cmds \ Matrix /\ "read" \in JobPCs
  BY DEF Cmds, Matrix, JobPCs
<1> DEFINE s == Helper!Started("authorize cswap", "read")
           j == [s EXCEPT !.at = 2]
<1>3. s \in Jobs /\ s.pc = "read" /\ s.cmd = "authorize cswap" /\ s.pin = None /\ s.out = "none"
  BY <1>2, NoJobType DEF Helper!Started, Jobs
<1> HIDE DEF s
<1>4. j \in Jobs /\ j.pc = "read" /\ j.cmd = "authorize cswap" /\ j.out = "none"
  BY <1>3 DEF Jobs
<1>5. job' = [job EXCEPT ![p] = j] \/ Helper!StartsAndEnds(p, "authorize cswap", "failed")
  BY DEF Helper!CswapBegin, s
<1> HIDE DEF j
<1> QED BY <1>1, <1>2, <1>4, <1>5, BeginElsewhere

LEMMA CswapSteps ==
  ASSUME HelperInv, NEW p \in Terminals,
         \/ Helper!CswapRead(p) \/ Helper!CswapStage(p) \/ Helper!CswapHash(p) \/ Helper!CswapAuthorized(p)
  PROVE  HelperInv'
<1>1. HelperType /\ Job(p) /\ UNCHANGED <<helper, child, disp, items, cswap>>
  BY DEF HelperInv, Helper!CswapRead, Helper!CswapStage, Helper!CswapHash, Helper!CswapAuthorized
<1>2. job[p] \in Jobs /\ child' \in [Terminals -> Agents] /\ cfg \in Configs
  BY <1>1 DEF HelperType
<1>3. ASSUME Helper!Ends(p, "failed"), cfg' = cfg PROVE HelperInv'
  BY <1>1, <1>2, <1>3, EndStep
<1>4. CASE Helper!CswapRead(p)
  <2>1. CASE job' = [job EXCEPT ![p].pc = "s24", ![p].ver = cswap[job[p].at].ver]
    <3>1. job[p].pc = "read" /\ job[p].at \in Helper!cswapItems /\ cfg' = cfg
      BY <1>4 DEF Helper!CswapRead
    <3> DEFINE v == cswap[job[p].at].ver
               j == [job[p] EXCEPT !.pc = "s24", !.ver = v]
    <3>2. v \in Nat
      BY <1>1, <3>1 DEF HelperType
    <3>3. job' = [job EXCEPT ![p] = j]
      BY <1>1, <2>1 DEF HelperType
    <3> HIDE DEF v
    <3>4. j \in Jobs /\ j.pc = "s24" /\ j.at = job[p].at /\ j.cmd = job[p].cmd /\ j.pin = job[p].pin /\ j.out = job[p].out
      BY <1>2, <3>2, "s24" \in JobPCs DEF Jobs, JobPCs
    <3> HIDE DEF j
    <3>5. job' \in [Terminals -> Jobs] /\ job'[p] = j /\ \A q \in Terminals \ {p} : job'[q] = job[q]
      BY <1>1, <3>3, <3>4 DEF HelperType
    <3> QED BY <1>1, <3>1, <3>4, <3>5, GoElsewhere DEF Elsewhere, HelperRuns
  <2> QED BY <1>3, <1>4, <2>1 DEF Helper!CswapRead
<1>5. CASE Helper!CswapStage(p)
  <2>1. CASE Helper!Goto(p, "hash")
    <3>1. /\ job' \in [Terminals -> Jobs] /\ \A q \in Terminals \ {p} : job'[q] = job[q]
          /\ job'[p].pc = "hash" /\ job'[p].cmd = job[p].cmd /\ job'[p].pin = job[p].pin
          /\ job'[p].at = job[p].at /\ job'[p].out = job[p].out
      BY <1>1, <2>1, GotoType, "hash" \in JobPCs DEF JobPCs
    <3>2. job[p].pc = "s24" /\ cfg' = cfg /\ job[p].at \in Helper!cswapItems
      BY <1>1, <1>5 DEF Helper!CswapStage, Job, Rewrites
    <3> QED BY <1>1, <3>1, <3>2, GoElsewhere DEF Elsewhere, HelperRuns
  <2> QED BY <1>3, <1>5, <2>1 DEF Helper!CswapStage
<1>6. CASE Helper!CswapHash(p)
  <2>1. job[p].pc = "hash" /\ cfg' = cfg /\ job[p].at \in Helper!cswapItems
    BY <1>1, <1>6 DEF Helper!CswapHash, Job, Rewrites
  <2>2. CASE job' = [job EXCEPT ![p].pc = "update", ![p].date = cswap[job[p].at].date]
    <3> DEFINE v == cswap[job[p].at].date
               j == [job[p] EXCEPT !.pc = "update", !.date = v]
    <3>2. v \in Nat
      BY <1>1, <2>1 DEF HelperType
    <3>3. job' = [job EXCEPT ![p] = j]
      BY <1>1, <2>2 DEF HelperType
    <3> HIDE DEF v
    <3>4. j \in Jobs /\ j.pc = "update" /\ j.at = job[p].at /\ j.cmd = job[p].cmd /\ j.pin = job[p].pin /\ j.out = job[p].out
      BY <1>2, <3>2, "update" \in JobPCs DEF Jobs, JobPCs
    <3> HIDE DEF j
    <3>5. job' \in [Terminals -> Jobs] /\ job'[p] = j /\ \A q \in Terminals \ {p} : job'[q] = job[q]
      BY <1>1, <3>3, <3>4 DEF HelperType
    <3> QED BY <1>1, <2>1, <3>4, <3>5, GoElsewhere DEF Elsewhere, HelperRuns
  <2> QED BY <1>3, <1>6, <2>1, <2>2 DEF Helper!CswapHash
<1>7. CASE Helper!CswapAuthorized(p)
  <2>1. job[p].pc = "read" /\ cfg' = [cfg EXCEPT !.cswapAt = TRUE] /\ Helper!Ends(p, "ok")
    BY <1>7 DEF Helper!CswapAuthorized
  <2>2. cfg' \in Configs /\ cfg'.readId = cfg.readId /\ cfg'.liveId = cfg.liveId
    BY <1>2, <2>1 DEF Configs
  <2>3. job[p].cmd \notin Matrix
    BY <1>1, <2>1 DEF Job, Cleans, HelperRuns, Elsewhere
  <2> QED BY <1>1, <1>2, <2>1, <2>2, <2>3, EndStep
<1> QED BY <1>4, <1>5, <1>6, <1>7

\* The C-swap items keep their type, whoever writes them.
LEMMA CswapType ==
  ASSUME HelperType, NEW i \in Helper!cswapItems, NEW v \in Nat, NEW d \in Nat,
         cswap' = [cswap EXCEPT ![i] = [ver |-> v, date |-> d]]
  PROVE  /\ cswap' \in [Helper!cswapItems -> [ver : Nat, date : Nat]] /\ cswap'[i].ver = v
         /\ \A k \in Helper!cswapItems \ {i} : cswap'[k] = cswap[k]
  BY DEF HelperType

\* A step that writes one C-swap item.
LEMMA CswapKeeps ==
  ASSUME HelperInv, cswap' \in [Helper!cswapItems -> [ver : Nat, date : Nat]],
         UNCHANGED <<helper, cfg, child, disp, items>>, job' \in [Terminals -> Jobs],
         \A q \in Terminals : \/ job'[q] = job[q]
                              \/ /\ job[q].pc = "update" /\ job'[q].cmd = job[q].cmd
                                 /\ \/ job'[q].pc = "read" /\ job'[q].out = "none"
                                    \/ job'[q].pc = "done" /\ job'[q].out = "failed"
  PROVE  HelperInv'
<1>1. HelperType' /\ Recorded'
  BY DEF HelperInv, HelperType, Recorded, Granted, Helper!cswapItems
<1>2. ASSUME NEW q \in Terminals PROVE Job(q)'
  <2>1. Job(q)
    BY DEF HelperInv
  <2>2. CASE job'[q] = job[q]
    BY <2>1, <2>2 DEF Job, Anchors, Cleans, HelperRuns, Elsewhere, Grants, Granted, Rewrites, Helper!Id, Helper!cswapItems
  <2>3. CASE job'[q] # job[q]
    <3>1. /\ job[q].pc = "update" /\ job'[q].cmd = job[q].cmd
          /\ (job'[q].pc = "read" /\ job'[q].out = "none") \/ (job'[q].pc = "done" /\ job'[q].out = "failed")
      BY <2>3
    <3>2. job[q].cmd \notin Matrix
      BY <2>1, <3>1 DEF Job, Cleans, HelperRuns, Elsewhere
    <3> QED BY <2>1, <3>1, <3>2 DEF Job, Anchors, Cleans, HelperRuns, Elsewhere, Grants, Rewrites, Matrix
  <2> QED BY <2>2, <2>3
<1> QED BY <1>1, <1>2 DEF HelperInv

LEMMA CswapUpdateStep ==
  ASSUME HelperInv, NEW p \in Terminals, Helper!CswapUpdate(p)
  PROVE  /\ HelperInv'
         /\ \A i \in Helper!cswapItems : cswap'[i] = cswap[i]
                                         \/ (job[p].pc = "update" /\ job[p].at = i /\ job[p].date = cswap[i].date)
<1>1. HelperType /\ Job(p) /\ job[p].pc = "update" /\ job[p] \in Jobs /\ job[p].at \in Helper!cswapItems
      /\ UNCHANGED <<helper, cfg, child, disp, items>>
  BY DEF HelperInv, HelperType, Helper!CswapUpdate, Job, Rewrites
<1>2. CASE cswap' = cswap /\ Helper!Ends(p, "failed")
  <2>1. cfg' \in Configs /\ child' \in [Terminals -> Agents]
    BY <1>1 DEF HelperType
  <2>2. HelperInv'
    BY <1>1, <1>2, <2>1, EndStep
  <2> QED BY <1>2, <2>2
<1>3. CASE /\ cswap[job[p].at].date = job[p].date
           /\ cswap' = [cswap EXCEPT ![job[p].at] = [ver |-> job[p].ver, date |-> @.date + 1]]
           /\ Helper!HelperEnds(p, [job[p] EXCEPT !.pc = "read", !.at = @ + 1])
  <2> DEFINE d == cswap[job[p].at].date + 1
             v == job[p].ver
             n == job[p].at + 1
             j == [job[p] EXCEPT !.pc = "read", !.at = n]
  <2>1. d \in Nat /\ v \in Nat /\ n \in Nat
    BY <1>1 DEF HelperType, Jobs
  <2>2. /\ cswap' = [cswap EXCEPT ![job[p].at] = [ver |-> v, date |-> d]]
        /\ \/ Helper!Ends(p, "failed")
           \/ job' = [job EXCEPT ![p] = j] /\ job[p].out # "failed"
    BY <1>1, <1>3 DEF HelperType, Helper!HelperEnds, Helper!Orphaned
  <2>7. job[p].out # "failed" => job[p].out = "none"
    BY <1>1 DEF Job, Cleans, Jobs
  <2> HIDE DEF d, v, n
  <2>3. /\ cswap' \in [Helper!cswapItems -> [ver : Nat, date : Nat]]
        /\ \A k \in Helper!cswapItems \ {job[p].at} : cswap'[k] = cswap[k]
    BY <1>1, <2>1, <2>2, CswapType
  <2>4. j \in Jobs /\ j.pc = "read" /\ j.cmd = job[p].cmd /\ j.out = job[p].out
    BY <1>1, <2>1, "read" \in JobPCs DEF Jobs, JobPCs
  <2> HIDE DEF j
  <2>5. /\ job' \in [Terminals -> Jobs] /\ \A q \in Terminals \ {p} : job'[q] = job[q]
        /\ job'[p].cmd = job[p].cmd
        /\ (job'[p].pc = "read" /\ job'[p].out = "none") \/ (job'[p].pc = "done" /\ job'[p].out = "failed")
    <3>1. CASE Helper!Ends(p, "failed")
      BY <1>1, <3>1, EndsType
    <3>2. CASE job' = [job EXCEPT ![p] = j] /\ job[p].out # "failed"
      BY <1>1, <2>4, <2>7, <3>2 DEF HelperType
    <3> QED BY <2>2, <3>1, <3>2
  <2>6. HelperInv'
    BY <1>1, <2>3, <2>5, CswapKeeps
  <2> QED BY <1>1, <1>3, <2>3, <2>6
<1> QED BY <1>2, <1>3 DEF Helper!CswapUpdate, Helper!SecItemUpdate

LEMMA CswapRotatesStep ==
  ASSUME HelperInv, NEW i \in Helper!cswapItems, Helper!CswapRotates(i)
  PROVE  HelperInv' /\ \A k \in Helper!cswapItems : ~(cswap'[k].ver < cswap[k].ver)
<1>1. HelperType /\ UNCHANGED <<helper, cfg, job, child, disp, items>>
  BY DEF HelperInv, Helper!CswapRotates
<1>2. PICK tick \in {0, 1} : cswap' = [cswap EXCEPT ![i] = [ver |-> @.ver + 1, date |-> @.date + tick]]
  BY DEF Helper!CswapRotates
<1> DEFINE v == cswap[i].ver + 1
           d == cswap[i].date + tick
<1>3. v \in Nat /\ d \in Nat /\ cswap[i].ver \in Nat
  BY <1>1 DEF HelperType
<1>4. cswap' = [cswap EXCEPT ![i] = [ver |-> v, date |-> d]]
  BY <1>1, <1>2 DEF HelperType
<1>5. \A k \in Helper!cswapItems : cswap[k].ver \in Nat
  BY <1>1 DEF HelperType
<1>6. v > cswap[i].ver
  BY <1>3
<1> HIDE DEF v, d
<1>7. /\ cswap' \in [Helper!cswapItems -> [ver : Nat, date : Nat]] /\ cswap'[i].ver = v
      /\ \A k \in Helper!cswapItems \ {i} : cswap'[k] = cswap[k]
  BY <1>1, <1>3, <1>4, CswapType
<1>8. HelperInv'
  BY <1>1, <1>7, CswapKeeps DEF HelperType
<1> QED BY <1>3, <1>5, <1>6, <1>7, <1>8

LEMMA LiveSteps ==
  ASSUME HelperInv, NEW p \in Terminals,
         \/ Helper!LiveBegin(p) \/ Helper!LiveGate(p) \/ Helper!LiveSweep(p) \/ Helper!LiveStart(p)
         \/ Helper!AgentEnds(p) \/ Helper!LiveEnds(p)
  PROVE  HelperInv'
<1>1. HelperType /\ Job(p) /\ UNCHANGED <<helper, child, disp, items, cswap>>
  BY DEF HelperInv, Helper!LiveBegin, Helper!LiveGate, Helper!LiveSweep, Helper!LiveStart, Helper!AgentEnds, Helper!LiveEnds
<1>2. job[p] \in Jobs /\ child' \in [Terminals -> Agents] /\ cfg \in Configs /\ cfg.pin \in Pins
  BY <1>1 DEF HelperType, Configs
<1>3. ASSUME Helper!Ends(p, "failed"), cfg' = cfg PROVE HelperInv'
  BY <1>1, <1>2, <1>3, EndStep
<1>4. CASE Helper!LiveBegin(p)
  <2>1. job[p].pc = "idle" /\ cfg' = cfg
    BY <1>4 DEF Helper!LiveBegin, Helper!MayRun
  <2>2. "check-live" \in Cmds \ Matrix /\ "gate" \in JobPCs
    BY DEF Cmds, Matrix, JobPCs
  <2> DEFINE s == Helper!Started("check-live", "gate")
             j == [s EXCEPT !.pin = cfg.pin]
  <2>3. s \in Jobs /\ s.pc = "gate" /\ s.cmd = "check-live" /\ s.out = "none"
    BY <2>2, NoJobType DEF Helper!Started, Jobs
  <2> HIDE DEF s
  <2>4. j \in Jobs /\ j.pc = "gate" /\ j.cmd = "check-live" /\ j.out = "none" /\ j.pin = cfg.pin
    BY <1>2, <2>3 DEF Jobs
  <2>5. (job' = [job EXCEPT ![p] = j] /\ cfg.pin # None) \/ Helper!StartsAndEnds(p, "check-live", "failed")
    BY <1>4 DEF Helper!LiveBegin, Helper!liveGates, s
  <2> HIDE DEF j
  <2> QED BY <1>1, <2>1, <2>2, <2>4, <2>5, BeginElsewhere
<1>8. CASE Helper!LiveGate(p)
  <2>1. job[p].pc = "gate" /\ cfg' = cfg
    BY <1>8 DEF Helper!LiveGate
  <2>2. CASE Helper!sameReader(p) /\ Helper!Goto(p, "sweep")
    <3>1. Granted(job[p].pin)
      BY <1>1, <2>1, <2>2 DEF Helper!sameReader, Job, Grants, HelperInv, Recorded
    <3>2. /\ job' \in [Terminals -> Jobs] /\ \A q \in Terminals \ {p} : job'[q] = job[q]
          /\ job'[p].pc = "sweep" /\ job'[p].cmd = job[p].cmd /\ job'[p].pin = job[p].pin /\ job'[p].out = job[p].out
      BY <1>1, <2>2, GotoType, "sweep" \in JobPCs DEF JobPCs
    <3> QED BY <1>1, <2>1, <3>1, <3>2, GoElsewhere DEF Elsewhere, HelperRuns
  <2> QED BY <1>3, <1>8, <2>1, <2>2 DEF Helper!LiveGate
<1>5. CASE Helper!LiveSweep(p) \/ Helper!LiveStart(p)
  <2>1. job[p].pc \in {"sweep", "start"} /\ cfg' = cfg
    BY <1>5 DEF Helper!LiveSweep, Helper!LiveStart
  <2>2. ASSUME NEW l \in {"start", "live"}, Helper!Goto(p, l) PROVE HelperInv'
    <3>1. l \in JobPCs
      BY <2>2 DEF JobPCs
    <3>2. /\ job' \in [Terminals -> Jobs] /\ \A q \in Terminals \ {p} : job'[q] = job[q]
          /\ job'[p].pc = l /\ job'[p].cmd = job[p].cmd /\ job'[p].pin = job[p].pin /\ job'[p].out = job[p].out
      BY <1>1, <2>2, <3>1, GotoType
    <3> QED BY <1>1, <2>1, <2>2, <3>2, GoElsewhere DEF Elsewhere, HelperRuns
  <2> QED BY <1>3, <1>5, <2>1, <2>2 DEF Helper!LiveSweep, Helper!LiveStart
<1>6. CASE Helper!AgentEnds(p)
  <2>1. job' = job /\ cfg' = cfg
    BY <1>6 DEF Helper!AgentEnds
  <2>2. HelperType' /\ Recorded'
    BY <1>1, <2>1 DEF HelperInv, HelperType, Recorded, Granted, Helper!cswapItems
  <2>3. \A q \in Terminals : Job(q)'
    BY <1>1, <2>1 DEF HelperInv, Job, Anchors, Cleans, HelperRuns, Elsewhere, Grants, Granted, Rewrites, Helper!Id, Helper!cswapItems
  <2> QED BY <2>2, <2>3 DEF HelperInv
<1>7. CASE Helper!LiveEnds(p)
  <2>1. CASE cfg' = [cfg EXCEPT !.liveId = job[p].pin] /\ Helper!Ends(p, "ok")
    <3>1. job[p].pc = "live"
      BY <1>7 DEF Helper!LiveEnds
    <3>2. job[p].pin \in Pins /\ Granted(job[p].pin) /\ job[p].cmd \notin Matrix
      BY <1>1, <1>2, <3>1 DEF Jobs, Job, Grants, Cleans, HelperRuns, Elsewhere
    <3>3. cfg' \in Configs /\ cfg'.readId = cfg.readId /\ cfg'.liveId = job[p].pin
      BY <1>2, <2>1, <3>2 DEF Configs
    <3>4. job' \in [Terminals -> Jobs] /\ \A q \in Terminals : Job(q)'
      BY <1>1, <1>2, <2>1, <3>2, EndKeeps
    <3>5. Recorded'
      BY <1>1, <3>2, <3>3 DEF HelperInv, Recorded, Granted
    <3>6. HelperType'
      BY <1>1, <1>2, <3>3, <3>4 DEF HelperType, Helper!cswapItems
    <3> QED BY <3>4, <3>5, <3>6 DEF HelperInv
  <2> QED BY <1>3, <1>7, <2>1 DEF Helper!LiveEnds
<1> QED BY <1>4, <1>5, <1>6, <1>7, <1>8

LEMMA InstallBeginStep ==
  ASSUME HelperInv, NEW p \in Terminals, NEW r \in Shas, Helper!InstallBegin(p, r)
  PROVE  HelperInv'
<1>1. HelperType /\ job[p].pc = "idle" /\ UNCHANGED <<helper, cfg, child, disp, items, cswap>>
  BY DEF HelperInv, Helper!InstallBegin, Helper!MayRun
<1>2. "install" \in Cmds \ Matrix /\ "copy" \in JobPCs /\ helper \in Nat /\ cfg.pin \in Pins
  BY <1>1 DEF Cmds, Matrix, JobPCs, HelperType, Configs
<1> DEFINE s == Helper!Started("install", "copy")
           j == [s EXCEPT !.sha = r, !.bin = helper, !.pin = cfg.pin]
<1>3. s \in Jobs /\ s.pc = "copy" /\ s.cmd = "install" /\ s.out = "none"
  BY <1>2, NoJobType DEF Helper!Started, Jobs
<1> HIDE DEF s
<1>4. j \in Jobs /\ j.pc = "copy" /\ j.cmd = "install" /\ j.out = "none"
  BY <1>2, <1>3 DEF Jobs
<1>5. job' = [job EXCEPT ![p] = j] \/ Helper!StartsAndEnds(p, "install", "failed")
  BY DEF Helper!InstallBegin, s
<1> HIDE DEF j
<1> QED BY <1>1, <1>2, <1>4, <1>5, BeginElsewhere

LEMMA InstallSteps ==
  ASSUME HelperInv, NEW p \in Terminals,
         Helper!InstallCopy(p) \/ Helper!assertExistingRelease(p) \/ Helper!InstallPlace(p) \/ Helper!publishCurrent(p)
  PROVE  HelperInv'
<1>1. HelperType /\ Job(p) /\ UNCHANGED <<helper, cfg, child, disp, items, cswap>>
      /\ job[p].pc \in {"copy", "attest", "place", "publish"}
  BY DEF HelperInv, Helper!InstallCopy, Helper!assertExistingRelease, Helper!InstallPlace, Helper!publishCurrent
<1>2. job[p] \in Jobs /\ child' \in [Terminals -> Agents] /\ cfg' \in Configs /\ job[p].cmd \notin Matrix
  BY <1>1 DEF HelperType, Job, Cleans, HelperRuns, Elsewhere
<1>3. ASSUME NEW out \in {"ok", "failed"}, Helper!Ends(p, out) PROVE HelperInv'
  BY <1>1, <1>2, <1>3, EndStep
<1>4. ASSUME NEW l \in {"place", "pin"}, Helper!Goto(p, l) PROVE HelperInv'
  <2>1. l \in JobPCs
    BY <1>4 DEF JobPCs
  <2>2. /\ job' \in [Terminals -> Jobs] /\ \A q \in Terminals \ {p} : job'[q] = job[q]
        /\ job'[p].pc = l /\ job'[p].cmd = job[p].cmd /\ job'[p].pin = job[p].pin /\ job'[p].out = job[p].out
    BY <1>1, <1>4, <2>1, GotoType
  <2> QED BY <1>1, <1>4, <2>2, GoElsewhere DEF Elsewhere, HelperRuns
<1>5. CASE job' = [job EXCEPT ![p].pc = "attest", ![p].ver = helper]
  <2> DEFINE j == [job[p] EXCEPT !.pc = "attest", !.ver = helper]
  <2>1. job' = [job EXCEPT ![p] = j] /\ helper \in Nat
    BY <1>1, <1>5 DEF HelperType
  <2>2. j \in Jobs /\ j.pc = "attest" /\ j.cmd = job[p].cmd /\ j.pin = job[p].pin /\ j.out = job[p].out
    BY <1>2, <2>1, "attest" \in JobPCs DEF Jobs, JobPCs
  <2> HIDE DEF j
  <2>3. job' \in [Terminals -> Jobs] /\ job'[p] = j /\ \A q \in Terminals \ {p} : job'[q] = job[q]
    BY <1>1, <2>1, <2>2 DEF HelperType
  <2> QED BY <1>1, <2>2, <2>3, GoElsewhere DEF Elsewhere, HelperRuns
<1> QED BY <1>3, <1>4, <1>5 DEF Helper!InstallCopy, Helper!assertExistingRelease, Helper!InstallPlace, Helper!publishCurrent

\* The installer writes the pin where there is none, and then it is the same.
LEMMA InstallPinStep ==
  ASSUME HelperInv, NEW p \in Terminals, Helper!recordHelperIdentityHash(p)
  PROVE  HelperInv' /\ (cfg.pin # None => cfg'.pin = cfg.pin)
<1>1. HelperType /\ Job(p) /\ UNCHANGED <<helper, child, disp, items, cswap>> /\ job[p].pc = "pin" /\ job[p].cmd = "install"
  BY DEF HelperInv, Helper!recordHelperIdentityHash
<1>2. /\ job[p].bin \in Nat /\ child \in [Terminals -> Agents] /\ cfg \in Configs /\ job[p].cmd \notin Matrix
      /\ Helper!Id(job[p].bin) \in Pins /\ child[p].st = "none" /\ job[p].out = "none"
  <2>1. job[p].bin \in Nat /\ child[p].st \in {"none", "loaded", "cases", "ok", "failed"} /\ job[p].out \in {"none", "ok", "failed"}
    BY <1>1 DEF HelperType, Agents, Jobs
  <2> QED BY <1>1, <2>1, IdIsPin DEF HelperType, Matrix, Job, Cleans, HelperRuns
<1>3. CASE cfg' = cfg /\ Helper!Ends(p, "failed")
  BY <1>1, <1>2, <1>3, EndStep
<1>4. CASE /\ cfg.pin \in {None, Helper!Id(job[p].bin)}
           /\ cfg' = [cfg EXCEPT !.pin = Helper!Id(job[p].bin)] /\ Helper!Goto(p, "publish")
  <2>1. /\ job' \in [Terminals -> Jobs] /\ \A q \in Terminals \ {p} : job'[q] = job[q]
        /\ job'[p].pc = "publish" /\ job'[p].cmd = job[p].cmd /\ job'[p].pin = job[p].pin /\ job'[p].out = job[p].out
    BY <1>1, <1>4, GotoType, "publish" \in JobPCs DEF JobPCs
  <2>2. cfg' \in Configs /\ cfg'.readId = cfg.readId /\ cfg'.liveId = cfg.liveId /\ cfg'.pin = Helper!Id(job[p].bin)
    BY <1>2, <1>4 DEF Configs
  <2>3. Job(p)'
    BY <1>1, <1>2, <2>1 DEF Job, Anchors, Cleans, HelperRuns, Elsewhere, Grants, Rewrites
  <2>4. HelperInv'
    BY <1>1, <1>2, <2>1, <2>2, <2>3, MoveStep
  <2> QED BY <1>4, <2>2, <2>4
<1> QED BY <1>3, <1>4 DEF Helper!recordHelperIdentityHash

LEMMA RebuildStep == ASSUME HelperInv, Helper!Rebuild PROVE HelperInv'
<1>1. helper' \in Nat /\ UNCHANGED <<cfg, job, child, disp, agent, items, cswap, app, current>>
  BY BuildsAssumption DEF Helper!Rebuild
<1>2. HelperType' /\ Recorded'
  BY <1>1 DEF HelperInv, HelperType, Recorded, Granted, Helper!cswapItems
<1>3. \A q \in Terminals : Job(q)'
  BY <1>1 DEF HelperInv, Job, Anchors, Cleans, HelperRuns, Elsewhere, Grants, Granted, Rewrites, Helper!Id, Helper!cswapItems
<1> QED BY <1>2, <1>3 DEF HelperInv

LEMMA HelperCrash == ASSUME HelperInv, NEW p \in Terminals, Helper!Crash(p) PROVE HelperInv'
<1>1. HelperType /\ Job(p) /\ UNCHANGED <<helper, cfg, disp, items, cswap>>
      /\ (Helper!Ends(p, "failed") \/ (HelperRuns(p) /\ job' = [job EXCEPT ![p].out = "failed"]))
      /\ child' = [child EXCEPT ![p].st = IF @ \in {"ok", "failed"} THEN "none" ELSE @]
  BY DEF HelperInv, Helper!Crash, HelperRuns
<1>2. /\ child' \in [Terminals -> Agents] /\ (child' = child \/ child'[p].st = "none")
      /\ \A q \in Terminals \ {p} : child'[q] = child[q]
  <2>1. child \in [Terminals -> Agents]
    BY <1>1 DEF HelperType
  <2>2. CASE child[p].st \in {"ok", "failed"}
    BY <1>1, <2>1, <2>2 DEF Agents
  <2>3. CASE child[p].st \notin {"ok", "failed"}
    BY <1>1, <2>1, <2>3 DEF Agents
  <2> QED BY <2>2, <2>3
<1>3. cfg' \in Configs
  BY <1>1 DEF HelperType
<1>4. CASE HelperRuns(p) /\ job' = [job EXCEPT ![p].out = "failed"]
  <2> DEFINE j == [job[p] EXCEPT !.out = "failed"]
  <2>1. job' = [job EXCEPT ![p] = j] /\ job[p] \in Jobs
    BY <1>1, <1>4 DEF HelperType
  <2>2. /\ j \in Jobs /\ j.pc = job[p].pc /\ j.cmd = job[p].cmd /\ j.bin = job[p].bin /\ j.pin = job[p].pin
        /\ j.at = job[p].at /\ j.ok = job[p].ok /\ j.out = "failed"
    BY <2>1 DEF Jobs
  <2> HIDE DEF j
  <2>3. job' \in [Terminals -> Jobs] /\ job'[p] = j /\ \A q \in Terminals \ {p} : job'[q] = job[q]
    BY <1>1, <2>1, <2>2 DEF HelperType
  <2>4. job[p].cmd \notin Matrix /\ job[p].pc \in {"hash", "update", "probe"}
    BY <1>1, <1>4 DEF Job, Cleans, HelperRuns, Elsewhere
  <2>5. child'[p].st = "none"
    BY <1>1, <1>2, <2>4 DEF Job, Cleans, Matrix
  <2>6. Cleans(p)'
    BY <1>4, <2>2, <2>3, <2>4, <2>5 DEF Cleans, HelperRuns, Elsewhere
  <2>7. Anchors(p)' /\ Grants(p)' /\ Rewrites(p)'
    BY <1>1, <2>2, <2>3, <2>4 DEF Job, Anchors, Grants, Rewrites, Helper!Id, Helper!cswapItems
  <2> QED BY <1>1, <1>2, <1>3, <2>3, <2>6, <2>7, MoveStep DEF Job
<1> QED BY <1>1, <1>2, <1>3, <1>4, EndStep

LEMMA HelperFrame == ASSUME HelperInv, UNCHANGED helperVars PROVE HelperInv'
<1>1. UNCHANGED <<helper, cfg, job, child, disp, items, cswap>>
  BY DEF helperVars
<1>2. HelperType' /\ Recorded'
  BY <1>1 DEF HelperInv, HelperType, Recorded, Granted, Helper!cswapItems
<1>3. \A q \in Terminals : Job(q)'
  BY <1>1 DEF HelperInv, Job, Anchors, Cleans, HelperRuns, Elsewhere, Grants, Granted, Rewrites, Helper!Id, Helper!cswapItems
<1> QED BY <1>2, <1>3 DEF HelperInv

LEMMA HelperStep == ASSUME HelperInv, Helper!Next PROVE HelperInv'
<1>1. ASSUME NEW p \in Terminals, NEW c \in Commands, Helper!CheckBegin(p, c) PROVE HelperInv'
  BY <1>1, CheckBeginStep
<1>2. ASSUME NEW p \in Terminals,
             \/ Helper!MatrixEnds(p) \/ Helper!ChildBegin(p) \/ Helper!ChildEnds(p) \/ Helper!ReadReceipt(p)
             \/ Helper!ReadRedReceipt(p) \/ Helper!MatrixTimeout(p) \/ Helper!CheckAfter(p) \/ Helper!writeMatrixConfig(p)
             \/ Helper!AuthorizeBegin(p) \/ Helper!ProbeRead(p) \/ Helper!RecordReadAt(p) \/ Helper!RecordReadIdentity(p)
      PROVE  HelperInv'
  BY <1>2, MatrixEndsStep, ChildStep, ReceiptSteps, RecordSteps, AuthorizeSteps
<1>3. ASSUME NEW p \in Terminals,
             \/ Helper!CswapBegin(p) \/ Helper!CswapRead(p) \/ Helper!CswapStage(p) \/ Helper!CswapHash(p)
             \/ Helper!CswapUpdate(p) \/ Helper!CswapAuthorized(p)
             \/ Helper!LiveBegin(p) \/ Helper!LiveGate(p) \/ Helper!LiveSweep(p) \/ Helper!LiveStart(p)
             \/ Helper!AgentEnds(p) \/ Helper!LiveEnds(p)
      PROVE  HelperInv'
  BY <1>3, CswapBeginStep, CswapSteps, CswapUpdateStep, LiveSteps
<1>4. ASSUME NEW p \in Terminals,
             \/ \E s \in Shas : Helper!InstallBegin(p, s)
             \/ Helper!InstallCopy(p) \/ Helper!assertExistingRelease(p) \/ Helper!InstallPlace(p)
             \/ Helper!recordHelperIdentityHash(p) \/ Helper!publishCurrent(p) \/ Helper!Crash(p)
      PROVE  HelperInv'
  BY <1>4, InstallBeginStep, InstallSteps, InstallPinStep, HelperCrash
<1>5. ASSUME NEW i \in Helper!cswapItems, Helper!CswapRotates(i) PROVE HelperInv'
  BY <1>5, CswapRotatesStep
<1> QED BY <1>1, <1>2, <1>3, <1>4, <1>5, RebuildStep DEF Helper!Next

-----------------------------------------------------------------------------
(* The helper: theorems *)

LEMMA HelperAlways == SuiteSpec => []HelperInv
<1>1. SuiteInit => HelperInv
  BY InitHelper DEF SuiteInit
<1>2. HelperInv /\ [SuiteNext]_SuiteVars => HelperInv'
  BY HelperStep, HelperFrame DEF SuiteNext, SuiteVars
<1> QED BY <1>1, <1>2, PTL DEF SuiteSpec

\* A recorded live authorization names an identity that was given read access to every live item,
\* and a matrix that reported success has left no disposable item: for any number of terminals,
\* builds, items and commands, however rebuilds, deaths, orphaned agents and sweeps interleave.
THEOREM HelperSoundHolds == SuiteSpec => []HelperSound
<1>1. HelperInv => HelperSound
  BY DEF HelperInv, Recorded, Granted, Job, Cleans, Matrix, HelperSound, Helper!LiveMeansGranted, Helper!OkLeavesNothing
<1> QED BY <1>1, HelperAlways, PTL

\* A matrix that saw the pin does not move it.
LEMMA PinStep ==
  ASSUME HelperInv, [Helper!Next]_(Helper!vars), cfg.pin # None, cfg'.pin # cfg.pin
  PROVE  \E p \in Terminals : /\ job[p].cmd \in {"matrix", "check-launchd"}
                              /\ job[p].pc = "pin" /\ job[p].pin # cfg.pin
<1>1. cfg \in Configs
  BY DEF HelperInv, HelperType
<1>2. \A r : [cfg EXCEPT !.result = r].pin = cfg.pin /\ [cfg EXCEPT !.bin = r].pin = cfg.pin
             /\ [cfg EXCEPT !.readAt = r].pin = cfg.pin /\ [cfg EXCEPT !.readId = r].pin = cfg.pin
             /\ [cfg EXCEPT !.liveId = r].pin = cfg.pin /\ [cfg EXCEPT !.cswapAt = r].pin = cfg.pin
  BY <1>1 DEF Configs
<1>3. ASSUME NEW p \in Terminals, Helper!writeMatrixConfig(p)
      PROVE  job[p].cmd \in {"matrix", "check-launchd"} /\ job[p].pc = "pin" /\ job[p].pin # cfg.pin
  <2>1. job[p].cmd \in Matrix /\ Anchors(p)
    BY <1>3 DEF Helper!writeMatrixConfig, Matrix, HelperInv, Job
  <2>2. CASE job[p].pc = "pin" /\ cfg' = [cfg EXCEPT !.pin = Helper!Id(job[p].bin)]
    <3>1. cfg'.pin = Helper!Id(job[p].bin)
      BY <1>1, <2>2 DEF Configs
    <3> QED BY <2>1, <2>2, <3>1 DEF Anchors, Matrix
  <2>3. CASE cfg' = [cfg EXCEPT !.bin = job[p].bin] \/ cfg' \in {cfg, [cfg EXCEPT !.result = "failed"]}
    BY <1>2, <2>3
  <2> QED BY <1>3, <2>2, <2>3 DEF Helper!writeMatrixConfig, Helper!MatrixFailed, Helper!helperMatrixConfig
<1>4. ASSUME NEW p \in Terminals, NEW c \in Commands, Helper!CheckBegin(p, c) PROVE FALSE
  BY <1>2, <1>4 DEF Helper!CheckBegin, Helper!helperMatrixConfig
<1>5. ASSUME NEW p \in Terminals,
             \/ Helper!MatrixEnds(p) \/ Helper!ChildBegin(p) \/ Helper!ChildEnds(p) \/ Helper!ReadReceipt(p)
             \/ Helper!ReadRedReceipt(p) \/ Helper!MatrixTimeout(p) \/ Helper!CheckAfter(p)
      PROVE  FALSE
  BY <1>2, <1>5 DEF Helper!MatrixEnds, Helper!ChildBegin, Helper!ChildEnds, Helper!ReadReceipt, Helper!ReadRedReceipt,
       Helper!MatrixTimeout, Helper!CheckAfter, Helper!MatrixFailed, Helper!helperMatrixConfig
<1>6. ASSUME NEW p \in Terminals,
             \/ Helper!AuthorizeBegin(p) \/ Helper!ProbeRead(p) \/ Helper!RecordReadAt(p) \/ Helper!RecordReadIdentity(p)
      PROVE  FALSE
  BY <1>2, <1>6 DEF Helper!AuthorizeBegin, Helper!ProbeRead, Helper!RecordReadAt, Helper!RecordReadIdentity
<1>7. ASSUME NEW p \in Terminals,
             \/ Helper!CswapBegin(p) \/ Helper!CswapRead(p) \/ Helper!CswapStage(p) \/ Helper!CswapHash(p)
             \/ Helper!CswapUpdate(p) \/ Helper!CswapAuthorized(p)
      PROVE  FALSE
  BY <1>2, <1>7 DEF Helper!CswapBegin, Helper!CswapRead, Helper!CswapStage, Helper!CswapHash, Helper!CswapUpdate,
       Helper!CswapAuthorized
<1>8. ASSUME NEW p \in Terminals,
             \/ Helper!LiveBegin(p) \/ Helper!LiveGate(p) \/ Helper!LiveSweep(p) \/ Helper!LiveStart(p)
             \/ Helper!AgentEnds(p) \/ Helper!LiveEnds(p)
      PROVE  FALSE
  BY <1>2, <1>8 DEF Helper!LiveBegin, Helper!LiveGate, Helper!LiveSweep, Helper!LiveStart, Helper!AgentEnds, Helper!LiveEnds
<1>9. ASSUME NEW p \in Terminals,
             \/ \E s \in Shas : Helper!InstallBegin(p, s)
             \/ Helper!InstallCopy(p) \/ Helper!assertExistingRelease(p) \/ Helper!InstallPlace(p)
             \/ Helper!recordHelperIdentityHash(p) \/ Helper!publishCurrent(p) \/ Helper!Crash(p)
      PROVE  FALSE
  BY <1>9, InstallPinStep DEF Helper!InstallBegin, Helper!InstallCopy, Helper!assertExistingRelease, Helper!InstallPlace,
       Helper!publishCurrent, Helper!Crash
<1>10. ASSUME \/ Helper!Rebuild \/ \E i \in Helper!cswapItems : Helper!CswapRotates(i)
              \/ UNCHANGED Helper!vars
       PROVE  FALSE
  BY <1>10 DEF Helper!Rebuild, Helper!CswapRotates, Helper!vars
<1> QED BY <1>3, <1>4, <1>5, <1>6, <1>7, <1>8, <1>9, <1>10 DEF Helper!Next

\* Only an update that found the date it had read takes a C-swap item back.
LEMMA RewindStep ==
  ASSUME HelperInv, [Helper!Next]_(Helper!vars), NEW i \in Helper!cswapItems, cswap'[i].ver < cswap[i].ver
  PROVE  \E p \in Terminals : job[p].pc = "update" /\ job[p].at = i /\ job[p].date = cswap[i].date
<1>1. cswap' # cswap
  <2>1. cswap[i].ver \in Nat
    BY DEF HelperInv, HelperType
  <2> QED BY <2>1
<1>2. ASSUME NEW p \in Terminals, NEW c \in Commands, Helper!CheckBegin(p, c) PROVE FALSE
  BY <1>1, <1>2 DEF Helper!CheckBegin
<1>3. ASSUME NEW p \in Terminals,
             \/ Helper!MatrixEnds(p) \/ Helper!ChildBegin(p) \/ Helper!ChildEnds(p) \/ Helper!ReadReceipt(p)
             \/ Helper!ReadRedReceipt(p) \/ Helper!MatrixTimeout(p) \/ Helper!CheckAfter(p) \/ Helper!writeMatrixConfig(p)
      PROVE  FALSE
  BY <1>1, <1>3 DEF Helper!MatrixEnds, Helper!ChildBegin, Helper!ChildEnds, Helper!ReadReceipt, Helper!ReadRedReceipt,
       Helper!MatrixTimeout, Helper!CheckAfter, Helper!writeMatrixConfig
<1>4. ASSUME NEW p \in Terminals,
             \/ Helper!AuthorizeBegin(p) \/ Helper!ProbeRead(p) \/ Helper!RecordReadAt(p) \/ Helper!RecordReadIdentity(p)
             \/ Helper!CswapBegin(p) \/ Helper!CswapRead(p) \/ Helper!CswapStage(p) \/ Helper!CswapHash(p)
             \/ Helper!CswapAuthorized(p)
      PROVE  FALSE
  BY <1>1, <1>4 DEF Helper!AuthorizeBegin, Helper!ProbeRead, Helper!RecordReadAt, Helper!RecordReadIdentity,
       Helper!CswapBegin, Helper!CswapRead, Helper!CswapStage, Helper!CswapHash, Helper!CswapAuthorized
<1>5. ASSUME NEW p \in Terminals,
             \/ Helper!LiveBegin(p) \/ Helper!LiveGate(p) \/ Helper!LiveSweep(p) \/ Helper!LiveStart(p)
             \/ Helper!AgentEnds(p) \/ Helper!LiveEnds(p)
      PROVE  FALSE
  BY <1>1, <1>5 DEF Helper!LiveBegin, Helper!LiveGate, Helper!LiveSweep, Helper!LiveStart, Helper!AgentEnds, Helper!LiveEnds
<1>6. ASSUME NEW p \in Terminals,
             \/ \E s \in Shas : Helper!InstallBegin(p, s)
             \/ Helper!InstallCopy(p) \/ Helper!assertExistingRelease(p) \/ Helper!InstallPlace(p)
             \/ Helper!recordHelperIdentityHash(p) \/ Helper!publishCurrent(p) \/ Helper!Crash(p)
      PROVE  FALSE
  BY <1>1, <1>6 DEF Helper!InstallBegin, Helper!InstallCopy, Helper!assertExistingRelease, Helper!InstallPlace,
       Helper!recordHelperIdentityHash, Helper!publishCurrent, Helper!Crash
<1>7. ASSUME NEW p \in Terminals, Helper!CswapUpdate(p)
      PROVE  job[p].pc = "update" /\ job[p].at = i /\ job[p].date = cswap[i].date
  <2>1. cswap'[i] # cswap[i]
    <3>1. cswap[i].ver \in Nat
      BY DEF HelperInv, HelperType
    <3> QED BY <3>1
  <2> QED BY <1>7, <2>1, CswapUpdateStep
<1>8. ASSUME NEW k \in Helper!cswapItems, Helper!CswapRotates(k) PROVE FALSE
  BY <1>8, CswapRotatesStep
<1>9. CASE Helper!Rebuild \/ UNCHANGED Helper!vars
  BY <1>1, <1>9 DEF Helper!Rebuild, Helper!vars
<1> QED BY <1>2, <1>3, <1>4, <1>5, <1>6, <1>7, <1>8, <1>9 DEF Helper!Next

\* The pin moves only by a matrix that saw another one, and a C-swap item goes back only when the
\* rotation it loses has the date of the write before: for any number of terminals, builds, items,
\* releases and rotations.
THEOREM AnchorsKeptHolds == SuiteSpec => AnchorsKept
<1>1. [SuiteNext]_SuiteVars => [Helper!Next]_(Helper!vars)
  BY DEF SuiteNext, SuiteVars, helperVars, Helper!vars
<1>2. HelperInv /\ [Helper!Next]_(Helper!vars) =>
        [cfg.pin # None /\ cfg'.pin # cfg.pin =>
           \E p \in Terminals : /\ job[p].cmd \in {"matrix", "check-launchd"}
                                /\ job[p].pc = "pin" /\ job[p].pin # cfg.pin]_(Helper!vars)
  BY PinStep
<1>3. HelperInv /\ [Helper!Next]_(Helper!vars) =>
        [\A i \in Helper!cswapItems : cswap'[i].ver < cswap[i].ver =>
           \E p \in Terminals : job[p].pc = "update" /\ job[p].at = i /\ job[p].date = cswap[i].date]_(Helper!vars)
  BY RewindStep
<1>4. SuiteSpec => Helper!PinKept
  BY <1>1, <1>2, HelperAlways, PTL DEF SuiteSpec, Helper!PinKept
<1>5. SuiteSpec => Helper!CswapNeverRewound
  BY <1>1, <1>3, HelperAlways, PTL DEF SuiteSpec, Helper!CswapNeverRewound
<1> QED BY <1>4, <1>5 DEF AnchorsKept

-----------------------------------------------------------------------------
(* The stores: types *)

Passes   == {"add", "update", "delete", "find", "true"}
Statuses == {"none", "ok", "75", "125-deadline", "125-no-secret", "1", "44", "45"}
Shells   == [p : Clients, n : Nat, pass : Passes, svc : Services,
             st : {"spawned", "locked", "started", "run", "exit"}, started : BOOLEAN, late : BOOLEAN,
             status : Statuses]
Values   == Clients \cup {"plain", None}
Snaps    == [Services -> Values]
CallRecs == [n : Nat, pc : {"idle", "wait", "key", "newkey", "read", "write"},
             op : {"set", "get", "delete", "probe"}, svc : Services \cup {None}, cmd : Passes \cup {None},
             out : {"none", "ok", "failed", "not-started", "unknown", "refused"},
             snap : Snaps \cup {None}, key : Clients \cup {"plain"}]

StoresType ==
  /\ item \in Snaps /\ inner \in SUBSET Shells
  /\ call \in [Clients -> CallRecs]
  /\ \A p \in Clients : /\ call[p].pc # "idle" => call[p].svc \in Services
                        /\ call[p].pc = "write" => call[p].snap \in Snaps
  /\ key \in Clients \cup {"none", "short"}
  /\ wrote \in [Clients -> BOOLEAN] /\ expect \in [Services -> BOOLEAN] /\ torn = FALSE
  /\ DOMAIN lock = Services

-----------------------------------------------------------------------------
(* The stores: the Keychain's clients *)

Id(c) == [p |-> c.p, n |-> c.n, pass |-> c.pass]
Waits(p) == call[p].pc = "wait"
\* A client of the operation that p is in or made last; the one p waits for.
Last(c) == c.n = call[c.p].n
Awaited(c) == Waits(c.p) /\ Last(c) /\ c.pass = call[c.p].cmd
Did(c) == c.st = "exit" /\ c.status = "ok" /\ Stores!isWriteRequest(c.pass)

\* Clients are told apart by process, call and pass; none is ahead of its process, and the one
\* that is of the call at hand is the one awaited.
Known == \A c \in inner :
  /\ c.n <= call[c.p].n
  /\ Waits(c.p) /\ Last(c) => c.pass = call[c.p].cmd
  /\ \A d \in inner : Id(c) = Id(d) => c = d

\* An unfinished client past lockf has the lock of its service; a finished one is awaited, and its
\* status says whether its write has happened.
Works == \A c \in inner :
  /\ c.st \in {"locked", "started", "run"} => lock[c.svc] = Id(c)
  /\ c.st = "exit" => Awaited(c)
  /\ c.pass = "true" => ~c.late
  /\ Did(c) => wrote[c.p]

\* What p knows of its operation while it waits, and what it was told of it.
Commands1 == [set |-> {"add", "update"}, get |-> {"find"}, delete |-> {"delete"}, probe |-> {"true"}]
Told(p) ==
  /\ Waits(p) => /\ call[p].out = "none" /\ call[p].cmd \in Commands1[call[p].op]
                 /\ wrote[p] => \E c \in inner : c.p = p /\ Last(c) /\ Did(c)
  /\ call[p].out = "ok" /\ call[p].op \in {"set", "delete"} => wrote[p]
  /\ call[p].out \in {"not-started", "failed"} /\ call[p].op # "get" =>
       ~wrote[p] /\ ~\E c \in inner : c.p = p /\ Last(c)

NativeInv ==
  IF kind = "macos-keychain" THEN Known /\ Works /\ \A p \in Clients : Told(p) /\ call[p].pc \in {"idle", "wait"}
  ELSE inner = {} /\ \A p \in Clients : ~Waits(p)

-----------------------------------------------------------------------------
(* The stores: the file backends *)

\* An operation that overlaps no other writes back what it read, under the key that is in force,
\* and a key is in force before the first item is written.
File(p) ==
  /\ call[p].pc = "newkey" => key = "short"
  /\ kind = "linux-file" /\ call[p].pc \in {"read", "write"} /\ call[p].op # "delete" =>
       call[p].key = key /\ key \in Clients
  /\ kind # "linux-file" => call[p].key = "plain" /\ call[p].pc \notin {"key", "newkey"}
  /\ call[p].pc = "write" => call[p].snap = item

FileInv ==
  kind \in Stores!FileKinds /\ ~raced =>
    /\ \A p, q \in Clients : call[p].pc # "idle" /\ call[q].pc # "idle" => p = q
    /\ \A p \in Clients : File(p)
    /\ \A s \in Services : expect[s] => /\ item[s] # None
                                        /\ kind = "linux-file" => item[s] = key /\ key \in Clients

StoresInv == StoresType /\ NativeInv /\ FileInv

LEMMA NoCallType == Stores!NoCall \in CallRecs
  BY DEF Stores!NoCall, CallRecs

LEMMA InitStores == Stores!Init => StoresInv
<1> SUFFICES ASSUME Stores!Init PROVE StoresInv
  OBVIOUS
<1>1. call = [p \in Clients |-> Stores!NoCall] /\ inner = {} /\ key = "none" /\ torn = FALSE /\ raced = FALSE
      /\ item = [s \in Services |-> None] /\ lock = [s \in Services |-> None]
      /\ wrote = [p \in Clients |-> FALSE] /\ expect = [s \in Services |-> FALSE]
  BY DEF Stores!Init
<1>3. \A p \in Clients : /\ call[p].pc = "idle" /\ call[p].out = "none" /\ call[p].key = "plain"
  BY <1>1 DEF Stores!NoCall
<1>2. StoresType
  BY <1>1, <1>3, NoCallType DEF StoresType, Snaps, Values
<1>4. NativeInv
  BY <1>1, <1>3 DEF NativeInv, Known, Works, Told, Waits
<1>5. FileInv
  BY <1>1, <1>3 DEF FileInv, File
<1> QED BY <1>2, <1>4, <1>5 DEF StoresInv

-----------------------------------------------------------------------------
(* The stores: steps of a client *)

\* A client that has not ended changes, ends for its caller, or is gone.
LEMMA ShellKeeps ==
  ASSUME StoresInv, kind = "macos-keychain", NEW c \in inner, c.st # "exit",
         UNCHANGED <<kind, call, key, torn, expect, raced>>, item' \in Snaps, DOMAIN lock' = Services,
         NEW D \in SUBSET Shells, inner' = (inner \ {c}) \cup D,
         \A d \in D : /\ Id(d) = Id(c) /\ d.p = c.p /\ d.n = c.n /\ d.pass = c.pass
                      /\ d.st \in {"locked", "started", "run"} => lock'[d.svc] = Id(c)
                      /\ d.st = "exit" => Awaited(c)
                      /\ d.pass = "true" => ~d.late
                      /\ Did(d) => wrote'[c.p],
         \A d, e \in D : d = e,
         \A s \in Services : lock'[s] = lock[s] \/ lock[s] \in {None, Id(c)},
         wrote' \in [Clients -> BOOLEAN],
         \A p \in Clients : \/ wrote'[p] = wrote[p]
                            \/ p = c.p /\ Last(c) /\ wrote'[p] /\ (Waits(p) => \E d \in D : Did(d))
  PROVE  StoresInv'
<1>1. /\ StoresType /\ Known /\ Works /\ inner \subseteq Shells /\ c \in Shells /\ c.p \in Clients
      /\ \A p \in Clients : Told(p) /\ call[p].pc \in {"idle", "wait"}
  BY DEF StoresInv, StoresType, NativeInv, Shells
<1>2. StoresType'
  BY <1>1 DEF StoresType
<1>3. Known'
  <2>1. \A x \in inner' : \E y \in inner : Id(x) = Id(y) /\ x.p = y.p /\ x.n = y.n /\ x.pass = y.pass
    OBVIOUS
  <2>2. ASSUME NEW x \in inner', NEW y \in inner', Id(x) = Id(y) PROVE x = y
    <3>1. CASE x \in inner \ {c} /\ y \in inner \ {c}
      BY <1>1, <2>2, <3>1 DEF Known
    <3>2. CASE x \in D /\ y \in D
      BY <3>2
    <3>3. CASE x \in inner \ {c} /\ y \in D
      BY <1>1, <2>2, <3>3 DEF Known
    <3>4. CASE y \in inner \ {c} /\ x \in D
      BY <1>1, <2>2, <3>4 DEF Known
    <3> QED BY <3>1, <3>2, <3>3, <3>4
  <2>3. ASSUME NEW x \in inner'
        PROVE  x.n <= call'[x.p].n /\ (Waits(x.p)' /\ Last(x)' => x.pass = call'[x.p].cmd)
    <3>1. PICK y \in inner : x.p = y.p /\ x.n = y.n /\ x.pass = y.pass
      BY <2>1
    <3> QED BY <1>1, <3>1 DEF Known, Waits, Last
  <2>4. \A x, y : Id(x)' = Id(x)
    BY DEF Id
  <2> QED BY <2>2, <2>3 DEF Known, Id
<1>4. Works'
  <2>1. ASSUME NEW x \in inner \ {c}
        PROVE  /\ x.st \in {"locked", "started", "run"} => lock'[x.svc] = Id(x)
               /\ x.st = "exit" => Awaited(x)'
               /\ x.pass = "true" => ~x.late
               /\ Did(x) => wrote'[x.p]
    <3>1. x \in Shells /\ x.p \in Clients /\ x.svc \in Services /\ Id(x) # Id(c)
      BY <1>1 DEF Known, Shells
    <3>2. Id(x) # None
      <4>1. x.pass \in Passes /\ x.n \in Nat
        BY <3>1 DEF Shells
      <4> QED BY <3>1, <4>1, StoresAssumption DEF Id, Passes
    <3>3. x.st \in {"locked", "started", "run"} => lock[x.svc] = Id(x)
      BY <1>1 DEF Works
    <3>4. x.st \in {"locked", "started", "run"} => lock'[x.svc] = Id(x)
      BY <3>1, <3>2, <3>3
    <3>5. x.st = "exit" => Awaited(x)'
      BY <1>1 DEF Works, Awaited, Waits, Last
    <3>6. Did(x) => wrote'[x.p]
      BY <1>1, <3>1 DEF Works
    <3> QED BY <1>1, <3>4, <3>5, <3>6 DEF Works
  <2>2. ASSUME NEW x \in D
        PROVE  /\ x.st \in {"locked", "started", "run"} => lock'[x.svc] = Id(x)
               /\ x.st = "exit" => Awaited(x)'
               /\ x.pass = "true" => ~x.late
               /\ Did(x) => wrote'[x.p]
    BY DEF Awaited, Waits, Last
  <2> QED BY <2>1, <2>2 DEF Works, Id, Did, Stores!isWriteRequest
<1>5. ASSUME NEW p \in Clients PROVE Told(p)'
  <2>1. Told(p)
    BY <1>1
  <2>2. ASSUME Waits(p), wrote'[p] PROVE \E x \in inner' : x.p = p /\ Last(x) /\ Did(x)
    <3>1. CASE wrote'[p] = wrote[p]
      <4>1. PICK x \in inner : x.p = p /\ Last(x) /\ Did(x)
        BY <2>1, <2>2, <3>1 DEF Told
      <4> QED BY <4>1 DEF Did
    <3>2. CASE p = c.p /\ Last(c) /\ \E d \in D : Did(d)
      BY <3>2 DEF Last
    <3> QED BY <2>2, <3>1, <3>2
  <2>3. ASSUME call[p].out \in {"not-started", "failed"}, call[p].op # "get"
        PROVE  ~wrote'[p] /\ ~\E x \in inner' : x.p = p /\ Last(x)
    <3>1. ~wrote[p] /\ \A x \in inner : ~(x.p = p /\ Last(x))
      BY <2>1, <2>3 DEF Told
    <3> QED BY <3>1 DEF Last
  <2>4. call[p].out = "ok" /\ call[p].op \in {"set", "delete"} => wrote'[p]
    BY <2>1 DEF Told
  <2> QED BY <2>1, <2>2, <2>3, <2>4 DEF Told, Waits, Last, Did, Stores!isWriteRequest
<1>6. FileInv'
  BY DEF FileInv, Stores!FileKinds
<1> QED BY <1>1, <1>2, <1>3, <1>4, <1>5, <1>6 DEF StoresInv, NativeInv

\* A shell that ends: its client is finished if its caller waits for it, or gone.
LEMMA ExitKeeps ==
  ASSUME StoresInv, kind = "macos-keychain", NEW c \in inner, c.st # "exit",
         NEW status \in Statuses, Stores!Exit(c, status),
         UNCHANGED <<kind, call, key, torn, expect, raced>>, item' \in Snaps,
         wrote' = IF status = "ok" /\ Stores!isWriteRequest(c.pass) /\ call[c.p].n = c.n
                  THEN [wrote EXCEPT ![c.p] = TRUE] ELSE wrote
  PROVE  StoresInv'
<1> DEFINE d == [c EXCEPT !.st = "exit", !.status = status]
           D == IF c \in Stores!Mine(c.p) THEN {d} ELSE {}
<1>1. /\ StoresType /\ Known /\ Works /\ inner \subseteq Shells /\ c \in Shells /\ c.p \in Clients
      /\ wrote \in [Clients -> BOOLEAN] /\ DOMAIN lock = Services
  BY DEF StoresInv, StoresType, NativeInv, Shells
<1>2. /\ d \in Shells /\ d.p = c.p /\ d.n = c.n /\ d.pass = c.pass /\ d.svc = c.svc
      /\ d.st = "exit" /\ d.status = status /\ d.late = c.late
  BY <1>1 DEF Shells
<1> HIDE DEF d
<1>3. inner' = (inner \ {c}) \cup D
  <2>1. {[e EXCEPT !.st = "exit", !.status = status] : e \in Stores!Mine(c.p) \cap {c}} = D
    BY DEF d
  <2> QED BY <2>1 DEF Stores!Exit
<1>4. c \in Stores!Mine(c.p) => Awaited(c)
  BY DEF Stores!Mine, Awaited, Waits, Last
<1>5. Waits(c.p) /\ Last(c) => c \in Stores!Mine(c.p)
  BY <1>1 DEF Stores!Mine, Known, Waits, Last
<1>6. D \subseteq Shells /\ \A x, y \in D : x = y
  BY <1>2
<1>7. DOMAIN lock' = Services /\ \A s \in Services : lock'[s] = lock[s] \/ lock[s] \in {None, Id(c)}
  BY <1>1 DEF Stores!Exit, Id
<1>8. wrote' \in [Clients -> BOOLEAN]
  BY <1>1
<1>9. ASSUME NEW p \in Clients
      PROVE  \/ wrote'[p] = wrote[p]
             \/ p = c.p /\ Last(c) /\ wrote'[p] /\ (Waits(p) => \E x \in D : Did(x))
  <2>1. CASE status = "ok" /\ Stores!isWriteRequest(c.pass) /\ call[c.p].n = c.n /\ p = c.p
    <3>1. Last(c) /\ wrote'[p]
      BY <1>1, <2>1 DEF Last
    <3>2. ASSUME Waits(p) PROVE d \in D /\ Did(d)
      BY <1>2, <1>5, <2>1, <3>1, <3>2 DEF Did, Stores!isWriteRequest
    <3> QED BY <2>1, <3>1, <3>2
  <2>2. CASE ~(status = "ok" /\ Stores!isWriteRequest(c.pass) /\ call[c.p].n = c.n /\ p = c.p)
    BY <1>1, <2>2
  <2> QED BY <2>1, <2>2
<1>10. ASSUME NEW x \in D
       PROVE  /\ Id(x) = Id(c) /\ x.p = c.p /\ x.n = c.n /\ x.pass = c.pass
              /\ x.st \in {"locked", "started", "run"} => lock'[x.svc] = Id(c)
              /\ x.st = "exit" => Awaited(c)
              /\ x.pass = "true" => ~x.late
              /\ Did(x) => wrote'[c.p]
  <2>1. x = d /\ c \in Stores!Mine(c.p)
    OBVIOUS
  <2>2. Id(x) = Id(c) /\ x.p = c.p /\ x.n = c.n /\ x.pass = c.pass /\ x.st = "exit" /\ x.late = c.late
    BY <1>2, <2>1 DEF Id
  <2>3. Awaited(c)
    BY <1>4, <2>1
  <2>4. x.pass = "true" => ~x.late
    BY <1>1, <2>2 DEF Works
  <2>5. Did(x) => wrote'[c.p]
    BY <1>1, <1>2, <2>1, <2>3 DEF Did, Awaited, Last, Stores!isWriteRequest
  <2> QED BY <2>2, <2>3, <2>4, <2>5
<1> HIDE DEF D
<1> QED BY <1>1, <1>3, <1>6, <1>7, <1>8, <1>9, <1>10, ShellKeeps

LEMMA StoreDids ==
  ASSUME StoresInv, NEW c \in inner
  PROVE  c \in Shells /\ c.p \in Clients /\ c.svc \in Services /\ kind = "macos-keychain"
         /\ item \in Snaps /\ wrote \in [Clients -> BOOLEAN] /\ DOMAIN lock = Services
  BY DEF StoresInv, StoresType, NativeInv, Shells

\* A client that goes on under the lock.
LEMMA GoesOn ==
  ASSUME StoresInv, NEW c \in inner, c.st # "exit", NEW d \in Shells,
         d.p = c.p, d.n = c.n, d.pass = c.pass, d.svc = c.svc, d.st # "exit",
         d.st \in {"locked", "started", "run"} => lock'[c.svc] = Id(c),
         d.pass = "true" => ~d.late,
         inner' = (inner \ {c}) \cup {d}, DOMAIN lock' = Services,
         \A s \in Services : lock'[s] = lock[s] \/ lock[s] \in {None, Id(c)},
         UNCHANGED <<kind, item, call, key, torn, wrote, expect, raced>>
  PROVE  StoresInv'
<1> DEFINE D == {d}
<1>1. c \in Shells /\ kind = "macos-keychain" /\ item' \in Snaps /\ wrote' \in [Clients -> BOOLEAN]
  BY StoreDids
<1>2. D \in SUBSET Shells /\ inner' = (inner \ {c}) \cup D /\ \A x, y \in D : x = y
  OBVIOUS
<1>3. \A x \in D : /\ Id(x) = Id(c) /\ x.p = c.p /\ x.n = c.n /\ x.pass = c.pass
                   /\ x.st \in {"locked", "started", "run"} => lock'[x.svc] = Id(c)
                   /\ x.st = "exit" => Awaited(c)
                   /\ x.pass = "true" => ~x.late
                   /\ Did(x) => wrote'[c.p]
  BY DEF Id, Did
<1>4. \A p \in Clients : wrote'[p] = wrote[p]
  OBVIOUS
<1> HIDE DEF D
<1> QED BY <1>1, <1>2, <1>3, <1>4, ShellKeeps

LEMMA StoTryLock == ASSUME StoresInv, NEW c \in inner, Stores!TryLock(c) PROVE StoresInv'
<1>1. c \in Shells /\ kind = "macos-keychain" /\ item \in Snaps /\ c.st = "spawned" /\ DOMAIN lock = Services /\ c.svc \in Services
  BY StoreDids DEF Stores!TryLock
<1>2. UNCHANGED <<kind, item, call, key, torn, wrote, expect, raced>>
  BY DEF Stores!TryLock
<1>3. CASE lock[c.svc] # None
  <2>1. Stores!Exit(c, "75")
    BY <1>3 DEF Stores!TryLock
  <2>2. "75" \in Statuses /\ "75" # "ok"
    BY DEF Statuses
  <2> QED BY <1>1, <1>2, <2>1, <2>2, ExitKeeps
<1>4. CASE lock[c.svc] = None
  <2> DEFINE d == [c EXCEPT !.st = "locked"]
  <2>1. /\ d \in Shells /\ d.p = c.p /\ d.n = c.n /\ d.pass = c.pass /\ d.svc = c.svc /\ d.st = "locked"
        /\ d.late = c.late
    BY <1>1 DEF Shells
  <2>2. inner' = (inner \ {c}) \cup {d} /\ lock' = [lock EXCEPT ![c.svc] = Id(c)]
    BY <1>4 DEF Stores!TryLock, Id
  <2> HIDE DEF d
  <2>3. d.pass = "true" => ~d.late
    BY <2>1 DEF StoresInv, NativeInv, Works, StoresType
  <2>4. DOMAIN lock' = Services /\ lock'[c.svc] = Id(c) /\ \A s \in Services : lock'[s] = lock[s] \/ lock[s] \in {None, Id(c)}
    BY <1>1, <1>4, <2>2
  <2> QED BY <1>1, <1>2, <2>1, <2>2, <2>3, <2>4, GoesOn
<1> QED BY <1>3, <1>4

LEMMA StoProbeEnds == ASSUME StoresInv, NEW c \in inner, Stores!ProbeEnds(c) PROVE StoresInv'
<1>1. kind = "macos-keychain" /\ item \in Snaps /\ c.st = "locked" /\ c.pass = "true"
  BY StoreDids DEF Stores!ProbeEnds
<1>2. UNCHANGED <<kind, item, call, key, torn, wrote, expect, raced>> /\ Stores!Exit(c, "ok")
  BY DEF Stores!ProbeEnds
<1>3. "ok" \in Statuses /\ ~Stores!isWriteRequest(c.pass)
  BY <1>1 DEF Statuses, Stores!isWriteRequest
<1> QED BY <1>1, <1>2, <1>3, ExitKeeps

LEMMA StoSayStarted == ASSUME StoresInv, NEW c \in inner, Stores!SayStarted(c) PROVE StoresInv'
<1>1. c \in Shells /\ kind = "macos-keychain" /\ item \in Snaps /\ c.st = "locked" /\ DOMAIN lock = Services /\ c.svc \in Services /\ c.pass # "true"
  BY StoreDids DEF Stores!SayStarted
<1>2. UNCHANGED <<kind, item, call, key, torn, wrote, expect, raced>>
  BY DEF Stores!SayStarted
<1>3. CASE c.late
  <2>1. Stores!Exit(c, "125-deadline")
    BY <1>3 DEF Stores!SayStarted
  <2>2. "125-deadline" \in Statuses /\ "125-deadline" # "ok"
    BY DEF Statuses
  <2> QED BY <1>1, <1>2, <2>1, <2>2, ExitKeeps
<1>4. CASE ~c.late
  <2> DEFINE d == [c EXCEPT !.st = "started", !.started = TRUE]
  <2>1. /\ d \in Shells /\ d.p = c.p /\ d.n = c.n /\ d.pass = c.pass /\ d.svc = c.svc /\ d.st = "started"
    BY <1>1 DEF Shells
  <2>2. inner' = (inner \ {c}) \cup {d} /\ lock' = lock
    BY <1>4 DEF Stores!SayStarted
  <2> HIDE DEF d
  <2>3. lock[c.svc] = Id(c)
    BY <1>1 DEF StoresInv, NativeInv, Works
  <2> QED BY <1>1, <1>2, <2>1, <2>2, <2>3, GoesOn
<1> QED BY <1>3, <1>4

LEMMA StoExecClient == ASSUME StoresInv, NEW c \in inner, Stores!ExecClient(c) PROVE StoresInv'
<1>1. c \in Shells /\ kind = "macos-keychain" /\ item \in Snaps /\ c.st = "started" /\ DOMAIN lock = Services /\ c.svc \in Services
  BY StoreDids DEF Stores!ExecClient
<1>2. UNCHANGED <<kind, item, call, key, torn, wrote, expect, raced>>
  BY DEF Stores!ExecClient
<1>3. CASE Stores!Exit(c, "125-no-secret")
  <2>2. "125-no-secret" \in Statuses /\ "125-no-secret" # "ok"
    BY DEF Statuses
  <2> QED BY <1>1, <1>2, <1>3, <2>2, ExitKeeps
<1>4. CASE Stores!Exit(c, "125-deadline")
  <2>2. "125-deadline" \in Statuses /\ "125-deadline" # "ok"
    BY DEF Statuses
  <2> QED BY <1>1, <1>2, <1>4, <2>2, ExitKeeps
<1>5. CASE ~c.late /\ inner' = (inner \ {c}) \cup {[c EXCEPT !.st = "run"]} /\ lock' = lock
  <2> DEFINE d == [c EXCEPT !.st = "run"]
  <2>1. /\ d \in Shells /\ d.p = c.p /\ d.n = c.n /\ d.pass = c.pass /\ d.svc = c.svc /\ d.st = "run" /\ d.late = c.late
    BY <1>1 DEF Shells
  <2>2. inner' = (inner \ {c}) \cup {d}
    BY <1>5
  <2> HIDE DEF d
  <2>3. lock[c.svc] = Id(c)
    BY <1>1 DEF StoresInv, NativeInv, Works
  <2>4. ~d.late
    BY <1>5, <2>1
  <2> QED BY <1>1, <1>2, <1>5, <2>1, <2>2, <2>3, <2>4, GoesOn
<1> QED BY <1>3, <1>4, <1>5 DEF Stores!ExecClient

LEMMA StoExpire == ASSUME StoresInv, NEW c \in inner, Stores!Expire(c) PROVE StoresInv'
<1>1. c \in Shells /\ kind = "macos-keychain" /\ c.st # "exit" /\ c.pass # "true" /\ DOMAIN lock = Services /\ c.svc \in Services
  BY StoreDids DEF Stores!Expire
<1>2. UNCHANGED <<kind, item, call, key, torn, wrote, expect, raced>> /\ lock' = lock
  BY DEF Stores!Expire
<1> DEFINE d == [c EXCEPT !.late = TRUE]
<1>3. /\ d \in Shells /\ d.p = c.p /\ d.n = c.n /\ d.pass = c.pass /\ d.svc = c.svc /\ d.st = c.st
  BY <1>1 DEF Shells
<1>4. inner' = (inner \ {c}) \cup {d}
  BY DEF Stores!Expire
<1> HIDE DEF d
<1>5. c.st \in {"locked", "started", "run"} => lock[c.svc] = Id(c)
  BY <1>1 DEF StoresInv, NativeInv, Works
<1> QED BY <1>1, <1>2, <1>3, <1>4, <1>5, GoesOn

LEMMA StoClientWorks == ASSUME StoresInv, NEW c \in inner, Stores!ClientWorks(c) PROVE StoresInv'
<1>1. c \in Shells /\ kind = "macos-keychain" /\ item \in Snaps /\ c.st = "run" /\ c.svc \in Services
  BY StoreDids DEF Stores!ClientWorks
<1>2. UNCHANGED <<kind, call, key, torn, expect, raced>>
  BY DEF Stores!ClientWorks
<1>3. item' \in Snaps
  <2>1. [item EXCEPT ![c.svc] = "plain"] \in Snaps /\ [item EXCEPT ![c.svc] = None] \in Snaps
    BY <1>1 DEF Snaps, Values
  <2> QED BY <1>1, <2>1 DEF Stores!ClientWorks
<1>4. \E status \in Statuses : Stores!Effect(c, status)
  BY DEF Stores!ClientWorks, Statuses
<1>5. PICK status \in Statuses : Stores!Effect(c, status)
  BY <1>4
<1> QED BY <1>1, <1>2, <1>3, <1>5, ExitKeeps DEF Stores!Effect

-----------------------------------------------------------------------------
(* The stores: steps of a caller of the Keychain *)

\* A caller begins a call, follows it up or is done with it: its call is r, and E its new client.
Follows(p, r, E) ==
  /\ call' = [call EXCEPT ![p] = r] /\ r.pc \in {"idle", "wait"} /\ r.n \in Nat /\ r.n >= call[p].n
  /\ UNCHANGED <<kind, item, lock, key, torn, expect, raced>>
  /\ wrote' \in [Clients -> BOOLEAN] /\ \A q \in Clients \ {p} : wrote'[q] = wrote[q]
  /\ inner' = Stores!Running(p) \cup E
  /\ \A d \in E : /\ d.p = p /\ d.n = r.n /\ d.pass = r.cmd /\ r.pc = "wait"
                  /\ d.st = "spawned" /\ ~d.late
  /\ \A d, e \in E : d = e
  /\ r.pc = "wait" => /\ ~\E x \in Stores!Running(p) : x.p = p /\ x.n = r.n
                      /\ r.svc \in Services /\ r.out = "none" /\ r.cmd \in Commands1[r.op] /\ ~wrote'[p]
  /\ r.out = "ok" /\ r.op \in {"set", "delete"} => wrote'[p]
  /\ r.out \in {"not-started", "failed"} /\ r.op # "get" =>
       ~wrote'[p] /\ ~\E x \in inner' : x.p = p /\ x.n = r.n

LEMMA CallKeeps ==
  ASSUME StoresInv, kind = "macos-keychain", NEW p \in Clients, NEW r \in CallRecs,
         NEW E \in SUBSET Shells, Follows(p, r, E)
  PROVE  StoresInv'
<1> USE DEF Follows
<1>1. /\ StoresType /\ Known /\ Works /\ inner \subseteq Shells /\ call \in [Clients -> CallRecs]
      /\ \A q \in Clients : Told(q) /\ call[q].pc \in {"idle", "wait"}
  BY DEF StoresInv, StoresType, NativeInv
<1>2. call'[p] = r /\ \A q \in Clients \ {p} : call'[q] = call[q]
  BY <1>1
<1>3. StoresType'
  <2>1. inner' \in SUBSET Shells
    BY <1>1 DEF Stores!Running
  <2>2. call' \in [Clients -> CallRecs]
    BY <1>1
  <2>3. \A q \in Clients : /\ call'[q].pc # "idle" => call'[q].svc \in Services
                           /\ call'[q].pc = "write" => call'[q].snap \in Snaps
    <3>1. \A q \in Clients \ {p} : /\ call[q].pc # "idle" => call[q].svc \in Services
                                   /\ call[q].pc = "write" => call[q].snap \in Snaps
      BY <1>1 DEF StoresType
    <3> QED BY <1>2, <3>1
  <2> QED BY <1>1, <2>1, <2>2, <2>3 DEF StoresType
<1>4. \A x \in Stores!Running(p) : x \in inner /\ x \in Shells /\ x.p \in Clients /\ x.n \in Nat /\ ~(x.p = p /\ x.st = "exit")
  BY <1>1 DEF Stores!Running, Shells
<1>5. \A q \in Clients : call[q].n \in Nat
  BY <1>1 DEF CallRecs
<1>6. Known'
  <2>1. ASSUME NEW x \in inner'
        PROVE  x.n <= call'[x.p].n /\ (Waits(x.p)' /\ Last(x)' => x.pass = call'[x.p].cmd)
    <3>1. CASE x \in E
      BY <1>2, <3>1
    <3>2. CASE x \in Stores!Running(p) /\ x.p = p
      BY <1>1, <1>2, <1>4, <1>5, <3>2 DEF Known, Waits, Last
    <3>3. CASE x \in Stores!Running(p) /\ x.p # p
      BY <1>1, <1>2, <1>4, <3>3 DEF Known, Waits, Last
    <3> QED BY <3>1, <3>2, <3>3
  <2>2. ASSUME NEW x \in inner', NEW y \in inner', Id(x) = Id(y) PROVE x = y
    <3>1. CASE x \in Stores!Running(p) /\ y \in Stores!Running(p)
      BY <1>1, <1>4, <2>2, <3>1 DEF Known
    <3>2. CASE x \in E /\ y \in E
      BY <3>2
    <3>3. x.p = y.p /\ x.n = y.n
      BY <2>2 DEF Id
    <3> QED BY <3>1, <3>2, <3>3
  <2> QED BY <2>1, <2>2 DEF Known, Id
<1>7. Works'
  <2>1. ASSUME NEW x \in inner'
        PROVE  /\ x.st \in {"locked", "started", "run"} => lock'[x.svc] = Id(x)
               /\ x.st = "exit" => Awaited(x)'
               /\ x.pass = "true" => ~x.late
               /\ Did(x) => wrote'[x.p]
    <3>1. CASE x \in E
      BY <3>1 DEF Did
    <3>2. CASE x \in Stores!Running(p) /\ x.p = p
      BY <1>1, <1>4, <3>2 DEF Works, Did
    <3>3. CASE x \in Stores!Running(p) /\ x.p # p
      BY <1>1, <1>2, <1>4, <3>3 DEF Works, Awaited, Waits, Last
    <3> QED BY <3>1, <3>2, <3>3
  <2> QED BY <2>1 DEF Works, Id, Did, Stores!isWriteRequest
<1>8. Told(p)'
  BY <1>2 DEF Told, Waits, Last
<1>9. ASSUME NEW q \in Clients \ {p} PROVE Told(q)'
  <2>1. Told(q) /\ call'[q] = call[q] /\ wrote'[q] = wrote[q]
    BY <1>1, <1>2
  <2>2. \A x : x \in inner' /\ x.p = q <=> x \in inner /\ x.p = q
    <3>1. \A x \in E : x.p # q
      OBVIOUS
    <3> QED BY <3>1 DEF Stores!Running
  <2>3. \A x : x.p = q => (Last(x)' <=> Last(x))
    BY <2>1 DEF Last
  <2>4. \A x : Did(x)' <=> Did(x)
    BY DEF Did, Stores!isWriteRequest
  <2> QED BY <2>1, <2>2, <2>3, <2>4 DEF Told, Waits
<1>10. FileInv'
  BY DEF FileInv, Stores!FileKinds
<1>11. \A q \in Clients : Told(q)' /\ call'[q].pc \in {"idle", "wait"}
  BY <1>1, <1>2, <1>8, <1>9
<1> QED BY <1>3, <1>6, <1>7, <1>10, <1>11 DEF StoresInv, NativeInv

LEMMA IdleRuns ==
  ASSUME StoresInv, kind = "macos-keychain", NEW p \in Clients, call[p].pc = "idle"
  PROVE  Stores!Running(p) = inner /\ \A x \in inner : x.p = p => x.n <= call[p].n
BY DEF Stores!Running, StoresInv, NativeInv, Works, Known, Awaited, Waits

LEMMA FreshType ==
  ASSUME StoresType, NEW p \in Clients, NEW s \in Services, NEW op \in Stores!StoreOps \cup {"probe"}
  PROVE  LET f == Stores!Fresh(p, s, op) IN
         /\ f \in CallRecs /\ f.n = call[p].n + 1 /\ f.n \in Nat /\ f.n >= call[p].n /\ f.n # call[p].n
         /\ f.pc = "idle" /\ f.op = op
         /\ f.svc = s /\ f.cmd = None /\ f.out = "none" /\ f.snap = None /\ f.key = "plain"
<1>1. call[p].n \in Nat /\ call[p].n + 1 \in Nat
  BY DEF StoresType, CallRecs
<1>3. op \in {"set", "get", "delete", "probe"}
  BY DEF Stores!StoreOps
<1>2. LET z == Stores!NoCall IN
      z \in CallRecs /\ z.pc = "idle" /\ z.cmd = None /\ z.out = "none" /\ z.snap = None /\ z.key = "plain"
  BY NoCallType DEF Stores!NoCall
<1> DEFINE f == [Stores!NoCall EXCEPT !.n = call[p].n + 1, !.op = op, !.svc = s]
<1>4. f \in CallRecs /\ f.n = call[p].n + 1 /\ f.pc = "idle" /\ f.op = op /\ f.svc = s
      /\ f.cmd = None /\ f.out = "none" /\ f.snap = None /\ f.key = "plain"
  BY <1>1, <1>2, <1>3 DEF CallRecs
<1>5. Stores!Fresh(p, s, op) = f
  BY DEF Stores!Fresh
<1> HIDE DEF f
<1> QED BY <1>1, <1>4, <1>5

LEMMA StoBeginNative ==
  ASSUME StoresInv, NEW p \in Clients, NEW s \in Services,
         NEW op \in Stores!StoreOps \cup {"probe"}, Stores!BeginNative(p, s, op)
  PROVE  StoresInv'
<1>1. /\ kind = "macos-keychain" /\ call[p].pc = "idle" /\ wrote' = [wrote EXCEPT ![p] = FALSE]
      /\ UNCHANGED <<kind, item, lock, key, torn, expect, raced>>
  BY DEF Stores!BeginNative
<1>2. /\ wrote \in [Clients -> BOOLEAN] /\ call \in [Clients -> CallRecs] /\ call[p].n \in Nat
      /\ inner \subseteq Shells
  BY DEF StoresInv, StoresType, CallRecs
<1>3. wrote' \in [Clients -> BOOLEAN] /\ ~wrote'[p] /\ \A q \in Clients \ {p} : wrote'[q] = wrote[q]
  BY <1>1, <1>2
<1>4. Stores!Running(p) = inner /\ \A x \in inner : x.p = p => x.n <= call[p].n
  BY <1>1, IdleRuns
<1>5. \A x \in inner : ~(x.p = p /\ x.n = call[p].n + 1)
  BY <1>2, <1>4
<1>8. /\ Stores!Fresh(p, s, op) \in CallRecs /\ Stores!Fresh(p, s, op).n = call[p].n + 1
      /\ Stores!Fresh(p, s, op).pc = "idle" /\ Stores!Fresh(p, s, op).op = op
      /\ Stores!Fresh(p, s, op).svc = s /\ Stores!Fresh(p, s, op).out = "none"
  BY FreshType DEF StoresInv
<1>6. CASE Stores!Refused(p, s, op)
  <2> DEFINE r == [Stores!Fresh(p, s, op) EXCEPT !.out = "refused"]
  <2>1. r \in CallRecs /\ r.n = call[p].n + 1 /\ r.pc = "idle" /\ r.out = "refused"
    BY <1>8 DEF CallRecs
  <2> DEFINE E == {}
  <2>2. call' = [call EXCEPT ![p] = r] /\ inner' = Stores!Running(p) \cup E
    BY <1>4, <1>6 DEF Stores!Refused
  <2>4. E \in SUBSET Shells /\ \A d : d \notin E
    OBVIOUS
  <2> HIDE DEF r, E
  <2>3. r.n \in Nat /\ r.n >= call[p].n
    BY <1>2, <2>1
  <2>5. Follows(p, r, E)
    BY <1>1, <1>3, <2>1, <2>2, <2>3, <2>4 DEF Follows
  <2> QED BY <1>1, <2>1, <2>4, <2>5, CallKeeps
<1>7. ASSUME call' = [call EXCEPT ![p] = [Stores!Fresh(p, s, op) EXCEPT
                      !.cmd = Stores!FirstCommand(op), !.pc = "wait"]],
             Stores!Spawn(p, s, Stores!FirstCommand(op))
      PROVE  StoresInv'
  <2> DEFINE cmd == Stores!FirstCommand(op)
             r == [Stores!Fresh(p, s, op) EXCEPT !.cmd = cmd, !.pc = "wait"]
             d == [p |-> p, n |-> r.n, pass |-> cmd, svc |-> s, st |-> "spawned",
                   started |-> FALSE, late |-> FALSE, status |-> "none"]
             E == {d}
  <2>1. cmd \in Passes /\ cmd \in Commands1[op]
    BY DEF Stores!FirstCommand, Passes, Commands1, Stores!StoreOps
  <2> HIDE DEF cmd
  <2>2. /\ r \in CallRecs /\ r.n = call[p].n + 1 /\ r.pc = "wait" /\ r.out = "none" /\ r.op = op
        /\ r.cmd = cmd /\ r.svc = s
    BY <1>8, <2>1 DEF CallRecs
  <2>3. call' = [call EXCEPT ![p] = r]
    BY <1>7 DEF cmd
  <2> HIDE DEF r
  <2>4. inner' = Stores!Running(p) \cup E
    BY <1>2, <1>7, <2>3 DEF Stores!Spawn, cmd
  <2>5. r.n \in Nat /\ r.n >= call[p].n
    BY <1>2, <2>2
  <2>6. E \in SUBSET Shells
    BY <2>1, <2>5 DEF Shells, Statuses
  <2>7. \A x \in E : /\ x.p = p /\ x.n = r.n /\ x.pass = r.cmd /\ r.pc = "wait" /\ x.st = "spawned" /\ ~x.late
    BY <2>2
  <2>8. ~\E x \in Stores!Running(p) : x.p = p /\ x.n = r.n
    BY <1>4, <1>5, <2>2
  <2>9. \A x, y \in E : x = y
    OBVIOUS
  <2> HIDE DEF E
  <2>10. Follows(p, r, E)
    BY <1>1, <1>3, <2>1, <2>2, <2>3, <2>4, <2>5, <2>6, <2>7, <2>8, <2>9 DEF Follows
  <2> QED BY <1>1, <2>2, <2>6, <2>10, CallKeeps
<1> QED BY <1>6, <1>7 DEF Stores!BeginNative

\* What a caller makes of a wrapper's end.
LEMMA Answers ==
  ASSUME NEW r, r.status \in Statuses \cup {"killed"}, NEW cmd,
         NEW a, a = Stores!Classify(cmd, Stores!keychainWrapperOutcome(r, cmd))
  PROVE  /\ a \in {"ok", "failed", "not-started", "unknown", "again"}
         /\ a = "again" => r.status = "45" /\ cmd = "add"
         /\ a = "ok" => r.status = "ok"
         /\ a \in {"not-started", "failed"} =>
              r.status \notin {"killed", "ok", "none"} \/ ~Stores!isWriteRequest(cmd)
<1> DEFINE o == Stores!keychainWrapperOutcome(r, cmd)
<1>1. /\ o \in Statuses \cup {"not-started", "still-waiting", "unknown", "failed"}
      /\ o \in {"ok", "45"} => r.status = o
      /\ o # "unknown" /\ o # "ok" => r.status \notin {"killed", "ok", "none"} \/ ~Stores!isWriteRequest(cmd)
  BY DEF Stores!keychainWrapperOutcome, Statuses
<1> HIDE DEF o
<1>2. a = Stores!Classify(cmd, o)
  BY DEF o
<1> QED BY <1>1, <1>2 DEF Stores!Classify, Statuses

\* The caller of the one client of its call hears of it.
LEMMA StoAnswer ==
  ASSUME StoresInv, NEW p \in Clients, NEW c \in Stores!Mine(p), NEW r,
         r.status \in Statuses \cup {"killed"}, Stores!Answer(p, r),
         \/ c.st = "exit" /\ r.status = c.status
         \/ c.late /\ r.status = "killed",
         UNCHANGED <<kind, item, lock, key, torn, wrote, expect, raced>>
  PROVE  StoresInv'
<1>1. /\ c \in inner /\ Waits(p) /\ c.p = p /\ c.n = call[p].n /\ c.pass = call[p].cmd
  BY DEF Stores!Mine, Waits
<1>2. /\ kind = "macos-keychain" /\ StoresType /\ Known /\ Works /\ Told(p) /\ inner \subseteq Shells
      /\ wrote \in [Clients -> BOOLEAN] /\ call \in [Clients -> CallRecs]
  BY <1>1 DEF StoresInv, StoresType, NativeInv
<1>3. call[p] \in CallRecs /\ call[p].n \in Nat /\ call[p].svc \in Services /\ call[p].out = "none"
      /\ call[p].cmd \in Commands1[call[p].op] /\ call[p].op \in {"set", "get", "delete", "probe"}
  <2>1. call[p] \in CallRecs /\ call[p].svc \in Services
    BY <1>1, <1>2 DEF StoresType, Waits
  <2>2. call[p].n \in Nat /\ call[p].op \in {"set", "get", "delete", "probe"}
    BY <2>1 DEF CallRecs
  <2>3. call[p].out = "none" /\ call[p].cmd \in Commands1[call[p].op]
    BY <1>1, <1>2 DEF Told
  <2> QED BY <2>1, <2>2, <2>3
<1>4. ASSUME NEW x \in inner, x.p = p, x.n = call[p].n PROVE x = c
  <2>1. Waits(x.p) /\ Last(x)
    BY <1>1, <1>4 DEF Last
  <2>2. x.pass = c.pass
    BY <1>1, <1>2, <1>4, <2>1 DEF Known
  <2>3. Id(x) = Id(c)
    BY <1>1, <1>4, <2>2 DEF Id
  <2> QED BY <1>1, <1>2, <2>3 DEF Known
<1>5. wrote[p] => Did(c)
  BY <1>1, <1>2, <1>4 DEF Told, Last
<1>6. c.st = "exit" => ~\E x \in Stores!Running(p) : x.p = p /\ x.n = call[p].n
  BY <1>1, <1>4 DEF Stores!Running
<1>7. PICK a : /\ a = Stores!Classify(call[p].cmd, Stores!keychainWrapperOutcome(r, call[p].cmd))
               /\ IF a = "again"
                  THEN /\ call' = [call EXCEPT ![p].cmd = "update"]
                       /\ Stores!Spawn(p, call[p].svc, "update")
                  ELSE /\ call' = [call EXCEPT ![p].pc = "idle", ![p].out = a]
                       /\ inner' = Stores!Running(p)
  BY DEF Stores!Answer
<1>8. /\ a \in {"ok", "failed", "not-started", "unknown", "again"}
      /\ a = "again" => r.status = "45" /\ call[p].cmd = "add"
      /\ a = "ok" => r.status = "ok"
      /\ a \in {"not-started", "failed"} =>
           r.status \notin {"killed", "ok", "none"} \/ ~Stores!isWriteRequest(call[p].cmd)
  BY <1>7, Answers
<1>9. CASE a = "again"
  <2>1. c.st = "exit" /\ ~wrote[p]
    BY <1>5, <1>8, <1>9 DEF Did
  <2>2. call[p].op = "set"
    BY <1>3, <1>8, <1>9 DEF Commands1
  <2> DEFINE q == [call[p] EXCEPT !.cmd = "update"]
             d == [p |-> p, n |-> call[p].n, pass |-> "update", svc |-> call[p].svc, st |-> "spawned",
                   started |-> FALSE, late |-> FALSE, status |-> "none"]
             E == {d}
  <2>3. q \in CallRecs /\ q.n = call[p].n /\ q.pc = "wait" /\ q.out = "none" /\ q.op = "set" /\ q.cmd = "update" /\ q.svc = call[p].svc
    BY <1>1, <1>3, <2>2 DEF CallRecs, Passes, Waits
  <2>4. call' = [call EXCEPT ![p] = q]
    BY <1>2, <1>7, <1>9
  <2> HIDE DEF q
  <2>5. inner' = Stores!Running(p) \cup E
    BY <1>2, <1>7, <1>9, <2>3, <2>4 DEF Stores!Spawn
  <2>6. E \in SUBSET Shells
    BY <1>3 DEF Shells, Statuses, Passes
  <2>7. \A x \in E : /\ x.p = p /\ x.n = q.n /\ x.pass = q.cmd /\ q.pc = "wait" /\ x.st = "spawned" /\ ~x.late
    BY <2>3
  <2>8. \A x, y \in E : x = y
    OBVIOUS
  <2> HIDE DEF E
  <2>9. q.cmd \in Commands1[q.op]
    BY <2>3 DEF Commands1
  <2>10. q.n \in Nat /\ q.n >= call[p].n
    BY <1>3, <2>3
  <2>11. Follows(p, q, E)
    BY <1>2, <1>3, <1>6, <2>1, <2>3, <2>4, <2>5, <2>6, <2>7, <2>8, <2>9, <2>10 DEF Follows
  <2> QED BY <1>2, <2>3, <2>6, <2>11, CallKeeps
<1>10. CASE a # "again"
  <2> DEFINE q == [call[p] EXCEPT !.pc = "idle", !.out = a]
  <2>1. q \in CallRecs /\ q.n = call[p].n /\ q.pc = "idle" /\ q.out = a /\ q.op = call[p].op
    BY <1>3, <1>8, <1>10 DEF CallRecs
  <2> DEFINE E == {}
  <2>2. call' = [call EXCEPT ![p] = q] /\ inner' = Stores!Running(p) \cup E
    BY <1>2, <1>7, <1>10
  <2>6. E \in SUBSET Shells /\ \A d : d \notin E
    OBVIOUS
  <2> HIDE DEF q, E
  <2>3. ASSUME a = "ok", call[p].op \in {"set", "delete"} PROVE wrote[p]
    <3>1. Stores!isWriteRequest(c.pass)
      BY <1>1, <1>3, <2>3 DEF Stores!isWriteRequest, Commands1
    <3>2. c.st = "exit" /\ c.status = "ok"
      BY <1>8, <2>3
    <3> QED BY <1>1, <1>2, <3>1, <3>2 DEF Did, Works
  <2>4. ASSUME a \in {"not-started", "failed"}, call[p].op # "get"
        PROVE  ~wrote[p] /\ ~\E x \in inner' : x.p = p /\ x.n = call[p].n
    <3>1. c.st = "exit"
      <4>1. CASE Stores!isWriteRequest(call[p].cmd)
        BY <1>8, <2>4, <4>1
      <4>2. CASE ~Stores!isWriteRequest(call[p].cmd)
        <5>1. c.pass = "true"
          BY <1>1, <1>3, <2>4, <4>2 DEF Stores!isWriteRequest, Commands1
        <5> QED BY <1>1, <1>2, <5>1 DEF Works
      <4> QED BY <4>1, <4>2
    <3>2. ~Did(c)
      BY <1>1, <1>8, <2>4, <3>1 DEF Did
    <3> QED BY <1>5, <1>6, <2>2, <2>6, <3>1, <3>2
  <2>5. q.n \in Nat /\ q.n >= call[p].n
    BY <1>3, <2>1
  <2>7. Follows(p, q, E)
    BY <1>2, <2>1, <2>2, <2>3, <2>4, <2>5, <2>6 DEF Follows
  <2> QED BY <1>2, <2>1, <2>6, <2>7, CallKeeps
<1> QED BY <1>9, <1>10

LEMMA StoReap == ASSUME StoresInv, NEW p \in Clients, Stores!Reap(p) PROVE StoresInv'
<1>1. PICK c \in Stores!Mine(p) : c.st = "exit" /\ Stores!Answer(p, c)
  BY DEF Stores!Reap
<1>2. c.status \in Statuses
  <2>1. c \in inner
    BY DEF Stores!Mine
  <2> QED BY <2>1, StoreDids DEF Shells
<1>3. UNCHANGED <<kind, item, lock, key, torn, wrote, expect, raced>>
  BY DEF Stores!Reap
<1> QED BY <1>1, <1>2, <1>3, StoAnswer

LEMMA StoNodeTimeout == ASSUME StoresInv, NEW p \in Clients, Stores!NodeTimeout(p) PROVE StoresInv'
<1>1. PICK c \in Stores!Mine(p) : c.late /\ Stores!Answer(p, [status |-> "killed", started |-> c.started])
  BY DEF Stores!NodeTimeout
<1>2. [status |-> "killed", started |-> c.started].status = "killed"
  OBVIOUS
<1> QED BY <1>1, <1>2, StoAnswer DEF Stores!NodeTimeout

-----------------------------------------------------------------------------
(* The stores: libsecret and the file backends *)

\* What an operation on a store without Keychain clients leaves: its call r, and, if it has overlapped
\* no other and its kind is a file, a sound file.
Keeps(p, r) ==
  /\ call' = [call EXCEPT ![p] = r] /\ r.pc # "wait"
  /\ r.pc # "idle" => r.svc \in Services
  /\ r.pc = "write" => r.snap \in Snaps
  /\ UNCHANGED <<kind, inner, lock, torn>>
  /\ item' \in Snaps /\ key' \in Clients \cup {"none", "short"}
  /\ wrote' \in [Clients -> BOOLEAN] /\ expect' \in [Services -> BOOLEAN]
  /\ kind \in Stores!FileKinds /\ ~raced' =>
       /\ ~raced /\ \A q \in Clients \ {p} : call[q].pc = "idle"
       /\ File(p)'
       /\ \A s \in Services : expect'[s] => /\ item'[s] # None
                                            /\ kind = "linux-file" => item'[s] = key' /\ key' \in Clients

LEMMA FileKeeps ==
  ASSUME StoresInv, kind # "macos-keychain", NEW p \in Clients, NEW r \in CallRecs, Keeps(p, r)
  PROVE  StoresInv'
<1> USE DEF Keeps
<1>1. /\ StoresType /\ inner = {} /\ call \in [Clients -> CallRecs] /\ \A q \in Clients : ~Waits(q)
  BY DEF StoresInv, StoresType, NativeInv
<1>2. call'[p] = r /\ \A q \in Clients \ {p} : call'[q] = call[q]
  BY <1>1
<1>3. StoresType'
  <2>1. call' \in [Clients -> CallRecs]
    BY <1>1
  <2>2. \A q \in Clients \ {p} : /\ call[q].pc # "idle" => call[q].svc \in Services
                                 /\ call[q].pc = "write" => call[q].snap \in Snaps
    BY <1>1 DEF StoresType
  <2>3. \A q \in Clients : /\ call'[q].pc # "idle" => call'[q].svc \in Services
                           /\ call'[q].pc = "write" => call'[q].snap \in Snaps
    BY <1>2, <2>2
  <2> QED BY <1>1, <2>1, <2>3 DEF StoresType
<1>4. NativeInv'
  BY <1>1, <1>2 DEF NativeInv, Waits
<1>5. ASSUME kind \in Stores!FileKinds, ~raced'
      PROVE  /\ \A x, y \in Clients : call'[x].pc # "idle" /\ call'[y].pc # "idle" => x = y
             /\ \A q \in Clients : File(q)'
  <2>1. \A q \in Clients \ {p} : call'[q].pc = "idle"
    BY <1>2, <1>5
  <2>2. ASSUME NEW q \in Clients \ {p} PROVE File(q)'
    <3>1. File(q) /\ call'[q] = call[q] /\ call[q].pc = "idle"
      BY <1>2, <1>5 DEF StoresInv, FileInv
    <3> QED BY <3>1 DEF File
  <2> QED BY <1>5, <2>1, <2>2
<1>6. FileInv'
  BY <1>5 DEF FileInv, Stores!FileKinds
<1> QED BY <1>3, <1>4, <1>6 DEF StoresInv

\* The operation at hand of a store without Keychain clients.
LEMMA FileDids ==
  ASSUME StoresInv, NEW p \in Clients
  PROVE  /\ call[p] \in CallRecs /\ call \in [Clients -> CallRecs]
         /\ call[p].pc # "idle" => call[p].svc \in Services
         /\ call[p].pc = "write" => call[p].snap \in Snaps
         /\ item \in Snaps /\ key \in Clients \cup {"none", "short"}
         /\ wrote \in [Clients -> BOOLEAN] /\ expect \in [Services -> BOOLEAN] /\ torn = FALSE
         /\ call[p].pc \notin {"idle", "wait"} => kind # "macos-keychain"
         /\ kind \in Stores!FileKinds /\ ~raced =>
              /\ call[p].pc # "idle" => \A q \in Clients \ {p} : call[q].pc = "idle"
              /\ File(p)
              /\ \A s \in Services : expect[s] => /\ item[s] # None
                                                  /\ kind = "linux-file" => item[s] = key /\ key \in Clients
<1>1. StoresType /\ FileInv /\ NativeInv
  BY DEF StoresInv
<1>2. call \in [Clients -> CallRecs] /\ item \in Snaps /\ key \in Clients \cup {"none", "short"}
      /\ wrote \in [Clients -> BOOLEAN] /\ expect \in [Services -> BOOLEAN] /\ torn = FALSE
  BY <1>1 DEF StoresType
<1>3. (call[p].pc # "idle" => call[p].svc \in Services) /\ (call[p].pc = "write" => call[p].snap \in Snaps)
  BY <1>1 DEF StoresType
<1>4. call[p].pc \notin {"idle", "wait"} => kind # "macos-keychain"
  BY <1>1 DEF NativeInv
<1>5. kind \in Stores!FileKinds /\ ~raced =>
              /\ call[p].pc # "idle" => \A q \in Clients \ {p} : call[q].pc = "idle"
              /\ File(p)
              /\ \A s \in Services : expect[s] => /\ item[s] # None
                                                  /\ kind = "linux-file" => item[s] = key /\ key \in Clients
  BY <1>1 DEF FileInv
<1> QED BY <1>2, <1>3, <1>4, <1>5

LEMMA StoSecretTool ==
  ASSUME StoresInv, NEW p \in Clients, NEW s \in Services, NEW op \in Stores!StoreOps,
         Stores!SecretTool(p, s, op)
  PROVE  StoresInv'
<1>1. kind = "linux-libsecret" /\ UNCHANGED <<kind, lock, inner, key, torn, expect, raced>>
  BY DEF Stores!SecretTool
<1>2. PICK done \in BOOLEAN, out \in {"ok", "failed"} :
        /\ call' = [call EXCEPT ![p] = [Stores!Fresh(p, s, op) EXCEPT !.out = out]]
        /\ wrote' = [wrote EXCEPT ![p] = done /\ op # "get"]
        /\ item' = [item EXCEPT ![s] =
             CASE ~done \/ op = "get" -> @ [] op = "delete" -> None [] OTHER -> "plain"]
  BY DEF Stores!SecretTool
<1> DEFINE r == [Stores!Fresh(p, s, op) EXCEPT !.out = out]
<1>3. Stores!Fresh(p, s, op) \in CallRecs /\ Stores!Fresh(p, s, op).pc = "idle"
  BY FreshType DEF StoresInv
<1>4. r \in CallRecs /\ r.pc = "idle"
  BY <1>3 DEF CallRecs
<1>5. call' = [call EXCEPT ![p] = r]
  BY <1>2
<1> HIDE DEF r
<1>6. item' \in Snaps
  <2>1. item \in Snaps
    BY FileDids
  <2> QED BY <1>2, <2>1 DEF Snaps, Values
<1>7. wrote' \in [Clients -> BOOLEAN]
  BY <1>2, FileDids
<1>8. Keeps(p, r)
  BY <1>1, <1>4, <1>5, <1>6, <1>7, FileDids DEF Keeps, Stores!FileKinds
<1> QED BY <1>1, <1>4, <1>8, FileKeeps

LEMMA StoBeginFile ==
  ASSUME StoresInv, NEW p \in Clients, NEW s \in Services, NEW op \in Stores!StoreOps,
         Stores!BeginFile(p, s, op)
  PROVE  StoresInv'
<1> DEFINE pc1 == IF kind = "linux-file" /\ op # "delete" THEN "key" ELSE "read"
           r == [Stores!Fresh(p, s, op) EXCEPT !.pc = pc1]
<1>1. /\ kind \in Stores!FileKinds /\ call[p].pc = "idle" /\ call' = [call EXCEPT ![p] = r]
      /\ wrote' = [wrote EXCEPT ![p] = FALSE] /\ UNCHANGED <<kind, item, lock, inner, key, torn, expect>>
      /\ raced' = (raced \/ \E q \in Clients \ {p} : call[q].pc # "idle")
  BY DEF Stores!BeginFile
<1>2. Stores!Fresh(p, s, op) \in CallRecs /\ Stores!Fresh(p, s, op).svc = s
      /\ Stores!Fresh(p, s, op).op = op /\ Stores!Fresh(p, s, op).key = "plain"
  BY FreshType DEF StoresInv
<1>3. r \in CallRecs /\ r.pc = pc1 /\ r.svc = s /\ r.op = op /\ r.key = "plain"
  BY <1>2 DEF CallRecs
<1> HIDE DEF r
<1>4. call'[p] = r
  BY <1>1, FileDids
<1>5. File(p)'
  BY <1>1, <1>3, <1>4 DEF File
<1>6. Keeps(p, r)
  BY <1>1, <1>3, <1>5, FileDids DEF Keeps
<1>7. kind # "macos-keychain"
  BY <1>1 DEF Stores!FileKinds
<1> QED BY <1>3, <1>6, <1>7, FileKeeps

LEMMA FileEndsType ==
  ASSUME NEW out \in {"none", "ok", "failed"}, NEW z \in CallRecs
  PROVE  LET r == [z EXCEPT !.pc = "idle", !.out = out, !.snap = None]
         IN r \in CallRecs /\ r.pc = "idle" /\ r.key = z.key /\ r.op = z.op /\ r.n = z.n /\ r.out = out
BY DEF CallRecs

\* A file operation that ends.
LEMMA FileEndKeeps ==
  ASSUME StoresInv, NEW p \in Clients, call[p].pc \notin {"idle", "wait"},
         NEW out \in {"none", "ok", "failed"}, Stores!FileEnds(p, out),
         UNCHANGED <<kind, inner, lock, torn, raced>>,
         item' \in Snaps, key' = key,
         wrote' \in [Clients -> BOOLEAN], expect' \in [Services -> BOOLEAN],
         kind \in Stores!FileKinds /\ ~raced =>
           \A s \in Services : expect'[s] => /\ item'[s] # None
                                             /\ kind = "linux-file" => item'[s] = key /\ key \in Clients
  PROVE  StoresInv'
<1> DEFINE r == [call[p] EXCEPT !.pc = "idle", !.out = out, !.snap = None]
<1>1. r \in CallRecs /\ r.pc = "idle" /\ r.key = call[p].key
  <2>1. call[p] \in CallRecs
    BY FileDids
  <2> QED BY <2>1 DEF CallRecs
<1>2. call' = [call EXCEPT ![p] = r]
  BY FileDids DEF Stores!FileEnds
<1> HIDE DEF r
<1>3. call'[p] = r
  BY <1>2, FileDids
<1>4. kind \in Stores!FileKinds /\ ~raced => File(p)'
  <2>1. kind \in Stores!FileKinds /\ ~raced => File(p)
    BY FileDids
  <2> QED BY <1>1, <1>3, <2>1 DEF File
<1>5. Keeps(p, r)
  BY <1>1, <1>2, <1>4, FileDids DEF Keeps
<1> QED BY <1>1, <1>5, FileDids, FileKeeps

LEMMA StoLoadKey == ASSUME StoresInv, NEW p \in Clients, Stores!LoadKey(p) PROVE StoresInv'
<1>1. call[p].pc = "key" /\ UNCHANGED <<kind, item, lock, inner, torn, wrote, expect, raced>>
      /\ kind # "macos-keychain" /\ call[p].svc \in Services /\ call[p] \in CallRecs
  BY FileDids DEF Stores!LoadKey
<1>2. CASE Stores!FileEnds(p, "failed") /\ key' = key
  BY <1>1, <1>2, FileDids, FileEndKeeps
<1>3. CASE key \notin {"none", "short"} /\ call' = [call EXCEPT ![p].pc = "read", ![p].key = key] /\ key' = key
  <2> DEFINE r == [call[p] EXCEPT !.pc = "read", !.key = key]
  <2>1. key \in Clients
    BY <1>3, FileDids
  <2>2. r \in CallRecs /\ r.pc = "read" /\ r.key = key /\ r.svc = call[p].svc /\ r.op = call[p].op
    BY <1>1, <2>1 DEF CallRecs
  <2>3. call' = [call EXCEPT ![p] = r]
    BY <1>3, FileDids
  <2> HIDE DEF r
  <2>4. call'[p] = r
    BY <2>3, FileDids
  <2>5. kind \in Stores!FileKinds /\ ~raced => File(p)'
    <3>1. kind \in Stores!FileKinds /\ ~raced => File(p)
      BY FileDids
    <3> QED BY <1>1, <1>3, <2>1, <2>2, <2>4, <3>1 DEF File
  <2>6. Keeps(p, r)
    BY <1>1, <1>3, <2>2, <2>3, <2>5, FileDids DEF Keeps
  <2> QED BY <1>1, <2>2, <2>6, FileKeeps
<1>4. CASE key = "none" /\ key' = "short" /\ call' = [call EXCEPT ![p].pc = "newkey"]
  <2> DEFINE r == [call[p] EXCEPT !.pc = "newkey"]
  <2>1. "none" \notin Clients
    BY StoresAssumption
  <2>2. r \in CallRecs /\ r.pc = "newkey" /\ r.key = call[p].key /\ r.svc = call[p].svc /\ r.op = call[p].op
    BY <1>1 DEF CallRecs
  <2>3. call' = [call EXCEPT ![p] = r]
    BY <1>4, FileDids
  <2> HIDE DEF r
  <2>4. call'[p] = r
    BY <2>3, FileDids
  <2>5. ASSUME kind \in Stores!FileKinds, ~raced PROVE File(p)' /\ \A s \in Services : ~expect[s]
    <3>1. File(p) /\ \A s \in Services : expect[s] => (kind = "linux-file" => key \in Clients)
      BY <2>5, FileDids
    <3>2. kind = "linux-file"
      BY <1>1, <3>1 DEF File
    <3> QED BY <1>1, <1>4, <2>1, <2>2, <2>4, <3>1, <3>2 DEF File
  <2>6. Keeps(p, r)
    BY <1>1, <1>4, <2>2, <2>3, <2>5, FileDids DEF Keeps
  <2> QED BY <1>1, <2>2, <2>6, FileKeeps
<1> QED BY <1>2, <1>3, <1>4 DEF Stores!LoadKey

LEMMA StoCreateKey == ASSUME StoresInv, NEW p \in Clients, Stores!CreateKey(p) PROVE StoresInv'
<1>1. call[p].pc = "newkey" /\ UNCHANGED <<kind, item, lock, inner, torn, wrote, expect, raced>>
      /\ kind # "macos-keychain" /\ call[p].svc \in Services /\ call[p] \in CallRecs
      /\ key' = p /\ call' = [call EXCEPT ![p].pc = "read", ![p].key = p]
  BY FileDids DEF Stores!CreateKey
<1> DEFINE r == [call[p] EXCEPT !.pc = "read", !.key = p]
<1>2. r \in CallRecs /\ r.pc = "read" /\ r.key = p /\ r.svc = call[p].svc /\ r.op = call[p].op
  BY <1>1 DEF CallRecs
<1>3. call' = [call EXCEPT ![p] = r]
  BY <1>1, FileDids
<1> HIDE DEF r
<1>4. call'[p] = r
  BY <1>3, FileDids
<1>5. "short" \notin Clients
  BY StoresAssumption
<1>6. ASSUME kind \in Stores!FileKinds, ~raced PROVE File(p)' /\ \A s \in Services : ~expect[s]
  <2>1. File(p) /\ \A s \in Services : expect[s] => (kind = "linux-file" => key \in Clients)
    BY <1>6, FileDids
  <2>2. kind = "linux-file" /\ key = "short"
    BY <1>1, <2>1 DEF File
  <2> QED BY <1>1, <1>2, <1>4, <1>5, <2>1, <2>2 DEF File
<1>7. Keeps(p, r)
  BY <1>1, <1>2, <1>3, <1>6, FileDids DEF Keeps
<1> QED BY <1>1, <1>2, <1>7, FileKeeps

LEMMA StoReadStore == ASSUME StoresInv, NEW p \in Clients, Stores!ReadStore(p) PROVE StoresInv'
<1>1. call[p].pc = "read" /\ UNCHANGED <<kind, item, lock, inner, key, torn, wrote, expect, raced>>
      /\ kind # "macos-keychain" /\ call[p].svc \in Services /\ call[p] \in CallRecs /\ item \in Snaps
  BY FileDids DEF Stores!ReadStore
<1>2. CASE \E out \in {"ok", "failed"} : Stores!FileEnds(p, out)
  <2>1. PICK out \in {"ok", "failed"} : Stores!FileEnds(p, out)
    BY <1>2
  <2> QED BY <1>1, <2>1, FileDids, FileEndKeeps
<1>3. CASE call[p].op # "get" /\ call' = [call EXCEPT ![p].pc = "write", ![p].snap = item]
  <2> DEFINE r == [call[p] EXCEPT !.pc = "write", !.snap = item]
  <2>1. r \in CallRecs /\ r.pc = "write" /\ r.key = call[p].key /\ r.svc = call[p].svc /\ r.op = call[p].op
        /\ r.snap = item
    BY <1>1 DEF CallRecs
  <2>2. call' = [call EXCEPT ![p] = r]
    BY <1>3, FileDids
  <2> HIDE DEF r
  <2>3. call'[p] = r
    BY <2>2, FileDids
  <2>4. kind \in Stores!FileKinds /\ ~raced => File(p)'
    <3>1. kind \in Stores!FileKinds /\ ~raced => File(p)
      BY FileDids
    <3> QED BY <1>1, <2>1, <2>3, <3>1 DEF File
  <2>5. Keeps(p, r)
    BY <1>1, <2>1, <2>2, <2>4, FileDids DEF Keeps
  <2> QED BY <1>1, <2>1, <2>5, FileKeeps
<1> QED BY <1>2, <1>3 DEF Stores!ReadStore

LEMMA StoWriteStore == ASSUME StoresInv, NEW p \in Clients, Stores!WriteStore(p) PROVE StoresInv'
<1> DEFINE s == call[p].svc
           v == IF call[p].op = "set" THEN call[p].key ELSE None
<1>1. /\ call[p].pc = "write" /\ UNCHANGED <<kind, lock, inner, key, torn, raced>>
      /\ item' = [call[p].snap EXCEPT ![s] = v]
      /\ expect' = [expect EXCEPT ![s] = (call[p].op = "set")]
      /\ wrote' = [wrote EXCEPT ![p] = TRUE] /\ Stores!FileEnds(p, "ok")
  BY DEF Stores!WriteStore
<1>2. s \in Services /\ call[p].snap \in Snaps /\ call[p] \in CallRecs /\ expect \in [Services -> BOOLEAN]
      /\ wrote \in [Clients -> BOOLEAN]
  BY <1>1, FileDids
<1>3. v \in Values /\ call[p].key # None
  BY <1>2, StoresAssumption DEF Values, CallRecs
<1>4. item' \in Snaps
  BY <1>1, <1>2, <1>3 DEF Snaps
<1>5. wrote' \in [Clients -> BOOLEAN] /\ expect' \in [Services -> BOOLEAN]
  BY <1>1, <1>2
<1>6. ASSUME kind \in Stores!FileKinds, ~raced, NEW t \in Services, expect'[t]
      PROVE  item'[t] # None /\ (kind = "linux-file" => item'[t] = key /\ key \in Clients)
  <2>1. File(p) /\ (expect[t] => item[t] # None /\ (kind = "linux-file" => item[t] = key /\ key \in Clients))
    BY <1>6, FileDids
  <2>2. call[p].snap = item
    BY <1>1, <2>1 DEF File
  <2>3. CASE t = s
    <3>1. call[p].op = "set"
      BY <1>1, <1>2, <1>6, <2>3
    <3>2. item'[t] = call[p].key
      BY <1>1, <1>2, <2>3, <3>1 DEF Snaps
    <3> QED BY <1>1, <1>3, <2>1, <3>1, <3>2 DEF File
  <2>4. CASE t # s
    <3>1. item'[t] = item[t] /\ expect[t]
      BY <1>1, <1>2, <1>6, <2>2, <2>4 DEF Snaps
    <3> QED BY <2>1, <3>1
  <2> QED BY <2>3, <2>4
<1> QED BY <1>1, <1>4, <1>5, <1>6, FileEndKeeps

LEMMA StoCrash == ASSUME StoresInv, NEW p \in Clients, Stores!Crash(p) PROVE StoresInv'
<1>1. /\ call[p].pc # "idle" /\ Stores!FileEnds(p, "none") /\ inner' = Stores!Running(p)
      /\ UNCHANGED <<kind, item, lock, key, torn, wrote, expect, raced>>
  BY DEF Stores!Crash, Stores!FileEnds
<1>2. CASE kind = "macos-keychain"
  <2> DEFINE r == [call[p] EXCEPT !.pc = "idle", !.out = "none", !.snap = None]
             E == {}
  <2>1. r \in CallRecs /\ r.pc = "idle" /\ r.n = call[p].n /\ r.out = "none"
    BY FileDids, FileEndsType
  <2>2. call' = [call EXCEPT ![p] = r]
    BY <1>1, FileDids DEF Stores!FileEnds
  <2>3. inner' = Stores!Running(p) \cup E /\ E \in SUBSET Shells /\ \A d : d \notin E
    BY <1>1
  <2>4. r.n \in Nat /\ r.n >= call[p].n /\ wrote' \in [Clients -> BOOLEAN]
    <3>1. call[p].n \in Nat
      BY FileDids DEF CallRecs
    <3>2. wrote \in [Clients -> BOOLEAN]
      BY FileDids
    <3> QED BY <1>1, <2>1, <3>1, <3>2
  <2> HIDE DEF r, E
  <2>5. Follows(p, r, E)
    BY <1>1, <2>1, <2>2, <2>3, <2>4 DEF Follows
  <2> QED BY <1>2, <2>1, <2>3, <2>5, CallKeeps
<1>3. CASE kind # "macos-keychain"
  <2>1. inner = {} /\ call[p].pc # "wait"
    BY <1>3 DEF StoresInv, NativeInv, Waits
  <2>2. inner' = inner
    BY <1>1, <2>1 DEF Stores!Running
  <2> QED BY <1>1, <2>1, <2>2, FileDids, FileEndKeeps
<1> QED BY <1>2, <1>3

-----------------------------------------------------------------------------
(* The stores: all steps *)

LEMMA StoresNext == StoresInv /\ Stores!Next => StoresInv'
<1> SUFFICES ASSUME StoresInv, Stores!Next PROVE StoresInv'
  OBVIOUS
<1>1. ASSUME NEW c \in inner, \/ Stores!TryLock(c) \/ Stores!ProbeEnds(c) \/ Stores!SayStarted(c)
                              \/ Stores!ExecClient(c) \/ Stores!ClientWorks(c) \/ Stores!Expire(c)
      PROVE  StoresInv'
  BY <1>1, StoTryLock, StoProbeEnds, StoSayStarted, StoExecClient, StoClientWorks, StoExpire
<1>2. ASSUME NEW p \in Clients, NEW s \in Services, NEW op \in Stores!StoreOps \cup {"probe"},
             Stores!BeginNative(p, s, op)
      PROVE  StoresInv'
  BY <1>2, StoBeginNative
<1>3. ASSUME NEW p \in Clients, NEW s \in Services, NEW op \in Stores!StoreOps, Stores!SecretTool(p, s, op)
      PROVE  StoresInv'
  BY <1>3, StoSecretTool
<1>4. ASSUME NEW p \in Clients, NEW s \in Services, NEW op \in Stores!StoreOps, Stores!BeginFile(p, s, op)
      PROVE  StoresInv'
  BY <1>4, StoBeginFile
<1>5. ASSUME NEW p \in Clients, \/ Stores!Reap(p) \/ Stores!NodeTimeout(p)
                                \/ Stores!LoadKey(p) \/ Stores!CreateKey(p)
                                \/ Stores!ReadStore(p) \/ Stores!WriteStore(p) \/ Stores!Crash(p)
      PROVE  StoresInv'
  BY <1>5, StoReap, StoNodeTimeout, StoLoadKey, StoCreateKey, StoReadStore, StoWriteStore, StoCrash
<1> QED BY <1>1, <1>2, <1>3, <1>4, <1>5 DEF Stores!Next

LEMMA StoresRest == StoresInv /\ UNCHANGED storesVars => StoresInv'
<1> SUFFICES ASSUME StoresInv, UNCHANGED storesVars PROVE StoresInv'
  OBVIOUS
<1> USE DEF storesVars
<1>1. StoresType'
  BY DEF StoresInv, StoresType
<1>2. NativeInv'
  BY DEF StoresInv, NativeInv, Known, Works, Told, Waits, Last, Awaited, Did, Id, Stores!isWriteRequest
<1>3. FileInv'
  BY DEF StoresInv, FileInv, File, Stores!FileKinds
<1> QED BY <1>1, <1>2, <1>3 DEF StoresInv

LEMMA StoresAlways == SuiteSpec => []StoresInv
<1>1. SuiteInit => StoresInv
  BY InitStores DEF SuiteInit
<1>2. StoresInv /\ [SuiteNext]_SuiteVars => StoresInv'
  <2> SUFFICES ASSUME StoresInv, [SuiteNext]_SuiteVars PROVE StoresInv'
    OBVIOUS
  <2>1. UNCHANGED storesVars \/ Stores!Next
    BY DEF SuiteNext, SuiteVars
  <2> QED BY <2>1, StoresNext, StoresRest
<1> QED BY <1>1, <1>2, PTL DEF SuiteSpec

LEMMA OneClient ==
  ASSUME StoresInv, NEW s \in Services
  PROVE  Cardinality({c \in inner : c.svc = s /\ c.st \in {"started", "run"}}) <= 1
<1> DEFINE W == {c \in inner : c.svc = s /\ c.st \in {"started", "run"}}
<1>1. ASSUME NEW c \in W, NEW d \in W PROVE c = d
  <2>1. Known /\ Works /\ c \in inner /\ d \in inner
    BY StoreDids DEF StoresInv, NativeInv
  <2>2. Id(c) = Id(d)
    BY <2>1 DEF Works
  <2> QED BY <2>1, <2>2 DEF Known
<1>2. CASE W = {}
  BY <1>2, FS_EmptySet
<1>3. CASE W # {}
  <2>1. PICK c \in W : TRUE
    BY <1>3
  <2>2. W = {c}
    BY <1>1, <2>1
  <2>3. Cardinality({c}) = 1
    BY FS_Singleton
  <2> QED BY <2>2, <2>3
<1> QED BY <1>2, <1>3

LEMMA StoresSay == StoresInv => StoreHonest
<1> SUFFICES ASSUME StoresInv PROVE StoreHonest
  OBVIOUS
<1>1. Stores!OutcomeHonest
  BY DEF Stores!OutcomeHonest, StoresInv, NativeInv, Told, Last
<1>2. Stores!OneClientPerService
  <2> SUFFICES ASSUME NEW s \in Services
                PROVE  Cardinality({c \in inner : c.svc = s /\ c.st \in {"started", "run"}}) <= 1
    <3>1. \A S : Stores!Cardinality(S) = Cardinality(S)
      BY Zenon DEF Stores!Cardinality, Cardinality
    <3> QED BY <3>1 DEF Stores!OneClientPerService
  <2> QED BY OneClient
<1>3. Stores!StoredReadable
  BY DEF Stores!StoredReadable, StoresInv, StoresType, FileInv
<1> QED BY <1>1, <1>2, <1>3 DEF StoreHonest

(* What a caller of the Keychain was told of its write is true and stays true, no service has two   *)
(* Keychain clients whoever gave up on theirs, and a credential file whose operations did not       *)
(* overlap parses and decrypts (keychain-client.ts, keychain.ts).                                   *)
THEOREM StoreHonestHolds == SuiteSpec => []StoreHonest
BY StoresAlways, StoresSay, PTL
=============================================================================
