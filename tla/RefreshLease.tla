---------------------------- MODULE RefreshLease ----------------------------
(***************************************************************************)
(* The fenced refresh of one QLB-owned OAuth grant (src/refresh-lease.ts   *)
(* with the lease and generation statements of src/store.ts).              *)
(*                                                                         *)
(* Any number of calls of refreshIfNeeded, in any number of processes,     *)
(* share one Keychain item, one accounts row and one lease row.  SQLite    *)
(* write transactions are BEGIN IMMEDIATE: short ones are one step that    *)
(* needs the write lock free; the fenced write (step 5 of the protocol)    *)
(* spawns a Keychain client inside its transaction and is therefore three  *)
(* steps that hold dbLock.  Keychain reads and plain SELECTs (WAL) take    *)
(* no lock and may fall between those steps.                               *)
(***************************************************************************)
EXTENDS Naturals, FiniteSets

CONSTANTS
    Ops,                 \* calls of refreshIfNeeded
    MaxAttempts,         \* MAX_OUTER_ATTEMPTS
    MaxGen,              \* bound: generations that expire while we watch
    MaxRevocations,      \* bound: grants the provider withdraws on its own
    BootstrapReadFaults, \* may the bootstrap's read throw though the item is (again) there?
    None                 \* no op, no lease

Leases == [holder : Ops \X (0 .. MaxAttempts), live : BOOLEAN]

ASSUME OpsAssumption == Ops # {} /\ None \notin Ops /\ None \notin Leases
ASSUME BoundsAssumption ==
    /\ MaxAttempts \in Nat \ {0}
    /\ MaxGen \in Nat
    /\ MaxRevocations \in Nat
ASSUME FlagsAssumption == BootstrapReadFaults \in BOOLEAN

VARIABLES
    journalGen,  \* accounts.grant_generation, as committed
    keychain,    \* the payload of the qlb:<provider>:<account> item
    lease,       \* the leases row: [holder, live], or None
    status,      \* accounts.status
    dbLock,      \* the op inside a BEGIN IMMEDIATE that spans steps, or None
    pc, attempt, \* control state of each call; `attempt` is the loop counter
    grant, gen,  \* the payload and generation the call read in step 1
    resp,        \* what the provider answered to the call's POST
    aborted,     \* ac.signal.aborted
    ret,         \* the grant the call returned, or None
    rotates,     \* provider: is a refresh token good for one refresh only?
    validTok,    \* provider: the one refresh token it accepts
    revocations, \* provider: how many grants it withdrew
    staleGen,    \* clock: grants up to this generation expire within the skew
    lost,        \* history: the live refresh token was dropped with its holder
    lapsed       \* history: some lease passed its TTL without a heartbeat

shared == <<journalGen, keychain, lease, status, dbLock>>
calls  == <<pc, attempt, grant, gen, resp, aborted, ret>>
env    == <<rotates, validTok, revocations, staleGen, lost, lapsed>>
vars   == <<shared, calls, env>>

Holders  == (Ops \X (0 .. MaxAttempts)) \cup {None}
Grants   == [gen : Nat, tok : Nat, by : Holders]
NoAnswer == [kind |-> "none", tok |-> 0]
Answers  == [kind : {"none", "ok", "invalid"}, tok : Nat]

Running  == {"start", "boot", "read", "journal", "repair", "lease", "preflight",
             "wait", "http", "fence", "write", "commit"}
Returned == {"done", "failed", "keychain_older", "crashed"}

\* The grant a caller passes to bootstrap an empty item: the generation-0 one.
FirstGrant == [gen |-> 0, tok |-> 0, by |-> None]

\* Per-attempt holder id: `${PROCESS_UUID}:${randomUUID()}`.
me(p) == <<p, attempt[p]>>

\* The call holds the answer that carries the only live refresh token.
HoldsLiveToken(p) ==
    /\ pc[p] \in {"http", "fence", "write"}
    /\ resp[p].kind = "ok"
    /\ resp[p].tok = validTok

TypeOK ==
    /\ journalGen \in Nat
    /\ keychain \in Grants
    /\ lease \in Leases \cup {None}
    /\ status \in {"active", "auth_revoked"}
    /\ dbLock \in Ops \cup {None}
    /\ pc \in [Ops -> Running \cup Returned]
    /\ attempt \in [Ops -> 0 .. MaxAttempts]
    /\ grant \in [Ops -> Grants]
    /\ gen \in [Ops -> Nat]
    /\ resp \in [Ops -> Answers]
    /\ aborted \in [Ops -> BOOLEAN]
    /\ ret \in [Ops -> Grants \cup {None}]
    /\ rotates \in BOOLEAN
    /\ validTok \in Nat
    /\ revocations \in Nat
    /\ staleGen \in Nat
    /\ lost \in BOOLEAN
    /\ lapsed \in BOOLEAN

\* An owned account: migration has written the item before the journal says so.
\* Its access token is due, so that the first call already refreshes.
Init ==
    /\ journalGen = 0
    /\ keychain = FirstGrant
    /\ lease = None
    /\ status = "active"
    /\ dbLock = None
    /\ pc = [p \in Ops |-> "start"]
    /\ attempt = [p \in Ops |-> 0]
    /\ grant = [p \in Ops |-> FirstGrant]
    /\ gen = [p \in Ops |-> 0]
    /\ resp = [p \in Ops |-> NoAnswer]
    /\ aborted = [p \in Ops |-> FALSE]
    /\ ret = [p \in Ops |-> None]
    /\ rotates \in BOOLEAN
    /\ validTok = 0
    /\ revocations = 0
    /\ staleGen = 0
    /\ lost = FALSE
    /\ lapsed = FALSE

-----------------------------------------------------------------------------
\* Control helpers

Goto(p, label) == pc' = [pc EXCEPT ![p] = label]

\* Mutant: the loop forgets to count its turns.
ContinueUncounted(p) ==
    /\ Goto(p, "read")
    /\ resp' = [resp EXCEPT ![p] = NoAnswer]
    /\ aborted' = [aborted EXCEPT ![p] = FALSE]
    /\ UNCHANGED <<attempt, grant, gen, ret>>

\* Mutant: MAX_OUTER_ATTEMPTS is not enforced.
ContinueForever(p) ==
    /\ attempt' = [attempt EXCEPT ![p] = @ + 1]
    /\ Goto(p, "read")
    /\ resp' = [resp EXCEPT ![p] = NoAnswer]
    /\ aborted' = [aborted EXCEPT ![p] = FALSE]
    /\ UNCHANGED <<grant, gen, ret>>

\* `continue`: the next turn of the attempt loop, or the retry limit.
Continue(p) ==
    /\ attempt' = [attempt EXCEPT ![p] = @ + 1]
    /\ Goto(p, IF attempt[p] + 1 < MaxAttempts THEN "read" ELSE "failed")
    /\ resp' = [resp EXCEPT ![p] = NoAnswer]
    /\ aborted' = [aborted EXCEPT ![p] = FALSE]
    /\ UNCHANGED <<grant, gen, ret>>

Return(p, g) ==
    /\ Goto(p, "done")
    /\ ret' = [ret EXCEPT ![p] = g]
    /\ UNCHANGED <<attempt, grant, gen, resp, aborted>>

Throw(p) ==
    /\ Goto(p, "failed")
    /\ UNCHANGED <<attempt, grant, gen, resp, aborted, ret>>

\* The call's answer is dropped on the floor.
Drop(p) == lost' = (lost \/ (HoldsLiveToken(p) /\ validTok # keychain.tok))

\* deleteLeaseByHolderStmt: DELETE FROM leases WHERE name = ? AND holder_id = ?
deleteLeaseIfHolder(p) ==
    lease' = IF lease # None /\ lease.holder = me(p) THEN None ELSE lease

casGrantGeneration(from, to) ==
    journalGen' = IF journalGen = from THEN to ELSE journalGen

-----------------------------------------------------------------------------
\* Steps 0 and 1

\* bootstrapIfMissing: a read that throws, for whatever reason, is taken to
\* mean that the item is missing.
bootstrapIfMissing(p) ==
    /\ pc[p] = "start"
    /\ \/ Goto(p, "read")
       \/ BootstrapReadFaults /\ Goto(p, "boot")
    /\ UNCHANGED <<shared, attempt, grant, gen, resp, aborted, ret, env>>

bootstrapWrite(p) ==
    /\ pc[p] = "boot"
    /\ keychain' = FirstGrant
    /\ Goto(p, "read")
    /\ UNCHANGED <<journalGen, lease, status, dbLock, attempt, grant, gen, resp, aborted, ret, env>>

\* readAndRepair, first half: keychain.getSync, which may throw.
readKeychain(p) ==
    /\ pc[p] = "read"
    /\ \/ /\ grant' = [grant EXCEPT ![p] = keychain]
          /\ Goto(p, "journal")
          /\ UNCHANGED <<attempt, gen, resp, aborted, ret>>
       \/ Throw(p)
    /\ UNCHANGED <<shared, env>>

\* readAndRepair, second half: getGrantGeneration and the three-way compare.
readJournal(p) ==
    /\ pc[p] = "journal"
    /\ gen' = [gen EXCEPT ![p] = journalGen]
    /\ Goto(p, CASE grant[p].gen > journalGen -> "repair"
                 [] grant[p].gen = journalGen -> "lease"
                 [] grant[p].gen < journalGen -> "keychain_older")
    /\ UNCHANGED <<shared, attempt, grant, resp, aborted, ret, env>>

\* repairGrantGeneration (C3): CAS in a transaction of its own; the call goes
\* on with the Keychain's generation whether or not the CAS hit.
repair(p) ==
    /\ pc[p] = "repair"
    /\ dbLock = None
    /\ casGrantGeneration(gen[p], grant[p].gen)
    /\ gen' = [gen EXCEPT ![p] = grant[p].gen]
    /\ Goto(p, "lease")
    /\ UNCHANGED <<keychain, lease, status, dbLock, attempt, grant, resp, aborted, ret, env>>

-----------------------------------------------------------------------------
\* Steps 2, 3 and 6

\* Step 2: the grant does not expire within the skew; no lock at all.
fastPath(p) ==
    /\ pc[p] = "lease"
    /\ grant[p].gen > staleGen
    /\ Return(p, grant[p])
    /\ UNCHANGED <<shared, env>>

\* Mutant: one holder id for all the calls of a process (the pre-v6 bug that the
\* file's header warns of).
LeaseBusyForOthers(p) == FALSE

LeaseBusy(p) == lease # None /\ lease.live /\ lease.holder # me(p)

\* Step 3: acquireRefreshLease.
acquireRefreshLease(p) ==
    /\ pc[p] = "lease"
    /\ grant[p].gen <= staleGen
    /\ dbLock = None
    /\ \/ /\ journalGen # gen[p]                       \* stale_gen
          /\ Continue(p)
          /\ UNCHANGED lease
       \/ /\ journalGen = gen[p] /\ LeaseBusy(p)       \* busy
          /\ Goto(p, "wait")
          /\ UNCHANGED <<lease, attempt, grant, gen, resp, aborted, ret>>
       \/ /\ journalGen = gen[p] /\ ~LeaseBusy(p)      \* acquired
          /\ lease' = [holder |-> me(p), live |-> TRUE]
          /\ Goto(p, "preflight")
          /\ UNCHANGED <<attempt, grant, gen, resp, aborted, ret>>
    /\ UNCHANGED <<journalGen, keychain, status, dbLock, env>>

\* Step 6: waitForRefreshLease, then always back to step 1.
waitForRefreshLease(p) ==
    /\ pc[p] = "wait"
    /\ \/ /\ journalGen > gen[p] \/ lease = None \/ (lease # None /\ ~lease.live)
          /\ Continue(p)
       \/ Throw(p)                                     \* timeout
    /\ UNCHANGED <<shared, env>>

\* assertHelperUsable, before a token can be spent.
preflight(p) ==
    /\ pc[p] = "preflight"
    /\ \/ /\ Goto(p, "http")
          /\ UNCHANGED <<lease, attempt, grant, gen, resp, aborted, ret>>
       \/ /\ dbLock = None
          /\ deleteLeaseIfHolder(p)
          /\ Throw(p)
    /\ UNCHANGED <<journalGen, keychain, status, dbLock, env>>

-----------------------------------------------------------------------------
\* Step 4: the POST, its heartbeat and its timers

\* External: the token endpoint.  A token is accepted once if it rotates.
providerAnswers(p) ==
    /\ pc[p] = "http"
    /\ resp[p] = NoAnswer
    /\ IF grant[p].tok = validTok
       THEN LET t == IF rotates THEN validTok + 1 ELSE validTok
            IN  /\ validTok' = t
                /\ resp' = [resp EXCEPT ![p] = [kind |-> "ok", tok |-> t]]
       ELSE /\ resp' = [resp EXCEPT ![p] = [kind |-> "invalid", tok |-> 0]]
            /\ UNCHANGED validTok
    /\ UNCHANGED <<shared, pc, attempt, grant, gen, aborted, ret,
                   rotates, revocations, staleGen, lost, lapsed>>

\* setInterval: heartbeatRefreshLease renews by holder id and generation only;
\* a lapsed lease that nobody took is renewed too.
heartbeat(p) ==
    /\ pc[p] = "http"
    /\ dbLock = None
    /\ IF lease # None /\ lease.holder = me(p) /\ journalGen = gen[p]
       THEN lease' = [lease EXCEPT !.live = TRUE] /\ UNCHANGED aborted
       ELSE aborted' = [aborted EXCEPT ![p] = TRUE] /\ UNCHANGED lease
    /\ UNCHANGED <<journalGen, keychain, status, dbLock,
                   pc, attempt, grant, gen, resp, ret, env>>

hardTimeout(p) ==
    /\ pc[p] = "http"
    /\ aborted' = [aborted EXCEPT ![p] = TRUE]
    /\ UNCHANGED <<shared, pc, attempt, grant, gen, resp, ret, env>>

\* The await settles without an abort and with a grant.
refreshed(p) ==
    /\ pc[p] = "http"
    /\ ~aborted[p]
    /\ resp[p].kind = "ok"
    /\ Goto(p, "fence")
    /\ UNCHANGED <<shared, attempt, grant, gen, resp, aborted, ret, env>>

\* Aborted: release the lease, discard whatever came back, go to step 1.
abortRefresh(p) ==
    /\ pc[p] = "http"
    /\ aborted[p]
    /\ dbLock = None
    /\ deleteLeaseIfHolder(p)
    /\ Drop(p)
    /\ Continue(p)
    /\ UNCHANGED <<journalGen, keychain, status, dbLock, rotates, validTok, revocations, staleGen, lapsed>>

\* invalid_grant: a lost race if the generation moved, else auth_revoked.
handleAuthRevoked(p) ==
    /\ pc[p] = "http"
    /\ ~aborted[p]
    /\ resp[p].kind = "invalid"
    /\ dbLock = None
    /\ deleteLeaseIfHolder(p)
    /\ IF journalGen # gen[p]
       THEN Continue(p) /\ UNCHANGED status
       ELSE Throw(p) /\ status' = "auth_revoked"
    /\ UNCHANGED <<journalGen, keychain, dbLock, env>>

\* Any other failure of the POST, before or after the provider acted on it.
refreshError(p) ==
    /\ pc[p] = "http"
    /\ ~aborted[p]
    /\ dbLock = None
    /\ deleteLeaseIfHolder(p)
    /\ Drop(p)
    /\ Throw(p)
    /\ UNCHANGED <<journalGen, keychain, status, dbLock, rotates, validTok, revocations, staleGen, lapsed>>

-----------------------------------------------------------------------------
\* Step 5: the fenced write, one transaction in three steps

\* Mutant: the payload keeps the generation it was refreshed from.
NewGrantSameGeneration(p) == [gen |-> gen[p], tok |-> resp[p].tok, by |-> me(p)]

NewGrant(p) == [gen |-> gen[p] + 1, tok |-> resp[p].tok, by |-> me(p)]

\* Mutant: step 5 trusts the journal and does not re-read the item.
FenceHoldsJournalOnly(p) == journalGen = gen[p]

\* Mutant: step 5 also demands the lease.
FenceHoldsWithLease(p) ==
    /\ journalGen = gen[p]
    /\ keychain.gen = gen[p]
    /\ lease # None /\ lease.holder = me(p)

\* The two generations the transaction re-reads, journal first.
FenceHolds(p) == journalGen = gen[p] /\ keychain.gen = gen[p]

\* BEGIN IMMEDIATE and the two checks.  A Keychain read that throws is fenced
\* too; the lease row is left to its TTL.
fenceCheck(p) ==
    /\ pc[p] = "fence"
    /\ dbLock = None
    /\ \/ /\ FenceHolds(p)
          /\ dbLock' = p
          /\ Goto(p, "write")
          /\ UNCHANGED <<lost, attempt, grant, gen, resp, aborted, ret>>
       \/ /\ ~FenceHolds(p)                            \* fenced, fenced_keychain
          /\ Continue(p)
          /\ UNCHANGED <<dbLock, lost>>
       \/ /\ journalGen = gen[p]                       \* item unreadable
          /\ Drop(p)
          /\ Continue(p)
          /\ UNCHANGED dbLock
    /\ UNCHANGED <<journalGen, keychain, lease, status, rotates, validTok, revocations, staleGen, lapsed>>

\* keychain.setSync; or it throws, before or after the write took effect (a
\* timed-out client), and the transaction rolls back.
fenceWrite(p) ==
    /\ pc[p] = "write"
    /\ \/ /\ keychain' = NewGrant(p)
          /\ Goto(p, "commit")
          /\ UNCHANGED <<dbLock, lost, attempt, grant, gen, resp, aborted, ret>>
       \/ /\ dbLock' = None
          /\ Drop(p)
          /\ Throw(p)
          /\ UNCHANGED keychain
       \/ /\ keychain' = NewGrant(p)
          /\ dbLock' = None
          /\ Throw(p)
          /\ UNCHANGED lost
    /\ UNCHANGED <<journalGen, lease, status, rotates, validTok, revocations, staleGen, lapsed>>

\* bumpGrantGeneration, deleteLeaseIfHolder, COMMIT; or COMMIT throws (C3
\* without a crash: the Keychain is ahead, the journal rolled back).
fenceCommit(p) ==
    /\ pc[p] = "commit"
    /\ dbLock' = None
    /\ \/ /\ casGrantGeneration(gen[p], gen[p] + 1)
          /\ deleteLeaseIfHolder(p)
          /\ Return(p, NewGrant(p))
       \/ /\ Throw(p)
          /\ UNCHANGED <<journalGen, lease>>
    /\ UNCHANGED <<keychain, status, env>>

\* BEGIN IMMEDIATE outlasts busy_timeout because another op is inside step 5;
\* in step 4 it is the one that would release the lease after a failure.
dbBusy(p) ==
    /\ pc[p] \in {"repair", "lease", "preflight", "http", "fence"}
    /\ pc[p] = "lease" => grant[p].gen <= staleGen
    /\ dbLock # None
    /\ Drop(p)
    /\ Throw(p)
    /\ UNCHANGED <<shared, rotates, validTok, revocations, staleGen, lapsed>>

-----------------------------------------------------------------------------
\* Faults and the outside world

\* The process dies; SQLite rolls its open transaction back.
crash(p) ==
    /\ pc[p] \in Running
    /\ Goto(p, "crashed")
    /\ dbLock' = IF dbLock = p THEN None ELSE dbLock
    /\ Drop(p)
    /\ UNCHANGED <<journalGen, keychain, lease, status, attempt, grant, gen, resp, aborted, ret,
                   rotates, validTok, revocations, staleGen, lapsed>>

\* The wall clock passes the lease's `until` (a late timer, a sleeping laptop).
leaseLapses ==
    /\ lease # None
    /\ lease.live
    /\ lease' = [lease EXCEPT !.live = FALSE]
    /\ lapsed' = TRUE
    /\ UNCHANGED <<journalGen, keychain, status, dbLock, calls, rotates, validTok, revocations, staleGen, lost>>

\* The access token in the item comes within the skew of its expiry.
grantExpires ==
    /\ keychain.gen > staleGen
    /\ keychain.gen <= MaxGen
    /\ staleGen' = keychain.gen
    /\ UNCHANGED <<shared, calls, rotates, validTok, revocations, lost, lapsed>>

\* External: the user or the provider withdraws the grant.
providerRevokes ==
    /\ revocations < MaxRevocations
    /\ revocations' = revocations + 1
    /\ validTok' = validTok + 1
    /\ lost' = TRUE
    /\ UNCHANGED <<shared, calls, rotates, staleGen, lapsed>>

-----------------------------------------------------------------------------
\* What a call does of its own accord, without faults or timers.
Progress(p) ==
    \/ bootstrapIfMissing(p) \/ bootstrapWrite(p)
    \/ readKeychain(p) \/ readJournal(p) \/ repair(p)
    \/ fastPath(p) \/ acquireRefreshLease(p) \/ waitForRefreshLease(p) \/ preflight(p)
    \/ refreshed(p) \/ abortRefresh(p) \/ handleAuthRevoked(p)
    \/ fenceCheck(p) \/ fenceWrite(p) \/ fenceCommit(p)

Step(p) ==
    \/ Progress(p)
    \/ providerAnswers(p) \/ heartbeat(p) \/ hardTimeout(p) \/ refreshError(p)
    \/ dbBusy(p) \/ crash(p)

Next ==
    \/ \E p \in Ops : Step(p)
    \/ leaseLapses
    \/ grantExpires
    \/ providerRevokes

Spec == Init /\ [][Next]_vars

\* A live process keeps running its code and its 45 s timer fires.  Nothing is
\* assumed of the provider, of the heartbeat or of other processes' leases.
Fairness == \A p \in Ops : WF_vars(Progress(p)) /\ WF_vars(hardTimeout(p))

FairSpec == Spec /\ Fairness

-----------------------------------------------------------------------------
\* Properties

\* The journal and the Keychain never drift further apart than one interrupted
\* fenced write: the item is at the journal's generation, or one ahead of it
\* (crash point C3).  Behind would be a refresh lost; two ahead a fence missed.
GenerationOrder == journalGen <= keychain.gen /\ keychain.gen <= journalGen + 1

\* The copies of the grant that are about: the item, what the calls read in
\* step 1 and what they returned to their callers.
Copies == {keychain} \cup {grant[p] : p \in Ops} \cup ({ret[p] : p \in Ops} \ {None})

\* A generation names one grant: two callers that hold the same generation hold
\* the same tokens, however many refreshes raced, failed half-way or crashed.
\* ("A refresh computed from g0 can never land after another process committed
\* g1": it would put a second grant under g1.)
GenerationIdentifiesGrant == \A c, d \in Copies : c.gen = d.gen => c = d

\* The fences never throw away the one refresh token the provider accepts: it is
\* in the item, or with a call that may still write it, unless the grant was
\* withdrawn or the holder of the answer died, was aborted or failed (R9).
TokenAccounted == lost \/ validTok = keychain.tok \/ \E p \in Ops : HoldsLiveToken(p)

\* The lease de-duplicates: while every lease is renewed in time there is one
\* call between acquireRefreshLease and the end of its fenced write.
OneRefresher ==
    lapsed \/ \A p, q \in Ops :
        /\ pc[p] \in {"preflight", "http", "fence", "write", "commit"}
        /\ pc[q] \in {"preflight", "http", "fence", "write", "commit"}
        => p = q

\* An account is marked auth_revoked only if its grant is gone, provided that the
\* leases held: invalid_grant with the generation unchanged is then no lost race.
RevokedOnlyIfLost == status = "auth_revoked" => lost \/ lapsed

\* Nobody takes a generation back: the journal only grows, and the item is only
\* ever replaced by its successor.
GenerationsOnlyGrow ==
    [][/\ journalGen' >= journalGen
       /\ keychain' # keychain => keychain'.gen = keychain.gen + 1]_vars

\* The refresh implements the abstract grant cell: every step replaces the item
\* by its successor, lets the journal catch up with the item, or changes neither.
Cell == INSTANCE GrantCell WITH Contents <- Grants, cell <- keychain, committed <- journalGen
RefinesGrantCell == Cell!Spec

\* Every refreshIfNeeded settles, whatever the provider and the peers do.
EveryCallReturns == \A p \in Ops : <>(pc[p] \in Returned)

=============================================================================
