---------------------------- MODULE SingleFlight ----------------------------
(***************************************************************************)
(* Poll coalescing for one account (src/single-flight.ts with the          *)
(* poll_claims and snapshots statements of src/store.ts).                  *)
(*                                                                         *)
(* Callers in several processes share a claim row with a deadline and the  *)
(* snapshot rows, one per bucket.  Time is the variable now: a caller reads *)
(* the clock, waits for the SQLite write lock and only then claims, and a  *)
(* fetch may come back at any later time, its timer late included.         *)
(***************************************************************************)
EXTENDS Integers

CONSTANTS
    Callers,      \* calls of fetchAndCache for the account
    Buckets,      \* usage windows the provider may report
    Ttl,          \* pollClaimTtlMs, in ticks
    MaxTime,      \* bound on the clock
    None          \* no claim

Times == 0 .. MaxTime
Claims == [holder : Callers \X (1 .. 2), claimedAt : Times, until : Nat]

ASSUME CallersAssumption == Callers # {} /\ None \notin Claims
ASSUME BucketsAssumption == Buckets # {}
ASSUME TimeAssumption == Ttl \in Nat \ {0} /\ MaxTime \in Nat \ {0}

VARIABLES
    now,         \* Date.now()
    claim,       \* the poll_claims row: [holder, claimedAt, until], or None
    snap,        \* snapshots: fetched_at of each bucket; NoRow when absent
    pc, pass,    \* control state and `passes` of each caller
    seen,        \* seenFetchedAt: the newest fetched_at at P1 (NoRow for NULL)
    clock,       \* the `now` claimPollOrFresh read before BEGIN IMMEDIATE
    claimedAt,   \* claimed_at read back after the claim
    deadline,    \* end of the P4 wait, or the until of the claim just taken
    readings,    \* what doFetch returned: a subset of the buckets, and when
    outcome,     \* the FetchOutcome reported
    served,      \* newest fetched_at of the buckets returned
    epoch,       \* history: number of claims granted
    mine,        \* history: the number of the caller's own last claim
    published    \* history: number of the last claim whose readings were stored

vars == <<now, claim, snap, pc, pass, seen, clock, claimedAt, deadline, readings, outcome, served,
          epoch, mine, published>>
locals == <<seen, clock, claimedAt, deadline, readings, outcome, served>>
history == <<epoch, mine, published>>

NoRow == -1
Running == {"p1", "p2", "claim", "readback", "fetch", "p4", "wait", "recheck"}

NoReadings == [of |-> {}, at |-> 0]

me(p) == <<p, pass[p]>>

\* newestFetchedAt over the snapshot rows.
newestFetchedAt == CHOOSE t \in {snap[b] : b \in Buckets} : \A b \in Buckets : snap[b] <= t

\* isFresh, with NoRow below every time: NULL-safe as in the code.
isFresh(rowFetchedAt, at) == rowFetchedAt > at

TypeOK ==
    /\ now \in Times
    /\ claim \in Claims \cup {None}
    /\ snap \in [Buckets -> Times \cup {NoRow}]
    /\ pc \in [Callers -> Running \cup {"done", "crashed"}]
    /\ pass \in [Callers -> 0 .. 2]
    /\ seen \in [Callers -> Times \cup {NoRow}]
    /\ clock \in [Callers -> Times]
    /\ claimedAt \in [Callers -> Times]
    /\ deadline \in [Callers -> Nat]
    /\ readings \in [Callers -> [of : SUBSET Buckets, at : Times]]
    /\ outcome \in [Callers -> {"none", "coalesced", "fetched", "cached-after-failure"}]
    /\ served \in [Callers -> Times \cup {NoRow}]
    /\ epoch \in Nat /\ mine \in [Callers -> Nat] /\ published \in Nat

\* A first poll of the account, or one with rows an earlier poll left.
Init ==
    /\ now = 1
    /\ claim = None
    /\ snap \in [Buckets -> {NoRow}] \cup [Buckets -> {0}]
    /\ pc = [p \in Callers |-> "p1"]
    /\ pass = [p \in Callers |-> 0]
    /\ seen = [p \in Callers |-> NoRow]
    /\ clock = [p \in Callers |-> 0]
    /\ claimedAt = [p \in Callers |-> 0]
    /\ deadline = [p \in Callers |-> 0]
    /\ readings = [p \in Callers |-> NoReadings]
    /\ outcome = [p \in Callers |-> "none"]
    /\ served = [p \in Callers |-> NoRow]
    /\ epoch = 0
    /\ mine = [p \in Callers |-> 0]
    /\ published = 0

-----------------------------------------------------------------------------
Goto(p, label) == pc' = [pc EXCEPT ![p] = label]

\* The call is over, and with it its local variables.
Leave(p, label) ==
    /\ Goto(p, label)
    /\ clock' = [clock EXCEPT ![p] = 0]
    /\ claimedAt' = [claimedAt EXCEPT ![p] = 0]
    /\ deadline' = [deadline EXCEPT ![p] = 0]
    /\ readings' = [readings EXCEPT ![p] = NoReadings]

\* emitOutcome, and the rows as they are when getAllSnapshots reads them.
Finish(p, o) ==
    /\ Leave(p, "done")
    /\ outcome' = [outcome EXCEPT ![p] = o]
    /\ served' = [served EXCEPT ![p] = newestFetchedAt]
    /\ UNCHANGED seen

\* releasePollStmt: DELETE ... WHERE holder_id = ? AND claimed_at = ?
OwnClaim(p) == claim # None /\ claim.holder = me(p) /\ claim.claimedAt = claimedAt[p]

releasePoll(p) == claim' = IF OwnClaim(p) THEN None ELSE claim

\* P1: the plain cache read of fetchAndCache.
readCache(p) ==
    /\ pc[p] = "p1"
    /\ seen' = [seen EXCEPT ![p] = newestFetchedAt]
    /\ Goto(p, "p2")
    /\ UNCHANGED <<now, claim, snap, pass, clock, claimedAt, deadline, readings, outcome, served, history>>

\* The loop head: at most two passes, each with a holder id of its own.
nextPass(p) ==
    /\ pc[p] = "p2"
    /\ \/ /\ pass[p] < 2
          /\ pass' = [pass EXCEPT ![p] = @ + 1]
          /\ clock' = [clock EXCEPT ![p] = now]
          /\ Goto(p, "claim")
          /\ UNCHANGED <<seen, claimedAt, deadline, readings, outcome, served>>
       \/ /\ pass[p] = 2
          /\ Finish(p, "cached-after-failure")
          /\ UNCHANGED pass
    /\ UNCHANGED <<now, claim, snap, history>>

\* claimPollStmt: no row, or WHERE poll_claims.until <= excluded.claimed_at.
Claimable(p) == claim = None \/ (claim # None /\ claim.until <= clock[p])

\* P2 under the write lock: fresh, acquired or busy.
claimPollOrFresh(p) ==
    /\ pc[p] = "claim"
    /\ \/ /\ isFresh(newestFetchedAt, seen[p])
          /\ Finish(p, "coalesced")
          /\ UNCHANGED <<claim, epoch, mine>>
       \/ /\ ~isFresh(newestFetchedAt, seen[p]) /\ Claimable(p)
          /\ claim' = [holder |-> me(p), claimedAt |-> clock[p], until |-> clock[p] + Ttl]
          /\ deadline' = [deadline EXCEPT ![p] = clock[p] + Ttl]
          /\ epoch' = epoch + 1
          /\ mine' = [mine EXCEPT ![p] = epoch + 1]
          /\ Goto(p, "readback")
          /\ UNCHANGED <<seen, clock, claimedAt, readings, outcome, served>>
       \/ /\ ~isFresh(newestFetchedAt, seen[p]) /\ ~Claimable(p)
          /\ Goto(p, "p4")
          /\ UNCHANGED <<claim, epoch, mine, locals>>
    /\ UNCHANGED <<now, snap, pass, published>>

\* getPollClaim()?.claimed_at ?? Date.now(): by now the row may be another's.
readBack(p) ==
    /\ pc[p] = "readback"
    /\ claimedAt' = [claimedAt EXCEPT ![p] = IF claim = None THEN now ELSE claim.claimedAt]
    /\ Goto(p, "fetch")
    /\ UNCHANGED <<now, claim, snap, pass, seen, clock, deadline, readings, outcome, served, history>>

\* External: the adapter reads the provider and stamps what it read.
providerAnswers(p) ==
    /\ pc[p] = "fetch"
    /\ readings[p].of = {}
    /\ \E bs \in (SUBSET Buckets) \ {{}} : readings' = [readings EXCEPT ![p] = [of |-> bs, at |-> now]]
    /\ UNCHANGED <<now, claim, snap, pc, pass, seen, clock, claimedAt, deadline, outcome, served, history>>

\* Mutant: Rule W is left out; a poll that lost its claim stores its readings.
RuleWNever(p) == TRUE

\* Rule W: the row still shows (holderId, claimedAt).
RuleW(p) == OwnClaim(p)

\* completePoll: conditional upserts (newer fetched_at wins) and the release, in
\* one transaction; then the rows are read back.
completePoll(p) ==
    /\ pc[p] = "fetch"
    /\ readings[p].of # {}
    /\ snap' = [b \in Buckets |-> IF RuleW(p) /\ b \in readings[p].of /\ readings[p].at > snap[b]
                                  THEN readings[p].at ELSE snap[b]]
    /\ published' = IF snap' # snap THEN mine[p] ELSE published
    /\ releasePoll(p)
    /\ Leave(p, "done")
    /\ outcome' = [outcome EXCEPT ![p] = "fetched"]
    /\ served' = [served EXCEPT ![p] = CHOOSE t \in {snap'[b] : b \in Buckets} : \A b \in Buckets : snap'[b] <= t]
    /\ UNCHANGED <<now, pass, seen, epoch, mine>>

\* doFetch failed, or the hard timeout won the race against it.
releasePollClaim(p) ==
    /\ pc[p] = "fetch"
    /\ releasePoll(p)
    /\ Finish(p, "cached-after-failure")
    /\ UNCHANGED <<now, snap, pass, history>>

\* P4: Math.min(live?.until ?? now + ttl, now + ttl).  Bound: no wait starts that
\* the clock could not see the end of.
AtHorizon == now + Ttl > MaxTime

startWait(p) ==
    /\ pc[p] = "p4"
    /\ ~AtHorizon
    /\ deadline' = [deadline EXCEPT ![p] = IF claim # None /\ claim.until < now + Ttl
                                           THEN claim.until ELSE now + Ttl]
    /\ Goto(p, "wait")
    /\ UNCHANGED <<now, claim, snap, pass, seen, clock, claimedAt, readings, outcome, served, history>>

\* Mutant: only fresh rows or a deleted claim end the wait.
WaitOverWithoutClock(p) == claim = None

\* The deadline of the wait, or the claim gone or expired.
WaitOver(p) == now >= deadline[p] \/ claim = None \/ (claim # None /\ claim.until <= now)

\* One turn of the 50 ms loop.
waitForFresh(p) ==
    /\ pc[p] = "wait"
    /\ \/ isFresh(newestFetchedAt, seen[p]) /\ Finish(p, "coalesced")
       \/ /\ ~isFresh(newestFetchedAt, seen[p]) /\ WaitOver(p)
          /\ Goto(p, "recheck")
          /\ UNCHANGED locals
    /\ UNCHANGED <<now, claim, snap, pass, history>>

\* The read after the loop: a result that landed in between still counts.
recheck(p) ==
    /\ pc[p] = "recheck"
    /\ \/ isFresh(newestFetchedAt, seen[p]) /\ Finish(p, "coalesced")
       \/ ~isFresh(newestFetchedAt, seen[p]) /\ Goto(p, "p2") /\ UNCHANGED locals
    /\ UNCHANGED <<now, claim, snap, pass, history>>

\* The process dies; its claim stays until it expires.
crash(p) ==
    /\ pc[p] \in Running
    /\ Leave(p, "crashed")
    /\ UNCHANGED <<now, claim, snap, pass, seen, outcome, served, history>>

Tick ==
    /\ now < MaxTime
    /\ now' = now + 1
    /\ UNCHANGED <<claim, snap, pc, pass, locals, history>>

-----------------------------------------------------------------------------
Progress(p) ==
    \/ readCache(p) \/ nextPass(p) \/ claimPollOrFresh(p) \/ readBack(p)
    \/ completePoll(p) \/ releasePollClaim(p)
    \/ startWait(p) \/ waitForFresh(p) \/ recheck(p)

Next ==
    \/ \E p \in Callers : Progress(p) \/ providerAnswers(p) \/ crash(p)
    \/ Tick

Spec == Init /\ [][Next]_vars

\* The event loop turns, the hard timeout fires and the clock advances.
FairSpec == Spec /\ WF_vars(Tick) /\ \A p \in Callers : WF_vars(Progress(p))

-----------------------------------------------------------------------------
\* Properties

\* One provider request at a time: two callers between claim and completion only
\* if the claim of one of them has run out.
OneFetchPerClaim ==
    \A p, q \in Callers :
        /\ pc[p] \in {"readback", "fetch"} /\ now < deadline[p]
        /\ pc[q] \in {"readback", "fetch"} /\ now < deadline[q]
        => p = q

\* A poll that was overtaken never publishes: the readings in the rows come from
\* claims in the order in which they were granted (Rule W).
PublishedInClaimOrder == [][published' >= published]_vars

\* What a coalesced caller is served was fetched after the rows it had seen.
CoalescedIsFresh == \A p \in Callers : outcome[p] = "coalesced" => served[p] > seen[p]

\* No caller waits for ever, not even for a claim whose holder died.
EveryCallerServed == \A p \in Callers : <>(pc[p] \in {"done", "crashed"} \/ (pc[p] = "p4" /\ AtHorizon))

\* While a claim has not run out its holder alone asks the provider, a poll that was
\* overtaken never publishes (Rule W of completePoll: the readings in the rows come
\* from claims in the order in which they were granted), and a coalesced caller is
\* served what was fetched after the rows it had seen.
PollsInOrder == PublishedInClaimOrder /\ []CoalescedIsFresh /\ []OneFetchPerClaim
=============================================================================
