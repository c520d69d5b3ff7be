------------------------- MODULE SingleFlightProofs -------------------------
(***************************************************************************)
(* Proofs about SingleFlight, for any number of callers, buckets and ticks *)
(* of the clock.                                                           *)
(***************************************************************************)
EXTENDS SingleFlight, WellFoundedInduction, TLAPS

USE DEF vars, locals, history

Rows == Times \cup {NoRow}

\* The newest of a non-empty set of rows exists: fetched_at is bounded by the clock.
LEMMA NewestExists ==
  ASSUME NEW S \in SUBSET Rows, S # {}
  PROVE  \E t \in S : \A x \in S : x <= t
<1> DEFINE T == {MaxTime - x : x \in S}
<1>1. MaxTime \in Nat /\ \A x \in S : x \in Int /\ x <= MaxTime
  BY TimeAssumption DEF TimeAssumption, Rows, Times, NoRow
<1>2. T \subseteq Nat /\ T # {}
  BY <1>1
<1>3. PICK m \in T : \A n \in T : ~(<<n, m>> \in OpToRel(<, Nat))
  BY <1>2, NatLessThanWellFounded, WFMin
<1>4. \A n \in T : m <= n
  <2> SUFFICES ASSUME NEW n \in T, n < m PROVE FALSE
    BY <1>2
  <2>1. <<n, m>> \in OpToRel(<, Nat)
    BY <1>2 DEF OpToRel
  <2> QED BY <2>1, <1>3
<1>5. PICK t \in S : m = MaxTime - t
  BY <1>3
<1>6. \A x \in S : x <= t
  BY <1>1, <1>4, <1>5
<1> QED BY <1>6

\* So newestFetchedAt is the fetched_at of a row, or NoRow when there is none.
LEMMA NewestType ==
  ASSUME NEW f \in [Buckets -> Rows]
  PROVE  (CHOOSE t \in {f[b] : b \in Buckets} : \A b \in Buckets : f[b] <= t) \in Rows
<1>1. {f[b] : b \in Buckets} \in SUBSET Rows /\ {f[b] : b \in Buckets} # {}
  BY BucketsAssumption DEF BucketsAssumption
<1>2. \E t \in {f[b] : b \in Buckets} : \A b \in Buckets : f[b] <= t
  BY <1>1, NewestExists
<1> QED BY <1>1, <1>2

\* What a caller leaves behind, and what it reports when it is done, has its type.
LEMMA LeaveType ==
  ASSUME TypeOK, NEW p \in Callers, NEW l \in Running \cup {"done", "crashed"}, Leave(p, l)
  PROVE  /\ pc' \in [Callers -> Running \cup {"done", "crashed"}]
         /\ clock' \in [Callers -> Times]
         /\ claimedAt' \in [Callers -> Times]
         /\ deadline' \in [Callers -> Nat]
         /\ readings' \in [Callers -> [of : SUBSET Buckets, at : Times]]
<1>1. 0 \in Times
  BY TimeAssumption DEF TimeAssumption, Times
<1>2. NoReadings \in [of : SUBSET Buckets, at : Times]
  BY <1>1 DEF NoReadings
<1> QED BY <1>1, <1>2 DEF TypeOK, Leave, Goto

\* emitOutcome: likewise, with the rows it returns.
LEMMA FinishType ==
  ASSUME TypeOK, NEW p \in Callers, NEW o \in {"coalesced", "fetched", "cached-after-failure"}, Finish(p, o)
  PROVE  /\ pc' \in [Callers -> Running \cup {"done", "crashed"}]
         /\ clock' \in [Callers -> Times]
         /\ claimedAt' \in [Callers -> Times]
         /\ deadline' \in [Callers -> Nat]
         /\ readings' \in [Callers -> [of : SUBSET Buckets, at : Times]]
         /\ outcome' \in [Callers -> {"none", "coalesced", "fetched", "cached-after-failure"}]
         /\ served' \in [Callers -> Rows]
         /\ seen' = seen
<1>1. newestFetchedAt \in Rows
  BY NewestType DEF TypeOK, newestFetchedAt, Rows
<1>2. "done" \in Running \cup {"done", "crashed"} /\ Leave(p, "done")
  BY DEF Finish
<1>3. /\ pc' \in [Callers -> Running \cup {"done", "crashed"}]
      /\ clock' \in [Callers -> Times]
      /\ claimedAt' \in [Callers -> Times]
      /\ deadline' \in [Callers -> Nat]
      /\ readings' \in [Callers -> [of : SUBSET Buckets, at : Times]]
  BY <1>2, LeaveType
<1>4. /\ outcome' \in [Callers -> {"none", "coalesced", "fetched", "cached-after-failure"}]
      /\ served' \in [Callers -> Rows]
      /\ seen' = seen
  BY <1>1 DEF TypeOK, Finish, Rows
<1> QED BY <1>3, <1>4

\* A poll that has not begun is well typed.
LEMMA TypeInit == Init => TypeOK
<1> SUFFICES ASSUME Init PROVE TypeOK
  OBVIOUS
<1>1. NoReadings \in [of : SUBSET Buckets, at : Times] /\ 0 \in Times
  BY TimeAssumption DEF TimeAssumption, Times, NoReadings
<1>2. now \in Times
  BY TimeAssumption DEF TimeAssumption, Times, Init
<1> QED BY <1>1, <1>2 DEF Init, TypeOK, Running

\* A caller claims in its first or its second pass.
PassCounted == \A p \in Callers : pc[p] = "claim" => pass[p] # 0

TypeInv == TypeOK /\ PassCounted

\* The row claimPollStmt writes is a claim, of the pass the caller is in.
LEMMA NewClaimType ==
  ASSUME TypeInv, NEW p \in Callers, pc[p] = "claim"
  PROVE  /\ clock[p] + Ttl \in Nat
         /\ [holder |-> me(p), claimedAt |-> clock[p], until |-> clock[p] + Ttl] \in Claims
<1>1. clock[p] \in Times /\ pass[p] \in 0 .. 2 /\ pass[p] # 0
  BY DEF TypeInv, TypeOK, PassCounted
<1>2. clock[p] + Ttl \in Nat
  BY <1>1, TimeAssumption DEF TimeAssumption, Times
<1>3. me(p) \in Callers \X (1 .. 2)
  BY <1>1 DEF me
<1> QED BY <1>1, <1>2, <1>3 DEF Claims

\* Every step of a caller, the provider, a crash and the clock keeps the types.
LEMMA TypeStep == TypeInv /\ [Next]_vars => TypeInv'
<1> SUFFICES ASSUME TypeInv, [Next]_vars PROVE TypeInv'
  OBVIOUS
<1> USE DEF TypeInv, TypeOK, PassCounted
<1>1. newestFetchedAt \in Rows
  BY NewestType DEF newestFetchedAt, Rows
<1>2. Times \subseteq Nat /\ Ttl \in Nat /\ MaxTime \in Nat
  BY TimeAssumption DEF TimeAssumption, Times
<1>3. ASSUME NEW p \in Callers, readCache(p) PROVE TypeInv'
  BY <1>3, <1>1 DEF readCache, Goto, Running, Rows
<1>4. ASSUME NEW p \in Callers, nextPass(p) PROVE TypeInv'
  <2>1. CASE pass[p] < 2 /\ pass' = [pass EXCEPT ![p] = @ + 1] /\ Goto(p, "claim")
    BY <1>4, <2>1 DEF nextPass, Goto, Running
  <2>2. CASE Finish(p, "cached-after-failure") /\ UNCHANGED pass
    <3>1. PassCounted'
      BY <2>2 DEF Finish, Leave, Goto
    <3> QED BY <1>4, <2>2, <3>1, FinishType DEF nextPass, Rows
  <2> QED BY <1>4, <2>1, <2>2 DEF nextPass
<1>5. ASSUME NEW p \in Callers, claimPollOrFresh(p) PROVE TypeInv'
  <2>1. CASE Finish(p, "coalesced") /\ UNCHANGED <<claim, epoch, mine>>
    <3>1. PassCounted'
      BY <1>5, <2>1 DEF claimPollOrFresh, Finish, Leave, Goto
    <3> QED BY <1>5, <2>1, <3>1, FinishType DEF claimPollOrFresh, Rows
  <2>2. CASE /\ claim' = [holder |-> me(p), claimedAt |-> clock[p], until |-> clock[p] + Ttl]
             /\ deadline' = [deadline EXCEPT ![p] = clock[p] + Ttl]
             /\ epoch' = epoch + 1
             /\ mine' = [mine EXCEPT ![p] = epoch + 1]
             /\ Goto(p, "readback")
             /\ UNCHANGED <<seen, clock, claimedAt, readings, outcome, served>>
    <3>1. clock[p] + Ttl \in Nat /\ claim' \in Claims
      BY <1>5, <2>2, NewClaimType DEF claimPollOrFresh
    <3> QED BY <1>5, <2>2, <3>1 DEF claimPollOrFresh, Goto, Running
  <2>3. CASE Goto(p, "p4") /\ UNCHANGED <<claim, epoch, mine, locals>>
    BY <1>5, <2>3 DEF claimPollOrFresh, Goto, Running
  <2> QED BY <1>5, <2>1, <2>2, <2>3 DEF claimPollOrFresh
<1>6. ASSUME NEW p \in Callers, readBack(p) PROVE TypeInv'
  <2>1. (IF claim = None THEN now ELSE claim.claimedAt) \in Times
    BY DEF Claims
  <2> QED BY <1>6, <2>1 DEF readBack, Goto, Running
<1>7. ASSUME NEW p \in Callers, providerAnswers(p) PROVE TypeInv'
  <2>1. PICK bs \in SUBSET Buckets : readings' = [readings EXCEPT ![p] = [of |-> bs, at |-> now]]
    BY <1>7 DEF providerAnswers
  <2>2. [of |-> bs, at |-> now] \in [of : SUBSET Buckets, at : Times]
    OBVIOUS
  <2> QED BY <1>7, <2>1, <2>2 DEF providerAnswers
<1>8. ASSUME NEW p \in Callers, completePoll(p) PROVE TypeInv'
  <2>1. snap' \in [Buckets -> Rows]
    BY <1>8 DEF completePoll, Rows
  <2>2. (CHOOSE t \in {snap'[b] : b \in Buckets} : \A b \in Buckets : snap'[b] <= t) \in Rows
    BY <2>1, NewestType
  <2>3. claim' \in Claims \cup {None}
    BY <1>8 DEF completePoll, releasePoll, Claims
  <2>4. PassCounted'
    BY <1>8 DEF completePoll, Leave, Goto
  <2>5. "done" \in Running \cup {"done", "crashed"} /\ Leave(p, "done")
    BY <1>8 DEF completePoll
  <2>6. published' \in Nat
    BY <1>8 DEF completePoll
  <2> QED BY <1>8, <2>1, <2>2, <2>3, <2>4, <2>5, <2>6, LeaveType DEF completePoll, Rows, Claims
<1>9. ASSUME NEW p \in Callers, releasePollClaim(p) PROVE TypeInv'
  <2>1. claim' \in Claims \cup {None}
    BY <1>9 DEF releasePollClaim, releasePoll, Claims
  <2>2. PassCounted'
    BY <1>9 DEF releasePollClaim, Finish, Leave, Goto
  <2> QED BY <1>9, <2>1, <2>2, FinishType DEF releasePollClaim, Rows, Claims
<1>10. ASSUME NEW p \in Callers, startWait(p) PROVE TypeInv'
  <2>1. (IF claim # None /\ claim.until < now + Ttl THEN claim.until ELSE now + Ttl) \in Nat
    BY <1>2 DEF Claims
  <2> QED BY <1>10, <2>1 DEF startWait, Goto, Running
<1>11. ASSUME NEW p \in Callers, waitForFresh(p) PROVE TypeInv'
  <2>1. CASE Finish(p, "coalesced")
    <3>1. PassCounted'
      BY <1>11, <2>1 DEF waitForFresh, Finish, Leave, Goto
    <3> QED BY <1>11, <2>1, <3>1, FinishType DEF waitForFresh, Rows
  <2>2. CASE Goto(p, "recheck") /\ UNCHANGED locals
    BY <1>11, <2>2 DEF waitForFresh, Goto, Running
  <2> QED BY <1>11, <2>1, <2>2 DEF waitForFresh
<1>12. ASSUME NEW p \in Callers, recheck(p) PROVE TypeInv'
  <2>1. CASE Finish(p, "coalesced")
    <3>1. PassCounted'
      BY <1>12, <2>1 DEF recheck, Finish, Leave, Goto
    <3> QED BY <1>12, <2>1, <3>1, FinishType DEF recheck, Rows
  <2>2. CASE Goto(p, "p2") /\ UNCHANGED locals
    BY <1>12, <2>2 DEF recheck, Goto, Running
  <2> QED BY <1>12, <2>1, <2>2 DEF recheck
<1>13. ASSUME NEW p \in Callers, crash(p) PROVE TypeInv'
  <2>1. "crashed" \in Running \cup {"done", "crashed"} /\ Leave(p, "crashed")
    BY <1>13 DEF crash
  <2>2. PassCounted'
    BY <1>13 DEF crash, Leave, Goto
  <2> QED BY <1>13, <2>1, <2>2, LeaveType DEF crash
<1>14. CASE Tick
  <2>1. now + 1 \in Times
    BY <1>14, TimeAssumption DEF Tick, Times, TimeAssumption
  <2> QED BY <1>14, <2>1 DEF Tick
<1>15. CASE UNCHANGED vars
  BY <1>15
<1> QED
  BY <1>3, <1>4, <1>5, <1>6, <1>7, <1>8, <1>9, <1>10, <1>11, <1>12, <1>13, <1>14, <1>15 DEF Next, Progress

\* Every value has its type, and a holder id names a pass that was begun.
THEOREM TypeCorrect == Spec => []TypeOK
<1>1. Init => TypeInv
  BY TypeInit DEF Init, TypeInv, PassCounted
<1>2. TypeInv => TypeOK
  BY DEF TypeInv
<1> QED BY <1>1, <1>2, TypeStep, PTL DEF Spec

-----------------------------------------------------------------------------
\* The claim, as an inductive invariant.

\* A caller read the clock before it had the write lock.
ClocksBehind == \A p \in Callers : clock[p] <= now

\* A caller that has claimed and whose claim has not run out owns the row.
ClaimHeld ==
    \A p \in Callers :
        pc[p] \in {"readback", "fetch"} /\ now < deadline[p]
        => claim # None /\ claim.holder = me(p) /\ claim.until = deadline[p]

\* The row belongs to the last claim granted, and nothing was published by a
\* claim that was never granted.
ClaimsCounted ==
    /\ claim # None => mine[claim.holder[1]] = epoch
    /\ published <= epoch

\* A coalesced call is over.
CoalescedDone == \A p \in Callers : outcome[p] = "coalesced" => pc[p] = "done" /\ served[p] > seen[p]

FlightInv == TypeInv /\ ClocksBehind /\ ClaimHeld /\ ClaimsCounted /\ CoalescedDone

\* No claim yet, and nobody has returned.
LEMMA FlightInit == Init => FlightInv
<1> SUFFICES ASSUME Init PROVE FlightInv
  OBVIOUS
<1>1. TypeInv
  BY TypeInit DEF Init, TypeInv, PassCounted
<1> QED BY <1>1 DEF Init, FlightInv, ClocksBehind, ClaimHeld, ClaimsCounted, CoalescedDone

\* The steps that do not touch the claim row.
LEMMA ClaimUntouchedStep ==
  ASSUME FlightInv, NEW p \in Callers,
         readCache(p) \/ nextPass(p) \/ readBack(p) \/ providerAnswers(p) \/ startWait(p)
           \/ waitForFresh(p) \/ recheck(p) \/ crash(p)
  PROVE  ClocksBehind' /\ ClaimHeld' /\ ClaimsCounted'
<1> USE DEF FlightInv, TypeInv, TypeOK, ClocksBehind, ClaimHeld, ClaimsCounted, me, Goto
<1>1. 0 <= now /\ now \in Nat
  BY TimeAssumption DEF TimeAssumption, Times
<1>2. CASE readCache(p)
  BY <1>2 DEF readCache
<1>3. CASE nextPass(p)
  <2>1. CASE Goto(p, "claim") /\ clock' = [clock EXCEPT ![p] = now] /\ UNCHANGED deadline
    BY <1>1, <1>3, <2>1 DEF nextPass
  <2>2. CASE Finish(p, "cached-after-failure") /\ UNCHANGED pass
    BY <1>1, <1>3, <2>2 DEF nextPass, Finish, Leave
  <2> QED BY <1>3, <2>1, <2>2 DEF nextPass
<1>4. CASE readBack(p)
  BY <1>4 DEF readBack
<1>5. CASE providerAnswers(p)
  BY <1>5 DEF providerAnswers
<1>6. CASE startWait(p)
  BY <1>6 DEF startWait
<1>7. CASE waitForFresh(p)
  BY <1>1, <1>7 DEF waitForFresh, Finish, Leave
<1>8. CASE recheck(p)
  BY <1>1, <1>8 DEF recheck, Finish, Leave
<1>9. CASE crash(p)
  BY <1>1, <1>9 DEF crash, Leave
<1> QED BY <1>2, <1>3, <1>4, <1>5, <1>6, <1>7, <1>8, <1>9

\* Taking, completing and releasing a claim: only an expired claim is taken over, and
\* only the owner deletes the row.
LEMMA ClaimStep ==
  ASSUME FlightInv, NEW p \in Callers, claimPollOrFresh(p) \/ completePoll(p) \/ releasePollClaim(p)
  PROVE  ClocksBehind' /\ ClaimHeld' /\ ClaimsCounted'
<1> USE DEF FlightInv, TypeInv, TypeOK, ClocksBehind, ClaimHeld, ClaimsCounted, me, Goto
<1>1. /\ now \in Nat /\ 0 <= now /\ Ttl \in Nat
      /\ \A q \in Callers : clock[q] \in Nat /\ deadline[q] \in Nat
  BY TimeAssumption DEF TimeAssumption, Times
<1>2. CASE claimPollOrFresh(p)
  <2>1. CASE Finish(p, "coalesced") /\ UNCHANGED <<claim, epoch, mine>>
    BY <1>1, <1>2, <2>1 DEF claimPollOrFresh, Finish, Leave
  <2>2. CASE /\ Claimable(p)
             /\ claim' = [holder |-> me(p), claimedAt |-> clock[p], until |-> clock[p] + Ttl]
             /\ deadline' = [deadline EXCEPT ![p] = clock[p] + Ttl]
             /\ epoch' = epoch + 1
             /\ mine' = [mine EXCEPT ![p] = epoch + 1]
             /\ Goto(p, "readback")
             /\ UNCHANGED <<seen, clock, claimedAt, readings, outcome, served>>
    <3>1. ASSUME NEW q \in Callers, q # p, pc[q] \in {"readback", "fetch"}, now < deadline[q]
          PROVE  FALSE
      BY <1>1, <2>2, <3>1 DEF Claimable
    <3>2. ClaimHeld'
      <4>1. claim' # None
        BY <1>2, <2>2, NewClaimType, CallersAssumption DEF CallersAssumption, claimPollOrFresh
      <4> QED BY <1>2, <2>2, <3>1, <4>1 DEF claimPollOrFresh
    <3>3. ClaimsCounted'
      BY <1>1, <1>2, <2>2 DEF claimPollOrFresh
    <3> QED BY <1>2, <2>2, <3>2, <3>3 DEF claimPollOrFresh
  <2>3. CASE Goto(p, "p4") /\ UNCHANGED <<claim, epoch, mine, locals>>
    BY <1>2, <2>3 DEF claimPollOrFresh
  <2> QED BY <1>2, <2>1, <2>2, <2>3 DEF claimPollOrFresh
<1>3. ASSUME releasePoll(p), Leave(p, "done"), UNCHANGED <<now, pass, epoch, mine>>, published' <= epoch
      PROVE  ClocksBehind' /\ ClaimHeld' /\ ClaimsCounted'
  <2>1. ASSUME NEW q \in Callers, q # p, pc[q] \in {"readback", "fetch"}, now < deadline[q]
        PROVE  claim' = claim
    BY <1>3, <2>1 DEF releasePoll, OwnClaim
  <2>2. ClaimHeld'
    BY <1>3, <2>1 DEF Leave
  <2>3. ClocksBehind' /\ ClaimsCounted'
    BY <1>1, <1>3 DEF Leave, releasePoll
  <2> QED BY <2>2, <2>3
<1>4. CASE completePoll(p)
  <2>1. snap' # snap => OwnClaim(p)
    BY <1>4 DEF completePoll, RuleW
  <2>2. OwnClaim(p) => mine[p] = epoch
    BY DEF OwnClaim
  <2>3. published' <= epoch
    BY <1>4, <2>1, <2>2 DEF completePoll
  <2> QED BY <1>3, <1>4, <2>3 DEF completePoll
<1>5. CASE releasePollClaim(p)
  BY <1>3, <1>5 DEF releasePollClaim, Finish
<1> QED BY <1>2, <1>4, <1>5

\* The clock only lets claims run out.
LEMMA TickStep ==
  ASSUME FlightInv, Tick
  PROVE  ClocksBehind' /\ ClaimHeld' /\ ClaimsCounted'
<1>1. now \in Nat /\ now < now' /\ \A q \in Callers : clock[q] \in Nat /\ deadline[q] \in Nat
  BY TimeAssumption DEF FlightInv, TypeInv, TypeOK, Tick, Times, TimeAssumption
<1> QED BY <1>1 DEF Tick, FlightInv, ClocksBehind, ClaimHeld, ClaimsCounted, me

\* A coalesced caller's rows are those it is served at the end, and it does not run on.
LEMMA CoalescedStep ==
  ASSUME FlightInv, [Next]_vars
  PROVE  CoalescedDone'
<1> USE DEF FlightInv, TypeInv, TypeOK, CoalescedDone, Goto
<1>1. ASSUME NEW p \in Callers, Finish(p, "coalesced"), isFresh(newestFetchedAt, seen[p])
      PROVE  CoalescedDone'
  BY <1>1 DEF Finish, Leave, isFresh
<1>2. ASSUME NEW p \in Callers, Finish(p, "cached-after-failure"), pc[p] # "done"
      PROVE  CoalescedDone'
  BY <1>2 DEF Finish, Leave
<1>3. ASSUME NEW p \in Callers, readCache(p) \/ readBack(p) \/ providerAnswers(p) \/ completePoll(p) \/ startWait(p)
      PROVE  CoalescedDone'
  BY <1>3 DEF readCache, readBack, providerAnswers, completePoll, startWait, Leave
<1>4. ASSUME NEW p \in Callers, nextPass(p) PROVE CoalescedDone'
  BY <1>2, <1>4 DEF nextPass
<1>5. ASSUME NEW p \in Callers, claimPollOrFresh(p) PROVE CoalescedDone'
  BY <1>1, <1>5 DEF claimPollOrFresh
<1>6. ASSUME NEW p \in Callers, releasePollClaim(p) PROVE CoalescedDone'
  BY <1>2, <1>6 DEF releasePollClaim
<1>7. ASSUME NEW p \in Callers, waitForFresh(p) PROVE CoalescedDone'
  BY <1>1, <1>7 DEF waitForFresh
<1>8. ASSUME NEW p \in Callers, recheck(p) PROVE CoalescedDone'
  BY <1>1, <1>8 DEF recheck
<1>9. ASSUME NEW p \in Callers, crash(p) PROVE CoalescedDone'
  BY <1>9 DEF crash, Leave, Running
<1>10. CASE Tick \/ UNCHANGED vars
  BY <1>10 DEF Tick
<1> QED
  BY <1>3, <1>4, <1>5, <1>6, <1>7, <1>8, <1>9, <1>10 DEF Next, Progress

\* Every step keeps the invariant.
LEMMA FlightStep == FlightInv /\ [Next]_vars => FlightInv'
<1> SUFFICES ASSUME FlightInv, [Next]_vars PROVE FlightInv'
  OBVIOUS
<1>1. TypeInv'
  BY TypeStep DEF FlightInv
<1>2. ClocksBehind' /\ ClaimHeld' /\ ClaimsCounted'
  <2>1. CASE UNCHANGED vars
    BY <2>1 DEF FlightInv, ClocksBehind, ClaimHeld, ClaimsCounted, me
  <2> QED BY <2>1, ClaimUntouchedStep, ClaimStep, TickStep DEF Next, Progress
<1> QED BY <1>1, <1>2, CoalescedStep DEF FlightInv

\* What is published comes from claims in the order in which they were granted.
LEMMA PublishStep ==
  ASSUME FlightInv, [Next]_vars
  PROVE  published' >= published
<1>1. published \in Nat /\ epoch \in Nat /\ published <= epoch
  BY DEF FlightInv, TypeInv, TypeOK, ClaimsCounted
<1>2. ASSUME NEW p \in Callers, completePoll(p) PROVE published' >= published
  <2>1. snap' # snap => OwnClaim(p)
    BY <1>2 DEF completePoll, RuleW, FlightInv, TypeInv, TypeOK
  <2>2. OwnClaim(p) => mine[p] = epoch
    BY DEF OwnClaim, me, FlightInv, ClaimsCounted
  <2> QED BY <1>1, <1>2, <2>1, <2>2 DEF completePoll
<1>3. ASSUME UNCHANGED published PROVE published' >= published
  BY <1>1, <1>3
<1>4. ASSUME NEW p \in Callers,
             (Progress(p) /\ ~completePoll(p)) \/ providerAnswers(p) \/ crash(p)
      PROVE  UNCHANGED published
  BY <1>4 DEF Progress, readCache, nextPass, claimPollOrFresh, readBack, releasePollClaim, startWait,
     waitForFresh, recheck, providerAnswers, crash
<1>5. CASE Tick \/ UNCHANGED vars
  BY <1>3, <1>5 DEF Tick
<1> QED BY <1>2, <1>3, <1>4, <1>5 DEF Next

\* While its claim has not run out a caller alone asks the provider; a poll that
\* was overtaken never publishes; what a coalesced caller is served was fetched
\* after the rows it had seen.
THEOREM PollsInOrderHolds == Spec => PollsInOrder
<1>1. FlightInv => OneFetchPerClaim
  BY DEF FlightInv, ClaimHeld, OneFetchPerClaim, me
<1>2. FlightInv => CoalescedIsFresh
  BY DEF FlightInv, CoalescedDone, CoalescedIsFresh
<1>3. FlightInv /\ [Next]_vars => [published' >= published]_vars
  BY PublishStep
<1> QED BY <1>1, <1>2, <1>3, FlightInit, FlightStep, PTL DEF Spec, PollsInOrder, PublishedInClaimOrder
=============================================================================
