------------------------- MODULE RefreshLeaseProofs -------------------------
(***************************************************************************)
(* Proofs about RefreshLease, for any number of calls, attempts and        *)
(* generations.  The assumption ~BootstrapReadFaults is cited where the    *)
(* result depends on it.                                                   *)
(***************************************************************************)
EXTENDS RefreshLease, TLAPS

USE DEF shared, calls, env, vars

\* A running call has turns of its attempt loop left.
AttemptBound == \A p \in Ops : pc[p] \in Running => attempt[p] < MaxAttempts

TypeInv == TypeOK /\ AttemptBound

\* Typing of the values the actions build; stated once, so that the steps below
\* need not open the records.
\* The grant a caller passes to bootstrapIfMissing is a grant.
LEMMA FirstGrantType == FirstGrant \in Grants
  BY DEF FirstGrant, Grants, Holders

\* parseGrant: a grant carries a generation, a natural number.
LEMMA GrantGen == \A g \in Grants : g.gen \in Nat
  BY DEF Grants

\* The three comparisons of a generation with the journal's (step 2) are all there are.
LEMMA Trichotomy == \A m, n \in Nat : m > n \/ m = n \/ m < n
  OBVIOUS

\* A POST of step 4 that is still open has an answer of the right type.
LEMMA NoAnswerType == NoAnswer \in Answers
  BY DEF NoAnswer, Answers

\* So have the two answers of the token endpoint.
LEMMA AnswerType ==
  ASSUME NEW t \in Nat
  PROVE  [kind |-> "ok", tok |-> t] \in Answers /\ [kind |-> "invalid", tok |-> t] \in Answers
  BY DEF Answers

\* The row acquireRefreshLease writes is a lease.
LEMMA NewLeaseType ==
  ASSUME TypeOK, NEW p \in Ops
  PROVE  [holder |-> me(p), live |-> TRUE] \in Leases
  BY DEF TypeOK, Leases, me

\* The payload step 5 writes to the item is a grant.
LEMMA NewGrantType ==
  ASSUME TypeOK, NEW p \in Ops
  PROVE  NewGrant(p) \in Grants
  <1>1. gen[p] + 1 \in Nat
    BY DEF TypeOK
  <1>2. resp[p].tok \in Nat
    BY DEF TypeOK, Answers
  <1>3. me(p) \in Holders
    BY DEF TypeOK, me, Holders
  <1> QED BY <1>1, <1>2, <1>3 DEF NewGrant, Grants

\* Dropping an answer keeps the history variable Boolean.
LEMMA DropType ==
  ASSUME NEW p \in Ops, Drop(p)
  PROVE  lost' \in BOOLEAN
  BY Zenon DEF Drop

\* A further turn of the attempt loop stays within MAX_OUTER_ATTEMPTS.
LEMMA ContinueType ==
  ASSUME TypeInv, NEW p \in Ops, pc[p] \in Running, Continue(p)
  PROVE  /\ pc' \in [Ops -> Running \cup Returned]
         /\ attempt' \in [Ops -> 0 .. MaxAttempts]
         /\ resp' \in [Ops -> Answers]
         /\ aborted' \in [Ops -> BOOLEAN]
         /\ UNCHANGED <<grant, gen, ret>>
         /\ AttemptBound'
  BY NoAnswerType, BoundsAssumption
  DEF BoundsAssumption, TypeInv, TypeOK, AttemptBound, Running, Returned, Continue, Goto

\* The initial state is well typed.
LEMMA TypeInit == Init => TypeInv
<1> SUFFICES ASSUME Init PROVE TypeInv
  OBVIOUS
<1>1. /\ pc \in [Ops -> Running \cup Returned]
      /\ grant \in [Ops -> Grants]
      /\ resp \in [Ops -> Answers]
      /\ ret \in [Ops -> Grants \cup {None}]
      /\ keychain \in Grants
  BY FirstGrantType, NoAnswerType DEF Init, Running, Returned
<1>2. attempt \in [Ops -> 0 .. MaxAttempts] /\ gen \in [Ops -> Nat] /\ AttemptBound
  BY BoundsAssumption DEF BoundsAssumption, Init, AttemptBound
<1>3. aborted \in [Ops -> BOOLEAN] /\ lost \in BOOLEAN /\ lapsed \in BOOLEAN /\ rotates \in BOOLEAN
  BY Zenon DEF Init
<1> QED BY <1>1, <1>2, <1>3 DEF Init, TypeInv, TypeOK

\* Steps keep the types.
LEMMA TypeStep == TypeInv /\ [Next]_vars => TypeInv'
<1> SUFFICES ASSUME TypeInv, [Next]_vars PROVE TypeInv'
  OBVIOUS
<1> USE OpsAssumption, BoundsAssumption
    DEF OpsAssumption, BoundsAssumption, TypeInv, TypeOK, AttemptBound, Running, Returned, Goto
<1>1. ASSUME NEW p \in Ops, bootstrapIfMissing(p) PROVE TypeInv'
  BY <1>1 DEF bootstrapIfMissing
<1>2. ASSUME NEW p \in Ops, bootstrapWrite(p) PROVE TypeInv'
  BY <1>2, FirstGrantType DEF bootstrapWrite
<1>3. ASSUME NEW p \in Ops, readKeychain(p) PROVE TypeInv'
  BY <1>3 DEF readKeychain, Throw
<1>4. ASSUME NEW p \in Ops, readJournal(p) PROVE TypeInv'
  <2>1. grant[p].gen \in Nat /\ journalGen \in Nat
    BY GrantGen
  <2> QED BY <1>4, <2>1 DEF readJournal
<1>5. ASSUME NEW p \in Ops, repair(p) PROVE TypeInv'
  BY <1>5, GrantGen DEF repair, casGrantGeneration
<1>6. ASSUME NEW p \in Ops, fastPath(p) PROVE TypeInv'
  BY <1>6 DEF fastPath, Return
<1>7. ASSUME NEW p \in Ops, acquireRefreshLease(p) PROVE TypeInv'
  <2>1. CASE Continue(p) /\ UNCHANGED lease
    BY <1>7, <2>1, ContinueType DEF acquireRefreshLease
  <2>2. CASE ~Continue(p) \/ lease' # lease
    BY <1>7, <2>2, NewLeaseType DEF acquireRefreshLease
  <2> QED BY <2>1, <2>2
<1>8. ASSUME NEW p \in Ops, waitForRefreshLease(p) PROVE TypeInv'
  BY <1>8, ContinueType DEF waitForRefreshLease, Throw
<1>9. ASSUME NEW p \in Ops, preflight(p) PROVE TypeInv'
  BY <1>9 DEF preflight, Throw, deleteLeaseIfHolder
<1>10. ASSUME NEW p \in Ops, providerAnswers(p) PROVE TypeInv'
  <2>1. CASE grant[p].tok = validTok
    <3>1. (IF rotates THEN validTok + 1 ELSE validTok) \in Nat
      OBVIOUS
    <3>2. PICK t \in Nat : validTok' = t /\ resp' = [resp EXCEPT ![p] = [kind |-> "ok", tok |-> t]]
      BY <1>10, <2>1, <3>1 DEF providerAnswers
    <3> QED BY <1>10, <3>2, AnswerType DEF providerAnswers
  <2>2. CASE grant[p].tok # validTok
    <3>1. [kind |-> "invalid", tok |-> 0] \in Answers
      BY AnswerType
    <3> QED BY <1>10, <2>2, <3>1 DEF providerAnswers
  <2> QED BY <2>1, <2>2
<1>11. ASSUME NEW p \in Ops, heartbeat(p) PROVE TypeInv'
  BY <1>11 DEF heartbeat, Leases
<1>12. ASSUME NEW p \in Ops, hardTimeout(p) PROVE TypeInv'
  BY <1>12 DEF hardTimeout
<1>13. ASSUME NEW p \in Ops, refreshed(p) PROVE TypeInv'
  BY <1>13 DEF refreshed
<1>14. ASSUME NEW p \in Ops, abortRefresh(p) PROVE TypeInv'
  BY <1>14, ContinueType, DropType DEF abortRefresh, deleteLeaseIfHolder
<1>15. ASSUME NEW p \in Ops, handleAuthRevoked(p) PROVE TypeInv'
  BY <1>15, ContinueType DEF handleAuthRevoked, Throw, deleteLeaseIfHolder
<1>16. ASSUME NEW p \in Ops, refreshError(p) PROVE TypeInv'
  BY <1>16, DropType DEF refreshError, Throw, deleteLeaseIfHolder
<1>17. ASSUME NEW p \in Ops, fenceCheck(p) PROVE TypeInv'
  BY <1>17, ContinueType, DropType DEF fenceCheck
<1>18. ASSUME NEW p \in Ops, fenceWrite(p) PROVE TypeInv'
  BY <1>18, NewGrantType, DropType DEF fenceWrite, Throw
<1>19. ASSUME NEW p \in Ops, fenceCommit(p) PROVE TypeInv'
  BY <1>19, NewGrantType DEF fenceCommit, Return, Throw, casGrantGeneration, deleteLeaseIfHolder
<1>20. ASSUME NEW p \in Ops, dbBusy(p) PROVE TypeInv'
  BY <1>20, DropType DEF dbBusy, Throw
<1>21. ASSUME NEW p \in Ops, crash(p) PROVE TypeInv'
  BY <1>21, DropType DEF crash
<1>22. CASE leaseLapses
  BY <1>22 DEF leaseLapses, Leases
<1>23. CASE grantExpires
  BY <1>23, GrantGen DEF grantExpires
<1>24. CASE providerRevokes
  BY <1>24 DEF providerRevokes
<1>25. CASE UNCHANGED vars
  BY <1>25
<1> QED
  BY <1>1, <1>2, <1>3, <1>4, <1>5, <1>6, <1>7, <1>8, <1>9, <1>10, <1>11, <1>12, <1>13, <1>14, <1>15, <1>16, <1>17, <1>18, <1>19, <1>20, <1>21, <1>22, <1>23, <1>24, <1>25 DEF Next, Step, Progress

\* Each call is at a known place, has turns of its loop left while it runs, and
\* every value has its type.
THEOREM TypeCorrect == Spec => []TypeOK
<1>1. TypeInv => TypeOK
  BY DEF TypeInv
<1> QED BY <1>1, TypeInit, TypeStep, PTL DEF Spec

-----------------------------------------------------------------------------
\* The fence, as an inductive invariant.

\* Who is inside the transaction of step 5, and what the fence lets it rely on.
FenceInv ==
    \A p \in Ops :
        /\ pc[p] # "boot"
        /\ pc[p] \in {"write", "commit"} => dbLock = p /\ journalGen = gen[p]
        /\ pc[p] = "write" => keychain.gen = gen[p]
        /\ pc[p] = "commit" => keychain = NewGrant(p)
        /\ pc[p] = "repair" => gen[p] < grant[p].gen

\* Nobody holds a grant from the item's future.
CopiesBehind == \A c \in Copies : c.gen <= keychain.gen

IndInv ==
    /\ TypeInv
    /\ GenerationOrder
    /\ FenceInv
    /\ CopiesBehind
    /\ GenerationIdentifiesGrant

\* The item, the calls' copies and the results are all grants.
LEMMA CopyType == ASSUME TypeOK PROVE \A c \in Copies : c \in Grants
  BY DEF TypeOK, Copies

\* Steps keep the fence: the journal and the item move only as step 5 and the
\* repair on read allow.
LEMMA FenceStep ==
  ASSUME ~BootstrapReadFaults, IndInv, [Next]_vars
  PROVE  GenerationOrder' /\ FenceInv'
<1> USE OpsAssumption, GrantGen
    DEF OpsAssumption, IndInv, TypeInv, TypeOK, GenerationOrder, FenceInv, CopiesBehind, Copies,
        Goto, NewGrant, FenceHolds, me
<1>1. ASSUME NEW p \in Ops, bootstrapIfMissing(p) PROVE GenerationOrder' /\ FenceInv'
  BY <1>1 DEF bootstrapIfMissing
<1>2. ASSUME NEW p \in Ops, readKeychain(p) PROVE GenerationOrder' /\ FenceInv'
  BY <1>2 DEF readKeychain, Throw
<1>3. ASSUME NEW p \in Ops, readJournal(p) PROVE GenerationOrder' /\ FenceInv'
  <2>1. grant[p].gen \in Nat /\ journalGen \in Nat
    OBVIOUS
  <2>2. /\ pc'[p] \in {"repair", "lease", "keychain_older"}
        /\ pc'[p] = "repair" => journalGen < grant[p].gen
    <3>1. CASE grant[p].gen > journalGen
      BY <1>3, <2>1, <3>1 DEF readJournal
    <3>2. CASE grant[p].gen = journalGen
      BY <1>3, <2>1, <3>2 DEF readJournal
    <3>3. CASE grant[p].gen < journalGen
      BY <1>3, <2>1, <3>3 DEF readJournal
    <3> QED BY ONLY <2>1, <3>1, <3>2, <3>3, Trichotomy
  <2> QED BY <1>3, <2>2 DEF readJournal
<1>4. ASSUME NEW p \in Ops, repair(p) PROVE GenerationOrder' /\ FenceInv'
  BY <1>4 DEF repair, casGrantGeneration
<1>5. ASSUME NEW p \in Ops, fastPath(p) PROVE GenerationOrder' /\ FenceInv'
  BY <1>5 DEF fastPath, Return
<1>6. ASSUME NEW p \in Ops, acquireRefreshLease(p) PROVE GenerationOrder' /\ FenceInv'
  BY <1>6 DEF acquireRefreshLease, Continue
<1>7. ASSUME NEW p \in Ops, waitForRefreshLease(p) PROVE GenerationOrder' /\ FenceInv'
  BY <1>7 DEF waitForRefreshLease, Continue, Throw
<1>8. ASSUME NEW p \in Ops, preflight(p) PROVE GenerationOrder' /\ FenceInv'
  BY <1>8 DEF preflight, Throw
<1>9. ASSUME NEW p \in Ops, providerAnswers(p) PROVE GenerationOrder' /\ FenceInv'
  BY <1>9 DEF providerAnswers
<1>10. ASSUME NEW p \in Ops, heartbeat(p) PROVE GenerationOrder' /\ FenceInv'
  BY <1>10 DEF heartbeat
<1>11. ASSUME NEW p \in Ops, hardTimeout(p) PROVE GenerationOrder' /\ FenceInv'
  BY <1>11 DEF hardTimeout
<1>12. ASSUME NEW p \in Ops, refreshed(p) PROVE GenerationOrder' /\ FenceInv'
  BY <1>12 DEF refreshed
<1>13. ASSUME NEW p \in Ops, abortRefresh(p) PROVE GenerationOrder' /\ FenceInv'
  BY <1>13 DEF abortRefresh, Continue
<1>14. ASSUME NEW p \in Ops, handleAuthRevoked(p) PROVE GenerationOrder' /\ FenceInv'
  BY <1>14 DEF handleAuthRevoked, Continue, Throw
<1>15. ASSUME NEW p \in Ops, refreshError(p) PROVE GenerationOrder' /\ FenceInv'
  BY <1>15 DEF refreshError, Throw
<1>16. ASSUME NEW p \in Ops, fenceCheck(p) PROVE GenerationOrder' /\ FenceInv'
  BY <1>16 DEF fenceCheck, Continue
<1>17. ASSUME NEW p \in Ops, fenceWrite(p) PROVE GenerationOrder' /\ FenceInv'
  BY <1>17 DEF fenceWrite, Throw
<1>18. ASSUME NEW p \in Ops, fenceCommit(p) PROVE GenerationOrder' /\ FenceInv'
  BY <1>18 DEF fenceCommit, Return, Throw, casGrantGeneration
<1>19. ASSUME NEW p \in Ops, dbBusy(p) PROVE GenerationOrder' /\ FenceInv'
  BY <1>19 DEF dbBusy, Throw
<1>20. ASSUME NEW p \in Ops, crash(p) PROVE GenerationOrder' /\ FenceInv'
  BY <1>20 DEF crash
<1>21. ASSUME NEW p \in Ops, bootstrapWrite(p) PROVE FALSE
  BY <1>21 DEF bootstrapWrite
<1>22. CASE leaseLapses
  BY <1>22 DEF leaseLapses
<1>23. CASE grantExpires
  BY <1>23 DEF grantExpires
<1>24. CASE providerRevokes
  BY <1>24 DEF providerRevokes
<1>25. CASE UNCHANGED vars
  BY <1>25
<1> QED
  BY <1>1, <1>2, <1>3, <1>4, <1>5, <1>6, <1>7, <1>8, <1>9, <1>10, <1>11, <1>12, <1>13, <1>14, <1>15, <1>16, <1>17, <1>18, <1>19, <1>20, <1>21, <1>22, <1>23, <1>24, <1>25 DEF Next, Step, Progress

\* How a step may change the copies: the item by its successor, a call's copy by
\* the item, a result by something that was a copy already.
CopiesFrom ==
    /\ keychain' = keychain \/ keychain'.gen = keychain.gen + 1
    /\ \A q \in Ops : /\ grant'[q] \in {grant[q], keychain}
                      /\ ret'[q] \in {ret[q], grant[q], keychain}

\* Every step of every call moves the copies of the grant in that way.
LEMMA CopiesFromStep ==
  ASSUME ~BootstrapReadFaults, IndInv, [Next]_vars
  PROVE  CopiesFrom
<1> USE DEF IndInv, TypeInv, TypeOK, FenceInv, CopiesFrom
<1>1. ASSUME NEW p \in Ops, readKeychain(p) \/ fastPath(p) PROVE CopiesFrom
  BY <1>1 DEF readKeychain, fastPath, Return, Throw
<1>2. ASSUME NEW p \in Ops, fenceWrite(p) PROVE CopiesFrom
  BY <1>2 DEF fenceWrite, Throw, NewGrant
<1>3. ASSUME NEW p \in Ops, fenceCommit(p) PROVE CopiesFrom
  BY <1>3 DEF fenceCommit, Return, Throw
<1>4. ASSUME NEW p \in Ops, bootstrapWrite(p) PROVE FALSE
  BY <1>4 DEF bootstrapWrite
<1>5. ASSUME UNCHANGED <<keychain, grant, ret>> PROVE CopiesFrom
  BY <1>5
<1>6. ASSUME NEW p \in Ops,
             Step(p),
             ~(readKeychain(p) \/ fastPath(p) \/ fenceWrite(p) \/ fenceCommit(p) \/ bootstrapWrite(p))
      PROVE  UNCHANGED <<keychain, grant, ret>>
  BY <1>6 DEF Step, Progress, bootstrapIfMissing, readJournal, repair, acquireRefreshLease,
     waitForRefreshLease, preflight, providerAnswers, heartbeat, hardTimeout, refreshed, abortRefresh,
     handleAuthRevoked, refreshError, fenceCheck, dbBusy, crash, Continue, Throw
<1>7. CASE leaseLapses \/ grantExpires \/ providerRevokes \/ UNCHANGED vars
  BY <1>5, <1>7 DEF leaseLapses, grantExpires, providerRevokes
<1> QED
  BY <1>1, <1>2, <1>3, <1>4, <1>5, <1>6, <1>7 DEF Next

\* Copies that come from copies keep naming one grant per generation.
LEMMA CopiesStep ==
  ASSUME IndInv, TypeInv', CopiesFrom
  PROVE  CopiesBehind' /\ GenerationIdentifiesGrant'
<1>1. \A c \in Copies' : c \in Copies \/ c = keychain'
  BY DEF Copies, CopiesFrom
<1>2. keychain \in Copies
  BY DEF Copies
<1>3. \A c \in Copies : c.gen \in Nat
  BY CopyType, GrantGen DEF IndInv, TypeInv
<1>4. keychain'.gen \in Nat
  BY GrantGen DEF TypeInv, TypeOK
<1>5. \A c \in Copies : c.gen <= keychain.gen
  BY DEF IndInv, CopiesBehind
<1>6. \A c, d \in Copies : c.gen = d.gen => c = d
  BY DEF IndInv, GenerationIdentifiesGrant
<1>7. keychain' = keychain \/ keychain'.gen = keychain.gen + 1
  BY DEF CopiesFrom
<1>8. CopiesBehind'
  BY <1>1, <1>2, <1>3, <1>4, <1>5, <1>7 DEF CopiesBehind
<1>9. ASSUME NEW c \in Copies', NEW d \in Copies', c.gen = d.gen PROVE c = d
  BY <1>1, <1>2, <1>3, <1>4, <1>5, <1>6, <1>7, <1>9
<1> QED BY <1>8, <1>9 DEF GenerationIdentifiesGrant

\* A freshly migrated account satisfies the invariant.
LEMMA IndInvInit == Init => IndInv
<1> SUFFICES ASSUME Init PROVE IndInv
  OBVIOUS
<1>1. TypeInv
  BY TypeInit
<1>2. GenerationOrder /\ FenceInv
  BY DEF Init, GenerationOrder, FenceInv, FirstGrant
<1>3. \A c \in Copies : c = FirstGrant
  BY DEF Init, Copies
<1>4. CopiesBehind /\ GenerationIdentifiesGrant
  BY <1>3 DEF Init, CopiesBehind, GenerationIdentifiesGrant, FirstGrant
<1> QED BY <1>1, <1>2, <1>4 DEF IndInv

\* Steps of refreshIfNeeded, of the timers and of the environment preserve it.
LEMMA IndInvStep ==
  ASSUME ~BootstrapReadFaults
  PROVE  IndInv /\ [Next]_vars => IndInv'
<1> SUFFICES ASSUME IndInv, [Next]_vars PROVE IndInv'
  OBVIOUS
<1>1. TypeInv'
  BY TypeStep DEF IndInv
<1>2. GenerationOrder' /\ FenceInv'
  BY FenceStep
<1>3. CopiesBehind' /\ GenerationIdentifiesGrant'
  BY <1>1, CopiesFromStep, CopiesStep
<1> QED BY <1>1, <1>2, <1>3 DEF IndInv

\* The Keychain item is at the journal's generation or one ahead of it, whatever
\* crashes, failed writes and failed commits happen in step 5.
THEOREM GenerationOrderHolds ==
  ASSUME ~BootstrapReadFaults
  PROVE  Spec => []GenerationOrder
<1>1. IndInv => GenerationOrder
  BY DEF IndInv
<1> QED BY <1>1, IndInvInit, IndInvStep, PTL DEF Spec

\* A generation names one grant, in the item, in every call's copy and in every
\* result handed to a caller.
THEOREM GenerationIdentifiesGrantHolds ==
  ASSUME ~BootstrapReadFaults
  PROVE  Spec => []GenerationIdentifiesGrant
<1>1. IndInv => GenerationIdentifiesGrant
  BY DEF IndInv
<1> QED BY <1>1, IndInvInit, IndInvStep, PTL DEF Spec

\* How a step may move the two generations: step 5 publishes the successor of a
\* committed grant, the commit and the repair settle the journal on the item.
GenerationMove ==
    \/ UNCHANGED <<keychain, journalGen>>
    \/ /\ keychain' \in Grants
       /\ journalGen = keychain.gen
       /\ keychain'.gen = keychain.gen + 1
       /\ UNCHANGED journalGen
    \/ UNCHANGED keychain /\ journalGen' = keychain.gen

\* Only step 5 and the repair on read move a generation, and only that way.
LEMMA GenerationMoveStep ==
  ASSUME ~BootstrapReadFaults, IndInv, [Next]_vars
  PROVE  GenerationMove
<1> USE DEF GenerationMove
<1>1. ASSUME NEW p \in Ops, fenceWrite(p) PROVE GenerationMove
  BY <1>1, NewGrantType DEF fenceWrite, NewGrant, IndInv, TypeInv, FenceInv
<1>2. ASSUME NEW p \in Ops, fenceCommit(p) PROVE GenerationMove
  BY <1>2 DEF fenceCommit, casGrantGeneration, NewGrant, IndInv, FenceInv
<1>3. ASSUME NEW p \in Ops, repair(p) PROVE GenerationMove
  <2>1. grant[p].gen <= keychain.gen
    BY DEF IndInv, CopiesBehind, Copies
  <2>2. /\ journalGen \in Nat /\ gen[p] \in Nat /\ grant[p].gen \in Nat /\ keychain.gen \in Nat
        /\ keychain.gen <= journalGen + 1
    BY GrantGen DEF IndInv, TypeInv, TypeOK, GenerationOrder
  <2>3. gen[p] < grant[p].gen
    BY <1>3 DEF repair, IndInv, FenceInv
  <2> QED BY <1>3, <2>1, <2>2, <2>3 DEF repair, casGrantGeneration
<1>4. ASSUME NEW p \in Ops, bootstrapWrite(p) PROVE FALSE
  BY <1>4 DEF bootstrapWrite, IndInv, FenceInv
<1>5. ASSUME NEW p \in Ops,
             Step(p),
             ~(fenceWrite(p) \/ fenceCommit(p) \/ repair(p) \/ bootstrapWrite(p))
      PROVE  UNCHANGED <<keychain, journalGen>>
  BY <1>5 DEF Step, Progress, bootstrapIfMissing, readKeychain, readJournal, fastPath, acquireRefreshLease,
     waitForRefreshLease, preflight, providerAnswers, heartbeat, hardTimeout, refreshed, abortRefresh,
     handleAuthRevoked, refreshError, fenceCheck, dbBusy, crash
<1>6. CASE leaseLapses \/ grantExpires \/ providerRevokes \/ UNCHANGED vars
  BY <1>6 DEF leaseLapses, grantExpires, providerRevokes
<1> QED
  BY <1>1, <1>2, <1>3, <1>4, <1>5, <1>6 DEF Next

\* No step takes a generation back or skips one.
THEOREM GenerationsOnlyGrowHolds ==
  ASSUME ~BootstrapReadFaults
  PROVE  Spec => GenerationsOnlyGrow
<1>1. IndInv /\ [Next]_vars
      => [/\ journalGen' >= journalGen
          /\ keychain' # keychain => keychain'.gen = keychain.gen + 1]_vars
  <2> SUFFICES ASSUME IndInv, [Next]_vars
               PROVE  /\ journalGen' >= journalGen
                      /\ keychain' # keychain => keychain'.gen = keychain.gen + 1
    OBVIOUS
  <2>1. journalGen \in Nat /\ keychain.gen \in Nat /\ journalGen <= keychain.gen
    BY GrantGen DEF IndInv, TypeInv, TypeOK, GenerationOrder
  <2> QED BY <2>1, GenerationMoveStep DEF GenerationMove
<1> QED BY <1>1, IndInvInit, IndInvStep, PTL DEF Spec, GenerationsOnlyGrow

\* The refresh implements the abstract grant cell, for every value of the
\* constants: the safety half of what the run checks on three calls.
THEOREM RefinesGrantCellHolds ==
  ASSUME ~BootstrapReadFaults
  PROVE  Spec => RefinesGrantCell
<1>1. Init => Cell!Init
  BY FirstGrantType DEF Init, Cell!Init, FirstGrant
<1>2. IndInv /\ [Next]_vars => [Cell!Next]_<<keychain, journalGen>>
  BY GenerationMoveStep DEF GenerationMove, Cell!Next, Cell!Publish, Cell!Settle
<1> QED BY <1>1, <1>2, IndInvInit, IndInvStep, PTL DEF Spec, RefinesGrantCell, Cell!Spec

-----------------------------------------------------------------------------
(* What the fence, the rotation and the lease do for the refresh token.    *)

\* The calls that hold a lease of their own, and those whose answer is not yet written.
Section == {"preflight", "http", "fence", "write", "commit"}
Pending(p) == pc[p] \in {"http", "fence", "write"} /\ resp[p].kind = "ok"

\* The places before the POST.
BeforePost == {"start", "boot", "read", "journal", "repair", "lease", "wait", "preflight"}

\* A call has an answer from its POST on, works on the grant of its generation and
\* never on one from the journal's future.
AnswerInv ==
    \A p \in Ops :
        /\ pc[p] \in BeforePost => resp[p] = NoAnswer
        /\ pc[p] \in {"fence", "write", "commit"} => resp[p].kind = "ok"
        /\ pc[p] \in Section \cup {"lease", "wait"} => gen[p] = grant[p].gen
        /\ pc[p] \in Section => gen[p] <= journalGen

\* With rotating tokens: older grants carry older tokens, and the one call whose
\* answer is newer than the item will find the fence open.
RotatedInv ==
    /\ \A p \in Ops :
         /\ grant[p].tok <= keychain.tok
         /\ grant[p].gen < keychain.gen => grant[p].tok < keychain.tok
         /\ Pending(p) => resp[p].tok = validTok /\ keychain.tok < validTok /\ FenceHolds(p)
    /\ \A p, q \in Ops : Pending(p) /\ Pending(q) => p = q
    /\ keychain.tok = validTok \/ \E p \in Ops : Pending(p)

\* With a fixed token there is only that one.
FixedInv ==
    /\ keychain.tok = validTok
    /\ \A p \in Ops : grant[p].tok = validTok /\ (Pending(p) => resp[p].tok = validTok)

TokenInv == ~lost => (rotates => RotatedInv) /\ (~rotates => FixedInv)

LiveInv == IndInv /\ AnswerInv /\ TokenInv

\* The tokens of grants and answers are numbers.
LEMMA TokType ==
  ASSUME TypeOK
  PROVE  /\ keychain.tok \in Nat /\ keychain.gen \in Nat
         /\ \A p \in Ops : grant[p].tok \in Nat /\ grant[p].gen \in Nat /\ resp[p].tok \in Nat
  BY DEF TypeOK, Grants, Answers

\* No call has posted yet.
LEMMA LiveInit == Init => LiveInv
<1> SUFFICES ASSUME Init PROVE LiveInv
  OBVIOUS
<1>1. AnswerInv
  BY DEF Init, AnswerInv, Section
<1>2. TokenInv
  BY DEF Init, TokenInv, RotatedInv, FixedInv, Pending, FirstGrant
<1> QED BY <1>1, <1>2, IndInvInit DEF LiveInv

\* Steps keep the answers in order.
LEMMA AnswerStep ==
  ASSUME ~BootstrapReadFaults, IndInv, AnswerInv, [Next]_vars
  PROVE  AnswerInv'
<1> USE DEF AnswerInv, Section, BeforePost, Goto
<1>t. /\ pc \in [Ops -> Running \cup Returned] /\ resp \in [Ops -> Answers]
      /\ gen \in [Ops -> Nat] /\ grant \in [Ops -> Grants] /\ journalGen \in Nat
      /\ \A p \in Ops : grant[p].gen \in Nat
  BY GrantGen DEF IndInv, TypeInv, TypeOK
<1> USE <1>t
<1>1. ASSUME NEW p \in Ops, bootstrapIfMissing(p) PROVE AnswerInv'
  BY <1>1 DEF bootstrapIfMissing
<1>2. ASSUME NEW p \in Ops, readKeychain(p) PROVE AnswerInv'
  BY <1>2 DEF readKeychain, Throw
<1>3. ASSUME NEW p \in Ops, readJournal(p) PROVE AnswerInv'
  <2>1. grant[p].gen \in Nat /\ journalGen \in Nat
    BY <1>t
  <2>2. /\ pc'[p] \in {"repair", "lease", "keychain_older"}
        /\ pc'[p] = "lease" => grant[p].gen = journalGen
    <3>1. CASE grant[p].gen > journalGen
      BY <1>3, <2>1, <3>1 DEF readJournal
    <3>2. CASE grant[p].gen = journalGen
      BY <1>3, <2>1, <3>2 DEF readJournal
    <3>3. CASE grant[p].gen < journalGen
      BY <1>3, <2>1, <3>3 DEF readJournal
    <3> QED BY ONLY <2>1, <3>1, <3>2, <3>3, Trichotomy
  <2> QED BY <1>3, <2>2 DEF readJournal
<1>4. ASSUME NEW p \in Ops, repair(p) PROVE AnswerInv'
  BY <1>4 DEF repair, casGrantGeneration, IndInv, FenceInv
<1>5. ASSUME NEW p \in Ops, fastPath(p) PROVE AnswerInv'
  BY <1>5 DEF fastPath, Return
<1>6. ASSUME NEW p \in Ops, acquireRefreshLease(p) PROVE AnswerInv'
  BY <1>6 DEF acquireRefreshLease, Continue
<1>7. ASSUME NEW p \in Ops, waitForRefreshLease(p) PROVE AnswerInv'
  BY <1>7 DEF waitForRefreshLease, Continue, Throw
<1>8. ASSUME NEW p \in Ops, preflight(p) PROVE AnswerInv'
  BY <1>8 DEF preflight, Throw
<1>9. ASSUME NEW p \in Ops, providerAnswers(p) PROVE AnswerInv'
  BY <1>9 DEF providerAnswers
<1>10. ASSUME NEW p \in Ops, heartbeat(p) PROVE AnswerInv'
  BY <1>10 DEF heartbeat
<1>11. ASSUME NEW p \in Ops, hardTimeout(p) PROVE AnswerInv'
  BY <1>11 DEF hardTimeout
<1>12. ASSUME NEW p \in Ops, refreshed(p) PROVE AnswerInv'
  BY <1>12 DEF refreshed
<1>13. ASSUME NEW p \in Ops, abortRefresh(p) PROVE AnswerInv'
  BY <1>13 DEF abortRefresh, Continue
<1>14. ASSUME NEW p \in Ops, handleAuthRevoked(p) PROVE AnswerInv'
  BY <1>14 DEF handleAuthRevoked, Continue, Throw
<1>15. ASSUME NEW p \in Ops, refreshError(p) PROVE AnswerInv'
  BY <1>15 DEF refreshError, Throw
<1>16. ASSUME NEW p \in Ops, fenceCheck(p) PROVE AnswerInv'
  BY <1>16 DEF fenceCheck, Continue
<1>17. ASSUME NEW p \in Ops, fenceWrite(p) PROVE AnswerInv'
  BY <1>17 DEF fenceWrite, Throw
<1>18. ASSUME NEW p \in Ops, fenceCommit(p) PROVE AnswerInv'
  BY <1>18 DEF fenceCommit, Return, Throw, casGrantGeneration
<1>19. ASSUME NEW p \in Ops, dbBusy(p) PROVE AnswerInv'
  BY <1>19 DEF dbBusy, Throw
<1>20. ASSUME NEW p \in Ops, crash(p) PROVE AnswerInv'
  BY <1>20 DEF crash
<1>21. ASSUME NEW p \in Ops, bootstrapWrite(p) PROVE FALSE
  BY <1>21 DEF bootstrapWrite, IndInv, FenceInv
<1>22. CASE leaseLapses \/ grantExpires \/ providerRevokes \/ UNCHANGED vars
  BY <1>22 DEF leaseLapses, grantExpires, providerRevokes
<1> QED
  BY <1>1, <1>2, <1>3, <1>4, <1>5, <1>6, <1>7, <1>8, <1>9, <1>10, <1>11, <1>12, <1>13, <1>14, <1>15, <1>16, <1>17, <1>18, <1>19, <1>20, <1>21, <1>22 DEF Next, Step, Progress

-----------------------------------------------------------------------------
\* A step of p that neither publishes a grant nor is answered by the provider.
Frame(p) ==
    /\ UNCHANGED <<keychain, validTok, rotates>>
    /\ journalGen' \in {journalGen, keychain.gen}
    /\ grant'[p] \in {grant[p], keychain}
    /\ Pending(p)' => Pending(p) /\ resp'[p] = resp[p] /\ gen'[p] = gen[p]
    /\ \A q \in Ops \ {p} : /\ pc'[q] = pc[q] /\ resp'[q] = resp[q]
                            /\ gen'[q] = gen[q] /\ grant'[q] = grant[q]

\* Such a step keeps the tokens accounted for unless it drops the pending answer.
LEMMA FrameStep ==
  ASSUME TypeOK, TokenInv, ~lost, NEW p \in Ops, Frame(p),
         keychain.tok = validTok \/ ~Pending(p) \/ Pending(p)'
  PROVE  TokenInv'
<1>1. \A q \in Ops : Pending(q)' => Pending(q) /\ resp'[q] = resp[q] /\ gen'[q] = gen[q]
  BY DEF Frame, Pending
<1>2. \A q \in Ops : grant'[q] \in {grant[q], keychain}
  BY DEF Frame
<1>3. keychain.tok \in Nat /\ keychain.gen \in Nat
  BY TokType
<1>4. CASE rotates
  <2>1. RotatedInv
    BY <1>4 DEF TokenInv
  <2>2. \A q \in Ops : /\ grant'[q].tok <= keychain.tok
                       /\ grant'[q].gen < keychain.gen => grant'[q].tok < keychain.tok
    BY <1>2, <1>3, <2>1 DEF RotatedInv
  <2>3. \A q \in Ops : Pending(q)' => resp'[q].tok = validTok /\ keychain.tok < validTok /\ FenceHolds(q)'
    BY <1>1, <2>1 DEF RotatedInv, FenceHolds, Frame
  <2>4. \A q, r \in Ops : Pending(q)' /\ Pending(r)' => q = r
    BY <1>1, <2>1 DEF RotatedInv
  <2>5. keychain.tok = validTok \/ \E q \in Ops : Pending(q)'
    BY <2>1 DEF RotatedInv, Frame, Pending
  <2> QED BY <1>4, <2>2, <2>3, <2>4, <2>5 DEF TokenInv, RotatedInv, Frame
<1>5. CASE ~rotates
  BY <1>1, <1>2, <1>5 DEF TokenInv, FixedInv, Frame
<1> QED BY <1>4, <1>5

\* An answer that is dropped without being noted as lost was not needed.
LEMMA DropKept ==
  ASSUME TokenInv, NEW p \in Ops, Drop(p), ~lost'
  PROVE  ~lost /\ (keychain.tok = validTok \/ ~Pending(p))
<1>1. ~lost /\ ~(HoldsLiveToken(p) /\ validTok # keychain.tok)
  BY DEF Drop
<1>2. CASE rotates
  BY <1>1, <1>2 DEF TokenInv, RotatedInv, HoldsLiveToken, Pending
<1>3. CASE ~rotates
  BY <1>1, <1>3 DEF TokenInv, FixedInv
<1> QED BY <1>1, <1>2, <1>3

\* The provider rotates the token for the grant that is in the item, when no other
\* answer is pending.
LEMMA AnsweredStep ==
  ASSUME IndInv, AnswerInv, TokenInv, ~lost, NEW p \in Ops, providerAnswers(p)
  PROVE  TokenInv'
<1> USE DEF IndInv, TypeInv
<1>1. /\ pc[p] = "http" /\ resp[p] = NoAnswer /\ ~Pending(p)
      /\ UNCHANGED <<keychain, journalGen, pc, grant, gen, rotates>>
  BY DEF providerAnswers, Pending, NoAnswer
<1>2. /\ validTok \in Nat /\ keychain.tok \in Nat /\ keychain.gen \in Nat /\ journalGen \in Nat
      /\ \A q \in Ops : grant[q].tok \in Nat /\ grant[q].gen \in Nat /\ gen[q] \in Nat
  BY TokType DEF TypeOK
<1>3. resp \in [Ops -> Answers]
  BY DEF TypeOK
<1>4. CASE grant[p].tok # validTok
  <2>1. UNCHANGED validTok /\ resp' = [resp EXCEPT ![p] = [kind |-> "invalid", tok |-> 0]]
    BY <1>4 DEF providerAnswers
  <2>2. Frame(p) /\ ~Pending(p)'
    BY <1>1, <1>3, <2>1 DEF Frame, Pending
  <2> QED BY <1>1, <2>2, FrameStep
<1>5. CASE grant[p].tok = validTok /\ ~rotates
  <2>1. UNCHANGED validTok /\ resp' = [resp EXCEPT ![p] = [kind |-> "ok", tok |-> validTok]]
    BY <1>5 DEF providerAnswers
  <2> QED BY <1>1, <1>3, <1>5, <2>1 DEF TokenInv, FixedInv, Pending
<1>6. CASE grant[p].tok = validTok /\ rotates
  <2>1. validTok' = validTok + 1 /\ resp' = [resp EXCEPT ![p] = [kind |-> "ok", tok |-> validTok + 1]]
    BY <1>6 DEF providerAnswers
  <2>2. RotatedInv
    BY <1>6 DEF TokenInv
  <2>3. \A q \in Ops : ~Pending(q)
    BY <1>2, <1>6, <2>2 DEF RotatedInv
  <2>4. keychain.tok = validTok
    BY <2>2, <2>3 DEF RotatedInv
  <2>5. FenceHolds(p)
    <3>1. ~(grant[p].gen < keychain.gen)
      BY <1>2, <1>6, <2>2, <2>4 DEF RotatedInv
    <3>2. grant[p].gen <= keychain.gen
      BY DEF CopiesBehind, Copies
    <3>3. gen[p] = grant[p].gen /\ gen[p] <= journalGen
      BY <1>1 DEF AnswerInv, Section
    <3>4. journalGen <= keychain.gen
      BY DEF GenerationOrder
    <3> QED BY <1>2, <3>1, <3>2, <3>3, <3>4 DEF FenceHolds
  <2>6. \A q \in Ops : Pending(q)' => q = p
    BY <1>1, <1>3, <2>1, <2>3 DEF Pending
  <2>7. Pending(p)' /\ resp'[p].tok = validTok' /\ keychain.tok < validTok'
    BY <1>1, <1>2, <1>3, <2>1, <2>4 DEF Pending
  <2>8. RotatedInv'
    BY <1>1, <2>2, <2>5, <2>6, <2>7 DEF RotatedInv, FenceHolds
  <2> QED BY <1>1, <1>6, <2>8 DEF TokenInv
<1> QED BY <1>4, <1>5, <1>6

\* Step 5 puts the pending answer into the item.
LEMMA PublishedStep ==
  ASSUME IndInv, AnswerInv, TokenInv, ~lost, NEW p \in Ops, pc[p] = "write",
         keychain' = NewGrant(p),
         pc' \in {[pc EXCEPT ![p] = "commit"], [pc EXCEPT ![p] = "failed"]},
         UNCHANGED <<journalGen, grant, gen, resp, rotates, validTok>>
  PROVE  TokenInv'
<1>1. Pending(p)
  BY DEF AnswerInv, Pending
<1>2. pc \in [Ops -> Running \cup Returned]
  BY DEF IndInv, TypeInv, TypeOK
<1>3. \A q \in Ops : Pending(q)' => q # p /\ Pending(q)
  BY <1>2 DEF Pending
<1>4. /\ validTok \in Nat /\ keychain.tok \in Nat /\ keychain.gen \in Nat
      /\ \A q \in Ops : grant[q].tok \in Nat /\ grant[q].gen \in Nat
  BY TokType DEF IndInv, TypeInv, TypeOK
<1>5. keychain'.tok = resp[p].tok
  BY DEF NewGrant
<1>6. CASE rotates
  <2>1. RotatedInv
    BY <1>6 DEF TokenInv
  <2>2. keychain'.tok = validTok /\ keychain.tok < validTok
    BY <1>1, <1>5, <2>1 DEF RotatedInv
  <2>3. \A q \in Ops : ~Pending(q)'
    BY <1>1, <1>3, <2>1 DEF RotatedInv
  <2>4. \A q \in Ops : grant[q].tok < keychain'.tok
    BY <1>4, <2>1, <2>2 DEF RotatedInv
  <2>5. \A q \in Ops : grant[q].tok <= keychain'.tok
    BY <1>4, <2>2, <2>4
  <2> QED BY <1>6, <2>2, <2>3, <2>4, <2>5 DEF TokenInv, RotatedInv
<1>7. CASE ~rotates
  BY <1>1, <1>3, <1>5, <1>7 DEF TokenInv, FixedInv
<1> QED BY <1>6, <1>7

\* Every step keeps the refresh token accounted for.
LEMMA TokenStep ==
  ASSUME ~BootstrapReadFaults, LiveInv, [Next]_vars
  PROVE  TokenInv'
<1> SUFFICES ASSUME ~lost' PROVE TokenInv'
  BY DEF TokenInv
<1> USE DEF LiveInv
<1>t. /\ TypeOK /\ IndInv /\ AnswerInv /\ TokenInv
      /\ pc \in [Ops -> Running \cup Returned] /\ resp \in [Ops -> Answers]
      /\ gen \in [Ops -> Nat] /\ grant \in [Ops -> Grants]
  BY DEF IndInv, TypeInv, TypeOK
<1> USE <1>t DEF Frame, Pending, Goto
<1>1. ASSUME NEW p \in Ops, bootstrapIfMissing(p) PROVE TokenInv'
  BY <1>1, FrameStep DEF bootstrapIfMissing
<1>2. ASSUME NEW p \in Ops, readKeychain(p) PROVE TokenInv'
  BY <1>2, FrameStep DEF readKeychain, Throw
<1>3. ASSUME NEW p \in Ops, readJournal(p) PROVE TokenInv'
  <2>1. pc'[p] \in {"repair", "lease", "keychain_older"}
    <3>1. grant[p].gen \in Nat /\ journalGen \in Nat
      BY GrantGen DEF TypeOK
    <3>2. CASE grant[p].gen > journalGen
      BY <1>3, <3>2 DEF readJournal
    <3>3. CASE grant[p].gen = journalGen
      BY <1>3, <3>1, <3>3 DEF readJournal
    <3>4. CASE grant[p].gen < journalGen
      BY <1>3, <3>1, <3>4 DEF readJournal
    <3>5. \A m, n \in Nat : m > n \/ m = n \/ m < n
      OBVIOUS
    <3> QED BY ONLY <3>1, <3>2, <3>3, <3>4, <3>5
  <2> QED BY <1>3, <2>1, FrameStep DEF readJournal
<1>4. ASSUME NEW p \in Ops, repair(p) PROVE TokenInv'
  <2>1. journalGen' \in {journalGen, keychain.gen}
    BY <1>4, GenerationMoveStep DEF GenerationMove, repair
  <2> QED BY <1>4, <2>1, FrameStep DEF repair
<1>5. ASSUME NEW p \in Ops, fastPath(p) PROVE TokenInv'
  BY <1>5, FrameStep DEF fastPath, Return
<1>6. ASSUME NEW p \in Ops, acquireRefreshLease(p) PROVE TokenInv'
  BY <1>6, FrameStep DEF acquireRefreshLease, Continue
<1>7. ASSUME NEW p \in Ops, waitForRefreshLease(p) PROVE TokenInv'
  BY <1>7, FrameStep DEF waitForRefreshLease, Continue, Throw
<1>8. ASSUME NEW p \in Ops, preflight(p) PROVE TokenInv'
  <2>1. resp[p].kind # "ok"
    BY <1>8 DEF preflight, AnswerInv, BeforePost, NoAnswer
  <2> QED BY <1>8, <2>1, FrameStep DEF preflight, Throw
<1>9. ASSUME NEW p \in Ops, providerAnswers(p) PROVE TokenInv'
  BY <1>9, AnsweredStep DEF providerAnswers
<1>10. ASSUME NEW p \in Ops, heartbeat(p) \/ hardTimeout(p) \/ refreshed(p) PROVE TokenInv'
  BY <1>10, FrameStep DEF heartbeat, hardTimeout, refreshed
<1>11. ASSUME NEW p \in Ops, abortRefresh(p) PROVE TokenInv'
  BY <1>11, DropKept, FrameStep DEF abortRefresh, Continue
<1>12. ASSUME NEW p \in Ops, handleAuthRevoked(p) PROVE TokenInv'
  BY <1>12, FrameStep DEF handleAuthRevoked, Continue, Throw
<1>13. ASSUME NEW p \in Ops, refreshError(p) PROVE TokenInv'
  BY <1>13, DropKept, FrameStep DEF refreshError, Throw
<1>14. ASSUME NEW p \in Ops, fenceCheck(p) PROVE TokenInv'
  <2>1. CASE FenceHolds(p) /\ Goto(p, "write") /\ UNCHANGED <<lost, attempt, grant, gen, resp, aborted, ret>>
    BY <1>14, <2>1, FrameStep DEF fenceCheck
  <2>2. CASE ~FenceHolds(p) /\ Continue(p) /\ UNCHANGED lost
    <3>1. keychain.tok = validTok
      BY <1>14, <2>2 DEF fenceCheck, AnswerInv, TokenInv, RotatedInv, FixedInv
    <3> QED BY <1>14, <2>2, <3>1, FrameStep DEF fenceCheck, Continue
  <2>3. CASE Drop(p) /\ Continue(p)
    BY <1>14, <2>3, DropKept, FrameStep DEF fenceCheck, Continue
  <2> QED BY <1>14, <2>1, <2>2, <2>3 DEF fenceCheck
<1>15. ASSUME NEW p \in Ops, fenceWrite(p) PROVE TokenInv'
  <2>1. CASE Drop(p) /\ Throw(p) /\ UNCHANGED keychain
    BY <1>15, <2>1, DropKept, FrameStep DEF fenceWrite, Throw
  <2>2. CASE keychain' = NewGrant(p) /\ UNCHANGED lost
    BY <1>15, <2>2, PublishedStep DEF fenceWrite, Throw
  <2> QED BY <1>15, <2>1, <2>2 DEF fenceWrite
<1>16. ASSUME NEW p \in Ops, fenceCommit(p) PROVE TokenInv'
  <2>1. journalGen' \in {journalGen, keychain.gen}
    BY <1>16, GenerationMoveStep DEF GenerationMove, fenceCommit
  <2> QED BY <1>16, <2>1, FrameStep DEF fenceCommit, Return, Throw
<1>17. ASSUME NEW p \in Ops, dbBusy(p) PROVE TokenInv'
  BY <1>17, DropKept, FrameStep DEF dbBusy, Throw
<1>18. ASSUME NEW p \in Ops, crash(p) PROVE TokenInv'
  BY <1>18, DropKept, FrameStep DEF crash
<1>19. ASSUME NEW p \in Ops, bootstrapWrite(p) PROVE FALSE
  BY <1>19 DEF bootstrapWrite, IndInv, FenceInv
<1>20. CASE providerRevokes
  BY <1>20 DEF providerRevokes
<1>21. CASE leaseLapses \/ grantExpires \/ UNCHANGED vars
  BY <1>21 DEF leaseLapses, grantExpires, TokenInv, RotatedInv, FixedInv, FenceHolds
<1> QED
  BY <1>1, <1>2, <1>3, <1>4, <1>5, <1>6, <1>7, <1>8, <1>9, <1>10, <1>11, <1>12, <1>13, <1>14, <1>15, <1>16, <1>17, <1>18, <1>19, <1>20, <1>21 DEF Next, Step, Progress

\* Together: an inductive invariant.
LEMMA LiveStep ==
  ASSUME ~BootstrapReadFaults
  PROVE  LiveInv /\ [Next]_vars => LiveInv'
  BY IndInvStep, AnswerStep, TokenStep DEF LiveInv

\* The one refresh token the provider accepts is in the item or with a call that may
\* still write it, unless the grant was withdrawn or the holder of the answer died,
\* was aborted or failed: the fences of step 5 throw away nothing that is needed.
THEOREM TokenAccountedHolds ==
  ASSUME ~BootstrapReadFaults
  PROVE  Spec => []TokenAccounted
<1>1. LiveInv => TokenAccounted
  <2> SUFFICES ASSUME LiveInv, ~lost PROVE validTok = keychain.tok \/ \E p \in Ops : HoldsLiveToken(p)
    BY DEF TokenAccounted
  <2>1. CASE rotates
    BY <2>1 DEF LiveInv, TokenInv, RotatedInv, Pending, HoldsLiveToken
  <2>2. CASE ~rotates
    BY <2>2 DEF LiveInv, TokenInv, FixedInv
  <2> QED BY <2>1, <2>2
<1> QED BY <1>1, LiveInit, LiveStep, PTL DEF Spec

-----------------------------------------------------------------------------
\* What the lease adds while it is renewed in time.

\* A call's earlier leases carry a lower attempt number.
Early == {"start", "boot", "read", "journal", "repair", "lease", "wait"}

HolderInv ==
    lease # None =>
        \A p \in Ops :
            lease.holder[1] = p => /\ lease.holder[2] <= attempt[p]
                                   /\ pc[p] \in Early => lease.holder[2] < attempt[p]

\* No lease has lapsed: a call from its lease to its commit owns the row, finds the
\* fence open until it has written, and an interrupted write leaves its lease behind.
LeaseInv ==
    ~lapsed =>
        /\ lease # None => lease.live
        /\ keychain.gen = journalGen \/ lease # None
        /\ \A p \in Ops :
             /\ pc[p] \in Section => lease # None /\ lease.holder = me(p)
             /\ pc[p] \in Section \ {"commit"} => FenceHolds(p)

\* No token was lost and no lease has lapsed: the provider refuses nobody.
RevokedInv ==
    ~lost /\ ~lapsed =>
        status = "active" /\ \A p \in Ops : pc[p] = "http" => resp[p].kind # "invalid"

LeasedInv == LiveInv /\ HolderInv /\ LeaseInv /\ RevokedInv

\* There is no lease yet.
LEMMA LeasedInit == Init => LeasedInv
<1> SUFFICES ASSUME Init PROVE LeasedInv
  OBVIOUS
<1> QED BY LiveInit DEF Init, LeasedInv, HolderInv, LeaseInv, RevokedInv, Section, FirstGrant

\* The parts of a lease.
LEMMA LeaseParts ==
  ASSUME TypeOK
  PROVE  /\ lease # None => lease.holder[1] \in Ops /\ lease.holder[2] \in Nat
         /\ \A p \in Ops : attempt[p] \in Nat /\ [holder |-> me(p), live |-> TRUE] # None
<1>1. \A p \in Ops : attempt[p] \in Nat /\ [holder |-> me(p), live |-> TRUE] \in Leases
  BY BoundsAssumption DEF TypeOK, Leases, me, BoundsAssumption
<1>2. lease # None => lease.holder[1] \in Ops /\ lease.holder[2] \in Nat
  BY BoundsAssumption DEF TypeOK, Leases, BoundsAssumption
<1> QED BY <1>1, <1>2, OpsAssumption DEF OpsAssumption

\* A call never meets a lease of its own from a later attempt.
LEMMA HolderStep ==
  ASSUME TypeInv, HolderInv, [Next]_vars
  PROVE  HolderInv'
<1>t. /\ pc \in [Ops -> Running \cup Returned] /\ attempt \in [Ops -> 0 .. MaxAttempts]
      /\ \A p \in Ops : attempt[p] \in Nat
      /\ lease # None => lease.holder[2] \in Nat
  BY LeaseParts DEF TypeInv, TypeOK
<1>1. ASSUME NEW p \in Ops,
             lease' = lease \/ lease' = None \/ (lease' # None /\ lease # None /\ lease'.holder = lease.holder),
             \/ attempt' = attempt /\ (pc'[p] \in Early => pc[p] \in Early)
             \/ attempt' = [attempt EXCEPT ![p] = @ + 1],
             \A q \in Ops \ {p} : pc'[q] = pc[q]
      PROVE  HolderInv'
  BY <1>t, <1>1 DEF HolderInv
<1> USE <1>t DEF Goto, Early
<1>2. ASSUME NEW p \in Ops, acquireRefreshLease(p) PROVE HolderInv'
  <2>1. CASE lease' = [holder |-> me(p), live |-> TRUE] /\ Goto(p, "preflight") /\ UNCHANGED attempt
    BY <1>t, <2>1 DEF HolderInv, me
  <2>2. CASE UNCHANGED lease
    BY <1>1, <1>2, <2>2 DEF acquireRefreshLease, Continue
  <2> QED BY <1>2, <2>1, <2>2 DEF acquireRefreshLease
<1>3. ASSUME NEW p \in Ops, heartbeat(p) PROVE HolderInv'
  <2>1. lease' = lease \/ (lease # None /\ lease' = [lease EXCEPT !.live = TRUE])
    BY <1>3 DEF heartbeat
  <2>2. UNCHANGED <<pc, attempt>>
    BY <1>3 DEF heartbeat
  <2> QED BY <2>1, <2>2 DEF HolderInv, TypeInv, TypeOK, Leases
<1>4. ASSUME NEW p \in Ops, readJournal(p) PROVE HolderInv'
  BY <1>1, <1>4 DEF readJournal
<1>5. ASSUME NEW p \in Ops,
             bootstrapIfMissing(p) \/ bootstrapWrite(p) \/ readKeychain(p) \/ repair(p) \/ fastPath(p)
               \/ waitForRefreshLease(p)
      PROVE  HolderInv'
  BY <1>1, <1>5 DEF bootstrapIfMissing, bootstrapWrite, readKeychain, repair, fastPath,
     waitForRefreshLease, Continue, Throw, Return
<1>6. ASSUME NEW p \in Ops,
             preflight(p) \/ providerAnswers(p) \/ hardTimeout(p) \/ refreshed(p) \/ abortRefresh(p)
      PROVE  HolderInv'
  BY <1>1, <1>6 DEF preflight, providerAnswers, hardTimeout, refreshed, abortRefresh, Continue, Throw,
     deleteLeaseIfHolder
<1>7. ASSUME NEW p \in Ops, handleAuthRevoked(p) \/ refreshError(p) \/ fenceCheck(p)
      PROVE  HolderInv'
  BY <1>1, <1>7 DEF handleAuthRevoked, refreshError, fenceCheck, Continue, Throw, deleteLeaseIfHolder
<1>8. ASSUME NEW p \in Ops, fenceWrite(p) \/ fenceCommit(p) \/ dbBusy(p) \/ crash(p)
      PROVE  HolderInv'
  BY <1>1, <1>8 DEF fenceWrite, fenceCommit, dbBusy, crash, Return, Throw, deleteLeaseIfHolder
<1>9. CASE leaseLapses
  BY <1>9 DEF leaseLapses, HolderInv, TypeInv, TypeOK, Leases
<1>10. CASE grantExpires \/ providerRevokes \/ UNCHANGED vars
  BY <1>10 DEF grantExpires, providerRevokes, HolderInv
<1> QED
  BY <1>2, <1>3, <1>4, <1>5, <1>6, <1>7, <1>8, <1>9, <1>10 DEF Next, Step, Progress

\* One call at a time is between its lease and its commit.
LEMMA OneInSection ==
  ASSUME LeaseInv, ~lapsed, NEW p \in Ops, NEW q \in Ops, pc[p] \in Section, pc[q] \in Section
  PROVE  p = q
  BY DEF LeaseInv, me

\* Steps outside the section: the journal may catch up with the item.
LEMMA LeaseFrame ==
  ASSUME LeaseInv, ~lapsed, NEW p \in Ops,
         UNCHANGED <<lease, keychain>>,
         journalGen' \in {journalGen, keychain.gen},
         pc'[p] \notin Section,
         \A q \in Ops \ {p} : pc'[q] = pc[q] /\ gen'[q] = gen[q] /\ attempt'[q] = attempt[q]
  PROVE  LeaseInv'
  BY DEF LeaseInv, me, FenceHolds

\* Steps inside it that stay there: the row may be renewed.
LEMMA LeaseStay ==
  ASSUME LeaseInv, ~lapsed, NEW p \in Ops,
         pc[p] \in Section \ {"commit"}, pc'[p] \in Section \ {"commit"},
         UNCHANGED <<lease, keychain, journalGen, gen, attempt>>,
         \A q \in Ops \ {p} : pc'[q] = pc[q]
  PROVE  LeaseInv'
<1>1. \A q \in Ops : /\ pc'[q] \in Section => pc[q] \in Section
                     /\ pc'[q] \in Section \ {"commit"} => pc[q] \in Section \ {"commit"}
  OBVIOUS
<1> QED BY <1>1 DEF LeaseInv, me, FenceHolds

\* The call leaves and releases its lease, with item and journal in step.
LEMMA LeaseRelease ==
  ASSUME LeaseInv, ~lapsed, NEW p \in Ops, pc[p] \in Section, pc'[p] \notin Section,
         deleteLeaseIfHolder(p), keychain'.gen = journalGen',
         \A q \in Ops \ {p} : pc'[q] = pc[q]
  PROVE  LeaseInv'
<1>1. \A q \in Ops : pc'[q] \notin Section
  BY OneInSection
<1>2. lease' = None
  BY DEF LeaseInv, deleteLeaseIfHolder
<1> QED BY <1>1, <1>2 DEF LeaseInv

\* The call leaves or writes and its lease stays behind.
LEMMA LeaseBehind ==
  ASSUME LeaseInv, ~lapsed, NEW p \in Ops, pc[p] \in Section,
         pc'[p] \notin Section \/ (pc'[p] = "commit" /\ attempt'[p] = attempt[p]),
         UNCHANGED lease,
         \A q \in Ops \ {p} : pc'[q] = pc[q]
  PROVE  LeaseInv'
<1>1. \A q \in Ops : pc'[q] \in Section => q = p /\ pc'[p] = "commit"
  BY OneInSection DEF Section
<1>2. lease # None /\ lease.holder = me(p)
  BY DEF LeaseInv
<1> QED BY <1>1, <1>2 DEF LeaseInv, me

\* History is not taken back.
LEMMA HistoryStays ==
  ASSUME [Next]_vars
  PROVE  (lapsed => lapsed') /\ (lost => lost')
<1>1. ASSUME NEW p \in Ops, Step(p) PROVE (lapsed => lapsed') /\ (lost => lost')
  <2>1. CASE Drop(p) /\ lapsed' = lapsed
    BY <2>1 DEF Drop
  <2>2. CASE UNCHANGED <<lost, lapsed>>
    BY <2>2
  <2>3. (Drop(p) /\ lapsed' = lapsed) \/ UNCHANGED <<lost, lapsed>>
    BY <1>1 DEF Step, Progress, bootstrapIfMissing, bootstrapWrite, readKeychain, readJournal, repair,
       fastPath, acquireRefreshLease, waitForRefreshLease, preflight, providerAnswers, heartbeat,
       hardTimeout, refreshed, abortRefresh, handleAuthRevoked, refreshError, fenceCheck, fenceWrite,
       fenceCommit, dbBusy, crash
  <2> QED BY <2>1, <2>2, <2>3
<1>2. CASE leaseLapses \/ grantExpires \/ providerRevokes \/ UNCHANGED vars
  BY <1>2 DEF leaseLapses, grantExpires, providerRevokes
<1> QED BY <1>1, <1>2 DEF Next

\* While leases are renewed in time, steps keep them exclusive.
LEMMA LeaseStep ==
  ASSUME ~BootstrapReadFaults, LeasedInv, [Next]_vars
  PROVE  LeaseInv'
<1> SUFFICES ASSUME ~lapsed' PROVE LeaseInv'
  BY DEF LeaseInv
<1>t. /\ ~lapsed /\ LiveInv /\ IndInv /\ TypeOK /\ FenceInv /\ LeaseInv
      /\ pc \in [Ops -> Running \cup Returned] /\ attempt \in [Ops -> 0 .. MaxAttempts]
      /\ gen \in [Ops -> Nat] /\ grant \in [Ops -> Grants]
  BY HistoryStays DEF LeasedInv, LiveInv, IndInv, TypeInv, TypeOK
<1>s. /\ \A p \in Ops : pc[p] \in {"http", "preflight", "fence", "write"} => pc[p] \in Section
      /\ \A p \in Ops : pc[p] = "commit" => pc[p] \in Section
      /\ {"start", "boot", "read", "journal", "repair", "lease", "wait", "failed", "done", "crashed",
          "keychain_older"} \cap Section = {}
  BY DEF Section
<1> USE <1>t DEF Goto
<1>1. ASSUME NEW p \in Ops,
             bootstrapIfMissing(p) \/ readKeychain(p) \/ fastPath(p) \/ waitForRefreshLease(p)
      PROVE  LeaseInv'
  BY <1>1, <1>s, LeaseFrame DEF bootstrapIfMissing, readKeychain, fastPath, waitForRefreshLease,
     Continue, Throw, Return
<1>2. ASSUME NEW p \in Ops, readJournal(p) PROVE LeaseInv'
  <2>1. pc'[p] \in {"repair", "lease", "keychain_older"}
    <3>1. grant[p].gen \in Nat /\ journalGen \in Nat
      BY GrantGen DEF TypeOK
    <3>2. CASE grant[p].gen > journalGen
      BY <1>2, <3>2 DEF readJournal
    <3>3. CASE grant[p].gen = journalGen
      BY <1>2, <3>1, <3>3 DEF readJournal
    <3>4. CASE grant[p].gen < journalGen
      BY <1>2, <3>1, <3>4 DEF readJournal
    <3>5. \A m, n \in Nat : m > n \/ m = n \/ m < n
      OBVIOUS
    <3> QED BY ONLY <3>1, <3>2, <3>3, <3>4, <3>5
  <2> QED BY <1>2, <1>s, <2>1, LeaseFrame DEF readJournal
<1>3. ASSUME NEW p \in Ops, repair(p) PROVE LeaseInv'
  <2>1. journalGen' \in {journalGen, keychain.gen}
    BY <1>3, GenerationMoveStep DEF GenerationMove, repair
  <2> QED BY <1>3, <1>s, <2>1, LeaseFrame DEF repair
<1>4. ASSUME NEW p \in Ops, acquireRefreshLease(p) PROVE LeaseInv'
  <2>1. CASE /\ journalGen = gen[p] /\ ~LeaseBusy(p)
             /\ lease' = [holder |-> me(p), live |-> TRUE]
             /\ Goto(p, "preflight")
             /\ UNCHANGED <<attempt, gen>>
    <3>1. lease = None
      <4>1. pc[p] \in Early
        BY <1>4 DEF acquireRefreshLease, Early
      <4>2. ASSUME lease # None PROVE FALSE
        <5>1. lease.live /\ lease.holder = me(p)
          BY <1>4, <2>1, <4>2 DEF acquireRefreshLease, LeaseInv, LeaseBusy
        <5>2. lease.holder[1] = p /\ lease.holder[2] = attempt[p] /\ attempt[p] \in Nat
          BY <5>1, LeaseParts DEF me
        <5>3. lease.holder[2] < attempt[p]
          BY <4>1, <4>2, <5>2 DEF LeasedInv, HolderInv
        <5> QED BY <5>2, <5>3
      <4> QED BY <4>2
    <3>2. \A q \in Ops \ {p} : pc'[q] \notin Section
      BY <1>4, <2>1, <3>1 DEF LeaseInv
    <3>3. lease' # None /\ lease'.holder = me(p)' /\ lease'.live
      BY <2>1, LeaseParts DEF me
    <3>4. FenceHolds(p)'
      BY <1>4, <2>1, <3>1 DEF acquireRefreshLease, FenceHolds, LeaseInv
    <3> QED BY <3>2, <3>3, <3>4 DEF LeaseInv
  <2>2. CASE UNCHANGED lease /\ (Continue(p) \/ (Goto(p, "wait") /\ UNCHANGED <<gen, attempt>>))
    <3>1. pc'[p] \in {"read", "failed", "wait"}
      BY <2>2 DEF Continue
    <3>2. \A q \in Ops \ {p} : pc'[q] = pc[q] /\ gen'[q] = gen[q] /\ attempt'[q] = attempt[q]
      BY <2>2 DEF Continue
    <3>3. UNCHANGED <<keychain, journalGen>>
      BY <1>4 DEF acquireRefreshLease
    <3> QED BY <1>s, <2>2, <3>1, <3>2, <3>3, LeaseFrame
  <2> QED BY <1>4, <2>1, <2>2 DEF acquireRefreshLease
<1>5. ASSUME NEW p \in Ops, preflight(p) PROVE LeaseInv'
  <2>1. CASE Goto(p, "http") /\ UNCHANGED <<lease, attempt, grant, gen, resp, aborted, ret>>
    BY <1>5, <2>1, LeaseStay DEF preflight, Section
  <2>2. CASE deleteLeaseIfHolder(p) /\ Throw(p)
    <3>1. keychain.gen = journalGen
      BY <1>5 DEF preflight, LeaseInv, FenceHolds, Section
    <3> QED BY <1>5, <1>s, <2>2, <3>1, LeaseRelease DEF preflight, Throw
  <2> QED BY <1>5, <2>1, <2>2 DEF preflight
<1>6. ASSUME NEW p \in Ops, heartbeat(p) PROVE LeaseInv'
  <2>1. \/ lease' = lease
        \/ lease # None /\ lease' = [lease EXCEPT !.live = TRUE]
    BY <1>6 DEF heartbeat
  <2>2. UNCHANGED <<pc, attempt, gen, keychain, journalGen>>
    BY <1>6 DEF heartbeat
  <2>3. lease' = lease
    BY <2>1 DEF LeaseInv, TypeOK, Leases
  <2> QED BY <2>2, <2>3 DEF LeaseInv, me, FenceHolds
<1>7. ASSUME NEW p \in Ops, providerAnswers(p) \/ hardTimeout(p) \/ refreshed(p)
      PROVE  LeaseInv'
  BY <1>7, <1>s, LeaseStay DEF providerAnswers, hardTimeout, refreshed, Section
<1>8. ASSUME NEW p \in Ops, abortRefresh(p) \/ handleAuthRevoked(p) \/ refreshError(p)
      PROVE  LeaseInv'
  <2>1. pc[p] = "http" /\ deleteLeaseIfHolder(p) /\ UNCHANGED <<keychain, journalGen>>
    BY <1>8 DEF abortRefresh, handleAuthRevoked, refreshError
  <2>2. keychain.gen = journalGen
    BY <1>8, <2>1 DEF abortRefresh, handleAuthRevoked, refreshError, LeaseInv, FenceHolds, Section
  <2>3. pc'[p] \in {"read", "failed"} /\ \A q \in Ops \ {p} : pc'[q] = pc[q]
    BY <1>8 DEF abortRefresh, handleAuthRevoked, refreshError, Continue, Throw
  <2> QED BY <1>s, <2>1, <2>2, <2>3, LeaseRelease
<1>9. ASSUME NEW p \in Ops, fenceCheck(p) PROVE LeaseInv'
  <2>1. CASE Goto(p, "write") /\ UNCHANGED <<attempt, gen>>
    BY <1>9, <2>1, LeaseStay DEF fenceCheck, Section
  <2>2. CASE Continue(p)
    BY <1>9, <1>s, <2>2, LeaseBehind DEF fenceCheck, Continue
  <2> QED BY <1>9, <2>1, <2>2 DEF fenceCheck
<1>10. ASSUME NEW p \in Ops, fenceWrite(p) PROVE LeaseInv'
  BY <1>10, <1>s, LeaseBehind DEF fenceWrite, Throw
<1>11. ASSUME NEW p \in Ops, fenceCommit(p) PROVE LeaseInv'
  <2>1. CASE Throw(p) /\ UNCHANGED <<journalGen, lease>>
    BY <1>11, <1>s, <2>1, LeaseBehind DEF fenceCommit, Throw
  <2>2. CASE casGrantGeneration(gen[p], gen[p] + 1) /\ deleteLeaseIfHolder(p) /\ Return(p, NewGrant(p))
    <3>1. keychain'.gen = journalGen'
      BY <1>11, <2>2 DEF fenceCommit, casGrantGeneration, FenceInv, NewGrant
    <3> QED BY <1>11, <1>s, <2>2, <3>1, LeaseRelease DEF fenceCommit, Return
  <2> QED BY <1>11, <2>1, <2>2 DEF fenceCommit
<1>12. ASSUME NEW p \in Ops, dbBusy(p) \/ crash(p) PROVE LeaseInv'
  <2>1. CASE pc[p] \in Section
    BY <1>12, <1>s, <2>1, LeaseBehind DEF dbBusy, crash, Throw
  <2>2. CASE pc[p] \notin Section
    BY <1>12, <1>s, <2>2, LeaseFrame DEF dbBusy, crash, Throw
  <2> QED BY <2>1, <2>2
<1>13. ASSUME NEW p \in Ops, bootstrapWrite(p) PROVE FALSE
  BY <1>13 DEF bootstrapWrite, FenceInv
<1>14. CASE leaseLapses
  BY <1>14 DEF leaseLapses
<1>15. CASE grantExpires \/ providerRevokes \/ UNCHANGED vars
  BY <1>15 DEF grantExpires, providerRevokes, LeaseInv, me, FenceHolds
<1> QED
  BY <1>1, <1>2, <1>3, <1>4, <1>5, <1>6, <1>7, <1>8, <1>9, <1>10, <1>11, <1>12, <1>13, <1>14, <1>15 DEF Next, Step, Progress

\* While no token was lost and no lease has lapsed, a POST presents the live token.
LEMMA RevokedStep ==
  ASSUME ~BootstrapReadFaults, LeasedInv, [Next]_vars
  PROVE  RevokedInv'
<1> SUFFICES ASSUME ~lost', ~lapsed' PROVE RevokedInv'
  BY DEF RevokedInv
<1>t. /\ ~lost /\ ~lapsed /\ LiveInv /\ IndInv /\ TypeOK /\ LeaseInv /\ AnswerInv /\ TokenInv
      /\ status = "active"
      /\ \A p \in Ops : pc[p] = "http" => resp[p].kind # "invalid"
      /\ pc \in [Ops -> Running \cup Returned] /\ resp \in [Ops -> Answers]
  BY HistoryStays DEF LeasedInv, LiveInv, RevokedInv, IndInv, TypeInv, TypeOK
<1> USE <1>t DEF Goto
<1>1. ASSUME UNCHANGED status, \A p \in Ops : pc'[p] = "http" => pc[p] = "http" /\ resp'[p] = resp[p]
      PROVE  RevokedInv'
  BY <1>1 DEF RevokedInv
<1>2. ASSUME NEW p \in Ops, providerAnswers(p) PROVE RevokedInv'
  <2>1. grant[p].tok = validTok
    <3> SUFFICES ASSUME grant[p].tok # validTok PROVE FALSE
      OBVIOUS
    <3>1. pc[p] = "http" /\ resp[p] = NoAnswer
      BY <1>2 DEF providerAnswers
    <3>2. grant[p] = keychain
      <4>1. grant[p].gen = keychain.gen
        BY <3>1 DEF LeaseInv, AnswerInv, FenceHolds, Section
      <4>2. grant[p] \in Copies /\ keychain \in Copies
        BY DEF Copies
      <4> QED BY <4>1, <4>2 DEF IndInv, GenerationIdentifiesGrant
    <3>3. PICK q \in Ops : Pending(q)
      BY <3>2 DEF TokenInv, RotatedInv, FixedInv
    <3>4. q = p
      BY <3>1, <3>3, OneInSection DEF Pending, Section
    <3> QED BY <3>1, <3>3, <3>4 DEF Pending, NoAnswer
  <2>2. resp'[p].kind = "ok" /\ \A q \in Ops \ {p} : resp'[q] = resp[q]
    BY <1>2, <2>1 DEF providerAnswers
  <2> QED BY <1>2, <2>2 DEF providerAnswers, RevokedInv
<1>3. ASSUME NEW p \in Ops, preflight(p) PROVE RevokedInv'
  <2>1. resp[p].kind # "invalid"
    BY <1>3 DEF preflight, AnswerInv, BeforePost, NoAnswer
  <2> QED BY <1>3, <2>1 DEF preflight, RevokedInv, Throw
<1>4. ASSUME NEW p \in Ops, handleAuthRevoked(p) PROVE FALSE
  BY <1>4 DEF handleAuthRevoked
<1>5. ASSUME NEW p \in Ops, readJournal(p) PROVE RevokedInv'
  <2>1. pc'[p] \in {"repair", "lease", "keychain_older"}
    <3>1. grant[p].gen \in Nat /\ journalGen \in Nat
      BY GrantGen DEF TypeOK
    <3>2. CASE grant[p].gen > journalGen
      BY <1>5, <3>2 DEF readJournal
    <3>3. CASE grant[p].gen = journalGen
      BY <1>5, <3>1, <3>3 DEF readJournal
    <3>4. CASE grant[p].gen < journalGen
      BY <1>5, <3>1, <3>4 DEF readJournal
    <3>5. \A m, n \in Nat : m > n \/ m = n \/ m < n
      OBVIOUS
    <3> QED BY ONLY <3>1, <3>2, <3>3, <3>4, <3>5
  <2> QED BY <1>1, <1>5, <2>1 DEF readJournal
<1>6. ASSUME NEW p \in Ops,
             bootstrapIfMissing(p) \/ bootstrapWrite(p) \/ readKeychain(p) \/ repair(p) \/ fastPath(p)
               \/ acquireRefreshLease(p) \/ waitForRefreshLease(p)
      PROVE  RevokedInv'
  BY <1>1, <1>6 DEF bootstrapIfMissing, bootstrapWrite, readKeychain, repair, fastPath,
     acquireRefreshLease, waitForRefreshLease, Continue, Throw, Return
<1>7. ASSUME NEW p \in Ops, heartbeat(p) \/ hardTimeout(p) \/ refreshed(p) \/ abortRefresh(p) \/ refreshError(p)
      PROVE  RevokedInv'
  BY <1>1, <1>7 DEF heartbeat, hardTimeout, refreshed, abortRefresh, refreshError, Continue, Throw
<1>8. ASSUME NEW p \in Ops, fenceCheck(p) \/ fenceWrite(p) \/ fenceCommit(p) \/ dbBusy(p) \/ crash(p)
      PROVE  RevokedInv'
  BY <1>1, <1>8 DEF fenceCheck, fenceWrite, fenceCommit, dbBusy, crash, Continue, Throw, Return
<1>9. CASE leaseLapses \/ grantExpires \/ providerRevokes \/ UNCHANGED vars
  BY <1>1, <1>9 DEF leaseLapses, grantExpires, providerRevokes
<1> QED
  BY <1>2, <1>3, <1>4, <1>5, <1>6, <1>7, <1>8, <1>9 DEF Next, Step, Progress

\* Together: an inductive invariant of fence, tokens and lease.
LEMMA LeasedStep ==
  ASSUME ~BootstrapReadFaults
  PROVE  LeasedInv /\ [Next]_vars => LeasedInv'
<1> SUFFICES ASSUME LeasedInv, [Next]_vars PROVE LeasedInv'
  OBVIOUS
<1>1. LiveInv'
  BY LiveStep DEF LeasedInv
<1>2. HolderInv'
  BY HolderStep DEF LeasedInv, LiveInv, IndInv
<1> QED BY <1>1, <1>2, LeaseStep, RevokedStep DEF LeasedInv

\* While every lease is renewed in time, one call is between acquireRefreshLease and
\* the end of its fenced write.
THEOREM OneRefresherHolds ==
  ASSUME ~BootstrapReadFaults
  PROVE  Spec => []OneRefresher
<1>1. LeasedInv => OneRefresher
  BY OneInSection DEF LeasedInv, OneRefresher, Section
<1> QED BY <1>1, LeasedInit, LeasedStep, PTL DEF Spec

\* An account is marked auth_revoked only if its grant is gone or a lease lapsed:
\* otherwise invalid_grant with the generation unchanged cannot be a lost race.
THEOREM RevokedOnlyIfLostHolds ==
  ASSUME ~BootstrapReadFaults
  PROVE  Spec => []RevokedOnlyIfLost
<1>1. LeasedInv => RevokedOnlyIfLost
  BY DEF LeasedInv, RevokedInv, RevokedOnlyIfLost
<1> QED BY <1>1, LeasedInit, LeasedStep, PTL DEF Spec
=============================================================================
