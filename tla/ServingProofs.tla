---------------------------- MODULE ServingProofs ----------------------------
(***************************************************************************)
(* Proofs about who serves a request: the proxy's count of requests and    *)
(* idle timer and the fences of native resync, for any number of proxies,  *)
(* requests and resync commands; and the Pi extension, for any number of requests, loads,      *)
(* consume commands and migrations.                                        *)
(***************************************************************************)
EXTENDS MCServing, SequenceTheorems, FiniteSetTheorems, TLAPS

-----------------------------------------------------------------------------
(* The proxy: the invariant *)

Steps == {"idle", "auth", "resolve", "credential", "send", "upstream", "reread", "stream",
          "body", "stranded", "native", "owned", "write", "done"}
Copies == Items \cup {None, Junk}
NatOrNone == Nat \cup {None}

JobRecs == [pc : Steps, on : Proxies \cup {None}, acct : {None, "own", "cswap-active"},
            tok : NatOrNone, sent : Nat, nat : NatOrNone, own : Copies,
            og : NatOrNone, seen : Nat, left : BOOLEAN]
Servers == [at : {"off", "listening", "running", "closing", "exited", "dead"}, timer : BOOLEAN,
            inFlight : Nat, noIdle : BOOLEAN]

JobType == job \in [Jobs -> JobRecs]
PxType == px \in [Proxies -> Servers]
WorldType ==
  /\ item \in Copies /\ gen \in Nat /\ native \in NatOrNone /\ login \in Nat
  /\ issued \in Nat

\* A request that began is on a proxy, and a command never is.
OnInv ==
  /\ \A r \in Reqs : job[r].on = None <=> job[r].pc = "idle"
  /\ \A c \in Cmds : job[c].on = None

\* QLB's copy is at the database's generation or one ahead; while a refresh is between
\* its write and its commit it is one ahead.
GenInv ==
  /\ Parsed(item) => item.gen \in {gen, gen + 1}
  /\ tx # None => Parsed(item) /\ item.gen = gen + 1

\* No token is from the future.
TokInv ==
  /\ Parsed(item) => item.tok <= issued
  /\ native # None => native <= issued

\* The counter of a proxy is the number of its open requests, and its timer is set only
\* where none is open; the timer of a running one is set whenever none is.
CountInv ==
  /\ \A p \in Proxies : IsFiniteSet(Open(p))
  /\ RequestsCounted
  /\ IdleIsTimed

\* What a resync compared is no newer than the tokens issued by then.
SeenInv ==
  \A j \in Jobs :
    job[j].pc = "write" /\ Parsed(job[j].own) => job[j].own.tok <= job[j].seen
NatInv ==
  \A j \in Jobs :
    job[j].pc \in {"owned", "write"} => job[j].nat \in Nat /\ job[j].nat <= issued

ServerInv == JobType /\ PxType /\ OnInv /\ SeenInv /\ NatInv /\ CountInv
WorldInv == WorldType /\ GenInv /\ TokInv
IInv == ServerInv /\ WorldInv

-----------------------------------------------------------------------------
\* The record of a job that has not begun.
LEMMA NoJobType == NoJob \in JobRecs /\ \A p \in Proxies : Over(p) \in JobRecs
  BY DEF NoJob, Over, JobRecs, Steps, NatOrNone, Copies

\* Arming sets the timer or clears it, and nothing else.
LEMMA Arming ==
  ASSUME NEW q \in Servers
  PROVE  /\ armIdle(q) \in Servers /\ armIdle(q).at = q.at /\ armIdle(q).noIdle = q.noIdle
         /\ armIdle(q).inFlight = q.inFlight
         /\ armIdle(q).timer <=> q.at \in {"listening", "running"} /\ ~q.noIdle /\ q.inFlight = 0
  BY DEF armIdle, Servers

\* The counter of a server with finitely many open requests is zero when there are none.
LEMMA NoneOpen ==
  ASSUME CountInv, NEW p \in Proxies
  PROVE  px[p].inFlight = 0 <=> Open(p) = {}
  BY FS_EmptySet DEF CountInv, RequestsCounted

\* Nothing has been asked and nothing is refreshed.
LEMMA InvInit == Init => IInv
<1> SUFFICES ASSUME Init PROVE IInv
  OBVIOUS
<1> USE DEF Init
<1>1. JobType
  BY NoJobType DEF JobType
<1>2. PxType /\ \A p \in Proxies : px[p].at = "off" /\ px[p].inFlight = 0
  <2>1. \A b \in BOOLEAN : /\ NewServer(b) \in Servers
                           /\ NewServer(b).at = "off" /\ NewServer(b).inFlight = 0
    BY DEF NewServer, Servers
  <2>2. \A p \in Proxies : \E b \in BOOLEAN : px[p] = NewServer(b)
    OBVIOUS
  <2>3. px = [p \in Proxies |-> px[p]]
    OBVIOUS
  <2> QED BY <2>1, <2>2, <2>3 DEF PxType
<1>3. WorldInv
  <2>1. [tok |-> 1, gen |-> 1] \in Items
    BY DEF Items
  <2>2. native \in NatOrNone /\ (native # None => native <= issued)
    BY DEF NatOrNone
  <2> QED BY <2>1, <2>2 DEF WorldInv, WorldType, GenInv, TokInv, Copies, Parsed
<1>4. \A j \in Jobs : job[j].on = None /\ job[j].pc = "idle"
  BY DEF NoJob
<1>5. \A p \in Proxies : Open(p) = {}
  BY <1>4, NoneAssumption DEF Open, Jobs
<1>6. CountInv
  BY <1>2, <1>5, FS_EmptySet DEF CountInv, RequestsCounted, IdleIsTimed
<1> QED BY <1>1, <1>2, <1>3, <1>4, <1>6 DEF IInv, ServerInv, OnInv, SeenInv, NatInv, Jobs

-----------------------------------------------------------------------------
\* A request that goes on, or a resync command, leaves the proxies alone.
LEMMA JobMoves ==
  ASSUME ServerInv, NEW j \in Jobs, NEW q \in JobRecs,
         job' = [job EXCEPT ![j] = q], px' = px, issued' = issued,
         q.on = job[j].on, q.pc # "idle",
         j \in Reqs => job[j].pc \notin {"idle", "done"} /\ q.pc # "done",
         q.pc \in {"owned", "write"} => q.nat \in Nat /\ q.nat <= issued,
         q.pc = "write" /\ Parsed(q.own) => q.own.tok <= q.seen
  PROVE  ServerInv'
<1>1. JobType' /\ PxType'
  BY DEF ServerInv, JobType, PxType
<1>2. \A i \in Jobs : job'[i] = IF i = j THEN q ELSE job[i]
  BY DEF ServerInv, JobType
<1>3. OnInv'
  BY <1>2 DEF ServerInv, OnInv, Jobs
<1>4. SeenInv' /\ NatInv'
  BY <1>2 DEF ServerInv, SeenInv, NatInv
<1>5. \A p \in Proxies : Open(p)' = Open(p)
  BY <1>2, JobsAssumption DEF Open, Jobs
<1>6. CountInv'
  BY <1>5 DEF ServerInv, CountInv, RequestsCounted, IdleIsTimed
<1> QED BY <1>1, <1>3, <1>4, <1>6 DEF ServerInv

\* A request that ends is counted down once, and the last one of a running proxy sets
\* its timer.
LEMMA JobEnds ==
  ASSUME ServerInv, NEW r \in Reqs, job[r].pc \notin {"idle", "done"}, Ends(r)
  PROVE  ServerInv'
<1>0. job[r].on \in Proxies
  BY DEF ServerInv, OnInv, JobType, JobRecs, Jobs
<1> SUFFICES ASSUME NEW p \in Proxies, p = job[r].on
             PROVE  ServerInv'
  BY <1>0
<1> DEFINE q == [px[p] EXCEPT !.inFlight = @ - 1]
           s == IF q.inFlight = 0 THEN armIdle(q) ELSE q
<1>1. p \in Proxies /\ r \in Jobs
  BY DEF Jobs
<1>2. Over(p) \in JobRecs /\ Over(p).pc = "done" /\ Over(p).on = p
  BY <1>1, NoJobType DEF NoJob, Over
<1>3. job' = [job EXCEPT ![r] = Over(p)] /\ issued' = issued /\ px' = [px EXCEPT ![p] = s]
  BY DEF Ends, world
<1>4. IsFiniteSet(Open(p)) /\ r \in Open(p) /\ px[p] \in Servers /\ px[p].inFlight = Cardinality(Open(p))
  BY <1>1 DEF ServerInv, PxType, CountInv, RequestsCounted, Open
<1>5. /\ IsFiniteSet(Open(p) \ {r}) /\ Cardinality(Open(p) \ {r}) = px[p].inFlight - 1
      /\ px[p].inFlight - 1 \in Nat
  <2>1. IsFiniteSet(Open(p) \ {r}) /\ Cardinality(Open(p) \ {r}) = Cardinality(Open(p)) - 1
    BY <1>4, FS_RemoveElement
  <2>2. Cardinality(Open(p) \ {r}) \in Nat
    BY <2>1, FS_CardinalityType
  <2> QED BY <1>4, <2>1, <2>2
<1>6. /\ q \in Servers /\ q.inFlight = px[p].inFlight - 1
      /\ q.at = px[p].at /\ q.timer = px[p].timer /\ q.noIdle = px[p].noIdle
  BY <1>4, <1>5 DEF Servers
<1> HIDE DEF q
<1>7. /\ s \in Servers /\ s.inFlight = q.inFlight /\ s.at = q.at /\ s.noIdle = q.noIdle
      /\ q.inFlight # 0 => s.timer = q.timer
      /\ q.inFlight = 0 /\ s.at = "running" => (s.timer <=> ~s.noIdle)
  BY <1>6, Arming
<1> HIDE DEF s
<1>8. JobType' /\ PxType'
  BY <1>1, <1>2, <1>3, <1>7 DEF ServerInv, JobType, PxType
<1>9. \A i \in Jobs : job'[i] = IF i = r THEN Over(p) ELSE job[i]
  BY <1>3 DEF ServerInv, JobType
<1>10. OnInv'
  BY <1>1, <1>2, <1>9, NoneAssumption, JobsAssumption DEF ServerInv, OnInv, Jobs
<1>11. SeenInv' /\ NatInv'
  BY <1>2, <1>3, <1>9 DEF ServerInv, SeenInv, NatInv
<1>12. Open(p)' = Open(p) \ {r} /\ \A t \in Proxies \ {p} : Open(t)' = Open(t) /\ px'[t] = px[t]
  BY <1>1, <1>2, <1>3, <1>9 DEF Open, Jobs, ServerInv, PxType
<1>13. px'[p] = s
  BY <1>1, <1>3 DEF ServerInv, PxType
<1>14. \A t \in Proxies : IsFiniteSet(Open(t)') /\ px'[t].inFlight = Cardinality(Open(t)')
  <2> SUFFICES ASSUME NEW t \in Proxies
               PROVE  IsFiniteSet(Open(t)') /\ px'[t].inFlight = Cardinality(Open(t)')
    OBVIOUS
  <2>1. CASE t = p
    BY <1>5, <1>6, <1>7, <1>12, <1>13, <2>1
  <2>2. CASE t # p
    BY <1>12, <2>2 DEF ServerInv, CountInv, RequestsCounted
  <2> QED BY <2>1, <2>2
<1>15. IdleIsTimed'
  <2> SUFFICES ASSUME NEW t \in Proxies, px'[t].at = "running"
               PROVE  px'[t].timer <=> ~px'[t].noIdle /\ Open(t)' = {}
    BY DEF IdleIsTimed
  <2>1. CASE t # p
    BY <1>12, <2>1 DEF ServerInv, CountInv, IdleIsTimed
  <2>2. CASE t = p /\ q.inFlight = 0
    <3>1. Open(p)' = {}
      BY <1>5, <1>6, <1>12, <2>2, FS_EmptySet
    <3>2. s.timer <=> ~s.noIdle
      BY <1>7, <1>13, <2>2
    <3> QED BY <1>13, <2>2, <3>1, <3>2
  <2>3. CASE t = p /\ q.inFlight # 0
    <3>1. Open(p)' # {} /\ Open(p) # {}
      BY <1>4, <1>5, <1>6, <1>12, <2>3, FS_EmptySet
    <3>2. ~px[p].timer
      BY <1>1, <1>6, <1>7, <1>13, <2>3, <3>1 DEF ServerInv, CountInv, IdleIsTimed
    <3>3. ~s.timer
      BY <1>6, <1>7, <2>3, <3>2
    <3> QED BY <1>13, <2>3, <3>1, <3>3
  <2> QED BY <2>1, <2>2, <2>3
<1>16. CountInv'
  BY <1>14, <1>15 DEF CountInv, RequestsCounted
<1> QED BY <1>8, <1>10, <1>11, <1>16 DEF ServerInv

\* A proxy that leaves or dies takes its own requests with it, and no other.
LEMMA CutKeeps ==
  ASSUME ServerInv, NEW p \in Proxies, NEW how \in {"exited", "dead"}, Gone(p, how), issued' = issued
  PROVE  ServerInv'
<1> DEFINE s == [px[p] EXCEPT !.at = how, !.timer = FALSE, !.inFlight = 0]
<1>0. px[p] \in Servers
  BY DEF ServerInv, PxType
<1>1. s \in Servers /\ s.at # "running" /\ s.inFlight = 0
  BY ONLY <1>0, how \in {"exited", "dead"} DEF Servers
<1>2. px' = [px EXCEPT ![p] = s] /\ job' = Cut(p)
  BY DEF Gone, ServerInv, PxType, Servers
<1> HIDE DEF s
<1>3. \A j \in Jobs : job'[j] = IF job[j].on = p THEN Over(p) ELSE job[j]
  BY <1>2 DEF Cut
<1>4. Over(p) \in JobRecs /\ Over(p).pc = "done" /\ Over(p).on = p
  BY NoJobType DEF NoJob, Over
<1>5. JobType' /\ PxType'
  BY <1>1, <1>2, <1>3, <1>4 DEF ServerInv, JobType, PxType, Cut
<1>6. OnInv'
  BY <1>3, <1>4, NoneAssumption DEF ServerInv, OnInv, Jobs
<1>7. SeenInv' /\ NatInv'
  BY <1>3, <1>4 DEF ServerInv, SeenInv, NatInv
<1>8. Open(p)' = {} /\ \A t \in Proxies \ {p} : Open(t)' = Open(t) /\ px'[t] = px[t]
  BY <1>2, <1>3, <1>4 DEF Open, Jobs, ServerInv, PxType
<1>9. px'[p] = s
  BY <1>2 DEF ServerInv, PxType
<1>10. CountInv'
  BY <1>1, <1>8, <1>9, FS_EmptySet DEF ServerInv, CountInv, RequestsCounted, IdleIsTimed
<1> QED BY <1>5, <1>6, <1>7, <1>10 DEF ServerInv

\* The server's own steps: publication with a request already there, the idle timer,
\* signals, the end and the death of the process.
LEMMA ProxySteps ==
  ASSUME ServerInv, NEW p \in Proxies,
         Listen(p) \/ Publish(p) \/ idleExit(p) \/ Signal(p) \/ Die(p) \/ stop(p) \/ SignalAgain(p)
  PROVE  ServerInv'
<1>t. px[p] \in Servers
  BY DEF ServerInv, PxType
<1>k. ASSUME NEW s \in Servers, px' = [px EXCEPT ![p] = s], job' = job, issued' = issued,
             s.inFlight = px[p].inFlight,
             s.at = "running" => (s.timer <=> ~s.noIdle /\ Open(p) = {})
      PROVE  ServerInv'
  <2>1. PxType' /\ px'[p] = s /\ \A t \in Proxies \ {p} : px'[t] = px[t]
    BY <1>k DEF ServerInv, PxType
  <2>2. \A t \in Proxies : Open(t)' = Open(t)
    BY <1>k DEF Open
  <2>3. CountInv'
    BY <1>k, <2>1, <2>2 DEF ServerInv, CountInv, RequestsCounted, IdleIsTimed
  <2> QED BY <1>k, <2>1, <2>3 DEF ServerInv, JobType, OnInv, SeenInv, NatInv
<1>1. CASE Listen(p)
  <2> DEFINE s == [px[p] EXCEPT !.at = "listening"]
  <2>1. s \in Servers /\ s.inFlight = px[p].inFlight /\ s.at = "listening"
    BY <1>t DEF Servers
  <2>2. px' = [px EXCEPT ![p] = s] /\ job' = job /\ issued' = issued
    BY <1>1 DEF Listen, world
  <2> QED BY <1>k, <2>1, <2>2
<1>2. CASE Publish(p)
  <2> DEFINE q == [px[p] EXCEPT !.at = "running"]
  <2>1. q \in Servers /\ q.inFlight = px[p].inFlight /\ q.at = "running"
    BY <1>t DEF Servers
  <2>2. px' = [px EXCEPT ![p] = armIdle(q)] /\ job' = job /\ issued' = issued
    BY <1>2 DEF Publish, world
  <2> HIDE DEF q
  <2>3. /\ armIdle(q) \in Servers /\ armIdle(q).inFlight = px[p].inFlight
        /\ armIdle(q).timer <=> ~armIdle(q).noIdle /\ Open(p) = {}
    BY <2>1, Arming, NoneOpen DEF ServerInv
  <2> QED BY <1>k, <2>2, <2>3
<1>3. CASE idleExit(p)
  <2> DEFINE s == [px[p] EXCEPT !.at = IF px[p].inFlight = 0 THEN "closing" ELSE @, !.timer = FALSE]
  <2>1. s \in Servers /\ s.inFlight = px[p].inFlight /\ (px[p].inFlight = 0 => s.at = "closing")
        /\ (px[p].inFlight # 0 => s.at = px[p].at /\ s.noIdle = px[p].noIdle /\ ~s.timer)
    BY <1>t DEF Servers
  <2>2. px' = [px EXCEPT ![p] = s] /\ job' = job /\ issued' = issued
    BY <1>3 DEF idleExit, world, ServerInv, PxType, Servers
  <2>3. px[p].inFlight = 0 <=> Open(p) = {}
    BY NoneOpen DEF ServerInv
  <2> HIDE DEF s
  <2> QED BY <1>k, <2>1, <2>2, <2>3
<1>4. CASE Signal(p)
  <2> DEFINE s == [px[p] EXCEPT !.at = "closing", !.timer = FALSE]
  <2>1. s \in Servers /\ s.inFlight = px[p].inFlight /\ s.at = "closing"
    BY <1>t DEF Servers
  <2>2. px' = [px EXCEPT ![p] = s] /\ job' = job /\ issued' = issued
    BY <1>4 DEF Signal, world, ServerInv, PxType, Servers
  <2> HIDE DEF s
  <2> QED BY <1>k, <2>1, <2>2
<1>5. CASE Die(p)
  BY <1>5, CutKeeps DEF Die, world
<1>6. CASE stop(p) \/ SignalAgain(p)
  BY <1>6, CutKeeps DEF stop, SignalAgain, Leave, world
<1> QED BY <1>1, <1>2, <1>3, <1>4, <1>5, <1>6

\* A request that comes in stops the timer and is counted at once.
LEMMA HandleStep ==
  ASSUME ServerInv, NEW p \in Proxies, NEW r \in Reqs, handle(r, p)
  PROVE  ServerInv'
<1> DEFINE q == [NoJob EXCEPT !.pc = "auth", !.on = p]
           s == [px[p] EXCEPT !.timer = FALSE, !.inFlight = @ + 1]
<1>0. px[p] \in Servers /\ r \in Jobs /\ job[r].on = None
  BY DEF ServerInv, PxType, Jobs, handle, OnInv
<1>1. q \in JobRecs /\ q.pc = "auth" /\ q.on = p
  BY DEF NoJob, JobRecs, Steps, NatOrNone, Copies
<1>2. s \in Servers /\ s.timer = FALSE /\ s.inFlight = px[p].inFlight + 1
  <2>1. px[p].inFlight + 1 \in Nat
    BY <1>0 DEF Servers
  <2>2. ASSUME NEW n \in Nat
        PROVE  LET u == [px[p] EXCEPT !.timer = FALSE, !.inFlight = n]
               IN  u \in Servers /\ u.timer = FALSE /\ u.inFlight = n
    BY ONLY <1>0, <2>2 DEF Servers
  <2> QED BY <2>1, <2>2
<1>3. job' = [job EXCEPT ![r] = q] /\ px' = [px EXCEPT ![p] = s] /\ issued' = issued
  BY <1>0 DEF handle, world, ServerInv, PxType, Servers
<1> HIDE DEF q, s
<1>4. \A j \in Jobs : job'[j] = IF j = r THEN q ELSE job[j]
  BY <1>3 DEF ServerInv, JobType
<1>5. JobType' /\ PxType'
  BY <1>1, <1>2, <1>3 DEF ServerInv, JobType, PxType
<1>6. OnInv'
  BY <1>0, <1>1, <1>4, NoneAssumption, JobsAssumption DEF ServerInv, OnInv, Jobs
<1>7. SeenInv' /\ NatInv'
  BY <1>1, <1>3, <1>4 DEF ServerInv, SeenInv, NatInv
<1>8. /\ r \notin Open(p) /\ Open(p)' = Open(p) \cup {r}
      /\ \A t \in Proxies \ {p} : Open(t)' = Open(t) /\ px'[t] = px[t]
  BY <1>0, <1>1, <1>3, <1>4, NoneAssumption DEF Open, Jobs, ServerInv, PxType
<1>9. IsFiniteSet(Open(p)') /\ Cardinality(Open(p)') = px[p].inFlight + 1 /\ px'[p] = s
  BY <1>3, <1>8, FS_AddElement DEF ServerInv, PxType, CountInv, RequestsCounted
<1>10. CountInv'
  BY <1>2, <1>8, <1>9 DEF ServerInv, CountInv, RequestsCounted, IdleIsTimed
<1> QED BY <1>5, <1>6, <1>7, <1>10 DEF ServerInv

\* A request outside a resync goes to another of its own steps.
LEMMA RequestMoves ==
  ASSUME ServerInv, NEW r \in Reqs, job[r].pc \notin {"idle", "done"}, NEW q,
         Only(r, q), q \in JobRecs, q.on = job[r].on, q.pc \notin {"idle", "done", "owned", "write"}
  PROVE  ServerInv'
<1>1. r \in Jobs /\ job' = [job EXCEPT ![r] = q] /\ px' = px /\ issued' = issued
  BY DEF Only, Jobs, world
<1> QED BY <1>1, JobMoves

\* The tokens getCredential may answer.
LEMMA CredentialType ==
  ASSUME WorldInv, NEW a
  PROVE  getCredential(a) \in NatOrNone
  BY DEF WorldInv, WorldType, getCredential, NatOrNone, Copies, Parsed, Items

\* A request, whatever it is answered, ends through the same finally.
LEMMA RequestSteps ==
  ASSUME ServerInv, WorldInv, NEW r \in Reqs,
         \/ handleInner(r) \/ resolveFromSnapshots(r) \/ FirstCredential(r) \/ Send(r)
         \/ attemptWithNativeResyncRetry(r) \/ Reread(r) \/ Stream(r) \/ Body(r)
         \/ ClientLeaves(r)
  PROVE  ServerInv' /\ UNCHANGED world
<1>t. job[r] \in JobRecs
  BY DEF ServerInv, JobType, Jobs
<1>w. \A q : Only(r, q) => UNCHANGED world
  BY DEF Only
<1>x. Ends(r) => UNCHANGED world
  BY DEF Ends
<1>p. ASSUME NEW l \in Steps
      PROVE  LET q == [job[r] EXCEPT !.pc = l] IN q \in JobRecs /\ q.on = job[r].on /\ q.pc = l
  BY ONLY <1>t, <1>p DEF JobRecs, Steps
<1>s. {"resolve", "credential", "send", "upstream", "reread", "body", "stranded", "native"} \subseteq Steps
  BY DEF Steps
<1>a. Answered(r) \in JobRecs /\ Answered(r).on = job[r].on /\ Answered(r).pc = "stream"
  BY <1>t, JobsAssumption DEF Answered, NoJob, JobRecs, Steps, NatOrNone, Copies
<1>1. CASE handleInner(r)
  BY <1>1, <1>p, <1>s, <1>w, <1>x, JobEnds, RequestMoves DEF handleInner
<1>2. CASE resolveFromSnapshots(r)
  <2>1. CASE Ends(r)
    BY <1>2, <1>x, <2>1, JobEnds DEF resolveFromSnapshots
  <2>2. ASSUME NEW a \in {"own", "cswap-active"}, Only(r, [job[r] EXCEPT !.pc = "credential", !.acct = a])
        PROVE  ServerInv' /\ UNCHANGED world
    <3>1. LET q == [job[r] EXCEPT !.pc = "credential", !.acct = a]
          IN  q \in JobRecs /\ q.on = job[r].on /\ q.pc = "credential"
      BY ONLY <1>t, <2>2 DEF JobRecs, Steps
    <3> QED BY <1>2, <1>w, <2>2, <3>1, RequestMoves DEF resolveFromSnapshots
  <2> QED BY <1>2, <2>1, <2>2 DEF resolveFromSnapshots
<1>3. ASSUME NEW t \in NatOrNone
      PROVE  /\ LET q == [job[r] EXCEPT !.pc = "send", !.tok = t]
                IN  q \in JobRecs /\ q.on = job[r].on /\ q.pc = "send"
             /\ LET q == [job[r] EXCEPT !.pc = "upstream", !.tok = t, !.sent = @ + 1]
                IN  q \in JobRecs /\ q.on = job[r].on /\ q.pc = "upstream"
  <2>1. LET q == [job[r] EXCEPT !.pc = "send", !.tok = t]
        IN  q \in JobRecs /\ q.on = job[r].on /\ q.pc = "send"
    BY ONLY <1>t, <1>3 DEF JobRecs, Steps
  <2>2. job[r].sent + 1 \in Nat
    BY <1>t DEF JobRecs
  <2>3. ASSUME NEW n \in Nat
        PROVE  LET q == [job[r] EXCEPT !.pc = "upstream", !.tok = t, !.sent = n]
               IN  q \in JobRecs /\ q.on = job[r].on /\ q.pc = "upstream"
    BY ONLY <1>t, <1>3, <2>3 DEF JobRecs, Steps
  <2> QED BY <2>1, <2>2, <2>3
<1>4. CASE FirstCredential(r)
  <2>1. PICK t \in NatOrNone :
          IF t = None THEN Ends(r) ELSE Only(r, [job[r] EXCEPT !.pc = "send", !.tok = t])
    BY <1>4, CredentialType DEF FirstCredential, NatOrNone
  <2> QED BY <1>3, <1>4, <1>w, <1>x, <2>1, JobEnds, RequestMoves DEF FirstCredential
<1>5. CASE Send(r)
  <2>1. job[r].tok \in NatOrNone
    BY <1>t DEF JobRecs
  <2>2. PICK t \in NatOrNone :
          IF t = None THEN Ends(r)
          ELSE Only(r, [job[r] EXCEPT !.pc = "upstream", !.tok = t, !.sent = @ + 1])
    BY <1>5, <2>1, CredentialType DEF Send, NatOrNone
  <2> QED BY <1>3, <1>5, <1>w, <1>x, <2>2, JobEnds, RequestMoves DEF Send
<1>6. CASE attemptWithNativeResyncRetry(r)
  <2>1. \/ Ends(r) \/ Only(r, Answered(r))
        \/ Only(r, [job[r] EXCEPT !.pc = "native"]) \/ Only(r, [job[r] EXCEPT !.pc = "reread"])
    BY <1>6 DEF attemptWithNativeResyncRetry
  <2> QED BY <1>6, <1>a, <1>p, <1>s, <1>w, <1>x, <2>1, JobEnds, RequestMoves DEF attemptWithNativeResyncRetry
<1>7. CASE Reread(r)
  <2>1. PICK t \in NatOrNone :
          \/ Only(r, Answered(r))
          \/ Only(r, [job[r] EXCEPT !.pc = "send", !.tok = t])
    BY <1>7, CredentialType DEF Reread, NatOrNone
  <2> QED BY <1>3, <1>7, <1>a, <1>w, <2>1, RequestMoves DEF Reread
<1>8. CASE Stream(r)
  BY <1>8, <1>p, <1>s, <1>w, RequestMoves DEF Stream
<1>9. CASE Body(r)
  BY <1>9, <1>x, JobEnds DEF Body
<1>10. CASE ClientLeaves(r)
  <2> DEFINE q == [job[r] EXCEPT !.left = TRUE]
  <2>1. /\ q \in JobRecs /\ q.on = job[r].on /\ q.pc = job[r].pc /\ q.nat = job[r].nat
        /\ q.own = job[r].own /\ q.seen = job[r].seen
    BY ONLY <1>t DEF JobRecs, Steps
  <2>2. /\ r \in Jobs /\ job' = [job EXCEPT ![r] = q] /\ px' = px /\ issued' = issued
        /\ job[r].pc \notin {"idle", "done"}
    BY <1>10 DEF ClientLeaves, Only, Jobs, world
  <2> HIDE DEF q
  <2>3. /\ q.pc \in {"owned", "write"} => q.nat \in Nat /\ q.nat <= issued
        /\ q.pc = "write" /\ Parsed(q.own) => q.own.tok <= q.seen
    BY <2>1, <2>2 DEF ServerInv, SeenInv, NatInv
  <2>4. ServerInv'
    BY <2>1, <2>2, <2>3, JobMoves
  <2> QED BY <1>10, <1>w, <2>4 DEF ClientLeaves
<1> QED BY <1>1, <1>2, <1>4, <1>5, <1>6, <1>7, <1>8, <1>9, <1>10

-----------------------------------------------------------------------------
\* The verdict of a resync lets a request go on and ends a command.
LEMMA VerdictKeeps ==
  ASSUME ServerInv, NEW j \in Jobs, NEW b \in BOOLEAN, job[j].pc \in {"native", "owned", "write"},
         job' = Verdict(j, b), px' = px, issued' = issued
  PROVE  ServerInv'
<1> DEFINE v == IF b /\ j \in Reqs
                THEN [job[j] EXCEPT !.nat = None, !.own = None, !.og = None, !.seen = 0, !.pc = "send"]
                ELSE Answered(j)
<1>t. job[j] \in JobRecs
  BY DEF ServerInv, JobType
<1>1. /\ v \in JobRecs /\ v.on = job[j].on /\ v.pc \in {"send", "stream", "done"}
      /\ j \in Reqs => v.pc # "done"
  <2>1. /\ Answered(j) \in JobRecs /\ Answered(j).on = job[j].on
        /\ Answered(j).pc = IF j \in Cmds THEN "done" ELSE "stream"
    BY <1>t DEF Answered, NoJob, JobRecs, Steps, NatOrNone, Copies
  <2> DEFINE q == [job[j] EXCEPT !.nat = None, !.own = None, !.og = None, !.seen = 0, !.pc = "send"]
  <2>2. q \in JobRecs /\ q.on = job[j].on /\ q.pc = "send"
    BY ONLY <1>t DEF JobRecs, Steps, NatOrNone, Copies
  <2> HIDE DEF q
  <2> QED BY <2>1, <2>2, JobsAssumption DEF q
<1>2. job' = [job EXCEPT ![j] = v]
  BY DEF Verdict
<1> HIDE DEF v
<1> QED BY <1>1, <1>2, JobMoves

\* Steps of a resync: what is written is what was compared, and the generation keeps up.
LEMMA ResyncSteps ==
  ASSUME ServerInv, WorldInv, NEW j \in Jobs,
         \/ Command(j) \/ readNativeCredential(j) \/ readOwnedCredential(j) \/ writeOwnedCredential(j)
  PROVE  ServerInv' /\ WorldInv'
<1>t. job[j] \in JobRecs
  BY DEF ServerInv, JobType
<1>w. UNCHANGED world => WorldInv'
  BY DEF world, WorldInv, WorldType, GenInv, TokInv
<1>1. CASE Command(j)
  <2> DEFINE q == [NoJob EXCEPT !.pc = "native"]
  <2>1. q \in JobRecs /\ q.pc = "native" /\ q.on = None
    BY DEF NoJob, JobRecs, Steps, NatOrNone, Copies
  <2> HIDE DEF q
  <2>2. /\ job' = [job EXCEPT ![j] = q] /\ px' = px /\ issued' = issued /\ UNCHANGED world
        /\ j \in Cmds /\ j \notin Reqs /\ job[j].on = None
    BY <1>1, JobsAssumption DEF Command, Only, world, q, ServerInv, OnInv
  <2> QED BY <1>w, <2>1, <2>2, JobMoves
<1>2. CASE readNativeCredential(j)
  <2>1. px' = px /\ UNCHANGED world /\ issued' = issued
    BY <1>2 DEF readNativeCredential, world
  <2>2. CASE job' = Verdict(j, FALSE)
    BY <1>2, <1>w, <2>1, <2>2, VerdictKeeps DEF readNativeCredential
  <2>3. CASE native # None /\ job' = [job EXCEPT ![j].pc = "owned", ![j].nat = native]
    <3> DEFINE q == [job[j] EXCEPT !.pc = "owned", !.nat = native]
    <3>1. native \in Nat /\ native <= issued
      BY <2>3 DEF WorldInv, WorldType, TokInv, NatOrNone
    <3>2. q \in JobRecs /\ q.pc = "owned" /\ q.nat = native /\ q.on = job[j].on
      BY ONLY <1>t, <3>1 DEF JobRecs, Steps, NatOrNone
    <3>3. job' = [job EXCEPT ![j] = q]
      BY <2>3 DEF ServerInv, JobType, JobRecs
    <3> HIDE DEF q
    <3> QED BY <1>2, <1>w, <2>1, <3>1, <3>2, <3>3, JobMoves DEF readNativeCredential
  <2> QED BY <1>2, <2>2, <2>3 DEF readNativeCredential
<1>3. CASE readOwnedCredential(j)
  <2>1. px' = px /\ UNCHANGED world /\ issued' = issued
    BY <1>3 DEF readOwnedCredential, world
  <2>2. CASE job' = Verdict(j, FALSE)
    BY <1>3, <1>w, <2>1, <2>2, VerdictKeeps DEF readOwnedCredential
  <2>3. CASE job' = [job EXCEPT ![j].pc = "write", ![j].og = gen, ![j].own = item, ![j].seen = issued]
    <3> DEFINE q == [job[j] EXCEPT !.pc = "write", !.og = gen, !.own = item, !.seen = issued]
    <3>1. gen \in Nat /\ item \in Copies /\ issued \in Nat
      BY DEF WorldInv, WorldType
    <3>2. /\ q \in JobRecs /\ q.pc = "write" /\ q.nat = job[j].nat /\ q.on = job[j].on
          /\ q.own = item /\ q.seen = issued
      BY ONLY <1>t, <3>1 DEF JobRecs, Steps, NatOrNone
    <3>3. job' = [job EXCEPT ![j] = q]
      BY <2>3 DEF ServerInv, JobType, JobRecs
    <3> HIDE DEF q
    <3>4. job[j].pc = "owned" /\ job[j].nat \in Nat /\ job[j].nat <= issued
      BY <1>3 DEF readOwnedCredential, ServerInv, NatInv
    <3>5. Parsed(item) => item.tok <= issued
      BY DEF WorldInv, TokInv
    <3> QED BY <1>w, <2>1, <3>2, <3>3, <3>4, <3>5, JobMoves
  <2> QED BY <1>3, <2>2, <2>3 DEF readOwnedCredential
<1>4. CASE writeOwnedCredential(j)
  <2>1. /\ px' = px /\ issued' = issued /\ native' = native /\ login' = login /\ tx' = tx /\ tx = None
        /\ job[j].pc = "write"
    BY <1>4 DEF writeOwnedCredential
  <2>2. \E b \in BOOLEAN : job' = Verdict(j, b)
    BY <1>4 DEF writeOwnedCredential
  <2>3. ServerInv'
    BY <2>1, <2>2, VerdictKeeps
  <2>4. CASE ~Fence(j)
    BY <1>4, <2>1, <2>3, <2>4 DEF writeOwnedCredential, WorldInv, WorldType, GenInv, TokInv
  <2>5. CASE Fence(j)
    <3> DEFINE g == IF shared THEN job[j].og + 1 ELSE mergeOwnedGeneration(job[j].own, job[j].og)
    <3>1. item' = [tok |-> job[j].nat, gen |-> g] /\ gen' \in {gen, gen + 1} /\ (gen' = gen + 1 => shared \/ gen' = gen)
      BY <1>4, <2>5 DEF writeOwnedCredential
    <3>2. job[j].og = gen /\ job[j].own = item
      BY <2>5 DEF Fence
    <3>3. gen \in Nat /\ (Parsed(item) => item.gen \in {gen, gen + 1} /\ item.gen \in Nat)
      BY DEF WorldInv, WorldType, GenInv, Items, Copies, Parsed
    <3>4. g \in {gen, gen + 1} /\ g \in Nat /\ (shared => g = gen + 1)
      BY <3>2, <3>3 DEF mergeOwnedGeneration
    <3> HIDE DEF g
    <3>5. job[j].nat \in Nat /\ job[j].nat <= issued
      BY <2>1 DEF ServerInv, NatInv
    <3>6. item' \in Items /\ item'.gen = g /\ item'.tok = job[j].nat
      BY <3>1, <3>4, <3>5 DEF Items
    <3>7. item'.gen \in {gen', gen' + 1}
      BY <3>1, <3>3, <3>4, <3>6
    <3>8. gen' \in Nat
      BY <3>1, <3>3
    <3> QED BY <2>1, <2>3, <3>5, <3>6, <3>7, <3>8 DEF WorldInv, WorldType, GenInv, TokInv, Copies
  <2> QED BY <2>3, <2>4, <2>5
<1> QED BY <1>1, <1>2, <1>3, <1>4

\* Refreshes, logins, migrations and consumption around the proxies.
LEMMA OutsideSteps ==
  ASSUME ServerInv, WorldInv,
         \/ NativeRefresh \/ RefreshWrites \/ RefreshCommits \/ RefreshDies \/ Repair
         \/ MigrationMoves \/ ConsumeToggles \/ LoginChanges
  PROVE  ServerInv' /\ WorldInv' /\ UNCHANGED job
<1>t. /\ issued \in Nat /\ gen \in Nat /\ login \in Nat /\ item \in Copies /\ native \in NatOrNone
      /\ Parsed(item) => item.gen \in Nat /\ item.tok \in Nat
  BY DEF WorldInv, WorldType, Items, Copies, Parsed
<1>1. /\ px' = px /\ job' = job /\ issued' \in {issued, issued + 1}
  BY <1>t DEF NativeRefresh, RefreshWrites, RefreshCommits, RefreshDies, Repair, MigrationMoves,
              ConsumeToggles, LoginChanges, Outside, Issue
<1>2. ServerInv'
  <2>1. NatInv'
    BY <1>t, <1>1 DEF ServerInv, NatInv
  <2> QED BY <1>1, <2>1 DEF ServerInv, JobType, PxType, OnInv, SeenInv, CountInv, RequestsCounted,
                            IdleIsTimed, Open
<1>3. WorldInv'
  <2> USE <1>t DEF WorldInv, WorldType, GenInv, TokInv, Outside, Issue, NatOrNone
  <2>1. CASE NativeRefresh
    BY <2>1 DEF NativeRefresh
  <2>2. CASE RefreshWrites
    <3>1. item' = [tok |-> issued + 1, gen |-> gen + 1] /\ issued' = issued + 1
      BY <2>2 DEF RefreshWrites
    <3>2. item' \in Items /\ item'.tok = issued + 1 /\ item'.gen = gen + 1
      BY <3>1 DEF Items
    <3>3. Parsed(item') /\ item' \in Copies
      BY <3>2, NoneAssumption DEF Parsed, Copies
    <3> QED BY <2>2, <3>1, <3>2, <3>3 DEF RefreshWrites
  <2>3. CASE RefreshCommits
    BY <2>3 DEF RefreshCommits
  <2>4. CASE RefreshDies
    BY <2>4 DEF RefreshDies
  <2>5. CASE Repair
    BY <2>5 DEF Repair
  <2>6. CASE MigrationMoves
    BY <2>6 DEF MigrationMoves
  <2>7. CASE ConsumeToggles
    BY <2>7 DEF ConsumeToggles
  <2>8. CASE LoginChanges
    BY <2>8 DEF LoginChanges
  <2> QED BY <2>1, <2>2, <2>3, <2>4, <2>5, <2>6, <2>7, <2>8
<1> QED BY <1>1, <1>2, <1>3

\* The server's own steps touch no credential.
LEMMA ServerFrame ==
  ASSUME ServerInv, NEW p \in Proxies,
         \/ Listen(p) \/ Publish(p) \/ idleExit(p) \/ Signal(p) \/ Die(p) \/ stop(p) \/ SignalAgain(p)
         \/ \E r \in Reqs : handle(r, p)
  PROVE  UNCHANGED world
  BY DEF Listen, Publish, idleExit, Signal, Die, stop, SignalAgain, Leave, Gone, handle

\* Where nothing changes in the stores their invariant stays.
LEMMA WorldFrame == ASSUME WorldInv, UNCHANGED world PROVE WorldInv'
  BY DEF world, WorldInv, WorldType, GenInv, TokInv

\* The invariant is inductive.
LEMMA InvStep == IInv /\ [Next]_vars => IInv'
<1> SUFFICES ASSUME IInv, [Next]_vars PROVE IInv'
  OBVIOUS
<1> USE DEF IInv
<1>1. CASE UNCHANGED vars
  BY <1>1, WorldFrame DEF vars, ServerInv, JobType, PxType, OnInv, SeenInv, NatInv, CountInv,
                               RequestsCounted, IdleIsTimed, Open, world
<1>2. CASE Next
  BY <1>2, ProxySteps, HandleStep, ServerFrame, WorldFrame, RequestSteps, ResyncSteps, OutsideSteps DEF Next
<1> QED BY <1>1, <1>2

\* The fence of writeOwnedCredential: a resync replaces the very copy it compared.
LEMMA RotationStep ==
  ASSUME IInv, [Next]_vars, NEW j \in Jobs, job[j].pc = "write", job'[j].pc # "write", item' # item
  PROVE  ~Parsed(item) \/ item.tok <= job[j].seen
<1>1. ~UNCHANGED world
  BY DEF world
<1>2. ~UNCHANGED job
  OBVIOUS
<1>3. \E i \in Jobs : Command(i) \/ readNativeCredential(i) \/ readOwnedCredential(i) \/ writeOwnedCredential(i)
  BY <1>1, <1>2, ServerFrame, RequestSteps, OutsideSteps DEF IInv, Next, vars
<1>4. PICK i \in Jobs : writeOwnedCredential(i)
  BY <1>1, <1>3 DEF Command, readNativeCredential, readOwnedCredential, Only
<1>5. Fence(i)
  BY <1>4 DEF writeOwnedCredential
<1>6. i = j
  <2>1. \E b \in BOOLEAN : job' = Verdict(i, b)
    BY <1>4 DEF writeOwnedCredential
  <2> QED BY <2>1 DEF Verdict, IInv, ServerInv, JobType
<1> QED BY <1>5, <1>6 DEF Fence, IInv, ServerInv, SeenInv

-----------------------------------------------------------------------------
\* QLB's copy is never behind the database, whichever of refresh and resync wrote it and
\* whichever commit was lost; every request is counted until its handler returns, and a
\* running proxy has its idle timer set exactly when all of them have (one whose client
\* left before the headers never does).
THEOREM ProxySoundHolds == Spec => []ProxySound
<1>1. IInv => ProxySound
  BY DEF IInv, ServerInv, WorldInv, GenInv, CountInv, ProxySound, GenerationInStep
<1> QED BY InvInit, InvStep, <1>1, PTL DEF Spec

\* A native resync never writes over a token that QLB's own refresh obtained after the
\* copies were compared, not even one whose commit was lost.
THEOREM RotationKeptHolds == Spec => RotationKept
<1>1. IInv /\ [Next]_vars =>
        [\A j \in Jobs : job[j].pc = "write" /\ job'[j].pc # "write" /\ item' # item =>
                           ~Parsed(item) \/ item.tok <= job[j].seen]_vars
  BY RotationStep
<1> QED BY InvInit, InvStep, <1>1, PTL DEF Spec, RotationKept

-----------------------------------------------------------------------------
(* The Pi extension: types *)

OwnerFiles == [kind : {"absent", "malformed", "v1"}, providers : {{}}]
                \cup [kind : {"v2"}, providers : SUBSET Ext!Providers]
Readings   == [owner : {"absent", "malformed", "valid"}, marker : BOOLEAN]
Sources    == {"native", "closed", "gate", "conflict", "consume"}
Exts       == [at : {"out", "journal", "register", "inert", "ready"}, loads : Nat,
               rehearsal : {"unset", "0", "1"}, base : Readings \cup {None},
               reg : [Ext!Providers -> Sources], mode : {"inert", "owned", "consume", "conflict"},
               claimed : SUBSET Ext!Providers, consumed : BOOLEAN, started : BOOLEAN]
Tokens     == [acct : {1, 2}, ver : Nat]

\* What the extension meets outside, and what it keeps.
OutsideType ==
  /\ owner \in OwnerFiles /\ journal \in {"NATIVE", "CONSUMED"} /\ marker \in BOOLEAN
  /\ active \in {1, 2} /\ vers \in [{1, 2} -> Nat]
ExtType == ext \in Exts /\ mark \in BOOLEAN

LEMMA OwnerStates ==
  ASSUME NEW o \in OwnerFiles, NEW p \in Ext!Providers
  PROVE  /\ Ext!ownerStateForProvider(o, p) \in {"absent", "malformed", "valid"}
         /\ Ext!ownerStateForProvider(o, p) = "valid" <=>
              \/ o.kind = "v1" /\ p = "anthropic"
              \/ o.kind = "v2" /\ p \in o.providers
         /\ Ext!ownerStateForProvider(o, p) = "malformed" <=> o.kind = "malformed"
  BY DEF OwnerFiles, Ext!ownerStateForProvider

LEMMA LoginType == ASSUME OutsideType PROVE Ext!Login \in Tokens /\ Ext!Login.acct = active
  BY DEF OutsideType, Tokens, Ext!Login

\* A mode is never inert for a provider that the owner file claims or leaves in doubt.
LEMMA ModeOfClaimed ==
  ASSUME OutsideType, NEW p \in Ext!Providers \ {"anthropic"}, NEW h \in {"unset", "0", "1"}
  PROVE  /\ Ext!ModeOf(p, h) \in {"inert", "owned", "conflict"}
         /\ h # "0" => (Ext!ModeOf(p, h) = "inert" <=> p \notin Ext!Claimed(owner))
<1>1. /\ Ext!ownerStateForProvider(owner, p) \in {"absent", "malformed", "valid"}
  BY OwnerStates DEF OutsideType
<1>2. Ext!ModeOf(p, h) \in {"inert", "owned", "conflict"}
  BY <1>1 DEF Ext!ModeOf, Ext!decidePiMode
<1>3. h # "0" => (Ext!ModeOf(p, h) = "inert" <=> p \notin Ext!Claimed(owner))
  BY <1>1 DEF Ext!ModeOf, Ext!decidePiMode, Ext!Claimed
<1> QED BY <1>2, <1>3

\* The mode of Anthropic follows the reading at load and the answer of the CLI.
LEMMA AnthropicMode ==
  ASSUME NEW h \in {"unset", "0", "1"}, NEW b \in Readings, NEW j \in {"NATIVE", "CONSUMED", "unknown"}
  PROVE  LET m == Ext!decidePiMode("anthropic", [rehearsal |-> h, owner |-> b.owner, journal |-> j, marker |-> b.marker])
         IN  /\ m \in {"inert", "owned", "consume", "conflict"}
             /\ h # "0" /\ b.owner # "absent" => m \in {"owned", "conflict"}
             /\ h # "0" /\ j # "NATIVE" => m # "owned"
             /\ h # "0" /\ b.marker => m # "inert"
  BY DEF Readings, Ext!decidePiMode


-----------------------------------------------------------------------------
(* The Pi extension: consume commands, loading, the sentinel *)

\* CONSUMED stands with its marker, and, unless an enable crossed a migration, without a claim.
ConsumeInv ==
  /\ ~overlap =>
       /\ journal = "CONSUMED" \/ "enable" \in pend => marker
       /\ "disable" \in pend => journal = "NATIVE" /\ "enable" \notin pend
  /\ ~dual /\ journal = "CONSUMED" => Ext!ownerStateForProvider(owner, "anthropic") = "absent"

\* What a load has read is not contradicted by what held during all of it.
Loading == {"journal", "register", "inert"}
Whole == ext.at \in Loading => ext.claimed \subseteq Ext!Claimed(owner) /\ (ext.consumed => journal = "CONSUMED")
Doubted == "anthropic" \in ext.claimed \/ (ext.consumed /\ ~overlap)
Early ==
  ext.at # "out" /\ ext.rehearsal # "0" =>
    /\ "kimi-coding" \in ext.claimed => ext.reg["kimi-coding"] # "native"
    /\ "openrouter" \in ext.claimed /\ ~Ext!blocked => ext.reg["openrouter"] # "native"
Reading ==
  /\ ext.at \in Loading => (ext.base = None <=> ext.rehearsal = "0")
  /\ ext.at \in {"journal", "register"} => ext.rehearsal # "0"
  /\ ext.at \in Loading /\ ext.rehearsal # "0" =>
       /\ "anthropic" \in ext.claimed => ext.base.owner # "absent"
       /\ ext.consumed /\ ~overlap => ext.base.marker
  /\ ext.at = "inert" => ext.mode = "inert" /\ (ext.rehearsal # "0" => ext.base.owner = "absent" /\ ~ext.base.marker)
Decided ==
  ext.at = "register" =>
    /\ "anthropic" \in ext.claimed => ext.mode \in {"owned", "conflict"}
    /\ ext.consumed /\ ~overlap => ext.mode \in {"consume", "conflict"}
LoadInv == Whole /\ Early /\ Reading /\ Decided
FailsClosed == Ext!ClaimedIsReplaced /\ Ext!ConsumedFailsClosed

\* The mark says whether Pi has QLB's sentinel.
SentinelInv ==
  /\ mark <=> "anthropic" \in sentinel
  /\ ext.at # "ready" => ~ext.started
  /\ Ext!SentinelMatchesMode

ExtInv == OutsideType /\ ExtType /\ ConsumeInv /\ LoadInv /\ FailsClosed /\ SentinelInv

\* A step of the extension leaves what is outside alone.
LEMMA ExtensionStep ==
  ASSUME ExtInv, UNCHANGED Ext!env
  PROVE  OutsideType' /\ ConsumeInv' /\ Ext!Claimed(owner)' = Ext!Claimed(owner)
  BY DEF ExtInv, Ext!env, OutsideType, ConsumeInv, Ext!ownerStateForProvider, Ext!Claimed

LEMMA NoExtType == Ext!NoExt \in Exts /\ Ext!NoExt.at = "out" /\ ~Ext!NoExt.started
  BY DEF Ext!NoExt, Exts, Sources, Readings

LEMMA InitExt == Ext!Init => ExtInv
<1> SUFFICES ASSUME Ext!Init PROVE ExtInv
  OBVIOUS
<1>1. OutsideType
  <2>1. owner \in OwnerFiles
    BY OwnersAssumption DEF Ext!Init, OwnerFiles, Ext!Providers
  <2>2. vers \in [{1, 2} -> Nat]
    BY DEF Ext!Init
  <2> QED BY <2>1, <2>2 DEF Ext!Init, OutsideType
<1>2. PICK h \in {"unset", "0", "1"} : ext = [Ext!NoExt EXCEPT !.rehearsal = h]
  BY DEF Ext!Init
<1>3. ext \in Exts /\ ext.at = "out" /\ ~ext.started
  BY <1>2, NoExtType DEF Exts
<1>4. ExtType /\ ConsumeInv
  BY <1>3 DEF Ext!Init, ExtType, ConsumeInv
<1>5. LoadInv /\ FailsClosed
  BY <1>3 DEF LoadInv, Whole, Early, Reading, Decided, Loading, FailsClosed, Ext!ClaimedIsReplaced, Ext!ConsumedFailsClosed
<1>6. SentinelInv
  BY <1>3 DEF Ext!Init, SentinelInv, Ext!SentinelMatchesMode
<1> HIDE DEF Ext!Init
<1> QED BY <1>1, <1>4, <1>5, <1>6 DEF ExtInv

LEMMA LoadStartStep == ASSUME ExtInv, Ext!LoadStart PROVE ExtInv'
<1> DEFINE h == ext.rehearsal
           b == IF h = "0" THEN None
                ELSE [owner |-> Ext!ownerStateForProvider(owner, "anthropic"), marker |-> marker]
<1>1. h \in {"unset", "0", "1"} /\ ext.loads \in Nat /\ ext \in Exts
  BY DEF ExtInv, ExtType, Exts
<1>2. Ext!ownerStateForProvider(owner, "anthropic") \in {"absent", "malformed", "valid"}
  BY OwnerStates DEF ExtInv, OutsideType, Ext!Providers
<1>3. b \in Readings \cup {None} /\ (b = None <=> h = "0")
  BY <1>2, NoneIsNoReading DEF Readings, ExtInv, OutsideType
<1>4. Ext!KimiSource(h) \in Sources /\ Ext!registerOpenRouterSource(h) \in Sources
  BY DEF Ext!KimiSource, Ext!registerOpenRouterSource, Sources
<1>5. /\ ext'.at = IF b # None /\ ~Ext!canSkipJournal(h, b) THEN "journal" ELSE "inert"
      /\ ext'.loads = ext.loads + 1 /\ ext'.rehearsal = h /\ ext'.base = b /\ ext'.mode = "inert"
      /\ ext'.claimed = Ext!Claimed(owner) /\ ext'.consumed = (journal = "CONSUMED") /\ ext'.started = FALSE
      /\ ext'.reg = [[Ext!NoExt.reg EXCEPT !["kimi-coding"] = Ext!KimiSource(h)]
                       EXCEPT !["openrouter"] = Ext!registerOpenRouterSource(h)]
      /\ ext' = [at |-> ext'.at, loads |-> ext'.loads, rehearsal |-> ext'.rehearsal, base |-> ext'.base,
                 reg |-> ext'.reg, mode |-> ext'.mode, claimed |-> ext'.claimed, consumed |-> ext'.consumed,
                 started |-> ext'.started]
  BY DEF Ext!LoadStart, Ext!NoExt
<1>6. ext'.reg \in [Ext!Providers -> Sources]
  BY <1>4, <1>5 DEF Ext!NoExt, Ext!Providers, Sources
<1>7. ext' \in Exts
  <2>1. Ext!Claimed(owner) \in SUBSET Ext!Providers /\ (journal = "CONSUMED") \in BOOLEAN
    BY DEF Ext!Claimed
  <2> HIDE DEF h, b
  <2>2. ext'.at \in {"journal", "inert"}
    BY <1>5
  <2>3. /\ ext'.rehearsal \in {"unset", "0", "1"} /\ ext'.base \in Readings \cup {None}
        /\ ext'.mode = "inert" /\ ext'.claimed \in SUBSET Ext!Providers /\ ext'.started \in BOOLEAN
    BY <1>1, <1>3, <1>5, <2>1, Zenon
  <2>6. ext'.loads \in Nat
    BY <1>1, <1>5
  <2>5. ext'.consumed \in BOOLEAN
    BY <1>5, <2>1, Zenon
  <2>4. ext' = [at |-> ext'.at, loads |-> ext'.loads, rehearsal |-> ext'.rehearsal, base |-> ext'.base,
                reg |-> ext'.reg, mode |-> ext'.mode, claimed |-> ext'.claimed, consumed |-> ext'.consumed,
                started |-> ext'.started]
    BY <1>5
  <2> QED BY <1>6, <2>2, <2>3, <2>4, <2>5, <2>6 DEF Exts
<1>8. UNCHANGED Ext!env /\ sentinel' = sentinel /\ mark' = mark /\ host' = host /\ ext.at = "out"
  BY DEF Ext!LoadStart
<1>9. ext'.reg["kimi-coding"] = Ext!KimiSource(h) /\ ext'.reg["openrouter"] = Ext!registerOpenRouterSource(h)
  BY <1>5 DEF Ext!NoExt, Ext!Providers
<1>10. OutsideType' /\ ConsumeInv' /\ Ext!Claimed(owner)' = Ext!Claimed(owner)
  BY <1>8, ExtensionStep
<1>11. Early'
  <2>1. ASSUME h # "0", "kimi-coding" \in Ext!Claimed(owner) PROVE Ext!KimiSource(h) # "native"
    BY <2>1, <1>1, ModeOfClaimed DEF Ext!KimiSource, ExtInv, Ext!Providers
  <2>2. ASSUME h # "0", "openrouter" \in Ext!Claimed(owner), ~Ext!blocked PROVE Ext!registerOpenRouterSource(h) # "native"
    BY <2>2, <1>1, ModeOfClaimed DEF Ext!registerOpenRouterSource, ExtInv, Ext!Providers
  <2> QED BY <2>1, <2>2, <1>5, <1>8, <1>9 DEF Early, Ext!blocked
<1>12. Whole'
  BY <1>5, <1>8, <1>10 DEF Whole, Ext!env
<1>13. Reading'
  <2>1. h # "0" => b.owner = Ext!ownerStateForProvider(owner, "anthropic") /\ b.marker = marker
    OBVIOUS
  <2>2. "anthropic" \in Ext!Claimed(owner) => Ext!ownerStateForProvider(owner, "anthropic") # "absent"
    BY DEF Ext!Claimed
  <2>3. journal = "CONSUMED" /\ ~overlap => marker
    BY DEF ExtInv, ConsumeInv
  <2>4. b # None /\ Ext!canSkipJournal(h, b) => b.owner = "absent" /\ ~b.marker
    BY DEF Ext!canSkipJournal
  <2> HIDE DEF b, h
  <2> QED BY <1>3, <1>5, <1>8, <2>1, <2>2, <2>3, <2>4 DEF Reading, Loading, Ext!env
<1>14. Decided' /\ FailsClosed'
  BY <1>5 DEF Decided, FailsClosed, Ext!ClaimedIsReplaced, Ext!ConsumedFailsClosed
<1>15. SentinelInv'
  BY <1>5, <1>8 DEF ExtInv, SentinelInv, Ext!SentinelMatchesMode
<1> QED BY <1>7, <1>8, <1>10, <1>11, <1>12, <1>13, <1>14, <1>15 DEF ExtInv, ExtType, LoadInv

LEMMA LoadJournalStep == ASSUME ExtInv, Ext!LoadJournal PROVE ExtInv'
<1>1. PICK j \in {journal, "unknown"} :
        ext' = [ext EXCEPT !.at = "register", !.mode =
          Ext!decidePiMode("anthropic", [rehearsal |-> ext.rehearsal, owner |-> ext.base.owner,
                                         journal |-> j, marker |-> ext.base.marker])]
  BY DEF Ext!LoadJournal, Ext!StatusAnswers
<1> DEFINE m == Ext!decidePiMode("anthropic", [rehearsal |-> ext.rehearsal, owner |-> ext.base.owner,
                                               journal |-> j, marker |-> ext.base.marker])
<1>2. ext.at = "journal" /\ ext \in Exts /\ ext.base \in Readings /\ ext.rehearsal \in {"unset", "1"}
      /\ j \in {"NATIVE", "CONSUMED", "unknown"}
  BY DEF Ext!LoadJournal, ExtInv, ExtType, LoadInv, Reading, Loading, Exts, OutsideType
<1>3. /\ m \in {"inert", "owned", "consume", "conflict"}
      /\ ext.base.owner # "absent" => m \in {"owned", "conflict"}
      /\ j # "NATIVE" => m # "owned"
      /\ ext.base.marker => m # "inert"
  BY <1>2, AnthropicMode
<1>4. /\ ext' \in Exts /\ ext' = [ext EXCEPT !.at = "register", !.mode = m]
      /\ ext'.at = "register" /\ ext'.mode = m /\ ext'.reg = ext.reg /\ ext'.claimed = ext.claimed
      /\ ext'.consumed = ext.consumed /\ ext'.base = ext.base /\ ext'.rehearsal = ext.rehearsal
      /\ ext'.started = ext.started
  BY <1>1, <1>2, <1>3 DEF Exts
<1> HIDE DEF m
<1>5. UNCHANGED Ext!env /\ sentinel' = sentinel /\ mark' = mark /\ host' = host
  BY DEF Ext!LoadJournal
<1>6. OutsideType' /\ ConsumeInv' /\ Ext!Claimed(owner)' = Ext!Claimed(owner)
  BY <1>5, ExtensionStep
<1>7. Whole' /\ Early' /\ Reading'
  BY <1>2, <1>4, <1>5, <1>6 DEF ExtInv, LoadInv, Whole, Early, Reading, Loading, Ext!env, Ext!blocked
<1>8. Decided'
  <2>1. ext.consumed => j # "NATIVE"
    BY <1>1, <1>2 DEF ExtInv, LoadInv, Whole, Loading
  <2> QED BY <1>2, <1>3, <1>4, <1>5, <2>1 DEF ExtInv, LoadInv, Reading, Decided, Loading, Ext!env
<1>9. FailsClosed' /\ SentinelInv'
  BY <1>2, <1>4, <1>5 DEF ExtInv, FailsClosed, Ext!ClaimedIsReplaced, Ext!ConsumedFailsClosed, SentinelInv, Ext!SentinelMatchesMode
<1> QED BY <1>4, <1>5, <1>6, <1>7, <1>8, <1>9 DEF ExtInv, ExtType, LoadInv


LEMMA LoadEndStep == ASSUME ExtInv, Ext!LoadEnd PROVE ExtInv'
<1> DEFINE on == ext.base # None
           x == IF on /\ Ext!ModeOf("xai", ext.rehearsal) # "inert" THEN Ext!registerOwned("xai") ELSE "native"
           c == IF on /\ Ext!qlbOwnsProvider THEN Ext!registerOwned("openai-codex") ELSE "native"
           a == Ext!AnthropicSource(ext.mode)
<1>1. ext.at \in {"register", "inert"} /\ ext \in Exts /\ ext.reg \in [Ext!Providers -> Sources]
  BY DEF Ext!LoadEnd, ExtInv, ExtType, Exts
<1>2. x \in Sources /\ c \in Sources /\ a \in Sources
  BY <1>1 DEF Ext!registerOwned, Ext!AnthropicSource, Sources, Exts
<1>3. ext' = [ext EXCEPT !.at = "ready", !.reg["xai"] = x, !.reg["openai-codex"] = c, !.reg["anthropic"] = a]
  BY DEF Ext!LoadEnd
<1> HIDE DEF x, c, a
<1>4. /\ ext' \in Exts /\ ext'.at = "ready" /\ ext'.claimed = ext.claimed /\ ext'.consumed = ext.consumed
      /\ ext'.rehearsal = ext.rehearsal /\ ext'.started = ext.started /\ ext'.base = ext.base
      /\ ext'.reg \in [Ext!Providers -> Sources]
      /\ ext'.reg["xai"] = x /\ ext'.reg["openai-codex"] = c /\ ext'.reg["anthropic"] = a
      /\ ext'.reg["kimi-coding"] = ext.reg["kimi-coding"] /\ ext'.reg["openrouter"] = ext.reg["openrouter"]
  <2>1. ext' = [ext EXCEPT !.at = "ready",
                  !.reg = [[[ext.reg EXCEPT !["xai"] = x] EXCEPT !["openai-codex"] = c] EXCEPT !["anthropic"] = a]]
    BY <1>1, <1>3 DEF Exts
  <2>2. [[[ext.reg EXCEPT !["xai"] = x] EXCEPT !["openai-codex"] = c] EXCEPT !["anthropic"] = a]
          \in [Ext!Providers -> Sources]
    BY <1>1, <1>2
  <2> QED BY <1>1, <2>1, <2>2 DEF Exts, Ext!Providers
<1>5. UNCHANGED Ext!env /\ sentinel' = sentinel /\ mark' = mark /\ host' = host
  BY DEF Ext!LoadEnd
<1>6. OutsideType' /\ ConsumeInv'
  BY <1>5, ExtensionStep
<1>7. LoadInv'
  BY <1>1, <1>4, <1>5 DEF ExtInv, LoadInv, Whole, Early, Reading, Decided, Loading, Ext!env, Ext!blocked
<1>8. Ext!ClaimedIsReplaced'
  <2> SUFFICES ASSUME ext.rehearsal # "0", NEW p \in Ext!Providers, p \in ext.claimed,
                      p = "openrouter" => ~Ext!blocked, p = "anthropic" => Ext!compat
               PROVE  ext'.reg[p] # "native"
    BY <1>4, <1>5 DEF Ext!ClaimedIsReplaced, Ext!blocked, Ext!compat
  <2>1. on /\ p \in Ext!Claimed(owner) /\ ext.rehearsal \in {"unset", "0", "1"}
    BY <1>1 DEF ExtInv, LoadInv, Whole, Reading, Loading, Exts
  <2>2. CASE p \in {"kimi-coding", "openrouter"}
    BY <2>2, <1>1, <1>4 DEF ExtInv, LoadInv, Early
  <2>3. CASE p = "xai"
    <3>1. Ext!ModeOf("xai", ext.rehearsal) # "inert"
      BY <2>1, <2>3, ModeOfClaimed DEF ExtInv, Ext!Providers
    <3> QED BY <1>4, <2>1, <2>3, <3>1 DEF x, Ext!registerOwned
  <2>4. CASE p = "openai-codex"
    <3>1. Ext!qlbOwnsProvider
      BY <2>1, <2>4, OwnerStates DEF Ext!qlbOwnsProvider, Ext!Claimed, ExtInv, OutsideType, Ext!Providers
    <3> QED BY <1>4, <2>1, <2>4, <3>1 DEF c, Ext!registerOwned
  <2>5. CASE p = "anthropic"
    <3>1. ext.at = "register" /\ ext.mode \in {"owned", "conflict"}
      BY <1>1, <2>5 DEF ExtInv, LoadInv, Reading, Decided, Loading
    <3> QED BY <1>4, <2>5, <3>1 DEF a, Ext!AnthropicSource
  <2> QED BY <2>2, <2>3, <2>4, <2>5 DEF Ext!Providers
<1>9. Ext!ConsumedFailsClosed'
  <2> SUFFICES ASSUME ext.rehearsal # "0", ext.consumed, ~overlap PROVE ext'.reg["anthropic"] # "native"
    BY <1>4, <1>5 DEF Ext!ConsumedFailsClosed, Ext!env
  <2>1. ext.mode \in {"consume", "conflict"}
    BY <1>1 DEF ExtInv, LoadInv, Reading, Decided, Loading
  <2> QED BY <1>4, <2>1 DEF a, Ext!AnthropicSource
<1>10. SentinelInv'
  BY <1>1, <1>4, <1>5 DEF ExtInv, SentinelInv, Ext!SentinelMatchesMode
<1> QED BY <1>4, <1>5, <1>6, <1>7, <1>8, <1>9, <1>10 DEF ExtInv, ExtType, FailsClosed

LEMMA SessionSteps ==
  ASSUME ExtInv, Ext!SessionStart \/ Ext!SessionShutdown \/ Ext!Reload
  PROVE  ExtInv'
<1>1. ext \in Exts /\ ext.at = "ready" /\ UNCHANGED Ext!env /\ host' = host
  BY DEF Ext!SessionStart, Ext!SessionShutdown, Ext!Reload, ExtInv, ExtType
<1>2. OutsideType' /\ ConsumeInv'
  BY <1>1, ExtensionStep
<1>3. CASE Ext!SessionStart \/ Ext!SessionShutdown
  <2>1. PICK b \in BOOLEAN : ext' = [ext EXCEPT !.started = b]
    BY <1>3 DEF Ext!SessionStart, Ext!SessionShutdown
  <2>2. /\ ext' \in Exts /\ ext'.at = "ready" /\ ext'.reg = ext.reg /\ ext'.claimed = ext.claimed
        /\ ext'.consumed = ext.consumed /\ ext'.rehearsal = ext.rehearsal /\ ext'.started = b
    BY <1>1, <2>1 DEF Exts
  <2>3. LoadInv' /\ FailsClosed'
    BY <1>1, <2>2 DEF ExtInv, LoadInv, Whole, Early, Reading, Decided, Loading, FailsClosed, Ext!ClaimedIsReplaced,
                      Ext!ConsumedFailsClosed, Ext!env, Ext!blocked, Ext!compat
  <2>4. SentinelInv' /\ mark' \in BOOLEAN
    <3>1. CASE Ext!SessionStart
      BY <1>1, <2>1, <2>2, <3>1 DEF Ext!SessionStart, Ext!Without, ExtInv, SentinelInv, Ext!SentinelMatchesMode, ExtType, Exts
    <3>2. CASE Ext!SessionShutdown
      BY <1>1, <2>1, <2>2, <3>2 DEF Ext!SessionShutdown, Ext!Without, ExtInv, SentinelInv, Ext!SentinelMatchesMode, ExtType, Exts
    <3> QED BY <1>3, <3>1, <3>2
  <2> QED BY <1>2, <2>2, <2>3, <2>4 DEF ExtInv, ExtType
<1>4. CASE Ext!Reload
  <2>1. /\ ext' \in Exts /\ ext'.at = "out" /\ ~ext'.started /\ sentinel' = sentinel /\ mark' = mark
    BY <1>1, <1>4, NoExtType DEF Ext!Reload, Exts
  <2>2. LoadInv' /\ FailsClosed' /\ SentinelInv'
    BY <2>1 DEF ExtInv, LoadInv, Whole, Early, Reading, Decided, Loading, FailsClosed, Ext!ClaimedIsReplaced,
                Ext!ConsumedFailsClosed, SentinelInv, Ext!SentinelMatchesMode
  <2> QED BY <1>2, <2>1, <2>2 DEF ExtInv, ExtType
<1> QED BY <1>3, <1>4

\* Requests change nothing that these parts speak of.
LEMMA ExtFrame ==
  ASSUME ExtInv, UNCHANGED Ext!env, UNCHANGED <<host, ext, sentinel, mark>>
  PROVE  ExtInv'
<1>1. OutsideType' /\ ConsumeInv' /\ Ext!Claimed(owner)' = Ext!Claimed(owner)
  BY ExtensionStep
<1>2. journal' = journal /\ overlap' = overlap
  BY DEF Ext!env
<1>3. ExtType' /\ LoadInv'
  BY <1>1, <1>2 DEF ExtInv, ExtType, LoadInv, Whole, Early, Reading, Decided, Loading, Ext!blocked
<1>4. FailsClosed' /\ SentinelInv'
  BY <1>2 DEF ExtInv, FailsClosed, Ext!ClaimedIsReplaced, Ext!ConsumedFailsClosed, SentinelInv, Ext!SentinelMatchesMode,
              Ext!blocked, Ext!compat
<1> QED BY <1>1, <1>3, <1>4 DEF ExtInv


-----------------------------------------------------------------------------
(* The Pi extension: requests *)

Ended    == {"unavailable", "ok", "failed", "aborted", "error"}
Accts    == {1, 2, "cswap-active", None}
Requests == [pc : {"idle", "journal", "read", "gate", "stream", "resync"} \cup Ended,
             prov : Ext!Providers \cup {None}, kind : {"consume", "gate", "closed", "conflict", None},
             tok : Tokens \cup {None}, acct : Accts, sent : Seq(Tokens \cup {"token"}),
             rec : [acct : Accts, outcome : {"ok", "failed"}] \cup {None}, ok : BOOLEAN]

\* One or two tokens, and not the same twice.
Chain(s) == s \in Seq(Tokens) /\ Len(s) \in {1, 2} /\ (Len(s) = 2 => s[1] # s[2])
\* What was sent, on which account, and what a retry starts from.
Sends(q) ==
  /\ q.pc \in {"idle", "journal", "read", "gate"} => q.sent = <<>>
  /\ q.sent \in {<<>>, <<"token">>} \/ Chain(q.sent)
  /\ q.kind = "gate" /\ q.acct # None => \A i \in DOMAIN q.sent : q.sent[i].acct = q.acct
  /\ q.rec # None => q.pc \in Ended /\ q.rec.acct = q.acct /\ q.acct # None
  /\ q.pc \in {"journal", "read"} => q.kind = "consume"
  /\ q.pc = "gate" => q.kind = "gate" /\ q.acct = None
  /\ q.pc = "resync" => q.prov = "anthropic" /\ Len(q.sent) = 1
  /\ q.pc \in {"stream", "resync"} /\ q.prov = "anthropic" =>
       /\ Chain(q.sent) /\ q.tok = q.sent[Len(q.sent)]
       /\ q.kind = "gate" => q.tok.acct = q.acct

\* What entitles it.
Entitles(q) ==
  /\ q.kind = "consume" /\ (q.sent # <<>> \/ q.pc \in {"read", "stream", "resync"}) => q.ok \/ dual
  /\ q.kind = "consume" /\ q.pc = "journal" /\ journal = "CONSUMED" => q.ok \/ dual
  /\ q.kind # "consume" /\ q.pc # "idle" => q.ok \/ (q.sent = <<>> /\ q.pc = "unavailable")

RqInv == rq \in [PiReqs -> Requests] /\ \A r \in PiReqs : Sends(rq[r]) /\ Entitles(rq[r])

LEMMA NoReqType == Ext!NoReq \in Requests /\ Sends(Ext!NoReq) /\ Entitles(Ext!NoReq)
  BY DEF Ext!NoReq, Requests, Accts, Sends, Entitles

LEMMA FreshType ==
  ASSUME NEW p, NEW k, NEW c
  PROVE  LET o == Ext!Entitled(k, p)
         IN  Ext!Fresh(p, k, c) = [pc |-> c, prov |-> p, kind |-> k, tok |-> None, acct |-> None, sent |-> <<>>,
                                   rec |-> None, ok |-> o]
<1> DEFINE o == Ext!Entitled(k, p)
<1>1. Ext!Fresh(p, k, c) = [Ext!NoReq EXCEPT !.pc = c, !.prov = p, !.kind = k, !.ok = o]
  BY DEF Ext!Fresh
<1> HIDE DEF o
<1>2. Ext!Fresh(p, k, c) = [pc |-> c, prov |-> p, kind |-> k, tok |-> None, acct |-> None, sent |-> <<>>,
                            rec |-> None, ok |-> o]
  BY <1>1 DEF Ext!NoReq
<1> QED BY <1>2 DEF o

LEMMA InitRq == Ext!Init => RqInv
  BY NoReqType DEF Ext!Init, RqInv

\* A request goes on.
LEMMA PiRequestMoves ==
  ASSUME ExtInv, RqInv, NEW r \in PiReqs, NEW q \in Requests, Ext!Step(r, q), Sends(q), Entitles(q)
  PROVE  ExtInv' /\ RqInv'
<1>1. UNCHANGED Ext!env /\ UNCHANGED <<host, ext, sentinel, mark>> /\ rq' = [rq EXCEPT ![r] = q]
  BY DEF Ext!Step
<1>2. dual' = dual /\ journal' = journal
  BY <1>1 DEF Ext!env
<1>3. rq' \in [PiReqs -> Requests] /\ \A s \in PiReqs : rq'[s] = IF s = r THEN q ELSE rq[s]
  BY <1>1 DEF RqInv
<1>4. RqInv'
  BY <1>2, <1>3 DEF RqInv, Sends, Entitles
<1> QED BY <1>1, <1>4, ExtFrame

\* A request ends.
LEMMA RequestEnds ==
  ASSUME ExtInv, RqInv, NEW r \in PiReqs, NEW e \in Ended, Ext!Finish(r, e), rq[r].pc \notin Ended \cup {"idle"}
  PROVE  ExtInv' /\ RqInv'
<1> DEFINE q == [rq[r] EXCEPT !.pc = e, !.tok = None,
                   !.rec = IF rq[r].acct = None THEN None
                           ELSE [acct |-> rq[r].acct, outcome |-> IF e = "ok" THEN "ok" ELSE "failed"]]
<1>1. Ext!Step(r, q)
  BY DEF Ext!Finish
<1>2. rq[r] \in Requests /\ Sends(rq[r]) /\ Entitles(rq[r])
  BY DEF RqInv
<1>3. /\ q \in Requests
      /\ q.pc = e /\ q.kind = rq[r].kind /\ q.sent = rq[r].sent /\ q.acct = rq[r].acct /\ q.ok = rq[r].ok
      /\ q.rec # None => q.rec.acct = q.acct /\ q.acct # None
  BY <1>2 DEF Requests, Ended
<1> HIDE DEF q
<1>4. Sends(q) /\ Entitles(q)
  BY <1>2, <1>3 DEF Sends, Entitles, Ended
<1> QED BY <1>1, <1>3, <1>4, PiRequestMoves

\* A request begins.
LEMMA RequestBegins ==
  ASSUME ExtInv, RqInv, NEW r \in PiReqs, NEW p \in Ext!Providers, NEW k \in {"consume", "gate", "closed", "conflict"},
         NEW c \in {"journal", "gate", "unavailable"}, NEW a \in {"cswap-active", None},
         Ext!Step(r, [Ext!Fresh(p, k, c) EXCEPT !.acct = a]),
         c = "gate" => k = "gate", k # "consume" => c # "journal" /\ a = None,
         k = "gate" /\ p = "kimi-coding" /\ c = "gate" => Ext!ownerStateForProvider(owner, p) # "absent",
         c = "journal" => Ext!ownerStateForProvider(owner, p) = "absent"
  PROVE  ExtInv' /\ RqInv'
<1> DEFINE q == [Ext!Fresh(p, k, c) EXCEPT !.acct = a]
<1>1. /\ q.pc = c /\ q.prov = p /\ q.kind = k /\ q.tok = None /\ q.acct = a /\ q.sent = <<>> /\ q.rec = None
      /\ q.ok = Ext!Entitled(k, p)
      /\ q = [pc |-> c, prov |-> p, kind |-> k, tok |-> None, acct |-> a, sent |-> <<>>, rec |-> None,
              ok |-> Ext!Entitled(k, p)]
  BY FreshType
<1>2. Ext!Entitled(k, p) \in BOOLEAN
  BY DEF Ext!Entitled
<1>3. /\ k = "consume" => (Ext!Entitled(k, p) <=> journal = "CONSUMED" /\ Ext!ownerStateForProvider(owner, p) = "absent")
      /\ k = "gate" /\ p = "kimi-coding" => (Ext!Entitled(k, p) <=> Ext!ownerStateForProvider(owner, p) # "absent")
      /\ k # "consume" /\ ~(k = "gate" /\ p = "kimi-coding") => Ext!Entitled(k, p)
  BY DEF Ext!Entitled
<1> HIDE DEF q
<1>4. q \in Requests
  BY <1>1, <1>2 DEF Requests, Accts, Ended
<1>5. Sends(q)
  BY <1>1 DEF Sends
<1>6. Entitles(q)
  BY <1>1, <1>3 DEF Entitles
<1> QED BY <1>4, <1>5, <1>6, PiRequestMoves DEF q


LEMMA BeginSteps ==
  ASSUME ExtInv, RqInv, NEW r \in PiReqs, NEW p \in Ext!Providers,
         Ext!StubAnswers(r, p) \/ Ext!BeginGate(r, p) \/ Ext!BeginConsume(r)
  PROVE  ExtInv' /\ RqInv'
<1>1. CASE Ext!StubAnswers(r, p)
  <2>1. PICK k \in {"closed", "conflict"} : Ext!Step(r, Ext!Fresh(p, k, "unavailable"))
    BY <1>1 DEF Ext!StubAnswers
  <2>2. Ext!Fresh(p, k, "unavailable") = [Ext!Fresh(p, k, "unavailable") EXCEPT !.acct = None]
    BY FreshType
  <2> QED BY <2>1, <2>2, RequestBegins
<1>2. CASE Ext!BeginGate(r, p)
  <2> DEFINE c == IF p = "kimi-coding" /\ Ext!ModeOf(p, ext.rehearsal) = "inert" THEN "unavailable" ELSE "gate"
  <2>1. Ext!Step(r, Ext!Fresh(p, "gate", c))
    BY <1>2 DEF Ext!BeginGate
  <2>2. Ext!Fresh(p, "gate", c) = [Ext!Fresh(p, "gate", c) EXCEPT !.acct = None]
    BY FreshType
  <2>3. p = "kimi-coding" /\ c = "gate" => Ext!ownerStateForProvider(owner, p) # "absent"
    <3> SUFFICES ASSUME p = "kimi-coding", Ext!ModeOf(p, ext.rehearsal) # "inert"
                 PROVE  Ext!ownerStateForProvider(owner, p) # "absent"
      OBVIOUS
    <3> QED BY DEF Ext!ModeOf, Ext!decidePiMode
  <2>4. c \in {"unavailable", "gate"}
    OBVIOUS
  <2> HIDE DEF c
  <2> QED BY <2>1, <2>2, <2>3, <2>4, RequestBegins
<1>3. CASE Ext!BeginConsume(r)
  <2> DEFINE c == IF Ext!ownerStateForProvider(owner, "anthropic") = "absent" THEN "journal" ELSE "unavailable"
  <2>1. Ext!Step(r, [Ext!Fresh("anthropic", "consume", c) EXCEPT !.acct = "cswap-active"])
    BY <1>3 DEF Ext!BeginConsume
  <2>2. c \in {"journal", "unavailable"} /\ (c = "journal" => Ext!ownerStateForProvider(owner, "anthropic") = "absent")
    OBVIOUS
  <2> HIDE DEF c
  <2> QED BY <2>1, <2>2, RequestBegins DEF Ext!Providers
<1> QED BY <1>1, <1>2, <1>3

LEMMA CheckJournalStep ==
  ASSUME ExtInv, RqInv, NEW r \in PiReqs, Ext!CheckJournal(r)
  PROVE  ExtInv' /\ RqInv'
<1>1. CASE Ext!Finish(r, "unavailable")
  BY <1>1, RequestEnds DEF Ext!CheckJournal, Ended
<1>2. CASE journal = "CONSUMED" /\ Ext!Step(r, [rq[r] EXCEPT !.pc = "read"])
  <2> DEFINE q == [rq[r] EXCEPT !.pc = "read"]
  <2>1. rq[r] \in Requests /\ rq[r].pc = "journal" /\ Sends(rq[r]) /\ Entitles(rq[r])
    BY DEF Ext!CheckJournal, RqInv
  <2>2. /\ q \in Requests /\ q.pc = "read" /\ q.sent = rq[r].sent /\ q.kind = rq[r].kind /\ q.acct = rq[r].acct
        /\ q.rec = rq[r].rec /\ q.ok = rq[r].ok
    BY <2>1 DEF Requests
  <2> HIDE DEF q
  <2>3. Sends(q)
    BY <2>1, <2>2 DEF Sends, Ended
  <2>4. Entitles(q)
    BY <2>1, <2>2, <1>2 DEF Sends, Entitles
  <2> QED BY <1>2, <2>2, <2>3, <2>4, PiRequestMoves DEF q
<1> QED BY <1>1, <1>2 DEF Ext!CheckJournal, Ext!StatusAnswers

\* Its first token is sent.
LEMMA RequestServed ==
  ASSUME ExtInv, RqInv, NEW r \in PiReqs, rq[r].pc \in {"read", "gate"}, NEW t \in Tokens, NEW q \in Requests,
         Ext!Step(r, q), q.pc = "stream", q.tok = t, q.sent = <<t>>, q.prov = rq[r].prov, q.kind = rq[r].kind,
         q.rec = rq[r].rec, q.ok = rq[r].ok, q.kind = "gate" => q.acct = t.acct
  PROVE  ExtInv' /\ RqInv'
<1>1. rq[r] \in Requests /\ Sends(rq[r]) /\ Entitles(rq[r])
  BY DEF RqInv
<1>2. Chain(<<t>>) /\ <<t>>[Len(<<t>>)] = t /\ \A i \in DOMAIN <<t>> : <<t>>[i] = t
  BY DEF Chain
<1>3. Sends(q)
  BY <1>1, <1>2 DEF Sends, Ended
<1>4. Entitles(q)
  BY <1>1 DEF Sends, Entitles
<1> QED BY <1>3, <1>4, PiRequestMoves

LEMMA GateSteps ==
  ASSUME ExtInv, RqInv, NEW r \in PiReqs,
         \/ Ext!readActiveClaudeAccess(r) \/ Ext!AnthropicGate(r) \/ Ext!CodexGate(r) \/ Ext!KimiGate(r)
         \/ Ext!XaiGate(r) \/ Ext!OpenRouterGate(r)
  PROVE  ExtInv' /\ RqInv'
<1>1. rq[r] \in Requests /\ Sends(rq[r]) /\ Entitles(rq[r]) /\ rq[r].pc \in {"read", "gate"}
  BY DEF RqInv, Ext!readActiveClaudeAccess, Ext!AnthropicGate, Ext!CodexGate, Ext!KimiGate, Ext!XaiGate,
         Ext!OpenRouterGate, Ext!AsksGate
<1>2. CASE \E e \in Ended : Ext!Finish(r, e)
  BY <1>1, <1>2, RequestEnds DEF Ended
<1>3. CASE Ext!readActiveClaudeAccess(r) /\ ~\E e \in Ended : Ext!Finish(r, e)
  <2> DEFINE q == [rq[r] EXCEPT !.pc = "stream", !.tok = Ext!Login, !.sent = <<Ext!Login>>]
  <2>1. Ext!Step(r, q) /\ rq[r].pc = "read" /\ rq[r].kind = "consume"
    BY <1>1, <1>3 DEF Ext!readActiveClaudeAccess, Ended, Sends
  <2>2. Ext!Login \in Tokens /\ <<Ext!Login>> \in Seq(Tokens \cup {"token"})
    BY LoginType DEF ExtInv
  <2>3. /\ q \in Requests /\ q.pc = "stream" /\ q.tok = Ext!Login /\ q.sent = <<Ext!Login>> /\ q.prov = rq[r].prov
        /\ q.kind = rq[r].kind /\ q.rec = rq[r].rec /\ q.ok = rq[r].ok
    BY <1>1, <2>2 DEF Requests
  <2> HIDE DEF q
  <2> QED BY <2>1, <2>2, <2>3, RequestServed
<1>4. CASE Ext!AnthropicGate(r) /\ ~\E e \in Ended : Ext!Finish(r, e)
  <2> DEFINE q == [rq[r] EXCEPT !.pc = "stream", !.tok = Ext!Login, !.acct = active, !.sent = <<Ext!Login>>]
  <2>1. Ext!Step(r, q)
    BY <1>1, <1>4 DEF Ext!AnthropicGate, Ended
  <2>2. /\ Ext!Login \in Tokens /\ <<Ext!Login>> \in Seq(Tokens \cup {"token"})
        /\ Ext!Login.acct = active /\ active \in {1, 2}
    BY LoginType DEF ExtInv, OutsideType
  <2>3. /\ q \in Requests /\ q.pc = "stream" /\ q.tok = Ext!Login /\ q.sent = <<Ext!Login>> /\ q.prov = rq[r].prov
        /\ q.kind = rq[r].kind /\ q.rec = rq[r].rec /\ q.ok = rq[r].ok /\ q.acct = active
    BY <1>1, <2>2 DEF Requests, Accts
  <2> HIDE DEF q
  <2> QED BY <1>1, <2>1, <2>2, <2>3, RequestServed
<1>5. CASE Ext!Served(r) /\ rq[r].pc = "gate" /\ rq[r].prov # "anthropic"
  <2> DEFINE q == [rq[r] EXCEPT !.pc = "stream", !.sent = <<"token">>]
  <2>1. Ext!Step(r, q)
    BY <1>5 DEF Ext!Served
  <2>0. <<"token">> \in Seq(Tokens \cup {"token"})
    OBVIOUS
  <2>2. /\ q \in Requests /\ q.pc = "stream" /\ q.sent = <<"token">> /\ q.prov = rq[r].prov
        /\ q.kind = rq[r].kind /\ q.rec = rq[r].rec /\ q.ok = rq[r].ok /\ q.acct = rq[r].acct
    BY <1>1, <2>0 DEF Requests
  <2> HIDE DEF q
  <2>3. Entitles(q)
    BY <1>1, <1>5, <2>2 DEF Entitles, Sends
  <2>4. Sends(q)
    BY <1>1, <1>5, <2>2 DEF Sends
  <2> QED BY <2>1, <2>2, <2>3, <2>4, PiRequestMoves
<1> QED BY <1>2, <1>3, <1>4, <1>5 DEF Ext!readActiveClaudeAccess, Ext!AnthropicGate, Ext!CodexGate, Ext!KimiGate,
         Ext!XaiGate, Ext!OpenRouterGate, Ext!AsksGate, Ended


LEMMA StreamSteps ==
  ASSUME ExtInv, RqInv, NEW r \in PiReqs,
         \/ Ext!AnthropicStream(r) \/ Ext!CodexStream(r) \/ Ext!KimiStream(r) \/ Ext!XaiStream(r)
         \/ Ext!OpenRouterStream(r)
  PROVE  ExtInv' /\ RqInv'
<1>1. rq[r] \in Requests /\ Sends(rq[r]) /\ Entitles(rq[r]) /\ rq[r].pc = "stream"
  BY DEF RqInv, Ext!AnthropicStream, Ext!CodexStream, Ext!KimiStream, Ext!XaiStream, Ext!OpenRouterStream, Ext!Streams
<1>2. CASE \E e \in Ended : Ext!Finish(r, e)
  BY <1>1, <1>2, RequestEnds DEF Ended
<1>3. CASE rq[r].prov = "anthropic" /\ Len(rq[r].sent) = 1 /\ Ext!Step(r, [rq[r] EXCEPT !.pc = "resync"])
  <2> DEFINE q == [rq[r] EXCEPT !.pc = "resync"]
  <2>1. /\ q \in Requests /\ q.pc = "resync" /\ q.sent = rq[r].sent /\ q.prov = rq[r].prov /\ q.tok = rq[r].tok
        /\ q.kind = rq[r].kind /\ q.rec = rq[r].rec /\ q.ok = rq[r].ok /\ q.acct = rq[r].acct
    BY <1>1 DEF Requests
  <2> HIDE DEF q
  <2>2. Sends(q)
    BY <1>1, <1>3, <2>1 DEF Sends, Ended
  <2>3. Entitles(q)
    BY <1>1, <2>1 DEF Entitles
  <2> QED BY <1>3, <2>1, <2>2, <2>3, PiRequestMoves DEF q
<1> QED BY <1>2, <1>3 DEF Ext!AnthropicStream, Ext!CodexStream, Ext!KimiStream, Ext!XaiStream, Ext!OpenRouterStream,
              Ext!Streams, Ext!shouldResyncAfterAuthFailure, Ended

\* A retry sends another token, and with the gate one of the same account.
LEMMA RetrySteps ==
  ASSUME ExtInv, RqInv, NEW r \in PiReqs, Ext!ConsumeResync(r) \/ Ext!GateResync(r)
  PROVE  ExtInv' /\ RqInv'
<1>1. rq[r] \in Requests /\ Sends(rq[r]) /\ Entitles(rq[r]) /\ rq[r].pc = "resync"
  BY DEF RqInv, Ext!ConsumeResync, Ext!GateResync
<1>2. CASE Ext!Finish(r, "failed")
  BY <1>1, <1>2, RequestEnds DEF Ended
<1>3. CASE Ext!Step(r, [rq[r] EXCEPT !.pc = "failed", !.tok = None])
  <2> DEFINE q == [rq[r] EXCEPT !.pc = "failed", !.tok = None]
  <2>1. /\ q \in Requests /\ q.pc = "failed" /\ q.sent = rq[r].sent /\ q.prov = rq[r].prov
        /\ q.kind = rq[r].kind /\ q.rec = rq[r].rec /\ q.ok = rq[r].ok /\ q.acct = rq[r].acct
    BY <1>1 DEF Requests, Ended
  <2> HIDE DEF q
  <2>2. Sends(q)
    BY <1>1, <2>1 DEF Sends, Ended
  <2>3. Entitles(q)
    BY <1>1, <2>1 DEF Entitles
  <2> QED BY <1>3, <2>1, <2>2, <2>3, PiRequestMoves DEF q
<1>4. CASE Ext!Again(r) /\ Ext!Login # rq[r].tok /\ (rq[r].kind = "gate" => active = rq[r].tok.acct)
  <2> DEFINE s == Append(rq[r].sent, Ext!Login)
             q == [rq[r] EXCEPT !.pc = "stream", !.tok = Ext!Login, !.sent = s]
  <2>1. Ext!Step(r, q)
    BY <1>1, <1>4 DEF Ext!Again, Requests
  <2>2. Ext!Login \in Tokens /\ Ext!Login.acct = active
    BY LoginType DEF ExtInv
  <2>3. Chain(rq[r].sent) /\ Len(rq[r].sent) = 1 /\ rq[r].tok = rq[r].sent[1] /\ rq[r].prov = "anthropic"
        /\ (rq[r].kind = "gate" => rq[r].tok.acct = rq[r].acct)
    BY <1>1 DEF Sends
  <2>4. s \in Seq(Tokens) /\ Len(s) = 2 /\ s[1] = rq[r].tok /\ s[2] = Ext!Login
    BY <2>2, <2>3, AppendProperties DEF Chain
  <2>10. s \in Seq(Tokens \cup {"token"})
    BY <1>1, <2>2 DEF Requests
  <2>11. DOMAIN s = {1, 2}
    BY <2>4
  <2>5. Chain(s) /\ s # <<>>
    BY <1>4, <2>4 DEF Chain
  <2> HIDE DEF s
  <2>6. /\ q \in Requests /\ q.pc = "stream" /\ q.sent = s /\ q.prov = rq[r].prov /\ q.tok = Ext!Login
        /\ q.kind = rq[r].kind /\ q.rec = rq[r].rec /\ q.ok = rq[r].ok /\ q.acct = rq[r].acct
    BY <1>1, <2>2, <2>10 DEF Requests
  <2> HIDE DEF q
  <2>7. q.kind = "gate" => q.tok.acct = q.acct /\ \A i \in DOMAIN s : s[i].acct = q.acct
    BY <1>4, <2>2, <2>3, <2>4, <2>6, <2>11
  <2>12. q.rec = None
    BY <1>1, <2>6 DEF Sends, Ended
  <2>8. Sends(q)
    BY <2>4, <2>5, <2>6, <2>7, <2>12 DEF Sends
  <2>9. Entitles(q)
    BY <1>1, <2>6 DEF Entitles
  <2> QED BY <2>1, <2>6, <2>8, <2>9, PiRequestMoves
<1> QED BY <1>2, <1>3, <1>4 DEF Ext!ConsumeResync, Ext!GateResync

-----------------------------------------------------------------------------
(* The Pi extension: events outside *)

\* An event leaves a load with what still holds, and a request remembers that it was entitled.
LEMMA OutsideStep ==
  ASSUME ExtInv, RqInv, Ext!Outside, OutsideType', ConsumeInv', overlap => overlap', dual => dual'
  PROVE  ExtInv' /\ RqInv'
<1>1. host' = host /\ sentinel' = sentinel /\ mark' = mark /\ ext \in Exts
  BY DEF Ext!Outside, ExtInv, ExtType
<1>2. /\ ext' \in Exts /\ ext'.at = ext.at /\ ext'.reg = ext.reg /\ ext'.base = ext.base /\ ext'.mode = ext.mode
      /\ ext'.rehearsal = ext.rehearsal /\ ext'.started = ext.started
      /\ ext'.claimed \subseteq ext.claimed /\ (ext'.consumed => ext.consumed)
      /\ ext.at \in Loading => ext'.claimed \subseteq Ext!Claimed(owner') /\ (ext'.consumed => journal' = "CONSUMED")
  <2>1. CASE ext.at \in {"out", "ready"}
    BY <1>1, <2>1 DEF Ext!Outside, Loading
  <2>2. CASE ext.at \notin {"out", "ready"}
    <3> DEFINE c == ext.claimed \cap Ext!Claimed(owner')
               d == ext.consumed /\ journal' = "CONSUMED"
    <3>1. ext' = [ext EXCEPT !.claimed = c, !.consumed = d]
      BY <1>1, <2>2 DEF Ext!Outside, Exts
    <3>2. c \in SUBSET Ext!Providers /\ d \in BOOLEAN
      BY <1>1 DEF Exts
    <3>3. c \subseteq ext.claimed /\ c \subseteq Ext!Claimed(owner') /\ (d => ext.consumed /\ journal' = "CONSUMED")
      OBVIOUS
    <3> HIDE DEF c, d
    <3> QED BY <1>1, <3>1, <3>2, <3>3 DEF Exts
  <2> QED BY <2>1, <2>2
<1>3. Ext!Claimed(owner)' = Ext!Claimed(owner')
  BY DEF Ext!Claimed, Ext!ownerStateForProvider
<1>4. LoadInv'
  BY <1>1, <1>2, <1>3 DEF ExtInv, LoadInv, Whole, Early, Reading, Decided, Loading, Ext!blocked
<1>5. FailsClosed' /\ SentinelInv'
  BY <1>1, <1>2 DEF ExtInv, FailsClosed, Ext!ClaimedIsReplaced, Ext!ConsumedFailsClosed, SentinelInv,
                    Ext!SentinelMatchesMode, Ext!blocked, Ext!compat
<1>6. ASSUME NEW r \in PiReqs
      PROVE  rq'[r] \in Requests /\ Sends(rq'[r]) /\ Entitles(rq[r])'
  <2> DEFINE g == rq[r].pc # "idle" /\
                  \/ rq[r].kind = "consume" /\ journal' = "CONSUMED"
                     /\ Ext!ownerStateForProvider(owner', "anthropic") = "absent"
                  \/ rq[r].prov = "kimi-coding" /\ Ext!ownerStateForProvider(owner', "kimi-coding") # "absent"
             o == rq[r].ok \/ g
             q == [rq[r] EXCEPT !.ok = o]
  <2>1. rq[r] \in Requests /\ Sends(rq[r]) /\ Entitles(rq[r])
    BY DEF RqInv
  <2>2. rq'[r] = q
    BY <2>1 DEF Ext!Outside, Requests
  <2>3. o \in BOOLEAN /\ (rq[r].ok => o) /\ (rq[r].kind = "consume" /\ rq[r].pc = "journal" /\ journal' = "CONSUMED" => o \/ dual')
    <3>1. ~dual' /\ journal' = "CONSUMED" => Ext!ownerStateForProvider(owner', "anthropic") = "absent"
      BY DEF ConsumeInv, Ext!ownerStateForProvider
    <3> QED BY <2>1, <3>1 DEF Requests
  <2> HIDE DEF o, g
  <2>4. /\ q \in Requests /\ q.pc = rq[r].pc /\ q.sent = rq[r].sent /\ q.prov = rq[r].prov /\ q.tok = rq[r].tok
        /\ q.kind = rq[r].kind /\ q.rec = rq[r].rec /\ q.ok = o /\ q.acct = rq[r].acct
    BY <2>1, <2>3 DEF Requests
  <2> HIDE DEF q
  <2>5. Sends(q)
    BY <2>1, <2>4 DEF Sends
  <2>6. Entitles(rq[r])'
    BY <2>1, <2>2, <2>3, <2>4 DEF Entitles
  <2> QED BY <2>2, <2>4, <2>5, <2>6
<1>7. RqInv'
  <2>1. rq' = [r \in PiReqs |-> rq'[r]]
    BY DEF Ext!Outside
  <2> QED BY <1>6, <2>1 DEF RqInv, Sends
<1> QED BY <1>1, <1>2, <1>4, <1>5, <1>7 DEF ExtInv, ExtType


LEMMA ConsumeSteps ==
  ASSUME ExtInv, RqInv,
         Ext!EnableMarker \/ Ext!EnableJournal \/ Ext!DisableJournal \/ Ext!DisableMarker \/ Ext!CommandDies
  PROVE  ExtInv' /\ RqInv'
<1>1. owner' = owner /\ active' = active /\ vers' = vers /\ Ext!Outside
  BY DEF Ext!EnableMarker, Ext!EnableJournal, Ext!DisableJournal, Ext!DisableMarker, Ext!CommandDies
<1>4. journal' \in {journal, "NATIVE", "CONSUMED"} /\ marker' \in {marker, TRUE, FALSE}
  BY DEF Ext!EnableMarker, Ext!EnableJournal, Ext!DisableJournal, Ext!DisableMarker, Ext!CommandDies
<1>5. (overlap => overlap') /\ (dual => dual')
  <2>1. CASE Ext!EnableMarker
    <3>1. overlap => overlap'
      BY <2>1 DEF Ext!EnableMarker
    <3>2. dual => dual'
      BY <2>1 DEF Ext!EnableMarker
    <3> QED BY <3>1, <3>2
  <2>2. CASE Ext!EnableJournal
    <3>1. overlap => overlap'
      BY <2>2 DEF Ext!EnableJournal
    <3>2. dual => dual'
      BY <2>2 DEF Ext!EnableJournal
    <3> QED BY <3>1, <3>2
  <2>3. CASE Ext!DisableJournal
    <3>1. overlap => overlap'
      BY <2>3 DEF Ext!DisableJournal
    <3>2. dual => dual'
      BY <2>3 DEF Ext!DisableJournal
    <3> QED BY <3>1, <3>2
  <2>4. CASE Ext!DisableMarker
    <3>1. overlap => overlap'
      BY <2>4 DEF Ext!DisableMarker
    <3>2. dual => dual'
      BY <2>4 DEF Ext!DisableMarker
    <3> QED BY <3>1, <3>2
  <2>5. CASE Ext!CommandDies
    <3>1. overlap => overlap'
      BY <2>5 DEF Ext!CommandDies
    <3>2. dual => dual'
      BY <2>5 DEF Ext!CommandDies
    <3> QED BY <3>1, <3>2
  <2> QED BY <2>1, <2>2, <2>3, <2>4, <2>5
<1>2. OutsideType'
  BY <1>1, <1>4 DEF ExtInv, OutsideType
<1>3. ConsumeInv'
  <2>1. CASE Ext!EnableMarker
    BY <2>1 DEF Ext!EnableMarker, ExtInv, ConsumeInv, Ext!ownerStateForProvider
  <2>2. CASE Ext!EnableJournal
    BY <2>2 DEF Ext!EnableJournal, ExtInv, ConsumeInv, Ext!ownerStateForProvider
  <2>3. CASE Ext!DisableJournal
    BY <2>3 DEF Ext!DisableJournal, ExtInv, ConsumeInv, Ext!ownerStateForProvider
  <2>4. CASE Ext!DisableMarker
    BY <2>4 DEF Ext!DisableMarker, ExtInv, ConsumeInv, Ext!ownerStateForProvider
  <2>5. CASE Ext!CommandDies
    BY <2>5 DEF Ext!CommandDies, ExtInv, ConsumeInv, Ext!ownerStateForProvider
  <2> QED BY <2>1, <2>2, <2>3, <2>4, <2>5
<1> QED BY <1>1, <1>2, <1>3, <1>5, OutsideStep

LEMMA MigrateStep == ASSUME ExtInv, RqInv, Ext!Migrate PROVE ExtInv' /\ RqInv'
<1>1. UNCHANGED <<journal, marker, pend, active, vers, overlap, dual>> /\ Ext!Outside /\ owner \in OwnerFiles
  BY DEF Ext!Migrate, ExtInv, OutsideType
<1>2. \/ owner' = [kind |-> "absent", providers |-> {}]
      \/ \E s \in SUBSET Ext!Providers :
           /\ owner' = [kind |-> "v2", providers |-> s]
           /\ journal = "CONSUMED" /\ "anthropic" \in s => owner.kind = "v2" /\ "anthropic" \in owner.providers
  <2>1. ASSUME NEW p \in Movable, owner.kind \in {"absent", "v2"}, p = "anthropic" => journal # "CONSUMED",
               owner' = [kind |-> "v2", providers |-> owner.providers \cup {p}]
        PROVE  \E s \in SUBSET Ext!Providers :
                 /\ owner' = [kind |-> "v2", providers |-> s]
                 /\ journal = "CONSUMED" /\ "anthropic" \in s => owner.kind = "v2" /\ "anthropic" \in owner.providers
    <3> DEFINE s == owner.providers \cup {p}
    <3>1. s \in SUBSET Ext!Providers
      BY <1>1, MovableAssumption DEF OwnerFiles, Ext!Providers
    <3>2. journal = "CONSUMED" /\ "anthropic" \in s => owner.kind = "v2" /\ "anthropic" \in owner.providers
      BY <1>1, <2>1 DEF OwnerFiles
    <3> QED BY <2>1, <3>1, <3>2
  <2>2. ASSUME NEW p \in owner.providers \cap Movable,
               owner' = [kind |-> "v2", providers |-> owner.providers \ {p}]
        PROVE  \E s \in SUBSET Ext!Providers :
                 /\ owner' = [kind |-> "v2", providers |-> s]
                 /\ journal = "CONSUMED" /\ "anthropic" \in s => owner.kind = "v2" /\ "anthropic" \in owner.providers
    <3> DEFINE s == owner.providers \ {p}
    <3>1. s \in SUBSET Ext!Providers /\ owner.kind = "v2"
      BY <1>1 DEF OwnerFiles
    <3> QED BY <2>2, <3>1
  <2> QED BY <2>1, <2>2 DEF Ext!Migrate
<1>3. owner' \in OwnerFiles
  BY <1>2 DEF OwnerFiles
<1>4. OutsideType'
  BY <1>1, <1>3 DEF ExtInv, OutsideType
<1>5. ~dual /\ journal = "CONSUMED" => Ext!ownerStateForProvider(owner', "anthropic") = "absent"
  <2>1. ~dual /\ journal = "CONSUMED" => ~(owner.kind = "v2" /\ "anthropic" \in owner.providers)
    BY <1>1, OwnerStates DEF ExtInv, ConsumeInv, Ext!Providers
  <2> QED BY <1>2, <2>1 DEF Ext!ownerStateForProvider
<1>6. Ext!ownerStateForProvider(owner, "anthropic")' = Ext!ownerStateForProvider(owner', "anthropic")
  BY DEF Ext!ownerStateForProvider
<1>7. ConsumeInv'
  BY <1>1, <1>5, <1>6 DEF ExtInv, ConsumeInv
<1> QED BY <1>1, <1>4, <1>7, OutsideStep

LEMMA LoginChangesStep == ASSUME ExtInv, RqInv, Ext!LoginChanges PROVE ExtInv' /\ RqInv'
<1>1. UNCHANGED <<owner, journal, marker, pend, overlap, dual>> /\ Ext!Outside
  BY DEF Ext!LoginChanges
<1>2. active' \in {1, 2} /\ vers' \in [{1, 2} -> Nat]
  BY DEF Ext!LoginChanges, Ext!Accounts, ExtInv, OutsideType
<1>3. OutsideType' /\ ConsumeInv'
  BY <1>1, <1>2 DEF ExtInv, OutsideType, ConsumeInv, Ext!ownerStateForProvider
<1> QED BY <1>1, <1>3, OutsideStep

-----------------------------------------------------------------------------
(* The Pi extension: theorems *)

\* Loading changes no request.
LEMMA RqFrame == ASSUME RqInv, UNCHANGED Ext!env, rq' = rq PROVE RqInv'
  BY DEF Ext!env, RqInv, Sends, Entitles

LEMMA ExtStep == ASSUME ExtInv, RqInv, Ext!Next PROVE ExtInv' /\ RqInv'
<1>1. CASE Ext!LoadStart \/ Ext!LoadJournal \/ Ext!LoadEnd \/ Ext!SessionStart \/ Ext!SessionShutdown \/ Ext!Reload
  <2>1. RqInv'
    BY <1>1, RqFrame DEF Ext!LoadStart, Ext!LoadJournal, Ext!LoadEnd, Ext!SessionStart, Ext!SessionShutdown, Ext!Reload
  <2> QED BY <1>1, <2>1, LoadStartStep, LoadJournalStep, LoadEndStep, SessionSteps
<1>2. ASSUME NEW r \in PiReqs,
             \/ \E p \in Ext!Providers : Ext!StubAnswers(r, p) \/ Ext!BeginGate(r, p)
             \/ Ext!BeginConsume(r) \/ Ext!CheckJournal(r) \/ Ext!readActiveClaudeAccess(r)
             \/ Ext!AnthropicGate(r) \/ Ext!CodexGate(r) \/ Ext!KimiGate(r) \/ Ext!XaiGate(r)
             \/ Ext!OpenRouterGate(r)
             \/ Ext!AnthropicStream(r) \/ Ext!CodexStream(r) \/ Ext!KimiStream(r) \/ Ext!XaiStream(r)
             \/ Ext!OpenRouterStream(r)
             \/ Ext!ConsumeResync(r) \/ Ext!GateResync(r)
      PROVE  ExtInv' /\ RqInv'
  <2>1. "anthropic" \in Ext!Providers
    BY DEF Ext!Providers
  <2> QED BY <1>2, <2>1, BeginSteps, CheckJournalStep, GateSteps, StreamSteps, RetrySteps
<1> QED BY <1>1, <1>2, ConsumeSteps, MigrateStep, LoginChangesStep DEF Ext!Next

LEMMA SuiteStep == ExtInv /\ RqInv /\ [SuiteNext]_SuiteVars => (ExtInv /\ RqInv)'
<1> SUFFICES ASSUME ExtInv, RqInv, [SuiteNext]_SuiteVars PROVE ExtInv' /\ RqInv'
  OBVIOUS
<1>1. CASE Ext!Next
  BY <1>1, ExtStep
<1>2. CASE UNCHANGED extVars
  BY <1>2, ExtFrame, RqFrame DEF extVars, Ext!env
<1> QED BY <1>1, <1>2 DEF SuiteNext, SuiteVars

LEMMA SuiteInv == SuiteSpec => [](ExtInv /\ RqInv)
<1>1. SuiteInit => ExtInv /\ RqInv
  BY InitExt, InitRq DEF SuiteInit
<1> QED BY <1>1, SuiteStep, PTL DEF SuiteSpec

\* A load does not leave to Pi's own login what QLB consumes or the owner file claims during the
\* whole of it, and Pi has QLB's sentinel exactly when the provider loaded last needs it, however
\* loads, sessions, consume commands, migrations and their deaths interleave.
THEOREM ExtensionFailsClosedHolds == SuiteSpec => []ExtensionFailsClosed
<1>1. ExtInv => ExtensionFailsClosed
  BY DEF ExtInv, FailsClosed, SentinelInv, ExtensionFailsClosed
<1> QED BY <1>1, SuiteInv, PTL

\* A request on C-swap's login or on Kimi's gate was entitled at some moment of it, and no request
\* is sent more than twice, twice with one token, or on another account than the audited one.
THEOREM RequestsEntitledHolds == SuiteSpec => []RequestsEntitled
<1>1. RqInv => Ext!ServedOnlyIfEntitled
  BY DEF RqInv, Sends, Entitles, Ext!ServedOnlyIfEntitled
<1>2. RqInv => Ext!RetryKeepsAccount
  BY DEF RqInv, Requests, Sends, Chain, Ext!RetryKeepsAccount
<1> QED BY <1>1, <1>2, SuiteInv, PTL DEF RequestsEntitled

=============================================================================
