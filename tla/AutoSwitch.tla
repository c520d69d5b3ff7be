----------------------------- MODULE AutoSwitch -----------------------------
(***************************************************************************)
(* The automatic-switch loop: autoswitch.ts decides, auto/anthropic.ts     *)
(* reads the decision's inputs, executes it and persists what it means for *)
(* the next tick, lines.ts measures an account against its switch lines,   *)
(* anthropic-usage-view.ts says which stored readings may be trusted, and  *)
(* commands/auto.ts lets the operator resume, rescope and drill.  The      *)
(* operator's commands are other processes: they commit between any two    *)
(* steps of a tick.                                                        *)
(*                                                                         *)
(* Time is counted in units: the code's periods keep their order, not      *)
(* their ratios (5 min <= COOLDOWN = HYSTERESIS < IDLE_HOLD < HOUR <       *)
(* HORIZON).  How usage is polled is UsagePolling; here a poll leaves a    *)
(* reading.  How a switch is executed is ClaudeSwitch; here it commits or  *)
(* fails.                                                                  *)
(***************************************************************************)
EXTENDS Integers, Sequences, FiniteSets, FiniteSetsExt

CONSTANTS
  Accounts, Rank,       \* the Claude slots and their slot numbers
  LineOf,               \* per-account threshold, a function on Accounts
  Weekly,               \* weeklyThreshold, or None
  Starts,               \* first readings, functions on Accounts
  Usages,               \* what a poll may read: windows, the interval planned for it
  UnhealthyTicks,       \* autoswitch.unhealthyTicks
  Strategy,             \* "best" or "consume-first"
  COOLDOWN, HYSTERESIS, IDLE_HOLD, HOUR, HORIZON,
  Gaps,                 \* times that may pass between two ticks
  MaxNow, MaxPolls, MaxActs,  \* bounds: time, polls, operator actions
  None

Threshold == 90
HysteresisPct == 10
SPENT == 3
Inf == 100000
NoWindows == [l \in {} |-> 0]

AutoSwitchAssumption ==
  /\ \A a, b \in Accounts : a # b => Rank[a] # Rank[b]
  /\ COOLDOWN <= IDLE_HOLD /\ IDLE_HOLD <= HOUR /\ HOUR <= HORIZON
  /\ UnhealthyTicks \in 1..100

VARIABLES
  now,
  active,   \* active_login
  reading,  \* snapshots and usage_polls: windows, at, status, failed since
  scoped,   \* auto.anthropic.models: do model-scoped windows count
  rows,     \* switch_log: committed switches
  left,     \* S45: lastSwitchFrom, lastSwitchTo, leftHeadroom, leftRecoveryAt, leftTrigger
  health,   \* unhealthyTicks, healthAccount, healthTickAt, idleHoldSince
  dead,     \* slots marked dead
  brk,      \* suspendedUntil, lastSuspensionEnd, lastResumeAt
  parked,   \* parkedUntil
  job,      \* the tick in progress
  bad,      \* history: ticks in a row that found the active account unknown
  trail,    \* history: the last automatic move made on headroom, what it knew
  polled, acts

config == <<left, health, brk, parked>>
history == <<bad, trail>>
vars == <<now, active, reading, scoped, rows, dead, config, job, history, polled, acts>>

-----------------------------------------------------------------------------
(* anthropic-usage-view.ts: the readings a decision may use *)

include(l) == l # "scoped" \/ scoped

\* A failed poll keeps the last reading trusted for an hour, a rate-limited one
\* for two but not past its first reset; a lost credential ends it at once.
decisionTrusts(r, t) ==
  LET age == t - r.at
  IN CASE r.status = "token-expired" -> age = 0
       [] r.status = "http-429" ->
            age <= 2 * HOUR /\ \A l \in DOMAIN r.w : include(l) => r.w[l].reset >= t
       [] OTHER -> \/ age <= COOLDOWN
                   \/ age <= HOUR /\ (r.failed \/ t < r.due)

projectReadings(r, t) ==
  LET keep == {l \in DOMAIN r.w : include(l) /\ r.w[l].reset >= t /\ decisionTrusts(r, t)}
  IN [l \in keep |-> r.w[l]]

-----------------------------------------------------------------------------
(* lines.ts and the census of autoswitch.ts.  Headrooms are in thousandths. *)

Labels == <<"5h", "7d", "scoped">>

windowLine(l, a) == IF Weekly = None \/ l = "5h" THEN LineOf[a] ELSE Weekly

lineHeadroom(pct, line) ==
  IF line = Threshold THEN 1000 * (100 - pct)
  ELSE IF pct <= line
  THEN (1000 * ((100 - Threshold) * line + Threshold * (line - pct))) \div line
  ELSE (1000 * (100 - Threshold) * (100 - pct)) \div (100 - line)

\* The least line headroom, a window over its line before one that is not,
\* the earlier label when equal.
bindingWindow(w, a) ==
  LET over(l) == w[l].pct >= windowLine(l, a)
      room(l) == lineHeadroom(w[l].pct, windowLine(l, a))
      idx(l) == CHOOSE i \in 1..3 : Labels[i] = l
      before(l, m) == \/ over(l) /\ ~over(m)
                      \/ /\ over(l) = over(m)
                         /\ \/ room(l) < room(m)
                            \/ room(l) = room(m) /\ idx(l) <= idx(m)
      best == CHOOSE l \in DOMAIN w : \A m \in DOMAIN w : before(l, m)
  IN [label |-> best, over |-> over(best), room |-> room(best), reset |-> w[best].reset]

bindingPct(w) == Max({w[l].pct : l \in DOMAIN w})

\* One account's line of the census: raw headroom, binding window, recovery.
censusOf(in, a) ==
  LET w == IF in.unknown /\ a = in.active THEN NoWindows ELSE in.w[a]
      known == w # NoWindows
      b == bindingWindow(w, a)
  IN [known |-> known,
      head |-> IF known THEN 100 - bindingPct(w) ELSE Inf,
      over |-> known /\ b.over,
      room |-> IF known THEN b.room ELSE Inf,
      recovery |-> IF known /\ b.reset > in.now THEN b.reset ELSE Inf,
      exhausted |-> known /\ bindingPct(w) >= 100]

unknownLine == [known |-> FALSE, head |-> Inf, over |-> FALSE, room |-> Inf,
                recovery |-> Inf, exhausted |-> FALSE]

exhaustedRecovery(in, a) ==
  LET full == {l \in DOMAIN in.w[a] : in.w[a][l].pct >= 100}
  IN IF full = {} \/ \E l \in full : in.w[a][l].reset <= in.now THEN Inf
     ELSE Max({in.w[a][l].reset : l \in full})

weeklyReset(in, a) ==
  IF "7d" \in DOMAIN in.w[a] /\ in.w[a]["7d"].reset > in.now THEN in.w[a]["7d"].reset ELSE Inf

-----------------------------------------------------------------------------
(* autoswitch.ts: ranking *)

headOr0(x) == IF x.known THEN x.head ELSE 0

recoveryIsUseful(c, act, best, t) ==
  \/ headOr0(act) <= SPENT /\ best <= SPENT
  \/ c.recovery # Inf /\ c.recovery - t <= HORIZON
  \/ act.recovery # Inf /\ act.recovery - t <= HORIZON

noReturnRecovered(in, c, act) ==
  LET l == in.left
      back == c[l.from]
      failoverSnapshot == l.trigger = "failover" \/ (l.trigger = None /\ l.head = None /\ l.recovery = None)
  IN IF l.from \notin DOMAIN c THEN FALSE
     ELSE IF failoverSnapshot
     THEN \/ back.known /\ ~back.over
          \/ /\ act.recovery # Inf \/ back.recovery - in.now <= HORIZON
             /\ back.recovery < act.recovery - HYSTERESIS
     ELSE \/ back.known /\ act.known /\ back.head > 2 * act.head + SPENT
          \/ l.head # None /\ back.known /\ back.head >= Min({l.head + SPENT, 100})
          \/ back.recovery < (IF l.recovery = None THEN Inf ELSE l.recovery) - HYSTERESIS

\* Mutant: the account left last is never barred.
neverBarred(in, trigger, c, act) == [barred |-> None, recovered |-> TRUE]

noReturnAccount(in, trigger, c, act) ==
  LET l == in.left
      back == c[l.from]
      recovered == noReturnRecovered(in, c, act)
  IN IF \/ trigger \notin {"proactive", "consume-first"} \/ l.from = None
        \/ l.to # None /\ l.to # in.active
     THEN [barred |-> None, recovered |-> TRUE]
     ELSE IF ~recovered THEN [barred |-> l.from, recovered |-> FALSE]
     ELSE IF back.known /\ (IF act.known THEN back.head >= 2 * act.head ELSE ~back.over)
     THEN [barred |-> None, recovered |-> TRUE]
     ELSE [barred |-> l.from, recovered |-> TRUE]

\* What every candidate is ranked against.
field(in, c, act) ==
  LET measured == {p \in DOMAIN c \ {in.active} : c[p].known}
  IN [measured |-> measured,
      allAbove |-> act.over /\ measured # {} /\ \A p \in measured : c[p].over,
      best |-> Max({0} \cup {c[p].head : p \in measured})]

\* The key a candidate is sorted by, or None when it does not qualify; tier 2
\* is the fallback for when nothing qualifies in tier 1.
rankKey(in, trigger, c, act, f, a, barred, tier) ==
  LET x == c[a]
      soft == trigger \in {"proactive", "consume-first"}
      consume == Strategy = "consume-first"
      earlier == x.recovery < act.recovery - HYSTERESIS
      week == <<weeklyReset(in, a), -x.room, 0>>
  IN IF x.head <= 0 \/ a = barred THEN None
     ELSE IF soft /\ f.allAbove
     THEN IF recoveryIsUseful(x, act, f.best, in.now)
          THEN IF tier = 1 /\ earlier THEN <<0, x.recovery, -x.head>> ELSE None
          ELSE IF x.head >= 2 * headOr0(act)
          THEN IF tier = 1 THEN <<1, -x.head, x.recovery>> ELSE None
          ELSE IF tier = 2 /\ headOr0(act) <= SPENT /\ x.head >= headOr0(act) /\ earlier
               THEN <<0, x.recovery, -x.head>> ELSE None
     ELSE IF tier = 2 \/ (soft /\ x.over) THEN None
     ELSE IF soft /\ consume
     THEN IF trigger = "consume-first"
             /\ (weeklyReset(in, a) = Inf \/ weeklyReset(in, in.active) = Inf
                 \/ weeklyReset(in, a) >= weeklyReset(in, in.active))
          THEN None ELSE week
     ELSE IF trigger = "proactive" /\ x.room - act.room < 1000 * HysteresisPct
     THEN None
     ELSE IF consume THEN week
     ELSE IF f.allAbove THEN <<1, -x.head, x.recovery>> ELSE <<-x.room, 0, 0>>

keyBefore(k, m) ==
  \/ k[1] < m[1]
  \/ k[1] = m[1] /\ (k[2] < m[2] \/ (k[2] = m[2] /\ k[3] < m[3]))

\* The first candidate of the better tier, ties broken by slot number.
rankCandidates(in, trigger, c, act, barred) ==
  LET f == field(in, c, act)
      keys(tier) == [a \in f.measured |-> rankKey(in, trigger, c, act, f, a, barred, tier)]
      first(k) == LET q == {a \in DOMAIN k : k[a] # None}
                  IN IF q = {} THEN None
                     ELSE CHOOSE a \in q : \A b \in q :
                            \/ keyBefore(k[a], k[b])
                            \/ k[a] = k[b] /\ Rank[a] <= Rank[b]
      t1 == first(keys(1))
  IN IF t1 # None THEN t1 ELSE first(keys(2))

-----------------------------------------------------------------------------
(* autoswitch.ts: the decision *)

stay(why, ticks) == [kind |-> "stay", reason |-> why, ticks |-> ticks, idle |-> None, until |-> None]

switchTo(a, trigger, act, ticks, until) ==
  [kind |-> "switch", target |-> a, reason |-> trigger, ticks |-> ticks, idle |-> None,
   parkedUntil |-> until, head |-> IF act.known THEN act.head ELSE None,
   recovery |-> IF act.recovery = Inf THEN None ELSE act.recovery]

counted(in) ==
  {i \in DOMAIN in.rows :
     /\ in.rows[i].trigger \in {"failover", "at-limit"} /\ ~in.rows[i].injected
     /\ in.rows[i].ts > Max({in.now - HOUR, in.brk.ended, in.brk.resumed})}

\* The time a suspension lasts to, or None when the switch may go ahead.
breakerDecision(in, trigger) ==
  IF trigger \notin {"failover", "at-limit"} THEN None
  ELSE IF in.brk.until > in.now THEN in.brk.until
  ELSE IF Cardinality(counted(in)) >= 3 THEN in.now + HOUR ELSE None

parkedDecision(in, c, act, ticks) ==
  LET back == [a \in DOMAIN c |-> exhaustedRecovery(in, a)]
      some == {a \in DOMAIN c : back[a] # Inf}
      first == CHOOSE a \in some : \A b \in some :
                 back[a] < back[b] \/ (back[a] = back[b] /\ Rank[a] <= Rank[b])
  IN IF some = {} THEN stay("reset-unknown", ticks)
     ELSE IF first = in.active \/ back[first] = in.parked
     THEN [kind |-> "parked", ticks |-> ticks, idle |-> None, parkedUntil |-> back[first]]
     ELSE switchTo(first, "parked", act, ticks, back[first])

decideWithCensus(in, trigger, ticks, c, act) ==
  LET nr == noReturnAccount(in, trigger, c, act)
      t1 == rankCandidates(in, trigger, c, act, nr.barred)
      target == IF t1 = None /\ nr.barred # None /\ nr.recovered
                THEN rankCandidates(in, trigger, c, act, None) ELSE t1
      until == breakerDecision(in, trigger)
  IN IF target # None
     THEN IF until # None THEN [stay("breaker", ticks) EXCEPT !.until = until]
          ELSE switchTo(target, trigger, act, ticks, None)
     ELSE IF DOMAIN c # {} /\ \A a \in DOMAIN c : c[a].exhausted
     THEN parkedDecision(in, c, act, ticks)
     ELSE stay("no-qualifying-candidate", ticks)

idleSince(in) == IF in.idle = None THEN in.now ELSE in.idle

triggerFor(in, act) ==
  IF ~act.known THEN "failover"
  ELSE IF act.exhausted THEN "at-limit"
  ELSE IF Strategy = "consume-first" /\ ~act.over THEN "consume-first"
  ELSE IF act.over THEN "proactive" ELSE None

decideAutoswitch(in0) ==
  LET held == in0.expired /\ in0.now - idleSince(in0) < IDLE_HOLD
      in == [in0 EXCEPT !.unknown = @ \/ in0.expired]
      c == [a \in Accounts \ in.dead |-> censusOf(in, a)]
      act == IF in.active \in in.dead THEN unknownLine ELSE c[in.active]
      trigger == triggerFor(in, act)
      ticks == IF act.known THEN 0 ELSE Min({in.ticks + 1, UnhealthyTicks})
  IN IF held THEN [stay("active-idle", 0) EXCEPT !.idle = idleSince(in)]
     ELSE IF ~act.known /\ ticks < UnhealthyTicks THEN stay("unknown", ticks)
     ELSE IF trigger = None THEN stay("below-threshold", 0)
     ELSE IF trigger \in {"proactive", "consume-first"} /\ in.switched # None
             /\ in.now - in.switched < COOLDOWN
     THEN stay("cooldown", ticks)
     ELSE decideWithCensus(in, trigger, ticks, c, act)


-----------------------------------------------------------------------------
(* auto/anthropic.ts: one tick.  The daemon holds auto.lock, so ticks never  *)
(* overlap; the operator's commands fall between the steps of one.           *)

NoJob == [pc |-> "idle"]
Idle == job.pc = "idle"

\* A usage read at t: its resets are absolute, the next due time follows.
readAt(u, t) ==
  [w |-> u.w, at |-> t, due |-> t + u.due, status |-> "ok", failed |-> FALSE]

\* What a poll may leave for an account: a reading, or only its status.
polledTo(r, res) ==
  CASE res.status = "ok" -> readAt(res.usage, now')
    [] res.status = "none" -> r
    [] OTHER -> [r EXCEPT !.status = res.status, !.failed = TRUE]

\* At most the active account and one other are polled before a decision.
poll(own, other, res) ==
  reading' = [a \in Accounts |-> CASE a = active -> polledTo(reading[a], own)
                                   [] a = other -> polledTo(reading[a], res)
                                   [] OTHER -> reading[a]]

\* The decision's input: the accounts as they were when the polls were over, and
\* the rest from the store as it is when the decision begins.
decisionInput(accounts, inject) ==
  LET fresh == health.acct = active /\ now - health.at <= HOUR
  IN [now |-> now, active |-> active, dead |-> accounts.dead, w |-> accounts.w,
      unknown |-> inject, expired |-> reading[active].status = "token-expired",
      ticks |-> IF fresh THEN health.ticks ELSE 0, idle |-> IF fresh THEN health.idle ELSE None,
      parked |-> parked, left |-> left, brk |-> brk, rows |-> rows.recent,
      switched |-> rows.last]

\* Did the tick know, or still hold, the active account?
knows(in) ==
  IF in.expired THEN in.now - idleSince(in) < IDLE_HOLD
  ELSE in.active \notin in.dead /\ ~in.unknown /\ in.w[in.active] # NoWindows

\* Ticks in a row, this one included, that did not know the active account.
unknownTicks(in) == Min({1 + (IF bad.acct = in.active THEN bad.n ELSE 0), UnhealthyTicks})

\* Rows older than an hour are never counted again.
recentRows(t) == SelectSeq(rows.recent, LAMBDA r : r.ts > t - HOUR)

\* runAuto: reconcile, poll, then decide; `inject` is --inject usage-5xx.  While
\* C-swap runs, or once auto.lock is lost, a turn decides nothing: no step here.
Poll(gap, own, other, res, inject) ==
  /\ Idle /\ now + gap <= MaxNow
  /\ own.status # "none" => polled < MaxPolls
  /\ now' = now + gap
  /\ polled' = polled + (IF own.status = "none" THEN 0 ELSE 1)
  /\ rows' = [rows EXCEPT !.recent = recentRows(now')]
  /\ poll(own, other, res)
  /\ job' = [pc |-> "decide", inject |-> inject, moved |-> FALSE, dead |-> dead,
             w |-> [a \in Accounts |-> projectReadings(reading'[a], now')]]
  /\ acts' = acts + (IF inject THEN 1 ELSE 0)
  /\ UNCHANGED <<active, scoped, dead, config, history>>

Decide ==
  /\ job.pc = "decide"
  /\ \E in \in {decisionInput(job, job.inject)} : \E d \in {decideAutoswitch(in)} :
       job' = [pc |-> IF d.kind = "switch" THEN "switch" ELSE "persist", in |-> in, d |-> d,
               inject |-> job.inject, ok |-> FALSE, moved |-> FALSE]
  /\ UNCHANGED <<now, active, reading, scoped, rows, dead, config, history, polled, acts>>

breakerOpen == brk.until > now

recordSwitch(row) == Append(rows.recent, row)

\* When an automatic switch last committed; a drill's rows do not count.
latestAutoswitchAt(trigger) == IF trigger = "manual" THEN rows.last ELSE now

\* store.commitClaudeSwitch
commitClaudeSwitch(to, trigger, injected, snap) ==
  /\ active' = to
  /\ left' = [from |-> active, to |-> IF trigger = "manual" THEN None ELSE to,
              head |-> snap.head, recovery |-> snap.recovery, trigger |-> snap.trigger]
  /\ rows' = [recent |-> recordSwitch([ts |-> now, trigger |-> trigger, injected |-> injected]),
              last |-> latestAutoswitchAt(trigger)]

leaveSnapshot(d) == [head |-> d.head, recovery |-> d.recovery, trigger |-> d.reason]

\* switchClaude refuses a dead target and, unless manual, an open breaker.
SwitchCommits ==
  /\ job.pc = "switch"
  /\ ~breakerOpen /\ job.d.target \notin dead /\ job.d.target # active
  /\ commitClaudeSwitch(job.d.target, job.d.reason, job.inject, leaveSnapshot(job.d))
  /\ trail' = IF job.d.reason = "proactive" /\ ~job.moved
              THEN [from |-> active, to |-> job.d.target,
                    known |-> [a \in {active, job.d.target} |-> job.in.w[a]]]
              ELSE None
  /\ job' = [job EXCEPT !.pc = "persist", !.ok = TRUE]
  /\ UNCHANGED <<now, reading, scoped, dead, health, brk, parked, bad, polled, acts>>

\* Refused, failed, rolled back, or nothing to do.
SwitchFails ==
  /\ job.pc = "switch"
  /\ job' = [job EXCEPT !.pc = "persist"]
  /\ UNCHANGED <<now, active, reading, scoped, rows, dead, config, history, polled, acts>>

\* persistTickState, one transaction
nextHealth(in, d, ok) ==
  LET idle == CASE d.kind = "stay" -> IF d.idle # None THEN d.idle
                                      ELSE IF in.expired THEN in.idle ELSE None
                [] d.kind = "switch" /\ ~ok -> in.idle
                [] OTHER -> None
  IN IF d.ticks > 0 \/ idle # None
     THEN [ticks |-> d.ticks, acct |-> in.active, at |-> in.now, idle |-> idle]
     ELSE [ticks |-> 0, acct |-> None, at |-> 0, idle |-> None]

\* Mutant: a breaker decision is written without looking again.
suspendBlindly(in, d) ==
  IF d.kind = "stay" /\ d.until # None THEN [brk EXCEPT !.until = d.until]
  ELSE IF brk.until # 0 /\ brk.until <= in.now
  THEN [brk EXCEPT !.until = 0, !.ended = in.now] ELSE brk

\* A suspension is put down only when neither key moved since the decision.
nextBreaker(in, d) ==
  IF /\ d.kind = "stay" /\ d.until # None
     /\ brk.until = in.brk.until /\ brk.resumed = in.brk.resumed
  THEN [brk EXCEPT !.until = d.until]
  ELSE IF brk.until # 0 /\ brk.until <= in.now
  THEN [brk EXCEPT !.until = 0, !.ended = in.now] ELSE brk

persistTickState(in, d, ok) ==
  /\ health' = nextHealth(in, d, ok)
  /\ brk' = nextBreaker(in, d)
  /\ parked' = CASE d.kind = "parked" -> d.parkedUntil
                 [] d.kind = "switch" /\ d.reason = "parked" /\ ~ok -> parked
                 [] OTHER -> IF d.kind = "switch" /\ ok THEN d.parkedUntil ELSE None

Persist ==
  /\ job.pc = "persist"
  /\ persistTickState(job.in, job.d, job.ok)
  /\ bad' = IF knows(job.in) THEN [acct |-> None, n |-> 0]
            ELSE [acct |-> job.in.active, n |-> unknownTicks(job.in)]
  /\ job' = NoJob
  /\ UNCHANGED <<now, active, reading, scoped, rows, dead, left, trail, polled, acts>>

\* A death before Persist; one before the switch is a switch that fails first.
Crash ==
  /\ job.pc \in {"decide", "persist"} /\ acts < MaxActs /\ acts' = acts + 1
  /\ job' = NoJob
  /\ UNCHANGED <<now, active, reading, scoped, rows, dead, config, history, polled>>

-----------------------------------------------------------------------------
(* The operator, in other processes.  What commutes with Persist does not    *)
(* happen between a switch and its Persist.                                  *)

Act == acts < MaxActs /\ acts' = acts + 1

ManualSwitch(to) ==
  /\ Act /\ job.pc # "persist" /\ to # active /\ to \notin dead
  /\ commitClaudeSwitch(to, "manual", FALSE, [head |-> None, recovery |-> None, trigger |-> None])
  /\ trail' = None
  /\ job' = IF Idle THEN job ELSE [job EXCEPT !.moved = TRUE]
  /\ UNCHANGED <<now, reading, scoped, dead, health, brk, parked, bad, polled>>

\* qlb auto resume; two resumes never share a timestamp.
Resume ==
  /\ Act /\ brk.resumed < now
  /\ brk' = [brk EXCEPT !.resumed = now, !.until = 0]
  /\ UNCHANGED <<now, active, reading, scoped, rows, dead, left, health, parked, job, history, polled>>

\* qlb auto scope: a park computed for the old windows is forgotten.
Scope ==
  /\ Act /\ scoped' = ~scoped /\ parked' = None
  /\ UNCHANGED <<now, active, reading, rows, dead, left, health, brk, job, history, polled>>

\* qlb auto --once --inject breaker-rows: three emergencies are projected into
\* one decision on an unknown reading.
seedRows == [i \in 1..3 |-> [ts |-> now, trigger |-> "failover", injected |-> FALSE]]

breakerRowsDrill ==
  decideAutoswitch(
    [now |-> now, active |-> active, dead |-> dead,
     w |-> [a \in Accounts |-> projectReadings(reading[a], now)],
     unknown |-> TRUE, expired |-> reading[active].status = "token-expired",
     ticks |-> UnhealthyTicks - 1,
     idle |-> IF health.acct = active /\ now - health.at <= HOUR THEN health.idle ELSE None,
     parked |-> parked, left |-> left,
     brk |-> brk, rows |-> rows.recent \o seedRows, switched |-> rows.last])

\* Synthetic evidence, a real suspension.
recordBreakerRowsDrill(until) ==
  /\ brk' = [brk EXCEPT !.until = until]
  /\ rows' = [rows EXCEPT !.recent = @ \o [i \in 1..3 |-> [seedRows[i] EXCEPT !.injected = TRUE]]]

BreakerDrill ==
  /\ Act /\ Idle
  /\ \E d \in {breakerRowsDrill} :
       /\ d.kind = "stay" /\ d.reason = "breaker"
       /\ recordBreakerRowsDrill(d.until)
  /\ UNCHANGED <<now, active, reading, scoped, dead, left, health, parked, job, history, polled>>

\* A refresh elsewhere finds the grant revoked.
SlotDies(a) ==
  /\ Act /\ job.pc # "persist" /\ a \notin dead /\ dead' = dead \cup {a}
  /\ trail' = None
  /\ UNCHANGED <<now, active, reading, scoped, rows, config, job, bad, polled>>

-----------------------------------------------------------------------------
Init ==
  /\ now = 1
  /\ active = CHOOSE a \in Accounts : \A b \in Accounts : Rank[a] <= Rank[b]
  /\ \E start \in Starts : reading = [a \in Accounts |-> readAt(start[a], 1)]
  /\ scoped = TRUE /\ dead = {}
  /\ rows = [recent |-> <<>>, last |-> None]
  /\ left = [from |-> None, to |-> None, head |-> None, recovery |-> None, trigger |-> None]
  /\ health = [ticks |-> 0, acct |-> None, at |-> 0, idle |-> None]
  /\ brk = [until |-> 0, ended |-> 0, resumed |-> 0]
  /\ parked = None
  /\ job = NoJob
  /\ bad = [acct |-> None, n |-> 0] /\ trail = None
  /\ polled = 0 /\ acts = 0

Results == [status : {"ok"}, usage : Usages]
             \cup [status : {"none", "http-500", "http-429", "token-expired"}, usage : {None}]

Next ==
  \/ \E gap \in Gaps, own, res \in Results, other \in Accounts, inject \in BOOLEAN :
       /\ gap = 0 => own.status # "none"
       /\ inject => own.status = "none" /\ acts < MaxActs
       /\ res.status \in {"ok", "none"}
       /\ IF res.status = "none" THEN other = active
          ELSE other # active /\ own.status = "ok"
       /\ Poll(gap, own, other, res, inject)
  \/ Decide \/ SwitchCommits \/ SwitchFails \/ Persist \/ Crash
  \/ \E a \in Accounts : ManualSwitch(a) \/ SlotDies(a)
  \/ Resume \/ Scope \/ BreakerDrill

Spec == Init /\ [][Next]_vars

-----------------------------------------------------------------------------
(* Properties *)

\* The circuit breaker bounds emergencies: since the last resume, and within
\* any hour, at most three automatic failovers or at-limit switches committed,
\* whatever resumes, drills, crashes and overtaken ticks did to the breaker's
\* two timestamps (breakerDecision, persistTickState).
EmergencyBounded ==
  Cardinality({i \in DOMAIN rows.recent :
     /\ rows.recent[i].trigger \in {"failover", "at-limit"} /\ ~rows.recent[i].injected
     /\ rows.recent[i].ts > Max({now - HOUR, brk.resumed})}) <= 3

\* A tick never puts back a suspension the operator has just lifted: when it
\* writes one, three emergencies lie after the resume now on record.
SuspensionJustified ==
  [][Persist /\ brk'.until > brk.until =>
       Cardinality({i \in DOMAIN job.in.rows :
          /\ job.in.rows[i].trigger \in {"failover", "at-limit"}
          /\ job.in.rows[i].ts > brk'.resumed}) >= 3]_vars

\* S45: an automatic headroom switch is not undone by the next one while
\* everything known of the two accounts is what it was (noReturnAccount).
NoBounce ==
  (/\ job.pc = "switch" /\ job.d.reason = "proactive" /\ trail # None
   /\ trail.to = job.in.active /\ trail.from = job.d.target) =>
       \E a \in {trail.from, trail.to} : trail.known[a] # job.in.w[a]

\* A failover leaves an account only after that same account was unknown on
\* UnhealthyTicks ticks in a row, whoever was active in between.
FailoverEarned ==
  job.pc = "switch" /\ job.d.reason = "failover" =>
    unknownTicks(job.in) >= UnhealthyTicks

=============================================================================
