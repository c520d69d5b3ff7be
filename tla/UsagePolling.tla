---------------------------- MODULE UsagePolling ----------------------------
(***************************************************************************)
(* Scheduled collection of Claude usage by the automatic-switch loop:      *)
(* poll-policy.ts decides when an account is read again, auto/anthropic.ts *)
(* reads the active account and at most one inactive account per tick, and *)
(* store.ts keeps the rows.  The operator switches accounts and Claude     *)
(* Code replaces the live login while a request is in flight.              *)
(*                                                                         *)
(* Delays are seconds; the rows keep them in ticks of the loop (60 s,      *)
(* rounded up: the loop looks at a row only when it ticks).  A usage is a  *)
(* function from window labels to [pct, reset], reset relative to now, and *)
(* the empty function is an unknown usage.                                 *)
(***************************************************************************)
EXTENDS Integers, FiniteSets, FiniteSetsExt

CONSTANTS
  Accounts,     \* the Claude slots
  Rank,         \* accountId order, an injection Accounts -> Nat
  Usages,       \* the usages a response may carry
  RetryAfters,  \* the Retry-After of a 429, None when absent
  ScopedModels, \* TRUE when model-scoped windows count (auto scope)
  MaxPolls,     \* bound: ticks start while fewer poll rows than this were written
  MaxMoves,     \* bound: switches, logins and clock changes
  None

PollingAssumption ==
  /\ Rank \in [Accounts -> Nat]
  /\ \A a, b \in Accounts : a # b => Rank[a] # Rank[b]
  /\ ScopedModels \in BOOLEAN

Foreign == "foreign"     \* a login QLB does not manage
NoReset == -1000000      \* a window without a parsable reset

TICK == 60
MIN_INTERVAL == 180
URGENT_INTERVAL == 60
CANDIDATE_DEFAULT == 300
EXHAUSTED_INTERVAL == 600
POST_429_MIN == 360
POST_429_MAX == 1800
RECENT_429 == 61         \* ticks after which a 429 is older than RECENT_429_WINDOW_S
RESET_SLACK == 60
Threshold == 90
EscalationMargin == 15
CLOCK_JUMP == 60         \* ticks the wall clock is set back by
LONG_SLEEP == 120        \* ticks the machine may sleep

VARIABLES
  active,  \* the active_login row
  live,    \* whose credential Claude Code's live login is
  dead,    \* slots struck dead
  polls,   \* the usage_polls rows
  snap,    \* the stored reading: the usage, and whose token was served it
  job,     \* the tick in progress
  plan,    \* the plan written last, for the properties
  over,    \* history: who was read, how often, before a due account's turn
  moves, count

vars == <<active, live, dead, polls, snap, job, plan, over, moves, count>>

Unknown == [l \in {} |-> 0]
Idle == [pc |-> "idle"]
NoPlan == [delay |-> MIN_INTERVAL, interval |-> MIN_INTERVAL, limited |-> FALSE,
           urgent |-> FALSE, spent |-> FALSE, reset |-> NoReset]

Nobody == [a \in Accounts |-> 0]

Pos(n) == Max({n, 0})
Ticks(s) == (s + TICK - 1) \div TICK

-----------------------------------------------------------------------------
(* poll-policy.ts *)

relevantWindows(u) == {l \in DOMAIN u : l # "scoped" \/ ScopedModels}
bindingPct(u) == Max({u[l].pct : l \in relevantWindows(u)})
Known(u) == relevantWindows(u) # {}
accountHeadroom(u) == 100 - bindingPct(u)

\* A reset that is missing is never used; one in the past still competes for
\* the limiting reset, and then does not shorten the plan.
limitingReset(u) ==
  LET rs == {u[l].reset : l \in {w \in relevantWindows(u) : u[w].pct >= 100}} \ {NoReset}
  IN IF rs = {} THEN NoReset ELSE Max(rs)

earliestFutureReset(u) ==
  LET rs == {r \in {u[l].reset : l \in relevantWindows(u)} : r > 0}
  IN IF rs = {} THEN NoReset ELSE Min(rs)

risingInBand(prev, new) ==
  \E l \in relevantWindows(new) \cap relevantWindows(prev) :
    /\ new[l].pct - prev[l].pct >= 1
    /\ new[l].pct >= Threshold - EscalationMargin

Abs(n) == IF n < 0 THEN -n ELSE n

intervalAfter(base, default, prev, new, isActive, limited) ==
  LET ceiling == IF isActive THEN 300 ELSE 600
      paced == IF ~Known(prev) \/ ~Known(new) THEN default
               ELSE IF Abs(bindingPct(new) - bindingPct(prev)) >= 1
                    THEN Max({MIN_INTERVAL, base \div 2})
                    ELSE Min({ceiling, Max({MIN_INTERVAL, (base * 3) \div 2})})
      urgent == IF isActive /\ risingInBand(prev, new) /\ ~limited
                THEN URGENT_INTERVAL ELSE paced
      backed == IF limited
                THEN Min({POST_429_MAX, Max({urgent, (base * 3) \div 2, POST_429_MIN})})
                ELSE urgent
  IN IF Known(new) /\ accountHeadroom(new) <= 0
     THEN Max({backed, EXHAUSTED_INTERVAL}) ELSE backed

cappingReset(new) ==
  IF ~Known(new) THEN NoReset
  ELSE IF accountHeadroom(new) <= 0 THEN limitingReset(new) ELSE earliestFutureReset(new)

\* Mutant: a reset in the past is taken for the next poll.
cappedByAnyReset(delay, reset) ==
  IF reset # NoReset THEN Min({delay, reset + RESET_SLACK}) ELSE delay

capByReset(delay, reset) ==
  IF reset > 0 THEN Min({delay, reset + RESET_SLACK}) ELSE delay

planAfterFetch(prevInterval, prev, new, isActive, limited, jitter) ==
  LET default == IF isActive THEN MIN_INTERVAL ELSE CANDIDATE_DEFAULT
      base == IF prevInterval = 0 THEN default ELSE prevInterval
      interval == intervalAfter(base, default, prev, new, isActive, limited)
  IN [delay |-> capByReset((interval * (10 + jitter)) \div 10, cappingReset(new)),
      interval |-> interval, limited |-> limited,
      urgent |-> isActive /\ risingInBand(prev, new) /\ ~limited
                 /\ accountHeadroom(new) > 0,
      spent |-> Known(new) /\ accountHeadroom(new) <= 0,
      reset |-> cappingReset(new)]

planOversleepsInterval(row) ==
  LET interval == Max({row.interval, EXHAUSTED_INTERVAL})
  IN row.due * TICK > (interval * 11) \div 10 + RESET_SLACK + TICK

excludedFromPoll(row) == row.backoff > 0

isDue(row) ==
  /\ ~excludedFromPoll(row)
  /\ row.due = 0 \/ planOversleepsInterval(row)

dueCandidate(cands, rows) ==
  LET due == {a \in cands : isDue(rows[a])}
      Before(a, b) == \/ rows[a].touched < rows[b].touched
                      \/ rows[a].touched = rows[b].touched /\ Rank[a] <= Rank[b]
  IN IF due = {} THEN None ELSE CHOOSE a \in due : \A b \in due : Before(a, b)

-----------------------------------------------------------------------------
(* store.ts *)

usageFailureBackoff(failures, retryAfter, rateLimited) ==
  LET computed == Min({30 * 2^Min({failures - 1, 5}), 600})
      asked == IF retryAfter > 600 /\ rateLimited THEN retryAfter + 900 ELSE retryAfter
  IN CASE retryAfter = None -> computed
       [] retryAfter = 0 ->
            IF rateLimited THEN Min({Max({computed, 300}), 600}) ELSE computed
       [] OTHER -> Max({computed, Min({asked, IF rateLimited THEN 4500 ELSE 3600})})

\* The row after a result, before its plan: a success clears the failures and
\* keeps the time of the last 429, a failure backs off.
recordUsagePollResult(row, ok, rateLimited, retryAfter, seq) ==
  IF ok
  THEN [row EXCEPT !.touched = seq, !.failures = 0, !.backoff = 0]
  ELSE [row EXCEPT !.touched = seq, !.failures = Min({@ + 1, 6}),
          !.backoff = Ticks(usageFailureBackoff(row.failures + 1, retryAfter, rateLimited)),
          !.limited = IF rateLimited THEN RECENT_429 ELSE @]

writeUsagePollPlans(row, p) == [row EXCEPT !.due = Ticks(p.delay), !.interval = p.interval]

-----------------------------------------------------------------------------
(* auto/anthropic.ts: pollAnthropic *)

\* The closure `record`: the result, then the plan computed from the row and
\* the snapshot of the tick's start (nobody else writes them during the tick).  `served` is whose token got the usage.
record(a, usage, rateLimited, retryAfter, isActive, served) ==
  \E jitter \in {-1, 1} :
    LET ok == usage # Unknown
        prior == polls[a]
        limited == rateLimited \/ prior.limited > 0
        p == planAfterFetch(prior.interval, snap[a].usage, usage, isActive, limited, jitter)
        row == recordUsagePollResult(polls[a], ok, rateLimited, retryAfter, job.at)
    IN /\ polls' = [polls EXCEPT ![a] = writeUsagePollPlans(row, p)]
       /\ plan' = p
       /\ snap' = IF ok THEN [snap EXCEPT ![a] = [usage |-> usage, of |-> served]] ELSE snap
       /\ count' = count + 1

NoRecord == UNCHANGED <<polls, plan, snap, count>>

\* The loop wakes for its next tick: when an account is due already it slept one
\* tick, otherwise to the first tick at which one is, or the machine slept longer.
sleepTicks ==
  LET waits == {Max({polls[a].due, polls[a].backoff}) : a \in Accounts \ dead}
      next == IF waits = {} THEN 1 ELSE Max({1, Min(waits)})
  IN {next, LONG_SLEEP}

slept(row, k) == [row EXCEPT !.due = Pos(@ - k), !.backoff = Pos(@ - k), !.limited = Pos(@ - k)]

\* The tick reads the clock (at), the active row, the polls and the slots; it polls
\* the active slot first when that is due.  All its results carry that one time.
Start ==
  /\ job.pc = "idle"
  /\ count < MaxPolls
  /\ \E k \in sleepTicks : polls' = [a \in Accounts |-> slept(polls[a], k)]
  /\ job' = [pc |-> IF active \in Accounts \ dead /\ isDue(polls'[active])
                    THEN "live" ELSE "pick",
             active |-> active, at |-> count + 1]
  /\ UNCHANGED <<active, live, dead, snap, plan, over, moves, count>>

\* The slot, then the live credential: the slot is a degraded fallback when
\* the live login cannot be read, and an unreadable slot is recorded at once.
ReadCredential ==
  /\ job.pc = "live"
  /\ \/ /\ job' = [pc |-> "pick", active |-> job.active, at |-> job.at]
        /\ record(job.active, Unknown, FALSE, None, TRUE, None)
     \/ /\ \E served \in {live, job.active} :
             job' = [pc |-> "fetch", active |-> job.active, at |-> job.at, served |-> served]
        /\ NoRecord
  /\ UNCHANGED <<active, live, dead, over, moves>>

\* The lineage that was served is one of the slot's, or an identity probe has
\* matched it to the account; nobody else's lineage or probe can match.  (When
\* the account's own lineage is still unknown the result is recorded as a
\* failure, live-unattributed.)
attributed(served) == served = job.active

\* The answer of the active request.  A switch committed meanwhile discards it
\* and ends the tick's poll.
FetchActive ==
  /\ job.pc = "fetch"
  /\ IF active # job.active
     THEN job' = Idle /\ NoRecord
     ELSE /\ job' = [pc |-> "pick", active |-> job.active, at |-> job.at]
          /\ \/ /\ attributed(job.served)
                /\ \E u \in Usages : record(job.active, u, FALSE, None, TRUE, job.served)
             \/ \E retry \in RetryAfters : record(job.active, Unknown, TRUE, retry, TRUE, None)
             \/ record(job.active, Unknown, FALSE, None, TRUE, None)
  /\ UNCHANGED <<active, live, dead, over, moves>>

inactiveIds == (Accounts \ dead) \ {job.active}

\* At most one inactive account, chosen on the rows of the tick's start.
PickInactive ==
  /\ job.pc = "pick"
  /\ LET a == dueCandidate(inactiveIds, polls)
     IN /\ over' = [b \in Accounts |->
                      IF a # None /\ b \in inactiveIds \ {a} /\ isDue(polls[b])
                      THEN [over[b] EXCEPT ![a] = Min({@ + 1, 2})] ELSE Nobody]
        /\ \/ a = None /\ job' = Idle /\ NoRecord
           \/ a # None /\ job' = Idle /\ record(a, Unknown, FALSE, None, FALSE, None)
           \/ /\ a # None
              /\ \E expired \in BOOLEAN :
                   job' = [pc |-> IF expired THEN "spend" ELSE "ask",
                           active |-> job.active, at |-> job.at, cand |-> a]
              /\ NoRecord
  /\ UNCHANGED <<active, live, dead, moves>>

\* An expired token is refreshed only if, read again, the account is neither
\* active nor the live lineage; otherwise, and when the live login cannot be
\* read, its turn is yielded for an interval.
SpendCheck ==
  /\ job.pc = "spend"
  /\ LET a == job.cand
         interval == IF polls[a].interval = 0 THEN 300 ELSE polls[a].interval
     IN \/ /\ polls' = [polls EXCEPT ![a].due = Ticks(interval), ![a].interval = interval]
           /\ job' = Idle
           /\ over' = [b \in Accounts |-> [over[b] EXCEPT ![a] = 0]]
           /\ count' = count + 1
           /\ UNCHANGED <<plan, snap, dead>>
        \/ /\ active # a /\ live # a
           /\ UNCHANGED over
           /\ \/ /\ job' = [job EXCEPT !.pc = "ask"]               \* refreshed or current
                 /\ NoRecord /\ UNCHANGED dead
              \/ /\ \E struck \in BOOLEAN : dead' = IF struck THEN dead \cup {a} ELSE dead
                 /\ record(a, Unknown, FALSE, None, FALSE, None)   \* consume-dead
                 /\ job' = Idle
              \/ /\ \E retry \in {None, 3600} : record(a, Unknown, FALSE, retry, FALSE, None)
                 /\ job' = Idle /\ UNCHANGED dead                  \* unpersisted, other refusals
  /\ UNCHANGED <<active, live, moves>>

\* The answer for the inactive account, asked with its own slot's token.
FetchInactive ==
  /\ job.pc = "ask"
  /\ job' = Idle
  /\ \/ \E u \in Usages : record(job.cand, u, FALSE, None, FALSE, job.cand)
     \/ \E retry \in RetryAfters : record(job.cand, Unknown, TRUE, retry, FALSE, None)
     \/ record(job.cand, Unknown, FALSE, None, FALSE, None)
  /\ UNCHANGED <<active, live, dead, over, moves>>

-----------------------------------------------------------------------------
(* Everything else *)

\* The wall clock is set back: every stamp moves away.
ClockBack ==
  /\ moves < MaxMoves /\ job.pc = "idle"
  /\ polls' = [a \in Accounts |-> [polls[a] EXCEPT !.due = IF @ > 0 THEN @ + CLOCK_JUMP ELSE 0,
                                     !.backoff = IF @ > 0 THEN @ + CLOCK_JUMP ELSE 0]]
  /\ moves' = moves + 1
  /\ UNCHANGED <<active, live, dead, snap, job, plan, over, count>>

\* Another process commits a switch: the live credential and the row.  (It
\* happens before a step that reads them; elsewhere it would commute.)
Switch(a) ==
  /\ moves < MaxMoves /\ a \notin dead /\ a # active
  /\ job.pc \in {"idle", "live", "fetch", "spend"}
  /\ active' = a /\ live' = a
  /\ moves' = moves + 1
  /\ UNCHANGED <<dead, polls, snap, job, plan, over, count>>

\* Claude Code rotates its token, or the user logs in with any account.
Login(who) ==
  /\ moves < MaxMoves
  /\ job.pc \in {"live", "spend"}
  /\ live' = who
  /\ dead' = dead \ {who}
  /\ moves' = moves + 1
  /\ UNCHANGED <<active, polls, snap, job, plan, over, count>>

Init ==
  /\ active \in Accounts
  /\ live = active
  /\ dead = {}
  /\ polls = [a \in Accounts |-> [due |-> 0, interval |-> 0, backoff |-> 0, failures |-> 0,
                                  limited |-> 0, touched |-> 0]]
  /\ snap = [a \in Accounts |-> [usage |-> Unknown, of |-> None]]
  /\ job = Idle /\ plan = NoPlan
  /\ over = [a \in Accounts |-> Nobody]
  /\ moves = 0 /\ count = 0

Next ==
  \/ Start \/ ReadCredential \/ FetchActive \/ PickInactive \/ SpendCheck \/ FetchInactive
  \/ ClockBack
  \/ \E a \in Accounts : Switch(a)
  \/ \E who \in Accounts \cup {Foreign} : Login(who)

Spec == Init /\ [][Next]_vars

-----------------------------------------------------------------------------
(* Properties *)

\* A stored usage was always served to a token of the account it is stored
\* under, whatever switches and logins fall into the request
\* (pollAnthropic's recheck of the active row and of the lineage).  Little more than that
\* recheck: the rest of PollingSound is what takes several polls to break.
ReadingsAttributed == \A a \in Accounts : snap[a].of \in {None, a}

\* Whatever a response says, the plan neither hammers the provider nor
\* oversleeps: the next poll is at least 54 s away and at most 10 % past its
\* interval; a rate limit in the last hour keeps the interval at six minutes or
\* more; an active account climbing towards its line is read within 66 s; and
\* an exhausted account is read within a minute of the reset that frees it.
PlanSane ==
  /\ plan.delay >= 54 /\ plan.delay * 10 <= plan.interval * 11
  /\ plan.interval >= URGENT_INTERVAL /\ plan.interval <= POST_429_MAX
  /\ plan.limited => plan.interval >= POST_429_MIN
  /\ plan.urgent => plan.delay <= 66
  /\ (plan.spent /\ plan.reset > 0) => plan.delay <= plan.reset + RESET_SLACK

\* One inactive account is read per tick and none is starved: a due account is
\* passed over at most once by each of the others before its turn, even when
\* their polls fail or come due again while the machine sleeps.  (A turn that
\* is yielded is not counted: it leaves the last attempt where it was.)
FairRotation == \A a, b \in Accounts : over[a][b] <= 1

=============================================================================
