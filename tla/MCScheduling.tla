---------------------------- MODULE MCScheduling ----------------------------
(* Which account, and when: the polls of usage (UsagePolling), the automatic  *)
(* switches decided on them (AutoSwitch), and the choice made for a request   *)
(* (Selection).                                                               *)
(* The components share no state here, so TLC takes them side by side: a      *)
(* behaviour moves one of them and leaves the others where they began.        *)
EXTENDS Selection

CONSTANTS
  s1, s2, s3,
  ScopedModels, RetryAfters, MaxPollRows, MaxPollMoves,
  Weekly, UnhealthyTicks, Strategy, COOLDOWN, HYSTERESIS, IDLE_HOLD, HOUR, HORIZON, Gaps,
  MaxNow, MaxPolls, MaxActs

\* Three Claude slots, and what their providers may answer.
ClaudeSlots == {s1, s2, s3}
SlotRank == s1 :> 1 @@ s2 :> 2 @@ s3 :> 3
W(p, r) == [pct |-> p, reset |-> r]

\* At rest, in the band, exhausted; resets past, missing, near and far.
PollUsages ==
  {"5h" :> W(40, -1000000) @@ "7d" :> W(50, 20),
   "5h" :> W(80, 20) @@ "7d" :> W(50, -30) @@ "scoped" :> W(100, 5),
   "5h" :> W(100, -30) @@ "7d" :> W(60, 400),
   "5h" :> W(100, -30) @@ "7d" :> W(100, 100)}

\* At rest, exhausted, and over the line with headrooms and resets that rank
\* differently.
Reading(w, d) == [w |-> w, due |-> d]
Rest == Reading("5h" :> W(20, 8) @@ "7d" :> W(30, 9), 3)
Exhausted == Reading("5h" :> W(100, 7), 1)
Near == Reading("5h" :> W(96, 8), 4)
Far == Reading("7d" :> W(92, 12) @@ "scoped" :> W(40, 9), 4)
AutoUsages == {Rest, Exhausted}
Starts == {s1 :> Exhausted @@ s2 :> Rest @@ s3 :> Rest,
           s1 :> Near @@ s2 :> Far @@ s3 :> Exhausted}
LineOf == s1 :> 90 @@ s2 :> 90 @@ s3 :> 80

\* Two Claude accounts, two Codex accounts that share a bare id, and a request that
\* falls back from one model to the other.
IsClaude(a) == a \in {"a1", "a2"}
MCProvider == [a \in Accounts |-> IF IsClaude(a) THEN "anthropic" ELSE "openai-codex"]
MCRank == "a1" :> 1 @@ "a2" :> 2 @@ "c1" :> 3 @@ "c2" :> 4
MCListed == "a1" :> 2 @@ "a2" :> 1 @@ "c1" :> 3 @@ "c2" :> 3
MCRowOrder == "a1" :> 1 @@ "a2" :> 2 @@ "c1" :> 4 @@ "c2" :> 3
MCAdapters == <<"openai-codex", "anthropic">>
MCBare == [a \in Accounts |-> IF IsClaude(a) THEN None ELSE "bare"]
MCModelProvider == [m \in {"gpt", "claude"} |-> IF m = "gpt" THEN "openai-codex" ELSE "anthropic"]
MCRelevant == [m \in {"gpt", "claude"} |-> IF m = "gpt" THEN {"primary", "secondary"} ELSE {"5h", "7d"}]
MCHash == [s \in {"s1"} |-> 1]
MCOwned == {Accounts, Accounts \ {"c2"}}
R(pct, conf, win) == [pct |-> pct, conf |-> conf, win |-> win]
Claude(five, week) == [error |-> FALSE, b |-> "5h" :> five @@ "7d" :> week]
Codex(five, week) == [error |-> FALSE, b |-> "primary" :> five @@ "secondary" :> week]
Roomy == Claude(R(50, "authoritative", None), R(20, "authoritative", None))
Tight == Claude(R(40, "stale", None), R(90, "authoritative", None))
Full == Claude(R(10, "authoritative", None), R(100, "stale", None))
Fails == [error |-> TRUE, b |-> <<>>]
Even == Codex(R(40, "authoritative", 300), R(50, "authoritative", 10080))
Vague == Codex(R(100, "advisory", 300), R(None, "authoritative", 10080))
Over == Codex(R(100, "authoritative", 10080), R(10, "stale", 300))
MCReadings == "a1" :> {Roomy, Full} @@ "a2" :> {Roomy, Tight, Fails} @@ "c1" :> {Even, Over} @@ "c2" :> {Even, Vague}
Rq(chain, strategy, session) == [chain |-> chain, strategy |-> strategy, session |-> session]
MCRequests ==
  {Rq(<<"gpt", "claude">>, "headroom", "s1"), Rq(<<"claude">>, "spread", "s1"),
   Rq(<<"claude">>, "round-robin", None), Rq(<<"claude", "gpt">>, "failover", None)}

VARIABLES
  part,  \* the component whose steps this behaviour takes
  active, live, dead, polls, snap, pollingJob, plan, over, pollingMoves, count,
  now, autoActive, reading, scoped, autoRows, left, health, autoDead, brk, parked, autoJob,
  bad, trail, polled, acts

Polling == INSTANCE UsagePolling WITH
  Accounts <- ClaudeSlots, Rank <- SlotRank, Usages <- PollUsages,
  MaxPolls <- MaxPollRows, MaxMoves <- MaxPollMoves, job <- pollingJob,
  moves <- pollingMoves
Auto == INSTANCE AutoSwitch WITH
  Accounts <- ClaudeSlots, Rank <- SlotRank, Usages <- AutoUsages, active <- autoActive,
  rows <- autoRows, dead <- autoDead,
  job <- autoJob
\* The same with more of the operator, who drills and resumes, and less of the provider.
Drills == INSTANCE AutoSwitch WITH
  Accounts <- ClaudeSlots, Rank <- SlotRank, Usages <- AutoUsages, active <- autoActive,
  rows <- autoRows, dead <- autoDead,
  job <- autoJob, MaxNow <- MaxNow - 1, MaxPolls <- 1, MaxActs <- 2

pollingVars == <<active, live, dead, polls, snap, pollingJob, plan, over, pollingMoves,
                 count>>
autoVars == <<now, autoActive, reading, scoped, autoRows, left, health, autoDead, brk,
              parked, autoJob, bad, trail, polled, acts>>

ASSUME SchedulingAssumption == Polling!PollingAssumption /\ Auto!AutoSwitchAssumption

\* What may be known, and on record, when the requests begin.
NoStick == \A p \in Providers : sticky[p] = None
Known(a1, a2, c2) == usage["a1"] = a1 /\ usage["a2"] = a2 /\ usage["c2"] = c2
ChoiceInit ==
  /\ Init /\ login = "c1" /\ usage["c1"] = Even
  /\ \/ Known(Full, Tight, Even) /\ owned = Accounts /\ ~NoStick
        /\ sticky["openai-codex"] # "c1"
     \/ Known(Roomy, Roomy, Even) /\ owned = Accounts /\ NoStick
     \/ Known(Roomy, Tight, Even) /\ owned = Accounts /\ NoStick
     \/ Known(Full, Fails, Vague) /\ owned # Accounts /\ NoStick

\* The other components rest in one of their own initial states.
Side(x) == part # x
SuiteInit ==
  /\ part \in {"Choice", "Polling", "Auto", "Drills"}
  /\ ChoiceInit /\ (Side("Choice") => Known(Roomy, Tight, Even))
  /\ Polling!Init /\ (Side("Polling") => active = s1)
  /\ Auto!Init /\ (Side("Auto") /\ Side("Drills") => reading[s1].w = Exhausted.w)

SuiteNext ==
  \/ part = "Choice" /\ Next /\ UNCHANGED <<part, pollingVars, autoVars>>
  \/ part = "Polling" /\ Polling!Next /\ UNCHANGED <<part, vars, autoVars>>
  \/ part = "Auto" /\ Auto!Next /\ UNCHANGED <<part, vars, pollingVars>>
  \/ part = "Drills" /\ Drills!Next /\ UNCHANGED <<part, vars, pollingVars>>

SuiteVars == <<part, vars, pollingVars, autoVars>>
SuiteSpec == SuiteInit /\ [][SuiteNext]_SuiteVars

\* Requests being resolved are interchangeable.
Symmetry == Permutations(Procs)

-----------------------------------------------------------------------------
\* A stored usage was served to a token of the account it is stored under; the plan
\* made from it neither hammers the provider nor oversleeps; and no due account is
\* passed over more than once by each of the others.
PollingSound == Polling!ReadingsAttributed /\ Polling!PlanSane /\ Polling!FairRotation

\* The breaker bounds emergencies to three an hour, a headroom switch is not undone by
\* the next one on the same knowledge, and a failover leaves only an account that was
\* itself unknown on UnhealthyTicks ticks in a row.
AutoSound == Auto!EmergencyBounded /\ Auto!NoBounce /\ Auto!FailoverEarned

\* A tick never puts back a suspension the operator has just lifted.
SuspensionJustified == Auto!SuspensionJustified
=============================================================================
