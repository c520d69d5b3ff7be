------------------------------ MODULE Selection ------------------------------
(***************************************************************************)
(* Which account serves a request.  candidates.ts collects snapshots, live *)
(* or from the last recorded observation, resolve.ts walks the request's   *)
(* model and its fallbacks, strategies.ts picks by headroom, spread, round *)
(* robin or failover, scoring.ts scores, why.ts explains what would be     *)
(* picked.  Jobs are separate processes: `qlb resolve` asks the adapters   *)
(* one after the other, the proxy takes the store's rows; both pick from   *)
(* that, on cursors and overrides read when they pick, and write their     *)
(* choice down afterwards.  C-swap's login in place of the Claude accounts *)
(* (consume) is in LoopbackProxy.                                          *)
(***************************************************************************)
EXTENDS Integers, Sequences, FiniteSets, FiniteSetsExt, TLC

CONSTANTS
  Procs,
  Accounts, Rank,        \* ids in their sort order
  Listed, RowOrder,      \* their order in an adapter's answer and in the store
  Adapters,              \* the providers in the order they are asked
  Provider,              \* account -> provider
  Bare,                  \* account -> legacy bare id (Codex), or None
  OwnedSets,             \* the sets of accounts that may have a row in the store
  ModelProvider,         \* model -> provider, a function on the models
  Relevant,              \* model -> the buckets its provider counts for it
  DEFAULT_WHY_MODEL,
  Requests,              \* [chain, strategy, session]
  Hash,                  \* session -> hash
  Readings,              \* account -> what its provider may say of it
  Persists,              \* providers whose snapshots may be stored
  MaxEvents,             \* bound: requests, explanations and changes from outside
  None

Providers == {Provider[a] : a \in Accounts}
DEFAULT_CEILING == 80
ALL_IN_CEILING == 100
UNKNOWN_SCORE == 20      \* scores are in twentieths
SPREAD_MARGIN == 200

ASSUME SelectionAssumption ==
  /\ \A a, b \in Accounts : a # b => Rank[a] # Rank[b]
  /\ \A r \in Requests : \A i \in DOMAIN r.chain : r.chain[i] \in DOMAIN ModelProvider

VARIABLES
  owned,     \* accounts with a row in the store
  login,     \* the Codex account of auth.json, or None
  usage,     \* what each provider would say now
  rows,      \* the store's snapshot rows, which the proxy and the polls write
  overrides, \* rows [kind, account, session]; a pin may name a bare id
  cursor,    \* round-robin:<provider>: the index
  sticky,    \* failover:<provider>: an account id, a bare id or None
  observed,  \* observed:<provider>: the last recorded observation
  last,      \* the model of the last routing decision, or None
  job,       \* the resolves and explanations in progress
  said,      \* the last `qlb why`: what it was asked, on which state, the answer
  events

vars == <<owned, login, usage, rows, overrides, cursor, sticky, observed, last, job, said, events>>

-----------------------------------------------------------------------------
(* scoring.ts *)

\* The window's length, where the provider gives it, before the label.
bucketClass(l, w) ==
  CASE w = 300 -> "5h"
    [] w = 10080 -> "weekly"
    [] w \notin {300, 10080} /\ l = "credits" -> "balance"
    [] w \notin {300, 10080} /\ l \in {"5h", "primary"} -> "5h"
    [] w \notin {300, 10080} /\ l \in {"7d", "7d:Opus", "weekly", "secondary"} -> "weekly"
    [] OTHER -> "other"

scarcityDiscount(class) == IF class = "weekly" THEN 6 ELSE 10

\* Advisory and unknown readings never enter the minimum.
confidenceFactor(c) == CASE c = "authoritative" -> 2 [] c = "stale" -> 1 [] OTHER -> 0

scoredBuckets(s, m) ==
  {l \in DOMAIN s.b \cap Relevant[m] :
     s.b[l].pct # None /\ confidenceFactor(s.b[l].conf) > 0 /\ bucketClass(l, s.b[l].win) # "other"}

scoreAccount(s, m, ceiling) ==
  LET term(l) == scarcityDiscount(bucketClass(l, s.b[l].win)) * (ceiling - s.b[l].pct)
                 * confidenceFactor(s.b[l].conf)
      keys == scoredBuckets(s, m)
  IN IF keys = {} THEN UNKNOWN_SCORE ELSE Min({term(l) : l \in keys})

-----------------------------------------------------------------------------
(* strategies.ts.  snaps is a function on the candidate accounts. *)

inOrder(S) == CHOOSE q \in [1..Cardinality(S) -> S] :
                \A i, j \in DOMAIN q : i < j => Rank[q[i]] < Rank[q[j]]

findUniqueCodexAlias(id, snaps) ==
  LET matches == {a \in DOMAIN snaps : Provider[a] = "openai-codex" /\ Bare[a] # None /\ Bare[a] = id}
  IN IF Cardinality(matches) = 1 THEN CHOOSE a \in matches : TRUE ELSE None

scores(snaps, S, m, ceiling) == [a \in S |-> scoreAccount(snaps[a], m, ceiling)]
positive(sc) == {a \in DOMAIN sc : sc[a] > 0}

\* The first candidate with the greatest score, in the order they were read.
bestOf(snaps, sc) ==
  LET P == positive(sc)
  IN IF P = {} THEN None
     ELSE CHOOSE a \in P :
            \A b \in P : sc[a] > sc[b] \/ (sc[a] = sc[b] /\ snaps[a].at <= snaps[b].at)

NoPick == [account |-> None, cursor |-> None, sticky |-> None]
pick(a) == [NoPick EXCEPT !.account = a]
orElse(a, b) == IF a # None THEN a ELSE b

pickHeadroomThenAllIn(snaps, S, m) ==
  pick(orElse(bestOf(snaps, scores(snaps, S, m, DEFAULT_CEILING)),
              bestOf(snaps, scores(snaps, S, m, ALL_IN_CEILING))))

\* The accounts within the margin of the best, taken by the session's hash.
spreadOver(sc, session) ==
  LET P == positive(sc)
      tied == inOrder({a \in P : Max({sc[b] : b \in P}) - sc[a] <= SPREAD_MARGIN})
  IN IF P = {} THEN NoPick ELSE pick(tied[1 + (Hash[session] % Len(tied))])

spreadCeiling(snaps, S, m) ==
  IF positive(scores(snaps, S, m, DEFAULT_CEILING)) # {} THEN DEFAULT_CEILING ELSE ALL_IN_CEILING

pickSpread(snaps, S, m, session) ==
  IF session = None THEN pickHeadroomThenAllIn(snaps, S, m)
  ELSE spreadOver(scores(snaps, S, m, spreadCeiling(snaps, S, m)), session)

isFullyExhausted(s, m) == s.error \/ scoreAccount(s, m, ALL_IN_CEILING) <= 0

peekRoundRobinIndex(c, n) == (c + 1) % n
nextRoundRobinIndex(c, n) == (c + 1) % n

\* A peek reads the cursor, a resolve also moves it.
nextTurn(E, persist) ==
  LET c == cursor[Provider[CHOOSE a \in E : TRUE]]
  IN IF persist THEN nextRoundRobinIndex(c, Cardinality(E)) ELSE peekRoundRobinIndex(c, Cardinality(E))

pickTurn(E, i) == [account |-> inOrder(E)[i + 1], cursor |-> i, sticky |-> None]

rotateOver(E, persist) == IF E = {} THEN NoPick ELSE pickTurn(E, nextTurn(E, persist))

pickRoundRobin(snaps, S, m, persist) ==
  rotateOver({a \in S : ~isFullyExhausted(snaps[a], m)}, persist)

\* Mutant: an account whose window is full is stuck to.
stickAnyway(s, m) == ~s.error

\* Any known percentage counts here, whatever its confidence.
hasFailoverHeadroom(s, m) ==
  ~s.error /\ \A l \in DOMAIN s.b \cap Relevant[m] : s.b[l].pct # None => s.b[l].pct < 100

pickFirst(E) == [account |-> inOrder(E)[1], cursor |-> None, sticky |-> inOrder(E)[1]]

\* An id left by an older version binds only where it is unique among all
\* candidates, not just those with headroom now.
stickTo(id, E, all) ==
  IF id \in E THEN pick(id)
  ELSE IF findUniqueCodexAlias(id, all) \in E THEN pick(findUniqueCodexAlias(id, all))
  ELSE pickFirst(E)

failOver(E, all) ==
  IF E = {} THEN NoPick ELSE stickTo(sticky[Provider[CHOOSE a \in E : TRUE]], E, all)

pickFailover(snaps, S, m, all) == failOver({a \in S : hasFailoverHeadroom(snaps[a], m)}, all)

pickWithStrategy(strategy, snaps, S, m, session, persist, all) ==
  CASE strategy = "headroom" -> pickHeadroomThenAllIn(snaps, S, m)
    [] strategy = "spread" -> pickSpread(snaps, S, m, session)
    [] strategy = "round-robin" -> pickRoundRobin(snaps, S, m, persist)
    [] strategy = "failover" -> pickFailover(snaps, S, m, all)

firstPick(x, y) == IF x.account # None THEN x ELSE y

reserved == {o.account : o \in {x \in overrides : x.kind = "reserve"}}
drain == {o.account : o \in {x \in overrides : x.kind = "drain-first"}}

\* drain-first accounts are tried before the rest.
pickAccount(strategy, snaps, m, session, persist) ==
  LET ok == {a \in DOMAIN snaps : ~snaps[a].error}
      from(S) == pickWithStrategy(strategy, snaps, S, m, session, persist, snaps)
  IN firstPick(from(ok \cap drain), from(ok \ drain))

-----------------------------------------------------------------------------
(* resolve.ts *)

Answer(kind, a, m, pk) == [kind |-> kind, account |-> a, model |-> m, pick |-> pk]

pinsOf(session) == {o.account : o \in {x \in overrides : x.kind = "pin" /\ x.session = session}}

\* A pin is honoured or fails; it never falls through to a strategy, and it
\* overrides a reservation.
pinnedAccount(id, snaps) ==
  IF id \in DOMAIN snaps THEN id
  ELSE findUniqueCodexAlias(id, [x \in DOMAIN snaps \cap owned |-> snaps[x]])

pinnedTo(id, a, req, snaps) ==
  LET fits == {i \in DOMAIN req.chain : /\ ModelProvider[req.chain[i]] = Provider[a]
                                        /\ ~isFullyExhausted(snaps[a], req.chain[i])}
  IN IF a = None THEN Answer("pinned-unavailable", id, None, NoPick)
     ELSE IF snaps[a].error \/ fits = {} THEN Answer("pinned-unavailable", a, None, NoPick)
     ELSE Answer("ok", a, req.chain[Min(fits)], NoPick)

resolvePinned(req, snaps) ==
  LET id == CHOOSE x \in pinsOf(req.session) : TRUE IN pinnedTo(id, pinnedAccount(id, snaps), req, snaps)

\* A Codex slot is a candidate only while QLB has its row.
candidatesFor(m, snaps) ==
  [a \in {x \in DOMAIN snaps \ reserved : Provider[x] = ModelProvider[m]
                                         /\ (Provider[x] = "openai-codex" => x \in owned)} |-> snaps[a]]

\* The first model of the chain that some account can serve.
firstServed(chain, picks) ==
  LET hits == {i \in DOMAIN chain : picks[i].account # None}
  IN IF hits = {} THEN Answer("exhausted", None, None, NoPick)
     ELSE Answer("ok", picks[Min(hits)].account, chain[Min(hits)], picks[Min(hits)])

resolveFromSnapshots(req, snaps, persist) ==
  IF req.session # None /\ pinsOf(req.session) # {} THEN resolvePinned(req, snaps)
  ELSE firstServed(req.chain,
         [i \in DOMAIN req.chain |-> pickAccount(req.strategy, candidatesFor(req.chain[i], snaps),
                                                req.chain[i], req.session, persist)])

-----------------------------------------------------------------------------
(* candidates.ts *)

Event == events < MaxEvents /\ events' = events + 1

NoJob == [pc |-> "idle"]

providersForModels(chain) == {ModelProvider[chain[i]] : i \in DOMAIN chain}

accountsOf(p) == {a \in Accounts : Provider[a] = p}

\* A snapshot in its place of the list it is read in.
listed(f, order) == [a \in DOMAIN f |-> [error |-> f[a].error, b |-> f[a].b, at |-> order[a]]]

NoGauge == [error |-> FALSE, b |-> <<>>]

\* The Codex adapter knows one account, the login in auth.json, and reads no
\* usage unless a refresh asks it to probe.
answered(p, probe) ==
  IF p = "openai-codex" THEN [a \in {login} \ {None} |-> IF probe THEN usage[a] ELSE NoGauge]
  ELSE [a \in accountsOf(p) |-> usage[a]]

\* One adapter's answer.  An adapter that fails is one errored snapshot that
\* no account has, so nothing that can be chosen.
safeFetch(p, broken) == IF broken THEN <<>> ELSE listed(answered(p, FALSE), Listed)

\* The last recorder wins, whichever probe is newer.
recordObservation(p, snaps) == observed' = [observed EXCEPT ![p] = [persisted |-> p \in Persists, snaps |-> snaps]]

unavailable(s) == [s EXCEPT !.error = TRUE]

\* The store's rows hold neither errors nor the lengths of the windows.
toReading(u) == [error |-> FALSE, b |-> [l \in DOMAIN u.b |-> [u.b[l] EXCEPT !.win = None]]]

snapshotsFromStore(S) == listed([a \in S \cap owned |-> rows[a]], RowOrder)

\* Without a probe: the last observation, unavailable where the provider's
\* snapshots may not be stored; where there is none, the store's rows.
lastSeen(p) ==
  IF observed[p] = None THEN snapshotsFromStore(accountsOf(p))
  ELSE [a \in DOMAIN observed[p].snaps |-> IF observed[p].persisted THEN observed[p].snaps[a]
                                           ELSE unavailable(observed[p].snaps[a])]

collectCandidates(chain) ==
  [a \in UNION {DOMAIN lastSeen(p) : p \in providersForModels(chain)} |-> lastSeen(Provider[a])[a]]

Opens(r, pc, req, snaps, todo) ==
  /\ Event /\ job[r].pc = "idle"
  /\ job' = [job EXCEPT ![r] = [pc |-> pc, req |-> req, snaps |-> snaps, todo |-> todo]]
  /\ UNCHANGED <<owned, login, usage, rows, overrides, cursor, sticky, observed, last, said>>

\* runResolve collects first, from the adapters of its models' providers.
Begin(r, req) ==
  Opens(r, "collect", req, <<>>, SelectSeq(Adapters, LAMBDA p : p \in providersForModels(req.chain)))

\* The proxy serves a policy's models: every row of the store, by headroom, for
\* the session the request names or stands for.
Serve(r, req) ==
  /\ req.session # None
  /\ Opens(r, "collect", [req EXCEPT !.strategy = "headroom"], snapshotsFromStore(Accounts), <<>>)

\* Without --model: the model of the last routing decision, or the default.
whyModel == IF last = None THEN DEFAULT_WHY_MODEL ELSE last
asked(req, named) == IF named THEN req ELSE [req EXCEPT !.chain = <<whyModel>> \o Tail(@)]

\* runWhy takes what was observed last.
Ask(r, req) == Opens(r, "why", req, collectCandidates(req.chain), <<>>)

\* The next adapter of the request's providers answers, or throws, and what it
\* said is recorded.  The choice is made later, on all their answers.
Collect(r, broken) ==
  /\ job[r].pc = "collect" /\ job[r].todo # <<>>
  /\ LET p == Head(job[r].todo)
     IN /\ job' = [job EXCEPT ![r].todo = Tail(@), ![r].snaps = safeFetch(p, broken) @@ @]
        /\ recordObservation(p, safeFetch(p, broken))
  /\ UNCHANGED <<owned, login, usage, rows, overrides, cursor, sticky, last, said, events>>

\* qlb status records what it saw.
Observe(p) ==
  /\ Event
  /\ \E broken \in BOOLEAN : recordObservation(p, safeFetch(p, broken))
  /\ UNCHANGED <<owned, login, usage, rows, overrides, cursor, sticky, last, job, said>>

\* An account that says nothing counts neither as read nor as failed.
readIn(f) == {a \in DOMAIN f : ~f[a].error /\ DOMAIN f[a].b # {}}
failedIn(f) == {a \in DOMAIN f : f[a].error}
allFailed(f) == DOMAIN f = {} \/ (failedIn(f) # {} /\ readIn(f) = {})

\* qlb refresh --allow-probe, for all providers or for Codex, whose adapter then
\* probes and writes the account and what it read.  A refresh in which every
\* account failed records that and no account.
Refresh(p, probe) ==
  /\ Event
  /\ \E f \in {answered(p, probe), <<>>} :
        /\ recordObservation(p, IF allFailed(f) THEN <<>> ELSE listed(f, Listed))
        /\ owned' = IF probe THEN owned \cup DOMAIN f ELSE owned
        /\ rows' = IF probe THEN [a \in readIn(f) |-> toReading(f[a])] @@ rows ELSE rows
  /\ UNCHANGED <<login, usage, overrides, cursor, sticky, last, job, said>>

decision(r) == resolveFromSnapshots(job[r].req, job[r].snaps, TRUE)

\* The choice reads pins, overrides and the failover record, and moves the
\* round robin in a transaction of its own.
Resolve(r) ==
  /\ job[r].pc = "collect" /\ job[r].todo = <<>>
  /\ \E ans \in {decision(r)} :
        /\ cursor' = IF ans.pick.cursor = None THEN cursor
                     ELSE [cursor EXCEPT ![Provider[ans.account]] = ans.pick.cursor]
        /\ job' = [job EXCEPT ![r] = [pc |-> IF ans.pick.sticky = None THEN "record" ELSE "stick",
                                      req |-> job[r].req, ans |-> ans]]
  /\ UNCHANGED <<owned, login, usage, rows, overrides, sticky, observed, last, said, events>>

\* A new failover account is put on record, over what another resolver may have
\* put there since the record was read.
Stick(r) ==
  /\ job[r].pc = "stick"
  /\ sticky' = [sticky EXCEPT ![Provider[job[r].ans.account]] = job[r].ans.pick.sticky]
  /\ job' = [job EXCEPT ![r].pc = "record"]
  /\ UNCHANGED <<owned, login, usage, rows, overrides, cursor, observed, last, said, events>>

\* The decision is logged.
recordDecision(r) ==
  /\ job[r].pc = "record"
  /\ last' = job[r].req.chain[1]
  /\ job' = [job EXCEPT ![r] = NoJob]
  /\ UNCHANGED <<owned, login, usage, rows, overrides, cursor, sticky, observed, said, events>>

basis(req, snaps) == <<req, snaps, overrides, cursor, sticky>>

\* qlb why: the same choice, and no writes.
explainWhy(r) ==
  /\ job[r].pc = "why"
  /\ \E ans \in {resolveFromSnapshots(job[r].req, job[r].snaps, FALSE)} :
        said' = [basis |-> basis(job[r].req, job[r].snaps), kind |-> ans.kind,
                 account |-> ans.account, model |-> ans.model]
  /\ job' = [job EXCEPT ![r] = NoJob]
  /\ UNCHANGED <<owned, login, usage, rows, overrides, cursor, sticky, observed, last, events>>

-----------------------------------------------------------------------------
(* Quotas move, polls and the proxy write what they read, Codex logs in; the *)
(* operator pins, reserves, drains and clears.                              *)

QuotaMoves(a) ==
  /\ Event
  /\ \E u \in Readings[a] : usage[a] # u /\ usage' = [usage EXCEPT ![a] = u]
  /\ UNCHANGED <<owned, login, rows, overrides, cursor, sticky, observed, last, job, said>>

RowMoves(a) ==
  /\ Event
  /\ \E u \in Readings[a] : ~u.error /\ rows[a] # toReading(u) /\ rows' = [rows EXCEPT ![a] = toReading(u)]
  /\ UNCHANGED <<owned, login, usage, overrides, cursor, sticky, observed, last, job, said>>

LoginMoves ==
  /\ Event
  /\ login' \in (accountsOf("openai-codex") \cup {None}) \ {login}
  /\ UNCHANGED <<owned, usage, rows, overrides, cursor, sticky, observed, last, job, said>>

Row(kind, id, session) == [kind |-> kind, account |-> id, session |-> session]

\* A session has one pin, which may name a bare id.
upsertOverride(a) ==
  /\ Event
  /\ \/ \E s \in DOMAIN Hash : \E id \in {a, Bare[a]} \ {None} :
          overrides' = {o \in overrides : ~(o.kind = "pin" /\ o.session = s)} \cup {Row("pin", id, s)}
     \/ \E kind \in {"reserve", "drain-first"} : overrides' = overrides \cup {Row(kind, a, None)}
  /\ UNCHANGED <<owned, login, usage, rows, cursor, sticky, observed, last, job, said>>

\* Cleared all, by session or by account; or one is past its `until`.
clearOverrides ==
  /\ Event /\ overrides # {}
  /\ \/ overrides' = {}
     \/ \E s \in DOMAIN Hash : overrides' = {o \in overrides : o.session # s}
     \/ \E id \in {o.account : o \in overrides} : overrides' = {o \in overrides : o.account # id}
     \/ \E x \in overrides : overrides' = overrides \ {x}
  /\ UNCHANGED <<owned, login, usage, rows, cursor, sticky, observed, last, job, said>>

Init ==
  /\ owned \in OwnedSets
  /\ login \in accountsOf("openai-codex")
  /\ usage \in {u \in [Accounts -> UNION {Readings[a] : a \in Accounts}] :
                  \A a \in Accounts : u[a] \in Readings[a]}
  /\ rows = [a \in Accounts |-> IF usage[a].error THEN NoGauge ELSE toReading(usage[a])]
  /\ overrides = {}
  /\ cursor = [p \in Providers |-> -1]
  /\ \E a \in Accounts : \E id \in {None, a, Bare[a]} :
       sticky = [p \in Providers |-> IF p = Provider[a] THEN id ELSE None]
  /\ observed = [p \in Providers |-> None]
  /\ last = None
  /\ job = [r \in Procs |-> NoJob]
  /\ said = None /\ events = 0

Next ==
  \/ \E r \in Procs : \/ \E req \in Requests : Begin(r, req) \/ Serve(r, req)
                      \/ \E req \in Requests, named \in BOOLEAN : Ask(r, asked(req, named))
                      \/ \E broken \in BOOLEAN : Collect(r, broken)
                      \/ Resolve(r) \/ Stick(r) \/ recordDecision(r) \/ explainWhy(r)
  \/ \E p \in Providers : Observe(p) \/ Refresh(p, FALSE)
  \/ Refresh("openai-codex", TRUE)
  \/ \E a \in Accounts : QuotaMoves(a) \/ RowMoves(a) \/ upsertOverride(a)
  \/ LoginMoves \/ clearOverrides

Spec == Init /\ [][Next]_vars

-----------------------------------------------------------------------------
(* Properties *)

\* The reference: can this account serve this model now, whatever the strategy?
serves(s, m) ==
  /\ ~s.error
  /\ \A l \in DOMAIN s.b \cap Relevant[m] :
       (s.b[l].pct # None /\ s.b[l].conf \in {"authoritative", "stale"}) => s.b[l].pct < 100

resolves(r) == job[r].pc = "collect" /\ job'[r].pc = "record"

\* Every strategy, the pins, the drains and the fallbacks agree with the
\* reference: a served account can serve its model and is not reserved unless
\* the session is pinned to it, and EXHAUSTED is never answered while an open
\* account of the chain has every one of its windows known to have room.
ResolveSound ==
  [][\A r \in Procs : resolves(r) =>
       \A ans \in {decision(r)}, req \in {job[r].req}, snaps \in {job[r].snaps} :
          /\ ans.kind = "ok" =>
               /\ serves(snaps[ans.account], ans.model)
               /\ Provider[ans.account] = ModelProvider[ans.model]
               /\ ans.account \in reserved =>
                    pinsOf(req.session) \cap {ans.account, Bare[ans.account]} # {}
          /\ ans.kind = "exhausted" =>
               \A i \in DOMAIN req.chain :
                 LET open == candidatesFor(req.chain[i], snaps)
                 IN \A a \in DOMAIN open : ~hasFailoverHeadroom(open[a], req.chain[i])]_vars

\* `qlb why` tells the truth: a resolve of the same request, on the snapshots,
\* overrides and cursors the explanation was made from, picks that account and
\* that model, though one peeks at the cursors and the other moves them.
WhyPredicts ==
  [][\A r \in Procs :
       resolves(r) /\ said # None /\ said.basis = basis(job[r].req, job[r].snaps) =>
         \A ans \in {decision(r)} :
            <<ans.kind, ans.account, ans.model>> = <<said.kind, said.account, said.model>>]_vars

\* Failover sticks: a resolver that finds an account on record puts another there
\* only if that one was no candidate for it, not to be drained first, or without
\* headroom; and what ends up on record, also when resolvers race, is an account
\* one of them found with headroom.
FailoverSticks ==
  [][\A r \in Procs : resolves(r) =>
       \A ans \in {decision(r)} : ans.pick.sticky # None =>
         LET on == sticky[Provider[ans.account]]
             open == candidatesFor(ans.model, job[r].snaps)
         IN /\ hasFailoverHeadroom(open[ans.pick.sticky], ans.model)
            /\ on \in DOMAIN open => drain # {} \/ ~hasFailoverHeadroom(open[on], ans.model)]_vars

\* Every strategy, pin, drain and fallback agrees with the reference of who can serve,
\* `qlb why` predicts the resolve it explains, and failover sticks to an account that
\* still can serve.
ChoiceSound == ResolveSound /\ WhyPredicts /\ FailoverSticks
=============================================================================
