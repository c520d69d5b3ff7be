# QLB in TLA+

QLB (quota load balancer) keeps several accounts of AI coding tools usable on
one machine: it polls their quotas, chooses the account to use next, switches
Claude Code and Codex between accounts, takes over the credentials of Pi, and
refreshes the OAuth grants it owns. Everything it does is spread over a Keychain,
a SQLite database, a handful of JSON files and other programs that read and write
the same credentials. No transaction spans two of them, several processes (CLI
commands, a daemon, plug-ins, a proxy) act at once, and refresh tokens are good
for one use. That is what this project models.

Paths in this file are relative to the repository (`src/…` is its source
directory, `docs/…` its documentation). In `PROJECT.json` paths have a leading
`src/` for the repository itself.

## 1. The system

| component | state it keeps | operations | talks to |
|---|---|---|---|
| Grant refresh, `refresh-lease.ts` | Keychain item with a generation, `accounts.grant_generation`, `leases` row | `refreshIfNeeded` | provider, store, Keychain |
| Poll coalescing, `single-flight.ts` | `poll_claims` row, `snapshots` rows | `fetchAndCache`, `singleFlightFetch` | provider adapters, store |
| Claude switch, `cc-switch.ts`, `cc-switch-journal.ts`, `cc-classify.ts` | live Keychain item, Claude Code's config file, `active_login`, journal file, staged copy | `switchClaude` | slots, consume, locks, Claude Code |
| Claude switch recovery, `journal.ts` | the same | `reconcileClaudeSwitch` (daemon), `resolveClaudeSwitchJournal` (operator) | the same |
| Claude slots, consumption and resync, `cc-slots.ts`, `cc-consume.ts`, `cc-resync.ts` | slot and `:prev` items, slot rows, unclaimed stash | consume, active refresh, resync, add, restore | provider, Keychain, Claude Code |
| Lock directories, `cc-locks.ts` | a directory and its mtime, an owner token, a takeover directory | acquire, touch, take over, release | every process, Claude Code |
| Pool migration, `migration.ts`, `pi-auth-backup.ts`, `pi-migrate.ts` | `migrations` row, staging file, owner claims, pool file, `auth.json`, backup, QLB's Keychain items | stage, rehearse, commit, rollback, resume | Pi, store, Keychain |
| Single grants (xai, kimi), `migration.ts`, `pi-migrate.ts`, `pi-gate.ts`, `single-consume.ts`, `single-stash.ts` | one Keychain item, stash, two journals, `auth.json` | both migration families, gate | Pi, provider |
| Native resync, `native-resync.ts` | the item and its generation | compare, adopt | Pi, proxy |
| Codex slots, `codex-consume.ts`, `codex-slots.ts`, `codex-attribution.ts`, `codex-active.ts` | slot row, item and `:prev`, lineage edges, `auth.json` | refresh, renew the active login, import | Codex |
| Codex switch, `codex-switch.ts` | `auth.json`, `active_login`, journal, watches, fences | switch, recover, watch | Codex |
| Selection, `candidates.ts`, `resolve.ts`, `strategies.ts`, `scoring.ts`, `why.ts`, `overrides.ts` | cursors, overrides, observations | resolve, why | store, proxy |
| Polling policy, `poll-policy.ts`, `auto/anthropic.ts` | `usage_polls` rows | one tick's polls | provider |
| Automatic switch, `autoswitch.ts`, `auto/anthropic.ts`, `lines.ts` | holds, cooldowns, suspension | decide, execute, persist, resume, drill | Claude switch |
| Loopback proxy, `proxy.ts`, `credentials.ts` | `proxy.json`, requests in flight, idle timer | serve, retry, leave | Selection, native resync |
| Pi extension, `extensions/qlb-pi/` | registered providers, sentinel, requests | load, gate request, consume, retry | gate, Pi |
| C-swap import, `cswap-import.ts` | run directory, journal, preimages, slot items and rows | import, compensate, reconcile | Keychain |
| Lifecycle and cutover, `lifecycle.ts`, `cswap-agent.ts`, `cswap-undo.ts`, `cswap-retire.ts` | lifecycle row with its note, C-swap's files | begin, commit, abort, undo, retire, close | C-swap |
| Credential stores, `credential-backends.ts`, `keychain-client.ts` | items, key file | read, write, delete | `security`, libsecret, DPAPI |
| Signed helper and release, `helper-signing.ts`, `commands/keychain.ts`, `release.ts` | pin, authorizations, release directory | matrix, check, authorize, install | Keychain |
| Store, `store.ts` | SQLite | statements and transactions | everything |
| Provider adapters, diagnostics, CLI, dashboard, Hermes | none whose interleaving matters | | |

The interaction that matters is not calls but *shared state*: the Keychain
items, the journal files and the SQLite rows through which processes that do not
know of each other meet, and the files that Claude Code, Codex, Pi and C-swap
write on their own schedule. `PROJECT.json` lists every component with its
status and every hazard at its line.

What makes each part correct, in one sentence each: one grant per generation and
the single-use successor never dropped by the protocol itself (refresh); one
request per claim, published in claim order (polls); credential and config agree
at rest and the only copy of a credential is never overwritten (Claude switch);
native works or QLB works, never neither (migration); a spent token's successor
is stored, stashed or reported (consumption); a switch is attributed to the
account whose bytes are in `auth.json` (Codex); a lock excludes unless its holder
stalled, and such a holder notices (lock directories); what is served can serve
(selection); the next poll is neither too early nor never (polling); one owner at
a time (cutover); what a caller is told about a write is true (stores).

## 2. Modules

| module | models |
|---|---|
| `RefreshLease`, `GrantCell` | `refreshIfNeeded` from bootstrap to return with all error paths; abstract: one cell whose generation is published and then settled, one at a time |
| `SingleFlight` | `fetchAndCache`, `singleFlightFetch` and their statements |
| `ClaudeSwitch`, `AtomicSwitch` | switch, rollback, daemon reconcile, operator resolve; abstract: credential, config name and active login move together |
| `ClaudeSlots` | one Claude slot: consumption, active refresh, resync, add, restore, stash |
| `CodexSlot`, `CodexSwitch` | one Codex account's slot; the switch of the Codex login with recovery, watches and fences |
| `PoolMigration` | stage, rehearse, commit, rollback, resume of the Anthropic pool |
| `SingleGrant` | one xai or kimi grant under `qlb migrate`, `qlb pi migrate`, the gate and Pi |
| `LoopbackProxy` | the proxy's life and requests, native resync, refresh and hand-back beside it |
| `PiExtension` | the Pi extension's load, registration, requests and retries |
| `Selection`, `UsagePolling`, `AutoSwitch` | account choice; scheduled polls; the automatic switch |
| `CswapImport`, `Cutover` | the import of C-swap's logins; cutover, undo and retirement |
| `CredentialStores`, `HelperTrust`, `LockDir` | four credential backends; helper pin and release; lock directories |
| `MC…` | suites for TLC, see section 3 |
| `RefreshLeaseProofs`, `SingleFlightProofs`, `StoresProofs`, `ServingProofs`, `PoolMigrationProofs`, `CswapImportProofs`, `ClaudeSwitchProofs`, `CodexSlotProofs` | theorems, see section 5 |

In every module an action has the name of the function, or of the part of a
function between two visible effects, that it translates; `PROJECT.json` "map"
gives the lines. Each module's header says what its data stand for and what it
leaves out. Definitions marked *Mutant* that stand before an action are used only
to show that a property notices the mistake they make.

Conventions. `pc[p]` is the place of process `p`, `loc[p]` its local variables.
A SQLite write transaction is one step, except where the code spawns a Keychain
client or awaits inside it: then the write lock is a variable and the transaction
several steps. A refresh token is a number in the order of issue; only the newest
can be spent (or, where a provider does not rotate, stays valid). Access tokens
and expiry are the nondeterministic choice "due or not". A crash may fall between
any two steps and leaves locks and files behind. History variables (named as such
where they are declared) record what a property speaks of and guard nothing.

How the state of the modules with theorems corresponds to the code:

* **RefreshLease.** A *call* `p` is one invocation of `refreshIfNeeded`;
  `attempt[p]` is the outer loop's counter, `grant[p]`/`gen[p]` what step 1 read.
  Shared: `keychain`, `journalGen` (`accounts.grant_generation`), `lease`,
  `status`, `dbLock`. The fenced write spawns a Keychain client inside
  `BEGIN IMMEDIATE` and is `fence`, `write`, `commit`. The provider (external)
  accepts one refresh token and answers `ok` or `invalid_grant`; the answer may be
  lost with an aborted POST or a crash. `lost` and `lapsed` are history: the live
  token went with its holder; some lease lapsed.
* **SingleFlight.** Time is explicit, because the question is what happens when
  the clock moves between a read of it and its use. `claim` is the `poll_claims`
  row, `snap` the `fetched_at` of each bucket; `epoch`, `mine`, `published` are
  history. A caller that would wait beyond the clock's bound stays where it is,
  which `EveryCallerServed` excepts by name (`AtHorizon`).
* **LockDir.** `dir` and the takeover `sidecar` with their tokens and whether they
  are stale; three modes, as the Codex auth lock, Claude Code's locks and
  the import lock use them. `stalled` and `reclaimed` are history: a live holder
  was overtaken; a takeover directory was removed under its maker.
* **LoopbackProxy.** `px` is a proxy process: where it is, whether its idle timer is
  set, `inFlight` as the code counts it up and down, and `--no-idle`; `job` is a request
  or a resync command, `left` that its client has gone. A request whose client left
  before the upstream answered is `stranded`: its handler never ends.
  `item`, `gen`, `native` are QLB's copy, its generation in the database and the
  native store (`Junk`: an item that does not parse); `tx` is a grant refresh between its write
  and its commit.
* **PiExtension.** `owner`, `shadow`, `marker` are the owner files and the consume
  marker, `journal` the row `cswap-anthropic`; `pend` holds the consume commands between
  their two writes. `ext` is the loaded extension (`ext.base` what its load read,
  `ext.reg` the provider behind each name), `sentinel`/`mark` Pi's runtime key and
  the process-wide flag, `rq` the session's requests. `claimed`/`consumed` in `ext`,
  `ok` in a request, `overlap` and `dual` are history: what held during a whole load,
  what held at some moment of a request, and which commands crossed.
* **PoolMigration.** `journal` is the `migrations` row (state, intent, accounts,
  backup cycle, publication flag); `staging`/`aside` the staging owner file and
  its `.rollback` name; `legacy`/`v2` the two forms of the owner claim (`custom`:
  the v1 document has a path of its own); `pool`/`retired` the native file and its
  `.pre-qlb` name; `auth`/`backup` Pi's `auth.json[anthropic]` and the copy QLB
  took. Each write is a step; a command's admission (the reads and refusals before
  the first write) is one step, and so is `journal()`'s read-merge-write. Left
  out: the sidecar, account statuses, RETIRED, documents naming other providers,
  missing directories, malformed files.
* **CswapImport.** `jr` is the newest run's journal on disk, `p` the process with the
  import lock (`p.j` its journal in memory, `p.i` the slot at hand, `p.eff` what it is
  about to import, `p.first` the first reading of Claude Code's login); `dest`/`prev`
  are the slot's two Keychain items, `bk`/`bkp` their saved preimages, `row` the
  `claude_slots` row, `committed` the `import_runs` rows. A credential is the number
  of its lineage. `before` and `raced` are history: the slots when the run began; the
  gate refreshed one while a journal was open.
* **CodexSlot.** `row`, `kc`, `prev`, `edges`, `stash` are the `codex_slots` row, the
  item, its `:prev`, `lineage_log` and the unclaimed stash; `live` is this account's
  token in `auth.json`. `op[p]` is one operation with its local variables: `refresh`
  (consume and switch locks, `sw`), `active` (these and `auth`) or `import` (`auth`
  only); `db` is SQLite's write lock, held over the Keychain writes. A token is its
  number, and so is a fingerprint. `grew` records the rotations at the provider,
  `arrived` and `gone` the successors whose answer reached QLB and those reported lost
  or lost with a process; `torn`, `skew` and `late` the three events after which a
  property excepts itself (section 4).
* **ClaudeSwitch.** A credential is `[acct, fam, n]`: the account,
  the login it descends from and its number, so that "same lineage" and "same
  bytes" differ as in the code. The switch, credential and owner locks are always
  taken together and are one lock; `writeSlot` is one step; the consume lock and
  adoption of stashed successors are `ClaudeSlots`'; lifecycle admission and the
  breaker are one nondeterministic refusal (`Cutover` and `AutoSwitch` model them).

## 3. Runs

Components that share no variable are checked *side by side* in one suite: `part`
names the component a behaviour moves, the others rest in one of their own initial
states, so the reachable states are the union, not the product. The first
component of a suite is extended (TLC then evaluates its assumptions), the others
are instances; assumptions of instances are restated in the suite where a module
has any. A property of a part is trivially true in the behaviours of the others.
In `MCProgress` each component's fairness is guarded by `Mine`, since an action of
a component that rests is never taken and must not be owed.

| run | instance | distinct states | what holds |
|---|---|---|---|
| `coordination` | 3 refresh calls, 2 attempts, 1 expiry, 1 revocation; 2 switches, daemon, operator, 1 failing effect | 1,429,688 | `TypeOK`, `GenerationOrder`, `GenerationIdentifiesGrant`, `TokenAccounted`, `RevokedOnlyIfLost`, `RefinesGrantCell`, `RefinesAtomicSwitch` |
| `progress` | 2 callers, 2 buckets, 4 ticks; 2 calls with bootstrap faults; 1 terminal, 2 faults; 1 switch, 1 fault; 2 Keychain clients | 92,738 | `PollsInOrder`, `CallerServed`, `EveryCallReturns`, `ResumeConverges`, `OrphanReconciled`, `CallsReturn` |
| `claude` | 2 switches, daemon, operator, a refresh, a settings edit, logins to an own and an alien account; 2 processes on one slot, 3 tokens, 1 failure or death | 3,697,577 | `SwitchSafe`, `SlotsHold`, `SlotsMoveOn` |
| `codex` | 2 operations of every kind, 3 tokens, a login, a fault, a crash, a stall; 2 switch processes, 3 accounts | 2,890,495 | `SlotKept`, `SlotMovesOn`, `SwitchRecorded`, `SwitchSaves` |
| `migrations` | 1 terminal, 2 accounts, 2 tokens each, 2 cycles, 1 fault; 1 single grant, 3 tokens, 1 failure | 4,806,954 | `PoolRecoverable`, `RehearsedBeforeOwned`, `GrantHeld`, `RestoreUnspent` |
| `cswap` | 2 slots, 3 runs, 2 failures; 2 commands, 4 starts, 3 rotations, 1 death | 4,961,845 | `ImportRecoverable`, `ImportOutcome`, `CutoverSafe`, `HandBackCurrent` |
| `scheduling` | 4 accounts, 2 resolvers, 3 requests, explanations or changes; 3 polled accounts; 5 time units of the automatic switch | 2,198,560 | `PollingSound`, `AutoSound`, `SuspensionJustified`, `ChoiceSound` |
| `stores` | 3 lock processes in every mode; 3 terminals with one helper command each, 1 rotation; 2 clients of 4 backends, 3 calls | 1,967,440 | `StoreHonest`, `HelperSound`, `AnchorsKept`, `LocksExclude` |
| `serving` | 1 proxy with or without `--no-idle`, 2 requests whose clients may leave, 1 resync command, 4 tokens; 1 Pi request, 3 changes, 2 loads | 5,603,536 | `ExtensionFailsClosed`, `RequestsEntitled`, `ProxySound`, `RotationKept` |
| `claude_switch_resolve` | 1 switch, daemon, operator, 1 refresh by Claude Code | – | `OperatorCanResolve` is violated (finding 1) |
| `pool_rollback_current` | 1 terminal, 1 account | – | `RollbackRestoresCurrentGrants` is violated (finding 2) |
| `claude_slots_ancestor` | 2 processes, 3 tokens, 1 failure | – | `ActiveSuccessorKept` is violated (finding 3) |

**Bounds.** Each is named in its module and stands in a guard. Races of the
refresh need a holder, a usurper of its lapsed lease and an observer: three calls;
two attempts let each lose a race and retry, one expiry lets a second generation
begin. A poll claim of one tick in a clock of four can expire while its fetch
runs, be taken over and expire again. Two switches and the two recovery paths are
the pairs of actors the journal keeps apart. Two cycles let a migration be rolled
back and staged again. Three tokens let one be spent twice over and a stale copy
be two behind; a slot, grant or import with one failure or death meets every
single interruption. Larger instances of single components gave the same results:
`PoolMigration` with two faults (3.7 million states), `Cutover` with five starts (4.4
million), `AutoSwitch` with three polls (1.3 million), the Codex suite with two failures (4.1 million),
`SingleFlight` with three callers (0.2 million, liveness included), `ClaudeSwitch`
with two switchers and liveness (0.2 million), the pool's convergence with two
tokens and two logins (0.2 million), `PiExtension` with nine changes (0.4 million), and the grant invariants of `RefreshLease`
with one more generation (7 million). `ClaudeSlots` with two failures was searched
breadth first through six million states and not to the end.

**Symmetry** is used in safety runs only, over identifiers that the definitions
treat alike.

**Deadlock** is not checked: calls, switches and commands finish and bounds are
used up, so a state without successors is a normal end.

**Fairness.** `RefreshLease`: each live call takes its next step and its hard
timeout fires (`setTimeout` of the process itself); nothing is assumed of the
provider, which may stay silent, or of other processes, which may die holding
the lease. `SingleFlight`: the clock advances and a caller that can step does.
`ClaudeSwitch`: a process that can step does, and a dead holder's lock becomes
stale; nothing about Claude Code. `CredentialStores`: the caller's own timers fire
and shells that can end do; the user may never answer a prompt. `PoolMigration`: a
running command takes its next step, a dead holder's lock becomes stale, and
strong fairness for `recover`, an operator who keeps running `resume`, or
`rollback` where `resume` refuses. That last one is an assumption about a person;
without it an interrupted migration stays interrupted.

## 4. Findings

Each is a run in which TLC refutes what a document or comment says.

1. **An orphaned switch journal may have no way out** (`journal.ts:105`, against
   `docs/CLI.md:80`): a crash behind step 7 and a refresh by Claude Code, then
   neither `--back` nor `--forward` admits the state, and the daemon reports
   `live-moved`.
2. **Rollback of the pool restores the file of the commit**, not QLB's current
   grants as `docs/CREDENTIAL-SAFETY.md:42` says (`migration.ts:2859`).
3. **The active refresh can put a spent ancestor back** over the successor the slot
   holds (`cc-resync.ts:228`, against the comment at `cc-resync.ts:872`).

Observations met while modelling. Most are excepted by name in a property (by a
history variable or a guard), so the property states what holds beyond them.

* *Refresh*: a lease that lapses under its holder can turn a lost race into
  `auth_revoked` (`store.ts:2344`); `RevokedOnlyIfLost` shows that a lapsed lease or
  a lost token is necessary. Every error of the bootstrap's read counts as a missing
  item and the caller's copy is written (`refresh-lease.ts:402`).
* *Claude switch and slots*: an unresolved live credential is written into the
  outgoing slot (`cc-switch.ts:577`; `misadopted`). It can push the last copy of
  the account's newest credential out of `:prev` (section 5). A death between the item write
  and the row commit leaves the row a link behind (`rewound`).
* *Codex*: `repairDrift` uses a Keychain read made before `BEGIN IMMEDIATE`
  (`codex-consume.ts:278`; `skew`), and it keeps the dead mark of the token it leaves, so
  that after such a read a live token can carry it. `importActiveCodexSlot` does not
  compare the row it finds in its transaction with the absent one it saw before: an
  import that looked while a stalled import was committing writes the old login over a
  slot that was renewed since (`codex-slots.ts:691`; `late`). A death between the item
  write and the row commit can end with the spent predecessor in both (`torn`).
* *Pool*: with two terminals a stage during another's rehearsal is marked VALIDATED
  unrehearsed (`migration.ts:1856`), and a pre-commit rollback takes no lock and can
  overlap a commit: hence one terminal in the runs and in the safety theorems. A
  failed rehearsal after an interrupted publication leaves MIRRORED under a standing
  claim, which `resume` refuses although `status` says it completes the commit.
* *Single grants*: a rollback records its intent before it waits for the lease, so
  the gate may stash meanwhile and the rollback hands back a spent backup
  (`migration.ts:2784`); a commit that dies between placeholder and QLB_OWNED makes
  the gate treat the item as P7a's and spend without a lease; P7a's commands never
  take the consume lock; a gate admitted before a hand-back may adopt or consume after
  it; the rollback never reads the stash.
* *C-swap*: `--replace` imports take no consume lock and the commit compares nothing
  (`raced`); an undo admitted before a retirement's fence goes through, two
  `undo --resume` may both write, and one that waited out the other can hand back the
  next cutover, whose processes it has not waited for (`crossed`); slots left from an earlier undone
  cutover are handed back with spent tokens; a crash during `cutover begin` leaves a
  note that admits no command. A death between the clear of the retirement's fence and
  the removal of its journal (`cswap-retire.ts:497`) leaves a journal that the retirement
  of a later cutover takes for its own: it fences that cutover and then refuses, each time.
* *Polling and automatic switch*: a yielded turn does not touch `lastAttemptAt`; a
  success after a 429 with a near reset is polled again after about 70 s; a decision is
  not compared with the active row again before it is executed; a crash between decide
  and persist loses the reset of the unhealthy count.
* *Selection*: `recordObservation` reads and writes outside one transaction, and so does
  failover, whose record a slower resolver overwrites with an older choice; the record
  is shared between models; a pin overrides a reservation; `qlb why` ignores the Codex
  ownership filter when it describes losers.
* *Stores and helper*: file backends read, change and rename without a lock; two
  processes that create the key leave items one of them cannot read; `security -U`
  after a refused add recreates a deleted item; an existing release is compared before
  an awaited backup and reused afterwards (`release.ts:481`); a live check sweeps another
  run's finished agent, which that run then waits for in vain; an item rewritten in the
  same instant as the authorization's own update passes for untouched.
* *Locks*: Claude Code ignores the takeover directory; a stale takeover directory is
  checked and then deleted (`reclaimed`); a stalled plain holder removes by name.
* *Serving*: overlapping `consume enable` and `disable` can leave CONSUMED without its
  marker (`overlap`); `consume enable` looks at Pi's ownership once and writes its journal
  later, and a migration looks at the journal only, so an enable admitted before a
  migration writes CONSUMED over a standing claim (`app.ts:1792`, `app.ts:1615`; `dual`); a 401 for a token that is already replaced makes a resync write
  the older native copy over QLB's newer grant, since copies are compared by
  difference (`native-resync.ts:262`); the proxy "exits by itself after an idle timeout
  with zero in-flight requests" (`docs/CLI.md:715`), but a request whose client left
  before the upstream's headers came is never counted down: the listeners at
  `proxy.ts:870` miss a `close` that was already emitted, the handler's `finally` does
  not run, and the proxy stays until it is stopped (`IdleIsTimed` states this as its
  exception); a leaving proxy removes a newer proxy's
  `proxy.json`.

## 5. Proofs

The theorems hold for every value of the constants that satisfies the named
assumptions of the modules (identifiers differ from `None` and similar values, bounds
are natural numbers). `PROJECT.json` lists them.

**`RefreshLeaseProofs`.** `TypeCorrect`; and under `~BootstrapReadFaults` (no
transient error of the bootstrap's read, whose effect is the observation above)
`GenerationOrderHolds`, `GenerationIdentifiesGrantHolds`, `GenerationsOnlyGrowHolds`
and `RefinesGrantCellHolds`; `TokenAccountedHolds`, `RevokedOnlyIfLostHolds`,
`OneRefresherHolds`. `TypeOK` needs `AttemptBound`, since `Holders` contains
the attempt. `GenerationOrder` is not inductive: the call inside the fenced write
must still be at the generation it read (`FenceInv`), and two copies with one
generation agree only because all copies are behind the item (`CopiesBehind`).
The token invariant has two forms: with rotating tokens older grants carry older tokens, and the one call whose
answer is newer than the item will find the fence open (`RotatedInv`); with a fixed
token there is only that one. `HolderInv` and `LeaseInv` say that while no lease has
lapsed a call between its lease and its commit owns the row, so nobody else is ever
refused (`RevokedInv`).

**`SingleFlightProofs`.** `TypeCorrect`, `PollsInOrderHolds`. Clocks read are behind
`now`, an unexpired claim's row is its caller's (`ClaimHeld`), and the row belongs to
the last claim granted (`ClaimsCounted`).

**`StoresProofs`.** For the lock directories `LocksExcludeHolds`. `ExclusionInv`: while
nobody stalled, the owner is one and its directory is there and fresh, the taker is one,
and what a taker is about to remove is nobody's. `OverlapInv`: of two token holders that
met one is `Doomed`, because tokens are written before the callback and never afterwards.
For the helper, stated of the suite `MCStores`, `HelperSoundHolds` and `AnchorsKeptHolds`,
for any terminals, builds, items and rotations. `Grants`: a probe has really been given
what it has read so far, and a live check starts from a granted identity; `Cleans`: an
agent exists only beside the matrix that waits for it, and a green one has left nothing;
`Anchors`: a matrix that saw a pin runs the pinned build.
For the stores `StoreHonestHolds`, for any processes, services and calls. What a caller
is told cannot be read off its own state: `Told` relates it to the clients it left
behind. `Known` says that clients are told apart by process, call and pass and that at
most one is of the call at hand, `Works` that an unfinished client past `lockf` has its
service's lock and that a finished one is still awaited. From both, an answer other
than "unknown" is given only for a client that has ended, so nobody is left who could
still write. For the files `FileInv`: an operation that overlaps no other writes back
what it read, under the key that is in force, and no item is older than the key. That
`None` is no item and no client, and that no process has the name of a key state, is
assumed in `MCStores` (`StoresAssumption`).

**`ServingProofs`.** For the proxy `ProxySoundHolds`, `RotationKeptHolds`. `GenInv`: while a
refresh is between write and commit the item is exactly one ahead; `SeenInv`: what a
resync compared is no newer than what was issued by then. `CountInv`: the counter is
the number of handlers at work and the timer is set exactly when it is zero; it needs
that requests are on a proxy and commands are not (`OnInv`).
For the Pi extension, stated of the suite `MCServing`, `ExtensionFailsClosedHolds` and
`RequestsEntitledHolds`, for any owner files, requests, loads and outside changes.
`ConsumeInv`: CONSUMED stands with its marker and without a claim on Anthropic.
`LoadInv`: what a load has read or decided is not contradicted by what held all along
(`Whole`, `Reading`, `Decided`); `FailsClosed` follows at its end. `RqInv` says
what a request has sent, on which account (`Sends`), and that one past its check of the
journal was entitled (`Entitles`); `OutsideStep` is the lemma for all events beside
Pi. `Entitles` is inductive only with `ConsumeInv`, whose last part fails in exactly
the behaviour that `dual` now names: enable is admitted, Anthropic is claimed, enable
writes its journal, a request that still found no claim is served. The run's three
changes do not reach it; with eight TLC finds it.

**`PoolMigrationProofs`.** `TypeCorrect` for any number of terminals (a process is
inside its locked section exactly if it holds Pi's lock). `PoolRecoverableHolds` and
`RehearsedBeforeOwnedHolds` under `OneTerminal`, for any number of accounts, tokens,
logins, cycles and faults. The invariant has a part for the row (`RowInv`: a staging
file that a commit would accept stands for rehearsed items; QLB_OWNED without a claim
is a rollback's) and one for each kind of command at each of its places (`StageInv`,
`CommitInv`, `RollbackInv`, `PreInv`): the backup of the last login exists before the
claim, the claim before the placeholder; the native file and Pi's entry are back
before the claim goes. One lemma per kind of step: commands begin (`CommandInv`), go
on or die (`StepInv`), and the rest of the machine acts (`EnvInv`).

**`CswapImportProofs`.** `TypeCorrect`, `ImportRecoverableHolds`, `ImportOutcomeHolds`,
for any number of slots, credentials, runs and troubles. `ImportRecoverable` speaks of
reached slots only and is not inductive: `SlotInv` adds what an entry that is not
reached, or is put back, says of the items, `ForwardInv` the order register, save,
journal, announce, write at the slot at hand, and `UndoInv` that the rollback and the
recovery leave no reached slot behind them, so that the cleanup deletes no preimage
that is still needed. `ControlInv` ties each place of the process to the journal's
phase and to `import_runs`: from the first journal on, memory and disk agree, and a
run is undone only if it is not in the table. These parts hold while the gate has
refreshed no slot during the run (`raced`, the observation above); the others always.
`EffInv` carries one login per slot from the reading of the source to the commit.

**`ClaudeSwitchProofs`.** `TypeCorrect`, `RollbackCopyKeptHolds`, `AtRestAlignedHolds`,
`NoCredentialLostHolds` and their conjunction `SwitchSafeHolds`, for any number of
accounts, switches, daemons, operators, credentials issued, logins and failing
effects. The invariant is built in layers, each proved with the help of the ones
below it, one lemma per action:

* `Files`: who may be at which label, whose journal it is there, whether it is
  finished, and that a pending one has its staged copy. `RollbackCopyKept` follows.
* `Ages`: no copy anywhere (live, slot, `:prev`, staged, in a journal, in a process)
  is newer than its account's newest credential, and one as new is that credential.
* `Aligned`: while a journal is pending, live and config are where its own writes
  left them (`Untouched`), or a login cut across and they agree again on a family that
  no slot knows (`LoggedIn`); and what each label of switch, rollback and recovery
  may conclude from that (`SectionAligned`). `AtRestAligned` follows. The second case
  is what makes `resolveBackLive` safe: it admits only a lineage it can name.
* `Kept`: every newest credential is held by a slot, its `:prev`, the stash or a
  successor in flight, or else it is live. `writeSlot` keeps one previous copy, so
  writing an *older* credential over the slot moves the newest to `:prev`, and a
  second such write would drop it. That the second never comes is `RewoundOK`: what
  still circulates of such an account is the slot's credential or the newest. It
  holds because a process between the provider's answer and its write knows a family
  that nobody else has (`FlightOK`).

`Aligned` and `Kept` hold as long as nothing was misadopted. For `Aligned` that was
known; for `Kept` the proof attempt showed it. With two credentials issued and
five switchers TLC then finds the behaviour: one process spends `a`'s slot, another
switches `b` to `a`, the first writes the successor and dies, a third switches `a` to
`b` and writes the older live credential over the slot, a fourth switches back, the
user logs in to `b`, and a fifth adopts that unresolved credential into `a`'s slot: the
newest credential of `a` falls out of `:prev`. Smaller instances, the run's among them,
do not reach it; `NoCredentialLost` now excepts it by `misadopted`. `Files`,
`Ages`, `Aligned` and `Kept` were checked by TLC before they were proved (1.1 million
states from a rewound slot, and six million of simulation).

`RefinesAtomicSwitchHolds`: under `LoginAccounts = {}` the switch with its rollback,
reconcile and resolve implements `AtomicSwitch`. The refinement mapping reads the
live credential through the staged copy and the config through the journal's text
while the journal says that they may have been written; the theorem is that both then
name the active login in *every* state, so that each step is a `Switch` to the next
active login, most of them to the same. The layer this adds is `Steady`: the staged
copy of a pending switch is the active login's and its writes are no others
(`Anchored`), its journal was written for that login (`Agreed`), and so is what the
steps after step 4 remember and what a rollback or recovery leaves before it closes
the journal (`Entry`). With `Aligned` it excludes misadoption, so the hypothesis
`~misadopted` of the other theorems is not needed. A login with Claude Code itself
moves the live credential and the config but not QLB's `active_login`, which is why it
is excluded here as it is in the run `coordination`; refreshes and config edits by
Claude Code are not excluded.

**`CodexSlotProofs`.** `TypeCorrect`, `HeadAlwaysKept`, `SuccessorAlwaysKept`,
`DeadIsAlwaysTrue` and their conjunction `SlotAlwaysKept`; `SlotAlwaysMovesOn` for the
two action properties. They hold for any number of processes, tokens, logins, failing
calls, crashes and stalled holders, and for any kinds of operation. The layers:

* `TypeInv`: types, and which operation may be where with what it knows (`Placed`); a
  process is between `BEGIN IMMEDIATE` and its end exactly if it has the write lock.
* `ShapeInv`: nothing is known that was not issued, a rotation leads to a younger
  token and each token comes from one (`Ordered`); what a process remembers has been
  the head, and what it found in the slot still is there while it has the write lock
  (`Holds`); every former head leads to the row's by recorded edges (`Lineage`). The
  last is why attribution may treat a token it can reach as an ancestor.
* `KeepInv`: the head is in one of the two items (`HeadInv`), and a successor that
  reached QLB and is nowhere else is in the hand of a process that still has to write,
  stash or report it (`KeptInv`). The first two parts of `SlotKept` follow.
* `HeldInv`: while nobody stalled, an operation has the locks of its kind, so a refresh
  and a renewal of the active login exclude each other, and so do a renewal and an import.
* `DeadInv`: a dead row's token is refused (`DeadMark`) because an operation between an
  answer and its end knows that the row it came from was alive, and a refused request
  whose token has no stashed successor stands over a slot in order (`Calm`, `Tidy`).
* `OnceInv`: a token whose successor arrived is not taken up for a request again: no
  former head follows the row's token (`Latest`), a drift repair finds none to go back
  to (`Ahead`), and the slot write happens over the token it replaces (`Once`).
* `DescentInv`: the row's token descends neither from the item (`Behind`) nor from a
  token that is being adopted (`Adopting`), since nothing QLB knows descends from a
  login that the holder of the auth lock is the first to see (`Foremost`).

`HeldInv`, `DeadInv` and `OnceInv` hold while no holder stalled and, but for the first,
no process died between a write and its commit; the other layers need no such condition.

`NeverSpentTwice` then needs that a request in flight is answered by its own step
(`Posted`) and that a refused token's successor was reported lost (`RefusedIsLost`).
`DeadIsTrue` and `HeadsNeverGoBack` were stated without `skew` and `late` before; the
proof attempt stopped at exactly the two observations of section 4, and the histories
name them.

**Only model-checked.** Liveness (`CallerServed`, `EveryCallReturns`,
`ResumeConverges`, `OrphanReconciled`, `CallsReturn`) is out of the prover's reach, as
is what recursive definitions compute. The safety properties of `ClaudeSlots`, `CodexSwitch`, `SingleGrant`, `Selection`, `UsagePolling`,
`AutoSwitch` and `Cutover` are checked by TLC only.

## 6. What is not modelled

HTTP and parsing in the provider adapters, diagnostics and `doctor`, rendering, the
dashboard, export, argument parsing and Hermes: they keep no state whose interleaving
matters. Schema migration, pruning and the decisions log of the store. Static API
keys in migrations and documents naming several providers. The Codex, kimi and xai
loops of the daemon, which do not switch. Receipts and session discovery of the Codex
switch, deployment of the Pi extension and its footer, the Keychain allowlist and read
back-off. The Codex poll plan has a Lean proof in the repository (`proofs/codex-poll`).

Simplified, each noted at its definition: several reads by one holder of a lock are one
where no writer can come between (`CodexSwitch.Verify`, `CodexSlot.ReadFirst`,
`RecordRejected`, `Adopt`); a compensation is one step where it is idempotent
(`CswapImport.rollbackEffects`, `CodexSlot.PersistSave`); an import's journal cut short by a power failure and the admission
of a slot by QLB's own lineage log (`CswapImport`); a login without tokens at `stage`
(`SingleGrant`); a closed stdin (`CredentialStores`) and the order of the service names
an item is looked for under (`HelperTrust`).

## 7. Plan

1. `SingleGrant` and `ClaudeSlots`: that a spent grant's successor is stored.
