----------------------------- MODULE MCServing -----------------------------
(* Who serves a request: the Pi extension (PiExtension), and the loopback     *)
(* proxy with the resync of native credentials (LoopbackProxy).               *)
(* The components share no state here, so TLC takes them side by side: a      *)
(* behaviour moves one of them and leaves the others where they began.        *)
EXTENDS LoopbackProxy, TLC

CONSTANTS PiReqs, Owners, Movable, MaxChanges, MaxLoads

\* What PiExtension assumes of its constants.
ASSUME OwnersAssumption ==
  Owners \subseteq [kind : {"absent", "malformed", "v1"}, providers : {{}}]
             \cup [kind : {"v2"}, providers : SUBSET {"anthropic", "openai-codex", "xai", "kimi-coding", "openrouter"}]
ASSUME MovableAssumption == Movable \subseteq {"anthropic", "openai-codex", "xai", "kimi-coding", "openrouter"}
ASSUME NoneIsNoReading == None \notin [owner : {"absent", "malformed", "valid"}, marker : BOOLEAN]

\* Owner files of every kind.
AllOwners ==
  {[kind |-> k, providers |-> {}] : k \in {"absent", "malformed", "v1"}} \cup
  {[kind |-> "v2", providers |-> s] :
     s \in {{"kimi-coding", "openrouter"},
            {"anthropic", "openai-codex", "xai", "kimi-coding", "openrouter"}}}

VARIABLES
  part,  \* the component whose steps this behaviour takes
  owner, shadow, journal, marker, db, pend, host, active, vers, changes, ext, sentinel,
  mark, rq, overlap, dual

Ext == INSTANCE PiExtension WITH
  Reqs <- PiReqs

extVars == <<owner, shadow, journal, marker, db, pend, host, active, vers, changes, ext,
             sentinel, mark, rq, overlap, dual>>

\* Each unusual beginning of the proxy is taken on its own: --no-idle, an item that does
\* not parse, a native token equal to QLB's copy.
Beginnings ==
  /\ \A p \in Proxies : px[p].noIdle => prov = "xai" /\ item = None /\ native = None
  /\ item = Junk => native = 2
  /\ native = 1 => prov = "xai" /\ item # None

\* The other components rest in one of their own initial states.
Side(x) == part # x
SuiteInit ==
  /\ part \in {"Proxy", "Ext"}
  /\ Init /\ Beginnings /\ (Side("Proxy") => px = [p \in Proxies |-> NewServer(FALSE)] /\ prov = "xai" /\ item = None /\ native = 2)
  /\ Ext!Init /\ (Side("Ext") => db /\ ~shadow /\ owner.kind = "absent" /\ host = "full" /\ ext.rehearsal = "unset")

SuiteNext ==
  \/ part = "Proxy" /\ Next /\ UNCHANGED <<part, extVars>>
  \/ part = "Ext" /\ Ext!Next /\ UNCHANGED <<part, vars>>

SuiteVars == <<part, vars, extVars>>
SuiteSpec == SuiteInit /\ [][SuiteNext]_SuiteVars

\* Requests are interchangeable.
Symmetry == Permutations(Reqs)

-----------------------------------------------------------------------------
\* A load does not leave to Pi's own login what QLB consumes or the owner file claims
\* during the whole load, and once the session has started Pi has QLB's sentinel
\* exactly when the provider loaded last needs it.
ExtensionFailsClosed ==
  Ext!ConsumedFailsClosed /\ Ext!ClaimedIsReplaced /\ Ext!SentinelMatchesMode

\* A request is served only while consumption or the owner entry entitles it, is sent
\* at most twice, never twice with one token, and on one account, the audited one.
RequestsEntitled == Ext!ServedOnlyIfEntitled /\ Ext!RetryKeepsAccount
=============================================================================
