----------------------------- MODULE PiExtension -----------------------------
(***************************************************************************)
(* qlb-pi, the extension inside a Pi process.                              *)
(*                                                                         *)
(* At load it decides for each provider whether QLB owns it and replaces   *)
(* Pi's native provider by one that asks `qlb gate` for every request, by  *)
(* a stub that only fails, or, for Anthropic, by one that reads the login  *)
(* C-swap keeps active (`consume`).  It reads the owner file, the consume  *)
(* marker and the consume journal one after the other, while the operator  *)
(* runs `qlb migrate` and `qlb consume enable | disable`.  A rejected      *)
(* access token is read again once and the request retried.                *)
(***************************************************************************)
EXTENDS Naturals, Sequences

CONSTANTS
  Reqs,        \* requests of the Pi session
  Owners,      \* the owner files a run begins with
  Movable,     \* the providers migrated or rolled back meanwhile
  MaxChanges,  \* bound: commands and events outside Pi
  MaxLoads,    \* bound: times the extension is loaded
  None

Providers == {"anthropic", "openai-codex", "xai", "kimi-coding", "openrouter"}

VARIABLES
  owner,     \* qlb-owner.json: its kind and, in version 2, its providers
  shadow,    \* qlb-owner-openai-codex.json claims Codex (or is malformed)
  journal,   \* the migration row cswap-anthropic
  marker,    \* consume-anthropic.json exists
  db,        \* the QLB database exists
  pend,      \* consume commands between their two writes
  host,      \* Pi: "full", without a compat module, or with a models.json
             \* that makes it reject an OpenRouter registration
  active,    \* the account logged in, for gate and C-swap alike
  vers,      \* the current access generation of each account
  changes,   \* bound
  ext,       \* the loaded extension
  sentinel,  \* providers with QLB's sentinel as runtime key
  mark,      \* globalThis: the Anthropic sentinel is ours
  rq,        \* [Reqs -> a request]
  overlap,   \* history: consume enable and disable overlapped
  dual       \* history: consume enable and a migration of Anthropic overlapped

env == <<owner, shadow, journal, marker, db, pend, active, vers, changes, overlap, dual>>
vars == <<env, host, ext, sentinel, mark, rq>>

compat == host # "no-compat"
blocked == host = "blocked"

Accounts == DOMAIN vers
Login == [acct |-> active, ver |-> vers[active]]

NoReq == [pc |-> "idle", prov |-> None, kind |-> None, tok |-> None, acct |-> None,
          sent |-> <<>>, rec |-> None, ok |-> FALSE]
NoExt == [at |-> "out", loads |-> 0, rehearsal |-> "unset", base |-> None,
          reg |-> [p \in Providers |-> "native"], mode |-> "inert",
          claimed |-> {}, consumed |-> FALSE, started |-> FALSE]

Init ==
  /\ db \in BOOLEAN /\ shadow \in {FALSE, db}
  /\ owner \in IF db THEN Owners ELSE {o \in Owners : o.kind = "absent"}
  /\ journal = "NATIVE" /\ marker = FALSE /\ pend = {}
  /\ host \in {"full", "no-compat", "blocked"}
  /\ active = 1 /\ vers = <<1, 1>> /\ changes = 0
  /\ ext \in {[NoExt EXCEPT !.rehearsal = h] : h \in {"unset", "0", "1"}}
  /\ sentinel = {} /\ mark = FALSE
  /\ rq = [r \in Reqs |-> NoReq]
  /\ overlap = FALSE /\ dual = FALSE

-----------------------------------------------------------------------------
(* Ownership and mode *)

ownerStateForProvider(o, p) ==
  CASE o.kind \in {"absent", "malformed"} -> o.kind
    [] o.kind = "v1" -> IF p = "anthropic" THEN "valid" ELSE "absent"
    [] o.kind = "v2" -> IF p \in o.providers THEN "valid" ELSE "absent"

decidePiMode(p, in) ==
  LET claims == in.owner = "valid" \/ (p = "anthropic" /\ in.rehearsal = "1")
  IN  CASE in.rehearsal = "0" -> "inert"
        [] in.rehearsal # "0" /\ in.owner = "malformed" -> "conflict"
        [] OTHER ->
             IF p # "anthropic" THEN IF claims THEN "owned" ELSE "inert"
             ELSE IF claims THEN IF in.journal = "NATIVE" THEN "owned" ELSE "conflict"
             ELSE IF in.journal = "CONSUMED" THEN "consume"
             ELSE IF in.marker THEN "conflict" ELSE "inert"

ModeOf(p, rehearsal) ==
  decidePiMode(p, [rehearsal |-> rehearsal, owner |-> ownerStateForProvider(owner, p),
                   journal |-> "unknown", marker |-> FALSE])

canSkipJournal(rehearsal, base) ==
  rehearsal = "unset" /\ base.owner = "absent" /\ ~base.marker /\ ~db

(* A Codex claim: the shared document, else the Codex-specific file.        *)
qlbOwnsProvider ==
  \/ owner.kind = "malformed"
  \/ owner.kind = "v2" /\ "openai-codex" \in owner.providers
  \/ shadow

(* Kimi takes its transport at the first request.                           *)
KimiSource(rehearsal) ==
  IF ModeOf("kimi-coding", rehearsal) = "inert" THEN "native" ELSE "gate"

(* OpenRouter: without compat a stub; a rejected models.json leaves Pi's    *)
(* own provider; otherwise the stub first, then the source over it.         *)
registerOpenRouterSource(rehearsal) ==
  LET m == ModeOf("openrouter", rehearsal)
  IN  IF m = "inert" THEN "native"
      ELSE IF ~compat THEN "closed"
      ELSE IF blocked THEN "native"
      ELSE IF m = "owned" THEN "gate" ELSE "closed"

(* xAI and Codex: a missing transport still replaces the native provider.   *)
registerOwned(p) == IF compat THEN "gate" ELSE "closed"

(* Anthropic; an owned provider without its transport stays as Pi has it.   *)
AnthropicSource(mode) ==
  CASE mode = "inert" -> "native"
    [] mode = "conflict" -> "conflict"
    [] mode = "consume" -> IF compat THEN "consume" ELSE "conflict"
    [] mode = "owned" -> IF compat THEN "gate" ELSE "native"

-----------------------------------------------------------------------------
(* Loading *)

(* History: what the owner file claims, or leaves in doubt.                 *)
Claimed(o) == {p \in Providers : ownerStateForProvider(o, p) # "absent"}

LoadStart ==
  /\ ext.at = "out" /\ ext.loads < MaxLoads
  /\ LET rehearsal == ext.rehearsal
         base == IF rehearsal = "0" THEN None
                 ELSE [owner |-> ownerStateForProvider(owner, "anthropic"), marker |-> marker]
     IN  ext' = [NoExt EXCEPT
           !.loads = ext.loads + 1, !.rehearsal = rehearsal, !.base = base,
           !.reg["kimi-coding"] = KimiSource(rehearsal),
           !.reg["openrouter"] = registerOpenRouterSource(rehearsal),
           !.claimed = Claimed(owner), !.consumed = (journal = "CONSUMED"),
           !.at = IF base # None /\ ~canSkipJournal(rehearsal, base)
                  THEN "journal" ELSE "inert"]
  /\ UNCHANGED <<env, host, sentinel, mark, rq>>

(* qlb consume status: anything but a clean answer, a missing binary and a  *)
(* timeout included, is unknown.                                            *)
StatusAnswers == {journal, "unknown"}

LoadJournal ==
  /\ ext.at = "journal"
  /\ \E j \in StatusAnswers :
       ext' = [ext EXCEPT !.at = "register", !.mode =
         decidePiMode("anthropic", [rehearsal |-> ext.rehearsal, owner |-> ext.base.owner,
                                    journal |-> j, marker |-> ext.base.marker])]
  /\ UNCHANGED <<env, host, sentinel, mark, rq>>

LoadEnd ==
  /\ ext.at \in {"register", "inert"}
  /\ LET on == ext.base # None
     IN  ext' = [ext EXCEPT
           !.at = "ready",
           !.reg["xai"] = IF on /\ ModeOf("xai", ext.rehearsal) # "inert"
                          THEN registerOwned("xai") ELSE "native",
           !.reg["openai-codex"] = IF on /\ qlbOwnsProvider
                                   THEN registerOwned("openai-codex") ELSE "native",
           !.reg["anthropic"] = AnthropicSource(ext.mode)]
  /\ UNCHANGED <<env, host, sentinel, mark, rq>>

-----------------------------------------------------------------------------
(* Sessions and the runtime sentinel *)

Without(s) == IF mark THEN s \ {"anthropic"} ELSE s

(* A plausible error: only an active load cleans up after its predecessor.  *)
sentinelOfActive ==
  /\ ext.at = "ready" /\ ~ext.started
  /\ LET set == ext.reg["anthropic"] \in {"conflict", "consume"}
         cdx == IF ext.reg["openai-codex"] # "native" THEN {"openai-codex"} ELSE {}
     IN  /\ sentinel' = sentinel \cup cdx \cup (IF set THEN {"anthropic"} ELSE {})
         /\ mark' = (mark \/ (set))
  /\ ext' = [ext EXCEPT !.started = TRUE]
  /\ UNCHANGED <<env, host, rq>>

(* The removal was registered first, so it runs first.                      *)
SessionStart ==
  /\ ext.at = "ready" /\ ~ext.started
  /\ LET set == ext.reg["anthropic"] \in {"conflict", "consume"}
         cdx == IF ext.reg["openai-codex"] # "native" THEN {"openai-codex"} ELSE {}
     IN  /\ sentinel' = Without(sentinel) \cup cdx \cup (IF set THEN {"anthropic"} ELSE {})
         /\ mark' = (set)
  /\ ext' = [ext EXCEPT !.started = TRUE]
  /\ UNCHANGED <<env, host, rq>>

SessionShutdown ==
  /\ ext.at = "ready" /\ ext.started
  /\ sentinel' = Without(sentinel) /\ mark' = FALSE
  /\ ext' = [ext EXCEPT !.started = FALSE]
  /\ UNCHANGED <<env, host, rq>>

(* Pi loads its extensions again, in the same process.                      *)
Reload ==
  /\ ext.at = "ready" /\ ext.loads < MaxLoads
  /\ ext' = [NoExt EXCEPT !.loads = ext.loads, !.rehearsal = ext.rehearsal]
  /\ UNCHANGED <<env, host, sentinel, mark, rq>>

-----------------------------------------------------------------------------
(* Requests *)

Step(r, q) == rq' = [rq EXCEPT ![r] = q] /\ UNCHANGED <<env, host, ext, sentinel, mark>>

(* What the request may be served on, if it holds at some moment of it.     *)
Entitled(kind, p) ==
  CASE kind = "consume" -> journal = "CONSUMED" /\ ownerStateForProvider(owner, p) = "absent"
    [] kind = "gate" /\ p = "kimi-coding" -> ownerStateForProvider(owner, p) # "absent"
    [] OTHER -> TRUE

Begins(r, p, kind) ==
  ext.started /\ rq[r].pc = "idle" /\ ext.reg[p] = kind

Fresh(p, kind, pc) ==
  [NoReq EXCEPT !.pc = pc, !.prov = p, !.kind = kind, !.ok = Entitled(kind, p)]

(* recordOutcome, where the request has an account, and the end of it.      *)
Finish(r, result) ==
  Step(r, [rq[r] EXCEPT !.pc = result, !.tok = None,
             !.rec = IF rq[r].acct = None THEN None
                     ELSE [acct |-> rq[r].acct, outcome |-> IF result = "ok" THEN "ok" ELSE "failed"]])

(* The stubs answer at once and read nothing.                               *)
StubAnswers(r, p) ==
  \E kind \in {"closed", "conflict"} :
    Begins(r, p, kind) /\ Step(r, Fresh(p, kind, "unavailable"))

(* A plausible error: consumption is decided when Pi starts, not here.      *)
consumeAsLoaded(r) ==
  /\ Begins(r, "anthropic", "consume")
  /\ Step(r, [Fresh("anthropic", "consume", "read") EXCEPT !.acct = "cswap-active"])

(* Consumption looks at the owner file again, then at the journal.          *)
BeginConsume(r) ==
  /\ Begins(r, "anthropic", "consume")
  /\ LET pc == IF ownerStateForProvider(owner, "anthropic") = "absent"
               THEN "journal" ELSE "unavailable"
     IN  Step(r, [Fresh("anthropic", "consume", pc) EXCEPT !.acct = "cswap-active"])

CheckJournal(r) ==
  /\ rq[r].pc = "journal"
  /\ \E j \in StatusAnswers :
       IF j = "CONSUMED" THEN Step(r, [rq[r] EXCEPT !.pc = "read"])
       ELSE Finish(r, "unavailable")

(* The login, or unreadable or expired.                                     *)
readActiveClaudeAccess(r) ==
  /\ rq[r].pc = "read"
  /\ \/ Step(r, [rq[r] EXCEPT !.pc = "stream", !.tok = Login, !.sent = <<Login>>])
     \/ Finish(r, "unavailable")

(* The other sources ask the gate; Kimi looks at its owner entry first.     *)
BeginGate(r, p) ==
  /\ Begins(r, p, "gate")
  /\ Step(r, Fresh(p, "gate", IF p = "kimi-coding" /\ ModeOf(p, ext.rehearsal) = "inert"
                              THEN "unavailable" ELSE "gate"))

AsksGate(r, p) == rq[r].pc = "gate" /\ rq[r].prov = p
Served(r) == Step(r, [rq[r] EXCEPT !.pc = "stream", !.sent = <<"token">>])

(* A refusal, a timeout, a missing binary and malformed output are one.     *)
AnthropicGate(r) ==
  /\ AsksGate(r, "anthropic")
  /\ \/ Step(r, [rq[r] EXCEPT !.pc = "stream", !.tok = Login, !.acct = active, !.sent = <<Login>>])
     \/ Finish(r, "unavailable")

CodexGate(r) ==
  AsksGate(r, "openai-codex") /\ (Served(r) \/ Finish(r, "unavailable"))

(* Aborted before, during or right after the gate; the transport is looked  *)
(* up only now.                                                             *)
KimiGate(r) ==
  /\ AsksGate(r, "kimi-coding")
  /\ \/ compat /\ Served(r)
     \/ Finish(r, "unavailable") \/ Finish(r, "aborted")

XaiGate(r) ==
  AsksGate(r, "xai") /\ (Served(r) \/ Finish(r, "unavailable") \/ Finish(r, "aborted"))

OpenRouterGate(r) ==
  AsksGate(r, "openrouter") /\ (Served(r) \/ Finish(r, "unavailable"))

Streams(r, p) == rq[r].pc = "stream" /\ rq[r].prov = p

(* The provider's own last event is passed on; an exception of the          *)
(* transport shows as QLB being unavailable, except for xAI.                *)
CodexStream(r) ==
  Streams(r, "openai-codex") /\ \E e \in {"ok", "failed", "unavailable"} : Finish(r, e)

KimiStream(r) ==
  Streams(r, "kimi-coding") /\ \E e \in {"ok", "failed", "unavailable", "aborted"} : Finish(r, e)

XaiStream(r) ==
  Streams(r, "xai") /\ \E e \in {"ok", "failed", "error", "aborted"} : Finish(r, e)

OpenRouterStream(r) ==
  Streams(r, "openrouter") /\ \E e \in {"ok", "failed", "unavailable"} : Finish(r, e)

(* Once per request, and only for a rejected token.                         *)
shouldResyncAfterAuthFailure(q) == Len(q.sent) = 1

(* Anthropic: a stream counts as ok only with its final event; a token that *)
(* is no longer current is rejected, any other may be.                      *)
AnthropicStream(r) ==
  /\ Streams(r, "anthropic")
  /\ \/ rq[r].tok.ver = vers[rq[r].tok.acct] /\ Finish(r, "ok")
     \/ Finish(r, "failed")
     \/ shouldResyncAfterAuthFailure(rq[r]) /\ Step(r, [rq[r] EXCEPT !.pc = "resync"])

Again(r) == Step(r, [rq[r] EXCEPT !.pc = "stream", !.tok = Login, !.sent = Append(@, Login)])

(* Consumption reads the login once more: it must have changed.             *)
ConsumeResync(r) ==
  /\ rq[r].pc = "resync" /\ rq[r].kind = "consume"
  /\ Finish(r, "failed") \/ (Login # rq[r].tok /\ Again(r))

(* One more gate call: another account ends the request without a record,   *)
(* an unchanged token with the failure.                                     *)
GateResync(r) ==
  /\ rq[r].pc = "resync" /\ rq[r].kind = "gate"
  /\ \/ Finish(r, "failed")
     \/ /\ active # rq[r].tok.acct
        /\ Step(r, [rq[r] EXCEPT !.pc = "failed", !.tok = None])
     \/ /\ active = rq[r].tok.acct /\ Login # rq[r].tok
        /\ Again(r)

-----------------------------------------------------------------------------
(* Outside Pi *)

(* One event: requests under way remember that they were entitled.          *)
Outside ==
  /\ changes < MaxChanges /\ changes' = changes + 1
  /\ rq' = [r \in Reqs |->
       [rq[r] EXCEPT !.ok = @ \/ (rq[r].pc # "idle" /\
          \/ rq[r].kind = "consume" /\ journal' = "CONSUMED"
             /\ ownerStateForProvider(owner', "anthropic") = "absent"
          \/ rq[r].prov = "kimi-coding"
             /\ ownerStateForProvider(owner', "kimi-coding") # "absent")]]
  /\ ext' = IF ext.at \in {"out", "ready"} THEN ext
            ELSE [ext EXCEPT !.claimed = @ \cap Claimed(owner'),
                             !.consumed = @ /\ journal' = "CONSUMED"]
  /\ UNCHANGED <<host, sentinel, mark>>

(* Enabling is refused while Pi's accounts are owned; the marker comes      *)
(* before the journal, and Pi's accounts are not looked at again.           *)
EnableMarker ==
  /\ ownerStateForProvider(owner, "anthropic") = "absent" /\ "enable" \notin pend
  /\ marker' = TRUE /\ db' = TRUE /\ pend' = pend \cup {"enable"}
  /\ overlap' = (overlap \/ "disable" \in pend)
  /\ UNCHANGED <<owner, shadow, journal, active, vers, dual>> /\ Outside

EnableJournal ==
  /\ "enable" \in pend
  /\ journal' = "CONSUMED" /\ pend' = pend \ {"enable"}
  /\ dual' = (dual \/ ownerStateForProvider(owner, "anthropic") # "absent")
  /\ UNCHANGED <<owner, shadow, marker, db, active, vers, overlap>> /\ Outside

DisableJournal ==
  /\ db /\ "disable" \notin pend
  /\ journal' = "NATIVE" /\ pend' = pend \cup {"disable"}
  /\ overlap' = (overlap \/ "enable" \in pend)
  /\ UNCHANGED <<owner, shadow, marker, db, active, vers, dual>> /\ Outside

DisableMarker ==
  /\ "disable" \in pend
  /\ marker' = FALSE /\ pend' = pend \ {"disable"}
  /\ UNCHANGED <<owner, shadow, journal, db, active, vers, overlap, dual>> /\ Outside

CommandDies ==
  /\ pend # {} /\ pend' = {}
  /\ UNCHANGED <<owner, shadow, journal, marker, db, active, vers, overlap, dual>> /\ Outside

(* qlb migrate publishes or withdraws an entry; Anthropic's is refused      *)
(* while consumption is enabled.                                            *)
Migrate ==
  /\ \/ \E p \in Movable :
          /\ owner.kind \in {"absent", "v2"} /\ p \notin owner.providers
          /\ p = "anthropic" => journal # "CONSUMED"
          /\ owner' = [kind |-> "v2", providers |-> owner.providers \cup {p}]
     \/ \E p \in owner.providers \cap Movable :
          owner' = [kind |-> "v2", providers |-> owner.providers \ {p}]
     \/ owner.kind = "v1" /\ owner' = [kind |-> "absent", providers |-> {}]
  /\ UNCHANGED <<shadow, journal, marker, db, pend, active, vers, overlap, dual>> /\ Outside

(* The login is refreshed, or another account becomes active; only a        *)
(* request that has read it can tell.                                       *)
LoginChanges ==
  /\ \E r \in Reqs : rq[r].tok # None
  /\ \/ vers' = [vers EXCEPT ![active] = @ + 1] /\ active' = active
     \/ active' \in Accounts \ {active} /\ vers' = vers
  /\ UNCHANGED <<owner, shadow, journal, marker, db, pend, overlap, dual>> /\ Outside

Next ==
  \/ LoadStart \/ LoadJournal \/ LoadEnd \/ SessionStart \/ SessionShutdown \/ Reload
  \/ \E r \in Reqs :
       \/ \E p \in Providers : StubAnswers(r, p) \/ BeginGate(r, p)
       \/ BeginConsume(r) \/ CheckJournal(r) \/ readActiveClaudeAccess(r)
       \/ AnthropicGate(r) \/ CodexGate(r) \/ KimiGate(r) \/ XaiGate(r) \/ OpenRouterGate(r)
       \/ AnthropicStream(r) \/ CodexStream(r) \/ KimiStream(r) \/ XaiStream(r) \/ OpenRouterStream(r)
       \/ ConsumeResync(r) \/ GateResync(r)
  \/ EnableMarker \/ EnableJournal \/ DisableJournal \/ DisableMarker \/ CommandDies
  \/ Migrate \/ LoginChanges

Spec == Init /\ [][Next]_vars

-----------------------------------------------------------------------------
(* Properties *)

(* A provider that the owner file claimed, or left in doubt, during the     *)
(* whole load is not served by Pi's own login afterwards.  Two cases are    *)
(* known to escape: OpenRouter behind a rejected models.json, and owned     *)
(* Anthropic on a Pi whose compat module lacks its transport.               *)
ClaimedIsReplaced ==
  ext.at = "ready" /\ ext.rehearsal # "0" =>
    \A p \in Providers :
      /\ p \in ext.claimed
      /\ p = "openrouter" => ~blocked
      /\ p = "anthropic" => compat
      => ext.reg[p] # "native"

(* A load during which consumption was enabled does not leave Anthropic to  *)
(* Pi's pool, even when the CLI cannot be asked: the marker is there.       *)
ConsumedFailsClosed ==
  ext.at = "ready" /\ ext.rehearsal # "0" /\ ext.consumed /\ ~overlap =>
    ext.reg["anthropic"] # "native"

(* An owned request is sent at most twice, never twice with one token, only *)
(* ever on one account, and its audit record names that account.            *)
RetryKeepsAccount ==
  \A r \in Reqs :
    /\ Len(rq[r].sent) <= 2
    /\ \A i, j \in DOMAIN rq[r].sent : i # j => rq[r].sent[i] # rq[r].sent[j]
    /\ rq[r].kind = "gate" /\ rq[r].rec # None =>
         \A i \in DOMAIN rq[r].sent : rq[r].sent[i].acct = rq[r].rec.acct

(* A request is served on C-swap's login, or on Kimi's gate, only when      *)
(* consumption or the owner entry was in force at some moment of it:        *)
(* disabling and rolling back stop a running Pi from its next request on.   *)
(* An enable that was admitted before a migration claimed Anthropic can     *)
(* still write its journal over that claim.  Kimi's half is little more     *)
(* than the guard of its gate; the other providers look at no such record.  *)
ServedOnlyIfEntitled == ~dual => \A r \in Reqs : rq[r].sent # <<>> => rq[r].ok

(* Once the session has started, Pi's runtime has QLB's Anthropic sentinel  *)
(* exactly when the provider loaded last needs it, whatever an earlier load *)
(* left in the process.                                                     *)
SentinelMatchesMode ==
  ext.at = "ready" /\ ext.started =>
    ("anthropic" \in sentinel) = (ext.reg["anthropic"] \in {"conflict", "consume"})
=============================================================================
