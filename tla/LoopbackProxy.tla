---------------------------- MODULE LoopbackProxy ----------------------------
(***************************************************************************)
(* qlb-proxy and native resync.                                            *)
(*                                                                         *)
(* A proxy listens on the loopback, publishes its port and token in        *)
(* proxy.json, counts its requests and leaves when idle.  A request is     *)
(* given an account, the account's access token is read, and after a 401   *)
(* the token is read again (C-swap's login) or QLB's copy is compared with *)
(* the native store and replaced by it, once; then the request is sent     *)
(* again.  Its client may leave at any moment.  `qlb native-resync` does   *)
(* the same resync from a terminal, while grants are refreshed, handed     *)
(* back and consumed by others.                                            *)
(***************************************************************************)
EXTENDS Naturals, Sequences, FiniteSets

CONSTANTS
  Proxies, Reqs,
  Cmds,        \* runs of qlb native-resync
  MaxTok,      \* bound: access tokens ever issued
  MaxEvents,   \* bound: commands and refreshes outside
  None,
  Junk         \* an item that does not parse

Items == [tok : Nat, gen : Nat]

ASSUME JobsAssumption == Reqs \cap Cmds = {}
ASSUME NoneAssumption == None \notin Proxies \cup Items /\ Junk \notin Items \cup {None}

VARIABLES
  px,        \* [Proxies -> a server: at, idle timer, requests counted, --no-idle]
  info,      \* the proxy whose proxy.json is on disk
  job,       \* [Reqs \cup Cmds -> a request or a command]
  prov,      \* provider of the account "own"
  item,      \* QLB's copy in the credential store
  gen,       \* its generation in the database
  native,    \* the native store's token: None without one, or a placeholder
  mig,       \* the provider's migration row
  consumed,  \* the row cswap-anthropic
  login,     \* the access token of C-swap's active login
  tx,        \* a grant refresh between its write and its commit
  issued,    \* tokens issued so far
  events     \* bound

world == <<prov, item, gen, native, mig, consumed, login, tx, issued, events>>
vars == <<px, info, job, world>>

Jobs == Reqs \cup Cmds
NoJob == [pc |-> "idle", on |-> None, acct |-> None, tok |-> None, sent |-> 0,
          nat |-> None, own |-> None, og |-> None, seen |-> 0,
          left |-> FALSE]  \* its client has gone
NewServer(noIdle) == [at |-> "off", timer |-> FALSE, inFlight |-> 0, noIdle |-> noIdle]

shared == prov = "xai"
Parsed(i) == i \notin {None, Junk}

Init ==
  /\ px \in [Proxies -> {NewServer(b) : b \in BOOLEAN}]
  /\ info = None
  /\ job = [j \in Jobs |-> NoJob]
  /\ prov \in {"anthropic", "xai"}
  /\ gen = 1 /\ item \in {None, Junk, [tok |-> 1, gen |-> 1]}
  /\ native \in {None, 1, 2} /\ login = 1
  /\ mig = "QLB_OWNED" /\ consumed = FALSE
  /\ tx = None /\ issued = 2 /\ events = 0

Only(j, q) == job' = [job EXCEPT ![j] = q] /\ UNCHANGED <<px, info, world>>

-----------------------------------------------------------------------------
(* The server *)

(* Never beside a request, in a stopped server, or with --no-idle.          *)
armIdle(q) ==
  [q EXCEPT !.timer = q.at \in {"listening", "running"} /\ ~q.noIdle /\ q.inFlight = 0]

Listen(p) ==
  /\ px[p].at = "off"
  /\ px' = [px EXCEPT ![p].at = "listening"]
  /\ UNCHANGED <<info, job, world>>

(* A request that came in before the token existed may still be there.      *)
Publish(p) ==
  /\ px[p].at = "listening"
  /\ px' = [px EXCEPT ![p] = armIdle([px[p] EXCEPT !.at = "running"])]
  /\ info' = p
  /\ UNCHANGED <<job, world>>

idleExit(p) ==
  /\ px[p].timer
  /\ px' = [px EXCEPT ![p].at = IF px[p].inFlight = 0 THEN "closing" ELSE @, ![p].timer = FALSE]
  /\ UNCHANGED <<info, job, world>>

(* SIGINT or SIGTERM.  The server closes when its last client has gone; a   *)
(* second signal finds no server to wait for and cuts what is left.         *)
Signal(p) ==
  /\ px[p].at = "running"
  /\ px' = [px EXCEPT ![p].at = "closing", ![p].timer = FALSE]
  /\ UNCHANGED <<info, job, world>>

Over(p) == [NoJob EXCEPT !.pc = "done", !.on = p]

(* The end of the process is the end of the requests it was serving.        *)
Cut(p) == [j \in Jobs |-> IF job[j].on = p THEN Over(p) ELSE job[j]]
Gone(p, how) ==
  px' = [px EXCEPT ![p].at = how, ![p].timer = FALSE, ![p].inFlight = 0] /\ job' = Cut(p)

(* The file is removed whoever wrote it.                                    *)
Leave(p) == Gone(p, "exited") /\ info' = None /\ UNCHANGED world

(* close waits for connections: a handler whose client left does not hold it. *)
stop(p) ==
  /\ px[p].at = "closing"
  /\ \A r \in Reqs : job[r].on = p /\ job[r].pc # "done" => job[r].left
  /\ Leave(p)

SignalAgain(p) == px[p].at = "closing" /\ Leave(p)

Die(p) ==
  /\ px[p].at \in {"listening", "running", "closing"}
  /\ Gone(p, "dead") /\ UNCHANGED <<info, world>>

-----------------------------------------------------------------------------
(* A request *)

handle(r, p) ==
  /\ job[r].pc = "idle" /\ px[p].at \in {"listening", "running", "closing"}
  /\ px' = [px EXCEPT ![p].timer = FALSE, ![p].inFlight = @ + 1]
  /\ job' = [job EXCEPT ![r] = [NoJob EXCEPT !.pc = "auth", !.on = p]]
  /\ UNCHANGED <<info, world>>

(* The client goes away before it has an answer; during the body its        *)
(* departure is the end of the request.                                     *)
ClientLeaves(r) ==
  /\ job[r].pc \notin {"idle", "body", "stranded", "done"} /\ ~job[r].left
  /\ Only(r, [job[r] EXCEPT !.left = TRUE])

(* A plausible error: only a request that was served is counted down.       *)
endsServed(r) ==
  LET p == job[r].on
      q == [px[p] EXCEPT !.inFlight = IF job[r].pc = "body" THEN @ - 1 ELSE @]
  IN  /\ job' = [job EXCEPT ![r] = Over(p)]
      /\ px' = [px EXCEPT ![p] = IF q.inFlight = 0 THEN armIdle(q) ELSE q]
      /\ UNCHANGED <<info, world>>

(* The finally of handle, whatever the answer was.                          *)
Ends(r) ==
  LET p == job[r].on
      q == [px[p] EXCEPT !.inFlight = @ - 1]
  IN  /\ job' = [job EXCEPT ![r] = Over(p)]
      /\ px' = [px EXCEPT ![p] = IF q.inFlight = 0 THEN armIdle(q) ELSE q]
      /\ UNCHANGED <<info, world>>

(* Wrong or missing token, before the token exists every request, and then  *)
(* host, path, body (one cut off too) or policy; else it is resolved.       *)
handleInner(r) ==
  /\ job[r].pc = "auth"
  /\ \/ Ends(r)
     \/ /\ px[job[r].on].at # "listening"
        /\ Only(r, [job[r] EXCEPT !.pc = "resolve"])

(* Consumption replaces Anthropic's accounts by C-swap's login.             *)
resolveFromSnapshots(r) ==
  /\ job[r].pc = "resolve"
  /\ \/ Ends(r)
     \/ \E a \in (IF consumed THEN {"cswap-active"} ELSE {})
                 \cup (IF consumed /\ prov = "anthropic" THEN {} ELSE {"own"}) :
          Only(r, [job[r] EXCEPT !.pc = "credential", !.acct = a])

(* The token getCredential would answer, None when it throws.               *)
getCredential(a) ==
  IF a = "cswap-active" THEN IF consumed THEN login ELSE None
  ELSE IF consumed /\ prov = "anthropic" THEN None
  ELSE IF mig = "NATIVE" \/ ~Parsed(item) THEN None ELSE item.tok

FirstCredential(r) ==
  /\ job[r].pc = "credential"
  /\ \E t \in {getCredential(job[r].acct), None} :
       IF t = None THEN Ends(r) ELSE Only(r, [job[r] EXCEPT !.pc = "send", !.tok = t])

(* The login is sent as it was read; an owned token is read once more.      *)
Send(r) ==
  /\ job[r].pc = "send"
  /\ \E t \in IF job[r].acct = "own" THEN {getCredential("own"), None} ELSE {job[r].tok} :
       IF t = None THEN Ends(r)
       ELSE Only(r, [job[r] EXCEPT !.pc = "upstream", !.tok = t, !.sent = @ + 1])

(* The answer is to be passed on; for a command, reported.                  *)
Answered(j) == [NoJob EXCEPT !.pc = IF j \in Cmds THEN "done" ELSE "stream",
                             !.on = job[j].on, !.left = job[j].left]

(* No answer; an answer that is passed on; a first 401.                     *)
attemptWithNativeResyncRetry(r) ==
  /\ job[r].pc = "upstream"
  /\ \/ Ends(r)
     \/ Only(r, Answered(r))
     \/ job[r].sent = 1 /\ Only(r, [job[r] EXCEPT !.pc =
          IF job[r].acct = "own" THEN "native" ELSE "reread"])

Reread(r) ==
  /\ job[r].pc = "reread"
  /\ \E t \in {getCredential("cswap-active"), None} :
       Only(r, IF t \in {None, job[r].tok} THEN Answered(r)
               ELSE [job[r] EXCEPT !.pc = "send", !.tok = t])

(* Readings and record, the headers, and from here on the listeners for the *)
(* end of the response.  A client that left earlier has closed it already:  *)
(* neither event comes any more, and the handler waits for ever.            *)
Stream(r) ==
  /\ job[r].pc = "stream"
  /\ Only(r, [job[r] EXCEPT !.pc = IF job[r].left THEN "stranded" ELSE "body"])

(* The response is finished, or closed by its client.                       *)
Body(r) == job[r].pc = "body" /\ Ends(r)

-----------------------------------------------------------------------------
(* Native resync *)

Command(c) == job[c].pc = "idle" /\ c \in Cmds /\ Only(c, [NoJob EXCEPT !.pc = "native"])

(* The resync's verdict: a request goes on, a command is over.              *)
Verdict(j, resynced) ==
  [job EXCEPT ![j] =
     IF resynced /\ j \in Reqs
     THEN [job[j] EXCEPT !.nat = None, !.own = None, !.og = None, !.seen = 0, !.pc = "send"]
     ELSE Answered(j)]

readNativeCredential(j) ==
  /\ job[j].pc = "native"
  /\ \E n \in {native, None} :
       IF n = None THEN job' = Verdict(j, FALSE)
       ELSE job' = [job EXCEPT ![j].pc = "owned", ![j].nat = n]
  /\ UNCHANGED <<px, info, world>>

(* The generation, then the item; an unreadable item is never written, one  *)
(* that was read and does not parse is.                                     *)
readOwnedCredential(j) ==
  /\ job[j].pc = "owned"
  /\ \/ /\ Parsed(item) => item.tok # job[j].nat
        /\ job' = [job EXCEPT ![j].pc = "write", ![j].og = gen, ![j].own = item,
                              ![j].seen = issued]
     \/ job' = Verdict(j, FALSE)
  /\ UNCHANGED <<px, info, world>>

(* Only what the migration took over, and not once a hand-back began.       *)
permitsNativeResync == mig = "QLB_OWNED"

(* A plausible error: the generation alone is the fence.                    *)
generationFence(j) == gen = job[j].og /\ permitsNativeResync

Fence(j) == gen = job[j].og /\ permitsNativeResync /\ item = job[j].own

(* Ahead stays ahead, and never below the database.                         *)
mergeOwnedGeneration(own, floor) ==
  IF ~Parsed(own) \/ own.gen < floor THEN floor ELSE own.gen

(* One transaction; the commit itself may fail, after the item is written.  *)
(* The items the gates share are fenced by a generation of their own.       *)
writeOwnedCredential(j) ==
  /\ job[j].pc = "write" /\ tx = None
  /\ IF ~Fence(j) THEN job' = Verdict(j, FALSE) /\ UNCHANGED <<item, gen>>
     ELSE /\ item' = [tok |-> job[j].nat,
                      gen |-> IF shared THEN job[j].og + 1
                              ELSE mergeOwnedGeneration(job[j].own, job[j].og)]
          /\ \E commits \in BOOLEAN :
               /\ gen' = IF shared /\ commits THEN gen + 1 ELSE gen
               /\ job' = Verdict(j, commits)
  /\ UNCHANGED <<px, info, prov, native, mig, consumed, login, tx, issued, events>>

-----------------------------------------------------------------------------
(* Others *)

Outside == events < MaxEvents /\ events' = events + 1 /\ UNCHANGED <<px, info, job, prov>>
Issue == issued < MaxTok /\ issued' = issued + 1

(* The native program refreshes its token, or logs in.                      *)
NativeRefresh ==
  /\ Issue /\ native' = issued' /\ Outside
  /\ UNCHANGED <<item, gen, mig, consumed, login, tx>>

(* A grant refresh: the fenced write and its commit, which may not come.    *)
RefreshWrites ==
  /\ tx = None /\ mig # "NATIVE" /\ Parsed(item) /\ item.gen = gen
  /\ Issue /\ item' = [tok |-> issued', gen |-> gen + 1] /\ tx' = "refresh" /\ Outside
  /\ UNCHANGED <<gen, native, mig, consumed, login>>

RefreshCommits ==
  /\ tx # None /\ tx' = None /\ gen' = gen + 1
  /\ UNCHANGED <<px, info, job, prov, item, native, mig, consumed, login, issued, events>>

RefreshDies ==
  /\ tx # None /\ tx' = None
  /\ UNCHANGED <<px, info, job, prov, item, gen, native, mig, consumed, login, issued, events>>

(* The next reader follows an item that is ahead.                           *)
Repair ==
  /\ tx = None /\ Parsed(item) /\ item.gen = gen + 1
  /\ gen' = item.gen
  /\ UNCHANGED <<px, info, job, prov, item, native, mig, consumed, login, tx, issued, events>>

(* Retirement; a hand-back begun (the row keeps its state) and finished.    *)
MigrationMoves ==
  /\ tx = None
  /\ \/ mig = "QLB_OWNED" /\ mig' \in {"RETIRED", "HANDBACK"}
     \/ mig = "HANDBACK" /\ mig' = "NATIVE"
  /\ Outside /\ UNCHANGED <<item, gen, native, consumed, login, tx, issued>>

ConsumeToggles ==
  /\ consumed' = ~consumed /\ Outside
  /\ UNCHANGED <<item, gen, native, mig, login, tx, issued>>

LoginChanges ==
  /\ Issue /\ login' = issued' /\ Outside
  /\ UNCHANGED <<item, gen, native, mig, consumed, tx>>

Next ==
  \/ \E p \in Proxies :
       \/ Listen(p) \/ Publish(p) \/ idleExit(p) \/ Signal(p) \/ Die(p)
       \/ stop(p) \/ SignalAgain(p)
       \/ \E r \in Reqs : handle(r, p)
  \/ \E r \in Reqs :
       \/ handleInner(r) \/ resolveFromSnapshots(r) \/ FirstCredential(r) \/ Send(r)
       \/ attemptWithNativeResyncRetry(r) \/ Reread(r) \/ Stream(r) \/ Body(r)
       \/ ClientLeaves(r)
  \/ \E j \in Jobs :
       Command(j) \/ readNativeCredential(j) \/ readOwnedCredential(j) \/ writeOwnedCredential(j)
  \/ NativeRefresh \/ RefreshWrites \/ RefreshCommits \/ RefreshDies \/ Repair
  \/ MigrationMoves \/ ConsumeToggles \/ LoginChanges

Spec == Init /\ [][Next]_vars

-----------------------------------------------------------------------------
(* Properties *)

(* A resync never undoes a rotation of QLB's own refresh that happened      *)
(* since it compared the copies, not even one whose commit was lost.        *)
RotationKept ==
  [][\A j \in Jobs :
       job[j].pc = "write" /\ job'[j].pc # "write" /\ item' # item =>
         ~Parsed(item) \/ item.tok <= job[j].seen]_vars

(* Outside a refresh the item is in step with the database or one ahead,    *)
(* whichever of refresh and resync wrote it: never behind, which readers    *)
(* take for a lost write.                                                   *)
GenerationInStep ==
  tx = None /\ Parsed(item) => item.gen \in {gen, gen + 1}

(* The requests whose handler has not returned, a stranded one among them.  *)
Open(p) == {r \in Reqs : job[r].on = p /\ job[r].pc # "done"}

(* Every request is counted once, from the first line of its handler to its *)
(* end, however it ends, and forgotten only with its process.               *)
RequestsCounted == \A p \in Proxies : px[p].inFlight = Cardinality(Open(p))

(* A running proxy is about to leave by itself exactly when no handler is   *)
(* at work: requests that came before publication, that were refused, whose *)
(* client left, or that ended in either order leave the timer set, and no   *)
(* timer runs beside one.  The exception is what Stream strands             *)
(* (proxy.ts:870-875): such a request stays open, and its proxy stays.      *)
IdleIsTimed ==
  \A p \in Proxies :
    px[p].at = "running" => (px[p].timer <=> ~px[p].noIdle /\ Open(p) = {})

\* Outside a refresh the item is in step with the database or one ahead, every request
\* is counted until it ends, and a running proxy is about to leave by itself exactly
\* when all of its requests have ended, which a stranded one never does.
ProxySound == GenerationInStep /\ RequestsCounted /\ IdleIsTimed
=============================================================================
