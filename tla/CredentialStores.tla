-------------------------- MODULE CredentialStores --------------------------
(***************************************************************************)
(* The credential backends: the macOS Keychain behind its no-kill client,  *)
(* libsecret, the encrypted file and the DPAPI file.                       *)
(*                                                                         *)
(* On macOS every operation is a `security` or helper client run by an     *)
(* inner shell under `lockf`, below a detached outer shell.  The client    *)
(* may wait for the user's answer for ever; Node's timeout kills only the  *)
(* outer shell, so an abandoned client keeps the lock of its service and   *)
(* may still write.  What the caller is told is derived from the wrapper's *)
(* exit status, a sentinel on fd 3 and a marker on stderr.                 *)
(*                                                                         *)
(* The file backends read, change and rename one JSON file without a lock. *)
(* An item is the key it is encrypted with ("plain" outside the encrypted  *)
(* file); which value it holds is left to the modules of the grants.       *)
(***************************************************************************)
EXTENDS Naturals, FiniteSets, Functions

CONSTANTS Procs,      \* QLB processes
          Kinds,      \* the backend kinds to explore
          Services,   \* credential services, each with one account
          MaxCalls,   \* bound: operations of all processes together
          None

VARIABLES
  kind,     \* the platform's backend, fixed when the process starts
  item,     \* [Services -> None or the stored item]
  lock,     \* [Services -> None or the client whose lockf holds it]
  inner,    \* inner shells and clients, by [process, call, pass]
  call,     \* [Procs -> the operation in progress or last made]
  key,      \* ~/.qlb/.credkey: "none", "short" or the process that made it
  torn,     \* the credential file does not parse
  wrote,    \* history: [Procs -> has the current call's write taken effect]
  expect,   \* history: [Services -> a file item is supposed to be there]
  raced     \* history: two file operations overlapped

vars == <<kind, item, lock, inner, call, key, torn, wrote, expect, raced>>

FileKinds == {"linux-file", "windows-dpapi"}
StoreOps == {"set", "get", "delete"}

NoCall == [n |-> 0, pc |-> "idle", op |-> "get", svc |-> None, cmd |-> None,
           out |-> "none", snap |-> None, key |-> "plain"]

MayCall == FoldFunction(LAMBDA c, sum : c.n + sum, 0, call) < MaxCalls

Init ==
  /\ kind \in Kinds
  /\ item = [s \in Services |-> None]
  /\ lock = [s \in Services |-> None]
  /\ inner = {}
  /\ call = [p \in Procs |-> NoCall]
  /\ key = "none"
  /\ torn = FALSE
  /\ wrote = [p \in Procs |-> FALSE]
  /\ expect = [s \in Services |-> FALSE]
  /\ raced = FALSE

-----------------------------------------------------------------------------
(* The no-kill client *)

isWriteRequest(cmd) == cmd \in {"add", "update", "delete"}

(* A plausible error: a wrapper killed by the timeout is an ordinary        *)
(* failure.                                                                 *)
timeoutIsFailure(r, cmd) ==
  CASE r.status = "125-deadline" -> "not-started"
    [] r.status = "75" /\ ~r.started -> "still-waiting"
    [] OTHER -> IF r.status = "killed" THEN "failed" ELSE r.status

(* What the caller is told of a wrapper that ended with result r.  A closed *)
(* stdin (EPIPE) makes a write unknown, too; it is left out.                *)
keychainWrapperOutcome(r, cmd) ==
  CASE r.status = "125-deadline" -> "not-started"
    [] r.status = "75" /\ ~r.started -> "still-waiting"
    [] r.status \in {"killed", "none"} \/ ~r.started ->
         IF isWriteRequest(cmd) THEN "unknown" ELSE "failed"
    [] OTHER -> r.status

(* The client that process p waits for.                                     *)
Mine(p) == {c \in inner : /\ call[p].pc = "wait"
                          /\ c.p = p /\ c.n = call[p].n /\ c.pass = call[p].cmd}

(* An inner shell ends with a status, kept while its caller still waits;    *)
(* lockf goes with it and lets the lock go.                                 *)
Exit(c, status) ==
  /\ inner' = (inner \ {c})
       \cup {[d EXCEPT !.st = "exit", !.status = status] : d \in Mine(c.p) \cap {c}}
  /\ lock' = IF lock[c.svc] = [p |-> c.p, n |-> c.n, pass |-> c.pass]
             THEN [lock EXCEPT ![c.svc] = None] ELSE lock

(* lockf -t 0: a busy lock is status 75 at once.                            *)
TryLock(c) ==
  /\ c \in inner /\ c.st = "spawned"
  /\ IF lock[c.svc] # None
     THEN Exit(c, "75")
     ELSE /\ lock' = [lock EXCEPT ![c.svc] =
                        [p |-> c.p, n |-> c.n, pass |-> c.pass]]
          /\ inner' = (inner \ {c}) \cup {[c EXCEPT !.st = "locked"]}
  /\ UNCHANGED <<kind, item, call, key, torn, wrote, expect, raced>>

(* The doctor's probe runs /usr/bin/true under the lock and no shell.       *)
ProbeEnds(c) ==
  /\ c \in inner /\ c.st = "locked" /\ c.pass = "true"
  /\ Exit(c, "ok")
  /\ UNCHANGED <<kind, item, call, key, torn, wrote, expect, raced>>

(* The first deadline check, then the sentinel on fd 3.                     *)
SayStarted(c) ==
  /\ c \in inner /\ c.st = "locked" /\ c.pass # "true"
  /\ IF c.late
     THEN Exit(c, "125-deadline")
     ELSE /\ inner' = (inner \ {c})
                \cup {[c EXCEPT !.st = "started", !.started = TRUE]}
          /\ lock' = lock
  /\ UNCHANGED <<kind, item, call, key, torn, wrote, expect, raced>>

(* The secret is read, the deadline checked again and the client executed. *)
(* The caller may have died before it wrote the secret.                     *)
ExecClient(c) ==
  /\ c \in inner /\ c.st = "started"
  /\ \/ /\ c.pass \in {"add", "update"} /\ call[c.p].pc = "idle"
        /\ Exit(c, "125-no-secret")
     \/ c.late /\ Exit(c, "125-deadline")
     \/ /\ ~c.late
        /\ inner' = (inner \ {c}) \cup {[c EXCEPT !.st = "run"]}
        /\ lock' = lock
  /\ UNCHANGED <<kind, item, call, key, torn, wrote, expect, raced>>

Effect(c, status) ==
  /\ Exit(c, status)
  /\ wrote' = IF status = "ok" /\ isWriteRequest(c.pass) /\ call[c.p].n = c.n
              THEN [wrote EXCEPT ![c.p] = TRUE] ELSE wrote

(* The client does its work, or fails (a refused prompt, a locked           *)
(* Keychain).  The helper counts deleting an absent item as done.           *)
ClientWorks(c) ==
  /\ c \in inner /\ c.st = "run"
  /\ \/ /\ Effect(c, "1")
        /\ item' = item
     \/ /\ c.pass = "add"
        /\ IF item[c.svc] # None
           THEN Effect(c, "45") /\ item' = item
           ELSE /\ Effect(c, "ok")
                /\ item' = [item EXCEPT ![c.svc] = "plain"]
     \/ /\ c.pass = "update"
        /\ Effect(c, "ok")
        /\ item' = [item EXCEPT ![c.svc] = "plain"]
     \/ /\ c.pass = "delete"
        /\ Effect(c, "ok")
        /\ item' = [item EXCEPT ![c.svc] = None]
     \/ /\ c.pass = "find"
        /\ IF item[c.svc] = None THEN Effect(c, "44") ELSE Effect(c, "ok")
        /\ item' = item
  /\ UNCHANGED <<kind, call, key, torn, expect, raced>>

(* The wall clock passes the deadline of a request.                         *)
Expire(c) ==
  /\ c \in inner /\ ~c.late /\ c.st # "exit" /\ c.pass # "true"
  /\ inner' = (inner \ {c}) \cup {[c EXCEPT !.late = TRUE]}
  /\ UNCHANGED <<kind, item, lock, call, key, torn, wrote, expect, raced>>

-----------------------------------------------------------------------------
(* The macOS backend *)

(* All clients but the one process p has done with.                         *)
Running(p) == {c \in inner : ~(c.p = p /\ c.st = "exit")}

(* runKeychainClientSync: the request is checked, the lock file made and    *)
(* the wrapper spawned.                                                     *)
Spawn(p, s, cmd) ==
  inner' = Running(p)
           \cup {[p |-> p, n |-> call'[p].n, pass |-> cmd, svc |-> s,
                  st |-> "spawned", started |-> FALSE, late |-> FALSE,
                  status |-> "none"]}

FirstCommand(op) ==
  CASE op = "set" -> "add" [] op = "get" -> "find" [] op = "delete" -> "delete"
    [] op = "probe" -> "true"

Fresh(p, s, op) ==
  [NoCall EXCEPT !.n = call[p].n + 1, !.op = op, !.svc = s]

(* The lock directory or file is not private or cannot be made, or the      *)
(* allowlist or an untrusted helper refuses: no wrapper is spawned.         *)
Refused(p, s, op) ==
  /\ call' = [call EXCEPT ![p] = [Fresh(p, s, op) EXCEPT !.out = "refused"]]
  /\ inner' = inner

(* A macOS operation: refused, or its client is spawned.                    *)
BeginNative(p, s, op) ==
  /\ kind = "macos-keychain"
  /\ call[p].pc = "idle" /\ MayCall
  /\ wrote' = [wrote EXCEPT ![p] = FALSE]
  /\ \/ Refused(p, s, op)
     \/ /\ call' = [call EXCEPT ![p] = [Fresh(p, s, op) EXCEPT
                      !.cmd = FirstCommand(op), !.pc = "wait"]]
        /\ Spawn(p, s, FirstCommand(op))
  /\ UNCHANGED <<kind, item, lock, key, torn, expect, raced>>

(* What setSync, getSync and deleteSync make of an outcome o of their       *)
(* client; "again" is the update that follows a refused creation.           *)
Classify(cmd, o) ==
  CASE o \in {"still-waiting", "not-started"} -> "not-started"
    [] o = "unknown" -> "unknown"
    [] o = "ok" -> "ok"
    [] o = "45" /\ cmd = "add" -> "again"
    [] OTHER -> "failed"

(* The wrapper has answered, with result r, to process p.                   *)
Answer(p, r) ==
  \E a \in {Classify(call[p].cmd, keychainWrapperOutcome(r, call[p].cmd))} :
    IF a = "again"
    THEN /\ call' = [call EXCEPT ![p].cmd = "update"]
         /\ Spawn(p, call[p].svc, "update")
    ELSE /\ call' = [call EXCEPT ![p].pc = "idle", ![p].out = a]
         /\ inner' = Running(p)

(* The outer shell's `wait` returns the client's status.                    *)
Reap(p) ==
  /\ call[p].pc = "wait"
  /\ \E c \in Mine(p) : c.st = "exit" /\ Answer(p, c)
  /\ UNCHANGED <<kind, item, lock, key, torn, wrote, expect, raced>>

(* A plausible error: no timeout once the client has started.               *)
timeoutBeforeStart(p) ==
  /\ call[p].pc = "wait"
  /\ \E c \in Mine(p) :
       /\ c.late /\ ~c.started
       /\ Answer(p, [status |-> "killed", started |-> c.started])
  /\ UNCHANGED <<kind, item, lock, key, torn, wrote, expect, raced>>

(* Node's timeout, never before the deadline, kills the outer shell only.   *)
NodeTimeout(p) ==
  /\ call[p].pc = "wait"
  /\ \E c \in Mine(p) :
       c.late /\ Answer(p, [status |-> "killed", started |-> c.started])
  /\ UNCHANGED <<kind, item, lock, key, torn, wrote, expect, raced>>

-----------------------------------------------------------------------------
(* libsecret: secret-tool is killed at its timeout, and the daemon may or   *)
(* may not have done what it was asked.                                     *)
SecretTool(p, s, op) ==
  /\ kind = "linux-libsecret"
  /\ call[p].pc = "idle" /\ MayCall
  /\ \E done \in BOOLEAN, out \in {"ok", "failed"} :
       /\ out = "ok" => done
       /\ call' = [call EXCEPT ![p] = [Fresh(p, s, op) EXCEPT !.out = out]]
       /\ wrote' = [wrote EXCEPT ![p] = done /\ op # "get"]
       /\ item' = [item EXCEPT ![s] =
            CASE ~done \/ op = "get" -> @
              [] op = "delete" -> None
              [] OTHER -> "plain"]
  /\ UNCHANGED <<kind, lock, inner, key, torn, expect, raced>>

-----------------------------------------------------------------------------
(* The file backends *)

(* A file operation begins; the encrypted file's set and get load the key   *)
(* first.                                                                   *)
BeginFile(p, s, op) ==
  /\ kind \in FileKinds
  /\ call[p].pc = "idle" /\ MayCall
  /\ call' = [call EXCEPT ![p] = [Fresh(p, s, op) EXCEPT
                !.pc = IF kind = "linux-file" /\ op # "delete"
                       THEN "key" ELSE "read"]]
  /\ wrote' = [wrote EXCEPT ![p] = FALSE]
  /\ raced' = (raced \/ \E q \in Procs \ {p} : call[q].pc # "idle")
  /\ UNCHANGED <<kind, item, lock, inner, key, torn, expect>>

FileEnds(p, out) ==
  call' = [call EXCEPT ![p].pc = "idle", ![p].out = out, ![p].snap = None]

(* loadOrCreateKey: a key of the wrong length is refused, a missing one is  *)
(* created by a write that is not atomic.                                   *)
LoadKey(p) ==
  /\ call[p].pc = "key"
  /\ \/ key = "short" /\ FileEnds(p, "failed") /\ key' = key
     \/ /\ key \notin {"none", "short"}
        /\ call' = [call EXCEPT ![p].pc = "read", ![p].key = key]
        /\ key' = key
     \/ /\ key = "none"
        /\ key' = "short"
        /\ call' = [call EXCEPT ![p].pc = "newkey"]
  /\ UNCHANGED <<kind, item, lock, inner, torn, wrote, expect, raced>>

CreateKey(p) ==
  /\ call[p].pc = "newkey"
  /\ key' = p
  /\ call' = [call EXCEPT ![p].pc = "read", ![p].key = p]
  /\ UNCHANGED <<kind, item, lock, inner, torn, wrote, expect, raced>>

(* readStore, and what get and delete decide from it.  The file is replaced *)
(* by a rename, so torn is never TRUE here: no writer leaves half a file.   *)
ReadStore(p) ==
  LET s == call[p].svc
      op == call[p].op IN
  /\ call[p].pc = "read"
  /\ \/ torn /\ FileEnds(p, "failed")
     \/ /\ ~torn
        /\ IF op = "get"
           THEN FileEnds(p, IF item[s] # None /\ item[s] = call[p].key
                            THEN "ok" ELSE "failed")
           ELSE IF op = "delete" /\ item[s] = None
           THEN FileEnds(p, "failed")
           ELSE call' = [call EXCEPT ![p].pc = "write", ![p].snap = item]
  /\ UNCHANGED <<kind, item, lock, inner, key, torn, wrote, expect, raced>>

(* The changed copy goes to a temporary file of this process and is renamed *)
(* over the store.                                                          *)
WriteStore(p) ==
  LET s == call[p].svc
      set == call[p].op = "set" IN
  /\ call[p].pc = "write"
  /\ item' = [call[p].snap EXCEPT ![s] =
                IF set THEN call[p].key ELSE None]
  /\ expect' = [expect EXCEPT ![s] = set]
  /\ wrote' = [wrote EXCEPT ![p] = TRUE]
  /\ FileEnds(p, "ok")
  /\ UNCHANGED <<kind, lock, inner, key, torn, raced>>

-----------------------------------------------------------------------------
(* A process dies: its detached wrapper and client live on.                 *)
Crash(p) ==
  /\ call[p].pc # "idle"
  /\ call' = [call EXCEPT ![p].pc = "idle", ![p].out = "none", ![p].snap = None]
  /\ inner' = Running(p)
  /\ UNCHANGED <<kind, item, lock, key, torn, wrote, expect, raced>>

Next ==
  \/ \E c \in inner : \/ TryLock(c) \/ ProbeEnds(c) \/ SayStarted(c)
                      \/ ExecClient(c) \/ ClientWorks(c) \/ Expire(c)
  \/ \E p \in Procs :
       \/ \E s \in Services : \/ \E op \in StoreOps \cup {"probe"} : BeginNative(p, s, op)
                              \/ \E op \in StoreOps : SecretTool(p, s, op)
                              \/ \E op \in StoreOps : BeginFile(p, s, op)
       \/ Reap(p) \/ NodeTimeout(p)
       \/ LoadKey(p) \/ CreateKey(p) \/ ReadStore(p) \/ WriteStore(p)
       \/ Crash(p)

(* A process runs on, the shells' own steps are taken and time passes; what *)
(* a client does waits for the user and is owed to nobody.                  *)
Shells == \E c \in inner : \/ TryLock(c) \/ ProbeEnds(c) \/ SayStarted(c)
                           \/ ExecClient(c) \/ Expire(c)
Own(p) == \/ Reap(p) \/ NodeTimeout(p) \/ LoadKey(p) \/ CreateKey(p)
          \/ ReadStore(p) \/ WriteStore(p)

Spec == /\ Init /\ [][Next]_vars
        /\ WF_vars(Shells) /\ \A p \in Procs : WF_vars(Own(p))

-----------------------------------------------------------------------------
(* Properties *)

(* What a caller of the macOS backend was told of its write is true now and *)
(* stays true: after "ok" the write has happened; after "not-started" or a  *)
(* plain failure it has not, and no client of the call is left that could   *)
(* still make it.  Callers roll back or retry on that word.                 *)
OutcomeHonest ==
  kind = "macos-keychain" =>
    \A p \in Procs :
      /\ call[p].out = "ok" /\ call[p].op \in {"set", "delete"} => wrote[p]
      /\ call[p].out \in {"not-started", "failed"} /\ call[p].op # "get" =>
           /\ ~wrote[p]
           /\ ~\E c \in inner : c.p = p /\ c.n = call[p].n

(* No service ever has two Keychain clients, so never two prompts for one   *)
(* item, however many callers gave up on theirs.                            *)
OneClientPerService ==
  \A s \in Services :
    Cardinality({c \in inner : c.svc = s /\ c.st \in {"started", "run"}}) <= 1

(* As long as no two operations overlapped, a credential file always parses *)
(* and every item whose write took effect decrypts, whatever died when.     *)
(* That it parses is by definition (see ReadStore).                         *)
StoredReadable ==
  kind \in FileKinds /\ ~raced =>
    /\ ~torn
    /\ \A s \in Services :
         expect[s] => /\ item[s] # None
                      /\ kind = "linux-file" => item[s] = key

(* An operation always comes back, even while a Keychain prompt waits for   *)
(* an answer that never comes.                                              *)
CallsReturn == \A p \in Procs : call[p].pc # "idle" ~> call[p].pc = "idle"
=============================================================================
