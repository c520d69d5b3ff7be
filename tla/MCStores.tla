------------------------------ MODULE MCStores ------------------------------
(* Where credentials are kept, by whom they may be read and who may work on   *)
(* them: the credential stores (CredentialStores), the Keychain helper with   *)
(* its pin, its authorizations and its releases (HelperTrust), and the lock   *)
(* directories (LockDir).                                                     *)
(* The components share no state here, so TLC takes them side by side: a      *)
(* behaviour moves one of them and leaves the others where they began.        *)
EXTENDS LockDir, Sequences, TLC

CONSTANTS Terminals, Builds, Items, Shas, Commands, MaxRotations, Clients, Kinds, Services, MaxCalls

\* The live items are in order; what the stores' None means is no item and no client.
ASSUME ItemsAssumption == Len(Items) \in Nat /\ DOMAIN Items = 1 .. Len(Items)
ASSUME BuildsAssumption == DOMAIN Builds \subseteq Nat
ASSUME StoresAssumption ==
  /\ None \notin Clients \cup {"plain"}
  /\ None \notin [p : Clients, n : Nat, pass : {"add", "update", "delete", "find", "true"}]
  /\ Clients \cap {"none", "short", "plain"} = {}

\* Three helper builds: a first identity, one signed with a new certificate, and one
\* signed by somebody else.
MCBuilds == << [id |-> "a", ours |-> TRUE], [id |-> "b", ours |-> TRUE],
               [id |-> "b", ours |-> FALSE] >>

\* Claude Code's item and one of C-swap's.
MCItems == <<"claude", "slot">>

VARIABLES
  part,  \* the component whose steps this behaviour takes
  helper, cfg, job, child, disp, agent, items, cswap, app, current,
  kind, item, lock, inner, call, key, torn, wrote, expect, raced

Helper == INSTANCE HelperTrust WITH
  Procs <- Terminals
Stores == INSTANCE CredentialStores WITH
  Procs <- Clients

helperVars == <<helper, cfg, job, child, disp, agent, items, cswap, app, current>>
storesVars == <<kind, item, lock, inner, call, key, torn, wrote, expect, raced>>

\* The other components rest in one of their own initial states.
Side(x) == part # x
SuiteInit ==
  /\ part \in {"Locks", "Helper", "Stores"}
  /\ Init /\ (Side("Locks") => mode = "token")
  /\ Helper!Init
  /\ Stores!Init /\ (Side("Stores") => kind = "linux-file")

SuiteNext ==
  \/ part = "Locks" /\ Next /\ UNCHANGED <<part, helperVars, storesVars>>
  \/ part = "Helper" /\ Helper!Next /\ UNCHANGED <<part, vars, storesVars>>
  \/ part = "Stores" /\ Stores!Next /\ UNCHANGED <<part, vars, helperVars>>

SuiteVars == <<part, vars, helperVars, storesVars>>
SuiteSpec == SuiteInit /\ [][SuiteNext]_SuiteVars

\* Terminals are interchangeable.
TerminalSymmetry == Permutations(Terminals)

-----------------------------------------------------------------------------
\* What a caller of the macOS Keychain was told of its write is true and stays true, no
\* service has two Keychain clients, and of a credential file whose operations did not
\* overlap every item decrypts.
StoreHonest == Stores!OutcomeHonest /\ Stores!OneClientPerService /\ Stores!StoredReadable

\* A recorded live authorization names an identity that was really given read access to
\* every live item, and a matrix that reported success has left no disposable item.
HelperSound == Helper!LiveMeansGranted /\ Helper!OkLeavesNothing

\* An established pin is replaced only by a matrix that verified its helper against
\* another one, and authorizing the C-swap items takes one back to an older value only
\* when the rotation it undoes carries the date of the write before it.
AnchorsKept == Helper!PinKept /\ Helper!CswapNeverRewound
=============================================================================
