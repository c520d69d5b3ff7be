------------------------------ MODULE MCClaude ------------------------------
(* Claude accounts: the switch with its recovery while the user and Claude    *)
(* Code change the login (ClaudeSwitch), and the slots, their consumption,    *)
(* refresh and resync (ClaudeSlots).                                          *)
(* The components share no state here, so TLC takes them side by side: a      *)
(* behaviour moves one of them and leaves the others where they began.        *)
EXTENDS ClaudeSwitch, TLC

CONSTANTS SlotProcs, Foreign, MaxTok, MaxTrouble

VARIABLES
  part,  \* the component whose steps this behaviour takes
  slotsLive, own, item, slotsPrev, row, edges, slotsStash, cons, sw, cc, tx, claim, op,
  spent, expired, slotsIssued, parent, arrived, excused, rewound, used

Slots == INSTANCE ClaudeSlots WITH
  Procs <- SlotProcs, live <- slotsLive, prev <- slotsPrev, stash <- slotsStash,
  issued <- slotsIssued

slotsVars == <<slotsLive, own, item, slotsPrev, row, edges, slotsStash, cons, sw, cc,
               tx, claim, op, spent, expired, slotsIssued, parent, arrived, excused,
               rewound, used>>

ASSUME SlotsAssumption == Slots!ConstantsAssumption

\* The other components rest in one of their own initial states.
Side(x) == part # x
SuiteInit ==
  /\ part \in {"Switch", "Slots"}
  /\ Init /\ (Side("Switch") => active = CHOOSE a \in Accounts : TRUE)
  /\ Slots!Init /\ (Side("Slots") => own)

SuiteNext ==
  \/ part = "Switch" /\ Next /\ UNCHANGED <<part, slotsVars>>
  \/ part = "Slots" /\ Slots!Next /\ UNCHANGED <<part, vars>>

SuiteVars == <<part, vars, slotsVars>>
SuiteSpec == SuiteInit /\ [][SuiteNext]_SuiteVars

\* Switchers are interchangeable; the processes of a slot have the same names.
Symmetry == Permutations(SlotProcs)

-----------------------------------------------------------------------------
\* A successor that reached QLB is kept in the slot, ':prev', live or the stash until
\* it is spent, and a slot is dead only for a token the provider has really taken
\* (the exceptions are listed at ClaudeSlots!SuccessorHeld).
SlotsHold == Slots!SuccessorHeld /\ Slots!DeadIsSpent

\* A token is not presented again while its successor is at hand, and the row does
\* not go back to the token its own was issued for.
SlotsMoveOn == Slots!NeverSpentAgain /\ Slots!SuccessorKept
=============================================================================
