-------------------------- MODULE CswapImportProofs --------------------------
(***************************************************************************)
(* The import of C-swap's logins, for any number of slots, credentials,    *)
(* runs and troubles: whatever throws or dies, a run stays recoverable,    *)
(* and ends with every slot put back or with rows that name their items.   *)
(***************************************************************************)
EXTENDS CswapImport, TLAPS

USE DEF slots, world, vars

\* The values a journal, a slot's entry in it and the process may take.
Phases == {"torn", "staged", "promoting", "commit-unknown", "committed", "cleaned", "aborted"}
Entries == [seen : BOOLEAN, dest0 : Nat, prev0 : Nat, saved : BOOLEAN, psaved : BOOLEAN,
            reached : {"unreached", "destination", "previous"}, restored : BOOLEAN]
Journals == [run : Nat, phase : Phases, e : [Slots -> Entries]]
Logins == [cred : Nat, at : Nat]
Rows == [Slots -> [fp : Nat, pfp : Nat]]
Items == [Slots -> Nat]
Effs == [Slots -> [cred : Nat, prev : Nat]]
\* The program points before the journal says `promoting`, at one slot of the
\* promotion, of the whole promotion, and of the undoing by the run or by recovery.
Registering == {"stage", "live", "promote"}
Slotwise == {"preimage", "save", "saved", "savep", "savedp", "reach", "write", "reachp", "writep"}
Forward == Slotwise \cup {"verify", "commit"}
Undoing == {"undo", "rec", "recp", "recj"}
PCs == {"idle", "mkdir", "create"} \cup Registering \cup Forward \cup Undoing
         \cup {"committed", "catch", "giveup", "clean", "finish", "purge"}
Procs == [pc : PCs, mode : {"import", "recover"}, i : Nat, j : Journals \cup {None},
          eff : Effs \cup {None}, first : Logins \cup {None}, failed : BOOLEAN]

\* Types of the stores and of the counters.
DataOK ==
  /\ source \in Items /\ sprev \in Items /\ live \in Logins
  /\ dest \in Items /\ prev \in Items /\ bk \in Items /\ bkp \in Items
  /\ staging \in Items
  /\ row \in Rows
  /\ committed \in SUBSET Nat
  /\ runs \in Nat /\ trouble \in Nat /\ next \in Nat
  /\ before \in [dest : Items, prev : Items, row : Rows]
  /\ raced \in BOOLEAN
TypeOK == DataOK /\ p \in Procs /\ jr \in Journals \cup {None}

\* No slot was registered; the newest run may still have to be undone.
Blank(j) == \A s \in Slots : j.e[s] = NewEntry
Undone == /\ jr # None /\ jr.run \notin committed
          /\ jr.phase \in {"torn", "staged", "promoting", "commit-unknown"}

\* A run number names one run: a new one is in no row of import_runs.
FreshInv ==
  /\ \A r \in committed : r <= runs
  /\ jr # None => jr.run <= runs
  /\ p.pc \in {"mkdir", "create"} =>
       /\ p.j # None /\ p.j.run <= runs /\ p.j.run \notin committed
       /\ p.j.phase = "staged" /\ Blank(p.j)

\* What the phase of the stored journal says of import_runs.
JournalInv ==
  jr # None => /\ jr.phase = "committed" => jr.run \in committed
               /\ jr.phase \in {"torn", "staged"} => jr.run \notin committed /\ Blank(jr)

\* What the program point says of the stored journal: from createJournal on, the
\* journal in memory is the one on disk.
ControlInv ==
  /\ p.pc = "mkdir" => ~Undone
  /\ p.pc = "create" => jr # None /\ jr.phase = "torn"
  /\ p.pc \notin {"idle", "mkdir", "create"} =>
       /\ p.j = jr /\ jr # None /\ p.i \in Slots
       /\ jr.phase \in {"staged", "promoting", "commit-unknown", "committed"}
  /\ p.pc \in Registering \cup {"purge"} => jr.phase = "staged"
  /\ p.pc \in Forward => jr.phase = "promoting"
  /\ p.pc \in Forward \cup Undoing \cup {"giveup"} => jr.run \notin committed
  /\ p.pc \in {"rec", "recp", "recj"} => jr.phase # "staged"
  /\ p.pc = "committed" => jr.run \in committed

\* The run may have overwritten the slot and has not put it back.
Reached(e) == e.reached # "unreached" /\ ~e.restored

\* A slot of a run that is not committed: what its entry promises about the items, the
\* preimages in the Keychain and the state the run began with.
SlotInv(s) ==
  LET e == jr.e[s] IN
  /\ e.seen => e.dest0 = before.dest[s] /\ e.prev0 = before.prev[s]
  /\ e.reached # "unreached" => e.seen
  /\ ~Reached(e) => dest[s] = before.dest[s]
  /\ ~Reached(e) \/ e.reached # "previous" => prev[s] = before.prev[s]
  /\ Reached(e) => /\ before.dest[s] # 0 => e.saved /\ bk[s] = before.dest[s]
                   /\ before.prev[s] # 0 => e.psaved /\ bkp[s] = before.prev[s]

\* The rows are those the run began with, and each named its item.
BeforeInv == row = before.row /\ \A s \in Slots : before.row[s].fp = before.dest[s]

UndoneInv ==
  /\ p.pc = "mkdir" => BeforeInv /\ dest = before.dest /\ prev = before.prev
  /\ Undone => BeforeInv /\ \A s \in Slots : SlotInv(s)

\* A promotion at slot p.i: later slots are untouched, and a slot is reached only after
\* its preimages are in the Keychain and the journal says so.
ForwardInv ==
  p.pc \in Slotwise =>
    LET e == jr.e[p.i] IN
    /\ ~e.restored
    /\ \A s \in Slots : s > p.i => jr.e[s].reached = "unreached" /\ ~jr.e[s].restored
    /\ p.pc \in {"preimage", "save", "saved", "savep", "savedp", "reach"} => e.reached = "unreached"
    /\ p.pc # "preimage" => e.seen
    /\ p.pc = "saved" => bk[p.i] = e.dest0
    /\ p.pc = "savedp" => bkp[p.i] = e.prev0
    /\ p.pc \in {"savep", "savedp", "reach"} /\ e.dest0 # 0 => e.saved /\ bk[p.i] = e.dest0
    /\ p.pc = "reach" /\ e.prev0 # 0 => e.psaved /\ bkp[p.i] = e.prev0
    /\ p.pc \in {"write", "reachp"} => e.reached = "destination"
    /\ p.pc = "writep" => e.reached = "previous"

\* An undoing at slot p.i: the later slots are put back; after it, all are.
UndoInv ==
  /\ p.pc = "undo" /\ ~p.failed => \A s \in Slots : s > p.i => ~jr.e[s].seen \/ jr.e[s].restored
  /\ p.pc \in {"rec", "recp", "recj"} => \A s \in Slots : s > p.i => ~Reached(jr.e[s])
  /\ p.pc \in {"recp", "recj"} => jr.e[p.i].seen /\ dest[p.i] = jr.e[p.i].dest0
  /\ p.pc = "recp" => jr.e[p.i].reached = "previous"
  /\ p.pc = "recj" /\ jr.e[p.i].reached = "previous" => prev[p.i] = jr.e[p.i].prev0
  /\ p.pc \in {"clean", "finish"} /\ jr.run \notin committed => \A s \in Slots : ~Reached(jr.e[s])

\* What a refresh by the gate during the run may spoil.
SlotsInv == ~raced => UndoneInv /\ ForwardInv /\ UndoInv

\* The credentials a run is about to make the authority: one login per slot, and the
\* active slot has the login of the first reading.
OneLogin(f) == \A s, o \in Slots : s # o => f[o].cred # f[s].cred /\ f[o].prev # f[s].cred
EffInv ==
  /\ p.pc \in {"mkdir", "create", "stage", "live"} => assertOneLoginPerSlot(source, sprev)
  /\ p.pc \in {"promote"} \cup Forward =>
       /\ p.eff \in Effs /\ OneLogin(p.eff)
       /\ Active # 0 => p.first # None /\ p.eff[Active].cred = p.first.cred
  /\ p.pc = "commit" /\ ~raced => \A s \in Slots : dest[s] = p.eff[s].cred

\* The inductive invariant.
IInv == TypeOK /\ FreshInv /\ JournalInv /\ ControlInv /\ SlotsInv /\ EffInv

-----------------------------------------------------------------------------
\* The absent value is neither a journal nor a login.
LEMMA NoneApart == None \notin Journals /\ None \notin Logins
<1>1. DOMAIN None = {"none"}
  BY DEF None
<1>2. \A j \in Journals : "run" \in DOMAIN j
  BY DEF Journals
<1>3. \A j \in Logins : "cred" \in DOMAIN j
  BY DEF Logins
<1> QED BY <1>1, <1>2, <1>3

\* Writing a journal's phase leaves its run and its entries.
LEMMA PhaseUpdate ==
  ASSUME NEW j \in Journals, NEW ph \in Phases, NEW k, k = [j EXCEPT !.phase = ph]
  PROVE  k \in Journals /\ k.run = j.run /\ k.phase = ph /\ k.e = j.e
  BY DEF Journals

\* A blank entry is an entry.
LEMMA BlankType == NewEntry \in Entries
  BY DEF NewEntry, Entries

\* The process at rest is a process.
LEMMA IdleType == Idle \in Procs
  BY DEF Idle, Procs, PCs

\* What a change of program point leaves alone.
Rest == /\ p'.eff = p.eff /\ p'.first = p.first /\ p'.failed = p.failed

\* Moving on at the same slot.
LEMMA GotoEffect ==
  ASSUME p \in Procs, NEW l \in PCs, Goto(l)
  PROVE  p' \in Procs /\ p'.pc = l /\ p'.i = p.i /\ p'.j = p.j /\ Rest
  BY DEF Goto, Procs, Rest

\* Moving on at a given slot.
LEMMA AtSlotEffect ==
  ASSUME p \in Procs, NEW l \in PCs, NEW i \in Nat, AtSlot(l, i)
  PROVE  p' \in Procs /\ p'.pc = l /\ p'.i = i /\ p'.j = p.j /\ Rest
  BY DEF AtSlot, Procs, Rest

\* Writing the journal and moving on.
LEMMA JournalEffect ==
  ASSUME p \in Procs, NEW l \in PCs, NEW j \in Journals, Journal(j, l)
  PROVE  p' \in Procs /\ p'.pc = l /\ p'.i = p.i /\ p'.j = j /\ Rest /\ jr' = j
  BY DEF Journal, Procs, Rest

\* The rollback goes to the slot before, or ends.
LEMMA UndoNextEffect ==
  ASSUME p \in Procs, NEW j \in Journals, NEW b \in BOOLEAN, p.i \in Slots, UndoNext(j, b)
  PROVE  /\ p' \in Procs /\ p'.j = j /\ p'.failed = b
         /\ p'.pc \in {"undo", "giveup", "clean"}
         /\ p.i > 1 => p'.pc = "undo" /\ p'.i = p.i - 1
         /\ ~(p.i > 1) => p'.i = 1 /\ p'.pc = (IF b THEN "giveup" ELSE "clean")
<1> DEFINE l == IF p.i > 1 THEN "undo" ELSE IF b THEN "giveup" ELSE "clean"
           i == IF p.i > 1 THEN p.i - 1 ELSE 1
<1>1. l \in PCs /\ i \in Nat
  BY DEF PCs, Undoing, Slots
<1>2. p' = [p EXCEPT !.j = j, !.failed = b, !.pc = l, !.i = i]
  BY DEF UndoNext
<1> HIDE DEF l, i
<1>3. p' \in Procs /\ p'.j = j /\ p'.failed = b /\ p'.pc = l /\ p'.i = i
  BY <1>1, <1>2 DEF Procs
<1> QED BY <1>3 DEF l, i

\* From the first step after createJournal, memory and disk hold one journal and the
\* slot at hand is a slot.
LEMMA Running ==
  ASSUME TypeOK, ControlInv, p.pc \notin {"idle", "mkdir", "create"}
  PROVE  /\ p.j = jr /\ jr \in Journals /\ p.i \in Slots /\ p.i \in Nat
         /\ jr.phase \in {"staged", "promoting", "commit-unknown", "committed"}
         /\ Entry = jr.e[p.i] /\ Entry \in Entries
<1>1. /\ p.j = jr /\ jr \in Journals /\ p.i \in Slots /\ p.i \in Nat
      /\ jr.phase \in {"staged", "promoting", "commit-unknown", "committed"}
  BY DEF TypeOK, ControlInv, Slots
<1>2. jr.e[p.i] \in Entries
  BY <1>1 DEF Journals
<1> QED BY <1>1, <1>2 DEF Entry

(* A step that changes nothing that a journal speaks of. *)
Store == <<jr, committed, dest, prev, bk, bkp, row, before, raced>>

\* A step that changes no store changes nothing a journal speaks of.
LEMMA StoreSame ==
  ASSUME UNCHANGED Store
  PROVE  /\ Undone' <=> Undone
         /\ JournalInv' <=> JournalInv
         /\ BeforeInv' <=> BeforeInv
         /\ \A s : SlotInv(s)' <=> SlotInv(s)
<1>1. Undone' <=> Undone
  BY DEF Store, Undone
<1>2. JournalInv' <=> JournalInv
  BY DEF Store, JournalInv, Blank
<1>3. BeforeInv' <=> BeforeInv
  BY DEF Store, BeforeInv
<1>4. \A s : SlotInv(s)' <=> SlotInv(s)
  BY DEF Store, SlotInv, Reached
<1> QED BY <1>1, <1>2, <1>3, <1>4

\* Starting an import: the journal it replaces is settled, so nothing is owed.
LEMMA importCswapKeeps ==
  ASSUME IInv, NEW r \in BOOLEAN, importCswap(r)
  PROVE  IInv'
<1> DEFINE j == [run |-> runs + 1, phase |-> "staged", e |-> [s \in Slots |-> NewEntry]]
<1>1. j \in Journals /\ j.run = runs + 1 /\ j.phase = "staged" /\ Blank(j)
  BY BlankType DEF Journals, Phases, IInv, TypeOK, DataOK, Blank
<1>2. p' = [Idle EXCEPT !.pc = "mkdir", !.j = j]
  BY DEF importCswap
<1> HIDE DEF j
<1>3. p' \in Procs /\ p'.pc = "mkdir" /\ p'.j = j
  BY <1>1, <1>2, IdleType DEF Procs, PCs
<1>4. DataOK' /\ jr' = jr /\ runs' = runs + 1 /\ committed' = committed
  <2>1. before' \in [dest : Items, prev : Items, row : Rows] /\ raced' \in BOOLEAN
    BY DEF importCswap, IInv, TypeOK, DataOK
  <2>2. runs' \in Nat
    BY DEF importCswap, IInv, TypeOK, DataOK
  <2> QED BY <2>1, <2>2 DEF importCswap, IInv, TypeOK, DataOK
<1>5. TypeOK'
  BY <1>3, <1>4 DEF TypeOK, IInv
<1>6. FreshInv'
  BY <1>1, <1>3, <1>4, NoneApart DEF FreshInv, IInv, TypeOK, DataOK, Journals
<1>7. JournalInv'
  BY <1>4 DEF JournalInv, Blank, IInv
<1>8. ~Undone
  BY DEF importCswap, classify, Undone
<1>9. ~Undone'
  BY <1>4, <1>8 DEF Undone
<1>10. ControlInv'
  BY <1>3, <1>9 DEF ControlInv, Registering, Forward, Slotwise, Undoing
<1>11. SlotsInv'
  <2>1. /\ before'.dest = dest /\ before'.prev = prev /\ before'.row = row
        /\ UNCHANGED <<dest, prev, row>>
    BY DEF importCswap
  <2>2. \A s \in Slots : row[s].fp = dest[s]
    BY DEF importCswap, assertDestination
  <2>3. BeforeInv' /\ dest' = before'.dest /\ prev' = before'.prev
    BY <2>1, <2>2 DEF BeforeInv
  <2> QED BY <1>3, <1>9, <2>3 DEF SlotsInv, UndoneInv, ForwardInv, UndoInv, Slotwise
<1>12. EffInv'
  <2>1. assertOneLoginPerSlot(source, sprev) /\ source' = source /\ sprev' = sprev
    BY DEF importCswap, readSourceSlots
  <2> QED BY <1>3, <2>1 DEF EffInv, assertOneLoginPerSlot, Forward, Slotwise
<1> QED BY <1>5, <1>6, <1>7, <1>10, <1>11, <1>12 DEF IInv

\* Making the run's directory.
LEMMA mkdirJournalKeeps ==
  ASSUME IInv, mkdirJournal
  PROVE  IInv'
<1>1. p.j \in Journals /\ p.j.run <= runs /\ p.j.run \notin committed /\ Blank(p.j)
  BY DEF mkdirJournal, IInv, TypeOK, FreshInv, Procs
<1>2. jr' \in Journals /\ jr'.run = p.j.run /\ jr'.phase = "torn" /\ jr'.e = p.j.e
  BY <1>1, PhaseUpdate DEF mkdirJournal, Phases
<1>3. p' \in Procs /\ p'.pc = "create" /\ p'.j = p.j
  BY GotoEffect DEF mkdirJournal, IInv, TypeOK, PCs
<1>4. DataOK' /\ UNCHANGED <<runs, committed, source, sprev, dest, prev, row, before, raced>>
  BY DEF mkdirJournal, IInv, TypeOK, DataOK
<1>5. TypeOK'
  BY <1>2, <1>3, <1>4 DEF TypeOK
<1>6. Blank(jr') /\ Blank(p'.j)
  BY <1>1, <1>2, <1>3 DEF Blank
<1>7. FreshInv'
  <2>1. p.j # None /\ p.j.phase = "staged"
    BY DEF mkdirJournal, FreshInv, IInv
  <2> QED BY <1>1, <1>2, <1>3, <1>4, <1>6, <2>1 DEF FreshInv, IInv, Blank
<1>8. JournalInv'
  BY <1>1, <1>2, <1>4, <1>6 DEF JournalInv, Blank
<1>9. ControlInv'
  BY <1>2, <1>3, NoneApart DEF ControlInv, Registering, Forward, Slotwise, Undoing
<1>10. SlotsInv'
  <2> SUFFICES ASSUME ~raced' PROVE SlotsInv'
    BY DEF SlotsInv
  <2>1. BeforeInv /\ dest = before.dest /\ prev = before.prev
    BY <1>4 DEF SlotsInv, UndoneInv, IInv, mkdirJournal
  <2>2. BeforeInv' /\ \A s \in Slots : dest'[s] = before'.dest[s] /\ prev'[s] = before'.prev[s]
    BY <1>4, <2>1 DEF BeforeInv
  <2>3. \A s \in Slots : SlotInv(s)'
    BY <2>2, <1>6 DEF SlotInv, Blank, NewEntry, Reached
  <2> QED BY <1>3, <2>2, <2>3 DEF SlotsInv, UndoneInv, ForwardInv, UndoInv, Slotwise
<1>11. EffInv'
  BY <1>3, <1>4 DEF EffInv, assertOneLoginPerSlot, Forward, Slotwise, IInv, mkdirJournal
<1> QED BY <1>5, <1>7, <1>8, <1>9, <1>10, <1>11 DEF IInv

\* Writing the first journal.
LEMMA createJournalKeeps ==
  ASSUME IInv, createJournal
  PROVE  IInv'
<1>1. /\ p.j \in Journals /\ p.j.run <= runs /\ p.j.run \notin committed /\ Blank(p.j)
      /\ p.j.phase = "staged" /\ jr' = p.j
  BY DEF createJournal, IInv, TypeOK, FreshInv, Procs
<1>2. jr \in Journals /\ jr.phase = "torn" /\ jr.run \notin committed /\ Blank(jr)
  BY DEF createJournal, ControlInv, JournalInv, IInv, TypeOK
<1>3. p' \in Procs /\ p'.pc = "stage" /\ p'.j = p.j /\ p'.i = 1 /\ 1 \in Slots
  BY AtSlotEffect, ImportAssumption DEF createJournal, IInv, TypeOK, PCs, Registering, Slots
<1>4. DataOK' /\ UNCHANGED <<runs, committed, source, sprev, dest, prev, row, before, raced, bk, bkp>>
  BY DEF createJournal, IInv, TypeOK, DataOK
<1>5. TypeOK'
  BY <1>1, <1>3, <1>4 DEF TypeOK
<1>7. FreshInv'
  BY <1>1, <1>3, <1>4 DEF FreshInv, IInv
<1>8. JournalInv'
  BY <1>1, <1>4 DEF JournalInv, Blank
<1>9. ControlInv'
  BY <1>1, <1>3, NoneApart DEF ControlInv, Registering, Forward, Slotwise, Undoing
<1>10. SlotsInv'
  <2> SUFFICES ASSUME ~raced' PROVE SlotsInv'
    BY DEF SlotsInv
  <2>1. BeforeInv /\ \A s \in Slots : SlotInv(s)
    BY <1>2, <1>4, NoneApart DEF SlotsInv, UndoneInv, IInv, Undone
  <2>2. BeforeInv' /\ \A s \in Slots : dest'[s] = before'.dest[s] /\ prev'[s] = before'.prev[s]
    BY <1>2, <1>4, <2>1 DEF BeforeInv, SlotInv, Blank, NewEntry, Reached
  <2>3. \A s \in Slots : SlotInv(s)'
    BY <2>2, <1>1 DEF SlotInv, Blank, NewEntry, Reached
  <2> QED BY <1>3, <2>2, <2>3 DEF SlotsInv, UndoneInv, ForwardInv, UndoInv, Slotwise
<1>11. EffInv'
  BY <1>3, <1>4 DEF EffInv, assertOneLoginPerSlot, Forward, Slotwise, IInv, createJournal
<1> QED BY <1>5, <1>7, <1>8, <1>9, <1>10, <1>11 DEF IInv
\* The part of the invariant that only the stores decide.
LEMMA StoreKept ==
  ASSUME IInv, UNCHANGED Store, runs' \in Nat, runs' >= runs, p'.pc \notin {"mkdir", "create"}
  PROVE  /\ FreshInv' /\ JournalInv'
         /\ ~raced' => UndoneInv'
<1>1. JournalInv'
  BY StoreSame DEF IInv
<1>2. FreshInv'
  <2>0. committed' = committed /\ committed \in SUBSET Nat /\ runs \in Nat
    BY DEF IInv, Store, TypeOK, DataOK
  <2>1. \A r \in committed' : r <= runs'
    BY <2>0 DEF IInv, FreshInv
  <2>2. jr' # None => jr'.run <= runs'
    BY DEF IInv, FreshInv, Store, TypeOK, DataOK, Journals
  <2> QED BY <2>1, <2>2 DEF FreshInv
<1>3. ASSUME ~raced' PROVE UndoneInv'
  <2>1. ~raced
    BY <1>3 DEF Store
  <2>2. Undone => BeforeInv /\ \A s \in Slots : SlotInv(s)
    BY <2>1 DEF IInv, SlotsInv, UndoneInv
  <2> QED BY <2>2, StoreSame DEF UndoneInv
<1> QED BY <1>1, <1>2, <1>3

\* A process at rest promises nothing.
LEMMA EndKept ==
  ASSUME End
  PROVE  p' \in Procs /\ p'.pc = "idle" /\ ControlInv' /\ ForwardInv' /\ UndoInv' /\ EffInv'
<1>1. p' \in Procs /\ p'.pc = "idle"
  BY IdleType DEF End, Idle
<1> QED BY <1>1 DEF ControlInv, ForwardInv, UndoInv, EffInv, Registering, Forward, Slotwise, Undoing

\* Staging a credential.
LEMMA stageKeeps ==
  ASSUME IInv, stage
  PROVE  IInv'
<1>1. /\ p.j = jr /\ jr \in Journals /\ p.i \in Slots /\ p.i \in Nat /\ jr.phase = "staged"
      /\ p.pc = "stage"
  BY Running DEF stage, IInv, ControlInv, Registering
<1>2. /\ p' \in Procs /\ p'.pc \in {"stage", "live"} /\ p'.j = jr /\ p'.i \in Slots
  BY <1>1, AtSlotEffect, ImportAssumption DEF stage, IInv, TypeOK, PCs, Registering, Slots
<1>3. UNCHANGED <<Store, source, sprev, runs>>
  BY DEF stage, Store
<1>4. TypeOK'
  <2>1. staging' \in Items
    BY <1>1 DEF stage, IInv, TypeOK, DataOK, Items
  <2> QED BY <1>2, <1>3, <2>1 DEF stage, IInv, TypeOK, DataOK, Store
<1>5. FreshInv' /\ JournalInv' /\ (~raced' => UndoneInv')
  BY <1>2, <1>3, StoreKept DEF IInv, TypeOK, DataOK
<1>6. ControlInv'
  BY <1>1, <1>2, <1>3, NoneApart DEF ControlInv, Registering, Forward, Slotwise, Undoing, Store
<1>7. SlotsInv'
  BY <1>2, <1>5 DEF SlotsInv, ForwardInv, UndoInv, Slotwise
<1>8. EffInv'
  BY <1>1, <1>2, <1>3 DEF EffInv, assertOneLoginPerSlot, Forward, Slotwise, IInv
<1> QED BY <1>4, <1>5, <1>6, <1>7, <1>8 DEF IInv

\* The live login in the active slot's place keeps one login per slot.
LEMMA EffectiveCredentials ==
  ASSUME DataOK, assertOneLoginPerSlot(source, sprev),
         Active # 0 => (live.cred # source[Active] =>
            assertOneLoginPerSlot([s \in Slots |-> Effective[s].cred], [s \in Slots |-> Effective[s].prev]))
  PROVE  /\ Effective \in Effs /\ OneLogin(Effective)
         /\ Active # 0 => Effective[Active].cred = live.cred
<1>1. Effective \in Effs
  BY DEF Effective, Effs, DataOK, Items, Logins
<1>2. Active # 0 => Active \in Slots
  BY ImportAssumption DEF Slots
<1>3. Active # 0 => Effective[Active].cred = live.cred
  BY <1>2 DEF Effective
<1>4. OneLogin(Effective)
  <2>1. CASE Active # 0 /\ live.cred # source[Active]
    BY <2>1 DEF OneLogin, assertOneLoginPerSlot
  <2>2. CASE ~(Active # 0 /\ live.cred # source[Active])
    <3>1. \A s \in Slots : Effective[s].cred = source[s] /\ Effective[s].prev = sprev[s]
      BY <2>2, <1>2 DEF Effective, Slots
    <3> QED BY <3>1 DEF OneLogin, assertOneLoginPerSlot
  <2> QED BY <2>1, <2>2
<1> QED BY <1>1, <1>3, <1>4

\* The first reading of Claude Code's login.
LEMMA liveEffectiveCredentialsKeeps ==
  ASSUME IInv, liveEffectiveCredentials
  PROVE  IInv'
<1>1. /\ p.j = jr /\ jr \in Journals /\ p.i \in Slots /\ jr.phase = "staged" /\ p \in Procs
      /\ p.pc = "live"
  BY Running DEF liveEffectiveCredentials, IInv, ControlInv, Registering, TypeOK
<1>2. UNCHANGED <<Store, source, sprev, live, staging, runs, trouble, next>>
  BY DEF liveEffectiveCredentials, Store
<1>3. /\ p' \in Procs /\ p'.pc \in {"promote", "catch"} /\ p'.j = jr /\ p'.i \in Slots
      /\ p'.pc = "promote" => /\ p'.eff \in Effs /\ OneLogin(p'.eff)
                              /\ Active # 0 => p'.first # None /\ p'.eff[Active].cred = p'.first.cred
  <2> DEFINE first == IF Active = 0 THEN None ELSE live
  <2>1. CASE p' = [p EXCEPT !.pc = "catch"]
    BY <1>1, <2>1 DEF Procs, PCs
  <2>2. ASSUME p' = [p EXCEPT !.pc = "promote", !.eff = Effective, !.first = first],
               Active # 0 => (live.cred # source[Active] =>
                 assertOneLoginPerSlot([s \in Slots |-> Effective[s].cred],
                                       [s \in Slots |-> Effective[s].prev]))
        PROVE  /\ p' \in Procs /\ p'.pc = "promote" /\ p'.j = jr /\ p'.i \in Slots
               /\ p'.eff \in Effs /\ OneLogin(p'.eff)
               /\ Active # 0 => p'.first # None /\ p'.eff[Active].cred = p'.first.cred
    <3>1. Effective \in Effs /\ OneLogin(Effective) /\ (Active # 0 => Effective[Active].cred = live.cred)
      BY <1>1, <2>2, EffectiveCredentials DEF IInv, TypeOK, EffInv
    <3>2. first \in Logins \cup {None} /\ (Active # 0 => first = live /\ first # None)
      BY NoneApart DEF IInv, TypeOK, DataOK
    <3> HIDE DEF first
    <3>3. /\ p' \in Procs /\ p'.pc = "promote" /\ p'.j = p.j /\ p'.i = p.i
          /\ p'.eff = Effective /\ p'.first = first
      BY <1>1, <2>2, <3>1, <3>2 DEF Procs, PCs, Registering
    <3> QED BY <1>1, <3>1, <3>2, <3>3
  <2> QED BY <2>1, <2>2 DEF liveEffectiveCredentials
<1>4. TypeOK'
  BY <1>2, <1>3 DEF IInv, TypeOK, DataOK, Store
<1>5. FreshInv' /\ JournalInv' /\ (~raced' => UndoneInv')
  BY <1>2, <1>3, StoreKept DEF IInv, TypeOK, DataOK
<1>6. ControlInv'
  BY <1>1, <1>2, <1>3, NoneApart DEF ControlInv, Registering, Forward, Slotwise, Undoing, Store
<1>7. SlotsInv'
  BY <1>3, <1>5 DEF SlotsInv, ForwardInv, UndoInv, Slotwise
<1>8. EffInv'
  BY <1>3 DEF EffInv, Forward, Slotwise
<1> QED BY <1>4, <1>5, <1>6, <1>7, <1>8 DEF IInv
\* A slot that a step does not touch.
LEMMA SlotSame ==
  ASSUME NEW s \in Slots, SlotInv(s), jr'.e[s] = jr.e[s], dest'[s] = dest[s], prev'[s] = prev[s],
         bk'[s] = bk[s], bkp'[s] = bkp[s], before' = before
  PROVE  SlotInv(s)'
  BY DEF SlotInv, Reached

\* What holds all through a promotion.
LEMMA ForwardFacts ==
  ASSUME IInv, p.pc \in Forward
  PROVE  /\ p.j = jr /\ jr \in Journals /\ p.i \in Slots /\ p.i \in Nat /\ p \in Procs
         /\ jr.phase = "promoting" /\ jr.run \notin committed /\ Undone
         /\ Entry = jr.e[p.i] /\ Entry \in Entries
         /\ p.eff \in Effs
         /\ ~raced => /\ BeforeInv
                      /\ \A s \in Slots : SlotInv(s)
                      /\ ForwardInv
<1>1. p.pc \notin {"idle", "mkdir", "create"}
  BY DEF Forward, Slotwise
<1>2. /\ p.j = jr /\ jr \in Journals /\ p.i \in Slots /\ p.i \in Nat
      /\ Entry = jr.e[p.i] /\ Entry \in Entries
  BY <1>1, Running DEF IInv
<1>3. jr.phase = "promoting" /\ jr.run \notin committed
  BY DEF IInv, ControlInv
<1>4. Undone
  BY <1>2, <1>3, NoneApart DEF Undone
<1> QED BY <1>2, <1>3, <1>4 DEF IInv, TypeOK, EffInv, SlotsInv, UndoneInv

\* A step of the promotion that keeps its slots' promises keeps the invariant.
LEMMA ForwardStep ==
  ASSUME IInv, p.pc \in Forward, DataOK',
         p' \in Procs, p'.pc \in Forward \ {"commit"}, p'.i \in Slots, p'.j = jr', Rest,
         jr' \in Journals, jr'.run = jr.run, jr'.phase = jr.phase,
         UNCHANGED <<committed, runs, raced, before, row>>,
         ~raced => ForwardInv' /\ \A s \in Slots : SlotInv(s)'
  PROVE  IInv'
<1>1. /\ jr.phase = "promoting" /\ jr.run \notin committed /\ jr \in Journals
      /\ ~raced => BeforeInv
  BY ForwardFacts
<1>2. TypeOK'
  BY DEF TypeOK
<1>3. p'.pc \notin {"idle", "mkdir", "create"} \cup Registering \cup Undoing
               \cup {"committed", "giveup", "purge", "clean", "finish"}
  BY DEF Forward, Slotwise, Registering, Undoing
<1>4. FreshInv'
  BY <1>1, <1>3, NoneApart DEF FreshInv, IInv
<1>5. JournalInv'
  BY <1>1 DEF JournalInv
<1>6. ControlInv'
  BY <1>1, <1>3, NoneApart DEF ControlInv
<1>7. SlotsInv'
  BY <1>1, <1>3 DEF SlotsInv, UndoneInv, UndoInv, BeforeInv, Undoing
<1>8. EffInv'
  BY <1>3 DEF EffInv, IInv, OneLogin, Rest, Registering
<1> QED BY <1>2, <1>4, <1>5, <1>6, <1>7, <1>8 DEF IInv

\* The journal says `promoting`; no slot is registered yet.
LEMMA promoteKeeps ==
  ASSUME IInv, promote
  PROVE  IInv'
<1>1. /\ p.j = jr /\ jr \in Journals /\ p.i \in Slots /\ p.i \in Nat /\ p \in Procs /\ p.pc = "promote"
      /\ jr.phase = "staged" /\ jr.run \notin committed /\ Blank(jr)
  BY Running, NoneApart DEF promote, IInv, ControlInv, Registering, TypeOK, JournalInv
<1>2. [jr EXCEPT !.phase = "promoting"] \in Journals
  BY <1>1 DEF Journals, Phases
<1>3. /\ p' \in Procs /\ p'.pc = "preimage" /\ p'.j = jr' /\ p'.i = p.i /\ Rest
      /\ jr' = [jr EXCEPT !.phase = "promoting"]
  BY <1>1, <1>2, JournalEffect DEF promote, PCs, Forward, Slotwise
<1>4. jr' \in Journals /\ jr'.run = jr.run /\ jr'.phase = "promoting" /\ jr'.e = jr.e
  BY <1>1, <1>3 DEF Journals, Phases
<1>5. DataOK' /\ UNCHANGED <<committed, runs, raced, before, row, dest, prev, bk, bkp>>
  BY DEF promote, IInv, TypeOK, DataOK
<1>6. TypeOK'
  BY <1>3, <1>4, <1>5 DEF TypeOK
<1>7. FreshInv'
  BY <1>1, <1>3, <1>4, <1>5, NoneApart DEF FreshInv, IInv
<1>8. JournalInv'
  BY <1>4 DEF JournalInv
<1>9. ControlInv'
  BY <1>1, <1>3, <1>4, <1>5, NoneApart DEF ControlInv, Registering, Forward, Slotwise, Undoing
<1>10. SlotsInv'
  <2> SUFFICES ASSUME ~raced' PROVE SlotsInv'
    BY DEF SlotsInv
  <2>1. BeforeInv /\ \A s \in Slots : SlotInv(s)
    BY <1>1, <1>5, NoneApart DEF SlotsInv, UndoneInv, IInv, Undone
  <2>2. \A s \in Slots : SlotInv(s)'
    BY <1>4, <1>5, <2>1, SlotSame
  <2>3. BeforeInv'
    BY <1>5, <2>1 DEF BeforeInv
  <2>4. \A s \in Slots : jr'.e[s] = NewEntry
    BY <1>1, <1>4 DEF Blank
  <2>5. ForwardInv'
    BY <1>1, <1>3, <2>4 DEF ForwardInv, NewEntry
  <2> QED BY <1>3, <2>2, <2>3, <2>5 DEF SlotsInv, UndoneInv, UndoInv
<1>11. EffInv'
  BY <1>1, <1>3 DEF EffInv, IInv, OneLogin, Rest, Forward, Slotwise
<1> QED BY <1>6, <1>7, <1>8, <1>9, <1>10, <1>11 DEF IInv

\* Writing one slot's entry leaves the others.
LEMMA WithEntryEffect ==
  ASSUME p.j = jr, jr \in Journals, p.i \in Slots, NEW x \in Entries
  PROVE  /\ WithEntry(x) \in Journals /\ WithEntry(x).run = jr.run /\ WithEntry(x).phase = jr.phase
         /\ WithEntry(x).e[p.i] = x
         /\ \A s \in Slots : s # p.i => WithEntry(x).e[s] = jr.e[s]
  BY DEF WithEntry, Journals

\* A step of the promotion that writes the entry of its slot.
LEMMA JournalFacts ==
  ASSUME IInv, p.pc \in Slotwise, NEW x \in Entries, NEW l \in Slotwise, Journal(WithEntry(x), l)
  PROVE  /\ p' \in Procs /\ p'.pc = l /\ p'.j = jr' /\ p'.i = p.i /\ Rest
         /\ jr' \in Journals /\ jr'.run = jr.run /\ jr'.phase = jr.phase /\ jr'.e[p.i] = x
         /\ \A s \in Slots : s # p.i => jr'.e[s] = jr.e[s]
<1>1. p.pc \in Forward /\ l \in PCs
  BY DEF Forward, PCs
<1>2. p.j = jr /\ jr \in Journals /\ p.i \in Slots /\ p \in Procs
  BY <1>1, ForwardFacts
<1>3. WithEntry(x) \in Journals
  BY <1>2, WithEntryEffect
<1>4. p' \in Procs /\ p'.pc = l /\ p'.j = jr' /\ p'.i = p.i /\ Rest /\ jr' = WithEntry(x)
  BY <1>1, <1>2, <1>3, JournalEffect
<1> QED BY <1>2, <1>4, WithEntryEffect

\* Such a step has only its own slot to answer for.
LEMMA JournalStep ==
  ASSUME IInv, p.pc \in Slotwise, NEW x \in Entries, NEW l \in Slotwise, Journal(WithEntry(x), l),
         UNCHANGED <<world, slots, staging, bk, bkp, committed, runs, trouble, before>>,
         ~raced => ForwardInv' /\ \A s \in Slots : s = p.i => SlotInv(s)'
  PROVE  IInv'
<1>1. p.pc \in Forward /\ l \in Forward \ {"commit"}
  BY DEF Forward, Slotwise
<1>2. DataOK'
  BY DEF IInv, TypeOK, DataOK
<1>3. ASSUME ~raced PROVE \A s \in Slots : SlotInv(s)'
  <2>1. \A s \in Slots : SlotInv(s)
    BY <1>1, <1>3, ForwardFacts
  <2>2. \A s \in Slots : s # p.i => SlotInv(s)'
    BY <2>1, JournalFacts, SlotSame
  <2> QED BY <1>3, <2>2
<1>4. p.i \in Slots
  BY <1>1, ForwardFacts
<1> QED BY <1>1, <1>2, <1>3, <1>4, JournalFacts, ForwardStep

\* Registering a slot: it is still as it was when the run began.
LEMMA registerPreimageKeeps ==
  ASSUME IInv, registerPreimage
  PROVE  IInv'
<1> DEFINE x == [NewEntry EXCEPT !.seen = TRUE, !.dest0 = dest[p.i], !.prev0 = prev[p.i]]
           l == IF dest[p.i] # 0 THEN "save" ELSE IF prev[p.i] # 0 THEN "savep" ELSE "reach"
<1>0. p.pc = "preimage" /\ p.pc \in Forward /\ p.pc \in Slotwise
  BY DEF registerPreimage, Forward, Slotwise
<1>1. p.i \in Slots /\ p.i \in Nat
  BY <1>0, ForwardFacts
<1>2. /\ x \in Entries /\ x.seen /\ x.dest0 = dest[p.i] /\ x.prev0 = prev[p.i]
      /\ x.reached = "unreached" /\ ~x.restored
  BY <1>1 DEF NewEntry, Entries, IInv, TypeOK, DataOK, Items
<1>3. l \in Slotwise
  BY DEF Slotwise
<1>4. l \in {"save", "savep", "reach"} /\ (dest[p.i] # 0 => l = "save") /\ (l = "reach" => prev[p.i] = 0)
  OBVIOUS
<1>5. Journal(WithEntry(x), l)
  BY DEF registerPreimage
<1> HIDE DEF x, l
<1>6. /\ p'.pc = l /\ p'.i = p.i /\ jr'.e[p.i] = x
      /\ \A s \in Slots : s # p.i => jr'.e[s] = jr.e[s]
  BY <1>0, <1>2, <1>3, <1>5, JournalFacts
<1>7. ASSUME ~raced PROVE ForwardInv' /\ \A s \in Slots : s = p.i => SlotInv(s)'
  <2>1. SlotInv(p.i)
    BY <1>0, <1>1, <1>7, ForwardFacts
  <2>2. /\ jr.e[p.i].reached = "unreached"
        /\ \A s \in Slots : s > p.i => jr.e[s].reached = "unreached" /\ ~jr.e[s].restored
    BY <1>0, <1>7, ForwardFacts DEF ForwardInv
  <2>3. dest[p.i] = before.dest[p.i] /\ prev[p.i] = before.prev[p.i]
    BY <2>1, <2>2 DEF SlotInv, Reached
  <2>4. UNCHANGED <<before, dest, prev>>
    BY DEF registerPreimage
  <2>5. \A s \in Slots : s = p.i => SlotInv(s)'
    BY <1>2, <1>6, <2>3, <2>4 DEF SlotInv, Reached
  <2>6. ForwardInv'
    BY <1>1, <1>2, <1>4, <1>6, <2>2 DEF ForwardInv, Slots
  <2> QED BY <2>5, <2>6
<1> QED BY <1>0, <1>2, <1>3, <1>5, <1>7, JournalStep DEF registerPreimage

\* Saving the current item's preimage.
LEMMA savePreimageKeeps ==
  ASSUME IInv, savePreimage
  PROVE  IInv'
<1>0. p.pc = "save" /\ p.pc \in Forward /\ p.pc \in Slotwise
  BY DEF savePreimage, Forward, Slotwise
<1>1. /\ p.i \in Slots /\ p.i \in Nat /\ p \in Procs /\ jr \in Journals /\ p.j = jr
      /\ Entry = jr.e[p.i] /\ Entry \in Entries
  BY <1>0, ForwardFacts
<1>2. p' \in Procs /\ p'.pc = "saved" /\ p'.i = p.i /\ p'.j = p.j /\ Rest
  BY <1>1, GotoEffect DEF savePreimage, PCs, Forward, Slotwise
<1>3. bk' \in Items /\ bk'[p.i] = Entry.dest0 /\ \A s \in Slots : s # p.i => bk'[s] = bk[s]
  BY <1>1 DEF savePreimage, IInv, TypeOK, DataOK, Items, Entries
<1>4. UNCHANGED <<jr, dest, prev, bkp, before, committed, runs, raced, row>>
  BY DEF savePreimage
<1>5. DataOK'
  BY <1>3 DEF savePreimage, IInv, TypeOK, DataOK
<1>6. ASSUME ~raced PROVE ForwardInv' /\ \A s \in Slots : SlotInv(s)'
  <2>1. ForwardInv /\ \A s \in Slots : SlotInv(s)
    BY <1>0, <1>6, ForwardFacts
  <2>2. \A s \in Slots : s # p.i => SlotInv(s)'
    BY <1>3, <1>4, <2>1, SlotSame
  <2>3. Entry.reached = "unreached"
    BY <1>0, <1>1, <2>1 DEF ForwardInv
  <2>4. \A s \in Slots : s = p.i => SlotInv(s)'
    BY <1>1, <1>4, <2>1, <2>3 DEF SlotInv, Reached
  <2>5. ForwardInv'
    BY <1>0, <1>1, <1>2, <1>3, <1>4, <2>1 DEF ForwardInv
  <2> QED BY <2>2, <2>4, <2>5
<1>7. p'.pc \in Forward \ {"commit"}
  BY <1>2 DEF Forward, Slotwise
<1> QED BY <1>0, <1>1, <1>2, <1>4, <1>5, <1>6, <1>7, ForwardStep

\* Saving the previous item's preimage.
LEMMA savePreviousKeeps ==
  ASSUME IInv, savePrevious
  PROVE  IInv'
<1>0. p.pc = "savep" /\ p.pc \in Forward /\ p.pc \in Slotwise
  BY DEF savePrevious, Forward, Slotwise
<1>1. /\ p.i \in Slots /\ p.i \in Nat /\ p \in Procs /\ jr \in Journals /\ p.j = jr
      /\ Entry = jr.e[p.i] /\ Entry \in Entries
  BY <1>0, ForwardFacts
<1>2. p' \in Procs /\ p'.pc = "savedp" /\ p'.i = p.i /\ p'.j = p.j /\ Rest
  BY <1>1, GotoEffect DEF savePrevious, PCs, Forward, Slotwise
<1>3. bkp' \in Items /\ bkp'[p.i] = Entry.prev0 /\ \A s \in Slots : s # p.i => bkp'[s] = bkp[s]
  BY <1>1 DEF savePrevious, IInv, TypeOK, DataOK, Items, Entries
<1>4. UNCHANGED <<jr, dest, prev, bk, before, committed, runs, raced, row>>
  BY DEF savePrevious
<1>5. DataOK'
  BY <1>3 DEF savePrevious, IInv, TypeOK, DataOK
<1>6. ASSUME ~raced PROVE ForwardInv' /\ \A s \in Slots : SlotInv(s)'
  <2>1. ForwardInv /\ \A s \in Slots : SlotInv(s)
    BY <1>0, <1>6, ForwardFacts
  <2>2. \A s \in Slots : s # p.i => SlotInv(s)'
    BY <1>3, <1>4, <2>1, SlotSame
  <2>3. Entry.reached = "unreached"
    BY <1>0, <1>1, <2>1 DEF ForwardInv
  <2>4. \A s \in Slots : s = p.i => SlotInv(s)'
    BY <1>1, <1>4, <2>1, <2>3 DEF SlotInv, Reached
  <2>5. ForwardInv'
    BY <1>0, <1>1, <1>2, <1>3, <1>4, <2>1 DEF ForwardInv
  <2> QED BY <2>2, <2>4, <2>5
<1>7. p'.pc \in Forward \ {"commit"}
  BY <1>2 DEF Forward, Slotwise
<1> QED BY <1>0, <1>1, <1>2, <1>4, <1>5, <1>6, <1>7, ForwardStep
\* Journalling that the current item's preimage is saved.
LEMMA savedPreimageKeeps ==
  ASSUME IInv, savedPreimage
  PROVE  IInv'
<1> DEFINE x == [Entry EXCEPT !.saved = TRUE]
           l == IF Entry.prev0 # 0 THEN "savep" ELSE "reach"
<1>0. p.pc = "saved" /\ p.pc \in Forward /\ p.pc \in Slotwise
  BY DEF savedPreimage, Forward, Slotwise
<1>1. p.i \in Slots /\ p.i \in Nat /\ Entry = jr.e[p.i] /\ Entry \in Entries
  BY <1>0, ForwardFacts
<1>2. x \in Entries /\ x.saved = TRUE
  BY <1>1 DEF Entries
<1>3. /\ x.seen = Entry.seen /\ x.dest0 = Entry.dest0 /\ x.prev0 = Entry.prev0
      /\ x.psaved = Entry.psaved /\ x.reached = Entry.reached /\ x.restored = Entry.restored
  BY <1>1 DEF Entries
<1>4. l \in Slotwise /\ l \in {"savep", "reach"} /\ (Entry.prev0 # 0 => l = "savep")
  BY <1>1 DEF Slotwise, Entries
<1>5. Journal(WithEntry(x), l)
  BY DEF savedPreimage
<1> HIDE DEF x, l
<1>6. /\ p'.pc = l /\ p'.i = p.i /\ jr'.e[p.i] = x
      /\ \A s \in Slots : s # p.i => jr'.e[s] = jr.e[s]
  BY <1>0, <1>2, <1>4, <1>5, JournalFacts
<1>7. ASSUME ~raced
      PROVE  ForwardInv' /\ \A s \in Slots : s = p.i => SlotInv(s)'
  <2>1. ForwardInv /\ \A s \in Slots : SlotInv(s)
    BY <1>0, <1>7, ForwardFacts
  <2>2. UNCHANGED <<before, dest, prev, bk, bkp>>
    BY DEF savedPreimage
  <2>3. \A s \in Slots : s > p.i => jr'.e[s].reached = "unreached" /\ ~jr'.e[s].restored
    BY <1>0, <1>1, <1>6, <2>1 DEF ForwardInv, Slots
  <2>4. ForwardInv'
    BY <1>0, <1>1, <1>2, <1>3, <1>4, <1>6, <2>1, <2>2, <2>3 DEF ForwardInv
  <2>5. \A s \in Slots : s = p.i => SlotInv(s)'
    BY <1>0, <1>1, <1>2, <1>3, <1>6, <2>1, <2>2 DEF ForwardInv, SlotInv, Reached
  <2> QED BY <2>4, <2>5
<1> QED BY <1>0, <1>2, <1>4, <1>5, <1>7, JournalStep DEF savedPreimage

\* Journalling that the previous item's preimage is saved.
LEMMA savedPreviousKeeps ==
  ASSUME IInv, savedPrevious
  PROVE  IInv'
<1> DEFINE x == [Entry EXCEPT !.psaved = TRUE]
           l == "reach"
<1>0. p.pc = "savedp" /\ p.pc \in Forward /\ p.pc \in Slotwise
  BY DEF savedPrevious, Forward, Slotwise
<1>1. p.i \in Slots /\ p.i \in Nat /\ Entry = jr.e[p.i] /\ Entry \in Entries
  BY <1>0, ForwardFacts
<1>2. x \in Entries /\ x.psaved = TRUE
  BY <1>1 DEF Entries
<1>3. /\ x.seen = Entry.seen /\ x.dest0 = Entry.dest0 /\ x.prev0 = Entry.prev0
      /\ x.saved = Entry.saved /\ x.reached = Entry.reached /\ x.restored = Entry.restored
  BY <1>1 DEF Entries
<1>4. l \in Slotwise /\ l = "reach"
  BY <1>1 DEF Slotwise, Entries
<1>5. Journal(WithEntry(x), l)
  BY DEF savedPrevious
<1> HIDE DEF x, l
<1>6. /\ p'.pc = l /\ p'.i = p.i /\ jr'.e[p.i] = x
      /\ \A s \in Slots : s # p.i => jr'.e[s] = jr.e[s]
  BY <1>0, <1>2, <1>4, <1>5, JournalFacts
<1>7. ASSUME ~raced
      PROVE  ForwardInv' /\ \A s \in Slots : s = p.i => SlotInv(s)'
  <2>1. ForwardInv /\ \A s \in Slots : SlotInv(s)
    BY <1>0, <1>7, ForwardFacts
  <2>2. UNCHANGED <<before, dest, prev, bk, bkp>>
    BY DEF savedPrevious
  <2>3. \A s \in Slots : s > p.i => jr'.e[s].reached = "unreached" /\ ~jr'.e[s].restored
    BY <1>0, <1>1, <1>6, <2>1 DEF ForwardInv, Slots
  <2>4. ForwardInv'
    BY <1>0, <1>1, <1>2, <1>3, <1>4, <1>6, <2>1, <2>2, <2>3 DEF ForwardInv
  <2>5. \A s \in Slots : s = p.i => SlotInv(s)'
    BY <1>0, <1>1, <1>2, <1>3, <1>6, <2>1, <2>2 DEF ForwardInv, SlotInv, Reached
  <2> QED BY <2>4, <2>5
<1> QED BY <1>0, <1>2, <1>4, <1>5, <1>7, JournalStep DEF savedPrevious

\* Announcing the write of the current item: its preimages are saved.
LEMMA reachDestinationKeeps ==
  ASSUME IInv, reachDestination
  PROVE  IInv'
<1> DEFINE x == [Entry EXCEPT !.reached = "destination"]
           l == "write"
<1>0. p.pc = "reach" /\ p.pc \in Forward /\ p.pc \in Slotwise
  BY DEF reachDestination, Forward, Slotwise
<1>1. p.i \in Slots /\ p.i \in Nat /\ Entry = jr.e[p.i] /\ Entry \in Entries
  BY <1>0, ForwardFacts
<1>2. x \in Entries /\ x.reached = "destination"
  BY <1>1 DEF Entries
<1>3. /\ x.seen = Entry.seen /\ x.dest0 = Entry.dest0 /\ x.prev0 = Entry.prev0
      /\ x.saved = Entry.saved /\ x.psaved = Entry.psaved /\ x.restored = Entry.restored
  BY <1>1 DEF Entries
<1>4. l \in Slotwise /\ l = "write"
  BY <1>1 DEF Slotwise, Entries
<1>5. Journal(WithEntry(x), l)
  BY DEF reachDestination
<1> HIDE DEF x, l
<1>6. /\ p'.pc = l /\ p'.i = p.i /\ jr'.e[p.i] = x
      /\ \A s \in Slots : s # p.i => jr'.e[s] = jr.e[s]
  BY <1>0, <1>2, <1>4, <1>5, JournalFacts
<1>7. ASSUME ~raced
      PROVE  ForwardInv' /\ \A s \in Slots : s = p.i => SlotInv(s)'
  <2>1. ForwardInv /\ \A s \in Slots : SlotInv(s)
    BY <1>0, <1>7, ForwardFacts
  <2>2. UNCHANGED <<before, dest, prev, bk, bkp>>
    BY DEF reachDestination
  <2>3. \A s \in Slots : s > p.i => jr'.e[s].reached = "unreached" /\ ~jr'.e[s].restored
    BY <1>0, <1>1, <1>6, <2>1 DEF ForwardInv, Slots
  <2>4. ForwardInv'
    BY <1>0, <1>1, <1>2, <1>3, <1>4, <1>6, <2>1, <2>2, <2>3 DEF ForwardInv
  <2>5. \A s \in Slots : s = p.i => SlotInv(s)'
    BY <1>0, <1>1, <1>2, <1>3, <1>6, <2>1, <2>2 DEF ForwardInv, SlotInv, Reached
  <2> QED BY <2>4, <2>5
<1> QED BY <1>0, <1>2, <1>4, <1>5, <1>7, JournalStep DEF reachDestination

\* Announcing the write of the previous item.
LEMMA reachPreviousKeeps ==
  ASSUME IInv, reachPrevious
  PROVE  IInv'
<1> DEFINE x == [Entry EXCEPT !.reached = "previous"]
           l == "writep"
<1>0. p.pc = "reachp" /\ p.pc \in Forward /\ p.pc \in Slotwise
  BY DEF reachPrevious, Forward, Slotwise
<1>1. p.i \in Slots /\ p.i \in Nat /\ Entry = jr.e[p.i] /\ Entry \in Entries
  BY <1>0, ForwardFacts
<1>2. x \in Entries /\ x.reached = "previous"
  BY <1>1 DEF Entries
<1>3. /\ x.seen = Entry.seen /\ x.dest0 = Entry.dest0 /\ x.prev0 = Entry.prev0
      /\ x.saved = Entry.saved /\ x.psaved = Entry.psaved /\ x.restored = Entry.restored
  BY <1>1 DEF Entries
<1>4. l \in Slotwise /\ l = "writep"
  BY <1>1 DEF Slotwise, Entries
<1>5. Journal(WithEntry(x), l)
  BY DEF reachPrevious
<1> HIDE DEF x, l
<1>6. /\ p'.pc = l /\ p'.i = p.i /\ jr'.e[p.i] = x
      /\ \A s \in Slots : s # p.i => jr'.e[s] = jr.e[s]
  BY <1>0, <1>2, <1>4, <1>5, JournalFacts
<1>7. ASSUME ~raced
      PROVE  ForwardInv' /\ \A s \in Slots : s = p.i => SlotInv(s)'
  <2>1. ForwardInv /\ \A s \in Slots : SlotInv(s)
    BY <1>0, <1>7, ForwardFacts
  <2>2. UNCHANGED <<before, dest, prev, bk, bkp>>
    BY DEF reachPrevious
  <2>3. \A s \in Slots : s > p.i => jr'.e[s].reached = "unreached" /\ ~jr'.e[s].restored
    BY <1>0, <1>1, <1>6, <2>1 DEF ForwardInv, Slots
  <2>4. ForwardInv'
    BY <1>0, <1>1, <1>2, <1>3, <1>4, <1>6, <2>1, <2>2, <2>3 DEF ForwardInv
  <2>5. \A s \in Slots : s = p.i => SlotInv(s)'
    BY <1>0, <1>1, <1>2, <1>3, <1>6, <2>1, <2>2 DEF ForwardInv, SlotInv, Reached
  <2> QED BY <2>4, <2>5
<1> QED BY <1>0, <1>2, <1>4, <1>5, <1>7, JournalStep DEF reachPrevious

\* Writing the current item, after it was announced.
LEMMA writeDestinationKeeps ==
  ASSUME IInv, writeDestination
  PROVE  IInv'
<1>0. p.pc = "write" /\ p.pc \in Forward /\ p.pc \in Slotwise
  BY DEF writeDestination, Forward, Slotwise
<1>1. /\ p.i \in Slots /\ p.i \in Nat /\ p \in Procs /\ jr \in Journals /\ p.j = jr
      /\ Entry = jr.e[p.i] /\ Entry \in Entries /\ p.eff \in Effs
  BY <1>0, ForwardFacts
<1>2. /\ p' \in Procs /\ p'.j = p.j /\ Rest /\ p'.i \in Slots
      /\ \/ p'.pc = "reachp" /\ p'.i = p.i /\ p.pc = "write"
         \/ p'.pc = "preimage" /\ p'.i = p.i + 1
         \/ p'.pc = "verify"
  <2>1. CASE NextSlot
    BY <1>1, <2>1, AtSlotEffect, ImportAssumption DEF NextSlot, PCs, Forward, Slotwise, Slots
  <2>2. CASE Goto("reachp") /\ p.pc = "write"
    BY <1>1, <2>2, GotoEffect DEF PCs, Forward, Slotwise
  <2> QED BY <2>1, <2>2 DEF writeDestination
<1>3. dest' \in Items /\ \A s \in Slots : s # p.i => dest'[s] = dest[s]
  <2>1. p.eff[p.i].cred \in Nat
    BY <1>1 DEF Effs
  <2> QED BY <1>1, <2>1 DEF writeDestination, IInv, TypeOK, DataOK, Items
<1>4. UNCHANGED <<jr, prev, bk, bkp, before, committed, runs, raced, row>>
  BY DEF writeDestination
<1>5. DataOK'
  BY <1>3 DEF writeDestination, IInv, TypeOK, DataOK
<1>6. ASSUME ~raced PROVE ForwardInv' /\ \A s \in Slots : SlotInv(s)'
  <2>1. ForwardInv /\ \A s \in Slots : SlotInv(s)
    BY <1>0, <1>6, ForwardFacts
  <2>2. \A s \in Slots : s # p.i => SlotInv(s)'
    BY <1>3, <1>4, <2>1, SlotSame
  <2>3. Entry.reached = "destination" /\ ~Entry.restored
    BY <1>0, <1>1, <2>1 DEF ForwardInv
  <2>4. \A s \in Slots : s = p.i => SlotInv(s)'
    BY <1>1, <1>4, <2>1, <2>3 DEF SlotInv, Reached
  <2>5. \A s \in Slots : s > p.i => jr.e[s].reached = "unreached" /\ ~jr.e[s].restored
    BY <1>0, <2>1 DEF ForwardInv
  <2>6. ForwardInv'
    <3>1. CASE p'.pc = "verify"
      BY <3>1 DEF ForwardInv, Slotwise
    <3>2. CASE p'.pc = "preimage" /\ p'.i = p.i + 1
      <4>1. p'.i > p.i /\ \A s \in Slots : s > p'.i => s > p.i
        BY <1>1, <3>2 DEF Slots
      <4>2. /\ jr'.e[p'.i].reached = "unreached" /\ ~jr'.e[p'.i].restored
            /\ \A s \in Slots : s > p'.i => jr'.e[s].reached = "unreached" /\ ~jr'.e[s].restored
        BY <1>2, <1>4, <2>5, <4>1
      <4> QED BY <3>2, <4>2 DEF ForwardInv
    <3>3. CASE p'.pc = "reachp" /\ p'.i = p.i /\ p.pc = "write"
      BY <1>0, <1>1, <1>4, <2>1, <2>3, <2>5, <3>3 DEF ForwardInv
    <3> QED BY <1>2, <3>1, <3>2, <3>3
  <2> QED BY <2>2, <2>4, <2>6
<1>7. p'.pc \in Forward \ {"commit"}
  BY <1>2 DEF Forward, Slotwise
<1> QED BY <1>0, <1>1, <1>2, <1>4, <1>5, <1>6, <1>7, ForwardStep

\* Writing the previous item, after it was announced.
LEMMA writePreviousKeeps ==
  ASSUME IInv, writePrevious
  PROVE  IInv'
<1>0. p.pc = "writep" /\ p.pc \in Forward /\ p.pc \in Slotwise
  BY DEF writePrevious, Forward, Slotwise
<1>1. /\ p.i \in Slots /\ p.i \in Nat /\ p \in Procs /\ jr \in Journals /\ p.j = jr
      /\ Entry = jr.e[p.i] /\ Entry \in Entries /\ p.eff \in Effs
  BY <1>0, ForwardFacts
<1>2. /\ p' \in Procs /\ p'.j = p.j /\ Rest /\ p'.i \in Slots
      /\ \/ p'.pc = "reachp" /\ p'.i = p.i /\ p.pc = "write"
         \/ p'.pc = "preimage" /\ p'.i = p.i + 1
         \/ p'.pc = "verify"
  <2>1. CASE NextSlot
    BY <1>1, <2>1, AtSlotEffect, ImportAssumption DEF NextSlot, PCs, Forward, Slotwise, Slots
  <2>2. CASE Goto("reachp") /\ p.pc = "write"
    BY <1>1, <2>2, GotoEffect DEF PCs, Forward, Slotwise
  <2> QED BY <2>1, <2>2 DEF writePrevious
<1>3. prev' \in Items /\ \A s \in Slots : s # p.i => prev'[s] = prev[s]
  <2>1. p.eff[p.i].prev \in Nat
    BY <1>1 DEF Effs
  <2> QED BY <1>1, <2>1 DEF writePrevious, IInv, TypeOK, DataOK, Items
<1>4. UNCHANGED <<jr, dest, bk, bkp, before, committed, runs, raced, row>>
  BY DEF writePrevious
<1>5. DataOK'
  BY <1>3 DEF writePrevious, IInv, TypeOK, DataOK
<1>6. ASSUME ~raced PROVE ForwardInv' /\ \A s \in Slots : SlotInv(s)'
  <2>1. ForwardInv /\ \A s \in Slots : SlotInv(s)
    BY <1>0, <1>6, ForwardFacts
  <2>2. \A s \in Slots : s # p.i => SlotInv(s)'
    BY <1>3, <1>4, <2>1, SlotSame
  <2>3. Entry.reached = "previous" /\ ~Entry.restored
    BY <1>0, <1>1, <2>1 DEF ForwardInv
  <2>4. \A s \in Slots : s = p.i => SlotInv(s)'
    BY <1>1, <1>4, <2>1, <2>3 DEF SlotInv, Reached
  <2>5. \A s \in Slots : s > p.i => jr.e[s].reached = "unreached" /\ ~jr.e[s].restored
    BY <1>0, <2>1 DEF ForwardInv
  <2>6. ForwardInv'
    <3>1. CASE p'.pc = "verify"
      BY <3>1 DEF ForwardInv, Slotwise
    <3>2. CASE p'.pc = "preimage" /\ p'.i = p.i + 1
      <4>1. p'.i > p.i /\ \A s \in Slots : s > p'.i => s > p.i
        BY <1>1, <3>2 DEF Slots
      <4>2. /\ jr'.e[p'.i].reached = "unreached" /\ ~jr'.e[p'.i].restored
            /\ \A s \in Slots : s > p'.i => jr'.e[s].reached = "unreached" /\ ~jr'.e[s].restored
        BY <1>2, <1>4, <2>5, <4>1
      <4> QED BY <3>2, <4>2 DEF ForwardInv
    <3>3. CASE p'.pc = "reachp" /\ p'.i = p.i /\ p.pc = "write"
      BY <1>0, <1>1, <1>4, <2>1, <2>3, <2>5, <3>3 DEF ForwardInv
    <3> QED BY <1>2, <3>1, <3>2, <3>3
  <2> QED BY <2>2, <2>4, <2>6
<1>7. p'.pc \in Forward \ {"commit"}
  BY <1>2 DEF Forward, Slotwise
<1> QED BY <1>0, <1>1, <1>2, <1>4, <1>5, <1>6, <1>7, ForwardStep
\* Program points at which the slot at hand promises nothing.
LEMMA QuietKept ==
  ASSUME p'.pc \in {"catch", "committed", "giveup", "purge", "idle"}
  PROVE  ForwardInv' /\ UndoInv' /\ EffInv'
  BY DEF ForwardInv, UndoInv, EffInv, Forward, Slotwise

\* Reading the items back.
LEMMA verifyKeeps ==
  ASSUME IInv, verify
  PROVE  IInv'
<1>0. p.pc = "verify" /\ p.pc \in Forward
  BY DEF verify, Forward
<1>1. /\ p.i \in Slots /\ p \in Procs /\ jr \in Journals /\ p.j = jr
      /\ jr.phase = "promoting" /\ jr.run \notin committed
  BY <1>0, ForwardFacts
<1>2. UNCHANGED <<Store, source, sprev, live, staging, runs, trouble, next>>
  BY DEF verify, Store
<1>3. /\ p' \in Procs /\ p'.pc \in {"commit", "catch"} /\ p'.i = p.i /\ p'.j = p.j /\ Rest
      /\ p'.pc = "commit" => \A s \in Slots : dest[s] = p.eff[s].cred
  BY <1>1, GotoEffect DEF verify, PCs, Forward
<1>4. TypeOK'
  BY <1>2, <1>3 DEF IInv, TypeOK, DataOK, Store
<1>5. FreshInv' /\ JournalInv' /\ (~raced' => UndoneInv')
  BY <1>2, <1>3, StoreKept DEF IInv, TypeOK, DataOK
<1>6. ControlInv'
  BY <1>1, <1>2, <1>3, NoneApart DEF ControlInv, Registering, Forward, Slotwise, Undoing, Store
<1>7. SlotsInv'
  BY <1>3, <1>5 DEF SlotsInv, ForwardInv, UndoInv, Slotwise
<1>8. EffInv'
  <2>1. CASE p'.pc = "catch"
    BY <2>1, QuietKept
  <2>2. CASE p'.pc = "commit"
    BY <1>0, <1>2, <1>3, <2>2 DEF EffInv, IInv, OneLogin, Rest, Forward, Slotwise, Store
  <2> QED BY <1>3, <2>1, <2>2
<1> QED BY <1>4, <1>5, <1>6, <1>7, <1>8 DEF IInv

\* The transaction, or the refusal when Claude Code's login changed.
LEMMA commitCswapImportKeeps ==
  ASSUME IInv, commitCswapImport
  PROVE  IInv'
<1>0. p.pc = "commit" /\ p.pc \in Forward
  BY DEF commitCswapImport, Forward
<1>1. /\ p.i \in Slots /\ p \in Procs /\ jr \in Journals /\ p.j = jr /\ p.eff \in Effs
      /\ jr.phase = "promoting" /\ jr.run \notin committed
  BY <1>0, ForwardFacts
<1>2. CASE commitRows /\ Goto("committed")
  <2>1. p' \in Procs /\ p'.pc = "committed" /\ p'.i = p.i /\ p'.j = p.j
    BY <1>1, <1>2, GotoEffect DEF PCs
  <2>2. row' \in Rows /\ committed' = committed \cup {jr.run} /\ committed' \in SUBSET Nat
    BY <1>1, <1>2 DEF commitRows, Rows, Effs, Journals, IInv, TypeOK, DataOK
  <2>3. UNCHANGED <<jr, runs>>
    BY DEF commitCswapImport
  <2>4. TypeOK'
    <3>1. DataOK'
      BY <2>2 DEF commitCswapImport, IInv, TypeOK, DataOK
    <3> QED BY <1>1, <2>1, <2>3, <3>1 DEF TypeOK
  <2>5. FreshInv'
    BY <1>1, <2>1, <2>2, <2>3, NoneApart DEF FreshInv, IInv
  <2>6. JournalInv'
    BY <1>1, <2>3 DEF JournalInv
  <2>7. ControlInv'
    BY <1>1, <2>1, <2>2, <2>3, NoneApart DEF ControlInv, Registering, Forward, Slotwise, Undoing
  <2>8. SlotsInv' /\ EffInv'
    BY <2>1, <2>2, <2>3, QuietKept DEF SlotsInv, UndoneInv, Undone
  <2> QED BY <2>4, <2>5, <2>6, <2>7, <2>8 DEF IInv
<1>3. CASE Goto("catch") /\ UNCHANGED <<row, committed>>
  <2>1. p' \in Procs /\ p'.pc = "catch" /\ p'.i = p.i /\ p'.j = p.j
    BY <1>1, <1>3, GotoEffect DEF PCs
  <2>2. UNCHANGED <<Store, runs>>
    BY <1>3 DEF commitCswapImport, Store
  <2>3. TypeOK'
    BY <1>3, <2>1, <2>2 DEF commitCswapImport, IInv, TypeOK, DataOK, Store
  <2>4. FreshInv' /\ JournalInv' /\ (~raced' => UndoneInv')
    BY <2>1, <2>2, StoreKept DEF IInv, TypeOK, DataOK
  <2>5. ControlInv'
    BY <1>1, <2>1, <2>2, NoneApart DEF ControlInv, Registering, Forward, Slotwise, Undoing, Store
  <2> QED BY <2>1, <2>3, <2>4, <2>5, QuietKept DEF IInv, SlotsInv
<1> QED BY <1>2, <1>3 DEF commitCswapImport

\* Journalling the commit.
LEMMA journalCommittedKeeps ==
  ASSUME IInv, journalCommitted
  PROVE  IInv'
<1>0. p.pc = "committed"
  BY DEF journalCommitted
<1>1. /\ p \in Procs /\ jr \in Journals /\ p.j = jr /\ jr.run \in committed
  BY <1>0, Running DEF IInv, TypeOK, ControlInv
<1>2. PICK k \in Journals : k = [jr EXCEPT !.phase = "committed"]
  BY <1>1 DEF Journals, Phases
<1>3. p' = [p EXCEPT !.j = k, !.pc = "clean", !.i = 1] /\ jr' = p'.j
  BY <1>1, <1>2 DEF journalCommitted
<1>4. p' \in Procs /\ p'.j = k /\ p'.pc = "clean" /\ p'.i = 1 /\ jr' = k
  BY <1>1, <1>3 DEF Procs, PCs
<1>5. jr' \in Journals /\ jr'.run = jr.run /\ jr'.phase = "committed"
  BY <1>1, <1>2, <1>4 DEF Journals
<1>6. DataOK' /\ UNCHANGED <<committed, runs>>
  BY DEF journalCommitted, IInv, TypeOK, DataOK
<1>7. TypeOK'
  BY <1>4, <1>5, <1>6 DEF TypeOK
<1>8. FreshInv'
  BY <1>1, <1>4, <1>5, <1>6, NoneApart DEF FreshInv, IInv
<1>9. JournalInv'
  BY <1>1, <1>5, <1>6 DEF JournalInv
<1>10. 1 \in Slots
  BY ImportAssumption DEF Slots
<1>11. ControlInv'
  BY <1>4, <1>5, <1>10, NoneApart DEF ControlInv, Registering, Forward, Slotwise, Undoing
<1>12. SlotsInv'
  BY <1>1, <1>4, <1>5, <1>6 DEF SlotsInv, UndoneInv, Undone, ForwardInv, UndoInv, Slotwise
<1>13. EffInv'
  BY <1>4 DEF EffInv, Forward, Slotwise
<1> QED BY <1>7, <1>8, <1>9, <1>11, <1>12, <1>13 DEF IInv

\* A process whose run is not in import_runs has something to undo.
LEMMA UndoneNow ==
  ASSUME IInv, p.pc \notin {"idle", "mkdir", "create"}, jr.run \notin committed
  PROVE  /\ Undone
         /\ ~raced => BeforeInv /\ UndoInv /\ \A s \in Slots : SlotInv(s)
<1>1. jr \in Journals /\ jr.phase \in {"staged", "promoting", "commit-unknown", "committed"}
  BY Running DEF IInv
<1>2. jr.phase # "committed"
  BY <1>1, NoneApart DEF IInv, JournalInv
<1>3. Undone
  BY <1>1, <1>2, NoneApart DEF Undone
<1> QED BY <1>3 DEF IInv, SlotsInv, UndoneInv

\* The catch block: the verdict of import_runs, or of recovery when it is unreadable.
LEMMA catchErrorKeeps ==
  ASSUME IInv, catchError
  PROVE  IInv'
<1>0. p.pc = "catch"
  BY DEF catchError
<1>1. /\ p \in Procs /\ jr \in Journals /\ p.j = jr
      /\ jr.phase \in {"staged", "promoting", "commit-unknown", "committed"}
  BY <1>0, Running DEF IInv, TypeOK
<1>2. /\ UNCHANGED <<committed, runs, dest, prev, bk, bkp, row, before, raced>>
      /\ trouble' \in Nat
  BY DEF catchError, IInv, TypeOK, DataOK
<1>3. DataOK'
  BY <1>2 DEF catchError, IInv, TypeOK, DataOK
<1>4. ASSUME End, NEW ph \in {"commit-unknown", "committed"}, jr' = [jr EXCEPT !.phase = ph],
             ph = "committed" => jr.run \in committed
      PROVE  IInv'
  <2>1. jr' \in Journals /\ jr'.run = jr.run /\ jr'.phase = ph /\ jr'.e = jr.e
    BY <1>1, <1>4 DEF Journals, Phases
  <2>2. TypeOK'
    BY <1>3, <1>4, <2>1, EndKept DEF TypeOK
  <2>3. FreshInv'
    BY <1>1, <1>2, <1>4, <2>1, EndKept, NoneApart DEF FreshInv, IInv
  <2>4. JournalInv'
    BY <1>2, <1>4, <2>1 DEF JournalInv
  <2>5. SlotsInv'
    <3> SUFFICES ASSUME ~raced', Undone' PROVE BeforeInv' /\ \A s \in Slots : SlotInv(s)'
      BY <1>4, EndKept DEF SlotsInv, UndoneInv
    <3>1. BeforeInv /\ \A s \in Slots : SlotInv(s)
      BY <1>0, <1>2, <2>1, UndoneNow DEF Undone
    <3> QED BY <1>2, <2>1, <3>1, SlotSame DEF BeforeInv
  <2> QED BY <1>4, <2>2, <2>3, <2>4, <2>5, EndKept DEF IInv
<1>5. ASSUME AtSlot("undo", N), jr' = jr, jr.run \notin committed
      PROVE  IInv'
  <2>1. N \in Nat /\ N \in Slots
    BY ImportAssumption DEF Slots
  <2>2. p' \in Procs /\ p'.pc = "undo" /\ p'.i = N /\ p'.j = p.j
    BY <1>1, <1>5, <2>1, AtSlotEffect DEF PCs, Undoing
  <2>3. TypeOK'
    BY <1>1, <1>3, <1>5, <2>2 DEF TypeOK
  <2>4. UNCHANGED <<Store, runs>>
    BY <1>2, <1>5 DEF Store
  <2>5. FreshInv' /\ JournalInv' /\ (~raced' => UndoneInv')
    BY <2>2, <2>4, StoreKept DEF IInv, TypeOK, DataOK
  <2>6. ControlInv'
    BY <1>1, <1>5, <2>1, <2>2, <2>4, NoneApart DEF ControlInv, Registering, Forward, Slotwise,
       Undoing, Store
  <2>7. SlotsInv'
    BY <2>2, <2>5, ImportAssumption DEF SlotsInv, ForwardInv, UndoInv, Slotwise, Slots
  <2>8. EffInv'
    BY <2>2 DEF EffInv, Forward, Slotwise
  <2> QED BY <2>3, <2>5, <2>6, <2>7, <2>8 DEF IInv
<1> QED BY <1>1, <1>4, <1>5 DEF catchError
\* A step of the rollback that keeps its slots' promises keeps the invariant.
LEMMA UndoStep ==
  ASSUME IInv, p.pc = "undo", DataOK', NEW b \in BOOLEAN, UndoNext(jr', b),
         jr' \in Journals, jr'.run = jr.run, jr'.phase = jr.phase,
         jr.phase = "staged" => jr' = jr,
         \A s \in Slots : s # p.i => jr'.e[s] = jr.e[s],
         ~b => ~p.failed /\ (~jr'.e[p.i].seen \/ jr'.e[p.i].restored),
         UNCHANGED <<committed, runs, raced, before, row>>,
         ~raced => \A s \in Slots : SlotInv(s)'
  PROVE  IInv'
<1>1. /\ p \in Procs /\ jr \in Journals /\ p.i \in Slots /\ p.i \in Nat /\ jr.run \notin committed
      /\ jr.phase \in {"staged", "promoting", "commit-unknown", "committed"}
  BY Running DEF IInv, TypeOK, ControlInv, Undoing
<1>2. /\ p' \in Procs /\ p'.j = jr' /\ p'.failed = b /\ p'.pc \in {"undo", "giveup", "clean"}
      /\ p.i > 1 => p'.pc = "undo" /\ p'.i = p.i - 1
      /\ ~(p.i > 1) => p'.i = 1 /\ p'.pc = (IF b THEN "giveup" ELSE "clean")
  BY <1>1, UndoNextEffect
<1>3. p'.i \in Slots
  BY <1>1, <1>2, ImportAssumption DEF Slots
<1>4. TypeOK'
  BY <1>2 DEF TypeOK
<1>5. FreshInv'
  BY <1>1, <1>2, NoneApart DEF FreshInv, IInv
<1>6. JournalInv'
  <2>1. CASE jr' = jr
    BY <2>1 DEF JournalInv, IInv, Blank
  <2>2. CASE jr.phase # "staged"
    BY <1>1, <2>2, NoneApart DEF JournalInv, IInv
  <2> QED BY <2>1, <2>2
<1>7. ControlInv'
  BY <1>1, <1>2, <1>3, NoneApart DEF ControlInv, Registering, Forward, Slotwise, Undoing
<1>8. SlotsInv'
  <2> SUFFICES ASSUME ~raced' PROVE SlotsInv'
    BY DEF SlotsInv
  <2>1. BeforeInv /\ UndoInv
    BY <1>1, UndoneNow
  <2>2. UndoneInv'
    BY <1>2, <2>1 DEF UndoneInv, BeforeInv
  <2>3. ASSUME ~b PROVE \A s \in Slots : s >= p.i => ~jr'.e[s].seen \/ jr'.e[s].restored
    <3>1. \A s \in Slots : s > p.i => ~jr'.e[s].seen \/ jr'.e[s].restored
      BY <1>1, <2>1, <2>3 DEF UndoInv, Slots
    <3> QED BY <1>1, <2>3, <3>1 DEF Slots
  <2>4. UndoInv'
    <3>1. CASE p'.pc = "giveup"
      BY <3>1, QuietKept
    <3>2. CASE p'.pc = "undo"
      <4>1. p'.i = p.i - 1 /\ \A s \in Slots : s > p'.i => s >= p.i
        BY <1>1, <1>2, <3>2 DEF Slots
      <4> QED BY <1>2, <3>2, <4>1, <2>3 DEF UndoInv
    <3>3. CASE p'.pc = "clean"
      <4>1. ~b /\ \A s \in Slots : s >= p.i
        BY <1>1, <1>2, <3>3 DEF Slots
      <4>2. \A s \in Slots : ~Reached(jr'.e[s])
        BY <2>3, <4>1 DEF SlotInv, Reached
      <4> QED BY <3>3, <4>2 DEF UndoInv
    <3> QED BY <1>2, <3>1, <3>2, <3>3
  <2>5. ForwardInv'
    BY <1>2 DEF ForwardInv, Slotwise
  <2> QED BY <2>2, <2>4, <2>5 DEF SlotsInv
<1>9. EffInv'
  BY <1>2 DEF EffInv, Forward, Slotwise
<1> QED BY <1>4, <1>5, <1>6, <1>7, <1>8, <1>9 DEF IInv

\* Putting a slot back, skipping it, or failing halfway.
LEMMA rollbackEffectsKeeps ==
  ASSUME IInv, rollbackEffects
  PROVE  IInv'
<1>0. p.pc = "undo"
  BY DEF rollbackEffects
<1>1. /\ p \in Procs /\ jr \in Journals /\ p.j = jr /\ p.i \in Slots /\ p.i \in Nat
      /\ Entry = jr.e[p.i] /\ Entry \in Entries /\ jr.run \notin committed /\ p.failed \in BOOLEAN
  BY <1>0, Running DEF IInv, TypeOK, ControlInv, Undoing, Procs
<1>2. UNCHANGED <<committed, runs, raced, before, row, bk, bkp, staging, source, sprev, live, next>>
  BY DEF rollbackEffects
<1>3. ~raced => \A s \in Slots : SlotInv(s)
  BY <1>0, <1>1, UndoneNow
<1>4. Entry.seen => jr.phase # "staged"
  BY <1>1, NoneApart DEF IInv, JournalInv, Blank, NewEntry
<1>5. Entry.dest0 \in Nat /\ Entry.prev0 \in Nat
  BY <1>1 DEF Entries
<1>6. CASE ~Entry.seen /\ UndoNext(p.j, p.failed) /\ UNCHANGED <<dest, prev, jr, trouble>>
  <2>1. DataOK'
    BY <1>2, <1>6 DEF IInv, TypeOK, DataOK
  <2>2. ~raced => \A s \in Slots : SlotInv(s)'
    BY <1>2, <1>3, <1>6, SlotSame
  <2> QED BY <1>0, <1>1, <1>2, <1>6, <2>1, <2>2, UndoStep
<1>7. CASE /\ Entry.seen
           /\ dest' = [dest EXCEPT ![p.i] = Entry.dest0]
           /\ prev' = [prev EXCEPT ![p.i] = Entry.prev0]
           /\ UndoNext(WithEntry([Entry EXCEPT !.restored = TRUE]), p.failed)
           /\ jr' = WithEntry([Entry EXCEPT !.restored = TRUE])
           /\ UNCHANGED trouble
  <2> DEFINE x == [Entry EXCEPT !.restored = TRUE]
  <2>1. x \in Entries /\ x.restored = TRUE
    BY <1>1 DEF Entries
  <2>1a. /\ x.seen = Entry.seen /\ x.dest0 = Entry.dest0 /\ x.prev0 = Entry.prev0
         /\ x.reached = Entry.reached
    BY <1>1 DEF Entries
  <2>1b. jr' = WithEntry(x)
    BY <1>7
  <2> HIDE DEF x
  <2>2. /\ jr' \in Journals /\ jr'.run = jr.run /\ jr'.phase = jr.phase /\ jr'.e[p.i] = x
        /\ \A s \in Slots : s # p.i => jr'.e[s] = jr.e[s]
    BY <1>1, <2>1, <2>1b, WithEntryEffect
  <2>3. /\ dest' \in Items /\ prev' \in Items /\ dest'[p.i] = Entry.dest0 /\ prev'[p.i] = Entry.prev0
        /\ \A s \in Slots : s # p.i => dest'[s] = dest[s] /\ prev'[s] = prev[s]
    BY <1>1, <1>5, <1>7 DEF IInv, TypeOK, DataOK, Items
  <2>4. DataOK'
    BY <1>2, <1>7, <2>3 DEF IInv, TypeOK, DataOK
  <2>5. ASSUME ~raced PROVE \A s \in Slots : SlotInv(s)'
    <3>1. \A s \in Slots : s # p.i => SlotInv(s)'
      BY <1>2, <1>3, <2>2, <2>3, <2>5, SlotSame
    <3>2. \A s \in Slots : s = p.i => SlotInv(s)'
      <4>1. Entry.dest0 = before.dest[p.i] /\ Entry.prev0 = before.prev[p.i] /\ Entry.seen
        BY <1>1, <1>3, <1>7, <2>5 DEF SlotInv
      <4>2. /\ jr'.e[p.i].seen /\ jr'.e[p.i].restored
            /\ jr'.e[p.i].dest0 = before'.dest[p.i] /\ jr'.e[p.i].prev0 = before'.prev[p.i]
            /\ dest'[p.i] = before'.dest[p.i] /\ prev'[p.i] = before'.prev[p.i]
        BY <1>2, <2>1, <2>1a, <2>2, <2>3, <4>1
      <4> QED BY <4>2 DEF SlotInv, Reached
    <3> QED BY <3>1, <3>2
  <2>6. UndoNext(jr', p.failed)
    BY <1>7
  <2> QED BY <1>0, <1>1, <1>2, <1>4, <1>7, <2>1, <2>2, <2>4, <2>5, <2>6, UndoStep
<1>8. CASE /\ Entry.seen /\ trouble' = trouble + 1
           /\ \/ prev' = [prev EXCEPT ![p.i] = Entry.prev0] /\ UNCHANGED dest
              \/ dest' = [dest EXCEPT ![p.i] = Entry.dest0] /\ UNCHANGED prev
           /\ UndoNext(p.j, TRUE) /\ UNCHANGED jr
  <2>1. /\ dest' \in Items /\ prev' \in Items
        /\ dest'[p.i] \in {dest[p.i], Entry.dest0} /\ prev'[p.i] \in {prev[p.i], Entry.prev0}
        /\ \A s \in Slots : s # p.i => dest'[s] = dest[s] /\ prev'[s] = prev[s]
    BY <1>1, <1>5, <1>8 DEF IInv, TypeOK, DataOK, Items
  <2>2. trouble' \in Nat
    BY <1>8 DEF IInv, TypeOK, DataOK
  <2>3. DataOK'
    BY <1>2, <2>1, <2>2 DEF IInv, TypeOK, DataOK
  <2>4. ASSUME ~raced PROVE \A s \in Slots : SlotInv(s)'
    <3>1. \A s \in Slots : s # p.i => SlotInv(s)'
      BY <1>2, <1>3, <1>8, <2>1, <2>4, SlotSame
    <3>2. \A s \in Slots : s = p.i => SlotInv(s)'
      BY <1>1, <1>2, <1>3, <1>8, <2>1, <2>4 DEF SlotInv, Reached
    <3> QED BY <3>1, <3>2
  <2> QED BY <1>0, <1>1, <1>2, <1>8, <2>3, <2>4, UndoStep
<1> QED BY <1>6, <1>7, <1>8 DEF rollbackEffects

\* The process stops and changes nothing.
LEMMA EndKeeps ==
  ASSUME IInv, End, UNCHANGED <<Store, source, sprev, live, staging, next>>,
         runs' \in Nat, runs' >= runs, trouble' \in Nat
  PROVE  IInv'
<1>1. TypeOK'
  BY EndKept DEF IInv, TypeOK, DataOK, Store
<1>2. FreshInv' /\ JournalInv' /\ (~raced' => UndoneInv')
  BY StoreKept, EndKept
<1> QED BY <1>1, <1>2, EndKept DEF IInv, SlotsInv

\* A rollback that failed somewhere leaves the journal to recovery.
LEMMA giveUpKeeps ==
  ASSUME IInv, giveUp
  PROVE  IInv'
<1>1. jr' = jr
  BY Running DEF giveUp, IInv
<1>2. runs \in Nat /\ trouble \in Nat
  BY DEF IInv, TypeOK, DataOK
<1> QED BY <1>1, <1>2, EndKeeps DEF giveUp, Store

\* The process dies.
LEMMA CrashKeeps ==
  ASSUME IInv, Crash
  PROVE  IInv'
<1>1. runs \in Nat /\ trouble' \in Nat
  BY DEF IInv, TypeOK, DataOK, Crash
<1> QED BY <1>1, EndKeeps DEF Crash, Store

\* A call of the import throws.
LEMMA ThrowKeeps ==
  ASSUME IInv, Throw
  PROVE  IInv'
<1>0. p.pc \notin {"idle", "mkdir", "create"}
  BY DEF Throw
<1>1. /\ p \in Procs /\ jr \in Journals /\ p.j = jr /\ p.i \in Slots
      /\ jr.phase \in {"staged", "promoting", "commit-unknown", "committed"}
  BY <1>0, Running DEF IInv, TypeOK
<1>2. p' \in Procs /\ p'.pc = "catch" /\ p'.i = p.i /\ p'.j = p.j
  BY <1>1, GotoEffect DEF Throw, PCs
<1>3. UNCHANGED <<Store, runs>> /\ trouble' \in Nat
  BY DEF Throw, Store, IInv, TypeOK, DataOK
<1>4. TypeOK'
  BY <1>2, <1>3 DEF Throw, Store, IInv, TypeOK, DataOK
<1>5. FreshInv' /\ JournalInv' /\ (~raced' => UndoneInv')
  BY <1>2, <1>3, StoreKept DEF IInv, TypeOK, DataOK
<1>6. ControlInv'
  BY <1>1, <1>2, <1>3, NoneApart DEF ControlInv, Registering, Forward, Slotwise, Undoing, Store
<1> QED BY <1>2, <1>4, <1>5, <1>6, QuietKept DEF IInv, SlotsInv

\* Deleting preimages: the run is committed or every slot is put back.
LEMMA cleanupKeeps ==
  ASSUME IInv, cleanup
  PROVE  IInv'
<1>0. p.pc = "clean"
  BY DEF cleanup
<1>1. /\ p \in Procs /\ jr \in Journals /\ p.j = jr /\ p.i \in Slots /\ p.i \in Nat
      /\ jr.phase \in {"staged", "promoting", "commit-unknown", "committed"}
  BY <1>0, Running DEF IInv, TypeOK
<1>2. p' \in Procs /\ p'.pc \in {"clean", "finish"} /\ p'.i \in Slots /\ p'.j = p.j
  BY <1>1, GotoEffect, AtSlotEffect, ImportAssumption DEF cleanup, PCs, Slots
<1>3. staging' \in Items /\ bk' \in Items /\ bkp' \in Items
  BY <1>1 DEF cleanup, IInv, TypeOK, DataOK, Items
<1>4. UNCHANGED <<jr, committed, runs, dest, prev, row, before, raced>>
  BY DEF cleanup
<1>5. TypeOK'
  BY <1>1, <1>2, <1>3, <1>4 DEF cleanup, IInv, TypeOK, DataOK
<1>6. FreshInv' /\ JournalInv'
  BY <1>2, <1>4 DEF IInv, FreshInv, JournalInv, Blank
<1>7. ControlInv'
  BY <1>1, <1>2, <1>4, NoneApart DEF ControlInv, Registering, Forward, Slotwise, Undoing
<1>8. SlotsInv'
  <2> SUFFICES ASSUME ~raced' PROVE SlotsInv'
    BY DEF SlotsInv
  <2>1. jr.run \notin committed => \A s \in Slots : ~Reached(jr.e[s])
    BY <1>0, <1>4 DEF IInv, SlotsInv, UndoInv
  <2>2. UndoInv'
    BY <1>2, <1>4, <2>1 DEF UndoInv
  <2>3. ASSUME Undone' PROVE BeforeInv' /\ \A s \in Slots : SlotInv(s)'
    <3>1. jr.run \notin committed
      BY <1>4, <2>3 DEF Undone
    <3>2. BeforeInv /\ \A s \in Slots : SlotInv(s)
      BY <1>0, <1>4, <3>1, UndoneNow
    <3> QED BY <1>4, <2>1, <3>1, <3>2 DEF BeforeInv, SlotInv
  <2> QED BY <1>2, <2>2, <2>3 DEF SlotsInv, UndoneInv, ForwardInv, Slotwise
<1>9. EffInv'
  BY <1>2 DEF EffInv, Forward, Slotwise
<1> QED BY <1>5, <1>6, <1>7, <1>8, <1>9 DEF IInv

\* The journal is settled.
LEMMA finishKeeps ==
  ASSUME IInv, finish
  PROVE  IInv'
<1>1. jr \in Journals /\ p.j = jr
  BY Running DEF finish, IInv
<1>2. jr' \in Journals /\ jr'.run = jr.run /\ jr'.phase \in {"cleaned", "aborted"}
  BY <1>1 DEF finish, Journals, Phases
<1>3. End /\ UNCHANGED <<committed, runs>>
  BY DEF finish
<1>4. TypeOK'
  BY <1>2, <1>3, EndKept DEF finish, IInv, TypeOK, DataOK
<1>5. FreshInv' /\ JournalInv'
  BY <1>1, <1>2, <1>3, EndKept, NoneApart DEF IInv, FreshInv, JournalInv
<1>6. SlotsInv'
  BY <1>2, <1>3, EndKept DEF SlotsInv, UndoneInv, Undone
<1> QED BY <1>3, <1>4, <1>5, <1>6, EndKept DEF IInv
\* What the verdict on a stored journal says of it.
LEMMA ClassifyFacts ==
  ASSUME TypeOK
  PROVE  /\ classify \in {"recover", "finish-cleanup", "purge-staging"} => jr \in Journals
         /\ classify = "recover" => /\ jr.phase \in {"promoting", "commit-unknown"}
                                    /\ jr.run \notin committed
         /\ classify = "finish-cleanup" => /\ jr.phase \in {"promoting", "commit-unknown", "committed"}
                                           /\ jr.run \in committed
         /\ classify = "purge-staging" => jr.phase = "staged"
         /\ classify = "none" => ~Undone
  BY DEF classify, TypeOK, Journals, Phases, Undone

\* Reconciliation takes up a journal.
LEMMA reconcileKeeps ==
  ASSUME IInv, reconcileCswapImportJournals
  PROVE  IInv'
<1>1. PICK l \in {"rec", "clean", "purge"}, i \in {1, N} :
        /\ p' = [Idle EXCEPT !.pc = l, !.i = i, !.mode = "recover", !.j = jr]
        /\ l = "rec" => classify = "recover" /\ i = N
        /\ l = "clean" => classify = "finish-cleanup"
        /\ l = "purge" => classify = "purge-staging"
  BY DEF reconcileCswapImportJournals
<1>2. i \in Slots /\ i \in Nat
  BY ImportAssumption DEF Slots
<1>3. jr \in Journals
  BY <1>1, ClassifyFacts DEF IInv
<1>4. l \in PCs
  BY DEF PCs, Undoing
<1>5. p' \in Procs /\ p'.pc = l /\ p'.i = i /\ p'.j = jr
  BY <1>1, <1>2, <1>3, <1>4, IdleType DEF Procs
<1>6. UNCHANGED Store /\ runs' \in Nat /\ runs' >= runs
  BY DEF reconcileCswapImportJournals, Store, IInv, TypeOK, DataOK
<1>7. TypeOK'
  BY <1>5, <1>6 DEF reconcileCswapImportJournals, Store, IInv, TypeOK, DataOK
<1>8. FreshInv' /\ JournalInv' /\ (~raced' => UndoneInv')
  BY <1>5, <1>6, StoreKept
<1>9. ControlInv'
  <2>1. /\ jr.phase \in {"staged", "promoting", "commit-unknown", "committed"}
        /\ l = "rec" => jr.run \notin committed /\ jr.phase # "staged"
        /\ l = "purge" => jr.phase = "staged"
    BY <1>1, ClassifyFacts DEF IInv
  <2> QED BY <1>2, <1>3, <1>5, <1>6, <2>1, NoneApart DEF ControlInv, Registering, Forward, Slotwise, Undoing, Store
<1>10. SlotsInv'
  <2>1. l = "rec" => \A s \in Slots : ~(s > i)
    BY <1>1, ImportAssumption DEF Slots
  <2>2. l = "clean" => jr.run \in committed
    BY <1>1, ClassifyFacts DEF IInv
  <2>3. UndoInv'
    BY <1>5, <1>6, <2>1, <2>2 DEF UndoInv, Store
  <2> QED BY <1>5, <1>8, <2>3 DEF SlotsInv, ForwardInv, Slotwise
<1>11. EffInv'
  BY <1>5 DEF EffInv, Forward, Slotwise
<1> QED BY <1>7, <1>8, <1>9, <1>10, <1>11 DEF IInv

\* Deleting staged credentials of a run that promoted nothing.
LEMMA purgeStagedKeeps ==
  ASSUME IInv, purgeStaged
  PROVE  IInv'
<1>0. p.pc = "purge"
  BY DEF purgeStaged
<1>1. /\ p \in Procs /\ jr \in Journals /\ p.j = jr /\ p.i \in Slots /\ p.i \in Nat /\ jr.phase = "staged"
  BY <1>0, Running DEF IInv, TypeOK, ControlInv
<1>2. p' \in Procs /\ p'.pc \in {"purge", "finish"} /\ p'.i \in Slots /\ p'.j = p.j
  BY <1>1, GotoEffect, AtSlotEffect, ImportAssumption DEF purgeStaged, PCs, Slots
<1>3. UNCHANGED <<Store, runs>> /\ staging' \in Items
  BY <1>1 DEF purgeStaged, Store, IInv, TypeOK, DataOK, Items
<1>4. TypeOK'
  BY <1>2, <1>3 DEF purgeStaged, Store, IInv, TypeOK, DataOK
<1>5. FreshInv' /\ JournalInv' /\ (~raced' => UndoneInv')
  BY <1>2, <1>3, StoreKept DEF IInv, TypeOK, DataOK
<1>6. ControlInv'
  BY <1>1, <1>2, <1>3, NoneApart DEF ControlInv, Registering, Forward, Slotwise, Undoing, Store
<1>7. \A s \in Slots : ~Reached(jr'.e[s])
  BY <1>1, <1>3, NoneApart DEF IInv, JournalInv, Blank, NewEntry, Reached, Store
<1>8. SlotsInv'
  BY <1>2, <1>5, <1>7 DEF SlotsInv, ForwardInv, UndoInv, Slotwise
<1>9. EffInv'
  BY <1>2 DEF EffInv, Forward, Slotwise
<1> QED BY <1>4, <1>5, <1>6, <1>8, <1>9 DEF IInv

\* Recovery goes to the slot before, or to the cleanup.
LEMMA RecoveryStep ==
  ASSUME IInv, p.pc \in {"rec", "recj"}, DataOK', p' \in Procs, p'.j = jr',
         p.i > 1 => p'.pc = "rec" /\ p'.i = p.i - 1,
         ~(p.i > 1) => p'.pc = "clean" /\ p'.i = 1,
         jr' \in Journals, jr'.run = jr.run, jr'.phase = jr.phase,
         UNCHANGED <<committed, runs, raced, before, row>>,
         ~raced => /\ \A s \in Slots : SlotInv(s)'
                   /\ \A s \in Slots : s >= p.i => ~Reached(jr'.e[s])
  PROVE  IInv'
<1>1. /\ jr \in Journals /\ p.i \in Slots /\ p.i \in Nat /\ jr.run \notin committed
      /\ jr.phase \in {"promoting", "commit-unknown", "committed"}
  BY Running DEF IInv, TypeOK, ControlInv, Undoing
<1>2. p'.i \in Slots /\ p'.pc \in {"rec", "clean"}
  BY <1>1, ImportAssumption DEF Slots
<1>3. TypeOK'
  BY DEF TypeOK
<1>4. FreshInv'
  BY <1>1, <1>2, NoneApart DEF FreshInv, IInv
<1>5. JournalInv'
  BY <1>1, NoneApart DEF JournalInv, IInv
<1>6. ControlInv'
  BY <1>1, <1>2, NoneApart DEF ControlInv, Registering, Forward, Slotwise, Undoing
<1>7. SlotsInv'
  <2> SUFFICES ASSUME ~raced' PROVE SlotsInv'
    BY DEF SlotsInv
  <2>1. BeforeInv
    BY <1>1, UndoneNow
  <2>2. UndoneInv'
    BY <1>2, <2>1 DEF UndoneInv, BeforeInv
  <2>3. UndoInv'
    <3>1. CASE p.i > 1
      <4>1. p'.pc = "rec" /\ \A s \in Slots : s > p'.i => s >= p.i
        BY <1>1, <3>1 DEF Slots
      <4> QED BY <4>1 DEF UndoInv
    <3>2. CASE ~(p.i > 1)
      <4>1. p'.pc = "clean" /\ \A s \in Slots : s >= p.i
        BY <1>1, <3>2 DEF Slots
      <4> QED BY <4>1 DEF UndoInv
    <3> QED BY <3>1, <3>2
  <2> QED BY <1>2, <2>2, <2>3 DEF SlotsInv, ForwardInv, Slotwise
<1>8. EffInv'
  BY <1>2 DEF EffInv, Forward, Slotwise
<1> QED BY <1>3, <1>4, <1>5, <1>6, <1>7, <1>8 DEF IInv

\* Recovery of a slot's current item.
LEMMA recoverDestinationKeeps ==
  ASSUME IInv, recoverDestination
  PROVE  IInv'
<1>0. p.pc = "rec"
  BY DEF recoverDestination
<1>1. /\ p \in Procs /\ jr \in Journals /\ p.j = jr /\ p.i \in Slots /\ p.i \in Nat
      /\ Entry = jr.e[p.i] /\ Entry \in Entries /\ jr.run \notin committed
      /\ jr.phase \in {"promoting", "commit-unknown", "committed"}
  BY <1>0, Running DEF IInv, TypeOK, ControlInv, Undoing
<1>2. UNCHANGED <<jr, committed, runs, trouble, raced, before, row,
                prev, bk, bkp, staging, source, sprev, live, next>>
  BY DEF recoverDestination
<1>3. ~raced => /\ \A s \in Slots : SlotInv(s)
                /\ \A s \in Slots : s > p.i => ~Reached(jr.e[s])
  BY <1>0, <1>1, UndoneNow DEF UndoInv
<1>4. CASE ~Reached(Entry) /\ NextRecovery /\ UNCHANGED dest
  <2>1. /\ p' \in Procs /\ p'.j = jr
        /\ p.i > 1 => p'.pc = "rec" /\ p'.i = p.i - 1
        /\ ~(p.i > 1) => p'.pc = "clean" /\ p'.i = 1
    BY <1>1, <1>4, AtSlotEffect DEF NextRecovery, PCs, Undoing
  <2>2. DataOK'
    BY <1>2, <1>4 DEF IInv, TypeOK, DataOK
  <2>3. ASSUME ~raced
        PROVE  /\ \A s \in Slots : SlotInv(s)'
               /\ \A s \in Slots : s >= p.i => ~Reached(jr'.e[s])
    <3>1. \A s \in Slots : SlotInv(s)'
      BY <1>2, <1>3, <1>4, <2>3, SlotSame
    <3>2. \A s \in Slots : s >= p.i => s = p.i \/ s > p.i
      BY <1>1 DEF Slots
    <3>3. \A s \in Slots : s >= p.i => ~Reached(jr.e[s])
      BY <1>1, <1>3, <1>4, <2>3, <3>2
    <3> QED BY <1>2, <3>1, <3>3
  <2> QED BY <1>0, <1>1, <1>2, <2>1, <2>2, <2>3, RecoveryStep
<1>5. CASE /\ Reached(Entry) /\ dest' = [dest EXCEPT ![p.i] = Entry.dest0]
           /\ Goto(IF Entry.reached = "previous" THEN "recp" ELSE "recj")
  <2>1. /\ p' \in Procs /\ p'.pc \in {"recp", "recj"} /\ p'.i = p.i /\ p'.j = p.j
        /\ p'.pc = "recp" <=> Entry.reached = "previous"
    BY <1>1, <1>5, GotoEffect DEF PCs, Undoing
  <2>2. /\ dest' \in Items /\ dest'[p.i] = Entry.dest0
        /\ \A s \in Slots : s # p.i => dest'[s] = dest[s]
    BY <1>1, <1>5 DEF IInv, TypeOK, DataOK, Items, Entries
  <2>3. TypeOK'
    BY <1>2, <2>1, <2>2 DEF IInv, TypeOK, DataOK
  <2>4. FreshInv' /\ JournalInv'
    BY <1>2, <2>1 DEF IInv, FreshInv, JournalInv, Blank
  <2>5. ControlInv'
    BY <1>1, <1>2, <2>1, NoneApart DEF ControlInv, Registering, Forward, Slotwise, Undoing
  <2>6. SlotsInv'
    <3> SUFFICES ASSUME ~raced' PROVE SlotsInv'
      BY DEF SlotsInv
    <3>1. \A s \in Slots : s # p.i => SlotInv(s)'
      BY <1>2, <1>3, <2>2, SlotSame
    <3>2. \A s \in Slots : s = p.i => SlotInv(s)'
      BY <1>1, <1>2, <1>3, <1>5 DEF SlotInv, Reached
    <3>3. BeforeInv'
      BY <1>0, <1>1, <1>2, UndoneNow DEF BeforeInv
    <3>4. Entry.seen
      BY <1>1, <1>2, <1>3, <1>5 DEF SlotInv, Reached
    <3>5. UndoInv'
      BY <1>1, <1>2, <1>3, <2>1, <2>2, <3>4 DEF UndoInv
    <3> QED BY <2>1, <3>1, <3>2, <3>3, <3>5 DEF SlotsInv, UndoneInv, ForwardInv, Slotwise
  <2>7. EffInv'
    BY <2>1 DEF EffInv, Forward, Slotwise
  <2> QED BY <2>3, <2>4, <2>5, <2>6, <2>7 DEF IInv
<1>6. CASE End /\ UNCHANGED dest
  BY <1>2, <1>6, EndKeeps DEF Store, IInv, TypeOK, DataOK
<1> QED BY <1>4, <1>5, <1>6 DEF recoverDestination, Reached

\* Recovery of a slot's previous item.
LEMMA recoverPreviousKeeps ==
  ASSUME IInv, recoverPrevious
  PROVE  IInv'
<1>0. p.pc = "recp"
  BY DEF recoverPrevious
<1>1. /\ p \in Procs /\ jr \in Journals /\ p.j = jr /\ p.i \in Slots /\ p.i \in Nat
      /\ Entry = jr.e[p.i] /\ Entry \in Entries /\ jr.run \notin committed
      /\ jr.phase \in {"promoting", "commit-unknown", "committed"}
  BY <1>0, Running DEF IInv, TypeOK, ControlInv, Undoing
<1>2. UNCHANGED <<jr, committed, runs, trouble, raced, before, row,
                dest, bk, bkp, staging, source, sprev, live, next>>
  BY DEF recoverPrevious
<1>3. ~raced => /\ \A s \in Slots : SlotInv(s)
                /\ UndoInv
  BY <1>0, <1>1, UndoneNow
<1>4. CASE prev' = [prev EXCEPT ![p.i] = Entry.prev0] /\ Goto("recj")
  <2>1. p' \in Procs /\ p'.pc = "recj" /\ p'.i = p.i /\ p'.j = p.j
    BY <1>1, <1>4, GotoEffect DEF PCs, Undoing
  <2>2. /\ prev' \in Items /\ prev'[p.i] = Entry.prev0
        /\ \A s \in Slots : s # p.i => prev'[s] = prev[s]
    BY <1>1, <1>4 DEF IInv, TypeOK, DataOK, Items, Entries
  <2>3. TypeOK'
    BY <1>2, <2>1, <2>2 DEF IInv, TypeOK, DataOK
  <2>4. FreshInv' /\ JournalInv'
    BY <1>2, <2>1 DEF IInv, FreshInv, JournalInv, Blank
  <2>5. ControlInv'
    BY <1>1, <1>2, <2>1, NoneApart DEF ControlInv, Registering, Forward, Slotwise, Undoing
  <2>6. SlotsInv'
    <3> SUFFICES ASSUME ~raced' PROVE SlotsInv'
      BY DEF SlotsInv
    <3>1. \A s \in Slots : s # p.i => SlotInv(s)'
      BY <1>2, <1>3, <2>2, SlotSame
    <3>2. Entry.reached = "previous" /\ Entry.seen /\ SlotInv(p.i)
      BY <1>0, <1>1, <1>2, <1>3 DEF UndoInv
    <3>3. \A s \in Slots : s = p.i => SlotInv(s)'
      BY <1>1, <1>2, <2>2, <3>2 DEF SlotInv, Reached
    <3>4. BeforeInv'
      BY <1>0, <1>1, <1>2, UndoneNow DEF BeforeInv
    <3>5. UndoInv'
      BY <1>0, <1>1, <1>2, <1>3, <2>1, <2>2 DEF UndoInv
    <3> QED BY <2>1, <3>1, <3>3, <3>4, <3>5 DEF SlotsInv, UndoneInv, ForwardInv, Slotwise
  <2>7. EffInv'
    BY <2>1 DEF EffInv, Forward, Slotwise
  <2> QED BY <2>3, <2>4, <2>5, <2>6, <2>7 DEF IInv
<1>5. CASE End /\ UNCHANGED prev
  BY <1>2, <1>5, EndKeeps DEF Store, IInv, TypeOK, DataOK
<1> QED BY <1>4, <1>5 DEF recoverPrevious

\* Journalling that a slot is put back.
LEMMA recoverJournalKeeps ==
  ASSUME IInv, recoverJournal
  PROVE  IInv'
<1> DEFINE x == [Entry EXCEPT !.restored = TRUE]
           l == IF p.i > 1 THEN "rec" ELSE "clean"
           i == IF p.i > 1 THEN p.i - 1 ELSE 1
<1>0. p.pc = "recj"
  BY DEF recoverJournal
<1>1. /\ p \in Procs /\ jr \in Journals /\ p.j = jr /\ p.i \in Slots /\ p.i \in Nat
      /\ Entry = jr.e[p.i] /\ Entry \in Entries /\ jr.run \notin committed
  BY <1>0, Running DEF IInv, TypeOK, ControlInv, Undoing
<1>2. UNCHANGED <<committed, runs, trouble, raced, before, row,
                dest, prev, bk, bkp, staging, source, sprev, live, next>>
  BY DEF recoverJournal
<1>3. x \in Entries /\ x.restored = TRUE
  BY <1>1 DEF Entries
<1>4. /\ x.seen = Entry.seen /\ x.dest0 = Entry.dest0 /\ x.prev0 = Entry.prev0
      /\ x.reached = Entry.reached
  BY <1>1 DEF Entries
<1>5. p' = [p EXCEPT !.j = WithEntry(x), !.pc = l, !.i = i] /\ jr' = WithEntry(x)
  BY DEF recoverJournal
<1>6. /\ l \in PCs /\ i \in Nat /\ (p.i > 1 => l = "rec" /\ i = p.i - 1)
      /\ (~(p.i > 1) => l = "clean" /\ i = 1)
  BY <1>1 DEF PCs, Undoing, Slots
<1> HIDE DEF x, l, i
<1>7. /\ jr' \in Journals /\ jr'.run = jr.run /\ jr'.phase = jr.phase /\ jr'.e[p.i] = x
      /\ \A s \in Slots : s # p.i => jr'.e[s] = jr.e[s]
  BY <1>1, <1>3, <1>5, WithEntryEffect
<1>8. p' = [p EXCEPT !.j = jr', !.pc = l, !.i = i]
  BY <1>5
<1>9. p' \in Procs /\ p'.j = jr' /\ p'.pc = l /\ p'.i = i
  BY <1>1, <1>6, <1>7, <1>8 DEF Procs
<1>10. DataOK'
  BY <1>2 DEF IInv, TypeOK, DataOK
<1>11. ASSUME ~raced
       PROVE  /\ \A s \in Slots : SlotInv(s)'
              /\ \A s \in Slots : s >= p.i => ~Reached(jr'.e[s])
  <2>1. UndoInv /\ \A s \in Slots : SlotInv(s)
    BY <1>0, <1>1, <1>11, UndoneNow
  <2>2. \A s \in Slots : s # p.i => SlotInv(s)'
    BY <1>2, <1>7, <2>1, SlotSame
  <2>3. /\ Entry.seen /\ dest[p.i] = Entry.dest0
        /\ Entry.reached = "previous" => prev[p.i] = Entry.prev0
    BY <1>0, <1>1, <2>1 DEF UndoInv
  <2>4. /\ Entry.dest0 = before.dest[p.i] /\ Entry.prev0 = before.prev[p.i]
        /\ prev[p.i] = before.prev[p.i]
    BY <1>1, <2>1, <2>3 DEF SlotInv
  <2>5. \A s \in Slots : s = p.i => SlotInv(s)'
    BY <1>2, <1>3, <1>4, <1>7, <2>3, <2>4 DEF SlotInv, Reached
  <2>6. \A s \in Slots : s >= p.i => ~Reached(jr'.e[s])
    <3>1. \A s \in Slots : s > p.i => ~Reached(jr.e[s])
      BY <1>0, <2>1 DEF UndoInv
    <3>2. ~Reached(jr'.e[p.i])
      BY <1>3, <1>7 DEF Reached
    <3>3. \A s \in Slots : s >= p.i => s = p.i \/ (s > p.i /\ s # p.i)
      BY <1>1 DEF Slots
    <3> QED BY <1>7, <3>1, <3>2, <3>3
  <2> QED BY <2>2, <2>5, <2>6
<1> QED BY <1>0, <1>2, <1>6, <1>7, <1>9, <1>10, <1>11, RecoveryStep
\* A refresh by the gate: harmless between runs, noted as a race during one.
LEMMA GateRefreshKeeps ==
  ASSUME IInv, NEW g \in Slots, GateRefresh(g)
  PROVE  IInv'
<1>1. UNCHANGED <<jr, p, committed, runs, before, bk, bkp, source, sprev>>
  BY DEF GateRefresh
<1>2. DataOK'
  <2>1. dest' \in Items /\ prev' \in Items /\ row' \in Rows /\ next' \in Nat
    BY DEF GateRefresh, IInv, TypeOK, DataOK, Items, Rows
  <2>2. raced' \in BOOLEAN
    BY DEF GateRefresh
  <2> QED BY <2>1, <2>2 DEF GateRefresh, IInv, TypeOK, DataOK
<1>3. TypeOK'
  BY <1>1, <1>2 DEF IInv, TypeOK
<1>4. FreshInv' /\ JournalInv' /\ ControlInv'
  <2>1. Undone' <=> Undone
    BY <1>1 DEF Undone
  <2> QED BY <1>1, <2>1 DEF IInv, FreshInv, JournalInv, ControlInv, Blank
<1>5. ASSUME ~raced' PROVE p.pc = "idle" /\ ~Undone
  <2>1. ~Open
    BY <1>5 DEF GateRefresh
  <2> QED BY <2>1, ClassifyFacts DEF Open, IInv
<1>6. SlotsInv'
  <2> SUFFICES ASSUME ~raced' PROVE UndoneInv' /\ ForwardInv' /\ UndoInv'
    BY DEF SlotsInv
  <2>1. p'.pc = "idle" /\ ~Undone'
    BY <1>1, <1>5 DEF Undone
  <2> QED BY <2>1, QuietKept DEF UndoneInv
<1>7. EffInv'
  <2>1. ~raced' => p.pc # "commit"
    BY <1>5
  <2> QED BY <1>1, <2>1 DEF IInv, EffInv, OneLogin, assertOneLoginPerSlot
<1> QED BY <1>3, <1>4, <1>6, <1>7 DEF IInv

(* Claude Code and C-swap touch no item of QLB. *)
LEMMA OutsideKeeps ==
  ASSUME IInv, UNCHANGED <<Store, p, runs, staging, trouble>>,
         source' \in Items, sprev' \in Items, live' \in Logins, next' \in Nat,
         p.pc = "idle" \/ UNCHANGED <<source, sprev>>
  PROVE  IInv'
<1>1. TypeOK'
  BY DEF IInv, TypeOK, DataOK, Store
<1>2. FreshInv'
  BY DEF IInv, FreshInv, Store, Blank
<1>3. ControlInv'
  BY StoreSame DEF IInv, ControlInv, Store
<1>4. SlotsInv'
  <2> SUFFICES ASSUME ~raced' PROVE UndoneInv' /\ ForwardInv' /\ UndoInv'
    BY DEF SlotsInv
  <2>1. UndoneInv /\ ForwardInv /\ UndoInv
    BY DEF IInv, SlotsInv, Store
  <2>2. UndoneInv'
    BY <2>1, StoreSame DEF UndoneInv, Store
  <2>3. ForwardInv'
    BY <2>1 DEF ForwardInv, Store
  <2>4. UndoInv'
    BY <2>1 DEF UndoInv, Reached, Store
  <2> QED BY <2>2, <2>3, <2>4
<1>5. EffInv'
  <2>1. CASE p.pc = "idle"
    BY <2>1, QuietKept
  <2>2. CASE UNCHANGED <<source, sprev>>
    BY <2>2 DEF IInv, EffInv, OneLogin, assertOneLoginPerSlot, Store
  <2> QED BY <2>1, <2>2
<1> QED BY <1>1, <1>2, <1>3, <1>4, <1>5, StoreSame DEF IInv

\* C-swap rotates a login of its own.
LEMMA CswapRotateKeeps ==
  ASSUME IInv, NEW s \in Slots, CswapRotate(s)
  PROVE  IInv'
<1>1. source' \in Items /\ sprev' \in Items /\ next' \in Nat /\ live' \in Logins
  BY DEF CswapRotate, IInv, TypeOK, DataOK, Items
<1> QED BY <1>1, OutsideKeeps DEF CswapRotate, Store

\* Claude Code changes its login.
LEMMA NativeChangeKeeps ==
  ASSUME IInv, NativeChange
  PROVE  IInv'
<1>1. live' \in Logins /\ next' \in Nat
  <2>1. live \in Logins /\ next \in Nat /\ source \in Items /\ \A s \in Slots : s \in Nat
    BY DEF IInv, TypeOK, DataOK, Slots
  <2>2. CASE next' = next + 1 /\ live' = [live EXCEPT !.cred = next]
    BY <2>1, <2>2 DEF Logins
  <2>3. ASSUME NEW s \in Slots, next' = next,
               live' \in {[cred |-> source[s], at |-> s], [live EXCEPT !.cred = source[s]]}
        PROVE  live' \in Logins /\ next' \in Nat
    BY <2>1, <2>3 DEF Logins, Items
  <2> QED BY <2>2, <2>3 DEF NativeChange
<1>2. source' \in Items /\ sprev' \in Items
  BY DEF NativeChange, IInv, TypeOK, DataOK
<1> QED BY <1>1, <1>2, OutsideKeeps DEF NativeChange, Store

-----------------------------------------------------------------------------
\* The inductive invariant holds in every reachable state.
THEOREM ImportInvariant == Spec => []IInv
<1>1. Init => IInv
  <2> SUFFICES ASSUME Init PROVE IInv
    OBVIOUS
  <2>1. N \in Nat /\ Active \in Nat /\ \A s \in Slots : s \in Nat
    BY ImportAssumption DEF Slots
  <2>2. p.pc = "idle" /\ p \in Procs /\ jr = None
    BY IdleType DEF Init, Idle
  <2>3. DataOK
    <3>1. dest \in Items /\ prev \in Items /\ staging \in Items /\ bk \in Items /\ bkp \in Items /\ row \in Rows
      BY DEF Init, Items, Rows
    <3>2. source \in Items /\ sprev \in Items /\ live \in Logins
      BY <2>1 DEF Init, Items, Logins
    <3>3. before \in [dest : Items, prev : Items, row : Rows]
      BY <3>1 DEF Init
    <3>4. raced \in BOOLEAN
      BY DEF Init
    <3>5. committed \in SUBSET Nat /\ runs \in Nat /\ trouble \in Nat /\ next \in Nat
      BY <2>1 DEF Init
    <3> QED BY <3>1, <3>2, <3>3, <3>4, <3>5 DEF DataOK
  <2>4. FreshInv /\ JournalInv
    BY <2>2 DEF Init, FreshInv, JournalInv
  <2>5. ControlInv /\ SlotsInv /\ EffInv
    BY <2>2 DEF ControlInv, SlotsInv, UndoneInv, ForwardInv, UndoInv, EffInv, Undone,
       Registering, Forward,
                Slotwise, Undoing
  <2> QED BY <2>2, <2>3, <2>4, <2>5 DEF IInv, TypeOK
<1>2. IInv /\ [Next]_vars => IInv'
  <2> SUFFICES ASSUME IInv, [Next]_vars PROVE IInv'
    OBVIOUS
  <2>1. CASE UNCHANGED vars
    BY <2>1, OutsideKeeps DEF Store, IInv, TypeOK, DataOK
  <2>2. ASSUME NEW r \in BOOLEAN, importCswap(r) PROVE IInv'
    BY <2>2, importCswapKeeps
  <2>3. CASE mkdirJournal \/ createJournal \/ stage \/ liveEffectiveCredentials \/ promote
    BY <2>3, mkdirJournalKeeps, createJournalKeeps, stageKeeps, liveEffectiveCredentialsKeeps,
       promoteKeeps
  <2>4. CASE registerPreimage \/ savePreimage \/ savedPreimage \/ savePrevious \/ savedPrevious
    BY <2>4, registerPreimageKeeps, savePreimageKeeps, savedPreimageKeeps, savePreviousKeeps,
       savedPreviousKeeps
  <2>5. CASE reachDestination \/ writeDestination \/ reachPrevious \/ writePrevious \/ verify
    BY <2>5, reachDestinationKeeps, writeDestinationKeeps, reachPreviousKeeps,
       writePreviousKeeps, verifyKeeps
  <2>6. CASE commitCswapImport \/ journalCommitted \/ catchError \/ rollbackEffects \/ giveUp
    BY <2>6, commitCswapImportKeeps, journalCommittedKeeps, catchErrorKeeps,
       rollbackEffectsKeeps, giveUpKeeps
  <2>7. CASE cleanup \/ finish \/ Throw \/ Crash \/ reconcileCswapImportJournals \/ purgeStaged
    BY <2>7, cleanupKeeps, finishKeeps, ThrowKeeps, CrashKeeps, reconcileKeeps, purgeStagedKeeps
  <2>8. CASE recoverDestination \/ recoverPrevious \/ recoverJournal \/ NativeChange
    BY <2>8, recoverDestinationKeeps, recoverPreviousKeeps, recoverJournalKeeps, NativeChangeKeeps
  <2>9. ASSUME NEW s \in Slots, GateRefresh(s) \/ CswapRotate(s) PROVE IInv'
    BY <2>9, GateRefreshKeeps, CswapRotateKeeps
  <2> QED BY <2>1, <2>2, <2>3, <2>4, <2>5, <2>6, <2>7, <2>8, <2>9 DEF Next
<1> QED BY <1>1, <1>2, PTL DEF Spec

\* Types: the journal, the process and the stores keep their shape.
THEOREM TypeCorrect == Spec => []TypeOK
<1>1. IInv => TypeOK
  BY DEF IInv
<1> QED BY <1>1, ImportInvariant, PTL

\* Why the invariant makes a death at any moment recoverable.
LEMMA Recoverable == IInv => ImportRecoverable
<1> SUFFICES ASSUME IInv PROVE ImportRecoverable
  OBVIOUS
<1>1. PreimageKept
  <2> SUFFICES ASSUME jr # None, jr.phase \in {"promoting", "commit-unknown"}, jr.run \notin committed,
                      ~raced, NEW s \in Slots, jr.e[s].reached # "unreached", ~jr.e[s].restored
               PROVE  /\ before.dest[s] # 0 => bk[s] = before.dest[s] /\ jr.e[s].saved
                      /\ before.prev[s] # 0 => bkp[s] = before.prev[s] /\ jr.e[s].psaved
    BY DEF PreimageKept
  <2>1. SlotInv(s)
    BY DEF IInv, SlotsInv, UndoneInv, Undone
  <2> QED BY <2>1 DEF SlotInv, Reached
<1>2. StaysClassifiable
  <2> SUFFICES ASSUME classify = "unclassifiable", ~raced, jr.phase # "torn" PROVE FALSE
    BY DEF StaysClassifiable
  <2>1. /\ jr \in Journals /\ jr.run \notin committed /\ jr.phase \in {"promoting", "commit-unknown", "committed"}
        /\ jr.phase = "committed" \/ ~recoveryMatchesSlotState(jr)
    BY DEF classify, IInv, TypeOK, Journals, Phases
  <2>2. jr.phase # "committed"
    BY <2>1, NoneApart DEF IInv, JournalInv
  <2>3. BeforeInv /\ \A s \in Slots : SlotInv(s)
    BY <2>1, <2>2, NoneApart DEF IInv, SlotsInv, UndoneInv, Undone
  <2>4. recoveryMatchesSlotState(jr)
    BY <2>3 DEF recoveryMatchesSlotState, BeforeInv, SlotInv, Reached
  <2> QED BY <2>1, <2>2, <2>4
<1> QED BY <1>1, <1>2 DEF ImportRecoverable

\* ImportRecoverable for any number of slots, runs and troubles: until a run is committed
\* or has put a slot back, the preimages of what it may have overwritten are stored, and no
\* order of deaths and failures leaves a journal that recovery cannot classify.
THEOREM ImportRecoverableHolds == Spec => []ImportRecoverable
  BY Recoverable, ImportInvariant, PTL

\* Only the last step of a run journals `aborted`.
LEMMA AbortedByFinish ==
  ASSUME IInv, Next, jr' # jr, jr'.phase = "aborted"
  PROVE  finish
<1>1. ASSUME p.pc \notin {"idle", "mkdir", "create"}, NEW x, jr' = WithEntry(x)
      PROVE  FALSE
  <2>1. p.j = jr /\ jr \in Journals /\ jr.phase # "aborted"
    BY <1>1, Running DEF IInv
  <2>2. WithEntry(x).phase = jr.phase
    BY <2>1 DEF WithEntry, Journals
  <2> QED BY <1>1, <2>1, <2>2
<1>2. ASSUME p.pc # "idle", NEW ph, jr' = [p.j EXCEPT !.phase = ph], ph # "aborted"
      PROVE  FALSE
  <2>1. p.j \in Journals
    BY <1>2, Running DEF IInv, FreshInv, TypeOK, Procs
  <2> QED BY <1>2, <2>1 DEF Journals
<1>3. CASE mkdirJournal \/ promote
  BY <1>2, <1>3 DEF mkdirJournal, promote, Journal
<1>4. CASE createJournal
  BY <1>4 DEF createJournal, IInv, FreshInv
<1>5. CASE registerPreimage \/ savedPreimage \/ savedPrevious \/ reachDestination \/ reachPrevious
  BY <1>1, <1>5 DEF registerPreimage, savedPreimage, savedPrevious, reachDestination,
     reachPrevious, Journal
<1>6. CASE recoverJournal \/ rollbackEffects
  BY <1>1, <1>6 DEF recoverJournal, rollbackEffects
<1>7. CASE journalCommitted
  <2>1. PICK k : k = [p.j EXCEPT !.phase = "committed"] /\ p' = [p EXCEPT !.j = k, !.pc = "clean", !.i = 1]
    BY <1>7 DEF journalCommitted
  <2>2. p'.j = k
    BY <2>1 DEF IInv, TypeOK, Procs
  <2> QED BY <1>2, <1>7, <2>1, <2>2 DEF journalCommitted
<1>8. CASE catchError
  BY <1>2, <1>8 DEF catchError
<1>9. CASE giveUp
  BY <1>9, Running DEF giveUp, IInv
<1>10. \/ jr' = jr \/ finish \/ mkdirJournal \/ promote \/ createJournal
       \/ registerPreimage \/ savedPreimage \/ savedPrevious \/ reachDestination \/ reachPrevious
       \/ recoverJournal \/ rollbackEffects \/ journalCommitted \/ catchError \/ giveUp
  BY DEF Next, importCswap, stage, liveEffectiveCredentials, savePreimage, savePrevious,
         writeDestination, writePrevious, verify, commitCswapImport, cleanup, Throw, Crash,
         reconcileCswapImportJournals, purgeStaged, recoverDestination, recoverPrevious,
         GateRefresh, CswapRotate, NativeChange
<1> QED BY <1>3, <1>4, <1>5, <1>6, <1>7, <1>8, <1>9, <1>10

\* A run that ends aborted has put everything back.
LEMMA AbortStep ==
  ASSUME IInv, [Next]_vars, jr' # jr, jr' # None, jr'.phase = "aborted", ~raced
  PROVE  [dest |-> dest', prev |-> prev', row |-> row'] = before
<1>1. finish
  BY AbortedByFinish
<1>2. p.pc = "finish" /\ p.j = jr /\ jr \in Journals
  BY <1>1, Running DEF finish, IInv
<1>3. jr.run \notin committed
  BY <1>1, <1>2 DEF finish, Journals
<1>4. BeforeInv /\ UndoInv /\ \A s \in Slots : SlotInv(s)
  BY <1>2, <1>3, UndoneNow
<1>5. \A s \in Slots : dest[s] = before.dest[s] /\ prev[s] = before.prev[s]
  BY <1>2, <1>3, <1>4 DEF UndoInv, SlotInv
<1>6. /\ dest \in Items /\ prev \in Items
      /\ before \in [dest : Items, prev : Items, row : Rows] /\ before.dest \in Items /\ before.prev \in Items
  BY DEF IInv, TypeOK, DataOK
<1>7. dest = before.dest /\ prev = before.prev /\ row = before.row
  BY <1>4, <1>5, <1>6 DEF BeforeInv, Items
<1>8. UNCHANGED <<dest, prev, row>>
  BY <1>1 DEF finish
<1> QED BY <1>6, <1>7, <1>8

\* A run that becomes the authority names the items and the login in use.
LEMMA CommitStep ==
  ASSUME IInv, [Next]_vars, committed' # committed
  PROVE  /\ \A s \in Slots : (dest[s] = row'[s].fp \/ raced) /\ (s = Active => row'[s].fp = live.cred)
         /\ \A s, o \in Slots : s # o => row'[s].fp # row'[o].fp /\ row'[s].fp # row'[o].pfp
<1>1. commitCswapImport
  BY DEF Next, importCswap, mkdirJournal, createJournal, stage, liveEffectiveCredentials, promote,
         registerPreimage, savePreimage, savedPreimage, savePrevious, savedPrevious,
         reachDestination, writeDestination, reachPrevious, writePrevious, verify, journalCommitted,
         catchError, rollbackEffects, giveUp, cleanup, finish, Throw, Crash,
         reconcileCswapImportJournals, purgeStaged, recoverDestination, recoverPrevious,
         recoverJournal, GateRefresh, CswapRotate, NativeChange
<1>2. commitRows /\ p.pc = "commit" /\ (p.first = None \/ p.first = live)
  BY <1>1 DEF commitCswapImport
<1>3. /\ OneLogin(p.eff)
      /\ Active # 0 => p.first # None /\ p.eff[Active].cred = p.first.cred
      /\ ~raced => \A s \in Slots : dest[s] = p.eff[s].cred
  BY <1>2 DEF IInv, EffInv, Forward
<1>4. \A s \in Slots : row'[s].fp = p.eff[s].cred /\ row'[s].pfp = p.eff[s].prev
  BY <1>2 DEF commitRows
<1>5. \A s \in Slots : s = Active => Active # 0
  BY ImportAssumption DEF Slots
<1>6. \A s \in Slots : s = Active => row'[s].fp = live.cred
  BY <1>2, <1>3, <1>4, <1>5
<1> QED BY <1>3, <1>4, <1>6 DEF OneLogin

\* ImportOutcome for any number of slots, runs and troubles: an aborted run has put every
\* slot back, and a run becomes the authority only with rows that name their items, one
\* login per slot and the login Claude Code is using.
THEOREM ImportOutcomeHolds == Spec => ImportOutcome
<1>1. IInv /\ [Next]_vars =>
        [(jr' # jr /\ jr' # None /\ jr'.phase = "aborted" /\ ~raced)
           => [dest |-> dest', prev |-> prev', row |-> row'] = before]_vars
  BY AbortStep
<1>2. IInv /\ [Next]_vars =>
        [committed' # committed =>
           /\ \A s \in Slots : (dest[s] = row'[s].fp \/ raced) /\ (s = Active => row'[s].fp = live.cred)
           /\ \A s, o \in Slots : s # o => row'[s].fp # row'[o].fp /\ row'[s].fp # row'[o].pfp]_vars
  BY CommitStep
<1>3. Spec => AbortRestores
  BY <1>1, ImportInvariant, PTL DEF Spec, AbortRestores
<1>4. Spec => CommitIsCurrent
  BY <1>2, ImportInvariant, PTL DEF Spec, CommitIsCurrent
<1> QED BY <1>3, <1>4 DEF ImportOutcome
=============================================================================
