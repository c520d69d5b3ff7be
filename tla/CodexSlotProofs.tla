-------------------------- MODULE CodexSlotProofs --------------------------
(* Proofs about CodexSlot, for every number of processes, tokens, logins,   *)
(* faults, crashes and stalls.  The invariant comes in layers, each proved  *)
(* with the help of the ones before it.                                     *)
EXTENDS CodexSlot, TLAPS

-----------------------------------------------------------------------------
(* The invariant's layers *)

Transaction  == {"write", "commit", "save", "undo", "adopted", "imported"}
Attributing  == {"observe", "first", "second", "imported", "decide", "publish", "mark", "adopted"}
Looked       == Attributing \ {"observe"}
Answered     == {"got", "begin", "write", "commit", "save", "undo", "stash", "emergency", "unstash",
                 "cas", "rename", "verify"}
Renewing     == {"find", "post", "rejected", "refused"} \cup Answered
Consuming    == {"due", "read", "repair"} \cup Renewing
\* Where an answer is not yet settled.
Open         == {"got", "begin", "write", "commit", "save", "undo", "stash", "emergency"}
Settled      == {"unstash", "cas", "rename", "verify"}
MayAdopt     == {"begin", "write", "commit", "undo"} \cup Settled

\* Which kinds of operation are where, and what they know there.
Placed(p) ==
    /\ op[p].kind = "none" <=> op[p].pc = "idle"
    /\ op[p].kind = "import" => op[p].pc \in Attributing
    /\ op[p].kind = "refresh" => op[p].pc \in Consuming \ {"rename", "verify"}
    /\ op[p].pc = "imported" => op[p].kind = "import"
    /\ op[p].pc \in Consuming => op[p].phase = "pre"
    /\ op[p].adopting => op[p].pc \in MayAdopt \/ op[p].phase = "post"
    /\ op[p].pc \in Looked => op[p].seen # 0
    /\ op[p].pc \in {"decide", "publish", "mark", "adopted"} => op[p].row # 0
    /\ op[p].pc \in Renewing \cup {"repair"} => op[p].cur # 0
    /\ op[p].pc \in Answered => op[p].suc # 0
    /\ op[p].pc \in Transaction <=> db = p
    /\ op[p].kind \in {"refresh", "active"} => row.fp # 0
    /\ op[p].pc \in {"imported", "adopted"} => kc = op[p].seen
    /\ op[p].pc = "adopted" => op[p].old[1] # 0
TypeInv ==
    /\ TypeOK
    /\ active => row.fp # 0
    /\ kc = 0 => row.fp = 0
    /\ \A p \in Ops : Placed(p)

\* What was issued, and 0 for none.
Given == 0..issued
\* Nothing is known that was not issued; every rotation leads to a younger token and each token
\* comes from one rotation at most.
Ordered ==
    /\ valid \cup heads \cup arrived \subseteq Given \ {0}
    /\ {row.fp, kc, prev, live, codex} \subseteq Given
    /\ \A e \in grew : e[1] < e[2] /\ e[2] \in Given /\ e[1] \notin valid
    /\ \A e, f \in grew : e[2] = f[2] => e = f
    /\ \A x \in stash : <<x.from, x.to>> \in grew /\ x.to \in arrived /\ x.from \in heads
    /\ \A e \in edges : e[1] \in heads
    /\ row.fp # 0 => row.fp \in heads
    /\ row.fp = 0 => heads = {}
    /\ prev \in heads \cup arrived \cup {0}
    /\ live \in heads \cup {0} \/ (live \notin arrived /\ \A e \in grew : e[1] # live)
    /\ \A e \in grew : e[2] \in arrived => e[1] \in heads
\* What a process holds, and what it has found or left in the slot while it has the write lock.
Holds(p) ==
    /\ {op[p].seen, op[p].row, op[p].kc, op[p].cur, op[p].suc} \subseteq Given
    /\ op[p].pc \in Looked => op[p].seen \in heads \/ op[p].seen \notin arrived
    /\ op[p].pc \in {"decide", "publish", "mark", "adopted"} => op[p].row \in heads
    /\ op[p].kind = "import" /\ op[p].pc = "second" => op[p].row \in heads \cup {0}
    /\ op[p].pc \in Renewing => op[p].cur \in heads
    /\ op[p].pc \in Answered => <<op[p].cur, op[p].suc>> \in grew /\ op[p].suc \in arrived
    /\ op[p].pc \in Settled => op[p].suc \in heads
    /\ op[p].pc \in {"rejected", "refused"} => op[p].cur \notin valid
    /\ op[p].pc = "adopted" =>
         /\ row.fp = op[p].row /\ op[p].row # op[p].seen
         /\ op[p].seen \notin heads
         /\ op[p].old[1] \in Given /\ op[p].old[2] \in heads \cup arrived \cup {0}
         /\ prev = IF op[p].old[1] = op[p].row THEN op[p].row ELSE op[p].old[2]
    /\ op[p].pc \in {"write", "commit", "save", "undo"} => row.fp = op[p].cur
    /\ op[p].pc = "commit" => kc = op[p].suc /\ prev = op[p].cur
\* Every former head leads to the row's by recorded steps.
Lineage == \A h \in heads : h = row.fp \/ Reaches(edges, h, row.fp)
ShapeInv == Ordered /\ Lineage /\ \A p \in Ops : Holds(p)

\* The layer of SlotKept's first two parts.
HeadInv == skew \/ row.fp \notin valid \ gone \/ row.fp \in {kc, prev}
InHand(p) == op[p].pc \in InMemory \cup {"commit"} /\ ~op[p].adopting
KeptInv ==
    torn \/ \A s \in arrived : \/ s \in heads \cup gone
                               \/ \E x \in stash : x.to = s
                               \/ \E p \in Ops : InHand(p) /\ op[p].suc = s
KeepInv == HeadInv /\ KeptInv

\* While no holder stalled and no process died between a write and its commit.
Held(p) ==
    /\ op[p].kind \in {"refresh", "active"} => sw = p
    /\ op[p].kind \in {"active", "import"} => auth = p
    /\ op[p].kind = "import" /\ (op[p].pc = "imported" \/ (op[p].pc = "second" /\ op[p].row = 0)) => row.fp = 0
HeldInv == used.stall = 0 => \A p \in Ops : Held(p)

Clean == ~torn /\ used.stall = 0
Tidy == kc = row.fp \/ \E q \in Ops : op[q].pc = "adopted" /\ op[q].old[1] = row.fp
-----------------------------------------------------------------------------
(* The first layer: the types, and which operation may be where *)

USE DEF Goto, Finish, FinishTx, Release, CanFail, Fail, LostOrFailed, assertHeld, writeSlot,
        stashUnclaimedDurably, stashSuccessorEmergency, findStashedSuccessor,
        removeStashedSuccessor, recordTransition, CanMark, markCodexSlotImportedActive,
        adoptCodexSlotWithKeychain, CanRepairSlot, repairCodexSlotKeychain, Again, Rotate,
        slotVars, liveVars, locks, provider, history

\* Tokens are opaque below: 0 is none, the others are issued.
LEMMA TokFacts == 0 \in Tok0 /\ 0 \notin Tok /\ Tok \subseteq Tok0 /\ \A t \in Tok0 : t # 0 => t \in Tok
  BY BoundsAssumption DEF Tok, Tok0
LEMMA IdleType == Idle \in OpRec
  BY TokFacts DEF Idle, OpRec, PCs
LEMMA Types ==
  ASSUME TypeOK
  PROVE  /\ row.fp \in Tok0 /\ kc \in Tok0 /\ prev \in Tok0 /\ live \in Tok0 /\ issued \in Tok0
         /\ \A x \in stash : x.from \in Tok0 /\ x.to \in Tok0 /\ x.from # 0 /\ x.to # 0
         /\ \A p \in Ops : op[p] \in OpRec
  BY TokFacts DEF TypeOK, Row, Stash
LEMMA KindOf == ASSUME TypeOK, NEW p \in Ops PROVE op[p].kind \in {"none", "refresh", "active", "import"}
  BY DEF TypeOK, OpRec
LEMMA Begun ==
  ASSUME NEW k \in {"refresh", "active", "import"}, NEW c \in PCs
  PROVE  [Idle EXCEPT !.kind = k, !.pc = c] \in OpRec
  BY IdleType DEF OpRec
\* A step of p alone.
LEMMA Alone ==
  ASSUME TypeOK, NEW p \in Ops, op' = [op EXCEPT ![p] = op'[p]], op'[p] \in OpRec
  PROVE  op' \in [Ops -> OpRec] /\ \A q \in Ops \ {p} : op'[q] = op[q]
  BY DEF TypeOK

\* What a step leaves alone, and the effects that several branches share.
KeepMode(r, s)   == r.kind = s.kind /\ r.adopting = s.adopting /\ r.wrote = s.wrote /\ r.pinned = s.pinned
                    /\ r.phase = s.phase
KeepTokens(r, s) == r.seen = s.seen /\ r.row = s.row /\ r.kc = s.kc /\ r.cur = s.cur /\ r.suc = s.suc
                    /\ r.old = s.old
SlotSame     == row' = row /\ kc' = kc /\ prev' = prev /\ edges' = edges /\ stash' = stash
LiveSame     == live' = live /\ active' = active
LocksSame    == db' = db /\ sw' = sw /\ auth' = auth
ProviderSame == valid' = valid /\ issued' = issued /\ grew' = grew
PastSame     == arrived' = arrived /\ gone' = gone /\ heads' = heads /\ torn' = torn /\ skew' = skew /\ late' = late
Freed(p)     == sw' = (IF sw = p THEN None ELSE sw) /\ auth' = (IF auth = p THEN None ELSE auth)
HalfWritten(p) ==
    \/ prev' = prev /\ kc' = kc
    \/ prev' = op[p].cur /\ kc' = kc
    \/ prev' = op[p].cur /\ kc' = op[p].suc
Committed(p) ==
    /\ row'.fp = op[p].suc /\ row'.dead = FALSE /\ edges' = edges \cup {<<op[p].cur, op[p].suc>>}
    /\ heads' = heads \cup {op[p].suc} /\ db' = None /\ sw' = sw /\ auth' = auth
Uncommitted == row' = row /\ edges' = edges /\ heads' = heads /\ LocksSame
USE DEF KeepMode, KeepTokens, SlotSame, LiveSame, LocksSame, ProviderSame, PastSame, Freed, HalfWritten,
        Committed, Uncommitted

\* A process that returned is nowhere.
LEMMA IdlePlaced ==
  ASSUME NEW p \in Ops, op'[p] = Idle, db' # p
  PROVE  Placed(p)'
  BY DEF Placed, Idle, Attributing, Looked, Consuming, Renewing, Answered, Transaction, Settled, MayAdopt

\* A step that leaves the slot and the tokens alone.
LEMMA SameType ==
  ASSUME TypeInv, op' \in [Ops -> OpRec], SlotSame, codex' = codex, ProviderSame, PastSame, used' \in Bounds,
         {db', sw', auth'} \subseteq Ops \cup {None}, live' \in Tok0, active' = active
  PROVE  TypeOK' /\ (active' => row'.fp # 0) /\ (kc' = 0 => row'.fp = 0)
  BY DEF TypeInv, TypeOK
\* What a process knows where it is.
LEMMA OpToks ==
  ASSUME TypeInv, NEW p \in Ops
  PROVE  /\ {op[p].seen, op[p].row, op[p].kc, op[p].cur, op[p].suc} \subseteq Tok0
         /\ op[p].old[1] \in Tok0 /\ op[p].old[2] \in Tok0
         /\ op[p].pc \in Looked => op[p].seen \in Tok
         /\ op[p].pc \in {"decide", "publish", "mark", "adopted"} => op[p].row \in Tok
         /\ op[p].pc \in Renewing \cup {"repair"} => op[p].cur \in Tok
         /\ op[p].pc \in Answered => op[p].suc \in Tok
         /\ op[p].pc \in Consuming => row.fp \in Tok
<1>1. op[p] \in OpRec /\ row.fp \in Tok0 /\ \A t \in Tok0 : t # 0 => t \in Tok
  BY TokFacts, Types DEF TypeInv
<1>2. {op[p].seen, op[p].row, op[p].kc, op[p].cur, op[p].suc} \subseteq Tok0 /\ op[p].old \in Tok0 \X Tok0
  BY <1>1 DEF OpRec
<1>3. op[p].pc \in Consuming => row.fp # 0
  BY KindOf DEF TypeInv, Placed, Attributing, Looked, Consuming, Renewing, Answered
<1>4. Placed(p)
  BY DEF TypeInv
<1> QED BY <1>1, <1>2, <1>3, <1>4 DEF Placed
\* A step of p leaves the others where they may be.
LEMMA OthersPlaced ==
  ASSUME TypeInv, NEW p \in Ops, \A q \in Ops \ {p} : op'[q] = op[q], row.fp # 0 => row'.fp # 0,
         db' = db \/ (db' \in {None, p} /\ db \in {None, p}), kc' = kc \/ db \in {None, p}
  PROVE  \A q \in Ops \ {p} : Placed(q)'
<1> SUFFICES ASSUME NEW q \in Ops \ {p} PROVE Placed(q)'
  OBVIOUS
<1>1. op'[q] = op[q] /\ Placed(q) /\ (db' = q <=> db = q) /\ (db = q => kc' = kc)
  BY OpsAssumption DEF TypeInv
<1>2. op[q].pc \in {"imported", "adopted"} => kc' = kc
  BY <1>1 DEF Placed, Transaction
<1>3. op[q].kind \in {"refresh", "active"} => row'.fp # 0
  BY <1>1 DEF Placed
<1> QED BY <1>1, <1>2, <1>3 DEF Placed

StartStep(p) ==
    /\ op[p].pc = "idle"
    /\ \/ /\ op'[p].kind = "refresh" /\ op'[p].pc = "read" /\ ~op'[p].adopting
          /\ op'[p].phase = "pre" /\ op'[p].seen = 0 /\ op'[p].row = 0 /\ op'[p].kc = 0
          /\ op'[p].cur = 0 /\ op'[p].suc = 0 /\ row.fp # 0 /\ ~active /\ sw = None /\ sw' = p
          /\ auth' = auth /\ db' = db
       \/ /\ op'[p].kind = "active" /\ op'[p].pc = "observe" /\ ~op'[p].adopting
          /\ op'[p].phase = "pre" /\ op'[p].seen = 0 /\ op'[p].row = 0 /\ op'[p].kc = 0
          /\ op'[p].cur = 0 /\ op'[p].suc = 0 /\ active /\ sw = None /\ auth = None /\ sw' = p
          /\ auth' = p /\ db' = db
       \/ /\ op'[p].kind = "import" /\ op'[p].pc = "observe" /\ ~op'[p].adopting
          /\ op'[p].phase = "pre" /\ op'[p].seen = 0 /\ op'[p].row = 0 /\ op'[p].kc = 0
          /\ op'[p].cur = 0 /\ op'[p].suc = 0 /\ auth = None /\ sw' = sw /\ auth' = p /\ db' = db
    /\ SlotSame /\ LiveSame /\ codex' = codex /\ ProviderSame /\ PastSame
    /\ used'.stall = used.stall
    /\ op' \in [Ops -> OpRec] /\ \A q \in Ops \ {p} : op'[q] = op[q]
LEMMA StartDoes == ASSUME TypeOK, NEW p \in Ops, Start(p) PROVE StartStep(p)
<1>1. \/ /\ op'[p] = [Idle EXCEPT !.kind = "refresh", !.pc = "read"] /\ row.fp # 0 /\ ~active
         /\ sw = None /\ sw' = p /\ auth' = auth /\ db' = db
      \/ /\ op'[p] = [Idle EXCEPT !.kind = "active", !.pc = "observe"] /\ active /\ sw = None
         /\ auth = None /\ sw' = p /\ auth' = p /\ db' = db
      \/ /\ op'[p] = [Idle EXCEPT !.kind = "import", !.pc = "observe"] /\ auth = None /\ sw' = sw
         /\ auth' = p /\ db' = db
  BY Types DEF Start, StartRefresh, StartActive, StartImport, TypeOK, Row
<1>2. op'[p] \in OpRec
  BY <1>1, Begun DEF PCs
<1>3. op' = [op EXCEPT ![p] = op'[p]]
  BY DEF Start, StartRefresh, StartActive, StartImport, TypeOK
<1>4. /\ op[p].pc = "idle" /\ SlotSame /\ LiveSame /\ codex' = codex /\ ProviderSame /\ PastSame
      /\ used'.stall = used.stall
  BY Types DEF Start, StartRefresh, StartActive, StartImport, TypeOK, Row, Bounds
<1>5. \/ /\ op'[p].kind = "refresh" /\ op'[p].pc = "read" /\ ~op'[p].adopting
         /\ op'[p].phase = "pre" /\ op'[p].seen = 0 /\ op'[p].row = 0 /\ op'[p].kc = 0
         /\ op'[p].cur = 0 /\ op'[p].suc = 0 /\ row.fp # 0 /\ ~active /\ sw = None /\ sw' = p
         /\ auth' = auth /\ db' = db
      \/ /\ op'[p].kind = "active" /\ op'[p].pc = "observe" /\ ~op'[p].adopting
         /\ op'[p].phase = "pre" /\ op'[p].seen = 0 /\ op'[p].row = 0 /\ op'[p].kc = 0
         /\ op'[p].cur = 0 /\ op'[p].suc = 0 /\ active /\ sw = None /\ auth = None /\ sw' = p
         /\ auth' = p /\ db' = db
      \/ /\ op'[p].kind = "import" /\ op'[p].pc = "observe" /\ ~op'[p].adopting
         /\ op'[p].phase = "pre" /\ op'[p].seen = 0 /\ op'[p].row = 0 /\ op'[p].kc = 0
         /\ op'[p].cur = 0 /\ op'[p].suc = 0 /\ auth = None /\ sw' = sw /\ auth' = p /\ db' = db
  BY <1>1, Types DEF OpRec, Idle
<1> QED BY <1>2, <1>3, <1>4, <1>5, Alone DEF StartStep

ObserveLiveStep(p) ==
    /\ op[p].pc = "observe"
    /\ \/ /\ op'[p] = Idle /\ Freed(p) /\ db' = db /\ (active' => active)
       \/ /\ op'[p].pc = "first" /\ op'[p].seen = live /\ KeepMode(op'[p], op[p])
          /\ op'[p].row = op[p].row /\ op'[p].kc = op[p].kc /\ op'[p].cur = op[p].cur
          /\ op'[p].suc = op[p].suc /\ op'[p].old = op[p].old /\ live # 0 /\ LocksSame
          /\ active' = active
    /\ SlotSame /\ live' = live /\ codex' = codex /\ ProviderSame /\ PastSame
    /\ used'.stall = used.stall
    /\ op' \in [Ops -> OpRec] /\ \A q \in Ops \ {p} : op'[q] = op[q]
LEMMA ObserveLiveDoes == ASSUME TypeOK, NEW p \in Ops, ObserveLive(p) PROVE ObserveLiveStep(p)
<1>1. \/ /\ op'[p] = Idle /\ Freed(p) /\ db' = db /\ (active' => active)
      \/ /\ op'[p] = [op[p] EXCEPT !.pc = "first", !.seen = live] /\ live # 0 /\ LocksSame
         /\ active' = active
  BY Types DEF ObserveLive, TypeOK, Row
<1>2. op'[p] \in OpRec
  <2>1. {"first"} \subseteq PCs
    BY DEF PCs
  <2>2. [op[p] EXCEPT !.pc = "first", !.seen = live] \in OpRec
    BY <2>1, Types DEF OpRec
  <2> QED BY <1>1, <2>2, IdleType
<1>3. op' = [op EXCEPT ![p] = op'[p]]
  BY DEF ObserveLive, TypeOK
<1>4. /\ op[p].pc = "observe" /\ SlotSame /\ live' = live /\ codex' = codex /\ ProviderSame
      /\ PastSame
      /\ used'.stall = used.stall
  BY Types DEF ObserveLive, TypeOK, Row, Bounds
<1> QED BY <1>1, <1>2, <1>3, <1>4, Types, Alone DEF ObserveLiveStep, OpRec

ReadFirstStep(p) ==
    /\ op[p].pc = "first"
    /\ \/ /\ op'[p].pc = "second" /\ op'[p].row = row.fp /\ KeepMode(op'[p], op[p])
          /\ op'[p].seen = op[p].seen /\ op'[p].kc = op[p].kc /\ op'[p].cur = op[p].cur
          /\ op'[p].suc = op[p].suc /\ op'[p].old = op[p].old /\ op[p].kind = "import"
       \/ /\ op'[p].pc = "second" /\ op'[p].kc = kc /\ KeepMode(op'[p], op[p])
          /\ op'[p].seen = op[p].seen /\ op'[p].row = op[p].row /\ op'[p].cur = op[p].cur
          /\ op'[p].suc = op[p].suc /\ op'[p].old = op[p].old /\ op[p].kind # "import"
    /\ LocksSame /\ SlotSame /\ LiveSame /\ codex' = codex /\ ProviderSame /\ PastSame
    /\ used'.stall = used.stall
    /\ op' \in [Ops -> OpRec] /\ \A q \in Ops \ {p} : op'[q] = op[q]
LEMMA ReadFirstDoes == ASSUME TypeOK, NEW p \in Ops, ReadFirst(p) PROVE ReadFirstStep(p)
<1>1. \/ /\ op'[p] = [op[p] EXCEPT !.pc = "second", !.row = row.fp] /\ op[p].kind = "import"
      \/ /\ op'[p] = [op[p] EXCEPT !.pc = "second", !.kc = kc] /\ op[p].kind # "import"
  BY Types DEF ReadFirst, TypeOK, Row
<1>2. op'[p] \in OpRec
  <2>1. {"second"} \subseteq PCs
    BY DEF PCs
  <2>2. [op[p] EXCEPT !.pc = "second", !.row = row.fp] \in OpRec
    BY <2>1, Types DEF OpRec
  <2>3. [op[p] EXCEPT !.pc = "second", !.kc = kc] \in OpRec
    BY <2>1, Types DEF OpRec
  <2> QED BY <1>1, <2>2, <2>3
<1>3. op' = [op EXCEPT ![p] = op'[p]]
  BY DEF ReadFirst, TypeOK
<1>4. /\ op[p].pc = "first" /\ LocksSame /\ SlotSame /\ LiveSame /\ codex' = codex /\ ProviderSame
      /\ PastSame
      /\ used'.stall = used.stall
  BY Types DEF ReadFirst, TypeOK, Row, Bounds
<1> QED BY <1>1, <1>2, <1>3, <1>4, Types, Alone DEF ReadFirstStep, OpRec

ReadSecondStep(p) ==
    /\ op[p].pc = "second"
    /\ \/ /\ op'[p].pc = "decide" /\ op'[p].kc = kc /\ KeepMode(op'[p], op[p])
          /\ op'[p].seen = op[p].seen /\ op'[p].row = op[p].row /\ op'[p].cur = op[p].cur
          /\ op'[p].suc = op[p].suc /\ op'[p].old = op[p].old /\ op[p].kind = "import"
          /\ op[p].row # 0
       \/ /\ op'[p].pc = "decide" /\ op'[p].row = row.fp /\ KeepMode(op'[p], op[p])
          /\ op'[p].seen = op[p].seen /\ op'[p].kc = op[p].kc /\ op'[p].cur = op[p].cur
          /\ op'[p].suc = op[p].suc /\ op'[p].old = op[p].old /\ op[p].kind # "import"
    /\ LocksSame /\ SlotSame /\ LiveSame /\ codex' = codex /\ ProviderSame /\ PastSame
    /\ used'.stall = used.stall
    /\ op' \in [Ops -> OpRec] /\ \A q \in Ops \ {p} : op'[q] = op[q]
LEMMA ReadSecondDoes == ASSUME TypeOK, NEW p \in Ops, ReadSecond(p) PROVE ReadSecondStep(p)
<1>1. \/ /\ op'[p] = [op[p] EXCEPT !.pc = "decide", !.kc = kc] /\ op[p].kind = "import"
         /\ op[p].row # 0
      \/ /\ op'[p] = [op[p] EXCEPT !.pc = "decide", !.row = row.fp] /\ op[p].kind # "import"
  BY Types DEF ReadSecond, TypeOK, Row
<1>2. op'[p] \in OpRec
  <2>1. {"decide"} \subseteq PCs
    BY DEF PCs
  <2>2. [op[p] EXCEPT !.pc = "decide", !.kc = kc] \in OpRec
    BY <2>1, Types DEF OpRec
  <2>3. [op[p] EXCEPT !.pc = "decide", !.row = row.fp] \in OpRec
    BY <2>1, Types DEF OpRec
  <2> QED BY <1>1, <2>2, <2>3
<1>3. op' = [op EXCEPT ![p] = op'[p]]
  BY DEF ReadSecond, TypeOK
<1>4. /\ op[p].pc = "second" /\ LocksSame /\ SlotSame /\ LiveSame /\ codex' = codex
      /\ ProviderSame /\ PastSame
      /\ used'.stall = used.stall
  BY Types DEF ReadSecond, TypeOK, Row, Bounds
<1> QED BY <1>1, <1>2, <1>3, <1>4, Types, Alone DEF ReadSecondStep, OpRec

ImportNewStep(p) ==
    /\ op[p].pc = "second" /\ op[p].kind = "import" /\ op[p].row = 0 /\ db = None
    /\ \/ /\ op'[p].pc = "imported" /\ KeepMode(op'[p], op[p]) /\ KeepTokens(op'[p], op[p])
          /\ assertHeld(p) /\ kc' = op[p].seen /\ db' = p /\ sw' = sw /\ auth' = auth
          /\ prev' = (IF row.fp \notin {0, op[p].seen} /\ kc = row.fp THEN kc ELSE prev)
          /\ late' = (late \/ row.fp \notin {0, op[p].seen})
       \/ /\ op'[p] = Idle /\ Freed(p) /\ db' = db /\ kc' = kc /\ prev' = prev /\ late' = late
    /\ row' = row /\ edges' = edges /\ stash' = stash /\ LiveSame /\ codex' = codex
    /\ ProviderSame /\ arrived' = arrived /\ gone' = gone /\ heads' = heads /\ torn' = torn
    /\ skew' = skew
    /\ used'.stall = used.stall
    /\ op' \in [Ops -> OpRec] /\ \A q \in Ops \ {p} : op'[q] = op[q]
LEMMA ImportNewDoes == ASSUME TypeOK, NEW p \in Ops, ImportNew(p) PROVE ImportNewStep(p)
<1>1. \/ /\ op'[p] = [op[p] EXCEPT !.pc = "imported"] /\ assertHeld(p) /\ kc' = op[p].seen
         /\ db' = p /\ sw' = sw /\ auth' = auth
         /\ prev' = (IF row.fp \notin {0, op[p].seen} /\ kc = row.fp THEN kc ELSE prev)
         /\ late' = (late \/ row.fp \notin {0, op[p].seen})
      \/ /\ op'[p] = Idle /\ Freed(p) /\ db' = db /\ kc' = kc /\ prev' = prev /\ late' = late
  BY Types DEF ImportNew, TypeOK, Row
<1>2. op'[p] \in OpRec
  <2>1. {"imported"} \subseteq PCs
    BY DEF PCs
  <2>2. [op[p] EXCEPT !.pc = "imported"] \in OpRec
    BY <2>1, Types DEF OpRec
  <2> QED BY <1>1, <2>2, IdleType
<1>3. op' = [op EXCEPT ![p] = op'[p]]
  BY DEF ImportNew, TypeOK
<1>4. /\ op[p].pc = "second" /\ op[p].kind = "import" /\ op[p].row = 0 /\ db = None /\ row' = row
      /\ edges' = edges /\ stash' = stash /\ LiveSame /\ codex' = codex /\ ProviderSame
      /\ arrived' = arrived /\ gone' = gone /\ heads' = heads /\ torn' = torn /\ skew' = skew
      /\ used'.stall = used.stall
  BY Types DEF ImportNew, TypeOK, Row, Bounds
<1> QED BY <1>1, <1>2, <1>3, <1>4, Types, Alone DEF ImportNewStep, OpRec

ImportCommitStep(p) ==
    /\ op[p].pc = "imported" /\ op'[p] = Idle /\ Freed(p) /\ db' = None
    /\ \/ /\ row'.fp = op[p].seen /\ row'.dead = (row.dead /\ row.fp = op[p].seen)
          /\ edges' = (IF row.fp \notin {0, op[p].seen} THEN edges \cup {<<row.fp, op[p].seen>>} ELSE edges)
          /\ active' = TRUE /\ heads' = heads \cup {op[p].seen}
       \/ /\ row' = row /\ edges' = edges /\ active' = active /\ heads' = heads
    /\ kc' = kc /\ prev' = prev /\ stash' = stash /\ live' = live /\ codex' = codex
    /\ ProviderSame /\ arrived' = arrived /\ gone' = gone /\ torn' = torn /\ skew' = skew
    /\ late' = late
    /\ used'.stall = used.stall
    /\ op' \in [Ops -> OpRec] /\ \A q \in Ops \ {p} : op'[q] = op[q]
LEMMA ImportCommitDoes == ASSUME TypeOK, NEW p \in Ops, ImportCommit(p) PROVE ImportCommitStep(p)
<1>1. op'[p] = Idle
  BY DEF ImportCommit, TypeOK
<1>2. op'[p] \in OpRec
  BY <1>1, IdleType
<1>3. op' = [op EXCEPT ![p] = op'[p]]
  BY DEF ImportCommit, TypeOK
<1>4. /\ op[p].pc = "imported" /\ op'[p] = Idle /\ Freed(p) /\ db' = None
      /\ \/ /\ row'.fp = op[p].seen /\ row'.dead = (row.dead /\ row.fp = op[p].seen)
            /\ edges' = (IF row.fp \notin {0, op[p].seen} THEN edges \cup {<<row.fp, op[p].seen>>} ELSE edges)
            /\ active' = TRUE /\ heads' = heads \cup {op[p].seen}
         \/ /\ row' = row /\ edges' = edges /\ active' = active /\ heads' = heads
      /\ kc' = kc /\ prev' = prev /\ stash' = stash /\ live' = live /\ codex' = codex
      /\ ProviderSame /\ arrived' = arrived /\ gone' = gone /\ torn' = torn /\ skew' = skew
      /\ late' = late
  BY TokFacts, Types DEF ImportCommit, Idle, OpRec, TypeOK, Row
<1>5. used'.stall = used.stall
  BY DEF ImportCommit, TypeOK, Bounds
<1> QED BY <1>2, <1>3, <1>4, <1>5, Alone DEF ImportCommitStep

RepairSplitStep(p) ==
    /\ op[p].pc = "decide" /\ op[p].kc # op[p].row /\ db = None
    /\ \/ /\ op'[p].row = row.fp /\ op'[p].kc = row.fp /\ op'[p].pinned = TRUE
          /\ op'[p].pc = op[p].pc /\ op'[p].kind = op[p].kind /\ op'[p].adopting = op[p].adopting
          /\ op'[p].wrote = op[p].wrote /\ op'[p].phase = op[p].phase /\ op'[p].seen = op[p].seen
          /\ op'[p].cur = op[p].cur /\ op'[p].suc = op[p].suc /\ op'[p].old = op[p].old
          /\ assertHeld(p) /\ row.fp # 0 /\ row.fp \in {op[p].seen, prev} /\ kc' = row.fp
          /\ LocksSame
       \/ /\ op'[p] = Idle /\ Freed(p) /\ db' = db /\ kc' = kc
    /\ row' = row /\ prev' = prev /\ edges' = edges /\ stash' = stash /\ LiveSame
    /\ codex' = codex /\ ProviderSame /\ PastSame
    /\ used'.stall = used.stall
    /\ op' \in [Ops -> OpRec] /\ \A q \in Ops \ {p} : op'[q] = op[q]
LEMMA RepairSplitDoes == ASSUME TypeOK, NEW p \in Ops, RepairSplit(p) PROVE RepairSplitStep(p)
<1>1. \/ /\ op'[p] = [op[p] EXCEPT !.row = row.fp, !.kc = row.fp, !.pinned = TRUE]
         /\ assertHeld(p) /\ row.fp # 0 /\ row.fp \in {op[p].seen, prev} /\ kc' = row.fp
         /\ LocksSame
      \/ /\ op'[p] = Idle /\ Freed(p) /\ db' = db /\ kc' = kc
  BY Types DEF RepairSplit, TypeOK, Row
<1>2. op'[p] \in OpRec
  <2>2. [op[p] EXCEPT !.row = row.fp, !.kc = row.fp, !.pinned = TRUE] \in OpRec
    BY Types DEF OpRec
  <2> QED BY <1>1, <2>2, IdleType
<1>3. op' = [op EXCEPT ![p] = op'[p]]
  BY DEF RepairSplit, TypeOK
<1>4. /\ op[p].pc = "decide" /\ op[p].kc # op[p].row /\ db = None /\ row' = row /\ prev' = prev
      /\ edges' = edges /\ stash' = stash /\ LiveSame /\ codex' = codex /\ ProviderSame
      /\ PastSame
      /\ used'.stall = used.stall
  BY Types DEF RepairSplit, TypeOK, Row, Bounds
<1>5. \/ /\ op'[p].row = row.fp /\ op'[p].kc = row.fp /\ op'[p].pinned = TRUE
         /\ op'[p].pc = op[p].pc /\ op'[p].kind = op[p].kind /\ op'[p].adopting = op[p].adopting
         /\ op'[p].wrote = op[p].wrote /\ op'[p].phase = op[p].phase /\ op'[p].seen = op[p].seen
         /\ op'[p].cur = op[p].cur /\ op'[p].suc = op[p].suc /\ op'[p].old = op[p].old
         /\ assertHeld(p) /\ row.fp # 0 /\ row.fp \in {op[p].seen, prev} /\ kc' = row.fp
         /\ LocksSame
      \/ /\ op'[p] = Idle /\ Freed(p) /\ db' = db /\ kc' = kc
  BY <1>1, Types DEF OpRec
<1> QED BY <1>2, <1>3, <1>4, <1>5, Alone DEF RepairSplitStep

NoopStep(p) ==
    /\ op[p].pc = "decide" /\ op[p].kc = op[p].row /\ op[p].row = op[p].seen
    /\ op'[p].pc = "mark" /\ KeepMode(op'[p], op[p]) /\ KeepTokens(op'[p], op[p])
    /\ LocksSame /\ SlotSame /\ LiveSame /\ codex' = codex /\ ProviderSame /\ PastSame
    /\ used'.stall = used.stall
    /\ op' \in [Ops -> OpRec] /\ \A q \in Ops \ {p} : op'[q] = op[q]
LEMMA NoopDoes == ASSUME TypeOK, NEW p \in Ops, Noop(p) PROVE NoopStep(p)
<1>1. op'[p] = [op[p] EXCEPT !.pc = "mark"]
  BY DEF Noop, TypeOK
<1>2. op'[p] \in OpRec
  <2>1. {"mark"} \subseteq PCs
    BY DEF PCs
  <2>2. [op[p] EXCEPT !.pc = "mark"] \in OpRec
    BY <2>1, Types DEF OpRec
  <2> QED BY <1>1, <2>2
<1>3. op' = [op EXCEPT ![p] = op'[p]]
  BY DEF Noop, TypeOK
<1>4. /\ op[p].pc = "decide" /\ op[p].kc = op[p].row /\ op[p].row = op[p].seen
      /\ op'[p].pc = "mark" /\ KeepMode(op'[p], op[p]) /\ KeepTokens(op'[p], op[p])
      /\ LocksSame /\ SlotSame /\ LiveSame /\ codex' = codex /\ ProviderSame /\ PastSame
  BY TokFacts, Types DEF Noop, Idle, OpRec, TypeOK, Row
<1>5. used'.stall = used.stall
  BY DEF Noop, TypeOK, Bounds
<1> QED BY <1>2, <1>3, <1>4, <1>5, Alone DEF NoopStep

RepublishStep(p) ==
    /\ op[p].pc = "decide" /\ op[p].row # op[p].seen
    /\ \/ /\ op'[p] = Idle /\ Freed(p) /\ db' = db
       \/ /\ op'[p].pc = "observe" /\ KeepMode(op'[p], op[p]) /\ KeepTokens(op'[p], op[p])
          /\ op[p].kind = "active" /\ op[p].phase = "pre" /\ LocksSame
       \/ /\ op'[p].pc = "publish" /\ KeepMode(op'[p], op[p]) /\ KeepTokens(op'[p], op[p])
          /\ op[p].phase = "pre" /\ LocksSame
    /\ SlotSame /\ LiveSame /\ codex' = codex /\ ProviderSame /\ PastSame
    /\ used'.stall = used.stall
    /\ op' \in [Ops -> OpRec] /\ \A q \in Ops \ {p} : op'[q] = op[q]
LEMMA RepublishDoes == ASSUME TypeOK, NEW p \in Ops, Republish(p) PROVE RepublishStep(p)
<1>1. \/ /\ op'[p] = Idle /\ Freed(p) /\ db' = db
      \/ /\ op'[p] = [op[p] EXCEPT !.pc = "observe"] /\ op[p].kind = "active"
         /\ op[p].phase = "pre" /\ LocksSame
      \/ /\ op'[p] = [op[p] EXCEPT !.pc = "publish"] /\ op[p].phase = "pre" /\ LocksSame
  BY Types DEF Republish, TypeOK, Row
<1>2. op'[p] \in OpRec
  <2>1. {"observe", "publish"} \subseteq PCs
    BY DEF PCs
  <2>2. [op[p] EXCEPT !.pc = "observe"] \in OpRec
    BY <2>1, Types DEF OpRec
  <2>3. [op[p] EXCEPT !.pc = "publish"] \in OpRec
    BY <2>1, Types DEF OpRec
  <2> QED BY <1>1, <2>2, <2>3, IdleType
<1>3. op' = [op EXCEPT ![p] = op'[p]]
  BY DEF Republish, TypeOK
<1>4. /\ op[p].pc = "decide" /\ op[p].row # op[p].seen /\ SlotSame /\ LiveSame /\ codex' = codex
      /\ ProviderSame /\ PastSame
      /\ used'.stall = used.stall
  BY Types DEF Republish, TypeOK, Row, Bounds
<1> QED BY <1>1, <1>2, <1>3, <1>4, Types, Alone DEF RepublishStep, OpRec

PublishSlotStep(p) ==
    /\ op[p].pc = "publish"
    /\ \/ /\ op'[p].pc = "mark" /\ op'[p].phase = "post" /\ op'[p].kind = op[p].kind
          /\ op'[p].adopting = op[p].adopting /\ op'[p].wrote = op[p].wrote
          /\ op'[p].pinned = op[p].pinned /\ KeepTokens(op'[p], op[p]) /\ assertHeld(p)
          /\ live' = op[p].row /\ LocksSame
       \/ /\ op'[p] = Idle /\ Freed(p) /\ db' = db /\ live' = live
    /\ SlotSame /\ active' = active /\ codex' = codex /\ ProviderSame /\ PastSame
    /\ used'.stall = used.stall
    /\ op' \in [Ops -> OpRec] /\ \A q \in Ops \ {p} : op'[q] = op[q]
LEMMA PublishSlotDoes == ASSUME TypeOK, NEW p \in Ops, PublishSlot(p) PROVE PublishSlotStep(p)
<1>1. \/ /\ op'[p] = [op[p] EXCEPT !.pc = "mark", !.phase = "post"] /\ assertHeld(p)
         /\ live' = op[p].row /\ LocksSame
      \/ /\ op'[p] = Idle /\ Freed(p) /\ db' = db /\ live' = live
  BY Types DEF PublishSlot, TypeOK, Row
<1>2. op'[p] \in OpRec
  <2>1. {"mark"} \subseteq PCs
    BY DEF PCs
  <2>2. [op[p] EXCEPT !.pc = "mark", !.phase = "post"] \in OpRec
    BY <2>1, Types DEF OpRec
  <2> QED BY <1>1, <2>2, IdleType
<1>3. op' = [op EXCEPT ![p] = op'[p]]
  BY DEF PublishSlot, TypeOK
<1>4. /\ op[p].pc = "publish" /\ SlotSame /\ active' = active /\ codex' = codex /\ ProviderSame
      /\ PastSame
      /\ used'.stall = used.stall
  BY Types DEF PublishSlot, TypeOK, Row, Bounds
<1> QED BY <1>1, <1>2, <1>3, <1>4, Types, Alone DEF PublishSlotStep, OpRec

MarkStep(p) ==
    /\ op[p].pc = "mark" /\ db = None
    /\ \/ /\ op'[p].pc = "due" /\ KeepMode(op'[p], op[p]) /\ KeepTokens(op'[p], op[p])
          /\ assertHeld(p) /\ row.fp = op[p].row /\ op[p].kind = "active" /\ op[p].phase = "pre"
          /\ LocksSame
       \/ /\ op'[p] = Idle /\ Freed(p) /\ db' = db
    /\ row'.fp = row.fp /\ row'.dead = row.dead /\ active' \in BOOLEAN
    /\ (active' => active \/ row.fp = op[p].row) /\ kc' = kc /\ prev' = prev /\ edges' = edges
    /\ stash' = stash /\ live' = live /\ codex' = codex /\ ProviderSame /\ PastSame
    /\ used'.stall = used.stall
    /\ op' \in [Ops -> OpRec] /\ \A q \in Ops \ {p} : op'[q] = op[q]
LEMMA MarkDoes == ASSUME TypeOK, NEW p \in Ops, Mark(p) PROVE MarkStep(p)
<1>1. \/ /\ op'[p] = [op[p] EXCEPT !.pc = "due"] /\ assertHeld(p) /\ row.fp = op[p].row
         /\ op[p].kind = "active" /\ op[p].phase = "pre" /\ LocksSame
      \/ /\ op'[p] = Idle /\ Freed(p) /\ db' = db
  BY Types DEF Mark, TypeOK, Row
<1>2. op'[p] \in OpRec
  <2>1. {"due"} \subseteq PCs
    BY DEF PCs
  <2>2. [op[p] EXCEPT !.pc = "due"] \in OpRec
    BY <2>1, Types DEF OpRec
  <2> QED BY <1>1, <2>2, IdleType
<1>3. op' = [op EXCEPT ![p] = op'[p]]
  BY DEF Mark, TypeOK
<1>4. /\ op[p].pc = "mark" /\ db = None /\ row'.fp = row.fp /\ row'.dead = row.dead
      /\ active' \in BOOLEAN /\ (active' => active \/ row.fp = op[p].row) /\ kc' = kc
      /\ prev' = prev /\ edges' = edges /\ stash' = stash /\ live' = live /\ codex' = codex
      /\ ProviderSame /\ PastSame
      /\ used'.stall = used.stall
  BY Types DEF Mark, TypeOK, Row, Bounds
<1> QED BY <1>1, <1>2, <1>3, <1>4, Types, Alone DEF MarkStep, OpRec

AdoptStep(p) ==
    /\ op[p].pc = "decide" /\ op[p].kc = op[p].row /\ op[p].row # op[p].seen
    /\ ~isSuccessor(op[p].seen, op[p].row) /\ db = None
    /\ \/ /\ op'[p].pc = "adopted" /\ op'[p].old = <<kc, prev>> /\ KeepMode(op'[p], op[p])
          /\ op'[p].seen = op[p].seen /\ op'[p].row = op[p].row /\ op'[p].kc = op[p].kc
          /\ op'[p].cur = op[p].cur /\ op'[p].suc = op[p].suc /\ assertHeld(p)
          /\ row.fp = op[p].row /\ prev' = (IF kc = op[p].row THEN kc ELSE prev)
          /\ kc' = op[p].seen /\ db' = p /\ sw' = sw /\ auth' = auth
       \/ /\ op'[p] = Idle /\ Freed(p) /\ db' = db /\ kc' = kc /\ prev' = prev
    /\ row' = row /\ edges' = edges /\ stash' = stash /\ LiveSame /\ codex' = codex
    /\ ProviderSame /\ PastSame
    /\ used'.stall = used.stall
    /\ op' \in [Ops -> OpRec] /\ \A q \in Ops \ {p} : op'[q] = op[q]
LEMMA AdoptDoes == ASSUME TypeOK, NEW p \in Ops, Adopt(p) PROVE AdoptStep(p)
<1>1. \/ /\ op'[p] = [op[p] EXCEPT !.pc = "adopted", !.old = <<kc, prev>>] /\ assertHeld(p)
         /\ row.fp = op[p].row /\ prev' = (IF kc = op[p].row THEN kc ELSE prev)
         /\ kc' = op[p].seen /\ db' = p /\ sw' = sw /\ auth' = auth
      \/ /\ op'[p] = Idle /\ Freed(p) /\ db' = db /\ kc' = kc /\ prev' = prev
  BY Types DEF Adopt, TypeOK, Row
<1>2. op'[p] \in OpRec
  <2>1. {"adopted"} \subseteq PCs
    BY DEF PCs
  <2>2. [op[p] EXCEPT !.pc = "adopted", !.old = <<kc, prev>>] \in OpRec
    BY <2>1, Types DEF OpRec
  <2> QED BY <1>1, <2>2, IdleType
<1>3. op' = [op EXCEPT ![p] = op'[p]]
  BY DEF Adopt, TypeOK
<1>4. /\ op[p].pc = "decide" /\ op[p].kc = op[p].row /\ op[p].row # op[p].seen
      /\ ~isSuccessor(op[p].seen, op[p].row) /\ db = None /\ row' = row /\ edges' = edges
      /\ stash' = stash /\ LiveSame /\ codex' = codex /\ ProviderSame /\ PastSame
      /\ used'.stall = used.stall
  BY Types DEF Adopt, TypeOK, Row, Bounds
<1> QED BY <1>1, <1>2, <1>3, <1>4, Types, Alone DEF AdoptStep, OpRec

AdoptCommitStep(p) ==
    /\ op[p].pc = "adopted" /\ assertHeld(p) /\ row'.fp = op[p].seen /\ row'.dead = FALSE
    /\ edges' = edges \cup {<<op[p].row, op[p].seen>>} /\ active' = TRUE
    /\ heads' = heads \cup {op[p].seen} /\ db' = None
    /\ \/ /\ op'[p].pc = "due" /\ KeepMode(op'[p], op[p]) /\ KeepTokens(op'[p], op[p])
          /\ op[p].kind = "active" /\ op[p].phase = "pre" /\ sw' = sw /\ auth' = auth
       \/ /\ op'[p] = Idle /\ Freed(p)
    /\ kc' = kc /\ prev' = prev /\ stash' = stash /\ live' = live /\ codex' = codex
    /\ ProviderSame /\ arrived' = arrived /\ gone' = gone /\ torn' = torn /\ skew' = skew
    /\ late' = late
    /\ used'.stall = used.stall
    /\ op' \in [Ops -> OpRec] /\ \A q \in Ops \ {p} : op'[q] = op[q]
LEMMA AdoptCommitDoes == ASSUME TypeOK, NEW p \in Ops, AdoptCommit(p) PROVE AdoptCommitStep(p)
<1>1. \/ /\ op'[p] = [op[p] EXCEPT !.pc = "due"] /\ op[p].kind = "active" /\ op[p].phase = "pre"
         /\ sw' = sw /\ auth' = auth
      \/ /\ op'[p] = Idle /\ Freed(p)
  BY Types DEF AdoptCommit, TypeOK, Row
<1>2. op'[p] \in OpRec
  <2>1. {"due"} \subseteq PCs
    BY DEF PCs
  <2>2. [op[p] EXCEPT !.pc = "due"] \in OpRec
    BY <2>1, Types DEF OpRec
  <2> QED BY <1>1, <2>2, IdleType
<1>3. op' = [op EXCEPT ![p] = op'[p]]
  BY DEF AdoptCommit, TypeOK
<1>4. /\ op[p].pc = "adopted" /\ assertHeld(p) /\ row'.fp = op[p].seen /\ row'.dead = FALSE
      /\ edges' = edges \cup {<<op[p].row, op[p].seen>>} /\ active' = TRUE
      /\ heads' = heads \cup {op[p].seen} /\ db' = None /\ kc' = kc /\ prev' = prev
      /\ stash' = stash /\ live' = live /\ codex' = codex /\ ProviderSame /\ arrived' = arrived
      /\ gone' = gone /\ torn' = torn /\ skew' = skew /\ late' = late
      /\ used'.stall = used.stall
  BY Types DEF AdoptCommit, TypeOK, Row, Bounds
<1> QED BY <1>1, <1>2, <1>3, <1>4, Types, Alone DEF AdoptCommitStep, OpRec

AdoptUndoStep(p) ==
    /\ op[p].pc = "adopted" /\ op'[p] = Idle /\ Freed(p) /\ db' = None
    /\ kc' = (IF kc = op[p].seen THEN op[p].old[1] ELSE kc)
    /\ prev' = (IF op[p].old[1] = op[p].row /\ prev = op[p].old[1] THEN op[p].old[2] ELSE prev)
    /\ row' = row /\ edges' = edges /\ stash' = stash /\ LiveSame /\ codex' = codex
    /\ ProviderSame /\ PastSame
    /\ used'.stall = used.stall
    /\ op' \in [Ops -> OpRec] /\ \A q \in Ops \ {p} : op'[q] = op[q]
LEMMA AdoptUndoDoes == ASSUME TypeOK, NEW p \in Ops, AdoptUndo(p) PROVE AdoptUndoStep(p)
<1>1. op'[p] = Idle
  BY DEF AdoptUndo, TypeOK
<1>2. op'[p] \in OpRec
  BY <1>1, IdleType
<1>3. op' = [op EXCEPT ![p] = op'[p]]
  BY DEF AdoptUndo, TypeOK
<1>4. /\ op[p].pc = "adopted" /\ op'[p] = Idle /\ Freed(p) /\ db' = None
      /\ kc' = (IF kc = op[p].seen THEN op[p].old[1] ELSE kc)
      /\ prev' = (IF op[p].old[1] = op[p].row /\ prev = op[p].old[1] THEN op[p].old[2] ELSE prev)
      /\ row' = row /\ edges' = edges /\ stash' = stash /\ LiveSame /\ codex' = codex
      /\ ProviderSame /\ PastSame
  BY TokFacts, Types DEF AdoptUndo, Idle, OpRec, TypeOK, Row
<1>5. used'.stall = used.stall
  BY DEF AdoptUndo, TypeOK, Bounds
<1> QED BY <1>2, <1>3, <1>4, <1>5, Alone DEF AdoptUndoStep

DueStep(p) ==
    /\ op[p].pc = "due"
    /\ \/ /\ op'[p] = Idle /\ Freed(p) /\ db' = db
       \/ /\ op'[p].pc = "read" /\ KeepMode(op'[p], op[p]) /\ KeepTokens(op'[p], op[p])
          /\ codex = 0 /\ LocksSame
    /\ SlotSame /\ LiveSame /\ codex' = codex /\ ProviderSame /\ PastSame
    /\ used'.stall = used.stall
    /\ op' \in [Ops -> OpRec] /\ \A q \in Ops \ {p} : op'[q] = op[q]
LEMMA DueDoes == ASSUME TypeOK, NEW p \in Ops, Due(p) PROVE DueStep(p)
<1>1. \/ /\ op'[p] = Idle /\ Freed(p) /\ db' = db
      \/ /\ op'[p] = [op[p] EXCEPT !.pc = "read"] /\ codex = 0 /\ LocksSame
  BY Types DEF Due, TypeOK, Row
<1>2. op'[p] \in OpRec
  <2>1. {"read"} \subseteq PCs
    BY DEF PCs
  <2>2. [op[p] EXCEPT !.pc = "read"] \in OpRec
    BY <2>1, Types DEF OpRec
  <2> QED BY <1>1, <2>2, IdleType
<1>3. op' = [op EXCEPT ![p] = op'[p]]
  BY DEF Due, TypeOK
<1>4. /\ op[p].pc = "due" /\ SlotSame /\ LiveSame /\ codex' = codex /\ ProviderSame /\ PastSame
      /\ used'.stall = used.stall
  BY Types DEF Due, TypeOK, Row, Bounds
<1> QED BY <1>1, <1>2, <1>3, <1>4, Types, Alone DEF DueStep, OpRec

ReadSlotStep(p) ==
    /\ op[p].pc = "read"
    /\ op'[p].pc = "repair" /\ op'[p].cur = kc /\ KeepMode(op'[p], op[p])
    /\ op'[p].seen = op[p].seen /\ op'[p].row = op[p].row /\ op'[p].kc = op[p].kc
    /\ op'[p].suc = op[p].suc /\ op'[p].old = op[p].old
    /\ LocksSame /\ SlotSame /\ LiveSame /\ codex' = codex /\ ProviderSame /\ PastSame
    /\ used'.stall = used.stall
    /\ op' \in [Ops -> OpRec] /\ \A q \in Ops \ {p} : op'[q] = op[q]
LEMMA ReadSlotDoes == ASSUME TypeOK, NEW p \in Ops, ReadSlot(p) PROVE ReadSlotStep(p)
<1>1. op'[p] = [op[p] EXCEPT !.pc = "repair", !.cur = kc]
  BY DEF ReadSlot, TypeOK
<1>2. op'[p] \in OpRec
  <2>1. {"repair"} \subseteq PCs
    BY DEF PCs
  <2>2. [op[p] EXCEPT !.pc = "repair", !.cur = kc] \in OpRec
    BY <2>1, Types DEF OpRec
  <2> QED BY <1>1, <2>2
<1>3. op' = [op EXCEPT ![p] = op'[p]]
  BY DEF ReadSlot, TypeOK
<1>4. /\ op[p].pc = "read"
      /\ op'[p].pc = "repair" /\ op'[p].cur = kc /\ KeepMode(op'[p], op[p])
      /\ op'[p].seen = op[p].seen /\ op'[p].row = op[p].row /\ op'[p].kc = op[p].kc
      /\ op'[p].suc = op[p].suc /\ op'[p].old = op[p].old
      /\ LocksSame /\ SlotSame /\ LiveSame /\ codex' = codex /\ ProviderSame /\ PastSame
  BY TokFacts, Types DEF ReadSlot, Idle, OpRec, TypeOK, Row
<1>5. used'.stall = used.stall
  BY DEF ReadSlot, TypeOK, Bounds
<1> QED BY <1>2, <1>3, <1>4, <1>5, Alone DEF ReadSlotStep

RepairDriftStep(p) ==
    /\ op[p].pc = "repair" /\ db = None
    /\ \/ /\ op'[p].pc = "find" /\ KeepMode(op'[p], op[p]) /\ KeepTokens(op'[p], op[p])
          /\ assertHeld(p) /\ row'.fp = op[p].cur /\ row'.dead = row.dead
          /\ heads' = heads \cup {op[p].cur}
          /\ \/ row.fp = op[p].cur /\ edges' = edges /\ skew' = skew
             \/ /\ row.fp # op[p].cur /\ (prev = row.fp \/ <<row.fp, op[p].cur>> \in edges)
                /\ edges' = edges \cup {<<row.fp, op[p].cur>>} /\ skew' = (skew \/ kc # op[p].cur)
          /\ LocksSame
       \/ /\ op'[p] = Idle /\ Freed(p) /\ db' = db /\ row' = row /\ edges' = edges
          /\ heads' = heads /\ skew' = skew
    /\ kc' = kc /\ prev' = prev /\ stash' = stash /\ LiveSame /\ codex' = codex /\ ProviderSame
    /\ arrived' = arrived /\ gone' = gone /\ torn' = torn /\ late' = late
    /\ used'.stall = used.stall
    /\ op' \in [Ops -> OpRec] /\ \A q \in Ops \ {p} : op'[q] = op[q]
LEMMA RepairDriftDoes == ASSUME TypeOK, NEW p \in Ops, RepairDrift(p) PROVE RepairDriftStep(p)
<1>1. \/ /\ op'[p] = [op[p] EXCEPT !.pc = "find"] /\ assertHeld(p) /\ row'.fp = op[p].cur
         /\ row'.dead = row.dead /\ heads' = heads \cup {op[p].cur}
         /\ \/ row.fp = op[p].cur /\ edges' = edges /\ skew' = skew
            \/ /\ row.fp # op[p].cur /\ (prev = row.fp \/ <<row.fp, op[p].cur>> \in edges)
               /\ edges' = edges \cup {<<row.fp, op[p].cur>>} /\ skew' = (skew \/ kc # op[p].cur)
         /\ LocksSame
      \/ /\ op'[p] = Idle /\ Freed(p) /\ db' = db /\ row' = row /\ edges' = edges
         /\ heads' = heads /\ skew' = skew
  BY Types DEF RepairDrift, TypeOK, Row
<1>2. op'[p] \in OpRec
  <2>1. {"find"} \subseteq PCs
    BY DEF PCs
  <2>2. [op[p] EXCEPT !.pc = "find"] \in OpRec
    BY <2>1, Types DEF OpRec
  <2> QED BY <1>1, <2>2, IdleType
<1>3. op' = [op EXCEPT ![p] = op'[p]]
  BY DEF RepairDrift, TypeOK
<1>4. /\ op[p].pc = "repair" /\ db = None /\ kc' = kc /\ prev' = prev /\ stash' = stash
      /\ LiveSame /\ codex' = codex /\ ProviderSame /\ arrived' = arrived /\ gone' = gone
      /\ torn' = torn /\ late' = late
      /\ used'.stall = used.stall
  BY Types DEF RepairDrift, TypeOK, Row, Bounds
<1> QED BY <1>1, <1>2, <1>3, <1>4, Types, Alone DEF RepairDriftStep, OpRec

FindStashedStep(p) ==
    /\ op[p].pc = "find"
    /\ \/ /\ op'[p].pc = "begin" /\ op'[p].adopting
          /\ [from |-> op[p].cur, to |-> op'[p].suc] \in stash /\ op'[p].kind = op[p].kind
          /\ op'[p].wrote = op[p].wrote /\ op'[p].pinned = op[p].pinned
          /\ op'[p].phase = op[p].phase /\ op'[p].seen = op[p].seen /\ op'[p].row = op[p].row
          /\ op'[p].kc = op[p].kc /\ op'[p].cur = op[p].cur /\ op'[p].old = op[p].old /\ LocksSame
       \/ /\ op'[p] = Idle /\ (\A s \in stash : s.from # op[p].cur) /\ Freed(p) /\ db' = db
       \/ /\ op'[p].pc = "post" /\ KeepMode(op'[p], op[p]) /\ KeepTokens(op'[p], op[p])
          /\ (\A s \in stash : s.from # op[p].cur) /\ LocksSame
    /\ SlotSame /\ LiveSame /\ codex' = codex /\ ProviderSame /\ PastSame
    /\ used'.stall = used.stall
    /\ op' \in [Ops -> OpRec] /\ \A q \in Ops \ {p} : op'[q] = op[q]
LEMMA FindStashedDoes == ASSUME TypeOK, NEW p \in Ops, FindStashed(p) PROVE FindStashedStep(p)
<1>1. \/ /\ \E s \in {x \in stash : x.from = op[p].cur} :
               op'[p] = [op[p] EXCEPT !.pc = "begin", !.suc = s.to, !.adopting = TRUE]
         /\ LocksSame
      \/ /\ op'[p] = Idle /\ (\A s \in stash : s.from # op[p].cur) /\ Freed(p) /\ db' = db
      \/ /\ op'[p] = [op[p] EXCEPT !.pc = "post"] /\ (\A s \in stash : s.from # op[p].cur)
         /\ LocksSame
  BY Types DEF FindStashed, TypeOK, Row
<1>2. op'[p] \in OpRec
  <2>1. {"post", "begin"} \subseteq PCs
    BY DEF PCs
  <2>2. [op[p] EXCEPT !.pc = "post"] \in OpRec
    BY <2>1, Types DEF OpRec
  <2>3. \A s \in findStashedSuccessor(op[p].cur) :
           [op[p] EXCEPT !.pc = "begin", !.suc = s.to, !.adopting = TRUE] \in OpRec
    <3>1. op[p] \in OpRec /\ \A s \in findStashedSuccessor(op[p].cur) : s.to \in Tok0
      BY Types
    <3> HIDE DEF findStashedSuccessor
    <3> QED BY <2>1, <3>1 DEF OpRec
  <2> QED BY <1>1, <2>2, <2>3, IdleType
<1>3. op' = [op EXCEPT ![p] = op'[p]]
  BY DEF FindStashed, TypeOK
<1>4. /\ op[p].pc = "find" /\ SlotSame /\ LiveSame /\ codex' = codex /\ ProviderSame /\ PastSame
      /\ used'.stall = used.stall
  BY Types DEF FindStashed, TypeOK, Row, Bounds
<1>5. \/ /\ op'[p].pc = "begin" /\ op'[p].adopting
         /\ [from |-> op[p].cur, to |-> op'[p].suc] \in stash /\ op'[p].kind = op[p].kind
         /\ op'[p].wrote = op[p].wrote /\ op'[p].pinned = op[p].pinned
         /\ op'[p].phase = op[p].phase /\ op'[p].seen = op[p].seen /\ op'[p].row = op[p].row
         /\ op'[p].kc = op[p].kc /\ op'[p].cur = op[p].cur /\ op'[p].old = op[p].old /\ LocksSame
      \/ /\ op'[p] = Idle /\ (\A s \in stash : s.from # op[p].cur) /\ Freed(p) /\ db' = db
      \/ /\ op'[p].pc = "post" /\ KeepMode(op'[p], op[p]) /\ KeepTokens(op'[p], op[p])
         /\ (\A s \in stash : s.from # op[p].cur) /\ LocksSame
  <2>1. CASE \E s \in {x \in stash : x.from = op[p].cur} :
               op'[p] = [op[p] EXCEPT !.pc = "begin", !.suc = s.to, !.adopting = TRUE] /\ LocksSame
    <3>1. PICK s \in stash : s.from = op[p].cur /\ op'[p] = [op[p] EXCEPT !.pc = "begin", !.suc = s.to, !.adopting = TRUE]
      BY <2>1
    <3>2. s = [from |-> op[p].cur, to |-> s.to]
      BY <3>1 DEF TypeOK, Stash
    <3>3. /\ op'[p].pc = "begin" /\ op'[p].adopting /\ op'[p].kind = op[p].kind
          /\ op'[p].wrote = op[p].wrote /\ op'[p].pinned = op[p].pinned
          /\ op'[p].phase = op[p].phase /\ op'[p].seen = op[p].seen /\ op'[p].row = op[p].row
          /\ op'[p].kc = op[p].kc /\ op'[p].cur = op[p].cur /\ op'[p].old = op[p].old
          /\ op'[p].suc = s.to
      BY <3>1, Types DEF OpRec
    <3> QED BY <2>1, <3>1, <3>2, <3>3
  <2>2. CASE op'[p] = Idle /\ (\A s \in stash : s.from # op[p].cur) /\ Freed(p) /\ db' = db
    BY <2>2
  <2>3. CASE op'[p] = [op[p] EXCEPT !.pc = "post"] /\ (\A s \in stash : s.from # op[p].cur) /\ LocksSame
    <3>1. op'[p] = [op[p] EXCEPT !.pc = "post"]
      BY <2>3
    <3>2. op'[p].pc = "post" /\ KeepMode(op'[p], op[p]) /\ KeepTokens(op'[p], op[p])
      BY <3>1, Types DEF OpRec
    <3> QED BY <2>3, <3>2
  <2> QED BY <1>1, <2>1, <2>2, <2>3
<1> QED BY <1>2, <1>3, <1>4, <1>5, Alone DEF FindStashedStep

PostStep(p) ==
    /\ op[p].pc = "post" /\ assertHeld(p) /\ op[p].cur \in valid /\ issued < MaxTok
    /\ issued' = issued + 1 /\ issued' # 0 /\ valid' = (valid \ {op[p].cur}) \cup {issued + 1}
    /\ grew' = grew \cup {<<op[p].cur, issued + 1>>}
    /\ \/ /\ op'[p].pc = "got" /\ op'[p].suc = issued' /\ KeepMode(op'[p], op[p])
          /\ op'[p].seen = op[p].seen /\ op'[p].row = op[p].row /\ op'[p].kc = op[p].kc
          /\ op'[p].cur = op[p].cur /\ op'[p].old = op[p].old
          /\ arrived' = arrived \cup {issued + 1} /\ LocksSame
       \/ /\ op'[p] = Idle /\ Freed(p) /\ db' = db /\ arrived' = arrived
    /\ SlotSame /\ LiveSame /\ codex' = codex /\ gone' = gone /\ heads' = heads /\ torn' = torn
    /\ skew' = skew /\ late' = late
    /\ used'.stall = used.stall
    /\ op' \in [Ops -> OpRec] /\ \A q \in Ops \ {p} : op'[q] = op[q]
LEMMA PostDoes == ASSUME TypeOK, NEW p \in Ops, Post(p) PROVE PostStep(p)
<1>0. issued' \in Tok0
  BY BoundsAssumption, TokFacts DEF Post, TypeOK, Tok, Tok0
<1>1. \/ /\ op'[p] = [op[p] EXCEPT !.pc = "got", !.suc = issued']
         /\ arrived' = arrived \cup {issued + 1} /\ LocksSame
      \/ /\ op'[p] = Idle /\ Freed(p) /\ db' = db /\ arrived' = arrived
  BY Types DEF Post, TypeOK, Row
<1>2. op'[p] \in OpRec
  <2>1. {"got"} \subseteq PCs
    BY DEF PCs
  <2>2. [op[p] EXCEPT !.pc = "got", !.suc = issued'] \in OpRec
    BY <2>1, <1>0, Types DEF OpRec
  <2> QED BY <1>1, <2>2, IdleType
<1>3. op' = [op EXCEPT ![p] = op'[p]]
  BY DEF Post, TypeOK
<1>4. /\ op[p].pc = "post" /\ assertHeld(p) /\ op[p].cur \in valid /\ issued < MaxTok
      /\ issued' = issued + 1 /\ issued' # 0 /\ valid' = (valid \ {op[p].cur}) \cup {issued + 1}
      /\ grew' = grew \cup {<<op[p].cur, issued + 1>>} /\ SlotSame /\ LiveSame /\ codex' = codex
      /\ gone' = gone /\ heads' = heads /\ torn' = torn /\ skew' = skew /\ late' = late
      /\ used'.stall = used.stall
  BY Types, BoundsAssumption DEF Post, TypeOK, Row, Bounds, Tok0
<1> QED BY <1>1, <1>2, <1>3, <1>4, Types, Alone DEF PostStep, OpRec

PostRejectedStep(p) ==
    /\ op[p].pc = "post" /\ assertHeld(p) /\ op[p].cur \notin valid
    /\ op'[p].pc = "rejected" /\ KeepMode(op'[p], op[p]) /\ KeepTokens(op'[p], op[p])
    /\ LocksSame /\ SlotSame /\ LiveSame /\ codex' = codex /\ ProviderSame /\ PastSame
    /\ used'.stall = used.stall
    /\ op' \in [Ops -> OpRec] /\ \A q \in Ops \ {p} : op'[q] = op[q]
LEMMA PostRejectedDoes == ASSUME TypeOK, NEW p \in Ops, PostRejected(p) PROVE PostRejectedStep(p)
<1>1. op'[p] = [op[p] EXCEPT !.pc = "rejected"]
  BY DEF PostRejected, TypeOK
<1>2. op'[p] \in OpRec
  <2>1. {"rejected"} \subseteq PCs
    BY DEF PCs
  <2>2. [op[p] EXCEPT !.pc = "rejected"] \in OpRec
    BY <2>1, Types DEF OpRec
  <2> QED BY <1>1, <2>2
<1>3. op' = [op EXCEPT ![p] = op'[p]]
  BY DEF PostRejected, TypeOK
<1>4. /\ op[p].pc = "post" /\ assertHeld(p) /\ op[p].cur \notin valid
      /\ op'[p].pc = "rejected" /\ KeepMode(op'[p], op[p]) /\ KeepTokens(op'[p], op[p])
      /\ LocksSame /\ SlotSame /\ LiveSame /\ codex' = codex /\ ProviderSame /\ PastSame
  BY TokFacts, Types DEF PostRejected, Idle, OpRec, TypeOK, Row
<1>5. used'.stall = used.stall
  BY DEF PostRejected, TypeOK, Bounds
<1> QED BY <1>2, <1>3, <1>4, <1>5, Alone DEF PostRejectedStep

PostFailedStep(p) ==
    /\ op[p].pc = "post" /\ op'[p] = Idle /\ Freed(p) /\ db' = db
    /\ SlotSame /\ LiveSame /\ codex' = codex /\ ProviderSame /\ PastSame
    /\ used'.stall = used.stall
    /\ op' \in [Ops -> OpRec] /\ \A q \in Ops \ {p} : op'[q] = op[q]
LEMMA PostFailedDoes == ASSUME TypeOK, NEW p \in Ops, PostFailed(p) PROVE PostFailedStep(p)
<1>1. op'[p] = Idle
  BY DEF PostFailed, TypeOK
<1>2. op'[p] \in OpRec
  BY <1>1, IdleType
<1>3. op' = [op EXCEPT ![p] = op'[p]]
  BY DEF PostFailed, TypeOK
<1>4. /\ op[p].pc = "post" /\ op'[p] = Idle /\ Freed(p) /\ db' = db
      /\ SlotSame /\ LiveSame /\ codex' = codex /\ ProviderSame /\ PastSame
  BY TokFacts, Types DEF PostFailed, Idle, OpRec, TypeOK, Row
<1>5. used'.stall = used.stall
  BY DEF PostFailed, TypeOK, Bounds
<1> QED BY <1>2, <1>3, <1>4, <1>5, Alone DEF PostFailedStep

RejectedStep(p) ==
    /\ op[p].pc = "rejected"
    /\ \/ /\ op'[p].pc = "refused" /\ KeepMode(op'[p], op[p]) /\ KeepTokens(op'[p], op[p])
          /\ kc = op[p].cur /\ LocksSame
       \/ /\ op'[p] = Idle /\ Freed(p) /\ db' = db
    /\ SlotSame /\ LiveSame /\ codex' = codex /\ ProviderSame /\ PastSame
    /\ used'.stall = used.stall
    /\ op' \in [Ops -> OpRec] /\ \A q \in Ops \ {p} : op'[q] = op[q]
LEMMA RejectedDoes == ASSUME TypeOK, NEW p \in Ops, Rejected(p) PROVE RejectedStep(p)
<1>1. \/ /\ op'[p] = [op[p] EXCEPT !.pc = "refused"] /\ kc = op[p].cur /\ LocksSame
      \/ /\ op'[p] = Idle /\ Freed(p) /\ db' = db
  BY Types DEF Rejected, TypeOK, Row
<1>2. op'[p] \in OpRec
  <2>1. {"refused"} \subseteq PCs
    BY DEF PCs
  <2>2. [op[p] EXCEPT !.pc = "refused"] \in OpRec
    BY <2>1, Types DEF OpRec
  <2> QED BY <1>1, <2>2, IdleType
<1>3. op' = [op EXCEPT ![p] = op'[p]]
  BY DEF Rejected, TypeOK
<1>4. /\ op[p].pc = "rejected" /\ SlotSame /\ LiveSame /\ codex' = codex /\ ProviderSame
      /\ PastSame
      /\ used'.stall = used.stall
  BY Types DEF Rejected, TypeOK, Row, Bounds
<1> QED BY <1>1, <1>2, <1>3, <1>4, Types, Alone DEF RejectedStep, OpRec

RecordRejectedStep(p) ==
    /\ op[p].pc = "refused" /\ db = None /\ row'.fp = row.fp
    /\ row'.dead = row.dead \/ (row'.dead /\ assertHeld(p) /\ row.fp = op[p].cur)
    /\ \/ /\ op'[p].pc = "observe" /\ op'[p].phase = "won" /\ op'[p].kind = op[p].kind
          /\ op'[p].adopting = op[p].adopting /\ op'[p].wrote = op[p].wrote
          /\ op'[p].pinned = op[p].pinned /\ KeepTokens(op'[p], op[p]) /\ op[p].kind = "active"
          /\ assertHeld(p) /\ LocksSame
       \/ /\ op'[p] = Idle /\ Freed(p) /\ db' = db
    /\ kc' = kc /\ prev' = prev /\ edges' = edges /\ stash' = stash /\ LiveSame /\ codex' = codex
    /\ ProviderSame /\ PastSame
    /\ used'.stall = used.stall
    /\ op' \in [Ops -> OpRec] /\ \A q \in Ops \ {p} : op'[q] = op[q]
LEMMA RecordRejectedDoes == ASSUME TypeOK, NEW p \in Ops, RecordRejected(p) PROVE RecordRejectedStep(p)
<1>1. \/ /\ op'[p] = [op[p] EXCEPT !.pc = "observe", !.phase = "won"] /\ op[p].kind = "active"
         /\ assertHeld(p) /\ LocksSame
      \/ /\ op'[p] = Idle /\ Freed(p) /\ db' = db
  BY Types DEF RecordRejected, TypeOK, Row
<1>2. op'[p] \in OpRec
  <2>1. {"observe"} \subseteq PCs
    BY DEF PCs
  <2>2. [op[p] EXCEPT !.pc = "observe", !.phase = "won"] \in OpRec
    BY <2>1, Types DEF OpRec
  <2> QED BY <1>1, <2>2, IdleType
<1>3. op' = [op EXCEPT ![p] = op'[p]]
  BY DEF RecordRejected, TypeOK
<1>4. /\ op[p].pc = "refused" /\ db = None /\ row'.fp = row.fp
      /\ row'.dead = row.dead \/ (row'.dead /\ assertHeld(p) /\ row.fp = op[p].cur)
      /\ kc' = kc /\ prev' = prev /\ edges' = edges /\ stash' = stash /\ LiveSame
      /\ codex' = codex /\ ProviderSame /\ PastSame
      /\ used'.stall = used.stall
  BY Types DEF RecordRejected, TypeOK, Row, Bounds
<1> QED BY <1>1, <1>2, <1>3, <1>4, Types, Alone DEF RecordRejectedStep, OpRec

GotSuccessorStep(p) ==
    /\ op[p].pc = "got"
    /\ \/ /\ op'[p].pc = "begin" /\ KeepMode(op'[p], op[p]) /\ KeepTokens(op'[p], op[p])
          /\ kc = op[p].cur
       \/ /\ op'[p].pc = "stash" /\ KeepMode(op'[p], op[p]) /\ KeepTokens(op'[p], op[p])
    /\ LocksSame /\ SlotSame /\ LiveSame /\ codex' = codex /\ ProviderSame /\ PastSame
    /\ used'.stall = used.stall
    /\ op' \in [Ops -> OpRec] /\ \A q \in Ops \ {p} : op'[q] = op[q]
LEMMA GotSuccessorDoes == ASSUME TypeOK, NEW p \in Ops, GotSuccessor(p) PROVE GotSuccessorStep(p)
<1>1. \/ /\ op'[p] = [op[p] EXCEPT !.pc = "begin"] /\ kc = op[p].cur
      \/ /\ op'[p] = [op[p] EXCEPT !.pc = "stash"]
  BY Types DEF GotSuccessor, TypeOK, Row
<1>2. op'[p] \in OpRec
  <2>1. {"begin", "stash"} \subseteq PCs
    BY DEF PCs
  <2>2. [op[p] EXCEPT !.pc = "begin"] \in OpRec
    BY <2>1, Types DEF OpRec
  <2>3. [op[p] EXCEPT !.pc = "stash"] \in OpRec
    BY <2>1, Types DEF OpRec
  <2> QED BY <1>1, <2>2, <2>3
<1>3. op' = [op EXCEPT ![p] = op'[p]]
  BY DEF GotSuccessor, TypeOK
<1>4. /\ op[p].pc = "got" /\ LocksSame /\ SlotSame /\ LiveSame /\ codex' = codex /\ ProviderSame
      /\ PastSame
      /\ used'.stall = used.stall
  BY Types DEF GotSuccessor, TypeOK, Row, Bounds
<1> QED BY <1>1, <1>2, <1>3, <1>4, Types, Alone DEF GotSuccessorStep, OpRec

PersistBeginStep(p) ==
    /\ op[p].pc = "begin" /\ db = None
    /\ \/ /\ op'[p].pc = "write" /\ KeepMode(op'[p], op[p]) /\ KeepTokens(op'[p], op[p])
          /\ assertHeld(p) /\ row.fp = op[p].cur /\ db' = p /\ sw' = sw /\ auth' = auth
       \/ /\ op'[p] = Idle /\ op[p].adopting /\ Freed(p) /\ db' = db
       \/ /\ op'[p].pc = "stash" /\ KeepMode(op'[p], op[p]) /\ KeepTokens(op'[p], op[p])
          /\ ~op[p].adopting /\ LocksSame
       \/ /\ op'[p].pc = "emergency" /\ KeepMode(op'[p], op[p]) /\ KeepTokens(op'[p], op[p])
          /\ ~op[p].adopting /\ ~assertHeld(p) /\ LocksSame
    /\ SlotSame /\ LiveSame /\ codex' = codex /\ ProviderSame /\ PastSame
    /\ used'.stall = used.stall
    /\ op' \in [Ops -> OpRec] /\ \A q \in Ops \ {p} : op'[q] = op[q]
LEMMA PersistBeginDoes == ASSUME TypeOK, NEW p \in Ops, PersistBegin(p) PROVE PersistBeginStep(p)
<1>1. \/ /\ op'[p] = [op[p] EXCEPT !.pc = "write"] /\ assertHeld(p) /\ row.fp = op[p].cur
         /\ db' = p /\ sw' = sw /\ auth' = auth
      \/ /\ op'[p] = Idle /\ op[p].adopting /\ Freed(p) /\ db' = db
      \/ /\ op'[p] = [op[p] EXCEPT !.pc = "stash"] /\ ~op[p].adopting /\ LocksSame
      \/ /\ op'[p] = [op[p] EXCEPT !.pc = "emergency"] /\ ~op[p].adopting /\ ~assertHeld(p)
         /\ LocksSame
  BY Types DEF PersistBegin, TypeOK, Row
<1>2. op'[p] \in OpRec
  <2>1. {"write", "stash", "emergency"} \subseteq PCs
    BY DEF PCs
  <2>2. [op[p] EXCEPT !.pc = "write"] \in OpRec
    BY <2>1, Types DEF OpRec
  <2>3. [op[p] EXCEPT !.pc = "stash"] \in OpRec
    BY <2>1, Types DEF OpRec
  <2>4. [op[p] EXCEPT !.pc = "emergency"] \in OpRec
    BY <2>1, Types DEF OpRec
  <2> QED BY <1>1, <2>2, <2>3, <2>4, IdleType
<1>3. op' = [op EXCEPT ![p] = op'[p]]
  BY DEF PersistBegin, TypeOK
<1>4. /\ op[p].pc = "begin" /\ db = None /\ SlotSame /\ LiveSame /\ codex' = codex /\ ProviderSame
      /\ PastSame
      /\ used'.stall = used.stall
  BY Types DEF PersistBegin, TypeOK, Row, Bounds
<1> QED BY <1>1, <1>2, <1>3, <1>4, Types, Alone DEF PersistBeginStep, OpRec

PersistWriteStep(p) ==
    /\ op[p].pc = "write" /\ assertHeld(p) /\ HalfWritten(p)
    /\ \/ /\ op'[p].pc = "commit" /\ op'[p].wrote = TRUE /\ op'[p].kind = op[p].kind
          /\ op'[p].adopting = op[p].adopting /\ op'[p].pinned = op[p].pinned
          /\ op'[p].phase = op[p].phase /\ KeepTokens(op'[p], op[p]) /\ prev' = op[p].cur
          /\ kc' = op[p].suc
       \/ /\ op'[p].pc = "undo" /\ KeepMode(op'[p], op[p]) /\ KeepTokens(op'[p], op[p])
          /\ op[p].adopting
       \/ /\ op'[p].pc = "save" /\ KeepMode(op'[p], op[p]) /\ KeepTokens(op'[p], op[p])
          /\ ~op[p].adopting
    /\ LocksSame /\ row' = row /\ edges' = edges /\ stash' = stash /\ LiveSame /\ codex' = codex
    /\ ProviderSame /\ PastSame
    /\ used'.stall = used.stall
    /\ op' \in [Ops -> OpRec] /\ \A q \in Ops \ {p} : op'[q] = op[q]
LEMMA PersistWriteDoes == ASSUME TypeOK, NEW p \in Ops, PersistWrite(p) PROVE PersistWriteStep(p)
<1>1. \/ /\ op'[p] = [op[p] EXCEPT !.pc = "commit", !.wrote = TRUE] /\ prev' = op[p].cur
         /\ kc' = op[p].suc
      \/ /\ op'[p] = [op[p] EXCEPT !.pc = "undo"] /\ op[p].adopting
      \/ /\ op'[p] = [op[p] EXCEPT !.pc = "save"] /\ ~op[p].adopting
  BY Types DEF PersistWrite, TypeOK, Row
<1>2. op'[p] \in OpRec
  <2>1. {"commit", "undo", "save"} \subseteq PCs
    BY DEF PCs
  <2>2. [op[p] EXCEPT !.pc = "commit", !.wrote = TRUE] \in OpRec
    BY <2>1, Types DEF OpRec
  <2>3. [op[p] EXCEPT !.pc = "undo"] \in OpRec
    BY <2>1, Types DEF OpRec
  <2>4. [op[p] EXCEPT !.pc = "save"] \in OpRec
    BY <2>1, Types DEF OpRec
  <2> QED BY <1>1, <2>2, <2>3, <2>4
<1>3. op' = [op EXCEPT ![p] = op'[p]]
  BY DEF PersistWrite, TypeOK
<1>4. /\ op[p].pc = "write" /\ assertHeld(p) /\ HalfWritten(p) /\ LocksSame /\ row' = row
      /\ edges' = edges /\ stash' = stash /\ LiveSame /\ codex' = codex /\ ProviderSame
      /\ PastSame
      /\ used'.stall = used.stall
  BY Types DEF PersistWrite, TypeOK, Row, Bounds
<1>5. \/ /\ op'[p].pc = "commit" /\ op'[p].wrote = TRUE /\ op'[p].kind = op[p].kind
         /\ op'[p].adopting = op[p].adopting /\ op'[p].pinned = op[p].pinned
         /\ op'[p].phase = op[p].phase /\ KeepTokens(op'[p], op[p]) /\ prev' = op[p].cur
         /\ kc' = op[p].suc
      \/ /\ op'[p].pc = "undo" /\ KeepMode(op'[p], op[p]) /\ KeepTokens(op'[p], op[p])
         /\ op[p].adopting
      \/ /\ op'[p].pc = "save" /\ KeepMode(op'[p], op[p]) /\ KeepTokens(op'[p], op[p])
         /\ ~op[p].adopting
  <2>1. CASE /\ op'[p] = [op[p] EXCEPT !.pc = "commit", !.wrote = TRUE] /\ prev' = op[p].cur
             /\ kc' = op[p].suc
    <3>1. op'[p] = [op[p] EXCEPT !.pc = "commit", !.wrote = TRUE]
      BY <2>1
    <3>2. /\ op'[p].pc = "commit" /\ op'[p].wrote = TRUE /\ op'[p].kind = op[p].kind
          /\ op'[p].adopting = op[p].adopting /\ op'[p].pinned = op[p].pinned
          /\ op'[p].phase = op[p].phase /\ KeepTokens(op'[p], op[p])
      BY <3>1, Types DEF OpRec
    <3> QED BY <2>1, <3>2
  <2>2. CASE /\ op'[p] = [op[p] EXCEPT !.pc = "undo"] /\ op[p].adopting
    <3>1. op'[p] = [op[p] EXCEPT !.pc = "undo"]
      BY <2>2
    <3>2. /\ op'[p].pc = "undo" /\ KeepMode(op'[p], op[p]) /\ KeepTokens(op'[p], op[p])
      BY <3>1, Types DEF OpRec
    <3> QED BY <2>2, <3>2
  <2>3. CASE /\ op'[p] = [op[p] EXCEPT !.pc = "save"] /\ ~op[p].adopting
    <3>1. op'[p] = [op[p] EXCEPT !.pc = "save"]
      BY <2>3
    <3>2. /\ op'[p].pc = "save" /\ KeepMode(op'[p], op[p]) /\ KeepTokens(op'[p], op[p])
      BY <3>1, Types DEF OpRec
    <3> QED BY <2>3, <3>2
  <2> QED BY <1>1, <2>1, <2>2, <2>3
<1> QED BY <1>2, <1>3, <1>4, <1>5, Alone DEF PersistWriteStep

PersistCommitStep(p) ==
    /\ op[p].pc = "commit" /\ assertHeld(p)
    /\ \/ /\ op'[p].pc = "unstash" /\ KeepMode(op'[p], op[p]) /\ KeepTokens(op'[p], op[p])
          /\ op[p].adopting /\ Committed(p)
       \/ /\ op'[p].pc = "cas" /\ KeepMode(op'[p], op[p]) /\ KeepTokens(op'[p], op[p])
          /\ ~op[p].adopting /\ Committed(p)
       \/ /\ op'[p].pc = "undo" /\ KeepMode(op'[p], op[p]) /\ KeepTokens(op'[p], op[p])
          /\ op[p].adopting /\ Uncommitted
       \/ /\ op'[p].pc = "save" /\ KeepMode(op'[p], op[p]) /\ KeepTokens(op'[p], op[p])
          /\ ~op[p].adopting /\ Uncommitted
    /\ kc' = kc /\ prev' = prev /\ stash' = stash /\ LiveSame /\ codex' = codex /\ ProviderSame
    /\ arrived' = arrived /\ gone' = gone /\ torn' = torn /\ skew' = skew /\ late' = late
    /\ used'.stall = used.stall
    /\ op' \in [Ops -> OpRec] /\ \A q \in Ops \ {p} : op'[q] = op[q]
LEMMA PersistCommitDoes == ASSUME TypeOK, NEW p \in Ops, PersistCommit(p) PROVE PersistCommitStep(p)
<1>1. \/ /\ op'[p] = [op[p] EXCEPT !.pc = "unstash"] /\ op[p].adopting /\ Committed(p)
      \/ /\ op'[p] = [op[p] EXCEPT !.pc = "cas"] /\ ~op[p].adopting /\ Committed(p)
      \/ /\ op'[p] = [op[p] EXCEPT !.pc = "undo"] /\ op[p].adopting /\ Uncommitted
      \/ /\ op'[p] = [op[p] EXCEPT !.pc = "save"] /\ ~op[p].adopting /\ Uncommitted
  BY Types DEF PersistCommit, TypeOK, Row
<1>2. op'[p] \in OpRec
  <2>1. {"unstash", "cas", "undo", "save"} \subseteq PCs
    BY DEF PCs
  <2>2. [op[p] EXCEPT !.pc = "unstash"] \in OpRec
    BY <2>1, Types DEF OpRec
  <2>3. [op[p] EXCEPT !.pc = "cas"] \in OpRec
    BY <2>1, Types DEF OpRec
  <2>4. [op[p] EXCEPT !.pc = "undo"] \in OpRec
    BY <2>1, Types DEF OpRec
  <2>5. [op[p] EXCEPT !.pc = "save"] \in OpRec
    BY <2>1, Types DEF OpRec
  <2> QED BY <1>1, <2>2, <2>3, <2>4, <2>5
<1>3. op' = [op EXCEPT ![p] = op'[p]]
  BY DEF PersistCommit, TypeOK
<1>4. /\ op[p].pc = "commit" /\ assertHeld(p) /\ kc' = kc /\ prev' = prev /\ stash' = stash
      /\ LiveSame /\ codex' = codex /\ ProviderSame /\ arrived' = arrived /\ gone' = gone
      /\ torn' = torn /\ skew' = skew /\ late' = late
      /\ used'.stall = used.stall
  BY Types DEF PersistCommit, TypeOK, Row, Bounds
<1> QED BY <1>1, <1>2, <1>3, <1>4, Types, Alone DEF PersistCommitStep, OpRec

PersistLockLostStep(p) ==
    /\ op[p].pc \in {"write", "commit"} /\ ~assertHeld(p) /\ db' = None
    /\ \/ /\ op'[p] = Idle /\ op[p].adopting /\ Freed(p)
       \/ /\ op'[p].pc = "emergency" /\ KeepMode(op'[p], op[p]) /\ KeepTokens(op'[p], op[p])
          /\ ~op[p].adopting /\ sw' = sw /\ auth' = auth
    /\ SlotSame /\ LiveSame /\ codex' = codex /\ ProviderSame /\ PastSame
    /\ used'.stall = used.stall
    /\ op' \in [Ops -> OpRec] /\ \A q \in Ops \ {p} : op'[q] = op[q]
LEMMA PersistLockLostDoes == ASSUME TypeOK, NEW p \in Ops, PersistLockLost(p) PROVE PersistLockLostStep(p)
<1>1. \/ /\ op'[p] = Idle /\ op[p].adopting /\ Freed(p)
      \/ /\ op'[p] = [op[p] EXCEPT !.pc = "emergency"] /\ ~op[p].adopting /\ sw' = sw
         /\ auth' = auth
  BY Types DEF PersistLockLost, TypeOK, Row
<1>2. op'[p] \in OpRec
  <2>1. {"emergency"} \subseteq PCs
    BY DEF PCs
  <2>2. [op[p] EXCEPT !.pc = "emergency"] \in OpRec
    BY <2>1, Types DEF OpRec
  <2> QED BY <1>1, <2>2, IdleType
<1>3. op' = [op EXCEPT ![p] = op'[p]]
  BY DEF PersistLockLost, TypeOK
<1>4. /\ op[p].pc \in {"write", "commit"} /\ ~assertHeld(p) /\ db' = None /\ SlotSame /\ LiveSame
      /\ codex' = codex /\ ProviderSame /\ PastSame
      /\ used'.stall = used.stall
  BY Types DEF PersistLockLost, TypeOK, Row, Bounds
<1> QED BY <1>1, <1>2, <1>3, <1>4, Types, Alone DEF PersistLockLostStep, OpRec

PersistSaveStep(p) ==
    /\ op[p].pc = "save"
    /\ \/ /\ op'[p].pc = "undo" /\ KeepMode(op'[p], op[p]) /\ KeepTokens(op'[p], op[p])
          /\ stash' = stash \cup {[from |-> op[p].cur, to |-> op[p].suc]} /\ kc' = kc
          /\ prev' = prev /\ gone' = gone /\ LocksSame
       \/ /\ op'[p] = Idle /\ gone' = gone \cup {op[p].suc} /\ stash' = stash /\ Freed(p)
          /\ db' = None
          /\ \/ ~op[p].wrote /\ assertHeld(p) /\ kc = op[p].cur /\ prev' = op[p].cur /\ kc' = op[p].suc
             \/ prev' = prev /\ kc' = kc
    /\ row' = row /\ edges' = edges /\ LiveSame /\ codex' = codex /\ ProviderSame
    /\ arrived' = arrived /\ heads' = heads /\ torn' = torn /\ skew' = skew /\ late' = late
    /\ used'.stall = used.stall
    /\ op' \in [Ops -> OpRec] /\ \A q \in Ops \ {p} : op'[q] = op[q]
LEMMA PersistSaveDoes == ASSUME TypeOK, NEW p \in Ops, PersistSave(p) PROVE PersistSaveStep(p)
<1>1. \/ /\ op'[p] = [op[p] EXCEPT !.pc = "undo"]
         /\ stash' = stash \cup {[from |-> op[p].cur, to |-> op[p].suc]} /\ kc' = kc
         /\ prev' = prev /\ gone' = gone /\ LocksSame
      \/ /\ op'[p] = Idle /\ gone' = gone \cup {op[p].suc} /\ stash' = stash /\ Freed(p)
         /\ db' = None
         /\ \/ ~op[p].wrote /\ assertHeld(p) /\ kc = op[p].cur /\ prev' = op[p].cur /\ kc' = op[p].suc
            \/ prev' = prev /\ kc' = kc
  BY Types DEF PersistSave, TypeOK, Row
<1>2. op'[p] \in OpRec
  <2>1. {"undo"} \subseteq PCs
    BY DEF PCs
  <2>2. [op[p] EXCEPT !.pc = "undo"] \in OpRec
    BY <2>1, Types DEF OpRec
  <2> QED BY <1>1, <2>2, IdleType
<1>3. op' = [op EXCEPT ![p] = op'[p]]
  BY DEF PersistSave, TypeOK
<1>4. /\ op[p].pc = "save" /\ row' = row /\ edges' = edges /\ LiveSame /\ codex' = codex
      /\ ProviderSame /\ arrived' = arrived /\ heads' = heads /\ torn' = torn /\ skew' = skew
      /\ late' = late
      /\ used'.stall = used.stall
  BY Types DEF PersistSave, TypeOK, Row, Bounds
<1> QED BY <1>1, <1>2, <1>3, <1>4, Types, Alone DEF PersistSaveStep, OpRec

PersistUndoStep(p) ==
    /\ op[p].pc = "undo" /\ op'[p] = Idle /\ Freed(p) /\ db' = None
    /\ \/ op[p].wrote /\ assertHeld(p) /\ kc = op[p].suc /\ kc' = op[p].cur /\ prev' = op[p].suc
       \/ ~(op[p].wrote /\ assertHeld(p) /\ kc = op[p].suc) /\ kc' = kc /\ prev' = prev
    /\ edges' \in {edges, edges \cup {<<op[p].cur, op[p].suc>>}}
    /\ row' = row /\ stash' = stash /\ LiveSame /\ codex' = codex /\ ProviderSame /\ PastSame
    /\ used'.stall = used.stall
    /\ op' \in [Ops -> OpRec] /\ \A q \in Ops \ {p} : op'[q] = op[q]
LEMMA PersistUndoDoes == ASSUME TypeOK, NEW p \in Ops, PersistUndo(p) PROVE PersistUndoStep(p)
<1>1. op'[p] = Idle
  BY DEF PersistUndo, TypeOK
<1>2. op'[p] \in OpRec
  BY <1>1, IdleType
<1>3. op' = [op EXCEPT ![p] = op'[p]]
  BY DEF PersistUndo, TypeOK
<1>4. /\ op[p].pc = "undo" /\ op'[p] = Idle /\ Freed(p) /\ db' = None
      /\ \/ op[p].wrote /\ assertHeld(p) /\ kc = op[p].suc /\ kc' = op[p].cur /\ prev' = op[p].suc
         \/ ~(op[p].wrote /\ assertHeld(p) /\ kc = op[p].suc) /\ kc' = kc /\ prev' = prev
      /\ edges' \in {edges, edges \cup {<<op[p].cur, op[p].suc>>}}
      /\ row' = row /\ stash' = stash /\ LiveSame /\ codex' = codex /\ ProviderSame /\ PastSame
  BY TokFacts, Types DEF PersistUndo, Idle, OpRec, TypeOK, Row
<1>5. used'.stall = used.stall
  BY DEF PersistUndo, TypeOK, Bounds
<1> QED BY <1>2, <1>3, <1>4, <1>5, Alone DEF PersistUndoStep

StashSuccessorStep(p) ==
    /\ op[p].pc \in {"stash", "emergency"} /\ op'[p] = Idle /\ Freed(p) /\ db' = db
    /\ edges' \in {edges, edges \cup {<<op[p].cur, op[p].suc>>}}
    /\ \/ /\ stash' = stash \cup {[from |-> op[p].cur, to |-> op[p].suc]} /\ gone' = gone
       \/ /\ gone' = gone \cup {op[p].suc} /\ stash' = stash
    /\ row' = row /\ kc' = kc /\ prev' = prev /\ LiveSame /\ codex' = codex /\ ProviderSame
    /\ arrived' = arrived /\ heads' = heads /\ torn' = torn /\ skew' = skew /\ late' = late
    /\ used'.stall = used.stall
    /\ op' \in [Ops -> OpRec] /\ \A q \in Ops \ {p} : op'[q] = op[q]
LEMMA StashSuccessorDoes == ASSUME TypeOK, NEW p \in Ops, StashSuccessor(p) PROVE StashSuccessorStep(p)
<1>1. op'[p] = Idle
  BY DEF StashSuccessor, TypeOK
<1>2. op'[p] \in OpRec
  BY <1>1, IdleType
<1>3. op' = [op EXCEPT ![p] = op'[p]]
  BY DEF StashSuccessor, TypeOK
<1>4. /\ op[p].pc \in {"stash", "emergency"} /\ op'[p] = Idle /\ Freed(p) /\ db' = db
      /\ edges' \in {edges, edges \cup {<<op[p].cur, op[p].suc>>}}
      /\ \/ /\ stash' = stash \cup {[from |-> op[p].cur, to |-> op[p].suc]} /\ gone' = gone
         \/ /\ gone' = gone \cup {op[p].suc} /\ stash' = stash
      /\ row' = row /\ kc' = kc /\ prev' = prev /\ LiveSame /\ codex' = codex /\ ProviderSame
      /\ arrived' = arrived /\ heads' = heads /\ torn' = torn /\ skew' = skew /\ late' = late
  BY TokFacts, Types DEF StashSuccessor, Idle, OpRec, TypeOK, Row
<1>5. used'.stall = used.stall
  BY DEF StashSuccessor, TypeOK, Bounds
<1> QED BY <1>2, <1>3, <1>4, <1>5, Alone DEF StashSuccessorStep

UnstashStep(p) ==
    /\ op[p].pc = "unstash"
    /\ op'[p].pc = "cas" /\ KeepMode(op'[p], op[p]) /\ KeepTokens(op'[p], op[p])
    /\ stash' \in {stash, stash \ {[from |-> op[p].cur, to |-> op[p].suc]}}
    /\ LocksSame /\ row' = row /\ kc' = kc /\ prev' = prev /\ edges' = edges /\ LiveSame
    /\ codex' = codex /\ ProviderSame /\ PastSame
    /\ used'.stall = used.stall
    /\ op' \in [Ops -> OpRec] /\ \A q \in Ops \ {p} : op'[q] = op[q]
LEMMA UnstashDoes == ASSUME TypeOK, NEW p \in Ops, Unstash(p) PROVE UnstashStep(p)
<1>1. op'[p] = [op[p] EXCEPT !.pc = "cas"]
  BY DEF Unstash, TypeOK
<1>2. op'[p] \in OpRec
  <2>1. {"cas"} \subseteq PCs
    BY DEF PCs
  <2>2. [op[p] EXCEPT !.pc = "cas"] \in OpRec
    BY <2>1, Types DEF OpRec
  <2> QED BY <1>1, <2>2
<1>3. op' = [op EXCEPT ![p] = op'[p]]
  BY DEF Unstash, TypeOK
<1>4. /\ op[p].pc = "unstash"
      /\ op'[p].pc = "cas" /\ KeepMode(op'[p], op[p]) /\ KeepTokens(op'[p], op[p])
      /\ stash' \in {stash, stash \ {[from |-> op[p].cur, to |-> op[p].suc]}}
      /\ LocksSame /\ row' = row /\ kc' = kc /\ prev' = prev /\ edges' = edges /\ LiveSame
      /\ codex' = codex /\ ProviderSame /\ PastSame
  BY TokFacts, Types DEF Unstash, Idle, OpRec, TypeOK, Row
<1>5. used'.stall = used.stall
  BY DEF Unstash, TypeOK, Bounds
<1> QED BY <1>2, <1>3, <1>4, <1>5, Alone DEF UnstashStep

PublishCasStep(p) ==
    /\ op[p].pc = "cas"
    /\ \/ /\ op'[p] = Idle /\ Freed(p) /\ db' = db
       \/ /\ op'[p].pc = "rename" /\ KeepMode(op'[p], op[p]) /\ KeepTokens(op'[p], op[p])
          /\ op[p].kind # "refresh" /\ live = op[p].seen /\ LocksSame
       \/ /\ op'[p].pc = "first" /\ op'[p].seen = live /\ op'[p].phase = "post"
          /\ op'[p].kind = op[p].kind /\ op'[p].adopting = op[p].adopting
          /\ op'[p].wrote = op[p].wrote /\ op'[p].pinned = op[p].pinned /\ op'[p].row = op[p].row
          /\ op'[p].kc = op[p].kc /\ op'[p].cur = op[p].cur /\ op'[p].suc = op[p].suc
          /\ op'[p].old = op[p].old /\ op[p].kind # "refresh" /\ live # 0 /\ assertHeld(p)
          /\ LocksSame
    /\ SlotSame /\ LiveSame /\ codex' = codex /\ ProviderSame /\ PastSame
    /\ used'.stall = used.stall
    /\ op' \in [Ops -> OpRec] /\ \A q \in Ops \ {p} : op'[q] = op[q]
LEMMA PublishCasDoes == ASSUME TypeOK, NEW p \in Ops, PublishCas(p) PROVE PublishCasStep(p)
<1>1. \/ /\ op'[p] = Idle /\ Freed(p) /\ db' = db
      \/ /\ op'[p] = [op[p] EXCEPT !.pc = "rename"] /\ op[p].kind # "refresh" /\ live = op[p].seen
         /\ LocksSame
      \/ /\ op'[p] = [op[p] EXCEPT !.pc = "first", !.seen = live, !.phase = "post"]
         /\ op[p].kind # "refresh" /\ live # 0 /\ assertHeld(p) /\ LocksSame
  BY Types DEF PublishCas, TypeOK, Row
<1>2. op'[p] \in OpRec
  <2>1. {"rename", "first"} \subseteq PCs
    BY DEF PCs
  <2>2. [op[p] EXCEPT !.pc = "rename"] \in OpRec
    BY <2>1, Types DEF OpRec
  <2>3. [op[p] EXCEPT !.pc = "first", !.seen = live, !.phase = "post"] \in OpRec
    BY <2>1, Types DEF OpRec
  <2> QED BY <1>1, <2>2, <2>3, IdleType
<1>3. op' = [op EXCEPT ![p] = op'[p]]
  BY DEF PublishCas, TypeOK
<1>4. /\ op[p].pc = "cas" /\ SlotSame /\ LiveSame /\ codex' = codex /\ ProviderSame /\ PastSame
      /\ used'.stall = used.stall
  BY Types DEF PublishCas, TypeOK, Row, Bounds
<1> QED BY <1>1, <1>2, <1>3, <1>4, Types, Alone DEF PublishCasStep, OpRec

PublishRenameStep(p) ==
    /\ op[p].pc = "rename"
    /\ \/ /\ op'[p].pc = "verify" /\ KeepMode(op'[p], op[p]) /\ KeepTokens(op'[p], op[p])
          /\ assertHeld(p) /\ live' = op[p].suc /\ LocksSame
       \/ /\ op'[p] = Idle /\ Freed(p) /\ db' = db /\ live' = live
    /\ SlotSame /\ active' = active /\ codex' = codex /\ ProviderSame /\ PastSame
    /\ used'.stall = used.stall
    /\ op' \in [Ops -> OpRec] /\ \A q \in Ops \ {p} : op'[q] = op[q]
LEMMA PublishRenameDoes == ASSUME TypeOK, NEW p \in Ops, PublishRename(p) PROVE PublishRenameStep(p)
<1>1. \/ /\ op'[p] = [op[p] EXCEPT !.pc = "verify"] /\ assertHeld(p) /\ live' = op[p].suc
         /\ LocksSame
      \/ /\ op'[p] = Idle /\ Freed(p) /\ db' = db /\ live' = live
  BY Types DEF PublishRename, TypeOK, Row
<1>2. op'[p] \in OpRec
  <2>1. {"verify"} \subseteq PCs
    BY DEF PCs
  <2>2. [op[p] EXCEPT !.pc = "verify"] \in OpRec
    BY <2>1, Types DEF OpRec
  <2> QED BY <1>1, <2>2, IdleType
<1>3. op' = [op EXCEPT ![p] = op'[p]]
  BY DEF PublishRename, TypeOK
<1>4. /\ op[p].pc = "rename" /\ SlotSame /\ active' = active /\ codex' = codex /\ ProviderSame
      /\ PastSame
      /\ used'.stall = used.stall
  BY Types DEF PublishRename, TypeOK, Row, Bounds
<1> QED BY <1>1, <1>2, <1>3, <1>4, Types, Alone DEF PublishRenameStep, OpRec

PublishVerifyStep(p) ==
    /\ op[p].pc = "verify"
    /\ \/ /\ op'[p] = Idle /\ Freed(p) /\ db' = db
       \/ /\ op'[p].pc = "first" /\ op'[p].seen = live /\ op'[p].phase = "post"
          /\ op'[p].kind = op[p].kind /\ op'[p].adopting = op[p].adopting
          /\ op'[p].wrote = op[p].wrote /\ op'[p].pinned = op[p].pinned /\ op'[p].row = op[p].row
          /\ op'[p].kc = op[p].kc /\ op'[p].cur = op[p].cur /\ op'[p].suc = op[p].suc
          /\ op'[p].old = op[p].old /\ live # 0 /\ assertHeld(p) /\ LocksSame
    /\ SlotSame /\ LiveSame /\ codex' = codex /\ ProviderSame /\ PastSame
    /\ used'.stall = used.stall
    /\ op' \in [Ops -> OpRec] /\ \A q \in Ops \ {p} : op'[q] = op[q]
LEMMA PublishVerifyDoes == ASSUME TypeOK, NEW p \in Ops, PublishVerify(p) PROVE PublishVerifyStep(p)
<1>1. \/ /\ op'[p] = Idle /\ Freed(p) /\ db' = db
      \/ /\ op'[p] = [op[p] EXCEPT !.pc = "first", !.seen = live, !.phase = "post"] /\ live # 0
         /\ assertHeld(p) /\ LocksSame
  BY Types DEF PublishVerify, TypeOK, Row
<1>2. op'[p] \in OpRec
  <2>1. {"first"} \subseteq PCs
    BY DEF PCs
  <2>2. [op[p] EXCEPT !.pc = "first", !.seen = live, !.phase = "post"] \in OpRec
    BY <2>1, Types DEF OpRec
  <2> QED BY <1>1, <2>2, IdleType
<1>3. op' = [op EXCEPT ![p] = op'[p]]
  BY DEF PublishVerify, TypeOK
<1>4. /\ op[p].pc = "verify" /\ SlotSame /\ LiveSame /\ codex' = codex /\ ProviderSame /\ PastSame
      /\ used'.stall = used.stall
  BY Types DEF PublishVerify, TypeOK, Row, Bounds
<1> QED BY <1>1, <1>2, <1>3, <1>4, Types, Alone DEF PublishVerifyStep, OpRec

CrashStep(p) ==
    /\ op[p].pc # "idle" /\ used.crash < MaxCrashes /\ op'[p] = Idle /\ Freed(p)
    /\ db' = (IF db = p THEN None ELSE db)
    /\ gone' = (IF op[p].pc \in InMemory /\ ~op[p].adopting THEN gone \cup {op[p].suc} ELSE gone)
    /\ torn' = (torn \/ op[p].pc \in {"commit", "adopted"} \/ (op[p].pc = "save" /\ kc = op[p].suc))
    /\ SlotSame /\ LiveSame /\ codex' = codex /\ ProviderSame /\ arrived' = arrived
    /\ heads' = heads /\ skew' = skew /\ late' = late
    /\ used'.stall = used.stall
    /\ op' \in [Ops -> OpRec] /\ \A q \in Ops \ {p} : op'[q] = op[q]
LEMMA CrashDoes == ASSUME TypeOK, NEW p \in Ops, Crash(p) PROVE CrashStep(p)
<1>1. op'[p] = Idle
  BY DEF Crash, InMemory, TypeOK
<1>2. op'[p] \in OpRec
  BY <1>1, IdleType
<1>3. op' = [op EXCEPT ![p] = op'[p]]
  BY DEF Crash, InMemory, TypeOK
<1>4. /\ op[p].pc # "idle" /\ used.crash < MaxCrashes /\ op'[p] = Idle /\ Freed(p)
      /\ db' = (IF db = p THEN None ELSE db)
      /\ gone' = (IF op[p].pc \in InMemory /\ ~op[p].adopting THEN gone \cup {op[p].suc} ELSE gone)
      /\ torn' = (torn \/ op[p].pc \in {"commit", "adopted"} \/ (op[p].pc = "save" /\ kc = op[p].suc))
      /\ SlotSame /\ LiveSame /\ codex' = codex /\ ProviderSame /\ arrived' = arrived
      /\ heads' = heads /\ skew' = skew /\ late' = late
  BY TokFacts, Types DEF Crash, InMemory, Idle, OpRec, TypeOK, Row
<1>5. used'.stall = used.stall
  BY DEF Crash, InMemory, TypeOK, Bounds
<1> QED BY <1>2, <1>3, <1>4, <1>5, Alone DEF CrashStep

LoseSwitchLockStep(p) ==
    /\ sw = p /\ used.stall < MaxStalls /\ sw' = None /\ op' = op
    /\ db' = db /\ auth' = auth /\ SlotSame /\ LiveSame /\ codex' = codex /\ ProviderSame
    /\ PastSame
    /\ used'.stall = used.stall + 1
    /\ op' \in [Ops -> OpRec] /\ \A q \in Ops \ {p} : op'[q] = op[q]
LEMMA LoseSwitchLockDoes == ASSUME TypeOK, NEW p \in Ops, LoseSwitchLock(p) PROVE LoseSwitchLockStep(p)
<1>1. op'[p] = op[p]
  BY DEF LoseSwitchLock, TypeOK
<1>2. op'[p] \in OpRec
  BY <1>1, Types
<1>3. op' = [op EXCEPT ![p] = op'[p]]
  BY DEF LoseSwitchLock, TypeOK
<1>4. /\ sw = p /\ used.stall < MaxStalls /\ sw' = None /\ op' = op
      /\ db' = db /\ auth' = auth /\ SlotSame /\ LiveSame /\ codex' = codex /\ ProviderSame
      /\ PastSame
  BY TokFacts, Types DEF LoseSwitchLock, Idle, OpRec, TypeOK, Row
<1>5. used'.stall = used.stall + 1
  BY DEF LoseSwitchLock, TypeOK, Bounds
<1> QED BY <1>2, <1>3, <1>4, <1>5, Alone DEF LoseSwitchLockStep

LoseAuthLockStep(p) ==
    /\ auth = p /\ used.stall < MaxStalls /\ auth' = None /\ op' = op
    /\ db' = db /\ sw' = sw /\ SlotSame /\ LiveSame /\ codex' = codex /\ ProviderSame /\ PastSame
    /\ used'.stall = used.stall + 1
    /\ op' \in [Ops -> OpRec] /\ \A q \in Ops \ {p} : op'[q] = op[q]
LEMMA LoseAuthLockDoes == ASSUME TypeOK, NEW p \in Ops, LoseAuthLock(p) PROVE LoseAuthLockStep(p)
<1>1. op'[p] = op[p]
  BY DEF LoseAuthLock, TypeOK
<1>2. op'[p] \in OpRec
  BY <1>1, Types
<1>3. op' = [op EXCEPT ![p] = op'[p]]
  BY DEF LoseAuthLock, TypeOK
<1>4. /\ auth = p /\ used.stall < MaxStalls /\ auth' = None /\ op' = op
      /\ db' = db /\ sw' = sw /\ SlotSame /\ LiveSame /\ codex' = codex /\ ProviderSame
      /\ PastSame
  BY TokFacts, Types DEF LoseAuthLock, Idle, OpRec, TypeOK, Row
<1>5. used'.stall = used.stall + 1
  BY DEF LoseAuthLock, TypeOK, Bounds
<1> QED BY <1>2, <1>3, <1>4, <1>5, Alone DEF LoseAuthLockStep

USE DEF Transaction, Attributing, Looked, Consuming, Renewing, Answered, Settled, MayAdopt

LEMMA StartType == ASSUME TypeInv, NEW p \in Ops, Start(p) PROVE TypeInv'
<1> TypeOK
  BY DEF TypeInv
<1>1. StartStep(p)
  BY StartDoes
<1>2. {db', sw', auth'} \subseteq Ops \cup {None} /\ used' \in Bounds
  <2>1. {db', sw', auth'} \subseteq Ops \cup {None}
    BY <1>1 DEF StartStep, TypeOK
  <2>2. used' \in Bounds
    BY BoundsAssumption DEF Start, StartRefresh, StartActive, StartImport, TypeOK, Bounds
  <2> QED BY <2>1, <2>2
<1>6. TypeOK' /\ (active' => row'.fp # 0) /\ (kc' = 0 => row'.fp = 0)
  BY <1>1, <1>2, Types, SameType DEF StartStep
<1>8. Placed(p)'
  <2>1. CASE op'[p].pc = "read" /\ op'[p].kind = "refresh"
    BY <1>1, <2>1, OpsAssumption, TokFacts, Types, KindOf DEF StartStep, Idle, TypeInv, Placed
  <2>2. CASE op'[p].pc = "observe" /\ op'[p].kind = "active"
    BY <1>1, <2>2, OpsAssumption, TokFacts, Types, KindOf DEF StartStep, Idle, TypeInv, Placed
  <2>3. CASE op'[p].pc = "observe" /\ op'[p].kind = "import"
    BY <1>1, <2>3, OpsAssumption, TokFacts, Types, KindOf DEF StartStep, Idle, TypeInv, Placed
  <2> QED BY <1>1, <2>1, <2>2, <2>3 DEF StartStep
<1>9. \A q \in Ops \ {p} : Placed(q)'
  BY <1>1, OthersPlaced, OpsAssumption, TokFacts, Types, KindOf DEF StartStep, TypeInv, Placed
<1> QED BY <1>6, <1>8, <1>9 DEF TypeInv

LEMMA ObserveLiveType == ASSUME TypeInv, NEW p \in Ops, ObserveLive(p) PROVE TypeInv'
<1> TypeOK
  BY DEF TypeInv
<1>1. ObserveLiveStep(p)
  BY ObserveLiveDoes
<1>2. {db', sw', auth'} \subseteq Ops \cup {None} /\ used' \in Bounds
  <2>1. {db', sw', auth'} \subseteq Ops \cup {None}
    BY <1>1 DEF ObserveLiveStep, TypeOK
  <2>2. used' \in Bounds
    BY BoundsAssumption DEF ObserveLive, TypeOK, Bounds
  <2> QED BY <2>1, <2>2
<1>3. row' \in Row /\ kc' \in Tok0 /\ prev' \in Tok0 /\ live' \in Tok0
  BY TokFacts, OpToks, Types DEF ObserveLive, TypeOK, Row
<1>4. edges' \subseteq Tok \X Tok /\ stash' \subseteq Stash
  BY TokFacts, OpToks DEF ObserveLive, TypeOK, Row, Stash
<1>5. {valid', arrived', gone', heads'} \subseteq SUBSET Tok /\ grew' \subseteq Tok \X Tok /\ issued' \in Tok0
  BY TokFacts, OpToks, BoundsAssumption DEF ObserveLive, TypeOK
<1>6. TypeOK' /\ (active' => row'.fp # 0) /\ (kc' = 0 => row'.fp = 0)
  <2>1. {active', torn', skew', late'} \subseteq BOOLEAN /\ codex' \in Tok0
    BY DEF ObserveLive, TypeOK
  <2>2. TypeOK'
    BY <1>1, <1>2, <1>3, <1>4, <1>5, <2>1 DEF ObserveLiveStep, TypeOK
  <2>3. (active' => row'.fp # 0) /\ (kc' = 0 => row'.fp = 0)
    BY <1>1, Types, TokFacts, KindOf DEF ObserveLiveStep, Idle, TypeInv, Placed
  <2> QED BY <2>2, <2>3
<1>8. Placed(p)'
  <2>1. CASE op'[p] = Idle
    BY <1>1, <2>1, IdlePlaced, OpsAssumption DEF ObserveLiveStep, Idle, TypeInv, Placed
  <2>2. CASE op'[p].pc = "first"
    BY <1>1, <2>2, OpsAssumption, TokFacts, Types, KindOf DEF ObserveLiveStep, Idle, TypeInv, Placed
  <2> QED BY <1>1, <2>1, <2>2 DEF ObserveLiveStep
<1>9. \A q \in Ops \ {p} : Placed(q)'
  BY <1>1, OthersPlaced, OpsAssumption, TokFacts, Types, KindOf DEF ObserveLiveStep, TypeInv, Placed
<1> QED BY <1>6, <1>8, <1>9 DEF TypeInv

LEMMA ReadFirstType == ASSUME TypeInv, NEW p \in Ops, ReadFirst(p) PROVE TypeInv'
<1> TypeOK
  BY DEF TypeInv
<1>1. ReadFirstStep(p)
  BY ReadFirstDoes
<1>2. {db', sw', auth'} \subseteq Ops \cup {None} /\ used' \in Bounds
  <2>1. {db', sw', auth'} \subseteq Ops \cup {None}
    BY <1>1 DEF ReadFirstStep, TypeOK
  <2>2. used' \in Bounds
    BY BoundsAssumption DEF ReadFirst, TypeOK, Bounds
  <2> QED BY <2>1, <2>2
<1>6. TypeOK' /\ (active' => row'.fp # 0) /\ (kc' = 0 => row'.fp = 0)
  BY <1>1, <1>2, Types, SameType DEF ReadFirstStep
<1>8. Placed(p)'
  <2>1. CASE op'[p].pc = "second" /\ op[p].kind = "import"
    BY <1>1, <2>1, OpsAssumption, TokFacts, Types, KindOf DEF ReadFirstStep, Idle, TypeInv, Placed
  <2>2. CASE op'[p].pc = "second" /\ op[p].kind # "import"
    BY <1>1, <2>2, OpsAssumption, TokFacts, Types, KindOf DEF ReadFirstStep, Idle, TypeInv, Placed
  <2> QED BY <1>1, <2>1, <2>2 DEF ReadFirstStep
<1>9. \A q \in Ops \ {p} : Placed(q)'
  BY <1>1, OthersPlaced, OpsAssumption, TokFacts, Types, KindOf DEF ReadFirstStep, TypeInv, Placed
<1> QED BY <1>6, <1>8, <1>9 DEF TypeInv

LEMMA ReadSecondType == ASSUME TypeInv, NEW p \in Ops, ReadSecond(p) PROVE TypeInv'
<1> TypeOK
  BY DEF TypeInv
<1>1. ReadSecondStep(p)
  BY ReadSecondDoes
<1>2. {db', sw', auth'} \subseteq Ops \cup {None} /\ used' \in Bounds
  <2>1. {db', sw', auth'} \subseteq Ops \cup {None}
    BY <1>1 DEF ReadSecondStep, TypeOK
  <2>2. used' \in Bounds
    BY BoundsAssumption DEF ReadSecond, TypeOK, Bounds
  <2> QED BY <2>1, <2>2
<1>6. TypeOK' /\ (active' => row'.fp # 0) /\ (kc' = 0 => row'.fp = 0)
  BY <1>1, <1>2, Types, SameType DEF ReadSecondStep
<1>8. Placed(p)'
  <2>1. CASE op'[p].pc = "decide" /\ op[p].kind = "import"
    BY <1>1, <2>1, OpsAssumption, TokFacts, Types, KindOf DEF ReadSecondStep, Idle, TypeInv, Placed
  <2>2. CASE op'[p].pc = "decide" /\ op[p].kind # "import"
    BY <1>1, <2>2, OpsAssumption, TokFacts, Types, KindOf DEF ReadSecondStep, Idle, TypeInv, Placed
  <2> QED BY <1>1, <2>1, <2>2 DEF ReadSecondStep
<1>9. \A q \in Ops \ {p} : Placed(q)'
  BY <1>1, OthersPlaced, OpsAssumption, TokFacts, Types, KindOf DEF ReadSecondStep, TypeInv, Placed
<1> QED BY <1>6, <1>8, <1>9 DEF TypeInv

LEMMA ImportNewType == ASSUME TypeInv, NEW p \in Ops, ImportNew(p) PROVE TypeInv'
<1> TypeOK
  BY DEF TypeInv
<1>1. ImportNewStep(p)
  BY ImportNewDoes
<1>2. {db', sw', auth'} \subseteq Ops \cup {None} /\ used' \in Bounds
  <2>1. {db', sw', auth'} \subseteq Ops \cup {None}
    BY <1>1 DEF ImportNewStep, TypeOK
  <2>2. used' \in Bounds
    BY BoundsAssumption DEF ImportNew, TypeOK, Bounds
  <2> QED BY <2>1, <2>2
<1>3. row' \in Row /\ kc' \in Tok0 /\ prev' \in Tok0 /\ live' \in Tok0
  BY TokFacts, OpToks, Types DEF ImportNew, TypeOK, Row
<1>4. edges' \subseteq Tok \X Tok /\ stash' \subseteq Stash
  BY TokFacts, OpToks DEF ImportNew, TypeOK, Row, Stash
<1>5. {valid', arrived', gone', heads'} \subseteq SUBSET Tok /\ grew' \subseteq Tok \X Tok /\ issued' \in Tok0
  BY TokFacts, OpToks, BoundsAssumption DEF ImportNew, TypeOK
<1>6. TypeOK' /\ (active' => row'.fp # 0) /\ (kc' = 0 => row'.fp = 0)
  <2>1. {active', torn', skew', late'} \subseteq BOOLEAN /\ codex' \in Tok0
    BY DEF ImportNew, TypeOK
  <2>2. TypeOK'
    BY <1>1, <1>2, <1>3, <1>4, <1>5, <2>1 DEF ImportNewStep, TypeOK
  <2>3. (active' => row'.fp # 0) /\ (kc' = 0 => row'.fp = 0)
    BY <1>1, Types, TokFacts, KindOf DEF ImportNewStep, Idle, TypeInv, Placed
  <2> QED BY <2>2, <2>3
<1>8. Placed(p)'
  <2>1. CASE op'[p].pc = "imported"
    BY <1>1, <2>1, OpsAssumption, TokFacts, Types, KindOf DEF ImportNewStep, Idle, TypeInv, Placed
  <2>2. CASE op'[p] = Idle
    BY <1>1, <2>2, IdlePlaced, OpsAssumption DEF ImportNewStep, Idle, TypeInv, Placed
  <2> QED BY <1>1, <2>1, <2>2 DEF ImportNewStep
<1>9. \A q \in Ops \ {p} : Placed(q)'
  BY <1>1, OthersPlaced, OpsAssumption, TokFacts, Types, KindOf DEF ImportNewStep, TypeInv, Placed
<1> QED BY <1>6, <1>8, <1>9 DEF TypeInv

LEMMA ImportCommitType == ASSUME TypeInv, NEW p \in Ops, ImportCommit(p) PROVE TypeInv'
<1> TypeOK
  BY DEF TypeInv
<1>1. ImportCommitStep(p)
  BY ImportCommitDoes
<1>2. {db', sw', auth'} \subseteq Ops \cup {None} /\ used' \in Bounds
  <2>1. {db', sw', auth'} \subseteq Ops \cup {None}
    BY <1>1 DEF ImportCommitStep, TypeOK
  <2>2. used' \in Bounds
    BY BoundsAssumption DEF ImportCommit, TypeOK, Bounds
  <2> QED BY <2>1, <2>2
<1>3. row' \in Row /\ kc' \in Tok0 /\ prev' \in Tok0 /\ live' \in Tok0
  <2>1. op[p].seen \in Tok0 /\ row.fp \in Tok0 /\ row.prev \in Tok0 /\ row \in Row
    BY DEF TypeOK, OpRec, Row
  <2>2. \A d \in BOOLEAN, r \in Tok0, t \in Tok0 : [fp |-> r, prev |-> t, dead |-> d, pend |-> FALSE] \in Row
    BY DEF Row
  <2>3. row' \in Row
    BY <2>1, <2>2 DEF ImportCommit
  <2>4. kc' \in Tok0 /\ prev' \in Tok0 /\ live' \in Tok0
    BY Types DEF ImportCommit
  <2> QED BY <2>3, <2>4
<1>4. edges' \subseteq Tok \X Tok /\ stash' \subseteq Stash
  BY TokFacts, OpToks DEF ImportCommit, TypeOK, Row, Stash
<1>5. {valid', arrived', gone', heads'} \subseteq SUBSET Tok /\ grew' \subseteq Tok \X Tok /\ issued' \in Tok0
  BY TokFacts, OpToks, BoundsAssumption DEF ImportCommit, TypeOK
<1>6. TypeOK' /\ (active' => row'.fp # 0) /\ (kc' = 0 => row'.fp = 0)
  <2>1. {active', torn', skew', late'} \subseteq BOOLEAN /\ codex' \in Tok0
    BY DEF ImportCommit, TypeOK
  <2>2. TypeOK'
    BY <1>1, <1>2, <1>3, <1>4, <1>5, <2>1 DEF ImportCommitStep, TypeOK
  <2>3. (active' => row'.fp # 0) /\ (kc' = 0 => row'.fp = 0)
    BY <1>1, Types, TokFacts, KindOf DEF ImportCommitStep, Idle, TypeInv, Placed
  <2> QED BY <2>2, <2>3
<1>8. Placed(p)'
  BY <1>1, IdlePlaced, OpsAssumption DEF ImportCommitStep, Idle, TypeInv, Placed
<1>9. \A q \in Ops \ {p} : Placed(q)'
  BY <1>1, OthersPlaced, OpsAssumption, TokFacts, Types, KindOf DEF ImportCommitStep, TypeInv, Placed
<1> QED BY <1>6, <1>8, <1>9 DEF TypeInv

LEMMA RepairSplitType == ASSUME TypeInv, NEW p \in Ops, RepairSplit(p) PROVE TypeInv'
<1> TypeOK
  BY DEF TypeInv
<1>1. RepairSplitStep(p)
  BY RepairSplitDoes
<1>2. {db', sw', auth'} \subseteq Ops \cup {None} /\ used' \in Bounds
  <2>1. {db', sw', auth'} \subseteq Ops \cup {None}
    BY <1>1 DEF RepairSplitStep, TypeOK
  <2>2. used' \in Bounds
    BY BoundsAssumption DEF RepairSplit, TypeOK, Bounds
  <2> QED BY <2>1, <2>2
<1>3. row' \in Row /\ kc' \in Tok0 /\ prev' \in Tok0 /\ live' \in Tok0
  BY TokFacts, OpToks, Types DEF RepairSplit, TypeOK, Row
<1>4. edges' \subseteq Tok \X Tok /\ stash' \subseteq Stash
  BY TokFacts, OpToks DEF RepairSplit, TypeOK, Row, Stash
<1>5. {valid', arrived', gone', heads'} \subseteq SUBSET Tok /\ grew' \subseteq Tok \X Tok /\ issued' \in Tok0
  BY TokFacts, OpToks, BoundsAssumption DEF RepairSplit, TypeOK
<1>6. TypeOK' /\ (active' => row'.fp # 0) /\ (kc' = 0 => row'.fp = 0)
  <2>1. {active', torn', skew', late'} \subseteq BOOLEAN /\ codex' \in Tok0
    BY DEF RepairSplit, TypeOK
  <2>2. TypeOK'
    BY <1>1, <1>2, <1>3, <1>4, <1>5, <2>1 DEF RepairSplitStep, TypeOK
  <2>3. (active' => row'.fp # 0) /\ (kc' = 0 => row'.fp = 0)
    BY <1>1, Types, TokFacts, KindOf DEF RepairSplitStep, Idle, TypeInv, Placed
  <2> QED BY <2>2, <2>3
<1>8. Placed(p)'
  <2>1. CASE op'[p].pc = op[p].pc
    BY <1>1, <2>1, OpsAssumption, TokFacts, Types, KindOf DEF RepairSplitStep, Idle, TypeInv, Placed
  <2>2. CASE op'[p] = Idle
    BY <1>1, <2>2, IdlePlaced, OpsAssumption DEF RepairSplitStep, Idle, TypeInv, Placed
  <2> QED BY <1>1, <2>1, <2>2 DEF RepairSplitStep
<1>9. \A q \in Ops \ {p} : Placed(q)'
  BY <1>1, OthersPlaced, OpsAssumption, TokFacts, Types, KindOf DEF RepairSplitStep, TypeInv, Placed
<1> QED BY <1>6, <1>8, <1>9 DEF TypeInv

LEMMA NoopType == ASSUME TypeInv, NEW p \in Ops, Noop(p) PROVE TypeInv'
<1> TypeOK
  BY DEF TypeInv
<1>1. NoopStep(p)
  BY NoopDoes
<1>2. {db', sw', auth'} \subseteq Ops \cup {None} /\ used' \in Bounds
  <2>1. {db', sw', auth'} \subseteq Ops \cup {None}
    BY <1>1 DEF NoopStep, TypeOK
  <2>2. used' \in Bounds
    BY BoundsAssumption DEF Noop, TypeOK, Bounds
  <2> QED BY <2>1, <2>2
<1>6. TypeOK' /\ (active' => row'.fp # 0) /\ (kc' = 0 => row'.fp = 0)
  BY <1>1, <1>2, Types, SameType DEF NoopStep
<1>8. Placed(p)'
  BY <1>1, OpsAssumption, TokFacts, Types, KindOf DEF NoopStep, Idle, TypeInv, Placed
<1>9. \A q \in Ops \ {p} : Placed(q)'
  BY <1>1, OthersPlaced, OpsAssumption, TokFacts, Types, KindOf DEF NoopStep, TypeInv, Placed
<1> QED BY <1>6, <1>8, <1>9 DEF TypeInv

LEMMA RepublishType == ASSUME TypeInv, NEW p \in Ops, Republish(p) PROVE TypeInv'
<1> TypeOK
  BY DEF TypeInv
<1>1. RepublishStep(p)
  BY RepublishDoes
<1>2. {db', sw', auth'} \subseteq Ops \cup {None} /\ used' \in Bounds
  <2>1. {db', sw', auth'} \subseteq Ops \cup {None}
    BY <1>1 DEF RepublishStep, TypeOK
  <2>2. used' \in Bounds
    BY BoundsAssumption DEF Republish, TypeOK, Bounds
  <2> QED BY <2>1, <2>2
<1>6. TypeOK' /\ (active' => row'.fp # 0) /\ (kc' = 0 => row'.fp = 0)
  BY <1>1, <1>2, Types, SameType DEF RepublishStep
<1>8. Placed(p)'
  <2>1. CASE op'[p] = Idle
    BY <1>1, <2>1, IdlePlaced, OpsAssumption DEF RepublishStep, Idle, TypeInv, Placed
  <2>2. CASE op'[p].pc = "observe"
    BY <1>1, <2>2, OpsAssumption, TokFacts, Types, KindOf DEF RepublishStep, Idle, TypeInv, Placed
  <2>3. CASE op'[p].pc = "publish"
    BY <1>1, <2>3, OpsAssumption, TokFacts, Types, KindOf DEF RepublishStep, Idle, TypeInv, Placed
  <2> QED BY <1>1, <2>1, <2>2, <2>3 DEF RepublishStep
<1>9. \A q \in Ops \ {p} : Placed(q)'
  BY <1>1, OthersPlaced, OpsAssumption, TokFacts, Types, KindOf DEF RepublishStep, TypeInv, Placed
<1> QED BY <1>6, <1>8, <1>9 DEF TypeInv

LEMMA PublishSlotType == ASSUME TypeInv, NEW p \in Ops, PublishSlot(p) PROVE TypeInv'
<1> TypeOK
  BY DEF TypeInv
<1>1. PublishSlotStep(p)
  BY PublishSlotDoes
<1>2. {db', sw', auth'} \subseteq Ops \cup {None} /\ used' \in Bounds
  <2>1. {db', sw', auth'} \subseteq Ops \cup {None}
    BY <1>1 DEF PublishSlotStep, TypeOK
  <2>2. used' \in Bounds
    BY BoundsAssumption DEF PublishSlot, TypeOK, Bounds
  <2> QED BY <2>1, <2>2
<1>3. row' \in Row /\ kc' \in Tok0 /\ prev' \in Tok0 /\ live' \in Tok0
  BY TokFacts, OpToks, Types DEF PublishSlot, TypeOK, Row
<1>4. edges' \subseteq Tok \X Tok /\ stash' \subseteq Stash
  BY TokFacts, OpToks DEF PublishSlot, TypeOK, Row, Stash
<1>5. {valid', arrived', gone', heads'} \subseteq SUBSET Tok /\ grew' \subseteq Tok \X Tok /\ issued' \in Tok0
  BY TokFacts, OpToks, BoundsAssumption DEF PublishSlot, TypeOK
<1>6. TypeOK' /\ (active' => row'.fp # 0) /\ (kc' = 0 => row'.fp = 0)
  <2>1. {active', torn', skew', late'} \subseteq BOOLEAN /\ codex' \in Tok0
    BY DEF PublishSlot, TypeOK
  <2>2. TypeOK'
    BY <1>1, <1>2, <1>3, <1>4, <1>5, <2>1 DEF PublishSlotStep, TypeOK
  <2>3. (active' => row'.fp # 0) /\ (kc' = 0 => row'.fp = 0)
    BY <1>1, Types, TokFacts, KindOf DEF PublishSlotStep, Idle, TypeInv, Placed
  <2> QED BY <2>2, <2>3
<1>8. Placed(p)'
  <2>1. CASE op'[p].pc = "mark"
    BY <1>1, <2>1, OpsAssumption, TokFacts, Types, KindOf DEF PublishSlotStep, Idle, TypeInv, Placed
  <2>2. CASE op'[p] = Idle
    BY <1>1, <2>2, IdlePlaced, OpsAssumption DEF PublishSlotStep, Idle, TypeInv, Placed
  <2> QED BY <1>1, <2>1, <2>2 DEF PublishSlotStep
<1>9. \A q \in Ops \ {p} : Placed(q)'
  BY <1>1, OthersPlaced, OpsAssumption, TokFacts, Types, KindOf DEF PublishSlotStep, TypeInv, Placed
<1> QED BY <1>6, <1>8, <1>9 DEF TypeInv

LEMMA MarkType == ASSUME TypeInv, NEW p \in Ops, Mark(p) PROVE TypeInv'
<1> TypeOK
  BY DEF TypeInv
<1>1. MarkStep(p)
  BY MarkDoes
<1>2. {db', sw', auth'} \subseteq Ops \cup {None} /\ used' \in Bounds
  <2>1. {db', sw', auth'} \subseteq Ops \cup {None}
    BY <1>1 DEF MarkStep, TypeOK
  <2>2. used' \in Bounds
    BY BoundsAssumption DEF Mark, TypeOK, Bounds
  <2> QED BY <2>1, <2>2
<1>3. row' \in Row /\ kc' \in Tok0 /\ prev' \in Tok0 /\ live' \in Tok0
  BY TokFacts, OpToks, Types DEF Mark, TypeOK, Row
<1>4. edges' \subseteq Tok \X Tok /\ stash' \subseteq Stash
  BY TokFacts, OpToks DEF Mark, TypeOK, Row, Stash
<1>5. {valid', arrived', gone', heads'} \subseteq SUBSET Tok /\ grew' \subseteq Tok \X Tok /\ issued' \in Tok0
  BY TokFacts, OpToks, BoundsAssumption DEF Mark, TypeOK
<1>6. TypeOK' /\ (active' => row'.fp # 0) /\ (kc' = 0 => row'.fp = 0)
  <2>1. {active', torn', skew', late'} \subseteq BOOLEAN /\ codex' \in Tok0
    BY DEF Mark, TypeOK
  <2>2. TypeOK'
    BY <1>1, <1>2, <1>3, <1>4, <1>5, <2>1 DEF MarkStep, TypeOK
  <2>3. (active' => row'.fp # 0) /\ (kc' = 0 => row'.fp = 0)
    BY <1>1, Types, TokFacts, KindOf DEF MarkStep, Idle, TypeInv, Placed
  <2> QED BY <2>2, <2>3
<1>8. Placed(p)'
  <2>1. CASE op'[p].pc = "due"
    BY <1>1, <2>1, OpsAssumption, TokFacts, Types, KindOf DEF MarkStep, Idle, TypeInv, Placed
  <2>2. CASE op'[p] = Idle
    BY <1>1, <2>2, IdlePlaced, OpsAssumption DEF MarkStep, Idle, TypeInv, Placed
  <2> QED BY <1>1, <2>1, <2>2 DEF MarkStep
<1>9. \A q \in Ops \ {p} : Placed(q)'
  BY <1>1, OthersPlaced, OpsAssumption, TokFacts, Types, KindOf DEF MarkStep, TypeInv, Placed
<1> QED BY <1>6, <1>8, <1>9 DEF TypeInv

LEMMA AdoptType == ASSUME TypeInv, NEW p \in Ops, Adopt(p) PROVE TypeInv'
<1> TypeOK
  BY DEF TypeInv
<1>1. AdoptStep(p)
  BY AdoptDoes
<1>2. {db', sw', auth'} \subseteq Ops \cup {None} /\ used' \in Bounds
  <2>1. {db', sw', auth'} \subseteq Ops \cup {None}
    BY <1>1 DEF AdoptStep, TypeOK
  <2>2. used' \in Bounds
    BY BoundsAssumption DEF Adopt, TypeOK, Bounds
  <2> QED BY <2>1, <2>2
<1>3. row' \in Row /\ kc' \in Tok0 /\ prev' \in Tok0 /\ live' \in Tok0
  BY TokFacts, OpToks, Types DEF Adopt, TypeOK, Row
<1>4. edges' \subseteq Tok \X Tok /\ stash' \subseteq Stash
  BY TokFacts, OpToks DEF Adopt, TypeOK, Row, Stash
<1>5. {valid', arrived', gone', heads'} \subseteq SUBSET Tok /\ grew' \subseteq Tok \X Tok /\ issued' \in Tok0
  BY TokFacts, OpToks, BoundsAssumption DEF Adopt, TypeOK
<1>6. TypeOK' /\ (active' => row'.fp # 0) /\ (kc' = 0 => row'.fp = 0)
  <2>1. {active', torn', skew', late'} \subseteq BOOLEAN /\ codex' \in Tok0
    BY DEF Adopt, TypeOK
  <2>2. TypeOK'
    BY <1>1, <1>2, <1>3, <1>4, <1>5, <2>1 DEF AdoptStep, TypeOK
  <2>3. (active' => row'.fp # 0) /\ (kc' = 0 => row'.fp = 0)
    BY <1>1, Types, TokFacts, KindOf DEF AdoptStep, Idle, TypeInv, Placed
  <2> QED BY <2>2, <2>3
<1>8. Placed(p)'
  <2>1. CASE op'[p].pc = "adopted"
    BY <1>1, <2>1, OpsAssumption, TokFacts, Types, KindOf DEF AdoptStep, Idle, TypeInv, Placed
  <2>2. CASE op'[p] = Idle
    BY <1>1, <2>2, IdlePlaced, OpsAssumption DEF AdoptStep, Idle, TypeInv, Placed
  <2> QED BY <1>1, <2>1, <2>2 DEF AdoptStep
<1>9. \A q \in Ops \ {p} : Placed(q)'
  BY <1>1, OthersPlaced, OpsAssumption, TokFacts, Types, KindOf DEF AdoptStep, TypeInv, Placed
<1> QED BY <1>6, <1>8, <1>9 DEF TypeInv

LEMMA AdoptCommitType == ASSUME TypeInv, NEW p \in Ops, AdoptCommit(p) PROVE TypeInv'
<1> TypeOK
  BY DEF TypeInv
<1>1. AdoptCommitStep(p)
  BY AdoptCommitDoes
<1>2. {db', sw', auth'} \subseteq Ops \cup {None} /\ used' \in Bounds
  <2>1. {db', sw', auth'} \subseteq Ops \cup {None}
    BY <1>1 DEF AdoptCommitStep, TypeOK
  <2>2. used' \in Bounds
    BY BoundsAssumption DEF AdoptCommit, TypeOK, Bounds
  <2> QED BY <2>1, <2>2
<1>3. row' \in Row /\ kc' \in Tok0 /\ prev' \in Tok0 /\ live' \in Tok0
  BY TokFacts, OpToks, Types DEF AdoptCommit, TypeOK, Row
<1>4. edges' \subseteq Tok \X Tok /\ stash' \subseteq Stash
  BY TokFacts, OpToks DEF AdoptCommit, TypeOK, Row, Stash
<1>5. {valid', arrived', gone', heads'} \subseteq SUBSET Tok /\ grew' \subseteq Tok \X Tok /\ issued' \in Tok0
  BY TokFacts, OpToks, BoundsAssumption DEF AdoptCommit, TypeOK
<1>6. TypeOK' /\ (active' => row'.fp # 0) /\ (kc' = 0 => row'.fp = 0)
  <2>1. {active', torn', skew', late'} \subseteq BOOLEAN /\ codex' \in Tok0
    BY DEF AdoptCommit, TypeOK
  <2>2. TypeOK'
    BY <1>1, <1>2, <1>3, <1>4, <1>5, <2>1 DEF AdoptCommitStep, TypeOK
  <2>3. (active' => row'.fp # 0) /\ (kc' = 0 => row'.fp = 0)
    BY <1>1, Types, TokFacts, KindOf DEF AdoptCommitStep, Idle, TypeInv, Placed
  <2> QED BY <2>2, <2>3
<1>8. Placed(p)'
  <2>1. CASE op'[p].pc = "due"
    BY <1>1, <2>1, OpsAssumption, TokFacts, Types, KindOf DEF AdoptCommitStep, Idle, TypeInv, Placed
  <2>2. CASE op'[p] = Idle
    BY <1>1, <2>2, IdlePlaced, OpsAssumption DEF AdoptCommitStep, Idle, TypeInv, Placed
  <2> QED BY <1>1, <2>1, <2>2 DEF AdoptCommitStep
<1>9. \A q \in Ops \ {p} : Placed(q)'
  BY <1>1, OthersPlaced, OpsAssumption, TokFacts, Types, KindOf DEF AdoptCommitStep, TypeInv, Placed
<1> QED BY <1>6, <1>8, <1>9 DEF TypeInv

LEMMA AdoptUndoType == ASSUME TypeInv, NEW p \in Ops, AdoptUndo(p) PROVE TypeInv'
<1> TypeOK
  BY DEF TypeInv
<1>1. AdoptUndoStep(p)
  BY AdoptUndoDoes
<1>2. {db', sw', auth'} \subseteq Ops \cup {None} /\ used' \in Bounds
  <2>1. {db', sw', auth'} \subseteq Ops \cup {None}
    BY <1>1 DEF AdoptUndoStep, TypeOK
  <2>2. used' \in Bounds
    BY BoundsAssumption DEF AdoptUndo, TypeOK, Bounds
  <2> QED BY <2>1, <2>2
<1>3. row' \in Row /\ kc' \in Tok0 /\ prev' \in Tok0 /\ live' \in Tok0
  BY TokFacts, OpToks, Types DEF AdoptUndo, TypeOK, Row
<1>4. edges' \subseteq Tok \X Tok /\ stash' \subseteq Stash
  BY TokFacts, OpToks DEF AdoptUndo, TypeOK, Row, Stash
<1>5. {valid', arrived', gone', heads'} \subseteq SUBSET Tok /\ grew' \subseteq Tok \X Tok /\ issued' \in Tok0
  BY TokFacts, OpToks, BoundsAssumption DEF AdoptUndo, TypeOK
<1>6. TypeOK' /\ (active' => row'.fp # 0) /\ (kc' = 0 => row'.fp = 0)
  <2>1. {active', torn', skew', late'} \subseteq BOOLEAN /\ codex' \in Tok0
    BY DEF AdoptUndo, TypeOK
  <2>2. TypeOK'
    BY <1>1, <1>2, <1>3, <1>4, <1>5, <2>1 DEF AdoptUndoStep, TypeOK
  <2>3. (active' => row'.fp # 0) /\ (kc' = 0 => row'.fp = 0)
    BY <1>1, Types, TokFacts, KindOf DEF AdoptUndoStep, Idle, TypeInv, Placed
  <2> QED BY <2>2, <2>3
<1>8. Placed(p)'
  BY <1>1, IdlePlaced, OpsAssumption DEF AdoptUndoStep, Idle, TypeInv, Placed
<1>9. \A q \in Ops \ {p} : Placed(q)'
  BY <1>1, OthersPlaced, OpsAssumption, TokFacts, Types, KindOf DEF AdoptUndoStep, TypeInv, Placed
<1> QED BY <1>6, <1>8, <1>9 DEF TypeInv

LEMMA DueType == ASSUME TypeInv, NEW p \in Ops, Due(p) PROVE TypeInv'
<1> TypeOK
  BY DEF TypeInv
<1>1. DueStep(p)
  BY DueDoes
<1>2. {db', sw', auth'} \subseteq Ops \cup {None} /\ used' \in Bounds
  <2>1. {db', sw', auth'} \subseteq Ops \cup {None}
    BY <1>1 DEF DueStep, TypeOK
  <2>2. used' \in Bounds
    BY BoundsAssumption DEF Due, TypeOK, Bounds
  <2> QED BY <2>1, <2>2
<1>6. TypeOK' /\ (active' => row'.fp # 0) /\ (kc' = 0 => row'.fp = 0)
  BY <1>1, <1>2, Types, SameType DEF DueStep
<1>8. Placed(p)'
  <2>1. CASE op'[p] = Idle
    BY <1>1, <2>1, IdlePlaced, OpsAssumption DEF DueStep, Idle, TypeInv, Placed
  <2>2. CASE op'[p].pc = "read"
    BY <1>1, <2>2, OpsAssumption, TokFacts, Types, KindOf DEF DueStep, Idle, TypeInv, Placed
  <2> QED BY <1>1, <2>1, <2>2 DEF DueStep
<1>9. \A q \in Ops \ {p} : Placed(q)'
  BY <1>1, OthersPlaced, OpsAssumption, TokFacts, Types, KindOf DEF DueStep, TypeInv, Placed
<1> QED BY <1>6, <1>8, <1>9 DEF TypeInv

LEMMA ReadSlotType == ASSUME TypeInv, NEW p \in Ops, ReadSlot(p) PROVE TypeInv'
<1> TypeOK
  BY DEF TypeInv
<1>1. ReadSlotStep(p)
  BY ReadSlotDoes
<1>2. {db', sw', auth'} \subseteq Ops \cup {None} /\ used' \in Bounds
  <2>1. {db', sw', auth'} \subseteq Ops \cup {None}
    BY <1>1 DEF ReadSlotStep, TypeOK
  <2>2. used' \in Bounds
    BY BoundsAssumption DEF ReadSlot, TypeOK, Bounds
  <2> QED BY <2>1, <2>2
<1>6. TypeOK' /\ (active' => row'.fp # 0) /\ (kc' = 0 => row'.fp = 0)
  BY <1>1, <1>2, Types, SameType DEF ReadSlotStep
<1>8. Placed(p)'
  BY <1>1, OpsAssumption, TokFacts, Types, KindOf DEF ReadSlotStep, Idle, TypeInv, Placed
<1>9. \A q \in Ops \ {p} : Placed(q)'
  BY <1>1, OthersPlaced, OpsAssumption, TokFacts, Types, KindOf DEF ReadSlotStep, TypeInv, Placed
<1> QED BY <1>6, <1>8, <1>9 DEF TypeInv

LEMMA RepairDriftType == ASSUME TypeInv, NEW p \in Ops, RepairDrift(p) PROVE TypeInv'
<1> TypeOK
  BY DEF TypeInv
<1>1. RepairDriftStep(p)
  BY RepairDriftDoes
<1>2. {db', sw', auth'} \subseteq Ops \cup {None} /\ used' \in Bounds
  <2>1. {db', sw', auth'} \subseteq Ops \cup {None}
    BY <1>1 DEF RepairDriftStep, TypeOK
  <2>2. used' \in Bounds
    BY BoundsAssumption DEF RepairDrift, TypeOK, Bounds
  <2> QED BY <2>1, <2>2
<1>3. row' \in Row /\ kc' \in Tok0 /\ prev' \in Tok0 /\ live' \in Tok0
  BY TokFacts, OpToks, Types DEF RepairDrift, TypeOK, Row
<1>4. edges' \subseteq Tok \X Tok /\ stash' \subseteq Stash
  BY TokFacts, OpToks DEF RepairDrift, TypeOK, Row, Stash
<1>5. {valid', arrived', gone', heads'} \subseteq SUBSET Tok /\ grew' \subseteq Tok \X Tok /\ issued' \in Tok0
  BY TokFacts, OpToks, BoundsAssumption DEF RepairDrift, TypeOK
<1>6. TypeOK' /\ (active' => row'.fp # 0) /\ (kc' = 0 => row'.fp = 0)
  <2>1. {active', torn', skew', late'} \subseteq BOOLEAN /\ codex' \in Tok0
    BY DEF RepairDrift, TypeOK
  <2>2. TypeOK'
    BY <1>1, <1>2, <1>3, <1>4, <1>5, <2>1 DEF RepairDriftStep, TypeOK
  <2>3. (active' => row'.fp # 0) /\ (kc' = 0 => row'.fp = 0)
    BY <1>1, Types, TokFacts, KindOf DEF RepairDriftStep, Idle, TypeInv, Placed
  <2> QED BY <2>2, <2>3
<1>8. Placed(p)'
  <2>1. CASE op'[p].pc = "find"
    BY <1>1, <2>1, OpsAssumption, TokFacts, Types, KindOf DEF RepairDriftStep, Idle, TypeInv, Placed
  <2>2. CASE op'[p] = Idle
    BY <1>1, <2>2, IdlePlaced, OpsAssumption DEF RepairDriftStep, Idle, TypeInv, Placed
  <2> QED BY <1>1, <2>1, <2>2 DEF RepairDriftStep
<1>9. \A q \in Ops \ {p} : Placed(q)'
  BY <1>1, OthersPlaced, OpsAssumption, TokFacts, Types, KindOf DEF RepairDriftStep, TypeInv, Placed
<1> QED BY <1>6, <1>8, <1>9 DEF TypeInv

LEMMA FindStashedType == ASSUME TypeInv, NEW p \in Ops, FindStashed(p) PROVE TypeInv'
<1> TypeOK
  BY DEF TypeInv
<1>1. FindStashedStep(p)
  BY FindStashedDoes
<1>2. {db', sw', auth'} \subseteq Ops \cup {None} /\ used' \in Bounds
  <2>1. {db', sw', auth'} \subseteq Ops \cup {None}
    BY <1>1 DEF FindStashedStep, TypeOK
  <2>2. used' \in Bounds
    BY BoundsAssumption DEF FindStashed, TypeOK, Bounds
  <2> QED BY <2>1, <2>2
<1>6. TypeOK' /\ (active' => row'.fp # 0) /\ (kc' = 0 => row'.fp = 0)
  BY <1>1, <1>2, Types, SameType DEF FindStashedStep
<1>8. Placed(p)'
  <2>1. CASE op'[p].pc = "begin"
    BY <1>1, <2>1, OpsAssumption, TokFacts, Types, KindOf DEF FindStashedStep, Idle, TypeInv, Placed
  <2>2. CASE op'[p] = Idle
    BY <1>1, <2>2, IdlePlaced, OpsAssumption DEF FindStashedStep, Idle, TypeInv, Placed
  <2>3. CASE op'[p].pc = "post"
    BY <1>1, <2>3, OpsAssumption, TokFacts, Types, KindOf DEF FindStashedStep, Idle, TypeInv, Placed
  <2> QED BY <1>1, <2>1, <2>2, <2>3 DEF FindStashedStep
<1>9. \A q \in Ops \ {p} : Placed(q)'
  BY <1>1, OthersPlaced, OpsAssumption, TokFacts, Types, KindOf DEF FindStashedStep, TypeInv, Placed
<1> QED BY <1>6, <1>8, <1>9 DEF TypeInv

LEMMA PostType == ASSUME TypeInv, NEW p \in Ops, Post(p) PROVE TypeInv'
<1> TypeOK
  BY DEF TypeInv
<1>1. PostStep(p)
  BY PostDoes
<1>2. {db', sw', auth'} \subseteq Ops \cup {None} /\ used' \in Bounds
  <2>1. {db', sw', auth'} \subseteq Ops \cup {None}
    BY <1>1 DEF PostStep, TypeOK
  <2>2. used' \in Bounds
    BY BoundsAssumption DEF Post, TypeOK, Bounds
  <2> QED BY <2>1, <2>2
<1>3. row' \in Row /\ kc' \in Tok0 /\ prev' \in Tok0 /\ live' \in Tok0
  BY TokFacts, OpToks, Types DEF Post, TypeOK, Row
<1>4. edges' \subseteq Tok \X Tok /\ stash' \subseteq Stash
  BY TokFacts, OpToks DEF Post, TypeOK, Row, Stash
<1>5. {valid', arrived', gone', heads'} \subseteq SUBSET Tok /\ grew' \subseteq Tok \X Tok /\ issued' \in Tok0
  BY TokFacts, OpToks, BoundsAssumption DEF Post, TypeOK, Tok, Tok0
<1>6. TypeOK' /\ (active' => row'.fp # 0) /\ (kc' = 0 => row'.fp = 0)
  <2>1. {active', torn', skew', late'} \subseteq BOOLEAN /\ codex' \in Tok0
    BY DEF Post, TypeOK
  <2>2. TypeOK'
    BY <1>1, <1>2, <1>3, <1>4, <1>5, <2>1 DEF PostStep, TypeOK
  <2>3. (active' => row'.fp # 0) /\ (kc' = 0 => row'.fp = 0)
    BY <1>1, Types, TokFacts, KindOf DEF PostStep, Idle, TypeInv, Placed
  <2> QED BY <2>2, <2>3
<1>8. Placed(p)'
  <2>1. CASE op'[p].pc = "got"
    BY <1>1, <2>1, OpsAssumption, TokFacts, Types, KindOf DEF PostStep, Idle, TypeInv, Placed
  <2>2. CASE op'[p] = Idle
    BY <1>1, <2>2, IdlePlaced, OpsAssumption DEF PostStep, Idle, TypeInv, Placed
  <2> QED BY <1>1, <2>1, <2>2 DEF PostStep
<1>9. \A q \in Ops \ {p} : Placed(q)'
  BY <1>1, OthersPlaced, OpsAssumption, TokFacts, Types, KindOf DEF PostStep, TypeInv, Placed
<1> QED BY <1>6, <1>8, <1>9 DEF TypeInv

LEMMA PostRejectedType == ASSUME TypeInv, NEW p \in Ops, PostRejected(p) PROVE TypeInv'
<1> TypeOK
  BY DEF TypeInv
<1>1. PostRejectedStep(p)
  BY PostRejectedDoes
<1>2. {db', sw', auth'} \subseteq Ops \cup {None} /\ used' \in Bounds
  <2>1. {db', sw', auth'} \subseteq Ops \cup {None}
    BY <1>1 DEF PostRejectedStep, TypeOK
  <2>2. used' \in Bounds
    BY BoundsAssumption DEF PostRejected, TypeOK, Bounds
  <2> QED BY <2>1, <2>2
<1>6. TypeOK' /\ (active' => row'.fp # 0) /\ (kc' = 0 => row'.fp = 0)
  BY <1>1, <1>2, Types, SameType DEF PostRejectedStep
<1>8. Placed(p)'
  BY <1>1, OpsAssumption, TokFacts, Types, KindOf DEF PostRejectedStep, Idle, TypeInv, Placed
<1>9. \A q \in Ops \ {p} : Placed(q)'
  BY <1>1, OthersPlaced, OpsAssumption, TokFacts, Types, KindOf DEF PostRejectedStep, TypeInv, Placed
<1> QED BY <1>6, <1>8, <1>9 DEF TypeInv

LEMMA PostFailedType == ASSUME TypeInv, NEW p \in Ops, PostFailed(p) PROVE TypeInv'
<1> TypeOK
  BY DEF TypeInv
<1>1. PostFailedStep(p)
  BY PostFailedDoes
<1>2. {db', sw', auth'} \subseteq Ops \cup {None} /\ used' \in Bounds
  <2>1. {db', sw', auth'} \subseteq Ops \cup {None}
    BY <1>1 DEF PostFailedStep, TypeOK
  <2>2. used' \in Bounds
    BY BoundsAssumption DEF PostFailed, TypeOK, Bounds
  <2> QED BY <2>1, <2>2
<1>6. TypeOK' /\ (active' => row'.fp # 0) /\ (kc' = 0 => row'.fp = 0)
  BY <1>1, <1>2, Types, SameType DEF PostFailedStep
<1>8. Placed(p)'
  BY <1>1, IdlePlaced, OpsAssumption DEF PostFailedStep, Idle, TypeInv, Placed
<1>9. \A q \in Ops \ {p} : Placed(q)'
  BY <1>1, OthersPlaced, OpsAssumption, TokFacts, Types, KindOf DEF PostFailedStep, TypeInv, Placed
<1> QED BY <1>6, <1>8, <1>9 DEF TypeInv

LEMMA RejectedType == ASSUME TypeInv, NEW p \in Ops, Rejected(p) PROVE TypeInv'
<1> TypeOK
  BY DEF TypeInv
<1>1. RejectedStep(p)
  BY RejectedDoes
<1>2. {db', sw', auth'} \subseteq Ops \cup {None} /\ used' \in Bounds
  <2>1. {db', sw', auth'} \subseteq Ops \cup {None}
    BY <1>1 DEF RejectedStep, TypeOK
  <2>2. used' \in Bounds
    BY BoundsAssumption DEF Rejected, TypeOK, Bounds
  <2> QED BY <2>1, <2>2
<1>6. TypeOK' /\ (active' => row'.fp # 0) /\ (kc' = 0 => row'.fp = 0)
  BY <1>1, <1>2, Types, SameType DEF RejectedStep
<1>8. Placed(p)'
  <2>1. CASE op'[p].pc = "refused"
    BY <1>1, <2>1, OpsAssumption, TokFacts, Types, KindOf DEF RejectedStep, Idle, TypeInv, Placed
  <2>2. CASE op'[p] = Idle
    BY <1>1, <2>2, IdlePlaced, OpsAssumption DEF RejectedStep, Idle, TypeInv, Placed
  <2> QED BY <1>1, <2>1, <2>2 DEF RejectedStep
<1>9. \A q \in Ops \ {p} : Placed(q)'
  BY <1>1, OthersPlaced, OpsAssumption, TokFacts, Types, KindOf DEF RejectedStep, TypeInv, Placed
<1> QED BY <1>6, <1>8, <1>9 DEF TypeInv

LEMMA RecordRejectedType == ASSUME TypeInv, NEW p \in Ops, RecordRejected(p) PROVE TypeInv'
<1> TypeOK
  BY DEF TypeInv
<1>1. RecordRejectedStep(p)
  BY RecordRejectedDoes
<1>2. {db', sw', auth'} \subseteq Ops \cup {None} /\ used' \in Bounds
  <2>1. {db', sw', auth'} \subseteq Ops \cup {None}
    BY <1>1 DEF RecordRejectedStep, TypeOK
  <2>2. used' \in Bounds
    BY BoundsAssumption DEF RecordRejected, TypeOK, Bounds
  <2> QED BY <2>1, <2>2
<1>3. row' \in Row /\ kc' \in Tok0 /\ prev' \in Tok0 /\ live' \in Tok0
  BY TokFacts, OpToks, Types DEF RecordRejected, TypeOK, Row
<1>4. edges' \subseteq Tok \X Tok /\ stash' \subseteq Stash
  BY TokFacts, OpToks DEF RecordRejected, TypeOK, Row, Stash
<1>5. {valid', arrived', gone', heads'} \subseteq SUBSET Tok /\ grew' \subseteq Tok \X Tok /\ issued' \in Tok0
  BY TokFacts, OpToks, BoundsAssumption DEF RecordRejected, TypeOK
<1>6. TypeOK' /\ (active' => row'.fp # 0) /\ (kc' = 0 => row'.fp = 0)
  <2>1. {active', torn', skew', late'} \subseteq BOOLEAN /\ codex' \in Tok0
    BY DEF RecordRejected, TypeOK
  <2>2. TypeOK'
    BY <1>1, <1>2, <1>3, <1>4, <1>5, <2>1 DEF RecordRejectedStep, TypeOK
  <2>3. (active' => row'.fp # 0) /\ (kc' = 0 => row'.fp = 0)
    BY <1>1, Types, TokFacts, KindOf DEF RecordRejectedStep, Idle, TypeInv, Placed
  <2> QED BY <2>2, <2>3
<1>8. Placed(p)'
  <2>1. CASE op'[p].pc = "observe"
    BY <1>1, <2>1, OpsAssumption, TokFacts, Types, KindOf DEF RecordRejectedStep, Idle, TypeInv, Placed
  <2>2. CASE op'[p] = Idle
    BY <1>1, <2>2, IdlePlaced, OpsAssumption DEF RecordRejectedStep, Idle, TypeInv, Placed
  <2> QED BY <1>1, <2>1, <2>2 DEF RecordRejectedStep
<1>9. \A q \in Ops \ {p} : Placed(q)'
  BY <1>1, OthersPlaced, OpsAssumption, TokFacts, Types, KindOf DEF RecordRejectedStep, TypeInv, Placed
<1> QED BY <1>6, <1>8, <1>9 DEF TypeInv

LEMMA GotSuccessorType == ASSUME TypeInv, NEW p \in Ops, GotSuccessor(p) PROVE TypeInv'
<1> TypeOK
  BY DEF TypeInv
<1>1. GotSuccessorStep(p)
  BY GotSuccessorDoes
<1>2. {db', sw', auth'} \subseteq Ops \cup {None} /\ used' \in Bounds
  <2>1. {db', sw', auth'} \subseteq Ops \cup {None}
    BY <1>1 DEF GotSuccessorStep, TypeOK
  <2>2. used' \in Bounds
    BY BoundsAssumption DEF GotSuccessor, TypeOK, Bounds
  <2> QED BY <2>1, <2>2
<1>6. TypeOK' /\ (active' => row'.fp # 0) /\ (kc' = 0 => row'.fp = 0)
  BY <1>1, <1>2, Types, SameType DEF GotSuccessorStep
<1>8. Placed(p)'
  <2>1. CASE op'[p].pc = "begin"
    BY <1>1, <2>1, OpsAssumption, TokFacts, Types, KindOf DEF GotSuccessorStep, Idle, TypeInv, Placed
  <2>2. CASE op'[p].pc = "stash"
    BY <1>1, <2>2, OpsAssumption, TokFacts, Types, KindOf DEF GotSuccessorStep, Idle, TypeInv, Placed
  <2> QED BY <1>1, <2>1, <2>2 DEF GotSuccessorStep
<1>9. \A q \in Ops \ {p} : Placed(q)'
  BY <1>1, OthersPlaced, OpsAssumption, TokFacts, Types, KindOf DEF GotSuccessorStep, TypeInv, Placed
<1> QED BY <1>6, <1>8, <1>9 DEF TypeInv

LEMMA PersistBeginType == ASSUME TypeInv, NEW p \in Ops, PersistBegin(p) PROVE TypeInv'
<1> TypeOK
  BY DEF TypeInv
<1>1. PersistBeginStep(p)
  BY PersistBeginDoes
<1>2. {db', sw', auth'} \subseteq Ops \cup {None} /\ used' \in Bounds
  <2>1. {db', sw', auth'} \subseteq Ops \cup {None}
    BY <1>1 DEF PersistBeginStep, TypeOK
  <2>2. used' \in Bounds
    BY BoundsAssumption DEF PersistBegin, TypeOK, Bounds
  <2> QED BY <2>1, <2>2
<1>6. TypeOK' /\ (active' => row'.fp # 0) /\ (kc' = 0 => row'.fp = 0)
  BY <1>1, <1>2, Types, SameType DEF PersistBeginStep
<1>8. Placed(p)'
  <2>1. CASE op'[p].pc = "write"
    BY <1>1, <2>1, OpsAssumption, TokFacts, Types, KindOf DEF PersistBeginStep, Idle, TypeInv, Placed
  <2>2. CASE op'[p] = Idle
    BY <1>1, <2>2, IdlePlaced, OpsAssumption DEF PersistBeginStep, Idle, TypeInv, Placed
  <2>3. CASE op'[p].pc = "stash"
    BY <1>1, <2>3, OpsAssumption, TokFacts, Types, KindOf DEF PersistBeginStep, Idle, TypeInv, Placed
  <2>4. CASE op'[p].pc = "emergency"
    BY <1>1, <2>4, OpsAssumption, TokFacts, Types, KindOf DEF PersistBeginStep, Idle, TypeInv, Placed
  <2> QED BY <1>1, <2>1, <2>2, <2>3, <2>4 DEF PersistBeginStep
<1>9. \A q \in Ops \ {p} : Placed(q)'
  BY <1>1, OthersPlaced, OpsAssumption, TokFacts, Types, KindOf DEF PersistBeginStep, TypeInv, Placed
<1> QED BY <1>6, <1>8, <1>9 DEF TypeInv

LEMMA PersistWriteType == ASSUME TypeInv, NEW p \in Ops, PersistWrite(p) PROVE TypeInv'
<1> TypeOK
  BY DEF TypeInv
<1>1. PersistWriteStep(p)
  BY PersistWriteDoes
<1>2. {db', sw', auth'} \subseteq Ops \cup {None} /\ used' \in Bounds
  <2>1. {db', sw', auth'} \subseteq Ops \cup {None}
    BY <1>1 DEF PersistWriteStep, TypeOK
  <2>2. used' \in Bounds
    BY BoundsAssumption DEF PersistWrite, TypeOK, Bounds
  <2> QED BY <2>1, <2>2
<1>3. row' \in Row /\ kc' \in Tok0 /\ prev' \in Tok0 /\ live' \in Tok0
  BY TokFacts, OpToks, Types DEF PersistWrite, TypeOK, Row
<1>4. edges' \subseteq Tok \X Tok /\ stash' \subseteq Stash
  BY TokFacts, OpToks DEF PersistWrite, TypeOK, Row, Stash
<1>5. {valid', arrived', gone', heads'} \subseteq SUBSET Tok /\ grew' \subseteq Tok \X Tok /\ issued' \in Tok0
  BY TokFacts, OpToks, BoundsAssumption DEF PersistWrite, TypeOK
<1>6. TypeOK' /\ (active' => row'.fp # 0) /\ (kc' = 0 => row'.fp = 0)
  <2>1. {active', torn', skew', late'} \subseteq BOOLEAN /\ codex' \in Tok0
    BY DEF PersistWrite, TypeOK
  <2>2. TypeOK'
    BY <1>1, <1>2, <1>3, <1>4, <1>5, <2>1 DEF PersistWriteStep, TypeOK
  <2>3. (active' => row'.fp # 0) /\ (kc' = 0 => row'.fp = 0)
    BY <1>1, Types, TokFacts, KindOf DEF PersistWriteStep, Idle, TypeInv, Placed
  <2> QED BY <2>2, <2>3
<1>8. Placed(p)'
  <2>1. CASE op'[p].pc = "commit"
    BY <1>1, <2>1, OpsAssumption, TokFacts, Types, KindOf DEF PersistWriteStep, Idle, TypeInv, Placed
  <2>2. CASE op'[p].pc = "undo"
    BY <1>1, <2>2, OpsAssumption, TokFacts, Types, KindOf DEF PersistWriteStep, Idle, TypeInv, Placed
  <2>3. CASE op'[p].pc = "save"
    BY <1>1, <2>3, OpsAssumption, TokFacts, Types, KindOf DEF PersistWriteStep, Idle, TypeInv, Placed
  <2> QED BY <1>1, <2>1, <2>2, <2>3 DEF PersistWriteStep
<1>9. \A q \in Ops \ {p} : Placed(q)'
  BY <1>1, OthersPlaced, OpsAssumption, TokFacts, Types, KindOf DEF PersistWriteStep, TypeInv, Placed
<1> QED BY <1>6, <1>8, <1>9 DEF TypeInv

LEMMA PersistCommitType == ASSUME TypeInv, NEW p \in Ops, PersistCommit(p) PROVE TypeInv'
<1> TypeOK
  BY DEF TypeInv
<1>1. PersistCommitStep(p)
  BY PersistCommitDoes
<1>2. {db', sw', auth'} \subseteq Ops \cup {None} /\ used' \in Bounds
  <2>1. {db', sw', auth'} \subseteq Ops \cup {None}
    BY <1>1 DEF PersistCommitStep, TypeOK
  <2>2. used' \in Bounds
    BY BoundsAssumption DEF PersistCommit, TypeOK, Bounds
  <2> QED BY <2>1, <2>2
<1>3. row' \in Row /\ kc' \in Tok0 /\ prev' \in Tok0 /\ live' \in Tok0
  <2>1. op[p].suc \in Tok0 /\ op[p].cur \in Tok0 /\ row \in Row
    BY DEF TypeOK, OpRec
  <2>2. \A r \in Tok0, t \in Tok0 : [fp |-> r, prev |-> t, dead |-> FALSE, pend |-> FALSE] \in Row
    BY DEF Row
  <2>4. row' \in Row
    BY <2>1, <2>2 DEF PersistCommit
  <2>3. kc' \in Tok0 /\ prev' \in Tok0 /\ live' \in Tok0
    BY Types DEF PersistCommit
  <2> QED BY <2>4, <2>3
<1>4. edges' \subseteq Tok \X Tok /\ stash' \subseteq Stash
  BY TokFacts, OpToks DEF PersistCommit, TypeOK, Row, Stash
<1>5. {valid', arrived', gone', heads'} \subseteq SUBSET Tok /\ grew' \subseteq Tok \X Tok /\ issued' \in Tok0
  BY TokFacts, OpToks, BoundsAssumption DEF PersistCommit, TypeOK
<1>6. TypeOK' /\ (active' => row'.fp # 0) /\ (kc' = 0 => row'.fp = 0)
  <2>1. {active', torn', skew', late'} \subseteq BOOLEAN /\ codex' \in Tok0
    BY DEF PersistCommit, TypeOK
  <2>2. TypeOK'
    BY <1>1, <1>2, <1>3, <1>4, <1>5, <2>1 DEF PersistCommitStep, TypeOK
  <2>3. (active' => row'.fp # 0) /\ (kc' = 0 => row'.fp = 0)
    BY <1>1, Types, TokFacts, KindOf DEF PersistCommitStep, Idle, TypeInv, Placed
  <2> QED BY <2>2, <2>3
<1>8. Placed(p)'
  <2>1. CASE op'[p].pc = "unstash"
    BY <1>1, <2>1, OpsAssumption, TokFacts, Types, KindOf DEF PersistCommitStep, Idle, TypeInv, Placed
  <2>2. CASE op'[p].pc = "cas"
    BY <1>1, <2>2, OpsAssumption, TokFacts, Types, KindOf DEF PersistCommitStep, Idle, TypeInv, Placed
  <2>3. CASE op'[p].pc = "undo"
    BY <1>1, <2>3, OpsAssumption, TokFacts, Types, KindOf DEF PersistCommitStep, Idle, TypeInv, Placed
  <2>4. CASE op'[p].pc = "save"
    BY <1>1, <2>4, OpsAssumption, TokFacts, Types, KindOf DEF PersistCommitStep, Idle, TypeInv, Placed
  <2> QED BY <1>1, <2>1, <2>2, <2>3, <2>4 DEF PersistCommitStep
<1>9. \A q \in Ops \ {p} : Placed(q)'
  <2>1. db = p /\ op[p].suc # 0
    BY <1>1, TokFacts, OpToks DEF PersistCommitStep, TypeInv, Placed
  <2>2. db' \in {None, p} /\ (row.fp # 0 => row'.fp # 0)
    BY <1>1, <2>1 DEF PersistCommitStep
  <2> QED BY <1>1, <2>1, <2>2, OthersPlaced DEF PersistCommitStep
<1> QED BY <1>6, <1>8, <1>9 DEF TypeInv

LEMMA PersistLockLostType == ASSUME TypeInv, NEW p \in Ops, PersistLockLost(p) PROVE TypeInv'
<1> TypeOK
  BY DEF TypeInv
<1>1. PersistLockLostStep(p)
  BY PersistLockLostDoes
<1>2. {db', sw', auth'} \subseteq Ops \cup {None} /\ used' \in Bounds
  <2>1. {db', sw', auth'} \subseteq Ops \cup {None}
    BY <1>1 DEF PersistLockLostStep, TypeOK
  <2>2. used' \in Bounds
    BY BoundsAssumption DEF PersistLockLost, TypeOK, Bounds
  <2> QED BY <2>1, <2>2
<1>6. TypeOK' /\ (active' => row'.fp # 0) /\ (kc' = 0 => row'.fp = 0)
  BY <1>1, <1>2, Types, SameType DEF PersistLockLostStep
<1>8. Placed(p)'
  <2>1. CASE op'[p] = Idle
    BY <1>1, <2>1, IdlePlaced, OpsAssumption DEF PersistLockLostStep, Idle, TypeInv, Placed
  <2>2. CASE op'[p].pc = "emergency"
    BY <1>1, <2>2, OpsAssumption, TokFacts, Types, KindOf DEF PersistLockLostStep, Idle, TypeInv, Placed
  <2> QED BY <1>1, <2>1, <2>2 DEF PersistLockLostStep
<1>9. \A q \in Ops \ {p} : Placed(q)'
  BY <1>1, OthersPlaced, OpsAssumption, TokFacts, Types, KindOf DEF PersistLockLostStep, TypeInv, Placed
<1> QED BY <1>6, <1>8, <1>9 DEF TypeInv

LEMMA PersistSaveType == ASSUME TypeInv, NEW p \in Ops, PersistSave(p) PROVE TypeInv'
<1> TypeOK
  BY DEF TypeInv
<1>1. PersistSaveStep(p)
  BY PersistSaveDoes
<1>2. {db', sw', auth'} \subseteq Ops \cup {None} /\ used' \in Bounds
  <2>1. {db', sw', auth'} \subseteq Ops \cup {None}
    BY <1>1 DEF PersistSaveStep, TypeOK
  <2>2. used' \in Bounds
    BY BoundsAssumption DEF PersistSave, TypeOK, Bounds
  <2> QED BY <2>1, <2>2
<1>3. row' \in Row /\ kc' \in Tok0 /\ prev' \in Tok0 /\ live' \in Tok0
  BY TokFacts, OpToks, Types DEF PersistSave, TypeOK, Row
<1>4. edges' \subseteq Tok \X Tok /\ stash' \subseteq Stash
  BY TokFacts, OpToks DEF PersistSave, TypeOK, Row, Stash
<1>5. {valid', arrived', gone', heads'} \subseteq SUBSET Tok /\ grew' \subseteq Tok \X Tok /\ issued' \in Tok0
  BY TokFacts, OpToks, BoundsAssumption DEF PersistSave, TypeOK
<1>6. TypeOK' /\ (active' => row'.fp # 0) /\ (kc' = 0 => row'.fp = 0)
  <2>1. {active', torn', skew', late'} \subseteq BOOLEAN /\ codex' \in Tok0
    BY DEF PersistSave, TypeOK
  <2>2. TypeOK'
    BY <1>1, <1>2, <1>3, <1>4, <1>5, <2>1 DEF PersistSaveStep, TypeOK
  <2>3. (active' => row'.fp # 0) /\ (kc' = 0 => row'.fp = 0)
    BY <1>1, Types, TokFacts, KindOf DEF PersistSaveStep, Idle, TypeInv, Placed
  <2> QED BY <2>2, <2>3
<1>8. Placed(p)'
  <2>1. CASE op'[p].pc = "undo"
    BY <1>1, <2>1, OpsAssumption, TokFacts, Types, KindOf DEF PersistSaveStep, Idle, TypeInv, Placed
  <2>2. CASE op'[p] = Idle
    BY <1>1, <2>2, IdlePlaced, OpsAssumption DEF PersistSaveStep, Idle, TypeInv, Placed
  <2> QED BY <1>1, <2>1, <2>2 DEF PersistSaveStep
<1>9. \A q \in Ops \ {p} : Placed(q)'
  BY <1>1, OthersPlaced, OpsAssumption, TokFacts, Types, KindOf DEF PersistSaveStep, TypeInv, Placed
<1> QED BY <1>6, <1>8, <1>9 DEF TypeInv

LEMMA PersistUndoType == ASSUME TypeInv, NEW p \in Ops, PersistUndo(p) PROVE TypeInv'
<1> TypeOK
  BY DEF TypeInv
<1>1. PersistUndoStep(p)
  BY PersistUndoDoes
<1>2. {db', sw', auth'} \subseteq Ops \cup {None} /\ used' \in Bounds
  <2>1. {db', sw', auth'} \subseteq Ops \cup {None}
    BY <1>1 DEF PersistUndoStep, TypeOK
  <2>2. used' \in Bounds
    BY BoundsAssumption DEF PersistUndo, TypeOK, Bounds
  <2> QED BY <2>1, <2>2
<1>3. row' \in Row /\ kc' \in Tok0 /\ prev' \in Tok0 /\ live' \in Tok0
  BY TokFacts, OpToks, Types DEF PersistUndo, TypeOK, Row
<1>4. edges' \subseteq Tok \X Tok /\ stash' \subseteq Stash
  BY TokFacts, OpToks DEF PersistUndo, TypeOK, Row, Stash
<1>5. {valid', arrived', gone', heads'} \subseteq SUBSET Tok /\ grew' \subseteq Tok \X Tok /\ issued' \in Tok0
  BY TokFacts, OpToks, BoundsAssumption DEF PersistUndo, TypeOK
<1>6. TypeOK' /\ (active' => row'.fp # 0) /\ (kc' = 0 => row'.fp = 0)
  <2>1. {active', torn', skew', late'} \subseteq BOOLEAN /\ codex' \in Tok0
    BY DEF PersistUndo, TypeOK
  <2>2. TypeOK'
    BY <1>1, <1>2, <1>3, <1>4, <1>5, <2>1 DEF PersistUndoStep, TypeOK
  <2>3. (active' => row'.fp # 0) /\ (kc' = 0 => row'.fp = 0)
    BY <1>1, Types, TokFacts, KindOf DEF PersistUndoStep, Idle, TypeInv, Placed
  <2> QED BY <2>2, <2>3
<1>8. Placed(p)'
  BY <1>1, IdlePlaced, OpsAssumption DEF PersistUndoStep, Idle, TypeInv, Placed
<1>9. \A q \in Ops \ {p} : Placed(q)'
  BY <1>1, OthersPlaced, OpsAssumption, TokFacts, Types, KindOf DEF PersistUndoStep, TypeInv, Placed
<1> QED BY <1>6, <1>8, <1>9 DEF TypeInv

LEMMA StashSuccessorType == ASSUME TypeInv, NEW p \in Ops, StashSuccessor(p) PROVE TypeInv'
<1> TypeOK
  BY DEF TypeInv
<1>1. StashSuccessorStep(p)
  BY StashSuccessorDoes
<1>2. {db', sw', auth'} \subseteq Ops \cup {None} /\ used' \in Bounds
  <2>1. {db', sw', auth'} \subseteq Ops \cup {None}
    BY <1>1 DEF StashSuccessorStep, TypeOK
  <2>2. used' \in Bounds
    BY BoundsAssumption DEF StashSuccessor, TypeOK, Bounds
  <2> QED BY <2>1, <2>2
<1>3. row' \in Row /\ kc' \in Tok0 /\ prev' \in Tok0 /\ live' \in Tok0
  BY TokFacts, OpToks, Types DEF StashSuccessor, TypeOK, Row
<1>4. edges' \subseteq Tok \X Tok /\ stash' \subseteq Stash
  BY TokFacts, OpToks DEF StashSuccessor, TypeOK, Row, Stash
<1>5. {valid', arrived', gone', heads'} \subseteq SUBSET Tok /\ grew' \subseteq Tok \X Tok /\ issued' \in Tok0
  BY TokFacts, OpToks, BoundsAssumption DEF StashSuccessor, TypeOK
<1>6. TypeOK' /\ (active' => row'.fp # 0) /\ (kc' = 0 => row'.fp = 0)
  <2>1. {active', torn', skew', late'} \subseteq BOOLEAN /\ codex' \in Tok0
    BY DEF StashSuccessor, TypeOK
  <2>2. TypeOK'
    BY <1>1, <1>2, <1>3, <1>4, <1>5, <2>1 DEF StashSuccessorStep, TypeOK
  <2>3. (active' => row'.fp # 0) /\ (kc' = 0 => row'.fp = 0)
    BY <1>1, Types, TokFacts, KindOf DEF StashSuccessorStep, Idle, TypeInv, Placed
  <2> QED BY <2>2, <2>3
<1>8. Placed(p)'
  BY <1>1, IdlePlaced, OpsAssumption DEF StashSuccessorStep, Idle, TypeInv, Placed
<1>9. \A q \in Ops \ {p} : Placed(q)'
  BY <1>1, OthersPlaced, OpsAssumption, TokFacts, Types, KindOf DEF StashSuccessorStep, TypeInv, Placed
<1> QED BY <1>6, <1>8, <1>9 DEF TypeInv

LEMMA UnstashType == ASSUME TypeInv, NEW p \in Ops, Unstash(p) PROVE TypeInv'
<1> TypeOK
  BY DEF TypeInv
<1>1. UnstashStep(p)
  BY UnstashDoes
<1>2. {db', sw', auth'} \subseteq Ops \cup {None} /\ used' \in Bounds
  <2>1. {db', sw', auth'} \subseteq Ops \cup {None}
    BY <1>1 DEF UnstashStep, TypeOK
  <2>2. used' \in Bounds
    BY BoundsAssumption DEF Unstash, TypeOK, Bounds
  <2> QED BY <2>1, <2>2
<1>3. row' \in Row /\ kc' \in Tok0 /\ prev' \in Tok0 /\ live' \in Tok0
  BY TokFacts, OpToks, Types DEF Unstash, TypeOK, Row
<1>4. edges' \subseteq Tok \X Tok /\ stash' \subseteq Stash
  BY TokFacts, OpToks DEF Unstash, TypeOK, Row, Stash
<1>5. {valid', arrived', gone', heads'} \subseteq SUBSET Tok /\ grew' \subseteq Tok \X Tok /\ issued' \in Tok0
  BY TokFacts, OpToks, BoundsAssumption DEF Unstash, TypeOK
<1>6. TypeOK' /\ (active' => row'.fp # 0) /\ (kc' = 0 => row'.fp = 0)
  <2>1. {active', torn', skew', late'} \subseteq BOOLEAN /\ codex' \in Tok0
    BY DEF Unstash, TypeOK
  <2>2. TypeOK'
    BY <1>1, <1>2, <1>3, <1>4, <1>5, <2>1 DEF UnstashStep, TypeOK
  <2>3. (active' => row'.fp # 0) /\ (kc' = 0 => row'.fp = 0)
    BY <1>1, Types, TokFacts, KindOf DEF UnstashStep, Idle, TypeInv, Placed
  <2> QED BY <2>2, <2>3
<1>8. Placed(p)'
  BY <1>1, OpsAssumption, TokFacts, Types, KindOf DEF UnstashStep, Idle, TypeInv, Placed
<1>9. \A q \in Ops \ {p} : Placed(q)'
  BY <1>1, OthersPlaced, OpsAssumption, TokFacts, Types, KindOf DEF UnstashStep, TypeInv, Placed
<1> QED BY <1>6, <1>8, <1>9 DEF TypeInv

LEMMA PublishCasType == ASSUME TypeInv, NEW p \in Ops, PublishCas(p) PROVE TypeInv'
<1> TypeOK
  BY DEF TypeInv
<1>1. PublishCasStep(p)
  BY PublishCasDoes
<1>2. {db', sw', auth'} \subseteq Ops \cup {None} /\ used' \in Bounds
  <2>1. {db', sw', auth'} \subseteq Ops \cup {None}
    BY <1>1 DEF PublishCasStep, TypeOK
  <2>2. used' \in Bounds
    BY BoundsAssumption DEF PublishCas, TypeOK, Bounds
  <2> QED BY <2>1, <2>2
<1>6. TypeOK' /\ (active' => row'.fp # 0) /\ (kc' = 0 => row'.fp = 0)
  BY <1>1, <1>2, Types, SameType DEF PublishCasStep
<1>8. Placed(p)'
  <2>1. CASE op'[p] = Idle
    BY <1>1, <2>1, IdlePlaced, OpsAssumption DEF PublishCasStep, Idle, TypeInv, Placed
  <2>2. CASE op'[p].pc = "rename"
    BY <1>1, <2>2, OpsAssumption, TokFacts, Types, KindOf DEF PublishCasStep, Idle, TypeInv, Placed
  <2>3. CASE op'[p].pc = "first"
    BY <1>1, <2>3, OpsAssumption, TokFacts, Types, KindOf DEF PublishCasStep, Idle, TypeInv, Placed
  <2> QED BY <1>1, <2>1, <2>2, <2>3 DEF PublishCasStep
<1>9. \A q \in Ops \ {p} : Placed(q)'
  BY <1>1, OthersPlaced, OpsAssumption, TokFacts, Types, KindOf DEF PublishCasStep, TypeInv, Placed
<1> QED BY <1>6, <1>8, <1>9 DEF TypeInv

LEMMA PublishRenameType == ASSUME TypeInv, NEW p \in Ops, PublishRename(p) PROVE TypeInv'
<1> TypeOK
  BY DEF TypeInv
<1>1. PublishRenameStep(p)
  BY PublishRenameDoes
<1>2. {db', sw', auth'} \subseteq Ops \cup {None} /\ used' \in Bounds
  <2>1. {db', sw', auth'} \subseteq Ops \cup {None}
    BY <1>1 DEF PublishRenameStep, TypeOK
  <2>2. used' \in Bounds
    BY BoundsAssumption DEF PublishRename, TypeOK, Bounds
  <2> QED BY <2>1, <2>2
<1>3. row' \in Row /\ kc' \in Tok0 /\ prev' \in Tok0 /\ live' \in Tok0
  BY TokFacts, OpToks, Types DEF PublishRename, TypeOK, Row
<1>4. edges' \subseteq Tok \X Tok /\ stash' \subseteq Stash
  BY TokFacts, OpToks DEF PublishRename, TypeOK, Row, Stash
<1>5. {valid', arrived', gone', heads'} \subseteq SUBSET Tok /\ grew' \subseteq Tok \X Tok /\ issued' \in Tok0
  BY TokFacts, OpToks, BoundsAssumption DEF PublishRename, TypeOK
<1>6. TypeOK' /\ (active' => row'.fp # 0) /\ (kc' = 0 => row'.fp = 0)
  <2>1. {active', torn', skew', late'} \subseteq BOOLEAN /\ codex' \in Tok0
    BY DEF PublishRename, TypeOK
  <2>2. TypeOK'
    BY <1>1, <1>2, <1>3, <1>4, <1>5, <2>1 DEF PublishRenameStep, TypeOK
  <2>3. (active' => row'.fp # 0) /\ (kc' = 0 => row'.fp = 0)
    BY <1>1, Types, TokFacts, KindOf DEF PublishRenameStep, Idle, TypeInv, Placed
  <2> QED BY <2>2, <2>3
<1>8. Placed(p)'
  <2>1. CASE op'[p].pc = "verify"
    BY <1>1, <2>1, OpsAssumption, TokFacts, Types, KindOf DEF PublishRenameStep, Idle, TypeInv, Placed
  <2>2. CASE op'[p] = Idle
    BY <1>1, <2>2, IdlePlaced, OpsAssumption DEF PublishRenameStep, Idle, TypeInv, Placed
  <2> QED BY <1>1, <2>1, <2>2 DEF PublishRenameStep
<1>9. \A q \in Ops \ {p} : Placed(q)'
  BY <1>1, OthersPlaced, OpsAssumption, TokFacts, Types, KindOf DEF PublishRenameStep, TypeInv, Placed
<1> QED BY <1>6, <1>8, <1>9 DEF TypeInv

LEMMA PublishVerifyType == ASSUME TypeInv, NEW p \in Ops, PublishVerify(p) PROVE TypeInv'
<1> TypeOK
  BY DEF TypeInv
<1>1. PublishVerifyStep(p)
  BY PublishVerifyDoes
<1>2. {db', sw', auth'} \subseteq Ops \cup {None} /\ used' \in Bounds
  <2>1. {db', sw', auth'} \subseteq Ops \cup {None}
    BY <1>1 DEF PublishVerifyStep, TypeOK
  <2>2. used' \in Bounds
    BY BoundsAssumption DEF PublishVerify, TypeOK, Bounds
  <2> QED BY <2>1, <2>2
<1>6. TypeOK' /\ (active' => row'.fp # 0) /\ (kc' = 0 => row'.fp = 0)
  BY <1>1, <1>2, Types, SameType DEF PublishVerifyStep
<1>8. Placed(p)'
  <2>1. CASE op'[p] = Idle
    BY <1>1, <2>1, IdlePlaced, OpsAssumption DEF PublishVerifyStep, Idle, TypeInv, Placed
  <2>2. CASE op'[p].pc = "first"
    BY <1>1, <2>2, OpsAssumption, TokFacts, Types, KindOf DEF PublishVerifyStep, Idle, TypeInv, Placed
  <2> QED BY <1>1, <2>1, <2>2 DEF PublishVerifyStep
<1>9. \A q \in Ops \ {p} : Placed(q)'
  BY <1>1, OthersPlaced, OpsAssumption, TokFacts, Types, KindOf DEF PublishVerifyStep, TypeInv, Placed
<1> QED BY <1>6, <1>8, <1>9 DEF TypeInv

LEMMA CrashType == ASSUME TypeInv, NEW p \in Ops, Crash(p) PROVE TypeInv'
<1> TypeOK
  BY DEF TypeInv
<1>1. CrashStep(p)
  BY CrashDoes
<1>2. {db', sw', auth'} \subseteq Ops \cup {None} /\ used' \in Bounds
  <2>1. {db', sw', auth'} \subseteq Ops \cup {None}
    BY <1>1 DEF CrashStep, TypeOK
  <2>2. used' \in Bounds
    BY BoundsAssumption DEF Crash, InMemory, TypeOK, Bounds
  <2> QED BY <2>1, <2>2
<1>3. row' \in Row /\ kc' \in Tok0 /\ prev' \in Tok0 /\ live' \in Tok0
  BY TokFacts, OpToks, Types DEF Crash, InMemory, TypeOK, Row
<1>4. edges' \subseteq Tok \X Tok /\ stash' \subseteq Stash
  BY TokFacts, OpToks DEF Crash, InMemory, TypeOK, Row, Stash
<1>5. {valid', arrived', gone', heads'} \subseteq SUBSET Tok /\ grew' \subseteq Tok \X Tok /\ issued' \in Tok0
  BY TokFacts, OpToks, BoundsAssumption DEF Crash, InMemory, TypeOK
<1>6. TypeOK' /\ (active' => row'.fp # 0) /\ (kc' = 0 => row'.fp = 0)
  <2>1. {active', torn', skew', late'} \subseteq BOOLEAN /\ codex' \in Tok0
    BY DEF Crash, InMemory, TypeOK
  <2>2. TypeOK'
    BY <1>1, <1>2, <1>3, <1>4, <1>5, <2>1 DEF CrashStep, TypeOK
  <2>3. (active' => row'.fp # 0) /\ (kc' = 0 => row'.fp = 0)
    BY <1>1, Types, TokFacts, KindOf DEF CrashStep, Idle, TypeInv, Placed
  <2> QED BY <2>2, <2>3
<1>8. Placed(p)'
  BY <1>1, IdlePlaced, OpsAssumption DEF CrashStep, Idle, TypeInv, Placed
<1>9. \A q \in Ops \ {p} : Placed(q)'
  BY <1>1, OthersPlaced, OpsAssumption, TokFacts, Types, KindOf DEF CrashStep, TypeInv, Placed
<1> QED BY <1>6, <1>8, <1>9 DEF TypeInv

LEMMA LoseSwitchLockType == ASSUME TypeInv, NEW p \in Ops, LoseSwitchLock(p) PROVE TypeInv'
<1> TypeOK
  BY DEF TypeInv
<1>1. LoseSwitchLockStep(p)
  BY LoseSwitchLockDoes
<1>2. {db', sw', auth'} \subseteq Ops \cup {None} /\ used' \in Bounds
  <2>1. {db', sw', auth'} \subseteq Ops \cup {None}
    BY <1>1 DEF LoseSwitchLockStep, TypeOK
  <2>2. used' \in Bounds
    BY BoundsAssumption DEF LoseSwitchLock, TypeOK, Bounds
  <2> QED BY <2>1, <2>2
<1>6. TypeOK' /\ (active' => row'.fp # 0) /\ (kc' = 0 => row'.fp = 0)
  BY <1>1, <1>2, Types, SameType DEF LoseSwitchLockStep
<1>8. Placed(p)'
  BY <1>1, OpsAssumption, TokFacts, Types, KindOf DEF LoseSwitchLockStep, Idle, TypeInv, Placed
<1>9. \A q \in Ops \ {p} : Placed(q)'
  BY <1>1, OthersPlaced, OpsAssumption, TokFacts, Types, KindOf DEF LoseSwitchLockStep, TypeInv, Placed
<1> QED BY <1>6, <1>8, <1>9 DEF TypeInv

LEMMA LoseAuthLockType == ASSUME TypeInv, NEW p \in Ops, LoseAuthLock(p) PROVE TypeInv'
<1> TypeOK
  BY DEF TypeInv
<1>1. LoseAuthLockStep(p)
  BY LoseAuthLockDoes
<1>2. {db', sw', auth'} \subseteq Ops \cup {None} /\ used' \in Bounds
  <2>1. {db', sw', auth'} \subseteq Ops \cup {None}
    BY <1>1 DEF LoseAuthLockStep, TypeOK
  <2>2. used' \in Bounds
    BY BoundsAssumption DEF LoseAuthLock, TypeOK, Bounds
  <2> QED BY <2>1, <2>2
<1>6. TypeOK' /\ (active' => row'.fp # 0) /\ (kc' = 0 => row'.fp = 0)
  BY <1>1, <1>2, Types, SameType DEF LoseAuthLockStep
<1>8. Placed(p)'
  BY <1>1, OpsAssumption, TokFacts, Types, KindOf DEF LoseAuthLockStep, Idle, TypeInv, Placed
<1>9. \A q \in Ops \ {p} : Placed(q)'
  BY <1>1, OthersPlaced, OpsAssumption, TokFacts, Types, KindOf DEF LoseAuthLockStep, TypeInv, Placed
<1> QED BY <1>6, <1>8, <1>9 DEF TypeInv

HIDE DEF Transaction, Attributing, Looked, Consuming, Renewing, Answered, Settled, MayAdopt

LEMMA EnvType ==
  ASSUME TypeInv, CodexStart \/ CodexExit \/ CodexRotate \/ CodexLogin \/ CodexLeave
  PROVE  TypeInv'
<1> TypeOK
  BY DEF TypeInv
<1>1. row' = row /\ kc' = kc /\ prev' = prev /\ edges' = edges /\ stash' = stash /\ active' = active /\ LocksSame
      /\ op' = op /\ PastSame
  BY DEF CodexStart, CodexExit, CodexRotate, CodexLogin, CodexLeave
<1>2. used' \in Bounds
  BY BoundsAssumption DEF CodexStart, CodexExit, CodexRotate, CodexLogin, CodexLeave, TypeOK, Bounds
<1>3. issued' \in Tok0 /\ live' \in Tok0 /\ codex' \in Tok0 /\ valid' \subseteq Tok /\ grew' \subseteq Tok \X Tok
  BY BoundsAssumption DEF CodexStart, CodexExit, CodexRotate, CodexLogin, CodexLeave, TypeOK, Tok, Tok0
<1>4. TypeOK'
  BY <1>1, <1>2, <1>3 DEF TypeOK
<1>5. ASSUME NEW q \in Ops PROVE Placed(q)'
  BY <1>1, <1>5 DEF TypeInv, Placed
<1> QED BY <1>1, <1>4, <1>5 DEF TypeInv

LEMMA InitType == Init => TypeInv
<1> SUFFICES ASSUME Init PROVE TypeInv
  OBVIOUS
<1>1. row \in Row /\ {kc, prev, live, codex, issued} \subseteq Tok0 /\ active \in BOOLEAN
  BY BoundsAssumption DEF Init, Row, Tok0
<1>2. op \in [Ops -> OpRec] /\ db = None /\ \A p \in Ops : op[p] = Idle
  BY IdleType DEF Init
<1>3. {valid, arrived, gone, heads} \subseteq SUBSET Tok
  BY BoundsAssumption DEF Init, Tok
<1>4. used \in Bounds
  BY BoundsAssumption DEF Init, Bounds
<1>5. TypeOK
  BY <1>1, <1>2, <1>3, <1>4 DEF Init, TypeOK
<1>6. \A p \in Ops : Placed(p)
  BY <1>2, OpsAssumption DEF Placed, Idle, Attributing, Looked, Consuming, Renewing, Answered, Transaction, Settled,
     MayAdopt
<1>7. (active => row.fp # 0) /\ (kc = 0 => row.fp = 0)
  BY DEF Init
<1> QED BY <1>5, <1>6, <1>7 DEF TypeInv

LEMMA TypeStep == TypeInv /\ [Next]_vars => TypeInv'
<1> SUFFICES ASSUME TypeInv, [Next]_vars PROVE TypeInv'
  OBVIOUS
<1>1. CASE UNCHANGED vars
  BY <1>1 DEF vars, TypeInv, TypeOK, Placed
<1>2. CASE CodexStart \/ CodexExit \/ CodexRotate \/ CodexLogin \/ CodexLeave
  BY <1>2, EnvType
<1>3. ASSUME NEW p \in Ops, Start(p) \/ Crash(p) \/ LoseSwitchLock(p) \/ LoseAuthLock(p) PROVE TypeInv'
  BY <1>3, StartType, CrashType, LoseSwitchLockType, LoseAuthLockType
<1>4. ASSUME NEW p \in Ops, Attribute(p) PROVE TypeInv'
  BY <1>4, ObserveLiveType, ReadFirstType, ReadSecondType, ImportNewType, ImportCommitType,
     RepairSplitType, NoopType, RepublishType, PublishSlotType, MarkType, AdoptType,
     AdoptCommitType, AdoptUndoType, DueType DEF Attribute
<1>5. ASSUME NEW p \in Ops, Consume(p) PROVE TypeInv'
  BY <1>5, ReadSlotType, RepairDriftType, FindStashedType, PostType, PostRejectedType,
     PostFailedType, RejectedType, RecordRejectedType, GotSuccessorType, PersistBeginType,
     PersistWriteType, PersistCommitType, PersistLockLostType, PersistSaveType,
     PersistUndoType, StashSuccessorType, UnstashType DEF Consume
<1>6. ASSUME NEW p \in Ops, Publish(p) PROVE TypeInv'
  BY <1>6, PublishCasType, PublishRenameType, PublishVerifyType DEF Publish
<1> QED BY <1>1, <1>2, <1>3, <1>4, <1>5, <1>6 DEF Next

\* TypeOK: the fields of every operation and of the shared state keep their types, however the
\* operations, Codex, crashes and lost locks interleave.
THEOREM TypeCorrect == Spec => []TypeOK
<1>1. TypeInv => TypeOK
  BY DEF TypeInv
<1> QED BY <1>1, InitType, TypeStep, PTL DEF Spec

-----------------------------------------------------------------------------
(* The second layer: what was issued, what each process holds, and how the heads follow one    *)
(* another                                                                                      *)

\* Tokens in order.
LEMMA Numbers == MaxTok \in Nat /\ \A t \in Tok0 : t \in Nat
  BY BoundsAssumption DEF Tok0
\* More edges reach as far, and one edge further.
LEMMA ReachMore ==
  ASSUME NEW E, NEW F, E \subseteq F, NEW a, NEW b, Reaches(E, a, b)
  PROVE  Reaches(F, a, b)
  BY DEF Reaches
LEMMA ReachOne ==
  ASSUME NEW E, NEW a, NEW b, a # b, <<a, b>> \in E
  PROVE  Reaches(E, a, b)
<1>1. ASSUME NEW S \in SUBSET Tok, a \in S, \A e \in E : e[1] \in S => e[2] \in S PROVE b \in S
  BY <1>1
<1> QED BY <1>1 DEF Reaches
LEMMA ReachOn ==
  ASSUME NEW E, NEW a, NEW b, NEW c, a # c, Reaches(E, a, b), <<b, c>> \in E
  PROVE  Reaches(E, a, c)
<1>1. ASSUME NEW S \in SUBSET Tok, a \in S, \A e \in E : e[1] \in S => e[2] \in S PROVE c \in S
  <2>1. b \in S
    BY <1>1 DEF Reaches
  <2>2. <<b, c>>[1] = b /\ <<b, c>>[2] = c
    OBVIOUS
  <2> QED BY <1>1, <2>1, <2>2
<1> QED BY <1>1 DEF Reaches

\* Lineage survives a move of the row that is recorded.
LEMMA LineageMoves ==
  ASSUME Lineage, heads' = heads \cup {row'.fp}, edges \cup {<<row.fp, row'.fp>>} \subseteq edges'
  PROVE  Lineage'
<1> DEFINE n == row'.fp
<1> SUFFICES ASSUME NEW h \in heads', h # n PROVE Reaches(edges', h, n)
  BY DEF Lineage
<1>1. h \in heads
  OBVIOUS
<1>2. CASE h = row.fp
  BY <1>2, ReachOne
<1>3. CASE h # row.fp
  <2>1. Reaches(edges', h, row.fp)
    BY <1>1, <1>3, ReachMore DEF Lineage
  <2> QED BY <2>1, ReachOn
<1> QED BY <1>2, <1>3
LEMMA LineageStays ==
  ASSUME Lineage, heads' = heads, row'.fp = row.fp, edges \subseteq edges'
  PROVE  Lineage'
  BY ReachMore DEF Lineage
\* What no step takes back, and what it adds is new.
Onward ==
    /\ issued <= issued' /\ heads \subseteq heads' /\ arrived \subseteq arrived' /\ grew \subseteq grew'
    /\ \A t \in Given : (t \in arrived' => t \in arrived) /\ (t \in valid' => t \in valid)
\* A process that does not move keeps what it holds.
LEMMA HoldsKept ==
  ASSUME TypeInv, NEW q \in Ops, Holds(q), op'[q] = op[q], Onward, issued' \in Nat,
         db = q => row'.fp = row.fp /\ kc' = kc /\ prev' = prev /\ heads' = heads
  PROVE  Holds(q)'
<1>1. Placed(q) /\ issued \in Nat /\ op[q] \in OpRec
  BY Numbers, Types DEF TypeInv, TypeOK
<1>2. op[q].pc \in {"write", "commit", "save", "undo", "adopted"} => row'.fp = row.fp /\ kc' = kc /\ prev' = prev /\ heads' = heads
  BY <1>1 DEF Placed, Transaction
<1>3. {op[q].seen, op[q].row, op[q].kc, op[q].cur, op[q].suc} \subseteq Given'
  BY <1>1 DEF Holds, Onward, Given
<1>4. op[q].pc \in Looked => op[q].seen \in heads' \/ op[q].seen \notin arrived'
  BY DEF Holds, Onward
<1>5. op[q].pc = "adopted" => op[q].old[1] \in Given'
  BY <1>1 DEF Holds, Onward, Given
<1>6. op[q].pc \in {"rejected", "refused"} => op[q].cur \notin valid'
  BY DEF Holds, Onward
<1>7. op[q].pc \in Answered => <<op[q].cur, op[q].suc>> \in grew' /\ op[q].suc \in arrived'
  BY DEF Holds, Onward
<1>8. /\ op[q].pc \in {"decide", "publish", "mark", "adopted"} => op[q].row \in heads'
      /\ op[q].kind = "import" /\ op[q].pc = "second" => op[q].row \in heads' \cup {0}
      /\ op[q].pc \in Renewing => op[q].cur \in heads'
      /\ op[q].pc \in Settled => op[q].suc \in heads'
  BY DEF Holds, Onward
<1>9. op[q].pc = "adopted" =>
         /\ row'.fp = op[q].row /\ op[q].row # op[q].seen
         /\ op[q].seen \notin heads'
         /\ op[q].old[2] \in heads' \cup arrived' \cup {0}
         /\ prev' = IF op[q].old[1] = op[q].row THEN op[q].row ELSE op[q].old[2]
  BY <1>2 DEF Holds, Onward
<1> QED BY <1>2, <1>3, <1>4, <1>5, <1>6, <1>7, <1>8, <1>9 DEF Holds

LEMMA IdleHolds ==
  ASSUME TypeOK', NEW p \in Ops, op'[p] = Idle
  PROVE  Holds(p)'
<1>1. issued' \in Nat
  BY Numbers DEF TypeOK
<1> QED BY <1>1 DEF Holds, Given, Idle, Looked, Attributing, Renewing, Answered, Settled
Still ==
    /\ row'.fp = row.fp /\ kc' = kc /\ prev' = prev /\ edges' = edges /\ stash' = stash /\ live' = live
    /\ codex' = codex /\ ProviderSame /\ arrived' = arrived /\ heads' = heads
LEMMA StillShape ==
  ASSUME TypeInv, ShapeInv, Still
  PROVE  Ordered' /\ Lineage' /\ Onward
<1>1. issued \in Nat
  BY Numbers DEF TypeInv, TypeOK
<1>2. Onward
  BY <1>1 DEF Still, Onward, Given
<1>3. Lineage'
  BY LineageStays DEF Still, ShapeInv
<1>4. Ordered'
  BY DEF Still, ShapeInv, Ordered, Given
<1> QED BY <1>2, <1>3, <1>4
\* What the second layer says of the documents, without the arithmetic.
LEMMA ShapeFacts ==
  ASSUME TypeInv, ShapeInv
  PROVE  /\ 0 \in Given /\ row.fp \in Given /\ kc \in Given /\ prev \in Given /\ live \in Given
         /\ row.fp # 0 => row.fp \in heads
         /\ prev \in heads \cup arrived \cup {0}
         /\ live \in heads \cup {0} \/ live \notin arrived
         /\ \A x \in stash : <<x.from, x.to>> \in grew /\ x.to \in arrived /\ x.to \in Given
         /\ \A h \in heads \cup arrived : h \in Given /\ h # 0
<1>1. issued \in Nat /\ 0 \in Given
  BY Numbers DEF TypeInv, TypeOK, Given
<1>2. /\ row.fp \in Given /\ kc \in Given /\ prev \in Given /\ live \in Given
      /\ row.fp # 0 => row.fp \in heads
      /\ prev \in heads \cup arrived \cup {0}
      /\ live \in heads \cup {0} \/ live \notin arrived
  BY DEF ShapeInv, Ordered
<1>3. \A x \in stash : <<x.from, x.to>> \in grew /\ x.to \in arrived /\ x.to \in Given
  BY DEF ShapeInv, Ordered
<1>4. \A h \in heads \cup arrived : h \in Given /\ h # 0
  BY DEF ShapeInv, Ordered
<1> QED BY <1>1, <1>2, <1>3, <1>4
\* A step of p alone that leaves the documents alone.
LEMMA QuietShape ==
  ASSUME TypeInv, TypeInv', ShapeInv, Still, NEW p \in Ops, \A q \in Ops \ {p} : op'[q] = op[q], Holds(p)'
  PROVE  ShapeInv'
<1>1. Ordered' /\ Lineage' /\ Onward /\ issued' \in Nat
  BY StillShape, Numbers DEF TypeInv, TypeOK
<1>2. ASSUME NEW q \in Ops, q # p PROVE Holds(q)'
  <2>1. op'[q] = op[q] /\ Holds(q)
    BY <1>2 DEF ShapeInv
  <2> QED BY <1>1, <2>1, HoldsKept DEF Still
<1> QED BY <1>1, <1>2 DEF ShapeInv

\* The processes other than p keep what they hold.
Undisturbed(p) ==
    \A q \in Ops \ {p} : /\ op'[q] = op[q]
                         /\ db = q => row'.fp = row.fp /\ kc' = kc /\ prev' = prev /\ heads' = heads
LEMMA OthersShape ==
  ASSUME TypeInv, TypeInv', ShapeInv, Onward, Ordered', Lineage', NEW p \in Ops, Undisturbed(p), Holds(p)'
  PROVE  ShapeInv'
<1>1. issued' \in Nat
  BY Numbers DEF TypeInv, TypeOK
<1>2. ASSUME NEW q \in Ops, q # p PROVE Holds(q)'
  <2>1. Holds(q)
    BY DEF ShapeInv
  <2>2. op'[q] = op[q] /\ (db = q => row'.fp = row.fp /\ kc' = kc /\ prev' = prev /\ heads' = heads)
    BY <1>2 DEF Undisturbed
  <2> QED BY <1>1, <2>1, <2>2, HoldsKept
<1> QED BY <1>2 DEF ShapeInv

\* A token is issued: to QLB, for a former head, or to Codex, which has it in its file.
LEMMA IssuedShape ==
  ASSUME TypeInv, ShapeInv, NEW f \in Given, issued' = issued + 1,
         row' = row, kc' = kc, prev' = prev, edges' = edges, stash' = stash, heads' = heads,
         valid' \subseteq valid \cup {issued + 1}, arrived \subseteq arrived', arrived' \subseteq arrived \cup {issued + 1},
         grew' = grew \/ (grew' = grew \cup {<<f, issued + 1>>} /\ f \notin valid'),
         codex' \in {codex, issued + 1},
         (f \in heads /\ live' = live) \/ (arrived' = arrived /\ live' = issued + 1)
  PROVE  Ordered' /\ Lineage' /\ Onward
<1> DEFINE n == issued + 1
<1>1. issued \in Nat /\ n \notin Given /\ Given' = Given \cup {n} /\ 0 \in Given /\ f \in Given
  BY Numbers DEF TypeInv, TypeOK, Given
<1>2. \A t \in Given : t \in Nat /\ t < n
  BY <1>1 DEF Given
<1>3. Onward
  <2>1. issued <= issued'
    BY <1>1
  <2>2. grew \subseteq grew'
    OBVIOUS
  <2> HIDE DEF n
  <2> QED BY <1>1, <2>1, <2>2 DEF Onward, n
<1>4. Lineage'
  BY LineageStays DEF ShapeInv
<1>5. \A e \in grew : e[1] \in Given /\ e[2] \in Given /\ e[1] < e[2] /\ e[1] \notin valid
  <2>1. ASSUME NEW e \in grew PROVE e[1] \in Given
    <3>1. e[1] \in Tok /\ e[1] < e[2] /\ e[2] \in Given
      BY <2>1 DEF TypeInv, TypeOK, ShapeInv, Ordered
    <3> QED BY <1>1, <3>1, Numbers, TokFacts DEF Given
  <2> QED BY <2>1 DEF ShapeInv, Ordered
<1>6. valid \cup heads \cup arrived \subseteq Given \ {0} /\ {row.fp, kc, prev, live, codex} \subseteq Given
  BY DEF ShapeInv, Ordered
<1>7. \A e \in grew' : e \in grew \/ (e[1] = f /\ e[2] = n /\ f \notin valid')
  OBVIOUS
<1>8. \A e \in grew : e[2] # n /\ e[1] # n
  BY <1>1, <1>5
<1> HIDE DEF n
<1>9. valid' \subseteq valid \cup {n} /\ arrived' \subseteq arrived \cup {n} /\ n # 0
  BY <1>1 DEF n
<1>10. (f \in heads /\ live' = live) \/ (arrived' = arrived /\ live' = n)
  BY DEF n
<1>11. valid' \cup heads' \cup arrived' \subseteq Given' \ {0} /\ {row'.fp, kc', prev', live', codex'} \subseteq Given'
  BY <1>1, <1>6, <1>9, <1>10 DEF n
<1>12. \A e \in grew' : e[1] < e[2] /\ e[2] \in Given' /\ e[1] \notin valid'
  BY <1>1, <1>2, <1>5, <1>7, <1>8, <1>9
<1>13. \A e, g \in grew' : e[2] = g[2] => e = g
  <2>1. \A e, g \in grew : e[2] = g[2] => e = g
    BY DEF ShapeInv, Ordered
  <2>2. \A e \in grew' : e \in grew \/ e = <<f, n>>
    BY DEF n
  <2> QED BY <1>8, <2>1, <2>2
<1>14. /\ \A x \in stash' : <<x.from, x.to>> \in grew' /\ x.to \in arrived' /\ x.from \in heads'
       /\ \A e \in edges' : e[1] \in heads'
       /\ row'.fp # 0 => row'.fp \in heads'
       /\ row'.fp = 0 => heads' = {}
       /\ prev' \in heads' \cup arrived' \cup {0}
  BY DEF ShapeInv, Ordered
<1>15. live' \in heads' \cup {0} \/ (live' \notin arrived' /\ \A e \in grew' : e[1] # live')
  <2>1. CASE f \in heads /\ live' = live
    <3>1. live \in heads \cup {0} \/ (live \notin arrived /\ \A e \in grew : e[1] # live)
      BY DEF ShapeInv, Ordered
    <3>2. live # n
      BY <1>1, <1>6
    <3> QED BY <1>7, <1>9, <2>1, <3>1, <3>2
  <2>2. CASE arrived' = arrived /\ live' = n
    BY <1>1, <1>6, <1>7, <1>8, <2>2
  <2> QED BY <1>10, <2>1, <2>2
<1>16. \A e \in grew' : e[2] \in arrived' => e[1] \in heads'
  <2>1. \A e \in grew : e[2] \in arrived => e[1] \in heads
    BY DEF ShapeInv, Ordered
  <2>2. n \notin arrived
    BY <1>1, <1>6
  <2> QED BY <1>7, <1>8, <1>9, <1>10, <2>1, <2>2
<1>17. Ordered'
  BY <1>11, <1>12, <1>13, <1>14, <1>15, <1>16 DEF Ordered
<1> QED BY <1>3, <1>4, <1>17

LEMMA PostShape ==
  ASSUME TypeInv, TypeInv', ShapeInv, NEW p \in Ops, Post(p)
  PROVE  ShapeInv'
<1> TypeOK /\ TypeOK'
  BY DEF TypeInv
<1>1. PostStep(p)
  BY PostDoes
<1>2. Holds(p) /\ Placed(p)
  BY DEF TypeInv, ShapeInv
<1>3. issued \in Nat /\ op[p].cur \in Given /\ op[p].cur \in heads /\ op[p].cur # issued + 1
  <2>1. op[p].cur \in Given /\ op[p].cur \in heads
    BY <1>1, <1>2 DEF PostStep, Holds, Renewing
  <2>2. issued \in Nat
    BY Numbers DEF TypeOK
  <2> QED BY <2>1, <2>2 DEF Given
<1>4. /\ arrived \subseteq arrived' /\ arrived' \subseteq arrived \cup {issued + 1} /\ op[p].cur \notin valid'
      /\ valid' \subseteq valid \cup {issued + 1}
  BY <1>1, <1>3 DEF PostStep
<1>5. Ordered' /\ Lineage' /\ Onward
  BY <1>1, <1>3, <1>4, IssuedShape DEF PostStep
<1>6. Holds(p)'
  <2>1. CASE op'[p] = Idle
    BY <2>1, IdleHolds
  <2>2. CASE op'[p].pc = "got"
    <3>1. Given \subseteq Given' /\ issued + 1 \in Given'
      BY <1>1, <1>3 DEF PostStep, Given
    <3>2. <<op'[p].cur, op'[p].suc>> \in grew' /\ op'[p].suc \in arrived' /\ op'[p].cur \in heads'
          /\ op'[p].suc = issued + 1
      BY <1>1, <1>3, <2>2 DEF PostStep, Idle
    <3>3. {op'[p].seen, op'[p].row, op'[p].kc, op'[p].cur, op'[p].suc} \subseteq Given'
      BY <1>1, <1>2, <2>2, <3>1 DEF PostStep, Idle, Holds
    <3> QED BY <2>2, <3>2, <3>3 DEF Holds, Looked, Attributing, Renewing, Answered, Settled
  <2> QED BY <1>1, <2>1, <2>2 DEF PostStep
<1>7. Undisturbed(p)
  BY <1>1 DEF PostStep, Undisturbed
<1> QED BY <1>5, <1>6, <1>7, OthersShape

\* A step of no process.
LEMMA NobodyShape ==
  ASSUME TypeInv, TypeInv', ShapeInv, Onward, Ordered', Lineage', op' = op,
         row'.fp = row.fp, kc' = kc, prev' = prev, heads' = heads
  PROVE  ShapeInv'
<1>1. issued' \in Nat
  BY Numbers DEF TypeInv, TypeOK
<1>2. ASSUME NEW q \in Ops PROVE Holds(q)'
  <2>1. Holds(q)
    BY DEF ShapeInv
  <2> QED BY <1>1, <2>1, HoldsKept
<1> QED BY <1>2 DEF ShapeInv
LEMMA LoseShape ==
  ASSUME TypeInv, TypeInv', ShapeInv, NEW p \in Ops, LoseSwitchLock(p) \/ LoseAuthLock(p)
  PROVE  ShapeInv'
<1>1. Still /\ op' = op
  BY DEF LoseSwitchLock, LoseAuthLock, Still, slotVars, liveVars, provider, history
<1> QED BY <1>1, StillShape, NobodyShape DEF Still
LEMMA EnvShape ==
  ASSUME TypeInv, TypeInv', ShapeInv, CodexStart \/ CodexExit \/ CodexRotate \/ CodexLogin \/ CodexLeave
  PROVE  ShapeInv'
<1>1. /\ row' = row /\ kc' = kc /\ prev' = prev /\ edges' = edges /\ stash' = stash
      /\ op' = op /\ arrived' = arrived /\ heads' = heads
  BY DEF CodexStart, CodexExit, CodexRotate, CodexLogin, CodexLeave
<1>2. issued \in Nat /\ 0 \in Given /\ codex \in Given /\ live \in Given
  <2>1. issued \in Nat
    BY Numbers DEF TypeInv, TypeOK
  <2> QED BY <2>1 DEF ShapeInv, Ordered, Given
<1>3. Ordered' /\ Lineage' /\ Onward
  <2>1. CASE CodexStart \/ CodexExit \/ CodexLeave
    <3>1. valid' = valid /\ issued' = issued /\ grew' = grew /\ codex' \in {0, live} /\ live' \in {0, live} /\ Given' = Given
      BY <2>1 DEF CodexStart, CodexExit, CodexLeave, Given
    <3>2. Onward
      BY <1>1, <1>2, <3>1 DEF Onward
    <3>3. Lineage'
      BY <1>1, LineageStays DEF ShapeInv
    <3>4. Ordered'
      BY <1>1, <1>2, <3>1 DEF ShapeInv, Ordered
    <3> QED BY <3>2, <3>3, <3>4
  <2>2. CASE CodexRotate
    <3>1. /\ codex # 0 /\ codex \in valid /\ issued' = issued + 1 /\ valid' = (valid \ {codex}) \cup {issued + 1}
          /\ grew' = grew \cup {<<codex, issued + 1>>} /\ codex' = issued + 1 /\ live' = issued + 1
      BY <2>2 DEF CodexRotate
    <3>2. codex # issued + 1
      BY <1>2 DEF Given
    <3>3. codex \notin valid' /\ valid' \subseteq valid \cup {issued + 1}
      BY <3>1, <3>2
    <3>4. codex \in Given
      BY <1>2
    <3> QED BY <1>1, <3>1, <3>3, <3>4, IssuedShape
  <2>3. CASE CodexLogin
    <3>1. CASE codex = 0
      <4>1. \A v : codex' \in {codex, v}
        BY <2>3, <3>1 DEF CodexLogin
      <4> QED BY <1>1, <1>2, <2>3, <4>1, IssuedShape DEF CodexLogin
    <3>2. CASE codex # 0
      <4>1. codex' \in {codex, issued + 1}
        BY <2>3, <3>2 DEF CodexLogin
      <4> QED BY <1>1, <1>2, <2>3, <4>1, IssuedShape DEF CodexLogin
    <3> QED BY <3>1, <3>2
  <2> QED BY <2>1, <2>2, <2>3
<1> QED BY <1>1, <1>3, NobodyShape

LEMMA InitShape == Init => ShapeInv
<1> SUFFICES ASSUME Init PROVE ShapeInv
  OBVIOUS
<1>1. \A p \in Ops : op[p] = Idle
  BY DEF Init
<1>2. issued = 1 /\ 0 \in Given /\ 1 \in Given
  BY DEF Init, Given
<1>3. \A p \in Ops : Holds(p)
  BY <1>1, <1>2 DEF Holds, Idle, Looked, Attributing, Renewing, Answered, Settled
<1>4. row.fp \in {0, 1} /\ heads = {row.fp} \cap Tok /\ 1 \in Tok /\ 0 \notin Tok
  BY TokFacts, BoundsAssumption DEF Init, Tok
<1>5. kc = row.fp /\ live \in {0, 1} /\ prev = 0 /\ codex = 0 /\ (row.fp = 0 => live = 1)
  BY DEF Init
<1>6. Ordered
  BY <1>2, <1>4, <1>5 DEF Init, Ordered
<1>7. Lineage
  BY <1>4 DEF Lineage
<1> QED BY <1>3, <1>6, <1>7 DEF ShapeInv

LEMMA StartShape ==
  ASSUME TypeInv, TypeInv', ShapeInv, NEW p \in Ops, Start(p)
  PROVE  ShapeInv'
<1> TypeOK /\ TypeOK'
  BY DEF TypeInv
<1>1. StartStep(p)
  BY StartDoes
<1>2. Still
  BY <1>1 DEF StartStep, Still
<1>3. Holds(p) /\ Placed(p)
  BY DEF TypeInv, ShapeInv
<1>4. Given' = Given
  BY <1>2 DEF Still, Given
<1>5. Holds(p)'
  <2>1. CASE op'[p].pc = "read" /\ op'[p].kind = "refresh"
    BY <1>1, <2>1, <1>3, <1>4, ShapeFacts, KindOf DEF StartStep, Idle, Placed, Holds,
      Transaction, Attributing, Looked, Consuming, Renewing, Answered, Settled
  <2>2. CASE op'[p].pc = "observe" /\ op'[p].kind = "active"
    BY <1>1, <2>2, <1>3, <1>4, ShapeFacts, KindOf DEF StartStep, Idle, Placed, Holds,
      Transaction, Attributing, Looked, Consuming, Renewing, Answered, Settled
  <2>3. CASE op'[p].pc = "observe" /\ op'[p].kind = "import"
    BY <1>1, <2>3, <1>3, <1>4, ShapeFacts, KindOf DEF StartStep, Idle, Placed, Holds,
      Transaction, Attributing, Looked, Consuming, Renewing, Answered, Settled
  <2> QED BY <1>1, <2>1, <2>2, <2>3 DEF StartStep
<1> QED BY <1>1, <1>2, <1>5, QuietShape DEF StartStep

LEMMA ObserveLiveShape ==
  ASSUME TypeInv, TypeInv', ShapeInv, NEW p \in Ops, ObserveLive(p)
  PROVE  ShapeInv'
<1> TypeOK /\ TypeOK'
  BY DEF TypeInv
<1>1. ObserveLiveStep(p)
  BY ObserveLiveDoes
<1>2. Still
  BY <1>1 DEF ObserveLiveStep, Still
<1>3. Holds(p) /\ Placed(p)
  BY DEF TypeInv, ShapeInv
<1>4. Given' = Given
  BY <1>2 DEF Still, Given
<1>5. Holds(p)'
  <2>1. CASE op'[p] = Idle
    BY <2>1, <1>1, IdleHolds
  <2>2. CASE op'[p].pc = "first"
    BY <1>1, <2>2, <1>3, <1>4, ShapeFacts, KindOf DEF ObserveLiveStep, Idle, Placed, Holds,
      Transaction, Attributing, Looked, Consuming, Renewing, Answered, Settled
  <2> QED BY <1>1, <2>1, <2>2 DEF ObserveLiveStep
<1> QED BY <1>1, <1>2, <1>5, QuietShape DEF ObserveLiveStep

LEMMA ReadFirstShape ==
  ASSUME TypeInv, TypeInv', ShapeInv, NEW p \in Ops, ReadFirst(p)
  PROVE  ShapeInv'
<1> TypeOK /\ TypeOK'
  BY DEF TypeInv
<1>1. ReadFirstStep(p)
  BY ReadFirstDoes
<1>2. Still
  BY <1>1 DEF ReadFirstStep, Still
<1>3. Holds(p) /\ Placed(p)
  BY DEF TypeInv, ShapeInv
<1>4. Given' = Given
  BY <1>2 DEF Still, Given
<1>5. Holds(p)'
  <2>1. CASE op'[p].pc = "second" /\ op[p].kind = "import"
    BY <1>1, <2>1, <1>3, <1>4, ShapeFacts, KindOf DEF ReadFirstStep, Idle, Placed, Holds,
      Transaction, Attributing, Looked, Consuming, Renewing, Answered, Settled
  <2>2. CASE op'[p].pc = "second" /\ op[p].kind # "import"
    BY <1>1, <2>2, <1>3, <1>4, ShapeFacts, KindOf DEF ReadFirstStep, Idle, Placed, Holds,
      Transaction, Attributing, Looked, Consuming, Renewing, Answered, Settled
  <2> QED BY <1>1, <2>1, <2>2 DEF ReadFirstStep
<1> QED BY <1>1, <1>2, <1>5, QuietShape DEF ReadFirstStep

LEMMA ReadSecondShape ==
  ASSUME TypeInv, TypeInv', ShapeInv, NEW p \in Ops, ReadSecond(p)
  PROVE  ShapeInv'
<1> TypeOK /\ TypeOK'
  BY DEF TypeInv
<1>1. ReadSecondStep(p)
  BY ReadSecondDoes
<1>2. Still
  BY <1>1 DEF ReadSecondStep, Still
<1>3. Holds(p) /\ Placed(p)
  BY DEF TypeInv, ShapeInv
<1>4. Given' = Given
  BY <1>2 DEF Still, Given
<1>5. Holds(p)'
  <2>1. CASE op'[p].pc = "decide" /\ op[p].kind = "import"
    BY <1>1, <2>1, <1>3, <1>4, ShapeFacts, KindOf DEF ReadSecondStep, Idle, Placed, Holds,
      Transaction, Attributing, Looked, Consuming, Renewing, Answered, Settled
  <2>2. CASE op'[p].pc = "decide" /\ op[p].kind # "import"
    BY <1>1, <2>2, <1>3, <1>4, ShapeFacts, KindOf DEF ReadSecondStep, Idle, Placed, Holds,
      Transaction, Attributing, Looked, Consuming, Renewing, Answered, Settled
  <2> QED BY <1>1, <2>1, <2>2 DEF ReadSecondStep
<1> QED BY <1>1, <1>2, <1>5, QuietShape DEF ReadSecondStep

LEMMA ImportNewShape ==
  ASSUME TypeInv, TypeInv', ShapeInv, NEW p \in Ops, ImportNew(p)
  PROVE  ShapeInv'
<1> TypeOK /\ TypeOK'
  BY DEF TypeInv
<1>1. ImportNewStep(p)
  BY ImportNewDoes
<1>2. Onward /\ Given' = Given
  <2>1. issued \in Nat
    BY Numbers DEF TypeOK
  <2> QED BY <1>1, <2>1 DEF ImportNewStep, Onward, Given
<1>3. Holds(p) /\ Placed(p)
  BY DEF TypeInv, ShapeInv
<1>4. Holds(p)'
  <2>1. CASE op'[p].pc = "imported"
    BY <1>1, <2>1, <1>2, <1>3, ShapeFacts, KindOf DEF ImportNewStep, Idle, Placed, Holds,
      Transaction, Attributing, Looked, Consuming, Renewing, Answered, Settled
  <2>2. CASE op'[p] = Idle
    BY <2>2, <1>1, IdleHolds
  <2> QED BY <1>1, <2>1, <2>2 DEF ImportNewStep
<1>5. Ordered'
  <2>1. heads' \subseteq Given' \ {0} /\ {row'.fp, kc', prev', live', codex'} \subseteq Given'
    BY <1>1, <1>2, <1>3, ShapeFacts DEF ImportNewStep, Holds, Placed, ShapeInv, Ordered, Transaction, Attributing, Looked, Consuming, Renewing, Answered, Settled
  <2>2. \A x \in stash' : <<x.from, x.to>> \in grew' /\ x.to \in arrived' /\ x.from \in heads'
    BY <1>1, <1>3 DEF ImportNewStep, Holds, ShapeInv, Ordered, Renewing, Answered
  <2>3. \A e \in edges' : e[1] \in heads'
    BY <1>1, <1>3, TokFacts DEF ImportNewStep, Holds, ShapeInv, Ordered, Renewing, Answered
  <2>4. (row'.fp # 0 => row'.fp \in heads') /\ (row'.fp = 0 => heads' = {})
    BY <1>1, <1>3, ShapeFacts DEF ImportNewStep, Holds, Placed, ShapeInv, Ordered, Transaction, Attributing, Looked, Consuming, Renewing, Answered, Settled
  <2>5. prev' \in heads' \cup arrived' \cup {0}
    BY <1>1, <1>3, ShapeFacts DEF ImportNewStep, Holds, Placed, Transaction, Attributing, Looked, Consuming, Renewing, Answered, Settled
  <2>6. live' \in heads' \cup {0} \/ (live' \notin arrived' /\ \A e \in grew' : e[1] # live')
    BY <1>1, <1>3 DEF ImportNewStep, Holds, ShapeInv, Ordered, Transaction, Attributing, Looked, Consuming, Renewing, Answered, Settled
  <2>7. \A e \in grew' : e[2] \in arrived' => e[1] \in heads'
    BY <1>1, <1>2, <1>3 DEF ImportNewStep, Onward, ShapeInv, Ordered
  <2> QED BY <1>1, <1>2, <2>1, <2>2, <2>3, <2>4, <2>5, <2>6, <2>7 DEF ImportNewStep, ShapeInv, Ordered
<1>6. Lineage'
  BY <1>1, LineageStays DEF ImportNewStep, ShapeInv
<1>7. Undisturbed(p)
  BY <1>1, <1>3, OpsAssumption DEF ImportNewStep, Undisturbed, Placed, Transaction
<1> QED BY <1>2, <1>4, <1>5, <1>6, <1>7, OthersShape

LEMMA ImportCommitShape ==
  ASSUME TypeInv, TypeInv', ShapeInv, NEW p \in Ops, ImportCommit(p)
  PROVE  ShapeInv'
<1> TypeOK /\ TypeOK'
  BY DEF TypeInv
<1>1. ImportCommitStep(p)
  BY ImportCommitDoes
<1>2. Onward /\ Given' = Given
  <2>1. issued \in Nat
    BY Numbers DEF TypeOK
  <2> QED BY <1>1, <2>1 DEF ImportCommitStep, Onward, Given
<1>3. Holds(p) /\ Placed(p)
  BY DEF TypeInv, ShapeInv
<1>4. Holds(p)'
  BY <1>1, <1>1, IdleHolds DEF ImportCommitStep
<1>5. Ordered'
  <2>1. heads' \subseteq Given' \ {0} /\ {row'.fp, kc', prev', live', codex'} \subseteq Given'
    BY <1>1, <1>2, <1>3, ShapeFacts DEF ImportCommitStep, Holds, Placed, ShapeInv, Ordered, Transaction, Attributing, Looked, Consuming, Renewing, Answered, Settled
  <2>2. \A x \in stash' : <<x.from, x.to>> \in grew' /\ x.to \in arrived' /\ x.from \in heads'
    BY <1>1, <1>3 DEF ImportCommitStep, Holds, ShapeInv, Ordered, Renewing, Answered
  <2>3. \A e \in edges' : e[1] \in heads'
    BY <1>1, <1>3, TokFacts DEF ImportCommitStep, Holds, ShapeInv, Ordered, Renewing, Answered
  <2>4. (row'.fp # 0 => row'.fp \in heads') /\ (row'.fp = 0 => heads' = {})
    BY <1>1, <1>3, ShapeFacts DEF ImportCommitStep, Holds, Placed, ShapeInv, Ordered, Transaction, Attributing, Looked, Consuming, Renewing, Answered, Settled
  <2>5. prev' \in heads' \cup arrived' \cup {0}
    BY <1>1, <1>3, ShapeFacts DEF ImportCommitStep, Holds, Placed, Transaction, Attributing, Looked, Consuming, Renewing, Answered, Settled
  <2>6. live' \in heads' \cup {0} \/ (live' \notin arrived' /\ \A e \in grew' : e[1] # live')
    BY <1>1, <1>3 DEF ImportCommitStep, Holds, ShapeInv, Ordered, Transaction, Attributing, Looked, Consuming, Renewing, Answered, Settled
  <2>7. \A e \in grew' : e[2] \in arrived' => e[1] \in heads'
    BY <1>1, <1>2, <1>3 DEF ImportCommitStep, Onward, ShapeInv, Ordered
  <2> QED BY <1>1, <1>2, <2>1, <2>2, <2>3, <2>4, <2>5, <2>6, <2>7 DEF ImportCommitStep, ShapeInv, Ordered
<1>6. Lineage'
  <2>1. CASE heads' = heads /\ row' = row /\ edges' = edges
    BY <2>1, LineageStays DEF ShapeInv
  <2>2. CASE row'.fp = op[p].seen /\ heads' = heads \cup {op[p].seen} /\ row.fp = op[p].seen /\ edges' = edges
    <3>1. heads' = heads
      BY <1>3, <2>2, ShapeFacts, <1>1 DEF Placed, ImportCommitStep, Looked, Attributing
    <3> QED BY <2>2, <3>1, LineageStays DEF ShapeInv
  <2>3. CASE row'.fp = op[p].seen /\ heads' = heads \cup {op[p].seen} /\ row.fp = 0
    BY <2>3 DEF ShapeInv, Ordered, Lineage
  <2>4. CASE /\ row'.fp = op[p].seen /\ heads' = heads \cup {op[p].seen} /\ row.fp \notin {0, op[p].seen}
             /\ edges' = edges \cup {<<row.fp, op[p].seen>>}
    BY <2>4, LineageMoves DEF ShapeInv
  <2> QED BY <1>1, <2>1, <2>2, <2>3, <2>4 DEF ImportCommitStep
<1>7. Undisturbed(p)
  BY <1>1, <1>3, OpsAssumption DEF ImportCommitStep, Undisturbed, Placed, Transaction
<1> QED BY <1>2, <1>4, <1>5, <1>6, <1>7, OthersShape

LEMMA RepairSplitShape ==
  ASSUME TypeInv, TypeInv', ShapeInv, NEW p \in Ops, RepairSplit(p)
  PROVE  ShapeInv'
<1> TypeOK /\ TypeOK'
  BY DEF TypeInv
<1>1. RepairSplitStep(p)
  BY RepairSplitDoes
<1>2. Onward /\ Given' = Given
  <2>1. issued \in Nat
    BY Numbers DEF TypeOK
  <2> QED BY <1>1, <2>1 DEF RepairSplitStep, Onward, Given
<1>3. Holds(p) /\ Placed(p)
  BY DEF TypeInv, ShapeInv
<1>4. Holds(p)'
  <2>1. CASE op'[p].pc = op[p].pc
    BY <1>1, <2>1, <1>2, <1>3, ShapeFacts, KindOf DEF RepairSplitStep, Idle, Placed, Holds,
      Transaction, Attributing, Looked, Consuming, Renewing, Answered, Settled
  <2>2. CASE op'[p] = Idle
    BY <2>2, <1>1, IdleHolds
  <2> QED BY <1>1, <2>1, <2>2 DEF RepairSplitStep
<1>5. Ordered'
  <2>1. heads' \subseteq Given' \ {0} /\ {row'.fp, kc', prev', live', codex'} \subseteq Given'
    BY <1>1, <1>2, <1>3, ShapeFacts DEF RepairSplitStep, Holds, Placed, ShapeInv, Ordered, Transaction, Attributing, Looked, Consuming, Renewing, Answered, Settled
  <2>2. \A x \in stash' : <<x.from, x.to>> \in grew' /\ x.to \in arrived' /\ x.from \in heads'
    BY <1>1, <1>3 DEF RepairSplitStep, Holds, ShapeInv, Ordered, Renewing, Answered
  <2>3. \A e \in edges' : e[1] \in heads'
    BY <1>1, <1>3, TokFacts DEF RepairSplitStep, Holds, ShapeInv, Ordered, Renewing, Answered
  <2>4. (row'.fp # 0 => row'.fp \in heads') /\ (row'.fp = 0 => heads' = {})
    BY <1>1, <1>3, ShapeFacts DEF RepairSplitStep, Holds, Placed, ShapeInv, Ordered, Transaction, Attributing, Looked, Consuming, Renewing, Answered, Settled
  <2>5. prev' \in heads' \cup arrived' \cup {0}
    BY <1>1, <1>3, ShapeFacts DEF RepairSplitStep, Holds, Placed, Transaction, Attributing, Looked, Consuming, Renewing, Answered, Settled
  <2>6. live' \in heads' \cup {0} \/ (live' \notin arrived' /\ \A e \in grew' : e[1] # live')
    BY <1>1, <1>3 DEF RepairSplitStep, Holds, ShapeInv, Ordered, Transaction, Attributing, Looked, Consuming, Renewing, Answered, Settled
  <2>7. \A e \in grew' : e[2] \in arrived' => e[1] \in heads'
    BY <1>1, <1>2, <1>3 DEF RepairSplitStep, Onward, ShapeInv, Ordered
  <2> QED BY <1>1, <1>2, <2>1, <2>2, <2>3, <2>4, <2>5, <2>6, <2>7 DEF RepairSplitStep, ShapeInv, Ordered
<1>6. Lineage'
  BY <1>1, LineageStays DEF RepairSplitStep, ShapeInv
<1>7. Undisturbed(p)
  BY <1>1, <1>3, OpsAssumption DEF RepairSplitStep, Undisturbed, Placed, Transaction
<1> QED BY <1>2, <1>4, <1>5, <1>6, <1>7, OthersShape

LEMMA NoopShape ==
  ASSUME TypeInv, TypeInv', ShapeInv, NEW p \in Ops, Noop(p)
  PROVE  ShapeInv'
<1> TypeOK /\ TypeOK'
  BY DEF TypeInv
<1>1. NoopStep(p)
  BY NoopDoes
<1>2. Still
  BY <1>1 DEF NoopStep, Still
<1>3. Holds(p) /\ Placed(p)
  BY DEF TypeInv, ShapeInv
<1>4. Given' = Given
  BY <1>2 DEF Still, Given
<1>5. Holds(p)'
  BY <1>1, <1>3, <1>4, ShapeFacts, KindOf DEF NoopStep, Idle, Placed, Holds,
      Transaction, Attributing, Looked, Consuming, Renewing, Answered, Settled
<1> QED BY <1>1, <1>2, <1>5, QuietShape DEF NoopStep

LEMMA RepublishShape ==
  ASSUME TypeInv, TypeInv', ShapeInv, NEW p \in Ops, Republish(p)
  PROVE  ShapeInv'
<1> TypeOK /\ TypeOK'
  BY DEF TypeInv
<1>1. RepublishStep(p)
  BY RepublishDoes
<1>2. Still
  BY <1>1 DEF RepublishStep, Still
<1>3. Holds(p) /\ Placed(p)
  BY DEF TypeInv, ShapeInv
<1>4. Given' = Given
  BY <1>2 DEF Still, Given
<1>5. Holds(p)'
  <2>1. CASE op'[p] = Idle
    BY <2>1, <1>1, IdleHolds
  <2>2. CASE op'[p].pc = "observe"
    BY <1>1, <2>2, <1>3, <1>4, ShapeFacts, KindOf DEF RepublishStep, Idle, Placed, Holds,
      Transaction, Attributing, Looked, Consuming, Renewing, Answered, Settled
  <2>3. CASE op'[p].pc = "publish"
    BY <1>1, <2>3, <1>3, <1>4, ShapeFacts, KindOf DEF RepublishStep, Idle, Placed, Holds,
      Transaction, Attributing, Looked, Consuming, Renewing, Answered, Settled
  <2> QED BY <1>1, <2>1, <2>2, <2>3 DEF RepublishStep
<1> QED BY <1>1, <1>2, <1>5, QuietShape DEF RepublishStep

LEMMA PublishSlotShape ==
  ASSUME TypeInv, TypeInv', ShapeInv, NEW p \in Ops, PublishSlot(p)
  PROVE  ShapeInv'
<1> TypeOK /\ TypeOK'
  BY DEF TypeInv
<1>1. PublishSlotStep(p)
  BY PublishSlotDoes
<1>2. Onward /\ Given' = Given
  <2>1. issued \in Nat
    BY Numbers DEF TypeOK
  <2> QED BY <1>1, <2>1 DEF PublishSlotStep, Onward, Given
<1>3. Holds(p) /\ Placed(p)
  BY DEF TypeInv, ShapeInv
<1>4. Holds(p)'
  <2>1. CASE op'[p].pc = "mark"
    BY <1>1, <2>1, <1>2, <1>3, ShapeFacts, KindOf DEF PublishSlotStep, Idle, Placed, Holds,
      Transaction, Attributing, Looked, Consuming, Renewing, Answered, Settled
  <2>2. CASE op'[p] = Idle
    BY <2>2, <1>1, IdleHolds
  <2> QED BY <1>1, <2>1, <2>2 DEF PublishSlotStep
<1>5. Ordered'
  <2>1. heads' \subseteq Given' \ {0} /\ {row'.fp, kc', prev', live', codex'} \subseteq Given'
    BY <1>1, <1>2, <1>3, ShapeFacts DEF PublishSlotStep, Holds, Placed, ShapeInv, Ordered, Transaction, Attributing, Looked, Consuming, Renewing, Answered, Settled
  <2>2. \A x \in stash' : <<x.from, x.to>> \in grew' /\ x.to \in arrived' /\ x.from \in heads'
    BY <1>1, <1>3 DEF PublishSlotStep, Holds, ShapeInv, Ordered, Renewing, Answered
  <2>3. \A e \in edges' : e[1] \in heads'
    BY <1>1, <1>3, TokFacts DEF PublishSlotStep, Holds, ShapeInv, Ordered, Renewing, Answered
  <2>4. (row'.fp # 0 => row'.fp \in heads') /\ (row'.fp = 0 => heads' = {})
    BY <1>1, <1>3, ShapeFacts DEF PublishSlotStep, Holds, Placed, ShapeInv, Ordered, Transaction, Attributing, Looked, Consuming, Renewing, Answered, Settled
  <2>5. prev' \in heads' \cup arrived' \cup {0}
    BY <1>1, <1>3, ShapeFacts DEF PublishSlotStep, Holds, Placed, Transaction, Attributing, Looked, Consuming, Renewing, Answered, Settled
  <2>6. live' \in heads' \cup {0} \/ (live' \notin arrived' /\ \A e \in grew' : e[1] # live')
    BY <1>1, <1>3 DEF PublishSlotStep, Holds, ShapeInv, Ordered, Transaction, Attributing, Looked, Consuming, Renewing, Answered, Settled
  <2>7. \A e \in grew' : e[2] \in arrived' => e[1] \in heads'
    BY <1>1, <1>2, <1>3 DEF PublishSlotStep, Onward, ShapeInv, Ordered
  <2> QED BY <1>1, <1>2, <2>1, <2>2, <2>3, <2>4, <2>5, <2>6, <2>7 DEF PublishSlotStep, ShapeInv, Ordered
<1>6. Lineage'
  BY <1>1, LineageStays DEF PublishSlotStep, ShapeInv
<1>7. Undisturbed(p)
  BY <1>1, <1>3, OpsAssumption DEF PublishSlotStep, Undisturbed, Placed, Transaction
<1> QED BY <1>2, <1>4, <1>5, <1>6, <1>7, OthersShape

LEMMA MarkShape ==
  ASSUME TypeInv, TypeInv', ShapeInv, NEW p \in Ops, Mark(p)
  PROVE  ShapeInv'
<1> TypeOK /\ TypeOK'
  BY DEF TypeInv
<1>1. MarkStep(p)
  BY MarkDoes
<1>2. Still
  BY <1>1 DEF MarkStep, Still
<1>3. Holds(p) /\ Placed(p)
  BY DEF TypeInv, ShapeInv
<1>4. Given' = Given
  BY <1>2 DEF Still, Given
<1>5. Holds(p)'
  <2>1. CASE op'[p].pc = "due"
    BY <1>1, <2>1, <1>3, <1>4, ShapeFacts, KindOf DEF MarkStep, Idle, Placed, Holds,
      Transaction, Attributing, Looked, Consuming, Renewing, Answered, Settled
  <2>2. CASE op'[p] = Idle
    BY <2>2, <1>1, IdleHolds
  <2> QED BY <1>1, <2>1, <2>2 DEF MarkStep
<1> QED BY <1>1, <1>2, <1>5, QuietShape DEF MarkStep

LEMMA AdoptShape ==
  ASSUME TypeInv, TypeInv', ShapeInv, NEW p \in Ops, Adopt(p)
  PROVE  ShapeInv'
<1> TypeOK /\ TypeOK'
  BY DEF TypeInv
<1>1. AdoptStep(p)
  BY AdoptDoes
<1>2. Onward /\ Given' = Given
  <2>1. issued \in Nat
    BY Numbers DEF TypeOK
  <2> QED BY <1>1, <2>1 DEF AdoptStep, Onward, Given
<1>3. Holds(p) /\ Placed(p)
  BY DEF TypeInv, ShapeInv
<1>9. op'[p].pc = "adopted" => op[p].seen \notin heads
  <2>1. SUFFICES ASSUME op[p].seen \in heads, op'[p].pc = "adopted" PROVE FALSE
    OBVIOUS
  <2>0. row.fp = op[p].row
    BY <1>1, <2>1 DEF AdoptStep, Idle
  <2>2. Reaches(edges, op[p].seen, op[p].row)
    BY <1>1, <2>1, <2>0 DEF AdoptStep, ShapeInv, Lineage
  <2>3. isSuccessor(op[p].seen, op[p].row)
    BY <2>2, ReachMore DEF isSuccessor
  <2> QED BY <1>1, <2>3 DEF AdoptStep
<1>4. Holds(p)'
  <2>1. CASE op'[p].pc = "adopted"
    BY <1>1, <2>1, <1>9, <1>2, <1>3, ShapeFacts, KindOf DEF AdoptStep, Idle, Placed, Holds,
      Transaction, Attributing, Looked, Consuming, Renewing, Answered, Settled
  <2>2. CASE op'[p] = Idle
    BY <2>2, <1>1, IdleHolds
  <2> QED BY <1>1, <2>1, <2>2 DEF AdoptStep
<1>5. Ordered'
  <2>1. heads' \subseteq Given' \ {0} /\ {row'.fp, kc', prev', live', codex'} \subseteq Given'
    BY <1>1, <1>2, <1>3, ShapeFacts DEF AdoptStep, Holds, Placed, ShapeInv, Ordered, Transaction, Attributing, Looked, Consuming, Renewing, Answered, Settled
  <2>2. \A x \in stash' : <<x.from, x.to>> \in grew' /\ x.to \in arrived' /\ x.from \in heads'
    BY <1>1, <1>3 DEF AdoptStep, Holds, ShapeInv, Ordered, Renewing, Answered
  <2>3. \A e \in edges' : e[1] \in heads'
    BY <1>1, <1>3, TokFacts DEF AdoptStep, Holds, ShapeInv, Ordered, Renewing, Answered
  <2>4. (row'.fp # 0 => row'.fp \in heads') /\ (row'.fp = 0 => heads' = {})
    BY <1>1, <1>3, ShapeFacts DEF AdoptStep, Holds, Placed, ShapeInv, Ordered, Transaction, Attributing, Looked, Consuming, Renewing, Answered, Settled
  <2>5. prev' \in heads' \cup arrived' \cup {0}
    BY <1>1, <1>3, ShapeFacts DEF AdoptStep, Holds, Placed, Transaction, Attributing, Looked, Consuming, Renewing, Answered, Settled
  <2>6. live' \in heads' \cup {0} \/ (live' \notin arrived' /\ \A e \in grew' : e[1] # live')
    BY <1>1, <1>3 DEF AdoptStep, Holds, ShapeInv, Ordered, Transaction, Attributing, Looked, Consuming, Renewing, Answered, Settled
  <2>7. \A e \in grew' : e[2] \in arrived' => e[1] \in heads'
    BY <1>1, <1>2, <1>3 DEF AdoptStep, Onward, ShapeInv, Ordered
  <2> QED BY <1>1, <1>2, <2>1, <2>2, <2>3, <2>4, <2>5, <2>6, <2>7 DEF AdoptStep, ShapeInv, Ordered
<1>6. Lineage'
  BY <1>1, LineageStays DEF AdoptStep, ShapeInv
<1>7. Undisturbed(p)
  BY <1>1, <1>3, OpsAssumption DEF AdoptStep, Undisturbed, Placed, Transaction
<1> QED BY <1>2, <1>4, <1>5, <1>6, <1>7, OthersShape

LEMMA AdoptCommitShape ==
  ASSUME TypeInv, TypeInv', ShapeInv, NEW p \in Ops, AdoptCommit(p)
  PROVE  ShapeInv'
<1> TypeOK /\ TypeOK'
  BY DEF TypeInv
<1>1. AdoptCommitStep(p)
  BY AdoptCommitDoes
<1>2. Onward /\ Given' = Given
  <2>1. issued \in Nat
    BY Numbers DEF TypeOK
  <2> QED BY <1>1, <2>1 DEF AdoptCommitStep, Onward, Given
<1>3. Holds(p) /\ Placed(p)
  BY DEF TypeInv, ShapeInv
<1>4. Holds(p)'
  <2>1. CASE op'[p].pc = "due"
    BY <1>1, <2>1, <1>2, <1>3, ShapeFacts, KindOf DEF AdoptCommitStep, Idle, Placed, Holds,
      Transaction, Attributing, Looked, Consuming, Renewing, Answered, Settled
  <2>2. CASE op'[p] = Idle
    BY <2>2, <1>1, IdleHolds
  <2> QED BY <1>1, <2>1, <2>2 DEF AdoptCommitStep
<1>5. Ordered'
  <2>1. heads' \subseteq Given' \ {0} /\ {row'.fp, kc', prev', live', codex'} \subseteq Given'
    BY <1>1, <1>2, <1>3, ShapeFacts DEF AdoptCommitStep, Holds, Placed, ShapeInv, Ordered, Transaction, Attributing, Looked, Consuming, Renewing, Answered, Settled
  <2>2. \A x \in stash' : <<x.from, x.to>> \in grew' /\ x.to \in arrived' /\ x.from \in heads'
    BY <1>1, <1>3 DEF AdoptCommitStep, Holds, ShapeInv, Ordered, Renewing, Answered
  <2>3. \A e \in edges' : e[1] \in heads'
    BY <1>1, <1>3, TokFacts DEF AdoptCommitStep, Holds, ShapeInv, Ordered, Renewing, Answered
  <2>4. (row'.fp # 0 => row'.fp \in heads') /\ (row'.fp = 0 => heads' = {})
    BY <1>1, <1>3, ShapeFacts DEF AdoptCommitStep, Holds, Placed, ShapeInv, Ordered, Transaction, Attributing, Looked, Consuming, Renewing, Answered, Settled
  <2>5. prev' \in heads' \cup arrived' \cup {0}
    BY <1>1, <1>3, ShapeFacts DEF AdoptCommitStep, Holds, Placed, Transaction, Attributing, Looked, Consuming, Renewing, Answered, Settled
  <2>6. live' \in heads' \cup {0} \/ (live' \notin arrived' /\ \A e \in grew' : e[1] # live')
    BY <1>1, <1>3 DEF AdoptCommitStep, Holds, ShapeInv, Ordered, Transaction, Attributing, Looked, Consuming, Renewing, Answered, Settled
  <2>7. \A e \in grew' : e[2] \in arrived' => e[1] \in heads'
    BY <1>1, <1>2, <1>3 DEF AdoptCommitStep, Onward, ShapeInv, Ordered
  <2> QED BY <1>1, <1>2, <2>1, <2>2, <2>3, <2>4, <2>5, <2>6, <2>7 DEF AdoptCommitStep, ShapeInv, Ordered
<1>6. Lineage'
  <2>1. row.fp = op[p].row
    BY <1>1, <1>3 DEF AdoptCommitStep, Holds
  <2> QED BY <1>1, <2>1, LineageMoves DEF AdoptCommitStep, ShapeInv
<1>7. Undisturbed(p)
  BY <1>1, <1>3, OpsAssumption DEF AdoptCommitStep, Undisturbed, Placed, Transaction
<1> QED BY <1>2, <1>4, <1>5, <1>6, <1>7, OthersShape

LEMMA AdoptUndoShape ==
  ASSUME TypeInv, TypeInv', ShapeInv, NEW p \in Ops, AdoptUndo(p)
  PROVE  ShapeInv'
<1> TypeOK /\ TypeOK'
  BY DEF TypeInv
<1>1. AdoptUndoStep(p)
  BY AdoptUndoDoes
<1>2. Onward /\ Given' = Given
  <2>1. issued \in Nat
    BY Numbers DEF TypeOK
  <2> QED BY <1>1, <2>1 DEF AdoptUndoStep, Onward, Given
<1>3. Holds(p) /\ Placed(p)
  BY DEF TypeInv, ShapeInv
<1>4. Holds(p)'
  BY <1>1, <1>1, IdleHolds DEF AdoptUndoStep
<1>5. Ordered'
  <2>1. heads' \subseteq Given' \ {0} /\ {row'.fp, kc', prev', live', codex'} \subseteq Given'
    BY <1>1, <1>2, <1>3, ShapeFacts DEF AdoptUndoStep, Holds, Placed, ShapeInv, Ordered, Transaction, Attributing, Looked, Consuming, Renewing, Answered, Settled
  <2>2. \A x \in stash' : <<x.from, x.to>> \in grew' /\ x.to \in arrived' /\ x.from \in heads'
    BY <1>1, <1>3 DEF AdoptUndoStep, Holds, ShapeInv, Ordered, Renewing, Answered
  <2>3. \A e \in edges' : e[1] \in heads'
    BY <1>1, <1>3, TokFacts DEF AdoptUndoStep, Holds, ShapeInv, Ordered, Renewing, Answered
  <2>4. (row'.fp # 0 => row'.fp \in heads') /\ (row'.fp = 0 => heads' = {})
    BY <1>1, <1>3, ShapeFacts DEF AdoptUndoStep, Holds, Placed, ShapeInv, Ordered, Transaction, Attributing, Looked, Consuming, Renewing, Answered, Settled
  <2>5. prev' \in heads' \cup arrived' \cup {0}
    BY <1>1, <1>3, ShapeFacts DEF AdoptUndoStep, Holds, Placed, Transaction, Attributing, Looked, Consuming, Renewing, Answered, Settled
  <2>6. live' \in heads' \cup {0} \/ (live' \notin arrived' /\ \A e \in grew' : e[1] # live')
    BY <1>1, <1>3 DEF AdoptUndoStep, Holds, ShapeInv, Ordered, Transaction, Attributing, Looked, Consuming, Renewing, Answered, Settled
  <2>7. \A e \in grew' : e[2] \in arrived' => e[1] \in heads'
    BY <1>1, <1>2, <1>3 DEF AdoptUndoStep, Onward, ShapeInv, Ordered
  <2> QED BY <1>1, <1>2, <2>1, <2>2, <2>3, <2>4, <2>5, <2>6, <2>7 DEF AdoptUndoStep, ShapeInv, Ordered
<1>6. Lineage'
  BY <1>1, LineageStays DEF AdoptUndoStep, ShapeInv
<1>7. Undisturbed(p)
  BY <1>1, <1>3, OpsAssumption DEF AdoptUndoStep, Undisturbed, Placed, Transaction
<1> QED BY <1>2, <1>4, <1>5, <1>6, <1>7, OthersShape

LEMMA DueShape ==
  ASSUME TypeInv, TypeInv', ShapeInv, NEW p \in Ops, Due(p)
  PROVE  ShapeInv'
<1> TypeOK /\ TypeOK'
  BY DEF TypeInv
<1>1. DueStep(p)
  BY DueDoes
<1>2. Still
  BY <1>1 DEF DueStep, Still
<1>3. Holds(p) /\ Placed(p)
  BY DEF TypeInv, ShapeInv
<1>4. Given' = Given
  BY <1>2 DEF Still, Given
<1>5. Holds(p)'
  <2>1. CASE op'[p] = Idle
    BY <2>1, <1>1, IdleHolds
  <2>2. CASE op'[p].pc = "read"
    BY <1>1, <2>2, <1>3, <1>4, ShapeFacts, KindOf DEF DueStep, Idle, Placed, Holds,
      Transaction, Attributing, Looked, Consuming, Renewing, Answered, Settled
  <2> QED BY <1>1, <2>1, <2>2 DEF DueStep
<1> QED BY <1>1, <1>2, <1>5, QuietShape DEF DueStep

LEMMA ReadSlotShape ==
  ASSUME TypeInv, TypeInv', ShapeInv, NEW p \in Ops, ReadSlot(p)
  PROVE  ShapeInv'
<1> TypeOK /\ TypeOK'
  BY DEF TypeInv
<1>1. ReadSlotStep(p)
  BY ReadSlotDoes
<1>2. Still
  BY <1>1 DEF ReadSlotStep, Still
<1>3. Holds(p) /\ Placed(p)
  BY DEF TypeInv, ShapeInv
<1>4. Given' = Given
  BY <1>2 DEF Still, Given
<1>5. Holds(p)'
  BY <1>1, <1>3, <1>4, ShapeFacts, KindOf DEF ReadSlotStep, Idle, Placed, Holds,
      Transaction, Attributing, Looked, Consuming, Renewing, Answered, Settled
<1> QED BY <1>1, <1>2, <1>5, QuietShape DEF ReadSlotStep

LEMMA RepairDriftShape ==
  ASSUME TypeInv, TypeInv', ShapeInv, NEW p \in Ops, RepairDrift(p)
  PROVE  ShapeInv'
<1> TypeOK /\ TypeOK'
  BY DEF TypeInv
<1>1. RepairDriftStep(p)
  BY RepairDriftDoes
<1>2. Onward /\ Given' = Given
  <2>1. issued \in Nat
    BY Numbers DEF TypeOK
  <2> QED BY <1>1, <2>1 DEF RepairDriftStep, Onward, Given
<1>3. Holds(p) /\ Placed(p)
  BY DEF TypeInv, ShapeInv
<1>4. Holds(p)'
  <2>1. CASE op'[p].pc = "find"
    BY <1>1, <2>1, <1>2, <1>3, ShapeFacts, KindOf DEF RepairDriftStep, Idle, Placed, Holds,
      Transaction, Attributing, Looked, Consuming, Renewing, Answered, Settled
  <2>2. CASE op'[p] = Idle
    BY <2>2, <1>1, IdleHolds
  <2> QED BY <1>1, <2>1, <2>2 DEF RepairDriftStep
<1>5. Ordered'
  <2>1. heads' \subseteq Given' \ {0} /\ {row'.fp, kc', prev', live', codex'} \subseteq Given'
    BY <1>1, <1>2, <1>3, ShapeFacts DEF RepairDriftStep, Holds, Placed, ShapeInv, Ordered, Transaction, Attributing, Looked, Consuming, Renewing, Answered, Settled
  <2>2. \A x \in stash' : <<x.from, x.to>> \in grew' /\ x.to \in arrived' /\ x.from \in heads'
    BY <1>1, <1>3 DEF RepairDriftStep, Holds, ShapeInv, Ordered, Renewing, Answered
  <2>3. \A e \in edges' : e[1] \in heads'
    <3>1. \A e \in edges : e[1] \in heads
      BY DEF ShapeInv, Ordered
    <3>2. row.fp # 0
      BY <1>1, <1>3 DEF RepairDriftStep, TypeInv, TypeOK, OpRec, Placed, Attributing, Consuming
    <3>3. row.fp \in heads
      BY <3>2, ShapeFacts
    <3>4. \A e \in edges' : e \in edges \/ e[1] = row.fp
      BY <1>1 DEF RepairDriftStep
    <3>5. heads \subseteq heads'
      BY <1>1 DEF RepairDriftStep
    <3> QED BY <3>1, <3>3, <3>4, <3>5
  <2>4. (row'.fp # 0 => row'.fp \in heads') /\ (row'.fp = 0 => heads' = {})
    BY <1>1, <1>3, ShapeFacts DEF RepairDriftStep, Holds, Placed, ShapeInv, Ordered, Transaction, Attributing, Looked, Consuming, Renewing, Answered, Settled
  <2>5. prev' \in heads' \cup arrived' \cup {0}
    BY <1>1, <1>3, ShapeFacts DEF RepairDriftStep, Holds, Placed, Transaction, Attributing, Looked, Consuming, Renewing, Answered, Settled
  <2>6. live' \in heads' \cup {0} \/ (live' \notin arrived' /\ \A e \in grew' : e[1] # live')
    BY <1>1, <1>3 DEF RepairDriftStep, Holds, ShapeInv, Ordered, Transaction, Attributing, Looked, Consuming, Renewing, Answered, Settled
  <2>7. \A e \in grew' : e[2] \in arrived' => e[1] \in heads'
    BY <1>1, <1>2, <1>3 DEF RepairDriftStep, Onward, ShapeInv, Ordered
  <2> QED BY <1>1, <1>2, <2>1, <2>2, <2>3, <2>4, <2>5, <2>6, <2>7 DEF RepairDriftStep, ShapeInv, Ordered
<1>6. Lineage'
  <2>1. CASE heads' = heads /\ row' = row /\ edges' = edges
    BY <2>1, LineageStays DEF ShapeInv
  <2>2. CASE /\ row'.fp = op[p].cur /\ heads' = heads \cup {op[p].cur}
             /\ row.fp = op[p].cur /\ edges' = edges
    <3>1. heads' = heads
      BY <1>3, <2>2, ShapeFacts, <1>1 DEF Placed, RepairDriftStep, Renewing
    <3> QED BY <2>2, <3>1, LineageStays DEF ShapeInv
  <2>3. CASE /\ row'.fp = op[p].cur /\ heads' = heads \cup {op[p].cur}
             /\ edges' = edges \cup {<<row.fp, op[p].cur>>}
    BY <2>3, LineageMoves DEF ShapeInv
  <2> QED BY <1>1, <2>1, <2>2, <2>3 DEF RepairDriftStep
<1>7. Undisturbed(p)
  BY <1>1, <1>3, OpsAssumption DEF RepairDriftStep, Undisturbed, Placed, Transaction
<1> QED BY <1>2, <1>4, <1>5, <1>6, <1>7, OthersShape

LEMMA FindStashedShape ==
  ASSUME TypeInv, TypeInv', ShapeInv, NEW p \in Ops, FindStashed(p)
  PROVE  ShapeInv'
<1> TypeOK /\ TypeOK'
  BY DEF TypeInv
<1>1. FindStashedStep(p)
  BY FindStashedDoes
<1>2. Still
  BY <1>1 DEF FindStashedStep, Still
<1>3. Holds(p) /\ Placed(p)
  BY DEF TypeInv, ShapeInv
<1>4. Given' = Given
  BY <1>2 DEF Still, Given
<1>5. Holds(p)'
  <2>1. CASE op'[p].pc = "begin"
    BY <1>1, <2>1, <1>3, <1>4, ShapeFacts, KindOf DEF FindStashedStep, Idle, Placed, Holds,
      Transaction, Attributing, Looked, Consuming, Renewing, Answered, Settled
  <2>2. CASE op'[p] = Idle
    BY <2>2, <1>1, IdleHolds
  <2>3. CASE op'[p].pc = "post"
    BY <1>1, <2>3, <1>3, <1>4, ShapeFacts, KindOf DEF FindStashedStep, Idle, Placed, Holds,
      Transaction, Attributing, Looked, Consuming, Renewing, Answered, Settled
  <2> QED BY <1>1, <2>1, <2>2, <2>3 DEF FindStashedStep
<1> QED BY <1>1, <1>2, <1>5, QuietShape DEF FindStashedStep

LEMMA PostRejectedShape ==
  ASSUME TypeInv, TypeInv', ShapeInv, NEW p \in Ops, PostRejected(p)
  PROVE  ShapeInv'
<1> TypeOK /\ TypeOK'
  BY DEF TypeInv
<1>1. PostRejectedStep(p)
  BY PostRejectedDoes
<1>2. Still
  BY <1>1 DEF PostRejectedStep, Still
<1>3. Holds(p) /\ Placed(p)
  BY DEF TypeInv, ShapeInv
<1>4. Given' = Given
  BY <1>2 DEF Still, Given
<1>5. Holds(p)'
  BY <1>1, <1>3, <1>4, ShapeFacts, KindOf DEF PostRejectedStep, Idle, Placed, Holds,
      Transaction, Attributing, Looked, Consuming, Renewing, Answered, Settled
<1> QED BY <1>1, <1>2, <1>5, QuietShape DEF PostRejectedStep

LEMMA PostFailedShape ==
  ASSUME TypeInv, TypeInv', ShapeInv, NEW p \in Ops, PostFailed(p)
  PROVE  ShapeInv'
<1> TypeOK /\ TypeOK'
  BY DEF TypeInv
<1>1. PostFailedStep(p)
  BY PostFailedDoes
<1>2. Still
  BY <1>1 DEF PostFailedStep, Still
<1>3. Holds(p) /\ Placed(p)
  BY DEF TypeInv, ShapeInv
<1>4. Given' = Given
  BY <1>2 DEF Still, Given
<1>5. Holds(p)'
  BY <1>1, <1>1, IdleHolds DEF PostFailedStep
<1> QED BY <1>1, <1>2, <1>5, QuietShape DEF PostFailedStep

LEMMA RejectedShape ==
  ASSUME TypeInv, TypeInv', ShapeInv, NEW p \in Ops, Rejected(p)
  PROVE  ShapeInv'
<1> TypeOK /\ TypeOK'
  BY DEF TypeInv
<1>1. RejectedStep(p)
  BY RejectedDoes
<1>2. Still
  BY <1>1 DEF RejectedStep, Still
<1>3. Holds(p) /\ Placed(p)
  BY DEF TypeInv, ShapeInv
<1>4. Given' = Given
  BY <1>2 DEF Still, Given
<1>5. Holds(p)'
  <2>1. CASE op'[p].pc = "refused"
    BY <1>1, <2>1, <1>3, <1>4, ShapeFacts, KindOf DEF RejectedStep, Idle, Placed, Holds,
      Transaction, Attributing, Looked, Consuming, Renewing, Answered, Settled
  <2>2. CASE op'[p] = Idle
    BY <2>2, <1>1, IdleHolds
  <2> QED BY <1>1, <2>1, <2>2 DEF RejectedStep
<1> QED BY <1>1, <1>2, <1>5, QuietShape DEF RejectedStep

LEMMA RecordRejectedShape ==
  ASSUME TypeInv, TypeInv', ShapeInv, NEW p \in Ops, RecordRejected(p)
  PROVE  ShapeInv'
<1> TypeOK /\ TypeOK'
  BY DEF TypeInv
<1>1. RecordRejectedStep(p)
  BY RecordRejectedDoes
<1>2. Still
  BY <1>1 DEF RecordRejectedStep, Still
<1>3. Holds(p) /\ Placed(p)
  BY DEF TypeInv, ShapeInv
<1>4. Given' = Given
  BY <1>2 DEF Still, Given
<1>5. Holds(p)'
  <2>1. CASE op'[p].pc = "observe"
    BY <1>1, <2>1, <1>3, <1>4, ShapeFacts, KindOf DEF RecordRejectedStep, Idle, Placed, Holds,
      Transaction, Attributing, Looked, Consuming, Renewing, Answered, Settled
  <2>2. CASE op'[p] = Idle
    BY <2>2, <1>1, IdleHolds
  <2> QED BY <1>1, <2>1, <2>2 DEF RecordRejectedStep
<1> QED BY <1>1, <1>2, <1>5, QuietShape DEF RecordRejectedStep

LEMMA GotSuccessorShape ==
  ASSUME TypeInv, TypeInv', ShapeInv, NEW p \in Ops, GotSuccessor(p)
  PROVE  ShapeInv'
<1> TypeOK /\ TypeOK'
  BY DEF TypeInv
<1>1. GotSuccessorStep(p)
  BY GotSuccessorDoes
<1>2. Still
  BY <1>1 DEF GotSuccessorStep, Still
<1>3. Holds(p) /\ Placed(p)
  BY DEF TypeInv, ShapeInv
<1>4. Given' = Given
  BY <1>2 DEF Still, Given
<1>5. Holds(p)'
  <2>1. CASE op'[p].pc = "begin"
    BY <1>1, <2>1, <1>3, <1>4, ShapeFacts, KindOf DEF GotSuccessorStep, Idle, Placed, Holds,
      Transaction, Attributing, Looked, Consuming, Renewing, Answered, Settled
  <2>2. CASE op'[p].pc = "stash"
    BY <1>1, <2>2, <1>3, <1>4, ShapeFacts, KindOf DEF GotSuccessorStep, Idle, Placed, Holds,
      Transaction, Attributing, Looked, Consuming, Renewing, Answered, Settled
  <2> QED BY <1>1, <2>1, <2>2 DEF GotSuccessorStep
<1> QED BY <1>1, <1>2, <1>5, QuietShape DEF GotSuccessorStep

LEMMA PersistBeginShape ==
  ASSUME TypeInv, TypeInv', ShapeInv, NEW p \in Ops, PersistBegin(p)
  PROVE  ShapeInv'
<1> TypeOK /\ TypeOK'
  BY DEF TypeInv
<1>1. PersistBeginStep(p)
  BY PersistBeginDoes
<1>2. Still
  BY <1>1 DEF PersistBeginStep, Still
<1>3. Holds(p) /\ Placed(p)
  BY DEF TypeInv, ShapeInv
<1>4. Given' = Given
  BY <1>2 DEF Still, Given
<1>5. Holds(p)'
  <2>1. CASE op'[p].pc = "write"
    BY <1>1, <2>1, <1>3, <1>4, ShapeFacts, KindOf DEF PersistBeginStep, Idle, Placed, Holds,
      Transaction, Attributing, Looked, Consuming, Renewing, Answered, Settled
  <2>2. CASE op'[p] = Idle
    BY <2>2, <1>1, IdleHolds
  <2>3. CASE op'[p].pc = "stash"
    BY <1>1, <2>3, <1>3, <1>4, ShapeFacts, KindOf DEF PersistBeginStep, Idle, Placed, Holds,
      Transaction, Attributing, Looked, Consuming, Renewing, Answered, Settled
  <2>4. CASE op'[p].pc = "emergency"
    BY <1>1, <2>4, <1>3, <1>4, ShapeFacts, KindOf DEF PersistBeginStep, Idle, Placed, Holds,
      Transaction, Attributing, Looked, Consuming, Renewing, Answered, Settled
  <2> QED BY <1>1, <2>1, <2>2, <2>3, <2>4 DEF PersistBeginStep
<1> QED BY <1>1, <1>2, <1>5, QuietShape DEF PersistBeginStep

LEMMA PersistWriteShape ==
  ASSUME TypeInv, TypeInv', ShapeInv, NEW p \in Ops, PersistWrite(p)
  PROVE  ShapeInv'
<1> TypeOK /\ TypeOK'
  BY DEF TypeInv
<1>1. PersistWriteStep(p)
  BY PersistWriteDoes
<1>2. Onward /\ Given' = Given
  <2>1. issued \in Nat
    BY Numbers DEF TypeOK
  <2> QED BY <1>1, <2>1 DEF PersistWriteStep, Onward, Given
<1>3. Holds(p) /\ Placed(p)
  BY DEF TypeInv, ShapeInv
<1>4. Holds(p)'
  <2>1. CASE op'[p].pc = "commit"
    BY <1>1, <2>1, <1>2, <1>3, ShapeFacts, KindOf DEF PersistWriteStep, Idle, Placed, Holds,
      Transaction, Attributing, Looked, Consuming, Renewing, Answered, Settled
  <2>2. CASE op'[p].pc = "undo"
    BY <1>1, <2>2, <1>2, <1>3, ShapeFacts, KindOf DEF PersistWriteStep, Idle, Placed, Holds,
      Transaction, Attributing, Looked, Consuming, Renewing, Answered, Settled
  <2>3. CASE op'[p].pc = "save"
    BY <1>1, <2>3, <1>2, <1>3, ShapeFacts, KindOf DEF PersistWriteStep, Idle, Placed, Holds,
      Transaction, Attributing, Looked, Consuming, Renewing, Answered, Settled
  <2> QED BY <1>1, <2>1, <2>2, <2>3 DEF PersistWriteStep
<1>5. Ordered'
  <2>1. heads' \subseteq Given' \ {0} /\ {row'.fp, kc', prev', live', codex'} \subseteq Given'
    BY <1>1, <1>2, <1>3, ShapeFacts DEF PersistWriteStep, Holds, Placed, ShapeInv, Ordered, Transaction, Attributing, Looked, Consuming, Renewing, Answered, Settled
  <2>2. \A x \in stash' : <<x.from, x.to>> \in grew' /\ x.to \in arrived' /\ x.from \in heads'
    BY <1>1, <1>3 DEF PersistWriteStep, Holds, ShapeInv, Ordered, Renewing, Answered
  <2>3. \A e \in edges' : e[1] \in heads'
    BY <1>1, <1>3, TokFacts DEF PersistWriteStep, Holds, ShapeInv, Ordered, Renewing, Answered
  <2>4. (row'.fp # 0 => row'.fp \in heads') /\ (row'.fp = 0 => heads' = {})
    BY <1>1, <1>3, ShapeFacts DEF PersistWriteStep, Holds, Placed, ShapeInv, Ordered, Transaction, Attributing, Looked, Consuming, Renewing, Answered, Settled
  <2>5. prev' \in heads' \cup arrived' \cup {0}
    BY <1>1, <1>3, ShapeFacts DEF PersistWriteStep, Holds, Placed, Transaction, Attributing, Looked, Consuming, Renewing, Answered, Settled
  <2>6. live' \in heads' \cup {0} \/ (live' \notin arrived' /\ \A e \in grew' : e[1] # live')
    BY <1>1, <1>3 DEF PersistWriteStep, Holds, ShapeInv, Ordered, Transaction, Attributing, Looked, Consuming, Renewing, Answered, Settled
  <2>7. \A e \in grew' : e[2] \in arrived' => e[1] \in heads'
    BY <1>1, <1>2, <1>3 DEF PersistWriteStep, Onward, ShapeInv, Ordered
  <2> QED BY <1>1, <1>2, <2>1, <2>2, <2>3, <2>4, <2>5, <2>6, <2>7 DEF PersistWriteStep, ShapeInv, Ordered
<1>6. Lineage'
  BY <1>1, LineageStays DEF PersistWriteStep, ShapeInv
<1>7. Undisturbed(p)
  BY <1>1, <1>3, OpsAssumption DEF PersistWriteStep, Undisturbed, Placed, Transaction
<1> QED BY <1>2, <1>4, <1>5, <1>6, <1>7, OthersShape

LEMMA PersistCommitShape ==
  ASSUME TypeInv, TypeInv', ShapeInv, NEW p \in Ops, PersistCommit(p)
  PROVE  ShapeInv'
<1> TypeOK /\ TypeOK'
  BY DEF TypeInv
<1>1. PersistCommitStep(p)
  BY PersistCommitDoes
<1>2. Onward /\ Given' = Given
  <2>1. issued \in Nat
    BY Numbers DEF TypeOK
  <2> QED BY <1>1, <2>1 DEF PersistCommitStep, Onward, Given
<1>3. Holds(p) /\ Placed(p)
  BY DEF TypeInv, ShapeInv
<1>4. Holds(p)'
  <2>1. CASE op'[p].pc = "unstash"
    BY <1>1, <2>1, <1>2, <1>3, ShapeFacts, KindOf DEF PersistCommitStep, Idle, Placed, Holds,
      Transaction, Attributing, Looked, Consuming, Renewing, Answered, Settled
  <2>2. CASE op'[p].pc = "cas"
    BY <1>1, <2>2, <1>2, <1>3, ShapeFacts, KindOf DEF PersistCommitStep, Idle, Placed, Holds,
      Transaction, Attributing, Looked, Consuming, Renewing, Answered, Settled
  <2>3. CASE op'[p].pc = "undo"
    BY <1>1, <2>3, <1>2, <1>3, ShapeFacts, KindOf DEF PersistCommitStep, Idle, Placed, Holds,
      Transaction, Attributing, Looked, Consuming, Renewing, Answered, Settled
  <2>4. CASE op'[p].pc = "save"
    BY <1>1, <2>4, <1>2, <1>3, ShapeFacts, KindOf DEF PersistCommitStep, Idle, Placed, Holds,
      Transaction, Attributing, Looked, Consuming, Renewing, Answered, Settled
  <2> QED BY <1>1, <2>1, <2>2, <2>3, <2>4 DEF PersistCommitStep
<1>5. Ordered'
  <2>1. heads' \subseteq Given' \ {0} /\ {row'.fp, kc', prev', live', codex'} \subseteq Given'
    <3>1. op[p].suc \in Given \ {0}
      BY <1>1, <1>3 DEF PersistCommitStep, Holds, Placed, Answered
    <3>2. heads \subseteq Given \ {0} /\ {row.fp, kc, prev, live, codex} \subseteq Given
      BY DEF ShapeInv, Ordered
    <3>3. heads' \subseteq heads \cup {op[p].suc} /\ row'.fp \in {row.fp, op[p].suc}
      BY <1>1 DEF PersistCommitStep
    <3> QED BY <1>1, <1>2, <3>1, <3>2, <3>3 DEF PersistCommitStep
  <2>2. \A x \in stash' : <<x.from, x.to>> \in grew' /\ x.to \in arrived' /\ x.from \in heads'
    BY <1>1, <1>3 DEF PersistCommitStep, Holds, ShapeInv, Ordered, Renewing, Answered
  <2>3. \A e \in edges' : e[1] \in heads'
    BY <1>1, <1>3, TokFacts DEF PersistCommitStep, Holds, ShapeInv, Ordered, Renewing, Answered
  <2>4. (row'.fp # 0 => row'.fp \in heads') /\ (row'.fp = 0 => heads' = {})
    BY <1>1, <1>3, ShapeFacts DEF PersistCommitStep, Holds, Placed, ShapeInv, Ordered, Transaction, Attributing, Looked, Consuming, Renewing, Answered, Settled
  <2>5. prev' \in heads' \cup arrived' \cup {0}
    BY <1>1, <1>3, ShapeFacts DEF PersistCommitStep, Holds, Placed, Transaction, Attributing, Looked, Consuming, Renewing, Answered, Settled
  <2>6. live' \in heads' \cup {0} \/ (live' \notin arrived' /\ \A e \in grew' : e[1] # live')
    BY <1>1, <1>3 DEF PersistCommitStep, Holds, ShapeInv, Ordered, Transaction, Attributing, Looked, Consuming, Renewing, Answered, Settled
  <2>7. \A e \in grew' : e[2] \in arrived' => e[1] \in heads'
    BY <1>1, <1>2, <1>3 DEF PersistCommitStep, Onward, ShapeInv, Ordered
  <2> QED BY <1>1, <1>2, <2>1, <2>2, <2>3, <2>4, <2>5, <2>6, <2>7 DEF PersistCommitStep, ShapeInv, Ordered
<1>6. Lineage'
  <2>1. CASE heads' = heads \cup {op[p].suc}
    <3>1. row.fp = op[p].cur
      BY <1>1, <1>3 DEF PersistCommitStep, Holds
    <3> QED BY <1>1, <2>1, <3>1, LineageMoves, LineageStays DEF PersistCommitStep, ShapeInv
  <2>2. CASE heads' = heads /\ row' = row /\ edges' = edges
    BY <2>2, LineageStays DEF ShapeInv
  <2> QED BY <1>1, <2>1, <2>2 DEF PersistCommitStep
<1>7. Undisturbed(p)
  BY <1>1, <1>3, OpsAssumption DEF PersistCommitStep, Undisturbed, Placed, Transaction
<1> QED BY <1>2, <1>4, <1>5, <1>6, <1>7, OthersShape

LEMMA PersistLockLostShape ==
  ASSUME TypeInv, TypeInv', ShapeInv, NEW p \in Ops, PersistLockLost(p)
  PROVE  ShapeInv'
<1> TypeOK /\ TypeOK'
  BY DEF TypeInv
<1>1. PersistLockLostStep(p)
  BY PersistLockLostDoes
<1>2. Still
  BY <1>1 DEF PersistLockLostStep, Still
<1>3. Holds(p) /\ Placed(p)
  BY DEF TypeInv, ShapeInv
<1>4. Given' = Given
  BY <1>2 DEF Still, Given
<1>5. Holds(p)'
  <2>1. CASE op'[p] = Idle
    BY <2>1, <1>1, IdleHolds
  <2>2. CASE op'[p].pc = "emergency"
    BY <1>1, <2>2, <1>3, <1>4, ShapeFacts, KindOf DEF PersistLockLostStep, Idle, Placed, Holds,
      Transaction, Attributing, Looked, Consuming, Renewing, Answered, Settled
  <2> QED BY <1>1, <2>1, <2>2 DEF PersistLockLostStep
<1> QED BY <1>1, <1>2, <1>5, QuietShape DEF PersistLockLostStep

LEMMA PersistSaveShape ==
  ASSUME TypeInv, TypeInv', ShapeInv, NEW p \in Ops, PersistSave(p)
  PROVE  ShapeInv'
<1> TypeOK /\ TypeOK'
  BY DEF TypeInv
<1>1. PersistSaveStep(p)
  BY PersistSaveDoes
<1>2. Onward /\ Given' = Given
  <2>1. issued \in Nat
    BY Numbers DEF TypeOK
  <2> QED BY <1>1, <2>1 DEF PersistSaveStep, Onward, Given
<1>3. Holds(p) /\ Placed(p)
  BY DEF TypeInv, ShapeInv
<1>4. Holds(p)'
  <2>1. CASE op'[p].pc = "undo"
    BY <1>1, <2>1, <1>2, <1>3, ShapeFacts, KindOf DEF PersistSaveStep, Idle, Placed, Holds,
      Transaction, Attributing, Looked, Consuming, Renewing, Answered, Settled
  <2>2. CASE op'[p] = Idle
    BY <2>2, <1>1, IdleHolds
  <2> QED BY <1>1, <2>1, <2>2 DEF PersistSaveStep
<1>5. Ordered'
  <2>1. heads' \subseteq Given' \ {0} /\ {row'.fp, kc', prev', live', codex'} \subseteq Given'
    BY <1>1, <1>2, <1>3, ShapeFacts DEF PersistSaveStep, Holds, Placed, ShapeInv, Ordered, Transaction, Attributing, Looked, Consuming, Renewing, Answered, Settled
  <2>2. \A x \in stash' : <<x.from, x.to>> \in grew' /\ x.to \in arrived' /\ x.from \in heads'
    <3>1. <<op[p].cur, op[p].suc>> \in grew /\ op[p].suc \in arrived /\ op[p].cur \in heads
      BY <1>1, <1>3 DEF PersistSaveStep, Holds, Renewing, Answered
    <3>2. \A x \in stash : <<x.from, x.to>> \in grew /\ x.to \in arrived /\ x.from \in heads
      BY DEF ShapeInv, Ordered
    <3>3. \A x \in stash' : x \in stash \/ (x.from = op[p].cur /\ x.to = op[p].suc)
      BY <1>1 DEF PersistSaveStep
    <3>4. grew' = grew /\ arrived' = arrived /\ heads' = heads
      BY <1>1 DEF PersistSaveStep
    <3> QED BY <3>1, <3>2, <3>3, <3>4
  <2>3. \A e \in edges' : e[1] \in heads'
    BY <1>1, <1>3, TokFacts DEF PersistSaveStep, Holds, ShapeInv, Ordered, Renewing, Answered
  <2>4. (row'.fp # 0 => row'.fp \in heads') /\ (row'.fp = 0 => heads' = {})
    BY <1>1, <1>3, ShapeFacts DEF PersistSaveStep, Holds, Placed, ShapeInv, Ordered, Transaction, Attributing, Looked, Consuming, Renewing, Answered, Settled
  <2>5. prev' \in heads' \cup arrived' \cup {0}
    BY <1>1, <1>3, ShapeFacts DEF PersistSaveStep, Holds, Placed, Transaction, Attributing, Looked, Consuming, Renewing, Answered, Settled
  <2>6. live' \in heads' \cup {0} \/ (live' \notin arrived' /\ \A e \in grew' : e[1] # live')
    BY <1>1, <1>3 DEF PersistSaveStep, Holds, ShapeInv, Ordered, Transaction, Attributing, Looked, Consuming, Renewing, Answered, Settled
  <2>7. \A e \in grew' : e[2] \in arrived' => e[1] \in heads'
    BY <1>1, <1>2, <1>3 DEF PersistSaveStep, Onward, ShapeInv, Ordered
  <2> QED BY <1>1, <1>2, <2>1, <2>2, <2>3, <2>4, <2>5, <2>6, <2>7 DEF PersistSaveStep, ShapeInv, Ordered
<1>6. Lineage'
  BY <1>1, LineageStays DEF PersistSaveStep, ShapeInv
<1>7. Undisturbed(p)
  BY <1>1, <1>3, OpsAssumption DEF PersistSaveStep, Undisturbed, Placed, Transaction
<1> QED BY <1>2, <1>4, <1>5, <1>6, <1>7, OthersShape

LEMMA PersistUndoShape ==
  ASSUME TypeInv, TypeInv', ShapeInv, NEW p \in Ops, PersistUndo(p)
  PROVE  ShapeInv'
<1> TypeOK /\ TypeOK'
  BY DEF TypeInv
<1>1. PersistUndoStep(p)
  BY PersistUndoDoes
<1>2. Onward /\ Given' = Given
  <2>1. issued \in Nat
    BY Numbers DEF TypeOK
  <2> QED BY <1>1, <2>1 DEF PersistUndoStep, Onward, Given
<1>3. Holds(p) /\ Placed(p)
  BY DEF TypeInv, ShapeInv
<1>4. Holds(p)'
  BY <1>1, <1>1, IdleHolds DEF PersistUndoStep
<1>5. Ordered'
  <2>1. heads' \subseteq Given' \ {0} /\ {row'.fp, kc', prev', live', codex'} \subseteq Given'
    BY <1>1, <1>2, <1>3, ShapeFacts DEF PersistUndoStep, Holds, Placed, ShapeInv, Ordered, Transaction, Attributing, Looked, Consuming, Renewing, Answered, Settled
  <2>2. \A x \in stash' : <<x.from, x.to>> \in grew' /\ x.to \in arrived' /\ x.from \in heads'
    BY <1>1, <1>3 DEF PersistUndoStep, Holds, ShapeInv, Ordered, Renewing, Answered
  <2>3. \A e \in edges' : e[1] \in heads'
    BY <1>1, <1>3, TokFacts DEF PersistUndoStep, Holds, ShapeInv, Ordered, Renewing, Answered
  <2>4. (row'.fp # 0 => row'.fp \in heads') /\ (row'.fp = 0 => heads' = {})
    BY <1>1, <1>3, ShapeFacts DEF PersistUndoStep, Holds, Placed, ShapeInv, Ordered, Transaction, Attributing, Looked, Consuming, Renewing, Answered, Settled
  <2>5. prev' \in heads' \cup arrived' \cup {0}
    BY <1>1, <1>3, ShapeFacts DEF PersistUndoStep, Holds, Placed, Transaction, Attributing, Looked, Consuming, Renewing, Answered, Settled
  <2>6. live' \in heads' \cup {0} \/ (live' \notin arrived' /\ \A e \in grew' : e[1] # live')
    BY <1>1, <1>3 DEF PersistUndoStep, Holds, ShapeInv, Ordered, Transaction, Attributing, Looked, Consuming, Renewing, Answered, Settled
  <2>7. \A e \in grew' : e[2] \in arrived' => e[1] \in heads'
    BY <1>1, <1>2, <1>3 DEF PersistUndoStep, Onward, ShapeInv, Ordered
  <2> QED BY <1>1, <1>2, <2>1, <2>2, <2>3, <2>4, <2>5, <2>6, <2>7 DEF PersistUndoStep, ShapeInv, Ordered
<1>6. Lineage'
  BY <1>1, LineageStays DEF PersistUndoStep, ShapeInv
<1>7. Undisturbed(p)
  BY <1>1, <1>3, OpsAssumption DEF PersistUndoStep, Undisturbed, Placed, Transaction
<1> QED BY <1>2, <1>4, <1>5, <1>6, <1>7, OthersShape

LEMMA StashSuccessorShape ==
  ASSUME TypeInv, TypeInv', ShapeInv, NEW p \in Ops, StashSuccessor(p)
  PROVE  ShapeInv'
<1> TypeOK /\ TypeOK'
  BY DEF TypeInv
<1>1. StashSuccessorStep(p)
  BY StashSuccessorDoes
<1>2. Onward /\ Given' = Given
  <2>1. issued \in Nat
    BY Numbers DEF TypeOK
  <2> QED BY <1>1, <2>1 DEF StashSuccessorStep, Onward, Given
<1>3. Holds(p) /\ Placed(p)
  BY DEF TypeInv, ShapeInv
<1>4. Holds(p)'
  BY <1>1, <1>1, IdleHolds DEF StashSuccessorStep
<1>5. Ordered'
  <2>1. heads' \subseteq Given' \ {0} /\ {row'.fp, kc', prev', live', codex'} \subseteq Given'
    BY <1>1, <1>2, <1>3, ShapeFacts DEF StashSuccessorStep, Holds, Placed, ShapeInv, Ordered, Transaction, Attributing, Looked, Consuming, Renewing, Answered, Settled
  <2>2. \A x \in stash' : <<x.from, x.to>> \in grew' /\ x.to \in arrived' /\ x.from \in heads'
    <3>1. <<op[p].cur, op[p].suc>> \in grew /\ op[p].suc \in arrived /\ op[p].cur \in heads
      BY <1>1, <1>3 DEF StashSuccessorStep, Holds, Renewing, Answered
    <3>2. \A x \in stash : <<x.from, x.to>> \in grew /\ x.to \in arrived /\ x.from \in heads
      BY DEF ShapeInv, Ordered
    <3>3. \A x \in stash' : x \in stash \/ (x.from = op[p].cur /\ x.to = op[p].suc)
      BY <1>1 DEF StashSuccessorStep
    <3>4. grew' = grew /\ arrived' = arrived /\ heads' = heads
      BY <1>1 DEF StashSuccessorStep
    <3> QED BY <3>1, <3>2, <3>3, <3>4
  <2>3. \A e \in edges' : e[1] \in heads'
    BY <1>1, <1>3, TokFacts DEF StashSuccessorStep, Holds, ShapeInv, Ordered, Renewing, Answered
  <2>4. (row'.fp # 0 => row'.fp \in heads') /\ (row'.fp = 0 => heads' = {})
    BY <1>1, <1>3, ShapeFacts DEF StashSuccessorStep, Holds, Placed, ShapeInv, Ordered, Transaction, Attributing, Looked, Consuming, Renewing, Answered, Settled
  <2>5. prev' \in heads' \cup arrived' \cup {0}
    BY <1>1, <1>3, ShapeFacts DEF StashSuccessorStep, Holds, Placed, Transaction, Attributing, Looked, Consuming, Renewing, Answered, Settled
  <2>6. live' \in heads' \cup {0} \/ (live' \notin arrived' /\ \A e \in grew' : e[1] # live')
    BY <1>1, <1>3 DEF StashSuccessorStep, Holds, ShapeInv, Ordered, Transaction, Attributing, Looked, Consuming, Renewing, Answered, Settled
  <2>7. \A e \in grew' : e[2] \in arrived' => e[1] \in heads'
    BY <1>1, <1>2, <1>3 DEF StashSuccessorStep, Onward, ShapeInv, Ordered
  <2> QED BY <1>1, <1>2, <2>1, <2>2, <2>3, <2>4, <2>5, <2>6, <2>7 DEF StashSuccessorStep, ShapeInv, Ordered
<1>6. Lineage'
  BY <1>1, LineageStays DEF StashSuccessorStep, ShapeInv
<1>7. Undisturbed(p)
  BY <1>1, <1>3, OpsAssumption DEF StashSuccessorStep, Undisturbed, Placed, Transaction
<1> QED BY <1>2, <1>4, <1>5, <1>6, <1>7, OthersShape

LEMMA UnstashShape ==
  ASSUME TypeInv, TypeInv', ShapeInv, NEW p \in Ops, Unstash(p)
  PROVE  ShapeInv'
<1> TypeOK /\ TypeOK'
  BY DEF TypeInv
<1>1. UnstashStep(p)
  BY UnstashDoes
<1>2. Onward /\ Given' = Given
  <2>1. issued \in Nat
    BY Numbers DEF TypeOK
  <2> QED BY <1>1, <2>1 DEF UnstashStep, Onward, Given
<1>3. Holds(p) /\ Placed(p)
  BY DEF TypeInv, ShapeInv
<1>4. Holds(p)'
  BY <1>1, <1>2, <1>3, ShapeFacts, KindOf DEF UnstashStep, Idle, Placed, Holds,
      Transaction, Attributing, Looked, Consuming, Renewing, Answered, Settled
<1>5. Ordered'
  <2>1. heads' \subseteq Given' \ {0} /\ {row'.fp, kc', prev', live', codex'} \subseteq Given'
    BY <1>1, <1>2, <1>3, ShapeFacts DEF UnstashStep, Holds, Placed, ShapeInv, Ordered, Transaction, Attributing, Looked, Consuming, Renewing, Answered, Settled
  <2>2. \A x \in stash' : <<x.from, x.to>> \in grew' /\ x.to \in arrived' /\ x.from \in heads'
    BY <1>1, <1>3 DEF UnstashStep, Holds, ShapeInv, Ordered, Renewing, Answered
  <2>3. \A e \in edges' : e[1] \in heads'
    BY <1>1, <1>3, TokFacts DEF UnstashStep, Holds, ShapeInv, Ordered, Renewing, Answered
  <2>4. (row'.fp # 0 => row'.fp \in heads') /\ (row'.fp = 0 => heads' = {})
    BY <1>1, <1>3, ShapeFacts DEF UnstashStep, Holds, Placed, ShapeInv, Ordered, Transaction, Attributing, Looked, Consuming, Renewing, Answered, Settled
  <2>5. prev' \in heads' \cup arrived' \cup {0}
    BY <1>1, <1>3, ShapeFacts DEF UnstashStep, Holds, Placed, Transaction, Attributing, Looked, Consuming, Renewing, Answered, Settled
  <2>6. live' \in heads' \cup {0} \/ (live' \notin arrived' /\ \A e \in grew' : e[1] # live')
    BY <1>1, <1>3 DEF UnstashStep, Holds, ShapeInv, Ordered, Transaction, Attributing, Looked, Consuming, Renewing, Answered, Settled
  <2>7. \A e \in grew' : e[2] \in arrived' => e[1] \in heads'
    BY <1>1, <1>2, <1>3 DEF UnstashStep, Onward, ShapeInv, Ordered
  <2> QED BY <1>1, <1>2, <2>1, <2>2, <2>3, <2>4, <2>5, <2>6, <2>7 DEF UnstashStep, ShapeInv, Ordered
<1>6. Lineage'
  BY <1>1, LineageStays DEF UnstashStep, ShapeInv
<1>7. Undisturbed(p)
  BY <1>1, <1>3, OpsAssumption DEF UnstashStep, Undisturbed, Placed, Transaction
<1> QED BY <1>2, <1>4, <1>5, <1>6, <1>7, OthersShape

LEMMA PublishCasShape ==
  ASSUME TypeInv, TypeInv', ShapeInv, NEW p \in Ops, PublishCas(p)
  PROVE  ShapeInv'
<1> TypeOK /\ TypeOK'
  BY DEF TypeInv
<1>1. PublishCasStep(p)
  BY PublishCasDoes
<1>2. Still
  BY <1>1 DEF PublishCasStep, Still
<1>3. Holds(p) /\ Placed(p)
  BY DEF TypeInv, ShapeInv
<1>4. Given' = Given
  BY <1>2 DEF Still, Given
<1>5. Holds(p)'
  <2>1. CASE op'[p] = Idle
    BY <2>1, <1>1, IdleHolds
  <2>2. CASE op'[p].pc = "rename"
    BY <1>1, <2>2, <1>3, <1>4, ShapeFacts, KindOf DEF PublishCasStep, Idle, Placed, Holds,
      Transaction, Attributing, Looked, Consuming, Renewing, Answered, Settled
  <2>3. CASE op'[p].pc = "first"
    BY <1>1, <2>3, <1>3, <1>4, ShapeFacts, KindOf DEF PublishCasStep, Idle, Placed, Holds,
      Transaction, Attributing, Looked, Consuming, Renewing, Answered, Settled
  <2> QED BY <1>1, <2>1, <2>2, <2>3 DEF PublishCasStep
<1> QED BY <1>1, <1>2, <1>5, QuietShape DEF PublishCasStep

LEMMA PublishRenameShape ==
  ASSUME TypeInv, TypeInv', ShapeInv, NEW p \in Ops, PublishRename(p)
  PROVE  ShapeInv'
<1> TypeOK /\ TypeOK'
  BY DEF TypeInv
<1>1. PublishRenameStep(p)
  BY PublishRenameDoes
<1>2. Onward /\ Given' = Given
  <2>1. issued \in Nat
    BY Numbers DEF TypeOK
  <2> QED BY <1>1, <2>1 DEF PublishRenameStep, Onward, Given
<1>3. Holds(p) /\ Placed(p)
  BY DEF TypeInv, ShapeInv
<1>4. Holds(p)'
  <2>1. CASE op'[p].pc = "verify"
    BY <1>1, <2>1, <1>2, <1>3, ShapeFacts, KindOf DEF PublishRenameStep, Idle, Placed, Holds,
      Transaction, Attributing, Looked, Consuming, Renewing, Answered, Settled
  <2>2. CASE op'[p] = Idle
    BY <2>2, <1>1, IdleHolds
  <2> QED BY <1>1, <2>1, <2>2 DEF PublishRenameStep
<1>5. Ordered'
  <2>1. heads' \subseteq Given' \ {0} /\ {row'.fp, kc', prev', live', codex'} \subseteq Given'
    BY <1>1, <1>2, <1>3, ShapeFacts DEF PublishRenameStep, Holds, Placed, ShapeInv, Ordered, Transaction, Attributing, Looked, Consuming, Renewing, Answered, Settled
  <2>2. \A x \in stash' : <<x.from, x.to>> \in grew' /\ x.to \in arrived' /\ x.from \in heads'
    BY <1>1, <1>3 DEF PublishRenameStep, Holds, ShapeInv, Ordered, Renewing, Answered
  <2>3. \A e \in edges' : e[1] \in heads'
    BY <1>1, <1>3, TokFacts DEF PublishRenameStep, Holds, ShapeInv, Ordered, Renewing, Answered
  <2>4. (row'.fp # 0 => row'.fp \in heads') /\ (row'.fp = 0 => heads' = {})
    BY <1>1, <1>3, ShapeFacts DEF PublishRenameStep, Holds, Placed, ShapeInv, Ordered, Transaction, Attributing, Looked, Consuming, Renewing, Answered, Settled
  <2>5. prev' \in heads' \cup arrived' \cup {0}
    BY <1>1, <1>3, ShapeFacts DEF PublishRenameStep, Holds, Placed, Transaction, Attributing, Looked, Consuming, Renewing, Answered, Settled
  <2>6. live' \in heads' \cup {0} \/ (live' \notin arrived' /\ \A e \in grew' : e[1] # live')
    BY <1>1, <1>3 DEF PublishRenameStep, Holds, ShapeInv, Ordered, Transaction, Attributing, Looked, Consuming, Renewing, Answered, Settled
  <2>7. \A e \in grew' : e[2] \in arrived' => e[1] \in heads'
    BY <1>1, <1>2, <1>3 DEF PublishRenameStep, Onward, ShapeInv, Ordered
  <2> QED BY <1>1, <1>2, <2>1, <2>2, <2>3, <2>4, <2>5, <2>6, <2>7 DEF PublishRenameStep, ShapeInv, Ordered
<1>6. Lineage'
  BY <1>1, LineageStays DEF PublishRenameStep, ShapeInv
<1>7. Undisturbed(p)
  BY <1>1, <1>3, OpsAssumption DEF PublishRenameStep, Undisturbed, Placed, Transaction
<1> QED BY <1>2, <1>4, <1>5, <1>6, <1>7, OthersShape

LEMMA PublishVerifyShape ==
  ASSUME TypeInv, TypeInv', ShapeInv, NEW p \in Ops, PublishVerify(p)
  PROVE  ShapeInv'
<1> TypeOK /\ TypeOK'
  BY DEF TypeInv
<1>1. PublishVerifyStep(p)
  BY PublishVerifyDoes
<1>2. Still
  BY <1>1 DEF PublishVerifyStep, Still
<1>3. Holds(p) /\ Placed(p)
  BY DEF TypeInv, ShapeInv
<1>4. Given' = Given
  BY <1>2 DEF Still, Given
<1>5. Holds(p)'
  <2>1. CASE op'[p] = Idle
    BY <2>1, <1>1, IdleHolds
  <2>2. CASE op'[p].pc = "first"
    BY <1>1, <2>2, <1>3, <1>4, ShapeFacts, KindOf DEF PublishVerifyStep, Idle, Placed, Holds,
      Transaction, Attributing, Looked, Consuming, Renewing, Answered, Settled
  <2> QED BY <1>1, <2>1, <2>2 DEF PublishVerifyStep
<1> QED BY <1>1, <1>2, <1>5, QuietShape DEF PublishVerifyStep

LEMMA CrashShape ==
  ASSUME TypeInv, TypeInv', ShapeInv, NEW p \in Ops, Crash(p)
  PROVE  ShapeInv'
<1> TypeOK /\ TypeOK'
  BY DEF TypeInv
<1>1. CrashStep(p)
  BY CrashDoes
<1>2. Still
  BY <1>1 DEF CrashStep, Still
<1>3. Holds(p) /\ Placed(p)
  BY DEF TypeInv, ShapeInv
<1>4. Given' = Given
  BY <1>2 DEF Still, Given
<1>5. Holds(p)'
  BY <1>1, <1>1, IdleHolds DEF CrashStep
<1> QED BY <1>1, <1>2, <1>5, QuietShape DEF CrashStep

LEMMA ShapeStep == TypeInv /\ TypeInv' /\ ShapeInv /\ [Next]_vars => ShapeInv'
<1> SUFFICES ASSUME TypeInv, TypeInv', ShapeInv, [Next]_vars PROVE ShapeInv'
  OBVIOUS
<1>1. CASE UNCHANGED vars
  BY <1>1 DEF vars, slotVars, liveVars, locks, provider, history, ShapeInv, Ordered, Lineage, Holds, Given
<1>2. CASE CodexStart \/ CodexExit \/ CodexRotate \/ CodexLogin \/ CodexLeave
  BY <1>2, EnvShape
<1>3. ASSUME NEW p \in Ops, Start(p) \/ Crash(p) \/ LoseSwitchLock(p) \/ LoseAuthLock(p) PROVE ShapeInv'
  BY <1>3, StartShape, CrashShape, LoseShape
<1>4. ASSUME NEW p \in Ops, Attribute(p) PROVE ShapeInv'
  BY <1>4, ObserveLiveShape, ReadFirstShape, ReadSecondShape, ImportNewShape,
     ImportCommitShape, RepairSplitShape, NoopShape, RepublishShape, PublishSlotShape,
     MarkShape, AdoptShape, AdoptCommitShape, AdoptUndoShape, DueShape DEF Attribute
<1>5. ASSUME NEW p \in Ops, Consume(p) PROVE ShapeInv'
  BY <1>5, ReadSlotShape, RepairDriftShape, FindStashedShape, PostShape, PostRejectedShape,
     PostFailedShape, RejectedShape, RecordRejectedShape, GotSuccessorShape,
     PersistBeginShape, PersistWriteShape, PersistCommitShape, PersistLockLostShape,
     PersistSaveShape, PersistUndoShape, StashSuccessorShape, UnstashShape DEF Consume
<1>6. ASSUME NEW p \in Ops, Publish(p) PROVE ShapeInv'
  BY <1>6, PublishCasShape, PublishRenameShape, PublishVerifyShape DEF Publish
<1> QED BY <1>1, <1>2, <1>3, <1>4, <1>5, <1>6 DEF Next

-----------------------------------------------------------------------------
(* The third layer: nothing is lost *)

\* What p has in hand, it still has, or it is kept or reported.
PassedOn(p) ==
    InHand(p) => \/ op[p].suc \in heads' \cup gone'
                 \/ \E x \in stash' : x.to = op[p].suc
                 \/ InHand(p)' /\ op'[p].suc = op[p].suc
LEMMA HeadStays ==
  ASSUME TypeInv, ShapeInv, HeadInv, row'.fp = row.fp, kc' = kc, prev' = prev, skew => skew', gone \subseteq gone',
         \A t \in Given : t \in valid' => t \in valid
  PROVE  HeadInv'
<1>1. row.fp \in Given
  BY ShapeFacts
<1> QED BY <1>1 DEF HeadInv
LEMMA KeptStays ==
  ASSUME KeptInv, NEW p \in Ops, torn => torn', arrived' = arrived, heads \subseteq heads', gone \subseteq gone',
         \A x \in stash : x \in stash' \/ x.to \in heads', \A q \in Ops \ {p} : op'[q] = op[q], PassedOn(p)
  PROVE  KeptInv'
<1> SUFFICES ASSUME ~torn', NEW s \in arrived
             PROVE  \/ s \in heads' \cup gone'
                    \/ \E x \in stash' : x.to = s
                    \/ \E q \in Ops : InHand(q)' /\ op'[q].suc = s
  BY DEF KeptInv
<1>1. CASE s \in heads \cup gone
  BY <1>1
<1>2. CASE \E x \in stash : x.to = s
  BY <1>2
<1>3. ASSUME NEW q \in Ops, InHand(q), op[q].suc = s, q # p
      PROVE  InHand(q)' /\ op'[q].suc = s
  BY <1>3 DEF InHand
<1>4. CASE \E q \in Ops : InHand(q) /\ op[q].suc = s
  BY <1>3, <1>4 DEF PassedOn
<1> QED BY <1>1, <1>2, <1>4 DEF KeptInv
\* A step that leaves the slot and the history alone and keeps the stash.
LEMMA QuietKeep ==
  ASSUME TypeInv, ShapeInv, KeepInv, NEW p \in Ops, Still, skew' = skew, torn' = torn, gone' = gone,
         \A q \in Ops \ {p} : op'[q] = op[q], PassedOn(p)
  PROVE  KeepInv'
<1>1. HeadInv'
  BY HeadStays DEF KeepInv, Still
<1>2. KeptInv'
  BY KeptStays DEF KeepInv, Still
<1> QED BY <1>1, <1>2 DEF KeepInv

LEMMA StartKeep ==
  ASSUME TypeInv, ShapeInv, KeepInv, NEW p \in Ops, Start(p)
  PROVE  KeepInv'
<1>1. StartStep(p) /\ Placed(p)
  BY StartDoes DEF TypeInv
<1>2. PassedOn(p)
  BY <1>1, KindOf DEF StartStep, PassedOn, InHand, InMemory, Idle, Placed, MayAdopt, Consuming, Renewing, Answered, Settled
<1> QED BY <1>1, <1>2, QuietKeep DEF StartStep, Still

LEMMA ObserveLiveKeep ==
  ASSUME TypeInv, ShapeInv, KeepInv, NEW p \in Ops, ObserveLive(p)
  PROVE  KeepInv'
<1>1. ObserveLiveStep(p) /\ Placed(p)
  BY ObserveLiveDoes DEF TypeInv
<1>2. PassedOn(p)
  BY <1>1, KindOf DEF ObserveLiveStep, PassedOn, InHand, InMemory, Idle, Placed, MayAdopt, Consuming, Renewing, Answered, Settled
<1> QED BY <1>1, <1>2, QuietKeep DEF ObserveLiveStep, Still

LEMMA ReadFirstKeep ==
  ASSUME TypeInv, ShapeInv, KeepInv, NEW p \in Ops, ReadFirst(p)
  PROVE  KeepInv'
<1>1. ReadFirstStep(p) /\ Placed(p)
  BY ReadFirstDoes DEF TypeInv
<1>2. PassedOn(p)
  BY <1>1, KindOf DEF ReadFirstStep, PassedOn, InHand, InMemory, Idle, Placed, MayAdopt, Consuming, Renewing, Answered, Settled
<1> QED BY <1>1, <1>2, QuietKeep DEF ReadFirstStep, Still

LEMMA ReadSecondKeep ==
  ASSUME TypeInv, ShapeInv, KeepInv, NEW p \in Ops, ReadSecond(p)
  PROVE  KeepInv'
<1>1. ReadSecondStep(p) /\ Placed(p)
  BY ReadSecondDoes DEF TypeInv
<1>2. PassedOn(p)
  BY <1>1, KindOf DEF ReadSecondStep, PassedOn, InHand, InMemory, Idle, Placed, MayAdopt, Consuming, Renewing, Answered, Settled
<1> QED BY <1>1, <1>2, QuietKeep DEF ReadSecondStep, Still

LEMMA ImportNewKeep ==
  ASSUME TypeInv, ShapeInv, KeepInv, NEW p \in Ops, ImportNew(p)
  PROVE  KeepInv'
<1> HeadInv /\ KeptInv
  BY DEF KeepInv
<1>1. ImportNewStep(p)
  BY ImportNewDoes DEF TypeInv
<1>2. Placed(p) /\ Holds(p)
  BY DEF TypeInv, ShapeInv
<1>3. 0 \notin valid
  BY DEF ShapeInv, Ordered
<1>4. HeadInv'
  BY <1>1, <1>2, <1>3, ShapeFacts DEF ImportNewStep, HeadInv
<1>5. PassedOn(p)
  BY <1>1, <1>2, KindOf DEF ImportNewStep, PassedOn, InHand, InMemory, Idle, Placed, MayAdopt, Consuming, Renewing, Answered, Settled
<1>6. \A x \in stash : x \in stash' \/ x.to \in heads'
  BY <1>1 DEF ImportNewStep
<1>7. KeptInv'
  BY <1>1, <1>5, <1>6, KeptStays DEF ImportNewStep
<1> QED BY <1>4, <1>7 DEF KeepInv

LEMMA ImportCommitKeep ==
  ASSUME TypeInv, ShapeInv, KeepInv, NEW p \in Ops, ImportCommit(p)
  PROVE  KeepInv'
<1> HeadInv /\ KeptInv
  BY DEF KeepInv
<1>1. ImportCommitStep(p)
  BY ImportCommitDoes DEF TypeInv
<1>2. Placed(p) /\ Holds(p)
  BY DEF TypeInv, ShapeInv
<1>4. HeadInv'
  BY <1>1, <1>2, HeadStays DEF ImportCommitStep, HeadInv, Placed
<1>5. PassedOn(p)
  BY <1>1, <1>2, KindOf DEF ImportCommitStep, PassedOn, InHand, InMemory, Idle, Placed, MayAdopt, Consuming, Renewing, Answered, Settled
<1>6. \A x \in stash : x \in stash' \/ x.to \in heads'
  BY <1>1 DEF ImportCommitStep
<1>7. KeptInv'
  BY <1>1, <1>5, <1>6, KeptStays DEF ImportCommitStep
<1> QED BY <1>4, <1>7 DEF KeepInv

LEMMA RepairSplitKeep ==
  ASSUME TypeInv, ShapeInv, KeepInv, NEW p \in Ops, RepairSplit(p)
  PROVE  KeepInv'
<1> HeadInv /\ KeptInv
  BY DEF KeepInv
<1>1. RepairSplitStep(p)
  BY RepairSplitDoes DEF TypeInv
<1>2. Placed(p) /\ Holds(p)
  BY DEF TypeInv, ShapeInv
<1>4. HeadInv'
  BY <1>1, HeadStays DEF RepairSplitStep, HeadInv
<1>5. PassedOn(p)
  BY <1>1, <1>2, KindOf DEF RepairSplitStep, PassedOn, InHand, InMemory, Idle, Placed, MayAdopt, Consuming, Renewing, Answered, Settled
<1>6. \A x \in stash : x \in stash' \/ x.to \in heads'
  BY <1>1 DEF RepairSplitStep
<1>7. KeptInv'
  BY <1>1, <1>5, <1>6, KeptStays DEF RepairSplitStep
<1> QED BY <1>4, <1>7 DEF KeepInv

LEMMA NoopKeep ==
  ASSUME TypeInv, ShapeInv, KeepInv, NEW p \in Ops, Noop(p)
  PROVE  KeepInv'
<1>1. NoopStep(p) /\ Placed(p)
  BY NoopDoes DEF TypeInv
<1>2. PassedOn(p)
  BY <1>1, KindOf DEF NoopStep, PassedOn, InHand, InMemory, Idle, Placed, MayAdopt, Consuming, Renewing, Answered, Settled
<1> QED BY <1>1, <1>2, QuietKeep DEF NoopStep, Still

LEMMA RepublishKeep ==
  ASSUME TypeInv, ShapeInv, KeepInv, NEW p \in Ops, Republish(p)
  PROVE  KeepInv'
<1>1. RepublishStep(p) /\ Placed(p)
  BY RepublishDoes DEF TypeInv
<1>2. PassedOn(p)
  BY <1>1, KindOf DEF RepublishStep, PassedOn, InHand, InMemory, Idle, Placed, MayAdopt, Consuming, Renewing, Answered, Settled
<1> QED BY <1>1, <1>2, QuietKeep DEF RepublishStep, Still

LEMMA PublishSlotKeep ==
  ASSUME TypeInv, ShapeInv, KeepInv, NEW p \in Ops, PublishSlot(p)
  PROVE  KeepInv'
<1> HeadInv /\ KeptInv
  BY DEF KeepInv
<1>1. PublishSlotStep(p)
  BY PublishSlotDoes DEF TypeInv
<1>2. Placed(p) /\ Holds(p)
  BY DEF TypeInv, ShapeInv
<1>4. HeadInv'
  BY <1>1, HeadStays DEF PublishSlotStep
<1>5. PassedOn(p)
  BY <1>1, <1>2, KindOf DEF PublishSlotStep, PassedOn, InHand, InMemory, Idle, Placed, MayAdopt, Consuming, Renewing, Answered, Settled
<1>6. \A x \in stash : x \in stash' \/ x.to \in heads'
  BY <1>1 DEF PublishSlotStep
<1>7. KeptInv'
  BY <1>1, <1>5, <1>6, KeptStays DEF PublishSlotStep
<1> QED BY <1>4, <1>7 DEF KeepInv

LEMMA MarkKeep ==
  ASSUME TypeInv, ShapeInv, KeepInv, NEW p \in Ops, Mark(p)
  PROVE  KeepInv'
<1>1. MarkStep(p) /\ Placed(p)
  BY MarkDoes DEF TypeInv
<1>2. PassedOn(p)
  BY <1>1, KindOf DEF MarkStep, PassedOn, InHand, InMemory, Idle, Placed, MayAdopt, Consuming, Renewing, Answered, Settled
<1> QED BY <1>1, <1>2, QuietKeep DEF MarkStep, Still

LEMMA AdoptKeep ==
  ASSUME TypeInv, ShapeInv, KeepInv, NEW p \in Ops, Adopt(p)
  PROVE  KeepInv'
<1> HeadInv /\ KeptInv
  BY DEF KeepInv
<1>1. AdoptStep(p)
  BY AdoptDoes DEF TypeInv
<1>2. Placed(p) /\ Holds(p)
  BY DEF TypeInv, ShapeInv
<1>4. HeadInv'
  BY <1>1, <1>2, HeadStays DEF AdoptStep, HeadInv
<1>5. PassedOn(p)
  BY <1>1, <1>2, KindOf DEF AdoptStep, PassedOn, InHand, InMemory, Idle, Placed, MayAdopt, Consuming, Renewing, Answered, Settled
<1>6. \A x \in stash : x \in stash' \/ x.to \in heads'
  BY <1>1 DEF AdoptStep
<1>7. KeptInv'
  BY <1>1, <1>5, <1>6, KeptStays DEF AdoptStep
<1> QED BY <1>4, <1>7 DEF KeepInv

LEMMA AdoptCommitKeep ==
  ASSUME TypeInv, ShapeInv, KeepInv, NEW p \in Ops, AdoptCommit(p)
  PROVE  KeepInv'
<1> HeadInv /\ KeptInv
  BY DEF KeepInv
<1>1. AdoptCommitStep(p)
  BY AdoptCommitDoes DEF TypeInv
<1>2. Placed(p) /\ Holds(p)
  BY DEF TypeInv, ShapeInv
<1>4. HeadInv'
  BY <1>1, <1>2 DEF AdoptCommitStep, HeadInv, Placed
<1>5. PassedOn(p)
  BY <1>1, <1>2, KindOf DEF AdoptCommitStep, PassedOn, InHand, InMemory, Idle, Placed, MayAdopt, Consuming, Renewing, Answered, Settled
<1>6. \A x \in stash : x \in stash' \/ x.to \in heads'
  BY <1>1 DEF AdoptCommitStep
<1>7. KeptInv'
  BY <1>1, <1>5, <1>6, KeptStays DEF AdoptCommitStep
<1> QED BY <1>4, <1>7 DEF KeepInv

LEMMA AdoptUndoKeep ==
  ASSUME TypeInv, ShapeInv, KeepInv, NEW p \in Ops, AdoptUndo(p)
  PROVE  KeepInv'
<1> HeadInv /\ KeptInv
  BY DEF KeepInv
<1>1. AdoptUndoStep(p)
  BY AdoptUndoDoes DEF TypeInv
<1>2. Placed(p) /\ Holds(p)
  BY DEF TypeInv, ShapeInv
<1>4. HeadInv'
  BY <1>1, <1>2, HeadStays DEF AdoptUndoStep, HeadInv, Holds, Placed
<1>5. PassedOn(p)
  BY <1>1, <1>2, KindOf DEF AdoptUndoStep, PassedOn, InHand, InMemory, Idle, Placed, MayAdopt, Consuming, Renewing, Answered, Settled
<1>6. \A x \in stash : x \in stash' \/ x.to \in heads'
  BY <1>1 DEF AdoptUndoStep
<1>7. KeptInv'
  BY <1>1, <1>5, <1>6, KeptStays DEF AdoptUndoStep
<1> QED BY <1>4, <1>7 DEF KeepInv

LEMMA DueKeep ==
  ASSUME TypeInv, ShapeInv, KeepInv, NEW p \in Ops, Due(p)
  PROVE  KeepInv'
<1>1. DueStep(p) /\ Placed(p)
  BY DueDoes DEF TypeInv
<1>2. PassedOn(p)
  BY <1>1, KindOf DEF DueStep, PassedOn, InHand, InMemory, Idle, Placed, MayAdopt, Consuming, Renewing, Answered, Settled
<1> QED BY <1>1, <1>2, QuietKeep DEF DueStep, Still

LEMMA ReadSlotKeep ==
  ASSUME TypeInv, ShapeInv, KeepInv, NEW p \in Ops, ReadSlot(p)
  PROVE  KeepInv'
<1>1. ReadSlotStep(p) /\ Placed(p)
  BY ReadSlotDoes DEF TypeInv
<1>2. PassedOn(p)
  BY <1>1, KindOf DEF ReadSlotStep, PassedOn, InHand, InMemory, Idle, Placed, MayAdopt, Consuming, Renewing, Answered, Settled
<1> QED BY <1>1, <1>2, QuietKeep DEF ReadSlotStep, Still

LEMMA RepairDriftKeep ==
  ASSUME TypeInv, ShapeInv, KeepInv, NEW p \in Ops, RepairDrift(p)
  PROVE  KeepInv'
<1> HeadInv /\ KeptInv
  BY DEF KeepInv
<1>1. RepairDriftStep(p)
  BY RepairDriftDoes DEF TypeInv
<1>2. Placed(p) /\ Holds(p)
  BY DEF TypeInv, ShapeInv
<1>4. HeadInv'
  <2>1. CASE row'.fp = row.fp /\ skew' = skew
    BY <1>1, <2>1, HeadStays DEF RepairDriftStep
  <2>2. CASE row'.fp = op[p].cur /\ skew' = (skew \/ kc # op[p].cur)
    <3>1. kc' = kc
      BY <1>1 DEF RepairDriftStep
    <3> QED BY <2>2, <3>1 DEF HeadInv
  <2> QED BY <1>1, <2>1, <2>2 DEF RepairDriftStep
<1>5. PassedOn(p)
  BY <1>1, <1>2, KindOf DEF RepairDriftStep, PassedOn, InHand, InMemory, Idle, Placed, MayAdopt, Consuming, Renewing, Answered, Settled
<1>6. \A x \in stash : x \in stash' \/ x.to \in heads'
  BY <1>1 DEF RepairDriftStep
<1>7. KeptInv'
  BY <1>1, <1>5, <1>6, KeptStays DEF RepairDriftStep
<1> QED BY <1>4, <1>7 DEF KeepInv

LEMMA FindStashedKeep ==
  ASSUME TypeInv, ShapeInv, KeepInv, NEW p \in Ops, FindStashed(p)
  PROVE  KeepInv'
<1>1. FindStashedStep(p) /\ Placed(p)
  BY FindStashedDoes DEF TypeInv
<1>2. PassedOn(p)
  BY <1>1, KindOf DEF FindStashedStep, PassedOn, InHand, InMemory, Idle, Placed, MayAdopt, Consuming, Renewing, Answered, Settled
<1> QED BY <1>1, <1>2, QuietKeep DEF FindStashedStep, Still

LEMMA PostRejectedKeep ==
  ASSUME TypeInv, ShapeInv, KeepInv, NEW p \in Ops, PostRejected(p)
  PROVE  KeepInv'
<1>1. PostRejectedStep(p) /\ Placed(p)
  BY PostRejectedDoes DEF TypeInv
<1>2. PassedOn(p)
  BY <1>1, KindOf DEF PostRejectedStep, PassedOn, InHand, InMemory, Idle, Placed, MayAdopt, Consuming, Renewing, Answered, Settled
<1> QED BY <1>1, <1>2, QuietKeep DEF PostRejectedStep, Still

LEMMA PostFailedKeep ==
  ASSUME TypeInv, ShapeInv, KeepInv, NEW p \in Ops, PostFailed(p)
  PROVE  KeepInv'
<1>1. PostFailedStep(p) /\ Placed(p)
  BY PostFailedDoes DEF TypeInv
<1>2. PassedOn(p)
  BY <1>1, KindOf DEF PostFailedStep, PassedOn, InHand, InMemory, Idle, Placed, MayAdopt, Consuming, Renewing, Answered, Settled
<1> QED BY <1>1, <1>2, QuietKeep DEF PostFailedStep, Still

LEMMA RejectedKeep ==
  ASSUME TypeInv, ShapeInv, KeepInv, NEW p \in Ops, Rejected(p)
  PROVE  KeepInv'
<1>1. RejectedStep(p) /\ Placed(p)
  BY RejectedDoes DEF TypeInv
<1>2. PassedOn(p)
  BY <1>1, KindOf DEF RejectedStep, PassedOn, InHand, InMemory, Idle, Placed, MayAdopt, Consuming, Renewing, Answered, Settled
<1> QED BY <1>1, <1>2, QuietKeep DEF RejectedStep, Still

LEMMA RecordRejectedKeep ==
  ASSUME TypeInv, ShapeInv, KeepInv, NEW p \in Ops, RecordRejected(p)
  PROVE  KeepInv'
<1>1. RecordRejectedStep(p) /\ Placed(p)
  BY RecordRejectedDoes DEF TypeInv
<1>2. PassedOn(p)
  BY <1>1, KindOf DEF RecordRejectedStep, PassedOn, InHand, InMemory, Idle, Placed, MayAdopt, Consuming, Renewing, Answered, Settled
<1> QED BY <1>1, <1>2, QuietKeep DEF RecordRejectedStep, Still

LEMMA GotSuccessorKeep ==
  ASSUME TypeInv, ShapeInv, KeepInv, NEW p \in Ops, GotSuccessor(p)
  PROVE  KeepInv'
<1>1. GotSuccessorStep(p) /\ Placed(p)
  BY GotSuccessorDoes DEF TypeInv
<1>2. PassedOn(p)
  BY <1>1, KindOf DEF GotSuccessorStep, PassedOn, InHand, InMemory, Idle, Placed, MayAdopt, Consuming, Renewing, Answered, Settled
<1> QED BY <1>1, <1>2, QuietKeep DEF GotSuccessorStep, Still

LEMMA PersistBeginKeep ==
  ASSUME TypeInv, ShapeInv, KeepInv, NEW p \in Ops, PersistBegin(p)
  PROVE  KeepInv'
<1>1. PersistBeginStep(p) /\ Placed(p)
  BY PersistBeginDoes DEF TypeInv
<1>2. PassedOn(p)
  BY <1>1, KindOf DEF PersistBeginStep, PassedOn, InHand, InMemory, Idle, Placed, MayAdopt, Consuming, Renewing, Answered, Settled
<1> QED BY <1>1, <1>2, QuietKeep DEF PersistBeginStep, Still

LEMMA PersistWriteKeep ==
  ASSUME TypeInv, ShapeInv, KeepInv, NEW p \in Ops, PersistWrite(p)
  PROVE  KeepInv'
<1> HeadInv /\ KeptInv
  BY DEF KeepInv
<1>1. PersistWriteStep(p)
  BY PersistWriteDoes DEF TypeInv
<1>2. Placed(p) /\ Holds(p)
  BY DEF TypeInv, ShapeInv
<1>3. row.fp \notin valid
  <2>1. <<op[p].cur, op[p].suc>> \in grew /\ row.fp = op[p].cur
    BY <1>1, <1>2 DEF PersistWriteStep, Holds, Answered
  <2> QED BY <2>1 DEF ShapeInv, Ordered
<1>4. HeadInv'
  BY <1>1, <1>3 DEF PersistWriteStep, HeadInv
<1>5. PassedOn(p)
  BY <1>1, <1>2, KindOf DEF PersistWriteStep, PassedOn, InHand, InMemory, Idle, Placed, MayAdopt, Consuming, Renewing, Answered, Settled
<1>6. \A x \in stash : x \in stash' \/ x.to \in heads'
  BY <1>1 DEF PersistWriteStep
<1>7. KeptInv'
  BY <1>1, <1>5, <1>6, KeptStays DEF PersistWriteStep
<1> QED BY <1>4, <1>7 DEF KeepInv

LEMMA PersistCommitKeep ==
  ASSUME TypeInv, ShapeInv, KeepInv, NEW p \in Ops, PersistCommit(p)
  PROVE  KeepInv'
<1> HeadInv /\ KeptInv
  BY DEF KeepInv
<1>1. PersistCommitStep(p)
  BY PersistCommitDoes DEF TypeInv
<1>2. Placed(p) /\ Holds(p)
  BY DEF TypeInv, ShapeInv
<1>4. HeadInv'
  BY <1>1, <1>2, HeadStays DEF PersistCommitStep, HeadInv, Holds
<1>5. PassedOn(p)
  BY <1>1, <1>2, KindOf DEF PersistCommitStep, PassedOn, InHand, InMemory, Idle, Placed, MayAdopt, Consuming, Renewing, Answered, Settled
<1>6. \A x \in stash : x \in stash' \/ x.to \in heads'
  BY <1>1 DEF PersistCommitStep
<1>7. KeptInv'
  BY <1>1, <1>5, <1>6, KeptStays DEF PersistCommitStep
<1> QED BY <1>4, <1>7 DEF KeepInv

LEMMA PersistLockLostKeep ==
  ASSUME TypeInv, ShapeInv, KeepInv, NEW p \in Ops, PersistLockLost(p)
  PROVE  KeepInv'
<1>1. PersistLockLostStep(p) /\ Placed(p)
  BY PersistLockLostDoes DEF TypeInv
<1>2. PassedOn(p)
  BY <1>1, KindOf DEF PersistLockLostStep, PassedOn, InHand, InMemory, Idle, Placed, MayAdopt, Consuming, Renewing, Answered, Settled
<1> QED BY <1>1, <1>2, QuietKeep DEF PersistLockLostStep, Still

LEMMA PersistSaveKeep ==
  ASSUME TypeInv, ShapeInv, KeepInv, NEW p \in Ops, PersistSave(p)
  PROVE  KeepInv'
<1> HeadInv /\ KeptInv
  BY DEF KeepInv
<1>1. PersistSaveStep(p)
  BY PersistSaveDoes DEF TypeInv
<1>2. Placed(p) /\ Holds(p)
  BY DEF TypeInv, ShapeInv
<1>3. row.fp \notin valid
  <2>1. <<op[p].cur, op[p].suc>> \in grew /\ row.fp = op[p].cur
    BY <1>1, <1>2 DEF PersistSaveStep, Holds, Answered
  <2> QED BY <2>1 DEF ShapeInv, Ordered
<1>4. HeadInv'
  BY <1>1, <1>3 DEF PersistSaveStep, HeadInv
<1>5. PassedOn(p)
  <2>1. CASE stash' = stash \cup {[from |-> op[p].cur, to |-> op[p].suc]}
    <3>1. [from |-> op[p].cur, to |-> op[p].suc] \in stash' /\ [from |-> op[p].cur, to |-> op[p].suc].to = op[p].suc
      BY <2>1
    <3> QED BY <3>1 DEF PassedOn
  <2>2. CASE gone' = gone \cup {op[p].suc}
    BY <2>2 DEF PassedOn
  <2> QED BY <1>1, <2>1, <2>2 DEF PersistSaveStep
<1>6. \A x \in stash : x \in stash' \/ x.to \in heads'
  BY <1>1 DEF PersistSaveStep
<1>7. KeptInv'
  BY <1>1, <1>5, <1>6, KeptStays DEF PersistSaveStep
<1> QED BY <1>4, <1>7 DEF KeepInv

LEMMA PersistUndoKeep ==
  ASSUME TypeInv, ShapeInv, KeepInv, NEW p \in Ops, PersistUndo(p)
  PROVE  KeepInv'
<1> HeadInv /\ KeptInv
  BY DEF KeepInv
<1>1. PersistUndoStep(p)
  BY PersistUndoDoes DEF TypeInv
<1>2. Placed(p) /\ Holds(p)
  BY DEF TypeInv, ShapeInv
<1>3. row.fp \notin valid
  <2>1. <<op[p].cur, op[p].suc>> \in grew /\ row.fp = op[p].cur
    BY <1>1, <1>2 DEF PersistUndoStep, Holds, Answered
  <2> QED BY <2>1 DEF ShapeInv, Ordered
<1>4. HeadInv'
  BY <1>1, <1>3 DEF PersistUndoStep, HeadInv
<1>5. PassedOn(p)
  BY <1>1, <1>2, KindOf DEF PersistUndoStep, PassedOn, InHand, InMemory, Idle, Placed, MayAdopt, Consuming, Renewing, Answered, Settled
<1>6. \A x \in stash : x \in stash' \/ x.to \in heads'
  BY <1>1 DEF PersistUndoStep
<1>7. KeptInv'
  BY <1>1, <1>5, <1>6, KeptStays DEF PersistUndoStep
<1> QED BY <1>4, <1>7 DEF KeepInv

LEMMA StashSuccessorKeep ==
  ASSUME TypeInv, ShapeInv, KeepInv, NEW p \in Ops, StashSuccessor(p)
  PROVE  KeepInv'
<1> HeadInv /\ KeptInv
  BY DEF KeepInv
<1>1. StashSuccessorStep(p)
  BY StashSuccessorDoes DEF TypeInv
<1>2. Placed(p) /\ Holds(p)
  BY DEF TypeInv, ShapeInv
<1>4. HeadInv'
  BY <1>1, HeadStays DEF StashSuccessorStep
<1>5. PassedOn(p)
  <2>1. CASE stash' = stash \cup {[from |-> op[p].cur, to |-> op[p].suc]}
    <3>1. [from |-> op[p].cur, to |-> op[p].suc] \in stash' /\ [from |-> op[p].cur, to |-> op[p].suc].to = op[p].suc
      BY <2>1
    <3> QED BY <3>1 DEF PassedOn
  <2>2. CASE gone' = gone \cup {op[p].suc}
    BY <2>2 DEF PassedOn
  <2> QED BY <1>1, <2>1, <2>2 DEF StashSuccessorStep
<1>6. \A x \in stash : x \in stash' \/ x.to \in heads'
  BY <1>1 DEF StashSuccessorStep
<1>7. KeptInv'
  BY <1>1, <1>5, <1>6, KeptStays DEF StashSuccessorStep
<1> QED BY <1>4, <1>7 DEF KeepInv

LEMMA UnstashKeep ==
  ASSUME TypeInv, ShapeInv, KeepInv, NEW p \in Ops, Unstash(p)
  PROVE  KeepInv'
<1> HeadInv /\ KeptInv
  BY DEF KeepInv
<1>1. UnstashStep(p)
  BY UnstashDoes DEF TypeInv
<1>2. Placed(p) /\ Holds(p)
  BY DEF TypeInv, ShapeInv
<1>4. HeadInv'
  BY <1>1, HeadStays DEF UnstashStep
<1>5. PassedOn(p)
  BY <1>1, <1>2, KindOf DEF UnstashStep, PassedOn, InHand, InMemory, Idle, Placed, MayAdopt, Consuming, Renewing, Answered, Settled
<1>6. \A x \in stash : x \in stash' \/ x.to \in heads'
  BY <1>1, <1>2 DEF UnstashStep, Holds, Settled
<1>7. KeptInv'
  BY <1>1, <1>5, <1>6, KeptStays DEF UnstashStep
<1> QED BY <1>4, <1>7 DEF KeepInv

LEMMA PublishCasKeep ==
  ASSUME TypeInv, ShapeInv, KeepInv, NEW p \in Ops, PublishCas(p)
  PROVE  KeepInv'
<1>1. PublishCasStep(p) /\ Placed(p)
  BY PublishCasDoes DEF TypeInv
<1>2. PassedOn(p)
  BY <1>1, KindOf DEF PublishCasStep, PassedOn, InHand, InMemory, Idle, Placed, MayAdopt, Consuming, Renewing, Answered, Settled
<1> QED BY <1>1, <1>2, QuietKeep DEF PublishCasStep, Still

LEMMA PublishRenameKeep ==
  ASSUME TypeInv, ShapeInv, KeepInv, NEW p \in Ops, PublishRename(p)
  PROVE  KeepInv'
<1> HeadInv /\ KeptInv
  BY DEF KeepInv
<1>1. PublishRenameStep(p)
  BY PublishRenameDoes DEF TypeInv
<1>2. Placed(p) /\ Holds(p)
  BY DEF TypeInv, ShapeInv
<1>4. HeadInv'
  BY <1>1, HeadStays DEF PublishRenameStep
<1>5. PassedOn(p)
  BY <1>1, <1>2, KindOf DEF PublishRenameStep, PassedOn, InHand, InMemory, Idle, Placed, MayAdopt, Consuming, Renewing, Answered, Settled
<1>6. \A x \in stash : x \in stash' \/ x.to \in heads'
  BY <1>1 DEF PublishRenameStep
<1>7. KeptInv'
  BY <1>1, <1>5, <1>6, KeptStays DEF PublishRenameStep
<1> QED BY <1>4, <1>7 DEF KeepInv

LEMMA PublishVerifyKeep ==
  ASSUME TypeInv, ShapeInv, KeepInv, NEW p \in Ops, PublishVerify(p)
  PROVE  KeepInv'
<1>1. PublishVerifyStep(p) /\ Placed(p)
  BY PublishVerifyDoes DEF TypeInv
<1>2. PassedOn(p)
  BY <1>1, KindOf DEF PublishVerifyStep, PassedOn, InHand, InMemory, Idle, Placed, MayAdopt, Consuming, Renewing, Answered, Settled
<1> QED BY <1>1, <1>2, QuietKeep DEF PublishVerifyStep, Still

LEMMA CrashKeep ==
  ASSUME TypeInv, ShapeInv, KeepInv, NEW p \in Ops, Crash(p)
  PROVE  KeepInv'
<1> HeadInv /\ KeptInv
  BY DEF KeepInv
<1>1. CrashStep(p)
  BY CrashDoes DEF TypeInv
<1>2. Placed(p) /\ Holds(p)
  BY DEF TypeInv, ShapeInv
<1>4. HeadInv'
  BY <1>1, HeadStays DEF CrashStep
<1>5. torn' \/ PassedOn(p)
  BY <1>1 DEF CrashStep, PassedOn, InHand, InMemory
<1>6. \A x \in stash : x \in stash' \/ x.to \in heads'
  BY <1>1 DEF CrashStep
<1>7. KeptInv'
  BY <1>1, <1>5, <1>6, KeptStays DEF CrashStep, KeptInv
<1> QED BY <1>4, <1>7 DEF KeepInv

LEMMA PostKeep ==
  ASSUME TypeInv, ShapeInv, KeepInv, NEW p \in Ops, Post(p)
  PROVE  KeepInv'
<1>1. PostStep(p) /\ Placed(p) /\ issued \in Nat
  BY PostDoes, Numbers DEF TypeInv, TypeOK
<1>2. \A t \in Given : t \in valid' => t \in valid
  BY <1>1 DEF PostStep, Given
<1>3. HeadInv'
  BY <1>1, <1>2, HeadStays DEF PostStep, KeepInv
<1>4. PassedOn(p)
  BY <1>1 DEF PostStep, PassedOn, InHand, InMemory
<1>5. CASE arrived' = arrived
  BY <1>1, <1>3, <1>4, <1>5, KeptStays DEF PostStep, KeepInv
<1>6. CASE arrived' = arrived \cup {issued + 1} /\ op'[p].pc = "got" /\ op'[p].suc = issued + 1
  <2>1. InHand(p)'
    BY <1>1, <1>6, KindOf DEF PostStep, InHand, InMemory, Idle, Placed, MayAdopt, Consuming, Renewing, Settled
  <2>2. ASSUME ~torn', NEW s \in arrived'
        PROVE  \/ s \in heads' \cup gone'
               \/ \E x \in stash' : x.to = s
               \/ \E q \in Ops : InHand(q)' /\ op'[q].suc = s
    <3>1. CASE s = issued + 1
      BY <1>6, <2>1, <3>1
    <3>2. CASE s \in arrived
      <4>1. \A q \in Ops : InHand(q) => q # p
        BY <1>1 DEF PostStep, InHand, InMemory
      <4>2. \A q \in Ops : InHand(q) => InHand(q)' /\ op'[q].suc = op[q].suc
        BY <1>1, <4>1 DEF PostStep, InHand
      <4>3. s \in heads \cup gone \/ (\E x \in stash : x.to = s) \/ \E q \in Ops : InHand(q) /\ op[q].suc = s
        BY <1>1, <2>2, <3>2 DEF PostStep, KeepInv, KeptInv
      <4> QED BY <1>1, <4>2, <4>3 DEF PostStep
    <3> QED BY <1>6, <2>2, <3>1, <3>2
  <2> QED BY <1>3, <2>2 DEF KeepInv, KeptInv
<1> QED BY <1>1, <1>5, <1>6 DEF PostStep
\* A step of no process.
LEMMA NobodyKeep ==
  ASSUME TypeInv, ShapeInv, KeepInv, op' = op, row' = row, kc' = kc, prev' = prev, stash' = stash,
         UNCHANGED history, \A t \in Given : t \in valid' => t \in valid
  PROVE  KeepInv'
<1>1. HeadInv'
  BY HeadStays DEF KeepInv, history
<1>2. KeptInv'
  BY DEF KeepInv, KeptInv, InHand, history
<1> QED BY <1>1, <1>2 DEF KeepInv
LEMMA LoseKeep ==
  ASSUME TypeInv, ShapeInv, KeepInv, NEW p \in Ops, LoseSwitchLock(p) \/ LoseAuthLock(p)
  PROVE  KeepInv'
  BY NobodyKeep DEF LoseSwitchLock, LoseAuthLock, slotVars, provider
LEMMA EnvKeep ==
  ASSUME TypeInv, ShapeInv, KeepInv, CodexStart \/ CodexExit \/ CodexRotate \/ CodexLogin \/ CodexLeave
  PROVE  KeepInv'
<1>1. issued \in Nat
  BY Numbers DEF TypeInv, TypeOK
<1>2. \A t \in Given : t \in valid' => t \in valid
  BY <1>1 DEF CodexStart, CodexExit, CodexRotate, CodexLogin, CodexLeave, Given
<1>3. op' = op /\ row' = row /\ kc' = kc /\ prev' = prev /\ stash' = stash /\ UNCHANGED history
  BY DEF CodexStart, CodexExit, CodexRotate, CodexLogin, CodexLeave
<1> QED BY <1>2, <1>3, NobodyKeep

LEMMA KeepStep == TypeInv /\ ShapeInv /\ KeepInv /\ [Next]_vars => KeepInv'
<1> SUFFICES ASSUME TypeInv, ShapeInv, KeepInv, [Next]_vars PROVE KeepInv'
  OBVIOUS
<1>1. CASE UNCHANGED vars
  BY <1>1 DEF vars, slotVars, liveVars, locks, provider, history, KeepInv, HeadInv, KeptInv, InHand
<1>2. CASE CodexStart \/ CodexExit \/ CodexRotate \/ CodexLogin \/ CodexLeave
  BY <1>2, EnvKeep
<1>3. ASSUME NEW p \in Ops, Start(p) \/ Crash(p) \/ LoseSwitchLock(p) \/ LoseAuthLock(p) PROVE KeepInv'
  BY <1>3, StartKeep, CrashKeep, LoseKeep
<1>4. ASSUME NEW p \in Ops, Attribute(p) PROVE KeepInv'
  BY <1>4, ObserveLiveKeep, ReadFirstKeep, ReadSecondKeep, ImportNewKeep, ImportCommitKeep,
     RepairSplitKeep, NoopKeep, RepublishKeep, PublishSlotKeep, MarkKeep, AdoptKeep,
     AdoptCommitKeep, AdoptUndoKeep, DueKeep DEF Attribute
<1>5. ASSUME NEW p \in Ops, Consume(p) PROVE KeepInv'
  BY <1>5, ReadSlotKeep, RepairDriftKeep, FindStashedKeep, PostKeep, PostRejectedKeep,
     PostFailedKeep, RejectedKeep, RecordRejectedKeep, GotSuccessorKeep, PersistBeginKeep,
     PersistWriteKeep, PersistCommitKeep, PersistLockLostKeep, PersistSaveKeep,
     PersistUndoKeep, StashSuccessorKeep, UnstashKeep DEF Consume
<1>6. ASSUME NEW p \in Ops, Publish(p) PROVE KeepInv'
  BY <1>6, PublishCasKeep, PublishRenameKeep, PublishVerifyKeep DEF Publish
<1> QED BY <1>1, <1>2, <1>3, <1>4, <1>5, <1>6 DEF Next

LEMMA InitKeep == Init => KeepInv
  BY DEF Init, KeepInv, HeadInv, KeptInv

\* HeadKept: the row never names a login that nobody has.
THEOREM HeadAlwaysKept == Spec => []HeadKept
<1>1. KeepInv => HeadKept
  BY DEF KeepInv, HeadInv, HeadKept
<1> QED BY <1>1, InitType, TypeStep, InitShape, ShapeStep, InitKeep, KeepStep, PTL DEF Spec

\* SuccessorKept: no successor that reached QLB is lost silently.
THEOREM SuccessorAlwaysKept == Spec => []SuccessorKept
<1>1. KeepInv => SuccessorKept
  BY DEF KeepInv, KeptInv, SuccessorKept, Kept
<1> QED BY <1>1, InitType, TypeStep, InitShape, ShapeStep, InitKeep, KeepStep, PTL DEF Spec

-----------------------------------------------------------------------------
(* The fourth layer: the locks, while no holder stalled *)

\* A step of p takes no lock from another.
LEMMA HeldOthers ==
  ASSUME HeldInv, NEW p \in Ops, used'.stall = used.stall, \A q \in Ops \ {p} : op'[q] = op[q],
         (\A q \in Ops : Held(q)) => Held(p)' /\ ((row.fp = 0 => row'.fp = 0) \/ auth = p),
         sw' = sw \/ sw \in {p, None}, auth' = auth \/ auth \in {p, None}
  PROVE  HeldInv'
<1> SUFFICES ASSUME \A q \in Ops : Held(q), NEW q \in Ops, q # p PROVE Held(q)'
  BY DEF HeldInv
<1>1. Held(q) /\ op'[q] = op[q] /\ q # None
  BY OpsAssumption
<1> QED BY <1>1 DEF Held
\* Only one process at a time is consuming.
LEMMA SoleConsumer ==
  ASSUME TypeInv, HeldInv, used.stall = 0, NEW p \in Ops, NEW q \in Ops, op[p].pc \in Consuming, op[q].pc \in Consuming
  PROVE  p = q
<1>1. \A z \in Ops : op[z].pc \in Consuming => op[z].kind \in {"refresh", "active"}
  BY KindOf DEF TypeInv, TypeOK, Placed, Consuming, Renewing, Answered, Attributing
<1> QED BY <1>1 DEF HeldInv, Held

LEMMA StartHeld == ASSUME TypeInv, ShapeInv, HeldInv, NEW p \in Ops, Start(p) PROVE HeldInv'
<1>1. StartStep(p) /\ Placed(p) /\ Holds(p)
  BY StartDoes DEF TypeInv, ShapeInv
<1>3. ASSUME \A q \in Ops : Held(q) PROVE Held(p)' /\ (row.fp = 0 => row'.fp = 0)
  BY <1>1, <1>3, KindOf, OpsAssumption DEF StartStep, Idle, Held, Placed, Holds, Attributing, Consuming,
     Renewing, Answered
<1> QED BY <1>1, <1>3, HeldOthers DEF StartStep

LEMMA ObserveLiveHeld == ASSUME TypeInv, ShapeInv, HeldInv, NEW p \in Ops, ObserveLive(p) PROVE HeldInv'
<1>1. ObserveLiveStep(p) /\ Placed(p) /\ Holds(p)
  BY ObserveLiveDoes DEF TypeInv, ShapeInv
<1>3. ASSUME \A q \in Ops : Held(q) PROVE Held(p)' /\ (row.fp = 0 => row'.fp = 0)
  BY <1>1, <1>3, KindOf, OpsAssumption DEF ObserveLiveStep, Idle, Held, Placed, Holds, Attributing, Consuming,
     Renewing, Answered
<1> QED BY <1>1, <1>3, HeldOthers DEF ObserveLiveStep

LEMMA ReadFirstHeld == ASSUME TypeInv, ShapeInv, HeldInv, NEW p \in Ops, ReadFirst(p) PROVE HeldInv'
<1>1. ReadFirstStep(p) /\ Placed(p) /\ Holds(p)
  BY ReadFirstDoes DEF TypeInv, ShapeInv
<1>3. ASSUME \A q \in Ops : Held(q) PROVE Held(p)' /\ (row.fp = 0 => row'.fp = 0)
  BY <1>1, <1>3, KindOf, OpsAssumption DEF ReadFirstStep, Idle, Held, Placed, Holds, Attributing, Consuming,
     Renewing, Answered
<1> QED BY <1>1, <1>3, HeldOthers DEF ReadFirstStep

LEMMA ReadSecondHeld == ASSUME TypeInv, ShapeInv, HeldInv, NEW p \in Ops, ReadSecond(p) PROVE HeldInv'
<1>1. ReadSecondStep(p) /\ Placed(p) /\ Holds(p)
  BY ReadSecondDoes DEF TypeInv, ShapeInv
<1>3. ASSUME \A q \in Ops : Held(q) PROVE Held(p)' /\ (row.fp = 0 => row'.fp = 0)
  BY <1>1, <1>3, KindOf, OpsAssumption DEF ReadSecondStep, Idle, Held, Placed, Holds, Attributing, Consuming,
     Renewing, Answered
<1> QED BY <1>1, <1>3, HeldOthers DEF ReadSecondStep

LEMMA ImportNewHeld == ASSUME TypeInv, ShapeInv, HeldInv, NEW p \in Ops, ImportNew(p) PROVE HeldInv'
<1>1. ImportNewStep(p) /\ Placed(p) /\ Holds(p)
  BY ImportNewDoes DEF TypeInv, ShapeInv
<1>3. ASSUME \A q \in Ops : Held(q) PROVE Held(p)' /\ (row.fp = 0 => row'.fp = 0)
  BY <1>1, <1>3, KindOf, OpsAssumption DEF ImportNewStep, Idle, Held, Placed, Holds, Attributing, Consuming,
     Renewing, Answered
<1> QED BY <1>1, <1>3, HeldOthers DEF ImportNewStep

LEMMA ImportCommitHeld == ASSUME TypeInv, ShapeInv, HeldInv, NEW p \in Ops, ImportCommit(p) PROVE HeldInv'
<1>1. ImportCommitStep(p) /\ Placed(p) /\ Holds(p)
  BY ImportCommitDoes DEF TypeInv, ShapeInv
<1>3. ASSUME \A q \in Ops : Held(q) PROVE Held(p)' /\ (auth = p)
  BY <1>1, <1>3, KindOf, OpsAssumption DEF ImportCommitStep, Idle, Held, Placed, Holds, Attributing, Consuming,
     Renewing, Answered
<1> QED BY <1>1, <1>3, HeldOthers DEF ImportCommitStep

LEMMA RepairSplitHeld == ASSUME TypeInv, ShapeInv, HeldInv, NEW p \in Ops, RepairSplit(p) PROVE HeldInv'
<1>1. RepairSplitStep(p) /\ Placed(p) /\ Holds(p)
  BY RepairSplitDoes DEF TypeInv, ShapeInv
<1>3. ASSUME \A q \in Ops : Held(q) PROVE Held(p)' /\ (row.fp = 0 => row'.fp = 0)
  BY <1>1, <1>3, KindOf, OpsAssumption DEF RepairSplitStep, Idle, Held, Placed, Holds, Attributing, Consuming,
     Renewing, Answered
<1> QED BY <1>1, <1>3, HeldOthers DEF RepairSplitStep

LEMMA NoopHeld == ASSUME TypeInv, ShapeInv, HeldInv, NEW p \in Ops, Noop(p) PROVE HeldInv'
<1>1. NoopStep(p) /\ Placed(p) /\ Holds(p)
  BY NoopDoes DEF TypeInv, ShapeInv
<1>3. ASSUME \A q \in Ops : Held(q) PROVE Held(p)' /\ (row.fp = 0 => row'.fp = 0)
  BY <1>1, <1>3, KindOf, OpsAssumption DEF NoopStep, Idle, Held, Placed, Holds, Attributing, Consuming,
     Renewing, Answered
<1> QED BY <1>1, <1>3, HeldOthers DEF NoopStep

LEMMA RepublishHeld == ASSUME TypeInv, ShapeInv, HeldInv, NEW p \in Ops, Republish(p) PROVE HeldInv'
<1>1. RepublishStep(p) /\ Placed(p) /\ Holds(p)
  BY RepublishDoes DEF TypeInv, ShapeInv
<1>3. ASSUME \A q \in Ops : Held(q) PROVE Held(p)' /\ (row.fp = 0 => row'.fp = 0)
  BY <1>1, <1>3, KindOf, OpsAssumption DEF RepublishStep, Idle, Held, Placed, Holds, Attributing, Consuming,
     Renewing, Answered
<1> QED BY <1>1, <1>3, HeldOthers DEF RepublishStep

LEMMA PublishSlotHeld == ASSUME TypeInv, ShapeInv, HeldInv, NEW p \in Ops, PublishSlot(p) PROVE HeldInv'
<1>1. PublishSlotStep(p) /\ Placed(p) /\ Holds(p)
  BY PublishSlotDoes DEF TypeInv, ShapeInv
<1>3. ASSUME \A q \in Ops : Held(q) PROVE Held(p)' /\ (row.fp = 0 => row'.fp = 0)
  BY <1>1, <1>3, KindOf, OpsAssumption DEF PublishSlotStep, Idle, Held, Placed, Holds, Attributing, Consuming,
     Renewing, Answered
<1> QED BY <1>1, <1>3, HeldOthers DEF PublishSlotStep

LEMMA MarkHeld == ASSUME TypeInv, ShapeInv, HeldInv, NEW p \in Ops, Mark(p) PROVE HeldInv'
<1>1. MarkStep(p) /\ Placed(p) /\ Holds(p)
  BY MarkDoes DEF TypeInv, ShapeInv
<1>3. ASSUME \A q \in Ops : Held(q) PROVE Held(p)' /\ (row.fp = 0 => row'.fp = 0)
  BY <1>1, <1>3, KindOf, OpsAssumption DEF MarkStep, Idle, Held, Placed, Holds, Attributing, Consuming,
     Renewing, Answered
<1> QED BY <1>1, <1>3, HeldOthers DEF MarkStep

LEMMA AdoptHeld == ASSUME TypeInv, ShapeInv, HeldInv, NEW p \in Ops, Adopt(p) PROVE HeldInv'
<1>1. AdoptStep(p) /\ Placed(p) /\ Holds(p)
  BY AdoptDoes DEF TypeInv, ShapeInv
<1>3. ASSUME \A q \in Ops : Held(q) PROVE Held(p)' /\ (row.fp = 0 => row'.fp = 0)
  BY <1>1, <1>3, KindOf, OpsAssumption DEF AdoptStep, Idle, Held, Placed, Holds, Attributing, Consuming,
     Renewing, Answered
<1> QED BY <1>1, <1>3, HeldOthers DEF AdoptStep

LEMMA AdoptCommitHeld == ASSUME TypeInv, ShapeInv, HeldInv, NEW p \in Ops, AdoptCommit(p) PROVE HeldInv'
<1>1. AdoptCommitStep(p) /\ Placed(p) /\ Holds(p)
  BY AdoptCommitDoes DEF TypeInv, ShapeInv
<1>3. ASSUME \A q \in Ops : Held(q) PROVE Held(p)' /\ (row.fp = 0 => row'.fp = 0)
  BY <1>1, <1>3, KindOf, OpsAssumption DEF AdoptCommitStep, Idle, Held, Placed, Holds, Attributing, Consuming,
     Renewing, Answered
<1> QED BY <1>1, <1>3, HeldOthers DEF AdoptCommitStep

LEMMA AdoptUndoHeld == ASSUME TypeInv, ShapeInv, HeldInv, NEW p \in Ops, AdoptUndo(p) PROVE HeldInv'
<1>1. AdoptUndoStep(p) /\ Placed(p) /\ Holds(p)
  BY AdoptUndoDoes DEF TypeInv, ShapeInv
<1>3. ASSUME \A q \in Ops : Held(q) PROVE Held(p)' /\ (row.fp = 0 => row'.fp = 0)
  BY <1>1, <1>3, KindOf, OpsAssumption DEF AdoptUndoStep, Idle, Held, Placed, Holds, Attributing, Consuming,
     Renewing, Answered
<1> QED BY <1>1, <1>3, HeldOthers DEF AdoptUndoStep

LEMMA DueHeld == ASSUME TypeInv, ShapeInv, HeldInv, NEW p \in Ops, Due(p) PROVE HeldInv'
<1>1. DueStep(p) /\ Placed(p) /\ Holds(p)
  BY DueDoes DEF TypeInv, ShapeInv
<1>3. ASSUME \A q \in Ops : Held(q) PROVE Held(p)' /\ (row.fp = 0 => row'.fp = 0)
  BY <1>1, <1>3, KindOf, OpsAssumption DEF DueStep, Idle, Held, Placed, Holds, Attributing, Consuming,
     Renewing, Answered
<1> QED BY <1>1, <1>3, HeldOthers DEF DueStep

LEMMA ReadSlotHeld == ASSUME TypeInv, ShapeInv, HeldInv, NEW p \in Ops, ReadSlot(p) PROVE HeldInv'
<1>1. ReadSlotStep(p) /\ Placed(p) /\ Holds(p)
  BY ReadSlotDoes DEF TypeInv, ShapeInv
<1>3. ASSUME \A q \in Ops : Held(q) PROVE Held(p)' /\ (row.fp = 0 => row'.fp = 0)
  BY <1>1, <1>3, KindOf, OpsAssumption DEF ReadSlotStep, Idle, Held, Placed, Holds, Attributing, Consuming,
     Renewing, Answered
<1> QED BY <1>1, <1>3, HeldOthers DEF ReadSlotStep

LEMMA RepairDriftHeld == ASSUME TypeInv, ShapeInv, HeldInv, NEW p \in Ops, RepairDrift(p) PROVE HeldInv'
<1>1. RepairDriftStep(p) /\ Placed(p) /\ Holds(p)
  BY RepairDriftDoes DEF TypeInv, ShapeInv
<1>5. row.fp # 0
  BY <1>1 DEF RepairDriftStep, TypeInv, TypeOK, OpRec, Placed, Attributing, Consuming
<1>3. ASSUME \A q \in Ops : Held(q) PROVE Held(p)' /\ (row.fp = 0 => row'.fp = 0)
  BY <1>5, <1>1, <1>3, KindOf, OpsAssumption DEF RepairDriftStep, Idle, Held, Placed, Holds, Attributing, Consuming,
     Renewing, Answered
<1> QED BY <1>1, <1>3, HeldOthers DEF RepairDriftStep

LEMMA FindStashedHeld == ASSUME TypeInv, ShapeInv, HeldInv, NEW p \in Ops, FindStashed(p) PROVE HeldInv'
<1>1. FindStashedStep(p) /\ Placed(p) /\ Holds(p)
  BY FindStashedDoes DEF TypeInv, ShapeInv
<1>3. ASSUME \A q \in Ops : Held(q) PROVE Held(p)' /\ (row.fp = 0 => row'.fp = 0)
  BY <1>1, <1>3, KindOf, OpsAssumption DEF FindStashedStep, Idle, Held, Placed, Holds, Attributing, Consuming,
     Renewing, Answered
<1> QED BY <1>1, <1>3, HeldOthers DEF FindStashedStep

LEMMA PostHeld == ASSUME TypeInv, ShapeInv, HeldInv, NEW p \in Ops, Post(p) PROVE HeldInv'
<1>1. PostStep(p) /\ Placed(p) /\ Holds(p)
  BY PostDoes DEF TypeInv, ShapeInv
<1>3. ASSUME \A q \in Ops : Held(q) PROVE Held(p)' /\ (row.fp = 0 => row'.fp = 0)
  BY <1>1, <1>3, KindOf, OpsAssumption DEF PostStep, Idle, Held, Placed, Holds, Attributing, Consuming,
     Renewing, Answered
<1> QED BY <1>1, <1>3, HeldOthers DEF PostStep

LEMMA PostRejectedHeld == ASSUME TypeInv, ShapeInv, HeldInv, NEW p \in Ops, PostRejected(p) PROVE HeldInv'
<1>1. PostRejectedStep(p) /\ Placed(p) /\ Holds(p)
  BY PostRejectedDoes DEF TypeInv, ShapeInv
<1>3. ASSUME \A q \in Ops : Held(q) PROVE Held(p)' /\ (row.fp = 0 => row'.fp = 0)
  BY <1>1, <1>3, KindOf, OpsAssumption DEF PostRejectedStep, Idle, Held, Placed, Holds, Attributing, Consuming,
     Renewing, Answered
<1> QED BY <1>1, <1>3, HeldOthers DEF PostRejectedStep

LEMMA PostFailedHeld == ASSUME TypeInv, ShapeInv, HeldInv, NEW p \in Ops, PostFailed(p) PROVE HeldInv'
<1>1. PostFailedStep(p) /\ Placed(p) /\ Holds(p)
  BY PostFailedDoes DEF TypeInv, ShapeInv
<1>3. ASSUME \A q \in Ops : Held(q) PROVE Held(p)' /\ (row.fp = 0 => row'.fp = 0)
  BY <1>1, <1>3, KindOf, OpsAssumption DEF PostFailedStep, Idle, Held, Placed, Holds, Attributing, Consuming,
     Renewing, Answered
<1> QED BY <1>1, <1>3, HeldOthers DEF PostFailedStep

LEMMA RejectedHeld == ASSUME TypeInv, ShapeInv, HeldInv, NEW p \in Ops, Rejected(p) PROVE HeldInv'
<1>1. RejectedStep(p) /\ Placed(p) /\ Holds(p)
  BY RejectedDoes DEF TypeInv, ShapeInv
<1>3. ASSUME \A q \in Ops : Held(q) PROVE Held(p)' /\ (row.fp = 0 => row'.fp = 0)
  BY <1>1, <1>3, KindOf, OpsAssumption DEF RejectedStep, Idle, Held, Placed, Holds, Attributing, Consuming,
     Renewing, Answered
<1> QED BY <1>1, <1>3, HeldOthers DEF RejectedStep

LEMMA RecordRejectedHeld == ASSUME TypeInv, ShapeInv, HeldInv, NEW p \in Ops, RecordRejected(p) PROVE HeldInv'
<1>1. RecordRejectedStep(p) /\ Placed(p) /\ Holds(p)
  BY RecordRejectedDoes DEF TypeInv, ShapeInv
<1>3. ASSUME \A q \in Ops : Held(q) PROVE Held(p)' /\ (row.fp = 0 => row'.fp = 0)
  BY <1>1, <1>3, KindOf, OpsAssumption DEF RecordRejectedStep, Idle, Held, Placed, Holds, Attributing, Consuming,
     Renewing, Answered
<1> QED BY <1>1, <1>3, HeldOthers DEF RecordRejectedStep

LEMMA GotSuccessorHeld == ASSUME TypeInv, ShapeInv, HeldInv, NEW p \in Ops, GotSuccessor(p) PROVE HeldInv'
<1>1. GotSuccessorStep(p) /\ Placed(p) /\ Holds(p)
  BY GotSuccessorDoes DEF TypeInv, ShapeInv
<1>3. ASSUME \A q \in Ops : Held(q) PROVE Held(p)' /\ (row.fp = 0 => row'.fp = 0)
  BY <1>1, <1>3, KindOf, OpsAssumption DEF GotSuccessorStep, Idle, Held, Placed, Holds, Attributing, Consuming,
     Renewing, Answered
<1> QED BY <1>1, <1>3, HeldOthers DEF GotSuccessorStep

LEMMA PersistBeginHeld == ASSUME TypeInv, ShapeInv, HeldInv, NEW p \in Ops, PersistBegin(p) PROVE HeldInv'
<1>1. PersistBeginStep(p) /\ Placed(p) /\ Holds(p)
  BY PersistBeginDoes DEF TypeInv, ShapeInv
<1>3. ASSUME \A q \in Ops : Held(q) PROVE Held(p)' /\ (row.fp = 0 => row'.fp = 0)
  BY <1>1, <1>3, KindOf, OpsAssumption DEF PersistBeginStep, Idle, Held, Placed, Holds, Attributing, Consuming,
     Renewing, Answered
<1> QED BY <1>1, <1>3, HeldOthers DEF PersistBeginStep

LEMMA PersistWriteHeld == ASSUME TypeInv, ShapeInv, HeldInv, NEW p \in Ops, PersistWrite(p) PROVE HeldInv'
<1>1. PersistWriteStep(p) /\ Placed(p) /\ Holds(p)
  BY PersistWriteDoes DEF TypeInv, ShapeInv
<1>3. ASSUME \A q \in Ops : Held(q) PROVE Held(p)' /\ (row.fp = 0 => row'.fp = 0)
  BY <1>1, <1>3, KindOf, OpsAssumption DEF PersistWriteStep, Idle, Held, Placed, Holds, Attributing, Consuming,
     Renewing, Answered
<1> QED BY <1>1, <1>3, HeldOthers DEF PersistWriteStep

LEMMA PersistCommitHeld == ASSUME TypeInv, ShapeInv, HeldInv, NEW p \in Ops, PersistCommit(p) PROVE HeldInv'
<1>1. PersistCommitStep(p) /\ Placed(p) /\ Holds(p)
  BY PersistCommitDoes DEF TypeInv, ShapeInv
<1>3. ASSUME \A q \in Ops : Held(q) PROVE Held(p)' /\ (row.fp = 0 => row'.fp = 0)
  BY <1>1, <1>3, KindOf, OpsAssumption DEF PersistCommitStep, Idle, Held, Placed, Holds, Attributing, Consuming,
     Renewing, Answered
<1> QED BY <1>1, <1>3, HeldOthers DEF PersistCommitStep

LEMMA PersistLockLostHeld == ASSUME TypeInv, ShapeInv, HeldInv, NEW p \in Ops, PersistLockLost(p) PROVE HeldInv'
<1>1. PersistLockLostStep(p) /\ Placed(p) /\ Holds(p)
  BY PersistLockLostDoes DEF TypeInv, ShapeInv
<1>3. ASSUME \A q \in Ops : Held(q) PROVE Held(p)' /\ (row.fp = 0 => row'.fp = 0)
  BY <1>1, <1>3, KindOf, OpsAssumption DEF PersistLockLostStep, Idle, Held, Placed, Holds, Attributing, Consuming,
     Renewing, Answered
<1> QED BY <1>1, <1>3, HeldOthers DEF PersistLockLostStep

LEMMA PersistSaveHeld == ASSUME TypeInv, ShapeInv, HeldInv, NEW p \in Ops, PersistSave(p) PROVE HeldInv'
<1>1. PersistSaveStep(p) /\ Placed(p) /\ Holds(p)
  BY PersistSaveDoes DEF TypeInv, ShapeInv
<1>3. ASSUME \A q \in Ops : Held(q) PROVE Held(p)' /\ (row.fp = 0 => row'.fp = 0)
  BY <1>1, <1>3, KindOf, OpsAssumption DEF PersistSaveStep, Idle, Held, Placed, Holds, Attributing, Consuming,
     Renewing, Answered
<1> QED BY <1>1, <1>3, HeldOthers DEF PersistSaveStep

LEMMA PersistUndoHeld == ASSUME TypeInv, ShapeInv, HeldInv, NEW p \in Ops, PersistUndo(p) PROVE HeldInv'
<1>1. PersistUndoStep(p) /\ Placed(p) /\ Holds(p)
  BY PersistUndoDoes DEF TypeInv, ShapeInv
<1>3. ASSUME \A q \in Ops : Held(q) PROVE Held(p)' /\ (row.fp = 0 => row'.fp = 0)
  BY <1>1, <1>3, KindOf, OpsAssumption DEF PersistUndoStep, Idle, Held, Placed, Holds, Attributing, Consuming,
     Renewing, Answered
<1> QED BY <1>1, <1>3, HeldOthers DEF PersistUndoStep

LEMMA StashSuccessorHeld == ASSUME TypeInv, ShapeInv, HeldInv, NEW p \in Ops, StashSuccessor(p) PROVE HeldInv'
<1>1. StashSuccessorStep(p) /\ Placed(p) /\ Holds(p)
  BY StashSuccessorDoes DEF TypeInv, ShapeInv
<1>3. ASSUME \A q \in Ops : Held(q) PROVE Held(p)' /\ (row.fp = 0 => row'.fp = 0)
  BY <1>1, <1>3, KindOf, OpsAssumption DEF StashSuccessorStep, Idle, Held, Placed, Holds, Attributing, Consuming,
     Renewing, Answered
<1> QED BY <1>1, <1>3, HeldOthers DEF StashSuccessorStep

LEMMA UnstashHeld == ASSUME TypeInv, ShapeInv, HeldInv, NEW p \in Ops, Unstash(p) PROVE HeldInv'
<1>1. UnstashStep(p) /\ Placed(p) /\ Holds(p)
  BY UnstashDoes DEF TypeInv, ShapeInv
<1>3. ASSUME \A q \in Ops : Held(q) PROVE Held(p)' /\ (row.fp = 0 => row'.fp = 0)
  BY <1>1, <1>3, KindOf, OpsAssumption DEF UnstashStep, Idle, Held, Placed, Holds, Attributing, Consuming,
     Renewing, Answered
<1> QED BY <1>1, <1>3, HeldOthers DEF UnstashStep

LEMMA PublishCasHeld == ASSUME TypeInv, ShapeInv, HeldInv, NEW p \in Ops, PublishCas(p) PROVE HeldInv'
<1>1. PublishCasStep(p) /\ Placed(p) /\ Holds(p)
  BY PublishCasDoes DEF TypeInv, ShapeInv
<1>3. ASSUME \A q \in Ops : Held(q) PROVE Held(p)' /\ (row.fp = 0 => row'.fp = 0)
  BY <1>1, <1>3, KindOf, OpsAssumption DEF PublishCasStep, Idle, Held, Placed, Holds, Attributing, Consuming,
     Renewing, Answered
<1> QED BY <1>1, <1>3, HeldOthers DEF PublishCasStep

LEMMA PublishRenameHeld == ASSUME TypeInv, ShapeInv, HeldInv, NEW p \in Ops, PublishRename(p) PROVE HeldInv'
<1>1. PublishRenameStep(p) /\ Placed(p) /\ Holds(p)
  BY PublishRenameDoes DEF TypeInv, ShapeInv
<1>3. ASSUME \A q \in Ops : Held(q) PROVE Held(p)' /\ (row.fp = 0 => row'.fp = 0)
  BY <1>1, <1>3, KindOf, OpsAssumption DEF PublishRenameStep, Idle, Held, Placed, Holds, Attributing, Consuming,
     Renewing, Answered
<1> QED BY <1>1, <1>3, HeldOthers DEF PublishRenameStep

LEMMA PublishVerifyHeld == ASSUME TypeInv, ShapeInv, HeldInv, NEW p \in Ops, PublishVerify(p) PROVE HeldInv'
<1>1. PublishVerifyStep(p) /\ Placed(p) /\ Holds(p)
  BY PublishVerifyDoes DEF TypeInv, ShapeInv
<1>3. ASSUME \A q \in Ops : Held(q) PROVE Held(p)' /\ (row.fp = 0 => row'.fp = 0)
  BY <1>1, <1>3, KindOf, OpsAssumption DEF PublishVerifyStep, Idle, Held, Placed, Holds, Attributing, Consuming,
     Renewing, Answered
<1> QED BY <1>1, <1>3, HeldOthers DEF PublishVerifyStep

LEMMA CrashHeld == ASSUME TypeInv, ShapeInv, HeldInv, NEW p \in Ops, Crash(p) PROVE HeldInv'
<1>1. CrashStep(p) /\ Placed(p) /\ Holds(p)
  BY CrashDoes DEF TypeInv, ShapeInv
<1>3. ASSUME \A q \in Ops : Held(q) PROVE Held(p)' /\ (row.fp = 0 => row'.fp = 0)
  BY <1>1, <1>3, KindOf, OpsAssumption DEF CrashStep, Idle, Held, Placed, Holds, Attributing, Consuming,
     Renewing, Answered
<1> QED BY <1>1, <1>3, HeldOthers DEF CrashStep

\* A lock that is taken over is a stall.
LEMMA LoseHeld ==
  ASSUME TypeInv, NEW p \in Ops, LoseSwitchLock(p) \/ LoseAuthLock(p)
  PROVE  used'.stall # 0
<1>1. used.stall \in Nat
  BY BoundsAssumption DEF TypeInv, TypeOK, Bounds
<1>2. used'.stall = used.stall + 1
  BY LoseSwitchLockDoes, LoseAuthLockDoes DEF LoseSwitchLockStep, LoseAuthLockStep, TypeInv
<1> QED BY <1>1, <1>2
LEMMA EnvHeld ==
  ASSUME TypeInv, HeldInv, CodexStart \/ CodexExit \/ CodexRotate \/ CodexLogin \/ CodexLeave
  PROVE  HeldInv'
<1>1. row' = row /\ sw' = sw /\ auth' = auth /\ op' = op /\ used'.stall = used.stall
  BY DEF CodexStart, CodexExit, CodexRotate, CodexLogin, CodexLeave, TypeInv, TypeOK, Bounds
<1> QED BY <1>1 DEF HeldInv, Held

LEMMA HeldStep == TypeInv /\ ShapeInv /\ HeldInv /\ [Next]_vars => HeldInv'
<1> SUFFICES ASSUME TypeInv, ShapeInv, HeldInv, [Next]_vars PROVE HeldInv'
  OBVIOUS
<1>0. ASSUME NEW p \in Ops, LoseSwitchLock(p) \/ LoseAuthLock(p) PROVE HeldInv'
  BY <1>0, LoseHeld DEF HeldInv
<1>1. CASE UNCHANGED vars
  BY <1>1 DEF vars, slotVars, locks, HeldInv, Held
<1>2. CASE CodexStart \/ CodexExit \/ CodexRotate \/ CodexLogin \/ CodexLeave
  BY <1>2, EnvHeld
<1>3. ASSUME NEW p \in Ops, Start(p) \/ Crash(p) \/ LoseSwitchLock(p) \/ LoseAuthLock(p) PROVE HeldInv'
  BY <1>3, StartHeld, CrashHeld, <1>0
<1>4. ASSUME NEW p \in Ops, Attribute(p) PROVE HeldInv'
  BY <1>4, ObserveLiveHeld, ReadFirstHeld, ReadSecondHeld, ImportNewHeld, ImportCommitHeld,
     RepairSplitHeld, NoopHeld, RepublishHeld, PublishSlotHeld, MarkHeld, AdoptHeld,
     AdoptCommitHeld, AdoptUndoHeld, DueHeld DEF Attribute
<1>5. ASSUME NEW p \in Ops, Consume(p) PROVE HeldInv'
  BY <1>5, ReadSlotHeld, RepairDriftHeld, FindStashedHeld, PostHeld, PostRejectedHeld,
     PostFailedHeld, RejectedHeld, RecordRejectedHeld, GotSuccessorHeld, PersistBeginHeld,
     PersistWriteHeld, PersistCommitHeld, PersistLockLostHeld, PersistSaveHeld,
     PersistUndoHeld, StashSuccessorHeld, UnstashHeld DEF Consume
<1>6. ASSUME NEW p \in Ops, Publish(p) PROVE HeldInv'
  BY <1>6, PublishCasHeld, PublishRenameHeld, PublishVerifyHeld DEF Publish
<1> QED BY <1>1, <1>2, <1>3, <1>4, <1>5, <1>6 DEF Next

LEMMA InitHeld == Init => HeldInv
  BY DEF Init, HeldInv, Held, Idle

-----------------------------------------------------------------------------
(* The fifth layer: what is called dead, while no holder stalled and no process died between a *)
(* write and its commit                                                                        *)

\* A slot called dead has a document the provider refuses and no successor in the stash.
DeadMark ==
    row.dead /\ ~skew => row.fp \notin valid \cup {0} /\ Tidy /\ \A x \in stash : x.from # row.fp
\* What a process that may call a slot dead, or may raise it, relies on.
Calm(p) ==
    /\ op[p].pc \in {"post", "rejected", "refused"} => \A x \in stash : x.from # op[p].cur
    /\ op[p].pc = "refused" /\ row.fp = op[p].cur => Tidy
    /\ op[p].pc \in Open /\ row.fp = op[p].cur => skew \/ ~row.dead
DeadInv == Clean => DeadMark /\ \A p \in Ops : Calm(p)

LEMMA TidyStays ==
  ASSUME Tidy, NEW p \in Ops, row'.fp = row.fp, kc' = kc, op[p].pc # "adopted", \A q \in Ops \ {p} : op'[q] = op[q]
  PROVE  Tidy'
  BY DEF Tidy
\* A step of p that leaves the row alone.
LEMMA DeadStays ==
  ASSUME TypeInv, ShapeInv, DeadMark, \A q \in Ops : Calm(q), NEW p \in Ops, \A q \in Ops \ {p} : op'[q] = op[q],
         row'.fp = row.fp, row'.dead = row.dead, skew' = skew, \A t \in Given : t \in valid' => t \in valid,
         Tidy /\ row.fp # 0 => Tidy', stash' \subseteq stash, Calm(p)'
  PROVE  DeadMark' /\ \A q \in Ops : Calm(q)'
<1>1. row.fp \in Given
  BY ShapeFacts
<1>2. DeadMark'
  BY <1>1 DEF DeadMark
<1>3. ASSUME NEW q \in Ops, q # p PROVE Calm(q)'
  <2>1. op[q].pc = "refused" => op[q].cur # 0
    BY DEF TypeInv, Placed, Renewing
  <2>2. op'[q] = op[q] /\ Calm(q)
    BY <1>3
  <2> QED BY <2>1, <2>2 DEF Calm
<1> QED BY <1>2, <1>3
\* While one process consumes, the others have nothing to be calm about.
LEMMA OthersCalm ==
  ASSUME TypeInv, HeldInv, used.stall = 0, NEW p \in Ops, op[p].pc \in Consuming, NEW q \in Ops, q # p, op'[q] = op[q]
  PROVE  Calm(q)'
<1>1. op[q].pc \notin Consuming
  BY SoleConsumer
<1> QED BY <1>1 DEF Calm, Open, Consuming, Renewing, Answered

LEMMA StartDead ==
  ASSUME TypeInv, ShapeInv, HeldInv, DeadInv, NEW p \in Ops, Start(p)
  PROVE  DeadInv'
<1> SUFFICES ASSUME Clean' PROVE DeadMark' /\ \A q \in Ops : Calm(q)'
  BY DEF DeadInv
<1>1. StartStep(p)
  BY StartDoes DEF TypeInv
<1>0. Clean
  BY <1>1 DEF StartStep, Clean
<1>2. DeadMark /\ (\A q \in Ops : Calm(q)) /\ Placed(p) /\ Holds(p) /\ Held(p)
  BY <1>0 DEF DeadInv, TypeInv, ShapeInv, HeldInv, Clean
<1>3. Tidy /\ row.fp # 0 => Tidy'
  BY <1>0, <1>1, TidyStays DEF StartStep
<1>4. Calm(p)'
  BY <1>1, <1>2 DEF StartStep, Idle, DeadMark, Calm, Open
<1> QED BY <1>1, <1>2, <1>3, <1>4, DeadStays DEF StartStep

LEMMA ObserveLiveDead ==
  ASSUME TypeInv, ShapeInv, HeldInv, DeadInv, NEW p \in Ops, ObserveLive(p)
  PROVE  DeadInv'
<1> SUFFICES ASSUME Clean' PROVE DeadMark' /\ \A q \in Ops : Calm(q)'
  BY DEF DeadInv
<1>1. ObserveLiveStep(p)
  BY ObserveLiveDoes DEF TypeInv
<1>0. Clean
  BY <1>1 DEF ObserveLiveStep, Clean
<1>2. DeadMark /\ (\A q \in Ops : Calm(q)) /\ Placed(p) /\ Holds(p) /\ Held(p)
  BY <1>0 DEF DeadInv, TypeInv, ShapeInv, HeldInv, Clean
<1>3. Tidy /\ row.fp # 0 => Tidy'
  BY <1>0, <1>1, TidyStays DEF ObserveLiveStep
<1>4. Calm(p)'
  BY <1>1, <1>2 DEF ObserveLiveStep, Idle, DeadMark, Calm, Open
<1> QED BY <1>1, <1>2, <1>3, <1>4, DeadStays DEF ObserveLiveStep

LEMMA ReadFirstDead ==
  ASSUME TypeInv, ShapeInv, HeldInv, DeadInv, NEW p \in Ops, ReadFirst(p)
  PROVE  DeadInv'
<1> SUFFICES ASSUME Clean' PROVE DeadMark' /\ \A q \in Ops : Calm(q)'
  BY DEF DeadInv
<1>1. ReadFirstStep(p)
  BY ReadFirstDoes DEF TypeInv
<1>0. Clean
  BY <1>1 DEF ReadFirstStep, Clean
<1>2. DeadMark /\ (\A q \in Ops : Calm(q)) /\ Placed(p) /\ Holds(p) /\ Held(p)
  BY <1>0 DEF DeadInv, TypeInv, ShapeInv, HeldInv, Clean
<1>3. Tidy /\ row.fp # 0 => Tidy'
  BY <1>0, <1>1, TidyStays DEF ReadFirstStep
<1>4. Calm(p)'
  BY <1>1, <1>2 DEF ReadFirstStep, Idle, DeadMark, Calm, Open
<1> QED BY <1>1, <1>2, <1>3, <1>4, DeadStays DEF ReadFirstStep

LEMMA ReadSecondDead ==
  ASSUME TypeInv, ShapeInv, HeldInv, DeadInv, NEW p \in Ops, ReadSecond(p)
  PROVE  DeadInv'
<1> SUFFICES ASSUME Clean' PROVE DeadMark' /\ \A q \in Ops : Calm(q)'
  BY DEF DeadInv
<1>1. ReadSecondStep(p)
  BY ReadSecondDoes DEF TypeInv
<1>0. Clean
  BY <1>1 DEF ReadSecondStep, Clean
<1>2. DeadMark /\ (\A q \in Ops : Calm(q)) /\ Placed(p) /\ Holds(p) /\ Held(p)
  BY <1>0 DEF DeadInv, TypeInv, ShapeInv, HeldInv, Clean
<1>3. Tidy /\ row.fp # 0 => Tidy'
  BY <1>0, <1>1, TidyStays DEF ReadSecondStep
<1>4. Calm(p)'
  BY <1>1, <1>2 DEF ReadSecondStep, Idle, DeadMark, Calm, Open
<1> QED BY <1>1, <1>2, <1>3, <1>4, DeadStays DEF ReadSecondStep

LEMMA ImportNewDead ==
  ASSUME TypeInv, ShapeInv, HeldInv, DeadInv, NEW p \in Ops, ImportNew(p)
  PROVE  DeadInv'
<1> SUFFICES ASSUME Clean' PROVE DeadMark' /\ \A q \in Ops : Calm(q)'
  BY DEF DeadInv
<1>1. ImportNewStep(p)
  BY ImportNewDoes DEF TypeInv
<1>0. Clean
  BY <1>1 DEF ImportNewStep, Clean
<1>2. DeadMark /\ (\A q \in Ops : Calm(q)) /\ Placed(p) /\ Holds(p) /\ Held(p)
  BY <1>0 DEF DeadInv, TypeInv, ShapeInv, HeldInv, Clean
<1>3. Tidy /\ row.fp # 0 => Tidy'
  BY <1>1, <1>2 DEF ImportNewStep, Held
<1>4. Calm(p)'
  BY <1>1, <1>2 DEF ImportNewStep, Idle, DeadMark, Calm, Open
<1> QED BY <1>1, <1>2, <1>3, <1>4, DeadStays DEF ImportNewStep

LEMMA ImportCommitDead ==
  ASSUME TypeInv, ShapeInv, HeldInv, DeadInv, NEW p \in Ops, ImportCommit(p)
  PROVE  DeadInv'
<1> SUFFICES ASSUME Clean' PROVE DeadMark' /\ \A q \in Ops : Calm(q)'
  BY DEF DeadInv
<1>1. ImportCommitStep(p)
  BY ImportCommitDoes DEF TypeInv
<1>0. Clean
  BY <1>1 DEF ImportCommitStep, Clean
<1>2. DeadMark /\ (\A q \in Ops : Calm(q)) /\ Placed(p) /\ Holds(p) /\ Held(p)
  BY <1>0 DEF DeadInv, TypeInv, ShapeInv, HeldInv, Clean
<1>3. row.fp = 0 /\ op[p].seen # 0
  BY <1>1, <1>2 DEF ImportCommitStep, Held, Placed, Looked, Attributing
<1>4. ASSUME NEW q \in Ops PROVE Calm(q)'
  <2>1. op[q].pc \notin Consuming
    BY <1>3, KindOf DEF TypeInv, TypeOK, Placed, Consuming, Renewing, Answered, Attributing
  <2>2. op'[q].pc \notin Consuming
    BY <1>1, <2>1 DEF ImportCommitStep, Idle, Consuming, Renewing, Answered
  <2> QED BY <2>2 DEF Calm, Open, Consuming, Renewing, Answered
<1> QED BY <1>1, <1>2, <1>3, <1>4 DEF ImportCommitStep, DeadMark

LEMMA RepairSplitDead ==
  ASSUME TypeInv, ShapeInv, HeldInv, DeadInv, NEW p \in Ops, RepairSplit(p)
  PROVE  DeadInv'
<1> SUFFICES ASSUME Clean' PROVE DeadMark' /\ \A q \in Ops : Calm(q)'
  BY DEF DeadInv
<1>1. RepairSplitStep(p)
  BY RepairSplitDoes DEF TypeInv
<1>0. Clean
  BY <1>1 DEF RepairSplitStep, Clean
<1>2. DeadMark /\ (\A q \in Ops : Calm(q)) /\ Placed(p) /\ Holds(p) /\ Held(p)
  BY <1>0 DEF DeadInv, TypeInv, ShapeInv, HeldInv, Clean
<1>3. Tidy /\ row.fp # 0 => Tidy'
  BY <1>1, TidyStays DEF RepairSplitStep, Tidy
<1>4. Calm(p)'
  BY <1>1, <1>2 DEF RepairSplitStep, Idle, DeadMark, Calm, Open
<1> QED BY <1>1, <1>2, <1>3, <1>4, DeadStays DEF RepairSplitStep

LEMMA NoopDead ==
  ASSUME TypeInv, ShapeInv, HeldInv, DeadInv, NEW p \in Ops, Noop(p)
  PROVE  DeadInv'
<1> SUFFICES ASSUME Clean' PROVE DeadMark' /\ \A q \in Ops : Calm(q)'
  BY DEF DeadInv
<1>1. NoopStep(p)
  BY NoopDoes DEF TypeInv
<1>0. Clean
  BY <1>1 DEF NoopStep, Clean
<1>2. DeadMark /\ (\A q \in Ops : Calm(q)) /\ Placed(p) /\ Holds(p) /\ Held(p)
  BY <1>0 DEF DeadInv, TypeInv, ShapeInv, HeldInv, Clean
<1>3. Tidy /\ row.fp # 0 => Tidy'
  BY <1>0, <1>1, TidyStays DEF NoopStep
<1>4. Calm(p)'
  BY <1>1, <1>2 DEF NoopStep, Idle, DeadMark, Calm, Open
<1> QED BY <1>1, <1>2, <1>3, <1>4, DeadStays DEF NoopStep

LEMMA RepublishDead ==
  ASSUME TypeInv, ShapeInv, HeldInv, DeadInv, NEW p \in Ops, Republish(p)
  PROVE  DeadInv'
<1> SUFFICES ASSUME Clean' PROVE DeadMark' /\ \A q \in Ops : Calm(q)'
  BY DEF DeadInv
<1>1. RepublishStep(p)
  BY RepublishDoes DEF TypeInv
<1>0. Clean
  BY <1>1 DEF RepublishStep, Clean
<1>2. DeadMark /\ (\A q \in Ops : Calm(q)) /\ Placed(p) /\ Holds(p) /\ Held(p)
  BY <1>0 DEF DeadInv, TypeInv, ShapeInv, HeldInv, Clean
<1>3. Tidy /\ row.fp # 0 => Tidy'
  BY <1>0, <1>1, TidyStays DEF RepublishStep
<1>4. Calm(p)'
  BY <1>1, <1>2 DEF RepublishStep, Idle, DeadMark, Calm, Open
<1> QED BY <1>1, <1>2, <1>3, <1>4, DeadStays DEF RepublishStep

LEMMA PublishSlotDead ==
  ASSUME TypeInv, ShapeInv, HeldInv, DeadInv, NEW p \in Ops, PublishSlot(p)
  PROVE  DeadInv'
<1> SUFFICES ASSUME Clean' PROVE DeadMark' /\ \A q \in Ops : Calm(q)'
  BY DEF DeadInv
<1>1. PublishSlotStep(p)
  BY PublishSlotDoes DEF TypeInv
<1>0. Clean
  BY <1>1 DEF PublishSlotStep, Clean
<1>2. DeadMark /\ (\A q \in Ops : Calm(q)) /\ Placed(p) /\ Holds(p) /\ Held(p)
  BY <1>0 DEF DeadInv, TypeInv, ShapeInv, HeldInv, Clean
<1>3. Tidy /\ row.fp # 0 => Tidy'
  BY <1>0, <1>1, TidyStays DEF PublishSlotStep
<1>4. Calm(p)'
  BY <1>1, <1>2 DEF PublishSlotStep, Idle, DeadMark, Calm, Open
<1> QED BY <1>1, <1>2, <1>3, <1>4, DeadStays DEF PublishSlotStep

LEMMA MarkDead ==
  ASSUME TypeInv, ShapeInv, HeldInv, DeadInv, NEW p \in Ops, Mark(p)
  PROVE  DeadInv'
<1> SUFFICES ASSUME Clean' PROVE DeadMark' /\ \A q \in Ops : Calm(q)'
  BY DEF DeadInv
<1>1. MarkStep(p)
  BY MarkDoes DEF TypeInv
<1>0. Clean
  BY <1>1 DEF MarkStep, Clean
<1>2. DeadMark /\ (\A q \in Ops : Calm(q)) /\ Placed(p) /\ Holds(p) /\ Held(p)
  BY <1>0 DEF DeadInv, TypeInv, ShapeInv, HeldInv, Clean
<1>3. Tidy /\ row.fp # 0 => Tidy'
  BY <1>0, <1>1, TidyStays DEF MarkStep
<1>4. Calm(p)'
  BY <1>1, <1>2 DEF MarkStep, Idle, DeadMark, Calm, Open
<1> QED BY <1>1, <1>2, <1>3, <1>4, DeadStays DEF MarkStep

LEMMA AdoptDead ==
  ASSUME TypeInv, ShapeInv, HeldInv, DeadInv, NEW p \in Ops, Adopt(p)
  PROVE  DeadInv'
<1> SUFFICES ASSUME Clean' PROVE DeadMark' /\ \A q \in Ops : Calm(q)'
  BY DEF DeadInv
<1>1. AdoptStep(p)
  BY AdoptDoes DEF TypeInv
<1>0. Clean
  BY <1>1 DEF AdoptStep, Clean
<1>2. DeadMark /\ (\A q \in Ops : Calm(q)) /\ Placed(p) /\ Holds(p) /\ Held(p)
  BY <1>0 DEF DeadInv, TypeInv, ShapeInv, HeldInv, Clean
<1>3. Tidy /\ row.fp # 0 => Tidy'
  <2>1. CASE kc' = kc
    BY <1>1, <2>1, TidyStays DEF AdoptStep
  <2>2. CASE op'[p].pc = "adopted" /\ op'[p].old = <<kc, prev>>
    <3>1. Tidy => kc = row.fp
      BY <1>1, <1>2, OpsAssumption DEF AdoptStep, Tidy, TypeInv, Placed, Transaction
    <3>2. op'[p].old[1] = kc /\ row'.fp = row.fp
      BY <1>1, <2>2 DEF AdoptStep
    <3> QED BY <2>2, <3>1, <3>2 DEF Tidy
  <2> QED BY <1>1, <2>1, <2>2 DEF AdoptStep
<1>4. Calm(p)'
  BY <1>1, <1>2 DEF AdoptStep, Idle, DeadMark, Calm, Open
<1> QED BY <1>1, <1>2, <1>3, <1>4, DeadStays DEF AdoptStep

LEMMA AdoptCommitDead ==
  ASSUME TypeInv, ShapeInv, HeldInv, DeadInv, NEW p \in Ops, AdoptCommit(p)
  PROVE  DeadInv'
<1> SUFFICES ASSUME Clean' PROVE DeadMark' /\ \A q \in Ops : Calm(q)'
  BY DEF DeadInv
<1>1. AdoptCommitStep(p)
  BY AdoptCommitDoes DEF TypeInv
<1>0. Clean
  BY <1>1 DEF AdoptCommitStep, Clean
<1>2. DeadMark /\ (\A q \in Ops : Calm(q)) /\ Placed(p) /\ Holds(p) /\ Held(p)
  BY <1>0 DEF DeadInv, TypeInv, ShapeInv, HeldInv, Clean
<1>3. kc' = op[p].seen /\ row'.fp = op[p].seen /\ ~row'.dead
  BY <1>1, <1>2 DEF AdoptCommitStep, Placed
<1>4. Tidy'
  BY <1>3 DEF Tidy
<1>5. ASSUME NEW q \in Ops, q # p PROVE Calm(q)'
  BY <1>1, <1>2, <1>3, <1>4, <1>5 DEF AdoptCommitStep, Calm
<1>6. Calm(p)'
  BY <1>1 DEF AdoptCommitStep, Idle, Calm, Open
<1> QED BY <1>3, <1>5, <1>6 DEF DeadMark

LEMMA AdoptUndoDead ==
  ASSUME TypeInv, ShapeInv, HeldInv, DeadInv, NEW p \in Ops, AdoptUndo(p)
  PROVE  DeadInv'
<1> SUFFICES ASSUME Clean' PROVE DeadMark' /\ \A q \in Ops : Calm(q)'
  BY DEF DeadInv
<1>1. AdoptUndoStep(p)
  BY AdoptUndoDoes DEF TypeInv
<1>0. Clean
  BY <1>1 DEF AdoptUndoStep, Clean
<1>2. DeadMark /\ (\A q \in Ops : Calm(q)) /\ Placed(p) /\ Holds(p) /\ Held(p)
  BY <1>0 DEF DeadInv, TypeInv, ShapeInv, HeldInv, Clean
<1>3. Tidy /\ row.fp # 0 => Tidy'
  <2>1. kc = op[p].seen /\ row.fp = op[p].row /\ op[p].row # op[p].seen
    BY <1>1, <1>2 DEF AdoptUndoStep, Placed, Holds
  <2>2. \A q \in Ops : op[q].pc = "adopted" => q = p
    BY <1>1 DEF AdoptUndoStep, TypeInv, Placed, Transaction
  <2> QED BY <1>1, <2>1, <2>2 DEF AdoptUndoStep, Tidy
<1>4. Calm(p)'
  BY <1>1, <1>2 DEF AdoptUndoStep, Idle, DeadMark, Calm, Open
<1> QED BY <1>1, <1>2, <1>3, <1>4, DeadStays DEF AdoptUndoStep

LEMMA DueDead ==
  ASSUME TypeInv, ShapeInv, HeldInv, DeadInv, NEW p \in Ops, Due(p)
  PROVE  DeadInv'
<1> SUFFICES ASSUME Clean' PROVE DeadMark' /\ \A q \in Ops : Calm(q)'
  BY DEF DeadInv
<1>1. DueStep(p)
  BY DueDoes DEF TypeInv
<1>0. Clean
  BY <1>1 DEF DueStep, Clean
<1>2. DeadMark /\ (\A q \in Ops : Calm(q)) /\ Placed(p) /\ Holds(p) /\ Held(p)
  BY <1>0 DEF DeadInv, TypeInv, ShapeInv, HeldInv, Clean
<1>3. Tidy /\ row.fp # 0 => Tidy'
  BY <1>0, <1>1, TidyStays DEF DueStep
<1>4. Calm(p)'
  BY <1>1, <1>2 DEF DueStep, Idle, DeadMark, Calm, Open
<1> QED BY <1>1, <1>2, <1>3, <1>4, DeadStays DEF DueStep

LEMMA ReadSlotDead ==
  ASSUME TypeInv, ShapeInv, HeldInv, DeadInv, NEW p \in Ops, ReadSlot(p)
  PROVE  DeadInv'
<1> SUFFICES ASSUME Clean' PROVE DeadMark' /\ \A q \in Ops : Calm(q)'
  BY DEF DeadInv
<1>1. ReadSlotStep(p)
  BY ReadSlotDoes DEF TypeInv
<1>0. Clean
  BY <1>1 DEF ReadSlotStep, Clean
<1>2. DeadMark /\ (\A q \in Ops : Calm(q)) /\ Placed(p) /\ Holds(p) /\ Held(p)
  BY <1>0 DEF DeadInv, TypeInv, ShapeInv, HeldInv, Clean
<1>3. Tidy /\ row.fp # 0 => Tidy'
  BY <1>0, <1>1, TidyStays DEF ReadSlotStep
<1>4. Calm(p)'
  BY <1>1, <1>2 DEF ReadSlotStep, Idle, DeadMark, Calm, Open
<1> QED BY <1>1, <1>2, <1>3, <1>4, DeadStays DEF ReadSlotStep

LEMMA RepairDriftDead ==
  ASSUME TypeInv, ShapeInv, HeldInv, DeadInv, NEW p \in Ops, RepairDrift(p)
  PROVE  DeadInv'
<1> SUFFICES ASSUME Clean' PROVE DeadMark' /\ \A q \in Ops : Calm(q)'
  BY DEF DeadInv
<1>1. RepairDriftStep(p)
  BY RepairDriftDoes DEF TypeInv
<1>0. Clean
  BY <1>1 DEF RepairDriftStep, Clean
<1>2. DeadMark /\ (\A q \in Ops : Calm(q)) /\ Placed(p) /\ Holds(p) /\ Held(p)
  BY <1>0 DEF DeadInv, TypeInv, ShapeInv, HeldInv, Clean
<1>3. DeadMark'
  <2>1. CASE row'.fp = row.fp /\ skew' = skew
    <3>1. Tidy => Tidy'
      BY <1>1, <2>1, TidyStays DEF RepairDriftStep
    <3> QED BY <1>1, <1>2, <2>1, <3>1 DEF RepairDriftStep, DeadMark
  <2>2. CASE row'.fp = op[p].cur /\ row.fp # op[p].cur /\ skew' = (skew \/ kc # op[p].cur)
    <3>1. Tidy => kc = row.fp
      BY <1>1, OpsAssumption DEF RepairDriftStep, Tidy, TypeInv, Placed, Transaction
    <3> QED BY <1>1, <1>2, <2>2, <3>1 DEF RepairDriftStep, DeadMark
  <2> QED BY <1>1, <2>1, <2>2 DEF RepairDriftStep
<1>4. Calm(p)'
  BY <1>1, <1>2 DEF RepairDriftStep, Idle, Calm, Open
<1>5. op[p].pc \in Consuming /\ used.stall = 0 /\ \A q \in Ops \ {p} : op'[q] = op[q]
  BY <1>0, <1>1 DEF RepairDriftStep, Consuming, Renewing, Answered, Clean
<1> QED BY <1>3, <1>4, <1>5, OthersCalm

LEMMA FindStashedDead ==
  ASSUME TypeInv, ShapeInv, HeldInv, DeadInv, NEW p \in Ops, FindStashed(p)
  PROVE  DeadInv'
<1> SUFFICES ASSUME Clean' PROVE DeadMark' /\ \A q \in Ops : Calm(q)'
  BY DEF DeadInv
<1>1. FindStashedStep(p)
  BY FindStashedDoes DEF TypeInv
<1>0. Clean
  BY <1>1 DEF FindStashedStep, Clean
<1>2. DeadMark /\ (\A q \in Ops : Calm(q)) /\ Placed(p) /\ Holds(p) /\ Held(p)
  BY <1>0 DEF DeadInv, TypeInv, ShapeInv, HeldInv, Clean
<1>3. Tidy /\ row.fp # 0 => Tidy'
  BY <1>0, <1>1, TidyStays DEF FindStashedStep
<1>4. Calm(p)'
  BY <1>1, <1>2 DEF FindStashedStep, Idle, DeadMark, Calm, Open
<1> QED BY <1>1, <1>2, <1>3, <1>4, DeadStays DEF FindStashedStep

LEMMA PostDead ==
  ASSUME TypeInv, ShapeInv, HeldInv, DeadInv, NEW p \in Ops, Post(p)
  PROVE  DeadInv'
<1> SUFFICES ASSUME Clean' PROVE DeadMark' /\ \A q \in Ops : Calm(q)'
  BY DEF DeadInv
<1>1. PostStep(p)
  BY PostDoes DEF TypeInv
<1>0. Clean
  BY <1>1 DEF PostStep, Clean
<1>2. DeadMark /\ (\A q \in Ops : Calm(q)) /\ Placed(p) /\ Holds(p) /\ Held(p)
  BY <1>0 DEF DeadInv, TypeInv, ShapeInv, HeldInv, Clean
<1>3. Tidy /\ row.fp # 0 => Tidy'
  BY <1>0, <1>1, TidyStays DEF PostStep
<1>4. Calm(p)'
  BY <1>1, <1>2 DEF PostStep, Idle, DeadMark, Calm, Open
<1>6. \A t \in Given : t \in valid' => t \in valid
  <2>1. issued \in Nat
    BY Numbers DEF TypeInv, TypeOK
  <2> QED BY <1>1, <2>1 DEF PostStep, Given
<1> QED BY <1>1, <1>2, <1>3, <1>4, <1>6, DeadStays DEF PostStep

LEMMA PostRejectedDead ==
  ASSUME TypeInv, ShapeInv, HeldInv, DeadInv, NEW p \in Ops, PostRejected(p)
  PROVE  DeadInv'
<1> SUFFICES ASSUME Clean' PROVE DeadMark' /\ \A q \in Ops : Calm(q)'
  BY DEF DeadInv
<1>1. PostRejectedStep(p)
  BY PostRejectedDoes DEF TypeInv
<1>0. Clean
  BY <1>1 DEF PostRejectedStep, Clean
<1>2. DeadMark /\ (\A q \in Ops : Calm(q)) /\ Placed(p) /\ Holds(p) /\ Held(p)
  BY <1>0 DEF DeadInv, TypeInv, ShapeInv, HeldInv, Clean
<1>3. Tidy /\ row.fp # 0 => Tidy'
  BY <1>0, <1>1, TidyStays DEF PostRejectedStep
<1>4. Calm(p)'
  BY <1>1, <1>2 DEF PostRejectedStep, Idle, DeadMark, Calm, Open
<1> QED BY <1>1, <1>2, <1>3, <1>4, DeadStays DEF PostRejectedStep

LEMMA PostFailedDead ==
  ASSUME TypeInv, ShapeInv, HeldInv, DeadInv, NEW p \in Ops, PostFailed(p)
  PROVE  DeadInv'
<1> SUFFICES ASSUME Clean' PROVE DeadMark' /\ \A q \in Ops : Calm(q)'
  BY DEF DeadInv
<1>1. PostFailedStep(p)
  BY PostFailedDoes DEF TypeInv
<1>0. Clean
  BY <1>1 DEF PostFailedStep, Clean
<1>2. DeadMark /\ (\A q \in Ops : Calm(q)) /\ Placed(p) /\ Holds(p) /\ Held(p)
  BY <1>0 DEF DeadInv, TypeInv, ShapeInv, HeldInv, Clean
<1>3. Tidy /\ row.fp # 0 => Tidy'
  BY <1>0, <1>1, TidyStays DEF PostFailedStep
<1>4. Calm(p)'
  BY <1>1, <1>2 DEF PostFailedStep, Idle, DeadMark, Calm, Open
<1> QED BY <1>1, <1>2, <1>3, <1>4, DeadStays DEF PostFailedStep

LEMMA RejectedDead ==
  ASSUME TypeInv, ShapeInv, HeldInv, DeadInv, NEW p \in Ops, Rejected(p)
  PROVE  DeadInv'
<1> SUFFICES ASSUME Clean' PROVE DeadMark' /\ \A q \in Ops : Calm(q)'
  BY DEF DeadInv
<1>1. RejectedStep(p)
  BY RejectedDoes DEF TypeInv
<1>0. Clean
  BY <1>1 DEF RejectedStep, Clean
<1>2. DeadMark /\ (\A q \in Ops : Calm(q)) /\ Placed(p) /\ Holds(p) /\ Held(p)
  BY <1>0 DEF DeadInv, TypeInv, ShapeInv, HeldInv, Clean
<1>3. Tidy /\ row.fp # 0 => Tidy'
  BY <1>0, <1>1, TidyStays DEF RejectedStep
<1>4. Calm(p)'
  BY <1>1, <1>2 DEF RejectedStep, Idle, DeadMark, Calm, Open, Tidy
<1> QED BY <1>1, <1>2, <1>3, <1>4, DeadStays DEF RejectedStep

LEMMA RecordRejectedDead ==
  ASSUME TypeInv, ShapeInv, HeldInv, DeadInv, NEW p \in Ops, RecordRejected(p)
  PROVE  DeadInv'
<1> SUFFICES ASSUME Clean' PROVE DeadMark' /\ \A q \in Ops : Calm(q)'
  BY DEF DeadInv
<1>1. RecordRejectedStep(p)
  BY RecordRejectedDoes DEF TypeInv
<1>0. Clean
  BY <1>1 DEF RecordRejectedStep, Clean
<1>2. DeadMark /\ (\A q \in Ops : Calm(q)) /\ Placed(p) /\ Holds(p) /\ Held(p)
  BY <1>0 DEF DeadInv, TypeInv, ShapeInv, HeldInv, Clean
<1>3. DeadMark'
  <2>1. CASE row'.dead = row.dead
    <3>1. row.fp \in Given
      BY ShapeFacts
    <3>2. Tidy => Tidy'
      BY <1>1, TidyStays DEF RecordRejectedStep
    <3> QED BY <1>1, <1>2, <2>1, <3>1, <3>2 DEF RecordRejectedStep, DeadMark
  <2>2. CASE row.fp = op[p].cur
    <3>1. Tidy' /\ op[p].cur \notin valid /\ op[p].cur # 0
      BY <1>1, <1>2, <2>2, TidyStays DEF RecordRejectedStep, Calm, Holds, Placed, Renewing
    <3> QED BY <1>1, <1>2, <2>2, <3>1 DEF RecordRejectedStep, DeadMark, Calm
  <2> QED BY <1>1, <2>1, <2>2 DEF RecordRejectedStep
<1>4. Calm(p)'
  BY <1>1, <1>2 DEF RecordRejectedStep, Idle, Calm, Open
<1>5. op[p].pc \in Consuming /\ used.stall = 0 /\ \A q \in Ops \ {p} : op'[q] = op[q]
  BY <1>0, <1>1 DEF RecordRejectedStep, Consuming, Renewing, Answered, Clean
<1> QED BY <1>3, <1>4, <1>5, OthersCalm

LEMMA GotSuccessorDead ==
  ASSUME TypeInv, ShapeInv, HeldInv, DeadInv, NEW p \in Ops, GotSuccessor(p)
  PROVE  DeadInv'
<1> SUFFICES ASSUME Clean' PROVE DeadMark' /\ \A q \in Ops : Calm(q)'
  BY DEF DeadInv
<1>1. GotSuccessorStep(p)
  BY GotSuccessorDoes DEF TypeInv
<1>0. Clean
  BY <1>1 DEF GotSuccessorStep, Clean
<1>2. DeadMark /\ (\A q \in Ops : Calm(q)) /\ Placed(p) /\ Holds(p) /\ Held(p)
  BY <1>0 DEF DeadInv, TypeInv, ShapeInv, HeldInv, Clean
<1>3. Tidy /\ row.fp # 0 => Tidy'
  BY <1>0, <1>1, TidyStays DEF GotSuccessorStep
<1>4. Calm(p)'
  BY <1>1, <1>2 DEF GotSuccessorStep, Idle, DeadMark, Calm, Open
<1> QED BY <1>1, <1>2, <1>3, <1>4, DeadStays DEF GotSuccessorStep

LEMMA PersistBeginDead ==
  ASSUME TypeInv, ShapeInv, HeldInv, DeadInv, NEW p \in Ops, PersistBegin(p)
  PROVE  DeadInv'
<1> SUFFICES ASSUME Clean' PROVE DeadMark' /\ \A q \in Ops : Calm(q)'
  BY DEF DeadInv
<1>1. PersistBeginStep(p)
  BY PersistBeginDoes DEF TypeInv
<1>0. Clean
  BY <1>1 DEF PersistBeginStep, Clean
<1>2. DeadMark /\ (\A q \in Ops : Calm(q)) /\ Placed(p) /\ Holds(p) /\ Held(p)
  BY <1>0 DEF DeadInv, TypeInv, ShapeInv, HeldInv, Clean
<1>3. Tidy /\ row.fp # 0 => Tidy'
  BY <1>0, <1>1, TidyStays DEF PersistBeginStep
<1>4. Calm(p)'
  BY <1>1, <1>2 DEF PersistBeginStep, Idle, DeadMark, Calm, Open
<1> QED BY <1>1, <1>2, <1>3, <1>4, DeadStays DEF PersistBeginStep

LEMMA PersistWriteDead ==
  ASSUME TypeInv, ShapeInv, HeldInv, DeadInv, NEW p \in Ops, PersistWrite(p)
  PROVE  DeadInv'
<1> SUFFICES ASSUME Clean' PROVE DeadMark' /\ \A q \in Ops : Calm(q)'
  BY DEF DeadInv
<1>1. PersistWriteStep(p)
  BY PersistWriteDoes DEF TypeInv
<1>0. Clean
  BY <1>1 DEF PersistWriteStep, Clean
<1>2. DeadMark /\ (\A q \in Ops : Calm(q)) /\ Placed(p) /\ Holds(p) /\ Held(p)
  BY <1>0 DEF DeadInv, TypeInv, ShapeInv, HeldInv, Clean
<1>3. DeadMark'
  <2>1. row.fp = op[p].cur /\ op[p].pc \in Open
    BY <1>1, <1>2 DEF PersistWriteStep, Holds, Open
  <2> QED BY <1>1, <1>2, <2>1 DEF PersistWriteStep, DeadMark, Calm
<1>4. Calm(p)'
  BY <1>1, <1>2 DEF PersistWriteStep, Idle, Calm, Open
<1>5. op[p].pc \in Consuming /\ used.stall = 0 /\ \A q \in Ops \ {p} : op'[q] = op[q]
  BY <1>0, <1>1 DEF PersistWriteStep, Consuming, Renewing, Answered, Clean
<1> QED BY <1>3, <1>4, <1>5, OthersCalm

LEMMA PersistCommitDead ==
  ASSUME TypeInv, ShapeInv, HeldInv, DeadInv, NEW p \in Ops, PersistCommit(p)
  PROVE  DeadInv'
<1> SUFFICES ASSUME Clean' PROVE DeadMark' /\ \A q \in Ops : Calm(q)'
  BY DEF DeadInv
<1>1. PersistCommitStep(p)
  BY PersistCommitDoes DEF TypeInv
<1>0. Clean
  BY <1>1 DEF PersistCommitStep, Clean
<1>2. DeadMark /\ (\A q \in Ops : Calm(q)) /\ Placed(p) /\ Holds(p) /\ Held(p)
  BY <1>0 DEF DeadInv, TypeInv, ShapeInv, HeldInv, Clean
<1>3. DeadMark'
  <2>1. row.fp = op[p].cur /\ op[p].pc \in Open
    BY <1>1, <1>2 DEF PersistCommitStep, Holds, Open
  <2> QED BY <1>1, <1>2, <2>1 DEF PersistCommitStep, DeadMark, Calm
<1>4. Calm(p)'
  BY <1>1, <1>2 DEF PersistCommitStep, Idle, Calm, Open
<1>5. op[p].pc \in Consuming /\ used.stall = 0 /\ \A q \in Ops \ {p} : op'[q] = op[q]
  BY <1>0, <1>1 DEF PersistCommitStep, Consuming, Renewing, Answered, Clean
<1> QED BY <1>3, <1>4, <1>5, OthersCalm

LEMMA PersistLockLostDead ==
  ASSUME TypeInv, ShapeInv, HeldInv, DeadInv, NEW p \in Ops, PersistLockLost(p)
  PROVE  DeadInv'
<1> SUFFICES ASSUME Clean' PROVE DeadMark' /\ \A q \in Ops : Calm(q)'
  BY DEF DeadInv
<1>1. PersistLockLostStep(p)
  BY PersistLockLostDoes DEF TypeInv
<1>0. Clean
  BY <1>1 DEF PersistLockLostStep, Clean
<1>2. DeadMark /\ (\A q \in Ops : Calm(q)) /\ Placed(p) /\ Holds(p) /\ Held(p)
  BY <1>0 DEF DeadInv, TypeInv, ShapeInv, HeldInv, Clean
<1>3. Tidy /\ row.fp # 0 => Tidy'
  BY <1>0, <1>1, TidyStays DEF PersistLockLostStep
<1>4. Calm(p)'
  BY <1>1, <1>2 DEF PersistLockLostStep, Idle, DeadMark, Calm, Open
<1> QED BY <1>1, <1>2, <1>3, <1>4, DeadStays DEF PersistLockLostStep

LEMMA PersistSaveDead ==
  ASSUME TypeInv, ShapeInv, HeldInv, DeadInv, NEW p \in Ops, PersistSave(p)
  PROVE  DeadInv'
<1> SUFFICES ASSUME Clean' PROVE DeadMark' /\ \A q \in Ops : Calm(q)'
  BY DEF DeadInv
<1>1. PersistSaveStep(p)
  BY PersistSaveDoes DEF TypeInv
<1>0. Clean
  BY <1>1 DEF PersistSaveStep, Clean
<1>2. DeadMark /\ (\A q \in Ops : Calm(q)) /\ Placed(p) /\ Holds(p) /\ Held(p)
  BY <1>0 DEF DeadInv, TypeInv, ShapeInv, HeldInv, Clean
<1>3. DeadMark'
  <2>1. row.fp = op[p].cur /\ op[p].pc \in Open
    BY <1>1, <1>2 DEF PersistSaveStep, Holds, Open
  <2> QED BY <1>1, <1>2, <2>1 DEF PersistSaveStep, DeadMark, Calm
<1>4. Calm(p)'
  BY <1>1, <1>2 DEF PersistSaveStep, Idle, Calm, Open
<1>5. op[p].pc \in Consuming /\ used.stall = 0 /\ \A q \in Ops \ {p} : op'[q] = op[q]
  BY <1>0, <1>1 DEF PersistSaveStep, Consuming, Renewing, Answered, Clean
<1> QED BY <1>3, <1>4, <1>5, OthersCalm

LEMMA PersistUndoDead ==
  ASSUME TypeInv, ShapeInv, HeldInv, DeadInv, NEW p \in Ops, PersistUndo(p)
  PROVE  DeadInv'
<1> SUFFICES ASSUME Clean' PROVE DeadMark' /\ \A q \in Ops : Calm(q)'
  BY DEF DeadInv
<1>1. PersistUndoStep(p)
  BY PersistUndoDoes DEF TypeInv
<1>0. Clean
  BY <1>1 DEF PersistUndoStep, Clean
<1>2. DeadMark /\ (\A q \in Ops : Calm(q)) /\ Placed(p) /\ Holds(p) /\ Held(p)
  BY <1>0 DEF DeadInv, TypeInv, ShapeInv, HeldInv, Clean
<1>3. DeadMark'
  <2>1. row.fp = op[p].cur /\ op[p].pc \in Open
    BY <1>1, <1>2 DEF PersistUndoStep, Holds, Open
  <2> QED BY <1>1, <1>2, <2>1 DEF PersistUndoStep, DeadMark, Calm
<1>4. Calm(p)'
  BY <1>1, <1>2 DEF PersistUndoStep, Idle, Calm, Open
<1>5. op[p].pc \in Consuming /\ used.stall = 0 /\ \A q \in Ops \ {p} : op'[q] = op[q]
  BY <1>0, <1>1 DEF PersistUndoStep, Consuming, Renewing, Answered, Clean
<1> QED BY <1>3, <1>4, <1>5, OthersCalm

LEMMA StashSuccessorDead ==
  ASSUME TypeInv, ShapeInv, HeldInv, DeadInv, NEW p \in Ops, StashSuccessor(p)
  PROVE  DeadInv'
<1> SUFFICES ASSUME Clean' PROVE DeadMark' /\ \A q \in Ops : Calm(q)'
  BY DEF DeadInv
<1>1. StashSuccessorStep(p)
  BY StashSuccessorDoes DEF TypeInv
<1>0. Clean
  BY <1>1 DEF StashSuccessorStep, Clean
<1>2. DeadMark /\ (\A q \in Ops : Calm(q)) /\ Placed(p) /\ Holds(p) /\ Held(p)
  BY <1>0 DEF DeadInv, TypeInv, ShapeInv, HeldInv, Clean
<1>3. DeadMark'
  <2>1. Tidy => Tidy'
    BY <1>1, TidyStays DEF StashSuccessorStep
  <2>2. \A x \in stash' : x \in stash \/ x.from = op[p].cur
    BY <1>1 DEF StashSuccessorStep
  <2> QED BY <1>1, <1>2, <2>1, <2>2 DEF StashSuccessorStep, DeadMark, Calm, Open
<1>4. Calm(p)'
  BY <1>1, <1>2 DEF StashSuccessorStep, Idle, Calm, Open
<1>5. op[p].pc \in Consuming /\ used.stall = 0 /\ \A q \in Ops \ {p} : op'[q] = op[q]
  BY <1>0, <1>1 DEF StashSuccessorStep, Consuming, Renewing, Answered, Clean
<1> QED BY <1>3, <1>4, <1>5, OthersCalm

LEMMA UnstashDead ==
  ASSUME TypeInv, ShapeInv, HeldInv, DeadInv, NEW p \in Ops, Unstash(p)
  PROVE  DeadInv'
<1> SUFFICES ASSUME Clean' PROVE DeadMark' /\ \A q \in Ops : Calm(q)'
  BY DEF DeadInv
<1>1. UnstashStep(p)
  BY UnstashDoes DEF TypeInv
<1>0. Clean
  BY <1>1 DEF UnstashStep, Clean
<1>2. DeadMark /\ (\A q \in Ops : Calm(q)) /\ Placed(p) /\ Holds(p) /\ Held(p)
  BY <1>0 DEF DeadInv, TypeInv, ShapeInv, HeldInv, Clean
<1>3. Tidy /\ row.fp # 0 => Tidy'
  BY <1>0, <1>1, TidyStays DEF UnstashStep
<1>4. Calm(p)'
  BY <1>1, <1>2 DEF UnstashStep, Idle, DeadMark, Calm, Open
<1> QED BY <1>1, <1>2, <1>3, <1>4, DeadStays DEF UnstashStep

LEMMA PublishCasDead ==
  ASSUME TypeInv, ShapeInv, HeldInv, DeadInv, NEW p \in Ops, PublishCas(p)
  PROVE  DeadInv'
<1> SUFFICES ASSUME Clean' PROVE DeadMark' /\ \A q \in Ops : Calm(q)'
  BY DEF DeadInv
<1>1. PublishCasStep(p)
  BY PublishCasDoes DEF TypeInv
<1>0. Clean
  BY <1>1 DEF PublishCasStep, Clean
<1>2. DeadMark /\ (\A q \in Ops : Calm(q)) /\ Placed(p) /\ Holds(p) /\ Held(p)
  BY <1>0 DEF DeadInv, TypeInv, ShapeInv, HeldInv, Clean
<1>3. Tidy /\ row.fp # 0 => Tidy'
  BY <1>0, <1>1, TidyStays DEF PublishCasStep
<1>4. Calm(p)'
  BY <1>1, <1>2 DEF PublishCasStep, Idle, DeadMark, Calm, Open
<1> QED BY <1>1, <1>2, <1>3, <1>4, DeadStays DEF PublishCasStep

LEMMA PublishRenameDead ==
  ASSUME TypeInv, ShapeInv, HeldInv, DeadInv, NEW p \in Ops, PublishRename(p)
  PROVE  DeadInv'
<1> SUFFICES ASSUME Clean' PROVE DeadMark' /\ \A q \in Ops : Calm(q)'
  BY DEF DeadInv
<1>1. PublishRenameStep(p)
  BY PublishRenameDoes DEF TypeInv
<1>0. Clean
  BY <1>1 DEF PublishRenameStep, Clean
<1>2. DeadMark /\ (\A q \in Ops : Calm(q)) /\ Placed(p) /\ Holds(p) /\ Held(p)
  BY <1>0 DEF DeadInv, TypeInv, ShapeInv, HeldInv, Clean
<1>3. Tidy /\ row.fp # 0 => Tidy'
  BY <1>0, <1>1, TidyStays DEF PublishRenameStep
<1>4. Calm(p)'
  BY <1>1, <1>2 DEF PublishRenameStep, Idle, DeadMark, Calm, Open
<1> QED BY <1>1, <1>2, <1>3, <1>4, DeadStays DEF PublishRenameStep

LEMMA PublishVerifyDead ==
  ASSUME TypeInv, ShapeInv, HeldInv, DeadInv, NEW p \in Ops, PublishVerify(p)
  PROVE  DeadInv'
<1> SUFFICES ASSUME Clean' PROVE DeadMark' /\ \A q \in Ops : Calm(q)'
  BY DEF DeadInv
<1>1. PublishVerifyStep(p)
  BY PublishVerifyDoes DEF TypeInv
<1>0. Clean
  BY <1>1 DEF PublishVerifyStep, Clean
<1>2. DeadMark /\ (\A q \in Ops : Calm(q)) /\ Placed(p) /\ Holds(p) /\ Held(p)
  BY <1>0 DEF DeadInv, TypeInv, ShapeInv, HeldInv, Clean
<1>3. Tidy /\ row.fp # 0 => Tidy'
  BY <1>0, <1>1, TidyStays DEF PublishVerifyStep
<1>4. Calm(p)'
  BY <1>1, <1>2 DEF PublishVerifyStep, Idle, DeadMark, Calm, Open
<1> QED BY <1>1, <1>2, <1>3, <1>4, DeadStays DEF PublishVerifyStep

LEMMA CrashDead ==
  ASSUME TypeInv, ShapeInv, HeldInv, DeadInv, NEW p \in Ops, Crash(p)
  PROVE  DeadInv'
<1> SUFFICES ASSUME Clean' PROVE DeadMark' /\ \A q \in Ops : Calm(q)'
  BY DEF DeadInv
<1>1. CrashStep(p)
  BY CrashDoes DEF TypeInv
<1>0. Clean /\ op[p].pc # "adopted"
  BY <1>1 DEF CrashStep, Clean
<1>2. DeadMark /\ (\A q \in Ops : Calm(q)) /\ Placed(p) /\ Holds(p) /\ Held(p)
  BY <1>0 DEF DeadInv, TypeInv, ShapeInv, HeldInv, Clean
<1>3. Tidy /\ row.fp # 0 => Tidy'
  BY <1>0, <1>1, TidyStays DEF CrashStep
<1>4. Calm(p)'
  BY <1>1, <1>2 DEF CrashStep, Idle, DeadMark, Calm, Open
<1> QED BY <1>1, <1>2, <1>3, <1>4, DeadStays DEF CrashStep

LEMMA LoseDead ==
  ASSUME TypeInv, NEW p \in Ops, LoseSwitchLock(p) \/ LoseAuthLock(p)
  PROVE  DeadInv'
  BY LoseHeld DEF DeadInv, Clean
LEMMA EnvDead ==
  ASSUME TypeInv, ShapeInv, DeadInv, CodexStart \/ CodexExit \/ CodexRotate \/ CodexLogin \/ CodexLeave
  PROVE  DeadInv'
<1>1. row' = row /\ kc' = kc /\ stash' = stash /\ op' = op /\ torn' = torn /\ skew' = skew /\ used'.stall = used.stall
  BY DEF CodexStart, CodexExit, CodexRotate, CodexLogin, CodexLeave, TypeInv, TypeOK, Bounds
<1>2. issued \in Nat /\ row.fp \in Given
  BY Numbers, ShapeFacts DEF TypeInv, TypeOK
<1>3. row.fp \in valid' => row.fp \in valid
  BY <1>2 DEF CodexStart, CodexExit, CodexRotate, CodexLogin, CodexLeave, Given
<1>4. Tidy' = Tidy /\ (Clean' => Clean)
  BY <1>1 DEF Tidy, Clean
<1>5. DeadMark => DeadMark'
  BY <1>1, <1>3, <1>4 DEF DeadMark
<1>6. \A q \in Ops : Calm(q) => Calm(q)'
  BY <1>1, <1>4 DEF Calm
<1> QED BY <1>4, <1>5, <1>6 DEF DeadInv

LEMMA DeadStep == TypeInv /\ ShapeInv /\ HeldInv /\ DeadInv /\ [Next]_vars => DeadInv'
<1> SUFFICES ASSUME TypeInv, ShapeInv, HeldInv, DeadInv, [Next]_vars PROVE DeadInv'
  OBVIOUS
<1>1. CASE UNCHANGED vars
  BY <1>1 DEF vars, slotVars, liveVars, locks, provider, history, DeadInv, DeadMark, Calm, Clean, Tidy
<1>2. CASE CodexStart \/ CodexExit \/ CodexRotate \/ CodexLogin \/ CodexLeave
  BY <1>2, EnvDead
<1>3. ASSUME NEW p \in Ops, Start(p) \/ Crash(p) \/ LoseSwitchLock(p) \/ LoseAuthLock(p) PROVE DeadInv'
  BY <1>3, StartDead, CrashDead, LoseDead
<1>4. ASSUME NEW p \in Ops, Attribute(p) PROVE DeadInv'
  BY <1>4, ObserveLiveDead, ReadFirstDead, ReadSecondDead, ImportNewDead, ImportCommitDead,
     RepairSplitDead, NoopDead, RepublishDead, PublishSlotDead, MarkDead, AdoptDead,
     AdoptCommitDead, AdoptUndoDead, DueDead DEF Attribute
<1>5. ASSUME NEW p \in Ops, Consume(p) PROVE DeadInv'
  BY <1>5, ReadSlotDead, RepairDriftDead, FindStashedDead, PostDead, PostRejectedDead,
     PostFailedDead, RejectedDead, RecordRejectedDead, GotSuccessorDead, PersistBeginDead,
     PersistWriteDead, PersistCommitDead, PersistLockLostDead, PersistSaveDead,
     PersistUndoDead, StashSuccessorDead, UnstashDead DEF Consume
<1>6. ASSUME NEW p \in Ops, Publish(p) PROVE DeadInv'
  BY <1>6, PublishCasDead, PublishRenameDead, PublishVerifyDead DEF Publish
<1> QED BY <1>1, <1>2, <1>3, <1>4, <1>5, <1>6 DEF Next

LEMMA InitDead == Init => DeadInv
  BY DEF Init, DeadInv, DeadMark, Calm, Idle, Open

\* DeadIsTrue: a slot is called dead only if the provider would refuse its document.
THEOREM DeadIsAlwaysTrue == Spec => []DeadIsTrue
<1>1. DeadInv => DeadIsTrue
  BY DEF DeadInv, DeadMark, Clean, DeadIsTrue
<1> QED BY <1>1, InitType, TypeStep, InitShape, ShapeStep, InitHeld, HeldStep, InitDead, DeadStep, PTL DEF Spec

\* SlotKept: HeadKept, SuccessorKept and DeadIsTrue.
THEOREM SlotAlwaysKept == Spec => []SlotKept
<1>1. HeadKept /\ SuccessorKept /\ DeadIsTrue => SlotKept
  BY DEF SlotKept
<1> QED BY <1>1, HeadAlwaysKept, SuccessorAlwaysKept, DeadIsAlwaysTrue, PTL

-----------------------------------------------------------------------------
(* The sixth layer: what was spent is not taken up again, while no holder stalled and no       *)
(* process died between a write and its commit                                                 *)

\* A token that some arrived successor followed as head.
Followed(v) == \E s \in arrived \cap heads : <<v, s>> \in grew
\* What may become the row's token by a drift repair, what is or may again be :prev, and what :prev
\* is once no Keychain write is open.
Candidate(c) == c = kc \/ \E q \in Ops : \/ op[q].pc = "repair" /\ c = op[q].cur
                                         \/ op[q].pc = "adopted" /\ c = op[q].old[1]
Former(c)    == c = prev \/ \E q \in Ops : op[q].pc = "adopted" /\ c = op[q].old[2]
Standing(c)  == \/ c = prev /\ \A q \in Ops : op[q].pc # "adopted"
                \/ \E q \in Ops : op[q].pc = "adopted" /\ c = op[q].old[2]
\* Nothing known follows the row's token, so far as it is a head.
Latest ==
    /\ ~Followed(row.fp)
    /\ \A h \in heads : <<row.fp, h>> \notin edges
    /\ \A x \in stash : x.from = row.fp => x.to \notin heads
\* A drift repair finds no former head.
Ahead ==
    /\ \A c : Candidate(c) /\ c \notin heads \cup {0} => ~Former(c)
    /\ Standing(row.fp) => \A c : Candidate(c) => c = row.fp \/ c \notin heads
Once(p) ==
    /\ op[p].pc \in Open /\ row.fp = op[p].cur => op[p].suc \notin heads
    /\ op[p].pc \in {"find", "post"} => ~Followed(op[p].cur)
    /\ op[p].pc \in {"repair", "begin"} /\ row.fp = op[p].cur => Tidy
    /\ op[p].pc = "find" /\ row.fp = op[p].cur /\ (\E x \in stash : x.from = op[p].cur) => Tidy
    /\ op[p].pc = "write" => kc = op[p].cur
OnceInv == Clean => Latest /\ Ahead /\ \A p \in Ops : Once(p)

\* A step of p that leaves the row alone.
LEMMA OnceStays ==
  ASSUME TypeInv, Latest, \A q \in Ops : Once(q), NEW p \in Ops, \A q \in Ops \ {p} : op'[q] = op[q],
         row'.fp = row.fp, edges' = edges, heads' = heads, \A v : Followed(v)' => Followed(v),
         Tidy /\ row.fp # 0 => Tidy', stash' \subseteq stash, kc' = kc \/ db \in {None, p}, Once(p)'
  PROVE  Latest' /\ \A q \in Ops : Once(q)'
<1>1. Latest'
  BY DEF Latest
<1>2. ASSUME NEW q \in Ops, q # p PROVE Once(q)'
  <2>1. op[q].pc \in {"repair", "begin", "find"} => op[q].cur # 0
    BY DEF TypeInv, Placed, Renewing, Answered
  <2>2. op[q].pc = "write" => kc' = kc
    BY <1>2, OpsAssumption DEF TypeInv, Placed, Transaction
  <2>3. op'[q] = op[q] /\ Once(q)
    BY <1>2
  <2> QED BY <2>1, <2>2, <2>3 DEF Once
<1> QED BY <1>1, <1>2
LEMMA AheadStays ==
  ASSUME Ahead, NEW p \in Ops, row'.fp = row.fp, heads' = heads, prev' = prev, \A q \in Ops \ {p} : op'[q] = op[q],
         op[p].pc # "adopted", op'[p].pc # "adopted", kc' = kc \/ kc' = row.fp, row.fp # 0 => row.fp \in heads,
         op'[p].pc = "repair" => op'[p].cur = kc \/ (op[p].pc = "repair" /\ op'[p].cur = op[p].cur)
  PROVE  Ahead'
<1>1. \A c : Candidate(c)' => Candidate(c) \/ c = row.fp
  BY DEF Candidate
<1>2. \A c : (Former(c)' => Former(c)) /\ (Standing(c)' => Standing(c))
  BY DEF Former, Standing
<1> QED BY <1>1, <1>2 DEF Ahead
\* A step that leaves the slot and its history alone.
LEMMA QuietOnce ==
  ASSUME TypeInv, ShapeInv, Latest, Ahead, \A q \in Ops : Once(q), NEW p \in Ops, Still,
         \A q \in Ops \ {p} : op'[q] = op[q], op[p].pc # "adopted", op'[p].pc # "adopted",
         op'[p].pc = "repair" => op'[p].cur = kc \/ (op[p].pc = "repair" /\ op'[p].cur = op[p].cur), Once(p)'
  PROVE  Latest' /\ Ahead' /\ \A q \in Ops : Once(q)'
<1>1. \A v : Followed(v)' = Followed(v)
  BY DEF Still, Followed
<1>2. Tidy => Tidy'
  BY TidyStays DEF Still
<1>3. row.fp # 0 => row.fp \in heads
  BY ShapeFacts
<1> QED BY <1>1, <1>2, <1>3, OnceStays, AheadStays DEF Still
\* While one process consumes, the others have nothing to do once.
LEMMA OthersOnce ==
  ASSUME TypeInv, HeldInv, used.stall = 0, NEW p \in Ops, op[p].pc \in Consuming, NEW q \in Ops, q # p, op'[q] = op[q]
  PROVE  Once(q)'
<1>1. op[q].pc \notin Consuming
  BY SoleConsumer
<1> QED BY <1>1 DEF Once, Open, Consuming, Renewing, Answered
\* A token that was no head has no arrived successor and no edges.
LEMMA NoHead ==
  ASSUME ShapeInv, NEW n, n \notin heads
  PROVE  /\ ~Followed(n) /\ \A e \in edges : e[1] # n
         /\ \A x \in stash : x.from # n
<1>1. \A e \in edges : e[1] # n
  BY DEF ShapeInv, Ordered
<1>2. \A x \in stash : x.from # n
  BY DEF ShapeInv, Ordered
<1>3. ASSUME NEW s \in arrived, <<n, s>> \in grew PROVE FALSE
  <2>1. <<n, s>>[2] \in arrived => <<n, s>>[1] \in heads
    BY <1>3 DEF ShapeInv, Ordered
  <2> QED BY <1>3, <2>1
<1> QED BY <1>1, <1>2, <1>3 DEF Followed
\* The row moves to a token that was no head.
LEMMA LatestMoves ==
  ASSUME ShapeInv, NEW n, n \notin heads, row.fp # n, row'.fp = n, heads' = heads \cup {n}, grew' = grew, arrived' = arrived,
         stash' = stash, edges' = edges \/ edges' = edges \cup {<<row.fp, n>>}
  PROVE  Latest'
<1>1. ~Followed(n) /\ (\A e \in edges : e[1] # n) /\ \A x \in stash : x.from # n
  BY NoHead
<1>2. \A s \in arrived : <<n, s>> \in grew => s # n
  <2>1. ASSUME <<n, n>> \in grew PROVE FALSE
    <3>1. <<n, n>>[1] < <<n, n>>[2] /\ <<n, n>>[2] \in Given
      BY <2>1 DEF ShapeInv, Ordered
    <3> QED BY <3>1 DEF Given
  <2> QED BY <2>1
<1>3. ~Followed(n)'
  BY <1>1, <1>2 DEF Followed
<1>4. \A e \in edges' : e[1] # n
  BY <1>1
<1> QED BY <1>1, <1>3, <1>4 DEF Latest

\* With no Keychain write open and no repair begun, only the item and :prev matter.
LEMMA AheadAlone ==
  ASSUME \A q \in Ops : op'[q].pc \notin {"adopted", "repair"},
         kc' \notin heads' \cup {0} => kc' # prev', prev' = row'.fp => kc' = row'.fp \/ kc' \notin heads'
  PROVE  Ahead'
<1>1. \A c : (Candidate(c)' => c = kc') /\ (Former(c)' => c = prev') /\ (Standing(c)' => c = prev')
  BY DEF Candidate, Former, Standing
<1> QED BY <1>1 DEF Ahead
LEMMA AloneAhead ==
  ASSUME Ahead, \A q \in Ops : op[q].pc # "adopted"
  PROVE  (kc \notin heads \cup {0} => kc # prev) /\ (prev = row.fp => kc = row.fp \/ kc \notin heads)
<1>1. Candidate(kc) /\ Former(prev) /\ Standing(prev)
  BY DEF Candidate, Former, Standing
<1> QED BY <1>1 DEF Ahead

LEMMA StartOnce ==
  ASSUME TypeInv, ShapeInv, HeldInv, OnceInv, NEW p \in Ops, Start(p)
  PROVE  OnceInv'
<1> SUFFICES ASSUME Clean' PROVE Latest' /\ Ahead' /\ \A q \in Ops : Once(q)'
  BY DEF OnceInv
<1>1. StartStep(p)
  BY StartDoes DEF TypeInv
<1>0. Clean
  BY <1>1 DEF StartStep, Clean
<1>2. Latest /\ Ahead /\ (\A q \in Ops : Once(q)) /\ Placed(p) /\ Holds(p) /\ Held(p)
  BY <1>0 DEF OnceInv, TypeInv, ShapeInv, HeldInv, Clean
<1>3. Once(p)'
  BY <1>1, <1>2 DEF StartStep, Idle, Once, Open
<1> QED BY <1>0, <1>1, <1>2, <1>3, QuietOnce DEF StartStep, Idle, Still

LEMMA ObserveLiveOnce ==
  ASSUME TypeInv, ShapeInv, HeldInv, OnceInv, NEW p \in Ops, ObserveLive(p)
  PROVE  OnceInv'
<1> SUFFICES ASSUME Clean' PROVE Latest' /\ Ahead' /\ \A q \in Ops : Once(q)'
  BY DEF OnceInv
<1>1. ObserveLiveStep(p)
  BY ObserveLiveDoes DEF TypeInv
<1>0. Clean
  BY <1>1 DEF ObserveLiveStep, Clean
<1>2. Latest /\ Ahead /\ (\A q \in Ops : Once(q)) /\ Placed(p) /\ Holds(p) /\ Held(p)
  BY <1>0 DEF OnceInv, TypeInv, ShapeInv, HeldInv, Clean
<1>3. Once(p)'
  BY <1>1, <1>2 DEF ObserveLiveStep, Idle, Once, Open
<1> QED BY <1>0, <1>1, <1>2, <1>3, QuietOnce DEF ObserveLiveStep, Idle, Still

LEMMA ReadFirstOnce ==
  ASSUME TypeInv, ShapeInv, HeldInv, OnceInv, NEW p \in Ops, ReadFirst(p)
  PROVE  OnceInv'
<1> SUFFICES ASSUME Clean' PROVE Latest' /\ Ahead' /\ \A q \in Ops : Once(q)'
  BY DEF OnceInv
<1>1. ReadFirstStep(p)
  BY ReadFirstDoes DEF TypeInv
<1>0. Clean
  BY <1>1 DEF ReadFirstStep, Clean
<1>2. Latest /\ Ahead /\ (\A q \in Ops : Once(q)) /\ Placed(p) /\ Holds(p) /\ Held(p)
  BY <1>0 DEF OnceInv, TypeInv, ShapeInv, HeldInv, Clean
<1>3. Once(p)'
  BY <1>1, <1>2 DEF ReadFirstStep, Idle, Once, Open
<1> QED BY <1>0, <1>1, <1>2, <1>3, QuietOnce DEF ReadFirstStep, Idle, Still

LEMMA ReadSecondOnce ==
  ASSUME TypeInv, ShapeInv, HeldInv, OnceInv, NEW p \in Ops, ReadSecond(p)
  PROVE  OnceInv'
<1> SUFFICES ASSUME Clean' PROVE Latest' /\ Ahead' /\ \A q \in Ops : Once(q)'
  BY DEF OnceInv
<1>1. ReadSecondStep(p)
  BY ReadSecondDoes DEF TypeInv
<1>0. Clean
  BY <1>1 DEF ReadSecondStep, Clean
<1>2. Latest /\ Ahead /\ (\A q \in Ops : Once(q)) /\ Placed(p) /\ Holds(p) /\ Held(p)
  BY <1>0 DEF OnceInv, TypeInv, ShapeInv, HeldInv, Clean
<1>3. Once(p)'
  BY <1>1, <1>2 DEF ReadSecondStep, Idle, Once, Open
<1> QED BY <1>0, <1>1, <1>2, <1>3, QuietOnce DEF ReadSecondStep, Idle, Still

LEMMA ImportNewOnce ==
  ASSUME TypeInv, ShapeInv, HeldInv, OnceInv, NEW p \in Ops, ImportNew(p)
  PROVE  OnceInv'
<1> SUFFICES ASSUME Clean' PROVE Latest' /\ Ahead' /\ \A q \in Ops : Once(q)'
  BY DEF OnceInv
<1>1. ImportNewStep(p)
  BY ImportNewDoes DEF TypeInv
<1>0. Clean
  BY <1>1 DEF ImportNewStep, Clean
<1>2. Latest /\ Ahead /\ (\A q \in Ops : Once(q)) /\ Placed(p) /\ Holds(p) /\ Held(p)
  BY <1>0 DEF OnceInv, TypeInv, ShapeInv, HeldInv, Clean
<1>3. CASE kc' = kc
  <2>1. Once(p)'
    BY <1>1, <1>2, <1>3 DEF ImportNewStep, Idle, Once, Open
  <2>2. prev' = prev
    BY <1>1, <1>2 DEF ImportNewStep, Held
  <2> QED BY <1>1, <1>2, <1>3, <2>1, <2>2, QuietOnce DEF ImportNewStep, Idle, Still
<1>4. CASE kc' = op[p].seen /\ op'[p].pc = "imported"
  <2>1. row.fp = 0 /\ prev' = prev /\ heads = {} /\ prev \notin heads
    BY <1>1, <1>2 DEF ImportNewStep, Held, ShapeInv, Ordered
  <2>2. op[p].seen \notin heads \cup {prev}
    BY <1>1, <1>2, <2>1, ShapeFacts DEF ImportNewStep, Holds, Placed, Looked, Attributing
  <2>3. \A q \in Ops : op[q].pc \notin {"adopted", "repair"}
    BY <1>1, <2>1, OpsAssumption, KindOf DEF ImportNewStep, TypeInv, TypeOK, Placed, Transaction, Attributing, Consuming
  <2>4. \A q \in Ops : op'[q].pc \notin {"adopted", "repair"}
    BY <1>1, <1>4, <2>3 DEF ImportNewStep
  <2>5. Ahead'
    BY <1>1, <1>4, <2>1, <2>2, <2>4, AheadAlone DEF ImportNewStep
  <2>6. Once(p)' /\ \A v : Followed(v)' => Followed(v)
    BY <1>1, <1>4 DEF ImportNewStep, Once, Open, Followed
  <2> QED BY <1>1, <1>2, <2>1, <2>5, <2>6, OnceStays DEF ImportNewStep
<1> QED BY <1>1, <1>3, <1>4 DEF ImportNewStep

LEMMA ImportCommitOnce ==
  ASSUME TypeInv, ShapeInv, HeldInv, OnceInv, NEW p \in Ops, ImportCommit(p)
  PROVE  OnceInv'
<1> SUFFICES ASSUME Clean' PROVE Latest' /\ Ahead' /\ \A q \in Ops : Once(q)'
  BY DEF OnceInv
<1>1. ImportCommitStep(p)
  BY ImportCommitDoes DEF TypeInv
<1>0. Clean
  BY <1>1 DEF ImportCommitStep, Clean
<1>2. Latest /\ Ahead /\ (\A q \in Ops : Once(q)) /\ Placed(p) /\ Holds(p) /\ Held(p)
  BY <1>0 DEF OnceInv, TypeInv, ShapeInv, HeldInv, Clean
<1>3. row.fp = 0 /\ op[p].seen # 0 /\ heads = {} /\ db = p
  BY <1>1, <1>2 DEF ImportCommitStep, Held, Placed, Looked, Attributing, Transaction, ShapeInv, Ordered
<1>4. CASE row' = row /\ heads' = heads /\ edges' = edges
  <2>1. Once(p)'
    BY <1>1 DEF ImportCommitStep, Idle, Once, Open
  <2> QED BY <1>1, <1>2, <1>4, <2>1, QuietOnce DEF ImportCommitStep, Idle, Still
<1>5. CASE row'.fp = op[p].seen /\ heads' = heads \cup {op[p].seen} /\ edges' = edges
  <2>1. Latest'
    BY <1>1, <1>3, <1>5, LatestMoves DEF ImportCommitStep
  <2>2. \A q \in Ops : op[q].pc \notin Consuming /\ (op[q].pc = "adopted" => q = p)
    BY <1>3, KindOf DEF TypeInv, TypeOK, Placed, Transaction, Consuming, Renewing, Answered, Attributing
  <2>3. \A q \in Ops : op'[q].pc \notin Consuming \cup {"adopted"}
    BY <1>1, <2>2 DEF ImportCommitStep, Idle, Consuming, Renewing, Answered
  <2>4. kc' = op[p].seen
    BY <1>1, <1>2 DEF ImportCommitStep, Placed
  <2>5. Ahead'
    BY <1>3, <1>5, <2>3, <2>4, AheadAlone DEF Consuming
  <2> QED BY <2>1, <2>3, <2>5 DEF Once, Open, Consuming, Renewing, Answered
<1> QED BY <1>1, <1>3, <1>4, <1>5 DEF ImportCommitStep

LEMMA RepairSplitOnce ==
  ASSUME TypeInv, ShapeInv, HeldInv, OnceInv, NEW p \in Ops, RepairSplit(p)
  PROVE  OnceInv'
<1> SUFFICES ASSUME Clean' PROVE Latest' /\ Ahead' /\ \A q \in Ops : Once(q)'
  BY DEF OnceInv
<1>1. RepairSplitStep(p)
  BY RepairSplitDoes DEF TypeInv
<1>0. Clean
  BY <1>1 DEF RepairSplitStep, Clean
<1>2. Latest /\ Ahead /\ (\A q \in Ops : Once(q)) /\ Placed(p) /\ Holds(p) /\ Held(p)
  BY <1>0 DEF OnceInv, TypeInv, ShapeInv, HeldInv, Clean
<1>3. Once(p)' /\ (Tidy /\ row.fp # 0 => Tidy')
  BY <1>1, <1>2, TidyStays DEF RepairSplitStep, Idle, Once, Open, Tidy
<1>4. \A v : Followed(v)' => Followed(v)
  BY <1>1 DEF RepairSplitStep, Followed
<1>5. Ahead'
  BY <1>1, <1>2, ShapeFacts, AheadStays DEF RepairSplitStep, Idle
<1> QED BY <1>1, <1>2, <1>3, <1>4, <1>5, OnceStays DEF RepairSplitStep

LEMMA NoopOnce ==
  ASSUME TypeInv, ShapeInv, HeldInv, OnceInv, NEW p \in Ops, Noop(p)
  PROVE  OnceInv'
<1> SUFFICES ASSUME Clean' PROVE Latest' /\ Ahead' /\ \A q \in Ops : Once(q)'
  BY DEF OnceInv
<1>1. NoopStep(p)
  BY NoopDoes DEF TypeInv
<1>0. Clean
  BY <1>1 DEF NoopStep, Clean
<1>2. Latest /\ Ahead /\ (\A q \in Ops : Once(q)) /\ Placed(p) /\ Holds(p) /\ Held(p)
  BY <1>0 DEF OnceInv, TypeInv, ShapeInv, HeldInv, Clean
<1>3. Once(p)'
  BY <1>1, <1>2 DEF NoopStep, Idle, Once, Open
<1> QED BY <1>0, <1>1, <1>2, <1>3, QuietOnce DEF NoopStep, Idle, Still

LEMMA RepublishOnce ==
  ASSUME TypeInv, ShapeInv, HeldInv, OnceInv, NEW p \in Ops, Republish(p)
  PROVE  OnceInv'
<1> SUFFICES ASSUME Clean' PROVE Latest' /\ Ahead' /\ \A q \in Ops : Once(q)'
  BY DEF OnceInv
<1>1. RepublishStep(p)
  BY RepublishDoes DEF TypeInv
<1>0. Clean
  BY <1>1 DEF RepublishStep, Clean
<1>2. Latest /\ Ahead /\ (\A q \in Ops : Once(q)) /\ Placed(p) /\ Holds(p) /\ Held(p)
  BY <1>0 DEF OnceInv, TypeInv, ShapeInv, HeldInv, Clean
<1>3. Once(p)'
  BY <1>1, <1>2 DEF RepublishStep, Idle, Once, Open
<1> QED BY <1>0, <1>1, <1>2, <1>3, QuietOnce DEF RepublishStep, Idle, Still

LEMMA PublishSlotOnce ==
  ASSUME TypeInv, ShapeInv, HeldInv, OnceInv, NEW p \in Ops, PublishSlot(p)
  PROVE  OnceInv'
<1> SUFFICES ASSUME Clean' PROVE Latest' /\ Ahead' /\ \A q \in Ops : Once(q)'
  BY DEF OnceInv
<1>1. PublishSlotStep(p)
  BY PublishSlotDoes DEF TypeInv
<1>0. Clean
  BY <1>1 DEF PublishSlotStep, Clean
<1>2. Latest /\ Ahead /\ (\A q \in Ops : Once(q)) /\ Placed(p) /\ Holds(p) /\ Held(p)
  BY <1>0 DEF OnceInv, TypeInv, ShapeInv, HeldInv, Clean
<1>3. Once(p)' /\ (Tidy => Tidy')
  BY <1>1, TidyStays DEF PublishSlotStep, Idle, Once, Open
<1>4. \A v : Followed(v)' => Followed(v)
  BY <1>1 DEF PublishSlotStep, Followed
<1>5. Ahead'
  BY <1>1, <1>2, ShapeFacts, AheadStays DEF PublishSlotStep, Idle
<1> QED BY <1>1, <1>2, <1>3, <1>4, <1>5, OnceStays DEF PublishSlotStep

LEMMA MarkOnce ==
  ASSUME TypeInv, ShapeInv, HeldInv, OnceInv, NEW p \in Ops, Mark(p)
  PROVE  OnceInv'
<1> SUFFICES ASSUME Clean' PROVE Latest' /\ Ahead' /\ \A q \in Ops : Once(q)'
  BY DEF OnceInv
<1>1. MarkStep(p)
  BY MarkDoes DEF TypeInv
<1>0. Clean
  BY <1>1 DEF MarkStep, Clean
<1>2. Latest /\ Ahead /\ (\A q \in Ops : Once(q)) /\ Placed(p) /\ Holds(p) /\ Held(p)
  BY <1>0 DEF OnceInv, TypeInv, ShapeInv, HeldInv, Clean
<1>3. Once(p)'
  BY <1>1, <1>2 DEF MarkStep, Idle, Once, Open
<1> QED BY <1>0, <1>1, <1>2, <1>3, QuietOnce DEF MarkStep, Idle, Still

LEMMA AdoptOnce ==
  ASSUME TypeInv, ShapeInv, HeldInv, OnceInv, NEW p \in Ops, Adopt(p)
  PROVE  OnceInv'
<1> SUFFICES ASSUME Clean' PROVE Latest' /\ Ahead' /\ \A q \in Ops : Once(q)'
  BY DEF OnceInv
<1>1. AdoptStep(p)
  BY AdoptDoes DEF TypeInv
<1>0. Clean
  BY <1>1 DEF AdoptStep, Clean
<1>2. Latest /\ Ahead /\ (\A q \in Ops : Once(q)) /\ Placed(p) /\ Holds(p) /\ Held(p)
  BY <1>0 DEF OnceInv, TypeInv, ShapeInv, HeldInv, Clean
<1>3. CASE op'[p] = Idle
  <2>1. Once(p)' /\ kc' = kc /\ prev' = prev
    BY <1>1, <1>3 DEF AdoptStep, Idle, Once, Open
  <2> QED BY <1>1, <1>2, <1>3, <2>1, QuietOnce DEF AdoptStep, Idle, Still
<1>4. CASE op'[p].pc = "adopted"
  <2>1. /\ kc' = op[p].seen /\ op'[p].old = <<kc, prev>> /\ prev' \in {row.fp, prev} /\ row.fp = op[p].row
        /\ op'[p].old[1] = kc /\ op'[p].old[2] = prev
    BY <1>1, <1>4 DEF AdoptStep, Idle
  <2>2. \A q \in Ops : op[q].pc # "adopted"
    BY <1>1, OpsAssumption DEF AdoptStep, TypeInv, Placed, Transaction
  <2>3. op[p].seen \notin heads
    <3>1. SUFFICES ASSUME op[p].seen \in heads PROVE FALSE
      OBVIOUS
    <3>2. Reaches(edges, op[p].seen, op[p].row)
      BY <1>1, <2>1, <3>1 DEF AdoptStep, ShapeInv, Lineage
    <3>3. isSuccessor(op[p].seen, op[p].row)
      BY <3>2, ReachMore DEF isSuccessor
    <3> QED BY <1>1, <3>3 DEF AdoptStep
  <2>4. op[p].seen # prev /\ row.fp \in heads
    BY <1>1, <1>2, <2>1, <2>3, ShapeFacts DEF AdoptStep, Holds, Placed, Looked, Attributing
  <2>5. Candidate(kc) /\ Former(prev) /\ Standing(prev)
    BY <2>2 DEF Candidate, Former, Standing
  <2>6. \A c : (Candidate(c)' => Candidate(c) \/ c = op[p].seen) /\ (Former(c)' => c \in {row.fp, prev})
               /\ (Standing(c)' => c = prev)
    <3>1. \A q \in Ops : op'[q].pc = "adopted" => q = p
      BY <1>1, <2>2 DEF AdoptStep
    <3>2. \A q \in Ops : op'[q].pc = "repair" => op[q].pc = "repair" /\ op'[q].cur = op[q].cur
      BY <1>1, <1>4 DEF AdoptStep
    <3>3. \A c : Candidate(c)' => Candidate(c) \/ c = op[p].seen
      BY <2>1, <2>5, <3>1, <3>2 DEF Candidate
    <3> QED BY <1>4, <2>1, <3>1, <3>3 DEF Former, Standing
  <2>7. Ahead'
    <3>1. row' = row /\ heads' = heads
      BY <1>1 DEF AdoptStep
    <3> QED BY <1>2, <2>3, <2>4, <2>5, <2>6, <3>1 DEF Ahead
  <2>8. Once(p)' /\ \A v : Followed(v)' => Followed(v)
    BY <1>1, <1>4 DEF AdoptStep, Once, Open, Followed
  <2>9. Tidy => Tidy'
    BY <1>4, <1>1, <2>1, <2>2 DEF Tidy, AdoptStep
  <2> QED BY <1>1, <1>2, <2>7, <2>8, <2>9, OnceStays DEF AdoptStep
<1> QED BY <1>1, <1>3, <1>4 DEF AdoptStep

LEMMA AdoptCommitOnce ==
  ASSUME TypeInv, ShapeInv, HeldInv, OnceInv, NEW p \in Ops, AdoptCommit(p)
  PROVE  OnceInv'
<1> SUFFICES ASSUME Clean' PROVE Latest' /\ Ahead' /\ \A q \in Ops : Once(q)'
  BY DEF OnceInv
<1>1. AdoptCommitStep(p)
  BY AdoptCommitDoes DEF TypeInv
<1>0. Clean
  BY <1>1 DEF AdoptCommitStep, Clean
<1>2. Latest /\ Ahead /\ (\A q \in Ops : Once(q)) /\ Placed(p) /\ Holds(p) /\ Held(p)
  BY <1>0 DEF OnceInv, TypeInv, ShapeInv, HeldInv, Clean
<1>3. /\ kc = op[p].seen /\ row.fp = op[p].row /\ op[p].row # op[p].seen /\ op[p].seen \notin heads \cup {0} /\ db = p
      /\ op[p].seen \notin arrived
  BY <1>1, <1>2 DEF AdoptCommitStep, Placed, Holds, Looked, Attributing, Transaction
<1>4. Latest'
  BY <1>1, <1>3, LatestMoves DEF AdoptCommitStep
<1>5. \A q \in Ops : op'[q].pc # "adopted" /\ (op'[q].pc = "repair" => op[q].pc = "repair" /\ op'[q].cur = op[q].cur)
  BY <1>1, <1>3 DEF AdoptCommitStep, Idle, TypeInv, Placed, Transaction
<1>6. \A c : (Candidate(c)' => Candidate(c)) /\ (Former(c)' => Former(c)) /\ (Standing(c)' => c = prev)
  BY <1>1, <1>5 DEF Candidate, Former, Standing, AdoptCommitStep
<1>7. op[p].seen # prev
  BY <1>2, <1>3 DEF Ahead, Candidate, Former
<1>8. Ahead'
  BY <1>1, <1>2, <1>6, <1>7 DEF AdoptCommitStep, Ahead
<1>9. \A v : Followed(v)' => Followed(v)
  BY <1>1, <1>3 DEF AdoptCommitStep, Followed
<1>10. Tidy'
  BY <1>1, <1>3 DEF AdoptCommitStep, Tidy
<1>11. ASSUME NEW q \in Ops, q # p PROVE Once(q)'
  <2>1. op'[q] = op[q] /\ Once(q) /\ op[q].pc # "write"
    BY <1>1, <1>2, <1>3, <1>11 DEF AdoptCommitStep, TypeInv, Placed, Transaction
  <2>2. op[q].pc \in Open => op[q].cur \in heads
    BY DEF ShapeInv, Holds, Open, Renewing, Answered
  <2> QED BY <1>1, <1>3, <1>9, <1>10, <2>1, <2>2 DEF AdoptCommitStep, Once
<1>12. Once(p)'
  BY <1>1 DEF AdoptCommitStep, Idle, Once, Open
<1> QED BY <1>4, <1>8, <1>11, <1>12

LEMMA AdoptUndoOnce ==
  ASSUME TypeInv, ShapeInv, HeldInv, OnceInv, NEW p \in Ops, AdoptUndo(p)
  PROVE  OnceInv'
<1> SUFFICES ASSUME Clean' PROVE Latest' /\ Ahead' /\ \A q \in Ops : Once(q)'
  BY DEF OnceInv
<1>1. AdoptUndoStep(p)
  BY AdoptUndoDoes DEF TypeInv
<1>0. Clean
  BY <1>1 DEF AdoptUndoStep, Clean
<1>2. Latest /\ Ahead /\ (\A q \in Ops : Once(q)) /\ Placed(p) /\ Holds(p) /\ Held(p)
  BY <1>0 DEF OnceInv, TypeInv, ShapeInv, HeldInv, Clean
<1>3. kc = op[p].seen /\ row.fp = op[p].row /\ op[p].row # op[p].seen /\ db = p
  BY <1>1, <1>2 DEF AdoptUndoStep, Placed, Holds, Transaction
<1>4. kc' = op[p].old[1] /\ prev' = op[p].old[2]
  BY <1>1, <1>2, <1>3 DEF AdoptUndoStep, Holds
<1>5. \A q \in Ops : op[q].pc = "adopted" => q = p
  BY <1>3 DEF TypeInv, Placed, Transaction
<1>6. \A q \in Ops : op'[q].pc # "adopted" /\ (op'[q].pc = "repair" => op[q].pc = "repair" /\ op'[q].cur = op[q].cur)
  BY <1>1, <1>5 DEF AdoptUndoStep, Idle
<1>7. \A c : (Candidate(c)' => Candidate(c)) /\ (Former(c)' => Former(c)) /\ (Standing(c)' => Standing(c))
  BY <1>1, <1>4, <1>6 DEF Candidate, Former, Standing, AdoptUndoStep
<1>8. Ahead'
  <2>1. row' = row /\ heads' = heads
    BY <1>1 DEF AdoptUndoStep
  <2> QED BY <1>2, <1>7, <2>1 DEF Ahead
<1>9. Tidy => Tidy'
  BY <1>1, <1>3, <1>4, <1>5 DEF AdoptUndoStep, Tidy
<1>10. Once(p)' /\ \A v : Followed(v)' => Followed(v)
  BY <1>1 DEF AdoptUndoStep, Idle, Once, Open, Followed
<1> QED BY <1>1, <1>2, <1>3, <1>8, <1>9, <1>10, OnceStays DEF AdoptUndoStep

LEMMA DueOnce ==
  ASSUME TypeInv, ShapeInv, HeldInv, OnceInv, NEW p \in Ops, Due(p)
  PROVE  OnceInv'
<1> SUFFICES ASSUME Clean' PROVE Latest' /\ Ahead' /\ \A q \in Ops : Once(q)'
  BY DEF OnceInv
<1>1. DueStep(p)
  BY DueDoes DEF TypeInv
<1>0. Clean
  BY <1>1 DEF DueStep, Clean
<1>2. Latest /\ Ahead /\ (\A q \in Ops : Once(q)) /\ Placed(p) /\ Holds(p) /\ Held(p)
  BY <1>0 DEF OnceInv, TypeInv, ShapeInv, HeldInv, Clean
<1>3. Once(p)'
  BY <1>1, <1>2 DEF DueStep, Idle, Once, Open
<1> QED BY <1>0, <1>1, <1>2, <1>3, QuietOnce DEF DueStep, Idle, Still

LEMMA ReadSlotOnce ==
  ASSUME TypeInv, ShapeInv, HeldInv, OnceInv, NEW p \in Ops, ReadSlot(p)
  PROVE  OnceInv'
<1> SUFFICES ASSUME Clean' PROVE Latest' /\ Ahead' /\ \A q \in Ops : Once(q)'
  BY DEF OnceInv
<1>1. ReadSlotStep(p)
  BY ReadSlotDoes DEF TypeInv
<1>0. Clean
  BY <1>1 DEF ReadSlotStep, Clean
<1>2. Latest /\ Ahead /\ (\A q \in Ops : Once(q)) /\ Placed(p) /\ Holds(p) /\ Held(p)
  BY <1>0 DEF OnceInv, TypeInv, ShapeInv, HeldInv, Clean
<1>3. Once(p)'
  BY <1>1, <1>2 DEF ReadSlotStep, Idle, Once, Open, Tidy
<1> QED BY <1>0, <1>1, <1>2, <1>3, QuietOnce DEF ReadSlotStep, Idle, Still

LEMMA RepairDriftOnce ==
  ASSUME TypeInv, ShapeInv, HeldInv, OnceInv, NEW p \in Ops, RepairDrift(p)
  PROVE  OnceInv'
<1> SUFFICES ASSUME Clean' PROVE Latest' /\ Ahead' /\ \A q \in Ops : Once(q)'
  BY DEF OnceInv
<1>1. RepairDriftStep(p)
  BY RepairDriftDoes DEF TypeInv
<1>0. Clean
  BY <1>1 DEF RepairDriftStep, Clean
<1>2. Latest /\ Ahead /\ (\A q \in Ops : Once(q)) /\ Placed(p) /\ Holds(p) /\ Held(p)
  BY <1>0 DEF OnceInv, TypeInv, ShapeInv, HeldInv, Clean
<1>9. op[p].pc \in Consuming /\ used.stall = 0 /\ \A q \in Ops \ {p} : op'[q] = op[q]
  BY <1>0, <1>1 DEF RepairDriftStep, Consuming, Renewing, Answered, Clean
<1>10. \A q \in Ops \ {p} : Once(q)'
  BY <1>9, OthersOnce
<1>3. CASE row'.fp = row.fp /\ heads' = heads /\ edges' = edges
  <2>1. Once(p)'
    BY <1>1, <1>2, <1>3, TidyStays DEF RepairDriftStep, Idle, Once, Open, Latest, Followed
  <2> QED BY <1>1, <1>2, <1>3, <2>1, QuietOnce DEF RepairDriftStep, Idle, Still
<1>4. CASE /\ row.fp # op[p].cur /\ (prev = row.fp \/ <<row.fp, op[p].cur>> \in edges) /\ row'.fp = op[p].cur
           /\ heads' = heads \cup {op[p].cur} /\ edges' = edges \cup {<<row.fp, op[p].cur>>} /\ op'[p].pc = "find"
  <2>1. (\A q \in Ops : op[q].pc # "adopted") /\ op[p].cur # 0
    BY <1>1, <1>2, OpsAssumption DEF RepairDriftStep, TypeInv, Placed, Transaction
  <2>2. Candidate(op[p].cur) /\ Former(prev) /\ Standing(prev)
    BY <1>1, <2>1 DEF RepairDriftStep, Candidate, Former, Standing
  <2>3. op[p].cur \notin heads
    BY <1>2, <1>4, <2>2 DEF Latest, Ahead
  <2>4. op[p].cur # prev
    BY <1>2, <2>1, <2>2, <2>3 DEF Ahead
  <2>5. Latest'
    BY <1>1, <1>4, <2>3, LatestMoves DEF RepairDriftStep
  <2>6. \A q \in Ops : op'[q].pc # "adopted" /\ (op'[q].pc = "repair" => op[q].pc = "repair" /\ op'[q].cur = op[q].cur)
    BY <1>1, <1>4, <2>1 DEF RepairDriftStep
  <2>7. \A c : (Candidate(c)' => Candidate(c)) /\ (Former(c)' => Former(c)) /\ (Standing(c)' => c = prev)
    BY <1>1, <2>6 DEF Candidate, Former, Standing, RepairDriftStep
  <2>8. Ahead'
    BY <1>1, <1>2, <1>4, <2>4, <2>7 DEF RepairDriftStep, Ahead
  <2>9. Once(p)'
    <3>1. \A x \in stash : x.from # op[p].cur
      BY <2>3, NoHead
    <3>0. op'[p].cur = op[p].cur
      BY <1>1, <1>4 DEF RepairDriftStep, Idle
    <3>2. ~Followed(op[p].cur)'
      BY <1>4, <2>5, <3>0 DEF Latest
    <3> QED BY <1>1, <1>4, <3>1, <3>2 DEF RepairDriftStep, Idle, Once, Open
  <2> QED BY <1>10, <2>5, <2>8, <2>9
<1>5. heads = heads \cup {row.fp}
  BY <1>1, <1>2, ShapeFacts DEF RepairDriftStep, TypeInv, TypeOK, OpRec, Placed, Attributing, Consuming
<1> QED BY <1>1, <1>3, <1>4, <1>5 DEF RepairDriftStep

LEMMA FindStashedOnce ==
  ASSUME TypeInv, ShapeInv, HeldInv, OnceInv, NEW p \in Ops, FindStashed(p)
  PROVE  OnceInv'
<1> SUFFICES ASSUME Clean' PROVE Latest' /\ Ahead' /\ \A q \in Ops : Once(q)'
  BY DEF OnceInv
<1>1. FindStashedStep(p)
  BY FindStashedDoes DEF TypeInv
<1>0. Clean
  BY <1>1 DEF FindStashedStep, Clean
<1>2. Latest /\ Ahead /\ (\A q \in Ops : Once(q)) /\ Placed(p) /\ Holds(p) /\ Held(p)
  BY <1>0 DEF OnceInv, TypeInv, ShapeInv, HeldInv, Clean
<1>3. Once(p)'
  <2>1. Tidy => Tidy'
    BY <1>1, TidyStays DEF FindStashedStep
  <2>2. \A v : Followed(v)' => Followed(v)
    BY <1>1 DEF FindStashedStep, Followed
  <2>3. CASE op'[p] = Idle
    BY <2>3 DEF Idle, Once, Open
  <2>4. CASE op'[p].pc = "post"
    BY <1>1, <1>2, <2>2, <2>4 DEF FindStashedStep, Idle, Once, Open
  <2>5. CASE op'[p].pc = "begin"
    <3>1. [from |-> op[p].cur, to |-> op'[p].suc] \in stash /\ op'[p].cur = op[p].cur
      BY <1>1, <2>5 DEF FindStashedStep, Idle
    <3>2. row.fp = op[p].cur => op'[p].suc \notin heads /\ Tidy
      BY <1>1, <1>2, <3>1 DEF FindStashedStep, Latest, Once
    <3> QED BY <1>1, <2>1, <2>5, <3>1, <3>2 DEF FindStashedStep, Once
  <2> QED BY <1>1, <2>3, <2>4, <2>5 DEF FindStashedStep
<1> QED BY <1>0, <1>1, <1>2, <1>3, QuietOnce DEF FindStashedStep, Idle, Still

LEMMA PostOnce ==
  ASSUME TypeInv, ShapeInv, HeldInv, OnceInv, NEW p \in Ops, Post(p)
  PROVE  OnceInv'
<1> SUFFICES ASSUME Clean' PROVE Latest' /\ Ahead' /\ \A q \in Ops : Once(q)'
  BY DEF OnceInv
<1>1. PostStep(p)
  BY PostDoes DEF TypeInv
<1>0. Clean
  BY <1>1 DEF PostStep, Clean
<1>2. Latest /\ Ahead /\ (\A q \in Ops : Once(q)) /\ Placed(p) /\ Holds(p) /\ Held(p)
  BY <1>0 DEF OnceInv, TypeInv, ShapeInv, HeldInv, Clean
<1>3. issued \in Nat /\ issued + 1 \notin heads
  <2>1. issued \in Nat
    BY Numbers DEF TypeInv, TypeOK
  <2> QED BY <2>1 DEF ShapeInv, Ordered, Given
<1>4. \A v : Followed(v)' => Followed(v)
  <2>1. arrived' \subseteq arrived \cup {issued + 1}
    BY <1>1 DEF PostStep
  <2>2. \A v, s : <<v, s>> \in grew' => <<v, s>> \in grew \/ s = issued + 1
    BY <1>1 DEF PostStep
  <2> QED BY <1>1, <1>3, <2>1, <2>2 DEF PostStep, Followed
<1>5. Once(p)' /\ (Tidy => Tidy')
  BY <1>1, <1>3, TidyStays DEF PostStep, Idle, Once, Open
<1>6. Ahead'
  BY <1>1, <1>2, ShapeFacts, AheadStays DEF PostStep, Idle
<1> QED BY <1>1, <1>2, <1>4, <1>5, <1>6, OnceStays DEF PostStep

LEMMA PostRejectedOnce ==
  ASSUME TypeInv, ShapeInv, HeldInv, OnceInv, NEW p \in Ops, PostRejected(p)
  PROVE  OnceInv'
<1> SUFFICES ASSUME Clean' PROVE Latest' /\ Ahead' /\ \A q \in Ops : Once(q)'
  BY DEF OnceInv
<1>1. PostRejectedStep(p)
  BY PostRejectedDoes DEF TypeInv
<1>0. Clean
  BY <1>1 DEF PostRejectedStep, Clean
<1>2. Latest /\ Ahead /\ (\A q \in Ops : Once(q)) /\ Placed(p) /\ Holds(p) /\ Held(p)
  BY <1>0 DEF OnceInv, TypeInv, ShapeInv, HeldInv, Clean
<1>3. Once(p)'
  BY <1>1, <1>2 DEF PostRejectedStep, Idle, Once, Open
<1> QED BY <1>0, <1>1, <1>2, <1>3, QuietOnce DEF PostRejectedStep, Idle, Still

LEMMA PostFailedOnce ==
  ASSUME TypeInv, ShapeInv, HeldInv, OnceInv, NEW p \in Ops, PostFailed(p)
  PROVE  OnceInv'
<1> SUFFICES ASSUME Clean' PROVE Latest' /\ Ahead' /\ \A q \in Ops : Once(q)'
  BY DEF OnceInv
<1>1. PostFailedStep(p)
  BY PostFailedDoes DEF TypeInv
<1>0. Clean
  BY <1>1 DEF PostFailedStep, Clean
<1>2. Latest /\ Ahead /\ (\A q \in Ops : Once(q)) /\ Placed(p) /\ Holds(p) /\ Held(p)
  BY <1>0 DEF OnceInv, TypeInv, ShapeInv, HeldInv, Clean
<1>3. Once(p)'
  BY <1>1, <1>2 DEF PostFailedStep, Idle, Once, Open
<1> QED BY <1>0, <1>1, <1>2, <1>3, QuietOnce DEF PostFailedStep, Idle, Still

LEMMA RejectedOnce ==
  ASSUME TypeInv, ShapeInv, HeldInv, OnceInv, NEW p \in Ops, Rejected(p)
  PROVE  OnceInv'
<1> SUFFICES ASSUME Clean' PROVE Latest' /\ Ahead' /\ \A q \in Ops : Once(q)'
  BY DEF OnceInv
<1>1. RejectedStep(p)
  BY RejectedDoes DEF TypeInv
<1>0. Clean
  BY <1>1 DEF RejectedStep, Clean
<1>2. Latest /\ Ahead /\ (\A q \in Ops : Once(q)) /\ Placed(p) /\ Holds(p) /\ Held(p)
  BY <1>0 DEF OnceInv, TypeInv, ShapeInv, HeldInv, Clean
<1>3. Once(p)'
  BY <1>1, <1>2 DEF RejectedStep, Idle, Once, Open
<1> QED BY <1>0, <1>1, <1>2, <1>3, QuietOnce DEF RejectedStep, Idle, Still

LEMMA RecordRejectedOnce ==
  ASSUME TypeInv, ShapeInv, HeldInv, OnceInv, NEW p \in Ops, RecordRejected(p)
  PROVE  OnceInv'
<1> SUFFICES ASSUME Clean' PROVE Latest' /\ Ahead' /\ \A q \in Ops : Once(q)'
  BY DEF OnceInv
<1>1. RecordRejectedStep(p)
  BY RecordRejectedDoes DEF TypeInv
<1>0. Clean
  BY <1>1 DEF RecordRejectedStep, Clean
<1>2. Latest /\ Ahead /\ (\A q \in Ops : Once(q)) /\ Placed(p) /\ Holds(p) /\ Held(p)
  BY <1>0 DEF OnceInv, TypeInv, ShapeInv, HeldInv, Clean
<1>3. Once(p)'
  BY <1>1, <1>2 DEF RecordRejectedStep, Idle, Once, Open
<1> QED BY <1>0, <1>1, <1>2, <1>3, QuietOnce DEF RecordRejectedStep, Idle, Still

LEMMA GotSuccessorOnce ==
  ASSUME TypeInv, ShapeInv, HeldInv, OnceInv, NEW p \in Ops, GotSuccessor(p)
  PROVE  OnceInv'
<1> SUFFICES ASSUME Clean' PROVE Latest' /\ Ahead' /\ \A q \in Ops : Once(q)'
  BY DEF OnceInv
<1>1. GotSuccessorStep(p)
  BY GotSuccessorDoes DEF TypeInv
<1>0. Clean
  BY <1>1 DEF GotSuccessorStep, Clean
<1>2. Latest /\ Ahead /\ (\A q \in Ops : Once(q)) /\ Placed(p) /\ Holds(p) /\ Held(p)
  BY <1>0 DEF OnceInv, TypeInv, ShapeInv, HeldInv, Clean
<1>3. Once(p)'
  BY <1>1, <1>2 DEF GotSuccessorStep, Idle, Once, Open, Tidy
<1> QED BY <1>0, <1>1, <1>2, <1>3, QuietOnce DEF GotSuccessorStep, Idle, Still

LEMMA PersistBeginOnce ==
  ASSUME TypeInv, ShapeInv, HeldInv, OnceInv, NEW p \in Ops, PersistBegin(p)
  PROVE  OnceInv'
<1> SUFFICES ASSUME Clean' PROVE Latest' /\ Ahead' /\ \A q \in Ops : Once(q)'
  BY DEF OnceInv
<1>1. PersistBeginStep(p)
  BY PersistBeginDoes DEF TypeInv
<1>0. Clean
  BY <1>1 DEF PersistBeginStep, Clean
<1>2. Latest /\ Ahead /\ (\A q \in Ops : Once(q)) /\ Placed(p) /\ Holds(p) /\ Held(p)
  BY <1>0 DEF OnceInv, TypeInv, ShapeInv, HeldInv, Clean
<1>3. Once(p)'
  <2>1. Tidy => kc = row.fp
    BY <1>1, OpsAssumption DEF PersistBeginStep, Tidy, TypeInv, Placed, Transaction
  <2> QED BY <1>1, <1>2, <2>1 DEF PersistBeginStep, Idle, Once, Open
<1> QED BY <1>0, <1>1, <1>2, <1>3, QuietOnce DEF PersistBeginStep, Idle, Still

LEMMA PersistWriteOnce ==
  ASSUME TypeInv, ShapeInv, HeldInv, OnceInv, NEW p \in Ops, PersistWrite(p)
  PROVE  OnceInv'
<1> SUFFICES ASSUME Clean' PROVE Latest' /\ Ahead' /\ \A q \in Ops : Once(q)'
  BY DEF OnceInv
<1>1. PersistWriteStep(p)
  BY PersistWriteDoes DEF TypeInv
<1>0. Clean
  BY <1>1 DEF PersistWriteStep, Clean
<1>2. Latest /\ Ahead /\ (\A q \in Ops : Once(q)) /\ Placed(p) /\ Holds(p) /\ Held(p)
  BY <1>0 DEF OnceInv, TypeInv, ShapeInv, HeldInv, Clean
<1>9. op[p].pc \in Consuming /\ used.stall = 0 /\ \A q \in Ops \ {p} : op'[q] = op[q]
  BY <1>0, <1>1 DEF PersistWriteStep, Consuming, Renewing, Answered, Clean
<1>10. \A q \in Ops \ {p} : Once(q)'
  BY <1>9, OthersOnce
<1>3. /\ row.fp = op[p].cur /\ op[p].cur \in heads /\ op[p].suc \notin heads /\ op[p].cur # op[p].suc /\ db = p
      /\ op[p].suc # 0
  BY <1>1, <1>2 DEF PersistWriteStep, Holds, Once, Open, Placed, Transaction, Renewing, Answered
<1>4. \A q \in Ops : op[q].pc \notin {"adopted", "repair"}
  BY <1>1, <1>3, <1>9, SoleConsumer DEF PersistWriteStep, TypeInv, Placed, Transaction, Consuming
<1>5. \A q \in Ops : op'[q].pc \notin {"adopted", "repair"}
  BY <1>1, <1>4 DEF PersistWriteStep, Idle
<1>6. (kc \notin heads \cup {0} => kc # prev) /\ (prev = row.fp => kc = row.fp \/ kc \notin heads)
  BY <1>2, <1>4, AloneAhead
<1>7. (kc' \notin heads' \cup {0} => kc' # prev') /\ (prev' = row'.fp => kc' = row'.fp \/ kc' \notin heads')
  BY <1>1, <1>2, <1>3, <1>6 DEF PersistWriteStep, Once
<1>8. Ahead'
  BY <1>5, <1>7, AheadAlone
<1>11. Latest'
  <2>1. ~Followed(row.fp)'
    BY <1>1, <1>2 DEF PersistWriteStep, Latest, Followed
  <2>2. \A e \in edges' : e \in edges \/ e = <<op[p].cur, op[p].suc>>
    BY <1>1 DEF PersistWriteStep
  <2>3. \A h \in heads : <<row.fp, h>> \notin edges'
    BY <1>2, <1>3, <2>2 DEF Latest
  <2>4. \A x \in stash' : x \in stash \/ x.to = op[p].suc
    BY <1>1 DEF PersistWriteStep
  <2> QED BY <1>1, <1>2, <1>3, <2>1, <2>3, <2>4 DEF PersistWriteStep, Latest
<1>12. Once(p)'
  BY <1>1, <1>3 DEF PersistWriteStep, Idle, Once, Open
<1> QED BY <1>8, <1>10, <1>11, <1>12

LEMMA PersistCommitOnce ==
  ASSUME TypeInv, ShapeInv, HeldInv, OnceInv, NEW p \in Ops, PersistCommit(p)
  PROVE  OnceInv'
<1> SUFFICES ASSUME Clean' PROVE Latest' /\ Ahead' /\ \A q \in Ops : Once(q)'
  BY DEF OnceInv
<1>1. PersistCommitStep(p)
  BY PersistCommitDoes DEF TypeInv
<1>0. Clean
  BY <1>1 DEF PersistCommitStep, Clean
<1>2. Latest /\ Ahead /\ (\A q \in Ops : Once(q)) /\ Placed(p) /\ Holds(p) /\ Held(p)
  BY <1>0 DEF OnceInv, TypeInv, ShapeInv, HeldInv, Clean
<1>9. op[p].pc \in Consuming /\ used.stall = 0 /\ \A q \in Ops \ {p} : op'[q] = op[q]
  BY <1>0, <1>1 DEF PersistCommitStep, Consuming, Renewing, Answered, Clean
<1>10. \A q \in Ops \ {p} : Once(q)'
  BY <1>9, OthersOnce
<1>3. /\ row.fp = op[p].cur /\ op[p].cur \in heads /\ op[p].suc \notin heads /\ op[p].cur # op[p].suc /\ db = p
      /\ op[p].suc # 0
  BY <1>1, <1>2 DEF PersistCommitStep, Holds, Once, Open, Placed, Transaction, Renewing, Answered
<1>4. \A q \in Ops : op[q].pc \notin {"adopted", "repair"}
  BY <1>1, <1>3, <1>9, SoleConsumer DEF PersistCommitStep, TypeInv, Placed, Transaction, Consuming
<1>5. \A q \in Ops : op'[q].pc \notin {"adopted", "repair"}
  BY <1>1, <1>4 DEF PersistCommitStep, Idle
<1>6. (kc \notin heads \cup {0} => kc # prev) /\ (prev = row.fp => kc = row.fp \/ kc \notin heads)
  BY <1>2, <1>4, AloneAhead
<1>7. CASE row' = row /\ heads' = heads /\ edges' = edges
  <2>1. Latest' /\ Ahead'
    BY <1>1, <1>2, <1>5, <1>6, <1>7, AheadAlone DEF PersistCommitStep, Latest, Followed
  <2>2. Once(p)'
    BY <1>1, <1>3, <1>7 DEF PersistCommitStep, Committed, Once, Open
  <2> QED BY <1>10, <2>1, <2>2
<1>8. CASE row'.fp = op[p].suc /\ heads' = heads \cup {op[p].suc} /\ edges' = edges \cup {<<op[p].cur, op[p].suc>>}
  <2>1. Latest'
    BY <1>1, <1>3, <1>8, LatestMoves DEF PersistCommitStep
  <2>2. kc = op[p].suc /\ prev = op[p].cur
    BY <1>1, <1>2 DEF PersistCommitStep, Holds
  <2>3. Ahead'
    BY <1>1, <1>3, <1>5, <1>8, <2>2, AheadAlone DEF PersistCommitStep
  <2>4. Once(p)'
    BY <1>1, <1>3, <1>8 DEF PersistCommitStep, Uncommitted, Once, Open
  <2> QED BY <1>10, <2>1, <2>3, <2>4
<1> QED BY <1>1, <1>7, <1>8 DEF PersistCommitStep

LEMMA PersistLockLostOnce ==
  ASSUME TypeInv, ShapeInv, HeldInv, OnceInv, NEW p \in Ops, PersistLockLost(p)
  PROVE  OnceInv'
<1> SUFFICES ASSUME Clean' PROVE Latest' /\ Ahead' /\ \A q \in Ops : Once(q)'
  BY DEF OnceInv
<1>1. PersistLockLostStep(p)
  BY PersistLockLostDoes DEF TypeInv
<1>0. Clean
  BY <1>1 DEF PersistLockLostStep, Clean
<1>2. Latest /\ Ahead /\ (\A q \in Ops : Once(q)) /\ Placed(p) /\ Holds(p) /\ Held(p)
  BY <1>0 DEF OnceInv, TypeInv, ShapeInv, HeldInv, Clean
<1>3. Once(p)'
  BY <1>1, <1>2 DEF PersistLockLostStep, Idle, Once, Open
<1> QED BY <1>0, <1>1, <1>2, <1>3, QuietOnce DEF PersistLockLostStep, Idle, Still

LEMMA PersistSaveOnce ==
  ASSUME TypeInv, ShapeInv, HeldInv, OnceInv, NEW p \in Ops, PersistSave(p)
  PROVE  OnceInv'
<1> SUFFICES ASSUME Clean' PROVE Latest' /\ Ahead' /\ \A q \in Ops : Once(q)'
  BY DEF OnceInv
<1>1. PersistSaveStep(p)
  BY PersistSaveDoes DEF TypeInv
<1>0. Clean
  BY <1>1 DEF PersistSaveStep, Clean
<1>2. Latest /\ Ahead /\ (\A q \in Ops : Once(q)) /\ Placed(p) /\ Holds(p) /\ Held(p)
  BY <1>0 DEF OnceInv, TypeInv, ShapeInv, HeldInv, Clean
<1>9. op[p].pc \in Consuming /\ used.stall = 0 /\ \A q \in Ops \ {p} : op'[q] = op[q]
  BY <1>0, <1>1 DEF PersistSaveStep, Consuming, Renewing, Answered, Clean
<1>10. \A q \in Ops \ {p} : Once(q)'
  BY <1>9, OthersOnce
<1>3. /\ row.fp = op[p].cur /\ op[p].cur \in heads /\ op[p].suc \notin heads /\ op[p].cur # op[p].suc /\ db = p
      /\ op[p].suc # 0
  BY <1>1, <1>2 DEF PersistSaveStep, Holds, Once, Open, Placed, Transaction, Renewing, Answered
<1>4. \A q \in Ops : op[q].pc \notin {"adopted", "repair"}
  BY <1>1, <1>3, <1>9, SoleConsumer DEF PersistSaveStep, TypeInv, Placed, Transaction, Consuming
<1>5. \A q \in Ops : op'[q].pc \notin {"adopted", "repair"}
  BY <1>1, <1>4 DEF PersistSaveStep, Idle
<1>6. (kc \notin heads \cup {0} => kc # prev) /\ (prev = row.fp => kc = row.fp \/ kc \notin heads)
  BY <1>2, <1>4, AloneAhead
<1>7. (kc' \notin heads' \cup {0} => kc' # prev') /\ (prev' = row'.fp => kc' = row'.fp \/ kc' \notin heads')
  BY <1>1, <1>3, <1>6 DEF PersistSaveStep
<1>8. Ahead'
  BY <1>5, <1>7, AheadAlone
<1>11. Latest'
  <2>1. ~Followed(row.fp)'
    BY <1>1, <1>2 DEF PersistSaveStep, Latest, Followed
  <2>2. \A e \in edges' : e \in edges \/ e = <<op[p].cur, op[p].suc>>
    BY <1>1 DEF PersistSaveStep
  <2>3. \A h \in heads : <<row.fp, h>> \notin edges'
    BY <1>2, <1>3, <2>2 DEF Latest
  <2>4. \A x \in stash' : x \in stash \/ x.to = op[p].suc
    BY <1>1 DEF PersistSaveStep
  <2> QED BY <1>1, <1>2, <1>3, <2>1, <2>3, <2>4 DEF PersistSaveStep, Latest
<1>12. Once(p)'
  BY <1>1, <1>3 DEF PersistSaveStep, Idle, Once, Open
<1> QED BY <1>8, <1>10, <1>11, <1>12

LEMMA PersistUndoOnce ==
  ASSUME TypeInv, ShapeInv, HeldInv, OnceInv, NEW p \in Ops, PersistUndo(p)
  PROVE  OnceInv'
<1> SUFFICES ASSUME Clean' PROVE Latest' /\ Ahead' /\ \A q \in Ops : Once(q)'
  BY DEF OnceInv
<1>1. PersistUndoStep(p)
  BY PersistUndoDoes DEF TypeInv
<1>0. Clean
  BY <1>1 DEF PersistUndoStep, Clean
<1>2. Latest /\ Ahead /\ (\A q \in Ops : Once(q)) /\ Placed(p) /\ Holds(p) /\ Held(p)
  BY <1>0 DEF OnceInv, TypeInv, ShapeInv, HeldInv, Clean
<1>9. op[p].pc \in Consuming /\ used.stall = 0 /\ \A q \in Ops \ {p} : op'[q] = op[q]
  BY <1>0, <1>1 DEF PersistUndoStep, Consuming, Renewing, Answered, Clean
<1>10. \A q \in Ops \ {p} : Once(q)'
  BY <1>9, OthersOnce
<1>3. /\ row.fp = op[p].cur /\ op[p].cur \in heads /\ op[p].suc \notin heads /\ op[p].cur # op[p].suc /\ db = p
      /\ op[p].suc # 0
  BY <1>1, <1>2 DEF PersistUndoStep, Holds, Once, Open, Placed, Transaction, Renewing, Answered
<1>4. \A q \in Ops : op[q].pc \notin {"adopted", "repair"}
  BY <1>1, <1>3, <1>9, SoleConsumer DEF PersistUndoStep, TypeInv, Placed, Transaction, Consuming
<1>5. \A q \in Ops : op'[q].pc \notin {"adopted", "repair"}
  BY <1>1, <1>4 DEF PersistUndoStep, Idle
<1>6. (kc \notin heads \cup {0} => kc # prev) /\ (prev = row.fp => kc = row.fp \/ kc \notin heads)
  BY <1>2, <1>4, AloneAhead
<1>7. (kc' \notin heads' \cup {0} => kc' # prev') /\ (prev' = row'.fp => kc' = row'.fp \/ kc' \notin heads')
  BY <1>1, <1>3, <1>6 DEF PersistUndoStep
<1>8. Ahead'
  BY <1>5, <1>7, AheadAlone
<1>11. Latest'
  <2>1. ~Followed(row.fp)'
    BY <1>1, <1>2 DEF PersistUndoStep, Latest, Followed
  <2>2. \A e \in edges' : e \in edges \/ e = <<op[p].cur, op[p].suc>>
    BY <1>1 DEF PersistUndoStep
  <2>3. \A h \in heads : <<row.fp, h>> \notin edges'
    BY <1>2, <1>3, <2>2 DEF Latest
  <2>4. \A x \in stash' : x \in stash \/ x.to = op[p].suc
    BY <1>1 DEF PersistUndoStep
  <2> QED BY <1>1, <1>2, <1>3, <2>1, <2>3, <2>4 DEF PersistUndoStep, Latest
<1>12. Once(p)'
  BY <1>1, <1>3 DEF PersistUndoStep, Idle, Once, Open
<1> QED BY <1>8, <1>10, <1>11, <1>12

LEMMA StashSuccessorOnce ==
  ASSUME TypeInv, ShapeInv, HeldInv, OnceInv, NEW p \in Ops, StashSuccessor(p)
  PROVE  OnceInv'
<1> SUFFICES ASSUME Clean' PROVE Latest' /\ Ahead' /\ \A q \in Ops : Once(q)'
  BY DEF OnceInv
<1>1. StashSuccessorStep(p)
  BY StashSuccessorDoes DEF TypeInv
<1>0. Clean
  BY <1>1 DEF StashSuccessorStep, Clean
<1>2. Latest /\ Ahead /\ (\A q \in Ops : Once(q)) /\ Placed(p) /\ Holds(p) /\ Held(p)
  BY <1>0 DEF OnceInv, TypeInv, ShapeInv, HeldInv, Clean
<1>9. op[p].pc \in Consuming /\ used.stall = 0 /\ \A q \in Ops \ {p} : op'[q] = op[q]
  BY <1>0, <1>1 DEF StashSuccessorStep, Consuming, Renewing, Answered, Clean
<1>10. \A q \in Ops \ {p} : Once(q)'
  BY <1>9, OthersOnce
<1>3. row.fp = op[p].cur => op[p].suc \notin heads
  BY <1>1, <1>2 DEF StashSuccessorStep, Once, Open
<1>4. Ahead'
  BY <1>1, <1>2, ShapeFacts, AheadStays DEF StashSuccessorStep, Idle
<1>5. Latest'
  <2>1. ~Followed(row.fp)'
    BY <1>1, <1>2 DEF StashSuccessorStep, Latest, Followed
  <2>2. \A e \in edges' : e \in edges \/ e = <<op[p].cur, op[p].suc>>
    BY <1>1 DEF StashSuccessorStep
  <2>3. \A h \in heads : <<row.fp, h>> \notin edges'
    BY <1>2, <1>3, <2>2 DEF Latest
  <2>4. \A x \in stash' : x \in stash \/ (x.from = op[p].cur /\ x.to = op[p].suc)
    BY <1>1 DEF StashSuccessorStep
  <2> QED BY <1>1, <1>2, <1>3, <2>1, <2>3, <2>4 DEF StashSuccessorStep, Latest
<1>6. Once(p)'
  BY <1>1 DEF StashSuccessorStep, Idle, Once, Open
<1> QED BY <1>4, <1>5, <1>6, <1>10

LEMMA UnstashOnce ==
  ASSUME TypeInv, ShapeInv, HeldInv, OnceInv, NEW p \in Ops, Unstash(p)
  PROVE  OnceInv'
<1> SUFFICES ASSUME Clean' PROVE Latest' /\ Ahead' /\ \A q \in Ops : Once(q)'
  BY DEF OnceInv
<1>1. UnstashStep(p)
  BY UnstashDoes DEF TypeInv
<1>0. Clean
  BY <1>1 DEF UnstashStep, Clean
<1>2. Latest /\ Ahead /\ (\A q \in Ops : Once(q)) /\ Placed(p) /\ Holds(p) /\ Held(p)
  BY <1>0 DEF OnceInv, TypeInv, ShapeInv, HeldInv, Clean
<1>3. Once(p)' /\ (Tidy => Tidy')
  BY <1>1, TidyStays DEF UnstashStep, Idle, Once, Open
<1>4. \A v : Followed(v)' => Followed(v)
  BY <1>1 DEF UnstashStep, Followed
<1>5. Ahead'
  BY <1>1, <1>2, ShapeFacts, AheadStays DEF UnstashStep, Idle
<1> QED BY <1>1, <1>2, <1>3, <1>4, <1>5, OnceStays DEF UnstashStep

LEMMA PublishCasOnce ==
  ASSUME TypeInv, ShapeInv, HeldInv, OnceInv, NEW p \in Ops, PublishCas(p)
  PROVE  OnceInv'
<1> SUFFICES ASSUME Clean' PROVE Latest' /\ Ahead' /\ \A q \in Ops : Once(q)'
  BY DEF OnceInv
<1>1. PublishCasStep(p)
  BY PublishCasDoes DEF TypeInv
<1>0. Clean
  BY <1>1 DEF PublishCasStep, Clean
<1>2. Latest /\ Ahead /\ (\A q \in Ops : Once(q)) /\ Placed(p) /\ Holds(p) /\ Held(p)
  BY <1>0 DEF OnceInv, TypeInv, ShapeInv, HeldInv, Clean
<1>3. Once(p)'
  BY <1>1, <1>2 DEF PublishCasStep, Idle, Once, Open
<1> QED BY <1>0, <1>1, <1>2, <1>3, QuietOnce DEF PublishCasStep, Idle, Still

LEMMA PublishRenameOnce ==
  ASSUME TypeInv, ShapeInv, HeldInv, OnceInv, NEW p \in Ops, PublishRename(p)
  PROVE  OnceInv'
<1> SUFFICES ASSUME Clean' PROVE Latest' /\ Ahead' /\ \A q \in Ops : Once(q)'
  BY DEF OnceInv
<1>1. PublishRenameStep(p)
  BY PublishRenameDoes DEF TypeInv
<1>0. Clean
  BY <1>1 DEF PublishRenameStep, Clean
<1>2. Latest /\ Ahead /\ (\A q \in Ops : Once(q)) /\ Placed(p) /\ Holds(p) /\ Held(p)
  BY <1>0 DEF OnceInv, TypeInv, ShapeInv, HeldInv, Clean
<1>3. Once(p)' /\ (Tidy => Tidy')
  BY <1>1, TidyStays DEF PublishRenameStep, Idle, Once, Open
<1>4. \A v : Followed(v)' => Followed(v)
  BY <1>1 DEF PublishRenameStep, Followed
<1>5. Ahead'
  BY <1>1, <1>2, ShapeFacts, AheadStays DEF PublishRenameStep, Idle
<1> QED BY <1>1, <1>2, <1>3, <1>4, <1>5, OnceStays DEF PublishRenameStep

LEMMA PublishVerifyOnce ==
  ASSUME TypeInv, ShapeInv, HeldInv, OnceInv, NEW p \in Ops, PublishVerify(p)
  PROVE  OnceInv'
<1> SUFFICES ASSUME Clean' PROVE Latest' /\ Ahead' /\ \A q \in Ops : Once(q)'
  BY DEF OnceInv
<1>1. PublishVerifyStep(p)
  BY PublishVerifyDoes DEF TypeInv
<1>0. Clean
  BY <1>1 DEF PublishVerifyStep, Clean
<1>2. Latest /\ Ahead /\ (\A q \in Ops : Once(q)) /\ Placed(p) /\ Holds(p) /\ Held(p)
  BY <1>0 DEF OnceInv, TypeInv, ShapeInv, HeldInv, Clean
<1>3. Once(p)'
  BY <1>1, <1>2 DEF PublishVerifyStep, Idle, Once, Open
<1> QED BY <1>0, <1>1, <1>2, <1>3, QuietOnce DEF PublishVerifyStep, Idle, Still

LEMMA CrashOnce ==
  ASSUME TypeInv, ShapeInv, HeldInv, OnceInv, NEW p \in Ops, Crash(p)
  PROVE  OnceInv'
<1> SUFFICES ASSUME Clean' PROVE Latest' /\ Ahead' /\ \A q \in Ops : Once(q)'
  BY DEF OnceInv
<1>1. CrashStep(p)
  BY CrashDoes DEF TypeInv
<1>0. Clean /\ op[p].pc # "adopted"
  BY <1>1 DEF CrashStep, Clean
<1>2. Latest /\ Ahead /\ (\A q \in Ops : Once(q)) /\ Placed(p) /\ Holds(p) /\ Held(p)
  BY <1>0 DEF OnceInv, TypeInv, ShapeInv, HeldInv, Clean
<1>3. Once(p)'
  BY <1>1, <1>2 DEF CrashStep, Idle, Once, Open
<1> QED BY <1>0, <1>1, <1>2, <1>3, QuietOnce DEF CrashStep, Idle, Still

LEMMA LoseOnce ==
  ASSUME TypeInv, NEW p \in Ops, LoseSwitchLock(p) \/ LoseAuthLock(p)
  PROVE  OnceInv'
  BY LoseHeld DEF OnceInv, Clean
LEMMA EnvOnce ==
  ASSUME TypeInv, ShapeInv, OnceInv, CodexStart \/ CodexExit \/ CodexRotate \/ CodexLogin \/ CodexLeave
  PROVE  OnceInv'
<1>1. /\ row' = row /\ kc' = kc /\ prev' = prev /\ edges' = edges /\ stash' = stash /\ op' = op /\ torn' = torn
      /\ used'.stall = used.stall /\ heads' = heads /\ arrived' = arrived
  BY DEF CodexStart, CodexExit, CodexRotate, CodexLogin, CodexLeave, TypeInv, TypeOK, Bounds
<1>2. issued + 1 \notin arrived
  <2>1. issued \in Nat
    BY Numbers DEF TypeInv, TypeOK
  <2> QED BY <2>1 DEF ShapeInv, Ordered, Given
<1>3. \A v, s : <<v, s>> \in grew' => <<v, s>> \in grew \/ s = issued + 1
  BY DEF CodexStart, CodexExit, CodexRotate, CodexLogin, CodexLeave
<1>4. \A v : Followed(v)' => Followed(v)
  BY <1>1, <1>2, <1>3 DEF Followed
<1>5. Tidy' = Tidy /\ (Clean' => Clean) /\ (Ahead => Ahead')
  BY <1>1 DEF Tidy, Clean, Ahead, Candidate, Former, Standing
<1>6. Latest => Latest'
  BY <1>1, <1>4 DEF Latest
<1>7. \A q \in Ops : Once(q) => Once(q)'
  BY <1>1, <1>4, <1>5 DEF Once
<1> QED BY <1>5, <1>6, <1>7 DEF OnceInv

LEMMA OnceStep == TypeInv /\ ShapeInv /\ HeldInv /\ OnceInv /\ [Next]_vars => OnceInv'
<1> SUFFICES ASSUME TypeInv, ShapeInv, HeldInv, OnceInv, [Next]_vars PROVE OnceInv'
  OBVIOUS
<1>1. CASE UNCHANGED vars
  BY <1>1 DEF vars, slotVars, liveVars, locks, provider, history, OnceInv, Latest, Ahead, Once, Candidate, Former,
     Standing, Followed, Clean, Tidy
<1>2. CASE CodexStart \/ CodexExit \/ CodexRotate \/ CodexLogin \/ CodexLeave
  BY <1>2, EnvOnce
<1>3. ASSUME NEW p \in Ops, Start(p) \/ Crash(p) \/ LoseSwitchLock(p) \/ LoseAuthLock(p) PROVE OnceInv'
  BY <1>3, StartOnce, CrashOnce, LoseOnce
<1>4. ASSUME NEW p \in Ops, Attribute(p) PROVE OnceInv'
  BY <1>4, ObserveLiveOnce, ReadFirstOnce, ReadSecondOnce, ImportNewOnce, ImportCommitOnce,
     RepairSplitOnce, NoopOnce, RepublishOnce, PublishSlotOnce, MarkOnce, AdoptOnce,
     AdoptCommitOnce, AdoptUndoOnce, DueOnce DEF Attribute
<1>5. ASSUME NEW p \in Ops, Consume(p) PROVE OnceInv'
  BY <1>5, ReadSlotOnce, RepairDriftOnce, FindStashedOnce, PostOnce, PostRejectedOnce,
     PostFailedOnce, RejectedOnce, RecordRejectedOnce, GotSuccessorOnce, PersistBeginOnce,
     PersistWriteOnce, PersistCommitOnce, PersistLockLostOnce, PersistSaveOnce,
     PersistUndoOnce, StashSuccessorOnce, UnstashOnce DEF Consume
<1>6. ASSUME NEW p \in Ops, Publish(p) PROVE OnceInv'
  BY <1>6, PublishCasOnce, PublishRenameOnce, PublishVerifyOnce DEF Publish
<1> QED BY <1>1, <1>2, <1>3, <1>4, <1>5, <1>6 DEF Next

LEMMA InitOnce == Init => OnceInv
<1> SUFFICES ASSUME Init PROVE Latest /\ Ahead /\ \A p \in Ops : Once(p)
  BY DEF OnceInv
<1>1. \A p \in Ops : op[p].pc = "idle"
  BY DEF Init, Idle
<1>2. kc = row.fp /\ prev = 0 /\ arrived = {} /\ edges = {} /\ stash = {} /\ row.fp \in {0, 1} /\ heads = {row.fp} \cap Tok
      /\ 1 \in Tok
  BY BoundsAssumption DEF Init, Tok
<1>3. \A c : (Candidate(c) => c = row.fp) /\ (Standing(c) => c = 0)
  BY <1>1, <1>2 DEF Candidate, Standing
<1> QED BY <1>1, <1>2, <1>3 DEF Latest, Ahead, Once, Open, Followed

-----------------------------------------------------------------------------
(* The last layer: the row's token descends from none that it had *)

\* What QLB knows of the slot beside auth.json: the former heads, the item, the stash, and what
\* processes have put or are about to put there.
Carries(q, y) ==
    \/ op[q].pc \in {"adopted", "imported"} /\ y = op[q].seen
    \/ op[q].pc = "adopted" /\ y = op[q].old[1]
    \/ op[q].pc \in Renewing \cup {"repair"} /\ y = op[q].cur
    \/ op[q].pc \in Answered /\ y = op[q].suc
Known(y) == y \in heads \/ y = kc \/ (\E x \in stash : y = x.to) \/ \E q \in Ops : Carries(q, y)
\* Nothing known descends from a login that the holder of the auth lock is the first to see.
Foremost(p) ==
    auth = p /\ op[p].pc \in Looked /\ op[p].seen \notin heads =>
      \A y : Known(y) => ~Reaches(grew, op[p].seen, y)
Behind(a) == skew \/ late \/ ~Reaches(grew, a, row.fp)
Adopting(p) == op[p].pc = "adopted" => ~Reaches(grew, op[p].seen, row.fp) /\ Behind(op[p].old[1])
\* A step does not take the row back.
Forward == Reaches(grew, row'.fp, row.fp) => skew' \/ late'
DescentInv == Behind(kc) /\ \A p \in Ops : Foremost(p) /\ Adopting(p)

LEMMA ReachUp ==
  ASSUME TypeInv, ShapeInv, NEW a \in Tok, NEW b, Reaches(grew, a, b)
  PROVE  b \in Tok /\ a < b
<1> DEFINE S == {z \in Tok : a <= z}
<1>1. \A z \in Tok : z \in Nat
  BY Numbers, TokFacts
<1>2. a \in S /\ S \in SUBSET Tok
  BY <1>1
<1>3. \A e \in grew : e[1] < e[2] /\ e[1] \in Tok /\ e[2] \in Tok
  BY DEF TypeInv, TypeOK, ShapeInv, Ordered
<1>4. \A e \in grew : e[1] \in S => e[2] \in S
  BY <1>1, <1>3
<1>5. b \in S /\ a # b
  <2> HIDE DEF S
  <2> QED BY <1>2, <1>4 DEF Reaches
<1> QED BY <1>1, <1>5
LEMMA ReachFrom ==
  ASSUME NEW E, NEW a \in Tok, \A e \in E : e[1] # a, NEW b
  PROVE  ~Reaches(E, a, b)
<1>1. {a} \in SUBSET Tok /\ a \in {a} /\ (\A e \in E : e[1] \in {a} => e[2] \in {a}) /\ (a # b => b \notin {a})
  OBVIOUS
<1> QED BY <1>1 DEF Reaches
\* An edge to a new token leads to nothing else.
LEMMA ReachFresh ==
  ASSUME NEW n \in Tok, NEW f, NEW E, NEW F, F \subseteq E \cup {<<f, n>>}, \A e \in E : e[1] # n, f # n,
         NEW a, NEW b, b # n, Reaches(F, a, b)
  PROVE  Reaches(E, a, b)
<1> SUFFICES ASSUME NEW S \in SUBSET Tok, a \in S, \A e \in E : e[1] \in S => e[2] \in S PROVE b \in S
  BY DEF Reaches
<1>1. S \cup {n} \in SUBSET Tok /\ a \in S \cup {n}
  OBVIOUS
<1>2. \A e \in F : e \in E \/ e[2] = n
  OBVIOUS
<1>3. \A e \in F : e[1] \in S \cup {n} => e[2] \in S \cup {n}
  BY <1>2
<1>4. b \in S \cup {n}
  BY <1>1, <1>3 DEF Reaches
<1> QED BY <1>4
\* A new token is reached through the edge that leads to it.
LEMMA ReachNew ==
  ASSUME NEW n, NEW f, NEW E, \A e \in E : e[2] # n, NEW a, a # n, Reaches(E \cup {<<f, n>>}, a, n)
  PROVE  a = f \/ Reaches(E, a, f)
<1> SUFFICES ASSUME a # f, NEW S \in SUBSET Tok, a \in S, \A e \in E : e[1] \in S => e[2] \in S, f \notin S PROVE FALSE
  BY DEF Reaches
<1>1. S \ {n} \in SUBSET Tok /\ a \in S \ {n}
  OBVIOUS
<1>2. \A e \in E \cup {<<f, n>>} : e \in E \/ e[1] = f
  OBVIOUS
<1>3. \A e \in E \cup {<<f, n>>} : e[1] \in S \ {n} => e[2] \in S \ {n}
  BY <1>2
<1>4. n \in S \ {n}
  BY <1>1, <1>3 DEF Reaches
<1> QED BY <1>4

LEMMA KnownGiven ==
  ASSUME TypeInv, ShapeInv, NEW y, Known(y)
  PROVE  y \in Given
<1>1. \A q \in Ops : Carries(q, y) => y \in Given
  BY DEF Carries, ShapeInv, Holds
<1> QED BY <1>1, ShapeFacts DEF Known
LEMMA KnownBy ==
  ASSUME NEW p \in Ops, NEW s, \A q \in Ops \ {p} : op'[q] = op[q], \A y \in heads' : Known(y), Known(kc') \/ kc' = s,
         \A x \in stash' : Known(x.to), \A y : Carries(p, y)' => Known(y) \/ y = s
  PROVE  \A y : Known(y)' => Known(y) \/ y = s
<1> SUFFICES ASSUME NEW y, Known(y)' PROVE Known(y) \/ y = s
  OBVIOUS
<1>1. ASSUME NEW q \in Ops, q # p, Carries(q, y)' PROVE Known(y)
  <2>1. Carries(q, y)
    BY <1>1 DEF Carries
  <2> QED BY <2>1 DEF Known
<1>2. y \in heads' \/ y = kc' \/ (\E x \in stash' : y = x.to) \/ \E q \in Ops : Carries(q, y)'
  BY DEF Known
<1> QED BY <1>1, <1>2
LEMMA ForemostStays ==
  ASSUME NEW p \in Ops, Foremost(p), op'[p].pc \in Looked => op[p].pc \in Looked /\ op'[p].seen = op[p].seen /\ auth' = auth,
         heads \subseteq heads', grew' = grew, \A y : Known(y)' => Known(y) \/ y = op[p].seen
  PROVE  Foremost(p)'
  BY DEF Foremost, Reaches
LEMMA ForemostLive ==
  ASSUME TypeInv, ShapeInv, NEW p \in Ops, op'[p].seen = live, live # 0, grew' = grew, heads' = heads
  PROVE  Foremost(p)'
<1>1. live \in Tok
  BY TokFacts, Types DEF TypeInv
<1>2. CASE live \in heads
  BY <1>2 DEF Foremost
<1>3. CASE \A e \in grew : e[1] # live
  <2>1. \A y : ~Reaches(grew, live, y)
    BY <1>1, <1>3, ReachFrom
  <2> QED BY <2>1 DEF Foremost
<1> QED BY <1>1, <1>2, <1>3 DEF ShapeInv, Ordered
\* A step of p alone.
LEMMA DescentBy ==
  ASSUME DescentInv, NEW p \in Ops, \A q \in Ops \ {p} : op'[q] = op[q], heads \subseteq heads', grew' = grew,
         skew => skew', late => late', Behind(kc)', Foremost(p)', Adopting(p)',
         (\A y : Known(y)' => Known(y)) \/ auth = p, auth' = auth \/ auth' \in {None, p},
         row'.fp = row.fp \/ \A q \in Ops \ {p} : op[q].pc # "adopted"
  PROVE  DescentInv'
<1> SUFFICES ASSUME NEW q \in Ops, q # p PROVE Foremost(q)' /\ Adopting(q)'
  BY DEF DescentInv
<1>1. op'[q] = op[q] /\ Foremost(q) /\ Adopting(q) /\ (auth' = q => auth = q)
  BY OpsAssumption DEF DescentInv
<1>2. Foremost(q)'
  BY <1>1 DEF Foremost
<1>3. Adopting(q)'
  BY <1>1 DEF Adopting, Behind
<1> QED BY <1>2, <1>3
\* A step that leaves the slot and its history alone.
LEMMA QuietDescent ==
  ASSUME TypeInv, ShapeInv, DescentInv, NEW p \in Ops, \A q \in Ops \ {p} : op'[q] = op[q], op'[p].pc # "adopted",
         row'.fp = row.fp, kc' = kc, stash' \subseteq stash, heads' = heads, grew' = grew, skew' = skew, late' = late,
         \A y : Carries(p, y)' => Known(y), auth' = auth \/ auth' \in {None, p},
         op'[p].pc \in Looked => \/ op[p].pc \in Looked /\ op'[p].seen = op[p].seen /\ auth' = auth
                                 \/ op'[p].seen = live /\ live # 0
  PROVE  DescentInv' /\ Forward
<1>1. \A y : Known(y)' => Known(y)
  <2>1. (\A y \in heads' : Known(y)) /\ Known(kc') /\ \A x \in stash' : Known(x.to)
    BY DEF Known
  <2> QED BY <2>1, KnownBy DEF Known
<1>2. Foremost(p)'
  BY <1>1, ForemostStays, ForemostLive DEF DescentInv, Foremost
<1>3. DescentInv'
  BY <1>1, <1>2, DescentBy DEF DescentInv, Behind, Adopting
<1> QED BY <1>3 DEF Forward, Reaches

\* A token is issued.
LEMMA Regrown ==
  ASSUME TypeInv, ShapeInv, NEW f \in Given, issued < MaxTok, grew' \subseteq grew \cup {<<f, issued + 1>>}
  PROVE  /\ issued + 1 \in Tok /\ issued + 1 \notin Given /\ \A e \in grew : e[1] # issued + 1 /\ e[2] # issued + 1
         /\ \A a, b : b \in Given /\ Reaches(grew', a, b) => Reaches(grew, a, b)
<1> DEFINE n == issued + 1
<1>1. issued \in Nat /\ n \notin Given /\ n \in Tok
  BY BoundsAssumption DEF TypeInv, TypeOK, Given, Tok, Tok0
<1>2. \A e \in grew : e[1] # n /\ e[2] # n
  <2>1. ASSUME NEW e \in grew PROVE e[1] # n /\ e[2] # n
    <3>1. e[1] \in Tok /\ e[1] < e[2] /\ e[2] \in Given
      BY DEF TypeInv, TypeOK, ShapeInv, Ordered
    <3> QED BY <1>1, <3>1, Numbers, TokFacts DEF Given
  <2> QED BY <2>1
<1> HIDE DEF n
<1>3. \A e \in grew : e[1] # n
  BY <1>2
<1>4. grew' \subseteq grew \cup {<<f, n>>} /\ f # n
  BY <1>1 DEF n
<1>5. ASSUME NEW a, NEW b, b \in Given, Reaches(grew', a, b) PROVE Reaches(grew, a, b)
  <2>1. b # n
    BY <1>1, <1>5
  <2> QED BY <1>1, <1>3, <1>4, <1>5, <2>1, ReachFresh
<1> QED BY <1>1, <1>2, <1>5 DEF n

LEMMA StartDescent ==
  ASSUME TypeInv, ShapeInv, DescentInv, NEW p \in Ops, Start(p)
  PROVE  DescentInv' /\ Forward
<1>1. StartStep(p)
  BY StartDoes DEF TypeInv
<1>2. Placed(p) /\ Holds(p) /\ Foremost(p) /\ Adopting(p) /\ Behind(kc)
  BY DEF TypeInv, ShapeInv, DescentInv
<1>3. \A y : Carries(p, y)' => Known(y)
  BY <1>1, <1>2 DEF StartStep, Idle, Carries, Known, Renewing, Answered
<1>4. op'[p].pc \in Looked => \/ op[p].pc \in Looked /\ op'[p].seen = op[p].seen /\ auth' = auth
                              \/ op'[p].seen = live /\ live # 0
  BY <1>1 DEF StartStep, Idle, Looked, Attributing
<1> QED BY <1>1, <1>2, <1>3, <1>4, QuietDescent DEF StartStep, Idle

LEMMA ObserveLiveDescent ==
  ASSUME TypeInv, ShapeInv, DescentInv, NEW p \in Ops, ObserveLive(p)
  PROVE  DescentInv' /\ Forward
<1>1. ObserveLiveStep(p)
  BY ObserveLiveDoes DEF TypeInv
<1>2. Placed(p) /\ Holds(p) /\ Foremost(p) /\ Adopting(p) /\ Behind(kc)
  BY DEF TypeInv, ShapeInv, DescentInv
<1>3. \A y : Carries(p, y)' => Known(y)
  BY <1>1, <1>2 DEF ObserveLiveStep, Idle, Carries, Known, Renewing, Answered
<1>4. op'[p].pc \in Looked => \/ op[p].pc \in Looked /\ op'[p].seen = op[p].seen /\ auth' = auth
                              \/ op'[p].seen = live /\ live # 0
  BY <1>1 DEF ObserveLiveStep, Idle, Looked, Attributing
<1> QED BY <1>1, <1>2, <1>3, <1>4, QuietDescent DEF ObserveLiveStep, Idle

LEMMA ReadFirstDescent ==
  ASSUME TypeInv, ShapeInv, DescentInv, NEW p \in Ops, ReadFirst(p)
  PROVE  DescentInv' /\ Forward
<1>1. ReadFirstStep(p)
  BY ReadFirstDoes DEF TypeInv
<1>2. Placed(p) /\ Holds(p) /\ Foremost(p) /\ Adopting(p) /\ Behind(kc)
  BY DEF TypeInv, ShapeInv, DescentInv
<1>3. \A y : Carries(p, y)' => Known(y)
  BY <1>1, <1>2 DEF ReadFirstStep, Idle, Carries, Known, Renewing, Answered
<1>4. op'[p].pc \in Looked => \/ op[p].pc \in Looked /\ op'[p].seen = op[p].seen /\ auth' = auth
                              \/ op'[p].seen = live /\ live # 0
  BY <1>1 DEF ReadFirstStep, Idle, Looked, Attributing
<1> QED BY <1>1, <1>2, <1>3, <1>4, QuietDescent DEF ReadFirstStep, Idle

LEMMA ReadSecondDescent ==
  ASSUME TypeInv, ShapeInv, DescentInv, NEW p \in Ops, ReadSecond(p)
  PROVE  DescentInv' /\ Forward
<1>1. ReadSecondStep(p)
  BY ReadSecondDoes DEF TypeInv
<1>2. Placed(p) /\ Holds(p) /\ Foremost(p) /\ Adopting(p) /\ Behind(kc)
  BY DEF TypeInv, ShapeInv, DescentInv
<1>3. \A y : Carries(p, y)' => Known(y)
  BY <1>1, <1>2 DEF ReadSecondStep, Idle, Carries, Known, Renewing, Answered
<1>4. op'[p].pc \in Looked => \/ op[p].pc \in Looked /\ op'[p].seen = op[p].seen /\ auth' = auth
                              \/ op'[p].seen = live /\ live # 0
  BY <1>1 DEF ReadSecondStep, Idle, Looked, Attributing
<1> QED BY <1>1, <1>2, <1>3, <1>4, QuietDescent DEF ReadSecondStep, Idle

LEMMA ImportNewDescent ==
  ASSUME TypeInv, ShapeInv, DescentInv, NEW p \in Ops, ImportNew(p)
  PROVE  DescentInv' /\ Forward
<1>1. ImportNewStep(p)
  BY ImportNewDoes DEF TypeInv
<1>2. Placed(p) /\ Holds(p) /\ Foremost(p) /\ Adopting(p) /\ Behind(kc)
  BY DEF TypeInv, ShapeInv, DescentInv
<1>3. CASE op'[p] = Idle
  <2>1. (\A y : ~Carries(p, y)') /\ op'[p].pc \notin Looked \cup {"adopted"}
    BY <1>3 DEF Idle, Carries, Renewing, Answered, Looked, Attributing
  <2> QED BY <1>1, <1>3, <2>1, QuietDescent DEF ImportNewStep, Idle
<1>4. CASE op'[p].pc = "imported"
  <2>1. /\ kc' = op[p].seen /\ auth = p /\ auth' = auth /\ op'[p].seen = op[p].seen /\ row'.fp = row.fp
        /\ late' = (late \/ row.fp \notin {0, op[p].seen}) /\ op[p].seen # 0
    BY <1>1, <1>2, <1>4 DEF ImportNewStep, Idle, Placed, Looked, Attributing
  <2>2. op[p].seen \in Tok /\ 0 \notin Tok
    BY <2>1, TokFacts DEF TypeInv, TypeOK, OpRec
  <2>3. Behind(kc)'
    <3>1. CASE row.fp \notin {0, op[p].seen}
      BY <2>1, <3>1 DEF Behind
    <3>2. CASE row.fp = op[p].seen
      BY <2>1, <3>2 DEF Behind, Reaches
    <3>3. CASE row.fp = 0
      <4>1. ~Reaches(grew, op[p].seen, 0)
        BY <2>2, ReachUp
      <4> QED BY <1>1, <2>1, <3>3, <4>1 DEF Behind, ImportNewStep
    <3> QED BY <3>1, <3>2, <3>3
  <2>4. \A y : Known(y)' => Known(y) \/ y = op[p].seen
    <3>1. \A y : Carries(p, y)' => y = op[p].seen
      BY <1>4, <2>1 DEF Carries, Renewing, Answered
    <3>2. (\A y \in heads' : Known(y)) /\ \A x \in stash' : Known(x.to)
      BY <1>1 DEF Known, ImportNewStep
    <3> QED BY <1>1, <2>1, <3>1, <3>2, KnownBy DEF ImportNewStep
  <2>5. Foremost(p)'
    BY <1>1, <1>2, <2>1, <2>4, ForemostStays DEF ImportNewStep, Looked, Attributing
  <2>6. DescentInv'
    BY <1>1, <1>4, <2>1, <2>3, <2>5, DescentBy DEF ImportNewStep, Adopting
  <2> QED BY <2>1, <2>6 DEF Forward, Reaches
<1> QED BY <1>1, <1>3, <1>4 DEF ImportNewStep

LEMMA ImportCommitDescent ==
  ASSUME TypeInv, ShapeInv, DescentInv, NEW p \in Ops, ImportCommit(p)
  PROVE  DescentInv' /\ Forward
<1>1. ImportCommitStep(p)
  BY ImportCommitDoes DEF TypeInv
<1>2. Placed(p) /\ Holds(p) /\ Foremost(p) /\ Adopting(p) /\ Behind(kc)
  BY DEF TypeInv, ShapeInv, DescentInv
<1>3. (\A y : ~Carries(p, y)') /\ Foremost(p)' /\ Adopting(p)'
  BY <1>1 DEF ImportCommitStep, Idle, Carries, Renewing, Answered, Foremost, Adopting, Looked, Attributing
<1>4. \A q \in Ops \ {p} : op[q].pc # "adopted"
  BY <1>1, <1>2 DEF ImportCommitStep, TypeInv, Placed, Transaction
<1>5. kc' = op[p].seen /\ kc' = kc /\ Carries(p, op[p].seen)
  BY <1>1, <1>2 DEF ImportCommitStep, Placed, Carries
<1>6. \A y : Known(y)' => Known(y)
  <2>1. (\A y \in heads' : Known(y)) /\ Known(kc) /\ \A x \in stash' : Known(x.to)
    BY <1>1, <1>5 DEF Known, ImportCommitStep
  <2> QED BY <1>1, <1>3, <1>5, <2>1, KnownBy DEF ImportCommitStep
<1>7. Behind(kc)' /\ Forward
  BY <1>1, <1>2, <1>5 DEF ImportCommitStep, Behind, Forward, Reaches
<1> QED BY <1>1, <1>3, <1>4, <1>6, <1>7, DescentBy DEF ImportCommitStep

LEMMA RepairSplitDescent ==
  ASSUME TypeInv, ShapeInv, DescentInv, NEW p \in Ops, RepairSplit(p)
  PROVE  DescentInv' /\ Forward
<1>1. RepairSplitStep(p)
  BY RepairSplitDoes DEF TypeInv
<1>2. Placed(p) /\ Holds(p) /\ Foremost(p) /\ Adopting(p) /\ Behind(kc)
  BY DEF TypeInv, ShapeInv, DescentInv
<1>3. \A y : ~Carries(p, y)'
  BY <1>1 DEF RepairSplitStep, Idle, Carries, Renewing, Answered
<1>4. Known(kc') /\ Behind(kc)'
  BY <1>1, <1>2, ShapeFacts DEF RepairSplitStep, Known, Behind, Reaches
<1>5. \A y : Known(y)' => Known(y)
  <2>1. (\A y \in heads' : Known(y)) /\ \A x \in stash' : Known(x.to)
    BY <1>1 DEF Known, RepairSplitStep
  <2> QED BY <1>1, <1>3, <1>4, <2>1, KnownBy DEF RepairSplitStep
<1>6. Foremost(p)'
  BY <1>1, <1>2, <1>5, ForemostStays DEF RepairSplitStep, Idle, Looked, Attributing
<1>7. Adopting(p)'
  BY <1>1 DEF RepairSplitStep, Idle, Adopting
<1>8. DescentInv'
  BY <1>1, <1>4, <1>5, <1>6, <1>7, DescentBy DEF RepairSplitStep
<1> QED BY <1>1, <1>8 DEF RepairSplitStep, Forward, Reaches

LEMMA NoopDescent ==
  ASSUME TypeInv, ShapeInv, DescentInv, NEW p \in Ops, Noop(p)
  PROVE  DescentInv' /\ Forward
<1>1. NoopStep(p)
  BY NoopDoes DEF TypeInv
<1>2. Placed(p) /\ Holds(p) /\ Foremost(p) /\ Adopting(p) /\ Behind(kc)
  BY DEF TypeInv, ShapeInv, DescentInv
<1>3. \A y : Carries(p, y)' => Known(y)
  BY <1>1, <1>2 DEF NoopStep, Idle, Carries, Known, Renewing, Answered
<1>4. op'[p].pc \in Looked => \/ op[p].pc \in Looked /\ op'[p].seen = op[p].seen /\ auth' = auth
                              \/ op'[p].seen = live /\ live # 0
  BY <1>1 DEF NoopStep, Idle, Looked, Attributing
<1> QED BY <1>1, <1>2, <1>3, <1>4, QuietDescent DEF NoopStep, Idle

LEMMA RepublishDescent ==
  ASSUME TypeInv, ShapeInv, DescentInv, NEW p \in Ops, Republish(p)
  PROVE  DescentInv' /\ Forward
<1>1. RepublishStep(p)
  BY RepublishDoes DEF TypeInv
<1>2. Placed(p) /\ Holds(p) /\ Foremost(p) /\ Adopting(p) /\ Behind(kc)
  BY DEF TypeInv, ShapeInv, DescentInv
<1>3. \A y : Carries(p, y)' => Known(y)
  BY <1>1, <1>2 DEF RepublishStep, Idle, Carries, Known, Renewing, Answered
<1>4. op'[p].pc \in Looked => \/ op[p].pc \in Looked /\ op'[p].seen = op[p].seen /\ auth' = auth
                              \/ op'[p].seen = live /\ live # 0
  BY <1>1 DEF RepublishStep, Idle, Looked, Attributing
<1> QED BY <1>1, <1>2, <1>3, <1>4, QuietDescent DEF RepublishStep, Idle

LEMMA PublishSlotDescent ==
  ASSUME TypeInv, ShapeInv, DescentInv, NEW p \in Ops, PublishSlot(p)
  PROVE  DescentInv' /\ Forward
<1>1. PublishSlotStep(p)
  BY PublishSlotDoes DEF TypeInv
<1>2. Placed(p) /\ Holds(p) /\ Foremost(p) /\ Adopting(p) /\ Behind(kc)
  BY DEF TypeInv, ShapeInv, DescentInv
<1>3. \A y : Carries(p, y)' => Known(y)
  BY <1>1, <1>2 DEF PublishSlotStep, Idle, Carries, Known, Renewing, Answered
<1>4. op'[p].pc \in Looked => \/ op[p].pc \in Looked /\ op'[p].seen = op[p].seen /\ auth' = auth
                              \/ op'[p].seen = live /\ live # 0
  BY <1>1 DEF PublishSlotStep, Idle, Looked, Attributing
<1> QED BY <1>1, <1>2, <1>3, <1>4, QuietDescent DEF PublishSlotStep, Idle

LEMMA MarkDescent ==
  ASSUME TypeInv, ShapeInv, DescentInv, NEW p \in Ops, Mark(p)
  PROVE  DescentInv' /\ Forward
<1>1. MarkStep(p)
  BY MarkDoes DEF TypeInv
<1>2. Placed(p) /\ Holds(p) /\ Foremost(p) /\ Adopting(p) /\ Behind(kc)
  BY DEF TypeInv, ShapeInv, DescentInv
<1>3. \A y : Carries(p, y)' => Known(y)
  BY <1>1, <1>2 DEF MarkStep, Idle, Carries, Known, Renewing, Answered
<1>4. op'[p].pc \in Looked => \/ op[p].pc \in Looked /\ op'[p].seen = op[p].seen /\ auth' = auth
                              \/ op'[p].seen = live /\ live # 0
  BY <1>1 DEF MarkStep, Idle, Looked, Attributing
<1> QED BY <1>1, <1>2, <1>3, <1>4, QuietDescent DEF MarkStep, Idle

LEMMA AdoptDescent ==
  ASSUME TypeInv, ShapeInv, DescentInv, NEW p \in Ops, Adopt(p)
  PROVE  DescentInv' /\ Forward
<1>1. AdoptStep(p)
  BY AdoptDoes DEF TypeInv
<1>2. Placed(p) /\ Holds(p) /\ Foremost(p) /\ Adopting(p) /\ Behind(kc)
  BY DEF TypeInv, ShapeInv, DescentInv
<1>3. CASE op'[p] = Idle
  <2>1. (\A y : ~Carries(p, y)') /\ op'[p].pc \notin Looked \cup {"adopted"}
    BY <1>3 DEF Idle, Carries, Renewing, Answered, Looked, Attributing
  <2> QED BY <1>1, <1>3, <2>1, QuietDescent DEF AdoptStep, Idle
<1>4. CASE op'[p].pc = "adopted"
  <2>1. /\ kc' = op[p].seen /\ op'[p].old = <<kc, prev>> /\ row.fp = op[p].row /\ op'[p].old[1] = kc
        /\ auth = p /\ auth' = auth /\ op'[p].seen = op[p].seen /\ row' = row /\ row.fp # 0 /\ op'[p].suc = op[p].suc
    BY <1>1, <1>2, <1>4, KindOf DEF AdoptStep, Idle, TypeInv, Placed, Attributing, Consuming, Renewing, Answered
  <2>2. op[p].seen \notin heads
    <3>1. SUFFICES ASSUME op[p].seen \in heads PROVE FALSE
      OBVIOUS
    <3>2. Reaches(edges, op[p].seen, op[p].row)
      BY <1>1, <2>1, <3>1 DEF AdoptStep, ShapeInv, Lineage
    <3>3. isSuccessor(op[p].seen, op[p].row)
      BY <3>2, ReachMore DEF isSuccessor
    <3> QED BY <1>1, <3>3 DEF AdoptStep
  <2>3. ~Reaches(grew, op[p].seen, row.fp)
    <3>1. Known(row.fp) /\ op[p].pc \in Looked
      BY <1>1, <2>1, ShapeFacts DEF AdoptStep, Known, Looked, Attributing
    <3> QED BY <1>2, <2>1, <2>2, <3>1 DEF Foremost
  <2>4. \A y : Known(y)' => Known(y) \/ y = op[p].seen
    <3>1. \A y : Carries(p, y)' => y = op[p].seen \/ y = kc
      BY <1>4, <2>1 DEF Carries, Renewing, Answered
    <3>2. (\A y \in heads' : Known(y)) /\ Known(kc) /\ \A x \in stash' : Known(x.to)
      BY <1>1 DEF Known, AdoptStep
    <3> QED BY <1>1, <2>1, <3>1, <3>2, KnownBy DEF AdoptStep
  <2>5. Foremost(p)'
    BY <1>1, <1>2, <2>1, <2>4, ForemostStays DEF AdoptStep, Looked, Attributing
  <2>6. Behind(kc)' /\ Adopting(p)'
    <3>1. grew' = grew /\ skew' = skew /\ late' = late
      BY <1>1 DEF AdoptStep
    <3> QED BY <1>2, <2>1, <2>3, <3>1 DEF Behind, Adopting
  <2>7. DescentInv'
    BY <1>1, <2>1, <2>5, <2>6, DescentBy DEF AdoptStep
  <2> QED BY <2>1, <2>7 DEF Forward, Reaches
<1> QED BY <1>1, <1>3, <1>4 DEF AdoptStep

LEMMA AdoptCommitDescent ==
  ASSUME TypeInv, ShapeInv, DescentInv, NEW p \in Ops, AdoptCommit(p)
  PROVE  DescentInv' /\ Forward
<1>1. AdoptCommitStep(p)
  BY AdoptCommitDoes DEF TypeInv
<1>2. Placed(p) /\ Holds(p) /\ Foremost(p) /\ Adopting(p) /\ Behind(kc)
  BY DEF TypeInv, ShapeInv, DescentInv
<1>3. (\A y : ~Carries(p, y)') /\ Foremost(p)' /\ Adopting(p)'
  BY <1>1 DEF AdoptCommitStep, Idle, Carries, Renewing, Answered, Foremost, Adopting, Looked, Attributing
<1>4. \A q \in Ops \ {p} : op[q].pc # "adopted"
  BY <1>1, <1>2 DEF AdoptCommitStep, TypeInv, Placed, Transaction
<1>5. kc' = op[p].seen /\ kc' = kc /\ Carries(p, op[p].seen)
  BY <1>1, <1>2 DEF AdoptCommitStep, Placed, Carries
<1>6. \A y : Known(y)' => Known(y)
  <2>1. (\A y \in heads' : Known(y)) /\ Known(kc) /\ \A x \in stash' : Known(x.to)
    BY <1>1, <1>5 DEF Known, AdoptCommitStep
  <2> QED BY <1>1, <1>3, <1>5, <2>1, KnownBy DEF AdoptCommitStep
<1>7. Behind(kc)' /\ Forward
  BY <1>1, <1>2, <1>5 DEF AdoptCommitStep, Behind, Adopting, Forward, Reaches
<1> QED BY <1>1, <1>3, <1>4, <1>6, <1>7, DescentBy DEF AdoptCommitStep

LEMMA AdoptUndoDescent ==
  ASSUME TypeInv, ShapeInv, DescentInv, NEW p \in Ops, AdoptUndo(p)
  PROVE  DescentInv' /\ Forward
<1>1. AdoptUndoStep(p)
  BY AdoptUndoDoes DEF TypeInv
<1>2. Placed(p) /\ Holds(p) /\ Foremost(p) /\ Adopting(p) /\ Behind(kc)
  BY DEF TypeInv, ShapeInv, DescentInv
<1>3. (\A y : ~Carries(p, y)') /\ Foremost(p)' /\ Adopting(p)'
  BY <1>1 DEF AdoptUndoStep, Idle, Carries, Renewing, Answered, Foremost, Adopting, Looked, Attributing
<1>4. kc' = op[p].old[1] /\ Carries(p, op[p].old[1])
  BY <1>1, <1>2 DEF AdoptUndoStep, Placed, Carries
<1>5. \A y : Known(y)' => Known(y)
  <2>1. (\A y \in heads' : Known(y)) /\ Known(kc') /\ \A x \in stash' : Known(x.to)
    BY <1>1, <1>4 DEF Known, AdoptUndoStep
  <2> QED BY <1>1, <1>3, <2>1, KnownBy DEF AdoptUndoStep
<1>6. Behind(kc)'
  BY <1>1, <1>2, <1>4 DEF AdoptUndoStep, Behind, Adopting
<1>7. DescentInv'
  BY <1>1, <1>3, <1>5, <1>6, DescentBy DEF AdoptUndoStep
<1> QED BY <1>1, <1>7 DEF AdoptUndoStep, Forward, Reaches

LEMMA DueDescent ==
  ASSUME TypeInv, ShapeInv, DescentInv, NEW p \in Ops, Due(p)
  PROVE  DescentInv' /\ Forward
<1>1. DueStep(p)
  BY DueDoes DEF TypeInv
<1>2. Placed(p) /\ Holds(p) /\ Foremost(p) /\ Adopting(p) /\ Behind(kc)
  BY DEF TypeInv, ShapeInv, DescentInv
<1>3. \A y : Carries(p, y)' => Known(y)
  BY <1>1, <1>2 DEF DueStep, Idle, Carries, Known, Renewing, Answered
<1>4. op'[p].pc \in Looked => \/ op[p].pc \in Looked /\ op'[p].seen = op[p].seen /\ auth' = auth
                              \/ op'[p].seen = live /\ live # 0
  BY <1>1 DEF DueStep, Idle, Looked, Attributing
<1> QED BY <1>1, <1>2, <1>3, <1>4, QuietDescent DEF DueStep, Idle

LEMMA ReadSlotDescent ==
  ASSUME TypeInv, ShapeInv, DescentInv, NEW p \in Ops, ReadSlot(p)
  PROVE  DescentInv' /\ Forward
<1>1. ReadSlotStep(p)
  BY ReadSlotDoes DEF TypeInv
<1>2. Placed(p) /\ Holds(p) /\ Foremost(p) /\ Adopting(p) /\ Behind(kc)
  BY DEF TypeInv, ShapeInv, DescentInv
<1>3. \A y : Carries(p, y)' => Known(y)
  BY <1>1, <1>2 DEF ReadSlotStep, Idle, Carries, Known, Renewing, Answered
<1>4. op'[p].pc \in Looked => \/ op[p].pc \in Looked /\ op'[p].seen = op[p].seen /\ auth' = auth
                              \/ op'[p].seen = live /\ live # 0
  BY <1>1 DEF ReadSlotStep, Idle, Looked, Attributing
<1> QED BY <1>1, <1>2, <1>3, <1>4, QuietDescent DEF ReadSlotStep, Idle

LEMMA RepairDriftDescent ==
  ASSUME TypeInv, ShapeInv, DescentInv, NEW p \in Ops, RepairDrift(p)
  PROVE  DescentInv' /\ Forward
<1>1. RepairDriftStep(p)
  BY RepairDriftDoes DEF TypeInv
<1>2. Placed(p) /\ Holds(p) /\ Foremost(p) /\ Adopting(p) /\ Behind(kc)
  BY DEF TypeInv, ShapeInv, DescentInv
<1>3. Foremost(p)' /\ Adopting(p)' /\ Carries(p, op[p].cur)
  BY <1>1 DEF RepairDriftStep, Idle, Carries, Foremost, Adopting, Looked, Attributing
<1>4. \A y : Carries(p, y)' => Carries(p, y)
  BY <1>1 DEF RepairDriftStep, Idle, Carries, Renewing, Answered
<1>5. \A y : Known(y)' => Known(y)
  <2>1. (\A y \in heads' : Known(y)) /\ Known(kc') /\ (\A x \in stash' : Known(x.to)) /\ \A y : Carries(p, y)' => Known(y)
    BY <1>1, <1>3, <1>4 DEF Known, RepairDriftStep
  <2> QED BY <1>1, <2>1, KnownBy DEF RepairDriftStep
<1>6. \A q \in Ops \ {p} : op[q].pc # "adopted"
  BY <1>1, OpsAssumption DEF RepairDriftStep, TypeInv, Placed, Transaction
<1>7. Behind(kc)' /\ Forward
  <2>1. CASE row'.fp = row.fp /\ skew' = skew
    BY <1>1, <1>2, <2>1 DEF RepairDriftStep, Behind, Forward, Reaches
  <2>2. CASE row'.fp = op[p].cur /\ skew' = (skew \/ kc # op[p].cur)
    <3>1. CASE kc # op[p].cur
      BY <2>2, <3>1 DEF Behind, Forward
    <3>2. CASE kc = op[p].cur
      BY <1>1, <1>2, <2>2, <3>2 DEF RepairDriftStep, Behind, Forward, Reaches
    <3> QED BY <3>1, <3>2
  <2> QED BY <1>1, <2>1, <2>2 DEF RepairDriftStep
<1>8. skew => skew'
  BY <1>1 DEF RepairDriftStep
<1> QED BY <1>1, <1>3, <1>5, <1>6, <1>7, <1>8, DescentBy DEF RepairDriftStep

LEMMA FindStashedDescent ==
  ASSUME TypeInv, ShapeInv, DescentInv, NEW p \in Ops, FindStashed(p)
  PROVE  DescentInv' /\ Forward
<1>1. FindStashedStep(p)
  BY FindStashedDoes DEF TypeInv
<1>2. Placed(p) /\ Holds(p) /\ Foremost(p) /\ Adopting(p) /\ Behind(kc)
  BY DEF TypeInv, ShapeInv, DescentInv
<1>3. \A y : Carries(p, y)' => Known(y)
  BY <1>1, <1>2 DEF FindStashedStep, Idle, Carries, Known, Renewing, Answered
<1>4. op'[p].pc \in Looked => \/ op[p].pc \in Looked /\ op'[p].seen = op[p].seen /\ auth' = auth
                              \/ op'[p].seen = live /\ live # 0
  BY <1>1 DEF FindStashedStep, Idle, Looked, Attributing
<1> QED BY <1>1, <1>2, <1>3, <1>4, QuietDescent DEF FindStashedStep, Idle

LEMMA PostDescent ==
  ASSUME TypeInv, ShapeInv, DescentInv, NEW p \in Ops, Post(p)
  PROVE  DescentInv' /\ Forward
<1>1. PostStep(p)
  BY PostDoes DEF TypeInv
<1>2. Placed(p) /\ Holds(p) /\ Foremost(p) /\ Adopting(p) /\ Behind(kc)
  BY DEF TypeInv, ShapeInv, DescentInv
<1>3. op[p].cur \in Given /\ op[p].cur \in heads /\ row.fp \in Given /\ kc \in Given
  BY <1>1, <1>2, ShapeFacts DEF PostStep, Holds, Renewing
<1> DEFINE n == issued + 1
<1>4. /\ n \in Tok /\ n \notin Given /\ \A e \in grew : e[1] # n /\ e[2] # n
      /\ \A a, b : b \in Given /\ Reaches(grew', a, b) => Reaches(grew, a, b)
  BY <1>1, <1>3, Regrown DEF PostStep
<1>5. grew' = grew \cup {<<op[p].cur, n>>} /\ (\A y : Carries(p, y)' => Known(y) \/ y = n)
  BY <1>1, <1>3 DEF PostStep, Idle, Carries, Known, Renewing, Answered
<1> HIDE DEF n
<1>6. \A y : Known(y)' => Known(y) \/ y = n
  <2>1. (\A y \in heads' : Known(y)) /\ Known(kc') /\ \A x \in stash' : Known(x.to)
    BY <1>1 DEF Known, PostStep
  <2> QED BY <1>1, <1>5, <2>1, KnownBy DEF PostStep
<1>7. Behind(kc)'
  BY <1>1, <1>2, <1>3, <1>4 DEF PostStep, Behind
<1>8. ASSUME NEW q \in Ops, q # p PROVE Foremost(q)' /\ Adopting(q)'
  <2>1. op'[q] = op[q] /\ Foremost(q) /\ Adopting(q) /\ (auth' = q => auth = q) /\ (op[q].pc \in Looked => op[q].seen \in Given)
    BY <1>1, <1>8, OpsAssumption DEF PostStep, DescentInv, ShapeInv, Holds
  <2>2. Foremost(q)'
    <3>1. SUFFICES ASSUME auth = q, op[q].pc \in Looked, op[q].seen \notin heads, NEW y, Known(y) \/ y = n,
                          Reaches(grew', op[q].seen, y)
                   PROVE  FALSE
      BY <1>1, <1>6, <2>1 DEF Foremost, PostStep
    <3>2. CASE Known(y)
      BY <1>4, <2>1, <3>1, <3>2, KnownGiven DEF Foremost
    <3>3. CASE y = n
      <4>1. op[q].seen # n /\ \A e \in grew : e[2] # n
        BY <1>4, <2>1, <3>1
      <4>2. op[q].seen = op[p].cur \/ Reaches(grew, op[q].seen, op[p].cur)
        BY <1>5, <3>1, <3>3, <4>1, ReachNew
      <4> QED BY <1>3, <2>1, <3>1, <4>2 DEF Foremost, Known
    <3> QED BY <3>1, <3>2, <3>3
  <2>3. Adopting(q)'
    BY <1>1, <1>3, <1>4, <2>1 DEF Adopting, Behind, PostStep
  <2> QED BY <2>2, <2>3
<1>9. Foremost(p)' /\ Adopting(p)' /\ Forward
  BY <1>1 DEF PostStep, Idle, Foremost, Adopting, Looked, Attributing, Forward, Reaches
<1> QED BY <1>7, <1>8, <1>9 DEF DescentInv

LEMMA PostRejectedDescent ==
  ASSUME TypeInv, ShapeInv, DescentInv, NEW p \in Ops, PostRejected(p)
  PROVE  DescentInv' /\ Forward
<1>1. PostRejectedStep(p)
  BY PostRejectedDoes DEF TypeInv
<1>2. Placed(p) /\ Holds(p) /\ Foremost(p) /\ Adopting(p) /\ Behind(kc)
  BY DEF TypeInv, ShapeInv, DescentInv
<1>3. \A y : Carries(p, y)' => Known(y)
  BY <1>1, <1>2 DEF PostRejectedStep, Idle, Carries, Known, Renewing, Answered
<1>4. op'[p].pc \in Looked => \/ op[p].pc \in Looked /\ op'[p].seen = op[p].seen /\ auth' = auth
                              \/ op'[p].seen = live /\ live # 0
  BY <1>1 DEF PostRejectedStep, Idle, Looked, Attributing
<1> QED BY <1>1, <1>2, <1>3, <1>4, QuietDescent DEF PostRejectedStep, Idle

LEMMA PostFailedDescent ==
  ASSUME TypeInv, ShapeInv, DescentInv, NEW p \in Ops, PostFailed(p)
  PROVE  DescentInv' /\ Forward
<1>1. PostFailedStep(p)
  BY PostFailedDoes DEF TypeInv
<1>2. Placed(p) /\ Holds(p) /\ Foremost(p) /\ Adopting(p) /\ Behind(kc)
  BY DEF TypeInv, ShapeInv, DescentInv
<1>3. \A y : Carries(p, y)' => Known(y)
  BY <1>1, <1>2 DEF PostFailedStep, Idle, Carries, Known, Renewing, Answered
<1>4. op'[p].pc \in Looked => \/ op[p].pc \in Looked /\ op'[p].seen = op[p].seen /\ auth' = auth
                              \/ op'[p].seen = live /\ live # 0
  BY <1>1 DEF PostFailedStep, Idle, Looked, Attributing
<1> QED BY <1>1, <1>2, <1>3, <1>4, QuietDescent DEF PostFailedStep, Idle

LEMMA RejectedDescent ==
  ASSUME TypeInv, ShapeInv, DescentInv, NEW p \in Ops, Rejected(p)
  PROVE  DescentInv' /\ Forward
<1>1. RejectedStep(p)
  BY RejectedDoes DEF TypeInv
<1>2. Placed(p) /\ Holds(p) /\ Foremost(p) /\ Adopting(p) /\ Behind(kc)
  BY DEF TypeInv, ShapeInv, DescentInv
<1>3. \A y : Carries(p, y)' => Known(y)
  BY <1>1, <1>2 DEF RejectedStep, Idle, Carries, Known, Renewing, Answered
<1>4. op'[p].pc \in Looked => \/ op[p].pc \in Looked /\ op'[p].seen = op[p].seen /\ auth' = auth
                              \/ op'[p].seen = live /\ live # 0
  BY <1>1 DEF RejectedStep, Idle, Looked, Attributing
<1> QED BY <1>1, <1>2, <1>3, <1>4, QuietDescent DEF RejectedStep, Idle

LEMMA RecordRejectedDescent ==
  ASSUME TypeInv, ShapeInv, DescentInv, NEW p \in Ops, RecordRejected(p)
  PROVE  DescentInv' /\ Forward
<1>1. RecordRejectedStep(p)
  BY RecordRejectedDoes DEF TypeInv
<1>2. Placed(p) /\ Holds(p) /\ Foremost(p) /\ Adopting(p) /\ Behind(kc)
  BY DEF TypeInv, ShapeInv, DescentInv
<1>3. \A y : Carries(p, y)' => Known(y)
  BY <1>1, <1>2 DEF RecordRejectedStep, Idle, Carries, Known, Renewing, Answered
<1>4. op'[p].pc \in Looked => \/ op[p].pc \in Looked /\ op'[p].seen = op[p].seen /\ auth' = auth
                              \/ op'[p].seen = live /\ live # 0
  BY <1>1 DEF RecordRejectedStep, Idle, Looked, Attributing
<1> QED BY <1>1, <1>2, <1>3, <1>4, QuietDescent DEF RecordRejectedStep, Idle

LEMMA GotSuccessorDescent ==
  ASSUME TypeInv, ShapeInv, DescentInv, NEW p \in Ops, GotSuccessor(p)
  PROVE  DescentInv' /\ Forward
<1>1. GotSuccessorStep(p)
  BY GotSuccessorDoes DEF TypeInv
<1>2. Placed(p) /\ Holds(p) /\ Foremost(p) /\ Adopting(p) /\ Behind(kc)
  BY DEF TypeInv, ShapeInv, DescentInv
<1>3. \A y : Carries(p, y)' => Known(y)
  BY <1>1, <1>2 DEF GotSuccessorStep, Idle, Carries, Known, Renewing, Answered
<1>4. op'[p].pc \in Looked => \/ op[p].pc \in Looked /\ op'[p].seen = op[p].seen /\ auth' = auth
                              \/ op'[p].seen = live /\ live # 0
  BY <1>1 DEF GotSuccessorStep, Idle, Looked, Attributing
<1> QED BY <1>1, <1>2, <1>3, <1>4, QuietDescent DEF GotSuccessorStep, Idle

LEMMA PersistBeginDescent ==
  ASSUME TypeInv, ShapeInv, DescentInv, NEW p \in Ops, PersistBegin(p)
  PROVE  DescentInv' /\ Forward
<1>1. PersistBeginStep(p)
  BY PersistBeginDoes DEF TypeInv
<1>2. Placed(p) /\ Holds(p) /\ Foremost(p) /\ Adopting(p) /\ Behind(kc)
  BY DEF TypeInv, ShapeInv, DescentInv
<1>3. \A y : Carries(p, y)' => Known(y)
  BY <1>1, <1>2 DEF PersistBeginStep, Idle, Carries, Known, Renewing, Answered
<1>4. op'[p].pc \in Looked => \/ op[p].pc \in Looked /\ op'[p].seen = op[p].seen /\ auth' = auth
                              \/ op'[p].seen = live /\ live # 0
  BY <1>1 DEF PersistBeginStep, Idle, Looked, Attributing
<1> QED BY <1>1, <1>2, <1>3, <1>4, QuietDescent DEF PersistBeginStep, Idle

LEMMA PersistWriteDescent ==
  ASSUME TypeInv, ShapeInv, DescentInv, NEW p \in Ops, PersistWrite(p)
  PROVE  DescentInv' /\ Forward
<1>1. PersistWriteStep(p)
  BY PersistWriteDoes DEF TypeInv
<1>2. Placed(p) /\ Holds(p) /\ Foremost(p) /\ Adopting(p) /\ Behind(kc)
  BY DEF TypeInv, ShapeInv, DescentInv
<1>3. Foremost(p)' /\ Adopting(p)' /\ Carries(p, op[p].cur) /\ Carries(p, op[p].suc)
  BY <1>1 DEF PersistWriteStep, Idle, Carries, Renewing, Answered, Foremost, Adopting, Looked, Attributing
<1>4. \A y : Carries(p, y)' => Carries(p, y)
  BY <1>1 DEF PersistWriteStep, Idle, Carries, Renewing, Answered
<1>5. \A y : Known(y)' => Known(y)
  <2>1. \A x \in stash' : x \in stash \/ x.to = op[p].suc
    BY <1>1 DEF PersistWriteStep
  <2>2. (\A y \in heads' : Known(y)) /\ Known(kc') /\ (\A x \in stash' : Known(x.to)) /\ \A y : Carries(p, y)' => Known(y)
    BY <1>1, <1>3, <1>4, <2>1 DEF Known, PersistWriteStep
  <2> QED BY <1>1, <2>2, KnownBy DEF PersistWriteStep
<1>6. \A q \in Ops \ {p} : op[q].pc # "adopted"
  BY <1>1, <1>2 DEF PersistWriteStep, TypeInv, Placed, Transaction
<1>7. row.fp = op[p].cur /\ ~Reaches(grew, op[p].suc, op[p].cur)
  <2>1. /\ <<op[p].cur, op[p].suc>> \in grew /\ row.fp = op[p].cur /\ op[p].suc # 0
    BY <1>1, <1>2 DEF PersistWriteStep, Holds, Placed, Answered
  <2>2. <<op[p].cur, op[p].suc>>[1] < <<op[p].cur, op[p].suc>>[2] /\ op[p].suc \in Tok /\ op[p].cur \in Tok
    BY <2>1 DEF ShapeInv, Ordered, TypeInv, TypeOK
  <2>3. op[p].cur < op[p].suc /\ op[p].cur \in Nat /\ op[p].suc \in Nat
    BY <2>2, Numbers, TokFacts
  <2> QED BY <2>1, <2>2, <2>3, ReachUp
<1>8. Behind(kc)' /\ Forward
  BY <1>1, <1>2, <1>7 DEF PersistWriteStep, Behind, Forward, Reaches
<1> QED BY <1>1, <1>3, <1>5, <1>6, <1>8, DescentBy DEF PersistWriteStep

LEMMA PersistCommitDescent ==
  ASSUME TypeInv, ShapeInv, DescentInv, NEW p \in Ops, PersistCommit(p)
  PROVE  DescentInv' /\ Forward
<1>1. PersistCommitStep(p)
  BY PersistCommitDoes DEF TypeInv
<1>2. Placed(p) /\ Holds(p) /\ Foremost(p) /\ Adopting(p) /\ Behind(kc)
  BY DEF TypeInv, ShapeInv, DescentInv
<1>3. Foremost(p)' /\ Adopting(p)' /\ Carries(p, op[p].cur) /\ Carries(p, op[p].suc)
  BY <1>1 DEF PersistCommitStep, Idle, Carries, Renewing, Answered, Foremost, Adopting, Looked, Attributing
<1>4. \A y : Carries(p, y)' => Carries(p, y)
  BY <1>1 DEF PersistCommitStep, Idle, Carries, Renewing, Answered
<1>5. \A y : Known(y)' => Known(y)
  <2>1. \A x \in stash' : x \in stash \/ x.to = op[p].suc
    BY <1>1 DEF PersistCommitStep
  <2>2. (\A y \in heads' : Known(y)) /\ Known(kc') /\ (\A x \in stash' : Known(x.to)) /\ \A y : Carries(p, y)' => Known(y)
    BY <1>1, <1>3, <1>4, <2>1 DEF Known, PersistCommitStep
  <2> QED BY <1>1, <2>2, KnownBy DEF PersistCommitStep
<1>6. \A q \in Ops \ {p} : op[q].pc # "adopted"
  BY <1>1, <1>2 DEF PersistCommitStep, TypeInv, Placed, Transaction
<1>7. row.fp = op[p].cur /\ ~Reaches(grew, op[p].suc, op[p].cur) /\ kc = op[p].suc
  <2>1. /\ <<op[p].cur, op[p].suc>> \in grew /\ row.fp = op[p].cur /\ op[p].suc # 0 /\ kc = op[p].suc
    BY <1>1, <1>2 DEF PersistCommitStep, Holds, Placed, Answered
  <2>2. <<op[p].cur, op[p].suc>>[1] < <<op[p].cur, op[p].suc>>[2] /\ op[p].suc \in Tok /\ op[p].cur \in Tok
    BY <2>1 DEF ShapeInv, Ordered, TypeInv, TypeOK
  <2>3. op[p].cur < op[p].suc /\ op[p].cur \in Nat /\ op[p].suc \in Nat
    BY <2>2, Numbers, TokFacts
  <2> QED BY <2>1, <2>2, <2>3, ReachUp
<1>8. Behind(kc)' /\ Forward
  BY <1>1, <1>2, <1>7 DEF PersistCommitStep, Behind, Forward, Reaches
<1> QED BY <1>1, <1>3, <1>5, <1>6, <1>8, DescentBy DEF PersistCommitStep

LEMMA PersistLockLostDescent ==
  ASSUME TypeInv, ShapeInv, DescentInv, NEW p \in Ops, PersistLockLost(p)
  PROVE  DescentInv' /\ Forward
<1>1. PersistLockLostStep(p)
  BY PersistLockLostDoes DEF TypeInv
<1>2. Placed(p) /\ Holds(p) /\ Foremost(p) /\ Adopting(p) /\ Behind(kc)
  BY DEF TypeInv, ShapeInv, DescentInv
<1>3. \A y : Carries(p, y)' => Known(y)
  BY <1>1, <1>2 DEF PersistLockLostStep, Idle, Carries, Known, Renewing, Answered
<1>4. op'[p].pc \in Looked => \/ op[p].pc \in Looked /\ op'[p].seen = op[p].seen /\ auth' = auth
                              \/ op'[p].seen = live /\ live # 0
  BY <1>1 DEF PersistLockLostStep, Idle, Looked, Attributing
<1> QED BY <1>1, <1>2, <1>3, <1>4, QuietDescent DEF PersistLockLostStep, Idle

LEMMA PersistSaveDescent ==
  ASSUME TypeInv, ShapeInv, DescentInv, NEW p \in Ops, PersistSave(p)
  PROVE  DescentInv' /\ Forward
<1>1. PersistSaveStep(p)
  BY PersistSaveDoes DEF TypeInv
<1>2. Placed(p) /\ Holds(p) /\ Foremost(p) /\ Adopting(p) /\ Behind(kc)
  BY DEF TypeInv, ShapeInv, DescentInv
<1>3. Foremost(p)' /\ Adopting(p)' /\ Carries(p, op[p].cur) /\ Carries(p, op[p].suc)
  BY <1>1 DEF PersistSaveStep, Idle, Carries, Renewing, Answered, Foremost, Adopting, Looked, Attributing
<1>4. \A y : Carries(p, y)' => Carries(p, y)
  BY <1>1 DEF PersistSaveStep, Idle, Carries, Renewing, Answered
<1>5. \A y : Known(y)' => Known(y)
  <2>1. \A x \in stash' : x \in stash \/ x.to = op[p].suc
    BY <1>1 DEF PersistSaveStep
  <2>2. (\A y \in heads' : Known(y)) /\ Known(kc') /\ (\A x \in stash' : Known(x.to)) /\ \A y : Carries(p, y)' => Known(y)
    BY <1>1, <1>3, <1>4, <2>1 DEF Known, PersistSaveStep
  <2> QED BY <1>1, <2>2, KnownBy DEF PersistSaveStep
<1>6. \A q \in Ops \ {p} : op[q].pc # "adopted"
  BY <1>1, <1>2 DEF PersistSaveStep, TypeInv, Placed, Transaction
<1>7. row.fp = op[p].cur /\ ~Reaches(grew, op[p].suc, op[p].cur)
  <2>1. /\ <<op[p].cur, op[p].suc>> \in grew /\ row.fp = op[p].cur /\ op[p].suc # 0
    BY <1>1, <1>2 DEF PersistSaveStep, Holds, Placed, Answered
  <2>2. <<op[p].cur, op[p].suc>>[1] < <<op[p].cur, op[p].suc>>[2] /\ op[p].suc \in Tok /\ op[p].cur \in Tok
    BY <2>1 DEF ShapeInv, Ordered, TypeInv, TypeOK
  <2>3. op[p].cur < op[p].suc /\ op[p].cur \in Nat /\ op[p].suc \in Nat
    BY <2>2, Numbers, TokFacts
  <2> QED BY <2>1, <2>2, <2>3, ReachUp
<1>8. Behind(kc)' /\ Forward
  BY <1>1, <1>2, <1>7 DEF PersistSaveStep, Behind, Forward, Reaches
<1> QED BY <1>1, <1>3, <1>5, <1>6, <1>8, DescentBy DEF PersistSaveStep

LEMMA PersistUndoDescent ==
  ASSUME TypeInv, ShapeInv, DescentInv, NEW p \in Ops, PersistUndo(p)
  PROVE  DescentInv' /\ Forward
<1>1. PersistUndoStep(p)
  BY PersistUndoDoes DEF TypeInv
<1>2. Placed(p) /\ Holds(p) /\ Foremost(p) /\ Adopting(p) /\ Behind(kc)
  BY DEF TypeInv, ShapeInv, DescentInv
<1>3. Foremost(p)' /\ Adopting(p)' /\ Carries(p, op[p].cur) /\ Carries(p, op[p].suc)
  BY <1>1 DEF PersistUndoStep, Idle, Carries, Renewing, Answered, Foremost, Adopting, Looked, Attributing
<1>4. \A y : Carries(p, y)' => Carries(p, y)
  BY <1>1 DEF PersistUndoStep, Idle, Carries, Renewing, Answered
<1>5. \A y : Known(y)' => Known(y)
  <2>1. \A x \in stash' : x \in stash \/ x.to = op[p].suc
    BY <1>1 DEF PersistUndoStep
  <2>2. (\A y \in heads' : Known(y)) /\ Known(kc') /\ (\A x \in stash' : Known(x.to)) /\ \A y : Carries(p, y)' => Known(y)
    BY <1>1, <1>3, <1>4, <2>1 DEF Known, PersistUndoStep
  <2> QED BY <1>1, <2>2, KnownBy DEF PersistUndoStep
<1>6. \A q \in Ops \ {p} : op[q].pc # "adopted"
  BY <1>1, <1>2 DEF PersistUndoStep, TypeInv, Placed, Transaction
<1>7. row.fp = op[p].cur /\ ~Reaches(grew, op[p].suc, op[p].cur)
  <2>1. /\ <<op[p].cur, op[p].suc>> \in grew /\ row.fp = op[p].cur /\ op[p].suc # 0
    BY <1>1, <1>2 DEF PersistUndoStep, Holds, Placed, Answered
  <2>2. <<op[p].cur, op[p].suc>>[1] < <<op[p].cur, op[p].suc>>[2] /\ op[p].suc \in Tok /\ op[p].cur \in Tok
    BY <2>1 DEF ShapeInv, Ordered, TypeInv, TypeOK
  <2>3. op[p].cur < op[p].suc /\ op[p].cur \in Nat /\ op[p].suc \in Nat
    BY <2>2, Numbers, TokFacts
  <2> QED BY <2>1, <2>2, <2>3, ReachUp
<1>8. Behind(kc)' /\ Forward
  BY <1>1, <1>2, <1>7 DEF PersistUndoStep, Behind, Forward, Reaches
<1> QED BY <1>1, <1>3, <1>5, <1>6, <1>8, DescentBy DEF PersistUndoStep

LEMMA StashSuccessorDescent ==
  ASSUME TypeInv, ShapeInv, DescentInv, NEW p \in Ops, StashSuccessor(p)
  PROVE  DescentInv' /\ Forward
<1>1. StashSuccessorStep(p)
  BY StashSuccessorDoes DEF TypeInv
<1>2. Placed(p) /\ Holds(p) /\ Foremost(p) /\ Adopting(p) /\ Behind(kc)
  BY DEF TypeInv, ShapeInv, DescentInv
<1>3. Foremost(p)' /\ Adopting(p)' /\ Carries(p, op[p].cur) /\ Carries(p, op[p].suc)
  BY <1>1 DEF StashSuccessorStep, Idle, Carries, Renewing, Answered, Foremost, Adopting, Looked, Attributing
<1>4. \A y : Carries(p, y)' => Carries(p, y)
  BY <1>1 DEF StashSuccessorStep, Idle, Carries, Renewing, Answered
<1>5. \A y : Known(y)' => Known(y)
  <2>1. \A x \in stash' : x \in stash \/ x.to = op[p].suc
    BY <1>1 DEF StashSuccessorStep
  <2>2. (\A y \in heads' : Known(y)) /\ Known(kc') /\ (\A x \in stash' : Known(x.to)) /\ \A y : Carries(p, y)' => Known(y)
    BY <1>1, <1>3, <1>4, <2>1 DEF Known, StashSuccessorStep
  <2> QED BY <1>1, <2>2, KnownBy DEF StashSuccessorStep
<1>6. Behind(kc)' /\ Forward
  BY <1>1, <1>2 DEF StashSuccessorStep, Behind, Forward, Reaches
<1> QED BY <1>1, <1>3, <1>5, <1>6, DescentBy DEF StashSuccessorStep

LEMMA UnstashDescent ==
  ASSUME TypeInv, ShapeInv, DescentInv, NEW p \in Ops, Unstash(p)
  PROVE  DescentInv' /\ Forward
<1>1. UnstashStep(p)
  BY UnstashDoes DEF TypeInv
<1>2. Placed(p) /\ Holds(p) /\ Foremost(p) /\ Adopting(p) /\ Behind(kc)
  BY DEF TypeInv, ShapeInv, DescentInv
<1>3. \A y : Carries(p, y)' => Known(y)
  BY <1>1, <1>2 DEF UnstashStep, Idle, Carries, Known, Renewing, Answered
<1>4. op'[p].pc \in Looked => \/ op[p].pc \in Looked /\ op'[p].seen = op[p].seen /\ auth' = auth
                              \/ op'[p].seen = live /\ live # 0
  BY <1>1 DEF UnstashStep, Idle, Looked, Attributing
<1> QED BY <1>1, <1>2, <1>3, <1>4, QuietDescent DEF UnstashStep, Idle

LEMMA PublishCasDescent ==
  ASSUME TypeInv, ShapeInv, DescentInv, NEW p \in Ops, PublishCas(p)
  PROVE  DescentInv' /\ Forward
<1>1. PublishCasStep(p)
  BY PublishCasDoes DEF TypeInv
<1>2. Placed(p) /\ Holds(p) /\ Foremost(p) /\ Adopting(p) /\ Behind(kc)
  BY DEF TypeInv, ShapeInv, DescentInv
<1>3. \A y : Carries(p, y)' => Known(y)
  BY <1>1, <1>2 DEF PublishCasStep, Idle, Carries, Known, Renewing, Answered
<1>4. op'[p].pc \in Looked => \/ op[p].pc \in Looked /\ op'[p].seen = op[p].seen /\ auth' = auth
                              \/ op'[p].seen = live /\ live # 0
  BY <1>1, <1>2 DEF PublishCasStep, Idle, Looked, Attributing
<1> QED BY <1>1, <1>2, <1>3, <1>4, QuietDescent DEF PublishCasStep, Idle

LEMMA PublishRenameDescent ==
  ASSUME TypeInv, ShapeInv, DescentInv, NEW p \in Ops, PublishRename(p)
  PROVE  DescentInv' /\ Forward
<1>1. PublishRenameStep(p)
  BY PublishRenameDoes DEF TypeInv
<1>2. Placed(p) /\ Holds(p) /\ Foremost(p) /\ Adopting(p) /\ Behind(kc)
  BY DEF TypeInv, ShapeInv, DescentInv
<1>3. \A y : Carries(p, y)' => Known(y)
  BY <1>1, <1>2 DEF PublishRenameStep, Idle, Carries, Known, Renewing, Answered
<1>4. op'[p].pc \in Looked => \/ op[p].pc \in Looked /\ op'[p].seen = op[p].seen /\ auth' = auth
                              \/ op'[p].seen = live /\ live # 0
  BY <1>1 DEF PublishRenameStep, Idle, Looked, Attributing
<1> QED BY <1>1, <1>2, <1>3, <1>4, QuietDescent DEF PublishRenameStep, Idle

LEMMA PublishVerifyDescent ==
  ASSUME TypeInv, ShapeInv, DescentInv, NEW p \in Ops, PublishVerify(p)
  PROVE  DescentInv' /\ Forward
<1>1. PublishVerifyStep(p)
  BY PublishVerifyDoes DEF TypeInv
<1>2. Placed(p) /\ Holds(p) /\ Foremost(p) /\ Adopting(p) /\ Behind(kc)
  BY DEF TypeInv, ShapeInv, DescentInv
<1>3. \A y : Carries(p, y)' => Known(y)
  BY <1>1, <1>2 DEF PublishVerifyStep, Idle, Carries, Known, Renewing, Answered
<1>4. op'[p].pc \in Looked => \/ op[p].pc \in Looked /\ op'[p].seen = op[p].seen /\ auth' = auth
                              \/ op'[p].seen = live /\ live # 0
  BY <1>1 DEF PublishVerifyStep, Idle, Looked, Attributing
<1> QED BY <1>1, <1>2, <1>3, <1>4, QuietDescent DEF PublishVerifyStep, Idle

LEMMA CrashDescent ==
  ASSUME TypeInv, ShapeInv, DescentInv, NEW p \in Ops, Crash(p)
  PROVE  DescentInv' /\ Forward
<1>1. CrashStep(p)
  BY CrashDoes DEF TypeInv
<1>2. Placed(p) /\ Holds(p) /\ Foremost(p) /\ Adopting(p) /\ Behind(kc)
  BY DEF TypeInv, ShapeInv, DescentInv
<1>3. \A y : Carries(p, y)' => Known(y)
  BY <1>1, <1>2 DEF CrashStep, Idle, Carries, Known, Renewing, Answered
<1>4. op'[p].pc \in Looked => \/ op[p].pc \in Looked /\ op'[p].seen = op[p].seen /\ auth' = auth
                              \/ op'[p].seen = live /\ live # 0
  BY <1>1 DEF CrashStep, Idle, Looked, Attributing
<1> QED BY <1>1, <1>2, <1>3, <1>4, QuietDescent DEF CrashStep, Idle

\* A step of no process.
LEMMA NobodyDescent ==
  ASSUME TypeInv, ShapeInv, DescentInv, op' = op, row' = row, kc' = kc, stash' = stash, heads' = heads,
         skew' = skew, late' = late, auth' = auth \/ auth' = None,
         \A a, b : b \in Given /\ Reaches(grew', a, b) => Reaches(grew, a, b)
  PROVE  DescentInv' /\ Forward
<1>1. \A y : Known(y)' => Known(y)
  BY DEF Known, Carries
<1>2. row.fp \in Given
  BY ShapeFacts
<1>3. Behind(kc)'
  BY <1>2 DEF DescentInv, Behind
<1>4. ASSUME NEW q \in Ops PROVE Foremost(q)' /\ Adopting(q)'
  <2>1. Foremost(q) /\ Adopting(q) /\ (auth' = q => auth = q)
    BY OpsAssumption DEF DescentInv
  <2>2. Foremost(q)'
    BY <1>1, <2>1, KnownGiven DEF Foremost
  <2>3. Adopting(q)'
    BY <1>2, <2>1 DEF Adopting, Behind
  <2> QED BY <2>2, <2>3
<1> QED BY <1>3, <1>4 DEF DescentInv, Forward, Reaches
LEMMA LoseDescent ==
  ASSUME TypeInv, ShapeInv, DescentInv, NEW p \in Ops, LoseSwitchLock(p) \/ LoseAuthLock(p)
  PROVE  DescentInv' /\ Forward
  BY NobodyDescent DEF LoseSwitchLock, LoseAuthLock, slotVars, provider, history
LEMMA EnvDescent ==
  ASSUME TypeInv, ShapeInv, DescentInv, CodexStart \/ CodexExit \/ CodexRotate \/ CodexLogin \/ CodexLeave
  PROVE  DescentInv' /\ Forward
<1>1. \A a, b : b \in Given /\ Reaches(grew', a, b) => Reaches(grew, a, b)
  <2>1. CASE grew' = grew
    BY <2>1
  <2>2. CASE CodexRotate
    <3>1. codex \in Given /\ issued < MaxTok /\ grew' = grew \cup {<<codex, issued + 1>>}
      BY <2>2 DEF CodexRotate, ShapeInv, Ordered
    <3> QED BY <3>1, Regrown
  <2> QED BY <2>1, <2>2 DEF CodexStart, CodexExit, CodexLogin, CodexLeave
<1> QED BY <1>1, NobodyDescent DEF CodexStart, CodexExit, CodexRotate, CodexLogin, CodexLeave

LEMMA DescentStep == TypeInv /\ ShapeInv /\ DescentInv /\ [Next]_vars => DescentInv' /\ Forward
<1> SUFFICES ASSUME TypeInv, ShapeInv, DescentInv, [Next]_vars PROVE DescentInv' /\ Forward
  OBVIOUS
<1>1. CASE UNCHANGED vars
  BY <1>1 DEF vars, slotVars, liveVars, locks, provider, history, DescentInv, Foremost, Behind, Adopting, Known, Carries,
     Forward, Reaches
<1>2. CASE CodexStart \/ CodexExit \/ CodexRotate \/ CodexLogin \/ CodexLeave
  BY <1>2, EnvDescent
<1>3. ASSUME NEW p \in Ops, Start(p) \/ Crash(p) \/ LoseSwitchLock(p) \/ LoseAuthLock(p) PROVE DescentInv' /\ Forward
  BY <1>3, StartDescent, CrashDescent, LoseDescent
<1>4. ASSUME NEW p \in Ops, Attribute(p) PROVE DescentInv' /\ Forward
  BY <1>4, ObserveLiveDescent, ReadFirstDescent, ReadSecondDescent, ImportNewDescent,
     ImportCommitDescent, RepairSplitDescent, NoopDescent, RepublishDescent,
     PublishSlotDescent, MarkDescent, AdoptDescent, AdoptCommitDescent, AdoptUndoDescent,
     DueDescent DEF Attribute
<1>5. ASSUME NEW p \in Ops, Consume(p) PROVE DescentInv' /\ Forward
  BY <1>5, ReadSlotDescent, RepairDriftDescent, FindStashedDescent, PostDescent,
     PostRejectedDescent, PostFailedDescent, RejectedDescent, RecordRejectedDescent,
     GotSuccessorDescent, PersistBeginDescent, PersistWriteDescent, PersistCommitDescent,
     PersistLockLostDescent, PersistSaveDescent, PersistUndoDescent, StashSuccessorDescent,
     UnstashDescent DEF Consume
<1>6. ASSUME NEW p \in Ops, Publish(p) PROVE DescentInv' /\ Forward
  BY <1>6, PublishCasDescent, PublishRenameDescent, PublishVerifyDescent DEF Publish
<1> QED BY <1>1, <1>2, <1>3, <1>4, <1>5, <1>6 DEF Next

LEMMA InitDescent == Init => DescentInv
  BY DEF Init, DescentInv, Behind, Foremost, Adopting, Idle, Looked, Attributing, Reaches

-----------------------------------------------------------------------------
(* The theorems on steps *)

\* The answer to a request arrives in Post or in PostRejected.
LEMMA Posted ==
  ASSUME TypeInv, [Next]_vars, NEW p \in Ops, Posting(p)
  PROVE  PostStep(p) \/ PostRejectedStep(p)
<1> TypeOK
  BY DEF TypeInv
<1> DEFINE Elsewhere(q) == op[q].pc # "post" /\ \A z \in Ops \ {q} : op'[z] = op[z]
<1>e. ASSUME NEW q \in Ops, Elsewhere(q) PROVE FALSE
  BY <1>e DEF Posting
<1> HIDE DEF Elsewhere
<1> SUFFICES ASSUME ~PostStep(p), ~PostRejectedStep(p) PROVE FALSE
  OBVIOUS
<1>1. ASSUME NEW q \in Ops, Start(q) \/ ObserveLive(q) \/ ReadFirst(q) \/ ReadSecond(q) PROVE Elsewhere(q)
  BY <1>1, StartDoes, ObserveLiveDoes, ReadFirstDoes, ReadSecondDoes
     DEF StartStep, ObserveLiveStep, ReadFirstStep, ReadSecondStep, Elsewhere
<1>2. ASSUME NEW q \in Ops, ImportNew(q) \/ ImportCommit(q) \/ RepairSplit(q) \/ Noop(q) PROVE Elsewhere(q)
  BY <1>2, ImportNewDoes, ImportCommitDoes, RepairSplitDoes, NoopDoes
     DEF ImportNewStep, ImportCommitStep, RepairSplitStep, NoopStep, Elsewhere
<1>3. ASSUME NEW q \in Ops, Republish(q) \/ PublishSlot(q) \/ Mark(q) \/ Adopt(q) PROVE Elsewhere(q)
  BY <1>3, RepublishDoes, PublishSlotDoes, MarkDoes, AdoptDoes
     DEF RepublishStep, PublishSlotStep, MarkStep, AdoptStep, Elsewhere
<1>4. ASSUME NEW q \in Ops, AdoptCommit(q) \/ AdoptUndo(q) \/ Due(q) \/ ReadSlot(q) PROVE Elsewhere(q)
  BY <1>4, AdoptCommitDoes, AdoptUndoDoes, DueDoes, ReadSlotDoes
     DEF AdoptCommitStep, AdoptUndoStep, DueStep, ReadSlotStep, Elsewhere
<1>5. ASSUME NEW q \in Ops, RepairDrift(q) \/ FindStashed(q) \/ Rejected(q) \/ RecordRejected(q) PROVE Elsewhere(q)
  BY <1>5, RepairDriftDoes, FindStashedDoes, RejectedDoes, RecordRejectedDoes
     DEF RepairDriftStep, FindStashedStep, RejectedStep, RecordRejectedStep, Elsewhere
<1>6. ASSUME NEW q \in Ops, GotSuccessor(q) \/ PersistBegin(q) \/ PersistWrite(q) \/ PersistCommit(q) PROVE Elsewhere(q)
  BY <1>6, GotSuccessorDoes, PersistBeginDoes, PersistWriteDoes, PersistCommitDoes
     DEF GotSuccessorStep, PersistBeginStep, PersistWriteStep, PersistCommitStep, Elsewhere
<1>7. ASSUME NEW q \in Ops, PersistLockLost(q) \/ PersistSave(q) \/ PersistUndo(q) \/ StashSuccessor(q) PROVE Elsewhere(q)
  BY <1>7, PersistLockLostDoes, PersistSaveDoes, PersistUndoDoes, StashSuccessorDoes
     DEF PersistLockLostStep, PersistSaveStep, PersistUndoStep, StashSuccessorStep, Elsewhere
<1>8. ASSUME NEW q \in Ops, Unstash(q) \/ PublishCas(q) \/ PublishRename(q) \/ PublishVerify(q) PROVE Elsewhere(q)
  BY <1>8, UnstashDoes, PublishCasDoes, PublishRenameDoes, PublishVerifyDoes
     DEF UnstashStep, PublishCasStep, PublishRenameStep, PublishVerifyStep, Elsewhere
<1>9. ASSUME NEW q \in Ops, PostFailed(q) \/ Crash(q) \/ LoseSwitchLock(q) \/ LoseAuthLock(q) PROVE FALSE
  BY <1>9, PostFailedDoes, CrashDoes, LoseSwitchLockDoes, LoseAuthLockDoes
     DEF PostFailedStep, CrashStep, LoseSwitchLockStep, LoseAuthLockStep, Idle, Posting
<1>10. ASSUME NEW q \in Ops, Post(q) \/ PostRejected(q) PROVE FALSE
  <2>1. PostStep(q) \/ PostRejectedStep(q)
    BY <1>10, PostDoes, PostRejectedDoes
  <2>2. \A z \in Ops \ {q} : op'[z] = op[z]
    BY <2>1 DEF PostStep, PostRejectedStep
  <2>3. q = p
    BY <2>2 DEF Posting
  <2> QED BY <2>1, <2>3
<1>11. op' # op
  BY DEF Posting
<1>12. ~UNCHANGED vars /\ ~(CodexStart \/ CodexExit \/ CodexRotate \/ CodexLogin \/ CodexLeave)
  BY <1>11 DEF vars, CodexStart, CodexExit, CodexRotate, CodexLogin, CodexLeave
<1>13. \A q \in Ops : ~(Attribute(q) \/ Consume(q) \/ Publish(q) \/ Start(q) \/ Crash(q)
                       \/ LoseSwitchLock(q) \/ LoseAuthLock(q))
  BY <1>e, <1>1, <1>2, <1>3, <1>4, <1>5, <1>6, <1>7, <1>8, <1>9, <1>10 DEF Attribute, Consume, Publish
<1> QED BY <1>12, <1>13 DEF Next
\* What a refused token left behind it was reported lost.
LEMMA RefusedIsLost ==
  ASSUME TypeInv, ShapeInv, KeepInv, HeldInv, DeadInv, OnceInv, ~torn, used.stall = 0, NEW p \in Ops, PostRejectedStep(p),
         NEW e \in grew, e[1] = op[p].cur, e[2] \in arrived
  PROVE  e[2] \in gone
<1> SUFFICES ASSUME e[2] \notin gone PROVE FALSE
  OBVIOUS
<1>1. Calm(p) /\ Once(p) /\ op[p].pc = "post"
  BY DEF DeadInv, OnceInv, Clean, PostRejectedStep
<1>2. e = <<op[p].cur, e[2]>>
  BY DEF TypeInv, TypeOK
<1>3. CASE e[2] \in heads
  BY <1>1, <1>2, <1>3 DEF Once, Followed
<1>4. ASSUME NEW x \in stash, x.to = e[2] PROVE FALSE
  <2>1. <<x.from, x.to>> \in grew /\ <<x.from, x.to>>[2] = e[2]
    BY <1>4 DEF ShapeInv, Ordered
  <2>2. <<x.from, x.to>> = e
    BY <2>1 DEF ShapeInv, Ordered
  <2>3. x.from = op[p].cur
    BY <1>2, <2>2
  <2> QED BY <1>1, <2>3 DEF Calm
<1>5. ASSUME NEW q \in Ops, InHand(q) PROVE FALSE
  <2>1. op[q].pc \in Consuming /\ op[p].pc \in Consuming /\ q # p
    BY <1>1, <1>5 DEF InHand, InMemory, Consuming, Renewing, Answered
  <2> QED BY <2>1, SoleConsumer
<1> QED BY <1>3, <1>4, <1>5 DEF KeepInv, KeptInv
LEMMA SpentOnce ==
  ASSUME TypeInv, ShapeInv, KeepInv, HeldInv, DeadInv, OnceInv, [Next]_vars, ~torn, used.stall = 0, NEW p \in Ops, Posting(p),
         NEW e \in grew, e[1] = op[p].cur, e[2] \in arrived
  PROVE  e[2] \in gone
<1>1. CASE PostStep(p)
  BY <1>1 DEF PostStep, ShapeInv, Ordered
<1>2. CASE PostRejectedStep(p)
  BY <1>2, RefusedIsLost
<1> QED BY <1>1, <1>2, Posted

\* SlotMovesOn: a token is not presented again once its successor reached QLB, and the row never
\* returns to a token its head descends from, but after what CodexSlot names: a stalled holder, a
\* crash between a write and its commit, a drift repair on an old read, an import that wrote over a slot.
THEOREM SlotAlwaysMovesOn == Spec => SlotMovesOn
<1>1. TypeInv /\ ShapeInv /\ KeepInv /\ HeldInv /\ DeadInv /\ OnceInv /\ [Next]_vars
      => [torn \/ used.stall > 0 \/ \A p \in Ops : Posting(p) =>
            \A e \in grew : e[1] = op[p].cur /\ e[2] \in arrived => e[2] \in gone]_vars
  <2>1. TypeInv => used.stall \in Nat
    BY DEF TypeInv, TypeOK, Bounds
  <2> QED BY <2>1, SpentOnce
<1>2. DescentInv' /\ Forward => [Reaches(grew, row'.fp, row.fp) => skew' \/ late']_vars
  BY DEF Forward
<1>3. Spec => [](TypeInv /\ ShapeInv /\ KeepInv /\ HeldInv /\ DeadInv /\ OnceInv /\ DescentInv)
  BY InitType, TypeStep, InitShape, ShapeStep, InitKeep, KeepStep, InitHeld, HeldStep, InitDead, DeadStep, InitOnce, OnceStep,
     InitDescent, DescentStep, PTL DEF Spec
<1>4. TypeInv /\ ShapeInv /\ DescentInv /\ [Next]_vars => [Reaches(grew, row'.fp, row.fp) => skew' \/ late']_vars
  BY <1>2, DescentStep
<1> QED BY <1>1, <1>3, <1>4, PTL DEF Spec, SlotMovesOn, NeverSpentTwice, HeadsNeverGoBack
=============================================================================
