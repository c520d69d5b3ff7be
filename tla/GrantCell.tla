------------------------------ MODULE GrantCell ------------------------------
(***************************************************************************)
(* What the fenced refresh promises: a cell whose content is replaced only *)
(* by its successor, one generation at a time, and a journal that follows  *)
(* it.  A second replacement waits until the journal has caught up, so the *)
(* journal names the cell's content or the one just before it.             *)
(***************************************************************************)
EXTENDS Naturals

CONSTANTS Contents   \* records with at least a generation, field gen

VARIABLES cell, committed

Init == cell \in Contents /\ cell.gen = 0 /\ committed = 0

\* The successor of the committed content lands in the cell.
Publish ==
    /\ committed = cell.gen
    /\ cell' \in Contents /\ cell'.gen = cell.gen + 1
    /\ UNCHANGED committed

\* The journal catches up: the commit itself, or a repair on read.
Settle == committed' = cell.gen /\ UNCHANGED cell

Next == Publish \/ Settle

Spec == Init /\ [][Next]_<<cell, committed>>
=============================================================================
