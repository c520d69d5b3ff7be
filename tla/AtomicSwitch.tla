---------------------------- MODULE AtomicSwitch ----------------------------
(***************************************************************************)
(* What a Claude account switch promises: the credential Claude Code is    *)
(* given, the account its config file names and the active login of QLB    *)
(* change together or not at all.                                          *)
(***************************************************************************)
CONSTANT Accounts

VARIABLES
    published,  \* account of the live credential
    named,      \* account in the config file
    active      \* active login

Init == active \in Accounts /\ published = active /\ named = active

Switch(a) == published' = a /\ named' = a /\ active' = a

Next == \E a \in Accounts : Switch(a)

Spec == Init /\ [][Next]_<<published, named, active>>
=============================================================================
