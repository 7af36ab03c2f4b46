----------------------------- MODULE VersionLog -----------------------------
(***************************************************************************)
(* What the version list promises its callers, with no slots being moved:  *)
(* a table of the newest NumVersions versions in which every commit and    *)
(* every rollback takes one indivisible step.  The new version gets the    *)
(* next number, every other version moves down one place unchanged, the    *)
(* oldest one falls off, and a rollback repeats the root and the label of  *)
(* the version it names.  RootList is shown to implement this module.      *)
(***************************************************************************)
EXTENDS Integers

CONSTANTS
    NumVersions,   \* versions the table holds
    Rnum,          \* roots a commit can install
    Op,            \* labels
    NoOp           \* label of a place not yet used

VARIABLE tab

Place == 0 .. NumVersions - 1

Blank == [rnum |-> 0, vnum |-> 0, op |-> NoOp]

Pushed(r, op) ==
    [p \in Place |->
        IF p = 0 THEN [rnum |-> r, vnum |-> tab[0].vnum + 1, op |-> op]
                 ELSE tab[p - 1]]

Init == tab = [p \in Place |-> Blank]

Commit(r, op) == tab' = Pushed(r, op)

Rollback(p) ==
    /\ tab[p].vnum > 0
    /\ tab' = Pushed(tab[p].rnum, tab[p].op)

Next ==
    \/ \E r \in Rnum, op \in Op \ {NoOp} : Commit(r, op)
    \/ \E p \in Place : Rollback(p)

Spec == Init /\ [][Next]_tab
=============================================================================
