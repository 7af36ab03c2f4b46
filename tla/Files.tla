------------------------------- MODULE Files -------------------------------
(***************************************************************************)
(* What inode.c promises the handlers that use it: every allocated inode   *)
(* has blocks of its own, an operation on one inode changes the blocks of  *)
(* no other, and a copy equals the inode it was made from or, if the       *)
(* process ends first, stays an empty inode.  There are no pages here.     *)
(* Module Inodes is shown to implement this module; it is what lets        *)
(* InodeTable treat the content of an inode as a value.                    *)
(***************************************************************************)
EXTENDS Integers

CONSTANTS
    Inum,    \* inode numbers; 0 is allocated for good
    Data     \* what a block can hold

VARIABLES
    file,      \* the blocks of each allocated inode, numbered from 0
    copying    \* the copy being made, a set of at most one pair <<from, to>>

vars == <<file, copying>>

Empty == [k \in {} |-> 0]

Init == file = [i \in {0} |-> Empty] /\ copying = {}

New(i) ==
    /\ i \in Inum \ DOMAIN file
    /\ file' = [j \in DOMAIN file \cup {i} |-> IF j = i THEN Empty ELSE file[j]]

Alloc(i) == copying = {} /\ New(i) /\ UNCHANGED copying

StartCopy(i, j) == copying = {} /\ New(j) /\ copying' = {<<i, j>>}

EndCopy(i, j) ==
    /\ copying = {<<i, j>>}
    /\ copying' = {}
    /\ \/ file' = [file EXCEPT ![j] = file[i]]
       \/ UNCHANGED file

\* Nothing but the blocks of i changes.
Only(i) ==
    /\ copying = {} /\ UNCHANGED copying
    /\ DOMAIN file' = DOMAIN file
    /\ \A j \in DOMAIN file \ {i} : file'[j] = file[j]

(* New blocks hold whatever their pages hold.                              *)
Grow(i) ==
    /\ Only(i)
    /\ DOMAIN file[i] \subseteq DOMAIN file'[i]
    /\ \A k \in DOMAIN file'[i] :
          IF k \in DOMAIN file[i] THEN file'[i][k] = file[i][k] ELSE file'[i][k] \in Data

Shrink(i) ==
    /\ Only(i)
    /\ DOMAIN file'[i] \subseteq DOMAIN file[i]
    /\ \A k \in DOMAIN file'[i] : file'[i][k] = file[i][k]

Write(i) ==
    /\ Only(i)
    /\ \E k \in DOMAIN file[i], v \in Data : file'[i] = [file[i] EXCEPT ![k] = v]

Free(i) ==
    /\ i # 0
    /\ copying = {} /\ UNCHANGED copying
    /\ file' = [j \in DOMAIN file \ {i} |-> file[j]]

Next ==
    \/ \E i \in Inum : Alloc(i)
    \/ \E i \in DOMAIN file, j \in Inum : StartCopy(i, j) \/ EndCopy(i, j)
    \/ \E i \in DOMAIN file : Grow(i) \/ Shrink(i) \/ Write(i) \/ Free(i)

Spec == Init /\ [][Next]_vars
=============================================================================
