----------------------------- MODULE InodeTable -----------------------------
(***************************************************************************)
(* Inodes and directories as values: the operators of inode.c and          *)
(* directory.c that the handlers of storage.c are built from.  A table is  *)
(* a record [ibm, ino]: the inode bitmap as the set of allocated numbers,  *)
(* and the inode in every slot, allocated or not (the code reads freed     *)
(* slots too).  File bytes are the sequence data, directory entries the    *)
(* sequence ent; the pages that hold them are module Inodes.               *)
(*                                                                         *)
(* alloc_inode returns -1 when no slot is free and its callers use the     *)
(* answer at once: get_inode(-1) is the 64 bytes before the inode pages,   *)
(* at the end of the version list's page.  Slot -1 is that phantom inode;  *)
(* its inum field is never written and stays 0.                            *)
(***************************************************************************)
EXTENDS Integers, Sequences

CONSTANTS
    INODE_COUNT,   \* inodes in the table
    Name,          \* names of directory entries
    Byte,          \* values a byte of a file can have; 0 is one of them
    Stale          \* content of a byte nobody wrote since its page was taken

ASSUME InodeTableAssumption ==
    /\ INODE_COUNT \in Nat \ {0}
    /\ 0 \in Byte
    /\ Stale \in Byte \ {0}

Inum    == 0 .. INODE_COUNT - 1
NoInode == -1
ENOENT  == -2

\* 0040755 and 0040775, the two modes the code asserts of a directory it
\* changes; any other directory mode; a regular file; a zeroed slot.
Mode == {"dir", "odd", "file", "none"}

ddirent == [name : Name, inum : Int]

inode ==
    [refs : Int, mode : Mode, ts : Nat, data : Seq(Byte), ent : Seq(ddirent)]

Zeroed == [refs |-> 0, mode |-> "none", ts |-> 0, data |-> <<>>, ent |-> <<>>]

Table == [ibm : SUBSET Inum, ino : [Inum \cup {NoInode} -> inode]]

inode_is_dir(n) == n.mode \in {"dir", "odd"}

\* The inum field of the inode in slot i.
inum_field_Same(i) == i
inum_field(i) == IF i = NoInode THEN 0 ELSE i

Least(S) == CHOOSE x \in S : \A y \in S : x <= y

-----------------------------------------------------------------------------
(* inode.c                                                                 *)

\* What alloc_inode will answer: the lowest free number.
NextFree(d) ==
    IF Inum \ d.ibm = {} THEN NoInode ELSE Least(Inum \ d.ibm)

\* It resets the size; mode, refs and times stay what they were.
Emptied(n) == [n EXCEPT !.data = <<>>, !.ent = <<>>]

alloc_inode(d) ==
    IF Inum \ d.ibm = {}
    THEN d
    ELSE [ibm |-> d.ibm \cup {NextFree(d)},
          ino |-> [d.ino EXCEPT ![NextFree(d)] = Emptied(@)]]

\* The copy is in slot NextFree(d), with pages of its own.
copy_inode(d, i) ==
    [ibm |-> alloc_inode(d).ibm,
     ino |-> [d.ino EXCEPT ![NextFree(d)] = d.ino[i]]]

\* Its assertion refuses inode 0 and, for the phantom's field, slot -1.
CanFree(i) == i > 0

free_inode(d, i) ==
    [ibm |-> d.ibm \ {i},
     ino |-> [d.ino EXCEPT ![i] = Emptied(@)]]

-----------------------------------------------------------------------------
(* directory.c                                                             *)

Hits(n, name) == {k \in DOMAIN n.ent : n.ent[k].name = name}

\* The first entry with the name.
directory_lookup(n, name) ==
    IF Hits(n, name) = {} THEN ENOENT ELSE n.ent[Least(Hits(n, name))].inum

\* A negative answer on the way is the answer.
tree_lookup_hlp(d, path, rnum) ==
    LET walk[k \in 0 .. Len(path)] ==
            IF k = 0 THEN rnum
            ELSE IF walk[k - 1] < 0 THEN walk[k - 1]
            ELSE directory_lookup(d.ino[walk[k - 1]], path[k])
    IN  walk[Len(path)]

replace_in_entries_First(d, dir, old, new) ==
    LET at == {k \in DOMAIN d.ino[dir].ent : d.ino[dir].ent[k].inum = old}
    IN  IF at = {} THEN d
        ELSE [d EXCEPT !.ino[dir].ent[Least(at)].inum = new]

replace_in_entries_All(d, dir, old, new) ==
    [d EXCEPT !.ino[dir].ent = [k \in DOMAIN @ |-> [@[k] EXCEPT !.inum = new]]]

\* Every entry that holds the old number, whatever its name.
replace_in_entries(d, dir, old, new) ==
    [d EXCEPT !.ino[dir].ent =
        [k \in DOMAIN @ |->
            IF @[k].inum = old THEN [@[k] EXCEPT !.inum = new] ELSE @[k]]]

directory_put_Overwrites(d, dir, name, i) ==
    LET n == Len(d.ino[dir].ent)
    IN  [d EXCEPT !.ino[i].refs = @ + 1,
                  !.ino[dir].ent =
                      SubSeq(@, 1, n - 1) \o <<[name |-> name, inum |-> i]>>]

directory_put(d, dir, name, i) ==
    [d EXCEPT !.ino[i].refs = @ + 1,
              !.ino[dir].ent = Append(@, [name |-> name, inum |-> i])]

\* The inode the first entry with the name holds loses a reference and,
\* with its last one, its slot; the last entry moves into the gap.
Unreferenced(d, i) == d.ino[i].refs - 1 <= 0

DeleteAborts(d, dir, name) ==
    LET i == directory_lookup(d.ino[dir], name)
    IN  i # ENOENT /\ Unreferenced(d, i) /\ ~CanFree(i)

\* Where the assertion stops it, only the reference has been given up.
directory_delete_Tail(d, dir, name) ==
    LET ent == d.ino[dir].ent
        i   == directory_lookup(d.ino[dir], name)
        d1  == [d EXCEPT !.ino[i].refs = @ - 1]
        d2  == IF Unreferenced(d, i) THEN free_inode(d1, i) ELSE d1
    IN  IF Hits(d.ino[dir], name) = {} THEN d
        ELSE IF DeleteAborts(d, dir, name) THEN d1
        ELSE [d2 EXCEPT !.ino[dir].ent = SubSeq(ent, 1, Len(ent) - 1)]

directory_delete(d, dir, name) ==
    LET ent == d.ino[dir].ent
        i   == directory_lookup(d.ino[dir], name)
        at  == Least(Hits(d.ino[dir], name))
        d1  == [d EXCEPT !.ino[i].refs = @ - 1]
        d2  == IF Unreferenced(d, i) THEN free_inode(d1, i) ELSE d1
    IN  IF Hits(d.ino[dir], name) = {} THEN d
        ELSE IF DeleteAborts(d, dir, name) THEN d1
        ELSE [d2 EXCEPT !.ino[dir].ent =
                  SubSeq([ent EXCEPT ![at] = ent[Len(ent)]], 1, Len(ent) - 1)]
=============================================================================
