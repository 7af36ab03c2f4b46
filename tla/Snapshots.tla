----------------------------- MODULE Snapshots -----------------------------
(***************************************************************************)
(* What the copy-on-write handlers promise: a list of whole trees, newest  *)
(* first.  A request makes a new tree out of the newest one, the others    *)
(* stay as they are, and of more than NumVersions the last is dropped.     *)
(* Times and link counts are left out.  Module Storage implements it.      *)
(***************************************************************************)
EXTENDS Integers, Sequences

CONSTANTS
    NumVersions,   \* trees kept
    Path,          \* paths, as sequences of names
    Calls,         \* the requests
    Stale          \* a byte nobody has written

VARIABLE trees

Root      == <<>>
Parent(p) == IF p = Root THEN Root ELSE SubSeq(p, 1, Len(p) - 1)

\* A file or directory of a tree: all its names, its type and its bytes.
Object(names, mode, data) == [names |-> names, mode |-> mode, data |-> data]

Init == trees = << {Object({Root}, "dir", <<>>)} >>

Named(t, p)  == {o \in t : p \in o.names}
Absent(t, p) == Named(t, p) = {}

\* The tree in which o has become o2.
Instead(t, o, o2) == (t \ {o}) \cup {o2}

-----------------------------------------------------------------------------
(* What a request makes of the tree t: a set of one tree, empty when the   *)
(* request is not for this tree.                                           *)

Mknod(t, q) ==
    {t \cup {Object({q.path}, q.mode, <<>>)} :
        o \in {o \in Named(t, Parent(q.path)) : o.mode = "dir" /\ Absent(t, q.path)}}

\* A write ends the file; a gap before it is not written.
Overwritten(data, off, bytes) ==
    LET kept == SubSeq(data, 1, IF off < Len(data) THEN off ELSE Len(data))
    IN  kept \o [k \in 1 .. off - Len(kept) |-> Stale] \o bytes

Write(t, q) ==
    {Instead(t, o, [o EXCEPT !.data = Overwritten(@, q.off, q.bytes)]) :
        o \in Named(t, q.path)}

Resized(data, size) == SubSeq(data \o [k \in 1 .. size |-> 0], 1, size)

Truncate(t, q) ==
    {Instead(t, o, [o EXCEPT !.data = Resized(@, q.size)]) : o \in Named(t, q.path)}

Link(t, q) ==
    {Instead(t, o, [o EXCEPT !.names = @ \cup {q.to}]) :
        o \in {o \in Named(t, q.path) : Absent(t, q.to)}}

Chmod(t, q) ==
    {Instead(t, o, [o EXCEPT !.mode = q.mode]) : o \in Named(t, q.path)}

Result(t, q) ==
    CASE q.call = "mknod"    -> Mknod(t, q)
      [] q.call = "write"    -> Write(t, q)
      [] q.call = "truncate" -> Truncate(t, q)
      [] q.call = "link"     -> Link(t, q)
      [] q.call = "chmod"    -> Chmod(t, q)
      [] OTHER               -> {}

Next ==
    /\ trees' # trees
    /\ \E t \in UNION {Result(trees[1], q) : q \in Calls} :
          trees' = SubSeq(<<t>> \o trees, 1,
                          IF Len(trees) < NumVersions THEN Len(trees) + 1 ELSE NumVersions)

Spec == Init /\ [][Next]_trees
=============================================================================
