------------------------------ MODULE ByteFile ------------------------------
(***************************************************************************)
(* What reading, writing and truncating promise of one file: it is a       *)
(* sequence of bytes, and a request is one step.  A write leaves a file of *)
(* exactly offset + size bytes, as storage_write does; the bytes between   *)
(* the old end and the offset can be anything.                             *)
(***************************************************************************)
EXTENDS Integers, Sequences

CONSTANTS Requests

VARIABLES
    file,    \* the bytes
    reply    \* what a read has just returned

Lower(a, b) == IF a < b THEN a ELSE b

Init == file = <<>> /\ reply = <<>>

Read(off, n) ==
    /\ reply' = SubSeq(file, off + 1, Lower(off + n, Len(file)))
    /\ UNCHANGED file

Write(off, bytes) ==
    /\ Len(file') = off + Len(bytes)
    /\ \A k \in 1 .. Lower(off, Len(file)) : file'[k] = file[k]
    /\ \A k \in DOMAIN bytes : file'[off + k] = bytes[k]
    /\ UNCHANGED reply

Truncate(n) ==
    /\ file' = [k \in 1 .. n |-> IF k <= Len(file) THEN file[k] ELSE 0]
    /\ UNCHANGED reply

Do(q) ==
    \/ q.op = "read"     /\ Read(q.off, q.n)
    \/ q.op = "write"    /\ Write(q.off, q.bytes)
    \/ q.op = "truncate" /\ Truncate(q.n)

(* The caller has taken the reply.                                         *)
Taken == reply' = <<>> /\ UNCHANGED file

Next == Taken \/ \E q \in Requests : Do(q)

Spec == Init /\ [][Next]_<<file, reply>>
=============================================================================
