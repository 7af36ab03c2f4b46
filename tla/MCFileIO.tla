------------------------------ MODULE MCFileIO ------------------------------
(* A small instance of FileIO for TLC, with the requests the kernel sends: *)
(* reads of whole pages from a page boundary on, and writes that either    *)
(* start at a page boundary or stay within one page.                       *)
EXTENDS FileIO

CONSTANT stale

MCByte == {0, 1, 2, stale}

Texts == {<<1>>, <<2, 1>>, <<1, 2, 2>>}

Aligned(off, n) == off % PAGE = 0 \/ off \div PAGE = (off + n - 1) \div PAGE

Reads == {[op |-> "read", off |-> b * PAGE, n |-> c * PAGE] :
              b \in 0 .. 1, c \in 1 .. MaxBlocks - 1}

Writes == {[op |-> "write", off |-> o, bytes |-> t] : o \in 0 .. Capacity - 1, t \in Texts}

Cuts == {[op |-> "truncate", n |-> n] : n \in 0 .. Capacity}

MCRequests ==
    Reads
    \cup {q \in Writes : q.off + Len(q.bytes) <= Capacity /\ Aligned(q.off, Len(q.bytes))}
    \cup Cuts
=============================================================================
