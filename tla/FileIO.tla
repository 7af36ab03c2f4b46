------------------------------- MODULE FileIO -------------------------------
(***************************************************************************)
(* The page loops of storage_read, storage_write and storage_truncate.     *)
(* The file is its inode: a size in bytes and the pages its block pointers *)
(* lead to (module Inodes: no other inode holds them, and a copy has pages *)
(* of its own with the same content).  A page that was just taken holds    *)
(* what its last owner wrote, and so does the end of a file's last page:   *)
(* Stale stands for any such byte.                                         *)
(*                                                                         *)
(* Write and truncate work on a copy of the inode, which becomes the file  *)
(* when traverse_and_update commits it.  One iteration of a loop is one    *)
(* step; run holds the locals.                                             *)
(***************************************************************************)
EXTENDS Integers, Sequences

CONSTANTS
    PAGE,        \* 4096
    MaxBlocks,   \* bound: blocks of the file
    Byte,        \* values a byte can have; 0 is one of them
    Stale,       \* a byte nobody stored since its page was taken
    Requests,    \* the reads, writes and truncates that are sent
    PastEnd      \* whether a read may start behind the end of the file

ASSUME FileIOAssumption ==
    /\ PAGE \in Nat \ {0}
    /\ MaxBlocks \in Nat
    /\ 0 \in Byte /\ Stale \in Byte \ {0}

VARIABLES
    node,    \* the inode of the file: [size, page]
    cow,     \* the copy a write or truncate works on
    run,     \* the request being served and the locals of its loop
    buf,     \* the caller's buffer, filled by a read
    reply    \* what a read has just returned

vars == <<node, cow, run, buf, reply>>

Capacity == MaxBlocks * PAGE
Block    == 0 .. MaxBlocks - 1
Content  == [0 .. PAGE - 1 -> Byte]
inode    == [size : 0 .. Capacity, page : [Block -> Content]]

StalePage  == [x \in 0 .. PAGE - 1 |-> Stale]
Unused     == [k \in 1 .. Capacity |-> Stale]
min(a, b)  == IF a < b THEN a ELSE b
NoRequest  == [op |-> "idle"]
Idle       == [q |-> NoRequest, curr |-> 0, end |-> 0, at |-> 0]

bytes_to_pages(n) == IF n % PAGE = 0 THEN n \div PAGE ELSE n \div PAGE + 1

\* The blocks both sizes need stay, those a growth adds and those a cut
\* gives back hold what other owners write.
Repaged(nd, n) ==
    [k \in Block |-> IF k < bytes_to_pages(min(nd.size, n)) THEN nd.page[k] ELSE StalePage]

Resized_NeverCut(nd, n) ==
    [size |-> IF n < nd.size THEN nd.size ELSE n, page |-> Repaged(nd, n)]

(* grow_inode and shrink_inode.                                            *)
Resized(nd, n) == [size |-> n, page |-> Repaged(nd, n)]

Init ==
    /\ node  = [size |-> 0, page |-> [k \in Block |-> StalePage]]
    /\ cow   = node
    /\ run   = Idle
    /\ buf   = Unused
    /\ reply = <<>>

-----------------------------------------------------------------------------
(* The requests, up to their loop.                                         *)

\* Nothing is cut off when the offset lies past the end: the difference is
\* negative, and huge when it is compared with the unsigned size.
Readable(off, n) ==
    IF off <= node.size /\ n > node.size - off THEN node.size - off ELSE n

StartRead(q) ==
    /\ PastEnd \/ q.off <= node.size
    /\ run' = [q |-> q, curr |-> q.off, end |-> q.off + Readable(q.off, q.n), at |-> 0]
    /\ buf' = Unused
    /\ UNCHANGED <<node, cow>>

\* The size is offset + size whether the file was shorter or longer.
StartWrite(q) ==
    /\ cow' = Resized(node, q.off + Len(q.bytes))
    /\ run' = [q |-> q, curr |-> q.off, end |-> q.off + Len(q.bytes), at |-> 0]
    /\ UNCHANGED <<node, buf>>

\* Growing clears from the old end on; a cut has nothing to clear.
ZeroFrom(n) == min(node.size, n)

StartTruncate(q) ==
    /\ cow' = Resized(node, q.n)
    /\ run' = [q |-> q, curr |-> ZeroFrom(q.n), end |-> q.n, at |-> 0]
    /\ UNCHANGED <<node, buf>>

Start(q) ==
    /\ run = Idle
    /\ reply' = <<>>
    /\ \/ q.op = "read"     /\ StartRead(q)
       \/ q.op = "write"    /\ StartWrite(q)
       \/ q.op = "truncate" /\ StartTruncate(q)

-----------------------------------------------------------------------------
(* One iteration: the piece from curr to the next page or to the end,      *)
(* whichever comes first; the buffer then advances by a whole page.        *)

Looping == run.q.op # "idle" /\ run.curr < run.end

Finish_NoMask == min(run.curr + PAGE, run.end)

\* min((curr + 4096) & (~4095), offset + size)
Finish == min(run.curr + PAGE - ((run.curr + PAGE) % PAGE), run.end)

Page  == run.curr \div PAGE
First == run.curr % PAGE
Size  == Finish - run.curr

Advance == run' = [run EXCEPT !.curr = Finish, !.at = @ + PAGE]

\* Byte x of the page goes to place x - First of the rest of the buffer.
ReadPiece ==
    /\ Looping
    /\ run.q.op = "read"
    /\ buf' = [k \in DOMAIN buf |->
                  LET x == First + (k - 1 - run.at)
                  IN  IF x \in First .. First + Size - 1 THEN node.page[Page][x]
                                                         ELSE buf[k]]
    /\ Advance
    /\ UNCHANGED <<node, cow, reply>>

\* What the loop stores: zeros, or the buffer, behind which lies anything.
Source(k) ==
    CASE run.q.op = "truncate"                            -> 0
      [] run.q.op = "write" /\ k \in DOMAIN run.q.bytes    -> run.q.bytes[k]
      [] run.q.op = "write" /\ k \notin DOMAIN run.q.bytes -> Stale

StorePiece ==
    /\ Looping
    /\ run.q.op \in {"write", "truncate"}
    /\ cow' = [cow EXCEPT !.page[Page] =
                  [x \in DOMAIN @ |->
                      IF x \in First .. First + Size - 1
                      THEN Source(run.at + x - First + 1) ELSE @[x]]]
    /\ Advance
    /\ UNCHANGED <<node, buf, reply>>

-----------------------------------------------------------------------------
(* The loop is done: a read returns, the others commit the copy.           *)

Done_Past == run.q.op # "idle" /\ run.curr > run.end

Done == run.q.op # "idle" /\ run.curr >= run.end

EndRead ==
    /\ Done
    /\ run.q.op = "read"
    /\ reply' = SubSeq(buf, 1, run.end - run.q.off)
    /\ run' = Idle
    /\ buf' = Unused
    /\ UNCHANGED <<node, cow>>

Commit ==
    /\ Done
    /\ run.q.op \in {"write", "truncate"}
    /\ node' = cow
    /\ run' = Idle
    /\ UNCHANGED <<cow, buf, reply>>

Step == ReadPiece \/ StorePiece \/ EndRead \/ Commit

Next == (\E q \in Requests : Start(q)) \/ Step

Spec == Init /\ [][Next]_vars

(* One thread and no wait: the loop goes on.                               *)
FairSpec == Spec /\ WF_vars(Step)

-----------------------------------------------------------------------------
(* Properties.                                                             *)

(* Types; the size and the pages stay in bounds, and the copy has the size *)
(* the request asks for while its loop runs.                               *)
TypeOK ==
    /\ node \in inode
    /\ cow \in inode
    /\ run.q \in Requests \cup {NoRequest}
    /\ run.curr \in 0 .. Capacity /\ run.end \in 0 .. Capacity /\ run.at \in Nat
    /\ run.q.op \in {"write", "truncate"} => cow.size = run.end
    /\ buf \in [1 .. Capacity -> Byte]
    /\ reply \in Seq(Byte)

\* The bytes of an inode, one after the other.
Bytes(nd) == [k \in 1 .. nd.size |-> nd.page[(k - 1) \div PAGE][(k - 1) % PAGE]]

Abstract == INSTANCE ByteFile WITH file <- Bytes(node)

(* Piece by piece over page boundaries, with old bytes behind the end of   *)
(* the file, reads return and writes and truncates leave exactly the bytes *)
(* ByteFile says; no byte of a page's last owner is seen but in the gap of *)
(* a write past the end.                                                   *)
ImplementsByteFile == Abstract!Spec

(* Every loop comes to its end.                                            *)
RequestsEnd == (run # Idle) ~> (run = Idle)

(* A write changes the bytes it was sent for and no others, as write(2)    *)
(* does ("most of the following callbacks implement another system call;   *)
(* see section 2 of the manual", cowmount.c:120).                          *)
WriteKeepsRest ==
    [][run.q.op = "write" /\ run' = Idle =>
          \A k \in 1 .. node.size :
             k \notin run.q.off + 1 .. run.end =>
                k \in DOMAIN Bytes(node') /\ Bytes(node')[k] = Bytes(node)[k]]_vars
=============================================================================
