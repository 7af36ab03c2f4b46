------------------------------- MODULE Inodes -------------------------------
(***************************************************************************)
(* The pages behind the inodes: inode.c over the page bitmap of pages.c.   *)
(* An inode reaches its blocks through NUM_PTRS direct pointers and, from  *)
(* block NUM_PTRS on, through the table in the page iptr.  Sizes are in    *)
(* blocks.  Pointers beyond the size are what earlier owners left there.   *)
(*                                                                         *)
(* copy_inode and grow_inode take a page at a time and store the size      *)
(* last; shrink_inode gives back a page at a time and stores the size      *)
(* last.  All of it lands in the mapped image at once, so a process that   *)
(* dies on the way, or that alloc_page ends because no page is left,       *)
(* leaves what it has stored; here the next process starts at once.  The   *)
(* handlers run one inode operation at a time.                             *)
(*                                                                         *)
(* The answer -1 of alloc_inode on a full table is in InodeTable, and a    *)
(* data page's bytes are never read as pointers: every table entry that is *)
(* used has been stored since its page was taken.                          *)
(***************************************************************************)
EXTENDS Integers

CONSTANTS
    INODE_COUNT,        \* inodes in the table
    PAGE_COUNT,         \* pages of the image
    NUM_DIRECT_PAGES,   \* pages of the inode table, from page 2
    NUM_PTRS,           \* direct pointers of an inode
    MaxBlocks,          \* bound: no inode has more blocks
    Data,               \* what a page can hold
    Zero,               \* what the pages of a new image hold
    KillAt              \* the operations in which the process can be killed

ASSUME InodesAssumption ==
    /\ INODE_COUNT \in Nat \ {0}
    /\ NUM_DIRECT_PAGES \in Nat \ {0}
    /\ NUM_PTRS \in Nat \ {0}
    /\ MaxBlocks \in Nat
    /\ PAGE_COUNT \in Nat /\ PAGE_COUNT > 2 + NUM_DIRECT_PAGES
    /\ Zero \in Data
    /\ KillAt \subseteq {"copy", "grow"}

VARIABLES
    pbm,    \* page bitmap: the pages that are taken
    ibm,    \* inode bitmap
    node,   \* the inode slots
    tab,    \* what each page holds when it is read as a pointer table
    mem,    \* what each page holds when it is read as a block
    run     \* the operation being run

vars == <<pbm, ibm, node, tab, mem, run>>

Inum == 0 .. INODE_COUNT - 1
Page == 0 .. PAGE_COUNT - 1
Ptr  == 0 .. NUM_PTRS - 1
Size == 0 .. MaxBlocks

\* Bitmaps, version list and inode table.
Special == 0 .. 1 + NUM_DIRECT_PAGES

inode == [size : Size, ptrs : [Ptr -> Page], iptr : Page]

\* The loop variables of the operation: blocks_on_node, blocks_to_grow or
\* blocks_to_shrink, and whether the page of the table was just taken.
Op   == [op : {"idle", "copy", "grow", "shrink", "free"}, node : Inum, from : Inum,
         at : Size, to : Size, iptr : {"", "taken"}]
Idle == [op |-> "idle", node |-> 0, from |-> 0, at |-> 0, to |-> 0, iptr |-> ""]

Least(S) == CHOOSE x \in S : \A y \in S : x <= y

inode_get_pnum(n, k) ==
    IF k < NUM_PTRS THEN node[n].ptrs[k] ELSE tab[node[n].iptr][k - NUM_PTRS]

Init ==
    /\ pbm  = Special
    /\ ibm  = {0}
    /\ node = [n \in Inum |-> [size |-> 0, ptrs |-> [k \in Ptr |-> 0], iptr |-> 0]]
    /\ tab  = [p \in Page |-> [k \in Size |-> 0]]
    /\ mem  = [p \in Page |-> Zero]
    /\ run  = Idle

-----------------------------------------------------------------------------
(* Starting an operation.  alloc_inode clears the size of the slot.        *)

Free == Inum \ ibm

alloc_inode ==
    /\ run.op = "idle"
    /\ Free # {}
    /\ ibm' = ibm \cup {Least(Free)}
    /\ node' = [node EXCEPT ![Least(Free)].size = 0]

AllocInode ==
    /\ alloc_inode
    /\ UNCHANGED <<pbm, tab, mem, run>>

StartCopy(n) ==
    /\ alloc_inode
    /\ run' = [Idle EXCEPT !.op = "copy", !.node = Least(Free), !.from = n,
                           !.to = node[n].size]
    /\ UNCHANGED <<pbm, tab, mem>>

\* Callers grow to a larger size and shrink to a smaller one.
StartGrow(n, to) ==
    /\ run.op = "idle"
    /\ to >= node[n].size
    /\ run' = [Idle EXCEPT !.op = "grow", !.node = n, !.at = node[n].size, !.to = to]
    /\ UNCHANGED <<pbm, ibm, node, tab, mem>>

StartShrink(n, to) ==
    /\ run.op = "idle"
    /\ to <= node[n].size
    /\ run' = [Idle EXCEPT !.op = "shrink", !.node = n, !.at = node[n].size, !.to = to]
    /\ UNCHANGED <<pbm, ibm, node, tab, mem>>

StartFree(n) ==
    /\ run.op = "idle"
    /\ n # 0
    /\ run' = [Idle EXCEPT !.op = "free", !.node = n, !.at = node[n].size]
    /\ UNCHANGED <<pbm, ibm, node, tab, mem>>

-----------------------------------------------------------------------------
(* The loops of copy_inode and grow_inode: a direct block, the page of the *)
(* table, a block behind it.                                               *)

Growing_OneMore == run.op \in {"copy", "grow"} /\ run.at <= run.to

Growing == run.op \in {"copy", "grow"} /\ run.at < run.to

\* alloc_page answers the lowest free page, and asserts that there is one.
NoPage   == Page \ pbm = {}
NextPage == Least(Page \ pbm)

TakePage == ~NoPage /\ pbm' = pbm \cup {NextPage}

CopyBlock_Direct ==
    mem' = IF run.op = "copy" /\ run.at < NUM_PTRS
           THEN [mem EXCEPT ![NextPage] = mem[inode_get_pnum(run.from, run.at)]]
           ELSE mem

CopyBlock ==
    mem' = IF run.op = "copy"
           THEN [mem EXCEPT ![NextPage] = mem[inode_get_pnum(run.from, run.at)]]
           ELSE mem

DirectBlock ==
    /\ Growing
    /\ run.at < NUM_PTRS
    /\ TakePage
    /\ CopyBlock
    /\ node' = [node EXCEPT ![run.node].ptrs[run.at] = NextPage]
    /\ run' = [run EXCEPT !.at = @ + 1]
    /\ UNCHANGED <<ibm, tab>>

NeedsTable_GrowOnly == run.op = "grow" /\ run.at = NUM_PTRS /\ run.iptr = ""
NeedsTable          == run.at = NUM_PTRS /\ run.iptr = ""

TableBlock ==
    /\ Growing
    /\ NeedsTable
    /\ TakePage
    /\ node' = [node EXCEPT ![run.node].iptr = NextPage]
    /\ run' = [run EXCEPT !.iptr = "taken"]
    /\ UNCHANGED <<ibm, tab, mem>>

IndirectBlock ==
    /\ Growing
    /\ run.at >= NUM_PTRS
    /\ ~NeedsTable
    /\ TakePage
    /\ CopyBlock
    /\ tab' = [tab EXCEPT ![node[run.node].iptr][run.at - NUM_PTRS] = NextPage]
    /\ run' = [run EXCEPT !.at = @ + 1, !.iptr = ""]
    /\ UNCHANGED <<ibm, node>>

(* The loop is done: the new size is stored.                               *)
GrowEnd ==
    /\ run.op \in {"copy", "grow"}
    /\ run.at = run.to
    /\ node' = [node EXCEPT ![run.node].size = run.to]
    /\ run' = Idle
    /\ UNCHANGED <<pbm, ibm, tab, mem>>

(* alloc_page finds no page, and its assertion ends the process.           *)
OutOfPages ==
    /\ Growing
    /\ NoPage
    /\ run' = Idle
    /\ UNCHANGED <<pbm, ibm, node, tab, mem>>

-----------------------------------------------------------------------------
(* shrink_inode, last block first.  It gives back a page only above        *)
(* 2 + NUM_DIRECT_PAGES, and never the page of the table.                  *)

Given_Behind == inode_get_pnum(run.node, run.at)
Given        == inode_get_pnum(run.node, run.at - 1)

GiveBlock ==
    /\ run.op \in {"shrink", "free"}
    /\ run.at > run.to
    /\ pbm' = IF Given > 2 + NUM_DIRECT_PAGES THEN pbm \ {Given} ELSE pbm
    /\ run' = [run EXCEPT !.at = @ - 1]
    /\ UNCHANGED <<ibm, node, tab, mem>>

(* The size is stored; free_inode then clears the bit of the inode.        *)
ShrinkEnd ==
    /\ run.op \in {"shrink", "free"}
    /\ run.at = run.to
    /\ node' = [node EXCEPT ![run.node].size = run.to]
    /\ ibm' = IF run.op = "free" THEN ibm \ {run.node} ELSE ibm
    /\ run' = Idle
    /\ UNCHANGED <<pbm, tab, mem>>

-----------------------------------------------------------------------------
(* The memcpy of storage_write into one of the blocks.                     *)
Write(n, k, v) ==
    /\ run.op = "idle"
    /\ mem' = [mem EXCEPT ![inode_get_pnum(n, k)] = v]
    /\ UNCHANGED <<pbm, ibm, node, tab, run>>

(* The process dies in an operation.                                       *)
Kill ==
    /\ run.op \in KillAt
    /\ run' = Idle
    /\ UNCHANGED <<pbm, ibm, node, tab, mem>>

Start ==
    \/ AllocInode
    \/ \E n \in ibm : StartCopy(n) \/ StartFree(n)
    \/ \E n \in ibm, to \in Size : StartGrow(n, to) \/ StartShrink(n, to)

Step ==
    \/ DirectBlock \/ TableBlock \/ IndirectBlock \/ GrowEnd \/ OutOfPages
    \/ GiveBlock \/ ShrinkEnd

Writes == \E n \in ibm, v \in Data : \E k \in 0 .. node[n].size - 1 : Write(n, k, v)

Next == Start \/ Writes \/ Step \/ Kill

Spec == Init /\ [][Next]_vars

-----------------------------------------------------------------------------
(* Properties.                                                             *)

(* Types; the running operation works on an allocated inode and has not    *)
(* passed its end.                                                         *)
TypeOK ==
    /\ Special \subseteq pbm /\ pbm \subseteq Page
    /\ ibm \subseteq Inum
    /\ node \in [Inum -> inode]
    /\ tab \in [Page -> [Size -> Page]]
    /\ mem \in [Page -> Data]
    /\ run \in Op
    /\ run.op # "idle" => run.node \in ibm
    /\ run.op = "copy" => run.from \in ibm /\ run.from # run.node
                          /\ run.to = node[run.from].size
    /\ run.op \in {"copy", "grow"} => run.at <= run.to
    /\ run.op \in {"shrink", "free"} => run.at >= run.to
    /\ run.iptr = "taken" => run.op \in {"copy", "grow"} /\ run.at = NUM_PTRS

\* The blocks an inode holds, those an operation has taken or not yet given
\* back included, and whether it holds a table.
Extent(n)   == IF run.op # "idle" /\ run.node = n THEN run.at ELSE node[n].size
HasTable(n) == Extent(n) > NUM_PTRS \/ (run.iptr = "taken" /\ run.node = n)

\* A place holds a page: block k of inode n, or, with k = -1, its table.
Place ==
    {pl \in Inum \X (-1 .. MaxBlocks) :
        /\ pl[1] \in ibm
        /\ IF pl[2] = -1 THEN HasTable(pl[1]) ELSE pl[2] < Extent(pl[1])}

Held(pl) == IF pl[2] = -1 THEN node[pl[1]].iptr ELSE inode_get_pnum(pl[1], pl[2])

(* Every page an inode holds is taken, is none of the bitmaps, the version *)
(* list and the inode table, and is held in no other place: not by another *)
(* inode, not as another block, not as a table and a block at once.        *)
Private ==
    /\ \A a \in Place : Held(a) \in pbm \ Special
    /\ \A a, b \in Place : Held(a) = Held(b) => a = b

\* The process ends before grow_inode or copy_inode has stored the size.
Died == run.op \in {"copy", "grow"} /\ run' = Idle /\ node' = node

(* A block that an inode lets go of is a free page at once.  The pages     *)
(* that are lost are the tables, the first page behind the inode table,    *)
(* and what a process had taken when it died growing or copying.           *)
PagesReturned ==
    [][\A pl \in Place \ Place' :
          \/ Held(pl) \notin pbm'
          \/ pl[2] = -1
          \/ Held(pl) = 2 + NUM_DIRECT_PAGES
          \/ Died]_vars

(* Refinement: the content of an allocated inode is its blocks up to its   *)
(* size, which every operation stores last.                                *)
Content ==
    [n \in ibm |-> [k \in 0 .. node[n].size - 1 |-> mem[inode_get_pnum(n, k)]]]

Copying == IF run.op = "copy" THEN {<<run.from, run.node>>} ELSE {}

Abstract == INSTANCE Files WITH file <- Content, copying <- Copying

(* The page-by-page operations, cut short by kills and full images too,    *)
(* behave like operations that grow, cut, write and copy whole files: one  *)
(* inode at a time, a copy equal to the inode it was made from or empty.   *)
ImplementsFiles == Abstract!Spec
=============================================================================
