---------------------------- MODULE InodesProofs ----------------------------
(***************************************************************************)
(* Proofs about Inodes, for every number of inodes, pages, pointers and    *)
(* blocks: the variables keep their types, no page is ever held in two     *)
(* places, kills in copy and grow and full images included, and Inodes     *)
(* implements Files.                                                       *)
(***************************************************************************)
EXTENDS Inodes, NatFacts, TLAPS

(* What an operation in progress has not touched yet: the size of its      *)
(* inode.  A kill falls back on that size.                                 *)
SizeLast ==
    /\ run.op = "copy" => node[run.node].size = 0
    /\ run.op = "grow" => node[run.node].size <= run.at

Inv == TypeOK /\ SizeLast /\ Private

(* The first inode, page and size.                                         *)
LEMMA Zeroes == 0 \in Inum /\ 0 \in Page /\ 0 \in Size
BY InodesAssumption DEF Inum, Page, Size

(* Sizes are natural numbers.                                              *)
LEMMA SizeNat == \A k \in Size : k \in Nat /\ k >= 0 /\ 0 <= k
BY InodesAssumption DEF Size

(* alloc_page answers a free page.                                         *)
LEMMA NextPageFree ==
  ASSUME ~NoPage
  PROVE  NextPage \in Page /\ NextPage \notin pbm
<1> DEFINE T == Page \ pbm
<1>1. T \in SUBSET Nat /\ T # {}
  BY InodesAssumption DEF NoPage, Page
<1>2. \E x \in T : \A y \in T : x <= y
  <2> HIDE DEF T
  <2> QED
    BY <1>1, NatMin
<1>3. NextPage \in T
  BY <1>2 DEF NextPage, Least
<1> QED
  BY <1>3

(* alloc_inode answers a free inode.                                       *)
LEMMA LeastFree ==
  ASSUME Free # {}
  PROVE  Least(Free) \in Inum /\ Least(Free) \notin ibm
<1>1. Free \in SUBSET Nat
  BY InodesAssumption DEF Free, Inum
<1>2. \E x \in Free : \A y \in Free : x <= y
  BY <1>1, NatMin
<1>3. Least(Free) \in Free
  BY <1>2 DEF Least
<1> QED
  BY <1>3 DEF Free

(* The process between two operations.                                     *)
LEMMA IdleType ==
  /\ Idle \in Op
  /\ Idle.op = "idle" /\ Idle.node = 0 /\ Idle.at = 0 /\ Idle.iptr = ""
BY Zeroes DEF Idle, Op

(* A block below the bound has a page number.                              *)
LEMMA PnumType ==
  ASSUME TypeOK, NEW n \in Inum, NEW k \in Size
  PROVE  inode_get_pnum(n, k) \in Page
<1>1. node[n].ptrs \in [Ptr -> Page] /\ node[n].iptr \in Page
  BY DEF TypeOK, inode
<1>2. CASE k < NUM_PTRS
  <2>1. k \in Ptr
    BY <1>2, InodesAssumption DEF Ptr, Size
  <2> QED
    BY <1>1, <1>2, <2>1 DEF inode_get_pnum
<1>3. CASE ~(k < NUM_PTRS)
  <2>1. k - NUM_PTRS \in Size
    BY <1>3, InodesAssumption DEF Size
  <2>2. tab[node[n].iptr][k - NUM_PTRS] \in Page
    BY <1>1, <2>1 DEF TypeOK
  <2> QED
    BY <1>3, <2>2 DEF inode_get_pnum
<1> QED
  BY <1>2, <1>3

-----------------------------------------------------------------------------
(* Types.                                                                  *)

(* A new image has the types.                                              *)
LEMMA TypeInit == Init => TypeOK
<1> SUFFICES ASSUME Init PROVE TypeOK
  OBVIOUS
<1>1. 0 \in Inum /\ 0 \in Page /\ 0 \in Size
  BY Zeroes
<1>2. Special \subseteq Page
  BY InodesAssumption DEF Special, Page
<1>3. [size |-> 0, ptrs |-> [k \in Ptr |-> 0], iptr |-> 0] \in inode
  BY <1>1 DEF inode
<1>4. node \in [Inum -> inode]
  BY <1>3 DEF Init
<1>5. Idle \in Op
  BY <1>1 DEF Idle, Op
<1>6. tab \in [Page -> [Size -> Page]]
  BY <1>1 DEF Init
<1>7. mem \in [Page -> Data]
  BY InodesAssumption DEF Init
<1> QED
  BY <1>1, <1>2, <1>4, <1>5, <1>6, <1>7 DEF Init, TypeOK, Idle

(* alloc_inode takes a free inode, empties it and leaves the others alone.  *)
LEMMA AllocType ==
  ASSUME TypeOK, alloc_inode
  PROVE  /\ node' \in [Inum -> inode]
         /\ Least(Free) \in Inum \ ibm
         /\ ibm' = ibm \cup {Least(Free)}
         /\ node'[Least(Free)].size = 0
         /\ \A m \in Inum \ {Least(Free)} : node'[m] = node[m]
<1> DEFINE f == Least(Free)
<1>1. f \in Inum \ ibm
  BY LeastFree DEF alloc_inode
<1>2. /\ ibm' = ibm \cup {f}
      /\ node' = [node EXCEPT ![f].size = 0]
  BY DEF alloc_inode
<1> HIDE DEF f
<1>3. node \in [Inum -> inode]
  BY DEF TypeOK
<1>4. [node[f] EXCEPT !.size = 0] \in inode
  BY <1>1, <1>3, Zeroes DEF inode
<1>5. node' = [node EXCEPT ![f] = [node[f] EXCEPT !.size = 0]]
  BY <1>2
<1>6. node' \in [Inum -> inode]
  BY <1>1, <1>3, <1>4, <1>5
<1>7. node'[f] = [node[f] EXCEPT !.size = 0] /\ \A m \in Inum \ {f} : node'[m] = node[m]
  BY <1>1, <1>3, <1>5
<1>8. node'[f].size = 0
  BY <1>1, <1>3, <1>7 DEF inode
<1> QED
  BY <1>1, <1>2, <1>6, <1>7, <1>8 DEF f

(* Starting an operation keeps the types.                                  *)
LEMMA TypeStart ==
  ASSUME TypeOK, Start
  PROVE  TypeOK'
<1>1. CASE AllocInode
  <2>1. run' = run /\ run.op = "idle" /\ alloc_inode /\ UNCHANGED <<pbm, tab, mem>>
    BY <1>1 DEF AllocInode, alloc_inode
  <2>2. node' \in [Inum -> inode] /\ ibm' \subseteq Inum
    BY <2>1, AllocType DEF TypeOK
  <2> QED
    BY <2>1, <2>2 DEF TypeOK
<1>2. ASSUME NEW n \in ibm, StartCopy(n)
      PROVE  TypeOK'
  <2>1. /\ run' = [op |-> "copy", node |-> Least(Free), from |-> n, at |-> 0,
                   to |-> node[n].size, iptr |-> ""]
        /\ UNCHANGED <<pbm, tab, mem>>
        /\ alloc_inode
    BY <1>2 DEF StartCopy, Idle
  <2>2. /\ node' \in [Inum -> inode]
        /\ Least(Free) \in Inum \ ibm
        /\ ibm' = ibm \cup {Least(Free)}
        /\ \A m \in Inum \ {Least(Free)} : node'[m] = node[m]
    BY <2>1, AllocType
  <2>3. n \in ibm' /\ n # Least(Free) /\ n \in Inum
    BY <2>2 DEF TypeOK
  <2>4. node'[n].size = node[n].size /\ node[n].size \in Size
    BY <2>2, <2>3 DEF TypeOK, inode
  <2>5. run' \in Op
    BY <2>1, <2>2, <2>3, <2>4, Zeroes DEF Op
  <2>6. /\ run'.op = "copy" /\ run'.node = Least(Free) /\ run'.from = n /\ run'.at = 0
        /\ run'.to = node[n].size /\ run'.iptr = ""
    BY <2>1
  <2>7. ibm' \subseteq Inum
    BY <2>2 DEF TypeOK
  <2>8. run'.at <= run'.to
    BY <2>4, <2>6, SizeNat
  <2> QED
    BY <2>1, <2>2, <2>3, <2>4, <2>5, <2>6, <2>7, <2>8 DEF TypeOK
<1>3. ASSUME NEW n \in ibm, StartFree(n)
      PROVE  TypeOK'
  <2>1. /\ run' = [op |-> "free", node |-> n, from |-> 0, at |-> node[n].size,
                   to |-> 0, iptr |-> ""]
        /\ UNCHANGED <<pbm, ibm, node, tab, mem>>
    BY <1>3 DEF StartFree, Idle
  <2>2. node[n].size \in Size /\ n \in Inum /\ 0 \in Size /\ 0 \in Inum
    BY Zeroes DEF TypeOK, inode
  <2>3. run' \in Op
    BY <2>1, <2>2 DEF Op
  <2>4. /\ run'.op = "free" /\ run'.node = n /\ run'.iptr = ""
        /\ run'.at >= run'.to
    BY <2>1, <2>2, SizeNat
  <2> QED
    BY <2>1, <2>3, <2>4 DEF TypeOK
<1>4. ASSUME NEW n \in ibm, NEW to \in Size, StartGrow(n, to)
      PROVE  TypeOK'
  <2>1. /\ run' = [op |-> "grow", node |-> n, from |-> 0, at |-> node[n].size,
                   to |-> to, iptr |-> ""]
        /\ to >= node[n].size
        /\ UNCHANGED <<pbm, ibm, node, tab, mem>>
    BY <1>4 DEF StartGrow, Idle
  <2>2. node[n].size \in Size /\ n \in Inum /\ 0 \in Size /\ 0 \in Inum
    BY Zeroes DEF TypeOK, inode
  <2>3. run' \in Op
    BY <2>1, <2>2 DEF Op
  <2>4. /\ run'.op = "grow" /\ run'.node = n /\ run'.iptr = ""
        /\ run'.at <= run'.to
    BY <2>1, <2>2, SizeNat
  <2> QED
    BY <2>1, <2>3, <2>4 DEF TypeOK
<1>5. ASSUME NEW n \in ibm, NEW to \in Size, StartShrink(n, to)
      PROVE  TypeOK'
  <2>1. /\ run' = [op |-> "shrink", node |-> n, from |-> 0, at |-> node[n].size,
                   to |-> to, iptr |-> ""]
        /\ to <= node[n].size
        /\ UNCHANGED <<pbm, ibm, node, tab, mem>>
    BY <1>5 DEF StartShrink, Idle
  <2>2. node[n].size \in Size /\ n \in Inum /\ 0 \in Size /\ 0 \in Inum
    BY Zeroes DEF TypeOK, inode
  <2>3. run' \in Op
    BY <2>1, <2>2 DEF Op
  <2>4. /\ run'.op = "shrink" /\ run'.node = n /\ run'.iptr = ""
        /\ run'.at >= run'.to
    BY <2>1, <2>2, SizeNat
  <2> QED
    BY <2>1, <2>3, <2>4 DEF TypeOK
<1> QED
  BY <1>1, <1>2, <1>3, <1>4, <1>5 DEF Start

(* What one more block or table of a growing inode finds.                  *)
LEMMA GrowingFacts ==
  ASSUME TypeOK, Growing
  PROVE  /\ run.node \in ibm /\ run.node \in Inum
         /\ run.at \in Size /\ run.at + 1 \in Size /\ run.at + 1 <= run.to
         /\ run.at \in Nat
<1>1. run.at \in Size /\ run.to \in Size /\ run.at < run.to
  BY DEF TypeOK, Op, Growing
<1>2. run.at + 1 \in Size /\ run.at + 1 <= run.to /\ run.at \in Nat
  BY <1>1, InodesAssumption DEF Size
<1>3. run.node \in ibm /\ run.node \in Inum
  BY DEF TypeOK, Growing
<1> QED
  BY <1>1, <1>2, <1>3

(* The copy of a block leaves contents in the pages.                       *)
LEMMA CopyType ==
  ASSUME TypeOK, Growing, ~NoPage, CopyBlock
  PROVE  mem' \in [Page -> Data]
<1>1. CASE run.op = "copy"
  <2>1. run.from \in Inum /\ run.at \in Size
    BY <1>1, GrowingFacts DEF TypeOK
  <2>2. mem[inode_get_pnum(run.from, run.at)] \in Data
    BY <2>1, PnumType DEF TypeOK
  <2> QED
    BY <1>1, <2>2 DEF CopyBlock, TypeOK
<1>2. CASE run.op # "copy"
  BY <1>2 DEF CopyBlock, TypeOK
<1> QED
  BY <1>1, <1>2

(* A direct block: one pointer of one inode changes.                       *)
LEMMA DirectEffect ==
  ASSUME TypeOK, DirectBlock
  PROVE  /\ Growing /\ ~NoPage /\ pbm' = pbm \cup {NextPage}
         /\ UNCHANGED <<ibm, tab>> /\ mem' \in [Page -> Data]
         /\ run.at < NUM_PTRS /\ run.at \in Ptr
         /\ run' \in Op
         /\ run'.op = run.op /\ run'.node = run.node /\ run'.from = run.from
         /\ run'.to = run.to /\ run'.iptr = run.iptr /\ run'.at = run.at + 1
         /\ node' \in [Inum -> inode]
         /\ \A m \in Inum : /\ node'[m].size = node[m].size
                            /\ node'[m].iptr = node[m].iptr
                            /\ m # run.node => node'[m] = node[m]
         /\ node'[run.node].ptrs[run.at] = NextPage
         /\ \A k \in Ptr : k # run.at => node'[run.node].ptrs[k] = node[run.node].ptrs[k]
<1>1. /\ Growing /\ ~NoPage /\ pbm' = pbm \cup {NextPage} /\ CopyBlock
      /\ UNCHANGED <<ibm, tab>> /\ run.at < NUM_PTRS
      /\ run' = [run EXCEPT !.at = run.at + 1]
      /\ node' = [node EXCEPT ![run.node].ptrs[run.at] = NextPage]
  BY DEF DirectBlock, TakePage
<1>2. mem' \in [Page -> Data]
  BY <1>1, CopyType
<1>3. run.at \in Ptr
  BY <1>1, GrowingFacts, InodesAssumption DEF Ptr
<1>4. run \in Op /\ run.at + 1 \in Size
  BY <1>1, GrowingFacts DEF TypeOK
<1>5. run' \in Op
  BY <1>1, <1>4 DEF Op
<1>6. /\ run'.op = run.op /\ run'.node = run.node /\ run'.from = run.from
      /\ run'.to = run.to /\ run'.iptr = run.iptr /\ run'.at = run.at + 1
  BY <1>1, <1>4 DEF Op
<1>7. NextPage \in Page /\ run.node \in Inum /\ node \in [Inum -> inode]
  BY <1>1, NextPageFree, GrowingFacts DEF TypeOK
<1> DEFINE i == run.node
           p == NextPage
           new == [node[i] EXCEPT !.ptrs = [node[i].ptrs EXCEPT ![run.at] = p]]
<1>8. node' = [node EXCEPT ![i] = new]
  BY <1>1
<1>9. [node[i].ptrs EXCEPT ![run.at] = p] \in [Ptr -> Page]
  BY <1>3, <1>7 DEF inode
<1>10. /\ new \in inode /\ new.size = node[i].size /\ new.iptr = node[i].iptr
       /\ new.ptrs = [node[i].ptrs EXCEPT ![run.at] = p]
  BY <1>7, <1>9 DEF inode
<1>11. new.ptrs[run.at] = p /\ \A k \in Ptr : k # run.at => new.ptrs[k] = node[i].ptrs[k]
  BY <1>3, <1>7, <1>10 DEF inode
<1> HIDE DEF new
<1>12. node' \in [Inum -> inode] /\ node'[i] = new /\ \A m \in Inum : m # i => node'[m] = node[m]
  BY <1>7, <1>8, <1>10
<1>13. \A m \in Inum : node'[m].size = node[m].size /\ node'[m].iptr = node[m].iptr
  BY <1>10, <1>12
<1> QED
  BY <1>1, <1>2, <1>3, <1>5, <1>6, <1>11, <1>12, <1>13

(* The page of the table: one inode gets another table.                    *)
LEMMA TableEffect ==
  ASSUME TypeOK, TableBlock
  PROVE  /\ Growing /\ ~NoPage /\ pbm' = pbm \cup {NextPage}
         /\ UNCHANGED <<ibm, tab, mem>>
         /\ run.at = NUM_PTRS /\ run.iptr = ""
         /\ run' \in Op
         /\ run'.op = run.op /\ run'.node = run.node /\ run'.from = run.from
         /\ run'.to = run.to /\ run'.iptr = "taken" /\ run'.at = run.at
         /\ node' \in [Inum -> inode]
         /\ \A m \in Inum : /\ node'[m].size = node[m].size
                            /\ node'[m].ptrs = node[m].ptrs
                            /\ m # run.node => node'[m] = node[m]
         /\ node'[run.node].iptr = NextPage
<1>1. /\ Growing /\ ~NoPage /\ pbm' = pbm \cup {NextPage}
      /\ UNCHANGED <<ibm, tab, mem>> /\ run.at = NUM_PTRS /\ run.iptr = ""
      /\ run' = [run EXCEPT !.iptr = "taken"]
      /\ node' = [node EXCEPT ![run.node].iptr = NextPage]
  BY DEF TableBlock, TakePage, NeedsTable
<1>2. run \in Op
  BY DEF TypeOK
<1>3. run' \in Op
  BY <1>1, <1>2 DEF Op
<1>4. /\ run'.op = run.op /\ run'.node = run.node /\ run'.from = run.from
      /\ run'.to = run.to /\ run'.iptr = "taken" /\ run'.at = run.at
  BY <1>1, <1>2 DEF Op
<1>5. NextPage \in Page /\ run.node \in Inum /\ node \in [Inum -> inode]
  BY <1>1, NextPageFree, GrowingFacts DEF TypeOK
<1> DEFINE i == run.node
           new == [node[i] EXCEPT !.iptr = NextPage]
<1>6. node' = [node EXCEPT ![i] = new]
  BY <1>1
<1>7. /\ new \in inode /\ new.size = node[i].size /\ new.ptrs = node[i].ptrs
      /\ new.iptr = NextPage
  BY <1>5 DEF inode
<1> HIDE DEF new
<1>8. node' \in [Inum -> inode] /\ node'[i] = new /\ \A m \in Inum : m # i => node'[m] = node[m]
  BY <1>5, <1>6, <1>7
<1>9. \A m \in Inum : node'[m].size = node[m].size /\ node'[m].ptrs = node[m].ptrs
  BY <1>7, <1>8
<1> QED
  BY <1>1, <1>3, <1>4, <1>7, <1>8, <1>9

(* A block behind the table: one entry of one table changes.               *)
LEMMA IndirectEffect ==
  ASSUME TypeOK, IndirectBlock
  PROVE  /\ Growing /\ ~NoPage /\ pbm' = pbm \cup {NextPage}
         /\ UNCHANGED <<ibm, node>> /\ mem' \in [Page -> Data]
         /\ run.at >= NUM_PTRS /\ (run.at > NUM_PTRS \/ run.iptr = "taken")
         /\ run' \in Op
         /\ run'.op = run.op /\ run'.node = run.node /\ run'.from = run.from
         /\ run'.to = run.to /\ run'.iptr = "" /\ run'.at = run.at + 1
         /\ tab' \in [Page -> [Size -> Page]]
         /\ \A q \in Page : q # node[run.node].iptr => tab'[q] = tab[q]
         /\ tab'[node[run.node].iptr][run.at - NUM_PTRS] = NextPage
         /\ \A k \in Size : k # run.at - NUM_PTRS =>
              tab'[node[run.node].iptr][k] = tab[node[run.node].iptr][k]
<1> DEFINE q == node[run.node].iptr
           e == run.at - NUM_PTRS
           p == NextPage
<1>1. /\ Growing /\ ~NoPage /\ pbm' = pbm \cup {p} /\ CopyBlock
      /\ UNCHANGED <<ibm, node>> /\ run.at >= NUM_PTRS /\ ~NeedsTable
      /\ run' = [run EXCEPT !.at = run.at + 1, !.iptr = ""]
      /\ tab' = [tab EXCEPT ![q] = [tab[q] EXCEPT ![e] = p]]
  BY DEF IndirectBlock, TakePage
<1>2. mem' \in [Page -> Data]
  BY <1>1, CopyType
<1>3. run \in Op /\ run.at + 1 \in Size /\ run.at \in Nat /\ run.at \in Size
  BY <1>1, GrowingFacts DEF TypeOK
<1>4. run.iptr = "" \/ run.iptr = "taken"
  BY <1>3 DEF Op
<1>5. run.at > NUM_PTRS \/ run.iptr = "taken"
  <2>1. CASE run.at = NUM_PTRS
    BY <1>1, <1>4, <2>1 DEF NeedsTable
  <2>2. CASE run.at # NUM_PTRS
    BY <1>1, <1>3, <2>2, InodesAssumption
  <2> QED
    BY <2>1, <2>2
<1>6. run' \in Op
  BY <1>1, <1>3 DEF Op
<1>7. /\ run'.op = run.op /\ run'.node = run.node /\ run'.from = run.from
      /\ run'.to = run.to /\ run'.iptr = "" /\ run'.at = run.at + 1
  BY <1>1, <1>3 DEF Op
<1>8. p \in Page /\ q \in Page /\ tab \in [Page -> [Size -> Page]]
  BY <1>1, NextPageFree, GrowingFacts DEF TypeOK, inode
<1>9. e \in Size
  BY <1>1, <1>3, InodesAssumption DEF Size
<1> HIDE DEF q, e, p
<1>10. tab' \in [Page -> [Size -> Page]]
  BY <1>1, <1>8, <1>9
<1>11. tab'[q][e] = p /\ \A k \in Size : k # e => tab'[q][k] = tab[q][k]
  BY <1>1, <1>8, <1>9
<1>12. \A r \in Page : r # q => tab'[r] = tab[r]
  BY <1>1, <1>8
<1> QED
  BY <1>1, <1>2, <1>5, <1>6, <1>7, <1>10, <1>11, <1>12 DEF q, e, p

(* The end of an operation: the size is stored.                            *)
LEMMA EndEffect ==
  ASSUME TypeOK, run.op # "idle",
         node' = [node EXCEPT ![run.node].size = run.to]
  PROVE  /\ node' \in [Inum -> inode]
         /\ \A m \in Inum : /\ node'[m].ptrs = node[m].ptrs
                            /\ node'[m].iptr = node[m].iptr
                            /\ m # run.node => node'[m] = node[m]
         /\ node'[run.node].size = run.to
<1>1. run.node \in Inum /\ run.to \in Size /\ node \in [Inum -> inode]
  BY DEF TypeOK, Op
<1> DEFINE i == run.node
           new == [node[i] EXCEPT !.size = run.to]
<1>2. node' = [node EXCEPT ![i] = new]
  OBVIOUS
<1>3. /\ new \in inode /\ new.size = run.to /\ new.ptrs = node[i].ptrs
      /\ new.iptr = node[i].iptr
  BY <1>1 DEF inode
<1> HIDE DEF new
<1>4. node' \in [Inum -> inode] /\ node'[i] = new /\ \A m \in Inum : m # i => node'[m] = node[m]
  BY <1>1, <1>2, <1>3
<1>5. \A m \in Inum : node'[m].ptrs = node[m].ptrs /\ node'[m].iptr = node[m].iptr
  BY <1>3, <1>4
<1> QED
  BY <1>3, <1>4, <1>5

(* Every step of an operation keeps the types.                             *)
LEMMA TypeStep ==
  ASSUME TypeOK, Step
  PROVE  TypeOK'
<1>1. CASE DirectBlock
  <2>1. NextPage \in Page
    BY <1>1, DirectEffect, NextPageFree
  <2>2. Special \subseteq pbm' /\ pbm' \subseteq Page
    BY <1>1, <2>1, DirectEffect DEF TypeOK
  <2>3. run'.at <= run'.to /\ run'.op \in {"copy", "grow"}
    BY <1>1, DirectEffect, GrowingFacts DEF Growing
  <2>4. run'.op = "copy" => run'.from \in ibm' /\ run'.from # run'.node
                            /\ run'.to = node'[run'.from].size
    <3>1. run.from \in Inum /\ node'[run.from].size = node[run.from].size
      BY <1>1, DirectEffect DEF TypeOK, Op
    <3>2. ibm' = ibm /\ run'.op = run.op /\ run'.node = run.node /\ run'.from = run.from
          /\ run'.to = run.to
      BY <1>1, DirectEffect
    <3> QED
      BY <3>1, <3>2 DEF TypeOK
  <2>5. run.iptr # "taken"
    BY <1>1, DirectEffect, GrowingFacts, InodesAssumption DEF TypeOK
  <2> QED
    BY <1>1, <2>2, <2>3, <2>4, <2>5, DirectEffect DEF TypeOK
<1>2. CASE TableBlock
  <2>1. NextPage \in Page
    BY <1>2, TableEffect, NextPageFree
  <2>2. Special \subseteq pbm' /\ pbm' \subseteq Page
    BY <1>2, <2>1, TableEffect DEF TypeOK
  <2>3. run'.op \in {"copy", "grow"} /\ run'.at = NUM_PTRS
    BY <1>2, TableEffect DEF Growing
  <2>4. run'.op = "copy" => run'.from \in ibm' /\ run'.from # run'.node
                            /\ run'.to = node'[run'.from].size
    <3>1. run.from \in Inum /\ node'[run.from].size = node[run.from].size
      BY <1>2, TableEffect DEF TypeOK, Op
    <3>2. ibm' = ibm /\ run'.op = run.op /\ run'.node = run.node /\ run'.from = run.from
          /\ run'.to = run.to
      BY <1>2, TableEffect
    <3> QED
      BY <3>1, <3>2 DEF TypeOK
  <2> QED
    BY <1>2, <2>2, <2>3, <2>4, TableEffect DEF TypeOK
<1>3. CASE IndirectBlock
  <2>1. NextPage \in Page
    BY <1>3, IndirectEffect, NextPageFree
  <2>2. Special \subseteq pbm' /\ pbm' \subseteq Page
    BY <1>3, <2>1, IndirectEffect DEF TypeOK
  <2>3. run'.at <= run'.to /\ run'.op \in {"copy", "grow"}
    BY <1>3, IndirectEffect, GrowingFacts DEF Growing
  <2>4. run'.op = "copy" => run'.from \in ibm' /\ run'.from # run'.node
                            /\ run'.to = node'[run'.from].size
    <3>1. UNCHANGED <<ibm, node>> /\ run'.op = run.op /\ run'.node = run.node
          /\ run'.from = run.from /\ run'.to = run.to
      BY <1>3, IndirectEffect
    <3> QED
      BY <3>1 DEF TypeOK
  <2> QED
    BY <1>3, <2>2, <2>3, <2>4, IndirectEffect DEF TypeOK
<1>4. CASE GrowEnd
  <2>1. node' \in [Inum -> inode]
    BY <1>4, EndEffect DEF GrowEnd
  <2> QED
    BY <1>4, <2>1, IdleType DEF GrowEnd, TypeOK
<1>5. CASE OutOfPages
  BY <1>5, IdleType DEF OutOfPages, TypeOK
<1>6. CASE GiveBlock
  <2>1. /\ run.op \in {"shrink", "free"} /\ run.at > run.to
        /\ run' = [run EXCEPT !.at = run.at - 1]
        /\ pbm' = (IF Given > 2 + NUM_DIRECT_PAGES THEN pbm \ {Given} ELSE pbm)
        /\ UNCHANGED <<ibm, node, tab, mem>>
    BY <1>6 DEF GiveBlock
  <2>2. run \in Op /\ run.at \in Size /\ run.to \in Size
    BY DEF TypeOK, Op
  <2>3. run.at - 1 \in Size /\ run.at - 1 >= run.to
    BY <2>1, <2>2, InodesAssumption DEF Size
  <2>4. Special \subseteq pbm' /\ pbm' \subseteq Page
    <3>1. CASE Given > 2 + NUM_DIRECT_PAGES
      <4>1. Given \notin Special
        BY <3>1, InodesAssumption DEF Special
      <4> QED
        BY <2>1, <4>1 DEF TypeOK
    <3> QED
      BY <2>1, <3>1 DEF TypeOK
  <2>5. run' \in Op
    BY <2>1, <2>2, <2>3 DEF Op
  <2>6. /\ run'.op = run.op /\ run'.node = run.node /\ run'.from = run.from
        /\ run'.to = run.to /\ run'.iptr = run.iptr /\ run'.at = run.at - 1
    BY <2>1, <2>2 DEF Op
  <2>7. run.op # "copy" /\ run.op # "grow" /\ run.op # "idle" /\ run.iptr # "taken"
    BY <2>1 DEF TypeOK
  <2> QED
    BY <2>1, <2>3, <2>4, <2>5, <2>6, <2>7 DEF TypeOK
<1>7. CASE ShrinkEnd
  <2>1. node' \in [Inum -> inode]
    BY <1>7, EndEffect DEF ShrinkEnd
  <2>2. ibm' \subseteq Inum
    BY <1>7 DEF ShrinkEnd, TypeOK
  <2> QED
    BY <1>7, <2>1, <2>2, IdleType DEF ShrinkEnd, TypeOK
<1> QED
  BY <1>1, <1>2, <1>3, <1>4, <1>5, <1>6, <1>7 DEF Step

(* Every action keeps the types.                                           *)
LEMMA TypeNext == TypeOK /\ [Next]_vars => TypeOK'
<1> SUFFICES ASSUME TypeOK, [Next]_vars PROVE TypeOK'
  OBVIOUS
<1>1. CASE Start
  BY <1>1, TypeStart
<1>2. CASE Step
  BY <1>2, TypeStep
<1>3. CASE Writes
  <2>1. PICK n \in ibm, v \in Data : \E k \in 0 .. node[n].size - 1 : Write(n, k, v)
    BY <1>3 DEF Writes
  <2>2. PICK k \in 0 .. node[n].size - 1 : Write(n, k, v)
    BY <2>1
  <2>3. mem' \in [Page -> Data]
    BY <2>2 DEF Write, TypeOK
  <2> QED
    BY <2>2, <2>3 DEF Write, TypeOK
<1>4. CASE Kill
  BY <1>4, IdleType DEF Kill, TypeOK
<1>5. CASE UNCHANGED vars
  BY <1>5 DEF vars, TypeOK, Growing
<1> QED
  BY <1>1, <1>2, <1>3, <1>4, <1>5 DEF Next

(* The bitmaps, the slots, the tables and the loop variables of inode.c    *)
(* keep their types in every behaviour of every instance: no operation     *)
(* runs on an inode that is not allocated or past the size it works to,    *)
(* and no copy loses the inode it reads.                                   *)
THEOREM InodesTypes == Spec => []TypeOK
<1>1. Init => TypeOK
  BY TypeInit
<1>2. TypeOK /\ [Next]_vars => TypeOK'
  BY TypeNext
<1> QED
  BY <1>1, <1>2, PTL DEF Spec

-----------------------------------------------------------------------------
(* Privacy.  A step keeps every page where it is held, or adds one place   *)
(* and a page that was free, or removes one place and frees its page.      *)

(* Extents are sizes.                                                      *)
LEMMA ExtentType ==
  ASSUME TypeOK, NEW n \in Inum
  PROVE  Extent(n) \in Size
<1>1. node[n].size \in Size
  BY DEF TypeOK, inode
<1>2. run.at \in Size
  BY DEF TypeOK, Op
<1> QED
  BY <1>1, <1>2 DEF Extent

(* The block of an allocated inode, and the table of one that has it, are  *)
(* places.                                                                 *)
LEMMA PlaceIntro ==
  ASSUME TypeOK, NEW n \in ibm, NEW k \in -1 .. MaxBlocks,
         IF k = -1 THEN HasTable(n) ELSE k < Extent(n)
  PROVE  <<n, k>> \in Place
<1>1. n \in Inum
  BY DEF TypeOK
<1>2. <<n, k>> \in Inum \X (-1 .. MaxBlocks) /\ <<n, k>>[1] = n /\ <<n, k>>[2] = k
  BY <1>1
<1> QED
  BY <1>2 DEF Place

(* A step that lengthens no inode keeps the pages where they are held.     *)
LEMMA Shrinks ==
  ASSUME TypeOK, TypeOK', run'.iptr # "taken", tab' = tab,
         \A n \in ibm' : /\ n \in ibm \/ Extent(n)' = 0
                         /\ Extent(n)' <= Extent(n)
                         /\ node'[n].ptrs = node[n].ptrs
                         /\ node'[n].iptr = node[n].iptr
  PROVE  \A a \in Place' : a \in Place /\ Held(a)' = Held(a)
<1> SUFFICES ASSUME NEW a \in Place'
             PROVE  a \in Place /\ Held(a)' = Held(a)
  OBVIOUS
<1> DEFINE n == a[1]
           k == a[2]
<1>1. a \in Inum \X (-1 .. MaxBlocks) /\ n \in ibm' /\ (IF k = -1 THEN HasTable(n)' ELSE k < Extent(n)')
  BY DEF Place
<1>2. n \in Inum /\ k \in -1 .. MaxBlocks /\ a = <<n, k>>
  BY <1>1
<1> HIDE DEF n, k
<1>3. Extent(n) \in Size /\ Extent(n)' \in Size
  <2>1. Extent(n)' \in Size
    <3>1. node'[n].size \in Size
      BY <1>2 DEF TypeOK, inode
    <3>2. run'.at \in Size
      BY DEF TypeOK, Op
    <3> QED
      BY <3>1, <3>2 DEF Extent
  <2> QED
    BY <1>2, <2>1, ExtentType
<1>4. Extent(n)' <= Extent(n) /\ (n \in ibm \/ Extent(n)' = 0)
  BY <1>1
<1>5. HasTable(n)' => Extent(n)' > NUM_PTRS
  BY DEF HasTable
<1>6. Extent(n)' > 0
  BY <1>1, <1>2, <1>3, <1>5, InodesAssumption DEF Size
<1>7. n \in ibm
  BY <1>4, <1>6, <1>3 DEF Size
<1>8. HasTable(n)' => HasTable(n)
  <2>1. Extent(n)' > NUM_PTRS => Extent(n) > NUM_PTRS
    BY <1>3, <1>4, InodesAssumption DEF Size
  <2> QED
    BY <1>5, <2>1 DEF HasTable
<1>9. k < Extent(n)' => k < Extent(n)
  BY <1>2, <1>3, <1>4, InodesAssumption DEF Size
<1>10. a \in Place
  BY <1>1, <1>2, <1>7, <1>8, <1>9, PlaceIntro
<1>11. Held(a)' = Held(a)
  BY <1>1 DEF Held, inode_get_pnum, n
<1> QED
  BY <1>10, <1>11

(* Pages that stay where they are held stay private.                       *)
LEMMA Kept ==
  ASSUME Private, pbm' = pbm,
         \A a \in Place' : a \in Place /\ Held(a)' = Held(a)
  PROVE  Private'
BY DEF Private, Special

(* A free page that is taken for one place is private.                     *)
LEMMA Taken ==
  ASSUME TypeOK, Private, ~NoPage, pbm' = pbm \cup {NextPage}, NEW x,
         \A a \in Place' : IF a = x THEN Held(a)' = NextPage
                           ELSE a \in Place /\ Held(a)' = Held(a)
  PROVE  Private'
<1>1. NextPage \notin pbm /\ NextPage \notin Special
  BY NextPageFree DEF TypeOK
<1>2. \A a \in Place : Held(a) \in pbm /\ Held(a) \notin Special
  BY DEF Private
<1>3. \A a \in Place' : Held(a)' \in pbm' /\ Held(a)' \notin Special
  BY <1>1, <1>2
<1>4. ASSUME NEW a \in Place', NEW b \in Place', Held(a)' = Held(b)'
      PROVE  a = b
  <2>1. CASE a # x /\ b # x
    BY <1>4, <2>1 DEF Private
  <2>2. CASE a = x \/ b = x
    BY <1>1, <1>2, <1>4, <2>2
  <2> QED
    BY <2>1, <2>2
<1> QED
  BY <1>3, <1>4 DEF Private, Special

(* A page that is freed is held nowhere any more.                          *)
LEMMA GivenBack ==
  ASSUME Private, NEW x \in Place, pbm \ {Held(x)} \subseteq pbm',
         \A a \in Place' : a \in Place /\ a # x /\ Held(a)' = Held(a)
  PROVE  Private'
BY DEF Private, Special

(* No step but the last stores a size.                                     *)
LEMMA SizeLastNext ==
  ASSUME TypeOK, SizeLast, Next
  PROVE  SizeLast'
<1>1. CASE AllocInode
  BY <1>1 DEF AllocInode, alloc_inode, SizeLast
<1>2. ASSUME NEW n \in ibm, StartCopy(n)
      PROVE  SizeLast'
  <2>1. run'.op = "copy" /\ run'.node = Least(Free) /\ node'[Least(Free)].size = 0
    BY <1>2, AllocType DEF StartCopy, Idle
  <2> QED
    BY <2>1 DEF SizeLast
<1>3. ASSUME NEW n \in ibm, StartFree(n)
      PROVE  SizeLast'
  BY <1>3 DEF StartFree, Idle, SizeLast
<1>4. ASSUME NEW n \in ibm, NEW to \in Size, StartGrow(n, to)
      PROVE  SizeLast'
  <2>1. run'.op = "grow" /\ run'.node = n /\ run'.at = node[n].size /\ node' = node
    BY <1>4 DEF StartGrow, Idle
  <2>2. node[n].size \in Nat
    BY SizeNat DEF TypeOK, inode
  <2> QED
    BY <2>1, <2>2 DEF SizeLast
<1>5. ASSUME NEW n \in ibm, NEW to \in Size, StartShrink(n, to)
      PROVE  SizeLast'
  BY <1>5 DEF StartShrink, Idle, SizeLast
<1>6. CASE Writes
  BY <1>6 DEF Writes, Write, SizeLast
<1>7. CASE DirectBlock
  <2>1. run.node \in Inum /\ run.at \in Nat /\ node[run.node].size \in Nat
    BY <1>7, DirectEffect, GrowingFacts, SizeNat DEF TypeOK, inode
  <2>2. node'[run.node].size = node[run.node].size
    BY <1>7, <2>1, DirectEffect
  <2>3. run'.op = run.op /\ run'.node = run.node /\ run'.at = run.at + 1
    BY <1>7, DirectEffect
  <2> QED
    BY <2>1, <2>2, <2>3 DEF SizeLast
<1>8. CASE TableBlock
  <2>1. run.node \in Inum
    BY <1>8, TableEffect, GrowingFacts
  <2>2. node'[run.node].size = node[run.node].size
    BY <1>8, <2>1, TableEffect
  <2>3. run'.op = run.op /\ run'.node = run.node /\ run'.at = run.at
    BY <1>8, TableEffect
  <2> QED
    BY <2>2, <2>3 DEF SizeLast
<1>9. CASE IndirectBlock
  <2>1. run.node \in Inum /\ run.at \in Nat /\ node[run.node].size \in Nat
    BY <1>9, IndirectEffect, GrowingFacts, SizeNat DEF TypeOK, inode
  <2>2. run'.op = run.op /\ run'.node = run.node /\ run'.at = run.at + 1 /\ node' = node
    BY <1>9, IndirectEffect
  <2> QED
    BY <2>1, <2>2 DEF SizeLast
<1>10. CASE GiveBlock
  <2>1. run'.op = run.op /\ run.op \in {"shrink", "free"}
    BY <1>10 DEF GiveBlock, TypeOK, Op
  <2> QED
    BY <2>1 DEF SizeLast
<1>11. CASE GrowEnd \/ OutOfPages \/ ShrinkEnd \/ Kill
  BY <1>11, IdleType DEF GrowEnd, OutOfPages, ShrinkEnd, Kill, SizeLast
<1> QED
  BY <1>1, <1>2, <1>3, <1>4, <1>5, <1>6, <1>7, <1>8, <1>9, <1>10, <1>11
  DEF Next, Start, Step

(* A step that takes no page and frees none.                               *)
LEMMA PrivateSame ==
  ASSUME TypeOK, SizeLast, Private, TypeOK',
         Start \/ Writes \/ GrowEnd \/ OutOfPages \/ ShrinkEnd \/ Kill
  PROVE  Private'
<1>1. \A n \in Inum : Extent(n) \in Nat /\ node[n].size \in Nat
  BY ExtentType, SizeNat DEF TypeOK, inode
<1>2. CASE AllocInode \/ \E n \in ibm : StartCopy(n)
  <2>1. /\ run.op = "idle" /\ alloc_inode /\ pbm' = pbm /\ tab' = tab
        /\ run' = run \/ (run'.op = "copy" /\ run'.node = Least(Free) /\ run'.at = 0)
        /\ run'.iptr # "taken"
    BY <1>2 DEF AllocInode, StartCopy, alloc_inode, Idle, TypeOK
  <2>2. /\ Least(Free) \in Inum /\ ibm' = ibm \cup {Least(Free)}
        /\ node'[Least(Free)].size = 0
        /\ \A m \in Inum : m # Least(Free) => node'[m] = node[m]
    BY <2>1, AllocType
  <2>3. /\ node'[Least(Free)].ptrs = node[Least(Free)].ptrs
        /\ node'[Least(Free)].iptr = node[Least(Free)].iptr
    BY <2>1, <2>2 DEF alloc_inode, TypeOK, inode
  <2>4. ASSUME NEW n \in ibm'
        PROVE  /\ n \in ibm \/ Extent(n)' = 0
               /\ Extent(n)' <= Extent(n)
               /\ node'[n].ptrs = node[n].ptrs
               /\ node'[n].iptr = node[n].iptr
    <3>1. CASE n = Least(Free)
      <4>1. Extent(n)' = 0
        BY <2>1, <2>2, <3>1 DEF Extent
      <4> QED
        BY <1>1, <2>2, <2>3, <3>1, <4>1
    <3>2. CASE n # Least(Free)
      <4>1. n \in ibm /\ n \in Inum
        BY <2>2, <3>2 DEF TypeOK
      <4>2. node'[n] = node[n]
        BY <2>2, <3>2, <4>1
      <4>3. Extent(n)' = Extent(n)
        BY <2>1, <3>2, <4>2 DEF Extent
      <4> QED
        BY <1>1, <4>1, <4>2, <4>3
    <3> QED
      BY <3>1, <3>2
  <2>5. \A a \in Place' : a \in Place /\ Held(a)' = Held(a)
    BY <2>1, <2>4, Shrinks
  <2> QED
    BY <2>1, <2>5, Kept
<1>3. CASE (\E n \in ibm : StartFree(n))
           \/ (\E n \in ibm, to \in Size : StartGrow(n, to) \/ StartShrink(n, to))
  <2>1. PICK i \in ibm : /\ run.op = "idle" /\ UNCHANGED <<pbm, ibm, node, tab>>
                         /\ run'.node = i /\ run'.at = node[i].size
                         /\ run'.iptr = ""
    BY <1>3 DEF StartFree, StartGrow, StartShrink, Idle
  <2>2. \A n \in ibm' : n \in Inum /\ n \in ibm /\ Extent(n)' = Extent(n)
    BY <2>1 DEF Extent, TypeOK
  <2>3. \A n \in ibm' : Extent(n)' <= Extent(n)
    BY <1>1, <2>2
  <2>4. \A a \in Place' : a \in Place /\ Held(a)' = Held(a)
    BY <2>1, <2>2, <2>3, Shrinks
  <2> QED
    BY <2>1, <2>4, Kept
<1>4. CASE Writes
  <2>1. UNCHANGED <<pbm, ibm, node, tab, run>> /\ run.op = "idle"
    BY <1>4 DEF Writes, Write
  <2>2. \A n \in ibm' : n \in Inum /\ n \in ibm /\ Extent(n)' = Extent(n)
    BY <2>1 DEF Extent, TypeOK
  <2>3. \A n \in ibm' : Extent(n)' <= Extent(n)
    BY <1>1, <2>2
  <2>4. run'.iptr # "taken"
    BY <2>1 DEF TypeOK
  <2>5. \A a \in Place' : a \in Place /\ Held(a)' = Held(a)
    BY <2>1, <2>2, <2>3, <2>4, Shrinks
  <2> QED
    BY <2>1, <2>5, Kept
<1>5. CASE GrowEnd \/ ShrinkEnd
  <2>1. /\ run.op # "idle" /\ run.at = run.to /\ run' = Idle
        /\ node' = [node EXCEPT ![run.node].size = run.to]
        /\ ibm' \subseteq ibm /\ pbm' = pbm /\ tab' = tab
    BY <1>5 DEF GrowEnd, ShrinkEnd
  <2>2. /\ node'[run.node].size = run.to
        /\ \A m \in Inum : /\ node'[m].ptrs = node[m].ptrs
                           /\ node'[m].iptr = node[m].iptr
                           /\ m # run.node => node'[m] = node[m]
    BY <2>1, EndEffect
  <2>3. \A n \in ibm' : n \in Inum /\ n \in ibm
    BY <2>1 DEF TypeOK
  <2>4. run'.op = "idle" /\ run'.iptr # "taken"
    BY <2>1, IdleType
  <2>5. \A n \in ibm' : Extent(n)' = Extent(n)
    BY <2>1, <2>2, <2>3, <2>4 DEF Extent
  <2>6. \A n \in ibm' : Extent(n)' <= Extent(n)
    BY <1>1, <2>3, <2>5
  <2>7. \A a \in Place' : a \in Place /\ Held(a)' = Held(a)
    BY <2>1, <2>2, <2>3, <2>4, <2>6, Shrinks
  <2> QED
    BY <2>1, <2>7, Kept
<1>6. CASE OutOfPages \/ Kill
  <2>1. /\ run.op \in {"copy", "grow"} /\ run' = Idle
        /\ UNCHANGED <<pbm, ibm, node, tab>>
    BY <1>6, InodesAssumption DEF OutOfPages, Growing, Kill
  <2>2. run'.op = "idle" /\ run'.iptr # "taken"
    BY <2>1, IdleType
  <2>3. node[run.node].size <= run.at
    <3>1. run.at \in Nat
      BY SizeNat DEF TypeOK, Op
    <3> QED
      BY <2>1, <3>1 DEF SizeLast
  <2>4. \A n \in ibm' : n \in Inum /\ n \in ibm /\ node'[n] = node[n]
    BY <2>1 DEF TypeOK
  <2>5. \A n \in ibm' : Extent(n)' <= Extent(n)
    BY <1>1, <2>1, <2>2, <2>3, <2>4 DEF Extent
  <2>6. \A a \in Place' : a \in Place /\ Held(a)' = Held(a)
    BY <2>1, <2>2, <2>4, <2>5, Shrinks
  <2> QED
    BY <2>1, <2>6, Kept
<1> QED
  BY <1>2, <1>3, <1>4, <1>5, <1>6 DEF Start

(* shrink_inode frees the last block of its inode, and only that.          *)
LEMMA PrivateGive ==
  ASSUME TypeOK, Private, TypeOK', GiveBlock
  PROVE  Private'
<1>1. /\ run.op \in {"shrink", "free"} /\ run.at > run.to
      /\ run' = [run EXCEPT !.at = run.at - 1]
      /\ pbm \ {Given} \subseteq pbm'
      /\ UNCHANGED <<ibm, node, tab>>
  BY DEF GiveBlock
<1>2. run \in Op /\ run.at \in Size /\ run.to \in Size /\ run.node \in ibm /\ run.node \in Inum
  BY <1>1 DEF TypeOK, Op
<1>3. run'.op = run.op /\ run'.node = run.node /\ run'.iptr = run.iptr /\ run'.at = run.at - 1
  BY <1>1, <1>2 DEF Op
<1>4. run'.iptr # "taken"
  BY <1>1, <1>3 DEF TypeOK
<1>5. run.at - 1 \in Size /\ run.at - 1 \in -1 .. MaxBlocks /\ run.at - 1 # -1
      /\ run.at - 1 < run.at /\ run.at - 1 <= run.at
  BY <1>1, <1>2, InodesAssumption DEF Size
<1>6. \A n : n = run.node => Extent(n) = run.at /\ Extent(n)' = run.at - 1
  BY <1>1, <1>3 DEF Extent
<1>7. \A n \in ibm' : n \in ibm /\ n \in Inum
  BY <1>1 DEF TypeOK
<1>8. \A n \in ibm' : Extent(n)' <= Extent(n)
  <2> TAKE n \in ibm'
  <2>1. CASE n = run.node
    BY <1>5, <1>6, <2>1
  <2>2. CASE n # run.node
    <3>1. Extent(n)' = Extent(n)
      BY <1>1, <1>3, <2>2 DEF Extent
    <3>2. Extent(n) \in Nat
      BY <1>7, ExtentType, SizeNat
    <3> QED
      BY <3>1, <3>2
  <2> QED
    BY <2>1, <2>2
<1>9. \A a \in Place' : a \in Place /\ Held(a)' = Held(a)
  BY <1>1, <1>4, <1>7, <1>8, Shrinks
<1> DEFINE x == <<run.node, run.at - 1>>
<1>10. x \in Place
  BY <1>2, <1>5, <1>6, PlaceIntro
<1>11. Held(x) = Given
  BY <1>5 DEF Held, Given
<1>12. x \notin Place'
  <2> SUFFICES ASSUME x \in Place' PROVE FALSE
    OBVIOUS
  <2>1. x[1] = run.node /\ x[2] = run.at - 1
    OBVIOUS
  <2>2. PICK n : n = run.node
    OBVIOUS
  <2>3. run.at - 1 < Extent(n)'
    BY <1>5, <2>1, <2>2 DEF Place
  <2> QED
    BY <1>2, <1>6, <2>2, <2>3, SizeNat
<1> HIDE DEF x
<1> QED
  BY <1>1, <1>9, <1>10, <1>11, <1>12, GivenBack

(* A direct block is one more place, on a page that was free.              *)
LEMMA DirectPlaces ==
  ASSUME TypeOK, Private, DirectBlock
  PROVE  \A a \in Place' : IF a = <<run.node, run.at>> THEN Held(a)' = NextPage
                           ELSE a \in Place /\ Held(a)' = Held(a)
<1>1. /\ run.op # "idle" /\ run.node \in ibm /\ run.node \in Inum
      /\ run.at \in Nat /\ run.at < NUM_PTRS /\ run.at \in Ptr
  BY DirectEffect, GrowingFacts DEF Growing
<1>2. run.iptr # "taken" /\ run'.iptr # "taken"
  BY <1>1, DirectEffect, InodesAssumption DEF TypeOK
<1>3. \A n : n = run.node => Extent(n) = run.at /\ Extent(n)' = run.at + 1
  BY <1>1, DirectEffect DEF Extent
<1>4. \A n \in Inum : n # run.node => Extent(n)' = Extent(n) /\ HasTable(n)' = HasTable(n)
  BY <1>2, DirectEffect DEF Extent, HasTable
<1> DEFINE x == <<run.node, run.at>>
<1>5. ASSUME NEW a \in Place'
      PROVE  IF a = x THEN Held(a)' = NextPage ELSE a \in Place /\ Held(a)' = Held(a)
  <2> DEFINE n == a[1]
             k == a[2]
  <2>1. /\ a \in Inum \X (-1 .. MaxBlocks) /\ n \in ibm
        /\ (IF k = -1 THEN HasTable(n)' ELSE k < Extent(n)')
    BY DirectEffect DEF Place
  <2>2. n \in Inum /\ k \in -1 .. MaxBlocks /\ a = <<n, k>>
    BY <2>1
  <2>3. CASE n # run.node
    <3>1. a \in Place
      BY <1>4, <2>1, <2>2, <2>3, PlaceIntro
    <3>2. Held(a)' = Held(a)
      BY <2>2, <2>3, DirectEffect DEF Held, inode_get_pnum
    <3> QED
      BY <2>2, <2>3, <3>1, <3>2
  <2>4. CASE n = run.node
    <3>1. ~HasTable(n)'
      BY <1>1, <1>2, <1>3, <2>4, InodesAssumption DEF HasTable
    <3>2. k # -1 /\ k \in Nat /\ k <= run.at
      BY <1>1, <1>3, <2>1, <2>2, <2>4, <3>1, InodesAssumption
    <3>3. k \in Ptr /\ k < NUM_PTRS
      BY <1>1, <3>2, InodesAssumption DEF Ptr
    <3>4. Held(a) = node[n].ptrs[k] /\ Held(a)' = node'[n].ptrs[k]
      BY <3>2, <3>3 DEF Held, inode_get_pnum
    <3>5. CASE k = run.at
      BY <2>2, <2>4, <3>4, <3>5, DirectEffect
    <3>6. CASE k # run.at
      <4>1. k < Extent(n)
        BY <1>1, <1>3, <2>4, <3>2, <3>6
      <4>2. a \in Place
        BY <2>1, <2>2, <3>2, <4>1, PlaceIntro
      <4>3. Held(a)' = Held(a)
        BY <2>4, <3>3, <3>4, <3>6, DirectEffect
      <4> QED
        BY <2>2, <3>6, <4>2, <4>3
    <3> QED
      BY <3>5, <3>6
  <2> QED
    BY <2>3, <2>4
<1> QED
  BY <1>5

(* The page of a table is one more place; the inode held no table.         *)
LEMMA TablePlaces ==
  ASSUME TypeOK, Private, TableBlock
  PROVE  \A a \in Place' : IF a = <<run.node, -1>> THEN Held(a)' = NextPage
                           ELSE a \in Place /\ Held(a)' = Held(a)
<1>1. /\ run.op # "idle" /\ run.node \in ibm /\ run.node \in Inum
      /\ run.at \in Nat /\ run.at = NUM_PTRS /\ run.iptr = ""
  BY TableEffect, GrowingFacts DEF Growing
<1>2. \A n : n = run.node => Extent(n) = NUM_PTRS
  BY <1>1 DEF Extent
<1>3. \A n \in Inum : Extent(n)' = Extent(n)
  BY <1>1, TableEffect DEF Extent
<1>4. \A n \in Inum : n # run.node => HasTable(n)' = HasTable(n)
  BY <1>3, TableEffect DEF HasTable
<1> DEFINE x == <<run.node, -1>>
<1>5. ASSUME NEW a \in Place'
      PROVE  IF a = x THEN Held(a)' = NextPage ELSE a \in Place /\ Held(a)' = Held(a)
  <2> DEFINE n == a[1]
             k == a[2]
  <2>1. /\ a \in Inum \X (-1 .. MaxBlocks) /\ n \in ibm
        /\ (IF k = -1 THEN HasTable(n)' ELSE k < Extent(n)')
    BY TableEffect DEF Place
  <2>2. n \in Inum /\ k \in -1 .. MaxBlocks /\ a = <<n, k>>
    BY <2>1
  <2>3. CASE n # run.node
    <3>1. a \in Place
      BY <1>3, <1>4, <2>1, <2>2, <2>3, PlaceIntro
    <3>2. Held(a)' = Held(a)
      BY <2>2, <2>3, TableEffect DEF Held, inode_get_pnum
    <3> QED
      BY <2>2, <2>3, <3>1, <3>2
  <2>4. CASE n = run.node /\ k = -1
    <3>1. Held(a)' = NextPage
      BY <2>4, TableEffect DEF Held
    <3> QED
      BY <2>2, <2>4, <3>1
  <2>5. CASE n = run.node /\ k # -1
    <3>1. a \in Place
      BY <1>3, <2>1, <2>2, <2>5, PlaceIntro
    <3>2. k < NUM_PTRS
      BY <1>2, <1>3, <2>1, <2>2, <2>5
    <3>3. Held(a) = node[n].ptrs[k] /\ Held(a)' = node'[n].ptrs[k]
      BY <2>5, <3>2 DEF Held, inode_get_pnum
    <3>4. Held(a)' = Held(a)
      BY <2>2, <3>3, TableEffect
    <3>5. a # x
      BY <2>2, <2>5
    <3> QED
      BY <3>1, <3>4, <3>5
  <2> QED
    BY <2>3, <2>4, <2>5
<1> QED
  BY <1>5

(* A block behind the table is one more place.  The table is a place       *)
(* already, so no other inode reads its blocks through it.                 *)
LEMMA IndirectPlaces ==
  ASSUME TypeOK, Private, IndirectBlock
  PROVE  \A a \in Place' : IF a = <<run.node, run.at>> THEN Held(a)' = NextPage
                           ELSE a \in Place /\ Held(a)' = Held(a)
<1>1. /\ run.op # "idle" /\ run.node \in ibm /\ run.node \in Inum
      /\ run.at \in Nat /\ run.at \in Size /\ run.at >= NUM_PTRS
  BY IndirectEffect, GrowingFacts DEF Growing
<1>2. \A n : n = run.node => Extent(n) = run.at /\ Extent(n)' = run.at + 1 /\ HasTable(n)
  <2>1. \A n : n = run.node => Extent(n) = run.at
    BY <1>1 DEF Extent
  <2>2. \A n : n = run.node => Extent(n)' = run.at + 1
    BY <1>1, IndirectEffect DEF Extent
  <2>3. \A n : n = run.node => HasTable(n)
    BY <2>1, IndirectEffect DEF HasTable
  <2> QED
    BY <2>1, <2>2, <2>3
<1>3. \A n \in Inum : n # run.node => Extent(n)' = Extent(n) /\ HasTable(n)' = HasTable(n)
  BY IndirectEffect DEF Extent, HasTable
<1>5. -1 \in -1 .. MaxBlocks
  BY InodesAssumption
<1> DEFINE x == <<run.node, run.at>>
           t == node[run.node].iptr
<1>6. \A n \in ibm : HasTable(n) => <<n, -1>> \in Place /\ Held(<<n, -1>>) = node[n].iptr
  BY <1>5, PlaceIntro DEF Held
<1>7. \A n \in ibm : HasTable(n) /\ n # run.node => node[n].iptr # t
  <2> SUFFICES ASSUME NEW n \in ibm, HasTable(n), n # run.node
               PROVE  node[n].iptr # t
    OBVIOUS
  <2>1. <<n, -1>> \in Place /\ <<run.node, -1>> \in Place
    BY <1>1, <1>2, <1>6
  <2>2. <<n, -1>> # <<run.node, -1>>
    OBVIOUS
  <2>3. Held(<<n, -1>>) # Held(<<run.node, -1>>)
    BY <2>1, <2>2 DEF Private
  <2> QED
    BY <1>1, <1>2, <1>6, <2>3
<1>8. ASSUME NEW a \in Place'
      PROVE  IF a = x THEN Held(a)' = NextPage ELSE a \in Place /\ Held(a)' = Held(a)
  <2> DEFINE n == a[1]
             k == a[2]
  <2>1. /\ a \in Inum \X (-1 .. MaxBlocks) /\ n \in ibm
        /\ (IF k = -1 THEN HasTable(n)' ELSE k < Extent(n)')
    BY IndirectEffect DEF Place
  <2>2. n \in Inum /\ k \in -1 .. MaxBlocks /\ a = <<n, k>> /\ node[n].iptr \in Page
    BY <2>1 DEF TypeOK, inode
  <2>3. Extent(n) \in Nat /\ (k # -1 => k \in Nat /\ k \in Size)
    BY <2>2, ExtentType, SizeNat, InodesAssumption DEF Size
  <2>4. CASE k = -1
    <3>1. HasTable(n)
      BY <1>2, <1>3, <2>1, <2>2, <2>4
    <3>2. a \in Place
      BY <2>1, <2>2, <2>4, <3>1, PlaceIntro
    <3>3. Held(a)' = Held(a)
      BY <2>4, IndirectEffect DEF Held
    <3>4. a # x
      BY <1>1, <2>2, <2>4
    <3> QED
      BY <3>2, <3>3, <3>4
  <2>5. CASE k # -1 /\ n = run.node /\ k = run.at
    <3>1. ~(k < NUM_PTRS)
      BY <1>1, <2>5, InodesAssumption
    <3>2. Held(a)' = tab'[node[n].iptr][k - NUM_PTRS]
      BY <2>5, <3>1, IndirectEffect DEF Held, inode_get_pnum
    <3>3. Held(a)' = NextPage
      BY <2>5, <3>2, IndirectEffect
    <3> QED
      BY <2>2, <2>5, <3>3
  <2>6. CASE k # -1 /\ ~(n = run.node /\ k = run.at)
    <3>1. k < Extent(n)
      BY <1>1, <1>2, <1>3, <2>1, <2>2, <2>3, <2>6
    <3>2. a \in Place
      BY <2>1, <2>2, <2>6, <3>1, PlaceIntro
    <3>3. CASE k < NUM_PTRS
      <4>1. Held(a)' = Held(a)
        BY <2>6, <3>3, IndirectEffect DEF Held, inode_get_pnum
      <4> QED
        BY <2>2, <2>6, <3>2, <4>1
    <3>4. CASE ~(k < NUM_PTRS)
      <4>1. Held(a) = tab[node[n].iptr][k - NUM_PTRS] /\ Held(a)' = tab'[node[n].iptr][k - NUM_PTRS]
        BY <2>6, <3>4, IndirectEffect DEF Held, inode_get_pnum
      <4>2. CASE n = run.node
        <5>1. k - NUM_PTRS \in Size /\ k - NUM_PTRS # run.at - NUM_PTRS
          BY <1>1, <2>3, <2>6, <3>4, <4>2, InodesAssumption DEF Size
        <5>2. Held(a)' = Held(a)
          BY <4>1, <4>2, <5>1, IndirectEffect
        <5> QED
          BY <2>2, <2>6, <3>2, <5>2
      <4>3. CASE n # run.node
        <5>1. HasTable(n)
          BY <2>3, <2>6, <3>1, <3>4, InodesAssumption DEF HasTable
        <5>2. tab'[node[n].iptr] = tab[node[n].iptr]
          BY <1>7, <2>1, <2>2, <4>3, <5>1, IndirectEffect
        <5> QED
          BY <2>2, <2>6, <3>2, <4>1, <5>2
      <4> QED
        BY <4>2, <4>3
    <3> QED
      BY <3>3, <3>4
  <2> QED
    BY <2>4, <2>5, <2>6
<1> QED
  BY <1>8

(* Every page that a growing inode takes is private.                       *)
LEMMA PrivateGrow ==
  ASSUME TypeOK, Private, DirectBlock \/ TableBlock \/ IndirectBlock
  PROVE  Private'
<1>1. ~NoPage /\ pbm' = pbm \cup {NextPage}
  BY DEF DirectBlock, TableBlock, IndirectBlock, TakePage
<1>2. \E y : \A a \in Place' : IF a = y THEN Held(a)' = NextPage
                             ELSE a \in Place /\ Held(a)' = Held(a)
  BY DirectPlaces, TablePlaces, IndirectPlaces
<1> QED
  BY <1>1, <1>2, Taken

(* Nothing is held in a new image.                                         *)
LEMMA PrivateInit == Init => SizeLast /\ Private
<1> SUFFICES ASSUME Init PROVE SizeLast /\ Private
  OBVIOUS
<1>1. run.op = "idle" /\ run.iptr = ""
  BY DEF Init, Idle
<1>2. \A n \in Inum : Extent(n) = 0 /\ ~HasTable(n)
  <2> TAKE n \in Inum
  <2>1. node[n].size = 0
    BY DEF Init
  <2>2. Extent(n) = 0
    BY <1>1, <2>1 DEF Extent
  <2>3. ~(0 > NUM_PTRS)
    BY InodesAssumption
  <2> QED
    BY <1>1, <2>2, <2>3 DEF HasTable
<1>3. Place = {}
  BY <1>2, InodesAssumption DEF Place
<1> QED
  BY <1>1, <1>3 DEF SizeLast, Private

(* Every action keeps the pages private.                                   *)
LEMMA InvNext == Inv /\ [Next]_vars => Inv'
<1> SUFFICES ASSUME Inv, [Next]_vars PROVE Inv'
  OBVIOUS
<1>1. TypeOK /\ SizeLast /\ Private /\ TypeOK'
  BY TypeNext DEF Inv
<1>2. CASE Next
  <2>1. SizeLast'
    BY <1>1, <1>2, SizeLastNext
  <2>2. Private'
    BY <1>1, <1>2, PrivateSame, PrivateGrow, PrivateGive
    DEF Next, Step
  <2> QED
    BY <1>1, <2>1, <2>2 DEF Inv
<1>3. CASE UNCHANGED vars
  <2>1. SizeLast'
    BY <1>1, <1>3 DEF vars, SizeLast
  <2>2. Private'
    BY <1>1, <1>3 DEF vars, Private, Place, Held, HasTable, Extent, inode_get_pnum
  <2> QED
    BY <1>1, <2>1, <2>2 DEF Inv
<1> QED
  BY <1>2, <1>3

(* In every behaviour of every instance no page has two owners: whatever   *)
(* the order of copies, growths, shrinkings and frees, and wherever        *)
(* copy_inode and grow_inode are cut short, a page behind an inode is      *)
(* marked in the bitmap, is none of the first pages and is in one place.   *)
THEOREM InodesPrivate == Spec => []Private
<1>1. Init => Inv
  BY TypeInit, PrivateInit DEF Inv
<1>2. Inv /\ [Next]_vars => Inv'
  BY InvNext
<1>3. Inv => Private
  BY DEF Inv
<1> QED
  BY <1>1, <1>2, <1>3, PTL DEF Spec

-----------------------------------------------------------------------------
(* Pages are returned.  A block is let go by the loop of shrink_inode, by  *)
(* a process that dies growing, and by nothing else.                       *)

(* free_inode gives back all blocks.                                       *)
FreesAll == run.op = "free" => run.to = 0

(* Every action keeps that: only free_inode starts an operation of its own  *)
(* kind, with nothing to keep.                                             *)
LEMMA FreesAllNext == TypeOK /\ FreesAll /\ [Next]_vars => FreesAll'
<1> SUFFICES ASSUME TypeOK, FreesAll, [Next]_vars PROVE FreesAll'
  OBVIOUS
<1>1. CASE \E n \in ibm : StartCopy(n)
  BY <1>1 DEF StartCopy, Idle, FreesAll
<1>2. CASE \E n \in ibm : StartFree(n)
  BY <1>2 DEF StartFree, Idle, FreesAll
<1>3. CASE \E n \in ibm, to \in Size : StartGrow(n, to) \/ StartShrink(n, to)
  BY <1>3 DEF StartGrow, StartShrink, Idle, FreesAll
<1>4. CASE DirectBlock \/ TableBlock \/ IndirectBlock \/ GiveBlock
  <2>1. run \in Op
    BY DEF TypeOK
  <2>2. run'.op = run.op /\ run'.to = run.to
    BY <1>4, <2>1 DEF DirectBlock, TableBlock, IndirectBlock, GiveBlock, Op
  <2> QED
    BY <2>2 DEF FreesAll
<1>5. CASE GrowEnd \/ OutOfPages \/ ShrinkEnd \/ Kill
  BY <1>5, IdleType DEF GrowEnd, OutOfPages, ShrinkEnd, Kill, FreesAll
<1>6. CASE AllocInode \/ Writes \/ UNCHANGED vars
  BY <1>6 DEF AllocInode, Writes, Write, vars, FreesAll
<1> QED
  BY <1>1, <1>2, <1>3, <1>4, <1>5, <1>6 DEF Next, Start, Step

(* A block that is let go was a block, and its inode is gone or shorter.   *)
LEMMA LetGo ==
  ASSUME TypeOK, TypeOK', NEW a \in Place, a \notin Place', a[2] # -1
  PROVE  /\ a[1] \in ibm /\ a[1] \in Inum
         /\ a[2] \in Nat /\ a[2] < Extent(a[1]) /\ Extent(a[1]) \in Nat
         /\ a[1] \in ibm' => ~(a[2] < Extent(a[1])')
<1>1. a \in Inum \X (-1 .. MaxBlocks) /\ a[1] \in ibm /\ a[2] < Extent(a[1])
  BY DEF Place
<1>2. a[1] \in Inum /\ a[2] \in -1 .. MaxBlocks
  BY <1>1
<1>3. a[2] \in Nat
  BY <1>2, InodesAssumption
<1>4. Extent(a[1]) \in Nat
  BY <1>2, ExtentType, SizeNat
<1>5. a[1] \in ibm' => ~(a[2] < Extent(a[1])')
  BY <1>1 DEF Place
<1> QED
  BY <1>1, <1>2, <1>3, <1>4, <1>5

(* A step that keeps an inode and does not shorten it lets nothing go.     *)
LEMMA Lasts ==
  ASSUME TypeOK, TypeOK', NEW a \in Place, a \notin Place', a[2] # -1,
         a[1] \in ibm', Extent(a[1])' = Extent(a[1]) \/ Extent(a[1])' = Extent(a[1]) + 1
  PROVE  FALSE
<1>1. a[2] \in Nat /\ a[2] < Extent(a[1]) /\ Extent(a[1]) \in Nat /\ ~(a[2] < Extent(a[1])')
  BY LetGo
<1> QED
  BY <1>1

(* The block that shrink_inode lets go is the one whose page it frees.     *)
LEMMA GiveReturns ==
  ASSUME TypeOK, TypeOK', Private, GiveBlock,
         NEW a \in Place, a \notin Place', a[2] # -1
  PROVE  Held(a) \notin pbm' \/ Held(a) = 2 + NUM_DIRECT_PAGES
<1>1. /\ run.op \in {"shrink", "free"} /\ run.at > run.to
      /\ run' = [run EXCEPT !.at = run.at - 1]
      /\ pbm' = IF Given > 2 + NUM_DIRECT_PAGES THEN pbm \ {Given} ELSE pbm
      /\ UNCHANGED <<ibm, node>>
  BY DEF GiveBlock
<1>2. run \in Op /\ run.at \in Nat
  BY SizeNat DEF TypeOK, Op
<1>3. run'.op = run.op /\ run'.node = run.node /\ run'.at = run.at - 1
  BY <1>1, <1>2 DEF Op
<1>4. a[1] = run.node
  <2> SUFFICES ASSUME a[1] # run.node PROVE FALSE
    OBVIOUS
  <2>1. Extent(a[1])' = Extent(a[1])
    BY <1>1, <1>3 DEF Extent
  <2>2. a[1] \in ibm'
    BY <1>1, LetGo
  <2> QED
    BY <2>1, <2>2, Lasts
<1>5. \A n : n = run.node => Extent(n) = run.at /\ Extent(n)' = run.at - 1
  BY <1>1, <1>3 DEF Extent
<1>6. a[2] = run.at - 1
  <2>1. a[2] \in Nat /\ a[2] < Extent(a[1]) /\ ~(a[2] < Extent(a[1])')
    BY <1>1, LetGo
  <2> QED
    BY <1>2, <1>4, <1>5, <2>1
<1>7. Held(a) = Given
  BY <1>4, <1>6 DEF Held, Given
<1>8. Given \in Nat /\ Given >= 2 + NUM_DIRECT_PAGES
  <2>1. Held(a) \in Page /\ Held(a) \notin Special
    BY DEF Private, TypeOK
  <2> QED
    BY <1>7, <2>1, InodesAssumption DEF Page, Special
<1>9. CASE Given > 2 + NUM_DIRECT_PAGES
  BY <1>1, <1>7, <1>9
<1>10. CASE ~(Given > 2 + NUM_DIRECT_PAGES)
  BY <1>7, <1>8, <1>10, InodesAssumption
<1> QED
  BY <1>9, <1>10

(* The other steps let no block go, unless the process dies growing.       *)
LEMMA NothingLetGo ==
  ASSUME TypeOK, TypeOK', FreesAll, Next, ~GiveBlock, ~Died,
         NEW a \in Place, a \notin Place', a[2] # -1
  PROVE  FALSE
<1>1. a[1] \in ibm /\ a[1] \in Inum /\ a[2] \in Nat /\ a[2] < Extent(a[1])
  BY LetGo
<1>2. CASE AllocInode \/ \E n \in ibm : StartCopy(n)
  <2>1. alloc_inode /\ run.op = "idle"
        /\ (run' = run \/ run'.node = Least(Free))
    BY <1>2 DEF AllocInode, StartCopy, alloc_inode, Idle
  <2>2. /\ Least(Free) \notin ibm /\ ibm' = ibm \cup {Least(Free)}
        /\ \A m \in Inum : m # Least(Free) => node'[m] = node[m]
    BY <2>1, AllocType
  <2>3. a[1] \in ibm' /\ a[1] # Least(Free) /\ node'[a[1]] = node[a[1]]
    BY <1>1, <2>2
  <2>4. Extent(a[1])' = Extent(a[1])
    BY <2>1, <2>3 DEF Extent
  <2> QED
    BY <2>3, <2>4, Lasts
<1>3. CASE (\E n \in ibm : StartFree(n))
           \/ (\E n \in ibm, to \in Size : StartGrow(n, to) \/ StartShrink(n, to))
  <2>1. PICK i \in ibm : /\ run.op = "idle" /\ UNCHANGED <<ibm, node>>
                         /\ run'.node = i /\ run'.at = node[i].size
    BY <1>3 DEF StartFree, StartGrow, StartShrink, Idle
  <2>2. a[1] \in ibm' /\ Extent(a[1])' = Extent(a[1])
    BY <1>1, <2>1 DEF Extent
  <2> QED
    BY <2>2, Lasts
<1>4. CASE Writes
  <2>1. UNCHANGED <<ibm, node, run>>
    BY <1>4 DEF Writes, Write
  <2>2. a[1] \in ibm' /\ Extent(a[1])' = Extent(a[1])
    BY <1>1, <2>1 DEF Extent
  <2> QED
    BY <2>2, Lasts
<1>5. CASE GrowEnd \/ ShrinkEnd
  <2>1. /\ run.op # "idle" /\ run.at = run.to /\ run' = Idle
        /\ node' = [node EXCEPT ![run.node].size = run.to]
        /\ ibm' = IF run.op = "free" THEN ibm \ {run.node} ELSE ibm
    BY <1>5 DEF GrowEnd, ShrinkEnd
  <2>2. /\ node'[run.node].size = run.to
        /\ \A m \in Inum : m # run.node => node'[m] = node[m]
    BY <2>1, EndEffect
  <2>3. Extent(a[1])' = Extent(a[1])
    <3>1. Extent(a[1])' = node'[a[1]].size
      BY <2>1, IdleType DEF Extent
    <3>2. \A n : n = run.node => Extent(n) = run.to
      BY <2>1 DEF Extent
    <3>3. a[1] # run.node => Extent(a[1]) = node[a[1]].size
      BY DEF Extent
    <3> QED
      BY <1>1, <2>2, <3>1, <3>2, <3>3
  <2>4. a[1] \in ibm'
    <3> SUFFICES ASSUME a[1] \notin ibm' PROVE FALSE
      OBVIOUS
    <3>1. run.op = "free" /\ a[1] = run.node
      BY <1>1, <2>1
    <3>2. Extent(a[1]) = 0
      BY <2>1, <3>1 DEF Extent, FreesAll
    <3> QED
      BY <1>1, <3>2
  <2> QED
    BY <2>3, <2>4, Lasts
<1>6. CASE OutOfPages \/ Kill
  BY <1>6, InodesAssumption DEF OutOfPages, Kill, Growing, Died
<1>7. CASE DirectBlock
  <2>1. /\ run.op # "idle" /\ ibm' = ibm /\ run'.op = run.op
        /\ run'.node = run.node /\ run'.at = run.at + 1
    BY <1>7, DirectEffect DEF Growing
  <2>2. \A m \in Inum : m # run.node => node'[m] = node[m]
    BY <1>7, DirectEffect
  <2>3. Extent(a[1])' = Extent(a[1]) \/ Extent(a[1])' = Extent(a[1]) + 1
    BY <1>1, <2>1, <2>2 DEF Extent
  <2> QED
    BY <1>1, <2>1, <2>3, Lasts
<1>8. CASE TableBlock
  <2>1. /\ run.op # "idle" /\ ibm' = ibm /\ run'.op = run.op
        /\ run'.node = run.node /\ run'.at = run.at
    BY <1>8, TableEffect DEF Growing
  <2>2. \A m \in Inum : m # run.node => node'[m] = node[m]
    BY <1>8, TableEffect
  <2>3. Extent(a[1])' = Extent(a[1])
    BY <1>1, <2>1, <2>2 DEF Extent
  <2> QED
    BY <1>1, <2>1, <2>3, Lasts
<1>9. CASE IndirectBlock
  <2>1. /\ run.op # "idle" /\ ibm' = ibm /\ node' = node /\ run'.op = run.op
        /\ run'.node = run.node /\ run'.at = run.at + 1
    BY <1>9, IndirectEffect DEF Growing
  <2>2. Extent(a[1])' = Extent(a[1]) \/ Extent(a[1])' = Extent(a[1]) + 1
    BY <2>1 DEF Extent
  <2> QED
    BY <1>1, <2>1, <2>2, Lasts
<1> QED
  BY <1>2, <1>3, <1>4, <1>5, <1>6, <1>7, <1>8, <1>9 DEF Next, Start, Step

(* In every behaviour of every instance a block that an inode lets go is   *)
(* free again at once, page 2 + NUM_DIRECT_PAGES excepted: shrink_inode    *)
(* looks up the page of the block it is about to cut off, and no other     *)
(* step shortens an inode, unless the process dies before the size is      *)
(* stored.                                                                 *)
THEOREM InodesReturn == Spec => PagesReturned
<1>1. Init => Inv /\ FreesAll
  BY TypeInit, PrivateInit, IdleType DEF Inv, Init, FreesAll
<1>2. Inv /\ FreesAll /\ [Next]_vars => (Inv /\ FreesAll)'
  BY InvNext, FreesAllNext DEF Inv
<1> DEFINE Returns ==
      \A pl \in Place \ Place' :
          \/ Held(pl) \notin pbm'
          \/ pl[2] = -1
          \/ Held(pl) = 2 + NUM_DIRECT_PAGES
          \/ Died
<1>3. Inv /\ Inv' /\ FreesAll /\ [Next]_vars => [Returns]_vars
  <2> SUFFICES ASSUME TypeOK, TypeOK', Private, FreesAll, Next,
                      NEW a \in Place, a \notin Place', a[2] # -1, ~Died
               PROVE  Held(a) \notin pbm' \/ Held(a) = 2 + NUM_DIRECT_PAGES
    BY DEF Inv
  <2>1. CASE GiveBlock
    BY <2>1, GiveReturns
  <2>2. CASE ~GiveBlock
    BY <2>2, NothingLetGo
  <2> QED
    BY <2>1, <2>2
<1> QED
  BY <1>1, <1>2, <1>3, PTL DEF Spec, PagesReturned

-----------------------------------------------------------------------------
(* The refinement: the page-by-page operations of inode.c implement Files, *)
(* the operations on whole files.                                          *)

(* The content of block k of inode n.                                      *)
Block(n, k) == mem[inode_get_pnum(n, k)]

(* The blocks that a copy has taken are equal to those it was made from.   *)
CopySame ==
    run.op = "copy" =>
        \A k \in Size : k < run.at => Block(run.node, k) = Block(run.from, k)

(* shrink_inode shrinks, and inode 0 is never freed.                       *)
Shortens ==
    /\ run.op = "shrink" => run.to <= node[run.node].size
    /\ run.op = "free" => run.node # 0

FilesInv == Inv /\ CopySame /\ Shortens

-----------------------------------------------------------------------------
(* Blocks that stay.                                                       *)

(* An operation has not passed below the size that a kill falls back on.   *)
LEMMA SizeExtent ==
  ASSUME Inv, run.op \in {"idle", "copy", "grow"}, NEW n \in ibm
  PROVE  node[n].size \in Size /\ Extent(n) \in Size /\ node[n].size <= Extent(n)
<1>1. n \in Inum
  BY DEF Inv, TypeOK
<1>2. node[n].size \in Size /\ Extent(n) \in Size /\ run.at \in Size
  BY <1>1, ExtentType DEF Inv, TypeOK, inode, Op
<1>3. node[n].size \in Nat /\ run.at \in Nat
  BY <1>2, SizeNat
<1>4. CASE run.op # "idle" /\ run.node = n
  <2>1. Extent(n) = run.at
    BY <1>4 DEF Extent
  <2>2. node[n].size <= run.at
    BY <1>3, <1>4 DEF Inv, SizeLast
  <2> QED
    BY <1>2, <2>1, <2>2
<1>5. CASE ~(run.op # "idle" /\ run.node = n)
  <2>1. Extent(n) = node[n].size
    BY <1>5 DEF Extent
  <2> QED
    BY <1>2, <1>3, <2>1
<1> QED
  BY <1>4, <1>5

(* A block below the extent is held: its page is taken.                    *)
LEMMA BlockHeld ==
  ASSUME Inv, NEW n \in ibm, NEW k \in Size, k < Extent(n)
  PROVE  /\ <<n, k>> \in Place
         /\ Held(<<n, k>>) = inode_get_pnum(n, k)
         /\ inode_get_pnum(n, k) \in pbm
         /\ inode_get_pnum(n, k) \in Page
<1>1. k \in -1 .. MaxBlocks /\ k # -1
  BY InodesAssumption DEF Size
<1>2. <<n, k>> \in Place
  BY <1>1, PlaceIntro DEF Inv
<1>3. Held(<<n, k>>) = inode_get_pnum(n, k)
  BY <1>1 DEF Held
<1>4. Held(<<n, k>>) \in pbm
  BY <1>2 DEF Inv, Private
<1> QED
  BY <1>2, <1>3, <1>4 DEF Inv, TypeOK

(* Growing an inode leaves every block that any inode has where it is.     *)
LEMMA PnumKept ==
  ASSUME Inv, DirectBlock \/ TableBlock \/ IndirectBlock,
         NEW n \in ibm, NEW k \in Size, k < Extent(n)
  PROVE  inode_get_pnum(n, k)' = inode_get_pnum(n, k)
<1> DEFINE a == <<n, k>>
<1>1. TypeOK /\ Private
  BY DEF Inv
<1>2. run.op # "idle" /\ run.at \in Nat /\ ibm' = ibm /\ n \in Inum
  BY <1>1, DirectEffect, TableEffect, IndirectEffect, GrowingFacts DEF Growing, TypeOK
<1>3. k \in -1 .. MaxBlocks /\ k # -1 /\ k \in Nat
  BY InodesAssumption DEF Size
<1>4. n = run.node => k < run.at /\ k < run.at + 1 /\ k # run.at
  <2>1. n = run.node => Extent(n) = run.at
    BY <1>2 DEF Extent
  <2> QED
    BY <1>2, <1>3, <2>1
<1>5. k < Extent(n)'
  <2>1. CASE n = run.node
    <3>1. Extent(n)' = run.at \/ Extent(n)' = run.at + 1
      BY <1>1, <1>2, <2>1, DirectEffect, TableEffect, IndirectEffect DEF Extent
    <3> QED
      BY <1>4, <2>1, <3>1
  <2>2. CASE n # run.node
    <3>1. Extent(n)' = Extent(n)
      BY <1>1, <1>2, <2>2, DirectEffect, TableEffect, IndirectEffect DEF Extent
    <3> QED
      BY <3>1
  <2> QED
    BY <2>1, <2>2
<1>6. a \in Place'
  BY <1>2, <1>3, <1>5 DEF Place
<1>7. a # <<run.node, run.at>> /\ a # <<run.node, -1>>
  BY <1>3, <1>4
<1> HIDE DEF a
<1>8. Held(a)' = Held(a)
  BY <1>1, <1>6, <1>7, DirectPlaces, TablePlaces, IndirectPlaces
<1> QED
  BY <1>3, <1>8 DEF a, Held

(* ... and its content as it is.                                           *)
LEMMA BlockKept ==
  ASSUME Inv, DirectBlock \/ TableBlock \/ IndirectBlock,
         NEW n \in ibm, NEW k \in Size, k < Extent(n)
  PROVE  Block(n, k)' = Block(n, k)
<1>1. inode_get_pnum(n, k)' = inode_get_pnum(n, k)
  BY PnumKept
<1>2. inode_get_pnum(n, k) \in pbm /\ inode_get_pnum(n, k) \in Page
  BY BlockHeld
<1>3. ~NoPage /\ (mem' = mem \/ CopyBlock)
  BY DEF DirectBlock, TableBlock, IndirectBlock, TakePage
<1>4. NextPage \notin pbm
  BY <1>3, NextPageFree
<1>5. \A p \in Page : p # NextPage => mem'[p] = mem[p]
  BY <1>3 DEF CopyBlock, Inv, TypeOK
<1> QED
  BY <1>1, <1>2, <1>4, <1>5 DEF Block

(* The contents depend on the sizes and the blocks below them.             *)
LEMMA ContentKept ==
  ASSUME ibm' = ibm,
         \A n \in ibm : /\ node'[n].size = node[n].size
                        /\ \A k \in 0 .. node[n].size - 1 : Block(n, k)' = Block(n, k)
  PROVE  Content' = Content
BY DEF Content, Block

-----------------------------------------------------------------------------
(* The invariant of the copies.                                            *)

(* A growing step of a copy copies the block it takes.                     *)
LEMMA CopyTakes ==
  ASSUME Inv, DirectBlock \/ IndirectBlock, run.op = "copy",
         NEW i, NEW j, NEW k, i = run.node, j = run.from, k = run.at
  PROVE  Block(i, k)' = Block(j, k)
<1>1. TypeOK /\ Private
  BY DEF Inv
<1>2. ~NoPage /\ CopyBlock /\ k \in Size /\ k \in Nat /\ i \in Inum
  BY <1>1, DirectEffect, IndirectEffect, GrowingFacts
  DEF DirectBlock, IndirectBlock, TakePage
<1>3. NextPage \in Page
  BY <1>2, NextPageFree
<1>4. mem' = [mem EXCEPT ![NextPage] = Block(j, k)]
  BY <1>2 DEF CopyBlock, Block
<1>5. mem'[NextPage] = Block(j, k)
  BY <1>1, <1>3, <1>4 DEF TypeOK
<1>6. inode_get_pnum(i, k)' = NextPage
  <2>1. CASE DirectBlock
    <3>1. node'[i].ptrs[k] = NextPage /\ k < NUM_PTRS
      BY <1>1, <2>1, DirectEffect
    <3> QED
      BY <3>1 DEF inode_get_pnum
  <2>2. CASE IndirectBlock
    <3>1. node' = node /\ tab'[node[i].iptr][k - NUM_PTRS] = NextPage /\ k >= NUM_PTRS
      BY <1>1, <2>2, IndirectEffect
    <3>2. ~(k < NUM_PTRS)
      BY <1>2, <3>1, InodesAssumption
    <3> QED
      BY <3>1, <3>2 DEF inode_get_pnum
  <2> QED
    BY <2>1, <2>2
<1> QED
  BY <1>5, <1>6 DEF Block

(* A growing step keeps the blocks copied so far equal to their originals. *)
LEMMA CopySameGrow ==
  ASSUME Inv, CopySame, DirectBlock \/ TableBlock \/ IndirectBlock
  PROVE  CopySame'
<1> SUFFICES ASSUME NEW i, NEW j, NEW k \in Size, run'.op = "copy",
                    i = run'.node, j = run'.from, k < run'.at
             PROVE  Block(i, k)' = Block(j, k)'
  BY DEF CopySame
<1>1. TypeOK
  BY DEF Inv
<1>2. /\ Growing
      /\ run'.op = run.op /\ run'.node = run.node /\ run'.from = run.from
      /\ run'.at = run.at \/ (~TableBlock /\ run'.at = run.at + 1)
  BY <1>1, DirectEffect, TableEffect, IndirectEffect
  DEF TableBlock, DirectBlock, IndirectBlock, NeedsTable
<1>3. run.op = "copy" /\ i = run.node /\ j = run.from
  BY <1>2
<1>4. i \in ibm /\ j \in ibm /\ i # j /\ run.to = node[j].size
  BY <1>1, <1>3 DEF TypeOK
<1>5. run.at \in Nat /\ run.at + 1 <= run.to /\ k \in Nat /\ run.to \in Size
  BY <1>1, <1>2, GrowingFacts, SizeNat DEF TypeOK, Op
<1>6. Extent(i) = run.at /\ Extent(j) = run.to
  BY <1>3, <1>4 DEF Extent
<1>7. run.to \in Nat
  BY <1>5, SizeNat
<1>8. k < run.to
  BY <1>2, <1>5, <1>7
<1>9. Block(j, k)' = Block(j, k)
  BY <1>4, <1>6, <1>8, BlockKept
<1>10. CASE k < run.at
  <2>1. Block(i, k)' = Block(i, k)
    BY <1>4, <1>6, <1>10, BlockKept
  <2>2. Block(i, k) = Block(j, k)
    BY <1>3, <1>10 DEF CopySame
  <2> QED
    BY <1>9, <2>1, <2>2
<1>11. CASE ~(k < run.at)
  <2>1. k = run.at /\ ~TableBlock
    BY <1>2, <1>5, <1>11
  <2>2. Block(i, k)' = Block(j, k)
    BY <1>3, <2>1, CopyTakes
  <2> QED
    BY <1>9, <2>2
<1> QED
  BY <1>10, <1>11

(* Every step keeps the extra conjuncts.                                   *)
LEMMA FilesInvNext == FilesInv /\ [Next]_vars => FilesInv'
<1> SUFFICES ASSUME FilesInv, [Next]_vars PROVE FilesInv'
  OBVIOUS
<1>1. Inv /\ CopySame /\ Shortens /\ TypeOK /\ Inv' /\ TypeOK'
  BY InvNext DEF FilesInv, Inv
<1>2. CASE AllocInode \/ Writes
  BY <1>1, <1>2 DEF AllocInode, alloc_inode, Writes, Write, CopySame, Shortens, FilesInv
<1>3. ASSUME NEW n \in ibm, StartCopy(n)
      PROVE  FilesInv'
  <2>1. run'.at = 0 /\ run'.op = "copy"
    BY <1>3 DEF StartCopy, Idle
  <2>2. \A k \in Size : ~(k < run'.at)
    BY <2>1, SizeNat
  <2>3. CopySame'
    BY <2>2 DEF CopySame
  <2> QED
    BY <1>1, <2>1, <2>3 DEF FilesInv, Shortens
<1>4. ASSUME NEW n \in ibm, StartFree(n)
      PROVE  FilesInv'
  BY <1>1, <1>4 DEF StartFree, Idle, CopySame, Shortens, FilesInv
<1>5. ASSUME NEW n \in ibm, NEW to \in Size, StartGrow(n, to) \/ StartShrink(n, to)
      PROVE  FilesInv'
  BY <1>1, <1>5 DEF StartGrow, StartShrink, Idle, CopySame, Shortens, FilesInv
<1>6. CASE DirectBlock \/ TableBlock \/ IndirectBlock
  <2>1. CopySame'
    BY <1>1, <1>6, CopySameGrow
  <2>2. run'.op = run.op /\ run.op \in {"copy", "grow"}
    BY <1>1, <1>6, DirectEffect, TableEffect, IndirectEffect DEF Growing
  <2> QED
    BY <1>1, <2>1, <2>2 DEF FilesInv, Shortens
<1>7. CASE GiveBlock
  <2>1. /\ run'.op = run.op /\ run'.node = run.node /\ run'.to = run.to /\ node' = node
        /\ run.op \in {"shrink", "free"}
    BY <1>1, <1>7 DEF GiveBlock, TypeOK, Op
  <2> QED
    BY <1>1, <2>1 DEF FilesInv, Shortens, CopySame
<1>8. CASE GrowEnd \/ OutOfPages \/ ShrinkEnd \/ Kill
  <2>1. run'.op = "idle"
    BY <1>8, IdleType DEF GrowEnd, OutOfPages, ShrinkEnd, Kill
  <2> QED
    BY <1>1, <2>1 DEF FilesInv, Shortens, CopySame
<1>9. CASE UNCHANGED vars
  <2>1. UNCHANGED <<node, tab, mem, run>>
    BY <1>9 DEF vars
  <2>2. CopySame' /\ Shortens'
    BY <1>1, <2>1 DEF CopySame, Shortens, Block, inode_get_pnum
  <2> QED
    BY <1>1, <2>2 DEF FilesInv
<1> QED
  BY <1>2, <1>3, <1>4, <1>5, <1>6, <1>7, <1>8, <1>9 DEF Next, Start, Step

-----------------------------------------------------------------------------
(* Every step is a step of Files or none.                                  *)

(* A new image holds inode 0, empty.                                       *)
LEMMA FilesInit == Init => FilesInv /\ Abstract!Init
<1> SUFFICES ASSUME Init PROVE FilesInv /\ Abstract!Init
  OBVIOUS
<1>1. Inv
  BY TypeInit, PrivateInit DEF Inv
<1>2. run.op = "idle"
  BY DEF Init, Idle
<1>3. 0 \in Inum /\ ibm = {0} /\ node[0].size = 0
  BY Zeroes DEF Init
<1>4. 0 .. 0 - 1 = {}
  OBVIOUS
<1>5. Content = [n \in {0} |-> [k \in {} |-> 0]]
  BY <1>3, <1>4 DEF Content
<1> QED
  BY <1>1, <1>2, <1>5 DEF FilesInv, CopySame, Shortens, Copying, Abstract!Init, Abstract!Empty

(* alloc_inode adds an empty inode.                                        *)
LEMMA AllocMaps ==
  ASSUME FilesInv, alloc_inode, tab' = tab, mem' = mem
  PROVE  Abstract!New(Least(Free))
<1> DEFINE f == Least(Free)
<1>1. TypeOK
  BY DEF FilesInv, Inv
<1>2. /\ f \in Inum \ ibm /\ ibm' = ibm \cup {f} /\ node'[f].size = 0
      /\ \A m \in Inum \ {f} : node'[m] = node[m]
  BY <1>1, AllocType
<1> HIDE DEF f
<1>3. \A n \in ibm : n \in Inum /\ n # f /\ node'[n] = node[n]
  BY <1>1, <1>2 DEF TypeOK
<1>4. 0 .. node'[f].size - 1 = {}
  BY <1>2
<1>5. DOMAIN Content = ibm
  BY DEF Content
<1>6. \A n \in ibm : Content'[n] = Content[n]
  BY <1>2, <1>3 DEF Content, inode_get_pnum
<1>7. Content'[f] = Abstract!Empty
  BY <1>2, <1>4 DEF Content, Abstract!Empty
<1>8. Content' = [n \in ibm \cup {f} |-> IF n = f THEN Abstract!Empty ELSE Content[n]]
  <2>1. Content' = [n \in ibm' |-> Content'[n]]
    BY DEF Content
  <2> QED
    BY <1>2, <1>6, <1>7, <2>1
<1> QED
  BY <1>2, <1>5, <1>8 DEF Abstract!New, f

(* The loops change no content: the size is stored last.                   *)
LEMMA GrowMaps ==
  ASSUME FilesInv, DirectBlock \/ TableBlock \/ IndirectBlock
  PROVE  Content' = Content /\ Copying' = Copying
<1>1. Inv /\ TypeOK
  BY DEF FilesInv, Inv
<1>2. /\ ibm' = ibm /\ run'.op = run.op /\ run'.node = run.node /\ run'.from = run.from
      /\ run.op \in {"copy", "grow"}
      /\ \A n \in Inum : node'[n].size = node[n].size
  BY <1>1, DirectEffect, TableEffect, IndirectEffect DEF Growing
<1>3. ASSUME NEW n \in ibm
      PROVE  /\ node'[n].size = node[n].size
             /\ \A k \in 0 .. node[n].size - 1 : Block(n, k)' = Block(n, k)
  <2>1. node'[n].size = node[n].size
    BY <1>1, <1>2 DEF TypeOK
  <2>2. node[n].size \in Size /\ Extent(n) \in Size /\ node[n].size <= Extent(n)
    BY <1>1, <1>2, SizeExtent
  <2>3. \A k \in 0 .. node[n].size - 1 : k \in Size /\ k < Extent(n)
    BY <2>2, InodesAssumption DEF Size
  <2> QED
    BY <1>1, <2>1, <2>3, BlockKept
<1> QED
  BY <1>2, <1>3, ContentKept DEF Copying

(* The end of copy_inode makes the copy; the end of grow_inode grows.      *)
LEMMA GrowEndMaps ==
  ASSUME FilesInv, GrowEnd
  PROVE  Abstract!Next
<1>1. Inv /\ TypeOK /\ SizeLast /\ CopySame
  BY DEF FilesInv, Inv
<1>2. /\ run.op \in {"copy", "grow"} /\ run.at = run.to
      /\ node' = [node EXCEPT ![run.node].size = run.to]
      /\ run'.op = "idle"
      /\ UNCHANGED <<pbm, ibm, tab, mem>>
  BY IdleType DEF GrowEnd
<1> DEFINE i == run.node
           j == run.from
<1>3. /\ i \in ibm /\ run.to \in Size
      /\ node'[i].size = run.to
      /\ \A n \in ibm : n # i => node'[n] = node[n]
      /\ \A n \in ibm : node'[n].ptrs = node[n].ptrs /\ node'[n].iptr = node[n].iptr
  BY <1>1, <1>2, EndEffect DEF TypeOK, Op
<1>4. Copying' = {} /\ DOMAIN Content = ibm /\ DOMAIN Content' = ibm
  BY <1>2 DEF Copying, Content
<1> HIDE DEF i, j
<1>5. \A n, k : n \in ibm => Block(n, k)' = Block(n, k)
  BY <1>2, <1>3 DEF Block, inode_get_pnum
<1>6. \A n \in ibm : n # i => Content'[n] = Content[n]
  <2> TAKE n \in ibm
  <2> HAVE n # i
  <2>1. Content[n] = [k \in 0 .. node[n].size - 1 |-> Block(n, k)]
    BY DEF Content, Block
  <2>2. Content'[n] = [k \in 0 .. node'[n].size - 1 |-> Block(n, k)']
    BY <1>2 DEF Content, Block
  <2>3. node'[n] = node[n]
    BY <1>3
  <2> QED
    BY <1>5, <2>1, <2>2, <2>3
<1>7. Content'[i] = [k \in 0 .. run.to - 1 |-> Block(i, k)]
  BY <1>2, <1>3, <1>5 DEF Content, Block
<1>8. CASE run.op = "copy"
  <2>1. j \in ibm /\ j \in Inum /\ run.to = node[j].size /\ Copying = {<<j, i>>} /\ i \in Inum
    BY <1>1, <1>3, <1>8 DEF TypeOK, Copying, i, j
  <2>2. \A k \in 0 .. run.to - 1 : k \in Size /\ k < run.at
    BY <1>2, <1>3, InodesAssumption DEF Size
  <2>3. \A k \in 0 .. run.to - 1 : Block(i, k) = Block(j, k)
    BY <1>1, <1>8, <2>2 DEF CopySame, i, j
  <2>4. Content'[i] = Content[j]
    <3>1. Content[j] = [k \in 0 .. run.to - 1 |-> Block(j, k)]
      BY <2>1 DEF Content, Block
    <3> QED
      BY <1>7, <2>3, <3>1
  <2>5. Content' = [Content EXCEPT ![i] = Content[j]]
    <3>1. Content' = [n \in ibm |-> Content'[n]]
      BY <1>2 DEF Content
    <3>2. Content = [n \in ibm |-> Content[n]]
      BY DEF Content
    <3> QED
      BY <1>3, <1>6, <2>4, <3>1, <3>2
  <2>6. Abstract!EndCopy(j, i)
    BY <1>4, <2>1, <2>5 DEF Abstract!EndCopy
  <2> QED
    BY <1>4, <2>1, <2>6 DEF Abstract!Next
<1>9. CASE run.op = "grow"
  <2>1. Copying = {}
    BY <1>9 DEF Copying
  <2>2. node[i].size <= run.to /\ node[i].size \in Size
    <3>1. node[i].size \in Size
      BY <1>1, <1>3 DEF TypeOK, inode
    <3>2. node[i].size <= run.at
      BY <1>1, <1>9 DEF SizeLast, i
    <3> QED
      BY <1>2, <3>1, <3>2
  <2>3. Content[i] = [k \in 0 .. node[i].size - 1 |-> Block(i, k)]
    BY <1>3 DEF Content, Block
  <2>4. 0 .. node[i].size - 1 \subseteq 0 .. run.to - 1
    BY <1>3, <2>2, InodesAssumption DEF Size
  <2>5. \A k \in 0 .. run.to - 1 : Block(i, k) \in Data
    <3> TAKE k \in 0 .. run.to - 1
    <3>1. k \in Size
      BY <1>3, InodesAssumption DEF Size
    <3>2. inode_get_pnum(i, k) \in Page
      BY <1>1, <1>3, <3>1, PnumType DEF TypeOK
    <3> QED
      BY <1>1, <3>2 DEF Block, TypeOK
  <2>6. Abstract!Only(i)
    BY <1>4, <1>6, <2>1 DEF Abstract!Only
  <2>7. DOMAIN Content[i] = 0 .. node[i].size - 1 /\ DOMAIN Content'[i] = 0 .. run.to - 1
    BY <1>7, <2>3
  <2>8. \A k \in DOMAIN Content'[i] :
          IF k \in DOMAIN Content[i] THEN Content'[i][k] = Content[i][k]
          ELSE Content'[i][k] \in Data
    BY <1>7, <2>3, <2>4, <2>5, <2>7
  <2>9. Abstract!Grow(i)
    BY <2>4, <2>6, <2>7, <2>8 DEF Abstract!Grow
  <2> QED
    BY <1>3, <1>4, <2>9 DEF Abstract!Next
<1> QED
  BY <1>2, <1>8, <1>9

(* The end of shrink_inode cuts an inode, that of free_inode removes it.   *)
LEMMA ShrinkEndMaps ==
  ASSUME FilesInv, ShrinkEnd
  PROVE  Abstract!Next
<1>1. Inv /\ TypeOK /\ Shortens
  BY DEF FilesInv, Inv
<1>2. /\ run.op \in {"shrink", "free"} /\ run.at = run.to
      /\ node' = [node EXCEPT ![run.node].size = run.to]
      /\ ibm' = (IF run.op = "free" THEN ibm \ {run.node} ELSE ibm)
      /\ run'.op = "idle"
      /\ UNCHANGED <<pbm, tab, mem>>
  BY IdleType DEF ShrinkEnd
<1> DEFINE i == run.node
<1>3. /\ i \in ibm /\ run.to \in Size
      /\ node'[i].size = run.to
      /\ \A n \in ibm : n # i => node'[n] = node[n]
      /\ \A n \in ibm : node'[n].ptrs = node[n].ptrs /\ node'[n].iptr = node[n].iptr
  BY <1>1, <1>2, EndEffect DEF TypeOK, Op
<1>4. /\ Copying = {} /\ Copying' = {} /\ DOMAIN Content = ibm /\ DOMAIN Content' = ibm'
      /\ Content' = [n \in ibm' |-> Content'[n]] /\ ibm' \subseteq ibm
  BY <1>2 DEF Copying, Content
<1> HIDE DEF i
<1>5. \A n, k : n \in ibm => Block(n, k)' = Block(n, k)
  BY <1>2, <1>3 DEF Block, inode_get_pnum
<1>6. \A n \in ibm' : n # i => Content'[n] = Content[n]
  <2> TAKE n \in ibm'
  <2> HAVE n # i
  <2>1. Content[n] = [k \in 0 .. node[n].size - 1 |-> Block(n, k)]
    BY <1>4 DEF Content, Block
  <2>2. Content'[n] = [k \in 0 .. node'[n].size - 1 |-> Block(n, k)']
    BY DEF Content, Block
  <2>3. n \in ibm /\ node'[n] = node[n]
    BY <1>3, <1>4
  <2> QED
    BY <1>5, <2>1, <2>2, <2>3
<1>7. CASE run.op = "free"
  <2>1. ibm' = ibm \ {i} /\ i # 0
    BY <1>1, <1>2, <1>7 DEF Shortens, i
  <2>2. Content' = [n \in ibm \ {i} |-> Content[n]]
    BY <1>4, <1>6, <2>1
  <2>3. Abstract!Free(i)
    BY <1>4, <2>1, <2>2 DEF Abstract!Free
  <2> QED
    BY <1>3, <1>4, <2>3 DEF Abstract!Next
<1>8. CASE run.op = "shrink"
  <2>1. ibm' = ibm /\ run.to <= node[i].size
    BY <1>1, <1>2, <1>8 DEF Shortens, i
  <2>2. node[i].size \in Size
    BY <1>1, <1>3 DEF TypeOK, inode
  <2>3. Content[i] = [k \in 0 .. node[i].size - 1 |-> Block(i, k)]
    BY <1>3 DEF Content, Block
  <2>4. Content'[i] = [k \in 0 .. run.to - 1 |-> Block(i, k)]
    BY <1>3, <1>5, <2>1 DEF Content, Block
  <2>5. 0 .. run.to - 1 \subseteq 0 .. node[i].size - 1
    BY <1>3, <2>1, <2>2, InodesAssumption DEF Size
  <2>6. Abstract!Only(i)
    BY <1>4, <1>6, <2>1 DEF Abstract!Only
  <2>7. DOMAIN Content[i] = 0 .. node[i].size - 1 /\ DOMAIN Content'[i] = 0 .. run.to - 1
    BY <2>3, <2>4
  <2>8. \A k \in DOMAIN Content'[i] : Content'[i][k] = Content[i][k]
    BY <2>3, <2>4, <2>5, <2>7
  <2>9. Abstract!Shrink(i)
    BY <2>5, <2>6, <2>7, <2>8 DEF Abstract!Shrink
  <2> QED
    BY <1>3, <1>4, <2>9 DEF Abstract!Next
<1> QED
  BY <1>2, <1>7, <1>8

(* A write lands in one block of one inode.                                *)
LEMMA WriteMaps ==
  ASSUME FilesInv, NEW i \in ibm, NEW v \in Data, NEW l \in 0 .. node[i].size - 1,
         Write(i, l, v)
  PROVE  Abstract!Next
<1>1. Inv /\ TypeOK /\ Private
  BY DEF FilesInv, Inv
<1>2. run.op = "idle" /\ UNCHANGED <<pbm, ibm, node, tab, run>>
      /\ mem' = [mem EXCEPT ![inode_get_pnum(i, l)] = v]
  BY DEF Write
<1>3. \A n \in ibm : /\ node[n].size \in Size /\ Extent(n) = node[n].size
                     /\ \A k \in 0 .. node[n].size - 1 : k \in Size /\ k < Extent(n)
  <2> TAKE n \in ibm
  <2>1. node[n].size \in Size
    BY <1>1 DEF TypeOK, inode
  <2>2. Extent(n) = node[n].size
    BY <1>2 DEF Extent
  <2> QED
    BY <2>1, <2>2, InodesAssumption DEF Size
<1>4. l \in Size /\ l < Extent(i)
  BY <1>3
<1>5. inode_get_pnum(i, l) \in Page
  BY <1>1, <1>4, BlockHeld
<1>6. ASSUME NEW n \in ibm, NEW k \in 0 .. node[n].size - 1
      PROVE  Block(n, k)' = IF n = i /\ k = l THEN v ELSE Block(n, k)
  <2>1. k \in Size /\ k < Extent(n)
    BY <1>3
  <2>2. inode_get_pnum(n, k) \in Page /\ inode_get_pnum(n, k)' = inode_get_pnum(n, k)
    BY <1>1, <1>2, <2>1, BlockHeld DEF inode_get_pnum
  <2>3. CASE n = i /\ k = l
    <3>1. mem'[inode_get_pnum(n, k)] = v
      BY <1>1, <1>2, <1>5, <2>3 DEF TypeOK
    <3> QED
      BY <2>2, <2>3, <3>1 DEF Block
  <2>4. CASE ~(n = i /\ k = l)
    <3>1. <<n, k>> # <<i, l>>
      BY <2>4
    <3>2. inode_get_pnum(n, k) # inode_get_pnum(i, l)
      BY <1>1, <1>4, <2>1, <3>1, BlockHeld DEF Private
    <3>3. mem'[inode_get_pnum(n, k)] = mem[inode_get_pnum(n, k)]
      BY <1>1, <1>2, <1>5, <2>2, <3>2 DEF TypeOK
    <3> QED
      BY <2>2, <2>4, <3>3 DEF Block
  <2> QED
    BY <2>3, <2>4
<1>7. \A n \in ibm : /\ Content[n] = [k \in 0 .. node[n].size - 1 |-> Block(n, k)]
                     /\ Content'[n] = [k \in 0 .. node[n].size - 1 |-> Block(n, k)']
  BY <1>2 DEF Content, Block
<1>8. Copying = {} /\ Copying' = {} /\ DOMAIN Content = ibm /\ DOMAIN Content' = ibm
  BY <1>2 DEF Copying, Content
<1>9. \A n \in ibm : n # i => Content'[n] = Content[n]
  BY <1>6, <1>7
<1>10. Content'[i] = [Content[i] EXCEPT ![l] = v]
  <2> DEFINE D == 0 .. node[i].size - 1
  <2>1. l \in D /\ Content[i] = [k \in D |-> Block(i, k)]
    BY <1>7
  <2>2. Content'[i] = [k \in D |-> Block(i, k)']
    BY <1>7
  <2>3. \A k \in D : Block(i, k)' = IF k = l THEN v ELSE Block(i, k)
    BY <1>6
  <2> HIDE DEF D
  <2>4. Content'[i] = [k \in D |-> IF k = l THEN v ELSE Block(i, k)]
    BY <2>2, <2>3
  <2> QED
    BY <2>1, <2>4
<1>11. Abstract!Only(i)
  BY <1>8, <1>9 DEF Abstract!Only
<1>12. l \in DOMAIN Content[i]
  BY <1>7
<1>13. Abstract!Write(i)
  BY <1>10, <1>11, <1>12 DEF Abstract!Write
<1> QED
  BY <1>8, <1>13 DEF Abstract!Next

(* Starting grow_inode, shrink_inode or free_inode changes no content.     *)
LEMMA StartMaps ==
  ASSUME FilesInv, Start
  PROVE  Abstract!Next \/ (Content' = Content /\ Copying' = Copying)
<1>1. Inv /\ TypeOK
  BY DEF FilesInv, Inv
<1>2. CASE AllocInode
  <2>1. /\ alloc_inode /\ tab' = tab /\ mem' = mem /\ run' = run /\ run.op = "idle"
    BY <1>2 DEF AllocInode, alloc_inode
  <2>2. Abstract!New(Least(Free)) /\ Least(Free) \in Inum
    BY <1>1, <2>1, AllocMaps, AllocType
  <2>3. Copying = {} /\ Copying' = {}
    BY <2>1 DEF Copying
  <2>4. Abstract!Alloc(Least(Free))
    BY <2>2, <2>3 DEF Abstract!Alloc
  <2> QED
    BY <2>2, <2>4 DEF Abstract!Next
<1>3. ASSUME NEW n \in ibm, StartCopy(n)
      PROVE  Abstract!Next
  <2>1. /\ alloc_inode /\ tab' = tab /\ mem' = mem /\ run.op = "idle"
        /\ run'.op = "copy" /\ run'.from = n /\ run'.node = Least(Free)
    BY <1>3 DEF StartCopy, alloc_inode, Idle
  <2>2. Abstract!New(Least(Free)) /\ Least(Free) \in Inum
    BY <1>1, <2>1, AllocMaps, AllocType
  <2>3. Copying = {} /\ Copying' = {<<n, Least(Free)>>} /\ DOMAIN Content = ibm
    BY <2>1 DEF Copying, Content
  <2>4. Abstract!StartCopy(n, Least(Free))
    BY <2>2, <2>3 DEF Abstract!StartCopy
  <2> QED
    BY <2>2, <2>3, <2>4 DEF Abstract!Next
<1>4. ASSUME NEW n \in ibm, NEW to \in Size,
             StartFree(n) \/ StartGrow(n, to) \/ StartShrink(n, to)
      PROVE  Content' = Content /\ Copying' = Copying
  <2>1. /\ run.op = "idle" /\ run'.op # "copy" /\ UNCHANGED <<ibm, node, tab, mem>>
    BY <1>4 DEF StartFree, StartGrow, StartShrink, Idle
  <2>2. Content' = Content
    BY <2>1 DEF Content, inode_get_pnum
  <2> QED
    BY <2>1, <2>2 DEF Copying
<1> QED
  BY <1>2, <1>3, <1>4, Zeroes DEF Start

(* A kill gives a copy up and leaves an empty inode.                       *)
LEMMA KillMaps ==
  ASSUME FilesInv, Kill \/ OutOfPages
  PROVE  Abstract!Next \/ (Content' = Content /\ Copying' = Copying)
<1>1. TypeOK
  BY DEF FilesInv, Inv
<1>2. run'.op = "idle" /\ UNCHANGED <<ibm, node, tab, mem>>
  BY IdleType DEF Kill, OutOfPages
<1>3. Content' = Content /\ Copying' = {}
  BY <1>2 DEF Content, Copying, inode_get_pnum
<1>4. CASE run.op = "copy"
  <2>1. Copying = {<<run.from, run.node>>}
    BY <1>4 DEF Copying
  <2>2. run.from \in DOMAIN Content /\ run.node \in Inum
    BY <1>1, <1>4 DEF TypeOK, Content
  <2>3. Abstract!EndCopy(run.from, run.node)
    BY <1>3, <2>1 DEF Abstract!EndCopy
  <2> QED
    BY <2>2, <2>3 DEF Abstract!Next
<1>5. CASE run.op # "copy"
  BY <1>3, <1>5 DEF Copying
<1> QED
  BY <1>4, <1>5

(* Every step of Inodes is one of Files or a stutter.                      *)
LEMMA NextMaps ==
  FilesInv /\ [Next]_vars => [Abstract!Next]_<<Content, Copying>>
<1> SUFFICES ASSUME FilesInv, [Next]_vars
             PROVE  Abstract!Next \/ (Content' = Content /\ Copying' = Copying)
  OBVIOUS
<1>1. CASE Start
  BY <1>1, StartMaps
<1>2. CASE Writes
  <2>1. PICK n \in ibm, v \in Data : \E k \in 0 .. node[n].size - 1 : Write(n, k, v)
    BY <1>2 DEF Writes
  <2>2. PICK k \in 0 .. node[n].size - 1 : Write(n, k, v)
    BY <2>1
  <2> QED
    BY <2>2, WriteMaps
<1>3. CASE Step
  <2>1. CASE DirectBlock \/ TableBlock \/ IndirectBlock
    BY <2>1, GrowMaps
  <2>2. CASE GrowEnd
    BY <2>2, GrowEndMaps
  <2>3. CASE OutOfPages
    BY <2>3, KillMaps
  <2>4. CASE GiveBlock
    <3>1. UNCHANGED <<ibm, node, tab, mem>> /\ run'.op = run.op /\ run.op # "copy"
      BY <2>4 DEF GiveBlock, FilesInv, Inv, TypeOK, Op
    <3>2. Content' = Content
      BY <3>1 DEF Content, inode_get_pnum
    <3> QED
      BY <3>1, <3>2 DEF Copying
  <2>5. CASE ShrinkEnd
    BY <2>5, ShrinkEndMaps
  <2> QED
    BY <1>3, <2>1, <2>2, <2>3, <2>4, <2>5 DEF Step
<1>4. CASE Kill
  BY <1>4, KillMaps
<1>5. CASE UNCHANGED vars
  BY <1>5 DEF vars, Content, Copying, inode_get_pnum
<1> QED
  BY <1>1, <1>2, <1>3, <1>4, <1>5 DEF Next

(* inode.c implements operations on whole files: the page-by-page loops    *)
(* change nothing a reader sees before they store the size, each operation *)
(* changes one inode, and a copy equals its original or, if the process    *)
(* ended on the way, is empty.                                             *)
THEOREM InodesImplementFiles == Spec => ImplementsFiles
<1>1. Init => FilesInv /\ Abstract!Init
  BY FilesInit
<1>2. FilesInv /\ [Next]_vars => FilesInv'
  BY FilesInvNext
<1>3. FilesInv /\ [Next]_vars => [Abstract!Next]_<<Content, Copying>>
  BY NextMaps
<1> QED
  BY <1>1, <1>2, <1>3, PTL DEF Spec, ImplementsFiles, Abstract!Spec, Abstract!vars

=============================================================================
