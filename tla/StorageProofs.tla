--------------------------- MODULE StorageProofs ---------------------------
(***************************************************************************)
(* Theorems about Storage, for every value of its constants: types, copy   *)
(* on write inode by inode, and what follows from it for whole versions as *)
(* long as no version reads an inode that is not allocated.                *)
(***************************************************************************)
EXTENDS Storage, NatFacts, TLAPS

-----------------------------------------------------------------------------
(* The operators of InodeTable, for every table: what they answer has the  *)
(* type of a table, and which allocated inodes they leave alone.           *)

Num == Inum \cup {NoInode}

(* What is allocated in d is so in e, with the same content (references    *)
(* are not part of it).                                                    *)
Untouched(d, e) ==
    /\ d.ibm \subseteq e.ibm
    /\ \A i \in d.ibm : /\ e.ino[i].mode = d.ino[i].mode
                        /\ e.ino[i].ts   = d.ino[i].ts
                        /\ e.ino[i].data = d.ino[i].data
                        /\ e.ino[i].ent  = d.ino[i].ent

(* The slots are those of the table and the phantom.                       *)
LEMMA NumFacts == NoInode \notin Inum /\ Inum \subseteq Nat /\ 0 \in Inum
  BY InodeTableAssumption DEF Inum, NoInode

(* The parts of a table.                                                   *)
LEMMA TableParts ==
  ASSUME NEW d \in Table
  PROVE  /\ d.ibm \in SUBSET Inum
         /\ d.ino \in [Num -> inode]
         /\ d = [ibm |-> d.ibm, ino |-> d.ino]
  BY DEF Table, Num

(* The fields of an inode in a table.                                      *)
LEMMA InodeParts ==
  ASSUME NEW d \in Table, NEW i \in Num
  PROVE  /\ d.ino[i] \in inode
         /\ d.ino[i].refs \in Int
         /\ d.ino[i].mode \in Mode
         /\ d.ino[i].ts \in Nat
         /\ d.ino[i].data \in Seq(Byte)
         /\ d.ino[i].ent \in Seq(ddirent)
<1>1. d.ino[i] \in inode
  BY TableParts
<1> QED
  BY <1>1 DEF inode

(* An inode emptied is an inode.                                           *)
LEMMA EmptiedType ==
  ASSUME NEW n \in inode
  PROVE  Emptied(n) \in inode
<1>1. <<>> \in Seq(Byte) /\ <<>> \in Seq(ddirent)
  OBVIOUS
<1>2. \A x \in Seq(Byte), y \in Seq(ddirent) : [n EXCEPT !.data = x, !.ent = y] \in inode
  BY DEF inode
<1> QED
  BY <1>1, <1>2 DEF Emptied

(* One slot of a table replaced.                                           *)
LEMMA SlotType ==
  ASSUME NEW d \in Table, NEW b \in SUBSET Inum, NEW i, NEW n \in inode
  PROVE  [ibm |-> b, ino |-> [d.ino EXCEPT ![i] = n]] \in Table
  BY DEF Table

(* The number that alloc_inode answers is that of a free slot.             *)
LEMMA NextFreeType ==
  ASSUME NEW d \in Table
  PROVE  NextFree(d) \in Num /\ NextFree(d) \notin d.ibm
<1>1. CASE Inum \ d.ibm = {}
  BY <1>1, NumFacts, TableParts DEF NextFree, Num
<1>2. CASE Inum \ d.ibm # {}
  <2>1. \E m \in Inum \ d.ibm : \A y \in Inum \ d.ibm : m <= y
    BY <1>2, NumFacts, NatMin
  <2>2. Least(Inum \ d.ibm) \in Inum \ d.ibm
    BY <2>1 DEF Least
  <2> QED
    BY <1>2, <2>2 DEF NextFree, Num
<1> QED
  BY <1>1, <1>2

(* The fields that the handlers store into, one at a time.                 *)
LEMMA FieldTypes ==
  ASSUME NEW d \in Table, NEW i
  PROVE  /\ \A x \in Int : [d EXCEPT !.ino[i].refs = x] \in Table
         /\ \A x \in Mode : [d EXCEPT !.ino[i].mode = x] \in Table
         /\ \A x \in Nat : [d EXCEPT !.ino[i].ts = x] \in Table
         /\ \A x \in Seq(Byte) : [d EXCEPT !.ino[i].data = x] \in Table
         /\ \A x \in Seq(ddirent) : [d EXCEPT !.ino[i].ent = x] \in Table
<1>1. \A x \in Int : [d EXCEPT !.ino[i].refs = x] \in Table
  BY DEF Table, inode
<1>2. \A x \in Mode : [d EXCEPT !.ino[i].mode = x] \in Table
  BY DEF Table, inode
<1>3. \A x \in Nat : [d EXCEPT !.ino[i].ts = x] \in Table
  BY DEF Table, inode
<1>4. \A x \in Seq(Byte) : [d EXCEPT !.ino[i].data = x] \in Table
  BY DEF Table, inode
<1>5. \A x \in Seq(ddirent) : [d EXCEPT !.ino[i].ent = x] \in Table
  BY DEF Table, inode
<1> QED
  BY <1>1, <1>2, <1>3, <1>4, <1>5

(* alloc_inode takes a free slot.                                          *)
LEMMA AllocType ==
  ASSUME NEW d \in Table
  PROVE  /\ alloc_inode(d) \in Table /\ Untouched(d, alloc_inode(d))
         /\ alloc_inode(d).ibm \in SUBSET Inum
<1>1. NextFree(d) \in Num /\ NextFree(d) \notin d.ibm
  BY NextFreeType
<1>2. CASE Inum \ d.ibm = {}
  BY <1>2, TableParts DEF alloc_inode, Untouched
<1>3. CASE Inum \ d.ibm # {}
  <2> DEFINE c == NextFree(d)
             b == d.ibm \cup {c}
             n == Emptied(d.ino[c])
  <2>1. c \in Inum
    <3>1. c # NoInode
      <4>1. \E m \in Inum \ d.ibm : \A y \in Inum \ d.ibm : m <= y
        BY <1>3, NumFacts, NatMin
      <4>2. Least(Inum \ d.ibm) \in Inum \ d.ibm
        BY <4>1 DEF Least
      <4> QED
        BY <1>3, <4>2, NumFacts DEF NextFree
    <3> QED
      BY <1>1, <3>1 DEF Num
  <2>2. d.ino[c] \in inode
    BY <1>1, TableParts
  <2>3. n \in inode
    BY <2>2, EmptiedType
  <2>4. b \in SUBSET Inum
    BY <2>1, TableParts
  <2>5. alloc_inode(d) = [ibm |-> b, ino |-> [d.ino EXCEPT ![c] = n]]
    BY <1>3 DEF alloc_inode
  <2> HIDE DEF b, n
  <2>6. alloc_inode(d) \in Table
    BY <2>3, <2>4, <2>5, SlotType
  <2>7. Untouched(d, alloc_inode(d))
    <3>1. d.ibm \subseteq b /\ c \notin d.ibm
      BY <1>1 DEF b
    <3>2. alloc_inode(d).ibm = b /\ alloc_inode(d).ino = [d.ino EXCEPT ![c] = n]
      BY <2>5
    <3>3. \A i \in d.ibm : alloc_inode(d).ino[i] = d.ino[i]
      BY <3>1, <3>2, TableParts DEF Num
    <3> QED
      BY <3>1, <3>2, <3>3 DEF Untouched
  <2> QED
    BY <2>4, <2>5, <2>6, <2>7
<1> QED
  BY <1>2, <1>3

(* copy_inode overwrites a free slot, or the phantom.                      *)
LEMMA CopyType ==
  ASSUME NEW d \in Table, NEW i \in Num
  PROVE  copy_inode(d, i) \in Table /\ Untouched(d, copy_inode(d, i))
<1> DEFINE c == NextFree(d)
           b == alloc_inode(d).ibm
<1>1. c \in Num /\ c \notin d.ibm
  BY NextFreeType
<1>2. b \in SUBSET Inum /\ d.ibm \subseteq b
  BY AllocType DEF Untouched
<1>3. d.ino[i] \in inode
  BY TableParts
<1>4. copy_inode(d, i) = [ibm |-> b, ino |-> [d.ino EXCEPT ![c] = d.ino[i]]]
  BY DEF copy_inode
<1> HIDE DEF b, c
<1>5. copy_inode(d, i) \in Table
  BY <1>2, <1>3, <1>4, SlotType
<1>6. \A j \in d.ibm : copy_inode(d, i).ino[j] = d.ino[j]
  BY <1>1, <1>4, TableParts DEF Num
<1>7. copy_inode(d, i).ibm = b
  BY <1>4
<1> QED
  BY <1>2, <1>5, <1>6, <1>7 DEF Untouched

(* Storing a field of a slot that is not allocated in d, or the references *)
(* of any slot, leaves the inodes of d alone.                              *)
LEMMA FieldsUntouched ==
  ASSUME NEW d \in Table, NEW e \in Table, Untouched(d, e), NEW i
  PROVE  /\ \A x : Untouched(d, [e EXCEPT !.ino[i].refs = x])
         /\ i \notin d.ibm =>
               /\ \A x : Untouched(d, [e EXCEPT !.ino[i].mode = x])
               /\ \A x : Untouched(d, [e EXCEPT !.ino[i].ts = x])
               /\ \A x : Untouched(d, [e EXCEPT !.ino[i].data = x])
               /\ \A x : Untouched(d, [e EXCEPT !.ino[i].ent = x])
<1>1. \A x : Untouched(d, [e EXCEPT !.ino[i].refs = x])
  BY DEF Untouched, Table, inode
<1>2. i \notin d.ibm => \A x : Untouched(d, [e EXCEPT !.ino[i].mode = x])
  BY DEF Untouched, Table, inode
<1>3. i \notin d.ibm => \A x : Untouched(d, [e EXCEPT !.ino[i].ts = x])
  BY DEF Untouched, Table, inode
<1>4. i \notin d.ibm => \A x : Untouched(d, [e EXCEPT !.ino[i].data = x])
  BY DEF Untouched, Table, inode
<1>5. i \notin d.ibm => \A x : Untouched(d, [e EXCEPT !.ino[i].ent = x])
  BY DEF Untouched, Table, inode
<1> QED
  BY <1>1, <1>2, <1>3, <1>4, <1>5

-----------------------------------------------------------------------------
(* Directories.                                                            *)

(* An entry appended, and a reference counted.                             *)
LEMMA PutType ==
  ASSUME NEW d \in Table, NEW dir \in Num, NEW name \in Name, NEW i \in Num
  PROVE  directory_put(d, dir, name, i) \in Table
<1> DEFINE e  == [d EXCEPT !.ino[i].refs = d.ino[i].refs + 1]
           en == Append(d.ino[dir].ent, [name |-> name, inum |-> i])
<1>1. d.ino[i].refs + 1 \in Int
  BY TableParts DEF inode
<1>2. e \in Table
  BY <1>1, FieldTypes
<1>3. e.ino[dir].ent = d.ino[dir].ent
  BY DEF Table, inode, Num
<1>4. [name |-> name, inum |-> i] \in ddirent /\ d.ino[dir].ent \in Seq(ddirent)
  <2>1. i \in Int
    BY NumFacts DEF Num, NoInode
  <2> QED
    BY <2>1, InodeParts DEF ddirent
<1>5. en \in Seq(ddirent)
  BY <1>4
<1>6. directory_put(d, dir, name, i) = [e EXCEPT !.ino[dir].ent = en]
  BY <1>3 DEF directory_put
<1> HIDE DEF e, en
<1>7. \A x \in Seq(ddirent) : [e EXCEPT !.ino[dir].ent = x] \in Table
  BY <1>2, FieldTypes
<1>8. [e EXCEPT !.ino[dir].ent = en] \in Table
  BY <1>5, <1>7
<1> QED
  BY <1>6, <1>8

(* directory_put on an inode that was free touches no other.               *)
LEMMA PutUntouched ==
  ASSUME NEW d \in Table, NEW e \in Table, Untouched(d, e),
         NEW dir \in Num, dir \notin d.ibm, NEW name, NEW i \in Num
  PROVE  Untouched(d, directory_put(e, dir, name, i))
<1> DEFINE g  == [e EXCEPT !.ino[i].refs = e.ino[i].refs + 1]
           en == Append(e.ino[dir].ent, [name |-> name, inum |-> i])
<1>1. e.ino[i].refs + 1 \in Int
  BY TableParts DEF inode
<1>2. g \in Table
  BY <1>1, FieldTypes
<1>3. g.ino[dir].ent = e.ino[dir].ent
  BY DEF Table, inode, Num
<1>4. Untouched(d, g)
  BY FieldsUntouched
<1>5. directory_put(e, dir, name, i) = [g EXCEPT !.ino[dir].ent = en]
  BY <1>3 DEF directory_put
<1> HIDE DEF g, en
<1> QED
  BY <1>2, <1>4, <1>5, FieldsUntouched

(* The numbers in entries replaced.                                        *)
LEMMA ReplaceType ==
  ASSUME NEW d \in Table, NEW dir \in Num, NEW old, NEW new \in Int
  PROVE  replace_in_entries(d, dir, old, new) \in Table
<1> DEFINE en == [k \in DOMAIN d.ino[dir].ent |->
                    IF d.ino[dir].ent[k].inum = old
                    THEN [d.ino[dir].ent[k] EXCEPT !.inum = new]
                    ELSE d.ino[dir].ent[k]]
<1>1. d.ino[dir].ent \in Seq(ddirent)
  BY TableParts DEF inode
<1>2. \A k \in DOMAIN d.ino[dir].ent : en[k] \in ddirent
  <2> TAKE k \in DOMAIN d.ino[dir].ent
  <2>1. d.ino[dir].ent[k] \in ddirent
    BY <1>1
  <2>2. [d.ino[dir].ent[k] EXCEPT !.inum = new] \in ddirent
    BY <2>1 DEF ddirent
  <2> QED
    BY <2>1, <2>2
<1>3. en \in Seq(ddirent)
  <2>1. PICK n \in Nat : d.ino[dir].ent \in [1 .. n -> ddirent]
    BY <1>1
  <2>2. en \in [1 .. n -> ddirent]
    BY <1>2, <2>1
  <2> HIDE DEF en
  <2> QED
    BY <2>2
<1>4. replace_in_entries(d, dir, old, new) = [d EXCEPT !.ino[dir].ent = en]
  BY DEF replace_in_entries
<1> HIDE DEF en
<1>5. [d EXCEPT !.ino[dir].ent = en] \in Table
  BY <1>3 DEF Table, inode
<1> QED
  BY <1>4, <1>5

(* replace_in_entries on an inode that was free touches no other.          *)
LEMMA ReplaceUntouched ==
  ASSUME NEW d \in Table, NEW e \in Table, Untouched(d, e),
         NEW dir \in Num, dir \notin d.ibm, NEW old, NEW new
  PROVE  Untouched(d, replace_in_entries(e, dir, old, new))
BY FieldsUntouched DEF replace_in_entries

(* A freed slot is emptied.                                                *)
LEMMA FreeType ==
  ASSUME NEW d \in Table, NEW i
  PROVE  free_inode(d, i) \in Table
<1>1. d.ibm \ {i} \in SUBSET Inum
  BY TableParts
<1>2. CASE i \in Num
  <2> DEFINE n == Emptied(d.ino[i])
  <2>1. n \in inode
    BY <1>2, InodeParts, EmptiedType
  <2>2. free_inode(d, i) = [ibm |-> d.ibm \ {i}, ino |-> [d.ino EXCEPT ![i] = n]]
    BY DEF free_inode
  <2> HIDE DEF n
  <2> QED
    BY <1>1, <2>1, <2>2, SlotType
<1>3. CASE i \notin Num
  <2>1. [d.ino EXCEPT ![i] = Emptied(@)] = d.ino
    BY <1>3, TableParts
  <2>2. free_inode(d, i) = [ibm |-> d.ibm \ {i}, ino |-> d.ino]
    BY <2>1 DEF free_inode
  <2> QED
    BY <1>1, <2>2, TableParts DEF Table, Num
<1> QED
  BY <1>2, <1>3

(* Entries deleted: the last one fills the gap.                            *)
LEMMA CutType ==
  ASSUME NEW ent \in Seq(ddirent), ent # <<>>, NEW at
  PROVE  SubSeq([ent EXCEPT ![at] = ent[Len(ent)]], 1, Len(ent) - 1) \in Seq(ddirent)
<1>1. Len(ent) \in Nat /\ Len(ent) # 0
  OBVIOUS
<1>2. ent[Len(ent)] \in ddirent
  BY <1>1
<1>3. [ent EXCEPT ![at] = ent[Len(ent)]] \in Seq(ddirent)
  <2>1. ent \in [1 .. Len(ent) -> ddirent]
    OBVIOUS
  <2> DEFINE cut == [ent EXCEPT ![at] = ent[Len(ent)]]
  <2>2. cut \in [1 .. Len(ent) -> ddirent]
    BY <1>2, <2>1
  <2> HIDE DEF cut
  <2>3. cut \in Seq(ddirent)
    BY <1>1, <2>2
  <2> QED
    BY <2>3 DEF cut
<1>4. \A s \in Seq(ddirent) : Len(s) = Len(ent) => SubSeq(s, 1, Len(ent) - 1) \in Seq(ddirent)
  BY <1>1
<1>5. Len([ent EXCEPT ![at] = ent[Len(ent)]]) = Len(ent)
  BY <1>3
<1> QED
  BY <1>3, <1>4, <1>5

(* A name deleted, wherever it was looked for.                             *)
LEMMA DeleteType ==
  ASSUME NEW d \in Table, NEW dir, NEW name
  PROVE  directory_delete(d, dir, name) \in Table
<1> DEFINE ent == d.ino[dir].ent
           i   == directory_lookup(d.ino[dir], name)
           at  == Least(Hits(d.ino[dir], name))
           d1  == [d EXCEPT !.ino[i].refs = d.ino[i].refs - 1]
           d2  == IF Unreferenced(d, i) THEN free_inode(d1, i) ELSE d1
           cut == SubSeq([ent EXCEPT ![at] = ent[Len(ent)]], 1, Len(ent) - 1)
<1>1. CASE Hits(d.ino[dir], name) = {}
  BY <1>1 DEF directory_delete
<1>2. CASE Hits(d.ino[dir], name) # {}
  <2>1. d1 \in Table
    <3>1. CASE i \in Num
      <4>1. d.ino[i].refs - 1 \in Int
        BY <3>1, InodeParts
      <4> HIDE DEF i
      <4>2. \A x \in Int : [d EXCEPT !.ino[i].refs = x] \in Table
        BY FieldTypes
      <4> QED
        BY <4>1, <4>2
    <3>2. CASE i \notin Num
      <4> HIDE DEF i
      <4>1. \A x : [d EXCEPT !.ino[i].refs = x] = d
        BY <3>2, TableParts DEF Table, Num
      <4> QED
        BY <4>1
    <3> QED
      BY <3>1, <3>2
  <2>2. d2 \in Table
    BY <2>1, FreeType
  <2>3. directory_delete(d, dir, name) \in {d1, [d2 EXCEPT !.ino[dir].ent = cut]}
    BY <1>2 DEF directory_delete
  <2> HIDE DEF d1, d2
  <2>4. CASE dir \in Num
    <3>1. ent \in Seq(ddirent) /\ ent # <<>>
      BY <1>2, <2>4, InodeParts DEF Hits
    <3> HIDE DEF ent, at
    <3>2. cut \in Seq(ddirent)
      BY <3>1, CutType
    <3> HIDE DEF cut
    <3>3. \A x \in Seq(ddirent) : [d2 EXCEPT !.ino[dir].ent = x] \in Table
      BY <2>2, FieldTypes
    <3> QED
      BY <2>1, <2>3, <3>2, <3>3
  <2>5. CASE dir \notin Num
    <3> HIDE DEF cut
    <3>1. \A x : [d2 EXCEPT !.ino[dir].ent = x] = d2
      BY <2>2, <2>5, TableParts DEF Table, Num
    <3> QED
      BY <2>1, <2>2, <2>3, <3>1
  <2> QED
    BY <2>4, <2>5
<1> QED
  BY <1>1, <1>2

-----------------------------------------------------------------------------
(* Path lookup.  tree_lookup_hlp is a recursive function over the parts of *)
(* the path; what is needed of it is one step: a path is looked up in the  *)
(* directory that its parent leads to.                                     *)

\* The number reached after k parts, given those after fewer.
Part(d, p, r, f, k) ==
    IF k = 0 THEN r
    ELSE IF f[k - 1] < 0 THEN f[k - 1]
    ELSE directory_lookup(d.ino[f[k - 1]], p[k])

Walk(d, p, r) == CHOOSE f : f = [k \in 0 .. Len(p) |-> Part(d, p, r, f, k)]

(* tree_lookup_hlp answers the last part of its walk.                      *)
LEMMA LookupIsWalk ==
  ASSUME NEW d, NEW p, NEW r
  PROVE  tree_lookup_hlp(d, p, r) = Walk(d, p, r)[Len(p)]
  BY DEF tree_lookup_hlp, Walk, Part

(* The function exists for every number of parts: a smallest number for    *)
(* which it did not would have a predecessor whose function extends.       *)
HasWalk(d, p, r, n) == \E f : f = [k \in 0 .. n |-> Part(d, p, r, f, k)]

(* There is a walk of every length.                                        *)
LEMMA WalkExists ==
  ASSUME NEW d, NEW p, NEW r, NEW len \in Nat
  PROVE  HasWalk(d, p, r, len)
<1> DEFINE Ok(n) == \E f : f = [k \in 0 .. n |-> Part(d, p, r, f, k)]
           Bad   == {n \in Nat : ~Ok(n)}
<1>1. SUFFICES Bad = {}
  BY DEF HasWalk
<1>2. SUFFICES ASSUME Bad # {} PROVE FALSE
  OBVIOUS
<1>3. PICK m \in Bad : \A n \in Bad : m <= n
  <2>1. Bad \in SUBSET Nat
    OBVIOUS
  <2> HIDE DEF Bad
  <2> QED
    BY <1>2, <2>1, NatMin
<1>4. m \in Nat /\ ~Ok(m)
  BY <1>3
<1>5. CASE m = 0
  <2> DEFINE f == [k \in 0 .. 0 |-> r]
  <2>1. f = [k \in 0 .. 0 |-> Part(d, p, r, f, k)]
    BY DEF Part
  <2> QED
    BY <1>4, <1>5, <2>1
<1>6. CASE m # 0
  <2>1. m - 1 \in Nat /\ m - 1 < m
    BY <1>4, <1>6
  <2>2. Ok(m - 1)
    BY <1>3, <2>1
  <2>3. PICK f : f = [k \in 0 .. m - 1 |-> Part(d, p, r, f, k)]
    BY <2>2
  <2> DEFINE g == [k \in 0 .. m |-> IF k = m THEN Part(d, p, r, f, m) ELSE f[k]]
  <2>4. \A k \in 0 .. m : k # m => k \in 0 .. m - 1 /\ g[k] = f[k]
    BY <1>4
  <2>5. \A k \in 0 .. m : k # 0 => k - 1 \in 0 .. m - 1 /\ k - 1 \in 0 .. m /\ k - 1 # m
    BY <1>4
  <2>6. \A k \in 0 .. m : Part(d, p, r, g, k) = Part(d, p, r, f, k)
    <3> TAKE k \in 0 .. m
    <3> HIDE DEF g
    <3>1. k # 0 => g[k - 1] = f[k - 1]
      BY <2>4, <2>5
    <3> QED
      BY <3>1 DEF Part
  <2>7. \A k \in 0 .. m : g[k] = Part(d, p, r, g, k)
    <3> TAKE k \in 0 .. m
    <3>1. CASE k = m
      <4>1. g[k] = Part(d, p, r, f, m)
        BY <3>1
      <4> QED
        BY <2>6, <3>1, <4>1
    <3>2. CASE k # m
      <4>1. g[k] = f[k] /\ k \in 0 .. m - 1
        BY <2>4, <3>2
      <4>2. f[k] = Part(d, p, r, f, k)
        BY <2>3, <4>1
      <4> QED
        BY <2>6, <4>1, <4>2
    <3> QED
      BY <3>1, <3>2
  <2>8. g = [k \in 0 .. m |-> Part(d, p, r, g, k)]
    <3>1. g = [k \in 0 .. m |-> g[k]]
      OBVIOUS
    <3> HIDE DEF g
    <3> QED
      BY <2>7, <3>1
  <2> HIDE DEF g
  <2> QED
    BY <1>4, <2>8
<1> QED
  BY <1>5, <1>6

(* Its value at every part.                                                *)
LEMMA WalkStep ==
  ASSUME NEW d, NEW p \in Seq(Name), NEW r, NEW i \in 0 .. Len(p)
  PROVE  Walk(d, p, r)[i] = Part(d, p, r, Walk(d, p, r), i)
<1>1. HasWalk(d, p, r, Len(p))
  <2>1. Len(p) \in Nat
    OBVIOUS
  <2> QED
    BY <2>1, WalkExists
<1>2. \E f : f = [k \in 0 .. Len(p) |-> Part(d, p, r, f, k)]
  BY <1>1 DEF HasWalk
<1>3. Walk(d, p, r) = [k \in 0 .. Len(p) |-> Part(d, p, r, Walk(d, p, r), k)]
  BY <1>2 DEF Walk
<1> DEFINE w == Walk(d, p, r)
<1> HIDE DEF w
<1>4. w = [k \in 0 .. Len(p) |-> Part(d, p, r, w, k)]
  BY <1>3 DEF w
<1>5. w[i] = Part(d, p, r, w, i)
  BY <1>4
<1> QED
  BY <1>5 DEF w

(* The walks of a path and of its parent agree on the parent's parts.      *)
IsPrefixOf(q, p) == Len(q) <= Len(p) /\ \A k \in 1 .. Len(q) : q[k] = p[k]

(* A walk begins with the walk of every prefix.                            *)
LEMMA WalkPrefix ==
  ASSUME NEW d, NEW p \in Seq(Name), NEW q \in Seq(Name), NEW r, IsPrefixOf(q, p),
         NEW i \in 0 .. Len(q)
  PROVE  Walk(d, q, r)[i] = Walk(d, p, r)[i]
<1> USE DEF IsPrefixOf
<1> DEFINE Bad == {k \in 0 .. Len(q) : Walk(d, q, r)[k] # Walk(d, p, r)[k]}
<1>1. SUFFICES ASSUME Bad # {} PROVE FALSE
  OBVIOUS
<1>2. Len(q) \in Nat /\ Len(p) \in Nat
  OBVIOUS
<1>3. PICK m \in Bad : \A n \in Bad : m <= n
  <2>1. Bad \in SUBSET Nat
    BY <1>2
  <2> HIDE DEF Bad
  <2> QED
    BY <1>1, <2>1, NatMin
<1>4. m \in 0 .. Len(q) /\ m \in 0 .. Len(p) /\ Walk(d, q, r)[m] # Walk(d, p, r)[m]
  BY <1>2, <1>3
<1>5. /\ Walk(d, q, r)[m] = Part(d, q, r, Walk(d, q, r), m)
      /\ Walk(d, p, r)[m] = Part(d, p, r, Walk(d, p, r), m)
  BY <1>4, WalkStep
<1>6. m # 0
  BY <1>4, <1>5 DEF Part
<1>7. Walk(d, q, r)[m - 1] = Walk(d, p, r)[m - 1]
  <2>1. m - 1 \in 0 .. Len(q) /\ ~(m <= m - 1)
    BY <1>2, <1>4, <1>6
  <2> QED
    BY <1>3, <2>1
<1>8. q[m] = p[m]
  BY <1>2, <1>4, <1>6
<1>9. Part(d, q, r, Walk(d, q, r), m) = Part(d, p, r, Walk(d, p, r), m)
  BY <1>7, <1>8 DEF Part
<1> QED
  BY <1>4, <1>5, <1>9

(* A path is looked up in the directory its parent leads to.               *)
LEMMA LookupStep ==
  ASSUME NEW d, NEW p \in Seq(Name), p # <<>>, NEW r
  PROVE  LET up == tree_lookup_hlp(d, SubSeq(p, 1, Len(p) - 1), r)
         IN  tree_lookup_hlp(d, p, r) =
               IF up < 0 THEN up ELSE directory_lookup(d.ino[up], p[Len(p)])
<1> DEFINE q == SubSeq(p, 1, Len(p) - 1)
<1>1. Len(p) \in Nat /\ Len(p) # 0
  OBVIOUS
<1>2. q \in Seq(Name) /\ Len(q) = Len(p) - 1 /\ \A k \in 1 .. Len(q) : q[k] = p[k]
  BY <1>1
<1> HIDE DEF q
<1>3. Walk(d, q, r)[Len(q)] = Walk(d, p, r)[Len(q)]
  <2>1. Len(q) \in 0 .. Len(q) /\ Len(q) <= Len(p)
    BY <1>1, <1>2
  <2>2. IsPrefixOf(q, p)
    BY <1>2, <2>1 DEF IsPrefixOf
  <2> QED
    BY <1>2, <2>1, <2>2, WalkPrefix
<1>4. Walk(d, p, r)[Len(p)] = Part(d, p, r, Walk(d, p, r), Len(p))
  <2>1. Len(p) \in 0 .. Len(p)
    BY <1>1
  <2> QED
    BY <2>1, WalkStep
<1>5. tree_lookup_hlp(d, q, r) = Walk(d, p, r)[Len(p) - 1]
  BY <1>2, <1>3, LookupIsWalk
<1>6. tree_lookup_hlp(d, p, r) = Walk(d, p, r)[Len(p)]
  BY LookupIsWalk
<1>7. Part(d, p, r, Walk(d, p, r), Len(p))
        = LET up == Walk(d, p, r)[Len(p) - 1]
          IN  IF up < 0 THEN up ELSE directory_lookup(d.ino[up], p[Len(p)])
  BY <1>1 DEF Part
<1> QED
  BY <1>4, <1>5, <1>6, <1>7 DEF q

(* The empty path leads to the root.                                       *)
LEMMA LookupRoot ==
  ASSUME NEW d, NEW r
  PROVE  tree_lookup_hlp(d, <<>>, r) = r
<1>1. <<>> \in Seq(Name) /\ Len(<<>>) = 0 /\ 0 \in 0 .. Len(<<>>)
  OBVIOUS
<1>2. Walk(d, <<>>, r)[0] = Part(d, <<>>, r, Walk(d, <<>>, r), 0)
  BY <1>1, WalkStep
<1> QED
  BY <1>1, <1>2, LookupIsWalk DEF Part

-----------------------------------------------------------------------------
(* Tables in which nothing leads to a free inode.                          *)

(* Every allocated inode has a mode, and its entries name allocated inodes *)
(* or, when mknod found the table full, none.                              *)
ClosedInode(n, b) ==
    /\ n.mode # "none"
    /\ \A k \in DOMAIN n.ent : n.ent[k].inum \in b \cup {NoInode}

Closed(d) == 0 \in d.ibm /\ \A i \in d.ibm : ClosedInode(d.ino[i], d.ibm)

(* From an allocated root every lookup ends at an allocated inode or fails.*)
LEMMA ClosedLookup ==
  ASSUME NEW d \in Table, Closed(d), NEW r \in d.ibm, NEW p \in Seq(Name)
  PROVE  tree_lookup_hlp(d, p, r) \in d.ibm \cup {NoInode, ENOENT}
<1> DEFINE w   == Walk(d, p, r)
           Ok(k) == w[k] \in d.ibm \cup {NoInode, ENOENT}
           Bad == {k \in 0 .. Len(p) : ~Ok(k)}
<1>1. Len(p) \in Nat
  OBVIOUS
<1>2. ASSUME Bad # {} PROVE FALSE
  <2>1. PICK m \in Bad : \A n \in Bad : m <= n
    <3>1. Bad \in SUBSET Nat
      BY <1>1
    <3> HIDE DEF Bad
    <3> QED
      BY <1>2, <3>1, NatMin
  <2>2. m \in 0 .. Len(p) /\ ~Ok(m)
    BY <2>1
  <2>3. w[m] = Part(d, p, r, w, m)
    BY <2>2, WalkStep
  <2> HIDE DEF w
  <2>4. m # 0
    BY <2>2, <2>3 DEF Part
  <2>5. Ok(m - 1)
    <3>1. m - 1 \in 0 .. Len(p) /\ ~(m <= m - 1)
      BY <1>1, <2>2, <2>4
    <3> QED
      BY <2>1, <3>1
  <2>6. CASE w[m - 1] < 0
    BY <2>2, <2>3, <2>4, <2>5, <2>6 DEF Part
  <2>7. CASE ~(w[m - 1] < 0)
    <3> DEFINE i == w[m - 1]
               n == d.ino[i]
               H == Hits(n, p[m])
    <3>1. i \in d.ibm
      BY <2>5, <2>7 DEF NoInode, ENOENT
    <3>2. n.ent \in Seq(ddirent)
      BY <3>1, InodeParts, TableParts DEF Num
    <3>3. w[m] = directory_lookup(n, p[m])
      BY <2>3, <2>4, <2>7 DEF Part
    <3>4. CASE H = {}
      BY <2>2, <3>3, <3>4 DEF directory_lookup
    <3>5. CASE H # {}
      <4>1. H \in SUBSET Nat /\ H \subseteq DOMAIN n.ent
        <5>1. H \subseteq DOMAIN n.ent
          BY DEF Hits
        <5> HIDE DEF H, n
        <5>2. DOMAIN n.ent \subseteq Nat
          BY <3>2
        <5> QED
          BY <5>1, <5>2
      <4>2. n.ent[Least(H)].inum \in d.ibm \cup {NoInode}
        <5> HIDE DEF H, n
        <5>1. \E x \in H : \A y \in H : x <= y
          BY <3>5, <4>1, NatMin
        <5>2. Least(H) \in H
          BY <5>1 DEF Least
        <5>3. ClosedInode(n, d.ibm)
          BY <3>1 DEF Closed, n
        <5> QED
          BY <4>1, <5>2, <5>3 DEF ClosedInode
      <4>3. w[m] = n.ent[Least(H)].inum
        BY <3>3, <3>5 DEF directory_lookup
      <4> QED
        BY <2>2, <4>2, <4>3
    <3> QED
      BY <3>4, <3>5
  <2> QED
    BY <2>6, <2>7
<1>3. Ok(Len(p))
  <2> HIDE DEF Ok
  <2> QED
    BY <1>1, <1>2
<1> QED
  BY <1>3, LookupIsWalk

(* A closed inode stays closed when more is allocated.                     *)
LEMMA ClosedMore ==
  ASSUME NEW n, NEW b, NEW c, b \subseteq c, ClosedInode(n, b)
  PROVE  ClosedInode(n, c)
  BY DEF ClosedInode

(* What alloc_inode answers is allocated afterwards, if there was room.    *)
LEMMA AllocTakes ==
  ASSUME NEW d \in Table
  PROVE  /\ d.ibm \subseteq alloc_inode(d).ibm
         /\ NextFree(d) \in alloc_inode(d).ibm \cup {NoInode}
         /\ \A j \in alloc_inode(d).ibm : j = NextFree(d) \/ j \in d.ibm
  BY DEF alloc_inode, NextFree

(* A copy points at what its original points at.                           *)
LEMMA CopyClosed ==
  ASSUME NEW d \in Table, Closed(d), NEW i \in d.ibm
  PROVE  /\ Closed(copy_inode(d, i))
         /\ inum_field(NextFree(d)) \in copy_inode(d, i).ibm
<1> DEFINE c == NextFree(d)
           b == alloc_inode(d).ibm
           e == copy_inode(d, i)
<1>1. /\ d.ibm \subseteq b /\ c \in b \cup {NoInode} /\ c \in Num
      /\ \A j \in b : j = c \/ j \in d.ibm
  BY AllocTakes, NextFreeType
<1>2. e.ibm = b /\ e.ino = [d.ino EXCEPT ![c] = d.ino[i]]
  BY DEF copy_inode
<1> HIDE DEF b, c, e
<1>3. \A j \in b : e.ino[j] = d.ino[i] \/ (j \in d.ibm /\ e.ino[j] = d.ino[j])
  <2> TAKE j \in b
  <2>1. j \in Num /\ d.ino \in [Num -> inode]
    BY <1>1, TableParts DEF Num
  <2> QED
    BY <1>1, <1>2, <2>1
<1>4. \A j \in b : ClosedInode(e.ino[j], d.ibm)
  BY <1>3 DEF Closed
<1>5. \A j \in b : ClosedInode(e.ino[j], b)
  BY <1>1, <1>4, ClosedMore
<1>6. 0 \in b
  BY <1>1 DEF Closed
<1>7. Closed(e)
  BY <1>2, <1>5, <1>6 DEF Closed
<1>8. inum_field(c) \in b
  BY <1>1, <1>6 DEF inum_field
<1> QED
  BY <1>2, <1>7, <1>8 DEF c, e

(* Fields other than the entries.                                          *)
LEMMA FieldClosed ==
  ASSUME NEW d \in Table, Closed(d), NEW i
  PROVE  /\ \A x \in Int : Closed([d EXCEPT !.ino[i].refs = x])
         /\ \A x \in Mode \ {"none"} : Closed([d EXCEPT !.ino[i].mode = x])
         /\ \A x \in Nat : Closed([d EXCEPT !.ino[i].ts = x])
         /\ \A x \in Seq(Byte) : Closed([d EXCEPT !.ino[i].data = x])
<1> USE TableParts DEF Closed, ClosedInode, Table, inode
<1>1. \A x \in Int : Closed([d EXCEPT !.ino[i].refs = x])
  OBVIOUS
<1>2. \A x \in Mode \ {"none"} : Closed([d EXCEPT !.ino[i].mode = x])
  OBVIOUS
<1>3. \A x \in Nat : Closed([d EXCEPT !.ino[i].ts = x])
  OBVIOUS
<1>4. \A x \in Seq(Byte) : Closed([d EXCEPT !.ino[i].data = x])
  OBVIOUS
<1> QED
  BY <1>1, <1>2, <1>3, <1>4

(* Entries that name allocated inodes, if the slot is allocated itself.    *)
Fits(d, i, en) ==
    i \in d.ibm => \A k \in DOMAIN en : en[k].inum \in d.ibm \cup {NoInode}

(* Entries that fit leave a closed table closed.                           *)
LEMMA EntriesClosed ==
  ASSUME NEW d \in Table, Closed(d), NEW i
  PROVE  \A en \in Seq(ddirent) : Fits(d, i, en) => Closed([d EXCEPT !.ino[i].ent = en])
<1> USE TableParts DEF Closed, ClosedInode, Table, inode, Fits
<1> TAKE en \in Seq(ddirent)
<1> QED
  OBVIOUS

(* directory_put of an allocated inode leaves the table closed.            *)
LEMMA PutClosed ==
  ASSUME NEW d \in Table, Closed(d), NEW dir \in Num, NEW name \in Name,
         NEW i \in d.ibm \cup {NoInode}
  PROVE  Closed(directory_put(d, dir, name, i))
<1> DEFINE e   == [d EXCEPT !.ino[i].refs = d.ino[i].refs + 1]
           was == d.ino[dir].ent
           new == [name |-> name, inum |-> i]
           en  == Append(was, new)
<1>0. i \in Num
  BY TableParts DEF Num
<1>1. d.ino[i].refs + 1 \in Int
  BY <1>0, TableParts DEF inode
<1>2. e \in Table /\ Closed(e)
  BY <1>1, FieldTypes, FieldClosed
<1>3. e.ino[dir].ent = was /\ e.ibm = d.ibm
  BY DEF Table, inode, Num
<1>4. was \in Seq(ddirent) /\ new \in ddirent /\ new.inum = i
  <2>1. i \in Int
    BY <1>0, NumFacts DEF Num, NoInode
  <2> QED
    BY <2>1, InodeParts DEF ddirent
<1>5. dir \in d.ibm => \A k \in DOMAIN was : was[k].inum \in d.ibm \cup {NoInode}
  BY DEF Closed, ClosedInode
<1>6. directory_put(d, dir, name, i) = [e EXCEPT !.ino[dir].ent = en]
  BY <1>3 DEF directory_put
<1> HIDE DEF e, was, new
<1>7. en \in Seq(ddirent)
  BY <1>4
<1>8. dir \in e.ibm => \A k \in DOMAIN en : en[k].inum \in e.ibm \cup {NoInode}
  <2> SUFFICES ASSUME dir \in d.ibm, NEW k \in DOMAIN en
               PROVE  en[k].inum \in d.ibm \cup {NoInode}
    BY <1>3
  <2>1. (k \in DOMAIN was /\ en[k] = was[k]) \/ en[k] = new
    BY <1>4
  <2> QED
    BY <1>4, <1>5, <2>1
<1> HIDE DEF en
<1>9. Fits(e, dir, en)
  BY <1>8 DEF Fits
<1>10. \A x \in Seq(ddirent) : Fits(e, dir, x) => Closed([e EXCEPT !.ino[dir].ent = x])
  BY <1>2, EntriesClosed
<1> QED
  BY <1>6, <1>7, <1>9, <1>10

(* replace_in_entries by an allocated inode leaves the table closed.       *)
LEMMA ReplaceClosed ==
  ASSUME NEW d \in Table, Closed(d), NEW dir \in Num, NEW old, NEW new \in d.ibm
  PROVE  Closed(replace_in_entries(d, dir, old, new))
<1> DEFINE was == d.ino[dir].ent
           en  == [k \in DOMAIN was |->
                     IF was[k].inum = old THEN [was[k] EXCEPT !.inum = new] ELSE was[k]]
<1>1. was \in Seq(ddirent) /\ new \in Int
  BY InodeParts, NumFacts, TableParts
<1>2. dir \in d.ibm => \A k \in DOMAIN was : was[k].inum \in d.ibm \cup {NoInode}
  BY DEF Closed, ClosedInode
<1>3. replace_in_entries(d, dir, old, new) = [d EXCEPT !.ino[dir].ent = en]
  BY DEF replace_in_entries
<1> HIDE DEF was
<1>4. \A k \in DOMAIN was : /\ was[k] \in ddirent
                            /\ [was[k] EXCEPT !.inum = new] \in ddirent
                            /\ [was[k] EXCEPT !.inum = new].inum = new
  <2> TAKE k \in DOMAIN was
  <2>1. was[k] \in ddirent
    BY <1>1
  <2> QED
    BY <1>1, <2>1 DEF ddirent
<1>5. \A k \in DOMAIN was : en[k] \in ddirent /\ (en[k].inum = new \/ en[k] = was[k])
  <2> TAKE k \in DOMAIN was
  <2> QED
    BY <1>4
<1>6. en \in Seq(ddirent) /\ DOMAIN en = DOMAIN was
  <2>1. PICK n \in Nat : was \in [1 .. n -> ddirent]
    BY <1>1
  <2>2. en \in [1 .. n -> ddirent] /\ DOMAIN en = DOMAIN was
    BY <1>5, <2>1
  <2> HIDE DEF en
  <2> QED
    BY <2>2
<1> HIDE DEF en
<1>7. dir \in d.ibm => \A k \in DOMAIN en : en[k].inum \in d.ibm \cup {NoInode}
  BY <1>2, <1>5, <1>6
<1>8. Fits(d, dir, en)
  BY <1>7 DEF Fits
<1>9. \A x \in Seq(ddirent) : Fits(d, dir, x) => Closed([d EXCEPT !.ino[dir].ent = x])
  BY EntriesClosed
<1> QED
  BY <1>3, <1>6, <1>8, <1>9


-----------------------------------------------------------------------------
(* The constants and the numbers of slots.                                 *)

(* The slots of the list are numbered from 0 to the oldest.                *)
LEMMA SlotFacts ==
  /\ NumVersions \in Nat /\ Oldest \in RL!Slot /\ Oldest - 1 \in RL!Slot /\ 0 \in RL!Slot
  /\ \A s \in RL!Slot : s \in Nat /\ s <= Oldest
  /\ Oldest > 0 /\ Oldest = RL!Last
  BY StorageAssumption DEF Oldest, RL!Slot, RL!Last

(* The root is a path, and what is above a path is one.                    *)
LEMMA PathFacts ==
  /\ Root \in Path /\ NoPath \notin Path
  /\ \A p \in Path : dirname(p) \in Path /\ p \in Seq(Name)
  BY StorageAssumption

(* The inum field of an inode is a number of the table.                    *)
LEMMA FieldNum == \A i \in Num : inum_field(i) \in Inum
  BY NumFacts DEF inum_field, Num

(* The inum field of an inode of the table is its number.                  *)
LEMMA InumNum == \A i \in Inum : inum_field(i) = i /\ i \in Num
  BY NumFacts DEF inum_field, Num

-----------------------------------------------------------------------------
(* The list.                                                               *)

(* The last match is a slot.                                               *)
LEMMA FoundSlot ==
  ASSUME NEW v, RL!Matches(v) # {}
  PROVE  \E s \in RL!Slot : RL!Found(v) = [rnum |-> rl[s].rnum, op |-> rl[s].op]
<1> DEFINE M == RL!Matches(v)
           D == {Oldest - s : s \in M}
<1>1. M \subseteq RL!Slot
  BY DEF RL!Matches
<1>2. \E s \in M : \A t \in M : t <= s
  <2>1. D \in SUBSET Nat /\ D # {}
    BY <1>1, SlotFacts
  <2> HIDE DEF M
  <2>2. PICK m \in D : \A n \in D : m <= n
    <3> HIDE DEF D
    <3> QED
      BY <2>1, NatMin
  <2>3. PICK s \in M : m = Oldest - s
    BY <2>2
  <2>4. \A t \in M : t <= s
    <3> TAKE t \in M
    <3>1. s \in Nat /\ t \in Nat /\ Oldest \in Nat
      BY <1>1, SlotFacts
    <3>2. m <= Oldest - t
      BY <2>2
    <3> QED
      BY <2>3, <3>1, <3>2
  <2> QED
    BY <2>4
<1> DEFINE s == CHOOSE s \in M : \A t \in M : t <= s
<1>3. s \in RL!Slot
  BY <1>1, <1>2
<1>4. RL!Found(v) = [rnum |-> rl[s].rnum, op |-> rl[s].op]
  BY DEF RL!Found
<1> HIDE DEF s
<1> QED
  BY <1>3, <1>4

(* What rollback finds has the type of an entry.                           *)
LEMMA FoundType ==
  ASSUME RL!TypeOK, NEW v, RL!Matches(v) # {}
  PROVE  RL!Found(v) \in [rnum : Int, op : Labels]
<1>1. PICK s \in RL!Slot : RL!Found(v) = [rnum |-> rl[s].rnum, op |-> rl[s].op]
  BY FoundSlot
<1>2. rl[s] \in RL!cow_version
  BY DEF RL!TypeOK
<1> QED
  BY <1>1, <1>2 DEF RL!cow_version

(* Every operation on the list keeps its types.                            *)
LEMMA ListTypes ==
  ASSUME RL!TypeOK
  PROVE  /\ RL!Start => RL!TypeOK'
         /\ RL!Exit => RL!TypeOK'
         /\ RL!Kill => RL!TypeOK'
         /\ \A v \in RL!Listed : RL!SwapRoot(v) => RL!TypeOK'
         /\ \A r \in Int, op \in Labels : RL!AddRoot(r, op) => RL!TypeOK'
         /\ RL!Collected => RL!TypeOK'
         /\ RL!Shift => RL!TypeOK'
         /\ RL!StoreRnum => RL!TypeOK'
         /\ RL!StoreVnum => RL!TypeOK'
         /\ RL!StoreOp => RL!TypeOK'
<1> USE SlotFacts DEF RL!TypeOK
<1>0. [rnum |-> 0, op |-> NoLabel] \in [rnum : Int, op : Labels]
  <2>1. Root \in Path
    BY PathFacts
  <2>2. NoLabel \in Labels
    BY <2>1 DEF NoLabel, Labels
  <2> QED
    BY <2>2
<1>1. RL!Start => RL!TypeOK'
  BY DEF RL!Start
<1>2. RL!Exit => RL!TypeOK'
  BY DEF RL!Exit
<1>3. RL!Kill => RL!TypeOK'
  BY <1>0 DEF RL!Kill, RL!NoEntry
<1>4. \A v \in RL!Listed : RL!SwapRoot(v) => RL!TypeOK'
  <2> SUFFICES ASSUME NEW v, RL!SwapRoot(v) PROVE RL!TypeOK'
    OBVIOUS
  <2>1. entry' \in [rnum : Int, op : Labels]
    BY FoundType DEF RL!SwapRoot
  <2> QED
    BY <2>1 DEF RL!SwapRoot, RL!ShiftFrom
<1>5. \A r \in Int, op \in Labels : RL!AddRoot(r, op) => RL!TypeOK'
  BY DEF RL!AddRoot, RL!ShiftFrom
<1>6. RL!Collected => RL!TypeOK'
  BY DEF RL!Collected
<1>7. RL!Shift => RL!TypeOK'
  <2> SUFFICES ASSUME RL!Shift PROVE RL!TypeOK'
    OBVIOUS
  <2>1. ii - 1 \in RL!Slot
    BY DEF RL!Shift, RL!Slot
  <2>2. rl[ii - 1] \in RL!cow_version
    BY <2>1
  <2> QED
    BY <2>1, <2>2 DEF RL!Shift
<1>8. RL!StoreRnum => RL!TypeOK'
  BY DEF RL!StoreRnum, RL!cow_version
<1>9. RL!StoreVnum => RL!TypeOK'
  BY DEF RL!StoreVnum, RL!cow_version
<1>10. RL!StoreOp => RL!TypeOK'
  BY <1>0 DEF RL!StoreOp, RL!cow_version, RL!NoEntry
<1> QED
  BY <1>1, <1>2, <1>3, <1>4, <1>5, <1>6, <1>7, <1>8, <1>9, <1>10

-----------------------------------------------------------------------------
(* The handlers.  A table that a handler may give traverse_and_update: it  *)
(* has the type and leaves what is allocated alone.                        *)

Derived(d) == d \in Table /\ Untouched(fs, d)

(* A table that stays as it is is untouched.                               *)
LEMMA UntouchedTable ==
  ASSUME NEW d \in Table
  PROVE  Untouched(d, d)
  BY DEF Untouched

(* copy_inode writes only to an inode that was free.                       *)
LEMMA CopyDerived ==
  ASSUME fs \in Table, NEW i \in Inum
  PROVE  /\ Derived(copy_inode(fs, i))
         /\ NextFree(fs) \in Num /\ NextFree(fs) \notin fs.ibm
<1>1. i \in Num
  BY DEF Num
<1> QED
  BY <1>1, CopyType, NextFreeType DEF Derived

(* Storing into the copy, or counting references.                          *)
LEMMA FieldDerived ==
  ASSUME fs \in Table, NEW d, Derived(d), NEW c, c \notin fs.ibm
  PROVE  /\ \A j : \A x \in Int : Derived([d EXCEPT !.ino[j].refs = x])
         /\ \A x \in Mode : Derived([d EXCEPT !.ino[c].mode = x])
         /\ \A x \in Nat : Derived([d EXCEPT !.ino[c].ts = x])
         /\ \A x \in Seq(Byte) : Derived([d EXCEPT !.ino[c].data = x])
<1>0. d \in Table /\ Untouched(fs, d)
  BY DEF Derived
<1>1. \A j : \A x \in Int : Derived([d EXCEPT !.ino[j].refs = x])
  BY <1>0, FieldTypes, FieldsUntouched DEF Derived
<1>2. \A x \in Mode : Derived([d EXCEPT !.ino[c].mode = x])
  BY <1>0, FieldTypes, FieldsUntouched DEF Derived
<1>3. \A x \in Nat : Derived([d EXCEPT !.ino[c].ts = x])
  BY <1>0, FieldTypes, FieldsUntouched DEF Derived
<1>4. \A x \in Seq(Byte) : Derived([d EXCEPT !.ino[c].data = x])
  BY <1>0, FieldTypes, FieldsUntouched DEF Derived
<1> QED
  BY <1>1, <1>2, <1>3, <1>4

(* directory_put on a copy leaves the allocated inodes alone.              *)
LEMMA PutDerived ==
  ASSUME fs \in Table, NEW d, Derived(d), NEW c \in Num, c \notin fs.ibm,
         NEW name \in Name, NEW i \in Num
  PROVE  Derived(directory_put(d, c, name, i))
  BY PutType, PutUntouched DEF Derived

(* A new inode for mknod.                                                  *)
LEMMA ChildDerived ==
  ASSUME fs \in Table, NEW d, Derived(d), NEW mode \in Mode
  PROVE  Derived(Child(d, mode)) /\ NextFree(d) \in Num
<1> DEFINE n == NextFree(d)
           a == alloc_inode(d)
           b == [a EXCEPT !.ino[n].mode = mode]
<1>1. d \in Table /\ fs.ibm \subseteq d.ibm
  BY DEF Derived, Untouched
<1>2. n \in Num /\ n \notin fs.ibm
  BY <1>1, NextFreeType
<1>3. Derived(a)
  <2>1. a \in Table /\ Untouched(d, a)
    BY <1>1, AllocType
  <2>2. Untouched(fs, a)
    BY <2>1 DEF Derived, Untouched
  <2> QED
    BY <2>1, <2>2 DEF Derived
<1>4. Child(d, mode) = [b EXCEPT !.ino[n].refs = 1]
  BY DEF Child
<1> HIDE DEF a, n
<1>5. Derived(b)
  BY <1>2, <1>3, FieldDerived
<1> HIDE DEF b
<1>6. Derived([b EXCEPT !.ino[n].refs = 1])
  <2>1. \A j : \A x \in Int : Derived([b EXCEPT !.ino[j].refs = x])
    BY <1>2, <1>5, FieldDerived
  <2>2. \A x \in Int : Derived([b EXCEPT !.ino[n].refs = x])
    BY <2>1
  <2> QED
    BY <2>2
<1> QED
  BY <1>2, <1>4, <1>6 DEF n

(* What storage_write and storage_truncate store are bytes.                *)
LEMMA WrittenType ==
  ASSUME NEW data \in Seq(Byte), NEW off \in Nat, NEW bytes \in Seq(Byte)
  PROVE  Written(data, off, bytes) \in Seq(Byte)
<1> DEFINE w == Written(data, off, bytes)
<1>1. Len(bytes) \in Nat /\ Len(data) \in Nat
  OBVIOUS
<1>2. \A k \in 1 .. off + Len(bytes) : w[k] \in Byte
  <2> TAKE k \in 1 .. off + Len(bytes)
  <2>1. CASE k > off
    <3>1. k - off \in 1 .. Len(bytes)
      BY <1>1, <2>1
    <3>2. w[k] = bytes[k - off]
      BY <2>1 DEF Written
    <3> QED
      BY <3>1, <3>2
  <2>2. CASE k <= off /\ k <= Len(data)
    <3>1. w[k] = data[k] /\ k \in 1 .. Len(data)
      BY <1>1, <2>2 DEF Written
    <3> QED
      BY <3>1
  <2>3. CASE k <= off /\ k > Len(data)
    BY <1>1, <2>3, InodeTableAssumption DEF Written
  <2> QED
    BY <1>1, <2>1, <2>2, <2>3
<1>3. w \in [1 .. off + Len(bytes) -> Byte]
  <2>1. w = [k \in 1 .. off + Len(bytes) |-> w[k]]
    BY DEF Written
  <2> HIDE DEF w
  <2> QED
    BY <1>2, <2>1
<1> HIDE DEF w
<1>4. off + Len(bytes) \in Nat
  BY <1>1
<1>5. w \in Seq(Byte)
  BY <1>3, <1>4
<1> QED
  BY <1>5 DEF w

(* Truncated bytes are bytes.                                              *)
LEMMA ResizedType ==
  ASSUME NEW data \in Seq(Byte), NEW size \in Nat
  PROVE  [k \in 1 .. size |-> IF k <= Len(data) THEN data[k] ELSE 0] \in Seq(Byte)
<1> DEFINE w == [k \in 1 .. size |-> IF k <= Len(data) THEN data[k] ELSE 0]
<1>1. \A k \in 1 .. size : w[k] \in Byte
  <2> TAKE k \in 1 .. size
  <2>1. CASE k <= Len(data)
    <3>1. k \in 1 .. Len(data)
      BY <2>1
    <3> QED
      BY <2>1, <3>1
  <2>2. CASE ~(k <= Len(data))
    BY <2>2, InodeTableAssumption
  <2> QED
    BY <2>1, <2>2
<1>2. w \in [1 .. size -> Byte]
  BY <1>1
<1> HIDE DEF w
<1>3. w \in Seq(Byte)
  BY <1>2
<1> QED
  BY <1>3 DEF w

(* traverse_and_update starts from such a table, with numbers and a path   *)
(* of the right kind.                                                      *)
Starts(q) ==
    \E d, p, old, new :
        /\ Derived(d) /\ p \in Path /\ old \in Inum /\ new \in Num
        /\ Update(q, d, p, old, new)

(* storage_write climbs from a table with its copy.                        *)
LEMMA WriteStarts ==
  ASSUME fs \in Table, NEW q \in Calls, q.call = "write", Write(q)
  PROVE  Starts(q)
<1> DEFINE i == tree_lookup(q.path)
           c == NextFree(fs)
           d == copy_inode(fs, i)
           x == Written(d.ino[c].data, q.off, q.bytes)
<1>1. i \in Inum
  BY DEF Write, IsFile, Exists
<1>2. Derived(d) /\ c \in Num /\ c \notin fs.ibm
  BY <1>1, CopyDerived
<1>3. x \in Seq(Byte)
  <2>1. d.ino[c].data \in Seq(Byte)
    BY <1>2, InodeParts DEF Derived
  <2>2. q.off \in Nat /\ q.bytes \in Seq(Byte)
    BY StorageAssumption
  <2> QED
    BY <2>1, <2>2, WrittenType
<1>4. Update(q, [d EXCEPT !.ino[c].data = x], q.path, inum_field(i), c)
  BY DEF Write
<1>5. q.path \in Path /\ inum_field(i) \in Inum
  BY <1>1, InumNum, StorageAssumption
<1> HIDE DEF c, d, x, i
<1>6. \A y \in Seq(Byte) : Derived([d EXCEPT !.ino[c].data = y])
  BY <1>2, FieldDerived
<1>7. Derived([d EXCEPT !.ino[c].data = x])
  BY <1>3, <1>6
<1> QED
  BY <1>2, <1>4, <1>5, <1>7 DEF Starts

(* So does storage_truncate,                                               *)
LEMMA TruncateStarts ==
  ASSUME fs \in Table, NEW q \in Calls, q.call = "truncate", Truncate(q)
  PROVE  Starts(q)
<1> DEFINE i == tree_lookup(q.path)
           c == NextFree(fs)
           d == copy_inode(fs, i)
           was == d.ino[c].data
           x == [k \in 1 .. q.size |-> IF k <= Len(was) THEN was[k] ELSE 0]
<1>1. i \in Inum
  BY DEF Truncate, IsFile, Exists
<1>2. Derived(d) /\ c \in Num /\ c \notin fs.ibm
  BY <1>1, CopyDerived
<1>3. x \in Seq(Byte)
  <2>1. was \in Seq(Byte)
    BY <1>2, InodeParts DEF Derived
  <2>2. q.size \in Nat
    BY StorageAssumption
  <2> HIDE DEF was
  <2> QED
    BY <2>1, <2>2, ResizedType
<1>4. Update(q, [d EXCEPT !.ino[c].data = x], q.path, inum_field(i), c)
  BY DEF Truncate
<1>5. q.path \in Path /\ inum_field(i) \in Inum
  BY <1>1, InumNum, StorageAssumption
<1> HIDE DEF c, d, x, i, was
<1>6. \A y \in Seq(Byte) : Derived([d EXCEPT !.ino[c].data = y])
  BY <1>2, FieldDerived
<1>7. Derived([d EXCEPT !.ino[c].data = x])
  BY <1>3, <1>6
<1> QED
  BY <1>2, <1>4, <1>5, <1>7 DEF Starts

(* storage_mknod, with a copied directory and a new inode,                 *)
LEMMA MknodStarts ==
  ASSUME fs \in Table, NEW q \in Calls, q.call = "mknod", Mknod(q)
  PROVE  Starts(q)
<1> DEFINE dd == tree_lookup_stop_early(q.path)
           c == NextFree(fs)
           d == copy_inode(fs, dd)
           n == NextFree(d)
           name == basename(q.path)
           e == directory_put(Child(d, q.mode), c, name, n)
<1>1. dd \in Inum
  BY DEF Mknod, CanCreate, IsDir, Exists, tree_lookup_stop_early
<1>2. Derived(d) /\ c \in Num /\ c \notin fs.ibm
  BY <1>1, CopyDerived
<1>3. q.path \in Path /\ q.path # Root /\ q.mode \in Mode
  BY StorageAssumption
<1>4. name \in Name
  <2>1. q.path \in Seq(Name) /\ q.path # <<>>
    BY <1>3, PathFacts DEF Root
  <2> QED
    BY <2>1 DEF basename
<1>5. Update(q, e, dirname(q.path), inum_field(dd), c)
  BY DEF Mknod
<1>6. dirname(q.path) \in Path /\ inum_field(dd) \in Inum
  BY <1>1, <1>3, InumNum, PathFacts
<1> HIDE DEF c, d, dd, name
<1>7. Derived(Child(d, q.mode)) /\ n \in Num
  BY <1>2, <1>3, ChildDerived
<1> HIDE DEF n
<1>8. Derived(e)
  BY <1>2, <1>4, <1>7, PutDerived
<1> HIDE DEF e
<1> QED
  BY <1>2, <1>5, <1>6, <1>8 DEF Starts

(* storage_unlink, with a copy that has a reference less,                  *)
LEMMA UnlinkStarts ==
  ASSUME fs \in Table, NEW q \in Calls, q.call = "unlink", Unlink(q)
  PROVE  Starts(q)
<1> DEFINE i == tree_lookup(q.path)
           c == NextFree(fs)
           d == copy_inode(fs, i)
           x == d.ino[c].refs - 1
<1>1. i \in Inum
  BY DEF Unlink, IsFile, Exists
<1>2. Derived(d) /\ c \in Num /\ c \notin fs.ibm
  BY <1>1, CopyDerived
<1>3. x \in Int
  <2>1. d.ino[c].refs \in Int
    BY <1>2, InodeParts DEF Derived
  <2> QED
    BY <2>1
<1>4. Update(q, [d EXCEPT !.ino[c].refs = x], q.path, i, c)
  BY DEF Unlink
<1>5. q.path \in Path
  BY StorageAssumption
<1> HIDE DEF c, d, x, i
<1>6. \A j : \A y \in Int : Derived([d EXCEPT !.ino[j].refs = y])
  BY <1>2, FieldDerived
<1>7. Derived([d EXCEPT !.ino[c].refs = x])
  BY <1>3, <1>6
<1> QED
  BY <1>1, <1>2, <1>4, <1>5, <1>7 DEF Starts

(* storage_link, which counts up an inode it does not copy,                *)
LEMMA LinkStarts ==
  ASSUME fs \in Table, NEW q \in Calls, q.call = "link", Link(q)
  PROVE  Starts(q)
<1> DEFINE from == tree_lookup(q.path)
           dir == tree_lookup_stop_early(q.to)
           c == NextFree(fs)
           name == basename(q.to)
           d == copy_inode(fs, dir)
           e == directory_put(d, c, name, from)
           x == e.ino[from].refs + 1
<1>1. from \in Inum /\ dir \in Inum /\ from \in Num
  BY InumNum DEF Link, IsFile, CanCreate, IsDir, Exists, tree_lookup_stop_early
<1>2. Derived(d) /\ c \in Num /\ c \notin fs.ibm
  BY <1>1, CopyDerived
<1>3. name \in Name
  <2>1. q.to \in Seq(Name) /\ q.to # <<>>
    BY PathFacts, StorageAssumption DEF Root
  <2> QED
    BY <2>1 DEF basename
<1>4. Update(q, [e EXCEPT !.ino[from].refs = x], dirname(q.path), dir, c)
  BY DEF Link
<1>5. dirname(q.path) \in Path
  BY PathFacts, StorageAssumption
<1> HIDE DEF c, d, dir, from, name
<1>6. Derived(e)
  BY <1>1, <1>2, <1>3, PutDerived
<1>7. x \in Int
  <2>1. e \in Table
    BY <1>6 DEF Derived
  <2> HIDE DEF e
  <2>2. e.ino[from].refs \in Int
    BY <1>1, <2>1, InodeParts
  <2> QED
    BY <2>2
<1> HIDE DEF e, x
<1>8. \A j : \A y \in Int : Derived([e EXCEPT !.ino[j].refs = y])
  BY <1>2, <1>6, FieldDerived
<1>9. Derived([e EXCEPT !.ino[from].refs = x])
  BY <1>7, <1>8
<1> QED
  BY <1>1, <1>2, <1>4, <1>5, <1>9 DEF Starts

(* and storage_chmod.                                                      *)
LEMMA ChmodStarts ==
  ASSUME fs \in Table, NEW q \in Calls, q.call = "chmod", Chmod(q)
  PROVE  Starts(q)
<1> DEFINE i == tree_lookup(q.path)
           c == NextFree(fs)
           d == copy_inode(fs, i)
<1>1. i \in Inum
  BY DEF Chmod, Exists
<1>2. Derived(d) /\ c \in Num /\ c \notin fs.ibm
  BY <1>1, CopyDerived
<1>3. Update(q, [d EXCEPT !.ino[c].mode = q.mode], q.path, i, c)
  BY DEF Chmod
<1>4. q.path \in Path /\ q.mode \in Mode
  BY StorageAssumption
<1> HIDE DEF c, d, i
<1>5. \A y \in Mode : Derived([d EXCEPT !.ino[c].mode = y])
  BY <1>2, FieldDerived
<1>6. Derived([d EXCEPT !.ino[c].mode = q.mode])
  BY <1>4, <1>5
<1> QED
  BY <1>1, <1>2, <1>3, <1>4, <1>6 DEF Starts

(* utimens on inode 0 skips the update.                                    *)
LEMMA SetTimeStarts ==
  ASSUME fs \in Table, NEW q \in Calls, q.call = "set", SetTime(q)
  PROVE  \/ Starts(q)
         \/ /\ job' = [NoJob EXCEPT !.call = "set", !.stage = "finish", !.path = q.path]
            /\ UNCHANGED <<fs, list>>
<1> DEFINE i == tree_lookup(q.path)
           c == NextFree(fs)
           d == copy_inode(fs, i)
<1>1. i \in Inum
  BY DEF SetTime, Exists
<1>2. CASE i # 0
  <2>1. Derived(d) /\ c \in Num /\ c \notin fs.ibm
    BY <1>1, CopyDerived
  <2>2. Update(q, [d EXCEPT !.ino[c].ts = 1], q.path, i, c)
    BY <1>2 DEF SetTime
  <2>3. q.path \in Path
    BY StorageAssumption
  <2> HIDE DEF c, d, i
  <2>4. \A y \in Nat : Derived([d EXCEPT !.ino[c].ts = y])
    BY <2>1, FieldDerived
  <2>5. Derived([d EXCEPT !.ino[c].ts = 1])
    BY <2>4
  <2> QED
    BY <1>1, <2>1, <2>2, <2>3, <2>5 DEF Starts
<1>3. CASE i = 0
  BY <1>3 DEF SetTime
<1> QED
  BY <1>2, <1>3

-----------------------------------------------------------------------------
(* Types.                                                                  *)

Jobs ==
    [call  : Versioned \cup {"", "rename"},
     stage : {"serve", "climb", "push", "finish", "tool", "swap", "swapped"},
     path  : Path, left : Path, old : Inum \cup {NoInode}, new : Inum,
     gc    : Path \cup {NoPath}]

(* The process between two handlers.                                       *)
LEMMA NoJobType == NoJob \in Jobs
  BY PathFacts, NumFacts DEF NoJob, Jobs

(* The parts of TypeOK.                                                    *)
LEMMA JobParts ==
  ASSUME TypeOK
  PROVE  /\ job \in Jobs
         /\ job.call \in Versioned \cup {"", "rename"}
         /\ job.path \in Path /\ job.left \in Path
         /\ job.old \in Int /\ job.new \in Inum /\ job.new \in Int
         /\ job.gc \in Path \cup {NoPath}
         /\ job.stage = "serve" => job.gc = NoPath
<1>1. job \in Jobs
  BY DEF TypeOK, Jobs
<1>2. job.stage = "serve" => job = NoJob
  BY DEF TypeOK
<1>3. job.new \in Inum /\ job.old \in Inum \cup {NoInode}
  BY <1>1 DEF Jobs
<1>4. \A i \in Inum \cup {NoInode} : i \in Int
  BY NumFacts DEF NoInode
<1>5. job.old \in Int /\ job.new \in Int
  BY <1>3, <1>4
<1>6. /\ job.call \in Versioned \cup {"", "rename"}
      /\ job.path \in Path /\ job.left \in Path /\ job.gc \in Path \cup {NoPath}
  BY <1>1 DEF Jobs
<1>7. job.stage = "serve" => job.gc = NoPath
  <2>1. NoJob.gc = NoPath
    BY DEF NoJob
  <2> QED
    BY <1>2, <2>1
<1> QED
  BY <1>1, <1>3, <1>5, <1>6, <1>7

(* A process that has nothing to do, or that is gone.                      *)
LEMMA RestTypes ==
  ASSUME fs' \in Table, RL!TypeOK', job' = NoJob
  PROVE  TypeOK'
  BY NoJobType DEF TypeOK, Jobs, NoJob

(* A handler goes on: no label is at stake past the climb.                 *)
LEMMA StageTypes ==
  ASSUME TypeOK, fs' \in Table, RL!TypeOK', ph' # "off",
         job.stage # "serve",
         NEW st \in {"push", "finish", "tool", "swap", "swapped"}, NEW g \in Path \cup {NoPath},
         job' = [job EXCEPT !.stage = st, !.gc = g]
  PROVE  TypeOK'
  BY DEF TypeOK

(* A handler that climbs keeps the types.                                  *)
LEMMA StartsTypes ==
  ASSUME TypeOK, Serving, NEW q \in Calls, q.call \in Versioned, Starts(q)
  PROVE  TypeOK'
<1>1. PICK d, p, old, new :
        /\ Derived(d) /\ p \in Path /\ old \in Inum /\ new \in Num
        /\ Update(q, d, p, old, new)
  BY DEF Starts
<1>2. fs' \in Table /\ UNCHANGED list
  BY <1>1 DEF Update, Derived
<1>3. RL!TypeOK'
  BY <1>2 DEF TypeOK, RL!TypeOK, list
<1>4. q.path \in Path /\ Clip(q.call, q.path) \in Path
  BY StorageAssumption
<1>5. inum_field(new) \in Inum
  BY <1>1, FieldNum
<1>6. job' = [call |-> q.call, stage |-> "climb", path |-> q.path,
              left |-> p, old |-> old, new |-> inum_field(new), gc |-> NoPath]
  BY <1>1 DEF Update
<1>7. /\ job'.call = q.call /\ job'.stage = "climb" /\ job'.path = q.path
      /\ job' \in Jobs
  BY <1>1, <1>4, <1>5, <1>6 DEF Jobs
<1>8. ph' = "idle"
  BY <1>2 DEF Serving, list
<1> QED
  BY <1>2, <1>3, <1>4, <1>7, <1>8 DEF TypeOK, Jobs

(* Rename keeps the types.                                                 *)
LEMMA RenameTypes ==
  ASSUME TypeOK, Serving, NEW q \in Calls, q.call = "rename", Rename(q)
  PROVE  TypeOK'
<1> DEFINE dir == tree_lookup_stop_early(q.to)
           old == tree_lookup_stop_early(q.path)
           i == tree_lookup(q.path)
           name == basename(q.to)
<1>1. i \in Num /\ dir \in Num /\ old \in Inum
  BY InumNum DEF Rename, IsDir, Exists, tree_lookup_stop_early
<1>2. name \in Name
  <2>1. q.to \in Seq(Name) /\ q.to # <<>>
    BY PathFacts, StorageAssumption DEF Root
  <2> QED
    BY <2>1 DEF basename
<1>3. fs' = directory_put(fs, dir, name, i)
  BY DEF Rename
<1>4. job' = [NoJob EXCEPT !.call = "rename", !.stage = "finish", !.path = q.path, !.old = old]
  BY DEF Rename
<1>5. UNCHANGED list /\ q.path \in Path
  BY StorageAssumption DEF Rename
<1> HIDE DEF dir, old, i, name
<1>6. fs' \in Table
  BY <1>1, <1>2, <1>3, PutType DEF TypeOK
<1>7. RL!TypeOK' /\ ph' = "idle"
  BY <1>5 DEF TypeOK, RL!TypeOK, list, Serving
<1>8. job' \in Jobs /\ job'.stage = "finish"
  BY <1>1, <1>4, <1>5, NoJobType DEF Jobs, NoJob
<1> QED
  BY <1>6, <1>7, <1>8 DEF TypeOK, Jobs

(* Every request keeps the types.                                          *)
LEMMA RequestTypes ==
  ASSUME TypeOK, Request
  PROVE  TypeOK'
<1>1. PICK q \in Calls : Handle(q)
  BY DEF Request
<1>2. Serving /\ fs \in Table
  BY DEF Request, TypeOK
<1>3. CASE q.call \in Versioned /\ Starts(q)
  BY <1>2, <1>3, StartsTypes
<1>4. CASE q.call = "mknod" /\ MknodAborts(q)
  <2> DEFINE dd == tree_lookup_stop_early(q.path)
  <2>1. dd \in Num
    BY <1>4, InumNum DEF MknodAborts, CanCreate, IsDir, Exists, tree_lookup_stop_early
  <2>2. fs' = copy_inode(fs, dd)
    BY <1>4 DEF MknodAborts
  <2> HIDE DEF dd
  <2>3. fs' \in Table
    BY <1>2, <2>1, <2>2, CopyType
  <2>4. job' = NoJob
    BY <1>2, <1>4 DEF MknodAborts, Serving, TypeOK
  <2>5. RL!TypeOK'
    BY <1>2, <1>4 DEF MknodAborts, Serving, TypeOK, RL!TypeOK
  <2> QED
    BY <2>3, <2>4, <2>5, RestTypes
<1>5. CASE q.call = "rename" /\ Rename(q)
  BY <1>2, <1>5, RenameTypes
<1>6. CASE /\ q.call = "set" /\ UNCHANGED <<fs, list>>
           /\ job' = [NoJob EXCEPT !.call = "set", !.stage = "finish", !.path = q.path]
  <2>1. q.path \in Path
    BY StorageAssumption
  <2>2. job' \in Jobs /\ job'.stage = "finish"
    BY <1>6, <2>1, NoJobType DEF Jobs, NoJob, Versioned
  <2>3. RL!TypeOK' /\ ph' = "idle" /\ fs' \in Table
    BY <1>2, <1>6 DEF TypeOK, RL!TypeOK, list, Serving
  <2> QED
    BY <2>2, <2>3 DEF TypeOK, Jobs
<1> QED
  BY <1>1, <1>2, <1>3, <1>4, <1>5, <1>6, WriteStarts, TruncateStarts, MknodStarts,
     UnlinkStarts, LinkStarts, SetTimeStarts, ChmodStarts DEF Handle, Versioned

(* One directory of the climb keeps the types.                             *)
LEMMA ClimbTypes ==
  ASSUME TypeOK, Climb
  PROVE  TypeOK'
<1> DEFINE dir == tree_lookup_stop_early(job.left)
           c == NextFree(fs)
<1>1. RL!TypeOK' /\ ph' = "idle"
  BY DEF Climb, Climbing, TypeOK, RL!TypeOK, list
<1>2. CASE dir < 0
  <2>1. fs' \in Table
    BY <1>2 DEF Climb, TypeOK
  <2>2. job' = GivenUp
    BY <1>2 DEF Climb
  <2>3. CASE job.call = "set"
    <3>1. job' = [job EXCEPT !.stage = "finish"]
      BY <2>2, <2>3 DEF GivenUp
    <3> QED
      BY <1>1, <2>1, <3>1 DEF TypeOK, Climb, Climbing
  <2>4. CASE job.call # "set"
    <3>1. job' = NoJob
      BY <2>2, <2>4 DEF GivenUp
    <3> QED
      BY <1>1, <2>1, <3>1, RestTypes
  <2> QED
    BY <2>3, <2>4
<1>3. CASE ~(dir < 0)
  <2>1. /\ dir \in Inum /\ fs' = CowDir(dir)
        /\ job' = [job EXCEPT !.left = StepUp, !.old = inum_field(dir), !.new = inum_field(c)]
    BY <1>3 DEF Climb
  <2>2. c \in Num /\ dir \in Num /\ inum_field(c) \in Inum /\ inum_field(dir) \in Inum
    BY <2>1, FieldNum, InumNum, NextFreeType DEF TypeOK
  <2>3. copy_inode(fs, dir) \in Table
    BY <2>2, CopyType DEF TypeOK
  <2>4. job.new \in Int
    BY JobParts
  <2>5. fs' = replace_in_entries(copy_inode(fs, dir), c, job.old, job.new)
    BY <2>1 DEF CowDir
  <2>6. StepUp \in Path
    BY PathFacts DEF StepUp, TypeOK
  <2> HIDE DEF dir, c
  <2>7. fs' \in Table
    BY <2>2, <2>3, <2>4, <2>5, ReplaceType
  <2> QED
    BY <1>1, <2>1, <2>2, <2>6, <2>7 DEF TypeOK, Climb, Climbing
<1> QED
  BY <1>2, <1>3

(* So does a climb that ends in the assertion.                             *)
LEMMA ClimbAbortsTypes ==
  ASSUME TypeOK, ClimbAborts
  PROVE  TypeOK'
<1> DEFINE dir == tree_lookup_stop_early(job.left)
<1>1. dir \in Num /\ fs' = copy_inode(fs, dir) /\ job' = NoJob
  BY InumNum DEF ClimbAborts
<1>2. RL!TypeOK'
  BY DEF ClimbAborts, Climbing, TypeOK, RL!TypeOK
<1> HIDE DEF dir
<1>3. fs' \in Table
  BY <1>1, CopyType DEF TypeOK
<1> QED
  BY <1>1, <1>2, <1>3, RestTypes

(* The version that is entered has a label.                                *)
LEMMA AddRootTypes ==
  ASSUME TypeOK, AddRoot
  PROVE  TypeOK'
<1> DEFINE r == job.new
           op == [call |-> job.call, path |-> Clip(job.call, job.path)]
<1>1. RL!AddRoot(r, op) /\ job' = [job EXCEPT !.stage = "push", !.gc = GcTarget]
  BY DEF AddRoot
<1>2. r \in Int /\ op \in Labels
  <2>1. job.call \in Versioned /\ Clip(job.call, job.path) \in Path
    BY DEF AddRoot, TypeOK
  <2> QED
    BY <2>1, JobParts DEF Labels
<1> HIDE DEF r, op
<1>3. RL!TypeOK'
  BY <1>1, <1>2, ListTypes DEF TypeOK
<1>4. ph' # "off" /\ fs' \in Table /\ job.stage # "serve"
  BY <1>1 DEF AddRoot, TypeOK, RL!AddRoot
<1>5. GcTarget \in Path \cup {NoPath}
  <2>1. rl[Oldest - 1].op \in Labels
    <3>1. rl[Oldest - 1] \in RL!cow_version
      BY SlotFacts DEF TypeOK, RL!TypeOK
    <3> QED
      BY <3>1 DEF RL!cow_version
  <2>2. /\ rl[Oldest - 1].op.path \in Path
        /\ dirname(rl[Oldest - 1].op.path) \in Path
    BY <2>1, PathFacts DEF Labels
  <2> QED
    BY <2>2 DEF GcTarget
<1> QED
  BY <1>1, <1>3, <1>4, <1>5, StageTypes

(* One inode of the collection keeps the types.                            *)
LEMMA FreeStepTypes ==
  ASSUME TypeOK, FreeStep
  PROVE  TypeOK'
<1> DEFINE i == tree_lookup_hlp(fs, job.gc, FreedRoot)
<1>1. RL!TypeOK' /\ ph' = "gc" /\ job.stage' = job.stage
  BY DEF FreeStep, TypeOK, RL!TypeOK, list
<1>2. job.gc \in Path /\ dirname(job.gc) \in Path
  BY PathFacts, JobParts DEF FreeStep
<1>3. CASE i <= 0
  <2>1. fs' = fs /\ job' = [job EXCEPT !.gc = NoPath]
    BY <1>3 DEF FreeStep
  <2>2. job.stage # "serve" /\ job \in Jobs
    BY JobParts DEF FreeStep
  <2> QED
    BY <1>1, <2>1, <2>2 DEF TypeOK, Jobs
<1>4. CASE ~(i <= 0)
  <2>1. fs' = free_inode(fs, i)
    BY <1>4 DEF FreeStep
  <2>2. job' = [job EXCEPT !.gc = IF job.gc = Root THEN NoPath ELSE dirname(job.gc)]
    BY <1>4 DEF FreeStep
  <2> HIDE DEF i
  <2>3. fs' \in Table
    BY <2>1, FreeType DEF TypeOK
  <2>4. (IF job.gc = Root THEN NoPath ELSE dirname(job.gc)) \in Path \cup {NoPath}
    BY <1>2
  <2>5. job.stage # "serve" /\ job \in Jobs
    BY JobParts DEF FreeStep
  <2> QED
    BY <1>1, <2>2, <2>3, <2>4, <2>5 DEF TypeOK, Jobs
<1> QED
  BY <1>3, <1>4

(* What unlink, rename and utimens do last keeps the types.                *)
LEMMA FinishTypes ==
  ASSUME TypeOK, Finish
  PROVE  TypeOK'
<1>1. job' = NoJob /\ UNCHANGED <<rl, ii, entry>> /\ ph = "idle"
  BY DEF Finish, Finishing
<1>2. ASSUME NEW dir, NEW name, Delete(dir, name)
      PROVE  fs' \in Table /\ ph' \in {"idle", "off"}
  <2>1. CASE dir < 0
    BY <1>1, <1>2, <2>1 DEF Delete, TypeOK
  <2>2. CASE ~(dir < 0)
    <3>1. fs' = directory_delete(fs, dir, name) /\ ph' \in {"idle", "off"}
      BY <1>1, <1>2, <2>2 DEF Delete
    <3> QED
      BY <3>1, DeleteType DEF TypeOK
  <2> QED
    BY <2>1, <2>2
<1>3. CASE FinishUnlink \/ FinishRename
  <2>1. \E dir, name : Delete(dir, name)
    BY <1>3 DEF FinishUnlink, FinishRename
  <2>2. fs' \in Table /\ ph' \in {"idle", "off"}
    BY <1>2, <2>1
  <2>3. RL!TypeOK'
    BY <1>1, <2>2 DEF TypeOK, RL!TypeOK
  <2> QED
    BY <1>1, <2>2, <2>3, RestTypes
<1>4. CASE FinishSetTime
  <2> DEFINE dir == tree_lookup_stop_early(job.path)
  <2>1. fs' = (IF dir > 0 THEN [fs EXCEPT !.ino[dir].ts = 1] ELSE fs) /\ ph' = ph
    BY <1>4 DEF FinishSetTime
  <2> HIDE DEF dir
  <2>2. \A x \in Nat : [fs EXCEPT !.ino[dir].ts = x] \in Table
    BY FieldTypes DEF TypeOK
  <2>3. [fs EXCEPT !.ino[dir].ts = 1] \in Table /\ fs \in Table
    BY <2>2 DEF TypeOK
  <2>4. fs' \in Table
    BY <2>1, <2>3
  <2>5. RL!TypeOK'
    BY <1>1, <2>1 DEF TypeOK, RL!TypeOK
  <2> QED
    BY <1>1, <2>4, <2>5, RestTypes
<1> QED
  BY <1>3, <1>4 DEF Finish

(* The stores of a push.                                                   *)
LEMMA PushTypes ==
  ASSUME TypeOK, Push
  PROVE  TypeOK'
<1>1. fs' \in Table
  BY DEF Push, TypeOK
<1>2. RL!TypeOK'
  BY ListTypes DEF Push, Store, StoreLast, TypeOK
<1>3. CASE Store /\ UNCHANGED <<fs, job>>
  <2>1. ph' # "off"
    BY <1>3 DEF Store, RL!Shift, RL!StoreRnum, RL!StoreVnum
  <2> QED
    BY <1>1, <1>2, <1>3, <2>1 DEF TypeOK
<1>4. CASE StoreLast
  <2>1. CASE job' = NoJob
    BY <1>1, <1>2, <2>1, RestTypes
  <2>2. CASE /\ ph' # "off"
             /\ \/ job.stage = "swap" /\ job' = [job EXCEPT !.stage = "swapped"]
                \/ /\ job.call \in {"unlink", "set"}
                   /\ job' = [job EXCEPT !.stage = "finish"]
    <3>1. job.stage # "serve"
      <4>1. job.stage = "serve" => job.call = ""
        <5>1. NoJob.call = ""
          BY DEF NoJob
        <5> QED
          BY <5>1 DEF TypeOK
      <4> QED
        BY <2>2, <4>1
    <3>2. job \in Jobs
      BY JobParts
    <3>3. job' \in Jobs /\ job'.stage \in {"swapped", "finish"}
      BY <2>2, <3>2 DEF Jobs
    <3> QED
      BY <1>1, <1>2, <2>2, <3>3 DEF TypeOK, Jobs
  <2>3. RL!StoreOp
    BY <1>4 DEF StoreLast
  <2>4. \/ job' = NoJob
        \/ /\ ph' # "off"
           /\ \/ job.stage = "swap" /\ job' = [job EXCEPT !.stage = "swapped"]
              \/ /\ job.call \in {"unlink", "set"}
                 /\ job' = [job EXCEPT !.stage = "finish"]
    BY <1>4 DEF StoreLast
  <2> QED
    BY <2>1, <2>2, <2>4
<1> QED
  BY <1>3, <1>4 DEF Push

(* Mounting, the tool and the ways to end.                                 *)
LEMMA ProcessTypes ==
  ASSUME TypeOK,
         \/ Mount \/ Unmount \/ Tool \/ ToolSwap \/ ToolExit
         \/ Collected \/ CollectAborts \/ Kill
  PROVE  TypeOK'
<1>1. RL!TypeOK /\ fs \in Table /\ fs' \in Table
  BY DEF TypeOK, Mount, Unmount, Tool, ToolSwap, ToolExit, Collected, CollectAborts, Kill
<1>2. RL!TypeOK'
  BY <1>1, ListTypes DEF Mount, Unmount, Tool, ToolSwap, ToolExit, Collected, CollectAborts, Kill
<1>3. CASE Unmount \/ ToolExit \/ CollectAborts \/ Kill
  <2>1. job' = NoJob
    BY <1>3 DEF Unmount, ToolExit, CollectAborts, Kill, TypeOK
  <2> QED
    BY <1>1, <1>2, <2>1, RestTypes
<1>4. CASE Mount \/ Collected
  <2>1. ph' # "off" /\ job' = job
    BY <1>4 DEF Mount, Collected, RL!Start, RL!Collected
  <2> QED
    BY <1>1, <1>2, <2>1 DEF TypeOK
<1>5. CASE Tool
  <2>1. job' = [NoJob EXCEPT !.stage = "tool"] /\ ph' # "off"
    BY <1>5 DEF Tool, RL!Start
  <2>2. job' \in Jobs /\ job'.stage = "tool"
    BY <2>1, NoJobType DEF Jobs, NoJob
  <2> QED
    BY <1>1, <1>2, <2>1, <2>2 DEF TypeOK, Jobs
<1>6. CASE ToolSwap
  <2>1. job' = [job EXCEPT !.stage = "swap"] /\ ph' # "off"
    BY <1>6 DEF ToolSwap, RL!SwapRoot
  <2>2. job' \in Jobs /\ job'.stage = "swap"
    BY <2>1, JobParts DEF Jobs
  <2> QED
    BY <1>1, <1>2, <2>1, <2>2 DEF TypeOK, Jobs
<1> QED
  BY <1>3, <1>4, <1>5, <1>6

(* A new image has the types.                                              *)
LEMMA StorageInit == Init => TypeOK
<1> SUFFICES ASSUME Init PROVE TypeOK
  OBVIOUS
<1> DEFINE n == [Zeroed EXCEPT !.mode = "dir"]
<1>1. Zeroed \in inode /\ n \in inode
  <2>1. <<>> \in Seq(Byte) /\ <<>> \in Seq(ddirent) /\ "none" \in Mode /\ "dir" \in Mode
    BY DEF Mode
  <2>2. Zeroed \in inode
    BY <2>1 DEF Zeroed, inode
  <2>3. n \in inode
    BY <2>1, <2>2 DEF inode
  <2> QED
    BY <2>2, <2>3
<1>2. fs \in Table
  <2>1. fs = [ibm |-> {0},
              ino |-> [i \in Inum \cup {NoInode} |-> IF i = 0 THEN n ELSE Zeroed]]
    BY DEF Init
  <2> HIDE DEF n
  <2> QED
    BY <1>1, <2>1, NumFacts DEF Table
<1>3. NoLabel \in Labels /\ [call |-> "init", path |-> Root] \in Labels
  BY PathFacts DEF NoLabel, Labels
<1>4. RL!TypeOK
  <2>1. RL!ZeroSlot \in RL!cow_version
    BY <1>3 DEF RL!ZeroSlot, RL!cow_version
  <2>2. [rnum |-> 0, vnum |-> 1, op |-> [call |-> "init", path |-> Root]] \in RL!cow_version
    BY <1>3 DEF RL!cow_version
  <2>3. rl \in [RL!Slot -> RL!cow_version]
    BY <2>1, <2>2 DEF Init
  <2>4. entry \in [rnum : Int, op : Labels]
    BY <1>3 DEF Init, RL!NoEntry
  <2> QED
    BY <2>3, <2>4, SlotFacts DEF Init, RL!TypeOK
<1>5. job = NoJob /\ NoJob.stage = "serve"
  BY DEF Init, NoJob
<1> QED
  BY <1>2, <1>4, <1>5, NoJobType DEF TypeOK, Jobs

(* Every action keeps the types.                                           *)
LEMMA StorageStep == TypeOK /\ [Next]_vars => TypeOK'
<1> SUFFICES ASSUME TypeOK, [Next]_vars PROVE TypeOK'
  OBVIOUS
<1>1. CASE UNCHANGED vars
  BY <1>1 DEF vars, list, TypeOK, RL!TypeOK
<1> QED
  BY <1>1, RequestTypes, ClimbTypes, ClimbAbortsTypes, AddRootTypes, FreeStepTypes,
     PushTypes, FinishTypes, ProcessTypes DEF Next, Step

(* Every table that a sequence of requests, rollbacks, deaths and mounts   *)
(* leaves behind is a table (each freed or overwritten slot included), a   *)
(* process that does not run holds no handler, and a climbing one has a    *)
(* label for its version.                                                  *)
THEOREM StorageTypes == Spec => []TypeOK
<1>1. Init => TypeOK
  BY StorageInit
<1>2. TypeOK /\ [Next]_vars => TypeOK'
  BY StorageStep
<1> QED
  BY <1>1, <1>2, PTL DEF Spec

-----------------------------------------------------------------------------
(* Copy on write, inode by inode.                                          *)

(* The start of a handler that climbs touches no allocated inode.          *)
LEMMA StartsUntouched ==
  ASSUME NEW q, Starts(q)
  PROVE  Untouched(fs, fs')
  BY DEF Starts, Derived, Update

(* What a step does to the table.                                          *)
LEMMA StepKinds ==
  ASSUME TypeOK, [Next]_vars
  PROVE  \/ Untouched(fs, fs')
         \/ FreeStep
         \/ job.stage = "finish"
         \/ job'.call = "rename"
<1>1. fs \in Table
  BY DEF TypeOK
<1>2. fs' = fs => Untouched(fs, fs')
  BY <1>1, UntouchedTable
<1>3. CASE Request
  <2>1. PICK q \in Calls : Handle(q)
    BY <1>3 DEF Request
  <2>2. CASE Starts(q)
    BY <2>2, StartsUntouched
  <2>3. CASE MknodAborts(q)
    <3> DEFINE dd == tree_lookup_stop_early(q.path)
    <3>1. dd \in Num
      BY <2>3, InumNum DEF MknodAborts, CanCreate, IsDir, Exists, tree_lookup_stop_early
    <3>2. fs' = copy_inode(fs, dd)
      BY <2>3 DEF MknodAborts
    <3> HIDE DEF dd
    <3> QED
      BY <1>1, <3>1, <3>2, CopyType
  <2>4. CASE Rename(q)
    <3>1. job'.call = "rename"
      BY <2>4 DEF Rename, NoJob
    <3> QED
      BY <3>1
  <2> QED
    BY <1>1, <1>2, <2>1, <2>2, <2>3, <2>4, WriteStarts, TruncateStarts, MknodStarts,
       UnlinkStarts, LinkStarts, SetTimeStarts, ChmodStarts DEF Handle
<1>4. CASE Climb
  <2> DEFINE dir == tree_lookup_stop_early(job.left)
             c == NextFree(fs)
  <2>1. CASE dir < 0
    BY <1>2, <1>4, <2>1 DEF Climb
  <2>2. CASE ~(dir < 0)
    <3>1. dir \in Inum /\ fs' = replace_in_entries(copy_inode(fs, dir), c, job.old, job.new)
      BY <1>4, <2>2 DEF Climb, CowDir
    <3>2. /\ copy_inode(fs, dir) \in Table /\ Untouched(fs, copy_inode(fs, dir))
          /\ c \in Num /\ c \notin fs.ibm
      BY <1>1, <3>1, CopyDerived DEF Derived
    <3> HIDE DEF dir, c
    <3> QED
      BY <1>1, <3>1, <3>2, ReplaceUntouched
  <2> QED
    BY <2>1, <2>2
<1>5. CASE ClimbAborts
  <2> DEFINE dir == tree_lookup_stop_early(job.left)
  <2>1. dir \in Num /\ fs' = copy_inode(fs, dir)
    BY <1>5, InumNum DEF ClimbAborts
  <2> HIDE DEF dir
  <2> QED
    BY <1>1, <2>1, CopyType
<1>6. CASE Finish
  BY <1>6 DEF Finish, Finishing
<1>7. CASE \/ Mount \/ Unmount \/ Tool \/ ToolSwap \/ ToolExit
           \/ AddRoot \/ Collected \/ CollectAborts \/ Push \/ Kill
           \/ UNCHANGED vars
  BY <1>2, <1>7 DEF Mount, Unmount, Tool, ToolSwap, ToolExit, AddRoot, Collected,
     CollectAborts, Push, Kill, vars
<1> QED
  BY <1>3, <1>4, <1>5, <1>6, <1>7 DEF Next, Step

(* An untouched inode keeps its content.                                   *)
LEMMA UntouchedContent ==
  ASSUME NEW d, NEW e, Untouched(d, e), NEW i \in d.ibm
  PROVE  Content(e.ino[i]) = Content(d.ino[i])
  BY DEF Untouched, Content

(* Freeing an inode leaves the others alone.                               *)
LEMMA FreeOthers ==
  ASSUME NEW d \in Table, NEW i \in Inum
  PROVE  /\ free_inode(d, i).ibm = d.ibm \ {i}
         /\ \A j \in Num \ {i} : free_inode(d, i).ino[j] = d.ino[j]
  BY TableParts DEF free_inode

(* A step of the collection frees one inode or none.                       *)
LEMMA FreeStepFrees ==
  ASSUME TypeOK, FreeStep
  PROVE  fs' = fs \/ \E i \in Inum : fs' = free_inode(fs, i)
<1> DEFINE i == tree_lookup_hlp(fs, job.gc, FreedRoot)
<1>1. CASE i <= 0
  BY <1>1 DEF FreeStep
<1>2. CASE ~(i <= 0)
  BY <1>2 DEF FreeStep
<1> QED
  BY <1>1, <1>2

(* Every action writes to copies, but for the three kinds of step.         *)
LEMMA StepCopies ==
  ASSUME TypeOK, [Next]_vars, NEW i \in fs.ibm
  PROVE  \/ Content(fs'.ino[i]) = Content(fs.ino[i])
         \/ i \notin fs'.ibm
         \/ job.stage = "finish"
         \/ job'.call = "rename"
<1>1. CASE Untouched(fs, fs')
  BY <1>1, UntouchedContent
<1>2. CASE FreeStep
  <2>1. fs \in Table /\ i \in Num
    BY TableParts DEF TypeOK, Num
  <2>2. CASE \E j \in Inum : fs' = free_inode(fs, j)
    <3>1. PICK j \in Inum : fs' = free_inode(fs, j)
      BY <2>2
    <3>2. i # j => fs'.ino[i] = fs.ino[i]
      BY <2>1, <3>1, FreeOthers
    <3>3. i = j => i \notin fs'.ibm
      BY <2>1, <3>1, FreeOthers
    <3> QED
      BY <3>2, <3>3
  <2> QED
    BY <1>2, <2>2, FreeStepFrees
<1> QED
  BY <1>1, <1>2, StepKinds

(* Whatever the table and the requests, an allocated inode is written to   *)
(* only by a rename, by what unlink and utimens do after their commit, or  *)
(* when it is freed: every other store of a handler goes to a copy.        *)
THEOREM StorageCopiesFirst == Spec => CopiesFirst
<1> DEFINE A == \A i \in fs.ibm :
                  \/ Content(fs'.ino[i]) = Content(fs.ino[i])
                  \/ i \notin fs'.ibm
                  \/ job.stage = "finish"
                  \/ job'.call = "rename"
<1>1. TypeOK /\ [Next]_vars => [A]_vars
  BY StepCopies
<1>2. Spec => []TypeOK
  BY StorageTypes
<1>3. []TypeOK /\ [][Next]_vars => [][A]_vars
  BY <1>1, PTL
<1> QED
  BY <1>2, <1>3, PTL DEF Spec, CopiesFirst

-----------------------------------------------------------------------------
(* From inodes to versions.  A path is looked up in the directory of its   *)
(* parent, so two tables that agree on every inode a version reads give    *)
(* the same answer for every path: a shortest path with two answers would  *)
(* have a parent with one.                                                 *)

(* A lookup in a directory answers a number.                               *)
LEMMA DirectoryLookupType ==
  ASSUME NEW d \in Table, NEW i \in Num, NEW name
  PROVE  directory_lookup(d.ino[i], name) \in Int
<1> DEFINE n == d.ino[i]
           H == Hits(n, name)
<1>1. n.ent \in Seq(ddirent)
  BY InodeParts
<1>2. H \subseteq DOMAIN n.ent /\ H \in SUBSET Nat
  BY <1>1 DEF Hits
<1>3. CASE H = {}
  BY <1>3 DEF directory_lookup, ENOENT
<1>4. CASE H # {}
  <2> HIDE DEF H
  <2>1. \E m \in H : \A y \in H : m <= y
    BY <1>2, <1>4, NatMin
  <2>2. Least(H) \in H
    BY <2>1 DEF Least
  <2>3. n.ent[Least(H)] \in ddirent
    <3>1. \A s \in Seq(ddirent) : \A k \in DOMAIN s : s[k] \in ddirent
      OBVIOUS
    <3>2. Least(H) \in DOMAIN n.ent
      BY <1>2, <2>2
    <3> HIDE DEF n
    <3> QED
      BY <1>1, <3>1, <3>2
  <2>4. n.ent[Least(H)].inum \in Int
    BY <2>3 DEF ddirent
  <2>5. directory_lookup(n, name) = n.ent[Least(H)].inum
    BY <1>4 DEF directory_lookup, H
  <2> QED
    BY <2>4, <2>5
<1> QED
  BY <1>3, <1>4

(* Inodes with the same content answer a lookup in the same way.           *)
LEMMA SameEntries ==
  ASSUME NEW n, NEW m, Content(n) = Content(m), NEW name
  PROVE  directory_lookup(n, name) = directory_lookup(m, name)
<1>1. n.ent = m.ent
  BY DEF Content
<1> QED
  BY <1>1 DEF directory_lookup, Hits

(* e agrees with d on the inodes S, which hold all that root r reads in d. *)
Agree(d, e, r, S) ==
    /\ Reach(d, r) \subseteq S
    /\ S \subseteq Inum
    /\ \A i \in S : Content(e.ino[i]) = Content(d.ino[i])

(* Tables that agree on the inodes read answer the same for every path.    *)
LEMMA SameLookup ==
  ASSUME NEW d \in Table, NEW e \in Table, NEW r \in Int, NEW S, Agree(d, e, r, S)
  PROVE  \A p \in Path : Lookup(e, p, r) = Lookup(d, p, r) /\ Lookup(d, p, r) \in Int
<1> DEFINE Ok(p) == Lookup(e, p, r) = Lookup(d, p, r) /\ Lookup(d, p, r) \in Int
           Bad   == {p \in Path : ~Ok(p)}
           Lens  == {Len(p) : p \in Bad}
<1>1. SUFFICES ASSUME Bad # {} PROVE FALSE
  OBVIOUS
<1>2. PICK p \in Bad : \A q \in Bad : Len(p) <= Len(q)
  <2>1. Lens \in SUBSET Nat /\ Lens # {}
    BY <1>1, PathFacts
  <2> HIDE DEF Lens
  <2>2. PICK m \in Lens : \A n \in Lens : m <= n
    BY <2>1, NatMin
  <2> QED
    BY <2>2 DEF Lens
<1>3. p \in Path /\ p \in Seq(Name) /\ ~Ok(p)
  BY <1>2, PathFacts
<1>4. p # Root
  <2>1. ASSUME p = Root PROVE FALSE
    <3>1. Lookup(e, p, r) = r /\ Lookup(d, p, r) = r
      BY <2>1, LookupRoot DEF Lookup, Root
    <3> QED
      BY <1>3, <3>1
  <2> QED
    BY <2>1
<1> DEFINE q == dirname(p)
           up == Lookup(d, q, r)
<1>5. q \in Path /\ q \in Seq(Name) /\ q = SubSeq(p, 1, Len(p) - 1) /\ Len(q) < Len(p)
  BY <1>3, <1>4, PathFacts DEF dirname, Root
<1>6. Ok(q)
  <2>1. ~(Len(p) <= Len(q))
    BY <1>3, <1>5
  <2> HIDE DEF Ok, q
  <2>2. q \notin Bad
    BY <1>2, <2>1
  <2> QED
    BY <1>5, <2>2
<1> HIDE DEF q
<1>7. /\ Lookup(d, p, r) = IF up < 0 THEN up ELSE directory_lookup(d.ino[up], p[Len(p)])
      /\ Lookup(e, p, r) = IF up < 0 THEN up ELSE directory_lookup(e.ino[up], p[Len(p)])
  <2>1. p # <<>>
    BY <1>4 DEF Root
  <2>2. Lookup(d, p, r) = IF Lookup(d, q, r) < 0 THEN Lookup(d, q, r)
                          ELSE directory_lookup(d.ino[Lookup(d, q, r)], p[Len(p)])
    BY <1>3, <1>5, <2>1, LookupStep DEF Lookup
  <2>3. Lookup(e, p, r) = IF Lookup(e, q, r) < 0 THEN Lookup(e, q, r)
                          ELSE directory_lookup(e.ino[Lookup(e, q, r)], p[Len(p)])
    BY <1>3, <1>5, <2>1, LookupStep DEF Lookup
  <2> QED
    BY <1>6, <2>2, <2>3
<1>8. CASE up < 0
  BY <1>3, <1>6, <1>7, <1>8
<1>9. CASE ~(up < 0)
  <2>1. up >= 0
    BY <1>6, <1>9
  <2>2. up \in S /\ up \in Num
    BY <1>5, <2>1 DEF Agree, Reach, Present, Num
  <2>3. Content(e.ino[up]) = Content(d.ino[up])
    BY <2>2 DEF Agree
  <2> HIDE DEF up
  <2>4. directory_lookup(e.ino[up], p[Len(p)]) = directory_lookup(d.ino[up], p[Len(p)])
    BY <2>3, SameEntries
  <2>5. directory_lookup(d.ino[up], p[Len(p)]) \in Int
    BY <2>2, DirectoryLookupType
  <2> QED
    BY <1>3, <1>7, <1>9, <2>4, <2>5
<1> QED
  BY <1>8, <1>9

(* Tables that agree on the inodes read show the same.                     *)
LEMMA SameView ==
  ASSUME NEW d \in Table, NEW e \in Table, NEW r \in Int, NEW S, Agree(d, e, r, S)
  PROVE  View(e, r) = View(d, r)
<1>1. \A p \in Path : Lookup(e, p, r) = Lookup(d, p, r)
  BY SameLookup
<1>2. Present(e, r) = Present(d, r)
  BY <1>1 DEF Present
<1>3. \A p \in Present(d, r) : Stat(e, p, r) = Stat(d, p, r)
  <2> TAKE p \in Present(d, r)
  <2> DEFINE i == Lookup(d, p, r)
  <2>1. i \in S /\ Lookup(e, p, r) = i
    BY <1>1 DEF Agree, Reach, Present
  <2> HIDE DEF i
  <2>2. Content(e.ino[i]) = Content(d.ino[i])
    BY <2>1 DEF Agree
  <2>3. /\ e.ino[i].mode = d.ino[i].mode
        /\ e.ino[i].ts   = d.ino[i].ts
        /\ e.ino[i].data = d.ino[i].data
    BY <2>2 DEF Content
  <2> QED
    BY <2>1, <2>3 DEF Stat, i
<1> QED
  BY <1>2, <1>3 DEF View

(* A version that is kept looks the same after a step that leaves the      *)
(* allocated inodes alone, because it reads no other.                      *)
LEMMA KeptView ==
  ASSUME TypeOK, TypeOK', NoDangling, NEW s \in Kept, Untouched(fs, fs')
  PROVE  View(fs', rl[s].rnum) = View(fs, rl[s].rnum)
<1> DEFINE r == rl[s].rnum
<1>1. fs \in Table /\ fs' \in Table
  BY DEF TypeOK
<1>2. r \in Int
  <2>1. rl[s] \in RL!cow_version
    BY DEF TypeOK, RL!TypeOK, Kept
  <2> QED
    BY <2>1 DEF RL!cow_version
<1>3. Agree(fs, fs', r, fs.ibm)
  <2>1. Reach(fs, r) \subseteq fs.ibm
    BY DEF NoDangling
  <2>2. \A i \in fs.ibm : Content(fs'.ino[i]) = Content(fs.ino[i])
    BY UntouchedContent
  <2>3. fs.ibm \subseteq Inum
    BY <1>1, TableParts
  <2> QED
    BY <2>1, <2>2, <2>3 DEF Agree
<1> HIDE DEF r
<1> QED
  BY <1>1, <1>2, <1>3, SameView DEF r

(* Nor does the collector change it: afterwards it still reads allocated   *)
(* inodes only, and those the collector has not touched.                   *)
LEMMA FreeView ==
  ASSUME TypeOK, TypeOK', NoDangling', FreeStep, NEW s \in Kept, s # Oldest
  PROVE  View(fs', rl[s].rnum) = View(fs, rl[s].rnum)
<1> DEFINE r == rl[s].rnum
<1>1. fs \in Table /\ fs' \in Table
  BY DEF TypeOK
<1>2. r \in Int
  <2>1. rl[s] \in RL!cow_version
    BY DEF TypeOK, RL!TypeOK, Kept
  <2> QED
    BY <2>1 DEF RL!cow_version
<1>3. CASE fs' = fs
  BY <1>3
<1>4. CASE \E i \in Inum : fs' = free_inode(fs, i)
  <2>1. Reach(fs', r) \subseteq fs'.ibm
    <3>1. rl' = rl
      BY DEF FreeStep, list
    <3>2. s \in Kept'
      BY <3>1 DEF Kept, FreeStep, list
    <3> QED
      BY <3>1, <3>2 DEF NoDangling
  <2>2. PICK i \in Inum : fs' = free_inode(fs, i)
    BY <1>4
  <2>3. \A j \in fs'.ibm : j \in Num /\ j # i /\ fs'.ino[j] = fs.ino[j]
    BY <1>1, <2>2, FreeOthers, TableParts DEF Num
  <2>4. \A j \in fs'.ibm : Content(fs.ino[j]) = Content(fs'.ino[j])
    BY <2>3
  <2>5. fs'.ibm \subseteq Inum
    BY <1>1, TableParts
  <2>6. Agree(fs', fs, r, fs'.ibm)
    BY <2>1, <2>4, <2>5 DEF Agree
  <2> HIDE DEF r
  <2>7. View(fs, r) = View(fs', r)
    BY <1>1, <1>2, <2>6, SameView
  <2> QED
    BY <2>7 DEF r
<1> QED
  BY <1>3, <1>4, FreeStepFrees

(* The head of the list is a version, and its root changes in one store.   *)
HeadUsed == rl[0].vnum > 0

(* Every action keeps a version at the head, and one store its root.       *)
LEMMA HeadStep ==
  ASSUME TypeOK, HeadUsed, [Next]_vars
  PROVE  /\ HeadUsed'
         /\ RL!StoreRnum \/ rl'[0].rnum = rl[0].rnum
<1>1. rl \in [RL!Slot -> RL!cow_version] /\ 0 \in RL!Slot /\ rl[0].vnum \in Nat
  BY SlotFacts DEF TypeOK, RL!TypeOK, RL!cow_version
<1>2. CASE rl' = rl
  BY <1>2 DEF HeadUsed
<1>3. CASE RL!Shift
  <2>1. ii # 0 /\ rl' = [rl EXCEPT ![ii] = rl[ii - 1]]
    <3>1. ii \in Nat
      BY SlotFacts DEF TypeOK, RL!TypeOK
    <3>2. ii > 0
      BY <1>3 DEF TypeOK, RL!TypeOK, RL!Shift
    <3> QED
      BY <1>3, <3>1, <3>2 DEF RL!Shift
  <2>2. rl'[0] = rl[0]
    BY <1>1, <2>1
  <2> QED
    BY <2>2 DEF HeadUsed
<1>4. CASE RL!StoreRnum
  BY <1>1, <1>4 DEF HeadUsed, RL!StoreRnum, RL!cow_version
<1>5. CASE RL!StoreVnum
  BY <1>1, <1>5 DEF HeadUsed, RL!StoreVnum, RL!cow_version
<1>6. CASE RL!StoreOp
  BY <1>1, <1>6 DEF HeadUsed, RL!StoreOp, RL!cow_version
<1>7. CASE Request
  <2>1. rl' = rl
    BY <1>7 DEF Request, Handle, Write, Truncate, Mknod, MknodAborts, Unlink, Link, Rename,
       SetTime, Chmod, Update, list
  <2> QED
    BY <1>2, <2>1
<1>8. CASE ~Request /\ ~Push /\ rl' # rl
  BY <1>8 DEF Next, Step, Mount, Unmount, Tool, ToolSwap, ToolExit, Climb, ClimbAborts,
     AddRoot, FreeStep, Collected, CollectAborts, Finish, Kill, vars, list,
     RL!Start, RL!Exit, RL!SwapRoot, RL!AddRoot, RL!Collected, RL!Kill
<1> QED
  BY <1>2, <1>3, <1>4, <1>5, <1>6, <1>7, <1>8 DEF Push, Store, StoreLast

(* As long as no listed version reads an inode that is not allocated, what *)
(* the current version shows changes in one store, that of its root, or in *)
(* the calls that are known to work in place.                              *)
LEMMA CommitStep ==
  ASSUME TypeOK, TypeOK', HeadUsed, NoDangling, NoDangling', [Next]_vars
  PROVE  View(fs', rl'[0].rnum) # View(fs, rl[0].rnum) =>
            RL!StoreRnum \/ job.stage = "finish" \/ job'.call = "rename"
<1>1. 0 \in Kept /\ 0 # Oldest
  BY SlotFacts DEF Kept, HeadUsed
<1>2. RL!StoreRnum \/ rl'[0].rnum = rl[0].rnum
  BY HeadStep
<1>3. CASE Untouched(fs, fs') /\ rl'[0].rnum = rl[0].rnum
  BY <1>1, <1>3, KeptView
<1>4. CASE FreeStep /\ rl'[0].rnum = rl[0].rnum
  BY <1>1, <1>4, FreeView
<1> QED
  BY <1>2, <1>3, <1>4, StepKinds

(* While every inode a listed version reads is allocated, what the current *)
(* version shows changes with the store of the root number and with        *)
(* nothing before or after it: add_root is the commit of every handler,    *)
(* through deaths, rollbacks and collections (rename, and what unlink and  *)
(* utimens do after their commit, apart).                                  *)
THEOREM CommitAtomicIfAllocated == Spec /\ []NoDangling => CommitAtomic
<1> DEFINE A == View(fs', rl'[0].rnum) # View(fs, rl[0].rnum) =>
                   RL!StoreRnum \/ job.stage = "finish" \/ job'.call = "rename"
           I == TypeOK /\ HeadUsed
<1>1. Init => I
  <2>1. Init => HeadUsed
    BY SlotFacts DEF Init, HeadUsed
  <2> QED
    BY <2>1, StorageInit
<1>2. I /\ [Next]_vars => I'
  BY StorageStep, HeadStep
<1>3. I /\ I' /\ NoDangling /\ NoDangling' /\ [Next]_vars => [A]_vars
  BY CommitStep
<1>4. Spec => []I
  BY <1>1, <1>2, PTL DEF Spec
<1>5. []I /\ []NoDangling /\ [][Next]_vars => [][A]_vars
  BY <1>3, PTL
<1> QED
  BY <1>4, <1>5, PTL DEF Spec, CommitAtomic

(* Without unlink, utimens and rename nothing works in place.              *)
InPlace == {"unlink", "set", "rename"}

Quiet == job.call \notin InPlace /\ job.stage # "finish"

(* Without calls that work in place no handler ever does.                  *)
LEMMA QuietStep ==
  ASSUME \A q \in Calls : q.call \notin InPlace, TypeOK, Quiet, [Next]_vars
  PROVE  Quiet' /\ job'.call # "rename"
<1>0. job \in Jobs
  BY JobParts
<1>1. NoJob.call = "" /\ NoJob.stage = "serve"
  BY DEF NoJob
<1>2. CASE job' = NoJob \/ job' = job
  BY <1>1, <1>2 DEF Quiet, InPlace
<1>3. CASE Request
  <2>1. PICK q \in Calls : Handle(q)
    BY <1>3 DEF Request
  <2>2. q.call \notin InPlace
    BY <2>1
  <2>3. CASE q.call = "mknod" /\ MknodAborts(q)
    <3>1. job' = job
      BY <2>3 DEF MknodAborts
    <3> QED
      BY <1>2, <3>1
  <2>4. CASE \E d, p, old, new : Update(q, d, p, old, new)
    <3>1. job'.call = q.call /\ job'.stage = "climb"
      BY <2>4 DEF Update
    <3> QED
      BY <2>2, <3>1 DEF Quiet, InPlace
  <2>5. \/ q.call = "mknod" /\ MknodAborts(q)
        \/ \E d, p, old, new : Update(q, d, p, old, new)
    <3>1. CASE Write(q)
      BY <3>1 DEF Write
    <3>2. CASE Truncate(q)
      BY <3>2 DEF Truncate
    <3>3. CASE Mknod(q)
      BY <3>3 DEF Mknod
    <3>4. CASE Link(q)
      BY <3>4 DEF Link
    <3>5. CASE Chmod(q)
      BY <3>5 DEF Chmod
    <3> QED
      BY <2>1, <2>2, <3>1, <3>2, <3>3, <3>4, <3>5 DEF Handle, InPlace
  <2> QED
    BY <2>3, <2>4, <2>5
<1>4. CASE Climb
  <2>1. job' = GivenUp \/ (job'.call = job.call /\ job'.stage = job.stage)
    BY <1>0, <1>4 DEF Climb, Jobs
  <2>2. GivenUp = NoJob
    BY DEF GivenUp, Quiet, InPlace
  <2> QED
    BY <1>2, <2>1, <2>2 DEF Quiet, InPlace
<1>5. CASE AddRoot \/ FreeStep
  <2>1. job'.call = job.call /\ job'.stage \in {"push", job.stage}
    BY <1>0, <1>5 DEF AddRoot, FreeStep, Jobs
  <2> QED
    BY <2>1 DEF Quiet, InPlace
<1>6. CASE Push
  <2>1. \/ job' = job
        \/ job' = NoJob
        \/ job'.call = job.call /\ job'.stage = "swapped"
    BY <1>0, <1>6 DEF Push, StoreLast, Quiet, InPlace, Jobs
  <2> QED
    BY <1>2, <2>1 DEF Quiet, InPlace
<1>7. CASE Tool
  <2>1. job'.call = "" /\ job'.stage = "tool"
    BY <1>7 DEF Tool, NoJob
  <2> QED
    BY <2>1 DEF Quiet, InPlace
<1>8. CASE ToolSwap
  <2>1. job'.call = job.call /\ job'.stage = "swap"
    BY <1>0, <1>8 DEF ToolSwap, Jobs
  <2> QED
    BY <2>1 DEF Quiet, InPlace
<1>9. CASE \/ Mount \/ Unmount \/ ToolExit \/ ClimbAborts \/ Collected \/ CollectAborts
           \/ Finish \/ Kill \/ UNCHANGED vars
  BY <1>2, <1>9 DEF Mount, Unmount, ToolExit, ClimbAborts, Collected, CollectAborts,
     Finish, Kill, vars
<1> QED
  BY <1>3, <1>4, <1>5, <1>6, <1>7, <1>8, <1>9 DEF Next, Step

(* A step changes nothing that a version with allocated inodes shows.      *)
LEMMA FrozenStep ==
  ASSUME TypeOK, TypeOK', Quiet, NoDangling, NoDangling', [Next]_vars,
         job'.call # "rename", NEW s \in Kept \ {0}
  PROVE  View(fs', rl[s].rnum) = View(fs, rl[s].rnum)
<1>1. CASE Untouched(fs, fs')
  BY <1>1, KeptView
<1>2. CASE FreeStep
  <2>1. s # Oldest
    BY <1>2 DEF FreeStep, Kept
  <2> QED
    BY <1>2, <2>1, FreeView
<1> QED
  BY <1>1, <1>2, StepKinds DEF Quiet

(* For the calls that copy before they write, an older version shows the   *)
(* same for ever, deaths and rollbacks between any two steps included, as  *)
(* long as no listed version reads an inode that is not allocated.         *)
THEOREM VersionsFrozenIfAllocated ==
  ASSUME \A q \in Calls : q.call \notin InPlace
  PROVE  Spec /\ []NoDangling => VersionsFrozen
<1> DEFINE A == \A s \in Kept \ {0} : View(fs', rl[s].rnum) = View(fs, rl[s].rnum)
           I == TypeOK /\ Quiet
<1>1. Init => I
  <2>1. Init => Quiet
    <3>1. NoJob.call = "" /\ NoJob.stage = "serve"
      BY DEF NoJob
    <3> QED
      BY <3>1 DEF Init, Quiet, InPlace
  <2> QED
    BY <2>1, StorageInit
<1>2. I /\ [Next]_vars => I'
  BY StorageStep, QuietStep
<1>3. I /\ I' /\ NoDangling /\ NoDangling' /\ [Next]_vars => [A]_vars
  BY FrozenStep, QuietStep
<1>4. Spec => []I
  BY <1>1, <1>2, PTL DEF Spec
<1>5. []I /\ []NoDangling /\ [][Next]_vars => [][A]_vars
  BY <1>3, PTL
<1> QED
  BY <1>4, <1>5, PTL DEF Spec, VersionsFrozen

-----------------------------------------------------------------------------
(* Until the list is full nothing is collected, and without unlink and     *)
(* rename nothing else frees an inode: then no version can ever read a     *)
(* free one, a full table included, in which alloc_inode gives out none.   *)
(* With this the theorems above that assume []NoDangling hold outright.    *)

RoomForAll == MaxVnum <= NumVersions

Freeing == {"unlink", "rename"}

KeepingCalls ==
    \A q \in Calls : /\ q.call \notin Freeing
                     /\ q.call \in {"mknod", "chmod"} => q.mode # "none"

(* A table with nothing lost from b and nothing dangling.                  *)
Sound(d, b) == d \in Table /\ Closed(d) /\ b \subseteq d.ibm

(* What holds along the way: every root, in the list or on its way there,  *)
(* is allocated.                                                           *)
Rooted ==
    /\ Closed(fs)
    /\ \A s \in RL!Slot : rl[s].rnum \in fs.ibm
    /\ entry.rnum \in fs.ibm
    /\ job.new \in fs.ibm
    /\ ph # "gc"
    /\ job.call \notin Freeing

(* Rooted is what NoDangling needs.                                        *)
LEMMA RootedNoDangling ==
  ASSUME TypeOK, Rooted
  PROVE  NoDangling
<1> SUFFICES ASSUME NEW s \in Kept, NEW i \in Reach(fs, rl[s].rnum)
             PROVE  i \in fs.ibm /\ fs.ino[i].mode # "none"
  BY DEF NoDangling
<1> DEFINE r == rl[s].rnum
<1>1. r \in fs.ibm /\ fs \in Table /\ Closed(fs)
  BY DEF Kept, Rooted, TypeOK
<1>2. PICK p \in Path : i = Lookup(fs, p, r) /\ Lookup(fs, p, r) >= 0
  BY DEF Reach, Present
<1> HIDE DEF r
<1>3. Lookup(fs, p, r) \in fs.ibm \cup {NoInode, ENOENT}
  BY <1>1, ClosedLookup, PathFacts DEF Lookup
<1>4. i \in fs.ibm
  BY <1>2, <1>3 DEF NoInode, ENOENT
<1> QED
  BY <1>1, <1>4 DEF Closed, ClosedInode

(* What a handler finds is allocated.                                      *)
LEMMA FoundAllocated ==
  ASSUME TypeOK, Rooted, NEW p \in Path, tree_lookup(p) \in Inum
  PROVE  tree_lookup(p) \in fs.ibm
<1>1. rl[0].rnum \in fs.ibm /\ fs \in Table /\ Closed(fs)
  BY SlotFacts DEF Rooted, TypeOK
<1>2. tree_lookup(p) \in fs.ibm \cup {NoInode, ENOENT}
  BY <1>1, ClosedLookup, PathFacts DEF tree_lookup, RL!get_current_root
<1>3. NoInode \notin Inum /\ ENOENT \notin Inum
  BY NumFacts DEF NoInode, ENOENT
<1> QED
  BY <1>2, <1>3

(* A copy loses nothing and is as closed as its original.                  *)
LEMMA CopySound ==
  ASSUME fs \in Table, Closed(fs), NEW i \in fs.ibm
  PROVE  /\ Sound(copy_inode(fs, i), copy_inode(fs, i).ibm)
         /\ fs.ibm \subseteq copy_inode(fs, i).ibm
         /\ inum_field(NextFree(fs)) \in copy_inode(fs, i).ibm
         /\ NextFree(fs) \in Num
<1>1. i \in Num
  BY TableParts DEF Num
<1>2. copy_inode(fs, i) \in Table /\ Untouched(fs, copy_inode(fs, i))
  BY <1>1, CopyType
<1>3. Closed(copy_inode(fs, i)) /\ inum_field(NextFree(fs)) \in copy_inode(fs, i).ibm
  BY CopyClosed
<1>4. NextFree(fs) \in Num
  BY NextFreeType
<1> QED
  BY <1>2, <1>3, <1>4 DEF Sound, Untouched

(* Fields other than the entries can be stored freely.                     *)
LEMMA FieldSound ==
  ASSUME NEW d, NEW b, Sound(d, b), NEW i
  PROVE  /\ \A x \in Int : Sound([d EXCEPT !.ino[i].refs = x], b)
         /\ \A x \in Mode \ {"none"} : Sound([d EXCEPT !.ino[i].mode = x], b)
         /\ \A x \in Nat : Sound([d EXCEPT !.ino[i].ts = x], b)
         /\ \A x \in Seq(Byte) : Sound([d EXCEPT !.ino[i].data = x], b)
<1>0. d \in Table /\ Closed(d) /\ b \subseteq d.ibm
  BY DEF Sound
<1>1. \A x \in Int : Sound([d EXCEPT !.ino[i].refs = x], b)
  BY <1>0, FieldTypes, FieldClosed, TableParts DEF Sound
<1>2. \A x \in Mode \ {"none"} : Sound([d EXCEPT !.ino[i].mode = x], b)
  BY <1>0, FieldTypes, FieldClosed, TableParts DEF Sound
<1>3. \A x \in Nat : Sound([d EXCEPT !.ino[i].ts = x], b)
  BY <1>0, FieldTypes, FieldClosed, TableParts DEF Sound
<1>4. \A x \in Seq(Byte) : Sound([d EXCEPT !.ino[i].data = x], b)
  BY <1>0, FieldTypes, FieldClosed, TableParts DEF Sound
<1> QED
  BY <1>1, <1>2, <1>3, <1>4

(* A name for an allocated inode can be put anywhere.                      *)
LEMMA PutSound ==
  ASSUME NEW d, NEW b, Sound(d, b), NEW c \in Num, NEW name \in Name,
         NEW i \in d.ibm \cup {NoInode}
  PROVE  Sound(directory_put(d, c, name, i), b)
<1>1. d \in Table /\ Closed(d) /\ b \subseteq d.ibm /\ i \in Num
  BY TableParts DEF Sound, Num
<1>2. directory_put(d, c, name, i) \in Table /\ Closed(directory_put(d, c, name, i))
  BY <1>1, PutType, PutClosed
<1>3. directory_put(d, c, name, i).ibm = d.ibm
  BY <1>1, TableParts DEF directory_put
<1> QED
  BY <1>1, <1>2, <1>3 DEF Sound

(* The inode mknod makes has a mode and no entries.                        *)
LEMMA ChildSound ==
  ASSUME NEW d, NEW b, Sound(d, b), NEW mode \in Mode \ {"none"}
  PROVE  /\ Sound(Child(d, mode), b)
         /\ NextFree(d) \in Child(d, mode).ibm \cup {NoInode}
<1> DEFINE n == NextFree(d)
           a == alloc_inode(d)
           e == Child(d, mode)
<1>1. d \in Table /\ Closed(d) /\ b \subseteq d.ibm
  BY DEF Sound
<1>2. /\ a \in Table /\ d.ibm \subseteq a.ibm /\ n \in a.ibm \cup {NoInode} /\ n \in Num
      /\ \A j \in a.ibm : j = n \/ j \in d.ibm
  BY <1>1, AllocTakes, AllocType, NextFreeType
<1>3. \A j \in d.ibm : a.ino[j].mode = d.ino[j].mode /\ a.ino[j].ent = d.ino[j].ent
  BY <1>1, AllocType DEF Untouched
<1>4. n # NoInode => a.ino[n].ent = <<>>
  <2>1. CASE Inum \ d.ibm = {}
    BY <2>1 DEF NextFree
  <2>2. CASE Inum \ d.ibm # {}
    <3>1. a.ino = [d.ino EXCEPT ![n] = Emptied(d.ino[n])]
      BY <2>2 DEF alloc_inode
    <3>2. a.ino[n] = Emptied(d.ino[n]) /\ d.ino[n] \in inode
      BY <1>1, <1>2, <3>1, TableParts
    <3> QED
      BY <3>2 DEF Emptied, inode
  <2> QED
    BY <2>1, <2>2
<1>5. e = [a EXCEPT !.ino[n].mode = mode, !.ino[n].refs = 1]
  BY DEF Child
<1> HIDE DEF a, n, e
<1>6. e \in Table
  <2>1. \A x \in Mode : [a EXCEPT !.ino[n].mode = x] \in Table
    BY <1>2, FieldTypes
  <2> DEFINE f == [a EXCEPT !.ino[n].mode = mode]
  <2>2. f \in Table /\ e = [f EXCEPT !.ino[n].refs = 1]
    BY <1>5, <2>1
  <2> HIDE DEF f
  <2>3. \A x \in Int : [f EXCEPT !.ino[n].refs = x] \in Table
    BY <2>2, FieldTypes
  <2> QED
    BY <2>2, <2>3
<1>7. /\ e.ibm = a.ibm
      /\ \A j \in a.ibm : /\ e.ino[j].ent = a.ino[j].ent
                           /\ e.ino[j].mode = IF j = n THEN mode ELSE a.ino[j].mode
  BY <1>2, <1>5, TableParts DEF inode, Num
<1>8. \A j \in a.ibm : ClosedInode(e.ino[j], a.ibm)
  <2> TAKE j \in a.ibm
  <2>0. j # NoInode
    BY <1>2, TableParts, NumFacts
  <2>1. CASE j = n
    <3>1. e.ino[j].ent = <<>> /\ e.ino[j].mode = mode
      BY <1>4, <1>7, <2>0, <2>1
    <3> QED
      BY <3>1 DEF ClosedInode
  <2>2. CASE j # n
    <3>1. j \in d.ibm
      BY <1>2, <2>2
    <3>2. e.ino[j].ent = d.ino[j].ent /\ e.ino[j].mode = d.ino[j].mode
      BY <1>3, <1>7, <2>2, <3>1
    <3>3. ClosedInode(d.ino[j], d.ibm)
      BY <1>1, <3>1 DEF Closed
    <3> QED
      BY <1>2, <3>2, <3>3 DEF ClosedInode
  <2> QED
    BY <2>1, <2>2
<1>9. Closed(e)
  BY <1>1, <1>2, <1>7, <1>8 DEF Closed
<1> QED
  BY <1>1, <1>2, <1>6, <1>7, <1>9 DEF Sound, n, e

(* A handler that keeps to copies starts its climb from a sound table.     *)
Grows(q) ==
    \E d, p, old, new :
        /\ Sound(d, fs.ibm) /\ inum_field(new) \in d.ibm
        /\ Update(q, d, p, old, new)

(* A sound table is enough for the start of a climb.                       *)
LEMMA GrowsFrom ==
  ASSUME NEW q, NEW d, NEW b, Sound(d, b), fs.ibm \subseteq b, NEW new,
         inum_field(new) \in b, NEW p, NEW old, Update(q, d, p, old, new)
  PROVE  Grows(q)
<1>1. Sound(d, fs.ibm) /\ inum_field(new) \in d.ibm
  BY DEF Sound
<1> QED
  BY <1>1 DEF Grows

(* The handlers whose copy is the inode the path leads to.                 *)
LEMMA FileGrows ==
  ASSUME TypeOK, Rooted, KeepingCalls, NEW q \in Calls,
         \/ q.call = "write" /\ Write(q)
         \/ q.call = "truncate" /\ Truncate(q)
         \/ q.call = "set" /\ SetTime(q) /\ tree_lookup(q.path) # 0
         \/ q.call = "chmod" /\ Chmod(q)
  PROVE  Grows(q)
<1> DEFINE i == tree_lookup(q.path)
           c == NextFree(fs)
           d == copy_inode(fs, i)
           b == d.ibm
           was == d.ino[c].data
           x == Written(was, q.off, q.bytes)
           y == [k \in 1 .. q.size |-> IF k <= Len(was) THEN was[k] ELSE 0]
<1>1. q.path \in Path /\ i \in Inum
  BY StorageAssumption DEF Write, Truncate, SetTime, Chmod, IsFile, Exists
<1>2. i \in fs.ibm /\ fs \in Table /\ Closed(fs)
  BY <1>1, FoundAllocated DEF TypeOK, Rooted
<1>3. Sound(d, b) /\ fs.ibm \subseteq b /\ inum_field(c) \in b /\ c \in Num
  BY <1>2, CopySound
<1>4. was \in Seq(Byte)
  BY <1>3, InodeParts DEF Sound
<1>5. \/ q.call = "write" /\ Update(q, [d EXCEPT !.ino[c].data = x], q.path, inum_field(i), c)
      \/ q.call = "truncate" /\ Update(q, [d EXCEPT !.ino[c].data = y], q.path, inum_field(i), c)
      \/ q.call = "set" /\ Update(q, [d EXCEPT !.ino[c].ts = 1], q.path, i, c)
      \/ q.call = "chmod" /\ Update(q, [d EXCEPT !.ino[c].mode = q.mode], q.path, i, c)
  BY DEF Write, Truncate, SetTime, Chmod
<1>6. q.call = "write" => x \in Seq(Byte)
  <2> HIDE DEF was
  <2> QED
    BY <1>4, WrittenType, StorageAssumption
<1>7. q.call = "truncate" => y \in Seq(Byte)
  <2> HIDE DEF was
  <2> QED
    BY <1>4, ResizedType, StorageAssumption
<1>8. q.call = "chmod" => q.mode \in Mode \ {"none"}
  BY StorageAssumption DEF KeepingCalls
<1> HIDE DEF i, c, d, b, x, y
<1>9. /\ \A z \in Mode \ {"none"} : Sound([d EXCEPT !.ino[c].mode = z], b)
      /\ \A z \in Nat : Sound([d EXCEPT !.ino[c].ts = z], b)
      /\ \A z \in Seq(Byte) : Sound([d EXCEPT !.ino[c].data = z], b)
  BY <1>3, FieldSound
<1>10. CASE q.call = "write"
  <2>1. Sound([d EXCEPT !.ino[c].data = x], b)
    BY <1>6, <1>9, <1>10
  <2>2. Update(q, [d EXCEPT !.ino[c].data = x], q.path, inum_field(i), c)
    BY <1>5, <1>10
  <2> QED
    BY <1>3, <2>1, <2>2, GrowsFrom
<1>11. CASE q.call = "truncate"
  <2>1. Sound([d EXCEPT !.ino[c].data = y], b)
    BY <1>7, <1>9, <1>11
  <2>2. Update(q, [d EXCEPT !.ino[c].data = y], q.path, inum_field(i), c)
    BY <1>5, <1>11
  <2> QED
    BY <1>3, <2>1, <2>2, GrowsFrom
<1>12. CASE q.call = "set"
  <2>1. Sound([d EXCEPT !.ino[c].ts = 1], b)
    BY <1>9
  <2>2. Update(q, [d EXCEPT !.ino[c].ts = 1], q.path, i, c)
    BY <1>5, <1>12
  <2> QED
    BY <1>3, <2>1, <2>2, GrowsFrom
<1>13. CASE q.call = "chmod"
  <2>1. Sound([d EXCEPT !.ino[c].mode = q.mode], b)
    BY <1>8, <1>9, <1>13
  <2>2. Update(q, [d EXCEPT !.ino[c].mode = q.mode], q.path, i, c)
    BY <1>5, <1>13
  <2> QED
    BY <1>3, <2>1, <2>2, GrowsFrom
<1> QED
  BY <1>5, <1>10, <1>11, <1>12, <1>13

(* mknod starts its climb from a sound table.                              *)
LEMMA MknodGrows ==
  ASSUME TypeOK, Rooted, KeepingCalls, NEW q \in Calls, q.call = "mknod", Mknod(q)
  PROVE  Grows(q)
<1> DEFINE dd == tree_lookup_stop_early(q.path)
           c == NextFree(fs)
           d == copy_inode(fs, dd)
           b == d.ibm
           n == NextFree(d)
           name == basename(q.path)
           h == Child(d, q.mode)
           e == directory_put(h, c, name, n)
<1>1. /\ q.path \in Path /\ q.path # Root /\ dirname(q.path) \in Path
      /\ q.mode \in Mode \ {"none"}
  BY PathFacts, StorageAssumption DEF KeepingCalls
<1>2. dd \in Inum /\ dd = tree_lookup(dirname(q.path))
  BY DEF Mknod, CanCreate, IsDir, Exists, tree_lookup_stop_early
<1>3. dd \in fs.ibm /\ fs \in Table /\ Closed(fs)
  BY <1>1, <1>2, FoundAllocated DEF TypeOK, Rooted
<1>4. Sound(d, b) /\ fs.ibm \subseteq b /\ inum_field(c) \in b /\ c \in Num
  BY <1>3, CopySound
<1>5. name \in Name
  <2>1. q.path \in Seq(Name) /\ q.path # <<>>
    BY <1>1, PathFacts DEF Root
  <2> QED
    BY <2>1 DEF basename
<1>6. Update(q, e, dirname(q.path), inum_field(dd), c)
  BY DEF Mknod
<1> HIDE DEF c, d, b, dd, name
<1>7. Sound(h, b) /\ n \in h.ibm \cup {NoInode}
  BY <1>1, <1>4, ChildSound
<1> HIDE DEF n, h
<1>8. Sound(e, b)
  BY <1>4, <1>5, <1>7, PutSound
<1> HIDE DEF e
<1> QED
  BY <1>4, <1>6, <1>8, GrowsFrom

(* link starts its climb from a sound table.                               *)
LEMMA LinkGrows ==
  ASSUME TypeOK, Rooted, NEW q \in Calls, q.call = "link", Link(q)
  PROVE  Grows(q)
<1> DEFINE from == tree_lookup(q.path)
           dir == tree_lookup_stop_early(q.to)
           c == NextFree(fs)
           name == basename(q.to)
           d == copy_inode(fs, dir)
           b == d.ibm
           e == directory_put(d, c, name, from)
           x == e.ino[from].refs + 1
<1>1. q.path \in Path /\ q.to \in Path /\ q.to # Root /\ dirname(q.to) \in Path
  BY PathFacts, StorageAssumption
<1>2. from \in Inum /\ dir \in Inum /\ dir = tree_lookup(dirname(q.to))
  BY DEF Link, IsFile, CanCreate, IsDir, Exists, tree_lookup_stop_early
<1>3. from \in fs.ibm /\ dir \in fs.ibm /\ fs \in Table /\ Closed(fs)
  BY <1>1, <1>2, FoundAllocated DEF TypeOK, Rooted
<1>4. Sound(d, b) /\ fs.ibm \subseteq b /\ inum_field(c) \in b /\ c \in Num
  BY <1>3, CopySound
<1>5. name \in Name
  <2>1. q.to \in Seq(Name) /\ q.to # <<>>
    BY <1>1, PathFacts DEF Root
  <2> QED
    BY <2>1 DEF basename
<1>6. Update(q, [e EXCEPT !.ino[from].refs = x], dirname(q.path), dir, c)
  BY DEF Link
<1>7. from \in d.ibm \cup {NoInode} /\ from \in Num
  BY <1>2, <1>3, <1>4 DEF b, Num
<1> HIDE DEF c, d, b, dir, from, name
<1>8. Sound(e, b)
  BY <1>4, <1>5, <1>7, PutSound
<1> HIDE DEF e
<1>9. x \in Int
  BY <1>7, <1>8, InodeParts DEF Sound
<1> HIDE DEF x
<1>10. \A z \in Int : Sound([e EXCEPT !.ino[from].refs = z], b)
  BY <1>8, FieldSound
<1>11. Sound([e EXCEPT !.ino[from].refs = x], b)
  BY <1>9, <1>10
<1> QED
  BY <1>4, <1>6, <1>11, GrowsFrom

(* A step that leaves the list alone and grows the table.                  *)
LEMMA RootedGrows ==
  ASSUME Rooted, UNCHANGED list, Closed(fs'), fs.ibm \subseteq fs'.ibm,
         job'.new \in fs'.ibm, job'.call \notin Freeing
  PROVE  Rooted'
<1>1. rl' = rl /\ entry' = entry /\ ph' = ph
  BY DEF list
<1>2. \A s \in RL!Slot : rl'[s].rnum \in fs'.ibm
  BY <1>1 DEF Rooted
<1>3. entry'.rnum \in fs'.ibm /\ ph' # "gc"
  BY <1>1 DEF Rooted
<1> QED
  BY <1>2, <1>3 DEF Rooted

(* A request keeps all roots allocated.                                    *)
LEMMA RootedRequest ==
  ASSUME TypeOK, Rooted, KeepingCalls, Request
  PROVE  Rooted'
<1>1. PICK q \in Calls : Handle(q)
  BY DEF Request
<1>2. q.call \notin Freeing
  BY DEF KeepingCalls
<1>3. CASE Grows(q)
  <2>1. PICK d, p, old, new :
          /\ Sound(d, fs.ibm) /\ inum_field(new) \in d.ibm
          /\ Update(q, d, p, old, new)
    BY <1>3 DEF Grows
  <2>2. /\ fs' = d /\ UNCHANGED list
        /\ job'.new = inum_field(new) /\ job'.call = q.call
    BY <2>1 DEF Update
  <2> QED
    BY <1>2, <2>1, <2>2, RootedGrows DEF Sound
<1>4. CASE q.call = "mknod" /\ MknodAborts(q)
  <2> DEFINE dd == tree_lookup_stop_early(q.path)
  <2>1. dirname(q.path) \in Path
    BY PathFacts, StorageAssumption
  <2>2. dd \in Inum /\ dd = tree_lookup(dirname(q.path)) /\ fs' = copy_inode(fs, dd)
    BY <1>4 DEF MknodAborts, CanCreate, IsDir, Exists, tree_lookup_stop_early
  <2>3. dd \in fs.ibm /\ fs \in Table /\ Closed(fs)
    BY <2>1, <2>2, FoundAllocated DEF TypeOK, Rooted
  <2> HIDE DEF dd
  <2>4. Closed(fs') /\ fs.ibm \subseteq fs'.ibm
    BY <2>2, <2>3, CopySound DEF Sound
  <2>5. rl' = rl /\ entry' = entry /\ job' = job /\ ph' = "off"
    BY <1>4 DEF MknodAborts
  <2>6. \A s \in RL!Slot : rl'[s].rnum \in fs'.ibm
    BY <2>4, <2>5 DEF Rooted
  <2> QED
    BY <2>4, <2>5, <2>6 DEF Rooted
<1>5. CASE q.call = "set" /\ SetTime(q) /\ tree_lookup(q.path) = 0
  <2>1. /\ job' = [NoJob EXCEPT !.call = "set", !.stage = "finish", !.path = q.path]
        /\ UNCHANGED <<fs, list>>
    BY <1>5 DEF SetTime
  <2>2. job'.new = 0 /\ job'.call = "set"
    BY <2>1 DEF NoJob
  <2> QED
    BY <2>1, <2>2, RootedGrows DEF Rooted, Closed, Freeing
<1>6. CASE Grows(q) \/ (q.call = "mknod" /\ MknodAborts(q))
           \/ (q.call = "set" /\ SetTime(q) /\ tree_lookup(q.path) = 0)
  BY <1>3, <1>4, <1>5, <1>6
<1> QED
  BY <1>1, <1>2, <1>6, FileGrows, MknodGrows, LinkGrows DEF Handle, Freeing

(* A directory of the climb keeps all roots allocated.                     *)
LEMMA RootedClimb ==
  ASSUME TypeOK, Rooted, Climb \/ ClimbAborts
  PROVE  Rooted'
<1> DEFINE dir == tree_lookup_stop_early(job.left)
           c == NextFree(fs)
           d == copy_inode(fs, dir)
<1>0. fs \in Table /\ Closed(fs) /\ job \in Jobs /\ dirname(job.left) \in Path
  BY JobParts, PathFacts DEF TypeOK, Rooted
<1>1. NoJob.new = 0 /\ NoJob.call = "" /\ 0 \in fs.ibm
  BY <1>0 DEF NoJob, Closed
<1>2. CASE dir < 0 /\ Climb
  <2>1. fs' = fs /\ job' = GivenUp /\ UNCHANGED list
    BY <1>2 DEF Climb
  <2>2. job'.new \in fs'.ibm /\ job'.call \notin Freeing
    <3>1. GivenUp = NoJob \/ GivenUp = [job EXCEPT !.stage = "finish"]
      BY DEF GivenUp
    <3> QED
      BY <1>0, <1>1, <2>1, <3>1 DEF Rooted, Freeing, Jobs
  <2> QED
    BY <1>0, <2>1, <2>2, RootedGrows
<1>3. ASSUME dir \in Inum
      PROVE  /\ Sound(d, d.ibm) /\ fs.ibm \subseteq d.ibm
             /\ inum_field(c) \in d.ibm /\ c \in Num
  <2>1. dir \in fs.ibm
    BY <1>0, <1>3, FoundAllocated DEF tree_lookup_stop_early
  <2> HIDE DEF dir
  <2> QED
    BY <1>0, <2>1, CopySound
<1>4. CASE ~(dir < 0) /\ Climb
  <2>1. /\ dir \in Inum /\ UNCHANGED list
        /\ fs' = replace_in_entries(d, c, job.old, job.new)
        /\ job' = [job EXCEPT !.left = StepUp, !.old = inum_field(dir), !.new = inum_field(c)]
    BY <1>4 DEF Climb, CowDir
  <2>2. /\ Sound(d, d.ibm) /\ fs.ibm \subseteq d.ibm
        /\ inum_field(c) \in d.ibm /\ c \in Num
    BY <1>3, <2>1
  <2> HIDE DEF c, d, dir
  <2>3. job.new \in d.ibm
    BY <2>2 DEF Rooted
  <2>4. Closed(fs')
    BY <2>1, <2>2, <2>3, ReplaceClosed DEF Sound
  <2>5. fs'.ibm = d.ibm
    BY <2>1, <2>2, TableParts DEF replace_in_entries, Sound
  <2>6. job'.new = inum_field(c) /\ job'.call = job.call
    BY <1>0, <2>1 DEF Jobs
  <2> QED
    BY <2>1, <2>2, <2>4, <2>5, <2>6, RootedGrows DEF Rooted
<1>5. CASE ClimbAborts
  <2>1. dir \in Inum /\ fs' = d
    BY <1>5 DEF ClimbAborts
  <2>2. Closed(fs') /\ fs.ibm \subseteq fs'.ibm
    BY <1>3, <2>1 DEF Sound
  <2>3. rl' = rl /\ entry' = entry /\ job' = NoJob /\ ph' = "off"
    BY <1>5 DEF ClimbAborts
  <2>4. \A s \in RL!Slot : rl'[s].rnum \in fs'.ibm
    BY <2>2, <2>3 DEF Rooted
  <2>5. entry'.rnum \in fs'.ibm /\ job'.new \in fs'.ibm /\ job'.call \notin Freeing /\ ph' # "gc"
    BY <1>1, <2>2, <2>3 DEF Rooted, Freeing
  <2> QED
    BY <2>2, <2>4, <2>5 DEF Rooted
<1> QED
  BY <1>2, <1>4, <1>5

(* A store of the push moves allocated roots only.                         *)
LEMMA RootedPush ==
  ASSUME TypeOK, Rooted, Push
  PROVE  Rooted'
<1>0. /\ rl \in [RL!Slot -> RL!cow_version] /\ job \in Jobs /\ fs' = fs /\ Closed(fs)
      /\ 0 \in fs.ibm /\ entry \in [rnum : Int, op : Labels] /\ 0 \in RL!Slot
  BY JobParts, SlotFacts DEF Push, TypeOK, RL!TypeOK, Rooted, Closed
<1>1. entry'.rnum \in fs'.ibm
  BY <1>0 DEF Push, Store, StoreLast, RL!Shift, RL!StoreRnum, RL!StoreVnum, RL!StoreOp,
     RL!NoEntry, Rooted
<1>2. job'.new \in fs'.ibm /\ job'.call \notin Freeing
  <2>1. NoJob.new = 0 /\ NoJob.call = ""
    BY DEF NoJob
  <2>2. job' \in {job, NoJob} \/ \E st : job' = [job EXCEPT !.stage = st]
    BY DEF Push, StoreLast
  <2> QED
    BY <1>0, <2>1, <2>2 DEF Rooted, Freeing, Jobs
<1>3. ph' # "gc"
  BY DEF Push, Store, StoreLast, RL!Shift, RL!StoreRnum, RL!StoreVnum, RL!StoreOp
<1>4. \A s \in RL!Slot : rl'[s].rnum \in fs'.ibm
  <2>1. CASE RL!Shift
    <3>1. ii - 1 \in RL!Slot /\ rl' = [rl EXCEPT ![ii] = rl[ii - 1]]
      <4>1. ii \in RL!Slot /\ ii > 0
        BY <2>1 DEF TypeOK, RL!TypeOK, RL!Shift
      <4>2. ii - 1 \in RL!Slot
        BY <4>1, SlotFacts DEF RL!Slot
      <4> QED
        BY <2>1, <4>2 DEF RL!Shift
    <3>2. \A s \in RL!Slot : rl'[s] = rl[ii - 1] \/ rl'[s] = rl[s]
      BY <1>0, <3>1
    <3> QED
      BY <1>0, <3>1, <3>2 DEF Rooted
  <2>2. CASE RL!StoreRnum
    <3>1. \A s \in RL!Slot : rl'[s].rnum \in {rl[s].rnum, entry.rnum}
      BY <1>0, <2>2 DEF RL!StoreRnum, RL!cow_version
    <3> QED
      BY <1>0, <3>1 DEF Rooted
  <2>3. CASE RL!StoreVnum \/ RL!StoreOp
    <3>1. \A s \in RL!Slot : rl'[s].rnum = rl[s].rnum
      BY <1>0, <2>3 DEF RL!StoreVnum, RL!StoreOp, RL!cow_version
    <3> QED
      BY <1>0, <3>1 DEF Rooted
  <2> QED
    BY <2>1, <2>2, <2>3 DEF Push, Store, StoreLast
<1> QED
  BY <1>0, <1>1, <1>2, <1>3, <1>4 DEF Rooted

(* The list is full only when its number has reached NumVersions.          *)
LEMMA RootedAddRoot ==
  ASSUME TypeOK, Rooted, RoomForAll, AddRoot
  PROVE  Rooted'
<1>1. RL!AddRoot(job.new, [call |-> job.call, path |-> Clip(job.call, job.path)])
  BY DEF AddRoot
<1>2. rl' = rl /\ fs' = fs /\ entry'.rnum = job.new
  BY <1>1 DEF AddRoot, RL!AddRoot
<1>3. ~RL!Full
  <2>1. rl[0] \in RL!cow_version
    BY SlotFacts DEF TypeOK, RL!TypeOK
  <2>2. rl[0].vnum \in Nat
    BY <2>1 DEF RL!cow_version
  <2>3. rl[0].vnum < MaxVnum /\ MaxVnum <= NumVersions
    BY <1>1 DEF RL!AddRoot, RL!Room, RoomForAll
  <2> QED
    BY <2>2, <2>3, StorageAssumption DEF RL!Full
<1>4. ph' # "gc"
  BY <1>1, <1>3 DEF RL!AddRoot
<1>5. job' = [job EXCEPT !.stage = "push", !.gc = GcTarget] /\ job \in Jobs
  BY JobParts DEF AddRoot
<1>6. job'.new = job.new /\ job'.call = job.call
  BY <1>5 DEF Jobs
<1> QED
  BY <1>2, <1>4, <1>6 DEF Rooted

(* utimens finishes with a time, which points at nothing.                  *)
LEMMA RootedFinish ==
  ASSUME TypeOK, Rooted, Finish
  PROVE  Rooted'
<1>1. FinishSetTime /\ job' = NoJob /\ UNCHANGED <<rl, ii, entry>>
  BY DEF Finish, FinishUnlink, FinishRename, Rooted, Freeing
<1>2. NoJob.new = 0 /\ NoJob.call = "" /\ 0 \in fs.ibm /\ fs \in Table /\ Closed(fs)
  BY DEF NoJob, Rooted, Closed, TypeOK
<1> DEFINE dir == tree_lookup_stop_early(job.path)
<1>3. fs' = (IF dir > 0 THEN [fs EXCEPT !.ino[dir].ts = 1] ELSE fs) /\ ph' = ph
  BY <1>1 DEF FinishSetTime
<1> HIDE DEF dir
<1>4. \A x \in Nat : Closed([fs EXCEPT !.ino[dir].ts = x])
  BY <1>2, FieldClosed
<1>5. Closed([fs EXCEPT !.ino[dir].ts = 1]) /\ [fs EXCEPT !.ino[dir].ts = 1].ibm = fs.ibm
  <2>1. Closed([fs EXCEPT !.ino[dir].ts = 1])
    BY <1>4
  <2>2. [fs EXCEPT !.ino[dir].ts = 1].ibm = fs.ibm
    BY <1>2 DEF Table
  <2> QED
    BY <2>1, <2>2
<1>6. Closed(fs') /\ fs'.ibm = fs.ibm
  BY <1>2, <1>3, <1>5
<1> QED
  BY <1>1, <1>2, <1>3, <1>6, RootedGrows DEF list, Rooted, Freeing

(* Processes that start, end and die keep all roots allocated.             *)
LEMMA RootedProcess ==
  ASSUME TypeOK, Rooted,
         Mount \/ Unmount \/ Tool \/ ToolSwap \/ ToolExit \/ Kill
  PROVE  Rooted'
<1>0. NoJob.new = 0 /\ NoJob.call = "" /\ 0 \in fs.ibm /\ job \in Jobs
  BY JobParts DEF NoJob, Rooted, Closed
<1>1. fs' = fs /\ rl' = rl /\ ph' # "gc"
  BY DEF Mount, Unmount, Tool, ToolSwap, ToolExit, Kill, RL!Start, RL!Exit, RL!SwapRoot, RL!Kill
<1>2. job'.new \in fs.ibm /\ job'.call \notin Freeing
  <2>1. \/ job' \in {job, NoJob}
        \/ job' = [NoJob EXCEPT !.stage = "tool"]
        \/ job' = [job EXCEPT !.stage = "swap"]
    BY DEF Mount, Unmount, Tool, ToolSwap, ToolExit, Kill
  <2>2. [NoJob EXCEPT !.stage = "tool"].new = 0 /\ [NoJob EXCEPT !.stage = "tool"].call = ""
    BY DEF NoJob
  <2> QED
    BY <1>0, <2>1, <2>2 DEF Rooted, Freeing, Jobs
<1>3. entry'.rnum \in fs.ibm
  <2>1. CASE ToolSwap
    <3>1. PICK v : RL!SwapRoot(v)
      BY <2>1 DEF ToolSwap
    <3>2. RL!Matches(v) # {} /\ entry' = RL!Found(v)
      BY <3>1 DEF RL!SwapRoot
    <3>3. PICK s \in RL!Slot : RL!Found(v) = [rnum |-> rl[s].rnum, op |-> rl[s].op]
      BY <3>2, FoundSlot
    <3> QED
      BY <3>2, <3>3 DEF Rooted
  <2>2. CASE Kill
    <3>1. entry' = [rnum |-> 0, op |-> NoLabel]
      BY <2>2 DEF Kill, RL!Kill, RL!NoEntry
    <3> QED
      BY <1>0, <3>1
  <2>3. CASE Mount \/ Unmount \/ Tool \/ ToolExit
    BY <2>3 DEF Mount, Unmount, Tool, ToolExit, RL!Start, RL!Exit, Rooted
  <2> QED
    BY <2>1, <2>2, <2>3
<1> QED
  BY <1>1, <1>2, <1>3 DEF Rooted

(* Every action keeps all roots allocated while there is room.             *)
LEMMA RootedStep ==
  ASSUME RoomForAll, KeepingCalls
  PROVE  TypeOK /\ Rooted /\ [Next]_vars => Rooted'
<1> SUFFICES ASSUME TypeOK, Rooted, [Next]_vars PROVE Rooted'
  OBVIOUS
<1>1. CASE UNCHANGED vars
  BY <1>1 DEF vars, list, Rooted
<1>2. ~FreeStep /\ ~Collected /\ ~CollectAborts
  BY DEF FreeStep, Collected, CollectAborts, RL!Collected, Rooted
<1> QED
  BY <1>1, <1>2, RootedRequest, RootedClimb, RootedPush, RootedAddRoot, RootedFinish,
     RootedProcess DEF Next, Step

(* The root of a new image is allocated.                                   *)
LEMMA RootedInit == Init => Rooted
<1> SUFFICES ASSUME Init PROVE Rooted
  OBVIOUS
<1>1. fs.ibm = {0} /\ fs.ino[0].mode = "dir" /\ fs.ino[0].ent = <<>>
  BY NumFacts DEF Init, Zeroed
<1>2. Closed(fs)
  BY <1>1 DEF Closed, ClosedInode
<1>3. \A s \in RL!Slot : rl[s].rnum = 0
  BY DEF Init, RL!ZeroSlot
<1>4. entry.rnum = 0 /\ job.new = 0 /\ job.call = "" /\ ph # "gc"
  BY DEF Init, RL!NoEntry, NoJob
<1> QED
  BY <1>1, <1>2, <1>3, <1>4 DEF Rooted, Freeing

(* Until the list is full, and as long as no file is removed or renamed,   *)
(* every inode a listed version reads is allocated and has a mode: through *)
(* deaths between any two steps, rollbacks and a full inode table.         *)
THEOREM NoDanglingWhileRoom ==
  ASSUME RoomForAll, KeepingCalls
  PROVE  Spec => []NoDangling
<1> DEFINE I == TypeOK /\ Rooted
<1>1. Init => I
  BY StorageInit, RootedInit
<1>2. I /\ [Next]_vars => I'
  BY StorageStep, RootedStep
<1>3. I => NoDangling
  BY RootedNoDangling
<1> QED
  BY <1>1, <1>2, <1>3, PTL DEF Spec

(* Until the list is full, and as long as no file is removed or renamed,   *)
(* every handler commits with one store, add_root's root number, wherever  *)
(* the process dies and whether or not the inode table is full.            *)
THEOREM CommitAtomicWhileRoom ==
  ASSUME RoomForAll, KeepingCalls
  PROVE  Spec => CommitAtomic
<1>1. Spec => []NoDangling
  BY NoDanglingWhileRoom
<1>2. Spec /\ []NoDangling => CommitAtomic
  BY CommitAtomicIfAllocated
<1> QED
  BY <1>1, <1>2

(* Without utimens, too, an older version shows the same for ever: copies, *)
(* climbs, pushes, rollbacks and deaths never write to an inode it reads.  *)
THEOREM VersionsFrozenWhileRoom ==
  ASSUME RoomForAll, KeepingCalls, \A q \in Calls : q.call \notin InPlace
  PROVE  Spec => VersionsFrozen
<1>1. Spec => []NoDangling
  BY NoDanglingWhileRoom
<1>2. Spec /\ []NoDangling => VersionsFrozen
  BY VersionsFrozenIfAllocated
<1> QED
  BY <1>1, <1>2
=============================================================================
