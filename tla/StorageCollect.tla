--------------------------- MODULE StorageCollect ---------------------------
(***************************************************************************)
(* The collector frees nothing that a listed version still reaches: as     *)
(* long as there is no rollback, labels hold whole paths, and the calls    *)
(* are those whose labels say what they copied.                            *)
(***************************************************************************)
EXTENDS StorageProofs, SequenceTheorems

-----------------------------------------------------------------------------
(* Versions as trees.                                                      *)

\* The numbers in the entries of a directory; -1 is what mknod stores when
\* it finds the table full.
Ents(d, i) == {d.ino[i].ent[k].inum : k \in DOMAIN d.ino[i].ent}

\* Two directories of S never lead to the same inode.
OneDir(d, S) == \A i, j \in S : \A x \in Ents(d, i) \cap Ents(d, j) : x < 0 \/ i = j

(* V holds everything that can be reached from root r, every inode of it   *)
(* from one directory only, and D is the depth of each.                    *)
Tree(d, r, V, D) ==
    /\ r \in V /\ D[r] = 0
    /\ V \subseteq d.ibm
    /\ \A i \in V : \A x \in Ents(d, i) : x < 0 \/ (x \in V /\ D[x] = D[i] + 1)
    /\ OneDir(d, V)

(* What a climb has made of the tree V so far: C are the inodes it has     *)
(* copied, the last of them o, and F the inodes it made, n on top of them. *)
(* Copies lead to copies and to what was not copied; only the directory    *)
(* that comes next still leads to o.                                       *)
Grown(d, V, D, F, C, o, n) ==
    /\ F \subseteq d.ibm \ {0} /\ F \cap V = {} /\ n \in F
    /\ C \subseteq V /\ o \in C
    /\ D[n] = D[o] /\ \A x \in C \cup F : D[x] >= D[o]
    /\ \A i \in F : \A x \in Ents(d, i) :
          x < 0 \/ (x \in F \cup (V \ C) /\ D[x] = D[i] + 1)
    /\ \A i \in V \ C : \A x \in Ents(d, i) : x < 0 \/ x \in (V \ C) \cup {o}
    /\ OneDir(d, F \cup (V \ C))

\* e leaves the inodes of S as they are in d.
Same(d, e, S) == S \subseteq e.ibm /\ \A i \in S : e.ino[i].ent = d.ino[i].ent

Depth == [Inum -> Nat]

(* Same inodes have the same entries.                                      *)
LEMMA SameEnts ==
  ASSUME NEW d, NEW e, NEW S, Same(d, e, S), NEW i \in S
  PROVE  Ents(e, i) = Ents(d, i)
  BY DEF Same, Ents

(* A tree stays one when its inodes stay as they are.                      *)
LEMMA TreeKept ==
  ASSUME NEW d, NEW e, NEW r, NEW V, NEW D, NEW E, Tree(d, r, V, D), Same(d, e, V),
         \A i \in V : E[i] = D[i]
  PROVE  Tree(e, r, V, E)
<1>1. \A i \in V : Ents(e, i) = Ents(d, i)
  BY SameEnts
<1>2. OneDir(e, V)
  BY <1>1 DEF Tree, OneDir
<1>3. \A i \in V : \A x \in Ents(e, i) : x < 0 \/ (x \in V /\ E[x] = E[i] + 1)
  BY <1>1 DEF Tree
<1> QED
  BY <1>2, <1>3 DEF Tree, Same

(* A climb begins: c is a copy of o with the new inodes G in it.           *)
LEMMA GrownStart ==
  ASSUME NEW d \in Table, NEW e \in Table, NEW r, NEW V, NEW D \in Depth, Tree(d, r, V, D),
         Same(d, e, V), NEW o \in V, NEW c \in e.ibm \ V, c # 0,
         NEW G \in SUBSET e.ibm, G \cap (V \cup {c, 0}) = {},
         \A g \in G : Ents(e, g) = {},
         \A x \in Ents(e, c) : x < 0 \/ x \in G \/ x \in Ents(d, o),
         NEW E, E = [i \in Inum |-> IF i = c THEN D[o] ELSE
                                    IF i \in G THEN D[o] + 1 ELSE D[i]]
  PROVE  Tree(e, r, V, E) /\ Grown(e, V, E, {c} \cup G, {o}, o, c)
<1> DEFINE F == {c} \cup G
           M == F \cup (V \ {o})
<1>0. e.ibm \subseteq Inum /\ V \subseteq Inum /\ Inum \subseteq Nat
  BY NumFacts, TableParts DEF Tree, Same
<1>1. /\ \A i \in V : E[i] = D[i] /\ D[i] \in Nat
      /\ E[c] = D[o] /\ \A g \in G : E[g] = D[o] + 1
  BY <1>0 DEF Depth
<1>2. Tree(e, r, V, E)
  BY <1>1, TreeKept
<1>3. \A i \in V : Ents(e, i) = Ents(d, i)
  BY SameEnts
<1>4. F \subseteq e.ibm \ {0} /\ F \cap V = {} /\ c \in F
  BY <1>0 DEF Tree
<1>5. E[c] = E[o] /\ \A x \in {o} \cup F : E[x] >= E[o]
  BY <1>1
<1>6. \A x \in Ents(d, o) : x < 0 \/ (x \in V \ {o} /\ E[x] = E[c] + 1)
  BY <1>1 DEF Tree
<1>7. \A i \in F : \A x \in Ents(e, i) : x < 0 \/ (x \in M /\ E[x] = E[i] + 1)
  BY <1>1, <1>6
<1>8. \A i \in V \ {o} : \A x \in Ents(e, i) : x < 0 \/ x \in (V \ {o}) \cup {o}
  BY <1>3 DEF Tree
<1>9. OneDir(e, M)
  <2> SUFFICES ASSUME NEW i \in M, NEW j \in M, NEW x \in Ents(e, i) \cap Ents(e, j), ~(x < 0)
               PROVE  i = j
    BY DEF OneDir
  <2>1. CASE i \in V /\ j \in V
    BY <1>2, <2>1 DEF Tree, OneDir
  <2>2. ASSUME NEW k \in V \ {o}, x \in Ents(e, k), x \in Ents(e, c) PROVE FALSE
    <3>1. x \in V
      BY <1>3, <2>2 DEF Tree
    <3>2. x \in Ents(d, o) /\ x \in Ents(d, k)
      BY <1>3, <2>2, <3>1
    <3> QED
      BY <2>2, <3>2 DEF Tree, OneDir
  <2> QED
    BY <2>1, <2>2
<1> QED
  BY <1>2, <1>4, <1>5, <1>7, <1>8, <1>9 DEF Grown

(* A climb goes on: c is a copy of the directory dir that leads to o, with *)
(* n in place of o.                                                        *)
LEMMA GrownUp ==
  ASSUME NEW d \in Table, NEW e \in Table, NEW r, NEW V, NEW D \in Depth, Tree(d, r, V, D),
         NEW F, NEW C, NEW o, NEW n, Grown(d, V, D, F, C, o, n),
         Same(d, e, d.ibm), NEW dir \in V, o \in Ents(d, dir), 0 \in d.ibm,
         NEW c \in e.ibm \ d.ibm,
         \A x \in Ents(e, c) : x = n \/ (x \in Ents(d, dir) /\ x # o),
         NEW E, E[c] = D[dir], \A i \in Inum \ {c} : E[i] = D[i]
  PROVE  Tree(e, r, V, E) /\ Grown(e, V, E, F \cup {c}, C \cup {dir}, dir, c)
<1> DEFINE FF == F \cup {c}
           CC == C \cup {dir}
           M  == F \cup (V \ C)
           MM == FF \cup (V \ CC)
<1>0. /\ e.ibm \subseteq Inum /\ V \subseteq Inum /\ F \subseteq Inum /\ Inum \subseteq Nat
      /\ V \subseteq d.ibm /\ F \subseteq d.ibm /\ c \notin V /\ c \notin F /\ c # 0
  BY NumFacts, TableParts DEF Tree, Grown
<1>1. /\ \A i \in V : E[i] = D[i] /\ D[i] \in Nat
      /\ \A i \in F : E[i] = D[i] /\ D[i] \in Nat
      /\ E[c] = D[dir] /\ D[o] = D[dir] + 1 /\ o \in V /\ ~(o < 0)
  <2>1. o \in V /\ ~(o < 0)
    BY <1>0 DEF Grown
  <2>2. D[o] = D[dir] + 1
    BY <2>1 DEF Tree
  <2> QED
    BY <1>0, <2>1, <2>2 DEF Depth
<1>2. Tree(e, r, V, E)
  <2>1. Same(d, e, V)
    BY <1>0 DEF Same
  <2>2. \A i \in V : E[i] = D[i]
    BY <1>1
  <2> QED
    BY <2>1, <2>2, TreeKept
<1>3. \A i \in V \cup F : Ents(e, i) = Ents(d, i)
  BY <1>0, SameEnts
<1>4. dir \notin C
  BY <1>1 DEF Grown
<1>5. FF \subseteq e.ibm \ {0} /\ FF \cap V = {} /\ c \in FF /\ CC \subseteq V
  <2>1. F \subseteq d.ibm \ {0} /\ F \cap V = {} /\ C \subseteq V
    BY DEF Grown
  <2>2. d.ibm \subseteq e.ibm
    BY DEF Same
  <2> QED
    BY <1>0, <2>1, <2>2
<1>6. E[c] = E[dir] /\ \A x \in CC \cup FF : E[x] >= E[dir]
  BY <1>1 DEF Grown
<1>7. \A i \in V \ C : \A x \in Ents(d, i) : x < 0 \/ x \in V \ C \/ (x = o /\ i = dir)
  BY <1>1 DEF Grown, Tree, OneDir
<1>8. \A x \in Ents(e, c) : x < 0 \/ (x \in F \cup (V \ CC) /\ E[x] = E[c] + 1)
  <2> TAKE x \in Ents(e, c)
  <2>1. CASE x = n
    BY <1>1, <2>1 DEF Grown
  <2>2. CASE x \in Ents(d, dir) /\ x # o
    <3>1. x < 0 \/ (x \in V \ C /\ D[x] = D[dir] + 1)
      BY <1>4, <1>7, <2>2 DEF Tree
    <3> QED
      BY <1>1, <3>1
  <2> QED
    BY <2>1, <2>2
<1>9. \A i \in F : \A x \in Ents(e, i) : x < 0 \/ (x \in F \cup (V \ CC) /\ E[x] = E[i] + 1)
  <2> TAKE i \in F
  <2> TAKE x \in Ents(e, i)
  <2>1. x < 0 \/ (x \in M /\ D[x] = D[i] + 1)
    BY <1>3 DEF Grown
  <2>2. D[i] >= D[o]
    BY DEF Grown
  <2> QED
    BY <1>1, <2>1, <2>2
<1>10. \A i \in V \ CC : \A x \in Ents(e, i) : x < 0 \/ x \in (V \ CC) \cup {dir}
  BY <1>3, <1>7
<1>11. OneDir(e, MM)
  <2> SUFFICES ASSUME NEW i \in MM, NEW j \in MM, NEW x \in Ents(e, i) \cap Ents(e, j), ~(x < 0)
               PROVE  i = j
    BY DEF OneDir
  <2>1. CASE i \in M /\ j \in M
    BY <1>3, <2>1 DEF Grown, OneDir
  <2>2. ASSUME NEW k \in F \cup (V \ CC), x \in Ents(e, k), x \in Ents(e, c) PROVE FALSE
    <3>1. x \in Ents(d, k) /\ k \in M
      BY <1>3, <2>2
    <3>2. CASE x = n
      <4>1. n \in F /\ n \notin V /\ D[n] = D[o]
        BY DEF Grown
      <4>2. k \notin F
        BY <1>1, <3>1, <3>2, <4>1 DEF Grown
      <4>3. k \in V
        BY <2>2, <4>2
      <4> QED
        BY <3>1, <3>2, <4>1, <4>3 DEF Tree
    <3>3. CASE x \in Ents(d, dir)
      <4>1. k = dir
        BY <1>4, <3>1, <3>3 DEF Grown, OneDir
      <4> QED
        BY <2>2, <4>1 DEF Grown
    <3> QED
      BY <2>2, <3>2, <3>3
  <2> QED
    BY <2>1, <2>2
<1> QED
  BY <1>2, <1>5, <1>6, <1>8, <1>9, <1>10, <1>11 DEF Grown

(* A climb that has copied the root has made a tree.                       *)
LEMMA GrownTree ==
  ASSUME NEW d \in Table, NEW r, NEW V, NEW D \in Depth, Tree(d, r, V, D),
         NEW F, NEW C, NEW n, Grown(d, V, D, F, C, r, n)
  PROVE  Tree(d, n, F \cup (V \ C), D)
<1>1. V \subseteq Inum
  BY TableParts DEF Tree
<1>2. \A i \in V : \A x \in Ents(d, i) : x # r \/ x < 0
  BY <1>1 DEF Tree, Depth
<1>3. \A i \in V \ C : \A x \in Ents(d, i) : x < 0 \/ (x \in V \ C /\ D[x] = D[i] + 1)
  BY <1>2 DEF Tree, Grown
<1> QED
  BY <1>3 DEF Tree, Grown

-----------------------------------------------------------------------------
(* Lookups.                                                                *)

(* A path that is not empty has a parent, one name shorter.                *)
LEMMA ParentPath ==
  ASSUME NEW p \in Seq(Name), p # <<>>
  PROVE  /\ Len(p) \in Nat \ {0}
         /\ SubSeq(p, 1, Len(p) - 1) \in Seq(Name)
         /\ Len(SubSeq(p, 1, Len(p) - 1)) = Len(p) - 1
         /\ \A k \in 1 .. Len(p) - 1 : SubSeq(p, 1, Len(p) - 1)[k] = p[k]
<1> DEFINE q == SubSeq(p, 1, Len(p) - 1)
<1>1. Len(p) \in Nat /\ Len(p) # 0
  OBVIOUS
<1>2. q \in Seq(Name) /\ Len(q) = Len(p) - 1 /\ \A k \in 1 .. Len(q) : q[k] = p[k]
  BY <1>1
<1> HIDE DEF q
<1>3. \A k \in 1 .. Len(p) - 1 : q[k] = p[k]
  BY <1>2
<1> QED
  BY <1>1, <1>2, <1>3 DEF q

(* What holds of the empty path, and of every path whose parent it holds   *)
(* of, holds of every path: a shortest one without it would have a parent  *)
(* with it.                                                                *)
LEMMA PathInduction ==
  ASSUME NEW S \in SUBSET Seq(Name), <<>> \in S,
         \A p \in Seq(Name) : p # <<>> /\ SubSeq(p, 1, Len(p) - 1) \in S => p \in S
  PROVE  S = Seq(Name)
<1> DEFINE Bad  == Seq(Name) \ S
           Lens == {Len(p) : p \in Bad}
<1>1. SUFFICES ASSUME Bad # {} PROVE FALSE
  OBVIOUS
<1>2. PICK p \in Bad : \A q \in Bad : Len(p) <= Len(q)
  <2>0. \A q \in Seq(Name) : Len(q) \in Nat
    OBVIOUS
  <2>1. Lens \in SUBSET Nat /\ Lens # {}
    BY <1>1, <2>0
  <2> HIDE DEF Lens
  <2>2. PICK m \in Lens : \A n \in Lens : m <= n
    BY <2>1, NatMin
  <2>3. (\E p \in Bad : Len(p) = m) /\ \A q \in Bad : Len(q) \in Lens
    BY <2>2 DEF Lens
  <2>4. PICK p \in Bad : Len(p) = m
    BY <2>3
  <2> QED
    BY <2>2, <2>3, <2>4
<1>3. p # <<>> /\ p \in Seq(Name)
  BY <1>2
<1> DEFINE q == SubSeq(p, 1, Len(p) - 1)
<1>4. q \in Seq(Name) /\ Len(q) = Len(p) - 1 /\ Len(p) \in Nat
  BY <1>3, ParentPath
<1>5. q \in S
  <2> HIDE DEF q
  <2>1. ~(Len(p) <= Len(q))
    BY <1>3, <1>4
  <2> QED
    BY <1>2, <1>4, <2>1
<1> QED
  BY <1>2, <1>3, <1>5

(* A lookup answers an entry, or that there is none.                       *)
LEMMA LookupEntry ==
  ASSUME NEW d \in Table, NEW i \in Num, NEW name
  PROVE  directory_lookup(d.ino[i], name) \in Ents(d, i) \cup {ENOENT}
<1> DEFINE n == d.ino[i]
           H == Hits(n, name)
<1>1. n.ent \in Seq(ddirent)
  BY InodeParts
<1>2. H \subseteq DOMAIN n.ent /\ H \in SUBSET Nat
  BY <1>1 DEF Hits
<1>3. CASE H = {}
  BY <1>3 DEF directory_lookup
<1>4. CASE H # {}
  <2> HIDE DEF H
  <2>1. \E m \in H : \A y \in H : m <= y
    BY <1>2, <1>4, NatMin
  <2>2. Least(H) \in H
    BY <2>1 DEF Least
  <2>3. directory_lookup(n, name) = n.ent[Least(H)].inum
    BY <1>4 DEF directory_lookup, H
  <2> QED
    BY <1>2, <2>2, <2>3 DEF Ents
<1> QED
  BY <1>3, <1>4

(* A path in a tree leads to an inode of the tree at its own depth.        *)
LEMMA TreeLookup ==
  ASSUME NEW d \in Table, NEW r, NEW V, NEW D \in Depth, Tree(d, r, V, D), NEW p \in Seq(Name)
  PROVE  LET i == Lookup(d, p, r) IN i \in Int /\ (i < 0 \/ (i \in V /\ D[i] = Len(p)))
<1> DEFINE Fit(i, q) == i \in Int /\ (i < 0 \/ (i \in V /\ D[i] = Len(q)))
           Ok(q) == Fit(Lookup(d, q, r), q)
           S == {q \in Seq(Name) : Ok(q)}
<1>0. V \subseteq Inum /\ Inum \subseteq Nat
  BY NumFacts, TableParts DEF Tree
<1>1. <<>> \in S
  <2>1. Lookup(d, <<>>, r) = r
    BY LookupRoot DEF Lookup
  <2>2. r \in V /\ D[r] = 0
    BY DEF Tree
  <2>0. r \in Int
    BY <1>0, <2>2
  <2>3. Len(<<>>) = 0 /\ <<>> \in Seq(Name)
    OBVIOUS
  <2>4. Ok(<<>>)
    BY <2>0, <2>1, <2>2, <2>3
  <2> HIDE DEF Ok
  <2> QED
    BY <2>3, <2>4
<1>2. ASSUME NEW q \in Seq(Name), q # <<>>, SubSeq(q, 1, Len(q) - 1) \in S
      PROVE  q \in S
  <2> DEFINE u == SubSeq(q, 1, Len(q) - 1)
             i == Lookup(d, u, r)
  <2>1. u \in Seq(Name) /\ Len(q) = Len(u) + 1
    BY <1>2, ParentPath
  <2>2. Lookup(d, q, r) = IF i < 0 THEN i ELSE directory_lookup(d.ino[i], q[Len(q)])
    BY <1>2, LookupStep DEF Lookup
  <2>3. Ok(u)
    BY <1>2
  <2> HIDE DEF u
  <2>4. CASE i < 0
    <3>1. Lookup(d, q, r) = i /\ i \in Int
      BY <2>2, <2>3, <2>4
    <3> HIDE DEF i
    <3> QED
      BY <2>4, <3>1
  <2>5. CASE ~(i < 0)
    <3>1. i \in V /\ D[i] = Len(u) /\ i \in Num
      BY <1>0, <2>3, <2>5 DEF Num
    <3> HIDE DEF i
    <3>2. directory_lookup(d.ino[i], q[Len(q)]) \in Ents(d, i) \cup {ENOENT}
      BY <3>1, LookupEntry
    <3>3. directory_lookup(d.ino[i], q[Len(q)]) \in Int
      BY <3>1, DirectoryLookupType
    <3> QED
      BY <2>1, <2>2, <2>5, <3>1, <3>2, <3>3 DEF Tree, ENOENT
  <2> QED
    BY <2>4, <2>5
<1>3. S = Seq(Name)
  <2> HIDE DEF Ok
  <2>1. S \in SUBSET Seq(Name)
    OBVIOUS
  <2> HIDE DEF S
  <2> QED
    BY <1>1, <1>2, <2>1, PathInduction
<1> QED
  BY <1>3

(* Tables in which the inodes of the tree are the same answer the same.    *)
LEMMA TreeSameLookup ==
  ASSUME NEW d \in Table, NEW e, NEW r, NEW V, NEW D \in Depth, Tree(d, r, V, D),
         Same(d, e, V), NEW p \in Seq(Name)
  PROVE  Lookup(e, p, r) = Lookup(d, p, r)
<1> DEFINE S == {q \in Seq(Name) : Lookup(e, q, r) = Lookup(d, q, r)}
<1>1. <<>> \in S
  BY LookupRoot DEF Lookup
<1>2. ASSUME NEW q \in Seq(Name), q # <<>>, SubSeq(q, 1, Len(q) - 1) \in S
      PROVE  q \in S
  <2> DEFINE u == SubSeq(q, 1, Len(q) - 1)
             i == Lookup(d, u, r)
  <2>1. u \in Seq(Name) /\ Lookup(e, u, r) = i
    BY <1>2
  <2>2. /\ Lookup(d, q, r) = IF i < 0 THEN i ELSE directory_lookup(d.ino[i], q[Len(q)])
        /\ Lookup(e, q, r) = IF i < 0 THEN i ELSE directory_lookup(e.ino[i], q[Len(q)])
    <3>1. Lookup(d, q, r) = IF Lookup(d, u, r) < 0 THEN Lookup(d, u, r)
                            ELSE directory_lookup(d.ino[Lookup(d, u, r)], q[Len(q)])
      BY <1>2, LookupStep DEF Lookup
    <3>2. Lookup(e, q, r) = IF Lookup(e, u, r) < 0 THEN Lookup(e, u, r)
                            ELSE directory_lookup(e.ino[Lookup(e, u, r)], q[Len(q)])
      BY <1>2, LookupStep DEF Lookup
    <3> QED
      BY <2>1, <3>1, <3>2
  <2>3. ~(i < 0) => i \in V
    BY <2>1, TreeLookup
  <2> HIDE DEF i
  <2>4. i \in V => directory_lookup(e.ino[i], q[Len(q)]) = directory_lookup(d.ino[i], q[Len(q)])
    BY DEF Same, directory_lookup, Hits
  <2> QED
    BY <2>2, <2>3, <2>4
<1>3. S = Seq(Name)
  <2>1. S \in SUBSET Seq(Name)
    OBVIOUS
  <2> HIDE DEF S
  <2> QED
    BY <1>1, <1>2, <2>1, PathInduction
<1> QED
  BY <1>3

(* When an inode is freed, a path leads where it led, or nowhere.          *)
LEMMA FreedLookup ==
  ASSUME NEW d \in Table, NEW i \in Inum, NEW r, NEW p \in Seq(Name)
  PROVE  Lookup(free_inode(d, i), p, r) \in {Lookup(d, p, r), ENOENT}
<1> DEFINE e == free_inode(d, i)
           S == {q \in Seq(Name) : Lookup(e, q, r) \in {Lookup(d, q, r), ENOENT}}
<1>0. /\ i \in Num /\ e.ino[i].ent = <<>>
      /\ \A j : j # i => e.ino[j] = d.ino[j]
  BY TableParts DEF free_inode, Emptied, inode, Num
<1> HIDE DEF e
<1>1. <<>> \in S
  BY LookupRoot DEF Lookup
<1>2. ASSUME NEW q \in Seq(Name), q # <<>>, SubSeq(q, 1, Len(q) - 1) \in S
      PROVE  q \in S
  <2> DEFINE u == SubSeq(q, 1, Len(q) - 1)
             k == Lookup(d, u, r)
             l == Lookup(e, u, r)
             x == q[Len(q)]
  <2>1. u \in Seq(Name) /\ l \in {k, ENOENT}
    BY <1>2
  <2>2. /\ Lookup(d, q, r) = IF k < 0 THEN k ELSE directory_lookup(d.ino[k], x)
        /\ Lookup(e, q, r) = IF l < 0 THEN l ELSE directory_lookup(e.ino[l], x)
    BY <1>2, <2>1, LookupStep DEF Lookup
  <2>3. k # i => directory_lookup(e.ino[k], x) = directory_lookup(d.ino[k], x)
    BY <1>0 DEF directory_lookup, Hits
  <2>4. directory_lookup(e.ino[i], x) = ENOENT
    BY <1>0 DEF directory_lookup, Hits
  <2> HIDE DEF k, l, x, u
  <2>5. ENOENT < 0
    BY DEF ENOENT
  <2> QED
    BY <2>1, <2>2, <2>3, <2>4, <2>5
<1>3. S = Seq(Name)
  <2>1. S \in SUBSET Seq(Name)
    OBVIOUS
  <2> HIDE DEF S
  <2> QED
    BY <1>1, <1>2, <2>1, PathInduction
<1> QED
  BY <1>3 DEF e

-----------------------------------------------------------------------------
(* Prefixes.                                                               *)

(* A path has itself, the root, and its parents for prefixes.              *)
LEMMA PrefixFacts ==
  ASSUME NEW t \in Seq(Name)
  PROVE  /\ IsPrefixOf(t, t) /\ IsPrefixOf(<<>>, t)
         /\ \A p \in Seq(Name) : p # <<>> /\ IsPrefixOf(p, t) =>
               IsPrefixOf(SubSeq(p, 1, Len(p) - 1), t)
<1>1. IsPrefixOf(t, t)
  BY DEF IsPrefixOf
<1>2. IsPrefixOf(<<>>, t)
  BY DEF IsPrefixOf
<1>3. ASSUME NEW p \in Seq(Name), p # <<>>, IsPrefixOf(p, t)
      PROVE  IsPrefixOf(SubSeq(p, 1, Len(p) - 1), t)
  <2> DEFINE u == SubSeq(p, 1, Len(p) - 1)
  <2>1. /\ Len(p) \in Nat \ {0} /\ Len(u) = Len(p) - 1
        /\ \A k \in 1 .. Len(p) - 1 : u[k] = p[k]
    BY <1>3, ParentPath
  <2>2. Len(p) <= Len(t) /\ \A k \in 1 .. Len(p) : p[k] = t[k]
    BY <1>3 DEF IsPrefixOf
  <2> HIDE DEF u
  <2>3. Len(t) \in Nat
    OBVIOUS
  <2> QED
    BY <2>1, <2>2, <2>3 DEF IsPrefixOf, u
<1> QED
  BY <1>1, <1>2, <1>3

(* Two prefixes of a path with the same length are the same.               *)
LEMMA SamePrefix ==
  ASSUME NEW t \in Seq(Name), NEW p \in Seq(Name), NEW q \in Seq(Name),
         IsPrefixOf(p, t), IsPrefixOf(q, t), Len(p) = Len(q)
  PROVE  p = q
<1>1. \A k \in 1 .. Len(p) : p[k] = q[k]
  BY DEF IsPrefixOf
<1> QED
  BY <1>1, SeqEqual

-----------------------------------------------------------------------------
(* Labels, and what may be collected for them.                             *)

\* The calls whose copies are those on the path of their label.
Copying == OnParent \cup (OnPath \ {"set"})

\* The path whose inodes are freed for a label, or for the handler that
\* will write it.
Named(op) ==
    CASE op.call \in OnParent -> dirname(op.path)
      [] op.call \in OnPath   -> op.path
      [] OTHER                -> NoPath

\* On the way along t from root ro there is nothing of V, but inode 0.
Spared(d, ro, t, V) ==
    t # NoPath => \A p \in Seq(Name) : IsPrefixOf(p, t) => Lookup(d, p, ro) \notin V \ {0}

(* What the theorems assume of the world: no rollback, no death within the *)
(* push, the calls whose labels say what they copied, in labels long       *)
(* enough for their paths, and link only within one directory.             *)
PlainHistory ==
    /\ ~Rollbacks
    /\ KillAt \subseteq {"serve", "climb", "finish"}
    /\ \A q \in Calls :
          /\ q.call \in Copying
          /\ Clip(q.call, q.path) = q.path
          /\ q.call \in {"mknod", "chmod"} => q.mode # "none"
          /\ q.call = "link" => dirname(q.path) = dirname(q.to)

-----------------------------------------------------------------------------
(* The inductive invariant.  V gives the inodes of the version in each     *)
(* slot, P those of the version being pushed, and D every inode's depth.   *)

\* The oldest version is given up from its collection on, until the first
\* store of the shift overwrites it.
Live(s) == s = Oldest => ph # "gc" /\ (ph = "shift" => ii < Oldest)

Trees(D, V) ==
    /\ D[0] = 0
    /\ \A s \in RL!Slot : Live(s) => Tree(fs, rl[s].rnum, V[s], D)

\* Between slots s and s + 1 lies a call, but where the shift has made the
\* two the same.
Proper(s) == ph \in {"idle", "off"} \/ s # ii

\* What the label in slot s frees in the version before it, no version
\* from s on reads.
Pairs(V, P) ==
    \A s \in 0 .. Oldest - 1 : Proper(s) =>
        /\ Spared(fs, rl[s + 1].rnum, Named(rl[s].op), P)
        /\ \A t \in 0 .. s : Spared(fs, rl[s + 1].rnum, Named(rl[s].op), V[t])

Doubled(V) ==
    (ph = "shift" /\ ii < Oldest) \/ ph = "rnum" =>
        rl[ii + 1] = rl[ii] /\ V[ii + 1] = V[ii]

\* The version on its way into slot 0.
Pending(D, P) ==
    ph \in {"gc", "shift", "rnum"} =>
        /\ Tree(fs, entry.rnum, P, D)
        /\ Spared(fs, rl[0].rnum, Named(entry.op), P)

Stored(V, P) ==
    ph \in {"vnum", "op"} =>
        /\ V[0] = P
        /\ Spared(fs, rl[1].rnum, Named(entry.op), P)

\* With no inode free alloc_inode answers -1, and inode 0 stands for every
\* copy.
NoCopies == job.new = 0 /\ Inum \subseteq fs.ibm

\* The climb has copied what lies on the path of its label, from its end
\* up to where it is.
Climbed(D, V, F, C) ==
    /\ Grown(fs, V[0], D, F, C, job.old, job.new)
    /\ \A s \in RL!Slot : F \cap V[s] = {}
    /\ IsPrefixOf(job.left, Named(job))
    /\ job.old = Lookup(fs, job.left, rl[0].rnum)
    /\ \A p \in Seq(Name) : IsPrefixOf(p, Named(job)) /\ Len(p) >= Len(job.left) =>
          Lookup(fs, p, rl[0].rnum) \in C

Climbs(D, V) ==
    job.stage = "climb" => NoCopies \/ \E F, C \in SUBSET Inum : Climbed(D, V, F, C)

Collects ==
    ph = "gc" => \/ job.gc = NoPath
                 \/ /\ Named(rl[Oldest - 1].op) # NoPath
                    /\ IsPrefixOf(job.gc, Named(rl[Oldest - 1].op))

\* Of the handlers, the labels and the table.
Handlers ==
    /\ job.stage \in {"serve", "climb", "push"}
    /\ job.call \in Copying \cup {""}
    /\ job.stage = "climb" => /\ ph = "idle"
                              /\ job.call \in Copying
                              /\ Clip(job.call, job.path) = job.path

NoSet == entry.op.call # "set" /\ \A s \in RL!Slot : rl[s].op.call # "set"

Modes ==
    /\ 0 \in fs.ibm /\ fs.ino[0].ent = <<>>
    /\ \A i \in fs.ibm : fs.ino[i].mode # "none"

Plain == Handlers /\ Collects /\ NoSet /\ Modes

Safe(D, V, P) ==
    /\ Trees(D, V) /\ Pairs(V, P) /\ Doubled(V)
    /\ Pending(D, P) /\ Stored(V, P)
    /\ Climbs(D, V)

Sets == [RL!Slot -> SUBSET Inum]

Collectable == Plain /\ \E D \in Depth, V \in Sets, P \in SUBSET Inum : Safe(D, V, P)

(* With these trees NoDangling holds.                                      *)
LEMMA SafeNoDangling ==
  ASSUME TypeOK, Modes, NEW D \in Depth, NEW V \in Sets, Trees(D, V)
  PROVE  NoDangling
<1> SUFFICES ASSUME NEW s \in Kept, NEW i \in Reach(fs, rl[s].rnum)
             PROVE  i \in fs.ibm /\ fs.ino[i].mode # "none"
  BY DEF NoDangling
<1>1. s \in RL!Slot /\ Live(s) /\ fs \in Table
  BY DEF Kept, Live, TypeOK
<1>2. Tree(fs, rl[s].rnum, V[s], D)
  BY <1>1 DEF Trees
<1>3. PICK p \in Path : i = Lookup(fs, p, rl[s].rnum) /\ Lookup(fs, p, rl[s].rnum) >= 0
  BY DEF Reach, Present
<1>4. i < 0 \/ i \in V[s]
  BY <1>1, <1>2, <1>3, TreeLookup, PathFacts
<1>5. V[s] \subseteq fs.ibm /\ fs.ibm \in SUBSET Inum /\ Inum \subseteq Nat
  BY <1>1, <1>2, TableParts, NumFacts DEF Tree
<1>6. i \in V[s]
  <2>1. Lookup(fs, p, rl[s].rnum) \in Int
    BY <1>1, <1>2, TreeLookup, PathFacts
  <2> QED
    BY <1>3, <1>4, <2>1
<1> QED
  BY <1>5, <1>6 DEF Modes

-----------------------------------------------------------------------------
(* Steps that change neither the list nor, before their commit, what its   *)
(* versions read.                                                          *)

Calm == ph \in {"idle", "off"}

(* Outside the push every version in the list is a tree.                   *)
LEMMA CalmTrees ==
  ASSUME Calm, NEW D, NEW V, Trees(D, V), NEW s \in RL!Slot
  PROVE  Tree(fs, rl[s].rnum, V[s], D)
  BY DEF Calm, Trees, Live

(* What holds of the versions in the list goes on to hold when inodes are  *)
(* added to the table.                                                     *)
LEMMA ListedGrow ==
  ASSUME TypeOK, NEW D \in Depth, NEW V \in Sets, NEW P, Trees(D, V), Pairs(V, P),
         Modes, Calm, Calm', UNCHANGED <<rl, ii, entry>>,
         Untouched(fs, fs'), NEW E \in Depth, \A i \in fs.ibm : E[i] = D[i]
  PROVE  Trees(E, V)' /\ Pairs(V, P)' /\ Doubled(V)' /\ Pending(E, P)' /\ Stored(V, P)'
<1>1. ASSUME NEW s \in RL!Slot
      PROVE  /\ Tree(fs, rl[s].rnum, V[s], D) /\ V[s] \subseteq fs.ibm
             /\ Same(fs, fs', V[s])
  <2>1. Tree(fs, rl[s].rnum, V[s], D)
    BY <1>1, CalmTrees
  <2> QED
    BY <2>1 DEF Tree, Same, Untouched
<1>2. Trees(E, V)'
  <2>1. ASSUME NEW s \in RL!Slot PROVE Tree(fs', rl[s].rnum, V[s], E)
    BY <1>1, <2>1, TreeKept
  <2>2. E[0] = 0
    BY DEF Trees, Modes
  <2> QED
    BY <2>1, <2>2 DEF Trees
<1>3. Pairs(V, P)'
  <2>1. ASSUME NEW s \in 0 .. Oldest - 1, NEW t, NEW U,
               Spared(fs, rl[s + 1].rnum, t, U)
        PROVE  Spared(fs', rl[s + 1].rnum, t, U)
    <3>1. s + 1 \in RL!Slot
      BY SlotFacts DEF RL!Slot, Oldest
    <3>2. /\ Tree(fs, rl[s + 1].rnum, V[s + 1], D) /\ Same(fs, fs', V[s + 1])
          /\ fs \in Table
      BY <1>1, <3>1 DEF TypeOK
    <3>3. \A p \in Seq(Name) : Lookup(fs', p, rl[s + 1].rnum) = Lookup(fs, p, rl[s + 1].rnum)
      BY <3>2, TreeSameLookup
    <3> QED
      BY <2>1, <3>3 DEF Spared
  <2>2. \A s \in 0 .. Oldest - 1 :
           /\ Spared(fs, rl[s + 1].rnum, Named(rl[s].op), P)
           /\ \A t \in 0 .. s : Spared(fs, rl[s + 1].rnum, Named(rl[s].op), V[t])
    BY DEF Pairs, Proper, Calm
  <2> QED
    BY <2>1, <2>2 DEF Pairs
<1>4. Doubled(V)' /\ Pending(E, P)' /\ Stored(V, P)'
  BY DEF Calm, Doubled, Pending, Stored
<1> QED
  BY <1>2, <1>3, <1>4

(* A handler comes to its climb: it has copied the inode o at the end of   *)
(* its path to c and made the inodes G, or there was no room.              *)
LEMMA ClimbBegins ==
  ASSUME TypeOK, TypeOK', Plain, NEW D \in Depth, NEW V \in Sets, NEW P \in SUBSET Inum,
         Safe(D, V, P), ph = "idle", UNCHANGED list, Untouched(fs, fs'), Modes',
         NEW q, q.call \in Copying, Clip(q.call, q.path) = q.path,
         NEW p \in Path, p = Named(q), NEW o \in Inum, o = Lookup(fs, p, rl[0].rnum),
         NEW c \in Num, c \notin fs.ibm,
         c \in fs'.ibm \/ (c = NoInode /\ Inum \subseteq fs'.ibm),
         job' = [call |-> q.call, stage |-> "climb", path |-> q.path,
                 left |-> p, old |-> o, new |-> inum_field(c), gc |-> NoPath],
         NEW G \in SUBSET fs'.ibm, G \cap (fs.ibm \cup {c}) = {},
         \A g \in G : Ents(fs', g) = {},
         c # NoInode => \A x \in Ents(fs', c) : x < 0 \/ x \in G \/ x \in Ents(fs, o)
  PROVE  Collectable'
<1>1. /\ rl' = rl /\ ph' = ph /\ ii' = ii /\ entry' = entry /\ Calm /\ Calm'
      /\ fs \in Table /\ fs' \in Table
  BY DEF list, Calm, TypeOK
<1>2. Plain'
  BY <1>1 DEF Plain, Handlers, Collects, NoSet
<1>3. o \in V[0] /\ p \in Seq(Name) /\ Tree(fs, rl[0].rnum, V[0], D)
  <2>1. Tree(fs, rl[0].rnum, V[0], D) /\ p \in Seq(Name)
    BY <1>1, CalmTrees, SlotFacts, PathFacts DEF Safe
  <2>2. o < 0 \/ o \in V[0]
    BY <1>1, <2>1, TreeLookup
  <2> QED
    BY <2>1, <2>2, NumFacts
<1>4. CASE c \notin fs'.ibm
  <2>1. Trees(D, V)' /\ Pairs(V, P)' /\ Doubled(V)' /\ Pending(D, P)' /\ Stored(V, P)'
    BY <1>1, ListedGrow DEF Safe, Plain
  <2>2. NoCopies'
    BY <1>4 DEF NoCopies, inum_field
  <2> QED
    BY <1>2, <2>1, <2>2 DEF Collectable, Safe, Climbs
<1>5. CASE c \in fs'.ibm
  <2> DEFINE E0 == [i \in Inum |-> IF i = c THEN D[o] ELSE IF i \in G THEN D[o] + 1 ELSE D[i]]
  <2>0. PICK E : E = E0
    OBVIOUS
  <2>1. c \in Inum /\ c # NoInode /\ c # 0 /\ inum_field(c) = c /\ 0 \in fs.ibm
    BY <1>1, <1>5, NumFacts, TableParts DEF Plain, Modes, inum_field
  <2>2. /\ E \in Depth /\ \A i \in fs.ibm : E[i] = D[i]
    <3>1. D[o] \in Nat /\ D[o] + 1 \in Nat /\ \A i \in Inum : D[i] \in Nat
      BY DEF Depth
    <3>2. E \in Depth
      BY <2>0, <3>1 DEF Depth
    <3>3. \A i \in fs.ibm : i \in Inum /\ i # c /\ i \notin G
      BY <1>1, TableParts
    <3> QED
      BY <2>0, <3>2, <3>3
  <2>3. Trees(E, V)' /\ Pairs(V, P)' /\ Doubled(V)' /\ Pending(E, P)' /\ Stored(V, P)'
    BY <1>1, <2>2, ListedGrow DEF Safe, Plain
  <2>4. Grown(fs', V[0], E, {c} \cup G, {o}, o, c)
    <3>1. V[0] \subseteq fs.ibm
      BY <1>3 DEF Tree
    <3>2. Same(fs, fs', V[0])
      BY <3>1 DEF Same, Untouched
    <3>3. c \in fs'.ibm \ V[0] /\ G \cap (V[0] \cup {c, 0}) = {}
      BY <1>5, <2>1, <3>1
    <3>4. \A x \in Ents(fs', c) : x < 0 \/ x \in G \/ x \in Ents(fs, o)
      BY <2>1
    <3> HIDE DEF E0
    <3>5. E = [i \in Inum |-> IF i = c THEN D[o] ELSE IF i \in G THEN D[o] + 1 ELSE D[i]]
      BY <2>0 DEF E0
    <3> QED
      BY <1>1, <1>3, <2>1, <3>2, <3>3, <3>4, <3>5, GrownStart, ZenonT(60)
  <2>5. Climbed(E, V, {c} \cup G, {o})'
    <3>1. \A s \in RL!Slot : ({c} \cup G) \cap V[s] = {}
      <4> TAKE s \in RL!Slot
      <4>1. V[s] \subseteq fs.ibm
        BY <1>1, CalmTrees DEF Safe, Tree
      <4> QED
        BY <4>1
    <3>2. Named(job') = p /\ job'.left = p /\ job'.old = o /\ job'.new = c
      BY <2>1 DEF Named
    <3>3. IsPrefixOf(p, p)
      BY <1>3, PrefixFacts
    <3>4. ASSUME NEW u \in Seq(Name), IsPrefixOf(u, p), Len(u) >= Len(p) PROVE u = p
      <4>1. Len(u) = Len(p)
        BY <1>3, <3>4 DEF IsPrefixOf
      <4> QED
        BY <1>3, <3>3, <3>4, <4>1, SamePrefix
    <3>5. \A u \in Seq(Name) : Lookup(fs', u, rl[0].rnum) = Lookup(fs, u, rl[0].rnum)
      <4>1. Same(fs, fs', V[0])
        BY <1>3 DEF Tree, Same, Untouched
      <4> QED
        BY <1>1, <1>3, <4>1, TreeSameLookup
    <3> QED
      BY <1>1, <1>3, <2>4, <3>1, <3>2, <3>3, <3>4, <3>5 DEF Climbed
  <2>6. {c} \cup G \in SUBSET Inum /\ {o} \in SUBSET Inum
    BY <1>1, <2>1, TableParts
  <2>7. Climbs(E, V)'
    BY <2>5, <2>6 DEF Climbs
  <2> QED
    BY <1>2, <2>2, <2>3, <2>7 DEF Collectable, Safe
<1> QED
  BY <1>4, <1>5

-----------------------------------------------------------------------------
(* The handlers up to their climb.                                         *)

\* c is what alloc_inode answered for table d, and e the table after it.
Taken(d, e, c) ==
    /\ c \in Num /\ c \notin d.ibm
    /\ d.ibm \subseteq e.ibm /\ \A j \in e.ibm : j \in d.ibm \/ j = c
    /\ c \in e.ibm \/ (c = NoInode /\ Inum \subseteq e.ibm)

(* alloc_inode takes a free number, or answers -1 when there is none.      *)
LEMMA AllocTaken ==
  ASSUME NEW d \in Table
  PROVE  Taken(d, alloc_inode(d), NextFree(d))
<1>1. NextFree(d) \in Num /\ NextFree(d) \notin d.ibm
  BY NextFreeType
<1>2. CASE Inum \ d.ibm = {}
  BY <1>1, <1>2 DEF Taken, alloc_inode, NextFree
<1>3. CASE Inum \ d.ibm # {}
  <2> DEFINE c == NextFree(d)
  <2>1. alloc_inode(d).ibm = d.ibm \cup {c}
    BY <1>3 DEF alloc_inode
  <2> HIDE DEF c
  <2> QED
    BY <1>1, <2>1 DEF Taken, c
<1> QED
  BY <1>2, <1>3

(* A copy is in the slot alloc_inode took, and all else is as it was.      *)
LEMMA CopyTaken ==
  ASSUME NEW d \in Table, NEW i \in Num
  PROVE  LET c == NextFree(d)
             e == copy_inode(d, i)
         IN  /\ e \in Table /\ Taken(d, e, c)
             /\ e.ino[c] = d.ino[i] /\ \A j \in Num \ {c} : e.ino[j] = d.ino[j]
<1> DEFINE c == NextFree(d)
           e == copy_inode(d, i)
<1>1. e \in Table
  BY CopyType
<1>2. e.ibm = alloc_inode(d).ibm /\ e.ino = [d.ino EXCEPT ![c] = d.ino[i]]
  BY DEF copy_inode
<1>3. Taken(d, alloc_inode(d), c) /\ c \in Num
  BY AllocTaken DEF Taken
<1>4. Taken(d, e, c)
  BY <1>2, <1>3 DEF Taken
<1>5. e.ino[c] = d.ino[i] /\ \A j \in Num \ {c} : e.ino[j] = d.ino[j]
  <2> HIDE DEF c
  <2> QED
    BY <1>2, <1>3, TableParts
<1> QED
  BY <1>1, <1>4, <1>5

(* A mode is kept where the table is untouched and given where it is not.  *)
LEMMA ModesGrow ==
  ASSUME Modes, Untouched(fs, fs'), \A j \in fs'.ibm \ fs.ibm : fs'.ino[j].mode # "none"
  PROVE  Modes'
  BY DEF Modes, Untouched

(* write, truncate and chmod climb from the path they were sent.           *)
LEMMA FileBegins ==
  ASSUME TypeOK, TypeOK', Collectable, PlainHistory, ph = "idle", NEW q \in Calls,
         \/ q.call = "write" /\ Write(q)
         \/ q.call = "truncate" /\ Truncate(q)
         \/ q.call = "chmod" /\ Chmod(q)
  PROVE  Collectable'
<1> DEFINE i == tree_lookup(q.path)
           c == NextFree(fs)
           d == copy_inode(fs, i)
<1>0. /\ fs \in Table /\ fs' \in Table /\ Plain /\ Modes
      /\ q.path \in Path /\ q.call \in Copying /\ Clip(q.call, q.path) = q.path
      /\ Named(q) = q.path
  BY StorageAssumption DEF TypeOK, Collectable, Plain, PlainHistory, Named, OnPath, OnParent
<1>1. i \in Inum /\ i \in Num /\ i = Lookup(fs, q.path, rl[0].rnum) /\ inum_field(i) = i
  BY InumNum DEF Write, Truncate, Chmod, IsFile, Exists, Lookup, tree_lookup,
     RL!get_current_root
<1>2. /\ d \in Table /\ Taken(fs, d, c)
      /\ d.ino[c] = fs.ino[i] /\ \A j \in Num \ {c} : d.ino[j] = fs.ino[j]
  BY <1>0, <1>1, CopyTaken
<1>3. Starts(q)
  BY <1>0, WriteStarts, TruncateStarts, ChmodStarts
<1>4. Untouched(fs, fs')
  BY <1>3, StartsUntouched
<1>5. i \in fs.ibm /\ fs.ino[i].mode # "none"
  <2>1. PICK D \in Depth, V \in Sets : Trees(D, V)
    BY DEF Collectable, Safe
  <2>2. Tree(fs, rl[0].rnum, V[0], D)
    BY <2>1, CalmTrees, SlotFacts DEF Calm
  <2>3. i < 0 \/ i \in V[0]
    BY <1>0, <1>1, <2>2, TreeLookup, PathFacts
  <2> QED
    BY <1>0, <1>1, <2>2, <2>3, NumFacts DEF Tree, Modes
<1>6. /\ UNCHANGED list
      /\ job' = [call |-> q.call, stage |-> "climb", path |-> q.path,
                 left |-> q.path, old |-> i, new |-> inum_field(c), gc |-> NoPath]
  BY <1>1 DEF Write, Truncate, Chmod, Update
<1>7. /\ fs'.ibm = d.ibm
      /\ c # NoInode => /\ fs'.ino[c].ent = fs.ino[i].ent
                        /\ fs'.ino[c].mode # "none"
  <2> DEFINE x == Written(d.ino[c].data, q.off, q.bytes)
             y == [k \in 1 .. q.size |-> IF k <= Len(d.ino[c].data) THEN d.ino[c].data[k] ELSE 0]
  <2>1. \/ fs' = [d EXCEPT !.ino[c].data = x]
        \/ fs' = [d EXCEPT !.ino[c].data = y]
        \/ q.mode # "none" /\ fs' = [d EXCEPT !.ino[c].mode = q.mode]
    BY DEF Write, Truncate, Chmod, Update, PlainHistory
  <2> HIDE DEF x, y, c, d, i
  <2>2. d.ino \in [Num -> inode] /\ c \in Num
    BY <1>2, TableParts DEF Taken
  <2> QED
    BY <1>2, <1>5, <2>1, <2>2 DEF Table, inode
<1>8. Modes'
  <2>1. \A j \in fs'.ibm \ fs.ibm : j = c /\ c # NoInode
    BY <1>0, <1>2, <1>7, NumFacts, TableParts DEF Taken
  <2> HIDE DEF c
  <2> QED
    BY <1>0, <1>4, <1>7, <2>1, ModesGrow
<1>9. c # NoInode => Ents(fs', c) = Ents(fs, i)
  BY <1>7 DEF Ents
<1>10. /\ c \in Num /\ c \notin fs.ibm
       /\ c \in fs'.ibm \/ (c = NoInode /\ Inum \subseteq fs'.ibm)
  BY <1>2, <1>7 DEF Taken
<1> HIDE DEF c, d, i
<1> DEFINE G == {}
<1>11. /\ G \in SUBSET fs'.ibm /\ G \cap (fs.ibm \cup {c}) = {}
       /\ \A g \in G : Ents(fs', g) = {}
  OBVIOUS
<1>12. c # NoInode => \A x \in Ents(fs', c) : x < 0 \/ x \in G \/ x \in Ents(fs, i)
  BY <1>9
<1> HIDE DEF G
<1>13. PICK D \in Depth, V \in Sets, P \in SUBSET Inum : Safe(D, V, P)
  BY DEF Collectable
<1> QED
  BY <1>0, <1>1, <1>4, <1>6, <1>8, <1>10, <1>11, <1>12, <1>13, ClimbBegins

(* The inode that mknod makes is an empty one in the slot that was taken.  *)
LEMMA ChildTaken ==
  ASSUME NEW d \in Table, NEW mode \in Mode
  PROVE  LET n == NextFree(d)
             h == Child(d, mode)
         IN  /\ h \in Table /\ Taken(d, h, n)
             /\ n # NoInode => h.ino[n].ent = <<>> /\ h.ino[n].mode = mode
             /\ \A j \in Num \ {n} : h.ino[j] = d.ino[j]
<1> DEFINE n == NextFree(d)
           a == alloc_inode(d)
           h == Child(d, mode)
<1>1. a \in Table /\ Taken(d, a, n) /\ n \in Num
  BY AllocType, AllocTaken DEF Taken
<1>2. n # NoInode => a.ino[n].ent = <<>>
  <2>1. CASE Inum \ d.ibm = {}
    BY <2>1 DEF NextFree
  <2>2. CASE Inum \ d.ibm # {}
    <3>1. a.ino = [d.ino EXCEPT ![n] = Emptied(d.ino[n])]
      BY <2>2 DEF alloc_inode
    <3> HIDE DEF n
    <3>2. a.ino[n] = Emptied(d.ino[n]) /\ d.ino[n] \in inode
      BY <1>1, <3>1, TableParts
    <3> QED
      BY <3>2 DEF Emptied, inode
  <2> QED
    BY <2>1, <2>2
<1>3. \A j \in Num \ {n} : a.ino[j] = d.ino[j]
  <2>1. a.ino = d.ino \/ a.ino = [d.ino EXCEPT ![n] = Emptied(d.ino[n])]
    BY DEF alloc_inode
  <2> HIDE DEF n
  <2> QED
    BY <2>1, TableParts
<1>4. h = [a EXCEPT !.ino[n].mode = mode, !.ino[n].refs = 1]
  BY DEF Child
<1> HIDE DEF a, n, h
<1>5. h \in Table
  <2> DEFINE f == [a EXCEPT !.ino[n].mode = mode]
  <2>1. f \in Table
    BY <1>1, FieldTypes
  <2>2. h = [f EXCEPT !.ino[n].refs = 1]
    BY <1>4
  <2> HIDE DEF f
  <2>3. \A x \in Int : [f EXCEPT !.ino[n].refs = x] \in Table
    BY <2>1, FieldTypes
  <2> QED
    BY <2>2, <2>3
<1>6. /\ h.ibm = a.ibm
      /\ \A j \in Num \ {n} : h.ino[j] = a.ino[j]
      /\ h.ino[n].ent = a.ino[n].ent /\ h.ino[n].mode = mode
  BY <1>1, <1>4 DEF Table, inode, Num
<1>7. Taken(d, h, n)
  BY <1>1, <1>6 DEF Taken
<1> QED
  BY <1>2, <1>3, <1>5, <1>6, <1>7 DEF n, h

(* directory_put adds its number to the entries of one directory.          *)
LEMMA PutEnts ==
  ASSUME NEW d \in Table, NEW c \in Num, NEW name \in Name, NEW n \in Num
  PROVE  LET e == directory_put(d, c, name, n)
         IN  /\ e \in Table /\ e.ibm = d.ibm
             /\ \A j \in Num : e.ino[j].mode = d.ino[j].mode
             /\ \A j \in Num \ {c} : e.ino[j].ent = d.ino[j].ent
             /\ Ents(e, c) \subseteq Ents(d, c) \cup {n}
<1> DEFINE e   == directory_put(d, c, name, n)
           was == d.ino[c].ent
           rec == [name |-> name, inum |-> n]
           en  == Append(was, rec)
<1>1. e \in Table
  BY PutType
<1>2. d.ino \in [Num -> inode] /\ was \in Seq(ddirent)
  BY InodeParts, TableParts
<1>3. e = [d EXCEPT !.ino[n].refs = d.ino[n].refs + 1, !.ino[c].ent = en]
  BY <1>2, TableParts DEF directory_put, inode
<1> HIDE DEF en, e
<1>4. /\ e.ibm = d.ibm
      /\ \A j \in Num : e.ino[j].mode = d.ino[j].mode
      /\ \A j \in Num \ {c} : e.ino[j].ent = d.ino[j].ent
      /\ e.ino[c].ent = en
  <2>1. PICK f : f = [d.ino EXCEPT ![n].refs = d.ino[n].refs + 1]
    OBVIOUS
  <2>2. DOMAIN f = Num /\ \A j \in Num : f[j].mode = d.ino[j].mode /\ f[j].ent = d.ino[j].ent
    BY <1>2, <2>1 DEF inode
  <2>3. e.ibm = d.ibm /\ e.ino = [f EXCEPT ![c].ent = en]
    BY <1>3, <2>1 DEF Table
  <2>4. \A j \in Num \ {c} : e.ino[j] = f[j]
    BY <2>2, <2>3
  <2>5. e.ino[c].mode = f[c].mode /\ e.ino[c].ent = en
    <3>1. DOMAIN f[c] = DOMAIN d.ino[c] /\ {"mode", "ent"} \subseteq DOMAIN d.ino[c]
      BY <1>2, <2>1 DEF inode
    <3>2. e.ino[c] = [f[c] EXCEPT !.ent = en]
      BY <2>2, <2>3
    <3> QED
      BY <3>1, <3>2
  <2> QED
    BY <2>2, <2>3, <2>4, <2>5
<1>5. \A k \in DOMAIN en : en[k].inum = n \/ (k \in DOMAIN was /\ en[k] = was[k])
  <2>1. Len(en) = Len(was) + 1 /\ en[Len(was) + 1] = rec
        /\ \A k \in 1 .. Len(was) : en[k] = was[k]
    BY <1>2 DEF en
  <2>2. DOMAIN en = 1 .. Len(was) + 1 /\ DOMAIN was = 1 .. Len(was) /\ Len(was) \in Nat
    BY <1>2 DEF en
  <2>3. rec.inum = n
    OBVIOUS
  <2> HIDE DEF rec, was
  <2> QED
    BY <2>1, <2>2, <2>3
<1>6. Ents(e, c) \subseteq Ents(d, c) \cup {n}
  BY <1>4, <1>5 DEF Ents
<1> QED
  BY <1>1, <1>4, <1>6 DEF e

(* What a request finds in the current version is allocated.               *)
LEMMA FoundTaken ==
  ASSUME TypeOK, Collectable, ph = "idle", NEW p \in Path, tree_lookup(p) \in Inum
  PROVE  /\ tree_lookup(p) \in fs.ibm /\ fs.ino[tree_lookup(p)].mode # "none"
         /\ tree_lookup(p) = Lookup(fs, p, rl[0].rnum)
<1>1. PICK D \in Depth, V \in Sets : Trees(D, V)
  BY DEF Collectable, Safe
<1>2. Tree(fs, rl[0].rnum, V[0], D) /\ fs \in Table
  BY <1>1, CalmTrees, SlotFacts DEF Calm, TypeOK
<1>3. tree_lookup(p) = Lookup(fs, p, rl[0].rnum)
  BY DEF Lookup, tree_lookup, RL!get_current_root
<1>4. tree_lookup(p) < 0 \/ tree_lookup(p) \in V[0]
  BY <1>2, <1>3, TreeLookup, PathFacts
<1> DEFINE i == tree_lookup(p)
<1>5. i \in Nat /\ V[0] \subseteq fs.ibm
  BY <1>2, NumFacts DEF Tree
<1>6. i < 0 \/ i \in V[0]
  BY <1>4
<1> HIDE DEF i
<1>7. i \in fs.ibm
  BY <1>5, <1>6
<1>8. \A j \in fs.ibm : fs.ino[j].mode # "none"
  BY DEF Collectable, Plain, Modes
<1> QED
  BY <1>3, <1>7, <1>8 DEF i

(* mknod climbs from the directory of the new name.                        *)
LEMMA MknodBegins ==
  ASSUME TypeOK, TypeOK', Collectable, PlainHistory, ph = "idle", NEW q \in Calls,
         q.call = "mknod", Mknod(q)
  PROVE  Collectable'
<1> DEFINE dd == tree_lookup_stop_early(q.path)
           c == NextFree(fs)
           d == copy_inode(fs, dd)
           n == NextFree(d)
           h == Child(d, q.mode)
           name == basename(q.path)
           e == directory_put(h, c, name, n)
           p == dirname(q.path)
           G == {n} \ {NoInode}
<1>0. /\ fs \in Table /\ fs' \in Table /\ Plain /\ Modes
      /\ p \in Path /\ q.call \in Copying /\ Clip(q.call, q.path) = q.path
      /\ Named(q) = p /\ q.mode \in Mode \ {"none"}
  BY StorageAssumption, PathFacts
     DEF TypeOK, Collectable, Plain, PlainHistory, Named, OnPath, OnParent
<1>1. dd \in Inum /\ dd \in Num /\ dd = tree_lookup(p) /\ inum_field(dd) = dd
  BY InumNum DEF Mknod, CanCreate, IsDir, Exists, tree_lookup_stop_early
<1>2. dd \in fs.ibm /\ fs.ino[dd].mode # "none" /\ dd = Lookup(fs, p, rl[0].rnum)
  BY <1>0, <1>1, FoundTaken
<1>3. /\ d \in Table /\ Taken(fs, d, c)
      /\ d.ino[c] = fs.ino[dd] /\ \A j \in Num \ {c} : d.ino[j] = fs.ino[j]
  BY <1>0, <1>1, CopyTaken
<1>4. name \in Name
  <2>1. q.path \in Seq(Name) /\ q.path # <<>>
    BY StorageAssumption DEF Root
  <2> QED
    BY <2>1 DEF basename
<1>5. Untouched(fs, fs')
  BY <1>0, MknodStarts, StartsUntouched
<1>6. /\ UNCHANGED list /\ fs' = e
      /\ job' = [call |-> q.call, stage |-> "climb", path |-> q.path,
                 left |-> p, old |-> dd, new |-> inum_field(c), gc |-> NoPath]
  BY <1>1 DEF Mknod, Update
<1>7. q \in Calls /\ p = Named(q) /\ dd \in Inum
  BY <1>0, <1>1
<1> HIDE DEF p, dd, c, d, name
<1>8. /\ h \in Table /\ Taken(d, h, n)
      /\ n # NoInode => h.ino[n].ent = <<>> /\ h.ino[n].mode = q.mode
      /\ \A j \in Num \ {n} : h.ino[j] = d.ino[j]
  BY <1>0, <1>3, ChildTaken
<1> HIDE DEF n, h
<1>9. /\ e.ibm = h.ibm
      /\ \A j \in Num : e.ino[j].mode = h.ino[j].mode
      /\ \A j \in Num \ {c} : e.ino[j].ent = h.ino[j].ent
      /\ Ents(e, c) \subseteq Ents(h, c) \cup {n}
  BY <1>3, <1>4, <1>8, PutEnts DEF Taken
<1> HIDE DEF e
<1>10. c # NoInode => c \in d.ibm /\ c # n
  BY <1>3, <1>8 DEF Taken
<1>11. c # NoInode => \A x \in Ents(fs', c) : x < 0 \/ x \in G \/ x \in Ents(fs, dd)
  <2>1. c # NoInode => Ents(h, c) = Ents(fs, dd)
    BY <1>3, <1>8, <1>10 DEF Ents, Taken
  <2>2. NoInode < 0
    BY DEF NoInode
  <2> QED
    BY <1>6, <1>9, <2>1, <2>2
<1>12. c \in fs'.ibm \/ (c = NoInode /\ Inum \subseteq fs'.ibm)
  BY <1>3, <1>6, <1>8, <1>9 DEF Taken
<1>13. \A j \in fs'.ibm \ fs.ibm : j = c \/ j = n
  BY <1>3, <1>6, <1>8, <1>9 DEF Taken
<1>14. Modes'
  <2>1. ASSUME NEW j \in fs'.ibm \ fs.ibm PROVE fs'.ino[j].mode # "none"
    <3>1. j \in Num /\ j # NoInode
      BY <1>0, TableParts, NumFacts DEF Num
    <3>2. CASE j = n
      BY <1>0, <1>6, <1>8, <1>9, <3>1, <3>2
    <3>3. CASE j = c /\ j # n
      BY <1>2, <1>3, <1>6, <1>8, <1>9, <3>1, <3>3
    <3> QED
      BY <1>13, <3>2, <3>3
  <2> QED
    BY <1>0, <1>5, <2>1, ModesGrow
<1>15. /\ G \in SUBSET fs'.ibm /\ G \cap (fs.ibm \cup {c}) = {}
       /\ \A g \in G : Ents(fs', g) = {}
  <2>1. ASSUME n # NoInode
        PROVE  n \in fs'.ibm /\ n \notin fs.ibm /\ n # c /\ Ents(fs', n) = {}
    <3>1. n \in fs'.ibm /\ n \notin d.ibm /\ n \in Num
      BY <1>6, <1>8, <1>9, <2>1 DEF Taken
    <3>2. n \notin fs.ibm /\ n # c
      BY <1>3, <1>10, <2>1, <3>1 DEF Taken
    <3>3. fs'.ino[n].ent = <<>>
      BY <1>6, <1>8, <1>9, <2>1, <3>1, <3>2
    <3> QED
      BY <3>1, <3>2, <3>3 DEF Ents
  <2> QED
    BY <2>1
<1>16. c \in Num /\ c \notin fs.ibm
  BY <1>3 DEF Taken
<1> HIDE DEF G
<1>17. PICK D \in Depth, V \in Sets, P \in SUBSET Inum : Safe(D, V, P)
  BY DEF Collectable
<1> QED
  BY <1>0, <1>2, <1>5, <1>6, <1>7, <1>11, <1>12, <1>14, <1>15, <1>16, <1>17, ClimbBegins, SMTT(30)

(* link climbs from the directory that gets the new name; the file is in   *)
(* that directory.                                                         *)
LEMMA LinkBegins ==
  ASSUME TypeOK, TypeOK', Collectable, PlainHistory, ph = "idle", NEW q \in Calls,
         q.call = "link", Link(q)
  PROVE  Collectable'
<1> DEFINE from == tree_lookup(q.path)
           dir == tree_lookup_stop_early(q.to)
           c == NextFree(fs)
           d == copy_inode(fs, dir)
           name == basename(q.to)
           e == directory_put(d, c, name, from)
           p == dirname(q.path)
           G == {}
<1>0. /\ fs \in Table /\ fs' \in Table /\ Plain /\ Modes
      /\ p \in Path /\ q.call \in Copying /\ Clip(q.call, q.path) = q.path
      /\ Named(q) = p /\ p = dirname(q.to) /\ q.path \in Path
  BY StorageAssumption, PathFacts
     DEF TypeOK, Collectable, Plain, PlainHistory, Named, OnPath, OnParent
<1>1. /\ dir \in Inum /\ dir \in Num /\ dir = tree_lookup(p) /\ inum_field(dir) = dir
      /\ from \in Inum /\ from \in Num
      /\ fs.ino[from].mode = "file" /\ fs.ino[dir].mode # "file"
  BY <1>0, InumNum
     DEF Link, CanCreate, IsFile, IsDir, Exists, tree_lookup_stop_early, inode_is_dir
<1>2. dir \in fs.ibm /\ fs.ino[dir].mode # "none" /\ dir = Lookup(fs, p, rl[0].rnum)
  BY <1>0, <1>1, FoundTaken
<1>3. from \in fs.ibm /\ from = Lookup(fs, q.path, rl[0].rnum)
  BY <1>0, <1>1, FoundTaken
<1>4. from \in Ents(fs, dir)
  <2>1. q.path # <<>>
    <3>1. SUFFICES ASSUME q.path = <<>> PROVE FALSE
      OBVIOUS
    <3>2. p = q.path
      BY <3>1 DEF dirname, Root
    <3> QED
      BY <1>1, <3>2
  <2>2. q.path \in Seq(Name) /\ q.path[Len(q.path)] \in Name
    BY <1>0, <2>1, PathFacts
  <2>3. Lookup(fs, q.path, rl[0].rnum)
          = IF dir < 0 THEN dir ELSE directory_lookup(fs.ino[dir], q.path[Len(q.path)])
    <3>1. p = SubSeq(q.path, 1, Len(q.path) - 1)
      BY <2>1 DEF dirname, Root
    <3> DEFINE up == Lookup(fs, SubSeq(q.path, 1, Len(q.path) - 1), rl[0].rnum)
    <3>2. Lookup(fs, q.path, rl[0].rnum)
            = IF up < 0 THEN up ELSE directory_lookup(fs.ino[up], q.path[Len(q.path)])
      BY <2>1, <2>2, LookupStep DEF Lookup
    <3>3. up = dir
      BY <1>2, <3>1
    <3> HIDE DEF up, dir
    <3> QED
      BY <3>2, <3>3
  <2>4. from = directory_lookup(fs.ino[dir], q.path[Len(q.path)])
    <3>1. ~(dir < 0)
      <4>1. dir \in Nat
        BY <1>1, NumFacts
      <4> HIDE DEF dir
      <4> QED
        BY <4>1
    <3> QED
      BY <1>3, <2>3, <3>1
  <2>5. from # ENOENT
    BY <1>1, NumFacts DEF ENOENT
  <2> QED
    BY <1>0, <1>1, <2>4, <2>5, LookupEntry
<1>5. /\ d \in Table /\ Taken(fs, d, c)
      /\ d.ino[c] = fs.ino[dir] /\ \A j \in Num \ {c} : d.ino[j] = fs.ino[j]
  BY <1>0, <1>1, CopyTaken
<1>6. name \in Name
  <2>1. q.to \in Seq(Name) /\ q.to # <<>>
    BY StorageAssumption DEF Root
  <2> QED
    BY <2>1 DEF basename
<1>7. Untouched(fs, fs')
  BY <1>0, LinkStarts, StartsUntouched
<1>8. /\ UNCHANGED list /\ fs' = [e EXCEPT !.ino[from].refs = e.ino[from].refs + 1]
      /\ job' = [call |-> q.call, stage |-> "climb", path |-> q.path,
                 left |-> p, old |-> dir, new |-> inum_field(c), gc |-> NoPath]
  BY <1>1 DEF Link, Update
<1>9. q \in Calls /\ p = Named(q) /\ dir \in Inum
  BY <1>0, <1>1
<1> HIDE DEF p, dir, from, c, d, name
<1>10. /\ e \in Table /\ e.ibm = d.ibm
       /\ \A j \in Num : e.ino[j].mode = d.ino[j].mode
       /\ Ents(e, c) \subseteq Ents(d, c) \cup {from}
  BY <1>1, <1>5, <1>6, PutEnts DEF Taken
<1> HIDE DEF e
<1>11. /\ fs'.ibm = e.ibm
       /\ \A j \in Num : fs'.ino[j].mode = e.ino[j].mode /\ fs'.ino[j].ent = e.ino[j].ent
  <2>1. e.ino \in [Num -> inode]
    BY <1>10, TableParts
  <2> QED
    BY <1>1, <1>8, <1>10, <2>1 DEF Table, inode
<1>12. /\ c \in Num /\ c \notin fs.ibm
       /\ c \in fs'.ibm \/ (c = NoInode /\ Inum \subseteq fs'.ibm)
  BY <1>5, <1>10, <1>11 DEF Taken
<1>13. Modes'
  <2>1. \A j \in fs'.ibm \ fs.ibm : j = c
    BY <1>5, <1>10, <1>11 DEF Taken
  <2>2. fs'.ino[c].mode # "none"
    BY <1>2, <1>5, <1>10, <1>11, <1>12
  <2> QED
    BY <1>0, <1>7, <2>1, <2>2, ModesGrow
<1>14. c # NoInode => \A x \in Ents(fs', c) : x < 0 \/ x \in G \/ x \in Ents(fs, dir)
  <2>1. Ents(d, c) = Ents(fs, dir) /\ Ents(fs', c) = Ents(e, c)
    BY <1>5, <1>11, <1>12 DEF Ents
  <2> QED
    BY <1>4, <1>10, <2>1
<1>15. /\ G \in SUBSET fs'.ibm /\ G \cap (fs.ibm \cup {c}) = {}
       /\ \A g \in G : Ents(fs', g) = {}
  OBVIOUS
<1> HIDE DEF G
<1>16. PICK D \in Depth, V \in Sets, P \in SUBSET Inum : Safe(D, V, P)
  BY DEF Collectable
<1> QED
  <2>1. /\ UNCHANGED list
        /\ job' = [call |-> q.call, stage |-> "climb", path |-> q.path,
                   left |-> p, old |-> dir, new |-> inum_field(c), gc |-> NoPath]
    BY <1>8
  <2> QED
    BY <1>0, <1>2, <1>7, <1>9, <1>12, <1>13, <1>14, <1>15, <1>16, <2>1, ClimbBegins, ZenonT(60)

-----------------------------------------------------------------------------
(* The steps outside the push.                                             *)

(* A step that leaves no handler and adds to the table what it must.       *)
LEMMA CalmKept ==
  ASSUME TypeOK, Collectable, Calm, Calm', UNCHANGED <<rl, ii, entry>>,
         Untouched(fs, fs'), Modes', job' = NoJob
  PROVE  Collectable'
<1>1. PICK D \in Depth, V \in Sets, P \in SUBSET Inum : Safe(D, V, P)
  BY DEF Collectable
<1>2. Trees(D, V)' /\ Pairs(V, P)' /\ Doubled(V)' /\ Pending(D, P)' /\ Stored(V, P)'
  BY <1>1, ListedGrow DEF Safe, Collectable, Plain
<1>3. job'.stage = "serve" /\ job'.call = ""
  BY DEF NoJob
<1>4. Plain' /\ Climbs(D, V)'
  BY <1>3 DEF Collectable, Plain, Handlers, Collects, NoSet, Climbs, Calm
<1> QED
  BY <1>2, <1>4 DEF Collectable, Safe

(* A copy of an allocated inode has a mode.                                *)
LEMMA CopyModes ==
  ASSUME TypeOK, Modes, NEW i \in fs.ibm, fs' = copy_inode(fs, i)
  PROVE  Modes' /\ Untouched(fs, fs')
<1>1. fs \in Table /\ i \in Num
  BY TableParts DEF TypeOK, Num
<1>2. Untouched(fs, fs')
  BY <1>1, CopyType
<1>3. /\ Taken(fs, fs', NextFree(fs))
      /\ fs'.ino[NextFree(fs)] = fs.ino[i]
  BY <1>1, CopyTaken
<1>4. \A j \in fs'.ibm \ fs.ibm : fs'.ino[j].mode # "none"
  BY <1>3 DEF Taken, Modes
<1> QED
  BY <1>2, <1>4, ModesGrow

(* A request starts a handler, or ends the process.                        *)
LEMMA CollectRequest ==
  ASSUME TypeOK, TypeOK', Collectable, PlainHistory, Request
  PROVE  Collectable'
<1>1. PICK q \in Calls : Handle(q)
  BY DEF Request
<1>2. ph = "idle" /\ job = NoJob /\ q.call \in Copying
  BY DEF Request, Serving, TypeOK, PlainHistory
<1>3. CASE q.call = "mknod" /\ MknodAborts(q)
  <2>1. /\ q.path \in Path /\ dirname(q.path) \in Path
        /\ tree_lookup(dirname(q.path)) \in Inum
        /\ fs' = copy_inode(fs, tree_lookup(dirname(q.path)))
        /\ ph' = "off" /\ UNCHANGED <<rl, ii, entry, job>>
    BY <1>3, StorageAssumption
       DEF MknodAborts, CanCreate, IsDir, Exists, tree_lookup_stop_early
  <2>2. tree_lookup(dirname(q.path)) \in fs.ibm
    BY <1>2, <2>1, FoundTaken
  <2>3. Modes' /\ Untouched(fs, fs')
    BY <2>1, <2>2, CopyModes DEF Collectable, Plain
  <2> QED
    BY <1>2, <2>1, <2>3, CalmKept DEF Calm
<1>4. CASE \/ q.call = "write" /\ Write(q)
           \/ q.call = "truncate" /\ Truncate(q)
           \/ q.call = "chmod" /\ Chmod(q)
  BY <1>2, <1>4, FileBegins
<1>5. CASE q.call = "mknod" /\ Mknod(q)
  BY <1>2, <1>5, MknodBegins
<1>6. CASE q.call = "link" /\ Link(q)
  BY <1>2, <1>6, LinkBegins
<1>7. q.call \notin {"unlink", "rename", "set"}
  BY <1>2 DEF Copying, OnParent, OnPath
<1> QED
  BY <1>1, <1>3, <1>4, <1>5, <1>6, <1>7 DEF Handle

(* Processes start, end and die between steps that are safe.               *)
LEMMA CollectProcess ==
  ASSUME TypeOK, Collectable, PlainHistory,
         Mount \/ Unmount \/ Tool \/ ToolSwap \/ ToolExit \/ Kill
  PROVE  Collectable'
<1>1. fs' = fs /\ UNCHANGED rl /\ Modes
  BY DEF Mount, Unmount, Tool, ToolSwap, ToolExit, Kill, RL!Start, RL!Exit, RL!SwapRoot,
     RL!Kill, Collectable, Plain
<1>2. Modes' /\ Untouched(fs, fs')
  BY <1>1 DEF Modes, Untouched
<1>3. ~Tool /\ ~ToolSwap /\ ~ToolExit
  BY DEF Tool, ToolSwap, ToolExit, PlainHistory, Collectable, Plain, Handlers
<1>4. CASE Mount \/ Unmount
  <2>1. Calm /\ Calm' /\ job' = NoJob /\ UNCHANGED <<ii, entry>>
    BY <1>4 DEF Mount, Unmount, RL!Start, RL!Exit, TypeOK, Calm
  <2> QED
    BY <1>1, <1>2, <2>1, CalmKept
<1>5. CASE Kill
  <2>1. ph = "idle" /\ ph' = "off" /\ job' = NoJob
    <3>1. Stage \in {"serve", "climb", "finish"} /\ RL!Kill /\ job' = NoJob
      BY <1>5 DEF Kill, PlainHistory
    <3>2. ph \in {"idle", "gc", "shift", "rnum", "vnum", "op", "off"}
      BY DEF TypeOK, RL!TypeOK
    <3> QED
      BY <3>1, <3>2 DEF Stage, RL!Kill
  <2>2. ii' = 0 /\ entry' = RL!NoEntry /\ ii = 0
    BY <1>5, <2>1 DEF Kill, RL!Kill, TypeOK, RL!TypeOK
  <2>3. PICK D \in Depth, V \in Sets, P \in SUBSET Inum : Safe(D, V, P)
    BY DEF Collectable
  <2>4. Trees(D, V)' /\ Pairs(V, P)' /\ Doubled(V)' /\ Pending(D, P)' /\ Stored(V, P)'
    BY <1>1, <2>1, <2>2, <2>3 DEF Safe, Trees, Live, Pairs, Proper, Doubled, Pending, Stored
  <2>5. job'.stage = "serve" /\ job'.call = "" /\ entry'.op.call = ""
    BY <2>1, <2>2 DEF NoJob, RL!NoEntry, NoLabel
  <2>6. Plain' /\ Climbs(D, V)'
    BY <1>1, <1>2, <2>1, <2>5 DEF Collectable, Plain, Handlers, Collects, NoSet, Climbs
  <2> QED
    BY <2>4, <2>6 DEF Collectable, Safe
<1> QED
  BY <1>3, <1>4, <1>5

(* replace_in_entries changes the entries of one directory, and leaves     *)
(* none with the old number.                                               *)
LEMMA ReplaceEnts ==
  ASSUME NEW d \in Table, NEW c \in Num, NEW old, NEW new \in Int
  PROVE  LET e == replace_in_entries(d, c, old, new)
         IN  /\ e \in Table /\ e.ibm = d.ibm
             /\ \A j \in Num : e.ino[j].mode = d.ino[j].mode
             /\ \A j \in Num \ {c} : e.ino[j].ent = d.ino[j].ent
             /\ \A x \in Ents(e, c) : x = new \/ (x \in Ents(d, c) /\ x # old)
<1> DEFINE e   == replace_in_entries(d, c, old, new)
           was == d.ino[c].ent
           en  == [k \in DOMAIN was |->
                     IF was[k].inum = old THEN [was[k] EXCEPT !.inum = new] ELSE was[k]]
<1>1. e \in Table
  BY ReplaceType
<1>2. d.ino \in [Num -> inode] /\ was \in Seq(ddirent)
  BY InodeParts, TableParts
<1>3. e = [d EXCEPT !.ino[c].ent = en]
  BY <1>2, TableParts DEF replace_in_entries, inode
<1>4. \A k \in DOMAIN was : was[k] \in ddirent
  BY <1>2
<1>5. \A k \in DOMAIN en : en[k].inum = new \/ (k \in DOMAIN was /\ en[k] = was[k] /\ was[k].inum # old)
  BY <1>4 DEF ddirent
<1> HIDE DEF en, e
<1>6. /\ e.ibm = d.ibm
      /\ \A j \in Num : e.ino[j].mode = d.ino[j].mode
      /\ \A j \in Num \ {c} : e.ino[j].ent = d.ino[j].ent
      /\ e.ino[c].ent = en
  BY <1>2, <1>3 DEF Table, inode, Num
<1>7. \A x \in Ents(e, c) : x = new \/ (x \in Ents(d, c) /\ x # old)
  BY <1>5, <1>6 DEF Ents
<1> QED
  BY <1>1, <1>6, <1>7 DEF e

(* A climb goes on one directory up, with the copy that was taken.         *)
LEMMA ClimbGoesOn ==
  ASSUME TypeOK, TypeOK', NEW D \in Depth, NEW V \in Sets, NEW P \in SUBSET Inum,
         Safe(D, V, P), Plain, ph = "idle", job.stage = "climb", job.left # Root,
         UNCHANGED list, Untouched(fs, fs'), NEW F \in SUBSET Inum, NEW C \in SUBSET Inum,
         Climbed(D, V, F, C),
         NEW dir \in Inum, dir = Lookup(fs, dirname(job.left), rl[0].rnum),
         NEW c \in Inum, c \in fs'.ibm \ fs.ibm,
         \A x \in Ents(fs', c) : x = job.new \/ (x \in Ents(fs, dir) /\ x # job.old),
         job' = [job EXCEPT !.left = dirname(job.left), !.old = dir, !.new = c]
  PROVE  \E E \in Depth : (\A i \in fs.ibm : E[i] = D[i]) /\ Climbs(E, V)'
<1> DEFINE r == rl[0].rnum
           p == job.left
           u == dirname(p)
<1>0. PICK E : E = [D EXCEPT ![c] = D[dir]]
  OBVIOUS
<1>1. /\ rl' = rl /\ fs \in Table /\ fs' \in Table /\ p \in Seq(Name) /\ p # <<>>
      /\ u \in Seq(Name) /\ job \in Jobs /\ 0 \in fs.ibm /\ Named(job) # NoPath
      /\ Named(job) \in Path /\ Named(job) \in Seq(Name)
  <2>1. job.call \in Copying /\ job.path \in Path /\ job.left \in Path /\ job \in Jobs
    BY JobParts DEF Plain, Handlers
  <2>2. Named(job) \in Path
    BY <2>1, PathFacts DEF Copying, Named, OnParent, OnPath
  <2> QED
    BY <2>1, <2>2, PathFacts DEF list, TypeOK, Plain, Modes, Root
<1>2. Tree(fs, r, V[0], D) /\ V[0] \subseteq fs.ibm
  BY CalmTrees, SlotFacts DEF Safe, Calm, Tree
<1>3. /\ Grown(fs, V[0], D, F, C, job.old, job.new)
      /\ \A s \in RL!Slot : F \cap V[s] = {}
      /\ IsPrefixOf(p, Named(job))
      /\ job.old = Lookup(fs, p, r)
      /\ \A q \in Seq(Name) : IsPrefixOf(q, Named(job)) /\ Len(q) >= Len(p) =>
            Lookup(fs, q, r) \in C
  BY DEF Climbed
<1>4. dir \in V[0]
  <2>1. dir < 0 \/ dir \in V[0]
    BY <1>1, <1>2, TreeLookup
  <2> QED
    BY <2>1, NumFacts
<1>5. job.old \in Ents(fs, dir)
  <2>1. Lookup(fs, p, r) = IF dir < 0 THEN dir ELSE directory_lookup(fs.ino[dir], p[Len(p)])
    BY <1>1, LookupStep DEF Lookup, dirname, Root
  <2>2. dir \in Nat /\ dir \in Num
    BY NumFacts DEF Num
  <2>3. job.old = directory_lookup(fs.ino[dir], p[Len(p)])
    BY <1>3, <2>1, <2>2
  <2>4. job.old \in Inum /\ job.old # ENOENT
    <3>1. job.old \in V[0] /\ V[0] \subseteq Inum
      BY <1>3, SlotFacts DEF Grown, Sets
    <3>2. ENOENT \notin Nat
      BY DEF ENOENT
    <3> QED
      BY <3>1, <3>2, NumFacts
  <2> HIDE DEF p
  <2>5. directory_lookup(fs.ino[dir], p[Len(p)]) \in Ents(fs, dir) \cup {ENOENT}
    BY <1>1, <2>2, LookupEntry
  <2> QED
    BY <2>3, <2>4, <2>5
<1>6. Same(fs, fs', fs.ibm)
  BY DEF Same, Untouched
<1>7. /\ E \in Depth /\ E[c] = D[dir] /\ \A i \in Inum \ {c} : E[i] = D[i]
      /\ \A i \in fs.ibm : E[i] = D[i]
  <2>1. D[dir] \in Nat
    BY DEF Depth
  <2>2. fs.ibm \subseteq Inum \ {c}
    BY <1>1, TableParts
  <2> QED
    BY <1>0, <2>1, <2>2 DEF Depth
<1>8. Grown(fs', V[0], E, F \cup {c}, C \cup {dir}, dir, c)
  <2> DEFINE W == V[0]
             o == job.old
             n == job.new
  <2>1. Tree(fs, r, W, D) /\ Grown(fs, W, D, F, C, o, n) /\ dir \in W /\ o \in Ents(fs, dir)
    BY <1>2, <1>3, <1>4, <1>5
  <2>2. \A x \in Ents(fs', c) : x = n \/ (x \in Ents(fs, dir) /\ x # o)
    OBVIOUS
  <2>3. fs \in Table /\ fs' \in Table /\ 0 \in fs.ibm
    BY <1>1
  <2> HIDE DEF r, W, o, n
  <2>4. Grown(fs', W, E, F \cup {c}, C \cup {dir}, dir, c)
    BY <1>6, <1>7, <2>1, <2>2, <2>3, GrownUp
  <2> QED
    BY <2>4 DEF W
<1>9. \A s \in RL!Slot : (F \cup {c}) \cap V[s] = {}
  <2> TAKE s \in RL!Slot
  <2>1. V[s] \subseteq fs.ibm
    BY CalmTrees DEF Safe, Calm, Tree
  <2> QED
    BY <1>3, <2>1
<1>10. Named(job') = Named(job) /\ job'.left = u /\ job'.old = dir /\ job'.new = c
  BY <1>1 DEF Named, Jobs
<1>11. IsPrefixOf(u, Named(job)) /\ Len(u) = Len(p) - 1 /\ Len(p) \in Nat
  BY <1>1, <1>3, PrefixFacts, ParentPath DEF dirname, Root
<1>12. \A q \in Seq(Name) : Lookup(fs', q, r) = Lookup(fs, q, r)
  <2>1. Same(fs, fs', V[0])
    BY <1>2, <1>6 DEF Same
  <2> QED
    BY <1>1, <1>2, <2>1, TreeSameLookup
<1>13. ASSUME NEW q \in Seq(Name), IsPrefixOf(q, Named(job)), Len(q) >= Len(u)
       PROVE  Lookup(fs', q, r) \in C \cup {dir}
  <2>1. CASE Len(q) >= Len(p)
    BY <1>3, <1>12, <1>13, <2>1
  <2>2. CASE Len(q) = Len(u)
    <3>1. q = u
      BY <1>1, <1>11, <1>13, <2>2, SamePrefix
    <3> QED
      BY <1>12, <3>1
  <2> HIDE DEF p, u
  <2>3. Len(q) \in Nat
    OBVIOUS
  <2> QED
    BY <1>11, <1>13, <2>1, <2>2, <2>3
<1>14. dir = Lookup(fs', u, r)
  BY <1>1, <1>12
<1> HIDE DEF u
<1>15. Climbed(E, V, F \cup {c}, C \cup {dir})'
  BY <1>1, <1>8, <1>9, <1>10, <1>11, <1>13, <1>14 DEF Climbed
<1>16. PICK F1, C1 : F1 = F \cup {c} /\ C1 = C \cup {dir}
  OBVIOUS
<1>17. F1 \in SUBSET Inum /\ C1 \in SUBSET Inum /\ Climbed(E, V, F1, C1)'
  BY <1>15, <1>16
<1> QED
  BY <1>7, <1>17 DEF Climbs

(* One directory of a climb.                                               *)
LEMMA CollectClimb ==
  ASSUME TypeOK, TypeOK', Collectable, Climb
  PROVE  Collectable'
<1> DEFINE dir == tree_lookup_stop_early(job.left)
           c == NextFree(fs)
<1>0. /\ fs \in Table /\ fs' \in Table /\ Plain /\ Modes /\ job \in Jobs
      /\ ph = "idle" /\ job.stage = "climb" /\ job.left # Root /\ job.left \in Path
      /\ UNCHANGED list /\ UNCHANGED <<rl, ph, ii, entry>> /\ Calm /\ Calm'
  BY JobParts DEF Climb, Climbing, TypeOK, Collectable, Plain, list, Calm
<1>1. CASE dir < 0
  <2>1. fs' = fs /\ job' = NoJob
    BY <1>0, <1>1 DEF Climb, GivenUp, Plain, Handlers, Copying, OnPath, OnParent
  <2>2. Untouched(fs, fs') /\ Modes'
    BY <1>0, <2>1 DEF Untouched, Modes
  <2> QED
    BY <1>0, <2>1, <2>2, CalmKept
<1>2. CASE ~(dir < 0)
  <2> DEFINE d == copy_inode(fs, dir)
  <2>1. /\ dir \in Inum /\ dir \in Num /\ inum_field(dir) = dir
        /\ fs' = replace_in_entries(d, c, job.old, job.new)
        /\ job' = [job EXCEPT !.left = dirname(job.left), !.old = dir, !.new = inum_field(c)]
    BY <1>2, InumNum DEF Climb, CowDir, StepUp
  <2>2. dir \in fs.ibm /\ fs.ino[dir].mode # "none"
        /\ dir = Lookup(fs, dirname(job.left), rl[0].rnum)
    BY <1>0, <2>1, FoundTaken, PathFacts DEF tree_lookup_stop_early
  <2>3. /\ d \in Table /\ Taken(fs, d, c)
        /\ d.ino[c] = fs.ino[dir] /\ \A j \in Num \ {c} : d.ino[j] = fs.ino[j]
    BY <1>0, <2>1, CopyTaken
  <2>4. job.new \in Int
    BY JobParts
  <2>5. /\ fs'.ibm = d.ibm
        /\ \A j \in Num : fs'.ino[j].mode = d.ino[j].mode
        /\ \A j \in Num \ {c} : fs'.ino[j].ent = d.ino[j].ent
        /\ \A x \in Ents(fs', c) : x = job.new \/ (x \in Ents(d, c) /\ x # job.old)
    <3> HIDE DEF d, c, dir
    <3>1. c \in Num
      BY <2>3 DEF Taken
    <3> QED
      BY <2>1, <2>3, <2>4, <3>1, ReplaceEnts
  <2>6. /\ c \in Num /\ c \notin fs.ibm
        /\ c \in fs'.ibm \/ (c = NoInode /\ Inum \subseteq fs'.ibm)
    BY <2>3, <2>5 DEF Taken
  <2>7. Untouched(fs, fs')
    <3>1. Untouched(fs, d)
      BY <1>0, <2>1, CopyType
    <3> HIDE DEF d, c, dir
    <3>2. Untouched(fs, replace_in_entries(d, c, job.old, job.new))
      BY <1>0, <2>3, <2>6, <3>1, ReplaceUntouched
    <3> QED
      BY <2>1, <3>2
  <2>8. Modes'
    <3> HIDE DEF d, c, dir
    <3>1. \A j \in fs'.ibm \ fs.ibm : j = c
      BY <2>3, <2>5 DEF Taken
    <3>2. fs'.ino[c].mode # "none"
      BY <2>2, <2>3, <2>5, <2>6
    <3> QED
      BY <1>0, <2>7, <3>1, <3>2, ModesGrow
  <2>9. \A x \in Ents(fs', c) : x = job.new \/ (x \in Ents(fs, dir) /\ x # job.old)
    <3> HIDE DEF d, c, dir
    <3>1. Ents(d, c) = Ents(fs, dir)
      BY <2>3 DEF Ents
    <3> QED
      BY <2>5, <3>1
  <2>10. /\ job'.stage = "climb" /\ job'.call = job.call /\ job'.path = job.path
         /\ job'.new = inum_field(c) /\ job'.gc = job.gc
    BY <1>0, <2>1 DEF Jobs
  <2>11. Plain'
    BY <1>0, <2>8, <2>10 DEF Plain, Handlers, Collects, NoSet
  <2>12. PICK D \in Depth, V \in Sets, P \in SUBSET Inum : Safe(D, V, P)
    BY DEF Collectable
  <2> HIDE DEF c, d, dir
  <2>13. ASSUME NEW E \in Depth, \A i \in fs.ibm : E[i] = D[i]
         PROVE  Trees(E, V)' /\ Pairs(V, P)' /\ Doubled(V)' /\ Pending(E, P)' /\ Stored(V, P)'
    BY <1>0, <2>7, <2>12, <2>13, ListedGrow DEF Safe, Plain
  <2>14. CASE c \notin fs'.ibm
    <3>1. NoCopies'
      BY <2>6, <2>10, <2>14 DEF NoCopies, inum_field
    <3> QED
      BY <2>11, <2>13, <3>1 DEF Collectable, Safe, Climbs
  <2>15. CASE c \in fs'.ibm
    <3>1. c \in Inum /\ inum_field(c) = c /\ ~NoCopies
      BY <1>0, <2>6, <2>15, TableParts, InumNum DEF NoCopies
    <3>2. PICK F \in SUBSET Inum, C \in SUBSET Inum : Climbed(D, V, F, C)
      BY <1>0, <2>12, <3>1 DEF Safe, Climbs
    <3>3. PICK E \in Depth : (\A i \in fs.ibm : E[i] = D[i]) /\ Climbs(E, V)'
      <4>1. job' = [job EXCEPT !.left = dirname(job.left), !.old = dir, !.new = c]
        BY <2>1, <3>1
      <4>2. c \in fs'.ibm \ fs.ibm
        BY <2>6, <2>15
      <4>3. dir \in Inum
        BY <2>1
      <4>4. dir = Lookup(fs, dirname(job.left), rl[0].rnum)
        BY <2>2
      <4> QED
        BY <1>0, <2>7, <2>9, <2>12, <3>1, <3>2, <4>1, <4>2, <4>3, <4>4, ClimbGoesOn
    <3> QED
      BY <2>11, <2>13, <3>3 DEF Collectable, Safe
  <2> QED
    BY <2>14, <2>15
<1> QED
  BY <1>1, <1>2

(* A climb that trips the assertion of its directory leaves a copy.        *)
LEMMA CollectClimbAborts ==
  ASSUME TypeOK, Collectable, ClimbAborts
  PROVE  Collectable'
<1> DEFINE dir == tree_lookup(dirname(job.left))
<1>1. /\ ph = "idle" /\ ph' = "off" /\ job' = NoJob /\ UNCHANGED <<rl, ii, entry>>
      /\ dir \in Inum /\ fs' = copy_inode(fs, dir) /\ Modes /\ dirname(job.left) \in Path
  BY JobParts, PathFacts DEF ClimbAborts, Climbing, tree_lookup_stop_early, Collectable, Plain
<1>2. dir \in fs.ibm
  BY <1>1, FoundTaken
<1>3. Modes' /\ Untouched(fs, fs')
  BY <1>1, <1>2, CopyModes
<1> QED
  BY <1>1, <1>3, CalmKept DEF Calm

-----------------------------------------------------------------------------
(* The push.                                                               *)

(* An empty root directory is a tree of its own.                           *)
LEMMA RootTree ==
  ASSUME NEW d, NEW D, D[0] = 0, 0 \in d.ibm, Ents(d, 0) = {}
  PROVE  Tree(d, 0, {0}, D)
BY DEF Tree, OneDir

(* add_root: what the climb has made is a tree, and spared by the label it *)
(* goes with and by all older ones.                                        *)
LEMMA AddedTree ==
  ASSUME TypeOK, Modes, Handlers, NEW D \in Depth, NEW V \in Sets, NEW P \in SUBSET Inum,
         Safe(D, V, P), AddRoot
  PROVE  \E U \in SUBSET Inum :
            /\ Tree(fs, job.new, U, D)
            /\ Spared(fs, rl[0].rnum, Named(job), U)
            /\ \A s \in 0 .. Oldest - 1 : Spared(fs, rl[s + 1].rnum, Named(rl[s].op), U)
<1>1. /\ ph = "idle" /\ job.stage = "climb" /\ job.left = Root /\ fs \in Table
  BY DEF AddRoot, RL!AddRoot, TypeOK
<1>2. \A s \in RL!Slot : Tree(fs, rl[s].rnum, V[s], D)
  BY <1>1, CalmTrees DEF Safe, Calm
<1>3. \A s \in 0 .. Oldest - 1 : s + 1 \in RL!Slot /\ s \in RL!Slot
  BY SlotFacts DEF RL!Slot, Oldest
<1>4. CASE NoCopies
  <2>1. Tree(fs, job.new, {0}, D)
    <3>1. job.new = 0 /\ D[0] = 0 /\ 0 \in fs.ibm /\ Ents(fs, 0) = {}
      BY <1>4 DEF NoCopies, Safe, Trees, Modes, Ents
    <3> QED
      BY <3>1, RootTree
  <2>2. \A ro, t : Spared(fs, ro, t, {0})
    BY DEF Spared
  <2> QED
    BY <2>1, <2>2, NumFacts
<1>5. CASE ~NoCopies
  <2>1. PICK F \in SUBSET Inum, C \in SUBSET Inum : Climbed(D, V, F, C)
    BY <1>1, <1>5 DEF Safe, Climbs
  <2> DEFINE U == F \cup (V[0] \ C)
             r == rl[0].rnum
  <2>2. /\ Grown(fs, V[0], D, F, C, job.old, job.new)
        /\ \A s \in RL!Slot : F \cap V[s] = {}
        /\ job.old = Lookup(fs, Root, r)
        /\ \A p \in Seq(Name) : IsPrefixOf(p, Named(job)) /\ Len(p) >= Len(Root) =>
              Lookup(fs, p, r) \in C
    BY <1>1, <2>1 DEF Climbed
  <2>3. job.old = r
    BY <2>2, LookupRoot DEF Lookup, Root
  <2>4. 0 \in RL!Slot /\ Tree(fs, r, V[0], D)
    BY <1>2, SlotFacts
  <2>5. Tree(fs, job.new, U, D)
    <3>1. Grown(fs, V[0], D, F, C, r, job.new)
      BY <2>2, <2>3
    <3> HIDE DEF r
    <3> QED
      BY <1>1, <2>4, <3>1, GrownTree
  <2>6. C \cap U = {}
    BY <2>2 DEF Grown
  <2>7. Spared(fs, r, Named(job), U)
    <3>1. \A p \in Seq(Name) : Len(p) >= Len(Root)
      <4>1. \A p \in Seq(Name) : Len(p) \in Nat
        OBVIOUS
      <4>2. Len(Root) = 0
        BY DEF Root
      <4> QED
        BY <4>1, <4>2
    <3>2. \A p \in Seq(Name) : IsPrefixOf(p, Named(job)) => Lookup(fs, p, r) \in C
      BY <2>2, <3>1
    <3> HIDE DEF U, r
    <3> QED
      BY <2>6, <3>2 DEF Spared
  <2>8. ASSUME NEW s \in 0 .. Oldest - 1
        PROVE  Spared(fs, rl[s + 1].rnum, Named(rl[s].op), U)
    <3> SUFFICES ASSUME Named(rl[s].op) # NoPath, NEW p \in Seq(Name),
                        IsPrefixOf(p, Named(rl[s].op)),
                        Lookup(fs, p, rl[s + 1].rnum) \in U \ {0}
                 PROVE  FALSE
      BY DEF Spared
    <3> DEFINE i == Lookup(fs, p, rl[s + 1].rnum)
    <3>1. i < 0 \/ i \in V[s + 1]
      BY <1>1, <1>2, <1>3, TreeLookup
    <3>2. V[0] \subseteq Inum /\ V[s + 1] \subseteq Inum /\ i \in Inum
      BY <1>3, SlotFacts DEF Sets
    <3>3. i \in V[s + 1]
      <4> HIDE DEF i
      <4> QED
        BY <3>1, <3>2, NumFacts
    <3>4. i \in V[0]
      BY <1>3, <2>2, <3>3
    <3>5. i \notin V[0] \ {0}
      <4>1. Spared(fs, rl[s + 1].rnum, Named(rl[s].op), V[0])
        <5>1. Proper(s) /\ 0 \in 0 .. s
          BY <1>1 DEF Proper
        <5> QED
          BY <5>1 DEF Safe, Pairs
      <4> QED
        BY <4>1 DEF Spared
    <3> QED
      BY <3>4, <3>5
  <2>9. PICK W : W = U
    OBVIOUS
  <2>10. W \in SUBSET Inum
    BY <2>4, <2>9 DEF Sets
  <2> QED
    BY <2>5, <2>7, <2>8, <2>9, <2>10
<1> QED
  BY <1>4, <1>5

(* The path that add_root collects is that of the label next to the last.  *)
LEMMA TargetNamed ==
  ASSUME TypeOK
  PROVE  \/ GcTarget = NoPath
         \/ /\ Named(rl[Oldest - 1].op) # NoPath
            /\ IsPrefixOf(GcTarget, Named(rl[Oldest - 1].op))
<1> DEFINE op == rl[Oldest - 1].op
<1>1. op.path \in Path
  <2>1. rl[Oldest - 1] \in RL!cow_version
    BY SlotFacts DEF TypeOK, RL!TypeOK
  <2> QED
    BY <2>1 DEF RL!cow_version, Labels
<1> HIDE DEF op
<1>2. GcTarget = NoPath \/ (GcTarget = Named(op) /\ Named(op) \in Path)
  <2>1. CASE FromInit
    BY <2>1 DEF GcTarget
  <2>2. CASE ~FromInit /\ op.call \in OnParent
    <3>1. GcTarget = dirname(op.path) /\ Named(op) = dirname(op.path)
      BY <2>2 DEF GcTarget, Named, op, OnPath, OnParent
    <3> QED
      BY <1>1, <3>1, PathFacts
  <2>3. CASE ~FromInit /\ op.call \in OnPath
    <3>1. GcTarget = op.path /\ Named(op) = op.path
      BY <2>3 DEF GcTarget, Named, op, OnPath, OnParent
    <3> QED
      BY <1>1, <3>1
  <2>4. CASE ~FromInit /\ op.call \notin OnPath /\ op.call \notin OnParent
    BY <2>4 DEF GcTarget, op
  <2> QED
    BY <2>1, <2>2, <2>3, <2>4
<1>3. Named(op) \in Path => IsPrefixOf(Named(op), Named(op)) /\ Named(op) # NoPath
  BY PathFacts, PrefixFacts
<1> QED
  BY <1>2, <1>3 DEF op

(* add_root up to its shift loop.                                          *)
LEMMA CollectAddRoot ==
  ASSUME TypeOK, Collectable, AddRoot
  PROVE  Collectable'
<1> DEFINE label == [call |-> job.call, path |-> Clip(job.call, job.path)]
<1>1. /\ fs' = fs /\ rl' = rl /\ ph = "idle" /\ ph' \in {"gc", "shift"} /\ ii' = Oldest
      /\ entry' = [rnum |-> job.new, op |-> label]
      /\ job' = [job EXCEPT !.stage = "push", !.gc = GcTarget]
      /\ job.stage = "climb" /\ job \in Jobs
  BY SlotFacts, JobParts DEF AddRoot, RL!AddRoot, RL!ShiftFrom
<1>2. Plain /\ Modes /\ Handlers
  BY DEF Collectable, Plain
<1>3. PICK D \in Depth, V \in Sets, P \in SUBSET Inum : Safe(D, V, P)
  BY DEF Collectable
<1>4. PICK U \in SUBSET Inum :
        /\ Tree(fs, job.new, U, D)
        /\ Spared(fs, rl[0].rnum, Named(job), U)
        /\ \A s \in 0 .. Oldest - 1 : Spared(fs, rl[s + 1].rnum, Named(rl[s].op), U)
  BY <1>2, <1>3, AddedTree
<1>5. entry'.rnum = job.new /\ Named(entry'.op) = Named(job) /\ entry'.op.call = job.call
  BY <1>1, <1>2 DEF Handlers, Named
<1>6. Trees(D, V)'
  <2>1. \A s \in RL!Slot : Tree(fs, rl[s].rnum, V[s], D)
    BY <1>1, <1>3, CalmTrees DEF Safe, Calm
  <2> QED
    BY <1>1, <1>3, <2>1 DEF Safe, Trees
<1>7. Pairs(V, U)'
  <2>1. \A s \in 0 .. Oldest - 1 : \A t \in 0 .. s :
            Spared(fs, rl[s + 1].rnum, Named(rl[s].op), V[t])
    BY <1>1, <1>3 DEF Safe, Pairs, Proper
  <2> QED
    BY <1>1, <1>4, <2>1 DEF Pairs
<1>8. Doubled(V)' /\ Pending(D, U)' /\ Stored(V, U)'
  BY <1>1, <1>4, <1>5, SlotFacts DEF Doubled, Pending, Stored
<1>9. job'.stage = "push" /\ job'.call = job.call /\ job'.gc = GcTarget
  BY <1>1 DEF Jobs
<1>10. Climbs(D, V)'
  BY <1>9 DEF Climbs
<1>11. Plain'
  <2>1. Handlers' /\ Modes'
    BY <1>1, <1>2, <1>9 DEF Handlers, Modes
  <2>2. Collects'
    BY <1>1, <1>9, TargetNamed DEF Collects
  <2>3. NoSet'
    BY <1>1, <1>2, <1>5 DEF Plain, NoSet, Handlers, Copying, OnPath, OnParent
  <2> QED
    BY <2>1, <2>2, <2>3 DEF Plain
<1> QED
  BY <1>6, <1>7, <1>8, <1>10, <1>11 DEF Collectable, Safe

(* What a label names is a path, or nothing.                               *)
LEMMA LabelPath ==
  ASSUME TypeOK, NEW s \in RL!Slot, Named(rl[s].op) # NoPath
  PROVE  Named(rl[s].op) \in Path /\ Named(rl[s].op) \in Seq(Name)
<1>1. rl[s].op.path \in Path
  <2>1. rl[s] \in RL!cow_version
    BY DEF TypeOK, RL!TypeOK
  <2> QED
    BY <2>1 DEF RL!cow_version, Labels
<1> QED
  BY <1>1, PathFacts DEF Named

(* An inode that no listed version reads can be freed.                     *)
LEMMA CollectFree ==
  ASSUME TypeOK, TypeOK', Collectable, FreeStep
  PROVE  Collectable'
<1>1. /\ ph = "gc" /\ UNCHANGED <<rl, ph, ii, entry>> /\ ii = Oldest
      /\ fs \in Table /\ fs' \in Table /\ job \in Jobs /\ job.gc \in Path
  BY SlotFacts, JobParts DEF FreeStep, list, TypeOK, RL!TypeOK
<1>2. Plain /\ Modes /\ Handlers /\ job.stage = "push"
  <2>1. job.stage # "serve"
    BY JobParts DEF FreeStep
  <2> QED
    BY <1>1, <2>1 DEF Collectable, Plain, Handlers
<1>3. PICK D \in Depth, V \in Sets, P \in SUBSET Inum : Safe(D, V, P)
  BY DEF Collectable
<1> DEFINE i == Lookup(fs, job.gc, rl[Oldest].rnum)
<1>4. /\ i <= 0 => fs' = fs /\ job' = [job EXCEPT !.gc = NoPath]
      /\ ~(i <= 0) => /\ i \in Inum /\ fs' = free_inode(fs, i)
                      /\ job' = [job EXCEPT !.gc = IF job.gc = Root THEN NoPath
                                                   ELSE dirname(job.gc)]
  BY DEF FreeStep, FreedRoot, Lookup
<1>5. /\ job'.stage = job.stage /\ job'.call = job.call
      /\ job'.gc \in {NoPath, dirname(job.gc)}
      /\ job'.gc # NoPath => job.gc # Root /\ job'.gc = dirname(job.gc)
  BY <1>1, <1>4, PathFacts DEF Jobs
<1>6. Handlers' /\ NoSet' /\ Climbs(D, V)'
  BY <1>1, <1>2, <1>5 DEF Plain, Handlers, NoSet, Climbs
<1>7. Named(rl[Oldest - 1].op) # NoPath /\ IsPrefixOf(job.gc, Named(rl[Oldest - 1].op))
  BY <1>1, <1>2, PathFacts DEF Plain, Collects
<1>8. Collects'
  <2>1. Named(rl[Oldest - 1].op) \in Seq(Name)
    BY <1>7, LabelPath, SlotFacts
  <2>2. job'.gc # NoPath => IsPrefixOf(dirname(job.gc), Named(rl[Oldest - 1].op))
    BY <1>1, <1>5, <1>7, <2>1, PrefixFacts, PathFacts DEF dirname, Root
  <2> QED
    BY <1>1, <1>5, <1>7, <2>2 DEF Collects
<1>9. CASE i <= 0
  <2>1. fs' = fs
    BY <1>4, <1>9
  <2>2. Modes'
    BY <1>2, <2>1 DEF Modes
  <2>3. Trees(D, V)' /\ Pairs(V, P)' /\ Doubled(V)' /\ Pending(D, P)' /\ Stored(V, P)'
    BY <1>1, <1>3, <2>1 DEF Safe, Trees, Live, Pairs, Proper, Doubled, Pending, Stored
  <2> QED
    BY <1>6, <1>8, <2>2, <2>3 DEF Collectable, Plain, Safe
<1>10. CASE ~(i <= 0)
  <2>1. i \in Inum /\ i # 0 /\ i \in Num /\ fs' = free_inode(fs, i)
    BY <1>4, <1>10, InumNum
  <2> HIDE DEF i
  <2>2. /\ fs'.ibm = fs.ibm \ {i}
        /\ \A j \in Num \ {i} : fs'.ino[j] = fs.ino[j]
    BY <1>1, <2>1, FreeOthers
  <2>3. \A s \in 0 .. Oldest - 1 : /\ Proper(s)
                                   /\ s \in RL!Slot /\ s + 1 \in RL!Slot
    BY <1>1, SlotFacts DEF Proper, RL!Slot, Oldest
  <2>4. /\ i \notin P
        /\ \A t \in 0 .. Oldest - 1 : i \notin V[t]
    <3>1. Oldest - 1 \in 0 .. Oldest - 1 /\ Oldest - 1 + 1 = Oldest
      BY SlotFacts
    <3>2. /\ Spared(fs, rl[Oldest].rnum, Named(rl[Oldest - 1].op), P)
          /\ \A t \in 0 .. Oldest - 1 :
                Spared(fs, rl[Oldest].rnum, Named(rl[Oldest - 1].op), V[t])
      BY <1>3, <2>3, <3>1 DEF Safe, Pairs
    <3>3. \A U : Spared(fs, rl[Oldest].rnum, Named(rl[Oldest - 1].op), U) => i \notin U
      BY <1>1, <1>7, <2>1, PathFacts DEF Spared, i
    <3> QED
      BY <3>2, <3>3
  <2>5. ASSUME NEW r, NEW U, Tree(fs, r, U, D), i \notin U PROVE Tree(fs', r, U, D)
    <3>1. U \subseteq fs.ibm /\ U \subseteq Num
      BY <1>1, <2>5, TableParts DEF Tree, Num
    <3>2. Same(fs, fs', U)
      BY <2>2, <2>5, <3>1 DEF Same
    <3> QED
      BY <2>5, <3>2, TreeKept
  <2>6. \A s \in RL!Slot : Live(s) => s \in 0 .. Oldest - 1
    BY <1>1, SlotFacts DEF Live, RL!Slot, Oldest
  <2>7. Trees(D, V)'
    <3>1. \A s \in RL!Slot : Live(s) => Tree(fs', rl[s].rnum, V[s], D)
      BY <1>3, <2>4, <2>5, <2>6 DEF Safe, Trees
    <3> QED
      BY <1>1, <1>3, <3>1 DEF Safe, Trees, Live
  <2>8. ASSUME NEW r, NEW t, NEW U \in SUBSET Inum, Spared(fs, r, t, U)
        PROVE  Spared(fs', r, t, U)
    <3>1. \A p \in Seq(Name) : Lookup(fs', p, r) \in {Lookup(fs, p, r), ENOENT}
      BY <1>1, <2>1, FreedLookup
    <3>2. ENOENT \notin U
      BY NumFacts DEF ENOENT
    <3> QED
      BY <2>8, <3>1, <3>2 DEF Spared
  <2>9. Pairs(V, P)'
    <3>1. \A t \in 0 .. Oldest - 1 : V[t] \in SUBSET Inum
      BY SlotFacts DEF Sets, RL!Slot, Oldest
    <3>2. ASSUME NEW s \in 0 .. Oldest - 1, NEW t \in 0 .. s PROVE V[t] \in SUBSET Inum
      <4>1. t \in 0 .. Oldest - 1
        BY SlotFacts
      <4> QED
        BY <3>1, <4>1
    <3>3. \A s \in 0 .. Oldest - 1 :
             /\ Spared(fs', rl[s + 1].rnum, Named(rl[s].op), P)
             /\ \A t \in 0 .. s : Spared(fs', rl[s + 1].rnum, Named(rl[s].op), V[t])
      BY <1>3, <2>3, <2>8, <3>2 DEF Safe, Pairs
    <3> QED
      BY <1>1, <3>3 DEF Pairs
  <2>10. Pending(D, P)'
    BY <1>1, <1>3, <2>4, <2>5, <2>8 DEF Safe, Pending
  <2>11. Doubled(V)' /\ Stored(V, P)'
    BY <1>1 DEF Doubled, Stored
  <2>12. Modes'
    <3>1. fs'.ibm \subseteq fs.ibm /\ 0 \in fs'.ibm /\ 0 \in Num \ {i}
          /\ \A j \in fs'.ibm : j \in Num \ {i}
      BY <1>1, <1>2, <2>1, <2>2, TableParts DEF Modes, Num
    <3> QED
      BY <1>2, <2>2, <3>1 DEF Modes
  <2> QED
    BY <1>6, <1>8, <2>7, <2>9, <2>10, <2>11, <2>12 DEF Collectable, Plain, Safe
<1> QED
  BY <1>9, <1>10

(* The collection returns, and no label can make it abort.                 *)
LEMMA CollectReturns ==
  ASSUME TypeOK, Collectable, Collected \/ CollectAborts
  PROVE  Collectable'
<1>1. ~CollectAborts
  BY SlotFacts DEF CollectAborts, Collectable, Plain, NoSet
<1>2. /\ fs' = fs /\ job' = job /\ rl' = rl /\ ii' = ii /\ entry' = entry
      /\ ph = "gc" /\ ph' = "shift" /\ ii = Oldest
  BY <1>1, SlotFacts DEF Collected, RL!Collected, TypeOK, RL!TypeOK
<1>3. PICK D \in Depth, V \in Sets, P \in SUBSET Inum : Safe(D, V, P)
  BY DEF Collectable
<1>4. Trees(D, V)' /\ Pairs(V, P)' /\ Doubled(V)' /\ Pending(D, P)' /\ Stored(V, P)'
  <2>1. Oldest \in Nat
    BY SlotFacts
  <2>2. Trees(D, V)'
    BY <1>2, <1>3, <2>1 DEF Safe, Trees, Live
  <2>3. Pairs(V, P)'
    BY <1>2, <1>3 DEF Safe, Pairs, Proper
  <2>4. Pending(D, P)'
    BY <1>2, <1>3 DEF Safe, Pending
  <2>5. Doubled(V)' /\ Stored(V, P)'
    BY <1>2, <2>1 DEF Doubled, Stored
  <2> QED
    BY <2>2, <2>3, <2>4, <2>5
<1>5. Plain' /\ Climbs(D, V)'
  BY <1>2, <1>3 DEF Collectable, Plain, Handlers, Collects, NoSet, Modes, Climbs
<1> QED
  BY <1>4, <1>5 DEF Collectable, Safe

(* The shift moves a version and its tree.                                 *)
LEMMA CollectShift ==
  ASSUME TypeOK, Collectable, RL!Shift, UNCHANGED <<fs, job>>
  PROVE  Collectable'
<1>1. /\ fs' = fs /\ job' = job /\ entry' = entry /\ ph = "shift"
      /\ rl' = [rl EXCEPT ![ii] = rl[ii - 1]] /\ ii' = ii - 1
      /\ ph' = IF ii = 1 THEN "rnum" ELSE "shift"
      /\ rl \in [RL!Slot -> RL!cow_version] /\ ii \in Nat /\ ii > 0 /\ ii <= Oldest
      /\ ii \in RL!Slot /\ ii - 1 \in RL!Slot
  <2>1. /\ fs' = fs /\ job' = job /\ entry' = entry /\ ph = "shift"
        /\ rl' = [rl EXCEPT ![ii] = rl[ii - 1]] /\ ii' = ii - 1
        /\ ph' = IF ii = 1 THEN "rnum" ELSE "shift"
        /\ rl \in [RL!Slot -> RL!cow_version] /\ ii \in RL!Slot /\ ii > 0
    BY DEF RL!Shift, TypeOK, RL!TypeOK
  <2>2. ii \in Nat /\ ii <= Oldest
    BY <2>1, SlotFacts
  <2>3. ii - 1 \in RL!Slot
    BY <2>1, <2>2, SlotFacts DEF RL!Slot
  <2> QED
    BY <2>1, <2>2, <2>3
<1>2. PICK D \in Depth, V \in Sets, P \in SUBSET Inum : Safe(D, V, P)
  BY DEF Collectable
<1>3. PICK W : W = [V EXCEPT ![ii] = V[ii - 1]]
  OBVIOUS
<1>4. /\ W \in Sets
      /\ W[ii] = V[ii - 1] /\ \A s \in RL!Slot \ {ii} : W[s] = V[s]
      /\ rl'[ii] = rl[ii - 1] /\ \A s \in RL!Slot \ {ii} : rl'[s] = rl[s]
  BY <1>1, <1>3 DEF Sets
<1>5. Trees(D, W)'
  <2>1. Tree(fs, rl[ii - 1].rnum, V[ii - 1], D)
    <3>1. Live(ii - 1)
      BY <1>1 DEF Live
    <3> QED
      BY <1>1, <1>2, <3>1 DEF Safe, Trees
  <2>2. ASSUME NEW s \in RL!Slot \ {ii} PROVE Tree(fs, rl[s].rnum, V[s], D)
    <3>1. Live(s)
      BY <1>1, <2>2, SlotFacts DEF Live
    <3> QED
      BY <1>2, <3>1 DEF Safe, Trees
  <2>3. \A s \in RL!Slot : Tree(fs, rl'[s].rnum, W[s], D)
    BY <1>4, <2>1, <2>2
  <2> QED
    BY <1>1, <1>2, <2>3 DEF Safe, Trees
<1>6. ASSUME NEW s \in 0 .. Oldest - 1, s # ii - 1
      PROVE  /\ Spared(fs, rl'[s + 1].rnum, Named(rl'[s].op), P)
             /\ \A t \in 0 .. s : Spared(fs, rl'[s + 1].rnum, Named(rl'[s].op), W[t])
  <2>0. /\ s \in RL!Slot /\ s + 1 \in RL!Slot /\ s + 1 # ii /\ s \in Nat
        /\ \A t \in 0 .. s : t \in RL!Slot
    BY <1>1, <1>6, SlotFacts DEF RL!Slot, Oldest
  <2>1. CASE s # ii
    <3>1. rl'[s + 1] = rl[s + 1] /\ rl'[s] = rl[s]
      BY <1>4, <2>0, <2>1
    <3>2. /\ Spared(fs, rl[s + 1].rnum, Named(rl[s].op), P)
          /\ \A t \in 0 .. s : Spared(fs, rl[s + 1].rnum, Named(rl[s].op), V[t])
      BY <1>2, <2>1 DEF Safe, Pairs, Proper
    <3>3. \A t \in 0 .. s : \E u \in 0 .. s : W[t] = V[u]
      <4> TAKE t \in 0 .. s
      <4>1. CASE t = ii
        BY <1>1, <1>4, <4>1
      <4>2. CASE t # ii
        BY <1>4, <2>0, <4>2
      <4> QED
        BY <4>1, <4>2
    <3> QED
      BY <3>1, <3>2, <3>3
  <2>2. CASE s = ii
    <3>1. ii < Oldest /\ rl[ii + 1] = rl[ii]
      BY <1>1, <1>2, <2>2, SlotFacts DEF Safe, Doubled
    <3>2. rl'[s + 1].rnum = rl[ii].rnum /\ rl'[s].op = rl[ii - 1].op
      BY <1>4, <2>0, <2>2, <3>1
    <3>3. /\ Spared(fs, rl[ii].rnum, Named(rl[ii - 1].op), P)
          /\ \A t \in 0 .. ii - 1 : Spared(fs, rl[ii].rnum, Named(rl[ii - 1].op), V[t])
      <4>1. ii - 1 \in 0 .. Oldest - 1 /\ Proper(ii - 1) /\ ii - 1 + 1 = ii
        BY <1>1, SlotFacts DEF Proper
      <4> QED
        BY <1>2, <4>1 DEF Safe, Pairs
    <3>4. \A t \in 0 .. s : \E u \in 0 .. ii - 1 : W[t] = V[u]
      <4> TAKE t \in 0 .. s
      <4>1. CASE t = ii
        BY <1>1, <1>4, <4>1
      <4>2. CASE t # ii
        BY <1>1, <1>4, <2>0, <2>2, <4>2
      <4> QED
        BY <4>1, <4>2
    <3> QED
      BY <3>2, <3>3, <3>4
  <2> QED
    BY <2>1, <2>2
<1>7. Pairs(W, P)'
  <2>1. ph' \notin {"idle", "off"} /\ ii' = ii - 1
    BY <1>1
  <2> QED
    BY <1>1, <1>6, <2>1 DEF Pairs, Proper
<1>8. Doubled(W)'
  <2>1. rl'[ii] = rl'[ii - 1] /\ W[ii] = W[ii - 1] /\ ii' + 1 = ii
    BY <1>1, <1>4
  <2> QED
    BY <1>1, <2>1 DEF Doubled
<1>9. Pending(D, P)' /\ Stored(W, P)'
  <2>1. rl'[0] = rl[0] /\ ph' \in {"shift", "rnum"}
    BY <1>1, <1>4, SlotFacts
  <2> QED
    BY <1>1, <1>2, <2>1 DEF Safe, Pending, Stored
<1>10. Plain' /\ Climbs(D, W)'
  <2>1. \A s \in RL!Slot : \E t \in RL!Slot : rl'[s] = rl[t]
    BY <1>1, <1>4
  <2>2. NoSet'
    BY <1>1, <2>1 DEF Collectable, Plain, NoSet
  <2>3. job.stage # "climb"
    BY <1>1 DEF Collectable, Plain, Handlers
  <2> QED
    BY <1>1, <2>2, <2>3 DEF Collectable, Plain, Handlers, Collects, Modes, Climbs
<1> QED
  BY <1>4, <1>5, <1>7, <1>8, <1>9, <1>10 DEF Collectable, Safe

(* The store of the root number puts the new version's tree into slot 0.   *)
LEMMA CollectStoreRnum ==
  ASSUME TypeOK, Collectable, RL!StoreRnum, UNCHANGED <<fs, job>>
  PROVE  Collectable'
<1>1. /\ fs' = fs /\ job' = job /\ entry' = entry /\ ph = "rnum" /\ ph' = "vnum"
      /\ rl' = [rl EXCEPT ![0].rnum = entry.rnum] /\ ii' = ii /\ ii = 0
      /\ rl \in [RL!Slot -> RL!cow_version] /\ 0 \in RL!Slot
  BY SlotFacts DEF RL!StoreRnum, TypeOK, RL!TypeOK
<1>2. PICK D \in Depth, V \in Sets, P \in SUBSET Inum : Safe(D, V, P)
  BY DEF Collectable
<1>3. PICK W : W = [V EXCEPT ![0] = P]
  OBVIOUS
<1>4. /\ W \in Sets
      /\ W[0] = P /\ \A s \in RL!Slot \ {0} : W[s] = V[s]
      /\ rl'[0].rnum = entry.rnum /\ \A s \in RL!Slot : rl'[s].op = rl[s].op
      /\ \A s \in RL!Slot \ {0} : rl'[s] = rl[s]
  BY <1>1, <1>3 DEF Sets, RL!cow_version
<1>5. Trees(D, W)'
  <2>1. \A s \in RL!Slot \ {0} : Tree(fs, rl'[s].rnum, W[s], D)
    BY <1>1, <1>2, <1>4, SlotFacts DEF Safe, Trees, Live
  <2>2. Tree(fs, rl'[0].rnum, W[0], D)
    BY <1>1, <1>2, <1>4 DEF Safe, Pending
  <2> QED
    BY <1>1, <1>2, <2>1, <2>2 DEF Safe, Trees
<1>6. ASSUME NEW s \in 0 .. Oldest - 1, s # 0
      PROVE  /\ Spared(fs, rl'[s + 1].rnum, Named(rl'[s].op), P)
             /\ \A t \in 0 .. s : Spared(fs, rl'[s + 1].rnum, Named(rl'[s].op), W[t])
  <2>1. s \in RL!Slot /\ s + 1 \in RL!Slot \ {0} /\ Proper(s)
        /\ \A t \in 0 .. s : t \in RL!Slot
    BY <1>1, <1>6, SlotFacts DEF RL!Slot, Oldest, Proper
  <2>2. /\ Spared(fs, rl[s + 1].rnum, Named(rl[s].op), P)
        /\ \A t \in 0 .. s : Spared(fs, rl[s + 1].rnum, Named(rl[s].op), V[t])
    BY <1>2, <2>1 DEF Safe, Pairs
  <2>3. rl'[s + 1] = rl[s + 1] /\ rl'[s].op = rl[s].op
    BY <1>4, <2>1
  <2> QED
    BY <1>4, <2>1, <2>2, <2>3
<1>7. Pairs(W, P)'
  BY <1>1, <1>6 DEF Pairs, Proper
<1>8. Doubled(W)' /\ Pending(D, P)'
  BY <1>1 DEF Doubled, Pending
<1>9. Stored(W, P)'
  <2>1. Spared(fs, rl[0].rnum, Named(entry.op), P) /\ rl[1] = rl[0]
    BY <1>1, <1>2 DEF Safe, Pending, Doubled
  <2>2. rl'[1] = rl[1]
    BY <1>4, SlotFacts DEF RL!Slot, Oldest
  <2> QED
    BY <1>1, <1>4, <2>1, <2>2 DEF Stored
<1>10. Plain' /\ Climbs(D, W)'
  <2>1. NoSet'
    BY <1>1, <1>4 DEF Collectable, Plain, NoSet
  <2>2. job.stage # "climb"
    BY <1>1 DEF Collectable, Plain, Handlers
  <2> QED
    BY <1>1, <2>1, <2>2 DEF Collectable, Plain, Handlers, Collects, Modes, Climbs
<1> QED
  BY <1>4, <1>5, <1>7, <1>8, <1>9, <1>10 DEF Collectable, Safe

(* The store of the version number.                                        *)
LEMMA CollectStoreVnum ==
  ASSUME TypeOK, Collectable, RL!StoreVnum, UNCHANGED <<fs, job>>
  PROVE  Collectable'
<1>1. /\ fs' = fs /\ job' = job /\ entry' = entry /\ ph = "vnum" /\ ph' = "op" /\ ii' = ii
      /\ \A s \in RL!Slot : rl'[s].rnum = rl[s].rnum /\ rl'[s].op = rl[s].op
  BY SlotFacts DEF RL!StoreVnum, TypeOK, RL!TypeOK, RL!cow_version
<1>2. PICK D \in Depth, V \in Sets, P \in SUBSET Inum : Safe(D, V, P)
  BY DEF Collectable
<1>3. Trees(D, V)'
  BY <1>1, <1>2 DEF Safe, Trees, Live
<1>4. Pairs(V, P)'
  <2>1. \A s \in 0 .. Oldest - 1 : s \in RL!Slot /\ s + 1 \in RL!Slot
    BY SlotFacts DEF RL!Slot, Oldest
  <2> QED
    BY <1>1, <1>2, <2>1 DEF Safe, Pairs, Proper
<1>5. Doubled(V)' /\ Pending(D, P)' /\ Stored(V, P)'
  <2>1. 1 \in RL!Slot
    BY SlotFacts DEF RL!Slot, Oldest
  <2> QED
    BY <1>1, <1>2, <2>1 DEF Safe, Doubled, Pending, Stored
<1>6. Plain' /\ Climbs(D, V)'
  BY <1>1 DEF Collectable, Plain, Handlers, Collects, NoSet, Modes, Climbs
<1> QED
  BY <1>3, <1>4, <1>5, <1>6 DEF Collectable, Safe

(* The last store gives the new version its label.                         *)
LEMMA CollectStoreLast ==
  ASSUME TypeOK, Collectable, StoreLast, fs' = fs
  PROVE  Collectable'
<1>1. /\ ph = "op" /\ ph' \in {"idle", "off"} /\ ii = 0 /\ ii' = 0 /\ entry' = RL!NoEntry
      /\ rl' = [rl EXCEPT ![0].op = entry.op]
      /\ rl \in [RL!Slot -> RL!cow_version] /\ 0 \in RL!Slot
  BY SlotFacts DEF StoreLast, RL!StoreOp, TypeOK, RL!TypeOK
<1>2. /\ \A s \in RL!Slot : rl'[s].rnum = rl[s].rnum
      /\ rl'[0].op = entry.op /\ \A s \in RL!Slot \ {0} : rl'[s] = rl[s]
  BY <1>1 DEF RL!cow_version
<1>3. job' = NoJob /\ job'.stage = "serve" /\ job'.call = ""
  <2>1. job.stage # "swap" /\ job.call \notin {"unlink", "set"}
    BY DEF Collectable, Plain, Handlers, Copying, OnPath, OnParent
  <2>2. job' = NoJob
    BY <2>1 DEF StoreLast
  <2> QED
    BY <2>2 DEF NoJob
<1>4. PICK D \in Depth, V \in Sets, P \in SUBSET Inum : Safe(D, V, P)
  BY DEF Collectable
<1>5. Trees(D, V)'
  BY <1>1, <1>2, <1>4 DEF Safe, Trees, Live
<1>6. ASSUME NEW s \in 0 .. Oldest - 1
      PROVE  /\ Spared(fs, rl'[s + 1].rnum, Named(rl'[s].op), P)
             /\ \A t \in 0 .. s : Spared(fs, rl'[s + 1].rnum, Named(rl'[s].op), V[t])
  <2>1. s \in RL!Slot /\ s + 1 \in RL!Slot \ {0}
    BY SlotFacts DEF RL!Slot, Oldest
  <2>2. rl'[s + 1] = rl[s + 1]
    BY <1>2, <2>1
  <2>3. CASE s = 0
    <3>1. Spared(fs, rl[1].rnum, Named(entry.op), P) /\ V[0] = P
      BY <1>1, <1>4 DEF Safe, Stored
    <3> QED
      BY <1>2, <2>2, <2>3, <3>1
  <2>4. CASE s # 0
    BY <1>1, <1>2, <1>4, <2>1, <2>2, <2>4 DEF Safe, Pairs, Proper
  <2> QED
    BY <2>3, <2>4
<1>7. Pairs(V, P)'
  BY <1>6 DEF Pairs
<1>8. Doubled(V)' /\ Pending(D, P)' /\ Stored(V, P)' /\ Climbs(D, V)'
  BY <1>1, <1>3 DEF Doubled, Pending, Stored, Climbs
<1>9. Plain'
  <2>1. entry'.op.call = "" /\ \A s \in RL!Slot : rl'[s].op.call # "set"
    BY <1>1, <1>2 DEF RL!NoEntry, NoLabel, Collectable, Plain, NoSet
  <2> QED
    BY <1>1, <1>3, <2>1 DEF Collectable, Plain, Handlers, Collects, NoSet, Modes
<1> QED
  BY <1>5, <1>7, <1>8, <1>9 DEF Collectable, Safe

-----------------------------------------------------------------------------
(* The theorems.                                                           *)

(* Every step keeps the versions collectable.                              *)
LEMMA CollectStep ==
  ASSUME PlainHistory
  PROVE  TypeOK /\ Collectable /\ [Next]_vars => Collectable'
<1> SUFFICES ASSUME TypeOK, Collectable, [Next]_vars PROVE Collectable'
  OBVIOUS
<1>1. TypeOK'
  BY StorageStep
<1>2. CASE UNCHANGED vars
  <2>1. PICK D \in Depth, V \in Sets, P \in SUBSET Inum : Safe(D, V, P)
    BY DEF Collectable
  <2>2. UNCHANGED <<fs, rl, ph, ii, entry, job>>
    BY <1>2 DEF vars, list
  <2>3. Trees(D, V)' /\ Pairs(V, P)'
    BY <2>1, <2>2 DEF Safe, Trees, Live, Pairs, Proper
  <2>6. Doubled(V)' /\ Pending(D, P)' /\ Stored(V, P)'
    BY <2>1, <2>2 DEF Safe, Doubled, Pending, Stored
  <2>4. Climbs(D, V)'
    <3>1. NoCopies => NoCopies'
      BY <2>2 DEF NoCopies
    <3>2. \A F, C : Climbed(D, V, F, C) => Climbed(D, V, F, C)'
      BY <2>2 DEF Climbed
    <3> QED
      BY <2>1, <2>2, <3>1, <3>2 DEF Safe, Climbs
  <2>5. Plain'
    BY <2>2 DEF Collectable, Plain, Handlers, Collects, NoSet, Modes
  <2> QED
    BY <2>1, <2>3, <2>4, <2>5, <2>6 DEF Collectable, Safe
<1>3. CASE Push
  BY <1>3, CollectShift, CollectStoreRnum, CollectStoreVnum, CollectStoreLast DEF Push, Store
<1>4. CASE Finish
  BY <1>4 DEF Finish, Finishing, Collectable, Plain, Handlers
<1> QED
  BY <1>1, <1>2, <1>3, <1>4, CollectRequest, CollectProcess, CollectClimb, CollectClimbAborts,
     CollectAddRoot, CollectFree, CollectReturns DEF Next, Step

(* In a new image every slot holds the empty root directory.               *)
LEMMA CollectInit == Init => Collectable
<1> SUFFICES ASSUME Init PROVE Collectable
  OBVIOUS
<1>1. /\ fs.ibm = {0} /\ fs.ino[0].mode = "dir" /\ fs.ino[0].ent = <<>>
      /\ ph = "off" /\ ii = 0 /\ entry = RL!NoEntry /\ job = NoJob
      /\ \A s \in RL!Slot : rl[s].rnum = 0 /\ rl[s].op.call \in {"", "init"}
  BY NumFacts DEF Init, Zeroed, RL!ZeroSlot, NoLabel
<1>2. Plain
  <2>1. NoJob.stage = "serve" /\ NoJob.call = "" /\ RL!NoEntry.op.call = ""
    BY DEF NoJob, RL!NoEntry, NoLabel
  <2> QED
    BY <1>1, <2>1 DEF Plain, Handlers, Collects, NoSet, Modes
<1>3. PICK D, V : D = [i \in Inum |-> 0] /\ V = [s \in RL!Slot |-> {0}]
  OBVIOUS
<1>4. D \in Depth /\ V \in Sets /\ D[0] = 0 /\ \A s \in RL!Slot : V[s] = {0}
  BY <1>3, NumFacts DEF Depth, Sets
<1>5. Tree(fs, 0, {0}, D)
  <2>1. Ents(fs, 0) = {}
    <3>1. \A e : e = <<>> => DOMAIN e = {}
      OBVIOUS
    <3>2. fs.ino[0].ent = <<>>
      BY <1>1
    <3> QED
      BY <3>1, <3>2, Zenon DEF Ents
  <2>2. 0 \in fs.ibm /\ D[0] = 0
    BY <1>1, <1>4
  <2>3. \A f \in Depth : f[0] = 0 /\ 0 \in fs.ibm /\ Ents(fs, 0) = {} => Tree(fs, 0, {0}, f)
    BY RootTree
  <2> QED
    BY <1>4, <2>1, <2>2, <2>3
<1>6. Trees(D, V)
  BY <1>1, <1>4, <1>5 DEF Trees
<1>7. Pairs(V, {0})
  <2>1. \A ro, t : Spared(fs, ro, t, {0})
    BY DEF Spared
  <2>2. \A s \in 0 .. Oldest - 1 : \A t \in 0 .. s : t \in RL!Slot
    BY SlotFacts DEF RL!Slot, Oldest
  <2>3. \A s \in 0 .. Oldest - 1 : \A t \in 0 .. s :
           Spared(fs, rl[s + 1].rnum, Named(rl[s].op), V[t])
    BY <1>4, <2>1, <2>2
  <2> QED
    BY <2>1, <2>3 DEF Pairs
<1>8. Doubled(V) /\ Pending(D, {0}) /\ Stored(V, {0}) /\ Climbs(D, V)
  BY <1>1 DEF Doubled, Pending, Stored, Climbs, NoJob
<1> QED
  BY <1>2, <1>4, <1>6, <1>7, <1>8, NumFacts DEF Collectable, Safe

(* However many versions have been collected, every inode a listed version *)
(* reads is allocated and has a mode: as long as there is no rollback, the *)
(* labels hold whole paths, and the calls are those whose label names what *)
(* they copied, through deaths outside the push and a full inode table.    *)
THEOREM NoDanglingCollected ==
  ASSUME PlainHistory
  PROVE  Spec => []NoDangling
<1> DEFINE I == TypeOK /\ Collectable
<1>1. Init => I
  BY StorageInit, CollectInit
<1>2. I /\ [Next]_vars => I'
  BY StorageStep, CollectStep
<1>3. I => NoDangling
  BY SafeNoDangling DEF Collectable, Plain, Safe
<1> QED
  BY <1>1, <1>2, <1>3, PTL DEF Spec

(* In such a history every handler commits with one store, add_root's root *)
(* number: nothing that is collected or copied shows before or after it.   *)
THEOREM CommitAtomicCollected ==
  ASSUME PlainHistory
  PROVE  Spec => CommitAtomic
<1>1. Spec => []NoDangling
  BY NoDanglingCollected
<1>2. Spec /\ []NoDangling => CommitAtomic
  BY CommitAtomicIfAllocated
<1> QED
  BY <1>1, <1>2

(* In such a history an older version shows the same until it is itself    *)
(* collected, whatever is collected below it.                              *)
THEOREM VersionsFrozenCollected ==
  ASSUME PlainHistory
  PROVE  Spec => VersionsFrozen
<1>1. Spec => []NoDangling
  BY NoDanglingCollected
<1>2. \A q \in Calls : q.call \notin InPlace
  BY DEF PlainHistory, Copying, OnPath, OnParent, InPlace
<1>3. Spec /\ []NoDangling => VersionsFrozen
  BY <1>2, VersionsFrozenIfAllocated
<1> QED
  BY <1>1, <1>3

(* A step other than the store of the root changes nothing of what the     *)
(* root at the head shows.                                                 *)
LEMMA HeadShows ==
  ASSUME TypeOK, TypeOK', HeadUsed, Quiet, Quiet', NoDangling, NoDangling', [Next]_vars
  PROVE  View(fs', rl[0].rnum) = View(fs, rl[0].rnum)
<1>1. 0 \in Kept /\ 0 # Oldest
  BY SlotFacts DEF Kept, HeadUsed
<1>2. CASE Untouched(fs, fs')
  BY <1>1, <1>2, KeptView
<1>3. CASE FreeStep
  BY <1>1, <1>3, FreeView
<1> QED
  BY <1>2, <1>3, StepKinds DEF Quiet, InPlace

(* In such a history a collection changes nothing of what the current      *)
(* version shows: it is after a rollback that it does.                     *)
THEOREM GcSparesCurrentCollected ==
  ASSUME PlainHistory
  PROVE  Spec => GcSparesCurrent
<1> DEFINE I == TypeOK /\ HeadUsed /\ Quiet
           A == ph = "gc" => View(fs', rl[0].rnum) = View(fs, rl[0].rnum)
<1>1. Spec => []NoDangling
  BY NoDanglingCollected
<1>2. Init => I
  <2>1. NoJob.call = "" /\ NoJob.stage = "serve"
    BY DEF NoJob
  <2>2. Init => Quiet
    BY <2>1 DEF Init, Quiet, InPlace
  <2>3. Init => HeadUsed
    BY SlotFacts DEF Init, HeadUsed
  <2> QED
    BY <2>2, <2>3, StorageInit
<1>3. I /\ [Next]_vars => I'
  <2>1. \A q \in Calls : q.call \notin InPlace
    BY DEF PlainHistory, Copying, OnPath, OnParent, InPlace
  <2> QED
    BY <2>1, StorageStep, HeadStep, QuietStep
<1>4. I /\ I' /\ NoDangling /\ NoDangling' /\ [Next]_vars => [A]_vars
  BY HeadShows
<1>5. Spec => []I
  BY <1>2, <1>3, PTL DEF Spec
<1>6. []I /\ []NoDangling /\ [][Next]_vars => [][A]_vars
  BY <1>4, PTL
<1> QED
  BY <1>1, <1>5, <1>6, PTL DEF Spec, GcSparesCurrent
=============================================================================
