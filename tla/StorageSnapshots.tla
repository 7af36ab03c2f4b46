------------------------- MODULE StorageSnapshots -------------------------
(***************************************************************************)
(* The handlers implement whole trees: what a climb has made shows what    *)
(* its version showed, with the change of the request, and a commit, a     *)
(* collection and a shift change nothing of what the list shows.           *)
(***************************************************************************)
EXTENDS StorageCollect, FiniteSetTheorems

-----------------------------------------------------------------------------
(* Copies of what a path reads.                                            *)

\* The inodes that are read along path t from its m-th name on.
Way(d, r, t, m) == {Lookup(d, p, r) : p \in {p \in Seq(Name) : IsPrefixOf(p, t) /\ Len(p) >= m}}

\* Nothing that root r reads.
Apart(d, r, i) == \A p \in Seq(Name) : Lookup(d, p, r) # i

\* The entries em are en with numbers as f gives them, and x behind them.
Renumbered(f, en, em, x) ==
    /\ Len(em) = Len(en) + Len(x)
    /\ \A k \in 1 .. Len(en) : em[k].name = en[k].name /\ em[k].inum = f[en[k].inum]
    /\ \A k \in 1 .. Len(x) : em[Len(en) + k] = x[k]

\* f takes each inode on the way to its copy, and the others to themselves;
\* the last one on the way has the entries x more.
Copied(d, r, t, m, f, x) ==
    /\ f \in [Inum -> Inum]
    /\ \A i \in Inum \ Way(d, r, t, m) : f[i] = i
    /\ \A i \in Way(d, r, t, m) :
          /\ i \in Inum /\ f[i] \in d.ibm /\ Apart(d, r, f[i])
          /\ \A j \in Way(d, r, t, m) : f[i] = f[j] => i = j
          /\ Renumbered(f, d.ino[i].ent, d.ino[f[i]].ent, IF i = Lookup(d, t, r) THEN x ELSE <<>>)

\* A copy shows what its original does.
Shown(n) == [mode |-> n.mode, ts |-> n.ts, data |-> n.data]

(* The least number of a set is its least number.                          *)
LEMMA LeastIs ==
  ASSUME NEW S \in SUBSET Nat, NEW m \in S, \A y \in S : m <= y
  PROVE  Least(S) = m
<1>1. \E x \in S : \A y \in S : x <= y
  OBVIOUS
<1>2. Least(S) \in S /\ \A y \in S : Least(S) <= y
  BY <1>1 DEF Least
<1>3. Least(S) <= m /\ m <= Least(S) /\ m \in Nat /\ Least(S) \in Nat
  BY <1>2
<1> QED
  BY <1>3

\* Looking a name up in n and in its copy m.
Traced(f, n, m, x, a) ==
    \/ \E k \in DOMAIN n.ent : /\ directory_lookup(n, a) = n.ent[k].inum
                               /\ directory_lookup(m, a) = f[n.ent[k].inum]
    \/ /\ directory_lookup(n, a) = ENOENT
       /\ \/ directory_lookup(m, a) = ENOENT /\ \A k \in 1 .. Len(x) : x[k].name # a
          \/ \E k \in 1 .. Len(x) : x[k].name = a /\ directory_lookup(m, a) = x[k].inum

(* A name is found in renumbered entries where it was, or among those that *)
(* are new.                                                                *)
LEMMA RenumberedLookup ==
  ASSUME NEW n \in inode, NEW m \in inode, NEW f, NEW x \in Seq(ddirent), NEW a,
         Renumbered(f, n.ent, m.ent, x)
  PROVE  Traced(f, n, m, x, a)
<1> DEFINE N == Hits(n, a)
           M == Hits(m, a)
           ln == Len(n.ent)
           lm == Len(m.ent)
           lx == Len(x)
<1>1. /\ n.ent \in Seq(ddirent) /\ m.ent \in Seq(ddirent)
      /\ ln \in Nat /\ lm \in Nat /\ lx \in Nat /\ lm = ln + lx
      /\ DOMAIN n.ent = 1 .. ln /\ DOMAIN m.ent = 1 .. lm
  BY DEF inode, Renumbered
<1>2. N \in SUBSET Nat /\ M \in SUBSET Nat
  BY <1>1 DEF Hits
<1>3. \A k \in 1 .. ln : k \in N <=> k \in M
  BY <1>1 DEF Hits, Renumbered
<1>4. \A k \in M : k \in 1 .. ln \/ (k - ln \in 1 .. lx /\ x[k - ln].name = a /\ m.ent[k] = x[k - ln])
  <2> TAKE k \in M
  <2>1. k \in 1 .. lm /\ m.ent[k].name = a
    BY <1>1 DEF Hits
  <2>2. CASE k \in 1 .. ln
    BY <2>2
  <2>3. CASE ~(k \in 1 .. ln)
    <3>1. k - ln \in 1 .. lx /\ ln + (k - ln) = k
      BY <1>1, <2>1, <2>3
    <3>2. m.ent[ln + (k - ln)] = x[k - ln]
      BY <3>1 DEF Renumbered
    <3> QED
      BY <2>1, <3>1, <3>2
  <2> QED
    BY <2>2, <2>3
<1>5. CASE N # {}
  <2>1. PICK k \in N : \A y \in N : k <= y
    BY <1>2, <1>5, NatMin
  <2>2. k \in 1 .. ln /\ k \in M
    BY <1>1, <1>3, <2>1 DEF Hits
  <2>3. \A y \in M : k <= y
    <3> TAKE y \in M
    <3>1. y \in 1 .. lm /\ (y \in 1 .. ln \/ y > ln)
      BY <1>1 DEF Hits
    <3> QED
      BY <1>1, <1>3, <2>1, <2>2, <3>1
  <2>4. Least(N) = k /\ Least(M) = k
    BY <1>2, <2>1, <2>2, <2>3, LeastIs
  <2>5. directory_lookup(n, a) = n.ent[k].inum /\ directory_lookup(m, a) = m.ent[k].inum
    BY <1>5, <2>2, <2>4 DEF directory_lookup
  <2> QED
    BY <1>1, <1>5, <2>2, <2>5 DEF Renumbered, Traced
<1>6. CASE N = {} /\ M = {}
  <2>1. \A k \in 1 .. lx : x[k].name # a
    <3> SUFFICES ASSUME NEW k \in 1 .. lx, x[k].name = a PROVE FALSE
      OBVIOUS
    <3>1. ln + k \in 1 .. lm /\ m.ent[ln + k] = x[k]
      BY <1>1 DEF Renumbered
    <3> QED
      BY <1>1, <1>6, <3>1 DEF Hits
  <2> QED
    BY <1>6, <2>1 DEF directory_lookup, Traced
<1>7. CASE N = {} /\ M # {}
  <2>1. PICK k \in M : \A y \in M : k <= y
    BY <1>2, <1>7, NatMin
  <2>2. Least(M) = k /\ directory_lookup(m, a) = m.ent[k].inum
    BY <1>2, <1>7, <2>1, LeastIs DEF directory_lookup
  <2>3. ~(k \in 1 .. ln)
    BY <1>3, <1>7
  <2>4. k - ln \in 1 .. lx /\ x[k - ln].name = a /\ m.ent[k] = x[k - ln]
    BY <1>4, <2>1, <2>3
  <2> QED
    BY <1>7, <2>2, <2>4 DEF directory_lookup, Traced
<1> QED
  BY <1>5, <1>6, <1>7

(* Off the way an entry leads to the way only where it begins.             *)
LEMMA OffWay ==
  ASSUME NEW d \in Table, NEW r, NEW V, NEW D \in Depth, Tree(d, r, V, D),
         NEW t \in Seq(Name), NEW m \in Nat, NEW i \in V, i \notin Way(d, r, t, m),
         NEW y \in Ents(d, i), y >= 0, y \in Way(d, r, t, m)
  PROVE  \E p \in Seq(Name) :
            /\ p # <<>> /\ IsPrefixOf(p, t) /\ Len(p) = m /\ Lookup(d, p, r) = y
            /\ Lookup(d, SubSeq(p, 1, Len(p) - 1), r) = i
<1>0. V \subseteq Inum /\ Inum \subseteq Nat
  BY NumFacts, TableParts DEF Tree
<1>1. PICK p \in Seq(Name) : IsPrefixOf(p, t) /\ Len(p) >= m /\ Lookup(d, p, r) = y
  BY DEF Way
<1>2. y \in Int /\ y \in V /\ D[y] = D[i] + 1 /\ D[y] = Len(p)
  <2>1. y \in Int /\ (y < 0 \/ (y \in V /\ D[y] = Len(p)))
    BY <1>1, TreeLookup
  <2>2. ~(y < 0)
    BY <2>1
  <2> QED
    BY <2>1, <2>2 DEF Tree
<1>3. D[i] \in Nat /\ Len(p) \in Nat /\ p # <<>>
  BY <1>0, <1>1, <1>2 DEF Depth
<1> DEFINE u == SubSeq(p, 1, Len(p) - 1)
           w == Lookup(d, u, r)
<1>4. u \in Seq(Name) /\ Len(u) = Len(p) - 1 /\ IsPrefixOf(u, t)
  BY <1>1, <1>3, ParentPath, PrefixFacts
<1>5. y = IF w < 0 THEN w ELSE directory_lookup(d.ino[w], p[Len(p)])
  BY <1>1, <1>3, LookupStep DEF Lookup
<1>6. w \in Int /\ (w < 0 \/ w \in V)
  BY <1>4, TreeLookup
<1>7. w \in V /\ w \in Num /\ y = directory_lookup(d.ino[w], p[Len(p)])
  BY <1>0, <1>2, <1>5, <1>6 DEF Num
<1>8. y \in Ents(d, w)
  <2>1. directory_lookup(d.ino[w], p[Len(p)]) \in Ents(d, w) \cup {ENOENT}
    BY <1>7, LookupEntry
  <2>2. y # ENOENT
    BY <1>2 DEF ENOENT
  <2> QED
    BY <1>7, <2>1, <2>2
<1>9. w = i
  <2> HIDE DEF w
  <2>1. y \in Ents(d, w) \cap Ents(d, i) /\ ~(y < 0)
    BY <1>2, <1>8
  <2> QED
    BY <1>7, <2>1 DEF Tree, OneDir
<1>10. ~(Len(u) >= m)
  BY <1>4, <1>9 DEF Way
<1>11. Len(p) = m
  BY <1>1, <1>3, <1>4, <1>10
<1> QED
  BY <1>1, <1>3, <1>9, <1>11

(* What the last name of a path finds.                                     *)
LEMMA LastName ==
  ASSUME NEW d \in Table, NEW p \in Seq(Name), p # <<>>, NEW r,
         NEW i \in Inum, i = Lookup(d, SubSeq(p, 1, Len(p) - 1), r)
  PROVE  Lookup(d, p, r) = directory_lookup(d.ino[i], p[Len(p)])
<1>1. ~(i < 0)
  BY NumFacts
<1> QED
  BY <1>1, LookupStep DEF Lookup

(* In the copy every path leads to the copy of what it led to.             *)
LEMMA CopyLookup ==
  ASSUME NEW d \in Table, NEW r, NEW V, NEW D \in Depth, Tree(d, r, V, D),
         NEW t \in Seq(Name), NEW f, NEW x \in Seq(ddirent), Copied(d, r, t, 0, f, x),
         NEW p \in Seq(Name), Lookup(d, p, r) >= 0
  PROVE  Lookup(d, p, f[r]) = f[Lookup(d, p, r)] /\ Lookup(d, p, r) \in V
<1> DEFINE Ok(q) == Lookup(d, q, r) >= 0 => Lookup(d, q, f[r]) = f[Lookup(d, q, r)]
           S == {q \in Seq(Name) : Ok(q)}
           C == Way(d, r, t, 0)
<1>0. V \subseteq Inum /\ Inum \subseteq Nat
  BY NumFacts, TableParts DEF Tree
<1>1. <<>> \in S
  <2>1. Lookup(d, <<>>, r) = r /\ Lookup(d, <<>>, f[r]) = f[r]
    BY LookupRoot DEF Lookup
  <2> QED
    BY <2>1
<1>2. ASSUME NEW q \in Seq(Name), q # <<>>, SubSeq(q, 1, Len(q) - 1) \in S
      PROVE  q \in S
  <2> DEFINE u == SubSeq(q, 1, Len(q) - 1)
             i == Lookup(d, u, r)
             a == q[Len(q)]
             y == Lookup(d, q, r)
  <2> SUFFICES ASSUME y >= 0 PROVE Lookup(d, q, f[r]) = f[y]
    BY <1>2
  <2>1. u \in Seq(Name)
    BY <1>2, ParentPath
  <2>2. y = IF i < 0 THEN i ELSE directory_lookup(d.ino[i], a)
    BY <1>2, LookupStep DEF Lookup
  <2>3. i \in Int /\ (i < 0 \/ i \in V) /\ y \in Int
    BY <1>2, <2>1, TreeLookup
  <2> HIDE DEF y
  <2>4. i \in V /\ i \in Inum /\ i \in Num /\ i >= 0 /\ y = directory_lookup(d.ino[i], a)
    BY <1>0, <2>2, <2>3 DEF Num
  <2>5. Lookup(d, u, f[r]) = f[i] /\ f[i] \in Inum /\ f[i] \in Num
    BY <1>2, <2>4 DEF Copied, Num
  <2>6. Lookup(d, q, f[r]) = directory_lookup(d.ino[f[i]], a)
    BY <1>2, <2>5, LastName
  <2>7. y \in Ents(d, i)
    BY <2>3, <2>4, LookupEntry DEF ENOENT
  <2> HIDE DEF i, a, u
  <2>8. CASE i \in C
    <3> DEFINE xi == IF i = Lookup(d, t, r) THEN x ELSE <<>>
    <3>1. Renumbered(f, d.ino[i].ent, d.ino[f[i]].ent, xi)
      BY <2>8 DEF Copied
    <3>2. xi \in Seq(ddirent) /\ d.ino[i] \in inode /\ d.ino[f[i]] \in inode
      BY <2>4, <2>5, InodeParts
    <3> DEFINE n == d.ino[i]
               c == d.ino[f[i]]
    <3>3. directory_lookup(n, a) # ENOENT
      BY <2>3, <2>4 DEF ENOENT
    <3>5. y = directory_lookup(n, a) /\ Lookup(d, q, f[r]) = directory_lookup(c, a)
      BY <2>4, <2>6
    <3>6. Renumbered(f, n.ent, c.ent, xi) /\ n \in inode /\ c \in inode
      BY <3>1, <3>2
    <3> HIDE DEF xi, n, c
    <3>7. Traced(f, n, c, xi, a)
      BY <3>2, <3>6, RenumberedLookup
    <3>4. \E k \in DOMAIN n.ent : /\ directory_lookup(n, a) = n.ent[k].inum
                                  /\ directory_lookup(c, a) = f[n.ent[k].inum]
      BY <3>3, <3>7 DEF Traced
    <3> QED
      BY <3>4, <3>5
  <2>9. CASE i \notin C
    <3>1. f[i] = i
      BY <2>4, <2>9 DEF Copied
    <3>2. y \notin C
      <4> SUFFICES ASSUME y \in C PROVE FALSE
        OBVIOUS
      <4>1. \E v \in Seq(Name) : v # <<>> /\ Len(v) = 0
        BY <2>4, <2>7, <2>9, OffWay
      <4> QED
        BY <4>1
    <3>3. y \in Inum
      BY <1>0, <2>4, <2>7, <2>3 DEF Tree
    <3>4. f[y] = y
      BY <3>2, <3>3 DEF Copied
    <3> QED
      BY <2>4, <2>6, <3>1, <3>4
  <2> QED
    BY <2>8, <2>9
<1>3. S = Seq(Name)
  <2>1. S \in SUBSET Seq(Name)
    OBVIOUS
  <2> HIDE DEF S
  <2> QED
    BY <1>1, <1>2, <2>1, PathInduction
<1>4. Lookup(d, p, r) \in V
  BY TreeLookup
<1> QED
  BY <1>3, <1>4

(* A path is its parent and its last name.                                 *)
LEMMA LastOfPath ==
  ASSUME NEW p \in Seq(Name), p # <<>>
  PROVE  p = Append(SubSeq(p, 1, Len(p) - 1), p[Len(p)])
<1> DEFINE u == SubSeq(p, 1, Len(p) - 1)
           a == p[Len(p)]
<1>1. /\ u \in Seq(Name) /\ Len(u) = Len(p) - 1 /\ Len(p) \in Nat \ {0}
      /\ \A k \in 1 .. Len(p) - 1 : u[k] = p[k]
  BY ParentPath
<1>2. a \in Name
  BY <1>1
<1> HIDE DEF u, a
<1> DEFINE v == Append(u, a)
<1>3. v \in Seq(Name) /\ Len(v) = Len(p)
  BY <1>1, <1>2
<1>4. \A k \in 1 .. Len(p) : v[k] = p[k]
  <2> TAKE k \in 1 .. Len(p)
  <2>1. CASE k \in 1 .. Len(p) - 1
    BY <1>1, <1>2, <2>1
  <2>2. CASE k = Len(p)
    BY <1>1, <1>2, <2>2 DEF a
  <2> QED
    BY <1>1, <2>1, <2>2
<1> HIDE DEF v
<1>5. v = p
  BY <1>3, <1>4
<1> QED
  BY <1>5 DEF v, u, a

(* A path and a name behind it.                                            *)
LEMMA LongerPath ==
  ASSUME NEW t \in Seq(Name), NEW a \in Name
  PROVE  LET p == Append(t, a)
         IN  /\ p \in Seq(Name) /\ p # <<>> /\ Len(p) = Len(t) + 1
             /\ SubSeq(p, 1, Len(p) - 1) = t /\ p[Len(p)] = a
<1> DEFINE p == Append(t, a)
           u == SubSeq(p, 1, Len(p) - 1)
<1>1. /\ p \in Seq(Name) /\ p # <<>> /\ Len(p) = Len(t) + 1 /\ p[Len(p)] = a
      /\ \A k \in 1 .. Len(t) : p[k] = t[k]
  OBVIOUS
<1> HIDE DEF p
<1>2. /\ u \in Seq(Name) /\ Len(u) = Len(p) - 1
      /\ \A k \in 1 .. Len(p) - 1 : u[k] = p[k]
  BY <1>1, ParentPath
<1>3. Len(t) \in Nat /\ Len(p) - 1 = Len(t)
  BY <1>1
<1> HIDE DEF u
<1>4. Len(u) = Len(t) /\ \A k \in 1 .. Len(t) : u[k] = t[k]
  BY <1>1, <1>2, <1>3
<1>5. u = t
  BY <1>2, <1>4
<1> QED
  BY <1>1, <1>5 DEF p, u

\* No two paths lead to the same directory.
OneName(d, r) ==
    \A p, q \in Seq(Name) :
        /\ Lookup(d, p, r) = Lookup(d, q, r) /\ Lookup(d, p, r) \in Inum
        /\ d.ino[Lookup(d, p, r)].mode # "file"
        => p = q

(* And what a path leads to in the copy it led to before, or it is the new *)
(* name.                                                                   *)
LEMMA CopyBack ==
  ASSUME NEW d \in Table, NEW r, NEW V, NEW D \in Depth, Tree(d, r, V, D),
         \A i \in V : \A y \in Ents(d, i) : y >= 0,
         NEW t \in Seq(Name), NEW f, NEW x \in Seq(ddirent), Copied(d, r, t, 0, f, x),
         \A k \in 1 .. Len(x) : x[k].inum \in Inum /\ Ents(d, x[k].inum) = {},
         x # <<>> => OneName(d, r) /\ d.ino[Lookup(d, t, r)].mode # "file",
         NEW p \in Seq(Name)
  PROVE  /\ Lookup(d, p, f[r]) \in Int
         /\ Lookup(d, p, f[r]) >= 0 =>
               \/ Lookup(d, p, r) \in V
               \/ \E k \in 1 .. Len(x) : /\ p = Append(t, x[k].name)
                                        /\ Lookup(d, p, f[r]) = x[k].inum
<1> DEFINE New(q) == \E k \in 1 .. Len(x) : /\ q = Append(t, x[k].name)
                                           /\ Lookup(d, q, f[r]) = x[k].inum
           Ok(q) == /\ Lookup(d, q, f[r]) \in Int
                    /\ Lookup(d, q, f[r]) >= 0 => Lookup(d, q, r) \in V \/ New(q)
           S == {q \in Seq(Name) : Ok(q)}
           C == Way(d, r, t, 0)
<1>0. V \subseteq Inum /\ Inum \subseteq Nat /\ r \in V
  BY NumFacts, TableParts DEF Tree
<1>4. \A j \in V : /\ j \in Inum /\ j \in Num /\ j >= 0
                   /\ f[j] \in Inum /\ f[j] \in Num /\ ~(f[j] < 0)
  <2>1. f \in [Inum -> Inum]
    BY DEF Copied
  <2>2. \A j \in V : j \in Inum /\ f[j] \in Inum
    BY <1>0, <2>1
  <2>3. \A j \in Inum : j \in Num /\ j >= 0 /\ ~(j < 0)
    BY <1>0 DEF Num
  <2> QED
    BY <2>2, <2>3
<1>5. \A u \in Seq(Name) : Lookup(d, u, r) >= 0 => Lookup(d, u, f[r]) = f[Lookup(d, u, r)]
  BY CopyLookup
<1>1. <<>> \in S
  <2>1. Lookup(d, <<>>, r) = r /\ Lookup(d, <<>>, f[r]) = f[r]
    BY LookupRoot DEF Lookup
  <2>2. f[r] \in Int
    BY <1>0 DEF Copied
  <2> QED
    BY <1>0, <2>1, <2>2
<1>2. ASSUME NEW q \in Seq(Name), q # <<>>, SubSeq(q, 1, Len(q) - 1) \in S
      PROVE  q \in S
  <2> DEFINE u == SubSeq(q, 1, Len(q) - 1)
             v == Lookup(d, u, f[r])
             a == q[Len(q)]
             y == Lookup(d, q, f[r])
             i == Lookup(d, u, r)
  <2>1. u \in Seq(Name) /\ q = Append(u, a) /\ v \in Int
    BY <1>2, ParentPath, LastOfPath
  <2>2. y = IF v < 0 THEN v ELSE directory_lookup(d.ino[v], a)
    BY <1>2, LookupStep DEF Lookup
  <2>3. i \in Int /\ (i < 0 \/ i \in V) /\ Lookup(d, q, r) \in Int
        /\ (Lookup(d, q, r) < 0 \/ Lookup(d, q, r) \in V)
    BY <1>2, <2>1, TreeLookup
  <2>6. Ok(u)
    BY <1>2
  <2>12. i >= 0 => v = f[i]
    BY <1>5, <2>1
  <2> HIDE DEF u, i
  <2>7. ASSUME ~(v < 0) PROVE i \in V \/ New(u)
    BY <2>1, <2>6, <2>7 DEF i
  <2>8. i \in V => /\ i \in Inum /\ i \in Num /\ v = f[i]
                  /\ f[i] \in Inum /\ f[i] \in Num /\ ~(f[i] < 0)
    BY <1>4, <2>12
  <2>4. ASSUME i \in V, y >= 0 PROVE Lookup(d, q, r) \in V \/ New(q)
    <3>3. y = directory_lookup(d.ino[f[i]], a)
      BY <2>2, <2>4, <2>8
    <3>4. Lookup(d, q, r) = directory_lookup(d.ino[i], a)
      BY <1>2, <2>4, <2>8, LastName DEF i, u
    <3>5. CASE i \in C
      <4> DEFINE n == d.ino[i]
                 c == d.ino[f[i]]
                 xi == IF i = Lookup(d, t, r) THEN x ELSE <<>>
      <4>1. Renumbered(f, n.ent, c.ent, xi)
        BY <3>5 DEF Copied
      <4>2. xi \in Seq(ddirent) /\ n \in inode /\ c \in inode
        BY <2>4, <2>8, InodeParts
      <4>3. y = directory_lookup(c, a) /\ Lookup(d, q, r) = directory_lookup(n, a)
        BY <3>3, <3>4
      <4>4. \A k \in DOMAIN n.ent : n.ent[k].inum >= 0
        BY <2>4 DEF Ents
      <4> HIDE DEF n, c, xi, y, a
      <4>5. \/ \E k \in DOMAIN n.ent : directory_lookup(n, a) = n.ent[k].inum
            \/ directory_lookup(c, a) = ENOENT
            \/ \E k \in 1 .. Len(xi) : xi[k].name = a /\ directory_lookup(c, a) = xi[k].inum
        <5>1. xi \in Seq(ddirent)
          BY <4>2
        <5>2. n \in inode
          BY <4>2
        <5>3. c \in inode
          BY <4>2
        <5>4. Traced(f, n, c, xi, a)
          BY <4>1, <5>1, <5>2, <5>3, RenumberedLookup
        <5> QED
          BY <5>4 DEF Traced
      <4>6. CASE \E k \in DOMAIN n.ent : directory_lookup(n, a) = n.ent[k].inum
        <5>1. Lookup(d, q, r) >= 0
          BY <4>3, <4>4, <4>6
        <5> QED
          BY <2>3, <5>1
      <4>7. CASE directory_lookup(c, a) = ENOENT
        BY <2>4, <4>3, <4>7 DEF ENOENT
      <4>8. CASE \E k \in 1 .. Len(xi) : xi[k].name = a /\ directory_lookup(c, a) = xi[k].inum
        <5>1. i = Lookup(d, t, r) /\ xi = x /\ x # <<>>
          BY <4>8 DEF xi
        <5>2. u = t
          BY <2>1, <2>4, <2>8, <5>1 DEF OneName, i
        <5> QED
          BY <2>1, <4>3, <4>8, <5>1, <5>2 DEF y, a
      <4> QED
        BY <4>5, <4>6, <4>7, <4>8
    <3>6. CASE i \notin C
      <4>1. f[i] = i
        BY <2>4, <2>8, <3>6 DEF Copied
      <4>2. Lookup(d, q, r) = y
        BY <3>3, <3>4, <4>1
      <4> QED
        BY <2>3, <2>4, <4>2
    <3> QED
      BY <3>5, <3>6
  <2>5. ASSUME New(u), ~(v < 0) PROVE y = ENOENT
    <3>3. v \in Inum /\ Ents(d, v) = {}
      BY <2>5
    <3>4. v \in Num
      BY <3>3 DEF Num
    <3>5. directory_lookup(d.ino[v], a) \in Ents(d, v) \cup {ENOENT}
      BY <3>4, LookupEntry
    <3> QED
      BY <2>2, <2>5, <3>3, <3>5
  <2>9. y \in Int
    <3>1. CASE i \in V /\ ~(v < 0)
      BY <2>2, <2>8, <3>1, DirectoryLookupType
    <3> QED
      BY <2>1, <2>2, <2>5, <2>7, <3>1 DEF ENOENT
  <2> HIDE DEF i, v, New, y
  <2>10. y >= 0 => i \in V \/ (New(u) /\ ~(v < 0))
    BY <2>1, <2>2, <2>7
  <2>11. y >= 0 => Lookup(d, q, r) \in V \/ New(q)
    BY <2>4, <2>5, <2>10 DEF ENOENT
  <2> QED
    BY <2>9, <2>11 DEF y
<1>3. S = Seq(Name)
  <2>1. S \in SUBSET Seq(Name)
    OBVIOUS
  <2> HIDE DEF S
  <2> QED
    BY <1>1, <1>2, <2>1, PathInduction
<1> QED
  BY <1>3

(* The new name leads to the new entry.                                    *)
LEMMA CopyNew ==
  ASSUME NEW d \in Table, NEW r, NEW V, NEW D \in Depth, Tree(d, r, V, D),
         \A i \in V : \A y \in Ents(d, i) : y >= 0,
         NEW t \in Seq(Name), NEW f, NEW e \in ddirent, Copied(d, r, t, 0, f, <<e>>),
         Lookup(d, t, r) \in V, Lookup(d, Append(t, e.name), r) \notin V
  PROVE  Lookup(d, Append(t, e.name), f[r]) = e.inum
<1> DEFINE p == Append(t, e.name)
           z == Lookup(d, t, r)
           n == d.ino[z]
           c == d.ino[f[z]]
           a == e.name
           x == <<e>>
<1>0. V \subseteq Inum /\ Inum \subseteq Nat
  BY NumFacts, TableParts DEF Tree
<1>1. a \in Name
  BY DEF ddirent
<1>2. /\ p \in Seq(Name) /\ p # <<>> /\ SubSeq(p, 1, Len(p) - 1) = t /\ p[Len(p)] = a
  BY <1>1, LongerPath
<1>3. \A j \in V : j \in Inum /\ j \in Num /\ j >= 0 /\ f[j] \in Inum /\ f[j] \in Num
  BY <1>0 DEF Copied, Num
<1>4. x \in Seq(ddirent) /\ Len(x) = 1 /\ x[1] = e /\ Copied(d, r, t, 0, f, x)
  OBVIOUS
<1>5. z \in V /\ z = Lookup(d, t, r)
  OBVIOUS
<1>6. IsPrefixOf(t, t) /\ Len(t) >= 0
  BY PrefixFacts
<1> HIDE DEF x, p, a
<1>7. Lookup(d, t, f[r]) = f[z]
  BY <1>3, <1>4, CopyLookup
<1> HIDE DEF z
<1>8. Lookup(d, p, r) = directory_lookup(n, a)
  <2>1. z \in Inum /\ z = Lookup(d, SubSeq(p, 1, Len(p) - 1), r)
    BY <1>2, <1>3, <1>5
  <2> QED
    BY <1>2, <2>1, LastName
<1>9. Lookup(d, p, f[r]) = directory_lookup(c, a)
  <2>1. f[z] \in Inum /\ f[z] = Lookup(d, SubSeq(p, 1, Len(p) - 1), f[r])
    BY <1>2, <1>3, <1>5, <1>7
  <2> QED
    BY <1>2, <2>1, LastName
<1>10. z \in Way(d, r, t, 0)
  BY <1>5, <1>6 DEF Way
<1>11. Renumbered(f, n.ent, c.ent, x)
  BY <1>4, <1>5, <1>10 DEF Copied
<1>12. n \in inode /\ c \in inode
  BY <1>3, <1>5, InodeParts
<1>13. \A k \in DOMAIN n.ent : n.ent[k].inum >= 0
  BY <1>5 DEF Ents
<1>14. Lookup(d, p, r) \in Int /\ (Lookup(d, p, r) < 0 \/ Lookup(d, p, r) \in V)
  BY <1>2, TreeLookup
<1>15. Lookup(d, p, r) \notin V
  BY DEF p
<1> HIDE DEF n, c
<1>16. \/ \E k \in DOMAIN n.ent : directory_lookup(n, a) = n.ent[k].inum
       \/ \A k \in 1 .. Len(x) : x[k].name # a
       \/ \E k \in 1 .. Len(x) : x[k].name = a /\ directory_lookup(c, a) = x[k].inum
  <2>1. Traced(f, n, c, x, a)
    BY <1>4, <1>11, <1>12, RenumberedLookup
  <2> QED
    BY <2>1 DEF Traced
<1>17. ~\E k \in DOMAIN n.ent : directory_lookup(n, a) = n.ent[k].inum
  BY <1>8, <1>13, <1>14, <1>15
<1>18. x[1].name = a /\ 1 \in 1 .. Len(x)
  BY <1>4 DEF a
<1>19. \E k \in 1 .. Len(x) : directory_lookup(c, a) = x[k].inum
  BY <1>16, <1>17, <1>18
<1> QED
  BY <1>4, <1>9, <1>19 DEF p

(* No two inodes have the same copy.                                       *)
LEMMA CopyApart ==
  ASSUME NEW d \in Table, NEW r, NEW V, NEW D \in Depth, Tree(d, r, V, D),
         NEW t \in Seq(Name), NEW m \in Nat, NEW f, NEW x, Copied(d, r, t, m, f, x),
         NEW p \in Seq(Name), NEW q \in Seq(Name),
         NEW i \in V, i = Lookup(d, p, r), NEW j \in V, j = Lookup(d, q, r), f[i] = f[j]
  PROVE  i = j
<1> DEFINE C == Way(d, r, t, m)
<1>0. V \subseteq Inum
  BY TableParts DEF Tree
<1>1. CASE i \in C /\ j \in C
  BY <1>1 DEF Copied
<1>2. CASE i \in C /\ j \notin C
  BY <1>0, <1>2 DEF Copied, Apart
<1>3. CASE i \notin C /\ j \in C
  BY <1>0, <1>3 DEF Copied, Apart
<1>4. CASE i \notin C /\ j \notin C
  BY <1>0, <1>4 DEF Copied
<1> QED
  BY <1>1, <1>2, <1>3, <1>4

(* The way from the m-th name on is what it was from the next name on, and *)
(* one more inode.                                                         *)
LEMMA WayLonger ==
  ASSUME NEW d, NEW r, NEW t \in Seq(Name), NEW p \in Seq(Name), p # <<>>, IsPrefixOf(p, t)
  PROVE  Way(d, r, t, Len(p) - 1)
           = Way(d, r, t, Len(p)) \cup {Lookup(d, SubSeq(p, 1, Len(p) - 1), r)}
<1> DEFINE u == SubSeq(p, 1, Len(p) - 1)
<1>1. /\ u \in Seq(Name) /\ Len(u) = Len(p) - 1 /\ Len(p) \in Nat \ {0} /\ IsPrefixOf(u, t)
  BY ParentPath, PrefixFacts
<1> HIDE DEF u
<1>2. ASSUME NEW q \in Seq(Name), IsPrefixOf(q, t), Len(q) >= Len(p) - 1
      PROVE  q = u \/ Len(q) >= Len(p)
  <2>1. Len(q) \in Nat
    BY <1>2
  <2>2. CASE Len(q) = Len(u)
    BY <1>1, <1>2, <2>2, SamePrefix
  <2>3. CASE Len(q) # Len(u)
    BY <1>1, <1>2, <2>1, <2>3
  <2> QED
    BY <2>2, <2>3
<1>3. \A q \in Seq(Name) : Len(q) >= Len(p) => Len(q) >= Len(p) - 1
  <2> TAKE q \in Seq(Name)
  <2>1. Len(q) \in Nat
    OBVIOUS
  <2> QED
    BY <1>1, <2>1
<1>4. Len(u) >= Len(p) - 1
  BY <1>1
<1>5. \A y \in Way(d, r, t, Len(p) - 1) : y \in Way(d, r, t, Len(p)) \/ y = Lookup(d, u, r)
  BY <1>2 DEF Way
<1>6. \A y \in Way(d, r, t, Len(p)) : y \in Way(d, r, t, Len(p) - 1)
  BY <1>3 DEF Way
<1>7. Lookup(d, u, r) \in Way(d, r, t, Len(p) - 1)
  BY <1>1, <1>4 DEF Way
<1> QED
  BY <1>5, <1>6, <1>7 DEF u

-----------------------------------------------------------------------------
(* What a climb that has come to the root has made.                        *)

\* n shows under each path what f makes of what r shows there, and under
\* one path more the entry x, if there is one.
Renewed(d, r, n, f, t, x) ==
    /\ \A p \in Seq(Name) :
          LET i == Lookup(d, p, r)
              j == Lookup(d, p, n)
          IN  /\ i \in Int /\ j \in Int
              /\ i >= 0 => i \in Inum /\ j \in Inum /\ j = f[i]
              /\ i < 0 /\ j >= 0 => x # <<>> /\ p = Append(t, x[1].name)
    /\ x # <<>> => LET p == Append(t, x[1].name)
                   IN  Lookup(d, p, r) < 0 /\ Lookup(d, p, n) = x[1].inum
    /\ \A p, q \in Seq(Name) :
          LET i == Lookup(d, p, r)
              j == Lookup(d, q, r)
          IN  i >= 0 /\ j >= 0 /\ f[i] = f[j] => i = j

(* The copies of a whole way make a version, which shows what the old one  *)
(* does and one name more.                                                 *)
LEMMA CopyRenews ==
  ASSUME NEW d \in Table, NEW r, NEW V, NEW D \in Depth, Tree(d, r, V, D),
         \A i \in V : \A y \in Ents(d, i) : y >= 0,
         NEW t \in Seq(Name), NEW f, NEW x \in Seq(ddirent), Copied(d, r, t, 0, f, x),
         x = <<>> \/ \E e \in ddirent : x = <<e>>,
         x # <<>> => /\ OneName(d, r) /\ d.ino[Lookup(d, t, r)].mode # "file"
                     /\ Lookup(d, t, r) \in V
                     /\ Lookup(d, Append(t, x[1].name), r) < 0
                     /\ x[1].inum \in Inum /\ Ents(d, x[1].inum) = {}
  PROVE  Renewed(d, r, f[r], f, t, x)
<1> DEFINE n == f[r]
<1>0. V \subseteq Inum /\ Inum \subseteq Nat /\ r \in V
  BY NumFacts, TableParts DEF Tree
<1>1. \A p \in Seq(Name) : Lookup(d, p, r) \in Int /\ (Lookup(d, p, r) < 0 \/ Lookup(d, p, r) \in V)
  BY TreeLookup
<1>2. \A i \in V : i \in Inum /\ i >= 0 /\ i \in Num /\ f[i] \in Inum
  BY <1>0 DEF Copied, Num
<1>3. \A p \in Seq(Name) : Lookup(d, p, r) >= 0 => Lookup(d, p, n) = f[Lookup(d, p, r)]
  BY CopyLookup
<1>4. \A k \in 1 .. Len(x) : k = 1 /\ x # <<>>
  <2>1. CASE x = <<>>
    BY <2>1
  <2>2. CASE x # <<>>
    <3>1. PICK e \in ddirent : x = <<e>>
      BY <2>2
    <3>2. Len(x) = 1
      BY <3>1
    <3> QED
      BY <2>2, <3>2
  <2> QED
    BY <2>1, <2>2
<1>5. \A k \in 1 .. Len(x) : x[k].inum \in Inum /\ Ents(d, x[k].inum) = {}
  BY <1>4
<1>6. ASSUME NEW p \in Seq(Name), Lookup(d, p, r) < 0, Lookup(d, p, n) >= 0
      PROVE  x # <<>> /\ p = Append(t, x[1].name)
  <2>1. Lookup(d, p, r) \notin V
    BY <1>1, <1>2, <1>6
  <2>2. \/ Lookup(d, p, r) \in V
        \/ \E k \in 1 .. Len(x) : /\ p = Append(t, x[k].name)
                                 /\ Lookup(d, p, f[r]) = x[k].inum
    <3>1. x # <<>> => OneName(d, r) /\ d.ino[Lookup(d, t, r)].mode # "file"
      OBVIOUS
    <3> QED
      BY SMTT(30), <1>5, <1>6, <3>1, CopyBack
  <2>3. \E k \in 1 .. Len(x) : p = Append(t, x[k].name)
    BY <2>1, <2>2
  <2> QED
    BY <1>4, <2>3
<1>7. ASSUME x # <<>>
      PROVE  Lookup(d, Append(t, x[1].name), n) = x[1].inum
  <2>1. PICK e \in ddirent : x = <<e>>
    BY <1>7
  <2>2. x[1] = e
    BY <2>1
  <2>3. Lookup(d, Append(t, e.name), r) \notin V
    <3>1. Lookup(d, Append(t, e.name), r) < 0
      BY <1>7, <2>2
    <3> DEFINE y == Lookup(d, Append(t, e.name), r)
    <3>2. y < 0
      BY <3>1
    <3> HIDE DEF y
    <3>3. y \notin V
      <4>1. y \in V => y \in Nat
        BY <1>0
      <4> QED
        BY <3>2, <4>1
    <3> QED
      BY <3>3 DEF y
  <2>4. Lookup(d, t, r) \in V /\ Copied(d, r, t, 0, f, <<e>>)
    BY <1>7, <2>1
  <2>5. Lookup(d, Append(t, e.name), f[r]) = e.inum
    BY <2>3, <2>4, CopyNew
  <2> QED
    BY <2>2, <2>5
<1>8. \A p \in Seq(Name) : Lookup(d, p, n) \in Int
  BY <1>5, CopyBack
<1>9. ASSUME NEW p \in Seq(Name), NEW q \in Seq(Name), Lookup(d, p, r) >= 0, Lookup(d, q, r) >= 0,
             f[Lookup(d, p, r)] = f[Lookup(d, q, r)]
      PROVE  Lookup(d, p, r) = Lookup(d, q, r)
  <2>1. Lookup(d, p, r) \in V /\ Lookup(d, q, r) \in V
    BY <1>1, <1>9
  <2>2. 0 \in Nat
    OBVIOUS
  <2> QED
    BY <1>9, <2>1, <2>2, CopyApart
<1> HIDE DEF n
<1>10. \A p \in Seq(Name) :
          LET i == Lookup(d, p, r)
              j == Lookup(d, p, n)
          IN  /\ i \in Int /\ j \in Int
              /\ i >= 0 => i \in Inum /\ j \in Inum /\ j = f[i]
              /\ i < 0 /\ j >= 0 => x # <<>> /\ p = Append(t, x[1].name)
  BY <1>1, <1>2, <1>3, <1>6, <1>8
<1>11. Renewed(d, r, n, f, t, x)
  BY <1>7, <1>9, <1>10 DEF Renewed
<1> QED
  BY <1>11 DEF n

-----------------------------------------------------------------------------
(* What a request has done when its climb is over.                         *)

\* The copy of the inode that the request changes, and the entry it adds.
Effect(d, r, f, x, q) ==
    LET z == Lookup(d, Named(q), r)
        g == Lookup(d, q.path, r)
        o == d.ino[z]
        n == d.ino[f[z]]
    IN  /\ z \in Inum
        /\ \/ /\ q.call = "write" /\ x = <<>> /\ n.mode = o.mode
              /\ n.data = Written(o.data, q.off, q.bytes)
           \/ /\ q.call = "truncate" /\ x = <<>> /\ n.mode = o.mode
              /\ n.data = [k \in 1 .. q.size |-> IF k <= Len(o.data) THEN o.data[k] ELSE 0]
           \/ /\ q.call = "chmod" /\ x = <<>> /\ n.data = o.data
              /\ n.mode = q.mode /\ (q.mode = "file" <=> o.mode = "file")
           \/ /\ q.call = "mknod" /\ Shown(n) = Shown(o) /\ o.mode = "dir" /\ g < 0
              /\ \E c \in d.ibm :
                    /\ x = <<[name |-> basename(q.path), inum |-> c]>>
                    /\ Ents(d, c) = {} /\ d.ino[c].mode = q.mode /\ d.ino[c].data = <<>>
                    /\ Apart(d, r, c) /\ \A i \in Inum \ {c} : f[i] # c
           \/ /\ q.call = "link" /\ Shown(n) = Shown(o) /\ o.mode # "file"
              /\ Lookup(d, q.to, r) < 0
              /\ g \in Inum /\ d.ino[g].mode = "file" /\ Ents(d, g) = {}
              /\ x = <<[name |-> basename(q.to), inum |-> g]>>

\* Request q has copied what lies on its way from the m-th name on.
Changed(d, r, f, x, q, m) ==
    /\ Copied(d, r, Named(q), m, f, x)
    /\ \A i \in Way(d, r, Named(q), m) \ {Lookup(d, Named(q), r)} :
          Shown(d.ino[f[i]]) = Shown(d.ino[i])
    /\ Effect(d, r, f, x, q)

(* The way of a plain request, and the path that mknod and link add.       *)
LEMMA RequestPath ==
  ASSUME PlainHistory, NEW q \in Calls
  PROVE  /\ Named(q) \in Path /\ Named(q) \in Seq(Name)
         /\ q.path \in Path /\ q.path \in Seq(Name) /\ q.call \in Copying
         /\ q.call \notin OnParent => Named(q) = q.path
         /\ q.call = "mknod" => /\ q.path # <<>> /\ Named(q) = dirname(q.path)
                                /\ basename(q.path) \in Name
                                /\ q.path = Append(Named(q), basename(q.path))
         /\ q.call = "link" => /\ q.to \in Path /\ q.to \in Seq(Name) /\ q.to # <<>>
                               /\ Named(q) = dirname(q.path) /\ Named(q) = dirname(q.to)
                               /\ basename(q.to) \in Name
                               /\ q.to = Append(Named(q), basename(q.to))
<1>1. /\ q.path \in Path /\ q.path \in Seq(Name) /\ dirname(q.path) \in Path
      /\ dirname(q.path) \in Seq(Name) /\ q.call \in Copying
  BY StorageAssumption, PathFacts DEF PlainHistory
<1>2. q.call \in OnParent \/ q.call \in OnPath
  BY <1>1 DEF Copying
<1>3. q.call \in OnParent => Named(q) = dirname(q.path)
  BY DEF Named, OnParent, OnPath
<1>4. q.call \notin OnParent => Named(q) = q.path
  BY <1>2 DEF Named
<1>5. Named(q) \in Path /\ Named(q) \in Seq(Name)
  BY <1>1, <1>3, <1>4
<1>6. ASSUME NEW p \in Seq(Name), p # <<>>
      PROVE  p = Append(dirname(p), basename(p)) /\ basename(p) \in Name
  <2>1. Len(p) \in 1 .. Len(p)
    BY <1>6
  <2>2. p[Len(p)] \in Name
    BY <2>1
  <2> QED
    BY <1>6, <2>2, LastOfPath DEF dirname, basename, Root
<1>7. q.call = "mknod" => q.path # <<>> /\ Named(q) = dirname(q.path)
  BY <1>3, StorageAssumption DEF OnParent, Root
<1>8. q.call = "link" =>
         /\ q.to \in Path /\ q.to \in Seq(Name) /\ q.to # <<>>
         /\ Named(q) = dirname(q.path) /\ Named(q) = dirname(q.to)
  BY <1>3, StorageAssumption, PathFacts DEF OnParent, Root, PlainHistory
<1> QED
  BY <1>1, <1>4, <1>5, <1>6, <1>7, <1>8

\* n is what request q makes of r: f takes what r reads to what n reads.
Made(d, r, n, f, x, q) ==
    /\ Renewed(d, r, n, f, Named(q), x)
    /\ \A p \in Seq(Name) :
          LET i == Lookup(d, p, r)
          IN  i >= 0 /\ i # Lookup(d, Named(q), r) => Shown(d.ino[f[i]]) = Shown(d.ino[i])
    /\ Effect(d, r, f, x, q)
    /\ q.call = "link" => f[Lookup(d, q.path, r)] = Lookup(d, q.path, r)

(* When the root has been copied the request has made a version.           *)
LEMMA ChangedMade ==
  ASSUME PlainHistory, NEW d \in Table, NEW r, NEW V, NEW D \in Depth, Tree(d, r, V, D),
         \A i \in V : \A y \in Ents(d, i) : y >= 0, OneName(d, r),
         NEW q \in Calls, NEW f, NEW x, Changed(d, r, f, x, q, 0)
  PROVE  Made(d, r, f[r], f, x, q)
<1> DEFINE t == Named(q)
           z == Lookup(d, t, r)
           g == Lookup(d, q.path, r)
<1>0. V \subseteq Inum /\ Inum \subseteq Nat /\ d.ibm \subseteq Inum
  BY NumFacts, TableParts DEF Tree
<1>1. t \in Seq(Name) /\ q.path \in Seq(Name)
  BY RequestPath
<1>2. /\ Copied(d, r, t, 0, f, x) /\ Effect(d, r, f, x, q)
      /\ \A i \in Way(d, r, t, 0) \ {z} : Shown(d.ino[f[i]]) = Shown(d.ino[i])
  BY DEF Changed
<1>3. z \in V
  <2>1. z \in Inum
    BY <1>2 DEF Effect
  <2>2. z \in Int /\ (z < 0 \/ z \in V)
    BY <1>1, TreeLookup
  <2> HIDE DEF z
  <2>3. z \in Nat
    BY <1>0, <2>1
  <2> QED
    BY <2>2, <2>3
<1>4. /\ x = <<>> \/ \E e \in ddirent : x = <<e>>
      /\ x # <<>> => /\ d.ino[z].mode # "file" /\ Lookup(d, Append(t, x[1].name), r) < 0
                     /\ x[1].inum \in Inum /\ Ents(d, x[1].inum) = {}
  <2>1. CASE x = <<>>
    BY <2>1
  <2>2. CASE q.call = "mknod"
    <3>1. d.ino[z].mode = "dir" /\ g < 0
      BY <1>2, <2>2 DEF Effect
    <3>2. PICK c \in d.ibm :
             x = <<[name |-> basename(q.path), inum |-> c]>> /\ Ents(d, c) = {}
      BY <1>2, <2>2 DEF Effect
    <3> DEFINE e == [name |-> basename(q.path), inum |-> c]
    <3>3. q.path # <<>> /\ q.path = Append(t, basename(q.path))
      BY <2>2, RequestPath
    <3>4. basename(q.path) \in Name /\ c \in Inum /\ c \in Int
      <4>1. c \in Inum
        BY <1>0
      <4>2. \A k \in Inum : k \in Int
        BY <1>0
      <4> QED
        BY <2>2, <4>1, <4>2, RequestPath
    <3>5. e \in ddirent /\ e.name = basename(q.path) /\ e.inum = c
      BY <3>4 DEF ddirent
    <3>6. x = <<e>>
      BY <3>2
    <3> HIDE DEF e
    <3>7. x[1] = e
      BY <3>6
    <3> QED
      BY <3>1, <3>2, <3>3, <3>4, <3>5, <3>6, <3>7
  <2>3. CASE q.call = "link"
    <3>1. /\ d.ino[z].mode # "file" /\ Lookup(d, q.to, r) < 0
          /\ g \in Inum /\ Ents(d, g) = {}
          /\ x = <<[name |-> basename(q.to), inum |-> g]>>
      BY <1>2, <2>3 DEF Effect
    <3> DEFINE e == [name |-> basename(q.to), inum |-> g]
    <3>3. q.to \in Seq(Name) /\ q.to # <<>> /\ q.to = Append(t, basename(q.to))
      BY <2>3, RequestPath
    <3>4. basename(q.to) \in Name /\ g \in Int
      <4>1. \A k \in Inum : k \in Int
        BY <1>0
      <4> HIDE DEF g
      <4> QED
        BY <2>3, <3>1, <4>1, RequestPath
    <3>5. e \in ddirent /\ e.name = basename(q.to) /\ e.inum = g
      BY <3>4 DEF ddirent
    <3>6. x = <<e>>
      BY <3>1
    <3> HIDE DEF e
    <3>7. x[1] = e
      BY <3>6
    <3> QED
      BY <3>1, <3>3, <3>4, <3>5, <3>6, <3>7
  <2> QED
    BY <1>2, <2>1, <2>2, <2>3 DEF Effect
<1>5. Renewed(d, r, f[r], f, t, x)
  <2>1. x \in Seq(ddirent)
    <3>1. \A e \in ddirent : <<e>> \in Seq(ddirent)
      OBVIOUS
    <3>2. <<>> \in Seq(ddirent)
      OBVIOUS
    <3>3. x = <<>> \/ \E e \in ddirent : x = <<e>>
      BY <1>4
    <3> QED
      BY <3>1, <3>2, <3>3
  <2> HIDE DEF t
  <2> QED
    BY <1>1, <1>2, <1>3, <1>4, <2>1, CopyRenews
<1>6. ASSUME NEW p \in Seq(Name), Lookup(d, p, r) >= 0, Lookup(d, p, r) # z
      PROVE  Shown(d.ino[f[Lookup(d, p, r)]]) = Shown(d.ino[Lookup(d, p, r)])
  <2> DEFINE i == Lookup(d, p, r)
  <2>1. i \in Int /\ (i < 0 \/ i \in V)
    BY TreeLookup
  <2>2. i >= 0 /\ i # z
    BY <1>6
  <2> HIDE DEF i, z
  <2>3. i \in Inum
    BY <1>0, <2>1, <2>2
  <2>4. i \notin Way(d, r, t, 0) => f[i] = i
    BY <1>2, <2>3 DEF Copied
  <2> QED
    BY <1>2, <2>2, <2>4 DEF i
<1>7. ASSUME q.call = "link" PROVE f[g] = g
  <2>1. g \in Inum
    BY <1>2, <1>7 DEF Effect
  <2>2. g \notin Way(d, r, t, 0)
    <3> SUFFICES ASSUME g \in Way(d, r, t, 0) PROVE FALSE
      OBVIOUS
    <3>1. PICK u \in Seq(Name) : IsPrefixOf(u, t) /\ g = Lookup(d, u, r)
      BY DEF Way
    <3>2. Len(u) <= Len(t) /\ Len(u) \in Nat /\ Len(t) \in Nat
      BY <1>1, <3>1 DEF IsPrefixOf
    <3>3. Len(q.path) = Len(t) + 1
      <4>1. t = dirname(q.path) /\ dirname(q.to) = t
        BY <1>7, RequestPath
      <4>2. q.path # <<>>
        <5> SUFFICES ASSUME q.path = <<>> PROVE FALSE
          OBVIOUS
        <5>1. t = <<>>
          BY <4>1 DEF dirname, Root
        <5>2. z = r /\ g = r
          BY <5>1, LookupRoot DEF Lookup
        <5>3. d.ino[z].mode # "file" /\ d.ino[g].mode = "file"
          BY <1>2, <1>7 DEF Effect
        <5> QED
          BY <5>2, <5>3
      <4> QED
        BY <1>1, <4>1, <4>2, ParentPath DEF dirname, Root
    <3>4. D[g] = Len(u)
      BY <1>0, <2>1, <3>1, TreeLookup
    <3>5. D[g] = Len(q.path)
      BY <1>0, <1>1, <2>1, TreeLookup
    <3> QED
      BY <3>2, <3>3, <3>4, <3>5
  <2> QED
    BY <1>2, <2>1, <2>2 DEF Copied
<1> QED
  BY <1>2, <1>5, <1>6, <1>7 DEF Made

(* A version with one name for every directory is followed by one.         *)
LEMMA MadeOneName ==
  ASSUME PlainHistory, NEW d \in Table, NEW r, NEW n, NEW f, NEW x, NEW q \in Calls,
         Made(d, r, n, f, x, q), OneName(d, r)
  PROVE  OneName(d, n)
<1> DEFINE L(p) == Lookup(d, p, r)
           M(p) == Lookup(d, p, n)
           t == Named(q)
           z == L(t)
<1> SUFFICES ASSUME NEW p \in Seq(Name), NEW u \in Seq(Name), M(p) = M(u), M(p) \in Inum,
                    d.ino[M(p)].mode # "file"
             PROVE  p = u
  BY DEF OneName
<1>0. Inum \subseteq Nat
  BY NumFacts
<1>1. \A v \in Seq(Name) :
         /\ L(v) \in Int /\ M(v) \in Int
         /\ L(v) >= 0 => L(v) \in Inum /\ M(v) \in Inum /\ M(v) = f[L(v)]
         /\ L(v) < 0 /\ M(v) >= 0 => x # <<>> /\ v = Append(t, x[1].name)
  BY DEF Made, Renewed
<1>2. x # <<>> => M(Append(t, x[1].name)) = x[1].inum
  BY DEF Made, Renewed
<1>3. L(p) >= 0 /\ L(u) >= 0 /\ f[L(p)] = f[L(u)] => L(p) = L(u)
  BY DEF Made, Renewed
<1>4. L(p) >= 0 /\ L(p) # z => d.ino[f[L(p)]].mode = d.ino[L(p)].mode
  BY DEF Made, Shown
<1>5. d.ino[f[z]].mode # "file" => d.ino[z].mode # "file"
  BY DEF Made, Effect, Shown
<1>6. M(p) >= 0 /\ M(u) >= 0
  <2>1. \A i \in Inum : i >= 0
    BY <1>0
  <2> HIDE DEF M
  <2> QED
    BY <2>1
<1>7. CASE L(p) >= 0 /\ L(u) >= 0
  <2>1. L(p) = L(u) /\ M(p) = f[L(p)] /\ L(p) \in Inum
    BY <1>1, <1>3, <1>7
  <2>2. d.ino[L(p)].mode # "file"
    BY <1>4, <1>5, <1>7, <2>1
  <2> QED
    BY <2>1, <2>2 DEF OneName
<1>8. ASSUME NEW v \in Seq(Name), NEW w \in Seq(Name), L(v) < 0, L(w) >= 0, M(v) = M(w),
             M(v) >= 0, d.ino[M(v)].mode # "file"
      PROVE  FALSE
  <2>1. M(v) = x[1].inum /\ x # <<>>
    BY <1>1, <1>2, <1>8
  <2>2. M(w) = f[L(w)] /\ L(w) \in Inum
    BY <1>1, <1>8
  <2>3. CASE q.call = "mknod"
    <3>1. PICK c \in d.ibm : /\ x = <<[name |-> basename(q.path), inum |-> c]>>
                             /\ Apart(d, r, c) /\ \A i \in Inum \ {c} : f[i] # c
      BY <2>3 DEF Made, Effect
    <3>2. x[1].inum = c
      BY <3>1
    <3>3. L(w) # c
      BY <3>1 DEF Apart
    <3> QED
      BY <1>8, <2>1, <2>2, <3>1, <3>2, <3>3
  <2>4. CASE q.call = "link"
    <3>1. /\ x = <<[name |-> basename(q.to), inum |-> L(q.path)]>>
          /\ d.ino[L(q.path)].mode = "file"
      BY <2>4 DEF Made, Effect
    <3>2. x[1].inum = L(q.path)
      BY <3>1
    <3> QED
      BY <1>8, <2>1, <3>1, <3>2
  <2> QED
    BY <2>1, <2>3, <2>4 DEF Made, Effect
<1>9. CASE L(p) < 0 /\ L(u) < 0
  BY <1>1, <1>6, <1>9
<1> HIDE DEF L, M
<1>10. (L(p) >= 0 \/ L(p) < 0) /\ (L(u) >= 0 \/ L(u) < 0)
  BY <1>1
<1> QED
  BY <1>6, <1>7, <1>8, <1>9, <1>10

\* The new version n differs from r only in the path p, the other names of
\* the same file, and, for link, a name more of that file.
LocalTo(d, r, n, p, call) ==
    LET file == Lookup(d, p, r)
    IN  \A u \in Path \ {p} :
           LET was == Lookup(d, u, r)
               is  == Lookup(d, u, n)
           IN  \/ was < 0 /\ is < 0
               \/ was < 0 /\ call = "link" /\ is = file
               \/ was >= 0 /\ was = file
               \/ was >= 0 /\ is >= 0 /\ Stat(d, u, n) = Stat(d, u, r)

(* What a request makes is local to its path.                              *)
LEMMA MadeLocal ==
  ASSUME PlainHistory, NEW d \in Table, NEW r, NEW n, NEW f, NEW x, NEW q \in Calls,
         Made(d, r, n, f, x, q)
  PROVE  LocalTo(d, r, n, q.path, q.call)
<1> DEFINE t == Named(q)
           z == Lookup(d, t, r)
<1> SUFFICES ASSUME NEW u \in Path \ {q.path}
             PROVE  \/ Lookup(d, u, r) < 0 /\ Lookup(d, u, n) < 0
                    \/ /\ Lookup(d, u, r) < 0 /\ q.call = "link"
                       /\ Lookup(d, u, n) = Lookup(d, q.path, r)
                    \/ Lookup(d, u, r) >= 0 /\ Lookup(d, u, r) = Lookup(d, q.path, r)
                    \/ /\ Lookup(d, u, r) >= 0 /\ Lookup(d, u, n) >= 0
                       /\ Stat(d, u, n) = Stat(d, u, r)
  BY DEF LocalTo
<1> DEFINE i == Lookup(d, u, r)
           j == Lookup(d, u, n)
<1>0. Inum \subseteq Nat /\ u \in Seq(Name)
  BY NumFacts, PathFacts
<1>1. /\ i \in Int /\ j \in Int
      /\ i >= 0 => i \in Inum /\ j \in Inum /\ j = f[i]
      /\ i < 0 /\ j >= 0 => x # <<>> /\ u = Append(t, x[1].name)
  BY <1>0 DEF Made, Renewed
<1>2. CASE i < 0
  <2> SUFFICES ASSUME j >= 0 PROVE q.call = "link" /\ j = Lookup(d, q.path, r)
    BY <1>1, <1>2
  <2>1. x # <<>> /\ u = Append(t, x[1].name) /\ j = x[1].inum
    BY <1>1, <1>2 DEF Made, Renewed
  <2>2. CASE q.call = "link"
    BY <2>1, <2>2 DEF Made, Effect
  <2>3. CASE q.call = "mknod"
    <3>1. \E c \in d.ibm : x = <<[name |-> basename(q.path), inum |-> c]>>
      BY <2>3 DEF Made, Effect
    <3>2. x[1].name = basename(q.path)
      BY <3>1
    <3> QED
      BY <2>1, <2>3, <3>2, RequestPath
  <2> QED
    BY <2>1, <2>2, <2>3 DEF Made, Effect
<1>3. CASE i >= 0
  <2>1. i # z => Shown(d.ino[f[i]]) = Shown(d.ino[i])
    BY <1>0, <1>3 DEF Made
  <2>2. q.call \in OnParent => Shown(d.ino[f[z]]) = Shown(d.ino[z])
    BY DEF Made, Effect, OnParent
  <2>3. q.call \notin OnParent => t = q.path
    BY RequestPath
  <2> HIDE DEF i, j
  <2>4. j >= 0
    BY <1>0, <1>1, <1>3
  <2>5. CASE i = z /\ q.call \notin OnParent
    BY <1>3, <2>3, <2>5 DEF i
  <2>6. CASE i # z \/ q.call \in OnParent
    <3>1. Shown(d.ino[j]) = Shown(d.ino[i])
      BY <1>1, <1>3, <2>1, <2>2, <2>6
    <3>2. Stat(d, u, n) = Stat(d, u, r)
      BY <3>1 DEF Stat, Shown, i, j
    <3> QED
      BY <1>3, <2>4, <3>2 DEF i, j
  <2> QED
    BY <2>5, <2>6
<1> QED
  BY <1>1, <1>2, <1>3

-----------------------------------------------------------------------------
(* Trees of objects.                                                       *)

(* storage_write leaves the bytes that the abstract write does.            *)
LEMMA WrittenIs ==
  ASSUME NEW data \in Seq(Byte), NEW off \in Nat, NEW bytes \in Seq(Byte)
  PROVE  Written(data, off, bytes) = Snap!Overwritten(data, off, bytes)
<1> DEFINE l == IF off < Len(data) THEN off ELSE Len(data)
           kept == SubSeq(data, 1, l)
           gap == [k \in 1 .. off - Len(kept) |-> Stale]
           head == kept \o gap
           w == Written(data, off, bytes)
<1>1. /\ l \in 0 .. Len(data) /\ l \in Nat /\ l <= off /\ Len(data) \in Nat /\ Len(bytes) \in Nat
      /\ l = off \/ l = Len(data)
  OBVIOUS
<1>2. kept \in Seq(Byte) /\ Len(kept) = l /\ \A k \in 1 .. l : kept[k] = data[k]
  <2> HIDE DEF l
  <2> QED
    BY <1>1
<1> HIDE DEF l, kept
<1>3. gap \in Seq(Byte) /\ Len(gap) = off - l /\ \A k \in 1 .. off - l : gap[k] = Stale
  <2>1. off - l \in Nat /\ Len(kept) = l
    BY <1>1, <1>2
  <2>2. Stale \in Byte
    BY InodeTableAssumption
  <2>3. gap = [k \in 1 .. off - l |-> Stale]
    BY <2>1
  <2> HIDE DEF gap
  <2> QED
    BY <2>1, <2>2, <2>3
<1> HIDE DEF gap
<1>4. /\ head \in Seq(Byte) /\ Len(head) = off
      /\ \A k \in 1 .. off : head[k] = IF k <= l THEN data[k] ELSE Stale
  <2>1. /\ head \in Seq(Byte) /\ Len(head) = Len(kept) + Len(gap)
        /\ \A k \in 1 .. Len(kept) + Len(gap) :
              head[k] = IF k <= Len(kept) THEN kept[k] ELSE gap[k - Len(kept)]
    BY <1>2, <1>3, ConcatProperties
  <2> HIDE DEF head
  <2>2. Len(kept) + Len(gap) = off /\ Len(head) = off
    BY <1>1, <1>2, <1>3, <2>1
  <2>3. ASSUME NEW k \in 1 .. off
        PROVE  head[k] = IF k <= l THEN data[k] ELSE Stale
    <3>1. CASE k <= l
      BY <1>1, <1>2, <2>1, <2>2, <3>1
    <3>2. CASE ~(k <= l)
      <4>1. head[k] = gap[k - l] /\ k - l \in 1 .. off - l
        BY <1>1, <1>2, <2>1, <2>2, <3>2
      <4> QED
        BY <1>3, <3>2, <4>1
    <3> QED
      BY <3>1, <3>2
  <2> QED
    BY <2>1, <2>2, <2>3
<1> HIDE DEF head
<1> DEFINE s == head \o bytes
<1>10. /\ s \in Seq(Byte) /\ Len(s) = Len(head) + Len(bytes)
       /\ \A k \in 1 .. Len(head) + Len(bytes) :
             s[k] = IF k <= Len(head) THEN head[k] ELSE bytes[k - Len(head)]
  BY <1>4, ConcatProperties
<1>5. s \in Seq(Byte) /\ Len(s) = off + Len(bytes)
  BY <1>4, <1>10
<1>6. \A k \in 1 .. off + Len(bytes) : s[k] = IF k <= off THEN head[k] ELSE bytes[k - off]
  BY <1>4, <1>10
<1>7. w \in Seq(Byte) /\ Len(w) = off + Len(bytes)
  <2>1. w \in Seq(Byte)
    BY WrittenType
  <2>2. DOMAIN w = 1 .. off + Len(bytes)
    BY DEF Written
  <2> HIDE DEF w
  <2> QED
    BY <1>1, <2>1, <2>2
<1>8. ASSUME NEW k \in 1 .. off + Len(bytes)
      PROVE  w[k] = s[k]
  <2>1. w[k] = CASE k > off                    -> bytes[k - off]
                 [] k <= off /\ k <= Len(data) -> data[k]
                 [] k <= off /\ k > Len(data)  -> Stale
    BY DEF Written
  <2> HIDE DEF w, s
  <2>2. CASE k > off
    BY <1>1, <1>6, <2>1, <2>2
  <2>3. CASE k <= off /\ k <= Len(data)
    <3>1. w[k] = data[k] /\ k <= l /\ k \in 1 .. off
      BY <1>1, <2>1, <2>3
    <3> QED
      BY <1>4, <1>6, <2>3, <3>1
  <2>4. CASE k <= off /\ k > Len(data)
    <3>1. w[k] = Stale /\ ~(k <= l) /\ k \in 1 .. off
      BY <1>1, <2>1, <2>4
    <3> QED
      BY <1>4, <1>6, <2>4, <3>1
  <2>5. k \in Int /\ off \in Int /\ Len(data) \in Int
    BY <1>1
  <2> QED
    BY <2>2, <2>3, <2>4, <2>5
<1> HIDE DEF w, s
<1>9. w = s
  BY <1>5, <1>7, <1>8, SeqEqual
<1>11. Snap!Overwritten(data, off, bytes) = s
  BY DEF Snap!Overwritten, s, head, gap, kept, l
<1> QED
  BY <1>9, <1>11 DEF w

(* storage_truncate leaves the bytes that the abstract one does.           *)
LEMMA ResizedIs ==
  ASSUME NEW data \in Seq(Byte), NEW size \in Nat
  PROVE  [k \in 1 .. size |-> IF k <= Len(data) THEN data[k] ELSE 0] = Snap!Resized(data, size)
<1> DEFINE w == [k \in 1 .. size |-> IF k <= Len(data) THEN data[k] ELSE 0]
           pad == [k \in 1 .. size |-> 0]
           long == data \o pad
           s == SubSeq(long, 1, size)
<1>1. pad \in Seq(Byte) /\ Len(pad) = size /\ \A k \in 1 .. size : pad[k] = 0
  BY InodeTableAssumption
<1> HIDE DEF pad
<1>2. /\ long \in Seq(Byte) /\ Len(long) = Len(data) + size /\ Len(data) \in Nat
      /\ \A k \in 1 .. size : long[k] = IF k <= Len(data) THEN data[k] ELSE 0
  BY <1>1
<1> HIDE DEF long
<1>3. s \in Seq(Byte) /\ Len(s) = size /\ \A k \in 1 .. size : s[k] = long[k]
  BY <1>2
<1>4. w \in Seq(Byte)
  BY ResizedType
<1>5. Len(w) = size
  BY <1>4
<1>6. \A k \in 1 .. size : w[k] = s[k]
  <2> HIDE DEF s
  <2> QED
    BY <1>2, <1>3
<1> HIDE DEF w, s
<1>7. w = s
  BY <1>3, <1>4, <1>5, <1>6, SeqEqual
<1> QED
  BY <1>7 DEF w, s, long, pad, Snap!Resized

\* The names of inode i in version r, and the object it is there.
Names(r, i) == {p \in Path : Lookup(fs, p, r) = i}
Seen(r, i) == [names |-> Names(r, i), mode |-> fs.ino[i].mode, data |-> fs.ino[i].data]

(* A version is the tree of what is seen in it, each inode an object of    *)
(* its own.                                                                *)
LEMMA SeenTree ==
  ASSUME NEW r
  PROVE  /\ TreeOf(r) = {Seen(r, i) : i \in Reach(fs, r)}
         /\ \A i \in Reach(fs, r) : \A p \in Names(r, i) : Lookup(fs, p, r) = i /\ p \in Path
         /\ \A i, j \in Reach(fs, r) : Seen(r, i) = Seen(r, j) => i = j
         /\ \A p \in Path :
               /\ Lookup(fs, p, r) >= 0 => /\ Lookup(fs, p, r) \in Reach(fs, r)
                                           /\ Seen(r, Lookup(fs, p, r)) \in Snap!Named(TreeOf(r), p)
               /\ ~(Lookup(fs, p, r) >= 0) => Snap!Absent(TreeOf(r), p)
<1>1. TreeOf(r) = {Seen(r, i) : i \in Reach(fs, r)}
  BY DEF TreeOf, Seen, Names
<1>2. \A i \in Reach(fs, r) : \E p \in Path : Lookup(fs, p, r) = i /\ i >= 0
  BY DEF Reach, Present
<1>3. \A p \in Path : Lookup(fs, p, r) >= 0 => Lookup(fs, p, r) \in Reach(fs, r)
  BY DEF Reach, Present
<1>4. \A i, j \in Reach(fs, r) : Seen(r, i) = Seen(r, j) => i = j
  <2> SUFFICES ASSUME NEW i \in Reach(fs, r), NEW j \in Reach(fs, r), Seen(r, i) = Seen(r, j)
               PROVE  i = j
    OBVIOUS
  <2>1. Names(r, i) = Names(r, j)
    BY DEF Seen
  <2>2. PICK p \in Path : Lookup(fs, p, r) = i
    BY <1>2
  <2>3. p \in Names(r, j)
    BY <2>1, <2>2 DEF Names
  <2> QED
    BY <2>2, <2>3 DEF Names
<1>5. \A p \in Path : Lookup(fs, p, r) >= 0 =>
         Seen(r, Lookup(fs, p, r)) \in Snap!Named(TreeOf(r), p)
  <2> TAKE p \in Path
  <2> HAVE Lookup(fs, p, r) >= 0
  <2>1. p \in Seen(r, Lookup(fs, p, r)).names
    BY DEF Seen, Names
  <2> QED
    BY <1>1, <1>3, <2>1 DEF Snap!Named
<1>6. \A p \in Path : ~(Lookup(fs, p, r) >= 0) => Snap!Absent(TreeOf(r), p)
  <2> SUFFICES ASSUME NEW p \in Path, NEW o \in Snap!Named(TreeOf(r), p)
               PROVE  Lookup(fs, p, r) >= 0
    BY DEF Snap!Absent
  <2>1. PICK i \in Reach(fs, r) : o = Seen(r, i) /\ p \in o.names
    BY <1>1 DEF Snap!Named
  <2>2. Lookup(fs, p, r) = i
    BY <2>1 DEF Seen, Names
  <2> QED
    BY <1>2, <2>2
<1> QED
  BY <1>1, <1>3, <1>4, <1>5, <1>6 DEF Names

\* The inodes of n are the images under f of those of r, with the same
\* names, and the one that the new name p0 leads to; but for z they show the
\* same.
Kin(r, n, f, x, p0, z) ==
    /\ \A i \in Reach(fs, r) : f[i] \in Reach(fs, n)
    /\ \A i \in Reach(fs, r) : \A p \in Path :
          Lookup(fs, p, n) = f[i] <=>
             Lookup(fs, p, r) = i \/ (x # <<>> /\ p = p0 /\ x[1].inum = f[i])
    /\ \A j \in Reach(fs, n) :
          \/ \E i \in Reach(fs, r) : j = f[i]
          \/ x # <<>> /\ j = x[1].inum /\ Names(n, j) = {p0}
    /\ \A i \in Reach(fs, r) \ {z} : Shown(fs.ino[f[i]]) = Shown(fs.ino[i])

(* The objects of a version that a request made.                           *)
LEMMA MadeNames ==
  ASSUME PlainHistory, fs \in Table, NEW r, NEW n, NEW f, NEW x, NEW q \in Calls,
         Made(fs, r, n, f, x, q), NEW p0, x # <<>> => p0 = Append(Named(q), x[1].name) /\ p0 \in Path
  PROVE  Kin(r, n, f, x, p0, Lookup(fs, Named(q), r))
<1> DEFINE L(p) == Lookup(fs, p, r)
           M(p) == Lookup(fs, p, n)
           A == Reach(fs, r)
<1>0. Inum \subseteq Nat /\ \A p \in Path : p \in Seq(Name)
  BY NumFacts, PathFacts
<1>1. \A p \in Path :
         /\ L(p) \in Int /\ M(p) \in Int
         /\ L(p) >= 0 => L(p) \in Inum /\ M(p) \in Inum /\ M(p) = f[L(p)]
         /\ L(p) < 0 /\ M(p) >= 0 => x # <<>> /\ p = p0
  BY <1>0 DEF Made, Renewed
<1>2. x # <<>> => L(p0) < 0 /\ M(p0) = x[1].inum /\ p0 \in Path
  BY DEF Made, Renewed
<1>3. \A p, u \in Path : L(p) >= 0 /\ L(u) >= 0 /\ f[L(p)] = f[L(u)] => L(p) = L(u)
  BY <1>0 DEF Made, Renewed
<1>4. \A i \in A : \E p \in Path : L(p) = i /\ i >= 0
  BY DEF Reach, Present
<1>5. \A p \in Path : L(p) >= 0 => L(p) \in A
  BY DEF Reach, Present
<1>6. \A p \in Path : M(p) >= 0 => M(p) \in Reach(fs, n)
  BY DEF Reach, Present
<1>7. \A j \in Reach(fs, n) : \E p \in Path : M(p) = j /\ j >= 0
  BY DEF Reach, Present
<1>8. \A i \in A \ {Lookup(fs, Named(q), r)} : Shown(fs.ino[f[i]]) = Shown(fs.ino[i])
  <2> TAKE i \in A \ {Lookup(fs, Named(q), r)}
  <2>1. PICK p \in Path : L(p) = i /\ i >= 0
    BY <1>4
  <2> QED
    BY <1>0, <2>1 DEF Made
<1> HIDE DEF L, M, A
<1>9. \A i \in Inum : i >= 0
  BY <1>0
<1>10. \A i \in A : f[i] \in Reach(fs, n)
  <2> TAKE i \in A
  <2>1. PICK p \in Path : L(p) = i /\ i >= 0
    BY <1>4
  <2>2. M(p) = f[i] /\ M(p) >= 0
    BY <1>1, <1>9, <2>1
  <2> QED
    BY <1>6, <2>2
<1>11. ASSUME NEW i \in A, NEW p \in Path
       PROVE  M(p) = f[i] <=> L(p) = i \/ (x # <<>> /\ p = p0 /\ x[1].inum = f[i])
  <2>1. PICK u \in Path : L(u) = i /\ i >= 0 /\ M(u) = f[i] /\ M(u) >= 0
    <3>1. PICK u \in Path : L(u) = i /\ i >= 0
      BY <1>4
    <3> QED
      BY <1>1, <1>9, <3>1
  <2>2. ASSUME M(p) = f[i] PROVE L(p) = i \/ (x # <<>> /\ p = p0 /\ x[1].inum = f[i])
    <3>1. CASE L(p) >= 0
      BY <1>1, <1>3, <2>1, <2>2, <3>1
    <3>2. CASE L(p) < 0
      BY <1>1, <1>2, <2>1, <2>2, <3>2
    <3> QED
      BY <1>1, <3>1, <3>2
  <2>3. L(p) = i => M(p) = f[i]
    BY <1>1, <2>1
  <2>4. x # <<>> /\ p = p0 /\ x[1].inum = f[i] => M(p) = f[i]
    BY <1>2
  <2> QED
    BY <2>2, <2>3, <2>4
<1>12. ASSUME NEW j \in Reach(fs, n), ~\E i \in A : j = f[i]
       PROVE  x # <<>> /\ j = x[1].inum /\ Names(n, j) = {p0}
  <2>1. PICK p \in Path : M(p) = j /\ j >= 0
    BY <1>7
  <2>2. ASSUME NEW u \in Path, M(u) = j
        PROVE  x # <<>> /\ u = p0
    <3>1. ~(L(u) >= 0)
      BY <1>1, <1>5, <1>12, <2>2
    <3> QED
      BY <1>1, <2>1, <2>2, <3>1
  <2>3. x # <<>> /\ p = p0 /\ p0 \in Path
    BY <1>2, <2>1, <2>2
  <2>4. j = x[1].inum /\ M(p0) = j
    BY <1>2, <2>1, <2>3
  <2>5. Names(n, j) = {u \in Path : M(u) = j}
    BY DEF Names, M
  <2> QED
    BY <2>2, <2>3, <2>4, <2>5
<1> QED
  BY <1>8, <1>10, <1>11, <1>12 DEF L, M, A, Kin

\* The inodes of n are the images under f of those of r; but for z, whose
\* image has the names all, they show the same under the same names.
Swapped(r, n, f, z, all) ==
    /\ z \in Reach(fs, r) /\ \A i \in Reach(fs, r) : f[i] \in Reach(fs, n)
    /\ \A i \in Reach(fs, r) \ {z} : /\ Names(n, f[i]) = Names(r, i)
                                     /\ Shown(fs.ino[f[i]]) = Shown(fs.ino[i])
    /\ Names(n, f[z]) = all
    /\ \A j \in Reach(fs, n) : \E i \in Reach(fs, r) : j = f[i]

\* The object that the image of z is.
Image(f, z, all) == [names |-> all, mode |-> fs.ino[f[z]].mode, data |-> fs.ino[f[z]].data]

(* A request that changes one inode changes one object.                    *)
LEMMA InsteadTree ==
  ASSUME NEW r, NEW n, NEW f, NEW z, NEW all, Swapped(r, n, f, z, all)
  PROVE  TreeOf(n) = Snap!Instead(TreeOf(r), Seen(r, z), Image(f, z, all))
<1> USE DEF Swapped
<1> DEFINE A == Reach(fs, r)
           o == Seen(r, z)
           o2 == Image(f, z, all)
<1>1. TreeOf(r) = {Seen(r, i) : i \in A} /\ \A i, j \in A : Seen(r, i) = Seen(r, j) => i = j
  BY SeenTree
<1>2. TreeOf(n) = {Seen(n, j) : j \in Reach(fs, n)}
  BY SeenTree
<1>3. z \in A /\ \A i \in A : f[i] \in Reach(fs, n)
  OBVIOUS
<1>4. Seen(n, f[z]) = o2
  BY DEF Seen, Image
<1>5. ASSUME NEW i \in A \ {z} PROVE Seen(n, f[i]) = Seen(r, i)
  <2>1. fs.ino[f[i]].mode = fs.ino[i].mode /\ fs.ino[f[i]].data = fs.ino[i].data
    BY DEF Shown
  <2> QED
    BY <2>1 DEF Seen
<1> HIDE DEF A, o2
<1>6. \A i \in A \ {z} : Seen(r, i) # o
  BY <1>1, <1>3
<1> HIDE DEF o
<1>7. \A y \in TreeOf(n) : y \in (TreeOf(r) \ {o}) \cup {o2}
  <2> TAKE y \in TreeOf(n)
  <2>1. PICK i \in A : y = Seen(n, f[i])
    BY <1>2 DEF A
  <2> QED
    BY <1>1, <1>4, <1>5, <1>6, <2>1
<1>8. \A y \in (TreeOf(r) \ {o}) \cup {o2} : y \in TreeOf(n)
  <2> TAKE y \in (TreeOf(r) \ {o}) \cup {o2}
  <2>1. CASE y = o2
    BY <1>2, <1>3, <1>4, <2>1 DEF A
  <2>2. CASE y \in TreeOf(r) \ {o}
    <3>1. PICK i \in A : y = Seen(r, i) /\ i # z
      BY <1>1, <2>2 DEF o
    <3> QED
      BY <1>2, <1>3, <1>5, <3>1
  <2> QED
    BY <2>1, <2>2
<1> QED
  BY <1>7, <1>8 DEF o, o2, Snap!Instead

(* What a request makes is what it makes of the whole tree.                *)
LEMMA MadeTree ==
  ASSUME PlainHistory, fs \in Table, NEW r, NEW n, NEW f, NEW x, NEW q \in Calls,
         Made(fs, r, n, f, x, q)
  PROVE  TreeOf(n) \in Snap!Result(TreeOf(r), q)
<1> DEFINE t == Named(q)
           z == Lookup(fs, t, r)
           g == Lookup(fs, q.path, r)
<1>0. Inum \subseteq Nat /\ z \in Inum /\ t \in Path /\ q.path \in Path /\ q.call \in Copying
  BY NumFacts, RequestPath DEF Made, Effect
<1>1. z >= 0 /\ z \in Reach(fs, r)
  <2>1. \A i \in Inum : i >= 0
    BY <1>0
  <2>2. z >= 0
    BY <1>0, <2>1
  <2> QED
    BY <1>0, <2>2, SeenTree
<1>6. ASSUME NEW p0, x # <<>> => p0 = Append(t, x[1].name) /\ p0 \in Path
      PROVE  Kin(r, n, f, x, p0, z)
  BY <1>6, MadeNames
<1>2. ASSUME x = <<>>
      PROVE  TreeOf(n) = Snap!Instead(TreeOf(r), Seen(r, z), Image(f, z, Names(r, z)))
  <2> HIDE DEF z, t
  <2>6. Kin(r, n, f, x, Root, z)
    BY <1>2, <1>6
  <2>1. \A i \in Reach(fs, r) : Names(n, f[i]) = Names(r, i) /\ f[i] \in Reach(fs, n)
    <3> TAKE i \in Reach(fs, r)
    <3>1. \A p \in Path : Lookup(fs, p, n) = f[i] <=> Lookup(fs, p, r) = i
      BY <1>2, <2>6 DEF Kin
    <3> QED
      BY <2>6, <3>1 DEF Names, Kin
  <2>2. /\ \A j \in Reach(fs, n) : \E i \in Reach(fs, r) : j = f[i]
        /\ \A i \in Reach(fs, r) \ {z} : Shown(fs.ino[f[i]]) = Shown(fs.ino[i])
    BY <1>2, <2>6 DEF Kin
  <2>4. Swapped(r, n, f, z, Names(r, z))
    BY <1>1, <2>1, <2>2 DEF Swapped
  <2> QED
    BY <2>4, InsteadTree
<1>3. CASE q.call \in {"write", "truncate", "chmod"}
  <2>1. t = q.path /\ x = <<>>
    BY <1>3, RequestPath DEF OnParent, Made, Effect
  <2> DEFINE o == Seen(r, z)
             o2 == Image(f, z, Names(r, z))
  <2>2. o \in Snap!Named(TreeOf(r), q.path)
    BY <1>0, <1>1, <2>1, SeenTree
  <2>3. TreeOf(n) = Snap!Instead(TreeOf(r), o, o2)
    BY <1>2, <2>1
  <2>4. fs.ino[z].data \in Seq(Byte)
    BY <1>0, InodeParts DEF Num
  <2>5. CASE q.call = "write"
    <3>1. /\ fs.ino[f[z]].mode = fs.ino[z].mode
          /\ fs.ino[f[z]].data = Written(fs.ino[z].data, q.off, q.bytes)
      BY <2>5 DEF Made, Effect
    <3>2. q.off \in Nat /\ q.bytes \in Seq(Byte)
      BY <2>5, StorageAssumption
    <3>3. fs.ino[f[z]].data = Snap!Overwritten(fs.ino[z].data, q.off, q.bytes)
      BY <2>4, <3>1, <3>2, WrittenIs
    <3>4. o2 = [o EXCEPT !.data = Snap!Overwritten(@, q.off, q.bytes)]
      BY <3>1, <3>3 DEF Seen, Image
    <3> HIDE DEF o, o2
    <3>5. TreeOf(n) \in Snap!Write(TreeOf(r), q)
      BY <2>2, <2>3, <3>4 DEF Snap!Write
    <3> QED
      BY <2>5, <3>5 DEF Snap!Result
  <2>6. CASE q.call = "truncate"
    <3>1. /\ fs.ino[f[z]].mode = fs.ino[z].mode
          /\ fs.ino[f[z]].data = [k \in 1 .. q.size |-> IF k <= Len(fs.ino[z].data)
                                                        THEN fs.ino[z].data[k] ELSE 0]
      BY <2>6 DEF Made, Effect
    <3>2. q.size \in Nat
      BY <2>6, StorageAssumption
    <3>3. fs.ino[f[z]].data = Snap!Resized(fs.ino[z].data, q.size)
      BY <2>4, <3>1, <3>2, ResizedIs
    <3>6. fs.ino[f[z]].mode = fs.ino[z].mode
      BY <3>1
    <3>4. o2 = [o EXCEPT !.data = Snap!Resized(@, q.size)]
      BY <3>3, <3>6 DEF Seen, Image
    <3> HIDE DEF o, o2
    <3>5. TreeOf(n) \in Snap!Truncate(TreeOf(r), q)
      BY <2>2, <2>3, <3>4 DEF Snap!Truncate
    <3> QED
      BY <2>6, <3>5 DEF Snap!Result
  <2>7. CASE q.call = "chmod"
    <3>1. fs.ino[f[z]].mode = q.mode /\ fs.ino[f[z]].data = fs.ino[z].data
      BY <2>7 DEF Made, Effect
    <3>4. o2 = [o EXCEPT !.mode = q.mode]
      BY <3>1 DEF Seen, Image
    <3> HIDE DEF o, o2
    <3>5. TreeOf(n) \in Snap!Chmod(TreeOf(r), q)
      BY <2>2, <2>3, <3>4 DEF Snap!Chmod
    <3> QED
      BY <2>7, <3>5 DEF Snap!Result
  <2> QED
    BY <1>3, <2>5, <2>6, <2>7
<1>4. CASE q.call = "mknod"
  <2>1. PICK c \in fs.ibm :
           /\ x = <<[name |-> basename(q.path), inum |-> c]>>
           /\ fs.ino[c].mode = q.mode /\ fs.ino[c].data = <<>>
           /\ Apart(fs, r, c) /\ \A i \in Inum \ {c} : f[i] # c
    BY <1>4 DEF Made, Effect
  <2>2. Shown(fs.ino[f[z]]) = Shown(fs.ino[z]) /\ fs.ino[z].mode = "dir" /\ g < 0
    BY <1>4 DEF Made, Effect
  <2>3. x # <<>> /\ x[1].name = basename(q.path) /\ x[1].inum = c
    BY <2>1
  <2>4. q.path = Append(t, x[1].name) /\ t = dirname(q.path) /\ q.path # <<>>
    BY <1>4, <2>3, RequestPath
  <2>14. Kin(r, n, f, x, q.path, z)
    BY <1>0, <1>6, <2>4
  <2>5. ASSUME NEW i \in Reach(fs, r) PROVE f[i] # c /\ i \in Inum
    <3>1. PICK p \in Seq(Name) : Lookup(fs, p, r) = i /\ i >= 0
      BY PathFacts DEF Reach, Present
    <3>2. i # c /\ i \in Inum
      BY <2>1, <3>1 DEF Apart, Made, Renewed
    <3> QED
      BY <2>1, <3>2
  <2>6. \A i \in Reach(fs, r) : Seen(n, f[i]) = Seen(r, i) /\ f[i] \in Reach(fs, n)
    <3> TAKE i \in Reach(fs, r)
    <3>1. \A p \in Path : Lookup(fs, p, n) = f[i] <=> Lookup(fs, p, r) = i
      BY <2>3, <2>5, <2>14 DEF Kin
    <3>2. Names(n, f[i]) = Names(r, i)
      BY <3>1 DEF Names
    <3>3. Shown(fs.ino[f[i]]) = Shown(fs.ino[i]) /\ f[i] \in Reach(fs, n)
      BY <2>2, <2>14 DEF Kin
    <3> QED
      BY <3>2, <3>3 DEF Seen, Shown
  <2>7. \A j \in Reach(fs, n) :
           \/ \E i \in Reach(fs, r) : j = f[i]
           \/ j = c /\ Names(n, j) = {q.path}
    BY <2>3, <2>14 DEF Kin
  <2>8. c \in Reach(fs, n)
    <3>1. Lookup(fs, q.path, n) = c
      BY <2>3, <2>4 DEF Made, Renewed
    <3>2. c \in Nat
      BY <1>0, TableParts
    <3> QED
      BY <1>0, <3>1, <3>2, SeenTree
  <2> DEFINE new == Snap!Object({q.path}, q.mode, <<>>)
  <2>9. Seen(n, c) = new
    <3>1. Names(n, c) = {q.path}
      BY <2>5, <2>7, <2>8
    <3> QED
      BY <2>1, <3>1 DEF Seen, Snap!Object
  <2> HIDE DEF new
  <2>10. TreeOf(n) = TreeOf(r) \cup {new}
    <3>1. TreeOf(n) = {Seen(n, j) : j \in Reach(fs, n)} /\ TreeOf(r) = {Seen(r, i) : i \in Reach(fs, r)}
      BY SeenTree
    <3>2. \A y \in TreeOf(n) : y \in TreeOf(r) \cup {new}
      BY <2>6, <2>7, <2>9, <3>1
    <3>3. \A y \in TreeOf(r) \cup {new} : y \in TreeOf(n)
      BY <2>6, <2>8, <2>9, <3>1
    <3> QED
      BY <3>2, <3>3
  <2>11. Seen(r, z) \in Snap!Named(TreeOf(r), Snap!Parent(q.path)) /\ Seen(r, z).mode = "dir"
    <3>1. Snap!Parent(q.path) = t
      BY <2>4 DEF Snap!Parent, Snap!Root, dirname, Root
    <3> QED
      BY <1>0, <1>1, <2>2, <3>1, SeenTree DEF Seen
  <2>12. Snap!Absent(TreeOf(r), q.path)
    <3>1. g \in Int /\ g < 0
      BY <2>2, RequestPath DEF Made, Renewed
    <3>2. ~(g >= 0)
      <4> HIDE DEF g
      <4> QED
        BY <3>1
    <3> QED
      BY <1>0, <3>2, SeenTree
  <2>13. TreeOf(n) \in Snap!Mknod(TreeOf(r), q)
    BY <2>10, <2>11, <2>12 DEF Snap!Mknod, new
  <2> QED
    BY <1>4, <2>13 DEF Snap!Result
<1>5. CASE q.call = "link"
  <2>1. /\ x = <<[name |-> basename(q.to), inum |-> g]>> /\ g \in Inum
        /\ Shown(fs.ino[f[z]]) = Shown(fs.ino[z]) /\ Lookup(fs, q.to, r) < 0 /\ f[g] = g
    BY <1>5 DEF Made, Effect
  <2>3. x # <<>> /\ x[1].name = basename(q.to) /\ x[1].inum = g
    BY <2>1
  <2>4. q.to = Append(t, x[1].name) /\ q.to \in Path
    BY <1>5, <2>3, RequestPath
  <2>14. Kin(r, n, f, x, q.to, z)
    BY <1>6, <2>4
  <2>5. g >= 0 /\ g \in Reach(fs, r)
    <3>1. \A i \in Inum : i >= 0
      BY <1>0
    <3>2. g >= 0
      BY <2>1, <3>1
    <3> QED
      BY <1>0, <3>2, SeenTree
  <2>6. \A i \in Reach(fs, r) : f[i] = g => i = g
    <3> TAKE i \in Reach(fs, r)
    <3>1. PICK p \in Seq(Name) : Lookup(fs, p, r) = i /\ i >= 0
      BY PathFacts DEF Reach, Present
    <3>2. q.path \in Seq(Name)
      BY RequestPath
    <3> QED
      BY <2>1, <2>5, <3>1, <3>2 DEF Made, Renewed
  <2> HIDE DEF g, z, t
  <2>7. \A i \in Reach(fs, r) \ {g} : /\ Names(n, f[i]) = Names(r, i)
                                      /\ Shown(fs.ino[f[i]]) = Shown(fs.ino[i])
    <3> TAKE i \in Reach(fs, r) \ {g}
    <3>1. \A p \in Path : Lookup(fs, p, n) = f[i] <=> Lookup(fs, p, r) = i
      BY <2>3, <2>6, <2>14 DEF Kin
    <3>2. Shown(fs.ino[f[i]]) = Shown(fs.ino[i])
      BY <2>1, <2>14 DEF Kin
    <3> QED
      BY <3>1, <3>2 DEF Names
  <2> DEFINE all == Names(r, g) \cup {q.to}
  <2>8. Names(n, f[g]) = all
    <3>1. \A p \in Path : Lookup(fs, p, n) = f[g] <=> Lookup(fs, p, r) = g \/ p = q.to
      BY <2>1, <2>3, <2>5, <2>14 DEF Kin
    <3> QED
      BY <2>4, <3>1 DEF Names
  <2>9. \A j \in Reach(fs, n) : \E i \in Reach(fs, r) : j = f[i]
    <3> TAKE j \in Reach(fs, n)
    <3>1. (\E i \in Reach(fs, r) : j = f[i]) \/ j = x[1].inum
      BY <2>14 DEF Kin
    <3> QED
      BY <2>1, <2>3, <2>5, <3>1
  <2>10. TreeOf(n) = Snap!Instead(TreeOf(r), Seen(r, g), Image(f, g, all))
    <3>1. \A i \in Reach(fs, r) : f[i] \in Reach(fs, n)
      BY <2>14 DEF Kin
    <3> HIDE DEF all
    <3>2. Swapped(r, n, f, g, all)
      BY <2>5, <2>7, <2>8, <2>9, <3>1 DEF Swapped
    <3> QED
      BY <3>2, InsteadTree
  <2>11. Seen(r, g) \in Snap!Named(TreeOf(r), q.path) /\ Snap!Absent(TreeOf(r), q.to)
    <3> DEFINE l == Lookup(fs, q.to, r)
    <3>1. l \in Int /\ l < 0
      BY <1>5, <2>1, RequestPath DEF Made, Renewed
    <3>2. ~(l >= 0)
      <4> HIDE DEF l
      <4> QED
        BY <3>1
    <3> QED
      BY <1>0, <2>4, <2>5, <3>2, SeenTree DEF g
  <2>12. Image(f, g, all) = [Seen(r, g) EXCEPT !.names = @ \cup {q.to}]
    <3>1. f[g] = g
      BY <2>1
    <3> QED
      BY <3>1 DEF Seen, Image
  <2>13. TreeOf(n) \in Snap!Link(TreeOf(r), q)
    <3> DEFINE o == Seen(r, g)
               o2 == Image(f, g, all)
    <3>1. o2 = [o EXCEPT !.names = @ \cup {q.to}]
      BY <2>12
    <3> HIDE DEF o, o2, all
    <3> QED
      BY <2>10, <2>11, <3>1 DEF Snap!Link, o, o2
  <2> QED
    BY <1>5, <2>13 DEF Snap!Result
<1> QED
  BY <1>0, <1>3, <1>4, <1>5 DEF Copying, OnParent, OnPath

-----------------------------------------------------------------------------
(* The climb.                                                              *)

\* e is d with more in it: version r reads the same in both.
ReadsSame(d, e, r) == \A p \in Seq(Name) : Lookup(e, p, r) = Lookup(d, p, r)

(* What is added to a table no version reads.                              *)
LEMMA GrownLookup ==
  ASSUME NEW d \in Table, NEW e \in Table, NEW r, NEW V, NEW D \in Depth, Tree(d, r, V, D),
         Untouched(d, e)
  PROVE  ReadsSame(d, e, r)
<1>1. Same(d, e, V)
  BY DEF Same, Untouched, Tree
<1> QED
  BY <1>1, TreeSameLookup DEF ReadsSame

(* What a request does to its inode stays done when more is copied.        *)
LEMMA EffectOn ==
  ASSUME PlainHistory, NEW d \in Table, NEW e \in Table, NEW r, NEW V, NEW D \in Depth,
         Tree(d, r, V, D), Untouched(d, e), NEW q \in Calls, NEW f, NEW h, NEW x,
         Effect(d, r, f, x, q), NEW z, z = Lookup(d, Named(q), r), z \in V,
         f[z] \in d.ibm, h[z] = f[z],
         \A k \in Inum : h[k] = f[k] \/ h[k] \notin d.ibm
  PROVE  Effect(e, r, h, x, q)
<1> DEFINE g == Lookup(d, q.path, r)
<1>0. ReadsSame(d, e, r) /\ V \subseteq d.ibm /\ d.ibm \subseteq e.ibm
  BY GrownLookup DEF Tree, Untouched
<1>1. /\ Named(q) \in Seq(Name) /\ q.path \in Seq(Name)
      /\ q.call = "link" => q.to \in Seq(Name)
  BY RequestPath
<1>2. /\ Lookup(e, Named(q), r) = z /\ Lookup(e, q.path, r) = g
      /\ q.call = "link" => Lookup(e, q.to, r) = Lookup(d, q.to, r)
  BY <1>0, <1>1 DEF ReadsSame
<1>3. \A i \in d.ibm : /\ e.ino[i].mode = d.ino[i].mode /\ e.ino[i].data = d.ino[i].data
                       /\ Shown(e.ino[i]) = Shown(d.ino[i]) /\ Ents(e, i) = Ents(d, i)
  BY DEF Untouched, Shown, Ents
<1>4. g \in Inum => g \in V
  <2>1. g < 0 \/ g \in V
    BY <1>1, TreeLookup
  <2>2. \A i \in Inum : ~(i < 0)
    BY NumFacts
  <2> HIDE DEF g
  <2> QED
    BY <2>1, <2>2
<1> DEFINE o == d.ino[z]
           n == d.ino[f[z]]
           o1 == e.ino[z]
           n1 == e.ino[h[z]]
<1>5. /\ o1.mode = o.mode /\ o1.data = o.data /\ n1.mode = n.mode /\ n1.data = n.data
      /\ Shown(o1) = Shown(o) /\ Shown(n1) = Shown(n)
  BY <1>0, <1>3
<1>6. z \in Inum
  BY DEF Effect
<1> HIDE DEF g, o, n, o1, n1
<1>7. CASE /\ q.call = "write" /\ x = <<>> /\ n.mode = o.mode
           /\ n.data = Written(o.data, q.off, q.bytes)
  BY <1>2, <1>5, <1>6, <1>7 DEF Effect, o1, n1
<1>8. CASE /\ q.call = "truncate" /\ x = <<>> /\ n.mode = o.mode
           /\ n.data = [k \in 1 .. q.size |-> IF k <= Len(o.data) THEN o.data[k] ELSE 0]
  BY <1>2, <1>5, <1>6, <1>8 DEF Effect, o1, n1
<1>9. CASE /\ q.call = "chmod" /\ x = <<>> /\ n.data = o.data
           /\ n.mode = q.mode /\ (q.mode = "file" <=> o.mode = "file")
  BY <1>2, <1>5, <1>6, <1>9 DEF Effect, o1, n1
<1>10. CASE /\ q.call = "mknod" /\ Shown(n) = Shown(o) /\ o.mode = "dir" /\ g < 0
            /\ \E c \in d.ibm :
                  /\ x = <<[name |-> basename(q.path), inum |-> c]>>
                  /\ Ents(d, c) = {} /\ d.ino[c].mode = q.mode /\ d.ino[c].data = <<>>
                  /\ Apart(d, r, c) /\ \A i \in Inum \ {c} : f[i] # c
  <2>1. PICK c \in d.ibm :
           /\ x = <<[name |-> basename(q.path), inum |-> c]>>
           /\ Ents(d, c) = {} /\ d.ino[c].mode = q.mode /\ d.ino[c].data = <<>>
           /\ Apart(d, r, c) /\ \A i \in Inum \ {c} : f[i] # c
    BY <1>10
  <2>2. c \in e.ibm /\ Ents(e, c) = {} /\ e.ino[c].mode = q.mode /\ e.ino[c].data = <<>>
    BY <1>0, <1>3, <2>1
  <2>3. Apart(e, r, c)
    BY <1>0, <2>1 DEF Apart, ReadsSame
  <2>4. \A i \in Inum \ {c} : h[i] # c
    BY <2>1
  <2> QED
    BY <1>2, <1>5, <1>6, <1>10, <2>1, <2>2, <2>3, <2>4 DEF Effect, o1, n1
<1>11. CASE /\ q.call = "link" /\ Shown(n) = Shown(o) /\ o.mode # "file"
            /\ Lookup(d, q.to, r) < 0
            /\ g \in Inum /\ d.ino[g].mode = "file" /\ Ents(d, g) = {}
            /\ x = <<[name |-> basename(q.to), inum |-> g]>>
  <2>1. e.ino[g].mode = "file" /\ Ents(e, g) = {}
    BY <1>0, <1>3, <1>4, <1>11
  <2> QED
    BY <1>2, <1>5, <1>6, <1>11, <2>1 DEF Effect, o1, n1
<1> QED
  BY <1>7, <1>8, <1>9, <1>10, <1>11 DEF Effect, o, n, g

\* f on the inode old alone.
Alone(f, old) == [k \in Inum |-> IF k = old THEN f[old] ELSE k]

\* The way along t from prefix p on goes on with dir, which h copies too.
Joined(d, e, r, t, p, dir, V, h, x) ==
    LET W == Way(d, r, t, Len(p))
    IN  /\ Copied(e, r, t, Len(p) - 1, h, x)
        /\ Way(e, r, t, Len(p) - 1) = W \cup {dir}
        /\ dir \notin W /\ W \cup {dir} \subseteq V /\ dir # Lookup(d, t, r)

(* The directory above the way joins it: its copy leads to the copy below. *)
LEMMA CopiedOn ==
  ASSUME NEW d \in Table, NEW e \in Table, NEW r, NEW V, NEW D \in Depth, Tree(d, r, V, D),
         \A i \in V : \A y \in Ents(d, i) : y >= 0, Untouched(d, e),
         NEW t \in Seq(Name), NEW p \in Seq(Name), p # <<>>, IsPrefixOf(p, t),
         NEW f, NEW x, Copied(d, r, t, Len(p), f, x),
         NEW dir \in Inum, dir = Lookup(d, SubSeq(p, 1, Len(p) - 1), r),
         NEW old, old = Lookup(d, p, r), old \in Inum, NEW c \in e.ibm \ d.ibm,
         Renumbered(Alone(f, old), d.ino[dir].ent, e.ino[c].ent, <<>>),
         NEW h, h = [f EXCEPT ![dir] = c]
  PROVE  Joined(d, e, r, t, p, dir, V, h, x)
<1> DEFINE m == Len(p)
           u == SubSeq(p, 1, Len(p) - 1)
           W == Way(d, r, t, m)
           z == Lookup(d, t, r)
<1>0. /\ ReadsSame(d, e, r) /\ V \subseteq d.ibm /\ d.ibm \subseteq e.ibm
      /\ d.ibm \subseteq Inum /\ e.ibm \subseteq Inum /\ Inum \subseteq Nat
  BY GrownLookup, TableParts, NumFacts DEF Tree, Untouched
<1>1. m \in Nat \ {0} /\ u \in Seq(Name) /\ Len(u) = m - 1
  BY ParentPath
<1>2. \A i \in W : i \in Inum /\ f[i] \in d.ibm /\ Apart(d, r, f[i])
                   /\ (\A j \in W : f[i] = f[j] => i = j)
                   /\ Renumbered(f, d.ino[i].ent, d.ino[f[i]].ent, IF i = z THEN x ELSE <<>>)
  BY DEF Copied
<1>3. f \in [Inum -> Inum] /\ \A i \in Inum \ W : f[i] = i
  BY DEF Copied
<1>4. \A i \in Inum : ~(i < 0)
  BY <1>0
<1>5. \A i \in W : i \in V /\ D[i] \in Nat /\ D[i] >= m
  <2> TAKE i \in W
  <2>1. PICK w \in Seq(Name) : IsPrefixOf(w, t) /\ Len(w) >= m /\ Lookup(d, w, r) = i
    BY DEF Way
  <2>2. i < 0 \/ (i \in V /\ D[i] = Len(w))
    BY <2>1, TreeLookup
  <2> QED
    BY <1>2, <1>4, <2>1, <2>2
<1>6. dir \in V /\ D[dir] = m - 1
  <2>1. dir = Lookup(d, u, r) /\ u \in Seq(Name) /\ Len(u) = m - 1
    BY <1>1
  <2> HIDE DEF u, m
  <2>2. dir < 0 \/ (dir \in V /\ D[dir] = Len(u))
    BY <2>1, TreeLookup
  <2> QED
    BY <1>4, <2>1, <2>2
<1>7. dir \notin W
  <2> HIDE DEF m, W
  <2> QED
    BY <1>1, <1>5, <1>6
<1>8. old \in W /\ z \in W
  <2>1. IsPrefixOf(t, t) /\ Len(t) >= m
    BY PrefixFacts DEF IsPrefixOf
  <2>2. Len(p) >= m
    BY <1>1
  <2> QED
    BY <2>1, <2>2 DEF Way
<1>9. Way(d, r, t, m - 1) = W \cup {dir}
  BY WayLonger
<1>10. Way(e, r, t, m - 1) = W \cup {dir}
  <2>1. Way(e, r, t, m - 1) = Way(d, r, t, m - 1)
    BY <1>0 DEF Way, ReadsSame
  <2> QED
    BY <1>9, <2>1
<1>11. dir # z
  BY <1>7, <1>8
<1>12. h \in [Inum -> Inum] /\ h[dir] = c /\ \A i \in Inum \ {dir} : h[i] = f[i]
  BY <1>0, <1>3
<1>13. \A i \in Inum \ (W \cup {dir}) : h[i] = i
  BY <1>3, <1>12
<1>14. Lookup(e, t, r) = z
  BY <1>0 DEF ReadsSame
<1>15. \A i \in d.ibm : e.ino[i].ent = d.ino[i].ent
  BY DEF Untouched
\* Entries are numbers in V, one name deeper.
<1>16. \A i \in V : \A k \in DOMAIN d.ino[i].ent :
          LET y == d.ino[i].ent[k].inum
          IN  y \in V /\ D[y] = D[i] + 1 /\ y \in Ents(d, i) /\ y >= 0
  <2> TAKE i \in V
  <2> TAKE k \in DOMAIN d.ino[i].ent
  <2> DEFINE y == d.ino[i].ent[k].inum
  <2>1. y \in Ents(d, i)
    BY DEF Ents
  <2>2. y < 0 \/ (y \in V /\ D[y] = D[i] + 1)
    BY <2>1 DEF Tree
  <2>3. y >= 0 /\ y \in Int
    <3>1. y >= 0
      BY <2>1
    <3>2. d.ino[i].ent \in Seq(ddirent)
      BY <1>0, InodeParts DEF Num
    <3>3. d.ino[i].ent[k] \in ddirent
      BY <3>2
    <3> QED
      BY <3>1, <3>3 DEF ddirent
  <2> HIDE DEF y
  <2>4. y \in V /\ D[y] = D[i] + 1
    BY <2>2, <2>3
  <2> QED
    BY <2>1, <2>3, <2>4 DEF y
<1>17. ASSUME NEW i \in W
       PROVE  /\ h[i] = f[i] /\ h[i] \in e.ibm /\ Apart(e, r, h[i])
              /\ Renumbered(h, e.ino[i].ent, e.ino[h[i]].ent, IF i = z THEN x ELSE <<>>)
  <2>1. h[i] = f[i]
    BY <1>2, <1>7, <1>12
  <2>2. h[i] \in e.ibm /\ Apart(e, r, h[i])
    BY <1>0, <1>2, <2>1 DEF Apart, ReadsSame
  <2>3. e.ino[i].ent = d.ino[i].ent /\ e.ino[h[i]].ent = d.ino[f[i]].ent
    BY <1>0, <1>2, <1>5, <1>15, <2>1
  <2>4. \A k \in DOMAIN d.ino[i].ent : h[d.ino[i].ent[k].inum] = f[d.ino[i].ent[k].inum]
    <3> TAKE k \in DOMAIN d.ino[i].ent
    <3> DEFINE y == d.ino[i].ent[k].inum
    <3>1. y \in V /\ D[y] = D[i] + 1
      BY <1>5, <1>16
    <3>2. y # dir
      <4> HIDE DEF y, m
      <4> QED
        BY <1>1, <1>5, <1>6, <3>1
    <3> QED
      BY <1>0, <1>12, <3>1, <3>2
  <2>5. Renumbered(f, d.ino[i].ent, d.ino[f[i]].ent, IF i = z THEN x ELSE <<>>)
    BY <1>2
  <2>6. d.ino[i].ent \in Seq(ddirent)
    BY <1>2, InodeParts DEF Num
  <2>7. \A k \in 1 .. Len(d.ino[i].ent) : h[d.ino[i].ent[k].inum] = f[d.ino[i].ent[k].inum]
    <3>1. DOMAIN d.ino[i].ent = 1 .. Len(d.ino[i].ent)
      BY <2>6
    <3> QED
      BY <2>4, <3>1
  <2> DEFINE en == d.ino[i].ent
             em == d.ino[f[i]].ent
             y == IF i = z THEN x ELSE <<>>
  <2>8. Renumbered(h, en, em, y)
    <3>1. Renumbered(f, en, em, y) /\ \A k \in 1 .. Len(en) : h[en[k].inum] = f[en[k].inum]
      BY <2>5, <2>7
    <3> HIDE DEF en, em, y
    <3> QED
      BY <3>1 DEF Renumbered
  <2>9. Renumbered(h, e.ino[i].ent, e.ino[h[i]].ent, y)
    BY <2>3, <2>8
  <2> HIDE DEF z
  <2> QED
    BY <2>1, <2>2, <2>9
<1>18. /\ h[dir] \in e.ibm /\ Apart(e, r, h[dir])
       /\ Renumbered(h, e.ino[dir].ent, e.ino[h[dir]].ent, <<>>)
  <2>1. Apart(e, r, c)
    <3> SUFFICES ASSUME NEW w \in Seq(Name), Lookup(e, w, r) = c PROVE FALSE
      BY DEF Apart
    <3>1. Lookup(d, w, r) = c
      BY <1>0 DEF ReadsSame
    <3>2. c < 0 \/ c \in V
      BY <3>1, TreeLookup
    <3> QED
      BY <1>0, <1>4, <3>2
  <2>2. e.ino[dir].ent = d.ino[dir].ent
    BY <1>0, <1>6, <1>15
  <2>3. d.ino[dir].ent \in Seq(ddirent)
    BY InodeParts DEF Num
  <2>4. \A k \in 1 .. Len(d.ino[dir].ent) :
           LET y == d.ino[dir].ent[k].inum
           IN  h[y] = IF y = old THEN f[old] ELSE y
    <3> TAKE k \in 1 .. Len(d.ino[dir].ent)
    <3> DEFINE y == d.ino[dir].ent[k].inum
    <3>1. y \in V /\ D[y] = D[dir] + 1 /\ y \in Ents(d, dir) /\ y >= 0
      BY <1>6, <1>16, <2>3
    <3>2. y # dir /\ y \in Inum
      <4> HIDE DEF y, m
      <4> QED
        BY <1>0, <1>1, <1>6, <3>1
    <3>3. ASSUME y # old PROVE y \notin W
      <4> SUFFICES ASSUME y \in W PROVE FALSE
        OBVIOUS
      <4>1. PICK w \in Seq(Name) :
               /\ w # <<>> /\ IsPrefixOf(w, t) /\ Len(w) = m /\ Lookup(d, w, r) = y
               /\ Lookup(d, SubSeq(w, 1, Len(w) - 1), r) = dir
        <5> HIDE DEF y
        <5>1. m \in Nat /\ dir \in V /\ dir \notin Way(d, r, t, m) /\ y \in Ents(d, dir) /\ y >= 0
              /\ y \in Way(d, r, t, m)
          BY <1>1, <1>6, <1>7, <3>1
        <5> HIDE DEF m
        <5> QED
          BY <5>1, OffWay
      <4>2. w = p
        BY <4>1, SamePrefix
      <4> QED
        BY <3>3, <4>1, <4>2
    <3> HIDE DEF y
    <3>4. h[y] = IF y = old THEN f[old] ELSE y
      BY <1>12, <1>13, <3>2, <3>3
    <3> QED
      BY <3>4 DEF y
  <2>5. \A k \in 1 .. Len(d.ino[dir].ent) :
           LET y == d.ino[dir].ent[k].inum
           IN  /\ e.ino[c].ent[k].inum = IF y = old THEN f[old] ELSE y
               /\ e.ino[c].ent[k].name = d.ino[dir].ent[k].name
    <3> TAKE k \in 1 .. Len(d.ino[dir].ent)
    <3> DEFINE y == d.ino[dir].ent[k].inum
               g == Alone(f, old)
    <3>1. y \in Inum
      <4>1. k \in DOMAIN d.ino[dir].ent
        BY <2>3
      <4>2. y \in V
        BY <1>6, <1>16, <4>1
      <4> QED
        BY <1>0, <4>2
    <3>2. /\ e.ino[c].ent[k].inum = g[y]
          /\ e.ino[c].ent[k].name = d.ino[dir].ent[k].name
      BY DEF Renumbered
    <3> HIDE DEF y
    <3> QED
      BY <3>1, <3>2 DEF y, Alone
  <2>6. Len(e.ino[c].ent) = Len(d.ino[dir].ent) + Len(<<>>)
    BY DEF Renumbered
  <2>8. \A k \in 1 .. Len(<<>>) : e.ino[c].ent[Len(d.ino[dir].ent) + k] = <<>>[k]
    OBVIOUS
  <2>7. Renumbered(h, d.ino[dir].ent, e.ino[c].ent, <<>>)
    <3> DEFINE en == d.ino[dir].ent
               em == e.ino[c].ent
    <3>1. \A k \in 1 .. Len(en) : em[k].name = en[k].name /\ em[k].inum = h[en[k].inum]
      BY <2>4, <2>5
    <3>2. Len(em) = Len(en) + Len(<<>>) /\ \A k \in 1 .. Len(<<>>) : em[Len(en) + k] = <<>>[k]
      BY <2>6, <2>8
    <3> HIDE DEF en, em
    <3>3. Renumbered(h, en, em, <<>>)
      BY <3>1, <3>2 DEF Renumbered
    <3> QED
      BY <3>3 DEF en, em
  <2> QED
    BY <1>12, <2>1, <2>2, <2>7
<1>19. ASSUME NEW i \in W \cup {dir}, NEW j \in W \cup {dir}, h[i] = h[j] PROVE i = j
  BY <1>2, <1>12, <1>17, <1>19
<1>20. Copied(e, r, t, m - 1, h, x)
  <2>1. \A i \in W \cup {dir} :
           /\ i \in Inum /\ h[i] \in e.ibm /\ Apart(e, r, h[i])
           /\ \A j \in W \cup {dir} : h[i] = h[j] => i = j
           /\ Renumbered(h, e.ino[i].ent, e.ino[h[i]].ent, IF i = z THEN x ELSE <<>>)
    BY <1>2, <1>11, <1>17, <1>18, <1>19
  <2> HIDE DEF m, W, z
  <2> QED
    BY <1>10, <1>12, <1>13, <1>14, <2>1 DEF Copied
<1> QED
  BY <1>5, <1>6, <1>7, <1>10, <1>11, <1>20 DEF Joined

(* One directory of a climb: the request has copied one more.              *)
LEMMA ChangedOn ==
  ASSUME PlainHistory, NEW d \in Table, NEW e \in Table, NEW r, NEW V, NEW D \in Depth,
         Tree(d, r, V, D), \A i \in V : \A y \in Ents(d, i) : y >= 0, Untouched(d, e),
         NEW q \in Calls, NEW p \in Seq(Name), p # <<>>, IsPrefixOf(p, Named(q)),
         NEW f, NEW x, Changed(d, r, f, x, q, Len(p)),
         NEW dir \in Inum, dir = Lookup(d, SubSeq(p, 1, Len(p) - 1), r),
         NEW old, old = Lookup(d, p, r), old \in Inum, NEW c \in e.ibm \ d.ibm,
         Shown(e.ino[c]) = Shown(d.ino[dir]),
         Renumbered(Alone(f, old), d.ino[dir].ent, e.ino[c].ent, <<>>)
  PROVE  Changed(e, r, [f EXCEPT ![dir] = c], x, q, Len(p) - 1)
<1> DEFINE t == Named(q)
           W == Way(d, r, t, Len(p))
           h == [f EXCEPT ![dir] = c]
           z == Lookup(d, t, r)
<1>1. t \in Seq(Name) /\ IsPrefixOf(p, t)
  BY RequestPath
<1>2. Copied(d, r, t, Len(p), f, x) /\ Effect(d, r, f, x, q)
      /\ \A i \in W \ {z} : Shown(d.ino[f[i]]) = Shown(d.ino[i])
  BY DEF Changed
<1>3. /\ Copied(e, r, t, Len(p) - 1, h, x)
      /\ Way(e, r, t, Len(p) - 1) = W \cup {dir}
      /\ dir \notin W /\ W \cup {dir} \subseteq V /\ dir # z
  <2>1. h = [f EXCEPT ![dir] = c]
    OBVIOUS
  <2> HIDE DEF t, h
  <2>2. Joined(d, e, r, t, p, dir, V, h, x)
    BY <1>1, <1>2, <2>1, CopiedOn
  <2> QED
    BY <2>2 DEF Joined
<1>4. V \subseteq d.ibm /\ d.ibm \subseteq Inum /\ Lookup(e, t, r) = z
  <2>1. ReadsSame(d, e, r)
    BY GrownLookup
  <2> QED
    BY <1>1, <2>1, TableParts DEF ReadsSame, Tree
<1>5. \A i \in d.ibm : Shown(e.ino[i]) = Shown(d.ino[i])
  BY DEF Untouched, Shown
<1>6. f \in [Inum -> Inum] /\ \A i \in W : f[i] \in d.ibm
  BY <1>2 DEF Copied
<1>7. h[dir] = c /\ \A i \in Inum \ {dir} : h[i] = f[i]
  BY <1>6
<1>8. z \in W
  <2>1. IsPrefixOf(t, t) /\ Len(t) >= Len(p)
    BY <1>1, PrefixFacts DEF IsPrefixOf
  <2> QED
    BY <1>1, <2>1 DEF Way
<1> HIDE DEF h, W, z, t
<1>9. \A i \in (W \cup {dir}) \ {z} : Shown(e.ino[h[i]]) = Shown(e.ino[i])
  <2> TAKE i \in (W \cup {dir}) \ {z}
  <2>1. CASE i = dir
    <3>1. dir \in d.ibm
      BY <1>3, <1>4
    <3>2. Shown(e.ino[dir]) = Shown(d.ino[dir]) /\ h[dir] = c
      BY <1>5, <1>7, <3>1
    <3> QED
      BY <2>1, <3>2
  <2>2. CASE i \in W \ {z} /\ i # dir
    <3>1. h[i] = f[i] /\ f[i] \in d.ibm /\ i \in d.ibm
      BY <1>3, <1>4, <1>6, <1>7, <2>2
    <3> QED
      BY <1>2, <1>5, <2>2, <3>1
  <2> QED
    BY <2>1, <2>2
<1>10. Effect(e, r, h, x, q)
  <2>1. /\ z = Lookup(d, Named(q), r) /\ z \in V /\ f[z] \in d.ibm /\ h[z] = f[z]
        /\ \A k \in Inum : h[k] = f[k] \/ h[k] \notin d.ibm
    BY <1>3, <1>4, <1>6, <1>7, <1>8 DEF z, t
  <2>2. Effect(d, r, f, x, q)
    BY <1>2
  <2> QED
    BY <2>1, <2>2, EffectOn
<1> QED
  BY <1>3, <1>4, <1>9, <1>10 DEF Changed, h, t

(* A request begins: c is the copy of the inode at the end of its way.     *)
LEMMA ChangedFirst ==
  ASSUME PlainHistory, NEW d \in Table, NEW e \in Table, NEW r, NEW V, NEW D \in Depth,
         Tree(d, r, V, D), \A i \in V : \A y \in Ents(d, i) : y >= 0, Untouched(d, e),
         NEW q \in Calls, NEW z \in Inum, z = Lookup(d, Named(q), r),
         NEW c \in e.ibm \ d.ibm, NEW x \in Seq(ddirent), e.ino[c].ent = d.ino[z].ent \o x,
         NEW f, f = [i \in Inum |-> IF i = z THEN c ELSE i], Effect(e, r, f, x, q)
  PROVE  Changed(e, r, f, x, q, Len(Named(q)))
<1> DEFINE t == Named(q)
           m == Len(t)
<1>0. /\ ReadsSame(d, e, r) /\ V \subseteq d.ibm /\ d.ibm \subseteq e.ibm
      /\ d.ibm \subseteq Inum /\ e.ibm \subseteq Inum /\ Inum \subseteq Nat /\ t \in Seq(Name)
  BY GrownLookup, TableParts, NumFacts, RequestPath DEF Tree, Untouched
<1>1. \A i \in Inum : ~(i < 0)
  BY <1>0
<1>2. z \in V /\ D[z] = m
  <2>1. z < 0 \/ (z \in V /\ D[z] = m)
    BY <1>0, TreeLookup
  <2> QED
    BY <1>1, <2>1
<1>3. Way(e, r, t, m) = {z}
  <2>1. ASSUME NEW p \in Seq(Name), IsPrefixOf(p, t), Len(p) >= m PROVE p = t
    <3>1. Len(p) = m
      BY <1>0, <2>1 DEF IsPrefixOf
    <3>2. IsPrefixOf(t, t)
      BY <1>0, PrefixFacts
    <3> HIDE DEF t
    <3> QED
      BY <1>0, <2>1, <3>1, <3>2, SamePrefix
  <2>2. IsPrefixOf(t, t) /\ Len(t) >= m
    BY <1>0, PrefixFacts DEF IsPrefixOf
  <2>3. Lookup(e, t, r) = z
    BY <1>0 DEF ReadsSame
  <2> HIDE DEF t, m
  <2> QED
    BY <1>0, <2>1, <2>2, <2>3 DEF Way
<1>4. f \in [Inum -> Inum] /\ f[z] = c /\ \A i \in Inum \ {z} : f[i] = i
  BY <1>0
<1>5. Apart(e, r, c)
  <2> SUFFICES ASSUME NEW w \in Seq(Name), Lookup(e, w, r) = c PROVE FALSE
    BY DEF Apart
  <2>1. Lookup(d, w, r) = c
    BY <1>0 DEF ReadsSame
  <2>2. c < 0 \/ c \in V
    BY <2>1, TreeLookup
  <2> QED
    BY <1>0, <1>1, <2>2
<1>6. Renumbered(f, e.ino[z].ent, e.ino[c].ent, x)
  <2> DEFINE en == d.ino[z].ent
             em == e.ino[c].ent
  <2>1. en \in Seq(ddirent) /\ e.ino[z].ent = en
    BY <1>0, <1>2, InodeParts DEF Num, Untouched
  <2>2. \A k \in 1 .. Len(en) : f[en[k].inum] = en[k].inum
    <3> TAKE k \in 1 .. Len(en)
    <3> DEFINE y == en[k].inum
    <3>1. DOMAIN en = 1 .. Len(en) /\ en[k] \in ddirent
      BY <2>1
    <3>2. y \in Ents(d, z)
      BY <3>1 DEF Ents
    <3>3. y >= 0 /\ y \in Int
      BY <1>2, <3>1, <3>2 DEF ddirent
    <3>4. y < 0 \/ (y \in V /\ D[y] = D[z] + 1)
      BY <1>2, <3>2 DEF Tree
    <3> HIDE DEF y
    <3>5. y \in V /\ D[y] = m + 1
      BY <1>2, <3>3, <3>4
    <3>6. y # z /\ y \in Inum
      <4>1. m \in Nat
        BY <1>0
      <4> HIDE DEF m
      <4> QED
        BY <1>0, <1>2, <3>5, <4>1
    <3> QED
      BY <1>4, <3>6 DEF y
  <2> HIDE DEF en
  <2>3. /\ Len(em) = Len(en) + Len(x) /\ \A k \in 1 .. Len(en) : em[k] = en[k]
        /\ \A k \in 1 .. Len(x) : em[Len(en) + k] = x[k]
    BY <2>1, ConcatProperties DEF en
  <2> HIDE DEF em
  <2>4. Renumbered(f, en, em, x)
    BY <2>2, <2>3 DEF Renumbered
  <2> QED
    BY <2>1, <2>4 DEF em
<1>7. Copied(e, r, t, m, f, x)
  <2>1. Lookup(e, t, r) = z
    BY <1>0 DEF ReadsSame
  <2> HIDE DEF t, m
  <2> QED
    BY <1>3, <1>4, <1>5, <1>6, <2>1 DEF Copied
<1>8. \A i \in Way(e, r, t, m) \ {Lookup(e, t, r)} : Shown(e.ino[f[i]]) = Shown(e.ino[i])
  <2>1. Lookup(e, t, r) = z
    BY <1>0 DEF ReadsSame
  <2> HIDE DEF t, m
  <2> QED
    BY <1>3, <2>1
<1> QED
  BY <1>7, <1>8 DEF Changed

-----------------------------------------------------------------------------
(* The room that is left.                                                  *)

FreeCount(d) == Cardinality(Inum \ d.ibm)

(* While there is room alloc_inode answers a free number and leaves room   *)
(* for one inode less.                                                     *)
LEMMA RoomTaken ==
  ASSUME NEW d \in Table, NEW e \in Table, NEW c, Taken(d, e, c), FreeCount(d) >= 1
  PROVE  /\ c \in Inum /\ c \in e.ibm \ d.ibm /\ e.ibm = d.ibm \cup {c}
         /\ FreeCount(d) \in Nat /\ FreeCount(e) = FreeCount(d) - 1
<1> DEFINE S == Inum \ d.ibm
<1>1. IsFiniteSet(S) /\ Cardinality(S) \in Nat
  <2>1. IsFiniteSet(0 .. INODE_COUNT - 1)
    BY InodeTableAssumption, FS_Interval
  <2>2. S \in SUBSET Inum
    OBVIOUS
  <2> QED
    BY <2>1, <2>2, FS_Subset, FS_CardinalityType DEF Inum
<1>2. c \in Num /\ c \notin d.ibm /\ d.ibm \subseteq e.ibm
      /\ (\A j \in e.ibm : j \in d.ibm \/ j = c)
      /\ (c \in e.ibm \/ (c = NoInode /\ Inum \subseteq e.ibm))
  BY DEF Taken
<1>3. c \in e.ibm
  <2> SUFFICES ASSUME c \notin e.ibm PROVE FALSE
    OBVIOUS
  <2>1. S = {}
    BY <1>2
  <2>2. Cardinality(S) = 0
    BY <2>1, FS_EmptySet
  <2> QED
    BY <2>2 DEF FreeCount
<1>4. c \in Inum /\ e.ibm = d.ibm \cup {c}
  BY <1>2, <1>3, TableParts
<1>5. Inum \ e.ibm = S \ {c} /\ c \in S
  BY <1>2, <1>4
<1> HIDE DEF S
<1>6. Cardinality(S \ {c}) = Cardinality(S) - 1
  BY <1>1, <1>5, FS_RemoveElement
<1> QED
  BY <1>1, <1>2, <1>3, <1>4, <1>5, <1>6 DEF FreeCount, S

-----------------------------------------------------------------------------
(* What a step leaves alone.                                               *)

\* Version r shows in e what it shows in d.
Steady(d, e, r) ==
    \A p \in Seq(Name) :
        LET i == Lookup(d, p, r)
        IN  Lookup(e, p, r) = i /\ (i >= 0 => i \in Inum /\ Shown(e.ino[i]) = Shown(d.ino[i]))

Treed(d, r) == \E V, D : D \in Depth /\ Tree(d, r, V, D)

(* A version whose inodes stay as they are is steady.                      *)
LEMMA SteadyIf ==
  ASSUME NEW d \in Table, NEW e, NEW r, NEW V, NEW D \in Depth, Tree(d, r, V, D),
         Same(d, e, V), \A i \in V : Shown(e.ino[i]) = Shown(d.ino[i])
  PROVE  Steady(d, e, r)
<1>1. V \subseteq Inum
  BY TableParts DEF Tree
<1> SUFFICES ASSUME NEW p \in Seq(Name)
             PROVE  LET i == Lookup(d, p, r)
                    IN  /\ Lookup(e, p, r) = i
                        /\ i >= 0 => i \in Inum /\ Shown(e.ino[i]) = Shown(d.ino[i])
  BY DEF Steady
<1> DEFINE i == Lookup(d, p, r)
<1>2. Lookup(e, p, r) = i
  BY TreeSameLookup
<1>3. i \in Int /\ (i < 0 \/ i \in V)
  BY TreeLookup
<1> HIDE DEF i
<1>4. i >= 0 => i \in V
  BY <1>3
<1> QED
  BY <1>1, <1>2, <1>4 DEF i

(* A step leaves every version alone that is one before and after it.      *)
LEMMA StepSteady ==
  ASSUME TypeOK, TypeOK', Collectable, Collectable', [Next]_vars,
         NEW r, Treed(fs, r), Treed(fs', r)
  PROVE  Steady(fs, fs', r)
<1>1. fs \in Table /\ fs' \in Table
  BY DEF TypeOK
<1>2. job.stage # "finish" /\ job'.call # "rename"
  BY DEF Collectable, Plain, Handlers, Copying, OnParent, OnPath
<1>3. CASE Untouched(fs, fs')
  <2>1. PICK V, D : D \in Depth /\ Tree(fs, r, V, D)
    BY DEF Treed
  <2>2. V \subseteq fs.ibm
    BY <2>1 DEF Tree
  <2>3. Same(fs, fs', V) /\ \A i \in V : Shown(fs'.ino[i]) = Shown(fs.ino[i])
    BY <1>3, <2>2 DEF Same, Untouched, Shown
  <2> QED
    BY <1>1, <2>1, <2>3, SteadyIf
<1>4. CASE FreeStep
  <2>1. PICK V, D : D \in Depth /\ Tree(fs', r, V, D)
    BY DEF Treed
  <2>2. V \subseteq fs'.ibm
    BY <2>1 DEF Tree
  <2>3. Same(fs', fs, V) /\ \A i \in V : Shown(fs.ino[i]) = Shown(fs'.ino[i])
    <3>1. CASE fs' = fs
      BY <2>2, <3>1 DEF Same
    <3>2. ASSUME NEW i \in Inum, fs' = free_inode(fs, i)
          PROVE  Same(fs', fs, V) /\ \A j \in V : Shown(fs.ino[j]) = Shown(fs'.ino[j])
      <4>1. fs'.ibm = fs.ibm \ {i} /\ \A j \in Num \ {i} : fs'.ino[j] = fs.ino[j]
        BY <1>1, <3>2, FreeOthers
      <4>2. V \subseteq fs.ibm /\ V \subseteq Num \ {i}
        BY <1>1, <2>2, <4>1, TableParts DEF Num
      <4> QED
        BY <4>1, <4>2 DEF Same
    <3> QED
      BY <1>4, <3>1, <3>2, FreeStepFrees
  <2>4. Steady(fs', fs, r)
    BY <1>1, <2>1, <2>3, SteadyIf
  <2> QED
    BY <2>4 DEF Steady
<1> QED
  BY <1>2, <1>3, <1>4, StepKinds

(* A steady version keeps its names.                                       *)
LEMMA SteadyOneName ==
  ASSUME NEW d, NEW e, NEW r, Steady(d, e, r), OneName(d, r)
  PROVE  OneName(e, r)
<1>1. \A i \in Inum : i >= 0
  BY NumFacts
<1> SUFFICES ASSUME NEW p \in Seq(Name), NEW q \in Seq(Name), Lookup(e, p, r) = Lookup(e, q, r),
                    Lookup(e, p, r) \in Inum, e.ino[Lookup(e, p, r)].mode # "file"
             PROVE  p = q
  BY DEF OneName
<1> DEFINE i == Lookup(d, p, r)
<1>2. Lookup(e, p, r) = i /\ Lookup(d, q, r) = i /\ i \in Inum
  BY DEF Steady
<1>3. Shown(e.ino[i]) = Shown(d.ino[i])
  BY <1>1, <1>2 DEF Steady
<1>4. d.ino[i].mode # "file"
  BY <1>2, <1>3 DEF Shown
<1> QED
  BY <1>2, <1>4 DEF OneName

(* Two steady versions differ where they did.                              *)
LEMMA SteadyLocal ==
  ASSUME NEW d, NEW e, NEW r, NEW n, Steady(d, e, r), Steady(d, e, n), NEW p \in Path, NEW call,
         LocalTo(d, r, n, p, call)
  PROVE  LocalTo(e, r, n, p, call)
<1>1. \A u \in Path : Lookup(e, u, r) = Lookup(d, u, r) /\ Lookup(e, u, n) = Lookup(d, u, n)
  BY PathFacts DEF Steady
<1>2. \A u \in Path : /\ Lookup(d, u, r) >= 0 => Stat(e, u, r) = Stat(d, u, r)
                      /\ Lookup(d, u, n) >= 0 => Stat(e, u, n) = Stat(d, u, n)
  <2> TAKE u \in Path
  <2>1. u \in Seq(Name)
    BY PathFacts
  <2>2. ASSUME NEW v, Steady(d, e, v), Lookup(d, u, v) >= 0
        PROVE  Stat(e, u, v) = Stat(d, u, v)
    <3>1. /\ Lookup(e, u, v) = Lookup(d, u, v)
          /\ Shown(e.ino[Lookup(d, u, v)]) = Shown(d.ino[Lookup(d, u, v)])
      BY <2>1, <2>2 DEF Steady
    <3> QED
      BY <3>1 DEF Stat, Shown
  <2> QED
    BY <2>2
<1> SUFFICES ASSUME NEW u \in Path \ {p}
             PROVE  LET was == Lookup(e, u, r)
                        is  == Lookup(e, u, n)
                    IN  \/ was < 0 /\ is < 0
                        \/ was < 0 /\ call = "link" /\ is = Lookup(e, p, r)
                        \/ was >= 0 /\ was = Lookup(e, p, r)
                        \/ was >= 0 /\ is >= 0 /\ Stat(e, u, n) = Stat(e, u, r)
  BY DEF LocalTo
<1>3. LET was == Lookup(d, u, r)
          is  == Lookup(d, u, n)
      IN  \/ was < 0 /\ is < 0
          \/ was < 0 /\ call = "link" /\ is = Lookup(d, p, r)
          \/ was >= 0 /\ was = Lookup(d, p, r)
          \/ was >= 0 /\ is >= 0 /\ Stat(d, u, n) = Stat(d, u, r)
  BY DEF LocalTo
<1> QED
  BY <1>1, <1>2, <1>3

\* TreeOf in a table.
TreeIn(d, r) ==
    {[names |-> {p \in Path : Lookup(d, p, r) = i},
      mode  |-> d.ino[i].mode,
      data  |-> d.ino[i].data] : i \in Reach(d, r)}

(* A steady version is the same tree.                                      *)
LEMMA SteadyTree ==
  ASSUME NEW d, NEW e, NEW r, Steady(d, e, r)
  PROVE  TreeIn(e, r) = TreeIn(d, r)
<1>1. \A p \in Path : Lookup(e, p, r) = Lookup(d, p, r)
  BY PathFacts DEF Steady
<1>2. Present(e, r) = Present(d, r)
  BY <1>1 DEF Present
<1>3. Reach(e, r) = Reach(d, r)
  BY <1>1, <1>2 DEF Reach, Present
<1>4. \A i : {p \in Path : Lookup(e, p, r) = i} = {p \in Path : Lookup(d, p, r) = i}
  BY <1>1
<1>5. \A i \in Reach(d, r) : e.ino[i].mode = d.ino[i].mode /\ e.ino[i].data = d.ino[i].data
  <2> TAKE i \in Reach(d, r)
  <2>1. PICK p \in Path : Lookup(d, p, r) = i /\ i >= 0
    BY DEF Reach, Present
  <2>2. Shown(e.ino[i]) = Shown(d.ino[i])
    BY <2>1, PathFacts DEF Steady
  <2> QED
    BY <2>2 DEF Shown
<1> QED
  BY <1>3, <1>4, <1>5 DEF TreeIn

-----------------------------------------------------------------------------
(* The invariant of a history in which no alloc_inode fails.               *)

\* No request starts with fewer free inodes than it copies.
Roomy == Spare \in Nat /\ \A q \in Calls : Len(q.path) < Spare

\* A file has no entries, and entries hold numbers.
Good(n) ==
    /\ n.mode = "file" => n.ent = <<>>
    /\ \A k \in DOMAIN n.ent : n.ent[k].inum >= 0

Flat == \A i \in fs.ibm : Good(fs.ino[i])

\* Request q has come so far: f are its copies, and x its new entries.
Come(f, x, q) ==
    LET r == rl[0].rnum
    IN  /\ q.call = job.call /\ q.path = job.path /\ IsPrefixOf(job.left, Named(q))
        /\ job.old = Lookup(fs, job.left, r) /\ job.old \in Inum
        /\ job.new = f[job.old]
        /\ Changed(fs, r, f, x, q, Len(job.left))

\* A climb has made what its request asks for, as far as it has come, and
\* there is room for the directories that are left.
Advanced ==
    job.stage = "climb" => /\ FreeCount(fs) >= Len(job.left)
                           /\ \E f, x : \E q \in Calls : Come(f, x, q)

\* The version on its way into slot 0 differs from the one there only where
\* its request says.
Entering ==
    ph \in {"gc", "shift", "rnum"} =>
        /\ OneName(fs, entry.rnum)
        /\ LocalTo(fs, rl[0].rnum, entry.rnum, job.path, job.call)

Mirrored == Flat /\ OneName(fs, rl[0].rnum) /\ Advanced /\ Entering

(* Inodes that were there stay good, and new ones are.                     *)
LEMMA FlatGrow ==
  ASSUME Flat, Untouched(fs, fs'), \A j \in fs'.ibm \ fs.ibm : Good(fs'.ino[j])
  PROVE  Flat'
<1> SUFFICES ASSUME NEW j \in fs'.ibm PROVE Good(fs'.ino[j])
  BY DEF Flat
<1>1. CASE j \in fs.ibm
  <2>1. fs'.ino[j].mode = fs.ino[j].mode /\ fs'.ino[j].ent = fs.ino[j].ent /\ Good(fs.ino[j])
    BY <1>1 DEF Untouched, Flat
  <2> QED
    BY <2>1 DEF Good
<1> QED
  BY <1>1

\* Request q has come to its climb: it has copied z, at the end of its way,
\* to c, with the entries x more.
Began(q, z, c, x) ==
    /\ UNCHANGED list /\ Untouched(fs, fs') /\ Flat'
    /\ z \in Inum /\ z = Lookup(fs, Named(q), rl[0].rnum)
    /\ c \in fs'.ibm \ fs.ibm /\ x \in Seq(ddirent)
    /\ fs'.ino[c].ent = fs.ino[z].ent \o x
    /\ Effect(fs', rl[0].rnum, [i \in Inum |-> IF i = z THEN c ELSE i], x, q)
    /\ FreeCount(fs') >= Len(Named(q))
    /\ job'.stage = "climb" /\ job'.call = q.call /\ job'.path = q.path
    /\ job'.left = Named(q) /\ job'.old = z /\ job'.new = c

\* Of the version at the head, outside the push.
HeadTree(V, D) ==
    /\ D \in Depth /\ V \subseteq fs.ibm /\ Tree(fs, rl[0].rnum, V, D)

(* The version at the head is a tree.                                      *)
LEMMA HeadTreed ==
  ASSUME TypeOK, Collectable
  PROVE  \E V, D : HeadTree(V, D)
<1>1. PICK D \in Depth, V \in Sets : Trees(D, V)
  BY DEF Collectable, Safe
<1>2. Tree(fs, rl[0].rnum, V[0], D)
  BY <1>1, SlotFacts DEF Trees, Live
<1> QED
  BY <1>2 DEF HeadTree, Tree

(* Entries of a flat tree are numbers.                                     *)
LEMMA FlatEnts ==
  ASSUME Flat, NEW V, V \subseteq fs.ibm
  PROVE  \A i \in V : \A y \in Ents(fs, i) : y >= 0
<1> SUFFICES ASSUME NEW i \in V, NEW y \in Ents(fs, i) PROVE y >= 0
  OBVIOUS
<1>1. Good(fs.ino[i])
  BY DEF Flat
<1> QED
  BY <1>1 DEF Good, Ents

(* What a request has begun is mirrored.                                   *)
LEMMA BeganMirrors ==
  ASSUME PlainHistory, TypeOK, TypeOK', Collectable, Mirrored, ph = "idle",
         NEW q \in Calls, NEW z, NEW c, NEW x, Began(q, z, c, x)
  PROVE  Mirrored'
<1>1. PICK V, D : HeadTree(V, D)
  BY HeadTreed
<1>2. /\ fs \in Table /\ fs' \in Table /\ D \in Depth /\ V \subseteq fs.ibm
      /\ UNCHANGED <<rl, ph, entry>> /\ UNCHANGED list /\ Named(q) \in Seq(Name)
  BY <1>1, RequestPath DEF HeadTree, TypeOK, Began, list
<1>3. PICK r : r = rl[0].rnum
  OBVIOUS
<1>4. Tree(fs, r, V, D) /\ rl'[0].rnum = r
  BY <1>1, <1>2, <1>3 DEF HeadTree
<1>5. Steady(fs, fs', r)
  <2>1. Same(fs, fs', V) /\ \A i \in V : Shown(fs'.ino[i]) = Shown(fs.ino[i])
    BY <1>2 DEF Same, Untouched, Shown, Began
  <2> QED
    BY <1>2, <1>4, <2>1, SteadyIf
<1>6. OneName(fs', r)
  <2>1. OneName(fs, r)
    BY <1>3 DEF Mirrored
  <2> QED
    BY <1>5, <2>1, SteadyOneName
<1>7. PICK f : f = [i \in Inum |-> IF i = z THEN c ELSE i]
  OBVIOUS
<1>8. Changed(fs', r, f, x, q, Len(Named(q)))
  <2>1. \A i \in V : \A y \in Ents(fs, i) : y >= 0
    BY <1>2, FlatEnts DEF Mirrored
  <2>2. /\ z \in Inum /\ z = Lookup(fs, Named(q), r) /\ c \in fs'.ibm \ fs.ibm
        /\ x \in Seq(ddirent) /\ fs'.ino[c].ent = fs.ino[z].ent \o x
        /\ Effect(fs', r, f, x, q) /\ Untouched(fs, fs')
    BY <1>3, <1>7 DEF Began
  <2> QED
    BY ZenonT(60), <1>2, <1>4, <1>7, <2>1, <2>2, ChangedFirst
<1>9. Advanced'
  <2>1. /\ FreeCount(fs') >= Len(job'.left)
        /\ q.call = job'.call /\ q.path = job'.path /\ job'.left = Named(q)
        /\ job'.old = z /\ job'.new = c /\ z \in Inum
    BY DEF Began
  <2>2. IsPrefixOf(job'.left, Named(q))
    BY <1>2, <2>1, PrefixFacts
  <2>3. Lookup(fs', job'.left, r) = z
    <3>1. z = Lookup(fs, Named(q), r)
      BY <1>3 DEF Began
    <3> QED
      BY <1>2, <1>5, <2>1, <3>1 DEF Steady
  <2>4. job'.new = f[job'.old]
    BY <1>7, <2>1
  <2> QED
    BY <1>4, <1>8, <2>1, <2>2, <2>3, <2>4 DEF Advanced, Come
<1>10. Entering'
  BY <1>2 DEF Entering
<1>11. Flat'
  BY DEF Began
<1> QED
  BY <1>4, <1>6, <1>9, <1>10, <1>11 DEF Mirrored

(* A copy of an inode of the current version, taken while there is room.   *)
LEMMA CopyRoom ==
  ASSUME PlainHistory, Roomy, TypeOK, Collectable, Serving, NEW q \in Calls,
         NEW i \in Inum
  PROVE  LET c == NextFree(fs)
             d == copy_inode(fs, i)
         IN  /\ d \in Table /\ c \in Inum /\ c \in d.ibm \ fs.ibm /\ d.ibm = fs.ibm \cup {c}
             /\ d.ino[c] = fs.ino[i] /\ \A j \in Num \ {c} : d.ino[j] = fs.ino[j]
             /\ FreeCount(d) \in Nat /\ FreeCount(d) >= Len(q.path) /\ Len(q.path) \in Nat
<1> DEFINE c == NextFree(fs)
           d == copy_inode(fs, i)
<1>1. fs \in Table /\ i \in Num /\ q.path \in Seq(Name) /\ ph = "idle"
  BY RequestPath DEF TypeOK, Serving, Num
<1>2. FreeCount(fs) >= Spare /\ Spare \in Nat /\ Len(q.path) \in Nat /\ Len(q.path) < Spare
  BY <1>1 DEF Serving, FreeCount, Roomy
<1>3. /\ d \in Table /\ Taken(fs, d, c)
      /\ d.ino[c] = fs.ino[i] /\ \A j \in Num \ {c} : d.ino[j] = fs.ino[j]
  BY <1>1, CopyTaken
<1> HIDE DEF c, d
<1> DEFINE a == FreeCount(fs)
           b == FreeCount(d)
<1>4. a \in Int
  <2>1. IsFiniteSet(Inum)
    BY InodeTableAssumption, FS_Interval DEF Inum
  <2> DEFINE S == Inum \ fs.ibm
  <2>2. S \in SUBSET Inum
    OBVIOUS
  <2> HIDE DEF S
  <2>3. Cardinality(S) \in Nat
    BY <2>1, <2>2, FS_Subset, FS_CardinalityType
  <2> QED
    BY <2>3 DEF S, FreeCount
<1>5. a >= 1
  <2> HIDE DEF a
  <2> QED
    BY <1>2, <1>4 DEF a
<1>6. /\ c \in Inum /\ c \in d.ibm \ fs.ibm /\ d.ibm = fs.ibm \cup {c}
      /\ a \in Nat /\ b = a - 1
  BY <1>1, <1>3, <1>5, RoomTaken
<1>7. a >= Spare
  BY <1>2
<1> HIDE DEF a, b
<1>8. b \in Nat /\ b >= Len(q.path)
  BY <1>2, <1>5, <1>6, <1>7
<1> QED
  BY <1>2, <1>3, <1>6, <1>8 DEF b, c, d

(* A request that changes a copy of its inode begins.                      *)
LEMMA FileBegan ==
  ASSUME PlainHistory, Roomy, TypeOK, TypeOK', Collectable, Flat, Serving, NEW q \in Calls,
         \/ q.call = "write" /\ Write(q)
         \/ q.call = "truncate" /\ Truncate(q)
         \/ q.call = "chmod" /\ Chmod(q)
  PROVE  \E z, c, x : Began(q, z, c, x)
<1> DEFINE i == tree_lookup(q.path)
           c == NextFree(fs)
           d == copy_inode(fs, i)
           e == fs'
<1>0. /\ fs \in Table /\ e \in Table /\ q.path \in Path /\ Named(q) = q.path
      /\ ph = "idle" /\ q.path \in Seq(Name)
  BY RequestPath DEF TypeOK, Serving, OnParent
<1>1. i \in Inum /\ i \in Num /\ i = Lookup(fs, q.path, rl[0].rnum) /\ inum_field(i) = i
  BY InumNum DEF Write, Truncate, Chmod, IsFile, Exists, Lookup, tree_lookup,
     RL!get_current_root
<1>2. /\ d \in Table /\ c \in Inum /\ c \in d.ibm \ fs.ibm /\ d.ibm = fs.ibm \cup {c}
      /\ d.ino[c] = fs.ino[i] /\ \A j \in Num \ {c} : d.ino[j] = fs.ino[j]
      /\ FreeCount(d) \in Nat /\ FreeCount(d) >= Len(q.path) /\ Len(q.path) \in Nat
  BY <1>1, CopyRoom
<1>3. Untouched(fs, e)
  BY <1>0, WriteStarts, TruncateStarts, ChmodStarts, StartsUntouched
<1>4. i \in fs.ibm /\ fs.ino[i].mode # "none"
  BY <1>0, <1>1, FoundTaken
<1>5. /\ UNCHANGED list
      /\ job' = [call |-> q.call, stage |-> "climb", path |-> q.path,
                 left |-> q.path, old |-> i, new |-> c, gc |-> NoPath]
  <2>1. inum_field(c) = c
    BY <1>2, InumNum
  <2> QED
    BY <1>1, <2>1 DEF Write, Truncate, Chmod, Update
<1> DEFINE o == fs.ino[i]
           wr == Written(d.ino[c].data, q.off, q.bytes)
           tr == [k \in 1 .. q.size |-> IF k <= Len(d.ino[c].data) THEN d.ino[c].data[k] ELSE 0]
<1>6. /\ e.ibm = d.ibm /\ e.ino[c].ent = o.ent
      /\ \/ q.call = "write" /\ e.ino[c].mode = o.mode /\ e.ino[c].data = wr
         \/ q.call = "truncate" /\ e.ino[c].mode = o.mode /\ e.ino[c].data = tr
         \/ /\ q.call = "chmod" /\ e.ino[c].mode = q.mode /\ e.ino[c].data = o.data
            /\ OwnType(q)
  <2>1. \/ q.call = "write" /\ fs' = [d EXCEPT !.ino[c].data = wr]
        \/ q.call = "truncate" /\ fs' = [d EXCEPT !.ino[c].data = tr]
        \/ q.call = "chmod" /\ fs' = [d EXCEPT !.ino[c].mode = q.mode] /\ OwnType(q)
    BY DEF Write, Truncate, Chmod, Update
  <2>2. d.ino \in [Num -> inode] /\ c \in Num
    BY <1>2, TableParts DEF Num
  <2> HIDE DEF wr, tr, c, d, i, o
  <2>3. d.ino[c] = o
    BY <1>2 DEF o
  <2>4. d \in Table
    BY <1>2
  <2>5. ASSUME NEW y, fs' = [d EXCEPT !.ino[c].data = y]
        PROVE  /\ fs'.ibm = d.ibm /\ fs'.ino[c].ent = o.ent /\ fs'.ino[c].mode = o.mode
               /\ fs'.ino[c].data = y
    BY <2>2, <2>3, <2>4, <2>5 DEF Table, inode
  <2>6. ASSUME NEW y, fs' = [d EXCEPT !.ino[c].mode = y]
        PROVE  /\ fs'.ibm = d.ibm /\ fs'.ino[c].ent = o.ent /\ fs'.ino[c].mode = y
               /\ fs'.ino[c].data = o.data
    BY <2>2, <2>3, <2>4, <2>6 DEF Table, inode
  <2> QED
    BY <2>1, <2>5, <2>6
<1>7. q.call = "chmod" => (q.mode = "file" <=> o.mode = "file")
  <2> SUFFICES ASSUME q.call = "chmod" PROVE q.mode = "file" <=> o.mode = "file"
    OBVIOUS
  <2>1. OwnType(q)
    BY <1>6
  <2>2. q.mode \in Mode /\ q.mode # "none"
    BY StorageAssumption DEF PlainHistory
  <2>3. o.mode \in Mode /\ o.mode # "none"
    BY <1>0, <1>1, <1>4, InodeParts
  <2>4. IsDir(q.path) <=> o.mode \in {"dir", "odd"}
    BY <1>1 DEF IsDir, Exists, inode_is_dir
  <2> HIDE DEF o
  <2> QED
    BY <2>1, <2>2, <2>3, <2>4 DEF OwnType, Mode
<1> HIDE DEF c, d, i, e
<1>8. c # i /\ e.ino[i].mode = o.mode /\ e.ino[i].data = o.data
  BY <1>2, <1>3, <1>4 DEF Untouched
<1>9. Flat'
  <2>1. Good(o)
    BY <1>4 DEF Flat
  <2>2. (e.ino[c].mode = "file" <=> o.mode = "file") /\ e.ino[c].ent = o.ent
    BY <1>6, <1>7
  <2> HIDE DEF o
  <2>3. Good(e.ino[c])
    BY <2>1, <2>2 DEF Good
  <2>4. \A j \in fs'.ibm \ fs.ibm : Good(fs'.ino[j])
    BY <1>2, <1>6, <2>3 DEF e
  <2> QED
    BY <1>3, <2>4, FlatGrow DEF e
<1>10. Lookup(e, Named(q), rl[0].rnum) = i
  <2>1. PICK V, D : HeadTree(V, D)
    BY HeadTreed
  <2>2. ReadsSame(fs, e, rl[0].rnum)
    <3>1. PICK r : r = rl[0].rnum
      OBVIOUS
    <3>2. Tree(fs, r, V, D) /\ D \in Depth
      BY <2>1, <3>1 DEF HeadTree
    <3> QED
      BY <1>0, <1>3, <3>1, <3>2, GrownLookup
  <2> QED
    BY <1>0, <1>1, <2>2 DEF ReadsSame
<1> DEFINE f == [k \in Inum |-> IF k = i THEN c ELSE k]
<1>11. f[i] = c
  BY <1>1
<1>12. Effect(e, rl[0].rnum, f, <<>>, q)
  <2> DEFINE n == e.ino[c]
             o1 == e.ino[i]
  <2>0. o1.mode = o.mode /\ o1.data = o.data /\ d.ino[c].data = o.data
    BY <1>2, <1>8
  <2> HIDE DEF f, n, o1, o
  <2>1. CASE q.call = "write" /\ n.mode = o1.mode /\ n.data = Written(o1.data, q.off, q.bytes)
    BY <1>1, <1>10, <1>11, <2>1 DEF Effect, n, o1
  <2>2. CASE /\ q.call = "truncate" /\ n.mode = o1.mode
             /\ n.data = [k \in 1 .. q.size |-> IF k <= Len(o1.data) THEN o1.data[k] ELSE 0]
    BY <1>1, <1>10, <1>11, <2>2 DEF Effect, n, o1
  <2>3. CASE /\ q.call = "chmod" /\ n.data = o1.data
             /\ n.mode = q.mode /\ (q.mode = "file" <=> o1.mode = "file")
    BY <1>1, <1>10, <1>11, <2>3 DEF Effect, n, o1
  <2> QED
    BY <1>6, <1>7, <2>0, <2>1, <2>2, <2>3 DEF n
<1>13. e.ino[c].ent = fs.ino[i].ent \o <<>>
  <2>1. fs.ino[i].ent \in Seq(ddirent)
    BY <1>0, <1>1, InodeParts
  <2>2. e.ino[c].ent = fs.ino[i].ent
    BY <1>6
  <2> QED
    BY <2>1, <2>2
<1>14. FreeCount(e) >= Len(Named(q))
  BY <1>0, <1>2, <1>6 DEF FreeCount
<1>15. Began(q, i, c, <<>>)
  <2>1. /\ job'.stage = "climb" /\ job'.call = q.call /\ job'.path = q.path
        /\ job'.left = Named(q) /\ job'.old = i /\ job'.new = c
    BY <1>0, <1>5
  <2>2. c \in e.ibm \ fs.ibm /\ <<>> \in Seq(ddirent)
    BY <1>2, <1>6
  <2>3. i \in Inum /\ i = Lookup(fs, Named(q), rl[0].rnum)
    BY <1>0, <1>1
  <2>4. UNCHANGED list
    BY <1>5
  <2> QED
    BY <1>3, <1>9, <1>12, <1>13, <1>14, <2>1, <2>2, <2>3, <2>4 DEF Began, e
<1> QED
  BY <1>15

(* The inode mknod makes is an empty one, and holds no bytes.              *)
LEMMA ChildEmpty ==
  ASSUME NEW d \in Table, NEW mode \in Mode, NextFree(d) \in Inum
  PROVE  LET h == Child(d, mode)
             n == NextFree(d)
         IN  h.ino[n].data = <<>> /\ h.ino[n].ent = <<>> /\ h.ino[n].mode = mode
<1> DEFINE n == NextFree(d)
           a == alloc_inode(d)
           h == Child(d, mode)
<1>1. Inum \ d.ibm # {}
  BY NumFacts DEF NextFree
<1>2. a.ino = [d.ino EXCEPT ![n] = Emptied(d.ino[n])]
  BY <1>1 DEF alloc_inode
<1>3. a \in Table /\ n \in Num
  BY AllocType DEF Num
<1>4. h = [a EXCEPT !.ino[n].mode = mode, !.ino[n].refs = 1]
  BY DEF Child
<1> HIDE DEF n, h
<1>5. a.ino[n].data = <<>> /\ a.ino[n].ent = <<>>
  <2>1. a.ino[n] = Emptied(d.ino[n]) /\ d.ino[n] \in inode
    BY <1>2, <1>3, TableParts
  <2> QED
    BY <2>1 DEF Emptied, inode
<1> HIDE DEF a
<1>6. /\ h.ino[n].data = a.ino[n].data /\ h.ino[n].ent = a.ino[n].ent
      /\ h.ino[n].mode = mode
  BY <1>3, <1>4 DEF Table, inode, Num
<1> QED
  BY <1>5, <1>6 DEF h, n

(* directory_put adds one entry behind the others and changes nothing else *)
(* that a reader sees.                                                     *)
LEMMA PutShown ==
  ASSUME NEW d \in Table, NEW c \in Num, NEW name \in Name, NEW n \in Num
  PROVE  LET e == directory_put(d, c, name, n)
         IN  /\ \A j \in Num : Shown(e.ino[j]) = Shown(d.ino[j])
             /\ e.ino[c].ent = d.ino[c].ent \o <<[name |-> name, inum |-> n]>>
<1> DEFINE e   == directory_put(d, c, name, n)
           was == d.ino[c].ent
           rec == [name |-> name, inum |-> n]
           en  == was \o <<rec>>
<1>1. d.ino \in [Num -> inode] /\ was \in Seq(ddirent) /\ rec \in ddirent
  <2>1. n \in Int
    BY NumFacts DEF Num, NoInode
  <2> QED
    BY <2>1, InodeParts, TableParts DEF ddirent
<1>2. Append(was, rec) = en
  <2> HIDE DEF was, rec
  <2> QED
    BY <1>1
<1>3. e = [d EXCEPT !.ino[n].refs = d.ino[n].refs + 1, !.ino[c].ent = Append(was, rec)]
  BY <1>1, TableParts DEF directory_put, inode
<1> HIDE DEF en, e
<1>4. PICK f : f = [d.ino EXCEPT ![n].refs = d.ino[n].refs + 1]
  OBVIOUS
<1>5. DOMAIN f = Num /\ \A j \in Num : /\ f[j].mode = d.ino[j].mode /\ f[j].ts = d.ino[j].ts
                                       /\ f[j].data = d.ino[j].data
                                       /\ DOMAIN f[j] = {"refs", "mode", "ts", "data", "ent"}
  BY <1>1, <1>4 DEF inode
<1>6. e.ino = [f EXCEPT ![c].ent = en]
  BY <1>2, <1>3, <1>4 DEF Table
<1>7. e.ino[c] = [f[c] EXCEPT !.ent = en] /\ \A j \in Num \ {c} : e.ino[j] = f[j]
  BY <1>5, <1>6
<1>8. e.ino[c].ent = en /\ e.ino[c].mode = f[c].mode /\ e.ino[c].ts = f[c].ts
      /\ e.ino[c].data = f[c].data
  BY <1>5, <1>7
<1>9. \A j \in Num : Shown(e.ino[j]) = Shown(d.ino[j])
  BY <1>5, <1>7, <1>8 DEF Shown
<1> QED
  BY <1>8, <1>9 DEF e, en

(* Entries that are good stay good when one more is put behind them.       *)
LEMMA GoodPut ==
  ASSUME NEW n \in inode, NEW m, Good(n), NEW name \in Name, NEW y \in Inum, NEW x,
         x = <<[name |-> name, inum |-> y]>>, m.mode # "file", m.ent = n.ent \o x
  PROVE  Good(m) /\ x \in Seq(ddirent)
<1> DEFINE en == n.ent
           em == m.ent
<1>1. y \in Nat
  BY NumFacts
<1>2. x \in Seq(ddirent) /\ Len(x) = 1 /\ x[1].inum = y
  BY <1>1 DEF ddirent
<1>3. en \in Seq(ddirent) /\ em = en \o x /\ \A k \in DOMAIN en : en[k].inum >= 0
  BY DEF Good, inode
<1> HIDE DEF en, em
<1>4. /\ en \o x \in Seq(ddirent) /\ Len(en \o x) = Len(en) + Len(x)
      /\ \A k \in 1 .. Len(en) + Len(x) :
            (en \o x)[k] = IF k <= Len(en) THEN en[k] ELSE x[k - Len(en)]
  BY <1>2, <1>3, ConcatProperties
<1>5. Len(en) \in Nat /\ DOMAIN en = 1 .. Len(en) /\ DOMAIN em = 1 .. Len(en) + 1
  BY <1>2, <1>3, <1>4
<1>6. \A k \in 1 .. Len(en) + 1 : em[k] = IF k <= Len(en) THEN en[k] ELSE x[k - Len(en)]
  BY <1>2, <1>3, <1>4
<1>7. \A k \in DOMAIN em : em[k].inum >= 0
  <2> TAKE k \in DOMAIN em
  <2>1. CASE k <= Len(en)
    <3>1. em[k] = en[k] /\ k \in DOMAIN en
      BY <1>5, <1>6, <2>1
    <3> QED
      BY <1>3, <3>1
  <2>2. CASE ~(k <= Len(en))
    <3>1. k - Len(en) = 1
      BY <1>5, <2>2
    <3>2. em[k] = x[1]
      BY <1>5, <1>6, <2>2, <3>1
    <3> QED
      BY <1>1, <1>2, <3>2
  <2> QED
    BY <2>1, <2>2
<1> QED
  BY <1>2, <1>7 DEF Good, em

(* A path the kernel has not found leads nowhere in what it grows to.      *)
LEMMA AbsentOn ==
  ASSUME TypeOK, NEW V, NEW D, HeadTree(V, D), NEW p \in Path, ~Exists(p),
         NEW e, ReadsSame(fs, e, rl[0].rnum)
  PROVE  Lookup(e, p, rl[0].rnum) < 0
<1> DEFINE r == rl[0].rnum
           g == Lookup(fs, p, r)
<1>1. p \in Seq(Name) /\ fs \in Table /\ V \subseteq fs.ibm /\ D \in Depth /\ Tree(fs, r, V, D)
  BY StorageAssumption DEF TypeOK, HeadTree
<1>2. g < 0 \/ g \in V
  <2> HIDE DEF r
  <2> QED
    BY <1>1, TreeLookup
<1>3. g \notin Inum
  BY DEF Exists, Lookup, tree_lookup, RL!get_current_root
<1>4. g < 0
  <2> HIDE DEF g
  <2> QED
    BY <1>1, <1>2, <1>3, TableParts
<1>5. Lookup(e, p, r) = g
  BY <1>1 DEF ReadsSame
<1> HIDE DEF g
<1> QED
  BY <1>4, <1>5

(* mknod begins.                                                           *)
LEMMA MknodBegan ==
  ASSUME PlainHistory, Roomy, TypeOK, TypeOK', Collectable, Flat, Serving, NEW q \in Calls,
         q.call = "mknod", Mknod(q)
  PROVE  \E z, c, x : Began(q, z, c, x)
<1> DEFINE z == tree_lookup_stop_early(q.path)
           c == NextFree(fs)
           d == copy_inode(fs, z)
           n == NextFree(d)
           h == Child(d, q.mode)
           name == basename(q.path)
           e == fs'
           t == Named(q)
           x == <<[name |-> name, inum |-> n]>>
           r == rl[0].rnum
<1>0. /\ fs \in Table /\ e \in Table /\ q.path \in Path /\ t = dirname(q.path) /\ t \in Path
      /\ ph = "idle" /\ q.path \in Seq(Name) /\ q.path # <<>> /\ name \in Name
      /\ q.mode \in Mode /\ q.mode # "none"
  BY RequestPath, StorageAssumption DEF TypeOK, Serving, OnParent, PlainHistory
<1>1. /\ z \in Inum /\ z \in Num /\ z = tree_lookup(t) /\ inum_field(z) = z
      /\ d.ino[c].mode = "dir" /\ ~Exists(q.path)
  BY <1>0, InumNum DEF Mknod, CanCreate, IsDir, Exists, tree_lookup_stop_early
<1>2. z \in fs.ibm /\ z = Lookup(fs, t, rl[0].rnum)
  BY <1>0, <1>1, FoundTaken
<1>3. /\ d \in Table /\ c \in Inum /\ c \in d.ibm \ fs.ibm /\ d.ibm = fs.ibm \cup {c}
      /\ d.ino[c] = fs.ino[z] /\ \A j \in Num \ {c} : d.ino[j] = fs.ino[j]
      /\ FreeCount(d) \in Nat /\ FreeCount(d) >= Len(q.path) /\ Len(q.path) \in Nat
  BY <1>1, CopyRoom
<1>4. Len(q.path) >= 1 /\ Len(t) = Len(q.path) - 1
  <2>1. t = SubSeq(q.path, 1, Len(q.path) - 1)
    BY <1>0 DEF dirname, Root
  <2> QED
    BY <1>0, <2>1, ParentPath
<1>5. Untouched(fs, fs')
  BY <1>0, MknodStarts, StartsUntouched
<1>6. /\ UNCHANGED list /\ fs' = directory_put(h, c, name, n)
      /\ job'.stage = "climb" /\ job'.call = q.call /\ job'.path = q.path
      /\ job'.left = t /\ job'.old = z /\ job'.new = c
  <2>1. inum_field(c) = c
    BY <1>3, InumNum
  <2> QED
    BY <1>0, <1>1, <2>1 DEF Mknod, Update
<1> HIDE DEF z, c, d, name, t
<1>7. /\ h \in Table /\ Taken(d, h, n) /\ \A j \in Num \ {n} : h.ino[j] = d.ino[j]
  BY <1>0, <1>3, ChildTaken
<1>8. /\ n \in Inum /\ n \in h.ibm \ d.ibm /\ h.ibm = d.ibm \cup {n}
      /\ FreeCount(h) >= Len(t)
  <2> DEFINE b == FreeCount(d)
             b1 == FreeCount(h)
  <2>1. b >= 1 /\ b \in Nat
    <3>1. b \in Nat /\ b >= Len(q.path)
      BY <1>3
    <3> HIDE DEF b
    <3> QED
      BY <1>3, <1>4, <3>1
  <2>2. n \in Inum /\ n \in h.ibm \ d.ibm /\ h.ibm = d.ibm \cup {n} /\ b1 = b - 1
    BY <1>3, <1>7, <2>1, RoomTaken
  <2>3. b >= Len(q.path)
    BY <1>3
  <2> HIDE DEF b, n, h
  <2>4. b1 >= Len(t)
    <3> HIDE DEF b1
    <3> QED
      BY <1>3, <1>4, <2>1, <2>2, <2>3
  <2> QED
    BY <2>2, <2>4
<1>9. h.ino[n].data = <<>> /\ h.ino[n].ent = <<>> /\ h.ino[n].mode = q.mode
  BY <1>0, <1>3, <1>8, ChildEmpty
<1> HIDE DEF n, h
<1>10. n \in Num /\ c \in Num /\ n # c /\ n # z /\ c # z
  BY <1>2, <1>3, <1>8 DEF Num
<1>11. /\ e.ibm = h.ibm
       /\ \A j \in Num : Shown(e.ino[j]) = Shown(h.ino[j])
       /\ \A j \in Num \ {c} : e.ino[j].ent = h.ino[j].ent
       /\ e.ino[c].ent = h.ino[c].ent \o x
  <2>1. PICK k : k = directory_put(h, c, name, n)
    OBVIOUS
  <2>2. k.ibm = h.ibm /\ \A j \in Num \ {c} : k.ino[j].ent = h.ino[j].ent
    <3>1. h \in Table /\ c \in Num /\ name \in Name /\ n \in Num
      BY <1>0, <1>7, <1>10
    <3> QED
      BY <2>1, <3>1, PutEnts
  <2>3. /\ \A j \in Num : Shown(k.ino[j]) = Shown(h.ino[j])
        /\ k.ino[c].ent = h.ino[c].ent \o x
    <3>1. h \in Table /\ c \in Num /\ name \in Name /\ n \in Num
      BY <1>0, <1>7, <1>10
    <3> QED
      BY <2>1, <3>1, PutShown
  <2>4. e = k
    BY <1>6, <2>1
  <2> QED
    BY <2>2, <2>3, <2>4
<1> HIDE DEF e
<1>12. /\ e.ino[c].ent = fs.ino[z].ent \o x /\ Shown(e.ino[c]) = Shown(fs.ino[z])
       /\ Shown(e.ino[z]) = Shown(fs.ino[z]) /\ fs.ino[z].mode = "dir"
       /\ e.ino[n].ent = <<>> /\ e.ino[n].mode = q.mode /\ e.ino[n].data = <<>>
  <2>1. h.ino[c] = fs.ino[z] /\ h.ino[z] = fs.ino[z]
    BY <1>1, <1>3, <1>7, <1>10
  <2>2. fs.ino[z].mode = "dir"
    BY <1>1, <1>3
  <2>3. Shown(e.ino[n]) = Shown(h.ino[n])
    BY <1>10, <1>11
  <2>4. e.ino[n].mode = h.ino[n].mode /\ e.ino[n].data = h.ino[n].data
    BY <2>3 DEF Shown
  <2> QED
    BY <1>1, <1>9, <1>10, <1>11, <2>1, <2>2, <2>4
<1>13. x \in Seq(ddirent) /\ n >= 0
  <2>1. n \in Nat
    BY <1>8, NumFacts
  <2> QED
    BY <1>0, <2>1 DEF ddirent
<1>14. Flat'
  <2>1. Good(e.ino[n])
    BY <1>12 DEF Good
  <2>2. Good(e.ino[c])
    <3>1. Good(fs.ino[z]) /\ fs.ino[z] \in inode
      BY <1>0, <1>1, <1>2, InodeParts, TableParts DEF Flat
    <3>2. e.ino[c].mode # "file"
      BY <1>12 DEF Shown
    <3>3. x = <<[name |-> name, inum |-> n]>> /\ e.ino[c].ent = fs.ino[z].ent \o x
      BY <1>12
    <3> HIDE DEF x
    <3> QED
      BY <1>0, <1>8, <3>1, <3>2, <3>3, GoodPut
  <2>3. \A j \in fs'.ibm \ fs.ibm : Good(fs'.ino[j])
    BY <1>3, <1>8, <1>11, <2>1, <2>2 DEF e
  <2> QED
    BY <1>5, <2>3, FlatGrow DEF e
<1>15. PICK V, D : HeadTree(V, D)
  BY HeadTreed
<1>16. /\ Tree(fs, r, V, D) /\ D \in Depth /\ V \subseteq fs.ibm
  BY <1>15 DEF HeadTree
<1>17. ReadsSame(fs, e, r)
  <2> HIDE DEF r
  <2> QED
    BY <1>0, <1>5, <1>16, GrownLookup DEF e
<1>18. Lookup(e, t, r) = z
  BY <1>0, <1>2, <1>17, PathFacts DEF ReadsSame
<1>19. Lookup(e, q.path, r) < 0
  BY <1>0, <1>1, <1>15, <1>17, AbsentOn
<1>20. Apart(e, r, n)
  <2> SUFFICES ASSUME NEW w \in Seq(Name), Lookup(e, w, r) = n PROVE FALSE
    BY DEF Apart
  <2>1. Lookup(fs, w, r) = n
    BY <1>17 DEF ReadsSame
  <2>2. n < 0 \/ n \in V
    <3> HIDE DEF r
    <3> QED
      BY <1>0, <1>16, <2>1, TreeLookup
  <2>3. n \in Nat /\ n \notin fs.ibm
    BY <1>3, <1>8, NumFacts
  <2> QED
    BY <1>16, <2>2, <2>3
<1> DEFINE f == [i \in Inum |-> IF i = z THEN c ELSE i]
<1>21. f[z] = c /\ \A i \in Inum \ {n} : f[i] # n
  BY <1>1, <1>10
<1>22. Effect(e, r, f, x, q)
  <2>1. Ents(e, n) = {} /\ n \in e.ibm
    BY <1>8, <1>11, <1>12 DEF Ents
  <2>2. e.ino[z].mode = "dir"
    BY <1>12 DEF Shown
  <2>3. x = <<[name |-> basename(q.path), inum |-> n]>>
    BY DEF name
  <2>4. Lookup(e, Named(q), r) = z /\ q.call = "mknod"
    BY <1>18 DEF t
  <2>5. Shown(e.ino[c]) = Shown(e.ino[z])
    BY <1>12
  <2> HIDE DEF f, x, r
  <2> QED
    BY <1>1, <1>12, <1>19, <1>20, <1>21, <2>1, <2>2, <2>3, <2>4, <2>5 DEF Effect
<1>23. Began(q, z, c, x)
  <2>1. FreeCount(e) >= Len(t)
    BY <1>8, <1>11 DEF FreeCount
  <2>2. c \in e.ibm \ fs.ibm
    BY <1>3, <1>8, <1>11
  <2> QED
    BY <1>1, <1>2, <1>5, <1>6, <1>12, <1>13, <1>14, <1>22, <2>1, <2>2 DEF Began, e, t
<1> QED
  BY <1>23

(* A link begins.                                                          *)
LEMMA LinkBegan ==
  ASSUME PlainHistory, Roomy, TypeOK, TypeOK', Collectable, Flat, Serving, NEW q \in Calls,
         q.call = "link", Link(q)
  PROVE  \E z, c, x : Began(q, z, c, x)
<1> DEFINE z == tree_lookup_stop_early(q.to)
           from == tree_lookup(q.path)
           c == NextFree(fs)
           d == copy_inode(fs, z)
           name == basename(q.to)
           e == fs'
           t == Named(q)
           x == <<[name |-> name, inum |-> from]>>
           r == rl[0].rnum
<1>0. /\ fs \in Table /\ e \in Table /\ q.to \in Path /\ t = dirname(q.to) /\ t \in Path
      /\ t = dirname(q.path)
      /\ ph = "idle" /\ q.path \in Seq(Name) /\ q.path \in Path /\ name \in Name
  BY RequestPath DEF TypeOK, Serving, OnParent
<1>1. /\ z \in Inum /\ z \in Num /\ z = tree_lookup(t) /\ ~Exists(q.to)
      /\ from \in Inum /\ from \in Num /\ fs.ino[from].mode = "file"
      /\ inode_is_dir(fs.ino[z])
  BY <1>0, InumNum DEF Link, IsFile, CanCreate, IsDir, Exists, tree_lookup_stop_early
<1>2. /\ z \in fs.ibm /\ z = Lookup(fs, t, r)
      /\ from \in fs.ibm /\ from = Lookup(fs, q.path, r)
  BY <1>0, <1>1, FoundTaken
<1>3. /\ d \in Table /\ c \in Inum /\ c \in d.ibm \ fs.ibm /\ d.ibm = fs.ibm \cup {c}
      /\ d.ino[c] = fs.ino[z] /\ \A j \in Num \ {c} : d.ino[j] = fs.ino[j]
      /\ FreeCount(d) \in Nat /\ FreeCount(d) >= Len(q.path) /\ Len(q.path) \in Nat
  BY <1>1, CopyRoom
<1>4. FreeCount(d) >= Len(t)
  <2>1. q.path = <<>> \/ Len(dirname(q.path)) = Len(q.path) - 1
    <3> SUFFICES ASSUME q.path # <<>> PROVE Len(dirname(q.path)) = Len(q.path) - 1
      OBVIOUS
    <3>1. dirname(q.path) = SubSeq(q.path, 1, Len(q.path) - 1)
      BY DEF dirname, Root
    <3> QED
      BY <1>0, <3>1, ParentPath
  <2>2. q.path = <<>> => dirname(q.path) = q.path
    BY DEF dirname, Root
  <2>3. Len(t) <= Len(q.path) /\ Len(t) \in Nat
    BY <1>0, <1>3, <2>1, <2>2
  <2> DEFINE b == FreeCount(d)
             l == Len(t)
             k == Len(q.path)
  <2>4. b \in Nat /\ b >= k /\ k \in Nat /\ l <= k /\ l \in Nat
    BY <1>3, <2>3
  <2> HIDE DEF b, l, k
  <2>5. b >= l
    BY <2>4
  <2> QED
    BY <2>5 DEF b, l
<1>5. Untouched(fs, fs')
  BY <1>0, LinkStarts, StartsUntouched
<1> DEFINE m == directory_put(d, c, name, from)
           y == m.ino[from].refs + 1
<1>6. /\ UNCHANGED list /\ fs' = [m EXCEPT !.ino[from].refs = y]
      /\ job'.stage = "climb" /\ job'.call = q.call /\ job'.path = q.path
      /\ job'.left = t /\ job'.old = z /\ job'.new = c
  <2>1. inum_field(c) = c
    BY <1>3, InumNum
  <2> QED
    BY <1>0, <1>1, <2>1 DEF Link, Update
<1> HIDE DEF z, c, d, name, t, from
<1>7. c \in Num /\ c # z /\ c # from
  BY <1>2, <1>3 DEF Num
<1>8. /\ m \in Table /\ m.ibm = d.ibm
      /\ \A j \in Num \ {c} : m.ino[j].ent = d.ino[j].ent
      /\ \A j \in Num : Shown(m.ino[j]) = Shown(d.ino[j])
      /\ m.ino[c].ent = d.ino[c].ent \o x
  <2>1. d \in Table /\ c \in Num /\ name \in Name /\ from \in Num
    BY <1>0, <1>1, <1>3, <1>7
  <2> HIDE DEF x
  <2>2. m \in Table /\ m.ibm = d.ibm /\ \A j \in Num \ {c} : m.ino[j].ent = d.ino[j].ent
    BY <2>1, PutEnts
  <2>3. /\ \A j \in Num : Shown(m.ino[j]) = Shown(d.ino[j])
        /\ m.ino[c].ent = d.ino[c].ent \o x
    BY <2>1, PutShown DEF x
  <2> QED
    BY <2>2, <2>3
<1> HIDE DEF m, y
<1>9. e.ibm = m.ibm /\ \A j \in Num : Shown(e.ino[j]) = Shown(m.ino[j]) /\ e.ino[j].ent = m.ino[j].ent
  <2>1. m.ino \in [Num -> inode] /\ m \in Table
    BY <1>8, TableParts
  <2>2. e.ibm = m.ibm /\ e.ino = [m.ino EXCEPT ![from].refs = y]
    BY <1>6, <2>1 DEF Table
  <2>3. \A j \in Num : /\ e.ino[j].mode = m.ino[j].mode /\ e.ino[j].ts = m.ino[j].ts
                       /\ e.ino[j].data = m.ino[j].data /\ e.ino[j].ent = m.ino[j].ent
    BY <2>1, <2>2 DEF inode
  <2> QED
    BY <2>2, <2>3 DEF Shown
<1> HIDE DEF e
<1>10. /\ e.ibm = fs.ibm \cup {c} /\ e.ino[c].ent = fs.ino[z].ent \o x
       /\ Shown(e.ino[c]) = Shown(fs.ino[z]) /\ Shown(e.ino[z]) = Shown(fs.ino[z])
       /\ e.ino[from].ent = fs.ino[from].ent /\ Shown(e.ino[from]) = Shown(fs.ino[from])
  BY <1>1, <1>3, <1>7, <1>8, <1>9
<1>11. fs.ino[z].mode # "file" /\ fs.ino[from].ent = <<>>
  BY <1>1, <1>2 DEF inode_is_dir, Flat, Good
<1>12. Good(e.ino[c]) /\ x \in Seq(ddirent)
  <2>1. Good(fs.ino[z]) /\ fs.ino[z] \in inode
    BY <1>0, <1>1, <1>2, InodeParts, TableParts DEF Flat
  <2>2. e.ino[c].mode # "file"
    BY <1>10, <1>11 DEF Shown
  <2>3. x = <<[name |-> name, inum |-> from]>> /\ e.ino[c].ent = fs.ino[z].ent \o x
    BY <1>10
  <2> HIDE DEF x
  <2> QED
    BY <1>0, <1>1, <2>1, <2>2, <2>3, GoodPut
<1>13. Flat'
  <2>1. \A j \in fs'.ibm \ fs.ibm : Good(fs'.ino[j])
    BY <1>10, <1>12 DEF e
  <2> QED
    BY <1>5, <2>1, FlatGrow
<1>14. PICK V, D : HeadTree(V, D)
  BY HeadTreed
<1>15. ReadsSame(fs, e, r)
  <2>1. /\ Tree(fs, r, V, D) /\ D \in Depth /\ V \subseteq fs.ibm
    BY <1>14 DEF HeadTree
  <2> HIDE DEF r
  <2> QED
    BY <1>0, <1>5, <2>1, GrownLookup DEF e
<1>16. Lookup(e, t, r) = z /\ Lookup(e, q.path, r) = from
  BY <1>0, <1>2, <1>15, PathFacts DEF ReadsSame
<1>17. Lookup(e, q.to, r) < 0
  BY <1>0, <1>1, <1>14, <1>15, AbsentOn
<1> DEFINE f == [i \in Inum |-> IF i = z THEN c ELSE i]
<1>18. f[z] = c
  BY <1>1
<1>19. Effect(e, r, f, x, q)
  <2>1. Ents(e, from) = {}
    BY <1>10, <1>11 DEF Ents
  <2>2. e.ino[z].mode # "file" /\ e.ino[from].mode = "file"
    BY <1>1, <1>10, <1>11 DEF Shown
  <2>3. x = <<[name |-> basename(q.to), inum |-> from]>>
    BY DEF name
  <2>4. Lookup(e, Named(q), r) = z /\ q.call = "link"
    BY <1>16 DEF t
  <2>5. Shown(e.ino[c]) = Shown(e.ino[z])
    BY <1>10
  <2> HIDE DEF f, x, r
  <2> QED
    BY <1>1, <1>16, <1>17, <1>18, <2>1, <2>2, <2>3, <2>4, <2>5 DEF Effect
<1>20. Began(q, z, c, x)
  <2>1. FreeCount(e) >= Len(t)
    BY <1>3, <1>4, <1>10 DEF FreeCount
  <2>2. c \in e.ibm \ fs.ibm
    BY <1>3, <1>10
  <2> QED
    BY <1>1, <1>2, <1>5, <1>6, <1>10, <1>12, <1>13, <1>19, <2>1, <2>2 DEF Began, e, t
<1> QED
  BY <1>20

-----------------------------------------------------------------------------
(* The invariant goes on to hold.                                          *)

(* Every version in the list is a tree, but one that is being collected,   *)
(* and so is the one on its way into slot 0.                               *)
LEMMA ListTreed ==
  ASSUME TypeOK, Collectable
  PROVE  /\ \A s \in RL!Slot : Live(s) => Treed(fs, rl[s].rnum)
         /\ Treed(fs, rl[0].rnum)
         /\ ph \in {"gc", "shift", "rnum"} => Treed(fs, entry.rnum)
<1>1. PICK D \in Depth, V \in Sets, P \in SUBSET Inum : Safe(D, V, P)
  BY DEF Collectable
<1>2. \A s \in RL!Slot : Live(s) => Tree(fs, rl[s].rnum, V[s], D)
  BY <1>1 DEF Safe, Trees
<1>3. ph \in {"gc", "shift", "rnum"} => Tree(fs, entry.rnum, P, D)
  BY <1>1 DEF Safe, Pending
<1>4. 0 \in RL!Slot /\ Live(0)
  BY SlotFacts DEF Live
<1> QED
  BY <1>2, <1>3, <1>4 DEF Treed

(* After a step they are still.                                            *)
LEMMA ListTreedNext ==
  ASSUME TypeOK', Collectable'
  PROVE  /\ \A s \in RL!Slot : Live(s)' => Treed(fs', rl'[s].rnum)
         /\ Treed(fs', rl'[0].rnum)
         /\ ph' \in {"gc", "shift", "rnum"} => Treed(fs', entry'.rnum)
<1>1. PICK D \in Depth, V \in Sets, P \in SUBSET Inum : Safe(D, V, P)'
  BY DEF Collectable
<1>2. \A s \in RL!Slot : Live(s)' => Tree(fs', rl'[s].rnum, V[s], D)
  BY <1>1 DEF Safe, Trees
<1>3. ph' \in {"gc", "shift", "rnum"} => Tree(fs', entry'.rnum, P, D)
  BY <1>1 DEF Safe, Pending
<1>4. 0 \in RL!Slot /\ Live(0)'
  BY SlotFacts DEF Live
<1> QED
  BY <1>2, <1>3, <1>4 DEF Treed

(* A step that goes on with no climb and installs no root.                 *)
LEMMA MirroredStill ==
  ASSUME TypeOK, TypeOK', Collectable, Collectable', Mirrored, [Next]_vars,
         rl'[0].rnum = rl[0].rnum, Flat', job'.stage # "climb",
         ph' \in {"gc", "shift", "rnum"} =>
             /\ ph \in {"gc", "shift", "rnum"} /\ entry' = entry
             /\ job'.path = job.path /\ job'.call = job.call
  PROVE  Mirrored'
<1>1. PICK r : r = rl[0].rnum
  OBVIOUS
<1>2. Steady(fs, fs', r)
  <2>1. Treed(fs, r) /\ Treed(fs', r)
    BY <1>1, ListTreed, ListTreedNext
  <2> QED
    BY <2>1, StepSteady
<1>3. OneName(fs', rl'[0].rnum)
  <2>1. OneName(fs, r)
    BY <1>1 DEF Mirrored
  <2>2. OneName(fs', r)
    BY <1>2, <2>1, SteadyOneName
  <2> QED
    BY <1>1, <2>2
<1>4. Entering'
  <2> SUFFICES ASSUME ph' \in {"gc", "shift", "rnum"}
               PROVE  /\ OneName(fs', entry'.rnum)
                      /\ LocalTo(fs', rl'[0].rnum, entry'.rnum, job'.path, job'.call)
    BY DEF Entering
  <2>1. PICK n : n = entry.rnum
    OBVIOUS
  <2>2. OneName(fs, n) /\ LocalTo(fs, r, n, job.path, job.call) /\ job.path \in Path
    BY <1>1, <2>1 DEF Mirrored, Entering, TypeOK
  <2>3. Steady(fs, fs', n)
    <3>1. Treed(fs, n) /\ Treed(fs', n)
      BY <2>1, ListTreed, ListTreedNext
    <3> QED
      BY <3>1, StepSteady
  <2>4. OneName(fs', n)
    BY <2>2, <2>3, SteadyOneName
  <2>5. LocalTo(fs', r, n, job.path, job.call)
    BY <1>2, <2>2, <2>3, SteadyLocal
  <2> QED
    BY <1>1, <2>1, <2>4, <2>5
<1>5. Advanced'
  BY DEF Advanced
<1> QED
  BY <1>3, <1>4, <1>5 DEF Mirrored

(* mknod in a directory of another mode copies it and ends.                *)
LEMMA MirroredAborts ==
  ASSUME PlainHistory, Roomy, TypeOK, TypeOK', Collectable, Collectable', Mirrored, [Next]_vars,
         Serving, NEW q \in Calls, MknodAborts(q)
  PROVE  Mirrored'
<1> DEFINE z == tree_lookup_stop_early(q.path)
           c == NextFree(fs)
           d == copy_inode(fs, z)
<1>1. z \in Inum /\ fs' = d /\ ph' = "off" /\ rl' = rl /\ job' = job /\ job.stage = "serve"
  BY DEF MknodAborts, CanCreate, IsDir, Exists, tree_lookup_stop_early, Serving
<1>2. z \in fs.ibm
  BY <1>1, FoundTaken, RequestPath, PathFacts DEF Serving, tree_lookup_stop_early
<1>3. /\ d \in Table /\ c \in Inum /\ c \in d.ibm \ fs.ibm /\ d.ibm = fs.ibm \cup {c}
      /\ d.ino[c] = fs.ino[z] /\ \A j \in Num \ {c} : d.ino[j] = fs.ino[j]
  BY <1>1, CopyRoom
<1> HIDE DEF z, c, d
<1>4. Flat'
  <2>1. fs.ibm \subseteq Num \ {c} /\ Flat
    BY <1>3, TableParts DEF TypeOK, Num, Mirrored
  <2>2. \A j \in fs'.ibm : Good(fs'.ino[j])
    BY <1>1, <1>2, <1>3, <2>1 DEF Flat
  <2> QED
    BY <2>2 DEF Flat
<1> QED
  BY <1>1, <1>4, MirroredStill

(* A request leaves it true.                                               *)
LEMMA MirroredRequest ==
  ASSUME PlainHistory, Roomy, TypeOK, TypeOK', Collectable, Collectable', Mirrored, [Next]_vars,
         Request
  PROVE  Mirrored'
<1>1. PICK q \in Calls : Handle(q)
  BY DEF Request
<1>2. Serving /\ ph = "idle" /\ Flat
  BY DEF Request, Serving, Mirrored
<1>3. q.call \in Copying
  BY DEF PlainHistory
<1>4. CASE MknodAborts(q)
  BY <1>2, <1>4, MirroredAborts
<1>5. CASE \E z, c, x : Began(q, z, c, x)
  BY <1>2, <1>5, BeganMirrors
<1> QED
  BY <1>1, <1>2, <1>3, <1>4, <1>5, FileBegan, MknodBegan, LinkBegan
     DEF Handle, Copying, OnParent, OnPath

(* replace_in_entries renumbers the entries of one directory.              *)
LEMMA ReplaceRenumbers ==
  ASSUME NEW d \in Table, NEW c \in Num, NEW old \in Inum, NEW new \in Inum,
         \A y \in Ents(d, c) : y \in Inum, NEW g, g = [k \in Inum |-> IF k = old THEN new ELSE k]
  PROVE  LET e == replace_in_entries(d, c, old, new)
         IN  /\ Renumbered(g, d.ino[c].ent, e.ino[c].ent, <<>>)
             /\ Shown(e.ino[c]) = Shown(d.ino[c])
             /\ \A k \in DOMAIN e.ino[c].ent : e.ino[c].ent[k].inum >= 0
<1> DEFINE e   == replace_in_entries(d, c, old, new)
           was == d.ino[c].ent
           en  == [k \in DOMAIN was |->
                     IF was[k].inum = old THEN [was[k] EXCEPT !.inum = new] ELSE was[k]]
<1>1. d.ino \in [Num -> inode] /\ was \in Seq(ddirent)
  BY InodeParts, TableParts
<1>2. e = [d EXCEPT !.ino[c].ent = en]
  BY <1>1, TableParts DEF replace_in_entries, inode
<1>3. /\ DOMAIN was = 1 .. Len(was) /\ Len(was) \in Nat
      /\ \A k \in DOMAIN was : was[k] \in ddirent /\ was[k].inum \in Inum
  <2>1. \A k \in DOMAIN was : was[k].inum \in Ents(d, c)
    BY DEF Ents
  <2> HIDE DEF was
  <2> QED
    BY <1>1, <2>1
<1> HIDE DEF was
<1>4. en \in Seq(ddirent) /\ Len(en) = Len(was)
  <2>1. \A k \in 1 .. Len(was) : en[k] \in ddirent
    <3> TAKE k \in 1 .. Len(was)
    <3>1. was[k] \in ddirent /\ new \in Int
      BY <1>3, NumFacts
    <3> QED
      BY <1>3, <3>1 DEF ddirent
  <2>2. DOMAIN en = 1 .. Len(was)
    BY <1>3
  <2>3. en = [k \in 1 .. Len(was) |-> en[k]]
    BY <1>3
  <2> HIDE DEF en
  <2> QED
    BY <1>3, <2>1, <2>2, <2>3
<1>5. \A k \in 1 .. Len(was) : /\ en[k].name = was[k].name /\ en[k].inum = g[was[k].inum]
                               /\ en[k].inum \in Inum
  <2> TAKE k \in 1 .. Len(was)
  <2>1. was[k] \in ddirent /\ was[k].inum \in Inum /\ k \in DOMAIN was
    BY <1>3
  <2> QED
    BY <2>1 DEF ddirent
<1> HIDE DEF en, e
<1>6. e.ino[c].ent = en /\ Shown(e.ino[c]) = Shown(d.ino[c])
  BY <1>1, <1>2 DEF Table, inode, Num, Shown
<1>7. Renumbered(g, was, en, <<>>)
  <2>1. Len(<<>>) = 0
    OBVIOUS
  <2> QED
    BY <1>3, <1>4, <1>5, <2>1 DEF Renumbered
<1>8. \A k \in DOMAIN en : en[k].inum >= 0
  <2>1. DOMAIN en = 1 .. Len(was)
    BY <1>4
  <2> QED
    BY <1>5, <2>1, NumFacts
<1> QED
  BY <1>6, <1>7, <1>8 DEF e, was

\* The climb of q went up one directory: c is the copy of dir.
WentUp(f, x, q, dir, c) ==
    LET r == rl[0].rnum
        u == dirname(job.left)
    IN  /\ UNCHANGED list /\ Untouched(fs, fs') /\ Steady(fs, fs', r)
        /\ dir \in Inum /\ dir = Lookup(fs, u, r) /\ fs.ino[dir].mode = "dir"
        /\ c \in Inum /\ c \notin fs.ibm /\ fs'.ibm = fs.ibm \cup {c}
        /\ \A j \in fs.ibm : fs'.ino[j] = fs.ino[j]
        /\ fs'.ino[c].mode = "dir" /\ Good(fs'.ino[c])
        /\ FreeCount(fs') >= Len(u) /\ Len(u) = Len(job.left) - 1
        /\ job' = [job EXCEPT !.left = u, !.old = dir, !.new = c]
        /\ Come(f, x, q)'

(* One directory of a climb: its copy leads to the copy below.             *)
LEMMA ClimbCopies ==
  ASSUME PlainHistory, TypeOK, TypeOK', Collectable, Mirrored, Climb,
         ~(tree_lookup_stop_early(job.left) < 0),
         NEW f, NEW x, NEW q \in Calls, Come(f, x, q)
  PROVE  \E dir, c : WentUp([f EXCEPT ![dir] = c], x, q, dir, c)
<1> DEFINE dir == tree_lookup_stop_early(job.left)
           c == NextFree(fs)
           d == copy_inode(fs, dir)
           p == job.left
           u == dirname(p)
           r == rl[0].rnum
<1>0. /\ fs \in Table /\ fs' \in Table /\ job \in Jobs /\ Flat
      /\ ph = "idle" /\ job.stage = "climb" /\ p # Root /\ p # <<>> /\ p \in Path /\ p \in Seq(Name)
      /\ u \in Path /\ u \in Seq(Name) /\ u = SubSeq(p, 1, Len(p) - 1)
      /\ UNCHANGED <<rl, ph, ii, entry>> /\ job.call # "set"
  <2>1. job \in Jobs /\ job.left \in Path
    BY JobParts
  <2> QED
    BY <2>1, PathFacts
       DEF Climb, Climbing, TypeOK, Collectable, Plain, Handlers, list, Copying, OnPath, OnParent,
           Mirrored, Root, dirname
<1>1. /\ dir \in Inum /\ dir \in Num /\ inum_field(dir) = dir /\ fs.ino[dir].mode = "dir"
      /\ fs' = replace_in_entries(d, c, job.old, job.new)
      /\ job' = [job EXCEPT !.left = u, !.old = dir, !.new = inum_field(c)]
  BY InumNum DEF Climb, CowDir, StepUp
<1>2. dir \in fs.ibm /\ dir = Lookup(fs, u, r)
  BY <1>0, <1>1, FoundTaken, PathFacts DEF tree_lookup_stop_early
<1>3. /\ d \in Table /\ Taken(fs, d, c)
      /\ d.ino[c] = fs.ino[dir] /\ \A j \in Num \ {c} : d.ino[j] = fs.ino[j]
  BY <1>0, <1>1, CopyTaken
<1> HIDE DEF d, c, dir, r, u
<1>4. /\ q.call = job.call /\ q.path = job.path /\ IsPrefixOf(p, Named(q))
      /\ job.old = Lookup(fs, p, r) /\ job.old \in Inum
      /\ job.new = f[job.old]
      /\ Changed(fs, r, f, x, q, Len(p))
  BY DEF Come, r
<1>5. /\ c \in Inum /\ c \in d.ibm \ fs.ibm /\ d.ibm = fs.ibm \cup {c}
      /\ FreeCount(d) >= Len(u)
  <2> DEFINE b == FreeCount(fs)
             b1 == FreeCount(d)
  <2>1. b >= Len(p)
    BY <1>0 DEF Mirrored, Advanced
  <2>2. Len(p) \in Nat \ {0} /\ Len(u) = Len(p) - 1
    BY <1>0, ParentPath
  <2>3. b \in Nat
    <3>1. Inum \ fs.ibm \in SUBSET Inum /\ IsFiniteSet(Inum)
      BY FS_Interval, InodeTableAssumption DEF Inum
    <3> QED
      BY <3>1, FS_Subset, FS_CardinalityType DEF FreeCount
  <2>4. b >= 1
    <3> HIDE DEF b, p
    <3> QED
      BY <2>1, <2>2, <2>3
  <2>5. c \in Inum /\ c \in d.ibm \ fs.ibm /\ d.ibm = fs.ibm \cup {c} /\ b1 = b - 1
    BY <1>0, <1>3, <2>4, RoomTaken
  <2> HIDE DEF b, b1, p
  <2>6. b1 >= Len(u)
    BY <2>1, <2>2, <2>3, <2>5
  <2> QED
    BY <2>5, <2>6 DEF b1
<1>6. PICK V, D : HeadTree(V, D)
  BY HeadTreed
<1>7. /\ D \in Depth /\ V \subseteq fs.ibm /\ Tree(fs, r, V, D)
      /\ \A i \in V : \A y \in Ents(fs, i) : y >= 0
  BY <1>0, <1>6, FlatEnts DEF HeadTree, r
<1>8. dir \in V
  <2>1. dir < 0 \/ dir \in V
    BY <1>0, <1>2, <1>7, TreeLookup
  <2> QED
    BY <1>1, <2>1, NumFacts
<1>9. c \in Num /\ fs.ibm \subseteq Num \ {c}
  BY <1>0, <1>5, TableParts DEF Num
<1>10. \A y \in Ents(d, c) : y \in Inum
  <2>1. Ents(d, c) = Ents(fs, dir)
    BY <1>3 DEF Ents
  <2>2. \A y \in Ents(fs, dir) : y \in Int
    <3>1. fs.ino[dir].ent \in Seq(ddirent)
      BY <1>0, <1>1, InodeParts
    <3>2. \A k \in DOMAIN fs.ino[dir].ent : fs.ino[dir].ent[k] \in ddirent
      BY <3>1
    <3> QED
      BY <3>2 DEF Ents, ddirent
  <2>3. \A y \in Ents(fs, dir) : y >= 0 /\ (y < 0 \/ y \in V)
    BY <1>7, <1>8 DEF Tree
  <2>4. \A y \in Ents(fs, dir) : y \in V
    BY <2>2, <2>3
  <2>5. V \subseteq Inum
    BY <1>0, <1>7, TableParts
  <2> QED
    BY <2>1, <2>4, <2>5
<1>11. job.new \in Inum
  BY JobParts DEF Jobs
<1>12. PICK g : g = [k \in Inum |-> IF k = job.old THEN job.new ELSE k]
  OBVIOUS
<1>13. /\ Renumbered(g, fs.ino[dir].ent, fs'.ino[c].ent, <<>>)
       /\ Shown(fs'.ino[c]) = Shown(fs.ino[dir])
       /\ \A k \in DOMAIN fs'.ino[c].ent : fs'.ino[c].ent[k].inum >= 0
  <2>1. PICK e, o, n : e = replace_in_entries(d, c, o, n) /\ o = job.old /\ n = job.new
    OBVIOUS
  <2>2. /\ d \in Table /\ c \in Num /\ o \in Inum /\ n \in Inum
        /\ \A y \in Ents(d, c) : y \in Inum
        /\ g = [k \in Inum |-> IF k = o THEN n ELSE k]
    BY <1>3, <1>4, <1>9, <1>10, <1>11, <1>12, <2>1
  <2>3. /\ Renumbered(g, d.ino[c].ent, e.ino[c].ent, <<>>)
        /\ Shown(e.ino[c]) = Shown(d.ino[c])
        /\ \A k \in DOMAIN e.ino[c].ent : e.ino[c].ent[k].inum >= 0
    BY <2>1, <2>2, ReplaceRenumbers
  <2>4. fs' = e /\ d.ino[c] = fs.ino[dir]
    BY <1>1, <1>3, <2>1
  <2> QED
    BY <2>3, <2>4
<1>14. fs'.ibm = d.ibm
  BY <1>1, <1>3, <1>9, <1>11, NumFacts, ReplaceEnts
<1>15. Untouched(fs, fs')
  <2>1. Untouched(fs, d)
    BY <1>0, <1>1, CopyType DEF d
  <2>2. job.new \in Int /\ c \notin fs.ibm
    <3>1. job.new \in Int
      BY JobParts
    <3>2. c \notin fs.ibm
      BY <1>5
    <3> QED
      BY <3>1, <3>2
  <2>3. Untouched(fs, replace_in_entries(d, c, job.old, job.new))
    BY <1>0, <1>3, <1>9, <2>1, <2>2, ReplaceUntouched
  <2> QED
    BY <1>1, <2>3
<1>16. Good(fs'.ino[c]) /\ fs'.ino[c].mode = "dir"
  <2>1. fs'.ino[c].mode = "dir"
    BY <1>1, <1>13 DEF Shown
  <2> QED
    BY <1>13, <2>1 DEF Good
<1>17. Steady(fs, fs', r)
  <2>1. Same(fs, fs', V) /\ \A i \in V : Shown(fs'.ino[i]) = Shown(fs.ino[i])
    BY <1>7, <1>15 DEF Same, Untouched, Shown
  <2> QED
    BY <1>0, <1>7, <2>1, SteadyIf
<1>18. \A j \in fs.ibm : fs'.ino[j] = fs.ino[j]
  <2>1. PICK y : fs' = [d EXCEPT !.ino[c].ent = y]
    BY <1>1 DEF replace_in_entries
  <2>2. \A j \in Num \ {c} : fs'.ino[j] = d.ino[j]
    BY <1>3, <1>9, <2>1 DEF Table
  <2> QED
    BY <1>3, <1>9, <2>2
<1>19. g = Alone(f, job.old)
  BY <1>4, <1>12 DEF Alone
<1>20. PICK h : h = [f EXCEPT ![dir] = c]
  OBVIOUS
<1>21. Changed(fs', r, h, x, q, Len(p) - 1)
  <2>1. Renumbered(Alone(f, job.old), fs.ino[dir].ent, fs'.ino[c].ent, <<>>)
    BY <1>13, <1>19
  <2>2. dir = Lookup(fs, SubSeq(p, 1, Len(p) - 1), r) /\ c \in fs'.ibm \ fs.ibm
    BY <1>0, <1>2, <1>5, <1>14
  <2> HIDE DEF p
  <2> QED
    BY <1>0, <1>1, <1>4, <1>7, <1>13, <1>15, <1>20, <2>1, <2>2, ChangedOn
<1>22. Come(h, x, q)'
  <2>1. /\ job'.left = u /\ job'.old = dir /\ job'.new = c
        /\ job'.call = job.call /\ job'.path = job.path
    <3>1. inum_field(c) = c
      BY <1>5, InumNum
    <3> QED
      BY <1>0, <1>1, <3>1 DEF Jobs
  <2>3. Len(u) = Len(p) - 1
    BY <1>0, ParentPath
  <2>4. IsPrefixOf(u, Named(q))
    <3>1. Named(q) \in Seq(Name)
      BY <1>4, RequestPath
    <3> QED
      BY <1>0, <1>4, <3>1, PrefixFacts
  <2>5. Lookup(fs', u, r) = dir
    BY <1>0, <1>2, <1>17 DEF Steady
  <2>6. h[dir] = c
    <3>1. f \in [Inum -> Inum]
      BY <1>4 DEF Changed, Copied
    <3> QED
      BY <1>1, <1>20, <3>1
  <2>7. rl'[0].rnum = r
    BY <1>0 DEF r
  <2> HIDE DEF p
  <2>8. Changed(fs', r, h, x, q, Len(u))
    BY <1>21, <2>3
  <2> QED
    BY <1>1, <1>4, <2>1, <2>4, <2>5, <2>6, <2>7, <2>8 DEF Come
<1>23. FreeCount(fs') >= Len(u) /\ Len(u) = Len(p) - 1
  BY <1>0, <1>5, <1>14, ParentPath DEF FreeCount
<1>24. job' = [job EXCEPT !.left = u, !.old = dir, !.new = c] /\ UNCHANGED list
  <2>1. inum_field(c) = c
    BY <1>5, InumNum
  <2> QED
    BY <1>1, <2>1 DEF Climb
<1>25. c \notin fs.ibm /\ fs'.ibm = fs.ibm \cup {c}
  BY <1>5, <1>14
<1> QED
  BY <1>1, <1>2, <1>5, <1>15, <1>16, <1>17, <1>18, <1>20, <1>22, <1>23, <1>24, <1>25
     DEF WentUp, r, u

(* One directory of a climb leaves it true.                                *)
LEMMA MirroredClimb ==
  ASSUME PlainHistory, TypeOK, TypeOK', Collectable, Collectable', Mirrored, [Next]_vars, Climb
  PROVE  Mirrored'
<1>0. ph = "idle" /\ job.stage = "climb" /\ rl' = rl /\ ph' = ph /\ job \in Jobs /\ job.call # "set"
  BY JobParts DEF Climb, Climbing, list, Collectable, Plain, Handlers, Copying, OnPath, OnParent
<1>1. CASE tree_lookup_stop_early(job.left) < 0
  <2>1. fs' = fs /\ job' = NoJob
    BY <1>0, <1>1 DEF Climb, GivenUp
  <2>2. Flat' /\ job'.stage # "climb"
    BY <2>1 DEF Mirrored, Flat, NoJob
  <2> QED
    BY <1>0, <2>2, MirroredStill
<1>2. CASE ~(tree_lookup_stop_early(job.left) < 0)
  <2>1. PICK f, x, q : q \in Calls /\ Come(f, x, q)
    BY <1>0 DEF Mirrored, Advanced
  <2>2. PICK dir, c : WentUp([f EXCEPT ![dir] = c], x, q, dir, c)
    BY <1>2, <2>1, ClimbCopies
  <2>3. Flat'
    BY <2>2, FlatGrow DEF Mirrored, WentUp
  <2>4. OneName(fs, rl[0].rnum)'
    BY <1>0, <2>2, SteadyOneName DEF Mirrored, WentUp
  <2>5. Advanced'
    <3>1. job'.left = dirname(job.left)
      BY <1>0, <2>2 DEF WentUp, Jobs
    <3> QED
      BY <2>1, <2>2, <3>1 DEF WentUp, Advanced
  <2>6. Entering'
    BY <1>0 DEF Entering
  <2> QED
    BY <2>3, <2>4, <2>5, <2>6 DEF Mirrored
<1> QED
  BY <1>1, <1>2

(* The directory whose assertion ends a climb stays copied.                *)
LEMMA MirroredClimbAborts ==
  ASSUME PlainHistory, TypeOK, TypeOK', Collectable, Collectable', Mirrored, [Next]_vars,
         ClimbAborts
  PROVE  Mirrored'
<1> DEFINE z == tree_lookup_stop_early(job.left)
           c == NextFree(fs)
           d == copy_inode(fs, z)
<1>1. /\ z \in Inum /\ fs' = d /\ ph = "idle" /\ ph' = "off" /\ rl' = rl /\ job' = NoJob
      /\ fs \in Table /\ Flat
  BY DEF ClimbAborts, Climbing, TypeOK, Mirrored
<1>2. z \in fs.ibm
  BY <1>1, FoundTaken, JobParts, PathFacts DEF tree_lookup_stop_early
<1>3. /\ d \in Table /\ Taken(fs, d, c)
      /\ d.ino[c] = fs.ino[z] /\ \A j \in Num \ {c} : d.ino[j] = fs.ino[j]
  BY <1>1, CopyTaken DEF Num
<1> HIDE DEF z, c, d
<1>4. Flat'
  <2>1. fs.ibm \subseteq Num \ {c} /\ \A j \in d.ibm : j \in fs.ibm \/ j = c
    BY <1>1, <1>3, TableParts DEF Num, Taken
  <2>2. \A j \in fs'.ibm : Good(fs'.ino[j])
    BY <1>1, <1>2, <1>3, <2>1 DEF Flat
  <2> QED
    BY <2>2 DEF Flat
<1>5. job'.stage # "climb"
  BY <1>1 DEF NoJob
<1> QED
  BY <1>1, <1>4, <1>5, MirroredStill

(* A climb that has come to the root has made a version.                   *)
LEMMA ComeMade ==
  ASSUME PlainHistory, TypeOK, Collectable, Mirrored, job.left = Root,
         NEW f, NEW x, NEW q \in Calls, Come(f, x, q)
  PROVE  LET r == rl[0].rnum
         IN  job.new = f[r] /\ Changed(fs, r, f, x, q, 0) /\ Made(fs, r, f[r], f, x, q)
<1>1. PICK r : r = rl[0].rnum
  OBVIOUS
<1>2. job.left = <<>> /\ Len(job.left) = 0
  BY DEF Root
<1>3. job.new = f[r] /\ Changed(fs, r, f, x, q, 0)
  BY <1>1, <1>2, LookupRoot DEF Come, Lookup
<1>4. PICK V, D : HeadTree(V, D)
  BY HeadTreed
<1>5. /\ fs \in Table /\ D \in Depth /\ V \subseteq fs.ibm /\ Tree(fs, r, V, D)
      /\ (\A i \in V : \A y \in Ents(fs, i) : y >= 0) /\ OneName(fs, r)
  BY <1>1, <1>4, FlatEnts DEF HeadTree, TypeOK, Mirrored
<1>6. Made(fs, r, f[r], f, x, q)
  BY <1>3, <1>5, ChangedMade
<1> QED
  BY <1>1, <1>3, <1>6

(* So it has, by what is known of a climb.                                 *)
LEMMA RootMade ==
  ASSUME PlainHistory, TypeOK, Collectable, Mirrored, job.stage = "climb", job.left = Root
  PROVE  \E f, x : \E q \in Calls : /\ q.call = job.call /\ q.path = job.path
                                    /\ Made(fs, rl[0].rnum, job.new, f, x, q)
<1>1. PICK f, x, q : q \in Calls /\ Come(f, x, q)
  BY DEF Mirrored, Advanced
<1> QED
  BY <1>1, ComeMade DEF Come

(* add_root takes over what the climb has made.                            *)
LEMMA MirroredAddRoot ==
  ASSUME PlainHistory, TypeOK, TypeOK', Collectable, Mirrored, AddRoot
  PROVE  Mirrored'
<1>1. /\ fs' = fs /\ rl' = rl /\ entry'.rnum = job.new
      /\ job' = [job EXCEPT !.stage = "push", !.gc = GcTarget]
      /\ job.stage = "climb" /\ job.left = Root /\ job \in Jobs
  BY JobParts DEF AddRoot, RL!AddRoot
<1>2. job'.stage = "push" /\ job'.call = job.call /\ job'.path = job.path
  BY <1>1 DEF Jobs
<1>3. PICK f, x, q : /\ q \in Calls /\ q.call = job.call /\ q.path = job.path
                     /\ Made(fs, rl[0].rnum, job.new, f, x, q)
  BY <1>1, RootMade
<1>4. OneName(fs, rl[0].rnum) /\ Flat
  BY DEF Mirrored
<1>9. fs \in Table
  BY DEF TypeOK
<1>5. OneName(fs, job.new)
  BY <1>3, <1>4, <1>9, MadeOneName
<1>6. LocalTo(fs, rl[0].rnum, job.new, job.path, job.call)
  <2>1. LocalTo(fs, rl[0].rnum, job.new, q.path, q.call)
    BY <1>3, <1>9, MadeLocal
  <2> QED
    BY <1>3, <2>1
<1>7. Entering'
  BY <1>1, <1>2, <1>5, <1>6 DEF Entering
<1>8. Flat' /\ Advanced' /\ OneName(fs, rl[0].rnum)'
  BY <1>1, <1>2, <1>4 DEF Flat, Advanced
<1> QED
  BY <1>7, <1>8 DEF Mirrored

(* A collection frees what the version at the head does not read.          *)
LEMMA MirroredFree ==
  ASSUME TypeOK, TypeOK', Collectable, Collectable', Mirrored, [Next]_vars, FreeStep
  PROVE  Mirrored'
<1>1. /\ ph = "gc" /\ UNCHANGED <<rl, ph, ii, entry>> /\ job \in Jobs /\ fs \in Table /\ Flat
  BY JobParts DEF FreeStep, list, TypeOK, Mirrored
<1>2. job'.stage = job.stage /\ job'.call = job.call /\ job'.path = job.path
  BY <1>1 DEF FreeStep, Jobs
<1>3. job.stage # "climb"
  BY <1>1 DEF Collectable, Plain, Handlers
<1>4. Flat'
  <2>1. CASE fs' = fs
    BY <1>1, <2>1 DEF Flat
  <2>2. ASSUME NEW i \in Inum, fs' = free_inode(fs, i) PROVE Flat'
    <3>1. fs'.ibm = fs.ibm \ {i} /\ \A j \in Num \ {i} : fs'.ino[j] = fs.ino[j]
      BY <1>1, <2>2, FreeOthers
    <3>2. fs'.ibm \subseteq Num \ {i}
      BY <1>1, <3>1, TableParts DEF Num
    <3>3. \A j \in fs'.ibm : Good(fs'.ino[j])
      BY <1>1, <3>1, <3>2 DEF Flat
    <3> QED
      BY <3>3 DEF Flat
  <2> QED
    BY <2>1, <2>2, FreeStepFrees
<1> QED
  BY <1>1, <1>2, <1>3, <1>4, MirroredStill

(* The stores of the push leave it true: the first of them installs the    *)
(* version that was pending.                                               *)
LEMMA MirroredPush ==
  ASSUME PlainHistory, TypeOK, TypeOK', Collectable, Collectable', Mirrored, [Next]_vars,
         Collected \/ CollectAborts \/ Push
  PROVE  Mirrored'
<1>1. fs' = fs /\ Flat /\ job.stage # "climb" /\ 0 \in RL!Slot
  <2>1. ph # "idle" /\ fs' = fs
    BY DEF Collected, CollectAborts, Push, Store, StoreLast, RL!Collected, RL!Shift,
           RL!StoreRnum, RL!StoreVnum, RL!StoreOp
  <2> QED
    BY <2>1, SlotFacts DEF Mirrored, Collectable, Plain, Handlers
<1>2. Flat'
  BY <1>1 DEF Flat
<1>3. job'.stage # "climb"
  <2>1. job' = job \/ job' = NoJob \/ job'.stage \in {"swapped", "finish"}
    <3>1. job \in Jobs
      BY JobParts
    <3> QED
      BY <3>1 DEF Collected, CollectAborts, Push, StoreLast, Jobs
  <2>2. NoJob.stage = "serve"
    BY DEF NoJob
  <2> QED
    BY <1>1, <2>1, <2>2
<1>4. CASE Collected \/ CollectAborts
  <2>1. UNCHANGED rl /\ (ph' # "off" => ph = "gc" /\ entry' = entry /\ job' = job)
    BY <1>4 DEF Collected, CollectAborts, RL!Collected, RL!Kill
  <2> QED
    BY <1>2, <1>3, <2>1, MirroredStill
<1>5. CASE RL!Shift /\ UNCHANGED job
  <2>1. ph = "shift" /\ entry' = entry /\ rl'[0].rnum = rl[0].rnum
    <3>1. rl \in [RL!Slot -> RL!cow_version]
      BY DEF TypeOK, RL!TypeOK
    <3>2. ii > 0 /\ ii # 0
      <4>1. ph = "shift" /\ ii \in RL!Slot /\ (ph = "shift" => ii > 0)
        BY <1>5 DEF RL!Shift, TypeOK, RL!TypeOK
      <4> QED
        BY <4>1, SlotFacts
    <3> QED
      BY <1>1, <1>5, <3>1, <3>2 DEF RL!Shift
  <2> QED
    BY <1>2, <1>3, <1>5, <2>1, MirroredStill
<1>6. CASE RL!StoreRnum
  <2>1. ph = "rnum" /\ ph' = "vnum" /\ rl'[0].rnum = entry.rnum
    <3>1. rl \in [RL!Slot -> RL!cow_version]
      BY DEF TypeOK, RL!TypeOK
    <3> QED
      BY <1>1, <1>6, <3>1 DEF RL!StoreRnum, RL!cow_version
  <2>2. OneName(fs', rl'[0].rnum)
    BY <1>1, <2>1 DEF Mirrored, Entering
  <2>3. Entering' /\ Advanced'
    BY <1>3, <2>1 DEF Entering, Advanced
  <2> QED
    BY <1>2, <2>2, <2>3 DEF Mirrored
<1>7. CASE RL!StoreVnum \/ RL!StoreOp
  <2>1. ph' \in {"op", "idle", "off"} /\ rl'[0].rnum = rl[0].rnum
    <3>1. rl \in [RL!Slot -> RL!cow_version]
      BY DEF TypeOK, RL!TypeOK
    <3> QED
      BY <1>1, <1>7, <3>1 DEF RL!StoreVnum, RL!StoreOp, RL!cow_version
  <2> QED
    BY <1>2, <1>3, <2>1, MirroredStill
<1> QED
  BY <1>4, <1>5, <1>6, <1>7 DEF Push, Store, StoreLast

(* Every step leaves it true.                                              *)
LEMMA MirroredStep ==
  ASSUME PlainHistory, Roomy
  PROVE  TypeOK /\ Collectable /\ Mirrored /\ [Next]_vars => Mirrored'
<1> SUFFICES ASSUME TypeOK, Collectable, Mirrored, [Next]_vars PROVE Mirrored'
  OBVIOUS
<1>1. TypeOK' /\ Collectable'
  BY StorageStep, CollectStep
<1>2. job.stage \in {"serve", "climb", "push"} /\ Flat
  BY DEF Collectable, Plain, Handlers, Mirrored
<1>3. CASE UNCHANGED vars
  <2>1. UNCHANGED <<fs, rl, ph, ii, entry, job>>
    BY <1>3 DEF vars, list
  <2> QED
    BY <2>1 DEF Mirrored, Flat, Advanced, Come, Entering
<1>4. CASE Mount \/ Unmount \/ Kill
  <2>1. /\ fs' = fs /\ rl' = rl /\ ph' \in {"idle", "off"}
        /\ job' = NoJob \/ (job' = job /\ job.stage # "climb")
    <3>1. ph = "off" => job.stage = "serve"
      BY DEF TypeOK
    <3> QED
      BY <1>4, <3>1 DEF Mount, Unmount, Kill, RL!Start, RL!Exit, RL!Kill
  <2>2. Flat'
    BY <1>2, <2>1 DEF Flat
  <2>3. job'.stage # "climb"
    <3>1. NoJob.stage = "serve"
      BY DEF NoJob
    <3> QED
      BY <2>1, <3>1
  <2> QED
    BY <1>1, <2>1, <2>2, <2>3, MirroredStill
<1>5. CASE Request
  BY <1>1, <1>5, MirroredRequest
<1>6. CASE Climb
  BY <1>1, <1>6, MirroredClimb
<1>7. CASE ClimbAborts
  BY <1>1, <1>7, MirroredClimbAborts
<1>8. CASE AddRoot
  BY <1>1, <1>8, MirroredAddRoot
<1>9. CASE FreeStep
  BY <1>1, <1>9, MirroredFree
<1>10. CASE Collected \/ CollectAborts \/ Push
  BY <1>1, <1>10, MirroredPush
<1>11. ~(Tool \/ ToolSwap \/ ToolExit \/ Finish)
  BY <1>2 DEF Tool, ToolSwap, ToolExit, Finish, Finishing, PlainHistory
<1> QED
  BY <1>3, <1>4, <1>5, <1>6, <1>7, <1>8, <1>9, <1>10, <1>11 DEF Next, Step

(* In a new image the root is the only path.                               *)
LEMMA NewRoot ==
  ASSUME Init, NEW u \in Seq(Name)
  PROVE  Lookup(fs, u, 0) \in Int /\ Lookup(fs, u, 0) <= 0 /\ (Lookup(fs, u, 0) = 0 <=> u = <<>>)
<1>1. fs.ibm = {0} /\ fs.ino[0].ent = <<>> /\ rl[0].rnum = 0
  BY NumFacts, SlotFacts DEF Init, Zeroed
<1>2. PICK V, D : HeadTree(V, D)
  BY StorageInit, CollectInit, HeadTreed
<1>3. fs \in Table /\ Tree(fs, 0, {0}, D) /\ D \in Depth
  <2>1. Ents(fs, 0) = {}
    <3>1. \A e : e = <<>> => DOMAIN e = {}
      OBVIOUS
    <3> QED
      BY <1>1, <3>1, Zenon DEF Ents
  <2> QED
    BY <1>1, <1>2, <2>1, StorageInit DEF HeadTree, Tree, OneDir, TypeOK
<1>4. PICK i : i = Lookup(fs, u, 0)
  OBVIOUS
<1>5. i \in Int /\ (i < 0 \/ (i = 0 /\ D[i] = Len(u)))
  BY <1>3, <1>4, TreeLookup
<1>6. D[0] = 0
  BY <1>3 DEF Tree
<1>7. i = 0 => u = <<>>
  <2>1. i = 0 => Len(u) = 0
    BY <1>5, <1>6
  <2> QED
    BY <2>1
<1>8. u = <<>> => i = 0
  BY <1>4, LookupRoot DEF Lookup
<1> QED
  BY <1>4, <1>5, <1>7, <1>8

(* No two paths lead to the root of a new image, and nothing is under way. *)
LEMMA MirroredInit == Init => Mirrored
<1> SUFFICES ASSUME Init PROVE Mirrored
  OBVIOUS
<1>1. /\ fs.ibm = {0} /\ fs.ino[0].mode = "dir" /\ fs.ino[0].ent = <<>>
      /\ ph = "off" /\ job = NoJob /\ rl[0].rnum = 0
  BY NumFacts, SlotFacts DEF Init, Zeroed
<1>2. Flat
  <2>1. \A e : e = <<>> => DOMAIN e = {}
    OBVIOUS
  <2> QED
    BY <1>1, <2>1 DEF Flat, Good
<1>3. OneName(fs, 0)
  <2> SUFFICES ASSUME NEW p \in Seq(Name), NEW q \in Seq(Name),
                      Lookup(fs, p, 0) \in Inum, Lookup(fs, q, 0) \in Inum
               PROVE  p = q
    BY DEF OneName
  <2>1. ASSUME NEW u \in Seq(Name), Lookup(fs, u, 0) \in Inum PROVE u = <<>>
    <3>1. PICK i : i = Lookup(fs, u, 0)
      OBVIOUS
    <3>2. i \in Nat /\ i <= 0 /\ (i = 0 <=> u = <<>>)
      BY <2>1, <3>1, NewRoot, NumFacts
    <3> QED
      BY <3>2
  <2> QED
    BY <2>1
<1>4. Advanced /\ Entering
  BY <1>1 DEF Advanced, Entering, NoJob
<1> QED
  BY <1>1, <1>2, <1>3, <1>4 DEF Mirrored

(* In a plain history with room for every copy a commit changes nothing    *)
(* but what its request names.                                             *)
THEOREM CommitLocalPlain ==
  ASSUME PlainHistory, Roomy
  PROVE  Spec => CommitLocal
<1> DEFINE I == TypeOK /\ Collectable /\ Mirrored
           A == job.stage = "push" /\ RL!StoreRnum =>
                   LET file == Lookup(fs, job.path, rl[0].rnum)
                   IN  \A p \in Path \ {job.path} :
                          LET was == Lookup(fs, p, rl[0].rnum)
                              is  == Lookup(fs, p, rl'[0].rnum)
                          IN  \/ was < 0 /\ is < 0
                              \/ was < 0 /\ job.call = "link" /\ is = file
                              \/ was >= 0 /\ was = file
                              \/ was >= 0 /\ is >= 0
                                 /\ Stat(fs, p, rl'[0].rnum) = Stat(fs, p, rl[0].rnum)
<1>1. Init => I
  BY StorageInit, CollectInit, MirroredInit
<1>2. I /\ [Next]_vars => I'
  BY StorageStep, CollectStep, MirroredStep
<1>3. I => A
  <2> SUFFICES ASSUME I, RL!StoreRnum PROVE A
    OBVIOUS
  <2>1. ph = "rnum" /\ rl'[0].rnum = entry.rnum
    <3>1. rl \in [RL!Slot -> RL!cow_version] /\ 0 \in RL!Slot
      BY SlotFacts DEF TypeOK, RL!TypeOK
    <3> QED
      BY <3>1 DEF RL!StoreRnum, RL!cow_version
  <2>2. LocalTo(fs, rl[0].rnum, entry.rnum, job.path, job.call)
    BY <2>1 DEF Mirrored, Entering
  <2> QED
    BY <2>1, <2>2 DEF LocalTo
<1>4. I /\ [Next]_vars => [A]_vars
  BY <1>3
<1> QED
  BY <1>1, <1>2, <1>4, PTL DEF Spec, CommitLocal

-----------------------------------------------------------------------------
(* The list of trees.                                                      *)

\* A version that is not used has no used one behind it, and while the
\* stores of slot 0 are on the way its root is the new one.
Listing ==
    /\ \A s, t \in RL!Slot : s <= t /\ rl[t].vnum > 0 => rl[s].vnum > 0
    /\ HeadUsed
    /\ ph \in {"vnum", "op"} => rl[0].rnum = entry.rnum

(* The stores of a push, one by one.                                       *)
LEMMA Stores ==
  ASSUME TypeOK
  PROVE  /\ rl \in [RL!Slot -> RL!cow_version] /\ 0 \in RL!Slot
         /\ RL!Shift => /\ ph = "shift" /\ ph' \in {"shift", "rnum"} /\ entry' = entry
                        /\ ii \in 1 .. Oldest /\ ii \in RL!Slot /\ ii - 1 \in RL!Slot
                        /\ ii' = ii - 1
                        /\ rl'[ii] = rl[ii - 1]
                        /\ \A s \in RL!Slot \ {ii} : rl'[s] = rl[s]
         /\ RL!StoreRnum \/ RL!StoreVnum =>
                        /\ ph \in {"rnum", "vnum"} /\ ph' \in {"vnum", "op"}
                        /\ ii = 0 /\ ii' = 0 /\ entry' = entry
                        /\ ph' = "vnum" => rl'[0].rnum = entry.rnum
                        /\ ph' = "op" => ph = "vnum" /\ rl'[0].rnum = rl[0].rnum
                        /\ \A s \in RL!Slot \ {0} : rl'[s] = rl[s]
         /\ RL!StoreOp => /\ ph = "op" /\ ph' \in {"idle", "off"} /\ ii = 0
                          /\ rl'[0].rnum = rl[0].rnum /\ rl'[0].vnum = rl[0].vnum
                          /\ \A s \in RL!Slot \ {0} : rl'[s] = rl[s]
<1>1. rl \in [RL!Slot -> RL!cow_version] /\ 0 \in RL!Slot
  BY SlotFacts DEF TypeOK, RL!TypeOK
<1>2. /\ ii \in RL!Slot /\ ii \in Nat /\ ii <= Oldest /\ Oldest \in Nat
      /\ ph = "shift" => ii > 0
      /\ ph \notin {"gc", "shift"} => ii = 0
  BY SlotFacts DEF TypeOK, RL!TypeOK
<1>3. ii > 0 => ii - 1 \in RL!Slot
  BY <1>2 DEF RL!Slot, Oldest
<1>4. ASSUME RL!Shift
      PROVE  /\ ph = "shift" /\ ph' \in {"shift", "rnum"} /\ entry' = entry
             /\ ii \in 1 .. Oldest /\ ii \in RL!Slot /\ ii - 1 \in RL!Slot
             /\ ii' = ii - 1
             /\ rl'[ii] = rl[ii - 1]
             /\ \A s \in RL!Slot \ {ii} : rl'[s] = rl[s]
  <2>1. ph = "shift" /\ rl' = [rl EXCEPT ![ii] = rl[ii - 1]] /\ ii' = ii - 1 /\ entry' = entry
        /\ ph' \in {"shift", "rnum"}
    BY <1>4 DEF RL!Shift
  <2> QED
    BY <1>1, <1>2, <1>3, <2>1
<1>5. ASSUME RL!StoreRnum \/ RL!StoreVnum
      PROVE  /\ ph \in {"rnum", "vnum"} /\ ph' \in {"vnum", "op"}
             /\ ii = 0 /\ ii' = 0 /\ entry' = entry
             /\ ph' = "vnum" => rl'[0].rnum = entry.rnum
             /\ ph' = "op" => ph = "vnum" /\ rl'[0].rnum = rl[0].rnum
             /\ \A s \in RL!Slot \ {0} : rl'[s] = rl[s]
  BY <1>1, <1>2, <1>5 DEF RL!StoreRnum, RL!StoreVnum, RL!cow_version
<1>6. ASSUME RL!StoreOp
      PROVE  /\ ph = "op" /\ ph' \in {"idle", "off"} /\ ii = 0
             /\ rl'[0].rnum = rl[0].rnum /\ rl'[0].vnum = rl[0].vnum
             /\ \A s \in RL!Slot \ {0} : rl'[s] = rl[s]
  BY <1>1, <1>2, <1>6 DEF RL!StoreOp, RL!cow_version
<1> QED
  BY <1>1, <1>4, <1>5, <1>6

(* A step outside the push: the list stays.                                *)
Resting == Calm /\ Calm' /\ rl' = rl

\* A version is pending before the step and after it.
Going == Pushing /\ Pushing' /\ entry' = entry

(* What a step can do to the list.                                         *)
LEMMA ListSteps ==
  ASSUME PlainHistory, TypeOK, Collectable, [Next]_vars
  PROVE  \/ Resting
         \/ AddRoot
         \/ Going /\ rl' = rl /\ ii' = ii
                  /\ (ph' = ph \/ (ph = "gc" /\ ph' = "shift"))
         \/ RL!Shift \/ RL!StoreRnum \/ RL!StoreVnum
         \/ RL!StoreOp
<1>1. /\ job.stage \in {"serve", "climb", "push"}
      /\ ph \in {"idle", "gc", "shift", "rnum", "vnum", "op", "off"}
  BY DEF Collectable, Plain, Handlers, TypeOK, RL!TypeOK
<1>2. CASE UNCHANGED vars
  <2>1. UNCHANGED <<rl, ph, ii, entry>>
    BY <1>2 DEF vars, list
  <2> QED
    BY <1>1, <2>1 DEF Resting, Calm, Going, Pushing
<1>3. CASE Mount \/ Unmount
  BY <1>3 DEF Mount, Unmount, RL!Start, RL!Exit, Resting, Calm
<1>4. CASE Request
  <2>1. rl' = rl /\ ph = "idle" /\ ph' \in {"idle", "off"}
    BY <1>4 DEF Request, Serving, Handle, Write, Truncate, Mknod, MknodAborts, Unlink, Link,
       Rename, SetTime, Chmod, Update, list
  <2> QED
    BY <2>1 DEF Resting, Calm
<1>5. CASE Climb \/ ClimbAborts
  <2>1. rl' = rl /\ ph = "idle" /\ ph' \in {"idle", "off"}
    BY <1>5 DEF Climb, ClimbAborts, Climbing, list
  <2> QED
    BY <2>1 DEF Resting, Calm
<1>6. CASE Kill
  <2>1. ph = "idle"
    BY <1>1, <1>6 DEF Kill, Stage, PlainHistory
  <2> QED
    BY <1>6, <2>1 DEF Kill, RL!Kill, Resting, Calm
<1>7. CASE FreeStep \/ Collected
  <2>1. UNCHANGED <<rl, ii, entry>> /\ ph = "gc" /\ (ph' = ph \/ ph' = "shift")
    BY <1>7 DEF FreeStep, Collected, RL!Collected, list
  <2> QED
    BY <2>1 DEF Going, Pushing
<1>8. ~CollectAborts
  BY SlotFacts DEF CollectAborts, Collectable, Plain, NoSet
<1>9. ~(Tool \/ ToolSwap \/ ToolExit \/ Finish)
  BY <1>1 DEF Tool, ToolSwap, ToolExit, Finish, Finishing, PlainHistory
<1>10. CASE Push
  BY <1>10 DEF Push, Store, StoreLast
<1> QED
  BY <1>2, <1>3, <1>4, <1>5, <1>6, <1>7, <1>8, <1>9, <1>10 DEF Next, Step

(* Every step keeps the list in shape.                                     *)
LEMMA ListingStep ==
  ASSUME PlainHistory
  PROVE  TypeOK /\ Collectable /\ Listing /\ [Next]_vars => Listing'
<1> SUFFICES ASSUME TypeOK, Collectable, Listing, [Next]_vars PROVE Listing'
  OBVIOUS
<1> DEFINE Packed == \A s, t \in RL!Slot : s <= t /\ rl[t].vnum > 0 => rl[s].vnum > 0
           Headed == ph \in {"vnum", "op"} => rl[0].rnum = entry.rnum
<1>1. HeadUsed' /\ Packed /\ Headed
  BY HeadStep DEF Listing
<1>2. CASE rl' = rl /\ (ph' \in {"vnum", "op"} => ph' = ph /\ entry' = entry)
  BY <1>1, <1>2 DEF Listing
<1>3. CASE RL!Shift
  <2>1. Packed'
    <3> SUFFICES ASSUME NEW s \in RL!Slot, NEW t \in RL!Slot, s <= t, rl'[t].vnum > 0
                 PROVE  rl'[s].vnum > 0
      OBVIOUS
    <3>1. /\ ii \in 1 .. Oldest /\ ii \in RL!Slot /\ ii - 1 \in RL!Slot
          /\ rl'[ii] = rl[ii - 1] /\ \A u \in RL!Slot \ {ii} : rl'[u] = rl[u]
      BY <1>3, Stores
    <3>2. s \in Nat /\ t \in Nat
      BY SlotFacts
    <3>3. PICK u \in RL!Slot : rl'[t] = rl[u] /\ u <= t /\ (t # ii => u = t)
                               /\ (t = ii => u = ii - 1)
      BY <3>1, <3>2
    <3>4. PICK v \in RL!Slot : rl'[s] = rl[v] /\ v <= s /\ (s # ii => v = s)
                               /\ (s = ii => v = ii - 1)
      BY <3>1, <3>2
    <3>5. v <= u
      BY <3>1, <3>2, <3>3, <3>4
    <3>6. rl[u].vnum > 0
      BY <3>3
    <3>7. rl[v].vnum > 0
      BY <1>1, <3>5, <3>6
    <3> QED
      BY <3>4, <3>7
  <2>2. ph' \notin {"vnum", "op"}
    BY <1>3, Stores
  <2> QED
    BY <1>1, <2>1, <2>2 DEF Listing
<1>4. CASE RL!StoreRnum \/ RL!StoreVnum \/ RL!StoreOp
  <2>1. \A u \in RL!Slot \ {0} : rl'[u] = rl[u]
    BY <1>4, Stores
  <2>2. Packed'
    <3> SUFFICES ASSUME NEW s \in RL!Slot, NEW t \in RL!Slot, s <= t, rl'[t].vnum > 0
                 PROVE  rl'[s].vnum > 0
      OBVIOUS
    <3>2. s \in Nat /\ t \in Nat
      BY SlotFacts
    <3>3. CASE s = 0
      BY <1>1, <3>3 DEF HeadUsed
    <3>4. CASE s # 0
      <4>1. t # 0
        BY <3>2, <3>4
      <4>2. rl'[s] = rl[s] /\ rl'[t] = rl[t]
        BY <2>1, <3>4, <4>1
      <4> QED
        BY <1>1, <4>2
    <3> QED
      BY <3>3, <3>4
  <2>3. Headed'
    BY <1>1, <1>4, Stores
  <2> QED
    BY <1>1, <2>2, <2>3 DEF Listing
<1>5. CASE AddRoot
  <2>1. rl' = rl /\ ph' \in {"gc", "shift"}
    BY <1>5 DEF AddRoot, RL!AddRoot
  <2> QED
    BY <1>2, <2>1
<1>6. CASE Resting
  BY <1>2, <1>6 DEF Resting, Calm
<1>7. CASE Going /\ rl' = rl /\ (ph' = ph \/ (ph = "gc" /\ ph' = "shift"))
  BY <1>2, <1>7 DEF Going
<1> QED
  BY <1>3, <1>4, <1>5, <1>6, <1>7, ListSteps

(* A new image has one version.                                            *)
LEMMA ListingInit == Init => Listing
<1> SUFFICES ASSUME Init PROVE Listing
  OBVIOUS
<1>1. /\ ph = "off" /\ rl[0].vnum = 1
      /\ \A s \in RL!Slot \ {0} : rl[s].vnum = 0
  BY SlotFacts DEF Init, RL!ZeroSlot
<1>2. \A s \in RL!Slot : s \in Nat
  BY SlotFacts
<1> QED
  BY <1>1, <1>2 DEF Listing, HeadUsed

(* A set of numbers that has everything below its members is an interval.  *)
LEMMA Initial ==
  ASSUME NEW m \in Nat, NEW S \in SUBSET (0 .. m), \A s, t \in 0 .. m : s <= t /\ t \in S => s \in S
  PROVE  /\ Cardinality(S) \in 0 .. m + 1
         /\ \A s \in 0 .. m : s \in S <=> s < Cardinality(S)
<1> DEFINE T == {k \in Nat : k \notin S}
<1>1. m + 1 \in T /\ T \subseteq Nat
  OBVIOUS
<1>2. PICK n \in T : \A t \in T : n <= t
  BY <1>1, NatMin
<1>3. n \in 0 .. m + 1 /\ n \notin S /\ \A k \in Nat : k < n => k \in S
  <2>1. n \in Nat /\ n \notin S /\ n <= m + 1
    BY <1>1, <1>2
  <2>2. ASSUME NEW k \in Nat, k < n PROVE k \in S
    <3>1. k \notin T
      BY <1>2, <2>1, <2>2
    <3> QED
      BY <3>1
  <2> QED
    BY <2>1, <2>2
<1>4. \A s \in 0 .. m : s \in S <=> s < n
  BY <1>3
<1>5. S = 0 .. n - 1
  <2>1. ASSUME NEW s \in S PROVE s \in 0 .. n - 1
    <3>1. s \in 0 .. m /\ s < n /\ n \in Int
      BY <1>3, <1>4
    <3> QED
      BY <3>1
  <2>2. ASSUME NEW s \in 0 .. n - 1 PROVE s \in S
    BY <1>3
  <2> QED
    BY <2>1, <2>2
<1>6. Cardinality(S) = n
  <2>1. 0 \in Int /\ n - 1 \in Int /\ n \in Nat
    BY <1>3
  <2>2. Cardinality(0 .. n - 1) = IF 0 > n - 1 THEN 0 ELSE n - 1 - 0 + 1
    BY <2>1, FS_Interval
  <2> QED
    BY <1>5, <2>1, <2>2
<1> QED
  BY <1>3, <1>4, <1>6

\* The slots in use, and how many there are.
Used == {s \in RL!Slot : rl[s].vnum > 0}

(* The slots in use come first.                                            *)
LEMMA UsedFirst ==
  ASSUME Listing
  PROVE  /\ Cardinality(Used) \in 1 .. NumVersions
         /\ \A s \in RL!Slot : rl[s].vnum > 0 <=> s < Cardinality(Used)
<1>1. Oldest \in Nat /\ RL!Slot = 0 .. Oldest /\ Oldest + 1 = NumVersions /\ 0 \in RL!Slot
  BY StorageAssumption DEF RL!Slot, Oldest
<1>2. Used \in SUBSET (0 .. Oldest) /\ 0 \in Used
  BY <1>1 DEF Used, Listing, HeadUsed
<1>3. \A s, t \in 0 .. Oldest : s <= t /\ t \in Used => s \in Used
  BY <1>1 DEF Used, Listing
<1>4. PICK n : n = Cardinality(Used)
  OBVIOUS
<1>5. n \in 0 .. Oldest + 1 /\ \A s \in 0 .. Oldest : s \in Used <=> s < n
  BY <1>1, <1>2, <1>3, <1>4, Initial
<1>6. n # 0
  BY <1>1, <1>2, <1>5
<1> QED
  BY <1>1, <1>4, <1>5, <1>6 DEF Used

(* So many slots are in use below a bound.                                 *)
LEMMA Below ==
  ASSUME NEW m \in Nat, NEW n \in Nat, n <= m + 1, NEW T, T = {s \in 0 .. m : s < n}
  PROVE  Cardinality(T) = n
<1>1. T \in SUBSET (0 .. m) /\ \A s, t \in 0 .. m : s <= t /\ t \in T => s \in T
  OBVIOUS
<1>2. PICK c : c = Cardinality(T)
  OBVIOUS
<1>3. c \in 0 .. m + 1 /\ \A s \in 0 .. m : s \in T <=> s < c
  BY <1>1, <1>2, Initial
<1>4. ~(c < n) /\ ~(n < c)
  BY <1>3
<1> QED
  BY <1>2, <1>3, <1>4

\* The versions behind a pending one.
Behind == {s \in 0 .. Oldest - 1 : BeforeShift(s).vnum > 0}

(* The number of trees in the list.                                        *)
LEMMA NumListedIs ==
  ASSUME Listing
  PROVE  /\ ~Pushing => NumListed = Cardinality(Used)
         /\ Pushing => NumListed = 1 + Cardinality(Behind)
         /\ NumListed \in 1 .. NumVersions
<1>1. Cardinality(Used) \in 1 .. NumVersions
  BY UsedFirst
<1>2. Cardinality(Behind) \in 0 .. Oldest
  <2>1. /\ 0 \in Int /\ Oldest - 1 \in Int /\ Oldest \in Nat /\ Oldest > 0
        /\ Behind \in SUBSET (0 .. Oldest - 1)
    BY StorageAssumption DEF Oldest, Behind
  <2>2. /\ IsFiniteSet(0 .. Oldest - 1)
        /\ Cardinality(0 .. Oldest - 1) = IF 0 > Oldest - 1 THEN 0 ELSE Oldest - 1 - 0 + 1
    BY <2>1, FS_Interval
  <2>3. IsFiniteSet(Behind) /\ Cardinality(Behind) <= Cardinality(0 .. Oldest - 1)
    BY <2>1, <2>2, FS_Subset
  <2>4. Cardinality(Behind) \in Nat
    BY <2>3, FS_CardinalityType
  <2>5. Cardinality(0 .. Oldest - 1) = Oldest
    BY <2>1, <2>2
  <2>6. PICK b : b = Cardinality(Behind)
    OBVIOUS
  <2>7. b \in Nat /\ b <= Oldest
    BY <2>3, <2>4, <2>5, <2>6
  <2> QED
    BY <2>1, <2>6, <2>7
<1>3. Oldest + 1 = NumVersions
  BY StorageAssumption DEF Oldest
<1>4. CASE Pushing
  <2>1. NumListed = 1 + Cardinality(Behind)
    BY <1>4 DEF NumListed, Behind
  <2>2. \A b \in 0 .. Oldest : 1 + b \in 1 .. NumVersions
    BY <1>3, StorageAssumption DEF Oldest
  <2>3. 1 + Cardinality(Behind) \in 1 .. NumVersions
    BY <1>2, <2>2
  <2> QED
    BY <1>4, <2>1, <2>3
<1>5. CASE ~Pushing
  <2>1. NumListed = Cardinality(Used)
    BY <1>5 DEF NumListed, Used
  <2> QED
    BY <1>1, <1>5, <2>1
<1> QED
  BY <1>4, <1>5

\* Every version in the list of trees is one.
AllTreed == \A k \in 1 .. NumListed : Treed(fs, ListedRoot(k))

(* Every version that counts is a tree: the one being given up does not.   *)
LEMMA ListedTreed == TypeOK /\ Collectable /\ Listing => AllTreed
<1> SUFFICES ASSUME TypeOK, Collectable, Listing, NEW k \in 1 .. NumListed
             PROVE  Treed(fs, ListedRoot(k))
  BY DEF AllTreed
<1>1. k \in 1 .. NumVersions /\ k \in Int /\ Oldest + 1 = NumVersions /\ RL!Slot = 0 .. Oldest
      /\ Oldest \in Nat
  BY NumListedIs, StorageAssumption DEF Oldest, RL!Slot
<1>2. \A s \in RL!Slot : Live(s) => Treed(fs, rl[s].rnum)
  BY ListTreed
<1>3. CASE ~Pushing
  <2>1. k - 1 \in RL!Slot /\ Live(k - 1)
    BY <1>1, <1>3 DEF Pushing, Live
  <2> QED
    BY <1>2, <1>3, <2>1 DEF ListedRoot
<1>4. CASE Pushing /\ k = 1
  <2>1. ListedRoot(k) = entry.rnum
    BY <1>4 DEF ListedRoot
  <2>2. CASE ph \in {"gc", "shift", "rnum"}
    BY <2>1, <2>2, ListTreed
  <2>3. CASE ph \in {"vnum", "op"}
    BY <2>1, <2>3, ListTreed DEF Listing
  <2> QED
    BY <1>4, <2>2, <2>3 DEF Pushing, TypeOK, RL!TypeOK
<1>5. CASE Pushing /\ k # 1
  <2> DEFINE s == k - 2
  <2>1. s \in 0 .. Oldest - 1 /\ s \in Int /\ s \in RL!Slot /\ s + 1 \in RL!Slot
    BY <1>1, <1>5
  <2>2. ListedRoot(k) = BeforeShift(s).rnum
    BY <1>5 DEF ListedRoot
  <2>3. ii \in Nat /\ ii <= Oldest /\ (ph = "gc" => ii = Oldest)
    BY <1>1, SlotFacts DEF TypeOK, RL!TypeOK
  <2> HIDE DEF s
  <2>4. CASE s < ii
    <3>1. Live(s)
      BY <1>1, <2>1 DEF Live
    <3> QED
      BY <1>2, <2>1, <2>2, <2>4, <3>1 DEF BeforeShift
  <2>5. CASE ~(s < ii)
    <3>1. Live(s + 1)
      BY <1>1, <2>1, <2>3, <2>5 DEF Live
    <3> QED
      BY <1>2, <2>1, <2>2, <2>5, <3>1 DEF BeforeShift
  <2> QED
    BY <2>4, <2>5
<1> QED
  BY <1>3, <1>4, <1>5

(* After a step they are trees too.                                        *)
LEMMA ListedTreedNext == TypeOK' /\ Collectable' /\ Listing' => AllTreed'
  BY ListedTreed, PTL

\* The trees that module Snapshots speaks of.
TreeList == [k \in 1 .. NumListed |-> TreeOf(ListedRoot(k))]

(* TreeOf is a function of the table and the root.                         *)
LEMMA TreeListIs ==
  /\ TreeList = [k \in 1 .. NumListed |-> TreeIn(fs, ListedRoot(k))]
  /\ TreeList' = [k \in 1 .. NumListed' |-> TreeIn(fs', ListedRoot(k)')]
<1>1. \A r : TreeOf(r) = TreeIn(fs, r)
  BY DEF TreeOf, TreeIn
<1>2. TreeList = [k \in 1 .. NumListed |-> TreeIn(fs, ListedRoot(k))]
  BY <1>1 DEF TreeList
<1>3. TreeList' = [k \in 1 .. NumListed' |-> TreeIn(fs', ListedRoot(k)')]
  BY DEF TreeList, TreeOf, TreeIn
<1> QED
  BY <1>2, <1>3

\* The step leaves the list of roots as it is.
SameList == NumListed' = NumListed /\ \A k \in 1 .. NumListed : ListedRoot(k)' = ListedRoot(k)

(* Then it leaves the trees as they are.                                   *)
LEMMA SameTrees ==
  ASSUME TypeOK, TypeOK', Collectable, Collectable', Listing, Listing', [Next]_vars, SameList
  PROVE  TreeList' = TreeList
<1>1. ASSUME NEW k \in 1 .. NumListed PROVE TreeIn(fs', ListedRoot(k)') = TreeIn(fs, ListedRoot(k))
  <2>1. PICK r : r = ListedRoot(k)
    OBVIOUS
  <2>2. Treed(fs, r)
    BY <2>1, ListedTreed DEF AllTreed
  <2>3. Treed(fs', r)
    <3>1. \A j \in 1 .. NumListed' : Treed(fs', ListedRoot(j)')
      BY ListedTreedNext DEF AllTreed
    <3>2. ListedRoot(k)' = r /\ k \in 1 .. NumListed'
      BY <2>1 DEF SameList
    <3> QED
      BY <3>1, <3>2
  <2>4. TreeIn(fs', r) = TreeIn(fs, r)
    BY <2>2, <2>3, StepSteady, SteadyTree
  <2> QED
    BY <2>1, <2>4 DEF SameList
<1>2. NumListed' = NumListed
  BY DEF SameList
<1> QED
  BY <1>1, <1>2, TreeListIs

(* A step outside the push does not touch the list.                        *)
LEMMA RestingSame ==
  ASSUME Resting
  PROVE  SameList
  BY DEF Resting, Calm, SameList, NumListed, ListedRoot, Pushing

(* A step of the push leaves the versions behind the pending one alone.    *)
LEMMA GoingSame ==
  ASSUME Going, \A s \in 0 .. Oldest - 1 : BeforeShift(s)' = BeforeShift(s),
         NumListed \in 1 .. NumVersions
  PROVE  SameList
<1>1. Behind' = Behind
  BY DEF Behind
<1>2. NumListed' = NumListed
  BY <1>1 DEF Going, NumListed, Behind
<1>3. ASSUME NEW k \in 1 .. NumListed PROVE ListedRoot(k)' = ListedRoot(k)
  <2>1. k = 1 \/ k - 2 \in 0 .. Oldest - 1
    BY StorageAssumption DEF Oldest
  <2> QED
    BY <2>1 DEF ListedRoot, Going
<1> QED
  BY <1>2, <1>3 DEF SameList

(* The stores of the push go on with the same list: what has been shifted  *)
(* and what has not are told apart by ii.                                  *)
LEMMA PushSame ==
  ASSUME TypeOK, Listing, RL!Shift \/ RL!StoreRnum \/ RL!StoreVnum
  PROVE  SameList
<1>1. Going
  BY Stores DEF Going, Pushing
<1>2. /\ \A s \in 0 .. Oldest - 1 : s \in Int /\ s \in RL!Slot /\ s + 1 \in RL!Slot /\ s + 1 # 0
      /\ Oldest \in Nat
  BY StorageAssumption DEF Oldest, RL!Slot
<1>3. ASSUME RL!Shift, NEW s \in 0 .. Oldest - 1 PROVE BeforeShift(s)' = BeforeShift(s)
  <2>1. /\ ii \in 1 .. Oldest /\ ii' = ii - 1 /\ rl'[ii] = rl[ii - 1]
        /\ \A u \in RL!Slot \ {ii} : rl'[u] = rl[u]
    BY <1>3, Stores
  <2>2. s \in Int /\ s \in RL!Slot /\ s + 1 \in RL!Slot /\ ii \in Int
    BY <1>2, <2>1
  <2>3. CASE s < ii - 1
    <3>1. rl'[s] = rl[s] /\ s < ii
      BY <2>1, <2>2, <2>3
    <3> QED
      BY <2>1, <2>3, <3>1 DEF BeforeShift
  <2>4. CASE s = ii - 1
    <3>1. s + 1 = ii /\ ~(s < ii - 1) /\ s < ii
      BY <2>2, <2>4
    <3> QED
      BY <2>1, <2>4, <3>1 DEF BeforeShift
  <2>5. CASE s >= ii
    <3>1. rl'[s + 1] = rl[s + 1] /\ ~(s < ii - 1) /\ ~(s < ii)
      BY <2>1, <2>2, <2>5
    <3> QED
      BY <2>1, <3>1 DEF BeforeShift
  <2> QED
    BY <2>2, <2>3, <2>4, <2>5
<1>4. ASSUME RL!StoreRnum \/ RL!StoreVnum, NEW s \in 0 .. Oldest - 1
      PROVE  BeforeShift(s)' = BeforeShift(s)
  <2>1. ii = 0 /\ ii' = 0 /\ \A u \in RL!Slot \ {0} : rl'[u] = rl[u]
    BY <1>4, Stores
  <2>2. ~(s < 0) /\ rl'[s + 1] = rl[s + 1]
    BY <1>2, <2>1
  <2> QED
    BY <2>1, <2>2 DEF BeforeShift
<1>5. NumListed \in 1 .. NumVersions
  BY NumListedIs
<1> QED
  BY <1>1, <1>3, <1>4, <1>5, GoingSame

(* With its last store the list is what it was to become.                  *)
LEMMA StoreOpSame ==
  ASSUME TypeOK, Listing, RL!StoreOp
  PROVE  SameList
<1>1. /\ ph = "op" /\ ph' \in {"idle", "off"} /\ ii = 0 /\ 0 \in RL!Slot
      /\ rl'[0].rnum = rl[0].rnum /\ rl'[0].vnum = rl[0].vnum
      /\ \A s \in RL!Slot \ {0} : rl'[s] = rl[s]
  BY Stores
<1>2. Oldest \in Nat /\ Oldest > 0 /\ Oldest + 1 = NumVersions /\ RL!Slot = 0 .. Oldest
  BY StorageAssumption DEF Oldest, RL!Slot
<1>3. Used' = Used
  <2>1. \A s \in RL!Slot : rl'[s].vnum = rl[s].vnum
    BY <1>1
  <2> QED
    BY <2>1 DEF Used
<1>4. PICK n : n = Cardinality(Used)
  OBVIOUS
<1>5. n \in 1 .. NumVersions /\ \A s \in 0 .. Oldest : rl[s].vnum > 0 <=> s < n
  BY <1>2, <1>4, UsedFirst
<1>6. \A s \in 0 .. Oldest - 1 : BeforeShift(s) = rl[s + 1] /\ s + 1 \in 0 .. Oldest
  BY <1>1, <1>2 DEF BeforeShift
<1>7. Behind = {s \in 0 .. Oldest - 1 : s < n - 1}
  <2>1. \A s \in 0 .. Oldest - 1 : BeforeShift(s).vnum > 0 <=> s < n - 1
    <3> TAKE s \in 0 .. Oldest - 1
    <3>1. BeforeShift(s) = rl[s + 1] /\ (rl[s + 1].vnum > 0 <=> s + 1 < n)
      BY <1>5, <1>6
    <3>2. s + 1 < n <=> s < n - 1
      BY <1>5
    <3> QED
      BY <3>1, <3>2
  <2> QED
    BY <2>1 DEF Behind
<1>8. Cardinality(Behind) = n - 1
  <2>1. Oldest - 1 \in Nat /\ n - 1 \in Nat /\ n - 1 <= Oldest - 1 + 1
    BY <1>2, <1>5
  <2> QED
    BY <1>7, <2>1, Below
<1>9. NumListed = n /\ NumListed' = n
  <2>1. NumListed = 1 + (n - 1)
    BY <1>1, <1>8, NumListedIs DEF Pushing
  <2>2. NumListed' = Cardinality(Used')
    BY <1>1 DEF NumListed, Pushing, Used
  <2> QED
    BY <1>3, <1>4, <1>5, <2>1, <2>2
<1>10. ASSUME NEW k \in 1 .. n PROVE ListedRoot(k)' = ListedRoot(k)
  <2>1. ListedRoot(k)' = rl'[k - 1].rnum
    BY <1>1 DEF ListedRoot, Pushing
  <2>2. CASE k = 1
    <3>1. ListedRoot(k) = entry.rnum
      BY <1>1, <2>2 DEF ListedRoot, Pushing
    <3> QED
      BY <1>1, <2>1, <2>2, <3>1 DEF Listing
  <2>3. CASE k # 1
    <3>1. k - 2 \in 0 .. Oldest - 1 /\ k - 2 + 1 = k - 1 /\ k - 1 \in RL!Slot \ {0}
      BY <1>2, <1>5, <2>3
    <3>2. ListedRoot(k) = rl[k - 1].rnum
      BY <1>1, <1>6, <2>3, <3>1 DEF ListedRoot, Pushing
    <3> QED
      BY <1>1, <2>1, <3>1, <3>2
  <2> QED
    BY <2>2, <2>3
<1> QED
  BY <1>9, <1>10 DEF SameList

(* add_root puts the pending root before the others, of which a full list  *)
(* drops the last.                                                         *)
LEMMA AddRootList ==
  ASSUME TypeOK, Listing, AddRoot
  PROVE  /\ NumListed' = IF NumListed < NumVersions THEN NumListed + 1 ELSE NumVersions
         /\ ListedRoot(1)' = job.new /\ ListedRoot(1) = rl[0].rnum
         /\ \A k \in 2 .. NumListed' : ListedRoot(k)' = ListedRoot(k - 1)
<1>1. /\ ph = "idle" /\ ph' \in {"gc", "shift"} /\ rl' = rl /\ ii' = Oldest
      /\ entry'.rnum = job.new
  BY SlotFacts DEF AddRoot, RL!AddRoot, RL!ShiftFrom
<1>2. Oldest \in Nat /\ Oldest > 0 /\ Oldest + 1 = NumVersions /\ RL!Slot = 0 .. Oldest
  BY StorageAssumption DEF Oldest, RL!Slot
<1>3. ~Pushing /\ Pushing'
  BY <1>1 DEF Pushing
<1>4. PICK n : n = Cardinality(Used)
  OBVIOUS
<1>5. n \in 1 .. NumVersions /\ \A s \in 0 .. Oldest : rl[s].vnum > 0 <=> s < n
  BY <1>2, <1>4, UsedFirst
<1>6. \A s \in 0 .. Oldest - 1 : BeforeShift(s)' = rl[s]
  <2> TAKE s \in 0 .. Oldest - 1
  <2>1. s < Oldest
    BY <1>2
  <2> QED
    BY <1>1, <2>1 DEF BeforeShift
<1>7. PICK m : m = IF n < NumVersions THEN n ELSE Oldest
  OBVIOUS
<1>8. Behind' = {s \in 0 .. Oldest - 1 : s < m}
  <2>1. \A s \in 0 .. Oldest - 1 : rl[s].vnum > 0 <=> s < m
    BY <1>2, <1>5, <1>7
  <2> QED
    BY <1>6, <2>1 DEF Behind
<1>9. Cardinality(Behind') = m
  <2>1. Oldest - 1 \in Nat /\ m \in Nat /\ m <= Oldest - 1 + 1
    BY <1>2, <1>5, <1>7
  <2> QED
    BY <1>8, <2>1, Below
<1>10. NumListed = n /\ NumListed' = 1 + m
  <2>1. NumListed' = 1 + Cardinality(Behind')
    BY <1>3 DEF NumListed, Behind
  <2> QED
    BY <1>3, <1>4, <1>9, <2>1, NumListedIs
<1>11. NumListed' = IF NumListed < NumVersions THEN NumListed + 1 ELSE NumVersions
  <2>1. 1 + m = IF n < NumVersions THEN n + 1 ELSE NumVersions
    <3>1. CASE n < NumVersions
      BY <1>5, <1>7, <3>1
    <3>2. CASE ~(n < NumVersions)
      BY <1>2, <1>5, <1>7, <3>2
    <3> QED
      BY <3>1, <3>2
  <2> QED
    BY <1>10, <2>1
<1>12. ASSUME NEW k \in 2 .. NumListed' PROVE ListedRoot(k)' = ListedRoot(k - 1)
  <2>1. k - 2 \in 0 .. Oldest - 1 /\ k # 1 /\ (k - 1) - 1 = k - 2
    BY <1>2, <1>5, <1>7, <1>10
  <2>2. ListedRoot(k)' = BeforeShift(k - 2)'.rnum
    BY <1>3, <2>1 DEF ListedRoot
  <2>3. ListedRoot(k - 1) = rl[k - 2].rnum
    BY <1>3, <2>1 DEF ListedRoot
  <2> QED
    BY <1>6, <2>1, <2>2, <2>3
<1>13. ListedRoot(1)' = job.new /\ ListedRoot(1) = rl[0].rnum
  BY <1>1, <1>3 DEF ListedRoot
<1> QED
  BY <1>11, <1>12, <1>13

\* One tree more before the others, of which a full list drops the last.
Pushed(t, ts) ==
    SubSeq(<<t>> \o ts, 1, IF Len(ts) < NumVersions THEN Len(ts) + 1 ELSE NumVersions)

(* Its elements.                                                           *)
LEMMA PushedIs ==
  ASSUME NEW T, NEW t \in T, NEW ts \in Seq(T), Len(ts) \in 1 .. NumVersions,
         NEW m, m = IF Len(ts) < NumVersions THEN Len(ts) + 1 ELSE NumVersions,
         NEW us, us = [k \in 1 .. m |-> IF k = 1 THEN t ELSE ts[k - 1]]
  PROVE  us = Pushed(t, ts)
<1> DEFINE w == <<t>> \o ts
<1>1. m \in 1 .. Len(ts) + 1 /\ m \in Int /\ Len(ts) \in Nat
  BY StorageAssumption
<1>2. <<t>> \in Seq(T) /\ Len(<<t>>) = 1 /\ <<t>>[1] = t
  OBVIOUS
<1>3. w \in Seq(T) /\ Len(w) = Len(ts) + 1
      /\ \A k \in 1 .. Len(ts) + 1 : w[k] = IF k = 1 THEN t ELSE ts[k - 1]
  BY <1>1, <1>2
<1> HIDE DEF w
<1>4. SubSeq(w, 1, m) = [k \in 1 .. m |-> w[k]]
  BY <1>1, <1>3
<1>5. \A k \in 1 .. m : k \in 1 .. Len(ts) + 1
  BY <1>1
<1>6. SubSeq(w, 1, m) = us
  BY <1>3, <1>4, <1>5
<1> QED
  BY <1>6 DEF Pushed, w

(* A commit makes a tree that the request asks for out of the newest one,  *)
(* or the list is as before.                                               *)
LEMMA AddRootSnap ==
  ASSUME PlainHistory, TypeOK, TypeOK', Collectable, Collectable', Mirrored, Listing, Listing',
         [Next]_vars, AddRoot
  PROVE  \E t \in UNION {Snap!Result(TreeList[1], q) : q \in Calls} : TreeList' = Pushed(t, TreeList)
<1>1. fs' = fs /\ job.stage = "climb" /\ job.left = Root
  BY DEF AddRoot
<1>2. PICK n : n = NumListed
  OBVIOUS
<1>3. PICK m : m = NumListed'
  OBVIOUS
<1>4. n \in 1 .. NumVersions /\ m = IF n < NumVersions THEN n + 1 ELSE NumVersions
  BY <1>2, <1>3, NumListedIs, AddRootList
<1>5. /\ ListedRoot(1)' = job.new /\ ListedRoot(1) = rl[0].rnum
      /\ \A k \in 2 .. m : ListedRoot(k)' = ListedRoot(k - 1)
  BY <1>3, AddRootList
<1>6. 1 \in 1 .. n /\ 1 \in 1 .. m /\ \A k \in 2 .. m : k \in 1 .. m /\ k - 1 \in 1 .. n
  BY <1>4, StorageAssumption
<1>7. PICK ts : ts = TreeList
  OBVIOUS
<1>8. PICK us : us = TreeList'
  OBVIOUS
<1>9. /\ ts = [k \in 1 .. n |-> TreeIn(fs, ListedRoot(k))]
      /\ us = [k \in 1 .. m |-> TreeIn(fs, ListedRoot(k)')]
  BY <1>1, <1>2, <1>3, <1>7, <1>8, TreeListIs
<1>10. /\ ts[1] = TreeIn(fs, rl[0].rnum) /\ us[1] = TreeIn(fs, job.new)
       /\ \A k \in 2 .. m : us[k] = ts[k - 1]
       /\ us = [k \in 1 .. m |-> us[k]] /\ ts = [k \in 1 .. n |-> ts[k]]
  BY <1>5, <1>6, <1>9
<1>11. PICK T : T = {ts[k] : k \in 1 .. n} \cup {us[1]}
  OBVIOUS
<1>12. us = Pushed(us[1], ts)
  <2>1. us[1] \in T /\ ts \in Seq(T) /\ Len(ts) = n
    BY <1>4, <1>10, <1>11
  <2>2. us = [k \in 1 .. m |-> IF k = 1 THEN us[1] ELSE ts[k - 1]]
    <3>1. \A k \in 1 .. m : us[k] = IF k = 1 THEN us[1] ELSE ts[k - 1]
      <4> TAKE k \in 1 .. m
      <4>1. k = 1 \/ k \in 2 .. m
        BY <1>4, StorageAssumption
      <4> QED
        BY <1>10, <4>1
    <3> QED
      BY <1>10, <3>1
  <2> QED
    BY <1>4, <2>1, <2>2, PushedIs
<1>13. PICK f, x : \E q \in Calls : /\ q.call = job.call /\ q.path = job.path
                                    /\ Made(fs, rl[0].rnum, job.new, f, x, q)
  BY <1>1, RootMade
<1>14. PICK q \in Calls : Made(fs, rl[0].rnum, job.new, f, x, q)
  BY <1>13
<1>15. us[1] \in Snap!Result(ts[1], q)
  <2>1. fs \in Table
    BY DEF TypeOK
  <2>2. TreeOf(job.new) \in Snap!Result(TreeOf(rl[0].rnum), q)
    BY <1>14, <2>1, MadeTree
  <2>3. \A r : TreeOf(r) = TreeIn(fs, r)
    BY DEF TreeOf, TreeIn
  <2> QED
    BY <1>10, <2>2, <2>3
<1> QED
  BY <1>7, <1>8, <1>12, <1>15

(* Every step makes a tree or leaves the list of trees alone.              *)
LEMMA SnapStep ==
  ASSUME PlainHistory
  PROVE  /\ TypeOK /\ Collectable /\ Mirrored /\ Listing
         /\ TypeOK' /\ Collectable' /\ Listing' /\ [Next]_vars
         => [Snap!Next]_TreeList
<1> SUFFICES ASSUME TypeOK, Collectable, Mirrored, Listing,
                    TypeOK', Collectable', Listing', [Next]_vars
             PROVE  [Snap!Next]_TreeList
  OBVIOUS
<1>1. CASE AddRoot
  <2>1. PICK t \in UNION {Snap!Result(TreeList[1], q) : q \in Calls} : TreeList' = Pushed(t, TreeList)
    BY <1>1, AddRootSnap
  <2>2. CASE TreeList' # TreeList
    BY <2>1, <2>2 DEF Snap!Next, TreeList, Pushed
  <2> QED
    BY <2>2
<1>2. CASE Resting \/ RL!Shift \/ RL!StoreRnum \/ RL!StoreVnum \/ RL!StoreOp
  BY <1>2, RestingSame, PushSame, StoreOpSame, SameTrees
<1>3. CASE Going /\ rl' = rl /\ ii' = ii
  <2>1. \A s : BeforeShift(s)' = BeforeShift(s)
    BY <1>3 DEF BeforeShift
  <2> QED
    BY <1>3, <2>1, NumListedIs, GoingSame, SameTrees
<1> QED
  BY <1>1, <1>2, <1>3, ListSteps

(* The list of a new image holds the tree of the root directory alone.     *)
LEMMA SnapInit == Init => Snap!Init
<1> SUFFICES ASSUME Init PROVE Snap!Init
  OBVIOUS
<1>1. /\ fs.ino[0].mode = "dir" /\ fs.ino[0].data = <<>>
      /\ ph = "off" /\ rl[0].rnum = 0 /\ rl[0].vnum = 1
      /\ \A s \in RL!Slot \ {0} : rl[s].vnum = 0
  BY NumFacts, SlotFacts DEF Init, Zeroed, RL!ZeroSlot
<1>2. NumListed = 1
  <2>1. Used = {0}
    BY <1>1, SlotFacts DEF Used
  <2>2. Cardinality({0}) = 1
    BY FS_Singleton
  <2> QED
    BY <1>1, <2>1, <2>2 DEF NumListed, Pushing, Used
<1>3. \A p \in Path : IF p = Root THEN Lookup(fs, p, 0) = 0 ELSE Lookup(fs, p, 0) < 0
  <2> TAKE p \in Path
  <2>1. PICK i : i = Lookup(fs, p, 0)
    OBVIOUS
  <2>2. i \in Int /\ i <= 0 /\ (i = 0 <=> p = Root)
    BY <2>1, NewRoot, PathFacts DEF Root
  <2> QED
    BY <2>1, <2>2
<1>4. TreeIn(fs, 0) = {Snap!Object({Root}, "dir", <<>>)}
  <2>1. Present(fs, 0) = {Root}
    <3>1. \A p \in Path : Lookup(fs, p, 0) >= 0 <=> p = Root
      <4> TAKE p \in Path
      <4>1. PICK i : i = Lookup(fs, p, 0)
        OBVIOUS
      <4>2. i \in Int
        BY <4>1, NewRoot, PathFacts
      <4>3. i >= 0 <=> p = Root
        BY <1>3, <4>1, <4>2
      <4> QED
        BY <4>1, <4>3
    <3> QED
      BY <3>1, PathFacts DEF Present
  <2>2. Reach(fs, 0) = {0}
    BY <1>3, <2>1, PathFacts DEF Reach
  <2>3. {p \in Path : Lookup(fs, p, 0) = 0} = {Root}
    BY <1>3, PathFacts
  <2> QED
    BY <1>1, <2>2, <2>3 DEF TreeIn, Snap!Object
<1>5. TreeList = <<{Snap!Object({Root}, "dir", <<>>)}>>
  <2>1. 1 \in 1 .. NumListed /\ \A k \in 1 .. NumListed : ListedRoot(k) = 0
    BY <1>1, <1>2 DEF ListedRoot, Pushing
  <2>2. TreeList = [k \in 1 .. 1 |-> TreeIn(fs, 0)]
    BY <1>2, <2>1, TreeListIs
  <2>3. \A t : [k \in 1 .. 1 |-> t] = <<t>>
    OBVIOUS
  <2> QED
    BY <1>4, <2>2, <2>3
<1> QED
  BY <1>5 DEF Snap!Init, Snap!Root, Root, TreeList

(* Step by step of the climb, the collection and the push, the handlers    *)
(* make whole trees out of the newest one and change no other: in a plain  *)
(* history, with room for every copy, they implement module Snapshots.     *)
THEOREM SnapshotsImplemented ==
  ASSUME PlainHistory, Roomy
  PROVE  Spec => ImplementsSnapshots
<1> DEFINE I == TypeOK /\ Collectable /\ Mirrored /\ Listing
<1>1. Init => I /\ Snap!Init
  BY StorageInit, CollectInit, MirroredInit, ListingInit, SnapInit
<1>2. I /\ [Next]_vars => I'
  BY StorageStep, CollectStep, MirroredStep, ListingStep
<1>3. I /\ I' /\ [Next]_vars => [Snap!Next]_([k \in 1 .. NumListed |-> TreeOf(ListedRoot(k))])
  BY SnapStep DEF TreeList
<1> QED
  BY <1>1, <1>2, <1>3, PTL DEF Spec, ImplementsSnapshots, Snap!Spec
=============================================================================
