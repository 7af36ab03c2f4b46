-------------------------- MODULE StorageAccounts --------------------------
(***************************************************************************)
(* Every inode is accounted for.  The collector frees all that it should:  *)
(* what is allocated is read by a version in the list or by what a handler *)
(* is about to add, or is on the way of the collection.  And the           *)
(* references of a file are those of its names, and a link adds one.       *)
(***************************************************************************)
EXTENDS StorageSnapshots

-----------------------------------------------------------------------------
(* Ways.                                                                   *)

\* Every prefix of t leads to an inode of its own, and only the empty one
\* to inode 0.
Chain(d, r, t) ==
    \A p, q \in Seq(Name) : IsPrefixOf(p, t) /\ IsPrefixOf(q, t) =>
        LET i == Lookup(d, p, r)
        IN  i \in Inum /\ (i = 0 => p = <<>>) /\ (i = Lookup(d, q, r) => p = q)

(* A path that leads somewhere has a way.                                  *)
LEMMA FoundWay ==
  ASSUME NEW d, NEW r, NEW t \in Seq(Name), Lookup(d, t, r) >= 0,
         \A p \in Seq(Name) : Lookup(d, p, r) \in Int
  PROVE  \A p \in Seq(Name) : IsPrefixOf(p, t) => Lookup(d, p, r) >= 0
<1> DEFINE S == {p \in Seq(Name) : Lookup(d, p, r) < 0 =>
                    \A q \in Seq(Name) : IsPrefixOf(p, q) => Lookup(d, q, r) < 0}
           T(p) == {q \in Seq(Name) : IsPrefixOf(p, q) => Lookup(d, q, r) < 0}
<1>1. ASSUME NEW p \in Seq(Name), Lookup(d, p, r) < 0, p # <<>>
      PROVE  T(p) = Seq(Name)
  <2>1. <<>> \in T(p)
    <3>1. Len(p) \in Nat \ {0}
      BY <1>1, ParentPath
    <3>2. ~IsPrefixOf(p, <<>>)
      BY <3>1 DEF IsPrefixOf
    <3> QED
      BY <3>2
  <2>2. ASSUME NEW q \in Seq(Name), q # <<>>, SubSeq(q, 1, Len(q) - 1) \in T(p)
        PROVE  q \in T(p)
    <3> DEFINE w == SubSeq(q, 1, Len(q) - 1)
    <3> SUFFICES ASSUME IsPrefixOf(p, q) PROVE Lookup(d, q, r) < 0
      OBVIOUS
    <3>1. /\ Len(q) \in Nat \ {0} /\ w \in Seq(Name) /\ Len(w) = Len(q) - 1
          /\ \A k \in 1 .. Len(q) - 1 : w[k] = q[k]
      BY <2>2, ParentPath
    <3>2. CASE Len(p) = Len(q)
      <4>1. p = q
        BY <3>2, PrefixFacts, SamePrefix
      <4> QED
        BY <1>1, <4>1
    <3>3. CASE Len(p) # Len(q)
      <4>1. Len(p) \in Nat
        OBVIOUS
      <4>2. Len(p) <= Len(q) /\ \A k \in 1 .. Len(p) : p[k] = q[k]
        BY DEF IsPrefixOf
      <4>3. Len(p) <= Len(w)
        BY <3>1, <3>3, <4>1, <4>2
      <4>4. \A k \in 1 .. Len(p) : k \in 1 .. Len(q) - 1
        BY <3>1, <4>1, <4>3
      <4>5. IsPrefixOf(p, w)
        BY <3>1, <4>2, <4>3, <4>4 DEF IsPrefixOf
      <4>6. Lookup(d, w, r) < 0
        BY <2>2, <3>1, <4>5
      <4> QED
        BY <2>2, <4>6, LookupStep DEF Lookup
    <3> QED
      BY <3>2, <3>3
  <2>3. T(p) \in SUBSET Seq(Name)
    OBVIOUS
  <2> HIDE DEF T
  <2> QED
    BY <2>1, <2>2, <2>3, PathInduction
<1>2. SUFFICES ASSUME NEW p \in Seq(Name), IsPrefixOf(p, t), Lookup(d, p, r) < 0 PROVE FALSE
  <2> SUFFICES ASSUME NEW p \in Seq(Name), IsPrefixOf(p, t) PROVE Lookup(d, p, r) >= 0
    OBVIOUS
  <2>1. Lookup(d, p, r) \in Int
    OBVIOUS
  <2>2. ~(Lookup(d, p, r) < 0)
    BY <1>2
  <2> QED
    BY <2>1, <2>2
<1>3. Lookup(d, t, r) \in Int
  OBVIOUS
<1>4. CASE p = <<>>
  <2>1. Lookup(d, p, r) = r /\ r < 0
    BY <1>2, <1>4, LookupRoot DEF Lookup
  <2> DEFINE U == {q \in Seq(Name) : Lookup(d, q, r) < 0}
  <2>2. <<>> \in U
    BY <1>2, <1>4
  <2>3. \A q \in Seq(Name) : q # <<>> /\ SubSeq(q, 1, Len(q) - 1) \in U => q \in U
    BY LookupStep DEF Lookup
  <2>4. U \in SUBSET Seq(Name)
    OBVIOUS
  <2> HIDE DEF U
  <2>5. U = Seq(Name)
    BY <2>2, <2>3, <2>4, PathInduction
  <2> QED
    BY <1>3, <2>5 DEF U
<1>5. CASE p # <<>>
  <2>1. t \in T(p)
    BY <1>1, <1>2, <1>5
  <2> QED
    BY <1>2, <1>3, <2>1
<1> QED
  BY <1>4, <1>5

(* In a version a path that leads somewhere leads there past inodes of     *)
(* their own.                                                              *)
LEMMA TreeChain ==
  ASSUME NEW d \in Table, NEW r, NEW V, NEW D \in Depth, Tree(d, r, V, D), D[0] = 0,
         NEW t \in Seq(Name), Lookup(d, t, r) >= 0
  PROVE  Chain(d, r, t)
<1>1. \A p \in Seq(Name) :
         LET i == Lookup(d, p, r) IN i \in Int /\ (i < 0 \/ (i \in V /\ D[i] = Len(p)))
  BY TreeLookup
<1>2. V \subseteq Inum
  BY TableParts DEF Tree
<1>3. \A p \in Seq(Name) : IsPrefixOf(p, t) => Lookup(d, p, r) >= 0
  BY <1>1, FoundWay
<1>4. \A p \in Seq(Name) : IsPrefixOf(p, t) =>
         LET i == Lookup(d, p, r) IN i \in Inum /\ D[i] = Len(p)
  BY <1>1, <1>2, <1>3
<1> SUFFICES ASSUME NEW p \in Seq(Name), NEW q \in Seq(Name), IsPrefixOf(p, t), IsPrefixOf(q, t)
             PROVE  LET i == Lookup(d, p, r)
                    IN  i \in Inum /\ (i = 0 => p = <<>>) /\ (i = Lookup(d, q, r) => p = q)
  BY DEF Chain
<1>5. Lookup(d, p, r) = 0 => p = <<>>
  BY <1>4
<1>6. Lookup(d, p, r) = Lookup(d, q, r) => p = q
  BY <1>4, SamePrefix
<1> QED
  BY <1>4, <1>5, <1>6

\* The way along t is that along u in e, and the inode i.
Shortened(d, e, r, t, u, i) ==
    Chain(e, r, u) /\ \A j \in Way(d, r, t, 0) : j = i \/ j \in Way(e, r, u, 0)

(* When the last inode of a way is freed the rest of it stays.             *)
LEMMA ChainFreed ==
  ASSUME NEW d \in Table, NEW r, NEW t \in Seq(Name), t # <<>>, Chain(d, r, t),
         NEW i, i = Lookup(d, t, r), NEW u, u = SubSeq(t, 1, Len(t) - 1),
         NEW e, e = free_inode(d, i)
  PROVE  Shortened(d, e, r, t, u, i)
<1>1. /\ Len(t) \in Nat \ {0} /\ u \in Seq(Name) /\ Len(u) = Len(t) - 1
      /\ \A k \in 1 .. Len(t) - 1 : u[k] = t[k]
  BY ParentPath
<1>2. i \in Inum
  BY PrefixFacts DEF Chain
<1>3. \A j \in Num \ {i} : e.ino[j] = d.ino[j]
  BY <1>2, FreeOthers
<1>4. \A p \in Seq(Name) : Len(p) \in Nat /\ Len(p) >= 0
  OBVIOUS
<1>5. \A p \in Seq(Name) : IsPrefixOf(p, u) => IsPrefixOf(p, t) /\ p # t
  <2> SUFFICES ASSUME NEW p \in Seq(Name), IsPrefixOf(p, u) PROVE IsPrefixOf(p, t) /\ p # t
    OBVIOUS
  <2>1. Len(p) \in Nat /\ Len(p) <= Len(u) /\ \A k \in 1 .. Len(p) : p[k] = u[k]
    BY DEF IsPrefixOf
  <2>2. \A k \in 1 .. Len(p) : k \in 1 .. Len(t) - 1
    BY <1>1, <2>1
  <2> QED
    BY <1>1, <2>1, <2>2 DEF IsPrefixOf
<1>6. \A p \in Seq(Name) : IsPrefixOf(p, t) => p = t \/ IsPrefixOf(p, u)
  <2> SUFFICES ASSUME NEW p \in Seq(Name), IsPrefixOf(p, t), p # t PROVE IsPrefixOf(p, u)
    OBVIOUS
  <2>1. Len(p) # Len(t)
    BY SamePrefix, PrefixFacts
  <2>2. Len(p) \in Nat /\ Len(p) <= Len(t) /\ \A k \in 1 .. Len(p) : p[k] = t[k]
    BY DEF IsPrefixOf
  <2>3. Len(p) <= Len(u) /\ \A k \in 1 .. Len(p) : k \in 1 .. Len(t) - 1
    BY <1>1, <2>1, <2>2
  <2> QED
    BY <1>1, <2>2, <2>3 DEF IsPrefixOf
<1> DEFINE S == {p \in Seq(Name) : IsPrefixOf(p, u) => Lookup(e, p, r) = Lookup(d, p, r)}
<1>7. S = Seq(Name)
  <2>1. <<>> \in S
    BY LookupRoot DEF Lookup
  <2>2. ASSUME NEW p \in Seq(Name), p # <<>>, SubSeq(p, 1, Len(p) - 1) \in S PROVE p \in S
    <3> DEFINE w == SubSeq(p, 1, Len(p) - 1)
    <3> SUFFICES ASSUME IsPrefixOf(p, u) PROVE Lookup(e, p, r) = Lookup(d, p, r)
      OBVIOUS
    <3>1. w \in Seq(Name) /\ IsPrefixOf(w, u)
      BY <1>1, <2>2, ParentPath, PrefixFacts
    <3>2. Lookup(e, w, r) = Lookup(d, w, r)
      BY <2>2, <3>1
    <3>3. IsPrefixOf(w, t) /\ w # t /\ IsPrefixOf(t, t)
      BY <1>5, <3>1, PrefixFacts
    <3>4. Lookup(d, w, r) \in Inum /\ Lookup(d, w, r) # i
      BY <3>1, <3>3 DEF Chain
    <3>5. e.ino[Lookup(d, w, r)] = d.ino[Lookup(d, w, r)]
      BY <1>3, <3>4 DEF Num
    <3>6. /\ Lookup(e, p, r) = directory_lookup(e.ino[Lookup(e, w, r)], p[Len(p)])
          /\ Lookup(d, p, r) = directory_lookup(d.ino[Lookup(d, w, r)], p[Len(p)])
      <4>1. e \in Table
        BY FreeType
      <4> QED
        BY <2>2, <3>2, <3>4, <4>1, LastName
    <3> QED
      BY <3>2, <3>5, <3>6
  <2>3. S \in SUBSET Seq(Name)
    OBVIOUS
  <2> HIDE DEF S
  <2> QED
    BY <2>1, <2>2, <2>3, PathInduction
<1>8. \A p \in Seq(Name) : IsPrefixOf(p, u) => Lookup(e, p, r) = Lookup(d, p, r)
  BY <1>7
<1>9. Chain(e, r, u)
  BY <1>5, <1>8 DEF Chain
<1>10. \A j \in Way(d, r, t, 0) : j = i \/ j \in Way(e, r, u, 0)
  <2>1. IsPrefixOf(t, t)
    BY PrefixFacts
  <2> QED
    BY <1>4, <1>5, <1>6, <1>8, <2>1 DEF Way
<1> QED
  BY <1>9, <1>10 DEF Shortened

-----------------------------------------------------------------------------
(* The inductive invariant.                                                *)

\* What the theorems assume of the world beside PlainHistory and Roomy: a
\* handler that has begun comes to its end, and no request makes a
\* directory that the next one would refuse.
Tidy ==
    /\ KillAt \subseteq {"serve"}
    /\ \A q \in Calls : q.call \in {"mknod", "chmod"} => q.mode # "odd"

NoOdd == \A i \in fs.ibm : fs.ino[i].mode # "odd"

\* Of the inodes of version ro, those that the version rn after it has not
\* are on the way that the label of rn names.
Follows(d, ro, op, rn) ==
    \/ Reach(d, ro) \subseteq {0}
    \/ /\ op.call \in Copying
       /\ Lookup(d, Named(op), ro) >= 0
       /\ Reach(d, ro) \subseteq Reach(d, rn) \cup Way(d, ro, Named(op), 0)

\* Slot by slot, but for the version that is given up and where the shift
\* has made two slots the same.
Succession ==
    /\ \A s \in 0 .. Oldest - 1 : Proper(s) /\ Live(s + 1) =>
          Follows(fs, rl[s + 1].rnum, rl[s].op, rl[s].rnum)
    /\ ph \in {"gc", "shift", "rnum"} => Follows(fs, rl[0].rnum, entry.op, entry.rnum)
    /\ ph \in {"vnum", "op"} => Follows(fs, rl[1].rnum, entry.op, rl[0].rnum)

\* Slots that are not in use, and the one of a new image, hold root 0; and
\* a full list is one whose head has a number that says so.
Moved(s) == IF ph \in {"shift", "rnum", "vnum"} /\ s > ii THEN 1 ELSE 0

Numbers ==
    /\ \A s \in RL!Slot : rl[s].vnum = 0 => rl[s].rnum = 0
    /\ \A s \in RL!Slot : rl[s].vnum > 0 => rl[s].vnum + s <= rl[0].vnum + Moved(s)
    /\ \A s \in RL!Slot :
          rl[s].op.call = "init" => rl[s].rnum = 0 \/ (s = 0 /\ ph \in {"vnum", "op"})
    /\ Pushing => entry.op.call \in Copying /\ job.stage = "push"

\* What the collection has still to free.
Uncollected(j) ==
    /\ ph = "gc" /\ job.gc # NoPath
    /\ Chain(fs, FreedRoot, job.gc)
    /\ j \in Way(fs, FreedRoot, job.gc, 0)

Listed(j) ==
    \/ \E s \in RL!Slot : Live(s) /\ j \in Reach(fs, rl[s].rnum)
    \/ ph \in {"gc", "shift", "rnum"} /\ j \in Reach(fs, entry.rnum)

\* Request q has made x and the copies f on its way so far: a file's copy
\* has the references of the file, and mknod gives two to what it makes.
Underway(f, x, q) ==
    LET way == Way(fs, rl[0].rnum, Named(q), Len(job.left))
    IN  /\ Come(f, x, q)
        /\ \A j \in fs.ibm \ {0} :
              Listed(j) \/ (\E i \in way : j = f[i]) \/ \E k \in 1 .. Len(x) : j = x[k].inum
        /\ \A i \in way : fs.ino[f[i]].mode = "file" => fs.ino[f[i]].refs = fs.ino[i].refs
        /\ q.call = "mknod" => \A k \in 1 .. Len(x) : fs.ino[x[k].inum].refs = 2

Accounted ==
    IF job.stage = "climb"
    THEN \E f, x : \E q \in Calls : Underway(f, x, q)
    ELSE \A j \in fs.ibm \ {0} : Listed(j) \/ Uncollected(j)

\* The files that root r reads in d have two references for each name, and
\* those of S two more.
Counted(d, r, S) ==
    \A p \in Present(d, r) :
        LET i == Lookup(d, p, r)
            n == {u \in Path : Lookup(d, u, r) = i}
        IN  d.ino[i].mode = "file" =>
                /\ IsFiniteSet(n)
                /\ d.ino[i].refs = 2 * Cardinality(n) + IF i \in S THEN 2 ELSE 0

\* The file that a link has counted and not yet named.
Linked ==
    IF job.stage = "climb" /\ job.call = "link"
    THEN {Lookup(fs, job.path, rl[0].rnum)} ELSE {}

\* From add_root on it is the version on its way that counts.
References ==
    IF ph \in {"gc", "shift", "rnum"}
    THEN Counted(fs, entry.rnum, {}) ELSE Counted(fs, rl[0].rnum, Linked)

Accounts == NoOdd /\ Succession /\ Numbers /\ Accounted /\ References

(* A steady version reads the same inodes.                                 *)
LEMMA SteadyReach ==
  ASSUME NEW d, NEW e, NEW r, Steady(d, e, r)
  PROVE  Reach(e, r) = Reach(d, r)
<1>1. \A p \in Path : Lookup(e, p, r) = Lookup(d, p, r)
  BY PathFacts DEF Steady
<1> QED
  BY <1>1 DEF Reach, Present

(* Steady versions follow each other as before.                            *)
LEMMA FollowsOn ==
  ASSUME NEW d, NEW e, NEW ro, NEW rn, Steady(d, e, ro), Steady(d, e, rn),
         NEW op \in Labels, Follows(d, ro, op, rn)
  PROVE  Follows(e, ro, op, rn)
<1>1. Reach(e, ro) = Reach(d, ro) /\ Reach(e, rn) = Reach(d, rn)
  BY SteadyReach
<1>2. \A p \in Seq(Name) : Lookup(e, p, ro) = Lookup(d, p, ro)
  BY DEF Steady
<1>3. \A t : Way(e, ro, t, 0) = Way(d, ro, t, 0)
  BY <1>2 DEF Way
<1>4. op.call \in Copying => Named(op) \in Seq(Name)
  BY PathFacts DEF Named, Labels, Copying, OnParent, OnPath
<1> QED
  BY <1>1, <1>2, <1>3, <1>4 DEF Follows

(* Root 0 reads nothing but inode 0.                                       *)
LEMMA EmptyRoot ==
  ASSUME NEW d \in Table, 0 \in d.ibm, d.ino[0].ent = <<>>
  PROVE  Reach(d, 0) \subseteq {0}
<1>1. PICK D : D = [i \in Inum |-> 0]
  OBVIOUS
<1>2. D \in Depth /\ D[0] = 0
  BY <1>1, NumFacts DEF Depth
<1>3. Ents(d, 0) = {}
  BY DEF Ents
<1>4. Tree(d, 0, {0}, D)
  BY <1>2, <1>3, RootTree
<1>5. \A p \in Path : Lookup(d, p, 0) < 0 \/ Lookup(d, p, 0) = 0
  BY <1>2, <1>4, TreeLookup, PathFacts
<1>6. \A p \in Path : Lookup(d, p, 0) \in Int
  BY <1>2, <1>4, TreeLookup, PathFacts
<1>7. \A p \in Path : Lookup(d, p, 0) >= 0 => Lookup(d, p, 0) = 0
  BY <1>5, <1>6
<1> QED
  BY <1>7 DEF Reach, Present

(* Between handlers nothing leaks.                                         *)
LEMMA AccountsNoLeak ==
  ASSUME TypeOK, Collectable, Accounts
  PROVE  NoLeak
<1> SUFFICES ASSUME job = NoJob, NEW j \in fs.ibm \ {0}
             PROVE  \E s \in Kept : j \in Reach(fs, rl[s].rnum)
  BY DEF NoLeak
<1>1. job.stage = "serve"
  BY DEF NoJob
<1>2. ph \in {"idle", "off"}
  BY <1>1 DEF Accounts, Numbers, Pushing
<1>3. PICK s \in RL!Slot : j \in Reach(fs, rl[s].rnum)
  BY <1>1, <1>2 DEF Accounts, Accounted, Listed, Uncollected
<1>4. rl[s].vnum > 0
  <2>1. rl[s].vnum \in Nat
    BY DEF TypeOK, RL!TypeOK, RL!cow_version
  <2>2. rl[s].vnum # 0
    <3> SUFFICES ASSUME rl[s].vnum = 0 PROVE FALSE
      OBVIOUS
    <3>1. rl[s].rnum = 0
      BY DEF Accounts, Numbers
    <3>2. Reach(fs, 0) \subseteq {0}
      BY EmptyRoot DEF TypeOK, Collectable, Plain, Modes
    <3> QED
      BY <1>3, <3>1, <3>2
  <2> QED
    BY <2>1, <2>2
<1> QED
  BY <1>2, <1>3, <1>4 DEF Kept

(* What a request has made follows the version it was made from.           *)
LEMMA ChangedFollows ==
  ASSUME NEW d \in Table, NEW r, NEW V, NEW D \in Depth, Tree(d, r, V, D),
         NEW f, NEW x, NEW q \in Calls, q.call \in Copying, x \in Seq(ddirent),
         Named(q) \in Seq(Name), Changed(d, r, f, x, q, 0)
  PROVE  Follows(d, r, q, f[r])
<1>1. /\ Copied(d, r, Named(q), 0, f, x)
      /\ Lookup(d, Named(q), r) \in Inum
  BY DEF Changed, Effect
<1>2. Lookup(d, Named(q), r) >= 0
  <2>1. PICK z : z = Lookup(d, Named(q), r)
    OBVIOUS
  <2>2. z \in Nat
    BY <1>1, <2>1, NumFacts
  <2>3. z >= 0
    BY <2>2
  <2> QED
    BY <2>1, <2>3
<1>3. V \subseteq Inum
  BY TableParts DEF Tree
<1>4. ASSUME NEW p \in Path, Lookup(d, p, r) >= 0, Lookup(d, p, r) \notin Way(d, r, Named(q), 0)
      PROVE  Lookup(d, p, r) \in Reach(d, f[r])
  <2>1. Lookup(d, p, f[r]) = f[Lookup(d, p, r)] /\ Lookup(d, p, r) \in V
    BY <1>1, <1>4, CopyLookup, PathFacts
  <2>2. f[Lookup(d, p, r)] = Lookup(d, p, r)
    BY <1>1, <1>3, <1>4, <2>1 DEF Copied
  <2>3. p \in Present(d, f[r])
    BY <1>4, <2>1, <2>2 DEF Present
  <2> QED
    BY <2>1, <2>2, <2>3 DEF Reach
<1>5. Reach(d, r) \subseteq Reach(d, f[r]) \cup Way(d, r, Named(q), 0)
  <2> SUFFICES ASSUME NEW p \in Present(d, r), Lookup(d, p, r) \notin Way(d, r, Named(q), 0)
               PROVE  Lookup(d, p, r) \in Reach(d, f[r])
    BY DEF Reach
  <2> QED
    BY <1>4 DEF Present
<1> QED
  BY <1>2, <1>5 DEF Follows

(* Between handlers a file has two references for each name.               *)
LEMMA AccountsNames ==
  ASSUME Accounts
  PROVE  RefsCoverNames
<1> SUFFICES ASSUME job = NoJob, NEW p \in Present(fs, rl[0].rnum),
                    fs.ino[Lookup(fs, p, rl[0].rnum)].mode = "file"
             PROVE  LET i == Lookup(fs, p, rl[0].rnum)
                    IN  fs.ino[i].refs
                          = 2 * Cardinality({q \in Path : Lookup(fs, q, rl[0].rnum) = i})
  BY DEF RefsCoverNames
<1>1. ph \in {"idle", "off"} /\ Linked = {}
  BY DEF Accounts, Numbers, Pushing, NoJob, Linked
<1>2. PICK i, n, r : /\ r = rl[0].rnum /\ i = Lookup(fs, p, r)
                     /\ n = Cardinality({q \in Path : Lookup(fs, q, r) = i})
  OBVIOUS
<1>3. Counted(fs, r, {})
  BY <1>1, <1>2 DEF Accounts, References
<1>4. fs.ino[i].refs = 2 * n + 0 /\ IsFiniteSet({q \in Path : Lookup(fs, q, r) = i})
  BY <1>2, <1>3 DEF Counted
<1>5. n \in Nat
  BY <1>2, <1>4, FS_CardinalityType
<1>6. fs.ino[i].refs = 2 * n
  BY <1>4, <1>5
<1> QED
  BY <1>2, <1>6

(* A steady version has the names it had, and its files the references but *)
(* for what a link has counted.                                            *)
LEMMA CountedOn ==
  ASSUME NEW d \in Table, NEW e, NEW r, Steady(d, e, r), NEW S, NEW T, S \subseteq T,
         Counted(d, r, S),
         \A i \in Reach(d, r) :
            e.ino[i].refs = d.ino[i].refs + IF i \in T \ S THEN 2 ELSE 0
  PROVE  Counted(e, r, T)
<1> SUFFICES ASSUME NEW p \in Present(e, r), e.ino[Lookup(e, p, r)].mode = "file"
             PROVE  LET i == Lookup(e, p, r)
                        n == {u \in Path : Lookup(e, u, r) = i}
                    IN  /\ IsFiniteSet(n)
                        /\ e.ino[i].refs = 2 * Cardinality(n) + IF i \in T THEN 2 ELSE 0
  BY DEF Counted
<1>1. \A u \in Path : Lookup(e, u, r) = Lookup(d, u, r)
  BY PathFacts DEF Steady
<1>2. p \in Path /\ p \in Present(d, r)
  BY <1>1 DEF Present
<1>3. PICK i, n : i = Lookup(d, p, r) /\ n = {u \in Path : Lookup(d, u, r) = i}
  OBVIOUS
<1>4. i \in Reach(d, r) /\ Lookup(e, p, r) = i /\ {u \in Path : Lookup(e, u, r) = i} = n
  BY <1>1, <1>2, <1>3 DEF Reach
<1>5. d.ino[i].mode = "file" /\ i \in Inum
  <2>1. i \in Inum /\ Shown(e.ino[i]) = Shown(d.ino[i])
    BY <1>2, <1>3, PathFacts DEF Steady, Present
  <2> QED
    BY <1>4, <2>1 DEF Shown
<1>6. IsFiniteSet(n) /\ d.ino[i].refs = 2 * Cardinality(n) + IF i \in S THEN 2 ELSE 0
  BY <1>2, <1>3, <1>5 DEF Counted
<1>7. PICK k : k = Cardinality(n)
  OBVIOUS
<1>8. k \in Nat
  BY <1>6, <1>7, FS_CardinalityType
<1>9. e.ino[i].refs = d.ino[i].refs + IF i \in T \ S THEN 2 ELSE 0
  BY <1>4
<1>10. e.ino[i].refs = 2 * k + IF i \in T THEN 2 ELSE 0
  BY <1>6, <1>7, <1>8, <1>9
<1> QED
  BY <1>4, <1>6, <1>7, <1>10

(* What a version reads is allocated.                                      *)
LEMMA ReachTaken ==
  ASSUME NEW d \in Table, NEW r, Treed(d, r)
  PROVE  Reach(d, r) \subseteq d.ibm
<1>1. PICK V, D : D \in Depth /\ Tree(d, r, V, D)
  BY DEF Treed
<1>2. ASSUME NEW p \in Path, Lookup(d, p, r) >= 0
      PROVE  Lookup(d, p, r) \in d.ibm
  <2>1. PICK i : i = Lookup(d, p, r)
    OBVIOUS
  <2>2. i \in Int /\ (i < 0 \/ i \in V)
    BY <1>1, <2>1, TreeLookup, PathFacts
  <2>3. i \in V
    BY <1>2, <2>1, <2>2
  <2> QED
    BY <1>1, <2>1, <2>3 DEF Tree
<1> QED
  BY <1>2 DEF Reach, Present

-----------------------------------------------------------------------------
(* Steps outside the push.                                                 *)

(* A step that leaves the list alone outside the push leaves its versions  *)
(* alone.                                                                  *)
LEMMA RestingSteady ==
  ASSUME TypeOK, TypeOK', Collectable, Collectable', [Next]_vars, Resting, NEW s \in RL!Slot
  PROVE  /\ Live(s) /\ Live(s)' /\ rl'[s] = rl[s]
         /\ Steady(fs, fs', rl[s].rnum) /\ Treed(fs, rl[s].rnum) /\ Treed(fs', rl[s].rnum)
<1>1. rl' = rl /\ Live(s) /\ Live(s)'
  BY DEF Resting, Calm, Live
<1>2. Treed(fs, rl[s].rnum) /\ Treed(fs', rl[s].rnum)
  BY <1>1, ListTreed, ListTreedNext
<1> QED
  BY <1>1, <1>2, StepSteady

(* So they follow each other as before, with the numbers they had, and     *)
(* read what they read.                                                    *)
LEMMA RestingAccounts ==
  ASSUME TypeOK, TypeOK', Collectable, Collectable', [Next]_vars, Resting, Accounts
  PROVE  /\ Succession' /\ Numbers'
         /\ \A j : Listed(j) => Listed(j)'
<1>1. /\ rl' = rl /\ ph \in {"idle", "off"} /\ ph' \in {"idle", "off"}
      /\ rl \in [RL!Slot -> RL!cow_version]
  BY DEF Resting, Calm, TypeOK, RL!TypeOK
<1>2. \A s \in RL!Slot : Live(s) /\ Live(s)' /\ Steady(fs, fs', rl[s].rnum)
  BY RestingSteady
<1>3. Succession'
  <2> SUFFICES ASSUME NEW s \in 0 .. Oldest - 1
               PROVE  Follows(fs', rl[s + 1].rnum, rl[s].op, rl[s].rnum)
    BY <1>1 DEF Succession
  <2>1. s \in RL!Slot /\ s + 1 \in RL!Slot
    BY SlotFacts DEF RL!Slot, Oldest
  <2>2. Proper(s) /\ rl[s].op \in Labels
    BY <1>1, <2>1 DEF Proper, RL!cow_version
  <2>3. Follows(fs, rl[s + 1].rnum, rl[s].op, rl[s].rnum)
    BY <1>2, <2>1, <2>2 DEF Accounts, Succession
  <2> QED
    BY <1>2, <2>1, <2>2, <2>3, FollowsOn
<1>4. Numbers'
  <2>1. \A s : Moved(s) = 0 /\ Moved(s)' = 0
    BY <1>1 DEF Moved
  <2> QED
    BY <1>1, <2>1 DEF Accounts, Numbers, Pushing
<1>5. \A j : Listed(j) => Listed(j)'
  <2>1. \A s \in RL!Slot : Reach(fs', rl[s].rnum) = Reach(fs, rl[s].rnum)
    BY <1>2, SteadyReach
  <2> QED
    BY <1>1, <1>2, <2>1 DEF Listed
<1> QED
  BY <1>3, <1>4, <1>5

(* Allocated inodes keep their modes.                                      *)
LEMMA NoOddGrow ==
  ASSUME NoOdd, Untouched(fs, fs'), \A j \in fs'.ibm \ fs.ibm : fs'.ino[j].mode # "odd"
  PROVE  NoOdd'
BY DEF NoOdd, Untouched

\* What a request has taken, and the references it has counted.
Took(q, z, c, x) ==
    /\ \A j \in fs'.ibm \ fs.ibm : j = c \/ (q.call = "mknod" /\ \E k \in 1 .. Len(x) : j = x[k].inum)
    /\ fs'.ino[c].mode = "file" => fs'.ino[c].refs = fs'.ino[z].refs
    /\ q.call = "mknod" => \A k \in 1 .. Len(x) : fs'.ino[x[k].inum].refs = 2
    /\ \A j \in fs.ibm :
          fs'.ino[j].refs = fs.ino[j].refs
              + IF q.call = "link" /\ j = Lookup(fs, q.path, rl[0].rnum) THEN 2 ELSE 0

(* A request begins.                                                       *)
LEMMA BeganAccounts ==
  ASSUME PlainHistory, Tidy, TypeOK, TypeOK', Collectable, Collectable', Mirrored, Accounts,
         [Next]_vars, ph = "idle", job.stage = "serve",
         NEW q \in Calls, NEW z, NEW c, NEW x, Began(q, z, c, x), Took(q, z, c, x)
  PROVE  Accounts'
<1>1. PICK V, D : HeadTree(V, D)
  BY HeadTreed
<1>2. /\ fs \in Table /\ fs' \in Table /\ D \in Depth /\ V \subseteq fs.ibm
      /\ UNCHANGED <<rl, ph, ii, entry>> /\ Named(q) \in Seq(Name)
      /\ q.path \in Seq(Name) /\ Untouched(fs, fs')
  BY <1>1, RequestPath DEF HeadTree, TypeOK, Began, list
<1>3. PICK r : r = rl[0].rnum
  OBVIOUS
<1>4. Tree(fs, r, V, D) /\ rl'[0].rnum = r /\ Resting
  BY <1>1, <1>2, <1>3 DEF HeadTree, Resting, Calm
<1>5. Steady(fs, fs', r) /\ Treed(fs, r)
  BY <1>3, <1>4, RestingSteady, SlotFacts
<1>6. PICK f : f = [i \in Inum |-> IF i = z THEN c ELSE i]
  OBVIOUS
<1>7. /\ z \in Inum /\ z = Lookup(fs, Named(q), r) /\ c \in fs'.ibm \ fs.ibm
      /\ x \in Seq(ddirent) /\ fs'.ino[c].ent = fs.ino[z].ent \o x
      /\ Effect(fs', r, f, x, q)
      /\ job'.stage = "climb" /\ job'.call = q.call /\ job'.path = q.path
      /\ job'.left = Named(q) /\ job'.old = z /\ job'.new = c
  BY <1>3, <1>6 DEF Began
<1>8. Changed(fs', r, f, x, q, Len(Named(q)))
  <2>1. \A i \in V : \A y \in Ents(fs, i) : y >= 0
    BY <1>2, FlatEnts DEF Mirrored
  <2> QED
    BY <1>2, <1>4, <1>6, <1>7, <2>1, ChangedFirst
<1>9. f[z] = c /\ Lookup(fs', Named(q), r) = z
  BY <1>2, <1>5, <1>6, <1>7 DEF Steady
<1>10. Way(fs', r, Named(q), Len(Named(q))) = {z}
  <2>1. IsPrefixOf(Named(q), Named(q)) /\ Len(Named(q)) \in Nat
    BY <1>2, PrefixFacts
  <2>2. ASSUME NEW p \in Seq(Name), IsPrefixOf(p, Named(q)), Len(p) >= Len(Named(q))
        PROVE  p = Named(q)
    <3>1. Len(p) = Len(Named(q))
      BY <1>2, <2>2 DEF IsPrefixOf
    <3> QED
      BY <1>2, <2>1, <2>2, <3>1, SamePrefix
  <2> QED
    BY <1>2, <1>9, <2>1, <2>2 DEF Way
<1>11. NoOdd'
  <2>1. z \in fs.ibm /\ fs'.ino[z].mode = fs.ino[z].mode
    <3>1. z < 0 \/ z \in V
      BY <1>2, <1>4, <1>7, TreeLookup
    <3>2. z \in fs.ibm
      BY <1>2, <1>7, <3>1, NumFacts
    <3> QED
      BY <1>2, <3>2 DEF Untouched
  <2>2. fs'.ino[z].mode # "odd"
    BY <2>1 DEF Accounts, NoOdd
  <2>3. fs'.ino[c].mode # "odd"
    BY <1>7, <1>9, <2>2 DEF Effect, Shown, Tidy
  <2>4. q.call = "mknod" => \A k \in 1 .. Len(x) : fs'.ino[x[k].inum].mode # "odd"
    <3> SUFFICES ASSUME q.call = "mknod" PROVE \A k \in 1 .. Len(x) : fs'.ino[x[k].inum].mode # "odd"
      OBVIOUS
    <3>1. PICK b : /\ x = <<[name |-> basename(q.path), inum |-> b]>>
                   /\ fs'.ino[b].mode = q.mode
      BY <1>7 DEF Effect
    <3> QED
      BY <3>1 DEF Tidy
  <2>5. \A j \in fs'.ibm \ fs.ibm : fs'.ino[j].mode # "odd"
    BY <2>3, <2>4 DEF Took
  <2> QED
    BY <1>2, <2>5, NoOddGrow DEF Accounts
<1>12. Accounted'
  <2>1. \A j \in fs'.ibm \ {0} :
           Listed(j)' \/ j = f[z] \/ \E k \in 1 .. Len(x) : j = x[k].inum
    <3>1. \A j \in fs.ibm \ {0} : Listed(j)
      BY DEF Accounts, Accounted, Uncollected
    <3>2. \A j \in fs.ibm \ {0} : Listed(j)'
      BY <1>4, <3>1, RestingAccounts
    <3> QED
      BY <1>9, <3>2 DEF Took
  <2>2. fs'.ino[f[z]].mode = "file" => fs'.ino[f[z]].refs = fs'.ino[z].refs
    BY <1>9 DEF Took
  <2>3. q.call = "mknod" => \A k \in 1 .. Len(x) : fs'.ino[x[k].inum].refs = 2
    BY DEF Took
  <2>4. IsPrefixOf(job'.left, Named(q))
    BY <1>2, <1>7, PrefixFacts
  <2>5. Way(fs', rl'[0].rnum, Named(q), Len(job'.left)) = {z}
    BY <1>4, <1>7, <1>10
  <2>6. Underway(f, x, q)'
    BY <1>4, <1>7, <1>8, <1>9, <2>1, <2>2, <2>3, <2>4, <2>5 DEF Underway, Come
  <2> QED
    BY <1>7, <2>6 DEF Accounted
<1>13. References'
  <2>1. Counted(fs, r, {})
    BY <1>3 DEF Accounts, References, Linked
  <2>2. Linked' = IF q.call = "link" THEN {Lookup(fs, q.path, r)} ELSE {}
    <3>1. Lookup(fs', q.path, r) = Lookup(fs, q.path, r)
      BY <1>2, <1>5 DEF Steady
    <3> QED
      BY <1>4, <1>7, <3>1 DEF Linked
  <2>3. Reach(fs, r) \subseteq fs.ibm
    BY <1>2, <1>5, ReachTaken
  <2>4. \A i \in Reach(fs, r) :
           fs'.ino[i].refs = fs.ino[i].refs + IF i \in Linked' \ {} THEN 2 ELSE 0
    <3>1. \A i : i \in Linked' \ {} <=> q.call = "link" /\ i = Lookup(fs, q.path, r)
      BY <2>2
    <3> QED
      BY <1>3, <2>3, <3>1 DEF Took
  <2>5. Counted(fs', r, Linked')
    BY <1>2, <1>5, <2>1, <2>4, CountedOn
  <2> QED
    BY <1>2, <1>4, <2>5 DEF References
<1> QED
  BY <1>4, <1>11, <1>12, <1>13, RestingAccounts DEF Accounts

(* A request that changes a copy of its inode takes that copy, with the    *)
(* references of the inode.                                                *)
LEMMA FileTook ==
  ASSUME PlainHistory, Roomy, TypeOK, Collectable, Serving, NEW q \in Calls,
         \/ q.call = "write" /\ Write(q)
         \/ q.call = "truncate" /\ Truncate(q)
         \/ q.call = "chmod" /\ Chmod(q),
         NEW z, NEW c, NEW x, Began(q, z, c, x)
  PROVE  Took(q, z, c, x)
<1> DEFINE i == tree_lookup(q.path)
           n == NextFree(fs)
           d == copy_inode(fs, i)
<1>0. /\ fs \in Table /\ q.path \in Path /\ Named(q) = q.path /\ ph = "idle"
  BY RequestPath DEF TypeOK, Serving, OnParent
<1>1. i \in Inum /\ i = Lookup(fs, q.path, rl[0].rnum)
  BY DEF Write, Truncate, Chmod, IsFile, Exists, Lookup, tree_lookup, RL!get_current_root
<1>2. /\ d \in Table /\ n \in Inum /\ n \in d.ibm \ fs.ibm /\ d.ibm = fs.ibm \cup {n}
      /\ d.ino[n] = fs.ino[i] /\ \A j \in Num \ {n} : d.ino[j] = fs.ino[j]
  BY <1>1, CopyRoom
<1>3. i \in fs.ibm /\ fs.ibm \subseteq Num
  BY <1>0, <1>1, FoundTaken, TableParts DEF Num
<1>4. (\E y : fs' = [d EXCEPT !.ino[n].data = y]) \/ (\E y : fs' = [d EXCEPT !.ino[n].mode = y])
  BY DEF Write, Truncate, Chmod, Update
<1> HIDE DEF i, n, d
<1>5. fs'.ibm = d.ibm /\ \A j \in Num : fs'.ino[j].refs = d.ino[j].refs
  <2>1. d.ino \in [Num -> inode] /\ n \in Num /\ d \in Table
    BY <1>2, TableParts DEF Num
  <2>2. ASSUME NEW y, fs' = [d EXCEPT !.ino[n].data = y]
        PROVE  fs'.ibm = d.ibm /\ \A j \in Num : fs'.ino[j].refs = d.ino[j].refs
    BY <2>1, <2>2 DEF Table, inode
  <2>3. ASSUME NEW y, fs' = [d EXCEPT !.ino[n].mode = y]
        PROVE  fs'.ibm = d.ibm /\ \A j \in Num : fs'.ino[j].refs = d.ino[j].refs
    BY <2>1, <2>3 DEF Table, inode
  <2> QED
    BY <1>4, <2>2, <2>3
<1>6. c = n /\ z = i
  <2>1. c \in fs'.ibm \ fs.ibm /\ z = Lookup(fs, Named(q), rl[0].rnum)
    BY DEF Began
  <2> QED
    BY <1>0, <1>1, <1>2, <1>5, <2>1
<1>7. \A j \in fs.ibm : fs'.ino[j].refs = fs.ino[j].refs /\ fs.ino[j].refs \in Int
  BY <1>0, <1>2, <1>3, <1>5, InodeParts
<1>8. fs'.ino[n].refs = fs.ino[i].refs
  BY <1>2, <1>5 DEF Num
<1>9. q.call \notin {"mknod", "link"}
  OBVIOUS
<1> QED
  BY <1>2, <1>3, <1>5, <1>6, <1>7, <1>8, <1>9 DEF Took

(* directory_put counts one reference.                                     *)
LEMMA PutRefs ==
  ASSUME NEW d \in Table, NEW c \in Num, NEW name, NEW n \in Num
  PROVE  LET e == directory_put(d, c, name, n)
         IN  /\ e.ibm = d.ibm
             /\ \A j \in Num : e.ino[j].refs = d.ino[j].refs + IF j = n THEN 1 ELSE 0
<1>1. d.ino \in [Num -> inode] /\ \A j \in Num : d.ino[j].refs \in Int
  BY TableParts, InodeParts
<1>2. PICK k : k = [d EXCEPT !.ino[n].refs = @ + 1]
  OBVIOUS
<1>3. /\ k.ibm = d.ibm /\ k.ino \in [Num -> [refs : Int, mode : Mode, ts : Nat, data : Seq(Byte),
                                            ent : Seq(ddirent)]]
      /\ \A j \in Num : k.ino[j].refs = d.ino[j].refs + IF j = n THEN 1 ELSE 0
  <2>1. d.ino[n].refs + 1 \in Int
    BY <1>1
  <2>2. k \in Table
    BY <1>2, <2>1, FieldTypes
  <2>3. k.ino \in [Num -> inode]
    BY <2>2, TableParts
  <2>4. k.ino = [d.ino EXCEPT ![n].refs = @ + 1] /\ k.ibm = d.ibm
    BY <1>2 DEF Table
  <2>5. k.ino[n].refs = d.ino[n].refs + 1 /\ \A j \in Num \ {n} : k.ino[j] = d.ino[j]
    BY <1>1, <2>4 DEF inode
  <2>6. \A j \in Num : k.ino[j].refs = d.ino[j].refs + IF j = n THEN 1 ELSE 0
    BY <1>1, <2>5
  <2> QED
    BY <2>3, <2>4, <2>6 DEF inode
<1>4. PICK y : directory_put(d, c, name, n) = [k EXCEPT !.ino[c].ent = y]
  BY <1>2 DEF directory_put
<1>5. PICK e : e = [k EXCEPT !.ino[c].ent = y]
  OBVIOUS
<1>6. k.ibm = e.ibm /\ \A j \in Num : e.ino[j].refs = k.ino[j].refs
  <2>1. k \in Table
    <3>1. d.ino[n].refs + 1 \in Int
      BY <1>1
    <3> QED
      BY <1>2, <3>1, FieldTypes
  <2> QED
    BY <1>3, <1>5, <2>1 DEF Table
<1> QED
  BY <1>3, <1>4, <1>5, <1>6

(* What mknod makes begins with one reference.                             *)
LEMMA ChildRefs ==
  ASSUME NEW d \in Table, NEW mode \in Mode, NextFree(d) \in Num
  PROVE  Child(d, mode).ino[NextFree(d)].refs = 1
<1> DEFINE n == NextFree(d)
           a == alloc_inode(d)
<1>1. a \in Table
  BY AllocType
<1>2. Child(d, mode) = [a EXCEPT !.ino[n].mode = mode, !.ino[n].refs = 1]
  BY DEF Child
<1>3. a.ino \in [Num -> inode]
  BY <1>1, TableParts
<1> HIDE DEF a, n
<1> QED
  BY <1>1, <1>2, <1>3 DEF n, Table, inode

(* mknod takes the copy of the directory and the new inode, whose          *)
(* references are its own first one and that of its name.                  *)
LEMMA MknodTook ==
  ASSUME PlainHistory, Roomy, TypeOK, TypeOK', Collectable, Serving, NEW q \in Calls,
         q.call = "mknod", Mknod(q), NEW z, NEW c, NEW x, Began(q, z, c, x)
  PROVE  Took(q, z, c, x)
<1> DEFINE i == tree_lookup_stop_early(q.path)
           m == NextFree(fs)
           d == copy_inode(fs, i)
           n == NextFree(d)
           h == Child(d, q.mode)
           name == basename(q.path)
           r == rl[0].rnum
<1>0. /\ fs \in Table /\ q.path \in Path /\ Named(q) = dirname(q.path) /\ Named(q) \in Path
      /\ ph = "idle" /\ name \in Name /\ q.mode \in Mode
  BY RequestPath, StorageAssumption DEF TypeOK, Serving
<1>1. i \in Inum /\ i = tree_lookup(Named(q))
  BY <1>0 DEF Mknod, CanCreate, IsDir, Exists, tree_lookup_stop_early
<1>2. i \in fs.ibm /\ i = Lookup(fs, Named(q), r) /\ fs.ibm \subseteq Num
  BY <1>0, <1>1, FoundTaken, TableParts DEF Num
<1>3. /\ d \in Table /\ m \in Inum /\ m \in d.ibm \ fs.ibm /\ d.ibm = fs.ibm \cup {m}
      /\ d.ino[m] = fs.ino[i] /\ \A j \in Num \ {m} : d.ino[j] = fs.ino[j]
  BY <1>1, CopyRoom
<1>4. fs' = directory_put(h, m, name, n) /\ job'.new = m
  <2>1. inum_field(m) = m
    BY <1>3, InumNum
  <2> QED
    BY <2>1 DEF Mknod, Update
<1>5. /\ h \in Table /\ Taken(d, h, n) /\ \A j \in Num \ {n} : h.ino[j] = d.ino[j]
  BY <1>0, <1>3, ChildTaken
<1>6. n \in Num /\ h.ino[n].refs = 1
  BY <1>0, <1>3, <1>5, ChildRefs DEF Taken
<1> HIDE DEF i, m, d, n, h, name, r
<1>7. c = m /\ z = i
  BY <1>2, <1>4 DEF Began, r
<1>8. /\ fs'.ibm = h.ibm
      /\ \A j \in Num : fs'.ino[j].refs = h.ino[j].refs + IF j = n THEN 1 ELSE 0
      /\ fs'.ino[m].ent = h.ino[m].ent \o <<[name |-> name, inum |-> n]>>
  <2>1. m \in Num
    BY <1>3 DEF Num
  <2>2. /\ fs'.ibm = h.ibm
        /\ \A j \in Num : fs'.ino[j].refs = h.ino[j].refs + IF j = n THEN 1 ELSE 0
    BY <1>4, <1>5, <1>6, <2>1, PutRefs
  <2>3. fs'.ino[m].ent = h.ino[m].ent \o <<[name |-> name, inum |-> n]>>
    BY <1>0, <1>4, <1>5, <1>6, <2>1, PutShown
  <2> QED
    BY <2>2, <2>3
<1>9. m # n
  BY <1>3, <1>5 DEF Taken
<1>10. PICK b : /\ b \in fs'.ibm /\ x = <<[name |-> basename(q.path), inum |-> b]>>
                /\ fs'.ino[c].mode # "file"
  <2> DEFINE f == [k \in Inum |-> IF k = z THEN c ELSE k]
  <2>1. Effect(fs', r, f, x, q) /\ z \in Inum /\ z = Lookup(fs, Named(q), r)
    BY DEF Began, r
  <2>2. f[z] = c
    BY <2>1
  <2>3. Lookup(fs', Named(q), r) = z
    <3>1. PICK V, D : HeadTree(V, D)
      BY HeadTreed
    <3>2. ReadsSame(fs, fs', r)
      BY <1>0, <3>1, GrownLookup DEF HeadTree, TypeOK, r, Began
    <3> QED
      BY <1>0, <2>1, <3>2, PathFacts DEF ReadsSame
  <2> HIDE DEF f
  <2>4. PICK b : /\ b \in fs'.ibm /\ x = <<[name |-> basename(q.path), inum |-> b]>>
                 /\ Shown(fs'.ino[c]) = Shown(fs'.ino[z]) /\ fs'.ino[z].mode = "dir"
    BY <2>1, <2>2, <2>3 DEF Effect
  <2> QED
    BY <2>4 DEF Shown
<1>11. b = n
  <2>1. PICK en : en = fs.ino[i].ent
    OBVIOUS
  <2>2. en \in Seq(ddirent)
    BY <1>0, <1>2, <2>1, InodeParts
  <2>3. fs'.ino[m].ent = en \o <<[name |-> name, inum |-> n]>>
    <3>1. h.ino[m] = fs.ino[i]
      BY <1>3, <1>5, <1>9 DEF Num
    <3> QED
      BY <1>8, <2>1, <3>1
  <2>4. fs'.ino[m].ent = en \o <<[name |-> basename(q.path), inum |-> b]>>
    BY <1>7, <1>10, <2>1 DEF Began
  <2>5. (en \o <<[name |-> name, inum |-> n]>>)[Len(en) + 1] = [name |-> name, inum |-> n]
    BY <2>2
  <2>6. (en \o <<[name |-> basename(q.path), inum |-> b]>>)[Len(en) + 1]
           = [name |-> basename(q.path), inum |-> b]
    BY <2>2
  <2>7. [name |-> name, inum |-> n] = [name |-> basename(q.path), inum |-> b]
    BY <2>3, <2>4, <2>5, <2>6
  <2> QED
    BY <2>7
<1>12. Len(x) = 1 /\ x[1].inum = n
  BY <1>10, <1>11
<1>13. \A j \in fs'.ibm \ fs.ibm : j = c \/ \E k \in 1 .. Len(x) : j = x[k].inum
  BY <1>3, <1>5, <1>7, <1>8, <1>12 DEF Taken
<1>14. \A k \in 1 .. Len(x) : fs'.ino[x[k].inum].refs = 2
  <2>1. fs'.ino[n].refs = 2
    BY <1>6, <1>8
  <2> QED
    BY <1>12, <2>1
<1>15. \A j \in fs.ibm : fs'.ino[j].refs = fs.ino[j].refs /\ fs.ino[j].refs \in Int
  <2> TAKE j \in fs.ibm
  <2>1. j \in Num /\ j # m /\ j # n
    BY <1>2, <1>3, <1>5 DEF Taken
  <2>2. h.ino[j] = fs.ino[j] /\ fs.ino[j].refs \in Int
    BY <1>0, <1>3, <1>5, <2>1, InodeParts
  <2> QED
    BY <1>8, <2>1, <2>2
<1> QED
  BY <1>10, <1>13, <1>14, <1>15 DEF Took

(* link takes the copy of the directory, and counts the file twice.        *)
LEMMA LinkTook ==
  ASSUME PlainHistory, Roomy, TypeOK, TypeOK', Collectable, Serving, NEW q \in Calls,
         q.call = "link", Link(q), NEW z, NEW c, NEW x, Began(q, z, c, x)
  PROVE  Took(q, z, c, x)
<1> DEFINE i == tree_lookup_stop_early(q.to)
           from == tree_lookup(q.path)
           m == NextFree(fs)
           d == copy_inode(fs, i)
           name == basename(q.to)
           r == rl[0].rnum
<1>0. /\ fs \in Table /\ q.to \in Path /\ Named(q) = dirname(q.to) /\ Named(q) \in Path
      /\ ph = "idle" /\ name \in Name /\ q.path \in Path
  BY RequestPath DEF TypeOK, Serving
<1>1. i \in Inum /\ i = tree_lookup(Named(q)) /\ from \in Inum
  BY <1>0 DEF Link, IsFile, CanCreate, IsDir, Exists, tree_lookup_stop_early
<1>2. /\ i \in fs.ibm /\ i = Lookup(fs, Named(q), r) /\ fs.ibm \subseteq Num
      /\ from \in fs.ibm /\ from = Lookup(fs, q.path, r)
  BY <1>0, <1>1, FoundTaken, TableParts DEF Num
<1>3. /\ d \in Table /\ m \in Inum /\ m \in d.ibm \ fs.ibm /\ d.ibm = fs.ibm \cup {m}
      /\ d.ino[m] = fs.ino[i] /\ \A j \in Num \ {m} : d.ino[j] = fs.ino[j]
  BY <1>1, CopyRoom
<1> DEFINE e == directory_put(d, m, name, from)
           y == e.ino[from].refs + 1
<1>4. fs' = [e EXCEPT !.ino[from].refs = y]
  BY DEF Link, Update
<1> HIDE DEF i, from, m, d, name, r
<1>5. from \in Num /\ m \in Num /\ from # m
  BY <1>2, <1>3 DEF Num
<1>6. /\ e.ibm = d.ibm /\ e \in Table
      /\ \A j \in Num : e.ino[j].refs = d.ino[j].refs + IF j = from THEN 1 ELSE 0
  BY <1>0, <1>3, <1>5, PutRefs, PutType
<1> HIDE DEF e
<1>7. /\ fs'.ibm = d.ibm /\ fs'.ino[from].refs = e.ino[from].refs + 1
      /\ \A j \in Num \ {from} : fs'.ino[j].refs = e.ino[j].refs
  <2>1. e.ino \in [Num -> inode]
    BY <1>6, TableParts
  <2>2. fs'.ino[from].refs = y
    BY <1>4, <1>5, <1>6, <2>1 DEF Table, inode
  <2>3. fs'.ibm = e.ibm /\ \A j \in Num \ {from} : fs'.ino[j].refs = e.ino[j].refs
    <3> HIDE DEF y
    <3> QED
      BY <1>4, <1>5, <1>6, <2>1 DEF Table, inode
  <2> QED
    BY <1>6, <2>2, <2>3
<1>8. c = m
  BY <1>3, <1>7 DEF Began
<1>9. fs'.ino[c].mode # "file"
  <2> DEFINE f == [k \in Inum |-> IF k = z THEN c ELSE k]
  <2>1. Effect(fs', r, f, x, q) /\ z \in Inum /\ z = Lookup(fs, Named(q), r)
    BY DEF Began, r
  <2>2. f[z] = c
    BY <2>1
  <2>3. Lookup(fs', Named(q), r) = z
    <3>1. PICK V, D : HeadTree(V, D)
      BY HeadTreed
    <3>2. ReadsSame(fs, fs', r)
      BY <1>0, <3>1, GrownLookup DEF HeadTree, TypeOK, r, Began
    <3> QED
      BY <1>0, <2>1, <3>2, PathFacts DEF ReadsSame
  <2> HIDE DEF f
  <2>4. Shown(fs'.ino[c]) = Shown(fs'.ino[z]) /\ fs'.ino[z].mode # "file"
    BY <2>1, <2>2, <2>3 DEF Effect
  <2> QED
    BY <2>4 DEF Shown
<1>10. \A j \in fs.ibm : fs'.ino[j].refs = fs.ino[j].refs + IF j = from THEN 2 ELSE 0
  <2> TAKE j \in fs.ibm
  <2>1. j \in Num /\ d.ino[j] = fs.ino[j] /\ fs.ino[j].refs \in Int
    BY <1>0, <1>2, <1>3, InodeParts
  <2> QED
    BY <1>6, <1>7, <2>1
<1> QED
  BY <1>2, <1>3, <1>7, <1>8, <1>9, <1>10 DEF Took, r

(* No mknod ends in the assertion: its directory has the mode it asserts.  *)
LEMMA NoMknodAborts ==
  ASSUME PlainHistory, TypeOK, Collectable, Accounts, Serving, NEW q \in Calls, MknodAborts(q)
  PROVE  FALSE
<1> DEFINE z == tree_lookup_stop_early(q.path)
<1>1. z \in Inum /\ fs.ino[z].mode \in {"dir", "odd"} /\ fs.ino[z].mode # "dir"
  BY DEF MknodAborts, CanCreate, IsDir, Exists, tree_lookup_stop_early, inode_is_dir
<1>2. z \in fs.ibm
  BY <1>1, FoundTaken, RequestPath, PathFacts DEF Serving, tree_lookup_stop_early
<1> HIDE DEF z
<1>3. fs.ino[z].mode # "odd"
  BY <1>2 DEF Accounts, NoOdd
<1> QED
  BY <1>1, <1>3

(* A request leaves everything accounted for.                              *)
LEMMA AccountsRequest ==
  ASSUME PlainHistory, Roomy, Tidy, TypeOK, TypeOK', Collectable, Collectable', Mirrored,
         Accounts, [Next]_vars, Request
  PROVE  Accounts'
<1>1. PICK q \in Calls : Handle(q)
  BY DEF Request
<1>2. Serving /\ ph = "idle" /\ job.stage = "serve" /\ Flat
  BY DEF Request, Serving, Mirrored
<1>3. q.call \in Copying
  BY DEF PlainHistory
<1>4. ~MknodAborts(q)
  BY <1>2, NoMknodAborts
<1>5. ASSUME \/ q.call = "write" /\ Write(q)
             \/ q.call = "truncate" /\ Truncate(q)
             \/ q.call = "chmod" /\ Chmod(q)
      PROVE  Accounts'
  <2>1. PICK z, c, x : Began(q, z, c, x)
    BY <1>2, <1>5, FileBegan
  <2>2. Took(q, z, c, x)
    BY <1>2, <1>5, <2>1, FileTook
  <2> QED
    BY <1>2, <2>1, <2>2, BeganAccounts
<1>6. ASSUME q.call = "mknod", Mknod(q) PROVE Accounts'
  <2>1. PICK z, c, x : Began(q, z, c, x)
    BY <1>2, <1>6, MknodBegan
  <2>2. Took(q, z, c, x)
    BY <1>2, <1>6, <2>1, MknodTook
  <2> QED
    BY <1>2, <2>1, <2>2, BeganAccounts
<1>7. ASSUME q.call = "link", Link(q) PROVE Accounts'
  <2>1. PICK z, c, x : Began(q, z, c, x)
    BY <1>2, <1>7, LinkBegan
  <2>2. Took(q, z, c, x)
    BY <1>2, <1>7, <2>1, LinkTook
  <2> QED
    BY <1>2, <2>1, <2>2, BeganAccounts
<1> QED
  BY <1>1, <1>3, <1>4, <1>5, <1>6, <1>7 DEF Handle, Copying, OnParent, OnPath

-----------------------------------------------------------------------------
(* The climb.                                                              *)

(* The directory above what the climb has copied is found.                 *)
LEMMA AboveFound ==
  ASSUME TypeOK, Collectable, job.left # Root, NEW f, NEW x, NEW q, Come(f, x, q)
  PROVE  ~(Lookup(fs, dirname(job.left), rl[0].rnum) < 0)
<1>1. PICK r, p, u : r = rl[0].rnum /\ p = job.left /\ u = dirname(job.left)
  OBVIOUS
<1>2. PICK V, D : HeadTree(V, D)
  BY HeadTreed
<1>3. fs \in Table /\ D \in Depth /\ Tree(fs, r, V, D)
  BY <1>1, <1>2 DEF HeadTree, TypeOK
<1>4. p \in Seq(Name) /\ p # <<>> /\ u = SubSeq(p, 1, Len(p) - 1) /\ u \in Seq(Name)
  BY <1>1, JobParts, PathFacts DEF Root, dirname
<1>5. \A v \in Seq(Name) : Lookup(fs, v, r) \in Int
  BY <1>3, TreeLookup
<1>6. Lookup(fs, p, r) >= 0
  <2>1. PICK i : i = Lookup(fs, p, r)
    OBVIOUS
  <2>2. i \in Inum
    BY <1>1, <2>1 DEF Come
  <2>3. i >= 0
    BY <2>2, NumFacts
  <2> QED
    BY <2>1, <2>3
<1>7. \A v \in Seq(Name) : IsPrefixOf(v, p) => Lookup(fs, v, r) >= 0
  BY <1>4, <1>5, <1>6, FoundWay
<1>8. IsPrefixOf(u, p)
  BY <1>4, PrefixFacts
<1>9. PICK z : z = Lookup(fs, u, r)
  OBVIOUS
<1>10. z \in Int /\ z >= 0
  BY <1>4, <1>5, <1>7, <1>8, <1>9
<1>11. ~(z < 0)
  BY <1>10
<1> QED
  BY <1>1, <1>9, <1>11

(* One directory of a climb leaves everything accounted for.               *)
LEMMA AccountsClimb ==
  ASSUME PlainHistory, TypeOK, TypeOK', Collectable, Collectable', Mirrored, Accounts,
         [Next]_vars, Climb
  PROVE  Accounts'
<1>0. /\ ph = "idle" /\ job.stage = "climb" /\ job.left # Root /\ rl' = rl /\ ph' = ph
      /\ job \in Jobs /\ fs \in Table /\ Resting /\ fs.ibm \subseteq Num
  BY JobParts, TableParts DEF Climb, Climbing, list, TypeOK, Resting, Calm, Num
<1>1. PICK f, x, q : q \in Calls /\ Underway(f, x, q)
  BY <1>0 DEF Accounts, Accounted
<1>2. Come(f, x, q)
  BY <1>1 DEF Underway
<1>3. ~(tree_lookup_stop_early(job.left) < 0)
  BY <1>0, <1>2, AboveFound DEF tree_lookup_stop_early, tree_lookup, Lookup, RL!get_current_root
<1>4. PICK dir, c : WentUp([f EXCEPT ![dir] = c], x, q, dir, c)
  BY <1>1, <1>2, <1>3, ClimbCopies
<1>5. PICK h, r, t, p, u, W :
         /\ h = [f EXCEPT ![dir] = c] /\ r = rl[0].rnum /\ t = Named(q) /\ p = job.left
         /\ u = dirname(p) /\ W = Way(fs, r, t, Len(p))
  OBVIOUS
<1>6. /\ WentUp(h, x, q, dir, c) /\ Steady(fs, fs', r) /\ Untouched(fs, fs')
      /\ dir \in Inum /\ dir = Lookup(fs, u, r) /\ c \in Inum /\ c \notin fs.ibm
      /\ fs'.ibm = fs.ibm \cup {c} /\ (\A j \in fs.ibm : fs'.ino[j] = fs.ino[j])
      /\ fs'.ino[c].mode = "dir" /\ Len(u) = Len(p) - 1 /\ Come(h, x, q)'
  BY <1>4, <1>5 DEF WentUp
<1>7. /\ job'.left = u /\ job'.stage = "climb" /\ job'.call = job.call /\ job'.path = job.path
  BY <1>0, <1>5, <1>6 DEF WentUp, Jobs
<1>8. /\ p \in Seq(Name) /\ p # <<>> /\ u = SubSeq(p, 1, Len(p) - 1) /\ u \in Seq(Name)
      /\ t \in Seq(Name) /\ IsPrefixOf(p, t) /\ Changed(fs, r, f, x, q, Len(p))
      /\ q.call = job.call
  BY <1>0, <1>1, <1>2, <1>5, JobParts, PathFacts, RequestPath DEF Root, dirname, Come
<1>9. PICK V, D : HeadTree(V, D)
  BY HeadTreed
<1>10. D \in Depth /\ V \subseteq fs.ibm /\ Tree(fs, r, V, D)
  BY <1>5, <1>9 DEF HeadTree
<1>11. Copied(fs, r, t, Len(p), f, x)
  BY <1>5, <1>8 DEF Changed
<1>12. \A i \in W : i \in Inum /\ i \in V /\ i # dir /\ f[i] \in fs.ibm
  <2> SUFFICES ASSUME NEW v \in Seq(Name), IsPrefixOf(v, t), Len(v) >= Len(p),
                      NEW i, i = Lookup(fs, v, r)
               PROVE  i \in Inum /\ i \in V /\ i # dir /\ f[i] \in fs.ibm
    BY <1>5 DEF Way
  <2>1. i \in W
    BY <1>5 DEF Way
  <2>2. i \in Inum /\ f[i] \in fs.ibm
    BY <1>5, <1>11, <2>1 DEF Copied
  <2>3. i < 0 \/ (i \in V /\ D[i] = Len(v))
    BY <1>0, <1>10, TreeLookup
  <2>4. i \in V /\ D[i] = Len(v)
    BY <2>2, <2>3, NumFacts
  <2>5. LET y == Lookup(fs, u, r) IN y < 0 \/ D[y] = Len(u)
    BY <1>0, <1>8, <1>10, TreeLookup
  <2>6. D[dir] = Len(u)
    BY <1>6, <2>5, NumFacts
  <2>7. Len(u) \in Nat /\ Len(v) \in Nat /\ Len(p) \in Nat
    BY <1>8
  <2>8. Len(u) < Len(v)
    BY <1>6, <2>7
  <2> QED
    BY <2>2, <2>4, <2>6, <2>7, <2>8
<1>13. f \in [Inum -> Inum]
  BY <1>11 DEF Copied
<1>14. h[dir] = c /\ \A i \in W : h[i] = f[i]
  BY <1>5, <1>6, <1>12, <1>13
<1>15. Way(fs', r, t, Len(u)) = W \cup {dir}
  <2>1. Way(fs, r, t, Len(p) - 1) = W \cup {dir}
    BY <1>5, <1>6, <1>8, WayLonger
  <2>2. \A v \in Seq(Name) : Lookup(fs', v, r) = Lookup(fs, v, r)
    BY <1>6 DEF Steady
  <2>3. Way(fs', r, t, Len(p) - 1) = Way(fs, r, t, Len(p) - 1)
    BY <2>2 DEF Way
  <2>4. Len(u) = Len(p) - 1
    BY <1>6
  <2> QED
    BY <2>1, <2>3, <2>4
<1>16. Succession' /\ Numbers' /\ \A j : Listed(j) => Listed(j)'
  BY <1>0, RestingAccounts
<1>17. NoOdd'
  BY <1>6, NoOddGrow DEF Accounts
<1>18. rl'[0].rnum = r
  BY <1>0, <1>5
<1>19. Accounted'
  <2>1. \A j \in fs'.ibm \ {0} :
           \/ Listed(j)'
           \/ \E i \in W \cup {dir} : j = h[i]
           \/ \E k \in 1 .. Len(x) : j = x[k].inum
    <3> TAKE j \in fs'.ibm \ {0}
    <3>1. CASE j = c
      BY <1>14, <3>1
    <3>2. CASE j \in fs.ibm
      BY <1>1, <1>5, <1>14, <1>16, <3>2 DEF Underway
    <3> QED
      BY <1>6, <3>1, <3>2
  <2>2. \A i \in W \cup {dir} : fs'.ino[h[i]].mode = "file" => fs'.ino[h[i]].refs = fs'.ino[i].refs
    <3>1. fs'.ino[h[dir]].mode # "file"
      BY <1>6, <1>14
    <3>2. \A i \in W : fs'.ino[h[i]] = fs.ino[f[i]] /\ fs'.ino[i] = fs.ino[i]
      BY <1>6, <1>10, <1>12, <1>14
    <3>3. \A i \in W : fs.ino[f[i]].mode = "file" => fs.ino[f[i]].refs = fs.ino[i].refs
      BY <1>1, <1>5 DEF Underway
    <3> QED
      BY <3>1, <3>2, <3>3
  <2>3. q.call = "mknod" => \A k \in 1 .. Len(x) : fs'.ino[x[k].inum].refs = 2
    <3> SUFFICES ASSUME q.call = "mknod", NEW k \in 1 .. Len(x) PROVE fs'.ino[x[k].inum].refs = 2
      OBVIOUS
    <3>1. PICK b \in fs.ibm : x = <<[name |-> basename(q.path), inum |-> b]>>
      BY <1>8 DEF Changed, Effect
    <3>2. x[k].inum = b
      BY <3>1
    <3>3. fs.ino[b].refs = 2
      BY <1>1, <3>2 DEF Underway
    <3> QED
      BY <1>6, <3>2, <3>3
  <2>4. Underway(h, x, q)'
    BY <1>5, <1>6, <1>7, <1>15, <1>18, <2>1, <2>2, <2>3 DEF Underway
  <2> QED
    BY <1>1, <1>7, <2>4 DEF Accounted
<1>20. References'
  <2>1. Counted(fs, r, Linked)
    BY <1>0, <1>5 DEF Accounts, References
  <2>2. Linked' = Linked
    <3>1. Lookup(fs', job.path, r) = Lookup(fs, job.path, r)
      BY <1>6, JobParts, PathFacts DEF Steady
    <3> QED
      BY <1>0, <1>5, <1>7, <1>18, <3>1 DEF Linked
  <2>3. Treed(fs, r)
    BY <1>10 DEF Treed
  <2>4. Reach(fs, r) \subseteq fs.ibm
    BY <1>0, <2>3, ReachTaken
  <2>5. PICK S : S = Linked
    OBVIOUS
  <2>6. \A i \in Reach(fs, r) : fs'.ino[i].refs = fs.ino[i].refs + IF i \in S \ S THEN 2 ELSE 0
    <3> TAKE i \in Reach(fs, r)
    <3>1. fs'.ino[i] = fs.ino[i] /\ fs.ino[i].refs \in Int
      BY <1>0, <1>6, <2>4, InodeParts
    <3> QED
      BY <3>1
  <2>7. Counted(fs', r, Linked)
    <3>1. S \subseteq S /\ Counted(fs, r, S) /\ Steady(fs, fs', r)
      BY <1>6, <2>1, <2>5
    <3>2. Counted(fs', r, S)
      BY <1>0, <2>6, <3>1, CountedOn
    <3> QED
      BY <2>5, <3>2
  <2> QED
    BY <1>0, <1>18, <2>2, <2>7 DEF References
<1> QED
  BY <1>16, <1>17, <1>19, <1>20 DEF Accounts

(* No climb trips the assertion: what holds its inode is a directory.      *)
LEMMA NoClimbAborts ==
  ASSUME TypeOK, Collectable, Mirrored, Accounts, ClimbAborts
  PROVE  FALSE
<1>1. PICK r, p, u, dir : r = rl[0].rnum /\ p = job.left /\ u = dirname(p) /\ dir = Lookup(fs, u, r)
  OBVIOUS
<1>2. /\ dir \in Inum /\ fs.ino[dir].mode # "dir" /\ ph = "idle" /\ job.stage = "climb"
      /\ p # Root /\ dir = tree_lookup(u) /\ fs \in Table
  BY <1>1 DEF ClimbAborts, Climbing, tree_lookup_stop_early, tree_lookup, Lookup,
              RL!get_current_root, TypeOK
<1>3. /\ p \in Seq(Name) /\ p # <<>> /\ u = SubSeq(p, 1, Len(p) - 1) /\ u \in Path
  BY <1>1, <1>2, JobParts, PathFacts DEF Root, dirname
<1>4. dir \in fs.ibm
  BY <1>2, <1>3, FoundTaken
<1>5. fs.ino[dir].mode = "file"
  <2>1. fs.ino[dir].mode \in Mode
    BY <1>2, InodeParts DEF Num
  <2>2. fs.ino[dir].mode \notin {"none", "odd"}
    BY <1>4 DEF Accounts, NoOdd, Collectable, Plain, Modes
  <2> QED
    BY <1>2, <2>1, <2>2 DEF Mode
<1>6. fs.ino[dir].ent = <<>>
  BY <1>4, <1>5 DEF Mirrored, Flat, Good
<1>7. PICK f, x, q : Come(f, x, q)
  BY <1>2 DEF Mirrored, Advanced
<1>8. Lookup(fs, p, r) \in Inum
  BY <1>1, <1>7 DEF Come
<1>9. Lookup(fs, p, r) = directory_lookup(fs.ino[dir], p[Len(p)])
  BY <1>1, <1>2, <1>3, LastName
<1>10. directory_lookup(fs.ino[dir], p[Len(p)]) = ENOENT
  BY <1>6 DEF directory_lookup, Hits
<1> QED
  BY <1>8, <1>9, <1>10, NumFacts DEF ENOENT

-----------------------------------------------------------------------------
(* add_root.                                                               *)

(* What is above a path is a path, up to the root.                         *)
LEMMA PrefixPath ==
  ASSUME NEW t \in Path, NEW v \in Seq(Name), IsPrefixOf(v, t)
  PROVE  v \in Path
<1> DEFINE S == {w \in Seq(Name) : w \in Path /\ IsPrefixOf(v, w) => v \in Path}
<1>1. <<>> \in S
  <2> SUFFICES ASSUME IsPrefixOf(v, <<>>) PROVE v \in Path
    OBVIOUS
  <2>1. Len(v) \in Nat /\ Len(v) <= 0
    BY DEF IsPrefixOf
  <2>2. v = <<>>
    BY <2>1
  <2> QED
    BY <2>2, PathFacts DEF Root
<1>2. ASSUME NEW w \in Seq(Name), w # <<>>, SubSeq(w, 1, Len(w) - 1) \in S PROVE w \in S
  <2> SUFFICES ASSUME w \in Path, IsPrefixOf(v, w) PROVE v \in Path
    OBVIOUS
  <2> DEFINE u == SubSeq(w, 1, Len(w) - 1)
  <2>1. /\ Len(w) \in Nat \ {0} /\ u \in Seq(Name) /\ Len(u) = Len(w) - 1
        /\ \A k \in 1 .. Len(w) - 1 : u[k] = w[k]
    BY <1>2, ParentPath
  <2>2. u \in Path
    BY <1>2, PathFacts DEF dirname, Root
  <2>3. Len(v) \in Nat /\ Len(v) <= Len(w) /\ \A k \in 1 .. Len(v) : v[k] = w[k]
    BY DEF IsPrefixOf
  <2>4. CASE Len(v) = Len(w)
    <3>1. v = w
      BY <1>2, <2>4, SamePrefix, PrefixFacts
    <3> QED
      BY <3>1
  <2>5. CASE Len(v) # Len(w)
    <3>1. Len(v) <= Len(u) /\ \A k \in 1 .. Len(v) : k \in 1 .. Len(w) - 1
      BY <2>1, <2>3, <2>5
    <3>2. IsPrefixOf(v, u)
      BY <2>1, <2>3, <3>1 DEF IsPrefixOf
    <3> QED
      BY <1>2, <2>2, <3>2
  <2> QED
    BY <2>4, <2>5
<1>3. S \in SUBSET Seq(Name)
  OBVIOUS
<1>4. t \in Seq(Name)
  BY PathFacts
<1> HIDE DEF S
<1>5. t \in S
  BY <1>1, <1>2, <1>3, <1>4, PathInduction
<1> QED
  BY <1>5 DEF S

(* The name that mknod or link adds is a path of its own.                  *)
LEMMA NewName ==
  ASSUME PlainHistory, NEW d, NEW r, NEW f, NEW x, NEW q \in Calls, Effect(d, r, f, x, q)
  PROVE  x = <<>> \/ (Len(x) = 1 /\ Append(Named(q), x[1].name) \in Path)
<1>1. CASE q.call \in {"write", "truncate", "chmod"}
  BY <1>1 DEF Effect
<1>2. CASE q.call = "mknod"
  <2>1. PICK c : x = <<[name |-> basename(q.path), inum |-> c]>>
    BY <1>2 DEF Effect
  <2>2. Len(x) = 1 /\ x[1].name = basename(q.path)
    BY <2>1
  <2> QED
    BY <1>2, <2>2, RequestPath
<1>3. CASE q.call = "link"
  <2>1. PICK c : x = <<[name |-> basename(q.to), inum |-> c]>>
    BY <1>3 DEF Effect
  <2>2. Len(x) = 1 /\ x[1].name = basename(q.to)
    BY <2>1
  <2> QED
    BY <1>3, <2>2, RequestPath
<1>4. q.call \in Copying
  BY DEF PlainHistory
<1> QED
  BY <1>1, <1>2, <1>3, <1>4 DEF Copying, OnParent, OnPath

(* The version that a request has made reads all that it has made.         *)
LEMMA MadeReads ==
  ASSUME PlainHistory, NEW d \in Table, NEW r, NEW f, NEW x, NEW q \in Calls,
         Changed(d, r, f, x, q, 0), Made(d, r, f[r], f, x, q)
  PROVE  /\ \A i \in Way(d, r, Named(q), 0) : f[i] \in Reach(d, f[r])
         /\ \A k \in 1 .. Len(x) : x[k].inum \in Inum => x[k].inum \in Reach(d, f[r])
<1>1. /\ Renewed(d, r, f[r], f, Named(q), x) /\ Effect(d, r, f, x, q)
      /\ Copied(d, r, Named(q), 0, f, x)
  BY DEF Made, Changed
<1>2. Named(q) \in Path /\ Named(q) \in Seq(Name)
  BY RequestPath
<1>3. ASSUME NEW v \in Seq(Name), IsPrefixOf(v, Named(q)), NEW i, i = Lookup(d, v, r),
             i \in Way(d, r, Named(q), 0)
      PROVE  f[i] \in Reach(d, f[r])
  <2>1. v \in Path
    BY <1>2, <1>3, PrefixPath
  <2>2. i \in Inum /\ i >= 0
    BY <1>1, <1>3, NumFacts DEF Copied
  <2>3. PICK j : j = Lookup(d, v, f[r])
    OBVIOUS
  <2>4. j \in Inum /\ j = f[i]
    BY <1>1, <1>3, <2>2, <2>3 DEF Renewed
  <2>5. j >= 0
    BY <2>4, NumFacts
  <2> QED
    BY <2>1, <2>3, <2>4, <2>5 DEF Reach, Present
<1>4. ASSUME NEW k \in 1 .. Len(x), x[k].inum \in Inum PROVE x[k].inum \in Reach(d, f[r])
  <2>1. x # <<>>
    BY <1>4
  <2>2. k = 1 /\ Append(Named(q), x[1].name) \in Path
    BY <1>1, <1>4, <2>1, NewName
  <2>3. PICK p : p = Append(Named(q), x[1].name)
    OBVIOUS
  <2>4. Lookup(d, p, f[r]) = x[1].inum
    BY <1>1, <2>1, <2>3 DEF Renewed
  <2>5. PICK y : y = x[1].inum
    OBVIOUS
  <2>6. y \in Inum /\ y >= 0
    BY <1>4, <2>2, <2>5, NumFacts
  <2> QED
    BY <2>2, <2>3, <2>4, <2>5, <2>6 DEF Reach, Present
<1> QED
  BY <1>3, <1>4 DEF Way

\* In what request q made of r the copy of i has the names of i, and the
\* file of a link has one more.
KeepsNames(r, f, q, i) ==
    LET g == Lookup(fs, q.path, r)
    IN  /\ fs.ino[f[i]].mode = "file" <=> fs.ino[i].mode = "file"
        /\ ~(q.call = "link" /\ i = g) => Names(f[r], f[i]) = Names(r, i)
        /\ q.call = "link" /\ i = g =>
               \E p \in Path \ Names(r, i) : Names(f[r], f[i]) = Names(r, i) \cup {p}

(* What a request does to the names of an inode it has not made: a link    *)
(* adds one to the file.                                                   *)
LEMMA MadeKeepsNames ==
  ASSUME PlainHistory, fs \in Table, NEW r, NEW f, NEW x, NEW q \in Calls,
         Made(fs, r, f[r], f, x, q), NEW i \in Reach(fs, r)
  PROVE  KeepsNames(r, f, q, i)
<1> DEFINE z == Lookup(fs, Named(q), r)
           g == Lookup(fs, q.path, r)
<1>1. /\ Renewed(fs, r, f[r], f, Named(q), x) /\ Effect(fs, r, f, x, q)
      /\ q.call = "link" => f[g] = g
  BY DEF Made
<1>2. PICK p0 : x # <<>> => p0 = Append(Named(q), x[1].name) /\ p0 \in Path
  BY <1>1, NewName
<1>3. Kin(r, f[r], f, x, p0, z)
  BY <1>2, MadeNames
<1>4. fs.ino[f[i]].mode = "file" <=> fs.ino[i].mode = "file"
  <2>1. CASE i # z
    <3>1. Shown(fs.ino[f[i]]) = Shown(fs.ino[i])
      BY <1>3, <2>1 DEF Kin
    <3> QED
      BY <3>1 DEF Shown
  <2>2. CASE i = z
    <3>1. \/ Shown(fs.ino[f[z]]) = Shown(fs.ino[z])
          \/ fs.ino[f[z]].mode = fs.ino[z].mode
          \/ fs.ino[f[z]].mode = "file" <=> fs.ino[z].mode = "file"
      BY <1>1 DEF Effect
    <3> HIDE DEF z
    <3> QED
      BY <2>2, <3>1 DEF Shown
  <2> QED
    BY <2>1, <2>2
<1>5. \A p \in Path :
         Lookup(fs, p, f[r]) = f[i] <=>
            Lookup(fs, p, r) = i \/ (x # <<>> /\ p = p0 /\ x[1].inum = f[i])
  BY <1>3 DEF Kin
<1>6. PICK v \in Path : i = Lookup(fs, v, r) /\ i >= 0
  BY DEF Reach, Present
<1>7. i \in Inum /\ v \in Seq(Name)
  BY <1>1, <1>6, PathFacts DEF Renewed
<1>8. ASSUME ~(q.call = "link" /\ i = g)
      PROVE  Names(f[r], f[i]) = Names(r, i)
  <2>1. ~(x # <<>> /\ x[1].inum = f[i])
    <3> SUFFICES ASSUME x # <<>>, x[1].inum = f[i] PROVE FALSE
      OBVIOUS
    <3>1. CASE q.call = "mknod"
      <4>1. PICK b : /\ x = <<[name |-> basename(q.path), inum |-> b]>>
                     /\ Apart(fs, r, b) /\ \A k \in Inum \ {b} : f[k] # b
        BY <1>1, <3>1 DEF Effect
      <4>2. x[1].inum = b
        BY <4>1
      <4>3. i # b
        BY <1>6, <1>7, <4>1 DEF Apart
      <4> QED
        BY <1>7, <4>1, <4>2, <4>3
    <3>2. CASE q.call = "link"
      <4>1. g \in Inum /\ x = <<[name |-> basename(q.to), inum |-> g]>> /\ f[g] = g
        BY <1>1, <3>2 DEF Effect
      <4>2. x[1].inum = g
        BY <4>1
      <4>3. g >= 0 /\ q.path \in Seq(Name)
        <5>1. PICK y : y = g
          OBVIOUS
        <5>2. y \in Inum
          BY <4>1, <5>1
        <5> HIDE DEF g
        <5>3. y >= 0
          BY <5>2, NumFacts
        <5> QED
          BY <5>1, <5>3, RequestPath
      <4>4. f[i] = f[g]
        BY <4>1, <4>2
      <4>5. i = g
        BY <1>1, <1>6, <1>7, <4>3, <4>4 DEF Renewed
      <4> QED
        BY <1>8, <3>2, <4>5
    <3>3. CASE q.call \notin {"mknod", "link"}
      BY <1>1, <3>3 DEF Effect
    <3> QED
      BY <3>1, <3>2, <3>3
  <2> QED
    BY <1>5, <2>1 DEF Names
<1>9. ASSUME q.call = "link", i = g
      PROVE  \E p \in Path \ Names(r, i) : Names(f[r], f[i]) = Names(r, i) \cup {p}
  <2>1. /\ x = <<[name |-> basename(q.to), inum |-> g]>> /\ f[g] = g
        /\ Lookup(fs, q.to, r) < 0
    BY <1>1, <1>9 DEF Effect
  <2>2. x # <<>> /\ x[1].inum = g /\ x[1].name = basename(q.to)
    BY <2>1
  <2>3. p0 = q.to /\ p0 \in Path
    BY <1>2, <1>9, <2>2, RequestPath
  <2>4. p0 \notin Names(r, i)
    <3> SUFFICES ASSUME Lookup(fs, p0, r) = i PROVE FALSE
      BY DEF Names
    <3> HIDE DEF g
    <3>1. i \in Int /\ i >= 0 /\ i < 0
      BY <1>6, <1>7, <2>1, <2>3, NumFacts
    <3> QED
      BY <3>1
  <2>5. Names(f[r], f[i]) = Names(r, i) \cup {p0}
    <3>1. x[1].inum = f[i]
      BY <1>9, <2>1, <2>2
    <3> QED
      BY <1>5, <2>2, <2>3, <3>1 DEF Names
  <2> QED
    BY <2>3, <2>4, <2>5
<1> QED
  BY <1>4, <1>8, <1>9 DEF KeepsNames

(* The version that a request has made counts its names: what mknod made   *)
(* has one, and what a link had counted is named now.                      *)
LEMMA MadeCounted ==
  ASSUME PlainHistory, fs \in Table, NEW r, NEW f, NEW x, NEW q \in Calls,
         Changed(fs, r, f, x, q, 0), Made(fs, r, f[r], f, x, q),
         NEW S, S = IF q.call = "link" THEN {Lookup(fs, q.path, r)} ELSE {},
         Counted(fs, r, S),
         \A i \in Way(fs, r, Named(q), 0) :
            fs.ino[f[i]].mode = "file" => fs.ino[f[i]].refs = fs.ino[i].refs,
         q.call = "mknod" => \A k \in 1 .. Len(x) : fs.ino[x[k].inum].refs = 2
  PROVE  Counted(fs, f[r], {})
<1>1. /\ Renewed(fs, r, f[r], f, Named(q), x) /\ Effect(fs, r, f, x, q)
      /\ Copied(fs, r, Named(q), 0, f, x) /\ (q.call = "link" => f[Lookup(fs, q.path, r)] = Lookup(fs, q.path, r))
  BY DEF Made, Changed
<1>2. PICK p0 : x # <<>> => p0 = Append(Named(q), x[1].name) /\ p0 \in Path
  BY <1>1, NewName
<1>3. Kin(r, f[r], f, x, p0, Lookup(fs, Named(q), r))
  BY <1>2, MadeNames
<1>4. ASSUME NEW i \in Reach(fs, r), fs.ino[f[i]].mode = "file"
      PROVE  /\ IsFiniteSet(Names(f[r], f[i]))
             /\ fs.ino[f[i]].refs = 2 * Cardinality(Names(f[r], f[i]))
  <2>1. PICK v \in Path : i = Lookup(fs, v, r) /\ i >= 0
    BY DEF Reach, Present
  <2>2. i \in Inum
    BY <1>1, <2>1, PathFacts DEF Renewed
  <2>3. v \in Present(fs, r)
    BY <2>1 DEF Present
  <2>0. KeepsNames(r, f, q, i)
    BY MadeKeepsNames
  <2>4. fs.ino[i].mode = "file"
    BY <1>4, <2>0 DEF KeepsNames
  <2>5. PICK n, k : n = Names(r, i) /\ k = Cardinality(n)
    OBVIOUS
  <2>6. IsFiniteSet(n) /\ fs.ino[i].refs = 2 * k + IF i \in S THEN 2 ELSE 0
    BY <2>1, <2>3, <2>4, <2>5 DEF Counted, Names
  <2>7. k \in Nat
    BY <2>5, <2>6, FS_CardinalityType
  <2>8. fs.ino[f[i]].refs = fs.ino[i].refs
    <3>1. CASE i \in Way(fs, r, Named(q), 0)
      BY <1>4, <3>1
    <3>2. CASE i \notin Way(fs, r, Named(q), 0)
      BY <1>1, <2>2, <3>2 DEF Copied
    <3> QED
      BY <3>1, <3>2
  <2>9. CASE i \notin S
    <3>1. Names(f[r], f[i]) = n
      <4>1. ~(q.call = "link" /\ i = Lookup(fs, q.path, r))
        BY <2>9
      <4> QED
        BY <2>0, <2>5, <4>1 DEF KeepsNames
    <3> QED
      BY <2>5, <2>6, <2>7, <2>8, <2>9, <3>1
  <2>10. CASE i \in S
    <3>1. q.call = "link" /\ i = Lookup(fs, q.path, r)
      BY <2>10
    <3>2. PICK p \in Path \ n : Names(f[r], f[i]) = n \cup {p}
      BY <2>0, <2>5, <3>1 DEF KeepsNames
    <3>3. IsFiniteSet(n \cup {p}) /\ Cardinality(n \cup {p}) = k + 1
      BY <2>5, <2>6, <3>2, FS_AddElement
    <3>4. fs.ino[f[i]].refs = 2 * (k + 1)
      BY <2>6, <2>7, <2>8, <2>10
    <3> QED
      BY <3>2, <3>3, <3>4
  <2> QED
    BY <2>9, <2>10
<1>5. ASSUME NEW j \in Reach(fs, f[r]), fs.ino[j].mode = "file"
      PROVE  /\ IsFiniteSet(Names(f[r], j))
             /\ fs.ino[j].refs = 2 * Cardinality(Names(f[r], j))
  <2>1. CASE \E i \in Reach(fs, r) : j = f[i]
    BY <1>4, <1>5, <2>1
  <2>2. CASE x # <<>> /\ j = x[1].inum /\ Names(f[r], j) = {p0}
    <3>1. CASE q.call = "mknod"
      <4>1. Len(x) = 1
        BY <1>1, <2>2, NewName
      <4>2. fs.ino[j].refs = 2
        BY <2>2, <3>1, <4>1
      <4>3. IsFiniteSet({p0}) /\ Cardinality({p0}) = 1
        BY FS_Singleton
      <4> QED
        BY <2>2, <4>2, <4>3
    <3>2. CASE q.call = "link"
      <4>1. PICK g : g = Lookup(fs, q.path, r)
        OBVIOUS
      <4>2. g \in Inum /\ x = <<[name |-> basename(q.to), inum |-> g]>> /\ f[g] = g
        BY <1>1, <3>2, <4>1 DEF Effect
      <4>3. x[1].inum = g /\ g >= 0 /\ q.path \in Path
        BY <4>2, NumFacts, RequestPath
      <4>4. g \in Reach(fs, r)
        BY <4>1, <4>3 DEF Reach, Present
      <4>5. j = f[g]
        BY <2>2, <4>2, <4>3
      <4> QED
        BY <1>4, <1>5, <4>4, <4>5
    <3>3. CASE q.call \notin {"mknod", "link"}
      BY <1>1, <2>2, <3>3 DEF Effect
    <3> QED
      BY <3>1, <3>2, <3>3
  <2> QED
    BY <1>3, <1>5, <2>1, <2>2 DEF Kin
<1> SUFFICES ASSUME NEW p \in Present(fs, f[r]), fs.ino[Lookup(fs, p, f[r])].mode = "file"
             PROVE  LET j == Lookup(fs, p, f[r])
                        n == {u \in Path : Lookup(fs, u, f[r]) = j}
                    IN  IsFiniteSet(n) /\ fs.ino[j].refs = 2 * Cardinality(n) + 0
  BY DEF Counted
<1>6. PICK j, n : j = Lookup(fs, p, f[r]) /\ n = Names(f[r], j)
  OBVIOUS
<1>7. j \in Reach(fs, f[r])
  BY <1>6 DEF Reach
<1>8. IsFiniteSet(n) /\ fs.ino[j].refs = 2 * Cardinality(n)
  BY <1>5, <1>6, <1>7
<1>9. PICK k : k = Cardinality(n)
  OBVIOUS
<1>10. k \in Nat
  BY <1>8, <1>9, FS_CardinalityType
<1>11. fs.ino[j].refs = 2 * k + 0
  BY <1>8, <1>9, <1>10
<1> QED
  BY <1>6, <1>8, <1>9, <1>11 DEF Names

(* What a request adds is an entry.                                        *)
LEMMA NewEntry ==
  ASSUME PlainHistory, NEW d \in Table, NEW r, NEW f, NEW x, NEW q \in Calls, Effect(d, r, f, x, q)
  PROVE  x \in Seq(ddirent)
<1>1. CASE x = <<>>
  BY <1>1
<1>2. ASSUME NEW a \in Name, NEW i \in Inum, x = <<[name |-> a, inum |-> i]>>
      PROVE  x \in Seq(ddirent)
  <2>1. i \in Int
    BY NumFacts
  <2>2. [name |-> a, inum |-> i] \in ddirent
    BY <2>1 DEF ddirent
  <2> QED
    BY <1>2, <2>2
<1>3. CASE q.call = "mknod"
  <2>1. PICK c \in d.ibm : x = <<[name |-> basename(q.path), inum |-> c]>>
    BY <1>3 DEF Effect
  <2>2. c \in Inum /\ basename(q.path) \in Name
    BY <1>3, TableParts, RequestPath
  <2> QED
    BY <1>2, <2>1, <2>2
<1>4. CASE q.call = "link"
  <2>1. PICK g : g = Lookup(d, q.path, r)
    OBVIOUS
  <2>2. g \in Inum /\ x = <<[name |-> basename(q.to), inum |-> g]>>
    BY <1>4, <2>1 DEF Effect
  <2>3. basename(q.to) \in Name
    BY <1>4, RequestPath
  <2> QED
    BY <1>2, <2>2, <2>3
<1> QED
  BY <1>1, <1>3, <1>4 DEF Effect

\* Version n, which add_root installs, is made of the one at the head.
Installs(f, x, q, n) ==
    LET r == rl[0].rnum
    IN  /\ n = f[r] /\ Changed(fs, r, f, x, q, 0) /\ Made(fs, r, n, f, x, q)
        /\ Follows(fs, r, [call |-> job.call, path |-> job.path], n)
        /\ q.call = job.call /\ q.path = job.path /\ q.call \in Copying

(* What the climb has made follows the version it was made from.           *)
LEMMA ComeInstalls ==
  ASSUME PlainHistory, TypeOK, Collectable, Mirrored, job.left = Root,
         NEW f, NEW x, NEW q \in Calls, Come(f, x, q)
  PROVE  Installs(f, x, q, job.new)
<1>1. PICK r, n : r = rl[0].rnum /\ n = job.new
  OBVIOUS
<1>2. n = f[r] /\ Changed(fs, r, f, x, q, 0) /\ Made(fs, r, n, f, x, q)
  BY <1>1, ComeMade
<1>3. q.call = job.call /\ q.path = job.path
  BY DEF Come
<1>4. PICK V, D : HeadTree(V, D)
  BY HeadTreed
<1>5. D \in Depth /\ Tree(fs, r, V, D) /\ fs \in Table
  BY <1>1, <1>4 DEF HeadTree, TypeOK
<1>6. q.call \in Copying /\ Named(q) \in Seq(Name)
  BY RequestPath
<1>7. Effect(fs, r, f, x, q)
  BY <1>2 DEF Changed
<1>8. x \in Seq(ddirent)
  BY <1>5, <1>7, NewEntry
<1>9. Follows(fs, r, q, f[r])
  BY <1>2, <1>5, <1>6, <1>8, ChangedFollows
<1>10. PICK op : op = [call |-> job.call, path |-> job.path]
  OBVIOUS
<1>11. op.call = q.call /\ Named(op) = Named(q)
  BY <1>3, <1>10 DEF Named
<1>12. Follows(fs, r, op, n)
  BY <1>2, <1>9, <1>11 DEF Follows
<1> QED
  BY <1>1, <1>2, <1>3, <1>6, <1>10, <1>12 DEF Installs

(* add_root begins a push, of what the climb has made.                     *)
LEMMA Adds ==
  ASSUME TypeOK, Collectable, AddRoot
  PROVE  /\ ph = "idle" /\ job.stage = "climb" /\ job.left = Root
         /\ fs' = fs /\ rl' = rl /\ ii' = Oldest
         /\ entry'.rnum = job.new /\ entry'.op = [call |-> job.call, path |-> job.path]
         /\ ph' = IF RL!Full THEN "gc" ELSE "shift"
         /\ job'.stage = "push" /\ job'.gc = GcTarget
<1>1. job \in Jobs
  BY JobParts
<1>2. /\ ph = "idle" /\ job.stage = "climb" /\ job.left = Root
      /\ fs' = fs /\ rl' = rl /\ ii' = RL!ShiftFrom
      /\ entry' = [rnum |-> job.new, op |-> [call |-> job.call, path |-> Clip(job.call, job.path)]]
      /\ ph' = IF RL!Full THEN "gc" ELSE "shift"
      /\ job' = [job EXCEPT !.stage = "push", !.gc = GcTarget]
  BY DEF AddRoot, RL!AddRoot
<1>3. Clip(job.call, job.path) = job.path
  BY <1>2 DEF Collectable, Plain, Handlers
<1>4. ii' = Oldest
  BY <1>2 DEF RL!ShiftFrom, RL!Last, Oldest
<1> QED
  BY <1>1, <1>2, <1>3, <1>4 DEF Jobs

(* The versions follow each other as they did, and the pending one follows *)
(* the newest.                                                             *)
LEMMA AddRootSuccession ==
  ASSUME PlainHistory, TypeOK, TypeOK', Collectable, Mirrored, Accounts, AddRoot,
         NEW f, NEW x, NEW q \in Calls, Installs(f, x, q, job.new)
  PROVE  Succession' /\ Numbers'
<1>1. /\ ph = "idle" /\ fs' = fs /\ rl' = rl /\ ii' = Oldest /\ ph' \in {"gc", "shift"}
      /\ entry'.rnum = job.new /\ entry'.op = [call |-> job.call, path |-> job.path]
      /\ job'.stage = "push" /\ \A s \in RL!Slot : ~(s > Oldest)
  <2>1. \A s \in RL!Slot : ~(s > Oldest)
    <3> TAKE s \in RL!Slot
    <3>1. s \in Nat /\ s <= Oldest /\ Oldest \in Nat
      BY SlotFacts
    <3> QED
      BY <3>1
  <2> QED
    BY <2>1, Adds
<1>2. \A s \in 0 .. Oldest - 1 : Follows(fs, rl[s + 1].rnum, rl[s].op, rl[s].rnum)
  <2> TAKE s \in 0 .. Oldest - 1
  <2>1. Proper(s) /\ Live(s + 1)
    BY <1>1 DEF Proper, Live
  <2> QED
    BY <2>1 DEF Accounts, Succession
<1>3. Follows(fs, rl[0].rnum, [call |-> job.call, path |-> job.path], job.new)
  BY DEF Installs
<1>4. Succession'
  BY <1>1, <1>2, <1>3 DEF Succession
<1>5. Pushing' => entry'.op.call \in Copying /\ job'.stage = "push"
  BY <1>1 DEF Installs
<1>6. \A s \in RL!Slot : Moved(s) = 0 /\ Moved(s)' = 0
  BY <1>1 DEF Moved
<1>7. \A s \in RL!Slot :
         /\ rl[s].vnum = 0 => rl[s].rnum = 0
         /\ rl[s].vnum > 0 => rl[s].vnum + s <= rl[0].vnum + 0
         /\ rl[s].op.call = "init" => rl[s].rnum = 0
  BY <1>1, <1>6 DEF Accounts, Numbers
<1>8. Numbers'
  BY <1>1, <1>5, <1>6, <1>7 DEF Numbers
<1> QED
  BY <1>4, <1>8

(* What the oldest version of a full list reads is on the way of the       *)
(* collection, or the version next to it reads it; a slot that a push can  *)
(* overwrite without a collection holds nothing.                           *)
LEMMA OldestCollected ==
  ASSUME TypeOK, Collectable, Accounts, AddRoot,
         NEW j \in Reach(fs, rl[Oldest].rnum), j # 0
  PROVE  j \in Reach(fs, rl[Oldest - 1].rnum) \/ Uncollected(j)'
<1>1. PICK o, op : o = rl[Oldest].rnum /\ op = rl[Oldest - 1].op
  OBVIOUS
<1>2. /\ ph = "idle" /\ fs' = fs /\ rl' = rl /\ job'.gc = GcTarget
      /\ ph' = IF RL!Full THEN "gc" ELSE "shift"
  BY Adds
<1>3. /\ fs \in Table /\ Oldest \in RL!Slot /\ Oldest - 1 \in RL!Slot
      /\ Oldest - 1 \in 0 .. Oldest - 1 /\ Oldest \in Nat /\ (Oldest - 1) + 1 = Oldest
      /\ rl[Oldest].vnum \in Nat /\ rl[0].vnum \in Nat
  <2>1. Oldest \in RL!Slot /\ Oldest - 1 \in RL!Slot /\ 0 \in RL!Slot /\ Oldest \in Nat /\ Oldest > 0
    BY SlotFacts
  <2>2. rl \in [RL!Slot -> RL!cow_version] /\ fs \in Table
    BY DEF TypeOK, RL!TypeOK
  <2>3. \A s \in RL!Slot : rl[s].vnum \in Nat
    BY <2>2 DEF RL!cow_version
  <2>4. Oldest - 1 \in 0 .. Oldest - 1 /\ (Oldest - 1) + 1 = Oldest
    BY <2>1
  <2> QED
    BY <2>1, <2>2, <2>3, <2>4
<1>4. ~(Reach(fs, o) \subseteq {0})
  BY <1>1
<1>5. o # 0
  BY <1>3, <1>4, EmptyRoot DEF Collectable, Plain, Modes
<1>6. rl[Oldest].vnum > 0
  BY <1>1, <1>3, <1>5 DEF Accounts, Numbers
<1>7. RL!Full
  <2>1. Moved(Oldest) = 0
    BY <1>2 DEF Moved
  <2>2. rl[Oldest].vnum + Oldest <= rl[0].vnum + 0
    BY <1>3, <1>6, <2>1 DEF Accounts, Numbers
  <2>3. rl[0].vnum > Oldest
    BY <1>3, <1>6, <2>2
  <2> QED
    BY <2>3 DEF RL!Full, Oldest
<1>8. rl[Oldest].op.call # "init"
  BY <1>1, <1>2, <1>3, <1>5 DEF Accounts, Numbers
<1>9. Follows(fs, o, op, rl[Oldest - 1].rnum)
  <2>1. Proper(Oldest - 1) /\ Live(Oldest)
    BY <1>2 DEF Proper, Live
  <2> QED
    BY <1>1, <1>3, <2>1 DEF Accounts, Succession
<1>10. /\ op.call \in Copying /\ Lookup(fs, Named(op), o) >= 0
       /\ Reach(fs, o) \subseteq Reach(fs, rl[Oldest - 1].rnum) \cup Way(fs, o, Named(op), 0)
  BY <1>4, <1>9 DEF Follows
<1>11. Named(op) \in Seq(Name) /\ Named(op) # NoPath
  <2>1. op \in Labels
    BY <1>1, <1>3 DEF TypeOK, RL!TypeOK, RL!cow_version
  <2>2. Named(op) \in Path
    BY <1>10, <2>1, PathFacts DEF Named, Labels, Copying, OnParent, OnPath
  <2> QED
    BY <2>2, PathFacts
<1>12. GcTarget = Named(op)
  <2>1. ~FromInit
    BY <1>1, <1>8, <1>10 DEF FromInit, Copying, OnParent, OnPath
  <2> QED
    BY <1>1, <1>10, <2>1 DEF GcTarget, Named, Copying, OnParent, OnPath
<1>13. Chain(fs, o, Named(op))
  <2>1. PICK D \in Depth, V \in Sets : Trees(D, V)
    BY DEF Collectable, Safe
  <2>2. Tree(fs, o, V[Oldest], D) /\ D[0] = 0
    BY <1>1, <1>2, <1>3, <2>1 DEF Trees, Live
  <2> QED
    BY <1>3, <1>10, <1>11, <2>2, TreeChain
<1>14. CASE j \in Way(fs, o, Named(op), 0)
  <2>1. ph' = "gc"
    BY <1>2, <1>7
  <2>2. FreedRoot' = o
    BY <1>1, <1>2 DEF FreedRoot
  <2> QED
    BY <1>2, <1>11, <1>12, <1>13, <1>14, <2>1, <2>2 DEF Uncollected
<1> QED
  BY <1>1, <1>10, <1>14

(* What is allocated when a push begins is read by a version that stays,   *)
(* by the pending one, or is to be collected.                              *)
LEMMA AddRootAccounted ==
  ASSUME PlainHistory, TypeOK, Collectable, Accounts, AddRoot,
         NEW f, NEW x, NEW q \in Calls, Underway(f, x, q), Installs(f, x, q, job.new)
  PROVE  Accounted'
<1>1. /\ ph = "idle" /\ fs' = fs /\ rl' = rl /\ ph' \in {"gc", "shift"} /\ job.left = <<>>
      /\ entry'.rnum = job.new /\ job'.stage = "push" /\ fs \in Table
  BY Adds DEF Root, TypeOK
<1>2. PICK r, n : r = rl[0].rnum /\ n = job.new
  OBVIOUS
<1>3. /\ n = f[r] /\ Changed(fs, r, f, x, q, 0) /\ Made(fs, r, f[r], f, x, q)
  BY <1>2 DEF Installs
<1>4. /\ \A i \in Way(fs, r, Named(q), 0) : f[i] \in Reach(fs, n)
      /\ \A k \in 1 .. Len(x) : x[k].inum \in Inum => x[k].inum \in Reach(fs, n)
  BY <1>1, <1>3, MadeReads
<1>5. \A j \in fs.ibm \ {0} :
         \/ Listed(j)
         \/ \E i \in Way(fs, r, Named(q), 0) : j = f[i]
         \/ \E k \in 1 .. Len(x) : j = x[k].inum
  <2>1. Len(job.left) = 0
    BY <1>1
  <2> QED
    BY <1>2, <2>1 DEF Underway
<1>6. SUFFICES ASSUME NEW j \in fs.ibm \ {0} PROVE Listed(j)' \/ Uncollected(j)'
  BY <1>1 DEF Accounted
<1>7. CASE j \in Reach(fs, n)
  BY <1>1, <1>2, <1>7 DEF Listed
<1>8. ASSUME NEW s \in RL!Slot, s # Oldest, j \in Reach(fs, rl[s].rnum) PROVE Listed(j)'
  <2>1. Live(s)'
    BY <1>8 DEF Live
  <2> QED
    BY <1>1, <1>8, <2>1 DEF Listed
<1>9. CASE Listed(j)
  <2>1. PICK s \in RL!Slot : j \in Reach(fs, rl[s].rnum)
    BY <1>1, <1>9 DEF Listed
  <2>2. CASE s = Oldest
    <3>1. j \in Reach(fs, rl[Oldest - 1].rnum) \/ Uncollected(j)'
      BY <1>6, <2>1, <2>2, OldestCollected
    <3>2. Oldest - 1 \in RL!Slot /\ Oldest - 1 # Oldest
      BY SlotFacts
    <3> QED
      BY <1>8, <3>1, <3>2
  <2> QED
    BY <1>8, <2>1, <2>2
<1>10. j \in Inum
  BY <1>1, TableParts
<1> QED
  BY <1>4, <1>5, <1>7, <1>9, <1>10

(* add_root leaves everything accounted for.                               *)
LEMMA AccountsAddRoot ==
  ASSUME PlainHistory, TypeOK, TypeOK', Collectable, Collectable', Mirrored, Accounts, AddRoot
  PROVE  Accounts'
<1>1. /\ ph = "idle" /\ job.stage = "climb" /\ job.left = Root /\ fs' = fs /\ rl' = rl
      /\ ph' \in {"gc", "shift"} /\ entry'.rnum = job.new /\ fs \in Table
  BY Adds DEF TypeOK
<1>2. PICK f, x, q : q \in Calls /\ Underway(f, x, q)
  BY <1>1 DEF Accounts, Accounted
<1>3. Come(f, x, q)
  BY <1>2 DEF Underway
<1>4. Installs(f, x, q, job.new)
  BY <1>1, <1>2, <1>3, ComeInstalls
<1>5. Succession' /\ Numbers'
  BY <1>2, <1>4, AddRootSuccession
<1>6. Accounted'
  BY <1>2, <1>4, AddRootAccounted
<1>7. NoOdd'
  BY <1>1 DEF Accounts, NoOdd
<1>8. References'
  <2>1. PICK r, n, S : r = rl[0].rnum /\ n = job.new
                       /\ S = IF q.call = "link" THEN {Lookup(fs, q.path, r)} ELSE {}
    OBVIOUS
  <2>2. /\ n = f[r] /\ Changed(fs, r, f, x, q, 0) /\ Made(fs, r, f[r], f, x, q)
        /\ q.call = job.call /\ q.path = job.path
    BY <1>4, <2>1 DEF Installs
  <2>3. Counted(fs, r, S)
    <3>1. Linked = S
      BY <1>1, <2>1, <2>2 DEF Linked
    <3>2. Counted(fs, r, Linked)
      BY <1>1, <2>1 DEF Accounts, References
    <3> QED
      BY <3>1, <3>2
  <2>4. /\ \A i \in Way(fs, r, Named(q), 0) :
              fs.ino[f[i]].mode = "file" => fs.ino[f[i]].refs = fs.ino[i].refs
        /\ q.call = "mknod" => \A k \in 1 .. Len(x) : fs.ino[x[k].inum].refs = 2
    <3>1. Len(job.left) = 0
      BY <1>1 DEF Root
    <3> QED
      BY <1>2, <2>1, <3>1 DEF Underway
  <2>5. Counted(fs, f[r], {})
    BY <1>1, <1>2, <2>1, <2>2, <2>3, <2>4, MadeCounted
  <2> QED
    BY <1>1, <2>1, <2>2, <2>5 DEF References
<1> QED
  BY <1>5, <1>6, <1>7, <1>8 DEF Accounts

-----------------------------------------------------------------------------
(* The collection.                                                         *)

(* One level of the collection frees what it finds, and goes on with the   *)
(* rest of the way.                                                        *)
LEMMA FreeStepCollects ==
  ASSUME TypeOK, FreeStep, NEW j \in fs'.ibm \ {0}, Uncollected(j)
  PROVE  Uncollected(j)'
<1>1. PICK t, o, i : t = job.gc /\ o = FreedRoot /\ i = Lookup(fs, t, o)
  OBVIOUS
<1>2. /\ ph = "gc" /\ t # NoPath /\ rl' = rl /\ ph' = ph /\ job \in Jobs /\ fs \in Table
      /\ Chain(fs, o, t) /\ j \in Way(fs, o, t, 0)
  BY <1>1, JobParts DEF FreeStep, list, Uncollected, TypeOK
<1>3. t \in Seq(Name) /\ t \in Path /\ dirname(t) \in Path /\ FreedRoot' = o
  BY <1>1, <1>2, JobParts, PathFacts DEF FreedRoot
<1>4. i \in Inum /\ (i = 0 => t = <<>>) /\ IsPrefixOf(t, t)
  BY <1>1, <1>2, <1>3, PrefixFacts DEF Chain
<1>5. ASSUME t = <<>> PROVE j = i
  <2>1. PICK p \in Seq(Name) : IsPrefixOf(p, t) /\ j = Lookup(fs, p, o)
    BY <1>2 DEF Way
  <2>2. Len(p) = Len(t)
    <3>1. Len(p) \in Nat /\ Len(p) <= Len(t) /\ Len(t) = 0
      BY <1>5, <2>1 DEF IsPrefixOf
    <3> QED
      BY <3>1
  <2>3. p = t
    BY <1>3, <1>4, <2>1, <2>2, SamePrefix
  <2> QED
    BY <1>1, <2>1, <2>3
<1>6. i # 0
  BY <1>4, <1>5
<1>7. ~(i <= 0)
  BY <1>4, <1>6, NumFacts
<1>8. fs' = free_inode(fs, i) /\ job' = [job EXCEPT !.gc = IF @ = Root THEN NoPath ELSE dirname(@)]
  BY <1>1, <1>7 DEF FreeStep, Lookup
<1>9. j # i
  BY <1>2, <1>4, <1>8, FreeOthers
<1>10. t # <<>> /\ dirname(t) = SubSeq(t, 1, Len(t) - 1)
  BY <1>5, <1>9 DEF dirname, Root
<1>11. job'.gc = dirname(t)
  BY <1>1, <1>2, <1>8, <1>10 DEF Jobs, Root
<1>12. PICK u : u = dirname(t)
  OBVIOUS
<1>13. Shortened(fs, fs', o, t, u, i)
  BY <1>1, <1>2, <1>3, <1>8, <1>10, <1>12, ChainFreed
<1>14. Chain(fs', o, u) /\ j \in Way(fs', o, u, 0)
  BY <1>2, <1>9, <1>13 DEF Shortened
<1>15. u # NoPath
  BY <1>3, <1>12, PathFacts
<1> QED
  BY <1>2, <1>3, <1>11, <1>12, <1>14, <1>15 DEF Uncollected

(* A collection leaves everything accounted for.                           *)
LEMMA AccountsFree ==
  ASSUME TypeOK, TypeOK', Collectable, Collectable', [Next]_vars, Accounts, FreeStep
  PROVE  Accounts'
<1>1. /\ ph = "gc" /\ ph' = "gc" /\ rl' = rl /\ ii' = ii /\ entry' = entry
      /\ job \in Jobs /\ fs \in Table /\ fs' \in Table
      /\ rl \in [RL!Slot -> RL!cow_version] /\ entry \in [rnum : Int, op : Labels] /\ ii = Oldest
  BY JobParts, SlotFacts DEF FreeStep, list, TypeOK, RL!TypeOK
<1>2. job.stage = "push" /\ job'.stage = "push"
  <2>1. job.stage = "push"
    BY <1>1 DEF Accounts, Numbers, Pushing
  <2> QED
    BY <1>1, <2>1 DEF FreeStep, Jobs
<1>3. fs'.ibm \subseteq fs.ibm /\ \A j \in fs'.ibm : fs'.ino[j] = fs.ino[j]
  <2>1. fs.ibm \subseteq Num
    BY <1>1, TableParts DEF Num
  <2>2. ASSUME NEW i \in Inum, fs' = free_inode(fs, i)
        PROVE  fs'.ibm = fs.ibm \ {i} /\ \A j \in Num \ {i} : fs'.ino[j] = fs.ino[j]
    BY <1>1, <2>2, FreeOthers
  <2> QED
    BY <2>1, <2>2, FreeStepFrees
<1>4. \A s \in RL!Slot : s # Oldest => Live(s) /\ Live(s)' /\ Steady(fs, fs', rl[s].rnum)
  <2> SUFFICES ASSUME NEW s \in RL!Slot, s # Oldest
               PROVE  Live(s) /\ Live(s)' /\ Steady(fs, fs', rl[s].rnum)
    OBVIOUS
  <2>1. Live(s) /\ Live(s)'
    BY DEF Live
  <2>2. Treed(fs, rl[s].rnum) /\ Treed(fs', rl[s].rnum)
    BY <1>1, <2>1, ListTreed, ListTreedNext
  <2> QED
    BY <2>1, <2>2, StepSteady
<1>5. Steady(fs, fs', entry.rnum) /\ Treed(fs', entry.rnum)
  <2>1. Treed(fs, entry.rnum) /\ Treed(fs', entry.rnum)
    BY <1>1, ListTreed, ListTreedNext
  <2> QED
    BY <2>1, StepSteady
<1>6. \A s \in RL!Slot : Live(s) <=> s # Oldest
  BY <1>1 DEF Live
<1>7. Oldest \in Nat /\ 0 \in RL!Slot /\ Oldest # 0
  BY SlotFacts
<1>8. Succession'
  <2>1. ASSUME NEW s \in 0 .. Oldest - 1, Live(s + 1)'
        PROVE  Follows(fs', rl[s + 1].rnum, rl[s].op, rl[s].rnum)
    <3>1. s \in RL!Slot /\ s + 1 \in RL!Slot /\ s # Oldest
      BY SlotFacts DEF RL!Slot, Oldest
    <3>2. s + 1 # Oldest
      BY <1>1, <2>1 DEF Live
    <3>3. Proper(s) /\ Live(s + 1) /\ rl[s].op \in Labels
      BY <1>1, <1>6, <3>1, <3>2 DEF Proper, RL!cow_version
    <3>4. Follows(fs, rl[s + 1].rnum, rl[s].op, rl[s].rnum)
      BY <3>3 DEF Accounts, Succession
    <3> QED
      BY <1>4, <3>1, <3>2, <3>3, <3>4, FollowsOn
  <2>2. Follows(fs', rl[0].rnum, entry.op, entry.rnum)
    <3>1. Follows(fs, rl[0].rnum, entry.op, entry.rnum)
      BY <1>1 DEF Accounts, Succession
    <3> QED
      BY <1>1, <1>4, <1>5, <1>7, <3>1, FollowsOn
  <2> QED
    BY <1>1, <2>1, <2>2 DEF Succession
<1>9. Numbers'
  <2>1. \A s : Moved(s)' = Moved(s)
    BY <1>1 DEF Moved
  <2> QED
    BY <1>1, <1>2, <2>1 DEF Accounts, Numbers, Pushing
<1>10. Accounted'
  <2> SUFFICES ASSUME NEW j \in fs'.ibm \ {0} PROVE Listed(j)' \/ Uncollected(j)'
    BY <1>2 DEF Accounted
  <2>1. Listed(j) \/ Uncollected(j)
    BY <1>2, <1>3 DEF Accounts, Accounted
  <2>2. CASE Listed(j)
    <3>1. \A s \in RL!Slot : s # Oldest => Reach(fs', rl[s].rnum) = Reach(fs, rl[s].rnum)
      BY <1>4, SteadyReach
    <3>2. Reach(fs', entry.rnum) = Reach(fs, entry.rnum)
      BY <1>5, SteadyReach
    <3> QED
      BY <1>1, <1>4, <1>6, <2>2, <3>1, <3>2 DEF Listed
  <2> QED
    BY <2>1, <2>2, FreeStepCollects
<1>11. NoOdd'
  BY <1>3 DEF Accounts, NoOdd
<1>12. References'
  <2>1. Counted(fs, entry.rnum, {})
    BY <1>1 DEF Accounts, References
  <2>2. Reach(fs, entry.rnum) \subseteq fs'.ibm
    <3>1. Reach(fs', entry.rnum) = Reach(fs, entry.rnum)
      BY <1>5, SteadyReach
    <3>2. Reach(fs', entry.rnum) \subseteq fs'.ibm
      BY <1>1, <1>5, ReachTaken
    <3> QED
      BY <3>1, <3>2
  <2>3. PICK S : S = {}
    OBVIOUS
  <2>4. \A k \in Reach(fs, entry.rnum) : fs'.ino[k].refs = fs.ino[k].refs + IF k \in S \ S THEN 2 ELSE 0
    <3> TAKE k \in Reach(fs, entry.rnum)
    <3>1. k \in Num
      BY <1>1, <2>2, TableParts DEF Num
    <3>2. fs'.ino[k] = fs.ino[k] /\ fs.ino[k].refs \in Int
      BY <1>1, <1>3, <2>2, <3>1, InodeParts
    <3> QED
      BY <3>2
  <2>5. Counted(fs', entry.rnum, S)
    <3>1. S \subseteq S /\ Counted(fs, entry.rnum, S) /\ Steady(fs, fs', entry.rnum)
      BY <1>5, <2>1, <2>3
    <3> QED
      BY <1>1, <2>4, <3>1, CountedOn
  <2> QED
    BY <1>1, <2>3, <2>5 DEF References
<1> QED
  BY <1>8, <1>9, <1>10, <1>11, <1>12 DEF Accounts

-----------------------------------------------------------------------------
(* The push.                                                               *)

\* What the stores of a push have before them.
PushList ==
    /\ rl \in [RL!Slot -> RL!cow_version] /\ 0 \in RL!Slot /\ Oldest \in Nat /\ Oldest > 0
    /\ \A s \in RL!Slot : s \in Nat /\ s <= Oldest /\ rl[s].vnum \in Nat
    /\ \A s \in 0 .. Oldest - 1 : s \in RL!Slot /\ s + 1 \in RL!Slot /\ s + 1 # s

(* The list in a push.                                                     *)
LEMMA PushLists == TypeOK => PushList
<1> SUFFICES ASSUME TypeOK PROVE PushList
  OBVIOUS
<1>1. rl \in [RL!Slot -> RL!cow_version]
  BY DEF TypeOK, RL!TypeOK
<1>2. \A s \in RL!Slot : rl[s].vnum \in Nat
  BY <1>1 DEF RL!cow_version
<1>3. Oldest \in Nat /\ Oldest > 0
  BY SlotFacts
<1>4. \A s \in 0 .. Oldest - 1 : s \in RL!Slot /\ s + 1 \in RL!Slot /\ s + 1 # s
  BY SlotFacts DEF RL!Slot, Oldest
<1> QED
  BY <1>1, <1>2, <1>3, <1>4, SlotFacts DEF PushList

(* In a push no request climbs.                                            *)
LEMMA PushStage ==
  ASSUME Accounts, Pushing
  PROVE  /\ job.stage = "push" /\ entry.op.call \in Copying /\ Linked = {}
         /\ \A j \in fs.ibm \ {0} : Listed(j) \/ Uncollected(j)
<1>1. job.stage = "push" /\ entry.op.call \in Copying
  BY DEF Accounts, Numbers
<1> QED
  BY <1>1 DEF Linked, Accounts, Accounted

(* When the collection is over nothing is left to collect.                 *)
LEMMA AccountsCollected ==
  ASSUME TypeOK, Accounts, Collected
  PROVE  Accounts'
<1>1. /\ ph = "gc" /\ ph' = "shift" /\ rl' = rl /\ ii' = ii /\ entry' = entry
      /\ fs' = fs /\ job' = job /\ job.gc = NoPath /\ ii = Oldest
  BY SlotFacts DEF Collected, RL!Collected, TypeOK, RL!TypeOK
<1>2. PushList
  BY PushLists
<1>3. job.stage = "push" /\ \A j \in fs.ibm \ {0} : Listed(j) \/ Uncollected(j)
  BY <1>1, PushStage DEF Pushing
<1>4. \A s \in RL!Slot : (Live(s)' <=> Live(s)) /\ (Proper(s)' <=> Proper(s))
  <2> TAKE s \in RL!Slot
  <2>1. Live(s)' <=> Live(s)
    BY <1>1, <1>2 DEF Live, PushList
  <2>2. Proper(s)' <=> Proper(s)
    BY <1>1 DEF Proper
  <2> QED
    BY <2>1, <2>2
<1>5. \A s \in RL!Slot : Moved(s) = 0 /\ Moved(s)' = 0
  BY <1>1, <1>2 DEF Moved, PushList
<1>6. Succession'
  BY <1>1, <1>2, <1>4 DEF Accounts, Succession, PushList
<1>7. Numbers'
  <2>1. \A s \in RL!Slot : rl[s].vnum > 0 => rl[s].vnum + s <= rl[0].vnum + 0
    BY <1>5 DEF Accounts, Numbers
  <2> QED
    BY <1>1, <1>5, <2>1 DEF Accounts, Numbers, Pushing
<1>8. Accounted'
  <2>1. \A j : ~Uncollected(j)
    BY <1>1 DEF Uncollected
  <2>2. \A j : Listed(j) => Listed(j)'
    BY <1>1, <1>4 DEF Listed
  <2> QED
    BY <1>1, <1>3, <2>1, <2>2 DEF Accounted
<1>9. References' /\ NoOdd'
  BY <1>1 DEF Accounts, References, NoOdd
<1> QED
  BY <1>6, <1>7, <1>8, <1>9 DEF Accounts

(* The shift moves a version from one slot to two, and away from the one   *)
(* that was given up or doubled before.                                    *)
LEMMA AccountsShift ==
  ASSUME TypeOK, Collectable, Accounts, RL!Shift, fs' = fs, job' = job
  PROVE  Accounts'
<1>1. /\ ph = "shift" /\ ph' \in {"shift", "rnum"} /\ entry' = entry
      /\ ii \in 1 .. Oldest /\ ii \in RL!Slot /\ ii - 1 \in RL!Slot /\ ii' = ii - 1
      /\ rl'[ii] = rl[ii - 1] /\ \A s \in RL!Slot \ {ii} : rl'[s] = rl[s]
  BY Stores
<1>2. PushList /\ job.stage = "push" /\ \A j \in fs.ibm \ {0} : Listed(j) \/ Uncollected(j)
  BY <1>1, PushLists, PushStage DEF Pushing
<1>3. ii < Oldest => rl[ii + 1] = rl[ii] /\ ii + 1 \in RL!Slot /\ ii + 1 # ii
  <2>1. ii < Oldest => rl[ii + 1] = rl[ii]
    BY <1>1 DEF Collectable, Safe, Doubled
  <2> QED
    BY <1>1, <1>2, <2>1 DEF PushList
<1>4. /\ \A s \in RL!Slot : Live(s)'
      /\ \A s \in RL!Slot : s # Oldest \/ ii < Oldest => Live(s)
  <2>1. ii - 1 < Oldest
    BY <1>1, <1>2 DEF PushList
  <2> QED
    BY <1>1, <2>1 DEF Live
<1>5. rl'[0] = rl[0]
  BY <1>1, <1>2 DEF PushList
<1>6. Succession'
  <2>1. ASSUME NEW s \in 0 .. Oldest - 1, s # ii - 1
        PROVE  Follows(fs, rl'[s + 1].rnum, rl'[s].op, rl'[s].rnum)
    <3>1. s \in RL!Slot /\ s + 1 \in RL!Slot /\ s + 1 # s /\ s + 1 # ii
      BY <1>1, <1>2, <2>1 DEF PushList
    <3>2. CASE s = ii
      <4>1. /\ ii < Oldest /\ ii - 1 \in 0 .. Oldest - 1 /\ ii - 1 # ii /\ ii # Oldest
            /\ (ii - 1) + 1 = ii
        BY <1>1, <1>2, <3>2 DEF PushList
      <4>2. Proper(ii - 1) /\ Live((ii - 1) + 1)
        BY <1>1, <1>4, <4>1 DEF Proper
      <4>3. Follows(fs, rl[ii].rnum, rl[ii - 1].op, rl[ii - 1].rnum)
        BY <4>1, <4>2 DEF Accounts, Succession
      <4>4. rl'[s + 1] = rl[ii] /\ rl'[s] = rl[ii - 1]
        BY <1>1, <1>3, <3>1, <3>2, <4>1
      <4> QED
        BY <4>3, <4>4
    <3>3. CASE s # ii
      <4>1. s + 1 = Oldest => ii < Oldest
        BY <1>1, <1>2, <2>1, <3>1 DEF PushList
      <4>2. Proper(s) /\ Live(s + 1)
        BY <1>4, <3>1, <3>3, <4>1 DEF Proper
      <4>3. rl'[s + 1] = rl[s + 1] /\ rl'[s] = rl[s]
        BY <1>1, <3>1, <3>3
      <4> QED
        BY <4>2, <4>3 DEF Accounts, Succession
    <3> QED
      BY <3>2, <3>3
  <2>2. \A s : Proper(s)' => s # ii - 1
    BY <1>1 DEF Proper
  <2>3. Follows(fs, rl'[0].rnum, entry.op, entry.rnum)
    BY <1>1, <1>5 DEF Accounts, Succession
  <2> QED
    BY <1>1, <2>1, <2>2, <2>3 DEF Succession
<1>7. Numbers'
  <2>1. \A s \in RL!Slot \ {ii} : Moved(s)' >= Moved(s) /\ Moved(s) \in Int /\ Moved(s)' \in Int
    <3> TAKE s \in RL!Slot \ {ii}
    <3>1. s > ii => s > ii - 1
      BY <1>1, <1>2 DEF PushList
    <3> QED
      BY <1>1, <3>1 DEF Moved
  <2>0. PICK k : k = ii
    OBVIOUS
  <2>2. Moved(k)' = 1 /\ Moved(k - 1) = 0
    BY <1>1, <1>2, <2>0 DEF Moved, PushList
  <2>3. ASSUME NEW s \in RL!Slot, rl'[s].vnum > 0
        PROVE  rl'[s].vnum + s <= rl'[0].vnum + Moved(s)'
    <3>1. CASE s = ii
      <4>1. rl[ii - 1].vnum + (ii - 1) <= rl[0].vnum + 0
        BY <1>1, <2>0, <2>2, <2>3, <3>1 DEF Accounts, Numbers
      <4>2. rl[ii - 1].vnum + ii <= rl[0].vnum + 1
        BY <1>1, <1>2, <4>1 DEF PushList
      <4>3. Moved(s)' = 1 /\ rl'[s] = rl[ii - 1]
        BY <1>1, <2>0, <2>2, <3>1
      <4> QED
        BY <1>5, <3>1, <4>2, <4>3
    <3>2. CASE s # ii
      <4>1. rl[s].vnum + s <= rl[0].vnum + Moved(s)
        BY <1>1, <2>3, <3>2 DEF Accounts, Numbers
      <4>2. rl'[s] = rl[s]
        BY <1>1, <3>2
      <4> QED
        BY <1>2, <1>5, <2>1, <3>2, <4>1, <4>2 DEF PushList
    <3> QED
      BY <3>1, <3>2
  <2>4. ASSUME NEW s \in RL!Slot
        PROVE  /\ rl'[s].vnum = 0 => rl'[s].rnum = 0
               /\ rl'[s].op.call = "init" => rl'[s].rnum = 0
    <3>1. \A t \in RL!Slot : /\ rl[t].vnum = 0 => rl[t].rnum = 0
                             /\ rl[t].op.call = "init" => rl[t].rnum = 0
      BY <1>1 DEF Accounts, Numbers
    <3> QED
      BY <1>1, <3>1
  <2>5. Pushing' => entry'.op.call \in Copying /\ job'.stage = "push"
    BY <1>1, <1>2, PushStage DEF Pushing
  <2> QED
    BY <2>3, <2>4, <2>5 DEF Numbers
<1>8. Accounted'
  <2>1. ASSUME NEW j, Listed(j) PROVE Listed(j)'
    <3>1. CASE j \in Reach(fs, entry.rnum)
      BY <1>1, <3>1 DEF Listed
    <3>2. ASSUME NEW s \in RL!Slot, Live(s), j \in Reach(fs, rl[s].rnum) PROVE Listed(j)'
      <4>1. CASE s # ii
        <5>1. rl'[s] = rl[s] /\ Live(s)'
          BY <1>1, <1>4, <4>1
        <5> QED
          BY <3>2, <5>1 DEF Listed
      <4>2. CASE s = ii
        <5>1. ii < Oldest
          BY <1>1, <1>2, <3>2, <4>2 DEF Live, PushList
        <5>2. s + 1 \in RL!Slot /\ rl'[s + 1] = rl[s]
          BY <1>1, <1>3, <4>2, <5>1
        <5>3. Live(s + 1)'
          BY <1>4, <5>2
        <5> QED
          BY <3>2, <5>2, <5>3 DEF Listed
      <4> QED
        BY <4>1, <4>2
    <3> QED
      BY <2>1, <3>1, <3>2 DEF Listed
  <2>2. \A j : ~Uncollected(j)
    BY <1>1 DEF Uncollected
  <2> QED
    BY <1>2, <2>1, <2>2 DEF Accounted
<1>9. References' /\ NoOdd'
  BY <1>1 DEF Accounts, References, NoOdd
<1> QED
  BY <1>6, <1>7, <1>8, <1>9 DEF Accounts

(* The store of the root number installs the pending version: slot 1 holds *)
(* the one it replaces.                                                    *)
LEMMA AccountsStoreRnum ==
  ASSUME TypeOK, Collectable, Listing, Accounts, RL!StoreRnum, fs' = fs, job' = job
  PROVE  Accounts'
<1>1. /\ ph = "rnum" /\ ph' = "vnum" /\ entry' = entry /\ ii' = ii /\ ii = 0
      /\ rl' = [rl EXCEPT ![0].rnum = entry.rnum]
  BY DEF RL!StoreRnum, TypeOK, RL!TypeOK
<1>2. PushList /\ job.stage = "push" /\ \A j \in fs.ibm \ {0} : Listed(j) \/ Uncollected(j)
  BY <1>1, PushLists, PushStage DEF Pushing
<1>3. /\ rl'[0].rnum = entry.rnum /\ rl'[0].vnum = rl[0].vnum /\ rl'[0].op = rl[0].op
      /\ \A s \in RL!Slot \ {0} : rl'[s] = rl[s]
  BY <1>1, <1>2 DEF PushList, RL!cow_version
<1>4. rl[1] = rl[0] /\ 1 \in RL!Slot /\ rl'[1] = rl[1]
  <2>1. rl[0 + 1] = rl[0]
    BY <1>1 DEF Collectable, Safe, Doubled
  <2>2. 0 \in 0 .. Oldest - 1
    BY <1>2 DEF PushList
  <2>3. 0 + 1 \in RL!Slot
    BY <1>2, <2>2 DEF PushList
  <2> QED
    BY <1>3, <2>1, <2>3
<1>5. \A s \in RL!Slot : Live(s) /\ Live(s)'
  BY <1>1 DEF Live
<1>6. Succession'
  <2>1. ASSUME NEW s \in 0 .. Oldest - 1, s # 0
        PROVE  Follows(fs, rl'[s + 1].rnum, rl'[s].op, rl'[s].rnum)
    <3>1. s \in RL!Slot /\ s + 1 \in RL!Slot /\ s + 1 # 0
      BY <1>2, <2>1 DEF PushList
    <3>2. Proper(s) /\ Live(s + 1)
      BY <1>1, <1>5, <2>1, <3>1 DEF Proper
    <3> QED
      BY <1>3, <2>1, <3>1, <3>2 DEF Accounts, Succession
  <2>2. \A s : Proper(s)' => s # 0
    BY <1>1 DEF Proper
  <2>3. Follows(fs, rl'[1].rnum, entry.op, rl'[0].rnum)
    BY <1>1, <1>3, <1>4 DEF Accounts, Succession
  <2> QED
    BY <1>1, <2>1, <2>2, <2>3 DEF Succession
<1>7. Numbers'
  <2>1. \A s \in RL!Slot : Moved(s)' = Moved(s) /\ rl'[s].vnum = rl[s].vnum /\ rl'[s].op = rl[s].op
    BY <1>1, <1>3 DEF Moved
  <2>2. rl[0].vnum # 0
    <3>1. rl[0].vnum > 0
      BY DEF Listing, HeadUsed
    <3> QED
      BY <1>2, <3>1 DEF PushList
  <2>3. \A s \in RL!Slot :
           /\ rl[s].vnum = 0 => rl[s].rnum = 0
           /\ rl[s].vnum > 0 => rl[s].vnum + s <= rl[0].vnum + Moved(s)
           /\ rl[s].op.call = "init" => rl[s].rnum = 0
    BY <1>1 DEF Accounts, Numbers
  <2>4. \A s \in RL!Slot : rl'[s].vnum = 0 => rl'[s].rnum = 0
    BY <1>3, <2>2, <2>3
  <2>5. \A s \in RL!Slot : rl'[s].op.call = "init" => rl'[s].rnum = 0 \/ s = 0
    BY <1>3, <2>3
  <2>6. \A s \in RL!Slot : rl'[s].vnum > 0 => rl'[s].vnum + s <= rl'[0].vnum + Moved(s)'
    BY <1>3, <2>1, <2>3
  <2>7. entry'.op.call \in Copying /\ job'.stage = "push"
    BY <1>1, <1>2, PushStage DEF Pushing
  <2> QED
    BY <1>1, <2>4, <2>5, <2>6, <2>7 DEF Numbers
<1>8. Accounted'
  <2>1. ASSUME NEW j, Listed(j) PROVE Listed(j)'
    <3>1. PICK s \in RL!Slot : j \in Reach(fs, rl'[s].rnum)
      BY <1>1, <1>2, <1>3, <1>4, <2>1 DEF Listed, PushList
    <3> QED
      BY <1>5, <3>1 DEF Listed
  <2>2. \A j : ~Uncollected(j)
    BY <1>1 DEF Uncollected
  <2> QED
    BY <1>2, <2>1, <2>2 DEF Accounted
<1>9. References'
  <2>1. Linked' = {}
    BY <1>2 DEF Linked
  <2>2. Counted(fs, entry.rnum, {})
    BY <1>1 DEF Accounts, References
  <2> QED
    BY <1>1, <1>3, <2>1, <2>2 DEF References
<1>10. NoOdd'
  BY DEF Accounts, NoOdd
<1> QED
  BY <1>6, <1>7, <1>8, <1>9, <1>10 DEF Accounts

(* The other two stores into slot 0 keep the roots.                        *)
LEMMA RootsStay ==
  ASSUME Accounts, ph \in {"vnum", "op"}, ph' \in {"op", "idle", "off"}, fs' = fs, job'.stage # "climb",
         \A s \in RL!Slot : rl'[s].rnum = rl[s].rnum, 0 \in RL!Slot
  PROVE  Accounted' /\ References' /\ NoOdd'
<1>1. Linked = {} /\ \A j \in fs.ibm \ {0} : Listed(j) \/ Uncollected(j)
  BY PushStage DEF Pushing
<1>2. \A s \in RL!Slot : Live(s) /\ Live(s)'
  BY DEF Live
<1>3. \A j : Listed(j) => Listed(j)'
  BY <1>2 DEF Listed
<1>4. \A j : ~Uncollected(j)
  BY DEF Uncollected
<1>5. Accounted'
  BY <1>1, <1>3, <1>4 DEF Accounted
<1>6. Linked' = {}
  BY DEF Linked
<1>7. Counted(fs, rl[0].rnum, {})
  BY <1>1 DEF Accounts, References
<1>8. References'
  BY <1>6, <1>7 DEF References
<1>9. NoOdd'
  BY DEF Accounts, NoOdd
<1> QED
  BY <1>5, <1>8, <1>9

(* The store of the version number.                                        *)
LEMMA AccountsStoreVnum ==
  ASSUME TypeOK, Accounts, RL!StoreVnum, fs' = fs, job' = job
  PROVE  Accounts'
<1>1. /\ ph = "vnum" /\ ph' = "op" /\ entry' = entry /\ ii' = ii /\ ii = 0
      /\ rl' = [rl EXCEPT ![0].vnum = @ + 1]
  BY DEF RL!StoreVnum, TypeOK, RL!TypeOK
<1>2. PushList /\ job.stage = "push" /\ entry.op.call \in Copying
  BY <1>1, PushLists, PushStage DEF Pushing
<1>3. /\ rl'[0].rnum = rl[0].rnum /\ rl'[0].vnum = rl[0].vnum + 1 /\ rl'[0].op = rl[0].op
      /\ \A s \in RL!Slot \ {0} : rl'[s] = rl[s]
  BY <1>1, <1>2 DEF PushList, RL!cow_version
<1>4. \A s \in RL!Slot : rl'[s].rnum = rl[s].rnum /\ rl'[s].op = rl[s].op
  BY <1>3
<1>5. Accounted' /\ References' /\ NoOdd'
  BY <1>1, <1>2, <1>4, RootsStay DEF PushList
<1>6. \A s : (Proper(s)' <=> Proper(s)) /\ (Live(s)' <=> Live(s))
  BY <1>1 DEF Proper, Live
<1>7. 1 \in RL!Slot
  <2>1. 0 \in 0 .. Oldest - 1
    BY <1>2 DEF PushList
  <2>2. 0 + 1 \in RL!Slot
    BY <1>2, <2>1 DEF PushList
  <2> QED
    BY <2>2
<1>8. Succession'
  <2>1. ASSUME NEW s \in 0 .. Oldest - 1, Proper(s)', Live(s + 1)'
        PROVE  Follows(fs, rl'[s + 1].rnum, rl'[s].op, rl'[s].rnum)
    <3>1. s \in RL!Slot /\ s + 1 \in RL!Slot
      BY <1>2 DEF PushList
    <3>2. Proper(s)
      BY <1>6, <2>1
    <3>3. Live(s + 1)
      BY <1>1 DEF Live
    <3> QED
      BY <1>4, <3>1, <3>2, <3>3 DEF Accounts, Succession
  <2>2. Follows(fs, rl'[1].rnum, entry.op, rl'[0].rnum)
    BY <1>1, <1>2, <1>4, <1>7 DEF Accounts, Succession, PushList
  <2> QED
    BY <1>1, <2>1, <2>2 DEF Succession
<1>9. Numbers'
  <2>1. \A s \in RL!Slot :
           /\ rl[s].vnum = 0 => rl[s].rnum = 0
           /\ rl[s].vnum > 0 => rl[s].vnum + s <= rl[0].vnum + Moved(s)
           /\ rl[s].op.call = "init" => rl[s].rnum = 0 \/ s = 0
    BY <1>1 DEF Accounts, Numbers
  <2>2. \A s \in RL!Slot : (s > 0 => Moved(s) = 1) /\ Moved(s)' = 0
    BY <1>1 DEF Moved
  <2>3. ASSUME NEW s \in RL!Slot PROVE rl'[s].vnum > 0 => rl'[s].vnum + s <= rl'[0].vnum + Moved(s)'
    <3>1. CASE s = 0
      <4>1. rl'[0].vnum + 0 <= rl'[0].vnum + 0
        BY <1>2, <1>3 DEF PushList
      <4> QED
        BY <2>2, <3>1, <4>1
    <3>2. CASE s # 0
      <4>1. s > 0 /\ rl'[s] = rl[s]
        BY <1>2, <1>3, <3>2 DEF PushList
      <4>2. rl[s].vnum > 0 => rl[s].vnum + s <= rl[0].vnum + 1
        BY <2>1, <2>2, <4>1
      <4> QED
        BY <1>2, <1>3, <2>2, <4>1, <4>2 DEF PushList
    <3> QED
      BY <3>1, <3>2
  <2>4. \A s \in RL!Slot : rl'[s].vnum = 0 => rl'[s].rnum = 0
    <3>1. rl'[0].vnum # 0
      BY <1>2, <1>3 DEF PushList
    <3> QED
      BY <1>3, <2>1, <3>1
  <2>5. \A s \in RL!Slot : rl'[s].op.call = "init" => rl'[s].rnum = 0 \/ s = 0
    BY <1>4, <2>1
  <2> QED
    BY <1>1, <1>2, <2>3, <2>4, <2>5 DEF Numbers
<1> QED
  BY <1>5, <1>8, <1>9 DEF Accounts

(* With the last store the label is that of the version in slot 0.         *)
LEMMA AccountsStoreOp ==
  ASSUME TypeOK, Accounts, StoreLast, fs' = fs
  PROVE  Accounts'
<1>1. /\ ph = "op" /\ ph' \in {"idle", "off"} /\ ii = 0
      /\ rl' = [rl EXCEPT ![0].op = entry.op]
  BY DEF StoreLast, RL!StoreOp, TypeOK, RL!TypeOK
<1>2. PushList /\ job.stage = "push" /\ entry.op.call \in Copying
  BY <1>1, PushLists, PushStage DEF Pushing
<1>3. /\ rl'[0].rnum = rl[0].rnum /\ rl'[0].vnum = rl[0].vnum /\ rl'[0].op = entry.op
      /\ \A s \in RL!Slot \ {0} : rl'[s] = rl[s]
  BY <1>1, <1>2 DEF PushList, RL!cow_version
<1>4. \A s \in RL!Slot : rl'[s].rnum = rl[s].rnum /\ rl'[s].vnum = rl[s].vnum
  BY <1>3
<1>5. job'.stage # "climb"
  BY <1>2, JobParts DEF StoreLast, NoJob, Jobs
<1>6. Accounted' /\ References' /\ NoOdd'
  BY <1>1, <1>2, <1>4, <1>5, RootsStay DEF PushList
<1>7. Succession'
  <2>1. ASSUME NEW s \in 0 .. Oldest - 1
        PROVE  Follows(fs, rl'[s + 1].rnum, rl'[s].op, rl'[s].rnum)
    <3>1. s \in RL!Slot /\ s + 1 \in RL!Slot
      BY <1>2 DEF PushList
    <3>2. CASE s = 0
      <4>1. Follows(fs, rl[s + 1].rnum, entry.op, rl[0].rnum)
        BY <1>1, <3>2 DEF Accounts, Succession
      <4> QED
        BY <1>3, <1>4, <3>1, <3>2, <4>1
    <3>3. CASE s # 0
      <4>1. Proper(s) /\ Live(s + 1)
        BY <1>1, <3>3 DEF Proper, Live
      <4>2. Follows(fs, rl[s + 1].rnum, rl[s].op, rl[s].rnum)
        BY <4>1 DEF Accounts, Succession
      <4> QED
        BY <1>3, <1>4, <3>1, <3>3, <4>2
    <3> QED
      BY <3>2, <3>3
  <2> QED
    BY <1>1, <2>1 DEF Succession
<1>8. Numbers'
  <2>1. \A s \in RL!Slot : Moved(s) = 0 /\ Moved(s)' = 0
    BY <1>1 DEF Moved
  <2>2. \A s \in RL!Slot :
           /\ rl[s].vnum = 0 => rl[s].rnum = 0
           /\ rl[s].vnum > 0 => rl[s].vnum + s <= rl[0].vnum + 0
           /\ rl[s].op.call = "init" => rl[s].rnum = 0 \/ s = 0
    BY <1>1, <2>1 DEF Accounts, Numbers
  <2>3. rl'[0].op.call # "init"
    BY <1>2, <1>3 DEF Copying, OnParent, OnPath
  <2>4. \A s \in RL!Slot : rl'[s].op.call = "init" => rl'[s].rnum = 0
    BY <1>3, <2>2, <2>3
  <2>5. ~Pushing'
    BY <1>1 DEF Pushing
  <2> QED
    BY <1>3, <1>4, <2>1, <2>2, <2>4, <2>5 DEF Numbers
<1> QED
  BY <1>6, <1>7, <1>8 DEF Accounts

-----------------------------------------------------------------------------
(* Every step.                                                             *)

(* Starting and stopping the process between handlers changes nothing.     *)
LEMMA AccountsProcess ==
  ASSUME Tidy, TypeOK, TypeOK', Collectable, Collectable', Accounts, [Next]_vars,
         Mount \/ Unmount \/ Kill
  PROVE  Accounts'
<1>1. /\ ph \in {"idle", "off"} /\ ph' \in {"idle", "off"} /\ rl' = rl /\ fs' = fs
      /\ job.stage = "serve" /\ job'.stage = "serve"
  <2>1. CASE Mount
    <3>1. ph = "off" => job.stage = "serve"
      BY DEF TypeOK
    <3> QED
      BY <2>1, <3>1 DEF Mount, RL!Start
  <2>2. CASE Unmount
    BY <2>2 DEF Unmount, RL!Exit
  <2>3. CASE Kill
    <3>1. Stage = "serve"
      BY <2>3 DEF Kill, Tidy
    <3>2. ph # "serve"
      BY DEF TypeOK, RL!TypeOK
    <3>3. ph = "idle" /\ job.stage = "serve"
      BY <3>1, <3>2 DEF Stage
    <3>4. NoJob.stage = "serve"
      BY DEF NoJob
    <3> QED
      BY <2>3, <3>3, <3>4 DEF Kill, RL!Kill
  <2> QED
    BY <2>1, <2>2, <2>3
<1>2. Resting
  BY <1>1 DEF Resting, Calm
<1>3. Succession' /\ Numbers' /\ \A j : Listed(j) => Listed(j)'
  BY <1>2, RestingAccounts
<1>4. NoOdd'
  BY <1>1 DEF Accounts, NoOdd
<1>5. Accounted'
  <2>1. \A j \in fs.ibm \ {0} : Listed(j)
    BY <1>1 DEF Accounts, Accounted, Uncollected
  <2> QED
    BY <1>1, <1>3, <2>1 DEF Accounted
<1>6. References'
  <2>1. Linked = {} /\ Linked' = {}
    BY <1>1 DEF Linked
  <2>2. Counted(fs, rl[0].rnum, {})
    BY <1>1, <2>1 DEF Accounts, References
  <2> QED
    BY <1>1, <2>1, <2>2 DEF References
<1> QED
  BY <1>3, <1>4, <1>5, <1>6 DEF Accounts

(* Every step leaves everything accounted for.                             *)
LEMMA AccountsStep ==
  ASSUME PlainHistory, Roomy, Tidy
  PROVE  TypeOK /\ Collectable /\ Mirrored /\ Listing /\ Accounts /\ [Next]_vars => Accounts'
<1> SUFFICES ASSUME TypeOK, Collectable, Mirrored, Listing, Accounts, [Next]_vars
             PROVE  Accounts'
  OBVIOUS
<1>1. TypeOK' /\ Collectable'
  BY StorageStep, CollectStep
<1>2. job.stage \in {"serve", "climb", "push"} /\ NoSet
  BY DEF Collectable, Plain, Handlers
<1>3. CASE UNCHANGED vars
  <2>1. UNCHANGED <<fs, rl, ph, ii, entry, job>>
    BY <1>3 DEF vars, list
  <2>2. \A j : Listed(j)' <=> Listed(j)
    BY <2>1 DEF Listed, Live
  <2>3. \A j : Uncollected(j)' <=> Uncollected(j)
    BY <2>1 DEF Uncollected, FreedRoot
  <2>4. \A f, x : \A q \in Calls : Underway(f, x, q) => Underway(f, x, q)'
    BY <2>1, <2>2 DEF Underway, Come
  <2>5. Accounted'
    BY <2>1, <2>2, <2>3, <2>4 DEF Accounts, Accounted
  <2>6. \A s : (Proper(s)' <=> Proper(s)) /\ (Live(s)' <=> Live(s)) /\ Moved(s)' = Moved(s)
    BY <2>1 DEF Proper, Live, Moved
  <2>7. NoOdd' /\ Succession' /\ Numbers' /\ References'
    BY <2>1, <2>6 DEF Accounts, NoOdd, Succession, Numbers, References, Pushing, Linked
  <2> QED
    BY <2>5, <2>7 DEF Accounts
<1>4. CASE Mount \/ Unmount \/ Kill
  BY <1>1, <1>4, AccountsProcess
<1>5. CASE Request
  BY <1>1, <1>5, AccountsRequest
<1>6. CASE Climb
  BY <1>1, <1>6, AccountsClimb
<1>7. ~ClimbAborts
  BY NoClimbAborts
<1>8. CASE AddRoot
  BY <1>1, <1>8, AccountsAddRoot
<1>9. CASE FreeStep
  BY <1>1, <1>9, AccountsFree
<1>10. CASE Collected
  BY <1>10, AccountsCollected
<1>11. ~CollectAborts
  <2>1. Oldest - 1 \in RL!Slot
    BY SlotFacts
  <2> QED
    BY <1>2, <2>1 DEF CollectAborts, NoSet
<1>12. CASE Push
  BY <1>12, AccountsShift, AccountsStoreRnum, AccountsStoreVnum, AccountsStoreOp
     DEF Push, Store
<1>13. ~(Tool \/ ToolSwap \/ ToolExit \/ Finish)
  BY <1>2 DEF Tool, ToolSwap, ToolExit, Finish, Finishing, PlainHistory
<1> QED
  BY <1>3, <1>4, <1>5, <1>6, <1>7, <1>8, <1>9, <1>10, <1>11, <1>12, <1>13 DEF Next, Step

(* In a new image there is inode 0 and nothing else.                       *)
LEMMA AccountsInit == Init => Accounts
<1> SUFFICES ASSUME Init PROVE Accounts
  OBVIOUS
<1>1. /\ fs.ibm = {0} /\ fs.ino[0].mode = "dir" /\ fs.ino[0].ent = <<>>
      /\ ph = "off" /\ job = NoJob /\ rl[0].rnum = 0 /\ rl[0].vnum = 1
      /\ \A s \in RL!Slot \ {0} : rl[s] = RL!ZeroSlot
      /\ fs \in Table
  BY StorageInit, NumFacts, SlotFacts DEF Init, Zeroed, TypeOK
<1>2. \A s \in RL!Slot : rl[s].rnum = 0
  BY <1>1 DEF RL!ZeroSlot
<1>3. Reach(fs, 0) \subseteq {0}
  BY <1>1, EmptyRoot
<1>4. NoOdd
  BY <1>1 DEF NoOdd
<1>5. Succession
  <2> SUFFICES ASSUME NEW s \in 0 .. Oldest - 1
               PROVE  Follows(fs, rl[s + 1].rnum, rl[s].op, rl[s].rnum)
    BY <1>1 DEF Succession
  <2>1. s + 1 \in RL!Slot
    BY SlotFacts DEF RL!Slot, Oldest
  <2> QED
    BY <1>2, <1>3, <2>1 DEF Follows
<1>6. Numbers
  <2>1. \A s : Moved(s) = 0
    BY <1>1 DEF Moved
  <2>2. RL!ZeroSlot.vnum = 0
    BY DEF RL!ZeroSlot
  <2>3. \A s \in RL!Slot : rl[s].vnum > 0 => s = 0
    BY <1>1, <2>2
  <2>4. \A s \in RL!Slot : rl[s].vnum > 0 => rl[s].vnum + s <= rl[0].vnum + Moved(s)
    BY <1>1, <2>1, <2>3
  <2>5. ~Pushing
    BY <1>1 DEF Pushing
  <2> QED
    BY <1>2, <2>4, <2>5 DEF Numbers
<1>7. Accounted
  BY <1>1 DEF Accounted, NoJob
<1>8. References
  <2>1. \A p \in Path : Lookup(fs, p, 0) >= 0 => Lookup(fs, p, 0) = 0
    <3> SUFFICES ASSUME NEW p \in Path, Lookup(fs, p, 0) >= 0 PROVE Lookup(fs, p, 0) = 0
      OBVIOUS
    <3>1. Lookup(fs, p, 0) \in Int /\ Lookup(fs, p, 0) <= 0
      BY NewRoot, PathFacts
    <3> QED
      BY <3>1
  <2>2. \A p \in Present(fs, 0) : fs.ino[Lookup(fs, p, 0)].mode # "file"
    BY <1>1, <2>1 DEF Present
  <2> QED
    BY <1>1, <2>2 DEF References, Counted
<1> QED
  BY <1>4, <1>5, <1>6, <1>7, <1>8 DEF Accounts

(* In a plain and tidy history with room for every copy, nothing but inode *)
(* 0 is allocated between handlers that no listed version reads: what a    *)
(* handler copies ends in the version it adds, and traverse_and_free finds *)
(* all that the oldest version alone still reads.                          *)
THEOREM NoLeakPlain ==
  ASSUME PlainHistory, Roomy, Tidy
  PROVE  Spec => []NoLeak
<1> DEFINE I == TypeOK /\ Collectable /\ Mirrored /\ Listing /\ Accounts
<1>1. Init => I
  BY StorageInit, CollectInit, MirroredInit, ListingInit, AccountsInit
<1>2. I /\ [Next]_vars => I'
  BY StorageStep, CollectStep, MirroredStep, ListingStep, AccountsStep
<1>3. I => NoLeak
  BY AccountsNoLeak
<1> QED
  BY <1>1, <1>2, <1>3, PTL DEF Spec

(* And a file of the current version has two references for each of its    *)
(* names, as directory_put and storage_link count them: the climb carries  *)
(* the count over to the copies, and a free takes no name away.            *)
THEOREM RefsCoverNamesPlain ==
  ASSUME PlainHistory, Roomy, Tidy
  PROVE  Spec => []RefsCoverNames
<1> DEFINE I == TypeOK /\ Collectable /\ Mirrored /\ Listing /\ Accounts
<1>1. Init => I
  BY StorageInit, CollectInit, MirroredInit, ListingInit, AccountsInit
<1>2. I /\ [Next]_vars => I'
  BY StorageStep, CollectStep, MirroredStep, ListingStep, AccountsStep
<1>3. I => RefsCoverNames
  BY AccountsNames
<1> QED
  BY <1>1, <1>2, <1>3, PTL DEF Spec

-----------------------------------------------------------------------------
(* What a link adds.                                                       *)

\* File i has more names in version n than in version r.
MoreNames(d, r, n, i) ==
    \E p \in Path :
        /\ Lookup(d, p, r) # i /\ Lookup(d, p, n) = i
        /\ \A u \in Path : Lookup(d, u, r) = i => Lookup(d, u, n) = i

\* In the version on its way the file of a link has more names than in the
\* one at the head.
Linking ==
    ph \in {"gc", "shift", "rnum"} /\ job.call = "link" =>
        MoreNames(fs, rl[0].rnum, entry.rnum, Lookup(fs, job.path, rl[0].rnum))

(* The version that a link has made names its file by one path more.       *)
LEMMA MadeMoreNames ==
  ASSUME PlainHistory, fs \in Table, NEW r, NEW f, NEW x, NEW q \in Calls, q.call = "link",
         Made(fs, r, f[r], f, x, q)
  PROVE  MoreNames(fs, r, f[r], Lookup(fs, q.path, r))
<1>1. PICK g : g = Lookup(fs, q.path, r)
  OBVIOUS
<1>2. g \in Inum /\ f[g] = g /\ q.path \in Path
  BY <1>1, RequestPath DEF Made, Effect
<1>3. g >= 0
  BY <1>2, NumFacts
<1>4. g \in Reach(fs, r)
  BY <1>1, <1>2, <1>3 DEF Reach, Present
<1>5. KeepsNames(r, f, q, g)
  BY <1>4, MadeKeepsNames
<1>6. PICK p \in Path \ Names(r, g) : Names(f[r], g) = Names(r, g) \cup {p}
  BY <1>1, <1>2, <1>5 DEF KeepsNames
<1> QED
  BY <1>1, <1>6 DEF MoreNames, Names

(* Steady versions keep their names.                                       *)
LEMMA SteadyMoreNames ==
  ASSUME NEW d, NEW e, NEW r, NEW n, NEW i, Steady(d, e, r), Steady(d, e, n),
         MoreNames(d, r, n, i)
  PROVE  MoreNames(e, r, n, i)
<1>1. \A u \in Path : Lookup(e, u, r) = Lookup(d, u, r) /\ Lookup(e, u, n) = Lookup(d, u, n)
  BY PathFacts DEF Steady
<1> QED
  BY <1>1 DEF MoreNames

(* From add_root to the store of the root number the push is that of one   *)
(* handler, with one entry, over one version at the head.                  *)
LEMMA PendingSteps ==
  ASSUME PlainHistory, TypeOK, Collectable, [Next]_vars, ph' \in {"gc", "shift", "rnum"}
  PROVE  \/ AddRoot
         \/ /\ ph \in {"gc", "shift", "rnum"} /\ entry' = entry /\ rl'[0].rnum = rl[0].rnum
            /\ job'.path = job.path /\ job'.call = job.call
<1>1. /\ job.stage \in {"serve", "climb", "push"} /\ job \in Jobs
      /\ ph = "off" => job.stage = "serve"
  BY JobParts DEF Collectable, Plain, Handlers, TypeOK
<1>2. CASE UNCHANGED vars
  BY <1>2 DEF vars, list
<1>3. ~(Mount \/ Unmount \/ Kill)
  BY DEF Mount, Unmount, Kill, RL!Start, RL!Exit, RL!Kill
<1>4. ~Request
  BY DEF Request, Serving, Handle, Write, Truncate, Mknod, MknodAborts, Unlink, Link,
         Rename, SetTime, Chmod, Update, list
<1>5. ~(Climb \/ ClimbAborts)
  BY DEF Climb, ClimbAborts, Climbing, list
<1>6. CASE FreeStep
  BY <1>1, <1>6 DEF FreeStep, list, Jobs
<1>7. CASE Collected
  BY <1>7 DEF Collected, RL!Collected
<1>8. ~CollectAborts
  BY DEF CollectAborts, RL!Kill
<1>9. CASE Push
  <2>1. CASE RL!Shift /\ UNCHANGED job
    <3>1. ph = "shift" /\ entry' = entry /\ ii # 0 /\ \A s \in RL!Slot \ {ii} : rl'[s] = rl[s]
      BY <2>1, Stores
    <3>2. rl'[0] = rl[0]
      BY <3>1, SlotFacts
    <3> QED
      BY <2>1, <3>1, <3>2
  <2>2. ~(RL!StoreRnum \/ RL!StoreVnum \/ RL!StoreOp)
    BY Stores
  <2> QED
    BY <1>9, <2>1, <2>2 DEF Push, Store, StoreLast
<1>10. ~(Tool \/ ToolSwap \/ ToolExit \/ Finish)
  BY <1>1 DEF Tool, ToolSwap, ToolExit, Finish, Finishing, PlainHistory
<1> QED
  BY <1>2, <1>3, <1>4, <1>5, <1>6, <1>7, <1>8, <1>9, <1>10 DEF Next, Step

(* Every step leaves the names of a link on their way.                     *)
LEMMA LinkingStep ==
  ASSUME PlainHistory, Roomy
  PROVE  TypeOK /\ Collectable /\ Mirrored /\ Linking /\ [Next]_vars => Linking'
<1> SUFFICES ASSUME TypeOK, Collectable, Mirrored, Linking, [Next]_vars,
                    ph' \in {"gc", "shift", "rnum"}, job'.call = "link"
             PROVE  MoreNames(fs', rl'[0].rnum, entry'.rnum, Lookup(fs', job'.path, rl'[0].rnum))
  BY DEF Linking
<1>1. TypeOK' /\ Collectable' /\ fs \in Table
  BY StorageStep, CollectStep DEF TypeOK
<1>2. CASE AddRoot
  <2>1. /\ fs' = fs /\ rl' = rl /\ entry'.rnum = job.new /\ job.stage = "climb" /\ job.left = Root
        /\ job'.call = job.call /\ job'.path = job.path
    <3>1. job \in Jobs
      BY JobParts
    <3> QED
      BY <1>2, <3>1, Adds DEF AddRoot, Jobs
  <2>2. PICK f, x, q : q \in Calls /\ Come(f, x, q)
    BY <2>1 DEF Mirrored, Advanced
  <2>3. Installs(f, x, q, job.new)
    BY <2>1, <2>2, ComeInstalls
  <2>4. PICK r : r = rl[0].rnum
    OBVIOUS
  <2>5. job.new = f[r] /\ q.call = "link" /\ q.path = job.path /\ Made(fs, r, f[r], f, x, q)
    BY <2>1, <2>3, <2>4 DEF Installs
  <2>6. MoreNames(fs, r, f[r], Lookup(fs, q.path, r))
    BY <1>1, <2>2, <2>5, MadeMoreNames
  <2> QED
    BY <2>1, <2>4, <2>5, <2>6
<1>3. CASE ~AddRoot
  <2>1. /\ ph \in {"gc", "shift", "rnum"} /\ entry' = entry /\ rl'[0].rnum = rl[0].rnum
        /\ job'.path = job.path /\ job'.call = job.call
    BY <1>3, PendingSteps
  <2>2. PICK r, n, i : r = rl[0].rnum /\ n = entry.rnum /\ i = Lookup(fs, job.path, r)
    OBVIOUS
  <2>3. Treed(fs, r) /\ Treed(fs', r) /\ Treed(fs, n) /\ Treed(fs', n)
    BY <1>1, <2>1, <2>2, ListTreed, ListTreedNext
  <2>4. Steady(fs, fs', r) /\ Steady(fs, fs', n)
    BY <1>1, <2>3, StepSteady
  <2>5. MoreNames(fs', r, n, i)
    BY <2>1, <2>2, <2>4, SteadyMoreNames DEF Linking
  <2>6. job.path \in Seq(Name)
    BY JobParts, PathFacts
  <2>7. Lookup(fs', job.path, r) = i
    BY <2>2, <2>4, <2>6 DEF Steady
  <2> QED
    BY <2>1, <2>2, <2>5, <2>7
<1> QED
  BY <1>2, <1>3

(* In a plain history with room for every copy, the commit of a link gives *)
(* the file one more name, and takes none away: the update, which starts   *)
(* at the directory of the source, carries the new entry to the root.      *)
THEOREM LinkVisiblePlain ==
  ASSUME PlainHistory, Roomy
  PROVE  Spec => LinkVisible
<1> DEFINE I == TypeOK /\ Collectable /\ Mirrored /\ Linking
           A == job.call = "link" /\ RL!StoreRnum =>
                   LET i == Lookup(fs, job.path, rl[0].rnum)
                       Called(r) == {p \in Path : Lookup(fs, p, r) = i}
                   IN  /\ Called(rl[0].rnum) \subseteq Called(rl'[0].rnum)
                       /\ Called(rl[0].rnum) # Called(rl'[0].rnum)
<1>1. Init => I
  BY StorageInit, CollectInit, MirroredInit DEF Init, Linking
<1>2. I /\ [Next]_vars => I'
  BY StorageStep, CollectStep, MirroredStep, LinkingStep
<1>3. I => A
  <2> SUFFICES ASSUME I, RL!StoreRnum, job.call = "link" PROVE A
    OBVIOUS
  <2>1. ph = "rnum" /\ rl'[0].rnum = entry.rnum
    <3>1. rl \in [RL!Slot -> RL!cow_version] /\ 0 \in RL!Slot
      BY SlotFacts DEF TypeOK, RL!TypeOK
    <3> QED
      BY <3>1 DEF RL!StoreRnum, RL!cow_version
  <2>2. MoreNames(fs, rl[0].rnum, rl'[0].rnum, Lookup(fs, job.path, rl[0].rnum))
    BY <2>1 DEF Linking
  <2> QED
    BY <2>2 DEF MoreNames
<1>4. I /\ [Next]_vars => [A]_vars
  BY <1>3
<1> QED
  BY <1>1, <1>2, <1>4, PTL DEF Spec, LinkVisible
=============================================================================
