------------------------------ MODULE Storage ------------------------------
(***************************************************************************)
(* The copy-on-write handlers of storage.c over the inode table and the    *)
(* version list.  A handler copies the inode it changes, then walks up to  *)
(* the root copying every directory on the way (traverse_and_update), and  *)
(* at "/" installs the copied root with add_root, which first frees what   *)
(* the oldest version alone still uses (traverse_and_free).                *)
(*                                                                         *)
(* cowmount runs single-threaded (Makefile: -s), so one handler runs at a  *)
(* time; but every store lands in the mapped image at once, and a process  *)
(* that dies leaves the image as it is.  A handler is therefore a sequence *)
(* of steps: its own part, one step per directory climbed, one per inode   *)
(* collected, one per slot shifted, and what it still does after the       *)
(* commit.  cowtool rollback runs on the unmounted image as a process of   *)
(* its own.                                                                *)
(*                                                                         *)
(* Outside the code: the kernel looks every path up before it sends a      *)
(* request, so parents exist and are directories, mknod and link name      *)
(* something new, write, truncate, link and unlink name a file, and a      *)
(* chmod changes permissions only.                                         *)
(***************************************************************************)
EXTENDS InodeTable, FiniteSets

CONSTANTS
    NumVersions,   \* NUM_VERSIONS
    Limit,         \* the 10000 of root_list_sanity_check
    MaxVnum,       \* bound: no new version beyond this number
    Path,          \* paths that properties look at, as sequences of names
    NoPath,        \* a value that is no path
    Clip(_, _),    \* what is left of a path in the 24 bytes of a label
    Calls,         \* the requests the kernel sends
    RenameOver,    \* whether a rename may name an existing target
    Spare,         \* bound: no new request with fewer free inodes than this
    Rollbacks,     \* whether cowtool rollback is used
    KillAt         \* the stages in which the process can be killed

Root  == <<>>

\* The label of a version: the call that made it and its (first) path.
Versioned == {"mknod", "write", "truncate", "unlink", "link", "set", "chmod"}

Labels  == [call : Versioned \cup {"", "init"}, path : Path]
NoLabel == [call |-> "", path |-> Root]

VARIABLES
    fs,       \* inode table (on the image)
    rl,       \* version list (on the image)
    ph, ii, entry,   \* add_root and swap_root: see RootList
    job       \* the handler being run

RL == INSTANCE RootList WITH Rnum <- Inum, Op <- Labels, NoOp <- NoLabel, Junk <- {}

list == <<rl, ph, ii, entry>>
vars == <<fs, list, job>>

Oldest == NumVersions - 1

(* A handler: the call and the path it was sent, where it is, and the      *)
(* arguments of the running traverse_and_update (left, old, new) and       *)
(* traverse_and_free_hlp (gc).                                             *)
NoJob ==
    [call |-> "", stage |-> "serve", path |-> Root,
     left |-> Root, old |-> 0, new |-> 0, gc |-> NoPath]

dirname(p)  == IF p = Root THEN Root ELSE SubSeq(p, 1, Len(p) - 1)
basename(p) == p[Len(p)]

ASSUME StorageAssumption ==
    /\ NumVersions \in Nat \ {0, 1}
    /\ Limit \in Nat \ {0}
    /\ MaxVnum \in Nat
    /\ Path \subseteq Seq(Name) /\ Root \in Path /\ NoPath \notin Path
    /\ \A p \in Path : dirname(p) \in Path
    /\ \A q \in Calls :
          /\ q.path \in Path
          /\ q.call \in Versioned            => Clip(q.call, q.path) \in Path
          /\ q.call = "write"                => q.off \in Nat /\ q.bytes \in Seq(Byte)
          /\ q.call = "truncate"             => q.size \in Nat
          /\ q.call \in {"mknod", "chmod"}   => q.mode \in Mode
          /\ q.call \in {"mknod", "unlink"}  => q.path # Root
          /\ q.call \in {"link", "rename"}   => q.to \in Path \ {Root}

tree_lookup(p)            == tree_lookup_hlp(fs, p, RL!get_current_root)
tree_lookup_stop_early(p) == tree_lookup(dirname(p))

\* What the kernel has found out before it sends a request; get_inode
\* asserts that the number lies in the table.
Exists(p) == tree_lookup(p) \in Inum
IsFile(p) == Exists(p) /\ fs.ino[tree_lookup(p)].mode = "file"
IsDir(p)  == Exists(p) /\ inode_is_dir(fs.ino[tree_lookup(p)])
CanCreate(p) == IsDir(dirname(p)) /\ ~Exists(p)

\* The kernel puts the type of the file into the mode of a chmod.
OwnType(q) == IsDir(q.path) <=> q.mode \in {"dir", "odd"}

-----------------------------------------------------------------------------
(* A new image: pages_init, root_init, inode_init and the first version,   *)
(* whose root inode 0 keeps the mode storage_init gives it.                *)

Init ==
    /\ fs = [ibm |-> {0},
             ino |-> [i \in Inum \cup {NoInode} |->
                         IF i = 0 THEN [Zeroed EXCEPT !.mode = "dir"] ELSE Zeroed]]
    /\ rl = [s \in RL!Slot |->
                IF s = 0 THEN [rnum |-> 0, vnum |-> 1,
                               op |-> [call |-> "init", path |-> Root]]
                         ELSE RL!ZeroSlot]
    /\ ph = "off"
    /\ ii = 0
    /\ entry = RL!NoEntry
    /\ job = NoJob

(* root_init and the last assertion of storage_init.                       *)
Mountable == fs.ino[rl[0].rnum].mode # "none"

Mount ==
    /\ RL!Start
    /\ Mountable
    /\ UNCHANGED <<fs, job>>

Unmount ==
    /\ job.stage = "serve"
    /\ RL!Exit
    /\ UNCHANGED <<fs, job>>

(* cowtool rollback: storage_init, swap_root, exit.                        *)
Tool ==
    /\ Rollbacks
    /\ RL!Start
    /\ Mountable
    /\ job' = [NoJob EXCEPT !.stage = "tool"]
    /\ UNCHANGED fs

ToolSwap ==
    /\ job.stage = "tool"
    /\ \E v \in RL!Listed : RL!SwapRoot(v)
    /\ job' = [job EXCEPT !.stage = "swap"]
    /\ UNCHANGED fs

ToolExit ==
    /\ job.stage \in {"tool", "swapped"}
    /\ RL!Exit
    /\ job' = NoJob
    /\ UNCHANGED fs

-----------------------------------------------------------------------------
(* The handlers, up to their call of traverse_and_update.                  *)

Serving ==
    /\ ph = "idle"
    /\ job.stage = "serve"
    /\ RL!Room
    /\ Cardinality(Inum \ fs.ibm) >= Spare

\* traverse_and_update(p, old, new, "<call> <path>") from table d.
Update(q, d, p, old, new) ==
    /\ fs' = d
    /\ job' = [call |-> q.call, stage |-> "climb", path |-> q.path,
               left |-> p, old |-> old, new |-> inum_field(new), gc |-> NoPath]
    /\ UNCHANGED list

(* The file becomes exactly offset + size bytes long, shorter or longer;   *)
(* bytes between its old end and the offset are whatever the page holds.   *)
Written(data, off, bytes) ==
    [k \in 1 .. off + Len(bytes) |->
        CASE k > off                    -> bytes[k - off]
          [] k <= off /\ k <= Len(data) -> data[k]
          [] k <= off /\ k > Len(data)  -> Stale]

Write_InPlace(q) ==
    /\ IsFile(q.path)
    /\ LET i == tree_lookup(q.path)
           c == NextFree(fs)
           d == [fs EXCEPT !.ino[i].data = Written(@, q.off, q.bytes)]
       IN  Update(q, copy_inode(d, i), q.path, inum_field(i), c)

Write(q) ==
    /\ IsFile(q.path)
    /\ LET i == tree_lookup(q.path)
           c == NextFree(fs)
           d == copy_inode(fs, i)
       IN  Update(q, [d EXCEPT !.ino[c].data = Written(@, q.off, q.bytes)],
                  q.path, inum_field(i), c)

(* Growing fills with zeros.                                               *)
Truncate(q) ==
    /\ IsFile(q.path)
    /\ LET i == tree_lookup(q.path)
           c == NextFree(fs)
           d == copy_inode(fs, i)
       IN  Update(q, [d EXCEPT !.ino[c].data =
                         [k \in 1 .. q.size |-> IF k <= Len(@) THEN @[k] ELSE 0]],
                  q.path, inum_field(i), c)

Child(d, mode) ==
    [alloc_inode(d) EXCEPT !.ino[NextFree(d)].mode = mode, !.ino[NextFree(d)].refs = 1]

(* mknod and mkdir: the parent is copied and asserted to have one of the   *)
(* two directory modes; the new inode gets its mode and one reference,     *)
(* directory_put adds the second.                                          *)
Mknod(q) ==
    /\ CanCreate(q.path)
    /\ LET dd == tree_lookup_stop_early(q.path)
           c  == NextFree(fs)
           d  == copy_inode(fs, dd)
       IN  /\ d.ino[c].mode = "dir"
           /\ Update(q, directory_put(Child(d, q.mode), c, basename(q.path), NextFree(d)),
                     dirname(q.path), inum_field(dd), c)

MknodAborts(q) ==
    /\ CanCreate(q.path)
    /\ fs.ino[tree_lookup_stop_early(q.path)].mode # "dir"
    /\ fs' = copy_inode(fs, tree_lookup_stop_early(q.path))
    /\ ph' = "off"
    /\ UNCHANGED <<rl, ii, entry, job>>

(* The file is copied with a reference less; its name goes in Finish.      *)
Unlink(q) ==
    /\ IsFile(q.path)
    /\ LET i == tree_lookup(q.path)
           c == NextFree(fs)
           d == copy_inode(fs, i)
       IN  Update(q, [d EXCEPT !.ino[c].refs = @ - 1], q.path, i, c)

Link_OneReference(q) ==
    /\ IsFile(q.path)
    /\ CanCreate(q.to)
    /\ LET from == tree_lookup(q.path)
           dir  == tree_lookup_stop_early(q.to)
           c    == NextFree(fs)
           d    == directory_put(copy_inode(fs, dir), c, basename(q.to), from)
       IN  Update(q, d, dirname(q.path), dir, c)

(* The copy of the target's directory gets the new name, and the update    *)
(* starts at the parent of the source.  The linked inode itself is counted *)
(* up in place, by directory_put and once more here.                       *)
Link(q) ==
    /\ IsFile(q.path)
    /\ CanCreate(q.to)
    /\ LET from == tree_lookup(q.path)
           dir  == tree_lookup_stop_early(q.to)
           c    == NextFree(fs)
           d    == directory_put(copy_inode(fs, dir), c, basename(q.to), from)
       IN  Update(q, [d EXCEPT !.ino[from].refs = @ + 1], dirname(q.path), dir, c)

(* Rename changes the two directories in place: the new name here, the old *)
(* one in Finish.  There is no new version.                                *)
Rename(q) ==
    /\ Exists(q.path)
    /\ q.path # q.to
    /\ IsDir(dirname(q.path)) /\ IsDir(dirname(q.to))
    /\ RenameOver \/ ~Exists(q.to)
    /\ fs' = directory_put(fs, tree_lookup_stop_early(q.to), basename(q.to),
                           tree_lookup(q.path))
    /\ job' = [NoJob EXCEPT !.call = "rename", !.stage = "finish", !.path = q.path,
                            !.old = tree_lookup_stop_early(q.path)]
    /\ UNCHANGED list

(* utimens and chmod leave inode 0 alone.  utimens goes on to the times of *)
(* the directory in Finish, with or without a new version.                 *)
SetTime(q) ==
    /\ Exists(q.path)
    /\ LET i == tree_lookup(q.path)
           c == NextFree(fs)
           d == copy_inode(fs, i)
       IN  IF i # 0
           THEN Update(q, [d EXCEPT !.ino[c].ts = 1], q.path, i, c)
           ELSE /\ job' = [NoJob EXCEPT !.call = "set", !.stage = "finish",
                                        !.path = q.path]
                /\ UNCHANGED <<fs, list>>

Chmod_Both(q) ==
    /\ Exists(q.path)
    /\ OwnType(q)
    /\ LET i == tree_lookup(q.path)
           c == NextFree(fs)
           d == copy_inode([fs EXCEPT !.ino[i].mode = q.mode], i)
       IN  /\ i # 0
           /\ Update(q, d, q.path, i, c)

Chmod(q) ==
    /\ Exists(q.path)
    /\ OwnType(q)
    /\ LET i == tree_lookup(q.path)
           c == NextFree(fs)
           d == copy_inode(fs, i)
       IN  /\ i # 0
           /\ Update(q, [d EXCEPT !.ino[c].mode = q.mode], q.path, i, c)

Handle(q) ==
    \/ q.call = "write"    /\ Write(q)
    \/ q.call = "truncate" /\ Truncate(q)
    \/ q.call = "mknod"    /\ (Mknod(q) \/ MknodAborts(q))
    \/ q.call = "unlink"   /\ Unlink(q)
    \/ q.call = "link"     /\ Link(q)
    \/ q.call = "rename"   /\ Rename(q)
    \/ q.call = "set"      /\ SetTime(q)
    \/ q.call = "chmod"    /\ Chmod(q)

Request == Serving /\ \E q \in Calls : Handle(q)

-----------------------------------------------------------------------------
(* traverse_and_update: one directory per step, looked up in the version   *)
(* that is still current.                                                  *)

Climbing == ph = "idle" /\ job.stage = "climb" /\ job.left # Root

CowDir_InPlace(dir) ==
    copy_inode(replace_in_entries(fs, dir, job.old, job.new), dir)

CowDir_Lost(dir) == copy_inode(fs, dir)

CowDir(dir) == replace_in_entries(copy_inode(fs, dir), NextFree(fs), job.old, job.new)

StepUp_Stuck == job.left
StepUp       == dirname(job.left)

\* With the lookup's error every handler returns, except utimens.
GivenUp == IF job.call = "set" THEN [job EXCEPT !.stage = "finish"] ELSE NoJob

Climb ==
    /\ Climbing
    /\ LET dir == tree_lookup_stop_early(job.left)
       IN  IF dir < 0
           THEN fs' = fs /\ job' = GivenUp
           ELSE /\ dir \in Inum /\ fs.ino[dir].mode = "dir"
                /\ fs' = CowDir(dir)
                /\ job' = [job EXCEPT !.left = StepUp, !.old = inum_field(dir),
                                      !.new = inum_field(NextFree(fs))]
    /\ UNCHANGED list

\* A directory whose mode was changed is copied and then trips the assertion.
ClimbAborts ==
    /\ Climbing
    /\ LET dir == tree_lookup_stop_early(job.left)
       IN  /\ dir \in Inum
           /\ fs.ino[dir].mode # "dir"
           /\ fs' = copy_inode(fs, dir)
    /\ ph' = "off"
    /\ job' = NoJob
    /\ UNCHANGED <<rl, ii, entry>>

-----------------------------------------------------------------------------
(* add_root with traverse_and_free: the label of the version that follows  *)
(* the oldest says which inodes only the oldest one uses.                  *)

FromInit == "init" \in {rl[Oldest].op.call, rl[Oldest - 1].op.call}

\* The calls whose label names the inode to free, and those that name a
\* new entry of the directory to free.
OnPath   == {"write", "truncate", "set", "chmod"}
OnParent == {"mknod", "link"}

GcTarget ==
    LET op == rl[Oldest - 1].op
    IN  CASE FromInit                          -> NoPath
          [] ~FromInit /\ op.call \in OnParent -> dirname(op.path)
          [] ~FromInit /\ op.call \in OnPath   -> op.path
          [] OTHER                             -> NoPath

AddRoot ==
    /\ job.stage = "climb"
    /\ job.left = Root
    /\ RL!AddRoot(job.new, [call |-> job.call, path |-> Clip(job.call, job.path)])
    /\ job' = [job EXCEPT !.stage = "push", !.gc = GcTarget]
    /\ UNCHANGED fs

FreedRoot_Newer == rl[Oldest - 1].rnum
FreedRoot       == rl[Oldest].rnum

(* One level of traverse_and_free_hlp: look the path up in the oldest      *)
(* version, free what it finds, go on with the directory above.  Inode 0   *)
(* and a path that is not there end it.                                    *)
FreeStep ==
    /\ ph = "gc"
    /\ job.gc # NoPath
    /\ LET i == tree_lookup_hlp(fs, job.gc, FreedRoot)
       IN  IF i <= 0
           THEN fs' = fs /\ job' = [job EXCEPT !.gc = NoPath]
           ELSE /\ i \in Inum
                /\ fs' = free_inode(fs, i)
                /\ job' = [job EXCEPT !.gc = IF @ = Root THEN NoPath ELSE dirname(@)]
    /\ UNCHANGED list

Collected ==
    /\ job.gc = NoPath
    /\ RL!Collected
    /\ UNCHANGED <<fs, job>>

(* For a "set" label path5 points into the list that s_free has released,  *)
(* and is freed again: undefined, an abort of the C library or nothing.    *)
CollectAborts ==
    /\ ph = "gc"
    /\ job.gc = NoPath
    /\ ~FromInit
    /\ rl[Oldest - 1].op.call = "set"
    /\ RL!Kill
    /\ job' = NoJob
    /\ UNCHANGED fs

\* The stores of the push; the process may end in its last sanity check.
Store == RL!Shift \/ RL!StoreRnum \/ RL!StoreVnum

StoreLast ==
    /\ RL!StoreOp
    /\ job' = CASE ph' = "off"                             -> NoJob
                [] ph' # "off" /\ job.stage = "swap"       -> [job EXCEPT !.stage = "swapped"]
                [] ph' # "off" /\ job.call \in {"unlink", "set"}
                                                           -> [job EXCEPT !.stage = "finish"]
                [] OTHER                                   -> NoJob

Push ==
    \/ Store /\ UNCHANGED <<fs, job>>
    \/ StoreLast /\ UNCHANGED fs

-----------------------------------------------------------------------------
(* What a handler does after the commit (rename: after its first half),    *)
(* in place and in the version that is current by then.                    *)

Finishing == ph = "idle" /\ job.stage = "finish"

\* directory_delete on the directory dir, which may end in an assertion.
Delete(dir, name) ==
    IF dir < 0
    THEN UNCHANGED <<fs, ph>>
    ELSE /\ fs' = directory_delete(fs, dir, name)
         /\ ph' = IF DeleteAborts(fs, dir, name) THEN "off" ELSE ph

FinishUnlink ==
    /\ job.call = "unlink"
    /\ Delete(tree_lookup_stop_early(job.path), basename(job.path))

FinishRename ==
    /\ job.call = "rename"
    /\ Delete(job.old, basename(job.path))

FinishSetTime ==
    /\ job.call = "set"
    /\ LET dir == tree_lookup_stop_early(job.path)
       IN  fs' = IF dir > 0 THEN [fs EXCEPT !.ino[dir].ts = 1] ELSE fs
    /\ UNCHANGED ph

Finish ==
    /\ Finishing
    /\ FinishUnlink \/ FinishRename \/ FinishSetTime
    /\ job' = NoJob
    /\ UNCHANGED <<rl, ii, entry>>

(* The process dies.                                                       *)
Stage == IF ph = "idle" THEN job.stage ELSE ph

Kill ==
    /\ Stage \in KillAt
    /\ RL!Kill
    /\ job' = NoJob
    /\ UNCHANGED fs

Step == Climb \/ ClimbAborts \/ AddRoot \/ FreeStep \/ Collected \/ CollectAborts
        \/ Push \/ Finish

Next ==
    \/ Mount \/ Unmount
    \/ Tool \/ ToolSwap \/ ToolExit
    \/ Request
    \/ Step
    \/ Kill

Spec == Init /\ [][Next]_vars

(* A handler that has been started runs: there is one thread and no lock.  *)
FairSpec == Spec /\ WF_vars(Step)

-----------------------------------------------------------------------------
(* What a reader of version root r sees: the paths that exist, with their  *)
(* type, times and bytes.  (The link count is left out: storage_link       *)
(* changes it in an inode that older versions share.)                      *)

Lookup(d, p, r) == tree_lookup_hlp(d, p, r)

Present(d, r) == {p \in Path : Lookup(d, p, r) >= 0}

Stat(d, p, r) ==
    LET n == d.ino[Lookup(d, p, r)]
    IN  [path |-> p, mode |-> n.mode, ts |-> n.ts, data |-> n.data]

View(d, r) == {Stat(d, p, r) : p \in Present(d, r)}

\* The inodes version r reads.
Reach(d, r) == {Lookup(d, p, r) : p \in Present(d, r)}

(* The versions cowtool can list.  While add_root collects the oldest one  *)
(* and until its first store overwrites it, that one is being given up.    *)
Kept ==
    {s \in RL!Slot :
        /\ rl[s].vnum > 0
        /\ s = Oldest => ph # "gc" /\ (ph = "shift" => ii < Oldest)}

-----------------------------------------------------------------------------
(* Refinement.  A handler counts as done when it calls add_root: from then *)
(* on the list is the pending root before the versions that stay, the      *)
(* oldest of a full list no longer among them.                             *)

TreeOf(r) ==
    {[names |-> {p \in Path : Lookup(fs, p, r) = i},
      mode  |-> fs.ino[i].mode,
      data  |-> fs.ino[i].data] : i \in Reach(fs, r)}

Pushing == ph \notin {"idle", "off"}

\* Slot s of the list as it was before the shift.
BeforeShift(s) == IF s < ii THEN rl[s] ELSE rl[s + 1]

ListedRoot(k) ==
    IF ~Pushing THEN rl[k - 1].rnum
    ELSE IF k = 1 THEN entry.rnum ELSE BeforeShift(k - 2).rnum

NumListed ==
    IF ~Pushing
    THEN Cardinality({s \in RL!Slot : rl[s].vnum > 0})
    ELSE 1 + Cardinality({s \in 0 .. Oldest - 1 : BeforeShift(s).vnum > 0})

Snap == INSTANCE Snapshots WITH
    trees <- [k \in 1 .. NumListed |-> TreeOf(ListedRoot(k))]

(* Step by step of the climb, the collection and the push, the handlers    *)
(* make whole trees out of the newest one and change no other: a version   *)
(* is a snapshot.                                                          *)
ImplementsSnapshots == Snap!Spec

-----------------------------------------------------------------------------
(* Properties.                                                             *)

(* Types; a process that does not run has no handler, and one that climbs  *)
(* has a label for the version it makes.                                   *)
TypeOK ==
    /\ fs \in Table
    /\ RL!TypeOK
    /\ job \in [call  : Versioned \cup {"", "rename"},
                stage : {"serve", "climb", "push", "finish", "tool", "swap", "swapped"},
                path  : Path, left : Path, old : Inum \cup {NoInode}, new : Inum,
                gc    : Path \cup {NoPath}]
    /\ ph = "off" => job.stage = "serve"
    /\ job.stage = "serve" => job = NoJob
    /\ job.stage = "climb" => job.call \in Versioned /\ Clip(job.call, job.path) \in Path

(* Copy on write and garbage collection agree: everything a listed version *)
(* can reach is allocated, so no later alloc_inode can hand it to somebody *)
(* else, and has been given a mode (storage_init asserts it of the root).  *)
NoDangling ==
    \A s \in Kept : \A i \in Reach(fs, rl[s].rnum) :
        i \in fs.ibm /\ fs.ino[i].mode # "none"

(* Between handlers nothing but inode 0 (which is never freed) is          *)
(* allocated without a listed version that can reach it.                   *)
NoLeak ==
    job = NoJob =>
        fs.ibm \ {0} \subseteq UNION {Reach(fs, rl[s].rnum) : s \in Kept}

(* No step changes what an older version shows, the last of the list       *)
(* included as long as add_root has not begun to collect it.               *)
VersionsFrozen ==
    [][\A s \in Kept \ {0} :
          View(fs', rl[s].rnum) = View(fs, rl[s].rnum)]_vars

(* Copy on write, inode by inode: a step that writes into an allocated     *)
(* inode, other than to count its references, is part of rename, of what   *)
(* unlink and utimens do after their commit, or frees that inode.          *)
Content(n) == [mode |-> n.mode, ts |-> n.ts, data |-> n.data, ent |-> n.ent]

CopiesFirst ==
    [][\A i \in fs.ibm :
          \/ Content(fs'.ino[i]) = Content(fs.ino[i])
          \/ i \notin fs'.ibm
          \/ job.stage = "finish"
          \/ job'.call = "rename"]_vars

(* What the current version shows changes in one step: the store of the    *)
(* root number.  Until then a handler works on copies.  (unlink and        *)
(* utimens go on in the new version; rename works in place.)               *)
CommitAtomic ==
    [][View(fs', rl'[0].rnum) # View(fs, rl[0].rnum) =>
          RL!StoreRnum \/ job.stage = "finish" \/ job'.call = "rename"]_vars

(* The new version differs from the one before only in the path the        *)
(* request named and the other names of the same file: no other path       *)
(* changes, goes or comes, but the name a link gives that file.            *)
CommitLocal ==
    [][job.stage = "push" /\ RL!StoreRnum =>
          LET file == Lookup(fs, job.path, rl[0].rnum)
          IN  \A p \in Path \ {job.path} :
                 LET was == Lookup(fs, p, rl[0].rnum)
                     is  == Lookup(fs, p, rl'[0].rnum)
                 IN  \/ was < 0 /\ is < 0
                     \/ was < 0 /\ job.call = "link" /\ is = file
                     \/ was >= 0 /\ was = file
                     \/ was >= 0 /\ is >= 0
                        /\ Stat(fs, p, rl'[0].rnum) = Stat(fs, p, rl[0].rnum)]_vars

(* Collecting the oldest version never changes what the current one shows, *)
(* the one that rollback has just brought back included (test.pl:335,      *)
(* "write rollback").                                                      *)
GcSparesCurrent ==
    [][ph = "gc" => View(fs', rl[0].rnum) = View(fs, rl[0].rnum)]_vars

(* A link gives the file the request names one more name (test.pl:348,     *)
(* "link postcond") and takes none away.                                   *)
LinkVisible ==
    [][job.call = "link" /\ RL!StoreRnum =>
          LET i == Lookup(fs, job.path, rl[0].rnum)
              Names(r) == {p \in Path : Lookup(fs, p, r) = i}
          IN  /\ Names(rl[0].rnum) \subseteq Names(rl'[0].rnum)
              /\ Names(rl[0].rnum) # Names(rl'[0].rnum)]_vars

(* When unlink is done its path is gone, and every other path, the other   *)
(* names of the file included, reads as before (test.pl:153).              *)
UnlinkExact ==
    [][job.call = "unlink" /\ Finish =>
          View(fs', rl[0].rnum)
            = {st \in View(fs, rl[0].rnum) : st.path # job.path}]_vars

(* When rename is done the old name is gone and the file is found under    *)
(* another one ("called to move a file", cowmount.c:172).                  *)
RenameMoves ==
    [][job.call = "rename" /\ Finish =>
          /\ job.path \notin Present(fs', rl[0].rnum)
          /\ Lookup(fs, job.path, rl[0].rnum) \in Reach(fs', rl[0].rnum)]_vars

(* A rename works in place, in a directory that older versions may share:  *)
(* they see the file under its new name too, but none of them loses it.    *)
RenameKeepsFiles ==
    [][job.call = "rename" /\ Finish =>
          \A s \in Kept : Reach(fs, rl[s].rnum) = Reach(fs', rl[s].rnum)]_vars

(* Between handlers a file has two references for each of its names, so    *)
(* that directory_delete frees it with its last name and not before.  Two: *)
(* mknod and link count each name once more than directory_put does.  The  *)
(* comment of inode_copy_stats, which returns the count as st_nlink        *)
(* ("number of hard links", inode.c:338), is wrong by that factor: stat    *)
(* reports two links of a file with one name.                              *)
RefsCoverNames ==
    job = NoJob =>
        \A p \in Present(fs, rl[0].rnum) :
            LET i == Lookup(fs, p, rl[0].rnum)
            IN  fs.ino[i].mode = "file" =>
                    fs.ino[i].refs =
                        2 * Cardinality({q \in Path : Lookup(fs, q, rl[0].rnum) = i})

(* A handler that starts comes to an end: it is done, gives up or aborts.  *)
HandlersEnd == (job.stage \in {"climb", "push", "finish"}) ~> (job.stage = "serve")
=============================================================================
