# A verification project for the copy-on-write NUFS

`src/` is a FUSE file system of about 2 200 lines of C. `cowmount` serves it; every change makes a new
version of the directory tree, and the seven newest versions are kept. `cowtool` works on the unmounted image:
it lists versions and rolls back to one. This directory holds TLA+ models of the program, their
model-checking runs and machine-checked proofs.

## 1. Inventory

Everything lives in one file of 256 pages that both programs map with `MAP_SHARED`: a store into the
mapping is a store into the image, in program order, and there is no journal. `cowmount` is started with
`-s` (`Makefile:29`), so one request runs at a time; `cowtool` runs only while nothing is mounted. What interleaves
is therefore not threads but **the steps of a request and the death of the process**, and what makes the code
hard is that versions share inodes, that a garbage collector decides by the text of a label which of them are not
shared, and that nothing records a half-done operation.

| component | source | state | operations | modelled in |
|---|---|---|---|---|
| version list | `root_list.c` | page 1: 7 slots `{rnum, vnum, op}`, newest first | `add_root`, `swap_root`, sanity check | `RootList`, `VersionLog` |
| version collector | `root_list.c:147-255` | none; frees inodes of the oldest version | `traverse_and_free` | `Storage`, `LabelText` |
| handlers | `storage.c` | none of their own | read, mknod, write, truncate, link, unlink, rename, utimens, chmod; `traverse_and_update` | `Storage`, `Snapshots`, `FileIO`, `ByteFile` |
| inode table | `inode.c` | pages 2-5: 256 inodes; bitmap in page 0 | alloc, copy, free, grow, shrink | `InodeTable` (values), `Inodes` (pages) |
| directories | `directory.c` | entries in the first page of a directory | lookup, put, delete, replace | `InodeTable` |
| pages, bitmaps | `pages.c`, `bitmap.c` | page 0 | `alloc_page`, `free_page` | `Inodes` |
| FUSE callbacks | `cowmount.c` | none | one per request, each calling one handler | requests of `Storage` and `FileIO` |
| cowtool | `cowtool.c` | none | new, ls, versions, rollback | `Tool*` of `Storage` |
| string lists | `slist.c`, `util.h` | none | split; `min`, `bytes_to_pages` | `LabelText`, `FileIO` |

How they interact: a handler looks its path up from the root in slot 0, copies the inode it changes
(`copy_inode`), and calls `traverse_and_update`, which copies the directory above, replaces the old inode number by the
new one, and goes on with the directory above that. At `/` it calls `add_root`. `add_root`
first collects the oldest version when all slots are in use, then shifts the list and stores the new root. The store of
`rnum` is the commit. unlink and utimens do a last change in place after it; rename works in place altogether.

What makes each part correct:

* version list: numbers are consecutive, rollback finds the version it names, no store loses a root that a kill would miss;
* collector: it frees nothing that a listed version reaches, and, between requests, everything that none reaches;
* handlers: a request is visible as a whole or not at all, changes the path it names and nothing else, and leaves older versions alone;
* directories and reference counts: a file is freed with its last name and not before;
* inodes: no page is held twice, a page that goes is free, a copy equals its original;
* page loops: a read returns and a write leaves exactly the bytes of the file, whatever the pages held before.

`PROJECT.json` lists the hazards behind these, each at its line.

## 2. Modules

* **`VersionLog`** – what the version list promises: a table in which a commit or a rollback is one step.
* **`RootList`** – the list as the code does it: `AddRoot`/`SwapRoot` enter a push, `Shift` is one `memcpy` of the loop,
  `StoreRnum`, `StoreVnum`, `StoreOp` the three stores into slot 0 (with the sanity check after the last), `Exit`/`Start`/`Kill` the
  process. `Spec` lets pushes run to their end and rollback name listed numbers; `RoughSpec` adds kills anywhere and any number.
  The refinement mapping `logTab` counts a push as committed with the first store that overwrites the oldest slot.
* **`InodeTable`** – pure operators on a table `[ibm, ino]`, one per function of `inode.c` and `directory.c`. File bytes and
  directory entries are sequences. It includes what the code does when the table is full (`alloc_inode` returns -1 and the caller
  uses inode -1, the end of the page of the version list).
* **`Storage`** – the handlers. `Request` runs a handler up to `traverse_and_update`; `Climb` is one directory of
  it; `AddRoot` enters the version list (an `INSTANCE` of `RootList`, so the same stores); `FreeStep` is one inode of the
  collector; `Push` the stores; `Finish` what unlink, rename and utimens do in place. `Mount`, `Unmount`, `Tool*` and
  `Kill` are the processes. `job` holds the locals of the running handler.
* **`Snapshots`** – what the handlers promise: a list of whole trees, newest first; a request makes a new tree out of the newest one. A tree is a set of
  objects, each with its names, type and bytes, so hard links are one object. `Storage` maps to it at its end: `TreeOf` reads a tree off a
  root, a handler counts as done when it calls `add_root`, and `BeforeShift` undoes the part of the shift that has happened.
* **`LabelText`** – the label as text: what a handler prints into 24 bytes (`Printed`, `LabelRoom`), `s_split`, and the path the collector makes of
  it (`LabelPath`). It gives `Storage` its parameter `Clip` in the runs that are about it.
* **`FileIO`** – the page loops of `storage_read`, `storage_write` and `storage_truncate`, one piece a step, over an inode whose new pages, and
  whose last page behind its end, hold what others left (`Stale`). **`ByteFile`** – what they promise: one file, a sequence of bytes, a request a step.
* **`Files`** – what `inode.c` promises: operations on whole files. **`Inodes`** – the same functions one page at a time over the page
  bitmap, direct pointers, the indirect table and stale pointers, proved to implement `Files`. `Files` is what licenses `InodeTable`, and
  `FileIO`, to treat the content of an inode as a value.
* Theorems: **`RootListProofs`**, **`InodesProofs`**, **`FileIOProofs`**, **`StorageProofs`** (it begins with lemmas on the operators of `InodeTable`),
  **`StorageCollect`**, **`StorageSnapshots`**, **`StorageAccounts`**, each of the last three on top of the one before; **`NatFacts`** – the lemma on natural
  numbers they share.
  **`MCRootList`, `MCStorage`, `MCInodes`, `MCFileIO`** – instances for TLC.

Outside the code, and assumed: the kernel looks a path up before it sends a request, so the parent exists and is a
directory, mknod and link name something new, write, truncate, link and unlink name a regular file, and chmod keeps the type (`Exists`, `IsFile`,
`CanCreate`, `OwnType`). The branches the code has for the other cases return an error and are not in the model (mknod and link of a name that exists leak the copy of
the directory there, but no such request arrives).

Abstractions to know of: a handler's part before the climb is one step (`Inodes` and `FileIO` have the page loops); a label is a call and a path, cut by
the parameter `Clip` (`LabelText` says how); modes are the two the code asserts of directories ("dir"), other directory modes ("odd") and
"file"; `tree_lookup` has no `return`: compiled as the `Makefile` says (no optimisation), the value of the last call
stays in the result register, which is what the model takes. One `memcpy` of a version slot is one step. `FileIO` has one file and no deaths:
write and truncate work on a copy, so a death before the commit is `Storage`'s business and leaves the file as it was.

## 3. Runs

| run | world | checks | shows |
|---|---|---|---|
| `RootListLog` | 3 slots, numbers to 5 | `TypeOK`, `VnumsConsecutive`, `GcLabelsWritten`, `ImplementsLog` | the list is the atomic table |
| `RootListRough` | same, numbers to 4, kills, unknown numbers | `VnumsSorted`, `RootsKept` | what survives interruptions |
| `Inodes` | 3 inodes, 6 data pages, 6 operations, kills in copy and grow | `TypeOK`, `Private`, `PagesReturned`, `ImplementsFiles` | no page twice, none lost, whole-file semantics |
| `StoragePlain` | 7 versions of one history, two files, a directory with the longest name that fits a label | `NoDangling`, `NoLeak`, `VersionsFrozen`, `CommitAtomic`, `CommitLocal`, `ImplementsSnapshots` | versions are snapshots; copy on write and collection agree exactly |
| `StorageRough` | 8 inodes, kills while climbing and finishing, unlink, odd modes | `TypeOK`, `NoDangling`, `CopiesFirst`, `VersionsFrozen`, `CommitAtomic` | listed versions survive interruptions and a full table |
| `StorageNames` | link, unlink, rename of two names in the root and rename in a directory that versions share | `NoDangling`, `RefsCoverNames`, `LinkVisible`, `UnlinkExact`, `RenameMoves`, `RenameKeepsFiles`, `CommitLocal` | names and reference counts |
| `StorageTime` | utimens, rollbacks; fairness | `HandlersEnd` | every handler ends |
| `FileIO` | 3 blocks of 2 bytes, reads, writes and truncates of all lengths, fairness | `TypeOK`, `ImplementsByteFile`, `RequestsEnd` | the loops move the right bytes, and end |
| `StorageRollback` | rollback, then writes | `GcSparesCurrent` | **violated**: collection frees what the restored version uses |
| `StorageAcross` | link between directories | `LinkVisible` | **violated**: the update starts in the wrong directory |
| `StorageOver` | rename onto an existing name | `RenameMoves` | **violated**: the old target is still found first |
| `FileIOMiddle` | the requests of `FileIO` | `WriteKeepsRest` | **violated**: a write that ends before the end of the file cuts it there |

Bounds. Three slots instead of seven are the fewest with a head, a middle and an oldest slot and a collector that runs after a few
requests; `MaxVnum` lets it run two to four times. Two files, one directory and one file in it give a path of depth two (two climbs), a shared
directory, hard links and a file the request does not touch. `Spare` stops requests while fewer inodes are free than one
handler takes, so that the table is never full in the runs that do not ask about it; `StorageRough` sets it to 0 with 8
inodes and does run into the full table. Pages: one direct pointer and at most three blocks make the block at the table, one behind it and
a second indirect one; six data pages hold one full file and not its copy, so the image does run out.
`MCSpell` gives the directory of `StoragePlain` the longest name with which the labels of a file in it still fit, so a printed label
one character shorter is seen. Two bytes a page are enough for a piece that starts, ends, or starts and ends inside a page; three blocks for a loop with
a first, a middle and a last piece. `MCRequests` are the requests as the kernel sends them to a file system without `big_writes`: reads of whole
pages from a page boundary, writes that start at a boundary or stay within one page. Others are wrong in the code (`buf += 4096`
after a short first piece), as is a read that starts behind the end (`PastEnd`).
`CHECK_DEADLOCK FALSE` stands only in violation runs of `Storage`, whose bounded histories end.

What the runs leave out on purpose, because the code does not have the property there (each is a hazard or a finding):
`StoragePlain` has no unlink and rename (both leak: the collector has no case for them), no rollback, and links in one directory only; `VersionsFrozen`
is not asked where rename works in place, and `RenameKeepsFiles` only where both names are in one directory; `RefsCoverNames` not where unlink can be killed half-way; kills during collection
are excluded by `KillAt` everywhere (freed inodes would be reached by a version that is still listed), and so are kills in the
push under a handler: a version that stands twice in the list makes a later collection read the wrong neighbour's label and
free what listed versions still reach. `RootListRough` has the kills of the push, without inodes.

Three properties deserve a word. `RefsCoverNames` says what the code keeps to, two references for each name, and so that a file is freed with its last name; that
`inode_copy_stats` returns the same number as `st_nlink`, "number of hard links" (`inode.c:338`), is a disagreement of code and comment: stat reports two
links of a file that has one name, and the state after the first mknod of `StorageNames` (refs 2, one name) shows it. `VersionsFrozen` speaks of every listed
version but the current one: `Kept` leaves the last slot out only while add_root collects it and until the first store of the shift overwrites it.
`CommitLocal` lets a path come into being only where a link names the file again, or where the request creates it. It is a property of requests that find
an inode: with a full table it does not hold. In an instance with four inodes, no spare and the calls mknod and write TLC finds the third mknod
committing inode 0, the empty first root, as the root of the new version (`alloc_inode` answers -1, no caller looks, and the number field of
`get_inode(-1)` reads 0), and the file that was there before is gone from it. The runs with a full table ask what older versions keep, not what the new one shows.

Fairness. `FairSpec` is weak fairness of `Step`: one thread, no lock and no wait, so a handler that was started runs on unless
its process dies. Requests, mounts and rollbacks are not fair. `HandlersEnd` needs it, and so does `RequestsEnd`, with the
same fairness of `FileIO`'s `Step`: an iteration of a loop of the same thread. An abort of the process is an end in `HandlersEnd`.

Every property has a mutant in `PROJECT.json`: a variant of one definition (`ShiftFrom_Short`, `Write_InPlace`, `FreedRoot_Newer`, ...) that
stands in the module above the definition it replaces and that makes TLC find the property violated.

## 4. Proofs

`RootListProofs` is checked by TLAPS for every number of slots (at least two), every `Limit`, every set of roots and labels; the only
assumption is `RootListAssumption` (the constants have their types). Under `RoughSpec`, kills included: `TypeCorrect`, `SortedCorrect`, `RootsKeptCorrect`. Under `Spec`:
`ConsecutiveCorrect`, `GcLabelsCorrect` and the refinement `RootListImplementsLog`.

The argument. `RoughInv` strengthens `VnumsSorted` with what the shift has done so far: slot `ii + 1` equals slot `ii` while the
loop runs (`Copied`), and the head has the pending root once that is stored (`Stored`). Sortedness alone is not inductive: `StoreVnum` raises the head, and
`Shift` overwrites a slot with one that must already be its equal or larger. `SpecInv` adds that the
*abstract* table is numbered consecutively and labelled (`LogNumbered`, `LogLabelled`), that the pending entry is a new one or a copy
of a listed one (`PendingOK`), and that collection starts only with a full list (`GcFull`); consecutive numbers between pushes then follow
because the abstract table is the list there. Both strengthenings were checked with TLC before they were proved. `NatMin` and
`SlotMax` (sets of slots have a greatest member) are what the `CHOOSE` of `Found` needs.

`InodesProofs` is checked for every number of inodes, pages, pointers and blocks. `InodesAssumption` says that the
constants have their types, that the image has a page behind the inode table, and that `KillAt` has at most the two operations that take
pages: a kill in `shrink_inode` leaves a size that still counts freed pages, and is a hazard, not a theorem. `InodesTypes` is inductive
as it stands. `InodesPrivate` adds `SizeLast`, since a kill falls back on the size that is stored: copy and grow never hold less than it says. Its
steps are of three kinds, each a lemma: nothing grows (`Shrinks`, `Kept`), one place and a free page are added (`Taken`), the last place goes with its page
(`GivenBack`). The block behind a table is the case that needs `Private` itself: the entry is stored in a table that is held, so no other inode reads
through it. `InodesImplementFiles` adds `CopySame` (the blocks copied so far equal their originals, which stay where they are because
their pages are held and the new one was free) and `Shortens`; the loops are stutters, the store of the size is the step.

`InodesReturn` needs only one fact more, that `free_inode` cuts down to nothing (`FreesAll`): a block that goes belongs to the inode that is being
cut, is its last one, and is the one whose page `GiveBlock` looks up; no other step shortens an inode.

`StorageProofs` is checked for every number of inodes, slots and versions, every set of paths closed under `dirname`, every label function and every
set of requests that has the types of `StorageAssumption`. `StorageTypes` is inductive as it stands; its work is in the lemmas at the front of the module, one or two for
each operator of `InodeTable`, and in one on `tree_lookup_hlp`: a path is looked up by a function over its length (`Walk`), and since no induction
theorem can be used, that this function exists for every length is shown with a least length for which it would not.
`StorageCopiesFirst` follows from what each operator leaves alone (`Untouched`: allocated inodes keep their content), for any requests at all.

Two theorems have a hypothesis that the code does not always meet. `CommitAtomicIfAllocated` and `VersionsFrozenIfAllocated` say: *if* listed versions only ever reach allocated
inodes (`[]NoDangling`), commits are atomic, and older versions, the last of the list included, are frozen until they are collected (the latter for requests that do not work in place). The argument:
a step that is untouched leaves every inode a version reads with its content, so every lookup, and with it the view, is the same (`SameLookup`, again by a shortest path with two answers);
what is left is the store of the root, the collection, which frees nothing that a listed version reaches because `NoDangling` holds after
the step as well, and the steps the property excepts. `HeadUsed` (slot 0 is a version) and `Quiet` (no handler that works in place is
running) are the invariants they need.

The second part of `StorageProofs` discharges the hypothesis where nothing is freed: `RoomForAll` (the list is not yet full, so nothing is collected) and `KeepingCalls` (no unlink, no rename,
and modes that are modes). The invariant `Rooted` says that the table is closed (an allocated inode has a mode and points at
allocated ones), and that every root in the list, in a pending entry and in the running handler is allocated. It holds with a full table too, where `alloc_inode` answers -1, and through
deaths at any point: `KillAt` is arbitrary here. So `NoDanglingWhileRoom`, `CommitAtomicWhileRoom` and `VersionsFrozenWhileRoom` have no temporal hypothesis.

`StorageCollect` discharges it with collections. Its theorems (`NoDanglingCollected`, `CommitAtomicCollected`, `VersionsFrozenCollected`,
`GcSparesCurrentCollected`) assume `PlainHistory`, and each part of it is there because the property fails in the code without it:

* no rollback: the label beside a restored version is about another pair of versions (`StorageRollback` is the counterexample);
* deaths only while serving, climbing or finishing: section 3 says what a death in the collection or in the push does;
* calls that do all they do in the copy and whose label names what they copied. Unlink goes on in place after its commit, rename never commits, and
  the collector frees a string twice for the label of utimens;
* a label that has room for its path (`Clip` is the identity there); a cut label frees the wrong inode or none;
* the modes of mknod and chmod are modes, and a link has both names in one directory (`StorageAcross`).

Nothing is assumed of the size of the table, of how full it is, nor of the length of the history. The argument: every listed version, the
pending one included, is a tree (`Tree`: a set of allocated inodes, closed under the entries, in which each inode but the root has one
directory, with a depth that grows along the entries; names of one directory may share an inode). `Grown` describes what a climb has made so far: the inodes `F` it took, and the inodes `C`
they stand for. The heart is `Pairs` with `Spared`: on the way along the label of a version, from the root of the version *before* it, lies nothing that this or a newer
version reads, except inode 0. So the collector, which follows that way in the oldest version, frees nothing that is still read. The
sets and depths are not state of the program: `Collectable` quantifies them existentially, and each step's lemma says which sets there are
after it. A commit establishes `Spared` because what it looked up on the way is `C`, and the new tree has `F` in its place; the
shift (`Doubled`, `Pending`, `Stored`) carries the pairs from slot to slot while two neighbours are the same version. Facts about all
paths are proved by the shortest path for which they fail (`PathInduction`), as no induction theorem can be used. With a full table
`alloc_inode` answers -1 and the climb copies into the phantom, whose number field is 0: `NoCopies` is that case, in which the
handler commits inode 0 as a root, or ends.

`StorageSnapshots` says what those histories show: `CommitLocalPlain` and `SnapshotsImplemented`, the refinement of `Snapshots`. It assumes `PlainHistory` and
`Roomy`: a request starts only with more free inodes than its path has names. Both are needed, as a climb that finds no inode
commits inode 0 as a root, which is not what any request asks for (section 3); `StoragePlain` meets both (`Spare` is 4, paths have two names at most). The invariant is `Mirrored`. Its part `Advanced` says of a running climb that there is a map `f`
from inodes to inodes which takes those on the way already climbed to their copies and every other one to itself, such that a copy has the entries
of its original renumbered by `f` (`Copied`), shows the same but for the inode the request changes, which has the change of the request (`Effect`), and the
new entry of mknod or link, if there is one. `f` grows by one inode with each directory (`ChangedOn`). At the root it is an
isomorphism (`Renewed`): every path leads in the new version to the image of what it led to in the old one, two inodes never have the same image, and the only new path is the one of the request. For
that, no two paths may lead to the same directory (`OneName`), which is inductive with it, since a link names a file. From `Renewed` it is set theory that the tree of the new version is the
old one with one object replaced or added (`MadeTree`), and that it differs in nothing but what the request names (`MadeLocal`). `Steady` then carries all versions through the other steps, the collection included, as `Collectable` has a
tree for each before and after the step. For the refinement the list has an invariant of its own (`Listing`: used slots come first, and the head has the
pending root once that is stored), with which the number of trees is counted (`Initial`); the shift and the three stores are stutters
(`PushSame`, `StoreOpSame`), `AddRoot` is the step (`AddRootSnap`).

`StorageAccounts` proves the converse of `NoDangling`: the collector frees *all* it should (`NoLeakPlain`), and with it that reference counts are those of the names
(`RefsCoverNamesPlain`). It assumes `PlainHistory`, `Roomy` and `Tidy`, and the code leaks, or ends in an assertion, without any part of them: a death between two directories of a climb leaves the copies
made so far (`Tidy` has none but between handlers); mknod in a directory of the other mode trips the assertion after it has copied it (`Tidy` makes no such directory); with a full table the copies
never become a version; the collector has no case for unlink and rename; a cut label finds nothing. `StoragePlain` meets all three.
The invariant is `Accounts`, beside the earlier ones, and every part but `Underway` was checked with TLC first:

* `Accounted`: every allocated inode but 0 is read by a listed version or the pending one (`Listed`), or is on the way the running collection has still to go (`Uncollected`), or
  is a copy the running climb has made (`Underway`, on the map `f` of `Advanced`);
* `Succession`: what a version reads and the next newer one does not lies on the way that the label of the newer one names (`Follows`). This is what makes the walk of `traverse_and_free_hlp`
  enough. A commit establishes it (`ChangedFollows`: off that way `f` is the identity), and the shift carries it from slot to slot with its label;
* `Numbers`: a slot in use has a number at least as far below the head's as it is behind it, so that `add_root` skips the collection only while
  the oldest slot is empty (`OldestCollected`), and a label "init" beside the oldest, for which nothing is collected, stands by root 0 only;
* `References`: two for each name in the current version (in the pending one from `add_root` on), and two more for the file that a link
  has counted and not yet named; `NoOdd`: no directory of the other mode.

The walk itself needs that no inode is met twice and that freeing one leaves the rest of the way as it was, although the lookup starts again from the root each time: `Chain` (by the depths of `Tree`)
and `ChainFreed`. `SteadyReach` and `CountedOn` carry everything else through the steps.

The module ends with `LinkVisiblePlain`, which needs `PlainHistory` and `Roomy` only. What a climb has made at the root keeps the names of every file and gives the one of a link one more
(`MadeKeepsNames`); `Linking` says so of the pending version until its root is stored.

`FileIOProofs` is checked for every page size, number of pages and request set with `KernelRequests`: no read behind the end, a write and a truncate
within the capacity, and a piece that starts at a page boundary or stays within one page. The code moves the wrong bytes for
others (section 3), so no weaker hypothesis would do. `FileTypes` needs that the loop's position stays inside the request. For `FileIOImplementsByteFile` the
invariant says where a loop stands (it has done whole pages from its start) and what it has achieved: the bytes read so far are those of the file
(`ReadSoFar`), the bytes written so far are those of the request and those before the offset those of the file (`WrittenSoFar`), the bytes behind the old end are
cleared as far as the truncate has come (`ClearedSoFar`). Its lemmas are about division: a position is a page and an offset (`Split`, `Joined`), the next piece
starts at the next page (`NextPage`), and a position lies in the piece or it does not (`InPiece`, `SamePage`).

Only model-checked: `NoDangling` past the first collection with the calls `PlainHistory` leaves out (unlink in `StorageRough`, unlink and rename in `StorageNames`);
`RefsCoverNames` with unlink and rename, and the properties of names (`UnlinkExact`, `RenameMoves`, `RenameKeepsFiles`; `LinkVisible` beside unlink and rename); `CommitLocal` and `ImplementsSnapshots` outside the hypotheses above (`CommitLocal` with unlink and rename in `StorageNames`); `LabelText`, whose text function would
need induction over a text; and `HandlersEnd` and `RequestsEnd` (liveness is out of the prover's reach, as is `ENABLED`).

## 5. Not modelled

* The bit operations of `bitmap.c`, printing, and of `slist.c` everything but `s_split`.
* `storage_stat`, `storage_list`, getattr, access, readdir, open, ioctl: they change nothing. `rmdir`: it computes `-ENOTEMPTY`, returns 0 and
  removes nothing (`cowmount.c:148-169`).
* The first mount of an image step by step. `Storage` and `Inodes` start from the complete image `storage_init` leaves; a first process killed inside it
  leaves an image that no later mount repairs (two hazards), and nothing in the code or its documents promises otherwise.
* The entries of a directory as bytes of its page: the 129th entry of a directory is written behind the page, into whatever is there (a hazard). The
  entries are a sequence in `InodeTable`, and no request count within TLC's reach gets near 128.
* What `sprintf` overruns for a path too long for its label (utimens, chmod), and the search loop of `swap_root` when nothing matches, beyond "any value".
* The version number 10000, at which the list's own sanity check ends every mount: the check is modelled (`Limit`), the run to it is a count.
* `hints/`, the course's starter code, which the build does not use; `rename_cow` and `get_common_ancestor` (`storage.c:513-618`), which nothing calls.

## 6. What could come next

1. Unlink in the theorems: `UnlinkExact`, and `RefsCoverNames` with unlink, need an invariant for the unlink that is half done between its commit and
   `Finish`, and trees (`Collectable`) that admit it.
2. The deaths the runs leave out (in `shrink_inode`, in the collection, in the push under a handler): the code has no property there to check, so a
   model of them is worth writing with a repair.
