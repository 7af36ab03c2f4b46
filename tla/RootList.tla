------------------------------ MODULE RootList ------------------------------
(***************************************************************************)
(* The version list of root_list.c: NUM_VERSIONS slots on page 1, slot 0   *)
(* the current version, each a cow_version {rnum, vnum, op}.  add_root     *)
(* pushes a new version, swap_root (cowtool rollback) pushes a copy of an  *)
(* old one.  Both shift the list one slot at a time and then store the     *)
(* three fields of slot 0 one after the other; every store reaches the     *)
(* mapped image at once, so a process that dies between two of them leaves *)
(* what it has stored so far.  Each store is therefore a step of its own.  *)
(*                                                                         *)
(* The garbage collection that add_root runs before it shifts changes      *)
(* inodes and not the list: here it is the phase "gc", whose content is in *)
(* module Storage.                                                         *)
(***************************************************************************)
EXTENDS Integers

CONSTANTS
    NumVersions,   \* NUM_VERSIONS: slots of the list
    Limit,         \* the 10000 of root_list_sanity_check
    MaxVnum,       \* bound: no push once the current version has this number
    Rnum,          \* inode numbers a caller of add_root passes
    Op,            \* the labels a slot can hold
    NoOp,          \* the empty label of a slot never written
    Junk           \* the {rnum, op} an uninitialised cow_version can hold

ASSUME RootListAssumption ==
    /\ NumVersions \in Nat \ {0, 1}
    /\ Limit \in Nat \ {0}
    /\ MaxVnum \in Nat
    /\ Rnum \subseteq Int
    /\ NoOp \in Op
    /\ Junk \subseteq [rnum : Int, op : Op]

VARIABLES
    rl,       \* the list, on the image: survives the process
    ph,       \* where the process is; "off" when there is none
    ii,       \* the slot the shift loop writes next
    entry     \* the rnum and op being installed

vars == <<rl, ph, ii, entry>>

Slot == 0 .. NumVersions - 1
Last == NumVersions - 1

cow_version == [rnum : Int, vnum : Nat, op : Op]

\* ftruncate hands out zeroed pages, and root_init clears the list's head.
ZeroSlot == [rnum |-> 0, vnum |-> 0, op |-> NoOp]
NoEntry  == [rnum |-> 0, op |-> NoOp]

get_current_root == rl[0].rnum

root_list_sanity_check(list) ==
    \A s \in Slot : list[s].vnum < Limit /\ list[s].rnum < Limit

Room == rl[0].vnum < MaxVnum

-----------------------------------------------------------------------------
(* A new image: root_init allocates page 1 and returns without a push.     *)

Init ==
    /\ rl = [s \in Slot |-> ZeroSlot]
    /\ ph = "idle"
    /\ ii = 0
    /\ entry = NoEntry

\* The slot the shift loops start with.
ShiftFrom_Past  == NumVersions
ShiftFrom_Short == Last - 1
ShiftFrom       == Last

\* The number of the current version shows that every slot is in use.
Full_OneEarly == rl[0].vnum >= NumVersions - 1
Full          == rl[0].vnum > NumVersions - 1

(* add_root up to its shift loop.  It collects the oldest version only     *)
(* when the current number shows that every slot is in use.                *)
AddRoot(r, op) ==
    /\ ph = "idle"
    /\ Room
    /\ entry' = [rnum |-> r, op |-> op]
    /\ ii' = ShiftFrom
    /\ ph' = IF Full THEN "gc" ELSE "shift"
    /\ UNCHANGED rl

(* traverse_and_free has returned; its result is only printed.             *)
Collected ==
    /\ ph = "gc"
    /\ ph' = "shift"
    /\ UNCHANGED <<rl, ii, entry>>

(* The slots whose number is v.  The search loop of swap_root has no       *)
(* break, so the highest of them supplies the content; with none of them   *)
(* new_root stays uninitialised.  A slot never written has number 0.       *)
Matches(v) == {s \in Slot : rl[s].vnum = v}

Found_Below(v) ==
    LET s == CHOOSE s \in Matches(v) : \A t \in Matches(v) : t <= s
        f == IF s = Last THEN s ELSE s + 1
    IN  [rnum |-> rl[f].rnum, op |-> rl[f].op]

Found(v) ==
    LET s == CHOOSE s \in Matches(v) : \A t \in Matches(v) : t <= s
    IN  [rnum |-> rl[s].rnum, op |-> rl[s].op]

(* swap_root up to its shift loop: it never collects the dropped version.  *)
SwapRoot(v) ==
    /\ ph = "idle"
    /\ Room
    /\ \/ Matches(v) # {} /\ entry' = Found(v)
       \/ Matches(v) = {} /\ entry' \in Junk
    /\ ii' = ShiftFrom
    /\ ph' = "shift"
    /\ UNCHANGED rl

-----------------------------------------------------------------------------
(* The shift loop (one memcpy per iteration, from the last slot down to    *)
(* slot 1) and the three stores into slot 0.                               *)

Shift_FromHead ==
    /\ ph = "shift"
    /\ rl' = [rl EXCEPT ![ii] = rl[0]]
    /\ ii' = ii - 1
    /\ ph' = IF ii = 1 THEN "rnum" ELSE "shift"
    /\ UNCHANGED entry

Shift ==
    /\ ph = "shift"
    /\ rl' = [rl EXCEPT ![ii] = rl[ii - 1]]
    /\ ii' = ii - 1
    /\ ph' = IF ii = 1 THEN "rnum" ELSE "shift"
    /\ UNCHANGED entry

StoreRnum ==
    /\ ph = "rnum"
    /\ rl' = [rl EXCEPT ![0].rnum = entry.rnum]
    /\ ph' = "vnum"
    /\ UNCHANGED <<ii, entry>>

StoreVnum ==
    /\ ph = "vnum"
    /\ rl' = [rl EXCEPT ![0].vnum = @ + 1]
    /\ ph' = "op"
    /\ UNCHANGED <<ii, entry>>

(* The last store, followed by root_list_sanity_check, whose failed        *)
(* assertion ends the process.                                             *)
StoreOp ==
    /\ ph = "op"
    /\ rl' = [rl EXCEPT ![0].op = entry.op]
    /\ ph' = IF root_list_sanity_check(rl') THEN "idle" ELSE "off"
    /\ ii' = 0
    /\ entry' = NoEntry

-----------------------------------------------------------------------------
(* Unmount, or the exit of cowtool.                                        *)
Exit ==
    /\ ph = "idle"
    /\ ph' = "off"
    /\ UNCHANGED <<rl, ii, entry>>

(* root_init on an existing image asserts the sanity check.                *)
Start ==
    /\ ph = "off"
    /\ root_list_sanity_check(rl)
    /\ ph' = "idle"
    /\ UNCHANGED <<rl, ii, entry>>

(* The process dies: the list keeps what was stored.                       *)
Kill ==
    /\ ph # "off"
    /\ ph' = "off"
    /\ ii' = 0
    /\ entry' = NoEntry
    /\ UNCHANGED rl

Push == Collected \/ Shift \/ StoreRnum \/ StoreVnum \/ StoreOp

(* The numbers cowtool versions prints.                                    *)
Listed == {rl[s].vnum : s \in Slot} \ {0}

Next ==
    \/ \E r \in Rnum, op \in Op \ {NoOp} : AddRoot(r, op)
    \/ \E v \in Listed : SwapRoot(v)
    \/ Push
    \/ Exit
    \/ Start

Spec == Init /\ [][Next]_vars

(* The same list in a rougher world: the process can be killed between any *)
(* two stores, and cowtool rollback can name a number it never printed.    *)
RoughNext ==
    \/ Next
    \/ \E v \in (0 .. MaxVnum) \ Listed : SwapRoot(v)
    \/ Kill

RoughSpec == Init /\ [][RoughNext]_vars

-----------------------------------------------------------------------------
(* Properties.                                                             *)

(* Every variable has its type; the loop counter is a slot below the list  *)
(* while a push shifts and zero otherwise.                                 *)
TypeOK ==
    /\ rl \in [Slot -> cow_version]
    /\ ph \in {"idle", "gc", "shift", "rnum", "vnum", "op", "off"}
    /\ ii \in Slot
    /\ ph = "gc" => ii = Last
    /\ ph = "shift" => ii > 0
    /\ ph \notin {"gc", "shift"} => ii = 0
    /\ entry \in [rnum : Int, op : Op]

(* The number slot s has in a complete list whose head has number v.       *)
Numbered(s, v) == IF v > s THEN v - s ELSE 0

(* Between pushes the numbers count down by one from the head and end in   *)
(* zeros for the slots not yet used, so no two versions that rollback can  *)
(* name share a number (swap_root keeps the last match it finds).          *)
VnumsConsecutive ==
    ph \in {"idle", "off", "gc"} =>
        \A s \in Slot : rl[s].vnum = Numbered(s, rl[0].vnum)

(* traverse_and_free splits the labels of the last two slots and reads the *)
(* second word of both without a test: it must never run while one of them *)
(* is still a slot that was never written.                                 *)
GcLabelsWritten ==
    ph = "gc" => rl[Last].op # NoOp /\ rl[Last - 1].op # NoOp

(* Even when pushes are cut short by kills and rollback is asked for       *)
(* numbers that do not exist, the numbers never increase along the list:   *)
(* the newest version is always at the head.                               *)
VnumsSorted ==
    \A s \in Slot \ {0} : rl[s].vnum <= rl[s - 1].vnum

(* No single store of a push drops a root other than the one in the last   *)
(* slot: a kill after it can lose the oldest version, never a newer one.   *)
RootsKept ==
    [][\A s \in Slot \ {Last} : \E t \in Slot : rl'[t].rnum = rl[s].rnum]_vars

-----------------------------------------------------------------------------
(* Refinement.  A push counts as committed with its first store, the one   *)
(* that overwrites the oldest version.  From then on the abstract table is *)
(* the list as it will be: slots above ii have moved, those up to ii are   *)
(* still to move, and the head is what StoreRnum .. StoreOp will leave.    *)
Committed ==
    \/ ph = "shift" /\ ii < Last
    \/ ph \in {"rnum", "vnum", "op"}

LogHead ==
    [rnum |-> entry.rnum,
     vnum |-> IF ph = "op" THEN rl[0].vnum ELSE rl[0].vnum + 1,
     op   |-> entry.op]

logTab ==
    IF ~Committed
    THEN rl
    ELSE [s \in Slot |-> IF s = 0 THEN LogHead
                        ELSE IF s <= ii THEN rl[s - 1] ELSE rl[s]]

Log == INSTANCE VersionLog WITH tab <- logTab

(* While no process is killed and rollback is asked for printed numbers,   *)
(* the slot-by-slot list behaves like the table of whole versions.         *)
ImplementsLog == Log!Spec
=============================================================================
