--------------------------- MODULE RootListProofs ---------------------------
(***************************************************************************)
(* Proofs about RootList, for every number of slots, every bound and every *)
(* set of roots and labels:                                                *)
(*   - under RoughSpec (kills, rollbacks to numbers that do not exist) the *)
(*     variables keep their types, the numbers stay sorted, and no store   *)
(*     drops a root other than the oldest;                                 *)
(*   - under Spec the numbers are consecutive between pushes, the garbage  *)
(*     collector never meets an unwritten label, and the list implements   *)
(*     the table of module VersionLog.                                     *)
(***************************************************************************)
EXTENDS RootList, NatFacts, TLAPS

(* A nonempty set of slots has a greatest member: the one whose content    *)
(* swap_root ends up with.                                                 *)
LEMMA SlotMax ==
  ASSUME NEW T \in SUBSET Slot, T # {}
  PROVE  \E m \in T : \A t \in T : t <= m
<1> DEFINE U == {n \in Nat : \E s \in T : n = Last - s}
<1>1. U # {} /\ U \in SUBSET Nat
  <2>1. PICK s : s \in T
    OBVIOUS
  <2>2. Last - s \in U
    BY <2>1, RootListAssumption DEF Slot, Last
  <2> QED
    BY <2>2
<1>2. PICK n \in U : \A k \in U : n <= k
  BY <1>1, NatMin
<1>3. PICK m \in T : n = Last - m
  BY <1>2
<1>4. \A t \in T : t <= m
  <2> TAKE t \in T
  <2>1. Last - t \in U
    BY RootListAssumption DEF Slot, Last
  <2> QED
    BY <2>1, <1>2, <1>3, RootListAssumption DEF Slot, Last
<1> QED
  BY <1>4

-----------------------------------------------------------------------------
(* The strengthenings.                                                     *)

(* While a push is under way the slot to be written next has already been  *)
(* copied one place further down (or is the head, once it is copied).      *)
Copied ==
    (ph = "shift" /\ ii < Last) \/ ph = "rnum" => rl[ii + 1] = rl[ii]

(* Once the root is stored the head has it.                                *)
Stored == ph \in {"vnum", "op"} => rl[0].rnum = entry.rnum

RoughInv == TypeOK /\ VnumsSorted /\ Copied /\ Stored

(* The table the list stands for is numbered consecutively at all times.   *)
LogNumbered ==
    \A s \in Slot : logTab[s].vnum = Numbered(s, logTab[0].vnum)

(* Only a version that was never written has no label.                     *)
LogLabelled ==
    \A s \in Slot : logTab[s].vnum > 0 => logTab[s].op # NoOp

(* What waits to be pushed is what add_root was called with or the content *)
(* of a listed version.                                                    *)
PendingOK ==
    ph \in {"gc", "shift"} /\ ~Committed =>
        \/ entry.rnum \in Rnum /\ entry.op \in Op \ {NoOp}
        \/ \E p \in Slot : /\ rl[p].vnum > 0
                           /\ entry = [rnum |-> rl[p].rnum, op |-> rl[p].op]

(* The garbage collector runs only on a full list.                         *)
GcFull == ph = "gc" => rl[0].vnum > Last

SpecInv == RoughInv /\ LogNumbered /\ LogLabelled /\ PendingOK /\ GcFull

-----------------------------------------------------------------------------
(* The rough world.                                                        *)

USE RootListAssumption DEF Slot, Last, ShiftFrom

(* What swap_root takes from the list is a root and a label.               *)
LEMMA FoundType ==
  ASSUME TypeOK, NEW v \in Int, Matches(v) # {}
  PROVE  /\ Found(v) \in [rnum : Int, op : Op]
         /\ \E p \in Slot : /\ rl[p].vnum = v
                            /\ Found(v) = [rnum |-> rl[p].rnum, op |-> rl[p].op]
<1> DEFINE s == CHOOSE s \in Matches(v) : \A t \in Matches(v) : t <= s
<1>1. Matches(v) \in SUBSET Slot
  BY DEF Matches
<1>2. \E m \in Matches(v) : \A t \in Matches(v) : t <= m
  BY <1>1, SlotMax
<1>3. s \in Matches(v)
  BY <1>2
<1>4. s \in Slot /\ rl[s].vnum = v
  BY <1>3 DEF Matches
<1>5. Found(v) = [rnum |-> rl[s].rnum, op |-> rl[s].op]
  BY DEF Found
<1>6. rl[s] \in cow_version
  BY <1>4 DEF TypeOK
<1> HIDE DEF s
<1>7. Found(v) \in [rnum : Int, op : Op]
  BY <1>5, <1>6 DEF cow_version
<1> QED
  BY <1>4, <1>5, <1>7

(* The invariant holds of a new image.                                     *)
LEMMA RoughInit == Init => RoughInv
  BY DEF Init, RoughInv, TypeOK, VnumsSorted, Copied, Stored, ZeroSlot, NoEntry, cow_version

(* Starting a push touches only the process.                               *)
LEMMA RoughAddRoot ==
  ASSUME RoughInv, NEW r \in Rnum, NEW op \in Op \ {NoOp}, AddRoot(r, op)
  PROVE  RoughInv'
<1>1. TypeOK'
  BY DEF RoughInv, TypeOK, AddRoot, Full
<1>2. VnumsSorted'
  BY DEF RoughInv, VnumsSorted, AddRoot, Full
<1>3. Copied'
  BY DEF Copied, AddRoot, Full
<1>9. Stored'
  BY DEF Stored, AddRoot, Full
<1> QED
  BY <1>1, <1>2, <1>3, <1>9 DEF RoughInv

(* So does starting a rollback, whatever number it was given.              *)
LEMMA RoughSwapRoot ==
  ASSUME RoughInv, NEW v \in Int, SwapRoot(v)
  PROVE  RoughInv'
<1>1. entry' \in [rnum : Int, op : Op]
  <2>1. CASE Matches(v) # {} /\ entry' = Found(v)
    BY <2>1, FoundType DEF RoughInv
  <2>2. CASE Matches(v) = {} /\ entry' \in Junk
    BY <2>2 DEF RootListAssumption
  <2> QED
    BY <2>1, <2>2 DEF SwapRoot
<1>2. TypeOK'
  BY <1>1 DEF RoughInv, TypeOK, SwapRoot
<1>3. VnumsSorted'
  BY DEF RoughInv, VnumsSorted, SwapRoot
<1>4. Copied'
  BY DEF Copied, SwapRoot
<1>9. Stored'
  BY DEF Stored, SwapRoot
<1> QED
  BY <1>2, <1>3, <1>4, <1>9 DEF RoughInv

(* One memcpy of the shift loop.                                           *)
LEMMA RoughShift ==
  ASSUME RoughInv, Shift
  PROVE  RoughInv'
<1>1. /\ rl \in [Slot -> cow_version]
      /\ ii \in 1 .. Last
      /\ rl' = [rl EXCEPT ![ii] = rl[ii - 1]]
      /\ ii' = ii - 1
      /\ ph' = IF ii = 1 THEN "rnum" ELSE "shift"
      /\ entry' = entry
  BY DEF RoughInv, TypeOK, Shift
<1>2. rl' \in [Slot -> cow_version]
  BY <1>1
<1>3. TypeOK'
  BY <1>1, <1>2 DEF RoughInv, TypeOK
<1>4. \A s \in Slot : rl[s].vnum \in Nat
  BY <1>1 DEF cow_version
<1>5. VnumsSorted'
  <2> SUFFICES ASSUME NEW s \in Slot \ {0}
               PROVE  rl'[s].vnum <= rl'[s - 1].vnum
    BY DEF VnumsSorted
  <2>1. rl[s].vnum <= rl[s - 1].vnum
    BY DEF RoughInv, VnumsSorted
  <2>2. CASE s = ii
    BY <1>1, <1>4, <2>2
  <2>3. CASE s = ii + 1
    <3>1. rl'[s] = rl[s] /\ rl'[s - 1] = rl[ii - 1]
      BY <1>1, <2>3
    <3>2. rl[ii].vnum <= rl[ii - 1].vnum
      BY <1>1 DEF RoughInv, VnumsSorted
    <3> QED
      BY <1>1, <1>4, <2>1, <2>3, <3>1, <3>2
  <2>4. CASE s # ii /\ s # ii + 1
    BY <1>1, <2>1, <2>4
  <2> QED
    BY <2>2, <2>3, <2>4
<1>6. Copied'
  BY <1>1 DEF Copied
<1>9. Stored'
  BY <1>1 DEF Stored
<1> QED
  BY <1>3, <1>5, <1>6, <1>9 DEF RoughInv

(* The first store into the head changes no number.                        *)
LEMMA RoughStoreRnum ==
  ASSUME RoughInv, StoreRnum
  PROVE  RoughInv'
<1>1. /\ rl \in [Slot -> cow_version]
      /\ rl' = [rl EXCEPT ![0].rnum = entry.rnum]
      /\ entry.rnum \in Int
  BY DEF RoughInv, TypeOK, StoreRnum
<1>2. rl' \in [Slot -> cow_version]
  <2>1. 0 \in Slot /\ rl[0] \in cow_version
    BY <1>1
  <2>2. [rl[0] EXCEPT !.rnum = entry.rnum] \in cow_version
    BY <1>1, <2>1 DEF cow_version
  <2> QED
    BY <1>1, <2>1, <2>2
<1>3. \A s \in Slot : rl'[s].vnum = rl[s].vnum
  BY <1>1 DEF cow_version
<1>4. TypeOK'
  BY <1>2 DEF RoughInv, TypeOK, StoreRnum
<1>5. VnumsSorted'
  BY <1>3 DEF RoughInv, VnumsSorted
<1>6. Copied'
  BY DEF Copied, StoreRnum
<1>9. Stored'
  BY <1>1 DEF Stored, StoreRnum, cow_version
<1> QED
  BY <1>4, <1>5, <1>6, <1>9 DEF RoughInv

(* The second one raises the largest number of the list.                   *)
LEMMA RoughStoreVnum ==
  ASSUME RoughInv, StoreVnum
  PROVE  RoughInv'
<1>1. /\ rl \in [Slot -> cow_version]
      /\ rl' = [rl EXCEPT ![0].vnum = @ + 1]
  BY DEF RoughInv, TypeOK, StoreVnum
<1>2. \A s \in Slot : rl[s].vnum \in Nat
  BY <1>1 DEF cow_version
<1>3. rl' \in [Slot -> cow_version]
  <2>1. 0 \in Slot /\ rl[0] \in cow_version
    BY <1>1
  <2>2. [rl[0] EXCEPT !.vnum = @ + 1] \in cow_version
    BY <1>1, <2>1 DEF cow_version
  <2> QED
    BY <1>1, <2>1, <2>2
<1>4. TypeOK'
  BY <1>3 DEF RoughInv, TypeOK, StoreVnum
<1>5. VnumsSorted'
  <2>1. rl'[0].vnum = rl[0].vnum + 1
    BY <1>1 DEF cow_version
  <2>2. \A s \in Slot \ {0} : rl'[s] = rl[s]
    BY <1>1
  <2> SUFFICES ASSUME NEW s \in Slot \ {0}
               PROVE  rl'[s].vnum <= rl'[s - 1].vnum
    BY DEF VnumsSorted
  <2>3. rl[s].vnum <= rl[s - 1].vnum
    BY DEF RoughInv, VnumsSorted
  <2>4. CASE s = 1
    BY <1>2, <2>1, <2>2, <2>3, <2>4
  <2>5. CASE s # 1
    BY <2>2, <2>3, <2>5
  <2> QED
    BY <2>4, <2>5
<1>6. Copied'
  BY DEF Copied, StoreVnum
<1>9. Stored'
  BY <1>1 DEF RoughInv, Stored, StoreVnum, cow_version
<1> QED
  BY <1>4, <1>5, <1>6, <1>9 DEF RoughInv

(* The third one changes no number, and may end the process.               *)
LEMMA RoughStoreOp ==
  ASSUME RoughInv, StoreOp
  PROVE  RoughInv'
<1>1. /\ rl \in [Slot -> cow_version]
      /\ rl' = [rl EXCEPT ![0].op = entry.op]
      /\ entry.op \in Op
      /\ ph' \in {"idle", "off"}
  BY DEF RoughInv, TypeOK, StoreOp
<1>2. rl' \in [Slot -> cow_version]
  <2>1. 0 \in Slot /\ rl[0] \in cow_version
    BY <1>1
  <2>2. [rl[0] EXCEPT !.op = entry.op] \in cow_version
    BY <1>1, <2>1 DEF cow_version
  <2> QED
    BY <1>1, <2>1, <2>2
<1>3. \A s \in Slot : rl'[s].vnum = rl[s].vnum
  BY <1>1 DEF cow_version
<1>4. TypeOK'
  BY <1>1, <1>2 DEF RoughInv, TypeOK, StoreOp, NoEntry
<1>5. VnumsSorted'
  BY <1>3 DEF RoughInv, VnumsSorted
<1>6. Copied'
  BY <1>1 DEF Copied
<1>9. Stored'
  BY <1>1 DEF Stored
<1> QED
  BY <1>4, <1>5, <1>6, <1>9 DEF RoughInv

(* Steps that leave the list as it is.                                     *)
LEMMA RoughQuiet ==
  ASSUME RoughInv, Collected \/ Exit \/ Start \/ Kill \/ UNCHANGED vars
  PROVE  RoughInv'
<1>1. CASE Collected
  BY <1>1 DEF RoughInv, TypeOK, VnumsSorted, Copied, Stored, Collected
<1>2. CASE Exit
  BY <1>2 DEF RoughInv, TypeOK, VnumsSorted, Copied, Stored, Exit
<1>3. CASE Start
  BY <1>3 DEF RoughInv, TypeOK, VnumsSorted, Copied, Stored, Start
<1>4. CASE Kill
  BY <1>4 DEF RoughInv, TypeOK, VnumsSorted, Copied, Stored, Kill, NoEntry
<1>5. CASE UNCHANGED vars
  BY <1>5 DEF RoughInv, TypeOK, VnumsSorted, Copied, Stored, vars
<1> QED
  BY <1>1, <1>2, <1>3, <1>4, <1>5

(* Every step of the rough world preserves the invariant.                  *)
LEMMA RoughStep ==
  ASSUME RoughInv, [RoughNext]_vars
  PROVE  RoughInv'
<1>1. ASSUME NEW r \in Rnum, NEW op \in Op \ {NoOp}, AddRoot(r, op)
      PROVE  RoughInv'
  BY <1>1, RoughAddRoot
<1>2. ASSUME NEW v \in Int, SwapRoot(v)
      PROVE  RoughInv'
  BY <1>2, RoughSwapRoot
<1>3. Listed \subseteq Int
  BY DEF Listed, RoughInv, TypeOK, cow_version
<1>4. CASE Push
  BY <1>4, RoughQuiet, RoughShift, RoughStoreRnum, RoughStoreVnum, RoughStoreOp
     DEF Push
<1>5. CASE Exit \/ Start \/ Kill \/ UNCHANGED vars
  BY <1>5, RoughQuiet
<1> QED
  BY <1>1, <1>2, <1>3, <1>4, <1>5 DEF RoughNext, Next

(* The strengthening holds in every state, kills included.                 *)
LEMMA RoughInvariant == RoughSpec => []RoughInv
<1>1. Init => RoughInv
  BY RoughInit
<1>2. RoughInv /\ [RoughNext]_vars => RoughInv'
  BY RoughStep
<1> QED
  BY <1>1, <1>2, PTL DEF RoughSpec

(* The variables of the list and of the process that works on it keep      *)
(* their types, whatever is killed and whatever rollback is asked for.     *)
THEOREM TypeCorrect == RoughSpec => []TypeOK
<1>1. RoughInv => TypeOK
  BY DEF RoughInv
<1> QED
  BY <1>1, RoughInvariant, PTL

(* The newest version is always at the head of the list, kills included.   *)
THEOREM SortedCorrect == RoughSpec => []VnumsSorted
<1>1. RoughInv => VnumsSorted
  BY DEF RoughInv
<1> QED
  BY <1>1, RoughInvariant, PTL

(* A step can only drop the root of the last slot, so a kill after any     *)
(* store of a push costs at most the oldest version.                       *)
THEOREM RootsKeptCorrect == RoughSpec => RootsKept
<1> DEFINE Kept == \A s \in Slot \ {Last} : \E t \in Slot : rl'[t].rnum = rl[s].rnum
<1>1. RoughInv /\ UNCHANGED rl => Kept
  OBVIOUS
<1>2. RoughInv /\ Shift => Kept
  <2> SUFFICES ASSUME RoughInv, Shift, NEW s \in Slot \ {Last}
               PROVE  \E t \in Slot : rl'[t].rnum = rl[s].rnum
    OBVIOUS
  <2>1. /\ rl \in [Slot -> cow_version]
        /\ ii \in 1 .. Last
        /\ rl' = [rl EXCEPT ![ii] = rl[ii - 1]]
    BY DEF RoughInv, TypeOK, Shift
  <2>2. CASE s # ii
    BY <2>1, <2>2
  <2>3. CASE s = ii
    <3>1. rl'[ii + 1] = rl[ii]
      BY <2>1, <2>3 DEF RoughInv, Copied, Shift
    <3> QED
      BY <2>3, <3>1
  <2> QED
    BY <2>2, <2>3
<1>3. RoughInv /\ StoreRnum => Kept
  <2> SUFFICES ASSUME RoughInv, StoreRnum, NEW s \in Slot \ {Last}
               PROVE  \E t \in Slot : rl'[t].rnum = rl[s].rnum
    OBVIOUS
  <2>1. /\ rl \in [Slot -> cow_version]
        /\ ii = 0
        /\ rl' = [rl EXCEPT ![0].rnum = entry.rnum]
        /\ rl[1] = rl[0]
    BY DEF RoughInv, TypeOK, Copied, StoreRnum
  <2>2. rl'[1] = rl[0]
    BY <2>1
  <2>3. CASE s = 0
    BY <2>2, <2>3
  <2>4. CASE s # 0
    BY <2>1, <2>4
  <2> QED
    BY <2>3, <2>4
<1>4. RoughInv /\ (StoreVnum \/ StoreOp) => Kept
  <2> SUFFICES ASSUME RoughInv, StoreVnum \/ StoreOp, NEW s \in Slot \ {Last}
               PROVE  rl'[s].rnum = rl[s].rnum
    OBVIOUS
  <2>1. rl \in [Slot -> cow_version]
    BY DEF RoughInv, TypeOK
  <2> QED
    BY <2>1 DEF StoreVnum, StoreOp, cow_version
<1>5. RoughInv /\ [RoughNext]_vars => [Kept]_vars
  BY <1>1, <1>2, <1>3, <1>4
     DEF RoughNext, Next, Push, AddRoot, Full, SwapRoot, Collected, Exit, Start, Kill, vars
<1> QED
  BY <1>5, RoughInvariant, PTL DEF RoughSpec, RootsKept

-----------------------------------------------------------------------------
(* Without kills: the list implements the table.                           *)

(* The first store of a push: the abstract step.                           *)
FirstShift == Shift /\ ii = Last

(* The empty list is the empty table.                                      *)
LEMMA LogInit == Init => Log!Init
  BY DEF Init, Log!Init, Log!Place, Log!Blank, ZeroSlot, logTab, Committed

(* At the first store the table receives the pending version.              *)
LEMMA LogPush ==
  ASSUME RoughInv, FirstShift
  PROVE  /\ logTab = rl
         /\ logTab' = Log!Pushed(entry.rnum, entry.op)
<1>1. /\ rl \in [Slot -> cow_version]
      /\ rl' = [rl EXCEPT ![Last] = rl[Last - 1]]
      /\ ii = Last /\ ii' = Last - 1
      /\ ph = "shift"
      /\ ph' = IF Last = 1 THEN "rnum" ELSE "shift"
      /\ entry' = entry
  BY DEF RoughInv, TypeOK, FirstShift, Shift
<1>2. ~Committed /\ Committed'
  BY <1>1 DEF Committed
<1>3. logTab = rl
  BY <1>2 DEF logTab
<1>4. LogHead' = [rnum |-> entry.rnum, vnum |-> rl[0].vnum + 1, op |-> entry.op]
  <2>1. rl'[0] = rl[0] /\ ph' # "op"
    BY <1>1
  <2> QED
    BY <1>1, <2>1 DEF LogHead
<1>5. logTab' = [s \in Slot |-> IF s = 0 THEN LogHead'
                                ELSE IF s <= Last - 1 THEN rl'[s - 1] ELSE rl'[s]]
  BY <1>1, <1>2 DEF logTab
<1>6. \A s \in Slot : s # 0 => logTab'[s] = rl[s - 1]
  <2> SUFFICES ASSUME NEW s \in Slot, s # 0 PROVE logTab'[s] = rl[s - 1]
    OBVIOUS
  <2>1. CASE s = Last
    BY <1>1, <1>5, <2>1
  <2>2. CASE s # Last
    BY <1>1, <1>5, <2>2
  <2> QED
    BY <2>1, <2>2
<1>7. Log!Pushed(entry.rnum, entry.op)
        = [p \in Slot |-> IF p = 0 THEN LogHead' ELSE rl[p - 1]]
  BY <1>3, <1>4 DEF Log!Pushed, Log!Place
<1>8. logTab' = Log!Pushed(entry.rnum, entry.op)
  BY <1>5, <1>6, <1>7
<1> QED
  BY <1>3, <1>8

(* Every other store leaves the table as it is.                            *)
LEMMA LogShift ==
  ASSUME RoughInv, Shift, ii # Last
  PROVE  logTab' = logTab
<1>1. /\ rl \in [Slot -> cow_version]
      /\ ii \in 1 .. Last - 1
      /\ rl' = [rl EXCEPT ![ii] = rl[ii - 1]]
      /\ ii' = ii - 1
      /\ ph = "shift"
      /\ ph' = IF ii = 1 THEN "rnum" ELSE "shift"
      /\ entry' = entry
  BY DEF RoughInv, TypeOK, Shift
<1>2. Committed /\ Committed'
  BY <1>1 DEF Committed
<1>3. LogHead' = LogHead
  BY <1>1 DEF LogHead
<1>4. logTab = [s \in Slot |-> IF s = 0 THEN LogHead
                               ELSE IF s <= ii THEN rl[s - 1] ELSE rl[s]]
  BY <1>2 DEF logTab
<1>5. logTab' = [s \in Slot |-> IF s = 0 THEN LogHead
                                ELSE IF s <= ii - 1 THEN rl'[s - 1] ELSE rl'[s]]
  BY <1>1, <1>2, <1>3 DEF logTab
<1>6. ASSUME NEW s \in Slot
      PROVE  logTab'[s] = logTab[s]
  <2>1. CASE s = 0
    BY <1>4, <1>5, <2>1
  <2>2. CASE s = ii
    BY <1>1, <1>4, <1>5, <2>2
  <2>3. CASE s \in 1 .. ii - 1
    BY <1>1, <1>4, <1>5, <2>3
  <2>4. CASE s > ii
    BY <1>1, <1>4, <1>5, <2>4
  <2> QED
    BY <1>1, <2>1, <2>2, <2>3, <2>4
<1> QED
  BY <1>4, <1>5, <1>6

(* The stores into the head only carry out what the table has shown.       *)
LEMMA LogStores ==
  ASSUME RoughInv, StoreRnum \/ StoreVnum \/ StoreOp
  PROVE  logTab' = logTab
<1>1. /\ rl \in [Slot -> cow_version]
      /\ ii = 0 /\ ii' = 0
      /\ entry \in [rnum : Int, op : Op]
      /\ ph \in {"rnum", "vnum", "op"}
      /\ Committed
  BY DEF RoughInv, TypeOK, StoreRnum, StoreVnum, StoreOp, Committed
<1>2. \A s \in Slot \ {0} : rl'[s] = rl[s]
  BY <1>1 DEF StoreRnum, StoreVnum, StoreOp
<1>3. logTab = [s \in Slot |-> IF s = 0 THEN LogHead ELSE rl[s]]
  BY <1>1 DEF logTab
<1>4. logTab' = [s \in Slot |-> IF s = 0 THEN LogHead ELSE rl'[s]]
  <2>1. CASE StoreRnum
    <3>1. LogHead' = LogHead
      BY <1>1, <2>1 DEF StoreRnum, LogHead, cow_version
    <3> QED
      BY <1>1, <2>1, <3>1 DEF StoreRnum, logTab, Committed
  <2>2. CASE StoreVnum
    <3>1. LogHead' = LogHead
      BY <1>1, <2>2 DEF StoreVnum, LogHead, cow_version
    <3> QED
      BY <1>1, <2>2, <3>1 DEF StoreVnum, logTab, Committed
  <2>3. CASE StoreOp
    <3>1. ph' \in {"idle", "off"} /\ ph = "op"
      BY <2>3 DEF StoreOp
    <3>2. logTab' = rl'
      BY <3>1 DEF logTab, Committed
    <3>3. rl' = [rl EXCEPT ![0].op = entry.op]
      BY <2>3 DEF StoreOp
    <3>4. rl'[0] = LogHead
      BY <1>1, <3>1, <3>3 DEF LogHead, RoughInv, Stored, cow_version
    <3>5. rl' = [s \in Slot |-> IF s = 0 THEN LogHead ELSE rl'[s]]
      BY <1>1, <3>3, <3>4
    <3> QED
      BY <3>2, <3>5
  <2> QED
    BY <2>1, <2>2, <2>3
<1> QED
  BY <1>2, <1>3, <1>4

(* Steps before the first store and between pushes leave the table alone.  *)
LEMMA LogQuiet ==
  ASSUME RoughInv,
         \/ \E r \in Rnum, op \in Op \ {NoOp} : AddRoot(r, op)
         \/ \E v \in Listed : SwapRoot(v)
         \/ Collected \/ Exit \/ Start \/ UNCHANGED vars
  PROVE  logTab' = logTab
<1>1. CASE UNCHANGED vars
  BY <1>1 DEF vars, logTab, LogHead, Committed
<1>2. CASE ~ UNCHANGED vars
  <2>1. rl' = rl /\ ~Committed /\ ~Committed'
    BY <1>2 DEF AddRoot, Full, SwapRoot, Collected, Exit, Start, Committed, RoughInv, TypeOK
  <2> QED
    BY <2>1 DEF logTab
<1> QED
  BY <1>1, <1>2

(* The second strengthening holds of a new image.                          *)
LEMMA SpecInit == Init => SpecInv
<1> SUFFICES ASSUME Init PROVE SpecInv
  OBVIOUS
<1>1. RoughInv
  BY RoughInit
<1>2. logTab = [s \in Slot |-> ZeroSlot]
  BY DEF Init, logTab, Committed
<1>3. LogNumbered /\ LogLabelled
  BY <1>2 DEF LogNumbered, LogLabelled, Numbered, ZeroSlot
<1>4. PendingOK /\ GcFull
  BY DEF Init, PendingOK, GcFull
<1> QED
  BY <1>1, <1>3, <1>4 DEF SpecInv

(* The values of the table, from those of the list.                        *)
LEMMA LogType ==
  ASSUME RoughInv, ~Committed
  PROVE  logTab \in [Slot -> cow_version] /\ logTab = rl
  BY DEF RoughInv, TypeOK, logTab

(* The first store: the pending version joins the table as its newest.     *)
LEMMA FirstShiftStep ==
  ASSUME SpecInv, FirstShift
  PROVE  LogNumbered' /\ LogLabelled' /\ Log!Next
<1>1. ~Committed /\ ph = "shift"
  BY DEF FirstShift, Shift, Committed
<1>2. RoughInv
  BY DEF SpecInv
<1>3. logTab = rl /\ rl \in [Slot -> cow_version]
  BY <1>1, <1>2, LogType
<1>4. logTab' = Log!Pushed(entry.rnum, entry.op)
  BY <1>2, LogPush
<1>5. logTab' = [p \in Slot |->
                  IF p = 0 THEN [rnum |-> entry.rnum,
                                 vnum |-> rl[0].vnum + 1,
                                 op   |-> entry.op]
                           ELSE rl[p - 1]]
  BY <1>3, <1>4 DEF Log!Pushed, Log!Place
<1>6. \A s \in Slot : rl[s].vnum \in Nat /\ rl[s].vnum = Numbered(s, rl[0].vnum)
  BY <1>3 DEF SpecInv, LogNumbered, cow_version
<1>7. PendingOK
  BY DEF SpecInv
<1>8. \/ entry.rnum \in Rnum /\ entry.op \in Op \ {NoOp}
      \/ \E p \in Slot : /\ rl[p].vnum > 0
                         /\ entry = [rnum |-> rl[p].rnum, op |-> rl[p].op]
  BY <1>1, <1>7 DEF PendingOK
<1>9. LogNumbered'
  <2> SUFFICES ASSUME NEW s \in Slot
               PROVE  logTab'[s].vnum = Numbered(s, logTab'[0].vnum)
    BY DEF LogNumbered
  <2>1. logTab'[0].vnum = rl[0].vnum + 1
    BY <1>5
  <2>2. CASE s = 0
    BY <1>6, <2>1, <2>2 DEF Numbered
  <2>3. CASE s # 0
    <3>1. logTab'[s].vnum = rl[s - 1].vnum
      BY <1>5, <2>3
    <3>2. rl[s - 1].vnum = Numbered(s - 1, rl[0].vnum)
      BY <1>6, <2>3
    <3> QED
      BY <1>6, <2>1, <2>3, <3>1, <3>2 DEF Numbered
  <2> QED
    BY <2>2, <2>3
<1>10. LogLabelled'
  <2>1. entry.op # NoOp
    BY <1>3, <1>8 DEF SpecInv, LogLabelled
  <2>2. \A s \in Slot : rl[s].vnum > 0 => rl[s].op # NoOp
    BY <1>3 DEF SpecInv, LogLabelled
  <2> SUFFICES ASSUME NEW s \in Slot, logTab'[s].vnum > 0
               PROVE  logTab'[s].op # NoOp
    BY DEF LogLabelled
  <2>3. CASE s = 0
    BY <1>5, <2>1, <2>3
  <2>4. CASE s # 0
    BY <1>5, <2>2, <2>4
  <2> QED
    BY <2>3, <2>4
<1>11. Log!Next
  <2>1. CASE entry.rnum \in Rnum /\ entry.op \in Op \ {NoOp}
    BY <1>4, <2>1 DEF Log!Next, Log!Commit
  <2>2. CASE \E p \in Slot : /\ rl[p].vnum > 0
                             /\ entry = [rnum |-> rl[p].rnum, op |-> rl[p].op]
    <3>1. PICK p \in Slot : /\ rl[p].vnum > 0
                            /\ entry = [rnum |-> rl[p].rnum, op |-> rl[p].op]
      BY <2>2
    <3>2. entry.rnum = logTab[p].rnum /\ entry.op = logTab[p].op
      BY <1>3, <3>1
    <3>3. Log!Rollback(p)
      BY <1>3, <1>4, <3>1, <3>2 DEF Log!Rollback
    <3> QED
      BY <3>3 DEF Log!Next, Log!Place
  <2> QED
    BY <1>8, <2>1, <2>2
<1> QED
  BY <1>9, <1>10, <1>11

(* Every step is a step of the table or leaves it alone.                   *)
LEMMA LogStep ==
  ASSUME SpecInv, [Next]_vars
  PROVE  \/ FirstShift
         \/ logTab' = logTab
<1>1. RoughInv
  BY DEF SpecInv
<1>2. CASE Push
  BY <1>1, <1>2, LogShift, LogStores, LogQuiet DEF Push, FirstShift
<1>3. CASE ~Push
  BY <1>1, <1>3, LogQuiet DEF Next
<1> QED
  BY <1>2, <1>3

(* What is being installed stays a new version or a listed one.            *)
LEMMA PendingStep ==
  ASSUME SpecInv, [Next]_vars
  PROVE  PendingOK' /\ GcFull'
<1>1. RoughInv /\ TypeOK
  BY DEF SpecInv, RoughInv
<1>2. ASSUME NEW r \in Rnum, NEW op \in Op \ {NoOp}, AddRoot(r, op)
      PROVE  PendingOK' /\ GcFull'
  BY <1>2 DEF AddRoot, Full, PendingOK, GcFull
<1>3. ASSUME NEW v \in Listed, SwapRoot(v)
      PROVE  PendingOK' /\ GcFull'
  <2>1. v \in Nat \ {0} /\ Matches(v) # {}
    BY <1>1 DEF Listed, Matches, TypeOK, cow_version
  <2>2. entry' = Found(v)
    BY <1>3, <2>1 DEF SwapRoot
  <2>3. PICK p \in Slot : /\ rl[p].vnum = v
                          /\ Found(v) = [rnum |-> rl[p].rnum, op |-> rl[p].op]
    BY <1>1, <2>1, FoundType
  <2>4. PendingOK'
    BY <1>3, <2>1, <2>2, <2>3 DEF SwapRoot, PendingOK
  <2>5. GcFull'
    BY <1>3 DEF SwapRoot, GcFull
  <2> QED
    BY <2>4, <2>5
<1>4. CASE Collected
  BY <1>1, <1>4 DEF Collected, SpecInv, PendingOK, GcFull, Committed, TypeOK
<1>5. CASE Shift
  BY <1>1, <1>5 DEF Shift, PendingOK, GcFull, Committed, TypeOK
<1>6. CASE StoreRnum \/ StoreVnum \/ StoreOp \/ Exit \/ Start
  BY <1>6 DEF StoreRnum, StoreVnum, StoreOp, Exit, Start, PendingOK, GcFull
<1>7. CASE UNCHANGED vars
  BY <1>7 DEF SpecInv, PendingOK, GcFull, Committed, vars
<1> QED
  BY <1>2, <1>3, <1>4, <1>5, <1>6, <1>7 DEF Next, Push

(* The second strengthening holds in every state without kills.            *)
LEMMA SpecInvariant == Spec => []SpecInv
<1>1. Init => SpecInv
  BY SpecInit
<1>2. SpecInv /\ [Next]_vars => SpecInv'
  <2> SUFFICES ASSUME SpecInv, [Next]_vars PROVE SpecInv'
    OBVIOUS
  <2>1. RoughInv'
    BY RoughStep DEF SpecInv, RoughNext
  <2>2. PendingOK' /\ GcFull'
    BY PendingStep
  <2>3. CASE FirstShift
    BY <2>1, <2>2, <2>3, FirstShiftStep DEF SpecInv
  <2>4. CASE logTab' = logTab
    BY <2>1, <2>2, <2>4 DEF SpecInv, LogNumbered, LogLabelled
  <2> QED
    BY <2>3, <2>4, LogStep
<1> QED
  BY <1>1, <1>2, PTL DEF Spec

(* Between pushes the version numbers count down by one from the head, so  *)
(* a number a user passes to rollback names one version at most.           *)
THEOREM ConsecutiveCorrect == Spec => []VnumsConsecutive
<1>1. SpecInv => VnumsConsecutive
  <2> SUFFICES ASSUME SpecInv, ph \in {"idle", "off", "gc"}
               PROVE  \A s \in Slot : rl[s].vnum = Numbered(s, rl[0].vnum)
    BY DEF VnumsConsecutive
  <2>1. logTab = rl
    BY LogType DEF SpecInv, Committed
  <2> QED
    BY <2>1 DEF SpecInv, LogNumbered
<1> QED
  BY <1>1, SpecInvariant, PTL

(* The garbage collector never splits the label of an unwritten slot.      *)
THEOREM GcLabelsCorrect == Spec => []GcLabelsWritten
<1>1. SpecInv => GcLabelsWritten
  <2> SUFFICES ASSUME SpecInv, ph = "gc"
               PROVE  rl[Last].op # NoOp /\ rl[Last - 1].op # NoOp
    BY DEF GcLabelsWritten
  <2>1. logTab = rl /\ rl \in [Slot -> cow_version]
    BY LogType DEF SpecInv, Committed
  <2>2. rl[0].vnum > Last /\ rl[0].vnum \in Nat
    BY <2>1 DEF SpecInv, GcFull, cow_version
  <2>3. \A s \in Slot : rl[s].vnum = Numbered(s, rl[0].vnum)
    BY <2>1 DEF SpecInv, LogNumbered
  <2>4. rl[Last].vnum > 0 /\ rl[Last - 1].vnum > 0
    BY <2>2, <2>3 DEF Numbered
  <2> QED
    BY <2>1, <2>4 DEF SpecInv, LogLabelled
<1> QED
  BY <1>1, SpecInvariant, PTL

(* The slot-by-slot list, whose stores another process could see half      *)
(* done, behaves like the table in which every commit and every rollback   *)
(* is one step, as long as no process is killed inside one.                *)
THEOREM RootListImplementsLog == Spec => ImplementsLog
<1>1. Init => Log!Init
  BY LogInit
<1>2. SpecInv /\ [Next]_vars => [Log!Next]_logTab
  BY LogStep, FirstShiftStep
<1> QED
  BY <1>1, <1>2, SpecInvariant, PTL DEF Spec, ImplementsLog, Log!Spec
=============================================================================
