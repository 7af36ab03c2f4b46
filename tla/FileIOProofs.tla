---------------------------- MODULE FileIOProofs ----------------------------
(***************************************************************************)
(* Proofs about FileIO, for every page size, number of blocks and set of   *)
(* byte values, and for every set of requests that the kernel can send:    *)
(* the loops stay within the file, and what they do to a file and answer   *)
(* of it, piece by piece, is what ByteFile does in one step.               *)
(***************************************************************************)
EXTENDS FileIO, TLAPS

(* A read or write that starts inside a page ends inside it: the loops     *)
(* advance the caller's buffer by whole pages.                             *)
OnePiece(off, n) == off % PAGE = 0 \/ (off % PAGE) + n <= PAGE

Sent(q) ==
    \/ /\ q.op = "read" /\ q.off \in Nat /\ q.n \in Nat
       /\ OnePiece(q.off, q.n)
    \/ /\ q.op = "write" /\ q.off \in Nat /\ q.bytes \in Seq(Byte)
       /\ q.off + Len(q.bytes) <= Capacity
       /\ OnePiece(q.off, Len(q.bytes))
    \/ /\ q.op = "truncate" /\ q.n \in 0 .. Capacity

(* The requests of the kernel: no read starts behind the end of the file.  *)
KernelRequests == ~PastEnd /\ \A q \in Requests : Sent(q)

Runs == [q : Requests \cup {NoRequest},
         curr : 0 .. Capacity, end : 0 .. Capacity, at : Nat]

\* Byte b of the file.
At(nd, b) == nd.page[b \div PAGE][b % PAGE]

\* The place in the buffer goes with the place in the file.
InStep ==
    /\ run.q.off <= run.curr
    /\ run.curr < run.end =>
          run.at = run.curr - run.q.off /\ OnePiece(run.curr, run.end - run.curr)

(* What is read so far are bytes of the file.                              *)
ReadSoFar ==
    /\ run.q.off <= node.size
    /\ run.end = min(run.q.off + run.q.n, node.size)
    /\ InStep
    /\ \A k \in 1 .. run.curr - run.q.off : buf[k] = At(node, run.q.off + k - 1)

(* What is written so far are bytes of the request; those before stay.     *)
WrittenSoFar ==
    /\ run.end = run.q.off + Len(run.q.bytes)
    /\ InStep
    /\ \A k \in 1 .. run.curr - run.q.off : At(cow, run.q.off + k - 1) = run.q.bytes[k]
    /\ \A b \in 0 .. min(run.q.off, node.size) - 1 : At(cow, b) = At(node, b)

(* What is cleared so far is zero; what both sizes have stays.             *)
ClearedSoFar ==
    /\ run.end = run.q.n
    /\ min(node.size, run.q.n) <= run.curr
    /\ \A b \in 0 .. min(node.size, run.q.n) - 1 : At(cow, b) = At(node, b)
    /\ \A b \in min(node.size, run.q.n) .. run.curr - 1 : At(cow, b) = 0

Inv ==
    /\ TypeOK
    /\ run \in Runs
    /\ run.curr <= run.end
    /\ run.q.op = "read" => ReadSoFar
    /\ run.q.op = "write" => WrittenSoFar
    /\ run.q.op = "truncate" => ClearedSoFar

-----------------------------------------------------------------------------
(* Arithmetic of pages.                                                    *)

(* A number is its page's first byte and its place in the page.            *)
LEMMA Split ==
  ASSUME NEW a \in Nat
  PROVE  /\ a \div PAGE \in Nat /\ a % PAGE \in 0 .. PAGE - 1
         /\ a = PAGE * (a \div PAGE) + (a % PAGE)
BY FileIOAssumption

(* The page and the place of a number that is written that way.            *)
LEMMA Joined ==
  ASSUME NEW q \in Nat, NEW r \in 0 .. PAGE - 1
  PROVE  (PAGE * q + r) \div PAGE = q /\ (PAGE * q + r) % PAGE = r
BY FileIOAssumption

(* The page after a page, and the pages that follow it.                    *)
LEMMA NextPage ==
  ASSUME NEW c \in Nat
  PROVE  /\ PAGE * (c + 1) = PAGE * c + PAGE
         /\ \A d \in Nat : c < d => PAGE * c + PAGE <= PAGE * d
<1>1. PAGE \in Nat \ {0}
  BY FileIOAssumption
<1>2. PAGE * (c + 1) = PAGE * c + PAGE
  BY <1>1
<1>3. ASSUME NEW d \in Nat, c < d
      PROVE  PAGE * (c + 1) <= PAGE * d
  <2>1. PICK k \in Nat : d = (c + 1) + k
    <3>1. d - (c + 1) \in Nat /\ d = (c + 1) + (d - (c + 1))
      BY <1>3
    <3> QED
      BY <3>1
  <2>2. PAGE * d = PAGE * (c + 1) + PAGE * k
    BY <1>1, <2>1
  <2>3. PAGE * k \in Nat /\ PAGE * (c + 1) \in Nat
    BY <1>1
  <2> QED
    BY <2>2, <2>3
<1> QED
  BY <1>2, <1>3

(* The file has whole pages.                                               *)
LEMMA Bounds ==
  /\ Capacity \in Nat
  /\ \A b \in 0 .. Capacity - 1 : b \div PAGE \in Block /\ b % PAGE \in 0 .. PAGE - 1
<1>1. Capacity \in Nat
  BY FileIOAssumption DEF Capacity
<1>2. ASSUME NEW b \in 0 .. Capacity - 1
      PROVE  b \div PAGE \in Block
  <2>1. /\ b \in Nat /\ b \div PAGE \in Nat /\ b % PAGE \in 0 .. PAGE - 1
        /\ b = PAGE * (b \div PAGE) + (b % PAGE)
    BY <1>1, Split
  <2>2. \A c \in Nat : c >= MaxBlocks => PAGE * c >= PAGE * MaxBlocks
    BY FileIOAssumption
  <2>3. PAGE * (b \div PAGE) < PAGE * MaxBlocks
    BY <1>1, <2>1, FileIOAssumption DEF Capacity
  <2> QED
    BY <2>1, <2>2, <2>3, FileIOAssumption DEF Block
<1> QED
  BY <1>1, <1>2, Split

(* Fewer bytes take no more pages, and a byte lies in the pages of a size  *)
(* above it.                                                               *)
LEMMA PagesCover ==
  ASSUME NEW n \in Nat, NEW b \in 0 .. n - 1
  PROVE  b \div PAGE < bytes_to_pages(n)
<1>1. /\ b \in Nat /\ b \div PAGE \in Nat /\ b % PAGE \in 0 .. PAGE - 1
      /\ b = PAGE * (b \div PAGE) + (b % PAGE)
  BY Split
<1>2. /\ n \div PAGE \in Nat /\ n % PAGE \in 0 .. PAGE - 1
      /\ n = PAGE * (n \div PAGE) + (n % PAGE)
  BY Split
<1>3. ASSUME NEW c \in Nat, NEW d \in Nat, c < d
      PROVE  PAGE * c + PAGE <= PAGE * d
  BY <1>3, NextPage
<1>4. ~(n \div PAGE < b \div PAGE)
  BY <1>1, <1>2, <1>3, FileIOAssumption
<1>5. n % PAGE = 0 => n \div PAGE # b \div PAGE
  <2> DEFINE x == n \div PAGE
             y == PAGE * x
  <2> SUFFICES ASSUME n % PAGE = 0, x = b \div PAGE PROVE FALSE
    OBVIOUS
  <2>1. y \in Nat
    BY <1>2, FileIOAssumption
  <2>2. n = y /\ b = y + (b % PAGE) /\ b % PAGE \in Nat
    BY <1>1, <1>2, <2>1
  <2> HIDE DEF y
  <2> QED
    BY <2>1, <2>2
<1> QED
  BY <1>1, <1>2, <1>4, <1>5 DEF bytes_to_pages

(* One iteration: it goes forward, within one page, up to the end of the   *)
(* page or of the request.                                                 *)
LEMMA PieceFacts ==
  ASSUME run \in Runs, run.curr < run.end
  PROVE  /\ Finish \in 0 .. Capacity /\ run.curr < Finish /\ Finish <= run.end
         /\ Size \in Nat \ {0} /\ First \in 0 .. PAGE - 1 /\ First + Size <= PAGE
         /\ Page \in Block
         /\ \A j \in 0 .. Size - 1 :
               (run.curr + j) \div PAGE = Page /\ (run.curr + j) % PAGE = First + j
         /\ Finish < run.end => Finish % PAGE = 0
         /\ First = 0 /\ Finish < run.end => Finish = run.curr + PAGE
         /\ First + (run.end - run.curr) <= PAGE => Finish = run.end
<1> DEFINE c == run.curr
           e == run.end
           q == c \div PAGE
           r == c % PAGE
<1>1. c \in Nat /\ e \in Nat /\ c < e /\ e <= Capacity /\ Capacity \in Nat /\ c \in 0 .. Capacity - 1
  BY Bounds DEF Runs
<1>2. q \in Nat /\ r \in 0 .. PAGE - 1 /\ c = PAGE * q + r
  BY <1>1, Split
<1>3. PAGE \in Nat \ {0}
  BY FileIOAssumption
<1>11. PICK y \in Nat : y = PAGE * q
  BY <1>2, <1>3
<1>12. PAGE * (q + 1) = y + PAGE /\ c = y + r
  BY <1>2, <1>11, NextPage
<1>4. (c + PAGE) % PAGE = r
  <2> HIDE DEF q, r, c
  <2>1. c + PAGE = PAGE * (q + 1) + r
    BY <1>2, <1>3, <1>11, <1>12
  <2>2. (PAGE * (q + 1) + r) % PAGE = r
    BY <1>2, Joined
  <2> QED
    BY <2>1, <2>2
<1>5. Finish = min(c + PAGE - r, e)
  BY <1>4 DEF Finish
<1>6. (c + PAGE - r) % PAGE = 0
  <2> HIDE DEF q, r, c
  <2>1. c + PAGE - r = PAGE * (q + 1) + 0
    BY <1>2, <1>3, <1>11, <1>12
  <2>2. (PAGE * (q + 1) + 0) % PAGE = 0
    BY <1>2, <1>3, Joined
  <2> QED
    BY <2>1, <2>2
<1>7. Page = q /\ First = r /\ Size = Finish - c
  BY DEF Page, First, Size
<1>8. Page \in Block
  BY <1>1, <1>7, Bounds
<1> HIDE DEF c, e, q, r
<1>9. /\ Finish \in 0 .. Capacity /\ c < Finish /\ Finish <= e
      /\ Size \in Nat \ {0} /\ First + Size <= PAGE
      /\ Finish < e => Finish % PAGE = 0
      /\ First = 0 /\ Finish < e => Finish = c + PAGE
      /\ First + (e - c) <= PAGE => Finish = e
  BY <1>1, <1>2, <1>3, <1>5, <1>6, <1>7 DEF min
<1>10. ASSUME NEW j \in 0 .. Size - 1
       PROVE  (c + j) \div PAGE = Page /\ (c + j) % PAGE = First + j
  <2>1. r + j \in 0 .. PAGE - 1 /\ c + j = PAGE * q + (r + j)
    BY <1>1, <1>2, <1>3, <1>7, <1>9
  <2> QED
    BY <1>2, <1>7, <2>1, Joined
<1> QED
  BY <1>2, <1>7, <1>8, <1>9, <1>10 DEF c, e

-----------------------------------------------------------------------------
(* What the operations on pages do to single bytes.                        *)

(* Growing and cutting keep the bytes that both sizes have.                *)
LEMMA ResizedKeeps ==
  ASSUME NEW nd \in inode, NEW n \in 0 .. Capacity
  PROVE  /\ Resized(nd, n) \in inode /\ Resized(nd, n).size = n
         /\ \A b \in 0 .. min(nd.size, n) - 1 : At(Resized(nd, n), b) = At(nd, b)
<1>1. StalePage \in Content
  BY FileIOAssumption DEF StalePage, Content
<1>2. Repaged(nd, n) \in [Block -> Content]
  BY <1>1 DEF Repaged, inode
<1>3. Resized(nd, n) \in inode /\ Resized(nd, n).size = n
  BY <1>2 DEF Resized, inode
<1>4. ASSUME NEW b \in 0 .. min(nd.size, n) - 1
      PROVE  At(Resized(nd, n), b) = At(nd, b)
  <2>1. min(nd.size, n) \in Nat /\ min(nd.size, n) <= n /\ n <= Capacity /\ n \in Nat
    BY Bounds DEF inode, min
  <2>2. b \in 0 .. Capacity - 1
    BY <2>1, Bounds
  <2>3. b \div PAGE \in Block /\ b \div PAGE < bytes_to_pages(min(nd.size, n))
    BY <2>1, <2>2, Bounds, PagesCover
  <2>4. Repaged(nd, n)[b \div PAGE] = nd.page[b \div PAGE]
    BY <2>3 DEF Repaged
  <2> QED
    BY <2>4 DEF At, Resized
<1> QED
  BY <1>3, <1>4

(* Two bytes of one page are as far apart as their places in it.           *)
LEMMA SamePage ==
  ASSUME NEW a \in Nat, NEW b \in Nat, a \div PAGE = b \div PAGE
  PROVE  b - a = (b % PAGE) - (a % PAGE)
<1> DEFINE x == a \div PAGE
<1>1. PICK y \in Nat : y = PAGE * x
  BY Split, FileIOAssumption
<1>2. a = y + (a % PAGE) /\ b = y + (b % PAGE)
  BY <1>1, Split
<1>3. a % PAGE \in 0 .. PAGE - 1 /\ b % PAGE \in 0 .. PAGE - 1 /\ PAGE \in Nat
  BY Split, FileIOAssumption
<1> QED
  BY <1>1, <1>2, <1>3

(* A byte lies in the piece if its page and its place there do.            *)
LEMMA InPiece ==
  ASSUME run \in Runs, run.curr < run.end, NEW b \in 0 .. Capacity - 1
  PROVE  b \in run.curr .. Finish - 1
            <=> b \div PAGE = Page /\ b % PAGE \in First .. First + Size - 1
<1>1. run.curr \in Nat /\ b \in Nat
  BY Bounds DEF Runs
<1>2. Finish \in Nat /\ Size = Finish - run.curr /\ Size \in Nat /\ First \in Nat
  BY PieceFacts DEF Size
<1>3. b % PAGE \in Nat
  BY <1>1, Split
<1>4. ASSUME b \in run.curr .. Finish - 1
      PROVE  b \div PAGE = Page /\ b % PAGE \in First .. First + Size - 1
  <2>1. b - run.curr \in 0 .. Size - 1 /\ b = run.curr + (b - run.curr)
    BY <1>1, <1>2, <1>4
  <2>2. b \div PAGE = Page /\ b % PAGE = First + (b - run.curr)
    BY <2>1, PieceFacts
  <2> QED
    BY <1>2, <2>1, <2>2
<1>5. ASSUME b \div PAGE = Page, b % PAGE \in First .. First + Size - 1
      PROVE  b \in run.curr .. Finish - 1
  <2>1. b - run.curr = (b % PAGE) - First
    BY <1>1, <1>5, SamePage DEF Page, First
  <2> QED
    BY <1>1, <1>2, <1>3, <1>5, <2>1
<1> QED
  BY <1>4, <1>5

(* An iteration stores its piece and nothing else.                         *)
LEMMA StoredPiece ==
  ASSUME TypeOK, run \in Runs, StorePiece,
         \A k \in Nat : Source(k) \in Byte
  PROVE  /\ cow' \in inode /\ cow'.size = cow.size
         /\ \A b \in 0 .. Capacity - 1 :
               At(cow', b) = IF b \in run.curr .. Finish - 1
                             THEN Source(run.at + (b - run.curr) + 1) ELSE At(cow, b)
<1>1. run.curr < run.end /\ cow \in inode /\ run.at \in Nat /\ run.curr \in Nat
  BY Bounds DEF StorePiece, Looping, TypeOK, Runs
<1>2. /\ Page \in Block /\ First \in Nat /\ Size \in Nat
      /\ First \in 0 .. PAGE - 1 /\ First + Size <= PAGE
  BY <1>1, PieceFacts
<1> DEFINE New == [x \in 0 .. PAGE - 1 |->
                      IF x \in First .. First + Size - 1
                      THEN Source(run.at + x - First + 1) ELSE cow.page[Page][x]]
<1>3. cow.page \in [Block -> Content] /\ cow.page[Page] \in Content
      /\ DOMAIN cow.page[Page] = 0 .. PAGE - 1
  BY <1>1, <1>2 DEF inode, Content
<1>4. cow' = [cow EXCEPT !.page = [@ EXCEPT ![Page] = New]]
  BY <1>3 DEF StorePiece
<1>5. New \in Content
  <2>1. ASSUME NEW x \in 0 .. PAGE - 1, x \in First .. First + Size - 1
        PROVE  run.at + x - First + 1 \in Nat
    BY <1>1, <1>2, <2>1
  <2>2. \A x \in 0 .. PAGE - 1 : cow.page[Page][x] \in Byte
    BY <1>3 DEF Content
  <2> QED
    BY <2>1, <2>2 DEF Content
<1> HIDE DEF New
<1>6. cow' \in inode /\ cow'.size = cow.size
      /\ cow'.page = [cow.page EXCEPT ![Page] = New]
  BY <1>1, <1>2, <1>3, <1>4, <1>5 DEF inode
<1>7. ASSUME NEW b \in 0 .. Capacity - 1
      PROVE  At(cow', b) = IF b \in run.curr .. Finish - 1
                           THEN Source(run.at + (b - run.curr) + 1) ELSE At(cow, b)
  <2>1. b \in Nat /\ b \div PAGE \in Block /\ b % PAGE \in 0 .. PAGE - 1
    BY Bounds
  <2>2. CASE b \div PAGE # Page
    <3>1. cow'.page[b \div PAGE] = cow.page[b \div PAGE]
      BY <1>3, <1>6, <2>1, <2>2
    <3> QED
      BY <1>1, <2>2, <3>1, InPiece DEF At
  <2>3. CASE b \div PAGE = Page
    <3>1. At(cow', b) = New[b % PAGE]
      BY <1>2, <1>3, <1>6, <2>3 DEF At
    <3>2. b \in run.curr .. Finish - 1 <=> b % PAGE \in First .. First + Size - 1
      BY <1>1, <2>3, InPiece
    <3>3. b - run.curr = (b % PAGE) - First
      BY <1>1, <2>1, <2>3, SamePage DEF Page, First
    <3>4. run.at + (b % PAGE) - First + 1 = run.at + (b - run.curr) + 1
      BY <1>1, <1>2, <2>1, <3>3
    <3>5. New[b % PAGE] = IF b % PAGE \in First .. First + Size - 1
                          THEN Source(run.at + (b % PAGE) - First + 1)
                          ELSE cow.page[Page][b % PAGE]
      BY <2>1 DEF New
    <3> QED
      BY <2>3, <3>1, <3>2, <3>4, <3>5 DEF At
  <2> QED
    BY <2>2, <2>3
<1> QED
  BY <1>6, <1>7

(* An iteration of a read puts its piece where the buffer stands.          *)
LEMMA ReadBytes ==
  ASSUME TypeOK, run \in Runs, ReadPiece
  PROVE  /\ buf' \in [1 .. Capacity -> Byte]
         /\ \A k \in 1 .. Capacity :
               buf'[k] = IF k - 1 - run.at \in 0 .. Size - 1
                         THEN At(node, run.curr + (k - 1 - run.at)) ELSE buf[k]
<1>1. run.curr < run.end /\ node \in inode /\ run.at \in Nat /\ run.curr \in Nat
  BY Bounds DEF ReadPiece, Looping, TypeOK, Runs
<1>2. /\ Page \in Block /\ First \in Nat /\ Size \in Nat
      /\ First \in 0 .. PAGE - 1 /\ First + Size <= PAGE
      /\ \A j \in 0 .. Size - 1 :
            (run.curr + j) \div PAGE = Page /\ (run.curr + j) % PAGE = First + j
  BY <1>1, PieceFacts
<1>3. Capacity \in Nat /\ PAGE \in Nat
  BY Bounds, FileIOAssumption
<1>4. ASSUME NEW k \in 1 .. Capacity
      PROVE  buf'[k] = IF k - 1 - run.at \in 0 .. Size - 1
                       THEN At(node, run.curr + (k - 1 - run.at)) ELSE buf[k]
  <2>1. buf'[k] = IF First + (k - 1 - run.at) \in First .. First + Size - 1
                  THEN node.page[Page][First + (k - 1 - run.at)] ELSE buf[k]
    BY DEF ReadPiece, TypeOK
  <2>2. First + (k - 1 - run.at) \in First .. First + Size - 1
            <=> k - 1 - run.at \in 0 .. Size - 1
    BY <1>1, <1>2, <1>3
  <2>3. k - 1 - run.at \in 0 .. Size - 1 =>
           node.page[Page][First + (k - 1 - run.at)] = At(node, run.curr + (k - 1 - run.at))
    BY <1>2 DEF At
  <2> QED
    BY <2>1, <2>2, <2>3
<1>5. \A k \in 1 .. Capacity : k - 1 - run.at \in 0 .. Size - 1 =>
         At(node, run.curr + (k - 1 - run.at)) \in Byte
  <2>1. \A j \in 0 .. Size - 1 : First + j \in 0 .. PAGE - 1
    BY <1>2, <1>3
  <2>2. \A x \in 0 .. PAGE - 1 : node.page[Page][x] \in Byte
    BY <1>1, <1>2 DEF inode, Content
  <2> QED
    BY <1>2, <2>1, <2>2 DEF At
<1>6. \A k \in 1 .. Capacity : buf[k] \in Byte
  BY DEF TypeOK
<1>7. \E f : buf' = [k \in 1 .. Capacity |-> f[k]]
  <2>1. DOMAIN buf = 1 .. Capacity
    BY DEF TypeOK
  <2>2. buf' = [k \in 1 .. Capacity |-> buf'[k]]
    BY <2>1 DEF ReadPiece
  <2> QED
    BY <2>2
<1> QED
  BY <1>4, <1>5, <1>6, <1>7

-----------------------------------------------------------------------------
(* The invariant.                                                          *)

(* A new file is empty, and no request is under way.                       *)
LEMMA FileInit == Init => Inv
<1> SUFFICES ASSUME Init PROVE Inv
  OBVIOUS
<1>1. StalePage \in Content /\ Stale \in Byte /\ Capacity \in Nat
  BY Bounds, FileIOAssumption DEF StalePage, Content
<1>2. node \in inode /\ cow \in inode
  BY <1>1 DEF Init, inode
<1>3. run = [q |-> NoRequest, curr |-> 0, end |-> 0, at |-> 0] /\ run.q.op = "idle"
  BY DEF Init, Idle, NoRequest
<1>4. run \in Runs
  BY <1>1, <1>3 DEF Runs
<1>5. buf \in [1 .. Capacity -> Byte]
  BY <1>1 DEF Init, Unused
<1>6. TypeOK
  BY <1>1, <1>2, <1>3, <1>4, <1>5 DEF TypeOK, Runs, Init
<1> QED
  BY <1>3, <1>4, <1>6 DEF Inv

(* A read begins with nothing read.                                        *)
LEMMA ReadBegins ==
  ASSUME Inv, KernelRequests, NEW q \in Requests, q.op = "read", StartRead(q), reply' = <<>>
  PROVE  Inv'
<1>1. /\ q.off \in Nat /\ q.n \in Nat /\ OnePiece(q.off, q.n)
      /\ q.off <= node.size /\ node.size \in 0 .. Capacity /\ Capacity \in Nat
  BY Bounds DEF KernelRequests, Sent, StartRead, Inv, TypeOK, inode
<1>2. q.off + Readable(q.off, q.n) = min(q.off + q.n, node.size)
  BY <1>1 DEF Readable, min
<1>3. PICK e : e = min(q.off + q.n, node.size)
  OBVIOUS
<1>4. /\ run' = [q |-> q, curr |-> q.off, end |-> e, at |-> 0]
      /\ UNCHANGED <<node, cow>> /\ buf' = Unused
  BY <1>2, <1>3 DEF StartRead
<1>5. e \in 0 .. Capacity /\ q.off <= e /\ e <= q.off + q.n
  BY <1>1, <1>3 DEF min
<1>6. run' \in Runs
  BY <1>1, <1>4, <1>5 DEF Runs
<1>7. buf' \in [1 .. Capacity -> Byte]
  BY <1>4, FileIOAssumption DEF Unused
<1>8. TypeOK'
  <2>1. run'.q.op = "read"
    BY <1>4
  <2> QED
    BY <1>4, <1>6, <1>7, <2>1 DEF Inv, TypeOK, Runs
<1>9. OnePiece(q.off, e - q.off)
  <2>1. e - q.off \in Nat /\ e - q.off <= q.n
    <3>1. \A o, n, x \in Nat : o <= x /\ x <= o + n => x - o \in Nat /\ x - o <= n
      OBVIOUS
    <3>2. e \in Nat
      BY <1>1, <1>5
    <3> QED
      BY <1>1, <1>5, <3>1, <3>2
  <2>2. q.off % PAGE \in Nat /\ PAGE \in Nat
    <3>1. q.off \in Nat
      BY <1>1
    <3>2. q.off % PAGE \in 0 .. PAGE - 1
      BY <3>1, Split
    <3>3. PAGE \in Nat
      BY FileIOAssumption
    <3> QED
      BY <3>2, <3>3
  <2>3. PICK r \in Nat : r = q.off % PAGE
    BY <2>2
  <2>4. r = 0 \/ r + q.n <= PAGE
    BY <1>1, <2>3 DEF OnePiece
  <2>5. r = 0 \/ r + (e - q.off) <= PAGE
    BY <1>1, <2>1, <2>2, <2>4
  <2> QED
    BY <2>3, <2>5 DEF OnePiece
<1>10. ReadSoFar'
  <2>1. /\ run'.q = q /\ run'.curr = q.off /\ run'.end = e /\ run'.at = 0 /\ node' = node
        /\ q.off - q.off = 0
    BY <1>1, <1>4
  <2>2. InStep'
    BY <1>1, <1>9, <2>1 DEF InStep
  <2>3. \A k \in 1 .. run'.curr - run'.q.off : FALSE
    BY <2>1
  <2> QED
    BY <1>1, <1>3, <2>1, <2>2, <2>3 DEF ReadSoFar
<1> QED
  BY <1>4, <1>5, <1>6, <1>8, <1>10 DEF Inv

(* A write begins with a copy that has the bytes of the file up to the     *)
(* offset.                                                                 *)
LEMMA WriteBegins ==
  ASSUME Inv, KernelRequests, NEW q \in Requests, q.op = "write", StartWrite(q), reply' = <<>>
  PROVE  Inv'
<1>1. /\ q.off \in Nat /\ q.bytes \in Seq(Byte) /\ OnePiece(q.off, Len(q.bytes))
      /\ Len(q.bytes) \in Nat /\ q.off + Len(q.bytes) <= Capacity
      /\ node \in inode /\ Capacity \in Nat
  BY Bounds DEF KernelRequests, Sent, Inv, TypeOK
<1>2. PICK e : e = q.off + Len(q.bytes)
  OBVIOUS
<1>3. /\ run' = [q |-> q, curr |-> q.off, end |-> e, at |-> 0]
      /\ UNCHANGED <<node, buf>> /\ cow' = Resized(node, e)
  BY <1>2 DEF StartWrite
<1>4. e \in 0 .. Capacity /\ q.off <= e /\ q.off \in 0 .. Capacity /\ e - q.off = Len(q.bytes)
  BY <1>1, <1>2
<1>5. run' \in Runs /\ run'.q.op = "write" /\ run'.q = q /\ run'.end = e
  BY <1>3, <1>4 DEF Runs
<1>6. /\ cow' \in inode /\ cow'.size = e
      /\ \A b \in 0 .. min(node.size, e) - 1 : At(cow', b) = At(node, b)
  BY <1>1, <1>3, <1>4, ResizedKeeps
<1>7. TypeOK'
  BY <1>3, <1>5, <1>6 DEF Inv, TypeOK, Runs
<1>8. \A b \in 0 .. min(q.off, node.size) - 1 : At(cow', b) = At(node, b)
  <2>1. node.size \in Nat
    BY <1>1 DEF inode
  <2>2. \A b \in 0 .. min(q.off, node.size) - 1 : b \in 0 .. min(node.size, e) - 1
    BY <1>1, <1>4, <2>1 DEF min
  <2> QED
    BY <1>6, <2>2
<1>9. WrittenSoFar'
  BY <1>1, <1>2, <1>3, <1>4, <1>8 DEF WrittenSoFar, InStep
<1> QED
  BY <1>3, <1>4, <1>5, <1>7, <1>9 DEF Inv

(* A truncate begins with a copy that has what both sizes have.            *)
LEMMA TruncateBegins ==
  ASSUME Inv, KernelRequests, NEW q \in Requests, q.op = "truncate", StartTruncate(q),
         reply' = <<>>
  PROVE  Inv'
<1>1. q.n \in 0 .. Capacity /\ node \in inode /\ Capacity \in Nat /\ node.size \in 0 .. Capacity
  BY Bounds DEF KernelRequests, Sent, Inv, TypeOK, inode
<1>2. PICK m : m = min(node.size, q.n)
  OBVIOUS
<1>3. /\ run' = [q |-> q, curr |-> m, end |-> q.n, at |-> 0]
      /\ UNCHANGED <<node, buf>> /\ cow' = Resized(node, q.n)
  BY <1>2 DEF StartTruncate, ZeroFrom
<1>4. m \in 0 .. Capacity /\ m <= q.n
  BY <1>1, <1>2 DEF min
<1>5. run' \in Runs /\ run'.q.op = "truncate" /\ run'.q = q /\ run'.end = q.n
  BY <1>1, <1>3, <1>4 DEF Runs
<1>6. /\ cow' \in inode /\ cow'.size = q.n
      /\ \A b \in 0 .. m - 1 : At(cow', b) = At(node, b)
  BY <1>1, <1>2, <1>3, ResizedKeeps
<1>7. TypeOK'
  BY <1>3, <1>5, <1>6 DEF Inv, TypeOK, Runs
<1>8. ClearedSoFar'
  <2>1. run'.curr = m /\ node' = node /\ min(node'.size, run'.q.n) = m
    BY <1>2, <1>3
  <2>2. \A b \in m .. m - 1 : At(cow', b) = 0
    BY <1>4
  <2>3. m <= m
    BY <1>4
  <2> QED
    BY <1>5, <1>6, <2>1, <2>2, <2>3 DEF ClearedSoFar
<1> QED
  BY <1>3, <1>4, <1>5, <1>7, <1>8 DEF Inv

(* An iteration leaves the loop in bounds, and in step with the buffer.    *)
LEMMA Advanced ==
  ASSUME run \in Runs, run.curr < run.end, Advance
  PROVE  /\ run' \in Runs /\ run'.q = run.q /\ run'.end = run.end
         /\ run'.curr = Finish /\ run'.curr <= run'.end
         /\ run.q.off \in Nat /\ InStep => InStep'
<1>1. /\ run.curr \in Nat /\ run.end \in 0 .. Capacity /\ run.at \in Nat
      /\ PAGE \in Nat /\ Capacity \in Nat
  BY Bounds, FileIOAssumption DEF Runs
<1>2. /\ Finish \in 0 .. Capacity /\ run.curr < Finish /\ Finish <= run.end
      /\ Finish < run.end => Finish % PAGE = 0
      /\ First = 0 /\ Finish < run.end => Finish = run.curr + PAGE
      /\ First + (run.end - run.curr) <= PAGE => Finish = run.end
  BY PieceFacts
<1>3. run.at + PAGE \in Nat
  BY <1>1
<1>4. /\ run' \in Runs /\ run'.q = run.q /\ run'.end = run.end
      /\ run'.curr = Finish /\ run'.at = run.at + PAGE
  BY <1>2, <1>3 DEF Advance, Runs
<1>5. ASSUME run.q.off \in Nat, InStep
      PROVE  InStep'
  <2>1. run.q.off <= run.curr /\ run.at = run.curr - run.q.off
        /\ (First = 0 \/ First + (run.end - run.curr) <= PAGE)
    BY <1>5 DEF InStep, OnePiece, First
  <2>2. run'.q.off <= run'.curr
    BY <1>1, <1>2, <1>4, <1>5, <2>1
  <2>3. ASSUME Finish < run.end
        PROVE  run'.at = run'.curr - run'.q.off /\ OnePiece(run'.curr, run'.end - run'.curr)
    <3>1. Finish = run.curr + PAGE /\ Finish % PAGE = 0
      BY <1>1, <1>2, <2>1, <2>3
    <3>2. run.at + PAGE = Finish - run.q.off
      BY <1>1, <1>5, <2>1, <3>1
    <3> QED
      BY <1>4, <3>1, <3>2 DEF OnePiece
  <2> QED
    BY <1>4, <2>2, <2>3 DEF InStep
<1> QED
  BY <1>2, <1>4, <1>5

(* The requests served are of the kernel's.                                *)
LEMMA Serving ==
  ASSUME Inv, KernelRequests, run.q.op # "idle"
  PROVE  run.q \in Requests /\ Sent(run.q)
BY DEF Inv, TypeOK, NoRequest, KernelRequests

(* A piece is read.                                                        *)
LEMMA ReadStep ==
  ASSUME Inv, KernelRequests, ReadPiece
  PROVE  Inv'
<1>1. /\ run \in Runs /\ run.curr < run.end /\ run.q.op = "read" /\ TypeOK /\ ReadSoFar
      /\ Advance /\ UNCHANGED <<node, cow, reply>> /\ Capacity \in Nat
  BY Bounds DEF ReadPiece, Looping, Inv
<1>2. run.q.off \in Nat /\ run.q.n \in Nat
  BY <1>1, Serving DEF Sent
<1>3. /\ run' \in Runs /\ run'.q = run.q /\ run'.end = run.end
      /\ run'.curr = Finish /\ run'.curr <= run'.end /\ InStep'
  BY <1>1, <1>2, Advanced DEF ReadSoFar
<1>4. /\ buf' \in [1 .. Capacity -> Byte]
      /\ \A k \in 1 .. Capacity :
            buf'[k] = IF k - 1 - run.at \in 0 .. Size - 1
                      THEN At(node, run.curr + (k - 1 - run.at)) ELSE buf[k]
  BY <1>1, ReadBytes
<1>5. TypeOK'
  BY <1>1, <1>3, <1>4 DEF TypeOK, Runs
<1>6. /\ run.curr \in Nat /\ Finish \in 0 .. Capacity /\ Size = Finish - run.curr
      /\ run.curr < Finish
      /\ run.q.off <= run.curr /\ run.at = run.curr - run.q.off
  BY <1>1, PieceFacts DEF Runs, Size, ReadSoFar, InStep
<1>7. ASSUME NEW k \in 1 .. run'.curr - run'.q.off
      PROVE  buf'[k] = At(node', run'.q.off + k - 1)
  <2>1. k \in 1 .. Capacity /\ k \in Nat
    BY <1>1, <1>2, <1>3, <1>6
  <2>2. CASE k <= run.curr - run.q.off
    <3>1. k \in 1 .. run.curr - run.q.off /\ ~(k - 1 - run.at \in 0 .. Size - 1)
      BY <1>2, <1>6, <2>1, <2>2
    <3> QED
      BY <1>1, <1>3, <1>4, <2>1, <3>1 DEF ReadSoFar
  <2>3. CASE k > run.curr - run.q.off
    <3>1. /\ k - 1 - run.at \in 0 .. Size - 1
          /\ run.curr + (k - 1 - run.at) = run.q.off + k - 1
      BY <1>2, <1>3, <1>6, <2>1, <2>3
    <3> QED
      BY <1>1, <1>3, <1>4, <2>1, <3>1
  <2> QED
    BY <1>2, <1>6, <2>1, <2>2, <2>3
<1>8. ReadSoFar'
  BY <1>1, <1>3, <1>7 DEF ReadSoFar
<1> QED
  BY <1>1, <1>3, <1>5, <1>8 DEF Inv

(* Behind a request's bytes lies some byte.                                *)
LEMMA SourceByte ==
  ASSUME Inv, KernelRequests, run.q.op \in {"write", "truncate"}
  PROVE  \A k \in Nat : Source(k) \in Byte
<1>1. 0 \in Byte /\ Stale \in Byte
  BY FileIOAssumption
<1>2. CASE run.q.op = "truncate"
  BY <1>1, <1>2 DEF Source
<1>3. CASE run.q.op = "write"
  <2>1. run.q.bytes \in Seq(Byte)
    BY <1>3, Serving DEF Sent
  <2>2. \A k \in DOMAIN run.q.bytes : run.q.bytes[k] \in Byte
    BY <2>1
  <2> QED
    BY <1>1, <1>3, <2>2 DEF Source
<1> QED
  BY <1>2, <1>3

(* A piece of a write is stored.                                           *)
LEMMA WriteStep ==
  ASSUME Inv, KernelRequests, StorePiece, run.q.op = "write"
  PROVE  Inv'
<1>1. /\ run \in Runs /\ run.curr < run.end /\ TypeOK /\ WrittenSoFar
      /\ Advance /\ UNCHANGED <<node, buf, reply>> /\ Capacity \in Nat
      /\ node.size \in Nat
  BY Bounds DEF StorePiece, Looping, Inv, TypeOK, inode
<1>2. run.q.off \in Nat /\ run.q.bytes \in Seq(Byte) /\ Len(run.q.bytes) \in Nat
  BY Serving DEF Sent
<1>3. /\ run' \in Runs /\ run'.q = run.q /\ run'.end = run.end
      /\ run'.curr = Finish /\ run'.curr <= run'.end /\ InStep'
  BY <1>1, <1>2, Advanced DEF WrittenSoFar
<1>4. /\ cow' \in inode /\ cow'.size = cow.size
      /\ \A b \in 0 .. Capacity - 1 :
            At(cow', b) = IF b \in run.curr .. Finish - 1
                          THEN Source(run.at + (b - run.curr) + 1) ELSE At(cow, b)
  BY <1>1, SourceByte, StoredPiece
<1>5. TypeOK'
  BY <1>1, <1>3, <1>4 DEF TypeOK, Runs
<1>6. /\ run.curr \in Nat /\ Finish \in 0 .. Capacity
      /\ run.curr < Finish /\ Finish <= run.end
      /\ run.q.off <= run.curr /\ run.at = run.curr - run.q.off
      /\ run.end = run.q.off + Len(run.q.bytes)
  BY <1>1, PieceFacts DEF Runs, WrittenSoFar, InStep
<1>7. ASSUME NEW k \in 1 .. run'.curr - run'.q.off
      PROVE  At(cow', run'.q.off + k - 1) = run'.q.bytes[k]
  <2>1. run.q.off + k - 1 \in 0 .. Capacity - 1 /\ k \in 1 .. Len(run.q.bytes)
    <3>1. \A c, o, f, l \in Nat : \A i \in 1 .. f - o :
             f <= o + l /\ f <= c => o + i - 1 \in 0 .. c - 1 /\ i \in 1 .. l
      OBVIOUS
    <3>2. k \in 1 .. Finish - run.q.off /\ Finish <= run.q.off + Len(run.q.bytes)
          /\ Finish \in Nat /\ Finish <= Capacity
      BY <1>1, <1>3, <1>6
    <3> QED
      BY <1>1, <1>2, <3>1, <3>2
  <2>2. CASE k <= run.curr - run.q.off
    <3>1. k \in 1 .. run.curr - run.q.off /\ ~(run.q.off + k - 1 \in run.curr .. Finish - 1)
      BY <1>2, <1>3, <1>6, <2>1, <2>2
    <3> QED
      BY <1>1, <1>3, <1>4, <2>1, <3>1 DEF WrittenSoFar
  <2>3. CASE k > run.curr - run.q.off
    <3>1. Source(k) = run.q.bytes[k]
      BY <2>1 DEF Source
    <3> DEFINE b == run.q.off + k - 1
    <3>2. b \in run.curr .. Finish - 1 /\ run.at + (b - run.curr) + 1 = k
      <4>1. \A c, o, f, i \in Nat :
               o <= c /\ i > c - o /\ i <= f - o =>
                  o + i - 1 \in c .. f - 1 /\ (c - o) + (o + i - 1 - c) + 1 = i
        OBVIOUS
      <4>2. Finish \in Nat /\ k \in Nat /\ k <= Finish - run.q.off
        BY <1>2, <1>3, <1>6
      <4> QED
        BY <1>2, <1>6, <2>3, <4>1, <4>2
    <3>3. b \in 0 .. Capacity - 1
      BY <2>1
    <3>4. At(cow', b) = Source(k)
      <4> HIDE DEF b
      <4>1. At(cow', b) = Source(run.at + (b - run.curr) + 1)
        BY <1>4, <3>2, <3>3, Zenon
      <4> QED
        BY <3>2, <4>1, Zenon
    <3> QED
      BY <1>3, <3>1, <3>4
  <2> QED
    BY <1>2, <1>6, <2>1, <2>2, <2>3
<1>8. ASSUME NEW b \in 0 .. min(run.q.off, node.size) - 1
      PROVE  At(cow', b) = At(node, b)
  <2>1. b \in 0 .. Capacity - 1 /\ ~(b \in run.curr .. Finish - 1)
    <3>1. min(run.q.off, node.size) \in Nat /\ min(run.q.off, node.size) <= run.q.off
      BY <1>1, <1>2 DEF min
    <3>2. b \in Nat /\ b < run.q.off
      BY <1>2, <3>1
    <3> QED
      BY <1>1, <1>2, <1>6, <3>2
  <2> QED
    BY <1>1, <1>4, <2>1 DEF WrittenSoFar
<1>9. WrittenSoFar'
  BY <1>1, <1>3, <1>6, <1>7, <1>8 DEF WrittenSoFar
<1> QED
  BY <1>1, <1>3, <1>5, <1>9 DEF Inv

(* A piece of a truncate is cleared.                                       *)
LEMMA ClearStep ==
  ASSUME Inv, KernelRequests, StorePiece, run.q.op = "truncate"
  PROVE  Inv'
<1> DEFINE m == min(node.size, run.q.n)
<1>1. /\ run \in Runs /\ run.curr < run.end /\ TypeOK /\ ClearedSoFar
      /\ Advance /\ UNCHANGED <<node, buf, reply>> /\ Capacity \in Nat
      /\ node.size \in Nat
  BY Bounds DEF StorePiece, Looping, Inv, TypeOK, inode
<1>2. run.q.n \in 0 .. Capacity
  BY Serving DEF Sent
<1>3. /\ run' \in Runs /\ run'.q = run.q /\ run'.end = run.end
      /\ run'.curr = Finish /\ run'.curr <= run'.end
  BY <1>1, Advanced
<1>4. /\ cow' \in inode /\ cow'.size = cow.size
      /\ \A b \in 0 .. Capacity - 1 :
            At(cow', b) = IF b \in run.curr .. Finish - 1
                          THEN Source(run.at + (b - run.curr) + 1) ELSE At(cow, b)
  BY <1>1, SourceByte, StoredPiece
<1>5. TypeOK'
  BY <1>1, <1>3, <1>4 DEF TypeOK, Runs
<1>6. /\ run.curr \in Nat /\ Finish \in 0 .. Capacity /\ run.curr < Finish
      /\ m <= run.curr /\ m \in Nat
  BY <1>1, <1>2, PieceFacts DEF Runs, ClearedSoFar, min
<1>7. node' = node /\ min(node'.size, run'.q.n) = m
  BY <1>1, <1>3
<1> HIDE DEF m
<1>8. ASSUME NEW b \in 0 .. m - 1
      PROVE  At(cow', b) = At(node, b)
  <2>1. b \in 0 .. Capacity - 1 /\ ~(b \in run.curr .. Finish - 1)
    BY <1>1, <1>6
  <2> QED
    BY <1>1, <1>4, <2>1 DEF ClearedSoFar, m
<1>9. ASSUME NEW b \in m .. Finish - 1
      PROVE  At(cow', b) = 0
  <2>1. b \in 0 .. Capacity - 1
    BY <1>1, <1>6
  <2>2. Source(run.at + (b - run.curr) + 1) = 0
    BY DEF Source
  <2>3. b \in run.curr .. Finish - 1 \/ b \in m .. run.curr - 1
    BY <1>6
  <2> QED
    BY <1>1, <1>4, <2>1, <2>2, <2>3 DEF ClearedSoFar, m
<1>10. ClearedSoFar'
  <2>1. run'.end = run'.q.n /\ m <= run'.curr
    BY <1>1, <1>3, <1>6 DEF ClearedSoFar
  <2> QED
    BY <1>3, <1>7, <1>8, <1>9, <2>1 DEF ClearedSoFar
<1> QED
  BY <1>1, <1>3, <1>5, <1>10 DEF Inv

\* What ends a loop leaves nothing under way.
LEMMA NothingUnderWay ==
  ASSUME TypeOK', run' = Idle
  PROVE  Inv'
<1>1. run' = [q |-> NoRequest, curr |-> 0, end |-> 0, at |-> 0] /\ run'.q.op = "idle"
  BY DEF Idle, NoRequest
<1>2. run' \in Runs /\ run'.curr <= run'.end
  BY <1>1, Bounds DEF Runs
<1> QED
  BY <1>1, <1>2 DEF Inv

(* The bytes a read has collected when it is done.                         *)
LEMMA ReadDone ==
  ASSUME Inv, KernelRequests, EndRead
  PROVE  /\ run.q \in Requests /\ run.q.op = "read"
         /\ run.q.off \in Nat /\ run.q.n \in Nat /\ run.q.off <= node.size
         /\ run.end = min(run.q.off + run.q.n, node.size)
         /\ run.end - run.q.off \in 0 .. Capacity
         /\ \A k \in 1 .. run.end - run.q.off : buf[k] = At(node, run.q.off + k - 1)
<1>1. /\ run.q.op = "read" /\ ReadSoFar /\ run.curr = run.end
      /\ run.curr \in 0 .. Capacity /\ run.end \in 0 .. Capacity /\ Capacity \in Nat
  BY Bounds DEF EndRead, Done, Inv, Runs
<1>2. run.q.off \in Nat /\ run.q.n \in Nat /\ run.q \in Requests
  BY <1>1, Serving DEF Sent
<1> QED
  BY <1>1, <1>2 DEF ReadSoFar, InStep

(* A read returns.                                                         *)
LEMMA ReadEnds ==
  ASSUME Inv, KernelRequests, EndRead
  PROVE  Inv'
<1>1. /\ run' = Idle /\ buf' = Unused /\ UNCHANGED <<node, cow>>
      /\ reply' = SubSeq(buf, 1, run.end - run.q.off) /\ TypeOK
  BY DEF EndRead, Inv
<1>2. run.end - run.q.off \in 0 .. Capacity /\ Capacity \in Nat
  BY ReadDone, Bounds
<1>3. \A n \in 0 .. Capacity : SubSeq(buf, 1, n) \in Seq(Byte)
  <2>1. buf \in Seq(Byte) /\ Len(buf) = Capacity
    BY <1>1, <1>2 DEF TypeOK
  <2> QED
    BY <1>2, <2>1
<1>4. buf' \in [1 .. Capacity -> Byte]
  BY <1>1, FileIOAssumption DEF Unused
<1>5. run'.q.op = "idle" /\ run'.curr = 0 /\ run'.end = 0 /\ run'.at = 0
      /\ run'.q = NoRequest
  BY <1>1 DEF Idle, NoRequest
<1>6. TypeOK'
  BY <1>1, <1>2, <1>3, <1>4, <1>5 DEF TypeOK
<1> QED
  BY <1>1, <1>6, NothingUnderWay

(* A copy becomes the file.                                                *)
LEMMA CommitEnds ==
  ASSUME Inv, Commit
  PROVE  Inv'
<1>1. /\ run' = Idle /\ node' = cow /\ UNCHANGED <<cow, buf, reply>> /\ TypeOK
      /\ Capacity \in Nat
  BY Bounds DEF Commit, Inv
<1>2. run'.q.op = "idle" /\ run'.curr = 0 /\ run'.end = 0 /\ run'.at = 0
      /\ run'.q = NoRequest
  BY <1>1 DEF Idle, NoRequest
<1>3. TypeOK'
  BY <1>1, <1>2 DEF TypeOK
<1> QED
  BY <1>1, <1>3, NothingUnderWay

(* Every step keeps the invariant.                                         *)
LEMMA FileStep ==
  ASSUME KernelRequests
  PROVE  Inv /\ [Next]_vars => Inv'
<1> SUFFICES ASSUME Inv, [Next]_vars PROVE Inv'
  OBVIOUS
<1>1. CASE UNCHANGED vars
  <2>1. UNCHANGED <<node, cow, run, buf, reply>>
    BY <1>1 DEF vars
  <2> QED
    BY <2>1 DEF Inv, TypeOK, ReadSoFar, WrittenSoFar, ClearedSoFar, InStep
<1>2. CASE \E q \in Requests : Start(q)
  <2>1. PICK q \in Requests : Start(q)
    BY <1>2
  <2> QED
    BY <2>1, ReadBegins, WriteBegins, TruncateBegins DEF Start
<1>3. CASE Step
  <2>1. ASSUME StorePiece PROVE Inv'
    BY <2>1, WriteStep, ClearStep DEF StorePiece
  <2> QED
    BY <1>3, <2>1, ReadStep, ReadEnds, CommitEnds DEF Step
<1> QED
  BY <1>1, <1>2, <1>3 DEF Next

(* The variables keep their types, and no loop leaves the file: the copy   *)
(* has the size asked for, and a piece lies within the pages of the file   *)
(* and the buffer.                                                         *)
THEOREM FileTypes ==
  ASSUME KernelRequests
  PROVE  Spec => []TypeOK
<1>1. Init => Inv
  BY FileInit
<1>2. Inv /\ [Next]_vars => Inv'
  BY FileStep
<1>3. Inv => TypeOK
  BY DEF Inv
<1> QED
  BY <1>1, <1>2, <1>3, PTL DEF Spec

-----------------------------------------------------------------------------
(* The refinement.                                                         *)

(* The bytes of an inode as a sequence.                                    *)
LEMMA BytesFacts ==
  ASSUME NEW nd \in inode
  PROVE  /\ nd.size \in Nat /\ Bytes(nd) \in [1 .. nd.size -> Byte]
         /\ Bytes(nd) \in Seq(Byte) /\ Len(Bytes(nd)) = nd.size
         /\ \A k \in 1 .. nd.size : Bytes(nd)[k] = At(nd, k - 1)
<1>1. nd.size \in Nat /\ nd.size <= Capacity /\ Capacity \in Nat
  BY Bounds DEF inode
<1>2. \A k \in 1 .. nd.size : At(nd, k - 1) \in Byte
  <2> TAKE k \in 1 .. nd.size
  <2>1. k - 1 \in 0 .. Capacity - 1
    BY <1>1
  <2>2. (k - 1) \div PAGE \in Block /\ (k - 1) % PAGE \in 0 .. PAGE - 1
    BY <2>1, Bounds
  <2> QED
    BY <2>2 DEF At, inode, Content
<1>3. Bytes(nd) = [k \in 1 .. nd.size |-> At(nd, k - 1)]
  BY DEF Bytes, At
<1>4. Bytes(nd) \in [1 .. nd.size -> Byte]
  BY <1>2, <1>3
<1>5. Bytes(nd) \in Seq(Byte) /\ Len(Bytes(nd)) = nd.size
  BY <1>1, <1>4
<1> QED
  BY <1>1, <1>3, <1>4, <1>5

(* What a read returns are the bytes from the offset on, as many as asked  *)
(* for or as there are.                                                    *)
LEMMA ReadMaps ==
  ASSUME Inv, KernelRequests, EndRead
  PROVE  Abstract!Read(run.q.off, run.q.n)
<1> DEFINE o == run.q.off
           e == run.end
           B == Bytes(node)
<1>1. /\ o \in Nat /\ run.q.n \in Nat /\ o <= node.size
      /\ e = min(o + run.q.n, node.size) /\ e - o \in 0 .. Capacity
      /\ \A k \in 1 .. e - o : buf[k] = At(node, o + k - 1)
  BY ReadDone
<1>2. /\ node' = node /\ reply' = SubSeq(buf, 1, e - o)
      /\ node \in inode /\ buf \in [1 .. Capacity -> Byte] /\ Capacity \in Nat
  BY Bounds DEF EndRead, Inv, TypeOK
<1>3. /\ node.size \in Nat /\ B \in Seq(Byte) /\ Len(B) = node.size
      /\ \A k \in 1 .. node.size : B[k] = At(node, k - 1)
  BY <1>2, BytesFacts
<1>4. e \in Nat /\ o <= e /\ e <= node.size
  BY <1>1, <1>3 DEF min
<1>5. Abstract!Lower(o + run.q.n, Len(B)) = e
  BY <1>1, <1>3 DEF Abstract!Lower, min
<1> HIDE DEF o, e, B
<1>6. SubSeq(buf, 1, e - o) = [k \in 1 .. e - o |-> At(node, o + k - 1)]
  <2>1. buf \in Seq(Byte) /\ Len(buf) = Capacity
    BY <1>2
  <2>2. SubSeq(buf, 1, e - o) = [k \in 1 .. e - o |-> buf[k]]
    BY <1>1, <1>2, <1>4, <2>1
  <2> QED
    BY <1>1, <2>2
<1>7. SubSeq(B, o + 1, e) = [k \in 1 .. e - o |-> At(node, o + k - 1)]
  <2>1. SubSeq(B, o + 1, e) = [k \in 1 .. e - o |-> B[o + k]]
    BY <1>1, <1>3, <1>4
  <2>2. \A k \in 1 .. e - o : o + k \in 1 .. node.size /\ (o + k) - 1 = o + k - 1
    BY <1>1, <1>3, <1>4
  <2> QED
    BY <1>3, <2>1, <2>2
<1>8. reply' = SubSeq(B, o + 1, e) /\ B' = B
  BY <1>2, <1>6, <1>7 DEF B
<1> QED
  BY <1>5, <1>8 DEF Abstract!Read, B, o

(* A write that commits has put its bytes at the offset and left those     *)
(* before it.                                                              *)
LEMMA WriteMaps ==
  ASSUME Inv, KernelRequests, Commit, run.q.op = "write"
  PROVE  Abstract!Write(run.q.off, run.q.bytes)
<1> DEFINE o == run.q.off
           t == run.q.bytes
<1>1. /\ WrittenSoFar /\ run.curr = run.end /\ run.curr \in 0 .. Capacity
      /\ run.end \in 0 .. Capacity /\ cow.size = run.end
      /\ node \in inode /\ cow \in inode /\ node' = cow /\ reply' = reply /\ Capacity \in Nat
  BY Bounds DEF Commit, Done, Inv, Runs, TypeOK
<1>2. o \in Nat /\ t \in Seq(Byte) /\ Len(t) \in Nat /\ DOMAIN t = 1 .. Len(t)
  BY Serving DEF Sent
<1>3. /\ node.size \in Nat /\ Len(Bytes(node)) = node.size
      /\ \A k \in 1 .. node.size : Bytes(node)[k] = At(node, k - 1)
  BY <1>1, BytesFacts
<1>4. /\ cow.size \in Nat /\ Len(Bytes(cow)) = cow.size
      /\ \A k \in 1 .. cow.size : Bytes(cow)[k] = At(cow, k - 1)
  BY <1>1, BytesFacts
<1>5. cow.size = o + Len(t) /\ run.curr - o = Len(t)
  BY <1>1, <1>2 DEF WrittenSoFar
<1>6. \A k \in 1 .. Len(t) : Bytes(cow)[o + k] = t[k]
  <2> TAKE k \in 1 .. Len(t)
  <2>1. At(cow, o + k - 1) = t[k]
    BY <1>1, <1>5 DEF WrittenSoFar
  <2>2. o + k \in 1 .. cow.size /\ (o + k) - 1 = o + k - 1
    BY <1>2, <1>5
  <2> QED
    BY <1>4, <2>1, <2>2
<1>7. \A k \in 1 .. min(o, node.size) : Bytes(cow)[k] = Bytes(node)[k]
  <2> TAKE k \in 1 .. min(o, node.size)
  <2>1. k \in 1 .. node.size /\ k \in 1 .. cow.size /\ k - 1 \in 0 .. min(o, node.size) - 1
    BY <1>2, <1>3, <1>5 DEF min
  <2>2. At(cow, k - 1) = At(node, k - 1)
    BY <1>1, <2>1 DEF WrittenSoFar
  <2> QED
    BY <1>3, <1>4, <2>1, <2>2
<1>8. Bytes(node)' = Bytes(cow)
  BY <1>1 DEF Bytes
<1>9. Abstract!Lower(o, Len(Bytes(node))) = min(o, node.size)
  BY <1>3 DEF Abstract!Lower, min
<1> QED
  BY <1>1, <1>2, <1>4, <1>5, <1>6, <1>7, <1>8, <1>9 DEF Abstract!Write

(* A truncate that commits has kept what both sizes have and zeros behind  *)
(* it.                                                                     *)
LEMMA TruncateMaps ==
  ASSUME Inv, KernelRequests, Commit, run.q.op = "truncate"
  PROVE  Abstract!Truncate(run.q.n)
<1> DEFINE n == run.q.n
           m == min(node.size, n)
<1>1. /\ ClearedSoFar /\ run.curr = run.end /\ run.curr \in 0 .. Capacity
      /\ run.end \in 0 .. Capacity /\ cow.size = run.end
      /\ node \in inode /\ cow \in inode /\ node' = cow /\ reply' = reply /\ Capacity \in Nat
  BY Bounds DEF Commit, Done, Inv, Runs, TypeOK
<1>2. n \in Nat /\ cow.size = n /\ run.curr = n
  BY <1>1 DEF ClearedSoFar
<1>3. /\ node.size \in Nat /\ Len(Bytes(node)) = node.size
      /\ \A k \in 1 .. node.size : Bytes(node)[k] = At(node, k - 1)
  BY <1>1, BytesFacts
<1>4. Bytes(cow) = [k \in 1 .. n |-> At(cow, k - 1)]
  BY <1>1, <1>2, BytesFacts
<1>5. \A k \in 1 .. n : At(cow, k - 1) = IF k <= node.size THEN Bytes(node)[k] ELSE 0
  <2> TAKE k \in 1 .. n
  <2>1. CASE k <= node.size
    <3>1. k \in 1 .. node.size /\ k - 1 \in 0 .. m - 1
      BY <1>2, <1>3, <2>1 DEF min
    <3>2. At(cow, k - 1) = At(node, k - 1)
      BY <1>1, <3>1 DEF ClearedSoFar
    <3> QED
      BY <1>3, <2>1, <3>1, <3>2
  <2>2. CASE ~(k <= node.size)
    <3>1. k - 1 \in m .. run.curr - 1
      BY <1>2, <1>3, <2>2 DEF min
    <3> QED
      BY <1>1, <2>2, <3>1 DEF ClearedSoFar
  <2> QED
    BY <2>1, <2>2
<1>6. Bytes(node)' = [k \in 1 .. n |-> IF k <= Len(Bytes(node)) THEN Bytes(node)[k] ELSE 0]
  <2>1. Bytes(node)' = Bytes(cow)
    BY <1>1 DEF Bytes
  <2> QED
    BY <1>3, <1>4, <1>5, <2>1
<1> QED
  BY <1>1, <1>6 DEF Abstract!Truncate

(* Every step of FileIO is one of ByteFile or a stutter.                   *)
LEMMA FileMaps ==
  ASSUME KernelRequests
  PROVE  Inv /\ [Next]_vars => [Abstract!Next]_<<Bytes(node), reply>>
<1> SUFFICES ASSUME Inv, [Next]_vars
             PROVE  Abstract!Next \/ (Bytes(node)' = Bytes(node) /\ reply' = reply)
  OBVIOUS
<1>1. CASE UNCHANGED vars
  BY <1>1 DEF vars, Bytes
<1>2. CASE \E q \in Requests : Start(q)
  <2>1. node' = node /\ reply' = <<>>
    BY <1>2 DEF Start, StartRead, StartWrite, StartTruncate
  <2>2. Abstract!Taken
    BY <2>1 DEF Abstract!Taken, Bytes
  <2> QED
    BY <2>2 DEF Abstract!Next
<1>3. CASE ReadPiece \/ StorePiece
  BY <1>3 DEF ReadPiece, StorePiece, Bytes
<1>4. CASE EndRead
  <2>1. run.q \in Requests /\ run.q.op = "read"
    BY <1>4, ReadDone
  <2>2. Abstract!Do(run.q)
    BY <1>4, <2>1, ReadMaps DEF Abstract!Do
  <2> QED
    BY <2>1, <2>2 DEF Abstract!Next
<1>5. CASE Commit
  <2>1. run.q \in Requests /\ run.q.op \in {"write", "truncate"}
    BY <1>5, Serving DEF Commit
  <2>2. Abstract!Do(run.q)
    BY <1>5, <2>1, WriteMaps, TruncateMaps DEF Abstract!Do
  <2> QED
    BY <2>1, <2>2 DEF Abstract!Next
<1> QED
  BY <1>1, <1>2, <1>3, <1>4, <1>5 DEF Next, Step

(* Page by page, over boundaries and the stale ends of pages, a read, a    *)
(* write or a truncate does what ByteFile does in one step: a read returns *)
(* the bytes asked for, a write leaves those before its offset and its     *)
(* own, a truncate keeps or clears.                                        *)
THEOREM FileIOImplementsByteFile ==
  ASSUME KernelRequests
  PROVE  Spec => ImplementsByteFile
<1>1. Init => Inv /\ Abstract!Init
  <2> SUFFICES ASSUME Init PROVE Abstract!Init
    BY FileInit
  <2>1. node \in inode /\ node.size = 0
    BY FileInit DEF Inv, TypeOK, Init
  <2>2. Bytes(node) \in Seq(Byte) /\ Len(Bytes(node)) = 0
    BY <2>1, BytesFacts
  <2>3. \A s \in Seq(Byte) : Len(s) = 0 => s = <<>>
    OBVIOUS
  <2> QED
    BY <2>2, <2>3 DEF Init, Abstract!Init
<1>2. Inv /\ [Next]_vars => Inv'
  BY FileStep
<1>3. Inv /\ [Next]_vars => [Abstract!Next]_<<Bytes(node), reply>>
  BY FileMaps
<1> QED
  BY <1>1, <1>2, <1>3, PTL DEF Spec, ImplementsByteFile, Abstract!Spec
=============================================================================
