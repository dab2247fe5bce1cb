--------------------------- MODULE PartLayoutProof ---------------------------
(***************************************************************************)
(* Where partitioned data goes, for any numbers and sizes of partitions of  *)
(* which one divides the other.                                             *)
(***************************************************************************)
EXTENDS PartLayout, TLAPS

-----------------------------------------------------------------------------
(* The number of partitions of one side is a multiple of that of the other. *)
(* The code assumes it: otherwise the two sides disagree on what a            *)
(* sub-request covers.                                                      *)
Divisible ==
    \A h \in Shapes : \E k \in Nat \ {0} : h.sp = k * h.rp \/ h.rp = k * h.sp

(* The elements of every sub-request. *)
Size == shape.sc * PartPerReq(shape.sp)

(* The arguments. *)
ShapeInv ==
    /\ shape \in Shapes
    /\ shape \in [sp: Nat \ {0}, sc: Nat \ {0}, rp: Nat \ {0}, rc: Nat \ {0}]
    /\ shape.sp * shape.sc = shape.rp * shape.rc

(* Arithmetic that the provers are given in small steps. *)
LEMMA Monotone ==
    ASSUME NEW a \in Nat, NEW b \in Nat, NEW c \in Nat, a <= b
    PROVE  a * c <= b * c
<1>1. PICK d \in Nat : b = a + d
  <2>1. b - a \in Nat /\ b = a + (b - a)
    OBVIOUS
  <2> QED
    BY <2>1
<1>2. b * c = a * c + d * c
  BY <1>1, Z3
<1>3. a * c \in Nat /\ d * c \in Nat
  OBVIOUS
<1> QED
  BY <1>2, <1>3

(* A common factor. *)
LEMMA Cancel ==
    ASSUME NEW a \in Nat, NEW b \in Nat, NEW c \in Nat \ {0}, a * c = b * c
    PROVE  a = b
<1>1. ASSUME NEW x \in Nat, NEW y \in Nat, x < y PROVE x * c # y * c
  <2>1. (x + 1) * c <= y * c
    BY <1>1, Monotone
  <2>2. (x + 1) * c = x * c + c
    BY Z3
  <2>3. x * c \in Nat /\ y * c \in Nat
    OBVIOUS
  <2> QED
    BY <2>1, <2>2, <2>3
<1> QED
  BY <1>1

(* The quotient is determined by the remainder. *)
LEMMA Quotient ==
    ASSUME NEW q \in Nat, NEW r \in Nat, NEW c \in Nat \ {0}, r < c
    PROVE  (q * c + r) \div c = q /\ (q * c + r) % c = r
OBVIOUS

(* Every number has a quotient and a remainder. *)
LEMMA Divide ==
    ASSUME NEW e \in Nat, NEW c \in Nat \ {0}
    PROVE  \E q \in Nat : \E r \in 0..(c - 1) : e = q * c + r
<1>1. e \div c \in Nat /\ e % c \in 0..(c - 1) /\ e = (c * (e \div c)) + (e % c)
  OBVIOUS
<1>2. c * (e \div c) = (e \div c) * c
  BY <1>1
<1> QED
  BY <1>1, <1>2

(* part_per_req when the number of sub-requests divides that of partitions. *)
LEMMA ExactShare ==
    ASSUME ShapeInv, NEW k \in Nat \ {0}, NEW P \in Nat, P = k * Requests
    PROVE  PartPerReq(P) = k
<1>1. Requests \in Nat \ {0}
  BY DEF Requests, ShapeInv
<1>2. P = k * Requests + 0
  BY <1>1
<1>3. P \div Requests = k /\ P % Requests = 0
  BY <1>1, <1>2, Quotient
<1> QED
  BY <1>3 DEF PartPerReq

(* With one count a multiple of the other both sides give every sub-request   *)
(* the same number of elements and the same place, and they cover the buffer. *)
LEMMA Shares ==
    ASSUME Divisible, ShapeInv
    PROVE  /\ Requests \in Nat \ {0} /\ Size \in Nat \ {0} /\ PartPerReq(shape.sp) \in Nat \ {0}
           /\ shape.sp = Requests * PartPerReq(shape.sp)
           /\ Total = Requests * Size
           /\ Size = shape.rc * PartPerReq(shape.rp) /\ Total = Requests * (shape.rc * PartPerReq(shape.rp))
<1> DEFINE sp == shape.sp  sc == shape.sc  rp == shape.rp  rc == shape.rc
<1>1. sp \in Nat \ {0} /\ sc \in Nat \ {0} /\ rp \in Nat \ {0} /\ rc \in Nat \ {0} /\ sp * sc = rp * rc
  BY DEF ShapeInv
<1>2. PICK k \in Nat \ {0} : sp = k * rp \/ rp = k * sp
  BY DEF ShapeInv, Divisible
<1>r. Requests = (IF sp < rp THEN sp ELSE rp)
  BY DEF Requests
<1>t. Total = sp * sc /\ Size = sc * PartPerReq(sp)
  BY DEF Total, Size
<1> HIDE DEF sp, sc, rp, rc
<1>3. CASE sp = k * rp
  <2>1. 1 * rp <= k * rp
    BY <1>1, Monotone
  <2>2. Requests = rp
    BY <1>1, <1>r, <1>3, <2>1
  <2>3. PartPerReq(sp) = k
    BY <1>1, <1>3, <2>2, ExactShare
  <2>4. PartPerReq(rp) = 1
    BY <1>1, <2>2, ExactShare
  <2>5. (k * sc) * rp = rc * rp
    BY <1>1, <1>3, Z3
  <2>6. k * sc \in Nat /\ rc \in Nat
    BY <1>1
  <2>7. k * sc = rc
    BY <1>1, <2>5, <2>6, Cancel
  <2>8. sc * k = rc /\ rc * 1 = rc
    BY <1>1, <2>7
  <2>9. sp = rp * k
    BY <1>1, <1>3
  <2> QED
    BY <1>1, <1>t, <2>2, <2>3, <2>4, <2>8, <2>9 DEF sp, rp, rc, sc
<1>4. CASE rp = k * sp
  <2>1. 1 * sp <= k * sp
    BY <1>1, Monotone
  <2>2. Requests = sp
    BY <1>1, <1>r, <1>4, <2>1
  <2>3. PartPerReq(rp) = k
    BY <1>1, <1>4, <2>2, ExactShare
  <2>4. PartPerReq(sp) = 1
    BY <1>1, <2>2, ExactShare
  <2>5. (k * rc) * sp = sc * sp
    BY <1>1, <1>4, Z3
  <2>6. k * rc \in Nat /\ sc \in Nat
    BY <1>1
  <2>7. k * rc = sc
    BY <1>1, <2>5, <2>6, Cancel
  <2>8. rc * k = sc /\ sc * 1 = sc
    BY <1>1, <2>7
  <2>9. sp = sp * 1
    BY <1>1
  <2> QED
    BY <1>1, <1>t, <2>2, <2>3, <2>4, <2>8, <2>9 DEF sp, rp, rc, sc
<1> QED
  BY <1>2, <1>3, <1>4

(* Every sub-request, the last one included, has Size elements on both sides, *)
(* although one side computes its place before and the other after it takes   *)
(* "the rest".                                                                *)
LEMMA SameParts ==
    ASSUME Divisible, ShapeInv, NEW i \in Subs
    PROVE  /\ SendCount(i) = Size /\ RecvCount(i) = Size
           /\ SendOffset(i) = i * Size /\ RecvOffset(i) = i * Size
<1>1. /\ Requests \in Nat \ {0} /\ Size \in Nat \ {0} /\ Total = Requests * Size
      /\ Size = shape.rc * PartPerReq(shape.rp)
  BY Shares
<1>2. Size = shape.sc * PartPerReq(shape.sp)
  BY DEF Size
<1>3. shape.sc * shape.sp = Total /\ shape.rc * shape.rp = Total
  BY DEF Total, ShapeInv
<1>4. i \in Nat /\ i < Requests
  BY <1>1 DEF Subs
<1>5. i = Requests - 1 => Total - i * Size = Size
  <2> SUFFICES ASSUME i = Requests - 1 PROVE Total - i * Size = Size
    OBVIOUS
  <2>1. Requests = i + 1
    BY <1>1, <1>4
  <2>2. Requests * Size = i * Size + Size
    BY <1>1, <1>4, <2>1, Z3
  <2> QED
    BY <1>1, <1>4, <2>2
<1>6. SendCount(i) = Size
  BY <1>2, <1>3, <1>5 DEF SendCount, SubCount
<1>7. RecvCount(i) = Size
  BY <1>1, <1>3, <1>5 DEF RecvCount, SubCount
<1> QED
  BY <1>1, <1>6, <1>7 DEF SendOffset, RecvOffset

(* The element at place x of sub-request i. *)
LEMMA InBuffer ==
    ASSUME Divisible, ShapeInv, NEW i \in Subs, NEW x \in 0..(Size - 1)
    PROVE  i * Size + x \in 0..(Total - 1)
<1>1. Requests \in Nat \ {0} /\ Size \in Nat \ {0} /\ Total = Requests * Size
  BY Shares
<1>2. i \in Nat /\ i + 1 \in Nat /\ i + 1 <= Requests
  BY <1>1 DEF Subs
<1>3. (i + 1) * Size <= Requests * Size
  BY <1>1, <1>2, Monotone
<1>4. (i + 1) * Size = i * Size + Size
  BY <1>1, <1>2, Z3
<1>5. i * Size \in Nat /\ Requests * Size \in Nat
  BY <1>1, <1>2
<1> QED
  BY <1>1, <1>3, <1>4, <1>5

(* Every element of the buffer belongs to a sub-request. *)
LEMMA Covered ==
    ASSUME Divisible, ShapeInv, NEW e \in 0..(Total - 1)
    PROVE  \E i \in Subs : \E x \in 0..(Size - 1) : e = i * Size + x
<1>1. Requests \in Nat \ {0} /\ Size \in Nat \ {0} /\ Total = Requests * Size
  BY Shares
<1>2. e \in Nat /\ e < Requests * Size
  BY <1>1
<1>3. PICK q \in Nat : \E x \in 0..(Size - 1) : e = q * Size + x
  BY <1>1, <1>2, Divide
<1>4. q < Requests
  <2> SUFFICES ASSUME Requests <= q PROVE FALSE
    BY <1>1
  <2>1. Requests * Size <= q * Size
    BY <1>1, Monotone
  <2>2. q * Size \in Nat /\ Requests * Size \in Nat
    BY <1>1
  <2> QED
    BY <1>1, <1>2, <1>3, <2>1, <2>2
<1>5. q \in Subs
  BY <1>1, <1>4 DEF Subs
<1> QED
  BY <1>3, <1>5

(* The partition of an element of sub-request i is one of those that           *)
(* MPID_part_send_if_ready looks at.                                           *)
LEMMA PartitionSeen ==
    ASSUME Divisible, ShapeInv, NEW i \in Subs, NEW x \in 0..(Size - 1)
    PROVE  /\ PartitionOf(i * Size + x) \in
                  (i * PartPerReq(shape.sp))..((i + 1) * PartPerReq(shape.sp) - 1)
           /\ PartitionOf(i * Size + x) < shape.sp
<1> DEFINE ppr == PartPerReq(shape.sp)
           sc == shape.sc
<1>1. /\ Requests \in Nat \ {0} /\ Size \in Nat \ {0} /\ ppr \in Nat \ {0} /\ shape.sp = Requests * ppr
      /\ sc \in Nat \ {0} /\ Size = sc * ppr
  BY Shares DEF ShapeInv, Size
<1>2. i \in Nat /\ i + 1 <= Requests /\ x \in Nat /\ x < sc * ppr
  BY <1>1 DEF Subs
<1>p. PartitionOf(i * Size + x) = (i * (sc * ppr) + x) \div sc
  BY <1>1 DEF PartitionOf
<1>s. shape.sp = Requests * ppr
  BY <1>1
<1> HIDE DEF ppr, sc
<1>3. PICK q \in Nat : \E r \in 0..(sc - 1) : x = q * sc + r
  BY <1>1, <1>2, Divide
<1>4. PICK r \in 0..(sc - 1) : x = q * sc + r
  BY <1>3
<1>5. q < ppr
  <2> SUFFICES ASSUME ppr <= q PROVE FALSE
    BY <1>1
  <2>1. ppr * sc <= q * sc
    BY <1>1, Monotone
  <2>2. ppr * sc = sc * ppr /\ q * sc \in Nat /\ sc * ppr \in Nat /\ r \in Nat
    BY <1>1
  <2> QED
    BY <1>2, <1>4, <2>1, <2>2
<1>6. i * (sc * ppr) + x = (i * ppr + q) * sc + r
  <2>1. i * (sc * ppr) = (i * ppr) * sc
    BY <1>1, <1>2, Z3
  <2>2. (i * ppr + q) * sc = (i * ppr) * sc + q * sc
    BY <1>1, <1>2, Z3
  <2>3. (i * ppr) * sc \in Nat /\ q * sc \in Nat
    BY <1>1, <1>2
  <2> QED
    BY <1>4, <2>1, <2>2, <2>3
<1>7. i * ppr + q \in Nat /\ r \in Nat /\ r < sc
  BY <1>1, <1>2
<1>8. ((i * ppr + q) * sc + r) \div sc = i * ppr + q
  BY <1>1, <1>7, Quotient
<1>9. PartitionOf(i * Size + x) = i * ppr + q
  BY <1>p, <1>6, <1>8
<1>10. (i + 1) * ppr = i * ppr + ppr
  BY <1>1, <1>2, Z3
<1>11. (i + 1) * ppr <= Requests * ppr
  BY <1>1, <1>2, Monotone
<1>12. i * ppr \in Nat /\ Requests * ppr \in Nat
  BY <1>1, <1>2
<1> QED
  BY <1>s, <1>1, <1>5, <1>9, <1>10, <1>11, <1>12 DEF ppr

-----------------------------------------------------------------------------
(* The invariant *)

(* The data message of sub-request i when all of its elements are ready. *)
Whole(i) == [sub |-> i, data |-> [k \in 0..(Size - 1) |-> i * Size + k]]

(* Messages carry the elements of their sub-request, the buffer holds nothing   *)
(* at a wrong place, and what arrived is there.  No count was negative.         *)
LayoutInv ==
    /\ ShapeInv
    /\ ~badCount
    /\ \A m \in net : \E i \in Subs : m = Whole(i)
    /\ arrived \subseteq Subs
    /\ DOMAIN recvbuf = 0..(Total - 1)
    /\ \A e \in 0..(Total - 1) : recvbuf[e] \in {NULL, e}
    /\ \A i \in arrived : \A x \in 0..(Size - 1) : recvbuf[i * Size + x] = i * Size + x

(* A sub-request that MPID_part_send_if_ready lets pass carries its own elements. *)
LEMMA ReadyMessage ==
    ASSUME Divisible, ShapeInv, NEW i \in Subs, NEW rdy, SubReady(i, rdy)
    PROVE  Message(i, rdy) = Whole(i)
<1>1. SendCount(i) = Size /\ SendOffset(i) = i * Size
  BY SameParts
<1>2. ASSUME NEW k \in 0..(Size - 1) PROVE Value(SendOffset(i) + k, rdy) = i * Size + k
  <2>1. i * Size + k \in 0..(Total - 1)
    BY InBuffer
  <2>2. PartitionOf(i * Size + k) \in rdy
    BY PartitionSeen DEF SubReady
  <2> QED
    BY <1>1, <2>1, <2>2 DEF Value
<1> QED
  BY <1>1, <1>2 DEF Message, Whole

(* MPID_part_check_data_transmission. *)
LEMMA TransmitKeeps ==
    ASSUME Divisible, LayoutInv, NEW cand, cand \subseteq Subs, NEW rdy, Transmit(cand, rdy)
    PROVE  ~badCount' /\ \A m \in net' : \E i \in Subs : m = Whole(i)
<1>1. ShapeInv /\ ~badCount
  BY DEF LayoutInv
<1>2. \A i \in Subs : SendCount(i) = Size
  BY <1>1, SameParts
<1>3. Size \in Nat
  BY <1>1, Shares
<1>4. ~badCount'
  <2>1. \A i \in cand : ~(SendCount(i) < 0)
    BY <1>2, <1>3
  <2>2. badCount' = (badCount \/ \E i \in {j \in cand : SubReady(j, rdy)} : SendCount(i) < 0)
    BY DEF Transmit
  <2> QED
    BY <1>1, <2>1, <2>2, Zenon
<1>5. ASSUME NEW m \in net' PROVE \E i \in Subs : m = Whole(i)
  <2>1. CASE m \in net
    BY <2>1 DEF LayoutInv
  <2>2. CASE m \notin net
    <3>1. PICK i \in cand : SubReady(i, rdy) /\ m = Message(i, rdy)
      BY <2>2 DEF Transmit
    <3> QED
      BY <1>1, <3>1, ReadyMessage
  <2> QED
    BY <2>1, <2>2
<1> QED
  BY <1>4, <1>5

(* The sub-request of a partition. *)
LEMMA SubOfPartition ==
    ASSUME Divisible, ShapeInv, NEW p \in 0..(shape.sp - 1)
    PROVE  p \div PartPerReq(shape.sp) \in Subs
<1> DEFINE ppr == PartPerReq(shape.sp)
<1>1. Requests \in Nat \ {0} /\ ppr \in Nat \ {0} /\ shape.sp = Requests * ppr
  BY Shares
<1>2. p \in Nat /\ p < Requests * ppr
  BY <1>1
<1> HIDE DEF ppr
<1>3. PICK q \in Nat : \E r \in 0..(ppr - 1) : p = q * ppr + r
  BY <1>1, <1>2, Divide
<1>4. PICK r \in 0..(ppr - 1) : p = q * ppr + r
  BY <1>3
<1>5. r \in Nat /\ r < ppr
  BY <1>1
<1>6. (q * ppr + r) \div ppr = q
  BY <1>1, <1>5, Quotient
<1>7. q < Requests
  <2> SUFFICES ASSUME Requests <= q PROVE FALSE
    BY <1>1
  <2>1. Requests * ppr <= q * ppr
    BY <1>1, Monotone
  <2>2. q * ppr \in Nat /\ Requests * ppr \in Nat
    BY <1>1
  <2> QED
    BY <1>2, <1>4, <1>5, <2>1, <2>2
<1>8. q \in Subs
  BY <1>1, <1>7 DEF Subs
<1> QED
  BY <1>4, <1>6, <1>8 DEF ppr

(* A step that leaves the arguments and the receive buffer alone. *)
LEMMA LayoutFrame ==
    ASSUME LayoutInv, shape' = shape, arrived' = arrived, recvbuf' = recvbuf, ~badCount',
           \A m \in net' : \E i \in Subs : m = Whole(i)
    PROVE  LayoutInv'
<1>1. Subs' = Subs /\ Size' = Size /\ Total' = Total
  BY DEF Subs, Size, Total, Requests, PartPerReq
<1>2. \A i : Whole(i)' = Whole(i)
  BY <1>1 DEF Whole
<1>3. ShapeInv'
  BY DEF LayoutInv, ShapeInv
<1>4. \A m \in net' : \E i \in Subs' : m = Whole(i)'
  BY <1>1, <1>2
<1> QED
  BY <1>1, <1>3, <1>4 DEF LayoutInv

(* The arrival of sub-request i. *)
LEMMA ArriveKeeps ==
    ASSUME Divisible, LayoutInv, NEW m \in net, Arrive(m)
    PROVE  LayoutInv'
<1>s. ShapeInv
  BY DEF LayoutInv
<1>1. PICK i \in Subs : m = Whole(i)
  BY DEF LayoutInv
<1>2. m.sub = i /\ DOMAIN m.data = 0..(Size - 1) /\ \A k \in 0..(Size - 1) : m.data[k] = i * Size + k
  BY <1>1 DEF Whole
<1>3. RecvOffset(i) = i * Size /\ RecvCount(i) = Size /\ Size \in Nat \ {0} /\ i \in Nat /\ i * Size \in Int
  BY <1>s, SameParts, Shares DEF Subs
<1>t. Total \in Nat
  BY <1>s DEF ShapeInv, Total
<1>4. Subs' = Subs /\ Size' = Size /\ Total' = Total
  BY DEF Arrive, Subs, Size, Total, Requests, PartPerReq
<1>5. \A j : Whole(j)' = Whole(j)
  BY <1>4 DEF Whole
<1>6. DOMAIN recvbuf' = 0..(Total - 1)
  BY DEF Arrive, LayoutInv
<1>7. ASSUME NEW e \in 0..(Total - 1)
      PROVE  recvbuf'[e] = IF e - i * Size \in 0..(Size - 1) THEN e ELSE recvbuf[e]
  <2>1. e \in DOMAIN recvbuf
    BY DEF LayoutInv
  <2>2. recvbuf'[e] = IF e - i * Size \in 0..(Size - 1) /\ e - i * Size < Size
                      THEN m.data[e - i * Size] ELSE recvbuf[e]
    BY <1>2, <1>3, <2>1 DEF Arrive
  <2>3. e \in Int
    BY <1>t
  <2>4. e - i * Size \in 0..(Size - 1) => e - i * Size < Size /\ i * Size + (e - i * Size) = e
    BY <1>3, <2>3
  <2> QED
    BY <1>2, <2>2, <2>4
<1>8. \A e \in 0..(Total - 1) : recvbuf'[e] \in {NULL, e}
  BY <1>7 DEF LayoutInv
<1>9. ASSUME NEW j \in arrived', NEW x \in 0..(Size - 1)
      PROVE  recvbuf'[j * Size + x] = j * Size + x
  <2>1. j \in Subs /\ (j = i \/ j \in arrived)
    BY <1>2 DEF Arrive, LayoutInv
  <2>2. j * Size + x \in 0..(Total - 1)
    BY <1>s, <2>1, InBuffer
  <2>3. CASE j = i
    <3>1. (i * Size + x) - i * Size = x
      BY <1>3
    <3> QED
      BY <1>7, <2>2, <2>3, <3>1
  <2>4. CASE j \in arrived
    <3>1. recvbuf[j * Size + x] = j * Size + x
      BY <2>4 DEF LayoutInv
    <3> QED
      BY <1>7, <2>2, <3>1
  <2> QED
    BY <2>1, <2>3, <2>4
<1>10. \A n \in net' : \E j \in Subs : n = Whole(j)
  BY DEF Arrive, LayoutInv
<1>11. ShapeInv' /\ ~badCount' /\ arrived' \subseteq Subs
  BY <1>2 DEF Arrive, LayoutInv, ShapeInv
<1>12. \A n \in net' : \E j \in Subs' : n = Whole(j)'
  BY <1>4, <1>5, <1>10
<1> QED
  BY <1>4, <1>6, <1>8, <1>9, <1>11, <1>12 DEF LayoutInv

(* Data is only ever where it belongs, for any number and size of partitions of  *)
(* which one divides the other, in whatever order MPI_Pready marks them and        *)
(* messages arrive.                                                              *)
THEOREM LayoutHolds ==
    ASSUME Divisible
    PROVE  Spec => []LayoutInv
<1>1. Init => LayoutInv
  <2> SUFFICES ASSUME Init PROVE LayoutInv
    OBVIOUS
  <2>1. ShapeInv
    BY ShapeAssumption DEF Init, ShapeInv
  <2> QED
    BY <2>1 DEF Init, LayoutInv
<1>2. LayoutInv /\ [Next]_vars => LayoutInv'
  <2> SUFFICES ASSUME LayoutInv, [Next]_vars PROVE LayoutInv'
    OBVIOUS
  <2>s. ShapeInv
    BY DEF LayoutInv
  <2>1. CASE UNCHANGED vars
    <3>1. \A m \in net' : \E i \in Subs : m = Whole(i)
      BY <2>1 DEF LayoutInv, vars
    <3> QED
      BY <2>1, <3>1, LayoutFrame DEF LayoutInv, vars
  <2>2. CASE RecvCts
    <3>1. \A i \in Subs : RecvCount(i) = Size /\ ~(RecvCount(i) < 0)
      BY <2>s, SameParts, Shares
    <3>2. Transmit(Subs, ready)
      BY <2>2, <3>1 DEF RecvCts
    <3>3. ~badCount' /\ \A m \in net' : \E i \in Subs : m = Whole(i)
      BY <3>2, TransmitKeeps
    <3> QED
      BY <2>2, <3>3, LayoutFrame DEF RecvCts
  <2>3. ASSUME NEW p \in 0..(shape.sp - 1), Pready(p) PROVE LayoutInv'
    <3>1. {p \div PartPerReq(shape.sp)} \subseteq Subs
      BY <2>s, SubOfPartition
    <3>2. CASE cts
      <4>1. Transmit({p \div PartPerReq(shape.sp)}, ready')
        BY <2>3, <3>2 DEF Pready
      <4>2. ~badCount' /\ \A m \in net' : \E i \in Subs : m = Whole(i)
        BY <3>1, <4>1, TransmitKeeps
      <4> QED
        BY <2>3, <4>2, LayoutFrame DEF Pready
    <3>3. CASE ~cts
      <4>1. ~badCount' /\ \A m \in net' : \E i \in Subs : m = Whole(i)
        BY <2>3, <3>3 DEF Pready, LayoutInv
      <4> QED
        BY <2>3, <4>1, LayoutFrame DEF Pready
    <3> QED
      BY <3>2, <3>3
  <2>4. ASSUME NEW m \in net, Arrive(m) PROVE LayoutInv'
    BY <2>4, ArriveKeeps
  <2> QED
    BY <2>1, <2>2, <2>3, <2>4 DEF Next, Done
<1> QED
  BY <1>1, <1>2, PTL DEF Spec

(* No sub-request is sent while an element it covers belongs to a partition that  *)
(* is not ready: MPID_part_send_if_ready looks at the right partitions.           *)
THEOREM OnlyReadyDataSentHolds ==
    ASSUME Divisible
    PROVE  Spec => []OnlyReadyDataSent
<1>1. LayoutInv => OnlyReadyDataSent
  <2> SUFFICES ASSUME LayoutInv, NEW m \in net, NEW k \in DOMAIN m.data PROVE m.data[k] # NULL
    BY DEF OnlyReadyDataSent
  <2>1. PICK i \in Subs : m = Whole(i)
    BY DEF LayoutInv
  <2>2. k \in 0..(Size - 1) /\ m.data[k] = i * Size + k
    BY <2>1 DEF Whole
  <2>3. i * Size + k \in Int
    BY <2>2, InBuffer DEF LayoutInv
  <2> QED
    BY <2>2, <2>3, NullAssumption
<1> QED
  BY <1>1, LayoutHolds, PTL

(* Both sides mean the same elements by a sub-request. *)
THEOREM PlacedHolds ==
    ASSUME Divisible
    PROVE  Spec => []Placed
<1>1. LayoutInv => Placed
  <2> SUFFICES ASSUME LayoutInv, NEW e \in 0..(Total - 1)
               PROVE  /\ recvbuf[e] \in {NULL, e}
                      /\ (\E i \in arrived : e \in RecvOffset(i)..(RecvOffset(i) + RecvCount(i) - 1))
                            => recvbuf[e] = e
    BY DEF Placed
  <2>s. ShapeInv
    BY DEF LayoutInv
  <2>1. recvbuf[e] \in {NULL, e}
    BY DEF LayoutInv
  <2>2. ASSUME NEW i \in arrived, e \in RecvOffset(i)..(RecvOffset(i) + RecvCount(i) - 1)
        PROVE  recvbuf[e] = e
    <3>1. i \in Subs
      BY DEF LayoutInv
    <3>2. RecvOffset(i) = i * Size /\ RecvCount(i) = Size /\ Size \in Nat \ {0} /\ i \in Nat /\ i * Size \in Int
      BY <2>s, <3>1, SameParts, Shares DEF Subs
    <3>3. e - i * Size \in 0..(Size - 1) /\ i * Size + (e - i * Size) = e
      BY <2>2, <3>2
    <3> QED
      BY <2>2, <3>3 DEF LayoutInv
  <2> QED
    BY <2>1, <2>2
<1> QED
  BY <1>1, LayoutHolds, PTL

(* A complete receive request has the whole buffer: the sub-requests leave out   *)
(* nothing.                                                                      *)
THEOREM WholeBufferHolds ==
    ASSUME Divisible
    PROVE  Spec => []WholeBuffer
<1>1. LayoutInv => WholeBuffer
  <2> SUFFICES ASSUME LayoutInv, arrived = Subs, NEW e \in 0..(Total - 1) PROVE recvbuf[e] = e
    BY DEF WholeBuffer, Complete
  <2>1. PICK i \in Subs : \E x \in 0..(Size - 1) : e = i * Size + x
    BY Covered DEF LayoutInv
  <2> QED
    BY <2>1 DEF LayoutInv
<1> QED
  BY <1>1, LayoutHolds, PTL
=============================================================================
