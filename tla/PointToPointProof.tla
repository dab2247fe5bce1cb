------------------------- MODULE PointToPointProof -------------------------
(***************************************************************************)
(* Proofs about PointToPoint: a message is in one place, messages of one    *)
(* sender stay in their order, a reserved message stays until it is          *)
(* received, no acknowledgement is left over, and the device implements      *)
(* MpiMessages.                                                              *)
(***************************************************************************)
EXTENDS PointToPoint, SequenceTheorems, WellFoundedInduction, TLAPS

Sync == "DATA_REQUEST_ACK"

SendRec ==
    [type: DataTypes \cup {"none"}, env: Env \cup {{}},
     pio: {"none", "posted", "started", "done", "cancelled"}, cc: Int,
     bit: BOOLEAN, asked: BOOLEAN, out: {"none", "done", "cancelled"}]
RecvRec ==
    [st: {"none", "posted", "message", "matched", "done", "cancelled"},
     sel: Sels \cup {NoSel}, type: {"none"} \cup DataTypes \cup Reserved, msg: SUBSET Send]
Headers == [id: Send, type: DataTypes \cup Reserved \cup {CANCEL}]
Acks == [type: {"DATA_ACK", "CANCEL_DATA_ACK"}, id: Send]

TypeOK ==
    /\ sreq \in [Send -> SendRec] /\ rreq \in [Recv -> RecvRec]
    /\ line \in [Sender -> Seq(Headers)]
    /\ posted \in Seq(Recv) /\ unexp \in Seq(Headers)
    /\ acks \in [Sender -> Seq(Acks)] /\ uack \in [Sender -> Seq(Acks)]
    /\ ackq \in [Sender -> Seq(Send)]

(* The data messages of one sender are in the list in the order of their sends. *)
IsData(h) == h.type # CANCEL
Ordered(q) ==
    \A i, j \in 1..Len(q) :
        i < j /\ IsData(q[i]) /\ IsData(q[j]) /\ SrcOf[q[i].id] = SrcOf[q[j].id]
            => q[i].id < q[j].id

-----------------------------------------------------------------------------
(* Searches *)

(* A nonempty set of numbers has a smallest member. *)
LEMMA MinFacts ==
    ASSUME NEW T \in SUBSET Nat, T # {}
    PROVE  /\ Min(T) \in T
           /\ \A y \in T : Min(T) <= y
<1> DEFINE R == OpToRel(<, Nat)
<1>1. PICK x \in T : \A y \in T : ~(<<y, x>> \in R)
  BY NatLessThanWellFounded, WFMin
<1>2. \A y \in T : x <= y
  <2>1. R = {ss \in Nat \X Nat : ss[1] < ss[2]}
    BY DEF OpToRel
  <2> HIDE DEF R
  <2>2. ASSUME NEW y \in T, y < x PROVE FALSE
    <3>1. <<y, x>> \in Nat \X Nat /\ <<y, x>>[1] = y /\ <<y, x>>[2] = x
      OBVIOUS
    <3> QED
      BY <1>1, <2>1, <2>2, <3>1
  <2> QED
    BY <2>2
<1> QED
  BY <1>1, <1>2 DEF Min

(* The first of the positions I of a list, or 0: what SelectInSeq returns.    *)
First(I) == IF I # {} THEN Min(I) ELSE 0

(* The first index of a set of indices, or zero. *)
LEMMA FirstFacts ==
    ASSUME NEW n \in Nat, NEW I \in SUBSET (1..n)
    PROVE  /\ First(I) = 0 => I = {}
           /\ First(I) # 0 => First(I) \in I /\ First(I) \in 1..n
           /\ First(I) # 0 => \A k \in I : First(I) <= k
<1>1. CASE I = {}
  BY <1>1 DEF First
<1>2. CASE I # {}
  <2>1. I \in SUBSET Nat
    OBVIOUS
  <2>2. Min(I) \in I /\ \A k \in I : Min(I) <= k
    BY <1>2, <2>1, MinFacts
  <2>3. First(I) = Min(I)
    BY <1>2 DEF First
  <2>4. First(I) \in I /\ \A k \in I : First(I) <= k
    BY <2>2, <2>3
  <2>5. First(I) \in 1..n
    BY <2>4
  <2> QED
    BY <1>2, <2>4, <2>5
<1> QED
  BY <1>1, <1>2

(* The list without its entry i. *)
LEMMA RemoveAtFacts ==
    ASSUME NEW S, NEW q \in Seq(S), NEW i \in 1..Len(q)
    PROVE  /\ RemoveAt(q, i) \in Seq(S)
           /\ Len(RemoveAt(q, i)) = Len(q) - 1
           /\ \A k \in 1..(Len(q) - 1) :
                 RemoveAt(q, i)[k] = IF k < i THEN q[k] ELSE q[k + 1]
<1> DEFINE a == SubSeq(q, 1, i - 1)
           b == SubSeq(q, i + 1, Len(q))
<1>1. a \in Seq(S) /\ Len(a) = i - 1 /\ \A k \in 1..(i - 1) : a[k] = q[k]
  OBVIOUS
<1>2. b \in Seq(S) /\ Len(b) = Len(q) - i /\ \A k \in 1..(Len(q) - i) : b[k] = q[k + i]
  OBVIOUS
<1> HIDE DEF a, b
<1>3. RemoveAt(q, i) = a \o b
  BY DEF RemoveAt, a, b
<1>4. a \o b \in Seq(S) /\ Len(a \o b) = Len(q) - 1
  <2>1. a \o b \in Seq(S) /\ Len(a \o b) = Len(a) + Len(b)
    BY <1>1, <1>2, ConcatProperties, Zenon
  <2> QED
    BY <1>1, <1>2, <2>1
<1>5. ASSUME NEW k \in 1..(Len(q) - 1)
      PROVE  (a \o b)[k] = IF k < i THEN q[k] ELSE q[k + 1]
  <2>1. CASE k < i
    BY <1>1, <1>2, <2>1
  <2>2. CASE ~(k < i)
    <3>1. (a \o b)[k] = b[k - (i - 1)]
      BY <1>1, <1>2, <2>2
    <3>2. b[k - (i - 1)] = q[k + 1]
      BY <1>2, <2>2
    <3> QED
      BY <2>2, <3>1, <3>2
  <2> QED
    BY <2>1, <2>2
<1> QED
  BY <1>3, <1>4, <1>5

(* A list d comes from q without its entry i: every entry of d is another entry *)
(* of q, in the same order, and every other entry of q is in d.                 *)
Without(d, q, i) ==
    /\ \A k \in 1..Len(d) : \E l \in 1..Len(q) : l # i /\ d[k] = q[l]
    /\ \A l \in 1..Len(q) : l # i => \E k \in 1..Len(d) : d[k] = q[l]
    /\ \A k, n \in 1..Len(d) : k < n => \E l, o \in 1..Len(q) :
          l < o /\ l # i /\ o # i /\ d[k] = q[l] /\ d[n] = q[o]

(* RemoveAt takes out one entry. *)
LEMMA RemoveAtWithout ==
    ASSUME NEW S, NEW q \in Seq(S), NEW i \in 1..Len(q)
    PROVE  Without(RemoveAt(q, i), q, i)
<1> DEFINE d == RemoveAt(q, i)
           To(k) == IF k < i THEN k ELSE k + 1
<1>1. d \in Seq(S) /\ Len(d) = Len(q) - 1
  BY RemoveAtFacts
<1>2. \A k \in 1..(Len(q) - 1) : d[k] = IF k < i THEN q[k] ELSE q[k + 1]
  BY RemoveAtFacts
<1> HIDE DEF d
<1>3. \A k \in 1..Len(d) : To(k) \in 1..Len(q) /\ To(k) # i /\ d[k] = q[To(k)]
  BY <1>1, <1>2
<1>4. \A k, n \in 1..Len(d) : k < n => To(k) < To(n)
  BY <1>1
<1>5. ASSUME NEW l \in 1..Len(q), l # i
      PROVE  \E k \in 1..Len(d) : d[k] = q[l]
  <2>1. CASE l < i
    BY <1>1, <1>2, <2>1
  <2>2. CASE l > i
    <3>1. l - 1 \in 1..Len(d) /\ d[l - 1] = q[l]
      BY <1>1, <1>2, <2>2
    <3> QED
      BY <3>1
  <2> QED
    BY <1>5, <2>1, <2>2
<1> HIDE DEF To
<1> QED
  BY <1>3, <1>4, <1>5 DEF Without, d

(* Tail takes out the first. *)
LEMMA TailWithout ==
    ASSUME NEW S, NEW q \in Seq(S), q # <<>>
    PROVE  /\ Tail(q) \in Seq(S) /\ Head(q) = q[1] /\ 1 \in 1..Len(q)
           /\ Without(Tail(q), q, 1)
<1> DEFINE d == Tail(q)
<1>1. d \in Seq(S) /\ Len(d) = Len(q) - 1 /\ Head(q) = q[1] /\ 1 \in 1..Len(q)
  OBVIOUS
<1>2. \A k \in 1..Len(d) : d[k] = q[k + 1]
  OBVIOUS
<1> HIDE DEF d
<1>3. \A k \in 1..Len(d) : k + 1 \in 1..Len(q) /\ k + 1 # 1
  BY <1>1
<1>4. \A l \in 1..Len(q) : l # 1 => l - 1 \in 1..Len(d) /\ d[l - 1] = q[l]
  BY <1>1, <1>2
<1>5. \A k, n \in 1..Len(d) : k < n => k + 1 < n + 1
  OBVIOUS
<1>6. \A k, n \in 1..Len(d) : k < n => \E l, o \in 1..Len(q) :
          l < o /\ l # 1 /\ o # 1 /\ d[k] = q[l] /\ d[n] = q[o]
  BY <1>2, <1>3, <1>5
<1>7. \A k \in 1..Len(d) : \E l \in 1..Len(q) : l # 1 /\ d[k] = q[l]
  BY <1>2, <1>3
<1>8. \A l \in 1..Len(q) : l # 1 => \E k \in 1..Len(d) : d[k] = q[l]
  BY <1>4
<1>9. Without(d, q, 1)
  BY <1>6, <1>7, <1>8 DEF Without
<1> QED
  BY <1>1, <1>9 DEF d

(* RemoveFirst takes one entry of the list that equals e, if there is one.     *)
LEMMA RemoveFirstFacts ==
    ASSUME NEW S, NEW q \in Seq(S), NEW e, NEW n \in 1..Len(q), q[n] = e
    PROVE  \E i \in 1..Len(q) : q[i] = e /\ RemoveFirst(q, e) = RemoveAt(q, i)
<1> DEFINE I == {i \in 1..Len(q) : q[i] = e}
<1>1. SelectInSeq(q, LAMBDA v : v = e) = First(I)
  BY DEF SelectInSeq, First
<1>2. I \in SUBSET (1..Len(q)) /\ Len(q) \in Nat /\ n \in I
  OBVIOUS
<1>3. First(I) \in I
  BY <1>2, FirstFacts
<1>4. RemoveFirst(q, e) = RemoveAt(q, First(I))
  BY <1>1, <1>2 DEF RemoveFirst
<1> QED
  BY <1>3, <1>4

-----------------------------------------------------------------------------
(* Messages in a list *)

(* InSeq as the membership of an entry. *)
LEMMA InSeqMeans ==
    ASSUME NEW q \in Seq(Headers), NEW m
    PROVE  /\ InSeq(q, m) => \E k \in 1..Len(q) : q[k].id = m /\ IsData(q[k])
           /\ (\E k \in 1..Len(q) : q[k].id = m /\ IsData(q[k])) => InSeq(q, m)
<1>1. DOMAIN q = 1..Len(q)
  OBVIOUS
<1> QED
  BY <1>1 DEF InSeq, IsData

(* The send number of a header is a number, and a message is in an ordered list *)
(* only once.                                                                   *)
LEMMA OrderedOnce ==
    ASSUME NEW q \in Seq(Headers), Ordered(q), NEW i \in 1..Len(q), NEW j \in 1..Len(q),
           IsData(q[i]), IsData(q[j]), q[i].id = q[j].id
    PROVE  i = j
<1>1. q[i] \in Headers /\ q[j] \in Headers
  OBVIOUS
<1>2. q[i].id \in Nat /\ q[j].id \in Nat
  BY <1>1, SendAssumption DEF Headers
<1>3. ~(i < j) /\ ~(j < i)
  BY <1>2 DEF Ordered
<1> QED
  BY <1>3

(* One entry is taken out of a list. *)
LEMMA InWithout ==
    ASSUME NEW q \in Seq(Headers), NEW d \in Seq(Headers), NEW i \in 1..Len(q),
           Without(d, q, i), Ordered(q)
    PROVE  /\ Ordered(d)
           /\ \A m : InSeq(d, m) => InSeq(q, m)
           /\ \A m : InSeq(q, m) /\ (q[i].id # m \/ ~IsData(q[i])) => InSeq(d, m)
           /\ IsData(q[i]) => ~InSeq(d, q[i].id)
           /\ \A k \in 1..Len(d) : \E l \in 1..Len(q) : d[k] = q[l]
<1>0. \A k, n \in 1..Len(d) : k < n => \E l, o \in 1..Len(q) :
          l < o /\ l # i /\ o # i /\ d[k] = q[l] /\ d[n] = q[o]
  BY DEF Without
<1>1. Ordered(d)
  <2> SUFFICES ASSUME NEW k \in 1..Len(d), NEW n \in 1..Len(d), k < n, IsData(d[k]),
                      IsData(d[n]), SrcOf[d[k].id] = SrcOf[d[n].id]
               PROVE  d[k].id < d[n].id
    BY DEF Ordered
  <2>1. PICK l \in 1..Len(q) : \E o \in 1..Len(q) : l < o /\ d[k] = q[l] /\ d[n] = q[o]
    BY <1>0, ZenonT(30)
  <2>2. PICK o \in 1..Len(q) : l < o /\ d[k] = q[l] /\ d[n] = q[o]
    BY <2>1
  <2> QED
    BY <2>2 DEF Ordered
<1>2. ASSUME NEW m, InSeq(d, m) PROVE InSeq(q, m)
  <2>1. PICK k \in 1..Len(d) : d[k].id = m /\ IsData(d[k])
    BY <1>2, InSeqMeans
  <2>2. PICK l \in 1..Len(q) : d[k] = q[l]
    BY DEF Without
  <2> QED
    BY <2>1, <2>2, InSeqMeans
<1>3. ASSUME NEW m, InSeq(q, m), q[i].id # m \/ ~IsData(q[i]) PROVE InSeq(d, m)
  <2>1. PICK l \in 1..Len(q) : q[l].id = m /\ IsData(q[l])
    BY <1>3, InSeqMeans
  <2>2. l # i
    BY <1>3, <2>1
  <2>3. PICK k \in 1..Len(d) : d[k] = q[l]
    BY <2>2 DEF Without
  <2> QED
    BY <2>1, <2>3, InSeqMeans
<1>4. ASSUME IsData(q[i]), InSeq(d, q[i].id) PROVE FALSE
  <2>1. PICK k \in 1..Len(d) : d[k].id = q[i].id /\ IsData(d[k])
    BY <1>4, InSeqMeans
  <2>2. PICK l \in 1..Len(q) : l # i /\ d[k] = q[l]
    BY DEF Without
  <2> QED
    BY <1>4, <2>1, <2>2, OrderedOnce
<1> QED
  BY <1>1, <1>2, <1>3, <1>4 DEF Without

(* A header is put at the end of a list. *)
LEMMA InAppend ==
    ASSUME NEW q \in Seq(Headers), NEW h \in Headers
    PROVE  /\ Append(q, h) \in Seq(Headers)
           /\ \A m : InSeq(q, m) => InSeq(Append(q, h), m)
           /\ \A m : InSeq(Append(q, h), m) => InSeq(q, m) \/ (h.id = m /\ IsData(h))
           /\ IsData(h) => InSeq(Append(q, h), h.id)
<1> DEFINE d == Append(q, h)
<1>1. d \in Seq(Headers) /\ Len(d) = Len(q) + 1 /\ d[Len(q) + 1] = h
      /\ \A k \in 1..Len(q) : d[k] = q[k]
  OBVIOUS
<1> HIDE DEF d
<1>2. ASSUME NEW m, InSeq(q, m) PROVE InSeq(d, m)
  <2>1. PICK k \in 1..Len(q) : q[k].id = m /\ IsData(q[k])
    BY <1>2, InSeqMeans
  <2>2. k \in 1..Len(d) /\ d[k] = q[k]
    BY <1>1
  <2> QED
    BY <1>1, <2>1, <2>2, InSeqMeans
<1>3. ASSUME NEW m, InSeq(d, m) PROVE InSeq(q, m) \/ (h.id = m /\ IsData(h))
  <2>1. PICK k \in 1..Len(d) : d[k].id = m /\ IsData(d[k])
    BY <1>1, <1>3, InSeqMeans
  <2>2. CASE k \in 1..Len(q)
    BY <1>1, <2>1, <2>2, InSeqMeans
  <2>3. CASE k = Len(q) + 1
    BY <1>1, <2>1, <2>3
  <2> QED
    BY <1>1, <2>2, <2>3
<1>4. ASSUME IsData(h) PROVE InSeq(d, h.id)
  <2>1. Len(q) + 1 \in 1..Len(d)
    BY <1>1
  <2> QED
    BY <1>1, <1>4, <2>1, InSeqMeans
<1> QED
  BY <1>1, <1>2, <1>3, <1>4 DEF d

(* It keeps the order if it is the newest of its sender. *)
LEMMA AppendOrdered ==
    ASSUME NEW q \in Seq(Headers), NEW h \in Headers, Ordered(q),
           \A m : IsData(h) /\ InSeq(q, m) /\ SrcOf[m] = SrcOf[h.id] => m < h.id
    PROVE  Ordered(Append(q, h))
<1> DEFINE d == Append(q, h)
<1>1. d \in Seq(Headers) /\ Len(d) = Len(q) + 1 /\ d[Len(q) + 1] = h
      /\ \A k \in 1..Len(q) : d[k] = q[k]
  OBVIOUS
<1> HIDE DEF d
<1>2. ASSUME NEW i \in 1..Len(d), NEW j \in 1..Len(d), i < j, IsData(d[i]), IsData(d[j]),
             SrcOf[d[i].id] = SrcOf[d[j].id]
      PROVE  d[i].id < d[j].id
  <2>1. i \in 1..Len(q) /\ d[i] = q[i]
    BY <1>1, <1>2
  <2>2. CASE j \in 1..Len(q)
    BY <1>1, <1>2, <2>1, <2>2 DEF Ordered
  <2>3. CASE j = Len(q) + 1
    <3>1. InSeq(q, q[i].id)
      BY <1>2, <2>1, InSeqMeans
    <3> QED
      BY <1>1, <1>2, <2>1, <2>3, <3>1
  <2> QED
    BY <1>1, <2>2, <2>3
<1>3. Ordered(d)
  BY <1>2 DEF Ordered
<1> QED
  BY <1>3 DEF d

-----------------------------------------------------------------------------
(* The inductive invariant *)

(* Where the message of m is: under way, in the list of unexpected messages, or *)
(* with a receive request (one that a probe has reserved is also in the list).  *)
On(m) == InSeq(line[SrcOf[m]], m)
Un(m) == InSeq(unexp, m)
Taken(m) == \E r \in Recv : rreq[r].msg = {m}

LineEntry(s, h) ==
    /\ SrcOf[h.id] = s
    /\ IsData(h) => h.type = sreq[h.id].type
    /\ ~IsData(h) => sreq[h.id].type = Sync /\ sreq[h.id].asked

LineInv ==
    \A s \in Sender :
        Ordered(line[s]) /\ \A i \in 1..Len(line[s]) : LineEntry(s, line[s][i])

(* The places exclude each other and agree with what pscom has done. *)
Place(m) ==
    /\ On(m) => ~Un(m) /\ ~Taken(m) /\ sreq[m].pio \in {"posted", "started", "done"}
    /\ Un(m) \/ Taken(m) => sreq[m].pio \in {"started", "done"}
    /\ sreq[m].pio = "posted" => On(m)
    /\ sreq[m].type = "none" <=> sreq[m].pio = "none"

PlaceInv == \A m \in Send : Place(m)

(* A message that is not cancelled by its sender and not synchronous is not lost. *)
NotLost(m) ==
    sreq[m].type = "DATA" /\ sreq[m].pio # "cancelled" => On(m) \/ Un(m) \/ Taken(m)

LossInv == \A m \in Send : NotLost(m)

(* Sends are posted in program order; what has arrived is older than what has not. *)
OrderInv ==
    /\ \A m, n \in Send : SrcOf[m] = SrcOf[n] /\ m < n /\ sreq[n].type # "none"
                             => sreq[m].type # "none"
    /\ \A m, n \in Send : SrcOf[m] = SrcOf[n] /\ Un(m) /\ On(n) => m < n
    /\ Ordered(unexp)

UnexpEntry(h) ==
    /\ IsData(h) /\ Restored(h.type) = sreq[h.id].type
    /\ h.type \in Reserved =>
          \E r \in Recv : rreq[r].st = "message" /\ rreq[r].msg = {h.id} /\ rreq[r].type = h.type
    /\ h.type \notin Reserved => ~Taken(h.id)

UnexpInv == \A i \in 1..Len(unexp) : UnexpEntry(unexp[i])

RecvEntry(r) ==
    /\ rreq[r].st \in {"none", "posted", "cancelled"} => rreq[r].msg = {}
    /\ rreq[r].st \in {"message", "matched", "done"} =>
          \E m \in Send : rreq[r].msg = {m} /\ Restored(rreq[r].type) = sreq[m].type
    /\ rreq[r].st = "message" =>
          \E i \in 1..Len(unexp) : /\ unexp[i].type = rreq[r].type
                                   /\ unexp[i].type \in Reserved
                                   /\ rreq[r].msg = {unexp[i].id}

RecvInv ==
    /\ \A r \in Recv : RecvEntry(r)
    /\ \A r, x \in Recv : r # x /\ rreq[r].msg = rreq[x].msg => rreq[r].msg = {}
    /\ \A r, x \in Recv : x < r /\ rreq[r].st # "none" => rreq[x].st # "none"

PostedInv ==
    /\ \A i, j \in 1..Len(posted) : i < j => posted[i] < posted[j]
    /\ \A i \in 1..Len(posted) : rreq[posted[i]].st = "posted"
    /\ \A r \in Recv : rreq[r].st = "posted" => \E i \in 1..Len(posted) : posted[i] = r
    /\ \A r \in Recv, k \in 1..Len(unexp) :
          rreq[r].st = "posted" => ~AcceptData(rreq[r].sel, unexp[k])

PlacesInv ==
    TypeOK /\ LineInv /\ PlaceInv /\ LossInv /\ OrderInv /\ UnexpInv /\ RecvInv /\ PostedInv

-----------------------------------------------------------------------------
(* The entries of the lists *)
LEMMA TypeFacts ==
    ASSUME TypeOK
    PROVE  /\ \A s \in Sender : line[s] \in Seq(Headers) /\ Len(line[s]) \in Nat
           /\ \A s \in Sender : \A i \in 1..Len(line[s]) :
                 line[s][i] \in Headers /\ line[s][i].id \in Send
           /\ unexp \in Seq(Headers) /\ Len(unexp) \in Nat
           /\ \A i \in 1..Len(unexp) : unexp[i] \in Headers /\ unexp[i].id \in Send
           /\ posted \in Seq(Recv) /\ Len(posted) \in Nat
           /\ \A i \in 1..Len(posted) : posted[i] \in Recv
           /\ \A m \in Send : sreq[m] \in SendRec /\ m \in Nat /\ SrcOf[m] \in Sender
           /\ \A r \in Recv : rreq[r] \in RecvRec /\ r \in Nat
<1>1. \A h \in Headers : h.id \in Send
  BY DEF Headers
<1>2. ASSUME NEW s \in Sender
      PROVE  /\ line[s] \in Seq(Headers) /\ Len(line[s]) \in Nat
             /\ \A i \in 1..Len(line[s]) : line[s][i] \in Headers
  <2>1. line[s] \in Seq(Headers)
    BY DEF TypeOK
  <2> QED
    BY <2>1
<1>3. /\ unexp \in Seq(Headers) /\ Len(unexp) \in Nat
      /\ \A i \in 1..Len(unexp) : unexp[i] \in Headers
  BY DEF TypeOK
<1>4. /\ posted \in Seq(Recv) /\ Len(posted) \in Nat
      /\ \A i \in 1..Len(posted) : posted[i] \in Recv
  BY DEF TypeOK
<1>5. /\ \A m \in Send : sreq[m] \in SendRec /\ m \in Nat /\ SrcOf[m] \in Sender
      /\ \A r \in Recv : rreq[r] \in RecvRec /\ r \in Nat
  BY SendAssumption DEF TypeOK
<1> QED
  BY <1>1, <1>2, <1>3, <1>4, <1>5

-----------------------------------------------------------------------------
(* Steps of the sender that move no message *)

(* What pscom does with a message: it starts it and has sent it.               *)
PioStep(p, n) == n = p \/ (p = "posted" /\ n = "started") \/ (p = "started" /\ n = "done")

(* Messages, receive requests and lists stay as they are. *)
LEMMA SameMessages ==
    ASSUME PlacesInv, TypeOK', UNCHANGED <<rreq, line, posted, unexp>>,
           \A m \in Send : /\ sreq'[m].type = sreq[m].type /\ sreq'[m].env = sreq[m].env
                           /\ sreq[m].asked => sreq'[m].asked
                           /\ PioStep(sreq[m].pio, sreq'[m].pio)
    PROVE  PlacesInv'
<1>1. /\ \A s \in Sender : \A i \in 1..Len(line[s]) : line[s][i].id \in Send
      /\ \A i \in 1..Len(unexp) : unexp[i].id \in Send
  BY TypeFacts DEF PlacesInv
<1>2. \A m \in Send : On(m)' = On(m) /\ Un(m)' = Un(m) /\ Taken(m)' = Taken(m)
  BY DEF On, Un, Taken
<1>3. LineInv'
  <2> SUFFICES ASSUME NEW s \in Sender, NEW i \in 1..Len(line[s])
               PROVE  LineEntry(s, line[s][i])'
    BY DEF LineInv, PlacesInv
  <2>1. LineEntry(s, line[s][i]) /\ line[s][i].id \in Send
    BY <1>1 DEF LineInv, PlacesInv
  <2> QED
    BY <2>1 DEF LineEntry
<1>4. PlaceInv' /\ LossInv'
  <2> SUFFICES ASSUME NEW m \in Send PROVE Place(m)' /\ NotLost(m)'
    BY DEF PlaceInv, LossInv
  <2>1. Place(m) /\ NotLost(m)
    BY DEF PlacesInv, PlaceInv, LossInv
  <2>2. On(m)' = On(m) /\ Un(m)' = Un(m) /\ Taken(m)' = Taken(m)
    BY <1>2
  <2>3. sreq'[m].type = sreq[m].type /\ PioStep(sreq[m].pio, sreq'[m].pio)
    OBVIOUS
  <2> QED
    BY <2>1, <2>2, <2>3 DEF Place, NotLost, PioStep
<1>5. OrderInv'
  BY <1>2 DEF PlacesInv, OrderInv
<1>6. UnexpInv'
  BY <1>1, <1>2 DEF PlacesInv, UnexpInv, UnexpEntry
<1>7. RecvInv'
  BY DEF PlacesInv, RecvInv, RecvEntry
<1>8. PostedInv'
  BY <1>1 DEF PlacesInv, PostedInv, AcceptData
<1> QED
  BY <1>3, <1>4, <1>5, <1>6, <1>7, <1>8 DEF PlacesInv

(* pscom starts one message that is posted. *)
LEMMA SendStartCases ==
    ASSUME TypeOK, NEW s \in Sender, SendStart(s)
    PROVE  /\ \E m \in Send : sreq' = [sreq EXCEPT ![m].pio = "started"] /\ sreq[m].pio = "posted"
           /\ UNCHANGED <<rreq, line, posted, unexp, acks, ackq, uack>>
<1> DEFINE I == {i \in 1..Len(line[s]) : line[s][i].type # CANCEL /\ sreq[line[s][i].id].pio = "posted"}
<1>1. line[s] \in Seq(Headers) /\ Len(line[s]) \in Nat
  BY DEF TypeOK
<1>2. SelectInSeq(line[s], LAMBDA h : h.type # CANCEL /\ sreq[h.id].pio = "posted") = First(I)
  BY DEF SelectInSeq, First
<1>3. First(I) # 0 /\ sreq' = [sreq EXCEPT ![line[s][First(I)].id].pio = "started"]
      /\ UNCHANGED <<rreq, line, posted, unexp, acks, ackq, uack>>
  BY <1>2 DEF SendStart
<1>4. First(I) \in I
  <2>1. I \in SUBSET (1..Len(line[s]))
    OBVIOUS
  <2> HIDE DEF I
  <2> QED
    BY <1>1, <1>3, <2>1, FirstFacts
<1>5. line[s][First(I)].id \in Send
  BY <1>4, TypeFacts
<1>6. sreq[line[s][First(I)].id].pio = "posted"
  BY <1>4
<1> HIDE DEF I
<1> QED
  BY <1>3, <1>5, <1>6

(* pscom starts a send: each message stays in one place. *)
LEMMA SendStartPlaces ==
    ASSUME PlacesInv, NEW s \in Sender, SendStart(s)
    PROVE  PlacesInv'
<1>1. TypeOK /\ sreq \in [Send -> SendRec]
  BY DEF PlacesInv, TypeOK
<1>2. PICK m \in Send : sreq' = [sreq EXCEPT ![m].pio = "started"] /\ sreq[m].pio = "posted"
  BY <1>1, SendStartCases
<1>3. UNCHANGED <<rreq, line, posted, unexp, acks, ackq, uack>>
  BY <1>1, SendStartCases
<1>4. [sreq[m] EXCEPT !.pio = "started"] \in SendRec
  BY <1>1 DEF SendRec
<1>5. sreq' \in [Send -> SendRec]
  BY <1>1, <1>2, <1>4
<1>6. TypeOK'
  BY <1>1, <1>3, <1>5 DEF TypeOK
<1>7. ASSUME NEW x \in Send
      PROVE  /\ sreq'[x].type = sreq[x].type /\ sreq'[x].env = sreq[x].env
             /\ sreq[x].asked => sreq'[x].asked
             /\ PioStep(sreq[x].pio, sreq'[x].pio)
  BY <1>1, <1>2 DEF PioStep, SendRec
<1> QED
  BY <1>3, <1>6, <1>7, SameMessages

(* A request gets its acknowledgement. *)
LEMMA AckDoneFacts ==
    ASSUME NEW q \in SendRec, NEW a \in Acks
    PROVE  /\ AckDone(q, a) \in SendRec
           /\ AckDone(q, a).type = q.type /\ AckDone(q, a).env = q.env
           /\ AckDone(q, a).pio = q.pio /\ AckDone(q, a).asked = q.asked
           /\ AckDone(q, a).out = q.out /\ AckDone(q, a).cc = q.cc - 1
           /\ AckDone(q, a).bit = (q.bit \/ a.type = "CANCEL_DATA_ACK")
<1> DEFINE b == (q.bit \/ a.type = "CANCEL_DATA_ACK")
<1>1. b \in BOOLEAN
  BY DEF SendRec
<1>2. AckDone(q, a) = [q EXCEPT !.cc = q.cc - 1, !.bit = b]
  BY DEF AckDone
<1> HIDE DEF b
<1>3. /\ [q EXCEPT !.cc = q.cc - 1, !.bit = b] \in SendRec
      /\ [q EXCEPT !.cc = q.cc - 1, !.bit = b].bit = b
      /\ [q EXCEPT !.cc = q.cc - 1, !.bit = b].cc = q.cc - 1
  <2>1. q.cc - 1 \in Int
    BY DEF SendRec
  <2>2. PICK n \in Int : n = q.cc - 1
    BY <2>1
  <2>3. /\ [q EXCEPT !.cc = n, !.bit = b] \in SendRec
        /\ [q EXCEPT !.cc = n, !.bit = b].bit = b
        /\ [q EXCEPT !.cc = n, !.bit = b].cc = n
    BY <1>1, Zenon DEF SendRec
  <2> QED
    BY <2>2, <2>3
<1>4. /\ [q EXCEPT !.cc = q.cc - 1, !.bit = b].type = q.type
      /\ [q EXCEPT !.cc = q.cc - 1, !.bit = b].env = q.env
      /\ [q EXCEPT !.cc = q.cc - 1, !.bit = b].pio = q.pio
      /\ [q EXCEPT !.cc = q.cc - 1, !.bit = b].asked = q.asked
      /\ [q EXCEPT !.cc = q.cc - 1, !.bit = b].out = q.out
  BY <1>1 DEF SendRec
<1> QED
  BY <1>2, <1>3, <1>4 DEF b

(* The cases of SendDone, with the position First(I) of the acknowledgement.   *)
LEMMA SendDoneCases ==
    ASSUME TypeOK, NEW m \in Send, SendDone(m)
    PROVE  /\ sreq[m].pio = "started" /\ UNCHANGED <<rreq, line, posted, unexp, acks>>
           /\ \/ /\ sreq[m].type = "DATA"
                 /\ sreq' = [sreq EXCEPT ![m] = [sreq[m] EXCEPT !.pio = "done", !.cc = @ - 1]]
                 /\ UNCHANGED <<ackq, uack>>
              \/ /\ sreq[m].type = Sync
                 /\ sreq' = [sreq EXCEPT ![m] = [sreq[m] EXCEPT !.pio = "done"]]
                 /\ ackq' = [ackq EXCEPT ![SrcOf[m]] = Append(@, m)]
                 /\ UNCHANGED uack
                 /\ \A i \in 1..Len(uack[SrcOf[m]]) : ~AcceptAck(m, uack[SrcOf[m]][i])
              \/ /\ sreq[m].type = Sync /\ UNCHANGED ackq
                 /\ \E i \in 1..Len(uack[SrcOf[m]]) :
                       /\ AcceptAck(m, uack[SrcOf[m]][i])
                       /\ sreq' = [sreq EXCEPT ![m] = AckDone([sreq[m] EXCEPT !.pio = "done"],
                                                              uack[SrcOf[m]][i])]
                       /\ uack' = [uack EXCEPT ![SrcOf[m]] = RemoveAt(@, i)]
<1> DEFINE s == SrcOf[m]
           I == {i \in 1..Len(uack[s]) : AcceptAck(m, uack[s][i])}
           q == [sreq[m] EXCEPT !.pio = "done"]
<1>1. SelectInSeq(uack[s], LAMBDA a : AcceptAck(m, a)) = First(I)
  BY DEF SelectInSeq, First
<1>2. Len(uack[s]) \in Nat
  BY TypeFacts DEF TypeOK
<1>3. /\ First(I) = 0 => I = {}
      /\ First(I) # 0 => First(I) \in I
  BY <1>2, FirstFacts
<1>4. [q EXCEPT !.cc = @ - 1] = [sreq[m] EXCEPT !.pio = "done", !.cc = @ - 1]
  BY TypeFacts DEF SendRec
<1>5. /\ sreq[m].pio = "started" /\ UNCHANGED <<rreq, line, posted, unexp, acks>>
      /\ \/ /\ sreq[m].type = "DATA"
            /\ sreq' = [sreq EXCEPT ![m] = [q EXCEPT !.cc = @ - 1]]
            /\ UNCHANGED <<ackq, uack>>
         \/ /\ sreq[m].type = Sync /\ First(I) = 0
            /\ sreq' = [sreq EXCEPT ![m] = q]
            /\ ackq' = [ackq EXCEPT ![s] = Append(@, m)]
            /\ UNCHANGED uack
         \/ /\ sreq[m].type = Sync /\ First(I) # 0
            /\ sreq' = [sreq EXCEPT ![m] = AckDone(q, uack[s][First(I)])]
            /\ uack' = [uack EXCEPT ![s] = RemoveAt(@, First(I))]
            /\ UNCHANGED ackq
  BY <1>1 DEF SendDone, Sync
<1>6. CASE /\ sreq[m].type = "DATA"
           /\ sreq' = [sreq EXCEPT ![m] = [q EXCEPT !.cc = @ - 1]]
           /\ UNCHANGED <<ackq, uack>>
  BY <1>4, <1>5, <1>6
<1>7. CASE /\ sreq[m].type = Sync /\ First(I) = 0
           /\ sreq' = [sreq EXCEPT ![m] = q]
           /\ ackq' = [ackq EXCEPT ![s] = Append(@, m)]
           /\ UNCHANGED uack
  <2>1. \A i \in 1..Len(uack[s]) : ~AcceptAck(m, uack[s][i])
    BY <1>3, <1>7
  <2> QED
    BY <1>5, <1>7, <2>1
<1>8. CASE /\ sreq[m].type = Sync /\ First(I) # 0
           /\ sreq' = [sreq EXCEPT ![m] = AckDone(q, uack[s][First(I)])]
           /\ uack' = [uack EXCEPT ![s] = RemoveAt(@, First(I))]
           /\ UNCHANGED ackq
  <2>1. PICK i \in 1..Len(uack[s]) : AcceptAck(m, uack[s][i]) /\ i = First(I)
    BY <1>3, <1>8
  <2> QED
    BY <1>5, <1>8, <2>1
<1> QED
  BY <1>5, <1>6, <1>7, <1>8

(* A step that sets the request of m to q, the same message, moves no message. *)
LEMMA RequestStep ==
    ASSUME PlacesInv, UNCHANGED <<rreq, line, posted, unexp>>,
           acks' \in [Sender -> Seq(Acks)], uack' \in [Sender -> Seq(Acks)],
           ackq' \in [Sender -> Seq(Send)],
           NEW m \in Send, NEW q \in SendRec, sreq' = [sreq EXCEPT ![m] = q],
           q.type = sreq[m].type, q.env = sreq[m].env, sreq[m].asked => q.asked,
           PioStep(sreq[m].pio, q.pio)
    PROVE  PlacesInv'
<1>1. sreq \in [Send -> SendRec]
  BY DEF PlacesInv, TypeOK
<1>2. TypeOK'
  BY <1>1 DEF PlacesInv, TypeOK
<1>3. ASSUME NEW x \in Send
      PROVE  /\ sreq'[x].type = sreq[x].type /\ sreq'[x].env = sreq[x].env
             /\ sreq[x].asked => sreq'[x].asked
             /\ PioStep(sreq[x].pio, sreq'[x].pio)
  BY <1>1 DEF PioStep
<1> QED
  BY <1>2, <1>3, SameMessages

(* pscom has sent a message: each message stays in one place. *)
LEMMA SendDonePlaces ==
    ASSUME PlacesInv, NEW m \in Send, SendDone(m)
    PROVE  PlacesInv'
<1>1. /\ TypeOK /\ sreq[m] \in SendRec /\ SrcOf[m] \in Sender
      /\ acks \in [Sender -> Seq(Acks)] /\ uack \in [Sender -> Seq(Acks)]
      /\ ackq \in [Sender -> Seq(Send)]
  BY TypeFacts DEF PlacesInv, TypeOK
<1> DEFINE q == [sreq[m] EXCEPT !.pio = "done"]
<1>2. q \in SendRec /\ q.type = sreq[m].type /\ q.env = sreq[m].env
      /\ q.asked = sreq[m].asked /\ q.pio = "done"
  BY <1>1 DEF SendRec
<1>3. /\ sreq[m].pio = "started" /\ UNCHANGED <<rreq, line, posted, unexp, acks>>
      /\ \/ /\ sreq[m].type = "DATA"
            /\ sreq' = [sreq EXCEPT ![m] = [sreq[m] EXCEPT !.pio = "done", !.cc = @ - 1]]
            /\ UNCHANGED <<ackq, uack>>
         \/ /\ sreq' = [sreq EXCEPT ![m] = q]
            /\ ackq' = [ackq EXCEPT ![SrcOf[m]] = Append(@, m)]
            /\ UNCHANGED uack
         \/ /\ UNCHANGED ackq
            /\ \E i \in 1..Len(uack[SrcOf[m]]) :
                  /\ sreq' = [sreq EXCEPT ![m] = AckDone(q, uack[SrcOf[m]][i])]
                  /\ uack' = [uack EXCEPT ![SrcOf[m]] = RemoveAt(@, i)]
  BY <1>1, SendDoneCases
<1>4. PioStep(sreq[m].pio, "done")
  BY <1>3 DEF PioStep
<1> HIDE DEF q
<1>5. CASE /\ sreq[m].type = "DATA"
           /\ sreq' = [sreq EXCEPT ![m] = [sreq[m] EXCEPT !.pio = "done", !.cc = @ - 1]]
           /\ UNCHANGED <<ackq, uack>>
  <2> DEFINE c == [sreq[m] EXCEPT !.pio = "done", !.cc = @ - 1]
  <2>1. c \in SendRec /\ c.type = sreq[m].type /\ c.env = sreq[m].env
        /\ c.asked = sreq[m].asked /\ c.pio = "done"
    <3>1. PICK n \in Int : n = sreq[m].cc - 1
      BY <1>1 DEF SendRec
    <3>2. c = [sreq[m] EXCEPT !.pio = "done", !.cc = n]
      BY <3>1
    <3> HIDE DEF c
    <3> QED
      BY <1>1, <3>2 DEF SendRec
  <2>2. sreq' = [sreq EXCEPT ![m] = c]
    BY <1>5
  <2> HIDE DEF c
  <2>3. PioStep(sreq[m].pio, c.pio) /\ (sreq[m].asked => c.asked)
    BY <1>4, <2>1
  <2>4. UNCHANGED <<rreq, line, posted, unexp>>
    BY <1>3
  <2>5. /\ acks' \in [Sender -> Seq(Acks)] /\ uack' \in [Sender -> Seq(Acks)]
        /\ ackq' \in [Sender -> Seq(Send)]
    BY <1>1, <1>3, <1>5
  <2> QED
    BY <2>1, <2>2, <2>3, <2>4, <2>5, RequestStep
<1>6. CASE /\ sreq' = [sreq EXCEPT ![m] = q]
           /\ ackq' = [ackq EXCEPT ![SrcOf[m]] = Append(@, m)]
           /\ UNCHANGED uack
  <2>1. ackq' \in [Sender -> Seq(Send)]
    BY <1>1, <1>6
  <2> QED
    BY <1>1, <1>2, <1>3, <1>4, <1>6, <2>1, RequestStep
<1>7. ASSUME UNCHANGED ackq, NEW i \in 1..Len(uack[SrcOf[m]]),
             sreq' = [sreq EXCEPT ![m] = AckDone(q, uack[SrcOf[m]][i])],
             uack' = [uack EXCEPT ![SrcOf[m]] = RemoveAt(@, i)]
      PROVE  PlacesInv'
  <2>1. uack[SrcOf[m]] \in Seq(Acks)
    BY <1>1
  <2>2. PICK a \in Acks : a = uack[SrcOf[m]][i]
    BY <2>1
  <2>3. RemoveAt(uack[SrcOf[m]], i) \in Seq(Acks)
    BY <2>1, RemoveAtFacts
  <2>4. uack' \in [Sender -> Seq(Acks)]
    BY <1>1, <1>7, <2>3
  <2>5. PICK c \in SendRec : c = AckDone(q, a) /\ c.type = q.type /\ c.env = q.env
                                /\ c.pio = q.pio /\ c.asked = q.asked
    BY <1>2, AckDoneFacts
  <2>6. sreq' = [sreq EXCEPT ![m] = c]
    BY <1>7, <2>2, <2>5
  <2>7. c.type = sreq[m].type /\ c.env = sreq[m].env
        /\ PioStep(sreq[m].pio, c.pio) /\ (sreq[m].asked => c.asked)
    BY <1>2, <1>4, <2>5
  <2>8. UNCHANGED <<rreq, line, posted, unexp>>
    BY <1>3
  <2>9. acks' \in [Sender -> Seq(Acks)] /\ ackq' \in [Sender -> Seq(Send)]
    BY <1>1, <1>3, <1>7
  <2> QED
    BY <2>4, <2>6, <2>7, <2>8, <2>9, RequestStep
<1> QED
  BY <1>3, <1>5, <1>6, <1>7

(* The cases of RecvAck. *)
LEMMA RecvAckCases ==
    ASSUME TypeOK, NEW s \in Sender, RecvAck(s)
    PROVE  /\ acks[s] # <<>> /\ acks' = [acks EXCEPT ![s] = Tail(@)]
           /\ UNCHANGED <<rreq, line, posted, unexp>>
           /\ \/ /\ uack' = [uack EXCEPT ![s] = Append(@, Head(acks[s]))]
                 /\ UNCHANGED <<sreq, ackq>>
                 /\ \A i \in 1..Len(ackq[s]) : ~AcceptAck(ackq[s][i], Head(acks[s]))
              \/ \E i \in 1..Len(ackq[s]) :
                    /\ AcceptAck(ackq[s][i], Head(acks[s])) /\ UNCHANGED uack
                    /\ sreq' = [sreq EXCEPT ![ackq[s][i]] = AckDone(@, Head(acks[s]))]
                    /\ ackq' = [ackq EXCEPT ![s] = RemoveAt(@, i)]
<1> DEFINE a == Head(acks[s])
           I == {i \in 1..Len(ackq[s]) : AcceptAck(ackq[s][i], a)}
<1>1. SelectInSeq(ackq[s], LAMBDA m : AcceptAck(m, a)) = First(I)
  BY DEF SelectInSeq, First
<1>2. Len(ackq[s]) \in Nat
  BY DEF TypeOK
<1>3. /\ First(I) = 0 => I = {}
      /\ First(I) # 0 => First(I) \in I
  BY <1>2, FirstFacts
<1>4. /\ acks[s] # <<>> /\ acks' = [acks EXCEPT ![s] = Tail(@)]
      /\ UNCHANGED <<rreq, line, posted, unexp>>
      /\ IF First(I) = 0
         THEN /\ uack' = [uack EXCEPT ![s] = Append(@, a)]
              /\ UNCHANGED <<sreq, ackq>>
         ELSE /\ sreq' = [sreq EXCEPT ![ackq[s][First(I)]] = AckDone(@, a)]
              /\ ackq' = [ackq EXCEPT ![s] = RemoveAt(@, First(I))]
              /\ UNCHANGED uack
  BY <1>1 DEF RecvAck
<1>5. CASE First(I) = 0
  <2>1. \A i \in 1..Len(ackq[s]) : ~AcceptAck(ackq[s][i], a)
    BY <1>3, <1>5
  <2> QED
    BY <1>4, <1>5, <2>1
<1>6. CASE First(I) # 0
  <2>1. PICK i \in 1..Len(ackq[s]) : AcceptAck(ackq[s][i], a) /\ i = First(I)
    BY <1>3, <1>6
  <2> HIDE DEF I, a
  <2> QED
    BY <1>4, <1>6, <2>1 DEF a
<1> QED
  BY <1>5, <1>6

(* An acknowledgement arrives: each message stays in one place. *)
LEMMA RecvAckPlaces ==
    ASSUME PlacesInv, NEW s \in Sender, RecvAck(s)
    PROVE  PlacesInv'
<1>1. /\ TypeOK /\ sreq \in [Send -> SendRec]
      /\ acks \in [Sender -> Seq(Acks)] /\ uack \in [Sender -> Seq(Acks)]
      /\ ackq \in [Sender -> Seq(Send)]
      /\ acks[s] \in Seq(Acks) /\ uack[s] \in Seq(Acks) /\ ackq[s] \in Seq(Send)
  BY DEF PlacesInv, TypeOK
<1>2. /\ acks[s] # <<>> /\ acks' = [acks EXCEPT ![s] = Tail(@)]
      /\ UNCHANGED <<rreq, line, posted, unexp>>
      /\ \/ /\ uack' = [uack EXCEPT ![s] = Append(@, Head(acks[s]))]
            /\ UNCHANGED <<sreq, ackq>>
         \/ \E i \in 1..Len(ackq[s]) :
               /\ UNCHANGED uack
               /\ sreq' = [sreq EXCEPT ![ackq[s][i]] = AckDone(@, Head(acks[s]))]
               /\ ackq' = [ackq EXCEPT ![s] = RemoveAt(@, i)]
  BY <1>1, RecvAckCases
<1>3. Tail(acks[s]) \in Seq(Acks) /\ Head(acks[s]) \in Acks
  BY <1>1, <1>2
<1>4. acks' \in [Sender -> Seq(Acks)]
  BY <1>1, <1>2, <1>3
<1>5. PICK a \in Acks : a = Head(acks[s])
  BY <1>3
<1>6. CASE /\ uack' = [uack EXCEPT ![s] = Append(@, a)]
           /\ UNCHANGED <<sreq, ackq>>
  <2>1. uack' \in [Sender -> Seq(Acks)]
    BY <1>1, <1>6
  <2>2. TypeOK'
    BY <1>1, <1>2, <1>4, <1>6, <2>1 DEF TypeOK
  <2> QED
    BY <1>2, <1>6, <2>2, SameMessages DEF PioStep
<1>7. ASSUME NEW i \in 1..Len(ackq[s]), UNCHANGED uack,
             sreq' = [sreq EXCEPT ![ackq[s][i]] = AckDone(@, a)],
             ackq' = [ackq EXCEPT ![s] = RemoveAt(@, i)]
      PROVE  PlacesInv'
  <2>1. PICK m \in Send : m = ackq[s][i]
    BY <1>1
  <2>2. RemoveAt(ackq[s], i) \in Seq(Send)
    BY <1>1, RemoveAtFacts
  <2>3. ackq' \in [Sender -> Seq(Send)]
    BY <1>1, <1>7, <2>2
  <2>4. sreq[m] \in SendRec
    BY <1>1
  <2>5. PICK c \in SendRec : c = AckDone(sreq[m], a) /\ c.type = sreq[m].type /\ c.env = sreq[m].env
                                /\ c.pio = sreq[m].pio /\ c.asked = sreq[m].asked
    BY <2>4, AckDoneFacts
  <2>6. sreq' = [sreq EXCEPT ![m] = c]
    BY <1>7, <2>1, <2>5
  <2>7. PioStep(sreq[m].pio, c.pio) /\ (sreq[m].asked => c.asked)
    BY <2>5 DEF PioStep
  <2>8. UNCHANGED <<rreq, line, posted, unexp>> /\ uack' \in [Sender -> Seq(Acks)]
    BY <1>1, <1>2, <1>7
  <2> QED
    BY <1>4, <2>3, <2>5, <2>6, <2>7, <2>8, RequestStep
<1> QED
  BY <1>2, <1>5, <1>6, <1>7

(* MPI_Wait of a send returns: each message stays in one place. *)
LEMMA WaitSendPlaces ==
    ASSUME PlacesInv, NEW m \in Send, WaitSend(m)
    PROVE  PlacesInv'
<1>1. sreq[m] \in SendRec
  BY TypeFacts DEF PlacesInv
<1>2. PICK o \in {"done", "cancelled"} : sreq' = [sreq EXCEPT ![m].out = o]
  BY DEF WaitSend
<1> DEFINE c == [sreq[m] EXCEPT !.out = o]
<1>3. c \in SendRec /\ c.type = sreq[m].type /\ c.env = sreq[m].env
      /\ c.pio = sreq[m].pio /\ c.asked = sreq[m].asked
  BY <1>1 DEF SendRec
<1>4. sreq' = [sreq EXCEPT ![m] = c]
  BY <1>2
<1> HIDE DEF c
<1>5. PioStep(sreq[m].pio, c.pio) /\ (sreq[m].asked => c.asked)
  BY <1>3 DEF PioStep
<1>6. /\ acks' \in [Sender -> Seq(Acks)] /\ uack' \in [Sender -> Seq(Acks)]
      /\ ackq' \in [Sender -> Seq(Send)] /\ UNCHANGED <<rreq, line, posted, unexp>>
  BY DEF WaitSend, PlacesInv, TypeOK
<1> QED
  BY <1>3, <1>4, <1>5, <1>6, RequestStep

-----------------------------------------------------------------------------
(* Steps on a line *)

(* The messages of a sender are those of its line, and they are send requests. *)
LEMMA OnFacts ==
    ASSUME TypeOK, NEW s \in Sender, NEW x, InSeq(line[s], x)
    PROVE  x \in Send /\ (LineInv => SrcOf[x] = s /\ On(x) /\ sreq[x].type \in DataTypes)
<1>1. line[s] \in Seq(Headers)
  BY TypeFacts
<1>2. PICK k \in 1..Len(line[s]) : line[s][k].id = x /\ IsData(line[s][k])
  BY <1>1, InSeqMeans
<1>3. x \in Send /\ line[s][k] \in Headers /\ sreq[x] \in SendRec
  BY <1>2, TypeFacts
<1>4. ASSUME LineInv PROVE SrcOf[x] = s /\ On(x) /\ sreq[x].type \in DataTypes
  <2>1. LineEntry(s, line[s][k])
    BY <1>4 DEF LineInv
  <2>2. SrcOf[x] = s /\ sreq[x].type = line[s][k].type
    BY <1>2, <2>1 DEF LineEntry
  <2>3. sreq[x].type \in DataTypes
    BY <1>3, <2>2 DEF SendRec, Headers, DataTypes, Reserved, CANCEL
  <2> QED
    BY <2>2, <2>3 DEF On
<1> QED
  BY <1>3, <1>4

(* The line of another sender. *)
LEMMA SameLine ==
    ASSUME TypeOK, LineInv, NEW p \in Sender, line'[p] = line[p],
           \A g \in Headers : LineEntry(p, g) => LineEntry(p, g)'
    PROVE  (Ordered(line[p]) /\ \A i \in 1..Len(line[p]) : LineEntry(p, line[p][i]))'
<1>1. ASSUME NEW i \in 1..Len(line[p]) PROVE LineEntry(p, line[p][i])'
  <2>1. PICK g \in Headers : g = line[p][i]
    BY TypeFacts
  <2>2. LineEntry(p, g)'
    BY <2>1 DEF LineInv
  <2> QED
    BY <2>1, <2>2
<1> QED
  BY <1>1 DEF LineInv, Ordered

(* The lines to the receiver stay as they are. *)
LEMMA LinesSame ==
    ASSUME TypeOK, LineInv, UNCHANGED <<sreq, line>>
    PROVE  LineInv'
<1>1. \A p \in Sender, g \in Headers : LineEntry(p, g) => LineEntry(p, g)'
  BY DEF LineEntry
<1> QED
  BY <1>1, SameLine DEF LineInv

(* s sends a header h. *)
LEMMA LineAppend ==
    ASSUME TypeOK, LineInv, NEW s \in Sender, NEW h \in Headers,
           line' = [line EXCEPT ![s] = Append(@, h)], SrcOf[h.id] = s,
           Ordered(Append(line[s], h)), LineEntry(s, h)',
           \A p \in Sender, g \in Headers : LineEntry(p, g) => LineEntry(p, g)'
    PROVE  /\ line' \in [Sender -> Seq(Headers)]
           /\ LineInv'
           /\ \A x \in Send : On(x) => On(x)'
           /\ \A x \in Send : On(x)' => On(x) \/ (x = h.id /\ IsData(h))
           /\ IsData(h) => On(h.id)'
<1>1. line \in [Sender -> Seq(Headers)] /\ line[s] \in Seq(Headers)
  BY DEF TypeOK
<1>2. line'[s] = Append(line[s], h) /\ \A p \in Sender : p # s => line'[p] = line[p]
  BY <1>1
<1>3. line'[s] \in Seq(Headers)
  BY <1>1, <1>2
<1>4. line' \in [Sender -> Seq(Headers)]
  BY <1>1, <1>2, <1>3
<1>5. ASSUME NEW p \in Sender
      PROVE  (Ordered(line[p]) /\ \A i \in 1..Len(line[p]) : LineEntry(p, line[p][i]))'
  <2>1. CASE p # s
    BY <1>2, <2>1, SameLine
  <2>2. CASE p = s
    <3>1. \A i \in 1..Len(line'[s]) : i \in 1..Len(line[s]) \/ i = Len(line[s]) + 1
      BY <1>1, <1>2
    <3>2. /\ \A i \in 1..Len(line[s]) : line'[s][i] = line[s][i]
          /\ line'[s][Len(line[s]) + 1] = h
      BY <1>1, <1>2
    <3>3. ASSUME NEW i \in 1..Len(line'[s]) PROVE LineEntry(s, line[s][i])'
      <4>1. CASE i \in 1..Len(line[s])
        <5>1. PICK g \in Headers : g = line[s][i] /\ g = line'[s][i]
          BY <3>2, <4>1, TypeFacts
        <5>2. LineEntry(s, g)'
          BY <4>1, <5>1 DEF LineInv
        <5> QED
          BY <5>1, <5>2
      <4>2. CASE i = Len(line[s]) + 1
        BY <3>2, <4>2
      <4> QED
        BY <3>1, <4>1, <4>2
    <3> QED
      BY <1>2, <2>2, <3>3
  <2> QED
    BY <2>1, <2>2
<1>6. LineInv'
  BY <1>5 DEF LineInv
<1>7. ASSUME NEW x \in Send
      PROVE  /\ On(x) => On(x)'
             /\ On(x)' => On(x) \/ (x = h.id /\ IsData(h))
  <2>1. CASE SrcOf[x] = s
    BY <1>1, <1>2, <2>1, InAppend DEF On
  <2>2. CASE SrcOf[x] # s
    <3>1. SrcOf[x] \in Sender
      BY TypeFacts
    <3> QED
      BY <1>2, <2>2, <3>1 DEF On
  <2> QED
    BY <2>1, <2>2
<1>8. IsData(h) => On(h.id)'
  BY <1>1, <1>2, InAppend DEF On
<1> QED
  BY <1>4, <1>6, <1>7, <1>8

(* Entry i leaves the line of s. *)
LEMMA LineWithout ==
    ASSUME TypeOK, LineInv, NEW s \in Sender, NEW i \in 1..Len(line[s]),
           NEW h \in Headers, h = line[s][i],
           NEW d \in Seq(Headers), line' = [line EXCEPT ![s] = d], Without(d, line[s], i),
           \A p \in Sender, g \in Headers : LineEntry(p, g) => LineEntry(p, g)'
    PROVE  /\ line' \in [Sender -> Seq(Headers)]
           /\ LineInv'
           /\ \A x \in Send : On(x)' => On(x)
           /\ \A x \in Send : On(x) /\ (x # h.id \/ ~IsData(h)) => On(x)'
           /\ IsData(h) => ~On(h.id)'
<1>1. line \in [Sender -> Seq(Headers)] /\ line[s] \in Seq(Headers) /\ Ordered(line[s])
  BY DEF TypeOK, LineInv
<1>2. line'[s] = d /\ \A p \in Sender : p # s => line'[p] = line[p]
  BY <1>1
<1>3. line' \in [Sender -> Seq(Headers)]
  BY <1>1, <1>2
<1>4. /\ Ordered(d)
      /\ \A m : InSeq(d, m) => InSeq(line[s], m)
      /\ \A m : InSeq(line[s], m) /\ (h.id # m \/ ~IsData(h)) => InSeq(d, m)
      /\ IsData(h) => ~InSeq(d, h.id)
      /\ \A k \in 1..Len(d) : \E l \in 1..Len(line[s]) : d[k] = line[s][l]
  BY <1>1, InWithout
<1>5. ASSUME NEW p \in Sender
      PROVE  (Ordered(line[p]) /\ \A k \in 1..Len(line[p]) : LineEntry(p, line[p][k]))'
  <2>1. CASE p # s
    BY <1>2, <2>1, SameLine
  <2>2. CASE p = s
    <3>1. ASSUME NEW k \in 1..Len(d) PROVE LineEntry(s, d[k])'
      <4>1. PICK l \in 1..Len(line[s]) : d[k] = line[s][l]
        BY <1>4
      <4>2. LineEntry(s, d[k]) /\ d[k] \in Headers
        BY <4>1, TypeFacts DEF LineInv
      <4>3. PICK g \in Headers : g = d[k]
        BY <4>2
      <4>4. LineEntry(s, g)'
        BY <4>2, <4>3
      <4> QED
        BY <4>3, <4>4
    <3> QED
      BY <1>2, <1>4, <2>2, <3>1
  <2> QED
    BY <2>1, <2>2
<1>6. LineInv'
  BY <1>5 DEF LineInv
<1>7. ASSUME NEW x \in Send
      PROVE  /\ On(x)' => On(x)
             /\ On(x) /\ (x # h.id \/ ~IsData(h)) => On(x)'
  <2>1. CASE SrcOf[x] = s
    BY <1>2, <1>4, <2>1 DEF On
  <2>2. CASE SrcOf[x] # s
    <3>1. SrcOf[x] \in Sender
      BY TypeFacts
    <3> QED
      BY <1>2, <2>2, <3>1 DEF On
  <2> QED
    BY <2>1, <2>2
<1>8. SrcOf[h.id] = s
  BY DEF LineInv, LineEntry
<1>9. IsData(h) => ~On(h.id)'
  BY <1>2, <1>4, <1>8 DEF On
<1> QED
  BY <1>3, <1>6, <1>7, <1>9

(* A step that leaves the receiver alone and keeps the messages it knows.      *)
LEMMA ReceiverSame ==
    ASSUME TypeOK, UnexpInv, RecvInv, PostedInv, UNCHANGED <<rreq, posted, unexp>>,
           \A x \in Send : Un(x) \/ Taken(x) =>
               sreq'[x].type = sreq[x].type /\ sreq'[x].env = sreq[x].env
    PROVE  /\ UnexpInv' /\ RecvInv' /\ PostedInv'
           /\ \A x \in Send : Un(x)' = Un(x) /\ Taken(x)' = Taken(x)
<1>1. \A x \in Send : Un(x)' = Un(x) /\ Taken(x)' = Taken(x)
  BY DEF Un, Taken
<1>2. ASSUME NEW i \in 1..Len(unexp)
      PROVE  /\ unexp[i].id \in Send /\ Un(unexp[i].id)
             /\ sreq'[unexp[i].id].type = sreq[unexp[i].id].type
             /\ sreq'[unexp[i].id].env = sreq[unexp[i].id].env
  <2>1. unexp[i].id \in Send /\ unexp \in Seq(Headers)
    BY TypeFacts
  <2>2. IsData(unexp[i])
    BY DEF UnexpInv, UnexpEntry
  <2>3. Un(unexp[i].id)
    BY <2>1, <2>2, InSeqMeans DEF Un
  <2> QED
    BY <2>1, <2>3
<1>3. UnexpInv'
  <2> SUFFICES ASSUME NEW i \in 1..Len(unexp) PROVE UnexpEntry(unexp[i])'
    BY DEF UnexpInv
  <2>1. UnexpEntry(unexp[i])
    BY DEF UnexpInv
  <2> QED
    BY <1>1, <1>2, <2>1 DEF UnexpEntry
<1>4. RecvInv'
  <2>1. ASSUME NEW r \in Recv PROVE RecvEntry(r)'
    <3>1. RecvEntry(r)
      BY DEF RecvInv
    <3>2. \A m \in Send : rreq[r].msg = {m} => sreq'[m].type = sreq[m].type
      BY DEF Taken
    <3> QED
      BY <3>1, <3>2 DEF RecvEntry
  <2> QED
    BY <2>1 DEF RecvInv
<1>5. PostedInv'
  <2>1. ASSUME NEW r \in Recv, NEW k \in 1..Len(unexp), rreq[r].st = "posted"
        PROVE  ~AcceptData(rreq[r].sel, unexp[k])'
    <3>1. ~AcceptData(rreq[r].sel, unexp[k])
      BY <2>1 DEF PostedInv
    <3> QED
      BY <1>2, <3>1 DEF AcceptData
  <2> QED
    BY <2>1 DEF PostedInv
<1> QED
  BY <1>1, <1>3, <1>4, <1>5

(* A send begins: each message stays in one place. *)
LEMMA SendtypePlaces ==
    ASSUME PlacesInv, NEW m \in Send, NEW e \in Env, NEW type \in DataTypes, Sendtype(m, e, type)
    PROVE  /\ PlacesInv' /\ ~On(m) /\ ~Un(m) /\ ~Taken(m) /\ On(m)'
           /\ \A x \in Send : x # m => On(x)' = On(x)
           /\ \A x \in Send : Un(x)' = Un(x) /\ Taken(x)' = Taken(x)
<1> DEFINE s == SrcOf[m]
           h == Header(m, type)
           q == [type |-> type, env |-> e, pio |-> "posted", cc |-> 1,
                 bit |-> FALSE, asked |-> FALSE, out |-> "none"]
<1>1. /\ TypeOK /\ LineInv /\ OrderInv /\ UnexpInv /\ RecvInv /\ PostedInv
      /\ sreq \in [Send -> SendRec] /\ s \in Sender
  BY TypeFacts DEF PlacesInv, TypeOK
<1>2. /\ sreq[m].type = "none"
      /\ \A x \in Send : SrcOf[x] = s /\ x < m => sreq[x].type # "none"
      /\ sreq' = [sreq EXCEPT ![m] = q]
      /\ line' = [line EXCEPT ![s] = Append(@, h)]
      /\ UNCHANGED <<rreq, posted, unexp, acks, ackq, uack>>
  BY DEF Sendtype
<1>3. /\ h \in Headers /\ IsData(h) /\ h.id = m /\ h.type = type /\ type # "none"
  BY DEF Header, Headers, IsData, DataTypes, CANCEL
<1>4. q \in SendRec /\ q.type = type /\ q.env = e /\ q.pio = "posted"
  BY DEF SendRec
<1> HIDE DEF q, h
<1>5. sreq' \in [Send -> SendRec] /\ sreq'[m] = q /\ \A x \in Send : x # m => sreq'[x] = sreq[x]
  BY <1>1, <1>2, <1>4
<1>6. ~On(m) /\ ~Un(m) /\ ~Taken(m) /\ sreq[m].pio = "none"
  <2>1. Place(m)
    BY DEF PlacesInv, PlaceInv
  <2> QED
    BY <1>2, <2>1 DEF Place
<1>7. ASSUME NEW x, InSeq(line[s], x), SrcOf[x] = SrcOf[h.id] PROVE x < h.id
  <2>1. x \in Send /\ On(x) /\ sreq[x].type \in DataTypes /\ SrcOf[x] = s
    BY <1>1, <1>7, OnFacts
  <2>2. x # m /\ sreq[x].type # "none"
    BY <1>6, <2>1 DEF DataTypes
  <2>3. ~(m < x)
    BY <1>1, <1>2, <2>1, <2>2 DEF OrderInv
  <2>4. x \in Nat /\ m \in Nat
    BY <2>1, SendAssumption
  <2> QED
    BY <1>3, <2>2, <2>3, <2>4
<1>8. Ordered(Append(line[s], h))
  <2>1. line[s] \in Seq(Headers) /\ Ordered(line[s])
    BY <1>1, TypeFacts DEF LineInv
  <2> QED
    BY <1>3, <1>7, <2>1, AppendOrdered
<1>9. LineEntry(s, h)'
  BY <1>3, <1>4, <1>5 DEF LineEntry
<1>10. ASSUME NEW p \in Sender, NEW g \in Headers, LineEntry(p, g) PROVE LineEntry(p, g)'
  <2>1. g.id \in Send /\ g.type # "none"
    BY DEF Headers, DataTypes, Reserved, CANCEL
  <2>2. g.id # m
    BY <1>2, <1>10, <2>1 DEF LineEntry, Sync
  <2> QED
    BY <1>5, <1>10, <2>1, <2>2 DEF LineEntry
<1>11. /\ line' \in [Sender -> Seq(Headers)]
       /\ LineInv'
       /\ \A x \in Send : On(x) => On(x)'
       /\ \A x \in Send : On(x)' => On(x) \/ (x = h.id /\ IsData(h))
       /\ IsData(h) => On(h.id)'
  <2>1. SrcOf[h.id] = s
    BY <1>3
  <2> QED
    BY <1>1, <1>2, <1>3, <1>8, <1>9, <1>10, <2>1, LineAppend
<1>12. On(m)' /\ \A x \in Send : x # m => On(x)' = On(x)
  <2>1. ASSUME NEW x \in Send, x # m PROVE On(x)' = On(x)
    BY <1>3, <1>11, <2>1 DEF On, InSeq
  <2> QED
    BY <1>3, <1>11, <2>1
<1>13. TypeOK'
  BY <1>1, <1>2, <1>5, <1>11 DEF TypeOK
<1>14. /\ UnexpInv' /\ RecvInv' /\ PostedInv'
       /\ \A x \in Send : Un(x)' = Un(x) /\ Taken(x)' = Taken(x)
  <2>1. \A x \in Send : Un(x) \/ Taken(x) =>
               sreq'[x].type = sreq[x].type /\ sreq'[x].env = sreq[x].env
    BY <1>5, <1>6
  <2> QED
    BY <1>1, <1>2, <2>1, ReceiverSame
<1>15. ASSUME NEW x \in Send PROVE Place(x)' /\ NotLost(x)'
  <2>1. Place(x) /\ NotLost(x)
    BY DEF PlacesInv, PlaceInv, LossInv
  <2>2. CASE x = m
    BY <1>3, <1>4, <1>5, <1>6, <1>12, <1>14, <2>2 DEF Place, NotLost
  <2>3. CASE x # m
    <3>1. On(x)' = On(x) /\ Un(x)' = Un(x) /\ Taken(x)' = Taken(x) /\ sreq'[x] = sreq[x]
      BY <1>5, <1>12, <1>14, <2>3
    <3> QED
      BY <2>1, <3>1 DEF Place, NotLost
  <2> QED
    BY <2>2, <2>3
<1>16. OrderInv'
  <2>1. ASSUME NEW x \in Send, NEW y \in Send, SrcOf[x] = SrcOf[y], x < y,
               sreq'[y].type # "none"
        PROVE  sreq'[x].type # "none"
    <3>1. CASE x = m
      BY <1>3, <1>4, <1>5, <3>1
    <3>2. CASE x # m /\ y = m
      BY <1>2, <1>5, <2>1, <3>2
    <3>3. CASE x # m /\ y # m
      BY <1>1, <1>5, <2>1, <3>3 DEF OrderInv
    <3> QED
      BY <3>1, <3>2, <3>3
  <2>2. ASSUME NEW x \in Send, NEW y \in Send, SrcOf[x] = SrcOf[y], Un(x)', On(y)'
        PROVE  x < y
    <3>1. Un(x)
      BY <1>14, <2>2
    <3>2. CASE y # m
      BY <1>1, <1>12, <2>2, <3>1, <3>2 DEF OrderInv
    <3>3. CASE y = m
      <4>1. Place(x)
        BY DEF PlacesInv, PlaceInv
      <4>2. sreq[x].type # "none" /\ x # m
        BY <1>6, <3>1, <4>1 DEF Place
      <4>3. ~(m < x)
        BY <1>1, <1>2, <2>2, <3>3, <4>2 DEF OrderInv
      <4>4. x \in Nat /\ m \in Nat
        BY SendAssumption
      <4> QED
        BY <3>3, <4>2, <4>3, <4>4
    <3> QED
      BY <3>2, <3>3
  <2>3. Ordered(unexp)'
    BY <1>1, <1>2 DEF OrderInv, Ordered
  <2> QED
    BY <2>1, <2>2, <2>3 DEF OrderInv
<1>17. PlaceInv' /\ LossInv'
  BY <1>15 DEF PlaceInv, LossInv
<1> QED
  BY <1>6, <1>11, <1>12, <1>13, <1>14, <1>16, <1>17 DEF PlacesInv

(* pscom takes a message back that it has not started. *)
LEMMA TakeBackPlaces ==
    ASSUME PlacesInv, NEW m \in Send, Cancel_send(m), sreq[m].pio = "posted"
    PROVE  /\ PlacesInv' /\ On(m) /\ ~Un(m) /\ ~Taken(m) /\ ~On(m)'
           /\ \A x \in Send : x # m => On(x)' = On(x)
           /\ \A x \in Send : Un(x)' = Un(x) /\ Taken(x)' = Taken(x)
           /\ \A x \in Send : x # m => sreq'[x] = sreq[x]
           /\ sreq'[m].asked = TRUE /\ sreq'[m].bit = TRUE /\ sreq'[m].pio = "cancelled"
           /\ sreq'[m].cc = sreq[m].cc - 1 /\ sreq'[m].type = sreq[m].type
           /\ sreq'[m].env = sreq[m].env /\ sreq'[m].out = sreq[m].out
           /\ \E i \in 1..Len(line[SrcOf[m]]) :
                 /\ line[SrcOf[m]][i].id = m /\ IsData(line[SrcOf[m]][i])
                 /\ line' = [line EXCEPT ![SrcOf[m]] = RemoveAt(@, i)]
           /\ UNCHANGED <<rreq, posted, unexp, acks, ackq, uack>>
<1> DEFINE s == SrcOf[m]
           n == sreq[m].cc - 1
           q == [sreq[m] EXCEPT !.asked = TRUE, !.bit = TRUE, !.pio = "cancelled", !.cc = n]
<1>1. /\ TypeOK /\ LineInv /\ OrderInv /\ UnexpInv /\ RecvInv /\ PostedInv
      /\ sreq \in [Send -> SendRec] /\ s \in Sender /\ sreq[m] \in SendRec
      /\ line[s] \in Seq(Headers)
  BY TypeFacts DEF PlacesInv, TypeOK
<1>2. /\ sreq' = [sreq EXCEPT ![m] = q]
      /\ line' = [line EXCEPT ![s] = RemoveFirst(@, Header(m, sreq[m].type))]
      /\ UNCHANGED <<rreq, posted, unexp, acks, ackq, uack>>
  BY <1>1 DEF Cancel_send, SendRec
<1>3. n \in Int
  BY <1>1 DEF SendRec
<1> HIDE DEF n
<1>4. q \in SendRec /\ q.type = sreq[m].type /\ q.env = sreq[m].env /\ q.pio = "cancelled"
      /\ q.asked = TRUE /\ q.bit = TRUE /\ q.cc = n /\ q.out = sreq[m].out
  BY <1>1, <1>3 DEF SendRec
<1> HIDE DEF q
<1>5. sreq' \in [Send -> SendRec] /\ sreq'[m] = q /\ \A x \in Send : x # m => sreq'[x] = sreq[x]
  BY <1>1, <1>2, <1>4
<1>6. On(m) /\ ~Un(m) /\ ~Taken(m)
  <2>1. Place(m)
    BY DEF PlacesInv, PlaceInv
  <2> QED
    BY <2>1 DEF Place
<1>7. PICK i \in 1..Len(line[s]) : /\ line[s][i] = Header(m, sreq[m].type)
                                   /\ RemoveFirst(line[s], Header(m, sreq[m].type)) = RemoveAt(line[s], i)
  <2>1. PICK k \in 1..Len(line[s]) : line[s][k].id = m /\ IsData(line[s][k])
    BY <1>1, <1>6, InSeqMeans DEF On
  <2>2. line[s][k] \in Headers /\ line[s][k].type = sreq[m].type
    <3>1. LineEntry(s, line[s][k]) /\ line[s][k] \in Headers
      BY <1>1, TypeFacts DEF LineInv
    <3> QED
      BY <2>1, <3>1 DEF LineEntry
  <2>3. line[s][k] = Header(m, sreq[m].type)
    BY <2>1, <2>2 DEF Header, Headers
  <2> QED
    BY <1>1, <2>3, RemoveFirstFacts
<1>8. PICK h \in Headers : h = line[s][i]
  BY <1>1, TypeFacts
<1>9. h.id = m /\ IsData(h)
  <2>1. h.id = m /\ h.type = sreq[m].type
    BY <1>7, <1>8 DEF Header
  <2> QED
    BY <1>1, <2>1 DEF IsData, SendRec, DataTypes, CANCEL
<1>10. PICK d \in Seq(Headers) : d = RemoveAt(line[s], i) /\ Without(d, line[s], i)
  BY <1>1, RemoveAtFacts, RemoveAtWithout
<1>11. line' = [line EXCEPT ![s] = d]
  BY <1>2, <1>7, <1>10
<1>12. ASSUME NEW p \in Sender, NEW g \in Headers, LineEntry(p, g) PROVE LineEntry(p, g)'
  <2>1. g.id \in Send
    BY DEF Headers
  <2>2. sreq'[g.id].type = sreq[g.id].type /\ (sreq[g.id].asked => sreq'[g.id].asked)
    BY <1>4, <1>5, <2>1
  <2> QED
    BY <1>12, <2>2 DEF LineEntry
<1>13. /\ line' \in [Sender -> Seq(Headers)]
       /\ LineInv'
       /\ \A x \in Send : On(x)' => On(x)
       /\ \A x \in Send : On(x) /\ (x # h.id \/ ~IsData(h)) => On(x)'
       /\ IsData(h) => ~On(h.id)'
  BY <1>1, <1>8, <1>10, <1>11, <1>12, LineWithout
<1>14. ~On(m)' /\ \A x \in Send : x # m => On(x)' = On(x)
  <2>1. ASSUME NEW x \in Send, x # m PROVE On(x)' = On(x)
    BY <1>9, <1>13, <2>1 DEF On, InSeq
  <2> QED
    BY <1>9, <1>13, <2>1
<1>15. TypeOK'
  BY <1>1, <1>2, <1>5, <1>13 DEF TypeOK
<1>16. /\ UnexpInv' /\ RecvInv' /\ PostedInv'
       /\ \A x \in Send : Un(x)' = Un(x) /\ Taken(x)' = Taken(x)
  <2>1. \A x \in Send : Un(x) \/ Taken(x) =>
               sreq'[x].type = sreq[x].type /\ sreq'[x].env = sreq[x].env
    BY <1>4, <1>5
  <2> QED
    BY <1>1, <1>2, <2>1, ReceiverSame
<1>17. ASSUME NEW x \in Send PROVE Place(x)' /\ NotLost(x)'
  <2>1. Place(x) /\ NotLost(x)
    BY DEF PlacesInv, PlaceInv, LossInv
  <2>2. CASE x = m
    BY <1>4, <1>5, <1>6, <1>14, <1>16, <2>1, <2>2 DEF Place, NotLost
  <2>3. CASE x # m
    <3>1. On(x)' = On(x) /\ Un(x)' = Un(x) /\ Taken(x)' = Taken(x) /\ sreq'[x] = sreq[x]
      BY <1>5, <1>14, <1>16, <2>3
    <3> QED
      BY <2>1, <3>1 DEF Place, NotLost
  <2> QED
    BY <2>2, <2>3
<1>18. OrderInv'
  <2>1. \A x \in Send : sreq'[x].type = sreq[x].type
    BY <1>4, <1>5
  <2>2. \A x \in Send : On(x)' => On(x)
    BY <1>13
  <2>3. Ordered(unexp)'
    BY <1>1, <1>2 DEF OrderInv, Ordered
  <2> QED
    BY <1>1, <1>16, <2>1, <2>2, <2>3 DEF OrderInv
<1>19. PlaceInv' /\ LossInv'
  BY <1>17 DEF PlaceInv, LossInv
<1>20. PlacesInv'
  BY <1>13, <1>15, <1>16, <1>18, <1>19 DEF PlacesInv
<1>21. \E k \in 1..Len(line[s]) : /\ line[s][k].id = m /\ IsData(line[s][k])
                                  /\ line' = [line EXCEPT ![s] = RemoveAt(@, k)]
  BY <1>8, <1>9, <1>10, <1>11
<1> QED
  BY <1>2, <1>4, <1>5, <1>6, <1>14, <1>16, <1>20, <1>21 DEF n

(* The cancel of a message that has left: only a header of type CANCEL is new. *)
LEMMA AskPlaces ==
    ASSUME PlacesInv, NEW m \in Send, Cancel_send(m), sreq[m].pio # "posted"
    PROVE  /\ PlacesInv'
           /\ \A x \in Send : On(x)' = On(x) /\ Un(x)' = Un(x) /\ Taken(x)' = Taken(x)
           /\ \A x \in Send : x # m => sreq'[x] = sreq[x]
           /\ sreq' = [sreq EXCEPT ![m].asked = TRUE] /\ sreq'[m].asked = TRUE
           /\ \/ sreq[m].type # Sync /\ UNCHANGED line
              \/ sreq[m].type = Sync /\ line' = [line EXCEPT ![SrcOf[m]] = Append(@, Header(m, CANCEL))]
           /\ UNCHANGED <<rreq, posted, unexp, acks, ackq, uack>>
<1> DEFINE s == SrcOf[m]
           q == [sreq[m] EXCEPT !.asked = TRUE]
           h == Header(m, CANCEL)
<1>1. /\ TypeOK /\ LineInv /\ OrderInv /\ UnexpInv /\ RecvInv /\ PostedInv
      /\ sreq \in [Send -> SendRec] /\ s \in Sender /\ sreq[m] \in SendRec
      /\ line[s] \in Seq(Headers)
  BY TypeFacts DEF PlacesInv, TypeOK
<1>2. /\ sreq' = [sreq EXCEPT ![m] = q]
      /\ \/ sreq[m].type # Sync /\ UNCHANGED line
         \/ sreq[m].type = Sync /\ line' = [line EXCEPT ![s] = Append(@, h)]
      /\ UNCHANGED <<rreq, posted, unexp, acks, ackq, uack>>
  BY <1>1 DEF Cancel_send, Sync
<1>3. q \in SendRec /\ q.type = sreq[m].type /\ q.env = sreq[m].env /\ q.pio = sreq[m].pio
      /\ q.asked = TRUE
  BY <1>1 DEF SendRec
<1>4. h \in Headers /\ ~IsData(h) /\ h.id = m
  BY DEF Header, Headers, IsData
<1>5. sreq' = [sreq EXCEPT ![m].asked = TRUE]
  BY <1>2
<1> HIDE DEF q, h
<1>6. sreq' \in [Send -> SendRec] /\ sreq'[m] = q /\ \A x \in Send : x # m => sreq'[x] = sreq[x]
  BY <1>1, <1>2, <1>3
<1>7. \A x \in Send : /\ sreq'[x].type = sreq[x].type /\ sreq'[x].env = sreq[x].env
                      /\ sreq'[x].pio = sreq[x].pio
                      /\ sreq[x].asked => sreq'[x].asked
  BY <1>3, <1>6
<1>8. ASSUME NEW p \in Sender, NEW g \in Headers, LineEntry(p, g) PROVE LineEntry(p, g)'
  <2>1. g.id \in Send
    BY DEF Headers
  <2> QED
    BY <1>7, <1>8, <2>1 DEF LineEntry
<1>9. /\ line' \in [Sender -> Seq(Headers)] /\ LineInv'
      /\ \A x \in Send : On(x)' = On(x)
  <2>1. CASE sreq[m].type # Sync /\ UNCHANGED line
    <3>1. LineInv'
      BY <1>1, <1>8, <2>1, SameLine DEF LineInv
    <3> QED
      BY <1>1, <2>1, <3>1 DEF On, TypeOK
  <2>2. CASE sreq[m].type = Sync /\ line' = [line EXCEPT ![s] = Append(@, h)]
    <3>1. Ordered(Append(line[s], h))
      BY <1>1, <1>4, AppendOrdered DEF LineInv
    <3>2. LineEntry(s, h)'
      BY <1>3, <1>4, <1>6, <2>2 DEF LineEntry
    <3>3. /\ line' \in [Sender -> Seq(Headers)] /\ LineInv'
          /\ \A x \in Send : On(x) => On(x)'
          /\ \A x \in Send : On(x)' => On(x) \/ (x = h.id /\ IsData(h))
      BY <1>1, <1>4, <1>8, <2>2, <3>1, <3>2, LineAppend
    <3>4. \A x \in Send : On(x)' = On(x)
      BY <1>4, <3>3 DEF On, InSeq
    <3> QED
      BY <3>3, <3>4
  <2> QED
    BY <1>2, <2>1, <2>2
<1>10. TypeOK'
  BY <1>1, <1>2, <1>6, <1>9 DEF TypeOK
<1>11. /\ UnexpInv' /\ RecvInv' /\ PostedInv'
       /\ \A x \in Send : Un(x)' = Un(x) /\ Taken(x)' = Taken(x)
  BY <1>1, <1>2, <1>7, ReceiverSame
<1>12. PlaceInv' /\ LossInv'
  <2> SUFFICES ASSUME NEW x \in Send PROVE Place(x)' /\ NotLost(x)'
    BY DEF PlaceInv, LossInv
  <2>1. Place(x) /\ NotLost(x)
    BY DEF PlacesInv, PlaceInv, LossInv
  <2>2. On(x)' = On(x) /\ Un(x)' = Un(x) /\ Taken(x)' = Taken(x)
        /\ sreq'[x].type = sreq[x].type /\ sreq'[x].pio = sreq[x].pio
    BY <1>7, <1>9, <1>11
  <2> QED
    BY <2>1, <2>2 DEF Place, NotLost
<1>13. OrderInv'
  <2>1. Ordered(unexp)'
    BY <1>1, <1>2 DEF OrderInv, Ordered
  <2> QED
    BY <1>1, <1>7, <1>9, <1>11, <2>1 DEF OrderInv
<1>14. PlacesInv'
  BY <1>9, <1>10, <1>11, <1>12, <1>13 DEF PlacesInv
<1> QED
  BY <1>2, <1>3, <1>5, <1>6, <1>9, <1>11, <1>14 DEF h

-----------------------------------------------------------------------------
(* Steps of the receiver *)

(* A step that moves no message but m, and m only forward. *)
LEMMA MovedPlace ==
    ASSUME PlacesInv, UNCHANGED sreq, NEW m \in Send,
           \A x \in Send : x # m => On(x)' = On(x) /\ Un(x)' = Un(x) /\ Taken(x)' = Taken(x),
           Place(m)', NotLost(m)', Ordered(unexp)', On(m)' => On(m),
           Un(m)' => Un(m) \/ \A y \in Send : SrcOf[y] = SrcOf[m] /\ On(y)' => m < y
    PROVE  PlaceInv' /\ LossInv' /\ OrderInv'
<1>1. ASSUME NEW x \in Send PROVE Place(x)' /\ NotLost(x)'
  <2>1. CASE x = m
    BY <2>1
  <2>2. CASE x # m
    <3>1. On(x)' = On(x) /\ Un(x)' = Un(x) /\ Taken(x)' = Taken(x)
      BY <2>2
    <3>2. Place(x) /\ NotLost(x)
      BY DEF PlacesInv, PlaceInv, LossInv
    <3> QED
      BY <3>1, <3>2 DEF Place, NotLost
  <2> QED
    BY <2>1, <2>2
<1>2. ASSUME NEW x \in Send, NEW y \in Send, SrcOf[x] = SrcOf[y], Un(x)', On(y)'
      PROVE  x < y
  <2>1. On(y)
    BY <1>2
  <2>2. CASE Un(x)
    BY <1>2, <2>1, <2>2 DEF PlacesInv, OrderInv
  <2>3. CASE ~Un(x)
    <3>1. x = m
      BY <1>2, <2>3
    <3> QED
      BY <1>2, <2>3, <3>1
  <2> QED
    BY <2>2, <2>3
<1>3. OrderInv'
  BY <1>2 DEF PlacesInv, OrderInv
<1> QED
  BY <1>1, <1>3 DEF PlaceInv, LossInv

(* Request r changes to q. *)
LEMMA TakenStep ==
    ASSUME TypeOK, NEW r \in Recv, NEW q \in RecvRec, rreq' = [rreq EXCEPT ![r] = q]
    PROVE  /\ rreq' \in [Recv -> RecvRec] /\ rreq'[r] = q
           /\ \A x \in Recv : x # r => rreq'[x] = rreq[x]
           /\ q.msg = rreq[r].msg => \A x \in Send : Taken(x)' = Taken(x)
           /\ rreq[r].msg = {} => \A x \in Send : x \notin q.msg => Taken(x)' = Taken(x)
           /\ \A x \in Send : q.msg = {x} => Taken(x)'
<1>1. rreq \in [Recv -> RecvRec]
  BY DEF TypeOK
<1>2. /\ rreq' \in [Recv -> RecvRec] /\ rreq'[r] = q
      /\ \A x \in Recv : x # r => rreq'[x] = rreq[x]
  BY <1>1
<1>3. ASSUME q.msg = rreq[r].msg, NEW x \in Send PROVE Taken(x)' = Taken(x)
  <2>1. \A y \in Recv : rreq'[y].msg = rreq[y].msg
    BY <1>2, <1>3
  <2> QED
    BY <2>1 DEF Taken
<1>4. ASSUME rreq[r].msg = {}, NEW x \in Send, x \notin q.msg PROVE Taken(x)' = Taken(x)
  <2>1. rreq'[r].msg # {x} /\ rreq[r].msg # {x}
    BY <1>2, <1>4
  <2>2. \A y \in Recv : (rreq'[y].msg = {x}) = (rreq[y].msg = {x})
    BY <1>2, <2>1
  <2> QED
    BY <2>2 DEF Taken
<1>5. \A x \in Send : q.msg = {x} => Taken(x)'
  BY <1>2 DEF Taken
<1> QED
  BY <1>2, <1>3, <1>4, <1>5

(* The head of a line moves to the receiver. *)
LEMMA HeadLeaves ==
    ASSUME TypeOK, LineInv, UNCHANGED sreq, NEW s \in Sender, line[s] # <<>>,
           line' = [line EXCEPT ![s] = Tail(@)]
    PROVE  \E h \in Headers :
              /\ h = Head(line[s]) /\ h = line[s][1] /\ LineEntry(s, h) /\ h.id \in Send
              /\ line' \in [Sender -> Seq(Headers)] /\ LineInv'
              /\ IsData(h) => On(h.id) /\ ~On(h.id)'
              /\ IsData(h) => \A x \in Send : x # h.id => On(x)' = On(x)
              /\ ~IsData(h) => \A x \in Send : On(x)' = On(x)
              /\ IsData(h) => \A x \in Send : SrcOf[x] = s /\ On(x)' => h.id < x
              /\ Without(line'[s], line[s], 1) /\ Len(line'[s]) = Len(line[s]) - 1
              /\ 1 \in 1..Len(line[s]) /\ \A k \in 1..Len(line'[s]) : line'[s][k] = line[s][k + 1]
              /\ \A p \in Sender : p # s => line'[p] = line[p]
<1>1. line \in [Sender -> Seq(Headers)] /\ line[s] \in Seq(Headers)
  BY DEF TypeOK
<1>2. PICK d \in Seq(Headers) : d = Tail(line[s]) /\ Without(d, line[s], 1)
  BY <1>1, TailWithout
<1>3. 1 \in 1..Len(line[s]) /\ Head(line[s]) = line[s][1]
  BY <1>1, TailWithout
<1>4. PICK h \in Headers : h = line[s][1]
  BY <1>3, TypeFacts
<1>5. line' = [line EXCEPT ![s] = d]
  BY <1>2
<1>6. \A p \in Sender, g \in Headers : LineEntry(p, g) => LineEntry(p, g)'
  BY DEF LineEntry
<1>7. /\ line' \in [Sender -> Seq(Headers)]
      /\ LineInv'
      /\ \A x \in Send : On(x)' => On(x)
      /\ \A x \in Send : On(x) /\ (x # h.id \/ ~IsData(h)) => On(x)'
      /\ IsData(h) => ~On(h.id)'
  BY <1>2, <1>3, <1>4, <1>5, <1>6, LineWithout, ZenonT(60)
<1>8. LineEntry(s, h) /\ h.id \in Send
  BY <1>3, <1>4 DEF LineInv, Headers
<1>9. IsData(h) => On(h.id)
  <2>1. IsData(h) => InSeq(line[s], h.id)
    BY <1>1, <1>3, <1>4, InSeqMeans
  <2>2. SrcOf[h.id] = s
    BY <1>8 DEF LineEntry
  <2> QED
    BY <2>1, <2>2 DEF On
<1>10. /\ IsData(h) => \A x \in Send : x # h.id => On(x)' = On(x)
       /\ ~IsData(h) => \A x \in Send : On(x)' = On(x)
  <2>1. ASSUME NEW x \in Send, x # h.id \/ ~IsData(h) PROVE On(x)' = On(x)
    BY <1>7, <2>1 DEF On, InSeq
  <2> QED
    BY <2>1
<1>11. ASSUME IsData(h), NEW x \in Send, SrcOf[x] = s, On(x)' PROVE h.id < x
  <2>1. On(x) /\ x # h.id
    BY <1>7, <1>11
  <2>2. PICK k \in 1..Len(line[s]) : line[s][k].id = x /\ IsData(line[s][k])
    BY <1>1, <1>11, <2>1, InSeqMeans DEF On
  <2>3. 1 < k
    BY <1>4, <2>1, <2>2
  <2>4. SrcOf[h.id] = s /\ Ordered(line[s])
    BY <1>8 DEF LineEntry, LineInv
  <2> QED
    BY <1>3, <1>4, <1>11, <2>2, <2>3, <2>4 DEF Ordered
<1>12. line'[s] = d /\ Len(d) = Len(line[s]) - 1 /\ \A k \in 1..Len(d) : d[k] = line[s][k + 1]
  <2>1. line'[s] = Tail(line[s])
    BY <1>1
  <2>2. Len(Tail(line[s])) = Len(line[s]) - 1
        /\ \A k \in 1..Len(Tail(line[s])) : Tail(line[s])[k] = line[s][k + 1]
    BY <1>1
  <2> QED
    BY <1>2, <2>1, <2>2
<1>13. \A p \in Sender : p # s => line'[p] = line[p]
  BY <1>1
<1> QED
  BY <1>2, <1>3, <1>4, <1>7, <1>8, <1>9, <1>10, <1>11, <1>12, <1>13

(* The list of posted receives is in program order and holds the posted ones. *)
PostedList ==
    /\ \A i, j \in 1..Len(posted) : i < j => posted[i] < posted[j]
    /\ \A i \in 1..Len(posted) : rreq[posted[i]].st = "posted"
    /\ \A r \in Recv : rreq[r].st = "posted" => \E i \in 1..Len(posted) : posted[i] = r

(* A posted receive leaves the list. *)
LEMMA PostedWithout ==
    ASSUME TypeOK, PostedList, NEW i \in 1..Len(posted), posted' = RemoveAt(posted, i),
           rreq'[posted[i]].st # "posted",
           \A x \in Recv : x # posted[i] => rreq'[x] = rreq[x]
    PROVE  PostedList' /\ posted' \in Seq(Recv)
<1>1. posted \in Seq(Recv) /\ \A k \in 1..Len(posted) : posted[k] \in Recv /\ posted[k] \in Nat
  BY TypeFacts, SendAssumption
<1>2. posted' \in Seq(Recv) /\ Without(posted', posted, i)
  BY <1>1, RemoveAtFacts, RemoveAtWithout
<1>3. \A k, n \in 1..Len(posted') : k < n => \E l, o \in 1..Len(posted) :
          l < o /\ l # i /\ o # i /\ posted'[k] = posted[l] /\ posted'[n] = posted[o]
  BY <1>2 DEF Without
<1>4. \A k \in 1..Len(posted') : \E l \in 1..Len(posted) : l # i /\ posted'[k] = posted[l]
  BY <1>2 DEF Without
<1>5. \A l \in 1..Len(posted) : l # i => \E k \in 1..Len(posted') : posted'[k] = posted[l]
  BY <1>2 DEF Without
<1>6. ASSUME NEW k \in 1..Len(posted'), NEW n \in 1..Len(posted'), k < n
      PROVE  posted'[k] < posted'[n]
  <2>1. PICK l \in 1..Len(posted) : \E o \in 1..Len(posted) :
                l < o /\ l # i /\ o # i /\ posted'[k] = posted[l] /\ posted'[n] = posted[o]
    BY <1>3, <1>6
  <2>2. PICK o \in 1..Len(posted) : l < o /\ posted'[k] = posted[l] /\ posted'[n] = posted[o]
    BY <2>1
  <2>3. posted[l] < posted[o]
    BY <2>2 DEF PostedList
  <2> QED
    BY <2>2, <2>3
<1>7. ASSUME NEW l \in 1..Len(posted), l # i PROVE posted[l] # posted[i]
  <2>1. l < i \/ i < l
    BY <1>7
  <2> QED
    BY <1>1, <2>1 DEF PostedList
<1>8. ASSUME NEW k \in 1..Len(posted') PROVE rreq'[posted'[k]].st = "posted"
  <2>1. PICK l \in 1..Len(posted) : l # i /\ posted'[k] = posted[l]
    BY <1>4
  <2>2. posted[l] # posted[i] /\ posted[l] \in Recv /\ rreq[posted[l]].st = "posted"
    BY <1>1, <1>7, <2>1 DEF PostedList
  <2> QED
    BY <2>1, <2>2
<1>9. ASSUME NEW r \in Recv, rreq'[r].st = "posted"
      PROVE  \E k \in 1..Len(posted') : posted'[k] = r
  <2>1. r # posted[i] /\ rreq[r].st = "posted"
    BY <1>9
  <2>2. PICK l \in 1..Len(posted) : posted[l] = r
    BY <2>1 DEF PostedList
  <2> QED
    BY <1>5, <2>1, <2>2
<1> QED
  BY <1>2, <1>6, <1>8, <1>9 DEF PostedList

(* The cases of RecvData. *)
LEMMA RecvDataCases ==
    ASSUME TypeOK, NEW s \in Sender, RecvData(s)
    PROVE  /\ line[s] # <<>> /\ IsData(Head(line[s])) /\ sreq[Head(line[s]).id].pio # "posted"
           /\ line' = [line EXCEPT ![s] = Tail(@)] /\ UNCHANGED <<sreq, acks, ackq, uack>>
           /\ \/ /\ unexp' = Append(unexp, Head(line[s])) /\ UNCHANGED <<rreq, posted>>
                 /\ \A i \in 1..Len(posted) : ~AcceptData(rreq[posted[i]].sel, Head(line[s]))
              \/ \E i \in 1..Len(posted) :
                    /\ AcceptData(rreq[posted[i]].sel, Head(line[s]))
                    /\ \A k \in 1..Len(posted) : k < i => ~AcceptData(rreq[posted[k]].sel, Head(line[s]))
                    /\ rreq' = [rreq EXCEPT ![posted[i]] = Matched(@, Head(line[s]))]
                    /\ posted' = RemoveAt(posted, i) /\ UNCHANGED unexp
<1> DEFINE h == Head(line[s])
           I == {i \in 1..Len(posted) : AcceptData(rreq[posted[i]].sel, h)}
<1>1. SelectInSeq(posted, LAMBDA r : AcceptData(rreq[r].sel, h)) = First(I)
  BY DEF SelectInSeq, First
<1>2. Len(posted) \in Nat
  BY TypeFacts
<1>3. /\ First(I) = 0 => I = {}
      /\ First(I) # 0 => First(I) \in I
      /\ First(I) # 0 => \A k \in I : First(I) <= k
  BY <1>2, FirstFacts
<1>4. /\ line[s] # <<>> /\ IsData(h) /\ sreq[h.id].pio # "posted"
      /\ line' = [line EXCEPT ![s] = Tail(@)] /\ UNCHANGED <<sreq, acks, ackq, uack>>
      /\ IF First(I) = 0
         THEN unexp' = Append(unexp, h) /\ UNCHANGED <<rreq, posted>>
         ELSE /\ rreq' = [rreq EXCEPT ![posted[First(I)]] = Matched(@, h)]
              /\ posted' = RemoveAt(posted, First(I))
              /\ UNCHANGED unexp
  BY <1>1 DEF RecvData, IsData
<1>5. CASE First(I) = 0
  <2>1. \A i \in 1..Len(posted) : ~AcceptData(rreq[posted[i]].sel, h)
    BY <1>3, <1>5
  <2> QED
    BY <1>4, <1>5, <2>1
<1>6. CASE First(I) # 0
  <2>1. PICK i \in 1..Len(posted) : AcceptData(rreq[posted[i]].sel, h) /\ i = First(I)
    BY <1>3, <1>6
  <2>2. \A k \in 1..Len(posted) : k < i => ~AcceptData(rreq[posted[k]].sel, h)
    <3>1. \A k \in I : i <= k
      BY <1>3, <1>6, <2>1
    <3> QED
      BY <3>1
  <2> HIDE DEF I, h
  <2> QED
    BY <1>4, <1>6, <2>1, <2>2 DEF h
<1> QED
  BY <1>5, <1>6

(* The record of a receive that is matched. *)
LEMMA MatchedFacts ==
    ASSUME NEW q \in RecvRec, NEW h \in Headers, IsData(h)
    PROVE  /\ Matched(q, h) \in RecvRec /\ Matched(q, h).st = "matched"
           /\ Matched(q, h).sel = q.sel /\ Matched(q, h).type = h.type
           /\ Matched(q, h).msg = {h.id}
<1>1. h.type \in {"none"} \cup DataTypes \cup Reserved /\ {h.id} \in SUBSET Send
  BY DEF Headers, IsData
<1> QED
  BY <1>1 DEF Matched, RecvRec

(* A message that is not received yet waits in the list of unexpected messages. *)
LEMMA RecvUnexpPlaces ==
    ASSUME PlacesInv, NEW s \in Sender, RecvData(s),
           unexp' = Append(unexp, Head(line[s])), UNCHANGED <<rreq, posted>>,
           \A i \in 1..Len(posted) : ~AcceptData(rreq[posted[i]].sel, Head(line[s]))
    PROVE  \E m \in Send :
              /\ PlacesInv' /\ On(m) /\ ~On(m)' /\ ~Un(m) /\ Un(m)' /\ ~Taken(m) /\ ~Taken(m)'
              /\ \A x \in Send : x # m => On(x)' = On(x) /\ Un(x)' = Un(x)
              /\ \A x \in Send : Taken(x)' = Taken(x)
<1>1. /\ TypeOK /\ LineInv /\ OrderInv /\ UnexpInv /\ RecvInv /\ PostedInv
      /\ unexp \in Seq(Headers) /\ Len(unexp) \in Nat
  BY TypeFacts DEF PlacesInv
<1>2. /\ line[s] # <<>> /\ IsData(Head(line[s])) /\ sreq[Head(line[s]).id].pio # "posted"
      /\ line' = [line EXCEPT ![s] = Tail(@)] /\ UNCHANGED <<sreq, acks, ackq, uack>>
  BY <1>1, RecvDataCases
<1>3. PICK h \in Headers :
              /\ h = Head(line[s]) /\ LineEntry(s, h) /\ h.id \in Send
              /\ line' \in [Sender -> Seq(Headers)] /\ LineInv'
              /\ IsData(h) => On(h.id) /\ ~On(h.id)'
              /\ IsData(h) => \A x \in Send : x # h.id => On(x)' = On(x)
              /\ IsData(h) => \A x \in Send : SrcOf[x] = s /\ On(x)' => h.id < x
  BY <1>1, <1>2, HeadLeaves
<1>4. IsData(h) /\ unexp' = Append(unexp, h)
  BY <1>2, <1>3
<1>5. PICK m \in Send : m = h.id
  BY <1>3
<1>6. On(m) /\ ~On(m)' /\ ~Un(m) /\ ~Taken(m) /\ sreq[m].pio \in {"started", "done"}
  <2>1. Place(m)
    BY DEF PlacesInv, PlaceInv
  <2>2. On(m) /\ ~On(m)' /\ sreq[m].pio # "posted"
    BY <1>2, <1>3, <1>4, <1>5
  <2> QED
    BY <2>1, <2>2 DEF Place
<1>7. /\ unexp' \in Seq(Headers) /\ Un(m)'
      /\ \A x \in Send : x # m => Un(x)' = Un(x)
  <2>1. ASSUME NEW x \in Send, x # m PROVE Un(x)' = Un(x)
    BY <1>1, <1>4, <1>5, <2>1, InAppend DEF Un, InSeq
  <2> QED
    BY <1>1, <1>4, <1>5, <2>1, InAppend DEF Un
<1>8. \A x \in Send : Taken(x)' = Taken(x)
  BY DEF Taken
<1>9. Ordered(unexp)'
  <2>1. ASSUME NEW x, InSeq(unexp, x), SrcOf[x] = SrcOf[h.id] PROVE x < h.id
    <3>1. x \in Send
      BY <1>1, <2>1, InSeqMeans, TypeFacts
    <3> QED
      BY <1>1, <1>5, <1>6, <2>1, <3>1 DEF OrderInv, Un
  <2>2. Ordered(Append(unexp, h))
    BY <1>1, <1>4, <2>1, AppendOrdered DEF OrderInv
  <2> QED
    BY <1>4, <2>2 DEF Ordered
<1>10. PlaceInv' /\ LossInv' /\ OrderInv'
  <2>1. Place(m)' /\ NotLost(m)'
    <3>1. Place(m)
      BY DEF PlacesInv, PlaceInv
    <3> QED
      BY <1>2, <1>6, <1>7, <1>8, <3>1 DEF Place, NotLost
  <2>2. \A y \in Send : SrcOf[y] = SrcOf[m] /\ On(y)' => m < y
    BY <1>3, <1>4, <1>5 DEF LineEntry
  <2>3. \A x \in Send : x # m => On(x)' = On(x) /\ Un(x)' = Un(x) /\ Taken(x)' = Taken(x)
    BY <1>3, <1>4, <1>5, <1>7, <1>8
  <2> QED
    BY <1>2, <1>6, <1>9, <2>1, <2>2, <2>3, MovedPlace
<1>11. /\ Len(unexp') = Len(unexp) + 1 /\ unexp'[Len(unexp) + 1] = h
       /\ \A k \in 1..Len(unexp) : unexp'[k] = unexp[k]
  BY <1>1, <1>4
<1>12. \A k \in 1..Len(unexp') : k \in 1..Len(unexp) \/ k = Len(unexp) + 1
  BY <1>1, <1>11
<1>13. h.type \notin Reserved /\ Restored(h.type) = sreq[m].type
  <2>1. h.type = sreq[m].type /\ sreq[m] \in SendRec
    BY <1>1, <1>3, <1>4, <1>5, TypeFacts DEF LineEntry
  <2>2. h.type \in DataTypes
    BY <2>1 DEF SendRec, Headers, DataTypes, Reserved, CANCEL
  <2> QED
    BY <2>1, <2>2 DEF DataTypes, Reserved, Restored
<1>14. UnexpInv'
  <2> SUFFICES ASSUME NEW k \in 1..Len(unexp') PROVE UnexpEntry(unexp[k])'
    BY DEF UnexpInv
  <2>1. CASE k \in 1..Len(unexp)
    <3>1. UnexpEntry(unexp[k]) /\ unexp'[k] = unexp[k] /\ unexp[k].id \in Send
      BY <1>1, <1>11, <2>1, TypeFacts DEF UnexpInv
    <3> QED
      BY <1>2, <1>8, <3>1 DEF UnexpEntry
  <2>2. CASE k = Len(unexp) + 1
    <3>1. unexp'[k] = h /\ ~Taken(m)'
      BY <1>6, <1>8, <1>11, <2>2
    <3> QED
      BY <1>2, <1>4, <1>5, <1>13, <3>1 DEF UnexpEntry
  <2> QED
    BY <1>12, <2>1, <2>2
<1>15. RecvInv'
  <2>1. ASSUME NEW r \in Recv PROVE RecvEntry(r)'
    <3>1. RecvEntry(r)
      BY <1>1 DEF RecvInv
    <3>2. \A i \in 1..Len(unexp) : i \in 1..Len(unexp') /\ unexp'[i] = unexp[i]
      BY <1>1, <1>11
    <3> QED
      BY <1>2, <3>1, <3>2 DEF RecvEntry
  <2> QED
    BY <1>1, <2>1 DEF RecvInv
<1>16. PostedInv'
  <2>1. ASSUME NEW r \in Recv, NEW k \in 1..Len(unexp'), rreq[r].st = "posted"
        PROVE  ~AcceptData(rreq[r].sel, unexp[k])'
    <3>1. CASE k \in 1..Len(unexp)
      <4>1. ~AcceptData(rreq[r].sel, unexp[k]) /\ unexp'[k] = unexp[k]
        BY <1>1, <1>11, <2>1, <3>1 DEF PostedInv
      <4> QED
        BY <1>2, <4>1 DEF AcceptData
    <3>2. CASE k = Len(unexp) + 1
      <4>1. PICK i \in 1..Len(posted) : posted[i] = r
        BY <1>1, <2>1 DEF PostedInv
      <4>2. ~AcceptData(rreq[r].sel, h) /\ unexp'[k] = h
        BY <1>3, <1>11, <3>2, <4>1
      <4> QED
        BY <1>2, <4>2 DEF AcceptData
    <3> QED
      BY <1>12, <3>1, <3>2
  <2> QED
    BY <1>1, <2>1 DEF PostedInv
<1>17. TypeOK'
  BY <1>1, <1>2, <1>3, <1>7 DEF TypeOK
<1>18. PlacesInv'
  BY <1>3, <1>10, <1>14, <1>15, <1>16, <1>17 DEF PlacesInv
<1> QED
  BY <1>3, <1>4, <1>5, <1>6, <1>7, <1>8, <1>18

(* Request r, which had no message, gets m; reserved messages stay in the list. *)
LEMMA RecvMatched ==
    ASSUME TypeOK, RecvInv, UNCHANGED sreq, NEW r \in Recv, NEW q \in RecvRec,
           rreq' = [rreq EXCEPT ![r] = q], rreq[r].msg = {}, NEW m \in Send, ~Taken(m),
           q.msg = {m}, q.st = "matched", Restored(q.type) = sreq[m].type,
           \A x \in Recv : x < r => rreq[x].st # "none",
           \A k \in 1..Len(unexp) : unexp[k].type \in Reserved =>
               \E l \in 1..Len(unexp') : unexp'[l] = unexp[k]
    PROVE  RecvInv'
<1>1. rreq'[r] = q /\ \A x \in Recv : x # r => rreq'[x] = rreq[x]
  BY DEF TypeOK
<1>2. ASSUME NEW x \in Recv PROVE RecvEntry(x)'
  <2>1. CASE x = r
    <3>1. rreq'[x].st = "matched" /\ rreq'[x].msg = {m} /\ Restored(rreq'[x].type) = sreq'[m].type
      BY <1>1, <2>1
    <3> QED
      BY <3>1 DEF RecvEntry
  <2>2. CASE x # r
    <3>1. RecvEntry(x) /\ rreq'[x] = rreq[x]
      BY <1>1, <2>2 DEF RecvInv
    <3> QED
      BY <3>1 DEF RecvEntry
  <2> QED
    BY <2>1, <2>2
<1>3. ASSUME NEW x \in Recv, NEW y \in Recv, x # y, rreq'[x].msg = rreq'[y].msg
      PROVE  rreq'[x].msg = {}
  <2>1. \A z \in Recv : rreq[z].msg # {m}
    BY DEF Taken
  <2>2. x # r /\ y # r
    BY <1>1, <1>3, <2>1
  <2> QED
    BY <1>1, <1>3, <2>2 DEF RecvInv
<1>4. ASSUME NEW x \in Recv, NEW y \in Recv, y < x, rreq'[x].st # "none"
      PROVE  rreq'[y].st # "none"
  <2>1. CASE y = r
    BY <1>1, <2>1
  <2>2. CASE y # r /\ x = r
    BY <1>1, <1>4, <2>2
  <2>3. CASE y # r /\ x # r
    BY <1>1, <1>4, <2>3 DEF RecvInv
  <2> QED
    BY <2>1, <2>2, <2>3
<1> QED
  BY <1>2, <1>3, <1>4 DEF RecvInv

(* The entries that stay in the list of unexpected messages when m is taken by *)
(* a request r that had reserved none.                                         *)
LEMMA UnexpKept ==
    ASSUME TypeOK, UnexpInv, UNCHANGED sreq, NEW m \in Send, NEW r \in Recv,
           rreq[r].st # "message", \A x \in Recv : x # r => rreq'[x] = rreq[x],
           \A x \in Send : x # m => Taken(x)' = Taken(x),
           \A k \in 1..Len(unexp') : \E l \in 1..Len(unexp) : unexp'[k] = unexp[l] /\ unexp[l].id # m
    PROVE  UnexpInv'
<1> SUFFICES ASSUME NEW k \in 1..Len(unexp') PROVE UnexpEntry(unexp[k])'
  BY DEF UnexpInv
<1>1. PICK l \in 1..Len(unexp) : unexp'[k] = unexp[l] /\ unexp[l].id # m
  OBVIOUS
<1>2. UnexpEntry(unexp[l]) /\ unexp[l].id \in Send
  BY TypeFacts DEF UnexpInv
<1>3. PICK h : h = unexp[l]
  OBVIOUS
<1>4. IsData(h) /\ Restored(h.type) = sreq'[h.id].type /\ Taken(h.id)' = Taken(h.id)
  BY <1>1, <1>2, <1>3 DEF UnexpEntry
<1>5. ASSUME h.type \in Reserved
      PROVE  \E x \in Recv : rreq'[x].st = "message" /\ rreq'[x].msg = {h.id} /\ rreq'[x].type = h.type
  <2>1. PICK x \in Recv : rreq[x].st = "message" /\ rreq[x].msg = {h.id} /\ rreq[x].type = h.type
    BY <1>2, <1>3, <1>5 DEF UnexpEntry
  <2>2. rreq'[x] = rreq[x]
    BY <2>1
  <2> QED
    BY <2>1, <2>2
<1>6. h.type \notin Reserved => ~Taken(h.id)'
  BY <1>2, <1>3, <1>4 DEF UnexpEntry
<1> QED
  BY <1>1, <1>3, <1>4, <1>5, <1>6 DEF UnexpEntry

(* No posted receive accepts an unexpected message, if both lists only shrink. *)
LEMMA StillNotAccepted ==
    ASSUME PostedInv, UNCHANGED sreq,
           \A x \in Recv : rreq'[x].st = "posted" => rreq'[x] = rreq[x],
           \A k \in 1..Len(unexp') : \E l \in 1..Len(unexp) :
               unexp'[k].id = unexp[l].id /\ (unexp'[k].type = unexp[l].type
                                                \/ unexp'[k].type \notin DataTypes)
    PROVE  (\A x \in Recv, k \in 1..Len(unexp) :
               rreq[x].st = "posted" => ~AcceptData(rreq[x].sel, unexp[k]))'
<1> SUFFICES ASSUME NEW x \in Recv, NEW k \in 1..Len(unexp'), rreq'[x].st = "posted"
             PROVE  ~AcceptData(rreq[x].sel, unexp[k])'
  OBVIOUS
<1>1. PICK l \in 1..Len(unexp) : unexp'[k].id = unexp[l].id
                                    /\ (unexp'[k].type = unexp[l].type
                                          \/ unexp'[k].type \notin DataTypes)
  OBVIOUS
<1>2. rreq'[x] = rreq[x]
  OBVIOUS
<1>3. ~AcceptData(rreq[x].sel, unexp[l])
  BY <1>2 DEF PostedInv
<1> QED
  BY <1>1, <1>2, <1>3 DEF AcceptData

(* A posted receive takes the message that arrives. *)
LEMMA RecvMatchPlaces ==
    ASSUME PlacesInv, NEW s \in Sender, RecvData(s), NEW i \in 1..Len(posted),
           AcceptData(rreq[posted[i]].sel, Head(line[s])),
           rreq' = [rreq EXCEPT ![posted[i]] = Matched(@, Head(line[s]))],
           posted' = RemoveAt(posted, i), UNCHANGED unexp
    PROVE  \E m \in Send :
              /\ PlacesInv' /\ On(m) /\ ~On(m)' /\ ~Un(m) /\ ~Taken(m) /\ Taken(m)' /\ m = Head(line[s]).id
              /\ \A x \in Send : x # m => On(x)' = On(x) /\ Taken(x)' = Taken(x)
              /\ \A x \in Send : Un(x)' = Un(x)
              /\ rreq[posted[i]].st = "posted" /\ rreq[posted[i]].msg = {}
              /\ rreq' = [rreq EXCEPT ![posted[i]] = [@ EXCEPT !.st = "matched", !.type = sreq[m].type, !.msg = {m}]]
              /\ rreq'[posted[i]].st = "matched" /\ rreq'[posted[i]].msg = {m}
              /\ rreq'[posted[i]].sel = rreq[posted[i]].sel
              /\ \A x \in Recv : x # posted[i] => rreq'[x] = rreq[x]
<1>1. /\ TypeOK /\ LineInv /\ OrderInv /\ UnexpInv /\ RecvInv /\ PostedInv
      /\ unexp \in Seq(Headers) /\ Len(unexp) \in Nat
  BY TypeFacts DEF PlacesInv
<1>2. /\ line[s] # <<>> /\ IsData(Head(line[s])) /\ sreq[Head(line[s]).id].pio # "posted"
      /\ line' = [line EXCEPT ![s] = Tail(@)] /\ UNCHANGED <<sreq, acks, ackq, uack>>
  BY <1>1, RecvDataCases
<1>3. PICK h \in Headers :
              /\ h = Head(line[s]) /\ LineEntry(s, h) /\ h.id \in Send
              /\ line' \in [Sender -> Seq(Headers)] /\ LineInv'
              /\ IsData(h) => On(h.id) /\ ~On(h.id)'
              /\ IsData(h) => \A x \in Send : x # h.id => On(x)' = On(x)
  BY <1>1, <1>2, HeadLeaves
<1>4. PICK m \in Send : m = h.id
  BY <1>3
<1>5. PICK r \in Recv : r = posted[i]
  BY <1>1, TypeFacts
<1>6. /\ rreq[r] \in RecvRec /\ rreq[r].st = "posted" /\ rreq[r].msg = {}
      /\ \A x \in Recv : x < r => rreq[x].st # "none"
  <2>1. rreq[r] \in RecvRec /\ rreq[r].st = "posted"
    BY <1>1, <1>5, TypeFacts DEF PostedInv
  <2> QED
    BY <1>1, <2>1 DEF RecvInv, RecvEntry
<1>7. IsData(h)
  BY <1>2, <1>3
<1>8. PICK q \in RecvRec : /\ q = Matched(rreq[r], h) /\ q.st = "matched" /\ q.sel = rreq[r].sel
                           /\ q.type = h.type /\ q.msg = {h.id}
  BY <1>6, <1>7, MatchedFacts
<1>9. rreq' = [rreq EXCEPT ![r] = q]
  BY <1>3, <1>5, <1>8
<1>10. On(m) /\ ~On(m)' /\ ~Un(m) /\ ~Taken(m) /\ sreq[m].pio \in {"started", "done"}
  <2>1. Place(m)
    BY DEF PlacesInv, PlaceInv
  <2>2. On(m) /\ ~On(m)' /\ sreq[m].pio # "posted"
    BY <1>2, <1>3, <1>4, <1>7
  <2> QED
    BY <2>1, <2>2 DEF Place
<1>11. /\ rreq' \in [Recv -> RecvRec] /\ rreq'[r] = q
       /\ \A x \in Recv : x # r => rreq'[x] = rreq[x]
       /\ \A x \in Send : x # m => Taken(x)' = Taken(x)
       /\ Taken(m)'
  <2>1. q.msg = {m} /\ \A x \in Send : x # m => x \notin q.msg
    BY <1>4, <1>8
  <2> QED
    BY <1>1, <1>6, <1>9, <2>1, TakenStep
<1>12. \A x \in Send : Un(x)' = Un(x)
  BY DEF Un
<1>13. \A x \in Send : x # m => On(x)' = On(x)
  BY <1>3, <1>4, <1>7
<1>14. PlaceInv' /\ LossInv' /\ OrderInv'
  <2>1. Place(m)' /\ NotLost(m)'
    <3>1. Place(m)
      BY DEF PlacesInv, PlaceInv
    <3> QED
      BY <1>2, <1>10, <1>11, <1>12, <3>1 DEF Place, NotLost
  <2>2. Ordered(unexp)'
    BY <1>1 DEF OrderInv, Ordered
  <2> QED
    BY <1>2, <1>10, <1>11, <1>12, <1>13, <2>1, <2>2, MovedPlace
<1>15. h.type = sreq[m].type /\ Restored(h.type) = sreq[m].type
  <2>1. h.type = sreq[m].type /\ sreq[m] \in SendRec
    BY <1>1, <1>3, <1>4, <1>7, TypeFacts DEF LineEntry
  <2>2. h.type \in DataTypes
    BY <2>1 DEF SendRec, Headers, DataTypes, Reserved, CANCEL
  <2> QED
    BY <2>1, <2>2 DEF DataTypes, Reserved, Restored
<1>16. RecvInv'
  <2>1. q.msg = {m} /\ q.st = "matched" /\ Restored(q.type) = sreq[m].type
    BY <1>4, <1>8, <1>15
  <2>2. \A k \in 1..Len(unexp) : unexp[k].type \in Reserved =>
               \E l \in 1..Len(unexp') : unexp'[l] = unexp[k]
    OBVIOUS
  <2> QED
    BY <1>1, <1>2, <1>6, <1>9, <1>10, <2>1, <2>2, RecvMatched
<1>17. UnexpInv'
  <2>1. ASSUME NEW k \in 1..Len(unexp) PROVE unexp[k].id # m
    <3>1. UnexpEntry(unexp[k])
      BY <1>1 DEF UnexpInv
    <3> QED
      BY <1>1, <1>10, <3>1, InSeqMeans DEF UnexpEntry, Un
  <2> QED
    BY <1>1, <1>2, <1>6, <1>11, <2>1, UnexpKept
<1>18. PostedList' /\ posted' \in Seq(Recv)
  <2>1. PostedList
    BY <1>1 DEF PostedInv, PostedList
  <2> QED
    BY <1>1, <1>5, <1>8, <1>11, <2>1, PostedWithout
<1>19. PostedInv'
  <2>1. \A x \in Recv : rreq'[x].st = "posted" => rreq'[x] = rreq[x]
    BY <1>8, <1>11
  <2>2. (\A x \in Recv, k \in 1..Len(unexp) :
               rreq[x].st = "posted" => ~AcceptData(rreq[x].sel, unexp[k]))'
    BY <1>1, <1>2, <2>1, StillNotAccepted
  <2> QED
    BY <1>18, <2>2 DEF PostedInv, PostedList
<1>20. TypeOK'
  BY <1>1, <1>2, <1>3, <1>11, <1>18 DEF TypeOK
<1>21. PlacesInv'
  BY <1>3, <1>14, <1>16, <1>17, <1>19, <1>20 DEF PlacesInv
<1>22. rreq' = [rreq EXCEPT ![r] = [@ EXCEPT !.st = "matched", !.type = sreq[m].type, !.msg = {m}]]
  BY <1>4, <1>8, <1>9, <1>15 DEF Matched
<1> QED
  BY <1>3, <1>4, <1>5, <1>6, <1>8, <1>10, <1>11, <1>12, <1>13, <1>21, <1>22

(* Entry i, message m, leaves the list of unexpected messages. *)
LEMMA UnexpWithout ==
    ASSUME TypeOK, OrderInv, UnexpInv, NEW i \in 1..Len(unexp), NEW m \in Send,
           unexp[i].id = m, unexp' = RemoveAt(unexp, i)
    PROVE  /\ unexp' \in Seq(Headers) /\ Ordered(unexp)' /\ Un(m) /\ ~Un(m)'
           /\ \A x \in Send : x # m => Un(x)' = Un(x)
           /\ \A k \in 1..Len(unexp') : \E l \in 1..Len(unexp) :
                 unexp'[k] = unexp[l] /\ unexp[l].id # m
           /\ \A l \in 1..Len(unexp) : l # i => \E k \in 1..Len(unexp') : unexp'[k] = unexp[l]
<1>1. unexp \in Seq(Headers) /\ Ordered(unexp) /\ \A k \in 1..Len(unexp) : IsData(unexp[k])
  BY TypeFacts DEF OrderInv, UnexpInv, UnexpEntry
<1>2. unexp' \in Seq(Headers) /\ Without(unexp', unexp, i)
  BY <1>1, RemoveAtFacts, RemoveAtWithout
<1>3. PICK d \in Seq(Headers) : d = unexp'
  BY <1>2
<1>4. /\ Ordered(d)
      /\ \A x : InSeq(d, x) => InSeq(unexp, x)
      /\ \A x : InSeq(unexp, x) /\ (unexp[i].id # x \/ ~IsData(unexp[i])) => InSeq(d, x)
      /\ IsData(unexp[i]) => ~InSeq(d, unexp[i].id)
  BY <1>1, <1>2, <1>3, InWithout
<1>5. Un(m) /\ ~Un(m)'
  BY <1>1, <1>3, <1>4, InSeqMeans DEF Un
<1>6. ASSUME NEW x \in Send, x # m PROVE Un(x)' = Un(x)
  <2>1. (Un(x)' => Un(x)) /\ (Un(x) => Un(x)')
    BY <1>3, <1>4, <1>6 DEF Un
  <2> QED
    BY <2>1 DEF Un, InSeq
<1>7. ASSUME NEW k \in 1..Len(d)
      PROVE  \E l \in 1..Len(unexp) : d[k] = unexp[l] /\ unexp[l].id # m
  <2>1. PICK l \in 1..Len(unexp) : l # i /\ d[k] = unexp[l]
    BY <1>2, <1>3 DEF Without
  <2>2. unexp[l].id # m
    BY <1>1, <2>1, OrderedOnce
  <2> QED
    BY <2>1, <2>2
<1>8. \A l \in 1..Len(unexp) : l # i => \E k \in 1..Len(d) : d[k] = unexp[l]
  BY <1>2, <1>3 DEF Without
<1>9. Ordered(unexp)'
  BY <1>3, <1>4 DEF Ordered
<1> QED
  BY <1>2, <1>3, <1>5, <1>6, <1>7, <1>8, <1>9

(* The cases of RecvCancel. *)
LEMMA RecvCancelCases ==
    ASSUME TypeOK, NEW s \in Sender, RecvCancel(s)
    PROVE  /\ line[s] # <<>> /\ ~IsData(Head(line[s]))
           /\ line' = [line EXCEPT ![s] = Tail(@)] /\ UNCHANGED <<sreq, rreq, posted, ackq, uack>>
           /\ \/ UNCHANGED <<unexp, acks>>
              \/ \E i \in 1..Len(unexp) :
                    /\ AcceptCancel(Head(line[s]), unexp[i])
                    /\ acks' = [acks EXCEPT ![s] =
                                  Append(@, [type |-> "CANCEL_DATA_ACK", id |-> unexp[i].id])]
                    /\ unexp' = RemoveAt(unexp, i)
<1> DEFINE c == Head(line[s])
           I == {i \in 1..Len(unexp) : AcceptCancel(c, unexp[i])}
<1>1. SelectInSeq(unexp, LAMBDA h : AcceptCancel(c, h)) = First(I)
  BY DEF SelectInSeq, First
<1>2. Len(unexp) \in Nat
  BY TypeFacts
<1>3. First(I) # 0 => First(I) \in I
  BY <1>2, FirstFacts
<1>4. /\ line[s] # <<>> /\ ~IsData(c)
      /\ line' = [line EXCEPT ![s] = Tail(@)] /\ UNCHANGED <<sreq, rreq, posted, ackq, uack>>
      /\ IF First(I) = 0
         THEN UNCHANGED <<unexp, acks>>
         ELSE /\ acks' = [acks EXCEPT ![s] =
                            Append(@, [type |-> "CANCEL_DATA_ACK", id |-> unexp[First(I)].id])]
              /\ unexp' = RemoveAt(unexp, First(I))
  BY <1>1 DEF RecvCancel, IsData
<1>5. CASE First(I) = 0
  BY <1>4, <1>5
<1>6. CASE First(I) # 0
  <2>1. PICK i \in 1..Len(unexp) : AcceptCancel(c, unexp[i]) /\ i = First(I)
    BY <1>3, <1>6
  <2> HIDE DEF I, c
  <2> QED
    BY <1>4, <1>6, <2>1 DEF c
<1> QED
  BY <1>5, <1>6

(* A cancel that finds nothing changes no place. *)
LEMMA CancelMissPlaces ==
    ASSUME PlacesInv, NEW s \in Sender, RecvCancel(s), UNCHANGED <<unexp, acks>>
    PROVE  /\ PlacesInv'
           /\ \A x \in Send : On(x)' = On(x) /\ Un(x)' = Un(x) /\ Taken(x)' = Taken(x)
<1>1. /\ TypeOK /\ LineInv /\ OrderInv /\ UnexpInv /\ RecvInv /\ PostedInv
  BY DEF PlacesInv
<1>2. /\ line[s] # <<>> /\ ~IsData(Head(line[s])) /\ line' = [line EXCEPT ![s] = Tail(@)]
      /\ UNCHANGED <<sreq, rreq, posted, ackq, uack>>
  BY <1>1, RecvCancelCases
<1>3. PICK h \in Headers :
              /\ h = Head(line[s]) /\ line' \in [Sender -> Seq(Headers)] /\ LineInv'
              /\ ~IsData(h) => \A x \in Send : On(x)' = On(x)
  BY <1>1, <1>2, HeadLeaves
<1>4. \A x \in Send : On(x)' = On(x)
  BY <1>2, <1>3
<1>5. /\ UnexpInv' /\ RecvInv' /\ PostedInv'
      /\ \A x \in Send : Un(x)' = Un(x) /\ Taken(x)' = Taken(x)
  BY <1>1, <1>2, ReceiverSame
<1>6. PlaceInv' /\ LossInv'
  <2> SUFFICES ASSUME NEW x \in Send PROVE Place(x)' /\ NotLost(x)'
    BY DEF PlaceInv, LossInv
  <2>1. Place(x) /\ NotLost(x)
    BY DEF PlacesInv, PlaceInv, LossInv
  <2>2. On(x)' = On(x) /\ Un(x)' = Un(x) /\ Taken(x)' = Taken(x)
    BY <1>4, <1>5
  <2> QED
    BY <1>2, <2>1, <2>2 DEF Place, NotLost
<1>7. OrderInv'
  <2>1. Ordered(unexp)'
    BY <1>1 DEF OrderInv, Ordered
  <2> QED
    BY <1>1, <1>2, <1>4, <1>5, <2>1 DEF OrderInv
<1>8. TypeOK'
  BY <1>1, <1>2, <1>3 DEF TypeOK
<1> QED
  BY <1>3, <1>4, <1>5, <1>6, <1>7, <1>8 DEF PlacesInv

(* A cancel takes an unexpected synchronous message back. *)
LEMMA CancelHitPlaces ==
    ASSUME PlacesInv, NEW s \in Sender, RecvCancel(s), NEW i \in 1..Len(unexp),
           AcceptCancel(Head(line[s]), unexp[i]), unexp' = RemoveAt(unexp, i),
           acks' = [acks EXCEPT ![s] = Append(@, [type |-> "CANCEL_DATA_ACK", id |-> unexp[i].id])]
    PROVE  \E m \in Send :
              /\ PlacesInv' /\ m = unexp[i].id /\ sreq[m].type = Sync
              /\ Un(m) /\ ~Un(m)' /\ ~On(m) /\ ~Taken(m)
              /\ \A x \in Send : x # m => Un(x)' = Un(x)
              /\ \A x \in Send : On(x)' = On(x) /\ Taken(x)' = Taken(x)
<1>1. /\ TypeOK /\ LineInv /\ OrderInv /\ UnexpInv /\ RecvInv /\ PostedInv
      /\ acks \in [Sender -> Seq(Acks)]
  BY DEF PlacesInv, TypeOK
<1>2. /\ line[s] # <<>> /\ ~IsData(Head(line[s])) /\ line' = [line EXCEPT ![s] = Tail(@)]
      /\ UNCHANGED <<sreq, rreq, posted, ackq, uack>>
  BY <1>1, RecvCancelCases
<1>3. PICK h \in Headers :
              /\ h = Head(line[s]) /\ line' \in [Sender -> Seq(Headers)] /\ LineInv'
              /\ ~IsData(h) => \A x \in Send : On(x)' = On(x)
  BY <1>1, <1>2, HeadLeaves
<1>4. \A x \in Send : On(x)' = On(x)
  BY <1>2, <1>3
<1>5. PICK m \in Send : m = unexp[i].id
  BY <1>1, TypeFacts
<1>6. unexp[i].type = Sync /\ unexp[i].type \notin Reserved
  BY DEF AcceptCancel, Reserved, Sync
<1>7. sreq[m].type = Sync /\ ~Taken(m)
  <2>1. UnexpEntry(unexp[i])
    BY <1>1 DEF UnexpInv
  <2> QED
    BY <1>5, <1>6, <2>1 DEF UnexpEntry, Restored, Sync
<1>8. /\ unexp' \in Seq(Headers) /\ Ordered(unexp)' /\ Un(m) /\ ~Un(m)'
      /\ \A x \in Send : x # m => Un(x)' = Un(x)
      /\ \A k \in 1..Len(unexp') : \E l \in 1..Len(unexp) :
            unexp'[k] = unexp[l] /\ unexp[l].id # m
      /\ \A l \in 1..Len(unexp) : l # i => \E k \in 1..Len(unexp') : unexp'[k] = unexp[l]
  BY <1>1, <1>5, UnexpWithout
<1>9. \A x \in Send : Taken(x)' = Taken(x)
  BY <1>2 DEF Taken
<1>10. Place(m) /\ ~On(m)
  <2>1. Place(m)
    BY DEF PlacesInv, PlaceInv
  <2> QED
    BY <1>8, <2>1 DEF Place
<1>11. PlaceInv' /\ LossInv' /\ OrderInv'
  <2>1. Place(m)' /\ NotLost(m)'
    BY <1>2, <1>4, <1>7, <1>8, <1>9, <1>10 DEF Place, NotLost, Sync
  <2> QED
    BY <1>2, <1>4, <1>8, <1>9, <2>1, MovedPlace
<1>12. UnexpInv'
  <2> SUFFICES ASSUME NEW k \in 1..Len(unexp') PROVE UnexpEntry(unexp[k])'
    BY DEF UnexpInv
  <2>1. PICK l \in 1..Len(unexp) : unexp'[k] = unexp[l]
    BY <1>8
  <2>2. UnexpEntry(unexp[l])
    BY <1>1 DEF UnexpInv
  <2> QED
    BY <1>2, <2>1, <2>2 DEF UnexpEntry, Taken
<1>13. RecvInv'
  <2>1. ASSUME NEW r \in Recv PROVE RecvEntry(r)'
    <3>1. RecvEntry(r)
      BY <1>1 DEF RecvInv
    <3>2. \A l \in 1..Len(unexp) : unexp[l].type \in Reserved =>
              \E k \in 1..Len(unexp') : unexp'[k] = unexp[l]
      BY <1>6, <1>8
    <3> QED
      BY <1>2, <3>1, <3>2, SMTT(30) DEF RecvEntry
  <2> QED
    BY <1>1, <1>2, <2>1 DEF RecvInv
<1>14. PostedInv'
  <2>1. (\A x \in Recv, k \in 1..Len(unexp) :
               rreq[x].st = "posted" => ~AcceptData(rreq[x].sel, unexp[k]))'
    BY <1>1, <1>2, <1>8, StillNotAccepted
  <2> QED
    BY <1>1, <1>2, <2>1 DEF PostedInv
<1>15. TypeOK'
  <2>1. [type |-> "CANCEL_DATA_ACK", id |-> m] \in Acks
    BY DEF Acks
  <2>2. acks' \in [Sender -> Seq(Acks)]
    BY <1>1, <1>5, <2>1
  <2> QED
    BY <1>1, <1>2, <1>3, <1>8, <2>2 DEF TypeOK
<1>16. PlacesInv'
  BY <1>3, <1>11, <1>12, <1>13, <1>14, <1>15 DEF PlacesInv
<1> QED
  BY <1>4, <1>5, <1>7, <1>8, <1>9, <1>10, <1>16

(* The cases of MPIDI_PSP_Irecv. *)
Posting(sel) == [st |-> "posted", sel |-> sel, type |-> "none", msg |-> {}]

(* MPI_Irecv posts its request or takes the first unexpected message it accepts. *)
LEMMA IrecvCases ==
    ASSUME TypeOK, NEW r \in Recv, NEW sel \in Sels, Irecv(r, sel)
    PROVE  /\ rreq[r].st = "none" /\ \A x \in Recv : x < r => rreq[x].st # "none"
           /\ UNCHANGED <<sreq, line, acks, ackq, uack>>
           /\ \/ /\ rreq' = [rreq EXCEPT ![r] = Posting(sel)]
                 /\ posted' = Append(posted, r) /\ UNCHANGED unexp
                 /\ \A i \in 1..Len(unexp) : ~AcceptData(sel, unexp[i])
              \/ \E i \in 1..Len(unexp) :
                    /\ AcceptData(sel, unexp[i])
                    /\ \A k \in 1..Len(unexp) : k < i => ~AcceptData(sel, unexp[k])
                    /\ rreq' = [rreq EXCEPT ![r] = Matched(Posting(sel), unexp[i])]
                    /\ unexp' = RemoveAt(unexp, i) /\ UNCHANGED posted
<1> DEFINE I == {i \in 1..Len(unexp) : AcceptData(sel, unexp[i])}
<1>1. SelectInSeq(unexp, LAMBDA h : AcceptData(sel, h)) = First(I)
  BY DEF SelectInSeq, First
<1>2. Len(unexp) \in Nat
  BY TypeFacts
<1>3. /\ First(I) = 0 => I = {}
      /\ First(I) # 0 => First(I) \in I
      /\ First(I) # 0 => \A k \in I : First(I) <= k
  BY <1>2, FirstFacts
<1>4. /\ rreq[r].st = "none" /\ \A x \in Recv : x < r => rreq[x].st # "none"
      /\ UNCHANGED <<sreq, line, acks, ackq, uack>>
      /\ IF First(I) = 0
         THEN /\ rreq' = [rreq EXCEPT ![r] = Posting(sel)]
              /\ posted' = Append(posted, r)
              /\ UNCHANGED unexp
         ELSE /\ rreq' = [rreq EXCEPT ![r] = Matched(Posting(sel), unexp[First(I)])]
              /\ unexp' = RemoveAt(unexp, First(I))
              /\ UNCHANGED posted
  BY <1>1 DEF Irecv, Posting
<1>5. CASE First(I) = 0
  <2>1. \A i \in 1..Len(unexp) : ~AcceptData(sel, unexp[i])
    BY <1>3, <1>5
  <2> QED
    BY <1>4, <1>5, <2>1
<1>6. CASE First(I) # 0
  <2>1. PICK i \in 1..Len(unexp) : AcceptData(sel, unexp[i]) /\ i = First(I)
    BY <1>3, <1>6
  <2>2. \A k \in 1..Len(unexp) : k < i => ~AcceptData(sel, unexp[k])
    <3>1. \A k \in I : i <= k
      BY <1>3, <1>6, <2>1
    <3> QED
      BY <3>1
  <2> HIDE DEF I
  <2> QED
    BY <1>4, <1>6, <2>1, <2>2
<1> QED
  BY <1>5, <1>6

(* A receive that finds no message is posted. *)
LEMMA PostPlaces ==
    ASSUME PlacesInv, NEW r \in Recv, NEW sel \in Sels, Irecv(r, sel),
           rreq' = [rreq EXCEPT ![r] = Posting(sel)], posted' = Append(posted, r),
           UNCHANGED unexp, \A i \in 1..Len(unexp) : ~AcceptData(sel, unexp[i])
    PROVE  /\ PlacesInv' /\ rreq[r].msg = {}
           /\ \A x \in Send : On(x)' = On(x) /\ Un(x)' = Un(x) /\ Taken(x)' = Taken(x)
<1>1. /\ TypeOK /\ LineInv /\ OrderInv /\ UnexpInv /\ RecvInv /\ PostedInv
      /\ posted \in Seq(Recv) /\ Len(posted) \in Nat
      /\ \A k \in 1..Len(posted) : posted[k] \in Recv /\ posted[k] \in Nat
      /\ r \in Nat
  BY TypeFacts, SendAssumption DEF PlacesInv
<1>2. /\ rreq[r].st = "none" /\ \A x \in Recv : x < r => rreq[x].st # "none"
      /\ UNCHANGED <<sreq, line, acks, ackq, uack>>
  BY <1>1, IrecvCases
<1>3. PICK q \in RecvRec : q = Posting(sel) /\ q.st = "posted" /\ q.sel = sel /\ q.msg = {}
  <2>1. Posting(sel) \in RecvRec /\ Posting(sel).st = "posted" /\ Posting(sel).sel = sel
        /\ Posting(sel).msg = {}
    BY DEF RecvRec, Posting
  <2> QED
    BY <2>1
<1>4. rreq[r].msg = {}
  BY <1>1, <1>2 DEF RecvInv, RecvEntry
<1>5. /\ rreq' \in [Recv -> RecvRec] /\ rreq'[r] = q
      /\ \A x \in Recv : x # r => rreq'[x] = rreq[x]
      /\ \A x \in Send : Taken(x)' = Taken(x)
  BY <1>1, <1>3, <1>4, TakenStep
<1>6. \A x \in Send : On(x)' = On(x) /\ Un(x)' = Un(x)
  BY <1>2 DEF On, Un
<1>7. LineInv'
  BY <1>1, <1>2, LinesSame
<1>8. PlaceInv' /\ LossInv'
  <2> SUFFICES ASSUME NEW x \in Send PROVE Place(x)' /\ NotLost(x)'
    BY DEF PlaceInv, LossInv
  <2>1. Place(x) /\ NotLost(x)
    BY DEF PlacesInv, PlaceInv, LossInv
  <2>2. On(x)' = On(x) /\ Un(x)' = Un(x) /\ Taken(x)' = Taken(x)
    BY <1>5, <1>6
  <2> QED
    BY <1>2, <2>1, <2>2 DEF Place, NotLost
<1>9. OrderInv'
  <2>1. Ordered(unexp)'
    BY <1>1 DEF OrderInv, Ordered
  <2> QED
    BY <1>1, <1>2, <1>6, <2>1 DEF OrderInv
<1>10. UnexpInv'
  <2> SUFFICES ASSUME NEW k \in 1..Len(unexp) PROVE UnexpEntry(unexp[k])'
    BY DEF UnexpInv
  <2>1. UnexpEntry(unexp[k]) /\ unexp[k].id \in Send
    BY <1>1, TypeFacts DEF UnexpInv
  <2>2. \A x \in Recv : rreq[x].st = "message" => rreq'[x] = rreq[x]
    BY <1>2, <1>5
  <2>3. Taken(unexp[k].id)' = Taken(unexp[k].id)
    BY <1>5, <2>1
  <2>4. unexp'[k] = unexp[k]
    OBVIOUS
  <2>5. PICK h : h = unexp[k]
    OBVIOUS
  <2>6. UnexpEntry(h)'
    BY <1>2, <1>5, <2>1, <2>2, <2>5 DEF UnexpEntry
  <2> QED
    BY <2>4, <2>5, <2>6
<1>11. RecvInv'
  <2>1. ASSUME NEW x \in Recv PROVE RecvEntry(x)'
    <3>1. CASE x = r
      BY <1>3, <1>5, <3>1 DEF RecvEntry
    <3>2. CASE x # r
      <4>1. RecvEntry(x) /\ rreq'[x] = rreq[x]
        BY <1>1, <1>5, <3>2 DEF RecvInv
      <4> QED
        BY <1>2, <4>1 DEF RecvEntry
    <3> QED
      BY <3>1, <3>2
  <2>2. \A x \in Recv : rreq'[x].msg = rreq[x].msg
    BY <1>3, <1>4, <1>5
  <2>3. \A x, y \in Recv : y < x /\ rreq'[x].st # "none" => rreq'[y].st # "none"
    BY <1>1, <1>2, <1>3, <1>5 DEF RecvInv
  <2>4. \A x, y \in Recv : x # y /\ rreq'[x].msg = rreq'[y].msg => rreq'[x].msg = {}
    BY <1>1, <2>2 DEF RecvInv
  <2> QED
    BY <2>1, <2>3, <2>4 DEF RecvInv
<1>12. /\ posted' \in Seq(Recv) /\ Len(posted') = Len(posted) + 1 /\ posted'[Len(posted) + 1] = r
       /\ \A k \in 1..Len(posted) : posted'[k] = posted[k]
  BY <1>1
<1>13. \A k \in 1..Len(posted') : k \in 1..Len(posted) \/ k = Len(posted) + 1
  BY <1>1, <1>12
<1>14. ASSUME NEW k \in 1..Len(posted) PROVE posted[k] < r /\ posted[k] # r
  <2>1. rreq[posted[k]].st = "posted" /\ posted[k] \in Recv /\ posted[k] \in Nat
    BY <1>1 DEF PostedInv
  <2>2. posted[k] # r
    BY <1>2, <2>1
  <2>3. ~(r < posted[k])
    BY <1>1, <1>2, <2>1 DEF RecvInv
  <2> QED
    BY <1>1, <2>1, <2>2, <2>3
<1>15. ASSUME NEW i \in 1..Len(posted'), NEW j \in 1..Len(posted'), i < j
       PROVE  posted'[i] < posted'[j]
  <2>1. i \in 1..Len(posted)
    BY <1>1, <1>12, <1>15
  <2>2. CASE j \in 1..Len(posted)
    BY <1>1, <1>12, <1>15, <2>1, <2>2 DEF PostedInv
  <2>3. CASE j = Len(posted) + 1
    BY <1>12, <1>14, <2>1, <2>3
  <2> QED
    BY <1>13, <2>2, <2>3
<1>16. ASSUME NEW i \in 1..Len(posted') PROVE rreq'[posted'[i]].st = "posted"
  <2>1. CASE i \in 1..Len(posted)
    BY <1>1, <1>5, <1>12, <1>14, <2>1 DEF PostedInv
  <2>2. CASE i = Len(posted) + 1
    BY <1>3, <1>5, <1>12, <2>2
  <2> QED
    BY <1>13, <2>1, <2>2
<1>17. ASSUME NEW x \in Recv, rreq'[x].st = "posted"
       PROVE  \E i \in 1..Len(posted') : posted'[i] = x
  <2>1. CASE x = r
    <3>1. Len(posted) + 1 \in 1..Len(posted')
      BY <1>1, <1>12
    <3> QED
      BY <1>12, <2>1, <3>1
  <2>2. CASE x # r
    <3>1. PICK i \in 1..Len(posted) : posted[i] = x
      BY <1>1, <1>5, <1>17, <2>2 DEF PostedInv
    <3>2. i \in 1..Len(posted') /\ posted'[i] = x
      BY <1>1, <1>12, <3>1
    <3> QED
      BY <3>2
  <2> QED
    BY <2>1, <2>2
<1>18. ASSUME NEW x \in Recv, NEW k \in 1..Len(unexp), rreq'[x].st = "posted"
       PROVE  ~AcceptData(rreq[x].sel, unexp[k])'
  <2>1. CASE x = r
    BY <1>2, <1>3, <1>5, <2>1 DEF AcceptData
  <2>2. CASE x # r
    <3>1. ~AcceptData(rreq[x].sel, unexp[k]) /\ rreq'[x] = rreq[x]
      BY <1>1, <1>5, <1>18, <2>2 DEF PostedInv
    <3> QED
      BY <1>2, <3>1 DEF AcceptData
  <2> QED
    BY <2>1, <2>2
<1>19. PostedInv'
  BY <1>15, <1>16, <1>17, <1>18 DEF PostedInv
<1>20. TypeOK'
  BY <1>1, <1>2, <1>5, <1>12 DEF TypeOK
<1> QED
  BY <1>4, <1>5, <1>6, <1>7, <1>8, <1>9, <1>10, <1>11, <1>19, <1>20 DEF PlacesInv

(* A receive takes the first unexpected message that it accepts. *)
LEMMA IrecvMatchPlaces ==
    ASSUME PlacesInv, NEW r \in Recv, NEW sel \in Sels, Irecv(r, sel),
           NEW i \in 1..Len(unexp), AcceptData(sel, unexp[i]),
           rreq' = [rreq EXCEPT ![r] = Matched(Posting(sel), unexp[i])],
           unexp' = RemoveAt(unexp, i), UNCHANGED posted
    PROVE  \E m \in Send :
              /\ PlacesInv' /\ m = unexp[i].id
              /\ Un(m) /\ ~Un(m)' /\ ~On(m) /\ ~Taken(m) /\ Taken(m)'
              /\ \A x \in Send : x # m => Un(x)' = Un(x) /\ Taken(x)' = Taken(x)
              /\ \A x \in Send : On(x)' = On(x)
              /\ rreq[r].msg = {} /\ rreq'[r].st = "matched" /\ rreq'[r].msg = {m}
              /\ rreq'[r].sel = sel /\ \A x \in Recv : x # r => rreq'[x] = rreq[x]
<1>1. /\ TypeOK /\ LineInv /\ OrderInv /\ UnexpInv /\ RecvInv /\ PostedInv
      /\ unexp \in Seq(Headers) /\ Len(unexp) \in Nat
  BY TypeFacts DEF PlacesInv
<1>2. /\ rreq[r].st = "none" /\ \A x \in Recv : x < r => rreq[x].st # "none"
      /\ UNCHANGED <<sreq, line, acks, ackq, uack>>
  BY <1>1, IrecvCases
<1>3. PICK m \in Send : m = unexp[i].id
  BY <1>1, TypeFacts
<1>4. PICK h \in Headers : h = unexp[i] /\ h.id = m /\ h.type \in DataTypes
  BY <1>1, <1>3, TypeFacts DEF AcceptData
<1>5. h.type \notin Reserved /\ IsData(h)
  BY <1>4 DEF DataTypes, Reserved, IsData, CANCEL
<1>6. rreq[r].msg = {}
  BY <1>1, <1>2 DEF RecvInv, RecvEntry
<1>7. Posting(sel) \in RecvRec /\ Posting(sel).sel = sel
  BY DEF RecvRec, Posting
<1>8. PICK q \in RecvRec : q = Matched(Posting(sel), h) /\ q.st = "matched" /\ q.sel = sel
                             /\ q.type = h.type /\ q.msg = {h.id}
  BY <1>5, <1>7, MatchedFacts
<1>9. rreq' = [rreq EXCEPT ![r] = q] /\ q.msg = {m} /\ \A x \in Send : x # m => x \notin q.msg
  BY <1>4, <1>8
<1>10. /\ rreq' \in [Recv -> RecvRec] /\ rreq'[r] = q
       /\ \A x \in Recv : x # r => rreq'[x] = rreq[x]
       /\ \A x \in Send : x # m => Taken(x)' = Taken(x)
       /\ Taken(m)'
  BY <1>1, <1>6, <1>9, TakenStep
<1>11. ~Taken(m) /\ Restored(h.type) = sreq[m].type
  <2>1. UnexpEntry(unexp[i])
    BY <1>1 DEF UnexpInv
  <2> QED
    BY <1>4, <1>5, <2>1 DEF UnexpEntry
<1>12. /\ unexp' \in Seq(Headers) /\ Ordered(unexp)' /\ Un(m) /\ ~Un(m)'
       /\ \A x \in Send : x # m => Un(x)' = Un(x)
       /\ \A k \in 1..Len(unexp') : \E l \in 1..Len(unexp) :
             unexp'[k] = unexp[l] /\ unexp[l].id # m
       /\ \A l \in 1..Len(unexp) : l # i => \E k \in 1..Len(unexp') : unexp'[k] = unexp[l]
  BY <1>1, <1>3, UnexpWithout
<1>13. \A x \in Send : On(x)' = On(x)
  BY <1>2 DEF On
<1>14. Place(m) /\ ~On(m)
  <2>1. Place(m)
    BY DEF PlacesInv, PlaceInv
  <2> QED
    BY <1>12, <2>1 DEF Place
<1>15. PlaceInv' /\ LossInv' /\ OrderInv'
  <2>1. Place(m)' /\ NotLost(m)'
    BY <1>2, <1>10, <1>12, <1>13, <1>14 DEF Place, NotLost
  <2> QED
    BY <1>2, <1>10, <1>12, <1>13, <2>1, MovedPlace
<1>16. UnexpInv'
  BY <1>1, <1>2, <1>10, <1>12, UnexpKept
<1>17. RecvInv'
  <2>1. q.st = "matched" /\ Restored(q.type) = sreq[m].type
    BY <1>8, <1>11
  <2>2. \A k \in 1..Len(unexp) : unexp[k].type \in Reserved =>
               \E l \in 1..Len(unexp') : unexp'[l] = unexp[k]
    BY <1>4, <1>5, <1>12
  <2> QED
    BY <1>1, <1>2, <1>6, <1>9, <1>11, <2>1, <2>2, RecvMatched
<1>18. PostedInv'
  <2>1. \A x \in Recv : rreq'[x].st = "posted" => rreq'[x] = rreq[x]
    BY <1>8, <1>10
  <2>2. (\A x \in Recv, k \in 1..Len(unexp) :
               rreq[x].st = "posted" => ~AcceptData(rreq[x].sel, unexp[k]))'
    BY <1>1, <1>2, <1>12, <2>1, StillNotAccepted
  <2>3. ASSUME NEW x \in Recv, rreq[x].st = "posted" PROVE rreq'[x].st = "posted"
    BY <1>2, <1>10, <2>3
  <2>4. \A k \in 1..Len(posted) : posted[k] \in Recv
    BY <1>1, TypeFacts
  <2>5. PostedList'
    BY <1>1, <2>1, <2>3, <2>4 DEF PostedInv, PostedList
  <2> QED
    BY <2>2, <2>5 DEF PostedInv, PostedList
<1>19. TypeOK'
  BY <1>1, <1>2, <1>10, <1>12 DEF TypeOK
<1>20. LineInv'
  BY <1>1, <1>2, LinesSame
<1>21. PlacesInv'
  BY <1>15, <1>16, <1>17, <1>18, <1>19, <1>20 DEF PlacesInv
<1> QED
  BY <1>3, <1>6, <1>8, <1>9, <1>10, <1>11, <1>12, <1>13, <1>14, <1>21

(* A matched probe reserves the first unexpected message that it accepts.      *)
LEMMA ImprobeCases ==
    ASSUME TypeOK, NEW r \in Recv, NEW sel \in Sels, Improbe(r, sel)
    PROVE  /\ rreq[r].st = "none" /\ \A x \in Recv : x < r => rreq[x].st # "none"
           /\ UNCHANGED <<sreq, line, posted, acks, ackq, uack>>
           /\ \E i \in 1..Len(unexp), t \in Reserved :
                 /\ AcceptData(sel, unexp[i])
                 /\ \A k \in 1..Len(unexp) : k < i => ~AcceptData(sel, unexp[k])
                 /\ Restored(t) = unexp[i].type
                 /\ unexp' = [unexp EXCEPT ![i] = [id |-> unexp[i].id, type |-> t]]
                 /\ rreq' = [rreq EXCEPT ![r] = [st |-> "message", sel |-> sel,
                                                 type |-> t, msg |-> {unexp[i].id}]]
<1> DEFINE I == {i \in 1..Len(unexp) : AcceptData(sel, unexp[i])}
           T(i) == IF unexp[i].type = "DATA" THEN "MPROBE_RESERVED_REQUEST"
                                             ELSE "MPROBE_RESERVED_REQUEST_ACK"
<1>1. SelectInSeq(unexp, LAMBDA h : AcceptData(sel, h)) = First(I)
  BY DEF SelectInSeq, First
<1>2. Len(unexp) \in Nat
  BY TypeFacts
<1>3. /\ First(I) # 0 => First(I) \in I
      /\ First(I) # 0 => \A k \in I : First(I) <= k
  BY <1>2, FirstFacts
<1>4. /\ rreq[r].st = "none" /\ \A x \in Recv : x < r => rreq[x].st # "none"
      /\ UNCHANGED <<sreq, line, posted, acks, ackq, uack>> /\ First(I) # 0
      /\ unexp' = [unexp EXCEPT ![First(I)].type = T(First(I))]
      /\ rreq' = [rreq EXCEPT ![r] = [st |-> "message", sel |-> sel,
                                      type |-> T(First(I)), msg |-> {unexp[First(I)].id}]]
  BY <1>1 DEF Improbe
<1>5. PICK i \in 1..Len(unexp) : AcceptData(sel, unexp[i]) /\ i = First(I)
  BY <1>3, <1>4
<1>6. \A k \in 1..Len(unexp) : k < i => ~AcceptData(sel, unexp[k])
  <2>1. \A k \in I : i <= k
    BY <1>3, <1>4, <1>5
  <2> QED
    BY <2>1
<1>7. unexp[i].type \in DataTypes
  BY <1>5 DEF AcceptData
<1>8. PICK t \in Reserved : t = T(i) /\ Restored(t) = unexp[i].type
  BY <1>7 DEF DataTypes, Reserved, Restored
<1>9. unexp' = [unexp EXCEPT ![i] = [id |-> unexp[i].id, type |-> t]]
  <2>1. unexp[i] \in Headers
    BY TypeFacts
  <2>2. [unexp[i] EXCEPT !.type = t] = [id |-> unexp[i].id, type |-> t]
    BY <2>1 DEF Headers
  <2>3. unexp' = [unexp EXCEPT ![i] = [unexp[i] EXCEPT !.type = t]]
    BY <1>4, <1>5, <1>8
  <2> QED
    BY <2>2, <2>3
<1> HIDE DEF I, T
<1>10. rreq' = [rreq EXCEPT ![r] = [st |-> "message", sel |-> sel,
                                   type |-> t, msg |-> {unexp[i].id}]]
  BY <1>4, <1>5, <1>8
<1> QED
  BY <1>4, <1>5, <1>6, <1>8, <1>9, <1>10

(* MPI_Improbe reserves a message: each message stays in one place. *)
LEMMA ImprobePlaces ==
    ASSUME PlacesInv, NEW r \in Recv, NEW sel \in Sels, Improbe(r, sel),
           NEW i \in 1..Len(unexp), NEW t \in Reserved, AcceptData(sel, unexp[i]),
           Restored(t) = unexp[i].type,
           unexp' = [unexp EXCEPT ![i] = [id |-> unexp[i].id, type |-> t]],
           rreq' = [rreq EXCEPT ![r] = [st |-> "message", sel |-> sel,
                                        type |-> t, msg |-> {unexp[i].id}]]
    PROVE  \E m \in Send :
              /\ PlacesInv' /\ m = unexp[i].id /\ Un(m) /\ ~On(m) /\ ~Taken(m) /\ Taken(m)'
              /\ \A x \in Send : x # m => Taken(x)' = Taken(x)
              /\ \A x \in Send : On(x)' = On(x) /\ Un(x)' = Un(x)
              /\ rreq[r].msg = {} /\ rreq'[r].st = "message" /\ rreq'[r].msg = {m}
              /\ rreq'[r].sel = sel /\ \A x \in Recv : x # r => rreq'[x] = rreq[x]
<1>1. /\ TypeOK /\ LineInv /\ OrderInv /\ UnexpInv /\ RecvInv /\ PostedInv
      /\ unexp \in Seq(Headers) /\ Len(unexp) \in Nat /\ Ordered(unexp)
  BY TypeFacts DEF PlacesInv, OrderInv
<1>2. /\ rreq[r].st = "none" /\ \A x \in Recv : x < r => rreq[x].st # "none"
      /\ UNCHANGED <<sreq, line, posted, acks, ackq, uack>>
  BY <1>1, ImprobeCases
<1>3. PICK m \in Send : m = unexp[i].id
  BY <1>1, TypeFacts
<1>4. unexp[i].type \in DataTypes /\ unexp[i].type \notin Reserved /\ IsData(unexp[i])
  BY DEF AcceptData, DataTypes, Reserved, IsData, CANCEL
<1>5. rreq[r].msg = {}
  BY <1>1, <1>2 DEF RecvInv, RecvEntry
<1>6. PICK q \in RecvRec : /\ q = [st |-> "message", sel |-> sel, type |-> t, msg |-> {m}]
                           /\ q.st = "message" /\ q.sel = sel /\ q.type = t /\ q.msg = {m}
  <2> DEFINE c == [st |-> "message", sel |-> sel, type |-> t, msg |-> {m}]
  <2>1. c \in RecvRec /\ c.st = "message" /\ c.sel = sel /\ c.type = t /\ c.msg = {m}
    BY DEF RecvRec
  <2> QED
    BY <2>1
<1>7. rreq' = [rreq EXCEPT ![r] = q] /\ \A x \in Send : x # m => x \notin q.msg
  BY <1>3, <1>6
<1>8. /\ rreq' \in [Recv -> RecvRec] /\ rreq'[r] = q
      /\ \A x \in Recv : x # r => rreq'[x] = rreq[x]
      /\ \A x \in Send : x # m => Taken(x)' = Taken(x)
      /\ Taken(m)'
  BY <1>1, <1>5, <1>6, <1>7, TakenStep, ZenonT(60)
<1>9. ~Taken(m) /\ Restored(unexp[i].type) = sreq[m].type
  <2>1. UnexpEntry(unexp[i])
    BY <1>1 DEF UnexpInv
  <2> QED
    BY <1>3, <1>4, <2>1 DEF UnexpEntry
<1>10. Restored(t) = sreq[m].type
  BY <1>4, <1>9 DEF Restored, DataTypes
<1>11. PICK d \in Seq(Headers) :
          /\ d = unexp' /\ Len(d) = Len(unexp) /\ d[i] = [id |-> m, type |-> t]
          /\ \A k \in 1..Len(unexp) : k # i => d[k] = unexp[k]
          /\ Ordered(d)
          /\ \A x : InSeq(d, x) => InSeq(unexp, x)
          /\ \A x : InSeq(unexp, x) => InSeq(d, x)
  <2>1. PICK e \in Headers : e = [id |-> m, type |-> t] /\ e.id = unexp[i].id /\ IsData(e)
    <3> DEFINE c == [id |-> m, type |-> t]
    <3>1. c \in Headers /\ c.id = unexp[i].id /\ IsData(c)
      BY <1>3 DEF Headers, IsData, Reserved, CANCEL
    <3> QED
      BY <3>1
  <2>3. unexp' = [unexp EXCEPT ![i] = e]
    BY <1>3, <2>1
  <2>4. \E w \in Seq(Headers) :
          /\ w = [unexp EXCEPT ![i] = e] /\ Len(w) = Len(unexp) /\ w[i] = e
          /\ \A k \in 1..Len(unexp) : k # i => w[k] = unexp[k]
          /\ Ordered(w)
          /\ \A x : InSeq(w, x) => InSeq(unexp, x)
          /\ \A x : InSeq(unexp, x) => InSeq(w, x)
    <3> DEFINE w == [unexp EXCEPT ![i] = e]
    <3>1. /\ w \in Seq(Headers) /\ Len(w) = Len(unexp) /\ w[i] = e
          /\ \A k \in 1..Len(unexp) : k # i => w[k] = unexp[k]
      BY <1>1, ExceptSeq
    <3>2. w = [unexp EXCEPT ![i] = e]
      OBVIOUS
    <3> HIDE DEF w
    <3>3. /\ \A k \in 1..Len(unexp) : w[k].id = unexp[k].id
          /\ \A k \in 1..Len(unexp) : IsData(w[k]) => IsData(unexp[k])
          /\ \A k \in 1..Len(unexp) : IsData(unexp[k]) => IsData(w[k])
      BY <1>4, <2>1, <3>1
    <3>4. Ordered(w)
      BY <1>1, <3>1, <3>3 DEF Ordered
    <3>5. \A x : InSeq(w, x) => InSeq(unexp, x)
      BY <1>1, <3>1, <3>3, InSeqMeans
    <3>6. \A x : InSeq(unexp, x) => InSeq(w, x)
      BY <1>1, <3>1, <3>3, InSeqMeans
    <3> QED
      BY <3>1, <3>2, <3>4, <3>5, <3>6
  <2> QED
    BY <2>1, <2>3, <2>4
<1>12. d[i].id = m /\ d[i].type = t /\ t # CANCEL /\ t \notin DataTypes
  BY <1>11 DEF Reserved, CANCEL, DataTypes
<1>13. \A x \in Send : On(x)' = On(x) /\ Un(x)' = Un(x)
  <2>1. ASSUME NEW x \in Send PROVE Un(x)' = Un(x)
    <3>1. (Un(x)' => Un(x)) /\ (Un(x) => Un(x)')
      BY <1>11 DEF Un
    <3> QED
      BY <3>1 DEF Un, InSeq
  <2> QED
    BY <1>2, <2>1 DEF On
<1>14. Un(m) /\ Place(m) /\ ~On(m)
  <2>1. Un(m)
    BY <1>1, <1>3, <1>4, InSeqMeans DEF Un
  <2>2. Place(m)
    BY DEF PlacesInv, PlaceInv
  <2> QED
    BY <2>1, <2>2 DEF Place
<1>15. Ordered(unexp)'
  BY <1>11 DEF Ordered
<1>16. PlaceInv' /\ LossInv' /\ OrderInv'
  <2>1. Place(m)' /\ NotLost(m)'
    BY <1>2, <1>8, <1>13, <1>14 DEF Place, NotLost
  <2> QED
    BY <1>2, <1>8, <1>13, <1>14, <1>15, <2>1, MovedPlace
<1>17. ASSUME NEW k \in 1..Len(unexp), k # i PROVE unexp[k].id # m
  <2>1. IsData(unexp[k])
    BY <1>1 DEF UnexpInv, UnexpEntry
  <2> QED
    BY <1>1, <1>3, <1>4, <1>17, <2>1, OrderedOnce
<1>18. UnexpInv'
  <2> SUFFICES ASSUME NEW k \in 1..Len(unexp) PROVE UnexpEntry(d[k])'
    BY <1>11 DEF UnexpInv
  <2>1. CASE k = i
    <3>1. rreq'[r].st = "message" /\ rreq'[r].msg = {d[i].id} /\ rreq'[r].type = d[i].type
      BY <1>6, <1>8, <1>12
    <3> QED
      BY <1>2, <1>10, <1>12, <2>1, <3>1 DEF UnexpEntry, IsData
  <2>2. CASE k # i
    <3>1. UnexpEntry(unexp[k]) /\ unexp[k].id \in Send /\ unexp[k].id # m
      BY <1>1, <1>17, <2>2, TypeFacts DEF UnexpInv
    <3>2. PICK h : h = unexp[k] /\ h = d[k]
      BY <1>11, <2>2
    <3>3. Taken(h.id)' = Taken(h.id)
      BY <1>8, <3>1, <3>2
    <3>4. \A x \in Recv : rreq[x].st = "message" => rreq'[x] = rreq[x]
      BY <1>2, <1>8
    <3>5. UnexpEntry(h)'
      BY <1>2, <3>1, <3>2, <3>3, <3>4 DEF UnexpEntry
    <3> QED
      BY <3>2, <3>5
  <2> QED
    BY <2>1, <2>2
<1>19. RecvInv'
  <2>1. ASSUME NEW x \in Recv PROVE RecvEntry(x)'
    <3>1. CASE x = r
      <4>1. rreq'[x].st = "message" /\ rreq'[x].msg = {m} /\ rreq'[x].type = t
        BY <1>6, <1>8, <3>1
      <4>2. i \in 1..Len(unexp') /\ unexp'[i].type = t /\ unexp'[i].id = m
        BY <1>11, <1>12
      <4> QED
        BY <1>2, <1>10, <4>1, <4>2 DEF RecvEntry
    <3>2. CASE x # r
      <4>1. RecvEntry(x) /\ rreq'[x] = rreq[x]
        BY <1>1, <1>8, <3>2 DEF RecvInv
      <4>2. \A k \in 1..Len(unexp) : unexp[k].type \in Reserved =>
                k \in 1..Len(unexp') /\ unexp'[k] = unexp[k]
        BY <1>4, <1>11
      <4> QED
        BY <1>2, <4>1, <4>2 DEF RecvEntry
    <3> QED
      BY <3>1, <3>2
  <2>2. ASSUME NEW x \in Recv, NEW y \in Recv, x # y, rreq'[x].msg = rreq'[y].msg
        PROVE  rreq'[x].msg = {}
    <3>1. \A z \in Recv : rreq[z].msg # {m}
      BY <1>9 DEF Taken
    <3>2. x # r /\ y # r
      BY <1>6, <1>8, <2>2, <3>1
    <3> QED
      BY <1>1, <1>8, <2>2, <3>2 DEF RecvInv
  <2>3. \A x, y \in Recv : y < x /\ rreq'[x].st # "none" => rreq'[y].st # "none"
    BY <1>1, <1>2, <1>6, <1>8 DEF RecvInv
  <2> QED
    BY <2>1, <2>2, <2>3 DEF RecvInv
<1>20. PostedInv'
  <2>1. \A x \in Recv : rreq'[x].st = "posted" => rreq'[x] = rreq[x]
    BY <1>6, <1>8
  <2>2. \A k \in 1..Len(unexp') : unexp'[k].id = unexp[k].id
              /\ (unexp'[k].type = unexp[k].type \/ unexp'[k].type \notin DataTypes)
    BY <1>3, <1>11, <1>12
  <2>3. \A k \in 1..Len(unexp') : \E l \in 1..Len(unexp) :
               unexp'[k].id = unexp[l].id /\ (unexp'[k].type = unexp[l].type
                                                \/ unexp'[k].type \notin DataTypes)
    BY <1>11, <2>2
  <2>4. (\A x \in Recv, k \in 1..Len(unexp) :
               rreq[x].st = "posted" => ~AcceptData(rreq[x].sel, unexp[k]))'
    BY <1>1, <1>2, <2>1, <2>3, StillNotAccepted
  <2>5. ASSUME NEW x \in Recv, rreq[x].st = "posted" PROVE rreq'[x].st = "posted"
    BY <1>2, <1>8, <2>5
  <2>6. \A k \in 1..Len(posted) : posted[k] \in Recv
    BY <1>1, TypeFacts
  <2>7. PostedList'
    BY <1>1, <1>2, <2>1, <2>5, <2>6 DEF PostedInv, PostedList
  <2> QED
    BY <2>4, <2>7 DEF PostedInv, PostedList
<1>21. TypeOK'
  BY <1>1, <1>2, <1>8, <1>11 DEF TypeOK
<1>22. LineInv'
  BY <1>1, <1>2, LinesSame
<1>23. PlacesInv'
  BY <1>16, <1>18, <1>19, <1>20, <1>21, <1>22 DEF PlacesInv
<1> QED
  BY <1>3, <1>5, <1>6, <1>8, <1>9, <1>13, <1>14, <1>23

(* MPIDI_PSP_Imrecv takes the message that was reserved for it. *)
LEMMA ImrecvPlaces ==
    ASSUME PlacesInv, NEW r \in Recv, Imrecv(r)
    PROVE  \E m \in Send :
              /\ PlacesInv' /\ rreq[r].msg = {m} /\ Un(m) /\ ~Un(m)'
              /\ \A x \in Send : x # m => Un(x)' = Un(x)
              /\ \A x \in Send : On(x)' = On(x) /\ Taken(x)' = Taken(x)
              /\ rreq[r].st = "message" /\ rreq'[r].st = "matched" /\ rreq'[r].msg = {m}
              /\ rreq'[r].sel = rreq[r].sel /\ \A x \in Recv : x # r => rreq'[x] = rreq[x]
              /\ UNCHANGED <<sreq, line, posted, acks, ackq, uack>>
              /\ \E i \in 1..Len(unexp) : unexp' = RemoveAt(unexp, i)
<1> DEFINE I == {i \in 1..Len(unexp) : unexp[i].type \in Reserved /\ rreq[r].msg = {unexp[i].id}}
<1>1. /\ TypeOK /\ LineInv /\ OrderInv /\ UnexpInv /\ RecvInv /\ PostedInv
      /\ unexp \in Seq(Headers) /\ Len(unexp) \in Nat
  BY TypeFacts DEF PlacesInv
<1>2. SelectInSeq(unexp, LAMBDA h : h.type \in Reserved /\ rreq[r].msg = {h.id}) = First(I)
  BY DEF SelectInSeq, First
<1>3. First(I) # 0 => First(I) \in I
  BY <1>1, FirstFacts
<1>4. /\ rreq[r].st = "message" /\ First(I) # 0
      /\ rreq' = [rreq EXCEPT ![r] = Matched(@, unexp[First(I)])]
      /\ unexp' = RemoveAt(unexp, First(I))
      /\ UNCHANGED <<sreq, line, posted, acks, ackq, uack>>
  BY <1>2 DEF Imrecv
<1>5. PICK i \in 1..Len(unexp) : i = First(I) /\ unexp[i].type \in Reserved /\ rreq[r].msg = {unexp[i].id}
  BY <1>3, <1>4
<1> HIDE DEF I
<1>6. PICK m \in Send : m = unexp[i].id
  BY <1>1, TypeFacts
<1>7. PICK h \in Headers : h = unexp[i] /\ h.id = m /\ h.type \in Reserved
  BY <1>1, <1>5, <1>6, TypeFacts
<1>8. IsData(h) /\ Restored(h.type) = sreq[m].type
  <2>1. UnexpEntry(unexp[i])
    BY <1>1 DEF UnexpInv
  <2> QED
    BY <1>7, <2>1 DEF UnexpEntry
<1>9. rreq[r] \in RecvRec
  BY <1>1, TypeFacts
<1>10. PICK q \in RecvRec : q = Matched(rreq[r], h) /\ q.st = "matched" /\ q.sel = rreq[r].sel
                             /\ q.type = h.type /\ q.msg = {h.id}
  BY <1>8, <1>9, MatchedFacts
<1>11. rreq' = [rreq EXCEPT ![r] = q] /\ q.msg = {m} /\ rreq[r].msg = {m}
  BY <1>4, <1>5, <1>6, <1>7, <1>10
<1>12. /\ rreq' \in [Recv -> RecvRec] /\ rreq'[r] = q
       /\ \A x \in Recv : x # r => rreq'[x] = rreq[x]
       /\ \A x \in Send : Taken(x)' = Taken(x)
  BY <1>1, <1>11, TakenStep
<1>13. /\ unexp' \in Seq(Headers) /\ Ordered(unexp)' /\ Un(m) /\ ~Un(m)'
       /\ \A x \in Send : x # m => Un(x)' = Un(x)
       /\ \A k \in 1..Len(unexp') : \E l \in 1..Len(unexp) :
             unexp'[k] = unexp[l] /\ unexp[l].id # m
       /\ \A l \in 1..Len(unexp) : l # i => \E k \in 1..Len(unexp') : unexp'[k] = unexp[l]
  BY <1>1, <1>4, <1>5, <1>6, UnexpWithout
<1>14. \A x \in Send : On(x)' = On(x)
  BY <1>4 DEF On
<1>15. Place(m) /\ ~On(m) /\ Taken(m)
  <2>1. Place(m)
    BY DEF PlacesInv, PlaceInv
  <2>2. Taken(m)
    BY <1>11 DEF Taken
  <2> QED
    BY <1>13, <2>1, <2>2 DEF Place
<1>16. PlaceInv' /\ LossInv' /\ OrderInv'
  <2>1. Place(m)' /\ NotLost(m)'
    BY <1>4, <1>12, <1>13, <1>14, <1>15 DEF Place, NotLost
  <2> QED
    BY <1>4, <1>12, <1>13, <1>14, <2>1, MovedPlace
<1>17. UnexpInv'
  <2> SUFFICES ASSUME NEW k \in 1..Len(unexp') PROVE UnexpEntry(unexp[k])'
    BY DEF UnexpInv
  <2>1. PICK l \in 1..Len(unexp) : unexp'[k] = unexp[l] /\ unexp[l].id # m
    BY <1>13
  <2>2. UnexpEntry(unexp[l]) /\ unexp[l].id \in Send
    BY <1>1, TypeFacts DEF UnexpInv
  <2>3. PICK g : g = unexp[l] /\ g = unexp'[k]
    BY <2>1
  <2>4. \A x \in Recv : rreq[x].msg = {g.id} => rreq'[x] = rreq[x]
    BY <1>11, <1>12, <2>1, <2>3
  <2>5. Taken(g.id)' = Taken(g.id)
    BY <1>12, <2>2, <2>3
  <2>6. UnexpEntry(g)'
    BY <1>4, <2>2, <2>3, <2>4, <2>5 DEF UnexpEntry
  <2> QED
    BY <2>3, <2>6
<1>18. RecvInv'
  <2>1. ASSUME NEW x \in Recv PROVE RecvEntry(x)'
    <3>1. CASE x = r
      <4>1. rreq'[x].st = "matched" /\ rreq'[x].msg = {m} /\ Restored(rreq'[x].type) = sreq'[m].type
        BY <1>4, <1>8, <1>10, <1>11, <1>12, <3>1
      <4> QED
        BY <4>1 DEF RecvEntry
    <3>2. CASE x # r
      <4>1. RecvEntry(x) /\ rreq'[x] = rreq[x]
        BY <1>1, <1>12, <3>2 DEF RecvInv
      <4>2. rreq[x].msg # {m}
        BY <1>1, <1>11, <3>2 DEF RecvInv
      <4>3. \A l \in 1..Len(unexp) : rreq[x].msg = {unexp[l].id} =>
                \E k \in 1..Len(unexp') : unexp'[k] = unexp[l]
        BY <1>6, <1>13, <4>2
      <4> QED
        BY <1>4, <4>1, <4>3, SMTT(30) DEF RecvEntry
    <3> QED
      BY <3>1, <3>2
  <2>2. \A x \in Recv : rreq'[x].msg = rreq[x].msg
    BY <1>11, <1>12
  <2>3. \A x, y \in Recv : y < x /\ rreq'[x].st # "none" => rreq'[y].st # "none"
    BY <1>1, <1>4, <1>10, <1>12 DEF RecvInv
  <2> QED
    BY <1>1, <2>1, <2>2, <2>3 DEF RecvInv
<1>19. PostedInv'
  <2>1. \A x \in Recv : rreq'[x].st = "posted" => rreq'[x] = rreq[x]
    BY <1>10, <1>12
  <2>2. (\A x \in Recv, k \in 1..Len(unexp) :
               rreq[x].st = "posted" => ~AcceptData(rreq[x].sel, unexp[k]))'
    BY <1>1, <1>4, <1>13, <2>1, StillNotAccepted
  <2>3. ASSUME NEW x \in Recv, rreq[x].st = "posted" PROVE rreq'[x].st = "posted"
    BY <1>4, <1>12, <2>3
  <2>4. \A k \in 1..Len(posted) : posted[k] \in Recv
    BY <1>1, TypeFacts
  <2>5. PostedList'
    BY <1>1, <1>4, <2>1, <2>3, <2>4 DEF PostedInv, PostedList
  <2> QED
    BY <2>2, <2>5 DEF PostedInv, PostedList
<1>20. TypeOK'
  BY <1>1, <1>4, <1>12, <1>13 DEF TypeOK
<1>21. LineInv'
  BY <1>1, <1>4, LinesSame
<1>22. PlacesInv'
  BY <1>16, <1>17, <1>18, <1>19, <1>20, <1>21 DEF PlacesInv
<1> QED
  BY <1>4, <1>5, <1>10, <1>11, <1>12, <1>13, <1>14, <1>22

(* receive_done and MPID_Cancel_recv: request r, which keeps its message, gets *)
(* to the state st.                                                            *)
LEMMA RecvEndsPlaces ==
    ASSUME PlacesInv, NEW r \in Recv, NEW st \in {"done", "cancelled"},
           UNCHANGED <<sreq, line, unexp, ackq, uack>>, acks' \in [Sender -> Seq(Acks)],
           rreq' = [rreq EXCEPT ![r].st = st],
           \/ st = "done" /\ rreq[r].st = "matched" /\ UNCHANGED posted
           \/ st = "cancelled" /\ rreq[r].st = "posted" /\ posted' = RemoveFirst(posted, r)
    PROVE  /\ PlacesInv' /\ rreq'[r].st = st /\ rreq'[r].msg = rreq[r].msg
           /\ rreq'[r].sel = rreq[r].sel /\ \A x \in Recv : x # r => rreq'[x] = rreq[x]
           /\ \A x \in Send : On(x)' = On(x) /\ Un(x)' = Un(x) /\ Taken(x)' = Taken(x)
<1>1. /\ TypeOK /\ LineInv /\ OrderInv /\ UnexpInv /\ RecvInv /\ PostedInv
      /\ rreq[r] \in RecvRec /\ posted \in Seq(Recv)
  BY TypeFacts DEF PlacesInv
<1>2. PICK q \in RecvRec : /\ q = [rreq[r] EXCEPT !.st = st] /\ q.st = st /\ q.sel = rreq[r].sel
                           /\ q.type = rreq[r].type /\ q.msg = rreq[r].msg
  <2> DEFINE c == [rreq[r] EXCEPT !.st = st]
  <2>1. c \in RecvRec /\ c.st = st /\ c.sel = rreq[r].sel /\ c.type = rreq[r].type
        /\ c.msg = rreq[r].msg
    BY <1>1 DEF RecvRec
  <2> QED
    BY <2>1
<1>3. rreq' = [rreq EXCEPT ![r] = q]
  BY <1>2
<1>4. /\ rreq' \in [Recv -> RecvRec] /\ rreq'[r] = q
      /\ \A x \in Recv : x # r => rreq'[x] = rreq[x]
      /\ \A x \in Send : Taken(x)' = Taken(x)
  BY <1>1, <1>2, <1>3, TakenStep
<1>5. \A x \in Send : On(x)' = On(x) /\ Un(x)' = Un(x)
  BY DEF On, Un
<1>6. LineInv'
  BY <1>1, LinesSame
<1>7. PlaceInv' /\ LossInv'
  <2> SUFFICES ASSUME NEW x \in Send PROVE Place(x)' /\ NotLost(x)'
    BY DEF PlaceInv, LossInv
  <2>1. Place(x) /\ NotLost(x)
    BY DEF PlacesInv, PlaceInv, LossInv
  <2>2. On(x)' = On(x) /\ Un(x)' = Un(x) /\ Taken(x)' = Taken(x)
    BY <1>4, <1>5
  <2> QED
    BY <2>1, <2>2 DEF Place, NotLost
<1>8. OrderInv'
  <2>1. Ordered(unexp)'
    BY <1>1 DEF OrderInv, Ordered
  <2> QED
    BY <1>1, <1>5, <2>1 DEF OrderInv
<1>9. UnexpInv'
  <2> SUFFICES ASSUME NEW k \in 1..Len(unexp) PROVE UnexpEntry(unexp[k])'
    BY DEF UnexpInv
  <2>1. UnexpEntry(unexp[k]) /\ unexp[k].id \in Send
    BY <1>1, TypeFacts DEF UnexpInv
  <2>2. PICK h : h = unexp[k]
    OBVIOUS
  <2>3. \A x \in Recv : rreq[x].st = "message" => rreq'[x] = rreq[x]
    BY <1>4
  <2>4. UnexpEntry(h)'
    BY <1>4, <2>1, <2>2, <2>3 DEF UnexpEntry
  <2> QED
    BY <2>2, <2>4
<1>10. RecvInv'
  <2>1. ASSUME NEW x \in Recv PROVE RecvEntry(x)'
    <3>1. RecvEntry(x)
      BY <1>1 DEF RecvInv
    <3>2. CASE x = r
      BY <1>2, <1>4, <3>1, <3>2 DEF RecvEntry
    <3>3. CASE x # r
      BY <1>4, <3>1, <3>3 DEF RecvEntry
    <3> QED
      BY <3>2, <3>3
  <2>2. \A x \in Recv : rreq'[x].msg = rreq[x].msg
    BY <1>2, <1>4
  <2>3. \A x, y \in Recv : y < x /\ rreq'[x].st # "none" => rreq'[y].st # "none"
    BY <1>1, <1>2, <1>4 DEF RecvInv
  <2> QED
    BY <1>1, <2>1, <2>2, <2>3 DEF RecvInv
<1>11. PostedList' /\ posted' \in Seq(Recv)
  <2>1. PostedList
    BY <1>1 DEF PostedInv, PostedList
  <2>2. CASE rreq[r].st = "matched" /\ UNCHANGED posted
    <3>1. \A k \in 1..Len(posted) : posted[k] \in Recv
      BY <1>1, TypeFacts
    <3>2. \A x \in Recv : rreq'[x].st = "posted" <=> rreq[x].st = "posted"
      BY <1>2, <1>4, <2>2
    <3> QED
      BY <1>1, <2>1, <2>2, <3>1, <3>2 DEF PostedList
  <2>3. CASE rreq[r].st = "posted" /\ posted' = RemoveFirst(posted, r)
    <3>1. PICK n \in 1..Len(posted) : posted[n] = r
      BY <2>1, <2>3 DEF PostedList
    <3>2. PICK i \in 1..Len(posted) : posted[i] = r /\ posted' = RemoveAt(posted, i)
      BY <1>1, <2>3, <3>1, RemoveFirstFacts
    <3>3. rreq'[posted[i]].st # "posted" /\ \A x \in Recv : x # posted[i] => rreq'[x] = rreq[x]
      BY <1>2, <1>4, <3>2
    <3> QED
      BY <1>1, <2>1, <3>2, <3>3, PostedWithout
  <2> QED
    BY <2>2, <2>3
<1>12. PostedInv'
  <2>1. \A x \in Recv : rreq'[x].st = "posted" => rreq'[x] = rreq[x]
    BY <1>2, <1>4
  <2>2. (\A x \in Recv, k \in 1..Len(unexp) :
               rreq[x].st = "posted" => ~AcceptData(rreq[x].sel, unexp[k]))'
    BY <1>1, <2>1, StillNotAccepted
  <2> QED
    BY <1>11, <2>2 DEF PostedInv, PostedList
<1>13. TypeOK'
  BY <1>1, <1>4, <1>11 DEF TypeOK
<1> QED
  BY <1>2, <1>4, <1>5, <1>6, <1>7, <1>8, <1>9, <1>10, <1>12, <1>13 DEF PlacesInv

(* A receive is complete: each message stays in one place. *)
LEMMA RecvDonePlaces ==
    ASSUME PlacesInv, NEW r \in Recv, RecvDone(r)
    PROVE  \E m \in Send :
              /\ PlacesInv' /\ rreq[r].st = "matched" /\ rreq'[r].st = "done"
              /\ rreq[r].msg = {m} /\ rreq'[r].msg = {m}
              /\ rreq'[r].sel = rreq[r].sel /\ \A x \in Recv : x # r => rreq'[x] = rreq[x]
              /\ \A x \in Send : On(x)' = On(x) /\ Un(x)' = Un(x) /\ Taken(x)' = Taken(x)
              /\ UNCHANGED <<sreq, line, posted, unexp, ackq, uack>>
              /\ \/ UNCHANGED acks
                 \/ /\ sreq[m].type = Sync
                    /\ acks' = [acks EXCEPT ![SrcOf[m]] =
                                  Append(@, [type |-> "DATA_ACK", id |-> m])]
<1>1. TypeOK /\ RecvInv /\ acks \in [Sender -> Seq(Acks)]
  BY DEF PlacesInv, TypeOK
<1>2. /\ rreq[r].st = "matched" /\ rreq' = [rreq EXCEPT ![r].st = "done"]
      /\ UNCHANGED <<sreq, line, posted, unexp, ackq, uack>>
  BY DEF RecvDone
<1>3. PICK m \in Send : rreq[r].msg = {m} /\ Restored(rreq[r].type) = sreq[m].type
  BY <1>1, <1>2 DEF RecvInv, RecvEntry
<1>4. \/ UNCHANGED acks
      \/ /\ sreq[m].type = Sync
         /\ acks' = [acks EXCEPT ![SrcOf[m]] = Append(@, [type |-> "DATA_ACK", id |-> m])]
  BY <1>3 DEF RecvDone, Sync
<1>5. acks' \in [Sender -> Seq(Acks)]
  <2>1. [type |-> "DATA_ACK", id |-> m] \in Acks
    BY DEF Acks
  <2>2. SrcOf[m] \in Sender /\ acks[SrcOf[m]] \in Seq(Acks)
    BY <1>1, TypeFacts
  <2>3. Append(acks[SrcOf[m]], [type |-> "DATA_ACK", id |-> m]) \in Seq(Acks)
    BY <2>1, <2>2
  <2> QED
    BY <1>1, <1>4, <2>2, <2>3
<1>6. /\ PlacesInv' /\ rreq'[r].st = "done" /\ rreq'[r].msg = rreq[r].msg
      /\ rreq'[r].sel = rreq[r].sel /\ \A x \in Recv : x # r => rreq'[x] = rreq[x]
      /\ \A x \in Send : On(x)' = On(x) /\ Un(x)' = Un(x) /\ Taken(x)' = Taken(x)
  BY <1>2, <1>5, RecvEndsPlaces
<1> QED
  BY <1>2, <1>3, <1>4, <1>6

(* A receive is cancelled: each message stays in one place. *)
LEMMA CancelRecvPlaces ==
    ASSUME PlacesInv, NEW r \in Recv, Cancel_recv(r)
    PROVE  /\ PlacesInv' /\ rreq[r].st = "posted" /\ rreq'[r].st = "cancelled"
           /\ rreq'[r].msg = rreq[r].msg
           /\ rreq'[r].sel = rreq[r].sel /\ \A x \in Recv : x # r => rreq'[x] = rreq[x]
           /\ \A x \in Send : On(x)' = On(x) /\ Un(x)' = Un(x) /\ Taken(x)' = Taken(x)
           /\ UNCHANGED <<sreq, line, unexp, acks, ackq, uack>>
<1>1. acks \in [Sender -> Seq(Acks)]
  BY DEF PlacesInv, TypeOK
<1>2. /\ rreq[r].st = "posted" /\ rreq' = [rreq EXCEPT ![r].st = "cancelled"]
      /\ posted' = RemoveFirst(posted, r) /\ UNCHANGED <<sreq, line, unexp, acks, ackq, uack>>
  BY DEF Cancel_recv
<1>3. acks' \in [Sender -> Seq(Acks)]
  BY <1>1, <1>2
<1>4. /\ PlacesInv' /\ rreq'[r].st = "cancelled" /\ rreq'[r].msg = rreq[r].msg
      /\ rreq'[r].sel = rreq[r].sel /\ \A x \in Recv : x # r => rreq'[x] = rreq[x]
      /\ \A x \in Send : On(x)' = On(x) /\ Un(x)' = Un(x) /\ Taken(x)' = Taken(x)
  BY <1>2, <1>3, RecvEndsPlaces
<1> QED
  BY <1>2, <1>4

-----------------------------------------------------------------------------
(* Every step keeps the places of the messages. *)

(* At first no message is anywhere. *)
LEMMA InitPlaces == Init => PlacesInv
<1> SUFFICES ASSUME Init PROVE PlacesInv
  OBVIOUS
<1>1. TypeOK
  <2>1. [type |-> "none", env |-> {}, pio |-> "none", cc |-> 0,
         bit |-> FALSE, asked |-> FALSE, out |-> "none"] \in SendRec
    BY DEF SendRec
  <2>2. [st |-> "none", sel |-> NoSel, type |-> "none", msg |-> {}] \in RecvRec
    BY DEF RecvRec
  <2> QED
    BY <2>1, <2>2 DEF Init, TypeOK
<1>2. /\ \A s \in Sender : line[s] = <<>>
      /\ unexp = <<>> /\ posted = <<>>
      /\ \A m \in Send : sreq[m].type = "none" /\ sreq[m].pio = "none"
      /\ \A r \in Recv : rreq[r].st = "none" /\ rreq[r].msg = {}
  BY DEF Init
<1>3. \A m \in Send : ~On(m) /\ ~Un(m) /\ ~Taken(m)
  <2>1. ASSUME NEW q, q = <<>>, NEW m PROVE ~InSeq(q, m)
    BY <2>1 DEF InSeq
  <2> QED
    BY <1>1, <1>2, <2>1, TypeFacts DEF On, Un, Taken
<1>4. LineInv
  BY <1>2 DEF LineInv, Ordered
<1>5. PlaceInv /\ LossInv
  BY <1>2, <1>3 DEF PlaceInv, LossInv, Place, NotLost
<1>6. OrderInv /\ UnexpInv
  BY <1>2, <1>3 DEF OrderInv, UnexpInv, Ordered
<1>7. RecvInv /\ PostedInv
  BY <1>2 DEF RecvInv, PostedInv, RecvEntry
<1> QED
  BY <1>1, <1>4, <1>5, <1>6, <1>7 DEF PlacesInv

(* Every step keeps each message in one place. *)
LEMMA NextPlaces == PlacesInv /\ [Next]_vars => PlacesInv'
<1> SUFFICES ASSUME PlacesInv, [Next]_vars PROVE PlacesInv'
  OBVIOUS
<1>0. TypeOK
  BY DEF PlacesInv
<1>1. ASSUME NEW s \in Sender, SendStart(s) PROVE PlacesInv'
  BY <1>1, SendStartPlaces
<1>2. ASSUME NEW s \in Sender, RecvAck(s) PROVE PlacesInv'
  BY <1>2, RecvAckPlaces
<1>3. ASSUME NEW s \in Sender, RecvData(s) PROVE PlacesInv'
  <2>1. \/ /\ unexp' = Append(unexp, Head(line[s])) /\ UNCHANGED <<rreq, posted>>
           /\ \A i \in 1..Len(posted) : ~AcceptData(rreq[posted[i]].sel, Head(line[s]))
        \/ \E i \in 1..Len(posted) :
              /\ AcceptData(rreq[posted[i]].sel, Head(line[s]))
              /\ rreq' = [rreq EXCEPT ![posted[i]] = Matched(@, Head(line[s]))]
              /\ posted' = RemoveAt(posted, i) /\ UNCHANGED unexp
    BY <1>0, <1>3, RecvDataCases
  <2> QED
    BY <1>3, <2>1, RecvUnexpPlaces, RecvMatchPlaces
<1>4. ASSUME NEW s \in Sender, RecvCancel(s) PROVE PlacesInv'
  <2>1. \/ UNCHANGED <<unexp, acks>>
        \/ \E i \in 1..Len(unexp) :
              /\ AcceptCancel(Head(line[s]), unexp[i])
              /\ acks' = [acks EXCEPT ![s] =
                            Append(@, [type |-> "CANCEL_DATA_ACK", id |-> unexp[i].id])]
              /\ unexp' = RemoveAt(unexp, i)
    BY <1>0, <1>4, RecvCancelCases
  <2> QED
    BY <1>4, <2>1, CancelMissPlaces, CancelHitPlaces
<1>5. ASSUME NEW m \in Send, SendDone(m) PROVE PlacesInv'
  BY <1>5, SendDonePlaces
<1>6. ASSUME NEW r \in Recv, RecvDone(r) PROVE PlacesInv'
  BY <1>6, RecvDonePlaces
<1>7. ASSUME NEW m \in Send, NEW e \in Env, NEW type \in DataTypes, Sendtype(m, e, type)
      PROVE  PlacesInv'
  BY <1>7, SendtypePlaces
<1>8. ASSUME NEW m \in Send, Cancel_send(m) PROVE PlacesInv'
  BY <1>8, TakeBackPlaces, AskPlaces
<1>9. ASSUME NEW m \in Send, WaitSend(m) PROVE PlacesInv'
  BY <1>9, WaitSendPlaces
<1>10. ASSUME NEW r \in Recv, NEW sel \in Sels, Irecv(r, sel) PROVE PlacesInv'
  <2>1. \/ /\ rreq' = [rreq EXCEPT ![r] = Posting(sel)]
           /\ posted' = Append(posted, r) /\ UNCHANGED unexp
           /\ \A i \in 1..Len(unexp) : ~AcceptData(sel, unexp[i])
        \/ \E i \in 1..Len(unexp) :
              /\ AcceptData(sel, unexp[i])
              /\ rreq' = [rreq EXCEPT ![r] = Matched(Posting(sel), unexp[i])]
              /\ unexp' = RemoveAt(unexp, i) /\ UNCHANGED posted
    BY <1>0, <1>10, IrecvCases
  <2> QED
    BY <1>10, <2>1, PostPlaces, IrecvMatchPlaces
<1>11. ASSUME NEW r \in Recv, NEW sel \in Sels, Improbe(r, sel) PROVE PlacesInv'
  <2>1. PICK i \in 1..Len(unexp), t \in Reserved :
                 /\ AcceptData(sel, unexp[i])
                 /\ Restored(t) = unexp[i].type
                 /\ unexp' = [unexp EXCEPT ![i] = [id |-> unexp[i].id, type |-> t]]
                 /\ rreq' = [rreq EXCEPT ![r] = [st |-> "message", sel |-> sel,
                                                 type |-> t, msg |-> {unexp[i].id}]]
    BY <1>0, <1>11, ImprobeCases
  <2> QED
    BY <1>11, <2>1, ImprobePlaces
<1>12. ASSUME NEW r \in Recv, Imrecv(r) PROVE PlacesInv'
  BY <1>12, ImrecvPlaces
<1>13. ASSUME NEW r \in Recv, Cancel_recv(r) PROVE PlacesInv'
  BY <1>13, CancelRecvPlaces
<1>14. CASE UNCHANGED vars
  <2>1. TypeOK'
    BY <1>0, <1>14 DEF vars, TypeOK
  <2> QED
    BY <1>14, <2>1, SameMessages DEF vars, PioStep
<1> QED
  BY <1>1, <1>2, <1>3, <1>4, <1>5, <1>6, <1>7, <1>8, <1>9, <1>10, <1>11, <1>12, <1>13, <1>14
  DEF Next, Progress

(* Every message of the device is in one place, and the messages of a sender    *)
(* stay in the order in which it has sent them: from MPIDI_PSP_Isend through    *)
(* pscom's connection and the list of unexpected messages to the receive.       *)
THEOREM PlacesHold == Spec => []PlacesInv
<1>1. Init => PlacesInv
  BY InitPlaces
<1>2. PlacesInv /\ [Next]_vars => PlacesInv'
  BY NextPlaces
<1> QED
  BY <1>1, <1>2, PTL DEF Spec

(* Between MPI_Improbe and MPI_Imrecv the message stays in the list of           *)
(* unexpected messages, with the type that cb_accept_data_mprobe has given it:  *)
(* no receive, probe or cancel takes it.                                        *)
THEOREM ReservedUntilReceivedHolds == Spec => []ReservedUntilReceived
<1>1. PlacesInv => ReservedUntilReceived
  <2> SUFFICES ASSUME PlacesInv, NEW r \in Recv, rreq[r].st = "message"
               PROVE  \E h \in Range(unexp) : rreq[r].msg = {h.id} /\ rreq[r].type = h.type
    BY DEF ReservedUntilReceived
  <2>1. PICK i \in 1..Len(unexp) : unexp[i].type = rreq[r].type /\ rreq[r].msg = {unexp[i].id}
    BY DEF PlacesInv, RecvInv, RecvEntry
  <2>2. unexp[i] \in Range(unexp)
    <3>1. DOMAIN unexp = 1..Len(unexp)
      BY TypeFacts DEF PlacesInv
    <3> QED
      BY <3>1 DEF Range
  <2> QED
    BY <2>1, <2>2
<1> QED
  BY <1>1, PlacesHold, PTL
-----------------------------------------------------------------------------
(* Acknowledgements and completion, for a program that has at most one          *)
(* synchronous send per envelope and sender under way.                          *)

(* x is in the list q; x comes before y in it. *)
Has(q, x) == \E i \in 1..Len(q) : q[i] = x
Before(q, x, y) == \E i, j \in 1..Len(q) : i < j /\ q[i] = x /\ q[j] = y

(* Of two synchronous sends of one envelope and sender the older one is over.   *)
OneSync ==
    \A x, y \in Send :
        (/\ SrcOf[x] = SrcOf[y] /\ x < y /\ sreq[x].env = sreq[y].env
         /\ sreq[x].type = Sync /\ sreq[y].type = Sync) => sreq[x].out # "none"

(* A synchronous message h was not sent after the one that c cancels ...        *)
NotAfter(h, c) ==
    IsData(h) /\ sreq[h.id].type = Sync /\ sreq[h.id].env = sreq[c.id].env => h.id <= c.id

(* ... if c can meet it at the receiver: h has arrived or arrives before c.     *)
CancelInv ==
    \A s \in Sender, h \in Headers, c \in Headers :
        /\ ~IsData(c)
        /\ Before(line[s], h, c) \/ (Has(line[s], c) /\ Has(unexp, h) /\ SrcOf[h.id] = s)
        => NotAfter(h, c)

(* A receive has m and has not acknowledged it. *)
Held(m) == \E r \in Recv : rreq[r].msg = {m} /\ rreq[r].st \in {"message", "matched"}

(* What is true of an acknowledgement a on its way to s, ...                    *)
AckEntry(s, a) ==
    /\ SrcOf[a.id] = s /\ sreq[a.id].type = Sync
    /\ sreq[a.id].cc = 1 /\ sreq[a.id].pio \in {"started", "done"}
    /\ ~On(a.id) /\ ~Un(a.id) /\ ~Held(a.id)
    /\ a.type = "DATA_ACK" => Taken(a.id)
    /\ a.type = "CANCEL_DATA_ACK" => ~Taken(a.id)

(* ... and of a request of s that waits for its acknowledgement.                *)
QueueEntry(s, m) ==
    SrcOf[m] = s /\ sreq[m].type = Sync /\ sreq[m].pio = "done" /\ sreq[m].cc = 1

(* Every message is acknowledged once. *)
TokenInv ==
    \A s \in Sender :
        /\ \A a \in Acks : Has(acks[s], a) \/ Has(uack[s], a) => AckEntry(s, a)
        /\ \A a, b \in Acks :
              Before(acks[s], a, b) \/ Before(uack[s], a, b) \/ (Has(acks[s], a) /\ Has(uack[s], b))
                  => a.id # b.id

QueueInv ==
    \A s \in Sender :
        \A m \in Send : (Has(ackq[s], m) => QueueEntry(s, m)) /\ ~Before(ackq[s], m, m)

(* The completion counter and the cancel bit of a send. *)
Count(m) ==
    /\ sreq[m].type # "none" => sreq[m].cc \in {0, 1}
    /\ sreq[m].cc = 1 => ~sreq[m].bit /\ sreq[m].out = "none"
    /\ sreq[m].pio \in {"posted", "started"} => sreq[m].cc = 1
    /\ sreq[m].type = Sync /\ (On(m) \/ Un(m) \/ Held(m)) => sreq[m].cc = 1
    /\ sreq[m].type # "none" /\ sreq[m].cc = 0 /\ sreq[m].bit => ~On(m) /\ ~Un(m) /\ ~Taken(m)
    /\ sreq[m].type # "none" /\ sreq[m].cc = 0 /\ ~sreq[m].bit =>
          sreq[m].pio # "cancelled" /\ (sreq[m].type = Sync => Taken(m))

CountInv == \A m \in Send : Count(m)

DeviceInv == OneSync /\ CancelInv /\ TokenInv /\ QueueInv /\ CountInv

-----------------------------------------------------------------------------
(* An entry is put at the end of a list. *)
LEMMA AppendHas ==
    ASSUME NEW S, NEW q \in Seq(S), NEW e \in S
    PROVE  /\ \A x : Has(Append(q, e), x) => Has(q, x) \/ x = e
           /\ \A x, y : Before(Append(q, e), x, y) => Before(q, x, y) \/ (Has(q, x) /\ y = e)
<1> DEFINE d == Append(q, e)
<1>1. d \in Seq(S) /\ Len(d) = Len(q) + 1 /\ d[Len(q) + 1] = e /\ Len(q) \in Nat
      /\ \A k \in 1..Len(q) : d[k] = q[k]
  OBVIOUS
<1> HIDE DEF d
<1>2. ASSUME NEW x, Has(d, x) PROVE Has(q, x) \/ x = e
  <2>1. PICK i \in 1..Len(d) : d[i] = x
    BY <1>2 DEF Has
  <2>2. i \in 1..Len(q) \/ i = Len(q) + 1
    BY <1>1
  <2> QED
    BY <1>1, <2>1, <2>2 DEF Has
<1>3. ASSUME NEW x, NEW y, Before(d, x, y) PROVE Before(q, x, y) \/ (Has(q, x) /\ y = e)
  <2>1. PICK i \in 1..Len(d), j \in 1..Len(d) : i < j /\ d[i] = x /\ d[j] = y
    BY <1>3 DEF Before
  <2>2. i \in 1..Len(q) /\ (j \in 1..Len(q) \/ j = Len(q) + 1)
    BY <1>1, <2>1
  <2> QED
    BY <1>1, <2>1, <2>2 DEF Has, Before
<1> QED
  BY <1>2, <1>3 DEF d

(* An entry is taken out of a list. *)
LEMMA WithoutHas ==
    ASSUME NEW d, NEW q, Len(q) \in Nat, NEW i \in 1..Len(q), Without(d, q, i)
    PROVE  /\ \A x : Has(d, x) => Has(q, x)
           /\ \A x : Has(d, x) => Before(q, x, q[i]) \/ Before(q, q[i], x)
           /\ \A x, y : Before(d, x, y) => Before(q, x, y)
<1>1. ASSUME NEW x, Has(d, x)
      PROVE  Has(q, x) /\ (Before(q, x, q[i]) \/ Before(q, q[i], x))
  <2>1. PICK k \in 1..Len(d) : d[k] = x
    BY <1>1 DEF Has
  <2>2. PICK l \in 1..Len(q) : l # i /\ x = q[l]
    BY <2>1 DEF Without
  <2>3. l < i \/ i < l
    BY <2>2
  <2> QED
    BY <2>2, <2>3 DEF Has, Before
<1>2. ASSUME NEW x, NEW y, Before(d, x, y) PROVE Before(q, x, y)
  <2>1. PICK k \in 1..Len(d), n \in 1..Len(d) : k < n /\ d[k] = x /\ d[n] = y
    BY <1>2 DEF Before
  <2>2. \A a, b \in 1..Len(d) : a < b => \E l, o \in 1..Len(q) :
            l < o /\ l # i /\ o # i /\ d[a] = q[l] /\ d[b] = q[o]
    BY DEF Without
  <2>3. PICK l \in 1..Len(q) : \E o \in 1..Len(q) :
            l < o /\ l # i /\ o # i /\ d[k] = q[l] /\ d[n] = q[o]
    BY <2>1, <2>2
  <2>4. PICK o \in 1..Len(q) : l < o /\ d[k] = q[l] /\ d[n] = q[o]
    BY <2>3
  <2> QED
    BY <2>1, <2>4 DEF Before
<1> QED
  BY <1>1, <1>2

(* Steps that leave an entry as it is. *)
Same(x) ==
    /\ sreq'[x].type = sreq[x].type /\ sreq'[x].env = sreq[x].env
    /\ sreq'[x].pio = sreq[x].pio /\ sreq'[x].cc = sreq[x].cc
    /\ sreq'[x].bit = sreq[x].bit /\ sreq'[x].out = sreq[x].out
    /\ On(x)' = On(x) /\ Un(x)' = Un(x) /\ Taken(x)' = Taken(x) /\ Held(x)' = Held(x)
EntriesKept ==
    \A s \in Sender, a \in Acks : AckEntry(s, a) => AckEntry(s, a)'
QueueKept ==
    \A s \in Sender, m \in Send : QueueEntry(s, m) => QueueEntry(s, m)'

(* Only message m changes. *)
LEMMA OthersSame ==
    ASSUME DeviceInv, NEW m \in Send, \A x \in Send : x # m => Same(x), Count(m)'
    PROVE  /\ CountInv'
           /\ (\A s \in Sender, a \in Acks : a.id = m /\ AckEntry(s, a) => AckEntry(s, a)')
                 => EntriesKept
           /\ (\A s \in Sender : QueueEntry(s, m) => QueueEntry(s, m)') => QueueKept
           /\ \A s \in Sender, a \in Acks : a.id # m /\ AckEntry(s, a) => AckEntry(s, a)'
           /\ \A s \in Sender, x \in Send : x # m /\ QueueEntry(s, x) => QueueEntry(s, x)'
<1>1. ASSUME NEW x \in Send, x # m PROVE Count(x)'
  <2>1. Count(x) /\ Same(x)
    BY <1>1 DEF DeviceInv, CountInv
  <2> QED
    BY <2>1 DEF Count, Same
<1>2. CountInv'
  BY <1>1 DEF CountInv
<1>3. ASSUME NEW s \in Sender, NEW a \in Acks, a.id # m, AckEntry(s, a) PROVE AckEntry(s, a)'
  <2>1. a.id \in Send
    BY DEF Acks
  <2>2. PICK x \in Send : x = a.id /\ Same(x)
    BY <1>3, <2>1
  <2> QED
    BY <1>3, <2>2 DEF AckEntry, Same
<1>4. ASSUME NEW s \in Sender, NEW x \in Send, x # m, QueueEntry(s, x) PROVE QueueEntry(s, x)'
  <2>1. Same(x)
    BY <1>4
  <2> QED
    BY <1>4, <2>1 DEF QueueEntry, Same
<1> QED
  BY <1>2, <1>3, <1>4 DEF EntriesKept, QueueKept

(* One send request changes. *)
LEMMA OneMoves ==
    ASSUME DeviceInv, NEW m \in Send, \A x \in Send : x # m => Same(x), Count(m)',
           sreq'[m].type = sreq[m].type, sreq'[m].env = sreq[m].env,
           sreq[m].out # "none" => sreq'[m].out # "none"
    PROVE  /\ OneSync' /\ CountInv'
           /\ (\A s \in Sender, a \in Acks : a.id = m /\ AckEntry(s, a) => AckEntry(s, a)')
                 => EntriesKept
           /\ (\A s \in Sender : QueueEntry(s, m) => QueueEntry(s, m)') => QueueKept
           /\ \A s \in Sender, a \in Acks : a.id # m /\ AckEntry(s, a) => AckEntry(s, a)'
           /\ \A s \in Sender, x \in Send : x # m /\ QueueEntry(s, x) => QueueEntry(s, x)'
<1>1. \A x \in Send : /\ sreq'[x].type = sreq[x].type /\ sreq'[x].env = sreq[x].env
                      /\ sreq[x].out # "none" => sreq'[x].out # "none"
  BY DEF Same
<1>2. OneSync'
  BY <1>1 DEF DeviceInv, OneSync
<1> QED
  BY <1>2, OthersSame

(* The acknowledgements on their way are kept. *)
LEMMA TokensKept ==
    ASSUME TokenInv, UNCHANGED <<acks, uack>>, EntriesKept
    PROVE  TokenInv'
  BY DEF TokenInv, EntriesKept

(* So are the queues of requests that wait for one. *)
LEMMA QueuesKept ==
    ASSUME QueueInv, UNCHANGED ackq, QueueKept
    PROVE  QueueInv'
  BY DEF QueueInv, QueueKept

(* So is what is in front of a cancel. *)
LEMMA CancelsKept ==
    ASSUME TypeOK, CancelInv,
           \A x \in Send : sreq'[x].type = sreq[x].type /\ sreq'[x].env = sreq[x].env,
           \A s \in Sender, h \in Headers, c \in Headers : ~IsData(c) =>
              /\ Before(line'[s], h, c) => Before(line[s], h, c)
              /\ Has(line'[s], c) => Has(line[s], c)
              /\ Has(line'[s], c) /\ Has(unexp', h) /\ SrcOf[h.id] = s =>
                    Before(line[s], h, c)
                    \/ \E g \in Headers : g.id = h.id /\ (IsData(h) => IsData(g)) /\ Has(unexp, g)
    PROVE  CancelInv'
<1> SUFFICES ASSUME NEW s \in Sender, NEW h \in Headers, NEW c \in Headers, ~IsData(c),
                    Before(line'[s], h, c) \/ (Has(line'[s], c) /\ Has(unexp', h) /\ SrcOf[h.id] = s)
             PROVE  NotAfter(h, c)'
  BY DEF CancelInv
<1>1. h.id \in Send /\ c.id \in Send
  BY DEF Headers
<1>2. NotAfter(h, c)
  <2>1. CASE Before(line[s], h, c)
    BY <2>1 DEF CancelInv
  <2>2. ASSUME NEW g \in Headers, g.id = h.id, IsData(h) => IsData(g), Has(unexp, g),
               Has(line[s], c), SrcOf[h.id] = s
        PROVE  NotAfter(h, c)
    <3>1. NotAfter(g, c)
      BY <2>2 DEF CancelInv
    <3> QED
      BY <2>2, <3>1 DEF NotAfter
  <2> QED
    BY <2>1, <2>2
<1> QED
  BY <1>1, <1>2 DEF NotAfter

(* Steps that change one request and move no message. *)
LEMMA RequestOnly ==
    ASSUME PlacesInv, DeviceInv, UNCHANGED <<rreq, line, unexp>>,
           NEW m \in Send, NEW q \in SendRec, sreq' = [sreq EXCEPT ![m] = q],
           q.type = sreq[m].type, q.env = sreq[m].env
    PROVE  /\ \A x \in Send : x # m => Same(x)
           /\ sreq'[m] = q /\ On(m)' = On(m) /\ Un(m)' = Un(m)
           /\ Taken(m)' = Taken(m) /\ Held(m)' = Held(m)
           /\ CancelInv'
<1>1. sreq \in [Send -> SendRec] /\ TypeOK
  BY DEF PlacesInv, TypeOK
<1>2. \A x \in Send : On(x)' = On(x) /\ Un(x)' = Un(x) /\ Taken(x)' = Taken(x) /\ Held(x)' = Held(x)
  BY DEF On, Un, Taken, Held
<1>3. sreq'[m] = q /\ \A x \in Send : x # m => sreq'[x] = sreq[x]
  BY <1>1
<1>4. ASSUME NEW x \in Send, x # m PROVE Same(x)
  BY <1>2, <1>3, <1>4 DEF Same
<1>5. CancelInv'
  <2>1. \A h \in Headers : h.id \in Send
    BY DEF Headers
  <2>2. \A x \in Send : sreq'[x].type = sreq[x].type /\ sreq'[x].env = sreq[x].env
    BY <1>3
  <2>3. CancelInv
    BY DEF DeviceInv
  <2> QED
    BY <2>1, <2>2, <2>3 DEF CancelInv, NotAfter
<1> QED
  BY <1>2, <1>3, <1>4, <1>5

(* pscom starts a send: acknowledgements stay with their requests. *)
LEMMA SendStartDevice ==
    ASSUME PlacesInv, DeviceInv, NEW s \in Sender, SendStart(s)
    PROVE  DeviceInv'
<1>1. TypeOK /\ \A x \in Send : sreq[x] \in SendRec
  BY DEF PlacesInv, TypeOK
<1>2. PICK m \in Send : sreq' = [sreq EXCEPT ![m].pio = "started"] /\ sreq[m].pio = "posted"
  BY <1>1, SendStartCases
<1>3. UNCHANGED <<rreq, line, posted, unexp, acks, ackq, uack>>
  BY <1>1, SendStartCases
<1>4. PICK q \in SendRec : /\ sreq' = [sreq EXCEPT ![m] = q]
                           /\ q.type = sreq[m].type /\ q.env = sreq[m].env /\ q.pio = "started"
                           /\ q.cc = sreq[m].cc /\ q.bit = sreq[m].bit /\ q.out = sreq[m].out
  <2> DEFINE c == [sreq[m] EXCEPT !.pio = "started"]
  <2>1. /\ c \in SendRec /\ c.type = sreq[m].type /\ c.env = sreq[m].env /\ c.pio = "started"
        /\ c.cc = sreq[m].cc /\ c.bit = sreq[m].bit /\ c.out = sreq[m].out
    BY <1>1 DEF SendRec
  <2>2. sreq' = [sreq EXCEPT ![m] = c]
    BY <1>2
  <2> QED
    BY <2>1, <2>2
<1>5. /\ \A x \in Send : x # m => Same(x)
      /\ sreq'[m] = q /\ On(m)' = On(m) /\ Un(m)' = Un(m)
      /\ Taken(m)' = Taken(m) /\ Held(m)' = Held(m)
      /\ CancelInv'
  BY <1>3, <1>4, RequestOnly
<1>6. Count(m)'
  <2>1. Count(m)
    BY DEF DeviceInv, CountInv
  <2> QED
    BY <1>2, <1>4, <1>5, <2>1 DEF Count
<1>7. \A p \in Sender, a \in Acks : a.id = m /\ AckEntry(p, a) => AckEntry(p, a)'
  BY <1>2 DEF AckEntry
<1>8. \A p \in Sender : QueueEntry(p, m) => QueueEntry(p, m)'
  BY <1>2 DEF QueueEntry
<1>9. OneSync' /\ CountInv' /\ EntriesKept /\ QueueKept
  BY <1>4, <1>5, <1>6, <1>7, <1>8, OneMoves
<1> QED
  BY <1>3, <1>5, <1>9, TokensKept, QueuesKept DEF DeviceInv

(* MPI_Wait of a send returns: acknowledgements stay with their requests. *)
LEMMA WaitSendDevice ==
    ASSUME PlacesInv, DeviceInv, NEW m \in Send, WaitSend(m)
    PROVE  DeviceInv'
<1>1. TypeOK /\ \A x \in Send : sreq[x] \in SendRec
  BY DEF PlacesInv, TypeOK
<1>2. PICK o \in {"done", "cancelled"} : sreq' = [sreq EXCEPT ![m].out = o]
  BY DEF WaitSend
<1>3. UNCHANGED <<rreq, line, posted, unexp, acks, ackq, uack>> /\ sreq[m].cc = 0
      /\ sreq[m].type # "none"
  BY DEF WaitSend
<1>4. PICK q \in SendRec : /\ sreq' = [sreq EXCEPT ![m] = q]
                           /\ q.type = sreq[m].type /\ q.env = sreq[m].env /\ q.pio = sreq[m].pio
                           /\ q.cc = sreq[m].cc /\ q.bit = sreq[m].bit /\ q.out = o
  <2> DEFINE c == [sreq[m] EXCEPT !.out = o]
  <2>1. /\ c \in SendRec /\ c.type = sreq[m].type /\ c.env = sreq[m].env /\ c.pio = sreq[m].pio
        /\ c.cc = sreq[m].cc /\ c.bit = sreq[m].bit /\ c.out = o
    BY <1>1 DEF SendRec
  <2>2. sreq' = [sreq EXCEPT ![m] = c]
    BY <1>2
  <2> QED
    BY <2>1, <2>2
<1>5. /\ \A x \in Send : x # m => Same(x)
      /\ sreq'[m] = q /\ On(m)' = On(m) /\ Un(m)' = Un(m)
      /\ Taken(m)' = Taken(m) /\ Held(m)' = Held(m)
      /\ CancelInv'
  BY <1>3, <1>4, RequestOnly
<1>6. Count(m)'
  <2>1. Count(m)
    BY DEF DeviceInv, CountInv
  <2> QED
    BY <1>3, <1>4, <1>5, <2>1 DEF Count
<1>7. \A p \in Sender, a \in Acks : a.id = m /\ AckEntry(p, a) => AckEntry(p, a)'
  BY <1>3 DEF AckEntry
<1>8. \A p \in Sender : QueueEntry(p, m) => QueueEntry(p, m)'
  BY <1>3 DEF QueueEntry
<1>9. OneSync' /\ CountInv' /\ EntriesKept /\ QueueKept
  BY <1>4, <1>5, <1>6, <1>7, <1>8, OneMoves
<1> QED
  BY <1>3, <1>5, <1>9, TokensKept, QueuesKept DEF DeviceInv

-----------------------------------------------------------------------------
(* Requests meet their acknowledgements *)

(* Two synchronous sends under way with the same envelope are the same. *)
LEMMA SameSync ==
    ASSUME OneSync, NEW x \in Send, NEW y \in Send, SrcOf[x] = SrcOf[y], sreq[x].env = sreq[y].env,
           sreq[x].type = Sync, sreq[y].type = Sync, sreq[x].out = "none", sreq[y].out = "none"
    PROVE  x = y
<1>1. x \in Nat /\ y \in Nat
  BY SendAssumption
<1>2. ~(x < y) /\ ~(y < x)
  BY DEF OneSync
<1> QED
  BY <1>1, <1>2

(* The list d has no other entries than q, in no other order. *)
Fewer(d, q) ==
    (\A x : Has(d, x) => Has(q, x)) /\ (\A x, y : Before(d, x, y) => Before(q, x, y))

(* The acknowledgement of m is taken. *)
LEMMA TokenTaken ==
    ASSUME TokenInv, NEW m \in Send,
           \A p \in Sender : Fewer(acks'[p], acks[p]) /\ Fewer(uack'[p], uack[p]),
           \A b \in Acks : Has(acks'[SrcOf[m]], b) \/ Has(uack'[SrcOf[m]], b) => b.id # m,
           \A p \in Sender, a \in Acks : a.id # m /\ AckEntry(p, a) => AckEntry(p, a)'
    PROVE  TokenInv'
<1>1. ASSUME NEW p \in Sender, NEW a \in Acks, Has(acks'[p], a) \/ Has(uack'[p], a)
      PROVE  AckEntry(p, a)'
  <2>1. AckEntry(p, a)
    BY <1>1 DEF TokenInv, Fewer
  <2>2. a.id # m
    BY <1>1, <2>1 DEF AckEntry
  <2> QED
    BY <2>1, <2>2
<1>2. ASSUME NEW p \in Sender, NEW a \in Acks, NEW b \in Acks,
             Before(acks'[p], a, b) \/ Before(uack'[p], a, b) \/ (Has(acks'[p], a) /\ Has(uack'[p], b))
      PROVE  a.id # b.id
  BY <1>2 DEF TokenInv, Fewer
<1> QED
  BY <1>1, <1>2 DEF TokenInv

(* Request m leaves the queue of those that wait. *)
LEMMA QueueTaken ==
    ASSUME QueueInv, NEW m \in Send,
           \A p \in Sender : Fewer(ackq'[p], ackq[p]),
           ~Has(ackq'[SrcOf[m]], m),
           \A p \in Sender, x \in Send : x # m /\ QueueEntry(p, x) => QueueEntry(p, x)'
    PROVE  QueueInv'
<1>1. ASSUME NEW p \in Sender, NEW x \in Send, Has(ackq'[p], x) PROVE QueueEntry(p, x)'
  <2>1. QueueEntry(p, x)
    BY <1>1 DEF QueueInv, Fewer
  <2>2. x # m
    BY <1>1, <2>1 DEF QueueEntry
  <2> QED
    BY <2>1, <2>2
<1>2. ASSUME NEW p \in Sender, NEW x \in Send PROVE ~Before(ackq'[p], x, x)
  BY DEF QueueInv, Fewer
<1> QED
  BY <1>1, <1>2 DEF QueueInv

(* One list of a family gets shorter. *)
LEMMA FewerIn ==
    ASSUME NEW S, NEW f \in [Sender -> Seq(S)], NEW g, NEW s \in Sender, NEW i \in 1..Len(f[s]),
           NEW d \in Seq(S), Without(d, f[s], i), g = [f EXCEPT ![s] = d]
    PROVE  /\ \A p \in Sender : Fewer(g[p], f[p])
           /\ \A x : Has(g[s], x) => Before(f[s], x, f[s][i]) \/ Before(f[s], f[s][i], x)
<1>1. f[s] \in Seq(S) /\ Len(f[s]) \in Nat
  OBVIOUS
<1>2. g[s] = d /\ \A p \in Sender : p # s => g[p] = f[p]
  OBVIOUS
<1>3. Fewer(d, f[s]) /\ \A x : Has(d, x) => Before(f[s], x, f[s][i]) \/ Before(f[s], f[s][i], x)
  BY <1>1, WithoutHas DEF Fewer
<1>4. ASSUME NEW p \in Sender PROVE Fewer(g[p], f[p])
  <2>1. CASE p = s
    BY <1>2, <1>3, <2>1
  <2>2. CASE p # s
    BY <1>2, <2>2 DEF Fewer
  <2> QED
    BY <2>1, <2>2
<1> QED
  BY <1>2, <1>3, <1>4

(* A standard send is complete when pscom has sent it. *)
LEMMA StandardDoneDevice ==
    ASSUME PlacesInv, DeviceInv, NEW m \in Send, sreq[m].pio = "started", sreq[m].type = "DATA",
           UNCHANGED <<rreq, line, posted, unexp, acks, ackq, uack>>,
           sreq' = [sreq EXCEPT ![m] = [sreq[m] EXCEPT !.pio = "done", !.cc = @ - 1]]
    PROVE  DeviceInv'
<1>1. TypeOK /\ sreq[m] \in SendRec
  BY DEF PlacesInv, TypeOK
<1>2. Count(m)
  BY DEF DeviceInv, CountInv
<1>3. PICK q \in SendRec : /\ sreq' = [sreq EXCEPT ![m] = q]
                           /\ q.type = sreq[m].type /\ q.env = sreq[m].env /\ q.pio = "done"
                           /\ q.cc = 0 /\ q.bit = sreq[m].bit /\ q.out = sreq[m].out
  <2>1. sreq[m].cc = 1
    BY <1>2 DEF Count
  <2>0. PICK n \in Int : n = 0
    OBVIOUS
  <2> DEFINE c == [sreq[m] EXCEPT !.pio = "done", !.cc = n]
  <2>2. /\ c \in SendRec /\ c.type = sreq[m].type /\ c.env = sreq[m].env /\ c.pio = "done"
        /\ c.cc = n /\ c.bit = sreq[m].bit /\ c.out = sreq[m].out
    BY <1>1, Zenon DEF SendRec
  <2>3. [sreq[m] EXCEPT !.pio = "done", !.cc = @ - 1] = c
    <3>1. [sreq[m] EXCEPT !.pio = "done", !.cc = @ - 1] = [sreq[m] EXCEPT !.pio = "done", !.cc = sreq[m].cc - 1]
      BY <1>1 DEF SendRec
    <3>2. sreq[m].cc - 1 = 0
      BY <2>1
    <3> QED
      BY <2>0, <3>1, <3>2
  <2>4. sreq' = [sreq EXCEPT ![m] = c]
    BY <2>3
  <2> HIDE DEF c
  <2> QED
    BY <2>0, <2>2, <2>4
<1>4. /\ \A x \in Send : x # m => Same(x)
      /\ sreq'[m] = q /\ On(m)' = On(m) /\ Un(m)' = Un(m)
      /\ Taken(m)' = Taken(m) /\ Held(m)' = Held(m)
      /\ CancelInv'
  BY <1>3, RequestOnly
<1>5. sreq[m].type # Sync
  BY DEF Sync
<1>6. Count(m)'
  BY <1>2, <1>3, <1>4, <1>5 DEF Count
<1>7. \A p \in Sender, a \in Acks : a.id = m /\ AckEntry(p, a) => AckEntry(p, a)'
  BY <1>5 DEF AckEntry
<1>8. \A p \in Sender : QueueEntry(p, m) => QueueEntry(p, m)'
  BY <1>5 DEF QueueEntry
<1>9. OneSync' /\ CountInv' /\ EntriesKept /\ QueueKept
  BY <1>3, <1>4, <1>6, <1>7, <1>8, OneMoves
<1> QED
  BY <1>4, <1>9, TokensKept, QueuesKept DEF DeviceInv

(* A synchronous send begins to wait for its acknowledgement. *)
LEMMA WaitsForAckDevice ==
    ASSUME PlacesInv, DeviceInv, NEW m \in Send, sreq[m].pio = "started", sreq[m].type = Sync,
           UNCHANGED <<rreq, line, posted, unexp, acks, uack>>,
           sreq' = [sreq EXCEPT ![m] = [sreq[m] EXCEPT !.pio = "done"]],
           ackq' = [ackq EXCEPT ![SrcOf[m]] = Append(@, m)]
    PROVE  DeviceInv'
<1>1. TypeOK /\ sreq[m] \in SendRec /\ SrcOf[m] \in Sender /\ ackq \in [Sender -> Seq(Send)]
  BY TypeFacts DEF PlacesInv, TypeOK
<1>2. Count(m)
  BY DEF DeviceInv, CountInv
<1>3. PICK q \in SendRec : /\ sreq' = [sreq EXCEPT ![m] = q]
                           /\ q.type = sreq[m].type /\ q.env = sreq[m].env /\ q.pio = "done"
                           /\ q.cc = sreq[m].cc /\ q.bit = sreq[m].bit /\ q.out = sreq[m].out
  <2> DEFINE c == [sreq[m] EXCEPT !.pio = "done"]
  <2>1. /\ c \in SendRec /\ c.type = sreq[m].type /\ c.env = sreq[m].env /\ c.pio = "done"
        /\ c.cc = sreq[m].cc /\ c.bit = sreq[m].bit /\ c.out = sreq[m].out
    BY <1>1 DEF SendRec
  <2> QED
    BY <2>1
<1>4. /\ \A x \in Send : x # m => Same(x)
      /\ sreq'[m] = q /\ On(m)' = On(m) /\ Un(m)' = Un(m)
      /\ Taken(m)' = Taken(m) /\ Held(m)' = Held(m)
      /\ CancelInv'
  BY <1>3, RequestOnly
<1>5. sreq[m].cc = 1
  BY <1>2 DEF Count
<1>6. Count(m)'
  BY <1>2, <1>3, <1>4, <1>5 DEF Count
<1>7. ASSUME NEW p \in Sender, NEW a \in Acks, a.id = m, AckEntry(p, a) PROVE AckEntry(p, a)'
  BY <1>3, <1>4, <1>5, <1>7 DEF AckEntry
<1>8. /\ OneSync' /\ CountInv' /\ EntriesKept
      /\ \A p \in Sender, x \in Send : x # m /\ QueueEntry(p, x) => QueueEntry(p, x)'
  BY <1>3, <1>4, <1>6, <1>7, OneMoves
<1>9. QueueEntry(SrcOf[m], m)' /\ ~QueueEntry(SrcOf[m], m)
  BY <1>3, <1>4, <1>5 DEF QueueEntry
<1>10. /\ ackq'[SrcOf[m]] = Append(ackq[SrcOf[m]], m) /\ ackq[SrcOf[m]] \in Seq(Send)
       /\ \A p \in Sender : p # SrcOf[m] => ackq'[p] = ackq[p]
  BY <1>1
<1>11. ASSUME NEW p \in Sender, NEW x \in Send, Has(ackq'[p], x) PROVE QueueEntry(p, x)'
  <2>1. Has(ackq[p], x) \/ (p = SrcOf[m] /\ x = m)
    BY <1>10, <1>11, AppendHas
  <2>2. CASE Has(ackq[p], x)
    <3>1. QueueEntry(p, x)
      BY <2>2 DEF DeviceInv, QueueInv
    <3>2. x # m
      BY <3>1 DEF QueueEntry
    <3> QED
      BY <1>8, <3>1, <3>2
  <2> QED
    BY <1>9, <2>1, <2>2
<1>12. ASSUME NEW p \in Sender, NEW x \in Send, Before(ackq'[p], x, x) PROVE FALSE
  <2>1. Before(ackq[p], x, x) \/ (p = SrcOf[m] /\ x = m /\ Has(ackq[p], x))
    BY <1>10, <1>12, AppendHas
  <2>2. ~Has(ackq[SrcOf[m]], m)
    BY <1>1, <1>9 DEF DeviceInv, QueueInv
  <2> QED
    BY <2>1, <2>2 DEF DeviceInv, QueueInv
<1>13. QueueInv'
  BY <1>11, <1>12 DEF QueueInv
<1> QED
  BY <1>4, <1>8, <1>13, TokensKept DEF DeviceInv

(* Request m gets acknowledgement a, its own, and pscom has sent it. *)
LEMMA AckedMessage ==
    ASSUME PlacesInv, DeviceInv, NEW m \in Send, NEW a \in Acks, a.id = m, AckEntry(SrcOf[m], a),
           UNCHANGED <<rreq, line, posted, unexp>>,
           NEW q \in SendRec, q.type = sreq[m].type, q.env = sreq[m].env, q.pio = "done",
           q.out = sreq[m].out, sreq' = [sreq EXCEPT ![m] = AckDone(q, a)],
           q.cc = sreq[m].cc, q.bit = sreq[m].bit
    PROVE  /\ OneSync' /\ CountInv' /\ CancelInv'
           /\ \A p \in Sender, b \in Acks : b.id # m /\ AckEntry(p, b) => AckEntry(p, b)'
           /\ \A p \in Sender, x \in Send : x # m /\ QueueEntry(p, x) => QueueEntry(p, x)'
<1>1. Count(m) /\ sreq[m].cc = 1 /\ sreq[m].type = Sync
  BY DEF DeviceInv, CountInv, AckEntry
<1>2. PICK c \in SendRec : /\ c = AckDone(q, a) /\ c.type = sreq[m].type /\ c.env = sreq[m].env
                           /\ c.pio = "done" /\ c.out = sreq[m].out /\ c.cc = sreq[m].cc - 1
                           /\ c.bit = (sreq[m].bit \/ a.type = "CANCEL_DATA_ACK")
  BY AckDoneFacts
<1>3. sreq' = [sreq EXCEPT ![m] = c]
  BY <1>2
<1>4. /\ \A x \in Send : x # m => Same(x)
      /\ sreq'[m] = c /\ On(m)' = On(m) /\ Un(m)' = Un(m)
      /\ Taken(m)' = Taken(m) /\ Held(m)' = Held(m)
      /\ CancelInv'
  BY <1>2, <1>3, RequestOnly
<1>5. ~On(m) /\ ~Un(m) /\ ~Held(m)
  BY DEF AckEntry
<1>6. c.cc = 0 /\ (c.bit => ~Taken(m)) /\ (~c.bit => Taken(m))
  <2>1. a.type = "DATA_ACK" \/ a.type = "CANCEL_DATA_ACK"
    BY DEF Acks
  <2>2. ~sreq[m].bit
    BY <1>1 DEF Count
  <2>3. (c.bit => ~Taken(m)) /\ (~c.bit => Taken(m))
    <3>1. CASE a.type = "DATA_ACK"
      <4>1. ~c.bit /\ Taken(m)
        BY <1>2, <2>2, <3>1, Zenon DEF AckEntry
      <4> QED
        BY <4>1
    <3>2. CASE a.type = "CANCEL_DATA_ACK"
      <4>1. c.bit /\ ~Taken(m)
        BY <1>2, <3>2, Zenon DEF AckEntry
      <4> QED
        BY <4>1
    <3> QED
      BY <2>1, <3>1, <3>2
  <2> QED
    BY <1>1, <1>2, <2>3
<1>7. Count(m)'
  BY <1>1, <1>2, <1>4, <1>5, <1>6 DEF Count
<1> QED
  BY <1>2, <1>4, <1>7, OneMoves

(* A synchronous send finds its acknowledgement in the list of unexpected ones. *)
LEMMA FindsAckDevice ==
    ASSUME PlacesInv, DeviceInv, NEW m \in Send, sreq[m].pio = "started", sreq[m].type = Sync,
           UNCHANGED <<rreq, line, posted, unexp, acks, ackq>>,
           NEW i \in 1..Len(uack[SrcOf[m]]), AcceptAck(m, uack[SrcOf[m]][i]),
           NEW q \in SendRec, q.type = sreq[m].type, q.env = sreq[m].env, q.pio = "done",
           q.cc = sreq[m].cc, q.bit = sreq[m].bit, q.out = sreq[m].out,
           sreq' = [sreq EXCEPT ![m] = AckDone(q, uack[SrcOf[m]][i])],
           uack' = [uack EXCEPT ![SrcOf[m]] = RemoveAt(@, i)]
    PROVE  DeviceInv'
<1>1. /\ TypeOK /\ sreq[m] \in SendRec /\ SrcOf[m] \in Sender
      /\ acks \in [Sender -> Seq(Acks)] /\ uack \in [Sender -> Seq(Acks)]
      /\ uack[SrcOf[m]] \in Seq(Acks)
  BY TypeFacts DEF PlacesInv, TypeOK
<1>2. PICK a \in Acks : a = uack[SrcOf[m]][i]
  BY <1>1
<1>3. AckEntry(SrcOf[m], a) /\ Has(uack[SrcOf[m]], a)
  <2>1. Has(uack[SrcOf[m]], a)
    BY <1>2 DEF Has
  <2> QED
    BY <1>1, <2>1 DEF DeviceInv, TokenInv
<1>4. a.id = m
  <2>1. PICK x \in Send : x = a.id
    BY DEF Acks
  <2>2. Count(x) /\ Count(m)
    BY DEF DeviceInv, CountInv
  <2>3. SrcOf[x] = SrcOf[m] /\ sreq[x].type = Sync /\ sreq[x].cc = 1
    BY <1>3, <2>1 DEF AckEntry
  <2>4. sreq[x].out = "none" /\ sreq[m].out = "none"
    BY <2>2, <2>3 DEF Count
  <2>5. sreq[x].env = sreq[m].env
    BY <1>2, <2>1 DEF AcceptAck
  <2> QED
    BY <2>1, <2>3, <2>4, <2>5, SameSync DEF DeviceInv
<1>6. sreq' = [sreq EXCEPT ![m] = AckDone(q, a)]
  BY <1>2
<1>7. /\ OneSync' /\ CountInv' /\ CancelInv'
      /\ \A p \in Sender, b \in Acks : b.id # m /\ AckEntry(p, b) => AckEntry(p, b)'
      /\ \A p \in Sender, x \in Send : x # m /\ QueueEntry(p, x) => QueueEntry(p, x)'
  BY <1>3, <1>4, <1>6, AckedMessage, ZenonT(60)
<1>8. /\ \A p \in Sender : Fewer(uack'[p], uack[p])
      /\ \A x : Has(uack'[SrcOf[m]], x) => Before(uack[SrcOf[m]], x, a) \/ Before(uack[SrcOf[m]], a, x)
  <2>1. PICK d \in Seq(Acks) : d = RemoveAt(uack[SrcOf[m]], i) /\ Without(d, uack[SrcOf[m]], i)
    BY <1>1, RemoveAtFacts, RemoveAtWithout
  <2>2. uack' = [uack EXCEPT ![SrcOf[m]] = d]
    BY <2>1
  <2> QED
    BY <1>1, <1>2, <2>1, <2>2, FewerIn
<1>9. \A p \in Sender : Fewer(acks'[p], acks[p])
  BY DEF Fewer
<1>10. ASSUME NEW b \in Acks, Has(acks'[SrcOf[m]], b) \/ Has(uack'[SrcOf[m]], b) PROVE b.id # m
  BY <1>1, <1>3, <1>4, <1>8, <1>10 DEF DeviceInv, TokenInv
<1>11. TokenInv'
  BY <1>7, <1>8, <1>9, <1>10, TokenTaken DEF DeviceInv
<1>12. \A p \in Sender : QueueEntry(p, m) => QueueEntry(p, m)'
  BY DEF QueueEntry
<1>13. QueueKept
  BY <1>7, <1>12 DEF QueueKept
<1> QED
  BY <1>7, <1>11, <1>13, QueuesKept DEF DeviceInv

(* pscom has sent a message: acknowledgements stay with their requests. *)
LEMMA SendDoneDevice ==
    ASSUME PlacesInv, DeviceInv, NEW m \in Send, SendDone(m)
    PROVE  DeviceInv'
<1>1. TypeOK /\ sreq[m] \in SendRec
  BY DEF PlacesInv, TypeOK
<1>2. PICK q \in SendRec : /\ q = [sreq[m] EXCEPT !.pio = "done"]
                           /\ q.type = sreq[m].type /\ q.env = sreq[m].env /\ q.pio = "done"
                           /\ q.cc = sreq[m].cc /\ q.bit = sreq[m].bit /\ q.out = sreq[m].out
  <2> DEFINE c == [sreq[m] EXCEPT !.pio = "done"]
  <2>1. /\ c \in SendRec /\ c.type = sreq[m].type /\ c.env = sreq[m].env /\ c.pio = "done"
        /\ c.cc = sreq[m].cc /\ c.bit = sreq[m].bit /\ c.out = sreq[m].out
    BY <1>1 DEF SendRec
  <2> QED
    BY <2>1
<1>3. ASSUME sreq[m].pio = "started", sreq[m].type = Sync,
             UNCHANGED <<rreq, line, posted, unexp, acks, ackq>>,
             NEW i \in 1..Len(uack[SrcOf[m]]), AcceptAck(m, uack[SrcOf[m]][i]),
             sreq' = [sreq EXCEPT ![m] = AckDone([sreq[m] EXCEPT !.pio = "done"],
                                                 uack[SrcOf[m]][i])],
             uack' = [uack EXCEPT ![SrcOf[m]] = RemoveAt(@, i)]
      PROVE  DeviceInv'
  <2>1. sreq' = [sreq EXCEPT ![m] = AckDone(q, uack[SrcOf[m]][i])]
    BY <1>2, <1>3
  <2> QED
    BY <1>2, <1>3, <2>1, FindsAckDevice
<1> QED
  BY <1>1, <1>3, SendDoneCases, StandardDoneDevice, WaitsForAckDevice

(* An acknowledgement that nobody waits for is kept. *)
LEMMA KeepAckDevice ==
    ASSUME PlacesInv, DeviceInv, NEW s \in Sender, acks[s] # <<>>,
           acks' = [acks EXCEPT ![s] = Tail(@)],
           uack' = [uack EXCEPT ![s] = Append(@, Head(acks[s]))],
           UNCHANGED <<sreq, rreq, line, posted, unexp, ackq>>
    PROVE  DeviceInv'
<1>1. /\ TypeOK /\ acks \in [Sender -> Seq(Acks)] /\ uack \in [Sender -> Seq(Acks)]
      /\ acks[s] \in Seq(Acks) /\ uack[s] \in Seq(Acks)
  BY DEF PlacesInv, TypeOK
<1>2. /\ Tail(acks[s]) \in Seq(Acks) /\ Head(acks[s]) = acks[s][1] /\ 1 \in 1..Len(acks[s])
      /\ Without(Tail(acks[s]), acks[s], 1)
  BY <1>1, TailWithout
<1>3. PICK a \in Acks : a = Head(acks[s]) /\ a = acks[s][1]
  BY <1>1, <1>2
<1>4. Has(acks[s], a)
  BY <1>2, <1>3 DEF Has
<1>5. /\ \A p \in Sender : Fewer(acks'[p], acks[p])
      /\ \A x : Has(acks'[s], x) => Before(acks[s], x, a) \/ Before(acks[s], a, x)
  <2>1. PICK n \in 1..Len(acks[s]) : n = 1
    BY <1>2
  <2>2. PICK d \in Seq(Acks) : Without(d, acks[s], n) /\ acks' = [acks EXCEPT ![s] = d]
    BY <1>2, <2>1
  <2>3. a = acks[s][n]
    BY <1>3, <2>1
  <2> QED
    BY <1>1, <2>2, <2>3, FewerIn
<1>6. uack'[s] = Append(uack[s], a) /\ \A p \in Sender : p # s => uack'[p] = uack[p]
  BY <1>1, <1>3
<1>7. /\ \A p \in Sender : \A x : Has(uack'[p], x) => Has(uack[p], x) \/ (p = s /\ x = a)
      /\ \A p \in Sender : \A x, y : Before(uack'[p], x, y) =>
            Before(uack[p], x, y) \/ (p = s /\ Has(uack[p], x) /\ y = a)
  BY <1>1, <1>6, AppendHas
<1>8. ASSUME NEW p \in Sender, NEW b \in Acks PROVE AckEntry(p, b)' = AckEntry(p, b)
  BY DEF AckEntry, On, Un, Held, Taken
<1>9. TokenInv'
  <2>1. ASSUME NEW p \in Sender, NEW b \in Acks, Has(acks'[p], b) \/ Has(uack'[p], b)
        PROVE  AckEntry(p, b)'
    <3>1. Has(acks[p], b) \/ Has(uack[p], b)
      BY <1>4, <1>5, <1>7, <2>1 DEF Fewer
    <3>2. AckEntry(p, b)
      BY <3>1 DEF DeviceInv, TokenInv
    <3> QED
      BY <1>8, <3>2
  <2>2. ASSUME NEW p \in Sender, NEW b \in Acks, NEW c \in Acks,
               \/ Before(acks'[p], b, c) \/ Before(uack'[p], b, c)
               \/ (Has(acks'[p], b) /\ Has(uack'[p], c))
        PROVE  b.id # c.id
    <3>1. CASE Before(acks'[p], b, c)
      BY <1>5, <3>1 DEF DeviceInv, TokenInv, Fewer
    <3>2. CASE Before(uack'[p], b, c)
      BY <1>4, <1>7, <3>2 DEF DeviceInv, TokenInv
    <3>3. CASE Has(acks'[p], b) /\ Has(uack'[p], c)
      <4>1. CASE Has(uack[p], c)
        BY <1>5, <3>3, <4>1 DEF DeviceInv, TokenInv, Fewer
      <4>2. CASE p = s /\ c = a
        BY <1>5, <3>3, <4>2 DEF DeviceInv, TokenInv
      <4> QED
        BY <1>7, <3>3, <4>1, <4>2
    <3> QED
      BY <2>2, <3>1, <3>2, <3>3
  <2> QED
    BY <2>1, <2>2 DEF TokenInv
<1>10. OneSync' /\ CancelInv'
  BY DEF DeviceInv, OneSync, CancelInv, NotAfter
<1>11. QueueInv' /\ CountInv'
  BY ZenonT(60) DEF DeviceInv, QueueInv, QueueEntry, CountInv, Count, On, Un, Held, Taken
<1> QED
  BY <1>9, <1>10, <1>11 DEF DeviceInv

(* An acknowledgement is given to the request that waits for it. *)
LEMMA GiveAckDevice ==
    ASSUME PlacesInv, DeviceInv, NEW s \in Sender, acks[s] # <<>>,
           acks' = [acks EXCEPT ![s] = Tail(@)],
           UNCHANGED <<rreq, line, posted, unexp, uack>>,
           NEW i \in 1..Len(ackq[s]), AcceptAck(ackq[s][i], Head(acks[s])),
           sreq' = [sreq EXCEPT ![ackq[s][i]] = AckDone(@, Head(acks[s]))],
           ackq' = [ackq EXCEPT ![s] = RemoveAt(@, i)]
    PROVE  DeviceInv'
<1>1. /\ TypeOK /\ acks \in [Sender -> Seq(Acks)] /\ ackq \in [Sender -> Seq(Send)]
      /\ acks[s] \in Seq(Acks) /\ ackq[s] \in Seq(Send)
  BY DEF PlacesInv, TypeOK
<1>2. /\ Tail(acks[s]) \in Seq(Acks) /\ Head(acks[s]) = acks[s][1] /\ 1 \in 1..Len(acks[s])
      /\ Without(Tail(acks[s]), acks[s], 1)
  BY <1>1, TailWithout
<1>3. PICK a \in Acks : a = Head(acks[s]) /\ a = acks[s][1]
  BY <1>1, <1>2
<1>4. Has(acks[s], a) /\ AckEntry(s, a)
  <2>1. Has(acks[s], a)
    BY <1>2, <1>3 DEF Has
  <2> QED
    BY <2>1 DEF DeviceInv, TokenInv
<1>5. PICK m \in Send : m = ackq[s][i]
  BY <1>1
<1>6. Has(ackq[s], m) /\ QueueEntry(s, m) /\ ~Before(ackq[s], m, m)
  <2>1. Has(ackq[s], m)
    BY <1>5 DEF Has
  <2> QED
    BY <2>1 DEF DeviceInv, QueueInv
<1>7. SrcOf[m] = s /\ sreq[m].type = Sync /\ sreq[m].pio = "done" /\ sreq[m].cc = 1
      /\ sreq[m] \in SendRec
  BY <1>1, <1>6, TypeFacts DEF QueueEntry
<1>8. a.id = m
  <2>1. PICK x \in Send : x = a.id
    BY DEF Acks
  <2>2. Count(x) /\ Count(m)
    BY DEF DeviceInv, CountInv
  <2>3. SrcOf[x] = SrcOf[m] /\ sreq[x].type = Sync /\ sreq[x].cc = 1
    BY <1>4, <1>7, <2>1 DEF AckEntry
  <2>4. sreq[x].out = "none" /\ sreq[m].out = "none"
    BY <1>7, <2>2, <2>3 DEF Count
  <2>5. sreq[x].env = sreq[m].env
    BY <1>3, <1>5, <2>1 DEF AcceptAck
  <2> QED
    BY <1>7, <2>1, <2>3, <2>4, <2>5, SameSync DEF DeviceInv
<1>9. PICK q \in SendRec : q = sreq[m]
  BY <1>7
<1>10. sreq' = [sreq EXCEPT ![m] = AckDone(q, a)]
  BY <1>3, <1>5, <1>9
<1>11. /\ OneSync' /\ CountInv' /\ CancelInv'
       /\ \A p \in Sender, b \in Acks : b.id # m /\ AckEntry(p, b) => AckEntry(p, b)'
       /\ \A p \in Sender, x \in Send : x # m /\ QueueEntry(p, x) => QueueEntry(p, x)'
  <2>1. AckEntry(SrcOf[m], a)
    BY <1>4, <1>7
  <2> QED
    BY <1>7, <1>8, <1>9, <1>10, <2>1, AckedMessage, ZenonT(60)
<1>12. /\ \A p \in Sender : Fewer(acks'[p], acks[p])
       /\ \A x : Has(acks'[s], x) => Before(acks[s], x, a) \/ Before(acks[s], a, x)
  <2>1. PICK n \in 1..Len(acks[s]) : n = 1
    BY <1>2
  <2>2. PICK d \in Seq(Acks) : Without(d, acks[s], n) /\ acks' = [acks EXCEPT ![s] = d]
    BY <1>2, <2>1
  <2>3. a = acks[s][n]
    BY <1>3, <2>1
  <2> QED
    BY <1>1, <2>2, <2>3, FewerIn
<1>13. \A p \in Sender : Fewer(uack'[p], uack[p])
  BY DEF Fewer
<1>14. ASSUME NEW b \in Acks, Has(acks'[SrcOf[m]], b) \/ Has(uack'[SrcOf[m]], b) PROVE b.id # m
  BY <1>4, <1>7, <1>8, <1>12, <1>14 DEF DeviceInv, TokenInv
<1>15. TokenInv'
  BY <1>11, <1>12, <1>13, <1>14, TokenTaken DEF DeviceInv
<1>16. (\A p \in Sender : Fewer(ackq'[p], ackq[p])) /\ ~Has(ackq'[SrcOf[m]], m)
  <2>1. PICK d \in Seq(Send) : d = RemoveAt(ackq[s], i) /\ Without(d, ackq[s], i)
    BY <1>1, RemoveAtFacts, RemoveAtWithout
  <2>2. ackq' = [ackq EXCEPT ![s] = d]
    BY <2>1
  <2>3. /\ \A p \in Sender : Fewer(ackq'[p], ackq[p])
        /\ \A x : Has(ackq'[s], x) => Before(ackq[s], x, m) \/ Before(ackq[s], m, x)
    BY <1>1, <1>5, <2>1, <2>2, FewerIn
  <2> QED
    BY <1>6, <1>7, <2>3
<1>17. QueueInv'
  BY <1>11, <1>16, QueueTaken DEF DeviceInv
<1> QED
  BY <1>11, <1>15, <1>17 DEF DeviceInv

(* An acknowledgement arrives: acknowledgements stay with their requests. *)
LEMMA RecvAckDevice ==
    ASSUME PlacesInv, DeviceInv, NEW s \in Sender, RecvAck(s)
    PROVE  DeviceInv'
<1>1. TypeOK
  BY DEF PlacesInv
<1> QED
  BY <1>1, RecvAckCases, KeepAckDevice, GiveAckDevice

-----------------------------------------------------------------------------
(* Sends and their cancel *)

(* What a header of a list stands for. *)
LEMMA HasFacts ==
    ASSUME PlacesInv
    PROVE  /\ \A s \in Sender, h \in Headers : Has(line[s], h) => LineEntry(s, h)
           /\ \A s \in Sender, h \in Headers : Has(line[s], h) /\ IsData(h) => On(h.id)
           /\ \A h \in Headers : Has(unexp, h) => UnexpEntry(h) /\ IsData(h) /\ Un(h.id)
           /\ \A s \in Sender : \A h, c : Before(line[s], h, c) => Has(line[s], h) /\ Has(line[s], c)
<1>1. ASSUME NEW s \in Sender, NEW h \in Headers, Has(line[s], h) PROVE LineEntry(s, h)
  BY <1>1 DEF Has, PlacesInv, LineInv
<1>2. ASSUME NEW s \in Sender, NEW h \in Headers, Has(line[s], h), IsData(h) PROVE On(h.id)
  <2>1. SrcOf[h.id] = s
    BY <1>1, <1>2 DEF LineEntry
  <2>2. line[s] \in Seq(Headers)
    BY TypeFacts DEF PlacesInv
  <2>3. InSeq(line[s], h.id)
    BY <1>2, <2>2, InSeqMeans DEF Has
  <2> QED
    BY <2>1, <2>3 DEF On
<1>3. ASSUME NEW h \in Headers, Has(unexp, h) PROVE UnexpEntry(h) /\ IsData(h) /\ Un(h.id)
  <2>1. UnexpEntry(h)
    BY <1>3 DEF Has, PlacesInv, UnexpInv
  <2>2. IsData(h)
    BY <2>1 DEF UnexpEntry
  <2>3. unexp \in Seq(Headers)
    BY TypeFacts DEF PlacesInv
  <2>4. InSeq(unexp, h.id)
    BY <1>3, <2>2, <2>3, InSeqMeans DEF Has
  <2> QED
    BY <2>1, <2>2, <2>4 DEF Un
<1>4. ASSUME NEW s \in Sender, NEW h, NEW c, Before(line[s], h, c) PROVE Has(line[s], h) /\ Has(line[s], c)
  BY <1>4 DEF Before, Has
<1> QED
  BY <1>1, <1>2, <1>3, <1>4

(* A header is sent. *)
LEMMA LineGrows ==
    ASSUME TypeOK, NEW s \in Sender, NEW g \in Headers, line' = [line EXCEPT ![s] = Append(@, g)]
    PROVE  /\ \A p \in Sender : \A x : Has(line'[p], x) => Has(line[p], x) \/ (p = s /\ x = g)
           /\ \A p \in Sender : \A x, y : Before(line'[p], x, y) =>
                 Before(line[p], x, y) \/ (p = s /\ Has(line[p], x) /\ y = g)
<1>1. line[s] \in Seq(Headers) /\ line \in [Sender -> Seq(Headers)]
  BY DEF TypeOK
<1>2. line'[s] = Append(line[s], g) /\ \A p \in Sender : p # s => line'[p] = line[p]
  BY <1>1
<1> QED
  BY <1>1, <1>2, AppendHas

(* A send begins: acknowledgements stay with their requests. *)
LEMMA SendtypeDevice ==
    ASSUME PlacesInv, DeviceInv, UniqueSync, NEW m \in Send, NEW e \in Env, NEW type \in DataTypes,
           Sendtype(m, e, type)
    PROVE  DeviceInv'
<1>1. /\ ~On(m) /\ ~Un(m) /\ ~Taken(m) /\ On(m)'
      /\ \A x \in Send : x # m => On(x)' = On(x)
      /\ \A x \in Send : Un(x)' = Un(x) /\ Taken(x)' = Taken(x)
  BY SendtypePlaces
<1>2. /\ sreq[m].type = "none" /\ UNCHANGED <<rreq, posted, unexp, acks, ackq, uack>>
      /\ line' = [line EXCEPT ![SrcOf[m]] = Append(@, Header(m, type))]
      /\ \A x \in Send : SrcOf[x] = SrcOf[m] /\ x < m => sreq[x].type # "none"
      /\ type = Sync =>
          \A x \in Send : SrcOf[x] = SrcOf[m] /\ sreq[x].type = type /\ sreq[x].env = e
                             => sreq[x].out # "none"
  BY DEF Sendtype, Sync
<1>3. TypeOK /\ sreq \in [Send -> SendRec] /\ SrcOf[m] \in Sender
  BY TypeFacts DEF PlacesInv, TypeOK
<1>4. PICK q : /\ sreq' = [sreq EXCEPT ![m] = q]
               /\ q.type = type /\ q.env = e /\ q.pio = "posted" /\ q.cc = 1 /\ q.bit = FALSE
               /\ q.out = "none"
  <2> DEFINE c == [type |-> type, env |-> e, pio |-> "posted", cc |-> 1,
                   bit |-> FALSE, asked |-> FALSE, out |-> "none"]
  <2>1. sreq' = [sreq EXCEPT ![m] = c]
    BY DEF Sendtype
  <2>2. /\ c.type = type /\ c.env = e /\ c.pio = "posted" /\ c.cc = 1 /\ c.bit = FALSE
        /\ c.out = "none"
    OBVIOUS
  <2> QED
    BY <2>1, <2>2
<1>5. sreq'[m] = q /\ \A x \in Send : x # m => sreq'[x] = sreq[x]
  BY <1>3, <1>4
<1>6. (\A x \in Send : Held(x)' = Held(x)) /\ ~Held(m)
  BY <1>1, <1>2 DEF Held, Taken
<1>7. ASSUME NEW x \in Send, x # m PROVE Same(x)
  BY <1>1, <1>5, <1>6, <1>7 DEF Same
<1>8. Count(m)'
  BY <1>4, <1>5 DEF Count
<1>9. sreq[m].type # Sync
  BY <1>2 DEF Sync
<1>10. \A p \in Sender, a \in Acks : a.id = m /\ AckEntry(p, a) => AckEntry(p, a)'
  BY <1>9 DEF AckEntry
<1>11. \A p \in Sender : QueueEntry(p, m) => QueueEntry(p, m)'
  BY <1>9 DEF QueueEntry
<1>12. CountInv' /\ EntriesKept /\ QueueKept
  BY <1>7, <1>8, <1>10, <1>11, OthersSame
<1>13. OneSync'
  <2> SUFFICES ASSUME NEW x \in Send, NEW y \in Send, SrcOf[x] = SrcOf[y], x < y,
                      sreq'[x].env = sreq'[y].env, sreq'[x].type = Sync, sreq'[y].type = Sync
               PROVE  sreq'[x].out # "none"
    BY DEF OneSync
  <2>1. x \in Nat /\ y \in Nat /\ x # y
    BY SendAssumption
  <2>2. CASE x # m /\ y # m
    BY <1>5, <2>2 DEF DeviceInv, OneSync
  <2>3. CASE y = m
    <3>1. x # m /\ sreq[x].type = Sync /\ sreq[x].env = e /\ type = Sync
      BY <1>4, <1>5, <2>1, <2>3
    <3> QED
      BY <1>2, <1>5, <2>3, <3>1
  <2>4. CASE x = m
    <3>1. sreq[y].type = Sync /\ m < y /\ SrcOf[m] = SrcOf[y]
      BY <1>5, <2>1, <2>4
    <3>2. sreq[m].type # "none"
      BY <3>1 DEF PlacesInv, OrderInv, Sync
    <3> QED
      BY <1>2, <3>2
  <2> QED
    BY <2>2, <2>3, <2>4
<1>14. CancelInv'
  <2> SUFFICES ASSUME NEW s \in Sender, NEW h \in Headers, NEW c \in Headers, ~IsData(c),
                      Before(line'[s], h, c) \/ (Has(line'[s], c) /\ Has(unexp', h) /\ SrcOf[h.id] = s)
               PROVE  NotAfter(h, c)'
    BY DEF CancelInv
  <2>1. PICK g \in Headers : g = Header(m, type) /\ IsData(g)
    <3> DEFINE k == Header(m, type)
    <3>1. k \in Headers /\ IsData(k)
      BY DEF Header, Headers, IsData, DataTypes, CANCEL
    <3> QED
      BY <3>1
  <2>2. PICK p \in Sender : line' = [line EXCEPT ![p] = Append(@, g)]
    BY <1>2, <1>3, <2>1
  <2>3. Before(line[s], h, c) \/ (Has(line[s], c) /\ Has(unexp, h) /\ SrcOf[h.id] = s)
    <3>1. /\ (Has(line'[s], c) => Has(line[s], c) \/ c = g)
          /\ (Before(line'[s], h, c) => Before(line[s], h, c) \/ c = g)
      BY <1>3, <2>2, LineGrows
    <3>2. c # g /\ unexp' = unexp
      BY <1>2, <2>1
    <3> QED
      BY <3>1, <3>2
  <2>4. NotAfter(h, c)
    BY <2>3 DEF DeviceInv, CancelInv
  <2>5. Has(line[s], c) /\ (Has(line[s], h) \/ Has(unexp, h))
    BY <2>3, HasFacts
  <2>6. c.id # m /\ c.id \in Send /\ h.id \in Send
    <3>1. LineEntry(s, c)
      BY <2>5, HasFacts
    <3> QED
      BY <1>9, <3>1 DEF LineEntry, Headers
  <2>7. IsData(h) => h.id # m
    BY <1>1, <2>5, HasFacts
  <2> QED
    BY <1>5, <2>4, <2>6, <2>7 DEF NotAfter
<1>15. TokenInv' /\ QueueInv'
  BY <1>2, <1>12, TokensKept, QueuesKept DEF DeviceInv
<1> QED
  BY <1>12, <1>13, <1>14, <1>15 DEF DeviceInv

(* The lines and the list of unexpected messages only lose entries. *)
LEMMA LinesShrink ==
    ASSUME PlacesInv, CancelInv, Fewer(unexp', unexp),
           \A x \in Send : sreq'[x].type = sreq[x].type /\ sreq'[x].env = sreq[x].env,
           \A p \in Sender : Fewer(line'[p], line[p])
    PROVE  CancelInv'
<1>1. ASSUME NEW s \in Sender, NEW h \in Headers, NEW c \in Headers
      PROVE  /\ Before(line'[s], h, c) => Before(line[s], h, c)
             /\ Has(line'[s], c) => Has(line[s], c)
             /\ Has(unexp', h) => \E g \in Headers : g.id = h.id /\ (IsData(h) => IsData(g)) /\ Has(unexp, g)
  BY DEF Fewer
<1> QED
  BY <1>1, CancelsKept DEF PlacesInv

(* A cancel finds the send not yet started: acknowledgements stay with their requests. *)
LEMMA TakeBackDevice ==
    ASSUME PlacesInv, DeviceInv, NEW m \in Send, Cancel_send(m), sreq[m].pio = "posted"
    PROVE  DeviceInv'
<1>1. /\ On(m) /\ ~Un(m) /\ ~Taken(m) /\ ~On(m)'
      /\ \A x \in Send : x # m => On(x)' = On(x)
      /\ \A x \in Send : Un(x)' = Un(x) /\ Taken(x)' = Taken(x)
      /\ \A x \in Send : x # m => sreq'[x] = sreq[x]
      /\ sreq'[m].bit = TRUE /\ sreq'[m].pio = "cancelled"
      /\ sreq'[m].cc = sreq[m].cc - 1 /\ sreq'[m].type = sreq[m].type
      /\ sreq'[m].env = sreq[m].env /\ sreq'[m].out = sreq[m].out
      /\ UNCHANGED <<rreq, posted, unexp, acks, ackq, uack>>
  BY TakeBackPlaces
<1>2. PICK i \in 1..Len(line[SrcOf[m]]) : line' = [line EXCEPT ![SrcOf[m]] = RemoveAt(@, i)]
  BY TakeBackPlaces
<1>3. /\ TypeOK /\ line \in [Sender -> Seq(Headers)] /\ SrcOf[m] \in Sender
      /\ line[SrcOf[m]] \in Seq(Headers)
  BY TypeFacts DEF PlacesInv, TypeOK
<1>4. (\A x \in Send : Held(x)' = Held(x)) /\ ~Held(m)
  BY <1>1 DEF Held, Taken
<1>5. ASSUME NEW x \in Send, x # m PROVE Same(x)
  BY <1>1, <1>4, <1>5 DEF Same
<1>6. Count(m)'
  <2>1. Count(m)
    BY DEF DeviceInv, CountInv
  <2>2. sreq[m].cc = 1 /\ sreq'[m].cc = 0
    BY <1>1, <2>1 DEF Count
  <2> QED
    BY <1>1, <1>4, <2>2 DEF Count
<1>7. \A p \in Sender, a \in Acks : a.id = m /\ AckEntry(p, a) => AckEntry(p, a)'
  BY DEF AckEntry
<1>8. \A p \in Sender : QueueEntry(p, m) => QueueEntry(p, m)'
  BY DEF QueueEntry
<1>9. OneSync' /\ CountInv' /\ EntriesKept /\ QueueKept
  BY <1>1, <1>5, <1>6, <1>7, <1>8, OneMoves
<1>10. \A p \in Sender : Fewer(line'[p], line[p])
  <2>1. PICK d \in Seq(Headers) : d = RemoveAt(line[SrcOf[m]], i) /\ Without(d, line[SrcOf[m]], i)
    BY <1>3, RemoveAtFacts, RemoveAtWithout
  <2>2. line' = [line EXCEPT ![SrcOf[m]] = d]
    BY <1>2, <2>1
  <2> QED
    BY <1>3, <2>1, <2>2, FewerIn
<1>11. \A x \in Send : sreq'[x].type = sreq[x].type /\ sreq'[x].env = sreq[x].env
  BY <1>1
<1>12. CancelInv'
  <2>1. Fewer(unexp', unexp)
    BY <1>1 DEF Fewer
  <2> QED
    BY <1>10, <1>11, <2>1, LinesShrink DEF DeviceInv
<1> QED
  BY <1>1, <1>9, <1>12, TokensKept, QueuesKept DEF DeviceInv

(* A cancel asks the receiver: acknowledgements stay with their requests. *)
LEMMA AskDevice ==
    ASSUME PlacesInv, DeviceInv, NEW m \in Send, Cancel_send(m), sreq[m].pio # "posted"
    PROVE  DeviceInv'
<1>1. /\ \A x \in Send : On(x)' = On(x) /\ Un(x)' = Un(x) /\ Taken(x)' = Taken(x)
      /\ \A x \in Send : x # m => sreq'[x] = sreq[x]
      /\ UNCHANGED <<rreq, posted, unexp, acks, ackq, uack>>
  BY AskPlaces
<1>2. /\ sreq' = [sreq EXCEPT ![m].asked = TRUE]
      /\ \/ sreq[m].type # Sync /\ UNCHANGED line
         \/ sreq[m].type = Sync /\ line' = [line EXCEPT ![SrcOf[m]] = Append(@, Header(m, CANCEL))]
  BY AskPlaces
<1>3. TypeOK /\ sreq \in [Send -> SendRec] /\ SrcOf[m] \in Sender /\ sreq[m].out = "none"
  BY TypeFacts DEF PlacesInv, TypeOK, Cancel_send
<1>4. /\ sreq'[m].type = sreq[m].type /\ sreq'[m].env = sreq[m].env /\ sreq'[m].pio = sreq[m].pio
      /\ sreq'[m].cc = sreq[m].cc /\ sreq'[m].bit = sreq[m].bit /\ sreq'[m].out = sreq[m].out
  BY <1>2, <1>3 DEF SendRec
<1>5. \A x \in Send : Held(x)' = Held(x)
  BY <1>1 DEF Held
<1>6. ASSUME NEW x \in Send PROVE Same(x)
  BY <1>1, <1>4, <1>5, <1>6 DEF Same
<1>7. Count(m)'
  <2>1. Count(m) /\ Same(m)
    BY <1>6 DEF DeviceInv, CountInv
  <2> QED
    BY <2>1 DEF Count, Same
<1>8. \A p \in Sender, a \in Acks : a.id = m /\ AckEntry(p, a) => AckEntry(p, a)'
  <2>1. Same(m)
    BY <1>6
  <2> QED
    BY <2>1 DEF AckEntry, Same
<1>9. \A p \in Sender : QueueEntry(p, m) => QueueEntry(p, m)'
  BY <1>4 DEF QueueEntry
<1>10. OneSync' /\ CountInv' /\ EntriesKept /\ QueueKept
  BY <1>4, <1>6, <1>7, <1>8, <1>9, OneMoves
<1>11. CancelInv'
  <2>1. \A x \in Send : sreq'[x].type = sreq[x].type /\ sreq'[x].env = sreq[x].env
    BY <1>1, <1>4
  <2>2. CASE UNCHANGED line
    <3>1. Fewer(unexp', unexp) /\ \A p \in Sender : Fewer(line'[p], line[p])
      BY <1>1, <2>2 DEF Fewer
    <3> QED
      BY <2>1, <3>1, LinesShrink DEF DeviceInv
  <2>3. CASE sreq[m].type = Sync /\ line' = [line EXCEPT ![SrcOf[m]] = Append(@, Header(m, CANCEL))]
    <3> SUFFICES ASSUME NEW s \in Sender, NEW h \in Headers, NEW c \in Headers, ~IsData(c),
                        Before(line'[s], h, c) \/ (Has(line'[s], c) /\ Has(unexp', h) /\ SrcOf[h.id] = s)
                 PROVE  NotAfter(h, c)'
      BY DEF CancelInv
    <3>1. PICK g \in Headers : g = Header(m, CANCEL) /\ g.id = m
      <4> DEFINE k == Header(m, CANCEL)
      <4>1. k \in Headers /\ k.id = m
        BY DEF Header, Headers
      <4> QED
        BY <4>1
    <3>2. PICK p \in Sender : p = SrcOf[m]
      BY <1>3
    <3>7. line' = [line EXCEPT ![p] = Append(@, g)]
      BY <2>3, <3>1, <3>2
    <3>3. /\ (Has(line'[s], c) => Has(line[s], c) \/ (c = g /\ s = p))
          /\ (Before(line'[s], h, c) => Before(line[s], h, c) \/ (c = g /\ s = p /\ Has(line[s], h)))
      BY <1>3, <3>7, LineGrows
    <3>4. h.id \in Send /\ c.id \in Send /\ h.id \in Nat /\ m \in Nat
      BY SendAssumption DEF Headers
    <3>5. CASE Before(line[s], h, c) \/ (Has(line[s], c) /\ Has(unexp', h) /\ SrcOf[h.id] = s)
      <4>1. NotAfter(h, c)
        BY <1>1, <3>5 DEF DeviceInv, CancelInv
      <4> QED
        BY <2>1, <3>4, <4>1 DEF NotAfter
    <3>6. CASE c = g /\ s = p /\ (Has(line[s], h) \/ (Has(unexp', h) /\ SrcOf[h.id] = s))
      <4>1. SrcOf[h.id] = SrcOf[m]
        <5>1. Has(line[s], h) => LineEntry(s, h)
          BY HasFacts
        <5> QED
          BY <3>2, <3>6, <5>1 DEF LineEntry
      <4>2. ASSUME sreq[h.id].type = Sync, sreq[h.id].env = sreq[m].env, ~(h.id <= m) PROVE FALSE
        <5>1. m < h.id
          BY <3>4, <4>2
        <5> QED
          BY <1>3, <2>3, <3>4, <4>1, <4>2, <5>1 DEF DeviceInv, OneSync
      <4> QED
        BY <2>1, <3>1, <3>4, <3>6, <4>2 DEF NotAfter
    <3> QED
      BY <3>3, <3>5, <3>6
  <2> QED
    BY <1>2, <2>2, <2>3
<1> QED
  BY <1>1, <1>10, <1>11, TokensKept, QueuesKept DEF DeviceInv

-----------------------------------------------------------------------------
(* The receiver *)

(* One message changes its place at the receiver. *)
LEMMA ReceiverMoves ==
    ASSUME DeviceInv, UNCHANGED sreq, NEW m \in Send,
           \A x \in Send : x # m => /\ On(x)' = On(x) /\ Un(x)' = Un(x)
                                    /\ Taken(x)' = Taken(x) /\ Held(x)' = Held(x),
           On(m) \/ Un(m) \/ Held(m), Taken(m) => Taken(m)'
    PROVE  OneSync' /\ CountInv' /\ EntriesKept /\ QueueKept
<1>1. \A x \in Send : x # m => Same(x)
  BY DEF Same
<1>2. Count(m)'
  <2>1. Count(m)
    BY DEF DeviceInv, CountInv
  <2>2. Held(m) => Taken(m)
    BY DEF Held, Taken
  <2> QED
    BY <2>1, <2>2 DEF Count
<1>3. \A p \in Sender, a \in Acks : a.id = m /\ AckEntry(p, a) => AckEntry(p, a)'
  BY DEF AckEntry
<1>4. \A p \in Sender : QueueEntry(p, m) => QueueEntry(p, m)'
  BY DEF QueueEntry
<1> QED
  BY <1>1, <1>2, <1>3, <1>4, OneMoves

(* No message changes its place. *)
LEMMA NothingMoves ==
    ASSUME DeviceInv, UNCHANGED sreq,
           \A x \in Send : /\ On(x)' = On(x) /\ Un(x)' = Un(x)
                           /\ Taken(x)' = Taken(x) /\ Held(x)' = Held(x)
    PROVE  OneSync' /\ CountInv' /\ EntriesKept /\ QueueKept
<1>1. ASSUME NEW x \in Send PROVE Count(x)'
  <2>1. Count(x)
    BY DEF DeviceInv, CountInv
  <2> QED
    BY <2>1 DEF Count
<1>2. OneSync' /\ CountInv'
  BY <1>1 DEF DeviceInv, OneSync, CountInv
<1>3. ASSUME NEW p \in Sender, NEW a \in Acks, AckEntry(p, a) PROVE AckEntry(p, a)'
  <2>1. PICK x \in Send : x = a.id
    BY DEF Acks
  <2>2. /\ On(x)' = On(x) /\ Un(x)' = Un(x)
        /\ Taken(x)' = Taken(x) /\ Held(x)' = Held(x)
    OBVIOUS
  <2> QED
    BY <1>3, <2>1, <2>2 DEF AckEntry
<1>4. QueueKept
  BY DEF QueueKept, QueueEntry
<1> QED
  BY <1>2, <1>3, <1>4 DEF EntriesKept

(* Request r changes. *)
LEMMA HeldStep ==
    ASSUME NEW r \in Recv, \A x \in Recv : x # r => rreq'[x] = rreq[x]
    PROVE  /\ \A y \in Send : rreq[r].msg # {y} /\ rreq'[r].msg # {y} => Held(y)' = Held(y)
           /\ \A y \in Send : rreq[r].msg = {y} /\ rreq[r].st \in {"message", "matched"} => Held(y)
           /\ \A y \in Send : rreq'[r].msg = {y} /\ rreq'[r].st \in {"message", "matched"} => Held(y)'
<1>1. ASSUME NEW y \in Send, rreq[r].msg # {y}, rreq'[r].msg # {y} PROVE Held(y)' = Held(y)
  <2>1. Held(y)' => Held(y)
    BY <1>1 DEF Held
  <2>2. Held(y) => Held(y)'
    BY <1>1 DEF Held
  <2> QED
    BY <2>1, <2>2 DEF Held
<1>2. \A y \in Send : rreq[r].msg = {y} /\ rreq[r].st \in {"message", "matched"} => Held(y)
  BY DEF Held
<1>3. \A y \in Send : rreq'[r].msg = {y} /\ rreq'[r].st \in {"message", "matched"} => Held(y)'
  BY DEF Held
<1> QED
  BY <1>1, <1>2, <1>3

(* The receiver sends an acknowledgement. *)
LEMMA TokenSent ==
    ASSUME TypeOK, TokenInv, EntriesKept, UNCHANGED uack, NEW s \in Sender, NEW a \in Acks,
           acks' = [acks EXCEPT ![s] = Append(@, a)], AckEntry(s, a)',
           \A b \in Acks : b.id = a.id => ~AckEntry(s, b)
    PROVE  TokenInv'
<1>1. acks \in [Sender -> Seq(Acks)] /\ acks[s] \in Seq(Acks)
  BY DEF TypeOK
<1>2. acks'[s] = Append(acks[s], a) /\ \A p \in Sender : p # s => acks'[p] = acks[p]
  BY <1>1
<1>3. /\ \A p \in Sender : \A x : Has(acks'[p], x) => Has(acks[p], x) \/ (p = s /\ x = a)
      /\ \A p \in Sender : \A x, y : Before(acks'[p], x, y) =>
            Before(acks[p], x, y) \/ (p = s /\ Has(acks[p], x) /\ y = a)
  BY <1>1, <1>2, AppendHas
<1>4. ASSUME NEW p \in Sender, NEW b \in Acks, Has(acks'[p], b) \/ Has(uack'[p], b)
      PROVE  AckEntry(p, b)'
  <2>1. Has(acks[p], b) \/ Has(uack[p], b) \/ (p = s /\ b = a)
    BY <1>3, <1>4
  <2>2. CASE Has(acks[p], b) \/ Has(uack[p], b)
    <3>1. AckEntry(p, b)
      BY <2>2 DEF TokenInv
    <3> QED
      BY <3>1 DEF EntriesKept
  <2> QED
    BY <2>1, <2>2
<1>5. ASSUME NEW p \in Sender, NEW b \in Acks, NEW c \in Acks,
             \/ Before(acks'[p], b, c) \/ Before(uack'[p], b, c)
             \/ (Has(acks'[p], b) /\ Has(uack'[p], c))
      PROVE  b.id # c.id
  <2>1. CASE Before(acks[p], b, c) \/ Before(uack[p], b, c) \/ (Has(acks[p], b) /\ Has(uack[p], c))
    BY <2>1 DEF TokenInv
  <2>2. CASE p = s /\ c = a /\ Has(acks[p], b)
    <3>1. AckEntry(s, b)
      BY <2>2 DEF TokenInv
    <3> QED
      BY <2>2, <3>1
  <2>3. CASE p = s /\ b = a /\ Has(uack[p], c)
    <3>1. AckEntry(s, c)
      BY <2>3 DEF TokenInv
    <3> QED
      BY <2>3, <3>1
  <2> QED
    BY <1>3, <1>5, <2>1, <2>2, <2>3
<1> QED
  BY <1>4, <1>5 DEF TokenInv

(* The head of a line is taken. *)
LEMMA HeadGone ==
    ASSUME PlacesInv, UNCHANGED sreq, NEW s \in Sender, line[s] # <<>>,
           line' = [line EXCEPT ![s] = Tail(@)]
    PROVE  /\ \A p \in Sender : Fewer(line'[p], line[p])
           /\ \E h \in Headers : /\ h = Head(line[s]) /\ Has(line[s], h)
                                 /\ \A c : Has(line'[s], c) => Before(line[s], h, c)
<1>1. PICK h \in Headers :
              /\ h = Head(line[s]) /\ h = line[s][1] /\ line' \in [Sender -> Seq(Headers)]
              /\ Without(line'[s], line[s], 1) /\ Len(line'[s]) = Len(line[s]) - 1
              /\ 1 \in 1..Len(line[s]) /\ \A k \in 1..Len(line'[s]) : line'[s][k] = line[s][k + 1]
              /\ \A p \in Sender : p # s => line'[p] = line[p]
  BY HeadLeaves DEF PlacesInv
<1>2. Len(line[s]) \in Nat
  BY TypeFacts DEF PlacesInv
<1>3. Fewer(line'[s], line[s])
  <2>1. PICK n \in 1..Len(line[s]) : n = 1
    BY <1>1
  <2>2. PICK d : d = line'[s] /\ Without(d, line[s], n)
    BY <1>1, <2>1
  <2>3. Fewer(d, line[s])
    BY <1>2, <2>2, WithoutHas DEF Fewer
  <2> QED
    BY <2>2, <2>3
<1>4. ASSUME NEW p \in Sender PROVE Fewer(line'[p], line[p])
  <2>1. CASE p # s
    BY <1>1, <2>1 DEF Fewer
  <2> QED
    BY <1>3, <2>1
<1>5. Has(line[s], h)
  BY <1>1 DEF Has
<1>6. ASSUME NEW c, Has(line'[s], c) PROVE Before(line[s], h, c)
  <2>1. PICK k \in 1..Len(line'[s]) : line'[s][k] = c
    BY <1>6 DEF Has
  <2>2. k + 1 \in 1..Len(line[s]) /\ 1 < k + 1 /\ line[s][k + 1] = c
    BY <1>1, <1>2, <2>1
  <2> QED
    BY <1>1, <2>2 DEF Before
<1> QED
  BY <1>1, <1>4, <1>5, <1>6

(* A message less in the unexpected list. *)
LEMMA UnexpFewer ==
    ASSUME TypeOK, NEW i \in 1..Len(unexp), unexp' = RemoveAt(unexp, i)
    PROVE  Fewer(unexp', unexp)
<1>1. unexp \in Seq(Headers) /\ Len(unexp) \in Nat
  BY TypeFacts
<1>2. Without(unexp', unexp, i)
  BY <1>1, RemoveAtWithout
<1> QED
  BY <1>1, <1>2, WithoutHas DEF Fewer

(* A message that no receive accepts arrives: acknowledgements stay with their requests. *)
LEMMA RecvUnexpDevice ==
    ASSUME PlacesInv, DeviceInv, NEW s \in Sender, RecvData(s),
           unexp' = Append(unexp, Head(line[s])), UNCHANGED <<rreq, posted>>,
           \A i \in 1..Len(posted) : ~AcceptData(rreq[posted[i]].sel, Head(line[s]))
    PROVE  DeviceInv'
<1>1. PICK m \in Send :
              /\ On(m) /\ ~Taken(m)
              /\ \A x \in Send : x # m => On(x)' = On(x) /\ Un(x)' = Un(x)
              /\ \A x \in Send : Taken(x)' = Taken(x)
  BY RecvUnexpPlaces
<1>2. /\ TypeOK /\ line[s] # <<>> /\ line' = [line EXCEPT ![s] = Tail(@)]
      /\ UNCHANGED <<sreq, acks, ackq, uack>>
  BY RecvDataCases DEF PlacesInv
<1>3. \A x \in Send : Held(x)' = Held(x)
  BY DEF Held
<1>4. OneSync' /\ CountInv' /\ EntriesKept /\ QueueKept
  BY <1>1, <1>2, <1>3, ReceiverMoves
<1>5. /\ \A p \in Sender : Fewer(line'[p], line[p])
      /\ \E h \in Headers : /\ h = Head(line[s]) /\ Has(line[s], h)
                            /\ \A c : Has(line'[s], c) => Before(line[s], h, c)
  BY <1>2, HeadGone
<1>6. PICK g \in Headers : /\ g = Head(line[s]) /\ Has(line[s], g)
                           /\ \A c : Has(line'[s], c) => Before(line[s], g, c)
  BY <1>5
<1>7. unexp \in Seq(Headers) /\ unexp' = Append(unexp, g)
  BY <1>2, <1>6, TypeFacts
<1>8. \A x : Has(unexp', x) => Has(unexp, x) \/ x = g
  BY <1>7, AppendHas
<1>9. SrcOf[g.id] = s
  BY <1>6, HasFacts DEF LineEntry
<1>10. ASSUME NEW p \in Sender, NEW h \in Headers, NEW c \in Headers, ~IsData(c)
       PROVE  /\ Before(line'[p], h, c) => Before(line[p], h, c)
              /\ Has(line'[p], c) => Has(line[p], c)
              /\ Has(line'[p], c) /\ Has(unexp', h) /\ SrcOf[h.id] = p =>
                    Before(line[p], h, c)
                    \/ \E k \in Headers : k.id = h.id /\ (IsData(h) => IsData(k)) /\ Has(unexp, k)
  <2>1. Fewer(line'[p], line[p])
    BY <1>5
  <2>2. ASSUME Has(line'[p], c), Has(unexp', h), SrcOf[h.id] = p, ~Has(unexp, h)
        PROVE  Before(line[p], h, c)
    BY <1>6, <1>8, <1>9, <2>2
  <2> QED
    BY <2>1, <2>2 DEF Fewer
<1>11. CancelInv'
  BY <1>2, <1>10, CancelsKept DEF DeviceInv
<1> QED
  BY <1>2, <1>4, <1>11, TokensKept, QueuesKept DEF DeviceInv

(* A message that a posted receive accepts arrives: acknowledgements stay with their requests. *)
LEMMA RecvMatchDevice ==
    ASSUME PlacesInv, DeviceInv, NEW s \in Sender, RecvData(s), NEW i \in 1..Len(posted),
           AcceptData(rreq[posted[i]].sel, Head(line[s])),
           rreq' = [rreq EXCEPT ![posted[i]] = Matched(@, Head(line[s]))],
           posted' = RemoveAt(posted, i), UNCHANGED unexp
    PROVE  DeviceInv'
<1>1. PICK m \in Send :
              /\ On(m) /\ ~Taken(m) /\ Taken(m)'
              /\ \A x \in Send : x # m => On(x)' = On(x) /\ Taken(x)' = Taken(x)
              /\ \A x \in Send : Un(x)' = Un(x)
              /\ rreq[posted[i]].msg = {} /\ rreq'[posted[i]].msg = {m}
              /\ \A x \in Recv : x # posted[i] => rreq'[x] = rreq[x]
  BY RecvMatchPlaces
<1>2. /\ TypeOK /\ line[s] # <<>> /\ line' = [line EXCEPT ![s] = Tail(@)]
      /\ UNCHANGED <<sreq, acks, ackq, uack>>
  BY RecvDataCases DEF PlacesInv
<1>3. PICK r \in Recv : r = posted[i]
  BY <1>2, TypeFacts
<1>4. \A x \in Send : x # m => Held(x)' = Held(x)
  BY <1>1, <1>3, HeldStep
<1>5. OneSync' /\ CountInv' /\ EntriesKept /\ QueueKept
  BY <1>1, <1>2, <1>4, ReceiverMoves
<1>6. CancelInv'
  <2>1. \A p \in Sender : Fewer(line'[p], line[p])
    BY <1>2, HeadGone
  <2>2. Fewer(unexp', unexp)
    BY DEF Fewer
  <2> QED
    BY <1>2, <2>1, <2>2, LinesShrink DEF DeviceInv
<1> QED
  BY <1>2, <1>5, <1>6, TokensKept, QueuesKept DEF DeviceInv

(* A cancel arrives after its message was taken: acknowledgements stay with their requests. *)
LEMMA CancelMissDevice ==
    ASSUME PlacesInv, DeviceInv, NEW s \in Sender, RecvCancel(s), UNCHANGED <<unexp, acks>>
    PROVE  DeviceInv'
<1>1. /\ TypeOK /\ line[s] # <<>> /\ line' = [line EXCEPT ![s] = Tail(@)]
      /\ UNCHANGED <<sreq, rreq, posted, ackq, uack>>
  BY RecvCancelCases DEF PlacesInv
<1>2. \A x \in Send : On(x)' = On(x) /\ Un(x)' = Un(x) /\ Taken(x)' = Taken(x)
  BY CancelMissPlaces
<1>3. \A x \in Send : Held(x)' = Held(x)
  BY <1>1 DEF Held
<1>4. OneSync' /\ CountInv' /\ EntriesKept /\ QueueKept
  BY <1>1, <1>2, <1>3, NothingMoves
<1>5. CancelInv'
  <2>1. \A p \in Sender : Fewer(line'[p], line[p])
    BY <1>1, HeadGone
  <2>2. Fewer(unexp', unexp)
    BY DEF Fewer
  <2> QED
    BY <1>1, <2>1, <2>2, LinesShrink DEF DeviceInv
<1> QED
  BY <1>1, <1>4, <1>5, TokensKept, QueuesKept DEF DeviceInv

(* A cancel finds the message it was sent for. *)
LEMMA CancelHitDevice ==
    ASSUME PlacesInv, DeviceInv, NEW s \in Sender, RecvCancel(s), NEW i \in 1..Len(unexp),
           AcceptCancel(Head(line[s]), unexp[i]), unexp' = RemoveAt(unexp, i),
           acks' = [acks EXCEPT ![s] = Append(@, [type |-> "CANCEL_DATA_ACK", id |-> unexp[i].id])]
    PROVE  DeviceInv' /\ sreq[unexp[i].id].asked
<1>1. /\ TypeOK /\ line[s] # <<>> /\ line' = [line EXCEPT ![s] = Tail(@)]
      /\ UNCHANGED <<sreq, rreq, posted, ackq, uack>> /\ ~IsData(Head(line[s]))
  BY RecvCancelCases DEF PlacesInv
<1>2. PICK m \in Send :
              /\ PlacesInv' /\ m = unexp[i].id /\ sreq[m].type = Sync
              /\ Un(m) /\ ~Un(m)' /\ ~On(m) /\ ~Taken(m)
              /\ \A x \in Send : x # m => Un(x)' = Un(x)
              /\ \A x \in Send : On(x)' = On(x) /\ Taken(x)' = Taken(x)
  BY CancelHitPlaces
<1>3. (\A x \in Send : Held(x)' = Held(x)) /\ ~Held(m)
  BY <1>1, <1>2 DEF Held, Taken
<1>4. OneSync' /\ CountInv' /\ EntriesKept /\ QueueKept
  BY <1>1, <1>2, <1>3, ReceiverMoves
<1>5. Count(m) /\ sreq[m].cc = 1 /\ sreq[m].out = "none"
  <2>1. Count(m)
    BY DEF DeviceInv, CountInv
  <2> QED
    BY <1>2, <2>1 DEF Count
<1>6. PICK c \in Headers : c = Head(line[s]) /\ Has(line[s], c)
  BY <1>1, HeadGone
<1>7. PICK h \in Headers : h = unexp[i] /\ Has(unexp, h)
  BY <1>1, TypeFacts DEF Has
<1>8. /\ LineEntry(s, c) /\ IsData(h) /\ ~IsData(c) /\ h.id = m
      /\ SrcOf[h.id] = SrcOf[c.id] /\ sreq[h.id].env = sreq[c.id].env
  BY <1>1, <1>2, <1>6, <1>7, HasFacts DEF AcceptCancel
<1>9. SrcOf[c.id] = s /\ sreq[c.id].type = Sync /\ sreq[c.id].asked /\ SrcOf[m] = s
  BY <1>8 DEF LineEntry
<1>10. sreq[m].asked
  <2>1. NotAfter(h, c)
    BY <1>6, <1>7, <1>8, <1>9 DEF DeviceInv, CancelInv
  <2>2. m <= c.id
    BY <1>2, <1>8, <2>1 DEF NotAfter
  <2>3. c.id \in Send /\ m \in Nat /\ c.id \in Nat
    BY SendAssumption DEF Headers
  <2>4. CASE m = c.id
    BY <1>9, <2>4
  <2>5. CASE m < c.id
    BY <1>2, <1>5, <1>8, <1>9, <2>3, <2>5 DEF DeviceInv, OneSync
  <2> QED
    BY <2>2, <2>3, <2>4, <2>5
<1>11. CancelInv'
  <2>1. \A p \in Sender : Fewer(line'[p], line[p])
    BY <1>1, HeadGone
  <2>2. Fewer(unexp', unexp)
    BY <1>1, UnexpFewer
  <2> QED
    BY <1>1, <2>1, <2>2, LinesShrink DEF DeviceInv
<1>12. PICK a \in Acks : /\ a = [type |-> "CANCEL_DATA_ACK", id |-> m]
                         /\ a.id = m /\ a.type = "CANCEL_DATA_ACK"
  <2> DEFINE b == [type |-> "CANCEL_DATA_ACK", id |-> m]
  <2>1. b \in Acks /\ b.id = m /\ b.type = "CANCEL_DATA_ACK"
    BY DEF Acks
  <2> QED
    BY <2>1
<1>13. acks' = [acks EXCEPT ![s] = Append(@, a)]
  BY <1>2, <1>12
<1>14. AckEntry(s, a)'
  <2>1. Place(m) /\ sreq[m].pio \in {"started", "done"}
    <3>1. Place(m)
      BY DEF PlacesInv, PlaceInv
    <3> QED
      BY <1>2, <3>1 DEF Place
  <2> QED
    BY <1>1, <1>2, <1>3, <1>5, <1>9, <1>12, <2>1 DEF AckEntry
<1>15. \A b \in Acks : b.id = a.id => ~AckEntry(s, b)
  BY <1>2, <1>12 DEF AckEntry
<1>16. TokenInv'
  BY <1>1, <1>4, <1>13, <1>14, <1>15, TokenSent DEF DeviceInv
<1> QED
  BY <1>1, <1>2, <1>4, <1>10, <1>11, <1>16, QueuesKept DEF DeviceInv

(* The lists are as they were, but for unexpected messages that are taken. *)
LEMMA ListsSame ==
    ASSUME PlacesInv, CancelInv, UNCHANGED <<sreq, line>>, Fewer(unexp', unexp)
    PROVE  CancelInv'
<1>1. \A p \in Sender : Fewer(line'[p], line[p])
  BY DEF Fewer
<1> QED
  BY <1>1, LinesShrink

(* A receive is posted: acknowledgements stay with their requests. *)
LEMMA PostDevice ==
    ASSUME PlacesInv, DeviceInv, NEW r \in Recv, NEW sel \in Sels, Irecv(r, sel),
           rreq' = [rreq EXCEPT ![r] = Posting(sel)], posted' = Append(posted, r),
           UNCHANGED unexp, \A i \in 1..Len(unexp) : ~AcceptData(sel, unexp[i])
    PROVE  DeviceInv'
<1>1. TypeOK /\ UNCHANGED <<sreq, line, acks, ackq, uack>>
  BY IrecvCases DEF PlacesInv
<1>2. /\ rreq[r].msg = {}
      /\ \A x \in Send : On(x)' = On(x) /\ Un(x)' = Un(x) /\ Taken(x)' = Taken(x)
  BY PostPlaces
<1>3. rreq'[r].msg = {} /\ \A x \in Recv : x # r => rreq'[x] = rreq[x]
  BY <1>1 DEF TypeOK, Posting
<1>4. \A x \in Send : Held(x)' = Held(x)
  BY <1>2, <1>3, HeldStep
<1>5. OneSync' /\ CountInv' /\ EntriesKept /\ QueueKept
  BY <1>1, <1>2, <1>4, NothingMoves
<1>6. CancelInv'
  BY <1>1, ListsSame DEF DeviceInv, Fewer
<1> QED
  BY <1>1, <1>5, <1>6, TokensKept, QueuesKept DEF DeviceInv

(* A receive takes an unexpected message: acknowledgements stay with their requests. *)
LEMMA IrecvMatchDevice ==
    ASSUME PlacesInv, DeviceInv, NEW r \in Recv, NEW sel \in Sels, Irecv(r, sel),
           NEW i \in 1..Len(unexp), AcceptData(sel, unexp[i]),
           rreq' = [rreq EXCEPT ![r] = Matched(Posting(sel), unexp[i])],
           unexp' = RemoveAt(unexp, i), UNCHANGED posted
    PROVE  DeviceInv'
<1>1. TypeOK /\ UNCHANGED <<sreq, line, acks, ackq, uack>>
  BY IrecvCases DEF PlacesInv
<1>2. PICK m \in Send :
              /\ Un(m) /\ ~Taken(m) /\ Taken(m)'
              /\ \A x \in Send : x # m => Un(x)' = Un(x) /\ Taken(x)' = Taken(x)
              /\ \A x \in Send : On(x)' = On(x)
              /\ rreq[r].msg = {} /\ rreq'[r].msg = {m}
              /\ \A x \in Recv : x # r => rreq'[x] = rreq[x]
  BY IrecvMatchPlaces
<1>3. \A x \in Send : x # m => Held(x)' = Held(x)
  BY <1>2, HeldStep
<1>4. OneSync' /\ CountInv' /\ EntriesKept /\ QueueKept
  BY <1>1, <1>2, <1>3, ReceiverMoves
<1>5. CancelInv'
  BY <1>1, UnexpFewer, ListsSame DEF DeviceInv
<1> QED
  BY <1>1, <1>4, <1>5, TokensKept, QueuesKept DEF DeviceInv

(* MPI_Improbe reserves a message: acknowledgements stay with their requests. *)
LEMMA ImprobeDevice ==
    ASSUME PlacesInv, DeviceInv, NEW r \in Recv, NEW sel \in Sels, Improbe(r, sel),
           NEW i \in 1..Len(unexp), NEW t \in Reserved, AcceptData(sel, unexp[i]),
           Restored(t) = unexp[i].type,
           unexp' = [unexp EXCEPT ![i] = [id |-> unexp[i].id, type |-> t]],
           rreq' = [rreq EXCEPT ![r] = [st |-> "message", sel |-> sel,
                                        type |-> t, msg |-> {unexp[i].id}]]
    PROVE  DeviceInv'
<1>1. TypeOK /\ UNCHANGED <<sreq, line, posted, acks, ackq, uack>>
  BY ImprobeCases DEF PlacesInv
<1>2. PICK m \in Send :
              /\ Un(m) /\ ~Taken(m) /\ Taken(m)'
              /\ \A x \in Send : x # m => Taken(x)' = Taken(x)
              /\ \A x \in Send : On(x)' = On(x) /\ Un(x)' = Un(x)
              /\ rreq[r].msg = {} /\ rreq'[r].msg = {m}
              /\ \A x \in Recv : x # r => rreq'[x] = rreq[x]
  BY ImprobePlaces, ZenonT(60)
<1>3. \A x \in Send : x # m => Held(x)' = Held(x)
  BY <1>2, HeldStep
<1>4. OneSync' /\ CountInv' /\ EntriesKept /\ QueueKept
  BY <1>1, <1>2, <1>3, ReceiverMoves
<1>5. ASSUME NEW h \in Headers, Has(unexp', h)
      PROVE  \E g \in Headers : g.id = h.id /\ (IsData(h) => IsData(g)) /\ Has(unexp, g)
  <2>1. unexp \in Seq(Headers) /\ Len(unexp) \in Nat /\ IsData(unexp[i])
        /\ \A k \in 1..Len(unexp) : unexp[k] \in Headers
    BY <1>1, TypeFacts DEF AcceptData, IsData, DataTypes, CANCEL
  <2>2. Len(unexp') = Len(unexp) /\ unexp'[i].id = unexp[i].id
        /\ \A k \in 1..Len(unexp) : k # i => unexp'[k] = unexp[k]
    BY <2>1
  <2>3. PICK k \in 1..Len(unexp') : unexp'[k] = h
    BY <1>5 DEF Has
  <2>4. k \in 1..Len(unexp) /\ unexp[k].id = h.id /\ (IsData(h) => IsData(unexp[k]))
    BY <2>1, <2>2, <2>3
  <2>5. Has(unexp, unexp[k]) /\ unexp[k] \in Headers
    BY <2>1, <2>4 DEF Has
  <2> QED
    BY <2>4, <2>5
<1>6. CancelInv'
  BY <1>1, <1>5, CancelsKept DEF DeviceInv
<1> QED
  BY <1>1, <1>4, <1>6, TokensKept, QueuesKept DEF DeviceInv

(* MPI_Imrecv takes the reserved message: acknowledgements stay with their requests. *)
LEMMA ImrecvDevice ==
    ASSUME PlacesInv, DeviceInv, NEW r \in Recv, Imrecv(r)
    PROVE  DeviceInv'
<1>1. PICK m \in Send :
              /\ rreq[r].msg = {m} /\ Un(m)
              /\ \A x \in Send : x # m => Un(x)' = Un(x)
              /\ \A x \in Send : On(x)' = On(x) /\ Taken(x)' = Taken(x)
              /\ rreq'[r].msg = {m} /\ \A x \in Recv : x # r => rreq'[x] = rreq[x]
              /\ UNCHANGED <<sreq, line, posted, acks, ackq, uack>>
              /\ \E i \in 1..Len(unexp) : unexp' = RemoveAt(unexp, i)
  BY ImrecvPlaces
<1>2. \A x \in Send : x # m => Held(x)' = Held(x)
  BY <1>1, HeldStep
<1>3. OneSync' /\ CountInv' /\ EntriesKept /\ QueueKept
  BY <1>1, <1>2, ReceiverMoves
<1>4. CancelInv'
  <2>1. Fewer(unexp', unexp)
    BY <1>1, UnexpFewer DEF PlacesInv
  <2> QED
    BY <1>1, <2>1, ListsSame DEF DeviceInv
<1> QED
  BY <1>1, <1>3, <1>4, TokensKept, QueuesKept DEF DeviceInv

(* A receive is cancelled: acknowledgements stay with their requests. *)
LEMMA CancelRecvDevice ==
    ASSUME PlacesInv, DeviceInv, NEW r \in Recv, Cancel_recv(r)
    PROVE  DeviceInv'
<1>1. /\ rreq[r].st = "posted" /\ rreq'[r].msg = rreq[r].msg
      /\ \A x \in Recv : x # r => rreq'[x] = rreq[x]
      /\ \A x \in Send : On(x)' = On(x) /\ Un(x)' = Un(x) /\ Taken(x)' = Taken(x)
      /\ UNCHANGED <<sreq, line, unexp, acks, ackq, uack>>
  BY CancelRecvPlaces
<1>2. rreq[r].msg = {}
  BY <1>1 DEF PlacesInv, RecvInv, RecvEntry
<1>3. \A x \in Send : Held(x)' = Held(x)
  BY <1>1, <1>2, HeldStep
<1>4. OneSync' /\ CountInv' /\ EntriesKept /\ QueueKept
  BY <1>1, <1>3, NothingMoves
<1>5. CancelInv'
  BY <1>1, ListsSame DEF DeviceInv, Fewer
<1> QED
  BY <1>1, <1>4, <1>5, TokensKept, QueuesKept DEF DeviceInv

(* receive_done acknowledges a message only once. *)
LEMMA RecvDoneDevice ==
    ASSUME PlacesInv, DeviceInv, NEW r \in Recv, RecvDone(r)
    PROVE  DeviceInv'
<1>1. PICK m \in Send :
              /\ PlacesInv' /\ rreq[r].st = "matched" /\ rreq'[r].st = "done"
              /\ rreq[r].msg = {m} /\ rreq'[r].msg = {m}
              /\ \A x \in Recv : x # r => rreq'[x] = rreq[x]
              /\ \A x \in Send : On(x)' = On(x) /\ Un(x)' = Un(x) /\ Taken(x)' = Taken(x)
              /\ UNCHANGED <<sreq, line, posted, unexp, ackq, uack>>
              /\ \/ UNCHANGED acks
                 \/ /\ sreq[m].type = Sync
                    /\ acks' = [acks EXCEPT ![SrcOf[m]] =
                                  Append(@, [type |-> "DATA_ACK", id |-> m])]
  BY RecvDonePlaces
<1>2. (\A x \in Send : x # m => Held(x)' = Held(x)) /\ Held(m) /\ Taken(m)
  BY <1>1, HeldStep DEF Taken
<1>3. ~Held(m)'
  <2>1. \A x \in Recv : x # r => rreq'[x].msg # {m}
    BY <1>1 DEF PlacesInv, RecvInv
  <2> QED
    BY <1>1, <2>1 DEF Held
<1>4. OneSync' /\ CountInv' /\ EntriesKept /\ QueueKept
  BY <1>1, <1>2, ReceiverMoves
<1>5. CancelInv'
  BY <1>1, ListsSame DEF DeviceInv, Fewer
<1>6. CASE UNCHANGED acks
  BY <1>1, <1>4, <1>5, <1>6, TokensKept, QueuesKept DEF DeviceInv
<1>7. CASE /\ sreq[m].type = Sync
           /\ acks' = [acks EXCEPT ![SrcOf[m]] = Append(@, [type |-> "DATA_ACK", id |-> m])]
  <2>1. PICK a \in Acks : /\ a = [type |-> "DATA_ACK", id |-> m]
                          /\ a.id = m /\ a.type = "DATA_ACK"
    <3> DEFINE b == [type |-> "DATA_ACK", id |-> m]
    <3>1. b \in Acks /\ b.id = m /\ b.type = "DATA_ACK"
      BY DEF Acks
    <3> QED
      BY <3>1
  <2>2. PICK s \in Sender : s = SrcOf[m]
    BY SendAssumption
  <2>3. acks' = [acks EXCEPT ![s] = Append(@, a)]
    BY <1>7, <2>1, <2>2
  <2>4. sreq[m].cc = 1
    BY <1>2, <1>7 DEF DeviceInv, CountInv, Count
  <2>5. ~On(m) /\ sreq[m].pio \in {"started", "done"}
    <3>1. Place(m)
      BY DEF PlacesInv, PlaceInv
    <3> QED
      BY <1>2, <3>1 DEF Place
  <2>6. ~Un(m)
    <3>1. ASSUME Un(m) PROVE FALSE
      <4>1. unexp \in Seq(Headers)
        BY TypeFacts DEF PlacesInv
      <4>2. PICK k \in 1..Len(unexp) : unexp[k].id = m
        BY <3>1, <4>1, InSeqMeans DEF Un
      <4>3. UnexpEntry(unexp[k])
        BY DEF PlacesInv, UnexpInv
      <4>4. PICK x \in Recv : rreq[x].st = "message" /\ rreq[x].msg = {m}
        BY <1>2, <4>2, <4>3 DEF UnexpEntry
      <4>5. x = r
        BY <1>1, <4>4, ZenonT(60) DEF PlacesInv, RecvInv
      <4> QED
        BY <1>1, <4>4, <4>5
    <3> QED
      BY <3>1
  <2>7. AckEntry(s, a)'
    BY <1>1, <1>2, <1>3, <1>7, <2>1, <2>2, <2>4, <2>5, <2>6 DEF AckEntry
  <2>8. \A b \in Acks : b.id = a.id => ~AckEntry(s, b)
    BY <1>2, <2>1 DEF AckEntry
  <2>9. TokenInv'
    BY <1>1, <1>4, <2>3, <2>7, <2>8, TokenSent DEF DeviceInv, PlacesInv
  <2> QED
    BY <1>1, <1>4, <1>5, <2>9, QueuesKept DEF DeviceInv
<1> QED
  BY <1>1, <1>6, <1>7

-----------------------------------------------------------------------------
(* At first nothing is acknowledged or asked for. *)
LEMMA InitDevice == Init => DeviceInv
<1> SUFFICES ASSUME Init PROVE DeviceInv
  OBVIOUS
<1>1. /\ \A s \in Sender : line[s] = <<>> /\ acks[s] = <<>> /\ uack[s] = <<>> /\ ackq[s] = <<>>
      /\ \A m \in Send : /\ sreq[m].type = "none" /\ sreq[m].pio = "none" /\ sreq[m].cc = 0
  BY DEF Init
<1>2. (\A x : ~Has(<<>>, x)) /\ (\A x, y : ~Before(<<>>, x, y))
  BY DEF Has, Before
<1>3. CancelInv
  BY <1>1, <1>2 DEF CancelInv
<1>4. TokenInv /\ QueueInv
  BY <1>1, <1>2 DEF TokenInv, QueueInv
<1>5. OneSync /\ CountInv
  BY <1>1 DEF OneSync, CountInv, Count, Sync
<1> QED
  BY <1>3, <1>4, <1>5 DEF DeviceInv

(* Every step keeps the acknowledgements with their requests. *)
LEMMA NextDevice ==
    ASSUME UniqueSync
    PROVE  PlacesInv /\ DeviceInv /\ [Next]_vars => DeviceInv'
<1> SUFFICES ASSUME PlacesInv, DeviceInv, [Next]_vars PROVE DeviceInv'
  OBVIOUS
<1>0. TypeOK
  BY DEF PlacesInv
<1>1. ASSUME NEW s \in Sender, SendStart(s) PROVE DeviceInv'
  BY <1>1, SendStartDevice
<1>2. ASSUME NEW s \in Sender, RecvAck(s) PROVE DeviceInv'
  BY <1>2, RecvAckDevice
<1>3. ASSUME NEW s \in Sender, RecvData(s) PROVE DeviceInv'
  <2>1. \/ /\ unexp' = Append(unexp, Head(line[s])) /\ UNCHANGED <<rreq, posted>>
           /\ \A i \in 1..Len(posted) : ~AcceptData(rreq[posted[i]].sel, Head(line[s]))
        \/ \E i \in 1..Len(posted) :
              /\ AcceptData(rreq[posted[i]].sel, Head(line[s]))
              /\ rreq' = [rreq EXCEPT ![posted[i]] = Matched(@, Head(line[s]))]
              /\ posted' = RemoveAt(posted, i) /\ UNCHANGED unexp
    BY <1>0, <1>3, RecvDataCases
  <2> QED
    BY <1>3, <2>1, RecvUnexpDevice, RecvMatchDevice
<1>4. ASSUME NEW s \in Sender, RecvCancel(s) PROVE DeviceInv'
  <2>1. \/ UNCHANGED <<unexp, acks>>
        \/ \E i \in 1..Len(unexp) :
              /\ AcceptCancel(Head(line[s]), unexp[i])
              /\ acks' = [acks EXCEPT ![s] =
                            Append(@, [type |-> "CANCEL_DATA_ACK", id |-> unexp[i].id])]
              /\ unexp' = RemoveAt(unexp, i)
    BY <1>0, <1>4, RecvCancelCases
  <2> QED
    BY <1>4, <2>1, CancelMissDevice, CancelHitDevice
<1>5. ASSUME NEW m \in Send, SendDone(m) PROVE DeviceInv'
  BY <1>5, SendDoneDevice
<1>6. ASSUME NEW r \in Recv, RecvDone(r) PROVE DeviceInv'
  BY <1>6, RecvDoneDevice
<1>7. ASSUME NEW m \in Send, NEW e \in Env, NEW type \in DataTypes, Sendtype(m, e, type)
      PROVE  DeviceInv'
  BY <1>7, SendtypeDevice
<1>8. ASSUME NEW m \in Send, Cancel_send(m) PROVE DeviceInv'
  BY <1>8, TakeBackDevice, AskDevice
<1>9. ASSUME NEW m \in Send, WaitSend(m) PROVE DeviceInv'
  BY <1>9, WaitSendDevice
<1>10. ASSUME NEW r \in Recv, NEW sel \in Sels, Irecv(r, sel) PROVE DeviceInv'
  <2>1. \/ /\ rreq' = [rreq EXCEPT ![r] = Posting(sel)]
           /\ posted' = Append(posted, r) /\ UNCHANGED unexp
           /\ \A i \in 1..Len(unexp) : ~AcceptData(sel, unexp[i])
        \/ \E i \in 1..Len(unexp) :
              /\ AcceptData(sel, unexp[i])
              /\ rreq' = [rreq EXCEPT ![r] = Matched(Posting(sel), unexp[i])]
              /\ unexp' = RemoveAt(unexp, i) /\ UNCHANGED posted
    BY <1>0, <1>10, IrecvCases
  <2> QED
    BY <1>10, <2>1, PostDevice, IrecvMatchDevice
<1>11. ASSUME NEW r \in Recv, NEW sel \in Sels, Improbe(r, sel) PROVE DeviceInv'
  <2>1. PICK i \in 1..Len(unexp), t \in Reserved :
                 /\ AcceptData(sel, unexp[i])
                 /\ Restored(t) = unexp[i].type
                 /\ unexp' = [unexp EXCEPT ![i] = [id |-> unexp[i].id, type |-> t]]
                 /\ rreq' = [rreq EXCEPT ![r] = [st |-> "message", sel |-> sel,
                                                 type |-> t, msg |-> {unexp[i].id}]]
    BY <1>0, <1>11, ImprobeCases
  <2> QED
    BY <1>11, <2>1, ImprobeDevice
<1>12. ASSUME NEW r \in Recv, Imrecv(r) PROVE DeviceInv'
  BY <1>12, ImrecvDevice
<1>13. ASSUME NEW r \in Recv, Cancel_recv(r) PROVE DeviceInv'
  BY <1>13, CancelRecvDevice
<1>14. CASE UNCHANGED vars
  <2>1. UNCHANGED <<sreq, rreq, line, posted, unexp, acks, ackq, uack>>
    BY <1>14 DEF vars
  <2>2. \A x \in Send : On(x)' = On(x) /\ Un(x)' = Un(x) /\ Taken(x)' = Taken(x) /\ Held(x)' = Held(x)
    BY <2>1 DEF On, Un, Taken, Held
  <2>3. OneSync' /\ CountInv' /\ EntriesKept /\ QueueKept
    BY <2>1, <2>2, NothingMoves
  <2>4. CancelInv'
    BY <2>1, ListsSame DEF DeviceInv, Fewer
  <2> QED
    BY <2>1, <2>3, <2>4, TokensKept, QueuesKept DEF DeviceInv
<1> QED
  BY <1>1, <1>2, <1>3, <1>4, <1>5, <1>6, <1>7, <1>8, <1>9, <1>10, <1>11, <1>12, <1>13, <1>14
  DEF Next, Progress

(* With at most one synchronous send per envelope and sender under way, every    *)
(* acknowledgement is the answer to the request that takes it, a cancel meets    *)
(* the message it was sent for, and the counter and the cancel bit of a request  *)
(* agree with what has become of its message.                                   *)
THEOREM DeviceHolds ==
    ASSUME UniqueSync
    PROVE  Spec => [](PlacesInv /\ DeviceInv)
<1>1. Init => PlacesInv /\ DeviceInv
  BY InitPlaces, InitDevice
<1>2. PlacesInv /\ DeviceInv /\ [Next]_vars => PlacesInv' /\ DeviceInv'
  BY NextPlaces, NextDevice
<1> QED
  BY <1>1, <1>2, PTL DEF Spec

(* An acknowledgement on its way, DATA_ACK or CANCEL_DATA_ACK, belongs to a      *)
(* request that still waits for it (cb_io_done_ack): none is left over for a     *)
(* later synchronous send with the same envelope to take.                        *)
THEOREM NoStaleAckHolds ==
    ASSUME UniqueSync
    PROVE  Spec => []NoStaleAck
<1>1. PlacesInv /\ DeviceInv => NoStaleAck
  <2> SUFFICES ASSUME PlacesInv, DeviceInv, NEW s \in Sender,
                      NEW a \in Range(acks[s]) \cup Range(uack[s])
               PROVE  sreq[a.id].cc > 0 /\ sreq[a.id].out = "none"
    BY DEF NoStaleAck
  <2>1. acks[s] \in Seq(Acks) /\ uack[s] \in Seq(Acks)
    BY DEF PlacesInv, TypeOK
  <2>2. a \in Acks /\ (Has(acks[s], a) \/ Has(uack[s], a))
    <3>1. DOMAIN acks[s] = 1..Len(acks[s]) /\ DOMAIN uack[s] = 1..Len(uack[s])
      BY <2>1
    <3>2. CASE a \in Range(acks[s])
      <4>1. PICK k \in 1..Len(acks[s]) : a = acks[s][k]
        BY <3>1, <3>2 DEF Range
      <4> QED
        BY <2>1, <4>1 DEF Has
    <3>3. CASE a \in Range(uack[s])
      <4>1. PICK k \in 1..Len(uack[s]) : a = uack[s][k]
        BY <3>1, <3>3 DEF Range
      <4> QED
        BY <2>1, <4>1 DEF Has
    <3> QED
      BY <3>2, <3>3
  <2>3. AckEntry(s, a)
    BY <2>2 DEF DeviceInv, TokenInv
  <2>4. PICK m \in Send : m = a.id
    BY <2>2 DEF Acks
  <2>5. Count(m) /\ sreq[m].cc = 1
    BY <2>3, <2>4 DEF DeviceInv, CountInv, AckEntry
  <2> QED
    BY <2>4, <2>5 DEF Count
<1> QED
  BY <1>1, DeviceHolds, PTL
-----------------------------------------------------------------------------
(* The device implements MpiMessages *)

(* What the program sees of a send and of a receive, and all of them. *)
SendView(m) ==
    [fate |-> Fate(m), sync |-> sreq[m].type = "DATA_REQUEST_ACK",
     asked |-> sreq[m].asked, out |-> sreq[m].out, env |-> sreq[m].env]
RecvView(r) ==
    [st |-> IF rreq[r].st = "message" THEN "matched" ELSE rreq[r].st,
     sel |-> rreq[r].sel, msg |-> rreq[r].msg]
SendViews == [m \in Send |-> SendView(m)]
RecvViews == [r \in Recv |-> RecvView(r)]

(* The fate of a message, by its place. *)
LEMMA FateIs ==
    ASSUME PlacesInv, NEW m \in Send
    PROVE  /\ sreq[m].type = "none" => Fate(m) = "none" /\ ~On(m) /\ ~Un(m) /\ ~Taken(m)
           /\ sreq[m].type # "none" /\ Taken(m) => Fate(m) = "matched"
           /\ ~Taken(m) /\ (On(m) \/ Un(m)) => Fate(m) = "pending"
           /\ sreq[m].type # "none" /\ ~Taken(m) /\ ~On(m) /\ ~Un(m) => Fate(m) = "cancelled"
           /\ sreq[m].type # "none" => Fate(m) # "none"
           /\ Fate(m) = "pending" => ~Taken(m) /\ (On(m) \/ Un(m))
<1>1. Place(m)
  BY DEF PlacesInv, PlaceInv
<1>2. sreq[m].type = "none" => ~On(m) /\ ~Un(m) /\ ~Taken(m)
  BY <1>1 DEF Place
<1>3. Fate(m) = IF sreq[m].type = "none" THEN "none" ELSE IF Taken(m) THEN "matched"
                ELSE IF On(m) \/ Un(m) THEN "pending" ELSE "cancelled"
  BY DEF Fate, On, Un, Taken
<1> QED
  BY <1>2, <1>3

(* A step that changes what is seen of one send or of one receive. *)
LEMMA SendViewStep ==
    ASSUME NEW m \in Send, \A x \in Send : x # m => SendView(x)' = SendView(x)
    PROVE  /\ SendViews' = [SendViews EXCEPT ![m] = SendView(m)']
           /\ SendView(m)' = SendView(m) => SendViews' = SendViews
  BY DEF SendViews

(* One receive request changes. *)
LEMMA RecvViewStep ==
    ASSUME NEW r \in Recv, \A x \in Recv : x # r => rreq'[x] = rreq[x]
    PROVE  /\ RecvViews' = [RecvViews EXCEPT ![r] = RecvView(r)']
           /\ RecvView(r)' = RecvView(r) => RecvViews' = RecvViews
<1>1. \A x \in Recv : x # r => RecvView(x)' = RecvView(x)
  BY DEF RecvView
<1> QED
  BY <1>1 DEF RecvViews

(* The places of a message tell what has become of it. *)
LEMMA FateSame ==
    ASSUME NEW x \in Send, sreq'[x].type = sreq[x].type,
           On(x)' = On(x), Un(x)' = Un(x), Taken(x)' = Taken(x)
    PROVE  Fate(x)' = Fate(x)
<1>1. Fate(x) = IF sreq[x].type = "none" THEN "none" ELSE IF Taken(x) THEN "matched"
                ELSE IF On(x) \/ Un(x) THEN "pending" ELSE "cancelled"
  BY DEF Fate, On, Un, Taken
<1>2. Fate(x)' = IF sreq'[x].type = "none" THEN "none" ELSE IF Taken(x)' THEN "matched"
                 ELSE IF On(x)' \/ Un(x)' THEN "pending" ELSE "cancelled"
  BY DEF Fate, On, Un, Taken
<1> QED
  BY <1>1, <1>2

(* A send request that looks the same. *)
LEMMA ViewSame ==
    ASSUME NEW x \in Send, sreq'[x].type = sreq[x].type, sreq'[x].env = sreq[x].env,
           sreq'[x].asked = sreq[x].asked, sreq'[x].out = sreq[x].out, Fate(x)' = Fate(x)
    PROVE  SendView(x)' = SendView(x)
  BY DEF SendView

-----------------------------------------------------------------------------
(* The actions of MpiMessages, said of the views *)
LEMMA MapPostSend ==
    ASSUME NEW m \in Send, NEW e \in Env, NEW sync \in BOOLEAN,
           SendViews[m].fate = "none",
           \A x \in Send : SrcOf[x] = SrcOf[m] /\ x < m => SendViews[x].fate # "none",
           SendViews' = [SendViews EXCEPT ![m] = [fate |-> "pending", sync |-> sync, asked |-> FALSE,
                                                  out |-> "none", env |-> e]],
           RecvViews' = RecvViews
    PROVE  Messages!Next
<1>1. Messages!PostSend(m, e, sync)
  BY Zenon DEF Messages!PostSend, SendViews, RecvViews, SendView, RecvView
<1> QED
  BY <1>1, Zenon DEF Messages!Next

(* A receive is posted. *)
LEMMA MapPostRecv ==
    ASSUME NEW r \in Recv, NEW sel \in Sels, RecvViews[r].st = "none",
           \A x \in Recv : x < r => RecvViews[x].st # "none",
           RecvViews' = [RecvViews EXCEPT ![r] = [st |-> "posted", sel |-> sel, msg |-> {}]],
           SendViews' = SendViews
    PROVE  Messages!Next
<1>1. Messages!PostRecv(r, sel)
  BY Zenon DEF Messages!PostRecv, SendViews, RecvViews, SendView, RecvView
<1> QED
  BY <1>1, Zenon DEF Messages!Next

(* A message that a receive with this selector could take. *)
Candidate(sel, x) ==
    SendViews[x].fate = "pending" /\ SrcOf[x] \in sel.srcs /\ SendViews[x].env \in sel.envs

(* A receive takes the oldest message it may. *)
LEMMA MapRecvNow ==
    ASSUME NEW r \in Recv, NEW sel \in Sels, RecvViews[r].st = "none",
           \A x \in Recv : x < r => RecvViews[x].st # "none", NEW m \in Send,
           Candidate(sel, m), \A x \in Send : SrcOf[x] = SrcOf[m] /\ x < m => ~Candidate(sel, x),
           RecvViews' = [RecvViews EXCEPT ![r] = [st |-> "matched", sel |-> sel, msg |-> {m}]],
           SendViews' = [SendViews EXCEPT ![m].fate = "matched"]
    PROVE  Messages!Next
<1>1. Messages!Takes(sel, m)
  BY Zenon DEF Messages!Takes, Messages!Accepts, Candidate, SendViews, SendView
<1>2. Messages!PostRecv(r, sel)
  BY <1>1, Zenon DEF Messages!PostRecv, SendViews, RecvViews, SendView, RecvView
<1> QED
  BY <1>2, Zenon DEF Messages!Next

(* A message takes the oldest receive it may. *)
LEMMA MapMatch ==
    ASSUME NEW r \in Recv, NEW m \in Send, RecvViews[r].st = "posted", Candidate(RecvViews[r].sel, m),
           \A x \in Send : SrcOf[x] = SrcOf[m] /\ x < m => ~Candidate(RecvViews[r].sel, x),
           \A x \in Recv : RecvViews[x].st = "posted" /\ x < r => ~Candidate(RecvViews[x].sel, m),
           RecvViews' = [RecvViews EXCEPT ![r].st = "matched", ![r].msg = {m}],
           SendViews' = [SendViews EXCEPT ![m].fate = "matched"]
    PROVE  Messages!Next
<1>1. Messages!Takes(RecvViews[r].sel, m)
  BY Zenon DEF Messages!Takes, Messages!Accepts, Candidate, SendViews, SendView
<1>2. Messages!Match(m, r)
  BY <1>1, Zenon DEF Messages!Match, Messages!Accepts, Candidate, SendViews, RecvViews, SendView, RecvView
<1> QED
  BY <1>2, Zenon DEF Messages!Next

(* A receive is over. *)
LEMMA MapFinishRecv ==
    ASSUME NEW r \in Recv, SendViews' = SendViews,
           \/ RecvViews[r].st = "matched" /\ RecvViews' = [RecvViews EXCEPT ![r].st = "done"]
           \/ RecvViews[r].st = "posted" /\ RecvViews' = [RecvViews EXCEPT ![r].st = "cancelled"]
    PROVE  Messages!Next
<1>1. Messages!FinishRecv(r)
  BY Zenon DEF Messages!FinishRecv, SendViews, RecvViews, SendView, RecvView
<1> QED
  BY <1>1, Zenon DEF Messages!Next

(* A send is asked to be cancelled. *)
LEMMA MapAskCancel ==
    ASSUME NEW m \in Send, SendViews[m].fate # "none", ~SendViews[m].asked, SendViews[m].out = "none",
           \/ SendViews' = [SendViews EXCEPT ![m].asked = TRUE]
           \/ /\ SendViews[m].fate = "pending"
              /\ SendViews' = [SendViews EXCEPT ![m].asked = TRUE, ![m].fate = "cancelled"],
           RecvViews' = RecvViews
    PROVE  Messages!Next
<1>1. Messages!AskCancel(m)
  BY Zenon DEF Messages!AskCancel, SendViews, RecvViews, SendView, RecvView
<1> QED
  BY <1>1, Zenon DEF Messages!Next

(* The receiver eats a message. *)
LEMMA MapWithdraw ==
    ASSUME NEW m \in Send, SendViews[m].asked, SendViews[m].fate = "pending",
           SendViews' = [SendViews EXCEPT ![m].fate = "cancelled"], RecvViews' = RecvViews
    PROVE  Messages!Next
<1>1. Messages!Withdraw(m)
  BY Zenon DEF Messages!Withdraw, SendViews, RecvViews, SendView, RecvView
<1> QED
  BY <1>1, Zenon DEF Messages!Next

(* MPI_Wait reports the fate of a send. *)
LEMMA MapReport ==
    ASSUME NEW m \in Send, SendViews[m].fate # "none", SendViews[m].out = "none",
           SendViews[m].sync => SendViews[m].fate # "pending",
           SendViews' = [SendViews EXCEPT ![m].out =
                            IF SendViews[m].fate = "cancelled" THEN "cancelled" ELSE "done"],
           RecvViews' = RecvViews
    PROVE  Messages!Next
<1>1. Messages!Report(m)
  BY Zenon DEF Messages!Report, SendViews, RecvViews, SendView, RecvView
<1> QED
  BY <1>1, Zenon DEF Messages!Next

(* A field of one entry, changed. *)
LEMMA Field ==
    ASSUME NEW f, NEW m, NEW v
    PROVE  /\ [f EXCEPT ![m].fate = v] = [f EXCEPT ![m] = [f[m] EXCEPT !.fate = v]]
           /\ [f EXCEPT ![m].asked = v] = [f EXCEPT ![m] = [f[m] EXCEPT !.asked = v]]
           /\ [f EXCEPT ![m].out = v] = [f EXCEPT ![m] = [f[m] EXCEPT !.out = v]]
           /\ [f EXCEPT ![m].st = v] = [f EXCEPT ![m] = [f[m] EXCEPT !.st = v]]
  BY Zenon

(* A send request that looks different in one field. *)
LEMMA ViewFields ==
    ASSUME NEW m \in Send, sreq'[m].type = sreq[m].type, sreq'[m].env = sreq[m].env
    PROVE  /\ sreq'[m].asked = sreq[m].asked /\ sreq'[m].out = sreq[m].out
                 => SendView(m)' = [SendView(m) EXCEPT !.fate = Fate(m)']
           /\ Fate(m)' = Fate(m) /\ sreq'[m].out = sreq[m].out
                 => SendView(m)' = [SendView(m) EXCEPT !.asked = sreq'[m].asked]
           /\ Fate(m)' = Fate(m) /\ sreq'[m].asked = sreq[m].asked
                 => SendView(m)' = [SendView(m) EXCEPT !.out = sreq'[m].out]
  BY DEF SendView

(* The fate of a message after a step. *)
LEMMA FateNext ==
    ASSUME NEW m \in Send, sreq'[m].type # "none"
    PROVE  /\ Taken(m)' => Fate(m)' = "matched"
           /\ ~Taken(m)' /\ (On(m)' \/ Un(m)') => Fate(m)' = "pending"
           /\ ~Taken(m)' /\ ~On(m)' /\ ~Un(m)' => Fate(m)' = "cancelled"
  BY DEF Fate, On, Un, Taken

(* The requests stay as they are; at most the message of m gets another fate. *)
LEMMA OneFate ==
    ASSUME UNCHANGED sreq, NEW m \in Send,
           \A x \in Send : x # m => On(x)' = On(x) /\ Un(x)' = Un(x) /\ Taken(x)' = Taken(x)
    PROVE  /\ SendViews' = [SendViews EXCEPT ![m].fate = Fate(m)']
           /\ Fate(m)' = Fate(m) => SendViews' = SendViews
<1>1. \A x \in Send : x # m => Fate(x)' = Fate(x)
  BY FateSame
<1>2. \A x \in Send : x # m => SendView(x)' = SendView(x)
  BY <1>1, ViewSame
<1>3. /\ SendViews' = [SendViews EXCEPT ![m] = SendView(m)']
      /\ SendView(m)' = SendView(m) => SendViews' = SendViews
  BY <1>2, SendViewStep
<1>4. Fate(m)' = Fate(m) => SendView(m)' = SendView(m)
  BY ViewSame
<1>5. SendView(m)' = [SendView(m) EXCEPT !.fate = Fate(m)']
  BY ViewFields
<1>6. SendViews[m] = SendView(m)
  BY DEF SendViews
<1>7. SendViews' = [SendViews EXCEPT ![m] = [SendViews[m] EXCEPT !.fate = Fate(m)']]
  BY <1>3, <1>5, <1>6, Zenon
<1> QED
  BY <1>3, <1>4, <1>7, Field, Zenon

(* Only the request of m changes, not what has become of its message. *)
LEMMA OneRequest ==
    ASSUME NEW m \in Send, \A x \in Send : x # m => sreq'[x] = sreq[x],
           sreq'[m].type = sreq[m].type, sreq'[m].env = sreq[m].env,
           \A x \in Send : On(x)' = On(x) /\ Un(x)' = Un(x) /\ Taken(x)' = Taken(x)
    PROVE  /\ sreq'[m].out = sreq[m].out =>
                 SendViews' = [SendViews EXCEPT ![m].asked = sreq'[m].asked]
           /\ sreq'[m].asked = sreq[m].asked =>
                 SendViews' = [SendViews EXCEPT ![m].out = sreq'[m].out]
           /\ sreq'[m].out = sreq[m].out /\ sreq'[m].asked = sreq[m].asked => SendViews' = SendViews
<1>1. \A x \in Send : Fate(x)' = Fate(x)
  BY FateSame
<1>2. \A x \in Send : x # m => SendView(x)' = SendView(x)
  BY <1>1, ViewSame
<1>3. /\ SendViews' = [SendViews EXCEPT ![m] = SendView(m)']
      /\ SendView(m)' = SendView(m) => SendViews' = SendViews
  BY <1>2, SendViewStep
<1>4. sreq'[m].out = sreq[m].out /\ sreq'[m].asked = sreq[m].asked => SendView(m)' = SendView(m)
  BY <1>1, ViewSame
<1>5. /\ sreq'[m].out = sreq[m].out => SendView(m)' = [SendView(m) EXCEPT !.asked = sreq'[m].asked]
      /\ sreq'[m].asked = sreq[m].asked => SendView(m)' = [SendView(m) EXCEPT !.out = sreq'[m].out]
  BY <1>1, ViewFields
<1>6. SendViews[m] = SendView(m)
  BY DEF SendViews
<1>7. /\ sreq'[m].out = sreq[m].out =>
           SendViews' = [SendViews EXCEPT ![m] = [SendViews[m] EXCEPT !.asked = sreq'[m].asked]]
      /\ sreq'[m].asked = sreq[m].asked =>
           SendViews' = [SendViews EXCEPT ![m] = [SendViews[m] EXCEPT !.out = sreq'[m].out]]
  BY <1>3, <1>5, <1>6, Zenon
<1> QED
  BY <1>3, <1>4, <1>7, Field, Zenon

-----------------------------------------------------------------------------
(* A step of the device is a step of MpiMessages or changes nothing of it. *)
Seen == Messages!Next \/ (SendViews' = SendViews /\ RecvViews' = RecvViews)

(* The receive requests look the same. *)
LEMMA RecvViewsSame ==
    ASSUME UNCHANGED rreq
    PROVE  RecvViews' = RecvViews
  BY DEF RecvViews, RecvView

(* The messages stay where they are. *)
LEMMA PlacesSame ==
    ASSUME UNCHANGED <<rreq, line, unexp>>
    PROVE  \A x \in Send : On(x)' = On(x) /\ Un(x)' = Un(x) /\ Taken(x)' = Taken(x)
  BY DEF On, Un, Taken

(* pscom starts a send, as the abstract specification sees it. *)
LEMMA SendStartSeen ==
    ASSUME PlacesInv, NEW s \in Sender, SendStart(s)
    PROVE  Seen
<1>1. TypeOK /\ sreq \in [Send -> SendRec]
  BY DEF PlacesInv, TypeOK
<1>2. PICK m \in Send : sreq' = [sreq EXCEPT ![m].pio = "started"] /\ sreq[m].pio = "posted"
  BY <1>1, SendStartCases
<1>3. UNCHANGED <<rreq, line, unexp>>
  BY <1>1, SendStartCases
<1>4. /\ \A x \in Send : x # m => sreq'[x] = sreq[x]
      /\ sreq'[m].type = sreq[m].type /\ sreq'[m].env = sreq[m].env
      /\ sreq'[m].out = sreq[m].out /\ sreq'[m].asked = sreq[m].asked
  BY <1>1, <1>2, Zenon DEF SendRec
<1>5. SendViews' = SendViews
  BY <1>3, <1>4, PlacesSame, OneRequest
<1> QED
  BY <1>3, <1>5, RecvViewsSame DEF Seen

(* An acknowledgement is not seen in the abstract specification. *)
LEMMA AckedSeen ==
    ASSUME PlacesInv, UNCHANGED <<rreq, line, unexp>>, NEW m \in Send, NEW q \in SendRec,
           q.type = sreq[m].type, q.env = sreq[m].env, q.out = sreq[m].out, q.asked = sreq[m].asked,
           sreq' = [sreq EXCEPT ![m] = q]
    PROVE  Seen
<1>1. sreq \in [Send -> SendRec]
  BY DEF PlacesInv, TypeOK
<1>2. /\ \A x \in Send : x # m => sreq'[x] = sreq[x]
      /\ sreq'[m] = q
  BY <1>1
<1>3. SendViews' = SendViews
  BY <1>2, PlacesSame, OneRequest
<1> QED
  BY <1>3, RecvViewsSame DEF Seen

(* pscom has sent a message, as the abstract specification sees it. *)
LEMMA SendDoneSeen ==
    ASSUME PlacesInv, NEW m \in Send, SendDone(m)
    PROVE  Seen
<1>1. TypeOK /\ sreq[m] \in SendRec /\ SrcOf[m] \in Sender /\ uack \in [Sender -> Seq(Acks)]
  BY TypeFacts DEF PlacesInv, TypeOK
<1> DEFINE q == [sreq[m] EXCEPT !.pio = "done"]
<1>2. q \in SendRec /\ q.type = sreq[m].type /\ q.env = sreq[m].env
      /\ q.asked = sreq[m].asked /\ q.out = sreq[m].out
  BY <1>1 DEF SendRec
<1>3. /\ UNCHANGED <<rreq, line, unexp>>
      /\ \/ sreq' = [sreq EXCEPT ![m] = [sreq[m] EXCEPT !.pio = "done", !.cc = @ - 1]]
         \/ sreq' = [sreq EXCEPT ![m] = q]
         \/ \E i \in 1..Len(uack[SrcOf[m]]) :
               sreq' = [sreq EXCEPT ![m] = AckDone(q, uack[SrcOf[m]][i])]
  BY <1>1, SendDoneCases
<1> HIDE DEF q
<1>4. CASE sreq' = [sreq EXCEPT ![m] = [sreq[m] EXCEPT !.pio = "done", !.cc = @ - 1]]
  <2>1. PICK n \in Int : n = sreq[m].cc - 1
    BY <1>1 DEF SendRec
  <2> DEFINE c == [sreq[m] EXCEPT !.pio = "done", !.cc = n]
  <2>2. sreq' = [sreq EXCEPT ![m] = c]
    BY <1>4, <2>1
  <2>3. c \in SendRec /\ c.type = sreq[m].type /\ c.env = sreq[m].env
        /\ c.asked = sreq[m].asked /\ c.out = sreq[m].out
    BY <1>1 DEF SendRec
  <2> HIDE DEF c
  <2> QED
    BY <1>3, <2>2, <2>3, AckedSeen
<1>5. CASE sreq' = [sreq EXCEPT ![m] = q]
  BY <1>2, <1>3, <1>5, AckedSeen
<1>6. ASSUME NEW i \in 1..Len(uack[SrcOf[m]]),
             sreq' = [sreq EXCEPT ![m] = AckDone(q, uack[SrcOf[m]][i])]
      PROVE  Seen
  <2>1. PICK a \in Acks : a = uack[SrcOf[m]][i]
    BY <1>1
  <2>2. PICK c \in SendRec : c = AckDone(q, a) /\ c.type = q.type /\ c.env = q.env
                                /\ c.out = q.out /\ c.asked = q.asked
    BY <1>2, AckDoneFacts
  <2>3. sreq' = [sreq EXCEPT ![m] = c]
    BY <1>6, <2>1, <2>2
  <2> QED
    BY <1>2, <1>3, <2>2, <2>3, AckedSeen
<1> QED
  BY <1>3, <1>4, <1>5, <1>6

(* An acknowledgement arrives, as the abstract specification sees it. *)
LEMMA RecvAckSeen ==
    ASSUME PlacesInv, NEW s \in Sender, RecvAck(s)
    PROVE  Seen
<1>1. /\ TypeOK /\ sreq \in [Send -> SendRec] /\ acks[s] \in Seq(Acks) /\ ackq[s] \in Seq(Send)
  BY DEF PlacesInv, TypeOK
<1>2. /\ acks[s] # <<>> /\ UNCHANGED <<rreq, line, unexp>>
      /\ \/ UNCHANGED sreq
         \/ \E i \in 1..Len(ackq[s]) : sreq' = [sreq EXCEPT ![ackq[s][i]] = AckDone(@, Head(acks[s]))]
  BY <1>1, RecvAckCases
<1>3. PICK a \in Acks : a = Head(acks[s])
  BY <1>1, <1>2
<1>4. CASE UNCHANGED sreq
  <2>1. \A x \in Send : On(x)' = On(x) /\ Un(x)' = Un(x) /\ Taken(x)' = Taken(x)
    BY <1>2, PlacesSame
  <2>2. \A x \in Send : Fate(x)' = Fate(x)
    BY <1>4, <2>1, FateSame
  <2>3. \A x \in Send : SendView(x)' = SendView(x)
    BY <1>4, <2>2, ViewSame
  <2> QED
    BY <1>2, <2>3, RecvViewsSame DEF Seen, SendViews
<1>5. ASSUME NEW i \in 1..Len(ackq[s]), sreq' = [sreq EXCEPT ![ackq[s][i]] = AckDone(@, a)]
      PROVE  Seen
  <2>1. PICK m \in Send : m = ackq[s][i]
    BY <1>1
  <2>2. sreq[m] \in SendRec
    BY <1>1
  <2>3. PICK c \in SendRec : c = AckDone(sreq[m], a) /\ c.type = sreq[m].type /\ c.env = sreq[m].env
                                /\ c.out = sreq[m].out /\ c.asked = sreq[m].asked
    BY <2>2, AckDoneFacts
  <2>4. sreq' = [sreq EXCEPT ![m] = c]
    BY <1>5, <2>1, <2>3
  <2> QED
    BY <1>2, <2>3, <2>4, AckedSeen
<1> QED
  BY <1>2, <1>3, <1>4, <1>5

(* What MPI_Wait reports is what has become of the message. *)
LEMMA WaitSendSeen ==
    ASSUME PlacesInv, DeviceInv, NEW m \in Send, WaitSend(m)
    PROVE  Seen
<1>1. sreq \in [Send -> SendRec] /\ sreq[m].type \in DataTypes \cup {"none"}
  BY DEF PlacesInv, TypeOK, SendRec
<1>2. sreq[m].type # "none" /\ sreq[m].cc = 0 /\ sreq[m].out = "none" /\ UNCHANGED <<rreq, line, unexp>>
  BY DEF WaitSend
<1>3. PICK o : o = (IF sreq[m].bit THEN "cancelled" ELSE "done")
  OBVIOUS
<1>4. sreq' = [sreq EXCEPT ![m].out = o]
  BY <1>3 DEF WaitSend
<1>5. /\ \A x \in Send : x # m => sreq'[x] = sreq[x]
      /\ sreq'[m].type = sreq[m].type /\ sreq'[m].env = sreq[m].env
      /\ sreq'[m].out = o /\ sreq'[m].asked = sreq[m].asked
  BY <1>1, <1>4, Zenon DEF SendRec
<1>6. SendViews' = [SendViews EXCEPT ![m].out = o]
  BY <1>2, <1>5, PlacesSame, OneRequest
<1>7. Count(m) /\ NotLost(m)
  BY DEF DeviceInv, CountInv, PlacesInv, LossInv
<1>8. /\ Fate(m) # "none" /\ (sreq[m].bit <=> Fate(m) = "cancelled")
      /\ sreq[m].type = Sync => Fate(m) # "pending"
  <2>1. CASE sreq[m].bit
    BY <1>2, <1>7, <2>1, FateIs DEF Count
  <2>2. CASE ~sreq[m].bit
    BY <1>1, <1>2, <1>7, <2>2, FateIs DEF Count, NotLost, DataTypes, Sync
  <2> QED
    BY <2>1, <2>2
<1>9. /\ SendViews[m].fate = Fate(m) /\ SendViews[m].out = "none"
      /\ SendViews[m].sync = (sreq[m].type = Sync)
  BY <1>2 DEF SendViews, SendView, Sync
<1>10. o = IF SendViews[m].fate = "cancelled" THEN "cancelled" ELSE "done"
  BY <1>3, <1>8, <1>9
<1>11. Messages!Next
  BY <1>2, <1>6, <1>8, <1>9, <1>10, MapReport, RecvViewsSame, Zenon
<1> QED
  BY <1>11 DEF Seen

(* A send begins, as the abstract specification sees it. *)
LEMMA SendtypeSeen ==
    ASSUME PlacesInv, NEW m \in Send, NEW e \in Env, NEW type \in DataTypes, Sendtype(m, e, type)
    PROVE  Seen
<1>1. /\ ~On(m) /\ ~Un(m) /\ ~Taken(m) /\ On(m)'
      /\ \A x \in Send : x # m => On(x)' = On(x)
      /\ \A x \in Send : Un(x)' = Un(x) /\ Taken(x)' = Taken(x)
  BY SendtypePlaces
<1>2. /\ sreq[m].type = "none" /\ UNCHANGED rreq
      /\ \A x \in Send : SrcOf[x] = SrcOf[m] /\ x < m => sreq[x].type # "none"
      /\ sreq' = [sreq EXCEPT ![m] = [type |-> type, env |-> e, pio |-> "posted", cc |-> 1,
                                      bit |-> FALSE, asked |-> FALSE, out |-> "none"]]
  BY DEF Sendtype
<1>3. /\ \A x \in Send : x # m => sreq'[x] = sreq[x]
      /\ sreq'[m] = [type |-> type, env |-> e, pio |-> "posted", cc |-> 1,
                     bit |-> FALSE, asked |-> FALSE, out |-> "none"]
  BY <1>2 DEF PlacesInv, TypeOK
<1>4. \A x \in Send : x # m => Fate(x)' = Fate(x)
  BY <1>1, <1>3, FateSame
<1>5. \A x \in Send : x # m => SendView(x)' = SendView(x)
  BY <1>3, <1>4, ViewSame
<1>6. PICK sync \in BOOLEAN : sync = (type = "DATA_REQUEST_ACK")
  OBVIOUS
<1>7. sreq'[m].type # "none"
  BY <1>3 DEF DataTypes
<1>8. ~Taken(m)'
  BY <1>1
<1>9. Fate(m)' = "pending"
  BY <1>1, <1>7, <1>8, FateNext
<1>10. SendView(m)' = [fate |-> "pending", sync |-> sync, asked |-> FALSE, out |-> "none", env |-> e]
  BY <1>3, <1>6, <1>9 DEF SendView
<1>11. SendViews' = [SendViews EXCEPT ![m] = [fate |-> "pending", sync |-> sync, asked |-> FALSE,
                                              out |-> "none", env |-> e]]
  BY <1>5, <1>10, SendViewStep
<1>12. /\ SendViews[m].fate = "none"
       /\ \A x \in Send : SrcOf[x] = SrcOf[m] /\ x < m => SendViews[x].fate # "none"
  BY <1>2, FateIs DEF SendViews, SendView
<1>13. Messages!Next
  BY <1>2, <1>11, <1>12, MapPostSend, RecvViewsSame
<1> QED
  BY <1>13 DEF Seen

(* MPI_Cancel takes a message back that pscom has not started. *)
LEMMA TakeBackSeen ==
    ASSUME PlacesInv, NEW m \in Send, Cancel_send(m), sreq[m].pio = "posted"
    PROVE  Seen
<1>1. /\ On(m) /\ ~Un(m) /\ ~Taken(m) /\ ~On(m)' /\ UNCHANGED rreq
      /\ \A x \in Send : x # m => On(x)' = On(x)
      /\ \A x \in Send : Un(x)' = Un(x) /\ Taken(x)' = Taken(x)
      /\ \A x \in Send : x # m => sreq'[x] = sreq[x]
      /\ sreq'[m].asked = TRUE /\ sreq'[m].type = sreq[m].type
      /\ sreq'[m].env = sreq[m].env /\ sreq'[m].out = sreq[m].out
  BY TakeBackPlaces
<1>2. sreq[m].type # "none" /\ sreq[m].out = "none" /\ ~sreq[m].asked
  BY DEF Cancel_send
<1>3. \A x \in Send : x # m => Fate(x)' = Fate(x)
  BY <1>1, FateSame
<1>4. \A x \in Send : x # m => SendView(x)' = SendView(x)
  BY <1>1, <1>3, ViewSame
<1>5. Fate(m) = "pending" /\ Fate(m)' = "cancelled"
  <2>1. ~Taken(m)' /\ ~Un(m)' /\ sreq'[m].type # "none"
    BY <1>1, <1>2
  <2> QED
    BY <1>1, <1>2, <2>1, FateIs, FateNext
<1>6. SendView(m)' = [[SendView(m) EXCEPT !.asked = TRUE] EXCEPT !.fate = "cancelled"]
  <2> DEFINE v == [SendView(m) EXCEPT !.asked = sreq'[m].asked]
  <2>1. v = [fate |-> Fate(m), sync |-> sreq'[m].type = "DATA_REQUEST_ACK",
             asked |-> sreq'[m].asked, out |-> sreq'[m].out, env |-> sreq'[m].env]
    BY <1>1 DEF SendView
  <2> HIDE DEF v
  <2>2. SendView(m)' = [v EXCEPT !.fate = Fate(m)']
    BY <2>1 DEF SendView
  <2> QED
    BY <1>1, <1>5, <2>2, Zenon DEF v
<1>7. SendViews' = [SendViews EXCEPT ![m] = SendView(m)']
  BY <1>4, SendViewStep
<1>8. SendViews[m] = SendView(m)
  BY DEF SendViews
<1>9. SendViews' = [SendViews EXCEPT ![m] = [[SendViews[m] EXCEPT !.asked = TRUE]
                                                  EXCEPT !.fate = "cancelled"]]
  BY <1>6, <1>7, <1>8, Zenon
<1>10. SendViews' = [SendViews EXCEPT ![m].asked = TRUE, ![m].fate = "cancelled"]
  BY <1>9, Zenon DEF SendViews
<1>11. SendViews[m].fate = "pending" /\ ~SendViews[m].asked /\ SendViews[m].out = "none"
  BY <1>2, <1>5, <1>8 DEF SendView
<1>12. SendViews[m].fate # "none"
  BY <1>11
<1>13. Messages!Next
  BY <1>1, <1>10, <1>11, <1>12, MapAskCancel, RecvViewsSame, Zenon
<1> QED
  BY <1>13 DEF Seen

(* MPI_Cancel of a message that is gone only asks. *)
LEMMA AskSeen ==
    ASSUME PlacesInv, NEW m \in Send, Cancel_send(m), sreq[m].pio # "posted"
    PROVE  Seen
<1>1. /\ \A x \in Send : On(x)' = On(x) /\ Un(x)' = Un(x) /\ Taken(x)' = Taken(x)
      /\ \A x \in Send : x # m => sreq'[x] = sreq[x]
      /\ sreq' = [sreq EXCEPT ![m].asked = TRUE] /\ sreq'[m].asked = TRUE /\ UNCHANGED rreq
  BY AskPlaces
<1>2. sreq[m].type # "none" /\ sreq[m].out = "none" /\ ~sreq[m].asked
  BY DEF Cancel_send
<1>3. sreq \in [Send -> SendRec]
  BY DEF PlacesInv, TypeOK
<1>4. sreq'[m].type = sreq[m].type /\ sreq'[m].env = sreq[m].env /\ sreq'[m].out = sreq[m].out
  <2>1. sreq'[m] = [sreq[m] EXCEPT !.asked = TRUE] /\ sreq[m] \in SendRec
    BY <1>1, <1>3, Zenon
  <2> QED
    BY <2>1 DEF SendRec
<1>5. SendViews' = [SendViews EXCEPT ![m].asked = sreq'[m].asked]
  BY <1>1, <1>4, OneRequest
<1>6. SendViews' = [SendViews EXCEPT ![m].asked = TRUE]
  BY <1>1, <1>5, Zenon
<1>7. SendViews[m].fate # "none" /\ ~SendViews[m].asked /\ SendViews[m].out = "none"
  BY <1>2, FateIs DEF SendViews, SendView
<1>8. Messages!Next
  BY <1>1, <1>6, <1>7, MapAskCancel, RecvViewsSame, Zenon
<1> QED
  BY <1>8 DEF Seen

-----------------------------------------------------------------------------
(* A message that no receive accepts arrives, as the abstract specification sees it. *)
LEMMA RecvUnexpSeen ==
    ASSUME PlacesInv, NEW s \in Sender, RecvData(s),
           unexp' = Append(unexp, Head(line[s])), UNCHANGED <<rreq, posted>>,
           \A i \in 1..Len(posted) : ~AcceptData(rreq[posted[i]].sel, Head(line[s]))
    PROVE  Seen
<1>1. PICK m \in Send :
         /\ On(m) /\ ~On(m)' /\ ~Un(m) /\ Un(m)' /\ ~Taken(m) /\ ~Taken(m)'
         /\ \A x \in Send : x # m => On(x)' = On(x) /\ Un(x)' = Un(x)
         /\ \A x \in Send : Taken(x)' = Taken(x)
  BY RecvUnexpPlaces
<1>2. UNCHANGED sreq
  BY DEF RecvData
<1>3. Fate(m) = "pending" /\ sreq[m].type # "none"
  BY <1>1, FateIs
<1>4. Fate(m)' = "pending"
  <2>1. sreq'[m].type # "none"
    BY <1>2, <1>3
  <2> QED
    BY <1>1, <2>1, FateNext
<1>5. SendViews' = SendViews
  BY <1>1, <1>2, <1>3, <1>4, OneFate
<1> QED
  BY <1>5, RecvViewsSame DEF Seen

(* A cancel arrives after its message was taken, as the abstract specification sees it. *)
LEMMA CancelMissSeen ==
    ASSUME PlacesInv, NEW s \in Sender, RecvCancel(s), UNCHANGED <<unexp, acks>>
    PROVE  Seen
<1>1. \A x \in Send : On(x)' = On(x) /\ Un(x)' = Un(x) /\ Taken(x)' = Taken(x)
  BY CancelMissPlaces
<1>2. UNCHANGED <<sreq, rreq>>
  BY DEF RecvCancel
<1>3. \A x \in Send : Fate(x)' = Fate(x)
  BY <1>1, <1>2, FateSame
<1>4. \A x \in Send : SendView(x)' = SendView(x)
  BY <1>2, <1>3, ViewSame
<1> QED
  BY <1>2, <1>4, RecvViewsSame DEF Seen, SendViews

(* The receiver eats the message: its cancel was asked for. *)
LEMMA CancelHitSeen ==
    ASSUME PlacesInv, DeviceInv, NEW s \in Sender, RecvCancel(s), NEW i \in 1..Len(unexp),
           AcceptCancel(Head(line[s]), unexp[i]), unexp' = RemoveAt(unexp, i),
           acks' = [acks EXCEPT ![s] = Append(@, [type |-> "CANCEL_DATA_ACK", id |-> unexp[i].id])]
    PROVE  Seen
<1>1. PICK m \in Send :
         /\ m = unexp[i].id /\ sreq[m].type = Sync
         /\ Un(m) /\ ~Un(m)' /\ ~On(m) /\ ~Taken(m)
         /\ \A x \in Send : x # m => Un(x)' = Un(x)
         /\ \A x \in Send : On(x)' = On(x) /\ Taken(x)' = Taken(x)
  BY CancelHitPlaces
<1>2. UNCHANGED <<sreq, rreq>>
  BY DEF RecvCancel
<1>3. sreq[m].asked
  BY <1>1, CancelHitDevice
<1>4. Fate(m) = "pending"
  BY <1>1, FateIs
<1>5. Fate(m)' = "cancelled"
  <2>1. sreq'[m].type # "none" /\ ~On(m)' /\ ~Taken(m)'
    BY <1>1, <1>2 DEF Sync
  <2> QED
    BY <1>1, <2>1, FateNext
<1>6. SendViews' = [SendViews EXCEPT ![m].fate = Fate(m)']
  BY <1>1, <1>2, OneFate
<1>7. SendViews' = [SendViews EXCEPT ![m].fate = "cancelled"]
  BY <1>5, <1>6, Zenon
<1>8. SendViews[m].asked /\ SendViews[m].fate = "pending"
  BY <1>3, <1>4 DEF SendViews, SendView
<1>9. RecvViews' = RecvViews
  BY <1>2, RecvViewsSame
<1>10. Messages!Next
  BY <1>7, <1>8, <1>9, MapWithdraw, Zenon
<1> QED
  BY <1>10 DEF Seen

(* A pending message in the list of unexpected ones has a data type: a probe    *)
(* has not reserved it.                                                         *)
LEMMA PendingUnexp ==
    ASSUME PlacesInv, NEW sel, NEW x \in Send, Candidate(sel, x), Un(x)
    PROVE  \E k \in 1..Len(unexp) : unexp[k].id = x /\ AcceptData(sel, unexp[k])
<1>1. /\ unexp \in Seq(Headers) /\ UnexpInv
      /\ \A k \in 1..Len(unexp) : unexp[k] \in Headers
  BY TypeFacts DEF PlacesInv
<1>2. Fate(x) = "pending" /\ SrcOf[x] \in sel.srcs /\ sreq[x].env \in sel.envs
  BY DEF Candidate, SendViews, SendView
<1>3. ~Taken(x)
  BY <1>2, FateIs
<1>4. PICK k \in 1..Len(unexp) : unexp[k].id = x /\ IsData(unexp[k])
  BY <1>1, InSeqMeans DEF Un
<1>5. UnexpEntry(unexp[k])
  BY <1>1 DEF UnexpInv
<1>6. unexp[k].type \notin Reserved
  BY <1>3, <1>4, <1>5 DEF UnexpEntry, Taken
<1>7. unexp[k].type \in DataTypes
  BY <1>1, <1>4, <1>6 DEF IsData, Headers
<1> QED
  BY <1>2, <1>4, <1>7 DEF AcceptData

(* The first message of the list that a receive accepts is the oldest of its    *)
(* sender that the receive may take.                                            *)
LEMMA FirstFound ==
    ASSUME PlacesInv, NEW sel, NEW i \in 1..Len(unexp), AcceptData(sel, unexp[i]),
           \A k \in 1..Len(unexp) : k < i => ~AcceptData(sel, unexp[k]),
           NEW m \in Send, m = unexp[i].id, Un(m), ~Taken(m)
    PROVE  /\ Candidate(sel, m)
           /\ \A x \in Send : SrcOf[x] = SrcOf[m] /\ x < m => ~Candidate(sel, x)
<1>1. OrderInv /\ Len(unexp) \in Nat /\ Send \subseteq Nat /\ UnexpInv
  BY TypeFacts DEF PlacesInv
<1>2. Fate(m) = "pending"
  BY FateIs
<1>3. Candidate(sel, m)
  BY <1>2 DEF Candidate, SendViews, SendView, AcceptData
<1>4. ASSUME NEW x \in Send, SrcOf[x] = SrcOf[m], x < m, Candidate(sel, x)
      PROVE  FALSE
  <2>1. Fate(x) = "pending"
    BY <1>4 DEF Candidate, SendViews, SendView
  <2>2. On(x) \/ Un(x)
    BY <2>1, FateIs
  <2>3. ~On(x)
    <3>1. On(x) => m < x
      BY <1>1, <1>4 DEF OrderInv
    <3> QED
      BY <1>1, <1>4, <3>1
  <2>4. PICK k \in 1..Len(unexp) : unexp[k].id = x /\ AcceptData(sel, unexp[k])
    BY <1>4, <2>2, <2>3, PendingUnexp
  <2>5. i < k
    BY <1>1, <1>4, <2>4
  <2>6. IsData(unexp[i]) /\ IsData(unexp[k])
    BY <1>1 DEF UnexpInv, UnexpEntry
  <2>7. m < x
    BY <1>1, <1>4, <2>4, <2>5, <2>6 DEF OrderInv, Ordered
  <2> QED
    BY <1>1, <1>4, <2>7
<1> QED
  BY <1>3, <1>4

(* A receive is posted, as the abstract specification sees it. *)
LEMMA PostSeen ==
    ASSUME PlacesInv, NEW r \in Recv, NEW sel \in Sels, Irecv(r, sel),
           rreq' = [rreq EXCEPT ![r] = Posting(sel)], posted' = Append(posted, r),
           UNCHANGED unexp, \A i \in 1..Len(unexp) : ~AcceptData(sel, unexp[i])
    PROVE  Seen
<1>1. /\ \A x \in Send : On(x)' = On(x) /\ Un(x)' = Un(x) /\ Taken(x)' = Taken(x)
  BY PostPlaces
<1>2. UNCHANGED sreq /\ rreq[r].st = "none" /\ \A x \in Recv : x < r => rreq[x].st # "none"
  BY DEF Irecv
<1>3. \A x \in Send : Fate(x)' = Fate(x)
  BY <1>1, <1>2, FateSame
<1>4. \A x \in Send : SendView(x)' = SendView(x)
  BY <1>2, <1>3, ViewSame
<1>5. SendViews' = SendViews
  BY <1>4 DEF SendViews
<1>6. rreq'[r] = Posting(sel) /\ \A x \in Recv : x # r => rreq'[x] = rreq[x]
  BY DEF PlacesInv, TypeOK
<1>7. RecvView(r)' = [st |-> "posted", sel |-> sel, msg |-> {}]
  <2>1. rreq'[r].st = "posted" /\ rreq'[r].sel = sel /\ rreq'[r].msg = {}
    BY <1>6 DEF Posting
  <2> QED
    BY <2>1 DEF RecvView
<1>8. RecvViews' = [RecvViews EXCEPT ![r] = [st |-> "posted", sel |-> sel, msg |-> {}]]
  BY <1>6, <1>7, RecvViewStep
<1>9. RecvViews[r].st = "none" /\ \A x \in Recv : x < r => RecvViews[x].st # "none"
  BY <1>2 DEF RecvViews, RecvView
<1>10. Messages!Next
  BY <1>5, <1>8, <1>9, MapPostRecv, Zenon
<1> QED
  BY <1>10 DEF Seen

(* A receive or a matched probe that finds its message at once. *)
LEMMA FoundSeen ==
    ASSUME PlacesInv, UNCHANGED sreq, NEW r \in Recv, NEW sel \in Sels, rreq[r].st = "none",
           \A x \in Recv : x < r => rreq[x].st # "none",
           NEW m \in Send, Candidate(sel, m),
           \A x \in Send : SrcOf[x] = SrcOf[m] /\ x < m => ~Candidate(sel, x),
           \A x \in Send : x # m => On(x)' = On(x) /\ Un(x)' = Un(x) /\ Taken(x)' = Taken(x),
           Taken(m)', rreq'[r].st \in {"message", "matched"}, rreq'[r].msg = {m}, rreq'[r].sel = sel,
           \A x \in Recv : x # r => rreq'[x] = rreq[x]
    PROVE  Seen
<1>1. Fate(m) = "pending"
  BY DEF Candidate, SendViews, SendView
<1>2. Fate(m)' = "matched"
  <2>1. sreq'[m].type # "none"
    BY <1>1, FateIs
  <2> QED
    BY <2>1, FateNext
<1>3. SendViews' = [SendViews EXCEPT ![m].fate = Fate(m)']
  BY OneFate
<1>4. SendViews' = [SendViews EXCEPT ![m].fate = "matched"]
  BY <1>2, <1>3, Zenon
<1>5. RecvView(r)' = [st |-> "matched", sel |-> sel, msg |-> {m}]
  BY DEF RecvView
<1>6. RecvViews' = [RecvViews EXCEPT ![r] = [st |-> "matched", sel |-> sel, msg |-> {m}]]
  BY <1>5, RecvViewStep
<1>7. RecvViews[r].st = "none" /\ \A x \in Recv : x < r => RecvViews[x].st # "none"
  BY DEF RecvViews, RecvView
<1>8. Messages!Next
  BY <1>4, <1>6, <1>7, MapRecvNow, Zenon
<1> QED
  BY <1>8 DEF Seen

(* A receive takes an unexpected message, as the abstract specification sees it. *)
LEMMA IrecvMatchSeen ==
    ASSUME PlacesInv, NEW r \in Recv, NEW sel \in Sels, Irecv(r, sel),
           NEW i \in 1..Len(unexp), AcceptData(sel, unexp[i]),
           \A k \in 1..Len(unexp) : k < i => ~AcceptData(sel, unexp[k]),
           rreq' = [rreq EXCEPT ![r] = Matched(Posting(sel), unexp[i])],
           unexp' = RemoveAt(unexp, i), UNCHANGED posted
    PROVE  Seen
<1>1. PICK m \in Send :
         /\ PlacesInv' /\ m = unexp[i].id
         /\ Un(m) /\ ~Un(m)' /\ ~On(m) /\ ~Taken(m) /\ Taken(m)'
         /\ \A x \in Send : x # m => Un(x)' = Un(x) /\ Taken(x)' = Taken(x)
         /\ \A x \in Send : On(x)' = On(x)
         /\ rreq[r].msg = {} /\ rreq'[r].st = "matched" /\ rreq'[r].msg = {m}
         /\ rreq'[r].sel = sel /\ \A x \in Recv : x # r => rreq'[x] = rreq[x]
  BY IrecvMatchPlaces, Zenon
<1>2. UNCHANGED sreq /\ rreq[r].st = "none" /\ \A x \in Recv : x < r => rreq[x].st # "none"
  BY DEF Irecv
<1>3. /\ Candidate(sel, m)
      /\ \A x \in Send : SrcOf[x] = SrcOf[m] /\ x < m => ~Candidate(sel, x)
  BY <1>1, FirstFound
<1> QED
  BY <1>1, <1>2, <1>3, FoundSeen

(* MPI_Improbe reserves a message, as the abstract specification sees it. *)
LEMMA ImprobeSeen ==
    ASSUME PlacesInv, NEW r \in Recv, NEW sel \in Sels, Improbe(r, sel)
    PROVE  Seen
<1>1. /\ TypeOK
  BY DEF PlacesInv
<1>2. /\ rreq[r].st = "none" /\ \A x \in Recv : x < r => rreq[x].st # "none"
      /\ UNCHANGED sreq
  BY <1>1, ImprobeCases
<1>3. PICK i \in 1..Len(unexp), t \in Reserved :
         /\ AcceptData(sel, unexp[i])
         /\ \A k \in 1..Len(unexp) : k < i => ~AcceptData(sel, unexp[k])
         /\ Restored(t) = unexp[i].type
         /\ unexp' = [unexp EXCEPT ![i] = [id |-> unexp[i].id, type |-> t]]
         /\ rreq' = [rreq EXCEPT ![r] = [st |-> "message", sel |-> sel,
                                         type |-> t, msg |-> {unexp[i].id}]]
  BY <1>1, ImprobeCases
<1>4. PICK m \in Send :
         /\ PlacesInv' /\ m = unexp[i].id /\ Un(m) /\ ~On(m) /\ ~Taken(m) /\ Taken(m)'
         /\ \A x \in Send : x # m => Taken(x)' = Taken(x)
         /\ \A x \in Send : On(x)' = On(x) /\ Un(x)' = Un(x)
         /\ rreq[r].msg = {} /\ rreq'[r].st = "message" /\ rreq'[r].msg = {m}
         /\ rreq'[r].sel = sel /\ \A x \in Recv : x # r => rreq'[x] = rreq[x]
  BY <1>3, ImprobePlaces, ZenonT(60)
<1>5. /\ Candidate(sel, m)
      /\ \A x \in Send : SrcOf[x] = SrcOf[m] /\ x < m => ~Candidate(sel, x)
  BY <1>3, <1>4, FirstFound
<1> QED
  BY <1>2, <1>4, <1>5, FoundSeen

(* MPI_Imrecv takes the reserved message, as the abstract specification sees it. *)
LEMMA ImrecvSeen ==
    ASSUME PlacesInv, NEW r \in Recv, Imrecv(r)
    PROVE  Seen
<1>1. PICK m \in Send :
         /\ rreq[r].msg = {m} /\ \A x \in Send : x # m => Un(x)' = Un(x)
         /\ \A x \in Send : On(x)' = On(x) /\ Taken(x)' = Taken(x)
         /\ rreq[r].st = "message" /\ rreq'[r].st = "matched" /\ rreq'[r].msg = {m}
         /\ rreq'[r].sel = rreq[r].sel /\ \A x \in Recv : x # r => rreq'[x] = rreq[x]
         /\ UNCHANGED sreq /\ Un(m)
  BY ImrecvPlaces
<1>2. Taken(m) /\ sreq[m].type # "none"
  BY <1>1, FateIs DEF Taken
<1>3. Fate(m) = "matched"
  BY <1>2, FateIs
<1>4. Fate(m)' = "matched"
  <2>1. sreq'[m].type # "none" /\ Taken(m)'
    BY <1>1, <1>2
  <2> QED
    BY <2>1, FateNext
<1>5. SendViews' = SendViews
  BY <1>1, <1>3, <1>4, OneFate
<1>6. RecvView(r)' = RecvView(r)
  BY <1>1 DEF RecvView
<1>7. RecvViews' = RecvViews
  BY <1>1, <1>6, RecvViewStep
<1> QED
  BY <1>5, <1>7 DEF Seen

(* A receive ends. *)
LEMMA EndsSeen ==
    ASSUME NEW r \in Recv, UNCHANGED sreq,
           \/ rreq[r].st = "matched" /\ rreq'[r].st = "done"
           \/ rreq[r].st = "posted" /\ rreq'[r].st = "cancelled",
           rreq'[r].msg = rreq[r].msg, rreq'[r].sel = rreq[r].sel,
           \A x \in Recv : x # r => rreq'[x] = rreq[x],
           \A x \in Send : On(x)' = On(x) /\ Un(x)' = Un(x) /\ Taken(x)' = Taken(x)
    PROVE  Seen
<1>1. \A x \in Send : Fate(x)' = Fate(x)
  BY FateSame
<1>2. \A x \in Send : SendView(x)' = SendView(x)
  BY <1>1, ViewSame
<1>3. SendViews' = SendViews
  BY <1>2 DEF SendViews
<1>4. RecvView(r)' = [RecvView(r) EXCEPT !.st = rreq'[r].st]
  BY DEF RecvView
<1>5. RecvViews' = [RecvViews EXCEPT ![r] = RecvView(r)']
  BY RecvViewStep
<1>6. RecvViews[r] = RecvView(r) /\ RecvViews[r].st = rreq[r].st
  BY DEF RecvViews, RecvView
<1>7. RecvViews' = [RecvViews EXCEPT ![r] = [RecvViews[r] EXCEPT !.st = rreq'[r].st]]
  BY <1>4, <1>5, <1>6, Zenon
<1>8. RecvViews' = [RecvViews EXCEPT ![r].st = rreq'[r].st]
  BY <1>7, Field, Zenon
<1>9. \/ RecvViews[r].st = "matched" /\ RecvViews' = [RecvViews EXCEPT ![r].st = "done"]
      \/ RecvViews[r].st = "posted" /\ RecvViews' = [RecvViews EXCEPT ![r].st = "cancelled"]
  BY <1>6, <1>8, Zenon
<1>10. Messages!Next
  BY <1>3, <1>9, MapFinishRecv, Zenon
<1> QED
  BY <1>10 DEF Seen

(* A receive is complete, as the abstract specification sees it. *)
LEMMA RecvDoneSeen ==
    ASSUME PlacesInv, NEW r \in Recv, RecvDone(r)
    PROVE  Seen
<1>1. PICK m \in Send :
         /\ rreq[r].st = "matched" /\ rreq'[r].st = "done"
         /\ rreq[r].msg = {m} /\ rreq'[r].msg = {m}
         /\ rreq'[r].sel = rreq[r].sel /\ \A x \in Recv : x # r => rreq'[x] = rreq[x]
         /\ \A x \in Send : On(x)' = On(x) /\ Un(x)' = Un(x) /\ Taken(x)' = Taken(x)
         /\ UNCHANGED sreq
  BY RecvDonePlaces
<1> QED
  BY <1>1, EndsSeen

(* A receive is cancelled, as the abstract specification sees it. *)
LEMMA CancelRecvSeen ==
    ASSUME PlacesInv, NEW r \in Recv, Cancel_recv(r)
    PROVE  Seen
<1>1. /\ rreq[r].st = "posted" /\ rreq'[r].st = "cancelled" /\ rreq'[r].msg = rreq[r].msg
      /\ rreq'[r].sel = rreq[r].sel /\ \A x \in Recv : x # r => rreq'[x] = rreq[x]
      /\ \A x \in Send : On(x)' = On(x) /\ Un(x)' = Un(x) /\ Taken(x)' = Taken(x)
      /\ UNCHANGED sreq
  BY CancelRecvPlaces
<1> QED
  BY <1>1, EndsSeen

(* A message that arrives goes to the oldest receive that accepts it, and it is *)
(* the oldest of its sender that this receive may take.                         *)
LEMMA RecvMatchSeen ==
    ASSUME PlacesInv, NEW s \in Sender, RecvData(s), NEW i \in 1..Len(posted),
           AcceptData(rreq[posted[i]].sel, Head(line[s])),
           \A k \in 1..Len(posted) : k < i => ~AcceptData(rreq[posted[k]].sel, Head(line[s])),
           rreq' = [rreq EXCEPT ![posted[i]] = Matched(@, Head(line[s]))],
           posted' = RemoveAt(posted, i), UNCHANGED unexp
    PROVE  Seen
<1>1. /\ TypeOK /\ LineInv /\ PostedInv /\ Send \subseteq Nat /\ Recv \subseteq Nat
      /\ Len(posted) \in Nat /\ \A k \in 1..Len(posted) : posted[k] \in Recv
  BY TypeFacts DEF PlacesInv
<1>2. PICK m \in Send :
         /\ PlacesInv' /\ On(m) /\ ~On(m)' /\ ~Un(m) /\ ~Taken(m) /\ Taken(m)' /\ m = Head(line[s]).id
         /\ \A x \in Send : x # m => On(x)' = On(x) /\ Taken(x)' = Taken(x)
         /\ \A x \in Send : Un(x)' = Un(x)
         /\ rreq[posted[i]].st = "posted"
         /\ rreq'[posted[i]].st = "matched" /\ rreq'[posted[i]].msg = {m}
         /\ rreq'[posted[i]].sel = rreq[posted[i]].sel
         /\ \A x \in Recv : x # posted[i] => rreq'[x] = rreq[x]
  BY RecvMatchPlaces, Zenon
<1>3. PICK r \in Recv : r = posted[i]
  BY <1>1
<1>4. /\ rreq[r].st = "posted" /\ rreq'[r].st = "matched" /\ rreq'[r].msg = {m}
      /\ rreq'[r].sel = rreq[r].sel /\ \A x \in Recv : x # r => rreq'[x] = rreq[x]
  BY <1>2, <1>3
<1>5. /\ line[s] # <<>> /\ IsData(Head(line[s])) /\ UNCHANGED sreq
      /\ line' = [line EXCEPT ![s] = Tail(@)]
  BY <1>1, RecvDataCases
<1>6. PICK h \in Headers :
         /\ h = Head(line[s]) /\ LineEntry(s, h)
         /\ IsData(h) => \A x \in Send : SrcOf[x] = s /\ On(x)' => h.id < x
  BY <1>1, <1>5, HeadLeaves
<1>7. SrcOf[m] = s /\ IsData(h) /\ h.id = m
  BY <1>2, <1>5, <1>6 DEF LineEntry
<1>8. Fate(m) = "pending"
  BY <1>2, FateIs
<1>9. /\ SendViews[m].fate = "pending" /\ SendViews[m].env = sreq[m].env
      /\ RecvViews[r].sel = rreq[r].sel /\ RecvViews[r].st = "posted"
  BY <1>4, <1>8 DEF SendViews, SendView, RecvViews, RecvView
<1>10. Candidate(RecvViews[r].sel, m)
  <2>1. AcceptData(rreq[r].sel, h)
    BY <1>3, <1>6
  <2> QED
    BY <1>7, <1>9, <2>1 DEF Candidate, AcceptData
<1>11. ASSUME NEW x \in Send, SrcOf[x] = SrcOf[m], x < m, Candidate(RecvViews[r].sel, x)
       PROVE  FALSE
  <2>1. Fate(x) = "pending"
    BY <1>11 DEF Candidate, SendViews, SendView
  <2>2. On(x) \/ Un(x)
    BY <2>1, FateIs
  <2>3. x # m /\ ~(m < x)
    BY <1>1, <1>11
  <2>4. ~On(x)
    <3>1. On(x)' = On(x)
      BY <1>2, <2>3
    <3>2. SrcOf[x] = s
      BY <1>7, <1>11
    <3>3. On(x)' => m < x
      BY <1>6, <1>7, <3>2
    <3> QED
      BY <2>3, <3>1, <3>3
  <2>5. Candidate(rreq[r].sel, x)
    BY <1>9, <1>11
  <2>6. PICK k \in 1..Len(unexp) : unexp[k].id = x /\ AcceptData(rreq[r].sel, unexp[k])
    BY <2>2, <2>4, <2>5, PendingUnexp
  <2> QED
    BY <1>1, <1>4, <2>6 DEF PostedInv
<1>12. ASSUME NEW x \in Recv, RecvViews[x].st = "posted", x < r, Candidate(RecvViews[x].sel, m)
       PROVE  FALSE
  <2>1. rreq[x].st = "posted" /\ RecvViews[x].sel = rreq[x].sel
    BY <1>12 DEF RecvViews, RecvView
  <2>2. PICK k \in 1..Len(posted) : posted[k] = x
    BY <1>1, <2>1 DEF PostedInv
  <2>3. k < i
    <3>1. i < k => r < x
      BY <1>1, <1>3, <2>2 DEF PostedInv
    <3>2. i # k
      BY <1>1, <1>3, <1>12, <2>2
    <3> QED
      BY <1>1, <1>12, <3>1, <3>2
  <2>4. ~AcceptData(rreq[x].sel, h)
    BY <1>6, <2>2, <2>3
  <2>5. AcceptData(rreq[r].sel, h)
    BY <1>3, <1>6
  <2>6. h.type \in DataTypes
    BY <2>5 DEF AcceptData
  <2>7. SrcOf[m] \in rreq[x].sel.srcs /\ sreq[m].env \in rreq[x].sel.envs
    BY <1>9, <1>12, <2>1 DEF Candidate
  <2> QED
    BY <1>7, <2>4, <2>6, <2>7 DEF AcceptData
<1>13. Fate(m)' = "matched"
  <2>1. sreq'[m].type # "none"
    BY <1>5, <1>8, FateIs
  <2> QED
    BY <1>2, <2>1, FateNext
<1>14. SendViews' = [SendViews EXCEPT ![m].fate = Fate(m)']
  BY <1>2, <1>5, OneFate
<1>15. SendViews' = [SendViews EXCEPT ![m].fate = "matched"]
  BY <1>13, <1>14, Zenon
<1>16. RecvViews' = [RecvViews EXCEPT ![r] = RecvView(r)']
  BY <1>4, RecvViewStep
<1>17. RecvView(r)' = [[RecvView(r) EXCEPT !.st = "matched"] EXCEPT !.msg = {m}]
  <2>1. PICK a, b, c, d : /\ a = "matched" /\ b = rreq[r].sel /\ c = rreq[r].msg /\ d = {m}
                          /\ RecvView(r) = [st |-> "posted", sel |-> b, msg |-> c]
                          /\ RecvView(r)' = [st |-> a, sel |-> b, msg |-> d]
    BY <1>4 DEF RecvView
  <2>2. [RecvView(r) EXCEPT !.st = a] = [st |-> a, sel |-> b, msg |-> c]
    BY <2>1
  <2>3. [st |-> a, sel |-> b, msg |-> d] = [[st |-> a, sel |-> b, msg |-> c] EXCEPT !.msg = d]
    OBVIOUS
  <2> QED
    BY <2>1, <2>2, <2>3, Zenon
<1>18. RecvViews[r] = RecvView(r)
  BY DEF RecvViews
<1>19. RecvViews' = [RecvViews EXCEPT ![r] = [[RecvViews[r] EXCEPT !.st = "matched"] EXCEPT !.msg = {m}]]
  BY <1>16, <1>17, <1>18, Zenon
<1>20. RecvViews' = [RecvViews EXCEPT ![r].st = "matched", ![r].msg = {m}]
  BY <1>19, Zenon DEF RecvViews
<1>21. Messages!Next
  BY <1>9, <1>10, <1>11, <1>12, <1>15, <1>20, MapMatch, Zenon
<1> QED
  BY <1>21 DEF Seen

-----------------------------------------------------------------------------
(* Initial states map to initial states. *)
LEMMA InitSeen == Init => Messages!Init
<1> SUFFICES ASSUME Init PROVE Messages!Init
  OBVIOUS
<1>1. SendViews = [m \in Send |-> [fate |-> "none", sync |-> FALSE, asked |-> FALSE,
                                   out |-> "none", env |-> {}]]
  <2>1. ASSUME NEW m \in Send
        PROVE  SendView(m) = [fate |-> "none", sync |-> FALSE, asked |-> FALSE,
                              out |-> "none", env |-> {}]
    <3>1. /\ sreq[m].type = "none" /\ sreq[m].asked = FALSE
          /\ sreq[m].out = "none" /\ sreq[m].env = {}
      BY DEF Init
    <3>2. Fate(m) = "none"
      BY <3>1 DEF Fate
    <3> QED
      BY <3>1, <3>2 DEF SendView
  <2> QED
    BY <2>1, Zenon DEF SendViews
<1>2. RecvViews = [r \in Recv |-> [st |-> "none", sel |-> [srcs |-> {}, envs |-> {}], msg |-> {}]]
  <2>1. ASSUME NEW r \in Recv
        PROVE  RecvView(r) = [st |-> "none", sel |-> [srcs |-> {}, envs |-> {}], msg |-> {}]
    <3>1. rreq[r].st = "none" /\ rreq[r].sel = NoSel /\ rreq[r].msg = {}
      BY DEF Init
    <3> QED
      BY <3>1 DEF RecvView, NoSel
  <2> QED
    BY <2>1, Zenon DEF RecvViews
<1> QED
  BY <1>1, <1>2, Zenon DEF Messages!Init, SendViews, SendView, RecvViews, RecvView

(* Every step maps to a step or a stutter. *)
LEMMA NextSeen == PlacesInv /\ DeviceInv /\ [Next]_vars => Seen
<1> SUFFICES ASSUME PlacesInv, DeviceInv, [Next]_vars PROVE Seen
  OBVIOUS
<1>0. TypeOK
  BY DEF PlacesInv
<1>1. ASSUME NEW s \in Sender, SendStart(s) PROVE Seen
  BY <1>1, SendStartSeen
<1>2. ASSUME NEW s \in Sender, RecvAck(s) PROVE Seen
  BY <1>2, RecvAckSeen
<1>3. ASSUME NEW s \in Sender, RecvData(s) PROVE Seen
  <2>1. \/ /\ unexp' = Append(unexp, Head(line[s])) /\ UNCHANGED <<rreq, posted>>
           /\ \A i \in 1..Len(posted) : ~AcceptData(rreq[posted[i]].sel, Head(line[s]))
        \/ \E i \in 1..Len(posted) :
              /\ AcceptData(rreq[posted[i]].sel, Head(line[s]))
              /\ \A k \in 1..Len(posted) : k < i => ~AcceptData(rreq[posted[k]].sel, Head(line[s]))
              /\ rreq' = [rreq EXCEPT ![posted[i]] = Matched(@, Head(line[s]))]
              /\ posted' = RemoveAt(posted, i) /\ UNCHANGED unexp
    BY <1>0, <1>3, RecvDataCases
  <2> QED
    BY <1>3, <2>1, RecvUnexpSeen, RecvMatchSeen
<1>4. ASSUME NEW s \in Sender, RecvCancel(s) PROVE Seen
  <2>1. \/ UNCHANGED <<unexp, acks>>
        \/ \E i \in 1..Len(unexp) :
              /\ AcceptCancel(Head(line[s]), unexp[i])
              /\ acks' = [acks EXCEPT ![s] =
                            Append(@, [type |-> "CANCEL_DATA_ACK", id |-> unexp[i].id])]
              /\ unexp' = RemoveAt(unexp, i)
    BY <1>0, <1>4, RecvCancelCases
  <2> QED
    BY <1>4, <2>1, CancelMissSeen, CancelHitSeen
<1>5. ASSUME NEW m \in Send, SendDone(m) PROVE Seen
  BY <1>5, SendDoneSeen
<1>6. ASSUME NEW r \in Recv, RecvDone(r) PROVE Seen
  BY <1>6, RecvDoneSeen
<1>7. ASSUME NEW m \in Send, NEW e \in Env, NEW type \in DataTypes, Sendtype(m, e, type)
      PROVE  Seen
  BY <1>7, SendtypeSeen
<1>8. ASSUME NEW m \in Send, Cancel_send(m) PROVE Seen
  BY <1>8, TakeBackSeen, AskSeen
<1>9. ASSUME NEW m \in Send, WaitSend(m) PROVE Seen
  BY <1>9, WaitSendSeen
<1>10. ASSUME NEW r \in Recv, NEW sel \in Sels, Irecv(r, sel) PROVE Seen
  <2>1. \/ /\ rreq' = [rreq EXCEPT ![r] = Posting(sel)]
           /\ posted' = Append(posted, r) /\ UNCHANGED unexp
           /\ \A i \in 1..Len(unexp) : ~AcceptData(sel, unexp[i])
        \/ \E i \in 1..Len(unexp) :
              /\ AcceptData(sel, unexp[i])
              /\ \A k \in 1..Len(unexp) : k < i => ~AcceptData(sel, unexp[k])
              /\ rreq' = [rreq EXCEPT ![r] = Matched(Posting(sel), unexp[i])]
              /\ unexp' = RemoveAt(unexp, i) /\ UNCHANGED posted
    BY <1>0, <1>10, IrecvCases
  <2> QED
    BY <1>10, <2>1, PostSeen, IrecvMatchSeen
<1>11. ASSUME NEW r \in Recv, NEW sel \in Sels, Improbe(r, sel) PROVE Seen
  BY <1>11, ImprobeSeen
<1>12. ASSUME NEW r \in Recv, Imrecv(r) PROVE Seen
  BY <1>12, ImrecvSeen
<1>13. ASSUME NEW r \in Recv, Cancel_recv(r) PROVE Seen
  BY <1>13, CancelRecvSeen
<1>14. CASE UNCHANGED vars
  <2>1. UNCHANGED <<sreq, rreq, line, unexp>>
    BY <1>14 DEF vars
  <2>2. \A x \in Send : On(x)' = On(x) /\ Un(x)' = Un(x) /\ Taken(x)' = Taken(x)
    BY <2>1, PlacesSame
  <2>3. \A x \in Send : Fate(x)' = Fate(x)
    BY <2>1, <2>2, FateSame
  <2>4. \A x \in Send : SendView(x)' = SendView(x)
    BY <2>1, <2>3, ViewSame
  <2> QED
    BY <2>1, <2>4, RecvViewsSame DEF Seen, SendViews
<1> QED
  BY <1>1, <1>2, <1>3, <1>4, <1>5, <1>6, <1>7, <1>8, <1>9, <1>10, <1>11, <1>12, <1>13, <1>14
  DEF Next, Progress

(* The device keeps the promise of MPI's point-to-point communication: messages  *)
(* of one sender are taken in the order they were sent, each at most once and by *)
(* the oldest receive that accepts it; none is lost; one is taken back only if   *)
(* the program has asked for it; and MPI_Wait reports the truth (mpid_isend.c,   *)
(* mpid_irecv.c, mpid_cancel.c, mpid_mprobe.c).                                  *)
THEOREM MessagesRefinement ==
    ASSUME UniqueSync
    PROVE  Spec => MessagesSpec
<1>1. Init => Messages!Init
  BY InitSeen
<1>2. PlacesInv /\ DeviceInv /\ [Next]_vars => [Messages!Next]_(Messages!avars)
  <2>1. Seen => [Messages!Next]_(Messages!avars)
    BY Zenon DEF Seen, Messages!avars, SendViews, RecvViews, SendView, RecvView
  <2> QED
    BY <2>1, NextSeen
<1>3. Spec => [](PlacesInv /\ DeviceInv)
  BY DeviceHolds
<1> QED
  BY <1>1, <1>2, <1>3, PTL DEF Spec, MessagesSpec, Messages!Spec
=============================================================================
