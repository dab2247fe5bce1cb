------------------------- MODULE PartHandshakeProof -------------------------
(***************************************************************************)
(* The clear-to-send handshake is safe when the program separates rounds:  *)
(* HandshakeInv is inductive, so the CTS callback never dereferences a     *)
(* released part_ready array; and CounterInv on top of it, so the          *)
(* completion counters count exactly what is left of a round; and no       *)
(* request is used after it has been freed.  The last part is about the     *)
(* data.                                                                   *)
(***************************************************************************)
EXTENDS PartCommProof

-----------------------------------------------------------------------------
(* The local invariant of a send request *)

(* Issuing sub-requests of a round with CTS keeps the round's accounting.    *)
LEMMA IssueKeepsRound ==
    ASSUME NEW q \in SendRequest, RoundOK(q), q.alloc, q.peer # NULL,
           NEW I \in SUBSET Nat, IsFiniteSet(I), q.ctr + Cardinality(I) <= q.requests
    PROVE  RoundOK(AfterIssue(q, I))
<1> DEFINE c == AfterIssue(q, I)
<1>1. /\ c \in SendRequest /\ c.st = q.st /\ c.round = q.round /\ c.requests = q.requests
      /\ c.cc = q.cc /\ c.out = q.out \cup I
      /\ q.ctr + Cardinality(I) = q.requests => ~c.alloc /\ c.peer = NULL /\ c.ctr = 0
      /\ q.ctr + Cardinality(I) # q.requests
           => c.alloc = q.alloc /\ c.peer = q.peer /\ c.ctr = q.ctr + Cardinality(I)
  BY AfterIssueFacts
<1>2. IsFiniteSet(q.out) /\ IsFiniteSet(q.out \cup I)
  BY FS_Union DEF RoundOK
<1>3. /\ Cardinality(q.out) \in Nat /\ Cardinality(I) \in Nat
      /\ Cardinality(q.out \cup I) \in Nat
      /\ Cardinality(q.out \cup I) <= Cardinality(q.out) + Cardinality(I)
  <2>1. IsFiniteSet(q.out \cap I)
    BY <1>2, FS_Intersection
  <2>2. Cardinality(q.out \cup I)
          = Cardinality(q.out) + Cardinality(I) - Cardinality(q.out \cap I)
    BY <1>2, FS_Union
  <2>3. Cardinality(q.out) \in Nat /\ Cardinality(I) \in Nat /\ Cardinality(q.out \cap I) \in Nat
        /\ Cardinality(q.out \cup I) \in Nat
    BY <1>2, <2>1, FS_CardinalityType
  <2> QED
    BY <2>2, <2>3
<1>4. q.ctr \in Nat /\ q.requests \in Nat /\ q.cc \in Int /\ q.st = "active" /\ q.round > 0
      /\ q.cc >= Cardinality(q.out) + (q.requests - q.ctr)
  BY DEF SendRequest, RoundOK
<1> HIDE DEF c
<1>5. CASE q.ctr + Cardinality(I) = q.requests
  BY <1>1, <1>2, <1>3, <1>4, <1>5 DEF RoundOK, c
<1>6. CASE q.ctr + Cardinality(I) # q.requests
  <2>1. c.alloc /\ c.peer # NULL
    BY <1>1, <1>6
  <2>2. c.ctr = q.ctr + Cardinality(I) /\ c.ctr < c.requests
    BY <1>1, <1>3, <1>4, <1>6
  <2>3. c.cc >= Cardinality(c.out) + (c.requests - c.ctr)
    BY <1>1, <1>3, <1>4, <2>2
  <2>4. c.st = "active" /\ c.round > 0 /\ IsFiniteSet(c.out)
    BY <1>1, <1>2, <1>4
  <2>5. RoundOK(c)
    BY <2>1, <2>2, <2>3, <2>4 DEF RoundOK
  <2> QED
    BY <2>5 DEF c
<1> QED
  BY <1>5, <1>6

(* There are n sub-requests below n. *)
LEMMA SubsCard ==
    ASSUME NEW n \in Nat
    PROVE  Cardinality(0..(n - 1)) = n
BY FS_Interval

(* A set of sub-requests is finite and has at most as many members as there are numbers below n. *)
LEMMA SubsetCard ==
    ASSUME NEW n \in Nat, NEW I \in SUBSET (0..(n - 1))
    PROVE  IsFiniteSet(I) /\ Cardinality(I) \in Nat /\ Cardinality(I) <= n
<1>1. IsFiniteSet(0..(n - 1)) /\ Cardinality(0..(n - 1)) = n
  BY FS_Interval
<1> QED
  BY <1>1, FS_Subset, FS_CardinalityType

(* Nothing is outstanding at a counter of zero. *)
LEMMA NothingOutstanding ==
    ASSUME NEW q \in SendRequest, RoundOK(q), q.cc = 0
    PROVE  q.out = {} /\ ~q.alloc
<1>1. Cardinality(q.out) \in Nat /\ IsFiniteSet(q.out)
  BY FS_CardinalityType DEF RoundOK
<1>2. q.ctr \in Nat /\ q.requests \in Nat /\ q.alloc \in BOOLEAN
  BY DEF SendRequest
<1>3. ~q.alloc
  BY <1>1, <1>2 DEF RoundOK
<1>4. Cardinality(q.out) = 0
  BY <1>1, <1>3 DEF RoundOK
<1> QED
  BY <1>1, <1>3, <1>4, FS_EmptySet

-----------------------------------------------------------------------------
(* Steps of the sender leave the pairing alone. *)

(* A step of the sender that sends data only keeps the announcements and the pairing. *)
LEMMA SenderKeepsPairing ==
    ASSUME TypeOK, TypeOK', AnnouncedOnce, UnpairedRecv, OnlyDataSent,
           UNCHANGED <<rreq, posted, unexp, recvq>>,
           \A x \in SReq : sreq[x].st # "none" => sreq'[x].st # "none"
    PROVE  AnnouncedOnce' /\ UnpairedRecv'
<1>1. UnpairedRecv'
  BY DEF UnpairedRecv
<1>2. ASSUME NEW p \in Rank, NEW k \in 1..Len(toR'[p]), NEW s \in SReq, InitAt(p, k, s)'
      PROVE  k \in 1..Len(toR[p]) /\ InitAt(p, k, s)
  <2>1. toR[p] \in Seq(ToRMessage) /\ toR'[p] \in Seq(ToRMessage)
    BY DEF TypeOK
  <2>2. k \in 1..Len(toR[p])
    BY <1>2, <2>1 DEF OnlyDataSent, InitAt
  <2> QED
    BY <1>2, <2>2 DEF OnlyDataSent, InitAt
<1>3. unexp \in Seq(SReq) /\ rreq \in [RReq -> RecvRequest]
  BY DEF TypeOK
<1>4. \A r \in RReq : rreq[r].peer # NULL => rreq[r].peer \in SReq
  BY <1>3 DEF RecvRequest
<1>5. \A j \in 1..Len(unexp) : unexp[j] \in SReq
  BY <1>3
<1>6. AnnouncedOnce'
  BY <1>2, <1>4, <1>5 DEF AnnouncedOnce
<1> QED
  BY <1>1, <1>6

(* A sender step on s keeps OneClearToSend if it leaves the number of issued *)
(* rounds and the stored CTS alone, or issues a round and uses up its CTS.   *)
LEMMA SenderKeepsCts ==
    ASSUME TypeOK, AnnouncedOnce, OneClearToSend, NEW s \in SReq, NEW c \in SendRequest,
           sreq' = [sreq EXCEPT ![s] = c], UNCHANGED <<rreq, toS>>,
           Completed(s)' >= Completed(s),
           \/ c.peer = sreq[s].peer /\ Issued(s)' = Issued(s)
           \/ sreq[s].peer # NULL /\ c.peer = NULL /\ Issued(s)' = Issued(s) + 1
    PROVE  OneClearToSend'
<1>1. /\ sreq \in [SReq -> SendRequest] /\ rreq \in [RReq -> RecvRequest]
      /\ toS \in [Rank -> Seq(CtsMessage)]
  BY DEF TypeOK
<1>2. sreq'[s] = c /\ \A x \in SReq : x # s => sreq'[x] = sreq[x]
  BY <1>1
<1>3. \A x \in SReq : x # s => Issued(x)' = Issued(x) /\ Completed(x)' = Completed(x)
  BY <1>2 DEF Issued, Completed
<1>4. \A x \in SReq : Issued(x) \in Int /\ Completed(x) \in Int
  <2>1. \A x \in SReq : sreq[x].round \in Nat
    BY <1>1, BoundAssumption DEF SendRequest
  <2> QED
    BY <2>1 DEF Issued, Completed
<1>5. Completed(s)' \in Int
  <2>1. c.round \in Nat
    BY BoundAssumption DEF SendRequest
  <2> QED
    BY <1>2, <2>1 DEF Completed
<1>6. \A r \in RReq : rreq[r].round \in Nat /\ (rreq[r].peer # NULL => rreq[r].peer \in SReq)
  BY <1>1, BoundAssumption DEF RecvRequest
<1>7. \A x \in SReq : sreq[x].peer # NULL => sreq[x].peer \in RReq
  BY <1>1 DEF SendRequest
<1>8. ASSUME NEW p \in Rank, NEW k \in 1..Len(toS[p])
      PROVE  toS[p][k] \in CtsMessage /\ toS[p][k].s \in SReq /\ toS[p][k].r \in RReq
  <2>1. toS[p][k] \in CtsMessage
    BY <1>1
  <2> QED
    BY <2>1 DEF CtsMessage
<1> DEFINE Used == sreq[s].peer # NULL /\ c.peer = NULL /\ Issued(s)' = Issued(s) + 1
           P == sreq[s].peer
<1>9. Used => /\ P \in RReq /\ rreq[P].peer = s /\ rreq[P].round = Issued(s) + 1
              /\ \A r \in RReq : rreq[r].peer = s => r = P
              /\ \A p \in Rank : \A k \in 1..Len(toS[p]) : toS[p][k].s # s
  BY <1>7, <1>6, ReqAssumption DEF OneClearToSend, AnnouncedOnce, Req
<1>10. ASSUME NEW p \in Rank, NEW k \in 1..Len(toS[p])
       PROVE  LET m == toS[p][k]
              IN  /\ p = RankOf[m.s] /\ rreq[m.r].peer = m.s /\ sreq'[m.s].peer = NULL
                  /\ rreq[m.r].round = Issued(m.s)' + 1
                  /\ \A l \in 1..Len(toS[p]) : toS[p][l].s = m.s => l = k
  <2>1. CASE toS[p][k].s = s
    BY <1>2, <1>8, <1>9, <2>1 DEF OneClearToSend
  <2>2. CASE toS[p][k].s # s
    BY <1>2, <1>3, <1>8, <2>2 DEF OneClearToSend
  <2> QED
    BY <2>1, <2>2
<1>11. ASSUME NEW x \in SReq
       PROVE  /\ sreq'[x].peer # NULL =>
                    rreq[sreq'[x].peer].peer = x /\ rreq[sreq'[x].peer].round = Issued(x)' + 1
              /\ (\A r \in RReq : rreq[r].peer # x) => Issued(x)' = 0
  <2>1. CASE x = s
    BY <1>2, <1>9, <2>1 DEF OneClearToSend
  <2>2. CASE x # s
    BY <1>2, <1>3, <2>2 DEF OneClearToSend
  <2> QED
    BY <2>1, <2>2
<1>12. ASSUME NEW r \in RReq, rreq[r].peer # NULL
       PROVE  /\ Issued(rreq[r].peer)' <= rreq[r].round
              /\ rreq[r].round <= Completed(rreq[r].peer)' + 1
  <2>1. rreq[r].peer \in SReq /\ rreq[r].round \in Nat
    BY <1>6, <1>12
  <2>2. Issued(rreq[r].peer) <= rreq[r].round /\ rreq[r].round <= Completed(rreq[r].peer) + 1
    BY <1>12 DEF OneClearToSend
  <2>3. CASE rreq[r].peer = s
    BY <1>4, <1>5, <1>9, <2>1, <2>2, <2>3
  <2>4. CASE rreq[r].peer # s
    BY <1>3, <2>1, <2>2, <2>4
  <2> QED
    BY <2>3, <2>4
<1> QED
  BY <1>10, <1>11, <1>12 DEF OneClearToSend

(* MPID_PSP_psend_start and MPID_Pready: the invariant after a transmission  *)
(* check of the active request s, whose record became q before the check.    *)
LEMMA TransmissionKeepsInv ==
    ASSUME TypeOK, TypeOK', HandshakeInv, NEW s \in SReq, NEW q \in SendRequest,
           NEW cand \in SUBSET Nat, IsFiniteSet(cand), CheckDataTransmission(s, q, cand),
           UNCHANGED <<rreq, posted, unexp, recvq, toS, crashed>>,
           RoundOK(q), q.alloc, q.peer = sreq[s].peer,
           q.round - 1 = Issued(s), q.round - 1 >= Completed(s),
           \A I \in SUBSET cand : q.ctr + Cardinality(I) <= q.requests
    PROVE  HandshakeInv'
<1>1. PICK I \in SUBSET cand :
        /\ IsFiniteSet(I)
        /\ q.peer = NULL => I = {}
        /\ sreq' = [sreq EXCEPT ![s] = IF I = {} THEN q ELSE AfterIssue(q, I)]
  BY TransmissionFacts
<1> DEFINE c == IF I = {} THEN q ELSE AfterIssue(q, I)
<1>2. /\ c \in SendRequest /\ RoundOK(c) /\ c.st = "active" /\ c.round = q.round
      /\ \/ c.peer = q.peer /\ c.alloc = TRUE
         \/ q.peer # NULL /\ c.peer = NULL /\ c.alloc = FALSE
  <2>1. q.st = "active" /\ q.alloc = TRUE
    BY DEF RoundOK, SendRequest
  <2>2. CASE I = {}
    BY <2>1, <2>2
  <2>3. CASE I # {}
    <3>1. I \in SUBSET Nat /\ q.peer # NULL /\ c = AfterIssue(q, I)
      BY <1>1, <2>3
    <3>2. RoundOK(AfterIssue(q, I))
      BY <1>1, <3>1, IssueKeepsRound
    <3>3. AfterIssue(q, I) \in SendRequest
      BY <1>1, <3>1, AfterIssueFacts
    <3>4. AfterIssue(q, I).st = "active" /\ AfterIssue(q, I).round = q.round
      BY <1>1, <2>1, <3>1, AfterIssueFacts
    <3>5. CASE q.ctr + Cardinality(I) = q.requests
      <4>1. ~AfterIssue(q, I).alloc /\ AfterIssue(q, I).peer = NULL
        BY <1>1, <3>1, <3>5, AfterIssueFacts
      <4>2. AfterIssue(q, I).alloc = FALSE
        BY <3>3, <4>1 DEF SendRequest
      <4> QED
        BY <3>1, <3>2, <3>3, <3>4, <4>1, <4>2
    <3>6. CASE q.ctr + Cardinality(I) # q.requests
      <4>1. AfterIssue(q, I).alloc = q.alloc /\ AfterIssue(q, I).peer = q.peer
        BY <1>1, <3>1, <3>6, AfterIssueFacts, ZenonT(90)
      <4> QED
        BY <2>1, <3>1, <3>2, <3>3, <3>4, <4>1
    <3> QED
      BY <3>5, <3>6
  <2> QED
    BY <2>2, <2>3
<1>3. sreq' = [sreq EXCEPT ![s] = c]
  BY <1>1
<1> HIDE DEF c
<1>4. sreq'[s] = c /\ \A x \in SReq : x # s => sreq'[x] = sreq[x]
  BY <1>3 DEF TypeOK
<1>5. SendRoundInv'
  BY <1>2, <1>4 DEF HandshakeInv, SendRoundInv
<1>6. AnnouncedOnce' /\ UnpairedRecv'
  <2>1. \A x \in SReq : sreq[x].st # "none" => sreq'[x].st # "none"
    BY <1>2, <1>4
  <2>2. OnlyDataSent
    BY TransmissionFacts
  <2> QED
    BY <2>1, <2>2, SenderKeepsPairing DEF HandshakeInv
<1>7. OneClearToSend'
  <2>0. q.round \in Nat /\ sreq[s].round \in Nat
    BY BoundAssumption DEF SendRequest, TypeOK
  <2>1. q.round \in Nat /\ Issued(s) \in Int /\ Completed(s) \in Int
    BY <2>0 DEF Issued, Completed
  <2>2. Completed(s)' = q.round - 1
    BY <1>2, <1>4 DEF Completed
  <2>3. \/ c.peer = sreq[s].peer /\ Issued(s)' = Issued(s)
        \/ sreq[s].peer # NULL /\ c.peer = NULL /\ Issued(s)' = Issued(s) + 1
    BY <1>2, <1>4, <2>1 DEF Issued
  <2>4. Completed(s)' >= Completed(s)
    BY <2>1, <2>2
  <2> QED
    BY <1>2, <1>3, <2>3, <2>4, SenderKeepsCts DEF HandshakeInv
<1> QED
  BY <1>5, <1>6, <1>7 DEF HandshakeInv, NoCrash

-----------------------------------------------------------------------------
(* Every action keeps the invariant. *)

(* MPID_Psend_init preserves the handshake invariant. *)
LEMMA PsendInitKeepsInv ==
    ASSUME TypeOK, TypeOK', HandshakeInv, NEW s \in SReq, Psend_init(s)
    PROVE  HandshakeInv'
<1> DEFINE c == InitSend(s)
           p0 == RankOf[s]
           m == [type |-> "SEND_INIT", s |-> s, round |-> 0, from |-> 0]
<1>1. /\ sreq[s].st = "none" /\ sreq' = [sreq EXCEPT ![s] = c]
      /\ toR' = [toR EXCEPT ![p0] = Append(toR[p0], m)]
      /\ UNCHANGED <<rreq, posted, unexp, recvq, toS, crashed>>
  BY DEF Psend_init
<1>2. c \in SendRequest /\ sreq'[s] = c /\ \A x \in SReq : x # s => sreq'[x] = sreq[x]
  BY <1>1 DEF TypeOK
<1>3. RoundOK(c) /\ c.st = "inactive" /\ c.peer = NULL /\ c.round = 0 /\ c.alloc = FALSE
  BY FS_EmptySet DEF InitSend, RoundOK
<1>4. sreq[s].round = 0 /\ sreq[s].peer = NULL /\ sreq[s].alloc = FALSE
  BY <1>1 DEF HandshakeInv, SendRoundInv, RoundOK, TypeOK, SendRequest
<1>5. SendRoundInv'
  BY <1>2, <1>3 DEF HandshakeInv, SendRoundInv
<1>6. UnpairedRecv'
  BY <1>1 DEF HandshakeInv, UnpairedRecv
<1>7. OneClearToSend'
  <2>1. Issued(s)' = Issued(s) /\ Completed(s)' >= Completed(s)
    BY <1>1, <1>2, <1>3, <1>4 DEF Issued, Completed
  <2> HIDE DEF c
  <2> QED
    BY <1>1, <1>2, <1>3, <1>4, <2>1, SenderKeepsCts DEF HandshakeInv
<1>8. AnnouncedOnce'
  <2>1. /\ p0 \in Rank /\ toR[p0] \in Seq(ToRMessage) /\ m.type = "SEND_INIT" /\ m.s = s
        /\ toR \in [Rank -> Seq(ToRMessage)]
    BY ArgAssumption DEF TypeOK, Req
  <2> HIDE DEF m, c
  <2>2. \A x \in SReq : sreq[x].st # "none" => x # s /\ sreq'[x].st # "none"
    BY <1>1, <1>2
  <2>3. \A r \in RReq : rreq[r].peer # NULL => rreq[r].peer \in SReq
    BY DEF TypeOK, RecvRequest
  <2>4. \A j \in 1..Len(unexp) : unexp[j] \in SReq
    BY DEF TypeOK
  <2>5. \A p \in Rank : p # p0 => toR'[p] = toR[p]
    BY <1>1, <2>1
  <2>6. /\ Len(toR'[p0]) = Len(toR[p0]) + 1 /\ Len(toR[p0]) \in Nat
        /\ toR'[p0][Len(toR[p0]) + 1] = m
        /\ \A k \in 1..Len(toR[p0]) : toR'[p0][k] = toR[p0][k]
    BY <1>1, <2>1
  <2>7. ASSUME NEW p \in Rank, NEW k \in 1..Len(toR'[p]), NEW x \in SReq, InitAt(p, k, x)'
        PROVE  \/ k \in 1..Len(toR[p]) /\ InitAt(p, k, x) /\ x # s
               \/ p = p0 /\ x = s /\ k = Len(toR[p0]) + 1
    <3>1. CASE p # p0
      <4>1. InitAt(p, k, x) /\ k \in 1..Len(toR[p])
        BY <2>5, <2>7, <3>1 DEF InitAt
      <4>2. sreq[x].st # "none"
        BY <4>1 DEF HandshakeInv, AnnouncedOnce
      <4> QED
        BY <2>2, <4>1, <4>2
    <3>2. CASE p = p0 /\ k \in 1..Len(toR[p0])
      <4>1. InitAt(p, k, x)
        BY <2>6, <2>7, <3>2 DEF InitAt
      <4>2. sreq[x].st # "none"
        BY <3>2, <4>1 DEF HandshakeInv, AnnouncedOnce
      <4> QED
        BY <2>2, <3>2, <4>1, <4>2
    <3>3. CASE p = p0 /\ k = Len(toR[p0]) + 1
      BY <2>1, <2>6, <2>7, <3>3 DEF InitAt
    <3>4. p = p0 => k \in 1..Len(toR[p0]) \/ k = Len(toR[p0]) + 1
      BY <2>6
    <3> QED
      BY <3>1, <3>2, <3>3, <3>4
  <2>8. ASSUME NEW p \in Rank, NEW k \in 1..Len(toR'[p]), NEW x \in SReq, InitAt(p, k, x)'
        PROVE  /\ p = RankOf[x] /\ sreq'[x].st # "none"
               /\ \A l \in 1..Len(toR'[p]) : InitAt(p, l, x)' => l = k
               /\ \A j \in 1..Len(unexp) : unexp[j] # x
               /\ \A r \in RReq : rreq[r].peer # x
    <3>1. CASE x # s
      BY <2>2, <2>7, <2>8, <3>1 DEF HandshakeInv, AnnouncedOnce
    <3>2. CASE x = s
      <4>1. p = RankOf[x] /\ sreq'[x].st # "none"
        BY <1>2, <1>3, <2>7, <2>8, <3>2
      <4>2. \A l \in 1..Len(toR'[p]) : InitAt(p, l, x)' => l = k
        BY <2>7, <2>8, <3>2
      <4>3. \A j \in 1..Len(unexp) : unexp[j] # x
        BY <1>1, <3>2 DEF HandshakeInv, AnnouncedOnce
      <4>4. \A r \in RReq : rreq[r].peer # x
        BY <1>1, <3>2, ReqAssumption DEF HandshakeInv, AnnouncedOnce, Req
      <4> QED
        BY <4>1, <4>2, <4>3, <4>4
    <3> QED
      BY <3>1, <3>2
  <2>9. ASSUME NEW j \in 1..Len(unexp)
        PROVE  /\ sreq'[unexp[j]].st # "none"
               /\ \A l \in 1..Len(unexp) : unexp[l] = unexp[j] => l = j
               /\ \A r \in RReq : rreq[r].peer # unexp[j]
    BY <2>2, <2>4 DEF HandshakeInv, AnnouncedOnce
  <2>10. ASSUME NEW r \in RReq, rreq[r].peer # NULL
         PROVE  /\ sreq'[rreq[r].peer].st # "none" /\ RankOf[rreq[r].peer] = RankOf[r]
                /\ \A x \in RReq : rreq[x].peer = rreq[r].peer => x = r
    BY <2>2, <2>3, <2>10 DEF HandshakeInv, AnnouncedOnce
  <2> QED
    BY <1>1, <2>8, <2>9, <2>10 DEF AnnouncedOnce
<1> QED
  BY <1>1, <1>5, <1>6, <1>7, <1>8 DEF HandshakeInv, NoCrash

(* The start of a send request preserves the handshake invariant. *)
LEMMA PsendStartKeepsInv ==
    ASSUME TypeOK, TypeOK', HandshakeInv, NEW s \in SReq, PsendStart(s)
    PROVE  HandshakeInv'
<1> DEFINE q == [sreq[s] EXCEPT !.st = "active", !.round = @ + 1, !.alloc = TRUE,
                                !.ready = {}, !.ctr = 0, !.cc = sreq[s].requests]
<1>1. sreq[s] \in SendRequest /\ RoundOK(sreq[s]) /\ sreq[s].st = "inactive"
  BY DEF PsendStart, TypeOK, HandshakeInv, SendRoundInv
<1>2. q \in SendRequest
  BY <1>1, StartedSend DEF PsendStart
<1>3. /\ q.st = "active" /\ q.alloc = TRUE /\ q.ctr = 0 /\ q.round = sreq[s].round + 1
      /\ q.requests = sreq[s].requests /\ q.cc = sreq[s].requests
      /\ q.peer = sreq[s].peer /\ q.out = sreq[s].out
  BY <1>1 DEF SendRequest
<1>4. CheckDataTransmission(s, q, AllSubs(q)) /\ UNCHANGED <<rreq, posted, unexp, recvq, toS, crashed>>
  BY DEF PsendStart
<1> HIDE DEF q
<1>5. sreq[s].out = {} /\ sreq[s].alloc = FALSE
  <2>1. sreq[s].cc = 0
    BY <1>1 DEF RoundOK
  <2> QED
    BY <1>1, <2>1, NothingOutstanding DEF SendRequest
<1>6. sreq[s].round \in Nat /\ sreq[s].requests \in Nat \ {0}
  BY <1>1, BoundAssumption DEF SendRequest
<1>7. RoundOK(q)
  BY <1>3, <1>5, <1>6, FS_EmptySet DEF RoundOK
<1>8. q.round - 1 = Issued(s) /\ q.round - 1 >= Completed(s)
  BY <1>1, <1>3, <1>5, <1>6 DEF Issued, Completed
<1>9. ASSUME NEW I \in SUBSET AllSubs(q)
      PROVE  q.ctr + Cardinality(I) <= q.requests
  <2>1. q.requests \in Nat /\ I \in SUBSET (0..(q.requests - 1))
    BY <1>3, <1>6 DEF AllSubs
  <2>2. Cardinality(I) \in Nat /\ Cardinality(I) <= q.requests
    BY <2>1, SubsetCard
  <2> QED
    BY <1>3, <2>1, <2>2
<1> QED
  BY <1>2, <1>3, <1>4, <1>7, <1>8, <1>9, CandidateSets, TransmissionKeepsInv

(* MPI_Pready preserves the handshake invariant. *)
LEMMA PreadyKeepsInv ==
    ASSUME TypeOK, TypeOK', HandshakeInv, NEW s \in SReq, NEW p \in 0..(Parts[s] - 1), Pready(s, p)
    PROVE  HandshakeInv'
<1> DEFINE q == [sreq[s] EXCEPT !.ready = @ \cup {p}]
<1>1. /\ sreq[s] \in SendRequest /\ RoundOK(sreq[s]) /\ sreq[s].st = "active"
      /\ sreq[s].alloc /\ p \in Nat
  BY ArgAssumption DEF Pready, TypeOK, HandshakeInv, SendRoundInv
<1>2. q \in SendRequest
  <2>1. sreq[s].ready \cup {p} \in SUBSET Nat
    BY <1>1 DEF SendRequest
  <2> QED
    BY <1>1, <2>1 DEF SendRequest
<1>3. /\ q.st = sreq[s].st /\ q.alloc = sreq[s].alloc /\ q.ctr = sreq[s].ctr
      /\ q.round = sreq[s].round /\ q.requests = sreq[s].requests /\ q.cc = sreq[s].cc
      /\ q.peer = sreq[s].peer /\ q.out = sreq[s].out
  BY <1>1 DEF SendRequest
<1>4. /\ CheckDataTransmission(s, q, {p \div q.ppr})
      /\ UNCHANGED <<rreq, posted, unexp, recvq, toS, crashed>>
  BY DEF Pready
<1> HIDE DEF q
<1>5. q.alloc = TRUE /\ sreq[s].alloc = TRUE
  BY <1>1, <1>2, <1>3 DEF SendRequest
<1>6. RoundOK(q)
  BY <1>1, <1>3 DEF RoundOK
<1>7. sreq[s].round \in Nat /\ q.ctr \in Nat /\ q.requests \in Nat /\ q.ctr < q.requests
  BY <1>1, <1>2, <1>5, <1>6, BoundAssumption DEF SendRequest, RoundOK
<1>8. q.round - 1 = Issued(s) /\ q.round - 1 >= Completed(s)
  BY <1>1, <1>3, <1>5, <1>7 DEF Issued, Completed
<1>9. ASSUME NEW I \in SUBSET {p \div q.ppr}
      PROVE  q.ctr + Cardinality(I) <= q.requests
  <2>1. I = {} \/ I = {p \div q.ppr}
    OBVIOUS
  <2>2. Cardinality(I) = 0 \/ Cardinality(I) = 1
    BY <2>1, FS_EmptySet, FS_Singleton
  <2> QED
    BY <1>7, <2>2
<1> QED
  BY <1>1, <1>2, <1>3, <1>4, <1>5, <1>6, <1>8, <1>9, CandidateSets, TransmissionKeepsInv

(* MPID_PSP_Subrequest_completed, MPI_Wait and MPI_Request_free of the sender. *)
LEMMA SenderLocalKeepsInv ==
    ASSUME TypeOK, TypeOK', HandshakeInv, NEW s \in SReq, NEW c \in SendRequest,
           sreq' = [sreq EXCEPT ![s] = c], RoundOK(c), c.st # "none",
           c.peer = sreq[s].peer, c.round = sreq[s].round, c.alloc = sreq[s].alloc,
           Completed(s)' >= Completed(s),
           UNCHANGED <<rreq, posted, unexp, recvq, toR, toS, crashed>>
    PROVE  HandshakeInv'
<1>1. sreq'[s] = c /\ \A x \in SReq : x # s => sreq'[x] = sreq[x]
  BY DEF TypeOK
<1>2. SendRoundInv'
  BY <1>1 DEF HandshakeInv, SendRoundInv
<1>3. \A x \in SReq : sreq[x].st # "none" => sreq'[x].st # "none"
  BY <1>1
<1>4. OnlyDataSent
  BY DEF OnlyDataSent, TypeOK
<1>5. AnnouncedOnce' /\ UnpairedRecv'
  BY <1>3, <1>4, SenderKeepsPairing DEF HandshakeInv
<1>6. Issued(s)' = Issued(s)
  BY <1>1 DEF Issued
<1>7. OneClearToSend'
  BY <1>6, SenderKeepsCts DEF HandshakeInv
<1> QED
  BY <1>2, <1>5, <1>7 DEF HandshakeInv, NoCrash

(* The completion of a sub-request preserves the handshake invariant. *)
LEMMA SendSubDoneKeepsInv ==
    ASSUME TypeOK, TypeOK', HandshakeInv, NEW s \in SReq, NEW i \in sreq[s].out, SendSubDone(s, i)
    PROVE  HandshakeInv'
<1> DEFINE q == sreq[s]
           c == [q EXCEPT !.out = q.out \ {i}, !.cc = q.cc - 1]
<1>1. q \in SendRequest /\ RoundOK(q) /\ sreq' = [sreq EXCEPT ![s] = c]
  BY DEF TypeOK, HandshakeInv, SendRoundInv, SendSubDone
<1>2. c \in SendRequest
  BY <1>1 DEF TypeOK
<1>3. /\ c.st = q.st /\ c.peer = q.peer /\ c.round = q.round /\ c.alloc = q.alloc
      /\ c.ctr = q.ctr /\ c.requests = q.requests /\ c.out = q.out \ {i} /\ c.cc = q.cc - 1
  BY <1>1 DEF SendRequest
<1>4. IsFiniteSet(q.out) /\ i \in q.out
  BY <1>1 DEF RoundOK
<1>5. IsFiniteSet(c.out) /\ Cardinality(c.out) = Cardinality(q.out) - 1 /\ Cardinality(q.out) \in Nat
  BY <1>3, <1>4, FS_RemoveElement, FS_CardinalityType
<1>6. q.cc # 0 /\ q.cc \in Int /\ q.requests \in Nat /\ q.ctr \in Nat /\ q.alloc \in BOOLEAN
  BY <1>1, <1>4, NothingOutstanding DEF SendRequest
<1> HIDE DEF c, q
<1>7. q.st = "active" /\ ~(q.alloc /\ q.peer = NULL)
  BY <1>1, <1>4, <1>6 DEF RoundOK
<1>8. RoundOK(c)
  BY <1>1, <1>3, <1>5, <1>6, <1>7 DEF RoundOK
<1>9. Completed(s)' >= Completed(s)
  <2>1. sreq'[s] = c
    BY <1>1 DEF TypeOK
  <2>2. Completed(s)' = Completed(s)
    BY <1>3, <2>1 DEF Completed, q
  <2>3. Completed(s) \in Int
    <3>1. sreq[s].round \in Nat
      BY <1>1, BoundAssumption DEF SendRequest, q
    <3> QED
      BY <3>1 DEF Completed
  <2> QED
    BY <2>2, <2>3
<1>10. UNCHANGED <<rreq, posted, unexp, recvq, toR, toS, crashed>>
  BY DEF SendSubDone
<1>11. /\ c.st # "none" /\ c.peer = sreq[s].peer
       /\ c.round = sreq[s].round /\ c.alloc = sreq[s].alloc
  BY <1>3, <1>7 DEF q
<1> QED
  BY <1>1, <1>2, <1>8, <1>9, <1>10, <1>11, SenderLocalKeepsInv

(* Completing and freeing a send request preserve the handshake invariant. *)
LEMMA WaitFreeSendKeepInv ==
    ASSUME TypeOK, TypeOK', HandshakeInv, NEW s \in SReq, WaitSend(s) \/ FreeSend(s)
    PROVE  HandshakeInv'
<1> DEFINE q == sreq[s]
<1>1. PICK st \in {"inactive", "freed"} : sreq' = [sreq EXCEPT ![s] = [q EXCEPT !.st = st]]
  BY DEF WaitSend, FreeSend, TypeOK
<1> DEFINE c == [q EXCEPT !.st = st]
<1>2. q \in SendRequest /\ RoundOK(q) /\ c \in SendRequest
  BY <1>1 DEF TypeOK, HandshakeInv, SendRoundInv
<1>3. /\ c.st = st /\ c.peer = q.peer /\ c.round = q.round /\ c.alloc = q.alloc
      /\ c.ctr = q.ctr /\ c.requests = q.requests /\ c.out = q.out /\ c.cc = q.cc
  BY <1>2 DEF SendRequest
<1>4. q.cc = 0 /\ q.st \in {"inactive", "active"}
  BY <1>2 DEF WaitSend, FreeSend, RoundOK
<1>5. ~q.alloc /\ q.out = {}
  BY <1>2, <1>4, NothingOutstanding
<1> HIDE DEF c, q
<1>6. RoundOK(c)
  BY <1>2, <1>3, <1>4, <1>5 DEF RoundOK
<1>7. Completed(s)' >= Completed(s)
  <2>1. sreq'[s] = c /\ sreq[s].round \in Nat
    BY <1>1, <1>2, BoundAssumption DEF TypeOK, c, q, SendRequest
  <2> QED
    BY <1>3, <2>1 DEF Completed, q
<1>8. UNCHANGED <<rreq, posted, unexp, recvq, toR, toS, crashed>>
  BY DEF WaitSend, FreeSend
<1>9. /\ sreq' = [sreq EXCEPT ![s] = c] /\ c.st # "none" /\ c.peer = sreq[s].peer
      /\ c.round = sreq[s].round /\ c.alloc = sreq[s].alloc
  BY <1>1, <1>3 DEF c, q
<1> QED
  BY <1>2, <1>6, <1>7, <1>8, <1>9, SenderLocalKeepsInv

(* The rounds issued and completed after the step, of any request x.         *)
IssuedN(x) == sreq'[x].round - (IF sreq'[x].alloc THEN 1 ELSE 0)
CompletedN(x) == sreq'[x].round - (IF sreq'[x].st = "active" THEN 1 ELSE 0)

(* MPID_do_recv_part_cts: the stored CTS replaces the one in flight.         *)
CtsStored(p, s, c) ==
    /\ toS[p] # <<>> /\ s = Head(toS[p]).s
    /\ sreq' = [sreq EXCEPT ![s] = c]
    /\ toS' = [toS EXCEPT ![p] = Tail(@)]
    /\ rreq' = rreq
    /\ CompletedN(s) = Completed(s)
    /\ \/ c.peer = Head(toS[p]).r /\ IssuedN(s) = Issued(s)
       \/ c.peer = NULL /\ IssuedN(s) = Issued(s) + 1

(* A clear-to-send that arrives is stored, and still the only one of its round. *)
LEMMA RecvCtsKeepsCts ==
    ASSUME TypeOK, AnnouncedOnce, OneClearToSend, NEW p \in Rank, NEW s \in SReq,
           NEW c \in SendRequest, CtsStored(p, s, c)
    PROVE  OneClearToSend'
<1> DEFINE P == Head(toS[p]).r
<1>1. /\ sreq \in [SReq -> SendRequest] /\ rreq \in [RReq -> RecvRequest]
      /\ toS \in [Rank -> Seq(CtsMessage)] /\ toS[p] \in Seq(CtsMessage)
  BY DEF TypeOK
<1>2. sreq'[s] = c /\ \A x \in SReq : x # s => sreq'[x] = sreq[x]
  BY <1>1 DEF CtsStored
<1>3. \A x \in SReq : x # s => IssuedN(x) = Issued(x) /\ CompletedN(x) = Completed(x)
  BY <1>2 DEF Issued, Completed, IssuedN, CompletedN
<1>4. \A x \in SReq : Issued(x) \in Int /\ Completed(x) \in Int
  <2>1. \A x \in SReq : sreq[x].round \in Nat
    BY <1>1, BoundAssumption DEF SendRequest
  <2> QED
    BY <2>1 DEF Issued, Completed
<1>5. \A r \in RReq : rreq[r].round \in Nat /\ (rreq[r].peer # NULL => rreq[r].peer \in SReq)
  BY <1>1, BoundAssumption DEF RecvRequest
<1>6. /\ Len(toS[p]) \in Nat /\ Len(toS[p]) >= 1 /\ Head(toS[p]) = toS[p][1]
      /\ Len(Tail(toS[p])) = Len(toS[p]) - 1
      /\ \A k \in 1..Len(Tail(toS[p])) : Tail(toS[p])[k] = toS[p][k + 1]
  BY <1>1 DEF CtsStored
<1>7. ASSUME NEW x \in Rank, NEW k \in 1..Len(toS[x])
      PROVE  toS[x][k].s \in SReq /\ toS[x][k].r \in RReq
  <2>1. toS[x][k] \in CtsMessage
    BY <1>1
  <2> QED
    BY <2>1 DEF CtsMessage
<1>8. /\ P \in RReq /\ p = RankOf[s] /\ rreq[P].peer = s /\ rreq[P].round = Issued(s) + 1
      /\ \A l \in 1..Len(toS[p]) : toS[p][l].s = s => l = 1
  BY <1>6, <1>7 DEF OneClearToSend, CtsStored
<1> HIDE DEF P
<1>9. s # NULL /\ \A r \in RReq : rreq[r].peer = s => r = P
  BY <1>8, ReqAssumption DEF AnnouncedOnce, Req
<1>a. \A x \in Rank : \A k \in 1..Len(toS[x]) :
        /\ x = RankOf[toS[x][k].s] /\ rreq[toS[x][k].r].peer = toS[x][k].s
        /\ sreq[toS[x][k].s].peer = NULL /\ rreq[toS[x][k].r].round = Issued(toS[x][k].s) + 1
        /\ \A l \in 1..Len(toS[x]) : toS[x][l].s = toS[x][k].s => l = k
  BY DEF OneClearToSend
<1>b. \A x \in SReq : x # s =>
        /\ sreq'[x] = sreq[x] /\ IssuedN(x) = Issued(x) /\ CompletedN(x) = Completed(x)
  BY <1>2, <1>3
<1>10. ASSUME NEW x \in Rank, NEW k \in 1..Len(toS'[x])
       PROVE  /\ x = RankOf[toS'[x][k].s] /\ rreq[toS'[x][k].r].peer = toS'[x][k].s
              /\ sreq'[toS'[x][k].s].peer = NULL
              /\ rreq[toS'[x][k].r].round = IssuedN(toS'[x][k].s) + 1
              /\ \A l \in 1..Len(toS'[x]) : toS'[x][l].s = toS'[x][k].s => l = k
  <2>1. CASE x # p
    <3>1. toS'[x] = toS[x]
      BY <1>1, <2>1 DEF CtsStored
    <3>2. toS[x][k].s # s /\ toS[x][k].s \in SReq
      BY <1>7, <1>8, <1>a, <2>1, <3>1
    <3> DEFINE y == toS[x][k].s
    <3>3. sreq'[y].peer = sreq[y].peer /\ IssuedN(y) = Issued(y)
      BY <1>b, <3>2
    <3> HIDE DEF y
    <3>4. toS'[x][k].s = y /\ toS'[x][k].r = toS[x][k].r /\ k \in 1..Len(toS[x])
      BY <3>1 DEF y
    <3>5. /\ x = RankOf[y] /\ rreq[toS[x][k].r].peer = y
          /\ sreq[y].peer = NULL /\ rreq[toS[x][k].r].round = Issued(y) + 1
          /\ \A l \in 1..Len(toS[x]) : toS[x][l].s = y => l = k
      BY <1>a, <3>4 DEF y
    <3> QED
      BY <3>1, <3>3, <3>4, <3>5
  <2>2. CASE x = p
    <3>1. toS'[p] = Tail(toS[p])
      BY <1>1 DEF CtsStored
    <3>2. k + 1 \in 1..Len(toS[p]) /\ toS'[p][k] = toS[p][k + 1]
      BY <1>6, <2>2, <3>1
    <3>3. toS[p][k + 1].s # s /\ toS[p][k + 1].s \in SReq
      BY <1>7, <1>8, <3>2
    <3>4. ASSUME NEW l \in 1..Len(toS'[p]), toS'[p][l].s = toS'[p][k].s
          PROVE  l = k
      <4>1. l + 1 \in 1..Len(toS[p]) /\ toS'[p][l] = toS[p][l + 1]
        BY <1>6, <3>1
      <4>2. l + 1 = k + 1
        BY <1>a, <3>2, <3>4, <4>1
      <4> QED
        BY <2>2, <4>2, <3>2
    <3> DEFINE y == toS[p][k + 1].s
    <3>5. sreq'[y].peer = sreq[y].peer /\ IssuedN(y) = Issued(y)
      BY <1>b, <3>3
    <3> HIDE DEF y
    <3>6. toS'[x][k].s = y /\ toS'[x][k].r = toS[p][k + 1].r
      BY <2>2, <3>2 DEF y
    <3>7. /\ x = RankOf[y] /\ rreq[toS[p][k + 1].r].peer = y
          /\ sreq[y].peer = NULL /\ rreq[toS[p][k + 1].r].round = Issued(y) + 1
      BY <1>a, <2>2, <3>2 DEF y
    <3> QED
      BY <2>2, <3>4, <3>5, <3>6, <3>7
  <2> QED
    BY <2>1, <2>2
<1>11. ASSUME NEW x \in SReq
       PROVE  /\ sreq'[x].peer # NULL =>
                    rreq[sreq'[x].peer].peer = x /\ rreq[sreq'[x].peer].round = IssuedN(x) + 1
              /\ (\A r \in RReq : rreq[r].peer # x) => IssuedN(x) = 0
  <2>1. CASE x = s
    <3>1. (c.peer = P /\ IssuedN(s) = Issued(s)) \/ c.peer = NULL
      BY DEF P, CtsStored
    <3> QED
      BY <1>2, <1>8, <2>1, <3>1
  <2>2. CASE x # s
    BY <1>b, <2>2 DEF OneClearToSend
  <2> QED
    BY <2>1, <2>2
<1>12. ASSUME NEW r \in RReq, rreq[r].peer # NULL
       PROVE  /\ IssuedN(rreq[r].peer) <= rreq[r].round
              /\ rreq[r].round <= CompletedN(rreq[r].peer) + 1
  <2>1. rreq[r].peer \in SReq /\ rreq[r].round \in Nat
    BY <1>5, <1>12
  <2>2. Issued(rreq[r].peer) <= rreq[r].round /\ rreq[r].round <= Completed(rreq[r].peer) + 1
    BY <1>12 DEF OneClearToSend
  <2>3. CASE rreq[r].peer = s
    <3>1. rreq[r].round = Issued(s) + 1 /\ Issued(s) \in Int /\ CompletedN(s) = Completed(s)
      <4>1. r = P
        BY <1>9, <2>3
      <4>2. CompletedN(s) = Completed(s)
        BY DEF CtsStored
      <4> QED
        BY <1>4, <1>8, <4>1, <4>2
    <3>2. IssuedN(s) = Issued(s) \/ IssuedN(s) = Issued(s) + 1
      BY DEF CtsStored
    <3>3. IssuedN(s) <= rreq[r].round
      BY <3>1, <3>2
    <3> QED
      BY <2>2, <2>3, <3>1, <3>3
  <2>4. CASE rreq[r].peer # s
    <3>1. /\ IssuedN(rreq[r].peer) = Issued(rreq[r].peer)
          /\ CompletedN(rreq[r].peer) = Completed(rreq[r].peer)
      BY <1>b, <2>1, <2>4
    <3> QED
      BY <2>2, <3>1
  <2> QED
    BY <2>3, <2>4
<1>13. rreq' = rreq
  BY DEF CtsStored
<1> QED
  BY <1>10, <1>11, <1>12, <1>13 DEF OneClearToSend, Issued, Completed, IssuedN, CompletedN

(* Storing a clear-to-send preserves the handshake invariant if the send request stays consistent. *)
LEMMA CtsStoredKeepsInv ==
    ASSUME TypeOK, TypeOK', HandshakeInv, NEW p \in Rank, NEW s \in SReq,
           NEW c \in SendRequest, CtsStored(p, s, c), RoundOK(c), c.st = sreq[s].st,
           OnlyDataSent, UNCHANGED <<rreq, posted, unexp, recvq, crashed>>
    PROVE  HandshakeInv'
<1>1. sreq'[s] = c /\ \A x \in SReq : x # s => sreq'[x] = sreq[x]
  BY DEF TypeOK, CtsStored
<1>2. SendRoundInv'
  BY <1>1 DEF HandshakeInv, SendRoundInv
<1>3. \A x \in SReq : sreq[x].st # "none" => sreq'[x].st # "none"
  BY <1>1
<1>4. AnnouncedOnce' /\ UnpairedRecv'
  BY <1>3, SenderKeepsPairing DEF HandshakeInv
<1>5. OneClearToSend'
  BY RecvCtsKeepsCts DEF HandshakeInv
<1> QED
  BY <1>2, <1>4, <1>5 DEF HandshakeInv, NoCrash

(* A CTS that arrives for an active request finds its part_ready: the round  *)
(* is not issued, since the receiver is at most one round ahead.             *)
LEMMA RecvCtsKeepsInv ==
    ASSUME TypeOK, TypeOK', HandshakeInv, NEW p \in Rank, RecvCts(p)
    PROVE  HandshakeInv'
<1> DEFINE m == Head(toS[p])
           s == m.s
           q00 == [sreq[s] EXCEPT !.peer = m.r]
           q0 == CheckNumRequests(q00, Parts[s], m.requests)
           q == [q0 EXCEPT !.cc = q0.requests]
<1>1. toS[p] # <<>> /\ toS[p] \in Seq(CtsMessage) /\ m = toS[p][1] /\ 1 \in 1..Len(toS[p])
  BY HeadTailProperties, SMTT(30) DEF RecvCts, TypeOK
<1>2. m \in CtsMessage
  BY <1>1
<1>3. s \in SReq /\ m.r \in RReq /\ m.requests \in Nat \ {0} /\ Parts[s] \in Nat \ {0}
  BY <1>2, ArgAssumption DEF CtsMessage, Req
<1>4. /\ rreq[m.r].peer = s /\ sreq[s].peer = NULL /\ rreq[m.r].round = Issued(s) + 1
  BY <1>1 DEF HandshakeInv, OneClearToSend
<1>5. sreq[s] \in SendRequest /\ RoundOK(sreq[s]) /\ sreq[s].st # "none" /\ m.r # NULL /\ s # NULL
  <2>1. m.r # NULL /\ s # NULL
    BY <1>3, ReqAssumption DEF Req
  <2>2. sreq[s] \in SendRequest /\ RoundOK(sreq[s])
    BY <1>3 DEF HandshakeInv, SendRoundInv, TypeOK
  <2>3. AnnouncedOnce
    BY DEF HandshakeInv
  <2>4. sreq[s].st # "none"
    BY <1>3, <1>4, <2>1, <2>3 DEF AnnouncedOnce
  <2> QED
    BY <2>1, <2>2, <2>4
<1>6. rreq[m.r].round <= Completed(s) + 1
  BY <1>3, <1>4, <1>5 DEF HandshakeInv, OneClearToSend
<1>7. toS' = [toS EXCEPT ![p] = Tail(toS[p])] /\ UNCHANGED <<rreq, posted, unexp, recvq>>
  BY DEF RecvCts
<1>8. \/ /\ sreq[s].st # "active"
         /\ sreq' = [sreq EXCEPT ![s] = q0]
         /\ UNCHANGED <<toR, crashed>>
      \/ /\ sreq[s].st = "active" /\ sreq[s].alloc
         /\ CheckDataTransmission(s, q, AllSubs(q))
         /\ UNCHANGED crashed
      \/ /\ sreq[s].st = "active" /\ ~sreq[s].alloc
         /\ crashed' = TRUE
         /\ sreq' = [sreq EXCEPT ![s] = q]
         /\ UNCHANGED toR
  BY DEF RecvCts
<1>9. q00 \in SendRequest /\ q00.peer = m.r /\ q00.st = sreq[s].st /\ q00.round = sreq[s].round
      /\ q00.alloc = sreq[s].alloc /\ q00.ctr = sreq[s].ctr /\ q00.cc = sreq[s].cc
      /\ q00.out = sreq[s].out
  BY <1>3, <1>5 DEF SendRequest
<1>10. q0 \in SendRequest /\ q0.peer = m.r /\ q0.st = sreq[s].st /\ q0.round = sreq[s].round
      /\ q0.alloc = sreq[s].alloc /\ q0.ctr = sreq[s].ctr /\ q0.cc = sreq[s].cc
      /\ q0.out = sreq[s].out
  <2> HIDE DEF m, s, q00
  <2> QED
    BY <1>3, <1>9, CheckNumSend
<1> HIDE DEF q0, m, s
<1>11. q \in SendRequest /\ q.peer = m.r /\ q.st = sreq[s].st /\ q.round = sreq[s].round
      /\ q.alloc = sreq[s].alloc /\ q.ctr = sreq[s].ctr /\ q.cc = q.requests
      /\ q.out = sreq[s].out
  BY <1>10 DEF SendRequest
<1> HIDE DEF q
<1>12. sreq[s].round \in Nat /\ sreq[s].alloc \in BOOLEAN /\ q.requests \in Nat \ {0}
       /\ sreq[s].ctr \in Nat
  BY <1>5, <1>11, BoundAssumption DEF SendRequest
<1>13. CASE /\ sreq[s].st # "active"
            /\ sreq' = [sreq EXCEPT ![s] = q0]
            /\ UNCHANGED <<toR, crashed>>
  <2>1. sreq[s].cc = 0
    BY <1>5, <1>13 DEF RoundOK
  <2>2. ~sreq[s].alloc /\ sreq[s].out = {}
    BY <1>5, <2>1, NothingOutstanding
  <2>3. RoundOK(q0)
    BY <1>5, <1>10, <1>13, <2>1, <2>2, FS_EmptySet DEF RoundOK
  <2>4. sreq'[s] = q0
    BY <1>3, <1>13 DEF TypeOK
  <2>5. CompletedN(s) = Completed(s)
    BY <1>10, <2>4 DEF CompletedN, Completed
  <2>6. IssuedN(s) = Issued(s)
    BY <1>10, <2>4 DEF IssuedN, Issued
  <2>7. CtsStored(p, s, q0)
    BY <1>1, <1>7, <1>10, <1>13, <2>5, <2>6 DEF CtsStored, s, m
  <2>8. OnlyDataSent
    BY <1>13 DEF OnlyDataSent, TypeOK
  <2> QED
    BY <1>3, <1>7, <1>10, <1>13, <2>3, <2>7, <2>8, CtsStoredKeepsInv
<1>14. CASE /\ sreq[s].st = "active" /\ sreq[s].alloc
            /\ CheckDataTransmission(s, q, AllSubs(q))
            /\ UNCHANGED crashed
  <2>1. sreq[s].ctr = 0 /\ sreq[s].out = {} /\ sreq[s].round > 0
    BY <1>4, <1>5, <1>14 DEF RoundOK
  <2>2. q.alloc = TRUE /\ sreq[s].alloc = TRUE
    BY <1>11, <1>12, <1>14
  <2>3. RoundOK(q)
    BY <1>5, <1>11, <1>12, <1>14, <2>1, <2>2, FS_EmptySet DEF RoundOK
  <2>4. AllSubs(q) \in SUBSET Nat /\ IsFiniteSet(AllSubs(q))
    BY <1>11, CandidateSets
  <2>5. OnlyDataSent
    BY <1>3, <1>11, <1>14, <2>4, TransmissionFacts
  <2>6. PICK I \in SUBSET AllSubs(q) :
          /\ IsFiniteSet(I)
          /\ q.peer = NULL => I = {}
          /\ sreq' = [sreq EXCEPT ![s] = IF I = {} THEN q ELSE AfterIssue(q, I)]
    <3>1. q \in SendRequest /\ CheckDataTransmission(s, q, AllSubs(q))
      BY <1>11, <1>14
    <3> QED
      BY <1>3, <2>4, <3>1, TransmissionFacts
  <2>7. CASE I = {}
    <3>1. sreq' = [sreq EXCEPT ![s] = q] /\ sreq'[s] = q
      BY <1>3, <2>6, <2>7 DEF TypeOK
    <3>2. CompletedN(s) = Completed(s)
      BY <1>11, <3>1 DEF CompletedN, Completed
    <3>3. IssuedN(s) = Issued(s)
      BY <1>11, <3>1 DEF IssuedN, Issued
    <3>4. CtsStored(p, s, q)
      BY <1>1, <1>7, <1>11, <3>1, <3>2, <3>3 DEF CtsStored, s, m
    <3> QED
      BY <1>3, <1>7, <1>11, <1>14, <2>3, <2>5, <3>4, CtsStoredKeepsInv
  <2>8. CASE I # {}
    <3> DEFINE c == AfterIssue(q, I)
    <3>1. I \in SUBSET Nat /\ sreq' = [sreq EXCEPT ![s] = c] /\ sreq'[s] = c
      BY <1>3, <2>4, <2>6, <2>8 DEF TypeOK
    <3>2. Cardinality(I) \in Nat /\ Cardinality(I) <= q.requests
      BY <1>12, SubsetCard DEF AllSubs
    <3>3. q.ctr + Cardinality(I) <= q.requests /\ q.peer # NULL
      BY <1>5, <1>11, <1>12, <2>1, <3>2
    <3>4. RoundOK(c)
      BY <1>11, <2>2, <2>3, <2>6, <3>1, <3>3, IssueKeepsRound
    <3>5. c \in SendRequest
      BY <1>11, <2>6, <3>1, AfterIssueFacts
    <3>6. c.st = q.st /\ c.round = q.round
      BY <1>11, <2>6, <3>1, AfterIssueFacts
    <3>7. \/ c.peer = m.r /\ c.alloc = TRUE
          \/ c.peer = NULL /\ c.alloc = FALSE
      <4>1. CASE q.ctr + Cardinality(I) = q.requests
        <5>1. ~c.alloc /\ c.peer = NULL
          BY <1>11, <2>6, <3>1, <4>1, AfterIssueFacts
        <5> QED
          BY <3>5, <5>1 DEF SendRequest
      <4>2. CASE q.ctr + Cardinality(I) # q.requests
        <5>1. c.alloc = q.alloc /\ c.peer = q.peer
          BY <1>11, <2>6, <3>1, <4>2, AfterIssueFacts, ZenonT(90)
        <5> QED
          BY <1>11, <2>2, <5>1
      <4> QED
        BY <4>1, <4>2
    <3> HIDE DEF c
    <3>8. CompletedN(s) = Completed(s)
      BY <1>11, <3>1, <3>6 DEF CompletedN, Completed
    <3>9. \/ c.peer = m.r /\ IssuedN(s) = Issued(s)
          \/ c.peer = NULL /\ IssuedN(s) = Issued(s) + 1
      BY <1>11, <1>12, <2>2, <3>1, <3>6, <3>7 DEF IssuedN, Issued
    <3>10. CtsStored(p, s, c)
      BY <1>1, <1>7, <3>1, <3>8, <3>9 DEF CtsStored, s, m
    <3> QED
      BY <1>3, <1>7, <1>11, <1>14, <2>5, <3>4, <3>5, <3>6, <3>10, CtsStoredKeepsInv
  <2> QED
    BY <2>7, <2>8
<1>15. ~(sreq[s].st = "active" /\ ~sreq[s].alloc)
  BY <1>4, <1>6, <1>12 DEF Issued, Completed
<1> QED
  BY <1>8, <1>13, <1>14, <1>15

-----------------------------------------------------------------------------
(* Steps of the receiver *)

(* Every connection to the receiver loses at most its first message.         *)
ToRShrinks ==
    \A p \in Rank : \E d \in {0, 1} :
        /\ Len(toR'[p]) = Len(toR[p]) - d
        /\ \A k \in 1..Len(toR'[p]) : toR'[p][k] = toR[p][k + d]

(* The rest of a channel holds only messages that the channel held. *)
LEMMA TailShrinks ==
    ASSUME TypeOK, NEW p \in Rank, toR[p] # <<>>, toR' = [toR EXCEPT ![p] = Tail(toR[p])]
    PROVE  ToRShrinks
<1>1. toR[p] \in Seq(ToRMessage) /\ toR \in [Rank -> Seq(ToRMessage)]
  BY DEF TypeOK
<1>2. toR'[p] = Tail(toR[p]) /\ \A x \in Rank : x # p => toR'[x] = toR[x]
  BY <1>1
<1>3. /\ Len(Tail(toR[p])) = Len(toR[p]) - 1
      /\ \A k \in 1..Len(Tail(toR[p])) : Tail(toR[p])[k] = toR[p][k + 1]
  BY <1>1
<1>4. \A x \in Rank : Len(toR[x]) \in Nat
  BY <1>1
<1> QED
  BY <1>2, <1>3, <1>4 DEF ToRShrinks

(* What is still announced was announced before.                             *)
LEMMA StillAnnounced ==
    ASSUME TypeOK, ToRShrinks, AnnouncedOnce,
           NEW p \in Rank, NEW k \in 1..Len(toR'[p]), NEW x \in SReq, InitAt(p, k, x)'
    PROVE  /\ p = RankOf[x] /\ sreq[x].st # "none"
           /\ \A l \in 1..Len(toR'[p]) : InitAt(p, l, x)' => l = k
           /\ \A j \in 1..Len(unexp) : unexp[j] # x
           /\ \A r \in RReq : rreq[r].peer # x
<1>1. PICK d \in {0, 1} :
        /\ Len(toR'[p]) = Len(toR[p]) - d
        /\ \A j \in 1..Len(toR'[p]) : toR'[p][j] = toR[p][j + d]
  BY DEF ToRShrinks
<1>2. Len(toR[p]) \in Nat
  BY DEF TypeOK
<1>3. ASSUME NEW j \in 1..Len(toR'[p]), InitAt(p, j, x)'
      PROVE  j + d \in 1..Len(toR[p]) /\ InitAt(p, j + d, x)
  <2>1. j + d \in 1..Len(toR[p])
    BY <1>1, <1>2
  <2> QED
    BY <1>1, <1>3, <2>1 DEF InitAt
<1>4. k + d \in 1..Len(toR[p]) /\ InitAt(p, k + d, x)
  BY <1>3
<1>5. /\ p = RankOf[x] /\ sreq[x].st # "none"
      /\ \A l \in 1..Len(toR[p]) : InitAt(p, l, x) => l = k + d
      /\ \A j \in 1..Len(unexp) : unexp[j] # x
      /\ \A r \in RReq : rreq[r].peer # x
  BY <1>4 DEF AnnouncedOnce
<1>6. ASSUME NEW l \in 1..Len(toR'[p]), InitAt(p, l, x)'
      PROVE  l = k
  <2>1. l + d = k + d
    BY <1>3, <1>5, <1>6
  <2> QED
    BY <1>1, <1>2, <2>1
<1> QED
  BY <1>5, <1>6

(* Neither pairs nor rounds change.                                          *)
LEMMA SamePeersKeepCts ==
    ASSUME TypeOK, OneClearToSend, UNCHANGED <<sreq, toS>>,
           \A x \in RReq : rreq'[x].peer = rreq[x].peer,
           \A x \in RReq : rreq[x].peer # NULL => rreq'[x].round = rreq[x].round
    PROVE  OneClearToSend'
<1>1. \A p \in Rank : \A k \in 1..Len(toS[p]) :
         toS[p][k].s # NULL /\ toS[p][k].r \in RReq
  <2>1. \A p \in Rank : \A k \in 1..Len(toS[p]) : toS[p][k] \in CtsMessage
    BY DEF TypeOK
  <2> QED
    BY <2>1, ReqAssumption DEF CtsMessage, Req
<1>2. \A s \in SReq : s # NULL /\ (sreq[s].peer # NULL => sreq[s].peer \in RReq)
  BY ReqAssumption DEF TypeOK, SendRequest, Req
<1>3. ASSUME NEW p \in Rank, NEW k \in 1..Len(toS[p])
      PROVE  /\ p = RankOf[toS[p][k].s] /\ rreq'[toS[p][k].r].peer = toS[p][k].s
             /\ sreq[toS[p][k].s].peer = NULL
             /\ rreq'[toS[p][k].r].round = Issued(toS[p][k].s) + 1
             /\ \A l \in 1..Len(toS[p]) : toS[p][l].s = toS[p][k].s => l = k
  BY <1>1 DEF OneClearToSend
<1>4. ASSUME NEW s \in SReq
      PROVE  /\ sreq[s].peer # NULL => /\ rreq'[sreq[s].peer].peer = s
                                       /\ rreq'[sreq[s].peer].round = Issued(s) + 1
             /\ (\A x \in RReq : rreq'[x].peer # s) => Issued(s) = 0
  BY <1>2 DEF OneClearToSend
<1>5. ASSUME NEW x \in RReq, rreq'[x].peer # NULL
      PROVE  /\ Issued(rreq[x].peer) <= rreq'[x].round
             /\ rreq'[x].round <= Completed(rreq[x].peer) + 1
  BY <1>5 DEF OneClearToSend
<1> QED
  BY <1>3, <1>4, <1>5 DEF OneClearToSend, Issued, Completed

(* A receiver step that pairs nothing and sends no CTS. *)
LEMMA RecvLocalKeepsInv ==
    ASSUME TypeOK, TypeOK', HandshakeInv, NEW r \in RReq, NEW c \in RecvRequest,
           rreq' = [rreq EXCEPT ![r] = c], ToRShrinks,
           UNCHANGED <<sreq, posted, unexp, toS, crashed>>,
           c.peer = rreq[r].peer, c.peer # NULL => c.round = rreq[r].round,
           c.st # "none",
           c.peer = NULL => /\ c.round = IF c.st = "active" THEN 1 ELSE 0
                            /\ c.st = "active" => c.cc >= 1,
           \A i \in 1..Len(recvq') : \E j \in 1..Len(recvq) : recvq'[i].r = recvq[j].r
    PROVE  HandshakeInv'
<1>1. rreq'[r] = c /\ \A x \in RReq : x # r => rreq'[x] = rreq[x]
  BY DEF TypeOK
<1>2. \A x \in RReq : rreq'[x].peer = rreq[x].peer
  BY <1>1
<1>3. \A x \in RReq : rreq[x].peer # NULL => rreq'[x].round = rreq[x].round
  BY <1>1
<1>4. SendRoundInv' /\ NoCrash'
  BY DEF HandshakeInv, SendRoundInv, NoCrash
<1>5. AnnouncedOnce'
  <2>1. AnnouncedOnce
    BY DEF HandshakeInv
  <2>2. ASSUME NEW p \in Rank, NEW k \in 1..Len(toR'[p]), NEW x \in SReq, InitAt(p, k, x)'
        PROVE  /\ p = RankOf[x] /\ sreq'[x].st # "none"
               /\ \A l \in 1..Len(toR'[p]) : InitAt(p, l, x)' => l = k
               /\ \A j \in 1..Len(unexp) : unexp[j] # x
               /\ \A y \in RReq : rreq'[y].peer # x
    BY <1>2, <2>1, <2>2, StillAnnounced
  <2>3. \A j \in 1..Len(unexp) :
          /\ sreq'[unexp[j]].st # "none"
          /\ \A l \in 1..Len(unexp) : unexp[l] = unexp[j] => l = j
          /\ \A y \in RReq : rreq'[y].peer # unexp[j]
    BY <1>2, <2>1 DEF AnnouncedOnce
  <2>4. \A y \in RReq : rreq'[y].peer # NULL =>
          /\ sreq'[rreq'[y].peer].st # "none" /\ RankOf[rreq'[y].peer] = RankOf[y]
          /\ \A x \in RReq : rreq'[x].peer = rreq'[y].peer => x = y
    BY <1>2, <2>1 DEF AnnouncedOnce
  <2> QED
    BY <2>2, <2>3, <2>4 DEF AnnouncedOnce
<1>6. UnpairedRecv'
  <2>1. UnpairedRecv
    BY DEF HandshakeInv
  <2>2. \A i \in 1..Len(posted) : posted[i] \in RReq
    BY DEF TypeOK
  <2>3. \A i \in 1..Len(posted) :
          /\ rreq'[posted[i]].peer = NULL /\ rreq'[posted[i]].st # "none"
          /\ \A l \in 1..Len(posted) : posted[l] = posted[i] => l = i
    BY <1>1, <1>2, <2>1, <2>2 DEF UnpairedRecv
  <2>4. ASSUME NEW x \in RReq, rreq'[x].peer = NULL
        PROVE  /\ rreq'[x].round = IF rreq'[x].st = "active" THEN 1 ELSE 0
               /\ rreq'[x].st = "active" => rreq'[x].cc >= 1
    BY <1>1, <2>1, <2>4 DEF UnpairedRecv
  <2>5. ASSUME NEW x \in RReq, rreq'[x].peer = NULL, NEW i \in 1..Len(recvq')
        PROVE  recvq'[i].r # x
    <3>1. PICK j \in 1..Len(recvq) : recvq'[i].r = recvq[j].r
      OBVIOUS
    <3> QED
      BY <1>2, <2>1, <2>5, <3>1 DEF UnpairedRecv
  <2>6. \A x \in RReq : rreq'[x].st = "none" => rreq'[x].peer = NULL
    BY <1>1, <2>1 DEF UnpairedRecv
  <2> QED
    BY <2>3, <2>4, <2>5, <2>6 DEF UnpairedRecv
<1>7. OneClearToSend'
  BY <1>2, <1>3, SamePeersKeepCts DEF HandshakeInv
<1> QED
  BY <1>4, <1>5, <1>6, <1>7 DEF HandshakeInv

(* Completing and freeing a receive request preserve the handshake invariant. *)
LEMMA WaitFreeRecvKeepInv ==
    ASSUME TypeOK, TypeOK', HandshakeInv, NEW r \in RReq, WaitRecv(r) \/ FreeRecv(r)
    PROVE  HandshakeInv'
<1> DEFINE c == rreq'[r]
<1>1. rreq[r] \in RecvRequest /\ rreq \in [RReq -> RecvRequest]
  BY DEF TypeOK
<1>3. c \in RecvRequest
  BY DEF TypeOK
<1>4. c.st \in {"inactive", "freed"} /\ c.peer = rreq[r].peer /\ c.round = rreq[r].round
  <2>1. CASE WaitRecv(r)
    BY <1>1, <2>1 DEF WaitRecv, RecvRequest
  <2>2. CASE FreeRecv(r)
    BY <1>1, <2>2 DEF FreeRecv, RecvRequest
  <2> QED
    BY <2>1, <2>2
<1>5. rreq' = [rreq EXCEPT ![r] = c]
  BY <1>1 DEF WaitRecv, FreeRecv
<1> HIDE DEF c
<1>6. rreq[r].peer = NULL => rreq[r].round = 0
  BY DEF WaitRecv, FreeRecv, HandshakeInv, UnpairedRecv
<1>7. ToRShrinks
  BY DEF WaitRecv, FreeRecv, ToRShrinks, TypeOK
<1>8. UNCHANGED <<sreq, posted, unexp, recvq, toS, crashed>>
  BY DEF WaitRecv, FreeRecv
<1>9. \A i \in 1..Len(recvq') : \E j \in 1..Len(recvq) : recvq'[i].r = recvq[j].r
  BY <1>8
<1> QED
  BY <1>3, <1>4, <1>5, <1>6, <1>7, <1>8, <1>9, RecvLocalKeepsInv

(* A sub-receive completes. *)
LEMMA RecvDataKeepsInv ==
    ASSUME TypeOK, TypeOK', HandshakeInv, NEW p \in Rank, RecvData(p)
    PROVE  HandshakeInv'
<1>1. PICK i \in DOMAIN recvq :
        /\ rreq' = [rreq EXCEPT ![recvq[i].r].cc = @ - 1,
                      ![recvq[i].r].got = @ \cup {[s |-> Head(toR[p]).s,
                          round |-> Head(toR[p]).round, from |-> Head(toR[p]).from,
                          into |-> recvq[i].into]}]
        /\ recvq' = RemoveAt(recvq, i)
  BY DEF RecvData
<1> DEFINE r == recvq[i].r
           g == rreq[r].got \cup {[s |-> Head(toR[p]).s,
                          round |-> Head(toR[p]).round, from |-> Head(toR[p]).from,
                          into |-> recvq[i].into]}
           c == [rreq[r] EXCEPT !.cc = rreq[r].cc - 1, !.got = g]
<1>2. recvq \in Seq(SubRecv) /\ i \in 1..Len(recvq) /\ recvq[i] \in SubRecv
  BY DEF TypeOK
<1>3. r \in RReq
  BY <1>2 DEF SubRecv
<1>4. rreq' = [rreq EXCEPT ![r] = c]
  BY <1>1, <1>3 DEF TypeOK
<1> HIDE DEF g, r
<1>5. rreq[r] \in RecvRequest /\ rreq'[r] = c
  BY <1>3, <1>4 DEF TypeOK
<1>6. c \in RecvRequest
  BY <1>3, <1>5 DEF TypeOK
<1>7. c.st = rreq[r].st /\ c.peer = rreq[r].peer /\ c.round = rreq[r].round
  BY <1>5 DEF RecvRequest
<1> HIDE DEF c
<1>8. rreq[r].peer # NULL /\ rreq[r].st # "none"
  BY <1>2, <1>3 DEF HandshakeInv, UnpairedRecv, r
<1>9. ToRShrinks /\ UNCHANGED <<sreq, posted, unexp, toS, crashed>>
  BY TailShrinks DEF RecvData
<1>10. \A k \in 1..Len(recvq') : \E j \in 1..Len(recvq) : recvq'[k].r = recvq[j].r
  <2>1. DOMAIN RemoveAt(recvq, i) = 1..(Len(recvq) - 1)
    BY <1>2, RemoveAtElements
  <2>2. Len(recvq') = Len(recvq) - 1
    BY <1>1, <1>2, RemoveAtFacts
  <2>3. \A k \in DOMAIN RemoveAt(recvq, i) :
          \E l \in 1..Len(recvq) : RemoveAt(recvq, i)[k] = recvq[l]
    BY <1>2, RemoveAtElements
  <2> QED
    BY <1>1, <2>1, <2>2, <2>3
<1> QED
  BY <1>3, <1>4, <1>6, <1>7, <1>8, <1>9, <1>10, RecvLocalKeepsInv

(* The receive request r, whose record becomes c, is paired with s, no CTS   *)
(* is under way to s, and the step sends one unless r is not started.        *)
CtsSent(r, s, c) ==
    /\ rreq' = [rreq EXCEPT ![r] = c] /\ sreq' = sreq
    /\ c.peer = s /\ rreq[r].peer \in {NULL, s} /\ RankOf[s] = RankOf[r]
    /\ \A x \in RReq : x # r => rreq[x].peer # s
    /\ sreq[s].peer = NULL
    /\ \A p \in Rank : \A k \in 1..Len(toS[p]) : toS[p][k].s # s
    /\ Issued(s) <= c.round /\ c.round <= Completed(s) + 1
    /\ \/ toS' = toS
       \/ /\ \E m \in CtsMessage :
                /\ m.s = s /\ m.r = r
                /\ toS' = [toS EXCEPT ![RankOf[r]] = Append(toS[RankOf[r]], m)]
          /\ c.round = Issued(s) + 1

(* The clear-to-send of a started round is the only one of its pair. *)
LEMMA CtsSentKeepsCts ==
    ASSUME TypeOK, OneClearToSend, NEW r \in RReq, NEW s \in SReq, NEW c \in RecvRequest,
           CtsSent(r, s, c)
    PROVE  OneClearToSend'
<1>1. /\ sreq \in [SReq -> SendRequest] /\ rreq \in [RReq -> RecvRequest]
      /\ toS \in [Rank -> Seq(CtsMessage)] /\ RankOf[r] \in Rank
  BY ArgAssumption DEF TypeOK, Req
<1>2. rreq'[r] = c /\ \A x \in RReq : x # r => rreq'[x] = rreq[x]
  BY <1>1 DEF CtsSent
<1>3. s # NULL /\ sreq' = sreq /\ c.peer = s /\ sreq[s].peer = NULL /\ RankOf[s] = RankOf[r]
  BY ReqAssumption DEF CtsSent, Req
<1>4. \A x \in SReq : x # NULL /\ (sreq[x].peer # NULL => sreq[x].peer \in RReq)
  BY <1>1, ReqAssumption DEF SendRequest, Req
<1>5. \A p \in Rank : \A k \in 1..Len(toS[p]) : toS[p][k].s \in SReq /\ toS[p][k].r \in RReq
  <2>1. \A p \in Rank : \A k \in 1..Len(toS[p]) : toS[p][k] \in CtsMessage
    BY <1>1
  <2> QED
    BY <2>1 DEF CtsMessage
<1>6. \A p \in Rank : \A k \in 1..Len(toS[p]) :
        /\ p = RankOf[toS[p][k].s] /\ rreq[toS[p][k].r].peer = toS[p][k].s
        /\ sreq[toS[p][k].s].peer = NULL /\ rreq[toS[p][k].r].round = Issued(toS[p][k].s) + 1
        /\ \A l \in 1..Len(toS[p]) : toS[p][l].s = toS[p][k].s => l = k
  BY DEF OneClearToSend
<1>7. \A p \in Rank : \A k \in 1..Len(toS[p]) : toS[p][k].s # s /\ toS[p][k].r # r
  <2>1. \A p \in Rank : \A k \in 1..Len(toS[p]) : toS[p][k].s # s
    BY DEF CtsSent
  <2>2. rreq[r].peer \in {NULL, s}
    BY DEF CtsSent
  <2> QED
    BY <1>4, <1>5, <1>6, <2>1, <2>2
<1> DEFINE CtsOK(p, k) ==
      /\ p = RankOf[toS'[p][k].s] /\ rreq'[toS'[p][k].r].peer = toS'[p][k].s
      /\ sreq[toS'[p][k].s].peer = NULL
      /\ rreq'[toS'[p][k].r].round = Issued(toS'[p][k].s) + 1
      /\ \A l \in 1..Len(toS'[p]) : toS'[p][l].s = toS'[p][k].s => l = k
<1>8. ASSUME NEW p \in Rank, NEW k \in 1..Len(toS[p]), toS'[p] = toS[p]
      PROVE  CtsOK(p, k)
  <2>1. rreq'[toS[p][k].r] = rreq[toS[p][k].r]
    BY <1>2, <1>5, <1>7
  <2> QED
    BY <1>6, <1>8, <2>1
<1>9. ASSUME NEW p \in Rank, NEW k \in 1..Len(toS'[p])
      PROVE  CtsOK(p, k)
  <2>1. CASE toS' = toS \/ p # RankOf[r]
    <3>1. toS'[p] = toS[p]
      BY <1>1, <2>1 DEF CtsSent
    <3> QED
      BY <1>8, <3>1
  <2>2. CASE toS' # toS /\ p = RankOf[r]
    <3>1. c.round = Issued(s) + 1
      BY <2>2 DEF CtsSent
    <3>2. PICK m \in CtsMessage : m.s = s /\ m.r = r
             /\ toS' = [toS EXCEPT ![RankOf[r]] = Append(toS[RankOf[r]], m)]
      BY <2>2 DEF CtsSent
    <3>3. toS'[p] = Append(toS[p], m) /\ toS[p] \in Seq(CtsMessage)
      BY <1>1, <2>2, <3>2
    <3>4. /\ Len(toS[p]) \in Nat /\ Len(toS'[p]) = Len(toS[p]) + 1
          /\ toS'[p][Len(toS[p]) + 1] = m
          /\ \A l \in 1..Len(toS[p]) : toS'[p][l] = toS[p][l]
      BY <3>3
    <3>5. \A l \in 1..Len(toS'[p]) : l \in 1..Len(toS[p]) \/ l = Len(toS[p]) + 1
      BY <3>4
    <3>6. CASE k \in 1..Len(toS[p])
      <4>1. /\ toS'[p][k] = toS[p][k] /\ toS[p][k].s # s
            /\ rreq'[toS[p][k].r] = rreq[toS[p][k].r]
        BY <1>2, <1>5, <1>7, <3>4, <3>6
      <4>2. \A l \in 1..Len(toS'[p]) : toS'[p][l].s = toS[p][k].s => l = k
        BY <1>6, <3>2, <3>4, <3>5, <3>6, <4>1
      <4> QED
        BY <1>6, <3>6, <4>1, <4>2
    <3>7. CASE k = Len(toS[p]) + 1
      <4>1. toS'[p][k].s = s /\ toS'[p][k].r = r
        BY <3>2, <3>4, <3>7
      <4>2. \A l \in 1..Len(toS'[p]) : toS'[p][l].s = s => l = k
        BY <1>7, <3>4, <3>5, <3>7
      <4> QED
        BY <1>2, <1>3, <2>2, <3>1, <4>1, <4>2
    <3> QED
      BY <3>5, <3>6, <3>7
  <2> QED
    BY <2>1, <2>2
<1>10. ASSUME NEW x \in SReq
       PROVE  /\ sreq[x].peer # NULL => /\ rreq'[sreq[x].peer].peer = x
                                        /\ rreq'[sreq[x].peer].round = Issued(x) + 1
              /\ (\A y \in RReq : rreq'[y].peer # x) => Issued(x) = 0
  <2>1. CASE x = s
    BY <1>2, <1>3, <2>1
  <2>2. CASE x # s
    <3>1. rreq[r].peer # x
      BY <1>4, <2>2 DEF CtsSent
    <3>2. sreq[x].peer # NULL => rreq[sreq[x].peer].peer = x /\ rreq[sreq[x].peer].round = Issued(x) + 1
      BY DEF OneClearToSend
    <3>3. (\A y \in RReq : rreq[y].peer # x) => Issued(x) = 0
      BY DEF OneClearToSend
    <3> QED
      BY <1>2, <1>4, <3>1, <3>2, <3>3
  <2> QED
    BY <2>1, <2>2
<1>11. ASSUME NEW x \in RReq, rreq'[x].peer # NULL
       PROVE  /\ Issued(rreq'[x].peer) <= rreq'[x].round
              /\ rreq'[x].round <= Completed(rreq'[x].peer) + 1
  <2>1. CASE x = r
    BY <1>2, <2>1 DEF CtsSent
  <2>2. CASE x # r
    BY <1>2, <1>11, <2>2 DEF OneClearToSend
  <2> QED
    BY <2>1, <2>2
<1> QED
  BY <1>3, <1>9, <1>10, <1>11 DEF OneClearToSend, Issued, Completed

(* A receive request is paired: the rest of the invariant. *)
NewPair(r, s, c) ==
    /\ rreq' = [rreq EXCEPT ![r] = c] /\ sreq' = sreq
    /\ rreq[r].peer = NULL /\ c.peer = s /\ c.st # "none" /\ RankOf[s] = RankOf[r]
    /\ sreq[s].st # "none" /\ \A x \in RReq : rreq[x].peer # s
    /\ ToRShrinks
    /\ \A p \in Rank : \A k \in 1..Len(toR'[p]) : toR'[p][k].type = "SEND_INIT" => toR'[p][k].s # s
    /\ \A j \in 1..Len(unexp') :
          /\ unexp'[j] # s
          /\ \E l \in 1..Len(unexp) : unexp'[j] = unexp[l]
          /\ \A l \in 1..Len(unexp') : unexp'[l] = unexp'[j] => l = j
    /\ \A i \in 1..Len(posted') :
          /\ posted'[i] # r
          /\ \E l \in 1..Len(posted) : posted'[i] = posted[l]
          /\ \A l \in 1..Len(posted') : posted'[l] = posted'[i] => l = i
    /\ \A i \in 1..Len(recvq') : recvq'[i].r = r \/ \E j \in 1..Len(recvq) : recvq'[i] = recvq[j]

(* Pairing a send with a receive request keeps each announced at most once. *)
LEMMA NewPairKeepsPairing ==
    ASSUME TypeOK, TypeOK', AnnouncedOnce, UnpairedRecv,
           NEW r \in RReq, NEW s \in SReq, NEW c \in RecvRequest, NewPair(r, s, c)
    PROVE  AnnouncedOnce' /\ UnpairedRecv'
<1>1. rreq'[r] = c /\ \A x \in RReq : x # r => rreq'[x] = rreq[x]
  BY DEF NewPair, TypeOK
<1>2. s # NULL /\ sreq' = sreq /\ c.peer = s /\ rreq[r].peer = NULL /\ c.st # "none"
  BY ReqAssumption DEF NewPair, Req
<1>3. ASSUME NEW p \in Rank, NEW k \in 1..Len(toR'[p]), NEW x \in SReq, InitAt(p, k, x)'
      PROVE  /\ p = RankOf[x] /\ sreq'[x].st # "none"
             /\ \A l \in 1..Len(toR'[p]) : InitAt(p, l, x)' => l = k
             /\ \A j \in 1..Len(unexp') : unexp'[j] # x
             /\ \A y \in RReq : rreq'[y].peer # x
  <2>0. ToRShrinks
    BY DEF NewPair
  <2>1. x # s
    BY <1>3 DEF NewPair, InitAt
  <2>2. /\ p = RankOf[x] /\ sreq[x].st # "none"
        /\ \A l \in 1..Len(toR'[p]) : InitAt(p, l, x)' => l = k
        /\ \A j \in 1..Len(unexp) : unexp[j] # x
        /\ \A y \in RReq : rreq[y].peer # x
    BY <1>3, <2>0, StillAnnounced
  <2>3. \A j \in 1..Len(unexp') : unexp'[j] # x
    <3>1. \A j \in 1..Len(unexp') : \E l \in 1..Len(unexp) : unexp'[j] = unexp[l]
      BY DEF NewPair
    <3> QED
      BY <2>2, <3>1
  <2> QED
    BY <1>1, <1>2, <2>1, <2>2, <2>3
<1>4. ASSUME NEW j \in 1..Len(unexp')
      PROVE  /\ sreq'[unexp'[j]].st # "none"
             /\ \A l \in 1..Len(unexp') : unexp'[l] = unexp'[j] => l = j
             /\ \A y \in RReq : rreq'[y].peer # unexp'[j]
  <2>1. /\ unexp'[j] # s /\ \A l \in 1..Len(unexp') : unexp'[l] = unexp'[j] => l = j
    BY DEF NewPair
  <2>2. PICK l \in 1..Len(unexp) : unexp'[j] = unexp[l]
    BY DEF NewPair
  <2>3. sreq[unexp[l]].st # "none" /\ \A y \in RReq : rreq[y].peer # unexp[l]
    BY DEF AnnouncedOnce
  <2> QED
    BY <1>1, <1>2, <2>1, <2>2, <2>3
<1>5. ASSUME NEW y \in RReq, rreq'[y].peer # NULL
      PROVE  /\ sreq'[rreq'[y].peer].st # "none" /\ RankOf[rreq'[y].peer] = RankOf[y]
             /\ \A x \in RReq : rreq'[x].peer = rreq'[y].peer => x = y
  <2>1. \A x \in RReq : rreq[x].peer # s
    BY DEF NewPair
  <2>2. CASE y = r
    BY <1>1, <1>2, <2>1, <2>2 DEF NewPair
  <2>3. CASE y # r
    BY <1>1, <1>2, <1>5, <2>1, <2>3 DEF AnnouncedOnce
  <2> QED
    BY <2>2, <2>3
<1>6. AnnouncedOnce'
  BY <1>3, <1>4, <1>5 DEF AnnouncedOnce
<1>7. ASSUME NEW i \in 1..Len(posted')
      PROVE  /\ rreq'[posted'[i]].peer = NULL /\ rreq'[posted'[i]].st # "none"
             /\ \A l \in 1..Len(posted') : posted'[l] = posted'[i] => l = i
  <2>1. /\ posted'[i] # r /\ posted'[i] \in RReq
        /\ \A l \in 1..Len(posted') : posted'[l] = posted'[i] => l = i
    BY DEF NewPair, TypeOK
  <2>2. PICK l \in 1..Len(posted) : posted'[i] = posted[l]
    BY DEF NewPair
  <2>3. rreq[posted[l]].peer = NULL /\ rreq[posted[l]].st # "none"
    BY DEF UnpairedRecv
  <2> QED
    BY <1>1, <2>1, <2>2, <2>3
<1>8. ASSUME NEW x \in RReq, rreq'[x].peer = NULL
      PROVE  /\ rreq'[x].round = IF rreq'[x].st = "active" THEN 1 ELSE 0
             /\ rreq'[x].st = "active" => rreq'[x].cc >= 1
             /\ \A i \in 1..Len(recvq') : recvq'[i].r # x
  <2>1. x # r /\ rreq'[x] = rreq[x]
    BY <1>1, <1>2, <1>8
  <2>2. \A i \in 1..Len(recvq') : recvq'[i].r = r \/ \E j \in 1..Len(recvq) : recvq'[i] = recvq[j]
    BY DEF NewPair
  <2>3. \A j \in 1..Len(recvq) : recvq[j].r # x
    BY <1>8, <2>1 DEF UnpairedRecv
  <2>4. \A i \in 1..Len(recvq') : recvq'[i].r # x
    BY <2>1, <2>2, <2>3
  <2>5. /\ rreq[x].round = IF rreq[x].st = "active" THEN 1 ELSE 0
        /\ rreq[x].st = "active" => rreq[x].cc >= 1
    BY <1>8, <2>1 DEF UnpairedRecv
  <2> QED
    BY <2>1, <2>4, <2>5
<1>9. \A x \in RReq : rreq'[x].st = "none" => rreq'[x].peer = NULL
  BY <1>1, <1>2 DEF UnpairedRecv
<1>10. UnpairedRecv'
  BY <1>7, <1>8, <1>9 DEF UnpairedRecv
<1> QED
  BY <1>6, <1>10

(* Nothing has been exchanged with a send request that is not yet paired.    *)
LEMMA UnpairedSend ==
    ASSUME TypeOK, HandshakeInv, NEW s \in SReq, \A x \in RReq : rreq[x].peer # s
    PROVE  /\ sreq[s].peer = NULL /\ Issued(s) = 0 /\ Completed(s) \in Nat
           /\ \A p \in Rank : \A k \in 1..Len(toS[p]) : toS[p][k].s # s
<1>1. sreq[s] \in SendRequest /\ RoundOK(sreq[s])
  BY DEF TypeOK, HandshakeInv, SendRoundInv
<1>2. sreq[s].peer = NULL
  <2>1. sreq[s].peer # NULL => sreq[s].peer \in RReq
    BY <1>1 DEF SendRequest
  <2> QED
    BY <2>1 DEF HandshakeInv, OneClearToSend
<1>3. Issued(s) = 0
  BY DEF HandshakeInv, OneClearToSend
<1>4. sreq[s].round \in Nat
  BY <1>1, BoundAssumption DEF SendRequest
<1>5. Completed(s) \in Nat
  BY <1>1, <1>4 DEF Completed, RoundOK
<1>6. ASSUME NEW p \in Rank, NEW k \in 1..Len(toS[p]) PROVE toS[p][k].s # s
  <2>1. toS[p][k] \in CtsMessage
    BY DEF TypeOK
  <2>2. toS[p][k].r \in RReq
    BY <2>1 DEF CtsMessage
  <2>3. rreq[toS[p][k].r].peer = toS[p][k].s
    BY DEF HandshakeInv, OneClearToSend
  <2> QED
    BY <2>2, <2>3
<1> QED
  BY <1>2, <1>3, <1>5, <1>6

(* Elements that were distinct stay distinct when one is removed.            *)
LEMMA RemoveKeepsDistinct ==
    ASSUME NEW S, NEW q \in Seq(S), NEW i \in 1..Len(q),
           \A j, l \in 1..Len(q) : q[l] = q[j] => l = j
    PROVE  \A j \in 1..Len(RemoveAt(q, i)) :
             /\ RemoveAt(q, i)[j] # q[i]
             /\ \E l \in 1..Len(q) : RemoveAt(q, i)[j] = q[l]
             /\ \A l \in 1..Len(RemoveAt(q, i)) : RemoveAt(q, i)[l] = RemoveAt(q, i)[j] => l = j
<1> DEFINE d == RemoveAt(q, i)
<1>1. Len(d) = Len(q) - 1 /\ Len(q) \in Nat
  BY RemoveAtFacts
<1>2. \A k \in 1..(Len(q) - 1) : d[k] = IF k < i THEN q[k] ELSE q[k + 1]
  BY RemoveAtFacts
<1> HIDE DEF d
<1>3. ASSUME NEW j \in 1..Len(d)
      PROVE  \E a \in 1..Len(q) : d[j] = q[a] /\ a = (IF j < i THEN j ELSE j + 1) /\ a # i
  BY <1>1, <1>2
<1>4. ASSUME NEW j \in 1..Len(d)
      PROVE  /\ d[j] # q[i]
             /\ \E l \in 1..Len(q) : d[j] = q[l]
             /\ \A l \in 1..Len(d) : d[l] = d[j] => l = j
  <2>1. PICK a \in 1..Len(q) : d[j] = q[a] /\ a = (IF j < i THEN j ELSE j + 1) /\ a # i
    BY <1>3
  <2>2. ASSUME NEW l \in 1..Len(d), d[l] = d[j] PROVE l = j
    <3>1. PICK b \in 1..Len(q) : d[l] = q[b] /\ b = (IF l < i THEN l ELSE l + 1) /\ b # i
      BY <1>3
    <3>2. a = b
      BY <2>1, <2>2, <3>1
    <3> QED
      BY <1>1, <2>1, <3>1, <3>2
  <2> QED
    BY <2>1, <2>2
<1> QED
  BY <1>4 DEF d

(* MPID_Precv_init preserves the handshake invariant. *)
LEMMA PrecvInitKeepsInv ==
    ASSUME TypeOK, TypeOK', HandshakeInv, NEW r \in RReq, Precv_init(r)
    PROVE  HandshakeInv'
<1>1. /\ rreq[r].st = "none" /\ rreq[r].peer = NULL
      /\ UNCHANGED <<sreq, recvq, toR, toS, crashed>>
  BY DEF Precv_init, HandshakeInv, UnpairedRecv
<1>2. \A i \in 1..Len(posted) : posted[i] # r
  BY <1>1 DEF HandshakeInv, UnpairedRecv
<1>3. InitRecv(r) \in RecvRequest
  <2>1. Parts[r] \in Nat \ {0} /\ Earlier(r, RReq, rreq) \in Nat
    BY ArgAssumption, ReqAssumption, EarlierNat DEF Req
  <2> QED
    BY <2>1, BoundAssumption DEF InitRecv, RecvRequest, States
<1>4. ToRShrinks
  BY <1>1 DEF ToRShrinks, TypeOK
<1>5. SendRoundInv' /\ NoCrash'
  BY <1>1 DEF HandshakeInv, SendRoundInv, NoCrash
<1>6. ASSUME NEW i \in DOMAIN unexp, FirstMatch(unexp, r, i),
             rreq' = [rreq EXCEPT ![r] = CheckNumRequests([InitRecv(r) EXCEPT !.peer = unexp[i]],
                                                          Parts[r], Parts[unexp[i]])],
             unexp' = RemoveAt(unexp, i), UNCHANGED posted
      PROVE  HandshakeInv'
  <2> DEFINE s == unexp[i]
             c == CheckNumRequests([InitRecv(r) EXCEPT !.peer = s], Parts[r], Parts[s])
  <2>1. s \in SReq /\ i \in 1..Len(unexp) /\ unexp \in Seq(SReq)
    BY DEF TypeOK
  <2>2. RankOf[s] = RankOf[r] /\ s # NULL /\ Parts[s] \in Nat \ {0} /\ Parts[r] \in Nat \ {0}
    BY <1>6, <2>1, ArgAssumption, ReqAssumption DEF FirstMatch, Match, Req
  <2>3. /\ [InitRecv(r) EXCEPT !.peer = s] \in RecvRequest
        /\ [InitRecv(r) EXCEPT !.peer = s].peer = s
        /\ [InitRecv(r) EXCEPT !.peer = s].st = "inactive"
        /\ [InitRecv(r) EXCEPT !.peer = s].round = 0
    BY <1>3, <2>1 DEF RecvRequest, InitRecv
  <2>4. c \in RecvRequest /\ c.peer = s /\ c.st = "inactive" /\ c.round = 0
    BY <2>2, <2>3, CheckNumRecv
  <2>5. rreq' = [rreq EXCEPT ![r] = c]
    BY <1>6
  <2> HIDE DEF c
  <2>6. /\ \A x \in RReq : rreq[x].peer # s
        /\ sreq[s].st # "none"
        /\ \A j, l \in 1..Len(unexp) : unexp[l] = unexp[j] => l = j
    BY <2>1 DEF HandshakeInv, AnnouncedOnce
  <2>7. \A j \in 1..Len(unexp') :
          /\ unexp'[j] # s
          /\ \E l \in 1..Len(unexp) : unexp'[j] = unexp[l]
          /\ \A l \in 1..Len(unexp') : unexp'[l] = unexp'[j] => l = j
    BY <1>6, <2>1, <2>6, RemoveKeepsDistinct
  <2>8. \A p \in Rank : \A k \in 1..Len(toR[p]) : toR[p][k].type = "SEND_INIT" => toR[p][k].s # s
    <3>1. \A p \in Rank : \A k \in 1..Len(toR[p]) : ~InitAt(p, k, s)
      BY <2>1 DEF HandshakeInv, AnnouncedOnce
    <3> QED
      BY <3>1 DEF InitAt
  <2>9. NewPair(r, s, c)
    <3>1. \A j \in 1..Len(posted') :
          /\ posted'[j] # r
          /\ \E l \in 1..Len(posted) : posted'[j] = posted[l]
          /\ \A l \in 1..Len(posted') : posted'[l] = posted'[j] => l = j
      BY <1>2, <1>6 DEF HandshakeInv, UnpairedRecv
    <3> HIDE DEF s
    <3> QED
      BY <1>1, <1>4, <2>2, <2>4, <2>5, <2>6, <2>7, <2>8, <3>1 DEF NewPair
  <2>10. AnnouncedOnce' /\ UnpairedRecv'
    BY <2>1, <2>4, <2>9, NewPairKeepsPairing DEF HandshakeInv
  <2>11. CtsSent(r, s, c)
    <3>1. /\ sreq[s].peer = NULL /\ Issued(s) = 0 /\ Completed(s) \in Nat
          /\ \A p \in Rank : \A k \in 1..Len(toS[p]) : toS[p][k].s # s
      BY <2>1, <2>6, UnpairedSend
    <3> HIDE DEF s
    <3> QED
      BY <1>1, <2>2, <2>4, <2>5, <2>6, <3>1 DEF CtsSent
  <2>12. OneClearToSend'
    BY <2>1, <2>4, <2>11, CtsSentKeepsCts DEF HandshakeInv
  <2> QED
    BY <1>5, <2>10, <2>12 DEF HandshakeInv
<1>7. ASSUME posted' = Append(posted, r),
             rreq' = [rreq EXCEPT ![r] = [InitRecv(r) EXCEPT !.ref = 2]], UNCHANGED unexp
      PROVE  HandshakeInv'
  <2> DEFINE c == [InitRecv(r) EXCEPT !.ref = 2]
  <2>1. c \in RecvRequest /\ c.peer = NULL /\ c.st = "inactive" /\ c.round = 0
    BY <1>3 DEF InitRecv, RecvRequest
  <2> HIDE DEF c
  <2>2. rreq'[r] = c /\ \A x \in RReq : x # r => rreq'[x] = rreq[x]
    BY <1>7 DEF TypeOK, c
  <2>3. \A x \in RReq : rreq'[x].peer = rreq[x].peer
    BY <1>1, <2>1, <2>2
  <2>4. AnnouncedOnce'
    BY <1>1, <1>7, <2>3 DEF HandshakeInv, AnnouncedOnce, InitAt
  <2>5. UnpairedRecv'
    <3>0. posted \in Seq(RReq) /\ posted' \in Seq(RReq)
      BY DEF TypeOK
    <3>1. /\ Len(posted) \in Nat /\ Len(posted') = Len(posted) + 1
          /\ posted'[Len(posted) + 1] = r
          /\ \A i \in 1..Len(posted) : posted'[i] = posted[i] /\ posted[i] \in RReq
      BY <1>7, <3>0
    <3>2. \A i \in 1..Len(posted') : i \in 1..Len(posted) \/ i = Len(posted) + 1
      BY <3>1
    <3>3. \A i \in 1..Len(posted) :
            /\ rreq[posted[i]].peer = NULL /\ rreq[posted[i]].st # "none"
            /\ \A l \in 1..Len(posted) : posted[l] = posted[i] => l = i
      BY DEF HandshakeInv, UnpairedRecv
    <3>4. ASSUME NEW i \in 1..Len(posted')
          PROVE  /\ rreq'[posted'[i]].peer = NULL /\ rreq'[posted'[i]].st # "none"
                 /\ \A l \in 1..Len(posted') : posted'[l] = posted'[i] => l = i
      <4>1. CASE i \in 1..Len(posted)
        BY <1>2, <2>2, <3>1, <3>2, <3>3, <4>1
      <4>2. CASE i = Len(posted) + 1
        BY <1>2, <2>1, <2>2, <3>1, <3>2, <4>2
      <4> QED
        BY <3>2, <4>1, <4>2
    <3>5. ASSUME NEW x \in RReq, rreq'[x].peer = NULL
          PROVE  /\ rreq'[x].round = IF rreq'[x].st = "active" THEN 1 ELSE 0
                 /\ rreq'[x].st = "active" => rreq'[x].cc >= 1
                 /\ \A i \in 1..Len(recvq) : recvq[i].r # x
      BY <1>1, <2>1, <2>2, <3>5 DEF HandshakeInv, UnpairedRecv
    <3>6. \A x \in RReq : rreq'[x].st = "none" => rreq'[x].peer = NULL
      BY <2>1, <2>2 DEF HandshakeInv, UnpairedRecv
    <3> QED
      BY <1>1, <3>4, <3>5, <3>6 DEF UnpairedRecv
  <2>6. OneClearToSend'
    <3>1. \A x \in RReq : rreq[x].peer # NULL => rreq'[x].round = rreq[x].round
      BY <1>1, <2>2
    <3> QED
      BY <1>1, <2>3, <3>1, SamePeersKeepCts DEF HandshakeInv
  <2> QED
    BY <1>5, <2>4, <2>5, <2>6 DEF HandshakeInv
<1> QED
  BY <1>6, <1>7 DEF Precv_init

(* The callback of SEND_INIT preserves the handshake invariant. *)
LEMMA RecvSendInitKeepsInv ==
    ASSUME TypeOK, TypeOK', HandshakeInv, NEW p0 \in Rank, RecvSendInit(p0)
    PROVE  HandshakeInv'
<1> DEFINE s == Head(toR[p0]).s
<1>1. /\ toR[p0] # <<>> /\ Head(toR[p0]).type = "SEND_INIT"
      /\ toR' = [toR EXCEPT ![p0] = Tail(toR[p0])] /\ UNCHANGED <<sreq, crashed>>
  BY ZenonT(30) DEF RecvSendInit
<1>2. /\ toR[p0] \in Seq(ToRMessage) /\ 1 \in 1..Len(toR[p0]) /\ Head(toR[p0]) = toR[p0][1]
      /\ toR \in [Rank -> Seq(ToRMessage)]
  BY <1>1, HeadTailProperties DEF TypeOK
<1>3. toR[p0][1] \in ToRMessage
  BY <1>2
<1>4. s \in SReq /\ InitAt(p0, 1, s)
  BY <1>1, <1>2, <1>3 DEF ToRMessage, InitAt
<1>5. ToRShrinks
  BY <1>1, TailShrinks, ZenonT(30)
<1>6. /\ p0 = RankOf[s] /\ sreq[s].st # "none"
      /\ \A l \in 1..Len(toR[p0]) : InitAt(p0, l, s) => l = 1
      /\ \A j \in 1..Len(unexp) : unexp[j] # s
      /\ \A r \in RReq : rreq[r].peer # s
  BY <1>2, <1>4 DEF HandshakeInv, AnnouncedOnce
<1> HIDE DEF s
<1>8. \A p \in Rank : \A k \in 1..Len(toR'[p]) : toR'[p][k].type = "SEND_INIT" => toR'[p][k].s # s
  <2> SUFFICES ASSUME NEW p \in Rank, NEW k \in 1..Len(toR'[p]),
                      toR'[p][k].type = "SEND_INIT", toR'[p][k].s = s
               PROVE  FALSE
    OBVIOUS
  <2>1. CASE p = p0
    <3>1. toR'[p0] = Tail(toR[p0])
      BY <1>1, <1>2
    <3>2. k + 1 \in 1..Len(toR[p0]) /\ toR'[p0][k] = toR[p0][k + 1] /\ k \in Nat
      BY <1>1, <1>2, <2>1, <3>1
    <3>3. InitAt(p0, k + 1, s)
      BY <2>1, <3>2 DEF InitAt
    <3>4. k + 1 = 1 /\ k >= 1
      BY <1>6, <3>2, <3>3
    <3> QED
      BY <3>2, <3>4
  <2>2. CASE p # p0
    <3>1. toR'[p] = toR[p]
      BY <1>1, <1>2, <2>2
    <3>2. k \in 1..Len(toR[p]) /\ InitAt(p, k, s)
      BY <3>1 DEF InitAt
    <3>3. p = RankOf[s]
      BY <1>4, <3>2 DEF HandshakeInv, AnnouncedOnce
    <3> QED
      BY <1>6, <2>2, <3>3
  <2> QED
    BY <2>1, <2>2
<1>9. SendRoundInv' /\ NoCrash'
  BY <1>1 DEF HandshakeInv, SendRoundInv, NoCrash
<1> DEFINE q0(r) == CheckNumRequests([rreq[r] EXCEPT !.peer = s], Parts[r], Parts[s])
           q(r)  == [q0(r) EXCEPT !.ref = @ - 1,
                       !.cc = IF q0(r).st = "active" THEN q0(r).requests ELSE @]
<1>10. ASSUME NEW i \in DOMAIN posted, FirstMatch(posted, s, i),
              rreq' = [rreq EXCEPT ![posted[i]] = q(posted[i])],
              IF q(posted[i]).st = "active" THEN ClearToSend(posted[i], q(posted[i]))
              ELSE UNCHANGED <<toS, recvq>>,
              posted' = RemoveAt(posted, i), UNCHANGED unexp
       PROVE  HandshakeInv'
  <2> DEFINE r == posted[i]
             c == q(r)
  <2>1. r \in RReq /\ i \in 1..Len(posted) /\ posted \in Seq(RReq)
    BY DEF TypeOK
  <2>2. RankOf[s] = RankOf[r] /\ s # NULL
    BY <1>4, <1>10, ReqAssumption DEF FirstMatch, Match, Req
  <2>3. c \in RecvRequest /\ c.peer = s /\ c.st = rreq[r].st /\ c.round = rreq[r].round
    BY <1>4, <2>1, PairedFacts, ZenonT(30)
  <2>4. /\ rreq[r].peer = NULL /\ rreq[r].st # "none"
        /\ \A j, l \in 1..Len(posted) : posted[l] = posted[j] => l = j
    BY <2>1 DEF HandshakeInv, UnpairedRecv
  <2>5. rreq[r].round = IF rreq[r].st = "active" THEN 1 ELSE 0
    BY <2>1, <2>4 DEF HandshakeInv, UnpairedRecv
  <2>6. /\ rreq' = [rreq EXCEPT ![r] = c]
        /\ c.st = "active" => ClearToSend(r, c)
        /\ c.st # "active" => UNCHANGED <<toS, recvq>>
    BY <1>10
  <2>7. \A j \in 1..Len(posted') :
          /\ posted'[j] # r
          /\ \E l \in 1..Len(posted) : posted'[j] = posted[l]
          /\ \A l \in 1..Len(posted') : posted'[l] = posted'[j] => l = j
    BY <1>10, <2>1, <2>4, RemoveKeepsDistinct
  <2>8. \A j \in 1..Len(unexp') :
          /\ unexp'[j] # s
          /\ \E l \in 1..Len(unexp) : unexp'[j] = unexp[l]
          /\ \A l \in 1..Len(unexp') : unexp'[l] = unexp'[j] => l = j
    BY <1>6, <1>10 DEF HandshakeInv, AnnouncedOnce
  <2> HIDE DEF c, r
  <2>9. /\ \A k \in 1..Len(recvq') : recvq'[k].r = r \/ \E j \in 1..Len(recvq) : recvq'[k] = recvq[j]
        /\ \/ toS' = toS /\ c.st # "active"
           \/ /\ c.st = "active"
              /\ \E m \in CtsMessage :
                   /\ m.s = s /\ m.r = r
                   /\ toS' = [toS EXCEPT ![RankOf[r]] = Append(toS[RankOf[r]], m)]
    <3>1. CASE c.st = "active"
      <4> DEFINE m == [s |-> c.peer, r |-> r, requests |-> c.requests]
      <4>1. c.peer # NULL /\ ClearToSend(r, c)
        BY <2>2, <2>3, <2>6, <3>1
      <4>2. /\ m \in CtsMessage
            /\ toS' = [toS EXCEPT ![RankOf[r]] = Append(toS[RankOf[r]], m)]
            /\ \A k \in 1..Len(recvq') : recvq'[k].r = r
                       \/ \E j \in 1..Len(recvq) : recvq'[k] = recvq[j]
        BY <2>1, <2>3, <4>1, ClearToSendFacts
      <4>3. m.s = s /\ m.r = r
        BY <2>3
      <4> HIDE DEF m
      <4> QED
        BY <3>1, <4>2, <4>3
    <3>2. CASE c.st # "active"
      BY <2>6, <3>2
    <3> QED
      BY <3>1, <3>2
  <2>10. NewPair(r, s, c)
    BY <1>1, <1>5, <1>6, <1>8, <2>2, <2>3, <2>4, <2>6, <2>7, <2>8, <2>9 DEF NewPair
  <2>11. AnnouncedOnce' /\ UnpairedRecv'
    BY <1>4, <2>1, <2>3, <2>10, NewPairKeepsPairing DEF HandshakeInv
  <2>12. CtsSent(r, s, c)
    <3>1. /\ sreq[s].peer = NULL /\ Issued(s) = 0 /\ Completed(s) \in Nat
          /\ \A p \in Rank : \A k \in 1..Len(toS[p]) : toS[p][k].s # s
      BY <1>4, <1>6, UnpairedSend
    <3>2. c.round = IF c.st = "active" THEN 1 ELSE 0
      BY <2>3, <2>5
    <3>3. Issued(s) <= c.round /\ c.round <= Completed(s) + 1
      BY <3>1, <3>2
    <3>4. \/ toS' = toS
          \/ /\ \E m \in CtsMessage :
                   /\ m.s = s /\ m.r = r
                   /\ toS' = [toS EXCEPT ![RankOf[r]] = Append(toS[RankOf[r]], m)]
             /\ c.round = Issued(s) + 1
      BY <2>9, <3>1, <3>2
    <3> QED
      BY <1>1, <1>6, <2>2, <2>3, <2>4, <2>6, <3>1, <3>3, <3>4 DEF CtsSent
  <2>13. OneClearToSend'
    BY <1>4, <2>1, <2>3, <2>12, CtsSentKeepsCts DEF HandshakeInv
  <2> QED
    BY <1>9, <2>11, <2>13 DEF HandshakeInv
<1>11. ASSUME unexp' = Append(unexp, s), UNCHANGED <<rreq, posted, toS, recvq>>
       PROVE  HandshakeInv'
  <2>1. OneClearToSend'
    BY <1>1, <1>11, SamePeersKeepCts DEF HandshakeInv
  <2>2. UnpairedRecv'
    BY <1>11 DEF HandshakeInv, UnpairedRecv
  <2>3. /\ Len(unexp) \in Nat /\ Len(unexp') = Len(unexp) + 1
        /\ unexp'[Len(unexp) + 1] = s
        /\ \A j \in 1..Len(unexp) : unexp'[j] = unexp[j]
    <3>1. unexp \in Seq(SReq)
      BY DEF TypeOK
    <3> QED
      BY <1>11, <3>1
  <2>4. \A j \in 1..Len(unexp') : j \in 1..Len(unexp) \/ j = Len(unexp) + 1
    BY <2>3
  <2>5. AnnouncedOnce
    BY DEF HandshakeInv
  <2>6. ASSUME NEW p \in Rank, NEW k \in 1..Len(toR'[p]), NEW x \in SReq, InitAt(p, k, x)'
        PROVE  /\ p = RankOf[x] /\ sreq'[x].st # "none"
               /\ \A l \in 1..Len(toR'[p]) : InitAt(p, l, x)' => l = k
               /\ \A j \in 1..Len(unexp') : unexp'[j] # x
               /\ \A y \in RReq : rreq'[y].peer # x
    <3>1. x # s
      BY <1>8, <2>6 DEF InitAt
    <3>2. /\ p = RankOf[x] /\ sreq[x].st # "none"
          /\ \A l \in 1..Len(toR'[p]) : InitAt(p, l, x)' => l = k
          /\ \A j \in 1..Len(unexp) : unexp[j] # x
          /\ \A y \in RReq : rreq[y].peer # x
      BY <1>5, <2>5, <2>6, StillAnnounced
    <3>3. \A j \in 1..Len(unexp') : unexp'[j] # x
      BY <2>3, <2>4, <3>1, <3>2
    <3> QED
      BY <1>1, <1>11, <3>2, <3>3
  <2>7. ASSUME NEW j \in 1..Len(unexp')
        PROVE  /\ sreq[unexp'[j]].st # "none"
               /\ \A l \in 1..Len(unexp') : unexp'[l] = unexp'[j] => l = j
               /\ \A y \in RReq : rreq[y].peer # unexp'[j]
    <3>1. CASE j \in 1..Len(unexp)
      BY <1>6, <2>3, <2>4, <2>5, <3>1 DEF AnnouncedOnce
    <3>2. CASE j = Len(unexp) + 1
      BY <1>6, <2>3, <2>4, <3>2
    <3> QED
      BY <2>4, <3>1, <3>2
  <2>8. \A y \in RReq : rreq[y].peer # NULL =>
          /\ sreq[rreq[y].peer].st # "none" /\ RankOf[rreq[y].peer] = RankOf[y]
          /\ \A x \in RReq : rreq[x].peer = rreq[y].peer => x = y
    BY <2>5 DEF AnnouncedOnce
  <2>9. AnnouncedOnce'
    BY <1>1, <1>11, <2>6, <2>7, <2>8 DEF AnnouncedOnce
  <2> QED
    BY <1>9, <2>1, <2>2, <2>9 DEF HandshakeInv
<1> QED
  BY <1>10, <1>11, ZenonT(90) DEF RecvSendInit, s

(* Separated rounds: the sender has completed, so used up the CTS of, every  *)
(* round started before.                                                     *)
LEMMA PrecvStartKeepsInv ==
    ASSUME Separated, TypeOK, TypeOK', HandshakeInv, NEW r \in RReq, PrecvStart(r)
    PROVE  HandshakeInv'
<1> DEFINE c == [rreq[r] EXCEPT !.st = "active", !.round = @ + 1,
                                !.cc = rreq[r].requests, !.got = {}]
<1>1. /\ rreq[r].st = "inactive" /\ rreq' = [rreq EXCEPT ![r] = c]
      /\ c.peer # NULL => ClearToSend(r, c)
      /\ c.peer = NULL => UNCHANGED <<toS, recvq>>
      /\ UNCHANGED <<sreq, posted, unexp, toR, crashed>>
      /\ rreq[r].peer # NULL => Completed(rreq[r].peer) >= rreq[r].round
  BY DEF PrecvStart
<1>2. rreq[r] \in RecvRequest /\ rreq'[r] = c
  BY <1>1 DEF TypeOK
<1>3. c \in RecvRequest
  BY <1>2 DEF TypeOK
<1>4. /\ c.st = "active" /\ c.peer = rreq[r].peer /\ c.round = rreq[r].round + 1
      /\ c.cc = rreq[r].requests /\ rreq[r].requests \in Nat \ {0} /\ rreq[r].round \in Nat
  BY <1>2, BoundAssumption DEF RecvRequest
<1> HIDE DEF c
<1>5. ToRShrinks
  BY <1>1 DEF ToRShrinks, TypeOK
<1>6. CASE rreq[r].peer = NULL
  <2>1. rreq[r].round = 0
    BY <1>1, <1>6 DEF HandshakeInv, UnpairedRecv
  <2>2. UNCHANGED <<sreq, posted, unexp, toS, crashed>> /\ recvq' = recvq
    BY <1>1, <1>4, <1>6
  <2>3. \A i \in 1..Len(recvq') : \E j \in 1..Len(recvq) : recvq'[i].r = recvq[j].r
    BY <2>2
  <2>4. /\ c.peer = NULL /\ c.peer = rreq[r].peer /\ c.st = "active" /\ c.st # "none"
        /\ c.round = 1 /\ c.cc >= 1 /\ rreq' = [rreq EXCEPT ![r] = c]
    BY <1>1, <1>4, <1>6, <2>1
  <2> QED
    BY <1>3, <1>5, <2>2, <2>3, <2>4, RecvLocalKeepsInv
<1>7. CASE rreq[r].peer # NULL
  <2> DEFINE s == rreq[r].peer
  <2>1. s \in SReq
    BY <1>2, <1>7 DEF RecvRequest
  <2>2. /\ sreq[s] \in SendRequest /\ RoundOK(sreq[s])
    BY <2>1 DEF TypeOK, HandshakeInv, SendRoundInv
  <2>3. /\ RankOf[s] = RankOf[r]
        /\ \A x \in RReq : x # r => rreq[x].peer # s
    BY <1>7 DEF HandshakeInv, AnnouncedOnce
  <2>4. Issued(s) <= rreq[r].round /\ Completed(s) >= rreq[r].round
    BY <1>1, <1>7 DEF HandshakeInv, OneClearToSend
  <2> HIDE DEF s
  <2>5. sreq[s].round \in Nat /\ sreq[s].alloc \in BOOLEAN
    BY <2>2, BoundAssumption DEF SendRequest
  <2>6. Completed(s) <= Issued(s) /\ Completed(s) \in Int /\ Issued(s) \in Int
    BY <2>2, <2>5 DEF Completed, Issued, RoundOK
  <2>7. Issued(s) = rreq[r].round /\ Completed(s) = rreq[r].round
    BY <1>4, <2>4, <2>6
  <2>8. sreq[s].peer = NULL
    <3> SUFFICES ASSUME sreq[s].peer # NULL PROVE FALSE
      OBVIOUS
    <3>1. sreq[s].peer \in RReq
      BY <2>2 DEF SendRequest
    <3>2. rreq[sreq[s].peer].peer = s /\ rreq[sreq[s].peer].round = Issued(s) + 1
      BY <2>1 DEF HandshakeInv, OneClearToSend
    <3>3. sreq[s].peer = r
      BY <2>3, <3>1, <3>2
    <3> QED
      BY <1>4, <2>7, <3>2, <3>3
  <2>9. ASSUME NEW p \in Rank, NEW k \in 1..Len(toS[p]), toS[p][k].s = s
        PROVE  FALSE
    <3>1. toS[p][k] \in CtsMessage
      BY DEF TypeOK
    <3>2. toS[p][k].r \in RReq
      BY <3>1 DEF CtsMessage
    <3>3. /\ rreq[toS[p][k].r].peer = toS[p][k].s
          /\ rreq[toS[p][k].r].round = Issued(toS[p][k].s) + 1
      BY DEF HandshakeInv, OneClearToSend
    <3>4. toS[p][k].r = r
      BY <2>3, <2>9, <3>2, <3>3
    <3> QED
      BY <1>4, <2>7, <2>9, <3>3, <3>4
  <2> DEFINE m == [s |-> c.peer, r |-> r, requests |-> c.requests]
  <2>10. /\ m \in CtsMessage
         /\ toS' = [toS EXCEPT ![RankOf[r]] = Append(toS[RankOf[r]], m)]
         /\ \A k \in 1..Len(recvq') : recvq'[k].r = r
                    \/ \E j \in 1..Len(recvq) : recvq'[k] = recvq[j]
    BY <1>1, <1>3, <1>4, <1>7, ClearToSendFacts
  <2>11. m.s = s /\ m.r = r
    BY <1>4 DEF s
  <2> HIDE DEF m
  <2>12. c.peer = s /\ rreq[r].peer = s
    BY <1>4 DEF s
  <2>13. CtsSent(r, s, c)
    <3>1. Issued(s) <= c.round /\ c.round <= Completed(s) + 1 /\ c.round = Issued(s) + 1
      BY <1>4, <2>7
    <3> QED
      BY <1>1, <2>3, <2>8, <2>9, <2>10, <2>11, <2>12, <3>1 DEF CtsSent
  <2>14. OneClearToSend'
    BY <1>3, <2>1, <2>13, CtsSentKeepsCts DEF HandshakeInv
  <2>15. \A x \in RReq : x # r => rreq'[x] = rreq[x]
    BY <1>1 DEF TypeOK
  <2>16. \A x \in RReq : rreq'[x].peer = rreq[x].peer
    BY <1>2, <1>4, <2>15
  <2>17. AnnouncedOnce'
    BY <1>1, <2>16 DEF HandshakeInv, AnnouncedOnce, InitAt
  <2>18. UnpairedRecv'
    <3>1. \A i \in 1..Len(posted) : posted[i] \in RReq
      BY DEF TypeOK
    <3>2. \A i \in 1..Len(posted) :
            /\ rreq'[posted[i]].peer = NULL /\ rreq'[posted[i]].st # "none"
            /\ \A l \in 1..Len(posted) : posted[l] = posted[i] => l = i
      BY <1>7, <2>15, <3>1 DEF HandshakeInv, UnpairedRecv
    <3>3. ASSUME NEW x \in RReq, rreq'[x].peer = NULL
          PROVE  /\ rreq'[x].round = IF rreq'[x].st = "active" THEN 1 ELSE 0
                 /\ rreq'[x].st = "active" => rreq'[x].cc >= 1
                 /\ \A i \in 1..Len(recvq') : recvq'[i].r # x
      <4>1. x # r /\ rreq'[x] = rreq[x]
        BY <1>7, <2>15, <2>16, <3>3
      <4>2. \A j \in 1..Len(recvq) : recvq[j].r # x
        BY <3>3, <4>1 DEF HandshakeInv, UnpairedRecv
      <4>3. \A i \in 1..Len(recvq') : recvq'[i].r # x
        BY <2>10, <4>1, <4>2
      <4> QED
        BY <3>3, <4>1, <4>3 DEF HandshakeInv, UnpairedRecv
    <3>4. \A x \in RReq : rreq'[x].st = "none" => rreq'[x].peer = NULL
      BY <1>2, <1>4, <2>15 DEF HandshakeInv, UnpairedRecv
    <3> QED
      BY <1>1, <3>2, <3>3, <3>4 DEF UnpairedRecv
  <2>19. SendRoundInv' /\ NoCrash'
    BY <1>1 DEF HandshakeInv, SendRoundInv, NoCrash
  <2> QED
    BY <2>14, <2>17, <2>18, <2>19 DEF HandshakeInv
<1> QED
  BY <1>6, <1>7

-----------------------------------------------------------------------------

(* The handshake invariant holds initially. *)
LEMMA InitHandshake == Init => HandshakeInv
<1> SUFFICES ASSUME Init PROVE HandshakeInv
  OBVIOUS
<1>1. SendRoundInv
  <2> SUFFICES ASSUME NEW s \in SReq PROVE RoundOK(sreq[s])
    BY DEF SendRoundInv
  <2>1. /\ sreq[s].st = "none" /\ sreq[s].round = 0 /\ sreq[s].peer = NULL
        /\ sreq[s].alloc = FALSE /\ sreq[s].cc = 0 /\ sreq[s].out = {}
    BY DEF Init
  <2>2. IsFiniteSet({}) /\ Cardinality({}) = 0
    BY FS_EmptySet
  <2> QED
    BY <2>1, <2>2 DEF RoundOK
<1>2. AnnouncedOnce
  BY DEF Init, AnnouncedOnce
<1>3. UnpairedRecv
  BY DEF Init, UnpairedRecv
<1>4. OneClearToSend
  BY DEF Init, OneClearToSend, Issued
<1> QED
  BY <1>1, <1>2, <1>3, <1>4 DEF HandshakeInv, NoCrash, Init

(* Every step preserves the handshake invariant. *)
LEMMA NextHandshake ==
    ASSUME Separated
    PROVE  TypeOK /\ TypeOK' /\ HandshakeInv /\ [Next]_vars => HandshakeInv'
<1> SUFFICES ASSUME TypeOK, TypeOK', HandshakeInv, [Next]_vars PROVE HandshakeInv'
  OBVIOUS
<1>1. CASE UNCHANGED vars
  BY <1>1 DEF vars, HandshakeInv, SendRoundInv, AnnouncedOnce, InitAt, UnpairedRecv,
              OneClearToSend, Issued, Completed, NoCrash
<1>2. ASSUME NEW s \in SReq, SendStep(s) PROVE HandshakeInv'
  BY <1>2, PsendInitKeepsInv, PsendStartKeepsInv, PreadyKeepsInv, SendSubDoneKeepsInv,
     WaitFreeSendKeepInv DEF SendStep
<1>3. ASSUME NEW r \in RReq, RecvStep(r) PROVE HandshakeInv'
  BY <1>3, PrecvInitKeepsInv, PrecvStartKeepsInv, WaitFreeRecvKeepInv DEF RecvStep
<1>4. ASSUME NEW p \in Rank, Deliver(p) PROVE HandshakeInv'
  BY <1>4, RecvSendInitKeepsInv, RecvDataKeepsInv, RecvCtsKeepsInv DEF Deliver
<1> QED
  BY <1>1, <1>2, <1>3, <1>4 DEF Next, Terminated

(* In a program that separates the rounds of a partitioned pair, the whole   *)
(* handshake invariant holds for any number of requests, processes,          *)
(* partitions and rounds.                                                    *)
THEOREM HandshakeHolds ==
    ASSUME Separated
    PROVE  Spec => []HandshakeInv
<1>1. TypeOK /\ TypeOK' /\ HandshakeInv /\ [Next]_vars => HandshakeInv'
  BY NextHandshake
<1> QED
  BY <1>1, InitHandshake, TypeCorrect, PTL DEF Spec

(* MPID_do_recv_part_cts never reads a released part_ready array in such a   *)
(* program.                                                                  *)
THEOREM SeparatedRoundsNeverCrash ==
    ASSUME Separated
    PROVE  Spec => []NoCrash
<1>1. HandshakeInv => NoCrash
  BY DEF HandshakeInv
<1> QED
  BY <1>1, HandshakeHolds, PTL

-----------------------------------------------------------------------------
(* The completion counters *)

(* The entries of a list of sub-receives that belong to x. *)
Slots(l, x) == {i \in 1..Len(l) : l[i].r = x}

(* A request has finitely many sub-receives posted. *)
LEMMA SlotsFinite ==
    ASSUME NEW l, Len(l) \in Nat, NEW x
    PROVE  IsFiniteSet(Slots(l, x)) /\ Cardinality(Slots(l, x)) \in Nat
<1>1. IsFiniteSet(1..Len(l)) /\ Slots(l, x) \in SUBSET (1..Len(l))
  BY FS_Interval DEF Slots
<1> QED
  BY <1>1, FS_Subset, FS_CardinalityType

(* MPID_part_issue_data_recv adds n sub-receives of r. *)
LEMMA SlotsAppended ==
    ASSUME NEW l \in Seq(SubRecv), NEW r \in RReq, NEW n \in Nat
    PROVE  LET d == l \o [i \in 1..n |-> [r |-> r, into |-> i - 1]]
           IN  /\ Cardinality(Slots(d, r)) = Cardinality(Slots(l, r)) + n
               /\ \A x : x # r => Slots(d, x) = Slots(l, x)
<1> DEFINE b == [i \in 1..n |-> [r |-> r, into |-> i - 1]]
           d == l \o b
<1>1. b \in Seq(SubRecv) /\ Len(b) = n /\ \A i \in 1..n : b[i].r = r
  <2>1. \A i \in 1..n : [r |-> r, into |-> i - 1] \in SubRecv
    BY DEF SubRecv
  <2> QED
    BY <2>1
<1> HIDE DEF b
<1>2. Len(l) \in Nat /\ Len(d) = Len(l) + n
  BY <1>1
<1>3. \A i \in 1..Len(l) : d[i] = l[i]
  BY <1>1
<1>4. \A i \in (Len(l) + 1)..(Len(l) + n) : d[i].r = r
  <2>1. ASSUME NEW i \in (Len(l) + 1)..(Len(l) + n) PROVE d[i].r = r
    <3>1. i - Len(l) \in 1..n /\ d[i] = b[i - Len(l)]
      BY <1>1, <1>2
    <3> QED
      BY <1>1, <3>1
  <2> QED
    BY <2>1
<1> HIDE DEF d
<1>5. \A x : x # r => Slots(d, x) = Slots(l, x)
  BY <1>2, <1>3, <1>4 DEF Slots
<1> DEFINE T == (Len(l) + 1)..(Len(l) + n)
<1>6. Slots(d, r) = Slots(l, r) \cup T
  BY <1>2, <1>3, <1>4 DEF Slots
<1>7. Slots(l, r) \cap T = {}
  BY <1>2 DEF Slots
<1>8. IsFiniteSet(T) /\ Cardinality(T) = n
  BY <1>2, FS_Interval
<1> HIDE DEF T
<1>9. IsFiniteSet(Slots(l, r)) /\ Cardinality(Slots(l, r)) \in Nat
  BY <1>2, SlotsFinite
<1>10. Cardinality(Slots(d, r)) = Cardinality(Slots(l, r)) + Cardinality(T) - 0
  BY <1>6, <1>7, <1>8, <1>9, FS_Union, FS_EmptySet
<1>11. Cardinality(Slots(d, r)) = Cardinality(Slots(l, r)) + n
  BY <1>8, <1>9, <1>10
<1> QED
  BY <1>5, <1>11, Zenon DEF b, d

(* A delivered data message takes one sub-receive off the list. *)
LEMMA SlotsRemoved ==
    ASSUME NEW l \in Seq(SubRecv), NEW i \in 1..Len(l)
    PROVE  /\ Cardinality(Slots(RemoveAt(l, i), l[i].r)) = Cardinality(Slots(l, l[i].r)) - 1
           /\ \A x : x # l[i].r => Cardinality(Slots(RemoveAt(l, i), x)) = Cardinality(Slots(l, x))
<1> DEFINE d == RemoveAt(l, i)
<1>1. /\ Len(d) = Len(l) - 1 /\ Len(l) \in Nat
      /\ \A k \in 1..(Len(l) - 1) : d[k] = IF k < i THEN l[k] ELSE l[k + 1]
  BY RemoveAtFacts
<1> HIDE DEF d
<1>2. ASSUME NEW x PROVE Cardinality(Slots(d, x)) = Cardinality(Slots(l, x) \ {i})
  <2> DEFINE S == Slots(d, x)
             T == Slots(l, x) \ {i}
             f == [k \in S |-> IF k < i THEN k ELSE k + 1]
  <2>1. \A k \in S : k \in 1..(Len(l) - 1) /\ d[k].r = x
    BY <1>1 DEF Slots
  <2>2. f \in [S -> T]
    BY <1>1, <2>1 DEF Slots
  <2>3. \A j, k \in S : f[j] = f[k] => j = k
    BY <2>1
  <2>4. ASSUME NEW t \in T PROVE \E k \in S : f[k] = t
    <3>1. t \in 1..Len(l) /\ l[t].r = x /\ t # i
      BY DEF Slots
    <3>2. CASE t < i
      <4>1. t \in S
        BY <1>1, <3>1, <3>2 DEF Slots
      <4> QED
        BY <3>2, <4>1
    <3>3. CASE t > i
      <4>1. t - 1 \in 1..(Len(l) - 1) /\ ~(t - 1 < i) /\ (t - 1) + 1 = t
        BY <1>1, <3>1, <3>3
      <4>2. t - 1 \in S
        BY <1>1, <3>1, <4>1 DEF Slots
      <4> QED
        BY <4>1, <4>2
    <3> QED
      BY <3>1, <3>2, <3>3
  <2>5. IsFiniteSet(S)
    BY <1>1, SlotsFinite
  <2> HIDE DEF S, T, f
  <2>6. f \in Bijection(S, T)
    BY <2>2, <2>3, <2>4 DEF Bijection, Injection, Surjection, IsInjective
  <2>7. ExistsBijection(S, T)
    BY <2>6 DEF ExistsBijection
  <2> QED
    BY <2>5, <2>7, FS_Bijection DEF S, T
<1>3. IsFiniteSet(Slots(l, l[i].r)) /\ i \in Slots(l, l[i].r)
  BY <1>1, SlotsFinite DEF Slots
<1>4. Cardinality(Slots(l, l[i].r) \ {i}) = Cardinality(Slots(l, l[i].r)) - 1
  BY <1>3, FS_RemoveElement
<1>5. ASSUME NEW x, x # l[i].r PROVE Slots(l, x) \ {i} = Slots(l, x)
  BY <1>5 DEF Slots
<1> QED
  BY <1>2, <1>4, <1>5 DEF d

-----------------------------------------------------------------------------
(* The sender's counter *)

(* The counter is exact, and within a round that has its CTS only ready      *)
(* sub-requests are outstanding.                                             *)
SendCount(q, P) ==
    /\ q.cc = Cardinality(q.out) + (IF q.alloc THEN q.requests - q.ctr ELSE 0)
    /\ q.alloc /\ q.peer # NULL => \A i \in q.out : SubReady(q, P, i)

(* Issuing leaves the ready partitions alone until the last sub-request of
   the round resets the request. *)
LEMMA AfterIssueReady ==
    ASSUME NEW q \in SendRequest, NEW I \in SUBSET Nat, IsFiniteSet(I),
           q.ctr + Cardinality(I) # q.requests
    PROVE  AfterIssue(q, I).ready = q.ready
<1>1. AfterIssue(q, I) = [q EXCEPT !.ctr = q.ctr + Cardinality(I), !.out = q.out \cup I]
  BY DEF AfterIssue
<1> QED
  BY <1>1 DEF SendRequest

(* Issuing sub-requests that are ready and not outstanding moves them from
   the part of cc not yet issued to the part in flight: cc itself is right. *)
LEMMA IssueCounts ==
    ASSUME NEW q \in SendRequest, RoundOK(q), NEW P, SendCount(q, P), q.alloc, q.peer # NULL,
           NEW I \in SUBSET Nat, IsFiniteSet(I), q.out \cap I = {},
           \A i \in I : SubReady(q, P, i)
    PROVE  SendCount(AfterIssue(q, I), P)
<1>1. PICK c \in SendRequest :
        /\ c = AfterIssue(q, I)
        /\ c.st = q.st /\ c.round = q.round /\ c.ord = q.ord
        /\ c.requests = q.requests /\ c.ppr = q.ppr /\ c.cc = q.cc
        /\ c.out = q.out \cup I
        /\ q.ctr + Cardinality(I) = q.requests
             => ~c.alloc /\ c.peer = NULL /\ c.ctr = 0
        /\ q.ctr + Cardinality(I) # q.requests
             => /\ c.alloc = q.alloc /\ c.peer = q.peer
                /\ c.ctr = q.ctr + Cardinality(I)
  BY AfterIssueFacts
<1>2. IsFiniteSet(q.out) /\ Cardinality(q.out) \in Nat /\ Cardinality(I) \in Nat
  BY FS_CardinalityType DEF RoundOK
<1>3. Cardinality(q.out \cup I) = Cardinality(q.out) + Cardinality(I)
  <2>1. Cardinality(q.out \cup I)
          = Cardinality(q.out) + Cardinality(I) - Cardinality(q.out \cap I)
    BY <1>2, FS_Union
  <2>2. Cardinality(q.out \cap I) = 0
    BY FS_EmptySet
  <2> QED
    BY <1>2, <2>1, <2>2
<1>4. q.ctr \in Nat /\ q.requests \in Nat /\ q.cc \in Int
  BY DEF SendRequest
<1>5. q.cc = Cardinality(q.out) + (q.requests - q.ctr)
  BY DEF SendCount
<1>6. c.cc = Cardinality(c.out) + (IF c.alloc THEN c.requests - c.ctr ELSE 0)
  <2>1. CASE q.ctr + Cardinality(I) = q.requests
    <3>1. ~c.alloc /\ c.cc = q.cc /\ Cardinality(c.out) = Cardinality(q.out) + Cardinality(I)
      BY <1>1, <1>3, <2>1
    <3>2. q.cc = Cardinality(q.out) + Cardinality(I)
      BY <1>2, <1>4, <1>5, <2>1
    <3> QED
      BY <1>2, <3>1, <3>2
  <2>2. CASE q.ctr + Cardinality(I) # q.requests
    <3>1. /\ c.alloc /\ c.cc = q.cc /\ Cardinality(c.out) = Cardinality(q.out) + Cardinality(I)
          /\ c.ctr = q.ctr + Cardinality(I) /\ c.requests = q.requests
      BY <1>1, <1>3, <2>2
    <3>2. q.cc = (Cardinality(q.out) + Cardinality(I)) + (q.requests - (q.ctr + Cardinality(I)))
      BY <1>2, <1>4, <1>5
    <3> QED
      BY <3>1, <3>2
  <2> QED
    BY <2>1, <2>2
<1>7. ASSUME c.alloc, c.peer # NULL, NEW i \in c.out PROVE SubReady(c, P, i)
  <2>1. q.ctr + Cardinality(I) # q.requests
    BY <1>1, <1>7
  <2>2. c.ready = q.ready /\ c.ppr = q.ppr
    BY <1>1, <2>1, AfterIssueReady
  <2>3. SubReady(q, P, i)
    BY <1>1 DEF SendCount
  <2> QED
    BY <2>2, <2>3 DEF SubReady
<1> QED
  BY <1>1, <1>6, <1>7 DEF SendCount

(* What MPID_part_check_data_transmission issues is ready. *)
LEMMA TransmissionReady ==
    ASSUME TypeOK, NEW s \in SReq, NEW q \in SendRequest,
           NEW cand \in SUBSET Nat, IsFiniteSet(cand),
           CheckDataTransmission(s, q, cand)
    PROVE  \E I \in SUBSET cand :
              /\ IsFiniteSet(I)
              /\ q.peer = NULL => I = {}
              /\ \A i \in I : SubReady(q, Parts[s], i)
              /\ sreq' = [sreq EXCEPT ![s] = IF I = {} THEN q ELSE AfterIssue(q, I)]
<1> DEFINE I == IF q.peer = NULL THEN {} ELSE {i \in cand : SubReady(q, Parts[s], i)}
<1>1. I \in SUBSET cand /\ IsFiniteSet(I)
  BY FS_Subset, FS_EmptySet
<1>2. sreq' = [sreq EXCEPT ![s] = IF I = {} THEN q ELSE AfterIssue(q, I)]
  BY DEF CheckDataTransmission
<1>3. (q.peer = NULL => I = {}) /\ \A i \in I : SubReady(q, Parts[s], i)
  OBVIOUS
<1> HIDE DEF I
<1> QED
  BY <1>1, <1>2, <1>3

(* MPID_part_check_data_transmission keeps the sender's counter exact. *)
LEMMA TransmissionCounts ==
    ASSUME TypeOK, NEW s \in SReq, NEW q \in SendRequest,
           NEW cand \in SUBSET Nat, IsFiniteSet(cand), CheckDataTransmission(s, q, cand),
           RoundOK(q), q.alloc, SendCount(q, Parts[s]),
           \A i \in cand : SubReady(q, Parts[s], i) /\ q.peer # NULL => i \notin q.out
    PROVE  SendCount(sreq'[s], Parts[s]) /\ \A x \in SReq : x # s => sreq'[x] = sreq[x]
<1>1. PICK I \in SUBSET cand :
        /\ IsFiniteSet(I)
        /\ q.peer = NULL => I = {}
        /\ \A i \in I : SubReady(q, Parts[s], i)
        /\ sreq' = [sreq EXCEPT ![s] = IF I = {} THEN q ELSE AfterIssue(q, I)]
  BY TransmissionReady
<1>2. CASE I = {}
  <2>1. sreq'[s] = q /\ \A x \in SReq : x # s => sreq'[x] = sreq[x]
    BY <1>1, <1>2 DEF TypeOK
  <2> QED
    BY <2>1
<1>3. CASE I # {}
  <2>1. sreq'[s] = AfterIssue(q, I) /\ \A x \in SReq : x # s => sreq'[x] = sreq[x]
    BY <1>1, <1>3 DEF TypeOK
  <2>2. q.peer # NULL /\ I \in SUBSET Nat /\ q.out \cap I = {}
    BY <1>1, <1>3
  <2>3. SendCount(AfterIssue(q, I), Parts[s])
    BY <1>1, <2>2, IssueCounts
  <2> QED
    BY <2>1, <2>3
<1> QED
  BY <1>2, <1>3

(* Partition p belongs to sub-request p \div d of d partitions each. *)
LEMMA OwnSubRequest ==
    ASSUME NEW p \in Nat, NEW d \in Nat \ {0}
    PROVE  p \in ((p \div d) * d)..((p \div d + 1) * d - 1)
<1>1. p = d * (p \div d) + (p % d) /\ p % d \in 0..(d - 1) /\ p \div d \in Nat
  OBVIOUS
<1>2. PICK k \in Nat, m \in Nat : k = p \div d /\ m = p % d
  BY <1>1
<1>3. (k + 1) * d = d * k + d /\ k * d = d * k /\ d * k \in Nat
  OBVIOUS
<1> QED
  BY <1>1, <1>2, <1>3

(* The receiver's counter is exact, and zero outside a round. *)
RecvCount(r) ==
    /\ rreq[r].cc = IF rreq[r].st = "active" /\ rreq[r].peer = NULL THEN rreq[r].requests
                    ELSE Cardinality(Slots(recvq, r))
    /\ rreq[r].st # "active" => rreq[r].cc = 0

(* The inductive invariant behind CompletionCounterExact. *)
CounterInv ==
    /\ \A s \in SReq : SendCount(sreq[s], Parts[s])
    /\ \A r \in RReq : RecvCount(r)

(* A step of the sender on s. *)
LEMMA SenderCounts ==
    ASSUME CounterInv, NEW s \in SReq, SendCount(sreq'[s], Parts[s]),
           \A x \in SReq : x # s => sreq'[x] = sreq[x], UNCHANGED <<rreq, recvq>>
    PROVE  CounterInv'
<1>1. \A x \in SReq : SendCount(sreq'[x], Parts[x])
  BY DEF CounterInv
<1>2. \A r \in RReq : RecvCount(r)'
  BY DEF CounterInv, RecvCount
<1> QED
  BY <1>1, <1>2 DEF CounterInv

(* MPID_Psend_init, MPI_Start, MPI_Pready, a completed sub-send, MPI_Wait
   and MPI_Request_free on the sending side. *)
LEMMA SendStepCounts ==
    ASSUME TypeOK, HandshakeInv, CounterInv, NEW s \in SReq, SendStep(s)
    PROVE  CounterInv'
<1>1. sreq[s] \in SendRequest /\ RoundOK(sreq[s]) /\ SendCount(sreq[s], Parts[s])
  BY DEF TypeOK, HandshakeInv, SendRoundInv, CounterInv
<1>2. UNCHANGED <<rreq, recvq>>
  BY DEF SendStep, Psend_init, PsendStart, WaitSend, FreeSend, Pready, SendSubDone
<1>3. ASSUME NEW c, sreq' = [sreq EXCEPT ![s] = c], SendCount(c, Parts[s]) PROVE CounterInv'
  <2>1. sreq'[s] = c /\ \A x \in SReq : x # s => sreq'[x] = sreq[x]
    BY <1>3 DEF TypeOK
  <2> QED
    BY <1>2, <1>3, <2>1, SenderCounts
<1>4. CASE Psend_init(s)
  <2>1. SendCount(InitSend(s), Parts[s])
    BY FS_EmptySet DEF InitSend, SendCount
  <2>2. sreq' = [sreq EXCEPT ![s] = InitSend(s)]
    BY <1>4 DEF Psend_init
  <2> QED
    BY <1>3, <2>1, <2>2
<1>5. CASE PsendStart(s)
  <2> DEFINE q == [sreq[s] EXCEPT !.st = "active", !.round = @ + 1, !.alloc = TRUE,
                                  !.ready = {}, !.ctr = 0, !.cc = sreq[s].requests]
  <2>1. q \in SendRequest
    BY <1>1, <1>5, StartedSend DEF PsendStart
  <2>2. /\ q.st = "active" /\ q.alloc = TRUE /\ q.ctr = 0 /\ q.round = sreq[s].round + 1
        /\ q.requests = sreq[s].requests /\ q.cc = sreq[s].requests
        /\ q.peer = sreq[s].peer /\ q.out = sreq[s].out
    BY <1>1 DEF SendRequest
  <2>3. CheckDataTransmission(s, q, AllSubs(q)) /\ sreq[s].st = "inactive"
    BY <1>5 DEF PsendStart
  <2> HIDE DEF q
  <2>4. sreq[s].out = {} /\ sreq[s].requests \in Nat \ {0} /\ sreq[s].round \in Nat
    <3>1. sreq[s].cc = 0
      BY <1>1, <2>3 DEF RoundOK
    <3> QED
      BY <1>1, <3>1, NothingOutstanding, BoundAssumption DEF SendRequest
  <2>5. RoundOK(q) /\ SendCount(q, Parts[s])
    BY <2>2, <2>4, FS_EmptySet DEF RoundOK, SendCount
  <2>6. AllSubs(q) \in SUBSET Nat /\ IsFiniteSet(AllSubs(q)) /\ \A i : i \notin q.out
    BY <2>1, <2>2, <2>4, CandidateSets
  <2>7. SendCount(sreq'[s], Parts[s]) /\ \A x \in SReq : x # s => sreq'[x] = sreq[x]
    BY <2>1, <2>2, <2>3, <2>5, <2>6, TransmissionCounts
  <2> QED
    BY <1>2, <2>7, SenderCounts
<1>6. ASSUME NEW p \in 0..(Parts[s] - 1), Pready(s, p) PROVE CounterInv'
  <2> DEFINE q == [sreq[s] EXCEPT !.ready = @ \cup {p}]
  <2>1. p \in Nat /\ Parts[s] \in Nat /\ p < Parts[s] /\ sreq[s].alloc /\ p \notin sreq[s].ready
    BY <1>6, ArgAssumption DEF Pready, Req
  <2>2. q \in SendRequest
    <3>1. sreq[s].ready \cup {p} \in SUBSET Nat
      BY <1>1, <2>1 DEF SendRequest
    <3> QED
      BY <1>1, <3>1 DEF SendRequest
  <2>3. /\ q.st = sreq[s].st /\ q.alloc = sreq[s].alloc /\ q.ctr = sreq[s].ctr
        /\ q.round = sreq[s].round /\ q.requests = sreq[s].requests /\ q.cc = sreq[s].cc
        /\ q.peer = sreq[s].peer /\ q.out = sreq[s].out /\ q.ppr = sreq[s].ppr
        /\ q.ready = sreq[s].ready \cup {p}
    BY <1>1 DEF SendRequest
  <2>4. CheckDataTransmission(s, q, {p \div q.ppr})
    BY <1>6 DEF Pready
  <2> HIDE DEF q
  <2>5. RoundOK(q)
    BY <1>1, <2>3 DEF RoundOK
  <2>6. SendCount(q, Parts[s])
    BY <1>1, <2>3 DEF SendCount, SubReady
  <2>7. ASSUME q.peer # NULL PROVE p \div q.ppr \notin q.out
    <3> SUFFICES ASSUME p \div q.ppr \in q.out PROVE FALSE
      OBVIOUS
    <3>1. SubReady(sreq[s], Parts[s], p \div q.ppr)
      BY <1>1, <2>1, <2>3, <2>7 DEF SendCount
    <3>2. q.ppr \in Nat \ {0}
      BY <2>2 DEF SendRequest
    <3>3. PICK k : k = p \div q.ppr
      OBVIOUS
    <3>4. p \in (k * q.ppr)..((k + 1) * q.ppr - 1)
      BY <2>1, <3>2, <3>3, OwnSubRequest
    <3>5. \A x \in (k * q.ppr)..((k + 1) * q.ppr - 1) : x < Parts[s] => x \in sreq[s].ready
      BY <2>3, <3>1, <3>3, Zenon DEF SubReady
    <3> QED
      BY <2>1, <3>4, <3>5
  <2>8. {p \div q.ppr} \in SUBSET Nat /\ IsFiniteSet({p \div q.ppr})
    BY <2>1, <2>2, CandidateSets
  <2>9. SendCount(sreq'[s], Parts[s]) /\ \A x \in SReq : x # s => sreq'[x] = sreq[x]
    <3>1. \A i \in {p \div q.ppr} : SubReady(q, Parts[s], i) /\ q.peer # NULL => i \notin q.out
      BY <2>7
    <3>2. q.alloc
      BY <2>1, <2>3
    <3> QED
      BY <2>2, <2>4, <2>5, <2>6, <2>8, <3>1, <3>2, TransmissionCounts
  <2> QED
    BY <1>2, <2>9, SenderCounts
<1>7. ASSUME NEW i \in sreq[s].out, SendSubDone(s, i) PROVE CounterInv'
  <2> DEFINE c == [sreq[s] EXCEPT !.out = sreq[s].out \ {i}, !.cc = sreq[s].cc - 1]
  <2>1. sreq' = [sreq EXCEPT ![s] = c]
    BY <1>7 DEF SendSubDone, TypeOK
  <2>2. /\ c.peer = sreq[s].peer /\ c.alloc = sreq[s].alloc /\ c.ready = sreq[s].ready
        /\ c.ctr = sreq[s].ctr /\ c.requests = sreq[s].requests /\ c.ppr = sreq[s].ppr
        /\ c.out = sreq[s].out \ {i} /\ c.cc = sreq[s].cc - 1
    BY <1>1 DEF SendRequest
  <2> HIDE DEF c
  <2>3. Cardinality(sreq[s].out \ {i}) = Cardinality(sreq[s].out) - 1 /\ Cardinality(sreq[s].out) \in Nat
    BY <1>1, FS_RemoveElement, FS_CardinalityType DEF RoundOK
  <2>4. sreq[s].requests \in Nat /\ sreq[s].ctr \in Nat /\ sreq[s].cc \in Int
    BY <1>1 DEF SendRequest
  <2>5. c.cc = Cardinality(c.out) + (IF c.alloc THEN c.requests - c.ctr ELSE 0)
    BY <1>1, <2>2, <2>3, <2>4 DEF SendCount
  <2>6. c.alloc /\ c.peer # NULL => \A k \in c.out : SubReady(c, Parts[s], k)
    BY <1>1, <2>2 DEF SendCount, SubReady
  <2> QED
    BY <1>3, <2>1, <2>5, <2>6 DEF SendCount
<1>8. CASE WaitSend(s) \/ FreeSend(s)
  <2>1. PICK st \in States : sreq' = [sreq EXCEPT ![s].st = st]
    BY <1>8 DEF WaitSend, FreeSend, States
  <2> DEFINE c == [sreq[s] EXCEPT !.st = st]
  <2>2. sreq' = [sreq EXCEPT ![s] = c]
    BY <2>1
  <2>3. /\ c.peer = sreq[s].peer /\ c.alloc = sreq[s].alloc /\ c.ready = sreq[s].ready
        /\ c.ctr = sreq[s].ctr /\ c.requests = sreq[s].requests /\ c.ppr = sreq[s].ppr
        /\ c.out = sreq[s].out /\ c.cc = sreq[s].cc
    BY <1>1 DEF SendRequest
  <2> HIDE DEF c
  <2>4. SendCount(c, Parts[s])
    BY <1>1, <2>3 DEF SendCount, SubReady
  <2> QED
    BY <1>3, <2>2, <2>4
<1> QED
  BY <1>4, <1>5, <1>6, <1>7, <1>8 DEF SendStep

(* The clear-to-send callback may change the number of sub-requests: cc is
   corrected by the difference before anything is issued. *)
LEMMA RecvCtsCounts ==
    ASSUME TypeOK, HandshakeInv, CounterInv, NEW p \in Rank, RecvCts(p)
    PROVE  CounterInv'
<1> DEFINE m == Head(toS[p])
           s == m.s
           q00 == [sreq[s] EXCEPT !.peer = m.r]
           q0 == CheckNumRequests(q00, Parts[s], m.requests)
           q == [q0 EXCEPT !.cc = q0.requests]
<1>1. toS[p] # <<>> /\ m = toS[p][1] /\ 1 \in 1..Len(toS[p]) /\ m \in CtsMessage
  BY HeadTailProperties DEF RecvCts, TypeOK
<1>2. s \in SReq /\ m.r \in RReq /\ m.requests \in Nat \ {0} /\ Parts[s] \in Nat \ {0}
  BY <1>1, ArgAssumption DEF CtsMessage, Req
<1>3. sreq[s].peer = NULL /\ m.r # NULL
  BY <1>1, <1>2, ReqAssumption DEF HandshakeInv, OneClearToSend, Req
<1>4. sreq[s] \in SendRequest /\ RoundOK(sreq[s]) /\ SendCount(sreq[s], Parts[s])
  BY <1>2 DEF TypeOK, HandshakeInv, SendRoundInv, CounterInv
<1>5. /\ q00 \in SendRequest /\ q00.st = sreq[s].st /\ q00.round = sreq[s].round /\ q00.peer = m.r
      /\ q00.alloc = sreq[s].alloc /\ q00.ctr = sreq[s].ctr /\ q00.cc = sreq[s].cc
      /\ q00.out = sreq[s].out
  BY <1>2, <1>4 DEF SendRequest
<1>6. UNCHANGED <<rreq, recvq>>
  BY DEF RecvCts
<1>7. \/ sreq[s].st # "active" /\ sreq' = [sreq EXCEPT ![s] = q0]
      \/ sreq[s].alloc /\ CheckDataTransmission(s, q, AllSubs(q))
      \/ sreq[s].st = "active" /\ ~sreq[s].alloc /\ sreq' = [sreq EXCEPT ![s] = q]
  BY Zenon DEF RecvCts
<1> HIDE DEF m, s, q00
<1>8. /\ q0 \in SendRequest /\ q0.st = sreq[s].st /\ q0.round = sreq[s].round /\ q0.peer = m.r
      /\ q0.alloc = sreq[s].alloc /\ q0.ctr = sreq[s].ctr /\ q0.cc = sreq[s].cc
      /\ q0.out = sreq[s].out
  BY <1>2, <1>5, CheckNumSend
<1> HIDE DEF q0
<1>9. /\ q \in SendRequest /\ q.st = sreq[s].st /\ q.round = sreq[s].round /\ q.peer = m.r
      /\ q.alloc = sreq[s].alloc /\ q.ctr = sreq[s].ctr /\ q.cc = q.requests
      /\ q.out = sreq[s].out /\ q.requests \in Nat \ {0}
  BY <1>8 DEF SendRequest
<1> HIDE DEF q
<1>10. CASE sreq[s].st # "active" /\ sreq' = [sreq EXCEPT ![s] = q0]
  <2>1. ~sreq[s].alloc
    BY <1>4, <1>10 DEF RoundOK
  <2>2. SendCount(q0, Parts[s])
    BY <1>4, <1>8, <2>1 DEF SendCount
  <2>3. sreq'[s] = q0 /\ \A x \in SReq : x # s => sreq'[x] = sreq[x]
    BY <1>2, <1>10 DEF TypeOK
  <2> QED
    BY <1>2, <1>6, <2>2, <2>3, SenderCounts
<1>11. CASE sreq[s].alloc /\ CheckDataTransmission(s, q, AllSubs(q))
  <2>1. sreq[s].ctr = 0 /\ sreq[s].out = {} /\ sreq[s].st = "active" /\ sreq[s].round > 0
    BY <1>3, <1>4, <1>11 DEF RoundOK
  <2>2. q.alloc
    BY <1>9, <1>11
  <2>3. RoundOK(q) /\ SendCount(q, Parts[s])
    BY <1>3, <1>4, <1>9, <2>1, <2>2, FS_EmptySet DEF RoundOK, SendCount
  <2>4. AllSubs(q) \in SUBSET Nat /\ IsFiniteSet(AllSubs(q)) /\ \A i : i \notin q.out
    BY <1>9, <2>1, CandidateSets
  <2>5. SendCount(sreq'[s], Parts[s]) /\ \A x \in SReq : x # s => sreq'[x] = sreq[x]
    BY <1>2, <1>9, <1>11, <2>2, <2>3, <2>4, TransmissionCounts
  <2> QED
    BY <1>2, <1>6, <2>5, SenderCounts
<1>12. ~(sreq[s].st = "active" /\ ~sreq[s].alloc)
  <2>1. rreq[m.r].peer = s /\ rreq[m.r].round = Issued(s) + 1
    BY <1>1 DEF HandshakeInv, OneClearToSend, s
  <2>2. rreq[m.r].round <= Completed(s) + 1
    BY <1>2, <2>1, ReqAssumption DEF HandshakeInv, OneClearToSend, Req
  <2>3. sreq[s].round \in Nat
    BY <1>4, BoundAssumption DEF SendRequest
  <2> QED
    BY <2>1, <2>2, <2>3 DEF Issued, Completed
<1> QED
  BY <1>7, <1>10, <1>11, <1>12

(* A step of the receiver on r. *)
LEMMA ReceiverCounts ==
    ASSUME CounterInv, NEW r \in RReq, RecvCount(r)', sreq' = sreq,
           \A x \in RReq : x # r => rreq'[x] = rreq[x],
           \A x \in RReq : x # r => Cardinality(Slots(recvq', x)) = Cardinality(Slots(recvq, x))
    PROVE  CounterInv'
<1>1. \A x \in RReq : RecvCount(x)'
  BY DEF CounterInv, RecvCount
<1> QED
  BY <1>1 DEF CounterInv

(* pscom has no sub-receive of an unpaired request. *)
LEMMA UnpairedNoSlots ==
    ASSUME HandshakeInv, NEW r \in RReq, rreq[r].peer = NULL
    PROVE  Cardinality(Slots(recvq, r)) = 0
<1>1. Slots(recvq, r) = {}
  BY DEF HandshakeInv, UnpairedRecv, Slots
<1> QED
  BY <1>1, FS_EmptySet

(* CTS is sent and the sub-receives are posted. *)
LEMMA ClearToSendCounts ==
    ASSUME TypeOK, CounterInv, NEW r \in RReq, NEW c \in RecvRequest,
           rreq' = [rreq EXCEPT ![r] = c], sreq' = sreq, ClearToSend(r, c),
           c.st = "active", c.peer # NULL, c.cc = c.requests,
           Cardinality(Slots(recvq, r)) = 0
    PROVE  CounterInv'
<1>1. rreq'[r] = c /\ \A x \in RReq : x # r => rreq'[x] = rreq[x]
  BY DEF TypeOK
<1>2. PICK n \in Nat : n = c.requests
  BY DEF RecvRequest
<1>3. recvq \in Seq(SubRecv) /\ recvq' = recvq \o [i \in 1..n |-> [r |-> r, into |-> i - 1]]
  BY <1>2 DEF ClearToSend, TypeOK
<1>4. /\ Cardinality(Slots(recvq', r)) = Cardinality(Slots(recvq, r)) + n
      /\ \A x : x # r => Slots(recvq', x) = Slots(recvq, x)
  BY <1>3, SlotsAppended, Zenon
<1>5. Cardinality(Slots(recvq', r)) = c.requests
  BY <1>2, <1>4
<1>6. RecvCount(r)'
  BY <1>1, <1>5 DEF RecvCount
<1> QED
  BY <1>1, <1>4, <1>6, ReceiverCounts

(* MPID_Precv_init, MPI_Start, MPI_Wait and MPI_Request_free on the
   receiving side; a start that finds its SEND_INIT posts the sub-receives. *)
LEMMA RecvStepCounts ==
    ASSUME TypeOK, HandshakeInv, CounterInv, NEW r \in RReq, RecvStep(r)
    PROVE  CounterInv'
<1>1. rreq[r] \in RecvRequest /\ RecvCount(r) /\ rreq \in [RReq -> RecvRequest]
  BY DEF TypeOK, CounterInv
<1>2. sreq' = sreq
  BY DEF RecvStep, Precv_init, PrecvStart, WaitRecv, FreeRecv
<1>3. ASSUME NEW c, rreq' = [rreq EXCEPT ![r] = c], recvq' = recvq,
             c.cc = IF c.st = "active" /\ c.peer = NULL THEN c.requests
                    ELSE Cardinality(Slots(recvq, r)),
             c.st # "active" => c.cc = 0
      PROVE  CounterInv'
  <2>1. rreq'[r] = c /\ \A x \in RReq : x # r => rreq'[x] = rreq[x]
    BY <1>1, <1>3
  <2>2. RecvCount(r)'
    BY <1>3, <2>1 DEF RecvCount
  <2> QED
    BY <1>2, <1>3, <2>1, <2>2, ReceiverCounts
<1>4. CASE Precv_init(r)
  <2>1. Cardinality(Slots(recvq, r)) = 0
    BY <1>4, UnpairedNoSlots DEF Precv_init, HandshakeInv, UnpairedRecv
  <2>2. InitRecv(r) \in RecvRequest
    <3>1. Parts[r] \in Nat \ {0} /\ Earlier(r, RReq, rreq) \in Nat
      BY ArgAssumption, EarlierNat, ReqAssumption DEF Req
    <3> QED
      BY <3>1, BoundAssumption DEF InitRecv, RecvRequest, States
  <2>3. InitRecv(r).st = "inactive" /\ InitRecv(r).cc = 0
    BY DEF InitRecv
  <2>4. recvq' = recvq
    BY <1>4 DEF Precv_init
  <2>5. ASSUME NEW c, rreq' = [rreq EXCEPT ![r] = c], c.st = "inactive", c.cc = 0
        PROVE  CounterInv'
    BY <1>3, <2>1, <2>4, <2>5
  <2>6. ASSUME NEW i \in DOMAIN unexp,
               rreq' = [rreq EXCEPT ![r] =
                          CheckNumRequests([InitRecv(r) EXCEPT !.peer = unexp[i]], Parts[r], Parts[unexp[i]])]
        PROVE  CounterInv'
    <3>1. PICK s \in SReq : s = unexp[i]
      BY DEF TypeOK
    <3>2. Parts[r] \in Nat \ {0} /\ Parts[s] \in Nat \ {0}
      BY ArgAssumption DEF Req
    <3>3. PICK q \in RecvRequest : q = [InitRecv(r) EXCEPT !.peer = s]
      BY <2>2 DEF RecvRequest
    <3>4. q.st = "inactive" /\ q.cc = 0
      BY <2>2, <2>3, <3>3 DEF RecvRequest
    <3>5. PICK c \in RecvRequest : c = CheckNumRequests(q, Parts[r], Parts[s]) /\ c.st = q.st /\ c.cc = q.cc
      BY <3>2, CheckNumRecv
    <3>6. rreq' = [rreq EXCEPT ![r] = c]
      BY <2>6, <3>1, <3>3, <3>5, Zenon
    <3> QED
      BY <2>5, <3>4, <3>5, <3>6
  <2>7. ASSUME rreq' = [rreq EXCEPT ![r] = [InitRecv(r) EXCEPT !.ref = 2]] PROVE CounterInv'
    <3>1. \A q \in RecvRequest : /\ [q EXCEPT !.ref = 2].st = q.st
                                 /\ [q EXCEPT !.ref = 2].cc = q.cc
      BY DEF RecvRequest
    <3>2. PICK c : c = [InitRecv(r) EXCEPT !.ref = 2]
      OBVIOUS
    <3>3. c.st = "inactive" /\ c.cc = 0
      BY <2>2, <2>3, <3>1, <3>2
    <3>4. rreq' = [rreq EXCEPT ![r] = c]
      BY <2>7, <3>2
    <3> QED
      BY <2>5, <3>3, <3>4
  <2>8. \/ \E i \in DOMAIN unexp :
             rreq' = [rreq EXCEPT ![r] =
                        CheckNumRequests([InitRecv(r) EXCEPT !.peer = unexp[i]], Parts[r], Parts[unexp[i]])]
        \/ rreq' = [rreq EXCEPT ![r] = [InitRecv(r) EXCEPT !.ref = 2]]
    BY <1>4, Zenon DEF Precv_init
  <2> QED
    BY <2>6, <2>7, <2>8, Zenon
<1>5. CASE PrecvStart(r)
  <2> DEFINE c == [rreq[r] EXCEPT !.st = "active", !.round = @ + 1, !.cc = rreq[r].requests, !.got = {}]
  <2>1. /\ rreq' = [rreq EXCEPT ![r] = c] /\ rreq[r].st = "inactive" /\ rreq[r].round < MaxRounds
        /\ IF c.peer # NULL THEN ClearToSend(r, c) ELSE UNCHANGED <<toS, recvq>>
    BY <1>5 DEF PrecvStart
  <2>2. /\ c.st = "active" /\ c.cc = rreq[r].requests /\ c.requests = rreq[r].requests
        /\ c.peer = rreq[r].peer
    BY <1>1 DEF RecvRequest
  <2>3. c \in RecvRequest
    <3>1. rreq[r].round + 1 \in 0..MaxRounds /\ rreq[r].requests \in Int
      BY <1>1, <2>1, BoundAssumption DEF RecvRequest
    <3> QED
      BY <1>1, <3>1 DEF RecvRequest, States
  <2> HIDE DEF c
  <2>4. CASE c.peer # NULL
    <3>1. ClearToSend(r, c)
      BY <2>1, <2>4
    <3>2. Cardinality(Slots(recvq, r)) = 0
      BY <1>1, <2>1 DEF RecvCount
    <3> QED
      BY <1>2, <2>1, <2>2, <2>3, <2>4, <3>1, <3>2, ClearToSendCounts
  <2>5. CASE c.peer = NULL
    BY <1>3, <2>1, <2>2, <2>5
  <2> QED
    BY <2>4, <2>5
<1>6. CASE WaitRecv(r)
  <2> DEFINE c == [rreq[r] EXCEPT !.st = "inactive"]
  <2>1. rreq' = [rreq EXCEPT ![r] = c] /\ recvq' = recvq /\ rreq[r].st = "active" /\ rreq[r].cc = 0
    BY <1>6 DEF WaitRecv, TypeOK
  <2>2. c.st = "inactive" /\ c.cc = rreq[r].cc /\ c.peer = rreq[r].peer
    BY <1>1 DEF RecvRequest
  <2> HIDE DEF c
  <2>3. rreq[r].peer # NULL
    BY <2>1 DEF HandshakeInv, UnpairedRecv
  <2>4. Cardinality(Slots(recvq, r)) = 0
    BY <1>1, <2>1, <2>3 DEF RecvCount
  <2> QED
    BY <1>3, <2>1, <2>2, <2>4
<1>7. CASE FreeRecv(r)
  <2> DEFINE c == [rreq[r] EXCEPT !.st = "freed", !.ref = rreq[r].ref - 1]
  <2>1. rreq' = [rreq EXCEPT ![r] = c] /\ recvq' = recvq /\ rreq[r].st = "inactive"
    BY <1>7 DEF FreeRecv, TypeOK
  <2>2. c.st = "freed" /\ c.cc = rreq[r].cc /\ c.peer = rreq[r].peer
    BY <1>1 DEF RecvRequest
  <2> HIDE DEF c
  <2>3. rreq[r].cc = 0 /\ Cardinality(Slots(recvq, r)) = 0
    BY <1>1, <2>1 DEF RecvCount
  <2> QED
    BY <1>3, <2>1, <2>2, <2>3
<1> QED
  BY <1>4, <1>5, <1>6, <1>7 DEF RecvStep

(* A SEND_INIT that finds an active receive request posts its sub-receives,
   as many as the corrected counter says. *)
LEMMA RecvSendInitCounts ==
    ASSUME TypeOK, HandshakeInv, CounterInv, NEW p \in Rank, RecvSendInit(p)
    PROVE  CounterInv'
<1>1. PICK s \in SReq : s = Head(toR[p]).s
  <2>1. Head(toR[p]) \in ToRMessage
    BY HeadTailProperties, ZenonT(30) DEF RecvSendInit, TypeOK
  <2> QED
    BY <2>1 DEF ToRMessage
<1>2. sreq' = sreq /\ posted \in Seq(RReq) /\ rreq \in [RReq -> RecvRequest] /\ s # NULL
  <2>1. sreq' = sreq
    BY ZenonT(30) DEF RecvSendInit
  <2> QED
    BY <2>1, ReqAssumption DEF TypeOK, Req
<1> DEFINE q0(r) == CheckNumRequests([rreq[r] EXCEPT !.peer = s], Parts[r], Parts[s])
           q(r)  == [q0(r) EXCEPT !.ref = @ - 1,
                       !.cc = IF q0(r).st = "active" THEN q0(r).requests ELSE @]
<1>3. ASSUME NEW r \in RReq
      PROVE  /\ q(r) \in RecvRequest /\ q(r).peer = s /\ q(r).st = rreq[r].st
             /\ q(r).cc = IF q(r).st = "active" THEN q(r).requests ELSE rreq[r].cc
  BY PairedFacts, ZenonT(30)
<1>4. \/ \E i \in DOMAIN posted :
            /\ rreq' = [rreq EXCEPT ![posted[i]] = q(posted[i])]
            /\ IF q(posted[i]).st = "active" THEN ClearToSend(posted[i], q(posted[i]))
               ELSE UNCHANGED <<toS, recvq>>
      \/ UNCHANGED <<rreq, recvq>>
  BY <1>1, ZenonT(30) DEF RecvSendInit
<1> HIDE DEF q0, q
<1>5. ASSUME NEW i \in DOMAIN posted,
             rreq' = [rreq EXCEPT ![posted[i]] = q(posted[i])],
             IF q(posted[i]).st = "active" THEN ClearToSend(posted[i], q(posted[i]))
             ELSE UNCHANGED <<toS, recvq>>
      PROVE  CounterInv'
  <2>1. PICK r \in RReq : r = posted[i]
    BY <1>2
  <2>2. PICK c \in RecvRequest : c = q(r)
    BY <1>3
  <2>3. c.peer = s /\ c.st = rreq[r].st /\ c.cc = IF c.st = "active" THEN c.requests ELSE rreq[r].cc
    BY <1>3, <2>2
  <2>4. rreq' = [rreq EXCEPT ![r] = c] /\ IF c.st = "active" THEN ClearToSend(r, c) ELSE UNCHANGED <<toS, recvq>>
    BY <1>5, <2>1, <2>2
  <2>5. rreq[r].peer = NULL
    BY <1>2, <2>1 DEF HandshakeInv, UnpairedRecv
  <2>6. Cardinality(Slots(recvq, r)) = 0
    BY <2>5, UnpairedNoSlots
  <2>7. CASE c.st = "active"
    <3>1. ClearToSend(r, c) /\ c.cc = c.requests
      BY <2>3, <2>4, <2>7
    <3> QED
      BY <1>2, <2>3, <2>4, <2>6, <2>7, <3>1, ClearToSendCounts
  <2>8. CASE c.st # "active"
    <3>1. recvq' = recvq /\ rreq'[r] = c /\ \A x \in RReq : x # r => rreq'[x] = rreq[x]
      BY <1>2, <2>4, <2>8
    <3>2. c.cc = 0
      BY <2>3, <2>8 DEF CounterInv, RecvCount
    <3>3. RecvCount(r)'
      BY <2>6, <2>8, <3>1, <3>2 DEF RecvCount
    <3> QED
      BY <1>2, <3>1, <3>3, ReceiverCounts
  <2> QED
    BY <2>7, <2>8
<1>6. CASE UNCHANGED <<rreq, recvq>>
  BY <1>2, <1>6 DEF CounterInv, RecvCount
<1> QED
  BY <1>4, <1>5, <1>6, Zenon

(* A delivered sub-message takes one sub-receive and one count. *)
LEMMA RecvDataCounts ==
    ASSUME TypeOK, HandshakeInv, CounterInv, NEW p \in Rank, RecvData(p)
    PROVE  CounterInv'
<1>1. PICK i \in DOMAIN recvq :
        /\ rreq' = [rreq EXCEPT ![recvq[i].r].cc = @ - 1,
                      ![recvq[i].r].got = @ \cup
                          {[s |-> Head(toR[p]).s, round |-> Head(toR[p]).round,
                            from |-> Head(toR[p]).from, into |-> recvq[i].into]}]
        /\ recvq' = RemoveAt(recvq, i)
  BY DEF RecvData
<1>2. PICK e \in SubRecv : e = recvq[i]
  BY DEF TypeOK
<1>3. PICK r \in RReq : r = e.r
  BY <1>2 DEF SubRecv
<1>4. rreq[r] \in RecvRequest /\ RecvCount(r) /\ rreq \in [RReq -> RecvRequest] /\ sreq' = sreq
      /\ recvq \in Seq(SubRecv) /\ i \in 1..Len(recvq)
  BY DEF TypeOK, CounterInv, RecvData
<1> DEFINE d == [s |-> Head(toR[p]).s, round |-> Head(toR[p]).round,
                 from |-> Head(toR[p]).from, into |-> e.into]
           c == [rreq[r] EXCEPT !.cc = rreq[r].cc - 1, !.got = rreq[r].got \cup {d}]
<1>5. rreq' = [rreq EXCEPT ![r] = c]
  BY <1>1, <1>2, <1>3, <1>4
<1> HIDE DEF d
<1>6. c.cc = rreq[r].cc - 1 /\ c.peer = rreq[r].peer /\ c.st = rreq[r].st
  BY <1>4 DEF RecvRequest
<1> HIDE DEF c
<1>7. /\ Cardinality(Slots(recvq', r)) = Cardinality(Slots(recvq, r)) - 1
      /\ \A x : x # r => Cardinality(Slots(recvq', x)) = Cardinality(Slots(recvq, x))
  BY <1>1, <1>2, <1>3, <1>4, SlotsRemoved
<1>8. rreq[r].peer # NULL
  BY <1>2, <1>3, <1>4 DEF HandshakeInv, UnpairedRecv
<1>9. rreq[r].cc = Cardinality(Slots(recvq, r)) /\ rreq[r].cc \in Int
  BY <1>4, <1>8 DEF RecvCount, RecvRequest
<1>10. rreq[r].st = "active"
  <2>a. i \in Slots(recvq, r)
    BY <1>2, <1>3, <1>4 DEF Slots
  <2>b. Len(recvq) \in Nat
    BY <1>4
  <2>1. i \in Slots(recvq, r) /\ IsFiniteSet(Slots(recvq, r))
    BY <2>a, <2>b, SlotsFinite
  <2>2. Cardinality(Slots(recvq, r)) # 0
    BY <2>1, FS_EmptySet
  <2> QED
    BY <1>4, <1>9, <2>2 DEF RecvCount
<1>11. rreq'[r] = c /\ \A x \in RReq : x # r => rreq'[x] = rreq[x]
  BY <1>4, <1>5
<1>12. RecvCount(r)'
  BY <1>6, <1>7, <1>8, <1>9, <1>10, <1>11 DEF RecvCount
<1> QED
  BY <1>4, <1>7, <1>11, <1>12, ReceiverCounts

(* The inductive invariant of the completion counters. *)
LEMMA CounterHolds ==
    ASSUME Separated
    PROVE  Spec => []CounterInv
<1>1. Init => CounterInv
  <2> SUFFICES ASSUME Init PROVE CounterInv
    OBVIOUS
  <2>1. Cardinality({}) = 0
    BY FS_EmptySet
  <2>2. ASSUME NEW s \in SReq
        PROVE  SendCount(sreq[s], Parts[s])
    <3>1. sreq[s].cc = 0 /\ sreq[s].out = {} /\ ~sreq[s].alloc
      BY DEF Init
    <3> QED
      BY <2>1, <3>1 DEF SendCount
  <2>3. \A r \in RReq : Slots(recvq, r) = {}
    BY DEF Init, Slots
  <2>4. \A r \in RReq : RecvCount(r)
    BY <2>1, <2>3 DEF Init, RecvCount
  <2> QED
    BY <2>2, <2>4 DEF CounterInv
<1>2. TypeOK /\ HandshakeInv /\ CounterInv /\ [Next]_vars => CounterInv'
  <2> SUFFICES ASSUME TypeOK, HandshakeInv, CounterInv, [Next]_vars PROVE CounterInv'
    OBVIOUS
  <2>1. CASE UNCHANGED vars
    BY <2>1 DEF vars, CounterInv, RecvCount
  <2> QED
    BY <2>1, SendStepCounts, RecvStepCounts, RecvSendInitCounts, RecvDataCounts, RecvCtsCounts
       DEF Next, Deliver, Terminated
<1> QED
  BY <1>1, <1>2, TypeCorrect, HandshakeHolds, PTL DEF Spec

(* MPI_Wait completes a partitioned request exactly when all its             *)
(* sub-requests are done: the counter set by MPI_Start, corrected by the     *)
(* handshake and decremented by the completion callbacks is exact, for any   *)
(* number of partitions, requests and rounds.                                *)
THEOREM CompletionCounterHolds ==
    ASSUME Separated
    PROVE  Spec => []CompletionCounterExact
<1>1. TypeOK /\ HandshakeInv /\ CounterInv => CompletionCounterExact
  <2> SUFFICES ASSUME TypeOK, HandshakeInv, CounterInv PROVE CompletionCounterExact
    OBVIOUS
  <2>1. ASSUME NEW s \in SReq
        PROVE  sreq[s].cc = Cardinality(sreq[s].out)
                 + (IF sreq[s].st = "active" /\ sreq[s].alloc THEN sreq[s].requests - sreq[s].ctr ELSE 0)
    BY DEF HandshakeInv, SendRoundInv, RoundOK, CounterInv, SendCount
  <2>2. ASSUME NEW r \in RReq
        PROVE  rreq[r].cc = IF rreq[r].st = "active" /\ rreq[r].peer = NULL THEN rreq[r].requests
                            ELSE Cardinality(Outstanding(r))
    <3>1. Outstanding(r) = Slots(recvq, r)
      BY DEF TypeOK, Outstanding, Slots
    <3> QED
      BY <3>1 DEF CounterInv, RecvCount
  <2> QED
    BY <2>1, <2>2 DEF CompletionCounterExact
<1> QED
  BY <1>1, TypeCorrect, HandshakeHolds, CounterHolds, PTL

-----------------------------------------------------------------------------
(* Freed requests *)

(* After MPI_Request_free of a send request its partner starts no round that *)
(* the sender did not start: no CTS for it is or will be on its way.         *)
FreedLast ==
    \A s \in SReq : \A r \in RReq :
        sreq[s].st = "freed" /\ Partners(s, r) => rreq[r].round <= sreq[s].round

(* The handshake's reference keeps a posted receive request alive, and the   *)
(* program's as long as it has not freed the request.                        *)
PostedHeld ==
    \A r \in RReq : On(posted, r) => rreq[r].ref = IF rreq[r].st = "freed" THEN 1 ELSE 2

(* A step that initialises, starts and frees nothing. *)
LEMMA FreedLastFrame ==
    ASSUME TypeOK, FreedLast,
           \A s \in SReq :
              /\ sreq'[s].ord = sreq[s].ord /\ sreq'[s].round = sreq[s].round
              /\ sreq'[s].st = "freed" => sreq[s].st = "freed"
              /\ sreq'[s].st # "none" => sreq[s].st # "none",
           \A r \in RReq :
              /\ rreq'[r].ord = rreq[r].ord /\ rreq'[r].round = rreq[r].round
              /\ rreq'[r].st # "none" => rreq[r].st # "none"
    PROVE  FreedLast'
  BY DEF FreedLast, Partners

(* Only send request s changes. *)
LEMMA SenderKeepsFreed ==
    ASSUME TypeOK, FreedLast, NEW s \in SReq, NEW c,
           sreq' = [sreq EXCEPT ![s] = c], rreq' = rreq,
           c.ord = sreq[s].ord,
           c.st = "freed" => sreq[s].st = "freed" /\ c.round = sreq[s].round,
           c.st # "none" => sreq[s].st # "none"
    PROVE  FreedLast'
<1>1. sreq'[s] = c /\ \A x \in SReq : x # s => sreq'[x] = sreq[x]
  BY DEF TypeOK
<1> QED
  BY <1>1 DEF FreedLast, Partners

(* Only receive request r changes, and it is not started. *)
LEMMA ReceiverKeepsFreed ==
    ASSUME TypeOK, FreedLast, NEW r \in RReq, NEW c,
           rreq' = [rreq EXCEPT ![r] = c], sreq' = sreq,
           c.ord = rreq[r].ord, c.round = rreq[r].round, c.st # "none" => rreq[r].st # "none"
    PROVE  FreedLast'
<1>1. rreq'[r] = c /\ \A x \in RReq : x # r => rreq'[x] = rreq[x]
  BY DEF TypeOK
<1> QED
  BY <1>1 DEF FreedLast, Partners

(* Sub-requests are issued: the life cycle of the request stays. *)
LEMMA TransmissionKeepsFreed ==
    ASSUME TypeOK, FreedLast, NEW s \in SReq, NEW q \in SendRequest,
           NEW cand \in SUBSET Nat, IsFiniteSet(cand), CheckDataTransmission(s, q, cand),
           rreq' = rreq, q.ord = sreq[s].ord, q.st = "active", sreq[s].st # "none"
    PROVE  FreedLast'
<1>1. PICK I \in SUBSET cand :
        /\ IsFiniteSet(I)
        /\ sreq' = [sreq EXCEPT ![s] = IF I = {} THEN q ELSE AfterIssue(q, I)]
  BY TransmissionFacts
<1>2. AfterIssue(q, I).st = q.st /\ AfterIssue(q, I).ord = q.ord
  BY <1>1, AfterIssueFacts
<1>3. PICK c : c = (IF I = {} THEN q ELSE AfterIssue(q, I)) /\ c.st = q.st /\ c.ord = q.ord
  BY <1>2
<1>4. sreq' = [sreq EXCEPT ![s] = c]
  BY <1>1, <1>3
<1> QED
  BY <1>3, <1>4, SenderKeepsFreed

(* MPI_Request_free of a send request is the one call on it that FreedLast
   depends on: its guard is the rule for the program. *)
LEMMA SendStepFreed ==
    ASSUME TypeOK, FreedLast, NEW s \in SReq, SendStep(s)
    PROVE  FreedLast'
<1>0. sreq[s] \in SendRequest
  BY DEF TypeOK
<1>1. CASE Psend_init(s)
  <2>1. sreq' = [sreq EXCEPT ![s] = InitSend(s)] /\ rreq' = rreq
    BY <1>1 DEF Psend_init
  <2>2. InitSend(s).st = "inactive"
    BY DEF InitSend
  <2>3. sreq'[s].st = "inactive" /\ \A x \in SReq : x # s => sreq'[x] = sreq[x]
    BY <2>1, <2>2 DEF TypeOK
  <2> QED
    BY <2>1, <2>3 DEF FreedLast, Partners
<1>2. CASE PsendStart(s)
  <2> DEFINE q == [sreq[s] EXCEPT !.st = "active", !.round = @ + 1, !.alloc = TRUE,
                                  !.ready = {}, !.ctr = 0, !.cc = sreq[s].requests]
  <2>1. q \in SendRequest
    BY <1>0, <1>2, StartedSend DEF PsendStart
  <2>2. q.ord = sreq[s].ord /\ q.st = "active" /\ sreq[s].st = "inactive"
    BY <1>0, <1>2 DEF PsendStart, SendRequest
  <2>3. CheckDataTransmission(s, q, AllSubs(q)) /\ rreq' = rreq
    BY <1>2 DEF PsendStart
  <2> HIDE DEF q
  <2> QED
    BY <2>1, <2>2, <2>3, TransmissionKeepsFreed, CandidateSets
<1>3. CASE WaitSend(s)
  <2> DEFINE c == [sreq[s] EXCEPT !.st = "inactive"]
  <2>1. sreq' = [sreq EXCEPT ![s] = c] /\ rreq' = rreq /\ sreq[s].st = "active"
    BY <1>0, <1>3 DEF WaitSend, TypeOK
  <2>2. c.ord = sreq[s].ord /\ c.st = "inactive"
    BY <1>0 DEF SendRequest
  <2> HIDE DEF c
  <2> QED
    BY <2>1, <2>2, SenderKeepsFreed
<1>4. CASE FreeSend(s)
  <2>1. /\ sreq'[s].ord = sreq[s].ord /\ sreq'[s].round = sreq[s].round
        /\ \A x \in SReq : x # s => sreq'[x] = sreq[x]
        /\ sreq[s].st = "inactive" /\ rreq' = rreq
    BY <1>0, <1>4 DEF FreeSend, TypeOK, SendRequest
  <2>2. ASSUME NEW r \in RReq, Partners(s, r) PROVE rreq[r].round <= sreq[s].round
    BY <1>4, <2>2, BoundAssumption DEF FreeSend, TypeOK, RecvRequest
  <2> QED
    BY <2>1, <2>2 DEF FreedLast, Partners
<1>5. ASSUME NEW p \in 0..(Parts[s] - 1), Pready(s, p) PROVE FreedLast'
  <2> DEFINE q == [sreq[s] EXCEPT !.ready = @ \cup {p}]
  <2>1. p \in Nat
    BY ArgAssumption
  <2>2. sreq[s].ready \cup {p} \in SUBSET Nat
    BY <1>0, <2>1 DEF SendRequest
  <2>3. q \in SendRequest /\ q.ord = sreq[s].ord /\ q.st = sreq[s].st
    BY <1>0, <2>2 DEF SendRequest
  <2>4. CheckDataTransmission(s, q, {p \div q.ppr}) /\ rreq' = rreq /\ sreq[s].st = "active"
    BY <1>5 DEF Pready
  <2> HIDE DEF q
  <2> QED
    BY <2>1, <2>3, <2>4, TransmissionKeepsFreed, CandidateSets
<1>6. ASSUME NEW i \in sreq[s].out, SendSubDone(s, i) PROVE FreedLast'
  <2> DEFINE c == [sreq[s] EXCEPT !.out = sreq[s].out \ {i}, !.cc = sreq[s].cc - 1]
  <2>1. sreq' = [sreq EXCEPT ![s] = c] /\ rreq' = rreq
    BY <1>6 DEF SendSubDone, TypeOK
  <2>2. c.ord = sreq[s].ord /\ c.st = sreq[s].st /\ c.round = sreq[s].round
    BY <1>0 DEF SendRequest
  <2> HIDE DEF c
  <2> QED
    BY <2>1, <2>2, SenderKeepsFreed
<1> QED
  BY <1>1, <1>2, <1>3, <1>4, <1>5, <1>6 DEF SendStep

(* The CTS callback leaves the life cycle of the request alone. *)
LEMMA RecvCtsFreed ==
    ASSUME TypeOK, FreedLast, NEW p \in Rank, RecvCts(p)
    PROVE  FreedLast'
<1> DEFINE m == Head(toS[p])
           s == m.s
           q00 == [sreq[s] EXCEPT !.peer = m.r]
           q0 == CheckNumRequests(q00, Parts[s], m.requests)
           q == [q0 EXCEPT !.cc = q0.requests]
<1>1. m \in CtsMessage
  BY HeadTailProperties DEF RecvCts, TypeOK
<1>2. s \in SReq /\ m.r \in RReq /\ m.requests \in Nat \ {0} /\ Parts[s] \in Nat \ {0}
  BY <1>1, ArgAssumption DEF CtsMessage, Req
<1>a. sreq[s] \in SendRequest
  BY <1>2 DEF TypeOK
<1>3. /\ q00 \in SendRequest /\ q00.st = sreq[s].st /\ q00.ord = sreq[s].ord
      /\ q00.round = sreq[s].round
  BY <1>2, <1>a DEF SendRequest
<1>4. rreq' = rreq
  BY DEF RecvCts
<1>5. \/ sreq' = [sreq EXCEPT ![s] = q0]
      \/ sreq[s].st = "active" /\ CheckDataTransmission(s, q, AllSubs(q))
      \/ sreq' = [sreq EXCEPT ![s] = q]
  BY Zenon DEF RecvCts
<1> HIDE DEF m, s, q00
<1>6. /\ q0 \in SendRequest /\ q0.st = sreq[s].st /\ q0.ord = sreq[s].ord
      /\ q0.round = sreq[s].round
  BY <1>2, <1>3, CheckNumSend
<1> HIDE DEF q0
<1>7. /\ q \in SendRequest /\ q.st = sreq[s].st /\ q.ord = sreq[s].ord
      /\ q.round = sreq[s].round
  BY <1>6 DEF SendRequest
<1> HIDE DEF q
<1>8. CASE sreq' = [sreq EXCEPT ![s] = q0]
  BY <1>2, <1>4, <1>6, <1>8, SenderKeepsFreed
<1>9. CASE sreq' = [sreq EXCEPT ![s] = q]
  BY <1>2, <1>4, <1>7, <1>9, SenderKeepsFreed
<1>10. CASE sreq[s].st = "active" /\ CheckDataTransmission(s, q, AllSubs(q))
  BY <1>2, <1>4, <1>7, <1>10, TransmissionKeepsFreed, CandidateSets
<1> QED
  BY <1>5, <1>8, <1>9, <1>10

(* MPID_Precv_init takes the second reference exactly when it posts the
   request; MPI_Start of a receive request needs a partner not freed. *)
LEMMA RecvStepFreed ==
    ASSUME TypeOK, ProgramOrderInv, FreedLast, PostedHeld, NEW r \in RReq, RecvStep(r)
    PROVE  FreedLast' /\ PostedHeld'
<1>0. /\ rreq[r] \in RecvRequest /\ rreq \in [RReq -> RecvRequest] /\ posted \in Seq(RReq)
      /\ unexp \in Seq(SReq) /\ sreq \in [SReq -> SendRequest]
  BY DEF TypeOK
<1>1. CASE Precv_init(r)
  <2>1. sreq' = sreq /\ ~Known(rreq, r)
    BY <1>1 DEF Precv_init, Known
  <2>2. ~On(posted, r)
    BY <2>1 DEF ProgramOrderInv, WaitingUnpaired
  <2>3. ASSUME NEW c, rreq' = [rreq EXCEPT ![r] = c], c.round = 0,
               \A x \in RReq : On(posted', x) => On(posted, x) \/ (x = r /\ c.st = "inactive" /\ c.ref = 2)
        PROVE  FreedLast' /\ PostedHeld'
    <3>1. rreq'[r] = c /\ \A x \in RReq : x # r => rreq'[x] = rreq[x]
      BY <1>0, <2>3
    <3>2. \A s \in SReq : sreq[s].round \in Nat
      BY <1>0, BoundAssumption DEF SendRequest
    <3>3. FreedLast'
      BY <2>1, <2>3, <3>1, <3>2 DEF FreedLast, Partners
    <3>4. PostedHeld'
      BY <2>2, <2>3, <3>1 DEF PostedHeld, On
    <3> QED
      BY <3>3, <3>4
  <2>4. Earlier(r, RReq, rreq) \in Nat /\ Parts[r] \in Nat \ {0} /\ \A x \in SReq : Parts[x] \in Nat \ {0}
    BY EarlierNat, ReqAssumption, ArgAssumption DEF Req
  <2>5. InitRecv(r) \in RecvRequest
    BY <2>4, BoundAssumption DEF InitRecv, RecvRequest, States
  <2>6. ASSUME NEW i \in DOMAIN unexp, posted' = posted,
               rreq' = [rreq EXCEPT ![r] =
                          CheckNumRequests([InitRecv(r) EXCEPT !.peer = unexp[i]], Parts[r], Parts[unexp[i]])]
        PROVE  FreedLast' /\ PostedHeld'
    <3>1. PICK s \in SReq : s = unexp[i]
      BY <1>0
    <3>a. PICK q \in RecvRequest : q = [InitRecv(r) EXCEPT !.peer = s]
      BY <2>5 DEF RecvRequest
    <3>2. q = [InitRecv(r) EXCEPT !.peer = s] /\ q.round = 0
      BY <3>a DEF InitRecv
    <3>3. PICK c \in RecvRequest : c = CheckNumRequests(q, Parts[r], Parts[s]) /\ c.round = q.round
      BY <2>4, CheckNumRecv
    <3>4. rreq' = [rreq EXCEPT ![r] = c]
      BY <2>6, <3>1, <3>2, <3>3, Zenon
    <3>5. \A x \in RReq : On(posted', x) => On(posted, x)
      BY <2>6
    <3> QED
      BY <2>3, <3>2, <3>3, <3>4, <3>5
  <2>7. ASSUME posted' = Append(posted, r),
               rreq' = [rreq EXCEPT ![r] = [InitRecv(r) EXCEPT !.ref = 2]]
        PROVE  FreedLast' /\ PostedHeld'
    <3> DEFINE c == [InitRecv(r) EXCEPT !.ref = 2]
    <3>1. c.round = 0 /\ c.st = "inactive" /\ c.ref = 2
      BY DEF InitRecv
    <3>2. \A x : On(posted', x) => On(posted, x) \/ x = r
      BY <1>0, <2>7, AppendOrder
    <3> HIDE DEF c
    <3> QED
      BY <2>3, <2>7, <3>1, <3>2 DEF c
  <2> QED
    BY <1>1, <2>6, <2>7, Zenon DEF Precv_init
<1>2. ASSUME NEW c, rreq' = [rreq EXCEPT ![r] = c], posted' = posted,
             c.ref = rreq[r].ref, c.st # "freed", rreq[r].st # "freed"
      PROVE  PostedHeld'
  <2>1. rreq'[r] = c /\ \A x \in RReq : x # r => rreq'[x] = rreq[x]
    BY <1>0, <1>2
  <2> QED
    BY <1>2, <2>1 DEF PostedHeld, On
<1>3. CASE PrecvStart(r)
  <2> DEFINE c == [rreq[r] EXCEPT !.st = "active", !.round = @ + 1, !.cc = rreq[r].requests, !.got = {}]
  <2>1. /\ rreq' = [rreq EXCEPT ![r] = c] /\ UNCHANGED <<sreq, posted>> /\ rreq[r].st = "inactive"
        /\ \A s \in SReq : Partners(s, r) => sreq[s].st # "freed"
    BY <1>3 DEF PrecvStart
  <2>2. c.ord = rreq[r].ord /\ c.st = "active" /\ c.ref = rreq[r].ref
    BY <1>0 DEF RecvRequest
  <2> HIDE DEF c
  <2>3. rreq'[r] = c /\ \A x \in RReq : x # r => rreq'[x] = rreq[x]
    BY <1>0, <2>1
  <2>4. FreedLast'
    BY <2>1, <2>2, <2>3 DEF FreedLast, Partners
  <2> QED
    BY <1>2, <2>1, <2>2, <2>4
<1>4. CASE WaitRecv(r)
  <2> DEFINE c == [rreq[r] EXCEPT !.st = "inactive"]
  <2>1. rreq' = [rreq EXCEPT ![r] = c] /\ UNCHANGED <<sreq, posted>> /\ rreq[r].st = "active"
    BY <1>4 DEF WaitRecv, TypeOK
  <2>2. c.ord = rreq[r].ord /\ c.round = rreq[r].round /\ c.st = "inactive" /\ c.ref = rreq[r].ref
    BY <1>0 DEF RecvRequest
  <2> HIDE DEF c
  <2> QED
    BY <1>2, <2>1, <2>2, ReceiverKeepsFreed
<1>5. CASE FreeRecv(r)
  <2> DEFINE c == [rreq[r] EXCEPT !.st = "freed", !.ref = rreq[r].ref - 1]
  <2>1. rreq' = [rreq EXCEPT ![r] = c] /\ UNCHANGED <<sreq, posted>> /\ rreq[r].st = "inactive"
    BY <1>5 DEF FreeRecv, TypeOK
  <2>2. c.ord = rreq[r].ord /\ c.round = rreq[r].round /\ c.st = "freed" /\ c.ref = rreq[r].ref - 1
    BY <1>0 DEF RecvRequest
  <2> HIDE DEF c
  <2>3. rreq'[r] = c /\ \A x \in RReq : x # r => rreq'[x] = rreq[x]
    BY <1>0, <2>1
  <2>4. FreedLast'
    BY <2>1, <2>2, ReceiverKeepsFreed
  <2>5. PostedHeld'
    BY <2>1, <2>2, <2>3 DEF PostedHeld, On
  <2> QED
    BY <2>4, <2>5
<1> QED
  BY <1>1, <1>3, <1>4, <1>5 DEF RecvStep

(* The SEND_INIT callback drops the handshake's reference together with the
   list entry. *)
LEMMA RecvSendInitFreed ==
    ASSUME TypeOK, ProgramOrderInv', FreedLast, PostedHeld, NEW p \in Rank, RecvSendInit(p)
    PROVE  FreedLast' /\ PostedHeld'
<1>0. posted \in Seq(RReq) /\ rreq \in [RReq -> RecvRequest] /\ NULL \notin SReq
  BY ReqAssumption DEF TypeOK, Req
<1>1. PICK s \in SReq : s = Head(toR[p]).s
  <2>1. Head(toR[p]) \in ToRMessage
    BY HeadTailProperties, ZenonT(30) DEF RecvSendInit, TypeOK
  <2> QED
    BY <2>1 DEF ToRMessage
<1>2. sreq' = sreq
  BY DEF RecvSendInit
<1> DEFINE Q0(x) == CheckNumRequests([rreq[x] EXCEPT !.peer = s], Parts[x], Parts[s])
           Q(x) == [Q0(x) EXCEPT !.ref = @ - 1,
                       !.cc = IF Q0(x).st = "active" THEN Q0(x).requests ELSE @]
<1>3. \/ \E i \in DOMAIN posted :
            /\ rreq' = [rreq EXCEPT ![posted[i]] = Q(posted[i])]
            /\ posted' = RemoveAt(posted, i)
      \/ UNCHANGED <<rreq, posted>>
  BY <1>1, Zenon DEF RecvSendInit
<1>4. CASE UNCHANGED <<rreq, posted>>
  BY <1>2, <1>4 DEF FreedLast, Partners, PostedHeld, On
<1>5. ASSUME NEW i \in DOMAIN posted, rreq' = [rreq EXCEPT ![posted[i]] = Q(posted[i])],
             posted' = RemoveAt(posted, i)
      PROVE  FreedLast' /\ PostedHeld'
  <2>1. PICK r \in RReq : r = posted[i]
    BY <1>0
  <2>a. /\ Q(r) \in RecvRequest
        /\ Q(r).peer = s /\ Q(r).st = rreq[r].st /\ Q(r).round = rreq[r].round
        /\ Q(r).ref = rreq[r].ref - 1 /\ Q(r).ord = rreq[r].ord
        /\ Q(r).cc = IF Q(r).st = "active" THEN Q(r).requests ELSE rreq[r].cc
    BY PairedFacts, Zenon
  <2> HIDE DEF Q, Q0
  <2>2. PICK c \in RecvRequest :
          /\ c = Q(r) /\ c.peer = s /\ c.st = rreq[r].st /\ c.round = rreq[r].round
          /\ c.ord = rreq[r].ord
    BY <2>a
  <2>3. rreq' = [rreq EXCEPT ![r] = c]
    BY <1>5, <2>1, <2>2
  <2>4. FreedLast'
    BY <1>2, <2>2, <2>3, ReceiverKeepsFreed
  <2>5. rreq'[r] = c /\ \A x \in RReq : x # r => rreq'[x] = rreq[x]
    BY <1>0, <2>3
  <2>6. ~On(posted', r)
    BY <1>0, <2>2, <2>5 DEF ProgramOrderInv, WaitingUnpaired
  <2>7. \A x : On(posted', x) => On(posted, x)
    BY <1>0, <1>5, RemoveOrder
  <2>8. PostedHeld'
    BY <2>5, <2>6, <2>7 DEF PostedHeld, On
  <2> QED
    BY <2>4, <2>8
<1> QED
  BY <1>3, <1>4, <1>5

(* A delivered sub-message touches neither. *)
LEMMA RecvDataFreed ==
    ASSUME TypeOK, FreedLast, PostedHeld, NEW p \in Rank, RecvData(p)
    PROVE  FreedLast' /\ PostedHeld'
<1>1. UNCHANGED <<sreq, posted>> /\ rreq \in [RReq -> RecvRequest]
  BY DEF RecvData, TypeOK
<1>2. PICK i \in DOMAIN recvq :
        rreq' = [rreq EXCEPT ![recvq[i].r].cc = @ - 1,
                   ![recvq[i].r].got = @ \cup
                       {[s |-> Head(toR[p]).s, round |-> Head(toR[p]).round,
                         from |-> Head(toR[p]).from, into |-> recvq[i].into]}]
  BY DEF RecvData
<1>3. PICK e \in SubRecv : e = recvq[i]
  BY DEF TypeOK
<1>4. PICK r \in RReq : r = e.r
  BY <1>3 DEF SubRecv
<1> DEFINE d == [s |-> Head(toR[p]).s, round |-> Head(toR[p]).round,
                 from |-> Head(toR[p]).from, into |-> e.into]
           c == [rreq[r] EXCEPT !.cc = rreq[r].cc - 1, !.got = rreq[r].got \cup {d}]
<1>5. rreq' = [rreq EXCEPT ![r] = c]
  BY <1>1, <1>2, <1>3, <1>4
<1> HIDE DEF d
<1>6. c.ord = rreq[r].ord /\ c.round = rreq[r].round /\ c.st = rreq[r].st /\ c.ref = rreq[r].ref
  BY <1>1 DEF RecvRequest
<1> HIDE DEF c
<1>7. FreedLast'
  BY <1>1, <1>5, <1>6, ReceiverKeepsFreed
<1>8. rreq'[r] = c /\ \A x \in RReq : x # r => rreq'[x] = rreq[x]
  BY <1>1, <1>5
<1>9. PostedHeld'
  BY <1>1, <1>6, <1>8 DEF PostedHeld, On
<1> QED
  BY <1>7, <1>9

(* FreedLast and PostedHeld need no separation of rounds. *)
LEMMA FreedHolds == Spec => [](FreedLast /\ PostedHeld)
<1>1. Init => FreedLast /\ PostedHeld
  BY DEF Init, FreedLast, PostedHeld, On
<1>2. TypeOK /\ ProgramOrderInv /\ ProgramOrderInv' /\ FreedLast /\ PostedHeld /\ [Next]_vars
        => FreedLast' /\ PostedHeld'
  <2> SUFFICES ASSUME TypeOK, ProgramOrderInv, ProgramOrderInv', FreedLast, PostedHeld, [Next]_vars
               PROVE  FreedLast' /\ PostedHeld'
    OBVIOUS
  <2>1. CASE UNCHANGED vars
    BY <2>1 DEF vars, FreedLast, Partners, PostedHeld, On
  <2>2. ASSUME UNCHANGED <<rreq, posted>> PROVE PostedHeld'
    BY <2>2 DEF PostedHeld, On
  <2>3. ASSUME NEW s \in SReq, SendStep(s) PROVE UNCHANGED <<rreq, posted>>
    BY <2>3 DEF SendStep, Psend_init, PsendStart, WaitSend, FreeSend, Pready, SendSubDone
  <2>4. ASSUME NEW p \in Rank, RecvCts(p) PROVE UNCHANGED <<rreq, posted>>
    BY <2>4 DEF RecvCts
  <2> QED
    BY <2>1, <2>2, <2>3, <2>4, SendStepFreed, RecvCtsFreed, RecvStepFreed, RecvSendInitFreed,
       RecvDataFreed DEF Next, Deliver, Terminated
<1> QED
  BY <1>1, <1>2, TypeCorrect, ProgramOrderHolds, PTL DEF Spec

(* No pointer dangles: the CTS callback writes through the send request      *)
(* pointer it gets back from the receiver, and MPID_do_recv_part_send_init   *)
(* through the entries of part_posted_list, which the program may have freed *)
(* long before.                                                              *)
THEOREM NoDanglingRequestHolds ==
    ASSUME Separated
    PROVE  Spec => []NoDanglingRequest
<1>1. TypeOK /\ ProgramOrderInv /\ HandshakeInv /\ FreedLast /\ PostedHeld => NoDanglingRequest
  <2> SUFFICES ASSUME TypeOK, ProgramOrderInv, HandshakeInv, FreedLast, PostedHeld
               PROVE  NoDanglingRequest
    OBVIOUS
  <2>1. ASSUME NEW i \in DOMAIN posted PROVE rreq[posted[i]].ref > 0
    <3>1. posted[i] \in RReq /\ On(posted, posted[i])
      BY DEF TypeOK, On
    <3> QED
      BY <3>1 DEF PostedHeld
  <2>2. ASSUME NEW p \in Rank, NEW k \in DOMAIN toS[p], sreq[toS[p][k].s].st = "freed"
        PROVE  FALSE
    <3>1. PICK m \in CtsMessage : m = toS[p][k] /\ k \in 1..Len(toS[p])
      BY DEF TypeOK
    <3>2. m.s \in SReq /\ m.r \in RReq /\ m.s # NULL
      BY <3>1, ReqAssumption DEF CtsMessage, Req
    <3>3. rreq[m.r].peer = m.s /\ rreq[m.r].round = Issued(m.s) + 1
      BY <3>1 DEF HandshakeInv, OneClearToSend
    <3>4. Partners(m.s, m.r)
      BY <3>2, <3>3 DEF ProgramOrderInv, PairsAgree, Partners, Known
    <3>5. rreq[m.r].round <= sreq[m.s].round
      BY <2>2, <3>1, <3>2, <3>4 DEF FreedLast
    <3>6. sreq[m.s].alloc = FALSE
      BY <2>2, <3>1, <3>2 DEF HandshakeInv, SendRoundInv, RoundOK, TypeOK, SendRequest
    <3>7. sreq[m.s].round \in Nat
      BY <3>2, BoundAssumption DEF TypeOK, SendRequest
    <3> QED
      BY <3>3, <3>5, <3>6, <3>7 DEF Issued
  <2> QED
    BY <2>1, <2>2 DEF NoDanglingRequest
<1> QED
  BY <1>1, TypeCorrect, ProgramOrderHolds, HandshakeHolds, FreedHolds, PTL

-----------------------------------------------------------------------------
(***************************************************************************)
(* Partitioned data arrives where and when it should: with separated rounds *)
(* and tags kept apart, every data message meets the sub-receive of its own *)
(* round, and a round arrives only when the partner has issued all of it.   *)
(***************************************************************************)

(* Requests of different envelopes keep their tags apart by their number of  *)
(* partitions, and no envelope is used twice: the rule a program must follow *)
(* because the tags of sub-requests are tag + 1 + index.                     *)
TagsApart ==
    /\ \A s \in SReq : \A r \in RReq : \A i \in 0..(Parts[s] - 1) : \A j \in 0..(Parts[r] - 1) :
          RankOf[s] = RankOf[r] /\ CtxOf[s] = CtxOf[r] /\ TagOf[s] + i = TagOf[r] + j
              => TagOf[s] = TagOf[r]
    /\ \A r, x \in RReq : Match(r, x) => r = x

(* Sub-request j of round n has been handed to pscom, for a send request     *)
(* with record q and P partitions.                                           *)
Handed(q, P, n, j) ==
    \/ q.round - (IF q.alloc THEN 1 ELSE 0) >= n
    \/ q.alloc /\ q.peer # NULL /\ SubReady(q, P, j)

(* Sub-receive j of r is in the list l of those that pscom has to fill. *)
Slot(l, r, j) == \E i \in 1..Len(l) : l[i].r = r /\ l[i].into = j

(* The k-th message of connection p is data. *)
DataAt(p, k) == toR[p][k].type = "DATA"

(* Every data message has its own sub-receive, in the round it was sent in. *)
HasSlot(m, stbl, rtbl, l) ==
    \E r \in RReq :
        /\ rtbl[r].peer = m.s /\ rtbl[r].round = m.round
        /\ m.from < rtbl[r].requests /\ Slot(l, r, m.from)
        /\ Handed(stbl[m.s], Parts[m.s], m.round, m.from)

DataHasSlot ==
    \A p \in Rank : \A k \in 1..Len(toR[p]) : DataAt(p, k) =>
        /\ p = RankOf[toR[p][k].s] /\ HasSlot(toR[p][k], sreq, rreq, recvq)
        /\ \A l \in 1..Len(toR[p]) :
              DataAt(p, l) /\ toR[p][l].s = toR[p][k].s /\ toR[p][l].from = toR[p][k].from => l = k

(* What has not been handed to pscom still has its sub-receive. *)
SlotsReady ==
    \A r \in RReq : rreq[r].peer # NULL =>
        \A j \in 0..(rreq[r].requests - 1) :
            Slot(recvq, r, j) \/ Handed(sreq[rreq[r].peer], Parts[rreq[r].peer], rreq[r].round, j)

SlotsOnce ==
    \A i \in 1..Len(recvq) :
        /\ recvq[i].into < rreq[recvq[i].r].requests
        /\ \A l \in 1..Len(recvq) : recvq[l].r = recvq[i].r /\ recvq[l].into = recvq[i].into => l = i

(* Both sides of a pair agree on the number of sub-requests once the sender  *)
(* has its CTS; together they cover all partitions.                          *)
SizesAgree ==
    /\ \A s \in SReq :
          /\ sreq[s].requests <= Parts[s] /\ sreq[s].ppr * sreq[s].requests >= Parts[s]
          /\ (\A r \in RReq : rreq[r].peer # s) => sreq[s].requests = Parts[s]
          /\ sreq[s].peer # NULL => sreq[s].requests = rreq[sreq[s].peer].requests
    /\ \A r \in RReq :
          /\ rreq[r].requests <= Parts[r]
          /\ rreq[r].peer # NULL => rreq[r].requests <= sreq[rreq[r].peer].requests
    /\ \A p \in Rank : \A k \in 1..Len(toS[p]) : toS[p][k].requests = rreq[toS[p][k].r].requests

(* send_ctr counts the sub-requests that are ready. *)
CtrCounts ==
    \A s \in SReq : sreq[s].alloc /\ sreq[s].peer # NULL =>
        sreq[s].ctr = Cardinality({j \in AllSubs(sreq[s]) : SubReady(sreq[s], Parts[s], j)})

PlacedInv == DataHasSlot /\ SlotsReady /\ SlotsOnce /\ DataOfOwnRound

-----------------------------------------------------------------------------
(* The number of sub-requests *)

(* Ceiling division covers all partitions. *)
LEMMA CeilCovers ==
    ASSUME NEW P \in Nat \ {0}, NEW m \in Nat \ {0}
    PROVE  (P \div m + (IF P % m > 0 THEN 1 ELSE 0)) * m >= P
<1>1. P = m * (P \div m) + (P % m) /\ P % m \in 0..(m - 1) /\ P \div m \in Nat
  OBVIOUS
<1>2. PICK k \in Nat, e \in 0..(m - 1) : k = P \div m /\ e = P % m
  BY <1>1
<1>3. P = m * k + e
  BY <1>1, <1>2
<1>4. (k + 1) * m = m * k + m /\ (k + 0) * m = m * k /\ m * k \in Nat
  OBVIOUS
<1>5. (k + (IF e > 0 THEN 1 ELSE 0)) * m >= P
  BY <1>3, <1>4
<1> QED
  BY <1>2, <1>5

(* MPID_part_check_num_requests agrees on the smaller number and still       *)
(* covers all partitions.                                                    *)
LEMMA CheckNumSizes ==
    ASSUME NEW q, q \in SendRequest \/ q \in RecvRequest, NEW P \in Nat \ {0}, NEW n \in Nat \ {0}
    PROVE  LET c == CheckNumRequests(q, P, n)
           IN  /\ c.requests = IF q.requests < n THEN q.requests ELSE n
               /\ q.ppr * q.requests >= P => c.ppr * c.requests >= P
<1> DEFINE c == CheckNumRequests(q, P, n)
           m == IF q.requests < n THEN q.requests ELSE n
           d == P \div m + (IF P % m > 0 THEN 1 ELSE 0)
<1>1. q.requests \in Nat \ {0} /\ m \in Nat \ {0}
  BY DEF SendRequest, RecvRequest
<1>2. CASE q.requests = n
  <2>1. c = q
    BY <1>2 DEF CheckNumRequests
  <2> QED
    BY <1>1, <1>2, <2>1
<1>3. CASE q.requests # n
  <2>1. d * m >= P
    BY <1>1, CeilCovers
  <2>2. c = [q EXCEPT !.requests = m, !.ppr = d]
    BY <1>3 DEF CheckNumRequests
  <2> HIDE DEF d, m
  <2>3. c.requests = m /\ c.ppr = d
    BY <2>2 DEF SendRequest, RecvRequest
  <2>4. c.requests = m /\ (q.ppr * q.requests >= P => c.ppr * c.requests >= P)
    BY <2>1, <2>3
  <2> QED
    BY <2>4 DEF m
<1> QED
  BY <1>2, <1>3

(* Every CTS in flight was in flight before. *)
CtsTaken ==
    \A p \in Rank : \A k \in 1..Len(toS'[p]) : \E l \in 1..Len(toS[p]) : toS'[p][k] = toS[p][l]

(* Only send request s changes. *)
LEMMA SenderSizes ==
    ASSUME SizesAgree, NEW s \in SReq, NEW c, sreq'[s] = c,
           \A x \in SReq : x # s => sreq'[x] = sreq[x], rreq' = rreq, CtsTaken,
           c.requests <= Parts[s], c.ppr * c.requests >= Parts[s],
           (\A r \in RReq : rreq[r].peer # s) => c.requests = Parts[s],
           c.peer # NULL => c.requests = rreq[c.peer].requests,
           \A r \in RReq : rreq[r].peer = s => rreq[r].requests <= c.requests,
           \A r \in RReq : rreq[r].peer # NULL => rreq[r].peer \in SReq
    PROVE  SizesAgree'
<1>1. ASSUME NEW x \in SReq
      PROVE  /\ sreq'[x].requests <= Parts[x] /\ sreq'[x].ppr * sreq'[x].requests >= Parts[x]
             /\ (\A r \in RReq : rreq'[r].peer # x) => sreq'[x].requests = Parts[x]
             /\ sreq'[x].peer # NULL => sreq'[x].requests = rreq'[sreq'[x].peer].requests
  BY DEF SizesAgree
<1>2. ASSUME NEW r \in RReq
      PROVE  /\ rreq'[r].requests <= Parts[r]
             /\ rreq'[r].peer # NULL => rreq'[r].requests <= sreq'[rreq'[r].peer].requests
  BY DEF SizesAgree
<1>3. ASSUME NEW p \in Rank, NEW k \in 1..Len(toS'[p])
      PROVE  toS'[p][k].requests = rreq'[toS'[p][k].r].requests
  BY DEF SizesAgree, CtsTaken
<1> QED
  BY <1>1, <1>2, <1>3 DEF SizesAgree

(* Sub-requests are issued; their number does not change. *)
LEMMA TransmissionSizes ==
    ASSUME TypeOK, SizesAgree, NEW s \in SReq, NEW q \in SendRequest,
           NEW cand \in SUBSET Nat, IsFiniteSet(cand), CheckDataTransmission(s, q, cand),
           rreq' = rreq, CtsTaken,
           q.requests <= Parts[s], q.ppr * q.requests >= Parts[s],
           (\A r \in RReq : rreq[r].peer # s) => q.requests = Parts[s],
           q.peer # NULL => q.requests = rreq[q.peer].requests,
           \A r \in RReq : rreq[r].peer = s => rreq[r].requests <= q.requests
    PROVE  SizesAgree'
<1>1. PICK I \in SUBSET cand :
        /\ IsFiniteSet(I)
        /\ sreq' = [sreq EXCEPT ![s] = IF I = {} THEN q ELSE AfterIssue(q, I)]
  BY TransmissionFacts
<1>2. /\ AfterIssue(q, I).requests = q.requests /\ AfterIssue(q, I).ppr = q.ppr
      /\ AfterIssue(q, I).peer \in {NULL, q.peer}
  BY <1>1, AfterIssueFacts
<1>3. PICK c : c = (IF I = {} THEN q ELSE AfterIssue(q, I))
  OBVIOUS
<1>4. c.requests = q.requests /\ c.ppr = q.ppr /\ c.peer \in {NULL, q.peer}
  BY <1>2, <1>3
<1>5. sreq'[s] = c /\ \A x \in SReq : x # s => sreq'[x] = sreq[x]
  BY <1>1, <1>3 DEF TypeOK
<1>6. \A r \in RReq : rreq[r].peer # NULL => rreq[r].peer \in SReq
  BY DEF TypeOK, RecvRequest
<1> QED
  BY <1>4, <1>5, <1>6, SenderSizes

(* A step that leaves the channels to the senders alone takes no CTS it has not. *)
LEMMA SameCts == ASSUME toS' = toS PROVE CtsTaken
  BY DEF CtsTaken

(* A step of a sender keeps the sizes both sides agree on. *)
LEMMA SendStepSizes ==
    ASSUME TypeOK, HandshakeInv, SizesAgree, NEW s \in SReq, SendStep(s)
    PROVE  SizesAgree'
<1>0. sreq[s] \in SendRequest /\ \A r \in RReq : rreq[r].peer # NULL => rreq[r].peer \in SReq
  BY DEF TypeOK, RecvRequest
<1>1. rreq' = rreq /\ CtsTaken
  BY SameCts DEF SendStep, Psend_init, PsendStart, WaitSend, FreeSend, Pready, SendSubDone
<1>2. /\ sreq[s].requests <= Parts[s] /\ sreq[s].ppr * sreq[s].requests >= Parts[s]
      /\ (\A r \in RReq : rreq[r].peer # s) => sreq[s].requests = Parts[s]
      /\ sreq[s].peer # NULL => sreq[s].requests = rreq[sreq[s].peer].requests
      /\ \A r \in RReq : rreq[r].peer = s => rreq[r].requests <= sreq[s].requests
  BY ReqAssumption DEF SizesAgree, Req
<1>3. ASSUME NEW c, sreq' = [sreq EXCEPT ![s] = c], c.requests = sreq[s].requests,
             c.ppr = sreq[s].ppr, c.peer = sreq[s].peer
      PROVE  SizesAgree'
  <2>1. sreq'[s] = c /\ \A x \in SReq : x # s => sreq'[x] = sreq[x]
    BY <1>3 DEF TypeOK
  <2> QED
    BY <1>0, <1>1, <1>2, <1>3, <2>1, SenderSizes
<1>4. CASE Psend_init(s)
  <2>1. sreq' = [sreq EXCEPT ![s] = InitSend(s)] /\ sreq[s].st = "none"
    BY <1>4 DEF Psend_init
  <2>2. PICK c : c = InitSend(s)
    OBVIOUS
  <2>3. c.requests = Parts[s] /\ c.ppr = 1 /\ c.peer = NULL /\ Parts[s] \in Nat
    BY <2>2, ArgAssumption DEF InitSend, Req
  <2>4. \A r \in RReq : rreq[r].peer # s
    BY <2>1, ReqAssumption DEF HandshakeInv, AnnouncedOnce, Req
  <2>5. sreq'[s] = c /\ \A x \in SReq : x # s => sreq'[x] = sreq[x]
    BY <2>1, <2>2 DEF TypeOK
  <2>6. c.requests <= Parts[s] /\ c.ppr * c.requests >= Parts[s]
    BY <2>3
  <2> QED
    BY <1>0, <1>1, <2>3, <2>4, <2>5, <2>6, SenderSizes
<1>5. CASE PsendStart(s)
  <2> DEFINE q == [sreq[s] EXCEPT !.st = "active", !.round = @ + 1, !.alloc = TRUE,
                                  !.ready = {}, !.ctr = 0, !.cc = sreq[s].requests]
  <2>1. q \in SendRequest
    BY <1>0, <1>5, StartedSend DEF PsendStart
  <2>2. q.requests = sreq[s].requests /\ q.peer = sreq[s].peer /\ q.ppr = sreq[s].ppr
    BY <1>0 DEF SendRequest
  <2>3. CheckDataTransmission(s, q, AllSubs(q))
    BY <1>5 DEF PsendStart
  <2> HIDE DEF q
  <2> QED
    BY <1>1, <1>2, <2>1, <2>2, <2>3, TransmissionSizes, CandidateSets
<1>6. ASSUME NEW p \in 0..(Parts[s] - 1), Pready(s, p) PROVE SizesAgree'
  <2> DEFINE q == [sreq[s] EXCEPT !.ready = @ \cup {p}]
  <2>1. p \in Nat
    BY ArgAssumption
  <2>2. q \in SendRequest
    <3>1. sreq[s].ready \cup {p} \in SUBSET Nat
      BY <1>0, <2>1 DEF SendRequest
    <3> QED
      BY <1>0, <3>1 DEF SendRequest
  <2>3. q.requests = sreq[s].requests /\ q.peer = sreq[s].peer /\ q.ppr = sreq[s].ppr
    BY <1>0 DEF SendRequest
  <2>4. CheckDataTransmission(s, q, {p \div q.ppr})
    BY <1>6 DEF Pready
  <2> HIDE DEF q
  <2> QED
    BY <1>1, <1>2, <2>1, <2>2, <2>3, <2>4, TransmissionSizes, CandidateSets
<1>7. ASSUME NEW i \in sreq[s].out, SendSubDone(s, i) PROVE SizesAgree'
  <2> DEFINE c == [sreq[s] EXCEPT !.out = sreq[s].out \ {i}, !.cc = sreq[s].cc - 1]
  <2>1. sreq' = [sreq EXCEPT ![s] = c]
    BY <1>7 DEF SendSubDone, TypeOK
  <2>2. c.requests = sreq[s].requests /\ c.peer = sreq[s].peer /\ c.ppr = sreq[s].ppr
    BY <1>0 DEF SendRequest
  <2> HIDE DEF c
  <2> QED
    BY <1>3, <2>1, <2>2
<1>8. CASE WaitSend(s) \/ FreeSend(s)
  <2>1. PICK st \in States : sreq' = [sreq EXCEPT ![s].st = st]
    BY <1>8 DEF WaitSend, FreeSend, States
  <2> DEFINE c == [sreq[s] EXCEPT !.st = st]
  <2>2. sreq' = [sreq EXCEPT ![s] = c]
    BY <2>1
  <2>3. c.requests = sreq[s].requests /\ c.peer = sreq[s].peer /\ c.ppr = sreq[s].ppr
    BY <1>0 DEF SendRequest
  <2> HIDE DEF c
  <2> QED
    BY <1>3, <2>2, <2>3
<1> QED
  BY <1>4, <1>5, <1>6, <1>7, <1>8 DEF SendStep

(* The head of a channel of CTS messages is taken. *)
LEMMA CtsHeadTaken ==
    ASSUME TypeOK, NEW p \in Rank, toS[p] # <<>>, toS' = [toS EXCEPT ![p] = Tail(@)]
    PROVE  CtsTaken
<1>1. /\ toS[p] \in Seq(CtsMessage) /\ Tail(toS[p]) \in Seq(CtsMessage)
      /\ Len(Tail(toS[p])) = Len(toS[p]) - 1 /\ Len(toS[p]) \in Nat
      /\ \A k \in 1..Len(Tail(toS[p])) : Tail(toS[p])[k] = toS[p][k + 1]
  BY HeadTailProperties DEF TypeOK
<1>2. toS'[p] = Tail(toS[p]) /\ \A x \in Rank : x # p => toS'[x] = toS[x]
  BY DEF TypeOK
<1>3. ASSUME NEW k \in 1..Len(toS'[p]) PROVE \E l \in 1..Len(toS[p]) : toS'[p][k] = toS[p][l]
  <2>1. k \in 1..Len(Tail(toS[p])) /\ toS'[p][k] = Tail(toS[p])[k]
    BY <1>2
  <2>2. toS'[p][k] = toS[p][k + 1]
    BY <1>1, <2>1
  <2>3. k + 1 \in 1..Len(toS[p])
    BY <1>1, <2>1
  <2> QED
    BY <2>2, <2>3
<1> QED
  BY <1>2, <1>3 DEF CtsTaken

(* The CTS callback takes over the number of sub-requests of the receiver. *)
LEMMA RecvCtsSizes ==
    ASSUME TypeOK, HandshakeInv, SizesAgree, NEW p \in Rank, RecvCts(p)
    PROVE  SizesAgree'
<1> DEFINE m == Head(toS[p])
           s == m.s
           q00 == [sreq[s] EXCEPT !.peer = m.r]
           q0 == CheckNumRequests(q00, Parts[s], m.requests)
           q == [q0 EXCEPT !.cc = q0.requests]
<1>1. toS[p] # <<>> /\ m = toS[p][1] /\ 1 \in 1..Len(toS[p]) /\ m \in CtsMessage
  BY HeadTailProperties, SMTT(30) DEF RecvCts, TypeOK
<1>2. s \in SReq /\ m.r \in RReq /\ m.requests \in Nat \ {0} /\ Parts[s] \in Nat \ {0}
  BY <1>1, ArgAssumption DEF CtsMessage, Req
<1>3. rreq[m.r].peer = s /\ m.requests = rreq[m.r].requests /\ s # NULL
  BY <1>1, <1>2, ReqAssumption DEF HandshakeInv, OneClearToSend, SizesAgree, Req
<1>4. sreq[s] \in SendRequest
  BY <1>2 DEF TypeOK
<1>5. q00 \in SendRequest /\ q00.peer = m.r /\ q00.requests = sreq[s].requests /\ q00.ppr = sreq[s].ppr
  BY <1>2, <1>4 DEF SendRequest
<1>6. rreq' = rreq /\ CtsTaken
  BY <1>1, CtsHeadTaken DEF RecvCts
<1>7. \/ sreq' = [sreq EXCEPT ![s] = q0]
      \/ CheckDataTransmission(s, q, AllSubs(q))
      \/ sreq' = [sreq EXCEPT ![s] = q]
  BY Zenon DEF RecvCts
<1> HIDE DEF m, s, q00
<1>8. q0 \in SendRequest /\ q0.peer = m.r
  BY <1>2, <1>5, CheckNumSend
<1>9. /\ q0.requests = IF q00.requests < m.requests THEN q00.requests ELSE m.requests
      /\ q00.ppr * q00.requests >= Parts[s] => q0.ppr * q0.requests >= Parts[s]
  BY <1>2, <1>5, CheckNumSizes
<1> HIDE DEF q0
<1>10. /\ sreq[s].requests <= Parts[s] /\ sreq[s].ppr * sreq[s].requests >= Parts[s]
       /\ m.requests <= sreq[s].requests /\ m.requests <= Parts[m.r]
  BY <1>2, <1>3 DEF SizesAgree
<1>11. sreq[s].requests \in Nat /\ Parts[s] \in Nat
  BY <1>2, <1>4 DEF SendRequest
<1>12. /\ q0.requests = m.requests /\ q0.requests <= Parts[s]
       /\ q0.ppr * q0.requests >= Parts[s]
  BY <1>2, <1>5, <1>9, <1>10, <1>11
<1>13. /\ q \in SendRequest /\ q.peer = m.r /\ q.requests = q0.requests /\ q.ppr = q0.ppr
  BY <1>8 DEF SendRequest
<1> HIDE DEF q
<1>14. \A r \in RReq : rreq[r].peer = s => r = m.r
  BY <1>2, <1>3 DEF HandshakeInv, AnnouncedOnce
<1>15. \A r \in RReq : rreq[r].peer = s => rreq[r].requests <= m.requests
  BY <1>2, <1>3, <1>14
<1>16. \A r \in RReq : rreq[r].peer # NULL => rreq[r].peer \in SReq
  BY DEF TypeOK, RecvRequest
<1>17. ASSUME NEW c, c = q0 \/ c = q, sreq' = [sreq EXCEPT ![s] = c] PROVE SizesAgree'
  <2>1. sreq'[s] = c /\ \A x \in SReq : x # s => sreq'[x] = sreq[x]
    BY <1>2, <1>17 DEF TypeOK
  <2>2. c.peer = m.r /\ c.requests = m.requests /\ c.ppr = q0.ppr
    BY <1>8, <1>12, <1>13, <1>17
  <2>3. c.requests <= Parts[s] /\ c.ppr * c.requests >= Parts[s]
    BY <1>12, <2>2
  <2> QED
    BY <1>2, <1>3, <1>6, <1>15, <1>16, <2>1, <2>2, <2>3, SenderSizes
<1>18. CASE CheckDataTransmission(s, q, AllSubs(q))
  <2>1. q.requests <= Parts[s] /\ q.ppr * q.requests >= Parts[s] /\ q.requests = rreq[q.peer].requests
    BY <1>3, <1>12, <1>13
  <2>2. \A r \in RReq : rreq[r].peer = s => rreq[r].requests <= q.requests
    BY <1>12, <1>13, <1>15
  <2>3. ~(\A r \in RReq : rreq[r].peer # s)
    BY <1>2, <1>3
  <2>4. AllSubs(q) \in SUBSET Nat /\ IsFiniteSet(AllSubs(q))
    BY <1>13, CandidateSets
  <2> QED
    BY <1>2, <1>6, <1>13, <1>18, <2>1, <2>2, <2>3, <2>4, TransmissionSizes
<1> QED
  BY <1>7, <1>17, <1>18

-----------------------------------------------------------------------------
(* What the receiver's steps leave *)

(* Receive request r becomes c, the others and the senders stay. *)
Becomes(r, c) ==
    /\ rreq' = [rreq EXCEPT ![r] = c] /\ c \in RecvRequest /\ sreq' = sreq
    /\ rreq'[r] = c /\ \A x \in RReq : x # r => rreq'[x] = rreq[x]

(* MPID_Precv_init: unpaired with all its partitions, or paired with a       *)
(* SEND_INIT that came before.                                               *)
LEMMA PrecvInitResult ==
    ASSUME TypeOK, NEW r \in RReq, Precv_init(r)
    PROVE  /\ rreq[r].st = "none" /\ UNCHANGED <<recvq, toR, toS>>
           /\ \E c \in RecvRequest :
                 /\ Becomes(r, c) /\ c.round = 0 /\ c.got = {}
                 /\ \/ c.peer = NULL /\ c.requests = Parts[r]
                    \/ \E s \in SReq : /\ On(unexp, s) /\ Match(s, r) /\ c.peer = s
                                       /\ c.requests <= Parts[r] /\ c.requests <= Parts[s]
<1>1. /\ rreq[r].st = "none" /\ UNCHANGED <<recvq, toR, toS>> /\ sreq' = sreq
      /\ rreq \in [RReq -> RecvRequest] /\ unexp \in Seq(SReq)
  BY DEF Precv_init, TypeOK
<1>2. Parts[r] \in Nat \ {0} /\ Earlier(r, RReq, rreq) \in Nat
  BY ArgAssumption, EarlierNat, ReqAssumption DEF Req
<1>3. InitRecv(r) \in RecvRequest
  BY <1>2, BoundAssumption DEF InitRecv, RecvRequest, States
<1>4. /\ InitRecv(r).round = 0 /\ InitRecv(r).got = {} /\ InitRecv(r).peer = NULL
      /\ InitRecv(r).requests = Parts[r]
  BY DEF InitRecv
<1>5. ASSUME NEW c \in RecvRequest, rreq' = [rreq EXCEPT ![r] = c] PROVE Becomes(r, c)
  BY <1>1, <1>5 DEF Becomes
<1>6. ASSUME NEW i \in DOMAIN unexp, Match(unexp[i], r),
             rreq' = [rreq EXCEPT ![r] =
                        CheckNumRequests([InitRecv(r) EXCEPT !.peer = unexp[i]], Parts[r], Parts[unexp[i]])]
      PROVE  \E c \in RecvRequest :
               /\ Becomes(r, c) /\ c.round = 0 /\ c.got = {}
               /\ \E s \in SReq : /\ On(unexp, s) /\ Match(s, r) /\ c.peer = s
                                  /\ c.requests <= Parts[r] /\ c.requests <= Parts[s]
  <2>1. PICK s \in SReq : s = unexp[i]
    BY <1>1
  <2>2. Parts[s] \in Nat \ {0}
    BY ArgAssumption DEF Req
  <2>3. PICK q \in RecvRequest : q = [InitRecv(r) EXCEPT !.peer = s]
    BY <1>3 DEF RecvRequest
  <2>4. q.round = 0 /\ q.got = {} /\ q.peer = s /\ q.requests = Parts[r]
    BY <1>3, <1>4, <2>3 DEF RecvRequest
  <2>5. PICK c \in RecvRequest :
          /\ c = CheckNumRequests(q, Parts[r], Parts[s])
          /\ c.round = q.round /\ c.got = q.got /\ c.peer = q.peer
    BY <1>2, <2>2, CheckNumRecv
  <2>6. c.requests = IF q.requests < Parts[s] THEN q.requests ELSE Parts[s]
    BY <1>2, <2>2, <2>5, CheckNumSizes
  <2>7. rreq' = [rreq EXCEPT ![r] = c]
    BY <1>6, <2>1, <2>3, <2>5, Zenon
  <2>8. On(unexp, s) /\ Match(s, r)
    BY <1>1, <1>6, <2>1 DEF On
  <2>9. c.requests <= Parts[r] /\ c.requests <= Parts[s]
    BY <1>2, <2>2, <2>4, <2>6
  <2>10. Becomes(r, c) /\ c.round = 0 /\ c.got = {} /\ c.peer = s
    BY <1>5, <2>4, <2>5, <2>7
  <2> QED
    BY <2>8, <2>9, <2>10
<1>7. ASSUME rreq' = [rreq EXCEPT ![r] = [InitRecv(r) EXCEPT !.ref = 2]]
      PROVE  \E c \in RecvRequest : /\ Becomes(r, c) /\ c.round = 0 /\ c.got = {}
                                    /\ c.peer = NULL /\ c.requests = Parts[r]
  <2>0. \A q \in RecvRequest :
          /\ [q EXCEPT !.ref = 2] \in RecvRequest
          /\ [q EXCEPT !.ref = 2].round = q.round /\ [q EXCEPT !.ref = 2].got = q.got
          /\ [q EXCEPT !.ref = 2].peer = q.peer /\ [q EXCEPT !.ref = 2].requests = q.requests
    BY DEF RecvRequest
  <2>1. PICK c \in RecvRequest : c = [InitRecv(r) EXCEPT !.ref = 2]
    BY <1>3, <2>0
  <2>2. c.round = 0 /\ c.got = {} /\ c.peer = NULL /\ c.requests = Parts[r]
    BY <1>3, <1>4, <2>0, <2>1
  <2> QED
    BY <1>5, <1>7, <2>1, <2>2
<1>8. \/ \E i \in DOMAIN unexp :
           /\ Match(unexp[i], r)
           /\ rreq' = [rreq EXCEPT ![r] =
                        CheckNumRequests([InitRecv(r) EXCEPT !.peer = unexp[i]], Parts[r], Parts[unexp[i]])]
      \/ rreq' = [rreq EXCEPT ![r] = [InitRecv(r) EXCEPT !.ref = 2]]
  BY Zenon DEF Precv_init, FirstMatch
<1>9. CASE \E i \in DOMAIN unexp :
             /\ Match(unexp[i], r)
             /\ rreq' = [rreq EXCEPT ![r] =
                          CheckNumRequests([InitRecv(r) EXCEPT !.peer = unexp[i]], Parts[r], Parts[unexp[i]])]
  BY <1>1, <1>6, <1>9, Zenon
<1>10. CASE rreq' = [rreq EXCEPT ![r] = [InitRecv(r) EXCEPT !.ref = 2]]
  BY <1>1, <1>7, <1>10, Zenon
<1> QED
  BY <1>8, <1>9, <1>10, Zenon

(* The SEND_INIT callback: no receive request yet, or the first one that     *)
(* matches is paired and, when it is active, cleared to send.                *)
LEMMA RecvSendInitResult ==
    ASSUME TypeOK, NEW p \in Rank, RecvSendInit(p)
    PROVE  /\ toR[p] # <<>> /\ Head(toR[p]).type = "SEND_INIT" /\ sreq' = sreq
           /\ toR' = [toR EXCEPT ![p] = Tail(toR[p])]
           /\ \/ UNCHANGED <<rreq, recvq, toS>>
              \/ \E s \in SReq : \E r \in RReq : \E c \in RecvRequest :
                    /\ s = Head(toR[p]).s /\ On(posted, r) /\ Match(r, s)
                    /\ Becomes(r, c) /\ c.peer = s /\ c.st = rreq[r].st
                    /\ c.round = rreq[r].round /\ c.got = rreq[r].got
                    /\ c.requests <= rreq[r].requests /\ c.requests <= Parts[s]
                    /\ \/ c.st = "active" /\ ClearToSend(r, c)
                       \/ c.st # "active" /\ UNCHANGED <<recvq, toS>>
<1>1. PICK s \in SReq : s = Head(toR[p]).s
  <2>1. Head(toR[p]) \in ToRMessage
    BY HeadTailProperties, ZenonT(30) DEF RecvSendInit, TypeOK
  <2> QED
    BY <2>1 DEF ToRMessage
<1>2. posted \in Seq(RReq) /\ rreq \in [RReq -> RecvRequest]
  BY DEF TypeOK
<1>3. /\ toR[p] # <<>> /\ Head(toR[p]).type = "SEND_INIT" /\ sreq' = sreq
      /\ toR' = [toR EXCEPT ![p] = Tail(toR[p])]
  BY ZenonT(30) DEF RecvSendInit
<1> DEFINE q00(r) == [rreq[r] EXCEPT !.peer = s]
           q0(r) == CheckNumRequests(q00(r), Parts[r], Parts[s])
           q(r)  == [q0(r) EXCEPT !.ref = @ - 1,
                       !.cc = IF q0(r).st = "active" THEN q0(r).requests ELSE @]
<1>4. \/ UNCHANGED <<rreq, recvq, toS>>
      \/ \E i \in DOMAIN posted :
            /\ Match(posted[i], s)
            /\ rreq' = [rreq EXCEPT ![posted[i]] = q(posted[i])]
            /\ IF q(posted[i]).st = "active" THEN ClearToSend(posted[i], q(posted[i]))
               ELSE UNCHANGED <<toS, recvq>>
  BY <1>1, ZenonT(30) DEF RecvSendInit, FirstMatch
<1>5. ASSUME NEW r \in RReq
      PROVE  /\ q(r) \in RecvRequest /\ q(r).peer = s /\ q(r).st = rreq[r].st
             /\ q(r).round = rreq[r].round
  BY PairedFacts, ZenonT(30)
<1>6. ASSUME NEW r \in RReq
      PROVE  /\ q(r).got = rreq[r].got
             /\ q(r).requests <= rreq[r].requests /\ q(r).requests <= Parts[s]
  <2>1. q00(r) \in RecvRequest /\ q00(r).got = rreq[r].got /\ q00(r).requests = rreq[r].requests
    BY <1>2 DEF RecvRequest
  <2>2. Parts[r] \in Nat \ {0} /\ Parts[s] \in Nat \ {0} /\ rreq[r].requests \in Nat
    BY <1>2, ArgAssumption DEF Req, RecvRequest
  <2> HIDE DEF q00
  <2>3. q0(r) \in RecvRequest /\ q0(r).got = q00(r).got
    BY <2>1, <2>2, CheckNumRecv
  <2>4. q0(r).requests = IF q00(r).requests < Parts[s] THEN q00(r).requests ELSE Parts[s]
    BY <2>1, <2>2, CheckNumSizes
  <2> HIDE DEF q0
  <2>5. q(r).got = q0(r).got /\ q(r).requests = q0(r).requests
    BY <2>3 DEF RecvRequest
  <2> HIDE DEF q
  <2> QED
    BY <2>1, <2>2, <2>3, <2>4, <2>5
<1> HIDE DEF q00, q0, q
<1>7. ASSUME NEW i \in DOMAIN posted, Match(posted[i], s),
             rreq' = [rreq EXCEPT ![posted[i]] = q(posted[i])],
             IF q(posted[i]).st = "active" THEN ClearToSend(posted[i], q(posted[i]))
             ELSE UNCHANGED <<toS, recvq>>
      PROVE  \E r \in RReq : \E c \in RecvRequest :
                    /\ s = Head(toR[p]).s /\ On(posted, r) /\ Match(r, s)
                    /\ Becomes(r, c) /\ c.peer = s /\ c.st = rreq[r].st
                    /\ c.round = rreq[r].round /\ c.got = rreq[r].got
                    /\ c.requests <= rreq[r].requests /\ c.requests <= Parts[s]
                    /\ \/ c.st = "active" /\ ClearToSend(r, c)
                       \/ c.st # "active" /\ UNCHANGED <<recvq, toS>>
  <2>1. PICK r \in RReq : r = posted[i]
    BY <1>2
  <2>2. PICK c \in RecvRequest : c = q(r)
    BY <1>5
  <2>3. /\ c.peer = s /\ c.st = rreq[r].st /\ c.round = rreq[r].round /\ c.got = rreq[r].got
        /\ c.requests <= rreq[r].requests /\ c.requests <= Parts[s]
    BY <1>5, <1>6, <2>2
  <2>4. /\ rreq' = [rreq EXCEPT ![r] = c]
        /\ IF c.st = "active" THEN ClearToSend(r, c) ELSE UNCHANGED <<toS, recvq>>
    BY <1>7, <2>1, <2>2
  <2>5. Becomes(r, c)
    BY <1>2, <1>3, <2>4 DEF Becomes
  <2>6. On(posted, r) /\ Match(r, s)
    BY <1>2, <1>7, <2>1 DEF On
  <2>7. \/ c.st = "active" /\ ClearToSend(r, c)
        \/ c.st # "active" /\ UNCHANGED <<recvq, toS>>
    BY <2>4
  <2> QED
    BY <1>1, <2>3, <2>5, <2>6, <2>7, Zenon
<1> QED
  BY <1>3, <1>4, <1>7, Zenon

(* MPI_Start of a receive request. *)
LEMMA PrecvStartResult ==
    ASSUME TypeOK, NEW r \in RReq, PrecvStart(r)
    PROVE  /\ rreq[r].st = "inactive" /\ toR' = toR
           /\ Separated /\ rreq[r].peer # NULL => Completed(rreq[r].peer) >= rreq[r].round
           /\ \E c \in RecvRequest :
                 /\ Becomes(r, c) /\ c.st = "active" /\ c.round = rreq[r].round + 1 /\ c.got = {}
                 /\ c.peer = rreq[r].peer /\ c.requests = rreq[r].requests
                 /\ \/ c.peer # NULL /\ ClearToSend(r, c)
                    \/ c.peer = NULL /\ UNCHANGED <<recvq, toS>>
<1> DEFINE c == [rreq[r] EXCEPT !.st = "active", !.round = @ + 1, !.cc = rreq[r].requests, !.got = {}]
<1>1. /\ rreq' = [rreq EXCEPT ![r] = c] /\ rreq[r].st = "inactive" /\ rreq[r].round < MaxRounds
      /\ IF c.peer # NULL THEN ClearToSend(r, c) ELSE UNCHANGED <<toS, recvq>>
      /\ toR' = toR /\ sreq' = sreq
      /\ Separated /\ rreq[r].peer # NULL => Completed(rreq[r].peer) >= rreq[r].round
  BY DEF PrecvStart
<1>2. rreq \in [RReq -> RecvRequest] /\ rreq[r] \in RecvRequest
  BY DEF TypeOK
<1>3. /\ c.st = "active" /\ c.requests = rreq[r].requests /\ c.round = rreq[r].round + 1
      /\ c.peer = rreq[r].peer /\ c.got = {}
  BY <1>2 DEF RecvRequest
<1>4. c \in RecvRequest
  <2>1. rreq[r].round + 1 \in 0..MaxRounds /\ rreq[r].requests \in Int
    BY <1>1, <1>2, BoundAssumption DEF RecvRequest
  <2> QED
    BY <1>2, <2>1 DEF RecvRequest, States
<1> HIDE DEF c
<1>5. Becomes(r, c)
  BY <1>1, <1>2, <1>4 DEF Becomes
<1>6. \/ c.peer # NULL /\ ClearToSend(r, c)
      \/ c.peer = NULL /\ UNCHANGED <<recvq, toS>>
  BY <1>1
<1> QED
  BY <1>1, <1>3, <1>4, <1>5, <1>6, Zenon

(* MPI_Wait and MPI_Request_free of a receive request. *)
LEMMA WaitFreeRecvResult ==
    ASSUME TypeOK, NEW r \in RReq, WaitRecv(r) \/ FreeRecv(r)
    PROVE  /\ UNCHANGED <<recvq, toR, toS>>
           /\ \E c \in RecvRequest :
                 /\ Becomes(r, c) /\ c.peer = rreq[r].peer /\ c.requests = rreq[r].requests
                 /\ c.round = rreq[r].round /\ c.got = rreq[r].got
<1>1. rreq \in [RReq -> RecvRequest] /\ rreq[r] \in RecvRequest
  BY DEF TypeOK
<1>2. /\ UNCHANGED <<recvq, toR, toS>> /\ sreq' = sreq
      /\ \/ rreq' = [rreq EXCEPT ![r] = [rreq[r] EXCEPT !.st = "inactive"]]
         \/ rreq' = [rreq EXCEPT ![r] = [rreq[r] EXCEPT !.st = "freed", !.ref = rreq[r].ref - 1]]
  BY <1>1 DEF WaitRecv, FreeRecv
<1>3. PICK c : /\ rreq' = [rreq EXCEPT ![r] = c]
               /\ \/ c = [rreq[r] EXCEPT !.st = "inactive"]
                  \/ c = [rreq[r] EXCEPT !.st = "freed", !.ref = rreq[r].ref - 1]
  BY <1>2
<1>4. /\ c \in RecvRequest /\ c.peer = rreq[r].peer /\ c.requests = rreq[r].requests
      /\ c.round = rreq[r].round /\ c.got = rreq[r].got
  <2>1. rreq[r].ref - 1 \in Int /\ "inactive" \in States /\ "freed" \in States
    BY <1>1 DEF RecvRequest, States
  <2>2. CASE c = [rreq[r] EXCEPT !.st = "inactive"]
    BY <1>1, <2>1, <2>2 DEF RecvRequest
  <2>3. CASE c = [rreq[r] EXCEPT !.st = "freed", !.ref = rreq[r].ref - 1]
    BY <1>1, <2>1, <2>3 DEF RecvRequest
  <2> QED
    BY <1>3, <2>2, <2>3
<1>5. Becomes(r, c)
  BY <1>1, <1>2, <1>3, <1>4 DEF Becomes
<1> QED
  BY <1>2, <1>4, <1>5

(* A data message is delivered into sub-receive i. *)
LEMMA RecvDataResult ==
    ASSUME TypeOK, NEW p \in Rank, RecvData(p)
    PROVE  /\ toR[p] # <<>> /\ Head(toR[p]) \in ToRMessage /\ Head(toR[p]).type = "DATA"
           /\ toS' = toS /\ toR' = [toR EXCEPT ![p] = Tail(toR[p])]
           /\ \E i \in 1..Len(recvq) : \E c \in RecvRequest :
                 /\ recvq[i].r \in RReq /\ recvq[i].into \in Nat
                 /\ DataMatch(Head(toR[p]), recvq[i]) /\ recvq' = RemoveAt(recvq, i)
                 /\ Becomes(recvq[i].r, c)
                 /\ c.peer = rreq[recvq[i].r].peer /\ c.requests = rreq[recvq[i].r].requests
                 /\ c.round = rreq[recvq[i].r].round
                 /\ c.got = rreq[recvq[i].r].got \cup
                        {[s |-> Head(toR[p]).s, round |-> Head(toR[p]).round,
                          from |-> Head(toR[p]).from, into |-> recvq[i].into]}
<1>1. PICK i \in DOMAIN recvq :
        /\ DataMatch(Head(toR[p]), recvq[i])
        /\ rreq' = [rreq EXCEPT ![recvq[i].r].cc = @ - 1,
                      ![recvq[i].r].got = @ \cup
                          {[s |-> Head(toR[p]).s, round |-> Head(toR[p]).round,
                            from |-> Head(toR[p]).from, into |-> recvq[i].into]}]
        /\ recvq' = RemoveAt(recvq, i)
  BY DEF RecvData
<1>2. PICK e \in SubRecv : e = recvq[i]
  BY DEF TypeOK
<1>3. PICK r \in RReq : r = e.r
  BY <1>2 DEF SubRecv
<1>4. /\ rreq[r] \in RecvRequest /\ rreq \in [RReq -> RecvRequest] /\ sreq' = sreq
      /\ recvq \in Seq(SubRecv) /\ i \in 1..Len(recvq)
  BY DEF TypeOK, RecvData
<1>5. /\ toR[p] # <<>> /\ Head(toR[p]).type = "DATA" /\ toS' = toS
      /\ toR' = [toR EXCEPT ![p] = Tail(toR[p])]
  BY DEF RecvData
<1>6. PICK m \in ToRMessage : m = Head(toR[p])
  BY <1>5, HeadTailProperties DEF TypeOK
<1>7. PICK d \in [s: SReq, round: Nat, from: Nat, into: Nat] :
        d = [s |-> m.s, round |-> m.round, from |-> m.from, into |-> e.into]
  BY DEF SubRecv, ToRMessage
<1> DEFINE c == [rreq[r] EXCEPT !.cc = rreq[r].cc - 1, !.got = rreq[r].got \cup {d}]
<1>8. rreq' = [rreq EXCEPT ![r] = c]
  BY <1>1, <1>2, <1>3, <1>4, <1>6, <1>7
<1>9. /\ c.peer = rreq[r].peer /\ c.requests = rreq[r].requests /\ c.round = rreq[r].round
      /\ c.got = rreq[r].got \cup {d}
  BY <1>4 DEF RecvRequest
<1>10. c \in RecvRequest
  <2>1. rreq[r].cc - 1 \in Int /\ rreq[r].got \cup {d} \in SUBSET [s: SReq, round: Nat, from: Nat, into: Nat]
    BY <1>4 DEF RecvRequest
  <2> QED
    BY <1>4, <2>1 DEF RecvRequest
<1> HIDE DEF c
<1>11. Becomes(r, c)
  BY <1>4, <1>8, <1>10 DEF Becomes
<1>12. e.into \in Nat
  BY DEF SubRecv
<1> QED
  BY <1>1, <1>2, <1>3, <1>4, <1>5, <1>6, <1>7, <1>9, <1>10, <1>11, <1>12

(* Receive request r becomes c; a pair keeps its number of sub-requests and  *)
(* a new CTS carries it.                                                     *)
LEMMA ReceiverSizes ==
    ASSUME TypeOK, HandshakeInv, SizesAgree, NEW r \in RReq, NEW c \in RecvRequest, Becomes(r, c),
           c.requests <= Parts[r], c.peer # NULL => c.requests <= sreq[c.peer].requests,
           rreq[r].peer # NULL => c.requests = rreq[r].requests /\ c.peer = rreq[r].peer,
           \A p \in Rank : \A k \in 1..Len(toS'[p]) :
               \/ \E l \in 1..Len(toS[p]) : toS'[p][k] = toS[p][l]
               \/ toS'[p][k].r = r /\ toS'[p][k].requests = c.requests
    PROVE  SizesAgree'
<1>1. /\ sreq' = sreq /\ rreq'[r] = c /\ \A x \in RReq : x # r => rreq'[x] = rreq[x]
      /\ \A s \in SReq : s # NULL
  BY ReqAssumption DEF Becomes, Req
<1>2. ASSUME NEW x \in SReq
      PROVE  /\ sreq'[x].requests <= Parts[x] /\ sreq'[x].ppr * sreq'[x].requests >= Parts[x]
             /\ (\A y \in RReq : rreq'[y].peer # x) => sreq'[x].requests = Parts[x]
             /\ sreq'[x].peer # NULL => sreq'[x].requests = rreq'[sreq'[x].peer].requests
  <2>1. sreq[x].requests <= Parts[x] /\ sreq[x].ppr * sreq[x].requests >= Parts[x]
    BY DEF SizesAgree
  <2>2. (\A y \in RReq : rreq'[y].peer # x) => \A y \in RReq : rreq[y].peer # x
    BY <1>1
  <2>3. (\A y \in RReq : rreq'[y].peer # x) => sreq[x].requests = Parts[x]
    BY <2>2 DEF SizesAgree
  <2>4. sreq[x].peer # NULL => sreq[x].requests = rreq'[sreq[x].peer].requests
    <3> HAVE sreq[x].peer # NULL
    <3>1. PICK y \in RReq : y = sreq[x].peer
      BY DEF TypeOK, SendRequest
    <3>2. rreq[y].peer = x /\ sreq[x].requests = rreq[y].requests
      BY <3>1 DEF HandshakeInv, OneClearToSend, SizesAgree
    <3>3. rreq'[y].requests = rreq[y].requests
      BY <1>1, <3>2
    <3> QED
      BY <3>1, <3>2, <3>3
  <2> QED
    BY <1>1, <2>1, <2>3, <2>4
<1>3. ASSUME NEW x \in RReq
      PROVE  /\ rreq'[x].requests <= Parts[x]
             /\ rreq'[x].peer # NULL => rreq'[x].requests <= sreq'[rreq'[x].peer].requests
  BY <1>1 DEF SizesAgree
<1>4. ASSUME NEW p \in Rank, NEW k \in 1..Len(toS'[p])
      PROVE  toS'[p][k].requests = rreq'[toS'[p][k].r].requests
  <2>1. CASE \E l \in 1..Len(toS[p]) : toS'[p][k] = toS[p][l]
    <3>1. PICK l \in 1..Len(toS[p]) : toS'[p][k] = toS[p][l]
      BY <2>1
    <3>2. PICK m \in CtsMessage : m = toS[p][l]
      BY DEF TypeOK
    <3>3. m.s \in SReq /\ m.r \in RReq
      BY DEF CtsMessage
    <3>4. rreq[m.r].peer = m.s /\ m.requests = rreq[m.r].requests
      BY <3>2 DEF HandshakeInv, OneClearToSend, SizesAgree
    <3>5. rreq'[m.r].requests = rreq[m.r].requests
      BY <1>1, <3>3, <3>4
    <3> QED
      BY <3>1, <3>2, <3>4, <3>5
  <2>2. CASE toS'[p][k].r = r /\ toS'[p][k].requests = c.requests
    BY <1>1, <2>2
  <2> QED
    BY <2>1, <2>2
<1> QED
  BY <1>2, <1>3, <1>4 DEF SizesAgree

(* The channels of CTS messages after one more is sent. *)
LEMMA CtsAdded ==
    ASSUME TypeOK, NEW r \in RReq, NEW c \in RecvRequest, c.peer # NULL, ClearToSend(r, c)
    PROVE  \A p \in Rank : \A k \in 1..Len(toS'[p]) :
               \/ \E l \in 1..Len(toS[p]) : toS'[p][k] = toS[p][l]
               \/ toS'[p][k].r = r /\ toS'[p][k].requests = c.requests
<1>1. PICK m \in CtsMessage :
        /\ m = [s |-> c.peer, r |-> r, requests |-> c.requests]
        /\ toS' = [toS EXCEPT ![RankOf[r]] = Append(toS[RankOf[r]], m)]
  <2> DEFINE x == [s |-> c.peer, r |-> r, requests |-> c.requests]
  <2>1. x \in CtsMessage /\ toS' = [toS EXCEPT ![RankOf[r]] = Append(toS[RankOf[r]], x)]
    BY ClearToSendFacts, Zenon
  <2> HIDE DEF x
  <2>2. \E m \in CtsMessage : m = x /\ toS' = [toS EXCEPT ![RankOf[r]] = Append(toS[RankOf[r]], m)]
    BY <2>1
  <2> QED
    BY <2>2 DEF x
<1>2. m.r = r /\ m.requests = c.requests
  BY <1>1
<1>3. RankOf[r] \in Rank /\ toS \in [Rank -> Seq(CtsMessage)]
  BY ArgAssumption DEF Req, TypeOK
<1>4. ASSUME NEW p \in Rank, NEW k \in 1..Len(toS'[p])
      PROVE  \/ \E l \in 1..Len(toS[p]) : toS'[p][k] = toS[p][l]
             \/ toS'[p][k] = m
  <2>1. CASE p # RankOf[r]
    BY <1>1, <1>3, <2>1
  <2>2. CASE p = RankOf[r]
    <3>1. toS'[p] = Append(toS[p], m) /\ toS[p] \in Seq(CtsMessage)
      BY <1>1, <1>3, <2>2
    <3>2. /\ Len(Append(toS[p], m)) = Len(toS[p]) + 1 /\ Len(toS[p]) \in Nat
          /\ Append(toS[p], m)[Len(toS[p]) + 1] = m
          /\ \A l \in 1..Len(toS[p]) : Append(toS[p], m)[l] = toS[p][l]
      BY <3>1, AppendProperties
    <3>3. k \in 1..Len(toS[p]) \/ k = Len(toS[p]) + 1
      BY <3>1, <3>2
    <3> QED
      BY <3>1, <3>2, <3>3
  <2> QED
    BY <2>1, <2>2
<1> QED
  BY <1>2, <1>4

(* Nothing is in flight to a sender that has not changed. *)
LEMMA CtsSame ==
    ASSUME toS' = toS, NEW r, NEW n
    PROVE  \A p \in Rank : \A k \in 1..Len(toS'[p]) :
               \/ \E l \in 1..Len(toS[p]) : toS'[p][k] = toS[p][l]
               \/ toS'[p][k].r = r /\ toS'[p][k].requests = n
  OBVIOUS

(* An unpaired request is announced with all its partitions. *)
LEMMA UnpairedSizes ==
    ASSUME SizesAgree, NEW s \in SReq, \A r \in RReq : rreq[r].peer # s
    PROVE  sreq[s].requests = Parts[s]
  BY DEF SizesAgree

(* So do the steps of receivers. *)
LEMMA ReceiveSizes ==
    ASSUME TypeOK, HandshakeInv, SizesAgree,
           (\E r \in RReq : RecvStep(r)) \/ (\E p \in Rank : RecvSendInit(p) \/ RecvData(p))
    PROVE  SizesAgree'
<1>0. \A r \in RReq : /\ rreq[r].requests <= Parts[r]
                      /\ rreq[r].peer # NULL => rreq[r].requests <= sreq[rreq[r].peer].requests
  BY DEF SizesAgree
<1>1. ASSUME NEW r \in RReq, NEW c \in RecvRequest, Becomes(r, c), toS' = toS,
             c.peer = rreq[r].peer, c.requests = rreq[r].requests
      PROVE  SizesAgree'
  BY <1>0, <1>1, CtsSame, ReceiverSizes
<1>2. ASSUME NEW r \in RReq, Precv_init(r) PROVE SizesAgree'
  <2>1. rreq[r].st = "none" /\ UNCHANGED <<recvq, toR, toS>>
    BY <1>2, PrecvInitResult
  <2>2. PICK c \in RecvRequest :
          /\ Becomes(r, c)
          /\ \/ c.peer = NULL /\ c.requests = Parts[r]
             \/ \E s \in SReq : /\ On(unexp, s) /\ c.peer = s
                                /\ c.requests <= Parts[r] /\ c.requests <= Parts[s]
    BY <1>2, PrecvInitResult
  <2>3. rreq[r].peer = NULL /\ Parts[r] \in Nat
    BY <2>1, ArgAssumption DEF HandshakeInv, UnpairedRecv, Req
  <2>4. ASSUME NEW s \in SReq, On(unexp, s), c.requests <= Parts[s] PROVE c.requests <= sreq[s].requests
    <3>1. \A x \in RReq : rreq[x].peer # s
      BY <2>4 DEF HandshakeInv, AnnouncedOnce, On
    <3> QED
      BY <2>4, <3>1, UnpairedSizes
  <2>5. c.requests <= Parts[r] /\ (c.peer # NULL => c.requests <= sreq[c.peer].requests)
    BY <2>2, <2>3, <2>4
  <2> QED
    BY <2>1, <2>2, <2>3, <2>5, CtsSame, ReceiverSizes
<1>3. ASSUME NEW r \in RReq, PrecvStart(r) PROVE SizesAgree'
  <2>1. PICK c \in RecvRequest :
          /\ Becomes(r, c) /\ c.peer = rreq[r].peer /\ c.requests = rreq[r].requests
          /\ \/ c.peer # NULL /\ ClearToSend(r, c)
             \/ c.peer = NULL /\ UNCHANGED <<recvq, toS>>
    BY <1>3, PrecvStartResult
  <2>2. CASE c.peer = NULL /\ UNCHANGED <<recvq, toS>>
    BY <1>1, <2>1, <2>2
  <2>3. CASE c.peer # NULL /\ ClearToSend(r, c)
    <3>1. \A p \in Rank : \A k \in 1..Len(toS'[p]) :
               \/ \E l \in 1..Len(toS[p]) : toS'[p][k] = toS[p][l]
               \/ toS'[p][k].r = r /\ toS'[p][k].requests = c.requests
      BY <2>3, CtsAdded
    <3> QED
      BY <1>0, <2>1, <3>1, ReceiverSizes
  <2> QED
    BY <2>1, <2>2, <2>3
<1>4. ASSUME NEW r \in RReq, WaitRecv(r) \/ FreeRecv(r) PROVE SizesAgree'
  BY <1>1, <1>4, WaitFreeRecvResult
<1>5. ASSUME NEW p \in Rank, RecvData(p) PROVE SizesAgree'
  <2>1. PICK i \in 1..Len(recvq), c \in RecvRequest :
          /\ recvq[i].r \in RReq /\ Becomes(recvq[i].r, c)
          /\ c.peer = rreq[recvq[i].r].peer /\ c.requests = rreq[recvq[i].r].requests
    BY <1>5, RecvDataResult
  <2>2. toS' = toS
    BY <1>5, RecvDataResult
  <2> QED
    BY <1>1, <2>1, <2>2
<1>6. ASSUME NEW p \in Rank, RecvSendInit(p) PROVE SizesAgree'
  <2>1. sreq' = sreq /\ toR[p] # <<>> /\ Head(toR[p]).type = "SEND_INIT"
    BY <1>6, RecvSendInitResult
  <2>2. \/ UNCHANGED <<rreq, recvq, toS>>
        \/ \E s \in SReq : \E r \in RReq : \E c \in RecvRequest :
              /\ s = Head(toR[p]).s /\ On(posted, r)
              /\ Becomes(r, c) /\ c.peer = s
              /\ c.requests <= rreq[r].requests /\ c.requests <= Parts[s]
              /\ (ClearToSend(r, c) \/ toS' = toS)
    BY <1>6, RecvSendInitResult
  <2>3. CASE UNCHANGED <<rreq, recvq, toS>>
    BY <2>1, <2>3 DEF SizesAgree
  <2>4. ASSUME NEW s \in SReq, NEW r \in RReq, NEW c \in RecvRequest,
               s = Head(toR[p]).s, On(posted, r), Becomes(r, c), c.peer = s,
               c.requests <= rreq[r].requests, c.requests <= Parts[s],
               ClearToSend(r, c) \/ toS' = toS
        PROVE  SizesAgree'
    <3>1. toR[p] \in Seq(ToRMessage) /\ Head(toR[p]) = toR[p][1] /\ 1 \in 1..Len(toR[p])
      BY <2>1, HeadTailProperties DEF TypeOK
    <3>2. \A x \in RReq : rreq[x].peer # s
      BY <2>1, <2>4, <3>1 DEF HandshakeInv, AnnouncedOnce, InitAt
    <3>3. c.requests <= sreq[s].requests
      BY <2>4, <3>2, UnpairedSizes
    <3>4. rreq[r].peer = NULL /\ s # NULL
      BY <2>4, ReqAssumption DEF HandshakeInv, UnpairedRecv, On, Req
    <3>5. c.requests <= Parts[r]
      <4>1. c.requests \in Nat /\ rreq[r].requests \in Nat /\ Parts[r] \in Nat
        BY ArgAssumption DEF TypeOK, RecvRequest, Req
      <4> QED
        BY <1>0, <2>4, <4>1
    <3>6. \A y \in Rank : \A k \in 1..Len(toS'[y]) :
               \/ \E l \in 1..Len(toS[y]) : toS'[y][k] = toS[y][l]
               \/ toS'[y][k].r = r /\ toS'[y][k].requests = c.requests
      BY <2>4, <3>4, CtsAdded, CtsSame
    <3> QED
      BY <2>4, <3>3, <3>4, <3>5, <3>6, ReceiverSizes
  <2> QED
    BY <2>2, <2>3, <2>4
<1> QED
  BY <1>2, <1>3, <1>4, <1>5, <1>6 DEF RecvStep

(* Both sides of a pair agree on the number of sub-requests. *)
LEMMA SizesHold ==
    ASSUME Separated
    PROVE  Spec => []SizesAgree
<1>1. Init => SizesAgree
  <2> SUFFICES ASSUME Init PROVE SizesAgree
    OBVIOUS
  <2>1. ASSUME NEW s \in SReq
        PROVE  sreq[s].requests = Parts[s] /\ sreq[s].ppr = 1 /\ sreq[s].peer = NULL
    BY DEF Init
  <2>2. ASSUME NEW r \in RReq
        PROVE  rreq[r].requests = Parts[r] /\ rreq[r].peer = NULL
    BY DEF Init
  <2>3. \A x \in Req : Parts[x] \in Nat
    BY ArgAssumption
  <2>4. \A p \in Rank : toS[p] = <<>>
    BY DEF Init
  <2>5. ASSUME NEW s \in SReq
        PROVE  sreq[s].requests <= Parts[s] /\ sreq[s].ppr * sreq[s].requests >= Parts[s]
    BY <2>1, <2>3 DEF Req
  <2>6. \A r \in RReq : rreq[r].requests <= Parts[r]
    BY <2>2, <2>3 DEF Req
  <2> QED
    BY <2>1, <2>2, <2>4, <2>5, <2>6 DEF SizesAgree
<1>2. TypeOK /\ HandshakeInv /\ SizesAgree /\ [Next]_vars => SizesAgree'
  <2> SUFFICES ASSUME TypeOK, HandshakeInv, SizesAgree, [Next]_vars PROVE SizesAgree'
    OBVIOUS
  <2>1. CASE UNCHANGED vars
    BY <2>1 DEF vars, SizesAgree
  <2> QED
    BY <2>1, SendStepSizes, ReceiveSizes, RecvCtsSizes DEF Next, Deliver, Terminated
<1> QED
  BY <1>1, <1>2, TypeCorrect, HandshakeHolds, PTL DEF Spec

-----------------------------------------------------------------------------
(* Data on its way *)

(* The connections keep their messages; new data is of send request s, round *)
(* n and sub-requests of I, each of them once.                               *)
NewData(s, n, I) ==
    /\ \A p \in Rank :
          /\ Len(toR[p]) \in Nat /\ Len(toR'[p]) \in Nat /\ Len(toR[p]) <= Len(toR'[p])
          /\ \A k \in 1..Len(toR[p]) : toR'[p][k] = toR[p][k]
    /\ \A p \in Rank : \A k \in (Len(toR[p]) + 1)..Len(toR'[p]) : toR'[p][k].type = "DATA" =>
          /\ p = RankOf[s] /\ toR'[p][k].s = s /\ toR'[p][k].round = n /\ toR'[p][k].from \in I
          /\ \A l \in (Len(toR[p]) + 1)..Len(toR'[p]) :
                toR'[p][l].type = "DATA" /\ toR'[p][l].from = toR'[p][k].from => l = k

(* The sub-requests that one call sends, and the messages it appends. *)
LEMMA TransmissionData ==
    ASSUME TypeOK, NEW s \in SReq, NEW q \in SendRequest,
           NEW cand \in SUBSET Nat, IsFiniteSet(cand),
           CheckDataTransmission(s, q, cand)
    PROVE  \E I \in SUBSET cand :
              /\ IsFiniteSet(I)
              /\ q.peer = NULL => I = {}
              /\ q.peer # NULL => I = {i \in cand : SubReady(q, Parts[s], i)}
              /\ sreq' = [sreq EXCEPT ![s] = IF I = {} THEN q ELSE AfterIssue(q, I)]
              /\ NewData(s, q.round, I)
<1> DEFINE I == IF q.peer = NULL THEN {} ELSE {i \in cand : SubReady(q, Parts[s], i)}
<1>1. I \in SUBSET cand /\ IsFiniteSet(I)
  BY FS_Subset, FS_EmptySet
<1>2. PICK order \in [1..Cardinality(I) -> I] :
        /\ Ascending(order)
        /\ sreq' = [sreq EXCEPT ![s] = IF I = {} THEN q ELSE AfterIssue(q, I)]
        /\ toR' = [toR EXCEPT ![RankOf[s]] = @ \o DataMessages(s, q.round, order)]
  BY DEF CheckDataTransmission
<1>3. (q.peer = NULL => I = {}) /\ (q.peer # NULL => I = {i \in cand : SubReady(q, Parts[s], i)})
  OBVIOUS
<1> HIDE DEF I
<1> DEFINE d == DataMessages(s, q.round, order)
<1>4. Cardinality(I) \in Nat /\ q.round \in Nat /\ RankOf[s] \in Rank
  BY <1>1, FS_CardinalityType, ArgAssumption, BoundAssumption DEF SendRequest, Req
<1>5. PICK n \in Nat : n = Cardinality(I)
  BY <1>4
<1>6. order \in [1..n -> I] /\ \A k \in 1..n : order[k] \in Nat
  BY <1>1, <1>2, <1>5
<1>7. \A k, l \in 1..n : order[k] = order[l] => k = l
  <2>1. \A k, l \in 1..n : k < l => order[k] < order[l]
    BY <1>2, <1>6 DEF Ascending
  <2>2. SUFFICES ASSUME NEW k \in 1..n, NEW l \in 1..n, order[k] = order[l] PROVE k = l
    OBVIOUS
  <2>3. k \in Nat /\ l \in Nat /\ order[k] \in Nat /\ order[l] \in Nat
    BY <1>6
  <2> QED
    BY <2>1, <2>2, <2>3
<1>8. /\ d \in Seq(ToRMessage) /\ Len(d) = n
      /\ \A k \in 1..n : d[k].type = "DATA" /\ d[k].s = s /\ d[k].round = q.round /\ d[k].from = order[k]
  <2>1. DOMAIN order = 1..n
    BY <1>6
  <2>2. ASSUME NEW k \in 1..n
        PROVE  [type |-> "DATA", s |-> s, round |-> q.round, from |-> order[k]] \in ToRMessage
    <3>1. order[k] \in Nat
      BY <1>6
    <3> QED
      BY <1>4, <3>1 DEF ToRMessage
  <2>3. d = [k \in 1..n |->
               [type |-> "DATA", s |-> s, round |-> q.round, from |-> order[k]]]
    BY <2>1 DEF DataMessages
  <2> QED
    BY <2>2, <2>3
<1> HIDE DEF d
<1>9. NewData(s, q.round, I)
  <2> DEFINE p0 == RankOf[s]
  <2>1. toR \in [Rank -> Seq(ToRMessage)]
    BY DEF TypeOK
  <2>2. toR' = [toR EXCEPT ![p0] = toR[p0] \o d]
    BY <1>2 DEF d
  <2>3. ASSUME NEW p \in Rank, p # p0
        PROVE  Len(toR[p]) \in Nat /\ toR'[p] = toR[p]
    BY <2>1, <2>2, <2>3
  <2>4. PICK a \in Seq(ToRMessage) : a = toR[p0]
    BY <1>4, <2>1
  <2>5. toR'[p0] = a \o d
    BY <1>4, <2>1, <2>2, <2>4
  <2>6. /\ \A k \in 1..Len(a) : (a \o d)[k] = a[k]
        /\ Len(a \o d) = Len(a) + n /\ Len(a) \in Nat
    <3>1. \A k \in 1..Len(a) : (a \o d)[k] = a[k]
      BY <1>8
    <3>2. Len(a \o d) = Len(a) + Len(d) /\ Len(a) \in Nat
      BY <1>8
    <3> QED
      BY <1>8, <3>1, <3>2
  <2>7. \A k \in (Len(a) + 1)..(Len(a) + n) : (a \o d)[k] = d[k - Len(a)]
    BY <1>8
  <2>8. ASSUME NEW k \in (Len(a) + 1)..(Len(a) + n)
        PROVE  /\ (a \o d)[k].s = s /\ (a \o d)[k].round = q.round
               /\ (a \o d)[k].from = order[k - Len(a)] /\ k - Len(a) \in 1..n
    <3>1. k - Len(a) \in 1..n
      BY <2>6
    <3> QED
      BY <1>8, <2>7, <3>1
  <2>9. ASSUME NEW k \in (Len(a) + 1)..(Len(a) + n)
        PROVE  /\ (a \o d)[k].from \in I
               /\ \A l \in (Len(a) + 1)..(Len(a) + n) : (a \o d)[l].from = (a \o d)[k].from => l = k
    <3>1. (a \o d)[k].from \in I
      BY <1>6, <2>8
    <3>2. ASSUME NEW l \in (Len(a) + 1)..(Len(a) + n), (a \o d)[l].from = (a \o d)[k].from
          PROVE  l = k
      <4>1. l - Len(a) = k - Len(a)
        BY <1>7, <2>8, <3>2
      <4> QED
        BY <2>6, <4>1
    <3> QED
      BY <3>1, <3>2
  <2>10. ASSUME NEW p \in Rank
         PROVE  /\ Len(toR[p]) \in Nat /\ Len(toR'[p]) \in Nat /\ Len(toR[p]) <= Len(toR'[p])
                /\ \A k \in 1..Len(toR[p]) : toR'[p][k] = toR[p][k]
    BY <2>3, <2>4, <2>5, <2>6
  <2>11. ASSUME NEW p \in Rank, NEW k \in (Len(toR[p]) + 1)..Len(toR'[p])
         PROVE  /\ p = RankOf[s] /\ toR'[p][k].s = s /\ toR'[p][k].round = q.round
                /\ toR'[p][k].from \in I
                /\ \A l \in (Len(toR[p]) + 1)..Len(toR'[p]) :
                      toR'[p][l].type = "DATA" /\ toR'[p][l].from = toR'[p][k].from => l = k
    <3>1. p = p0
      BY <2>3, <2>11
    <3>2. Len(toR[p]) = Len(a) /\ Len(toR'[p]) = Len(a) + n /\ toR'[p] = a \o d
      BY <2>4, <2>5, <2>6, <3>1
    <3> QED
      BY <2>8, <2>9, <3>1, <3>2
  <2> QED
    BY <2>10, <2>11 DEF NewData
<1> QED
  BY <1>1, <1>2, <1>3, <1>9

(* A step of send request s that becomes c: what was handed to pscom stays   *)
(* handed, and every new data message is one whose sub-receive is still      *)
(* there because it was not handed before.                                   *)
LEMMA SenderPlaced ==
    ASSUME TypeOK, HandshakeInv, PlacedInv, NEW s \in SReq, NEW c, NEW n, NEW I,
           sreq'[s] = c, \A x \in SReq : x # s => sreq'[x] = sreq[x], UNCHANGED <<rreq, recvq>>,
           NewData(s, n, I),
           \A r \in RReq : \A j \in Nat : rreq[r].peer = s /\ Handed(sreq[s], Parts[s], rreq[r].round, j)
               => Handed(c, Parts[s], rreq[r].round, j),
           \A i \in I : /\ i \in Nat
                        /\ \E r \in RReq : rreq[r].peer = s /\ rreq[r].round = n /\ i < rreq[r].requests
                        /\ ~Handed(sreq[s], Parts[s], n, i) /\ Handed(c, Parts[s], n, i)
    PROVE  PlacedInv'
<1>1. /\ toR \in [Rank -> Seq(ToRMessage)] /\ recvq \in Seq(SubRecv)
      /\ \A p \in Rank : \A k \in 1..Len(toR[p]) : toR[p][k] \in ToRMessage
      /\ \A r \in RReq : rreq[r].requests \in Nat /\ rreq[r].peer \in SReq \cup {NULL}
      /\ \A x \in SReq : x # NULL
  BY ReqAssumption DEF TypeOK, RecvRequest, Req
<1>2. \A r \in RReq : \A x \in RReq : rreq[r].peer = s /\ rreq[x].peer = s => x = r
  BY <1>1 DEF HandshakeInv, AnnouncedOnce
<1>3. \A r \in RReq : \A j \in Nat : rreq[r].peer # NULL /\ Handed(sreq[rreq[r].peer], Parts[rreq[r].peer], rreq[r].round, j)
         => Handed(sreq'[rreq[r].peer], Parts[rreq[r].peer], rreq[r].round, j)
  BY <1>1
<1>4. \A r \in RReq : \A j : Slot(recvq', r, j) <=> Slot(recvq, r, j)
  BY DEF Slot
<1>5. SlotsReady'
  <2>1. ASSUME NEW r \in RReq, rreq[r].peer # NULL, NEW j \in 0..(rreq[r].requests - 1)
        PROVE  Slot(recvq', r, j) \/ Handed(sreq'[rreq[r].peer], Parts[rreq[r].peer], rreq[r].round, j)
    BY <1>1, <1>3, <1>4, <2>1 DEF PlacedInv, SlotsReady
  <2> QED
    BY <2>1 DEF SlotsReady
<1>6. SlotsOnce' /\ DataOfOwnRound'
  BY DEF PlacedInv, SlotsOnce, DataOfOwnRound
<1>7. ASSUME NEW p \in Rank, NEW k \in 1..Len(toR[p]), DataAt(p, k)
      PROVE  /\ p = RankOf[toR[p][k].s] /\ HasSlot(toR[p][k], sreq', rreq', recvq') 
             /\ toR[p][k].s = s => /\ toR[p][k].from \in Nat
                                   /\ \A r \in RReq : rreq[r].peer = s =>
                                         Handed(sreq[s], Parts[s], rreq[r].round, toR[p][k].from)
  <2>1. PICK m \in ToRMessage : m = toR[p][k]
    BY <1>1
  <2>2. m.from \in Nat /\ m.s \in SReq
    BY DEF ToRMessage
  <2>3. p = RankOf[m.s] /\ HasSlot(m, sreq, rreq, recvq)
    BY <1>7, <2>1 DEF PlacedInv, DataHasSlot
  <2>4. PICK r \in RReq :
          /\ rreq[r].peer = m.s /\ rreq[r].round = m.round
          /\ m.from < rreq[r].requests /\ Slot(recvq, r, m.from)
          /\ Handed(sreq[m.s], Parts[m.s], m.round, m.from)
    BY <2>3 DEF HasSlot
  <2>5. Handed(sreq'[m.s], Parts[m.s], m.round, m.from)
    BY <1>1, <1>3, <2>2, <2>4
  <2>6. HasSlot(m, sreq', rreq', recvq')
    BY <1>4, <2>4, <2>5 DEF HasSlot
  <2>7. m.s = s => \A x \in RReq : rreq[x].peer = s => Handed(sreq[s], Parts[s], rreq[x].round, m.from)
    BY <1>2, <2>4
  <2> QED
    BY <2>1, <2>2, <2>3, <2>6, <2>7
<1>8. ASSUME NEW i \in I
      PROVE  \E r \in RReq : /\ rreq[r].peer = s /\ rreq[r].round = n /\ i < rreq[r].requests /\ Slot(recvq, r, i)
                             /\ i \in Nat /\ ~Handed(sreq[s], Parts[s], n, i) /\ Handed(c, Parts[s], n, i)
  <2>1. PICK r \in RReq : rreq[r].peer = s /\ rreq[r].round = n /\ i < rreq[r].requests
    OBVIOUS
  <2>2. i \in 0..(rreq[r].requests - 1)
    BY <1>1, <2>1
  <2>3. Slot(recvq, r, i)
    BY <1>1, <2>1, <2>2 DEF PlacedInv, SlotsReady
  <2> QED
    BY <2>1, <2>3
<1>9. ASSUME NEW p \in Rank, NEW k \in (Len(toR[p]) + 1)..Len(toR'[p]), toR'[p][k].type = "DATA"
      PROVE  /\ p = RankOf[s] /\ toR'[p][k].s = s /\ HasSlot(toR'[p][k], sreq', rreq', recvq')
             /\ \A l \in 1..Len(toR[p]) : DataAt(p, l) /\ toR[p][l].s = s => toR[p][l].from # toR'[p][k].from
  <2>1. p = RankOf[s] /\ toR'[p][k].s = s /\ toR'[p][k].round = n /\ toR'[p][k].from \in I
    BY <1>9 DEF NewData
  <2>2. PICK i \in I : i = toR'[p][k].from
    BY <2>1
  <2>3. PICK r \in RReq : /\ rreq[r].peer = s /\ rreq[r].round = n /\ i < rreq[r].requests /\ Slot(recvq, r, i)
                          /\ ~Handed(sreq[s], Parts[s], n, i) /\ Handed(c, Parts[s], n, i)
    BY <1>8
  <2>4. HasSlot(toR'[p][k], sreq', rreq', recvq')
    BY <1>4, <2>1, <2>2, <2>3 DEF HasSlot
  <2>5. \A l \in 1..Len(toR[p]) : DataAt(p, l) /\ toR[p][l].s = s => toR[p][l].from # i
    BY <1>7, <2>3
  <2> QED
    BY <2>1, <2>2, <2>4, <2>5
<1>10. ASSUME NEW p \in Rank, NEW k \in 1..Len(toR'[p]), DataAt(p, k)'
       PROVE  /\ p = RankOf[toR'[p][k].s] /\ HasSlot(toR'[p][k], sreq', rreq', recvq')
              /\ \A l \in 1..Len(toR'[p]) :
                    DataAt(p, l)' /\ toR'[p][l].s = toR'[p][k].s /\ toR'[p][l].from = toR'[p][k].from => l = k
  <2>1. /\ Len(toR[p]) \in Nat /\ Len(toR'[p]) \in Nat /\ Len(toR[p]) <= Len(toR'[p])
        /\ \A l \in 1..Len(toR[p]) : toR'[p][l] = toR[p][l]
    BY DEF NewData
  <2>2. \A l \in 1..Len(toR'[p]) : l \in 1..Len(toR[p]) \/ l \in (Len(toR[p]) + 1)..Len(toR'[p])
    BY <2>1
  <2>3. toR'[p][k].type = "DATA"
    BY <1>10 DEF DataAt
  <2>4. CASE k \in 1..Len(toR[p])
    <3>1. toR'[p][k] = toR[p][k] /\ DataAt(p, k)
      BY <2>1, <2>3, <2>4 DEF DataAt
    <3>2. p = RankOf[toR[p][k].s] /\ HasSlot(toR[p][k], sreq', rreq', recvq')
      BY <1>7, <2>4, <3>1
    <3>3. ASSUME NEW l \in 1..Len(toR'[p]), DataAt(p, l)', toR'[p][l].s = toR[p][k].s,
                 toR'[p][l].from = toR[p][k].from
          PROVE  l = k
      <4>1. CASE l \in 1..Len(toR[p])
        <5>1. toR'[p][l] = toR[p][l] /\ DataAt(p, l)
          BY <2>1, <3>3, <4>1 DEF DataAt
        <5> QED
          BY <2>4, <3>1, <3>3, <4>1, <5>1 DEF PlacedInv, DataHasSlot
      <4>2. CASE l \in (Len(toR[p]) + 1)..Len(toR'[p])
        <5>1. toR'[p][l].type = "DATA"
          BY <3>3 DEF DataAt
        <5> QED
          BY <1>9, <2>4, <3>1, <3>3, <4>2, <5>1
      <4> QED
        BY <2>2, <4>1, <4>2
    <3> QED
      BY <3>1, <3>2, <3>3
  <2>5. CASE k \in (Len(toR[p]) + 1)..Len(toR'[p])
    <3>1. /\ p = RankOf[s] /\ toR'[p][k].s = s /\ HasSlot(toR'[p][k], sreq', rreq', recvq')
          /\ \A l \in 1..Len(toR[p]) : DataAt(p, l) /\ toR[p][l].s = s => toR[p][l].from # toR'[p][k].from
      BY <1>9, <2>3, <2>5
    <3>2. ASSUME NEW l \in 1..Len(toR'[p]), DataAt(p, l)', toR'[p][l].s = s,
                 toR'[p][l].from = toR'[p][k].from
          PROVE  l = k
      <4>1. CASE l \in 1..Len(toR[p])
        <5>1. toR'[p][l] = toR[p][l] /\ DataAt(p, l)
          BY <2>1, <3>2, <4>1 DEF DataAt
        <5> QED
          BY <3>1, <3>2, <4>1, <5>1
      <4>2. CASE l \in (Len(toR[p]) + 1)..Len(toR'[p])
        <5>1. toR'[p][l].type = "DATA"
          BY <3>2 DEF DataAt
        <5> QED
          BY <2>3, <2>5, <3>2, <4>2, <5>1 DEF NewData
      <4> QED
        BY <2>2, <4>1, <4>2
    <3> QED
      BY <3>1, <3>2
  <2> QED
    BY <2>2, <2>4, <2>5
<1>11. DataHasSlot'
  BY <1>10 DEF DataHasSlot
<1> QED
  BY <1>5, <1>6, <1>11 DEF PlacedInv

(* MPID_part_check_data_transmission for a round that has begun: each        *)
(* candidate that is ready meets its sub-receive.                            *)
LEMMA TransmissionPlaced ==
    ASSUME TypeOK, HandshakeInv, PlacedInv, NEW s \in SReq, NEW q \in SendRequest, q.alloc,
           NEW cand \in SUBSET Nat, IsFiniteSet(cand), CheckDataTransmission(s, q, cand),
           UNCHANGED <<rreq, recvq>>,
           \A r \in RReq : \A j \in Nat : rreq[r].peer = s /\ Handed(sreq[s], Parts[s], rreq[r].round, j)
               => Handed(q, Parts[s], rreq[r].round, j),
           q.peer # NULL => /\ rreq[q.peer].peer = s /\ rreq[q.peer].round = q.round
                            /\ \A i \in cand : SubReady(q, Parts[s], i) =>
                                  i < rreq[q.peer].requests /\ ~Handed(sreq[s], Parts[s], q.round, i)
    PROVE  PlacedInv'
<1>1. PICK I \in SUBSET cand :
        /\ IsFiniteSet(I)
        /\ q.peer = NULL => I = {}
        /\ q.peer # NULL => I = {i \in cand : SubReady(q, Parts[s], i)}
        /\ sreq' = [sreq EXCEPT ![s] = IF I = {} THEN q ELSE AfterIssue(q, I)]
        /\ NewData(s, q.round, I)
  BY TransmissionData
<1>2. I \in SUBSET Nat /\ s # NULL /\ (q.peer # NULL => q.peer \in RReq) /\ q.round \in Nat
  BY <1>1, ReqAssumption, BoundAssumption DEF SendRequest, Req
<1>3. PICK c : c = (IF I = {} THEN q ELSE AfterIssue(q, I))
  OBVIOUS
<1>4. sreq'[s] = c /\ \A x \in SReq : x # s => sreq'[x] = sreq[x]
  BY <1>1, <1>3 DEF TypeOK
<1>5. CASE I = {}
  <2>1. c = q
    BY <1>3, <1>5
  <2> QED
    BY <1>1, <1>4, <1>5, <2>1, SenderPlaced
<1>6. CASE I # {}
  <2>1. q.peer # NULL /\ q.peer \in RReq /\ rreq[q.peer].peer = s /\ rreq[q.peer].round = q.round
    BY <1>1, <1>2, <1>6
  <2>2. c.round = q.round /\ c.ppr = q.ppr
    BY <1>1, <1>2, <1>3, <1>6, AfterIssueFacts
  <2>3. \/ ~c.alloc
        \/ c.alloc = q.alloc /\ c.peer = q.peer /\ c.ready = q.ready
    BY <1>1, <1>2, <1>3, <1>6, AfterIssueFacts, AfterIssueReady
  <2>4. \A j \in Nat : Handed(q, Parts[s], q.round, j) => Handed(c, Parts[s], q.round, j)
    <3>1. CASE ~c.alloc
      BY <1>2, <2>2, <3>1 DEF Handed
    <3>2. CASE c.alloc = q.alloc /\ c.peer = q.peer /\ c.ready = q.ready
      <4>1. \A j \in Nat : SubReady(q, Parts[s], j) => SubReady(c, Parts[s], j)
        BY <2>2, <3>2, Zenon DEF SubReady
      <4> QED
        BY <2>2, <3>2, <4>1 DEF Handed
    <3> QED
      BY <2>3, <3>1, <3>2
  <2>5. \A j \in I : Handed(q, Parts[s], q.round, j)
    BY <1>1, <2>1 DEF Handed
  <2>6. \A r \in RReq : rreq[r].peer = s => rreq[r].round = q.round
    BY <1>2, <2>1 DEF HandshakeInv, AnnouncedOnce
  <2>7. \A r \in RReq : \A j \in Nat : rreq[r].peer = s /\ Handed(sreq[s], Parts[s], rreq[r].round, j)
               => Handed(c, Parts[s], rreq[r].round, j)
    BY <2>4, <2>6
  <2>8. \A i \in I : /\ i \in Nat
                     /\ \E r \in RReq : rreq[r].peer = s /\ rreq[r].round = q.round /\ i < rreq[r].requests
                     /\ ~Handed(sreq[s], Parts[s], q.round, i) /\ Handed(c, Parts[s], q.round, i)
    BY <1>1, <1>2, <2>1, <2>4, <2>5
  <2> QED
    <3>1. PICK n : n = q.round
      OBVIOUS
    <3>2. NewData(s, n, I)
      BY <1>1, <3>1
    <3>3. \A i \in I : /\ i \in Nat
                       /\ \E r \in RReq : rreq[r].peer = s /\ rreq[r].round = n /\ i < rreq[r].requests
                       /\ ~Handed(sreq[s], Parts[s], n, i) /\ Handed(c, Parts[s], n, i)
      BY <2>8, <3>1
    <3> QED
      BY <1>4, <2>7, <3>2, <3>3, SenderPlaced
<1> QED
  BY <1>5, <1>6

(* Nothing is sent, or a SEND_INIT. *)
LEMMA NoNewData ==
    ASSUME TypeOK, NEW s, NEW n, toR' = toR
    PROVE  NewData(s, n, {})
  BY DEF TypeOK, NewData

(* A SEND_INIT adds no data. *)
LEMMA InitIsNoData ==
    ASSUME TypeOK, NEW s, NEW n, NEW p0 \in Rank, NEW m \in ToRMessage, m.type = "SEND_INIT",
           toR' = [toR EXCEPT ![p0] = Append(toR[p0], m)]
    PROVE  NewData(s, n, {})
<1>1. toR \in [Rank -> Seq(ToRMessage)] /\ toR[p0] \in Seq(ToRMessage)
  BY DEF TypeOK
<1>2. /\ Len(Append(toR[p0], m)) = Len(toR[p0]) + 1 /\ Len(toR[p0]) \in Nat
      /\ Append(toR[p0], m)[Len(toR[p0]) + 1] = m
      /\ \A l \in 1..Len(toR[p0]) : Append(toR[p0], m)[l] = toR[p0][l]
  BY <1>1, AppendProperties
<1>3. toR'[p0] = Append(toR[p0], m) /\ \A p \in Rank : p # p0 => toR'[p] = toR[p]
  BY <1>1
<1>4. \A p \in Rank : Len(toR[p]) \in Nat
  BY <1>1
<1>5. ASSUME NEW p \in Rank, NEW k \in (Len(toR[p]) + 1)..Len(toR'[p])
      PROVE  toR'[p][k].type # "DATA"
  <2>1. p = p0
    BY <1>3, <1>4, <1>5
  <2>2. k = Len(toR[p0]) + 1
    BY <1>2, <1>3, <2>1
  <2> QED
    BY <1>2, <1>3, <2>1, <2>2
<1>6. \A p \in Rank :
          /\ Len(toR[p]) \in Nat /\ Len(toR'[p]) \in Nat /\ Len(toR[p]) <= Len(toR'[p])
          /\ \A k \in 1..Len(toR[p]) : toR'[p][k] = toR[p][k]
  BY <1>2, <1>3, <1>4
<1> QED
  BY <1>5, <1>6 DEF NewData

(* Partition p is in one of the sub-requests. *)
LEMMA SubRequestExists ==
    ASSUME NEW P \in Nat, NEW d \in Nat \ {0}, NEW n \in Nat, d * n >= P, NEW p \in Nat, p < P
    PROVE  p \div d < n
<1>1. p = d * (p \div d) + (p % d) /\ p % d \in 0..(d - 1) /\ p \div d \in Nat
  OBVIOUS
<1>2. PICK k \in Nat, e \in 0..(d - 1) : k = p \div d /\ p = d * k + e
  BY <1>1
<1>3. SUFFICES ASSUME k >= n PROVE FALSE
  BY <1>2
<1>4. PICK x \in Nat : k = n + x
  <2>1. k - n \in Nat /\ k = n + (k - n)
    BY <1>3
  <2> QED
    BY <2>1
<1>5. d * k = d * n + d * x /\ d * x \in Nat /\ d * n \in Nat
  BY <1>4
<1> QED
  BY <1>2, <1>5

(* What a sender issues finds a posted sub-request of its own round. *)
LEMMA SendStepPlaced ==
    ASSUME TypeOK, HandshakeInv, SizesAgree, PlacedInv, NEW s \in SReq, SendStep(s)
    PROVE  PlacedInv'
<1>0. /\ sreq[s] \in SendRequest /\ RoundOK(sreq[s]) /\ s # NULL
      /\ sreq[s].round \in Nat /\ sreq[s].requests \in Nat /\ sreq[s].ppr \in Nat \ {0} /\ Parts[s] \in Nat
  <2>1. sreq[s] \in SendRequest /\ RoundOK(sreq[s]) /\ s # NULL /\ Parts[s] \in Nat
    BY ArgAssumption, ReqAssumption DEF TypeOK, HandshakeInv, SendRoundInv, Req
  <2> QED
    BY <2>1, BoundAssumption DEF SendRequest
<1>1. UNCHANGED <<rreq, recvq>>
  BY DEF SendStep, Psend_init, PsendStart, WaitSend, FreeSend, Pready, SendSubDone
<1>2. sreq[s].peer # NULL =>
        /\ sreq[s].peer \in RReq /\ rreq[sreq[s].peer].peer = s /\ rreq[sreq[s].peer].round = Issued(s) + 1
        /\ rreq[sreq[s].peer].requests = sreq[s].requests
  BY <1>0 DEF HandshakeInv, OneClearToSend, SizesAgree, SendRequest
<1>3. ASSUME NEW c, sreq' = [sreq EXCEPT ![s] = c], c.round = sreq[s].round, c.alloc = sreq[s].alloc,
             c.peer = sreq[s].peer, c.ppr = sreq[s].ppr, c.ready = sreq[s].ready, toR' = toR
      PROVE  PlacedInv'
  <2>1. sreq'[s] = c /\ \A x \in SReq : x # s => sreq'[x] = sreq[x]
    BY <1>3 DEF TypeOK
  <2>2. \A n : \A j \in Nat : Handed(sreq[s], Parts[s], n, j) => Handed(c, Parts[s], n, j)
    <3>1. \A j \in Nat : SubReady(sreq[s], Parts[s], j) => SubReady(c, Parts[s], j)
      BY <1>3, Zenon DEF SubReady
    <3> QED
      BY <1>3, <3>1 DEF Handed
  <2>3. NewData(s, 0, {})
    BY <1>3, NoNewData
  <2> QED
    BY <1>1, <2>1, <2>2, <2>3, SenderPlaced
<1>4. CASE Psend_init(s)
  <2>1. sreq' = [sreq EXCEPT ![s] = InitSend(s)] /\ sreq[s].st = "none"
    BY <1>4 DEF Psend_init
  <2>2. PICK m \in ToRMessage :
          /\ m.type = "SEND_INIT"
          /\ toR' = [toR EXCEPT ![RankOf[s]] = Append(toR[RankOf[s]], m)]
    <3>1. PICK m : m = [type |-> "SEND_INIT", s |-> s, round |-> 0, from |-> 0]
      OBVIOUS
    <3>2. m \in ToRMessage /\ m.type = "SEND_INIT"
      BY <3>1 DEF ToRMessage
    <3> QED
      BY <1>4, <3>1, <3>2 DEF Psend_init
  <2>3. NewData(s, 0, {})
    BY <2>2, InitIsNoData, ArgAssumption DEF Req
  <2>4. \A r \in RReq : rreq[r].peer # s
    BY <1>0, <2>1 DEF HandshakeInv, AnnouncedOnce
  <2>5. PICK c : c = InitSend(s)
    OBVIOUS
  <2>6. sreq'[s] = c /\ \A x \in SReq : x # s => sreq'[x] = sreq[x]
    BY <2>1, <2>5 DEF TypeOK
  <2> QED
    BY <1>1, <2>3, <2>4, <2>6, SenderPlaced
<1>5. CASE PsendStart(s)
  <2> DEFINE q == [sreq[s] EXCEPT !.st = "active", !.round = @ + 1, !.alloc = TRUE,
                                  !.ready = {}, !.ctr = 0, !.cc = sreq[s].requests]
  <2>1. q \in SendRequest
    BY <1>0, <1>5, StartedSend DEF PsendStart
  <2>2. /\ q.requests = sreq[s].requests /\ q.peer = sreq[s].peer /\ q.ppr = sreq[s].ppr
        /\ q.alloc /\ q.round = sreq[s].round + 1
    BY <1>0 DEF SendRequest
  <2>3. CheckDataTransmission(s, q, AllSubs(q)) /\ sreq[s].st = "inactive"
    BY <1>5 DEF PsendStart
  <2> HIDE DEF q
  <2>4. ~sreq[s].alloc
    BY <1>0, <2>3 DEF RoundOK
  <2>5. \A n : \A j \in Nat : Handed(sreq[s], Parts[s], n, j) => Handed(q, Parts[s], n, j)
    BY <1>0, <2>2, <2>4 DEF Handed
  <2>6. Issued(s) + 1 = q.round
    BY <1>0, <2>2, <2>4 DEF Issued
  <2>7. q.peer # NULL => rreq[q.peer].peer = s /\ rreq[q.peer].round = q.round
    BY <1>2, <2>2, <2>6
  <2>8. \A i \in AllSubs(q) : /\ q.peer # NULL => i < rreq[q.peer].requests
                              /\ ~Handed(sreq[s], Parts[s], q.round, i)
    <3>1. \A i \in AllSubs(q) : ~Handed(sreq[s], Parts[s], q.round, i)
      BY <1>0, <2>2, <2>4 DEF Handed
    <3>2. \A i \in AllSubs(q) : q.peer # NULL => i < rreq[q.peer].requests
      BY <1>0, <1>2, <2>2 DEF AllSubs
    <3> QED
      BY <3>1, <3>2
  <2>9. AllSubs(q) \in SUBSET Nat /\ IsFiniteSet(AllSubs(q))
    BY <2>1, CandidateSets
  <2> QED
    BY <1>1, <2>1, <2>2, <2>3, <2>5, <2>7, <2>8, <2>9, TransmissionPlaced
<1>6. ASSUME NEW p \in 0..(Parts[s] - 1), Pready(s, p) PROVE PlacedInv'
  <2> DEFINE q == [sreq[s] EXCEPT !.ready = @ \cup {p}]
  <2>1. p \in Nat /\ p < Parts[s] /\ p \notin sreq[s].ready /\ sreq[s].alloc
    BY <1>0, <1>6 DEF Pready
  <2>2. q \in SendRequest
    <3>1. sreq[s].ready \cup {p} \in SUBSET Nat
      BY <1>0, <2>1 DEF SendRequest
    <3> QED
      BY <1>0, <3>1 DEF SendRequest
  <2>3. /\ q.requests = sreq[s].requests /\ q.peer = sreq[s].peer /\ q.ppr = sreq[s].ppr
        /\ q.alloc = sreq[s].alloc /\ q.round = sreq[s].round /\ q.ready = sreq[s].ready \cup {p}
    BY <1>0 DEF SendRequest
  <2>4. CheckDataTransmission(s, q, {p \div q.ppr})
    BY <1>6 DEF Pready
  <2> HIDE DEF q
  <2>5. \A n : \A j \in Nat : Handed(sreq[s], Parts[s], n, j) => Handed(q, Parts[s], n, j)
    <3>1. \A j \in Nat : SubReady(sreq[s], Parts[s], j) => SubReady(q, Parts[s], j)
      BY <2>3, Zenon DEF SubReady
    <3> QED
      BY <2>3, <3>1 DEF Handed
  <2>6. Issued(s) + 1 = q.round
    BY <1>0, <2>1, <2>3 DEF Issued
  <2>7. q.peer # NULL => rreq[q.peer].peer = s /\ rreq[q.peer].round = q.round
    BY <1>2, <2>3, <2>6
  <2>8. PICK i \in Nat : i = p \div q.ppr
    BY <1>0, <2>1, <2>3
  <2>9. q.peer # NULL => i < rreq[q.peer].requests
    <3>1. p \div sreq[s].ppr < sreq[s].requests
      BY <1>0, <2>1, SubRequestExists DEF SizesAgree
    <3> QED
      BY <1>2, <2>3, <2>8, <3>1
  <2>10. ~Handed(sreq[s], Parts[s], q.round, i)
    <3>1. p \in (i * sreq[s].ppr)..((i + 1) * sreq[s].ppr - 1)
      BY <1>0, <2>1, <2>3, <2>8, OwnSubRequest
    <3>2. ~SubReady(sreq[s], Parts[s], i)
      BY <2>1, <3>1, Zenon DEF SubReady
    <3> QED
      BY <1>0, <2>1, <2>3, <3>2 DEF Handed
  <2>11. {p \div q.ppr} = {i} /\ {i} \in SUBSET Nat /\ IsFiniteSet({i})
    BY <2>8, FS_Singleton
  <2>12. CheckDataTransmission(s, q, {i})
    BY <2>4, <2>11
  <2> QED
    <3>1. PICK cand \in SUBSET Nat : cand = {i}
      BY <2>11
    <3>2. IsFiniteSet(cand) /\ CheckDataTransmission(s, q, cand)
      BY <2>11, <2>12, <3>1
    <3>3. q.peer # NULL => \A x \in cand : x < rreq[q.peer].requests /\ ~Handed(sreq[s], Parts[s], q.round, x)
      BY <2>9, <2>10, <3>1
    <3>4. q.alloc
      BY <2>1, <2>3
    <3> QED
      BY <1>1, <2>2, <2>5, <2>7, <3>2, <3>3, <3>4, TransmissionPlaced
<1>7. ASSUME NEW i \in sreq[s].out, SendSubDone(s, i) PROVE PlacedInv'
  <2> DEFINE c == [sreq[s] EXCEPT !.out = sreq[s].out \ {i}, !.cc = sreq[s].cc - 1]
  <2>1. sreq' = [sreq EXCEPT ![s] = c] /\ toR' = toR
    BY <1>7 DEF SendSubDone, TypeOK
  <2>2. /\ c.round = sreq[s].round /\ c.alloc = sreq[s].alloc /\ c.peer = sreq[s].peer
        /\ c.ppr = sreq[s].ppr /\ c.ready = sreq[s].ready
    BY <1>0 DEF SendRequest
  <2> HIDE DEF c
  <2> QED
    BY <1>3, <2>1, <2>2
<1>8. CASE WaitSend(s) \/ FreeSend(s)
  <2>1. PICK st \in States : sreq' = [sreq EXCEPT ![s].st = st] /\ toR' = toR
    BY <1>8 DEF WaitSend, FreeSend, States
  <2> DEFINE c == [sreq[s] EXCEPT !.st = st]
  <2>2. sreq' = [sreq EXCEPT ![s] = c]
    BY <2>1
  <2>3. /\ c.round = sreq[s].round /\ c.alloc = sreq[s].alloc /\ c.peer = sreq[s].peer
        /\ c.ppr = sreq[s].ppr /\ c.ready = sreq[s].ready
    BY <1>0 DEF SendRequest
  <2> HIDE DEF c
  <2> QED
    BY <1>3, <2>1, <2>2, <2>3
<1> QED
  BY <1>4, <1>5, <1>6, <1>7, <1>8 DEF SendStep

(* The CTS callback sends what is ready; nothing of this round was handed    *)
(* over before.                                                              *)
LEMMA RecvCtsPlaced ==
    ASSUME TypeOK, HandshakeInv, SizesAgree, PlacedInv, NEW p \in Rank, RecvCts(p)
    PROVE  PlacedInv'
<1> DEFINE m == Head(toS[p])
           s == m.s
           q00 == [sreq[s] EXCEPT !.peer = m.r]
           q0 == CheckNumRequests(q00, Parts[s], m.requests)
           q == [q0 EXCEPT !.cc = q0.requests]
<1>1. toS[p] # <<>> /\ m = toS[p][1] /\ 1 \in 1..Len(toS[p]) /\ m \in CtsMessage
  BY HeadTailProperties DEF RecvCts, TypeOK
<1>2. s \in SReq /\ m.r \in RReq /\ m.requests \in Nat \ {0} /\ Parts[s] \in Nat \ {0}
  BY <1>1, ArgAssumption DEF CtsMessage, Req
<1>3. /\ rreq[m.r].peer = s /\ m.requests = rreq[m.r].requests /\ s # NULL /\ sreq[s].peer = NULL
      /\ rreq[m.r].round = Issued(s) + 1
  BY <1>1, <1>2, ReqAssumption DEF HandshakeInv, OneClearToSend, SizesAgree, Req
<1>4. sreq[s] \in SendRequest /\ RoundOK(sreq[s]) /\ sreq[s].round \in Nat
  <2>1. sreq[s] \in SendRequest /\ RoundOK(sreq[s])
    BY <1>2 DEF TypeOK, HandshakeInv, SendRoundInv
  <2> QED
    BY <2>1, BoundAssumption DEF SendRequest
<1>5. /\ q00 \in SendRequest /\ q00.peer = m.r /\ q00.requests = sreq[s].requests
      /\ q00.round = sreq[s].round /\ q00.alloc = sreq[s].alloc
  BY <1>2, <1>4 DEF SendRequest
<1>6. UNCHANGED <<rreq, recvq>>
  BY DEF RecvCts
<1>7. \/ sreq[s].st # "active" /\ sreq' = [sreq EXCEPT ![s] = q0] /\ toR' = toR
      \/ sreq[s].alloc /\ CheckDataTransmission(s, q, AllSubs(q))
      \/ sreq[s].st = "active" /\ ~sreq[s].alloc /\ sreq' = [sreq EXCEPT ![s] = q]
  BY Zenon DEF RecvCts
<1> HIDE DEF m, s, q00
<1>8. q0 \in SendRequest /\ q0.peer = m.r /\ q0.round = sreq[s].round /\ q0.alloc = sreq[s].alloc
  BY <1>2, <1>5, CheckNumSend
<1>9. q0.requests = IF q00.requests < m.requests THEN q00.requests ELSE m.requests
  BY <1>2, <1>5, CheckNumSizes
<1> HIDE DEF q0
<1>10. m.requests <= sreq[s].requests /\ sreq[s].requests \in Nat
  <2>1. m.requests <= sreq[s].requests
    BY <1>2, <1>3 DEF SizesAgree
  <2> QED
    BY <1>4, <2>1 DEF SendRequest
<1>11. q0.requests = m.requests
  BY <1>2, <1>5, <1>9, <1>10
<1>12. /\ q \in SendRequest /\ q.peer = m.r /\ q.round = sreq[s].round /\ q.alloc = sreq[s].alloc
       /\ q.requests = m.requests
  BY <1>8, <1>11 DEF SendRequest
<1> HIDE DEF q
<1>13. ASSUME NEW c, c.round = sreq[s].round, c.alloc = sreq[s].alloc
       PROVE  \A n : \A j \in Nat : Handed(sreq[s], Parts[s], n, j) => Handed(c, Parts[s], n, j)
  BY <1>3, <1>13 DEF Handed
<1>14. CASE sreq[s].st # "active" /\ sreq' = [sreq EXCEPT ![s] = q0] /\ toR' = toR
  <2>1. sreq'[s] = q0 /\ \A x \in SReq : x # s => sreq'[x] = sreq[x]
    BY <1>2, <1>14 DEF TypeOK
  <2>2. NewData(s, 0, {})
    BY <1>14, NoNewData
  <2>3. \A n : \A j \in Nat : Handed(sreq[s], Parts[s], n, j) => Handed(q0, Parts[s], n, j)
    BY <1>8, <1>13
  <2> QED
    BY <1>2, <1>6, <2>1, <2>2, <2>3, SenderPlaced
<1>15. CASE sreq[s].alloc /\ CheckDataTransmission(s, q, AllSubs(q))
  <2>1. \A n : \A j \in Nat : Handed(sreq[s], Parts[s], n, j) => Handed(q, Parts[s], n, j)
    BY <1>12, <1>13
  <2>2. rreq[q.peer].peer = s /\ rreq[q.peer].round = q.round /\ q.alloc
    BY <1>3, <1>4, <1>12, <1>15 DEF Issued
  <2>3. \A i \in AllSubs(q) : ~Handed(sreq[s], Parts[s], q.round, i)
    BY <1>3, <1>4, <1>12, <1>15 DEF Handed
  <2>4. \A i \in AllSubs(q) : i < rreq[q.peer].requests
    BY <1>2, <1>3, <1>12 DEF AllSubs
  <2>5. AllSubs(q) \in SUBSET Nat /\ IsFiniteSet(AllSubs(q))
    BY <1>12, CandidateSets
  <2> QED
    BY <1>2, <1>6, <1>12, <1>15, <2>1, <2>2, <2>3, <2>4, <2>5, TransmissionPlaced
<1>16. ~(sreq[s].st = "active" /\ ~sreq[s].alloc)
  <2>1. rreq[m.r].round <= Completed(s) + 1
    BY <1>2, <1>3 DEF HandshakeInv, OneClearToSend
  <2> QED
    BY <1>3, <1>4, <2>1 DEF Issued, Completed
<1> QED
  BY <1>7, <1>14, <1>15, <1>16

(* Messages are taken from the connections: a data message that stays was    *)
(* there before, at its own connection, and is still the only one of its     *)
(* sub-request.                                                              *)
LEMMA StaysUnique ==
    ASSUME TypeOK, ToRShrinks, DataHasSlot,
           NEW p \in Rank, NEW k \in 1..Len(toR'[p]), toR'[p][k].type = "DATA"
    PROVE  /\ p = RankOf[toR'[p][k].s]
           /\ HasSlot(toR'[p][k], sreq, rreq, recvq)
           /\ \A l \in 1..Len(toR'[p]) :
                 toR'[p][l].type = "DATA" /\ toR'[p][l].s = toR'[p][k].s
                 /\ toR'[p][l].from = toR'[p][k].from => l = k
           /\ \E d \in {0, 1} : /\ Len(toR'[p]) = Len(toR[p]) - d
                                /\ k + d \in 1..Len(toR[p]) /\ toR'[p][k] = toR[p][k + d]
<1>1. PICK d \in {0, 1} : /\ Len(toR'[p]) = Len(toR[p]) - d
                          /\ \A l \in 1..Len(toR'[p]) : toR'[p][l] = toR[p][l + d]
  BY DEF ToRShrinks
<1>2. Len(toR[p]) \in Nat /\ d \in Int
  BY DEF TypeOK
<1>3. \A l \in 1..Len(toR'[p]) : l + d \in 1..Len(toR[p]) /\ l \in Int
  BY <1>1, <1>2
<1>4. DataAt(p, k + d) /\ toR'[p][k] = toR[p][k + d]
  BY <1>1 DEF DataAt
<1>5. /\ p = RankOf[toR[p][k + d].s] /\ HasSlot(toR[p][k + d], sreq, rreq, recvq)
      /\ \A l \in 1..Len(toR[p]) :
            DataAt(p, l) /\ toR[p][l].s = toR[p][k + d].s /\ toR[p][l].from = toR[p][k + d].from => l = k + d
  BY <1>3, <1>4 DEF DataHasSlot
<1>6. ASSUME NEW l \in 1..Len(toR'[p]), toR'[p][l].type = "DATA", toR'[p][l].s = toR'[p][k].s,
             toR'[p][l].from = toR'[p][k].from
      PROVE  l = k
  <2>1. DataAt(p, l + d) /\ toR'[p][l] = toR[p][l + d]
    BY <1>1, <1>6 DEF DataAt
  <2>2. l + d = k + d
    BY <1>3, <1>4, <1>5, <1>6, <2>1
  <2> QED
    BY <1>2, <1>3, <2>2
<1> QED
  BY <1>1, <1>3, <1>4, <1>5, <1>6

(* The first n sub-receives of r are posted. *)
Posts(r, n) ==
    /\ Len(recvq) \in Nat /\ Len(recvq') = Len(recvq) + n
    /\ \A i \in 1..Len(recvq) : recvq'[i] = recvq[i]
    /\ \A i \in 1..n : recvq'[Len(recvq) + i].r = r /\ recvq'[Len(recvq) + i].into = i - 1

(* A receiver that sends CTS has posted its sub-requests. *)
LEMMA ClearToSendPosts ==
    ASSUME TypeOK, NEW r \in RReq, NEW c \in RecvRequest, ClearToSend(r, c)
    PROVE  Posts(r, c.requests)
<1>1. PICK n \in Nat : n = c.requests
  BY DEF RecvRequest
<1> DEFINE d == [i \in 1..n |-> [r |-> r, into |-> i - 1]]
<1>2. recvq' = recvq \o d /\ recvq \in Seq(SubRecv)
  BY <1>1 DEF ClearToSend, TypeOK
<1>3. \A i \in 1..n : [r |-> r, into |-> i - 1] \in SubRecv
  BY DEF SubRecv
<1>4. d \in Seq(SubRecv) /\ Len(d) = n /\ \A i \in 1..n : d[i].r = r /\ d[i].into = i - 1
  BY <1>3
<1> HIDE DEF d
<1>5. Len(recvq \o d) = Len(recvq) + Len(d) /\ Len(recvq) \in Nat
  <2>1. recvq \in Seq(SubRecv) /\ d \in Seq(SubRecv)
    BY <1>2, <1>4
  <2>2. Len(recvq) \in Nat
    BY <2>1
  <2>3. Len(recvq \o d) = Len(recvq) + Len(d)
    BY <2>1, ConcatProperties
  <2> QED
    BY <2>2, <2>3
<1>6. \A i \in 1..Len(recvq) : (recvq \o d)[i] = recvq[i]
  BY <1>2, <1>4
<1>7. \A i \in (Len(recvq) + 1)..(Len(recvq) + Len(d)) : (recvq \o d)[i] = d[i - Len(recvq)]
  BY <1>2, <1>4
<1>8. ASSUME NEW i \in 1..n
      PROVE  (recvq \o d)[Len(recvq) + i] = d[i]
  <2>1. Len(recvq) + i \in (Len(recvq) + 1)..(Len(recvq) + Len(d)) /\ (Len(recvq) + i) - Len(recvq) = i
    BY <1>4, <1>5
  <2> QED
    BY <1>7, <2>1
<1> QED
  BY <1>1, <1>2, <1>4, <1>5, <1>6, <1>8 DEF Posts

(* Receive request r, for which pscom has no sub-receive, becomes c: it      *)
(* posts all its sub-receives, or what it waits for has been handed over.    *)
LEMMA ReceiverPlaced ==
    ASSUME TypeOK, TypeOK', HandshakeInv, PlacedInv, ToRShrinks,
           NEW r \in RReq, NEW c \in RecvRequest, Becomes(r, c),
           \A i \in 1..Len(recvq) : recvq[i].r # r, c.got = {},
           NEW n \in {0, c.requests}, Posts(r, n),
           c.peer # NULL /\ n = 0 =>
               \A j \in 0..(c.requests - 1) : Handed(sreq[c.peer], Parts[c.peer], c.round, j)
    PROVE  PlacedInv'
<1>1. /\ sreq' = sreq /\ rreq'[r] = c /\ \A x \in RReq : x # r => rreq'[x] = rreq[x]
      /\ c.requests \in Nat /\ n \in Nat
  BY DEF Becomes, RecvRequest
<1>2. /\ Len(recvq) \in Nat /\ Len(recvq') = Len(recvq) + n
      /\ \A i \in 1..Len(recvq) : recvq'[i] = recvq[i]
      /\ \A i \in 1..n : recvq'[Len(recvq) + i].r = r /\ recvq'[Len(recvq) + i].into = i - 1
  BY DEF Posts
<1>3. \A x \in RReq : \A j : Slot(recvq, x, j) => Slot(recvq', x, j) /\ x # r
  BY <1>1, <1>2 DEF Slot
<1>4. \A j \in 0..(n - 1) : Slot(recvq', r, j)
  <2>1. ASSUME NEW j \in 0..(n - 1) PROVE Slot(recvq', r, j)
    <3>1. j + 1 \in 1..n /\ (j + 1) - 1 = j
      BY <1>1
    <3>2. recvq'[Len(recvq) + (j + 1)].r = r /\ recvq'[Len(recvq) + (j + 1)].into = j
      BY <1>2, <3>1
    <3>3. Len(recvq) + (j + 1) \in 1..Len(recvq')
      BY <1>1, <1>2, <3>1
    <3> QED
      BY <3>2, <3>3 DEF Slot
  <2> QED
    BY <2>1
<1>5. SlotsReady'
  <2>1. ASSUME NEW x \in RReq, rreq'[x].peer # NULL, NEW j \in 0..(rreq'[x].requests - 1)
        PROVE  Slot(recvq', x, j) \/ Handed(sreq'[rreq'[x].peer], Parts[rreq'[x].peer], rreq'[x].round, j)
    <3>1. CASE x = r
      BY <1>1, <1>4, <2>1, <3>1
    <3>2. CASE x # r
      <4>1. Slot(recvq, x, j) \/ Handed(sreq[rreq[x].peer], Parts[rreq[x].peer], rreq[x].round, j)
        BY <1>1, <2>1, <3>2 DEF PlacedInv, SlotsReady
      <4> QED
        BY <1>1, <1>3, <3>2, <4>1
    <3> QED
      BY <3>1, <3>2
  <2> QED
    BY <2>1 DEF SlotsReady
<1>6. SlotsOnce'
  <2>1. ASSUME NEW i \in 1..Len(recvq')
        PROVE  \/ i \in 1..Len(recvq) /\ recvq'[i] = recvq[i] /\ recvq[i].r # r
               \/ /\ i - Len(recvq) \in 1..n /\ recvq'[i].r = r
                  /\ recvq'[i].into = (i - Len(recvq)) - 1 /\ i \in Int
    <3>1. CASE i \in 1..Len(recvq)
      BY <1>2, <3>1
    <3>2. CASE i \notin 1..Len(recvq)
      <4>1. i - Len(recvq) \in 1..n /\ Len(recvq) + (i - Len(recvq)) = i /\ i \in Int
        BY <1>1, <1>2, <3>2
      <4>2. /\ recvq'[Len(recvq) + (i - Len(recvq))].r = r
            /\ recvq'[Len(recvq) + (i - Len(recvq))].into = (i - Len(recvq)) - 1
        BY <1>2, <4>1
      <4> QED
        BY <4>1, <4>2
    <3> QED
      BY <3>1, <3>2
  <2>2. ASSUME NEW i \in 1..Len(recvq')
        PROVE  recvq'[i].into < rreq'[recvq'[i].r].requests
    <3>1. CASE i \in 1..Len(recvq) /\ recvq'[i] = recvq[i] /\ recvq[i].r # r
      <4>1. recvq[i].into < rreq[recvq[i].r].requests
        BY <3>1 DEF PlacedInv, SlotsOnce
      <4>a. recvq[i] \in SubRecv
        BY <3>1 DEF TypeOK
      <4>2. recvq[i].r \in RReq
        BY <4>a DEF SubRecv
      <4> QED
        BY <1>1, <3>1, <4>1, <4>2
    <3>2. CASE i - Len(recvq) \in 1..n /\ recvq'[i].r = r /\ recvq'[i].into = (i - Len(recvq)) - 1
      BY <1>1, <3>2
    <3> QED
      BY <2>1, <3>1, <3>2
  <2>3. ASSUME NEW i \in 1..Len(recvq'), NEW l \in 1..Len(recvq'),
               recvq'[l].r = recvq'[i].r, recvq'[l].into = recvq'[i].into
        PROVE  l = i
    <3>1. CASE i \in 1..Len(recvq) /\ recvq'[i] = recvq[i] /\ recvq[i].r # r
      <4>1. l \in 1..Len(recvq) /\ recvq'[l] = recvq[l]
        BY <2>1, <2>3, <3>1
      <4> QED
        BY <2>3, <3>1, <4>1 DEF PlacedInv, SlotsOnce
    <3>2. CASE /\ i - Len(recvq) \in 1..n /\ recvq'[i].r = r
               /\ recvq'[i].into = (i - Len(recvq)) - 1 /\ i \in Int
      <4>1. recvq'[l].into = (l - Len(recvq)) - 1 /\ l \in Int
        BY <2>1, <2>3, <3>2
      <4> QED
        BY <1>2, <2>3, <3>2, <4>1
    <3> QED
      BY <2>1, <3>1, <3>2
  <2> QED
    BY <2>2, <2>3 DEF SlotsOnce
<1>7. DataOfOwnRound'
  BY <1>1 DEF PlacedInv, DataOfOwnRound
<1>8. DataHasSlot'
  <2>1. ASSUME NEW p \in Rank, NEW k \in 1..Len(toR'[p]), toR'[p][k].type = "DATA"
        PROVE  HasSlot(toR'[p][k], sreq', rreq', recvq')
    <3>1. PICK m : m = toR'[p][k]
      OBVIOUS
    <3>2. HasSlot(m, sreq, rreq, recvq)
      BY <2>1, <3>1, StaysUnique DEF PlacedInv
    <3>3. PICK x \in RReq :
            /\ rreq[x].peer = m.s /\ rreq[x].round = m.round
            /\ m.from < rreq[x].requests /\ Slot(recvq, x, m.from)
            /\ Handed(sreq[m.s], Parts[m.s], m.round, m.from)
      BY <3>2 DEF HasSlot
    <3>4. x # r /\ Slot(recvq', x, m.from) /\ rreq'[x] = rreq[x]
      BY <1>1, <1>3, <3>3
    <3>5. HasSlot(m, sreq', rreq', recvq')
      BY <1>1, <3>3, <3>4 DEF HasSlot
    <3> QED
      BY <3>1, <3>5
  <2>2. ASSUME NEW p \in Rank, NEW k \in 1..Len(toR'[p]), DataAt(p, k)'
        PROVE  /\ p = RankOf[toR'[p][k].s] /\ HasSlot(toR'[p][k], sreq', rreq', recvq')
               /\ \A l \in 1..Len(toR'[p]) :
                    DataAt(p, l)' /\ toR'[p][l].s = toR'[p][k].s /\ toR'[p][l].from = toR'[p][k].from => l = k
    <3>1. toR'[p][k].type = "DATA"
      BY <2>2 DEF DataAt
    <3>2. /\ p = RankOf[toR'[p][k].s]
          /\ \A l \in 1..Len(toR'[p]) :
                 toR'[p][l].type = "DATA" /\ toR'[p][l].s = toR'[p][k].s
                 /\ toR'[p][l].from = toR'[p][k].from => l = k
      BY <3>1, StaysUnique DEF PlacedInv
    <3>3. HasSlot(toR'[p][k], sreq', rreq', recvq')
      BY <2>1, <3>1
    <3> QED
      BY <3>2, <3>3 DEF DataAt
  <2> QED
    BY <2>2 DEF DataHasSlot
<1> QED
  BY <1>5, <1>6, <1>7, <1>8 DEF PlacedInv

(* Where the elements of a list come from after its i-th is removed. *)
LEMMA RemovePlaces ==
    ASSUME NEW S, NEW q \in Seq(S), NEW i \in 1..Len(q)
    PROVE  /\ \A k, l \in 1..Len(RemoveAt(q, i)) :
                 \E x \in 1..Len(q) : \E y \in 1..Len(q) : /\ x # i /\ y # i /\ (x = y => k = l)
                                         /\ RemoveAt(q, i)[k] = q[x] /\ RemoveAt(q, i)[l] = q[y]
           /\ \A x \in 1..Len(q) : x # i => \E k \in 1..Len(RemoveAt(q, i)) : RemoveAt(q, i)[k] = q[x]
<1>1. /\ Len(RemoveAt(q, i)) = Len(q) - 1 /\ Len(q) \in Nat
      /\ \A k \in 1..(Len(q) - 1) : RemoveAt(q, i)[k] = IF k < i THEN q[k] ELSE q[k + 1]
  BY RemoveAtFacts
<1>2. ASSUME NEW k \in 1..(Len(q) - 1)
      PROVE  \E x \in 1..Len(q) : /\ x = (IF k < i THEN k ELSE k + 1) /\ x # i
                                  /\ RemoveAt(q, i)[k] = q[x]
  BY <1>1
<1>3. ASSUME NEW k \in 1..(Len(q) - 1), NEW l \in 1..(Len(q) - 1)
      PROVE  \E x \in 1..Len(q) : \E y \in 1..Len(q) : /\ x # i /\ y # i /\ (x = y => k = l)
                                     /\ RemoveAt(q, i)[k] = q[x] /\ RemoveAt(q, i)[l] = q[y]
  <2>1. PICK x \in 1..Len(q) : x = (IF k < i THEN k ELSE k + 1) /\ x # i /\ RemoveAt(q, i)[k] = q[x]
    BY <1>2
  <2>2. PICK y \in 1..Len(q) : y = (IF l < i THEN l ELSE l + 1) /\ y # i /\ RemoveAt(q, i)[l] = q[y]
    BY <1>2
  <2>3. x = y => k = l
    BY <1>1, <2>1, <2>2
  <2> QED
    BY <2>1, <2>2, <2>3
<1>4. ASSUME NEW x \in 1..Len(q), x # i
      PROVE  \E k \in 1..(Len(q) - 1) : RemoveAt(q, i)[k] = q[x]
  <2>1. CASE x < i
    <3>1. x \in 1..(Len(q) - 1)
      BY <1>1, <2>1
    <3> QED
      BY <1>1, <2>1, <3>1
  <2>2. CASE x > i
    <3>1. x - 1 \in 1..(Len(q) - 1) /\ ~(x - 1 < i) /\ (x - 1) + 1 = x
      BY <1>1, <2>2
    <3>2. RemoveAt(q, i)[x - 1] = q[(x - 1) + 1]
      BY <1>1, <3>1
    <3> QED
      BY <3>1, <3>2
  <2>3. x < i \/ x > i
    BY <1>1, <1>4
  <2> QED
    BY <2>1, <2>2, <2>3
<1> QED
  BY <1>1, <1>3, <1>4

(* A data message finds the sub-receive of its own request and index: other  *)
(* requests keep their tags apart.                                           *)
LEMMA OwnSlot ==
    ASSUME TagsApart, TypeOK, SizesAgree, ProgramOrderInv, SlotsOnce, NEW m \in ToRMessage, NEW r \in RReq,
           rreq[r].peer = m.s, m.from < rreq[r].requests,
           NEW i \in 1..Len(recvq), DataMatch(m, recvq[i])
    PROVE  recvq[i].r = r /\ recvq[i].into = m.from
<1>1. PICK e \in SubRecv : e = recvq[i]
  BY DEF TypeOK
<1>2. e.r \in RReq /\ e.into \in Nat /\ m.s \in SReq /\ m.from \in Nat
  BY DEF SubRecv, ToRMessage
<1>3. PICK s \in SReq, x \in RReq, j \in Nat, f \in Nat : s = m.s /\ x = e.r /\ j = e.into /\ f = m.from
  BY <1>2
<1>4. s # NULL /\ Parts[s] \in Nat /\ Parts[x] \in Nat /\ TagOf[s] \in Nat /\ TagOf[x] \in Nat
  BY ArgAssumption, ReqAssumption DEF Req
<1>5. f < Parts[s]
  <2>1. rreq[r].requests \in Nat /\ sreq[s].requests \in Nat
    BY DEF TypeOK, RecvRequest, SendRequest
  <2>2. rreq[r].requests <= sreq[s].requests /\ sreq[s].requests <= Parts[s]
    BY <1>3, <1>4 DEF SizesAgree
  <2> QED
    BY <1>3, <1>4, <2>1, <2>2
<1>6. j < Parts[x]
  <2>1. rreq[x].requests \in Nat
    BY DEF TypeOK, RecvRequest
  <2>2. j < rreq[x].requests /\ rreq[x].requests <= Parts[x]
    BY <1>1, <1>3 DEF SlotsOnce, SizesAgree
  <2> QED
    BY <1>4, <2>1, <2>2
<1>7. RankOf[s] = RankOf[x] /\ CtxOf[s] = CtxOf[x] /\ TagOf[s] + f = TagOf[x] + j
  <2>1. RankOf[s] = RankOf[x] /\ CtxOf[s] = CtxOf[x] /\ TagOf[s] + f + 1 = TagOf[x] + j + 1
    BY <1>1, <1>3 DEF DataMatch
  <2>2. \A a, b, g, h \in Nat : a + b + 1 = g + h + 1 => a + b = g + h
    OBVIOUS
  <2>3. TagOf[s] + f = TagOf[x] + j
    <3>1. PICK a \in Nat, b \in Nat : a = TagOf[s] /\ b = TagOf[x]
      BY <1>4
    <3>2. a + f + 1 = b + j + 1
      BY <2>1, <3>1
    <3>3. a + f = b + j
      BY <2>2, <3>2
    <3> QED
      BY <3>1, <3>3
  <2> QED
    BY <2>1, <2>3
<1>8. TagOf[s] = TagOf[x]
  <2>1. f \in 0..(Parts[s] - 1) /\ j \in 0..(Parts[x] - 1)
    BY <1>4, <1>5, <1>6
  <2> QED
    BY <1>7, <2>1 DEF TagsApart
<1>9. Match(s, x) /\ Match(s, r)
  BY <1>3, <1>4, <1>7, <1>8 DEF Match, ProgramOrderInv, PairsAgree
<1>10. x = r
  <2>1. Match(r, x)
    BY <1>9 DEF Match
  <2> QED
    BY <2>1 DEF TagsApart
<1>11. j = f
  BY <1>4, <1>7, <1>8
<1> QED
  BY <1>1, <1>3, <1>10, <1>11

(* A data message is delivered: it fills its own sub-receive. *)
LEMMA RecvDataPlaced ==
    ASSUME TagsApart, TypeOK, TypeOK', HandshakeInv, SizesAgree, ProgramOrderInv, PlacedInv,
           NEW p0 \in Rank, RecvData(p0)
    PROVE  PlacedInv'
<1>1. PICK m \in ToRMessage : m = Head(toR[p0]) /\ m.type = "DATA"
  BY RecvDataResult
<1>2. toR[p0] # <<>> /\ toR' = [toR EXCEPT ![p0] = Tail(toR[p0])]
  BY RecvDataResult
<1>3. toR[p0] \in Seq(ToRMessage) /\ m = toR[p0][1] /\ 1 \in 1..Len(toR[p0])
  BY <1>1, <1>2, HeadTailProperties DEF TypeOK
<1>4. m.s \in SReq /\ m.from \in Nat /\ m.round \in Nat /\ \A x \in SReq : x # NULL
  BY ReqAssumption DEF ToRMessage, Req
<1>5. PICK i \in 1..Len(recvq), c \in RecvRequest :
                 /\ recvq[i].r \in RReq /\ recvq[i].into \in Nat
                 /\ DataMatch(m, recvq[i]) /\ recvq' = RemoveAt(recvq, i)
                 /\ Becomes(recvq[i].r, c)
                 /\ c.peer = rreq[recvq[i].r].peer /\ c.requests = rreq[recvq[i].r].requests
                 /\ c.round = rreq[recvq[i].r].round
                 /\ c.got = rreq[recvq[i].r].got \cup
                        {[s |-> m.s, round |-> m.round, from |-> m.from, into |-> recvq[i].into]}
  <2>1. \E i \in 1..Len(recvq) : \E c \in RecvRequest :
                 /\ recvq[i].r \in RReq /\ recvq[i].into \in Nat
                 /\ DataMatch(Head(toR[p0]), recvq[i]) /\ recvq' = RemoveAt(recvq, i)
                 /\ Becomes(recvq[i].r, c)
                 /\ c.peer = rreq[recvq[i].r].peer /\ c.requests = rreq[recvq[i].r].requests
                 /\ c.round = rreq[recvq[i].r].round
                 /\ c.got = rreq[recvq[i].r].got \cup
                        {[s |-> Head(toR[p0]).s, round |-> Head(toR[p0]).round,
                          from |-> Head(toR[p0]).from, into |-> recvq[i].into]}
    BY RecvDataResult, Zenon
  <2> QED
    BY <1>1, <2>1, Zenon
<1>6. DataAt(p0, 1) /\ HasSlot(m, sreq, rreq, recvq)
  BY <1>1, <1>3 DEF DataAt, PlacedInv, DataHasSlot
<1>7. PICK r \in RReq :
        /\ rreq[r].peer = m.s /\ rreq[r].round = m.round
        /\ m.from < rreq[r].requests /\ Slot(recvq, r, m.from)
        /\ Handed(sreq[m.s], Parts[m.s], m.round, m.from)
  BY <1>6 DEF HasSlot
<1>8. recvq[i].r = r /\ recvq[i].into = m.from
  BY <1>5, <1>7, OwnSlot DEF PlacedInv
<1>9. /\ sreq' = sreq /\ rreq'[r] = c /\ \A x \in RReq : x # r => rreq'[x] = rreq[x]
      /\ c.peer = rreq[r].peer /\ c.requests = rreq[r].requests /\ c.round = rreq[r].round
      /\ c.got = rreq[r].got \cup {[s |-> m.s, round |-> m.round, from |-> m.from, into |-> m.from]}
  BY <1>5, <1>8 DEF Becomes
<1>10. \A x \in RReq : /\ rreq'[x].peer = rreq[x].peer /\ rreq'[x].requests = rreq[x].requests
                       /\ rreq'[x].round = rreq[x].round
  BY <1>9
<1>11. recvq \in Seq(SubRecv)
  BY DEF TypeOK
<1>12. /\ \A k, l \in 1..Len(recvq') :
             \E x \in 1..Len(recvq) : \E y \in 1..Len(recvq) : /\ x # i /\ y # i /\ (x = y => k = l)
                                         /\ recvq'[k] = recvq[x] /\ recvq'[l] = recvq[y]
       /\ \A x \in 1..Len(recvq) : x # i => \E k \in 1..Len(recvq') : recvq'[k] = recvq[x]
  <2>1. /\ \A k, l \in 1..Len(RemoveAt(recvq, i)) :
             \E x \in 1..Len(recvq) : \E y \in 1..Len(recvq) : /\ x # i /\ y # i /\ (x = y => k = l)
                                         /\ RemoveAt(recvq, i)[k] = recvq[x]
                                         /\ RemoveAt(recvq, i)[l] = recvq[y]
        /\ \A x \in 1..Len(recvq) : x # i =>
             \E k \in 1..Len(RemoveAt(recvq, i)) : RemoveAt(recvq, i)[k] = recvq[x]
    BY <1>11, RemovePlaces, Zenon
  <2>2. recvq' = RemoveAt(recvq, i)
    BY <1>5
  <2> QED
    BY <2>1, <2>2
<1>13. \A x \in RReq : \A j : Slot(recvq, x, j) => Slot(recvq', x, j) \/ (x = r /\ j = m.from)
  <2>1. ASSUME NEW x \in RReq, NEW j, Slot(recvq, x, j), ~(x = r /\ j = m.from)
        PROVE  Slot(recvq', x, j)
    <3>1. PICK l \in 1..Len(recvq) : recvq[l].r = x /\ recvq[l].into = j
      BY <2>1 DEF Slot
    <3>2. l # i
      BY <1>8, <2>1, <3>1
    <3>3. PICK k \in 1..Len(recvq') : recvq'[k] = recvq[l]
      BY <1>12, <3>2, Zenon
    <3> QED
      BY <3>1, <3>3 DEF Slot
  <2> QED
    BY <2>1
<1>14. SlotsReady'
  <2>1. ASSUME NEW x \in RReq, rreq[x].peer # NULL, NEW j \in 0..(rreq[x].requests - 1)
        PROVE  Slot(recvq', x, j) \/ Handed(sreq[rreq[x].peer], Parts[rreq[x].peer], rreq[x].round, j)
    BY <1>7, <1>13, <2>1 DEF PlacedInv, SlotsReady
  <2> QED
    BY <1>9, <1>10, <2>1 DEF SlotsReady
<1>15. SlotsOnce'
  <2>1. ASSUME NEW k \in 1..Len(recvq')
        PROVE  recvq'[k].into < rreq'[recvq'[k].r].requests
    <3>1. PICK x \in 1..Len(recvq) : recvq'[k] = recvq[x]
      BY <1>12
    <3>2. recvq[x] \in SubRecv
      BY <1>11
    <3>3. recvq[x].r \in RReq
      BY <3>2 DEF SubRecv
    <3> QED
      BY <1>10, <3>1, <3>3 DEF PlacedInv, SlotsOnce
  <2>2. ASSUME NEW k \in 1..Len(recvq'), NEW l \in 1..Len(recvq'),
               recvq'[l].r = recvq'[k].r, recvq'[l].into = recvq'[k].into
        PROVE  l = k
    <3>1. \E x \in 1..Len(recvq) : \E y \in 1..Len(recvq) :
            /\ x # i /\ y # i /\ (x = y => k = l) /\ recvq'[k] = recvq[x] /\ recvq'[l] = recvq[y]
      BY <1>12, Zenon
    <3> QED
      BY <2>2, <3>1 DEF PlacedInv, SlotsOnce
  <2> QED
    BY <2>1, <2>2 DEF SlotsOnce
<1>16. DataOfOwnRound'
  <2>1. ASSUME NEW x \in RReq, NEW d \in rreq'[x].got
        PROVE  d.s = rreq'[x].peer /\ d.round = rreq'[x].round /\ d.from = d.into
    <3>1. CASE d \in rreq[x].got
      BY <1>10, <3>1 DEF PlacedInv, DataOfOwnRound
    <3>2. CASE d \notin rreq[x].got
      <4>1. x = r /\ d = [s |-> m.s, round |-> m.round, from |-> m.from, into |-> m.from]
        BY <1>9, <2>1, <3>2
      <4>2. d.s = m.s /\ d.round = m.round /\ d.from = d.into
        BY <4>1
      <4> QED
        BY <1>7, <1>10, <4>1, <4>2
    <3> QED
      BY <3>1, <3>2
  <2> QED
    BY <2>1 DEF DataOfOwnRound
<1>17. ToRShrinks
  BY <1>2, TailShrinks
<1>18. DataHasSlot'
  <2>1. ASSUME NEW p \in Rank, NEW k \in 1..Len(toR'[p]), toR'[p][k].type = "DATA"
        PROVE  /\ p = RankOf[toR'[p][k].s] /\ HasSlot(toR'[p][k], sreq', rreq', recvq')
               /\ \A l \in 1..Len(toR'[p]) :
                    toR'[p][l].type = "DATA" /\ toR'[p][l].s = toR'[p][k].s
                    /\ toR'[p][l].from = toR'[p][k].from => l = k
    <3>1. PICK n : n = toR'[p][k]
      OBVIOUS
    <3>2. /\ p = RankOf[toR'[p][k].s] /\ HasSlot(n, sreq, rreq, recvq)
          /\ \A l \in 1..Len(toR'[p]) :
                    toR'[p][l].type = "DATA" /\ toR'[p][l].s = toR'[p][k].s
                    /\ toR'[p][l].from = toR'[p][k].from => l = k
      BY <1>17, <2>1, <3>1, StaysUnique DEF PlacedInv
    <3>3. PICK x \in RReq :
            /\ rreq[x].peer = n.s /\ rreq[x].round = n.round
            /\ n.from < rreq[x].requests /\ Slot(recvq, x, n.from)
            /\ Handed(sreq[n.s], Parts[n.s], n.round, n.from)
      BY <3>2 DEF HasSlot
    <3>4. ~(x = r /\ n.from = m.from)
      <4>1. SUFFICES ASSUME x = r, n.from = m.from PROVE FALSE
        OBVIOUS
      <4>2. n.s = m.s
        BY <1>7, <3>3, <4>1
      <4>3. p = p0
        <5>1. p0 = RankOf[m.s]
          BY <1>3, <1>6 DEF PlacedInv, DataHasSlot
        <5> QED
          BY <3>1, <3>2, <4>2, <5>1
      <4>4. k + 1 \in 1..Len(toR[p0]) /\ toR'[p0][k] = toR[p0][k + 1]
        BY <1>2, <2>1, <4>3, HeadTaken
      <4>5. DataAt(p0, k + 1) /\ toR[p0][k + 1].s = m.s /\ toR[p0][k + 1].from = m.from
        BY <2>1, <3>1, <4>1, <4>2, <4>3, <4>4 DEF DataAt
      <4>6. k + 1 = 1
        BY <1>3, <1>6, <4>4, <4>5 DEF PlacedInv, DataHasSlot
      <4> QED
        BY <2>1, <4>6
    <3>5. Slot(recvq', x, n.from)
      BY <1>13, <3>3, <3>4
    <3>6. HasSlot(n, sreq', rreq', recvq')
      BY <1>9, <1>10, <3>3, <3>5 DEF HasSlot
    <3> QED
      BY <3>1, <3>2, <3>6
  <2> QED
    BY <2>1 DEF DataHasSlot, DataAt
<1> QED
  BY <1>14, <1>15, <1>16, <1>18 DEF PlacedInv

(* A step that takes no message. *)
LEMMA NothingTaken ==
    ASSUME TypeOK, toR' = toR
    PROVE  ToRShrinks
<1>1. \A p \in Rank : Len(toR[p]) \in Nat
  BY DEF TypeOK
<1>2. ASSUME NEW p \in Rank
      PROVE  Len(toR'[p]) = Len(toR[p]) - 0 /\ \A k \in 1..Len(toR'[p]) : toR'[p][k] = toR[p][k + 0]
  BY <1>1
<1> QED
  BY <1>2 DEF ToRShrinks

(* No sub-receive is posted. *)
LEMMA PostsNothing ==
    ASSUME TypeOK, NEW r, recvq' = recvq
    PROVE  Posts(r, 0)
<1>1. Len(recvq) \in Nat
  BY DEF TypeOK
<1> QED
  BY <1>1 DEF Posts

(* In round 0 there is nothing to send. *)
LEMMA RoundZeroHanded ==
    ASSUME TypeOK, HandshakeInv, NEW s \in SReq
    PROVE  \A j : Handed(sreq[s], Parts[s], 0, j)
<1>1. sreq[s] \in SendRequest /\ RoundOK(sreq[s])
  BY DEF TypeOK, HandshakeInv, SendRoundInv
<1>2. sreq[s].round \in Nat
  BY <1>1, BoundAssumption DEF SendRequest
<1>3. sreq[s].alloc => sreq[s].round > 0
  BY <1>1 DEF RoundOK
<1> QED
  BY <1>2, <1>3 DEF Handed

(* An unpaired receive request has received nothing. *)
LEMMA UnpairedGotNothing ==
    ASSUME TypeOK, DataOfOwnRound, NEW r \in RReq, rreq[r].peer = NULL
    PROVE  rreq[r].got = {}
<1>1. rreq[r].got \in SUBSET [s: SReq, round: Nat, from: Nat, into: Nat]
  BY DEF TypeOK, RecvRequest
<1>2. \A d \in rreq[r].got : d.s \in SReq
  BY <1>1
<1> QED
  BY <1>2, ReqAssumption DEF DataOfOwnRound, Req

(* Steps of a receive request keep what is under way in place. *)
LEMMA RecvStepPlaced ==
    ASSUME TypeOK, TypeOK', HandshakeInv, CounterInv, PlacedInv, NEW r \in RReq, RecvStep(r)
    PROVE  PlacedInv'
<1>1. CASE Precv_init(r)
  <2>1. rreq[r].st = "none" /\ UNCHANGED <<recvq, toR, toS>>
    BY <1>1, PrecvInitResult
  <2>2. PICK c \in RecvRequest : Becomes(r, c) /\ c.round = 0 /\ c.got = {}
    BY <1>1, PrecvInitResult
  <2>3. rreq[r].peer = NULL /\ \A i \in 1..Len(recvq) : recvq[i].r # r
    BY <2>1 DEF HandshakeInv, UnpairedRecv
  <2>4. c.peer # NULL => \A j \in 0..(c.requests - 1) : Handed(sreq[c.peer], Parts[c.peer], c.round, j)
    <3>1. c.peer \in SReq \cup {NULL}
      BY DEF RecvRequest
    <3> QED
      BY <2>2, <3>1, RoundZeroHanded
  <2>5. ToRShrinks /\ Posts(r, 0)
    BY <2>1, NothingTaken, PostsNothing
  <2> QED
    BY <2>2, <2>3, <2>4, <2>5, ReceiverPlaced
<1>2. CASE PrecvStart(r)
  <2>1. rreq[r].st = "inactive" /\ toR' = toR
    BY <1>2, PrecvStartResult
  <2>2. PICK c \in RecvRequest :
                 /\ Becomes(r, c) /\ c.got = {} /\ c.peer = rreq[r].peer
                 /\ \/ c.peer # NULL /\ ClearToSend(r, c)
                    \/ c.peer = NULL /\ UNCHANGED <<recvq, toS>>
    BY <1>2, PrecvStartResult
  <2>3. \A i \in 1..Len(recvq) : recvq[i].r # r
    <3>1. Cardinality(Slots(recvq, r)) = 0
      BY <2>1 DEF CounterInv, RecvCount
    <3>2. Len(recvq) \in Nat
      BY DEF TypeOK
    <3>3. Slots(recvq, r) = {}
      BY <3>1, <3>2, SlotsFinite, FS_EmptySet
    <3> QED
      BY <3>3 DEF Slots
  <2>4. ToRShrinks
    BY <2>1, NothingTaken
  <2>5. CASE c.peer # NULL /\ ClearToSend(r, c)
    <3>1. Posts(r, c.requests) /\ c.requests # 0
      BY <2>5, ClearToSendPosts DEF RecvRequest
    <3> QED
      BY <2>2, <2>3, <2>4, <3>1, ReceiverPlaced
  <2>6. CASE c.peer = NULL /\ UNCHANGED <<recvq, toS>>
    <3>1. Posts(r, 0)
      BY <2>6, PostsNothing
    <3> QED
      BY <2>2, <2>3, <2>4, <2>6, <3>1, ReceiverPlaced
  <2> QED
    BY <2>2, <2>5, <2>6
<1>3. CASE WaitRecv(r) \/ FreeRecv(r)
  <2>1. UNCHANGED <<recvq, toR, toS>>
    BY <1>3, WaitFreeRecvResult
  <2>2. PICK c \in RecvRequest :
                 /\ Becomes(r, c) /\ c.peer = rreq[r].peer /\ c.requests = rreq[r].requests
                 /\ c.round = rreq[r].round /\ c.got = rreq[r].got
    BY <1>3, WaitFreeRecvResult
  <2>3. /\ sreq' = sreq
        /\ \A x \in RReq : /\ rreq'[x].peer = rreq[x].peer /\ rreq'[x].requests = rreq[x].requests
                           /\ rreq'[x].round = rreq[x].round /\ rreq'[x].got = rreq[x].got
    BY <2>2 DEF Becomes
  <2>4. \A m : HasSlot(m, sreq, rreq, recvq) => HasSlot(m, sreq', rreq', recvq')
    BY <2>1, <2>3 DEF HasSlot
  <2>5. DataHasSlot'
    <3>1. ASSUME NEW p \in Rank, NEW k \in 1..Len(toR[p]), DataAt(p, k)
          PROVE  HasSlot(toR[p][k], sreq', rreq', recvq')
      BY <2>4, <3>1 DEF PlacedInv, DataHasSlot
    <3> QED
      BY <2>1, <3>1 DEF PlacedInv, DataHasSlot, DataAt
  <2>6. SlotsReady'
    BY <2>1, <2>3 DEF PlacedInv, SlotsReady
  <2>7. SlotsOnce'
    <3>1. ASSUME NEW i \in 1..Len(recvq)
          PROVE  recvq[i].into < rreq'[recvq[i].r].requests
      <4>1. recvq[i] \in SubRecv
        BY DEF TypeOK
      <4>2. recvq[i].r \in RReq
        BY <4>1 DEF SubRecv
      <4> QED
        BY <2>3, <4>2 DEF PlacedInv, SlotsOnce
    <3> QED
      BY <2>1, <3>1 DEF PlacedInv, SlotsOnce
  <2>8. DataOfOwnRound'
    BY <2>3 DEF PlacedInv, DataOfOwnRound
  <2> QED
    BY <2>5, <2>6, <2>7, <2>8 DEF PlacedInv
<1> QED
  BY <1>1, <1>2, <1>3 DEF RecvStep

(* So does the arrival of a SEND_INIT. *)
LEMMA RecvSendInitPlaced ==
    ASSUME TypeOK, TypeOK', HandshakeInv, PlacedInv, NEW p0 \in Rank, RecvSendInit(p0)
    PROVE  PlacedInv'
<1>1. /\ toR[p0] # <<>> /\ sreq' = sreq
      /\ toR' = [toR EXCEPT ![p0] = Tail(toR[p0])]
  BY RecvSendInitResult
<1>2. ToRShrinks
  BY <1>1, TailShrinks
<1>3. \/ UNCHANGED <<rreq, recvq, toS>>
      \/ \E s \in SReq : \E r \in RReq : \E c \in RecvRequest :
            /\ On(posted, r) /\ Becomes(r, c) /\ c.peer = s /\ c.st = rreq[r].st
            /\ c.round = rreq[r].round /\ c.got = rreq[r].got
            /\ \/ c.st = "active" /\ ClearToSend(r, c)
               \/ c.st # "active" /\ UNCHANGED <<recvq, toS>>
  BY RecvSendInitResult
<1>4. CASE UNCHANGED <<rreq, recvq, toS>>
  <2>1. SlotsReady' /\ SlotsOnce' /\ DataOfOwnRound'
    BY <1>1, <1>4 DEF PlacedInv, SlotsReady, SlotsOnce, DataOfOwnRound
  <2>2. ASSUME NEW p \in Rank, NEW k \in 1..Len(toR'[p]), toR'[p][k].type = "DATA"
        PROVE  /\ p = RankOf[toR'[p][k].s]
               /\ HasSlot(toR'[p][k], sreq, rreq, recvq)
               /\ \A l \in 1..Len(toR'[p]) :
                     toR'[p][l].type = "DATA" /\ toR'[p][l].s = toR'[p][k].s
                     /\ toR'[p][l].from = toR'[p][k].from => l = k
    BY <1>2, <2>2, StaysUnique DEF PlacedInv
  <2>3. ASSUME NEW p \in Rank, NEW k \in 1..Len(toR'[p]), toR'[p][k].type = "DATA"
        PROVE  HasSlot(toR'[p][k], sreq', rreq', recvq')
    BY <1>1, <1>4, <2>2, <2>3
  <2>4. DataHasSlot'
    BY <2>2, <2>3 DEF DataHasSlot, DataAt
  <2> QED
    BY <2>1, <2>4 DEF PlacedInv
<1>5. ASSUME NEW s \in SReq, NEW r \in RReq, NEW c \in RecvRequest,
             On(posted, r), Becomes(r, c), c.peer = s, c.st = rreq[r].st,
             c.round = rreq[r].round, c.got = rreq[r].got,
             \/ c.st = "active" /\ ClearToSend(r, c)
             \/ c.st # "active" /\ UNCHANGED <<recvq, toS>>
      PROVE  PlacedInv'
  <2>1. rreq[r].peer = NULL
    BY <1>5 DEF HandshakeInv, UnpairedRecv, On
  <2>2. /\ \A i \in 1..Len(recvq) : recvq[i].r # r
        /\ rreq[r].round = IF rreq[r].st = "active" THEN 1 ELSE 0
    BY <2>1 DEF HandshakeInv, UnpairedRecv
  <2>3. c.got = {}
    BY <1>5, <2>1, UnpairedGotNothing DEF PlacedInv
  <2>4. CASE c.st = "active" /\ ClearToSend(r, c)
    <3>1. Posts(r, c.requests) /\ c.requests # 0
      BY <2>4, ClearToSendPosts DEF RecvRequest
    <3> QED
      BY <1>2, <1>5, <2>2, <2>3, <3>1, ReceiverPlaced
  <2>5. CASE c.st # "active" /\ UNCHANGED <<recvq, toS>>
    <3>1. Posts(r, 0)
      BY <2>5, PostsNothing
    <3>2. c.round = 0
      BY <1>5, <2>2, <2>5
    <3>3. \A j : Handed(sreq[c.peer], Parts[c.peer], c.round, j)
      BY <1>5, <3>2, RoundZeroHanded
    <3> QED
      BY <1>2, <1>5, <2>2, <2>3, <3>1, <3>3, ReceiverPlaced
  <2> QED
    BY <1>5, <2>4, <2>5
<1> QED
  BY <1>3, <1>4, <1>5

(* The inductive invariant of the data messages. *)
LEMMA PlacedHolds ==
    ASSUME Separated, TagsApart
    PROVE  Spec => []PlacedInv
<1>1. Init => PlacedInv
  <2> SUFFICES ASSUME Init PROVE PlacedInv
    OBVIOUS
  <2>1. recvq = <<>> /\ (\A p \in Rank : toR[p] = <<>>)
    BY DEF Init
  <2>2. \A r \in RReq : rreq[r].peer = NULL /\ rreq[r].got = {}
    BY DEF Init
  <2>3. Len(recvq) = 0 /\ (\A p \in Rank : Len(toR[p]) = 0)
    BY <2>1
  <2> QED
    BY <2>2, <2>3 DEF PlacedInv, DataHasSlot, SlotsReady, SlotsOnce, DataOfOwnRound
<1>2. TypeOK /\ TypeOK' /\ HandshakeInv /\ CounterInv /\ SizesAgree /\ ProgramOrderInv /\ PlacedInv /\ [Next]_vars
        => PlacedInv'
  <2> SUFFICES ASSUME TypeOK, TypeOK', HandshakeInv, CounterInv, SizesAgree, ProgramOrderInv, PlacedInv,
                      [Next]_vars
               PROVE  PlacedInv'
    OBVIOUS
  <2>1. CASE UNCHANGED vars
    BY <2>1 DEF vars, PlacedInv, DataHasSlot, SlotsReady, SlotsOnce, DataOfOwnRound, DataAt
  <2> QED
    BY <2>1, SendStepPlaced, RecvStepPlaced, RecvSendInitPlaced, RecvDataPlaced, RecvCtsPlaced
       DEF Next, Deliver, Terminated
<1> QED
  BY <1>1, <1>2, TypeCorrect, HandshakeHolds, CounterHolds, SizesHold, ProgramOrderHolds, PTL DEF Spec

(* What a round receives is what the paired send request sent in the same    *)
(* round, sub-request by sub-request, for any number of requests, partitions *)
(* and rounds.                                                               *)
THEOREM DataOfOwnRoundHolds ==
    ASSUME Separated, TagsApart
    PROVE  Spec => []DataOfOwnRound
<1>1. PlacedInv => DataOfOwnRound
  BY DEF PlacedInv
<1> QED
  BY <1>1, PlacedHolds, PTL

(* No data message reaches the receiver before its sub-receive is posted. *)
THEOREM NoUnexpectedDataHolds ==
    ASSUME Separated, TagsApart
    PROVE  Spec => []NoUnexpectedData
<1>1. TypeOK /\ ProgramOrderInv /\ PlacedInv => NoUnexpectedData
  <2> SUFFICES ASSUME TypeOK, ProgramOrderInv, PlacedInv, NEW p \in Rank, toR[p] # <<>>,
                      Head(toR[p]).type = "DATA"
               PROVE  \E i \in DOMAIN recvq : DataMatch(Head(toR[p]), recvq[i])
    BY DEF NoUnexpectedData
  <2>1. toR[p] \in Seq(ToRMessage) /\ Head(toR[p]) = toR[p][1] /\ 1 \in 1..Len(toR[p])
    BY HeadTailProperties DEF TypeOK
  <2>2. PICK m \in ToRMessage : m = Head(toR[p]) /\ m = toR[p][1]
    BY <2>1
  <2>3. HasSlot(m, sreq, rreq, recvq) /\ m.s \in SReq
    BY <2>1, <2>2 DEF PlacedInv, DataHasSlot, DataAt, ToRMessage
  <2>4. PICK r \in RReq : rreq[r].peer = m.s /\ Slot(recvq, r, m.from)
    BY <2>3 DEF HasSlot
  <2>5. PICK i \in 1..Len(recvq) : recvq[i].r = r /\ recvq[i].into = m.from
    BY <2>4 DEF Slot
  <2>6. Match(m.s, r)
    BY <2>3, <2>4, ReqAssumption DEF ProgramOrderInv, PairsAgree, Req
  <2>7. DataMatch(m, recvq[i])
    BY <2>5, <2>6 DEF DataMatch, Match
  <2>8. i \in DOMAIN recvq
    BY DEF TypeOK
  <2> QED
    BY <2>2, <2>7, <2>8
<1> QED
  BY <1>1, TypeCorrect, ProgramOrderHolds, PlacedHolds, PTL

-----------------------------------------------------------------------------
(* Arrival *)

(* The sub-requests of a send request that are ready. *)
ReadySubs(q, P) == {j \in AllSubs(q) : SubReady(q, P, j)}

CtrOK(q, P) == q.alloc /\ q.peer # NULL => q.ctr = Cardinality(ReadySubs(q, P))

(* send_ctr after the sub-requests I are issued, those of R before. *)
LEMMA IssueCtr ==
    ASSUME NEW q \in SendRequest, NEW P, NEW R \in SUBSET Nat, IsFiniteSet(R), q.ctr = Cardinality(R),
           NEW I \in SUBSET Nat, IsFiniteSet(I), R \cap I = {}, R \cup I = ReadySubs(q, P)
    PROVE  CtrOK(IF I = {} THEN q ELSE AfterIssue(q, I), P)
<1>1. CASE I = {}
  <2>1. R = ReadySubs(q, P)
    BY <1>1
  <2> QED
    BY <1>1, <2>1 DEF CtrOK
<1>2. CASE I # {}
  <2> DEFINE c == AfterIssue(q, I)
  <2>1. /\ Cardinality(R) \in Nat /\ Cardinality(I) \in Nat
        /\ Cardinality(R \cup I) = Cardinality(R) + Cardinality(I)
    <3>1. Cardinality(R) \in Nat /\ Cardinality(I) \in Nat
      BY FS_CardinalityType
    <3>2. Cardinality(R \cap I) = 0
      BY FS_EmptySet
    <3>3. Cardinality(R \cup I) = Cardinality(R) + Cardinality(I) - Cardinality(R \cap I)
      BY FS_Union
    <3> QED
      BY <3>1, <3>2, <3>3
  <2>2. c.requests = q.requests /\ c.ppr = q.ppr
    BY AfterIssueFacts
  <2>3. CASE q.ctr + Cardinality(I) = q.requests
    <3>1. ~c.alloc
      BY <2>3, AfterIssueFacts
    <3> QED
      BY <1>2, <3>1 DEF CtrOK
  <2>4. CASE q.ctr + Cardinality(I) # q.requests
    <3>1. c.ctr = q.ctr + Cardinality(I) /\ c.ready = q.ready
      BY <2>4, AfterIssueFacts, AfterIssueReady
    <3> HIDE DEF c
    <3>2. \A j : SubReady(c, P, j) <=> SubReady(q, P, j)
      BY <2>2, <3>1, Zenon DEF SubReady
    <3>3. ReadySubs(c, P) = ReadySubs(q, P)
      BY <2>2, <3>2 DEF ReadySubs, AllSubs
    <3>4. c.ctr = Cardinality(ReadySubs(c, P))
      BY <2>1, <3>1, <3>3
    <3>5. CtrOK(c, P)
      BY <3>4 DEF CtrOK
    <3> QED
      BY <1>2, <3>5 DEF c
  <2> QED
    BY <2>3, <2>4
<1> QED
  BY <1>1, <1>2

(* A round that has begun and has its CTS: all candidates that are ready are *)
(* issued, and R were before.                                                *)
LEMMA TransmissionCtr ==
    ASSUME TypeOK, CtrCounts, NEW s \in SReq, NEW q \in SendRequest,
           NEW cand \in SUBSET Nat, IsFiniteSet(cand), CheckDataTransmission(s, q, cand),
           NEW R \in SUBSET Nat, IsFiniteSet(R),
           q.peer # NULL => /\ q.ctr = Cardinality(R) /\ R \cap cand = {}
                            /\ R \cup {i \in cand : SubReady(q, Parts[s], i)} = ReadySubs(q, Parts[s])
    PROVE  CtrCounts'
<1>1. PICK I \in SUBSET cand :
        /\ IsFiniteSet(I)
        /\ q.peer = NULL => I = {}
        /\ q.peer # NULL => I = {i \in cand : SubReady(q, Parts[s], i)}
        /\ sreq' = [sreq EXCEPT ![s] = IF I = {} THEN q ELSE AfterIssue(q, I)]
  BY TransmissionData
<1>2. PICK c : c = (IF I = {} THEN q ELSE AfterIssue(q, I))
  OBVIOUS
<1>3. CtrOK(c, Parts[s])
  <2>1. CASE q.peer = NULL
    BY <1>1, <1>2, <2>1 DEF CtrOK
  <2>2. CASE q.peer # NULL
    <3>1. I \in SUBSET Nat /\ R \cap I = {} /\ R \cup I = ReadySubs(q, Parts[s]) /\ q.ctr = Cardinality(R)
      BY <1>1, <2>2
    <3>2. CtrOK(IF I = {} THEN q ELSE AfterIssue(q, I), Parts[s])
      BY <1>1, <3>1, IssueCtr
    <3> QED
      BY <1>2, <3>2
  <2> QED
    BY <2>1, <2>2
<1>4. sreq'[s] = c /\ \A x \in SReq : x # s => sreq'[x] = sreq[x]
  BY <1>1, <1>2 DEF TypeOK
<1> QED
  BY <1>3, <1>4 DEF CtrCounts, CtrOK, ReadySubs

(* Partition p is in one sub-request only. *)
LEMMA OnlySubRequest ==
    ASSUME NEW p \in Nat, NEW d \in Nat \ {0}, NEW j \in Nat, p \in (j * d)..((j + 1) * d - 1)
    PROVE  j = p \div d
<1>1. p = d * (p \div d) + (p % d) /\ p % d \in 0..(d - 1) /\ p \div d \in Nat
  OBVIOUS
<1>2. PICK k \in Nat, e \in 0..(d - 1) : k = p \div d /\ p = d * k + e
  BY <1>1
<1>3. (j + 1) * d = j * d + d /\ j * d \in Nat
  OBVIOUS
<1>4. p >= j * d /\ p < j * d + d
  BY <1>3
<1>5. ~(j < k)
  <2>1. SUFFICES ASSUME j < k PROVE FALSE
    OBVIOUS
  <2>2. PICK x \in Nat : k = j + 1 + x
    <3>1. k - (j + 1) \in Nat /\ k = j + 1 + (k - (j + 1))
      BY <2>1
    <3> QED
      BY <3>1
  <2>3. d * k = j * d + d + d * x /\ d * x \in Nat
    BY <2>2
  <2> QED
    BY <1>2, <1>3, <1>4, <2>3
<1>6. ~(k < j)
  <2>1. SUFFICES ASSUME k < j PROVE FALSE
    OBVIOUS
  <2>2. PICK x \in Nat : j = k + 1 + x
    <3>1. j - (k + 1) \in Nat /\ j = k + 1 + (j - (k + 1))
      BY <2>1
    <3> QED
      BY <3>1
  <2>3. j * d = d * k + d + d * x /\ d * x \in Nat /\ d * k \in Nat
    BY <2>2
  <2> QED
    BY <1>2, <1>3, <1>4, <2>3
<1> QED
  BY <1>2, <1>5, <1>6

(* A partition is counted when it is marked ready. *)
LEMMA SendStepCtr ==
    ASSUME TypeOK, HandshakeInv, SizesAgree, CtrCounts, NEW s \in SReq, SendStep(s)
    PROVE  CtrCounts'
<1>0. /\ sreq[s] \in SendRequest /\ RoundOK(sreq[s])
      /\ sreq[s].requests \in Nat /\ sreq[s].ppr \in Nat \ {0} /\ Parts[s] \in Nat
  <2>1. sreq[s] \in SendRequest /\ RoundOK(sreq[s]) /\ Parts[s] \in Nat
    BY ArgAssumption DEF TypeOK, HandshakeInv, SendRoundInv, Req
  <2> QED
    BY <2>1 DEF SendRequest
<1>1. IsFiniteSet({}) /\ Cardinality({}) = 0
  BY FS_EmptySet
<1>2. ASSUME NEW c, sreq' = [sreq EXCEPT ![s] = c], c.alloc = sreq[s].alloc, c.requests = sreq[s].requests,
             c.peer = sreq[s].peer, c.ppr = sreq[s].ppr, c.ready = sreq[s].ready, c.ctr = sreq[s].ctr
      PROVE  CtrCounts'
  <2>1. sreq'[s] = c /\ \A x \in SReq : x # s => sreq'[x] = sreq[x]
    BY <1>2 DEF TypeOK
  <2>2. {j \in AllSubs(c) : SubReady(c, Parts[s], j)} = {j \in AllSubs(sreq[s]) : SubReady(sreq[s], Parts[s], j)}
    BY <1>2 DEF AllSubs, SubReady
  <2> QED
    BY <1>2, <2>1, <2>2 DEF CtrCounts
<1>3. CASE Psend_init(s)
  <2>1. sreq' = [sreq EXCEPT ![s] = InitSend(s)]
    BY <1>3 DEF Psend_init
  <2>2. PICK c : c = InitSend(s)
    OBVIOUS
  <2>3. ~c.alloc
    BY <2>2 DEF InitSend
  <2>4. sreq'[s] = c /\ \A x \in SReq : x # s => sreq'[x] = sreq[x]
    BY <2>1, <2>2 DEF TypeOK
  <2> QED
    BY <2>3, <2>4 DEF CtrCounts
<1>4. CASE PsendStart(s)
  <2> DEFINE q == [sreq[s] EXCEPT !.st = "active", !.round = @ + 1, !.alloc = TRUE,
                                  !.ready = {}, !.ctr = 0, !.cc = sreq[s].requests]
  <2>1. q \in SendRequest
    BY <1>0, <1>4, StartedSend DEF PsendStart
  <2>2. q.ctr = 0
    BY <1>0 DEF SendRequest
  <2>3. CheckDataTransmission(s, q, AllSubs(q))
    BY <1>4 DEF PsendStart
  <2> HIDE DEF q
  <2>4. AllSubs(q) \in SUBSET Nat /\ IsFiniteSet(AllSubs(q))
    BY <2>1, CandidateSets
  <2>5. /\ q.ctr = Cardinality({}) /\ {} \cap AllSubs(q) = {}
        /\ {} \cup {i \in AllSubs(q) : SubReady(q, Parts[s], i)} = ReadySubs(q, Parts[s])
    BY <1>1, <2>2 DEF ReadySubs
  <2> QED
    BY <1>1, <2>1, <2>3, <2>4, <2>5, TransmissionCtr
<1>5. ASSUME NEW p \in 0..(Parts[s] - 1), Pready(s, p) PROVE CtrCounts'
  <2> DEFINE q == [sreq[s] EXCEPT !.ready = @ \cup {p}]
             R == ReadySubs(sreq[s], Parts[s])
  <2>1. p \in Nat /\ p < Parts[s] /\ p \notin sreq[s].ready /\ sreq[s].alloc
    BY <1>0, <1>5 DEF Pready
  <2>2. q \in SendRequest
    <3>1. sreq[s].ready \cup {p} \in SUBSET Nat
      BY <1>0, <2>1 DEF SendRequest
    <3> QED
      BY <1>0, <3>1 DEF SendRequest
  <2>3. /\ q.requests = sreq[s].requests /\ q.peer = sreq[s].peer /\ q.ppr = sreq[s].ppr
        /\ q.ctr = sreq[s].ctr /\ q.ready = sreq[s].ready \cup {p}
    BY <1>0 DEF SendRequest
  <2>4. CheckDataTransmission(s, q, {p \div q.ppr})
    BY <1>5 DEF Pready
  <2> HIDE DEF q
  <2>5. PICK i \in Nat : i = p \div sreq[s].ppr
    BY <1>0, <2>1
  <2>6. i < sreq[s].requests
    BY <1>0, <2>1, <2>5, SubRequestExists DEF SizesAgree
  <2>7. ~SubReady(sreq[s], Parts[s], i)
    <3>1. p \in (i * sreq[s].ppr)..((i + 1) * sreq[s].ppr - 1)
      BY <1>0, <2>1, <2>5, OwnSubRequest
    <3> QED
      BY <2>1, <3>1, Zenon DEF SubReady
  <2>8. ASSUME NEW j \in Nat, j # i
        PROVE  SubReady(q, Parts[s], j) <=> SubReady(sreq[s], Parts[s], j)
    <3>1. p \notin (j * sreq[s].ppr)..((j + 1) * sreq[s].ppr - 1)
      BY <1>0, <2>1, <2>5, <2>8, OnlySubRequest
    <3> QED
      BY <2>3, <3>1, Zenon DEF SubReady
  <2>9. AllSubs(q) = AllSubs(sreq[s]) /\ i \in AllSubs(q) /\ AllSubs(q) \in SUBSET Nat /\ IsFiniteSet(AllSubs(q))
    <3>1. AllSubs(q) = AllSubs(sreq[s]) /\ i \in AllSubs(q)
      BY <1>0, <2>3, <2>6 DEF AllSubs
    <3> QED
      BY <2>2, <3>1, CandidateSets
  <2>10. R \in SUBSET Nat /\ IsFiniteSet(R) /\ i \notin R
    <3>1. R \in SUBSET AllSubs(q)
      BY <2>9 DEF ReadySubs
    <3>2. IsFiniteSet(R)
      BY <2>9, <3>1, FS_Subset
    <3> QED
      BY <2>7, <2>9, <3>1, <3>2 DEF ReadySubs
  <2>11. R \cup {k \in {i} : SubReady(q, Parts[s], k)} = ReadySubs(q, Parts[s])
    <3>1. ASSUME NEW j
          PROVE  j \in R \cup {k \in {i} : SubReady(q, Parts[s], k)} <=> j \in ReadySubs(q, Parts[s])
      <4>1. CASE j = i
        BY <2>9, <2>10, <4>1 DEF ReadySubs
      <4>2. CASE j # i
        BY <2>8, <2>9, <4>2 DEF ReadySubs
      <4> QED
        BY <4>1, <4>2
    <3> QED
      BY <3>1
  <2>12. q.peer # NULL => q.ctr = Cardinality(R)
    BY <2>1, <2>3 DEF CtrCounts, ReadySubs
  <2> HIDE DEF R
  <2>13. PICK cand \in SUBSET Nat : cand = {i}
    OBVIOUS
  <2>14. IsFiniteSet(cand) /\ R \cap cand = {} /\ CheckDataTransmission(s, q, cand)
    BY <2>3, <2>4, <2>5, <2>10, <2>13, FS_Singleton
  <2>15. R \cup {k \in cand : SubReady(q, Parts[s], k)} = ReadySubs(q, Parts[s])
    BY <2>11, <2>13
  <2> QED
    BY <2>2, <2>10, <2>12, <2>14, <2>15, TransmissionCtr
<1>6. ASSUME NEW i \in sreq[s].out, SendSubDone(s, i) PROVE CtrCounts'
  <2> DEFINE c == [sreq[s] EXCEPT !.out = sreq[s].out \ {i}, !.cc = sreq[s].cc - 1]
  <2>1. sreq' = [sreq EXCEPT ![s] = c]
    BY <1>6 DEF SendSubDone, TypeOK
  <2>2. /\ c.requests = sreq[s].requests /\ c.alloc = sreq[s].alloc /\ c.peer = sreq[s].peer
        /\ c.ppr = sreq[s].ppr /\ c.ready = sreq[s].ready /\ c.ctr = sreq[s].ctr
    BY <1>0 DEF SendRequest
  <2> HIDE DEF c
  <2> QED
    BY <1>2, <2>1, <2>2
<1>7. CASE WaitSend(s) \/ FreeSend(s)
  <2>1. PICK st \in States : sreq' = [sreq EXCEPT ![s].st = st]
    BY <1>7 DEF WaitSend, FreeSend, States
  <2> DEFINE c == [sreq[s] EXCEPT !.st = st]
  <2>2. sreq' = [sreq EXCEPT ![s] = c]
    BY <2>1
  <2>3. /\ c.requests = sreq[s].requests /\ c.alloc = sreq[s].alloc /\ c.peer = sreq[s].peer
        /\ c.ppr = sreq[s].ppr /\ c.ready = sreq[s].ready /\ c.ctr = sreq[s].ctr
    BY <1>0 DEF SendRequest
  <2> HIDE DEF c
  <2> QED
    BY <1>2, <2>2, <2>3
<1> QED
  BY <1>3, <1>4, <1>5, <1>6, <1>7 DEF SendStep

(* A CTS counts nothing. *)
LEMMA RecvCtsCtr ==
    ASSUME TypeOK, HandshakeInv, CtrCounts, NEW p \in Rank, RecvCts(p)
    PROVE  CtrCounts'
<1> DEFINE m == Head(toS[p])
           s == m.s
           q00 == [sreq[s] EXCEPT !.peer = m.r]
           q0 == CheckNumRequests(q00, Parts[s], m.requests)
           q == [q0 EXCEPT !.cc = q0.requests]
<1>1. toS[p] # <<>> /\ m = toS[p][1] /\ 1 \in 1..Len(toS[p]) /\ m \in CtsMessage
  BY HeadTailProperties DEF RecvCts, TypeOK
<1>2. s \in SReq /\ m.r \in RReq /\ m.requests \in Nat \ {0} /\ Parts[s] \in Nat \ {0}
  BY <1>1, ArgAssumption DEF CtsMessage, Req
<1>3. sreq[s].peer = NULL
  BY <1>1, <1>2 DEF HandshakeInv, OneClearToSend
<1>4. sreq[s] \in SendRequest /\ RoundOK(sreq[s])
  BY <1>2 DEF TypeOK, HandshakeInv, SendRoundInv
<1>5. q00 \in SendRequest /\ q00.ctr = sreq[s].ctr /\ q00.alloc = sreq[s].alloc
  BY <1>2, <1>4 DEF SendRequest
<1>6. \/ sreq[s].st # "active" /\ sreq' = [sreq EXCEPT ![s] = q0]
      \/ sreq[s].alloc /\ CheckDataTransmission(s, q, AllSubs(q))
      \/ ~sreq[s].alloc /\ sreq' = [sreq EXCEPT ![s] = q]
  BY Zenon DEF RecvCts
<1> HIDE DEF m, s, q00
<1>7. q0 \in SendRequest /\ q0.ctr = sreq[s].ctr /\ q0.alloc = sreq[s].alloc
  BY <1>2, <1>5, CheckNumSend
<1> HIDE DEF q0
<1>8. q \in SendRequest /\ q.ctr = sreq[s].ctr /\ q.alloc = sreq[s].alloc
  BY <1>7 DEF SendRequest
<1> HIDE DEF q
<1>9. ASSUME ~sreq[s].alloc, sreq' = [sreq EXCEPT ![s] = q0] \/ sreq' = [sreq EXCEPT ![s] = q]
      PROVE  CtrCounts'
  <2>1. ~sreq'[s].alloc /\ \A x \in SReq : x # s => sreq'[x] = sreq[x]
    BY <1>2, <1>7, <1>8, <1>9 DEF TypeOK
  <2> QED
    BY <1>2, <2>1 DEF CtrCounts
<1>10. CASE sreq[s].alloc /\ CheckDataTransmission(s, q, AllSubs(q))
  <2>1. q.ctr = 0
    BY <1>3, <1>4, <1>8, <1>10 DEF RoundOK
  <2>2. IsFiniteSet({}) /\ Cardinality({}) = 0
    BY FS_EmptySet
  <2>3. /\ q.ctr = Cardinality({}) /\ {} \cap AllSubs(q) = {}
        /\ {} \cup {i \in AllSubs(q) : SubReady(q, Parts[s], i)} = ReadySubs(q, Parts[s])
    BY <2>1, <2>2 DEF ReadySubs
  <2>4. AllSubs(q) \in SUBSET Nat /\ IsFiniteSet(AllSubs(q))
    BY <1>8, CandidateSets
  <2> QED
    BY <1>2, <1>8, <1>10, <2>2, <2>3, <2>4, TransmissionCtr
<1>11. sreq[s].st # "active" => ~sreq[s].alloc
  BY <1>4 DEF RoundOK
<1> QED
  BY <1>6, <1>9, <1>10, <1>11

(* The counters of ready partitions are exact. *)
LEMMA CtrHolds ==
    ASSUME Separated
    PROVE  Spec => []CtrCounts
<1>1. Init => CtrCounts
  <2> SUFFICES ASSUME Init PROVE CtrCounts
    OBVIOUS
  <2>1. \A s \in SReq : ~sreq[s].alloc
    BY DEF Init
  <2> QED
    BY <2>1 DEF CtrCounts
<1>2. TypeOK /\ HandshakeInv /\ SizesAgree /\ CtrCounts /\ [Next]_vars => CtrCounts'
  <2> SUFFICES ASSUME TypeOK, HandshakeInv, SizesAgree, CtrCounts, [Next]_vars PROVE CtrCounts'
    OBVIOUS
  <2>1. CASE sreq' = sreq
    BY <2>1 DEF CtrCounts
  <2>2. ASSUME NEW r \in RReq, RecvStep(r) PROVE sreq' = sreq
    BY <2>2 DEF RecvStep, Precv_init, PrecvStart, WaitRecv, FreeRecv
  <2>3. ASSUME NEW p \in Rank, RecvSendInit(p) PROVE sreq' = sreq
    BY <2>3, RecvSendInitResult
  <2>4. ASSUME NEW p \in Rank, RecvData(p) PROVE sreq' = sreq
    BY <2>4 DEF RecvData
  <2> QED
    BY <2>1, <2>2, <2>3, <2>4, SendStepCtr, RecvCtsCtr DEF Next, Deliver, Terminated, vars
<1> QED
  BY <1>1, <1>2, TypeCorrect, HandshakeHolds, SizesHold, PTL DEF Spec

(* MPID_Parrived reports a round as arrived only when the partner has handed *)
(* all sub-requests of that round to pscom, for any number of requests,      *)
(* partitions and rounds.                                                    *)
THEOREM ArrivedImpliesIssuedHolds ==
    ASSUME Separated, TagsApart
    PROVE  Spec => []ArrivedImpliesIssued
<1>1. TypeOK /\ HandshakeInv /\ CounterInv /\ SizesAgree /\ CtrCounts /\ PlacedInv => ArrivedImpliesIssued
  <2> SUFFICES ASSUME TypeOK, HandshakeInv, CounterInv, SizesAgree, CtrCounts, PlacedInv,
                      NEW r \in RReq, rreq[r].st = "active", rreq[r].cc = 0
               PROVE  /\ rreq[r].peer # NULL
                      /\ \/ sreq[rreq[r].peer].round > rreq[r].round
                         \/ sreq[rreq[r].peer].round = rreq[r].round /\ ~sreq[rreq[r].peer].alloc
    BY DEF ArrivedImpliesIssued, Parrived
  <2>1. rreq[r].peer # NULL
    BY DEF HandshakeInv, UnpairedRecv
  <2>2. PICK s \in SReq : s = rreq[r].peer
    BY <2>1 DEF TypeOK, RecvRequest
  <2>3. sreq[s] \in SendRequest /\ RoundOK(sreq[s]) /\ rreq[r] \in RecvRequest /\ s # NULL
    BY ReqAssumption DEF TypeOK, HandshakeInv, SendRoundInv, Req
  <2>4. sreq[s].round \in Nat /\ rreq[r].round \in Nat /\ rreq[r].requests \in Nat \ {0}
        /\ sreq[s].requests \in Nat /\ sreq[s].ctr \in Nat
    BY <2>3, BoundAssumption DEF SendRequest, RecvRequest
  <2>5. \A j : ~Slot(recvq, r, j)
    <3>1. Cardinality(Slots(recvq, r)) = 0
      BY <2>1 DEF CounterInv, RecvCount
    <3>2. Len(recvq) \in Nat
      BY DEF TypeOK
    <3>3. Slots(recvq, r) = {}
      BY <3>1, <3>2, SlotsFinite, FS_EmptySet
    <3> QED
      BY <3>3 DEF Slots, Slot
  <2>6. \A j \in 0..(rreq[r].requests - 1) : Handed(sreq[s], Parts[s], rreq[r].round, j)
    BY <2>1, <2>2, <2>5 DEF PlacedInv, SlotsReady
  <2>7. sreq[s].round - (IF sreq[s].alloc THEN 1 ELSE 0) >= rreq[r].round
    <3>1. SUFFICES ASSUME ~(sreq[s].round - (IF sreq[s].alloc THEN 1 ELSE 0) >= rreq[r].round)
                   PROVE  FALSE
      OBVIOUS
    <3>2. \A j \in 0..(rreq[r].requests - 1) : sreq[s].alloc /\ sreq[s].peer # NULL /\ SubReady(sreq[s], Parts[s], j)
      BY <2>6, <3>1 DEF Handed
    <3>3. sreq[s].alloc /\ sreq[s].peer # NULL
      <4>1. 0 \in 0..(rreq[r].requests - 1)
        BY <2>4
      <4> QED
        BY <3>2, <4>1
    <3>4. sreq[s].requests = rreq[r].requests
      <4>1. PICK x \in RReq : x = sreq[s].peer
        BY <2>3, <3>3 DEF SendRequest
      <4>2. rreq[x].peer = s /\ sreq[s].requests = rreq[x].requests
        BY <3>3, <4>1 DEF HandshakeInv, OneClearToSend, SizesAgree
      <4>3. x = r
        BY <2>1, <2>2, <4>2 DEF HandshakeInv, AnnouncedOnce
      <4> QED
        BY <4>2, <4>3
    <3>5. {j \in AllSubs(sreq[s]) : SubReady(sreq[s], Parts[s], j)} = 0..(sreq[s].requests - 1)
      BY <3>2, <3>4 DEF AllSubs
    <3>6. sreq[s].ctr = Cardinality(0..(sreq[s].requests - 1))
      BY <3>3, <3>5 DEF CtrCounts
    <3>7. Cardinality(0..(sreq[s].requests - 1)) = sreq[s].requests
      <4>1. PICK n \in Nat : n = sreq[s].requests
        BY <2>4
      <4>2. Cardinality(0..(n - 1)) = n
        BY SubsCard
      <4> QED
        BY <4>1, <4>2
    <3>8. sreq[s].ctr < sreq[s].requests
      BY <2>3, <3>3 DEF RoundOK
    <3> QED
      BY <2>4, <3>6, <3>7, <3>8
  <2>8. sreq[s].alloc \in BOOLEAN
    BY <2>3 DEF SendRequest
  <2>9. sreq[s].round > rreq[r].round \/ (sreq[s].round = rreq[r].round /\ ~sreq[s].alloc)
    <3>1. CASE sreq[s].alloc
      BY <2>4, <2>7, <3>1
    <3>2. CASE ~sreq[s].alloc
      BY <2>4, <2>7, <3>2
    <3> QED
      BY <3>1, <3>2
  <2> QED
    BY <2>1, <2>2, <2>9
<1> QED
  BY <1>1, TypeCorrect, HandshakeHolds, CounterHolds, SizesHold, CtrHolds, PlacedHolds, PTL
=============================================================================
