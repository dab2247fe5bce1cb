---------------------------- MODULE PartCommProof ----------------------------
(* Proofs about PartComm. *)
EXTENDS PartComm, FiniteSetTheorems, SequenceTheorems, TLAPS

(* list_del at position i: the other elements keep their order.              *)
LEMMA RemoveAtFacts ==
    ASSUME NEW S, NEW q \in Seq(S), NEW i \in 1..Len(q)
    PROVE  /\ RemoveAt(q, i) \in Seq(S)
           /\ Len(RemoveAt(q, i)) = Len(q) - 1
           /\ \A k \in 1..(Len(q) - 1) :
                 RemoveAt(q, i)[k] = IF k < i THEN q[k] ELSE q[k + 1]
<1> DEFINE a == SubSeq(q, 1, i - 1)
           b == SubSeq(q, i + 1, Len(q))
<1>1. a \in Seq(S) /\ Len(a) = i - 1 /\ \A k \in 1..(i - 1) : a[k] = q[k]
  OBVIOUS
<1>2. b \in Seq(S) /\ Len(b) = Len(q) - i /\ \A k \in 1..(Len(q) - i) : b[k] = q[k + i]
  OBVIOUS
<1> HIDE DEF a, b
<1>3. RemoveAt(q, i) = a \o b
  BY DEF RemoveAt, a, b
<1>4. a \o b \in Seq(S) /\ Len(a \o b) = Len(q) - 1
  <2>1. a \o b \in Seq(S) /\ Len(a \o b) = Len(a) + Len(b)
    BY <1>1, <1>2, ConcatProperties, Zenon
  <2> QED
    BY <1>1, <1>2, <2>1
<1>5. ASSUME NEW k \in 1..(Len(q) - 1)
      PROVE  (a \o b)[k] = IF k < i THEN q[k] ELSE q[k + 1]
  <2>1. CASE k < i
    BY <1>1, <1>2, <2>1
  <2>2. CASE ~(k < i)
    <3>1. (a \o b)[k] = b[k - (i - 1)]
      BY <1>1, <1>2, <2>2
    <3>2. b[k - (i - 1)] = q[k + 1]
      BY <1>2, <2>2
    <3> QED
      BY <2>2, <3>1, <3>2
  <2> QED
    BY <2>1, <2>2
<1> QED
  BY <1>3, <1>4, <1>5

(* Removing an entry of a list leaves entries of the old list only, in their order. *)
LEMMA RemoveAtElements ==
    ASSUME NEW S, NEW q \in Seq(S), NEW i \in 1..Len(q)
    PROVE  /\ DOMAIN RemoveAt(q, i) = 1..(Len(q) - 1)
           /\ \A k \in DOMAIN RemoveAt(q, i) :
                 \E l \in 1..Len(q) : l # i /\ RemoveAt(q, i)[k] = q[l]
<1> DEFINE d == RemoveAt(q, i)
<1>1. d \in Seq(S) /\ Len(d) = Len(q) - 1
  BY RemoveAtFacts
<1>2. \A k \in 1..(Len(q) - 1) : d[k] = IF k < i THEN q[k] ELSE q[k + 1]
  BY RemoveAtFacts
<1> HIDE DEF d
<1>3. DOMAIN d = 1..(Len(q) - 1)
  BY <1>1
<1>4. ASSUME NEW k \in 1..(Len(q) - 1)
      PROVE  \E l \in 1..Len(q) : l # i /\ d[k] = q[l]
  <2>1. CASE k < i
    BY <1>2, <2>1
  <2>2. CASE ~(k < i)
    <3>1. k + 1 \in 1..Len(q) /\ k + 1 # i /\ d[k] = q[k + 1]
      BY <1>2, <2>2
    <3> QED
      BY <3>1
  <2> QED
    BY <2>1, <2>2
<1> QED
  BY <1>3, <1>4 DEF d

(* MPID_part_check_num_requests only changes the number of sub-requests and  *)
(* the partitions per sub-request, and both stay positive.                   *)
LEMMA CeilPositive ==
    ASSUME NEW P \in Nat \ {0}, NEW m \in Nat \ {0}
    PROVE  P \div m + (IF P % m > 0 THEN 1 ELSE 0) \in Nat \ {0}
  OBVIOUS

(* MPID_part_check_num_requests keeps the record of a send request well-typed. *)
LEMMA CheckNumSend ==
    ASSUME NEW q \in SendRequest, NEW P \in Nat \ {0}, NEW n \in Nat \ {0}
    PROVE  LET c == CheckNumRequests(q, P, n)
           IN  /\ c \in SendRequest
               /\ c.st = q.st /\ c.round = q.round /\ c.ord = q.ord /\ c.peer = q.peer
               /\ c.alloc = q.alloc /\ c.ready = q.ready /\ c.ctr = q.ctr
               /\ c.cc = q.cc /\ c.out = q.out
  BY CeilPositive DEF CheckNumRequests, SendRequest

(* MPID_part_check_num_requests keeps the record of a receive request well-typed. *)
LEMMA CheckNumRecv ==
    ASSUME NEW q \in RecvRequest, NEW P \in Nat \ {0}, NEW n \in Nat \ {0}
    PROVE  LET c == CheckNumRequests(q, P, n)
           IN  /\ c \in RecvRequest
               /\ c.st = q.st /\ c.round = q.round /\ c.ord = q.ord /\ c.peer = q.peer
               /\ c.cc = q.cc /\ c.ref = q.ref /\ c.got = q.got
  BY CeilPositive DEF CheckNumRequests, RecvRequest

(* MPID_part_issue_data_send. *)
LEMMA AfterIssueFacts ==
    ASSUME NEW q \in SendRequest, NEW I \in SUBSET Nat, IsFiniteSet(I)
    PROVE  LET c == AfterIssue(q, I)
           IN  /\ c \in SendRequest
               /\ c.st = q.st /\ c.round = q.round /\ c.ord = q.ord
               /\ c.requests = q.requests /\ c.ppr = q.ppr /\ c.cc = q.cc
               /\ c.out = q.out \cup I
               /\ q.ctr + Cardinality(I) = q.requests
                    => ~c.alloc /\ c.peer = NULL /\ c.ctr = 0
               /\ q.ctr + Cardinality(I) # q.requests
                    => /\ c.alloc = q.alloc /\ c.peer = q.peer
                       /\ c.ctr = q.ctr + Cardinality(I)
<1>1. Cardinality(I) \in Nat
  BY FS_CardinalityType
<1> DEFINE n == q.ctr + Cardinality(I)
           i == [q EXCEPT !.ctr = n, !.out = @ \cup I]
<1>2. i \in SendRequest
  <2>a. q.ctr \in Nat /\ q.out \in SUBSET Nat
    BY DEF SendRequest
  <2>b. n \in Nat
    BY <1>1, <2>a
  <2>c. q.out \cup I \in SUBSET Nat
    BY <2>a
  <2>1. n \in Nat /\ q.out \cup I \in SUBSET Nat
    BY <2>b, <2>c
  <2> HIDE DEF n
  <2> QED
    BY <2>1 DEF SendRequest
<1>3. CASE n = q.requests
  <2>1. AfterIssue(q, I) = [i EXCEPT !.alloc = FALSE, !.ready = {}, !.peer = NULL, !.ctr = 0]
    BY <1>3 DEF AfterIssue
  <2>2. AfterIssue(q, I) \in SendRequest
    <3> HIDE DEF i
    <3>1. [i EXCEPT !.alloc = FALSE, !.ready = {}, !.peer = NULL, !.ctr = 0] \in SendRequest
      BY <1>2 DEF SendRequest
    <3> QED
      BY <2>1, <3>1
  <2> QED
    BY <1>2, <1>3, <2>1, <2>2 DEF SendRequest
<1>4. CASE n # q.requests
  <2>1. AfterIssue(q, I) = i
    BY <1>4 DEF AfterIssue
  <2> QED
    BY <1>2, <1>4, <2>1 DEF SendRequest
<1> QED
  BY <1>3, <1>4

(* A step that appends nothing but data messages to the connections.         *)
OnlyDataSent ==
    /\ toR' \in [Rank -> Seq(ToRMessage)]
    /\ \A p \in Rank :
          /\ Len(toR[p]) <= Len(toR'[p])
          /\ \A k \in 1..Len(toR[p]) : toR'[p][k] = toR[p][k]
          /\ \A k \in (Len(toR[p]) + 1)..Len(toR'[p]) : toR'[p][k].type = "DATA"

(* MPID_part_check_data_transmission issues a subset I of the candidates,    *)
(* empty without a CTS, and sends data messages only.                        *)
LEMMA TransmissionFacts ==
    ASSUME TypeOK, NEW s \in SReq, NEW q \in SendRequest,
           NEW cand \in SUBSET Nat, IsFiniteSet(cand),
           CheckDataTransmission(s, q, cand)
    PROVE  /\ OnlyDataSent
           /\ \E I \in SUBSET cand :
                 /\ IsFiniteSet(I)
                 /\ q.peer = NULL => I = {}
                 /\ sreq' = [sreq EXCEPT ![s] = IF I = {} THEN q ELSE AfterIssue(q, I)]
<1> DEFINE I == IF q.peer = NULL THEN {} ELSE {i \in cand : SubReady(q, Parts[s], i)}
<1>1. I \in SUBSET cand /\ IsFiniteSet(I)
  BY FS_Subset, FS_EmptySet
<1>2. PICK order \in [1..Cardinality(I) -> I] :
        /\ sreq' = [sreq EXCEPT ![s] = IF I = {} THEN q ELSE AfterIssue(q, I)]
        /\ toR' = [toR EXCEPT ![RankOf[s]] = @ \o DataMessages(s, q.round, order)]
  BY DEF CheckDataTransmission
<1>3. q.peer = NULL => I = {}
  OBVIOUS
<1> HIDE DEF I
<1> DEFINE d == DataMessages(s, q.round, order)
<1>4. Cardinality(I) \in Nat /\ q.round \in Nat /\ RankOf[s] \in Rank
  BY <1>1, FS_CardinalityType, ArgAssumption, BoundAssumption DEF SendRequest, Req
<1>5. /\ d \in Seq(ToRMessage) /\ Len(d) = Cardinality(I)
      /\ \A k \in 1..Len(d) : d[k].type = "DATA"
  <2>1. DOMAIN order = 1..Cardinality(I)
    OBVIOUS
  <2>2. ASSUME NEW k \in 1..Cardinality(I)
        PROVE  [type |-> "DATA", s |-> s, round |-> q.round, from |-> order[k]] \in ToRMessage
    <3>1. order[k] \in Nat
      BY <1>1
    <3> QED
      BY <1>4, <3>1 DEF ToRMessage
  <2>3. d = [k \in 1..Cardinality(I) |->
               [type |-> "DATA", s |-> s, round |-> q.round, from |-> order[k]]]
    BY <2>1 DEF DataMessages
  <2> QED
    BY <1>4, <2>2, <2>3
<1> HIDE DEF d
<1>6. OnlyDataSent
  <2> DEFINE p0 == RankOf[s]
  <2>1. toR \in [Rank -> Seq(ToRMessage)]
    BY DEF TypeOK
  <2>2. toR' = [toR EXCEPT ![p0] = toR[p0] \o d]
    BY <1>2 DEF d
  <2>3. toR[p0] \o d \in Seq(ToRMessage) /\ Len(toR[p0] \o d) = Len(toR[p0]) + Len(d)
    BY <1>4, <1>5, <2>1, ConcatProperties
  <2>4. toR' \in [Rank -> Seq(ToRMessage)]
    BY <1>4, <2>1, <2>2, <2>3
  <2>5. ASSUME NEW p \in Rank
        PROVE  /\ Len(toR[p]) <= Len(toR'[p])
               /\ \A k \in 1..Len(toR[p]) : toR'[p][k] = toR[p][k]
               /\ \A k \in (Len(toR[p]) + 1)..Len(toR'[p]) : toR'[p][k].type = "DATA"
    <3>1. CASE p # p0
      BY <2>1, <2>2, <3>1
    <3>2. CASE p = p0
      <4> DEFINE a == toR[p0]
      <4>1. a \in Seq(ToRMessage) /\ toR'[p] = a \o d
        BY <1>4, <2>1, <2>2, <3>2
      <4> HIDE DEF a
      <4>2. \A k \in 1..Len(a) : (a \o d)[k] = a[k]
        BY <1>5, <4>1
      <4>3. \A k \in (Len(a) + 1)..(Len(a) + Len(d)) : (a \o d)[k] = d[k - Len(a)]
        BY <1>5, <4>1
      <4>4. Len(a \o d) = Len(a) + Len(d) /\ Len(a) \in Nat /\ Len(d) \in Nat
        BY <1>5, <4>1
      <4>5. \A k \in (Len(a) + 1)..(Len(a) + Len(d)) : (a \o d)[k].type = "DATA"
        BY <1>5, <4>3, <4>4
      <4>6. toR[p] = a
        BY <3>2 DEF a
      <4> QED
        BY <4>1, <4>2, <4>4, <4>5, <4>6
    <3> QED
      BY <3>1, <3>2
  <2> QED
    BY <2>4, <2>5 DEF OnlyDataSent
<1> QED
  BY <1>1, <1>2, <1>3, <1>6

(* The result of a transmission check is again a table of send requests.     *)
LEMMA TransmissionType ==
    ASSUME TypeOK, NEW s \in SReq, NEW q \in SendRequest,
           NEW cand \in SUBSET Nat, IsFiniteSet(cand),
           CheckDataTransmission(s, q, cand)
    PROVE  /\ sreq' \in [SReq -> SendRequest]
           /\ toR' \in [Rank -> Seq(ToRMessage)]
<1>1. PICK I \in SUBSET cand :
        /\ IsFiniteSet(I)
        /\ sreq' = [sreq EXCEPT ![s] = IF I = {} THEN q ELSE AfterIssue(q, I)]
  BY TransmissionFacts
<1>2. I \in SUBSET Nat
  OBVIOUS
<1>3. AfterIssue(q, I) \in SendRequest
  BY <1>1, <1>2, AfterIssueFacts
<1>4. sreq' \in [SReq -> SendRequest]
  BY <1>1, <1>3 DEF TypeOK
<1> QED
  BY <1>4, TransmissionFacts DEF OnlyDataSent

(* The sub-requests of a request, and the one of a single partition.         *)
LEMMA CandidateSets ==
    ASSUME NEW q \in SendRequest
    PROVE  /\ AllSubs(q) \in SUBSET Nat /\ IsFiniteSet(AllSubs(q))
           /\ \A p \in Nat : {p \div q.ppr} \in SUBSET Nat /\ IsFiniteSet({p \div q.ppr})
<1>1. q.requests \in Nat \ {0} /\ q.ppr \in Nat \ {0}
  BY DEF SendRequest
<1>2. IsFiniteSet(0..(q.requests - 1))
  BY <1>1, FS_Interval
<1>3. \A p \in Nat : p \div q.ppr \in Nat
  BY <1>1
<1>4. AllSubs(q) \in SUBSET Nat /\ IsFiniteSet(AllSubs(q))
  BY <1>1, <1>2 DEF AllSubs
<1>5. ASSUME NEW p \in Nat
      PROVE  {p \div q.ppr} \in SUBSET Nat /\ IsFiniteSet({p \div q.ppr})
  BY <1>3, FS_Singleton
<1> QED
  BY <1>4, <1>5

(* The records the operations build. *)
LEMMA StartedSend ==
    ASSUME NEW q \in SendRequest, q.round < MaxRounds
    PROVE  [q EXCEPT !.st = "active", !.round = @ + 1, !.alloc = TRUE,
                     !.ready = {}, !.ctr = 0, !.cc = q.requests] \in SendRequest
<1>1. q.round + 1 \in 0..MaxRounds /\ q.requests \in Int
  BY BoundAssumption DEF SendRequest
<1> QED
  BY <1>1 DEF SendRequest, States

(* The number of requests initialised earlier is a natural number. *)
LEMMA EarlierNat ==
    ASSUME NEW q, NEW S, NEW tbl, IsFiniteSet(S)
    PROVE  Earlier(q, S, tbl) \in Nat
  BY FS_Subset, FS_CardinalityType DEF Earlier

-----------------------------------------------------------------------------
(* Type correctness *)

(* The initial state is well-typed. *)
LEMMA InitType == Init => TypeOK
<1> SUFFICES ASSUME Init PROVE TypeOK
  OBVIOUS
<1>1. sreq \in [SReq -> SendRequest]
  BY ArgAssumption, BoundAssumption DEF Init, SendRequest, States, Req
<1>2. rreq \in [RReq -> RecvRequest]
  BY ArgAssumption, BoundAssumption DEF Init, RecvRequest, States, Req
<1>3. /\ posted \in Seq(RReq) /\ unexp \in Seq(SReq) /\ recvq \in Seq(SubRecv)
      /\ toR \in [Rank -> Seq(ToRMessage)] /\ toS \in [Rank -> Seq(CtsMessage)]
      /\ crashed \in BOOLEAN
  <2>1. posted \in Seq(RReq) /\ unexp \in Seq(SReq) /\ recvq \in Seq(SubRecv)
    BY DEF Init
  <2>2. toR \in [Rank -> Seq(ToRMessage)]
    BY DEF Init
  <2>3. toS \in [Rank -> Seq(CtsMessage)]
    BY DEF Init
  <2> QED
    BY <2>1, <2>2, <2>3 DEF Init
<1> QED
  BY <1>1, <1>2, <1>3 DEF TypeOK

(* The messages and receives of MPIDI_PSP_SendPartitionedCtrl and            *)
(* MPID_part_issue_data_recv.                                                *)
LEMMA ClearToSendFacts ==
    ASSUME TypeOK, NEW r \in RReq, NEW q \in RecvRequest, q.peer # NULL, ClearToSend(r, q)
    PROVE  LET m == [s |-> q.peer, r |-> r, requests |-> q.requests]
           IN  /\ m \in CtsMessage
               /\ toS' = [toS EXCEPT ![RankOf[r]] = Append(toS[RankOf[r]], m)]
               /\ toS' \in [Rank -> Seq(CtsMessage)]
               /\ recvq' \in Seq(SubRecv)
               /\ \A i \in 1..Len(recvq') : recvq'[i].r = r
                       \/ \E j \in 1..Len(recvq) : recvq'[i] = recvq[j]
<1> DEFINE m == [s |-> q.peer, r |-> r, requests |-> q.requests]
           e == [i \in 1..q.requests |-> [r |-> r, into |-> i - 1]]
<1>1. q.requests \in Nat \ {0} /\ q.peer \in SReq /\ RankOf[r] \in Rank
  BY ArgAssumption DEF RecvRequest, Req
<1>2. m \in CtsMessage
  BY <1>1 DEF CtsMessage
<1>3. toS' = [toS EXCEPT ![RankOf[r]] = Append(toS[RankOf[r]], m)]
  BY DEF ClearToSend
<1>4. toS' \in [Rank -> Seq(CtsMessage)]
  <2> HIDE DEF m
  <2> QED
    BY <1>1, <1>2, <1>3, AppendProperties DEF TypeOK
<1>5. e \in Seq(SubRecv) /\ Len(e) = q.requests /\ \A i \in 1..Len(e) : e[i].r = r
  <2>1. \A i \in 1..q.requests : [r |-> r, into |-> i - 1] \in SubRecv
    BY <1>1 DEF SubRecv
  <2> QED
    BY <1>1, <2>1
<1> HIDE DEF e
<1>6. recvq' = recvq \o e /\ recvq \in Seq(SubRecv)
  BY DEF ClearToSend, TypeOK, e
<1>7. recvq' \in Seq(SubRecv) /\ Len(recvq') = Len(recvq) + Len(e)
  BY <1>5, <1>6, ConcatProperties
<1>8. ASSUME NEW i \in 1..Len(recvq')
      PROVE  recvq'[i].r = r \/ \E j \in 1..Len(recvq) : recvq'[i] = recvq[j]
  <2>1. CASE i <= Len(recvq)
    BY <1>5, <1>6, <1>7, <2>1
  <2>2. CASE i > Len(recvq)
    <3>1. recvq'[i] = e[i - Len(recvq)] /\ i - Len(recvq) \in 1..Len(e)
      BY <1>5, <1>6, <1>7, <2>2
    <3> QED
      BY <1>5, <3>1
  <2> QED
    BY <1>6, <2>1, <2>2
<1> QED
  BY <1>2, <1>3, <1>4, <1>7, <1>8

(* MPID_do_recv_part_send_init when it finds a posted receive request r.     *)
LEMMA PairedFacts ==
    ASSUME TypeOK, NEW r \in RReq, NEW s \in SReq
    PROVE  LET q0 == CheckNumRequests([rreq[r] EXCEPT !.peer = s], Parts[r], Parts[s])
               q  == [q0 EXCEPT !.ref = @ - 1,
                        !.cc = IF q0.st = "active" THEN q0.requests ELSE @]
           IN  /\ q \in RecvRequest
               /\ q.peer = s /\ q.st = rreq[r].st /\ q.round = rreq[r].round
               /\ q.ref = rreq[r].ref - 1 /\ q.ord = rreq[r].ord
               /\ q.cc = IF q.st = "active" THEN q.requests ELSE rreq[r].cc
<1> DEFINE q0 == CheckNumRequests([rreq[r] EXCEPT !.peer = s], Parts[r], Parts[s])
           q  == [q0 EXCEPT !.ref = @ - 1,
                    !.cc = IF q0.st = "active" THEN q0.requests ELSE @]
<1>1. Parts[r] \in Nat \ {0} /\ Parts[s] \in Nat \ {0} /\ rreq[r] \in RecvRequest
  BY ArgAssumption DEF TypeOK, Req
<1>2. [rreq[r] EXCEPT !.peer = s] \in RecvRequest
  BY <1>1 DEF RecvRequest
<1>3. /\ q0 \in RecvRequest
      /\ q0.peer = s /\ q0.st = rreq[r].st /\ q0.round = rreq[r].round /\ q0.ref = rreq[r].ref
      /\ q0.ord = rreq[r].ord /\ q0.cc = rreq[r].cc
  BY <1>1, <1>2, CheckNumRecv DEF RecvRequest
<1> HIDE DEF q0
<1>4. q0.ref - 1 \in Int /\ (IF q0.st = "active" THEN q0.requests ELSE q0.cc) \in Int
  BY <1>3 DEF RecvRequest
<1>5. q \in RecvRequest
  BY <1>3, <1>4 DEF RecvRequest
<1>6. /\ q.peer = s /\ q.st = rreq[r].st /\ q.round = rreq[r].round
      /\ q.ref = rreq[r].ref - 1 /\ q.ord = rreq[r].ord
      /\ q.cc = IF q.st = "active" THEN q.requests ELSE rreq[r].cc
  BY <1>3 DEF RecvRequest
<1> QED
  BY <1>5, <1>6 DEF q0

(* Every step keeps the state well-typed. *)
LEMMA NextType == TypeOK /\ [Next]_vars => TypeOK'
<1> SUFFICES ASSUME TypeOK, [Next]_vars PROVE TypeOK'
  OBVIOUS
<1>0. CASE UNCHANGED vars
  BY <1>0 DEF TypeOK, vars
<1>1. ASSUME NEW s \in SReq, Psend_init(s) PROVE TypeOK'
  <2>1. Parts[s] \in Nat \ {0} /\ RankOf[s] \in Rank /\ Earlier(s, SReq, sreq) \in Nat
    BY ArgAssumption, ReqAssumption, EarlierNat DEF Req
  <2>2. InitSend(s) \in SendRequest
    BY <2>1, BoundAssumption DEF InitSend, SendRequest, States
  <2> DEFINE m == [type |-> "SEND_INIT", s |-> s, round |-> 0, from |-> 0]
  <2>3. m \in ToRMessage
    BY DEF ToRMessage
  <2>4. toR' = [toR EXCEPT ![RankOf[s]] = Append(toR[RankOf[s]], m)]
    BY <1>1 DEF Psend_init
  <2> HIDE DEF m
  <2>5. toR' \in [Rank -> Seq(ToRMessage)]
    BY <2>1, <2>3, <2>4, AppendProperties DEF TypeOK
  <2>6. sreq' \in [SReq -> SendRequest]
    BY <1>1, <2>2 DEF Psend_init, TypeOK
  <2> QED
    BY <1>1, <2>5, <2>6 DEF Psend_init, TypeOK
<1>2. ASSUME NEW s \in SReq, PsendStart(s) PROVE TypeOK'
  <2> DEFINE q == [sreq[s] EXCEPT !.st = "active", !.round = @ + 1, !.alloc = TRUE,
                                  !.ready = {}, !.ctr = 0, !.cc = sreq[s].requests]
  <2>1. q \in SendRequest
    BY <1>2, StartedSend DEF PsendStart, TypeOK
  <2>2. CheckDataTransmission(s, q, AllSubs(q))
    BY <1>2 DEF PsendStart
  <2> HIDE DEF q
  <2>3. sreq' \in [SReq -> SendRequest] /\ toR' \in [Rank -> Seq(ToRMessage)]
    BY <2>1, <2>2, TransmissionType, CandidateSets
  <2> QED
    BY <1>2, <2>3 DEF PsendStart, TypeOK
<1>3. ASSUME NEW s \in SReq, NEW p \in 0..(Parts[s] - 1), Pready(s, p) PROVE TypeOK'
  <2> DEFINE q == [sreq[s] EXCEPT !.ready = @ \cup {p}]
  <2>1. p \in Nat /\ sreq[s] \in SendRequest
    BY ArgAssumption DEF TypeOK
  <2>2. q \in SendRequest
    <3>1. sreq[s].ready \cup {p} \in SUBSET Nat
      BY <2>1 DEF SendRequest
    <3> QED
      BY <2>1, <3>1 DEF SendRequest
  <2>3. CheckDataTransmission(s, q, {p \div q.ppr})
    BY <1>3 DEF Pready
  <2> HIDE DEF q
  <2>4. sreq' \in [SReq -> SendRequest] /\ toR' \in [Rank -> Seq(ToRMessage)]
    BY <2>1, <2>2, <2>3, TransmissionType, CandidateSets
  <2> QED
    BY <1>3, <2>4 DEF Pready, TypeOK
<1>4. ASSUME NEW s \in SReq, NEW i \in sreq[s].out, SendSubDone(s, i) PROVE TypeOK'
  <2>1. sreq[s] \in SendRequest
    BY DEF TypeOK
  <2>2. sreq[s].cc - 1 \in Int /\ sreq[s].out \ {i} \in SUBSET Nat
    BY <2>1 DEF SendRequest
  <2>3. [sreq[s] EXCEPT !.out = sreq[s].out \ {i}, !.cc = sreq[s].cc - 1] \in SendRequest
    BY <2>1, <2>2 DEF SendRequest
  <2>4. sreq' = [sreq EXCEPT ![s] =
                   [sreq[s] EXCEPT !.out = sreq[s].out \ {i}, !.cc = sreq[s].cc - 1]]
    BY <1>4 DEF SendSubDone, TypeOK
  <2>5. sreq' \in [SReq -> SendRequest]
    BY <2>3, <2>4 DEF TypeOK
  <2> QED
    BY <1>4, <2>5 DEF SendSubDone, TypeOK
<1>5. ASSUME NEW s \in SReq, WaitSend(s) \/ FreeSend(s) PROVE TypeOK'
  <2>1. PICK st \in States : sreq' = [sreq EXCEPT ![s].st = st]
    BY <1>5 DEF WaitSend, FreeSend, States
  <2>2. sreq' \in [SReq -> SendRequest]
    <3>1. sreq[s] \in SendRequest /\ sreq \in [SReq -> SendRequest]
      BY DEF TypeOK
    <3>2. [sreq[s] EXCEPT !.st = st] \in SendRequest
      BY <3>1 DEF SendRequest
    <3>3. sreq' = [sreq EXCEPT ![s] = [sreq[s] EXCEPT !.st = st]]
      BY <2>1
    <3> QED
      BY <3>1, <3>2, <3>3
  <2> QED
    BY <1>5, <2>2 DEF WaitSend, FreeSend, TypeOK
<1>6. ASSUME NEW p \in Rank, RecvCts(p) PROVE TypeOK'
  <2> DEFINE m == Head(toS[p])
             s == m.s
             q0 == CheckNumRequests([sreq[s] EXCEPT !.peer = m.r], Parts[s], m.requests)
             q == [q0 EXCEPT !.cc = q0.requests]
  <2>1. m \in CtsMessage /\ Tail(toS[p]) \in Seq(CtsMessage)
    BY <1>6, HeadTailProperties DEF RecvCts, TypeOK
  <2>2. s \in SReq /\ m.r \in RReq /\ m.requests \in Nat \ {0} /\ Parts[s] \in Nat \ {0}
    BY <2>1, ArgAssumption DEF CtsMessage, Req
  <2> HIDE DEF m, s
  <2>3. [sreq[s] EXCEPT !.peer = m.r] \in SendRequest
    BY <2>2, ZenonT(30) DEF SendRequest, TypeOK
  <2>4. q0 \in SendRequest
    BY <2>2, <2>3, CheckNumSend
  <2>5. q \in SendRequest
    <3> HIDE DEF q0
    <3> QED
      BY <2>4 DEF SendRequest
  <2>6. toS' \in [Rank -> Seq(CtsMessage)]
    BY <1>6, <2>1 DEF RecvCts, TypeOK
  <2>7. sreq' \in [SReq -> SendRequest] /\ toR' \in [Rank -> Seq(ToRMessage)]
        /\ crashed' \in BOOLEAN
    <3>1. CASE sreq' = [sreq EXCEPT ![s] = q0] /\ UNCHANGED <<toR, crashed>>
      BY <2>2, <2>4, <3>1 DEF TypeOK
    <3>2. CASE CheckDataTransmission(s, q, AllSubs(q)) /\ UNCHANGED crashed
      <4> HIDE DEF q
      <4> QED
        BY <2>2, <2>5, <3>2, TransmissionType, CandidateSets DEF TypeOK
    <3>3. CASE crashed' = TRUE /\ sreq' = [sreq EXCEPT ![s] = q] /\ UNCHANGED toR
      BY <2>2, <2>5, <3>3 DEF TypeOK
    <3> QED
      BY <1>6, <3>1, <3>2, <3>3 DEF RecvCts, m, s
  <2> QED
    BY <1>6, <2>6, <2>7 DEF RecvCts, TypeOK
<1>7. ASSUME NEW r \in RReq, Precv_init(r) PROVE TypeOK'
  <2>1. Parts[r] \in Nat \ {0} /\ Earlier(r, RReq, rreq) \in Nat
    BY ArgAssumption, ReqAssumption, EarlierNat DEF Req
  <2>2. InitRecv(r) \in RecvRequest
    BY <2>1, BoundAssumption DEF InitRecv, RecvRequest, States
  <2>3. ASSUME NEW i \in DOMAIN unexp,
               rreq' = [rreq EXCEPT ![r] = CheckNumRequests([InitRecv(r) EXCEPT !.peer = unexp[i]],
                                                            Parts[r], Parts[unexp[i]])],
               unexp' = RemoveAt(unexp, i), UNCHANGED posted
        PROVE  TypeOK'
    <3>0. unexp[i] \in SReq /\ i \in 1..Len(unexp)
      BY DEF TypeOK
    <3>1. unexp[i] \in SReq /\ Parts[unexp[i]] \in Nat \ {0} /\ i \in 1..Len(unexp)
      BY <3>0, ArgAssumption DEF Req
    <3>2. [InitRecv(r) EXCEPT !.peer = unexp[i]] \in RecvRequest
      BY <2>2, <3>1 DEF RecvRequest
    <3>3. rreq' \in [RReq -> RecvRequest]
      BY <2>1, <2>3, <3>1, <3>2, CheckNumRecv DEF TypeOK
    <3>4. unexp' \in Seq(SReq)
      BY <2>3, <3>1, RemoveAtFacts DEF TypeOK
    <3> QED
      BY <1>7, <2>3, <3>3, <3>4 DEF Precv_init, TypeOK
  <2>4. ASSUME posted' = Append(posted, r),
               rreq' = [rreq EXCEPT ![r] = [InitRecv(r) EXCEPT !.ref = 2]], UNCHANGED unexp
        PROVE  TypeOK'
    <3>0. [InitRecv(r) EXCEPT !.ref = 2] \in RecvRequest
      BY <2>2 DEF RecvRequest
    <3>1. rreq' \in [RReq -> RecvRequest]
      BY <2>4, <3>0 DEF TypeOK
    <3>2. posted' \in Seq(RReq)
      BY <2>4, AppendProperties DEF TypeOK
    <3> QED
      BY <1>7, <2>4, <3>1, <3>2 DEF Precv_init, TypeOK
  <2> QED
    BY <1>7, <2>3, <2>4 DEF Precv_init
<1>8. ASSUME NEW r \in RReq, PrecvStart(r) PROVE TypeOK'
  <2> DEFINE q == [rreq[r] EXCEPT !.st = "active", !.round = @ + 1,
                                  !.cc = rreq[r].requests, !.got = {}]
  <2>1. q \in RecvRequest
    <3>1. rreq[r] \in RecvRequest
      BY DEF TypeOK
    <3>2. rreq[r].round + 1 \in 0..MaxRounds /\ rreq[r].requests \in Int
      BY <1>8, <3>1, BoundAssumption DEF PrecvStart, RecvRequest
    <3> QED
      BY <3>1, <3>2 DEF RecvRequest, States
  <2>2. rreq' = [rreq EXCEPT ![r] = q]
    BY <1>8 DEF PrecvStart
  <2>3. \/ q.peer # NULL /\ ClearToSend(r, q)
        \/ UNCHANGED <<toS, recvq>>
    BY <1>8 DEF PrecvStart
  <2> HIDE DEF q
  <2>4. rreq' \in [RReq -> RecvRequest]
    BY <2>1, <2>2 DEF TypeOK
  <2>5. toS' \in [Rank -> Seq(CtsMessage)] /\ recvq' \in Seq(SubRecv)
    BY <2>1, <2>3, ClearToSendFacts, ZenonT(60) DEF TypeOK
  <2> QED
    BY <1>8, <2>4, <2>5 DEF PrecvStart, TypeOK
<1>9. ASSUME NEW p \in Rank, RecvSendInit(p) PROVE TypeOK'
  <2> DEFINE s == Head(toR[p]).s
  <2>1. Head(toR[p]) \in ToRMessage /\ Tail(toR[p]) \in Seq(ToRMessage)
    BY <1>9, HeadTailProperties, ZenonT(60) DEF RecvSendInit, TypeOK
  <2>2. s \in SReq /\ Parts[s] \in Nat \ {0}
    BY <2>1, ArgAssumption DEF ToRMessage, Req
  <2>3. toR' \in [Rank -> Seq(ToRMessage)]
    BY <1>9, <2>1, ZenonT(60) DEF RecvSendInit, TypeOK
  <2> DEFINE Typed ==
        /\ rreq' \in [RReq -> RecvRequest] /\ posted' \in Seq(RReq) /\ unexp' \in Seq(SReq)
        /\ toS' \in [Rank -> Seq(CtsMessage)] /\ recvq' \in Seq(SubRecv)
  <2>4. Typed
    <3> DEFINE q0(r) == CheckNumRequests([rreq[r] EXCEPT !.peer = s], Parts[r], Parts[s])
               q(r)  == [q0(r) EXCEPT !.ref = @ - 1,
                           !.cc = IF q0(r).st = "active" THEN q0(r).requests ELSE @]
    <3>1. ASSUME NEW i \in DOMAIN posted,
                 rreq' = [rreq EXCEPT ![posted[i]] = q(posted[i])],
                 IF q(posted[i]).st = "active" THEN ClearToSend(posted[i], q(posted[i]))
                 ELSE UNCHANGED <<toS, recvq>>,
                 posted' = RemoveAt(posted, i), UNCHANGED unexp
          PROVE  Typed
      <4>1. posted[i] \in RReq /\ i \in 1..Len(posted)
        BY DEF TypeOK
      <4>2. q(posted[i]) \in RecvRequest /\ q(posted[i]).peer = s
        BY <2>2, <4>1, PairedFacts
      <4> HIDE DEF q, s
      <4>3. rreq' \in [RReq -> RecvRequest]
        BY <3>1, <4>1, <4>2 DEF TypeOK
      <4>4. posted' \in Seq(RReq) /\ unexp' \in Seq(SReq)
        BY <3>1, <4>1, RemoveAtFacts DEF TypeOK
      <4>5. q(posted[i]).peer # NULL
        BY <2>2, <4>2, ReqAssumption DEF Req
      <4>6. toS' \in [Rank -> Seq(CtsMessage)] /\ recvq' \in Seq(SubRecv)
        BY <3>1, <4>1, <4>2, <4>5, ClearToSendFacts DEF TypeOK
      <4> QED
        BY <4>3, <4>4, <4>6
    <3>2. ASSUME unexp' = Append(unexp, s), UNCHANGED <<rreq, posted, toS, recvq>>
          PROVE  Typed
      BY <2>2, <3>2, AppendProperties DEF TypeOK
    <3> QED
      BY <1>9, <3>1, <3>2, ZenonT(60) DEF RecvSendInit
  <2> QED
    BY <1>9, <2>3, <2>4, ZenonT(60) DEF RecvSendInit, TypeOK
<1>10. ASSUME NEW p \in Rank, RecvData(p) PROVE TypeOK'
  <2>1. Head(toR[p]) \in ToRMessage /\ Tail(toR[p]) \in Seq(ToRMessage)
    BY <1>10, HeadTailProperties DEF RecvData, TypeOK
  <2>2. PICK i \in DOMAIN recvq :
          /\ rreq' = [rreq EXCEPT ![recvq[i].r].cc = @ - 1,
                        ![recvq[i].r].got = @ \cup
                            {[s |-> Head(toR[p]).s, round |-> Head(toR[p]).round,
                              from |-> Head(toR[p]).from, into |-> recvq[i].into]}]
          /\ recvq' = RemoveAt(recvq, i)
    BY <1>10 DEF RecvData
  <2> DEFINE e == recvq[i]
             d == [s |-> Head(toR[p]).s, round |-> Head(toR[p]).round,
                   from |-> Head(toR[p]).from, into |-> e.into]
  <2>3. e \in SubRecv /\ i \in 1..Len(recvq)
    BY DEF TypeOK
  <2>4. e.r \in RReq /\ d \in [s: SReq, round: Nat, from: Nat, into: Nat]
    BY <2>1, <2>3 DEF SubRecv, ToRMessage
  <2>5. rreq' = [rreq EXCEPT ![e.r] =
                   [rreq[e.r] EXCEPT !.cc = rreq[e.r].cc - 1, !.got = rreq[e.r].got \cup {d}]]
    BY <2>2, <2>4 DEF TypeOK
  <2> HIDE DEF d, e
  <2>6. rreq[e.r] \in RecvRequest
    BY <2>4 DEF TypeOK
  <2>7. /\ rreq[e.r].cc - 1 \in Int
        /\ rreq[e.r].got \cup {d} \in SUBSET [s: SReq, round: Nat, from: Nat, into: Nat]
    BY <2>4, <2>6 DEF RecvRequest
  <2>8. [rreq[e.r] EXCEPT !.cc = rreq[e.r].cc - 1, !.got = rreq[e.r].got \cup {d}] \in RecvRequest
    BY <2>6, <2>7 DEF RecvRequest
  <2>9. rreq' \in [RReq -> RecvRequest]
    BY <2>4, <2>5, <2>8 DEF TypeOK
  <2>10. recvq' \in Seq(SubRecv)
    BY <2>2, <2>3, RemoveAtFacts DEF TypeOK
  <2>11. toR' \in [Rank -> Seq(ToRMessage)]
    BY <1>10, <2>1 DEF RecvData, TypeOK
  <2> QED
    BY <1>10, <2>9, <2>10, <2>11 DEF RecvData, TypeOK
<1>11. ASSUME NEW r \in RReq, WaitRecv(r) \/ FreeRecv(r) PROVE TypeOK'
  <2>1. rreq[r] \in RecvRequest
    BY DEF TypeOK
  <2>2. CASE WaitRecv(r)
    <3>1. [rreq[r] EXCEPT !.st = "inactive"] \in RecvRequest
      BY <2>1 DEF RecvRequest, States
    <3>2. rreq' = [rreq EXCEPT ![r] = [rreq[r] EXCEPT !.st = "inactive"]]
      BY <2>2 DEF WaitRecv, TypeOK
    <3> QED
      BY <2>2, <3>1, <3>2 DEF WaitRecv, TypeOK
  <2>3. CASE FreeRecv(r)
    <3>1. rreq[r].ref - 1 \in Int
      BY <2>1 DEF RecvRequest
    <3>2. [rreq[r] EXCEPT !.st = "freed", !.ref = rreq[r].ref - 1] \in RecvRequest
      BY <2>1, <3>1 DEF RecvRequest, States
    <3>3. rreq' = [rreq EXCEPT ![r] = [rreq[r] EXCEPT !.st = "freed", !.ref = rreq[r].ref - 1]]
      BY <2>3 DEF FreeRecv, TypeOK
    <3> QED
      BY <2>3, <3>2, <3>3 DEF FreeRecv, TypeOK
  <2> QED
    BY <1>11, <2>2, <2>3
<1> QED
  BY <1>0, <1>1, <1>2, <1>3, <1>4, <1>5, <1>6, <1>7, <1>8, <1>9, <1>10, <1>11
     DEF Next, SendStep, RecvStep, Deliver, Terminated

(* Every reachable state is well typed: in particular lists, channels and    *)
(* pointers of mpid_part.c only ever refer to requests of the right side.    *)
THEOREM TypeCorrect == Spec => []TypeOK
<1> QED
  BY InitType, NextType, PTL DEF Spec

-----------------------------------------------------------------------------
(* No missed match *)

(* The two lists of the receiver never hold entries that match each other:   *)
(* MPID_Precv_init and MPID_do_recv_part_send_init each search the other's   *)
(* list before they append to their own.                                     *)
THEOREM NoMissedMatchHolds == Spec => []NoMissedMatch
<1>1. Init => NoMissedMatch
  BY DEF Init, NoMissedMatch
<1>2. TypeOK /\ NoMissedMatch /\ [Next]_vars => NoMissedMatch'
  <2> SUFFICES ASSUME TypeOK, NoMissedMatch, [Next]_vars PROVE NoMissedMatch'
    OBVIOUS
  <2>0. posted \in Seq(RReq) /\ unexp \in Seq(SReq)
    BY DEF TypeOK
  <2>1. CASE UNCHANGED <<posted, unexp>>
    BY <2>1 DEF NoMissedMatch
  <2>2. ASSUME NEW r \in RReq, Precv_init(r) PROVE NoMissedMatch'
    <3>1. ASSUME NEW i \in DOMAIN unexp, unexp' = RemoveAt(unexp, i), UNCHANGED posted
          PROVE  NoMissedMatch'
      <4>1. \A k \in DOMAIN unexp' : \E l \in DOMAIN unexp : unexp'[k] = unexp[l]
        BY <2>0, <3>1, RemoveAtElements, SMTT(30)
      <4> QED
        BY <3>1, <4>1 DEF NoMissedMatch
    <3>2. ASSUME NoMatch(unexp, r), posted' = Append(posted, r), UNCHANGED unexp
          PROVE  NoMissedMatch'
      <4>1. \A k \in DOMAIN posted' : posted'[k] = r \/ \E l \in DOMAIN posted : posted'[k] = posted[l]
        BY <2>0, <3>2
      <4> QED
        BY <3>2, <4>1 DEF NoMissedMatch, NoMatch, Match
    <3> QED
      BY <2>2, <3>1, <3>2 DEF Precv_init
  <2>3. ASSUME NEW p \in Rank, RecvSendInit(p) PROVE NoMissedMatch'
    <3> DEFINE s == Head(toR[p]).s
    <3>1. ASSUME NEW i \in DOMAIN posted, posted' = RemoveAt(posted, i), UNCHANGED unexp
          PROVE  NoMissedMatch'
      <4>1. \A k \in DOMAIN posted' : \E l \in DOMAIN posted : posted'[k] = posted[l]
        BY <2>0, <3>1, RemoveAtElements, SMTT(30)
      <4> QED
        BY <3>1, <4>1 DEF NoMissedMatch
    <3>2. ASSUME NoMatch(posted, s), unexp' = Append(unexp, s), UNCHANGED posted
          PROVE  NoMissedMatch'
      <4> HIDE DEF s
      <4>1. \A k \in DOMAIN unexp' : unexp'[k] = s \/ \E l \in DOMAIN unexp : unexp'[k] = unexp[l]
        BY <2>0, <3>2
      <4> QED
        BY <3>2, <4>1 DEF NoMissedMatch, NoMatch, Match
    <3> QED
      BY <2>3, <3>1, <3>2 DEF RecvSendInit
  <2>4. \/ UNCHANGED <<posted, unexp>>
        \/ \E r \in RReq : Precv_init(r)
        \/ \E p \in Rank : RecvSendInit(p)
    BY DEF Next, SendStep, RecvStep, Deliver, Terminated, vars, Psend_init, PsendStart, WaitSend,
           FreeSend, Pready, SendSubDone, PrecvStart, WaitRecv, FreeRecv, RecvData, RecvCts
  <2> QED
    BY <2>1, <2>2, <2>3, <2>4
<1> QED
  BY <1>1, <1>2, TypeCorrect, PTL DEF Spec

-----------------------------------------------------------------------------
(* Pairing in program order *)

(* x is an entry of list l; x comes before y in l. *)
On(l, x) == \E i \in 1..Len(l) : l[i] = x
Precedes(l, x, y) == \E i, j \in 1..Len(l) : i < j /\ l[i] = x /\ l[j] = y

(* SEND_INIT of x is on connection p; it is ahead of that of y. *)
Flies(p, x) == \E k \in 1..Len(toR[p]) : InitAt(p, k, x)
Ahead(p, x, y) == \E j, k \in 1..Len(toR[p]) : j < k /\ InitAt(p, j, x) /\ InitAt(p, k, y)

(* A request of table tbl has been initialised. *)
Known(tbl, x) == tbl[x].st # "none"

(* The initialised requests of an envelope are numbered 0, 1, 2, ... in the *)
(* order of their initialisation.                                           *)
Numbered(S, tbl) ==
    /\ \A x \in S : Known(tbl, x) => tbl[x].ord < Earlier(x, S, tbl)
    /\ \A x, y \in S : Known(tbl, x) /\ Known(tbl, y) /\ Match(x, y) /\ tbl[x].ord = tbl[y].ord
          => x = y
    /\ \A x \in S : \A n \in 0..(Earlier(x, S, tbl) - 1) :
          \E y \in S : Known(tbl, y) /\ Match(y, x) /\ tbl[y].ord = n

Paired(s) == \E r \in RReq : rreq[r].peer = s

(* Nothing gets lost: an initialised request is announced, in a list or paired. *)
Accounted ==
    /\ \A s \in SReq : Known(sreq, s) => Flies(RankOf[s], s) \/ On(unexp, s) \/ Paired(s)
    /\ \A r \in RReq : Known(rreq, r) => On(posted, r) \/ rreq[r].peer # NULL

(* What waits is initialised and not paired. *)
WaitingUnpaired ==
    /\ \A p \in Rank : \A s \in SReq : Flies(p, s) => p = RankOf[s] /\ Known(sreq, s) /\ ~Paired(s)
    /\ \A s \in SReq : On(unexp, s) => Known(sreq, s) /\ ~Paired(s)
    /\ \A r \in RReq : On(posted, r) => Known(rreq, r) /\ rreq[r].peer = NULL

(* Requests of one envelope wait in program order: the unexpected ones       *)
(* before those still on the connection.                                     *)
WaitingInOrder ==
    /\ \A p \in Rank : \A s, t \in SReq : Ahead(p, s, t) /\ Match(s, t) => sreq[s].ord < sreq[t].ord
    /\ \A s, t \in SReq : Precedes(unexp, s, t) /\ Match(s, t) => sreq[s].ord < sreq[t].ord
    /\ \A p \in Rank : \A s, t \in SReq :
          On(unexp, s) /\ Flies(p, t) /\ Match(s, t) => sreq[s].ord < sreq[t].ord
    /\ \A r, x \in RReq : Precedes(posted, r, x) /\ Match(r, x) => rreq[r].ord < rreq[x].ord

(* Partners have the same envelope and the same number. *)
PairsAgree ==
    \A r \in RReq : rreq[r].peer # NULL =>
        /\ Known(rreq, r) /\ Known(sreq, rreq[r].peer)
        /\ Match(rreq[r].peer, r) /\ rreq[r].ord = sreq[rreq[r].peer].ord

ProgramOrderInv ==
    /\ Numbered(SReq, sreq) /\ Numbered(RReq, rreq)
    /\ Accounted /\ WaitingUnpaired /\ WaitingInOrder /\ PairsAgree

(* Removing the first match i of q from a list: order is kept, and what is   *)
(* left of the envelope came after i.                                        *)
LEMMA RemoveOrder ==
    ASSUME NEW S, NEW l \in Seq(S), NEW i \in 1..Len(l), NEW d, d = RemoveAt(l, i)
    PROVE  /\ d \in Seq(S)
           /\ \A x : On(d, x) => On(l, x)
           /\ \A x : On(l, x) => On(d, x) \/ x = l[i]
           /\ \A x, y : Precedes(d, x, y) => Precedes(l, x, y)
           /\ \A x : On(d, x) => Precedes(l, l[i], x) \/ \E j \in 1..(i - 1) : l[j] = x
<1>1. /\ d \in Seq(S) /\ Len(d) = Len(l) - 1
      /\ \A k \in 1..(Len(l) - 1) : d[k] = IF k < i THEN l[k] ELSE l[k + 1]
  BY RemoveAtFacts
<1>2. Len(l) \in Nat /\ i \in Nat
  OBVIOUS
<1>3. \A x : On(d, x) => On(l, x)
  BY <1>1, <1>2 DEF On
<1>4. ASSUME NEW x, On(l, x), x # l[i] PROVE On(d, x)
  <2>1. PICK k \in 1..Len(l) : l[k] = x
    BY <1>4 DEF On
  <2>2. CASE k < i
    <3>1. k \in 1..(Len(l) - 1) /\ d[k] = x
      BY <1>1, <1>2, <2>1, <2>2
    <3> QED
      BY <1>1, <3>1 DEF On
  <2>3. CASE k > i
    <3>1. k - 1 \in 1..(Len(l) - 1) /\ d[k - 1] = l[(k - 1) + 1]
      BY <1>1, <1>2, <2>3
    <3>2. (k - 1) + 1 = k
      BY <2>1
    <3> QED
      BY <1>1, <2>1, <3>1, <3>2 DEF On
  <2> QED
    BY <1>2, <1>4, <2>1, <2>2, <2>3
<1>5. ASSUME NEW x, NEW y, Precedes(d, x, y) PROVE Precedes(l, x, y)
  <2>1. PICK a \in 1..Len(d), b \in 1..Len(d) : a < b /\ d[a] = x /\ d[b] = y
    BY <1>5 DEF Precedes
  <2>2. \E j \in 1..Len(l) : l[j] = x /\ (j = a \/ (j = a + 1 /\ a >= i)) /\ (j = a => a < i)
    BY <1>1, <1>2, <2>1, SMTT(30)
  <2>3. \E j \in 1..Len(l) : l[j] = y /\ (j = b \/ (j = b + 1 /\ b >= i)) /\ (j = b => b < i)
    BY <1>1, <1>2, <2>1
  <2> QED
    BY <1>2, <2>1, <2>2, <2>3 DEF Precedes
<1>6. ASSUME NEW x, On(d, x) PROVE Precedes(l, l[i], x) \/ \E j \in 1..(i - 1) : l[j] = x
  <2>1. PICK k \in 1..Len(d) : d[k] = x
    BY <1>6 DEF On
  <2>2. CASE k < i
    BY <1>1, <1>2, <2>1, <2>2
  <2>3. CASE ~(k < i)
    <3>1. k + 1 \in 1..Len(l) /\ i < k + 1 /\ l[k + 1] = x
      BY <1>1, <1>2, <2>1, <2>3
    <3> QED
      BY <3>1 DEF Precedes
  <2> QED
    BY <2>2, <2>3
<1> QED
  BY <1>1, <1>3, <1>4, <1>5, <1>6

(* Appending to a list. *)
LEMMA AppendOrder ==
    ASSUME NEW S, NEW l \in Seq(S), NEW e \in S
    PROVE  /\ Append(l, e) \in Seq(S)
           /\ \A x : On(Append(l, e), x) => On(l, x) \/ x = e
           /\ \A x : On(l, x) => On(Append(l, e), x)
           /\ On(Append(l, e), e)
           /\ \A x, y : Precedes(Append(l, e), x, y) => Precedes(l, x, y) \/ (On(l, x) /\ y = e)
<1> DEFINE d == Append(l, e)
<1>1. d \in Seq(S) /\ Len(d) = Len(l) + 1 /\ d[Len(l) + 1] = e
      /\ \A k \in 1..Len(l) : d[k] = l[k]
  OBVIOUS
<1>2. Len(l) \in Nat
  OBVIOUS
<1> HIDE DEF d
<1>3. \A x : (On(d, x) => On(l, x) \/ x = e) /\ (On(l, x) => On(d, x))
  BY <1>1, <1>2 DEF On
<1>4. On(d, e)
  BY <1>1, <1>2 DEF On
<1>5. \A x, y : Precedes(d, x, y) => Precedes(l, x, y) \/ (On(l, x) /\ y = e)
  BY <1>1, <1>2 DEF On, Precedes
<1> QED
  BY <1>1, <1>3, <1>4, <1>5, Zenon DEF d

(* The numbering depends on what is initialised only. *)
LEMMA NumberedKept ==
    ASSUME NEW S, NEW tbl, NEW new, Numbered(S, tbl),
           \A x \in S : /\ Known(new, x) <=> Known(tbl, x)
                        /\ new[x].ord = tbl[x].ord
    PROVE  Numbered(S, new)
<1>1. ASSUME NEW q PROVE Earlier(q, S, new) = Earlier(q, S, tbl)
  <2>1. {x \in S : new[x].st # "none" /\ Match(x, q)} = {x \in S : tbl[x].st # "none" /\ Match(x, q)}
    BY DEF Known
  <2> QED
    BY <2>1, Zenon DEF Earlier
<1> QED
  BY <1>1, ZenonT(40) DEF Numbered

(* To match is to have equal envelopes. *)
LEMMA MatchEquivalence ==
    ASSUME NEW x, NEW y
    PROVE  /\ Match(x, x)
           /\ Match(x, y) => Match(y, x)
           /\ \A z : Match(x, y) /\ Match(y, z) => Match(x, z)
  BY DEF Match

(* The next request of an envelope takes the next number. *)
LEMMA NumberedGrows ==
    ASSUME NEW S, IsFiniteSet(S), NEW tbl, NEW new, NEW e \in S, Numbered(S, tbl),
           ~Known(tbl, e), Known(new, e), new[e].ord = Earlier(e, S, tbl),
           \A x \in S : x # e => new[x] = tbl[x],
           \A x \in S : tbl[x].ord \in Nat
    PROVE  Numbered(S, new)
<1> DEFINE Old(q) == {x \in S : tbl[x].st # "none" /\ Match(x, q)}
           Now(q) == {x \in S : new[x].st # "none" /\ Match(x, q)}
<1>1. \A q : Earlier(q, S, tbl) = Cardinality(Old(q)) /\ Earlier(q, S, new) = Cardinality(Now(q))
  BY DEF Earlier
<1>2. \A q : IsFiniteSet(Old(q)) /\ Cardinality(Old(q)) \in Nat /\ e \notin Old(q)
  <2>1. ASSUME NEW q PROVE IsFiniteSet(Old(q)) /\ Cardinality(Old(q)) \in Nat
    BY FS_Subset, FS_CardinalityType
  <2> QED
    BY <2>1 DEF Known
<1>3. \A q : ~Match(e, q) => Now(q) = Old(q)
  BY DEF Known
<1>4. \A q : Match(e, q) => Now(q) = Old(q) \cup {e}
  BY DEF Known
<1>5. \A q : Match(e, q) => Cardinality(Now(q)) = Cardinality(Old(q)) + 1
  BY <1>2, <1>4, FS_AddElement
<1>6. \A q : Match(e, q) => Old(q) = Old(e)
  BY MatchEquivalence
<1> HIDE DEF Old, Now
<1> DEFINE n == Cardinality(Old(e))
<1>7. n \in Nat /\ new[e].ord = n
  BY <1>1, <1>2
<1>8. \A q : Match(e, q) => Earlier(q, S, tbl) = n /\ Earlier(q, S, new) = n + 1
  BY <1>1, <1>5, <1>6
<1>9. \A q : ~Match(e, q) => Earlier(q, S, new) = Earlier(q, S, tbl)
  BY <1>1, <1>3
<1>10. \A q : Earlier(q, S, tbl) \in Nat
  BY <1>1, <1>2
<1> HIDE DEF n
<1>11. ASSUME NEW x \in S, Known(new, x) PROVE new[x].ord < Earlier(x, S, new)
  <2>1. CASE x = e
    BY <1>7, <1>8, <2>1, MatchEquivalence
  <2>2. CASE x # e
    <3>1. Known(tbl, x) /\ new[x].ord = tbl[x].ord /\ tbl[x].ord < Earlier(x, S, tbl) /\ tbl[x].ord \in Nat
      BY <1>11, <2>2 DEF Known, Numbered
    <3> QED
      BY <1>7, <1>8, <1>9, <1>10, <3>1
  <2> QED
    BY <2>1, <2>2
<1>12. ASSUME NEW x \in S, Known(new, x), Match(x, e), x # e PROVE new[x].ord # n
  <2>1. Known(tbl, x) /\ new[x].ord = tbl[x].ord /\ tbl[x].ord < Earlier(x, S, tbl) /\ tbl[x].ord \in Nat
    BY <1>12 DEF Known, Numbered
  <2>2. Earlier(x, S, tbl) = n
    BY <1>8, <1>12, MatchEquivalence
  <2> QED
    BY <1>7, <2>1, <2>2
<1>13. ASSUME NEW x \in S, NEW y \in S, Known(new, x), Known(new, y), Match(x, y), new[x].ord = new[y].ord
       PROVE  x = y
  <2>1. CASE x # e /\ y # e
    BY <1>13, <2>1 DEF Known, Numbered
  <2>2. CASE x = e
    BY <1>7, <1>12, <1>13, <2>2, MatchEquivalence
  <2>3. CASE y = e
    BY <1>7, <1>12, <1>13, <2>3, MatchEquivalence
  <2> QED
    BY <2>1, <2>2, <2>3
<1>14. ASSUME NEW x \in S, NEW k \in 0..(Earlier(x, S, new) - 1)
       PROVE  \E y \in S : Known(new, y) /\ Match(y, x) /\ new[y].ord = k
  <2>1. ASSUME k \in 0..(Earlier(x, S, tbl) - 1)
        PROVE  \E y \in S : Known(new, y) /\ Match(y, x) /\ new[y].ord = k
    <3>1. PICK y \in S : Known(tbl, y) /\ Match(y, x) /\ tbl[y].ord = k
      BY <2>1 DEF Numbered
    <3>2. y # e
      BY <3>1
    <3> QED
      BY <3>1, <3>2 DEF Known
  <2>2. CASE ~Match(e, x)
    BY <1>9, <2>1, <2>2
  <2>3. CASE Match(e, x)
    <3>1. k = n \/ k \in 0..(Earlier(x, S, tbl) - 1)
      BY <1>7, <1>8, <2>3
    <3> QED
      BY <1>7, <2>1, <2>3, <3>1
  <2> QED
    BY <2>2, <2>3
<1> QED
  BY <1>11, <1>13, <1>14 DEF Numbered

-----------------------------------------------------------------------------
(* The announcements on the connections *)

(* Only data messages come or go. *)
SameInits ==
    \A p \in Rank : \A x \in SReq :
        /\ Flies(p, x)' <=> Flies(p, x)
        /\ \A y \in SReq : Ahead(p, x, y)' => Ahead(p, x, y)

(* Data behind them leaves the SEND_INIT messages as they are. *)
LEMMA DataSentSameInits ==
    ASSUME TypeOK, TypeOK', OnlyDataSent
    PROVE  SameInits
<1>1. ASSUME NEW p \in Rank, NEW k \in 1..Len(toR'[p]), NEW x \in SReq, InitAt(p, k, x)'
      PROVE  k \in 1..Len(toR[p]) /\ InitAt(p, k, x)
  <2>1. toR[p] \in Seq(ToRMessage) /\ toR'[p] \in Seq(ToRMessage)
    BY DEF TypeOK
  <2>2. k \in 1..Len(toR[p])
    BY <1>1, <2>1 DEF OnlyDataSent, InitAt
  <2> QED
    BY <1>1, <2>2 DEF OnlyDataSent, InitAt
<1>2. ASSUME NEW p \in Rank, NEW k \in 1..Len(toR[p]), NEW x \in SReq, InitAt(p, k, x)
      PROVE  k \in 1..Len(toR'[p]) /\ InitAt(p, k, x)'
  <2>1. toR[p] \in Seq(ToRMessage) /\ toR'[p] \in Seq(ToRMessage)
    BY DEF TypeOK
  <2>2. k \in 1..Len(toR'[p])
    BY <1>2, <2>1 DEF OnlyDataSent
  <2> QED
    BY <1>2, <2>2 DEF OnlyDataSent, InitAt
<1>3. ASSUME NEW p \in Rank, NEW x \in SReq PROVE Flies(p, x)' <=> Flies(p, x)
  BY <1>1, <1>2 DEF Flies
<1>4. ASSUME NEW p \in Rank, NEW x \in SReq, NEW y \in SReq, Ahead(p, x, y)'
      PROVE  Ahead(p, x, y)
  <2>1. PICK j \in 1..Len(toR'[p]), k \in 1..Len(toR'[p]) :
           j < k /\ InitAt(p, j, x)' /\ InitAt(p, k, y)'
    BY <1>4 DEF Ahead
  <2> QED
    BY <1>1, <2>1 DEF Ahead
<1> QED
  BY <1>3, <1>4 DEF SameInits

(* The first message of a connection is taken. *)
LEMMA HeadTaken ==
    ASSUME TypeOK, NEW p0 \in Rank, toR[p0] # <<>>, toR' = [toR EXCEPT ![p0] = Tail(toR[p0])]
    PROVE  /\ toR'[p0] \in Seq(ToRMessage)
           /\ \A p \in Rank : p # p0 => toR'[p] = toR[p]
           /\ Len(toR'[p0]) = Len(toR[p0]) - 1 /\ Len(toR[p0]) \in Nat /\ Len(toR[p0]) >= 1
           /\ Head(toR[p0]) = toR[p0][1]
           /\ \A k \in 1..Len(toR'[p0]) :
                 k + 1 \in 1..Len(toR[p0]) /\ toR'[p0][k] = toR[p0][k + 1]
           /\ \A k \in 2..Len(toR[p0]) :
                 k - 1 \in 1..Len(toR'[p0]) /\ toR'[p0][k - 1] = toR[p0][k]
<1>1. toR[p0] \in Seq(ToRMessage) /\ toR \in [Rank -> Seq(ToRMessage)]
  BY DEF TypeOK
<1>2. PICK l \in Seq(ToRMessage) : l = toR[p0]
  BY <1>1
<1>3. PICK d \in Seq(ToRMessage) : d = Tail(l)
  BY <1>2, HeadTailProperties
<1>4. toR'[p0] = d /\ \A p \in Rank : p # p0 => toR'[p] = toR[p]
  BY <1>1, <1>2, <1>3
<1>5. Len(d) = Len(l) - 1 /\ Len(l) \in Nat /\ Len(l) >= 1 /\ Head(l) = l[1]
      /\ \A k \in 1..Len(d) : d[k] = l[k + 1]
  BY <1>2, <1>3
<1>6. \A k \in 1..Len(d) : k + 1 \in 1..Len(l)
  BY <1>5
<1>7. ASSUME NEW k \in 2..Len(l) PROVE k - 1 \in 1..Len(d) /\ d[k - 1] = l[k]
  <2>1. k - 1 \in 1..Len(d) /\ (k - 1) + 1 = k
    BY <1>5
  <2> QED
    BY <1>5, <2>1
<1> QED
  BY <1>2, <1>4, <1>5, <1>6, <1>7

(* So does taking data from the front. *)
LEMMA DataTakenSameInits ==
    ASSUME TypeOK, NEW p0 \in Rank, toR[p0] # <<>>, Head(toR[p0]).type = "DATA",
           toR' = [toR EXCEPT ![p0] = Tail(toR[p0])]
    PROVE  SameInits
<1>1. /\ \A p \in Rank : p # p0 => toR'[p] = toR[p]
      /\ Len(toR'[p0]) = Len(toR[p0]) - 1 /\ Len(toR[p0]) \in Nat /\ Len(toR[p0]) >= 1
      /\ toR[p0][1].type = "DATA"
      /\ \A k \in 1..Len(toR'[p0]) :
            k + 1 \in 1..Len(toR[p0]) /\ toR'[p0][k] = toR[p0][k + 1]
      /\ \A k \in 2..Len(toR[p0]) :
            k - 1 \in 1..Len(toR'[p0]) /\ toR'[p0][k - 1] = toR[p0][k]
  BY HeadTaken
<1>2. ASSUME NEW k \in 1..Len(toR'[p0]), NEW x \in SReq, InitAt(p0, k, x)'
      PROVE  k + 1 \in 1..Len(toR[p0]) /\ InitAt(p0, k + 1, x)
  BY <1>1, <1>2 DEF InitAt
<1>3. ASSUME NEW k \in 1..Len(toR[p0]), NEW x \in SReq, InitAt(p0, k, x)
      PROVE  k - 1 \in 1..Len(toR'[p0]) /\ InitAt(p0, k - 1, x)'
  <2>1. k # 1
    BY <1>1, <1>3 DEF InitAt
  <2>2. k \in 2..Len(toR[p0])
    BY <1>1, <2>1
  <2> QED
    BY <1>1, <1>3, <2>2 DEF InitAt
<1>4. ASSUME NEW x \in SReq PROVE Flies(p0, x)' <=> Flies(p0, x)
  BY <1>2, <1>3 DEF Flies
<1>5. ASSUME NEW x \in SReq, NEW y \in SReq, Ahead(p0, x, y)' PROVE Ahead(p0, x, y)
  <2>1. PICK j \in 1..Len(toR'[p0]), k \in 1..Len(toR'[p0]) :
           j < k /\ InitAt(p0, j, x)' /\ InitAt(p0, k, y)'
    BY <1>5 DEF Ahead
  <2>2. j + 1 < k + 1
    BY <2>1
  <2> QED
    BY <1>2, <2>1, <2>2 DEF Ahead
<1>6. ASSUME NEW p \in Rank, p # p0, NEW x \in SReq
      PROVE  (Flies(p, x)' <=> Flies(p, x)) /\ \A y \in SReq : Ahead(p, x, y)' => Ahead(p, x, y)
  BY <1>1, <1>6 DEF Flies, Ahead, InitAt
<1> QED
  BY <1>4, <1>5, <1>6 DEF SameInits

(* A SEND_INIT is taken: those left on the connection came after it. *)
LEMMA InitTaken ==
    ASSUME TypeOK, NEW p0 \in Rank, toR[p0] # <<>>, Head(toR[p0]).type = "SEND_INIT",
           NEW s \in SReq, s = Head(toR[p0]).s,
           toR' = [toR EXCEPT ![p0] = Tail(toR[p0])]
    PROVE  /\ Flies(p0, s)
           /\ \A p \in Rank : \A x \in SReq :
                 /\ Flies(p, x)' => Flies(p, x) /\ (p = p0 => Ahead(p, s, x))
                 /\ Flies(p, x) => Flies(p, x)' \/ x = s
                 /\ \A y \in SReq : Ahead(p, x, y)' => Ahead(p, x, y)
<1>1. /\ \A p \in Rank : p # p0 => toR'[p] = toR[p]
      /\ Len(toR'[p0]) = Len(toR[p0]) - 1 /\ Len(toR[p0]) \in Nat /\ Len(toR[p0]) >= 1
      /\ toR[p0][1].type = "SEND_INIT" /\ toR[p0][1].s = s
      /\ \A k \in 1..Len(toR'[p0]) :
            k + 1 \in 1..Len(toR[p0]) /\ toR'[p0][k] = toR[p0][k + 1]
      /\ \A k \in 2..Len(toR[p0]) :
            k - 1 \in 1..Len(toR'[p0]) /\ toR'[p0][k - 1] = toR[p0][k]
  BY HeadTaken
<1>0. 1 \in 1..Len(toR[p0]) /\ InitAt(p0, 1, s)
  BY <1>1 DEF InitAt
<1>2. ASSUME NEW k \in 1..Len(toR'[p0]), NEW x \in SReq, InitAt(p0, k, x)'
      PROVE  k + 1 \in 1..Len(toR[p0]) /\ InitAt(p0, k + 1, x)
  BY <1>1, <1>2 DEF InitAt
<1>3. ASSUME NEW k \in 1..Len(toR[p0]), NEW x \in SReq, InitAt(p0, k, x), x # s
      PROVE  k - 1 \in 1..Len(toR'[p0]) /\ InitAt(p0, k - 1, x)'
  <2>1. k # 1
    BY <1>1, <1>3 DEF InitAt
  <2>2. k \in 2..Len(toR[p0])
    BY <1>1, <2>1
  <2> QED
    BY <1>1, <1>3, <2>2 DEF InitAt
<1>4. ASSUME NEW x \in SReq, Flies(p0, x)' PROVE Flies(p0, x) /\ Ahead(p0, s, x)
  <2>1. PICK k \in 1..Len(toR'[p0]) : InitAt(p0, k, x)'
    BY <1>4 DEF Flies
  <2>2. 1 < k + 1
    BY <2>1
  <2> QED
    BY <1>0, <1>2, <2>1, <2>2 DEF Flies, Ahead
<1>5. ASSUME NEW x \in SReq, Flies(p0, x), x # s PROVE Flies(p0, x)'
  BY <1>3, <1>5 DEF Flies
<1>6. ASSUME NEW x \in SReq, NEW y \in SReq, Ahead(p0, x, y)' PROVE Ahead(p0, x, y)
  <2>1. PICK j \in 1..Len(toR'[p0]), k \in 1..Len(toR'[p0]) :
           j < k /\ InitAt(p0, j, x)' /\ InitAt(p0, k, y)'
    BY <1>6 DEF Ahead
  <2>2. j + 1 < k + 1
    BY <2>1
  <2> QED
    BY <1>2, <2>1, <2>2 DEF Ahead
<1>7. ASSUME NEW p \in Rank, p # p0, NEW x \in SReq
      PROVE  /\ Flies(p, x)' => Flies(p, x)
             /\ Flies(p, x) => Flies(p, x)'
             /\ \A y \in SReq : Ahead(p, x, y)' => Ahead(p, x, y)
  BY <1>1, <1>7 DEF Flies, Ahead, InitAt
<1>8. Flies(p0, s)
  BY <1>0 DEF Flies
<1> QED
  BY <1>4, <1>5, <1>6, <1>7, <1>8

(* MPID_Psend_init announces the request behind everything on its connection. *)
LEMMA InitSent ==
    ASSUME TypeOK, NEW s \in SReq, NEW p0 \in Rank, NEW m \in ToRMessage,
           m.type = "SEND_INIT", m.s = s,
           toR' = [toR EXCEPT ![p0] = Append(toR[p0], m)]
    PROVE  /\ Flies(p0, s)'
           /\ \A p \in Rank : \A x \in SReq :
                 /\ Flies(p, x) => Flies(p, x)'
                 /\ Flies(p, x)' => Flies(p, x) \/ (p = p0 /\ x = s)
                 /\ \A y \in SReq : Ahead(p, x, y)' => Ahead(p, x, y) \/ (Flies(p, x) /\ y = s)
<1>1. toR[p0] \in Seq(ToRMessage) /\ toR \in [Rank -> Seq(ToRMessage)]
  BY DEF TypeOK
<1>2. PICK l \in Seq(ToRMessage) : l = toR[p0]
  BY <1>1
<1>3. PICK d \in Seq(ToRMessage) : d = Append(l, m)
  BY <1>1, <1>2
<1>4. toR'[p0] = d /\ \A p \in Rank : p # p0 => toR'[p] = toR[p]
  BY <1>1, <1>2, <1>3
<1>5. Len(d) = Len(l) + 1 /\ Len(l) \in Nat /\ d[Len(l) + 1] = m /\ \A k \in 1..Len(l) : d[k] = l[k]
  BY <1>3
<1>6. \A k \in 1..Len(toR[p0]) : k \in 1..Len(toR'[p0]) /\ \A x : InitAt(p0, k, x) => InitAt(p0, k, x)'
  BY <1>2, <1>4, <1>5 DEF InitAt
<1>7. ASSUME NEW k \in 1..Len(toR'[p0]), NEW x, InitAt(p0, k, x)'
      PROVE  \/ k \in 1..Len(toR[p0]) /\ InitAt(p0, k, x)
             \/ k = Len(toR[p0]) + 1 /\ x = s
  BY <1>2, <1>4, <1>5, <1>7 DEF InitAt
<1>8. PICK n \in Nat : n = Len(l) + 1
  BY <1>5
<1>9. Flies(p0, s)'
  <2>1. n \in 1..Len(toR'[p0]) /\ InitAt(p0, n, s)'
    BY <1>2, <1>4, <1>5, <1>8 DEF InitAt
  <2> QED
    BY <2>1 DEF Flies
<1>10. ASSUME NEW x \in SReq
       PROVE  /\ Flies(p0, x) => Flies(p0, x)'
              /\ Flies(p0, x)' => Flies(p0, x) \/ x = s
  BY <1>6, <1>7 DEF Flies
<1>11. ASSUME NEW x \in SReq, NEW y \in SReq, Ahead(p0, x, y)'
       PROVE  Ahead(p0, x, y) \/ (Flies(p0, x) /\ y = s)
  <2>1. PICK j \in 1..Len(toR'[p0]), k \in 1..Len(toR'[p0]) :
           j < k /\ InitAt(p0, j, x)' /\ InitAt(p0, k, y)'
    BY <1>11 DEF Ahead
  <2>2. Len(toR[p0]) \in Nat /\ Len(toR'[p0]) = Len(toR[p0]) + 1
    BY <1>2, <1>4, <1>5
  <2>3. j \in 1..Len(toR[p0]) /\ InitAt(p0, j, x)
    BY <1>7, <2>1, <2>2
  <2>4. (k \in 1..Len(toR[p0]) /\ InitAt(p0, k, y)) \/ y = s
    BY <1>7, <2>1
  <2> QED
    BY <2>1, <2>3, <2>4 DEF Ahead, Flies
<1>12. ASSUME NEW p \in Rank, p # p0, NEW x \in SReq
       PROVE  /\ Flies(p, x)' => Flies(p, x)
              /\ Flies(p, x) => Flies(p, x)'
              /\ \A y \in SReq : Ahead(p, x, y)' => Ahead(p, x, y)
  BY <1>4, <1>12 DEF Flies, Ahead, InitAt
<1> QED
  BY <1>9, <1>10, <1>11, <1>12

-----------------------------------------------------------------------------
(* The steps *)

(* The numbers and peers of requests. *)
LEMMA OrdNat ==
    ASSUME TypeOK
    PROVE  /\ \A s \in SReq : sreq[s].ord \in Nat /\ s # NULL
           /\ \A r \in RReq : rreq[r].ord \in Nat /\ rreq[r].peer \in SReq \cup {NULL}
  BY ReqAssumption DEF TypeOK, SendRequest, RecvRequest, Req

(* Requests of an envelope have smaller numbers than the next one will get. *)
LEMMA OlderBelow ==
    ASSUME NEW S, NEW tbl, NEW e, Numbered(S, tbl), NEW x \in S, Known(tbl, x), Match(x, e)
    PROVE  tbl[x].ord < Earlier(e, S, tbl)
<1>1. \A y : Match(y, x) <=> Match(y, e)
  BY DEF Match
<1>2. {y \in S : tbl[y].st # "none" /\ Match(y, x)} = {y \in S : tbl[y].st # "none" /\ Match(y, e)}
  BY <1>1
<1>3. Earlier(x, S, tbl) = Earlier(e, S, tbl)
  BY <1>2, Zenon DEF Earlier
<1> QED
  BY <1>3, Zenon DEF Numbered

(* Neither initialisation, nor pairing, nor the announcements change. *)
SameTables ==
    /\ \A s \in SReq : (Known(sreq, s)' <=> Known(sreq, s)) /\ sreq'[s].ord = sreq[s].ord
    /\ \A r \in RReq : /\ Known(rreq, r)' <=> Known(rreq, r)
                       /\ rreq'[r].ord = rreq[r].ord /\ rreq'[r].peer = rreq[r].peer

(* Steps that leave requests, lists and SEND_INIT messages alone keep the order. *)
LEMMA OrderFrame ==
    ASSUME TypeOK, ProgramOrderInv, SameInits, SameTables, UNCHANGED <<posted, unexp>>
    PROVE  ProgramOrderInv'
<1>0. RankOf \in [Req -> Rank] /\ \A s \in SReq : RankOf[s] \in Rank
  BY ArgAssumption DEF Req
<1>1. Numbered(SReq, sreq)'
  BY NumberedKept DEF SameTables, ProgramOrderInv, Known
<1>2. Numbered(RReq, rreq)'
  BY NumberedKept DEF SameTables, ProgramOrderInv, Known
<1>3. ASSUME NEW s \in SReq PROVE Paired(s)' <=> Paired(s)
  BY DEF SameTables, Paired
<1>4. Accounted'
  <2>1. \A s \in SReq : Known(sreq, s)' => Flies(RankOf[s], s)' \/ On(unexp, s)' \/ Paired(s)'
    BY <1>0, <1>3 DEF SameTables, SameInits, ProgramOrderInv, Accounted
  <2>2. \A r \in RReq : Known(rreq, r)' => On(posted, r)' \/ rreq'[r].peer # NULL
    BY DEF SameTables, ProgramOrderInv, Accounted
  <2> QED
    BY <2>1, <2>2 DEF Accounted
<1>5. WaitingUnpaired'
  <2>1. \A p \in Rank : \A s \in SReq : Flies(p, s)' => p = RankOf[s] /\ Known(sreq, s)' /\ ~Paired(s)'
    BY <1>3 DEF SameTables, SameInits, ProgramOrderInv, WaitingUnpaired
  <2>2. \A s \in SReq : On(unexp, s)' => Known(sreq, s)' /\ ~Paired(s)'
    BY <1>3 DEF SameTables, ProgramOrderInv, WaitingUnpaired
  <2>3. \A r \in RReq : On(posted, r)' => Known(rreq, r)' /\ rreq'[r].peer = NULL
    BY DEF SameTables, ProgramOrderInv, WaitingUnpaired
  <2> QED
    BY <2>1, <2>2, <2>3 DEF WaitingUnpaired
<1>6. WaitingInOrder'
  <2>1. \A p \in Rank : \A s, t \in SReq : Ahead(p, s, t)' /\ Match(s, t) => sreq'[s].ord < sreq'[t].ord
    BY DEF SameTables, SameInits, ProgramOrderInv, WaitingInOrder
  <2>2. \A s, t \in SReq : Precedes(unexp, s, t)' /\ Match(s, t) => sreq'[s].ord < sreq'[t].ord
    BY DEF SameTables, ProgramOrderInv, WaitingInOrder
  <2>3. \A p \in Rank : \A s, t \in SReq :
           On(unexp, s)' /\ Flies(p, t)' /\ Match(s, t) => sreq'[s].ord < sreq'[t].ord
    BY DEF SameTables, SameInits, ProgramOrderInv, WaitingInOrder
  <2>4. \A r, x \in RReq : Precedes(posted, r, x)' /\ Match(r, x) => rreq'[r].ord < rreq'[x].ord
    BY DEF SameTables, ProgramOrderInv, WaitingInOrder
  <2> QED
    BY <2>1, <2>2, <2>3, <2>4 DEF WaitingInOrder
<1>7. PairsAgree'
  <2>1. \A r \in RReq : rreq[r].peer # NULL => rreq[r].peer \in SReq
    BY OrdNat
  <2> QED
    BY <2>1 DEF SameTables, ProgramOrderInv, PairsAgree
<1> QED
  BY <1>1, <1>2, <1>4, <1>5, <1>6, <1>7 DEF ProgramOrderInv

(* MPI_Psend_init gives the next number and sends at the end of the channel. *)
LEMMA PsendInitOrder ==
    ASSUME TypeOK, ProgramOrderInv, NEW s \in SReq, Psend_init(s)
    PROVE  ProgramOrderInv'
<1> DEFINE m == [type |-> "SEND_INIT", s |-> s, round |-> 0, from |-> 0]
<1>0. RankOf[s] \in Rank /\ \A x \in SReq : RankOf[x] \in Rank
  BY ArgAssumption DEF Req
<1>1. m \in ToRMessage /\ m.type = "SEND_INIT" /\ m.s = s
  BY DEF ToRMessage
<1>2. toR' = [toR EXCEPT ![RankOf[s]] = Append(toR[RankOf[s]], m)]
  BY DEF Psend_init
<1> HIDE DEF m
<1>3. /\ Flies(RankOf[s], s)'
      /\ \A p \in Rank : \A x \in SReq :
            /\ Flies(p, x) => Flies(p, x)'
            /\ Flies(p, x)' => Flies(p, x) \/ (p = RankOf[s] /\ x = s)
            /\ \A y \in SReq : Ahead(p, x, y)' => Ahead(p, x, y) \/ (Flies(p, x) /\ y = s)
  BY <1>0, <1>1, <1>2, InitSent
<1>4. UNCHANGED <<rreq, posted, unexp>> /\ ~Known(sreq, s)
  BY DEF Psend_init, Known
<1>5. /\ Known(sreq', s) /\ sreq'[s].ord = Earlier(s, SReq, sreq)
      /\ \A x \in SReq : x # s => sreq'[x] = sreq[x]
  BY DEF Psend_init, InitSend, Known, TypeOK
<1>6. Numbered(SReq, sreq')
  BY <1>4, <1>5, NumberedGrows, OrdNat, ReqAssumption DEF ProgramOrderInv
<1>7. ~Paired(s)
  BY <1>4, OrdNat DEF Paired, ProgramOrderInv, PairsAgree
<1>8. \A x \in SReq : (Paired(x)' <=> Paired(x)) /\ (Known(sreq, x) => Known(sreq, x)')
                      /\ (Known(sreq, x)' => Known(sreq, x) \/ x = s)
  BY <1>4, <1>5 DEF Paired, Known
<1>9. Accounted'
  <2>1. ASSUME NEW x \in SReq, Known(sreq, x)'
        PROVE  Flies(RankOf[x], x)' \/ On(unexp, x)' \/ Paired(x)'
    BY <1>0, <1>3, <1>4, <1>8, <2>1 DEF ProgramOrderInv, Accounted
  <2>2. \A r \in RReq : Known(rreq, r)' => On(posted, r)' \/ rreq'[r].peer # NULL
    BY <1>4 DEF ProgramOrderInv, Accounted, Known
  <2> QED
    BY <2>1, <2>2 DEF Accounted
<1>10. WaitingUnpaired'
  <2>1. \A p \in Rank : \A x \in SReq : Flies(p, x)' => p = RankOf[x] /\ Known(sreq, x)' /\ ~Paired(x)'
    BY <1>3, <1>5, <1>7, <1>8 DEF ProgramOrderInv, WaitingUnpaired, Known
  <2>2. \A x \in SReq : On(unexp, x)' => Known(sreq, x)' /\ ~Paired(x)'
    BY <1>4, <1>8 DEF ProgramOrderInv, WaitingUnpaired
  <2>3. \A r \in RReq : On(posted, r)' => Known(rreq, r)' /\ rreq'[r].peer = NULL
    BY <1>4 DEF ProgramOrderInv, WaitingUnpaired, Known
  <2> QED
    BY <2>1, <2>2, <2>3 DEF WaitingUnpaired
<1>11. ASSUME NEW x \in SReq, Known(sreq, x), Match(x, s) PROVE sreq'[x].ord < sreq'[s].ord
  <2>1. sreq[x].ord < Earlier(s, SReq, sreq) /\ x # s
    BY <1>4, <1>11, OlderBelow DEF ProgramOrderInv
  <2> QED
    BY <1>5, <2>1
<1>12. WaitingInOrder'
  <2>1. ASSUME NEW p \in Rank, NEW x \in SReq, NEW y \in SReq, Ahead(p, x, y)', Match(x, y)
        PROVE  sreq'[x].ord < sreq'[y].ord
    <3>1. CASE Flies(p, x) /\ y = s
      <4>1. Known(sreq, x)
        BY <3>1 DEF ProgramOrderInv, WaitingUnpaired
      <4> QED
        BY <1>11, <2>1, <3>1, <4>1
    <3>2. CASE Ahead(p, x, y)
      <4>1. Flies(p, x) /\ Flies(p, y)
        BY <3>2 DEF Ahead, Flies
      <4>2. Known(sreq, x) /\ Known(sreq, y)
        BY <4>1 DEF ProgramOrderInv, WaitingUnpaired
      <4>3. sreq[x].ord < sreq[y].ord
        BY <2>1, <3>2 DEF ProgramOrderInv, WaitingInOrder
      <4> QED
        BY <1>4, <1>5, <4>2, <4>3
    <3> QED
      BY <1>3, <2>1, <3>1, <3>2
  <2>2. ASSUME NEW x \in SReq, NEW y \in SReq, Precedes(unexp, x, y)', Match(x, y)
        PROVE  sreq'[x].ord < sreq'[y].ord
    <3>1. Precedes(unexp, x, y) /\ On(unexp, x) /\ On(unexp, y)
      BY <1>4, <2>2 DEF Precedes, On
    <3>2. x # s /\ y # s
      BY <1>4, <3>1 DEF ProgramOrderInv, WaitingUnpaired
    <3>3. sreq[x].ord < sreq[y].ord
      BY <2>2, <3>1 DEF ProgramOrderInv, WaitingInOrder
    <3> QED
      BY <1>5, <3>2, <3>3
  <2>3. ASSUME NEW p \in Rank, NEW x \in SReq, NEW y \in SReq,
               On(unexp, x)', Flies(p, y)', Match(x, y)
        PROVE  sreq'[x].ord < sreq'[y].ord
    <3>1. On(unexp, x) /\ Known(sreq, x) /\ x # s
      BY <1>4, <2>3 DEF ProgramOrderInv, WaitingUnpaired
    <3>2. CASE y = s
      BY <1>11, <2>3, <3>1, <3>2
    <3>3. CASE y # s
      <4>1. Flies(p, y)
        BY <1>3, <2>3, <3>3
      <4>2. sreq[x].ord < sreq[y].ord
        BY <2>3, <3>1, <4>1 DEF ProgramOrderInv, WaitingInOrder
      <4> QED
        BY <1>5, <3>1, <3>3, <4>2
    <3> QED
      BY <3>2, <3>3
  <2>4. \A r, x \in RReq : Precedes(posted, r, x)' /\ Match(r, x) => rreq'[r].ord < rreq'[x].ord
    BY <1>4 DEF ProgramOrderInv, WaitingInOrder
  <2> QED
    BY <2>1, <2>2, <2>3, <2>4 DEF WaitingInOrder
<1>13. PairsAgree'
  <2>1. ASSUME NEW r \in RReq, rreq[r].peer # NULL
        PROVE  /\ Known(rreq, r)' /\ Known(sreq', rreq[r].peer)
               /\ Match(rreq[r].peer, r) /\ rreq[r].ord = sreq'[rreq[r].peer].ord
    <3>1. rreq[r].peer \in SReq /\ Known(sreq, rreq[r].peer) /\ Known(rreq, r)
          /\ Match(rreq[r].peer, r) /\ rreq[r].ord = sreq[rreq[r].peer].ord
      BY <2>1, OrdNat DEF ProgramOrderInv, PairsAgree
    <3>2. rreq[r].peer # s /\ sreq'[rreq[r].peer] = sreq[rreq[r].peer]
      BY <1>4, <1>5, <3>1
    <3> QED
      BY <1>4, <3>1, <3>2 DEF Known
  <2> QED
    BY <1>4, <2>1 DEF PairsAgree, Known
<1>14. Numbered(SReq, sreq)' /\ Numbered(RReq, rreq)'
  BY <1>4, <1>6 DEF ProgramOrderInv
<1> QED
  BY <1>9, <1>10, <1>12, <1>13, <1>14 DEF ProgramOrderInv

(* s and r become partners: both leave the places where they waited, and     *)
(* every older request of their envelope is paired already.                  *)
Joined(r, s) ==
    /\ rreq[r].peer = NULL /\ rreq'[r].peer = s /\ Known(rreq', r)
    /\ \A x \in RReq : x # r => rreq'[x] = rreq[x]
    /\ Match(s, r) /\ Known(sreq, s) /\ ~Paired(s)
    /\ \A y \in RReq : Known(rreq', y) /\ Match(y, r) /\ rreq'[y].ord < rreq'[r].ord
                          => rreq[y].peer # NULL
    /\ \A z \in SReq : Known(sreq, z) /\ Match(z, s) /\ sreq[z].ord < sreq[s].ord => Paired(z)

(* Then they carry the same number. *)
LEMMA JoinedAgree ==
    ASSUME TypeOK, ProgramOrderInv, NEW r \in RReq, NEW s \in SReq, Joined(r, s),
           Numbered(RReq, rreq'), rreq'[r].ord \in Nat
    PROVE  rreq'[r].ord = sreq[s].ord
<1>1. sreq[s].ord \in Nat /\ s # NULL
  BY OrdNat
<1>2. ASSUME sreq[s].ord < rreq'[r].ord PROVE FALSE
  <2>1. rreq'[r].ord < Earlier(r, RReq, rreq')
    BY DEF Joined, Numbered
  <2>2. Earlier(r, RReq, rreq') \in Nat
    BY EarlierNat, ReqAssumption
  <2>3. sreq[s].ord \in 0..(Earlier(r, RReq, rreq') - 1)
    BY <1>1, <1>2, <2>1, <2>2
  <2>4. PICK y \in RReq : Known(rreq', y) /\ Match(y, r) /\ rreq'[y].ord = sreq[s].ord
    BY <2>3 DEF Numbered
  <2>5. y # r /\ rreq'[y] = rreq[y] /\ rreq[y].peer # NULL
    BY <1>1, <1>2, <2>4 DEF Joined
  <2>6. /\ rreq[y].peer \in SReq /\ Known(sreq, rreq[y].peer)
        /\ Match(rreq[y].peer, y) /\ sreq[rreq[y].peer].ord = sreq[s].ord
    BY <2>4, <2>5, OrdNat DEF ProgramOrderInv, PairsAgree
  <2>7. Match(rreq[y].peer, s)
    BY <2>4, <2>6 DEF Joined, Match
  <2>8. rreq[y].peer = s
    BY <2>6, <2>7 DEF ProgramOrderInv, Numbered, Joined
  <2> QED
    BY <2>8 DEF Joined, Paired
<1>3. ASSUME rreq'[r].ord < sreq[s].ord PROVE FALSE
  <2>1. sreq[s].ord < Earlier(s, SReq, sreq)
    BY DEF Joined, ProgramOrderInv, Numbered
  <2>2. Earlier(s, SReq, sreq) \in Nat
    BY EarlierNat, ReqAssumption
  <2>3. rreq'[r].ord \in 0..(Earlier(s, SReq, sreq) - 1)
    BY <1>1, <1>3, <2>1, <2>2
  <2>4. PICK z \in SReq : Known(sreq, z) /\ Match(z, s) /\ sreq[z].ord = rreq'[r].ord
    BY <2>3 DEF ProgramOrderInv, Numbered
  <2>5. PICK y \in RReq : rreq[y].peer = z
    BY <1>3, <2>4 DEF Joined, Paired
  <2>6. z # NULL /\ y # r
    BY <2>5, OrdNat DEF Joined
  <2>7. Known(rreq, y) /\ Match(z, y) /\ rreq[y].ord = sreq[z].ord
    BY <2>5, <2>6 DEF ProgramOrderInv, PairsAgree
  <2>8. Known(rreq', y) /\ rreq'[y].ord = rreq'[r].ord /\ Match(y, r)
    BY <2>4, <2>6, <2>7 DEF Joined, Known, Match
  <2> QED
    BY <2>6, <2>8 DEF Joined, Numbered
<1> QED
  BY <1>1, <1>2, <1>3

(* What waits apart from s and r goes on waiting in the same order. *)
OthersWait(r, s) ==
    /\ \A p \in Rank : \A x \in SReq :
          /\ Flies(p, x)' => Flies(p, x) /\ x # s
          /\ Flies(p, x) => Flies(p, x)' \/ x = s
          /\ \A y \in SReq : Ahead(p, x, y)' => Ahead(p, x, y)
    /\ \A x \in SReq :
          /\ On(unexp, x)' => On(unexp, x) /\ x # s
          /\ On(unexp, x) => On(unexp, x)' \/ x = s
          /\ \A y \in SReq : Precedes(unexp, x, y)' => Precedes(unexp, x, y)
    /\ \A x \in RReq :
          /\ On(posted, x)' => On(posted, x) /\ x # r
          /\ On(posted, x) => On(posted, x)' \/ x = r
          /\ \A y \in RReq : Precedes(posted, x, y)' => Precedes(posted, x, y)

(* A pair of requests that are both the oldest unpaired ones of their envelope. *)
LEMMA JoinedOrder ==
    ASSUME TypeOK, ProgramOrderInv, NEW r \in RReq, NEW s \in SReq, Joined(r, s),
           OthersWait(r, s), sreq' = sreq, Numbered(RReq, rreq'), rreq'[r].ord \in Nat
    PROVE  ProgramOrderInv'
<1>0. \A x \in SReq : RankOf[x] \in Rank
  BY ArgAssumption DEF Req
<1>1. rreq'[r].ord = sreq[s].ord
  BY JoinedAgree
<1>2. \A x \in SReq : (Paired(x) => Paired(x)') /\ (Paired(x)' => Paired(x) \/ x = s)
  <2>1. \A x \in SReq : x # NULL
    BY OrdNat
  <2> QED
    BY <2>1 DEF Paired, Joined
<1>3. Paired(s)'
  BY DEF Paired, Joined
<1>4. \A x \in RReq : Known(rreq, x)' => Known(rreq, x) \/ x = r
  BY DEF Known, Joined
<1>5. Accounted'
  <2>1. ASSUME NEW x \in SReq, Known(sreq, x)'
        PROVE  Flies(RankOf[x], x)' \/ On(unexp, x)' \/ Paired(x)'
    <3>1. Flies(RankOf[x], x) \/ On(unexp, x) \/ Paired(x)
      BY <2>1 DEF ProgramOrderInv, Accounted, Known
    <3> QED
      BY <1>0, <1>2, <1>3, <3>1 DEF OthersWait
  <2>2. ASSUME NEW x \in RReq, Known(rreq, x)' PROVE On(posted, x)' \/ rreq'[x].peer # NULL
    <3>1. CASE x = r
      BY <3>1, OrdNat DEF Joined
    <3>2. CASE x # r
      <4>1. On(posted, x) \/ rreq[x].peer # NULL
        BY <1>4, <2>2, <3>2 DEF ProgramOrderInv, Accounted
      <4> QED
        BY <3>2, <4>1 DEF OthersWait, Joined
    <3> QED
      BY <3>1, <3>2
  <2> QED
    BY <2>1, <2>2 DEF Accounted
<1>6. WaitingUnpaired'
  <2>1. ASSUME NEW p \in Rank, NEW x \in SReq, Flies(p, x)'
        PROVE  p = RankOf[x] /\ Known(sreq, x)' /\ ~Paired(x)'
    <3>1. Flies(p, x) /\ x # s
      BY <2>1 DEF OthersWait
    <3> QED
      BY <1>2, <3>1 DEF ProgramOrderInv, WaitingUnpaired, Known
  <2>2. ASSUME NEW x \in SReq, On(unexp, x)' PROVE Known(sreq, x)' /\ ~Paired(x)'
    <3>1. On(unexp, x) /\ x # s
      BY <2>2 DEF OthersWait
    <3> QED
      BY <1>2, <3>1 DEF ProgramOrderInv, WaitingUnpaired, Known
  <2>3. ASSUME NEW x \in RReq, On(posted, x)' PROVE Known(rreq, x)' /\ rreq'[x].peer = NULL
    <3>1. On(posted, x) /\ x # r
      BY <2>3 DEF OthersWait
    <3>2. Known(rreq, x) /\ rreq[x].peer = NULL
      BY <3>1 DEF ProgramOrderInv, WaitingUnpaired
    <3> QED
      BY <3>1, <3>2 DEF Joined, Known
  <2> QED
    BY <2>1, <2>2, <2>3 DEF WaitingUnpaired
<1>7. WaitingInOrder'
  <2>1. ASSUME NEW p \in Rank, NEW x \in SReq, NEW y \in SReq, Ahead(p, x, y)', Match(x, y)
        PROVE  sreq'[x].ord < sreq'[y].ord
    BY <2>1 DEF OthersWait, ProgramOrderInv, WaitingInOrder
  <2>2. ASSUME NEW x \in SReq, NEW y \in SReq, Precedes(unexp, x, y)', Match(x, y)
        PROVE  sreq'[x].ord < sreq'[y].ord
    BY <2>2 DEF OthersWait, ProgramOrderInv, WaitingInOrder
  <2>3. ASSUME NEW p \in Rank, NEW x \in SReq, NEW y \in SReq,
               On(unexp, x)', Flies(p, y)', Match(x, y)
        PROVE  sreq'[x].ord < sreq'[y].ord
    BY <2>3 DEF OthersWait, ProgramOrderInv, WaitingInOrder
  <2>4. ASSUME NEW x \in RReq, NEW y \in RReq, Precedes(posted, x, y)', Match(x, y)
        PROVE  rreq'[x].ord < rreq'[y].ord
    <3>1. On(posted, x)' /\ On(posted, y)'
      BY <2>4 DEF Precedes, On
    <3>2. x # r /\ y # r /\ Precedes(posted, x, y)
      BY <2>4, <3>1 DEF OthersWait
    <3> QED
      BY <2>4, <3>2 DEF Joined, ProgramOrderInv, WaitingInOrder
  <2> QED
    BY <2>1, <2>2, <2>3, <2>4 DEF WaitingInOrder
<1>8. PairsAgree'
  <2>1. ASSUME NEW x \in RReq, rreq'[x].peer # NULL
        PROVE  /\ Known(rreq, x)' /\ Known(sreq, rreq'[x].peer)
               /\ Match(rreq'[x].peer, x) /\ rreq'[x].ord = sreq[rreq'[x].peer].ord
    <3>1. CASE x = r
      BY <1>1, <3>1 DEF Joined, Known
    <3>2. CASE x # r
      BY <2>1, <3>2 DEF Joined, ProgramOrderInv, PairsAgree, Known
    <3> QED
      BY <3>1, <3>2
  <2> QED
    BY <2>1 DEF PairsAgree, Known
<1>9. Numbered(SReq, sreq)' /\ Numbered(RReq, rreq)'
  BY DEF ProgramOrderInv
<1> QED
  BY <1>5, <1>6, <1>7, <1>8, <1>9 DEF ProgramOrderInv

(* The request found first in a list is the oldest of its envelope there.    *)
LEMMA FirstIsOldest ==
    ASSUME NEW S, NEW l \in Seq(S), NEW q, NEW i \in 1..Len(l), FirstMatch(l, q, i),
           NEW d, d = RemoveAt(l, i), NEW ord,
           \A x, y \in S : Precedes(l, x, y) /\ Match(x, y) => ord[x] < ord[y],
           \A x \in S : ord[x] \in Nat
    PROVE  /\ ~On(d, l[i])
           /\ \A x \in S : On(l, x) /\ Match(x, q) => x = l[i] \/ ord[l[i]] < ord[x]
<1>1. l[i] \in S /\ Match(l[i], q) /\ \A j \in 1..(i - 1) : ~Match(l[j], q)
  BY DEF FirstMatch
<1>2. /\ \A x : On(l, x) => On(d, x) \/ x = l[i]
      /\ \A x : On(d, x) => Precedes(l, l[i], x) \/ \E j \in 1..(i - 1) : l[j] = x
  BY RemoveOrder
<1>3. ASSUME NEW x \in S, On(d, x), Match(x, q) PROVE ord[l[i]] < ord[x]
  <2>1. Precedes(l, l[i], x) /\ Match(l[i], x)
    BY <1>1, <1>2, <1>3 DEF Match
  <2> QED
    BY <1>1, <2>1
<1>4. ord[l[i]] \in Nat
  BY <1>1
<1>5. ~On(d, l[i])
  BY <1>1, <1>3, <1>4
<1> QED
  BY <1>2, <1>3, <1>5

(* MPI_Precv_init takes the oldest unexpected SEND_INIT, or waits behind the others. *)
LEMMA PrecvInitOrder ==
    ASSUME TypeOK, ProgramOrderInv, NoMissedMatch, NEW r \in RReq, Precv_init(r)
    PROVE  ProgramOrderInv'
<1>0. /\ \A x \in SReq : RankOf[x] \in Rank
      /\ unexp \in Seq(SReq) /\ posted \in Seq(RReq) /\ rreq \in [RReq -> RecvRequest]
      /\ Parts[r] \in Nat \ {0} /\ \A x \in SReq : Parts[x] \in Nat \ {0}
  BY ArgAssumption DEF Req, TypeOK
<1>1. ~Known(rreq, r) /\ sreq' = sreq /\ toR' = toR
  BY DEF Precv_init, Known
<1>2. rreq[r].peer = NULL /\ ~On(posted, r)
  BY <1>1 DEF ProgramOrderInv, PairsAgree, WaitingUnpaired
<1>3. Earlier(r, RReq, rreq) \in Nat
  BY EarlierNat, ReqAssumption
<1>4. ASSUME NEW c \in RecvRequest, rreq' = [rreq EXCEPT ![r] = c], c.st = "inactive",
             c.ord = Earlier(r, RReq, rreq)
      PROVE  /\ rreq'[r] = c /\ Known(rreq', r) /\ rreq'[r].ord \in Nat
             /\ \A x \in RReq : x # r => rreq'[x] = rreq[x]
             /\ Numbered(RReq, rreq')
  <2>1. rreq'[r] = c /\ \A x \in RReq : x # r => rreq'[x] = rreq[x]
    BY <1>0, <1>4
  <2>2. Known(rreq', r) /\ rreq'[r].ord = Earlier(r, RReq, rreq)
    BY <1>4, <2>1 DEF Known
  <2>3. Numbered(RReq, rreq')
    BY <1>1, <2>1, <2>2, NumberedGrows, OrdNat, ReqAssumption DEF ProgramOrderInv
  <2> QED
    BY <1>3, <2>1, <2>2, <2>3
<1>5. InitRecv(r) \in RecvRequest
  BY <1>0, <1>3, BoundAssumption DEF InitRecv, RecvRequest, States
<1>6. ASSUME NEW i \in DOMAIN unexp, FirstMatch(unexp, r, i),
             rreq' = [rreq EXCEPT ![r] =
                        CheckNumRequests([InitRecv(r) EXCEPT !.peer = unexp[i]], Parts[r], Parts[unexp[i]])],
             unexp' = RemoveAt(unexp, i), posted' = posted
      PROVE  ProgramOrderInv'
  <2>1. PICK s \in SReq : s = unexp[i]
    BY <1>0
  <2>2. PICK q \in RecvRequest : q = [InitRecv(r) EXCEPT !.peer = s]
    BY <1>5 DEF RecvRequest
  <2>3. q.st = "inactive" /\ q.ord = Earlier(r, RReq, rreq) /\ q.peer = s
    BY <2>2 DEF InitRecv
  <2>4. PICK c \in RecvRequest : /\ c = CheckNumRequests(q, Parts[r], Parts[s])
                                 /\ c.st = q.st /\ c.ord = q.ord /\ c.peer = q.peer
    BY <1>0, CheckNumRecv
  <2>5. rreq' = [rreq EXCEPT ![r] = c]
    BY <1>6, <2>1, <2>2, <2>4, Zenon
  <2>6. /\ rreq'[r] = c /\ Known(rreq', r) /\ rreq'[r].ord \in Nat
        /\ \A x \in RReq : x # r => rreq'[x] = rreq[x]
        /\ Numbered(RReq, rreq')
    BY <1>4, <2>3, <2>4, <2>5
  <2>7. i \in 1..Len(unexp) /\ On(unexp, s) /\ Match(s, r)
    BY <1>0, <1>6, <2>1 DEF On, FirstMatch
  <2>8. Known(sreq, s) /\ ~Paired(s)
    BY <2>7 DEF ProgramOrderInv, WaitingUnpaired
  <2>9. /\ ~On(unexp', s)
        /\ \A x \in SReq : On(unexp, x) /\ Match(x, r) => x = s \/ sreq[s].ord < sreq[x].ord
    <3> DEFINE o == [x \in SReq |-> sreq[x].ord]
    <3>1. /\ \A x, y \in SReq : Precedes(unexp, x, y) /\ Match(x, y) => o[x] < o[y]
          /\ \A x \in SReq : o[x] \in Nat
      BY OrdNat DEF ProgramOrderInv, WaitingInOrder
    <3> HIDE DEF o
    <3>2. /\ ~On(unexp', unexp[i])
          /\ \A x \in SReq : On(unexp, x) /\ Match(x, r) => x = unexp[i] \/ o[unexp[i]] < o[x]
      BY <1>0, <1>6, <2>7, <3>1, FirstIsOldest
    <3> QED
      BY <2>1, <3>2 DEF o
  <2>10. ASSUME NEW y \in RReq, Known(rreq', y), Match(y, r), rreq'[y].ord < rreq'[r].ord
         PROVE  rreq[y].peer # NULL
    <3>1. y # r /\ Known(rreq, y)
      BY <2>6, <2>10 DEF Known
    <3>2. ~On(posted, y)
      <4>1. ASSUME NEW k \in 1..Len(posted), posted[k] = y PROVE FALSE
        <5>1. Match(posted[k], unexp[i])
          BY <2>1, <2>7, <2>10, <4>1 DEF Match
        <5> QED
          BY <1>0, <5>1 DEF NoMissedMatch
      <4> QED
        BY <4>1 DEF On
    <3> QED
      BY <3>1, <3>2 DEF ProgramOrderInv, Accounted
  <2>11. ASSUME NEW z \in SReq, Known(sreq, z), Match(z, s), sreq[z].ord < sreq[s].ord
         PROVE  Paired(z)
    <3>1. sreq[z].ord \in Nat /\ sreq[s].ord \in Nat /\ Match(s, z) /\ Match(z, r)
      BY <2>7, <2>11, OrdNat DEF Match
    <3>2. ~Flies(RankOf[z], z)
      BY <1>0, <2>7, <2>11, <3>1 DEF ProgramOrderInv, WaitingInOrder
    <3>3. ~On(unexp, z)
      BY <2>9, <2>11, <3>1
    <3> QED
      BY <2>11, <3>2, <3>3 DEF ProgramOrderInv, Accounted
  <2>12. Joined(r, s)
    BY <1>2, <2>3, <2>4, <2>6, <2>7, <2>8, <2>10, <2>11 DEF Joined
  <2>13. OthersWait(r, s)
    <3>1. \A x : /\ On(unexp', x) => On(unexp, x)
                 /\ On(unexp, x) => On(unexp', x) \/ x = s
                 /\ \A y : Precedes(unexp', x, y) => Precedes(unexp, x, y)
      BY <1>0, <1>6, <2>1, <2>7, RemoveOrder
    <3>2. ASSUME NEW x \in SReq
          PROVE  /\ On(unexp, x)' => On(unexp, x) /\ x # s
                 /\ On(unexp, x) => On(unexp, x)' \/ x = s
                 /\ \A y \in SReq : Precedes(unexp, x, y)' => Precedes(unexp, x, y)
      BY <2>9, <3>1
    <3>3. \A p \in Rank : ~Flies(p, s)
      <4>1. sreq[s].ord \in Nat /\ Match(s, s)
        BY OrdNat DEF Match
      <4> QED
        BY <2>7, <4>1 DEF ProgramOrderInv, WaitingInOrder
    <3>4. ASSUME NEW p \in Rank, NEW x \in SReq
          PROVE  /\ Flies(p, x)' => Flies(p, x) /\ x # s
                 /\ Flies(p, x) => Flies(p, x)' \/ x = s
                 /\ \A y \in SReq : Ahead(p, x, y)' => Ahead(p, x, y)
      BY <1>1, <3>3 DEF Flies, Ahead, InitAt
    <3>5. ASSUME NEW x \in RReq
          PROVE  /\ On(posted, x)' => On(posted, x) /\ x # r
                 /\ On(posted, x) => On(posted, x)' \/ x = r
                 /\ \A y \in RReq : Precedes(posted, x, y)' => Precedes(posted, x, y)
      BY <1>2, <1>6
    <3> QED
      BY <3>2, <3>4, <3>5 DEF OthersWait
  <2> QED
    BY <1>1, <2>6, <2>12, <2>13, JoinedOrder
<1>7. ASSUME rreq' = [rreq EXCEPT ![r] = [InitRecv(r) EXCEPT !.ref = 2]],
             posted' = Append(posted, r), unexp' = unexp
      PROVE  ProgramOrderInv'
  <2>1. PICK c \in RecvRequest : c = [InitRecv(r) EXCEPT !.ref = 2]
    <3>1. \A q \in RecvRequest : [q EXCEPT !.ref = 2] \in RecvRequest
      BY DEF RecvRequest
    <3> QED
      BY <1>5, <3>1
  <2>2. c.st = "inactive" /\ c.ord = Earlier(r, RReq, rreq) /\ c.peer = NULL
    BY <2>1 DEF InitRecv
  <2>3. /\ rreq'[r] = c /\ Known(rreq', r) /\ rreq'[r].ord \in Nat
        /\ \A x \in RReq : x # r => rreq'[x] = rreq[x]
        /\ Numbered(RReq, rreq')
    BY <1>4, <1>7, <2>1, <2>2
  <2>4. /\ posted' \in Seq(RReq)
        /\ \A x : On(posted', x) => On(posted, x) \/ x = r
        /\ \A x : On(posted, x) => On(posted', x)
        /\ On(posted', r)
        /\ \A x, y : Precedes(posted', x, y) => Precedes(posted, x, y) \/ (On(posted, x) /\ y = r)
    BY <1>0, <1>7, AppendOrder, Zenon
  <2>5. \A x \in SReq : Paired(x)' <=> Paired(x)
    <3>1. \A x \in RReq : rreq'[x].peer = rreq[x].peer
      BY <1>2, <2>2, <2>3
    <3> QED
      BY <3>1 DEF Paired
  <2>6. Accounted'
    <3>1. \A x \in SReq : Known(sreq, x)' => Flies(RankOf[x], x)' \/ On(unexp, x)' \/ Paired(x)'
      BY <1>1, <1>7, <2>5 DEF ProgramOrderInv, Accounted, Known, Flies, InitAt
    <3>2. \A x \in RReq : Known(rreq, x)' => On(posted, x)' \/ rreq'[x].peer # NULL
      BY <2>3, <2>4 DEF ProgramOrderInv, Accounted, Known
    <3> QED
      BY <3>1, <3>2 DEF Accounted
  <2>7. WaitingUnpaired'
    <3>1. \A p \in Rank : \A x \in SReq : Flies(p, x)' => p = RankOf[x] /\ Known(sreq, x)' /\ ~Paired(x)'
      BY <1>1, <2>5 DEF ProgramOrderInv, WaitingUnpaired, Known, Flies, InitAt
    <3>2. \A x \in SReq : On(unexp, x)' => Known(sreq, x)' /\ ~Paired(x)'
      BY <1>1, <1>7, <2>5 DEF ProgramOrderInv, WaitingUnpaired, Known
    <3>3. \A x \in RReq : On(posted, x)' => Known(rreq, x)' /\ rreq'[x].peer = NULL
      BY <2>2, <2>3, <2>4 DEF ProgramOrderInv, WaitingUnpaired, Known
    <3> QED
      BY <3>1, <3>2, <3>3 DEF WaitingUnpaired
  <2>8. WaitingInOrder'
    <3>1. /\ \A p \in Rank : \A x, y \in SReq : Ahead(p, x, y)' /\ Match(x, y) => sreq'[x].ord < sreq'[y].ord
          /\ \A p \in Rank : \A x, y \in SReq :
               On(unexp, x)' /\ Flies(p, y)' /\ Match(x, y) => sreq'[x].ord < sreq'[y].ord
      BY <1>1, <1>7 DEF ProgramOrderInv, WaitingInOrder, Flies, Ahead, InitAt
    <3>2. \A x, y \in SReq : Precedes(unexp, x, y)' /\ Match(x, y) => sreq'[x].ord < sreq'[y].ord
      BY <1>1, <1>7 DEF ProgramOrderInv, WaitingInOrder
    <3>3. ASSUME NEW x \in RReq, NEW y \in RReq, Precedes(posted', x, y), Match(x, y)
          PROVE  rreq'[x].ord < rreq'[y].ord
      <4>1. CASE On(posted, x) /\ y = r
        <5>1. Known(rreq, x) /\ x # r
          BY <1>2, <4>1 DEF ProgramOrderInv, WaitingUnpaired
        <5>2. rreq[x].ord < Earlier(r, RReq, rreq)
          BY <3>3, <4>1, <5>1, OlderBelow DEF ProgramOrderInv
        <5> QED
          BY <2>2, <2>3, <4>1, <5>1, <5>2
      <4>2. CASE Precedes(posted, x, y)
        <5>1. On(posted, x) /\ On(posted, y)
          BY <4>2 DEF Precedes, On
        <5>2. x # r /\ y # r
          BY <1>2, <5>1
        <5> QED
          BY <2>3, <3>3, <4>2, <5>2 DEF ProgramOrderInv, WaitingInOrder
      <4> QED
        BY <2>4, <3>3, <4>1, <4>2
    <3> QED
      BY <3>1, <3>2, <3>3 DEF WaitingInOrder
  <2>9. PairsAgree'
    <3>1. ASSUME NEW x \in RReq, rreq'[x].peer # NULL
          PROVE  /\ Known(rreq, x)' /\ Known(sreq, rreq'[x].peer)
                 /\ Match(rreq'[x].peer, x) /\ rreq'[x].ord = sreq[rreq'[x].peer].ord
      BY <2>2, <2>3, <3>1 DEF ProgramOrderInv, PairsAgree, Known
    <3> QED
      BY <1>1, <3>1 DEF PairsAgree, Known
  <2>10. Numbered(SReq, sreq)' /\ Numbered(RReq, rreq)'
    BY <1>1, <2>3 DEF ProgramOrderInv
  <2> QED
    BY <2>6, <2>7, <2>8, <2>9, <2>10 DEF ProgramOrderInv
<1>8. \/ \E i \in DOMAIN unexp :
            /\ FirstMatch(unexp, r, i)
            /\ rreq' = [rreq EXCEPT ![r] =
                          CheckNumRequests([InitRecv(r) EXCEPT !.peer = unexp[i]], Parts[r], Parts[unexp[i]])]
            /\ unexp' = RemoveAt(unexp, i)
            /\ posted' = posted
      \/ /\ rreq' = [rreq EXCEPT ![r] = [InitRecv(r) EXCEPT !.ref = 2]]
         /\ posted' = Append(posted, r)
         /\ unexp' = unexp
  BY Zenon DEF Precv_init
<1> QED
  BY <1>6, <1>7, <1>8, Zenon

(* A SEND_INIT takes the oldest posted request, or waits behind the others. *)
LEMMA RecvSendInitOrder ==
    ASSUME TypeOK, ProgramOrderInv, NoMissedMatch, NEW p0 \in Rank, RecvSendInit(p0)
    PROVE  ProgramOrderInv'
<1>0. /\ \A x \in SReq : RankOf[x] \in Rank
      /\ unexp \in Seq(SReq) /\ posted \in Seq(RReq) /\ rreq \in [RReq -> RecvRequest]
  BY ArgAssumption DEF Req, TypeOK
<1>1. /\ toR[p0] # <<>> /\ Head(toR[p0]).type = "SEND_INIT"
      /\ toR' = [toR EXCEPT ![p0] = Tail(toR[p0])] /\ sreq' = sreq
  BY ZenonT(30) DEF RecvSendInit
<1>2. PICK s \in SReq : s = Head(toR[p0]).s
  <2>1. Head(toR[p0]) \in ToRMessage
    BY <1>1, HeadTailProperties DEF TypeOK
  <2> QED
    BY <2>1 DEF ToRMessage
<1>3. /\ Flies(p0, s)
      /\ \A p \in Rank : \A x \in SReq :
            /\ Flies(p, x)' => Flies(p, x) /\ (p = p0 => Ahead(p, s, x))
            /\ Flies(p, x) => Flies(p, x)' \/ x = s
            /\ \A y \in SReq : Ahead(p, x, y)' => Ahead(p, x, y)
  <2>1. toR[p0] # <<>> /\ Head(toR[p0]).type = "SEND_INIT" /\ s = Head(toR[p0]).s
        /\ toR' = [toR EXCEPT ![p0] = Tail(toR[p0])]
    BY <1>1, <1>2
  <2> QED
    BY <2>1, InitTaken, ZenonT(120)
<1>4. p0 = RankOf[s] /\ Known(sreq, s) /\ ~Paired(s) /\ sreq[s].ord \in Nat /\ Match(s, s)
  BY <1>3, OrdNat DEF ProgramOrderInv, WaitingUnpaired, Match
<1>5. ~On(unexp, s) /\ \A p \in Rank : ~Flies(p, s)'
  <2>1. ~Ahead(p0, s, s)
    BY <1>4 DEF ProgramOrderInv, WaitingInOrder
  <2>2. ASSUME NEW p \in Rank, Flies(p, s)' PROVE FALSE
    <3>1. Flies(p, s)
      BY <1>3, <2>2
    <3>2. p = p0
      BY <1>4, <3>1 DEF ProgramOrderInv, WaitingUnpaired
    <3> QED
      BY <1>3, <2>1, <2>2, <3>2
  <2>3. ~On(unexp, s)
    BY <1>3, <1>4 DEF ProgramOrderInv, WaitingInOrder
  <2> QED
    BY <2>2, <2>3
<1>6. ASSUME NEW p \in Rank, NEW x \in SReq, Flies(p, x)', Match(s, x) PROVE sreq[s].ord < sreq[x].ord
  <2>1. Flies(p, x)
    BY <1>3, <1>6
  <2>2. p = p0
    BY <1>4, <1>6, <2>1 DEF ProgramOrderInv, WaitingUnpaired, Match
  <2> QED
    BY <1>3, <1>6, <2>2 DEF ProgramOrderInv, WaitingInOrder
<1>7. ASSUME NEW i \in DOMAIN posted, FirstMatch(posted, s, i), NEW c \in RecvRequest,
             c.peer = s, c.st = rreq[posted[i]].st, c.ord = rreq[posted[i]].ord,
             rreq' = [rreq EXCEPT ![posted[i]] = c],
             posted' = RemoveAt(posted, i), unexp' = unexp
      PROVE  ProgramOrderInv'
  <2>1. PICK r \in RReq : r = posted[i]
    BY <1>0
  <2>2. i \in 1..Len(posted) /\ On(posted, r) /\ Match(s, r) /\ Match(r, s)
    BY <1>0, <1>7, <2>1 DEF On, FirstMatch, Match
  <2>3. Known(rreq, r) /\ rreq[r].peer = NULL
    BY <2>2 DEF ProgramOrderInv, WaitingUnpaired
  <2>4. rreq'[r] = c /\ \A x \in RReq : x # r => rreq'[x] = rreq[x]
    BY <1>0, <1>7, <2>1
  <2>5. /\ \A x \in RReq : (Known(rreq', x) <=> Known(rreq, x)) /\ rreq'[x].ord = rreq[x].ord
        /\ Known(rreq', r) /\ rreq'[r].ord \in Nat
    BY <1>7, <2>1, <2>3, <2>4, OrdNat DEF Known
  <2>6. Numbered(RReq, rreq')
    BY <2>5, NumberedKept DEF ProgramOrderInv
  <2>7. /\ ~On(posted', r)
        /\ \A x \in RReq : On(posted, x) /\ Match(x, s) => x = r \/ rreq[r].ord < rreq[x].ord
    <3> DEFINE o == [x \in RReq |-> rreq[x].ord]
    <3>1. /\ \A x, y \in RReq : Precedes(posted, x, y) /\ Match(x, y) => o[x] < o[y]
          /\ \A x \in RReq : o[x] \in Nat
      BY OrdNat DEF ProgramOrderInv, WaitingInOrder
    <3> HIDE DEF o
    <3>2. /\ ~On(posted', posted[i])
          /\ \A x \in RReq : On(posted, x) /\ Match(x, s) => x = posted[i] \/ o[posted[i]] < o[x]
      BY <1>0, <1>7, <2>2, <3>1, FirstIsOldest
    <3> QED
      BY <2>1, <3>2 DEF o
  <2>8. ASSUME NEW y \in RReq, Known(rreq', y), Match(y, r), rreq'[y].ord < rreq'[r].ord
        PROVE  rreq[y].peer # NULL
    <3>1. Known(rreq, y) /\ rreq[y].ord < rreq[r].ord /\ rreq[y].ord \in Nat /\ rreq[r].ord \in Nat
      BY <2>5, <2>8, OrdNat
    <3>2. Match(y, s)
      BY <2>2, <2>8 DEF Match
    <3>3. ~On(posted, y)
      BY <2>7, <3>1, <3>2
    <3> QED
      BY <3>1, <3>3 DEF ProgramOrderInv, Accounted
  <2>9. ASSUME NEW z \in SReq, Known(sreq, z), Match(z, s), sreq[z].ord < sreq[s].ord
        PROVE  Paired(z)
    <3>1. sreq[z].ord \in Nat /\ Match(s, z) /\ z # s
      BY <1>4, <2>9, OrdNat DEF Match
    <3>2. ~Flies(RankOf[z], z)
      BY <1>0, <1>3, <1>4, <1>6, <2>9, <3>1
    <3>3. ~On(unexp, z)
      <4>1. ASSUME NEW k \in 1..Len(unexp), unexp[k] = z PROVE FALSE
        <5>1. Match(posted[i], unexp[k])
          BY <2>1, <2>2, <3>1, <4>1 DEF Match
        <5> QED
          BY <1>0, <5>1 DEF NoMissedMatch
      <4> QED
        BY <4>1 DEF On
    <3> QED
      BY <2>9, <3>2, <3>3 DEF ProgramOrderInv, Accounted
  <2>10. Joined(r, s)
    BY <1>4, <1>7, <2>2, <2>3, <2>4, <2>5, <2>8, <2>9 DEF Joined
  <2>11. OthersWait(r, s)
    <3>1. \A x : /\ On(posted', x) => On(posted, x)
                 /\ On(posted, x) => On(posted', x) \/ x = r
                 /\ \A y : Precedes(posted', x, y) => Precedes(posted, x, y)
      BY <1>0, <1>7, <2>1, <2>2, RemoveOrder
    <3>2. ASSUME NEW x \in RReq
          PROVE  /\ On(posted, x)' => On(posted, x) /\ x # r
                 /\ On(posted, x) => On(posted, x)' \/ x = r
                 /\ \A y \in RReq : Precedes(posted, x, y)' => Precedes(posted, x, y)
      BY <2>7, <3>1
    <3>3. ASSUME NEW p \in Rank, NEW x \in SReq
          PROVE  /\ Flies(p, x)' => Flies(p, x) /\ x # s
                 /\ Flies(p, x) => Flies(p, x)' \/ x = s
                 /\ \A y \in SReq : Ahead(p, x, y)' => Ahead(p, x, y)
      BY <1>3, <1>5
    <3>4. ASSUME NEW x \in SReq
          PROVE  /\ On(unexp, x)' => On(unexp, x) /\ x # s
                 /\ On(unexp, x) => On(unexp, x)' \/ x = s
                 /\ \A y \in SReq : Precedes(unexp, x, y)' => Precedes(unexp, x, y)
      BY <1>5, <1>7
    <3> QED
      BY <3>2, <3>3, <3>4 DEF OthersWait
  <2> QED
    BY <1>1, <2>5, <2>6, <2>10, <2>11, JoinedOrder
<1>8. ASSUME unexp' = Append(unexp, s), UNCHANGED <<rreq, posted>>
      PROVE  ProgramOrderInv'
  <2>1. /\ unexp' \in Seq(SReq)
        /\ \A x : On(unexp', x) => On(unexp, x) \/ x = s
        /\ \A x : On(unexp, x) => On(unexp', x)
        /\ On(unexp', s)
        /\ \A x, y : Precedes(unexp', x, y) => Precedes(unexp, x, y) \/ (On(unexp, x) /\ y = s)
    BY <1>0, <1>8, AppendOrder, Zenon
  <2>2. \A x \in SReq : Paired(x)' <=> Paired(x)
    BY <1>8 DEF Paired
  <2>3. Accounted'
    <3>1. ASSUME NEW x \in SReq, Known(sreq, x)'
          PROVE  Flies(RankOf[x], x)' \/ On(unexp, x)' \/ Paired(x)'
      <4>1. Flies(RankOf[x], x) \/ On(unexp, x) \/ Paired(x)
        BY <1>1, <3>1 DEF ProgramOrderInv, Accounted, Known
      <4> QED
        BY <1>0, <1>3, <2>1, <2>2, <4>1
    <3>2. \A x \in RReq : Known(rreq, x)' => On(posted, x)' \/ rreq'[x].peer # NULL
      BY <1>8 DEF ProgramOrderInv, Accounted, Known
    <3> QED
      BY <3>1, <3>2 DEF Accounted
  <2>4. WaitingUnpaired'
    <3>1. \A p \in Rank : \A x \in SReq : Flies(p, x)' => p = RankOf[x] /\ Known(sreq, x)' /\ ~Paired(x)'
      BY <1>1, <1>3, <2>2 DEF ProgramOrderInv, WaitingUnpaired, Known
    <3>2. \A x \in SReq : On(unexp, x)' => Known(sreq, x)' /\ ~Paired(x)'
      BY <1>1, <1>4, <2>1, <2>2 DEF ProgramOrderInv, WaitingUnpaired, Known
    <3>3. \A x \in RReq : On(posted, x)' => Known(rreq, x)' /\ rreq'[x].peer = NULL
      BY <1>8 DEF ProgramOrderInv, WaitingUnpaired, Known
    <3> QED
      BY <3>1, <3>2, <3>3 DEF WaitingUnpaired
  <2>5. WaitingInOrder'
    <3>1. \A p \in Rank : \A x, y \in SReq : Ahead(p, x, y)' /\ Match(x, y) => sreq'[x].ord < sreq'[y].ord
      BY <1>1, <1>3 DEF ProgramOrderInv, WaitingInOrder
    <3>2. ASSUME NEW x \in SReq, NEW y \in SReq, Precedes(unexp', x, y), Match(x, y)
          PROVE  sreq[x].ord < sreq[y].ord
      <4>1. CASE Precedes(unexp, x, y)
        BY <3>2, <4>1 DEF ProgramOrderInv, WaitingInOrder
      <4>2. CASE On(unexp, x) /\ y = s
        BY <1>3, <3>2, <4>2 DEF ProgramOrderInv, WaitingInOrder
      <4> QED
        BY <2>1, <3>2, <4>1, <4>2
    <3>3. ASSUME NEW p \in Rank, NEW x \in SReq, NEW y \in SReq,
                 On(unexp', x), Flies(p, y)', Match(x, y)
          PROVE  sreq[x].ord < sreq[y].ord
      <4>1. CASE x = s
        BY <1>6, <3>3, <4>1
      <4>2. CASE On(unexp, x)
        <5>1. Flies(p, y)
          BY <1>3, <3>3
        <5> QED
          BY <3>3, <4>2, <5>1 DEF ProgramOrderInv, WaitingInOrder
      <4> QED
        BY <2>1, <3>3, <4>1, <4>2
    <3>4. \A x, y \in RReq : Precedes(posted, x, y)' /\ Match(x, y) => rreq'[x].ord < rreq'[y].ord
      BY <1>8 DEF ProgramOrderInv, WaitingInOrder
    <3> QED
      BY <1>1, <3>1, <3>2, <3>3, <3>4 DEF WaitingInOrder
  <2>6. PairsAgree' /\ Numbered(SReq, sreq)' /\ Numbered(RReq, rreq)'
    BY <1>1, <1>8 DEF ProgramOrderInv, PairsAgree, Known
  <2> QED
    BY <2>3, <2>4, <2>5, <2>6 DEF ProgramOrderInv
<1> DEFINE q0(r) == CheckNumRequests([rreq[r] EXCEPT !.peer = s], Parts[r], Parts[s])
           q(r)  == [q0(r) EXCEPT !.ref = @ - 1,
                       !.cc = IF q0(r).st = "active" THEN q0(r).requests ELSE @]
<1>9. ASSUME NEW r \in RReq
      PROVE  q(r) \in RecvRequest /\ q(r).peer = s /\ q(r).st = rreq[r].st /\ q(r).ord = rreq[r].ord
  BY PairedFacts, ZenonT(30)
<1>10. \/ \E i \in DOMAIN posted :
             /\ FirstMatch(posted, s, i)
             /\ rreq' = [rreq EXCEPT ![posted[i]] = q(posted[i])]
             /\ posted' = RemoveAt(posted, i)
             /\ unexp' = unexp
       \/ unexp' = Append(unexp, s) /\ rreq' = rreq /\ posted' = posted
  BY <1>2, ZenonT(30) DEF RecvSendInit
<1> HIDE DEF q0, q
<1>11. ASSUME NEW i \in DOMAIN posted, FirstMatch(posted, s, i),
              rreq' = [rreq EXCEPT ![posted[i]] = q(posted[i])],
              posted' = RemoveAt(posted, i), unexp' = unexp
       PROVE  ProgramOrderInv'
  <2>1. posted[i] \in RReq
    BY <1>0
  <2> QED
    BY <1>7, <1>9, <1>11, <2>1
<1> QED
  BY <1>8, <1>10, <1>11, Zenon

(* Only one send request changes, and not its place in the program order. *)
LEMMA SenderKeepsOrder ==
    ASSUME TypeOK, ProgramOrderInv, SameInits, NEW s \in SReq, NEW c \in SendRequest,
           sreq' = [sreq EXCEPT ![s] = c], c.ord = sreq[s].ord,
           c.st # "none" <=> sreq[s].st # "none", UNCHANGED <<rreq, posted, unexp>>
    PROVE  ProgramOrderInv'
<1>1. sreq'[s] = c /\ \A x \in SReq : x # s => sreq'[x] = sreq[x]
  BY DEF TypeOK
<1>2. \A x \in SReq : (Known(sreq, x)' <=> Known(sreq, x)) /\ sreq'[x].ord = sreq[x].ord
  BY <1>1 DEF Known
<1>3. SameTables
  BY <1>2 DEF SameTables, Known
<1> QED
  BY <1>3, OrderFrame

(* A receive request that keeps its number and its peer. *)
LEMMA ReceiverKeepsOrder ==
    ASSUME TypeOK, ProgramOrderInv, SameInits, NEW r \in RReq, NEW c \in RecvRequest,
           rreq' = [rreq EXCEPT ![r] = c], c.ord = rreq[r].ord, c.peer = rreq[r].peer,
           c.st # "none" <=> rreq[r].st # "none", UNCHANGED <<sreq, posted, unexp>>
    PROVE  ProgramOrderInv'
<1>1. rreq'[r] = c /\ \A x \in RReq : x # r => rreq'[x] = rreq[x]
  BY DEF TypeOK
<1>2. \A x \in RReq : /\ Known(rreq, x)' <=> Known(rreq, x)
                      /\ rreq'[x].ord = rreq[x].ord /\ rreq'[x].peer = rreq[x].peer
  BY <1>1 DEF Known
<1>3. SameTables
  BY <1>2 DEF SameTables, Known
<1> QED
  BY <1>3, OrderFrame

(* Without a message sent or taken there are the same SEND_INIT messages. *)
LEMMA ChannelsUntouched ==
    ASSUME toR' = toR
    PROVE  SameInits
  BY DEF SameInits, Flies, Ahead, InitAt

(* Sending partitions keeps the order. *)
LEMMA TransmissionKeepsOrder ==
    ASSUME TypeOK, TypeOK', ProgramOrderInv, NEW s \in SReq, NEW q \in SendRequest,
           NEW cand \in SUBSET Nat, IsFiniteSet(cand), CheckDataTransmission(s, q, cand),
           q.ord = sreq[s].ord, q.st # "none" <=> sreq[s].st # "none",
           UNCHANGED <<rreq, posted, unexp>>
    PROVE  ProgramOrderInv'
<1>1. OnlyDataSent
  BY TransmissionFacts
<1>2. PICK I \in SUBSET cand :
        /\ IsFiniteSet(I)
        /\ q.peer = NULL => I = {}
        /\ sreq' = [sreq EXCEPT ![s] = IF I = {} THEN q ELSE AfterIssue(q, I)]
  BY TransmissionFacts
<1>3. AfterIssue(q, I) \in SendRequest /\ AfterIssue(q, I).st = q.st /\ AfterIssue(q, I).ord = q.ord
  BY <1>2, AfterIssueFacts
<1>4. PICK c \in SendRequest : c = (IF I = {} THEN q ELSE AfterIssue(q, I)) /\ c.st = q.st /\ c.ord = q.ord
  BY <1>3
<1>5. SameInits
  BY <1>1, DataSentSameInits
<1>6. sreq' = [sreq EXCEPT ![s] = c]
  BY <1>2, <1>4
<1> QED
  BY <1>4, <1>5, <1>6, SenderKeepsOrder

(* So does a CTS. *)
LEMMA RecvCtsOrder ==
    ASSUME TypeOK, TypeOK', ProgramOrderInv, NEW p \in Rank, RecvCts(p)
    PROVE  ProgramOrderInv'
<1> DEFINE m == Head(toS[p])
           s == m.s
           q00 == [sreq[s] EXCEPT !.peer = m.r]
           q0 == CheckNumRequests(q00, Parts[s], m.requests)
           q == [q0 EXCEPT !.cc = q0.requests]
<1>1. m \in CtsMessage
  BY HeadTailProperties DEF RecvCts, TypeOK
<1>2. s \in SReq /\ m.r \in RReq /\ m.requests \in Nat \ {0} /\ Parts[s] \in Nat \ {0}
  BY <1>1, ArgAssumption DEF CtsMessage, Req
<1>3. q00 \in SendRequest /\ q00.st = sreq[s].st /\ q00.ord = sreq[s].ord
  BY <1>2, ZenonT(30) DEF TypeOK, SendRequest
<1>4. UNCHANGED <<rreq, posted, unexp>>
  BY DEF RecvCts
<1>5. \/ sreq' = [sreq EXCEPT ![s] = q0] /\ toR' = toR
      \/ CheckDataTransmission(s, q, AllSubs(q))
      \/ sreq' = [sreq EXCEPT ![s] = q] /\ toR' = toR
  BY Zenon DEF RecvCts
<1> HIDE DEF m, s, q00
<1>6. q0 \in SendRequest /\ q0.st = sreq[s].st /\ q0.ord = sreq[s].ord
  BY <1>2, <1>3, CheckNumSend
<1> HIDE DEF q0
<1>7. q \in SendRequest /\ q.st = sreq[s].st /\ q.ord = sreq[s].ord
  BY <1>6 DEF SendRequest
<1> HIDE DEF q
<1>8. CASE sreq' = [sreq EXCEPT ![s] = q0] /\ toR' = toR
  BY <1>2, <1>4, <1>6, <1>8, SenderKeepsOrder, ChannelsUntouched
<1>9. CASE sreq' = [sreq EXCEPT ![s] = q] /\ toR' = toR
  BY <1>2, <1>4, <1>7, <1>9, SenderKeepsOrder, ChannelsUntouched
<1>10. CASE CheckDataTransmission(s, q, AllSubs(q))
  BY <1>2, <1>4, <1>7, <1>10, TransmissionKeepsOrder, CandidateSets
<1> QED
  BY <1>5, <1>8, <1>9, <1>10

(* Every step keeps the order of pairing. *)
LEMMA NextOrder ==
    TypeOK /\ TypeOK' /\ NoMissedMatch /\ ProgramOrderInv /\ [Next]_vars => ProgramOrderInv'
<1> SUFFICES ASSUME TypeOK, TypeOK', NoMissedMatch, ProgramOrderInv, [Next]_vars
             PROVE  ProgramOrderInv'
  OBVIOUS
<1>0. CASE UNCHANGED vars
  <2>1. SameTables /\ SameInits /\ UNCHANGED <<posted, unexp>>
    BY <1>0, ChannelsUntouched DEF vars, SameTables, Known
  <2> QED
    BY <2>1, OrderFrame
<1>1. ASSUME NEW s \in SReq, PsendStart(s) PROVE ProgramOrderInv'
  <2> DEFINE q == [sreq[s] EXCEPT !.st = "active", !.round = @ + 1, !.alloc = TRUE,
                                  !.ready = {}, !.ctr = 0, !.cc = sreq[s].requests]
  <2>1. q \in SendRequest
    BY <1>1, StartedSend DEF PsendStart, TypeOK
  <2>2. q.ord = sreq[s].ord /\ q.st = "active" /\ sreq[s].st = "inactive"
    BY <1>1 DEF PsendStart, TypeOK, SendRequest
  <2>3. CheckDataTransmission(s, q, AllSubs(q)) /\ UNCHANGED <<rreq, posted, unexp>>
    BY <1>1 DEF PsendStart
  <2> HIDE DEF q
  <2> QED
    BY <2>1, <2>2, <2>3, TransmissionKeepsOrder, CandidateSets
<1>2. ASSUME NEW s \in SReq, NEW p \in 0..(Parts[s] - 1), Pready(s, p) PROVE ProgramOrderInv'
  <2> DEFINE q == [sreq[s] EXCEPT !.ready = @ \cup {p}]
  <2>1. p \in Nat /\ sreq[s] \in SendRequest
    BY ArgAssumption DEF TypeOK
  <2>2. sreq[s].ready \cup {p} \in SUBSET Nat
    BY <2>1 DEF SendRequest
  <2>3. q \in SendRequest /\ q.ord = sreq[s].ord /\ q.st = sreq[s].st
    BY <2>1, <2>2 DEF SendRequest
  <2>4. CheckDataTransmission(s, q, {p \div q.ppr}) /\ UNCHANGED <<rreq, posted, unexp>>
    BY <1>2 DEF Pready
  <2> HIDE DEF q
  <2> QED
    BY <2>1, <2>3, <2>4, TransmissionKeepsOrder, CandidateSets
<1>3. ASSUME NEW s \in SReq, NEW c, sreq' = [sreq EXCEPT ![s] = c], c.ord = sreq[s].ord,
             c.st # "none" <=> sreq[s].st # "none", UNCHANGED <<rreq, posted, unexp, toR>>
      PROVE  ProgramOrderInv'
  <2>1. c \in SendRequest
    BY <1>3 DEF TypeOK
  <2> QED
    BY <1>3, <2>1, SenderKeepsOrder, ChannelsUntouched
<1>4. ASSUME NEW s \in SReq, NEW i \in sreq[s].out, SendSubDone(s, i) PROVE ProgramOrderInv'
  <2> DEFINE c == [sreq[s] EXCEPT !.out = sreq[s].out \ {i}, !.cc = sreq[s].cc - 1]
  <2>1. sreq' = [sreq EXCEPT ![s] = c] /\ UNCHANGED <<rreq, posted, unexp, toR>>
    BY <1>4 DEF SendSubDone, TypeOK
  <2>2. c.ord = sreq[s].ord /\ c.st = sreq[s].st
    BY DEF TypeOK, SendRequest
  <2> HIDE DEF c
  <2> QED
    BY <1>3, <2>1, <2>2
<1>5. ASSUME NEW s \in SReq, WaitSend(s) \/ FreeSend(s) PROVE ProgramOrderInv'
  <2>1. PICK st \in {"inactive", "freed"} : sreq' = [sreq EXCEPT ![s].st = st]
    BY <1>5 DEF WaitSend, FreeSend
  <2> DEFINE c == [sreq[s] EXCEPT !.st = st]
  <2>2. sreq' = [sreq EXCEPT ![s] = c]
    BY <2>1
  <2>3. c.ord = sreq[s].ord /\ c.st = st
    BY DEF TypeOK, SendRequest
  <2>4. UNCHANGED <<rreq, posted, unexp, toR>> /\ sreq[s].st # "none"
    BY <1>5 DEF WaitSend, FreeSend
  <2> HIDE DEF c
  <2> QED
    BY <1>3, <2>1, <2>2, <2>3, <2>4
<1>6. ASSUME NEW r \in RReq, NEW c, rreq' = [rreq EXCEPT ![r] = c], c.ord = rreq[r].ord,
             c.peer = rreq[r].peer, c.st # "none" <=> rreq[r].st # "none",
             UNCHANGED <<sreq, posted, unexp>>, SameInits
      PROVE  ProgramOrderInv'
  <2>1. c \in RecvRequest
    BY <1>6 DEF TypeOK
  <2> QED
    BY <1>6, <2>1, ReceiverKeepsOrder
<1>7. ASSUME NEW r \in RReq, PrecvStart(r) PROVE ProgramOrderInv'
  <2> DEFINE c == [rreq[r] EXCEPT !.st = "active", !.round = @ + 1, !.cc = rreq[r].requests, !.got = {}]
  <2>1. rreq' = [rreq EXCEPT ![r] = c] /\ UNCHANGED <<sreq, posted, unexp, toR>> /\ rreq[r].st = "inactive"
    BY <1>7 DEF PrecvStart
  <2>2. c.ord = rreq[r].ord /\ c.peer = rreq[r].peer /\ c.st = "active"
    BY DEF TypeOK, RecvRequest
  <2> HIDE DEF c
  <2> QED
    BY <1>6, <2>1, <2>2, ChannelsUntouched
<1>8. ASSUME NEW r \in RReq, WaitRecv(r) PROVE ProgramOrderInv'
  <2> DEFINE c == [rreq[r] EXCEPT !.st = "inactive"]
  <2>1. rreq' = [rreq EXCEPT ![r] = c] /\ UNCHANGED <<sreq, posted, unexp, toR>> /\ rreq[r].st = "active"
    BY <1>8 DEF WaitRecv, TypeOK
  <2>2. c.ord = rreq[r].ord /\ c.peer = rreq[r].peer /\ c.st = "inactive"
    BY DEF TypeOK, RecvRequest
  <2> HIDE DEF c
  <2> QED
    BY <1>6, <2>1, <2>2, ChannelsUntouched
<1>9. ASSUME NEW r \in RReq, FreeRecv(r) PROVE ProgramOrderInv'
  <2> DEFINE c == [rreq[r] EXCEPT !.st = "freed", !.ref = rreq[r].ref - 1]
  <2>1. rreq' = [rreq EXCEPT ![r] = c] /\ UNCHANGED <<sreq, posted, unexp, toR>> /\ rreq[r].st = "inactive"
    BY <1>9 DEF FreeRecv, TypeOK
  <2>2. c.ord = rreq[r].ord /\ c.peer = rreq[r].peer /\ c.st = "freed"
    BY DEF TypeOK, RecvRequest
  <2> HIDE DEF c
  <2> QED
    BY <1>6, <2>1, <2>2, ChannelsUntouched
<1>10. ASSUME NEW p \in Rank, RecvData(p) PROVE ProgramOrderInv'
  <2>1. /\ toR[p] # <<>> /\ Head(toR[p]).type = "DATA"
        /\ toR' = [toR EXCEPT ![p] = Tail(toR[p])] /\ UNCHANGED <<sreq, posted, unexp>>
    BY <1>10 DEF RecvData
  <2>2. SameInits
    BY <2>1, DataTakenSameInits
  <2>3. PICK i \in DOMAIN recvq :
          rreq' = [rreq EXCEPT ![recvq[i].r].cc = @ - 1,
                     ![recvq[i].r].got = @ \cup
                         {[s |-> Head(toR[p]).s, round |-> Head(toR[p]).round,
                           from |-> Head(toR[p]).from, into |-> recvq[i].into]}]
    BY <1>10 DEF RecvData
  <2>4. PICK e \in SubRecv : e = recvq[i]
    BY DEF TypeOK
  <2>5. e.r \in RReq
    BY <2>4 DEF SubRecv
  <2> DEFINE d == [s |-> Head(toR[p]).s, round |-> Head(toR[p]).round,
                   from |-> Head(toR[p]).from, into |-> e.into]
             c == [rreq[e.r] EXCEPT !.cc = rreq[e.r].cc - 1, !.got = rreq[e.r].got \cup {d}]
  <2>6. rreq' = [rreq EXCEPT ![e.r] = c]
    BY <2>3, <2>4, <2>5 DEF TypeOK
  <2> HIDE DEF d
  <2>7. c.ord = rreq[e.r].ord /\ c.peer = rreq[e.r].peer /\ c.st = rreq[e.r].st
    BY <2>5 DEF TypeOK, RecvRequest
  <2> HIDE DEF c
  <2> QED
    BY <1>6, <2>1, <2>2, <2>5, <2>6, <2>7
<1> QED
  BY <1>0, <1>1, <1>2, <1>4, <1>5, <1>7, <1>8, <1>9, <1>10, PsendInitOrder, PrecvInitOrder,
     RecvSendInitOrder, RecvCtsOrder
     DEF Next, SendStep, RecvStep, Deliver, Terminated

(* Numbering, waiting lists and pairs agree in every reachable state. *)
LEMMA ProgramOrderHolds == Spec => []ProgramOrderInv
<1>1. Init => ProgramOrderInv
  <2> SUFFICES ASSUME Init PROVE ProgramOrderInv
    OBVIOUS
  <2>1. /\ \A s \in SReq : ~Known(sreq, s)
        /\ \A r \in RReq : ~Known(rreq, r) /\ rreq[r].peer = NULL
    BY DEF Init, Known
  <2>2. /\ \A x : ~On(posted, x) /\ ~On(unexp, x)
        /\ \A p \in Rank : \A x : ~Flies(p, x)
        /\ \A p \in Rank : \A x, y : ~Ahead(p, x, y)
        /\ \A x, y : ~Precedes(posted, x, y) /\ ~Precedes(unexp, x, y)
    BY DEF Init, On, Flies, Ahead, Precedes
  <2>3. ASSUME NEW S, NEW tbl, \A x \in S : ~Known(tbl, x) PROVE Numbered(S, tbl)
    <3>1. ASSUME NEW x \in S PROVE Earlier(x, S, tbl) = 0
      <4>1. {y \in S : tbl[y].st # "none" /\ Match(y, x)} = {}
        BY <2>3 DEF Known
      <4> QED
        BY <4>1, FS_EmptySet DEF Earlier
    <3>2. \A x \in S : 0..(Earlier(x, S, tbl) - 1) = {}
      BY <3>1
    <3> QED
      BY <2>3, <3>2 DEF Numbered
  <2>4. Numbered(SReq, sreq) /\ Numbered(RReq, rreq)
    BY <2>1, <2>3
  <2> QED
    BY <2>1, <2>2, <2>4 DEF ProgramOrderInv, Accounted, WaitingUnpaired, WaitingInOrder, PairsAgree
<1> QED
  BY <1>1, NextOrder, TypeCorrect, NoMissedMatchHolds, PTL DEF Spec

(* Partners are paired in the order of their initialisation calls, whatever  *)
(* the interleaving of MPID_Psend_init, MPID_Precv_init and the SEND_INIT    *)
(* callback, for any number of requests, envelopes and connections, with or  *)
(* without separated rounds.                                                 *)
THEOREM PairedInProgramOrderHolds == Spec => []PairedInProgramOrder
<1>1. ProgramOrderInv => PairedInProgramOrder
  BY DEF ProgramOrderInv, PairsAgree, PairedInProgramOrder
<1> QED
  BY <1>1, ProgramOrderHolds, PTL
=============================================================================
