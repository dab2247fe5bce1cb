------------------------------ MODULE PartComm ------------------------------
(***************************************************************************)
(* MPI partitioned communication of the PSP device (mpid_part.c).          *)
(*                                                                         *)
(* Partitioned send requests SReq live in sender processes, the receive    *)
(* requests RReq in one receiver process.  A send request announces itself *)
(* with a SEND_INIT control message; the receiver pairs it with a receive  *)
(* request through two global lists (posted, unexp), answers every started *)
(* round with a clear-to-send (CTS) message, and the sender then issues    *)
(* one Isend per sub-request as soon as the user has marked all partitions *)
(* of the sub-request ready.  Both requests are persistent: they are       *)
(* started once per round.                                                 *)
(*                                                                         *)
(* Every handler and every MPI call runs under the process's lock, so it   *)
(* is one action here.  pscom connections are FIFO channels.               *)
(***************************************************************************)
EXTENDS Integers, Sequences, FiniteSets, SequencesExt

CONSTANTS
    SReq, RReq,   \* partitioned send and receive requests
    Rank,         \* the sender processes, one connection to the receiver each
    RankOf,       \* process of a send request, source argument of a receive request
    TagOf, CtxOf, \* tag and context id given at initialisation
    Parts,        \* number of partitions given at initialisation
    MaxRounds,    \* bound on the number of MPI_Start calls per request
    Separated,    \* TRUE: the program starts a receive round only after the
                  \* sender has completed the previous one (e.g. by a barrier)
    EarlyFree,    \* TRUE: the program may free requests it has not used for all rounds
    NULL

Req == SReq \cup RReq

ASSUME ReqAssumption ==
    /\ IsFiniteSet(SReq) /\ IsFiniteSet(RReq)
    /\ SReq \cap RReq = {} /\ NULL \notin Req
ASSUME ArgAssumption ==
    /\ RankOf \in [Req -> Rank]
    /\ TagOf  \in [Req -> Nat]
    /\ CtxOf  \in [Req -> Nat]
    /\ Parts  \in [Req -> Nat \ {0}]
ASSUME BoundAssumption == MaxRounds \in Nat /\ Separated \in BOOLEAN /\ EarlyFree \in BOOLEAN

VARIABLES
    sreq,     \* the send requests
    rreq,     \* the receive requests
    posted,   \* MPIDI_Process.part_posted_list of the receiver
    unexp,    \* MPIDI_Process.part_unexp_list: SEND_INITs without a receive request
    recvq,    \* sub-receives posted to pscom and not yet matched, oldest first
    toR, toS, \* the two directions of each connection
    crashed   \* a handler dereferenced part_ready = NULL

vars == <<sreq, rreq, posted, unexp, recvq, toR, toS, crashed>>

-----------------------------------------------------------------------------
(* Requests.  st is the life cycle ("none" before initialisation), round    *)
(* the number of MPI_Start calls so far and ord the number of requests of   *)
(* the same side and the same envelope initialised before (both only       *)
(* record history); the other fields are those of the code.                *)

States == {"none", "inactive", "active", "freed"}

SendRequest ==
    [st: States, round: 0..MaxRounds, ord: Nat, peer: RReq \cup {NULL},
     requests: Nat \ {0}, ppr: Nat \ {0},
     alloc: BOOLEAN,          \* part_ready # NULL
     ready: SUBSET Nat,       \* the partitions p with part_ready[p]
     ctr: Nat,                \* send_ctr
     cc: Int,                 \* completion counter
     out: SUBSET Nat]         \* sub-requests whose Isend is not yet complete

RecvRequest ==
    [st: States, round: 0..MaxRounds, ord: Nat, peer: SReq \cup {NULL},
     requests: Nat \ {0}, ppr: Nat \ {0}, cc: Int,
     ref: Int,                \* reference count
     got: SUBSET [s: SReq, round: Nat, from: Nat, into: Nat]]
                              \* the messages received in the current round

(* Messages to the receiver; round and from identify the data carried.     *)
ToRMessage == [type: {"SEND_INIT", "DATA"}, s: SReq, round: Nat, from: Nat]
CtsMessage == [s: SReq, r: RReq, requests: Nat \ {0}]
(* A posted sub-receive, with the index of its sub-request.                *)
SubRecv == [r: RReq, into: Nat]

(* partitioned_requests_do_match: rank, tag and context id agree.          *)
Match(q1, q2) ==
    /\ RankOf[q1] = RankOf[q2]
    /\ TagOf[q1] = TagOf[q2]
    /\ CtxOf[q1] = CtxOf[q2]

(* Mutant of FirstMatch: the newest matching entry is taken.                *)
MutLastMatch(queue, q, i) ==
    /\ i \in DOMAIN queue
    /\ Match(queue[i], q)
    /\ \A j \in (i + 1)..Len(queue) : ~Match(queue[j], q)

(* match_and_deq_request takes the first entry i of the list that matches. *)
FirstMatch(queue, q, i) ==
    /\ i \in DOMAIN queue
    /\ Match(queue[i], q)
    /\ \A j \in 1..(i - 1) : ~Match(queue[j], q)

NoMatch(queue, q) == \A i \in DOMAIN queue : ~Match(queue[i], q)

(* Mutant of CheckNumRequests: the division has its operands swapped.       *)
MutSwappedDivision(req, P, peerRequests) ==
    IF req.requests = peerRequests THEN req
    ELSE LET m == IF req.requests < peerRequests THEN req.requests ELSE peerRequests
         IN  [req EXCEPT !.requests = m, !.ppr = m \div P]

(* MPID_part_check_num_requests, for a request of P partitions.            *)
CheckNumRequests(req, P, peerRequests) ==
    IF req.requests = peerRequests THEN req
    ELSE LET m == IF req.requests < peerRequests THEN req.requests ELSE peerRequests
         IN  [req EXCEPT !.requests = m,
                         !.ppr = P \div m + (IF P % m > 0 THEN 1 ELSE 0)]

(* The number of requests initialised before with the envelope of q.       *)
Earlier(q, reqs, tbl) ==
    Cardinality({x \in reqs : tbl[x].st # "none" /\ Match(x, q)})

(* MPID_PSP_part_init_common.                                              *)
InitSend(s) ==
    [st |-> "inactive", round |-> 0, ord |-> Earlier(s, SReq, sreq), peer |-> NULL,
     requests |-> Parts[s], ppr |-> 1, alloc |-> FALSE, ready |-> {},
     ctr |-> 0, cc |-> 0, out |-> {}]

InitRecv(r) ==
    [st |-> "inactive", round |-> 0, ord |-> Earlier(r, RReq, rreq), peer |-> NULL,
     requests |-> Parts[r], ppr |-> 1, cc |-> 0, ref |-> 1, got |-> {}]

Init ==
    /\ sreq = [s \in SReq |->
                 [st |-> "none", round |-> 0, ord |-> 0, peer |-> NULL,
                  requests |-> Parts[s], ppr |-> 1, alloc |-> FALSE, ready |-> {},
                  ctr |-> 0, cc |-> 0, out |-> {}]]
    /\ rreq = [r \in RReq |->
                 [st |-> "none", round |-> 0, ord |-> 0, peer |-> NULL,
                  requests |-> Parts[r], ppr |-> 1, cc |-> 0, ref |-> 0, got |-> {}]]
    /\ posted = <<>> /\ unexp = <<>> /\ recvq = <<>>
    /\ toR = [p \in Rank |-> <<>>]
    /\ toS = [p \in Rank |-> <<>>]
    /\ crashed = FALSE

-----------------------------------------------------------------------------
(* Sender side.                                                            *)

(* MPID_part_send_if_ready: a sub-request may go when its partitions are    *)
(* ready; one that covers no partition is always ready.                    *)
SubReady(q, P, i) ==
    \A p \in (i * q.ppr)..((i + 1) * q.ppr - 1) : p < P => p \in q.ready

Ascending(q) == \A i, j \in DOMAIN q : i < j => q[i] < q[j]

(* Mutant of AfterIssue: peer_request is not reset after the last Isend.    *)
MutKeepPeer(q, idxs) ==
    LET n == q.ctr + Cardinality(idxs)
        i == [q EXCEPT !.ctr = n, !.out = @ \cup idxs]
    IN  IF n = q.requests
        THEN [i EXCEPT !.alloc = FALSE, !.ready = {}, !.ctr = 0]
        ELSE i

(* MPID_part_issue_data_send for the sub-requests idxs of send request s,   *)
(* whose record is q: the Isends, send_ctr, and the reset after the last.   *)
AfterIssue(q, idxs) ==
    LET n == q.ctr + Cardinality(idxs)
        i == [q EXCEPT !.ctr = n, !.out = @ \cup idxs]
    IN  IF n = q.requests
        THEN [i EXCEPT !.alloc = FALSE, !.ready = {}, !.peer = NULL, !.ctr = 0]
        ELSE i

DataMessages(s, round, order) ==
    [k \in DOMAIN order |->
        [type |-> "DATA", s |-> s, round |-> round, from |-> order[k]]]

(* Mutant of CheckDataTransmission: it does not wait for the CTS.           *)
MutNoCts(s, q, cand) ==
    LET idxs == {i \in cand : SubReady(q, Parts[s], i)}
    IN  \E order \in [1..Cardinality(idxs) -> idxs] :
            /\ Ascending(order)
            /\ sreq' = [sreq EXCEPT ![s] = IF idxs = {} THEN q ELSE AfterIssue(q, idxs)]
            /\ toR' = [toR EXCEPT ![RankOf[s]] = @ \o DataMessages(s, q.round, order)]

(* MPID_part_check_data_transmission: issue the sub-requests of cand that   *)
(* are ready, lowest first; nothing without a CTS (peer = NULL).            *)
CheckDataTransmission(s, q, cand) ==
    LET idxs == IF q.peer = NULL THEN {}
                ELSE {i \in cand : SubReady(q, Parts[s], i)}
    IN  \E order \in [1..Cardinality(idxs) -> idxs] :
            /\ Ascending(order)
            /\ sreq' = [sreq EXCEPT ![s] = IF idxs = {} THEN q ELSE AfterIssue(q, idxs)]
            /\ toR' = [toR EXCEPT ![RankOf[s]] = @ \o DataMessages(s, q.round, order)]

AllSubs(q) == 0..(q.requests - 1)

(* MPID_Psend_init. *)
Psend_init(s) ==
    /\ sreq[s].st = "none"
    /\ sreq' = [sreq EXCEPT ![s] = InitSend(s)]
    /\ toR' = [toR EXCEPT ![RankOf[s]] =
                 Append(@, [type |-> "SEND_INIT", s |-> s, round |-> 0, from |-> 0])]
    /\ UNCHANGED <<rreq, posted, unexp, recvq, toS, crashed>>

(* MPID_PSP_psend_start. *)
PsendStart(s) ==
    /\ sreq[s].st = "inactive"
    /\ sreq[s].round < MaxRounds
    /\ LET q == [sreq[s] EXCEPT !.st = "active", !.round = @ + 1, !.alloc = TRUE,
                                !.ready = {}, !.ctr = 0, !.cc = sreq[s].requests]
       IN  CheckDataTransmission(s, q, AllSubs(q))
    /\ UNCHANGED <<rreq, posted, unexp, recvq, toS, crashed>>

(* MPID_Pready_range and MPID_Pready_list, one partition of the loop per    *)
(* step.  A partition that is already ready, or a request without           *)
(* part_ready, yields MPI_ERR_OTHER and changes nothing.                    *)
Pready(s, p) ==
    /\ sreq[s].st = "active"
    /\ p \in 0..(Parts[s] - 1)
    /\ sreq[s].alloc /\ p \notin sreq[s].ready
    /\ LET q == [sreq[s] EXCEPT !.ready = @ \cup {p}]
       IN  CheckDataTransmission(s, q, {p \div q.ppr})
    /\ UNCHANGED <<rreq, posted, unexp, recvq, toS, crashed>>

(* Mutant of RecvCts: what became ready before the CTS is not sent.         *)
MutCtsOnlyStored(p) ==
    /\ toS[p] # <<>>
    /\ LET m == Head(toS[p])
       IN  sreq' = [sreq EXCEPT ![m.s] =
                      CheckNumRequests([@ EXCEPT !.peer = m.r], Parts[m.s], m.requests)]
    /\ toS' = [toS EXCEPT ![p] = Tail(@)]
    /\ UNCHANGED <<rreq, posted, unexp, recvq, toR, crashed>>

(* MPID_do_recv_part_cts.  With part_ready = NULL the check of the first    *)
(* sub-request reads through the NULL pointer.                              *)
RecvCts(p) ==
    /\ toS[p] # <<>>
    /\ LET m == Head(toS[p])
           s == m.s
           q0 == CheckNumRequests([sreq[s] EXCEPT !.peer = m.r], Parts[s], m.requests)
           q == [q0 EXCEPT !.cc = q0.requests]
       IN  \/ /\ sreq[s].st # "active"
              /\ sreq' = [sreq EXCEPT ![s] = q0]
              /\ UNCHANGED <<toR, crashed>>
           \/ /\ sreq[s].st = "active" /\ sreq[s].alloc
              /\ CheckDataTransmission(s, q, AllSubs(q))
              /\ UNCHANGED crashed
           \/ /\ sreq[s].st = "active" /\ ~sreq[s].alloc
              /\ crashed' = TRUE
              /\ sreq' = [sreq EXCEPT ![s] = q]
              /\ UNCHANGED toR
    /\ toS' = [toS EXCEPT ![p] = Tail(@)]
    /\ UNCHANGED <<rreq, posted, unexp, recvq>>

(* Mutant of SendSubDone: the Isend completed before its                    *)
(* completion_notification was set.                                        *)
MutLostNotification(s, i) ==
    /\ i \in sreq[s].out
    /\ sreq' = [sreq EXCEPT ![s].out = @ \ {i}]
    /\ UNCHANGED <<rreq, posted, unexp, recvq, toR, toS, crashed>>

(* The completion callback of a sub-request's Isend.                        *)
SendSubDone(s, i) ==
    /\ i \in sreq[s].out
    /\ sreq' = [sreq EXCEPT ![s].out = @ \ {i}, ![s].cc = @ - 1]
    /\ UNCHANGED <<rreq, posted, unexp, recvq, toR, toS, crashed>>

(* A completed MPI_Wait or MPI_Test on the send request.                    *)
WaitSend(s) ==
    /\ sreq[s].st = "active" /\ sreq[s].cc = 0
    /\ sreq' = [sreq EXCEPT ![s].st = "inactive"]
    /\ UNCHANGED <<rreq, posted, unexp, recvq, toR, toS, crashed>>

(* s and r are each other's partner by the rule of the MPI standard: the     *)
(* requests of one envelope pair up in the order of their initialisation.    *)
Partners(s, r) ==
    /\ sreq[s].st # "none" /\ rreq[r].st # "none"
    /\ Match(s, r) /\ sreq[s].ord = rreq[r].ord

(* MPI_Request_free of an inactive send request.  A correct program frees    *)
(* neither partner while the other has started a round more.                 *)
FreeSend(s) ==
    /\ sreq[s].st = "inactive"
    /\ \/ sreq[s].round = MaxRounds
       \/ EarlyFree /\ \A r \in RReq : Partners(s, r) => rreq[r].round <= sreq[s].round
    /\ sreq' = [sreq EXCEPT ![s].st = "freed"]
    /\ UNCHANGED <<rreq, posted, unexp, recvq, toR, toS, crashed>>

-----------------------------------------------------------------------------
(* Receiver side.                                                          *)

(* Sending the CTS and MPID_part_issue_data_recv: one Irecv per sub-request *)
(* in index order.                                                          *)
ClearToSend(r, q) ==
    /\ toS' = [toS EXCEPT ![RankOf[r]] =
                 Append(@, [s |-> q.peer, r |-> r, requests |-> q.requests])]
    /\ recvq' = recvq \o [i \in 1..q.requests |-> [r |-> r, into |-> i - 1]]

(* Mutant of Precv_init: SEND_INITs that came first are not searched.       *)
MutPostOnly(r) ==
    /\ rreq[r].st = "none"
    /\ posted' = Append(posted, r)
    /\ rreq' = [rreq EXCEPT ![r] = [InitRecv(r) EXCEPT !.ref = 2]]
    /\ UNCHANGED <<sreq, unexp, recvq, toR, toS, crashed>>

(* Mutant of Precv_init: the handshake takes no reference.                  *)
MutNoReference(r) ==
    /\ rreq[r].st = "none" /\ NoMatch(unexp, r)
    /\ posted' = Append(posted, r)
    /\ rreq' = [rreq EXCEPT ![r] = InitRecv(r)]
    /\ UNCHANGED <<sreq, unexp, recvq, toR, toS, crashed>>

(* MPID_Precv_init. *)
Precv_init(r) ==
    /\ rreq[r].st = "none"
    /\ \/ \E i \in DOMAIN unexp :
             /\ FirstMatch(unexp, r, i)
             /\ LET s == unexp[i]
                    q == [InitRecv(r) EXCEPT !.peer = s]
                IN  rreq' = [rreq EXCEPT ![r] = CheckNumRequests(q, Parts[r], Parts[s])]
             /\ unexp' = RemoveAt(unexp, i)
             /\ UNCHANGED posted
       \/ /\ NoMatch(unexp, r)
          /\ posted' = Append(posted, r)
          /\ rreq' = [rreq EXCEPT ![r] = [InitRecv(r) EXCEPT !.ref = 2]]
          /\ UNCHANGED unexp
    /\ UNCHANGED <<sreq, recvq, toR, toS, crashed>>

(* MPID_do_recv_part_send_init. *)
RecvSendInit(p) ==
    /\ toR[p] # <<>> /\ Head(toR[p]).type = "SEND_INIT"
    /\ LET s == Head(toR[p]).s
       IN  \/ \E i \in DOMAIN posted :
                 /\ FirstMatch(posted, s, i)
                 /\ LET r  == posted[i]
                        q0 == CheckNumRequests([rreq[r] EXCEPT !.peer = s], Parts[r], Parts[s])
                        q  == [q0 EXCEPT !.ref = @ - 1,
                                 !.cc = IF q0.st = "active" THEN q0.requests ELSE @]
                    IN  /\ rreq' = [rreq EXCEPT ![r] = q]
                        /\ IF q.st = "active" THEN ClearToSend(r, q)
                           ELSE UNCHANGED <<toS, recvq>>
                 /\ posted' = RemoveAt(posted, i)
                 /\ UNCHANGED unexp
           \/ /\ NoMatch(posted, s)
              /\ unexp' = Append(unexp, s)
              /\ UNCHANGED <<rreq, posted, toS, recvq>>
    /\ toR' = [toR EXCEPT ![p] = Tail(@)]
    /\ UNCHANGED <<sreq, crashed>>

(* The rounds a send request has completed. *)
Completed(s) == sreq[s].round - (IF sreq[s].st = "active" THEN 1 ELSE 0)

(* Mutant of PrecvStart: the completion counter is not set.                 *)
MutNoCounter(r) ==
    /\ rreq[r].st = "inactive"
    /\ rreq[r].round < MaxRounds
    /\ Separated /\ rreq[r].peer # NULL => Completed(rreq[r].peer) >= rreq[r].round
    /\ LET q == [rreq[r] EXCEPT !.st = "active", !.round = @ + 1, !.got = {}]
       IN  /\ rreq' = [rreq EXCEPT ![r] = q]
           /\ IF q.peer # NULL THEN ClearToSend(r, q) ELSE UNCHANGED <<toS, recvq>>
    /\ UNCHANGED <<sreq, posted, unexp, toR, crashed>>

(* MPID_PSP_precv_start.  That the partner is not freed, and Separated, are  *)
(* rules for the program, not conditions of the code.                       *)
PrecvStart(r) ==
    /\ rreq[r].st = "inactive"
    /\ rreq[r].round < MaxRounds
    /\ \A s \in SReq : Partners(s, r) => sreq[s].st # "freed"
    /\ Separated /\ rreq[r].peer # NULL => Completed(rreq[r].peer) >= rreq[r].round
    /\ LET q == [rreq[r] EXCEPT !.st = "active", !.round = @ + 1,
                                !.cc = rreq[r].requests, !.got = {}]
       IN  /\ rreq' = [rreq EXCEPT ![r] = q]
           /\ IF q.peer # NULL THEN ClearToSend(r, q) ELSE UNCHANGED <<toS, recvq>>
    /\ UNCHANGED <<sreq, posted, unexp, toR, crashed>>

(* Mutant of DataMatch: all sub-requests use the tag of their request.      *)
MutOneTag(m, e) ==
    RankOf[m.s] = RankOf[e.r] /\ CtxOf[m.s] = CtxOf[e.r] /\ TagOf[m.s] = TagOf[e.r]

(* A data message of sub-request from of s fits the posted sub-receive e.   *)
DataMatch(m, e) ==
    /\ RankOf[m.s] = RankOf[e.r] /\ CtxOf[m.s] = CtxOf[e.r]
    /\ TagOf[m.s] + m.from + 1 = TagOf[e.r] + e.into + 1

(* pscom delivers a data message into the oldest matching sub-receive, whose *)
(* completion (receive_done) decrements the counter of the partitioned      *)
(* request. The status that it sets, MPI_ERR_TRUNCATE too, is left out.     *)
RecvData(p) ==
    /\ toR[p] # <<>> /\ Head(toR[p]).type = "DATA"
    /\ \E i \in DOMAIN recvq :
          LET m == Head(toR[p])
              e == recvq[i]
          IN  /\ DataMatch(m, e)
              /\ \A j \in 1..(i - 1) : ~DataMatch(m, recvq[j])
              /\ rreq' = [rreq EXCEPT ![e.r].cc = @ - 1,
                            ![e.r].got = @ \cup {[s |-> m.s, round |-> m.round,
                                                  from |-> m.from, into |-> e.into]}]
              /\ recvq' = RemoveAt(recvq, i)
    /\ toR' = [toR EXCEPT ![p] = Tail(@)]
    /\ UNCHANGED <<sreq, posted, unexp, toS, crashed>>

(* A completed MPI_Wait or MPI_Test on the receive request.                 *)
WaitRecv(r) ==
    /\ rreq[r].st = "active" /\ rreq[r].cc = 0
    /\ rreq' = [rreq EXCEPT ![r].st = "inactive"]
    /\ UNCHANGED <<sreq, posted, unexp, recvq, toR, toS, crashed>>

(* MPI_Request_free of an inactive receive request.                         *)
FreeRecv(r) ==
    /\ rreq[r].st = "inactive" /\ (EarlyFree \/ rreq[r].round = MaxRounds)
    /\ rreq' = [rreq EXCEPT ![r].st = "freed", ![r].ref = @ - 1]
    /\ UNCHANGED <<sreq, posted, unexp, recvq, toR, toS, crashed>>

-----------------------------------------------------------------------------
SendStep(s) ==
    \/ Psend_init(s) \/ PsendStart(s) \/ WaitSend(s) \/ FreeSend(s)
    \/ \E p \in 0..(Parts[s] - 1) : Pready(s, p)
    \/ \E i \in sreq[s].out : SendSubDone(s, i)

RecvStep(r) == Precv_init(r) \/ PrecvStart(r) \/ WaitRecv(r) \/ FreeRecv(r)

Deliver(p) == RecvSendInit(p) \/ RecvData(p) \/ RecvCts(p)

(* Every request has been used for all its rounds and freed. *)
Terminated ==
    /\ \A s \in SReq : sreq[s].st = "freed"
    /\ \A r \in RReq : rreq[r].st = "freed"
    /\ UNCHANGED vars

Next ==
    \/ /\ ~crashed
       /\ \/ \E s \in SReq : SendStep(s)
          \/ \E r \in RReq : RecvStep(r)
          \/ \E p \in Rank : Deliver(p)
    \/ Terminated

Spec == Init /\ [][Next]_vars

(* The program keeps calling MPI (which drives the progress engine), so     *)
(* some enabled step is always eventually taken; every step uses up a       *)
(* bounded resource, so nothing stronger is needed.                         *)
FairSpec == Spec /\ WF_vars(Next)

-----------------------------------------------------------------------------
(* Properties *)

(* Type invariant: the fields of the requests and the contents of lists and *)
(* channels; an announced request is never announced through a foreign      *)
(* connection.                                                              *)
TypeOK ==
    /\ sreq \in [SReq -> SendRequest]
    /\ rreq \in [RReq -> RecvRequest]
    /\ posted \in Seq(RReq)
    /\ unexp \in Seq(SReq)
    /\ recvq \in Seq(SubRecv)
    /\ toR \in [Rank -> Seq(ToRMessage)]
    /\ toS \in [Rank -> Seq(CtsMessage)]
    /\ crashed \in BOOLEAN

(* A receive request waiting in part_posted_list never matches a SEND_INIT   *)
(* waiting in part_unexp_list: whichever of MPID_Precv_init and the          *)
(* SEND_INIT callback comes second finds its partner.  Otherwise both wait   *)
(* forever.                                                                  *)
NoMissedMatch ==
    \A i \in DOMAIN posted, j \in DOMAIN unexp : ~Match(posted[i], unexp[j])

(* Requests of the same envelope are paired in the order of their            *)
(* initialisation calls on both sides, however SEND_INIT messages, the two   *)
(* lists and the initialisation calls interleave.                            *)
PairedInProgramOrder ==
    \A r \in RReq : rreq[r].peer # NULL => rreq[r].ord = sreq[rreq[r].peer].ord

(* Pointers never dangle: a receive request in part_posted_list is alive     *)
(* (the handshake reference taken by MPID_Precv_init) although the program   *)
(* may have freed it, and the send request that a CTS in flight points to,   *)
(* which the CTS callback writes to, is not freed.                           *)
NoDanglingRequest ==
    /\ \A i \in DOMAIN posted : rreq[posted[i]].ref > 0
    /\ \A p \in Rank : \A k \in DOMAIN toS[p] : sreq[toS[p][k].s].st # "freed"

(* The sub-receives of r that pscom still has to fill. *)
Outstanding(r) == {i \in DOMAIN recvq : recvq[i].r = r}

(* The completion counter of an active request counts exactly the            *)
(* sub-requests not yet issued or not yet complete, although it is set by    *)
(* MPI_Start with a number of sub-requests that the handshake may reduce.    *)
(* An inactive request has nothing outstanding.                              *)
CompletionCounterExact ==
    /\ \A s \in SReq :
          LET q == sreq[s]
          IN  q.cc = Cardinality(q.out)
                     + (IF q.st = "active" /\ q.alloc THEN q.requests - q.ctr ELSE 0)
    /\ \A r \in RReq :
          LET q == rreq[r]
          IN  q.cc = IF q.st = "active" /\ q.peer = NULL THEN q.requests
                     ELSE Cardinality(Outstanding(r))

(* A data message never arrives before its sub-receive is posted: CTS is     *)
(* sent with the posted receives, and the sender sends only after CTS.       *)
NoUnexpectedData ==
    \A p \in Rank :
        toR[p] # <<>> /\ Head(toR[p]).type = "DATA"
            => \E i \in DOMAIN recvq : DataMatch(Head(toR[p]), recvq[i])

(* What a round receives is what the paired send request sent in the same    *)
(* round, sub-request by sub-request.                                        *)
DataOfOwnRound ==
    \A r \in RReq : \A d \in rreq[r].got :
        d.s = rreq[r].peer /\ d.round = rreq[r].round /\ d.from = d.into

(* MPID_Parrived: the completion status of the whole request. *)
Parrived(r) == rreq[r].cc = 0

(* MPID_Parrived never reports a round as arrived before the partner has     *)
(* handed all sub-requests of that round to pscom, for which all partitions  *)
(* must have been marked ready.                                              *)
ArrivedImpliesIssued ==
    \A r \in RReq :
        rreq[r].st = "active" /\ Parrived(r) =>
            /\ rreq[r].peer # NULL
            /\ LET q == sreq[rreq[r].peer]
               IN  q.round > rreq[r].round \/ (q.round = rreq[r].round /\ ~q.alloc)

(* The CTS callback never finds an active send request without part_ready.   *)
NoCrash == ~crashed

(* A round that both partners have started completes on both sides, in       *)
(* whichever order SEND_INIT, the two starts, CTS and the ready marks come.  *)
RoundsComplete ==
    \A s \in SReq, r \in RReq, k \in 1..MaxRounds :
        (Partners(s, r) /\ sreq[s].round >= k /\ rreq[r].round >= k)
            ~> (Completed(s) >= k /\ (rreq[r].round > k \/ rreq[r].st # "active"))

-----------------------------------------------------------------------------
(* The inductive argument behind NoCrash.                                    *)

(* The rounds whose sub-requests have all been handed to pscom. *)
Issued(s) == sreq[s].round - (IF sreq[s].alloc THEN 1 ELSE 0)

(* Sender: part_ready exists only in an active round that is not fully       *)
(* issued, such a round cannot complete, and nothing is issued before CTS.   *)
RoundOK(q) ==
    /\ q.alloc => q.st = "active" /\ q.ctr < q.requests
    /\ q.st # "active" => q.cc = 0
    /\ IsFiniteSet(q.out)
    /\ q.cc >= Cardinality(q.out) + (IF q.alloc THEN q.requests - q.ctr ELSE 0)
    /\ q.alloc /\ q.peer = NULL => q.ctr = 0 /\ q.out = {}
    /\ q.st = "active" => q.round > 0
    /\ q.st = "none" => q.round = 0 /\ q.peer = NULL
    /\ q.st = "active" /\ q.peer # NULL => q.alloc

SendRoundInv == \A s \in SReq : RoundOK(sreq[s])

(* SEND_INIT of s is the k-th message of connection p. *)
InitAt(p, k, s) == toR[p][k].type = "SEND_INIT" /\ toR[p][k].s = s

(* A send request is in flight, unexpected or paired, but only one of these  *)
(* and only once.                                                            *)
AnnouncedOnce ==
    /\ \A p \in Rank : \A k \in 1..Len(toR[p]) : \A s \in SReq : InitAt(p, k, s) =>
          /\ p = RankOf[s] /\ sreq[s].st # "none"
          /\ \A l \in 1..Len(toR[p]) : InitAt(p, l, s) => l = k
          /\ \A j \in 1..Len(unexp) : unexp[j] # s
          /\ \A r \in RReq : rreq[r].peer # s
    /\ \A j \in 1..Len(unexp) :
          /\ sreq[unexp[j]].st # "none"
          /\ \A l \in 1..Len(unexp) : unexp[l] = unexp[j] => l = j
          /\ \A r \in RReq : rreq[r].peer # unexp[j]
    /\ \A r \in RReq : rreq[r].peer # NULL =>
          /\ sreq[rreq[r].peer].st # "none" /\ RankOf[rreq[r].peer] = RankOf[r]
          /\ \A x \in RReq : rreq[x].peer = rreq[r].peer => x = r

(* Before it is paired, a receive request has been started at most once and  *)
(* cannot complete.                                                          *)
UnpairedRecv ==
    /\ \A i \in 1..Len(posted) :
          /\ rreq[posted[i]].peer = NULL /\ rreq[posted[i]].st # "none"
          /\ \A l \in 1..Len(posted) : posted[l] = posted[i] => l = i
    /\ \A r \in RReq : rreq[r].peer = NULL =>
          /\ rreq[r].round = IF rreq[r].st = "active" THEN 1 ELSE 0
          /\ rreq[r].st = "active" => rreq[r].cc >= 1
          /\ \A i \in 1..Len(recvq) : recvq[i].r # r
    /\ \A r \in RReq : rreq[r].st = "none" => rreq[r].peer = NULL

(* Every started round of a paired receive request has exactly one CTS: in   *)
(* flight, stored as the sender's peer, or used up by an issued round; and   *)
(* the receiver is at most one round ahead of what the sender completed.     *)
OneClearToSend ==
    /\ \A p \in Rank : \A k \in 1..Len(toS[p]) :
          LET m == toS[p][k]
          IN  /\ p = RankOf[m.s] /\ rreq[m.r].peer = m.s /\ sreq[m.s].peer = NULL
              /\ rreq[m.r].round = Issued(m.s) + 1
              /\ \A l \in 1..Len(toS[p]) : toS[p][l].s = m.s => l = k
    /\ \A s \in SReq :
          /\ sreq[s].peer # NULL =>
                rreq[sreq[s].peer].peer = s /\ rreq[sreq[s].peer].round = Issued(s) + 1
          /\ (\A r \in RReq : rreq[r].peer # s) => Issued(s) = 0
    /\ \A r \in RReq : rreq[r].peer # NULL =>
          /\ Issued(rreq[r].peer) <= rreq[r].round
          /\ rreq[r].round <= Completed(rreq[r].peer) + 1

(* The inductive invariant of the handshake of separated rounds: the CTS     *)
(* callback finds the request where the protocol expects it.                 *)
HandshakeInv ==
    SendRoundInv /\ AnnouncedOnce /\ UnpairedRecv /\ OneClearToSend /\ NoCrash
=============================================================================
