----------------------------- MODULE PartLayout -----------------------------
(***************************************************************************)
(* Where partitioned data goes: one round of one paired send and receive   *)
(* request of mpid_part.c, at the level of buffer elements.                *)
(*                                                                         *)
(* The program sends sp partitions of sc elements and receives rp          *)
(* partitions of rc elements, sp * sc = rp * rc.  Both sides agree on      *)
(* min(sp, rp) sub-requests and each computes for itself which elements a  *)
(* sub-request covers.  The handshake itself is the subject of PartComm.   *)
(***************************************************************************)
EXTENDS Integers, FiniteSets

CONSTANTS
    Shapes,    \* the quadruples [sp, sc, rp, rc] to look at
    NULL       \* a value that was not (yet) written for this round

ASSUME ShapeAssumption ==
    \A h \in Shapes :
        /\ h \in [sp: Nat \ {0}, sc: Nat \ {0}, rp: Nat \ {0}, rc: Nat \ {0}]
        /\ h.sp * h.sc = h.rp * h.rc
ASSUME NullAssumption == NULL \notin Int

VARIABLES
    shape,     \* the arguments of MPI_Psend_init and MPI_Precv_init
    cts,       \* the sender has received CTS
    ready,     \* the partitions marked ready
    net,       \* data messages in flight
    issued,    \* sub-requests handed to MPID_Isend
    arrived,   \* sub-requests whose MPID_Irecv is complete
    recvbuf,   \* the receive buffer: which element of the send buffer is where
    badCount   \* MPID_Isend or MPID_Irecv was called with a negative count

vars == <<shape, cts, ready, net, issued, arrived, recvbuf, badCount>>

-----------------------------------------------------------------------------
Total == shape.sp * shape.sc

(* MPID_part_check_num_requests on both sides: the smaller number of         *)
(* partitions, which distribute_partitions made the number of sub-requests.  *)
Requests == IF shape.sp < shape.rp THEN shape.sp ELSE shape.rp

(* part_per_req of a side with P partitions. *)
PartPerReq(P) == P \div Requests + (IF P % Requests > 0 THEN 1 ELSE 0)

(* The elements of sub-request i on a side with P partitions of c elements:  *)
(* "last request could be smaller, take the rest".                           *)
SubCount(P, c, i) ==
    LET elements == c * PartPerReq(P)
    IN  IF i = Requests - 1 THEN c * P - i * elements ELSE elements

SendCount(i) == SubCount(shape.sp, shape.sc, i)
RecvCount(i) == SubCount(shape.rp, shape.rc, i)

(* Mutant of SendOffset: a sub-request is taken for a single partition.      *)
MutPartitionOffset(i) == i * shape.sc

(* MPID_part_issue_data_send computes the offset after it has adjusted       *)
(* elements for the last sub-request, MPID_part_issue_data_recv before.      *)
SendOffset(i) == i * SendCount(i)
RecvOffset(i) == i * (shape.rc * PartPerReq(shape.rp))

Subs == 0..(Requests - 1)
PartitionOf(e) == e \div shape.sc

(* Mutant of SubReady: the last partition of the sub-request is forgotten.   *)
MutOneShort(i, rdy) ==
    LET ppr == PartPerReq(shape.sp)
    IN  \A p \in (i * ppr)..((i + 1) * ppr - 2) : p < shape.sp => p \in rdy

(* MPID_part_send_if_ready. *)
SubReady(i, rdy) ==
    LET ppr == PartPerReq(shape.sp)
    IN  \A p \in (i * ppr)..((i + 1) * ppr - 1) : p < shape.sp => p \in rdy

(* What the send buffer holds at element e: the program fills a partition    *)
(* before it marks it ready.                                                 *)
Value(e, rdy) ==
    IF e \in 0..(Total - 1) /\ PartitionOf(e) \in rdy THEN e ELSE NULL

(* The data message of sub-request i. *)
Message(i, rdy) ==
    [sub |-> i, data |-> [k \in 0..(SendCount(i) - 1) |-> Value(SendOffset(i) + k, rdy)]]

-----------------------------------------------------------------------------
Init ==
    /\ shape \in Shapes
    /\ cts = FALSE /\ ready = {} /\ net = {} /\ issued = {} /\ arrived = {}
    /\ recvbuf = [e \in 0..(Total - 1) |-> NULL]
    /\ badCount = FALSE

(* MPID_part_check_data_transmission over the sub-requests cand. *)
Transmit(cand, rdy) ==
    LET now == {i \in cand : SubReady(i, rdy)}
    IN  /\ issued' = issued \cup now
        /\ net' = net \cup {Message(i, rdy) : i \in now}
        /\ badCount' = (badCount \/ \E i \in now : SendCount(i) < 0)

(* MPID_do_recv_part_cts; the receiver has posted its sub-receives.          *)
RecvCts ==
    /\ ~cts
    /\ cts' = TRUE
    /\ IF \E i \in Subs : RecvCount(i) < 0
       THEN badCount' = TRUE /\ UNCHANGED <<issued, net>>
       ELSE Transmit(Subs, ready)
    /\ UNCHANGED <<shape, ready, arrived, recvbuf>>

(* MPID_Pready_range of one partition. *)
Pready(p) ==
    /\ p \notin ready
    /\ ready' = ready \cup {p}
    /\ IF cts THEN Transmit({p \div PartPerReq(shape.sp)}, ready')
       ELSE UNCHANGED <<issued, net, badCount>>
    /\ UNCHANGED <<shape, cts, arrived, recvbuf>>

(* A data message completes its sub-receive; what does not fit is cut off.   *)
Arrive(m) ==
    /\ m \in net
    /\ net' = net \ {m}
    /\ arrived' = arrived \cup {m.sub}
    /\ recvbuf' = [e \in DOMAIN recvbuf |->
                     LET k == e - RecvOffset(m.sub)
                     IN  IF k \in DOMAIN m.data /\ k < RecvCount(m.sub)
                         THEN m.data[k] ELSE recvbuf[e]]
    /\ UNCHANGED <<shape, cts, ready, issued, badCount>>

(* Mutant of Complete: the first sub-receive completes the whole request.    *)
MutFirstCompletes == arrived # {}

(* The receive request is complete. *)
Complete == arrived = Subs

Done == Complete /\ UNCHANGED vars

Next ==
    \/ /\ ~badCount
       /\ \/ RecvCts
          \/ \E p \in 0..(shape.sp - 1) : Pready(p)
          \/ \E m \in net : Arrive(m)
    \/ Done

Spec == Init /\ [][Next]_vars

-----------------------------------------------------------------------------
(* No sub-request is sent while one of the elements it covers still belongs  *)
(* to a partition that the program has not marked ready.                     *)
OnlyReadyDataSent ==
    \A m \in net : \A k \in DOMAIN m.data : m.data[k] # NULL

(* No element ever lands at another place than its own, and a sub-request    *)
(* fills all of the elements the receiver waits for, whatever the order in   *)
(* which partitions become ready and messages arrive.                        *)
Placed ==
    \A e \in 0..(Total - 1) :
        /\ recvbuf[e] \in {NULL, e}
        /\ (\E i \in arrived : e \in RecvOffset(i)..(RecvOffset(i) + RecvCount(i) - 1))
              => recvbuf[e] = e

(* When the receive request is complete the whole buffer has arrived.        *)
WholeBuffer == Complete => \A e \in 0..(Total - 1) : recvbuf[e] = e
=============================================================================
