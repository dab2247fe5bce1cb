---------------------------- MODULE PointToPoint ----------------------------
(***************************************************************************)
(* Point-to-point communication of the PSP device from several senders to  *)
(* one receiver: standard and synchronous sends (mpid_isend.c), receives   *)
(* (mpid_irecv.c), cancel (mpid_cancel.c) and matched probe                 *)
(* (mpid_mprobe.c).                                                         *)
(*                                                                         *)
(* A synchronous send asks for an acknowledgement: its request completes   *)
(* when pscom has sent the message and a DATA_ACK (received) or a          *)
(* CANCEL_DATA_ACK (taken back) has come.  The cancel of a send that has    *)
(* left the process is a message too; the receiver looks for the data in    *)
(* its list of unexpected messages, and says nothing if it is not there.    *)
(* Messages and acknowledgements are known by their envelope only.          *)
(***************************************************************************)
EXTENDS Integers, Sequences, FiniteSets, SequencesExt

CONSTANTS
    Send, Recv,   \* send and receive requests: numbers, in program order
    Sender,       \* sending processes, each with one connection to the receiver
    SrcOf,        \* the sender of each send request
    Env,          \* envelopes: tag and context id
    Sels,         \* selectors of receives: sources and envelopes they accept
    Short,        \* the receive requests whose buffer is smaller than the message
    UniqueSync    \* TRUE: the program has at most one synchronous send per
                  \* envelope and sender that it has not completed

ASSUME SendAssumption ==
    /\ Send \subseteq Nat /\ Recv \subseteq Nat /\ Short \subseteq Recv
    /\ SrcOf \in [Send -> Sender] /\ UniqueSync \in BOOLEAN
ASSUME SelAssumption == Sels \subseteq [srcs: SUBSET Sender, envs: SUBSET Env]

VARIABLES
    sreq,     \* the send requests
    rreq,     \* the receive requests
    line,     \* line[s]: headers on the way from s, those not yet started included
    posted,   \* receive requests posted to pscom, oldest first
    unexp,    \* pscom's list of unexpected data messages, oldest first
    acks,     \* acks[s]: acknowledgements on their way to s
    ackq,     \* ackq[s]: requests of s whose MPID_PSP_RecvAck is posted, oldest first
    uack      \* uack[s]: acknowledgements that nobody at s waits for yet

vars == <<sreq, rreq, line, posted, unexp, acks, ackq, uack>>

-----------------------------------------------------------------------------
DataTypes == {"DATA", "DATA_REQUEST_ACK"}
Reserved == {"MPROBE_RESERVED_REQUEST", "MPROBE_RESERVED_REQUEST_ACK"}
CANCEL == "CANCEL_DATA_REQUEST_ACK"

NoSel == [srcs |-> {}, envs |-> {}]

(* A send request has: its type; env; pio, what pscom has done with the        *)
(* message (posted, started, done, cancelled); cc, the completion counter; bit, *)
(* the cancel bit of the status; asked, whether cancel was called; out, what     *)
(* MPI_Wait told the program.                                                    *)
(* A receive request has: st (posted, message, matched, done, cancelled); sel;   *)
(* type, of the header of the message msg that was matched or, in state          *)
(* "message", reserved; msg, the set of that message.                            *)

(* A header carries its type, and the envelope and source of id. *)
Header(m, type) == [id |-> m, type |-> type]

Init ==
    /\ sreq = [m \in Send |-> [type |-> "none", env |-> {}, pio |-> "none", cc |-> 0,
                               bit |-> FALSE, asked |-> FALSE, out |-> "none"]]
    /\ rreq = [r \in Recv |-> [st |-> "none", sel |-> NoSel,
                               type |-> "none", msg |-> {}]]
    /\ line = [s \in Sender |-> <<>>]
    /\ posted = <<>> /\ unexp = <<>>
    /\ acks = [s \in Sender |-> <<>>]
    /\ ackq = [s \in Sender |-> <<>>]
    /\ uack = [s \in Sender |-> <<>>]

-----------------------------------------------------------------------------
(* Sender *)

(* MPIDI_PSP_Isend and MPIDI_PSP_Issend. *)
Sendtype(m, e, type) ==
    /\ sreq[m].type = "none"
    /\ \A x \in Send : SrcOf[x] = SrcOf[m] /\ x < m => sreq[x].type # "none"
    /\ UniqueSync /\ type = "DATA_REQUEST_ACK" =>
          \A x \in Send : SrcOf[x] = SrcOf[m] /\ sreq[x].type = type /\ sreq[x].env = e
                             => sreq[x].out # "none"
    /\ sreq' = [sreq EXCEPT ![m] = [type |-> type, env |-> e, pio |-> "posted", cc |-> 1,
                                    bit |-> FALSE, asked |-> FALSE, out |-> "none"]]
    /\ line' = [line EXCEPT ![SrcOf[m]] = Append(@, Header(m, type))]
    /\ UNCHANGED <<rreq, posted, unexp, acks, ackq, uack>>

(* pscom starts the sends of a connection in their order. *)
SendStart(s) ==
    LET i == SelectInSeq(line[s], LAMBDA h : h.type # CANCEL /\ sreq[h.id].pio = "posted")
    IN  /\ i # 0
        /\ sreq' = [sreq EXCEPT ![line[s][i].id].pio = "started"]
        /\ UNCHANGED <<rreq, line, posted, unexp, acks, ackq, uack>>

(* Mutant of AcceptAck: the envelope is not compared.                       *)
MutAnyAck(m, a) == TRUE

(* cb_accept_ack *)
AcceptAck(m, a) == sreq[a.id].env = sreq[m].env

(* cb_io_done_ack: request q gets acknowledgement a. *)
AckDone(q, a) == [q EXCEPT !.cc = @ - 1, !.bit = @ \/ a.type = "CANCEL_DATA_ACK"]

(* sendrequest_common_done: a synchronous send goes on to wait for its        *)
(* acknowledgement (MPID_PSP_RecvAck), which may be there already.            *)
SendDone(m) ==
    LET s == SrcOf[m]
        i == SelectInSeq(uack[s], LAMBDA a : AcceptAck(m, a))
        q == [sreq[m] EXCEPT !.pio = "done"]
    IN  /\ sreq[m].pio = "started"
        /\ \/ /\ sreq[m].type = "DATA"
              /\ sreq' = [sreq EXCEPT ![m] = [q EXCEPT !.cc = @ - 1]]
              /\ UNCHANGED <<ackq, uack>>
           \/ /\ sreq[m].type = "DATA_REQUEST_ACK" /\ i = 0
              /\ sreq' = [sreq EXCEPT ![m] = q]
              /\ ackq' = [ackq EXCEPT ![s] = Append(@, m)]
              /\ UNCHANGED uack
           \/ /\ sreq[m].type = "DATA_REQUEST_ACK" /\ i # 0
              /\ sreq' = [sreq EXCEPT ![m] = AckDone(q, uack[s][i])]
              /\ uack' = [uack EXCEPT ![s] = RemoveAt(@, i)]
              /\ UNCHANGED ackq
        /\ UNCHANGED <<rreq, line, posted, unexp, acks>>

(* An acknowledgement arrives: the oldest request that accepts it takes it.   *)
RecvAck(s) ==
    /\ acks[s] # <<>>
    /\ LET a == Head(acks[s])
           i == SelectInSeq(ackq[s], LAMBDA m : AcceptAck(m, a))
       IN  IF i = 0
           THEN /\ uack' = [uack EXCEPT ![s] = Append(@, a)]
                /\ UNCHANGED <<sreq, ackq>>
           ELSE /\ sreq' = [sreq EXCEPT ![ackq[s][i]] = AckDone(@, a)]
                /\ ackq' = [ackq EXCEPT ![s] = RemoveAt(@, i)]
                /\ UNCHANGED uack
    /\ acks' = [acks EXCEPT ![s] = Tail(@)]
    /\ UNCHANGED <<rreq, line, posted, unexp>>

(* MPID_Cancel_send: pscom can take back a message it has not started; for a *)
(* synchronous one that is gone the receiver is asked; any other stays.       *)
Cancel_send(m) ==
    /\ sreq[m].type # "none" /\ sreq[m].out = "none" /\ ~sreq[m].asked
    /\ IF sreq[m].pio = "posted"
       THEN /\ sreq' = [sreq EXCEPT ![m].asked = TRUE, ![m].bit = TRUE,
                                    ![m].pio = "cancelled", ![m].cc = @ - 1]
            /\ line' = [line EXCEPT ![SrcOf[m]] = RemoveFirst(@, Header(m, sreq[m].type))]
       ELSE /\ sreq' = [sreq EXCEPT ![m].asked = TRUE]
            /\ IF sreq[m].type = "DATA_REQUEST_ACK"
               THEN line' = [line EXCEPT ![SrcOf[m]] = Append(@, Header(m, CANCEL))]
               ELSE UNCHANGED line
    /\ UNCHANGED <<rreq, posted, unexp, acks, ackq, uack>>

(* MPI_Wait or MPI_Test on a complete request. *)
WaitSend(m) ==
    /\ sreq[m].type # "none" /\ sreq[m].cc = 0 /\ sreq[m].out = "none"
    /\ sreq' = [sreq EXCEPT ![m].out = IF sreq[m].bit THEN "cancelled" ELSE "done"]
    /\ UNCHANGED <<rreq, line, posted, unexp, acks, ackq, uack>>

-----------------------------------------------------------------------------
(* Receiver *)

(* cb_accept_data *)
AcceptData(sel, h) ==
    h.type \in DataTypes /\ SrcOf[h.id] \in sel.srcs /\ sreq[h.id].env \in sel.envs

(* Mutant of AcceptCancel: reserved messages are accepted too.               *)
MutEatReserved(c, h) ==
    /\ h.type \in {"DATA_REQUEST_ACK", "MPROBE_RESERVED_REQUEST_ACK"}
    /\ SrcOf[h.id] = SrcOf[c.id] /\ sreq[h.id].env = sreq[c.id].env

(* cb_accept_cancel_data, for the cancel header c. *)
AcceptCancel(c, h) ==
    /\ h.type = "DATA_REQUEST_ACK"
    /\ SrcOf[h.id] = SrcOf[c.id] /\ sreq[h.id].env = sreq[c.id].env

Matched(q, h) == [q EXCEPT !.st = "matched", !.type = h.type, !.msg = {h.id}]

(* A data message arrives: the oldest posted receive that accepts it takes it, *)
(* otherwise it waits in the list of unexpected messages.                      *)
RecvData(s) ==
    /\ line[s] # <<>> /\ Head(line[s]).type # CANCEL
    /\ LET h == Head(line[s])
           i == SelectInSeq(posted, LAMBDA r : AcceptData(rreq[r].sel, h))
       IN  /\ sreq[h.id].pio # "posted"
           /\ IF i = 0
              THEN unexp' = Append(unexp, h) /\ UNCHANGED <<rreq, posted>>
              ELSE /\ rreq' = [rreq EXCEPT ![posted[i]] = Matched(@, h)]
                   /\ posted' = RemoveAt(posted, i)
                   /\ UNCHANGED unexp
    /\ line' = [line EXCEPT ![s] = Tail(@)]
    /\ UNCHANGED <<sreq, acks, ackq, uack>>

(* Mutant of RecvCancel: a cancel that comes too late is answered as well.    *)
MutAnswerAlways(s) ==
    /\ line[s] # <<>> /\ Head(line[s]).type = CANCEL
    /\ LET i == SelectInSeq(unexp, LAMBDA h : AcceptCancel(Head(line[s]), h))
       IN  IF i = 0
           THEN /\ acks' = [acks EXCEPT ![s] =
                              Append(@, [type |-> "DATA_ACK", id |-> Head(line[s]).id])]
                /\ UNCHANGED unexp
           ELSE /\ acks' = [acks EXCEPT ![s] =
                              Append(@, [type |-> "CANCEL_DATA_ACK", id |-> unexp[i].id])]
                /\ unexp' = RemoveAt(unexp, i)
    /\ line' = [line EXCEPT ![s] = Tail(@)]
    /\ UNCHANGED <<sreq, rreq, posted, ackq, uack>>

(* MPID_do_recv_cancel_data_request_ack: an unexpected synchronous message is *)
(* eaten and its sender told so; otherwise the cancel is forgotten.           *)
RecvCancel(s) ==
    /\ line[s] # <<>> /\ Head(line[s]).type = CANCEL
    /\ LET i == SelectInSeq(unexp, LAMBDA h : AcceptCancel(Head(line[s]), h))
       IN  IF i = 0
           THEN UNCHANGED <<unexp, acks>>
           ELSE /\ acks' = [acks EXCEPT ![s] =
                              Append(@, [type |-> "CANCEL_DATA_ACK", id |-> unexp[i].id])]
                /\ unexp' = RemoveAt(unexp, i)
    /\ line' = [line EXCEPT ![s] = Tail(@)]
    /\ UNCHANGED <<sreq, rreq, posted, ackq, uack>>

(* MPIDI_PSP_Irecv *)
Irecv(r, sel) ==
    LET i == SelectInSeq(unexp, LAMBDA h : AcceptData(sel, h))
        q == [st |-> "posted", sel |-> sel, type |-> "none", msg |-> {}]
    IN  /\ rreq[r].st = "none"
        /\ \A x \in Recv : x < r => rreq[x].st # "none"
        /\ IF i = 0
           THEN /\ rreq' = [rreq EXCEPT ![r] = q]
                /\ posted' = Append(posted, r)
                /\ UNCHANGED unexp
           ELSE /\ rreq' = [rreq EXCEPT ![r] = Matched(q, unexp[i])]
                /\ unexp' = RemoveAt(unexp, i)
                /\ UNCHANGED posted
        /\ UNCHANGED <<sreq, line, acks, ackq, uack>>

(* MPID_Mprobe, and MPID_Improbe with flag = 1: the first message accepted is *)
(* reserved by a change of its type (cb_accept_data_mprobe).                  *)
Improbe(r, sel) ==
    LET i == SelectInSeq(unexp, LAMBDA h : AcceptData(sel, h))
        t == IF unexp[i].type = "DATA" THEN "MPROBE_RESERVED_REQUEST"
                                       ELSE "MPROBE_RESERVED_REQUEST_ACK"
    IN  /\ rreq[r].st = "none" /\ i # 0
        /\ \A x \in Recv : x < r => rreq[x].st # "none"
        /\ unexp' = [unexp EXCEPT ![i].type = t]
        /\ rreq' = [rreq EXCEPT ![r] = [st |-> "message", sel |-> sel,
                                        type |-> t, msg |-> {unexp[i].id}]]
        /\ UNCHANGED <<sreq, line, posted, acks, ackq, uack>>

(* MPIDI_PSP_Imrecv: cb_accept_data_mrecv accepts the reserved message only.  *)
Imrecv(r) ==
    LET i == SelectInSeq(unexp, LAMBDA h : h.type \in Reserved /\ rreq[r].msg = {h.id})
    IN  /\ rreq[r].st = "message" /\ i # 0
        /\ rreq' = [rreq EXCEPT ![r] = Matched(@, unexp[i])]
        /\ unexp' = RemoveAt(unexp, i)
        /\ UNCHANGED <<sreq, line, posted, acks, ackq, uack>>

(* Mutant of Restored: the type stays as the probe has left it.              *)
MutNotRestored(type) == type

(* mreceive_done restores the type of a message that was reserved. *)
Restored(type) ==
    CASE type = "MPROBE_RESERVED_REQUEST" -> "DATA"
      [] type = "MPROBE_RESERVED_REQUEST_ACK" -> "DATA_REQUEST_ACK"
      [] OTHER -> type

(* receive_done: a synchronous message that fits is acknowledged. *)
RecvDone(r) ==
    /\ rreq[r].st = "matched"
    /\ rreq' = [rreq EXCEPT ![r].st = "done"]
    /\ \E m \in rreq[r].msg :
          IF Restored(rreq[r].type) = "DATA_REQUEST_ACK" /\ r \notin Short
          THEN acks' = [acks EXCEPT ![SrcOf[m]] = Append(@, [type |-> "DATA_ACK", id |-> m])]
          ELSE UNCHANGED acks
    /\ UNCHANGED <<sreq, line, posted, unexp, ackq, uack>>

(* MPID_Cancel_recv of a request that is still posted; it has no effect on    *)
(* any other.                                                                *)
Cancel_recv(r) ==
    /\ rreq[r].st = "posted"
    /\ rreq' = [rreq EXCEPT ![r].st = "cancelled"]
    /\ posted' = RemoveFirst(posted, r)
    /\ UNCHANGED <<sreq, line, unexp, acks, ackq, uack>>

-----------------------------------------------------------------------------
(* The progress engine on both sides. *)
Progress ==
    \/ \E s \in Sender : SendStart(s) \/ RecvAck(s) \/ RecvData(s) \/ RecvCancel(s)
    \/ \E m \in Send : SendDone(m)
    \/ \E r \in Recv : RecvDone(r)

Next ==
    \/ Progress
    \/ \E m \in Send : \/ \E e \in Env, type \in DataTypes : Sendtype(m, e, type)
                       \/ Cancel_send(m) \/ WaitSend(m)
    \/ \E r \in Recv : \/ \E sel \in Sels : Irecv(r, sel) \/ Improbe(r, sel)
                       \/ Imrecv(r) \/ Cancel_recv(r)

Spec == Init /\ [][Next]_vars

(* pscom makes progress, and the program receives what it has probed for.     *)
FairSpec ==
    Spec /\ WF_vars(Progress) /\ WF_vars(\E r \in Recv : Imrecv(r))

-----------------------------------------------------------------------------
(* Properties *)

InSeq(seq, m) == \E i \in DOMAIN seq : seq[i].id = m /\ seq[i].type # CANCEL

(* What has become of the message of m. *)
Fate(m) ==
    IF sreq[m].type = "none" THEN "none"
    ELSE IF \E r \in Recv : rreq[r].msg = {m} THEN "matched"
    ELSE IF InSeq(line[SrcOf[m]], m) \/ InSeq(unexp, m) THEN "pending"
    ELSE "cancelled"

(* The device implements the promise of MpiMessages: order, no loss, no        *)
(* duplicate, cancel only on request, and a report that is true.  A message    *)
(* that is reserved by a probe counts as received by it.                       *)
Messages == INSTANCE MpiMessages WITH
    smsg <- [m \in Send |->
               [fate |-> Fate(m), sync |-> sreq[m].type = "DATA_REQUEST_ACK",
                asked |-> sreq[m].asked, out |-> sreq[m].out, env |-> sreq[m].env]],
    rmsg <- [r \in Recv |->
               [st |-> IF rreq[r].st = "message" THEN "matched" ELSE rreq[r].st,
                sel |-> rreq[r].sel, msg |-> rreq[r].msg]]

MessagesSpec == Messages!Spec

(* An acknowledgement on its way belongs to a request that still waits for     *)
(* one: none is left over for a later request with the same envelope to take.  *)
NoStaleAck ==
    \A s \in Sender : \A a \in Range(acks[s]) \cup Range(uack[s]) :
        sreq[a.id].cc > 0 /\ sreq[a.id].out = "none"

(* Between MPI_Improbe and MPI_Imrecv the message stays where it is: no other   *)
(* receive, probe or cancel takes it.                                          *)
ReservedUntilReceived ==
    \A r \in Recv : rreq[r].st = "message" =>
        \E h \in Range(unexp) : rreq[r].msg = {h.id} /\ rreq[r].type = h.type

(* A synchronous send that is matched or whose cancel was asked for completes,  *)
(* unless the receive buffer was too small: receive_done then sends no          *)
(* acknowledgement.                                                             *)
SsendCompletes ==
    \A m \in Send :
        sreq[m].type = "DATA_REQUEST_ACK" /\ (sreq[m].asked \/ Fate(m) = "matched")
            ~> sreq[m].cc = 0 \/ \E r \in Recv : rreq[r].msg = {m} /\ r \in Short
=============================================================================
