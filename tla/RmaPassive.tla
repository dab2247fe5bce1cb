----------------------------- MODULE RmaPassive -----------------------------
(***************************************************************************)
(* Passive target synchronisation of one MPI window in the PSP device:      *)
(* lock, lock_all, unlock, unlock_all, flush and flush_all                  *)
(* (mpid_rma_sync.c), with the counters that the one-sided operations       *)
(* (mpid_rma_put.c, mpid_rma_get.c, mpid_rma_accumulate.c) keep for them.   *)
(*                                                                         *)
(* Every rank is an origin (org) and a target (tgt).  Requests of an        *)
(* origin are handled by callbacks in the target's progress engine.  The    *)
(* callbacks of UNLOCK and FLUSH wait, in a nested progress loop, until     *)
(* all operations the origin has counted have arrived; while they wait,     *)
(* the target's own program stands still and further callbacks run on top.  *)
(* Data and control messages are not ordered with each other: small         *)
(* messages overtake large ones, whose data pscom transfers later.          *)
(***************************************************************************)
EXTENDS Integers, Sequences, FiniteSets

CONSTANTS
    N,          \* bound on the number of ranks
    Scenarios,  \* the communicators and programs of interest
    Ordering    \* enable_rma_accumulate_ordering

Rank == 0..(N - 1)

Scenario ==
    [n: 2..N,                   \* the size of the window's communicator
     targets: SUBSET Rank,      \* the ranks whose window the program locks one by one
     modes: SUBSET BOOLEAN,     \* the lock types it uses, TRUE for MPI_LOCK_EXCLUSIVE
     alls: BOOLEAN,             \* it also uses lock_all, unlock_all and flush_all
     wrong: BOOLEAN,            \* it also calls them where they return MPI_ERR_RMA_SYNC
     maxops: Nat]               \* bound on the operations in one epoch

ASSUME RankAssumption == N \in Nat \ {0, 1}
ASSUME ProgramAssumption ==
    /\ Ordering \in BOOLEAN
    /\ Scenarios \subseteq Scenario
    /\ \A s \in Scenarios : s.targets \subseteq 0..(s.n - 1)

VARIABLES
    scn,      \* the scenario
    org,      \* origin side of the window at each rank
    tgt,      \* target side of the window at each rank
    flight,   \* flight[p][t]: puts and accumulates from p to t that have not arrived
    req, ans  \* requests of origins and answers of targets in flight

vars == <<scn, org, tgt, flight, req, ans>>

(* The ranks of the window's communicator. *)
Member == 0..(scn.n - 1)

-----------------------------------------------------------------------------
LockStates == {"UNLOCKED", "LOCKED", "LOCKED_ALL"}

(* The call a process is in; dest is the rank it deals with at the moment.  *)
Call == [op: {"none", "lock", "lockWait", "unlock", "unlockWait", "flush", "flushWait",
              "flushAll", "flushAllWait"},
         dest: Rank, excl: BOOLEAN, all: BOOLEAN]

Idle == [op |-> "none", dest |-> 0, excl |-> FALSE, all |-> FALSE]

Origin ==
    [call: Call,
     remote: [Rank -> LockStates],    \* remote_lock_state
     mode: [Rank -> BOOLEAN],         \* the lock type asked for last (history)
     epoch: {"NONE", "LOCK"},         \* epoch_state
     locks: Nat,                      \* epoch_lock_count
     puts: [Rank -> Nat],             \* rma_puts_accs
     pend: [Rank -> Nat],             \* rma_local_pending_rank
     accs: [Rank -> Nat],             \* those of pend that are accumulates
     accFlag: [Rank -> BOOLEAN]]      \* rma_pending_accumulates

(* A request, and an UNLOCK or FLUSH callback that waits for operations.    *)
Request == [type: {"LOCK", "UNLOCK", "FLUSH"}, src: Rank, dst: Rank,
            excl: BOOLEAN, n: Nat]

Target ==
    [cnt: Int, excl: BOOLEAN,         \* lock_cnt, lock_exclusive
     list: Seq(Request),              \* lock_list
     src: [Rank -> Int],              \* rma_source_rank_received
     recvd: Int,                      \* rma_puts_accs_received
     stack: Seq(Request)]             \* callbacks waiting, the running one first

Answer == [type: {"LOCK", "UNLOCK", "FLUSH"}, src: Rank, dst: Rank]

Init ==
    /\ scn \in Scenarios
    /\ org = [p \in Rank |->
                [call |-> Idle, remote |-> [t \in Rank |-> "UNLOCKED"],
                 mode |-> [t \in Rank |-> FALSE], epoch |-> "NONE", locks |-> 0,
                 puts |-> [t \in Rank |-> 0], pend |-> [t \in Rank |-> 0],
                 accs |-> [t \in Rank |-> 0], accFlag |-> [t \in Rank |-> FALSE]]]
    /\ tgt = [t \in Rank |->
                [cnt |-> 0, excl |-> FALSE, list |-> <<>>, src |-> [p \in Rank |-> 0],
                 recvd |-> 0, stack |-> <<>>]]
    /\ flight = [p \in Rank |-> [t \in Rank |-> 0]]
    /\ req = {} /\ ans = {}

-----------------------------------------------------------------------------
(* Target side. *)

(* Mutant of MayLock: lock_exclusive is not looked at.                      *)
MutIgnoreExclusive(w, excl) == w.cnt = 0 \/ ~excl

(* do_trylock: whether it succeeds, and what it does then. *)
MayLock(w, excl) == w.cnt = 0 \/ (~w.excl /\ ~excl)
Lock(w, excl) == [w EXCEPT !.cnt = @ + 1, !.excl = excl]

LockAnswer(t, p) == [type |-> "LOCK", src |-> t, dst |-> p]

(* do_unlock lets only the head of lock_list try. *)
HeadMayLock(w) == w.list # <<>> /\ MayLock([w EXCEPT !.cnt = @ - 1], Head(w.list).excl)

(* Mutant of DoUnlock: nobody in lock_list is woken.                        *)
MutNoWakeup(w) == [w EXCEPT !.cnt = @ - 1]

DoUnlock(w) ==
    LET u == [w EXCEPT !.cnt = @ - 1]
    IN  IF HeadMayLock(w)
        THEN [Lock(u, Head(u.list).excl) EXCEPT !.list = Tail(@)]
        ELSE u

Woken(t, w) == IF HeadMayLock(w) THEN {LockAnswer(t, Head(w.list).src)} ELSE {}

(* Mutant of RecvLockReq: list_add instead of list_add_tail.                *)
MutLifoQueue(m) ==
    /\ m \in req /\ m.type = "LOCK"
    /\ IF MayLock(tgt[m.dst], m.excl)
       THEN /\ tgt' = [tgt EXCEPT ![m.dst] = Lock(@, m.excl)]
            /\ ans' = ans \cup {LockAnswer(m.dst, m.src)}
       ELSE /\ tgt' = [tgt EXCEPT ![m.dst].list = <<m>> \o @]
            /\ UNCHANGED ans
    /\ req' = req \ {m}
    /\ UNCHANGED <<scn, org, flight>>

(* MPID_do_recv_rma_lock_req and do_lock. *)
RecvLockReq(m) ==
    /\ m \in req /\ m.type = "LOCK"
    /\ IF MayLock(tgt[m.dst], m.excl)
       THEN /\ tgt' = [tgt EXCEPT ![m.dst] = Lock(@, m.excl)]
            /\ ans' = ans \cup {LockAnswer(m.dst, m.src)}
       ELSE /\ tgt' = [tgt EXCEPT ![m.dst].list = Append(@, m)]
            /\ UNCHANGED ans
    /\ req' = req \ {m}
    /\ UNCHANGED <<scn, org, flight>>

(* Mutant of EndCallback: rma_puts_accs_received is not reduced.             *)
MutKeepReceived(t, w, h) ==
    /\ tgt' = [tgt EXCEPT ![t] = IF h.type = "UNLOCK" THEN DoUnlock(w) ELSE w]
    /\ ans' = ans \cup {[type |-> h.type, src |-> t, dst |-> h.src]}
                  \cup (IF h.type = "UNLOCK" THEN Woken(t, w) ELSE {})

(* The end of the UNLOCK or FLUSH callback h at t, whose window is w: the    *)
(* answer is sent and, for UNLOCK, the lock released.                        *)
EndCallback(t, w, h) ==
    LET v == [w EXCEPT !.recvd = @ - h.n]
    IN  /\ tgt' = [tgt EXCEPT ![t] = IF h.type = "UNLOCK" THEN DoUnlock(v) ELSE v]
        /\ ans' = ans \cup {[type |-> h.type, src |-> t, dst |-> h.src]}
                      \cup (IF h.type = "UNLOCK" THEN Woken(t, v) ELSE {})

(* Mutant of RecvCounter: it does not wait for the operations.               *)
MutNoWait(m) ==
    /\ m \in req /\ m.type \in {"UNLOCK", "FLUSH"}
    /\ EndCallback(m.dst, [tgt[m.dst] EXCEPT !.src[m.src] = @ + m.n], m)
    /\ req' = req \ {m}
    /\ UNCHANGED <<scn, org, flight>>

(* MPID_do_recv_rma_unlock_req and MPID_do_recv_rma_flush_req up to their    *)
(* wait, or to their end if there is nothing to wait for.                    *)
RecvCounter(m) ==
    /\ m \in req /\ m.type \in {"UNLOCK", "FLUSH"}
    /\ LET w == [tgt[m.dst] EXCEPT !.src[m.src] = @ + m.n]
       IN  IF w.src[m.src] = 0 THEN EndCallback(m.dst, w, m)
           ELSE /\ tgt' = [tgt EXCEPT ![m.dst] = [w EXCEPT !.stack = <<m>> \o @]]
                /\ UNCHANGED ans
    /\ req' = req \ {m}
    /\ UNCHANGED <<scn, org, flight>>

(* The running callback finds its counter at zero. *)
CallbackDone(t) ==
    /\ tgt[t].stack # <<>>
    /\ LET h == Head(tgt[t].stack)
       IN  /\ tgt[t].src[h.src] = 0
           /\ EndCallback(t, [tgt[t] EXCEPT !.stack = Tail(@)], h)
    /\ UNCHANGED <<scn, org, flight, req>>

(* The target callback of a put or an accumulate. *)
OpArrives(p, t) ==
    /\ flight[p][t] > 0
    /\ flight' = [flight EXCEPT ![p][t] = @ - 1]
    /\ tgt' = [tgt EXCEPT ![t].recvd = @ + 1, ![t].src[p] = @ - 1]
    /\ UNCHANGED <<scn, org, req, ans>>

-----------------------------------------------------------------------------
(* Origin side: one-sided operations.                                       *)

(* The program of p runs if no callback is waiting on top of it. *)
InCall(p, op) == org[p].call.op = op /\ tgt[p].stack = <<>>
Program(p) == InCall(p, "none")

(* MPIDI_PSP_Put_generic to another rank. *)
Put(p, t) ==
    /\ Program(p) /\ t # p
    /\ org[p].epoch # "NONE" /\ org[p].remote[t] # "UNLOCKED"
    /\ org[p].puts[t] < scn.maxops
    /\ org' = [org EXCEPT ![p].pend[t] = @ + 1, ![p].puts[t] = @ + 1]
    /\ flight' = [flight EXCEPT ![p][t] = @ + 1]
    /\ UNCHANGED <<scn, tgt, req, ans>>

(* MPIDI_PSP_Get_generic: nothing that the target has to count. *)
Get(p, t) ==
    /\ Program(p) /\ t # p
    /\ org[p].epoch # "NONE" /\ org[p].remote[t] # "UNLOCKED"
    /\ org[p].pend[t] < scn.maxops
    /\ org' = [org EXCEPT ![p].pend[t] = @ + 1]
    /\ UNCHANGED <<scn, tgt, flight, req, ans>>

(* Mutant of Accumulate: it never waits for the previous one.               *)
MutUnordered(p, t) ==
    /\ Program(p) /\ t # p
    /\ org[p].epoch # "NONE" /\ org[p].remote[t] # "UNLOCKED"
    /\ org[p].puts[t] < scn.maxops
    /\ org' = [org EXCEPT ![p].pend[t] = @ + 1, ![p].puts[t] = @ + 1,
                          ![p].accs[t] = @ + 1, ![p].accFlag[t] = TRUE]
    /\ flight' = [flight EXCEPT ![p][t] = @ + 1]
    /\ UNCHANGED <<scn, tgt, req, ans>>

(* MPIDI_PSP_Accumulate_generic, which with ordering waits for the previous *)
(* accumulate to the same target.                                           *)
Accumulate(p, t) ==
    /\ Program(p) /\ t # p
    /\ org[p].epoch # "NONE" /\ org[p].remote[t] # "UNLOCKED"
    /\ org[p].puts[t] < scn.maxops
    /\ Ordering => ~org[p].accFlag[t]
    /\ org' = [org EXCEPT ![p].pend[t] = @ + 1, ![p].puts[t] = @ + 1,
                          ![p].accs[t] = @ + 1, ![p].accFlag[t] = TRUE]
    /\ flight' = [flight EXCEPT ![p][t] = @ + 1]
    /\ UNCHANGED <<scn, tgt, req, ans>>

(* The origin callback of a put, or the answer to a get. *)
OpDone(p, t) ==
    /\ org[p].pend[t] > org[p].accs[t]
    /\ org' = [org EXCEPT ![p].pend[t] = @ - 1]
    /\ UNCHANGED <<scn, tgt, flight, req, ans>>

(* The origin callback of an accumulate. *)
AccumulateDone(p, t) ==
    /\ org[p].accs[t] > 0
    /\ org' = [org EXCEPT ![p].pend[t] = @ - 1, ![p].accs[t] = @ - 1,
                          ![p].accFlag[t] = FALSE]
    /\ UNCHANGED <<scn, tgt, flight, req, ans>>

Drained(p) == \A t \in Rank : org[p].pend[t] = 0

-----------------------------------------------------------------------------
(* Origin side: synchronisation calls.                                      *)

(* The next call of lock_all or unlock_all after the one for d.             *)
NextCall(op, d, excl, all) ==
    IF all /\ d + 1 < scn.n
    THEN [op |-> op, dest |-> d + 1, excl |-> excl, all |-> TRUE]
    ELSE Idle

(* Mutant of HasLock: epoch_lock_count is not incremented.                  *)
MutNotCounted(o, d, excl, all) ==
    [o EXCEPT !.remote[d] = IF all THEN "LOCKED_ALL" ELSE "LOCKED",
              !.mode[d] = excl, !.epoch = "LOCK",
              !.call = NextCall("lock", d, excl, all)]

(* The origin's state when it has got the lock of d. *)
HasLock(o, d, excl, all) ==
    [o EXCEPT !.remote[d] = IF all THEN "LOCKED_ALL" ELSE "LOCKED",
              !.mode[d] = excl, !.epoch = "LOCK", !.locks = @ + 1,
              !.call = NextCall("lock", d, excl, all)]

(* MPID_Win_lock up to its wait; a free local lock is taken at once.        *)
EnterLock(p, d, excl, all) ==
    \/ /\ d = p /\ MayLock(tgt[p], excl)
       /\ tgt' = [tgt EXCEPT ![p] = Lock(@, excl)]
       /\ org' = [org EXCEPT ![p] = HasLock(@, d, excl, all)]
       /\ UNCHANGED <<scn, flight, req, ans>>
    \/ /\ d # p \/ ~MayLock(tgt[p], excl)
       /\ org' = [org EXCEPT ![p].call =
                    [op |-> "lockWait", dest |-> d, excl |-> excl, all |-> all]]
       /\ req' = req \cup {[type |-> "LOCK", src |-> p, dst |-> d, excl |-> excl, n |-> 0]}
       /\ UNCHANGED <<scn, tgt, flight, ans>>

(* The program calls MPID_Win_lock, for one rank after the other in          *)
(* ascending order: otherwise two programs may wait for each other.          *)
Win_lock(p, d, excl) ==
    /\ Program(p)
    /\ \A t \in Rank : org[p].remote[t] # "UNLOCKED" => t < d
    /\ EnterLock(p, d, excl, FALSE)

(* MPID_Win_lock_all; a correct program holds no lock when it calls it. *)
Win_lock_all(p) ==
    /\ scn.alls /\ Program(p)
    /\ org[p].epoch = "NONE" \/ scn.wrong
    /\ org' = [org EXCEPT ![p].call = [op |-> "lock", dest |-> 0, excl |-> FALSE, all |-> TRUE]]
    /\ UNCHANGED <<scn, tgt, flight, req, ans>>

LockAllNext(p) ==
    /\ InCall(p, "lock")
    /\ org[p].remote[org[p].call.dest] = "UNLOCKED"
    /\ EnterLock(p, org[p].call.dest, FALSE, TRUE)

(* Mutant of LockAllRefused: the ranks locked so far are forgotten. *)
MutForgetLocks(p) ==
    /\ InCall(p, "lock")
    /\ org[p].remote[org[p].call.dest] # "UNLOCKED"
    /\ org' = [org EXCEPT ![p].call = Idle, ![p].epoch = "NONE", ![p].locks = 0]
    /\ UNCHANGED <<scn, tgt, flight, req, ans>>

(* It meets a rank that is locked already and returns MPI_ERR_RMA_SYNC; the  *)
(* ranks before stay locked.                                                 *)
LockAllRefused(p) ==
    /\ InCall(p, "lock")
    /\ org[p].remote[org[p].call.dest] # "UNLOCKED"
    /\ org' = [org EXCEPT ![p].call = Idle]
    /\ UNCHANGED <<scn, tgt, flight, req, ans>>

(* MPID_Win_lock receives the answer. *)
LockDone(p) ==
    /\ InCall(p, "lockWait")
    /\ LET c == org[p].call
       IN  /\ LockAnswer(c.dest, p) \in ans
           /\ ans' = ans \ {LockAnswer(c.dest, p)}
           /\ org' = [org EXCEPT ![p] = HasLock(@, c.dest, c.excl, c.all)]
    /\ UNCHANGED <<scn, tgt, flight, req>>

(* The origin's state at the end of MPID_Win_unlock of d. *)
HasUnlocked(o, d, all) ==
    [o EXCEPT !.remote[d] = "UNLOCKED", !.locks = @ - 1,
              !.epoch = IF o.locks = 1 THEN "NONE" ELSE @,
              !.call = NextCall("unlock", d, FALSE, all)]

(* MPID_Win_unlock up to its wait: the own window is unlocked at once, for   *)
(* another one all pending operations must be locally complete.             *)
EnterUnlock(p, d, all) ==
    \/ /\ d = p
       /\ tgt' = [tgt EXCEPT ![p] = DoUnlock(@)]
       /\ ans' = ans \cup Woken(p, tgt[p])
       /\ org' = [org EXCEPT ![p] = HasUnlocked(@, d, all)]
       /\ UNCHANGED <<scn, flight, req>>
    \/ /\ d # p /\ Drained(p)
       /\ req' = req \cup {[type |-> "UNLOCK", src |-> p, dst |-> d, excl |-> FALSE,
                            n |-> org[p].puts[d]]}
       /\ org' = [org EXCEPT ![p].call =
                    [op |-> "unlockWait", dest |-> d, excl |-> FALSE, all |-> all]]
       /\ UNCHANGED <<scn, tgt, flight, ans>>

(* The program calls MPID_Win_unlock or MPID_Win_unlock_all.  A correct one    *)
(* matches the latter with lock_all; both accept the locks of lock_all.        *)
Win_unlock(p, d) ==
    /\ Program(p)
    /\ org[p].remote[d] = "LOCKED" \/ (scn.wrong /\ org[p].remote[d] # "UNLOCKED")
    /\ org' = [org EXCEPT ![p].call = [op |-> "unlock", dest |-> d, excl |-> FALSE, all |-> FALSE]]
    /\ UNCHANGED <<scn, tgt, flight, req, ans>>

Win_unlock_all(p) ==
    /\ scn.alls /\ Program(p)
    /\ scn.wrong \/ \A t \in Member : org[p].remote[t] = "LOCKED_ALL"
    /\ org' = [org EXCEPT ![p].call = [op |-> "unlock", dest |-> 0, excl |-> FALSE, all |-> TRUE]]
    /\ UNCHANGED <<scn, tgt, flight, req, ans>>

UnlockSend(p) ==
    /\ InCall(p, "unlock")
    /\ org[p].call.all => org[p].remote[org[p].call.dest] = "LOCKED_ALL"
    /\ EnterUnlock(p, org[p].call.dest, org[p].call.all)

(* MPID_Win_unlock_all meets a rank that lock_all has not locked. *)
UnlockAllRefused(p) ==
    /\ InCall(p, "unlock")
    /\ org[p].call.all /\ org[p].remote[org[p].call.dest] # "LOCKED_ALL"
    /\ org' = [org EXCEPT ![p].call = Idle]
    /\ UNCHANGED <<scn, tgt, flight, req, ans>>

UnlockDone(p) ==
    /\ InCall(p, "unlockWait")
    /\ LET c == org[p].call
           a == [type |-> "UNLOCK", src |-> c.dest, dst |-> p]
       IN  /\ a \in ans
           /\ ans' = ans \ {a}
           /\ org' = [org EXCEPT ![p] =
                        HasUnlocked([@ EXCEPT !.puts[c.dest] = 0], c.dest, c.all)]
    /\ UNCHANGED <<scn, tgt, flight, req>>

(* MPID_Win_flush of another rank, called in an epoch, and its local wait.   *)
Win_flush(p, d) ==
    /\ Program(p) /\ org[p].epoch = "LOCK" /\ d # p /\ org[p].remote[d] # "UNLOCKED"
    /\ org' = [org EXCEPT ![p].call = [op |-> "flush", dest |-> d, excl |-> FALSE, all |-> FALSE]]
    /\ UNCHANGED <<scn, tgt, flight, req, ans>>

(* Mutant of FlushRequest: the operation counter is not filled in.          *)
MutNoCounter(p, d) ==
    [type |-> "FLUSH", src |-> p, dst |-> d, excl |-> FALSE, n |-> 0]

FlushRequest(p, d) ==
    [type |-> "FLUSH", src |-> p, dst |-> d, excl |-> FALSE, n |-> org[p].puts[d]]

FlushSend(p) ==
    /\ InCall(p, "flush")
    /\ org[p].pend[org[p].call.dest] = 0
    /\ req' = req \cup {FlushRequest(p, org[p].call.dest)}
    /\ org' = [org EXCEPT ![p].call.op = "flushWait"]
    /\ UNCHANGED <<scn, tgt, flight, ans>>

FlushDone(p) ==
    /\ InCall(p, "flushWait")
    /\ LET d == org[p].call.dest
           a == [type |-> "FLUSH", src |-> d, dst |-> p]
       IN  /\ a \in ans
           /\ ans' = ans \ {a}
           /\ org' = [org EXCEPT ![p].puts[d] = 0, ![p].call = Idle]
    /\ UNCHANGED <<scn, tgt, flight, req>>

(* MPID_Win_flush_all: requests to all others, then one answer for each of    *)
(* them from whoever comes first; dest is the rank whose counter is next.    *)
Win_flush_all(p) ==
    /\ scn.alls /\ Program(p) /\ org[p].epoch = "LOCK"
    /\ org' = [org EXCEPT ![p].call = [op |-> "flushAll", dest |-> 0, excl |-> FALSE, all |-> TRUE]]
    /\ UNCHANGED <<scn, tgt, flight, req, ans>>

FlushAllFrom(p, d) ==
    IF \E t \in Member : t >= d /\ t # p
    THEN [op |-> "flushAllWait", dest |-> IF d = p THEN d + 1 ELSE d,
          excl |-> FALSE, all |-> TRUE]
    ELSE Idle

FlushAllSend(p) ==
    /\ InCall(p, "flushAll") /\ Drained(p)
    /\ req' = req \cup {FlushRequest(p, d) : d \in Member \ {p}}
    /\ org' = [org EXCEPT ![p].call = FlushAllFrom(p, 0)]
    /\ UNCHANGED <<scn, tgt, flight, ans>>

FlushAllDone(p) ==
    /\ InCall(p, "flushAllWait")
    /\ LET d == org[p].call.dest
       IN  \E a \in ans :
             /\ a.type = "FLUSH" /\ a.dst = p
             /\ ans' = ans \ {a}
             /\ org' = [org EXCEPT ![p].puts[d] = 0, ![p].call = FlushAllFrom(p, d + 1)]
    /\ UNCHANGED <<scn, tgt, flight, req>>

-----------------------------------------------------------------------------
(* What the program decides to do, what a call it is in does, and what the   *)
(* progress engine does.                                                     *)
ProgramStep(p) ==
    \/ \E d \in scn.targets, x \in scn.modes : Win_lock(p, d, x)
    \/ \E d \in Member : Win_unlock(p, d) \/ Win_flush(p, d)
    \/ Win_lock_all(p) \/ Win_unlock_all(p) \/ Win_flush_all(p)
    \/ \E t \in Member : Put(p, t) \/ Get(p, t) \/ Accumulate(p, t)

CallStep(p) ==
    \/ LockAllNext(p) \/ LockAllRefused(p) \/ LockDone(p)
    \/ UnlockSend(p) \/ UnlockAllRefused(p) \/ UnlockDone(p)
    \/ FlushSend(p) \/ FlushDone(p) \/ FlushAllSend(p) \/ FlushAllDone(p)

CompletionStep(p, t) == OpArrives(p, t) \/ OpDone(p, t) \/ AccumulateDone(p, t)

RequestStep(p, t) ==
    \E m \in req : m.src = p /\ m.dst = t /\ (RecvLockReq(m) \/ RecvCounter(m))

Next ==
    \/ \E p \in Member : ProgramStep(p) \/ CallStep(p) \/ CallbackDone(p)
    \/ \E p, t \in Member : CompletionStep(p, t) \/ RequestStep(p, t)

Spec == Init /\ [][Next]_vars

(* The progress engine serves every connection; a call that can go on does;  *)
(* a program that holds locks unlocks at some time, however often it flushes *)
(* before.  A waiting callback looks at its counter each time a callback on  *)
(* top of it has ended, and a call when the callbacks on top of it have:     *)
(* hence strong fairness.  Served: the windows anybody uses.                 *)
Served == UNION {IF s.alls THEN 0..(s.n - 1) ELSE s.targets : s \in Scenarios}

FairSpec ==
    /\ Spec
    /\ \A p \in Rank :
          /\ SF_vars(CallStep(p))
          /\ SF_vars(Win_unlock_all(p) \/ \E d \in Rank : Win_unlock(p, d))
    /\ \A t \in Served :
          /\ SF_vars(CallbackDone(t))
          /\ \A p \in Rank : WF_vars(CompletionStep(p, t)) /\ WF_vars(RequestStep(p, t))

-----------------------------------------------------------------------------
(* Properties *)

(* Type invariant of the window and the messages. *)
TypeOK ==
    /\ scn \in Scenarios
    /\ org \in [Rank -> Origin]
    /\ tgt \in [Rank -> Target]
    /\ flight \in [Rank -> [Rank -> Nat]]
    /\ req \subseteq Request
    /\ ans \subseteq Answer

(* p may touch the window of t, or something it has issued still does. *)
Accesses(p, t) ==
    \/ /\ org[p].remote[t] # "UNLOCKED"
       /\ ~(org[p].call.op = "unlockWait" /\ org[p].call.dest = t)
    \/ flight[p][t] > 0
    \/ org[p].pend[t] > 0

(* An exclusive lock excludes all other access to the window, the operations *)
(* of earlier holders that are still on their way included: the lock passes  *)
(* on only after they have arrived.                                          *)
MutualExclusion ==
    \A t, p, q \in Rank :
        p # q /\ Accesses(p, t) /\ Accesses(q, t)
            => ~org[p].mode[t] /\ ~org[q].mode[t]

(* The processes that have the lock of t from the target's point of view. *)
Holders(t) ==
    {p \in Rank : /\ org[p].remote[t] # "UNLOCKED" \/ LockAnswer(t, p) \in ans
                  /\ [type |-> "UNLOCK", src |-> t, dst |-> p] \notin ans}

(* lock_cnt counts the holders, local and remote, exactly, and nobody waits  *)
(* in lock_list for a free lock: no unlock loses the wake-up.                *)
LockCountExact ==
    \A t \in Rank :
        /\ tgt[t].cnt = Cardinality(Holders(t))
        /\ tgt[t].list # <<>> => tgt[t].cnt > 0

(* epoch_lock_count is the number of windows the rank has locked, through     *)
(* lock_all calls that fail half-way too, and the passive epoch lasts exactly *)
(* as long as there is one: fence, start, post and MPI_Win_free go by it.     *)
EpochTracksLocks ==
    \A p \in Rank :
        LET locked == {t \in Rank : org[p].remote[t] # "UNLOCKED"}
        IN  /\ org[p].locks = Cardinality(locked)
            /\ org[p].epoch = "LOCK" <=> locked # {}

(* Between epochs the counters of both sides are back at zero, although they *)
(* are added up on different sides in different orders; the next epoch, of   *)
(* whatever kind, starts from them.                                          *)
CleanBetweenEpochs ==
    \A t \in Rank :
        /\ \A p \in Rank \ {t} : org[p].remote[t] = "UNLOCKED" =>
              /\ org[p].puts[t] = 0 /\ org[p].pend[t] = 0
              /\ flight[p][t] = 0 /\ tgt[t].src[p] = 0
        /\ (\A p \in Rank \ {t} : org[p].remote[t] = "UNLOCKED") => tgt[t].recvd = 0

(* The return of p from unlock or flush of d, or from flush_all. *)
ReturnsFrom(p, d) ==
    /\ d # p /\ org[p].call.op \in {"unlockWait", "flushWait", "flushAllWait"}
    /\ org'[p].call # org[p].call
    /\ \/ org[p].call.op # "flushAllWait" /\ org[p].call.dest = d
       \/ org[p].call.op = "flushAllWait" /\ org'[p].call = Idle

(* When unlock, flush or flush_all returns, all puts and accumulates to the  *)
(* target are complete there, not only locally.                              *)
RemoteCompletion ==
    [][\A p, d \in Rank : ReturnsFrom(p, d) => flight[p][d] = 0 /\ tgt[d].src[p] = 0]_vars

(* lock_list is served in the order of arrival: it grows at its tail and only *)
(* its head leaves it, with the lock.  Whoever gets the lock past a waiting   *)
(* request shares it with those who hold it.                                  *)
ServedInOrder(t) ==
    LET w == tgt[t]
        v == tgt'[t]
    IN  /\ \/ v.list = w.list
           \/ \E m \in req : v.list = Append(w.list, m) /\ v.cnt = w.cnt
           \/ w.list # <<>> /\ v.list = Tail(w.list) /\ v.excl = Head(w.list).excl
        /\ w.list # <<>> /\ v.list = w.list /\ v.cnt > w.cnt
             => w.cnt > 0 /\ ~w.excl /\ ~v.excl

(* Every step keeps to the order of lock_list at every window. *)
QueueOrder == [][\A t \in Rank : ServedInOrder(t)]_vars

(* The assertion of the accumulate callbacks: the flag of the target is set  *)
(* when an accumulate completes.                                             *)
PendingAccumulateFlag ==
    \A p, t \in Rank : org[p].accs[t] > 0 => org[p].accFlag[t]

(* Every process that waits for a lock gets it. *)
EveryLockGranted ==
    \A p \in Rank : org[p].call.op = "lockWait" ~> org[p].call.op # "lockWait"
=============================================================================
