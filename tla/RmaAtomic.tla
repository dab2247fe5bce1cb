------------------------------ MODULE RmaAtomic ------------------------------
(***************************************************************************)
(* The atomic one-sided operations of the PSP device on the window of one  *)
(* rank, Home: get_accumulate and fetch_and_op, compare_and_swap, and the   *)
(* plain accumulate (mpid_rma_accumulate.c), in the build without pscom's   *)
(* RMA interface.                                                           *)
(*                                                                         *)
(* A fetching call takes an internal lock of the window, gets the value,    *)
(* sends the update as an accumulate or a put, and unlocks.  The unlock      *)
(* callback of the target waits, in a nested progress loop, until nothing   *)
(* of the origin is pending there.  MPI_NO_OP is a plain get, without the    *)
(* lock, and so is an accumulate.  Headers of a connection arrive in order;  *)
(* the data of a large message comes later, and its sender may be done with  *)
(* it before.                                                                *)
(***************************************************************************)
EXTENDS Integers, Sequences, FiniteSets

CONSTANTS
    Rank, Home,   \* the processes, and the one whose window is accessed
    Loc,          \* locations of the window
    Width,        \* width of a value in bits
    Calls,        \* the calls the program makes
    MaxCalls      \* bound on the calls of each process

ASSUME RankAssumption == Home \in Rank

(* One process makes the most calls. *)
ASSUME BoundAssumption ==
    /\ Width \in Nat /\ MaxCalls \in [Rank -> Nat]
    /\ \E n \in {MaxCalls[p] : p \in Rank} : \A p \in Rank : MaxCalls[p] <= n

(* Values wrap around at Modulus, a power of two. *)
Modulus == 2^Width
ASSUME ModulusAssumption == Modulus \in Nat \ {0}

Value == 0..(Modulus - 1)

(* cmp: the value that a compare_and_swap compares with.                     *)
Call == [f: {"get_accumulate", "compare_and_swap", "no_op", "accumulate"}, loc: Loc,
         op: {"SUM", "REPLACE"}, arg: Value, cmp: Value, large: BOOLEAN]

ASSUME CallAssumption == Calls \subseteq Call

VARIABLES
    mem,      \* the window of Home
    op,       \* op[p]: the calls p has made: their arguments, the value that was
              \* packed for their get, and whether they have taken effect
    at,       \* at[p]: where p is in its last call
    pend,     \* pend[p]: calls of p with messages that are not locally complete,
              \* rma_local_pending_cnt
    line,     \* line[p]: headers on the way from p to Home
    data,     \* data[p]: calls of p whose header has arrived and whose data has not
    gets,     \* gets[p]: answers to gets of p that Home is sending
    back,     \* back[p]: answers on the way from Home to p
    lock,     \* lock_internal
    list,     \* lock_list_internal
    cb        \* origins whose unlock callback waits

vars == <<mem, op, at, pend, line, data, gets, back, lock, list, cb>>

Init ==
    /\ mem \in [Loc -> {0}]
    /\ op = [p \in Rank |-> <<>>]
    /\ at = [p \in Rank |-> "idle"]
    /\ pend = [p \in Rank |-> {}]
    /\ line = [p \in Rank |-> <<>>]
    /\ data = [p \in Rank |-> {}]
    /\ gets = [p \in Rank |-> 0]
    /\ back = [p \in Rank |-> <<>>]
    /\ lock = FALSE /\ list = <<>> /\ cb = {}

-----------------------------------------------------------------------------
Msg(type, k) == [type |-> type, k |-> k]
Post(p, type, k) == line' = [line EXCEPT ![p] = Append(@, Msg(type, k))]
Answer(b, p, type, k) == [b EXCEPT ![p] = Append(@, Msg(type, k))]

Last(p) == Len(op[p])
Current(p) == op[p][Last(p)].call

Fetching(c) == c.f # "accumulate"
Blocking(c) == c.f \in {"get_accumulate", "compare_and_swap"}

(* What a call makes of the value v: MPIDI_PSP_compute_acc_op, or the put of  *)
(* compare_and_swap.                                                          *)
Update(c, v) ==
    CASE c.f = "no_op" -> v
      [] c.f = "compare_and_swap" -> IF v = c.cmp THEN c.arg ELSE v
      [] OTHER -> IF c.op = "SUM" THEN (v + c.arg) % Modulus ELSE c.arg

(* The program of p runs; that of Home only if no callback waits on top of it. *)
Runs(p, where) == at[p] = where /\ (p = Home => cb = {})

(* MPID_Accumulate, MPID_Get_accumulate, MPID_Fetch_and_op (which calls it)    *)
(* and MPID_Compare_and_swap are called; all but the first begin with the lock. *)
Enter(p, c) ==
    /\ Runs(p, "idle") /\ Len(op[p]) < MaxCalls[p]
    /\ op' = [op EXCEPT ![p] = Append(@, [call |-> c, val |-> {}, done |-> FALSE])]
    /\ at' = [at EXCEPT ![p] = IF Blocking(c) THEN "lock" ELSE "start"]
    /\ UNCHANGED <<mem, pend, line, data, gets, back, lock, list, cb>>

-----------------------------------------------------------------------------
(* Calls of Home on its own window: no messages, except to wait for the lock. *)

(* Mutant of Unlocked: the next in the list is not told.                      *)
MutNoWakeup(b) == lock' = FALSE /\ back' = b /\ UNCHANGED list

(* do_unlock_internal, where b are the answers already on their way.           *)
Unlocked(b) ==
    IF list = <<>> THEN lock' = FALSE /\ back' = b /\ UNCHANGED list
    ELSE lock' = TRUE /\ back' = Answer(b, Head(list), "LOCK", 0) /\ list' = Tail(list)

(* The get and the update in place. *)
InPlace ==
    LET c == Current(Home)
    IN  /\ mem' = [mem EXCEPT ![c.loc] = Update(c, @)]
        /\ op' = [op EXCEPT ![Home][Last(Home)].done = TRUE,
                            ![Home][Last(Home)].val = IF Fetching(c) THEN {mem[c.loc]} ELSE {}]
        /\ at' = [at EXCEPT ![Home] = "idle"]

HomeStart ==
    /\ Runs(Home, "start")
    /\ InPlace
    /\ UNCHANGED <<pend, line, data, gets, back, lock, list, cb>>

(* Mutant of HomeLock: the local shortcut takes the lock without a look at it. *)
MutNoTrylock ==
    /\ Runs(Home, "lock")
    /\ InPlace
    /\ UNCHANGED <<pend, line, data, gets, back, lock, list, cb>>

(* MPIDI_PSP_Win_lock_internal with its shortcut for local locks.              *)
HomeLock ==
    /\ Runs(Home, "lock")
    /\ \/ /\ ~lock
          /\ InPlace
          /\ UNCHANGED <<line, back, lock, list>>
       \/ /\ lock
          /\ Post(Home, "LOCK", 0)
          /\ at' = [at EXCEPT ![Home] = "lockWait"]
          /\ UNCHANGED <<mem, op, back, lock, list>>
    /\ UNCHANGED <<pend, data, gets, cb>>

HomeLocked ==
    /\ Runs(Home, "lockWait") /\ back[Home] # <<>>
    /\ InPlace
    /\ Unlocked([back EXCEPT ![Home] = Tail(@)])
    /\ UNCHANGED <<pend, line, data, gets, cb>>

-----------------------------------------------------------------------------
(* Calls of the other ranks. *)

Origin == Rank \ {Home}

(* A plain get, or an accumulate, which waits for the previous accumulate.     *)
Start(p) ==
    LET c == Current(p)
    IN  /\ p \in Origin /\ at[p] = "start"
        /\ c.f = "accumulate" => \A k \in pend[p] : op[p][k].call.f = "no_op"
        /\ Post(p, IF c.f = "no_op" THEN "GET" ELSE "ACCUMULATE", Last(p))
        /\ pend' = [pend EXCEPT ![p] = @ \cup {Last(p)}]
        /\ at' = [at EXCEPT ![p] = "idle"]
        /\ UNCHANGED <<mem, op, data, gets, back, lock, list, cb>>

(* MPIDI_PSP_Win_lock_internal. *)
LockInternal(p) ==
    /\ p \in Origin /\ at[p] = "lock"
    /\ Post(p, "LOCK", 0)
    /\ at' = [at EXCEPT ![p] = "lockWait"]
    /\ UNCHANGED <<mem, op, pend, data, gets, back, lock, list, cb>>

TakeAnswer(p) == back' = [back EXCEPT ![p] = Tail(@)]
Answered(p, type) == back[p] # <<>> /\ Head(back[p]).type = type

(* The lock is granted: MPID_Get. *)
Locked(p) ==
    /\ p \in Origin /\ at[p] = "lockWait" /\ Answered(p, "LOCK")
    /\ TakeAnswer(p)
    /\ Post(p, "GET", Last(p))
    /\ pend' = [pend EXCEPT ![p] = @ \cup {Last(p)}]
    /\ at' = [at EXCEPT ![p] = "getWait"]
    /\ UNCHANGED <<mem, op, data, gets, lock, list, cb>>

(* io_done_rma_get_answer *)
GetDone(p) ==
    /\ Answered(p, "GET")
    /\ TakeAnswer(p)
    /\ pend' = [pend EXCEPT ![p] = @ \ {Head(back[p]).k}]
    /\ UNCHANGED <<mem, op, at, line, data, gets, lock, list, cb>>

(* MPIDI_PSP_Win_wait_local_completion, then the update: an accumulate, or the *)
(* put of a compare_and_swap that has found the value it compares with.         *)
Fetched(p) ==
    LET c == Current(p)
    IN  /\ at[p] = "getWait" /\ pend[p] = {}
        /\ at' = [at EXCEPT ![p] = "unlock"]
        /\ IF c.f = "compare_and_swap" /\ op[p][Last(p)].val # {c.cmp}
           THEN UNCHANGED <<line, pend>>
           ELSE /\ Post(p, IF c.f = "compare_and_swap" THEN "PUT" ELSE "ACCUMULATE", Last(p))
                /\ pend' = [pend EXCEPT ![p] = {Last(p)}]
        /\ UNCHANGED <<mem, op, data, gets, back, lock, list, cb>>

(* rma_accumulate_done and the io_done of a put, at any time after the post.    *)
SendDone(p) ==
    \E k \in pend[p] :
        /\ op[p][k].call.f # "no_op"
        /\ k = Last(p) => at[p] # "getWait"
        /\ pend' = [pend EXCEPT ![p] = @ \ {k}]
        /\ UNCHANGED <<mem, op, at, line, data, gets, back, lock, list, cb>>

(* MPIDI_PSP_Win_unlock_internal up to its wait. *)
UnlockInternal(p) ==
    /\ at[p] = "unlock" /\ pend[p] = {}
    /\ Post(p, "UNLOCK", 0)
    /\ at' = [at EXCEPT ![p] = "unlockWait"]
    /\ UNCHANGED <<mem, op, pend, data, gets, back, lock, list, cb>>

UnlockDone(p) ==
    /\ at[p] = "unlockWait" /\ Answered(p, "UNLOCK")
    /\ TakeAnswer(p)
    /\ at' = [at EXCEPT ![p] = "idle"]
    /\ UNCHANGED <<mem, op, pend, line, data, gets, lock, list, cb>>

-----------------------------------------------------------------------------
(* The callbacks of Home. *)

Arrived(p, type) == line[p] # <<>> /\ Head(line[p]).type = type
TakeHeader(p) == line' = [line EXCEPT ![p] = Tail(@)]

(* MPID_do_recv_rma_lock_internal_req and do_lock_internal. *)
RecvLock(p) ==
    /\ Arrived(p, "LOCK") /\ TakeHeader(p)
    /\ \/ /\ ~lock
          /\ lock' = TRUE /\ back' = Answer(back, p, "LOCK", 0) /\ UNCHANGED list
       \/ /\ lock
          /\ list' = Append(list, p) /\ UNCHANGED <<lock, back>>
    /\ UNCHANGED <<mem, op, at, pend, data, gets, cb>>

(* MPID_do_recv_rma_get_req and io_done_get_answer_recv: the value is packed.   *)
(* A call that stores nothing takes effect here.                               *)
RecvGet(p) ==
    /\ Arrived(p, "GET") /\ TakeHeader(p)
    /\ LET k == Head(line[p]).k
           c == op[p][k].call
           v == mem[c.loc]
       IN  /\ op' = [op EXCEPT ![p][k].val = {v},
                               ![p][k].done = \/ c.f = "no_op"
                                              \/ c.f = "compare_and_swap" /\ v # c.cmp]
           /\ back' = Answer(back, p, "GET", k)
    /\ gets' = [gets EXCEPT ![p] = @ + 1]
    /\ UNCHANGED <<mem, at, pend, data, lock, list, cb>>

(* io_done_get_answer_send *)
AnswerSent(p) ==
    /\ gets[p] > 0
    /\ gets' = [gets EXCEPT ![p] = @ - 1]
    /\ UNCHANGED <<mem, op, at, pend, line, data, back, lock, list, cb>>

(* rma_accumulate_receive_done and rma_put_receive_done. *)
Apply(p, k) ==
    LET c == op[p][k].call
    IN  /\ mem' = [mem EXCEPT ![c.loc] =
                     IF c.f = "compare_and_swap" THEN c.arg ELSE Update(c, @)]
        /\ op' = [op EXCEPT ![p][k].done = TRUE]

(* MPID_do_recv_rma_accumulate and MPID_do_recv_rma_put. *)
RecvUpdate(p) ==
    /\ Arrived(p, "ACCUMULATE") \/ Arrived(p, "PUT")
    /\ TakeHeader(p)
    /\ LET k == Head(line[p]).k
       IN  IF op[p][k].call.large
           THEN data' = [data EXCEPT ![p] = @ \cup {k}] /\ UNCHANGED <<mem, op>>
           ELSE Apply(p, k) /\ UNCHANGED data
    /\ UNCHANGED <<at, pend, gets, back, lock, list, cb>>

(* The data of a large update is complete and its io_done callback runs. *)
DataArrives(p) ==
    \E k \in data[p] :
        /\ Apply(p, k)
        /\ data' = [data EXCEPT ![p] = @ \ {k}]
        /\ UNCHANGED <<at, pend, line, gets, back, lock, list, cb>>

(* rma_passive_pending_rank *)
PassivePending(p) == data[p] # {} \/ gets[p] > 0

(* Mutant of RecvUnlock: no MPIDI_PSP_Win_wait_passive_completion.             *)
MutNoPassiveWait(p) ==
    /\ Arrived(p, "UNLOCK") /\ TakeHeader(p)
    /\ Unlocked(Answer(back, p, "UNLOCK", 0))
    /\ UNCHANGED <<mem, op, at, pend, data, gets, cb>>

(* MPID_do_recv_rma_unlock_internal_req up to its wait, or to its end. *)
RecvUnlock(p) ==
    /\ Arrived(p, "UNLOCK") /\ TakeHeader(p)
    /\ \/ /\ PassivePending(p)
          /\ cb' = cb \cup {p} /\ UNCHANGED <<lock, list, back>>
       \/ /\ ~PassivePending(p)
          /\ Unlocked(Answer(back, p, "UNLOCK", 0)) /\ UNCHANGED cb
    /\ UNCHANGED <<mem, op, at, pend, data, gets>>

CallbackDone(p) ==
    /\ p \in cb /\ ~PassivePending(p)
    /\ cb' = cb \ {p}
    /\ Unlocked(Answer(back, p, "UNLOCK", 0))
    /\ UNCHANGED <<mem, op, at, pend, line, data, gets>>

-----------------------------------------------------------------------------
CallStep(p) ==
    \/ Start(p) \/ LockInternal(p) \/ Locked(p) \/ Fetched(p)
    \/ UnlockInternal(p) \/ UnlockDone(p)

Callback(p) ==
    \/ RecvLock(p) \/ RecvGet(p) \/ AnswerSent(p) \/ RecvUpdate(p) \/ DataArrives(p)
    \/ RecvUnlock(p) \/ CallbackDone(p) \/ GetDone(p) \/ SendDone(p)

Progress ==
    \/ HomeStart \/ HomeLock \/ HomeLocked
    \/ \E p \in Rank : CallStep(p) \/ Callback(p)

Next == Progress \/ \E p \in Rank, c \in Calls : Enter(p, c)

Spec == Init /\ [][Next]_vars

(* Every process that is in a call goes on when it can, and every progress     *)
(* engine runs.                                                                *)
FairSpec == Spec /\ WF_vars(Progress)

-----------------------------------------------------------------------------
(* Properties *)

MaxIndex == CHOOSE n \in {MaxCalls[p] : p \in Rank} : \A p \in Rank : MaxCalls[p] <= n

(* What AtomicMemory sees of call k of p. *)
Entry(p, k) ==
    IF k \in DOMAIN op[p]
    THEN [call |-> {op[p][k].call}, done |-> op[p][k].done,
          val |-> IF op[p][k].done THEN op[p][k].val ELSE {}]
    ELSE [call |-> {}, done |-> FALSE, val |-> {}]

(* The calls behave like AtomicMemory: each takes effect once, at one moment,   *)
(* at which it finds the value that it returns; a blocking one before it        *)
(* returns.                                                                     *)
Memory == INSTANCE AtomicMemory WITH
    Process <- Rank, Index <- 1..MaxIndex, cell <- mem,
    log <- [p \in Rank |-> [k \in 1..MaxIndex |-> Entry(p, k)]]

MemorySpec == Memory!Spec

(* The update of a fetching call replaces the value that the call returns.      *)
FetchesWhatItReplaces ==
    [][\A p \in Rank : \A k \in DOMAIN op[p] :
         ~op[p][k].done /\ op'[p][k].done /\ Blocking(op[p][k].call)
             => op'[p][k].val = {mem[op[p][k].call.loc]}]_vars

(* The processes that have the internal lock, from the answer to their request  *)
(* to the answer to their unlock.                                               *)
LockHolders ==
    LET Coming(p, type) == \E i \in DOMAIN back[p] : back[p][i].type = type
    IN  {p \in Rank : \/ Coming(p, "LOCK")
                      \/ at[p] \in {"getWait", "unlock"}
                      \/ at[p] = "unlockWait" /\ ~Coming(p, "UNLOCK")}

(* lock_internal is set exactly while one process has the lock, whether it was  *)
(* answered, is in its call, or has its unlock under way; nobody waits in the   *)
(* list for a free lock.                                                        *)
OneLockHolder ==
    /\ Cardinality(LockHolders) = IF lock THEN 1 ELSE 0
    /\ ~lock => list = <<>>

(* Every call returns, whatever callbacks wait at Home, and every update that   *)
(* was sent takes effect: the window comes to rest again and again.             *)
CallsComplete ==
    []<>(\A p \in Rank : at[p] = "idle" /\ \A k \in DOMAIN op[p] : op[p][k].done)
=============================================================================
