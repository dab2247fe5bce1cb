------------------------------ MODULE RmaActive ------------------------------
(***************************************************************************)
(* Active target synchronisation of one MPI window in the PSP device:       *)
(* fence and post/start/complete/wait (mpid_rma_sync.c), which share the    *)
(* operation counters of the window.                                        *)
(*                                                                         *)
(* Every rank runs a program, the list of its synchronisation calls, and    *)
(* issues operations in its access epochs.  Data and control messages are   *)
(* not ordered with each other.  Reduce_scatter and Barrier are MPICH's      *)
(* collectives, modelled by what they promise.                               *)
(***************************************************************************)
EXTENDS Integers, Sequences, FiniteSets

CONSTANTS
    N,          \* number of ranks
    Programs,   \* the programs to look at: for each rank the list of its calls
    MaxOps      \* bound on the puts of one rank in one access epoch

Rank == 0..(N - 1)

(* A synchronisation call of a program; group is the argument of post and    *)
(* start, wrong says that MPI does not allow the call where it stands.       *)
SyncCall == [op: {"fence", "post", "start", "complete", "wait"}, group: SUBSET Rank,
             wrong: BOOLEAN]

ASSUME RankAssumption == N \in Nat \ {0} /\ MaxOps \in Nat
ASSUME ProgramAssumption == Programs \subseteq [Rank -> Seq(SyncCall)]

VARIABLES
    prog,     \* what is left of each rank's program
    win,      \* the window object of each rank
    call,     \* the call each rank is in
    flight,   \* flight[p][t]: operations from p to t that have not arrived
    posts,    \* posts[t][p]: POST messages from t to p
    comps,    \* comps[p][t]: COMPLETE messages from p to t, by their counters
    coll,     \* the collective calls of fence
    refused   \* the ranks whose last call returned MPI_ERR_RMA_SYNC

vars == <<prog, win, call, flight, posts, comps, coll, refused>>

-----------------------------------------------------------------------------
Epochs == {"NONE", "FENCE", "FENCE_ISSUED", "POST", "START", "PSCW"}

Window ==
    [epoch: Epochs,                      \* epoch_state
     start: SUBSET Rank,                 \* ranks_start
     post: SUBSET Rank,                  \* ranks_post
     puts: [Rank -> 0..MaxOps],          \* rma_puts_accs
     pend: Nat,                          \* rma_local_pending_cnt
     src: [Rank -> Int],                 \* rma_source_rank_received
     recvd: Int,                         \* rma_puts_accs_received
     ops: 0..MaxOps]                     \* puts in this access epoch (history)

(* Where a call stands: todo are the ranks of the group it still has to hear *)
(* from, total the sum a fence has to wait for.                              *)
Call ==
    [at: {"none", "reduce", "fence", "barrier", "start", "complete", "wait", "waitOps"},
     todo: SUBSET Rank, total: Nat]

Idle == [at |-> "none", todo |-> {}, total |-> 0]

(* The state of the collectives at each rank: whether it is in its even or   *)
(* odd reduce_scatter and barrier, and what it has contributed.              *)
Collective == [red: BOOLEAN, bar: BOOLEAN, contrib: [Rank -> Nat]]

Init ==
    /\ prog \in Programs
    /\ win = [p \in Rank |->
                [epoch |-> "NONE", start |-> {}, post |-> {}, puts |-> [t \in Rank |-> 0],
                 pend |-> 0, src |-> [t \in Rank |-> 0], recvd |-> 0, ops |-> 0]]
    /\ call = [p \in Rank |-> Idle]
    /\ flight = [p \in Rank |-> [t \in Rank |-> 0]]
    /\ posts = [p \in Rank |-> [t \in Rank |-> 0]]
    /\ comps = [p \in Rank |-> [t \in Rank |-> <<>>]]
    /\ coll = [p \in Rank |->
                 [red |-> FALSE, bar |-> FALSE, contrib |-> [t \in Rank |-> 0]]]
    /\ refused = {}

-----------------------------------------------------------------------------
Running(p) == call[p].at = "none"
NextIs(p, op) == Running(p) /\ prog[p] # <<>> /\ Head(prog[p]).op = op
Group(p) == Head(prog[p]).group

(* The epochs in which each call is accepted; wait stands for test too.       *)
FenceEpochs == {"NONE", "FENCE", "FENCE_ISSUED"}
PostEpochs == {"NONE", "FENCE_ISSUED", "START"}
StartEpochs == {"NONE", "FENCE_ISSUED", "POST"}
CompleteEpochs == {"PSCW", "START"}
WaitEpochs == {"PSCW", "POST"}

(* The epochs in which the code accepts a call. *)
Accepted(op, epoch) ==
    CASE op = "fence"    -> epoch \in FenceEpochs
      [] op = "post"     -> epoch \in PostEpochs
      [] op = "start"    -> epoch \in StartEpochs
      [] op = "complete" -> epoch \in CompleteEpochs
      [] op = "wait"     -> epoch \in WaitEpochs

Calls(p, op) == NextIs(p, op) /\ Accepted(op, win[p].epoch)

(* p is back from its call. *)
Return(p) ==
    /\ prog' = [prog EXCEPT ![p] = Tail(@)]
    /\ call' = [call EXCEPT ![p] = Idle]
    /\ refused' = refused \ {p}

(* A call in a wrong epoch, whichever of the five it is, returns              *)
(* MPI_ERR_RMA_SYNC before it changes anything, and the program goes on.      *)
Refuse(p) ==
    /\ Running(p) /\ prog[p] # <<>> /\ ~Accepted(Head(prog[p]).op, win[p].epoch)
    /\ refused' = refused \cup {p}
    /\ prog' = [prog EXCEPT ![p] = Tail(@)]
    /\ UNCHANGED <<win, call, flight, posts, comps, coll>>

-----------------------------------------------------------------------------
(* One-sided operations.                                                     *)

(* A correct program accesses t between two fences, or after start of a      *)
(* group with t.                                                             *)
MayAccess(p, t) ==
    /\ Running(p) /\ t # p
    /\ \/ win[p].epoch \in {"FENCE", "FENCE_ISSUED"} /\ NextIs(p, "fence")
       \/ win[p].epoch \in {"START", "PSCW"} /\ t \in win[p].start

(* Every operation notes that a fence epoch is used. *)
Tracked(epoch) == IF epoch = "FENCE_ISSUED" THEN "FENCE" ELSE epoch

(* MPIDI_PSP_Put_generic, and accumulates, which count alike. *)
Put(p, t) ==
    /\ MayAccess(p, t) /\ win[p].ops < MaxOps
    /\ win' = [win EXCEPT ![p].epoch = Tracked(@), ![p].pend = @ + 1,
                          ![p].puts[t] = @ + 1, ![p].ops = @ + 1]
    /\ flight' = [flight EXCEPT ![p][t] = @ + 1]
    /\ UNCHANGED <<prog, call, posts, comps, coll, refused>>

(* MPIDI_PSP_Get_generic; one get at a time. *)
Get(p, t) ==
    /\ MayAccess(p, t) /\ win[p].pend = 0
    /\ win' = [win EXCEPT ![p].epoch = Tracked(@), ![p].pend = @ + 1]
    /\ UNCHANGED <<prog, call, flight, posts, comps, coll, refused>>

(* The origin callback of an operation. *)
OpDone(p) ==
    /\ win[p].pend > 0
    /\ win' = [win EXCEPT ![p].pend = @ - 1]
    /\ UNCHANGED <<prog, call, flight, posts, comps, coll, refused>>

(* The target callback of a put or an accumulate. *)
OpArrives(p, t) ==
    /\ flight[p][t] > 0
    /\ flight' = [flight EXCEPT ![p][t] = @ - 1]
    /\ win' = [win EXCEPT ![t].recvd = @ + 1, ![t].src[p] = @ - 1]
    /\ UNCHANGED <<prog, call, posts, comps, coll, refused>>

-----------------------------------------------------------------------------
(* MPID_Win_fence.                                                           *)

(* The counters go into the reduce_scatter. *)
Win_fence(p) ==
    /\ Calls(p, "fence")
    /\ call' = [call EXCEPT ![p].at = "reduce"]
    /\ coll' = [coll EXCEPT ![p].red = ~@, ![p].contrib = win[p].puts]
    /\ UNCHANGED <<prog, win, flight, posts, comps, refused>>

(* The sum over the ranks up to p of what they contributed for t. *)
Sum(t) ==
    LET upTo[p \in Rank] == coll[p].contrib[t] + (IF p = 0 THEN 0 ELSE upTo[p - 1])
    IN  upTo[N - 1]

(* The reduce_scatter returns when all have called it, and the wait begins. *)
FenceReduced(p) ==
    /\ call[p].at = "reduce"
    /\ \A q \in Rank : coll[q].red = coll[p].red
    /\ call' = [call EXCEPT ![p].at = "fence", ![p].total = Sum(p)]
    /\ UNCHANGED <<prog, win, flight, posts, comps, coll, refused>>

(* All that was sent here is here, all that was sent from here has left.     *)
FenceWaited(p) ==
    /\ call[p].at = "fence"
    /\ win[p].recvd = call[p].total /\ win[p].pend = 0
    /\ win' = [win EXCEPT ![p].epoch = "FENCE_ISSUED", ![p].recvd = 0, ![p].ops = 0,
                          ![p].puts = [t \in Rank |-> 0], ![p].src = [t \in Rank |-> 0]]
    /\ call' = [call EXCEPT ![p].at = "barrier"]
    /\ coll' = [coll EXCEPT ![p].bar = ~@]
    /\ UNCHANGED <<prog, flight, posts, comps, refused>>

(* The barrier, whose result the fence returns.                             *)
FenceDone(p) ==
    /\ call[p].at = "barrier"
    /\ \A q \in Rank : coll[q].bar = coll[p].bar
    /\ Return(p)
    /\ UNCHANGED <<win, flight, posts, comps, coll>>

-----------------------------------------------------------------------------
(* Post, start, complete, wait.                                              *)

(* Mutant of Win_post: the loop over the group ends one rank too early.       *)
MutOneShort(p) ==
    /\ Calls(p, "post")
    /\ win' = [win EXCEPT ![p].epoch = IF @ = "START" THEN "PSCW" ELSE "POST",
                          ![p].post = Group(p)]
    /\ posts' = [posts EXCEPT ![p] =
                   [t \in Rank |-> @[t] + (IF t \in Group(p) /\ t < N - 1 THEN 1 ELSE 0)]]
    /\ Return(p)
    /\ UNCHANGED <<flight, comps, coll>>

(* MPID_Win_post. *)
Win_post(p) ==
    /\ Calls(p, "post")
    /\ win' = [win EXCEPT ![p].epoch = IF @ = "START" THEN "PSCW" ELSE "POST",
                          ![p].post = Group(p)]
    /\ posts' = [posts EXCEPT ![p] =
                   [t \in Rank |-> @[t] + (IF t \in Group(p) THEN 1 ELSE 0)]]
    /\ Return(p)
    /\ UNCHANGED <<flight, comps, coll>>

(* Mutant of Win_start: it does not wait for the POSTs.                       *)
MutNoPost(p) ==
    /\ Calls(p, "start")
    /\ win' = [win EXCEPT ![p].epoch = IF @ = "POST" THEN "PSCW" ELSE "START"]
    /\ call' = [call EXCEPT ![p].at = "start"]
    /\ UNCHANGED <<prog, flight, posts, comps, coll, refused>>

(* MPID_Win_start, which then waits for the POST of each rank in turn. *)
Win_start(p) ==
    /\ Calls(p, "start")
    /\ win' = [win EXCEPT ![p].epoch = IF @ = "POST" THEN "PSCW" ELSE "START"]
    /\ call' = [call EXCEPT ![p].at = "start", ![p].todo = Group(p)]
    /\ UNCHANGED <<prog, flight, posts, comps, coll, refused>>

(* The rank of the group a call deals with. *)
First(p, t) == t \in call[p].todo /\ \A q \in call[p].todo : t <= q

RecvPost(p) ==
    /\ call[p].at = "start"
    /\ \E t \in Rank :
          /\ First(p, t) /\ posts[t][p] > 0
          /\ posts' = [posts EXCEPT ![t][p] = @ - 1]
          /\ call' = [call EXCEPT ![p].todo = @ \ {t}]
    /\ UNCHANGED <<prog, win, flight, comps, coll, refused>>

StartDone(p) ==
    /\ call[p].at = "start" /\ call[p].todo = {}
    /\ win' = [win EXCEPT ![p].start = Group(p), ![p].ops = 0]
    /\ Return(p)
    /\ UNCHANGED <<flight, posts, comps, coll>>

(* Mutant of Win_complete: the exposure epoch of PSCW is forgotten.           *)
MutToNone(p) ==
    /\ Calls(p, "complete")
    /\ win' = [win EXCEPT ![p].epoch = "NONE"]
    /\ call' = [call EXCEPT ![p].at = "complete"]
    /\ UNCHANGED <<prog, flight, posts, comps, coll, refused>>

(* MPID_Win_complete, which waits for local completion only. *)
Win_complete(p) ==
    /\ Calls(p, "complete")
    /\ win' = [win EXCEPT ![p].epoch = IF @ = "PSCW" THEN "POST" ELSE "NONE"]
    /\ call' = [call EXCEPT ![p].at = "complete"]
    /\ UNCHANGED <<prog, flight, posts, comps, coll, refused>>

(* Mutant of CompleteSend: rma_puts_accs is not reset.                        *)
MutNoReset(p) ==
    /\ call[p].at = "complete" /\ win[p].pend = 0
    /\ comps' = [comps EXCEPT ![p] =
                   [t \in Rank |-> IF t \in win[p].start
                                   THEN Append(@[t], win[p].puts[t]) ELSE @[t]]]
    /\ win' = [win EXCEPT ![p].start = {}]
    /\ Return(p)
    /\ UNCHANGED <<flight, posts, coll>>

CompleteSend(p) ==
    /\ call[p].at = "complete" /\ win[p].pend = 0
    /\ comps' = [comps EXCEPT ![p] =
                   [t \in Rank |-> IF t \in win[p].start
                                   THEN Append(@[t], win[p].puts[t]) ELSE @[t]]]
    /\ win' = [win EXCEPT ![p].start = {}, ![p].puts =
                 [t \in Rank |-> IF t \in win[p].start THEN 0 ELSE @[t]]]
    /\ Return(p)
    /\ UNCHANGED <<flight, posts, coll>>

(* MPID_Win_wait. *)
EnterWait(p) ==
    /\ win' = [win EXCEPT ![p].epoch = IF @ = "PSCW" THEN "START" ELSE "NONE"]
    /\ call' = [call EXCEPT ![p].at = "wait", ![p].todo = win[p].post]
    /\ UNCHANGED <<prog, flight, posts, comps, coll, refused>>

Win_wait(p) == Calls(p, "wait") /\ EnterWait(p)

(* MPID_Win_test that finds a COMPLETE of every rank; otherwise it changes   *)
(* nothing.                                                                  *)
Win_test(p) ==
    /\ Calls(p, "wait")
    /\ \A t \in win[p].post : comps[t][p] # <<>>
    /\ EnterWait(p)

(* Mutant of RecvComplete: rma_puts_accs_received is not reduced.             *)
MutKeepReceived(p) ==
    /\ call[p].at = "wait"
    /\ \E t \in Rank :
          /\ First(p, t) /\ comps[t][p] # <<>>
          /\ win' = [win EXCEPT ![p].src[t] = @ + Head(comps[t][p])]
          /\ comps' = [comps EXCEPT ![t][p] = Tail(@)]
    /\ call' = [call EXCEPT ![p].at = "waitOps"]
    /\ UNCHANGED <<prog, flight, posts, coll, refused>>

(* The counter of COMPLETE is added when the message is received. *)
RecvComplete(p) ==
    /\ call[p].at = "wait"
    /\ \E t \in Rank :
          /\ First(p, t) /\ comps[t][p] # <<>>
          /\ win' = [win EXCEPT ![p].src[t] = @ + Head(comps[t][p]),
                                ![p].recvd = @ - Head(comps[t][p])]
          /\ comps' = [comps EXCEPT ![t][p] = Tail(@)]
    /\ call' = [call EXCEPT ![p].at = "waitOps"]
    /\ UNCHANGED <<prog, flight, posts, coll, refused>>

(* Mutant of WaitedOps: COMPLETE is taken for the arrival of the operations.  *)
MutNoOpWait(p) ==
    /\ call[p].at = "waitOps"
    /\ \E t \in Rank :
          First(p, t) /\ call' = [call EXCEPT ![p].at = "wait", ![p].todo = @ \ {t}]
    /\ UNCHANGED <<prog, win, flight, posts, comps, coll, refused>>

WaitedOps(p) ==
    /\ call[p].at = "waitOps"
    /\ \E t \in Rank :
          /\ First(p, t) /\ win[p].src[t] = 0
          /\ call' = [call EXCEPT ![p].at = "wait", ![p].todo = @ \ {t}]
    /\ UNCHANGED <<prog, win, flight, posts, comps, coll, refused>>

WaitDone(p) ==
    /\ call[p].at = "wait" /\ call[p].todo = {}
    /\ win' = [win EXCEPT ![p].post = {}]
    /\ Return(p)
    /\ UNCHANGED <<flight, posts, comps, coll>>

-----------------------------------------------------------------------------
FenceStep(p) == Win_fence(p) \/ FenceReduced(p) \/ FenceWaited(p) \/ FenceDone(p)

AccessStep(p) ==
    Win_start(p) \/ RecvPost(p) \/ StartDone(p) \/ Win_complete(p) \/ CompleteSend(p)

ExposureStep(p) ==
    \/ Win_post(p) \/ Win_wait(p) \/ Win_test(p)
    \/ RecvComplete(p) \/ WaitedOps(p) \/ WaitDone(p)

OpStep(p) ==
    OpDone(p) \/ \E t \in Rank : Put(p, t) \/ Get(p, t) \/ OpArrives(p, t)

(* Every program has run to its end. *)
Finished == \A p \in Rank : prog[p] = <<>>

Next ==
    \E p \in Rank :
        FenceStep(p) \/ AccessStep(p) \/ ExposureStep(p) \/ OpStep(p) \/ Refuse(p)

Spec == Init /\ [][Next]_vars

(* Programs go on calling MPI, calls wait in the progress engine, which       *)
(* delivers what has been sent.                                              *)
FairSpec ==
    /\ Spec
    /\ \A p \in Rank :
          /\ WF_vars(FenceStep(p) \/ AccessStep(p) \/ ExposureStep(p) \/ Refuse(p))
          /\ WF_vars(OpDone(p))
          /\ \A t \in Rank : WF_vars(OpArrives(p, t))

-----------------------------------------------------------------------------
(* Properties *)

(* Type invariant; the counters sent with COMPLETE and summed up by fence     *)
(* never contain operations of an earlier epoch.                              *)
TypeOK ==
    /\ prog \in [Rank -> Seq(SyncCall)]
    /\ win \in [Rank -> Window]
    /\ call \in [Rank -> Call]
    /\ flight \in [Rank -> [Rank -> Nat]]
    /\ posts \in [Rank -> [Rank -> 0..1]]
    /\ comps \in [Rank -> [Rank -> Seq(0..MaxOps)]]
    /\ coll \in [Rank -> Collective]
    /\ refused \subseteq Rank

(* An operation of a start/complete epoch is under way only while its target  *)
(* has exposed the window to the origin: after post, before the end of wait.  *)
AccessInExposure ==
    \A p, t \in Rank :
        flight[p][t] > 0 /\ (win[p].epoch \in {"START", "PSCW"} \/ comps[p][t] # <<>>)
            => p \in win[t].post

(* A rank outside of all epochs has its counters at zero, although COMPLETE    *)
(* may overtake the operations it counts: the next fence compares with them.  *)
CleanOutsideEpochs ==
    \A t \in Rank :
        win[t].epoch = "NONE" /\ call[t].at = "none" =>
            /\ win[t].recvd = 0
            /\ \A p \in Rank : win[t].src[p] = 0 /\ win[t].puts[p] = 0

(* When wait returns, the operations of the whole group have arrived.  When    *)
(* fence returns, all operations of the ranks that have not left this fence    *)
(* have arrived.                                                               *)
EpochComplete ==
    [][\A t \in Rank :
          /\ call[t].at = "wait" /\ call'[t].at = "none" =>
                \A p \in win[t].post : flight[p][t] = 0
          /\ call[t].at = "barrier" /\ call'[t].at = "none" =>
                \A p \in Rank : call[p].at = "barrier" => flight[p][t] = 0 /\ flight[t][p] = 0]_vars

(* The epoch state, there "for error detection", accepts every call of a       *)
(* correct program and refuses every call made in a wrong epoch.               *)
RefusedIffWrong ==
    [][\A p \in Rank : prog'[p] # prog[p] => (p \in refused' <=> Head(prog[p]).wrong)]_vars

(* Fences and post/start/complete/wait of matching programs always return.     *)
ProgramsFinish == <>Finished
=============================================================================
