# A verification project for ParaStation MPI (psmpi)

ParaStation MPI is MPICH 4.2.3 with a communication device of its own, `mpich2/src/mpid/psp`
(PSP, about 18 000 lines of C), on top of the pscom library. Everything outside the PSP device is
upstream MPICH or vendored code; this project models the device. pscom is not part of the
repository and is modelled from how the device uses it.

All paths below are relative to `src/mpich2/src/mpid/psp/src/` unless they say otherwise.

## 1. Inventory

| Component | Files | State | Operations | What makes it hard |
|---|---|---|---|---|
| Partitioned communication | `mpid_part.c`, `mpid_start.c` | requests with `peer_request`, `part_ready`, `send_ctr`, `requests`, `part_per_req`, completion counter; two global lists | `Psend_init`, `Precv_init`, start, `Pready*`, `Parrived`, callbacks of SEND_INIT and CTS, completion of sub-requests | a handshake that may come early, in the middle or late; persistent rounds that run ahead of each other; data matched by tag only |
| RMA passive target | `mpid_rma_sync.c` | `lock_cnt`, `lock_exclusive`, `lock_list`, `remote_lock_state`, `epoch_lock_count`, operation counters | lock, unlock, lock_all, unlock_all, flush, flush_all and target callbacks | callbacks that wait in nested progress loops; control messages that overtake data |
| RMA active target | `mpid_rma_sync.c` | `epoch_state`, `ranks_post`, `ranks_start`, the same counters | fence, post, start, complete, wait, test | one set of counters for all kinds of epochs; ranks in different epochs at the same time |
| RMA operations | `mpid_rma_put.c`, `mpid_rma_get.c`, `mpid_rma_accumulate.c`, `mpid_rma_callbacks.c`, `mpid_rma.c` | counters of issued, locally pending and arrived operations, accumulate flag | put, get, accumulate, get_accumulate, fetch_and_op, compare_and_swap | completion callbacks in any order |
| Control messages | `mpid_psp_ctrl_msgs.c` | none | send, receive and probe of control messages | who accepts which header |
| Point-to-point, cancel, probe | `mpid_isend.c`, `mpid_irecv.c`, `mpid_cancel.c`, `mpid_mprobe.c`, `mpid_persistent.c` | requests, acknowledgements of synchronous sends | isend, issend, irecv, cancel, mprobe | cancel racing the match |
| Requests, progress | `mpid_psp_request.*`, `mpid_progress.c` | completion counters, references | complete, free, progress | references from callbacks |
| Connections, process groups | `mpid_vc.c`, `mpid_pg.c` | reference counted connection tables, process group graph | dup, release, disconnect, exchange of group information | sharing between communicators |
| Connect, accept, spawn | `mpid_psp_connect.c`, `mpid_spawn.c`, `mpid_comm.c` | ports, inter-communicators | open/close port, connect, accept, spawn | failure of one side |
| Init, finalize | `mpid_init.c`, `mpid_finalize.c` | sockets, finalize token | init, finalize | order of shutdown |
| Collective hooks, datatypes, statistics | `mpid_coll.c`, `mpid_psp_datatype.c`, `mpid_debug.c` | none that matters for a protocol | | |

Components interact through messages (all remote ones), through callbacks that pscom runs inside
any MPI call that makes progress, and through the window and request objects that calls and
callbacks share. The device runs calls and callbacks under one lock per process; the interleavings
are those of processes, messages and callbacks at the points where a call waits.

The hazards derived from this reading, with their lines, are in `PROJECT.json`.

## 2. Plan

Items marked (done) exist.

1. `PartComm` (done): the partitioned protocol, the youngest and least tested part of the device.
   Proofs: `PartCommProof`, `PartHandshakeProof` (done): every safety property.
   `PartLayout` (done): which elements a sub-request covers. Proofs: `PartLayoutProof` (done).
2. `RmaPassive` (done): locks and flushes. Proofs: `RmaPassiveProof` (done): every safety property.
3. `RmaActive` (done): fence and post/start/complete/wait. Proofs: `RmaActiveProof` (done): every safety
   property but `RefusedIffWrong`.
4. `RmaAtomic` (done), which implements the abstract `AtomicMemory` (done). Proofs: `RmaAtomicProof`
   (done): `OneLockHolder` and the refinement.
5. `PointToPoint` (done), which implements the abstract `MpiMessages` (done). Proofs: `PointToPointProof`
   (done): every safety property and the refinement.
6. `Connections` (done): connection set-up and the life time of virtual connections. Proofs:
   `ConnectionsProof` (done): every safety property.

## 3. Modules

| Module | Models | Role |
|---|---|---|
| `PartComm` | `mpid_part.c` | the protocol of any number of send and receive requests |
| `MCPartComm` | | instances: one pair, two pairs, tags, partition counts |
| `PartCommProof` | | type correctness, `NoMissedMatch` and `PairedInProgramOrder` for all parameters |
| `PartHandshakeProof` | | the inductive invariant of the handshake, `NoCrash`, `CompletionCounterExact`, `NoDanglingRequest`, `DataOfOwnRound`, `NoUnexpectedData`, `ArrivedImpliesIssued` |
| `PartLayout`, `MCPartLayout` | `mpid_part.c` | one round at the level of buffer elements |
| `PartLayoutProof` | | `OnlyReadyDataSent`, `Placed`, `WholeBuffer` for all sizes |
| `RmaPassive`, `MCRmaPassive` | `mpid_rma_sync.c`, `mpid_rma_*.c` | passive target epochs of one window |
| `RmaPassiveProof` | | type correctness of passive target epochs, `EpochTracksLocks`, who waits for whom, `LockCountExact`, `QueueOrder`, the operation counters, `MutualExclusion`, `RemoteCompletion`, `CleanBetweenEpochs`, `PendingAccumulateFlag` |
| `RmaActive`, `MCRmaActive` | `mpid_rma_sync.c`, `mpid_rma_*.c` | active target epochs of one window |
| `RmaActiveProof` | | type correctness of active target epochs, `AccessInExposure`, `CleanOutsideEpochs`, `EpochComplete` |
| `AtomicMemory` | | what the atomic operations promise: each takes effect once, at one moment |
| `RmaAtomic`, `MCRmaAtomic` | `mpid_rma_accumulate.c`, `mpid_rma_get.c`, `mpid_rma_sync.c` | the atomic operations on the window of one rank |
| `RmaAtomicProof` | | `OneLockHolder`, and that `RmaAtomic` implements `AtomicMemory` |
| `MpiMessages` | | what point-to-point communication to one receiver promises |
| `PointToPoint`, `MCPointToPoint` | `mpid_isend.c`, `mpid_irecv.c`, `mpid_cancel.c`, `mpid_mprobe.c` | sends, receives, cancel and matched probe |
| `PointToPointProof` | | `ReservedUntilReceived`, `NoStaleAck`, and that `PointToPoint` implements `MpiMessages` |
| `Connections`, `MCConnections` | `mpid_psp_connect.c`, `mpid_vc.c`, `mpid_comm.c` | connections and communicators of one job |
| `ConnectionsProof` | | `NoFailure`, `LiveCommConnected`, `RefcountExact` for all well-formed programs |

The exact correspondence of definitions to lines is the `map` of `PROJECT.json`. Definitions whose
name begins with `Mut` are deliberately wrong versions of the definition that follows them: each
property is broken by one of them, which shows that the property depends on the code it is about.

### PartComm

A send request is a record of the fields of `MPID_DEV_Request_partitioned` that the protocol uses:
`peer` (`peer_request`, non-NULL exactly while a clear-to-send is stored), `alloc`/`ready`
(`part_ready`), `ctr` (`send_ctr`), `requests`, `ppr` (`part_per_req`), `cc` (completion counter) and
the set `out` of Isends that are not complete. A receive request has `peer`, `requests`, `ppr`, `cc`,
its reference count, and the data it has received. `posted` and `unexp` are the two global lists of
the receiver, `recvq` the sub-receives that pscom holds, `toR` and `toS` the two directions of the
connection of each sender; one receiver process stands for all.

One action is one MPI call or one callback: `Psend_init`, `PsendStart`, `Pready` (one partition per
step; a range is a sequence of such steps), `RecvCts`, `SendSubDone`, `WaitSend`, `FreeSend`,
`Precv_init`, `RecvSendInit`, `PrecvStart`, `RecvData`, `WaitRecv`, `FreeRecv`. That a CTS for an
active request without `part_ready` reads through NULL is recorded in `crashed`, after which nothing
happens any more.

Two things are rules for the program rather than conditions of the code, and constants switch them:
`Separated` (the receiver starts a round only after the sender has completed the previous one) and
`EarlyFree` (requests may be freed before all rounds are used). The code enforces neither.

`RecvData` is pscom's matching followed by `receive_done` of the sub-receive. The status that it sets, truncation
included, is left out; the sizes of sub-requests are the subject of `PartLayout`.

The history fields `round` and `ord` are read only by properties, by the bound and by these rules.

### PartLayout

The arguments of both sides are chosen in the initial state; both sides agree on the smaller number of
sub-requests. `SubCount`, `SendOffset` and `RecvOffset` are the arithmetic of
`MPID_part_issue_data_send` and `MPID_part_issue_data_recv`, including that the send side computes
the offset of the last sub-request from its reduced size. `recvbuf` says for each element of the
receive buffer which element of the send buffer is there. A negative count ends the behaviour
(`badCount`), since what `MPID_Isend` does with it is not the protocol's business.

### RmaPassive

`org` is the origin half of the window object of each rank, `tgt` the target half. `flight` counts
puts and accumulates that have not arrived; `req` and `ans` are control messages in flight. A call
that waits is split where it waits (`Win_unlock`, `UnlockSend`, `UnlockDone`). A target callback that
waits (`RecvCounter`) is pushed on `stack`; only the topmost one can end (`CallbackDone`), and the
rank's own program stands still while the stack is not empty, exactly as the nested
`pscom_wait_any` loops of the code behave. Messages and data are unordered with each other, the
weakest assumption about pscom.

`scn`, chosen in the initial state, says how large the communicator is and what its program does. A
correct program locks windows in ascending order of ranks (otherwise two programs may wait for each
other, which is not the device's fault) and calls lock_all without a lock. With `wrong` it does not:
lock_all then fails at the first rank that is locked already and leaves the ranks before it locked
(`LockAllRefused`), unlock_all likewise (`UnlockAllRefused`).

### RmaActive

Every rank executes a list of synchronisation calls chosen from `Programs`; operations are issued
nondeterministically wherever a correct program may. `Accepted` is the table of the epoch checks at
the entry of each call; a call that fails it returns `MPI_ERR_RMA_SYNC` and the program goes on
(`Refuse`). The Reduce_scatter and Barrier that `MPID_Win_fence` calls are steps of the fence
(`FenceReduced`, `FenceDone`), modelled by their promise: nobody leaves before all have entered. One bit per rank and collective suffices to tell two consecutive ones apart, because
a fence contains both.

### RmaAtomic

All calls go to one window, that of `Home`. `mem` is its memory, `op[p]` the calls of p, with the value
that the target packed for their get and whether they have taken effect. `line[p]` is the connection to
`Home`, on which headers keep their order; the update of a `large` call leaves its data behind
(`data[p]`). `pend[p]` is `rma_local_pending_cnt`: local completion says nothing about the arrival of the
data. `cb` are the unlock callbacks that wait in nested progress loops; since each waits only for its own
origin, and no origin has two, a set is enough. The local shortcut of `Home` does no progress between
trylock and unlock and is one step. Values are `Width` bits wide and wrap around.

`AtomicMemory` knows only the cells and a log of calls. The refinement mapping takes a call as done when
its update is applied, or its value packed if it stores nothing; the value it returns then has to be the
one in memory at that moment. Compare_and_swap and get_accumulate implement it because of the internal
lock and of the passive wait in the unlock callback; plain accumulates do not take the lock, so the
instance `Apart` gives them a location of their own, and `Together` shows what happens otherwise.

The model is of the build without `MPID_PSP_HAVE_PSCOM_RMA_API`, which is also what the other build does
for non-contiguous datatypes, with the defaults of `accumulate_ordering` and `wait_on_passive_side`.

### PointToPoint

Several senders, one receiver. `line[s]` holds the headers of a connection, those that pscom has not
started included (only these can be taken back locally); `posted` and `unexp` are pscom's lists; `acks`,
`ackq` and `uack` are the same for acknowledgements, which pscom matches with the receives that
`MPID_PSP_RecvAck` posts. A synchronous send completes when both pscom's send and the acknowledgement
are done: its completion counter is decremented by the first unless it adds the sub-request for the
second, so the model keeps one count. Improbe changes the type of a header in `unexp`, as the code does,
and `Restored` changes it back; what cannot be seen from its type (whether it wants an acknowledgement)
would be lost. Probe and Iprobe change nothing and are not actions.

`MpiMessages` is the promise of MPI: matching in order for each sender and among the receives, every
message received once or cancelled on request, and the truth told about it. In the refinement mapping a
message that is reserved by a probe counts as received by it.

`UniqueSync` restricts the program to one incomplete synchronous send per envelope and sender. Without it
acknowledgements can be exchanged between requests (see section 6).

### Connections

The processes of one job run a program of communicator calls, each made by its members. A communicator is
created through `MPIDI_PSP_connection_init`: `FastPath`, or `Publish`, `Exchange` and then
`ConnectOndemand` or the rounds of `connect_direct`. `pc[p].i` is the round, `pc[p].k` which of its two
parts p is in; `con[p][q]` is `grank2con` and remembers who opened the connection. The barrier of
`exchange_ep_strs` is PMI's, by its promise. `vc` and `vcrt` are the two levels of reference counts,
`cons` the connection that the process group knows. The process group's own count `pg->refcnt`
(`mpid_vc.c:173-179`) is not kept: it is the number of virtual connections that exist, q with `vc[p][q] > 0`, and
the destruction of a group that has none left is not modelled. `Publish` and `Exchange` are for sockets with an
endpoint string (see section 8). `bad` collects what the code would print as an error
or assert.

## 4. Runs

| Run | Instance | Distinct states | Shows |
|---|---|---|---|
| `part_pair` | 2 pairs with distant tags, 4 to 2 and 1 to 1 partitions, 2 rounds, early free | 47 245 | counters, `Parrived`, handshake, no crash, own data, completion of rounds |
| `part_order` | 2 pairs, same envelope, 2 rounds not separated, early free | 41 397 | matching and life time of requests |
| `part_race` | 1 pair, rounds not separated | violation | finding 1 |
| `part_collide` | 2 pairs, same tag | violation | finding 2 |
| `layout_divisible` | all shapes up to 6 partitions and 8 elements, one count divides the other | 2 294 | layout |
| `rma_passive` | 3 ranks with one window and 2 operations; 2 ranks with both windows, lock_all, flush_all; 2 ranks with lock_all failing half-way | 1 171 895 | locks, queue, remote completion, counters |
| `rma_fair` | 3 ranks, target 0, exclusive | 5 588 | no starvation |
| `rma_active` | 3 ranks, 5 programs (one with wrong calls), 1 put per epoch | 194 156 | epochs, counters, remote completion, refusal of wrong calls, every call returns |
| `p2p` | 1 sender, 2 sends, 2 receives or probes (one may truncate), 2 envelopes and a wildcard | 204 631 | refinement of `MpiMessages`, acknowledgements, reserved messages, completion |
| `atomic` | 3 ranks (4 calls), 2 locations, 2-bit values | 394 130 | refinement of `AtomicMemory`, internal lock, every call returns |
| `atomic_mixed` | the same with an accumulate on the location of a get_accumulate | violation | finding 3 |
| `connect` | 4 processes, 5 programs, direct or on demand, lazy or eager disconnect | 180 637 | connection set-up, reference counts, every call returns |

Why the bounds suffice. Two rounds let a round start with a CTS from the previous one still stored,
consumed or in flight; 4 to 2 partitions make both sides disagree on the number of sub-requests and put
two partitions into each. Two pairs are the smallest instance with a wrong match. Two ranks waiting for
each other, and one target with two remote origins and its own local lock, are the smallest instances
of nested callbacks and of a lock queue of length two; two operations let one arrive before and one
after the control message. In `RmaActive` three ranks are needed for a group of two and a ring, and two
epochs in a row for remainders in the counters. In `RmaAtomic` two remote origins and the local one
compete for the lock, and the second call of one origin meets what its first has left behind. In
`PointToPoint` two messages and two receives are the smallest instance of a wrong order, a wrong match and
an acknowledgement taken by the other request. In `Connections` four processes make three rounds, of which
the last is the one where both partners are the same, and groups of two, three and four members with
partly existing connections.

Deadlock is checked in `layout_divisible`, `rma_passive` and `rma_fair`. In `rma_passive` it is what shows that two
ranks which flush or unlock each other's window, both inside callbacks, do not wait for each other. It is switched off
where behaviours end: in `part_pair` and `part_order` (a request freed early leaves its partner unused), and
where programs are finite; there `RoundsComplete`, `ProgramsFinish`, `SsendCompletes`, `CallsComplete` and
`AllReturn` say what may not get stuck.

## 5. Fairness

* `PartComm!FairSpec`: weak fairness of the whole next-state relation. The program keeps calling
  MPI, which drives the progress engine, so something that can happen does. Every step uses up a bounded
  resource (rounds, partitions, messages), so this is enough. The same holds for `Connections!FairSpec`.
* `RmaPassive!FairSpec`: every connection is served (weak fairness of each message and completion);
  a call or a callback that can go on again and again does (strong fairness, since callbacks on top of
  it can disable it for a while); a program that holds a lock unlocks at some time. The last is an
  assumption on programs without which nobody can be granted a lock.
* `RmaActive!FairSpec`: programs go on to their next call and calls go on when they can; operations
  complete and arrive.
* `RmaAtomic!FairSpec`: calls and callbacks go on, but nobody has to make another call.
* `PointToPoint!FairSpec`: pscom makes progress on both sides, and the program receives a message that it
  has probed for with MPI_Improbe. It does not have to post, cancel or wait.

`EveryLockGranted` is checked for exclusive locks. With shared locks as well it does not hold, and this
is a property of the code: a shared request is granted past a queued exclusive one whenever the window
is locked in shared mode (`mpid_rma_sync.c:447`), so overlapping shared holders starve it. Also, after an
exclusive unlock only the first of several queued shared requests is granted at once
(`mpid_rma_sync.c:475-495`); the next one waits for another unlock.

## 6. Findings

1. `part_race`: the CTS of the next round reaches a send request that has issued all its data but was
   not yet waited for. The request counts as active, so the callback sets the completion counter of the
   finished round again and reads `part_ready`, which is NULL. `SeparatedRoundsNeverCrash` proves that
   this is the only way: programs that separate rounds never get there.
2. `part_collide`: data messages carry only tag + index, so two pairs of the same envelope (or of tags
   that are close together) can receive each other's data although the handshake paired them correctly.
3. `atomic_mixed`: a plain accumulate is not atomic with respect to get_accumulate, fetch_and_op and
   compare_and_swap in the build without pscom's RMA interface. It is applied between their fetch and
   their update, so that the fetched value is not the one that was replaced.

Known limits of the code, which the passing runs exclude by a condition on the instance or in the property, and
which the same modules exhibit without it. No property of the passing runs covers these cases:

* `PartLayout` with shapes where neither partition count divides the other (`Shapes <- AllShapes`):
  the two sides tile the buffer differently, and `WholeBuffer` fails. "last request could be smaller,
  take the rest" (`mpid_part.c:245`) holds on each side for itself. The runs of the test `parrived` with 33
  and 17 partitions are commented out (`mpich2/test/mpi/part/testlist:44-45`).
* `RmaPassive` with `Ordering = FALSE`, the info key `accumulate_ordering=none`: two accumulates to one
  target are outstanding, the completion of the first clears the flag that the second one asserts
  (`mpid_rma_accumulate.c:32`); `PendingAccumulateFlag` fails.
* `PointToPoint` with `UniqueSync = FALSE`: of two incomplete synchronous sends with one envelope, one
  matched and one cancelled, each may take the acknowledgement of the other; `MessagesSpec` fails, since the
  program is told that the message which was received is cancelled.
* `PointToPoint`: a synchronous message that is truncated is never acknowledged (`mpid_irecv.c:86`);
  `SsendCompletes` says so with its exception for `Short`.
* `Connections` with communicators of {0,1}, of {0,2} and then of {0,1,2}, created from a session: process 0
  has all connections and takes the fast path, 1 and 2 wait for it in the barrier of the endpoint
  exchange; `AllReturn` fails. The comment at `mpid_psp_connect.c:670` says "This function is collective over
  comm".
* `Connections` creates no communicator from a session for processes whose virtual connections were all
  disconnected before: `my_pg->vcr` is then NULL (`mpid_comm.c:678`), which `NoFailure` reports as "no vc".

## 7. Proofs

All theorems are checked by TLAPS and hold for every value of the constants that satisfies the `ASSUME`s of
the component's module. Those only say what the constants are (sets of requests, numbers of ranks and
partitions, programs). Some theorems have a hypothesis on the program besides, because the code relies on
it without checking it: `Separated` and `TagsApart` (`PartComm`), `Divisible` (`PartLayout`), `Ordering`
(`RmaPassive`), `FenceUsedTogether` (`RmaActive`), `Separate` (`RmaAtomic`), `UniqueSync` (`PointToPoint`),
`WellFormed` (`Connections`). Each is explained where it is used, with what goes wrong without it; for each there is a passing run whose instance meets it.

### PartComm

For arbitrary sets of requests and processes, tags, context ids, partition counts and round bounds:

* `TypeCorrect`: `Spec => []TypeOK`. The content is that the renegotiated number of sub-requests and
  of partitions per sub-request stays positive, for which `CheckNumRequests` needs a lemma on division.
* `NoMissedMatchHolds`: `Spec => []NoMissedMatch`. Inductive together with `TypeOK`: an entry is added
  to one list only if the other holds no match, and lists otherwise only shrink; lemmas describe
  `RemoveAt` and `Append`.
* `HandshakeHolds`: for `Separated` programs `Spec => []HandshakeInv`. The invariant is a conjunction of
  `SendRoundInv` (when `part_ready` exists and what the counters then are), `AnnouncedOnce` (a send
  request is in exactly one of: message, unexpected list, paired), `UnpairedRecv` (an unpaired receive
  request was started at most once and cannot complete) and `OneClearToSend` (each started round has
  exactly one CTS: in flight, stored, or used up, and the receiver is at most one round ahead).
* `SeparatedRoundsNeverCrash`: `Spec => []NoCrash` follows. `NoCrash` alone is not inductive: the CTS
  callback is safe because a CTS in flight means that the sender has no other CTS stored and that its
  current round is not issued, which is `OneClearToSend`; this in turn needs that a CTS names the pair
  (`AnnouncedOnce`) and that the receiver did not start again before the sender completed
  (`SendRoundInv` relates completed, issued and started rounds).
* `PairedInProgramOrderHolds`: `Spec => []PairedInProgramOrder`, for any program. Requests of one envelope
  are numbered densely and without repetition on either side; the send requests that wait (first those
  in the list, then those in messages) and the receive requests that wait are in the order of these numbers; and
  all numbers below the first that waits are paired (`ProgramOrderInv`). When two requests are paired, both
  are the oldest that wait of their side, so their numbers are equal. That one of the two lists has no
  entry for the envelope is `NoMissedMatch`, which the proof uses.
* `CompletionCounterHolds`: for `Separated` programs `Spec => []CompletionCounterExact`. `CounterInv` adds
  which sub-requests are out: once the CTS is there, exactly ready ones, so that `Pready` never issues one
  twice and each completion callback finds its own. A receive request has a sub-receive in pscom for each
  unit of its counter; the handshake may replace the number of sub-requests only while the round has not
  been posted. The counting rests on lemmas about the cardinality of the positions of a list after `RemoveAt` and
  after the loop of `MPID_part_issue_data_recv`.
* `NoDanglingRequestHolds`: for `Separated` programs `Spec => []NoDanglingRequest`. The first half needs only
  the reference that `MPID_Precv_init` takes (`PostedHeld`). For the second, a CTS in flight belongs to a round
  that the sender has not issued, and a send request is freed only when no further round of its partner can
  have started (`FreedLast`).
* `DataOfOwnRoundHolds`, `NoUnexpectedDataHolds`, `ArrivedImpliesIssuedHolds`: under `Separated` and
  `TagsApart`. `SizesAgree` says that both sides of a pair use the same number of sub-requests once the
  sender has its CTS, and that these cover all partitions; `PlacedInv` that each data message in flight has
  its one sub-receive in pscom, of the same pair, round and index; `CtrCounts` that `send_ctr` is the number of
  sub-requests that are ready, so that a round that is complete at the receiver has been issued as a whole.
  `TagsApart` (tags of different envelopes further apart than their numbers of partitions, and
  no envelope used by two receive requests) cannot be dropped: sub-requests use `tag + 1 + index`, and the
  run `part_collide` shows what happens to two requests of one envelope. The instance of `part_pair` meets both.

### PartLayout

For any numbers and sizes of partitions on both sides, any order of `MPI_Pready` and any order of arrival, under
`Divisible`: the number of partitions of one side is a multiple of that of the other. The code assumes this;
section 6 says what it does otherwise. The instance of the run `layout_divisible` meets it.

* `Shares` and `SameParts`: both sides, which divide by their own number of partitions, arrive at sub-requests of
  the same size at the same place. Products of variables are given to the solver in small steps (`Monotone`,
  `Cancel`, `Quotient`, `Divide`).
* `LayoutHolds`: `Spec => []LayoutInv`: a sub-request that was sent has all its partitions ready, what lies
  in the receive buffer came from the same place of the send buffer, and what has been received is filled.
* `OnlyReadyDataSentHolds`, `PlacedHolds`, `WholeBufferHolds` follow. The first needs that the partition of every element of
  a sub-request is among those that `MPID_part_send_if_ready` looks at (`PartitionSeen`), the last that every
  element belongs to a sub-request (`Covered`).

### RmaPassive

For any number of ranks and every scenario. The invariants are stacked, each adding what the next needs:

* `OriginInv`: types, and for each origin that `epoch_lock_count` is the cardinality of
  the set of windows it has locked, with where its call is. The call has to be part of it: while lock_all is
  under way, or refused half-way, the locks below its current rank are held and the others are not. From it
  `PassiveTypeCorrect` and `EpochTracksLocksHolds`.
* `TokenInv`: a request in flight, an entry of `lock_list`, a waiting callback and
  an answer are four places of one token of an origin and a target. Each origin that waits for a target has
  exactly one, the others have none, and what is in the token (the lock mode) is what the origin asked for.
  For flush_all, whose origin waits for all at once, the number of its tokens equals the number of ranks its
  counter still expects: a statement about two cardinalities. Without it nothing says that an answer is
  meant for the call that takes it.
* `LockInv`: `lock_cnt` is the number of origins that hold the lock or have its
  grant under way, `lock_exclusive` says how, and the head of a non-empty `lock_list` is not compatible with
  the holders. The proof classifies each step by what it does to one window (`LockMoves`: kept, gained,
  queued, released, passed on), so that the counting is done once. From it `LockCountExactHolds` and the
  action property `QueueOrderHolds`.
* `PairInv`: for each origin and target, the target's counter is what is in flight
  less what the origin has not reported yet, less what a report in flight says, or exactly what is in flight
  once the report has arrived. An answered unlock therefore has nothing in flight. From it and `LockInv`
  follow `MutualExclusionHolds` and the action property `RemoteCompletionHolds`; with `ReceivedInv`, which
  sums the counters over the origins, `CleanBetweenEpochsHolds`.
* `AccInv`: with `Ordering` (the default `accumulate_ordering`) an accumulate is started only when none is
  incomplete, so the flag is set exactly while one is: `PendingAccumulateFlagHolds`. `Ordering` is a
  hypothesis of this theorem because the info key can switch it off, and the assertion is then wrong.

### RmaActive

For any number of ranks, any bound on operations and, except where a hypothesis is named, any programs, also
those that the error checks refuse.

* Sums. The fence adds up what all ranks contributed. `Total` is this sum, defined by its partial sums, and
  `SumIsTotal` shows that the recursive function of the model computes it. What is needed of sums (the change of one
  summand, sums of natural numbers) is proved by induction, with the induction over an interval taken
  from `WellFoundedInduction` in the form that every non-empty set of numbers has a least element.
* `LocalHolds`: types, and for each rank what its epoch says about the groups of post and start, about the
  call that it is in and about its counters (`LocalInv`).
* `FenceInv`: how far ranks can be apart in a fence, in terms of the parity bits by which the model keeps the
  collectives: either no rank is past the barrier that others have not entered, or all are in the same fence; and the
  value that a rank waits for is the sum of what all contributed in this fence.
* `TokenHolds`: for an origin and a target, the POST message, the access epoch and the COMPLETE message
  are three places of one token, which exists exactly while the target has an exposure epoch that the origin has
  not ended. `ActiveTypeCorrect` follows (at most one POST of a target is under way to an origin).
* `BalanceHolds`: what the target has counted of an origin, what a COMPLETE message on its way says, and what the
  origin has yet to report add up to the operations under way. The counter of the target is negative while
  COMPLETE has overtaken operations, so an inequality would not be inductive. The second part says
  that a rank that waits in the barrier has nothing counted of a rank that has left it with operations of the next
  epoch, the third to which epoch operations under way belong. `AccessInExposureHolds` follows.
* `CleanOutsideEpochsHolds`: `Spec => [](FenceUsedTogether => CleanOutsideEpochs)`, and
  `EpochCompleteHolds`: `Spec /\ []FenceUsedTogether => EpochComplete`. When wait has seen its counters at zero for all
  origins that have reported, the balance leaves nothing under way. A fence compares only the sum of the
  counters: it returns when the sum of what is under way is zero, and because these are natural numbers each of
  them is (`TotalOfNaturals`).
* `FenceUsedTogether` says that while one rank is in a fence epoch in which it may access others, all ranks are in
  a fence epoch. It is MPI's rule for fence and not checked by the code. It is needed: a rank in a fence epoch may
  put to a rank that is in a post/wait epoch or in none, which then counts an operation that nobody
  announces to it. `OneKindHolds` derives the rule, and both results without it, for all programs
  that use only fences or none; the mixed programs of the run `rma_active` meet it as well.

### RmaAtomic

For any number of processes, locations and calls, and any width of values. `ModulusAssumption` says that
2^Width is a positive natural number: the provers have no theory of powers, TLC evaluates it in the runs.

* `AtomicInvHolds`: `Spec => []AtomicInv`. For each process (`ProcInv`) it relates where its call is, what
  is known of its calls, and what is on its connection in both directions, in `lock_list_internal` and among
  the waiting callbacks: a get is on its way only for a call that has fetched nothing, an update only for one
  that has not taken effect, once, and an unlock request is the last header of its connection
  (`ChannelInv`), which is why the callback sees the data that is still missing. `LockInv` says that
  `lock_internal` is set exactly if one process is its holder. `OneLockHolderHolds` follows.
* `FetchedInvHolds`: the value that a call has fetched is still in the window while its update is under way.
  This needs `Separate`: no plain accumulate goes to a location of a call that takes the lock, because an
  accumulate does not take it. The hypothesis cannot be dropped: the run `atomic_mixed` shows a counterexample
  to the theorem without it. The instance `Apart` of the run `atomic` satisfies it.
* `MemoryRefinement`: `Spec => MemorySpec` under `Separate`. Each step issues a call, lets one take effect,
  or changes nothing that `AtomicMemory` sees (`Kinds`); the value that is stored is `Update` of the value
  in memory because of `FetchedInv`. `FetchesWhatItReplacesHolds` is the same for the action property.

### PointToPoint

For any number of senders, sends and receives, any envelopes and selectors, and any set of receives whose
buffer is too small. The invariants are two, and the refinement rests on both:

* `PlacesInv` (`PlacesHold`): a message is on its line, in the list of unexpected messages or taken by a
  receive, in at most one of these places except that a probe takes it where it lies, and what pscom has done
  with it agrees (`PlaceInv`); a standard message that pscom did not take back is in one of them (`LossInv`);
  messages of one sender keep their order within a list, and those in the list are older than those on the
  line (`OrderInv`); a reserved header belongs to one probe, and no posted receive accepts a message in the
  list (`UnexpInv`, `RecvInv`, `PostedInv`). `ReservedUntilReceivedHolds` follows. It is not inductive alone:
  that no receive, probe or cancel takes a reserved message is in its type, but that the probe still finds it
  needs that no other request has the same message.
* `DeviceInv` (`DeviceHolds`), under `UniqueSync`: the two queues of acknowledgements hold at most one for
  each request, and only for one that waits (`TokenInv`); a DATA_ACK means that the message was taken, a
  CANCEL_DATA_ACK that it was not; the completion counter and the cancel bit agree with what has become of
  the message (`CountInv`). Messages and acknowledgements carry only the envelope, so the proof has to show that
  an acknowledgement reaches the request it was sent for. `OneSync` says that of two synchronous sends of one
  envelope and sender the older one is over; `CancelInv` that the synchronous messages of its envelope
  in front of a cancel are those of its own send or of older ones, so that the message it meets is its own. `NoStaleAckHolds` follows.
* `MessagesRefinement`: `Spec => MessagesSpec` under `UniqueSync`. The lemmas `...Seen` map each action to an
  action of `MpiMessages` or to a stutter. The first message of the list that a receive accepts is the oldest
  of its sender that it may take (`FirstFound`, from `OrderInv`); a message that arrives is older than what
  comes behind it and nothing in the list is acceptable (`PostedInv`); the receiver eats a message only if its
  own send was asked to be cancelled; MPI_Wait reports the cancel bit, which is true by `CountInv`.

`UniqueSync` is a hypothesis of the last two because the code does not enforce it: without it
acknowledgements can be exchanged between requests (section 6), and both statements are wrong. Standard sends
are not restricted. `PlacesHold` and `ReservedUntilReceivedHolds` do not need it.

### Connections

For any number of processes, both ways to connect, lazy and eager disconnect, and all programs that are
`WellFormed`. That is what MPI asks of the calls of a job (`Consistent`): a communicator is made once and
freed at most once, by the same processes; a duplicate is made of a communicator that still exists; no rank is
listed twice. One rule more is what the code relies on: processes that have disconnected create a further
communicator only while they still share another one. It holds when a communicator is made from a parent, and
cannot be dropped for sessions (the last item of section 6). `Comm` is a finite range, so one of the programs has to
be the longest. The programs of the run `connect` meet all of it.

* `LocalHolds`: types, where a process is in `MPIDI_PSP_connection_init` (`Control`), and its tables (`LocalInv`). With
  `DoneBy(p)`, the calls that p has made, a communicator has a table exactly while p has it (`Tabled`), a table
  counts the communicators that use it (`Counted`), and a virtual connection counts the tables that hold it
  (`Referred`), one more for the process group until a disconnect has taken it. `RefcountExactHolds` follows. The
  history has to be part of it: `MPIDI_VC_Dup` takes no reference of a virtual connection that is gone because
  processes that have disconnected still share another communicator (`StillThere`).
* `WireHolds`: `Spec => [](StateInv /\ LocalInv /\ WireInv /\ bad = {})`. `Wired` says who opened a connection: the side
  that `Opens` names in the first call that both processes are in, and the other side has it only once its init
  message has come. `Opens` is the rule behind the rounds of `connect_direct`, without remainders: the rank at most half the
  way round below, and at exactly half the way the upper one (`ConnectsOpens`); it never names both
  (`OpensOne`). `Barriers` says that who is past the barrier of a group finds all members in a call of this
  group, with their endpoints published. `DoneCon` says that the members of what a process has made are
  connected with it, and `Kept` that these connections are open while the process group has the virtual connection.
* `NoFailureHolds`: nobody is refused, because a peer without a connection is met for the first time, has begun the same
  call and cannot have left it: it listens (`Listens`). This covers the fast path, by which some members may skip a
  barrier that others wait in. No connection is opened from both sides (`NotOther`), and all endpoints are there (`Published`).
* `LiveCommConnectedHolds` follows from `LocalInv`, `Wired` and `Kept`.

### Only model-checked

* All liveness properties, since fairness is out of the prover's reach: `RoundsComplete` of `PartComm`,
  `EveryLockGranted` of `RmaPassive`, `ProgramsFinish` of `RmaActive`, `CallsComplete` of `RmaAtomic`,
  `SsendCompletes` of `PointToPoint`, `AllReturn` of `Connections`.
* `RefusedIffWrong` of `RmaActive`: it compares the error checks with what the programs of the run say of
  their own calls, so it is a statement about these programs.

## 8. What is assumed and what is not modelled

External, modelled from their use: pscom delivers the headers of a connection in order and matches them
with the oldest request whose accept callback takes them; the completion of a send says nothing about the
arrival of its data. PMI's barrier and MPICH's collectives let nobody out before all are in.

Not modelled: compression of partitioned data; error returns of allocation and of pscom; operations in the
build with pscom's RMA interface beyond their counters; shared and dynamic windows and window creation;
persistent and blocking forms of point-to-point calls, which start the same operations; exchange of process
group information between jobs, ports, connect, accept and spawn (bootstrap over sockets and collectives,
without concurrency of its own but the failure of one side); topology badges; the endpoint exchange of a
socket without an endpoint string (`mpid_psp_connect.c:597-605`), which publishes nothing and has, unless the
settings are checked, only the lightweight barrier, or none with `PSP_LIGHTWEIGHT_INIT_BARRIER=0` (the default has it); the reference count and
destruction of a process group; initialisation and finalisation; MPICH above the device, and pscom below it. `components` in `PROJECT.json` gives the reason for
each.

The share of the repository's lines that the map covers is small, because MPICH itself and its vendored
libraries (hwloc, libfabric, ucx, yaksa) are more than nine tenths of it; the map covers the protocol code of
the PSP device.
