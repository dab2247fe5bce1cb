----------------------------- MODULE Connections -----------------------------
(***************************************************************************)
(* Connections of the processes of one job: MPIDI_PSP_connection_init,      *)
(* which every creation of an intra-communicator calls                      *)
(* (mpid_psp_connect.c), and the virtual connections that communicators      *)
(* share by reference counts until they are freed or disconnected            *)
(* (mpid_vc.c, mpid_comm.c, mpid_pg.c).                                      *)
(*                                                                         *)
(* Processes that have no connection yet publish their endpoints, meet in a  *)
(* barrier and connect, directly (in rounds, each connection opened by one   *)
(* side and accepted in a callback of the other) or on demand.  A process    *)
(* that has all connections returns at once, without the barrier.            *)
(***************************************************************************)
EXTENDS Integers, Sequences, FiniteSets, SequencesExt

CONSTANTS
    Proc,      \* ranks of the job
    Programs   \* what is run: the settings, and a sequence of communicator calls,
               \* each made by its members

(* lpids: the members in the order of their ranks; new: the communicator that *)
(* is created, freed or disconnected; of: the one that is duplicated.          *)
Op == [op: {"create", "dup", "free", "disconnect"}, new: Nat, of: Nat, lpids: Seq(Proc)]

ASSUME ProcAssumption == IsFiniteSet(Proc) /\ Proc \subseteq Nat
ASSUME ProgramAssumption ==
    \A pr \in Programs :
        /\ pr.direct \in BOOLEAN   \* enable_direct_connect
        /\ pr.lazy \in BOOLEAN     \* enable_lazy_disconnect
        /\ \A n \in DOMAIN pr.ops : pr.ops[n] \in Op /\ pr.ops[n].new \in DOMAIN pr.ops

VARIABLES
    prog,    \* the program that is run
    pc,      \* pc[p]: the last call p has begun, and where it is in it
    con,     \* grank2con: {}, or {r} if the connection was opened by r
    cons,    \* pg->cons: peers p has an open connection to
    init,    \* init messages on their way: <<from, to>>
    listen,  \* the processes that listen for connections
    kvs,     \* the processes whose endpoint was published (PMI)
    ep,      \* grank2ep_str: the peers whose endpoint p knows
    bar,     \* bar[p][g]: how often p has entered the barrier of the group g
    vc,      \* vc[p][q]: reference count of p's virtual connection to q, 0 if freed
    vcrt,    \* vcrt[p][t]: reference count of a table of virtual connections, each
             \* named after the communicator it was made for
    tab,     \* tab[p][c]: the table of communicator c: {}, or {t}
    bad      \* error messages and failed assertions

vars == <<prog, pc, con, cons, init, listen, kvs, ep, bar, vc, vcrt, tab, bad>>

cvars == <<con, cons, init, listen, kvs, ep, bar>>
rvars == <<vc, vcrt, tab>>

Comm == 1..Max({Len(pr.ops) : pr \in Programs})
Groups == UNION {{Range(o.lpids) : o \in Range(pr.ops)} : pr \in Programs}
ops == prog.ops

Init ==
    /\ prog \in Programs
    /\ pc = [p \in Proc |-> [n |-> 0, at |-> "out", i |-> 0, k |-> 1]]
    /\ con = [p \in Proc |-> [q \in Proc |-> {}]]
    /\ cons = [p \in Proc |-> {}]
    /\ init = {} /\ listen = {} /\ kvs = {}
    /\ ep = [p \in Proc |-> {}]
    /\ bar = [p \in Proc |-> [g \in Groups |-> 0]]
    /\ vc = [p \in Proc |-> [q \in Proc |-> 1]]
    /\ vcrt = [p \in Proc |-> [t \in Comm |-> 0]]
    /\ tab = [p \in Proc |-> [c \in Comm |-> {}]]
    /\ bad = {}

-----------------------------------------------------------------------------
(* The call p is in, its members, and the rank of p among them.               *)
Call(p) == ops[pc[p].n]
Members(p) == Range(Call(p).lpids)
Size(p) == Len(Call(p).lpids)
RankIn(p) == (CHOOSE r \in 1..Size(p) : Call(p).lpids[r] = p) - 1
Lpid(p, r) == Call(p).lpids[r + 1]

At(p, at) == pc[p].at = at

(* The next call in the program that p takes part in. *)
Todo(p) == {n \in DOMAIN ops : n > pc[p].n /\ p \in Range(ops[n].lpids)}
NextIs(p, n, kinds) ==
    At(p, "out") /\ Todo(p) # {} /\ n = Min(Todo(p)) /\ ops[n].op \in kinds

(* Mutant of NewTable: a duplicate does not count as a user of the table.       *)
MutDupNotCounted(p, o) ==
    IF o.op = "dup"
    THEN /\ tab' = [tab EXCEPT ![p][o.new] = tab[p][o.of]]
         /\ UNCHANGED <<vc, vcrt, bad>>
    ELSE /\ vcrt' = [vcrt EXCEPT ![p][o.new] = 1]
         /\ tab' = [tab EXCEPT ![p][o.new] = {o.new}]
         /\ vc' = [vc EXCEPT ![p] = [q \in Proc |-> IF q \in Range(o.lpids)
                                                     THEN @[q] + 1 ELSE @[q]]]
         /\ bad' = bad \cup {"no vc" : q \in {q \in Range(o.lpids) : vc[p][q] = 0}}

(* The new table of a communicator: a duplicate shares that of the original,   *)
(* any other takes a reference of each virtual connection (MPIDI_VC_Dup).       *)
NewTable(p, o) ==
    IF o.op = "dup"
    THEN /\ vcrt' = [vcrt EXCEPT ![p][CHOOSE t \in tab[p][o.of] : TRUE] = @ + 1]
         /\ tab' = [tab EXCEPT ![p][o.new] = tab[p][o.of]]
         /\ UNCHANGED <<vc, bad>>
    ELSE /\ vcrt' = [vcrt EXCEPT ![p][o.new] = 1]
         /\ tab' = [tab EXCEPT ![p][o.new] = {o.new}]
         /\ vc' = [vc EXCEPT ![p] = [q \in Proc |-> IF q \in Range(o.lpids)
                                                     THEN @[q] + 1 ELSE @[q]]]
         /\ bad' = bad \cup {"no vc" : q \in {q \in Range(o.lpids) : vc[p][q] = 0}}

-----------------------------------------------------------------------------
(* MPIDI_PSP_connection_init *)

Missing(p, o) == {q \in Range(o.lpids) : con[p][q] = {}}

(* The fast path: all connections are there. *)
FastPath(p, n) ==
    /\ NextIs(p, n, {"create", "dup"})
    /\ Missing(p, ops[n]) = {}
    /\ pc' = [pc EXCEPT ![p].n = n]
    /\ NewTable(p, ops[n])
    /\ UNCHANGED <<prog, cvars>>

(* Mutant of Publish: listening is not resumed before the barrier.              *)
MutListenLate(p, n) ==
    /\ NextIs(p, n, {"create", "dup"})
    /\ Missing(p, ops[n]) # {}
    /\ pc' = [pc EXCEPT ![p] = [n |-> n, at |-> "barrier", i |-> 0, k |-> 1]]
    /\ IF Len(ops[n].lpids) > 1
       THEN /\ kvs' = kvs \cup {p}
            /\ bar' = [bar EXCEPT ![p][Range(ops[n].lpids)] = @ + 1]
       ELSE UNCHANGED <<kvs, bar>>
    /\ UNCHANGED <<prog, con, cons, init, listen, ep, rvars, bad>>

(* Listen, and exchange_ep_strs up to its barrier, for a socket that has an    *)
(* endpoint string.                                                            *)
Publish(p, n) ==
    /\ NextIs(p, n, {"create", "dup"})
    /\ Missing(p, ops[n]) # {}
    /\ pc' = [pc EXCEPT ![p] = [n |-> n, at |-> "barrier", i |-> 0, k |-> 1]]
    /\ listen' = listen \cup {p}
    /\ IF Len(ops[n].lpids) > 1
       THEN /\ kvs' = kvs \cup {p}
            /\ bar' = [bar EXCEPT ![p][Range(ops[n].lpids)] = @ + 1]
       ELSE UNCHANGED <<kvs, bar>>
    /\ UNCHANGED <<prog, con, cons, init, ep, rvars, bad>>

(* The barrier is complete: the endpoints that are not known are fetched.      *)
Exchange(p) ==
    /\ At(p, "barrier")
    /\ \A q \in Members(p) : bar[q][Members(p)] >= bar[p][Members(p)]
    /\ ep' = [ep EXCEPT ![p] = @ \cup Members(p)]
    /\ bad' = bad \cup {"no endpoint" : q \in Members(p) \ (ep[p] \cup kvs \cup {p})}
    /\ pc' = [pc EXCEPT ![p].at = IF prog.direct THEN "round" ELSE "ondemand"]
    /\ UNCHANGED <<prog, con, cons, init, listen, kvs, bar, rvars>>

(* do_connect: grank2con_set also enters the connection into the process group. *)
Opened(p, new) ==
    /\ con' = [con EXCEPT ![p] = [q \in Proc |-> IF q \in new THEN {p} ELSE @[q]]]
    /\ cons' = [cons EXCEPT ![p] = @ \cup new]

(* The end of connection_init: listening is suspended. *)
Return(p) ==
    /\ pc' = [pc EXCEPT ![p].at = "out"]
    /\ listen' = listen \ {p}
    /\ NewTable(p, Call(p))

(* connect_ondemand: each side opens its end, pscom connects on the first use. *)
ConnectOndemand(p) ==
    /\ At(p, "ondemand")
    /\ Opened(p, Missing(p, Call(p)))
    /\ Return(p)
    /\ UNCHANGED <<prog, init, kvs, ep, bar>>

-----------------------------------------------------------------------------
(* connect_direct: in round i, p connects to the rank i above it and accepts   *)
(* from the rank i below it.                                                   *)

Dest(p) == Lpid(p, (RankIn(p) + pc[p].i) % Size(p))
Src(p) == Lpid(p, (RankIn(p) + Size(p) - pc[p].i) % Size(p))

(* Mutant of ConnectFirst: everybody accepts first, except in round 0.          *)
MutAllAccept(p) == pc[p].i = 0

ConnectFirst(p) == pc[p].i = 0 \/ (RankIn(p) \div pc[p].i) % 2 = 1

(* In the first or the second part of its round, p connects or waits; the       *)
(* second part is left out where both are with the same process.                *)
Connects(p) == ConnectFirst(p) <=> pc[p].k = 1
OnePart(p) == pc[p].i # 0 /\ Src(p) = Dest(p)

(* Mutant of Advance: the last round is missing.                               *)
MutOneRoundLess(p) ==
    LET next == IF pc[p].k = 1 /\ ~OnePart(p) THEN [pc[p] EXCEPT !.k = 2]
                ELSE IF pc[p].i < Size(p) \div 2 - 1 THEN [pc[p] EXCEPT !.i = @ + 1, !.k = 1]
                ELSE [pc[p] EXCEPT !.at = "last"]
    IN  pc' = [pc EXCEPT ![p] = next]

(* On to the second part, to the next round up to size / 2, or to the end.      *)
Advance(p) ==
    LET next == IF pc[p].k = 1 /\ ~OnePart(p) THEN [pc[p] EXCEPT !.k = 2]
                ELSE IF pc[p].i < Size(p) \div 2 THEN [pc[p] EXCEPT !.i = @ + 1, !.k = 1]
                ELSE [pc[p] EXCEPT !.at = "last"]
    IN  pc' = [pc EXCEPT ![p] = next]

(* do_connect_direct, with the wait until its init message is sent.             *)
ConnectDirect(p) ==
    /\ At(p, "round") /\ Connects(p) /\ con[p][Dest(p)] = {}
    /\ Opened(p, {Dest(p)})
    /\ init' = init \cup {<<p, Dest(p)>>}
    /\ bad' = bad \cup (IF Dest(p) \in listen THEN {} ELSE {"refused"})
    /\ Advance(p)
    /\ UNCHANGED <<prog, listen, kvs, ep, bar, rvars>>

(* The connection of this part is there; do_wait waits for it.                   *)
PartDone(p) ==
    /\ At(p, "round")
    /\ con[p][IF Connects(p) THEN Dest(p) ELSE Src(p)] # {}
    /\ Advance(p)
    /\ UNCHANGED <<prog, cvars, rvars, bad>>

(* cb_io_done_init_msg at q. *)
RecvInit(p, q) ==
    /\ <<p, q>> \in init
    /\ init' = init \ {<<p, q>>}
    /\ \/ /\ con[q][p] = {}
          /\ con' = [con EXCEPT ![q][p] = {p}]
          /\ cons' = [cons EXCEPT ![q] = @ \cup {p}]
          /\ UNCHANGED bad
       \/ /\ con[q][p] # {}
          /\ bad' = bad \cup (IF p = q THEN {} ELSE {"second connection"})
          /\ UNCHANGED <<con, cons>>
    /\ UNCHANGED <<prog, pc, listen, kvs, ep, bar, rvars>>

(* The last loop of connect_direct waits for everybody.                         *)
Connected(p) ==
    /\ At(p, "last")
    /\ Missing(p, Call(p)) = {}
    /\ Return(p)
    /\ UNCHANGED <<prog, con, cons, init, kvs, ep, bar>>

-----------------------------------------------------------------------------
(* Mutant of Torn: a virtual connection goes when only one table is left.      *)
MutTearEarly(p, q, disconnect) == disconnect /\ vc[p][q] = 3

(* VCR_put: the reference of the process group alone is left. *)
Torn(p, q, disconnect) == disconnect /\ vc[p][q] = 2

(* MPIDI_VCRT_Release and MPIDI_VCRT_Destroy of table t. The process group's   *)
(* own count is the number of q with vc[p][q] > 0 and not kept.                *)
Release(p, t, lpids, disconnect) ==
    /\ vcrt' = [vcrt EXCEPT ![p][t] = @ - 1]
    /\ IF vcrt[p][t] > 1 THEN UNCHANGED <<vc, cons>>
       ELSE /\ vc' = [vc EXCEPT ![p] = [q \in Proc |->
                        IF q \notin lpids THEN @[q]
                        ELSE IF Torn(p, q, disconnect) THEN 0
                        ELSE @[q] - 1]]
            /\ cons' = [cons EXCEPT ![p] =
                          IF prog.lazy THEN @
                          ELSE @ \ {q \in lpids : Torn(p, q, disconnect)}]

(* MPI_Comm_free, MPI_Comm_disconnect and MPIDI_PSP_Comm_destroy_hook. *)
FreeComm(p, n) ==
    /\ NextIs(p, n, {"free", "disconnect"})
    /\ LET o == ops[n]
       IN  /\ \E t \in tab[p][o.new] :
                 Release(p, t, Range(o.lpids), o.op = "disconnect")
           /\ tab' = [tab EXCEPT ![p][o.new] = {}]
    /\ pc' = [pc EXCEPT ![p].n = n]
    /\ UNCHANGED <<prog, con, init, listen, kvs, ep, bar, bad>>

-----------------------------------------------------------------------------
ProcStep(p) ==
    \/ \E n \in DOMAIN ops : FastPath(p, n) \/ Publish(p, n) \/ FreeComm(p, n)
    \/ Exchange(p) \/ ConnectOndemand(p) \/ ConnectDirect(p)
    \/ PartDone(p) \/ Connected(p)

Next == \E p \in Proc : ProcStep(p) \/ \E q \in Proc : RecvInit(p, q)

Spec == Init /\ [][Next]_vars

(* Every process runs its program, and pscom its callbacks. *)
FairSpec == Spec /\ WF_vars(Next)

-----------------------------------------------------------------------------
(* Properties *)

(* No process tries to connect to one that does not listen, opens a connection  *)
(* that the other side has opened already, looks for an endpoint that is not    *)
(* published, or uses a virtual connection that is gone.                        *)
NoFailure == bad = {}

(* The members of the communicator c. *)
MembersOf(c) == UNION {Range(ops[n].lpids) : n \in {m \in DOMAIN ops : ops[m].new = c}}

(* A communicator that both p and q have is carried by one open connection that *)
(* both know, whatever other communicators either of them has freed or           *)
(* disconnected.                                                                 *)
LiveCommConnected ==
    \A p, q \in Proc : \A c \in Comm :
        tab[p][c] # {} /\ tab[q][c] # {} /\ {p, q} \subseteq MembersOf(c) =>
            /\ vc[p][q] > 0 /\ q \in cons[p]
            /\ prog.direct => con[p][q] = con[q][p] /\ con[p][q] \in {{p}, {q}}

(* The reference count of a virtual connection is the number of tables that     *)
(* hold it, and one for the process group: it goes with the last of them, no     *)
(* sooner.                                                                       *)
RefcountExact ==
    \A p, q \in Proc :
        LET holders == {t \in Comm : vcrt[p][t] > 0 /\ q \in MembersOf(t)}
        IN  vc[p][q] = IF vc[p][q] = 0 THEN Cardinality(holders)
                                       ELSE 1 + Cardinality(holders)

(* Every process comes to the end of its program. *)
AllReturn == <>(\A p \in Proc : At(p, "out") /\ Todo(p) = {})
=============================================================================
