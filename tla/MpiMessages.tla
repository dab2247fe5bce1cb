---------------------------- MODULE MpiMessages ----------------------------
(***************************************************************************)
(* What the MPI program may rely on in point-to-point communication to one *)
(* receiver: messages of one sender do not overtake each other, receives   *)
(* are satisfied in the order in which they were posted, a message is       *)
(* either received once or cancelled because its sender asked for it, a     *)
(* synchronous send completes only when one of the two has happened, and   *)
(* the program is told which of them.                                       *)
(***************************************************************************)
EXTENDS Naturals

CONSTANTS
    Send, Recv,  \* send and receive requests: numbers, in program order
    SrcOf,       \* the sender of each send request
    Env,         \* envelopes: a tag and a context id
    Sels         \* selectors of receives: the sources and envelopes they accept

VARIABLES
    smsg,   \* each message: its fate and what the program was told
    rmsg    \* each receive request

avars == <<smsg, rmsg>>

Init ==
    /\ smsg = [m \in Send |-> [fate |-> "none", sync |-> FALSE, asked |-> FALSE,
                               out |-> "none", env |-> {}]]
    /\ rmsg = [r \in Recv |-> [st |-> "none", sel |-> [srcs |-> {}, envs |-> {}], msg |-> {}]]

Accepts(sel, m) == SrcOf[m] \in sel.srcs /\ smsg[m].env \in sel.envs

(* A receive with selector sel may take m: it is pending, and no earlier     *)
(* message of the same sender that sel accepts is.                           *)
Takes(sel, m) ==
    LET Candidate(x) == smsg[x].fate = "pending" /\ Accepts(sel, x)
    IN  /\ Candidate(m)
        /\ \A x \in Send : SrcOf[x] = SrcOf[m] /\ x < m => ~Candidate(x)

PostSend(m, e, sync) ==
    /\ smsg[m].fate = "none"
    /\ \A x \in Send : SrcOf[x] = SrcOf[m] /\ x < m => smsg[x].fate # "none"
    /\ smsg' = [smsg EXCEPT ![m] = [fate |-> "pending", sync |-> sync, asked |-> FALSE,
                                    out |-> "none", env |-> e]]
    /\ UNCHANGED rmsg

(* A receive (or a matched probe) is posted; it may find its message at once. *)
PostRecv(r, sel) ==
    /\ rmsg[r].st = "none"
    /\ \A x \in Recv : x < r => rmsg[x].st # "none"
    /\ \/ /\ rmsg' = [rmsg EXCEPT ![r] = [st |-> "posted", sel |-> sel, msg |-> {}]]
          /\ UNCHANGED smsg
       \/ \E m \in Send :
             /\ Takes(sel, m)
             /\ rmsg' = [rmsg EXCEPT ![r] = [st |-> "matched", sel |-> sel, msg |-> {m}]]
             /\ smsg' = [smsg EXCEPT ![m].fate = "matched"]

Match(m, r) ==
    /\ rmsg[r].st = "posted" /\ Takes(rmsg[r].sel, m)
    /\ \A x \in Recv : rmsg[x].st = "posted" /\ x < r => ~Accepts(rmsg[x].sel, m)
    /\ rmsg' = [rmsg EXCEPT ![r].st = "matched", ![r].msg = {m}]
    /\ smsg' = [smsg EXCEPT ![m].fate = "matched"]

FinishRecv(r) ==
    /\ \/ rmsg[r].st = "matched" /\ rmsg' = [rmsg EXCEPT ![r].st = "done"]
       \/ rmsg[r].st = "posted" /\ rmsg' = [rmsg EXCEPT ![r].st = "cancelled"]
    /\ UNCHANGED smsg

(* The program asks to cancel m, which may succeed at once or later.         *)
AskCancel(m) ==
    /\ smsg[m].fate # "none" /\ ~smsg[m].asked /\ smsg[m].out = "none"
    /\ \/ smsg' = [smsg EXCEPT ![m].asked = TRUE]
       \/ /\ smsg[m].fate = "pending"
          /\ smsg' = [smsg EXCEPT ![m].asked = TRUE, ![m].fate = "cancelled"]
    /\ UNCHANGED rmsg

Withdraw(m) ==
    /\ smsg[m].asked /\ smsg[m].fate = "pending"
    /\ smsg' = [smsg EXCEPT ![m].fate = "cancelled"]
    /\ UNCHANGED rmsg

(* The program learns the outcome of m. *)
Report(m) ==
    /\ smsg[m].fate # "none" /\ smsg[m].out = "none"
    /\ smsg[m].sync => smsg[m].fate # "pending"
    /\ smsg' = [smsg EXCEPT ![m].out = IF smsg[m].fate = "cancelled" THEN "cancelled" ELSE "done"]
    /\ UNCHANGED rmsg

Next ==
    \/ \E m \in Send : \/ \E e \in Env, sync \in BOOLEAN : PostSend(m, e, sync)
                       \/ AskCancel(m) \/ Withdraw(m) \/ Report(m)
    \/ \E r \in Recv : \/ \E sel \in Sels : PostRecv(r, sel)
                       \/ FinishRecv(r)
                       \/ \E m \in Send : Match(m, r)

Spec == Init /\ [][Next]_avars
=============================================================================
