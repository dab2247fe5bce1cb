---------------------------- MODULE AtomicMemory ----------------------------
(***************************************************************************)
(* What the accumulate functions of MPI promise about a window: every call *)
(* takes effect at one moment, at which a fetching call reads the value    *)
(* that its own update replaces.  A blocking call has taken effect when     *)
(* the process makes its next call.                                         *)
(***************************************************************************)
EXTENDS Integers

CONSTANTS
    Process,     \* the calling processes
    Index,       \* numbers of the calls of a process
    Calls,       \* the calls they make
    Loc, Value,  \* locations of the window and their values
    Update(_, _),   \* what a call makes of the value of its location
    Fetching(_),    \* whether a call returns the value it has found
    Blocking(_)     \* whether a call returns only after it has taken effect

VARIABLES
    cell,     \* the values in the window
    log       \* log[p][k]: call k of p: its arguments, whether it has taken effect,
              \* and the value it has fetched

NoCall == [call |-> {}, done |-> FALSE, val |-> {}]

Init ==
    /\ cell \in [Loc -> Value]
    /\ log = [p \in Process |-> [k \in Index |-> NoCall]]

Issue(p, k, c) ==
    /\ log[p][k] = NoCall
    /\ \A j \in Index : j < k =>
          /\ log[p][j] # NoCall
          /\ \A d \in log[p][j].call : Blocking(d) => log[p][j].done
    /\ log' = [log EXCEPT ![p][k] = [call |-> {c}, done |-> FALSE, val |-> {}]]
    /\ UNCHANGED cell

TakeEffect(p, k) ==
    \E c \in log[p][k].call :
        /\ ~log[p][k].done
        /\ log' = [log EXCEPT ![p][k].done = TRUE,
                              ![p][k].val = IF Fetching(c) THEN {cell[c.loc]} ELSE {}]
        /\ cell' = [cell EXCEPT ![c.loc] = Update(c, @)]

Next ==
    \E p \in Process, k \in Index :
        TakeEffect(p, k) \/ \E c \in Calls : Issue(p, k, c)

vars == <<cell, log>>

Spec == Init /\ [][Next]_vars
=============================================================================
