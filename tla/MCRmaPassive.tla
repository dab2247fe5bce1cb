---------------------------- MODULE MCRmaPassive ----------------------------
(* Instances of RmaPassive. *)
EXTENDS RmaPassive

(* Three ranks and one window: a queue of two, two operations in flight.      *)
Queue == [n |-> 3, targets |-> {0}, modes |-> BOOLEAN, alls |-> FALSE,
          wrong |-> FALSE, maxops |-> 2]

(* Two ranks that lock both windows, one by one and with lock_all.            *)
Mutual == [n |-> 2, targets |-> {0, 1}, modes |-> BOOLEAN, alls |-> TRUE,
           wrong |-> FALSE, maxops |-> 1]

(* Two ranks with shared locks that call lock_all and unlock_all at any time. *)
Refused == [n |-> 2, targets |-> {0, 1}, modes |-> {FALSE}, alls |-> TRUE,
            wrong |-> TRUE, maxops |-> 1]

AllScenarios == {Queue, Mutual, Refused}

(* Three ranks compete for one exclusive lock. *)
Exclusive == {[n |-> 3, targets |-> {0}, modes |-> {TRUE}, alls |-> FALSE,
               wrong |-> FALSE, maxops |-> 1]}
=============================================================================
