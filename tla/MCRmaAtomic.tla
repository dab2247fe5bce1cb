---------------------------- MODULE MCRmaAtomic ----------------------------
(* Instances of RmaAtomic. *)
EXTENDS RmaAtomic

CONSTANTS x, y

Get_accumulate(o, arg, large) ==
    [f |-> "get_accumulate", loc |-> x, op |-> o, arg |-> arg, cmp |-> 0, large |-> large]
Compare_and_swap(cmp, arg) ==
    [f |-> "compare_and_swap", loc |-> x, op |-> "REPLACE", arg |-> arg, cmp |-> cmp,
     large |-> FALSE]
No_op ==
    [f |-> "no_op", loc |-> x, op |-> "SUM", arg |-> 0, cmp |-> 0, large |-> FALSE]
Accumulate(loc, large) ==
    [f |-> "accumulate", loc |-> loc, op |-> "REPLACE", arg |-> 1, cmp |-> 0, large |-> large]

(* Atomic operations on x, plain accumulates on y. *)
Apart == {Get_accumulate("SUM", 1, TRUE), Compare_and_swap(0, 3), No_op,
          Accumulate(y, TRUE)}

(* Both on x. *)
Together == {Get_accumulate("SUM", 2, FALSE), Accumulate(x, FALSE)}

(* One rank makes two calls, the others one. *)
CallsOf == [p \in Rank |-> IF p = 1 THEN 2 ELSE 1]
=============================================================================
