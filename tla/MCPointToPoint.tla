--------------------------- MODULE MCPointToPoint ---------------------------
(* Instances of PointToPoint. *)
EXTENDS PointToPoint

CONSTANTS src, e1, e2

AllFromSrc == [m \in Send |-> src]

(* A receive from src with one tag, and one with MPI_ANY_TAG. *)
OneAndAny == {[srcs |-> {src}, envs |-> {e1}], [srcs |-> {src}, envs |-> Env]}
=============================================================================
