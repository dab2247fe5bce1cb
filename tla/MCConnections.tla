--------------------------- MODULE MCConnections ---------------------------
(* Instances of Connections. *)
EXTENDS Connections

Create(c, lpids) == [op |-> "create", new |-> c, of |-> 0, lpids |-> lpids]
Dup(c, of, lpids) == [op |-> "dup", new |-> c, of |-> of, lpids |-> lpids]
Free(c, lpids) == [op |-> "free", new |-> c, of |-> 0, lpids |-> lpids]
Disconnect(c, lpids) == [op |-> "disconnect", new |-> c, of |-> 0, lpids |-> lpids]

World == <<0, 1, 2, 3>>
Other == <<3, 1, 0, 2>>

Program(direct, lazy, calls) == [direct |-> direct, lazy |-> lazy, ops |-> calls]

(* Pairs first, and then a communicator in another order of ranks.              *)
Grow == <<Create(1, <<0, 1>>), Create(2, <<2, 3>>), Create(3, Other),
          Disconnect(1, <<0, 1>>), Free(3, Other)>>

(* A duplicate that outlives its original. *)
Share == <<Create(1, <<2, 0, 1>>), Dup(2, 1, <<2, 0, 1>>), Disconnect(1, <<2, 0, 1>>),
           Disconnect(2, <<2, 0, 1>>)>>

(* A communicator that outlives the world. *)
Shrink == <<Create(1, World), Create(2, <<1, 0>>), Disconnect(1, World),
            Free(2, <<1, 0>>)>>

SomePrograms ==
    {Program(TRUE, FALSE, Grow), Program(TRUE, FALSE, Share), Program(FALSE, FALSE, Shrink),
     Program(FALSE, TRUE, Share), Program(TRUE, TRUE, <<Create(1, World)>>)}
============================================================================
