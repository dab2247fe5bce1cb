---------------------------- MODULE MCPartLayout ----------------------------
(* Shapes for PartLayout. *)
EXTENDS PartLayout

CONSTANTS MaxParts, MaxTotal

AllShapes ==
    {h \in [sp: 1..MaxParts, sc: 1..MaxTotal, rp: 1..MaxParts, rc: 1..MaxTotal] :
        h.sp * h.sc = h.rp * h.rc /\ h.sp * h.sc <= MaxTotal}

(* One side has a multiple of the other side's partitions. *)
DivisibleShapes == {h \in AllShapes : h.sp % h.rp = 0 \/ h.rp % h.sp = 0}
=============================================================================
