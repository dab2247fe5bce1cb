----------------------------- MODULE MCPartComm -----------------------------
(* Instances of PartComm: s1/r1 and s2/r2 are meant for each other.          *)
EXTENDS PartComm, TLC

CONSTANTS s1, s2, r1, r2, p1

OneS == {s1}
OneR == {r1}
TwoS == {s1, s2}
TwoR == {r1, r2}

OneRank == {p1}
AllOnP1 == [q \in Req |-> p1]

SameTag == [q \in Req |-> 0]
SpacedTags == [q \in Req |-> IF q \in {s2, r2} THEN 10 ELSE 0]
SameCtx == [q \in Req |-> 0]

TwoEach == [q \in Req |-> 2]
OneEach == [q \in Req |-> 1]
(* s1 and r1 disagree on the number of sub-requests, s2 and r2 do not.        *)
Mixed == [q \in Req |-> IF q = s1 THEN 4 ELSE IF q = r1 THEN 2 ELSE 1]
=============================================================================
