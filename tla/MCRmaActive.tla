----------------------------- MODULE MCRmaActive -----------------------------
(* Programs for RmaActive. *)
EXTENDS RmaActive

Sync(op, g) == [op |-> op, group |-> g, wrong |-> FALSE]
Wrong(op, g) == [op |-> op, group |-> g, wrong |-> TRUE]

Fence == Sync("fence", {})
Post(g) == Sync("post", g)
Start(g) == Sync("start", g)
Complete == Sync("complete", {})
Wait == Sync("wait", {})

(* Fence epochs, then rank 0 accesses all others, then a fence epoch.         *)
OneToAll ==
    [p \in Rank |->
        <<Fence, Fence>> \o
        (IF p = 0 THEN <<Start(Rank \ {0}), Complete>> ELSE <<Post({0}), Wait>>) \o
        <<Fence, Fence>>]

(* All others access rank 0, twice, without a fence in between. *)
AllToOne ==
    [p \in Rank |->
        (IF p = 0 THEN <<Post(Rank \ {0}), Wait, Post(Rank \ {0}), Wait>>
         ELSE <<Start({0}), Complete, Start({0}), Complete>>) \o <<Fence>>]

(* Everybody is origin and target at the same time, in a ring; rank 0 calls    *)
(* wait before complete.                                                       *)
Ring ==
    [p \in Rank |->
        <<Post({(p + 1) % N}), Start({(p + N - 1) % N})>> \o
        (IF p = 0 THEN <<Wait, Complete>> ELSE <<Complete, Wait>>) \o <<Fence>>]

(* Rank 0 starts before it posts. *)
StartFirst ==
    [p \in Rank |->
        (IF p = 0 THEN <<Start(Rank \ {0}), Post(Rank \ {0}), Complete, Wait>>
         ELSE <<Post({0}), Start({0}), Complete, Wait>>) \o <<Fence>>]

(* Ranks 0 and 1 also make calls that do not fit the epoch they are in.        *)
Misuse ==
    [p \in Rank |->
        CASE p = 0 -> <<Wrong("complete", {}), Post({1}), Wrong("fence", {}),
                        Wrong("post", {1}), Wrong("complete", {}), Wait,
                        Wrong("wait", {}), Fence>>
          [] p = 1 -> <<Wrong("wait", {}), Start({0}), Wrong("start", {0}),
                        Wrong("fence", {}), Wrong("wait", {}), Complete,
                        Wrong("complete", {}), Fence>>
          [] OTHER -> <<Fence>>]

AllPrograms == {OneToAll, AllToOne, Ring, StartFirst, Misuse}
=============================================================================
