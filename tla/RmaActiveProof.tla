--------------------------- MODULE RmaActiveProof ---------------------------
(***************************************************************************)
(* Proofs about active target synchronisation: the counters of a window     *)
(* and the sums that fence makes of them, the collective calls of fence,    *)
(* POST and COMPLETE as tokens of an origin and a target, and the balance   *)
(* of what is under way with what the target will hear of.                  *)
(***************************************************************************)
EXTENDS RmaActive, WellFoundedInduction, TLAPS

-----------------------------------------------------------------------------
(* Induction and sums *)

(* A non-empty set of natural numbers has a least element. *)
LEMMA LeastElement ==
    ASSUME NEW T \in SUBSET Nat, T # {}
    PROVE  \E x \in T : \A y \in T : x <= y
<1> DEFINE R == {ss \in Nat \X Nat : ss[1] < ss[2]}
<1>1. IsWellFoundedOn(R, Nat)
  BY NatLessThanWellFounded, Zenon DEF OpToRel
<1>2. \A x, y \in Nat : y < x => <<y, x>> \in R
  OBVIOUS
<1> HIDE DEF R
<1>3. PICK x \in T : \A y \in T : ~(<<y, x>> \in R)
  BY <1>1, WFMin, Zenon
<1>4. \A y \in T : ~(y < x)
  BY <1>2, <1>3
<1> QED
  BY <1>3, <1>4

(* Induction, for a set of numbers. *)
LEMMA SetInduction ==
    ASSUME NEW S \in SUBSET Nat, 0 \in S, \A n \in S : n + 1 \in S
    PROVE  \A n \in Nat : n \in S
<1> SUFFICES ASSUME NEW k \in Nat, k \notin S PROVE FALSE
  OBVIOUS
<1> DEFINE T == Nat \ S
<1>1. PICK x \in T : \A y \in T : x <= y
  BY LeastElement
<1>2. x # 0 /\ x - 1 \in Nat
  BY <1>1
<1>3. x - 1 \in S
  BY <1>1, <1>2
<1>4. (x - 1) + 1 = x
  BY <1>1
<1> QED
  BY <1>1, <1>3, <1>4

(* P holds the sums of f over the ranks below each number; they all give Total. *)
Partial(P, f) ==
    /\ P \in [0..N -> Int] /\ P[0] = 0
    /\ \A i \in Rank : P[i + 1] = P[i] + f[i]
Total(f) == (CHOOSE P : Partial(P, f))[N]

(* Ranks and the numbers up to N. *)
LEMMA RankFacts ==
    /\ N \in Nat /\ N > 0 /\ Rank \subseteq Nat /\ 0 \in Rank /\ N - 1 \in Rank
    /\ 0 \in 0..N /\ N \in 0..N
    /\ \A i \in Rank : i \in 0..N /\ i + 1 \in 0..N /\ i \in Nat /\ i < N
    /\ \A i \in 0..N : i # N => i \in Rank
BY RankAssumption DEF Rank

(* Every function has partial sums. *)
LEMMA PartialExists ==
    ASSUME NEW f \in [Rank -> Int]
    PROVE  \E P : Partial(P, f)
<1> DEFINE Upto(P, n) == /\ P \in [0..n -> Int] /\ P[0] = 0
                         /\ \A i \in 0..(n - 1) : P[i + 1] = P[i] + f[i]
           S == {n \in Nat : n <= N => \E P : Upto(P, n)}
<1>1. 0 \in S
  <2>1. Upto([i \in 0..0 |-> 0], 0)
    OBVIOUS
  <2> QED
    BY <2>1
<1>2. ASSUME NEW n \in S PROVE n + 1 \in S
  <2>1. SUFFICES ASSUME n + 1 <= N PROVE \E P : Upto(P, n + 1)
    OBVIOUS
  <2>2. PICK P : Upto(P, n)
    BY <2>1, RankFacts
  <2>3. n \in Rank /\ n \in Nat /\ f[n] \in Int
    BY <2>1, RankFacts DEF Rank
  <2> DEFINE Q == [i \in 0..(n + 1) |-> IF i = n + 1 THEN P[n] + f[n] ELSE P[i]]
  <2>4. Q \in [0..(n + 1) -> Int] /\ Q[0] = 0
    BY <2>2, <2>3
  <2>5. \A i \in 0..n : Q[i + 1] = Q[i] + f[i]
    BY <2>2, <2>3
  <2>6. (n + 1) - 1 = n
    BY <2>3
  <2> HIDE DEF Q
  <2>7. Upto(Q, n + 1)
    BY <2>4, <2>5, <2>6
  <2> QED
    BY <2>7
<1> HIDE DEF S
<1>3. S \in SUBSET Nat
  BY DEF S
<1>4. N \in S
  BY <1>1, <1>2, <1>3, SetInduction, RankFacts
<1>5. N <= N => \E P : Upto(P, N)
  BY <1>4, Zenon DEF S
<1> HIDE DEF Upto
<1>6. PICK P : Upto(P, N)
  BY <1>5, RankFacts
<1> QED
  BY <1>6 DEF Partial, Rank, Upto

(* They are unique. *)
LEMMA PartialUnique ==
    ASSUME NEW f, NEW P, NEW Q, Partial(P, f), Partial(Q, f)
    PROVE  \A i \in 0..N : P[i] = Q[i]
<1> DEFINE S == {n \in Nat : n <= N => P[n] = Q[n]}
<1>1. 0 \in S
  BY DEF Partial
<1>2. ASSUME NEW n \in S PROVE n + 1 \in S
  <2>1. SUFFICES ASSUME n + 1 <= N PROVE P[n + 1] = Q[n + 1]
    OBVIOUS
  <2>2. n \in Rank /\ P[n] = Q[n]
    BY <2>1, RankFacts DEF Rank
  <2> QED
    BY <2>2 DEF Partial
<1>3. S \in SUBSET Nat
  OBVIOUS
<1> HIDE DEF S
<1>4. \A n \in Nat : n \in S
  BY <1>1, <1>2, <1>3, SetInduction
<1> QED
  BY <1>4, RankFacts DEF S

(* Any partial sums give the total. *)
LEMMA TotalIs ==
    ASSUME NEW f, NEW P, Partial(P, f)
    PROVE  Total(f) = P[N]
<1> DEFINE Q == CHOOSE Q : Partial(Q, f)
<1>1. Partial(Q, f)
  OBVIOUS
<1> HIDE DEF Q
<1>2. P[N] = Q[N]
  BY <1>1, PartialUnique, RankFacts
<1> QED
  BY <1>2 DEF Q, Total

(* The total is a number. *)
LEMMA TotalType ==
    ASSUME NEW f \in [Rank -> Int]
    PROVE  Total(f) \in Int
<1>1. PICK P : Partial(P, f)
  BY PartialExists
<1>2. P[N] \in Int
  BY <1>1, RankFacts DEF Partial
<1> QED
  BY <1>1, <1>2, TotalIs

(* The total of zeros is zero. *)
LEMMA TotalZero ==
    ASSUME NEW f \in [Rank -> Int], \A i \in Rank : f[i] = 0
    PROVE  Total(f) = 0
<1> DEFINE P == [i \in 0..N |-> 0]
<1>1. Partial(P, f)
  BY RankFacts DEF Partial
<1>2. Total(f) = P[N]
  BY <1>1, TotalIs
<1> QED
  BY <1>2, RankFacts

(* One more at k is one more in total. *)
LEMMA TotalUpdate ==
    ASSUME NEW f \in [Rank -> Int], NEW g \in [Rank -> Int], NEW k \in Rank, NEW d \in Int,
           g[k] = f[k] + d, \A i \in Rank : i # k => g[i] = f[i]
    PROVE  Total(g) = Total(f) + d
<1>1. PICK P : Partial(P, f)
  BY PartialExists
<1> DEFINE Q == [i \in 0..N |-> IF i > k THEN P[i] + d ELSE P[i]]
<1>2. P \in [0..N -> Int] /\ P[0] = 0 /\ \A i \in Rank : P[i + 1] = P[i] + f[i]
  BY <1>1 DEF Partial
<1>3. Q \in [0..N -> Int] /\ Q[0] = 0 /\ Q[N] = P[N] + d
  <2>1. k \in Nat /\ k < N /\ N \in Nat /\ 0 \in 0..N /\ N \in 0..N
    BY RankFacts
  <2>2. \A i \in 0..N : P[i] + d \in Int /\ P[i] \in Int
    BY <1>2
  <2>3. Q \in [0..N -> Int]
    BY <2>2
  <2>4. Q[0] = P[0]
    BY <2>1
  <2>5. Q[N] = P[N] + d
    BY <2>1
  <2> QED
    BY <1>2, <2>3, <2>4, <2>5
<1>4. ASSUME NEW i \in Rank PROVE Q[i + 1] = Q[i] + g[i]
  <2>1. i \in 0..N /\ i + 1 \in 0..N /\ i \in Nat /\ k \in Nat /\ f[i] \in Int /\ P[i] \in Int
        /\ P[i + 1] = P[i] + f[i]
    BY <1>2, RankFacts
  <2>2. CASE i < k
    BY <2>1, <2>2
  <2>3. CASE i = k
    BY <2>1, <2>3
  <2>4. CASE i > k
    BY <2>1, <2>4
  <2> QED
    BY <2>1, <2>2, <2>3, <2>4
<1> HIDE DEF Q
<1>5. Partial(Q, g)
  BY <1>3, <1>4 DEF Partial
<1>6. Total(f) = P[N] /\ Total(g) = Q[N]
  BY <1>1, <1>5, TotalIs
<1> QED
  BY <1>3, <1>6

(* The total of sums is the sum of the totals. *)
LEMMA TotalAdd ==
    ASSUME NEW f \in [Rank -> Int], NEW g \in [Rank -> Int], NEW h \in [Rank -> Int],
           \A i \in Rank : h[i] = f[i] + g[i]
    PROVE  Total(h) = Total(f) + Total(g)
<1>1. PICK P : Partial(P, f)
  BY PartialExists
<1>2. PICK Q : Partial(Q, g)
  BY PartialExists
<1> DEFINE R == [i \in 0..N |-> P[i] + Q[i]]
<1>0. P \in [0..N -> Int] /\ P[0] = 0 /\ Q \in [0..N -> Int] /\ Q[0] = 0
  BY <1>1, <1>2 DEF Partial
<1>3. R \in [0..N -> Int] /\ R[0] = 0 /\ R[N] = P[N] + Q[N]
  BY <1>0, RankFacts
<1>4. \A i \in Rank : R[i + 1] = R[i] + h[i]
  BY <1>1, <1>2, RankFacts DEF Partial
<1> HIDE DEF R
<1>5. Partial(R, h)
  BY <1>3, <1>4 DEF Partial
<1>6. Total(f) = P[N] /\ Total(g) = Q[N] /\ Total(h) = R[N]
  BY <1>1, <1>2, <1>5, TotalIs
<1> QED
  BY <1>3, <1>6

(* Partial sums of natural numbers grow. *)
LEMMA PartialGrows ==
    ASSUME NEW f \in [Rank -> Nat], NEW P, Partial(P, f)
    PROVE  \A n \in 0..N : \A i \in 0..n : P[i] <= P[n]
<1> DEFINE S == {n \in Nat : n <= N => \A i \in 0..n : P[i] <= P[n]}
<1>1. 0 \in S
  BY RankFacts DEF Partial
<1>2. ASSUME NEW n \in S PROVE n + 1 \in S
  <2>1. SUFFICES ASSUME n + 1 <= N, NEW i \in 0..(n + 1) PROVE P[i] <= P[n + 1]
    OBVIOUS
  <2>2. n \in Rank /\ \A j \in 0..n : P[j] <= P[n]
    BY <2>1, RankFacts DEF Rank
  <2>3. P[n] \in Int /\ P[i] \in Int /\ f[n] \in Nat /\ P[n + 1] = P[n] + f[n]
    BY <2>1, <2>2, RankFacts DEF Partial
  <2>4. i \in 0..n \/ i = n + 1
    BY <2>2, RankFacts
  <2> QED
    BY <2>2, <2>3, <2>4
<1>3. S \in SUBSET Nat
  OBVIOUS
<1> HIDE DEF S
<1>4. \A n \in Nat : n \in S
  BY <1>1, <1>2, <1>3, SetInduction
<1> QED
  BY <1>4, RankFacts DEF S

(* A total of natural numbers is a natural number, and zero only of zeros. *)
LEMMA TotalOfNaturals ==
    ASSUME NEW f \in [Rank -> Nat]
    PROVE  Total(f) \in Nat /\ (Total(f) = 0 => \A i \in Rank : f[i] = 0)
<1>0. f \in [Rank -> Int]
  OBVIOUS
<1>1. PICK P : Partial(P, f)
  BY <1>0, PartialExists
<1>2. Total(f) = P[N]
  BY <1>1, TotalIs
<1>3. P[0] = 0 /\ P[N] \in Int /\ P[0] <= P[N]
  BY <1>1, PartialGrows, RankFacts DEF Partial
<1>4. ASSUME P[N] = 0, NEW i \in Rank PROVE f[i] = 0
  <2>1. i \in 0..N /\ i + 1 \in 0..N /\ 0 \in 0..i /\ i \in 0..(i + 1) /\ i + 1 \in 0..N /\ N \in 0..N
        /\ i + 1 <= N
    BY RankFacts
  <2>2. P[0] <= P[i] /\ P[i + 1] <= P[N]
    BY <1>1, <2>1, PartialGrows
  <2>3. P[i + 1] = P[i] + f[i] /\ P[i] \in Int /\ f[i] \in Nat
    BY <1>1, <2>1 DEF Partial
  <2> QED
    BY <1>3, <1>4, <2>2, <2>3
<1> QED
  BY <1>2, <1>3, <1>4

(* What fence computes is the total of what the ranks contributed for t. *)
LEMMA SumIsTotal ==
    ASSUME NEW t \in Rank, coll \in [Rank -> Collective]
    PROVE  Sum(t) = Total([p \in Rank |-> coll[p].contrib[t]])
<1> DEFINE f == [p \in Rank |-> coll[p].contrib[t]]
           up(g) == [p \in Rank |-> coll[p].contrib[t] + (IF p = 0 THEN 0 ELSE g[p - 1])]
           u == CHOOSE g : g = up(g)
<1>1. f \in [Rank -> Int]
  BY DEF Collective
<1>2. PICK P : Partial(P, f)
  BY <1>1, PartialExists
<1>3. u = up(u)
  <2> DEFINE g == [p \in Rank |-> P[p + 1]]
  <2>1. g = up(g)
    <3>1. \A p \in Rank : P[p + 1] = coll[p].contrib[t] + (IF p = 0 THEN 0 ELSE g[p - 1])
      <4> SUFFICES ASSUME NEW p \in Rank
                   PROVE  P[p + 1] = coll[p].contrib[t] + (IF p = 0 THEN 0 ELSE g[p - 1])
        OBVIOUS
      <4>1. P[p + 1] = P[p] + f[p] /\ P[p] \in Int /\ f[p] \in Int /\ f[p] = coll[p].contrib[t]
            /\ P[0] = 0
        BY <1>1, <1>2, RankFacts DEF Partial
      <4>2. CASE p = 0
        BY <4>1, <4>2
      <4>3. CASE p # 0
        <5>1. p - 1 \in Rank /\ (p - 1) + 1 = p
          BY <4>3, RankFacts DEF Rank
        <5>2. g[p - 1] = P[p]
          BY <5>1
        <5> QED
          BY <4>1, <4>3, <5>2
      <4> QED
        BY <4>2, <4>3
    <3> QED
      BY <3>1
  <2> QED
    BY <2>1
<1>4. Sum(t) = u[N - 1]
  BY DEF Sum
<1> HIDE DEF u
<1> DEFINE S == {n \in Nat : n < N => u[n] = P[n + 1]}
<1>5. \A n \in Rank : u[n] = coll[n].contrib[t] + (IF n = 0 THEN 0 ELSE u[n - 1])
  BY <1>3
<1>6. 0 \in S
  <2>1. P[0 + 1] = P[0] + f[0] /\ P[0] = 0 /\ f[0] = coll[0].contrib[t] /\ f[0] \in Int
    BY <1>1, <1>2, RankFacts DEF Partial
  <2> QED
    BY <1>5, <2>1, RankFacts
<1>7. ASSUME NEW n \in S PROVE n + 1 \in S
  <2>1. SUFFICES ASSUME n + 1 < N PROVE u[n + 1] = P[(n + 1) + 1]
    OBVIOUS
  <2>2. n + 1 \in Rank /\ n \in Rank /\ n + 1 # 0 /\ (n + 1) - 1 = n /\ u[n] = P[n + 1]
    BY <2>1, RankFacts DEF Rank
  <2>3. P[(n + 1) + 1] = P[n + 1] + f[n + 1] /\ P[n + 1] \in Int /\ f[n + 1] \in Int
        /\ f[n + 1] = coll[n + 1].contrib[t]
    BY <1>1, <1>2, <2>2, RankFacts DEF Partial
  <2>4. u[n + 1] = coll[n + 1].contrib[t] + u[n]
    BY <1>5, <2>2
  <2> QED
    BY <2>2, <2>3, <2>4
<1>8. S \in SUBSET Nat
  OBVIOUS
<1> HIDE DEF S
<1>9. \A n \in Nat : n \in S
  BY <1>6, <1>7, <1>8, SetInduction
<1>10. u[N - 1] = P[N]
  <2>1. N - 1 \in Nat /\ N - 1 < N /\ (N - 1) + 1 = N
    BY RankFacts
  <2>2. N - 1 < N => u[N - 1] = P[(N - 1) + 1]
    BY <1>9, <2>1, Zenon DEF S
  <2> QED
    BY <2>1, <2>2
<1> QED
  BY <1>2, <1>4, <1>10, TotalIs

-----------------------------------------------------------------------------
(* Types, and the state of one rank *)

(* TypeOK, but for the number of POST messages. *)
ActiveType ==
    /\ prog \in [Rank -> Seq(SyncCall)]
    /\ win \in [Rank -> Window]
    /\ call \in [Rank -> Call]
    /\ flight \in [Rank -> [Rank -> Nat]]
    /\ posts \in [Rank -> [Rank -> Nat]]
    /\ comps \in [Rank -> [Rank -> Seq(0..MaxOps)]]
    /\ coll \in [Rank -> Collective]
    /\ refused \subseteq Rank

InFence(p) == call[p].at \in {"reduce", "fence"}
InWait(p) == call[p].at \in {"wait", "waitOps"}

(* The epoch of p says which of its groups are in use and where its call may   *)
(* be; operations are counted only in a fence epoch or for a rank of the group  *)
(* of start, and there are no more of them than in the access epoch.           *)
Local(p) ==
    /\ win[p].start # {} => win[p].epoch \in {"START", "PSCW"} \/ call[p].at = "complete"
    /\ win[p].post # {} => win[p].epoch \in {"POST", "PSCW"} \/ InWait(p)
    /\ call[p].at = "start" => /\ win[p].start = {} /\ win[p].epoch \in {"START", "PSCW"}
                               /\ call[p].todo \subseteq Group(p)
    /\ call[p].at = "complete" => win[p].epoch \in {"NONE", "POST"}
    /\ InWait(p) => win[p].epoch \in {"NONE", "START"} /\ call[p].todo \subseteq win[p].post
    /\ InFence(p) => win[p].epoch \in FenceEpochs /\ coll[p].contrib = win[p].puts
    /\ call[p].at = "barrier" => win[p].epoch = "FENCE_ISSUED"
    /\ call[p].at # "none" => prog[p] # <<>>
    /\ \A t \in Rank : win[p].puts[t] > 0 => win[p].epoch = "FENCE" \/ t \in win[p].start
    /\ \A t \in Rank : win[p].puts[t] <= win[p].ops

LocalInv == \A p \in Rank : Local(p)

(* The next call of a program. *)
LEMMA HeadCall ==
    ASSUME ActiveType, NEW p \in Rank, prog[p] # <<>>
    PROVE  /\ Head(prog[p]) \in SyncCall /\ Head(prog[p]).group \in SUBSET Rank
           /\ Tail(prog[p]) \in Seq(SyncCall)
<1>1. prog[p] \in Seq(SyncCall)
  BY DEF ActiveType
<1>2. Head(prog[p]) \in SyncCall /\ Tail(prog[p]) \in Seq(SyncCall)
  BY <1>1
<1> QED
  BY <1>2 DEF SyncCall

(* The fields of a rank. *)
LEMMA WinFields ==
    ASSUME ActiveType, NEW p \in Rank
    PROVE  /\ win[p] \in Window /\ win[p].epoch \in Epochs /\ win[p].start \in SUBSET Rank
           /\ win[p].post \in SUBSET Rank /\ win[p].puts \in [Rank -> 0..MaxOps]
           /\ win[p].pend \in Nat /\ win[p].src \in [Rank -> Int] /\ win[p].recvd \in Int
           /\ win[p].ops \in 0..MaxOps
           /\ call[p] \in Call /\ call[p].todo \in SUBSET Rank /\ call[p].total \in Nat
           /\ MaxOps \in Nat
BY RankAssumption DEF ActiveType, Window, Call

(* The head and the tail of a list. *)
LEMMA SeqParts ==
    ASSUME NEW S, NEW s \in Seq(S), s # <<>>
    PROVE  Head(s) \in S /\ Tail(s) \in Seq(S)
OBVIOUS

(* The sum of fence is a natural number. *)
LEMMA SumType ==
    ASSUME coll \in [Rank -> Collective], NEW t \in Rank
    PROVE  Sum(t) \in Nat
<1> DEFINE f == [p \in Rank |-> coll[p].contrib[t]]
<1>1. f \in [Rank -> Nat]
  BY DEF Collective
<1>2. Sum(t) = Total(f)
  BY SumIsTotal
<1> HIDE DEF f
<1> QED
  BY <1>1, <1>2, TotalOfNaturals

-----------------------------------------------------------------------------
(* What each step does to the rank that takes it *)

(* MPI_Put and MPI_Accumulate. *)
LEMMA PutEff ==
    ASSUME ActiveType, LocalInv, NEW p \in Rank, NEW t \in Rank,
           Put(p, t)
    PROVE  /\ MayAccess(p, t)
           /\ win' \in [Rank -> Window] /\ \A q \in Rank : q # p => win'[q] = win[q]
           /\ win'[p].epoch = Tracked(win[p].epoch) /\ win'[p].start = win[p].start
           /\ win'[p].post = win[p].post
           /\ win'[p].puts = [win[p].puts EXCEPT ![t] = win[p].puts[t] + 1]
           /\ win'[p].pend = win[p].pend + 1 /\ win'[p].src = win[p].src
           /\ win'[p].recvd = win[p].recvd /\ win'[p].ops = win[p].ops + 1
           /\ call' = call /\ prog' = prog
           /\ flight' \in [Rank -> [Rank -> Nat]]
           /\ \A a, b \in Rank : flight'[a][b] = IF a = p /\ b = t THEN flight[a][b] + 1 ELSE flight[a][b]
           /\ posts' = posts /\ comps' = comps /\ coll' = coll
<1>1. MayAccess(p, t)
  BY WinFields DEF Put, MayAccess, Tracked
<1>2. win' = [win EXCEPT ![p] = [win[p] EXCEPT !.epoch = Tracked(win[p].epoch),
      !.pend = win[p].pend + 1, !.puts = [win[p].puts EXCEPT ![t] = win[p].puts[t] + 1],
      !.ops = win[p].ops + 1]]
  BY <1>1, WinFields, ZenonT(30) DEF Put, MayAccess, Tracked
<1>3. Tracked(win[p].epoch) \in Epochs
  BY <1>1, WinFields DEF Put, MayAccess, Tracked, LocalInv, Local, Epochs
<1>4. win[p].pend + 1 \in Nat
  BY <1>1, WinFields DEF Put, MayAccess, Tracked, LocalInv, Local, Epochs
<1>5. [win[p].puts EXCEPT ![t] = win[p].puts[t] + 1] \in [Rank -> 0..MaxOps]
  BY <1>1, WinFields DEF Put, MayAccess, Tracked, LocalInv, Local, Epochs
<1>6. win[p].ops + 1 \in 0..MaxOps
  BY <1>1, WinFields DEF Put, MayAccess, Tracked, LocalInv, Local, Epochs
<1>7. win[p] \in Window
  BY WinFields
<1>8. [win[p] EXCEPT !.epoch = Tracked(win[p].epoch), !.pend = win[p].pend + 1,
      !.puts = [win[p].puts EXCEPT ![t] = win[p].puts[t] + 1], !.ops = win[p].ops + 1] \in Window
  BY <1>3, <1>4, <1>5, <1>6, <1>7 DEF Window
<1>9. win' \in [Rank -> Window] /\ (\A q \in Rank : q # p => win'[q] = win[q])
      /\ win'[p] = [win[p] EXCEPT !.epoch = Tracked(win[p].epoch), !.pend = win[p].pend + 1,
      !.puts = [win[p].puts EXCEPT ![t] = win[p].puts[t] + 1], !.ops = win[p].ops + 1]
  BY <1>2, <1>8 DEF ActiveType
<1>10. win'[p].epoch = Tracked(win[p].epoch) /\ win'[p].start = win[p].start
       /\ win'[p].post = win[p].post /\ win'[p].puts = [win[p].puts EXCEPT ![t] = win[p].puts[t] + 1]
       /\ win'[p].pend = win[p].pend + 1 /\ win'[p].src = win[p].src /\ win'[p].recvd = win[p].recvd
       /\ win'[p].ops = win[p].ops + 1
  BY <1>9, WinFields DEF Window
<1>11. \A a, b \in Rank : flight'[a][b] = IF a = p /\ b = t THEN flight[a][b] + 1 ELSE flight[a][b]
  BY <1>1, WinFields, ZenonT(30) DEF Put, MayAccess, Tracked, ActiveType
<1>12. flight' \in [Rank -> [Rank -> Nat]]
  BY <1>1, WinFields DEF Put, MayAccess, Tracked, ActiveType
<1>13. call' = call /\ prog' = prog /\ posts' = posts /\ comps' = comps /\ coll' = coll
  BY DEF Put, MayAccess, Tracked
<1> QED
  BY <1>1, <1>9, <1>10, <1>11, <1>12, <1>13

(* MPI_Get. *)
LEMMA GetEff ==
    ASSUME ActiveType, LocalInv, NEW p \in Rank, NEW t \in Rank,
           Get(p, t)
    PROVE  /\ MayAccess(p, t)
           /\ win' \in [Rank -> Window] /\ \A q \in Rank : q # p => win'[q] = win[q]
           /\ win'[p].epoch = Tracked(win[p].epoch) /\ win'[p].start = win[p].start
           /\ win'[p].post = win[p].post /\ win'[p].puts = win[p].puts
           /\ win'[p].pend = win[p].pend + 1 /\ win'[p].src = win[p].src
           /\ win'[p].recvd = win[p].recvd /\ win'[p].ops = win[p].ops
           /\ call' = call /\ prog' = prog /\ flight' = flight /\ posts' = posts
           /\ comps' = comps /\ coll' = coll
<1>1. MayAccess(p, t)
  BY WinFields DEF Get, MayAccess, Tracked
<1>2. win' = [win EXCEPT ![p] = [win[p] EXCEPT !.epoch = Tracked(win[p].epoch), !.pend = win[p].pend + 1]]
  BY <1>1, WinFields DEF Get, MayAccess, Tracked
<1>3. Tracked(win[p].epoch) \in Epochs
  BY <1>1, WinFields DEF Get, MayAccess, Tracked, LocalInv, Local, Epochs
<1>4. win[p].pend + 1 \in Nat
  BY <1>1, WinFields DEF Get, MayAccess, Tracked, LocalInv, Local, Epochs
<1>5. win[p] \in Window
  BY WinFields
<1>6. [win[p] EXCEPT !.epoch = Tracked(win[p].epoch), !.pend = win[p].pend + 1] \in Window
  BY <1>3, <1>4, <1>5 DEF Window
<1>7. win' \in [Rank -> Window] /\ (\A q \in Rank : q # p => win'[q] = win[q])
      /\ win'[p] = [win[p] EXCEPT !.epoch = Tracked(win[p].epoch), !.pend = win[p].pend + 1]
  BY <1>2, <1>6 DEF ActiveType
<1>8. win'[p].epoch = Tracked(win[p].epoch) /\ win'[p].start = win[p].start
      /\ win'[p].post = win[p].post /\ win'[p].puts = win[p].puts /\ win'[p].pend = win[p].pend + 1
      /\ win'[p].src = win[p].src /\ win'[p].recvd = win[p].recvd /\ win'[p].ops = win[p].ops
  BY <1>7, WinFields DEF Window
<1>9. call' = call /\ prog' = prog /\ flight' = flight /\ posts' = posts /\ comps' = comps /\ coll' = coll
  BY DEF Get, MayAccess, Tracked
<1> QED
  BY <1>1, <1>7, <1>8, <1>9

(* The origin callback. *)
LEMMA OpDoneEff ==
    ASSUME ActiveType, LocalInv, NEW p \in Rank,
           OpDone(p)
    PROVE  /\ win' \in [Rank -> Window] /\ \A q \in Rank : q # p => win'[q] = win[q]
           /\ win'[p].epoch = win[p].epoch /\ win'[p].start = win[p].start
           /\ win'[p].post = win[p].post /\ win'[p].puts = win[p].puts
           /\ win'[p].pend = win[p].pend - 1 /\ win'[p].src = win[p].src
           /\ win'[p].recvd = win[p].recvd /\ win'[p].ops = win[p].ops
           /\ call' = call /\ prog' = prog /\ flight' = flight /\ posts' = posts
           /\ comps' = comps /\ coll' = coll
<1>1. win' = [win EXCEPT ![p] = [win[p] EXCEPT !.pend = win[p].pend - 1]]
  BY WinFields DEF OpDone
<1>2. win[p].pend - 1 \in Nat
  BY WinFields DEF OpDone, LocalInv, Local, Epochs
<1>3. win[p] \in Window
  BY WinFields
<1>4. [win[p] EXCEPT !.pend = win[p].pend - 1] \in Window
  BY <1>2, <1>3 DEF Window
<1>5. win' \in [Rank -> Window] /\ (\A q \in Rank : q # p => win'[q] = win[q])
      /\ win'[p] = [win[p] EXCEPT !.pend = win[p].pend - 1]
  BY <1>1, <1>4 DEF ActiveType
<1>6. win'[p].epoch = win[p].epoch /\ win'[p].start = win[p].start /\ win'[p].post = win[p].post
      /\ win'[p].puts = win[p].puts /\ win'[p].pend = win[p].pend - 1 /\ win'[p].src = win[p].src
      /\ win'[p].recvd = win[p].recvd /\ win'[p].ops = win[p].ops
  BY <1>5, WinFields DEF Window
<1>7. call' = call /\ prog' = prog /\ flight' = flight /\ posts' = posts /\ comps' = comps /\ coll' = coll
  BY DEF OpDone
<1> QED
  BY <1>5, <1>6, <1>7

(* The target callback. *)
LEMMA OpArrivesEff ==
    ASSUME ActiveType, LocalInv, NEW p \in Rank, NEW t \in Rank,
           OpArrives(p, t)
    PROVE  /\ flight[p][t] > 0
           /\ win' \in [Rank -> Window] /\ \A q \in Rank : q # t => win'[q] = win[q]
           /\ win'[t].epoch = win[t].epoch /\ win'[t].start = win[t].start
           /\ win'[t].post = win[t].post /\ win'[t].puts = win[t].puts
           /\ win'[t].pend = win[t].pend
           /\ win'[t].src = [win[t].src EXCEPT ![p] = win[t].src[p] - 1]
           /\ win'[t].recvd = win[t].recvd + 1 /\ win'[t].ops = win[t].ops
           /\ call' = call /\ prog' = prog
           /\ flight' \in [Rank -> [Rank -> Nat]]
           /\ \A a, b \in Rank : flight'[a][b] = IF a = p /\ b = t THEN flight[a][b] - 1 ELSE flight[a][b]
           /\ posts' = posts /\ comps' = comps /\ coll' = coll
<1>1. flight[p][t] > 0
  BY WinFields DEF OpArrives
<1>2. win' = [win EXCEPT ![t] = [win[t] EXCEPT !.recvd = win[t].recvd + 1,
      !.src = [win[t].src EXCEPT ![p] = win[t].src[p] - 1]]]
  BY <1>1, WinFields DEF OpArrives
<1>3. win[t].recvd + 1 \in Int
  BY <1>1, WinFields DEF OpArrives, LocalInv, Local, Epochs
<1>4. [win[t].src EXCEPT ![p] = win[t].src[p] - 1] \in [Rank -> Int]
  BY <1>1, WinFields DEF OpArrives, LocalInv, Local, Epochs
<1>5. win[t] \in Window
  BY WinFields
<1>6. [win[t] EXCEPT !.recvd = win[t].recvd + 1,
      !.src = [win[t].src EXCEPT ![p] = win[t].src[p] - 1]] \in Window
  BY <1>3, <1>4, <1>5 DEF Window
<1>7. win' \in [Rank -> Window] /\ (\A q \in Rank : q # t => win'[q] = win[q])
      /\ win'[t] = [win[t] EXCEPT !.recvd = win[t].recvd + 1,
      !.src = [win[t].src EXCEPT ![p] = win[t].src[p] - 1]]
  BY <1>2, <1>6 DEF ActiveType
<1>8. win'[t].epoch = win[t].epoch /\ win'[t].start = win[t].start /\ win'[t].post = win[t].post
      /\ win'[t].puts = win[t].puts /\ win'[t].pend = win[t].pend
      /\ win'[t].src = [win[t].src EXCEPT ![p] = win[t].src[p] - 1] /\ win'[t].recvd = win[t].recvd + 1
      /\ win'[t].ops = win[t].ops
  BY <1>7, WinFields DEF Window
<1>9. \A a, b \in Rank : flight'[a][b] = IF a = p /\ b = t THEN flight[a][b] - 1 ELSE flight[a][b]
  BY <1>1, WinFields, ZenonT(30) DEF OpArrives, ActiveType
<1>10. flight' \in [Rank -> [Rank -> Nat]]
  BY <1>1, WinFields DEF OpArrives, ActiveType
<1>11. call' = call /\ prog' = prog /\ posts' = posts /\ comps' = comps /\ coll' = coll
  BY DEF OpArrives
<1> QED
  BY <1>1, <1>7, <1>8, <1>9, <1>10, <1>11

(* The wait of fence ends. *)
LEMMA FenceWaitedEff ==
    ASSUME ActiveType, LocalInv, NEW p \in Rank,
           FenceWaited(p)
    PROVE  /\ call[p].at = "fence" /\ win[p].recvd = call[p].total
           /\ win' \in [Rank -> Window] /\ \A q \in Rank : q # p => win'[q] = win[q]
           /\ win'[p].epoch = "FENCE_ISSUED" /\ win'[p].start = win[p].start
           /\ win'[p].post = win[p].post /\ win'[p].puts = [x \in Rank |-> 0]
           /\ win'[p].pend = win[p].pend /\ win'[p].src = [x \in Rank |-> 0]
           /\ win'[p].recvd = 0 /\ win'[p].ops = 0
           /\ call' \in [Rank -> Call] /\ \A q \in Rank : q # p => call'[q] = call[q]
           /\ call'[p].at = "barrier" /\ call'[p].todo = call[p].todo
           /\ call'[p].total = call[p].total
           /\ prog' = prog /\ flight' = flight /\ posts' = posts /\ comps' = comps
           /\ coll' \in [Rank -> Collective]
           /\ \A q \in Rank : q # p => coll'[q] = coll[q]
           /\ coll'[p].red = coll[p].red /\ coll'[p].bar = (~coll[p].bar)
           /\ coll'[p].contrib = coll[p].contrib
<1>1. call[p].at = "fence" /\ win[p].recvd = call[p].total
  BY WinFields DEF FenceWaited
<1>2. win' = [win EXCEPT ![p] = [win[p] EXCEPT !.epoch = "FENCE_ISSUED", !.recvd = 0, !.ops = 0,
      !.puts = [x \in Rank |-> 0], !.src = [x \in Rank |-> 0]]]
  BY <1>1, WinFields DEF FenceWaited
<1>3. "FENCE_ISSUED" \in Epochs
  BY <1>1, WinFields DEF FenceWaited, LocalInv, Local, Epochs
<1>4. 0 \in Int
  BY <1>1, WinFields DEF FenceWaited, LocalInv, Local, Epochs
<1>5. 0 \in 0..MaxOps
  BY <1>1, WinFields DEF FenceWaited, LocalInv, Local, Epochs
<1>6. [x \in Rank |-> 0] \in [Rank -> 0..MaxOps]
  BY <1>1, WinFields DEF FenceWaited, LocalInv, Local, Epochs
<1>7. [x \in Rank |-> 0] \in [Rank -> Int]
  BY <1>1, WinFields DEF FenceWaited, LocalInv, Local, Epochs
<1>8. win[p] \in Window
  BY WinFields
<1>9. [win[p] EXCEPT !.epoch = "FENCE_ISSUED", !.recvd = 0, !.ops = 0, !.puts = [x \in Rank |-> 0],
      !.src = [x \in Rank |-> 0]] \in Window
  BY <1>3, <1>4, <1>5, <1>6, <1>7, <1>8 DEF Window
<1>10. win' \in [Rank -> Window] /\ (\A q \in Rank : q # p => win'[q] = win[q])
       /\ win'[p] = [win[p] EXCEPT !.epoch = "FENCE_ISSUED", !.recvd = 0, !.ops = 0,
       !.puts = [x \in Rank |-> 0], !.src = [x \in Rank |-> 0]]
  BY <1>2, <1>9 DEF ActiveType
<1>11. win'[p].epoch = "FENCE_ISSUED" /\ win'[p].start = win[p].start /\ win'[p].post = win[p].post
       /\ win'[p].puts = [x \in Rank |-> 0] /\ win'[p].pend = win[p].pend
       /\ win'[p].src = [x \in Rank |-> 0] /\ win'[p].recvd = 0 /\ win'[p].ops = 0
  BY <1>10, WinFields DEF Window
<1>12. call' = [call EXCEPT ![p] = [call[p] EXCEPT !.at = "barrier"]]
  BY <1>1, WinFields DEF FenceWaited
<1>13. call[p] \in Call
  BY WinFields
<1>14. [call[p] EXCEPT !.at = "barrier"] \in Call
  BY <1>13 DEF Call
<1>15. call' \in [Rank -> Call] /\ (\A q \in Rank : q # p => call'[q] = call[q])
       /\ call'[p] = [call[p] EXCEPT !.at = "barrier"]
  BY <1>12, <1>14 DEF ActiveType
<1>16. call'[p].at = "barrier" /\ call'[p].todo = call[p].todo /\ call'[p].total = call[p].total
  BY <1>15, WinFields DEF Call
<1>17. coll' \in [Rank -> Collective] /\ (\A q \in Rank : q # p => coll'[q] = coll[q])
  BY WinFields, ZenonT(30) DEF FenceWaited, ActiveType, Collective
<1>18. coll'[p].red = coll[p].red /\ coll'[p].bar = (~coll[p].bar) /\ coll'[p].contrib = coll[p].contrib
  BY DEF FenceWaited, ActiveType, Collective
<1>19. prog' = prog /\ flight' = flight /\ posts' = posts /\ comps' = comps
  BY DEF FenceWaited
<1> QED
  BY <1>1, <1>10, <1>11, <1>15, <1>16, <1>17, <1>18, <1>19

(* MPI_Win_post. *)
LEMMA Win_postEff ==
    ASSUME ActiveType, LocalInv, NEW p \in Rank,
           Win_post(p)
    PROVE  /\ Running(p) /\ prog[p] # <<>> /\ win[p].epoch \in PostEpochs
           /\ win' \in [Rank -> Window] /\ \A q \in Rank : q # p => win'[q] = win[q]
           /\ win'[p].epoch = (IF win[p].epoch = "START" THEN "PSCW" ELSE "POST")
           /\ win'[p].start = win[p].start /\ win'[p].post = Group(p)
           /\ win'[p].puts = win[p].puts /\ win'[p].pend = win[p].pend
           /\ win'[p].src = win[p].src /\ win'[p].recvd = win[p].recvd
           /\ win'[p].ops = win[p].ops
           /\ call' \in [Rank -> Call] /\ \A q \in Rank : q # p => call'[q] = call[q]
           /\ call'[p].at = "none" /\ call'[p].todo = {} /\ call'[p].total = 0
           /\ prog' \in [Rank -> Seq(SyncCall)]
           /\ \A q \in Rank : q # p => prog'[q] = prog[q]
           /\ flight' = flight
           /\ posts' \in [Rank -> [Rank -> Nat]]
           /\ \A a, b \in Rank : posts'[a][b] = IF a = p
              /\ b \in Group(p) THEN posts[a][b] + 1 ELSE posts[a][b]
           /\ comps' = comps /\ coll' = coll
<1>1. Running(p) /\ prog[p] # <<>> /\ win[p].epoch \in PostEpochs
  BY WinFields DEF Win_post, Return, Calls, NextIs, Running, Accepted
<1>2. prog' = [prog EXCEPT ![p] = Tail(prog[p])] /\ prog \in [Rank -> Seq(SyncCall)]
      /\ Tail(prog[p]) \in Seq(SyncCall)
  BY <1>1, HeadCall DEF Win_post, Return, Calls, NextIs, Running, Accepted, ActiveType
<1>3. prog' \in [Rank -> Seq(SyncCall)] /\ (\A q \in Rank : q # p => prog'[q] = prog[q])
  BY <1>2
<1>4. Group(p) \in SUBSET Rank
  BY <1>1, HeadCall DEF Group
<1>5. win' = [win EXCEPT ![p] = [win[p] EXCEPT !.epoch = IF win[p].epoch = "START" THEN "PSCW" ELSE "POST",
      !.post = Group(p)]]
  BY <1>1, <1>4, WinFields DEF Win_post, Return, Calls, NextIs, Running, Accepted
<1>6. (IF win[p].epoch = "START" THEN "PSCW" ELSE "POST") \in Epochs
  BY <1>1, <1>4, WinFields DEF Win_post, Return, Calls, NextIs, Running, Accepted, LocalInv, Local, Epochs
<1>7. Group(p) \in SUBSET Rank
  BY <1>1, <1>4, WinFields DEF Win_post, Return, Calls, NextIs, Running, Accepted, LocalInv, Local, Epochs
<1>8. win[p] \in Window
  BY WinFields
<1>9. [win[p] EXCEPT !.epoch = IF win[p].epoch = "START" THEN "PSCW" ELSE "POST",
      !.post = Group(p)] \in Window
  BY <1>6, <1>7, <1>8 DEF Window
<1>10. win' \in [Rank -> Window] /\ (\A q \in Rank : q # p => win'[q] = win[q])
       /\ win'[p] = [win[p] EXCEPT !.epoch = IF win[p].epoch = "START" THEN "PSCW" ELSE "POST",
       !.post = Group(p)]
  BY <1>5, <1>9 DEF ActiveType
<1>11. win'[p].epoch = (IF win[p].epoch = "START" THEN "PSCW" ELSE "POST")
       /\ win'[p].start = win[p].start /\ win'[p].post = Group(p) /\ win'[p].puts = win[p].puts
       /\ win'[p].pend = win[p].pend /\ win'[p].src = win[p].src /\ win'[p].recvd = win[p].recvd
       /\ win'[p].ops = win[p].ops
  BY <1>10, WinFields DEF Window
<1>12. call' \in [Rank -> Call] /\ (\A q \in Rank : q # p => call'[q] = call[q])
       /\ call'[p].at = "none" /\ call'[p].todo = {} /\ call'[p].total = 0
  BY DEF Win_post, Return, Calls, NextIs, Running, Accepted, ActiveType, Call, Idle
<1>13. posts' = [posts EXCEPT ![p] = [x \in Rank |-> posts[p][x] + (IF x \in Group(p) THEN 1 ELSE 0)]]
       /\ posts \in [Rank -> [Rank -> Nat]]
  BY DEF Win_post, ActiveType
<1>14. posts' \in [Rank -> [Rank -> Nat]]
  BY <1>13
<1>15. \A a, b \in Rank : posts'[a][b] = IF a = p /\ b \in Group(p) THEN posts[a][b] + 1 ELSE posts[a][b]
  BY <1>13
<1>16. flight' = flight /\ comps' = comps /\ coll' = coll
  BY DEF Win_post, Return, Calls, NextIs, Running, Accepted
<1> QED
  BY <1>1, <1>4, <1>3, <1>10, <1>11, <1>12, <1>14, <1>15, <1>16

(* MPI_Win_start. *)
LEMMA Win_startEff ==
    ASSUME ActiveType, LocalInv, NEW p \in Rank,
           Win_start(p)
    PROVE  /\ Running(p) /\ prog[p] # <<>> /\ win[p].epoch \in StartEpochs
           /\ win' \in [Rank -> Window] /\ \A q \in Rank : q # p => win'[q] = win[q]
           /\ win'[p].epoch = (IF win[p].epoch = "POST" THEN "PSCW" ELSE "START")
           /\ win'[p].start = win[p].start /\ win'[p].post = win[p].post
           /\ win'[p].puts = win[p].puts /\ win'[p].pend = win[p].pend
           /\ win'[p].src = win[p].src /\ win'[p].recvd = win[p].recvd
           /\ win'[p].ops = win[p].ops
           /\ call' \in [Rank -> Call] /\ \A q \in Rank : q # p => call'[q] = call[q]
           /\ call'[p].at = "start" /\ call'[p].todo = Group(p)
           /\ call'[p].total = call[p].total
           /\ prog' = prog /\ flight' = flight /\ posts' = posts /\ comps' = comps
           /\ coll' = coll
<1>1. Running(p) /\ prog[p] # <<>> /\ win[p].epoch \in StartEpochs
  BY WinFields DEF Win_start, Calls, NextIs, Running, Accepted
<1>2. Group(p) \in SUBSET Rank
  BY <1>1, HeadCall DEF Group
<1>3. win' = [win EXCEPT ![p] = [win[p] EXCEPT !.epoch = IF win[p].epoch = "POST" THEN "PSCW" ELSE "START"]]
  BY <1>1, <1>2, WinFields DEF Win_start, Calls, NextIs, Running, Accepted
<1>4. (IF win[p].epoch = "POST" THEN "PSCW" ELSE "START") \in Epochs
  BY <1>1, <1>2, WinFields DEF Win_start, Calls, NextIs, Running, Accepted, LocalInv, Local, Epochs
<1>5. win[p] \in Window
  BY WinFields
<1>6. [win[p] EXCEPT !.epoch = IF win[p].epoch = "POST" THEN "PSCW" ELSE "START"] \in Window
  BY <1>4, <1>5 DEF Window
<1>7. win' \in [Rank -> Window] /\ (\A q \in Rank : q # p => win'[q] = win[q])
      /\ win'[p] = [win[p] EXCEPT !.epoch = IF win[p].epoch = "POST" THEN "PSCW" ELSE "START"]
  BY <1>3, <1>6 DEF ActiveType
<1>8. win'[p].epoch = (IF win[p].epoch = "POST" THEN "PSCW" ELSE "START")
      /\ win'[p].start = win[p].start /\ win'[p].post = win[p].post /\ win'[p].puts = win[p].puts
      /\ win'[p].pend = win[p].pend /\ win'[p].src = win[p].src /\ win'[p].recvd = win[p].recvd
      /\ win'[p].ops = win[p].ops
  BY <1>7, WinFields DEF Window
<1>9. call' = [call EXCEPT ![p] = [call[p] EXCEPT !.at = "start", !.todo = Group(p)]]
  BY <1>1, <1>2, WinFields DEF Win_start, Calls, NextIs, Running, Accepted
<1>10. call[p] \in Call
  BY WinFields
<1>11. Group(p) \in SUBSET Rank
  BY <1>1, <1>2, WinFields
<1>12. [call[p] EXCEPT !.at = "start", !.todo = Group(p)] \in Call
  BY <1>10, <1>11 DEF Call
<1>13. call' \in [Rank -> Call] /\ (\A q \in Rank : q # p => call'[q] = call[q])
       /\ call'[p] = [call[p] EXCEPT !.at = "start", !.todo = Group(p)]
  BY <1>9, <1>12 DEF ActiveType
<1>14. call'[p].at = "start" /\ call'[p].todo = Group(p) /\ call'[p].total = call[p].total
  BY <1>13, WinFields DEF Call
<1>15. prog' = prog /\ flight' = flight /\ posts' = posts /\ comps' = comps /\ coll' = coll
  BY DEF Win_start, Calls, NextIs, Running, Accepted
<1> QED
  BY <1>1, <1>2, <1>7, <1>8, <1>13, <1>14, <1>15

(* Start receives a POST. *)
LEMMA RecvPostEff ==
    ASSUME ActiveType, LocalInv, NEW p \in Rank,
           RecvPost(p)
    PROVE  \E t \in Rank :
               /\ call[p].at = "start" /\ First(p, t) /\ posts[t][p] > 0
               /\ win' = win
               /\ call' \in [Rank -> Call] /\ \A q \in Rank : q # p => call'[q] = call[q]
               /\ call'[p].at = call[p].at /\ call'[p].todo = call[p].todo \ {t}
               /\ call'[p].total = call[p].total
               /\ prog' = prog /\ flight' = flight
               /\ posts' \in [Rank -> [Rank -> Nat]]
               /\ \A a, b \in Rank : posts'[a][b] = IF a = t /\ b = p THEN posts[a][b] - 1 ELSE posts[a][b]
               /\ comps' = comps /\ coll' = coll
<1>1. PICK t \in Rank : call[p].at = "start" /\ First(p, t) /\ posts[t][p] > 0
      /\ posts' = [posts EXCEPT ![t][p] = posts[t][p] - 1]
      /\ call' = [call EXCEPT ![p].todo = call[p].todo \ {t}]
  BY DEF RecvPost
<1>2. call[p].at = "start" /\ First(p, t) /\ posts[t][p] > 0
  BY <1>1, WinFields DEF RecvPost
<1>3. call' = [call EXCEPT ![p] = [call[p] EXCEPT !.todo = call[p].todo \ {t}]]
  BY <1>1, <1>2, WinFields DEF RecvPost
<1>4. call[p] \in Call
  BY WinFields
<1>5. call[p].todo \ {t} \in SUBSET Rank
  BY <1>1, <1>2, WinFields
<1>6. [call[p] EXCEPT !.todo = call[p].todo \ {t}] \in Call
  BY <1>4, <1>5 DEF Call
<1>7. call' \in [Rank -> Call] /\ (\A q \in Rank : q # p => call'[q] = call[q])
      /\ call'[p] = [call[p] EXCEPT !.todo = call[p].todo \ {t}]
  BY <1>3, <1>6 DEF ActiveType
<1>8. call'[p].at = call[p].at /\ call'[p].todo = call[p].todo \ {t} /\ call'[p].total = call[p].total
  BY <1>7, WinFields DEF Call
<1>9. posts \in [Rank -> [Rank -> Nat]] /\ posts[t][p] - 1 \in Nat
  BY <1>1, <1>2, WinFields, SMTT(30) DEF ActiveType
<1>10. posts' \in [Rank -> [Rank -> Nat]]
  BY <1>1, <1>2, <1>9
<1>11. \A a, b \in Rank : posts'[a][b] = IF a = t /\ b = p THEN posts[a][b] - 1 ELSE posts[a][b]
  BY <1>1, <1>2, <1>9
<1>12. win' = win /\ prog' = prog /\ flight' = flight /\ comps' = comps /\ coll' = coll
  BY DEF RecvPost
<1> QED
  BY <1>1, <1>2, <1>7, <1>8, <1>10, <1>11, <1>12

(* Start returns. *)
LEMMA StartDoneEff ==
    ASSUME ActiveType, LocalInv, NEW p \in Rank,
           StartDone(p)
    PROVE  /\ call[p].at = "start" /\ call[p].todo = {}
           /\ win' \in [Rank -> Window] /\ \A q \in Rank : q # p => win'[q] = win[q]
           /\ win'[p].epoch = win[p].epoch /\ win'[p].start = Group(p)
           /\ win'[p].post = win[p].post /\ win'[p].puts = win[p].puts
           /\ win'[p].pend = win[p].pend /\ win'[p].src = win[p].src
           /\ win'[p].recvd = win[p].recvd /\ win'[p].ops = 0
           /\ call' \in [Rank -> Call] /\ \A q \in Rank : q # p => call'[q] = call[q]
           /\ call'[p].at = "none" /\ call'[p].todo = {} /\ call'[p].total = 0
           /\ prog' \in [Rank -> Seq(SyncCall)]
           /\ \A q \in Rank : q # p => prog'[q] = prog[q]
           /\ flight' = flight /\ posts' = posts /\ comps' = comps /\ coll' = coll
<1>1. call[p].at = "start" /\ call[p].todo = {}
  BY WinFields DEF StartDone, Return
<1>2. prog[p] # <<>>
  BY <1>1, WinFields DEF LocalInv, Local, InWait
<1>3. prog' = [prog EXCEPT ![p] = Tail(prog[p])] /\ prog \in [Rank -> Seq(SyncCall)]
      /\ Tail(prog[p]) \in Seq(SyncCall)
  BY <1>1, <1>2, HeadCall DEF StartDone, Return, ActiveType
<1>4. prog' \in [Rank -> Seq(SyncCall)] /\ (\A q \in Rank : q # p => prog'[q] = prog[q])
  BY <1>3
<1>5. Group(p) \in SUBSET Rank
  BY <1>1, <1>2, HeadCall DEF Group
<1>6. win' = [win EXCEPT ![p] = [win[p] EXCEPT !.start = Group(p), !.ops = 0]]
  BY <1>1, <1>2, <1>5, WinFields DEF StartDone, Return
<1>7. Group(p) \in SUBSET Rank
  BY <1>1, <1>2, <1>5, WinFields DEF StartDone, Return, LocalInv, Local, Epochs
<1>8. 0 \in 0..MaxOps
  BY <1>1, <1>2, <1>5, WinFields DEF StartDone, Return, LocalInv, Local, Epochs
<1>9. win[p] \in Window
  BY WinFields
<1>10. [win[p] EXCEPT !.start = Group(p), !.ops = 0] \in Window
  BY <1>7, <1>8, <1>9 DEF Window
<1>11. win' \in [Rank -> Window] /\ (\A q \in Rank : q # p => win'[q] = win[q])
       /\ win'[p] = [win[p] EXCEPT !.start = Group(p), !.ops = 0]
  BY <1>6, <1>10 DEF ActiveType
<1>12. win'[p].epoch = win[p].epoch /\ win'[p].start = Group(p) /\ win'[p].post = win[p].post
       /\ win'[p].puts = win[p].puts /\ win'[p].pend = win[p].pend /\ win'[p].src = win[p].src
       /\ win'[p].recvd = win[p].recvd /\ win'[p].ops = 0
  BY <1>11, WinFields DEF Window
<1>13. call' \in [Rank -> Call] /\ (\A q \in Rank : q # p => call'[q] = call[q])
       /\ call'[p].at = "none" /\ call'[p].todo = {} /\ call'[p].total = 0
  BY DEF StartDone, Return, ActiveType, Call, Idle
<1>14. flight' = flight /\ posts' = posts /\ comps' = comps /\ coll' = coll
  BY DEF StartDone, Return
<1> QED
  BY <1>1, <1>2, <1>5, <1>4, <1>11, <1>12, <1>13, <1>14

(* MPI_Win_complete. *)
LEMMA Win_completeEff ==
    ASSUME ActiveType, LocalInv, NEW p \in Rank,
           Win_complete(p)
    PROVE  /\ Running(p) /\ prog[p] # <<>> /\ win[p].epoch \in CompleteEpochs
           /\ win' \in [Rank -> Window] /\ \A q \in Rank : q # p => win'[q] = win[q]
           /\ win'[p].epoch = (IF win[p].epoch = "PSCW" THEN "POST" ELSE "NONE")
           /\ win'[p].start = win[p].start /\ win'[p].post = win[p].post
           /\ win'[p].puts = win[p].puts /\ win'[p].pend = win[p].pend
           /\ win'[p].src = win[p].src /\ win'[p].recvd = win[p].recvd
           /\ win'[p].ops = win[p].ops
           /\ call' \in [Rank -> Call] /\ \A q \in Rank : q # p => call'[q] = call[q]
           /\ call'[p].at = "complete" /\ call'[p].todo = call[p].todo
           /\ call'[p].total = call[p].total
           /\ prog' = prog /\ flight' = flight /\ posts' = posts /\ comps' = comps
           /\ coll' = coll
<1>1. Running(p) /\ prog[p] # <<>> /\ win[p].epoch \in CompleteEpochs
  BY WinFields DEF Win_complete, Calls, NextIs, Running, Accepted
<1>2. win' = [win EXCEPT ![p] = [win[p] EXCEPT !.epoch = IF win[p].epoch = "PSCW" THEN "POST" ELSE "NONE"]]
  BY <1>1, WinFields DEF Win_complete, Calls, NextIs, Running, Accepted
<1>3. (IF win[p].epoch = "PSCW" THEN "POST" ELSE "NONE") \in Epochs
  BY <1>1, WinFields DEF Win_complete, Calls, NextIs, Running, Accepted, LocalInv, Local, Epochs
<1>4. win[p] \in Window
  BY WinFields
<1>5. [win[p] EXCEPT !.epoch = IF win[p].epoch = "PSCW" THEN "POST" ELSE "NONE"] \in Window
  BY <1>3, <1>4 DEF Window
<1>6. win' \in [Rank -> Window] /\ (\A q \in Rank : q # p => win'[q] = win[q])
      /\ win'[p] = [win[p] EXCEPT !.epoch = IF win[p].epoch = "PSCW" THEN "POST" ELSE "NONE"]
  BY <1>2, <1>5 DEF ActiveType
<1>7. win'[p].epoch = (IF win[p].epoch = "PSCW" THEN "POST" ELSE "NONE")
      /\ win'[p].start = win[p].start /\ win'[p].post = win[p].post /\ win'[p].puts = win[p].puts
      /\ win'[p].pend = win[p].pend /\ win'[p].src = win[p].src /\ win'[p].recvd = win[p].recvd
      /\ win'[p].ops = win[p].ops
  BY <1>6, WinFields DEF Window
<1>8. call' = [call EXCEPT ![p] = [call[p] EXCEPT !.at = "complete"]]
  BY <1>1, WinFields DEF Win_complete, Calls, NextIs, Running, Accepted
<1>9. call[p] \in Call
  BY WinFields
<1>10. [call[p] EXCEPT !.at = "complete"] \in Call
  BY <1>9 DEF Call
<1>11. call' \in [Rank -> Call] /\ (\A q \in Rank : q # p => call'[q] = call[q])
       /\ call'[p] = [call[p] EXCEPT !.at = "complete"]
  BY <1>8, <1>10 DEF ActiveType
<1>12. call'[p].at = "complete" /\ call'[p].todo = call[p].todo /\ call'[p].total = call[p].total
  BY <1>11, WinFields DEF Call
<1>13. prog' = prog /\ flight' = flight /\ posts' = posts /\ comps' = comps /\ coll' = coll
  BY DEF Win_complete, Calls, NextIs, Running, Accepted
<1> QED
  BY <1>1, <1>6, <1>7, <1>11, <1>12, <1>13

(* Complete returns. *)
LEMMA CompleteSendEff ==
    ASSUME ActiveType, LocalInv, NEW p \in Rank,
           CompleteSend(p)
    PROVE  /\ call[p].at = "complete"
           /\ win' \in [Rank -> Window] /\ \A q \in Rank : q # p => win'[q] = win[q]
           /\ win'[p].epoch = win[p].epoch /\ win'[p].start = {}
           /\ win'[p].post = win[p].post
           /\ win'[p].puts = [x \in Rank |-> IF x \in win[p].start THEN 0 ELSE win[p].puts[x]]
           /\ win'[p].pend = win[p].pend /\ win'[p].src = win[p].src
           /\ win'[p].recvd = win[p].recvd /\ win'[p].ops = win[p].ops
           /\ call' \in [Rank -> Call] /\ \A q \in Rank : q # p => call'[q] = call[q]
           /\ call'[p].at = "none" /\ call'[p].todo = {} /\ call'[p].total = 0
           /\ prog' \in [Rank -> Seq(SyncCall)]
           /\ \A q \in Rank : q # p => prog'[q] = prog[q]
           /\ flight' = flight /\ posts' = posts
           /\ comps' \in [Rank -> [Rank -> Seq(0..MaxOps)]]
           /\ \A a, b \in Rank : comps'[a][b] = IF a = p /\ b \in win[p].start THEN Append(comps[a][b],
              win[a].puts[b]) ELSE comps[a][b]
           /\ coll' = coll
<1>1. call[p].at = "complete"
  BY WinFields DEF CompleteSend, Return
<1>2. prog[p] # <<>>
  BY <1>1, WinFields DEF LocalInv, Local, InWait
<1>3. prog' = [prog EXCEPT ![p] = Tail(prog[p])] /\ prog \in [Rank -> Seq(SyncCall)]
      /\ Tail(prog[p]) \in Seq(SyncCall)
  BY <1>1, <1>2, HeadCall DEF CompleteSend, Return, ActiveType
<1>4. prog' \in [Rank -> Seq(SyncCall)] /\ (\A q \in Rank : q # p => prog'[q] = prog[q])
  BY <1>3
<1>5. win' = [win EXCEPT ![p] = [win[p] EXCEPT !.start = {},
      !.puts = [x \in Rank |-> IF x \in win[p].start THEN 0 ELSE win[p].puts[x]]]]
  BY <1>1, <1>2, WinFields DEF CompleteSend, Return
<1>6. {} \in SUBSET Rank
  BY <1>1, <1>2, WinFields DEF CompleteSend, Return, LocalInv, Local, Epochs
<1>7. [x \in Rank |-> IF x \in win[p].start THEN 0 ELSE win[p].puts[x]] \in [Rank -> 0..MaxOps]
  BY <1>1, <1>2, WinFields DEF CompleteSend, Return, LocalInv, Local, Epochs
<1>8. win[p] \in Window
  BY WinFields
<1>9. [win[p] EXCEPT !.start = {},
      !.puts = [x \in Rank |-> IF x \in win[p].start THEN 0 ELSE win[p].puts[x]]] \in Window
  BY <1>6, <1>7, <1>8 DEF Window
<1>10. win' \in [Rank -> Window] /\ (\A q \in Rank : q # p => win'[q] = win[q])
       /\ win'[p] = [win[p] EXCEPT !.start = {},
       !.puts = [x \in Rank |-> IF x \in win[p].start THEN 0 ELSE win[p].puts[x]]]
  BY <1>5, <1>9 DEF ActiveType
<1>11. win'[p].epoch = win[p].epoch /\ win'[p].start = {} /\ win'[p].post = win[p].post
       /\ win'[p].puts = [x \in Rank |-> IF x \in win[p].start THEN 0 ELSE win[p].puts[x]]
       /\ win'[p].pend = win[p].pend /\ win'[p].src = win[p].src /\ win'[p].recvd = win[p].recvd
       /\ win'[p].ops = win[p].ops
  BY <1>10, WinFields DEF Window
<1>12. call' \in [Rank -> Call] /\ (\A q \in Rank : q # p => call'[q] = call[q])
       /\ call'[p].at = "none" /\ call'[p].todo = {} /\ call'[p].total = 0
  BY DEF CompleteSend, Return, ActiveType, Call, Idle
<1>13. comps' = [comps EXCEPT ![p] = [x \in Rank |-> IF x \in win[p].start THEN Append(comps[p][x],
       win[p].puts[x]) ELSE comps[p][x]]] /\ comps \in [Rank -> [Rank -> Seq(0..MaxOps)]]
  BY DEF CompleteSend, ActiveType
<1>14. \A x \in Rank : comps[p][x] \in Seq(0..MaxOps) /\ Append(comps[p][x],
       win[p].puts[x]) \in Seq(0..MaxOps)
  BY <1>13, WinFields
<1>15. [x \in Rank |-> IF x \in win[p].start THEN Append(comps[p][x],
       win[p].puts[x]) ELSE comps[p][x]] \in [Rank -> Seq(0..MaxOps)]
  BY <1>14
<1>16. comps' \in [Rank -> [Rank -> Seq(0..MaxOps)]]
  BY <1>13, <1>15
<1>17. \A a, b \in Rank : comps'[a][b] = IF a = p /\ b \in win[p].start THEN Append(comps[a][b],
       win[a].puts[b]) ELSE comps[a][b]
  BY <1>13
<1>18. flight' = flight /\ posts' = posts /\ coll' = coll
  BY DEF CompleteSend, Return
<1> QED
  BY <1>1, <1>2, <1>4, <1>10, <1>11, <1>12, <1>16, <1>17, <1>18

(* MPI_Win_wait begins. *)
LEMMA EnterWaitEff ==
    ASSUME ActiveType, LocalInv, NEW p \in Rank,
           Win_wait(p) \/ Win_test(p)
    PROVE  /\ Running(p) /\ prog[p] # <<>> /\ win[p].epoch \in WaitEpochs
           /\ win' \in [Rank -> Window] /\ \A q \in Rank : q # p => win'[q] = win[q]
           /\ win'[p].epoch = (IF win[p].epoch = "PSCW" THEN "START" ELSE "NONE")
           /\ win'[p].start = win[p].start /\ win'[p].post = win[p].post
           /\ win'[p].puts = win[p].puts /\ win'[p].pend = win[p].pend
           /\ win'[p].src = win[p].src /\ win'[p].recvd = win[p].recvd
           /\ win'[p].ops = win[p].ops
           /\ call' \in [Rank -> Call] /\ \A q \in Rank : q # p => call'[q] = call[q]
           /\ call'[p].at = "wait" /\ call'[p].todo = win[p].post
           /\ call'[p].total = call[p].total
           /\ prog' = prog /\ flight' = flight /\ posts' = posts /\ comps' = comps
           /\ coll' = coll
<1>1. Running(p) /\ prog[p] # <<>> /\ win[p].epoch \in WaitEpochs
  BY WinFields DEF EnterWait, Win_wait, Win_test, Calls, NextIs, Running, Accepted
<1>2. win' = [win EXCEPT ![p] = [win[p] EXCEPT !.epoch = IF win[p].epoch = "PSCW" THEN "START" ELSE "NONE"]]
  BY <1>1, WinFields DEF EnterWait, Win_wait, Win_test, Calls, NextIs, Running, Accepted
<1>3. (IF win[p].epoch = "PSCW" THEN "START" ELSE "NONE") \in Epochs
  BY <1>1, WinFields DEF EnterWait, Win_wait, Win_test, Calls, NextIs, Running, Accepted, LocalInv,
     Local, Epochs
<1>4. win[p] \in Window
  BY WinFields
<1>5. [win[p] EXCEPT !.epoch = IF win[p].epoch = "PSCW" THEN "START" ELSE "NONE"] \in Window
  BY <1>3, <1>4 DEF Window
<1>6. win' \in [Rank -> Window] /\ (\A q \in Rank : q # p => win'[q] = win[q])
      /\ win'[p] = [win[p] EXCEPT !.epoch = IF win[p].epoch = "PSCW" THEN "START" ELSE "NONE"]
  BY <1>2, <1>5 DEF ActiveType
<1>7. win'[p].epoch = (IF win[p].epoch = "PSCW" THEN "START" ELSE "NONE")
      /\ win'[p].start = win[p].start /\ win'[p].post = win[p].post /\ win'[p].puts = win[p].puts
      /\ win'[p].pend = win[p].pend /\ win'[p].src = win[p].src /\ win'[p].recvd = win[p].recvd
      /\ win'[p].ops = win[p].ops
  BY <1>6, WinFields DEF Window
<1>8. call' = [call EXCEPT ![p] = [call[p] EXCEPT !.at = "wait", !.todo = win[p].post]]
  BY <1>1, WinFields DEF EnterWait, Win_wait, Win_test, Calls, NextIs, Running, Accepted
<1>9. call[p] \in Call
  BY WinFields
<1>10. win[p].post \in SUBSET Rank
  BY <1>1, WinFields
<1>11. [call[p] EXCEPT !.at = "wait", !.todo = win[p].post] \in Call
  BY <1>9, <1>10 DEF Call
<1>12. call' \in [Rank -> Call] /\ (\A q \in Rank : q # p => call'[q] = call[q])
       /\ call'[p] = [call[p] EXCEPT !.at = "wait", !.todo = win[p].post]
  BY <1>8, <1>11 DEF ActiveType
<1>13. call'[p].at = "wait" /\ call'[p].todo = win[p].post /\ call'[p].total = call[p].total
  BY <1>12, WinFields DEF Call
<1>14. prog' = prog /\ flight' = flight /\ posts' = posts /\ comps' = comps /\ coll' = coll
  BY DEF EnterWait, Win_wait, Win_test, Calls, NextIs, Running, Accepted
<1> QED
  BY <1>1, <1>6, <1>7, <1>12, <1>13, <1>14

(* Wait receives a COMPLETE. *)
LEMMA RecvCompleteEff ==
    ASSUME ActiveType, LocalInv, NEW p \in Rank,
           RecvComplete(p)
    PROVE  \E t \in Rank :
               /\ call[p].at = "wait" /\ First(p, t) /\ comps[t][p] # <<>>
               /\ win' \in [Rank -> Window] /\ \A q \in Rank : q # p => win'[q] = win[q]
               /\ win'[p].epoch = win[p].epoch /\ win'[p].start = win[p].start
               /\ win'[p].post = win[p].post /\ win'[p].puts = win[p].puts
               /\ win'[p].pend = win[p].pend
               /\ win'[p].src = [win[p].src EXCEPT ![t] = win[p].src[t] + Head(comps[t][p])]
               /\ win'[p].recvd = win[p].recvd - Head(comps[t][p])
               /\ win'[p].ops = win[p].ops
               /\ call' \in [Rank -> Call] /\ \A q \in Rank : q # p => call'[q] = call[q]
               /\ call'[p].at = "waitOps" /\ call'[p].todo = call[p].todo
               /\ call'[p].total = call[p].total
               /\ prog' = prog /\ flight' = flight /\ posts' = posts
               /\ comps' \in [Rank -> [Rank -> Seq(0..MaxOps)]]
               /\ \A a, b \in Rank : comps'[a][b] = IF a = t
                  /\ b = p THEN Tail(comps[a][b]) ELSE comps[a][b]
               /\ coll' = coll
<1>1. PICK t \in Rank : call[p].at = "wait" /\ First(p, t) /\ comps[t][p] # <<>>
      /\ win' = [win EXCEPT ![p].src[t] = win[p].src[t] + Head(comps[t][p]),
      ![p].recvd = win[p].recvd - Head(comps[t][p])]
      /\ comps' = [comps EXCEPT ![t][p] = Tail(comps[t][p])]
  BY DEF RecvComplete
<1>2. call[p].at = "wait" /\ First(p, t) /\ comps[t][p] # <<>>
  BY <1>1, WinFields DEF RecvComplete
<1>3. comps[t][p] \in Seq(0..MaxOps) /\ 0..MaxOps \subseteq Int
  BY DEF ActiveType
<1>4. Head(comps[t][p]) \in 0..MaxOps /\ Tail(comps[t][p]) \in Seq(0..MaxOps)
  BY <1>1, <1>3, SeqParts, Zenon
<1>5. Head(comps[t][p]) \in Int
  BY <1>4, <1>3
<1>6. win' = [win EXCEPT ![p] = [win[p] EXCEPT !.src = [win[p].src EXCEPT ![t] = win[p].src[t] + Head(comps[t][p])],
      !.recvd = win[p].recvd - Head(comps[t][p])]]
  BY <1>1, <1>2, <1>3, <1>4, <1>5, WinFields DEF RecvComplete
<1>7. [win[p].src EXCEPT ![t] = win[p].src[t] + Head(comps[t][p])] \in [Rank -> Int]
  BY <1>1, <1>2, <1>3, <1>4, <1>5, WinFields DEF RecvComplete, LocalInv, Local, Epochs
<1>8. win[p].recvd - Head(comps[t][p]) \in Int
  BY <1>1, <1>2, <1>3, <1>4, <1>5, WinFields DEF RecvComplete, LocalInv, Local, Epochs
<1>9. win[p] \in Window
  BY WinFields
<1>10. [win[p] EXCEPT !.src = [win[p].src EXCEPT ![t] = win[p].src[t] + Head(comps[t][p])],
       !.recvd = win[p].recvd - Head(comps[t][p])] \in Window
  BY <1>7, <1>8, <1>9 DEF Window
<1>11. win' \in [Rank -> Window] /\ (\A q \in Rank : q # p => win'[q] = win[q])
       /\ win'[p] = [win[p] EXCEPT !.src = [win[p].src EXCEPT ![t] = win[p].src[t] + Head(comps[t][p])],
       !.recvd = win[p].recvd - Head(comps[t][p])]
  BY <1>6, <1>10 DEF ActiveType
<1>12. win'[p].epoch = win[p].epoch /\ win'[p].start = win[p].start /\ win'[p].post = win[p].post
       /\ win'[p].puts = win[p].puts /\ win'[p].pend = win[p].pend
       /\ win'[p].src = [win[p].src EXCEPT ![t] = win[p].src[t] + Head(comps[t][p])]
       /\ win'[p].recvd = win[p].recvd - Head(comps[t][p]) /\ win'[p].ops = win[p].ops
  BY <1>11, WinFields DEF Window
<1>13. call' = [call EXCEPT ![p] = [call[p] EXCEPT !.at = "waitOps"]]
  BY <1>1, <1>2, <1>3, <1>4, <1>5, WinFields DEF RecvComplete
<1>14. call[p] \in Call
  BY WinFields
<1>15. [call[p] EXCEPT !.at = "waitOps"] \in Call
  BY <1>14 DEF Call
<1>16. call' \in [Rank -> Call] /\ (\A q \in Rank : q # p => call'[q] = call[q])
       /\ call'[p] = [call[p] EXCEPT !.at = "waitOps"]
  BY <1>13, <1>15 DEF ActiveType
<1>17. call'[p].at = "waitOps" /\ call'[p].todo = call[p].todo /\ call'[p].total = call[p].total
  BY <1>16, WinFields DEF Call
<1>18. \A a, b \in Rank : comps'[a][b] = IF a = t /\ b = p THEN Tail(comps[a][b]) ELSE comps[a][b]
  BY <1>1, <1>2, <1>3, <1>4, <1>5, WinFields, ZenonT(30) DEF RecvComplete, ActiveType
<1>19. comps' \in [Rank -> [Rank -> Seq(0..MaxOps)]]
  BY <1>1, <1>2, <1>3, <1>4, <1>5, WinFields DEF RecvComplete, ActiveType
<1>20. prog' = prog /\ flight' = flight /\ posts' = posts /\ coll' = coll
  BY DEF RecvComplete
<1> QED
  BY <1>1, <1>2, <1>3, <1>4, <1>5, <1>11, <1>12, <1>16, <1>17, <1>18, <1>19, <1>20

(* The operations of a rank have arrived. *)
LEMMA WaitedOpsEff ==
    ASSUME ActiveType, LocalInv, NEW p \in Rank,
           WaitedOps(p)
    PROVE  \E t \in Rank :
               /\ call[p].at = "waitOps" /\ First(p, t) /\ win[p].src[t] = 0
               /\ win' = win
               /\ call' \in [Rank -> Call] /\ \A q \in Rank : q # p => call'[q] = call[q]
               /\ call'[p].at = "wait" /\ call'[p].todo = call[p].todo \ {t}
               /\ call'[p].total = call[p].total
               /\ prog' = prog /\ flight' = flight /\ posts' = posts /\ comps' = comps
               /\ coll' = coll
<1>1. PICK t \in Rank : call[p].at = "waitOps" /\ First(p, t) /\ win[p].src[t] = 0
      /\ call' = [call EXCEPT ![p].at = "wait", ![p].todo = call[p].todo \ {t}]
  BY DEF WaitedOps
<1>2. call[p].at = "waitOps" /\ First(p, t) /\ win[p].src[t] = 0
  BY <1>1, WinFields DEF WaitedOps
<1>3. call' = [call EXCEPT ![p] = [call[p] EXCEPT !.at = "wait", !.todo = call[p].todo \ {t}]]
  BY <1>1, <1>2, WinFields DEF WaitedOps
<1>4. call[p] \in Call
  BY WinFields
<1>5. call[p].todo \ {t} \in SUBSET Rank
  BY <1>1, <1>2, WinFields
<1>6. [call[p] EXCEPT !.at = "wait", !.todo = call[p].todo \ {t}] \in Call
  BY <1>4, <1>5 DEF Call
<1>7. call' \in [Rank -> Call] /\ (\A q \in Rank : q # p => call'[q] = call[q])
      /\ call'[p] = [call[p] EXCEPT !.at = "wait", !.todo = call[p].todo \ {t}]
  BY <1>3, <1>6 DEF ActiveType
<1>8. call'[p].at = "wait" /\ call'[p].todo = call[p].todo \ {t} /\ call'[p].total = call[p].total
  BY <1>7, WinFields DEF Call
<1>9. win' = win /\ prog' = prog /\ flight' = flight /\ posts' = posts /\ comps' = comps /\ coll' = coll
  BY DEF WaitedOps
<1> QED
  BY <1>1, <1>2, <1>7, <1>8, <1>9

(* Wait returns. *)
LEMMA WaitDoneEff ==
    ASSUME ActiveType, LocalInv, NEW p \in Rank,
           WaitDone(p)
    PROVE  /\ call[p].at = "wait" /\ call[p].todo = {}
           /\ win' \in [Rank -> Window] /\ \A q \in Rank : q # p => win'[q] = win[q]
           /\ win'[p].epoch = win[p].epoch /\ win'[p].start = win[p].start
           /\ win'[p].post = {} /\ win'[p].puts = win[p].puts
           /\ win'[p].pend = win[p].pend /\ win'[p].src = win[p].src
           /\ win'[p].recvd = win[p].recvd /\ win'[p].ops = win[p].ops
           /\ call' \in [Rank -> Call] /\ \A q \in Rank : q # p => call'[q] = call[q]
           /\ call'[p].at = "none" /\ call'[p].todo = {} /\ call'[p].total = 0
           /\ prog' \in [Rank -> Seq(SyncCall)]
           /\ \A q \in Rank : q # p => prog'[q] = prog[q]
           /\ flight' = flight /\ posts' = posts /\ comps' = comps /\ coll' = coll
<1>1. call[p].at = "wait" /\ call[p].todo = {}
  BY WinFields DEF WaitDone, Return
<1>2. prog[p] # <<>>
  BY <1>1, WinFields DEF LocalInv, Local, InWait
<1>3. prog' = [prog EXCEPT ![p] = Tail(prog[p])] /\ prog \in [Rank -> Seq(SyncCall)]
      /\ Tail(prog[p]) \in Seq(SyncCall)
  BY <1>1, <1>2, HeadCall DEF WaitDone, Return, ActiveType
<1>4. prog' \in [Rank -> Seq(SyncCall)] /\ (\A q \in Rank : q # p => prog'[q] = prog[q])
  BY <1>3
<1>5. win' = [win EXCEPT ![p] = [win[p] EXCEPT !.post = {}]]
  BY <1>1, <1>2, WinFields DEF WaitDone, Return
<1>6. {} \in SUBSET Rank
  BY <1>1, <1>2, WinFields DEF WaitDone, Return, LocalInv, Local, Epochs
<1>7. win[p] \in Window
  BY WinFields
<1>8. [win[p] EXCEPT !.post = {}] \in Window
  BY <1>6, <1>7 DEF Window
<1>9. win' \in [Rank -> Window] /\ (\A q \in Rank : q # p => win'[q] = win[q])
      /\ win'[p] = [win[p] EXCEPT !.post = {}]
  BY <1>5, <1>8 DEF ActiveType
<1>10. win'[p].epoch = win[p].epoch /\ win'[p].start = win[p].start /\ win'[p].post = {}
       /\ win'[p].puts = win[p].puts /\ win'[p].pend = win[p].pend /\ win'[p].src = win[p].src
       /\ win'[p].recvd = win[p].recvd /\ win'[p].ops = win[p].ops
  BY <1>9, WinFields DEF Window
<1>11. call' \in [Rank -> Call] /\ (\A q \in Rank : q # p => call'[q] = call[q])
       /\ call'[p].at = "none" /\ call'[p].todo = {} /\ call'[p].total = 0
  BY DEF WaitDone, Return, ActiveType, Call, Idle
<1>12. flight' = flight /\ posts' = posts /\ comps' = comps /\ coll' = coll
  BY DEF WaitDone, Return
<1> QED
  BY <1>1, <1>2, <1>4, <1>9, <1>10, <1>11, <1>12

(* MPI_Win_fence. *)
LEMMA Win_fenceEff ==
    ASSUME ActiveType, LocalInv, NEW p \in Rank,
           Win_fence(p)
    PROVE  /\ Running(p) /\ prog[p] # <<>> /\ win[p].epoch \in FenceEpochs
           /\ win' = win
           /\ call' \in [Rank -> Call] /\ \A q \in Rank : q # p => call'[q] = call[q]
           /\ call'[p].at = "reduce" /\ call'[p].todo = call[p].todo
           /\ call'[p].total = call[p].total
           /\ prog' = prog /\ flight' = flight /\ posts' = posts /\ comps' = comps
           /\ coll' \in [Rank -> Collective]
           /\ \A q \in Rank : q # p => coll'[q] = coll[q]
           /\ coll'[p].red = (~coll[p].red) /\ coll'[p].bar = coll[p].bar
           /\ coll'[p].contrib = (win[p].puts)
<1>1. Running(p) /\ prog[p] # <<>> /\ win[p].epoch \in FenceEpochs
  BY WinFields DEF Win_fence, Calls, NextIs, Running, Accepted
<1>2. call' = [call EXCEPT ![p] = [call[p] EXCEPT !.at = "reduce"]]
  BY <1>1, WinFields DEF Win_fence, Calls, NextIs, Running, Accepted
<1>3. call[p] \in Call
  BY WinFields
<1>4. [call[p] EXCEPT !.at = "reduce"] \in Call
  BY <1>3 DEF Call
<1>5. call' \in [Rank -> Call] /\ (\A q \in Rank : q # p => call'[q] = call[q])
      /\ call'[p] = [call[p] EXCEPT !.at = "reduce"]
  BY <1>2, <1>4 DEF ActiveType
<1>6. call'[p].at = "reduce" /\ call'[p].todo = call[p].todo /\ call'[p].total = call[p].total
  BY <1>5, WinFields DEF Call
<1>7. win[p].puts \in [Rank -> Nat] /\ coll[p] \in Collective
  BY WinFields DEF ActiveType
<1>8. [coll[p] EXCEPT !.red = ~coll[p].red, !.contrib = win[p].puts] \in Collective
  BY <1>7 DEF Collective
<1>9. coll' = [coll EXCEPT ![p] = [coll[p] EXCEPT !.red = ~coll[p].red, !.contrib = win[p].puts]]
  BY DEF Win_fence
<1>10. coll' \in [Rank -> Collective] /\ (\A q \in Rank : q # p => coll'[q] = coll[q])
  BY <1>8, <1>9 DEF ActiveType
<1>11. coll'[p].red = (~coll[p].red) /\ coll'[p].bar = coll[p].bar /\ coll'[p].contrib = (win[p].puts)
  BY DEF Win_fence, Calls, NextIs, Running, Accepted, ActiveType, Collective
<1>12. win' = win /\ prog' = prog /\ flight' = flight /\ posts' = posts /\ comps' = comps
  BY DEF Win_fence, Calls, NextIs, Running, Accepted
<1> QED
  BY <1>1, <1>5, <1>6, <1>10, <1>11, <1>12

(* The reduce_scatter of fence. *)
LEMMA FenceReducedEff ==
    ASSUME ActiveType, LocalInv, NEW p \in Rank,
           FenceReduced(p)
    PROVE  /\ call[p].at = "reduce" /\ \A q \in Rank : coll[q].red = coll[p].red
           /\ win' = win
           /\ call' \in [Rank -> Call] /\ \A q \in Rank : q # p => call'[q] = call[q]
           /\ call'[p].at = "fence" /\ call'[p].todo = call[p].todo
           /\ call'[p].total = Sum(p)
           /\ prog' = prog /\ flight' = flight /\ posts' = posts /\ comps' = comps
           /\ coll' = coll
<1>1. call[p].at = "reduce" /\ (\A q \in Rank : coll[q].red = coll[p].red)
  BY WinFields DEF FenceReduced
<1>2. Sum(p) \in Nat
  BY SumType DEF ActiveType
<1>3. call' = [call EXCEPT ![p] = [call[p] EXCEPT !.at = "fence", !.total = Sum(p)]]
  BY <1>1, <1>2, WinFields DEF FenceReduced
<1>4. call[p] \in Call
  BY WinFields
<1>5. [call[p] EXCEPT !.at = "fence", !.total = Sum(p)] \in Call
  BY <1>4, <1>2 DEF Call
<1>6. call' \in [Rank -> Call] /\ (\A q \in Rank : q # p => call'[q] = call[q])
      /\ call'[p] = [call[p] EXCEPT !.at = "fence", !.total = Sum(p)]
  BY <1>3, <1>5 DEF ActiveType
<1>7. call'[p].at = "fence" /\ call'[p].todo = call[p].todo /\ call'[p].total = Sum(p)
  BY <1>6, WinFields DEF Call
<1>8. win' = win /\ prog' = prog /\ flight' = flight /\ posts' = posts /\ comps' = comps /\ coll' = coll
  BY DEF FenceReduced
<1> QED
  BY <1>1, <1>6, <1>7, <1>8

(* Fence returns. *)
LEMMA FenceDoneEff ==
    ASSUME ActiveType, LocalInv, NEW p \in Rank,
           FenceDone(p)
    PROVE  /\ call[p].at = "barrier" /\ \A q \in Rank : coll[q].bar = coll[p].bar
           /\ win' = win
           /\ call' \in [Rank -> Call] /\ \A q \in Rank : q # p => call'[q] = call[q]
           /\ call'[p].at = "none" /\ call'[p].todo = {} /\ call'[p].total = 0
           /\ prog' \in [Rank -> Seq(SyncCall)]
           /\ \A q \in Rank : q # p => prog'[q] = prog[q]
           /\ flight' = flight /\ posts' = posts /\ comps' = comps /\ coll' = coll
<1>1. call[p].at = "barrier" /\ (\A q \in Rank : coll[q].bar = coll[p].bar)
  BY WinFields DEF FenceDone, Return
<1>2. prog[p] # <<>>
  BY <1>1, WinFields DEF LocalInv, Local, InWait
<1>3. prog' = [prog EXCEPT ![p] = Tail(prog[p])] /\ prog \in [Rank -> Seq(SyncCall)]
      /\ Tail(prog[p]) \in Seq(SyncCall)
  BY <1>1, <1>2, HeadCall DEF FenceDone, Return, ActiveType
<1>4. prog' \in [Rank -> Seq(SyncCall)] /\ (\A q \in Rank : q # p => prog'[q] = prog[q])
  BY <1>3
<1>5. call' \in [Rank -> Call] /\ (\A q \in Rank : q # p => call'[q] = call[q]) /\ call'[p].at = "none"
      /\ call'[p].todo = {} /\ call'[p].total = 0
  BY DEF FenceDone, Return, ActiveType, Call, Idle
<1>6. win' = win /\ flight' = flight /\ posts' = posts /\ comps' = comps /\ coll' = coll
  BY DEF FenceDone, Return
<1> QED
  BY <1>1, <1>2, <1>4, <1>5, <1>6

(* A call in a wrong epoch. *)
LEMMA RefuseEff ==
    ASSUME ActiveType, LocalInv, NEW p \in Rank,
           Refuse(p)
    PROVE  /\ Running(p) /\ prog[p] # <<>>
           /\ win' = win /\ call' = call
           /\ prog' \in [Rank -> Seq(SyncCall)]
           /\ \A q \in Rank : q # p => prog'[q] = prog[q]
           /\ flight' = flight /\ posts' = posts /\ comps' = comps /\ coll' = coll
<1>1. Running(p) /\ prog[p] # <<>>
  BY WinFields DEF Refuse, Running
<1>2. prog' = [prog EXCEPT ![p] = Tail(prog[p])] /\ prog \in [Rank -> Seq(SyncCall)]
      /\ Tail(prog[p]) \in Seq(SyncCall)
  BY <1>1, HeadCall DEF Refuse, Running, ActiveType
<1>3. prog' \in [Rank -> Seq(SyncCall)] /\ (\A q \in Rank : q # p => prog'[q] = prog[q])
  BY <1>2
<1>4. win' = win /\ call' = call /\ flight' = flight /\ posts' = posts /\ comps' = comps /\ coll' = coll
  BY DEF Refuse, Running
<1> QED
  BY <1>1, <1>3, <1>4

-----------------------------------------------------------------------------
(* Types and the state of one rank are kept *)

(* A rank that a step leaves alone. *)
LEMMA LocalFrame ==
    ASSUME NEW q \in Rank, Local(q), win'[q] = win[q], call'[q] = call[q], prog'[q] = prog[q],
           coll'[q] = coll[q]
    PROVE  Local(q)'
BY DEF Local, InWait, InFence, Group

(* MPI_Put and MPI_Accumulate. *)
LEMMA PutLocal ==
    ASSUME ActiveType, LocalInv, NEW p \in Rank, NEW t \in Rank, Put(p, t)
    PROVE  ActiveType' /\ LocalInv'
<1>1. ActiveType'
  BY PutEff DEF Put, MayAccess, Tracked, ActiveType
<1>2. \A q \in Rank : q # p => Local(q)'
  <2>1. \A q \in Rank : q # p =>
           win'[q] = win[q] /\ call'[q] = call[q] /\ prog'[q] = prog[q] /\ coll'[q] = coll[q]
    <3>1. \A q \in Rank : q # p => win'[q] = win[q]
      BY PutEff
    <3>2. \A q \in Rank : q # p => call'[q] = call[q]
      BY PutEff
    <3>3. \A q \in Rank : q # p => prog'[q] = prog[q]
      BY PutEff
    <3>4. \A q \in Rank : q # p => coll'[q] = coll[q]
      BY PutEff
    <3> QED
      BY <3>1, <3>2, <3>3, <3>4
  <2> QED
    BY <2>1, LocalFrame DEF LocalInv
<1>3. Local(p)'
  <2>1. Local(p) /\ \A x \in Rank : win[p].puts[x] \in Nat
    BY WinFields DEF LocalInv
  <2>2. \A x \in Rank : win'[p].puts[x] = IF x = t THEN win[p].puts[x] + 1 ELSE win[p].puts[x]
    <3>1. win'[p].puts = [win[p].puts EXCEPT ![t] = win[p].puts[t] + 1]
      BY PutEff
    <3>2. win[p].puts \in [Rank -> 0..MaxOps]
      BY WinFields
    <3> QED
      BY <3>1, <3>2
  <2>3. /\ win'[p].start # {} => win'[p].epoch \in {"START", "PSCW"} \/ call'[p].at = "complete"
        /\ win'[p].post # {} => win'[p].epoch \in {"POST", "PSCW"} \/ InWait(p)'
    BY <2>1, PutEff DEF Local, InWait, InFence, Group, FenceEpochs, StartEpochs, MayAccess, Running, Tracked
  <2>4. /\ call'[p].at = "start" => /\ win'[p].start = {} /\ win'[p].epoch \in {"START", "PSCW"}
                                   /\ call'[p].todo \subseteq Group(p)'
        /\ call'[p].at = "complete" => win'[p].epoch \in {"NONE", "POST"}
        /\ InWait(p)' => win'[p].epoch \in {"NONE", "START"} /\ call'[p].todo \subseteq win'[p].post
    BY <2>1, PutEff DEF Local, InWait, InFence, Group, FenceEpochs, StartEpochs, MayAccess, Running, Tracked
  <2>5. /\ InFence(p)' => win'[p].epoch \in FenceEpochs /\ coll'[p].contrib = win'[p].puts
        /\ call'[p].at = "barrier" => win'[p].epoch = "FENCE_ISSUED"
        /\ call'[p].at # "none" => prog'[p] # <<>>
    BY <2>1, PutEff DEF Local, InWait, InFence, Group, FenceEpochs, StartEpochs, MayAccess, Running, Tracked
  <2>6. \A x \in Rank : win'[p].puts[x] > 0 => win'[p].epoch = "FENCE" \/ x \in win'[p].start
    <3>1. win'[p].epoch = Tracked(win[p].epoch) /\ win'[p].start = win[p].start
      BY PutEff
    <3>2. Tracked(win[p].epoch) = "FENCE" \/ t \in win[p].start
      BY PutEff DEF MayAccess, Tracked
    <3> QED
      BY <2>1, <2>2, <3>1, <3>2 DEF Local, Tracked
  <2>7. \A x \in Rank : win'[p].puts[x] <= win'[p].ops
    <3>1. win'[p].ops = win[p].ops + 1 
      BY PutEff
    <3>2. win[p].ops \in Nat
      BY WinFields
    <3> QED
      BY <2>1, <2>2, <3>1, <3>2 DEF Local
  <2> QED
    BY <2>3, <2>4, <2>5, <2>6, <2>7 DEF Local
<1> QED
  BY <1>1, <1>2, <1>3 DEF LocalInv

(* MPI_Get. *)
LEMMA GetLocal ==
    ASSUME ActiveType, LocalInv, NEW p \in Rank, NEW t \in Rank, Get(p, t)
    PROVE  ActiveType' /\ LocalInv'
<1>1. ActiveType'
  BY GetEff DEF Get, MayAccess, Tracked, ActiveType
<1>2. \A q \in Rank : q # p => Local(q)'
  <2>1. \A q \in Rank : q # p =>
           win'[q] = win[q] /\ call'[q] = call[q] /\ prog'[q] = prog[q] /\ coll'[q] = coll[q]
    <3>1. \A q \in Rank : q # p => win'[q] = win[q]
      BY GetEff
    <3>2. \A q \in Rank : q # p => call'[q] = call[q]
      BY GetEff
    <3>3. \A q \in Rank : q # p => prog'[q] = prog[q]
      BY GetEff
    <3>4. \A q \in Rank : q # p => coll'[q] = coll[q]
      BY GetEff
    <3> QED
      BY <3>1, <3>2, <3>3, <3>4
  <2> QED
    BY <2>1, LocalFrame DEF LocalInv
<1>3. Local(p)'
  <2>1. Local(p) /\ \A x \in Rank : win[p].puts[x] \in Nat
    BY WinFields DEF LocalInv
  <2> QED
    BY <2>1, GetEff DEF Local, InWait, InFence, Group, FenceEpochs, PostEpochs, StartEpochs, CompleteEpochs,
       WaitEpochs, Running, MayAccess, Tracked
<1> QED
  BY <1>1, <1>2, <1>3 DEF LocalInv

(* The origin callback. *)
LEMMA OpDoneLocal ==
    ASSUME ActiveType, LocalInv, NEW p \in Rank, OpDone(p)
    PROVE  ActiveType' /\ LocalInv'
<1>1. ActiveType'
  BY OpDoneEff DEF OpDone, ActiveType
<1>2. \A q \in Rank : q # p => Local(q)'
  <2>1. \A q \in Rank : q # p =>
           win'[q] = win[q] /\ call'[q] = call[q] /\ prog'[q] = prog[q] /\ coll'[q] = coll[q]
    <3>1. \A q \in Rank : q # p => win'[q] = win[q]
      BY OpDoneEff
    <3>2. \A q \in Rank : q # p => call'[q] = call[q]
      BY OpDoneEff
    <3>3. \A q \in Rank : q # p => prog'[q] = prog[q]
      BY OpDoneEff
    <3>4. \A q \in Rank : q # p => coll'[q] = coll[q]
      BY OpDoneEff
    <3> QED
      BY <3>1, <3>2, <3>3, <3>4
  <2> QED
    BY <2>1, LocalFrame DEF LocalInv
<1>3. Local(p)'
  <2>1. Local(p) /\ \A x \in Rank : win[p].puts[x] \in Nat
    BY WinFields DEF LocalInv
  <2> QED
    BY <2>1, OpDoneEff DEF Local, InWait, InFence, Group, FenceEpochs, PostEpochs, StartEpochs, CompleteEpochs,
       WaitEpochs, Running, MayAccess, Tracked
<1> QED
  BY <1>1, <1>2, <1>3 DEF LocalInv

(* The target callback. *)
LEMMA OpArrivesLocal ==
    ASSUME ActiveType, LocalInv, NEW p \in Rank, NEW t \in Rank, OpArrives(p, t)
    PROVE  ActiveType' /\ LocalInv'
<1>1. ActiveType'
  BY OpArrivesEff DEF OpArrives, ActiveType
<1>2. \A q \in Rank : q # t => Local(q)'
  <2>1. \A q \in Rank : q # t =>
           win'[q] = win[q] /\ call'[q] = call[q] /\ prog'[q] = prog[q] /\ coll'[q] = coll[q]
    <3>1. \A q \in Rank : q # t => win'[q] = win[q]
      BY OpArrivesEff
    <3>2. \A q \in Rank : q # t => call'[q] = call[q]
      BY OpArrivesEff
    <3>3. \A q \in Rank : q # t => prog'[q] = prog[q]
      BY OpArrivesEff
    <3>4. \A q \in Rank : q # t => coll'[q] = coll[q]
      BY OpArrivesEff
    <3> QED
      BY <3>1, <3>2, <3>3, <3>4
  <2> QED
    BY <2>1, LocalFrame DEF LocalInv
<1>3. Local(t)'
  <2>1. Local(t) /\ \A x \in Rank : win[t].puts[x] \in Nat
    BY WinFields DEF LocalInv
  <2> QED
    BY <2>1, OpArrivesEff, ZenonT(30) DEF Local, InWait, InFence, Group, FenceEpochs, PostEpochs, StartEpochs, CompleteEpochs,
       WaitEpochs, Running, MayAccess, Tracked
<1> QED
  BY <1>1, <1>2, <1>3 DEF LocalInv

(* The wait of fence ends. *)
LEMMA FenceWaitedLocal ==
    ASSUME ActiveType, LocalInv, NEW p \in Rank, FenceWaited(p)
    PROVE  ActiveType' /\ LocalInv'
<1>1. ActiveType'
  BY FenceWaitedEff DEF FenceWaited, ActiveType
<1>2. \A q \in Rank : q # p => Local(q)'
  <2>1. \A q \in Rank : q # p =>
           win'[q] = win[q] /\ call'[q] = call[q] /\ prog'[q] = prog[q] /\ coll'[q] = coll[q]
    <3>1. \A q \in Rank : q # p => win'[q] = win[q]
      BY FenceWaitedEff
    <3>2. \A q \in Rank : q # p => call'[q] = call[q]
      BY FenceWaitedEff
    <3>3. \A q \in Rank : q # p => prog'[q] = prog[q]
      BY FenceWaitedEff
    <3>4. \A q \in Rank : q # p => coll'[q] = coll[q]
      BY FenceWaitedEff
    <3> QED
      BY <3>1, <3>2, <3>3, <3>4
  <2> QED
    BY <2>1, LocalFrame DEF LocalInv
<1>3. Local(p)'
  <2>1. Local(p) /\ \A x \in Rank : win[p].puts[x] \in Nat
    BY WinFields DEF LocalInv
  <2> QED
    BY <2>1, FenceWaitedEff DEF Local, InWait, InFence, Group, FenceEpochs, PostEpochs, StartEpochs, CompleteEpochs,
       WaitEpochs, Running, MayAccess, Tracked
<1> QED
  BY <1>1, <1>2, <1>3 DEF LocalInv

(* MPI_Win_post. *)
LEMMA Win_postLocal ==
    ASSUME ActiveType, LocalInv, NEW p \in Rank, Win_post(p)
    PROVE  ActiveType' /\ LocalInv'
<1>1. ActiveType'
  BY Win_postEff DEF Win_post, Return, Calls, NextIs, Running, Accepted, ActiveType
<1>2. \A q \in Rank : q # p => Local(q)'
  <2>1. \A q \in Rank : q # p =>
           win'[q] = win[q] /\ call'[q] = call[q] /\ prog'[q] = prog[q] /\ coll'[q] = coll[q]
    <3>1. \A q \in Rank : q # p => win'[q] = win[q]
      BY Win_postEff
    <3>2. \A q \in Rank : q # p => call'[q] = call[q]
      BY Win_postEff
    <3>3. \A q \in Rank : q # p => prog'[q] = prog[q]
      BY Win_postEff
    <3>4. \A q \in Rank : q # p => coll'[q] = coll[q]
      BY Win_postEff
    <3> QED
      BY <3>1, <3>2, <3>3, <3>4
  <2> QED
    BY <2>1, LocalFrame DEF LocalInv
<1>3. Local(p)'
  <2>1. Local(p) /\ \A x \in Rank : win[p].puts[x] \in Nat
    BY WinFields DEF LocalInv
  <2> QED
    BY <2>1, Win_postEff DEF Local, InWait, InFence, Group, FenceEpochs, PostEpochs, StartEpochs, CompleteEpochs,
       WaitEpochs, Running, MayAccess, Tracked
<1> QED
  BY <1>1, <1>2, <1>3 DEF LocalInv

(* MPI_Win_start. *)
LEMMA Win_startLocal ==
    ASSUME ActiveType, LocalInv, NEW p \in Rank, Win_start(p)
    PROVE  ActiveType' /\ LocalInv'
<1>1. ActiveType'
  BY Win_startEff DEF Win_start, Calls, NextIs, Running, Accepted, ActiveType
<1>2. \A q \in Rank : q # p => Local(q)'
  <2>1. \A q \in Rank : q # p =>
           win'[q] = win[q] /\ call'[q] = call[q] /\ prog'[q] = prog[q] /\ coll'[q] = coll[q]
    <3>1. \A q \in Rank : q # p => win'[q] = win[q]
      BY Win_startEff
    <3>2. \A q \in Rank : q # p => call'[q] = call[q]
      BY Win_startEff
    <3>3. \A q \in Rank : q # p => prog'[q] = prog[q]
      BY Win_startEff
    <3>4. \A q \in Rank : q # p => coll'[q] = coll[q]
      BY Win_startEff
    <3> QED
      BY <3>1, <3>2, <3>3, <3>4
  <2> QED
    BY <2>1, LocalFrame DEF LocalInv
<1>3. Local(p)'
  <2>1. Local(p) /\ \A x \in Rank : win[p].puts[x] \in Nat
    BY WinFields DEF LocalInv
  <2> QED
    BY <2>1, Win_startEff DEF Local, InWait, InFence, Group, FenceEpochs, PostEpochs, StartEpochs, CompleteEpochs,
       WaitEpochs, Running, MayAccess, Tracked
<1> QED
  BY <1>1, <1>2, <1>3 DEF LocalInv

(* Start receives a POST. *)
LEMMA RecvPostLocal ==
    ASSUME ActiveType, LocalInv, NEW p \in Rank, RecvPost(p)
    PROVE  ActiveType' /\ LocalInv'
<1>1. ActiveType'
  BY RecvPostEff DEF RecvPost, ActiveType
<1>2. \A q \in Rank : q # p => Local(q)'
  <2>1. \A q \in Rank : q # p =>
           win'[q] = win[q] /\ call'[q] = call[q] /\ prog'[q] = prog[q] /\ coll'[q] = coll[q]
    <3>1. \A q \in Rank : q # p => win'[q] = win[q]
      BY RecvPostEff
    <3>2. \A q \in Rank : q # p => call'[q] = call[q]
      BY RecvPostEff
    <3>3. \A q \in Rank : q # p => prog'[q] = prog[q]
      BY RecvPostEff
    <3>4. \A q \in Rank : q # p => coll'[q] = coll[q]
      BY RecvPostEff
    <3> QED
      BY <3>1, <3>2, <3>3, <3>4
  <2> QED
    BY <2>1, LocalFrame DEF LocalInv
<1>3. Local(p)'
  <2>1. Local(p) /\ \A x \in Rank : win[p].puts[x] \in Nat
    BY WinFields DEF LocalInv
  <2> QED
    BY <2>1, RecvPostEff DEF Local, InWait, InFence, Group, FenceEpochs, PostEpochs, StartEpochs, CompleteEpochs,
       WaitEpochs, Running, MayAccess, Tracked
<1> QED
  BY <1>1, <1>2, <1>3 DEF LocalInv

(* Start returns. *)
LEMMA StartDoneLocal ==
    ASSUME ActiveType, LocalInv, NEW p \in Rank, StartDone(p)
    PROVE  ActiveType' /\ LocalInv'
<1>1. ActiveType'
  BY StartDoneEff DEF StartDone, Return, ActiveType
<1>2. \A q \in Rank : q # p => Local(q)'
  <2>1. \A q \in Rank : q # p =>
           win'[q] = win[q] /\ call'[q] = call[q] /\ prog'[q] = prog[q] /\ coll'[q] = coll[q]
    <3>1. \A q \in Rank : q # p => win'[q] = win[q]
      BY StartDoneEff
    <3>2. \A q \in Rank : q # p => call'[q] = call[q]
      BY StartDoneEff
    <3>3. \A q \in Rank : q # p => prog'[q] = prog[q]
      BY StartDoneEff
    <3>4. \A q \in Rank : q # p => coll'[q] = coll[q]
      BY StartDoneEff
    <3> QED
      BY <3>1, <3>2, <3>3, <3>4
  <2> QED
    BY <2>1, LocalFrame DEF LocalInv
<1>3. Local(p)'
  <2>1. Local(p) /\ \A x \in Rank : win[p].puts[x] \in Nat
    BY WinFields DEF LocalInv
  <2>2. \A x \in Rank : win'[p].puts[x] = 0
    <3>1. win'[p].puts = win[p].puts /\ win[p].start = {} /\ win[p].epoch # "FENCE"
      BY <2>1, StartDoneEff DEF Local
    <3> QED
      BY <2>1, <3>1 DEF Local
  <2>3. /\ win'[p].start # {} => win'[p].epoch \in {"START", "PSCW"} \/ call'[p].at = "complete"
        /\ win'[p].post # {} => win'[p].epoch \in {"POST", "PSCW"} \/ InWait(p)'
    BY <2>1, StartDoneEff DEF Local, InWait, InFence, Group, FenceEpochs, StartEpochs, MayAccess, Running, Tracked
  <2>4. /\ call'[p].at = "start" => /\ win'[p].start = {} /\ win'[p].epoch \in {"START", "PSCW"}
                                   /\ call'[p].todo \subseteq Group(p)'
        /\ call'[p].at = "complete" => win'[p].epoch \in {"NONE", "POST"}
        /\ InWait(p)' => win'[p].epoch \in {"NONE", "START"} /\ call'[p].todo \subseteq win'[p].post
    BY <2>1, StartDoneEff DEF Local, InWait, InFence, Group, FenceEpochs, StartEpochs, MayAccess, Running, Tracked
  <2>5. /\ InFence(p)' => win'[p].epoch \in FenceEpochs /\ coll'[p].contrib = win'[p].puts
        /\ call'[p].at = "barrier" => win'[p].epoch = "FENCE_ISSUED"
        /\ call'[p].at # "none" => prog'[p] # <<>>
    BY <2>1, StartDoneEff DEF Local, InWait, InFence, Group, FenceEpochs, StartEpochs, MayAccess, Running, Tracked
  <2>6. \A x \in Rank : win'[p].puts[x] > 0 => win'[p].epoch = "FENCE" \/ x \in win'[p].start
    BY <2>2
  <2>7. \A x \in Rank : win'[p].puts[x] <= win'[p].ops
    <3>1. win'[p].ops = 0
      BY StartDoneEff
    <3> QED
      BY <2>2, <3>1
  <2> QED
    BY <2>3, <2>4, <2>5, <2>6, <2>7 DEF Local
<1> QED
  BY <1>1, <1>2, <1>3 DEF LocalInv

(* MPI_Win_complete. *)
LEMMA Win_completeLocal ==
    ASSUME ActiveType, LocalInv, NEW p \in Rank, Win_complete(p)
    PROVE  ActiveType' /\ LocalInv'
<1>1. ActiveType'
  BY Win_completeEff DEF Win_complete, Calls, NextIs, Running, Accepted, ActiveType
<1>2. \A q \in Rank : q # p => Local(q)'
  <2>1. \A q \in Rank : q # p =>
           win'[q] = win[q] /\ call'[q] = call[q] /\ prog'[q] = prog[q] /\ coll'[q] = coll[q]
    <3>1. \A q \in Rank : q # p => win'[q] = win[q]
      BY Win_completeEff
    <3>2. \A q \in Rank : q # p => call'[q] = call[q]
      BY Win_completeEff
    <3>3. \A q \in Rank : q # p => prog'[q] = prog[q]
      BY Win_completeEff
    <3>4. \A q \in Rank : q # p => coll'[q] = coll[q]
      BY Win_completeEff
    <3> QED
      BY <3>1, <3>2, <3>3, <3>4
  <2> QED
    BY <2>1, LocalFrame DEF LocalInv
<1>3. Local(p)'
  <2>1. Local(p) /\ \A x \in Rank : win[p].puts[x] \in Nat
    BY WinFields DEF LocalInv
  <2> QED
    BY <2>1, Win_completeEff DEF Local, InWait, InFence, Group, FenceEpochs, PostEpochs, StartEpochs, CompleteEpochs,
       WaitEpochs, Running, MayAccess, Tracked
<1> QED
  BY <1>1, <1>2, <1>3 DEF LocalInv

(* Complete returns. *)
LEMMA CompleteSendLocal ==
    ASSUME ActiveType, LocalInv, NEW p \in Rank, CompleteSend(p)
    PROVE  ActiveType' /\ LocalInv'
<1>1. ActiveType'
  BY CompleteSendEff DEF CompleteSend, Return, ActiveType
<1>2. \A q \in Rank : q # p => Local(q)'
  <2>1. \A q \in Rank : q # p =>
           win'[q] = win[q] /\ call'[q] = call[q] /\ prog'[q] = prog[q] /\ coll'[q] = coll[q]
    <3>1. \A q \in Rank : q # p => win'[q] = win[q]
      BY CompleteSendEff
    <3>2. \A q \in Rank : q # p => call'[q] = call[q]
      BY CompleteSendEff
    <3>3. \A q \in Rank : q # p => prog'[q] = prog[q]
      BY CompleteSendEff
    <3>4. \A q \in Rank : q # p => coll'[q] = coll[q]
      BY CompleteSendEff
    <3> QED
      BY <3>1, <3>2, <3>3, <3>4
  <2> QED
    BY <2>1, LocalFrame DEF LocalInv
<1>3. Local(p)'
  <2>1. Local(p) /\ \A x \in Rank : win[p].puts[x] \in Nat
    BY WinFields DEF LocalInv
  <2>2. \A x \in Rank : win'[p].puts[x] = IF x \in win[p].start THEN 0 ELSE win[p].puts[x]
    <3>1. win'[p].puts = [x \in Rank |-> IF x \in win[p].start THEN 0 ELSE win[p].puts[x]]
      BY CompleteSendEff
    <3> QED
      BY <3>1
  <2>3. /\ win'[p].start # {} => win'[p].epoch \in {"START", "PSCW"} \/ call'[p].at = "complete"
        /\ win'[p].post # {} => win'[p].epoch \in {"POST", "PSCW"} \/ InWait(p)'
    BY <2>1, CompleteSendEff DEF Local, InWait, InFence, Group, FenceEpochs, StartEpochs, MayAccess, Running, Tracked
  <2>4. /\ call'[p].at = "start" => /\ win'[p].start = {} /\ win'[p].epoch \in {"START", "PSCW"}
                                   /\ call'[p].todo \subseteq Group(p)'
        /\ call'[p].at = "complete" => win'[p].epoch \in {"NONE", "POST"}
        /\ InWait(p)' => win'[p].epoch \in {"NONE", "START"} /\ call'[p].todo \subseteq win'[p].post
    BY <2>1, CompleteSendEff DEF Local, InWait, InFence, Group, FenceEpochs, StartEpochs, MayAccess, Running, Tracked
  <2>5. /\ InFence(p)' => win'[p].epoch \in FenceEpochs /\ coll'[p].contrib = win'[p].puts
        /\ call'[p].at = "barrier" => win'[p].epoch = "FENCE_ISSUED"
        /\ call'[p].at # "none" => prog'[p] # <<>>
    BY <2>1, CompleteSendEff DEF Local, InWait, InFence, Group, FenceEpochs, StartEpochs, MayAccess, Running, Tracked
  <2>6. \A x \in Rank : win'[p].puts[x] > 0 => win'[p].epoch = "FENCE" \/ x \in win'[p].start
    <3>1. win'[p].epoch = win[p].epoch
      BY CompleteSendEff
    <3> QED
      BY <2>1, <2>2, <3>1 DEF Local
  <2>7. \A x \in Rank : win'[p].puts[x] <= win'[p].ops
    <3>1. win'[p].ops = win[p].ops 
      BY CompleteSendEff
    <3>2. win[p].ops \in Nat
      BY WinFields
    <3> QED
      BY <2>1, <2>2, <3>1, <3>2 DEF Local
  <2> QED
    BY <2>3, <2>4, <2>5, <2>6, <2>7 DEF Local
<1> QED
  BY <1>1, <1>2, <1>3 DEF LocalInv

(* MPI_Win_wait begins. *)
LEMMA EnterWaitLocal ==
    ASSUME ActiveType, LocalInv, NEW p \in Rank, Win_wait(p) \/ Win_test(p)
    PROVE  ActiveType' /\ LocalInv'
<1>1. ActiveType'
  <2>1. refused' = refused
    BY DEF EnterWait, Win_wait, Win_test
  <2>2. ActiveType' <=> refused' \subseteq Rank
    BY EnterWaitEff DEF ActiveType
  <2> QED
    BY <2>1, <2>2 DEF ActiveType
<1>2. \A q \in Rank : q # p => Local(q)'
  <2>1. \A q \in Rank : q # p =>
           win'[q] = win[q] /\ call'[q] = call[q] /\ prog'[q] = prog[q] /\ coll'[q] = coll[q]
    <3>1. \A q \in Rank : q # p => win'[q] = win[q]
      BY EnterWaitEff
    <3>2. \A q \in Rank : q # p => call'[q] = call[q]
      BY EnterWaitEff
    <3>3. \A q \in Rank : q # p => prog'[q] = prog[q]
      BY EnterWaitEff
    <3>4. \A q \in Rank : q # p => coll'[q] = coll[q]
      BY EnterWaitEff
    <3> QED
      BY <3>1, <3>2, <3>3, <3>4
  <2> QED
    BY <2>1, LocalFrame DEF LocalInv
<1>3. Local(p)'
  <2>1. Local(p) /\ \A x \in Rank : win[p].puts[x] \in Nat
    BY WinFields DEF LocalInv
  <2> QED
    BY <2>1, EnterWaitEff DEF Local, InWait, InFence, Group, FenceEpochs, PostEpochs, StartEpochs, CompleteEpochs,
       WaitEpochs, Running, MayAccess, Tracked
<1> QED
  BY <1>1, <1>2, <1>3 DEF LocalInv

(* Wait receives a COMPLETE. *)
LEMMA RecvCompleteLocal ==
    ASSUME ActiveType, LocalInv, NEW p \in Rank, RecvComplete(p)
    PROVE  ActiveType' /\ LocalInv'
<1>1. ActiveType'
  BY RecvCompleteEff DEF RecvComplete, ActiveType
<1>2. \A q \in Rank : q # p => Local(q)'
  <2>1. \A q \in Rank : q # p =>
           win'[q] = win[q] /\ call'[q] = call[q] /\ prog'[q] = prog[q] /\ coll'[q] = coll[q]
    <3>1. \A q \in Rank : q # p => win'[q] = win[q]
      BY RecvCompleteEff
    <3>2. \A q \in Rank : q # p => call'[q] = call[q]
      BY RecvCompleteEff
    <3>3. \A q \in Rank : q # p => prog'[q] = prog[q]
      BY RecvCompleteEff
    <3>4. \A q \in Rank : q # p => coll'[q] = coll[q]
      BY RecvCompleteEff
    <3> QED
      BY <3>1, <3>2, <3>3, <3>4
  <2> QED
    BY <2>1, LocalFrame DEF LocalInv
<1>3. Local(p)'
  <2>1. Local(p) /\ \A x \in Rank : win[p].puts[x] \in Nat
    BY WinFields DEF LocalInv
  <2> QED
    BY <2>1, RecvCompleteEff DEF Local, InWait, InFence, Group, FenceEpochs, PostEpochs, StartEpochs, CompleteEpochs,
       WaitEpochs, Running, MayAccess, Tracked
<1> QED
  BY <1>1, <1>2, <1>3 DEF LocalInv

(* The operations of a rank have arrived. *)
LEMMA WaitedOpsLocal ==
    ASSUME ActiveType, LocalInv, NEW p \in Rank, WaitedOps(p)
    PROVE  ActiveType' /\ LocalInv'
<1>1. ActiveType'
  BY WaitedOpsEff DEF WaitedOps, ActiveType
<1>2. \A q \in Rank : q # p => Local(q)'
  <2>1. \A q \in Rank : q # p =>
           win'[q] = win[q] /\ call'[q] = call[q] /\ prog'[q] = prog[q] /\ coll'[q] = coll[q]
    <3>1. \A q \in Rank : q # p => win'[q] = win[q]
      BY WaitedOpsEff
    <3>2. \A q \in Rank : q # p => call'[q] = call[q]
      BY WaitedOpsEff
    <3>3. \A q \in Rank : q # p => prog'[q] = prog[q]
      BY WaitedOpsEff
    <3>4. \A q \in Rank : q # p => coll'[q] = coll[q]
      BY WaitedOpsEff
    <3> QED
      BY <3>1, <3>2, <3>3, <3>4
  <2> QED
    BY <2>1, LocalFrame DEF LocalInv
<1>3. Local(p)'
  <2>1. Local(p) /\ \A x \in Rank : win[p].puts[x] \in Nat
    BY WinFields DEF LocalInv
  <2> QED
    BY <2>1, WaitedOpsEff DEF Local, InWait, InFence, Group, FenceEpochs, PostEpochs, StartEpochs, CompleteEpochs,
       WaitEpochs, Running, MayAccess, Tracked
<1> QED
  BY <1>1, <1>2, <1>3 DEF LocalInv

(* Wait returns. *)
LEMMA WaitDoneLocal ==
    ASSUME ActiveType, LocalInv, NEW p \in Rank, WaitDone(p)
    PROVE  ActiveType' /\ LocalInv'
<1>1. ActiveType'
  BY WaitDoneEff DEF WaitDone, Return, ActiveType
<1>2. \A q \in Rank : q # p => Local(q)'
  <2>1. \A q \in Rank : q # p =>
           win'[q] = win[q] /\ call'[q] = call[q] /\ prog'[q] = prog[q] /\ coll'[q] = coll[q]
    <3>1. \A q \in Rank : q # p => win'[q] = win[q]
      BY WaitDoneEff
    <3>2. \A q \in Rank : q # p => call'[q] = call[q]
      BY WaitDoneEff
    <3>3. \A q \in Rank : q # p => prog'[q] = prog[q]
      BY WaitDoneEff
    <3>4. \A q \in Rank : q # p => coll'[q] = coll[q]
      BY WaitDoneEff
    <3> QED
      BY <3>1, <3>2, <3>3, <3>4
  <2> QED
    BY <2>1, LocalFrame DEF LocalInv
<1>3. Local(p)'
  <2>1. Local(p) /\ \A x \in Rank : win[p].puts[x] \in Nat
    BY WinFields DEF LocalInv
  <2> QED
    BY <2>1, WaitDoneEff DEF Local, InWait, InFence, Group, FenceEpochs, PostEpochs, StartEpochs, CompleteEpochs,
       WaitEpochs, Running, MayAccess, Tracked
<1> QED
  BY <1>1, <1>2, <1>3 DEF LocalInv

(* MPI_Win_fence. *)
LEMMA Win_fenceLocal ==
    ASSUME ActiveType, LocalInv, NEW p \in Rank, Win_fence(p)
    PROVE  ActiveType' /\ LocalInv'
<1>1. ActiveType'
  BY Win_fenceEff DEF Win_fence, Calls, NextIs, Running, Accepted, ActiveType
<1>2. \A q \in Rank : q # p => Local(q)'
  <2>1. \A q \in Rank : q # p =>
           win'[q] = win[q] /\ call'[q] = call[q] /\ prog'[q] = prog[q] /\ coll'[q] = coll[q]
    <3>1. \A q \in Rank : q # p => win'[q] = win[q]
      BY Win_fenceEff
    <3>2. \A q \in Rank : q # p => call'[q] = call[q]
      BY Win_fenceEff
    <3>3. \A q \in Rank : q # p => prog'[q] = prog[q]
      BY Win_fenceEff
    <3>4. \A q \in Rank : q # p => coll'[q] = coll[q]
      BY Win_fenceEff
    <3> QED
      BY <3>1, <3>2, <3>3, <3>4
  <2> QED
    BY <2>1, LocalFrame DEF LocalInv
<1>3. Local(p)'
  <2>1. Local(p) /\ \A x \in Rank : win[p].puts[x] \in Nat
    BY WinFields DEF LocalInv
  <2> QED
    BY <2>1, Win_fenceEff DEF Local, InWait, InFence, Group, FenceEpochs, PostEpochs, StartEpochs, CompleteEpochs,
       WaitEpochs, Running, MayAccess, Tracked
<1> QED
  BY <1>1, <1>2, <1>3 DEF LocalInv

(* The reduce_scatter of fence. *)
LEMMA FenceReducedLocal ==
    ASSUME ActiveType, LocalInv, NEW p \in Rank, FenceReduced(p)
    PROVE  ActiveType' /\ LocalInv'
<1>1. ActiveType'
  BY FenceReducedEff DEF FenceReduced, ActiveType
<1>2. \A q \in Rank : q # p => Local(q)'
  <2>1. \A q \in Rank : q # p =>
           win'[q] = win[q] /\ call'[q] = call[q] /\ prog'[q] = prog[q] /\ coll'[q] = coll[q]
    <3>1. \A q \in Rank : q # p => win'[q] = win[q]
      BY FenceReducedEff
    <3>2. \A q \in Rank : q # p => call'[q] = call[q]
      BY FenceReducedEff
    <3>3. \A q \in Rank : q # p => prog'[q] = prog[q]
      BY FenceReducedEff
    <3>4. \A q \in Rank : q # p => coll'[q] = coll[q]
      BY FenceReducedEff
    <3> QED
      BY <3>1, <3>2, <3>3, <3>4
  <2> QED
    BY <2>1, LocalFrame DEF LocalInv
<1>3. Local(p)'
  <2>1. Local(p) /\ \A x \in Rank : win[p].puts[x] \in Nat
    BY WinFields DEF LocalInv
  <2> QED
    BY <2>1, FenceReducedEff DEF Local, InWait, InFence, Group, FenceEpochs, PostEpochs, StartEpochs, CompleteEpochs,
       WaitEpochs, Running, MayAccess, Tracked
<1> QED
  BY <1>1, <1>2, <1>3 DEF LocalInv

(* Fence returns. *)
LEMMA FenceDoneLocal ==
    ASSUME ActiveType, LocalInv, NEW p \in Rank, FenceDone(p)
    PROVE  ActiveType' /\ LocalInv'
<1>1. ActiveType'
  BY FenceDoneEff DEF FenceDone, Return, ActiveType
<1>2. \A q \in Rank : q # p => Local(q)'
  <2>1. \A q \in Rank : q # p =>
           win'[q] = win[q] /\ call'[q] = call[q] /\ prog'[q] = prog[q] /\ coll'[q] = coll[q]
    <3>1. \A q \in Rank : q # p => win'[q] = win[q]
      BY FenceDoneEff
    <3>2. \A q \in Rank : q # p => call'[q] = call[q]
      BY FenceDoneEff
    <3>3. \A q \in Rank : q # p => prog'[q] = prog[q]
      BY FenceDoneEff
    <3>4. \A q \in Rank : q # p => coll'[q] = coll[q]
      BY FenceDoneEff
    <3> QED
      BY <3>1, <3>2, <3>3, <3>4
  <2> QED
    BY <2>1, LocalFrame DEF LocalInv
<1>3. Local(p)'
  <2>1. Local(p) /\ \A x \in Rank : win[p].puts[x] \in Nat
    BY WinFields DEF LocalInv
  <2> QED
    BY <2>1, FenceDoneEff DEF Local, InWait, InFence, Group, FenceEpochs, PostEpochs, StartEpochs, CompleteEpochs,
       WaitEpochs, Running, MayAccess, Tracked
<1> QED
  BY <1>1, <1>2, <1>3 DEF LocalInv

(* A call in a wrong epoch. *)
LEMMA RefuseLocal ==
    ASSUME ActiveType, LocalInv, NEW p \in Rank, Refuse(p)
    PROVE  ActiveType' /\ LocalInv'
<1>1. ActiveType'
  BY RefuseEff DEF Refuse, Running, ActiveType
<1>2. \A q \in Rank : q # p => Local(q)'
  <2>1. \A q \in Rank : q # p =>
           win'[q] = win[q] /\ call'[q] = call[q] /\ prog'[q] = prog[q] /\ coll'[q] = coll[q]
    <3>1. \A q \in Rank : q # p => win'[q] = win[q]
      BY RefuseEff
    <3>2. \A q \in Rank : q # p => call'[q] = call[q]
      BY RefuseEff
    <3>3. \A q \in Rank : q # p => prog'[q] = prog[q]
      BY RefuseEff
    <3>4. \A q \in Rank : q # p => coll'[q] = coll[q]
      BY RefuseEff
    <3> QED
      BY <3>1, <3>2, <3>3, <3>4
  <2> QED
    BY <2>1, LocalFrame DEF LocalInv
<1>3. Local(p)'
  <2>1. Local(p) /\ \A x \in Rank : win[p].puts[x] \in Nat
    BY WinFields DEF LocalInv
  <2> QED
    BY <2>1, RefuseEff DEF Local, InWait, InFence, Group, FenceEpochs, PostEpochs, StartEpochs, CompleteEpochs,
       WaitEpochs, Running, MayAccess, Tracked
<1> QED
  BY <1>1, <1>2, <1>3 DEF LocalInv

(* Types and the state of single ranks, for any program. *)
THEOREM LocalHolds == Spec => [](ActiveType /\ LocalInv)
<1>1. Init => ActiveType /\ LocalInv
  <2> SUFFICES ASSUME Init PROVE ActiveType /\ LocalInv
    OBVIOUS
  <2>1. prog \in [Rank -> Seq(SyncCall)]
    BY ProgramAssumption DEF Init
  <2>2. 0 \in 0..MaxOps
    BY RankAssumption
  <2>3. win \in [Rank -> Window]
    BY <2>2 DEF Init, Window, Epochs
  <2>4. call \in [Rank -> Call]
    BY DEF Init, Idle, Call
  <2>5. comps \in [Rank -> [Rank -> Seq(0..MaxOps)]]
    BY DEF Init
  <2>6. coll \in [Rank -> Collective]
    BY DEF Init, Collective
  <2>7. ActiveType
    BY <2>1, <2>3, <2>4, <2>5, <2>6 DEF Init, ActiveType
  <2>8. LocalInv
    BY DEF Init, LocalInv, Local, InWait, InFence, Idle
  <2> QED
    BY <2>7, <2>8
<1>2. ActiveType /\ LocalInv /\ [Next]_vars => (ActiveType /\ LocalInv)'
  <2> SUFFICES ASSUME ActiveType, LocalInv, [Next]_vars PROVE ActiveType' /\ LocalInv'
    OBVIOUS
  <2>1. CASE UNCHANGED vars
    <3>1. ActiveType'
      BY <2>1 DEF vars, ActiveType
    <3>2. \A q \in Rank : win'[q] = win[q] /\ call'[q] = call[q] /\ prog'[q] = prog[q] /\ coll'[q] = coll[q]
      BY <2>1 DEF vars
    <3> QED
      BY <3>1, <3>2, LocalFrame DEF LocalInv
  <2>2. CASE Next
    <3>1. PICK p \in Rank : FenceStep(p) \/ AccessStep(p) \/ ExposureStep(p) \/ OpStep(p) \/ Refuse(p)
      BY <2>2 DEF Next
    <3>2. CASE FenceStep(p)
      BY <3>2, Win_fenceLocal, FenceReducedLocal, FenceWaitedLocal, FenceDoneLocal DEF FenceStep
    <3>3. CASE AccessStep(p)
      BY <3>3, Win_startLocal, RecvPostLocal, StartDoneLocal, Win_completeLocal, CompleteSendLocal DEF AccessStep
    <3>4. CASE ExposureStep(p)
      BY <3>4, Win_postLocal, EnterWaitLocal, RecvCompleteLocal, WaitedOpsLocal, WaitDoneLocal DEF ExposureStep
    <3>5. CASE OpStep(p)
      BY <3>5, OpDoneLocal, PutLocal, GetLocal, OpArrivesLocal DEF OpStep
    <3>6. CASE Refuse(p)
      BY <3>6, RefuseLocal
    <3> QED
      BY <3>1, <3>2, <3>3, <3>4, <3>5, <3>6
  <2> QED
    BY <2>1, <2>2
<1> QED
  BY <1>1, <1>2, PTL DEF Spec

-----------------------------------------------------------------------------
(* The collective calls of fence *)

FenceAt == {"reduce", "fence", "barrier"}

(* What the ranks contributed for t. *)
Contribs(t) == [p \in Rank |-> coll[p].contrib[t]]

(* The bits of a rank differ while it is between the entry of the              *)
(* reduce_scatter and that of the barrier.  Either no rank or every rank has    *)
(* entered a barrier that others have not; in the second case all ranks are in   *)
(* the same fence.  Nobody enters a reduce_scatter while others wait for what     *)
(* it has summed up.                                                          *)
FenceInv ==
    /\ \A p \in Rank : coll[p].red # coll[p].bar <=> InFence(p)
    /\ \/ \A p, q \in Rank : coll[p].bar = coll[q].bar
       \/ /\ \A p, q \in Rank : coll[p].red = coll[q].red
          /\ \A p \in Rank : coll[p].red = coll[p].bar => call[p].at = "barrier"
    /\ \A p, q \in Rank : call[p].at = "fence" => coll[q].red = coll[p].red
    /\ \A p \in Rank : call[p].at = "fence" => call[p].total = Total(Contribs(p))

(* The bits are Boolean. *)
LEMMA CollFields ==
    ASSUME ActiveType, NEW p \in Rank
    PROVE  coll[p].red \in BOOLEAN /\ coll[p].bar \in BOOLEAN /\ coll[p].contrib \in [Rank -> Nat]
BY DEF ActiveType, Collective

(* If a rank is not in fence, no barrier is half complete. *)
LEMMA BarsEqual ==
    ASSUME ActiveType, FenceInv, NEW p \in Rank, call[p].at \notin FenceAt
    PROVE  coll[p].red = coll[p].bar /\ \A q, x \in Rank : coll[q].bar = coll[x].bar
<1>1. coll[p].red = coll[p].bar
  BY CollFields DEF FenceInv, InFence, FenceAt
<1>2. call[p].at # "barrier"
  BY DEF FenceAt
<1> QED
  BY <1>1, <1>2 DEF FenceInv

(* A step of a rank that is not in fence. *)
OutsideFence ==
    /\ coll' = coll
    /\ \A q \in Rank : call'[q] = call[q] \/ (call[q].at \notin FenceAt /\ call'[q].at \notin FenceAt)

(* Such steps keep the invariant. *)
LEMMA OutsideFenceKeeps ==
    ASSUME ActiveType, FenceInv, OutsideFence
    PROVE  FenceInv'
<1>1. \A q \in Rank : InFence(q)' <=> InFence(q)
  BY DEF OutsideFence, InFence, FenceAt
<1>2. \A q \in Rank : call[q].at = "barrier" => call'[q].at = "barrier"
  BY DEF OutsideFence, FenceAt
<1>3. \A q \in Rank : call'[q].at = "fence" => call'[q] = call[q]
  BY DEF OutsideFence, FenceAt
<1>4. \A q \in Rank : Contribs(q)' = Contribs(q)
  BY DEF OutsideFence, Contribs
<1>5. coll' = coll
  BY DEF OutsideFence
<1>6. \A p \in Rank : coll'[p].red # coll'[p].bar <=> InFence(p)'
  BY <1>1, <1>5 DEF FenceInv
<1>7. \/ \A p, q \in Rank : coll'[p].bar = coll'[q].bar
      \/ /\ \A p, q \in Rank : coll'[p].red = coll'[q].red
         /\ \A p \in Rank : coll'[p].red = coll'[p].bar => call'[p].at = "barrier"
  BY <1>2, <1>5 DEF FenceInv
<1>8. \A p, q \in Rank : call'[p].at = "fence" => coll'[q].red = coll'[p].red
  BY <1>3, <1>5 DEF FenceInv
<1>9. \A p \in Rank : call'[p].at = "fence" => call'[p].total = Total(Contribs(p)')
  BY <1>3, <1>4 DEF FenceInv
<1> QED
  BY <1>6, <1>7, <1>8, <1>9 DEF FenceInv

(* A rank enters the reduce_scatter. *)
LEMMA Win_fenceFence ==
    ASSUME ActiveType, LocalInv, FenceInv, NEW p \in Rank, Win_fence(p)
    PROVE  FenceInv'
<1>1. call[p].at = "none" /\ call'[p].at = "reduce" /\ \A q \in Rank : q # p => call'[q] = call[q]
  BY Win_fenceEff DEF Running
<1>2. coll'[p].red = ~coll[p].red /\ coll'[p].bar = coll[p].bar /\ \A q \in Rank : q # p => coll'[q] = coll[q]
  BY Win_fenceEff
<1>3. coll[p].red = coll[p].bar /\ \A q, x \in Rank : coll[q].bar = coll[x].bar
  BY <1>1, BarsEqual DEF FenceAt
<1>4. \A q \in Rank : coll[q].red \in BOOLEAN /\ coll[q].bar \in BOOLEAN
  BY CollFields
<1>5. \A q \in Rank : call[q].at # "fence"
  <2> SUFFICES ASSUME NEW q \in Rank, call[q].at = "fence" PROVE FALSE
    OBVIOUS
  <2>1. coll[q].red # coll[q].bar /\ coll[p].red = coll[q].red
    BY DEF FenceInv, InFence
  <2> QED
    BY <1>3, <2>1
<1>6. \A q \in Rank : call'[q].at # "fence"
  BY <1>1, <1>5
<1>7. \A q, x \in Rank : coll'[q].bar = coll'[x].bar
  BY <1>2, <1>3
<1>8. \A q \in Rank : coll'[q].red # coll'[q].bar <=> InFence(q)'
  <2>1. coll'[p].red # coll'[p].bar /\ InFence(p)'
    BY <1>1, <1>2, <1>3, <1>4 DEF InFence
  <2>2. \A q \in Rank : q # p => (coll'[q].red # coll'[q].bar <=> InFence(q)')
    BY <1>1, <1>2 DEF InFence, FenceInv
  <2> QED
    BY <2>1, <2>2
<1> QED
  BY <1>6, <1>7, <1>8 DEF FenceInv

(* A rank has the sum. *)
LEMMA FenceReducedFence ==
    ASSUME ActiveType, LocalInv, FenceInv, NEW p \in Rank, FenceReduced(p)
    PROVE  FenceInv'
<1>1. call[p].at = "reduce" /\ call'[p].at = "fence" /\ call'[p].total = Sum(p)
  BY FenceReducedEff
<1>2. \A q \in Rank : q # p => call'[q] = call[q]
  BY FenceReducedEff
<1>3. coll' = coll /\ \A q \in Rank : coll[q].red = coll[p].red
  BY FenceReducedEff
<1>4. \A q \in Rank : InFence(q)' <=> InFence(q)
  BY <1>1, <1>2 DEF InFence
<1>5. \A q \in Rank : Contribs(q)' = Contribs(q)
  BY <1>3 DEF Contribs
<1>6. Sum(p) = Total(Contribs(p))
  BY SumIsTotal DEF ActiveType, Contribs
<1>7. \A q \in Rank : call'[q].at = "fence" => call'[q].total = Total(Contribs(q)')
  BY <1>1, <1>2, <1>5, <1>6 DEF FenceInv
<1>8. \A q \in Rank : coll'[q].red # coll'[q].bar <=> InFence(q)'
  BY <1>3, <1>4 DEF FenceInv
<1>9. \/ \A q, x \in Rank : coll'[q].bar = coll'[x].bar
      \/ /\ \A q, x \in Rank : coll'[q].red = coll'[x].red
         /\ \A q \in Rank : coll'[q].red = coll'[q].bar => call'[q].at = "barrier"
  <2>1. CASE \A q, x \in Rank : coll[q].bar = coll[x].bar
    BY <1>3, <2>1
  <2>2. CASE \A q \in Rank : coll[q].red = coll[q].bar => call[q].at = "barrier"
    <3>1. \A q \in Rank : coll'[q].red = coll'[q].bar => call'[q].at = "barrier"
      BY <1>1, <1>2, <1>3, <2>2 DEF FenceInv, InFence
    <3> QED
      BY <1>3, <3>1
  <2> QED
    BY <2>1, <2>2 DEF FenceInv
<1>10. \A q, x \in Rank : call'[q].at = "fence" => coll'[x].red = coll'[q].red
  BY <1>3
<1> QED
  BY <1>7, <1>8, <1>9, <1>10 DEF FenceInv

(* A rank enters the barrier. *)
LEMMA FenceWaitedFence ==
    ASSUME ActiveType, LocalInv, FenceInv, NEW p \in Rank, FenceWaited(p)
    PROVE  FenceInv'
<1>1. call[p].at = "fence" /\ call'[p].at = "barrier"
  BY FenceWaitedEff
<1>2. \A q \in Rank : q # p => call'[q] = call[q]
  BY FenceWaitedEff
<1>3. coll'[p].red = coll[p].red /\ coll'[p].bar = ~coll[p].bar /\ coll'[p].contrib = coll[p].contrib
  BY FenceWaitedEff
<1>4. \A q \in Rank : q # p => coll'[q] = coll[q]
  BY FenceWaitedEff
<1>5. \A q \in Rank : coll[q].red \in BOOLEAN /\ coll[q].bar \in BOOLEAN
  BY CollFields
<1>6. coll[p].red # coll[p].bar /\ \A q \in Rank : coll[q].red = coll[p].red
  BY <1>1 DEF FenceInv, InFence
<1>7. coll'[p].red = coll'[p].bar
  BY <1>3, <1>5, <1>6
<1>8. \A q \in Rank : coll'[q].red # coll'[q].bar <=> InFence(q)'
  <2>1. \A q \in Rank : q # p => (coll'[q].red # coll'[q].bar <=> InFence(q)')
    BY <1>2, <1>4 DEF InFence, FenceInv
  <2>2. ~InFence(p)'
    BY <1>1 DEF InFence
  <2> QED
    BY <1>7, <2>1, <2>2
<1>9. \A q, x \in Rank : coll'[q].red = coll'[x].red
  BY <1>3, <1>4, <1>6
<1>10. \A q \in Rank : coll'[q].red = coll'[q].bar => call'[q].at = "barrier"
  <2> SUFFICES ASSUME NEW q \in Rank, q # p, coll[q].red = coll[q].bar PROVE call[q].at = "barrier"
    BY <1>1, <1>2, <1>4
  <2>1. coll[q].bar # coll[p].bar
    BY <1>6
  <2> QED
    BY <2>1 DEF FenceInv
<1>11. \A q \in Rank : Contribs(q)' = Contribs(q)
  <2>1. \A x \in Rank : coll'[x].contrib = coll[x].contrib
    BY <1>3, <1>4
  <2> QED
    BY <2>1 DEF Contribs
<1>12. \A q \in Rank : call'[q].at = "fence" => call'[q].total = Total(Contribs(q)')
  BY <1>1, <1>2, <1>11 DEF FenceInv
<1> QED
  BY <1>8, <1>9, <1>10, <1>12 DEF FenceInv

(* A rank leaves fence. *)
LEMMA FenceDoneFence ==
    ASSUME ActiveType, LocalInv, FenceInv, NEW p \in Rank, FenceDone(p)
    PROVE  FenceInv'
<1>1. call[p].at = "barrier" /\ call'[p].at = "none"
  BY FenceDoneEff
<1>2. \A q \in Rank : q # p => call'[q] = call[q]
  BY FenceDoneEff
<1>3. coll' = coll /\ \A q \in Rank : coll[q].bar = coll[p].bar
  BY FenceDoneEff
<1>4. \A q \in Rank : InFence(q)' <=> InFence(q)
  BY <1>1, <1>2 DEF InFence
<1>5. \A q \in Rank : coll'[q].red # coll'[q].bar <=> InFence(q)'
  BY <1>3, <1>4 DEF FenceInv
<1>6. \A q, x \in Rank : coll'[q].bar = coll'[x].bar
  BY <1>3
<1>7. \A q, x \in Rank : call'[q].at = "fence" => coll'[x].red = coll'[q].red
  BY <1>1, <1>2, <1>3 DEF FenceInv
<1>8. \A q \in Rank : Contribs(q)' = Contribs(q)
  BY <1>3 DEF Contribs
<1>9. \A q \in Rank : call'[q].at = "fence" => call'[q].total = Total(Contribs(q)')
  BY <1>1, <1>2, <1>8 DEF FenceInv
<1> QED
  BY <1>5, <1>6, <1>7, <1>9 DEF FenceInv

(* The other steps are taken outside of fence. *)
LEMMA OtherSteps ==
    ASSUME ActiveType, LocalInv, NEW p \in Rank,
           AccessStep(p) \/ ExposureStep(p) \/ OpStep(p) \/ Refuse(p)
    PROVE  OutsideFence
<1>1. CASE OpStep(p)
  <2>1. OpDone(p) \/ \E t \in Rank : Put(p, t) \/ Get(p, t) \/ OpArrives(p, t)
    BY <1>1 DEF OpStep
  <2>2. call' = call /\ coll' = coll
    BY <2>1 DEF OpDone, Put, Get, OpArrives
  <2> QED
    BY <2>2 DEF OutsideFence
<1>2. CASE Refuse(p)
  BY <1>2 DEF Refuse, OutsideFence
<1>3. CASE AccessStep(p)
  <2>1. CASE Win_start(p)
    BY <2>1, Win_startEff DEF OutsideFence, Running, FenceAt
  <2>2. CASE RecvPost(p)
    BY <2>2, RecvPostEff DEF OutsideFence, FenceAt
  <2>3. CASE StartDone(p)
    BY <2>3, StartDoneEff DEF OutsideFence, FenceAt
  <2>4. CASE Win_complete(p)
    BY <2>4, Win_completeEff DEF OutsideFence, Running, FenceAt
  <2>5. CASE CompleteSend(p)
    BY <2>5, CompleteSendEff DEF OutsideFence, FenceAt
  <2> QED
    BY <1>3, <2>1, <2>2, <2>3, <2>4, <2>5 DEF AccessStep
<1>4. CASE ExposureStep(p)
  <2>1. CASE Win_post(p)
    BY <2>1, Win_postEff DEF OutsideFence, Running, FenceAt
  <2>2. CASE Win_wait(p) \/ Win_test(p)
    BY <2>2, EnterWaitEff DEF OutsideFence, Running, FenceAt
  <2>3. CASE RecvComplete(p)
    BY <2>3, RecvCompleteEff DEF OutsideFence, FenceAt
  <2>4. CASE WaitedOps(p)
    BY <2>4, WaitedOpsEff DEF OutsideFence, FenceAt
  <2>5. CASE WaitDone(p)
    BY <2>5, WaitDoneEff DEF OutsideFence, FenceAt
  <2> QED
    BY <1>4, <2>1, <2>2, <2>3, <2>4, <2>5 DEF ExposureStep
<1> QED
  BY <1>1, <1>2, <1>3, <1>4

(* The collective calls keep in step. *)
LEMMA FenceHolds == Spec => []FenceInv
<1>1. Init => FenceInv
  <2> SUFFICES ASSUME Init PROVE FenceInv
    OBVIOUS
  <2>1. \A p \in Rank : coll[p].red = FALSE /\ coll[p].bar = FALSE /\ call[p].at = "none"
    BY DEF Init, Idle
  <2> QED
    BY <2>1 DEF FenceInv, InFence
<1>2. ActiveType /\ LocalInv /\ FenceInv /\ [Next]_vars => FenceInv'
  <2> SUFFICES ASSUME ActiveType, LocalInv, FenceInv, [Next]_vars PROVE FenceInv'
    OBVIOUS
  <2>1. CASE UNCHANGED vars
    BY <2>1, OutsideFenceKeeps DEF vars, OutsideFence
  <2>2. CASE Next
    <3>1. PICK p \in Rank : FenceStep(p) \/ AccessStep(p) \/ ExposureStep(p) \/ OpStep(p) \/ Refuse(p)
      BY <2>2 DEF Next
    <3>2. CASE FenceStep(p)
      BY <3>2, Win_fenceFence, FenceReducedFence, FenceWaitedFence, FenceDoneFence DEF FenceStep
    <3>3. CASE AccessStep(p) \/ ExposureStep(p) \/ OpStep(p) \/ Refuse(p)
      BY <3>3, OtherSteps, OutsideFenceKeeps
    <3> QED
      BY <3>1, <3>2, <3>3
  <2> QED
    BY <2>1, <2>2
<1> QED
  BY <1>1, <1>2, LocalHolds, PTL DEF Spec

-----------------------------------------------------------------------------
(* POST and COMPLETE *)

(* p has the POST of t and has not sent COMPLETE; t has the COMPLETE of p and   *)
(* waits for its operations; t has posted for p and has not got its COMPLETE.    *)
Held(p, t) ==
    t \in win[p].start \/ (call[p].at = "start" /\ t \in Group(p) /\ t \notin call[p].todo)
Reported(p, t) == call[t].at = "waitOps" /\ First(t, p)
Due(p, t) ==
    /\ p \in win[t].post
    /\ InWait(t) => p \in call[t].todo
    /\ ~Reported(p, t)

Num(b) == IF b THEN 1 ELSE 0

(* While t has an exposure epoch for p that p has not ended, there is one token: *)
(* the POST message, the access epoch of p, or the COMPLETE message.  Otherwise   *)
(* there is none.                                                              *)
Token(p, t) == posts[t][p] + Num(Held(p, t)) + Len(comps[p][t]) = Num(Due(p, t))
TokenInv == \A p, t \in Rank : Token(p, t)

(* The messages of a pair. *)
LEMMA TokenTypes ==
    ASSUME ActiveType, NEW p \in Rank, NEW t \in Rank
    PROVE  /\ posts[t][p] \in Nat /\ comps[p][t] \in Seq(0..MaxOps) /\ Len(comps[p][t]) \in Nat
           /\ (Len(comps[p][t]) = 0 <=> comps[p][t] = <<>>)
<1>1. comps[p][t] \in Seq(0..MaxOps)
  BY DEF ActiveType
<1>2. Len(comps[p][t]) \in Nat /\ (Len(comps[p][t]) = 0 <=> comps[p][t] = <<>>)
  BY <1>1
<1> QED
  BY <1>1, <1>2 DEF ActiveType

(* What the invariant says of a pair. *)
LEMMA TokenCases ==
    ASSUME ActiveType, NEW p \in Rank, NEW t \in Rank, Token(p, t)
    PROVE  /\ posts[t][p] \in {0, 1} /\ Len(comps[p][t]) \in {0, 1}
           /\ posts[t][p] > 0 => Due(p, t) /\ ~Held(p, t) /\ comps[p][t] = <<>>
           /\ Held(p, t) => Due(p, t) /\ posts[t][p] = 0 /\ comps[p][t] = <<>>
           /\ comps[p][t] # <<>> => Due(p, t) /\ ~Held(p, t) /\ posts[t][p] = 0
           /\ ~Due(p, t) => posts[t][p] = 0 /\ ~Held(p, t) /\ comps[p][t] = <<>>
<1>1. /\ posts[t][p] \in Nat /\ Len(comps[p][t]) \in Nat
      /\ (Len(comps[p][t]) = 0 <=> comps[p][t] = <<>>)
  BY TokenTypes
<1>2. posts[t][p] + Num(Held(p, t)) + Len(comps[p][t]) = Num(Due(p, t))
  BY DEF Token
<1>3. CASE Due(p, t) /\ Held(p, t)
  BY <1>1, <1>2, <1>3 DEF Num
<1>4. CASE Due(p, t) /\ ~Held(p, t)
  <2>1. posts[t][p] + 0 + Len(comps[p][t]) = 1
    BY <1>2, <1>4 DEF Num
  <2>2. PICK m \in Nat : m = posts[t][p]
    BY <1>1
  <2>3. PICK n \in Nat : n = Len(comps[p][t])
    BY <1>1
  <2>4. m + 0 + n = 1
    BY <2>1, <2>2, <2>3
  <2>5. (m = 0 /\ n = 1) \/ (m = 1 /\ n = 0)
    BY ONLY m \in Nat, n \in Nat, <2>4
  <2> QED
    BY <1>1, <1>4, <2>2, <2>3, <2>5
<1>5. CASE ~Due(p, t) /\ Held(p, t)
  BY <1>1, <1>2, <1>5 DEF Num
<1>6. CASE ~Due(p, t) /\ ~Held(p, t)
  BY <1>1, <1>2, <1>6 DEF Num
<1> QED
  BY <1>3, <1>4, <1>5, <1>6

(* A pair that a step leaves alone. *)
LEMMA TokenFrame ==
    ASSUME NEW p \in Rank, NEW t \in Rank, Token(p, t), posts'[t][p] = posts[t][p],
           comps'[p][t] = comps[p][t], Held(p, t)' <=> Held(p, t), Due(p, t)' <=> Due(p, t)
    PROVE  Token(p, t)'
BY DEF Token, Num

(* The access epoch of p. *)
LEMMA HeldFrame ==
    ASSUME NEW p \in Rank, NEW t \in Rank, win'[p].start = win[p].start,
           \/ call'[p] = call[p] /\ prog'[p] = prog[p]
           \/ call[p].at # "start" /\ call'[p].at # "start"
    PROVE  Held(p, t)' <=> Held(p, t)
BY DEF Held, Group

(* The exposure epoch of t. *)
LEMMA DueFrame ==
    ASSUME NEW p \in Rank, NEW t \in Rank, win'[t].post = win[t].post,
           \/ call'[t] = call[t]
           \/ call[t].at \notin {"wait", "waitOps"} /\ call'[t].at \notin {"wait", "waitOps"}
    PROVE  (Due(p, t)' <=> Due(p, t)) /\ (Reported(p, t)' <=> Reported(p, t))
BY DEF Due, Reported, InWait, First

(* Steps that leave POST, COMPLETE and their groups alone. *)
TokensKept ==
    /\ posts' = posts /\ comps' = comps
    /\ \A q \in Rank : win'[q].start = win[q].start /\ win'[q].post = win[q].post
    /\ \A q \in Rank :
          \/ call'[q] = call[q] /\ (call[q].at # "none" => prog'[q] = prog[q])
          \/ call[q].at \notin {"start", "wait", "waitOps"} /\ call'[q].at \notin {"start", "wait", "waitOps"}

(* They leave every pair where it is. *)
LEMMA TokensKeptPairs ==
    ASSUME TokensKept, NEW p \in Rank, NEW t \in Rank
    PROVE  /\ Held(p, t)' <=> Held(p, t)
           /\ Due(p, t)' <=> Due(p, t)
           /\ Reported(p, t)' <=> Reported(p, t)
<1>1. \/ call'[p] = call[p] /\ prog'[p] = prog[p]
      \/ call[p].at # "start" /\ call'[p].at # "start"
  BY DEF TokensKept
<1>2. \/ call'[t] = call[t]
      \/ call[t].at \notin {"wait", "waitOps"} /\ call'[t].at \notin {"wait", "waitOps"}
  BY DEF TokensKept
<1>3. win'[p].start = win[p].start /\ win'[t].post = win[t].post
  BY DEF TokensKept
<1> QED
  BY <1>1, <1>2, <1>3, HeldFrame, DueFrame

(* They keep the invariant. *)
LEMMA TokensKeptKeeps ==
    ASSUME TokenInv, TokensKept
    PROVE  TokenInv'
<1> SUFFICES ASSUME NEW p \in Rank, NEW t \in Rank PROVE Token(p, t)'
  BY DEF TokenInv
<1>1. posts'[t][p] = posts[t][p] /\ comps'[p][t] = comps[p][t] /\ Token(p, t)
  BY DEF TokensKept, TokenInv
<1> QED
  BY <1>1, TokensKeptPairs, TokenFrame

(* Operations, fence, refused calls and the entry of complete. *)
LEMMA KeptByOthers ==
    ASSUME ActiveType, LocalInv, NEW p \in Rank,
           FenceStep(p) \/ OpStep(p) \/ Refuse(p) \/ Win_complete(p)
    PROVE  TokensKept
<1>1. CASE OpStep(p)
  <2>1. call' = call /\ prog' = prog /\ posts' = posts /\ comps' = comps
    BY <1>1 DEF OpStep, OpDone, Put, Get, OpArrives
  <2>2. \A q \in Rank : win'[q].start = win[q].start /\ win'[q].post = win[q].post
    <3>1. CASE OpDone(p)
      BY <3>1, OpDoneEff
    <3>2. ASSUME NEW t \in Rank, Put(p, t) PROVE \A q \in Rank : win'[q].start = win[q].start /\ win'[q].post = win[q].post
      BY <3>2, PutEff
    <3>3. ASSUME NEW t \in Rank, Get(p, t) PROVE \A q \in Rank : win'[q].start = win[q].start /\ win'[q].post = win[q].post
      BY <3>3, GetEff
    <3>4. ASSUME NEW t \in Rank, OpArrives(p, t) PROVE \A q \in Rank : win'[q].start = win[q].start /\ win'[q].post = win[q].post
      BY <3>4, OpArrivesEff
    <3> QED
      BY <1>1, <3>1, <3>2, <3>3, <3>4 DEF OpStep
  <2> QED
    BY <2>1, <2>2 DEF TokensKept
<1>2. CASE Refuse(p)
  <2>1. call[p].at = "none" /\ call' = call /\ win' = win /\ posts' = posts /\ comps' = comps
    BY <1>2 DEF Refuse, Running
  <2>2. \A q \in Rank : q # p => prog'[q] = prog[q]
    BY <1>2, RefuseEff
  <2> QED
    BY <2>1, <2>2 DEF TokensKept
<1>3. CASE Win_complete(p)
  BY <1>3, Win_completeEff DEF TokensKept, Running
<1>4. CASE FenceStep(p)
  <2>1. CASE Win_fence(p)
    BY <2>1, Win_fenceEff DEF TokensKept, Running
  <2>2. CASE FenceReduced(p)
    BY <2>2, FenceReducedEff DEF TokensKept
  <2>3. CASE FenceWaited(p)
    BY <2>3, FenceWaitedEff DEF TokensKept
  <2>4. CASE FenceDone(p)
    BY <2>4, FenceDoneEff DEF TokensKept
  <2> QED
    BY <1>4, <2>1, <2>2, <2>3, <2>4 DEF FenceStep
<1> QED
  BY <1>1, <1>2, <1>3, <1>4

(* The rank a call deals with is one. *)
LEMMA FirstUnique ==
    ASSUME ActiveType, NEW p \in Rank, NEW t \in Rank, NEW x \in Rank, First(p, t), First(p, x)
    PROVE  t = x
<1>1. t <= x /\ x <= t
  BY DEF First
<1> QED
  BY <1>1, RankFacts

(* Post: a token for each rank of the group. *)
LEMMA Win_postPairs ==
    ASSUME ActiveType, LocalInv, NEW p \in Rank, Win_post(p), NEW a \in Rank, NEW b \in Rank
    PROVE  /\ Held(a, b)' <=> Held(a, b)
           /\ Reported(a, b)' <=> Reported(a, b)
           /\ ~Due(a, p)
           /\ Due(a, b)' <=> Due(a, b) \/ (b = p /\ a \in Group(p))
<1>1. call[p].at = "none" /\ call'[p].at = "none" /\ \A q \in Rank : q # p => call'[q] = call[q]
  BY Win_postEff DEF Running
<1>2. win'[p].start = win[p].start /\ win'[p].post = Group(p) /\ win[p].epoch \in PostEpochs
  BY Win_postEff
<1>3. \A q \in Rank : q # p => win'[q] = win[q]
  BY Win_postEff
<1>4. \A q \in Rank : q # p => prog'[q] = prog[q]
  BY Win_postEff
<1>5. win[p].post = {}
  BY <1>1, <1>2 DEF LocalInv, Local, PostEpochs, InWait
<1>6. Held(a, b)' <=> Held(a, b)
  <2>1. CASE a = p
    BY <1>1, <1>2, <2>1, HeldFrame
  <2>2. CASE a # p
    BY <1>1, <1>3, <1>4, <2>2, HeldFrame
  <2> QED
    BY <2>1, <2>2
<1>7. CASE b = p
  BY <1>1, <1>2, <1>5, <1>6, <1>7 DEF Due, Reported, InWait
<1>8. CASE b # p
  <2>1. (Due(a, b)' <=> Due(a, b)) /\ (Reported(a, b)' <=> Reported(a, b))
    BY <1>1, <1>3, <1>8, DueFrame
  <2>2. ~Due(a, p)
    BY <1>5 DEF Due
  <2> QED
    BY <1>6, <1>8, <2>1, <2>2
<1> QED
  BY <1>7, <1>8

(* Start: nobody has been heard of. *)
LEMMA Win_startPairs ==
    ASSUME ActiveType, LocalInv, NEW p \in Rank, Win_start(p), NEW a \in Rank, NEW b \in Rank
    PROVE  /\ Held(a, b)' <=> Held(a, b)
           /\ Reported(a, b)' <=> Reported(a, b)
           /\ Due(a, b)' <=> Due(a, b)
<1>1. call[p].at = "none" /\ call'[p].at = "start" /\ call'[p].todo = Group(p)
  BY Win_startEff DEF Running
<1>2. \A q \in Rank : q # p => call'[q] = call[q]
  BY Win_startEff
<1>3. win'[p].start = win[p].start /\ win'[p].post = win[p].post /\ win[p].epoch \in StartEpochs /\ prog' = prog
  BY Win_startEff
<1>4. \A q \in Rank : q # p => win'[q] = win[q]
  BY Win_startEff
<1>5. win[p].start = {}
  BY <1>1, <1>3 DEF LocalInv, Local, StartEpochs
<1>6. Held(a, b)' <=> Held(a, b)
  <2>1. CASE a = p
    BY <1>1, <1>3, <1>5, <2>1 DEF Held, Group
  <2>2. CASE a # p
    BY <1>2, <1>3, <1>4, <2>2, HeldFrame
  <2> QED
    BY <2>1, <2>2
<1>7. win'[b].post = win[b].post
  BY <1>3, <1>4
<1>8. \/ call'[b] = call[b]
      \/ call[b].at \notin {"wait", "waitOps"} /\ call'[b].at \notin {"wait", "waitOps"}
  BY <1>1, <1>2
<1> QED
  BY <1>6, <1>7, <1>8, DueFrame

(* A POST is received. *)
LEMMA RecvPostPairs ==
    ASSUME ActiveType, LocalInv, NEW p \in Rank, NEW t \in Rank, call[p].at = "start", First(p, t),
           call'[p].at = call[p].at, call'[p].todo = call[p].todo \ {t},
           \A q \in Rank : q # p => call'[q] = call[q], win' = win, prog' = prog,
           NEW a \in Rank, NEW b \in Rank
    PROVE  /\ ~Held(p, t)
           /\ Held(a, b)' <=> Held(a, b) \/ (a = p /\ b = t)
           /\ Reported(a, b)' <=> Reported(a, b)
           /\ Due(a, b)' <=> Due(a, b)
<1>1. win[p].start = {} /\ t \in Group(p) /\ t \in call[p].todo
  BY DEF LocalInv, Local, First
<1>2. ~Held(p, t)
  BY <1>1 DEF Held
<1>3. Held(a, b)' <=> Held(a, b) \/ (a = p /\ b = t)
  <2>1. CASE a = p
    BY <1>1, <2>1 DEF Held, Group
  <2>2. CASE a # p
    BY <2>2, HeldFrame
  <2> QED
    BY <2>1, <2>2
<1>4. \/ call'[b] = call[b]
      \/ call[b].at \notin {"wait", "waitOps"} /\ call'[b].at \notin {"wait", "waitOps"}
  OBVIOUS
<1> QED
  BY <1>2, <1>3, <1>4, DueFrame

(* Start returns. *)
LEMMA StartDonePairs ==
    ASSUME ActiveType, LocalInv, NEW p \in Rank, StartDone(p), NEW a \in Rank, NEW b \in Rank
    PROVE  /\ Held(a, b)' <=> Held(a, b)
           /\ Reported(a, b)' <=> Reported(a, b)
           /\ Due(a, b)' <=> Due(a, b)
<1>1. call[p].at = "start" /\ call'[p].at = "none" /\ call[p].todo = {}
  BY StartDoneEff
<1>2. \A q \in Rank : q # p => call'[q] = call[q]
  BY StartDoneEff
<1>3. win'[p].start = Group(p) /\ win'[p].post = win[p].post
  BY StartDoneEff
<1>4. \A q \in Rank : q # p => win'[q] = win[q]
  BY StartDoneEff
<1>5. \A q \in Rank : q # p => prog'[q] = prog[q]
  BY StartDoneEff
<1>6. win[p].start = {}
  BY <1>1 DEF LocalInv, Local
<1>7. Held(a, b)' <=> Held(a, b)
  <2>1. CASE a = p
    BY <1>1, <1>3, <1>6, <2>1 DEF Held
  <2>2. CASE a # p
    BY <1>2, <1>4, <1>5, <2>2, HeldFrame
  <2> QED
    BY <2>1, <2>2
<1>8. win'[b].post = win[b].post
  BY <1>3, <1>4
<1>9. \/ call'[b] = call[b]
      \/ call[b].at \notin {"wait", "waitOps"} /\ call'[b].at \notin {"wait", "waitOps"}
  BY <1>1, <1>2
<1> QED
  BY <1>7, <1>8, <1>9, DueFrame

(* Complete sends its messages. *)
LEMMA CompleteSendPairs ==
    ASSUME ActiveType, LocalInv, NEW p \in Rank, CompleteSend(p), NEW a \in Rank, NEW b \in Rank
    PROVE  /\ Held(p, b) <=> b \in win[p].start
           /\ Held(a, b)' <=> Held(a, b) /\ a # p
           /\ Reported(a, b)' <=> Reported(a, b)
           /\ Due(a, b)' <=> Due(a, b)
<1>1. call[p].at = "complete" /\ call'[p].at = "none"
  BY CompleteSendEff
<1>2. \A q \in Rank : q # p => call'[q] = call[q]
  BY CompleteSendEff
<1>3. win'[p].start = {} /\ win'[p].post = win[p].post
  BY CompleteSendEff
<1>4. \A q \in Rank : q # p => win'[q] = win[q]
  BY CompleteSendEff
<1>5. \A q \in Rank : q # p => prog'[q] = prog[q]
  BY CompleteSendEff
<1>6. Held(p, b) <=> b \in win[p].start
  BY <1>1 DEF Held
<1>7. Held(a, b)' <=> Held(a, b) /\ a # p
  <2>1. CASE a = p
    BY <1>1, <1>3, <2>1 DEF Held
  <2>2. CASE a # p
    BY <1>2, <1>4, <1>5, <2>2, HeldFrame
  <2> QED
    BY <2>1, <2>2
<1>8. win'[b].post = win[b].post
  BY <1>3, <1>4
<1>9. \/ call'[b] = call[b]
      \/ call[b].at \notin {"wait", "waitOps"} /\ call'[b].at \notin {"wait", "waitOps"}
  BY <1>1, <1>2
<1> QED
  BY <1>6, <1>7, <1>8, <1>9, DueFrame

(* Wait begins. *)
LEMMA EnterWaitPairs ==
    ASSUME ActiveType, LocalInv, NEW p \in Rank, Win_wait(p) \/ Win_test(p), NEW a \in Rank, NEW b \in Rank
    PROVE  /\ Held(a, b)' <=> Held(a, b)
           /\ Reported(a, b)' <=> Reported(a, b)
           /\ Due(a, b)' <=> Due(a, b)
<1>1. call[p].at = "none" /\ call'[p].at = "wait" /\ call'[p].todo = win[p].post
  BY EnterWaitEff DEF Running
<1>2. \A q \in Rank : q # p => call'[q] = call[q]
  BY EnterWaitEff
<1>3. win'[p].start = win[p].start /\ win'[p].post = win[p].post /\ prog' = prog
  BY EnterWaitEff
<1>4. \A q \in Rank : q # p => win'[q] = win[q]
  BY EnterWaitEff
<1>5. Held(a, b)' <=> Held(a, b)
  <2>1. win'[a].start = win[a].start
    BY <1>3, <1>4
  <2>2. \/ call'[a] = call[a] /\ prog'[a] = prog[a]
        \/ call[a].at # "start" /\ call'[a].at # "start"
    BY <1>1, <1>2, <1>3
  <2> QED
    BY <2>1, <2>2, HeldFrame
<1>6. CASE b = p
  BY <1>1, <1>3, <1>5, <1>6 DEF Due, Reported, InWait
<1>7. CASE b # p
  BY <1>2, <1>4, <1>5, <1>7, DueFrame
<1> QED
  BY <1>6, <1>7

(* A COMPLETE is received. *)
LEMMA RecvCompletePairs ==
    ASSUME ActiveType, LocalInv, NEW p \in Rank, NEW t \in Rank, call[p].at = "wait", First(p, t),
           call'[p].at = "waitOps", call'[p].todo = call[p].todo,
           \A q \in Rank : q # p => call'[q] = call[q], prog' = prog,
           \A q \in Rank : win'[q].start = win[q].start /\ win'[q].post = win[q].post,
           NEW a \in Rank, NEW b \in Rank
    PROVE  /\ Due(t, p)
           /\ Held(a, b)' <=> Held(a, b)
           /\ Reported(a, b)' <=> Reported(a, b) \/ (a = t /\ b = p)
           /\ Due(a, b)' <=> Due(a, b) /\ ~(a = t /\ b = p)
<1>1. t \in win[p].post /\ t \in call[p].todo
  BY DEF LocalInv, Local, First, InWait
<1>2. Due(t, p)
  BY <1>1 DEF Due, Reported, InWait
<1>3. Held(a, b)' <=> Held(a, b)
  <2>1. \/ call'[a] = call[a] /\ prog'[a] = prog[a]
        \/ call[a].at # "start" /\ call'[a].at # "start"
    OBVIOUS
  <2> QED
    BY <2>1, HeldFrame
<1>4. CASE b = p
  <2>1. First(p, a)' <=> First(p, a)
    BY DEF First
  <2>2. First(p, a) <=> a = t
    BY FirstUnique
  <2> QED
    BY <1>2, <1>3, <1>4, <2>1, <2>2 DEF Due, Reported, InWait
<1>5. CASE b # p
  BY <1>2, <1>3, <1>5, DueFrame
<1> QED
  BY <1>4, <1>5

(* The operations of a rank have arrived. *)
LEMMA WaitedOpsPairs ==
    ASSUME ActiveType, LocalInv, NEW p \in Rank, NEW t \in Rank, call[p].at = "waitOps", First(p, t),
           call'[p].at = "wait", call'[p].todo = call[p].todo \ {t},
           \A q \in Rank : q # p => call'[q] = call[q], prog' = prog, win' = win,
           NEW a \in Rank, NEW b \in Rank
    PROVE  /\ Reported(t, p)
           /\ Held(a, b)' <=> Held(a, b)
           /\ Reported(a, b)' <=> Reported(a, b) /\ ~(a = t /\ b = p)
           /\ Due(a, b)' <=> Due(a, b)
<1>1. Reported(t, p)
  BY DEF Reported
<1>2. Held(a, b)' <=> Held(a, b)
  <2>1. \/ call'[a] = call[a] /\ prog'[a] = prog[a]
        \/ call[a].at # "start" /\ call'[a].at # "start"
    OBVIOUS
  <2> QED
    BY <2>1, HeldFrame
<1>3. CASE b = p
  <2>1. First(p, a) <=> a = t
    BY FirstUnique
  <2>2. t \in call[p].todo
    BY DEF First
  <2> QED
    BY <1>1, <1>2, <1>3, <2>1, <2>2 DEF Due, Reported, InWait
<1>4. CASE b # p
  BY <1>1, <1>2, <1>4, DueFrame
<1> QED
  BY <1>3, <1>4

(* Wait returns. *)
LEMMA WaitDonePairs ==
    ASSUME ActiveType, LocalInv, NEW p \in Rank, WaitDone(p), NEW a \in Rank, NEW b \in Rank
    PROVE  /\ ~Due(a, p) /\ ~Reported(a, p)
           /\ Held(a, b)' <=> Held(a, b)
           /\ Reported(a, b)' <=> Reported(a, b)
           /\ Due(a, b)' <=> Due(a, b)
<1>1. call[p].at = "wait" /\ call'[p].at = "none" /\ call[p].todo = {}
  BY WaitDoneEff
<1>2. \A q \in Rank : q # p => call'[q] = call[q]
  BY WaitDoneEff
<1>3. win'[p].start = win[p].start /\ win'[p].post = {}
  BY WaitDoneEff
<1>4. \A q \in Rank : q # p => win'[q] = win[q]
  BY WaitDoneEff
<1>5. \A q \in Rank : q # p => prog'[q] = prog[q]
  BY WaitDoneEff
<1>6. ~Due(a, p) /\ ~Reported(a, p)
  BY <1>1 DEF Due, Reported, InWait
<1>7. Held(a, b)' <=> Held(a, b)
  <2>1. win'[a].start = win[a].start
    BY <1>3, <1>4
  <2>2. \/ call'[a] = call[a] /\ prog'[a] = prog[a]
        \/ call[a].at # "start" /\ call'[a].at # "start"
    BY <1>1, <1>2, <1>5
  <2> QED
    BY <2>1, <2>2, HeldFrame
<1>8. CASE b = p
  BY <1>1, <1>3, <1>6, <1>7, <1>8 DEF Due, Reported, InWait
<1>9. CASE b # p
  BY <1>2, <1>4, <1>6, <1>7, <1>9, DueFrame
<1> QED
  BY <1>8, <1>9

(* Steps that move tokens. *)
LEMMA TokenMoves ==
    ASSUME ActiveType, LocalInv, TokenInv, NEW p \in Rank, AccessStep(p) \/ ExposureStep(p)
    PROVE  TokenInv'
<1> SUFFICES ASSUME NEW a \in Rank, NEW b \in Rank PROVE Token(a, b)'
  BY DEF TokenInv
<1>0. /\ posts[b][a] \in Nat /\ comps[a][b] \in Seq(0..MaxOps) /\ Len(comps[a][b]) \in Nat
      /\ (Len(comps[a][b]) = 0 <=> comps[a][b] = <<>>)
  BY TokenTypes
<1>t. Token(a, b)
  BY DEF TokenInv
<1>c. /\ posts[b][a] > 0 => Due(a, b) /\ ~Held(a, b) /\ comps[a][b] = <<>>
      /\ Held(a, b) => Due(a, b) /\ posts[b][a] = 0 /\ comps[a][b] = <<>>
      /\ comps[a][b] # <<>> => Due(a, b) /\ ~Held(a, b) /\ posts[b][a] = 0
      /\ ~Due(a, b) => posts[b][a] = 0 /\ ~Held(a, b) /\ comps[a][b] = <<>>
      /\ posts[b][a] \in {0, 1} /\ Len(comps[a][b]) \in {0, 1}
  BY <1>t, TokenCases
<1>1. CASE Win_start(p)
  <2>1. posts' = posts /\ comps' = comps
    BY <1>1, Win_startEff
  <2> QED
    BY <1>1, <1>t, <2>1, Win_startPairs, TokenFrame
<1>2. CASE RecvPost(p)
  <2>1. PICK t \in Rank :
           /\ call[p].at = "start" /\ First(p, t) /\ posts[t][p] > 0
           /\ call'[p].at = call[p].at /\ call'[p].todo = call[p].todo \ {t}
           /\ \A q \in Rank : q # p => call'[q] = call[q]
           /\ win' = win /\ prog' = prog /\ comps' = comps
           /\ \A x, y \in Rank : posts'[x][y] = IF x = t /\ y = p THEN posts[x][y] - 1 ELSE posts[x][y]
    BY <1>2, RecvPostEff
  <2>2. /\ ~Held(p, t)
        /\ Held(a, b)' <=> Held(a, b) \/ (a = p /\ b = t)
        /\ Due(a, b)' <=> Due(a, b)
    BY <2>1, RecvPostPairs
  <2>3. CASE a = p /\ b = t
    <3>1. posts[b][a] = 1 /\ posts'[b][a] = 0 /\ comps'[a][b] = <<>> /\ Due(a, b)
      BY <1>c, <2>1, <2>3
    <3>2. Held(a, b)' /\ Due(a, b)' /\ Len(comps'[a][b]) = 0
      BY <2>2, <2>3, <3>1
    <3> QED
      BY <3>1, <3>2 DEF Token, Num
  <2>4. CASE ~(a = p /\ b = t)
    <3>1. posts'[b][a] = posts[b][a] /\ comps'[a][b] = comps[a][b]
      BY <2>1, <2>4
    <3> QED
      BY <1>t, <2>2, <2>4, <3>1, TokenFrame
  <2> QED
    BY <2>3, <2>4
<1>3. CASE StartDone(p)
  <2>1. posts' = posts /\ comps' = comps
    BY <1>3, StartDoneEff
  <2> QED
    BY <1>3, <1>t, <2>1, StartDonePairs, TokenFrame
<1>4. CASE Win_complete(p)
  BY <1>4, KeptByOthers, TokensKeptKeeps DEF TokenInv
<1>5. CASE CompleteSend(p)
  <2>1. posts' = posts
    BY <1>5, CompleteSendEff
  <2>2. \A x, y \in Rank : comps'[x][y] = IF x = p /\ y \in win[p].start
                                         THEN Append(comps[x][y], win[x].puts[y]) ELSE comps[x][y]
    BY <1>5, CompleteSendEff
  <2>3. /\ Held(p, b) <=> b \in win[p].start
        /\ Held(a, b)' <=> Held(a, b) /\ a # p
        /\ Due(a, b)' <=> Due(a, b)
    BY <1>5, CompleteSendPairs
  <2>4. CASE a = p /\ b \in win[p].start
    <3>1. Held(a, b) /\ Due(a, b) /\ posts[b][a] = 0 /\ comps[a][b] = <<>>
      BY <1>c, <2>3, <2>4
    <3>2. comps'[a][b] = Append(<<>>, win[a].puts[b])
      BY <2>2, <2>4, <3>1
    <3>3. Len(comps'[a][b]) = 1
      BY <3>2
    <3>4. ~Held(a, b)' /\ Due(a, b)' /\ posts'[b][a] = 0
      BY <2>1, <2>3, <2>4, <3>1
    <3> QED
      BY <3>3, <3>4 DEF Token, Num
  <2>5. CASE ~(a = p /\ b \in win[p].start)
    <3>1. comps'[a][b] = comps[a][b] /\ (Held(a, b)' <=> Held(a, b))
      BY <2>2, <2>3, <2>5
    <3> QED
      BY <1>t, <2>1, <2>3, <3>1, TokenFrame
  <2> QED
    BY <2>4, <2>5
<1>6. CASE Win_post(p)
  <2>1. comps' = comps
    BY <1>6, Win_postEff
  <2>2. \A x, y \in Rank : posts'[x][y] = IF x = p /\ y \in Group(p) THEN posts[x][y] + 1 ELSE posts[x][y]
    BY <1>6, Win_postEff
  <2>3. /\ Held(a, b)' <=> Held(a, b)
        /\ ~Due(a, p)
        /\ Due(a, b)' <=> Due(a, b) \/ (b = p /\ a \in Group(p))
    BY <1>6, Win_postPairs
  <2>4. CASE b = p /\ a \in Group(p)
    <3>1. posts[b][a] = 0 /\ ~Held(a, b) /\ comps[a][b] = <<>>
      BY <1>c, <2>3, <2>4
    <3>2. posts'[b][a] = 1 /\ ~Held(a, b)' /\ Len(comps'[a][b]) = 0 /\ Due(a, b)'
      BY <2>1, <2>2, <2>3, <2>4, <3>1
    <3> QED
      BY <3>2 DEF Token, Num
  <2>5. CASE ~(b = p /\ a \in Group(p))
    <3>1. posts'[b][a] = posts[b][a] /\ (Due(a, b)' <=> Due(a, b))
      BY <2>2, <2>3, <2>5
    <3> QED
      BY <1>t, <2>1, <2>3, <3>1, TokenFrame
  <2> QED
    BY <2>4, <2>5
<1>7. CASE Win_wait(p) \/ Win_test(p)
  <2>1. posts' = posts /\ comps' = comps
    BY <1>7, EnterWaitEff
  <2> QED
    BY <1>7, <1>t, <2>1, EnterWaitPairs, TokenFrame
<1>8. CASE RecvComplete(p)
  <2>1. PICK t \in Rank :
           /\ call[p].at = "wait" /\ First(p, t) /\ comps[t][p] # <<>>
           /\ win' \in [Rank -> Window] /\ \A q \in Rank : q # p => win'[q] = win[q]
           /\ win'[p].epoch = win[p].epoch /\ win'[p].start = win[p].start
           /\ win'[p].post = win[p].post /\ win'[p].puts = win[p].puts
           /\ win'[p].pend = win[p].pend
           /\ win'[p].src = [win[p].src EXCEPT ![t] = win[p].src[t] + Head(comps[t][p])]
           /\ win'[p].recvd = win[p].recvd - Head(comps[t][p])
           /\ win'[p].ops = win[p].ops
           /\ call' \in [Rank -> Call] /\ \A q \in Rank : q # p => call'[q] = call[q]
           /\ call'[p].at = "waitOps" /\ call'[p].todo = call[p].todo
           /\ call'[p].total = call[p].total
           /\ prog' = prog /\ flight' = flight /\ posts' = posts
           /\ comps' \in [Rank -> [Rank -> Seq(0..MaxOps)]]
           /\ \A x, y \in Rank : comps'[x][y] = IF x = t /\ y = p THEN Tail(comps[x][y]) ELSE comps[x][y]
           /\ coll' = coll
    BY <1>8, RecvCompleteEff, ZenonT(40)
  <2>2. \A q \in Rank : win'[q].start = win[q].start /\ win'[q].post = win[q].post
    BY <2>1
  <2>3. /\ Due(t, p)
        /\ Held(a, b)' <=> Held(a, b)
        /\ Due(a, b)' <=> Due(a, b) /\ ~(a = t /\ b = p)
    BY <2>1, <2>2, RecvCompletePairs, ZenonT(30)
  <2>4. CASE a = t /\ b = p
    <3>1. Len(comps[a][b]) = 1 /\ posts[b][a] = 0 /\ ~Held(a, b)
      BY <1>0, <1>c, <2>1, <2>4
    <3>2. comps'[a][b] = Tail(comps[a][b])
      BY <2>1, <2>4
    <3>3. Len(comps'[a][b]) = 0
      BY <1>0, <3>1, <3>2
    <3>4. posts'[b][a] = 0 /\ ~Held(a, b)' /\ ~Due(a, b)'
      BY <2>1, <2>3, <2>4, <3>1
    <3> QED
      BY <3>3, <3>4 DEF Token, Num
  <2>5. CASE ~(a = t /\ b = p)
    <3>1. comps'[a][b] = comps[a][b] /\ posts'[b][a] = posts[b][a]
      BY <2>1, <2>5
    <3> QED
      BY <1>t, <2>3, <2>5, <3>1, TokenFrame
  <2> QED
    BY <2>4, <2>5
<1>9. CASE WaitedOps(p)
  <2>1. PICK t \in Rank :
           /\ call[p].at = "waitOps" /\ First(p, t)
           /\ call'[p].at = "wait" /\ call'[p].todo = call[p].todo \ {t}
           /\ \A q \in Rank : q # p => call'[q] = call[q]
           /\ win' = win /\ prog' = prog /\ posts' = posts /\ comps' = comps
    BY <1>9, WaitedOpsEff
  <2>2. (Held(a, b)' <=> Held(a, b)) /\ (Due(a, b)' <=> Due(a, b))
    BY <2>1, WaitedOpsPairs
  <2> QED
    BY <1>t, <2>1, <2>2, TokenFrame
<1>10. CASE WaitDone(p)
  <2>1. posts' = posts /\ comps' = comps
    BY <1>10, WaitDoneEff
  <2> QED
    BY <1>10, <1>t, <2>1, WaitDonePairs, TokenFrame
<1> QED
  BY <1>1, <1>2, <1>3, <1>4, <1>5, <1>6, <1>7, <1>8, <1>9, <1>10 DEF AccessStep, ExposureStep

(* A POST, an access epoch and a COMPLETE belong to one exposure epoch, whatever *)
(* the programs are.                                                            *)
THEOREM TokenHolds == Spec => []TokenInv
<1>1. Init => TokenInv
  <2> SUFFICES ASSUME Init, NEW p \in Rank, NEW t \in Rank PROVE Token(p, t)
    BY DEF TokenInv
  <2>1. posts[t][p] = 0 /\ comps[p][t] = <<>> /\ win[p].start = {} /\ win[t].post = {} /\ call[p].at = "none"
    BY DEF Init, Idle
  <2>2. ~Held(p, t) /\ ~Due(p, t)
    BY <2>1 DEF Held, Due
  <2> QED
    BY <2>1, <2>2 DEF Token, Num
<1>2. ActiveType /\ LocalInv /\ TokenInv /\ [Next]_vars => TokenInv'
  <2> SUFFICES ASSUME ActiveType, LocalInv, TokenInv, [Next]_vars PROVE TokenInv'
    OBVIOUS
  <2>1. CASE UNCHANGED vars
    BY <2>1, TokensKeptKeeps DEF vars, TokensKept
  <2>2. CASE Next
    <3>1. PICK p \in Rank : FenceStep(p) \/ AccessStep(p) \/ ExposureStep(p) \/ OpStep(p) \/ Refuse(p)
      BY <2>2 DEF Next
    <3> QED
      BY <3>1, KeptByOthers, TokensKeptKeeps, TokenMoves
  <2> QED
    BY <2>1, <2>2
<1> QED
  BY <1>1, <1>2, LocalHolds, PTL DEF Spec

(* Type correctness, for any number of ranks and any program: no rank sends a   *)
(* second POST to a rank that has not used the first.                           *)
THEOREM ActiveTypeCorrect == Spec => []TypeOK
<1>1. ActiveType /\ TokenInv => TypeOK
  <2> SUFFICES ASSUME ActiveType, TokenInv PROVE TypeOK
    OBVIOUS
  <2>1. \A t, p \in Rank : posts[t][p] \in 0..1
    BY TokenCases DEF TokenInv
  <2>2. posts \in [Rank -> [Rank -> 0..1]]
    BY <2>1 DEF ActiveType
  <2> QED
    BY <2>2 DEF ActiveType, TypeOK
<1> QED
  BY <1>1, LocalHolds, TokenHolds, PTL

-----------------------------------------------------------------------------
(* The counters of an origin and a target *)

(* What a COMPLETE of p on its way to t says; p has entered a barrier that t    *)
(* has not; the operations of p that t will hear of, in a later COMPLETE or      *)
(* through the sum of fence.                                                    *)
Said(p, t) == IF comps[p][t] = <<>> THEN 0 ELSE Head(comps[p][t])
Ahead(p, t) == coll[p].bar # coll[t].bar /\ coll[p].bar = coll[p].red
Owed(p, t) ==
    IF coll[p].bar = coll[t].bar THEN win[p].puts[t]
    ELSE IF coll[p].bar = coll[p].red THEN coll[p].contrib[t] ELSE 0

(* What t has counted of p and what it will hear of make up what is under way.  *)
(* A rank in the barrier has nothing counted of a rank that is not.  What is     *)
(* under way belongs to an exposure epoch for p, or to a fence epoch that p or    *)
(* t has not ended.                                                             *)
Balance(p, t) ==
    /\ win[t].src[p] + Said(p, t) + Owed(p, t) = flight[p][t]
    /\ Ahead(t, p) => win[t].src[p] = 0
    /\ flight[p][t] > 0 => Due(p, t) \/ Reported(p, t) \/ win[p].epoch = "FENCE" \/ Ahead(p, t)
BalanceInv == \A p, t \in Rank : Balance(p, t)

(* rma_puts_accs_received counts what rma_source_rank_received counts. *)
ReceivedInv == \A t \in Rank : win[t].recvd = 0 - Total(win[t].src)

(* The counters are numbers. *)
LEMMA BalanceTypes ==
    ASSUME ActiveType, NEW p \in Rank, NEW t \in Rank
    PROVE  /\ win[t].src[p] \in Int /\ Said(p, t) \in Nat /\ Owed(p, t) \in Nat /\ flight[p][t] \in Nat
           /\ win[p].puts[t] \in Nat /\ coll[p].contrib[t] \in Nat
<1>1. win[t].src[p] \in Int
  BY WinFields
<1>2. win[p].puts[t] \in Nat
  BY WinFields
<1>3. coll[p].contrib[t] \in Nat
  BY CollFields
<1>4. flight[p][t] \in Nat
  BY DEF ActiveType
<1>5. Said(p, t) \in Nat
  <2>1. comps[p][t] \in Seq(0..MaxOps)
    BY DEF ActiveType
  <2>2. comps[p][t] # <<>> => Head(comps[p][t]) \in 0..MaxOps
    BY <2>1, SeqParts, Zenon
  <2> QED
    BY <2>2 DEF Said
<1>6. Owed(p, t) \in Nat
  BY <1>2, <1>3 DEF Owed
<1> QED
  BY <1>1, <1>2, <1>3, <1>4, <1>5, <1>6

(* A pair whose counters a step leaves alone. *)
LEMMA BalanceFrame ==
    ASSUME NEW p \in Rank, NEW t \in Rank, Balance(p, t),
           win'[t].src[p] = win[t].src[p], win'[p].puts[t] = win[p].puts[t],
           comps'[p][t] = comps[p][t], flight'[p][t] = flight[p][t],
           coll'[p] = coll[p], coll'[t] = coll[t],
           win[p].epoch = "FENCE" => win'[p].epoch = "FENCE",
           Due(p, t) \/ Reported(p, t) => Due(p, t)' \/ Reported(p, t)'
    PROVE  Balance(p, t)'
<1>1. Said(p, t)' = Said(p, t)
  BY DEF Said
<1>2. Owed(p, t)' = Owed(p, t) /\ (Ahead(t, p)' <=> Ahead(t, p)) /\ (Ahead(p, t)' <=> Ahead(p, t))
  BY DEF Owed, Ahead
<1> QED
  BY <1>1, <1>2 DEF Balance

(* Steps that leave all counters alone. *)
CountersKept ==
    /\ \A q \in Rank : win'[q].src = win[q].src /\ win'[q].puts = win[q].puts /\ win'[q].recvd = win[q].recvd
    /\ \A q \in Rank : win[q].epoch = "FENCE" => win'[q].epoch = "FENCE"
    /\ comps' = comps /\ flight' = flight /\ coll' = coll

(* They keep the balance. *)
LEMMA CountersKeptBalance ==
    ASSUME BalanceInv, CountersKept,
           \A a, b \in Rank : Due(a, b) \/ Reported(a, b) => Due(a, b)' \/ Reported(a, b)'
    PROVE  BalanceInv'
<1> SUFFICES ASSUME NEW p \in Rank, NEW t \in Rank PROVE Balance(p, t)'
  BY DEF BalanceInv
<1>1. /\ win'[t].src[p] = win[t].src[p] /\ win'[p].puts[t] = win[p].puts[t]
      /\ comps'[p][t] = comps[p][t] /\ flight'[p][t] = flight[p][t]
      /\ coll'[p] = coll[p] /\ coll'[t] = coll[t]
  BY DEF CountersKept
<1>2. win[p].epoch = "FENCE" => win'[p].epoch = "FENCE"
  BY DEF CountersKept
<1>3. Balance(p, t)
  BY DEF BalanceInv
<1> QED
  BY <1>1, <1>2, <1>3, BalanceFrame

(* Gets, calls that do not end an epoch, and their steps. *)
QuietStep(p) ==
    \/ OpDone(p) \/ \E t \in Rank : Get(p, t)
    \/ FenceReduced(p) \/ FenceDone(p) \/ Refuse(p)
    \/ Win_start(p) \/ RecvPost(p) \/ StartDone(p) \/ Win_complete(p)
    \/ Win_post(p) \/ Win_wait(p) \/ Win_test(p) \/ WaitDone(p)

(* They leave the counters alone. *)
LEMMA CountersKeptBy ==
    ASSUME ActiveType, LocalInv, NEW p \in Rank, QuietStep(p)
    PROVE  CountersKept
<1>1. CASE OpDone(p)
  BY <1>1, OpDoneEff DEF CountersKept
<1>2. ASSUME NEW t \in Rank, Get(p, t) PROVE CountersKept
  BY <1>2, GetEff DEF CountersKept, Tracked
<1>3. CASE FenceReduced(p)
  BY <1>3, FenceReducedEff DEF CountersKept
<1>4. CASE FenceDone(p)
  BY <1>4, FenceDoneEff DEF CountersKept
<1>5. CASE Refuse(p)
  BY <1>5 DEF Refuse, CountersKept
<1>6. CASE Win_start(p)
  BY <1>6, Win_startEff DEF CountersKept, StartEpochs
<1>7. CASE RecvPost(p)
  BY <1>7, RecvPostEff DEF CountersKept
<1>8. CASE StartDone(p)
  BY <1>8, StartDoneEff DEF CountersKept
<1>9. CASE Win_complete(p)
  BY <1>9, Win_completeEff DEF CountersKept, CompleteEpochs
<1>10. CASE Win_post(p)
  BY <1>10, Win_postEff, ZenonT(30) DEF CountersKept, PostEpochs
<1>11. CASE Win_wait(p) \/ Win_test(p)
  BY <1>11, EnterWaitEff DEF CountersKept, WaitEpochs
<1>12. CASE WaitDone(p)
  BY <1>12, WaitDoneEff DEF CountersKept
<1> QED
  BY <1>1, <1>2, <1>3, <1>4, <1>5, <1>6, <1>7, <1>8, <1>9, <1>10, <1>11, <1>12 DEF QuietStep

(* These steps end no exposure epoch either. *)
LEMMA ExposureKeptBy ==
    ASSUME ActiveType, LocalInv, NEW p \in Rank, QuietStep(p),
           NEW a \in Rank, NEW b \in Rank, Due(a, b) \/ Reported(a, b)
    PROVE  Due(a, b)' \/ Reported(a, b)'
<1>1. CASE OpDone(p) \/ (\E t \in Rank : Get(p, t)) \/ FenceReduced(p) \/ FenceDone(p) \/ Refuse(p)
           \/ Win_complete(p)
  BY <1>1, KeptByOthers, TokensKeptPairs DEF OpStep, FenceStep
<1>2. CASE Win_start(p)
  BY <1>2, Win_startPairs
<1>3. CASE RecvPost(p)
  <2>1. PICK t \in Rank :
           /\ call[p].at = "start" /\ First(p, t)
           /\ call'[p].at = call[p].at /\ call'[p].todo = call[p].todo \ {t}
           /\ \A q \in Rank : q # p => call'[q] = call[q]
           /\ win' = win /\ prog' = prog
    BY <1>3, RecvPostEff
  <2> QED
    BY <2>1, RecvPostPairs
<1>4. CASE StartDone(p)
  BY <1>4, StartDonePairs
<1>5. CASE Win_post(p)
  BY <1>5, Win_postPairs
<1>6. CASE Win_wait(p) \/ Win_test(p)
  BY <1>6, EnterWaitPairs
<1>7. CASE WaitDone(p)
  BY <1>7, WaitDonePairs
<1> QED
  BY <1>1, <1>2, <1>3, <1>4, <1>5, <1>6, <1>7 DEF QuietStep

(* The other steps. *)
LEMMA StepCases ==
    ASSUME NEW p \in Rank, FenceStep(p) \/ AccessStep(p) \/ ExposureStep(p) \/ OpStep(p) \/ Refuse(p)
    PROVE  \/ QuietStep(p) \/ (\E t \in Rank : Put(p, t)) \/ (\E t \in Rank : OpArrives(p, t))
           \/ Win_fence(p) \/ FenceWaited(p) \/ CompleteSend(p) \/ RecvComplete(p) \/ WaitedOps(p)
<1>1. CASE FenceStep(p)
  BY <1>1 DEF FenceStep, QuietStep
<1>2. CASE AccessStep(p)
  BY <1>2 DEF AccessStep, QuietStep
<1>3. CASE ExposureStep(p)
  BY <1>3 DEF ExposureStep, QuietStep
<1>4. CASE OpStep(p)
  BY <1>4 DEF OpStep, QuietStep
<1>5. CASE Refuse(p)
  BY <1>5 DEF QuietStep
<1> QED
  BY <1>1, <1>2, <1>3, <1>4, <1>5

(* Steps that leave what a target has counted alone. *)
LEMMA ReceivedFrame ==
    ASSUME ReceivedInv, \A q \in Rank : win'[q].src = win[q].src /\ win'[q].recvd = win[q].recvd
    PROVE  ReceivedInv'
BY DEF ReceivedInv

(* An operation arrives. *)
LEMMA OpArrivesReceived ==
    ASSUME ActiveType, LocalInv, ReceivedInv, NEW p \in Rank, NEW t \in Rank, OpArrives(p, t)
    PROVE  ReceivedInv'
<1>1. win'[t].src = [win[t].src EXCEPT ![p] = win[t].src[p] - 1] /\ win'[t].recvd = win[t].recvd + 1
  BY OpArrivesEff
<1>2. \A q \in Rank : q # t => win'[q] = win[q]
  BY OpArrivesEff
<1>3. win[t].src \in [Rank -> Int] /\ win[t].recvd \in Int
  BY WinFields
<1>4. Total(win'[t].src) = Total(win[t].src) + (0 - 1)
  <2>1. win'[t].src \in [Rank -> Int]
    BY <1>1, <1>3
  <2>2. win'[t].src[p] = win[t].src[p] + (0 - 1) /\ \A i \in Rank : i # p => win'[t].src[i] = win[t].src[i]
    BY <1>1, <1>3
  <2> QED
    BY <1>3, <2>1, <2>2, TotalUpdate
<1>5. win[t].recvd = 0 - Total(win[t].src) /\ Total(win[t].src) \in Int
  BY <1>3, TotalType DEF ReceivedInv
<1>6. win'[t].recvd = 0 - Total(win'[t].src)
  BY <1>1, <1>3, <1>4, <1>5
<1> QED
  BY <1>2, <1>6 DEF ReceivedInv

(* The counter of COMPLETE is added. *)
LEMMA RecvCompleteReceived ==
    ASSUME ActiveType, LocalInv, ReceivedInv, NEW p \in Rank, RecvComplete(p)
    PROVE  ReceivedInv'
<1>1. PICK t \in Rank :
         /\ call[p].at = "wait" /\ First(p, t) /\ comps[t][p] # <<>>
         /\ win' \in [Rank -> Window] /\ \A q \in Rank : q # p => win'[q] = win[q]
         /\ win'[p].epoch = win[p].epoch /\ win'[p].start = win[p].start
         /\ win'[p].post = win[p].post /\ win'[p].puts = win[p].puts
         /\ win'[p].pend = win[p].pend
         /\ win'[p].src = [win[p].src EXCEPT ![t] = win[p].src[t] + Head(comps[t][p])]
         /\ win'[p].recvd = win[p].recvd - Head(comps[t][p])
         /\ win'[p].ops = win[p].ops
         /\ call' \in [Rank -> Call] /\ \A q \in Rank : q # p => call'[q] = call[q]
         /\ call'[p].at = "waitOps" /\ call'[p].todo = call[p].todo
         /\ call'[p].total = call[p].total
         /\ prog' = prog /\ flight' = flight /\ posts' = posts
         /\ comps' \in [Rank -> [Rank -> Seq(0..MaxOps)]]
         /\ \A x, y \in Rank : comps'[x][y] = IF x = t /\ y = p THEN Tail(comps[x][y]) ELSE comps[x][y]
         /\ coll' = coll
  BY RecvCompleteEff
<1>2. PICK h \in Nat : h = Head(comps[t][p])
  <2>1. comps[t][p] \in Seq(0..MaxOps)
    BY DEF ActiveType
  <2>2. Head(comps[t][p]) \in 0..MaxOps
    BY <1>1, <2>1, SeqParts, Zenon
  <2> QED
    BY <2>2
<1>3. win[p].src \in [Rank -> Int] /\ win[p].recvd \in Int
  BY WinFields
<1>4. Total(win'[p].src) = Total(win[p].src) + h
  <2>1. win'[p].src \in [Rank -> Int]
    BY <1>1, <1>2, <1>3
  <2>2. win'[p].src[t] = win[p].src[t] + h /\ \A i \in Rank : i # t => win'[p].src[i] = win[p].src[i]
    BY <1>1, <1>2, <1>3
  <2> QED
    BY <1>3, <2>1, <2>2, TotalUpdate
<1>5. win[p].recvd = 0 - Total(win[p].src) /\ Total(win[p].src) \in Int
  BY <1>3, TotalType DEF ReceivedInv
<1>6. win'[p].recvd = 0 - Total(win'[p].src)
  BY <1>1, <1>2, <1>3, <1>4, <1>5
<1> QED
  BY <1>1, <1>6, ZenonT(40) DEF ReceivedInv

(* The target counts the operations of all ranks together as those of each. *)
LEMMA ReceivedHolds == Spec => []ReceivedInv
<1>1. Init => ReceivedInv
  <2> SUFFICES ASSUME Init, NEW t \in Rank PROVE win[t].recvd = 0 - Total(win[t].src)
    BY DEF ReceivedInv
  <2>1. win[t].src \in [Rank -> Int] /\ (\A q \in Rank : win[t].src[q] = 0) /\ win[t].recvd = 0
    BY DEF Init
  <2>2. Total(win[t].src) = 0
    BY <2>1, TotalZero
  <2> QED
    BY <2>1, <2>2
<1>2. ActiveType /\ LocalInv /\ ReceivedInv /\ [Next]_vars => ReceivedInv'
  <2> SUFFICES ASSUME ActiveType, LocalInv, ReceivedInv, [Next]_vars PROVE ReceivedInv'
    OBVIOUS
  <2>1. CASE UNCHANGED vars
    BY <2>1 DEF vars, ReceivedInv
  <2>2. CASE Next
    <3>1. PICK p \in Rank : FenceStep(p) \/ AccessStep(p) \/ ExposureStep(p) \/ OpStep(p) \/ Refuse(p)
      BY <2>2 DEF Next
    <3>2. CASE QuietStep(p)
      <4>1. CountersKept
        BY <3>2, CountersKeptBy
      <4> QED
        BY <4>1, ReceivedFrame DEF CountersKept
    <3>3. ASSUME NEW t \in Rank, Put(p, t) PROVE ReceivedInv'
      <4>1. win'[p].src = win[p].src /\ win'[p].recvd = win[p].recvd /\ \A q \in Rank : q # p => win'[q] = win[q]
        BY <3>3, PutEff
      <4> QED
        BY <4>1, ReceivedFrame
    <3>4. ASSUME NEW t \in Rank, OpArrives(p, t) PROVE ReceivedInv'
      BY <3>4, OpArrivesReceived
    <3>5. CASE Win_fence(p)
      <4>1. win' = win
        BY <3>5, Win_fenceEff
      <4> QED
        BY <4>1, ReceivedFrame
    <3>6. CASE FenceWaited(p)
      <4>1. win'[p].src = [x \in Rank |-> 0] /\ win'[p].recvd = 0
        BY <3>6, FenceWaitedEff
      <4>2. \A q \in Rank : q # p => win'[q] = win[q]
        BY <3>6, FenceWaitedEff
      <4>3. win'[p].src \in [Rank -> Int] /\ \A q \in Rank : win'[p].src[q] = 0
        BY <4>1
      <4>4. Total(win'[p].src) = 0
        BY <4>3, TotalZero
      <4>5. win'[p].recvd = 0 - Total(win'[p].src)
        BY <4>1, <4>4
      <4> QED
        BY <4>2, <4>5 DEF ReceivedInv
    <3>7. CASE CompleteSend(p)
      <4>1. win'[p].src = win[p].src /\ win'[p].recvd = win[p].recvd
        BY <3>7, CompleteSendEff
      <4>2. \A q \in Rank : q # p => win'[q] = win[q]
        BY <3>7, CompleteSendEff
      <4> QED
        BY <4>1, <4>2, ReceivedFrame
    <3>8. CASE RecvComplete(p)
      BY <3>8, RecvCompleteReceived
    <3>9. CASE WaitedOps(p)
      <4>1. win' = win
        BY <3>9, WaitedOpsEff
      <4> QED
        BY <4>1, ReceivedFrame
    <3> QED
      BY <3>1, <3>2, <3>3, <3>4, <3>5, <3>6, <3>7, <3>8, <3>9, StepCases
  <2> QED
    BY <2>1, <2>2
<1> QED
  BY <1>1, <1>2, LocalHolds, PTL DEF Spec

(* A rank that has not yet used its collective calls is even with all others. *)
LEMMA EvenOwed ==
    ASSUME NEW p \in Rank, NEW t \in Rank, coll[p].bar = coll[t].bar
    PROVE  Owed(p, t) = win[p].puts[t] /\ ~Ahead(p, t) /\ ~Ahead(t, p)
BY DEF Owed, Ahead

(* The groups and counters of a rank in fence. *)
LEMMA FenceGroups ==
    ASSUME ActiveType, LocalInv, TokenInv, NEW t \in Rank, call[t].at \in FenceAt
    PROVE  /\ win[t].post = {} /\ win[t].start = {}
           /\ \A p \in Rank : ~Due(p, t) /\ ~Reported(p, t) /\ comps[p][t] = <<>> /\ Said(p, t) = 0
<1>1. Local(t)
  BY DEF LocalInv
<1>2. win[t].epoch \in FenceEpochs /\ call[t].at # "complete" /\ ~InWait(t)
  BY <1>1 DEF Local, FenceAt, InFence, InWait, FenceEpochs
<1>3. win[t].post = {} /\ win[t].start = {}
  BY <1>1, <1>2 DEF Local, FenceEpochs
<1>4. \A p \in Rank : ~Due(p, t) /\ ~Reported(p, t)
  BY <1>2, <1>3 DEF Due, Reported, InWait
<1>5. \A p \in Rank : comps[p][t] = <<>>
  BY <1>4, TokenCases DEF TokenInv
<1>6. \A p \in Rank : Said(p, t) = 0
  BY <1>5 DEF Said
<1> QED
  BY <1>3, <1>4, <1>5, <1>6

(* Nothing is under way to a rank in the barrier from one that is not. *)
LEMMA AheadClear ==
    ASSUME ActiveType, LocalInv, FenceInv, TokenInv, NEW p \in Rank, NEW t \in Rank,
           Balance(p, t), Ahead(t, p)
    PROVE  win[t].src[p] = 0 /\ Said(p, t) = 0 /\ Owed(p, t) = 0 /\ flight[p][t] = 0
<1>1. coll[t].bar # coll[p].bar /\ coll[t].bar = coll[t].red
  BY DEF Ahead
<1>2. call[t].at = "barrier" /\ coll[p].red = coll[t].red
  BY <1>1 DEF FenceInv
<1>3. Said(p, t) = 0
  BY <1>2, FenceGroups DEF FenceAt
<1>4. Owed(p, t) = 0
  BY <1>1, <1>2 DEF Owed
<1>5. win[t].src[p] = 0
  BY DEF Balance
<1>6. win[t].src[p] + Said(p, t) + Owed(p, t) = flight[p][t]
  BY DEF Balance
<1>7. flight[p][t] = 0
  BY <1>3, <1>4, <1>5, <1>6
<1> QED
  BY <1>3, <1>4, <1>5, <1>7

(* A put and what is under way. *)
LEMMA PutFlight ==
    ASSUME ActiveType, LocalInv, NEW p \in Rank, NEW t \in Rank, Put(p, t)
    PROVE  \A x, y \in Rank : flight'[x][y] = IF x = p /\ y = t THEN flight[x][y] + 1 ELSE flight[x][y]
<1>1. flight \in [Rank -> [Rank -> Nat]] /\ flight' = [flight EXCEPT ![p][t] = flight[p][t] + 1]
  BY DEF Put, ActiveType
<1> QED
  BY <1>1

(* A put. *)
LEMMA PutBalance ==
    ASSUME ActiveType, LocalInv, FenceInv, TokenInv, BalanceInv, NEW p \in Rank, NEW t \in Rank, Put(p, t),
           NEW a \in Rank, NEW b \in Rank
    PROVE  Balance(a, b)'
<1>1. MayAccess(p, t) /\ call' = call /\ coll' = coll /\ comps' = comps
  BY PutEff
<1>2. call[p].at = "none" /\ t # p
  BY <1>1 DEF MayAccess, Running
<1>3. \A q, x \in Rank : coll[q].bar = coll[x].bar
  BY <1>2, BarsEqual DEF FenceAt
<1>4. win'[p].puts = [win[p].puts EXCEPT ![t] = win[p].puts[t] + 1] /\ win'[p].src = win[p].src
  BY PutEff, ZenonT(40)
<1>5. \A q \in Rank : q # p => win'[q] = win[q]
  BY PutEff
<1>6. \A x, y \in Rank : flight'[x][y] = IF x = p /\ y = t THEN flight[x][y] + 1 ELSE flight[x][y]
  BY PutFlight
<1>7. win'[p].epoch = Tracked(win[p].epoch) /\ win'[p].post = win[p].post
  BY PutEff
<1>8. (Due(a, b)' <=> Due(a, b)) /\ (Reported(a, b)' <=> Reported(a, b))
  <2>1. win'[b].post = win[b].post /\ call'[b] = call[b]
    BY <1>1, <1>5, <1>7
  <2> QED
    BY <2>1, DueFrame
<1>9. Balance(a, b)
  BY DEF BalanceInv
<1>10. win[p].puts \in [Rank -> 0..MaxOps] /\ MaxOps \in Nat
  BY WinFields
<1>11. CASE a = p /\ b = t
  <2>1. /\ win[b].src[a] \in Int /\ Said(a, b) \in Nat /\ flight[a][b] \in Nat /\ win[a].puts[b] \in Nat
    BY BalanceTypes
  <2>2. win[b].src[a] + Said(a, b) + win[a].puts[b] = flight[a][b]
    BY <1>3, <1>9, EvenOwed DEF Balance
  <2>3. win'[b].src[a] = win[b].src[a] /\ flight'[a][b] = flight[a][b] + 1
    BY <1>2, <1>5, <1>6, <1>11
  <2>4. Said(a, b)' = Said(a, b)
    BY <1>1 DEF Said
  <2>5. coll'[a].bar = coll'[b].bar
    BY <1>1, <1>3
  <2>6. Owed(a, b)' = win[a].puts[b] + 1 /\ ~Ahead(b, a)'
    <3>1. win'[a].puts[b] = win[a].puts[b] + 1
      BY <1>4, <1>10, <1>11
    <3> QED
      BY <2>5, <3>1 DEF Owed, Ahead
  <2>7. win'[b].src[a] + Said(a, b)' + Owed(a, b)' = flight'[a][b]
    BY <2>1, <2>2, <2>3, <2>4, <2>6
  <2>8. Due(a, b)' \/ win'[a].epoch = "FENCE"
    <3>1. CASE win[p].epoch \in {"FENCE", "FENCE_ISSUED"}
      BY <1>7, <1>11, <3>1 DEF Tracked
    <3>2. CASE t \in win[p].start
      <4>1. Held(p, t)
        BY <3>2 DEF Held
      <4>2. Due(p, t)
        BY <4>1, TokenCases DEF TokenInv
      <4> QED
        BY <1>8, <1>11, <4>2
    <3> QED
      BY <1>1, <3>1, <3>2 DEF MayAccess
  <2> QED
    BY <2>6, <2>7, <2>8 DEF Balance
<1>12. CASE ~(a = p /\ b = t)
  <2>1. win'[b].src[a] = win[b].src[a] /\ flight'[a][b] = flight[a][b]
    BY <1>4, <1>5, <1>6, <1>12
  <2>2. win'[a].puts[b] = win[a].puts[b]
    BY <1>4, <1>5, <1>10, <1>12
  <2>3. win[a].epoch = "FENCE" => win'[a].epoch = "FENCE"
    BY <1>5, <1>7 DEF Tracked
  <2> QED
    BY <1>1, <1>8, <1>9, <2>1, <2>2, <2>3, BalanceFrame
<1> QED
  BY <1>11, <1>12

(* An arrival and what is under way. *)
LEMMA OpArrivesFlight ==
    ASSUME ActiveType, LocalInv, NEW p \in Rank, NEW t \in Rank, OpArrives(p, t)
    PROVE  \A x, y \in Rank : flight'[x][y] = IF x = p /\ y = t THEN flight[x][y] - 1 ELSE flight[x][y]
<1>1. flight \in [Rank -> [Rank -> Nat]] /\ flight' = [flight EXCEPT ![p][t] = flight[p][t] - 1]
  BY DEF OpArrives, ActiveType
<1> QED
  BY <1>1

(* An operation arrives; none does at a rank that has entered the barrier. *)
LEMMA OpArrivesBalance ==
    ASSUME ActiveType, LocalInv, FenceInv, TokenInv, BalanceInv, NEW p \in Rank, NEW t \in Rank,
           OpArrives(p, t), NEW a \in Rank, NEW b \in Rank
    PROVE  Balance(a, b)'
<1>1. flight[p][t] > 0 /\ call' = call /\ coll' = coll /\ comps' = comps
  BY OpArrivesEff
<1>2. \A q \in Rank : q # t => win'[q] = win[q]
  BY OpArrivesEff
<1>3. win'[t].src = [win[t].src EXCEPT ![p] = win[t].src[p] - 1] /\ win'[t].puts = win[t].puts
  BY OpArrivesEff
<1>4. win'[t].epoch = win[t].epoch /\ win'[t].post = win[t].post
  BY OpArrivesEff
<1>5. \A x, y \in Rank : flight'[x][y] = IF x = p /\ y = t THEN flight[x][y] - 1 ELSE flight[x][y]
  BY OpArrivesFlight
<1>6. (Due(a, b)' <=> Due(a, b)) /\ (Reported(a, b)' <=> Reported(a, b))
  <2>1. win'[b].post = win[b].post /\ call'[b] = call[b]
    BY <1>1, <1>2, <1>4
  <2> QED
    BY <2>1, DueFrame
<1>7. Balance(a, b)
  BY DEF BalanceInv
<1>8. win[t].src \in [Rank -> Int]
  BY WinFields
<1>9. win'[a].puts[b] = win[a].puts[b] /\ win'[a].epoch = win[a].epoch
  BY <1>2, <1>3, <1>4
<1>10. CASE a = p /\ b = t
  <2>1. win[b].src[a] \in Int /\ Said(a, b) \in Nat /\ flight[a][b] \in Nat /\ Owed(a, b) \in Nat
    BY BalanceTypes
  <2>2. win'[b].src[a] = win[b].src[a] - 1 /\ flight'[a][b] = flight[a][b] - 1
    BY <1>3, <1>5, <1>8, <1>10
  <2>3. Said(a, b)' = Said(a, b)
    BY <1>1 DEF Said
  <2>4. Owed(a, b)' = Owed(a, b) /\ (Ahead(b, a)' <=> Ahead(b, a)) /\ (Ahead(a, b)' <=> Ahead(a, b))
    BY <1>1, <1>9 DEF Owed, Ahead
  <2>5. win'[b].src[a] + Said(a, b)' + Owed(a, b)' = flight'[a][b]
    BY <1>7, <2>1, <2>2, <2>3, <2>4 DEF Balance
  <2>6. ~Ahead(b, a)
    BY <1>1, <1>7, <1>10, <2>1, AheadClear
  <2> QED
    BY <1>1, <1>6, <1>7, <1>9, <1>10, <2>4, <2>5, <2>6 DEF Balance
<1>11. CASE ~(a = p /\ b = t)
  <2>1. win'[b].src[a] = win[b].src[a] /\ flight'[a][b] = flight[a][b]
    BY <1>2, <1>3, <1>5, <1>8, <1>11
  <2> QED
    BY <1>1, <1>6, <1>7, <1>9, <2>1, BalanceFrame
<1> QED
  BY <1>10, <1>11

(* A rank enters fence. *)
LEMMA Win_fenceBalance ==
    ASSUME ActiveType, LocalInv, FenceInv, BalanceInv, NEW p \in Rank, Win_fence(p),
           NEW a \in Rank, NEW b \in Rank
    PROVE  Balance(a, b)'
<1>1. call[p].at = "none" /\ call'[p].at = "reduce" /\ \A q \in Rank : q # p => call'[q] = call[q]
  BY Win_fenceEff DEF Running
<1>2. coll'[p].bar = coll[p].bar /\ \A q \in Rank : q # p => coll'[q] = coll[q]
  BY Win_fenceEff
<1>3. win' = win /\ flight' = flight /\ comps' = comps
  BY Win_fenceEff
<1>4. coll[a].bar = coll[b].bar
  BY <1>1, BarsEqual DEF FenceAt
<1>5. coll'[a].bar = coll'[b].bar
  BY <1>2, <1>4
<1>6. Owed(a, b) = win[a].puts[b] /\ Owed(a, b)' = win[a].puts[b]
  BY <1>3, <1>4, <1>5 DEF Owed
<1>7. ~Ahead(b, a) /\ ~Ahead(b, a)' /\ ~Ahead(a, b)
  BY <1>4, <1>5 DEF Ahead
<1>8. Said(a, b)' = Said(a, b)
  BY <1>3 DEF Said
<1>9. (Due(a, b)' <=> Due(a, b)) /\ (Reported(a, b)' <=> Reported(a, b))
  BY <1>1, <1>3, DueFrame
<1>10. Balance(a, b)
  BY DEF BalanceInv
<1> QED
  BY <1>3, <1>6, <1>7, <1>8, <1>9, <1>10 DEF Balance

(* The messages of complete. *)
LEMMA CompleteSendComps ==
    ASSUME ActiveType, LocalInv, NEW p \in Rank, CompleteSend(p)
    PROVE  \A x, y \in Rank : comps'[x][y] = IF x = p /\ y \in win[p].start
                                            THEN Append(comps[x][y], win[x].puts[y]) ELSE comps[x][y]
BY CompleteSendEff

(* Complete sends its counters. *)
LEMMA CompleteSendBalance ==
    ASSUME ActiveType, LocalInv, FenceInv, TokenInv, BalanceInv, NEW p \in Rank, CompleteSend(p),
           NEW a \in Rank, NEW b \in Rank
    PROVE  Balance(a, b)'
<1>1. call[p].at = "complete" /\ coll' = coll /\ flight' = flight
  BY CompleteSendEff
<1>2. \A q \in Rank : q # p => win'[q] = win[q]
  BY CompleteSendEff
<1>3. win'[p].puts = [x \in Rank |-> IF x \in win[p].start THEN 0 ELSE win[p].puts[x]]
  BY CompleteSendEff
<1>4. win'[p].src = win[p].src /\ win'[p].epoch = win[p].epoch
  BY CompleteSendEff
<1>5. comps'[a][b] = IF a = p /\ b \in win[p].start THEN Append(comps[a][b], win[a].puts[b]) ELSE comps[a][b]
  BY CompleteSendComps
<1>6. coll[a].bar = coll[b].bar
  BY <1>1, BarsEqual DEF FenceAt
<1>7. /\ Held(p, b) <=> b \in win[p].start
      /\ Reported(a, b)' <=> Reported(a, b)
      /\ Due(a, b)' <=> Due(a, b)
  BY CompleteSendPairs
<1>8. Balance(a, b)
  BY DEF BalanceInv
<1>9. win'[b].src[a] = win[b].src[a] /\ win'[a].epoch = win[a].epoch
  BY <1>2, <1>4
<1>10. CASE a = p /\ b \in win[p].start
  <2>1. win[b].src[a] \in Int /\ win[a].puts[b] \in Nat
    BY BalanceTypes
  <2>2. comps[a][b] = <<>>
    BY <1>7, <1>10, TokenCases DEF TokenInv
  <2>3. Said(a, b) = 0
    BY <2>2 DEF Said
  <2>4. Said(a, b)' = win[a].puts[b]
    <3>1. comps'[a][b] = <<win[a].puts[b]>>
      BY <1>5, <1>10, <2>2
    <3> QED
      BY <3>1 DEF Said
  <2>5. Owed(a, b) = win[a].puts[b] /\ ~Ahead(a, b)
    BY <1>6, EvenOwed
  <2>6. Owed(a, b)' = 0 /\ ~Ahead(b, a)'
    BY <1>1, <1>3, <1>6, <1>10 DEF Owed, Ahead
  <2>7. win'[b].src[a] + Said(a, b)' + Owed(a, b)' = flight'[a][b]
    BY <1>1, <1>8, <1>9, <2>1, <2>3, <2>4, <2>5, <2>6 DEF Balance
  <2> QED
    BY <1>1, <1>7, <1>8, <1>9, <2>5, <2>6, <2>7 DEF Balance
<1>11. CASE ~(a = p /\ b \in win[p].start)
  <2>1. comps'[a][b] = comps[a][b]
    BY <1>5, <1>11
  <2>2. win'[a].puts[b] = win[a].puts[b]
    BY <1>2, <1>3, <1>11
  <2> QED
    BY <1>1, <1>7, <1>8, <1>9, <2>1, <2>2, BalanceFrame
<1> QED
  BY <1>10, <1>11

(* A COMPLETE is received. *)
LEMMA RecvCompleteBalance ==
    ASSUME ActiveType, LocalInv, FenceInv, TokenInv, BalanceInv, NEW p \in Rank, RecvComplete(p),
           NEW a \in Rank, NEW b \in Rank
    PROVE  Balance(a, b)'
<1>1. PICK t \in Rank :
         /\ call[p].at = "wait" /\ First(p, t) /\ comps[t][p] # <<>>
         /\ win' \in [Rank -> Window] /\ \A q \in Rank : q # p => win'[q] = win[q]
         /\ win'[p].epoch = win[p].epoch /\ win'[p].start = win[p].start
         /\ win'[p].post = win[p].post /\ win'[p].puts = win[p].puts
         /\ win'[p].pend = win[p].pend
         /\ win'[p].src = [win[p].src EXCEPT ![t] = win[p].src[t] + Head(comps[t][p])]
         /\ win'[p].recvd = win[p].recvd - Head(comps[t][p])
         /\ win'[p].ops = win[p].ops
         /\ call' \in [Rank -> Call] /\ \A q \in Rank : q # p => call'[q] = call[q]
         /\ call'[p].at = "waitOps" /\ call'[p].todo = call[p].todo
         /\ call'[p].total = call[p].total
         /\ prog' = prog /\ flight' = flight /\ posts' = posts
         /\ comps' \in [Rank -> [Rank -> Seq(0..MaxOps)]]
         /\ \A x, y \in Rank : comps'[x][y] = IF x = t /\ y = p THEN Tail(comps[x][y]) ELSE comps[x][y]
         /\ coll' = coll
  BY RecvCompleteEff
<1>2. coll[a].bar = coll[b].bar
  BY <1>1, BarsEqual DEF FenceAt
<1>3. /\ Due(t, p)
      /\ Reported(a, b)' <=> Reported(a, b) \/ (a = t /\ b = p)
      /\ Due(a, b)' <=> Due(a, b) /\ ~(a = t /\ b = p)
  <2>1. \A q \in Rank : win'[q].start = win[q].start /\ win'[q].post = win[q].post
    BY <1>1
  <2> QED
    BY <1>1, <2>1, RecvCompletePairs, ZenonT(30)
<1>4. Balance(a, b)
  BY DEF BalanceInv
<1>5. win[p].src \in [Rank -> Int]
  BY WinFields
<1>6. win'[a].puts[b] = win[a].puts[b] /\ win'[a].epoch = win[a].epoch
  BY <1>1
<1>7. CASE a = t /\ b = p
  <2>1. win[b].src[a] \in Int /\ Said(a, b) \in Nat /\ win[a].puts[b] \in Nat
    BY BalanceTypes
  <2>2. comps[a][b] \in Seq(0..MaxOps) /\ Len(comps[a][b]) = 1
    <3>1. comps[a][b] \in Seq(0..MaxOps) /\ (Len(comps[a][b]) = 0 <=> comps[a][b] = <<>>)
      BY TokenTypes
    <3>2. Len(comps[a][b]) \in {0, 1}
      BY TokenCases DEF TokenInv
    <3> QED
      BY <1>1, <1>7, <3>1, <3>2
  <2>3. comps'[a][b] = <<>>
    <3>1. comps'[a][b] = Tail(comps[a][b])
      BY <1>1, <1>7
    <3>2. comps'[a][b] \in Seq(0..MaxOps)
      BY <1>1
    <3>3. Len(comps'[a][b]) = 0
      BY <2>2, <3>1
    <3> QED
      BY <3>2, <3>3
  <2>4. Said(a, b) = Head(comps[a][b]) /\ Said(a, b)' = 0
    BY <1>1, <1>7, <2>3 DEF Said
  <2>5. win'[b].src[a] = win[b].src[a] + Said(a, b)
    BY <1>1, <1>5, <1>7, <2>4
  <2>6. Owed(a, b) = win[a].puts[b]
    BY <1>2, EvenOwed
  <2>7. Owed(a, b)' = win[a].puts[b] /\ ~Ahead(b, a)'
    BY <1>1, <1>2, <1>6 DEF Owed, Ahead
  <2>8. win'[b].src[a] + Said(a, b)' + Owed(a, b)' = flight'[a][b]
    <3>1. flight'[a][b] = win[b].src[a] + Said(a, b) + win[a].puts[b]
      BY <1>1, <1>4, <2>6 DEF Balance
    <3> QED
      BY <2>1, <2>4, <2>5, <2>7, <3>1
  <2> QED
    BY <1>3, <1>7, <2>7, <2>8 DEF Balance
<1>8. CASE ~(a = t /\ b = p)
  <2>1. win'[b].src[a] = win[b].src[a]
    <3>1. CASE b = p
      BY <1>1, <1>5, <1>8, <3>1
    <3>2. CASE b # p
      <4>1. win'[b] = win[b]
        BY <1>1, <3>2
      <4> QED
        BY <4>1
    <3> QED
      BY <3>1, <3>2
  <2>2. comps'[a][b] = comps[a][b] /\ flight' = flight /\ coll' = coll
    BY <1>1, <1>8
  <2> QED
    BY <1>3, <1>4, <1>6, <1>8, <2>1, <2>2, BalanceFrame
<1> QED
  BY <1>7, <1>8

(* Wait has waited for the operations of a rank: nothing of it is under way. *)
LEMMA WaitedOpsBalance ==
    ASSUME ActiveType, LocalInv, FenceInv, TokenInv, BalanceInv, NEW p \in Rank, WaitedOps(p),
           NEW a \in Rank, NEW b \in Rank
    PROVE  Balance(a, b)'
<1>1. PICK t \in Rank :
         /\ call[p].at = "waitOps" /\ First(p, t) /\ win[p].src[t] = 0
         /\ win' = win
         /\ call' \in [Rank -> Call] /\ \A q \in Rank : q # p => call'[q] = call[q]
         /\ call'[p].at = "wait" /\ call'[p].todo = call[p].todo \ {t}
         /\ call'[p].total = call[p].total
         /\ prog' = prog /\ flight' = flight /\ posts' = posts /\ comps' = comps
         /\ coll' = coll
  BY WaitedOpsEff
<1>2. coll[a].bar = coll[b].bar
  BY <1>1, BarsEqual DEF FenceAt
<1>3. /\ Reported(t, p)
      /\ Reported(a, b)' <=> Reported(a, b) /\ ~(a = t /\ b = p)
      /\ Due(a, b)' <=> Due(a, b)
  BY <1>1, WaitedOpsPairs
<1>4. Balance(a, b)
  BY DEF BalanceInv
<1>5. Said(a, b)' = Said(a, b) /\ Owed(a, b)' = Owed(a, b)
  BY <1>1 DEF Said, Owed
<1>6. (Ahead(a, b)' <=> Ahead(a, b)) /\ (Ahead(b, a)' <=> Ahead(b, a))
  BY <1>1 DEF Ahead
<1>7. a = t /\ b = p => flight[a][b] = 0 \/ win[a].epoch = "FENCE"
  <2> SUFFICES ASSUME a = t, b = p, win[a].epoch # "FENCE" PROVE flight[a][b] = 0
    OBVIOUS
  <2>1. ~Due(a, b)
    BY <1>3 DEF Due
  <2>2. ~Held(a, b) /\ comps[a][b] = <<>>
    BY <2>1, TokenCases DEF TokenInv
  <2>3. Said(a, b) = 0
    BY <2>2 DEF Said
  <2>4. win[a].puts[b] = 0
    <3>1. b \notin win[a].start
      BY <2>2 DEF Held
    <3>2. win[a].puts[b] \in Nat
      BY BalanceTypes
    <3> QED
      BY <3>1, <3>2 DEF LocalInv, Local
  <2>5. Owed(a, b) = 0
    BY <1>2, <2>4, EvenOwed
  <2> QED
    BY <1>1, <1>4, <2>3, <2>5 DEF Balance
<1>8. flight[a][b] \in Nat
  BY BalanceTypes
<1> QED
  BY <1>1, <1>3, <1>4, <1>5, <1>6, <1>7, <1>8 DEF Balance

(* Fence has as many operations as the others have counted: then none is under  *)
(* way to this rank, from whichever rank.                                      *)
LEMMA FenceArrived ==
    ASSUME ActiveType, LocalInv, FenceInv, TokenInv, ReceivedInv, BalanceInv, NEW p \in Rank,
           call[p].at = "fence", win[p].recvd = call[p].total
    PROVE  \A q \in Rank : flight[q][p] = 0
<1> DEFINE col == [q \in Rank |-> flight[q][p]]
<1>1. \A q \in Rank : coll[q].red = coll[p].red /\ coll[q].red \in BOOLEAN /\ coll[q].bar \in BOOLEAN
  BY CollFields DEF FenceInv
<1>2. coll[p].red # coll[p].bar
  BY DEF FenceInv, InFence
<1>3. ASSUME NEW q \in Rank PROVE Owed(q, p) = coll[q].contrib[p]
  <2>1. CASE coll[q].bar = coll[p].bar
    <3>1. InFence(q)
      BY <1>1, <1>2, <2>1 DEF FenceInv
    <3>2. coll[q].contrib = win[q].puts
      BY <3>1 DEF LocalInv, Local
    <3> QED
      BY <2>1, <3>2, EvenOwed
  <2>2. CASE coll[q].bar # coll[p].bar
    <3>1. coll[q].bar = coll[q].red
      BY <1>1, <1>2, <2>2
    <3> QED
      BY <2>2, <3>1 DEF Owed
  <2> QED
    BY <2>1, <2>2
<1>4. Contribs(p) \in [Rank -> Int] /\ \A q \in Rank : Contribs(p)[q] = coll[q].contrib[p]
  <2>1. \A q \in Rank : coll[q].contrib[p] \in Int
    BY CollFields
  <2> QED
    BY <2>1 DEF Contribs
<1>5. ASSUME NEW q \in Rank PROVE col[q] = win[p].src[q] + Contribs(p)[q]
  <2>1. win[p].src[q] \in Int /\ Owed(q, p) \in Nat
    BY BalanceTypes
  <2>2. Said(q, p) = 0
    BY FenceGroups DEF FenceAt
  <2>3. win[p].src[q] + Said(q, p) + Owed(q, p) = flight[q][p]
    BY DEF BalanceInv, Balance
  <2> QED
    BY <1>3, <1>4, <2>1, <2>2, <2>3
<1>6. col \in [Rank -> Nat] /\ \A q \in Rank : col[q] = flight[q][p]
  BY DEF ActiveType
<1>7. win[p].src \in [Rank -> Int]
  BY WinFields
<1> HIDE DEF col
<1>8. Total(col) = Total(win[p].src) + Total(Contribs(p))
  <2>1. col \in [Rank -> Int]
    BY <1>6
  <2> QED
    BY <1>4, <1>5, <1>7, <2>1, TotalAdd
<1>9. Total(win[p].src) \in Int /\ Total(Contribs(p)) \in Int
  BY <1>4, <1>7, TotalType
<1>10. win[p].recvd = 0 - Total(win[p].src) /\ call[p].total = Total(Contribs(p))
  BY DEF ReceivedInv, FenceInv
<1>11. Total(col) = 0
  <2>1. PICK s \in Int : s = Total(win[p].src)
    BY <1>9
  <2>2. PICK c \in Int : c = Total(Contribs(p))
    BY <1>9
  <2>3. 0 - s = c
    BY <1>10, <2>1, <2>2
  <2>4. s + c = 0
    BY ONLY s \in Int, c \in Int, <2>3
  <2> QED
    BY <1>8, <2>1, <2>2, <2>4
<1> QED
  BY <1>6, <1>11, TotalOfNaturals

(* The wait of fence ends. *)
LEMMA FenceWaitedBalance ==
    ASSUME ActiveType, LocalInv, FenceInv, TokenInv, ReceivedInv, BalanceInv, NEW p \in Rank, FenceWaited(p),
           NEW a \in Rank, NEW b \in Rank
    PROVE  Balance(a, b)'
<1>1. call[p].at = "fence" /\ win[p].recvd = call[p].total /\ flight' = flight /\ comps' = comps
  BY FenceWaitedEff
<1>2. \A q \in Rank : q # p => win'[q] = win[q]
  BY FenceWaitedEff
<1>3. \A q \in Rank : q # p => call'[q] = call[q]
  BY FenceWaitedEff
<1>4. \A q \in Rank : q # p => coll'[q] = coll[q]
  BY FenceWaitedEff
<1>5. win'[p].puts = [x \in Rank |-> 0] /\ win'[p].src = [x \in Rank |-> 0]
  BY FenceWaitedEff
<1>6. coll'[p].red = coll[p].red /\ coll'[p].bar = ~coll[p].bar /\ coll'[p].contrib = coll[p].contrib
  BY FenceWaitedEff
<1>7. \A q \in Rank : coll[q].red = coll[p].red /\ coll[q].red \in BOOLEAN /\ coll[q].bar \in BOOLEAN
  BY <1>1, CollFields DEF FenceInv
<1>8. coll[p].red # coll[p].bar /\ coll'[p].bar = coll[p].red
  <2>1. coll[p].red # coll[p].bar
    BY <1>1 DEF FenceInv, InFence
  <2> QED
    BY <1>6, <1>7, <2>1
<1>9. Said(a, b)' = Said(a, b)
  BY <1>1 DEF Said
<1>10. Balance(a, b)
  BY DEF BalanceInv
<1>11. CASE b = p
  <2>1. flight'[a][b] = 0
    BY <1>1, <1>11, FenceArrived
  <2>2. Said(a, b)' = 0
    BY <1>1, <1>9, <1>11, FenceGroups DEF FenceAt
  <2>3. win'[b].src[a] = 0
    BY <1>5, <1>11
  <2>4. Owed(a, b)' = 0
    <3>1. CASE a = p
      BY <1>5, <1>11, <3>1 DEF Owed
    <3>2. CASE a # p /\ coll[a].bar = coll'[p].bar
      <4>1. coll[a].bar = coll[a].red /\ coll[a].bar # coll[p].bar
        BY <1>7, <1>8, <3>2
      <4>2. call[a].at = "barrier"
        BY <4>1 DEF FenceInv
      <4>3. win[a].start = {} /\ win[a].epoch = "FENCE_ISSUED"
        BY <4>2, FenceGroups DEF FenceAt, LocalInv, Local
      <4>4. win[a].puts[b] = 0
        <5>1. win[a].puts[b] \in Nat
          BY BalanceTypes
        <5> QED
          BY <4>3, <5>1 DEF LocalInv, Local
      <4> QED
        BY <1>2, <1>4, <1>11, <3>2, <4>4 DEF Owed
    <3>3. CASE a # p /\ coll[a].bar # coll'[p].bar
      <4>1. coll'[a].bar # coll'[b].bar /\ coll'[a].bar # coll'[a].red
        BY <1>4, <1>7, <1>8, <1>11, <3>3
      <4> QED
        BY <4>1 DEF Owed
    <3> QED
      BY <3>1, <3>2, <3>3
  <2> QED
    BY <2>1, <2>2, <2>3, <2>4 DEF Balance
<1>12. CASE a = p /\ b # p
  <2>1. win'[b].src[a] = win[b].src[a] /\ coll'[b] = coll[b] /\ flight'[a][b] = flight[a][b]
    BY <1>1, <1>2, <1>4, <1>12
  <2>2. CASE coll[b].bar = coll'[p].bar
    <3>1. Ahead(b, a)
      BY <1>7, <1>8, <1>12, <2>2 DEF Ahead
    <3>2. win[b].src[a] = 0 /\ Said(a, b) = 0 /\ flight[a][b] = 0
      BY <1>10, <3>1, AheadClear
    <3>3. Owed(a, b)' = 0
      BY <1>5, <1>12, <2>1, <2>2 DEF Owed
    <3> QED
      BY <1>9, <2>1, <3>2, <3>3 DEF Balance
  <2>3. CASE coll[b].bar # coll'[p].bar
    <3>1. coll[b].bar = coll[a].bar /\ coll[b].bar # coll[b].red
      BY <1>7, <1>8, <1>12, <2>3
    <3>2. Owed(a, b) = coll[a].contrib[b]
      <4>1. Owed(a, b) = win[a].puts[b]
        BY <3>1, EvenOwed
      <4>2. coll[a].contrib = win[a].puts
        BY <1>1, <1>12 DEF LocalInv, Local, InFence
      <4> QED
        BY <4>1, <4>2
    <3>3. Owed(a, b)' = coll[a].contrib[b] /\ Ahead(a, b)' /\ ~Ahead(b, a)'
      BY <1>6, <1>8, <1>12, <2>1, <2>3, <3>1 DEF Owed, Ahead
    <3> QED
      BY <1>9, <1>10, <2>1, <3>2, <3>3 DEF Balance
  <2> QED
    BY <2>2, <2>3
<1>13. CASE a # p /\ b # p
  <2>1. win'[a] = win[a] /\ win'[b] = win[b] /\ coll'[a] = coll[a] /\ coll'[b] = coll[b] /\ call'[b] = call[b]
    BY <1>2, <1>3, <1>4, <1>13
  <2>2. (Due(a, b)' <=> Due(a, b)) /\ (Reported(a, b)' <=> Reported(a, b))
    BY <2>1, DueFrame
  <2> QED
    BY <1>1, <1>10, <2>1, <2>2, BalanceFrame
<1> QED
  BY <1>11, <1>12, <1>13

(* The counters of every origin and target are in balance, whatever the          *)
(* programs are: COMPLETE and the sum of fence say of every operation under way   *)
(* exactly once that it will come.                                              *)
THEOREM BalanceHolds == Spec => []BalanceInv
<1>1. Init => BalanceInv
  <2> SUFFICES ASSUME Init, NEW p \in Rank, NEW t \in Rank PROVE Balance(p, t)
    BY DEF BalanceInv
  <2>1. win[t].src[p] = 0 /\ win[p].puts[t] = 0 /\ comps[p][t] = <<>> /\ flight[p][t] = 0
    BY DEF Init
  <2>2. coll[p].bar = coll[t].bar
    BY DEF Init
  <2>3. Said(p, t) = 0 /\ Owed(p, t) = 0
    BY <2>1, <2>2 DEF Said, Owed
  <2> QED
    BY <2>1, <2>3 DEF Balance
<1>2. ActiveType /\ LocalInv /\ FenceInv /\ TokenInv /\ ReceivedInv /\ BalanceInv /\ [Next]_vars => BalanceInv'
  <2> SUFFICES ASSUME ActiveType, LocalInv, FenceInv, TokenInv, ReceivedInv, BalanceInv, [Next]_vars
               PROVE  BalanceInv'
    OBVIOUS
  <2>1. CASE UNCHANGED vars
    <3>1. CountersKept
      BY <2>1 DEF vars, CountersKept
    <3>2. \A a, b \in Rank : (Due(a, b)' <=> Due(a, b)) /\ (Reported(a, b)' <=> Reported(a, b))
      BY <2>1, DueFrame DEF vars
    <3> QED
      BY <3>1, <3>2, CountersKeptBalance
  <2>2. CASE Next
    <3>1. PICK p \in Rank : FenceStep(p) \/ AccessStep(p) \/ ExposureStep(p) \/ OpStep(p) \/ Refuse(p)
      BY <2>2 DEF Next
    <3>2. CASE QuietStep(p)
      <4>1. CountersKept
        BY <3>2, CountersKeptBy
      <4>2. \A a, b \in Rank : Due(a, b) \/ Reported(a, b) => Due(a, b)' \/ Reported(a, b)'
        BY <3>2, ExposureKeptBy
      <4> QED
        BY <4>1, <4>2, CountersKeptBalance
    <3>3. ASSUME NEW t \in Rank, Put(p, t) PROVE BalanceInv'
      BY <3>3, PutBalance DEF BalanceInv
    <3>4. ASSUME NEW t \in Rank, OpArrives(p, t) PROVE BalanceInv'
      BY <3>4, OpArrivesBalance DEF BalanceInv
    <3>5. CASE Win_fence(p)
      BY <3>5, Win_fenceBalance DEF BalanceInv
    <3>6. CASE FenceWaited(p)
      BY <3>6, FenceWaitedBalance DEF BalanceInv
    <3>7. CASE CompleteSend(p)
      BY <3>7, CompleteSendBalance DEF BalanceInv
    <3>8. CASE RecvComplete(p)
      BY <3>8, RecvCompleteBalance DEF BalanceInv
    <3>9. CASE WaitedOps(p)
      BY <3>9, WaitedOpsBalance DEF BalanceInv
    <3> QED
      BY <3>1, <3>2, <3>3, <3>4, <3>5, <3>6, <3>7, <3>8, <3>9, StepCases
  <2> QED
    BY <2>1, <2>2
<1> QED
  BY <1>1, <1>2, LocalHolds, FenceHolds, TokenHolds, ReceivedHolds, PTL DEF Spec

-----------------------------------------------------------------------------
(* What epochs promise *)

(* An origin with operations under way is exposed to, or in a fence epoch. *)
LEMMA UnderWay ==
    ASSUME ActiveType, LocalInv, FenceInv, TokenInv, BalanceInv, NEW p \in Rank, NEW t \in Rank,
           flight[p][t] > 0
    PROVE  p \in win[t].post \/ win[p].epoch = "FENCE" \/ call[p].at = "barrier"
<1>1. Due(p, t) \/ Reported(p, t) \/ win[p].epoch = "FENCE" \/ Ahead(p, t)
  BY DEF BalanceInv, Balance
<1>2. Due(p, t) => p \in win[t].post
  BY DEF Due
<1>3. Reported(p, t) => p \in win[t].post
  BY DEF Reported, First, LocalInv, Local, InWait
<1>4. Ahead(p, t) => call[p].at = "barrier"
  BY DEF Ahead, FenceInv
<1> QED
  BY <1>1, <1>2, <1>3, <1>4

(* An operation of a start/complete epoch is under way only between post and     *)
(* the end of wait of its target, for any number of ranks and any programs.      *)
THEOREM AccessInExposureHolds == Spec => []AccessInExposure
<1>1. ActiveType /\ LocalInv /\ FenceInv /\ TokenInv /\ BalanceInv => AccessInExposure
  <2> SUFFICES ASSUME ActiveType, LocalInv, FenceInv, TokenInv, BalanceInv,
                      NEW p \in Rank, NEW t \in Rank, flight[p][t] > 0,
                      win[p].epoch \in {"START", "PSCW"} \/ comps[p][t] # <<>>
               PROVE  p \in win[t].post
    BY DEF AccessInExposure
  <2>1. CASE comps[p][t] # <<>>
    BY <2>1, TokenCases DEF TokenInv, Due
  <2>2. CASE win[p].epoch \in {"START", "PSCW"}
    <3>1. call[p].at # "barrier"
      BY <2>2 DEF LocalInv, Local
    <3> QED
      BY <2>2, <3>1, UnderWay
  <2> QED
    BY <2>1, <2>2
<1> QED
  BY <1>1, LocalHolds, FenceHolds, TokenHolds, BalanceHolds, PTL

(* MPI's rule for fence: where one rank accesses others between two fences, all   *)
(* ranks are between these fences and use no other synchronisation there.  The     *)
(* code does not check it.                                                      *)
FenceUsedTogether ==
    \A p, q \in Rank : win[p].epoch = "FENCE" => win[q].epoch \in {"FENCE", "FENCE_ISSUED"}

(* Nothing is under way to a rank that is neither in fence nor in an exposure      *)
(* epoch, and nothing of it is counted.                                        *)
LEMMA NothingOutside ==
    ASSUME ActiveType, LocalInv, FenceInv, TokenInv, BalanceInv, FenceUsedTogether,
           NEW p \in Rank, NEW t \in Rank, call[t].at \notin FenceAt,
           win[t].epoch \notin {"FENCE", "FENCE_ISSUED"}, ~Due(p, t), ~Reported(p, t)
    PROVE  flight[p][t] = 0 /\ win[t].src[p] = 0
<1>1. coll[p].bar = coll[t].bar
  BY BarsEqual
<1>2. Owed(p, t) = win[p].puts[t] /\ ~Ahead(p, t)
  BY <1>1, EvenOwed
<1>3. win[p].epoch # "FENCE"
  BY DEF FenceUsedTogether
<1>4. /\ win[t].src[p] \in Int /\ Said(p, t) \in Nat /\ flight[p][t] \in Nat /\ win[p].puts[t] \in Nat
  BY BalanceTypes
<1>5. flight[p][t] = 0
  BY <1>2, <1>3, <1>4 DEF BalanceInv, Balance
<1>6. comps[p][t] = <<>> /\ ~Held(p, t)
  BY TokenCases DEF TokenInv
<1>7. Said(p, t) = 0
  BY <1>6 DEF Said
<1>8. win[p].puts[t] = 0
  BY <1>3, <1>4, <1>6 DEF Held, LocalInv, Local
<1>9. win[t].src[p] + 0 + 0 = 0
  BY <1>2, <1>5, <1>7, <1>8 DEF BalanceInv, Balance
<1> QED
  BY <1>4, <1>5, <1>9

(* Where fences are used together, a rank outside of all epochs has its counters   *)
(* at zero.                                                                     *)
THEOREM CleanOutsideEpochsHolds == Spec => [](FenceUsedTogether => CleanOutsideEpochs)
<1>1. ActiveType /\ LocalInv /\ FenceInv /\ TokenInv /\ BalanceInv /\ ReceivedInv
         => (FenceUsedTogether => CleanOutsideEpochs)
  <2> SUFFICES ASSUME ActiveType, LocalInv, FenceInv, TokenInv, BalanceInv, ReceivedInv, FenceUsedTogether,
                      NEW t \in Rank, win[t].epoch = "NONE", call[t].at = "none"
               PROVE  /\ win[t].recvd = 0
                      /\ \A p \in Rank : win[t].src[p] = 0 /\ win[t].puts[p] = 0
    BY DEF CleanOutsideEpochs
  <2>1. win[t].post = {} /\ win[t].start = {}
    BY DEF LocalInv, Local, InWait
  <2>2. \A p \in Rank : win[t].puts[p] = 0
    <3>1. \A p \in Rank : win[t].puts[p] \in Nat
      BY BalanceTypes
    <3> QED
      BY <2>1, <3>1 DEF LocalInv, Local
  <2>3. \A p \in Rank : ~Due(p, t) /\ ~Reported(p, t)
    BY <2>1 DEF Due, Reported
  <2>4. \A p \in Rank : win[t].src[p] = 0
    BY <2>3, NothingOutside DEF FenceAt
  <2>5. Total(win[t].src) = 0
    <3>1. win[t].src \in [Rank -> Int]
      BY WinFields
    <3> QED
      BY <2>4, <3>1, TotalZero
  <2>6. win[t].recvd = 0
    BY <2>5 DEF ReceivedInv
  <2> QED
    BY <2>2, <2>4, <2>6
<1> QED
  BY <1>1, LocalHolds, FenceHolds, TokenHolds, BalanceHolds, ReceivedHolds, PTL

(* Which steps return from wait and from fence. *)
LEMMA Returns ==
    ASSUME ActiveType, LocalInv, [Next]_vars, NEW t \in Rank, call[t].at \in {"wait", "barrier"},
           call'[t].at = "none"
    PROVE  WaitDone(t) \/ FenceDone(t)
<1>1. Next
  BY DEF vars
<1>2. PICK p \in Rank : FenceStep(p) \/ AccessStep(p) \/ ExposureStep(p) \/ OpStep(p) \/ Refuse(p)
  BY <1>1 DEF Next
<1>3. CASE OpStep(p) \/ Refuse(p)
  <2>1. call' = call
    BY <1>3 DEF OpStep, Refuse, OpDone, Put, Get, OpArrives
  <2> QED
    BY <2>1
<1>4. CASE FenceStep(p)
  <2>1. CASE Win_fence(p)
    BY <2>1, Win_fenceEff DEF Running
  <2>2. CASE FenceReduced(p)
    BY <2>2, FenceReducedEff
  <2>3. CASE FenceWaited(p)
    BY <2>3, FenceWaitedEff
  <2>4. CASE FenceDone(p)
    BY <2>4, FenceDoneEff
  <2> QED
    BY <1>4, <2>1, <2>2, <2>3, <2>4 DEF FenceStep
<1>5. CASE AccessStep(p)
  <2>1. CASE Win_start(p)
    BY <2>1, Win_startEff DEF Running
  <2>2. CASE RecvPost(p)
    BY <2>2, RecvPostEff
  <2>3. CASE StartDone(p)
    BY <2>3, StartDoneEff
  <2>4. CASE Win_complete(p)
    BY <2>4, Win_completeEff DEF Running
  <2>5. CASE CompleteSend(p)
    BY <2>5, CompleteSendEff
  <2> QED
    BY <1>5, <2>1, <2>2, <2>3, <2>4, <2>5 DEF AccessStep
<1>6. CASE ExposureStep(p)
  <2>1. CASE Win_post(p)
    BY <2>1, Win_postEff DEF Running
  <2>2. CASE Win_wait(p) \/ Win_test(p)
    BY <2>2, EnterWaitEff DEF Running
  <2>3. CASE RecvComplete(p)
    <3>1. call[p].at = "wait" /\ call' = [call EXCEPT ![p].at = "waitOps"]
      BY <2>3 DEF RecvComplete
    <3> QED
      BY <3>1 DEF ActiveType
  <2>4. CASE WaitedOps(p)
    BY <2>4, WaitedOpsEff
  <2>5. CASE WaitDone(p)
    BY <2>5, WaitDoneEff
  <2> QED
    BY <1>6, <2>1, <2>2, <2>3, <2>4, <2>5 DEF ExposureStep
<1> QED
  BY <1>2, <1>3, <1>4, <1>5, <1>6

(* Nothing is under way between two ranks in a barrier that all have entered. *)
LEMMA NothingInBarrier ==
    ASSUME ActiveType, LocalInv, TokenInv, BalanceInv, NEW p \in Rank, NEW t \in Rank,
           call[p].at = "barrier", call[t].at = "barrier", coll[p].bar = coll[t].bar
    PROVE  flight[p][t] = 0
<1>1. ~Due(p, t) /\ ~Reported(p, t)
  BY FenceGroups DEF FenceAt
<1>2. win[p].epoch # "FENCE"
  BY DEF LocalInv, Local
<1>3. ~Ahead(p, t)
  BY EvenOwed
<1>4. flight[p][t] \in Nat
  BY BalanceTypes
<1> QED
  BY <1>1, <1>2, <1>3, <1>4 DEF BalanceInv, Balance

(* Where fences are used together, wait returns when the operations of the whole   *)
(* group have arrived, and fence when those of all ranks in the barrier have.       *)
THEOREM EpochCompleteHolds == Spec /\ []FenceUsedTogether => EpochComplete
<1> DEFINE Complete ==
      \A t \in Rank :
          /\ call[t].at = "wait" /\ call'[t].at = "none" =>
                \A p \in win[t].post : flight[p][t] = 0
          /\ call[t].at = "barrier" /\ call'[t].at = "none" =>
                \A p \in Rank : call[p].at = "barrier" => flight[p][t] = 0 /\ flight[t][p] = 0
<1>1. ActiveType /\ LocalInv /\ FenceInv /\ TokenInv /\ BalanceInv /\ FenceUsedTogether /\ [Next]_vars
         => [Complete]_vars
  <2> SUFFICES ASSUME ActiveType, LocalInv, FenceInv, TokenInv, BalanceInv, FenceUsedTogether, [Next]_vars,
                      NEW t \in Rank, call'[t].at = "none"
               PROVE  /\ call[t].at = "wait" => \A p \in win[t].post : flight[p][t] = 0
                      /\ call[t].at = "barrier" =>
                           \A p \in Rank : call[p].at = "barrier" => flight[p][t] = 0 /\ flight[t][p] = 0
    OBVIOUS
  <2>1. ASSUME call[t].at = "wait", NEW p \in win[t].post PROVE flight[p][t] = 0
    <3>1. WaitDone(t)
      BY <2>1, Returns DEF FenceDone
    <3>2. p \in Rank
      BY WinFields
    <3>3. ~Due(p, t) /\ ~Reported(p, t)
      BY <3>1, <3>2, WaitDonePairs
    <3>4. win[t].epoch \notin {"FENCE", "FENCE_ISSUED"}
      BY <2>1 DEF LocalInv, Local, InWait
    <3> QED
      BY <2>1, <3>2, <3>3, <3>4, NothingOutside DEF FenceAt
  <2>2. ASSUME call[t].at = "barrier", NEW p \in Rank, call[p].at = "barrier"
        PROVE  flight[p][t] = 0 /\ flight[t][p] = 0
    <3>1. FenceDone(t)
      BY <2>2, Returns DEF WaitDone
    <3>2. coll[p].bar = coll[t].bar
      BY <3>1 DEF FenceDone
    <3> QED
      BY <2>2, <3>2, NothingInBarrier
  <2> QED
    BY <2>1, <2>2
<1>2. Spec /\ []FenceUsedTogether => [][Complete]_vars
  BY <1>1, LocalHolds, FenceHolds, TokenHolds, BalanceHolds, PTL DEF Spec
<1> QED
  BY <1>2 DEF EpochComplete

(* Programs that use only one kind of synchronisation. *)
NoFences == Programs \subseteq [Rank -> Seq({c \in SyncCall : c.op # "fence"})]
OnlyFences == Programs \subseteq [Rank -> Seq({c \in SyncCall : c.op = "fence"})]

(* What is left of a program is a part of it. *)
LEMMA ProgramsKept ==
    ASSUME NEW S, LocalInv, prog \in [Rank -> Seq(S)], [Next]_vars
    PROVE  prog' \in [Rank -> Seq(S)]
<1>1. CASE prog' = prog
  BY <1>1
<1>2. ASSUME NEW p \in Rank, prog[p] # <<>>, prog' = [prog EXCEPT ![p] = Tail(prog[p])]
      PROVE  prog' \in [Rank -> Seq(S)]
  <2>1. Tail(prog[p]) \in Seq(S)
    BY <1>2
  <2> QED
    BY <1>2, <2>1
<1>3. ASSUME NEW p \in Rank, FenceStep(p) \/ AccessStep(p) \/ ExposureStep(p) \/ OpStep(p) \/ Refuse(p)
      PROVE  prog' = prog \/ (prog[p] # <<>> /\ prog' = [prog EXCEPT ![p] = Tail(prog[p])])
  <2>0. call[p].at # "none" => prog[p] # <<>>
    BY DEF LocalInv, Local
  <2>1. CASE FenceStep(p)
    BY <2>0, <2>1 DEF FenceStep, Win_fence, FenceReduced, FenceWaited, FenceDone, Return
  <2>2. CASE AccessStep(p)
    BY <2>0, <2>2 DEF AccessStep, Win_start, RecvPost, StartDone, Win_complete, CompleteSend, Return
  <2>3. CASE ExposureStep(p)
    BY <2>0, <2>3 DEF ExposureStep, Win_post, Win_wait, Win_test, EnterWait, RecvComplete, WaitedOps, WaitDone,
       Return, Calls, NextIs
  <2>4. CASE OpStep(p)
    BY <2>4 DEF OpStep, OpDone, Put, Get, OpArrives
  <2>5. CASE Refuse(p)
    BY <2>5 DEF Refuse
  <2> QED
    BY <1>3, <2>1, <2>2, <2>3, <2>4, <2>5
<1>4. CASE UNCHANGED vars
  BY <1>4 DEF vars
<1> QED
  BY <1>1, <1>2, <1>3, <1>4 DEF Next

(* The next call of a program is one of its calls. *)
LEMMA NextCall ==
    ASSUME NEW S, prog \in [Rank -> Seq(S)], NEW p \in Rank, prog[p] # <<>>
    PROVE  Head(prog[p]) \in S
BY SeqParts

(* Without fences there is no fence epoch. *)
NoFenceInv == \A p \in Rank : win[p].epoch \notin {"FENCE", "FENCE_ISSUED"} /\ call[p].at \notin FenceAt

(* It stays so. *)
LEMMA NoFenceStep ==
    ASSUME ActiveType, LocalInv, NoFenceInv, [Next]_vars, prog \in [Rank -> Seq({c \in SyncCall : c.op # "fence"})]
    PROVE  NoFenceInv'
<1>1. CASE UNCHANGED vars
  BY <1>1 DEF vars, NoFenceInv
<1>2. CASE Next
  <2>1. PICK p \in Rank : FenceStep(p) \/ AccessStep(p) \/ ExposureStep(p) \/ OpStep(p) \/ Refuse(p)
    BY <1>2 DEF Next
  <2> DEFINE Keeps == /\ \A q \in Rank : q # p => win'[q].epoch = win[q].epoch /\ call'[q] = call[q]
                      /\ win'[p].epoch \notin {"FENCE", "FENCE_ISSUED"} /\ call'[p].at \notin FenceAt
  <2>2. win[p].epoch \notin {"FENCE", "FENCE_ISSUED"} /\ call[p].at \notin FenceAt
    BY DEF NoFenceInv
  <2>3. CASE FenceStep(p)
    <3>1. ~Win_fence(p)
      <4>1. prog[p] # <<>> => Head(prog[p]) \in {c \in SyncCall : c.op # "fence"}
        BY NextCall, Zenon
      <4> QED
        BY <4>1 DEF Win_fence, Calls, NextIs
    <3> QED
      BY <2>2, <2>3, <3>1 DEF FenceStep, FenceReduced, FenceWaited, FenceDone, FenceAt
  <2>4. CASE AccessStep(p)
    <3> SUFFICES Keeps
      BY DEF NoFenceInv
    <3>1. CASE Win_start(p)
      BY <3>1, <2>2, Win_startEff DEF FenceAt
    <3>2. CASE RecvPost(p)
      BY <3>2, <2>2, RecvPostEff DEF FenceAt
    <3>3. CASE StartDone(p)
      BY <3>3, <2>2, StartDoneEff DEF FenceAt
    <3>4. CASE Win_complete(p)
      BY <3>4, <2>2, Win_completeEff DEF FenceAt
    <3>5. CASE CompleteSend(p)
      BY <3>5, <2>2, CompleteSendEff, ZenonT(40) DEF FenceAt
    <3> QED
      BY <2>4, <3>1, <3>2, <3>3, <3>4, <3>5 DEF AccessStep
  <2>5. CASE ExposureStep(p)
    <3> SUFFICES Keeps
      BY DEF NoFenceInv
    <3>1. CASE Win_post(p)
      BY <3>1, <2>2, Win_postEff DEF FenceAt
    <3>2. CASE Win_wait(p) \/ Win_test(p)
      BY <3>2, <2>2, EnterWaitEff DEF FenceAt
    <3>3. CASE RecvComplete(p)
      <4>1. PICK t \in Rank :
               /\ call[p].at = "wait" /\ First(p, t) /\ comps[t][p] # <<>>
               /\ win' \in [Rank -> Window] /\ \A q \in Rank : q # p => win'[q] = win[q]
               /\ win'[p].epoch = win[p].epoch /\ win'[p].start = win[p].start
               /\ win'[p].post = win[p].post /\ win'[p].puts = win[p].puts
               /\ win'[p].pend = win[p].pend
               /\ win'[p].src = [win[p].src EXCEPT ![t] = win[p].src[t] + Head(comps[t][p])]
               /\ win'[p].recvd = win[p].recvd - Head(comps[t][p])
               /\ win'[p].ops = win[p].ops
               /\ call' \in [Rank -> Call] /\ \A q \in Rank : q # p => call'[q] = call[q]
               /\ call'[p].at = "waitOps" /\ call'[p].todo = call[p].todo
               /\ call'[p].total = call[p].total
               /\ prog' = prog /\ flight' = flight /\ posts' = posts
               /\ comps' \in [Rank -> [Rank -> Seq(0..MaxOps)]]
               /\ \A x, y \in Rank : comps'[x][y] = IF x = t /\ y = p THEN Tail(comps[x][y]) ELSE comps[x][y]
               /\ coll' = coll
        BY <3>3, RecvCompleteEff
      <4> QED
        BY <2>2, <4>1 DEF FenceAt
    <3>4. CASE WaitedOps(p)
      BY <3>4, <2>2, WaitedOpsEff DEF FenceAt
    <3>5. CASE WaitDone(p)
      BY <3>5, <2>2, WaitDoneEff DEF FenceAt
    <3> QED
      BY <2>5, <3>1, <3>2, <3>3, <3>4, <3>5 DEF ExposureStep
  <2>6. CASE OpStep(p)
    <3>1. call' = call
      BY <2>6 DEF OpStep, OpDone, Put, Get, OpArrives
    <3>2. CASE OpDone(p)
      BY <3>1, <3>2, <2>2, OpDoneEff DEF NoFenceInv
    <3>3. ASSUME NEW t \in Rank, Put(p, t) PROVE NoFenceInv'
      BY <3>1, <3>3, <2>2, PutEff DEF NoFenceInv, Tracked
    <3>4. ASSUME NEW t \in Rank, Get(p, t) PROVE NoFenceInv'
      BY <3>1, <3>4, <2>2, GetEff DEF NoFenceInv, Tracked
    <3>5. ASSUME NEW t \in Rank, OpArrives(p, t) PROVE NoFenceInv'
      <4>1. \A q \in Rank : win'[q].epoch = win[q].epoch
        BY <3>5, OpArrivesEff
      <4> QED
        BY <3>1, <4>1 DEF NoFenceInv
    <3> QED
      BY <2>6, <3>2, <3>3, <3>4, <3>5 DEF OpStep
  <2>7. CASE Refuse(p)
    BY <2>7, RefuseEff DEF NoFenceInv
  <2> QED
    BY <2>1, <2>3, <2>4, <2>5, <2>6, <2>7
<1> QED
  BY <1>1, <1>2

(* With nothing but fences: while a rank has not come through the wait of its    *)
(* first fence, the others are there too or wait for it in the barrier.           *)
OnlyFenceInv ==
    /\ \A p \in Rank : win[p].epoch \in FenceEpochs /\ call[p].at \in FenceAt \cup {"none"}
    /\ \A q \in Rank : win[q].epoch = "NONE" =>
          /\ coll[q].bar = FALSE
          /\ \A p \in Rank : win[p].epoch = "NONE" \/ (call[p].at = "barrier" /\ coll[p].bar = TRUE)

(* It stays so. *)
LEMMA OnlyFenceStep ==
    ASSUME ActiveType, LocalInv, OnlyFenceInv, [Next]_vars,
           prog \in [Rank -> Seq({c \in SyncCall : c.op = "fence"})]
    PROVE  OnlyFenceInv'
<1>0. ASSUME \A q \in Rank : win'[q].epoch = win[q].epoch, call' = call, coll' = coll
      PROVE  OnlyFenceInv'
  BY <1>0 DEF OnlyFenceInv
<1>1. CASE UNCHANGED vars
  BY <1>0, <1>1 DEF vars
<1>2. CASE Next
  <2>1. PICK p \in Rank : FenceStep(p) \/ AccessStep(p) \/ ExposureStep(p) \/ OpStep(p) \/ Refuse(p)
    BY <1>2 DEF Next
  <2>2. win[p].epoch \in FenceEpochs /\ call[p].at \in FenceAt \cup {"none"}
    BY DEF OnlyFenceInv
  <2>3. CASE AccessStep(p) \/ ExposureStep(p)
    <3>1. prog[p] # <<>> => Head(prog[p]) \in {c \in SyncCall : c.op = "fence"}
      BY NextCall, Zenon
    <3> QED
      BY <2>2, <2>3, <3>1 DEF AccessStep, ExposureStep, Win_start, RecvPost, StartDone, Win_complete, CompleteSend,
         Win_post, Win_wait, Win_test, RecvComplete, WaitedOps, WaitDone, Calls, NextIs, FenceAt
  <2>4. CASE Refuse(p)
    BY <1>0, <2>4, RefuseEff
  <2>5. CASE OpDone(p)
    BY <1>0, <2>5, OpDoneEff
  <2>6. ASSUME NEW t \in Rank, OpArrives(p, t) PROVE OnlyFenceInv'
    BY <1>0, <2>6, OpArrivesEff
  <2>7. ASSUME NEW t \in Rank, Put(p, t) \/ Get(p, t) PROVE OnlyFenceInv'
    <3>1. win'[p].epoch = Tracked(win[p].epoch) /\ \A q \in Rank : q # p => win'[q] = win[q]
      BY <2>7, PutEff, GetEff
    <3>2. call' = call /\ coll' = coll
      BY <2>7 DEF Put, Get
    <3>3. \A q \in Rank : (win'[q].epoch = "NONE" <=> win[q].epoch = "NONE") /\ win'[q].epoch \in FenceEpochs
      BY <3>1 DEF OnlyFenceInv, Tracked, FenceEpochs
    <3> QED
      BY <3>2, <3>3 DEF OnlyFenceInv
  <2>8. CASE Win_fence(p)
    <3>1. win' = win /\ call[p].at = "none" /\ call'[p].at = "reduce" /\ \A q \in Rank : q # p => call'[q] = call[q]
      BY <2>8, Win_fenceEff DEF Running
    <3>2. \A q \in Rank : coll'[q].bar = coll[q].bar
      BY <2>8, Win_fenceEff
    <3> QED
      BY <3>1, <3>2 DEF OnlyFenceInv, FenceAt
  <2>9. CASE FenceReduced(p)
    <3>1. win' = win /\ coll' = coll /\ call[p].at = "reduce" /\ call'[p].at = "fence"
      BY <2>9, FenceReducedEff
    <3>2. \A q \in Rank : q # p => call'[q] = call[q]
      BY <2>9, FenceReducedEff
    <3> QED
      BY <3>1, <3>2 DEF OnlyFenceInv, FenceAt
  <2>10. CASE FenceWaited(p)
    <3>1. win'[p].epoch = "FENCE_ISSUED" /\ call[p].at = "fence" /\ call'[p].at = "barrier"
      BY <2>10, FenceWaitedEff
    <3>2. coll'[p].bar = ~coll[p].bar
      BY <2>10, FenceWaitedEff
    <3>3. \A q \in Rank : q # p => win'[q] = win[q] /\ call'[q] = call[q]
      BY <2>10, FenceWaitedEff
    <3>4. \A q \in Rank : q # p => coll'[q] = coll[q]
      BY <2>10, FenceWaitedEff
    <3>5. \A q \in Rank : win'[q].epoch \in FenceEpochs /\ call'[q].at \in FenceAt \cup {"none"}
      BY <3>1, <3>3 DEF OnlyFenceInv, FenceAt, FenceEpochs
    <3>6. ASSUME NEW q \in Rank, win'[q].epoch = "NONE"
          PROVE  /\ coll'[q].bar = FALSE
                 /\ \A x \in Rank : win'[x].epoch = "NONE" \/ (call'[x].at = "barrier" /\ coll'[x].bar = TRUE)
      <4>1. q # p /\ win[q].epoch = "NONE"
        BY <3>1, <3>3, <3>6
      <4>2. coll[q].bar = FALSE /\ coll[p].bar = FALSE
        BY <3>1, <4>1 DEF OnlyFenceInv
      <4> QED
        BY <3>1, <3>2, <3>3, <3>4, <4>1, <4>2 DEF OnlyFenceInv
    <3> QED
      BY <3>5, <3>6 DEF OnlyFenceInv
  <2>11. CASE FenceDone(p)
    <3>1. call[p].at = "barrier" /\ call'[p].at = "none" /\ \A q \in Rank : coll[q].bar = coll[p].bar
      BY <2>11, FenceDoneEff
    <3>2. win' = win /\ coll' = coll /\ \A q \in Rank : q # p => call'[q] = call[q]
      BY <2>11, FenceDoneEff
    <3>3. win[p].epoch # "NONE"
      BY <3>1 DEF LocalInv, Local
    <3>4. \A q \in Rank : win[q].epoch # "NONE"
      BY <3>1, <3>3 DEF OnlyFenceInv
    <3> QED
      BY <3>1, <3>2, <3>4 DEF OnlyFenceInv, FenceAt
  <2> QED
    BY <2>1, <2>3, <2>4, <2>5, <2>6, <2>7, <2>8, <2>9, <2>10, <2>11 DEF FenceStep, OpStep
<1> QED
  BY <1>1, <1>2

(* Programs that use one kind of synchronisation keep MPI's rule. *)
LEMMA FencesTogether ==
    ASSUME NoFences \/ OnlyFences
    PROVE  Spec => []FenceUsedTogether
<1>1. CASE NoFences
  <2> DEFINE P == prog \in [Rank -> Seq({c \in SyncCall : c.op # "fence"})]
  <2>1. Init => P /\ NoFenceInv
    BY <1>1 DEF Init, Idle, NoFences, NoFenceInv, FenceAt
  <2>2. ActiveType /\ LocalInv /\ P /\ NoFenceInv /\ [Next]_vars => P' /\ NoFenceInv'
    BY NoFenceStep, ProgramsKept
  <2>3. NoFenceInv => FenceUsedTogether
    BY DEF NoFenceInv, FenceUsedTogether
  <2> HIDE DEF P
  <2> QED
    BY <2>1, <2>2, <2>3, LocalHolds, PTL DEF Spec
<1>2. CASE OnlyFences
  <2> DEFINE P == prog \in [Rank -> Seq({c \in SyncCall : c.op = "fence"})]
  <2>1. Init => P /\ OnlyFenceInv
    BY <1>2 DEF Init, Idle, OnlyFences, OnlyFenceInv, FenceAt, FenceEpochs
  <2>2. ActiveType /\ LocalInv /\ P /\ OnlyFenceInv /\ [Next]_vars => P' /\ OnlyFenceInv'
    BY OnlyFenceStep, ProgramsKept
  <2>3. LocalInv /\ OnlyFenceInv => FenceUsedTogether
    <3> SUFFICES ASSUME LocalInv, OnlyFenceInv, NEW p \in Rank, NEW q \in Rank, win[p].epoch = "FENCE",
                        win[q].epoch = "NONE"
                 PROVE  FALSE
      BY DEF FenceUsedTogether, OnlyFenceInv, FenceEpochs
    <3>1. call[p].at = "barrier"
      BY DEF OnlyFenceInv
    <3> QED
      BY <3>1 DEF LocalInv, Local
  <2> HIDE DEF P
  <2> QED
    BY <2>1, <2>2, <2>3, LocalHolds, PTL DEF Spec
<1> QED
  BY <1>1, <1>2

(* For programs that use fences only, or none, both hold without a further         *)
(* assumption.                                                                  *)
THEOREM OneKindHolds ==
    ASSUME NoFences \/ OnlyFences
    PROVE  Spec => []CleanOutsideEpochs /\ EpochComplete
BY FencesTogether, CleanOutsideEpochsHolds, EpochCompleteHolds, PTL
=============================================================================
