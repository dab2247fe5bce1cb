-------------------------- MODULE ConnectionsProof --------------------------
(***************************************************************************)
(* Proofs about connections and communicators of one job: the reference     *)
(* counts of the tables and of the virtual connections, who opens a          *)
(* connection, and that nobody looks for an endpoint or connects before the   *)
(* other side is ready.                                                     *)
(***************************************************************************)
EXTENDS Connections, FiniteSetTheorems, WellFoundedInduction, TLAPS

-----------------------------------------------------------------------------
(* Programs *)

(* The members of call n of a sequence of calls, and whether it makes a       *)
(* communicator.                                                             *)
Mem(os, n) == Range(os[n].lpids)
Makes(os, n) == os[n].op \in {"create", "dup"}

(* Call m makes the communicator that call n is about. *)
MadeBy(os, c, m) == Makes(os, m) /\ os[m].new = c

(* No call before n frees communicator c. *)
KeptUntil(os, c, n) ==
    \A l \in DOMAIN os : l < n /\ os[l].new = c => Makes(os, l)

(* What MPI asks of the program: a communicator is made once, and freed once    *)
(* by the same processes; a duplicate is made of a communicator that they       *)
(* have; members are listed once.  And what the code relies on: processes that   *)
(* have disconnected make a further communicator only while they still have     *)
(* another one in common.  MPI_Comm_create and its like imply it, sessions do    *)
(* not.                                                                         *)
Consistent(os) ==
    /\ os \in Seq(Op)
    /\ \A n \in DOMAIN os : os[n].new \in DOMAIN os
    /\ \A n, m \in DOMAIN os :
          os[n].new = os[m].new /\ (Makes(os, n) <=> Makes(os, m)) => n = m
    /\ \A n \in DOMAIN os : ~Makes(os, n) =>
          \E m \in DOMAIN os : m < n /\ MadeBy(os, os[n].new, m) /\ Mem(os, m) = Mem(os, n)
    /\ \A n \in DOMAIN os : os[n].op = "dup" =>
          \E m \in DOMAIN os :
              /\ m < n /\ MadeBy(os, os[n].of, m) /\ Mem(os, m) = Mem(os, n)
              /\ KeptUntil(os, os[n].of, n)
    /\ \A n \in DOMAIN os : \A i, j \in 1..Len(os[n].lpids) :
          os[n].lpids[i] = os[n].lpids[j] => i = j
    /\ \A n, l \in DOMAIN os : \A p, q \in Mem(os, n) \cap Mem(os, l) :
          os[n].op = "create" /\ os[l].op = "disconnect" /\ l < n =>
              \E m \in DOMAIN os :
                  /\ m < n /\ Makes(os, m) /\ {p, q} \subseteq Mem(os, m)
                  /\ KeptUntil(os, os[m].new, n)

(* The programs are such, and one of them is the longest. *)
WellFormed ==
    /\ \A pr \in Programs : Consistent(pr.ops)
    /\ \E pr \in Programs : \A x \in Programs : Len(x.ops) <= Len(pr.ops)

(* The members of communicator c. *)
OfComm(os, c) == UNION {Range(os[n].lpids) : n \in {m \in DOMAIN os : os[m].new = c}}

(* The communicators are numbered up to a greatest one, and programs use no      *)
(* others.                                                                      *)
LEMMA CommFacts ==
    ASSUME WellFormed
    PROVE  /\ IsFiniteSet(Comm) /\ Comm \subseteq Nat
           /\ \A pr \in Programs : DOMAIN pr.ops \subseteq Comm
<1> DEFINE L == {Len(pr.ops) : pr \in Programs}
<1>1. PICK pr \in Programs : \A x \in Programs : Len(x.ops) <= Len(pr.ops)
  BY DEF WellFormed
<1>2. \A x \in Programs : x.ops \in Seq(Op) /\ Len(x.ops) \in Nat
  BY DEF WellFormed, Consistent
<1>3. Len(pr.ops) \in L /\ \A y \in L : Len(pr.ops) >= y
  BY <1>1, <1>2
<1>4. Max(L) \in L /\ \A y \in L : Max(L) >= y
  BY <1>3 DEF Max
<1>5. Max(L) \in Nat
  BY <1>2, <1>4
<1>6. Comm = 1..Max(L)
  BY DEF Comm
<1> HIDE DEF L
<1>7. IsFiniteSet(Comm)
  BY <1>5, <1>6, FS_Interval
<1>8. ASSUME NEW x \in Programs PROVE DOMAIN x.ops \subseteq Comm
  <2>1. Len(x.ops) <= Max(L)
    BY <1>2, <1>4, <1>5 DEF L
  <2> QED
    BY <1>2, <1>5, <1>6, <2>1
<1> QED
  BY <1>5, <1>6, <1>7, <1>8

(* All calls of a communicator have the same members. *)
LEMMA SameMembers ==
    ASSUME NEW os, Consistent(os), NEW n \in DOMAIN os
    PROVE  OfComm(os, os[n].new) = Mem(os, n)
<1>1. PICK m \in DOMAIN os : MadeBy(os, os[n].new, m) /\ Mem(os, m) = Mem(os, n)
  <2>1. CASE Makes(os, n)
    BY <2>1 DEF MadeBy
  <2>2. CASE ~Makes(os, n)
    BY <2>2 DEF Consistent
  <2> QED
    BY <2>1, <2>2
<1>2. ASSUME NEW x \in DOMAIN os, os[x].new = os[n].new PROVE Mem(os, x) = Mem(os, n)
  <2>1. PICK y \in DOMAIN os : MadeBy(os, os[x].new, y) /\ Mem(os, y) = Mem(os, x)
    <3>1. CASE Makes(os, x)
      BY <3>1 DEF MadeBy
    <3>2. CASE ~Makes(os, x)
      BY <3>2 DEF Consistent
    <3> QED
      BY <3>1, <3>2
  <2>2. y = m
    BY <1>1, <1>2, <2>1 DEF MadeBy, Consistent
  <2> QED
    BY <1>1, <2>1, <2>2
<1> QED
  BY <1>2 DEF OfComm, Mem

-----------------------------------------------------------------------------
(* Tables and reference counts of one process, D being the calls it has made *)

(* The process has communicator c. *)
Has(os, D, c) ==
    /\ \E n \in D : MadeBy(os, c, n)
    /\ \A n \in D : os[n].new = c => Makes(os, n)

(* The communicators that use table t, and the tables that hold the virtual      *)
(* connection to q.                                                             *)
UsersOf(tb, t) == {c \in Comm : tb[c] = {t}}
Holders(os, vr, q) == {t \in Comm : vr[t] > 0 /\ q \in OfComm(os, t)}

TableTypes(tb, vr, v) ==
    tb \in [Comm -> SUBSET Comm] /\ vr \in [Comm -> Int] /\ v \in [Proc -> Int]

(* A communicator has a table while the process has it; the table was made by a  *)
(* create call, for a communicator with the same members.                       *)
Tabled(os, D, tb) ==
    \A c \in Comm :
        /\ tb[c] = {} <=> ~Has(os, D, c)
        /\ \A t \in tb[c] :
              /\ tb[c] = {t} /\ OfComm(os, t) = OfComm(os, c)
              /\ \E n \in D : os[n].op = "create" /\ os[n].new = t

(* The reference counts of the tables. *)
Counted(tb, vr) == \A t \in Comm : vr[t] = Cardinality(UsersOf(tb, t))

(* The reference count of the virtual connection to q: one for each table, and    *)
(* one for the process group until the last table goes with a disconnect.          *)
Referred(os, D, vr, v, q) ==
    /\ v[q] \in Nat
    /\ v[q] = IF v[q] = 0 THEN Cardinality(Holders(os, vr, q)) ELSE 1 + Cardinality(Holders(os, vr, q))
    /\ v[q] = 0 => \E l \in D : os[l].op = "disconnect" /\ q \in Mem(os, l)

Local(os, D, tb, vr, v) ==
    /\ TableTypes(tb, vr, v) /\ Tabled(os, D, tb) /\ Counted(tb, vr)
    /\ \A q \in Proc : Referred(os, D, vr, v, q)

(* Process p has made all its calls before n. *)
UpTo(os, D, p, n) ==
    /\ D \subseteq DOMAIN os /\ n \in DOMAIN os
    /\ \A m \in DOMAIN os : m \in D <=> m < n /\ p \in Mem(os, m)

(* The users of a table and the holders of a virtual connection can be counted. *)
LEMMA CountsFinite ==
    ASSUME IsFiniteSet(Comm), NEW os, NEW tb, NEW vr, NEW t, NEW q
    PROVE  /\ IsFiniteSet(UsersOf(tb, t)) /\ Cardinality(UsersOf(tb, t)) \in Nat
           /\ IsFiniteSet(Holders(os, vr, q)) /\ Cardinality(Holders(os, vr, q)) \in Nat
<1>1. UsersOf(tb, t) \subseteq Comm /\ Holders(os, vr, q) \subseteq Comm
  BY DEF UsersOf, Holders
<1>2. IsFiniteSet(UsersOf(tb, t)) /\ IsFiniteSet(Holders(os, vr, q))
  BY <1>1, FS_Subset
<1> QED
  BY <1>2, FS_CardinalityType

(* A call that makes a communicator is the first about it. *)
LEMMA NewIsNew ==
    ASSUME NEW os, Consistent(os), NEW D, NEW p, NEW n, UpTo(os, D, p, n), Makes(os, n)
    PROVE  /\ n \notin D
           /\ \A m \in D : os[m].new # os[n].new
           /\ ~Has(os, D, os[n].new)
<1>1. n \in DOMAIN os /\ D \subseteq DOMAIN os /\ n \in Nat /\ \A m \in DOMAIN os : m \in Nat
  BY DEF UpTo, Consistent
<1>2. n \notin D
  BY <1>1 DEF UpTo
<1>3. ASSUME NEW m \in D, os[m].new = os[n].new PROVE FALSE
  <2>1. m \in DOMAIN os /\ m < n /\ m # n
    BY <1>1, <1>2 DEF UpTo
  <2>2. ~Makes(os, m)
    BY <1>1, <1>3, <2>1 DEF Consistent
  <2>3. PICK l \in DOMAIN os : l < m /\ MadeBy(os, os[m].new, l)
    BY <2>1, <2>2 DEF Consistent
  <2>4. l = n
    BY <1>1, <1>3, <2>3 DEF MadeBy, Consistent
  <2> QED
    BY <1>1, <2>1, <2>3, <2>4
<1>4. \A m \in D : os[m].new # os[n].new
  BY <1>3
<1> QED
  BY <1>2, <1>4 DEF Has, MadeBy

(* Then the process has this communicator too. *)
LEMMA HasMade ==
    ASSUME NEW os, Consistent(os), NEW D, NEW p, NEW n, UpTo(os, D, p, n), Makes(os, n), NEW x
    PROVE  Has(os, D \cup {n}, x) <=> Has(os, D, x) \/ x = os[n].new
<1>1. \A m \in D : os[m].new # os[n].new
  BY NewIsNew
<1> QED
  BY <1>1 DEF Has, MadeBy

(* A process that has communicator c has a table for it, with the right members. *)
LEMMA TableOf ==
    ASSUME IsFiniteSet(Comm), NEW os, NEW D, NEW tb, NEW vr, NEW v, Local(os, D, tb, vr, v),
           NEW c \in Comm, Has(os, D, c)
    PROVE  \E t \in Comm :
              /\ tb[c] = {t} /\ vr[t] > 0 /\ OfComm(os, t) = OfComm(os, c)
              /\ vr[t] = Cardinality(UsersOf(tb, t)) /\ c \in UsersOf(tb, t)
<1>1. tb[c] # {} /\ tb[c] \subseteq Comm
  BY DEF Local, Tabled, TableTypes
<1>2. PICK t \in tb[c] : tb[c] = {t} /\ OfComm(os, t) = OfComm(os, c)
  BY <1>1 DEF Local, Tabled
<1>3. t \in Comm /\ c \in UsersOf(tb, t)
  BY <1>1, <1>2 DEF UsersOf
<1>4. vr[t] = Cardinality(UsersOf(tb, t))
  BY <1>3 DEF Local, Counted
<1>5. Cardinality(UsersOf(tb, t)) \in Nat /\ Cardinality(UsersOf(tb, t)) # 0
  BY <1>3, CountsFinite, FS_EmptySet
<1> QED
  BY <1>2, <1>3, <1>4, <1>5

(* MPIDI_VC_Dup never takes a reference of a virtual connection that is gone. *)
LEMMA StillThere ==
    ASSUME IsFiniteSet(Comm), NEW os, Consistent(os), DOMAIN os \subseteq Comm, NEW D, NEW tb, NEW vr, NEW v,
           Local(os, D, tb, vr, v), NEW p, NEW n, UpTo(os, D, p, n), p \in Mem(os, n), os[n].op = "create",
           NEW q \in Proc, q \in Mem(os, n)
    PROVE  v[q] # 0
<1> SUFFICES ASSUME v[q] = 0 PROVE FALSE
  OBVIOUS
<1>1. Referred(os, D, vr, v, q)
  BY DEF Local
<1>2. PICK l \in D : os[l].op = "disconnect" /\ q \in Mem(os, l)
  BY <1>1 DEF Referred
<1>3. n \in DOMAIN os /\ l \in DOMAIN os /\ l < n /\ p \in Mem(os, l)
  BY <1>2 DEF UpTo
<1>4. PICK m \in DOMAIN os :
          m < n /\ Makes(os, m) /\ {p, q} \subseteq Mem(os, m) /\ KeptUntil(os, os[m].new, n)
  BY <1>2, <1>3 DEF Consistent
<1>5. m \in D
  BY <1>4 DEF UpTo
<1>6. Has(os, D, os[m].new)
  BY <1>4, <1>5 DEF Has, MadeBy, KeptUntil, UpTo
<1>7. os[m].new \in Comm
  BY <1>4 DEF Consistent
<1>8. PICK t \in Comm : vr[t] > 0 /\ OfComm(os, t) = OfComm(os, os[m].new)
  BY <1>6, <1>7, TableOf
<1>9. OfComm(os, os[m].new) = Mem(os, m)
  BY <1>4, SameMembers
<1>10. t \in Holders(os, vr, q)
  BY <1>4, <1>8, <1>9 DEF Holders
<1>11. Cardinality(Holders(os, vr, q)) = 0
  BY <1>1 DEF Referred
<1> QED
  BY <1>10, <1>11, CountsFinite, FS_EmptySet

(* A created communicator gets a table of its own, and MPIDI_VC_Dup is called for  *)
(* all members.                                                                  *)
LEMMA CreateLocal ==
    ASSUME IsFiniteSet(Comm), NEW os, Consistent(os), DOMAIN os \subseteq Comm, NEW D, NEW tb, NEW vr, NEW v,
           Local(os, D, tb, vr, v), NEW p, NEW n, UpTo(os, D, p, n), p \in Mem(os, n), os[n].op = "create",
           NEW c, c = os[n].new, NEW tb2, tb2 = [tb EXCEPT ![c] = {c}], NEW vr2, vr2 = [vr EXCEPT ![c] = 1],
           NEW v2, v2 = [q \in Proc |-> IF q \in Mem(os, n) THEN v[q] + 1 ELSE v[q]]
    PROVE  Local(os, D \cup {n}, tb2, vr2, v2)
<1>1. /\ tb2 \in [Comm -> SUBSET Comm] /\ vr2 \in [Comm -> Int]
      /\ Tabled(os, D \cup {n}, tb2) /\ Counted(tb2, vr2) /\ vr[c] = 0
  <2>1. Makes(os, n) /\ n \in DOMAIN os /\ c \in Comm
    BY DEF Makes, UpTo, Consistent
  <2>2. ~Has(os, D, c) /\ \A m \in D : os[m].new # c
    BY <2>1, NewIsNew
  <2>3. tb \in [Comm -> SUBSET Comm] /\ vr \in [Comm -> Int]
    BY DEF Local, TableTypes
  <2>4. tb2 \in [Comm -> SUBSET Comm] /\ vr2 \in [Comm -> Int]
    BY <2>1, <2>3
  <2>5. tb2[c] = {c} /\ vr2[c] = 1 /\ \A x \in Comm : x # c => tb2[x] = tb[x] /\ vr2[x] = vr[x]
    BY <2>1, <2>3
  <2>6. tb[c] = {} /\ \A x \in Comm : c \notin tb[x]
    BY <2>1, <2>2 DEF Local, Tabled
  <2>7. UsersOf(tb, c) = {}
    BY <2>6 DEF UsersOf
  <2>8. UsersOf(tb2, c) = {c}
    BY <2>1, <2>5, <2>6 DEF UsersOf
  <2>9. ASSUME NEW t \in Comm, t # c PROVE UsersOf(tb2, t) = UsersOf(tb, t)
    BY <2>1, <2>5, <2>6, <2>9 DEF UsersOf
  <2>10. Counted(tb2, vr2)
    <3>1. Cardinality({c}) = 1
      BY FS_Singleton
    <3>2. vr2[c] = Cardinality(UsersOf(tb2, c))
      BY <2>5, <2>8, <3>1
    <3>3. ASSUME NEW t \in Comm, t # c PROVE vr2[t] = Cardinality(UsersOf(tb2, t))
      BY <2>5, <2>9, <3>3 DEF Local, Counted
    <3> QED
      BY <3>2, <3>3 DEF Counted
  <2>11. vr[c] = 0
    BY <2>1, <2>7, FS_EmptySet DEF Local, Counted
  <2>12. ASSUME NEW x \in Comm
         PROVE  /\ tb2[x] = {} <=> ~Has(os, D \cup {n}, x)
                /\ \A t \in tb2[x] :
                      /\ tb2[x] = {t} /\ OfComm(os, t) = OfComm(os, x)
                      /\ \E m \in D \cup {n} : os[m].op = "create" /\ os[m].new = t
    <3>1. Has(os, D \cup {n}, x) <=> Has(os, D, x) \/ x = c
      BY <2>1, HasMade
    <3>2. CASE x = c
      BY <2>5, <3>1, <3>2
    <3>3. CASE x # c
      BY <2>5, <3>1, <3>3 DEF Local, Tabled
    <3> QED
      BY <3>2, <3>3
  <2> QED
    BY <2>4, <2>10, <2>11, <2>12 DEF Tabled
<1>2. n \in DOMAIN os /\ c \in Comm /\ OfComm(os, c) = Mem(os, n)
  BY SameMembers DEF UpTo, Consistent
<1>3. vr \in [Comm -> Int] /\ v \in [Proc -> Int]
  BY DEF Local, TableTypes
<1>4. vr2[c] = 1 /\ \A x \in Comm : x # c => vr2[x] = vr[x]
  BY <1>2, <1>3
<1>5. ASSUME NEW q \in Proc PROVE Referred(os, D \cup {n}, vr2, v2, q) /\ v2[q] \in Int
  <2>1. Referred(os, D, vr, v, q)
    BY DEF Local
  <2>2. CASE q \in Mem(os, n)
    <3>1. v[q] # 0
      BY <2>2, StillThere
    <3>2. v2[q] = v[q] + 1
      BY <2>2
    <3>3. Holders(os, vr2, q) = Holders(os, vr, q) \cup {c} /\ c \notin Holders(os, vr, q)
      BY <1>1, <1>2, <1>4, <2>2 DEF Holders
    <3>4. Cardinality(Holders(os, vr2, q)) = Cardinality(Holders(os, vr, q)) + 1
      BY <3>3, CountsFinite, FS_AddElement
    <3>5. Cardinality(Holders(os, vr, q)) \in Nat
      BY CountsFinite
    <3> QED
      BY <2>1, <3>1, <3>2, <3>4, <3>5 DEF Referred
  <2>3. CASE q \notin Mem(os, n)
    <3>1. v2[q] = v[q]
      BY <2>3
    <3>2. Holders(os, vr2, q) = Holders(os, vr, q)
      BY <1>2, <1>4, <2>3 DEF Holders
    <3> QED
      BY <2>1, <3>1, <3>2 DEF Referred
  <2> QED
    BY <2>2, <2>3
<1>6. v2 \in [Proc -> Int]
  BY <1>5
<1> QED
  BY <1>1, <1>5, <1>6 DEF Local, TableTypes

(* A duplicate shares the table of its original. *)
LEMMA DupLocal ==
    ASSUME IsFiniteSet(Comm), NEW os, Consistent(os), DOMAIN os \subseteq Comm, NEW D, NEW tb, NEW vr, NEW v,
           Local(os, D, tb, vr, v), NEW p, NEW n, UpTo(os, D, p, n), p \in Mem(os, n), os[n].op = "dup",
           NEW c, c = os[n].new, NEW o, o = os[n].of, NEW tb2, tb2 = [tb EXCEPT ![c] = tb[o]],
           NEW vr2, vr2 = [vr EXCEPT ![CHOOSE t \in tb[o] : TRUE] = @ + 1]
    PROVE  Local(os, D \cup {n}, tb2, vr2, v)
<1>1. Makes(os, n) /\ n \in DOMAIN os /\ c \in Comm
  BY DEF Makes, UpTo, Consistent
<1>2. ~Has(os, D, c) /\ \A m \in D : os[m].new # c
  BY <1>1, NewIsNew
<1>3. PICK m \in DOMAIN os :
          m < n /\ MadeBy(os, o, m) /\ Mem(os, m) = Mem(os, n) /\ KeptUntil(os, o, n)
  BY <1>1 DEF Consistent
<1>4. m \in D
  BY <1>3 DEF UpTo
<1>5. Has(os, D, o)
  BY <1>3, <1>4 DEF Has, KeptUntil, UpTo
<1>6. o \in Comm /\ OfComm(os, o) = Mem(os, m) /\ OfComm(os, c) = Mem(os, n)
  <2>1. os[m].new = o /\ os[m].new \in DOMAIN os
    BY <1>3 DEF MadeBy, Consistent
  <2>2. OfComm(os, os[m].new) = Mem(os, m) /\ OfComm(os, os[n].new) = Mem(os, n)
    BY <1>1, SameMembers
  <2> QED
    BY <2>1, <2>2
<1>7. PICK t \in Comm :
          /\ tb[o] = {t} /\ vr[t] > 0 /\ OfComm(os, t) = OfComm(os, o)
          /\ vr[t] = Cardinality(UsersOf(tb, t))
  BY <1>5, <1>6, TableOf
<1>8. tb \in [Comm -> SUBSET Comm] /\ vr \in [Comm -> Int] /\ v \in [Proc -> Int]
  BY DEF Local, TableTypes
<1>9. vr2 = [vr EXCEPT ![t] = vr[t] + 1]
  <2>1. (CHOOSE x \in tb[o] : TRUE) = t
    BY <1>7
  <2> QED
    BY <2>1
<1>10. tb2 \in [Comm -> SUBSET Comm] /\ vr2 \in [Comm -> Int]
  <2>1. tb[o] \in SUBSET Comm /\ vr[t] + 1 \in Int
    BY <1>6, <1>7, <1>8
  <2> QED
    <3>1. tb2 \in [Comm -> SUBSET Comm]
      BY ONLY <1>1, <1>8, <2>1, tb2 = [tb EXCEPT ![c] = tb[o]]
    <3>2. vr2 \in [Comm -> Int]
      BY ONLY <1>7, <1>8, <1>9, <2>1
    <3> QED
      BY <3>1, <3>2
<1>11. tb2[c] = {t} /\ vr2[t] = vr[t] + 1 /\ \A x \in Comm : (x # c => tb2[x] = tb[x]) /\ (x # t => vr2[x] = vr[x])
  BY <1>1, <1>7, <1>8, <1>9
<1>12. tb[c] = {}
  BY <1>1, <1>2 DEF Local, Tabled
<1>13. UsersOf(tb2, t) = UsersOf(tb, t) \cup {c} /\ c \notin UsersOf(tb, t)
  BY <1>1, <1>11, <1>12 DEF UsersOf
<1>14. Cardinality(UsersOf(tb2, t)) = Cardinality(UsersOf(tb, t)) + 1
  BY <1>13, CountsFinite, FS_AddElement
<1>15. ASSUME NEW x \in Comm, x # t PROVE UsersOf(tb2, x) = UsersOf(tb, x)
  BY <1>1, <1>11, <1>12, <1>15 DEF UsersOf
<1>16. Counted(tb2, vr2)
  <2>1. ASSUME NEW x \in Comm, x # t PROVE vr2[x] = Cardinality(UsersOf(tb2, x))
    BY <1>11, <1>15, <2>1 DEF Local, Counted
  <2> QED
    BY <1>7, <1>11, <1>14, <2>1 DEF Counted
<1>17. ASSUME NEW x \in Comm
       PROVE  /\ tb2[x] = {} <=> ~Has(os, D \cup {n}, x)
              /\ \A y \in tb2[x] :
                    /\ tb2[x] = {y} /\ OfComm(os, y) = OfComm(os, x)
                    /\ \E l \in D \cup {n} : os[l].op = "create" /\ os[l].new = y
  <2>1. Has(os, D \cup {n}, x) <=> Has(os, D, x) \/ x = c
    BY <1>1, HasMade
  <2>2. CASE x = c
    <3>1. \E l \in D : os[l].op = "create" /\ os[l].new = t
      BY <1>6, <1>7 DEF Local, Tabled
    <3> QED
      BY <1>3, <1>6, <1>7, <1>11, <2>1, <2>2, <3>1
  <2>3. CASE x # c
    BY <1>11, <2>1, <2>3 DEF Local, Tabled
  <2> QED
    BY <2>2, <2>3
<1>18. ASSUME NEW q \in Proc PROVE Referred(os, D \cup {n}, vr2, v, q)
  <2>1. Holders(os, vr2, q) = Holders(os, vr, q)
    <3>1. \A x \in Comm : vr2[x] > 0 <=> vr[x] > 0
      BY <1>7, <1>8, <1>11
    <3> QED
      BY <3>1 DEF Holders
  <2>2. Referred(os, D, vr, v, q)
    BY DEF Local
  <2> QED
    BY <2>1, <2>2 DEF Referred
<1> QED
  BY <1>8, <1>10, <1>16, <1>17, <1>18 DEF Local, TableTypes, Tabled

(* The reference counts of virtual connections after table t was released. *)
Dropped(os, n, vr, t, v) ==
    IF vr[t] > 1 THEN v
    ELSE [q \in Proc |-> IF q \notin Mem(os, n) THEN v[q]
                         ELSE IF os[n].op = "disconnect" /\ v[q] = 2 THEN 0 ELSE v[q] - 1]

(* MPIDI_VCRT_Release of the table of a communicator that is freed. *)
LEMMA ReleaseLocal ==
    ASSUME IsFiniteSet(Comm), NEW os, Consistent(os), DOMAIN os \subseteq Comm, NEW D, NEW tb, NEW vr, NEW v,
           Local(os, D, tb, vr, v), NEW p, NEW n, UpTo(os, D, p, n), p \in Mem(os, n), ~Makes(os, n),
           NEW c, c = os[n].new, NEW t \in tb[c], NEW tb2, tb2 = [tb EXCEPT ![c] = {}],
           NEW vr2, vr2 = [vr EXCEPT ![t] = @ - 1], NEW v2,
           v2 = Dropped(os, n, vr, t, v)
    PROVE  Local(os, D \cup {n}, tb2, vr2, v2)
<1>v. v2 = IF vr[t] > 1 THEN v
           ELSE [q \in Proc |-> IF q \notin Mem(os, n) THEN v[q]
                                ELSE IF os[n].op = "disconnect" /\ v[q] = 2 THEN 0 ELSE v[q] - 1]
  BY DEF Dropped
<1>1. n \in DOMAIN os /\ c \in Comm /\ OfComm(os, c) = Mem(os, n)
  BY SameMembers DEF UpTo, Consistent
<1>2. tb \in [Comm -> SUBSET Comm] /\ vr \in [Comm -> Int] /\ v \in [Proc -> Int] /\ t \in Comm
  BY <1>1 DEF Local, TableTypes
<1>3. tb[c] = {t} /\ OfComm(os, t) = OfComm(os, c)
  BY <1>1 DEF Local, Tabled
<1>4. c \in UsersOf(tb, t)
  BY <1>1, <1>3 DEF UsersOf
<1>5. vr[t] = Cardinality(UsersOf(tb, t))
  BY <1>2 DEF Local, Counted
<1>6. vr[t] \in Nat /\ vr[t] # 0
  BY <1>4, <1>5, CountsFinite, FS_EmptySet
<1>7. tb2 \in [Comm -> SUBSET Comm] /\ vr2 \in [Comm -> Int]
  BY <1>1, <1>2
<1>8. tb2[c] = {} /\ vr2[t] = vr[t] - 1 /\ \A x \in Comm : (x # c => tb2[x] = tb[x]) /\ (x # t => vr2[x] = vr[x])
  BY <1>1, <1>2
<1>9. UsersOf(tb2, t) = UsersOf(tb, t) \ {c}
  BY <1>1, <1>8 DEF UsersOf
<1>10. Cardinality(UsersOf(tb2, t)) = Cardinality(UsersOf(tb, t)) - 1
  <2>1. IsFiniteSet(UsersOf(tb, t))
    BY CountsFinite
  <2> QED
    BY ONLY <1>4, <1>9, <2>1, FS_RemoveElement
<1>11. ASSUME NEW x \in Comm, x # t PROVE UsersOf(tb2, x) = UsersOf(tb, x)
  BY <1>1, <1>3, <1>8, <1>11 DEF UsersOf
<1>12. Counted(tb2, vr2)
  <2>1. ASSUME NEW x \in Comm, x # t PROVE vr2[x] = Cardinality(UsersOf(tb2, x))
    BY <1>8, <1>11, <2>1 DEF Local, Counted
  <2> QED
    BY <1>5, <1>8, <1>10, <2>1 DEF Counted
<1>13. ASSUME NEW x \in Comm
       PROVE  /\ tb2[x] = {} <=> ~Has(os, D \cup {n}, x)
              /\ \A y \in tb2[x] :
                    /\ tb2[x] = {y} /\ OfComm(os, y) = OfComm(os, x)
                    /\ \E l \in D \cup {n} : os[l].op = "create" /\ os[l].new = y
  <2>1. CASE x = c
    <3>1. ~Has(os, D \cup {n}, c)
      BY DEF Has
    <3> QED
      BY <1>8, <2>1, <3>1
  <2>2. CASE x # c
    <3>1. Has(os, D \cup {n}, x) <=> Has(os, D, x)
      BY <2>2 DEF Has, MadeBy
    <3> QED
      BY <1>8, <2>2, <3>1 DEF Local, Tabled
  <2> QED
    BY <2>1, <2>2
<1>14. ASSUME NEW q \in Proc PROVE Referred(os, D \cup {n}, vr2, v2, q) /\ v2[q] \in Int
  <2>1. Referred(os, D, vr, v, q)
    BY DEF Local
  <2>2. CASE vr[t] > 1 \/ q \notin Mem(os, n)
    <3>1. v2[q] = v[q]
      BY <1>v, <2>2
    <3>2. Holders(os, vr2, q) = Holders(os, vr, q)
      BY <1>1, <1>2, <1>3, <1>6, <1>8, <2>2 DEF Holders
    <3> QED
      BY <2>1, <3>1, <3>2 DEF Referred
  <2>3. CASE ~(vr[t] > 1) /\ q \in Mem(os, n)
    <3>1. v2[q] = IF os[n].op = "disconnect" /\ v[q] = 2 THEN 0 ELSE v[q] - 1
      BY <1>v, <2>3
    <3>2. vr2[t] = 0
      BY <1>6, <1>8, <2>3
    <3>3. t \in Holders(os, vr, q) /\ Holders(os, vr2, q) = Holders(os, vr, q) \ {t}
      BY <1>1, <1>2, <1>3, <1>6, <1>8, <2>3, <3>2 DEF Holders
    <3>4. Cardinality(Holders(os, vr2, q)) = Cardinality(Holders(os, vr, q)) - 1
      BY <3>3, CountsFinite, FS_RemoveElement
    <3>5. Cardinality(Holders(os, vr, q)) \in Nat /\ Cardinality(Holders(os, vr, q)) # 0
      BY <3>3, CountsFinite, FS_EmptySet
    <3>6. v[q] = 1 + Cardinality(Holders(os, vr, q))
      BY <2>1, <3>5 DEF Referred
    <3>7. CASE os[n].op = "disconnect" /\ v[q] = 2
      <4>1. v2[q] = 0 /\ Cardinality(Holders(os, vr2, q)) = 0
        BY <3>1, <3>4, <3>5, <3>6, <3>7
      <4> QED
        BY <2>3, <3>7, <4>1 DEF Referred
    <3>8. CASE ~(os[n].op = "disconnect" /\ v[q] = 2)
      <4>1. v2[q] = 1 + Cardinality(Holders(os, vr2, q)) /\ v2[q] \in Nat /\ v2[q] # 0
        BY <3>1, <3>4, <3>5, <3>6, <3>8
      <4> QED
        BY <4>1 DEF Referred
    <3> QED
      BY <3>7, <3>8
  <2> QED
    BY <2>2, <2>3
<1>15. v2 \in [Proc -> Int]
  <2>1. CASE vr[t] > 1
    BY <1>v, <1>2, <2>1
  <2>2. CASE ~(vr[t] > 1)
    BY <1>v, <1>14, <2>2
  <2> QED
    BY <2>1, <2>2
<1> QED
  BY <1>7, <1>12, <1>13, <1>14, <1>15 DEF Local, TableTypes, Tabled

-----------------------------------------------------------------------------
(* The state of the processes *)

(* The calls that p has made, the one it is in not included. *)
DoneBy(p) ==
    {n \in DOMAIN ops : p \in Mem(ops, n) /\ (n < pc[p].n \/ (n = pc[p].n /\ pc[p].at = "out"))}

Places == {"out", "barrier", "round", "ondemand", "last"}

StateType ==
    /\ prog \in Programs
    /\ pc \in [Proc -> [n: Nat, at: Places, i: Nat, k: {1, 2}]]
    /\ con \in [Proc -> [Proc -> SUBSET Proc]]
    /\ cons \in [Proc -> SUBSET Proc]
    /\ init \subseteq Proc \X Proc
    /\ listen \subseteq Proc /\ kvs \subseteq Proc
    /\ bar \in [Proc -> [Groups -> Nat]]
    /\ vc \in [Proc -> [Proc -> Int]]
    /\ vcrt \in [Proc -> [Comm -> Int]]
    /\ tab \in [Proc -> [Comm -> SUBSET Comm]]

(* Where p is in connection_init: it listens; rounds and the wait for everybody      *)
(* are those of connect_direct, and the second part of a round is with another       *)
(* process than the first.                                                        *)
Control(p) ==
    pc[p].at # "out" =>
        /\ pc[p].n \in DOMAIN ops /\ p \in Mem(ops, pc[p].n) /\ Makes(ops, pc[p].n)
        /\ p \in listen
        /\ pc[p].at = "ondemand" => ~prog.direct
        /\ pc[p].at \in {"round", "last"} => prog.direct
        /\ pc[p].i <= Size(p) \div 2
        /\ pc[p].k = 2 => ~OnePart(p)

StateInv == StateType /\ \A p \in Proc : Control(p)

(* The program that is run. *)
LEMMA ProgramFacts ==
    ASSUME WellFormed, StateType
    PROVE  /\ IsFiniteSet(Comm) /\ Comm \subseteq Nat /\ Consistent(ops) /\ DOMAIN ops \subseteq Comm
           /\ ops \in Seq(Op) /\ DOMAIN ops = 1..Len(ops) /\ Len(ops) \in Nat
           /\ \A n \in DOMAIN ops :
                 /\ n \in Nat /\ n > 0 /\ ops[n] \in Op /\ ops[n].new \in Comm
                 /\ ops[n].lpids \in Seq(Proc) /\ Mem(ops, n) \subseteq Proc /\ Mem(ops, n) \in Groups
<1>1. IsFiniteSet(Comm) /\ Comm \subseteq Nat /\ DOMAIN ops \subseteq Comm
  BY CommFacts DEF StateType, ops
<1>2. Consistent(ops)
  BY DEF StateType, WellFormed, ops
<1>3. ops \in Seq(Op) /\ DOMAIN ops = 1..Len(ops) /\ Len(ops) \in Nat
  BY <1>2 DEF Consistent
<1>4. ASSUME NEW n \in DOMAIN ops
      PROVE  /\ n \in Nat /\ n > 0 /\ ops[n] \in Op /\ ops[n].new \in Comm
             /\ ops[n].lpids \in Seq(Proc) /\ Mem(ops, n) \subseteq Proc /\ Mem(ops, n) \in Groups
  <2>1. n \in Nat /\ n > 0 /\ ops[n] \in Op
    BY <1>3
  <2>2. ops[n].new \in Comm
    BY <1>1, <1>2 DEF Consistent
  <2>3. ops[n].lpids \in Seq(Proc)
    BY <2>1 DEF Op
  <2>4. Mem(ops, n) \subseteq Proc
    BY <2>3 DEF Mem, Range
  <2>5. ops[n] \in Range(ops)
    BY DEF Range
  <2>6. Mem(ops, n) \in Groups
    BY <2>5 DEF Groups, Mem, StateType, ops
  <2> QED
    BY <2>1, <2>2, <2>3, <2>4, <2>6
<1> QED
  BY <1>1, <1>2, <1>3, <1>4

(* A non-empty set of natural numbers has a least element. *)
LEMMA LeastElement ==
    ASSUME NEW T \in SUBSET Nat, T # {}
    PROVE  Min(T) \in T /\ \A y \in T : Min(T) <= y
<1> DEFINE R == {ss \in Nat \X Nat : ss[1] < ss[2]}
<1>1. IsWellFoundedOn(R, Nat)
  BY NatLessThanWellFounded, Zenon DEF OpToRel
<1>2. \A x, y \in Nat : y < x => <<y, x>> \in R
  OBVIOUS
<1> HIDE DEF R
<1>3. PICK x \in T : \A y \in T : ~(<<y, x>> \in R)
  BY <1>1, WFMin, Zenon
<1>4. \A y \in T : ~(y < x)
  BY <1>2, <1>3
<1>5. \A y \in T : x <= y
  BY <1>4
<1> QED
  BY <1>5 DEF Min

(* The next call of p. *)
LEMMA NextCall ==
    ASSUME WellFormed, StateType, NEW p \in Proc, NEW n, NEW kinds, NextIs(p, n, kinds)
    PROVE  /\ UpTo(ops, DoneBy(p), p, n) /\ p \in Mem(ops, n) /\ ops[n].op \in kinds
           /\ n \in DOMAIN ops /\ pc[p].at = "out" /\ pc[p].n < n
<1>1. pc[p].n \in Nat /\ \A m \in DOMAIN ops : m \in Nat
  BY ProgramFacts DEF StateType
<1>2. Todo(p) \in SUBSET Nat /\ Todo(p) # {}
  BY <1>1 DEF Todo, NextIs
<1>3. n \in Todo(p) /\ \A m \in Todo(p) : n <= m
  BY <1>2, LeastElement DEF NextIs
<1>4. n \in DOMAIN ops /\ n > pc[p].n /\ p \in Mem(ops, n)
  BY <1>3 DEF Todo, Mem
<1>5. pc[p].at = "out" /\ ops[n].op \in kinds
  BY DEF NextIs, At
<1>6. ASSUME NEW m \in DOMAIN ops PROVE m \in DoneBy(p) <=> m < n /\ p \in Mem(ops, m)
  <2>1. p \in Mem(ops, m) /\ m < n => ~(m > pc[p].n)
    BY <1>1, <1>3, <1>4 DEF Todo, Mem
  <2> QED
    BY <1>1, <1>4, <1>5, <2>1 DEF DoneBy
<1> QED
  BY <1>1, <1>4, <1>5, <1>6 DEF UpTo, DoneBy

(* The call that p is in. *)
LEMMA InsideCall ==
    ASSUME WellFormed, StateInv, NEW p \in Proc, pc[p].at # "out"
    PROVE  /\ UpTo(ops, DoneBy(p), p, pc[p].n) /\ p \in Mem(ops, pc[p].n) /\ Makes(ops, pc[p].n)
           /\ pc[p].n \in DOMAIN ops /\ Call(p) = ops[pc[p].n] /\ Members(p) = Mem(ops, pc[p].n)
<1>1. pc[p].n \in DOMAIN ops /\ p \in Mem(ops, pc[p].n) /\ Makes(ops, pc[p].n)
  BY DEF StateInv, Control
<1> QED
  BY <1>1 DEF UpTo, DoneBy, Call, Members, Mem

(* What p has made after a step. *)
LEMMA DoneAfter ==
    ASSUME WellFormed, StateType, NEW p \in Proc, NEW n, UpTo(ops, DoneBy(p), p, n), p \in Mem(ops, n),
           prog' = prog, pc'[p].n = n
    PROVE  /\ pc'[p].at = "out" => DoneBy(p)' = DoneBy(p) \cup {n}
           /\ pc'[p].at # "out" => DoneBy(p)' = DoneBy(p)
<1>1. n \in DOMAIN ops /\ \A m \in DOMAIN ops : m \in Nat
  BY ProgramFacts DEF UpTo
<1>2. ops' = ops
  BY DEF ops
<1>3. DoneBy(p)' = {m \in DOMAIN ops : p \in Mem(ops, m) /\ (m < n \/ (m = n /\ pc'[p].at = "out"))}
  BY <1>2 DEF DoneBy, Mem
<1>4. DoneBy(p) = {m \in DOMAIN ops : m < n /\ p \in Mem(ops, m)}
  BY DEF UpTo, DoneBy
<1> QED
  BY <1>1, <1>3, <1>4

(* The others. *)
LEMMA DoneFrame ==
    ASSUME prog' = prog, NEW p, pc'[p] = pc[p]
    PROVE  DoneBy(p)' = DoneBy(p)
BY DEF DoneBy, ops, Mem

(* A step of p within its call. *)
LEMMA DoneSame ==
    ASSUME prog' = prog, NEW p, pc'[p].n = pc[p].n, pc[p].at # "out", pc'[p].at # "out"
    PROVE  DoneBy(p)' = DoneBy(p)
BY DEF DoneBy, ops, Mem

-----------------------------------------------------------------------------
(* What the steps do *)

LocalInv == \A p \in Proc : Local(ops, DoneBy(p), tab[p], vcrt[p], vc[p])

(* p has made call n, and its tables are as they should be; nobody else's changed. *)
Settled(p, n) ==
    /\ Local(ops, DoneBy(p) \cup {n}, tab'[p], vcrt'[p], vc'[p])
    /\ \A x \in Proc : x # p => tab'[x] = tab[x] /\ vcrt'[x] = vcrt[x] /\ vc'[x] = vc[x]
    /\ tab' \in [Proc -> [Comm -> SUBSET Comm]] /\ vcrt' \in [Proc -> [Comm -> Int]]
    /\ vc' \in [Proc -> [Proc -> Int]]
    /\ \A q \in Proc : vc'[p][q] > 0 => vc[p][q] > 0

(* The new table of a communicator that p makes. *)
LEMMA NewTableEff ==
    ASSUME WellFormed, StateType, LocalInv, NEW p \in Proc, NEW n, UpTo(ops, DoneBy(p), p, n),
           p \in Mem(ops, n), Makes(ops, n), NewTable(p, ops[n])
    PROVE  Settled(p, n) /\ bad' = bad
<1>1. n \in DOMAIN ops
  BY DEF UpTo
<1>2. /\ IsFiniteSet(Comm) /\ Consistent(ops) /\ DOMAIN ops \subseteq Comm /\ ops[n].new \in Comm
      /\ Mem(ops, n) \subseteq Proc /\ Range(ops[n].lpids) = Mem(ops, n)
  BY <1>1, ProgramFacts DEF Mem
<1>3. Local(ops, DoneBy(p), tab[p], vcrt[p], vc[p])
  BY DEF LocalInv
<1>4. /\ tab \in [Proc -> [Comm -> SUBSET Comm]] /\ vcrt \in [Proc -> [Comm -> Int]]
      /\ vc \in [Proc -> [Proc -> Int]]
  BY DEF StateType
<1>5. CASE ops[n].op = "dup"
  <2>1. /\ vcrt' = [vcrt EXCEPT ![p][CHOOSE t \in tab[p][ops[n].of] : TRUE] = @ + 1]
        /\ tab' = [tab EXCEPT ![p][ops[n].new] = tab[p][ops[n].of]]
        /\ vc' = vc /\ bad' = bad
    BY <1>5 DEF NewTable
  <2>2. vcrt'[p] = [vcrt[p] EXCEPT ![CHOOSE t \in tab[p][ops[n].of] : TRUE] = @ + 1]
    BY <1>4, <2>1
  <2>3. tab'[p] = [tab[p] EXCEPT ![ops[n].new] = tab[p][ops[n].of]]
    BY <1>4, <2>1
  <2>4. Local(ops, DoneBy(p) \cup {n}, tab'[p], vcrt'[p], vc[p])
    BY <1>2, <1>3, <1>5, <2>2, <2>3, DupLocal, SMTT(30)
  <2>5. tab'[p] \in [Comm -> SUBSET Comm] /\ vcrt'[p] \in [Comm -> Int]
    BY <2>4 DEF Local, TableTypes
  <2>6. \A x \in Proc : x # p => tab'[x] = tab[x] /\ vcrt'[x] = vcrt[x]
    BY <1>4, <2>1
  <2>7. tab' \in [Proc -> [Comm -> SUBSET Comm]] /\ vcrt' \in [Proc -> [Comm -> Int]]
    <3> DEFINE u == CHOOSE t \in tab[p][ops[n].of] : TRUE
    <3>a. vcrt' = [vcrt EXCEPT ![p][u] = @ + 1]
      BY <2>1
    <3> HIDE DEF u
    <3>b. vcrt' = [x \in Proc |-> vcrt'[x]]
      BY <1>4, <3>a
    <3>c. tab' = [x \in Proc |-> tab'[x]]
      BY <1>4, <2>1
    <3>1. tab' = [x \in Proc |-> tab'[x]] /\ vcrt' = [x \in Proc |-> vcrt'[x]]
      BY <3>b, <3>c
    <3>2. \A x \in Proc : tab'[x] \in [Comm -> SUBSET Comm] /\ vcrt'[x] \in [Comm -> Int]
      BY <1>4, <2>5, <2>6
    <3> QED
      BY <3>1, <3>2
  <2> QED
    BY <1>4, <2>1, <2>4, <2>6, <2>7 DEF Settled
<1>6. CASE ops[n].op = "create"
  <2>1. /\ vcrt' = [vcrt EXCEPT ![p][ops[n].new] = 1]
        /\ tab' = [tab EXCEPT ![p][ops[n].new] = {ops[n].new}]
        /\ vc' = [vc EXCEPT ![p] = [q \in Proc |-> IF q \in Range(ops[n].lpids) THEN @[q] + 1 ELSE @[q]]]
        /\ bad' = bad \cup {"no vc" : q \in {q \in Range(ops[n].lpids) : vc[p][q] = 0}}
    BY <1>6 DEF NewTable
  <2>2. vcrt'[p] = [vcrt[p] EXCEPT ![ops[n].new] = 1]
    BY <1>4, <2>1
  <2>3. tab'[p] = [tab[p] EXCEPT ![ops[n].new] = {ops[n].new}]
    BY <1>4, <2>1
  <2>4. vc'[p] = [q \in Proc |-> IF q \in Mem(ops, n) THEN vc[p][q] + 1 ELSE vc[p][q]]
    BY <1>2, <1>4, <2>1
  <2>5. Local(ops, DoneBy(p) \cup {n}, tab'[p], vcrt'[p], vc'[p])
    BY <1>2, <1>3, <1>6, <2>2, <2>3, <2>4, CreateLocal
  <2>6. tab'[p] \in [Comm -> SUBSET Comm] /\ vcrt'[p] \in [Comm -> Int] /\ vc'[p] \in [Proc -> Int]
    BY <2>5 DEF Local, TableTypes
  <2>7. \A x \in Proc : x # p => tab'[x] = tab[x] /\ vcrt'[x] = vcrt[x] /\ vc'[x] = vc[x]
    BY <1>4, <2>1
  <2>8. /\ tab' \in [Proc -> [Comm -> SUBSET Comm]] /\ vcrt' \in [Proc -> [Comm -> Int]]
        /\ vc' \in [Proc -> [Proc -> Int]]
    <3>1. tab' = [x \in Proc |-> tab'[x]] /\ vcrt' = [x \in Proc |-> vcrt'[x]] /\ vc' = [x \in Proc |-> vc'[x]]
      BY <1>4, <2>1
    <3>2. \A x \in Proc : tab'[x] \in [Comm -> SUBSET Comm] /\ vcrt'[x] \in [Comm -> Int] /\ vc'[x] \in [Proc -> Int]
      BY <1>4, <2>6, <2>7
    <3> QED
      BY <3>1, <3>2
  <2>9. \A q \in Mem(ops, n) : vc[p][q] # 0
    <3>1. ASSUME NEW q \in Mem(ops, n) PROVE vc[p][q] # 0
      <4>1. q \in Proc
        BY <1>2
      <4> QED
        BY <1>2, <1>3, <1>6, <4>1, StillThere
    <3> QED
      BY <3>1
  <2>10. bad' = bad
    BY <1>2, <2>1, <2>9
  <2>11. ASSUME NEW q \in Proc, vc'[p][q] > 0 PROVE vc[p][q] > 0
    <3>1. vc[p][q] \in Nat
      BY <1>3 DEF Local, Referred
    <3> QED
      BY <2>4, <2>9, <2>11, <3>1
  <2> QED
    BY <2>5, <2>7, <2>8, <2>10, <2>11 DEF Settled
<1> QED
  BY <1>5, <1>6 DEF Makes

(* MPIDI_VCRT_Release: a virtual connection that goes was torn. *)
LEMMA FreeCommEff ==
    ASSUME WellFormed, StateType, LocalInv, NEW p \in Proc, NEW n, FreeComm(p, n)
    PROVE  /\ Settled(p, n) /\ UpTo(ops, DoneBy(p), p, n) /\ p \in Mem(ops, n)
           /\ UNCHANGED <<prog, con, init, listen, kvs, ep, bar, bad>>
           /\ pc' = [pc EXCEPT ![p].n = n] /\ pc[p].at = "out" /\ n \in DOMAIN ops
           /\ ~Makes(ops, n)
           /\ cons' \in [Proc -> SUBSET Proc]
           /\ \A x \in Proc : x # p => cons'[x] = cons[x]
           /\ \A q \in Proc : q \in cons[p] /\ vc'[p][q] > 0 => q \in cons'[p]
<1>1. /\ UpTo(ops, DoneBy(p), p, n) /\ p \in Mem(ops, n) /\ ops[n].op \in {"free", "disconnect"}
      /\ n \in DOMAIN ops /\ pc[p].at = "out"
  BY NextCall DEF FreeComm
<1>2. /\ IsFiniteSet(Comm) /\ Consistent(ops) /\ DOMAIN ops \subseteq Comm /\ ops[n].new \in Comm
      /\ Mem(ops, n) \subseteq Proc /\ Range(ops[n].lpids) = Mem(ops, n)
  BY <1>1, ProgramFacts DEF Mem
<1>3. Local(ops, DoneBy(p), tab[p], vcrt[p], vc[p])
  BY DEF LocalInv
<1>4. /\ tab \in [Proc -> [Comm -> SUBSET Comm]] /\ vcrt \in [Proc -> [Comm -> Int]]
      /\ vc \in [Proc -> [Proc -> Int]] /\ cons \in [Proc -> SUBSET Proc]
  BY DEF StateType
<1>5. ~Makes(ops, n)
  BY <1>1 DEF Makes
<1>6. PICK t \in tab[p][ops[n].new] : Release(p, t, Range(ops[n].lpids), ops[n].op = "disconnect")
  BY DEF FreeComm
<1>7. tab' = [tab EXCEPT ![p][ops[n].new] = {}]
  BY DEF FreeComm
<1>8. vcrt' = [vcrt EXCEPT ![p][t] = @ - 1]
  BY <1>6 DEF Release
<1>9. tab'[p] = [tab[p] EXCEPT ![ops[n].new] = {}] /\ vcrt'[p] = [vcrt[p] EXCEPT ![t] = @ - 1]
  BY <1>4, <1>7, <1>8
<1> DEFINE W == [q \in Proc |-> IF q \notin Mem(ops, n) THEN vc[p][q]
                                ELSE IF ops[n].op = "disconnect" /\ vc[p][q] = 2 THEN 0 ELSE vc[p][q] - 1]
<1>10. /\ vc'[p] = IF vcrt[p][t] > 1 THEN vc[p] ELSE W
       /\ \A x \in Proc : x # p => cons'[x] = cons[x] /\ vc'[x] = vc[x]
       /\ cons' \in [Proc -> SUBSET Proc]
       /\ vc' = [x \in Proc |-> vc'[x]]
       /\ \A q \in Proc : q \in cons[p] /\ q \notin cons'[p] => vc'[p][q] = 0
  <2>1. CASE vcrt[p][t] > 1
    <3>1. vc' = vc /\ cons' = cons
      BY <1>6, <2>1 DEF Release
    <3> QED
      BY <1>4, <2>1, <3>1
  <2>2. CASE ~(vcrt[p][t] > 1)
    <3> DEFINE Gone == {q \in Mem(ops, n) : Torn(p, q, ops[n].op = "disconnect")}
    <3>1. /\ vc' = [vc EXCEPT ![p] = [q \in Proc |->
                      IF q \notin Mem(ops, n) THEN vc[p][q]
                      ELSE IF Torn(p, q, ops[n].op = "disconnect") THEN 0
                      ELSE vc[p][q] - 1]]
          /\ cons' = [cons EXCEPT ![p] = IF prog.lazy THEN cons[p] ELSE cons[p] \ Gone]
      BY <1>2, <1>6, <2>2 DEF Release
    <3>2. vc'[p] = W
      BY <1>4, <3>1 DEF Torn
    <3>3. \A x \in Proc : x # p => cons'[x] = cons[x] /\ vc'[x] = vc[x]
      BY <1>4, <3>1
    <3>4. cons' \in [Proc -> SUBSET Proc]
      BY <1>4, <3>1
    <3>5. vc' = [x \in Proc |-> vc'[x]]
      BY <1>4, <3>1
    <3>6. ASSUME NEW q \in Proc, q \in cons[p], q \notin cons'[p] PROVE vc'[p][q] = 0
      <4>1. q \in Gone
        BY <1>4, <3>1, <3>6
      <4> QED
        BY <3>2, <4>1 DEF Torn
    <3> QED
      BY <2>2, <3>2, <3>3, <3>4, <3>5, <3>6
  <2> QED
    BY <2>1, <2>2
<1>11. Local(ops, DoneBy(p) \cup {n}, tab'[p], vcrt'[p], vc'[p])
  <2>1. vc'[p] = Dropped(ops, n, vcrt[p], t, vc[p])
    BY <1>10 DEF Dropped
  <2>2. t \in tab[p][ops[n].new]
    BY <1>6
  <2>3. tab'[p] = [tab[p] EXCEPT ![ops[n].new] = {}]
    BY <1>9
  <2>4. vcrt'[p] = [vcrt[p] EXCEPT ![t] = @ - 1]
    BY <1>9
  <2> QED
    BY ONLY <1>1, <1>2, <1>3, <1>5, <2>1, <2>2, <2>3, <2>4, ReleaseLocal, SMTT(30)
<1>12. tab'[p] \in [Comm -> SUBSET Comm] /\ vcrt'[p] \in [Comm -> Int] /\ vc'[p] \in [Proc -> Int]
  BY <1>11 DEF Local, TableTypes
<1>13. \A x \in Proc : x # p => tab'[x] = tab[x] /\ vcrt'[x] = vcrt[x]
  BY <1>4, <1>7, <1>8
<1>14. /\ tab' \in [Proc -> [Comm -> SUBSET Comm]] /\ vcrt' \in [Proc -> [Comm -> Int]]
       /\ vc' \in [Proc -> [Proc -> Int]]
  <2>1. tab' = [x \in Proc |-> tab'[x]] /\ vcrt' = [x \in Proc |-> vcrt'[x]]
    BY <1>4, <1>7, <1>8
  <2>2. \A x \in Proc : tab'[x] \in [Comm -> SUBSET Comm] /\ vcrt'[x] \in [Comm -> Int] /\ vc'[x] \in [Proc -> Int]
    BY <1>4, <1>10, <1>12, <1>13
  <2> QED
    BY <1>10, <2>1, <2>2
<1>15. ASSUME NEW q \in Proc, vc'[p][q] > 0 PROVE vc[p][q] > 0
  <2>1. vc[p][q] \in Nat
    BY <1>3 DEF Local, Referred
  <2> QED
    BY <1>10, <1>15, <2>1
<1>16. Settled(p, n)
  BY <1>10, <1>11, <1>13, <1>14, <1>15 DEF Settled
<1>17. \A q \in Proc : q \in cons[p] /\ vc'[p][q] > 0 => q \in cons'[p]
  BY <1>10
<1>18. UNCHANGED <<prog, con, init, listen, kvs, ep, bar, bad>> /\ pc' = [pc EXCEPT ![p].n = n]
  BY DEF FreeComm
<1> QED
  BY <1>1, <1>5, <1>10, <1>16, <1>17, <1>18

-----------------------------------------------------------------------------
(* Types and control *)

(* The process group, the round and its parts depend on the call and the round. *)
LEMMA RoundFrame ==
    ASSUME prog' = prog, NEW p, pc'[p].n = pc[p].n, pc'[p].i = pc[p].i
    PROVE  (OnePart(p)' <=> OnePart(p)) /\ Size(p)' = Size(p) /\ Call(p)' = Call(p)
BY DEF OnePart, Src, Dest, Lpid, RankIn, Size, Call, ops

(* A process that does nothing. *)
LEMMA ControlFrame ==
    ASSUME prog' = prog, NEW p, pc'[p] = pc[p], Control(p), p \in listen => p \in listen'
    PROVE  Control(p)'
<1>1. (OnePart(p)' <=> OnePart(p)) /\ Size(p)' = Size(p)
  BY RoundFrame
<1> QED
  BY <1>1 DEF Control, ops, Mem, Makes

(* Advance: the next part or round of p. *)
LEMMA AdvanceEff ==
    ASSUME WellFormed, StateInv, NEW p \in Proc, pc[p].at = "round", Advance(p), prog' = prog, listen' = listen
    PROVE  /\ pc' \in [Proc -> [n: Nat, at: Places, i: Nat, k: {1, 2}]]
           /\ pc'[p].n = pc[p].n /\ pc'[p].at # "out"
           /\ \A x \in Proc : x # p => pc'[x] = pc[x]
           /\ Control(p)'
<1>1. pc \in [Proc -> [n: Nat, at: Places, i: Nat, k: {1, 2}]] /\ Control(p)
  BY DEF StateInv, StateType
<1>s. Size(p) \in Nat
  <2>1. pc[p].n \in DOMAIN ops
    BY <1>1 DEF Control
  <2>2. Call(p).lpids \in Seq(Proc)
    BY <2>1, ProgramFacts DEF StateInv, Call
  <2> QED
    BY <2>2 DEF Size
<1>2. Size(p) \div 2 \in Nat
  BY <1>s
<1> DEFINE next == IF pc[p].k = 1 /\ ~OnePart(p) THEN [pc[p] EXCEPT !.k = 2]
                   ELSE IF pc[p].i < Size(p) \div 2 THEN [pc[p] EXCEPT !.i = @ + 1, !.k = 1]
                   ELSE [pc[p] EXCEPT !.at = "last"]
<1>3. pc' = [pc EXCEPT ![p] = next]
  BY DEF Advance
<1>4. next \in [n: Nat, at: Places, i: Nat, k: {1, 2}] /\ next.n = pc[p].n /\ next.at \in {"round", "last"}
  <2>1. pc[p] \in [n: Nat, at: Places, i: Nat, k: {1, 2}] /\ pc[p].at = "round"
    BY <1>1
  <2>2. [pc[p] EXCEPT !.k = 2] \in [n: Nat, at: Places, i: Nat, k: {1, 2}]
    BY <2>1
  <2>3. [pc[p] EXCEPT !.i = @ + 1, !.k = 1] \in [n: Nat, at: Places, i: Nat, k: {1, 2}]
    <3>1. pc[p].i + 1 \in Nat
      BY <2>1
    <3>2. ASSUME NEW r \in [n: Nat, at: Places, i: Nat, k: {1, 2}], NEW m \in Nat
          PROVE  [r EXCEPT !.i = m, !.k = 1] \in [n: Nat, at: Places, i: Nat, k: {1, 2}]
      OBVIOUS
    <3> QED
      BY <2>1, <3>1, <3>2
  <2>4. [pc[p] EXCEPT !.at = "last"] \in [n: Nat, at: Places, i: Nat, k: {1, 2}]
    BY <2>1 DEF Places
  <2>5. next \in [n: Nat, at: Places, i: Nat, k: {1, 2}]
    BY <2>2, <2>3, <2>4
  <2>6. next.n = pc[p].n /\ next.at \in {"round", "last"}
    BY <2>1
  <2> QED
    BY <2>5, <2>6
<1>5. next.i <= Size(p) \div 2 /\ (next.k = 2 => next.i = pc[p].i /\ ~OnePart(p))
  BY <1>1, <1>2 DEF Control
<1>6. pc'[p] = next
  BY <1>1, <1>3
<1> HIDE DEF next
<1>7. pc' \in [Proc -> [n: Nat, at: Places, i: Nat, k: {1, 2}]]
  BY <1>1, <1>3, <1>4
<1>8. \A x \in Proc : x # p => pc'[x] = pc[x]
  BY <1>1, <1>3
<1>9. Size(p)' = Size(p)
  BY <1>4, <1>6 DEF Size, Call, ops
<1>10. pc'[p].k = 2 => ~OnePart(p)'
  BY <1>4, <1>5, <1>6, RoundFrame
<1>11. Control(p)'
  BY <1>1, <1>4, <1>5, <1>6, <1>9, <1>10 DEF Control, ops, Mem, Makes
<1> QED
  BY <1>4, <1>6, <1>7, <1>8, <1>11

(* Opened: p has the new connections. *)
LEMMA OpenedEff ==
    ASSUME StateType, NEW p \in Proc, NEW new, Opened(p, new), new \subseteq Proc
    PROVE  /\ con' \in [Proc -> [Proc -> SUBSET Proc]] /\ cons' \in [Proc -> SUBSET Proc]
           /\ \A x \in Proc : x # p => con'[x] = con[x] /\ cons'[x] = cons[x]
           /\ \A q \in Proc : con'[p][q] = (IF q \in new THEN {p} ELSE con[p][q])
           /\ cons'[p] = cons[p] \cup new
BY DEF Opened, StateType

(* FastPath. *)
LEMMA FastPathEff ==
    ASSUME WellFormed, StateInv, LocalInv, NEW p \in Proc, NEW n, FastPath(p, n)
    PROVE  /\ UpTo(ops, DoneBy(p), p, n) /\ p \in Mem(ops, n) /\ Makes(ops, n) /\ pc[p].at = "out"
           /\ Settled(p, n) /\ bad' = bad /\ UNCHANGED <<prog, con, cons, init, listen, kvs, ep, bar>>
           /\ pc' \in [Proc -> [n: Nat, at: Places, i: Nat, k: {1, 2}]]
           /\ pc'[p].n = n /\ pc'[p].at = "out" /\ \A x \in Proc : x # p => pc'[x] = pc[x]
           /\ \A q \in Mem(ops, n) : con[p][q] # {}
<1>1. /\ UpTo(ops, DoneBy(p), p, n) /\ p \in Mem(ops, n) /\ ops[n].op \in {"create", "dup"}
      /\ n \in DOMAIN ops /\ pc[p].at = "out"
  BY NextCall DEF FastPath, StateInv
<1>2. Makes(ops, n) /\ n \in Nat
  BY <1>1, ProgramFacts DEF Makes, StateInv
<1>3. Settled(p, n) /\ bad' = bad
  BY <1>1, <1>2, NewTableEff DEF FastPath, StateInv
<1>4. pc \in [Proc -> [n: Nat, at: Places, i: Nat, k: {1, 2}]] /\ pc' = [pc EXCEPT ![p].n = n]
  BY DEF StateInv, StateType, FastPath
<1>5. /\ pc' \in [Proc -> [n: Nat, at: Places, i: Nat, k: {1, 2}]]
      /\ pc'[p].n = n /\ pc'[p].at = pc[p].at /\ \A x \in Proc : x # p => pc'[x] = pc[x]
  BY <1>2, <1>4
<1>6. \A q \in Mem(ops, n) : con[p][q] # {}
  BY DEF FastPath, Missing, Mem
<1>7. UNCHANGED <<prog, con, cons, init, listen, kvs, ep, bar>>
  BY DEF FastPath, cvars
<1> QED
  BY <1>1, <1>2, <1>3, <1>5, <1>6, <1>7

(* Publish. *)
LEMMA PublishEff ==
    ASSUME WellFormed, StateInv, NEW p \in Proc, NEW n, Publish(p, n)
    PROVE  /\ UpTo(ops, DoneBy(p), p, n) /\ p \in Mem(ops, n) /\ Makes(ops, n) /\ pc[p].at = "out"
           /\ UNCHANGED <<prog, con, cons, init, ep, vc, vcrt, tab, bad>>
           /\ pc' \in [Proc -> [n: Nat, at: Places, i: Nat, k: {1, 2}]]
           /\ pc'[p] = [n |-> n, at |-> "barrier", i |-> 0, k |-> 1]
           /\ \A x \in Proc : x # p => pc'[x] = pc[x]
           /\ listen' = listen \cup {p}
           /\ IF Len(ops[n].lpids) > 1
              THEN /\ kvs' = kvs \cup {p}
                   /\ bar' = [bar EXCEPT ![p][Mem(ops, n)] = @ + 1]
              ELSE kvs' = kvs /\ bar' = bar
<1>1. /\ UpTo(ops, DoneBy(p), p, n) /\ p \in Mem(ops, n) /\ ops[n].op \in {"create", "dup"}
      /\ n \in DOMAIN ops /\ pc[p].at = "out"
  BY NextCall DEF Publish, StateInv
<1>2. Makes(ops, n) /\ n \in Nat
  BY <1>1, ProgramFacts DEF Makes, StateInv
<1>3. pc \in [Proc -> [n: Nat, at: Places, i: Nat, k: {1, 2}]]
  BY DEF StateInv, StateType
<1>4. pc' = [pc EXCEPT ![p] = [n |-> n, at |-> "barrier", i |-> 0, k |-> 1]]
  BY DEF Publish
<1>5. /\ pc' \in [Proc -> [n: Nat, at: Places, i: Nat, k: {1, 2}]]
      /\ pc'[p] = [n |-> n, at |-> "barrier", i |-> 0, k |-> 1]
      /\ \A x \in Proc : x # p => pc'[x] = pc[x]
  BY <1>2, <1>3, <1>4 DEF Places
<1>6. /\ UNCHANGED <<prog, con, cons, init, ep, vc, vcrt, tab, bad>> /\ listen' = listen \cup {p}
      /\ IF Len(ops[n].lpids) > 1
         THEN /\ kvs' = kvs \cup {p}
              /\ bar' = [bar EXCEPT ![p][Mem(ops, n)] = @ + 1]
         ELSE kvs' = kvs /\ bar' = bar
  BY DEF Publish, rvars, Mem
<1> QED
  BY <1>1, <1>2, <1>5, <1>6

(* Return: the end of connection_init. *)
LEMMA ReturnEff ==
    ASSUME WellFormed, StateInv, LocalInv, NEW p \in Proc, pc[p].at # "out", Return(p)
    PROVE  /\ UpTo(ops, DoneBy(p), p, pc[p].n) /\ p \in Mem(ops, pc[p].n) /\ Makes(ops, pc[p].n)
           /\ Settled(p, pc[p].n) /\ bad' = bad /\ listen' = listen \ {p}
           /\ pc' \in [Proc -> [n: Nat, at: Places, i: Nat, k: {1, 2}]]
           /\ pc'[p].n = pc[p].n /\ pc'[p].at = "out" /\ \A x \in Proc : x # p => pc'[x] = pc[x]
<1>1. /\ UpTo(ops, DoneBy(p), p, pc[p].n) /\ p \in Mem(ops, pc[p].n) /\ Makes(ops, pc[p].n)
      /\ Call(p) = ops[pc[p].n]
  BY InsideCall
<1>2. Settled(p, pc[p].n) /\ bad' = bad
  BY <1>1, NewTableEff DEF Return, StateInv
<1>3. pc \in [Proc -> [n: Nat, at: Places, i: Nat, k: {1, 2}]] /\ pc' = [pc EXCEPT ![p].at = "out"]
  BY DEF StateInv, StateType, Return
<1>4. /\ pc' \in [Proc -> [n: Nat, at: Places, i: Nat, k: {1, 2}]]
      /\ pc'[p].n = pc[p].n /\ pc'[p].at = "out" /\ \A x \in Proc : x # p => pc'[x] = pc[x]
  BY <1>3 DEF Places
<1> QED
  BY <1>1, <1>2, <1>4 DEF Return

(* Exchange. *)
LEMMA ExchangeEff ==
    ASSUME WellFormed, StateInv, NEW p \in Proc, Exchange(p)
    PROVE  /\ pc' \in [Proc -> [n: Nat, at: Places, i: Nat, k: {1, 2}]] /\ pc[p].at = "barrier"
           /\ pc'[p].n = pc[p].n /\ pc'[p].i = pc[p].i /\ pc'[p].k = pc[p].k
           /\ pc'[p].at = (IF prog.direct THEN "round" ELSE "ondemand")
           /\ \A x \in Proc : x # p => pc'[x] = pc[x]
           /\ UNCHANGED <<prog, con, cons, init, listen, kvs, bar, vc, vcrt, tab>>
<1>1. pc \in [Proc -> [n: Nat, at: Places, i: Nat, k: {1, 2}]]
  BY DEF StateInv, StateType
<1>2. pc' = [pc EXCEPT ![p].at = IF prog.direct THEN "round" ELSE "ondemand"]
  BY DEF Exchange
<1>3. UNCHANGED <<prog, con, cons, init, listen, kvs, bar, vc, vcrt, tab>> /\ pc[p].at = "barrier"
  BY DEF Exchange, rvars, At
<1> QED
  BY <1>1, <1>2, <1>3 DEF Places

(* Remainders. *)
LEMMA ModRange ==
    ASSUME NEW a \in Int, NEW s \in Nat \ {0}
    PROVE  a % s \in 0..(s - 1)
OBVIOUS

(* The rank of p among the members of its call, and the ranks it deals with in a    *)
(* round.                                                                         *)
LEMMA RankFacts ==
    ASSUME WellFormed, StateInv, NEW p \in Proc, pc[p].at # "out"
    PROVE  /\ Size(p) \in Nat \ {0} /\ Size(p) = Len(ops[pc[p].n].lpids)
           /\ RankIn(p) \in 0..(Size(p) - 1) /\ Lpid(p, RankIn(p)) = p
           /\ (RankIn(p) + pc[p].i) % Size(p) \in 0..(Size(p) - 1)
           /\ (RankIn(p) + Size(p) - pc[p].i) % Size(p) \in 0..(Size(p) - 1)
           /\ pc[p].i \in 0..(Size(p) \div 2)
           /\ Dest(p) \in Mem(ops, pc[p].n) /\ Dest(p) \in Proc
           /\ Src(p) \in Mem(ops, pc[p].n) /\ Src(p) \in Proc
<1>1. /\ p \in Mem(ops, pc[p].n) /\ pc[p].n \in DOMAIN ops /\ Call(p) = ops[pc[p].n]
  BY InsideCall
<1>2. ops[pc[p].n].lpids \in Seq(Proc) /\ Mem(ops, pc[p].n) \subseteq Proc
  BY <1>1, ProgramFacts DEF StateInv
<1>3. Size(p) = Len(ops[pc[p].n].lpids) /\ Size(p) \in Nat /\ DOMAIN ops[pc[p].n].lpids = 1..Size(p)
  BY <1>1, <1>2 DEF Size
<1>4. PICK own \in 1..Size(p) : Call(p).lpids[own] = p
  BY <1>1, <1>3 DEF Mem, Range
<1>5. Size(p) # 0
  BY <1>3, <1>4
<1>6. RankIn(p) + 1 \in 1..Size(p) /\ Call(p).lpids[RankIn(p) + 1] = p /\ RankIn(p) \in Int
  <2> DEFINE c == CHOOSE x \in 1..Size(p) : Call(p).lpids[x] = p
  <2>1. c \in 1..Size(p) /\ Call(p).lpids[c] = p
    BY <1>4
  <2>2. RankIn(p) = c - 1
    BY DEF RankIn
  <2> HIDE DEF c
  <2>3. c \in Int /\ RankIn(p) + 1 = c
    BY <1>3, <2>1, <2>2
  <2> QED
    BY <2>1, <2>2, <2>3
<1>7. RankIn(p) \in 0..(Size(p) - 1) /\ Lpid(p, RankIn(p)) = p
  BY <1>3, <1>6 DEF Lpid
<1>8. pc[p].i \in Nat /\ pc[p].i <= Size(p) \div 2 /\ Size(p) \div 2 \in Nat
  <2>1. pc[p].i \in Nat
    BY DEF StateInv, StateType
  <2>2. pc[p].i <= Size(p) \div 2
    BY DEF StateInv, Control
  <2>3. ASSUME NEW a \in Nat PROVE a \div 2 \in Nat
    OBVIOUS
  <2> QED
    BY ONLY <1>3, <2>1, <2>2, <2>3
<1>9. \A a \in Int : a % Size(p) \in 0..(Size(p) - 1)
  BY ONLY <1>3, <1>5, ModRange
<1>10. /\ (RankIn(p) + pc[p].i) % Size(p) \in 0..(Size(p) - 1)
       /\ (RankIn(p) + Size(p) - pc[p].i) % Size(p) \in 0..(Size(p) - 1)
  <2>1. RankIn(p) + pc[p].i \in Int /\ RankIn(p) + Size(p) - pc[p].i \in Int
    BY ONLY <1>3, <1>6, <1>8
  <2> QED
    BY <1>9, <2>1
<1>11. \A r \in 0..(Size(p) - 1) : Lpid(p, r) \in Mem(ops, pc[p].n)
  <2>1. ASSUME NEW r \in 0..(Size(p) - 1) PROVE Lpid(p, r) \in Mem(ops, pc[p].n)
    <3>1. r + 1 \in DOMAIN ops[pc[p].n].lpids
      BY <1>3
    <3> QED
      BY <1>1, <3>1 DEF Lpid, Mem, Range
  <2> QED
    BY <2>1
<1>12. Dest(p) \in Mem(ops, pc[p].n) /\ Src(p) \in Mem(ops, pc[p].n)
  BY <1>10, <1>11 DEF Dest, Src
<1>13. pc[p].i \in 0..(Size(p) \div 2)
  BY <1>8
<1> QED
  BY <1>2, <1>3, <1>5, <1>7, <1>10, <1>12, <1>13

(* ConnectDirect. *)
LEMMA ConnectDirectEff ==
    ASSUME WellFormed, StateInv, NEW p \in Proc, ConnectDirect(p)
    PROVE  /\ pc[p].at = "round" /\ Connects(p) /\ con[p][Dest(p)] = {} /\ Dest(p) \in Proc
           /\ Dest(p) \in Mem(ops, pc[p].n)
           /\ con' \in [Proc -> [Proc -> SUBSET Proc]] /\ cons' \in [Proc -> SUBSET Proc]
           /\ \A x \in Proc : x # p => con'[x] = con[x] /\ cons'[x] = cons[x] /\ pc'[x] = pc[x]
           /\ \A q \in Proc : con'[p][q] = (IF q = Dest(p) THEN {p} ELSE con[p][q])
           /\ cons'[p] = cons[p] \cup {Dest(p)}
           /\ init' = init \cup {<<p, Dest(p)>>}
           /\ bad' = bad \cup (IF Dest(p) \in listen THEN {} ELSE {"refused"})
           /\ UNCHANGED <<prog, listen, kvs, ep, bar, vc, vcrt, tab>>
           /\ pc' \in [Proc -> [n: Nat, at: Places, i: Nat, k: {1, 2}]]
           /\ pc'[p].n = pc[p].n /\ pc'[p].at # "out" /\ Control(p)'
<1>1. /\ pc[p].at = "round" /\ Connects(p) /\ con[p][Dest(p)] = {} /\ init' = init \cup {<<p, Dest(p)>>}
      /\ bad' = bad \cup (IF Dest(p) \in listen THEN {} ELSE {"refused"})
      /\ UNCHANGED <<prog, listen, kvs, ep, bar, vc, vcrt, tab>>
  BY DEF ConnectDirect, At, rvars
<1>2. Dest(p) \in Proc /\ Dest(p) \in Mem(ops, pc[p].n)
  BY <1>1, RankFacts
<1>3. Opened(p, {Dest(p)}) /\ Advance(p)
  BY DEF ConnectDirect
<1>4. /\ con' \in [Proc -> [Proc -> SUBSET Proc]] /\ cons' \in [Proc -> SUBSET Proc]
      /\ \A x \in Proc : x # p => con'[x] = con[x] /\ cons'[x] = cons[x]
      /\ \A q \in Proc : con'[p][q] = (IF q \in {Dest(p)} THEN {p} ELSE con[p][q])
      /\ cons'[p] = cons[p] \cup {Dest(p)}
  <2>1. {Dest(p)} \subseteq Proc /\ StateType
    BY <1>2 DEF StateInv
  <2> QED
    BY <1>3, <2>1, OpenedEff
<1>5. /\ pc' \in [Proc -> [n: Nat, at: Places, i: Nat, k: {1, 2}]]
      /\ pc'[p].n = pc[p].n /\ pc'[p].at # "out"
      /\ \A x \in Proc : x # p => pc'[x] = pc[x]
      /\ Control(p)'
  BY <1>1, <1>3, AdvanceEff
<1> QED
  BY <1>1, <1>2, <1>4, <1>5

(* PartDone. *)
LEMMA PartDoneEff ==
    ASSUME WellFormed, StateInv, NEW p \in Proc, PartDone(p)
    PROVE  /\ UNCHANGED <<prog, con, cons, init, listen, kvs, ep, bar, vc, vcrt, tab, bad>>
           /\ pc[p].at = "round" /\ \A x \in Proc : x # p => pc'[x] = pc[x]
           /\ pc' \in [Proc -> [n: Nat, at: Places, i: Nat, k: {1, 2}]]
           /\ pc'[p].n = pc[p].n /\ pc'[p].at # "out" /\ Control(p)'
<1>1. /\ UNCHANGED <<prog, con, cons, init, listen, kvs, ep, bar, vc, vcrt, tab, bad>>
      /\ pc[p].at = "round" /\ Advance(p)
  BY DEF PartDone, At, cvars, rvars
<1>2. /\ pc' \in [Proc -> [n: Nat, at: Places, i: Nat, k: {1, 2}]]
      /\ pc'[p].n = pc[p].n /\ pc'[p].at # "out"
      /\ \A x \in Proc : x # p => pc'[x] = pc[x]
      /\ Control(p)'
  BY <1>1, AdvanceEff
<1> QED
  BY <1>1, <1>2

(* ConnectOndemand. *)
LEMMA ConnectOndemandEff ==
    ASSUME WellFormed, StateInv, LocalInv, NEW p \in Proc, ConnectOndemand(p)
    PROVE  /\ pc[p].at = "ondemand" /\ Return(p) /\ UNCHANGED <<prog, init, kvs, ep, bar>>
           /\ con' \in [Proc -> [Proc -> SUBSET Proc]] /\ cons' \in [Proc -> SUBSET Proc]
           /\ \A x \in Proc : x # p => con'[x] = con[x] /\ cons'[x] = cons[x]
           /\ \A q \in Proc : con'[p][q] = (IF q \in Mem(ops, pc[p].n) /\ con[p][q] = {} THEN {p} ELSE con[p][q])
           /\ cons'[p] = cons[p] \cup {q \in Mem(ops, pc[p].n) : con[p][q] = {}}
<1>1. pc[p].at = "ondemand" /\ Return(p) /\ UNCHANGED <<prog, init, kvs, ep, bar>>
  BY DEF ConnectOndemand, At
<1>2. Call(p) = ops[pc[p].n] /\ pc[p].n \in DOMAIN ops
  BY <1>1, InsideCall
<1>3. Mem(ops, pc[p].n) \subseteq Proc /\ StateType
  BY <1>2, ProgramFacts DEF StateInv
<1> DEFINE new == {q \in Mem(ops, pc[p].n) : con[p][q] = {}}
<1>4. Opened(p, new) /\ new \subseteq Proc
  BY <1>2, <1>3 DEF ConnectOndemand, Missing, Mem
<1> HIDE DEF new
<1>5. /\ con' \in [Proc -> [Proc -> SUBSET Proc]] /\ cons' \in [Proc -> SUBSET Proc]
      /\ \A x \in Proc : x # p => con'[x] = con[x] /\ cons'[x] = cons[x]
      /\ \A q \in Proc : con'[p][q] = (IF q \in new THEN {p} ELSE con[p][q])
      /\ cons'[p] = cons[p] \cup new
  BY <1>3, <1>4, OpenedEff
<1> QED
  BY <1>1, <1>5 DEF new

(* RecvInit. *)
LEMMA RecvInitEff ==
    ASSUME StateInv, NEW p \in Proc, NEW q \in Proc, RecvInit(p, q)
    PROVE  /\ <<p, q>> \in init /\ init' = init \ {<<p, q>>}
           /\ UNCHANGED <<prog, pc, listen, kvs, ep, bar, vc, vcrt, tab>>
           /\ con' \in [Proc -> [Proc -> SUBSET Proc]] /\ cons' \in [Proc -> SUBSET Proc]
           /\ \A x, y \in Proc : con'[x][y] = (IF x = q /\ y = p /\ con[q][p] = {} THEN {p} ELSE con[x][y])
           /\ \A x \in Proc : cons'[x] = (IF x = q /\ con[q][p] = {} THEN cons[q] \cup {p} ELSE cons[x])
           /\ bad' = bad \cup (IF p = q \/ con[q][p] = {} THEN {} ELSE {"second connection"})
<1>1. /\ <<p, q>> \in init /\ init' = init \ {<<p, q>>}
      /\ UNCHANGED <<prog, pc, listen, kvs, ep, bar, vc, vcrt, tab>>
  BY DEF RecvInit, rvars
<1>2. con \in [Proc -> [Proc -> SUBSET Proc]] /\ cons \in [Proc -> SUBSET Proc]
  BY DEF StateInv, StateType
<1>3. CASE con[q][p] = {}
  <2>1. con' = [con EXCEPT ![q][p] = {p}] /\ cons' = [cons EXCEPT ![q] = @ \cup {p}] /\ bad' = bad
    BY <1>3 DEF RecvInit
  <2>2. con' \in [Proc -> [Proc -> SUBSET Proc]] /\ cons' \in [Proc -> SUBSET Proc]
    BY <1>2, <2>1
  <2>3. \A x, y \in Proc : con'[x][y] = (IF x = q /\ y = p THEN {p} ELSE con[x][y])
    BY <1>2, <2>1
  <2>4. \A x \in Proc : cons'[x] = (IF x = q THEN cons[q] \cup {p} ELSE cons[x])
    BY <1>2, <2>1
  <2> QED
    BY <1>1, <1>3, <2>1, <2>2, <2>3, <2>4
<1>4. CASE con[q][p] # {}
  <2>1. con' = con /\ cons' = cons /\ bad' = bad \cup (IF p = q THEN {} ELSE {"second connection"})
    BY <1>4 DEF RecvInit
  <2> QED
    BY <1>1, <1>2, <1>4, <2>1
<1> QED
  BY <1>3, <1>4

(* Connected. *)
LEMMA ConnectedEff ==
    ASSUME WellFormed, StateInv, NEW p \in Proc, Connected(p)
    PROVE  /\ pc[p].at = "last" /\ Return(p) /\ UNCHANGED <<prog, con, cons, init, kvs, ep, bar>>
           /\ \A q \in Mem(ops, pc[p].n) : con[p][q] # {}
<1>1. pc[p].at = "last" /\ Return(p) /\ UNCHANGED <<prog, con, cons, init, kvs, ep, bar>>
  BY DEF Connected, At
<1> QED
  BY <1>1 DEF Connected, Missing, Mem, Call

(* Types and control are kept, and so are the tables of every process. *)
LEMMA StateStep ==
    ASSUME WellFormed, StateInv, LocalInv, [Next]_vars
    PROVE  StateInv' /\ LocalInv'
<1> DEFINE PcSet == [Proc -> [n: Nat, at: Places, i: Nat, k: {1, 2}]]
<1>t. StateType /\ \A x \in Proc : Control(x)
  BY DEF StateInv
(* A step of p that leaves its tables alone. *)
<1>a. ASSUME NEW p \in Proc, prog' = prog, tab' = tab, vcrt' = vcrt, vc' = vc, DoneBy(p)' = DoneBy(p),
             \A x \in Proc : x # p => pc'[x] = pc[x]
      PROVE  LocalInv'
  <2>1. ops' = ops /\ \A x \in Proc : DoneBy(x)' = DoneBy(x)
    BY <1>a, DoneFrame DEF ops
  <2> QED
    BY <1>a, <2>1 DEF LocalInv
(* A step of p that ends a call. *)
<1>b. ASSUME NEW p \in Proc, NEW n, prog' = prog, UpTo(ops, DoneBy(p), p, n), p \in Mem(ops, n), Settled(p, n),
             pc'[p].n = n, pc'[p].at = "out", \A x \in Proc : x # p => pc'[x] = pc[x]
      PROVE  /\ LocalInv' /\ tab' \in [Proc -> [Comm -> SUBSET Comm]] /\ vcrt' \in [Proc -> [Comm -> Int]]
             /\ vc' \in [Proc -> [Proc -> Int]]
  <2>1. ops' = ops /\ \A x \in Proc : x # p => DoneBy(x)' = DoneBy(x)
    BY <1>b, DoneFrame DEF ops
  <2>2. DoneBy(p)' = DoneBy(p) \cup {n}
    BY <1>b, <1>t, DoneAfter
  <2>3. \A x \in Proc : Local(ops, DoneBy(x)', tab'[x], vcrt'[x], vc'[x])
    BY <1>b, <2>1, <2>2 DEF Settled, LocalInv
  <2> QED
    BY <1>b, <2>1, <2>3 DEF LocalInv, Settled
(* The control of all processes after a step of p. *)
<1>c. ASSUME NEW p \in Proc, prog' = prog, \A x \in Proc : x # p => pc'[x] = pc[x] /\ (x \in listen => x \in listen'),
             Control(p)'
      PROVE  \A x \in Proc : Control(x)'
  BY <1>c, <1>t, ControlFrame
<1>d. ASSUME NEW p \in Proc, pc'[p].at = "out" PROVE Control(p)'
  BY <1>d DEF Control
<1>1. CASE UNCHANGED vars
  <2>1. StateInv'
    <3>1. StateType'
      BY <1>1, <1>t DEF StateType, vars
    <3>2. \A x \in Proc : Control(x)'
      BY <1>1, <1>t, ControlFrame DEF vars
    <3> QED
      BY <3>1, <3>2 DEF StateInv
  <2>2. LocalInv'
    BY <1>1 DEF vars, LocalInv, DoneBy, ops, Mem
  <2> QED
    BY <2>1, <2>2
<1>2. ASSUME NEW p \in Proc, NEW n, FastPath(p, n) PROVE StateInv' /\ LocalInv'
  <2>1. /\ UpTo(ops, DoneBy(p), p, n) /\ p \in Mem(ops, n) /\ Settled(p, n)
        /\ UNCHANGED <<prog, con, cons, init, listen, kvs, ep, bar>>
        /\ pc' \in PcSet /\ pc'[p].n = n /\ pc'[p].at = "out" /\ \A x \in Proc : x # p => pc'[x] = pc[x]
    BY <1>2, FastPathEff
  <2>2. /\ LocalInv' /\ tab' \in [Proc -> [Comm -> SUBSET Comm]] /\ vcrt' \in [Proc -> [Comm -> Int]]
        /\ vc' \in [Proc -> [Proc -> Int]]
    BY <1>b, <2>1
  <2>3. \A x \in Proc : Control(x)'
    BY <1>c, <1>d, <2>1
  <2> QED
    BY <1>t, <2>1, <2>2, <2>3 DEF StateInv, StateType
<1>3. ASSUME NEW p \in Proc, NEW n, Publish(p, n) PROVE StateInv' /\ LocalInv'
  <2>1. /\ UpTo(ops, DoneBy(p), p, n) /\ p \in Mem(ops, n) /\ Makes(ops, n) /\ pc[p].at = "out"
        /\ UNCHANGED <<prog, con, cons, init, ep, vc, vcrt, tab, bad>>
        /\ pc' \in PcSet /\ pc'[p] = [n |-> n, at |-> "barrier", i |-> 0, k |-> 1]
        /\ \A x \in Proc : x # p => pc'[x] = pc[x]
        /\ listen' = listen \cup {p}
        /\ IF Len(ops[n].lpids) > 1
           THEN /\ kvs' = kvs \cup {p}
                /\ bar' = [bar EXCEPT ![p][Mem(ops, n)] = @ + 1]
           ELSE kvs' = kvs /\ bar' = bar
    BY <1>3, PublishEff
  <2>2. pc'[p].n = n /\ pc'[p].at = "barrier" /\ pc'[p].i = 0 /\ pc'[p].k = 1
    BY <2>1
  <2>3. DoneBy(p)' = DoneBy(p)
    BY <1>t, <2>1, <2>2, DoneAfter
  <2>4. LocalInv'
    BY <1>a, <2>1, <2>3
  <2>5. n \in DOMAIN ops /\ ops[n].lpids \in Seq(Proc) /\ Mem(ops, n) \in Groups
    BY <1>t, <2>1, ProgramFacts DEF UpTo
  <2>6. 0 <= Size(p)' \div 2
    <3>1. Size(p)' = Len(ops[n].lpids)
      BY <2>1, <2>2 DEF Size, Call, ops
    <3>2. Len(ops[n].lpids) \in Nat
      BY <2>5
    <3>3. ASSUME NEW a \in Nat PROVE 0 <= a \div 2
      OBVIOUS
    <3> QED
      BY ONLY <3>1, <3>2, <3>3
  <2>7. Control(p)'
    BY <2>1, <2>2, <2>5, <2>6 DEF Control, ops, Mem, Makes
  <2>8. \A x \in Proc : Control(x)'
    BY <1>c, <2>1, <2>7
  <2>9. kvs' \subseteq Proc /\ bar' \in [Proc -> [Groups -> Nat]]
    <3>1. CASE Len(ops[n].lpids) > 1
      <4>1. kvs \subseteq Proc /\ bar \in [Proc -> [Groups -> Nat]]
        BY <1>t DEF StateType
      <4>2. kvs' = kvs \cup {p} /\ bar' = [bar EXCEPT ![p][Mem(ops, n)] = @ + 1]
        BY <2>1, <3>1
      <4>3. bar[p][Mem(ops, n)] + 1 \in Nat
        BY <4>1, <2>5
      <4> QED
        BY ONLY <4>1, <4>2, <4>3, <2>5, p \in Proc
    <3>2. CASE ~(Len(ops[n].lpids) > 1)
      BY <1>t, <2>1, <3>2 DEF StateType
    <3> QED
      BY <3>1, <3>2
  <2>10. StateType'
    BY <1>t, <2>1, <2>9 DEF StateType
  <2> QED
    BY <2>4, <2>8, <2>10 DEF StateInv
<1>4. ASSUME NEW p \in Proc, NEW n, FreeComm(p, n) PROVE StateInv' /\ LocalInv'
  <2>1. /\ Settled(p, n) /\ UpTo(ops, DoneBy(p), p, n) /\ p \in Mem(ops, n)
        /\ UNCHANGED <<prog, con, init, listen, kvs, ep, bar, bad>>
        /\ pc' = [pc EXCEPT ![p].n = n] /\ pc[p].at = "out" /\ n \in DOMAIN ops
        /\ cons' \in [Proc -> SUBSET Proc]
    BY <1>4, <1>t, FreeCommEff
  <2>2. pc' \in PcSet /\ pc'[p].n = n /\ pc'[p].at = "out" /\ \A x \in Proc : x # p => pc'[x] = pc[x]
    <3>1. n \in Nat
      BY <1>t, <2>1, ProgramFacts
    <3>2. pc \in PcSet
      BY <1>t DEF StateType
    <3>3. pc' = [pc EXCEPT ![p].n = n] /\ pc[p].at = "out"
      BY <2>1
    <3> QED
      BY ONLY <3>1, <3>2, <3>3, p \in Proc DEF PcSet
  <2>3. /\ LocalInv' /\ tab' \in [Proc -> [Comm -> SUBSET Comm]] /\ vcrt' \in [Proc -> [Comm -> Int]]
        /\ vc' \in [Proc -> [Proc -> Int]]
    BY <1>b, <2>1, <2>2
  <2>4. \A x \in Proc : Control(x)'
    BY <1>c, <1>d, <2>1, <2>2
  <2> QED
    BY <1>t, <2>1, <2>2, <2>3, <2>4 DEF StateInv, StateType
<1>5. ASSUME NEW p \in Proc, Exchange(p) PROVE StateInv' /\ LocalInv'
  <2>1. /\ pc' \in PcSet /\ pc[p].at = "barrier"
        /\ pc'[p].n = pc[p].n /\ pc'[p].i = pc[p].i /\ pc'[p].k = pc[p].k
        /\ pc'[p].at = (IF prog.direct THEN "round" ELSE "ondemand")
        /\ \A x \in Proc : x # p => pc'[x] = pc[x]
        /\ UNCHANGED <<prog, con, cons, init, listen, kvs, bar, vc, vcrt, tab>>
    BY <1>5, ExchangeEff
  <2>2. DoneBy(p)' = DoneBy(p)
    BY <2>1, DoneSame
  <2>3. LocalInv'
    BY <1>a, <2>1, <2>2
  <2>4. (OnePart(p)' <=> OnePart(p)) /\ Size(p)' = Size(p)
    BY <2>1, RoundFrame
  <2>5. Control(p)'
    BY <1>t, <2>1, <2>4 DEF Control, ops, Mem, Makes
  <2>6. \A x \in Proc : Control(x)'
    BY <1>c, <2>1, <2>5
  <2> QED
    BY <1>t, <2>1, <2>3, <2>6 DEF StateInv, StateType
<1>6. ASSUME NEW p \in Proc, pc[p].at # "out", Return(p), UNCHANGED <<prog, init, kvs, ep, bar>>,
             con' \in [Proc -> [Proc -> SUBSET Proc]], cons' \in [Proc -> SUBSET Proc]
      PROVE  StateInv' /\ LocalInv'
  <2>1. /\ UpTo(ops, DoneBy(p), p, pc[p].n) /\ p \in Mem(ops, pc[p].n) /\ Settled(p, pc[p].n)
        /\ listen' = listen \ {p} /\ pc' \in PcSet
        /\ pc'[p].n = pc[p].n /\ pc'[p].at = "out" /\ \A x \in Proc : x # p => pc'[x] = pc[x]
    BY <1>6, ReturnEff
  <2>2. /\ LocalInv' /\ tab' \in [Proc -> [Comm -> SUBSET Comm]] /\ vcrt' \in [Proc -> [Comm -> Int]]
        /\ vc' \in [Proc -> [Proc -> Int]]
    BY <1>6, <1>b, <2>1
  <2>3. \A x \in Proc : Control(x)'
    BY <1>6, <1>c, <1>d, <2>1
  <2> QED
    BY <1>6, <1>t, <2>1, <2>2, <2>3 DEF StateInv, StateType
<1>7. ASSUME NEW p \in Proc, ConnectOndemand(p) PROVE StateInv' /\ LocalInv'
  BY <1>6, <1>7, ConnectOndemandEff
<1>8. ASSUME NEW p \in Proc, Connected(p) PROVE StateInv' /\ LocalInv'
  <2>1. pc[p].at = "last" /\ Return(p) /\ UNCHANGED <<prog, con, cons, init, kvs, ep, bar>>
    BY <1>8, ConnectedEff
  <2>2. con' \in [Proc -> [Proc -> SUBSET Proc]] /\ cons' \in [Proc -> SUBSET Proc]
    BY <1>t, <2>1 DEF StateType
  <2> QED
    BY <1>6, <2>1, <2>2
<1>9. ASSUME NEW p \in Proc, ConnectDirect(p) PROVE StateInv' /\ LocalInv'
  <2>1. /\ pc[p].at = "round" /\ Dest(p) \in Proc
        /\ con' \in [Proc -> [Proc -> SUBSET Proc]] /\ cons' \in [Proc -> SUBSET Proc]
        /\ \A x \in Proc : x # p => pc'[x] = pc[x]
        /\ init' = init \cup {<<p, Dest(p)>>}
        /\ UNCHANGED <<prog, listen, kvs, ep, bar, vc, vcrt, tab>>
        /\ pc' \in PcSet /\ pc'[p].n = pc[p].n /\ pc'[p].at # "out" /\ Control(p)'
    BY <1>9, ConnectDirectEff, ZenonT(60)
  <2>2. LocalInv'
    BY <1>a, <2>1, DoneSame
  <2>3. \A x \in Proc : Control(x)'
    BY <1>c, <2>1
  <2>4. init' \subseteq Proc \X Proc
    BY <1>t, <2>1 DEF StateType
  <2> QED
    BY <1>t, <2>1, <2>2, <2>3, <2>4 DEF StateInv, StateType
<1>10. ASSUME NEW p \in Proc, PartDone(p) PROVE StateInv' /\ LocalInv'
  <2>1. /\ UNCHANGED <<prog, con, cons, init, listen, kvs, ep, bar, vc, vcrt, tab, bad>>
        /\ pc[p].at = "round" /\ \A x \in Proc : x # p => pc'[x] = pc[x]
        /\ pc' \in PcSet /\ pc'[p].n = pc[p].n /\ pc'[p].at # "out" /\ Control(p)'
    BY <1>10, PartDoneEff
  <2>2. LocalInv'
    BY <1>a, <2>1, DoneSame
  <2>3. \A x \in Proc : Control(x)'
    BY <1>c, <2>1
  <2> QED
    BY <1>t, <2>1, <2>2, <2>3 DEF StateInv, StateType
<1>11. ASSUME NEW p \in Proc, NEW q \in Proc, RecvInit(p, q) PROVE StateInv' /\ LocalInv'
  <2>1. /\ init' = init \ {<<p, q>>} /\ UNCHANGED <<prog, pc, listen, kvs, ep, bar, vc, vcrt, tab>>
        /\ con' \in [Proc -> [Proc -> SUBSET Proc]] /\ cons' \in [Proc -> SUBSET Proc]
    BY <1>11, RecvInitEff
  <2>2. \A x \in Proc : DoneBy(x)' = DoneBy(x)
    BY <2>1, DoneFrame
  <2>3. LocalInv'
    BY <1>a, <2>1, <2>2
  <2>4. \A x \in Proc : Control(x)'
    BY <1>t, <2>1, ControlFrame
  <2> QED
    BY <1>t, <2>1, <2>3, <2>4 DEF StateInv, StateType
<1> QED
  BY <1>1, <1>2, <1>3, <1>4, <1>5, <1>7, <1>8, <1>9, <1>10, <1>11 DEF Next, ProcStep

-----------------------------------------------------------------------------
(* Connections *)

(* By connect_direct, the rank a of p opens the connection to the rank b of q: b     *)
(* is at most half the way round above a, and if it is half the way, a is the        *)
(* upper one.                                                                      *)
Opens(lpids, p, q) ==
    \E a, b, i \in 0..Len(lpids) :
        /\ a < Len(lpids) /\ b < Len(lpids) /\ lpids[a + 1] = p /\ lpids[b + 1] = q
        /\ 2 * i <= Len(lpids) /\ (b = a + i \/ b = a + i - Len(lpids))
        /\ 2 * i = Len(lpids) => a >= i

(* Call n is the first that makes a communicator of p and q. *)
FirstOf(os, n, p, q) ==
    /\ n \in DOMAIN os /\ Makes(os, n) /\ p \in Mem(os, n) /\ q \in Mem(os, n)
    /\ \A m \in DOMAIN os : m < n /\ Makes(os, m) => ~(p \in Mem(os, m) /\ q \in Mem(os, m))

(* The members of the communicators that p has made are connected with it.           *)
DoneCon(p) == \A n \in DoneBy(p) : Makes(ops, n) => \A q \in Mem(ops, n) : con[p][q] # {}

(* The connection between p and q is opened by one of them, the one that            *)
(* connect_direct chooses in the first call that both are in; the other has it       *)
(* once the init message has come.                                                  *)
Wired(p, q) ==
    /\ con[p][q] \in {{}, {p}, {q}}
    /\ p # q =>
         /\ con[p][q] = {p} => \E n \in DOMAIN ops : FirstOf(ops, n, p, q) /\ Opens(ops[n].lpids, p, q)
         /\ con[q][p] = {p} => con[p][q] = {p}
         /\ <<p, q>> \in init => con[p][q] = {p} /\ con[q][p] = {}

WiredInv == IF prog.direct THEN \A p, q \in Proc : Wired(p, q) ELSE init = {}

(* Who has entered a barrier has published its endpoint, in a call of the same        *)
(* members; who is past a barrier knows that everybody has.                           *)
Barriers(p) ==
    /\ \A g \in Groups : bar[p][g] > 0 =>
         /\ p \in kvs
         /\ \E m \in DOMAIN ops : m <= pc[p].n /\ Makes(ops, m) /\ Mem(ops, m) = g
    /\ pc[p].at # "out" /\ Len(ops[pc[p].n].lpids) > 1 =>
         /\ bar[p][Mem(ops, pc[p].n)] > 0
         /\ pc[p].at # "barrier" => \A q \in Mem(ops, pc[p].n) : bar[q][Mem(ops, pc[p].n)] > 0

(* The connection is open while the process group has the virtual connection.         *)
Kept(p) == \A q \in Proc : con[p][q] # {} /\ vc[p][q] > 0 => q \in cons[p]

WireInv == WiredInv /\ \A p \in Proc : DoneCon(p) /\ Barriers(p) /\ Kept(p)

(* A sum taken round. *)
LEMMA RoundSum ==
    ASSUME NEW s \in Nat \ {0}, NEW x \in Nat, x < 2 * s
    PROVE  x % s = IF x < s THEN x ELSE x - s
<1>1. ASSUME NEW q \in Nat, NEW y \in Nat, y < s PROVE (q * s + y) % s = y
  BY <1>1
<1>2. CASE x < s
  BY <1>1, <1>2
<1>3. CASE ~(x < s)
  <2>1. x - s \in Nat /\ x - s < s /\ x = 1 * s + (x - s)
    BY <1>3
  <2>2. (1 * s + (x - s)) % s = x - s
    BY <1>1, <2>1
  <2> QED
    BY <1>3, <2>1, <2>2
<1> QED
  BY <1>2, <1>3

(* The rank i above rank a. *)
LEMMA RoundRank ==
    ASSUME NEW s \in Nat \ {0}, NEW a \in Nat, NEW i \in Nat, a < s, i <= s
    PROVE  (a + i) % s = a + i \/ (a + i) % s = a + i - s
<1>1. PICK z \in Nat : z = a + i
  OBVIOUS
<1>2. z < 2 * s
  BY <1>1
<1>3. z % s = IF z < s THEN z ELSE z - s
  BY <1>2, RoundSum
<1>4. z % s = z \/ z % s = z - s
  BY <1>3
<1> QED
  BY <1>1, <1>4

(* The upper half. *)
LEMMA UpperHalf ==
    ASSUME NEW i \in Nat \ {0}, NEW a \in Nat, a < i
    PROVE  (a \div i) % 2 = 0
<1>1. a \div i = 0
  OBVIOUS
<1> QED
  BY <1>1

(* The connection of two processes is opened by one of them only. *)
LEMMA OpensOne ==
    ASSUME NEW lpids \in Seq(Proc), \A i, j \in 1..Len(lpids) : lpids[i] = lpids[j] => i = j,
           NEW p, NEW q, Opens(lpids, p, q), Opens(lpids, q, p)
    PROVE  p = q
<1>1. Len(lpids) \in Nat
  OBVIOUS
<1> DEFINE s == Len(lpids)
<1>2. PICK a, b, i \in 0..s :
        /\ a < s /\ b < s /\ lpids[a + 1] = p /\ lpids[b + 1] = q
        /\ 2 * i <= s /\ (b = a + i \/ b = a + i - s) /\ (2 * i = s => a >= i)
  BY DEF Opens
<1>3. PICK c, d, j \in 0..s :
        /\ c < s /\ d < s /\ lpids[c + 1] = q /\ lpids[d + 1] = p
        /\ 2 * j <= s /\ (d = c + j \/ d = c + j - s) /\ (2 * j = s => c >= j)
  BY DEF Opens
<1>4. \A x, y \in 0..s : x < s /\ y < s /\ lpids[x + 1] = lpids[y + 1] => x = y
  <2>1. ASSUME NEW x \in 0..s, NEW y \in 0..s, x < s, y < s, lpids[x + 1] = lpids[y + 1] PROVE x = y
    <3>1. x + 1 \in 1..s /\ y + 1 \in 1..s
      BY <1>1, <2>1
    <3>2. x + 1 = y + 1
      BY <2>1, <3>1
    <3> QED
      BY <1>1, <3>2
  <2> QED
    BY <2>1
<1>5. c = b /\ d = a
  BY <1>2, <1>3, <1>4
<1> HIDE DEF s
<1>6. s \in Nat
  BY <1>1 DEF s
<1>7. a = b
  BY ONLY <1>2, <1>3, <1>5, <1>6
<1> QED
  BY <1>2, <1>7

(* connect_direct follows this rule: in the round that p and q share when they       *)
(* are half the way round apart, only the upper one connects.                        *)
LEMMA ConnectsOpens ==
    ASSUME WellFormed, StateInv, NEW p \in Proc, pc[p].at = "round", Connects(p)
    PROVE  Opens(ops[pc[p].n].lpids, p, Dest(p))
<1> DEFINE s == Size(p)  a == RankIn(p)  i == pc[p].i  b == (a + i) % s
<1>1. /\ s \in Nat \ {0} /\ s = Len(ops[pc[p].n].lpids) /\ a \in 0..(s - 1) /\ Lpid(p, a) = p
      /\ b \in 0..(s - 1) /\ i \in 0..(s \div 2)
  BY RankFacts
<1>2. pc[p].k \in {1, 2} /\ (pc[p].k = 2 => ~OnePart(p)) /\ Call(p) = ops[pc[p].n]
  BY InsideCall DEF StateInv, StateType, Control
<1>3. Lpid(p, a) = ops[pc[p].n].lpids[a + 1] /\ Dest(p) = ops[pc[p].n].lpids[b + 1]
  BY <1>2 DEF Lpid, Dest
<1>4. Src(p) = Lpid(p, (a + s - i) % s) /\ Dest(p) = Lpid(p, b)
  BY DEF Src, Dest
<1>5. ConnectFirst(p) <=> i = 0 \/ (a \div i) % 2 = 1
  BY DEF ConnectFirst
<1>6. ConnectFirst(p) <=> pc[p].k = 1
  BY DEF Connects
<1>7. OnePart(p) <=> i # 0 /\ Src(p) = Dest(p)
  BY DEF OnePart
<1> HIDE DEF s, a, i, b
<1>s. s \in Nat \ {0} /\ a \in 0..(s - 1) /\ b \in 0..(s - 1) /\ i \in 0..(s \div 2)
  BY <1>1
<1>8. i \in Nat /\ 2 * i <= s /\ a \in Nat /\ a < s /\ b \in Nat /\ b < s
  <2>1. ASSUME NEW z \in Nat PROVE 2 * (z \div 2) <= z /\ z \div 2 \in Nat
    OBVIOUS
  <2>2. 2 * (s \div 2) <= s /\ s \div 2 \in Nat
    BY <1>1, <2>1
  <2> QED
    BY ONLY <1>s, <2>2
<1>9. b = (a + i) % s
  BY DEF b
<1>10. b = a + i \/ b = a + i - s
  <2>1. i <= s
    BY ONLY <1>s, <1>8
  <2> QED
    BY <1>s, <1>8, <1>9, <2>1, RoundRank
<1>11. ASSUME 2 * i = s PROVE a >= i
  <2>1. a + s - i = a + i /\ i # 0
    BY ONLY <1>s, <1>8, <1>11
  <2>2. OnePart(p)
    BY <1>4, <1>7, <1>9, <2>1
  <2>3. (a \div i) % 2 = 1
    BY <1>2, <1>5, <1>6, <2>1, <2>2
  <2>4. ~(a < i)
    BY ONLY <1>8, <2>1, <2>3, UpperHalf
  <2> QED
    BY ONLY <1>8, <2>4
<1>12. a \in 0..s /\ b \in 0..s /\ i \in 0..s /\ (b = a + i \/ b = a + i - s)
  BY ONLY <1>s, <1>8, <1>10
<1> QED
  BY <1>1, <1>3, <1>8, <1>11, <1>12 DEF Opens

(* The first call that two processes are in. *)
LEMMA FirstUnique ==
    ASSUME NEW os, os \in Seq(Op), NEW n, NEW m, NEW p, NEW q, FirstOf(os, n, p, q), FirstOf(os, m, q, p)
    PROVE  n = m
<1>1. n \in Nat /\ m \in Nat /\ n \in DOMAIN os /\ m \in DOMAIN os
  BY DEF FirstOf
<1>2. ~(m < n) /\ ~(n < m)
  BY <1>1 DEF FirstOf
<1> QED
  BY <1>1, <1>2

(* A process is not yet connected only with those it meets for the first time. *)
LEMMA NotYet ==
    ASSUME WellFormed, StateInv, NEW p \in Proc, pc[p].at # "out", DoneCon(p),
           NEW q \in Mem(ops, pc[p].n), con[p][q] = {}
    PROVE  FirstOf(ops, pc[p].n, p, q)
<1>1. /\ UpTo(ops, DoneBy(p), p, pc[p].n) /\ p \in Mem(ops, pc[p].n) /\ Makes(ops, pc[p].n)
      /\ pc[p].n \in DOMAIN ops
  BY InsideCall
<1> QED
  BY <1>1 DEF FirstOf, UpTo, DoneCon

(* Nobody connects to a process that has opened the connection itself or has         *)
(* accepted it.                                                                    *)
LEMMA NotOther ==
    ASSUME WellFormed, StateInv, prog.direct, WiredInv, NEW p \in Proc, pc[p].at = "round", DoneCon(p),
           Connects(p), con[p][Dest(p)] = {}, Dest(p) # p
    PROVE  /\ con[Dest(p)][p] = {}
           /\ FirstOf(ops, pc[p].n, p, Dest(p)) /\ Opens(ops[pc[p].n].lpids, p, Dest(p))
<1> DEFINE d == Dest(p)
<1>1. d \in Proc /\ d \in Mem(ops, pc[p].n)
  BY RankFacts
<1>2. FirstOf(ops, pc[p].n, p, d)
  BY <1>1, NotYet
<1>3. Opens(ops[pc[p].n].lpids, p, d)
  BY ConnectsOpens
<1> HIDE DEF d
<1>4. d # p /\ con[p][d] = {}
  BY DEF d
<1>5. Wired(p, d) /\ Wired(d, p)
  BY <1>1 DEF WiredInv
<1>6. con[d][p] # {p}
  BY <1>4, <1>5 DEF Wired
<1>7. ASSUME con[d][p] = {d} PROVE FALSE
  <2>1. PICK m \in DOMAIN ops : FirstOf(ops, m, d, p) /\ Opens(ops[m].lpids, d, p)
    BY <1>4, <1>5, <1>7 DEF Wired
  <2>2. ops \in Seq(Op) /\ Consistent(ops)
    BY ProgramFacts DEF StateInv
  <2>3. m = pc[p].n
    BY <1>2, <2>1, <2>2, FirstUnique
  <2>4. ops[m].lpids \in Seq(Proc)
    BY ProgramFacts DEF StateInv
  <2>5. \A i, j \in 1..Len(ops[m].lpids) : ops[m].lpids[i] = ops[m].lpids[j] => i = j
    BY <2>2 DEF Consistent
  <2> QED
    BY <1>3, <1>4, <2>1, <2>3, <2>4, <2>5, OpensOne
<1>8. con[d][p] = {}
  BY <1>5, <1>6, <1>7 DEF Wired
<1> QED
  BY <1>2, <1>3, <1>8 DEF d

(* Connections stay, and those of a call are there when it is done. *)
LEMMA DoneConKept ==
    ASSUME prog' = prog, NEW p \in Proc, DoneCon(p), \A n \in DOMAIN ops : Mem(ops, n) \subseteq Proc,
           \A q \in Proc : con[p][q] # {} => con'[p][q] # {},
           \A n \in DoneBy(p)' : n \notin DoneBy(p) /\ Makes(ops, n) => \A q \in Mem(ops, n) : con'[p][q] # {}
    PROVE  DoneCon(p)'
<1>1. ops' = ops
  BY DEF ops
<1>2. ASSUME NEW n \in DoneBy(p)', Makes(ops, n), NEW q \in Mem(ops, n) PROVE con'[p][q] # {}
  <2>1. CASE n \in DoneBy(p)
    <3>1. n \in DOMAIN ops /\ con[p][q] # {}
      BY <1>2, <2>1 DEF DoneCon, DoneBy
    <3> QED
      BY <3>1
  <2>2. CASE n \notin DoneBy(p)
    BY <1>2, <2>2
  <2> QED
    BY <2>1, <2>2
<1> QED
  BY <1>1, <1>2 DEF DoneCon, Makes, Mem

(* The connections of all processes are left alone. *)
LEMMA WiredKept ==
    ASSUME prog' = prog, con' = con, init' = init, WiredInv
    PROVE  WiredInv'
<1>1. ops' = ops
  BY DEF ops
<1> QED
  BY <1>1 DEF WiredInv, Wired, FirstOf, Mem, Makes

(* A process that stays where it is, goes on after the barrier or returns. *)
LEMMA BarriersKept ==
    ASSUME prog' = prog, StateType, WellFormed, NEW p \in Proc, Barriers(p), bar'[p] = bar[p], kvs \subseteq kvs',
           \A x \in Proc : \A g \in Groups : bar[x][g] > 0 => bar'[x][g] > 0,
           pc[p].n \in Nat, pc'[p].n \in Nat, pc[p].n <= pc'[p].n,
           \/ pc'[p] = pc[p]
           \/ pc'[p].at = "out"
           \/ pc'[p].n = pc[p].n /\ pc[p].at # "out" /\ pc[p].at # "barrier",
           pc[p].at # "out" => pc[p].n \in DOMAIN ops
    PROVE  Barriers(p)'
<1>1. ops' = ops
  BY DEF ops
<1>2. ASSUME NEW g \in Groups, bar'[p][g] > 0
      PROVE  p \in kvs' /\ \E m \in DOMAIN ops : m <= pc'[p].n /\ Makes(ops, m) /\ Mem(ops, m) = g
  <2>1. p \in kvs /\ \E m \in DOMAIN ops : m <= pc[p].n /\ Makes(ops, m) /\ Mem(ops, m) = g
    BY <1>2 DEF Barriers
  <2>2. PICK m \in DOMAIN ops : m <= pc[p].n /\ Makes(ops, m) /\ Mem(ops, m) = g
    BY <2>1
  <2>3. m \in Nat
    BY ProgramFacts
  <2>4. m <= pc'[p].n
    BY <2>2, <2>3
  <2> QED
    BY <2>1, <2>2, <2>4
<1>3. ASSUME pc'[p].at # "out", Len(ops[pc'[p].n].lpids) > 1
      PROVE  /\ bar'[p][Mem(ops, pc'[p].n)] > 0
             /\ pc'[p].at # "barrier" => \A q \in Mem(ops, pc'[p].n) : bar'[q][Mem(ops, pc'[p].n)] > 0
  <2>1. pc'[p].n = pc[p].n /\ pc[p].at # "out" /\ (pc'[p].at # "barrier" => pc[p].at # "barrier")
    BY <1>3
  <2>2. Mem(ops, pc[p].n) \in Groups /\ Mem(ops, pc[p].n) \subseteq Proc
    BY <2>1, ProgramFacts
  <2>3. /\ bar[p][Mem(ops, pc[p].n)] > 0
        /\ pc[p].at # "barrier" => \A q \in Mem(ops, pc[p].n) : bar[q][Mem(ops, pc[p].n)] > 0
    BY <1>3, <2>1 DEF Barriers
  <2> QED
    BY <2>1, <2>2, <2>3
<1> QED
  BY <1>1, <1>2, <1>3 DEF Barriers, Makes, Mem

(* connect_direct: p opens the connection, and the other side has not done so. *)
LEMMA DirectWired ==
    ASSUME WellFormed, StateInv, prog.direct, prog' = prog, WiredInv, NEW p \in Proc, pc[p].at = "round", DoneCon(p),
           Connects(p), NEW d \in Proc, d = Dest(p), con[p][d] = {},
           \A x \in Proc : x # p => con'[x] = con[x],
           \A q \in Proc : con'[p][q] = (IF q = d THEN {p} ELSE con[p][q]),
           init' = init \cup {<<p, d>>}
    PROVE  WiredInv'
<1>1. ops' = ops /\ prog'.direct
  BY DEF ops
<1>2. d # p => con[d][p] = {} /\ FirstOf(ops, pc[p].n, p, d) /\ Opens(ops[pc[p].n].lpids, p, d)
  BY NotOther
<1>n. pc[p].n \in DOMAIN ops
  BY InsideCall
<1>3. \A x, y \in Proc : Wired(x, y)
  BY DEF WiredInv
<1>4. \A x, y \in Proc : con'[x][y] = (IF x = p /\ y = d THEN {p} ELSE con[x][y])
  OBVIOUS
<1>5. \A x, y \in Proc : <<x, y>> \in init' <=> <<x, y>> \in init \/ (x = p /\ y = d)
  OBVIOUS
<1>6. ASSUME NEW x \in Proc, NEW y \in Proc
      PROVE  /\ con'[x][y] \in {{}, {x}, {y}}
             /\ x # y =>
                  /\ con'[x][y] = {x} => \E n \in DOMAIN ops : FirstOf(ops, n, x, y) /\ Opens(ops[n].lpids, x, y)
                  /\ con'[y][x] = {x} => con'[x][y] = {x}
                  /\ <<x, y>> \in init' => con'[x][y] = {x} /\ con'[y][x] = {}
  <2>1. Wired(x, y) /\ Wired(y, x)
    BY <1>3
  <2>2. CASE x = p /\ y = d
    BY <1>2, <1>n, <1>4, <2>1, <2>2 DEF Wired
  <2>3. CASE x = d /\ y = p
    BY <1>2, <1>4, <1>5, <2>1, <2>3 DEF Wired
  <2>4. CASE ~(x = p /\ y = d) /\ ~(x = d /\ y = p)
    BY <1>4, <1>5, <2>1, <2>4 DEF Wired
  <2> QED
    BY <2>2, <2>3, <2>4
<1> QED
  BY <1>1, <1>6 DEF WiredInv, Wired, FirstOf, Mem, Makes

(* cb_io_done_init_msg: the other side has the connection too. *)
LEMMA InitWired ==
    ASSUME prog.direct, prog' = prog, WiredInv, NEW p \in Proc, NEW q \in Proc, <<p, q>> \in init,
           init' = init \ {<<p, q>>},
           \A x, y \in Proc : con'[x][y] = (IF x = q /\ y = p /\ con[q][p] = {} THEN {p} ELSE con[x][y])
    PROVE  WiredInv' /\ (p = q \/ con[q][p] = {})
<1>1. ops' = ops /\ prog'.direct
  BY DEF ops
<1>2. \A x, y \in Proc : Wired(x, y)
  BY DEF WiredInv
<1>3. p # q => con[p][q] = {p} /\ con[q][p] = {}
  BY <1>2 DEF Wired
<1>4. ASSUME NEW x \in Proc, NEW y \in Proc
      PROVE  /\ con'[x][y] \in {{}, {x}, {y}}
             /\ x # y =>
                  /\ con'[x][y] = {x} => \E n \in DOMAIN ops : FirstOf(ops, n, x, y) /\ Opens(ops[n].lpids, x, y)
                  /\ con'[y][x] = {x} => con'[x][y] = {x}
                  /\ <<x, y>> \in init' => con'[x][y] = {x} /\ con'[y][x] = {}
  <2>1. Wired(x, y) /\ Wired(y, x)
    BY <1>2
  <2>2. CASE x = q /\ y = p
    BY <1>3, <2>1, <2>2 DEF Wired
  <2>3. CASE x = p /\ y = q
    BY <1>3, <2>1, <2>3 DEF Wired
  <2>4. CASE ~(x = p /\ y = q) /\ ~(x = q /\ y = p)
    BY <2>1, <2>4 DEF Wired
  <2> QED
    BY <2>2, <2>3, <2>4
<1> QED
  BY <1>1, <1>3, <1>4 DEF WiredInv, Wired, FirstOf, Mem, Makes

(* Who connects to another process finds it in the same call: it listens. *)
LEMMA Listens ==
    ASSUME WellFormed, StateInv, prog.direct, WireInv, NEW p \in Proc, pc[p].at = "round", Connects(p),
           con[p][Dest(p)] = {}
    PROVE  Dest(p) \in listen
<1> DEFINE d == Dest(p)
<1>1. d \in Proc /\ d \in Mem(ops, pc[p].n)
  BY RankFacts
<1>2. /\ p \in Mem(ops, pc[p].n) /\ pc[p].n \in DOMAIN ops /\ pc[p].n \in Nat
  BY InsideCall, ProgramFacts DEF StateInv
<1>3. CASE d = p
  BY <1>3 DEF StateInv, Control
<1>4. CASE d # p
  <2>1. /\ con[d][p] = {} /\ FirstOf(ops, pc[p].n, p, d)
    BY <1>4, NotOther DEF WireInv
  <2> DEFINE G == Mem(ops, pc[p].n)
  <2>2. G \in Groups /\ ops[pc[p].n].lpids \in Seq(Proc)
    BY <1>2, ProgramFacts DEF StateInv
  <2>3. Len(ops[pc[p].n].lpids) > 1
    <3>1. PICK i \in 1..Len(ops[pc[p].n].lpids) : ops[pc[p].n].lpids[i] = p
      BY <1>2, <2>2 DEF Mem, Range
    <3>2. PICK j \in 1..Len(ops[pc[p].n].lpids) : ops[pc[p].n].lpids[j] = d
      BY <1>1, <2>2 DEF Mem, Range
    <3>3. i # j
      BY <1>4, <3>1, <3>2
    <3>4. Len(ops[pc[p].n].lpids) \in Nat
      BY <2>2
    <3> QED
      BY ONLY <3>1, <3>2, <3>3, <3>4
  <2>4. bar[d][G] > 0
    BY <1>1, <2>3 DEF WireInv, Barriers
  <2>5. PICK m \in DOMAIN ops : m <= pc[d].n /\ Makes(ops, m) /\ Mem(ops, m) = G
    BY <1>1, <2>2, <2>4 DEF WireInv, Barriers
  <2>6. m \in Nat /\ pc[d].n \in Nat
    BY <1>1, ProgramFacts DEF StateInv, StateType
  <2>7. ~(m < pc[p].n)
    BY <1>1, <1>2, <2>1, <2>5 DEF FirstOf
  <2>8. pc[p].n <= pc[d].n
    BY <1>2, <2>5, <2>6, <2>7
  <2>9. pc[p].n \notin DoneBy(d)
    BY <1>1, <1>2, <2>1 DEF WireInv, DoneCon, FirstOf
  <2>10. pc[d].at # "out"
    BY <1>1, <1>2, <2>6, <2>8, <2>9 DEF DoneBy
  <2> QED
    BY <1>1, <2>10 DEF StateInv, Control
<1> QED
  BY <1>3, <1>4

(* Who is past the barrier finds the endpoints of all members. *)
LEMMA Published ==
    ASSUME WellFormed, StateInv, WireInv, NEW p \in Proc, pc[p].at = "barrier",
           \A q \in Members(p) : bar[q][Members(p)] >= bar[p][Members(p)]
    PROVE  /\ Members(p) \subseteq kvs \cup {p}
           /\ Len(ops[pc[p].n].lpids) > 1 => \A q \in Mem(ops, pc[p].n) : bar[q][Mem(ops, pc[p].n)] > 0
<1>1. p \in Mem(ops, pc[p].n) /\ pc[p].n \in DOMAIN ops /\ Members(p) = Mem(ops, pc[p].n)
  BY InsideCall
<1> DEFINE G == Mem(ops, pc[p].n)
<1>2. G \in Groups /\ G \subseteq Proc /\ ops[pc[p].n].lpids \in Seq(Proc)
  BY <1>1, ProgramFacts DEF StateInv
<1>3. CASE Len(ops[pc[p].n].lpids) > 1
  <2>1. bar[p][G] > 0
    BY <1>3 DEF WireInv, Barriers
  <2>2. ASSUME NEW q \in G PROVE bar[q][G] > 0 /\ q \in kvs
    <3>1. bar[q][G] >= bar[p][G] /\ q \in Proc
      BY <1>1, <1>2
    <3>2. bar[q][G] \in Nat /\ bar[p][G] \in Nat
      BY <1>2, <3>1 DEF StateInv, StateType
    <3>3. bar[q][G] > 0
      BY ONLY <2>1, <3>1, <3>2
    <3> QED
      BY <1>2, <3>1, <3>3 DEF WireInv, Barriers
  <2> QED
    BY <1>1, <2>2
<1>4. CASE ~(Len(ops[pc[p].n].lpids) > 1)
  <2>1. \A i, j \in 1..Len(ops[pc[p].n].lpids) : i = j
    <3>1. Len(ops[pc[p].n].lpids) \in Nat
      BY <1>2
    <3> QED
      BY ONLY <1>4, <3>1
  <2>2. \A q \in G : q = p
    BY <1>1, <1>2, <2>1 DEF Mem, Range
  <2> QED
    BY <1>1, <1>4, <2>2
<1> QED
  BY <1>3, <1>4

(* Every step keeps this, and none of them fails. *)
LEMMA WireStep ==
    ASSUME WellFormed, StateInv, LocalInv, WireInv, [Next]_vars
    PROVE  WireInv' /\ bad' = bad
<1>t. StateType /\ StateType' /\ \A n \in DOMAIN ops : Mem(ops, n) \subseteq Proc
  BY StateStep, ProgramFacts DEF StateInv
<1>n. \A x \in Proc : pc[x].n \in Nat /\ pc'[x].n \in Nat /\ (pc[x].at # "out" => pc[x].n \in DOMAIN ops)
  <2>1. pc \in [Proc -> [n: Nat, at: Places, i: Nat, k: {1, 2}]]
    BY <1>t DEF StateType
  <2>2. pc' \in [Proc -> [n: Nat, at: Places, i: Nat, k: {1, 2}]]
    BY <1>t DEF StateType
  <2>3. \A x \in Proc : pc[x].at # "out" => pc[x].n \in DOMAIN ops
    BY DEF StateInv, Control
  <2> QED
    BY <2>1, <2>2, <2>3
<1>w. WiredInv /\ \A x \in Proc : DoneCon(x) /\ Barriers(x) /\ Kept(x)
  BY DEF WireInv
(* What a step of p leaves alone. *)
<1>a. ASSUME prog' = prog, bar' = bar, kvs' = kvs, NEW x \in Proc, pc'[x] = pc[x] PROVE Barriers(x)'
  BY <1>a, <1>t, <1>n, <1>w, BarriersKept
<1>b. ASSUME prog' = prog, NEW x \in Proc, DoneBy(x)' = DoneBy(x), \A q \in Proc : con[x][q] # {} => con'[x][q] # {}
      PROVE  DoneCon(x)'
  BY <1>b, <1>t, <1>w, DoneConKept
<1>c. ASSUME NEW x \in Proc, con'[x] = con[x], cons'[x] = cons[x], vc'[x] = vc[x] PROVE Kept(x)'
  BY <1>c, <1>w DEF Kept
(* A step of p that ends a call. *)
<1>d. ASSUME NEW p \in Proc, NEW n, prog' = prog, kvs' = kvs, bar' = bar, pc[p].n <= n, pc'[p].n = n,
             pc'[p].at = "out", UpTo(ops, DoneBy(p), p, n), p \in Mem(ops, n),
             \A x \in Proc : x # p => pc'[x] = pc[x] /\ con'[x] = con[x] /\ cons'[x] = cons[x] /\ vc'[x] = vc[x],
             \A q \in Proc : con[p][q] # {} => con'[p][q] # {},
             Makes(ops, n) => \A q \in Mem(ops, n) : con'[p][q] # {},
             Kept(p)'
      PROVE  \A x \in Proc : DoneCon(x)' /\ Barriers(x)' /\ Kept(x)'
  <2>1. \A x \in Proc : x # p => DoneBy(x)' = DoneBy(x)
    BY <1>d, DoneFrame
  <2>2. DoneBy(p)' = DoneBy(p) \cup {n}
    BY <1>d, <1>t, DoneAfter
  <2>3. DoneCon(p)'
    BY <1>d, <1>t, <1>w, <2>2, DoneConKept
  <2>4. Barriers(p)'
    BY <1>d, <1>t, <1>n, <1>w, BarriersKept
  <2>5. ASSUME NEW x \in Proc, x # p PROVE DoneCon(x)' /\ Barriers(x)' /\ Kept(x)'
    BY <1>a, <1>b, <1>c, <1>d, <2>1, <2>5
  <2> QED
    BY <1>d, <2>3, <2>4, <2>5
<1>1. CASE UNCHANGED vars
  <2>1. UNCHANGED <<prog, pc, con, cons, init, kvs, bar, vc, bad>>
    BY <1>1 DEF vars
  <2>2. \A x \in Proc : DoneBy(x)' = DoneBy(x)
    BY <2>1, DoneFrame
  <2>3. \A x \in Proc : DoneCon(x)' /\ Barriers(x)' /\ Kept(x)'
    BY <1>a, <1>b, <1>c, <2>1, <2>2
  <2> QED
    BY <1>w, <2>1, <2>3, WiredKept DEF WireInv
<1>2. ASSUME NEW p \in Proc, NEW n, FastPath(p, n) PROVE WireInv' /\ bad' = bad
  <2>1. /\ UpTo(ops, DoneBy(p), p, n) /\ p \in Mem(ops, n) /\ Makes(ops, n)
        /\ Settled(p, n) /\ bad' = bad /\ UNCHANGED <<prog, con, cons, init, listen, kvs, ep, bar>>
        /\ pc'[p].n = n /\ pc'[p].at = "out" /\ \A x \in Proc : x # p => pc'[x] = pc[x]
        /\ \A q \in Mem(ops, n) : con[p][q] # {}
    BY <1>2, FastPathEff
  <2>2. pc[p].n <= n
    <3>1. pc[p].n < n
      BY <1>2, <1>t, NextCall DEF FastPath
    <3> QED
      BY <1>n, <2>1, <3>1
  <2>3. Kept(p)'
    BY <1>w, <2>1 DEF Kept, Settled
  <2>4. \A x \in Proc : x # p => vc'[x] = vc[x]
    BY <2>1 DEF Settled
  <2>5. \A x \in Proc : DoneCon(x)' /\ Barriers(x)' /\ Kept(x)'
    BY <1>d, <2>1, <2>2, <2>3, <2>4
  <2> QED
    BY <1>w, <2>1, <2>5, WiredKept DEF WireInv
<1>3. ASSUME NEW p \in Proc, NEW n, Publish(p, n) PROVE WireInv' /\ bad' = bad
  <2>1. /\ UpTo(ops, DoneBy(p), p, n) /\ p \in Mem(ops, n) /\ Makes(ops, n)
        /\ UNCHANGED <<prog, con, cons, init, ep, vc, vcrt, tab, bad>>
        /\ pc'[p] = [n |-> n, at |-> "barrier", i |-> 0, k |-> 1]
        /\ \A x \in Proc : x # p => pc'[x] = pc[x]
        /\ IF Len(ops[n].lpids) > 1
           THEN kvs' = kvs \cup {p} /\ bar' = [bar EXCEPT ![p][Mem(ops, n)] = @ + 1]
           ELSE kvs' = kvs /\ bar' = bar
    BY <1>3, PublishEff
  <2>2. n \in DOMAIN ops /\ n \in Nat /\ Mem(ops, n) \in Groups
    BY <1>t, <2>1, ProgramFacts DEF UpTo
  <2>3. pc[p].n <= n
    <3>1. pc[p].n < n
      BY <1>3, <1>t, NextCall DEF Publish
    <3> QED
      BY <1>n, <2>2, <3>1
  <2>4. pc'[p].n = n /\ pc'[p].at = "barrier"
    BY <2>1
  <2>5. \A x \in Proc : DoneBy(x)' = DoneBy(x)
    BY <1>t, <2>1, <2>4, DoneAfter, DoneFrame
  <2>6. kvs \subseteq kvs' /\ \A x \in Proc : x # p => bar'[x] = bar[x]
    <3>1. bar \in [Proc -> [Groups -> Nat]]
      BY <1>t DEF StateType
    <3>2. CASE Len(ops[n].lpids) > 1
      BY <2>1, <3>1, <3>2
    <3>3. CASE ~(Len(ops[n].lpids) > 1)
      BY <2>1, <3>3
    <3> QED
      BY <3>2, <3>3
  <2>7. /\ \A g \in Groups : g # Mem(ops, n) => bar'[p][g] = bar[p][g]
        /\ IF Len(ops[n].lpids) > 1 THEN p \in kvs' /\ bar'[p][Mem(ops, n)] > 0
                                    ELSE bar'[p][Mem(ops, n)] = bar[p][Mem(ops, n)]
        /\ bar[p][Mem(ops, n)] > 0 => bar'[p][Mem(ops, n)] > 0
    <3>1. bar \in [Proc -> [Groups -> Nat]]
      BY <1>t DEF StateType
    <3>2. CASE Len(ops[n].lpids) > 1
      <4>1. kvs' = kvs \cup {p} /\ bar' = [bar EXCEPT ![p][Mem(ops, n)] = @ + 1]
        BY <2>1, <3>2
      <4>2. bar'[p][Mem(ops, n)] = bar[p][Mem(ops, n)] + 1 /\ bar[p][Mem(ops, n)] \in Nat
        BY <2>2, <3>1, <4>1
      <4>3. \A g \in Groups : g # Mem(ops, n) => bar'[p][g] = bar[p][g]
        BY <2>2, <3>1, <4>1
      <4>4. bar'[p][Mem(ops, n)] > 0
        BY ONLY <4>2
      <4> QED
        BY <3>2, <4>1, <4>3, <4>4
    <3>3. CASE ~(Len(ops[n].lpids) > 1)
      BY <2>1, <3>3
    <3> QED
      BY <3>2, <3>3
  <2>8. Barriers(p)'
    <3>1. ops' = ops
      BY <2>1 DEF ops
    <3>2. ASSUME NEW g \in Groups, bar'[p][g] > 0
          PROVE  p \in kvs' /\ \E m \in DOMAIN ops : m <= n /\ Makes(ops, m) /\ Mem(ops, m) = g
      <4>1. CASE bar[p][g] > 0
        <5>1. p \in kvs /\ \E m \in DOMAIN ops : m <= pc[p].n /\ Makes(ops, m) /\ Mem(ops, m) = g
          BY <1>w, <4>1 DEF Barriers
        <5>2. PICK m \in DOMAIN ops : m <= pc[p].n /\ Makes(ops, m) /\ Mem(ops, m) = g
          BY <5>1
        <5>3. m \in Nat
          BY <1>t, ProgramFacts
        <5>4. m <= n
          BY <1>n, <2>2, <2>3, <5>2, <5>3
        <5> QED
          BY <2>6, <5>1, <5>2, <5>4
      <4>2. CASE ~(bar[p][g] > 0)
        <5>1. g = Mem(ops, n) /\ p \in kvs'
          BY <2>7, <3>2, <4>2
        <5>2. n <= n
          BY <2>2
        <5> QED
          BY <2>1, <2>2, <5>1, <5>2
      <4> QED
        BY <4>1, <4>2
    <3> QED
      BY <2>4, <2>7, <3>1, <3>2 DEF Barriers, Makes, Mem
  <2>9. ASSUME NEW x \in Proc PROVE Barriers(x)'
    <3>1. CASE x = p
      BY <2>8, <3>1
    <3>2. CASE x # p
      <4>1. \A y \in Proc : \A g \in Groups : bar[y][g] > 0 => bar'[y][g] > 0
        BY <2>6, <2>7
      <4>2. pc[x].n <= pc'[x].n
        BY <1>n, <2>1, <3>2
      <4> QED
        BY <1>t, <1>n, <1>w, <2>1, <2>6, <3>2, <4>1, <4>2, BarriersKept
    <3> QED
      BY <3>1, <3>2
  <2>10. \A x \in Proc : DoneCon(x)' /\ Kept(x)'
    BY <1>b, <1>c, <2>1, <2>5
  <2> QED
    BY <1>w, <2>1, <2>9, <2>10, WiredKept DEF WireInv
<1>4. ASSUME NEW p \in Proc, NEW n, FreeComm(p, n) PROVE WireInv' /\ bad' = bad
  <2>1. /\ Settled(p, n) /\ UpTo(ops, DoneBy(p), p, n) /\ p \in Mem(ops, n)
        /\ UNCHANGED <<prog, con, init, listen, kvs, ep, bar, bad>>
        /\ pc' = [pc EXCEPT ![p].n = n] /\ pc[p].at = "out" /\ n \in DOMAIN ops
        /\ ~Makes(ops, n)
        /\ \A x \in Proc : x # p => cons'[x] = cons[x]
        /\ \A q \in Proc : q \in cons[p] /\ vc'[p][q] > 0 => q \in cons'[p]
    BY <1>4, <1>t, FreeCommEff
  <2>2. pc'[p].n = n /\ pc'[p].at = "out" /\ \A x \in Proc : x # p => pc'[x] = pc[x]
    <3>1. pc \in [Proc -> [n: Nat, at: Places, i: Nat, k: {1, 2}]]
      BY <1>t DEF StateType
    <3> QED
      BY <2>1, <3>1
  <2>3. pc[p].n <= n
    <3>1. pc[p].n < n /\ n \in Nat
      BY <1>4, <1>t, <2>1, NextCall, ProgramFacts DEF FreeComm
    <3> QED
      BY <1>n, <3>1
  <2>4. Kept(p)'
    BY <1>w, <2>1 DEF Kept, Settled
  <2>5. \A x \in Proc : x # p => vc'[x] = vc[x]
    BY <2>1 DEF Settled
  <2>6. \A x \in Proc : DoneCon(x)' /\ Barriers(x)' /\ Kept(x)'
    BY <1>d, <2>1, <2>2, <2>3, <2>4, <2>5
  <2> QED
    BY <1>w, <2>1, <2>6, WiredKept DEF WireInv
<1>5. ASSUME NEW p \in Proc, Exchange(p) PROVE WireInv' /\ bad' = bad
  <2>1. /\ pc[p].at = "barrier" /\ pc'[p].n = pc[p].n
        /\ pc'[p].at = (IF prog.direct THEN "round" ELSE "ondemand")
        /\ \A x \in Proc : x # p => pc'[x] = pc[x]
        /\ UNCHANGED <<prog, con, cons, init, listen, kvs, bar, vc, vcrt, tab>>
    BY <1>5, ExchangeEff
  <2>2. /\ \A q \in Members(p) : bar[q][Members(p)] >= bar[p][Members(p)]
        /\ bad' = bad \cup {"no endpoint" : q \in Members(p) \ (ep[p] \cup kvs \cup {p})}
    BY <1>5 DEF Exchange
  <2>3. /\ Members(p) \subseteq kvs \cup {p}
        /\ Len(ops[pc[p].n].lpids) > 1 => \A q \in Mem(ops, pc[p].n) : bar[q][Mem(ops, pc[p].n)] > 0
    BY <2>1, <2>2, Published
  <2>4. bad' = bad
    <3>1. Members(p) \ (ep[p] \cup kvs \cup {p}) = {}
      BY <2>3
    <3> QED
      BY <2>2, <3>1
  <2>5. \A x \in Proc : DoneBy(x)' = DoneBy(x)
    BY <2>1, DoneFrame, DoneSame
  <2>6. Barriers(p)'
    <3>1. ops' = ops /\ pc'[p].at # "out"
      BY <2>1 DEF ops
    <3>2. Barriers(p)
      BY <1>w
    <3> QED
      BY <2>1, <2>3, <3>1, <3>2 DEF Barriers, Makes, Mem
  <2>7. \A x \in Proc : DoneCon(x)' /\ Barriers(x)' /\ Kept(x)'
    BY <1>a, <1>b, <1>c, <2>1, <2>5, <2>6
  <2> QED
    BY <1>w, <2>1, <2>4, <2>7, WiredKept DEF WireInv
<1>6. ASSUME NEW p \in Proc, ConnectOndemand(p) PROVE WireInv' /\ bad' = bad
  <2>1. /\ pc[p].at = "ondemand" /\ Return(p) /\ UNCHANGED <<prog, init, kvs, ep, bar>>
        /\ \A x \in Proc : x # p => con'[x] = con[x] /\ cons'[x] = cons[x]
        /\ \A q \in Proc : con'[p][q] = (IF q \in Mem(ops, pc[p].n) /\ con[p][q] = {} THEN {p} ELSE con[p][q])
        /\ cons'[p] = cons[p] \cup {q \in Mem(ops, pc[p].n) : con[p][q] = {}}
    BY <1>6, ConnectOndemandEff
  <2>2. /\ UpTo(ops, DoneBy(p), p, pc[p].n) /\ p \in Mem(ops, pc[p].n) /\ Settled(p, pc[p].n) /\ bad' = bad
        /\ pc'[p].n = pc[p].n /\ pc'[p].at = "out" /\ \A x \in Proc : x # p => pc'[x] = pc[x]
    BY <2>1, ReturnEff
  <2>3. ~prog.direct /\ pc[p].n <= pc[p].n /\ pc[p].n \in DOMAIN ops
    BY <1>n, <2>1 DEF StateInv, Control
  <2>4. WiredInv'
    BY <1>w, <2>1, <2>3 DEF WiredInv
  <2>5. Kept(p)'
    BY <1>w, <2>1, <2>2 DEF Kept, Settled
  <2>6. \A x \in Proc : x # p => vc'[x] = vc[x]
    BY <2>2 DEF Settled
  <2>7. \A q \in Proc : con[p][q] # {} => con'[p][q] # {}
    BY <2>1
  <2>8. \A q \in Mem(ops, pc[p].n) : con'[p][q] # {}
    BY <1>t, <2>1, <2>3
  <2>9. \A x \in Proc : DoneCon(x)' /\ Barriers(x)' /\ Kept(x)'
    <3>1. kvs' = kvs /\ bar' = bar /\ prog' = prog
      BY <2>1
    <3>2. \A x \in Proc : x # p => pc'[x] = pc[x] /\ con'[x] = con[x] /\ cons'[x] = cons[x] /\ vc'[x] = vc[x]
      BY <2>1, <2>2, <2>6
    <3> QED
      BY ONLY p \in Proc, <1>d, <2>2, <2>3, <2>5, <2>7, <2>8, <3>1, <3>2
  <2> QED
    BY <2>2, <2>4, <2>9 DEF WireInv
<1>7. ASSUME NEW p \in Proc, Connected(p) PROVE WireInv' /\ bad' = bad
  <2>1. /\ pc[p].at = "last" /\ Return(p) /\ UNCHANGED <<prog, con, cons, init, kvs, ep, bar>>
        /\ \A q \in Mem(ops, pc[p].n) : con[p][q] # {}
    BY <1>7, ConnectedEff
  <2>2. /\ UpTo(ops, DoneBy(p), p, pc[p].n) /\ p \in Mem(ops, pc[p].n) /\ Settled(p, pc[p].n) /\ bad' = bad
        /\ pc'[p].n = pc[p].n /\ pc'[p].at = "out" /\ \A x \in Proc : x # p => pc'[x] = pc[x]
    BY <2>1, ReturnEff
  <2>3. pc[p].n <= pc[p].n
    BY <1>n
  <2>4. Kept(p)'
    BY <1>w, <2>1, <2>2 DEF Kept, Settled
  <2>5. \A x \in Proc : x # p => vc'[x] = vc[x]
    BY <2>2 DEF Settled
  <2>6. \A x \in Proc : DoneCon(x)' /\ Barriers(x)' /\ Kept(x)'
    BY <1>d, <2>1, <2>2, <2>3, <2>4, <2>5
  <2> QED
    BY <1>w, <2>1, <2>2, <2>6, WiredKept DEF WireInv
<1>8. ASSUME NEW p \in Proc, prog' = prog, bar' = bar, kvs' = kvs, vc' = vc, pc[p].at = "round",
             \A x \in Proc : x # p => con'[x] = con[x] /\ cons'[x] = cons[x] /\ pc'[x] = pc[x],
             \A q \in Proc : con[p][q] # {} => con'[p][q] # {}, Kept(p)',
             pc'[p].n = pc[p].n, pc'[p].at # "out"
      PROVE  \A x \in Proc : DoneCon(x)' /\ Barriers(x)' /\ Kept(x)'
  <2>1. \A x \in Proc : DoneBy(x)' = DoneBy(x)
    BY <1>8, DoneFrame, DoneSame
  <2>2. Barriers(p)'
    <3>1. pc[p].n <= pc'[p].n
      BY <1>n, <1>8
    <3> QED
      BY <1>t, <1>n, <1>w, <1>8, <3>1, BarriersKept
  <2>3. DoneCon(p)'
    BY <1>b, <1>8, <2>1
  <2>4. ASSUME NEW x \in Proc, x # p PROVE DoneCon(x)' /\ Barriers(x)' /\ Kept(x)'
    BY <1>a, <1>b, <1>c, <1>8, <2>1, <2>4
  <2> QED
    BY <1>8, <2>2, <2>3, <2>4
<1>9. ASSUME NEW p \in Proc, ConnectDirect(p) PROVE WireInv' /\ bad' = bad
  <2>1. /\ pc[p].at = "round" /\ Connects(p) /\ con[p][Dest(p)] = {} /\ Dest(p) \in Proc
        /\ \A x \in Proc : x # p => con'[x] = con[x] /\ cons'[x] = cons[x] /\ pc'[x] = pc[x]
        /\ \A q \in Proc : con'[p][q] = (IF q = Dest(p) THEN {p} ELSE con[p][q])
        /\ cons'[p] = cons[p] \cup {Dest(p)}
        /\ init' = init \cup {<<p, Dest(p)>>}
        /\ bad' = bad \cup (IF Dest(p) \in listen THEN {} ELSE {"refused"})
        /\ UNCHANGED <<prog, listen, kvs, ep, bar, vc, vcrt, tab>>
        /\ pc'[p].n = pc[p].n /\ pc'[p].at # "out"
    BY <1>9, ConnectDirectEff
  <2>2. prog.direct
    BY <2>1 DEF StateInv, Control
  <2>3. WiredInv'
    BY <1>w, <2>1, <2>2, DirectWired
  <2>4. bad' = bad
    <3>1. Dest(p) \in listen
      BY <2>1, <2>2, Listens
    <3> QED
      BY <2>1, <3>1
  <2>5. Kept(p)'
    BY <1>w, <2>1 DEF Kept
  <2>6. \A q \in Proc : con[p][q] # {} => con'[p][q] # {}
    BY <2>1
  <2>7. \A x \in Proc : DoneCon(x)' /\ Barriers(x)' /\ Kept(x)'
    BY <1>8, <2>1, <2>5, <2>6
  <2> QED
    BY <2>3, <2>4, <2>7 DEF WireInv
<1>10. ASSUME NEW p \in Proc, PartDone(p) PROVE WireInv' /\ bad' = bad
  <2>1. /\ UNCHANGED <<prog, con, cons, init, listen, kvs, ep, bar, vc, vcrt, tab, bad>>
        /\ pc[p].at = "round" /\ \A x \in Proc : x # p => pc'[x] = pc[x]
        /\ pc'[p].n = pc[p].n /\ pc'[p].at # "out"
    BY <1>10, PartDoneEff
  <2>2. Kept(p)'
    BY <1>c, <2>1
  <2>3. \A x \in Proc : DoneCon(x)' /\ Barriers(x)' /\ Kept(x)'
    BY <1>8, <2>1, <2>2
  <2> QED
    BY <1>w, <2>1, <2>3, WiredKept DEF WireInv
<1>11. ASSUME NEW p \in Proc, NEW q \in Proc, RecvInit(p, q) PROVE WireInv' /\ bad' = bad
  <2>1. /\ <<p, q>> \in init /\ init' = init \ {<<p, q>>}
        /\ UNCHANGED <<prog, pc, listen, kvs, ep, bar, vc, vcrt, tab>>
        /\ \A x, y \in Proc : con'[x][y] = (IF x = q /\ y = p /\ con[q][p] = {} THEN {p} ELSE con[x][y])
        /\ \A x \in Proc : cons'[x] = (IF x = q /\ con[q][p] = {} THEN cons[q] \cup {p} ELSE cons[x])
        /\ bad' = bad \cup (IF p = q \/ con[q][p] = {} THEN {} ELSE {"second connection"})
    BY <1>11, RecvInitEff
  <2>2. prog.direct
    BY <1>w, <2>1 DEF WiredInv
  <2>3. WiredInv' /\ (p = q \/ con[q][p] = {})
    BY <1>w, <2>1, <2>2, InitWired
  <2>4. \A x \in Proc : DoneBy(x)' = DoneBy(x)
    BY <2>1, DoneFrame
  <2>5. ASSUME NEW x \in Proc PROVE Kept(x)'
    BY <1>w, <2>1 DEF Kept
  <2>6. \A x, y \in Proc : con[x][y] # {} => con'[x][y] # {}
    BY <2>1
  <2>7. \A x \in Proc : DoneCon(x)' /\ Barriers(x)'
    BY <1>a, <1>b, <2>1, <2>4, <2>6
  <2> QED
    BY <2>1, <2>3, <2>5, <2>7 DEF WireInv
<1> QED
  BY <1>1, <1>2, <1>3, <1>4, <1>5, <1>6, <1>7, <1>9, <1>10, <1>11 DEF Next, ProcStep

(* Types, control and tables, for all well-formed programs. *)
THEOREM LocalHolds ==
    ASSUME WellFormed
    PROVE  Spec => [](StateInv /\ LocalInv)
<1>1. Init => StateInv /\ LocalInv
  <2> SUFFICES ASSUME Init PROVE StateInv /\ LocalInv
    OBVIOUS
  <2>1. StateType
    BY CommFacts DEF Init, StateType, Places
  <2>2. \A p \in Proc : Control(p)
    BY DEF Init, Control
  <2>3. ASSUME NEW p \in Proc PROVE Local(ops, DoneBy(p), tab[p], vcrt[p], vc[p])
    <3>1. DoneBy(p) = {}
      BY <2>1, ProgramFacts DEF Init, DoneBy
    <3>2. \A c \in Comm : tab[p][c] = {} /\ vcrt[p][c] = 0
      BY DEF Init
    <3>3. \A q \in Proc : vc[p][q] = 1
      BY DEF Init
    <3>4. \A t \in Comm : UsersOf(tab[p], t) = {}
      BY <3>2 DEF UsersOf
    <3>5. \A q \in Proc : Holders(ops, vcrt[p], q) = {}
      BY <3>2 DEF Holders
    <3>6. Cardinality({}) = 0
      BY FS_EmptySet
    <3>7. Tabled(ops, DoneBy(p), tab[p])
      BY <3>1, <3>2 DEF Tabled, Has
    <3>8. Counted(tab[p], vcrt[p])
      BY <3>2, <3>4, <3>6 DEF Counted
    <3>9. \A q \in Proc : Referred(ops, DoneBy(p), vcrt[p], vc[p], q)
      <4> SUFFICES ASSUME NEW q \in Proc
                   PROVE  Referred(ops, DoneBy(p), vcrt[p], vc[p], q)
        OBVIOUS
      <4>1. vc[p][q] = 1 /\ Cardinality(Holders(ops, vcrt[p], q)) = 0
        BY <3>3, <3>5, <3>6
      <4> QED
        BY <4>1 DEF Referred
    <3>10. TableTypes(tab[p], vcrt[p], vc[p])
      BY <2>1 DEF StateType, TableTypes
    <3> QED
      BY <3>7, <3>8, <3>9, <3>10 DEF Local
  <2> QED
    BY <2>1, <2>2, <2>3 DEF StateInv, LocalInv
<1>2. StateInv /\ LocalInv /\ [Next]_vars => StateInv' /\ LocalInv'
  BY StateStep
<1> QED
  BY <1>1, <1>2, PTL DEF Spec

(* The reference count of a virtual connection is the number of tables that hold   *)
(* it and one for the process group, and it goes with the last disconnect: for      *)
(* any number of processes and all well-formed programs.                *)
THEOREM RefcountExactHolds ==
    ASSUME WellFormed
    PROVE  Spec => []RefcountExact
<1>1. StateInv /\ LocalInv => RefcountExact
  <2> SUFFICES ASSUME LocalInv, NEW p \in Proc, NEW q \in Proc
               PROVE  LET holders == {t \in Comm : vcrt[p][t] > 0 /\ q \in MembersOf(t)}
                      IN  vc[p][q] = IF vc[p][q] = 0 THEN Cardinality(holders)
                                                     ELSE 1 + Cardinality(holders)
    BY DEF RefcountExact
  <2>1. {t \in Comm : vcrt[p][t] > 0 /\ q \in MembersOf(t)} = Holders(ops, vcrt[p], q)
    BY DEF Holders, MembersOf, OfComm
  <2>2. Referred(ops, DoneBy(p), vcrt[p], vc[p], q)
    BY DEF LocalInv, Local
  <2> QED
    BY <2>1, <2>2 DEF Referred
<1> QED
  BY <1>1, LocalHolds, PTL
(* Every process connects as connect_direct has it, and nothing fails. *)
THEOREM WireHolds ==
    ASSUME WellFormed
    PROVE  Spec => [](StateInv /\ LocalInv /\ WireInv /\ bad = {})
<1>1. Init => WireInv /\ bad = {}
  <2> SUFFICES ASSUME Init PROVE WireInv /\ bad = {}
    OBVIOUS
  <2>1. \A p, q \in Proc : con[p][q] = {}
    BY DEF Init
  <2>2. init = {} /\ bad = {}
    BY DEF Init
  <2>3. WiredInv
    BY <2>1, <2>2 DEF WiredInv, Wired
  <2>4. ASSUME NEW p \in Proc PROVE DoneCon(p) /\ Barriers(p) /\ Kept(p)
    <3>1. StateType
      BY CommFacts DEF Init, StateType, Places
    <3>2. DoneBy(p) = {}
      BY <3>1, ProgramFacts DEF Init, DoneBy
    <3>3. pc[p].at = "out" /\ \A g \in Groups : bar[p][g] = 0
      BY DEF Init
    <3>4. Barriers(p)
      BY <3>3 DEF Barriers
    <3> QED
      BY <2>1, <3>2, <3>4 DEF DoneCon, Kept
  <2> QED
    BY <2>2, <2>3, <2>4 DEF WireInv
<1>2. StateInv /\ LocalInv /\ WireInv /\ bad = {} /\ [Next]_vars => WireInv' /\ (bad = {})'
  BY WireStep
<1> QED
  BY <1>1, <1>2, LocalHolds, PTL DEF Spec

(* No process connects to one that does not listen, opens a connection that the      *)
(* other has opened, looks for an endpoint that is not published, or takes a         *)
(* reference of a virtual connection that is gone: for any number of processes and    *)
(* all well-formed programs.                                            *)
THEOREM NoFailureHolds ==
    ASSUME WellFormed
    PROVE  Spec => []NoFailure
<1>1. bad = {} => NoFailure
  BY DEF NoFailure
<1> QED
  BY <1>1, WireHolds, PTL

(* A communicator that two processes have is carried by one open connection that      *)
(* both know, whatever they have freed or disconnected: for any number of processes   *)
(* and all well-formed programs.                                         *)
THEOREM LiveCommConnectedHolds ==
    ASSUME WellFormed
    PROVE  Spec => []LiveCommConnected
<1>1. StateInv /\ LocalInv /\ WireInv => LiveCommConnected
  <2> SUFFICES ASSUME StateInv, LocalInv, WireInv, NEW p \in Proc, NEW q \in Proc, NEW c \in Comm,
                      tab[p][c] # {}, tab[q][c] # {}, {p, q} \subseteq MembersOf(c)
               PROVE  /\ vc[p][q] > 0 /\ q \in cons[p]
                      /\ prog.direct => con[p][q] = con[q][p] /\ con[p][q] \in {{p}, {q}}
    BY DEF LiveCommConnected
  <2>1. IsFiniteSet(Comm) /\ Consistent(ops) /\ MembersOf(c) = OfComm(ops, c)
    BY ProgramFacts DEF StateInv, MembersOf, OfComm
  <2>2. ASSUME NEW x \in Proc, tab[x][c] # {}
        PROVE  /\ Has(ops, DoneBy(x), c) /\ Local(ops, DoneBy(x), tab[x], vcrt[x], vc[x])
               /\ \A y \in Proc : y \in OfComm(ops, c) => con[x][y] # {}
    <3>1. Local(ops, DoneBy(x), tab[x], vcrt[x], vc[x])
      BY DEF LocalInv
    <3>2. Has(ops, DoneBy(x), c)
      BY <2>2, <3>1 DEF Local, Tabled
    <3>3. PICK n \in DoneBy(x) : MadeBy(ops, c, n)
      BY <3>2 DEF Has
    <3>4. n \in DOMAIN ops /\ OfComm(ops, c) = Mem(ops, n) /\ Makes(ops, n)
      BY <2>1, <3>3, SameMembers DEF MadeBy, DoneBy
    <3> QED
      BY <3>1, <3>2, <3>3, <3>4 DEF WireInv, DoneCon
  <2>3. con[p][q] # {} /\ con[q][p] # {}
    BY <2>1, <2>2
  <2>4. vc[p][q] > 0
    <3>1. Has(ops, DoneBy(p), c) /\ Local(ops, DoneBy(p), tab[p], vcrt[p], vc[p])
      BY <2>2
    <3>2. PICK t \in Comm : vcrt[p][t] > 0 /\ OfComm(ops, t) = OfComm(ops, c)
      BY <2>1, <3>1, TableOf
    <3>3. t \in Holders(ops, vcrt[p], q)
      BY <2>1, <3>2 DEF Holders
    <3>4. Cardinality(Holders(ops, vcrt[p], q)) # 0
      BY <2>1, <3>3, CountsFinite, FS_EmptySet
    <3>5. Referred(ops, DoneBy(p), vcrt[p], vc[p], q)
      BY <3>1 DEF Local
    <3>6. vc[p][q] \in Nat /\ vc[p][q] # 0
      BY <3>4, <3>5 DEF Referred
    <3> QED
      BY <3>6
  <2>5. q \in cons[p]
    BY <2>3, <2>4 DEF WireInv, Kept
  <2>6. ASSUME prog.direct PROVE con[p][q] = con[q][p] /\ con[p][q] \in {{p}, {q}}
    <3>1. Wired(p, q) /\ Wired(q, p)
      BY <2>6 DEF WireInv, WiredInv
    <3>2. con[p][q] \in {{p}, {q}} /\ con[q][p] \in {{p}, {q}}
      BY <2>3, <3>1 DEF Wired
    <3>3. CASE p = q
      BY <3>2, <3>3
    <3>4. CASE p # q /\ con[p][q] = {p} /\ con[q][p] = {q}
      <4>1. PICK n \in DOMAIN ops : FirstOf(ops, n, p, q) /\ Opens(ops[n].lpids, p, q)
        BY <3>1, <3>4 DEF Wired
      <4>2. PICK m \in DOMAIN ops : FirstOf(ops, m, q, p) /\ Opens(ops[m].lpids, q, p)
        BY <3>1, <3>4 DEF Wired
      <4>3. ops \in Seq(Op) /\ ops[n].lpids \in Seq(Proc)
        BY ProgramFacts DEF StateInv
      <4>4. n = m
        BY <4>1, <4>2, <4>3, FirstUnique
      <4>5. \A i, j \in 1..Len(ops[n].lpids) : ops[n].lpids[i] = ops[n].lpids[j] => i = j
        BY <2>1 DEF Consistent
      <4> QED
        BY <3>4, <4>1, <4>2, <4>3, <4>4, <4>5, OpensOne
    <3>5. CASE p # q /\ con[q][p] = {p}
      BY <3>1, <3>5 DEF Wired
    <3>6. CASE p # q /\ con[p][q] = {q}
      BY <3>1, <3>6 DEF Wired
    <3> QED
      BY <3>2, <3>3, <3>4, <3>5, <3>6
  <2> QED
    BY <2>4, <2>5, <2>6
<1> QED
  BY <1>1, WireHolds, PTL
=============================================================================
