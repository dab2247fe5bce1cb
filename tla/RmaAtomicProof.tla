--------------------------- MODULE RmaAtomicProof ---------------------------
(***************************************************************************)
(* Proofs about the atomic operations of RmaAtomic: the internal lock has   *)
(* one holder, and the calls implement AtomicMemory if no location is the    *)
(* target of plain accumulates and of the calls that take the lock.         *)
(***************************************************************************)
EXTENDS RmaAtomic, FiniteSetTheorems, TLAPS

(* No plain accumulate meets a call that takes the lock: the condition under  *)
(* which the calls are atomic.  The code does not need it to be safe, but an  *)
(* accumulate does not take the lock.                                          *)
Separate ==
    \A c, d \in Calls : Blocking(c) /\ d.f = "accumulate" => c.loc # d.loc

Place == {"idle", "start", "lock", "lockWait", "getWait", "unlock", "unlockWait"}
Message == [type: {"LOCK", "GET", "ACCUMULATE", "PUT", "UNLOCK"}, k: Nat]
Record == [call: Calls, val: SUBSET Value, done: BOOLEAN]

TypeOK ==
    /\ mem \in [Loc -> Value]
    /\ op \in [Rank -> Seq(Record)]
    /\ at \in [Rank -> Place]
    /\ pend \in [Rank -> SUBSET Nat] /\ data \in [Rank -> SUBSET Nat]
    /\ line \in [Rank -> Seq(Message)] /\ back \in [Rank -> Seq(Message)]
    /\ gets \in [Rank -> Nat]
    /\ lock \in BOOLEAN /\ list \in Seq(Rank) /\ cb \in SUBSET Rank
    /\ \A p \in Rank : Len(op[p]) <= MaxCalls[p]

-----------------------------------------------------------------------------
(* The invariant of one process p is stated of its calls q, the place a where  *)
(* it is, its incomplete calls P, the sets L and B of messages to and from     *)
(* Home, its calls D whose data is missing, the waiting lock requests Q and    *)
(* the waiting callbacks W.                                                    *)

Elements(s) == {s[i] : i \in 1..Len(s)}
Distinct(s) == \A i, j \in 1..Len(s) : s[i] = s[j] => i = j

IsUpdate(m) == m.type \in {"ACCUMULATE", "PUT"}
Fresh(r) == ~r.done /\ r.val = {}

(* A compare_and_swap that has found another value. *)
Mismatch(r) == r.call.f = "compare_and_swap" /\ r.val # {r.call.cmp}

(* An update of call k is legitimately on its way. *)
UpdateDue(q, k, a) ==
    /\ k \in 1..Len(q) /\ ~q[k].done
    /\ \/ q[k].call.f = "accumulate" /\ ~(k = Len(q) /\ a = "start")
       \/ /\ k = Len(q) /\ a \in {"unlock", "unlockWait"}
          /\ Blocking(q[k].call) /\ q[k].val # {} /\ ~Mismatch(q[k])

(* All calls but the last are over if they block; where the last one is.       *)
CallsOK(p, q, a, P) ==
    /\ \A k \in 1..Len(q) : q[k].call.f = "accumulate" => q[k].val = {}
    /\ \A k \in 1..Len(q) : Blocking(q[k].call) /\ ~q[k].done => k = Len(q) /\ a # "idle"
    /\ a # "idle" => Len(q) > 0
    /\ a = "start" => ~Blocking(q[Len(q)].call)
    /\ a \notin {"idle", "start"} => Blocking(q[Len(q)].call)
    /\ a \in {"start", "lock", "lockWait"} => Fresh(q[Len(q)])
    /\ a \in {"getWait", "unlock", "unlockWait"} => p # Home
    /\ a = "getWait" /\ q[Len(q)].val = {} => ~q[Len(q)].done /\ Len(q) \in P
    /\ a = "getWait" /\ q[Len(q)].val # {} => (q[Len(q)].done <=> Mismatch(q[Len(q)]))
    /\ a \in {"unlock", "unlockWait"} =>
          q[Len(q)].val # {} /\ (Mismatch(q[Len(q)]) => q[Len(q)].done)

(* An update that has not taken effect is on its way.                          *)
UpdateComes(q, a, L, D) ==
    a \in {"unlock", "unlockWait"} /\ ~q[Len(q)].done =>
        Len(q) \in D \/ \E m \in L : IsUpdate(m) /\ m.k = Len(q)

ToHomeOK(p, q, a, L, D) ==
    \A m \in L :
        /\ m.type = "GET" =>
             /\ p # Home /\ m.k \in 1..Len(q) /\ Fresh(q[m.k])
             /\ \/ q[m.k].call.f = "no_op" /\ ~(m.k = Len(q) /\ a = "start")
                \/ m.k = Len(q) /\ a = "getWait"
        /\ IsUpdate(m) => p # Home /\ UpdateDue(q, m.k, a) /\ m.k \notin D
        /\ IsUpdate(m) => (m.type = "PUT" <=> q[m.k].call.f = "compare_and_swap")
        /\ m.type = "LOCK" => a = "lockWait" /\ m = Msg("LOCK", 0)
        /\ m.type = "UNLOCK" => a = "unlockWait" /\ m = Msg("UNLOCK", 0)

FromHomeOK(p, q, a, L, B) ==
    \A m \in B :
        /\ ~IsUpdate(m)
        /\ m.type = "GET" => p # Home /\ m.k \in 1..Len(q) /\ q[m.k].val # {}
        /\ m.type = "LOCK" => a = "lockWait" /\ L = {} /\ m = Msg("LOCK", 0)
        /\ m.type = "UNLOCK" =>
              a = "unlockWait" /\ L = {} /\ q[Len(q)].done /\ m = Msg("UNLOCK", 0)

DataOK(p, q, a, D) == \A k \in D : p # Home /\ UpdateDue(q, k, a)

WaitsOK(p, a, L, B, Q, W) ==
    /\ p \in Q => a = "lockWait" /\ L = {} /\ Msg("LOCK", 0) \notin B
    /\ p \in W => a = "unlockWait" /\ L = {} /\ Msg("UNLOCK", 0) \notin B

ProcOK(p, q, a, P, L, D, B, Q, W) ==
    /\ CallsOK(p, q, a, P)
    /\ UpdateComes(q, a, L, D)
    /\ ToHomeOK(p, q, a, L, D)
    /\ FromHomeOK(p, q, a, L, B)
    /\ DataOK(p, q, a, D)
    /\ WaitsOK(p, a, L, B, Q, W)

ProcInv(p) ==
    ProcOK(p, op[p], at[p], pend[p], Elements(line[p]), data[p], Elements(back[p]),
           Elements(list), cb)

(* No message is twice on a connection, and a process that waits for the lock  *)
(* or the unlock has sent nothing after its request.                           *)
LineOK(l) ==
    Distinct(l) /\ \A i \in 1..Len(l) : l[i].type \in {"LOCK", "UNLOCK"} => i = Len(l)

ChannelInv ==
    /\ \A p \in Rank : LineOK(line[p]) /\ Distinct(back[p])
    /\ Distinct(list)

(* Who has the lock, from the place a and the messages B from Home.            *)
HoldsAt(a, B) ==
    \/ Msg("LOCK", 0) \in B
    \/ a \in {"getWait", "unlock"}
    \/ a = "unlockWait" /\ Msg("UNLOCK", 0) \notin B

Holder(p) == HoldsAt(at[p], Elements(back[p]))

LockInv ==
    /\ lock <=> \E p \in Rank : Holder(p)
    /\ \A p, r \in Rank : Holder(p) /\ Holder(r) => p = r
    /\ ~lock => list = <<>>

(* The value that a call has fetched stays in place until its update.          *)
ValuesOK(q, M) ==
    \A k \in 1..Len(q) :
        Blocking(q[k].call) /\ ~q[k].done /\ q[k].val # {} => q[k].val = {M[q[k].call.loc]}

FetchedInv == \A p \in Rank : ValuesOK(op[p], mem)

AtomicInv ==
    /\ TypeOK /\ ChannelInv
    /\ \A p \in Rank : ProcInv(p)
    /\ LockInv

-----------------------------------------------------------------------------
(* Lemmas about sequences *)

(* What a sequence holds after Append. *)
LEMMA AppendElements ==
    ASSUME NEW S, NEW s \in Seq(S), NEW x \in S
    PROVE  /\ Append(s, x) \in Seq(S) /\ Len(Append(s, x)) = Len(s) + 1 /\ Len(s) \in Nat
           /\ Append(s, x)[Len(s) + 1] = x
           /\ \A i \in 1..Len(s) : Append(s, x)[i] = s[i]
           /\ Elements(Append(s, x)) = Elements(s) \cup {x}
           /\ Distinct(s) /\ x \notin Elements(s) => Distinct(Append(s, x))
<1>0. PICK t : t = Append(s, x)
  OBVIOUS
<1>1. /\ t \in Seq(S) /\ Len(t) = Len(s) + 1 /\ Len(s) \in Nat
      /\ t[Len(t)] = x /\ \A i \in 1..Len(s) : t[i] = s[i]
  BY <1>0
<1>2. \A i \in 1..Len(t) : i \in 1..Len(s) \/ i = Len(t)
  BY <1>1
<1>3. Len(t) \in 1..Len(t) /\ \A i \in 1..Len(s) : i \in 1..Len(t)
  BY <1>1
<1>4. Elements(t) = Elements(s) \cup {x}
  BY <1>1, <1>2, <1>3 DEF Elements
<1>5. ASSUME Distinct(s), x \notin Elements(s) PROVE Distinct(t)
  BY <1>1, <1>2, <1>3, <1>5 DEF Distinct, Elements
<1> QED
  BY <1>0, <1>1, <1>4, <1>5

(* What a sequence without duplicates holds without its head. *)
LEMMA TailElements ==
    ASSUME NEW S, NEW s \in Seq(S), s # <<>>, Distinct(s)
    PROVE  /\ Tail(s) \in Seq(S) /\ Len(Tail(s)) = Len(s) - 1 /\ Len(s) \in Nat \ {0}
           /\ Head(s) = s[1] /\ Head(s) \in S /\ Head(s) \in Elements(s)
           /\ \A i \in 1..Len(Tail(s)) : i + 1 \in 1..Len(s) /\ Tail(s)[i] = s[i + 1]
           /\ Elements(Tail(s)) = Elements(s) \ {Head(s)}
           /\ Distinct(Tail(s))
<1>1. PICK t : t = Tail(s)
  OBVIOUS
<1>2. PICK h : h = Head(s)
  OBVIOUS
<1>3. /\ t \in Seq(S) /\ Len(t) = Len(s) - 1 /\ Len(s) \in Nat \ {0}
      /\ h = s[1] /\ h \in S
      /\ \A i \in 1..Len(t) : i + 1 \in 1..Len(s) /\ t[i] = s[i + 1]
  BY <1>1, <1>2
<1>4. 1 \in 1..Len(s) /\ \A i \in 1..Len(t) : i + 1 # 1
  BY <1>3
<1>5. \A j \in 1..Len(s) : j # 1 => j - 1 \in 1..Len(t) /\ t[j - 1] = s[j]
  BY <1>3
<1>6. h \in Elements(s)
  BY <1>3, <1>4 DEF Elements
<1>7. Elements(t) = Elements(s) \ {h}
  <2>1. ASSUME NEW x \in Elements(t) PROVE x \in Elements(s) /\ x # h
    <3>1. PICK i \in 1..Len(t) : x = t[i]
      BY <2>1 DEF Elements
    <3> QED
      BY <1>3, <1>4, <3>1 DEF Elements, Distinct
  <2>2. ASSUME NEW x \in Elements(s), x # h PROVE x \in Elements(t)
    <3>1. PICK j \in 1..Len(s) : x = s[j]
      BY <2>2 DEF Elements
    <3> QED
      BY <1>3, <1>5, <2>2, <3>1 DEF Elements
  <2> QED
    BY <2>1, <2>2
<1>8. Distinct(t)
  <2> SUFFICES ASSUME NEW i \in 1..Len(t), NEW j \in 1..Len(t), t[i] = t[j] PROVE i = j
    BY DEF Distinct
  <2>1. i + 1 = j + 1
    BY <1>3 DEF Distinct
  <2> QED
    BY <2>1
<1> QED
  BY <1>1, <1>2, <1>3, <1>6, <1>7, <1>8

(* The elements of a sequence are of its type; only the empty one has none. *)
LEMMA ElementsType ==
    ASSUME NEW S, NEW s \in Seq(S)
    PROVE  /\ Elements(s) \subseteq S /\ Elements(<<>>) = {}
           /\ Elements(s) = {} <=> s = <<>>
<1>1. Elements(s) \subseteq S
  BY DEF Elements
<1>2. Elements(<<>>) = {}
  BY DEF Elements
<1>3. ASSUME Elements(s) = {} PROVE s = <<>>
  <2>1. Len(s) \in Nat /\ 1 \notin 1..Len(s)
    BY <1>3 DEF Elements
  <2>2. Len(s) = 0
    BY <2>1
  <2> QED
    BY <2>2
<1> QED
  BY <1>1, <1>2, <1>3

(* The head of a connection that is a lock or unlock request is all it holds.  *)
LEMMA LastRequest ==
    ASSUME NEW l \in Seq(Message), LineOK(l), l # <<>>, Head(l).type \in {"LOCK", "UNLOCK"}
    PROVE  Elements(Tail(l)) = {}
<1>1. Distinct(l)
  BY DEF LineOK
<1>2. Head(l) = l[1] /\ Len(l) \in Nat \ {0} /\ Elements(Tail(l)) = Elements(l) \ {Head(l)}
  BY <1>1, TailElements
<1>3. 1 \in 1..Len(l) /\ l[1].type \in {"LOCK", "UNLOCK"}
  BY <1>2
<1>4. Len(l) = 1
  BY <1>3 DEF LineOK
<1>5. Elements(l) = {l[1]}
  BY <1>4 DEF Elements
<1> QED
  BY <1>2, <1>5

(* A header that is posted behind others. *)
LEMMA LinePost ==
    ASSUME NEW l \in Seq(Message), LineOK(l), NEW m \in Message, m \notin Elements(l),
           \A x \in Elements(l) : x.type \notin {"LOCK", "UNLOCK"}
    PROVE  LineOK(Append(l, m))
<1>1. Distinct(l)
  BY DEF LineOK
<1>2. PICK k : k = Append(l, m)
  OBVIOUS
<1>3. /\ Len(k) = Len(l) + 1 /\ Len(l) \in Nat /\ \A i \in 1..Len(l) : k[i] = l[i]
      /\ Distinct(k)
  BY <1>1, <1>2, AppendElements
<1>4. \A i \in 1..Len(l) : l[i] \in Elements(l)
  BY DEF Elements
<1>5. ASSUME NEW i \in 1..Len(k), k[i].type \in {"LOCK", "UNLOCK"} PROVE i = Len(k)
  BY <1>3, <1>4, <1>5
<1>6. LineOK(k)
  BY <1>3, <1>5 DEF LineOK
<1> QED
  BY <1>2, <1>6

(* A header that arrives leaves the others in their order. *)
LEMMA LineTake ==
    ASSUME NEW l \in Seq(Message), LineOK(l), l # <<>>
    PROVE  LineOK(Tail(l))
<1>1. Distinct(l)
  BY DEF LineOK
<1>2. PICK k : k = Tail(l)
  OBVIOUS
<1>3. /\ Len(k) = Len(l) - 1 /\ Len(l) \in Nat /\ Distinct(k)
      /\ \A i \in 1..Len(k) : i + 1 \in 1..Len(l) /\ k[i] = l[i + 1]
  BY <1>1, <1>2, TailElements
<1>4. ASSUME NEW i \in 1..Len(k), k[i].type \in {"LOCK", "UNLOCK"} PROVE i = Len(k)
  <2>1. i + 1 = Len(l)
    BY <1>3, <1>4 DEF LineOK
  <2> QED
    BY <1>3, <2>1
<1>5. LineOK(k)
  BY <1>3, <1>4 DEF LineOK
<1> QED
  BY <1>2, <1>5

-----------------------------------------------------------------------------
(* Lemmas about calls *)

(* What a call stores is a value. *)
LEMMA UpdateType ==
    ASSUME NEW c \in Calls, NEW v \in Value
    PROVE  Update(c, v) \in Value /\ c.loc \in Loc /\ c.arg \in Value
<1>1. c \in Call /\ c.arg \in Value /\ c.loc \in Loc
  BY CallAssumption DEF Call
<1>2. PICK n : n = Modulus
  OBVIOUS
<1>3. n \in Nat \ {0} /\ v \in 0..(n - 1) /\ c.arg \in 0..(n - 1)
  BY <1>1, <1>2, ModulusAssumption DEF Value
<1>4. v + c.arg \in Int
  BY <1>3
<1>5. (v + c.arg) % n \in 0..(n - 1)
  BY <1>3, <1>4
<1>6. (v + c.arg) % Modulus \in Value
  BY <1>2, <1>5 DEF Value
<1> QED
  BY <1>1, <1>6 DEF Update

(* A message is of the type of messages. *)
LEMMA MsgType ==
    ASSUME NEW n \in Nat
    PROVE  /\ Msg("LOCK", n) \in Message /\ Msg("GET", n) \in Message
           /\ Msg("ACCUMULATE", n) \in Message /\ Msg("PUT", n) \in Message
           /\ Msg("UNLOCK", n) \in Message
BY DEF Msg, Message

(* The type and number of a message. *)
LEMMA MsgFields ==
    ASSUME NEW t, NEW n
    PROVE  Msg(t, n).type = t /\ Msg(t, n).k = n
BY DEF Msg

(* The record of a call after its value or its effect is noted. *)
Noted(r, v, d) == [r EXCEPT !.val = v, !.done = d]

(* What a note of a call changes. *)
LEMMA NotedFacts ==
    ASSUME NEW r \in Record, NEW v \in SUBSET Value, NEW d \in BOOLEAN, NEW x, x = Noted(r, v, d)
    PROVE  x \in Record /\ x.call = r.call /\ x.val = v /\ x.done = d
BY DEF Noted, Record

(* The record of a call that has taken effect and has fetched v. *)
Effected(r, v) == [r EXCEPT !.val = v, !.done = TRUE]

(* What the note of an effect changes. *)
LEMMA DoneFacts ==
    ASSUME NEW r \in Record, NEW v \in SUBSET Value, NEW x, x = Effected(r, v)
    PROVE  x \in Record /\ x.call = r.call /\ x.val = v /\ x.done
BY DEF Effected, Record

(* The calls t are those of q with call k replaced by r. *)
Edited(q, t, k, r) ==
    /\ t \in Seq(Record) /\ Len(t) = Len(q)
    /\ t[k] = r /\ \A j \in 1..Len(q) : j # k => t[j] = q[j]

(* A step that notes something of call k of p. *)
LEMMA EditOp ==
    ASSUME op \in [Rank -> Seq(Record)], NEW p \in Rank, NEW k \in 1..Len(op[p]), NEW r \in Record,
           op' = [op EXCEPT ![p] = [op[p] EXCEPT ![k] = r]]
    PROVE  /\ op' \in [Rank -> Seq(Record)] /\ Edited(op[p], op'[p], k, r)
           /\ \A s \in Rank : s # p => op'[s] = op[s]
<1>1. PICK t : t = [op[p] EXCEPT ![k] = r]
  OBVIOUS
<1>2. op[p] \in Seq(Record)
  OBVIOUS
<1>3. t \in Seq(Record) /\ Len(t) = Len(op[p]) /\ t[k] = r
      /\ \A j \in 1..Len(op[p]) : j # k => t[j] = op[p][j]
  BY <1>1, <1>2
<1>4. op' \in [Rank -> Seq(Record)] /\ op'[p] = t /\ \A s \in Rank : s # p => op'[s] = op[s]
  BY <1>1, <1>3
<1> QED
  BY <1>3, <1>4 DEF Edited

(* The fields of a record of a call. *)
LEMMA RecordFields ==
    ASSUME NEW r \in Record
    PROVE  /\ r.call \in Calls /\ r.call \in Call /\ r.val \in SUBSET Value /\ r.done \in BOOLEAN
           /\ r.call.loc \in Loc
           /\ r.call.f \in {"get_accumulate", "compare_and_swap", "no_op", "accumulate"}
BY CallAssumption DEF Record, Call

-----------------------------------------------------------------------------
(* What the steps make of the invariant of the process *)

(* A call begins: Enter. *)
LEMMA EnterProc ==
    ASSUME NEW p, NEW q \in Seq(Record), NEW P, NEW L, NEW D, NEW B, NEW Q, NEW W,
           ProcOK(p, q, "idle", P, L, D, B, Q, W), NEW c \in Calls, NEW r \in Record,
           r.call = c, Fresh(r), NEW a, a = IF Blocking(c) THEN "lock" ELSE "start"
    PROVE  ProcOK(p, Append(q, r), a, P, L, D, B, Q, W)
<1>1. PICK t : t = Append(q, r)
  OBVIOUS
<1>2. /\ Len(q) \in Nat /\ Len(t) = Len(q) + 1 /\ t[Len(t)] = r
      /\ \A k \in 1..Len(q) : t[k] = q[k]
  BY <1>1
<1>3. \A k \in 1..Len(q) : k \in 1..Len(t) /\ k # Len(t)
  BY <1>2
<1>4. \A k \in 1..Len(t) : k \in 1..Len(q) \/ k = Len(t)
  BY <1>2
<1>5. a \in {"lock", "start"} /\ (a = "lock" <=> Blocking(c)) /\ Len(t) > 0
  BY <1>2
<1>6. CallsOK(p, t, a, P)
  BY <1>2, <1>4, <1>5 DEF ProcOK, CallsOK, Fresh
<1>7. \A k : UpdateDue(q, k, "idle") => UpdateDue(t, k, a)
  BY <1>2, <1>3, <1>5 DEF UpdateDue
<1>8. UpdateComes(t, a, L, D)
  BY <1>5 DEF UpdateComes
<1>9. ToHomeOK(p, t, a, L, D)
  BY <1>2, <1>3, <1>5, <1>7 DEF ProcOK, ToHomeOK, UpdateDue
<1>10. FromHomeOK(p, t, a, L, B)
  BY <1>2, <1>3 DEF ProcOK, FromHomeOK
<1>11. DataOK(p, t, a, D) /\ WaitsOK(p, a, L, B, Q, W)
  BY <1>7 DEF ProcOK, DataOK, WaitsOK
<1> QED
  BY <1>1, <1>6, <1>8, <1>9, <1>10, <1>11 DEF ProcOK

(* Home carries out its call in place. *)
LEMMA InPlaceProc ==
    ASSUME NEW p, NEW q \in Seq(Record), NEW a, NEW P, NEW L, NEW D, NEW B, NEW Q, NEW W,
           ProcOK(p, q, a, P, L, D, B, Q, W), a \in {"start", "lock", "lockWait"}, p = Home,
           NEW t, NEW r \in Record, Edited(q, t, Len(q), r), r.call = q[Len(q)].call, r.done,
           r.call.f = "accumulate" => r.val = {},
           NEW A, \A m \in A : m \in B /\ m.type # "LOCK",
           a = "lockWait" => L = {} /\ p \notin Q
    PROVE  ProcOK(p, t, "idle", P, L, D, A, Q, W)
<1>1. Len(q) > 0 /\ Len(q) \in 1..Len(q) /\ Len(t) = Len(q) /\ t[Len(q)] = r
      /\ \A k \in 1..Len(q) : k # Len(q) => t[k] = q[k]
  BY DEF ProcOK, CallsOK, Edited
<1>2. CallsOK(p, t, "idle", P)
  BY <1>1 DEF ProcOK, CallsOK
<1>3. UpdateComes(t, "idle", L, D)
  BY DEF UpdateComes
<1>4. ToHomeOK(p, t, "idle", L, D)
  BY DEF ProcOK, ToHomeOK, Msg
<1>5. FromHomeOK(p, t, "idle", L, A)
  BY DEF ProcOK, FromHomeOK
<1>6. DataOK(p, t, "idle", D)
  BY DEF ProcOK, DataOK
<1>7. WaitsOK(p, "idle", L, A, Q, W)
  BY DEF ProcOK, WaitsOK
<1> QED
  BY <1>2, <1>3, <1>4, <1>5, <1>6, <1>7 DEF ProcOK

(* The place changes from start to idle: the header of a get or of an          *)
(* accumulate is posted.                                                        *)
LEMMA StartProc ==
    ASSUME NEW p, NEW q \in Seq(Record), NEW P, NEW L, NEW D, NEW B, NEW Q, NEW W,
           ProcOK(p, q, "start", P, L, D, B, Q, W), p # Home,
           NEW m, m.k = Len(q), q[Len(q)].call.f \in {"no_op", "accumulate"},
           m.type = IF q[Len(q)].call.f = "no_op" THEN "GET" ELSE "ACCUMULATE"
    PROVE  /\ ProcOK(p, q, "idle", P \cup {Len(q)}, L \cup {m}, D, B, Q, W)
           /\ m \notin L /\ \A x \in L : x.type \notin {"LOCK", "UNLOCK"}
<1>1. Len(q) \in 1..Len(q) /\ Fresh(q[Len(q)]) /\ ~Blocking(q[Len(q)].call)
  BY DEF ProcOK, CallsOK
<1>2. CallsOK(p, q, "idle", P \cup {Len(q)})
  BY <1>1 DEF ProcOK, CallsOK, Fresh
<1>3. \A k : UpdateDue(q, k, "start") => UpdateDue(q, k, "idle") /\ k # Len(q)
  BY <1>1 DEF UpdateDue
<1>4. UpdateComes(q, "idle", L \cup {m}, D)
  BY DEF UpdateComes
<1>5. m \notin L /\ \A x \in L : x.type \notin {"LOCK", "UNLOCK"}
  BY <1>3 DEF ProcOK, ToHomeOK, IsUpdate
<1>6. Len(q) \notin D
  BY <1>3 DEF ProcOK, DataOK
<1>7. IsUpdate(m) => UpdateDue(q, Len(q), "idle")
  BY <1>1 DEF IsUpdate, UpdateDue, Fresh
<1>8. ToHomeOK(p, q, "idle", L \cup {m}, D)
  <2>1. ASSUME NEW x \in L
        PROVE  /\ x.type = "GET" =>
                    /\ p # Home /\ x.k \in 1..Len(q) /\ Fresh(q[x.k])
                    /\ q[x.k].call.f = "no_op"
               /\ IsUpdate(x) => p # Home /\ UpdateDue(q, x.k, "idle") /\ x.k \notin D
               /\ IsUpdate(x) => (x.type = "PUT" <=> q[x.k].call.f = "compare_and_swap")
    BY <1>3 DEF ProcOK, ToHomeOK
  <2> QED
    BY <1>1, <1>5, <1>6, <1>7, <2>1 DEF ToHomeOK, IsUpdate
<1>9. \A x \in B : x.type \notin {"LOCK", "UNLOCK"}
  BY DEF ProcOK, FromHomeOK
<1>10. FromHomeOK(p, q, "idle", L \cup {m}, B)
  BY <1>9 DEF ProcOK, FromHomeOK
<1>11. DataOK(p, q, "idle", D) /\ WaitsOK(p, "idle", L \cup {m}, B, Q, W)
  BY <1>3 DEF ProcOK, DataOK, WaitsOK
<1> QED
  BY <1>2, <1>4, <1>5, <1>8, <1>10, <1>11 DEF ProcOK

(* The request for the lock is posted. *)
LEMMA LockProc ==
    ASSUME NEW p, NEW q \in Seq(Record), NEW P, NEW L, NEW D, NEW B, NEW Q, NEW W,
           ProcOK(p, q, "lock", P, L, D, B, Q, W)
    PROVE  /\ ProcOK(p, q, "lockWait", P, L \cup {Msg("LOCK", 0)}, D, B, Q, W)
           /\ Msg("LOCK", 0) \notin L /\ \A x \in L : x.type \notin {"LOCK", "UNLOCK"}
<1>1. PICK m : m = Msg("LOCK", 0) /\ m.type = "LOCK"
  BY MsgFields
<1>2. CallsOK(p, q, "lockWait", P)
  BY DEF ProcOK, CallsOK
<1>3. \A k : UpdateDue(q, k, "lock") => UpdateDue(q, k, "lockWait")
  BY DEF UpdateDue
<1>4. UpdateComes(q, "lockWait", L \cup {m}, D)
  BY DEF UpdateComes
<1>5. m \notin L /\ \A x \in L : x.type \notin {"LOCK", "UNLOCK"}
  BY <1>1 DEF ProcOK, ToHomeOK
<1>6. ToHomeOK(p, q, "lockWait", L \cup {m}, D)
  BY <1>1, <1>3, <1>5 DEF ProcOK, ToHomeOK, IsUpdate
<1>7. \A x \in B : x.type \notin {"LOCK", "UNLOCK"}
  BY DEF ProcOK, FromHomeOK
<1>8. FromHomeOK(p, q, "lockWait", L \cup {m}, B)
  BY <1>7 DEF ProcOK, FromHomeOK
<1>9. DataOK(p, q, "lockWait", D) /\ WaitsOK(p, "lockWait", L \cup {m}, B, Q, W)
  BY <1>3 DEF ProcOK, DataOK, WaitsOK
<1> QED
  BY <1>1, <1>2, <1>4, <1>5, <1>6, <1>8, <1>9 DEF ProcOK

(* The lock is granted, and the get is posted. *)
LEMMA LockedProc ==
    ASSUME NEW p, NEW q \in Seq(Record), NEW P, NEW L, NEW D, NEW B, NEW Q, NEW W,
           ProcOK(p, q, "lockWait", P, L, D, B, Q, W), p # Home, Msg("LOCK", 0) \in B,
           NEW m, m.k = Len(q), m.type = "GET"
    PROVE  /\ ProcOK(p, q, "getWait", P \cup {Len(q)}, L \cup {m}, D, B \ {Msg("LOCK", 0)}, Q, W)
           /\ L = {}
<1>1. PICK h : h = Msg("LOCK", 0) /\ h.type = "LOCK"
  BY MsgFields
<1>2. L = {} /\ p \notin Q /\ p \notin W
  BY <1>1 DEF ProcOK, FromHomeOK, WaitsOK
<1>3. Len(q) \in 1..Len(q) /\ Fresh(q[Len(q)]) /\ Blocking(q[Len(q)].call)
  BY DEF ProcOK, CallsOK
<1>4. CallsOK(p, q, "getWait", P \cup {Len(q)})
  BY <1>3 DEF ProcOK, CallsOK, Fresh
<1>5. UpdateComes(q, "getWait", L \cup {m}, D)
  BY DEF UpdateComes
<1>6. ToHomeOK(p, q, "getWait", L \cup {m}, D)
  BY <1>2, <1>3 DEF ToHomeOK, IsUpdate
<1>7. \A x \in B : x.type = "LOCK" => x = h
  BY <1>1 DEF ProcOK, FromHomeOK
<1>8. FromHomeOK(p, q, "getWait", L \cup {m}, B \ {h})
  BY <1>7 DEF ProcOK, FromHomeOK
<1>9. DataOK(p, q, "getWait", D) /\ WaitsOK(p, "getWait", L \cup {m}, B \ {h}, Q, W)
  BY <1>2 DEF ProcOK, DataOK, WaitsOK, UpdateDue
<1> QED
  BY <1>1, <1>2, <1>4, <1>5, <1>6, <1>8, <1>9 DEF ProcOK

(* The answer to a get arrives. *)
LEMMA GetDoneProc ==
    ASSUME NEW p, NEW q, NEW a, NEW P, NEW L, NEW D, NEW B, NEW Q, NEW W,
           ProcOK(p, q, a, P, L, D, B, Q, W), NEW m \in B, m.type = "GET"
    PROVE  ProcOK(p, q, a, P \ {m.k}, L, D, B \ {m}, Q, W)
<1>1. q[m.k].val # {}
  BY DEF ProcOK, FromHomeOK
<1>2. CallsOK(p, q, a, P \ {m.k})
  BY <1>1 DEF ProcOK, CallsOK
<1>3. FromHomeOK(p, q, a, L, B \ {m})
  BY DEF ProcOK, FromHomeOK
<1>4. WaitsOK(p, a, L, B \ {m}, Q, W)
  BY DEF ProcOK, WaitsOK
<1> QED
  BY <1>2, <1>3, <1>4 DEF ProcOK

(* A send completes locally. *)
LEMMA SendDoneProc ==
    ASSUME NEW p, NEW q, NEW a, NEW P, NEW L, NEW D, NEW B, NEW Q, NEW W,
           ProcOK(p, q, a, P, L, D, B, Q, W), NEW k, k = Len(q) => a # "getWait"
    PROVE  ProcOK(p, q, a, P \ {k}, L, D, B, Q, W)
<1>1. CallsOK(p, q, a, P \ {k})
  BY DEF ProcOK, CallsOK
<1> QED
  BY <1>1 DEF ProcOK

(* A compare_and_swap that has found another value goes on to its unlock. *)
LEMMA MismatchProc ==
    ASSUME NEW p, NEW q \in Seq(Record), NEW P, NEW L, NEW D, NEW B, NEW Q, NEW W,
           ProcOK(p, q, "getWait", P, L, D, B, Q, W), Len(q) \notin P, Mismatch(q[Len(q)])
    PROVE  ProcOK(p, q, "unlock", P, L, D, B, Q, W)
<1>1. q[Len(q)].val # {} /\ q[Len(q)].done /\ Blocking(q[Len(q)].call) /\ Len(q) \in 1..Len(q)
  BY DEF ProcOK, CallsOK
<1>2. CallsOK(p, q, "unlock", P)
  BY <1>1 DEF ProcOK, CallsOK
<1>3. \A k : UpdateDue(q, k, "getWait") => UpdateDue(q, k, "unlock")
  BY DEF UpdateDue
<1>4. UpdateComes(q, "unlock", L, D)
  BY <1>1 DEF UpdateComes
<1>5. ToHomeOK(p, q, "unlock", L, D)
  BY <1>1, <1>3 DEF ProcOK, ToHomeOK, Fresh
<1>6. FromHomeOK(p, q, "unlock", L, B)
  BY DEF ProcOK, FromHomeOK
<1>7. DataOK(p, q, "unlock", D) /\ WaitsOK(p, "unlock", L, B, Q, W)
  BY <1>3 DEF ProcOK, DataOK, WaitsOK
<1> QED
  BY <1>2, <1>4, <1>5, <1>6, <1>7 DEF ProcOK

(* The update of a blocking call is posted. *)
LEMMA FetchedProc ==
    ASSUME NEW p, NEW q \in Seq(Record), NEW P, NEW L, NEW D, NEW B, NEW Q, NEW W,
           ProcOK(p, q, "getWait", P, L, D, B, Q, W), P = {}, ~Mismatch(q[Len(q)]),
           NEW m, m.k = Len(q),
           m.type = IF q[Len(q)].call.f = "compare_and_swap" THEN "PUT" ELSE "ACCUMULATE"
    PROVE  /\ ProcOK(p, q, "unlock", {Len(q)}, L \cup {m}, D, B, Q, W)
           /\ m \notin L /\ \A x \in L : x.type \notin {"LOCK", "UNLOCK"}
<1>1. /\ q[Len(q)].val # {} /\ ~q[Len(q)].done /\ Blocking(q[Len(q)].call)
      /\ Len(q) \in 1..Len(q) /\ p # Home
  BY DEF ProcOK, CallsOK
<1>2. CallsOK(p, q, "unlock", {Len(q)})
  BY <1>1 DEF ProcOK, CallsOK
<1>3. \A k : UpdateDue(q, k, "getWait") => UpdateDue(q, k, "unlock") /\ k # Len(q)
  BY <1>1 DEF UpdateDue, Blocking
<1>4. IsUpdate(m) /\ UpdateDue(q, Len(q), "unlock")
  BY <1>1 DEF UpdateDue, IsUpdate
<1>5. UpdateComes(q, "unlock", L \cup {m}, D)
  BY <1>4 DEF UpdateComes
<1>6. m \notin L /\ Len(q) \notin D /\ \A x \in L : x.type \notin {"LOCK", "UNLOCK"}
  BY <1>3, <1>4 DEF ProcOK, ToHomeOK, DataOK
<1>7. ToHomeOK(p, q, "unlock", L \cup {m}, D)
  <2>1. ASSUME NEW x \in L
        PROVE  /\ x.type = "GET" =>
                    /\ p # Home /\ x.k \in 1..Len(q) /\ Fresh(q[x.k])
                    /\ q[x.k].call.f = "no_op"
               /\ IsUpdate(x) => p # Home /\ UpdateDue(q, x.k, "unlock") /\ x.k \notin D
               /\ IsUpdate(x) => (x.type = "PUT" <=> q[x.k].call.f = "compare_and_swap")
    BY <1>1, <1>3 DEF ProcOK, ToHomeOK, Fresh
  <2> QED
    BY <1>1, <1>4, <1>6, <2>1 DEF ToHomeOK, IsUpdate
<1>8. \A x \in B : x.type \notin {"LOCK", "UNLOCK"}
  BY DEF ProcOK, FromHomeOK
<1>9. FromHomeOK(p, q, "unlock", L \cup {m}, B)
  BY <1>8 DEF ProcOK, FromHomeOK
<1>10. DataOK(p, q, "unlock", D) /\ WaitsOK(p, "unlock", L \cup {m}, B, Q, W)
  BY <1>3 DEF ProcOK, DataOK, WaitsOK
<1> QED
  BY <1>2, <1>5, <1>6, <1>7, <1>9, <1>10 DEF ProcOK

(* The unlock request is posted. *)
LEMMA UnlockProc ==
    ASSUME NEW p, NEW q \in Seq(Record), NEW P, NEW L, NEW D, NEW B, NEW Q, NEW W,
           ProcOK(p, q, "unlock", P, L, D, B, Q, W)
    PROVE  /\ ProcOK(p, q, "unlockWait", P, L \cup {Msg("UNLOCK", 0)}, D, B, Q, W)
           /\ Msg("UNLOCK", 0) \notin L /\ \A x \in L : x.type \notin {"LOCK", "UNLOCK"}
<1>1. PICK m : m = Msg("UNLOCK", 0) /\ m.type = "UNLOCK"
  BY MsgFields
<1>2. CallsOK(p, q, "unlockWait", P)
  BY DEF ProcOK, CallsOK
<1>3. \A k : UpdateDue(q, k, "unlock") => UpdateDue(q, k, "unlockWait")
  BY DEF UpdateDue
<1>4. UpdateComes(q, "unlockWait", L \cup {m}, D)
  BY DEF ProcOK, UpdateComes
<1>5. m \notin L /\ \A x \in L : x.type \notin {"LOCK", "UNLOCK"}
  BY <1>1 DEF ProcOK, ToHomeOK
<1>6. ToHomeOK(p, q, "unlockWait", L \cup {m}, D)
  BY <1>1, <1>3, <1>5 DEF ProcOK, ToHomeOK, IsUpdate
<1>7. \A x \in B : x.type \notin {"LOCK", "UNLOCK"}
  BY DEF ProcOK, FromHomeOK
<1>8. FromHomeOK(p, q, "unlockWait", L \cup {m}, B)
  BY <1>7 DEF ProcOK, FromHomeOK
<1>9. DataOK(p, q, "unlockWait", D) /\ WaitsOK(p, "unlockWait", L \cup {m}, B, Q, W)
  BY <1>3 DEF ProcOK, DataOK, WaitsOK
<1> QED
  BY <1>1, <1>2, <1>4, <1>5, <1>6, <1>8, <1>9 DEF ProcOK

(* The answer to the unlock arrives. *)
LEMMA UnlockDoneProc ==
    ASSUME NEW p, NEW q \in Seq(Record), NEW P, NEW L, NEW D, NEW B, NEW Q, NEW W,
           ProcOK(p, q, "unlockWait", P, L, D, B, Q, W), Msg("UNLOCK", 0) \in B
    PROVE  ProcOK(p, q, "idle", P, L, D, B \ {Msg("UNLOCK", 0)}, Q, W)
<1>1. PICK h : h = Msg("UNLOCK", 0) /\ h.type = "UNLOCK"
  BY MsgFields
<1>2. L = {} /\ p \notin Q /\ p \notin W /\ q[Len(q)].done /\ Len(q) \in 1..Len(q)
  BY <1>1 DEF ProcOK, FromHomeOK, WaitsOK, CallsOK
<1>3. CallsOK(p, q, "idle", P)
  BY <1>2 DEF ProcOK, CallsOK
<1>4. UpdateComes(q, "idle", L, D) /\ ToHomeOK(p, q, "idle", L, D)
  BY <1>2 DEF UpdateComes, ToHomeOK
<1>5. \A x \in B : x.type = "UNLOCK" => x = h
  BY <1>1 DEF ProcOK, FromHomeOK
<1>6. FromHomeOK(p, q, "idle", L, B \ {h})
  BY <1>5 DEF ProcOK, FromHomeOK
<1>7. DataOK(p, q, "idle", D) /\ WaitsOK(p, "idle", L, B \ {h}, Q, W)
  BY <1>2 DEF ProcOK, DataOK, WaitsOK, UpdateDue
<1> QED
  BY <1>1, <1>3, <1>4, <1>6, <1>7 DEF ProcOK

(* The lock request of p arrives, and the lock is free. *)
LEMMA GrantProc ==
    ASSUME NEW p, NEW q, NEW a, NEW P, NEW L, NEW D, NEW B, NEW Q, NEW W,
           ProcOK(p, q, a, P, L, D, B, Q, W), NEW m \in L, m.type = "LOCK"
    PROVE  /\ ProcOK(p, q, a, P, {}, D, B \cup {Msg("LOCK", 0)}, Q, W)
           /\ a = "lockWait" /\ Msg("LOCK", 0) \notin B
<1>1. PICK h : h = Msg("LOCK", 0) /\ h.type = "LOCK"
  BY MsgFields
<1>2. a = "lockWait" /\ L # {} /\ p \notin Q /\ p \notin W
  BY DEF ProcOK, ToHomeOK, WaitsOK
<1>3. h \notin B
  BY <1>1, <1>2 DEF ProcOK, FromHomeOK
<1>4. UpdateComes(q, a, {}, D) /\ ToHomeOK(p, q, a, {}, D)
  BY <1>2 DEF UpdateComes, ToHomeOK
<1>5. FromHomeOK(p, q, a, {}, B \cup {h})
  BY <1>1, <1>2 DEF ProcOK, FromHomeOK, IsUpdate
<1>6. WaitsOK(p, a, {}, B \cup {h}, Q, W)
  BY <1>2 DEF WaitsOK
<1> QED
  BY <1>1, <1>2, <1>3, <1>4, <1>5, <1>6 DEF ProcOK

(* The lock request of p arrives and is queued. *)
LEMMA QueueProc ==
    ASSUME NEW p, NEW q, NEW a, NEW P, NEW L, NEW D, NEW B, NEW Q, NEW W,
           ProcOK(p, q, a, P, L, D, B, Q, W), NEW m \in L, m.type = "LOCK"
    PROVE  ProcOK(p, q, a, P, {}, D, B, Q \cup {p}, W) /\ p \notin Q
<1>1. Msg("LOCK", 0) \notin B /\ a = "lockWait"
  BY GrantProc
<1>2. a = "lockWait" /\ L # {} /\ p \notin Q /\ p \notin W
  BY DEF ProcOK, ToHomeOK, WaitsOK
<1>3. UpdateComes(q, a, {}, D) /\ ToHomeOK(p, q, a, {}, D)
  BY <1>2 DEF UpdateComes, ToHomeOK
<1>4. FromHomeOK(p, q, a, {}, B)
  BY <1>2 DEF ProcOK, FromHomeOK
<1>5. WaitsOK(p, a, {}, B, Q \cup {p}, W)
  BY <1>1, <1>2 DEF WaitsOK
<1> QED
  BY <1>2, <1>3, <1>4, <1>5 DEF ProcOK

(* The unlock request of p arrives, and its callback waits. *)
LEMMA CallbackProc ==
    ASSUME NEW p, NEW q, NEW a, NEW P, NEW L, NEW D, NEW B, NEW Q, NEW W,
           ProcOK(p, q, a, P, L, D, B, Q, W), NEW m \in L, m.type = "UNLOCK", L \ {m} = {}
    PROVE  ProcOK(p, q, a, P, {}, D, B, Q, W \cup {p})
<1>1. a = "unlockWait" /\ p \notin Q
  BY DEF ProcOK, ToHomeOK, WaitsOK
<1>2. Msg("UNLOCK", 0) \notin B
  <2>1. Msg("UNLOCK", 0).type = "UNLOCK"
    BY MsgFields
  <2> QED
    BY <2>1 DEF ProcOK, FromHomeOK
<1>3. ~IsUpdate(m)
  BY DEF IsUpdate
<1>4. UpdateComes(q, a, {}, D)
  BY <1>3 DEF ProcOK, UpdateComes
<1>5. ToHomeOK(p, q, a, {}, D)
  BY DEF ToHomeOK
<1>6. FromHomeOK(p, q, a, {}, B)
  BY DEF ProcOK, FromHomeOK
<1>7. WaitsOK(p, a, {}, B, Q, W \cup {p})
  BY <1>1, <1>2 DEF WaitsOK
<1> QED
  BY <1>4, <1>5, <1>6, <1>7 DEF ProcOK

(* The callback of the unlock of p ends: no data of p is missing. *)
LEMMA AnswerUnlockProc ==
    ASSUME NEW p, NEW q, NEW a, NEW P, NEW D, NEW B, NEW Q, NEW W,
           ProcOK(p, q, a, P, {}, D, B, Q, W), p \in W, D = {}
    PROVE  /\ ProcOK(p, q, a, P, {}, D, B \cup {Msg("UNLOCK", 0)}, Q, W \ {p})
           /\ a = "unlockWait" /\ Msg("UNLOCK", 0) \notin B
<1>1. PICK h : h = Msg("UNLOCK", 0) /\ h.type = "UNLOCK"
  BY MsgFields
<1>2. a = "unlockWait" /\ h \notin B /\ p \notin Q
  BY <1>1 DEF ProcOK, WaitsOK
<1>3. q[Len(q)].done
  BY <1>2 DEF ProcOK, UpdateComes
<1>4. FromHomeOK(p, q, a, {}, B \cup {h})
  BY <1>1, <1>2, <1>3 DEF ProcOK, FromHomeOK, IsUpdate
<1>5. WaitsOK(p, a, {}, B \cup {h}, Q, W \ {p})
  BY <1>2 DEF WaitsOK
<1> QED
  BY <1>1, <1>2, <1>4, <1>5 DEF ProcOK

(* The next of the list gets the lock. *)
LEMMA WokenProc ==
    ASSUME NEW p, NEW q, NEW a, NEW P, NEW L, NEW D, NEW B, NEW Q, NEW W,
           ProcOK(p, q, a, P, L, D, B, Q, W), p \in Q, NEW R, p \notin R, NEW V, p \in V <=> p \in W
    PROVE  /\ ProcOK(p, q, a, P, L, D, B \cup {Msg("LOCK", 0)}, R, V)
           /\ a = "lockWait" /\ Msg("LOCK", 0) \notin B
<1>1. PICK h : h = Msg("LOCK", 0) /\ h.type = "LOCK"
  BY MsgFields
<1>2. a = "lockWait" /\ h \notin B /\ L = {} /\ p \notin V
  BY <1>1 DEF ProcOK, WaitsOK
<1>3. FromHomeOK(p, q, a, L, B \cup {h})
  BY <1>1, <1>2 DEF ProcOK, FromHomeOK, IsUpdate
<1>4. WaitsOK(p, a, L, B \cup {h}, R, V)
  BY <1>2 DEF WaitsOK
<1> QED
  BY <1>1, <1>2, <1>3, <1>4 DEF ProcOK

(* The record of a call whose get was answered. *)
GetNote(r) == r.val # {} /\ (r.done <=> r.call.f = "no_op" \/ Mismatch(r))

(* The header of a get arrives: the value is packed, and a call that stores     *)
(* nothing has taken effect.                                                    *)
LEMMA GetProc ==
    ASSUME NEW p, NEW q \in Seq(Record), NEW a, NEW P, NEW L, NEW D, NEW B, NEW Q, NEW W,
           ProcOK(p, q, a, P, L, D, B, Q, W), NEW m \in L, m.type = "GET", m \in Message,
           NEW t, NEW r \in Record, Edited(q, t, m.k, r), r.call = q[m.k].call, GetNote(r),
           L \subseteq Message
    PROVE  /\ ProcOK(p, t, a, P, L \ {m}, D, B \cup {m}, Q, W)
           /\ m \notin B
<1> USE DEF GetNote
<1>1. /\ p # Home /\ m.k \in 1..Len(q) /\ Fresh(q[m.k]) /\ L # {} /\ ~IsUpdate(m)
      /\ \/ q[m.k].call.f = "no_op" /\ ~(m.k = Len(q) /\ a = "start")
         \/ m.k = Len(q) /\ a = "getWait"
  BY DEF ProcOK, ToHomeOK, IsUpdate
<1>2. Len(t) = Len(q) /\ t[m.k] = r /\ \A k \in 1..Len(q) : k # m.k => t[k] = q[k]
  BY DEF Edited
<1>3. m \notin B
  BY <1>1 DEF ProcOK, FromHomeOK, Fresh
<1>4. ASSUME m.k = Len(q), a # "getWait"
      PROVE  a \in {"idle"} \/ a \notin {"start", "lock", "lockWait", "unlock", "unlockWait"}
  BY <1>1, <1>4 DEF ProcOK, CallsOK, Blocking
<1>5. CallsOK(p, t, a, P)
  <2>1. \A k \in 1..Len(q) : t[k].call = q[k].call
    BY <1>1, <1>2
  <2>2. \A k \in 1..Len(t) : t[k].call.f = "accumulate" => t[k].val = {}
    BY <1>1, <1>2, <2>1 DEF ProcOK, CallsOK, Blocking
  <2>3. \A k \in 1..Len(t) : Blocking(t[k].call) /\ ~t[k].done => k = Len(t) /\ a # "idle"
    BY <1>1, <1>2, <2>1 DEF ProcOK, CallsOK, Fresh
  <2>4. CASE m.k # Len(q)
    BY <1>1, <1>2, <2>1, <2>2, <2>3, <2>4 DEF ProcOK, CallsOK
  <2>5. CASE m.k = Len(q) /\ a = "getWait"
    BY <1>1, <1>2, <2>1, <2>2, <2>3, <2>5 DEF ProcOK, CallsOK, Blocking
  <2>6. CASE m.k = Len(q) /\ a # "getWait"
    BY <1>1, <1>2, <1>4, <2>1, <2>2, <2>3, <2>6 DEF ProcOK, CallsOK, Blocking
  <2> QED
    BY <2>4, <2>5, <2>6
<1>6. ASSUME NEW k, UpdateDue(q, k, a) PROVE UpdateDue(t, k, a)
  <2>1. k # m.k
    BY <1>1, <1>6 DEF ProcOK, CallsOK, UpdateDue, Blocking, Fresh
  <2> QED
    BY <1>2, <1>6, <2>1 DEF UpdateDue
<1>7. UpdateComes(t, a, L \ {m}, D)
  BY <1>1, <1>2 DEF ProcOK, UpdateComes, CallsOK, Fresh
<1>8. ASSUME NEW x \in L \ {m}, x.type = "GET" PROVE x.k # m.k
  BY <1>8 DEF Message
<1>9. ToHomeOK(p, t, a, L \ {m}, D)
  <2> SUFFICES ASSUME NEW x \in L \ {m}
               PROVE  /\ x.type = "GET" =>
                           /\ p # Home /\ x.k \in 1..Len(t) /\ Fresh(t[x.k])
                           /\ \/ t[x.k].call.f = "no_op" /\ ~(x.k = Len(t) /\ a = "start")
                              \/ x.k = Len(t) /\ a = "getWait"
                      /\ IsUpdate(x) => p # Home /\ UpdateDue(t, x.k, a) /\ x.k \notin D
                      /\ IsUpdate(x) => (x.type = "PUT" <=> t[x.k].call.f = "compare_and_swap")
                      /\ x.type = "LOCK" => a = "lockWait" /\ x = Msg("LOCK", 0)
                      /\ x.type = "UNLOCK" => a = "unlockWait" /\ x = Msg("UNLOCK", 0)
    BY DEF ToHomeOK
  <2>1. x.type = "GET" =>
           /\ p # Home /\ x.k \in 1..Len(t) /\ Fresh(t[x.k])
           /\ \/ t[x.k].call.f = "no_op" /\ ~(x.k = Len(t) /\ a = "start")
              \/ x.k = Len(t) /\ a = "getWait"
    BY <1>2, <1>8 DEF ProcOK, ToHomeOK
  <2>2. IsUpdate(x) => p # Home /\ UpdateDue(t, x.k, a) /\ x.k \notin D
    BY <1>6 DEF ProcOK, ToHomeOK
  <2>3. IsUpdate(x) => (x.type = "PUT" <=> t[x.k].call.f = "compare_and_swap")
    BY <1>2, <2>2 DEF ProcOK, ToHomeOK, UpdateDue
  <2> QED
    BY <2>1, <2>2, <2>3 DEF ProcOK, ToHomeOK
<1>10. FromHomeOK(p, t, a, L \ {m}, B \cup {m})
  BY <1>1, <1>2 DEF ProcOK, FromHomeOK
<1>11. DataOK(p, t, a, D)
  BY <1>6 DEF ProcOK, DataOK
<1>12. WaitsOK(p, a, L \ {m}, B \cup {m}, Q, W)
  BY <1>1 DEF ProcOK, WaitsOK
<1> QED
  BY <1>3, <1>5, <1>7, <1>9, <1>10, <1>11, <1>12 DEF ProcOK

(* Call k of p takes effect: its update has arrived with its data. *)
LEMMA ApplyProc ==
    ASSUME NEW p, NEW q \in Seq(Record), NEW a, NEW P, NEW L, NEW D, NEW B, NEW Q, NEW W,
           ProcOK(p, q, a, P, L, D, B, Q, W), NEW k, UpdateDue(q, k, a),
           NEW t, NEW r \in Record, Edited(q, t, k, r), r.call = q[k].call, r.val = q[k].val, r.done,
           NEW M, NEW E, M \subseteq L, E = D \ {k},
           \A x \in M : IsUpdate(x) => x.k # k,
           \A x \in L : x \notin M => IsUpdate(x) /\ x.k = k
    PROVE  ProcOK(p, t, a, P, M, E, B, Q, W)
<1>1. /\ k \in 1..Len(q) /\ ~q[k].done /\ Len(t) = Len(q) /\ t[k] = r
      /\ \A j \in 1..Len(q) : j # k => t[j] = q[j]
  BY DEF Edited, UpdateDue
<1>2. \A j \in 1..Len(q) : t[j].call = q[j].call /\ t[j].val = q[j].val
  BY <1>1
<1>3. k # Len(q) \/ a \notin {"start", "lock", "lockWait", "getWait"}
  BY DEF ProcOK, CallsOK, UpdateDue, Blocking
<1>4. \A j \in 1..Len(q) : Mismatch(t[j]) <=> Mismatch(q[j])
  BY <1>2 DEF Mismatch
<1>5. CallsOK(p, t, a, P)
  <2>1. \A j \in 1..Len(t) : t[j].call.f = "accumulate" => t[j].val = {}
    BY <1>1, <1>2 DEF ProcOK, CallsOK
  <2>2. \A j \in 1..Len(t) : Blocking(t[j].call) /\ ~t[j].done => j = Len(t) /\ a # "idle"
    BY <1>1, <1>2 DEF ProcOK, CallsOK
  <2>3. CASE k # Len(q)
    BY <1>1, <1>2, <2>1, <2>2, <2>3 DEF ProcOK, CallsOK
  <2>4. CASE k = Len(q)
    BY <1>1, <1>2, <1>3, <2>1, <2>2, <2>4 DEF ProcOK, CallsOK
  <2> QED
    BY <2>3, <2>4
<1>6. ASSUME NEW j, UpdateDue(q, j, a), j # k PROVE UpdateDue(t, j, a)
  BY <1>1, <1>6 DEF UpdateDue
<1>7. UpdateComes(t, a, M, E)
  <2> SUFFICES ASSUME a \in {"unlock", "unlockWait"}, ~t[Len(t)].done
               PROVE  Len(t) \in E \/ \E x \in M : IsUpdate(x) /\ x.k = Len(t)
    BY DEF UpdateComes
  <2>1. Len(q) # k /\ Len(q) \in 1..Len(q)
    BY <1>1 DEF ProcOK, CallsOK
  <2>2. ~q[Len(q)].done
    BY <1>1, <2>1
  <2>3. Len(q) \in D \/ \E x \in L : IsUpdate(x) /\ x.k = Len(q)
    BY <2>2 DEF ProcOK, UpdateComes
  <2> QED
    BY <1>1, <2>1, <2>3
<1>8. ToHomeOK(p, t, a, M, E)
  <2> SUFFICES ASSUME NEW x \in M
               PROVE  /\ x.type = "GET" =>
                           /\ p # Home /\ x.k \in 1..Len(t) /\ Fresh(t[x.k])
                           /\ \/ t[x.k].call.f = "no_op" /\ ~(x.k = Len(t) /\ a = "start")
                              \/ x.k = Len(t) /\ a = "getWait"
                      /\ IsUpdate(x) => p # Home /\ UpdateDue(t, x.k, a) /\ x.k \notin E
                      /\ IsUpdate(x) => (x.type = "PUT" <=> t[x.k].call.f = "compare_and_swap")
                      /\ x.type = "LOCK" => a = "lockWait" /\ x = Msg("LOCK", 0)
                      /\ x.type = "UNLOCK" => a = "unlockWait" /\ x = Msg("UNLOCK", 0)
    BY DEF ToHomeOK
  <2>1. ASSUME x.type = "GET"
        PROVE  /\ p # Home /\ x.k \in 1..Len(t) /\ Fresh(t[x.k])
               /\ \/ t[x.k].call.f = "no_op" /\ ~(x.k = Len(t) /\ a = "start")
                  \/ x.k = Len(t) /\ a = "getWait"
    <3>1. /\ p # Home /\ x.k \in 1..Len(q) /\ Fresh(q[x.k])
          /\ \/ q[x.k].call.f = "no_op" /\ ~(x.k = Len(q) /\ a = "start")
             \/ x.k = Len(q) /\ a = "getWait"
      BY <2>1 DEF ProcOK, ToHomeOK
    <3>2. x.k # k
      BY <1>3, <3>1 DEF UpdateDue, Blocking
    <3> QED
      BY <1>1, <3>1, <3>2
  <2>2. IsUpdate(x) => p # Home /\ UpdateDue(t, x.k, a) /\ x.k \notin E
    BY <1>6 DEF ProcOK, ToHomeOK
  <2>3. IsUpdate(x) => (x.type = "PUT" <=> t[x.k].call.f = "compare_and_swap")
    BY <1>1, <1>2, <2>2 DEF ProcOK, ToHomeOK, UpdateDue
  <2> QED
    BY <2>1, <2>2, <2>3 DEF ProcOK, ToHomeOK
<1>9. FromHomeOK(p, t, a, M, B)
  <2> SUFFICES ASSUME NEW x \in B
               PROVE  /\ ~IsUpdate(x)
                      /\ x.type = "GET" => p # Home /\ x.k \in 1..Len(t) /\ t[x.k].val # {}
                      /\ x.type = "LOCK" => a = "lockWait" /\ M = {} /\ x = Msg("LOCK", 0)
                      /\ x.type = "UNLOCK" =>
                            a = "unlockWait" /\ M = {} /\ t[Len(t)].done /\ x = Msg("UNLOCK", 0)
    BY DEF FromHomeOK
  <2>1. x.type = "GET" => p # Home /\ x.k \in 1..Len(t) /\ t[x.k].val # {}
    BY <1>1, <1>2 DEF ProcOK, FromHomeOK
  <2>2. x.type = "LOCK" => a = "lockWait" /\ M = {} /\ x = Msg("LOCK", 0)
    BY DEF ProcOK, FromHomeOK
  <2>3. x.type = "UNLOCK" =>
            a = "unlockWait" /\ M = {} /\ t[Len(t)].done /\ x = Msg("UNLOCK", 0)
    <3>1. a = "unlockWait" => Len(q) \in 1..Len(q)
      BY DEF ProcOK, CallsOK
    <3> QED
      BY <1>1, <3>1 DEF ProcOK, FromHomeOK
  <2> QED
    BY <2>1, <2>2, <2>3 DEF ProcOK, FromHomeOK
<1>10. DataOK(p, t, a, E)
  BY <1>6 DEF ProcOK, DataOK
<1>11. WaitsOK(p, a, M, B, Q, W)
  BY DEF ProcOK, WaitsOK
<1> QED
  BY <1>5, <1>7, <1>8, <1>9, <1>10, <1>11 DEF ProcOK

(* The header of a large update arrives; its data will come. *)
LEMMA LargeProc ==
    ASSUME NEW p, NEW q, NEW a, NEW P, NEW L, NEW D, NEW B, NEW Q, NEW W,
           ProcOK(p, q, a, P, L, D, B, Q, W), NEW m \in L, IsUpdate(m),
           \A x \in L : IsUpdate(x) /\ x.k = m.k => x = m
    PROVE  ProcOK(p, q, a, P, L \ {m}, D \cup {m.k}, B, Q, W)
<1>1. p # Home /\ UpdateDue(q, m.k, a)
  BY DEF ProcOK, ToHomeOK
<1>2. UpdateComes(q, a, L \ {m}, D \cup {m.k})
  BY DEF ProcOK, UpdateComes
<1>3. ToHomeOK(p, q, a, L \ {m}, D \cup {m.k})
  BY DEF ProcOK, ToHomeOK
<1>4. FromHomeOK(p, q, a, L \ {m}, B)
  BY DEF ProcOK, FromHomeOK
<1>5. DataOK(p, q, a, D \cup {m.k}) /\ WaitsOK(p, a, L \ {m}, B, Q, W)
  BY <1>1 DEF ProcOK, DataOK, WaitsOK
<1> QED
  BY <1>2, <1>3, <1>4, <1>5 DEF ProcOK

(* The update of a call is on its connection once. *)
LEMMA OneUpdate ==
    ASSUME NEW p, NEW q, NEW a, NEW L, NEW D, L \subseteq Message, ToHomeOK(p, q, a, L, D),
           NEW x \in L, NEW y \in L, IsUpdate(x), IsUpdate(y), x.k = y.k
    PROVE  x = y
<1>1. x.type = y.type
  BY DEF ToHomeOK, IsUpdate
<1>2. x \in Message /\ y \in Message
  OBVIOUS
<1> QED
  BY <1>1, <1>2 DEF Message

(* A call that blocks and has fetched its value, but not taken effect, is the   *)
(* last one of a process that has the lock.                                     *)
LEMMA FetchedHolds ==
    ASSUME NEW p, NEW q, NEW a, NEW P, NEW L, NEW D, NEW B, NEW Q, NEW W,
           ProcOK(p, q, a, P, L, D, B, Q, W), a \in Place, NEW k \in 1..Len(q),
           Blocking(q[k].call), ~q[k].done, q[k].val # {}
    PROVE  k = Len(q) /\ HoldsAt(a, B)
<1>1. k = Len(q) /\ a # "idle"
  BY DEF ProcOK, CallsOK
<1>2. a \notin {"start", "lock", "lockWait"}
  BY <1>1 DEF ProcOK, CallsOK, Fresh
<1>3. Msg("UNLOCK", 0) \notin B
  <2>1. Msg("UNLOCK", 0).type = "UNLOCK"
    BY MsgFields
  <2> QED
    BY <1>1, <2>1 DEF ProcOK, FromHomeOK
<1> QED
  BY <1>1, <1>2, <1>3 DEF HoldsAt, Place

-----------------------------------------------------------------------------
(* What a step of one process makes of the invariant *)

(* The step leaves r alone, but perhaps for an answer from Home. *)
SameCalls(r) ==
    /\ op'[r] = op[r] /\ at'[r] = at[r] /\ pend'[r] = pend[r] /\ line'[r] = line[r]
    /\ data'[r] = data[r]
    /\ r \in cb' <=> r \in cb

Same(r) ==
    SameCalls(r) /\ back'[r] = back[r] /\ (r \in Elements(list') <=> r \in Elements(list))

(* The invariant of a process is about its own queue entry and callback only. *)
LEMMA ProcFrame ==
    ASSUME NEW p, NEW q, NEW a, NEW P, NEW L, NEW D, NEW B, NEW Q, NEW W,
           ProcOK(p, q, a, P, L, D, B, Q, W), NEW R, NEW V, p \in R <=> p \in Q, p \in V <=> p \in W
    PROVE  ProcOK(p, q, a, P, L, D, B, R, V)
BY DEF ProcOK, WaitsOK

(* What does not change of a process keeps its invariant. *)
LEMMA SameProc ==
    ASSUME NEW r, ProcInv(r), Same(r)
    PROVE  ProcInv(r)' /\ (Holder(r)' <=> Holder(r))
<1>1. ProcOK(r, op[r], at[r], pend[r], Elements(line[r]), data[r], Elements(back[r]),
             Elements(list'), cb')
  BY ProcFrame DEF ProcInv, Same, SameCalls
<1> QED
  BY <1>1 DEF ProcInv, Same, SameCalls, Holder

(* A step of p that neither takes nor gives the lock. *)
LEMMA OneProc ==
    ASSUME AtomicInv, TypeOK', NEW p \in Rank, \A r \in Rank : r # p => Same(r), ProcInv(p)',
           LineOK(line'[p]), Distinct(back'[p]), Distinct(list'),
           Holder(p)' <=> Holder(p), lock' = lock, lock \/ list' = list
    PROVE  AtomicInv'
<1>1. \A r \in Rank : ProcInv(r)' /\ (Holder(r)' <=> Holder(r))
  BY SameProc DEF AtomicInv
<1>2. ChannelInv'
  BY DEF AtomicInv, ChannelInv, Same, SameCalls
<1>3. LockInv'
  BY <1>1 DEF AtomicInv, LockInv
<1> QED
  BY <1>1, <1>2, <1>3 DEF AtomicInv

(* p gets the lock that nobody has. *)
LEMMA GrantTo ==
    ASSUME AtomicInv, TypeOK', NEW p \in Rank, \A r \in Rank : r # p => Same(r), ProcInv(p)',
           LineOK(line'[p]), Distinct(back'[p]), list' = list,
           ~lock, lock', Holder(p)'
    PROVE  AtomicInv'
<1>1. \A r \in Rank : ProcInv(r)' /\ (r # p => (Holder(r)' <=> Holder(r)))
  BY SameProc DEF AtomicInv
<1>2. ChannelInv'
  BY DEF AtomicInv, ChannelInv, Same, SameCalls
<1>3. LockInv'
  BY <1>1 DEF AtomicInv, LockInv
<1> QED
  BY <1>1, <1>2, <1>3 DEF AtomicInv

(* p gives the lock back, with b the answers under way, and the next of the     *)
(* list gets it: do_unlock_internal.                                            *)
LEMMA ReleaseFrom ==
    ASSUME AtomicInv, TypeOK', NEW p \in Rank, Holder(p),
           \A r \in Rank : r # p => SameCalls(r),
           NEW b \in [Rank -> Seq(Message)], \A r \in Rank : r # p => b[r] = back[r],
           Unlocked(b), p \notin Elements(list),
           LineOK(line'[p]), Distinct(b[p]), ~HoldsAt(at'[p], Elements(b[p])),
           ProcOK(p, op'[p], at'[p], pend'[p], Elements(line'[p]), data'[p], Elements(b[p]),
                  Elements(list), cb')
    PROVE  AtomicInv'
<1>1. list \in Seq(Rank) /\ Distinct(list) /\ lock /\ \A r \in Rank : Holder(r) => r = p
  BY DEF AtomicInv, LockInv, ChannelInv, TypeOK
<1>2. CASE list = <<>>
  <2>1. lock' = FALSE /\ back' = b /\ list' = list
    BY <1>2 DEF Unlocked
  <2>2. \A r \in Rank : r # p => Same(r)
    BY <2>1 DEF Same
  <2>3. ProcInv(p)' /\ ~Holder(p)' /\ Distinct(back'[p])
    BY <2>1 DEF ProcInv, Holder
  <2>4. \A r \in Rank : ProcInv(r)' /\ (r # p => (Holder(r)' <=> Holder(r)))
    BY <2>2, <2>3, SameProc DEF AtomicInv
  <2>5. ChannelInv'
    BY <2>1, <2>2, <2>3 DEF AtomicInv, ChannelInv, Same, SameCalls
  <2>6. LockInv'
    BY <1>1, <1>2, <2>1, <2>3, <2>4 DEF LockInv
  <2> QED
    BY <2>4, <2>5, <2>6 DEF AtomicInv
<1>3. CASE list # <<>>
  <2>1. PICK h : h = Head(list)
    OBVIOUS
  <2>2. /\ h \in Rank /\ h \in Elements(list) /\ h # p /\ Distinct(Tail(list))
        /\ Elements(Tail(list)) = Elements(list) \ {h}
    BY <1>1, <1>3, <2>1, TailElements
  <2>3. PICK m : m = Msg("LOCK", 0)
    OBVIOUS
  <2>4. m \in Message
    BY <2>3, MsgType
  <2>5. /\ lock' = TRUE /\ list' = Tail(list)
        /\ back' = [b EXCEPT ![h] = Append(b[h], m)]
    BY <1>3, <2>1, <2>3 DEF Unlocked, Answer
  <2>6. /\ back'[p] = b[p] /\ back'[h] = Append(back[h], m)
        /\ \A r \in Rank : r # p /\ r # h => back'[r] = back[r]
    BY <2>2, <2>5
  <2>7. back[h] \in Seq(Message) /\ Distinct(back[h]) /\ ProcInv(h)
    BY <2>2 DEF AtomicInv, TypeOK, ChannelInv
  <2>8. Elements(back'[h]) = Elements(back[h]) \cup {m}
    BY <2>4, <2>6, <2>7, AppendElements
  <2>9. /\ ProcOK(h, op[h], at[h], pend[h], Elements(line[h]), data[h],
                  Elements(back[h]) \cup {m}, Elements(list'), cb')
        /\ m \notin Elements(back[h])
    <3>1. h \notin Elements(list') /\ (h \in cb' <=> h \in cb)
      BY <2>2, <2>5 DEF SameCalls
    <3> QED
      BY <2>2, <2>3, <2>7, <3>1, WokenProc DEF ProcInv
  <2>10. ProcInv(h)' /\ Holder(h)' /\ Distinct(back'[h])
    <3>1. SameCalls(h)
      BY <2>2
    <3>2. ProcInv(h)'
      BY <2>8, <2>9, <3>1 DEF ProcInv, SameCalls
    <3>3. Holder(h)'
      BY <2>3, <2>8 DEF Holder, HoldsAt
    <3>4. Distinct(back'[h])
      BY <2>4, <2>6, <2>7, <2>9, AppendElements
    <3> QED
      BY <3>2, <3>3, <3>4
  <2>11. ProcInv(p)' /\ ~Holder(p)' /\ Distinct(back'[p])
    <3>1. p \in Elements(list') <=> p \in Elements(list)
      BY <2>2, <2>5
    <3>2. ProcOK(p, op'[p], at'[p], pend'[p], Elements(line'[p]), data'[p], Elements(b[p]),
                 Elements(list'), cb')
      BY <3>1, ProcFrame
    <3> QED
      BY <2>6, <3>2 DEF ProcInv, Holder
  <2>12. ASSUME NEW r \in Rank, r # p, r # h PROVE Same(r)
    <3>1. r \in Elements(list') <=> r \in Elements(list)
      BY <2>2, <2>5, <2>12
    <3> QED
      BY <2>6, <2>12, <3>1 DEF Same
  <2>13. \A r \in Rank : ProcInv(r)' /\ (r # p /\ r # h => (Holder(r)' <=> Holder(r)))
    BY <2>10, <2>11, <2>12, SameProc DEF AtomicInv
  <2>14. ChannelInv'
    <3>1. \A r \in Rank : r # p => line'[r] = line[r]
      BY DEF SameCalls
    <3> QED
      BY <2>2, <2>5, <2>6, <2>10, <2>11, <3>1 DEF AtomicInv, ChannelInv
  <2>15. LockInv'
    BY <1>1, <2>2, <2>5, <2>10, <2>11, <2>13 DEF LockInv
  <2> QED
    BY <2>13, <2>14, <2>15 DEF AtomicInv
<1> QED
  BY <1>2, <1>3

-----------------------------------------------------------------------------
(* The steps *)

(* What the invariant says of one process. *)
LEMMA ProcFacts ==
    ASSUME AtomicInv, NEW p \in Rank
    PROVE  /\ op[p] \in Seq(Record) /\ Len(op[p]) \in Nat /\ at[p] \in Place
           /\ line[p] \in Seq(Message) /\ LineOK(line[p])
           /\ back[p] \in Seq(Message) /\ Distinct(back[p])
           /\ pend[p] \subseteq Nat /\ data[p] \subseteq Nat /\ Distinct(list)
           /\ ProcOK(p, op[p], at[p], pend[p], Elements(line[p]), data[p], Elements(back[p]),
                     Elements(list), cb)
<1>1. TypeOK /\ ChannelInv /\ ProcInv(p)
  BY DEF AtomicInv
<1> QED
  BY <1>1 DEF TypeOK, ChannelInv, ProcInv

(* What Post does. *)
LEMMA PostFacts ==
    ASSUME line \in [Rank -> Seq(Message)], NEW p \in Rank, NEW t, NEW k, NEW m \in Message,
           m = Msg(t, k), Post(p, t, k)
    PROVE  /\ line' \in [Rank -> Seq(Message)] /\ line'[p] = Append(line[p], m)
           /\ Elements(line'[p]) = Elements(line[p]) \cup {m}
           /\ \A r \in Rank : r # p => line'[r] = line[r]
<1>1. line' = [line EXCEPT ![p] = Append(line[p], m)]
  BY DEF Post
<1>2. Append(line[p], m) \in Seq(Message)
      /\ Elements(Append(line[p], m)) = Elements(line[p]) \cup {m}
  BY AppendElements
<1> QED
  BY <1>1, <1>2

(* What TakeHeader does. *)
LEMMA HeaderFacts ==
    ASSUME line \in [Rank -> Seq(Message)], NEW p \in Rank, line[p] # <<>>, LineOK(line[p]),
           TakeHeader(p)
    PROVE  /\ line' \in [Rank -> Seq(Message)] /\ LineOK(line'[p])
           /\ Head(line[p]) \in Elements(line[p]) /\ Head(line[p]) \in Message
           /\ Elements(line'[p]) = Elements(line[p]) \ {Head(line[p])}
           /\ Head(line[p]).type \in {"LOCK", "UNLOCK"} => Elements(line'[p]) = {}
           /\ \A r \in Rank : r # p => line'[r] = line[r]
<1>1. line' = [line EXCEPT ![p] = Tail(line[p])]
  BY DEF TakeHeader
<1>2. line[p] \in Seq(Message) /\ Distinct(line[p])
  BY DEF LineOK
<1>3. /\ Tail(line[p]) \in Seq(Message) /\ LineOK(Tail(line[p]))
      /\ Head(line[p]) \in Elements(line[p]) /\ Head(line[p]) \in Message
      /\ Elements(Tail(line[p])) = Elements(line[p]) \ {Head(line[p])}
  BY <1>2, TailElements, LineTake
<1>4. Head(line[p]).type \in {"LOCK", "UNLOCK"} => Elements(Tail(line[p])) = {}
  BY <1>2, LastRequest
<1>5. line'[p] = Tail(line[p]) /\ \A r \in Rank : r # p => line'[r] = line[r]
  BY <1>1
<1>6. line' \in [Rank -> Seq(Message)]
  BY <1>1, <1>3
<1> QED
  BY <1>3, <1>4, <1>5, <1>6

(* What taking an answer from Home does. *)
LEMMA TakeFacts ==
    ASSUME back \in [Rank -> Seq(Message)], NEW p \in Rank, back[p] # <<>>, Distinct(back[p]),
           NEW b, b = [back EXCEPT ![p] = Tail(@)]
    PROVE  /\ b \in [Rank -> Seq(Message)] /\ Distinct(b[p])
           /\ Head(back[p]) \in Elements(back[p]) /\ Head(back[p]) \in Message
           /\ Elements(b[p]) = Elements(back[p]) \ {Head(back[p])}
           /\ \A r \in Rank : r # p => b[r] = back[r]
<1>1. back[p] \in Seq(Message)
  OBVIOUS
<1>2. /\ Tail(back[p]) \in Seq(Message) /\ Distinct(Tail(back[p]))
      /\ Head(back[p]) \in Elements(back[p]) /\ Head(back[p]) \in Message
      /\ Elements(Tail(back[p])) = Elements(back[p]) \ {Head(back[p])}
  BY <1>1, TailElements
<1>3. b[p] = Tail(back[p]) /\ \A r \in Rank : r # p => b[r] = back[r]
  OBVIOUS
<1>4. b \in [Rank -> Seq(Message)]
  BY <1>2
<1> QED
  BY <1>2, <1>3, <1>4

(* What sending an answer from Home does. *)
LEMMA AnswerFacts ==
    ASSUME back \in [Rank -> Seq(Message)], NEW p \in Rank, NEW t, NEW k, NEW m \in Message,
           m = Msg(t, k), m \notin Elements(back[p]), Distinct(back[p]),
           NEW b, b = Answer(back, p, t, k)
    PROVE  /\ b \in [Rank -> Seq(Message)] /\ Distinct(b[p])
           /\ Elements(b[p]) = Elements(back[p]) \cup {m}
           /\ \A r \in Rank : r # p => b[r] = back[r]
<1>1. b = [back EXCEPT ![p] = Append(back[p], m)]
  BY DEF Answer
<1>2. back[p] \in Seq(Message)
  OBVIOUS
<1>3. PICK s : s = Append(back[p], m)
  OBVIOUS
<1>4. s \in Seq(Message) /\ Distinct(s) /\ Elements(s) = Elements(back[p]) \cup {m}
  BY <1>2, <1>3, AppendElements
<1>5. b = [back EXCEPT ![p] = s]
  BY <1>1, <1>3
<1>6. b[p] = s /\ b \in [Rank -> Seq(Message)] /\ \A r \in Rank : r # p => b[r] = back[r]
  BY <1>4, <1>5
<1> QED
  BY <1>4, <1>6

(* Enter preserves the invariant. *)
LEMMA EnterStep ==
    ASSUME AtomicInv, NEW p \in Rank, NEW c \in Calls, Enter(p, c)
    PROVE  AtomicInv'
<1>1. PICK r : r = [call |-> c, val |-> {}, done |-> FALSE]
  OBVIOUS
<1>2. r \in Record /\ r.call = c /\ Fresh(r)
  BY <1>1 DEF Record, Fresh
<1>3. PICK a : a = IF Blocking(c) THEN "lock" ELSE "start"
  OBVIOUS
<1>4. /\ at[p] = "idle" /\ op' = [op EXCEPT ![p] = Append(op[p], r)] /\ at' = [at EXCEPT ![p] = a]
      /\ Len(op[p]) < MaxCalls[p]
      /\ UNCHANGED <<mem, pend, line, data, gets, back, lock, list, cb>>
  BY <1>1, <1>3 DEF Enter, Runs
<1>5. TypeOK
  BY DEF AtomicInv
<1>6. /\ op[p] \in Seq(Record) /\ LineOK(line[p]) /\ Distinct(back[p]) /\ Distinct(list)
      /\ ProcOK(p, op[p], "idle", pend[p], Elements(line[p]), data[p], Elements(back[p]),
                Elements(list), cb)
  BY <1>4, ProcFacts
<1>7. /\ op' \in [Rank -> Seq(Record)] /\ op'[p] = Append(op[p], r)
      /\ \A s \in Rank : s # p => op'[s] = op[s]
  BY <1>2, <1>4, <1>5, <1>6 DEF TypeOK
<1>8. a \in {"lock", "start"} /\ at'[p] = a /\ at' \in [Rank -> Place]
      /\ \A s \in Rank : s # p => at'[s] = at[s]
  BY <1>3, <1>4, <1>5 DEF TypeOK, Place
<1>9. Len(op'[p]) <= MaxCalls[p]
  <2>1. Len(op'[p]) = Len(op[p]) + 1 /\ Len(op[p]) \in Nat /\ MaxCalls[p] \in Nat
    BY <1>6, <1>7, BoundAssumption
  <2> QED
    BY <1>4, <2>1
<1>10. TypeOK'
  BY <1>4, <1>5, <1>7, <1>8, <1>9 DEF TypeOK
<1>11. ProcOK(p, op'[p], at'[p], pend[p], Elements(line[p]), data[p], Elements(back[p]),
              Elements(list), cb)
  BY <1>2, <1>3, <1>6, <1>7, <1>8, EnterProc
<1>12. ProcInv(p)'
  BY <1>4, <1>11 DEF ProcInv
<1>13. \A s \in Rank : s # p => Same(s)
  BY <1>4, <1>7, <1>8 DEF Same, SameCalls
<1>14. Holder(p)' <=> Holder(p)
  BY <1>4, <1>8 DEF Holder, HoldsAt
<1> QED
  BY <1>4, <1>6, <1>10, <1>12, <1>13, <1>14, OneProc

(* What a call fetches from the memory M. *)
Found(c, M) == IF Fetching(c) THEN {M[c.loc]} ELSE {}

(* The step notes that call k of p, a call c, has taken effect. *)
NotesEffect(p, k, c) ==
    \E r \in Record : /\ Edited(op[p], op'[p], k, r)
                      /\ r.call = c /\ r.done /\ r.val = Found(c, mem)

(* The call of Home takes effect in place: what happens to its calls. *)
LEMMA InPlaceFacts ==
    ASSUME AtomicInv, InPlace, at[Home] \in {"start", "lock", "lockWait"},
           NEW k, k = Len(op[Home]), NEW c, c = op[Home][k].call
    PROVE  /\ k \in 1..Len(op[Home]) /\ Fresh(op[Home][k]) /\ c \in Calls
           /\ op' \in [Rank -> Seq(Record)] /\ \A s \in Rank : s # Home => op'[s] = op[s]
           /\ NotesEffect(Home, k, c)
           /\ mem' = [mem EXCEPT ![c.loc] = Update(c, mem[c.loc])] /\ mem' \in [Loc -> Value]
           /\ at' = [at EXCEPT ![Home] = "idle"] /\ at' \in [Rank -> Place]
<1>1. Home \in Rank /\ TypeOK
  BY RankAssumption DEF AtomicInv
<1>2. /\ op[Home] \in Seq(Record)
      /\ ProcOK(Home, op[Home], at[Home], pend[Home], Elements(line[Home]), data[Home],
                Elements(back[Home]), Elements(list), cb)
  BY <1>1, ProcFacts
<1>3. k \in 1..Len(op[Home]) /\ Fresh(op[Home][k])
  BY <1>2 DEF ProcOK, CallsOK
<1>4. op[Home][k] \in Record /\ c \in Calls /\ c.loc \in Loc
  BY <1>2, <1>3, RecordFields
<1>5. mem \in [Loc -> Value] /\ mem[c.loc] \in Value /\ Update(c, mem[c.loc]) \in Value
  BY <1>1, <1>4, UpdateType DEF TypeOK
<1>6. PICK v : v = Found(c, mem)
  OBVIOUS
<1>7. PICK r : r = Effected(op[Home][k], v)
  OBVIOUS
<1>8. r \in Record /\ r.call = c /\ r.val = v /\ r.done
  <2>1. v \in SUBSET Value
    BY <1>5, <1>6 DEF Found
  <2> QED
    BY <1>4, <1>7, <2>1, DoneFacts
<1>9. Current(Home) = c /\ Last(Home) = k
  BY DEF Current, Last
<1>10. op' = [op EXCEPT ![Home] = [op[Home] EXCEPT ![k] = r]]
  BY <1>6, <1>7, <1>9 DEF InPlace, Effected, Found
<1>11. /\ op' \in [Rank -> Seq(Record)] /\ Edited(op[Home], op'[Home], k, r)
       /\ \A s \in Rank : s # Home => op'[s] = op[s]
  BY <1>1, <1>3, <1>8, <1>10, EditOp DEF TypeOK
<1>12. mem' = [mem EXCEPT ![c.loc] = Update(c, mem[c.loc])] /\ mem' \in [Loc -> Value]
  BY <1>5, <1>9 DEF InPlace
<1>13. at' = [at EXCEPT ![Home] = "idle"] /\ at' \in [Rank -> Place]
  BY <1>1 DEF InPlace, TypeOK, Place
<1>14. NotesEffect(Home, k, c)
  BY <1>6, <1>8, <1>11 DEF NotesEffect
<1> QED
  BY <1>3, <1>4, <1>11, <1>12, <1>13, <1>14

(* do_unlock_internal keeps the types. *)
LEMMA UnlockedType ==
    ASSUME TypeOK, NEW b \in [Rank -> Seq(Message)], Unlocked(b)
    PROVE  back' \in [Rank -> Seq(Message)] /\ lock' \in BOOLEAN /\ list' \in Seq(Rank)
<1>1. list \in Seq(Rank)
  BY DEF TypeOK
<1>2. CASE list = <<>>
  BY <1>1, <1>2 DEF Unlocked
<1>3. CASE list # <<>>
  <2>1. PICK m : m = Msg("LOCK", 0) /\ m \in Message
    BY MsgType
  <2>2. Head(list) \in Rank /\ Tail(list) \in Seq(Rank)
    BY <1>1, <1>3
  <2>3. lock' = TRUE /\ list' = Tail(list) /\ back' = [b EXCEPT ![Head(list)] = Append(b[Head(list)], m)]
    BY <1>3, <2>1 DEF Unlocked, Answer
  <2>4. Append(b[Head(list)], m) \in Seq(Message)
    BY <2>1, <2>2
  <2> QED
    BY <2>2, <2>3, <2>4
<1> QED
  BY <1>2, <1>3

(* A call of Home in place, with the answers b under way afterwards. *)
LEMMA InPlaceStep ==
    ASSUME AtomicInv, InPlace, at[Home] \in {"start", "lock", "lockWait"},
           UNCHANGED <<pend, line, data, gets, cb>>, NEW A,
           \A m \in A : m \in Elements(back[Home]) /\ m.type # "LOCK",
           at[Home] = "lockWait" => Elements(line[Home]) = {} /\ Home \notin Elements(list)
    PROVE  /\ ProcOK(Home, op'[Home], "idle", pend'[Home], Elements(line'[Home]), data'[Home], A,
                     Elements(list), cb')
           /\ at'[Home] = "idle" /\ \A s \in Rank : s # Home => SameCalls(s)
           /\ LineOK(line'[Home]) /\ ~HoldsAt("idle", A)
           /\ Len(op'[Home]) = Len(op[Home])
<1>1. PICK k : k = Len(op[Home])
  OBVIOUS
<1>2. PICK c : c = op[Home][k].call
  OBVIOUS
<1>3. /\ op' \in [Rank -> Seq(Record)] /\ \A s \in Rank : s # Home => op'[s] = op[s]
      /\ NotesEffect(Home, k, c) /\ at' = [at EXCEPT ![Home] = "idle"]
  BY <1>1, <1>2, InPlaceFacts
<1>4. PICK r \in Record : /\ Edited(op[Home], op'[Home], k, r)
                          /\ r.call = c /\ r.done /\ r.val = Found(c, mem)
  BY <1>3 DEF NotesEffect
<1>5. Home \in Rank /\ at \in [Rank -> Place]
  BY RankAssumption DEF AtomicInv, TypeOK
<1>6. /\ op[Home] \in Seq(Record) /\ LineOK(line[Home])
      /\ ProcOK(Home, op[Home], at[Home], pend[Home], Elements(line[Home]), data[Home],
                Elements(back[Home]), Elements(list), cb)
  BY <1>5, ProcFacts
<1>7. r.call.f = "accumulate" => r.val = {}
  BY <1>4 DEF Fetching, Found
<1>8. ProcOK(Home, op'[Home], "idle", pend[Home], Elements(line[Home]), data[Home], A,
             Elements(list), cb)
  BY <1>1, <1>2, <1>4, <1>6, <1>7, InPlaceProc
<1>9. at'[Home] = "idle" /\ \A s \in Rank : s # Home => at'[s] = at[s]
  BY <1>3, <1>5
<1>10. \A s \in Rank : s # Home => SameCalls(s)
  BY <1>3, <1>9 DEF SameCalls
<1>11. ~HoldsAt("idle", A)
  <2>1. Msg("LOCK", 0).type = "LOCK"
    BY MsgFields
  <2> QED
    BY <2>1 DEF HoldsAt
<1> QED
  BY <1>4, <1>6, <1>8, <1>9, <1>10, <1>11 DEF Edited

(* The state is well-typed after a call of Home in place. *)
LEMMA InPlaceType ==
    ASSUME AtomicInv, InPlace, at[Home] \in {"start", "lock", "lockWait"},
           UNCHANGED <<pend, line, data, gets, cb>>, Len(op'[Home]) = Len(op[Home]),
           back' \in [Rank -> Seq(Message)], lock' \in BOOLEAN, list' \in Seq(Rank)
    PROVE  TypeOK'
<1>1. /\ op' \in [Rank -> Seq(Record)] /\ \A s \in Rank : s # Home => op'[s] = op[s]
      /\ mem' \in [Loc -> Value] /\ at' \in [Rank -> Place]
  BY InPlaceFacts
<1> QED
  BY <1>1 DEF AtomicInv, TypeOK

(* HomeStart and HomeLock preserve the invariant. *)
LEMMA HomeStep ==
    ASSUME AtomicInv, HomeStart \/ HomeLock
    PROVE  AtomicInv'
<1>1. Home \in Rank /\ TypeOK
  BY RankAssumption DEF AtomicInv
<1>2. /\ op[Home] \in Seq(Record) /\ line[Home] \in Seq(Message) /\ LineOK(line[Home])
      /\ Distinct(back[Home]) /\ Distinct(list)
      /\ ProcOK(Home, op[Home], at[Home], pend[Home], Elements(line[Home]), data[Home],
                Elements(back[Home]), Elements(list), cb)
  BY <1>1, ProcFacts
<1>3. CASE InPlace /\ at[Home] \in {"start", "lock"}
           /\ UNCHANGED <<pend, line, data, gets, back, lock, list, cb>>
  <2>1. \A m \in Elements(back[Home]) : m.type # "LOCK"
    BY <1>2, <1>3 DEF ProcOK, FromHomeOK
  <2>2. /\ ProcOK(Home, op'[Home], "idle", pend'[Home], Elements(line'[Home]), data'[Home],
                  Elements(back[Home]), Elements(list), cb')
        /\ at'[Home] = "idle" /\ \A s \in Rank : s # Home => SameCalls(s)
        /\ LineOK(line'[Home]) /\ ~HoldsAt("idle", Elements(back[Home]))
        /\ Len(op'[Home]) = Len(op[Home])
    BY <1>3, <2>1, InPlaceStep
  <2>3. TypeOK'
    BY <1>1, <1>3, <2>2, InPlaceType DEF TypeOK
  <2>4. ProcInv(Home)' /\ \A s \in Rank : s # Home => Same(s)
    BY <1>3, <2>2 DEF ProcInv, Same
  <2>5. ~Holder(Home)' /\ ~Holder(Home)
    BY <1>3, <2>2 DEF Holder, HoldsAt
  <2> QED
    BY <1>1, <1>2, <1>3, <2>2, <2>3, <2>4, <2>5, OneProc
<1>4. CASE /\ at[Home] = "lock" /\ lock /\ Post(Home, "LOCK", 0)
           /\ at' = [at EXCEPT ![Home] = "lockWait"]
           /\ UNCHANGED <<mem, op, back, lock, list, pend, data, gets, cb>>
  <2>1. PICK m : m = Msg("LOCK", 0) /\ m \in Message
    BY MsgType
  <2>2. /\ line' \in [Rank -> Seq(Message)] /\ line'[Home] = Append(line[Home], m)
        /\ Elements(line'[Home]) = Elements(line[Home]) \cup {m}
        /\ \A r \in Rank : r # Home => line'[r] = line[r]
    BY <1>1, <1>4, <2>1, PostFacts DEF TypeOK
  <2>3. /\ ProcOK(Home, op[Home], "lockWait", pend[Home], Elements(line[Home]) \cup {m}, data[Home],
                  Elements(back[Home]), Elements(list), cb)
        /\ m \notin Elements(line[Home])
        /\ \A x \in Elements(line[Home]) : x.type \notin {"LOCK", "UNLOCK"}
    <3>1. ProcOK(Home, op[Home], "lock", pend[Home], Elements(line[Home]), data[Home],
                 Elements(back[Home]), Elements(list), cb)
      BY <1>2, <1>4
    <3> QED
      BY <1>2, <2>1, <3>1, LockProc
  <2>4. LineOK(line'[Home])
    BY <1>2, <2>1, <2>2, <2>3, LinePost
  <2>5. at' \in [Rank -> Place] /\ at'[Home] = "lockWait" /\ \A s \in Rank : s # Home => at'[s] = at[s]
    BY <1>1, <1>4 DEF TypeOK, Place
  <2>6. TypeOK'
    BY <1>1, <1>4, <2>2, <2>5 DEF TypeOK
  <2>7. ProcInv(Home)' /\ \A s \in Rank : s # Home => Same(s)
    BY <1>4, <2>2, <2>3, <2>5 DEF ProcInv, Same, SameCalls
  <2>8. Holder(Home)' <=> Holder(Home)
    BY <1>4, <2>5 DEF Holder, HoldsAt
  <2> QED
    BY <1>1, <1>2, <1>4, <2>4, <2>6, <2>7, <2>8, OneProc
<1> QED
  BY <1>3, <1>4 DEF HomeStart, HomeLock, Runs

(* HomeLocked preserves the invariant. *)
LEMMA HomeLockedStep ==
    ASSUME AtomicInv, HomeLocked
    PROVE  AtomicInv'
<1>1. Home \in Rank /\ TypeOK
  BY RankAssumption DEF AtomicInv
<1>2. /\ Distinct(back[Home])
      /\ ProcOK(Home, op[Home], at[Home], pend[Home], Elements(line[Home]), data[Home],
                Elements(back[Home]), Elements(list), cb)
  BY <1>1, ProcFacts
<1>3. PICK b : b = [back EXCEPT ![Home] = Tail(@)]
  OBVIOUS
<1>4. /\ at[Home] = "lockWait" /\ back[Home] # <<>> /\ InPlace /\ Unlocked(b)
      /\ UNCHANGED <<pend, line, data, gets, cb>>
  BY <1>3 DEF HomeLocked, Runs
<1>5. PICK h : h = Head(back[Home])
  OBVIOUS
<1>6. /\ b \in [Rank -> Seq(Message)] /\ Distinct(b[Home])
      /\ h \in Elements(back[Home]) /\ h \in Message
      /\ Elements(b[Home]) = Elements(back[Home]) \ {h}
      /\ \A r \in Rank : r # Home => b[r] = back[r]
  BY <1>1, <1>2, <1>3, <1>4, <1>5, TakeFacts DEF TypeOK
<1>7. \A m \in Elements(back[Home]) : m.type \in {"LOCK", "GET", "ACCUMULATE", "PUT", "UNLOCK"}
  <2>1. Elements(back[Home]) \subseteq Message
    BY <1>1, ElementsType DEF TypeOK
  <2> QED
    BY <2>1 DEF Message
<1>8. \A m \in Elements(back[Home]) : m.type = "LOCK" /\ m = Msg("LOCK", 0) /\ Elements(line[Home]) = {}
  BY <1>2, <1>4, <1>7 DEF ProcOK, FromHomeOK, IsUpdate
<1>9. Home \notin Elements(list) /\ Elements(line[Home]) = {} /\ Holder(Home)
  BY <1>2, <1>6, <1>8 DEF ProcOK, WaitsOK, Holder, HoldsAt
<1>10. \A m \in Elements(b[Home]) : m \in Elements(back[Home]) /\ m.type # "LOCK"
  BY <1>6, <1>8
<1>11. /\ ProcOK(Home, op'[Home], "idle", pend'[Home], Elements(line'[Home]), data'[Home],
                 Elements(b[Home]), Elements(list), cb')
       /\ at'[Home] = "idle" /\ \A s \in Rank : s # Home => SameCalls(s)
       /\ LineOK(line'[Home]) /\ ~HoldsAt("idle", Elements(b[Home]))
       /\ Len(op'[Home]) = Len(op[Home])
  BY <1>4, <1>9, <1>10, InPlaceStep
<1>12. back' \in [Rank -> Seq(Message)] /\ lock' \in BOOLEAN /\ list' \in Seq(Rank)
  BY <1>1, <1>4, <1>6, UnlockedType
<1>13. TypeOK'
  BY <1>4, <1>11, <1>12, InPlaceType
<1> QED
  BY <1>1, <1>4, <1>6, <1>9, <1>11, <1>13, ReleaseFrom

(* A step of p changes its own place, incomplete calls and answers only. *)
OwnStep(p) ==
    /\ UNCHANGED <<mem, op, data, gets, lock, list, cb>>
    /\ at' \in [Rank -> Place] /\ \A r \in Rank : r # p => at'[r] = at[r]
    /\ pend' \in [Rank -> SUBSET Nat] /\ \A r \in Rank : r # p => pend'[r] = pend[r]
    /\ back' \in [Rank -> Seq(Message)] /\ \A r \in Rank : r # p => back'[r] = back[r]
    /\ Distinct(back'[p])

(* A step of p that posts a header m. *)
LEMMA PostStep ==
    ASSUME AtomicInv, NEW p \in Rank, OwnStep(p), NEW t, NEW k, NEW m \in Message, m = Msg(t, k),
           Post(p, t, k), m \notin Elements(line[p]),
           \A x \in Elements(line[p]) : x.type \notin {"LOCK", "UNLOCK"},
           ProcOK(p, op[p], at'[p], pend'[p], Elements(line[p]) \cup {m}, data[p],
                  Elements(back'[p]), Elements(list), cb),
           HoldsAt(at'[p], Elements(back'[p])) <=> Holder(p)
    PROVE  AtomicInv'
<1>1. TypeOK /\ line[p] \in Seq(Message) /\ LineOK(line[p]) /\ Distinct(list)
  BY ProcFacts DEF AtomicInv
<1>2. /\ line' \in [Rank -> Seq(Message)] /\ line'[p] = Append(line[p], m)
      /\ Elements(line'[p]) = Elements(line[p]) \cup {m}
      /\ \A r \in Rank : r # p => line'[r] = line[r]
  BY <1>1, PostFacts DEF TypeOK
<1>3. LineOK(line'[p])
  BY <1>1, <1>2, LinePost
<1>4. TypeOK'
  BY <1>1, <1>2 DEF TypeOK, OwnStep
<1>5. ProcInv(p)' /\ (Holder(p)' <=> Holder(p)) /\ \A r \in Rank : r # p => Same(r)
  BY <1>2 DEF ProcInv, OwnStep, Same, SameCalls, Holder
<1> QED
  BY <1>1, <1>3, <1>4, <1>5, OneProc DEF OwnStep

(* A step of p that posts nothing. *)
LEMMA QuietStep ==
    ASSUME AtomicInv, NEW p \in Rank, OwnStep(p), line' = line,
           ProcOK(p, op[p], at'[p], pend'[p], Elements(line[p]), data[p],
                  Elements(back'[p]), Elements(list), cb),
           HoldsAt(at'[p], Elements(back'[p])) <=> Holder(p)
    PROVE  AtomicInv'
<1>1. TypeOK /\ line[p] \in Seq(Message) /\ LineOK(line[p]) /\ Distinct(list)
  BY ProcFacts DEF AtomicInv
<1>2. TypeOK'
  BY <1>1 DEF TypeOK, OwnStep
<1>3. ProcInv(p)' /\ (Holder(p)' <=> Holder(p)) /\ \A r \in Rank : r # p => Same(r)
  BY DEF ProcInv, OwnStep, Same, SameCalls, Holder
<1> QED
  BY <1>1, <1>2, <1>3, OneProc DEF OwnStep

(* Start preserves the invariant. *)
LEMMA StartStep ==
    ASSUME AtomicInv, NEW p \in Rank, Start(p)
    PROVE  AtomicInv'
<1>1. TypeOK
  BY DEF AtomicInv
<1>2. PICK n : n = Len(op[p])
  OBVIOUS
<1>3. PICK c : c = op[p][n].call
  OBVIOUS
<1>4. PICK t : t = IF c.f = "no_op" THEN "GET" ELSE "ACCUMULATE"
  OBVIOUS
<1>5. /\ p # Home /\ at[p] = "start" /\ Post(p, t, n)
      /\ pend' = [pend EXCEPT ![p] = @ \cup {n}] /\ at' = [at EXCEPT ![p] = "idle"]
      /\ UNCHANGED <<mem, op, data, gets, back, lock, list, cb>>
  BY <1>2, <1>3, <1>4 DEF Start, Current, Last, Origin
<1>6. /\ op[p] \in Seq(Record) /\ n \in Nat /\ Distinct(back[p])
      /\ ProcOK(p, op[p], "start", pend[p], Elements(line[p]), data[p], Elements(back[p]),
                Elements(list), cb)
  BY <1>2, <1>5, ProcFacts
<1>7. c.f \in {"no_op", "accumulate"}
  <2>1. n \in 1..Len(op[p]) /\ ~Blocking(c)
    BY <1>2, <1>3, <1>6 DEF ProcOK, CallsOK
  <2>2. op[p][n] \in Record
    BY <1>6, <2>1
  <2> QED
    BY <1>3, <2>1, <2>2, RecordFields DEF Blocking
<1>8. PICK m : m = Msg(t, n)
  OBVIOUS
<1>9. m \in Message /\ m.k = n /\ m.type = t
  BY <1>4, <1>6, <1>8, MsgType, MsgFields
<1>10. /\ ProcOK(p, op[p], "idle", pend[p] \cup {n}, Elements(line[p]) \cup {m}, data[p],
                 Elements(back[p]), Elements(list), cb)
       /\ m \notin Elements(line[p])
       /\ \A x \in Elements(line[p]) : x.type \notin {"LOCK", "UNLOCK"}
  BY <1>2, <1>3, <1>4, <1>5, <1>6, <1>7, <1>9, StartProc
<1>11. OwnStep(p) /\ at'[p] = "idle" /\ pend'[p] = pend[p] \cup {n} /\ back'[p] = back[p]
  BY <1>1, <1>5, <1>6 DEF OwnStep, TypeOK, Place
<1>12. HoldsAt(at'[p], Elements(back'[p])) <=> Holder(p)
  BY <1>5, <1>11 DEF Holder, HoldsAt
<1> QED
  BY <1>5, <1>8, <1>9, <1>10, <1>11, <1>12, PostStep

(* LockInternal preserves the invariant. *)
LEMMA LockInternalStep ==
    ASSUME AtomicInv, NEW p \in Rank, LockInternal(p)
    PROVE  AtomicInv'
<1>1. TypeOK
  BY DEF AtomicInv
<1>2. /\ at[p] = "lock" /\ Post(p, "LOCK", 0) /\ at' = [at EXCEPT ![p] = "lockWait"]
      /\ UNCHANGED <<mem, op, pend, data, gets, back, lock, list, cb>>
  BY DEF LockInternal
<1>3. /\ op[p] \in Seq(Record) /\ Distinct(back[p])
      /\ ProcOK(p, op[p], "lock", pend[p], Elements(line[p]), data[p], Elements(back[p]),
                Elements(list), cb)
  BY <1>2, ProcFacts
<1>4. PICK m : m = Msg("LOCK", 0) /\ m \in Message
  BY MsgType
<1>5. /\ ProcOK(p, op[p], "lockWait", pend[p], Elements(line[p]) \cup {m}, data[p],
                Elements(back[p]), Elements(list), cb)
      /\ m \notin Elements(line[p])
      /\ \A x \in Elements(line[p]) : x.type \notin {"LOCK", "UNLOCK"}
  BY <1>3, <1>4, LockProc
<1>6. OwnStep(p) /\ at'[p] = "lockWait" /\ pend'[p] = pend[p] /\ back'[p] = back[p]
  BY <1>1, <1>2, <1>3 DEF OwnStep, TypeOK, Place
<1>7. HoldsAt(at'[p], Elements(back'[p])) <=> Holder(p)
  BY <1>2, <1>6 DEF Holder, HoldsAt
<1> QED
  BY <1>2, <1>4, <1>5, <1>6, <1>7, PostStep

(* Locked preserves the invariant. *)
LEMMA LockedStep ==
    ASSUME AtomicInv, NEW p \in Rank, Locked(p)
    PROVE  AtomicInv'
<1>1. TypeOK
  BY DEF AtomicInv
<1>2. PICK n : n = Len(op[p])
  OBVIOUS
<1>3. /\ p # Home /\ at[p] = "lockWait" /\ back[p] # <<>> /\ Head(back[p]).type = "LOCK"
      /\ back' = [back EXCEPT ![p] = Tail(@)] /\ Post(p, "GET", n)
      /\ pend' = [pend EXCEPT ![p] = @ \cup {n}] /\ at' = [at EXCEPT ![p] = "getWait"]
      /\ UNCHANGED <<mem, op, data, gets, lock, list, cb>>
  BY <1>2 DEF Locked, Answered, TakeAnswer, Last, Origin
<1>4. /\ op[p] \in Seq(Record) /\ n \in Nat /\ Distinct(back[p])
      /\ ProcOK(p, op[p], "lockWait", pend[p], Elements(line[p]), data[p], Elements(back[p]),
                Elements(list), cb)
  BY <1>2, <1>3, ProcFacts
<1>5. PICK h : h = Head(back[p])
  OBVIOUS
<1>6. /\ back' \in [Rank -> Seq(Message)] /\ Distinct(back'[p]) /\ h \in Elements(back[p])
      /\ Elements(back'[p]) = Elements(back[p]) \ {h}
      /\ \A r \in Rank : r # p => back'[r] = back[r]
  BY <1>1, <1>3, <1>4, <1>5, TakeFacts DEF TypeOK
<1>7. h = Msg("LOCK", 0)
  BY <1>3, <1>4, <1>5, <1>6 DEF ProcOK, FromHomeOK
<1>8. PICK m : m = Msg("GET", n)
  OBVIOUS
<1>9. m \in Message /\ m.k = n /\ m.type = "GET"
  BY <1>4, <1>8, MsgType, MsgFields
<1>10. /\ ProcOK(p, op[p], "getWait", pend[p] \cup {n}, Elements(line[p]) \cup {m}, data[p],
                 Elements(back'[p]), Elements(list), cb)
       /\ Elements(line[p]) = {}
  <2>1. Msg("LOCK", 0) \in Elements(back[p])
    BY <1>6, <1>7
  <2>2. Elements(back'[p]) = Elements(back[p]) \ {Msg("LOCK", 0)}
    BY <1>6, <1>7
  <2>3. m.k = Len(op[p]) /\ m.type = "GET" /\ p # Home
    BY <1>2, <1>3, <1>9
  <2>4. /\ ProcOK(p, op[p], "getWait", pend[p] \cup {Len(op[p])}, Elements(line[p]) \cup {m},
                  data[p], Elements(back[p]) \ {Msg("LOCK", 0)}, Elements(list), cb)
        /\ Elements(line[p]) = {}
    BY <1>4, <2>1, <2>3, LockedProc
  <2> QED
    BY <1>2, <2>2, <2>4
<1>11. OwnStep(p) /\ at'[p] = "getWait" /\ pend'[p] = pend[p] \cup {n}
  BY <1>1, <1>3, <1>4, <1>6 DEF OwnStep, TypeOK, Place
<1>12. HoldsAt(at'[p], Elements(back'[p])) /\ Holder(p)
  BY <1>3, <1>6, <1>7, <1>11 DEF Holder, HoldsAt
<1> QED
  BY <1>3, <1>8, <1>9, <1>10, <1>11, <1>12, PostStep

(* GetDone preserves the invariant. *)
LEMMA GetDoneStep ==
    ASSUME AtomicInv, NEW p \in Rank, GetDone(p)
    PROVE  AtomicInv'
<1>1. TypeOK
  BY DEF AtomicInv
<1>2. PICK h : h = Head(back[p])
  OBVIOUS
<1>3. /\ back[p] # <<>> /\ h.type = "GET" /\ back' = [back EXCEPT ![p] = Tail(@)]
      /\ pend' = [pend EXCEPT ![p] = @ \ {h.k}]
      /\ UNCHANGED <<mem, op, at, line, data, gets, lock, list, cb>>
  BY <1>2 DEF GetDone, Answered, TakeAnswer
<1>4. /\ Distinct(back[p])
      /\ ProcOK(p, op[p], at[p], pend[p], Elements(line[p]), data[p], Elements(back[p]),
                Elements(list), cb)
  BY ProcFacts
<1>5. /\ back' \in [Rank -> Seq(Message)] /\ Distinct(back'[p]) /\ h \in Elements(back[p])
      /\ Elements(back'[p]) = Elements(back[p]) \ {h}
      /\ \A r \in Rank : r # p => back'[r] = back[r]
  BY <1>1, <1>2, <1>3, <1>4, TakeFacts DEF TypeOK
<1>6. ProcOK(p, op[p], at[p], pend[p] \ {h.k}, Elements(line[p]), data[p],
             Elements(back[p]) \ {h}, Elements(list), cb)
  BY <1>3, <1>4, <1>5, GetDoneProc
<1>7. OwnStep(p) /\ at'[p] = at[p] /\ pend'[p] = pend[p] \ {h.k}
  BY <1>1, <1>3, <1>5 DEF OwnStep, TypeOK
<1>8. h # Msg("LOCK", 0) /\ h # Msg("UNLOCK", 0)
  BY <1>3, MsgFields
<1>9. HoldsAt(at'[p], Elements(back'[p])) <=> Holder(p)
  BY <1>5, <1>7, <1>8 DEF Holder, HoldsAt
<1> QED
  BY <1>3, <1>5, <1>6, <1>7, <1>9, QuietStep

(* Fetched preserves the invariant. *)
LEMMA FetchedStep ==
    ASSUME AtomicInv, NEW p \in Rank, Fetched(p)
    PROVE  AtomicInv'
<1>1. TypeOK
  BY DEF AtomicInv
<1>2. PICK n : n = Len(op[p])
  OBVIOUS
<1>3. PICK c : c = op[p][n].call
  OBVIOUS
<1>4. PICK t : t = IF c.f = "compare_and_swap" THEN "PUT" ELSE "ACCUMULATE"
  OBVIOUS
<1>5. /\ at[p] = "getWait" /\ pend[p] = {} /\ at' = [at EXCEPT ![p] = "unlock"]
      /\ UNCHANGED <<mem, op, data, gets, back, lock, list, cb>>
      /\ Mismatch(op[p][n]) => UNCHANGED <<line, pend>>
      /\ ~Mismatch(op[p][n]) => Post(p, t, n) /\ pend' = [pend EXCEPT ![p] = {n}]
  BY <1>2, <1>3, <1>4 DEF Fetched, Current, Last, Mismatch
<1>6. /\ op[p] \in Seq(Record) /\ n \in Nat /\ Distinct(back[p])
      /\ ProcOK(p, op[p], "getWait", pend[p], Elements(line[p]), data[p], Elements(back[p]),
                Elements(list), cb)
  BY <1>2, <1>5, ProcFacts
<1>7. OwnStep(p) /\ at'[p] = "unlock" /\ back'[p] = back[p]
  <2>1. pend' \in [Rank -> SUBSET Nat] /\ \A r \in Rank : r # p => pend'[r] = pend[r]
    BY <1>1, <1>5, <1>6 DEF TypeOK
  <2> QED
    BY <1>1, <1>5, <1>6, <2>1 DEF OwnStep, TypeOK, Place
<1>8. HoldsAt(at'[p], Elements(back'[p])) /\ Holder(p)
  BY <1>5, <1>7 DEF Holder, HoldsAt
<1>9. CASE Mismatch(op[p][n])
  <2>1. ProcOK(p, op[p], "unlock", pend[p], Elements(line[p]), data[p], Elements(back[p]),
               Elements(list), cb)
    BY <1>2, <1>5, <1>6, <1>9, MismatchProc
  <2> QED
    BY <1>5, <1>7, <1>8, <1>9, <2>1, QuietStep
<1>10. CASE ~Mismatch(op[p][n])
  <2>1. PICK m : m = Msg(t, n)
    OBVIOUS
  <2>2. m \in Message /\ m.k = n /\ m.type = t
    BY <1>4, <1>6, <2>1, MsgType, MsgFields
  <2>3. /\ m.k = Len(op[p]) /\ pend[p] = {} /\ ~Mismatch(op[p][Len(op[p])])
        /\ m.type = IF op[p][Len(op[p])].call.f = "compare_and_swap" THEN "PUT" ELSE "ACCUMULATE"
    BY <1>2, <1>3, <1>4, <1>5, <1>10, <2>2
  <2>4. /\ ProcOK(p, op[p], "unlock", {Len(op[p])}, Elements(line[p]) \cup {m}, data[p],
                  Elements(back[p]), Elements(list), cb)
        /\ m \notin Elements(line[p])
        /\ \A x \in Elements(line[p]) : x.type \notin {"LOCK", "UNLOCK"}
    BY <1>6, <2>3, FetchedProc
  <2>5. pend'[p] = {n} /\ Post(p, t, n)
    BY <1>1, <1>5, <1>10 DEF TypeOK
  <2> QED
    BY <1>2, <1>7, <1>8, <2>1, <2>2, <2>4, <2>5, PostStep
<1> QED
  BY <1>9, <1>10

(* SendDone preserves the invariant. *)
LEMMA SendDoneStep ==
    ASSUME AtomicInv, NEW p \in Rank, SendDone(p)
    PROVE  AtomicInv'
<1>1. TypeOK
  BY DEF AtomicInv
<1>2. PICK k \in pend[p] : /\ k = Len(op[p]) => at[p] # "getWait"
                           /\ pend' = [pend EXCEPT ![p] = @ \ {k}]
                           /\ UNCHANGED <<mem, op, at, line, data, gets, back, lock, list, cb>>
  BY DEF SendDone, Last
<1>3. /\ Distinct(back[p])
      /\ ProcOK(p, op[p], at[p], pend[p], Elements(line[p]), data[p], Elements(back[p]),
                Elements(list), cb)
  BY ProcFacts
<1>4. ProcOK(p, op[p], at[p], pend[p] \ {k}, Elements(line[p]), data[p], Elements(back[p]),
             Elements(list), cb)
  BY <1>2, <1>3, SendDoneProc
<1>5. OwnStep(p) /\ at'[p] = at[p] /\ pend'[p] = pend[p] \ {k} /\ back'[p] = back[p]
  BY <1>1, <1>2, <1>3 DEF OwnStep, TypeOK
<1>6. HoldsAt(at'[p], Elements(back'[p])) <=> Holder(p)
  BY <1>5 DEF Holder
<1> QED
  BY <1>2, <1>4, <1>5, <1>6, QuietStep

(* UnlockInternal preserves the invariant. *)
LEMMA UnlockInternalStep ==
    ASSUME AtomicInv, NEW p \in Rank, UnlockInternal(p)
    PROVE  AtomicInv'
<1>1. TypeOK
  BY DEF AtomicInv
<1>2. /\ at[p] = "unlock" /\ Post(p, "UNLOCK", 0) /\ at' = [at EXCEPT ![p] = "unlockWait"]
      /\ UNCHANGED <<mem, op, pend, data, gets, back, lock, list, cb>>
  BY DEF UnlockInternal
<1>3. /\ op[p] \in Seq(Record) /\ Distinct(back[p])
      /\ ProcOK(p, op[p], "unlock", pend[p], Elements(line[p]), data[p], Elements(back[p]),
                Elements(list), cb)
  BY <1>2, ProcFacts
<1>4. PICK m : m = Msg("UNLOCK", 0) /\ m \in Message
  BY MsgType
<1>5. /\ ProcOK(p, op[p], "unlockWait", pend[p], Elements(line[p]) \cup {m}, data[p],
                Elements(back[p]), Elements(list), cb)
      /\ m \notin Elements(line[p])
      /\ \A x \in Elements(line[p]) : x.type \notin {"LOCK", "UNLOCK"}
  BY <1>3, <1>4, UnlockProc
<1>6. OwnStep(p) /\ at'[p] = "unlockWait" /\ pend'[p] = pend[p] /\ back'[p] = back[p]
  BY <1>1, <1>2, <1>3 DEF OwnStep, TypeOK, Place
<1>7. m \notin Elements(back[p])
  BY <1>3, <1>4, MsgFields DEF ProcOK, FromHomeOK
<1>8. HoldsAt(at'[p], Elements(back'[p])) /\ Holder(p)
  BY <1>2, <1>4, <1>6, <1>7 DEF Holder, HoldsAt
<1> QED
  BY <1>2, <1>4, <1>5, <1>6, <1>8, PostStep

(* UnlockDone preserves the invariant. *)
LEMMA UnlockDoneStep ==
    ASSUME AtomicInv, NEW p \in Rank, UnlockDone(p)
    PROVE  AtomicInv'
<1>1. TypeOK
  BY DEF AtomicInv
<1>2. PICK h : h = Head(back[p])
  OBVIOUS
<1>3. /\ at[p] = "unlockWait" /\ back[p] # <<>> /\ h.type = "UNLOCK"
      /\ back' = [back EXCEPT ![p] = Tail(@)] /\ at' = [at EXCEPT ![p] = "idle"]
      /\ UNCHANGED <<mem, op, pend, line, data, gets, lock, list, cb>>
  BY <1>2 DEF UnlockDone, Answered, TakeAnswer
<1>4. /\ op[p] \in Seq(Record) /\ Distinct(back[p])
      /\ ProcOK(p, op[p], "unlockWait", pend[p], Elements(line[p]), data[p], Elements(back[p]),
                Elements(list), cb)
  BY <1>3, ProcFacts
<1>5. /\ back' \in [Rank -> Seq(Message)] /\ Distinct(back'[p]) /\ h \in Elements(back[p])
      /\ Elements(back'[p]) = Elements(back[p]) \ {h}
      /\ \A r \in Rank : r # p => back'[r] = back[r]
  BY <1>1, <1>2, <1>3, <1>4, TakeFacts DEF TypeOK
<1>6. h = Msg("UNLOCK", 0)
  BY <1>3, <1>4, <1>5 DEF ProcOK, FromHomeOK
<1>7. Msg("LOCK", 0) \notin Elements(back[p])
  BY <1>4, MsgFields DEF ProcOK, FromHomeOK
<1>8. ProcOK(p, op[p], "idle", pend[p], Elements(line[p]), data[p],
             Elements(back[p]) \ {Msg("UNLOCK", 0)}, Elements(list), cb)
  BY <1>4, <1>5, <1>6, UnlockDoneProc
<1>9. OwnStep(p) /\ at'[p] = "idle" /\ pend'[p] = pend[p]
  BY <1>1, <1>3, <1>5 DEF OwnStep, TypeOK, Place
<1>10. ~HoldsAt(at'[p], Elements(back'[p])) /\ ~Holder(p)
  BY <1>3, <1>5, <1>6, <1>7, <1>9 DEF Holder, HoldsAt
<1> QED
  BY <1>3, <1>5, <1>6, <1>8, <1>9, <1>10, QuietStep

(* AnswerSent preserves the invariant. *)
LEMMA AnswerSentStep ==
    ASSUME AtomicInv, NEW p \in Rank, AnswerSent(p)
    PROVE  AtomicInv'
<1>1. TypeOK /\ gets[p] \in Nat
  BY DEF AtomicInv, TypeOK
<1>2. gets' = [gets EXCEPT ![p] = gets[p] - 1] /\ gets[p] > 0
      /\ UNCHANGED <<mem, op, at, pend, line, data, back, lock, list, cb>>
  BY DEF AnswerSent
<1>3. gets[p] - 1 \in Nat
  BY <1>1, <1>2
<1>4. TypeOK'
  BY <1>1, <1>2, <1>3 DEF TypeOK
<1>5. ChannelInv' /\ LockInv' /\ \A r \in Rank : ProcInv(r)'
  BY <1>2 DEF AtomicInv, ChannelInv, LockInv, Holder, ProcInv
<1> QED
  BY <1>4, <1>5 DEF AtomicInv

(* RecvLock preserves the invariant. *)
LEMMA RecvLockStep ==
    ASSUME AtomicInv, NEW p \in Rank, RecvLock(p)
    PROVE  AtomicInv'
<1>1. TypeOK
  BY DEF AtomicInv
<1>2. PICK h : h = Head(line[p])
  OBVIOUS
<1>3. /\ line[p] # <<>> /\ h.type = "LOCK" /\ TakeHeader(p)
      /\ UNCHANGED <<mem, op, at, pend, data, gets, cb>>
  BY <1>2 DEF RecvLock, Arrived
<1>4. /\ LineOK(line[p]) /\ Distinct(back[p]) /\ Distinct(list)
      /\ ProcOK(p, op[p], at[p], pend[p], Elements(line[p]), data[p], Elements(back[p]),
                Elements(list), cb)
  BY ProcFacts
<1>5. /\ line' \in [Rank -> Seq(Message)] /\ LineOK(line'[p]) /\ h \in Elements(line[p])
      /\ Elements(line'[p]) = {} /\ \A r \in Rank : r # p => line'[r] = line[r]
  BY <1>1, <1>2, <1>3, <1>4, HeaderFacts DEF TypeOK
<1>6. CASE ~lock /\ lock' /\ back' = Answer(back, p, "LOCK", 0) /\ UNCHANGED list
  <2>1. PICK m : m = Msg("LOCK", 0) /\ m \in Message
    BY MsgType
  <2>2. /\ ProcOK(p, op[p], at[p], pend[p], {}, data[p], Elements(back[p]) \cup {m},
                  Elements(list), cb)
        /\ m \notin Elements(back[p])
    BY <1>3, <1>4, <1>5, <2>1, GrantProc
  <2>3. /\ back' \in [Rank -> Seq(Message)] /\ Distinct(back'[p])
        /\ Elements(back'[p]) = Elements(back[p]) \cup {m}
        /\ \A r \in Rank : r # p => back'[r] = back[r]
    BY <1>1, <1>4, <1>6, <2>1, <2>2, AnswerFacts DEF TypeOK
  <2>4. TypeOK'
    BY <1>1, <1>3, <1>5, <1>6, <2>3 DEF TypeOK
  <2>5. ProcInv(p)' /\ Holder(p)' /\ \A r \in Rank : r # p => Same(r)
    BY <1>3, <1>5, <1>6, <2>1, <2>2, <2>3 DEF ProcInv, Same, SameCalls, Holder, HoldsAt
  <2> QED
    BY <1>5, <1>6, <2>3, <2>4, <2>5, GrantTo
<1>7. CASE lock /\ list' = Append(list, p) /\ UNCHANGED <<lock, back>>
  <2>1. /\ ProcOK(p, op[p], at[p], pend[p], {}, data[p], Elements(back[p]), Elements(list) \cup {p}, cb)
        /\ p \notin Elements(list)
    BY <1>3, <1>4, <1>5, QueueProc
  <2>2. list' \in Seq(Rank) /\ Elements(list') = Elements(list) \cup {p} /\ Distinct(list')
    BY <1>1, <1>4, <1>7, <2>1, AppendElements DEF TypeOK
  <2>3. TypeOK'
    BY <1>1, <1>3, <1>5, <1>7, <2>2 DEF TypeOK
  <2>4. ProcInv(p)' /\ (Holder(p)' <=> Holder(p)) /\ \A r \in Rank : r # p => Same(r)
    BY <1>3, <1>5, <1>7, <2>1, <2>2 DEF ProcInv, Same, SameCalls, Holder
  <2> QED
    BY <1>4, <1>5, <1>7, <2>2, <2>3, <2>4, OneProc
<1> QED
  BY <1>6, <1>7 DEF RecvLock

(* The end of an unlock callback: Home answers p and passes the lock on.  V are  *)
(* the waiting callbacks with that of p.                                        *)
LEMMA AnswerUnlockStep ==
    ASSUME AtomicInv, NEW p \in Rank, NEW V, p \in V, cb' = V \ {p}, cb' \in SUBSET Rank,
           \A r \in Rank : r # p => (r \in cb' <=> r \in cb),
           line' \in [Rank -> Seq(Message)], LineOK(line'[p]), Elements(line'[p]) = {},
           \A r \in Rank : r # p => line'[r] = line[r],
           ProcOK(p, op[p], at[p], pend[p], {}, data[p], Elements(back[p]), Elements(list), V),
           data[p] = {}, Unlocked(Answer(back, p, "UNLOCK", 0)),
           UNCHANGED <<mem, op, at, pend, data, gets>>
    PROVE  AtomicInv'
<1>1. TypeOK
  BY DEF AtomicInv
<1>2. Distinct(back[p])
  BY ProcFacts
<1>3. PICK m : m = Msg("UNLOCK", 0) /\ m \in Message
  BY MsgType
<1>4. /\ ProcOK(p, op[p], at[p], pend[p], {}, data[p], Elements(back[p]) \cup {m},
                Elements(list), cb')
      /\ at[p] = "unlockWait" /\ m \notin Elements(back[p])
  BY <1>3, AnswerUnlockProc, SMTT(30)
<1>5. PICK b : b = Answer(back, p, "UNLOCK", 0)
  OBVIOUS
<1>6. /\ b \in [Rank -> Seq(Message)] /\ Distinct(b[p])
      /\ Elements(b[p]) = Elements(back[p]) \cup {m}
      /\ \A r \in Rank : r # p => b[r] = back[r]
  BY <1>1, <1>2, <1>3, <1>4, <1>5, AnswerFacts DEF TypeOK
<1>7. back' \in [Rank -> Seq(Message)] /\ lock' \in BOOLEAN /\ list' \in Seq(Rank)
  BY <1>1, <1>5, <1>6, UnlockedType
<1>8. TypeOK'
  BY <1>1, <1>7 DEF TypeOK
<1>9. Holder(p) /\ p \notin Elements(list)
  BY <1>3, <1>4 DEF Holder, HoldsAt, ProcOK, WaitsOK
<1>10. ~HoldsAt(at'[p], Elements(b[p]))
  <2>1. Msg("LOCK", 0) \notin Elements(back[p])
    BY <1>4, MsgFields DEF ProcOK, FromHomeOK
  <2>2. Msg("LOCK", 0) # m
    BY <1>3, MsgFields
  <2> QED
    BY <1>3, <1>4, <1>6, <2>1, <2>2 DEF HoldsAt
<1>11. \A r \in Rank : r # p => SameCalls(r)
  BY DEF SameCalls
<1>12. ProcOK(p, op'[p], at'[p], pend'[p], Elements(line'[p]), data'[p], Elements(b[p]),
              Elements(list), cb')
  BY <1>4, <1>6
<1>13. Unlocked(b)
  BY <1>5
<1> QED
  BY <1>6, <1>8, <1>9, <1>10, <1>11, <1>12, <1>13, ReleaseFrom

(* RecvUnlock preserves the invariant. *)
LEMMA RecvUnlockStep ==
    ASSUME AtomicInv, NEW p \in Rank, RecvUnlock(p)
    PROVE  AtomicInv'
<1>1. TypeOK /\ cb \in SUBSET Rank
  BY DEF AtomicInv, TypeOK
<1>2. PICK h : h = Head(line[p])
  OBVIOUS
<1>3. /\ line[p] # <<>> /\ h.type = "UNLOCK" /\ TakeHeader(p)
      /\ UNCHANGED <<mem, op, at, pend, data, gets>>
  BY <1>2 DEF RecvUnlock, Arrived
<1>4. /\ LineOK(line[p]) /\ Distinct(back[p]) /\ Distinct(list)
      /\ ProcOK(p, op[p], at[p], pend[p], Elements(line[p]), data[p], Elements(back[p]),
                Elements(list), cb)
  BY ProcFacts
<1>5. /\ line' \in [Rank -> Seq(Message)] /\ LineOK(line'[p]) /\ h \in Elements(line[p])
      /\ Elements(line'[p]) = Elements(line[p]) \ {h} /\ Elements(line'[p]) = {}
      /\ \A r \in Rank : r # p => line'[r] = line[r]
  BY <1>1, <1>2, <1>3, <1>4, HeaderFacts DEF TypeOK
<1>6. ProcOK(p, op[p], at[p], pend[p], {}, data[p], Elements(back[p]), Elements(list), cb \cup {p})
  BY <1>3, <1>4, <1>5, CallbackProc
<1>7. CASE cb' = cb \cup {p} /\ UNCHANGED <<lock, list, back>>
  <2>1. TypeOK'
    BY <1>1, <1>3, <1>5, <1>7 DEF TypeOK
  <2>2. ProcInv(p)' /\ (Holder(p)' <=> Holder(p)) /\ \A r \in Rank : r # p => Same(r)
    BY <1>3, <1>5, <1>6, <1>7 DEF ProcInv, Same, SameCalls, Holder
  <2> QED
    BY <1>4, <1>5, <1>7, <2>1, <2>2, OneProc
<1>8. CASE ~PassivePending(p) /\ Unlocked(Answer(back, p, "UNLOCK", 0)) /\ UNCHANGED cb
  <2>1. p \notin cb
    BY <1>4, <1>5 DEF ProcOK, WaitsOK
  <2>2. PICK V : V = cb \cup {p}
    OBVIOUS
  <2>3. p \in V /\ cb' = V \ {p} /\ data[p] = {} /\ \A r \in Rank : r # p => (r \in cb' <=> r \in cb)
    BY <1>8, <2>1, <2>2 DEF PassivePending
  <2>4. ProcOK(p, op[p], at[p], pend[p], {}, data[p], Elements(back[p]), Elements(list), V)
    BY <1>6, <2>2
  <2> QED
    BY <1>1, <1>3, <1>5, <1>8, <2>3, <2>4, AnswerUnlockStep
<1> QED
  BY <1>7, <1>8 DEF RecvUnlock

(* CallbackDone preserves the invariant. *)
LEMMA CallbackDoneStep ==
    ASSUME AtomicInv, NEW p \in Rank, CallbackDone(p)
    PROVE  AtomicInv'
<1>1. TypeOK /\ cb \in SUBSET Rank
  BY DEF AtomicInv, TypeOK
<1>2. /\ p \in cb /\ data[p] = {} /\ cb' = cb \ {p} /\ Unlocked(Answer(back, p, "UNLOCK", 0))
      /\ UNCHANGED <<mem, op, at, pend, line, data, gets>>
  BY DEF CallbackDone, PassivePending
<1>3. /\ LineOK(line[p])
      /\ ProcOK(p, op[p], at[p], pend[p], Elements(line[p]), data[p], Elements(back[p]),
                Elements(list), cb)
  BY ProcFacts
<1>4. Elements(line[p]) = {}
  BY <1>2, <1>3 DEF ProcOK, WaitsOK
<1>5. ProcOK(p, op[p], at[p], pend[p], {}, data[p], Elements(back[p]), Elements(list), cb)
  BY <1>3, <1>4
<1>6. cb' \in SUBSET Rank /\ \A r \in Rank : r # p => (r \in cb' <=> r \in cb)
  BY <1>1, <1>2
<1>7. line' \in [Rank -> Seq(Message)] /\ line' = line
  BY <1>1, <1>2 DEF TypeOK
<1> QED
  BY <1>2, <1>3, <1>4, <1>5, <1>6, <1>7, AnswerUnlockStep

(* A get reads call k of p, a call c: the note of what it found. *)
Reads(p, k, c) ==
    \E r \in Record : /\ Edited(op[p], op'[p], k, r)
                      /\ r.call = c /\ r.val = {mem[c.loc]}
                      /\ r.done <=> c.f = "no_op" \/ Mismatch(r)

(* What RecvGet changes. *)
LEMMA RecvGetFacts ==
    ASSUME AtomicInv, NEW p \in Rank, RecvGet(p), NEW h, h = Head(line[p]),
           NEW k, k = h.k, NEW c, c = op[p][k].call
    PROVE  /\ h \in Elements(line[p]) /\ h.type = "GET" /\ h \in Message /\ h = Msg("GET", k)
           /\ k \in 1..Len(op[p]) /\ Fresh(op[p][k]) /\ c \in Calls /\ mem[c.loc] \in Value
           /\ line' \in [Rank -> Seq(Message)] /\ LineOK(line'[p])
           /\ Elements(line'[p]) = Elements(line[p]) \ {h}
           /\ \A s \in Rank : s # p => line'[s] = line[s]
           /\ op' \in [Rank -> Seq(Record)] /\ \A s \in Rank : s # p => op'[s] = op[s]
           /\ Reads(p, k, c)
<1>1. TypeOK
  BY DEF AtomicInv
<1>2. line[p] # <<>> /\ h.type = "GET" /\ TakeHeader(p)
  BY DEF RecvGet, Arrived
<1>3. /\ op[p] \in Seq(Record) /\ LineOK(line[p])
      /\ ProcOK(p, op[p], at[p], pend[p], Elements(line[p]), data[p], Elements(back[p]),
                Elements(list), cb)
  BY ProcFacts
<1>4. /\ line' \in [Rank -> Seq(Message)] /\ LineOK(line'[p])
      /\ h \in Elements(line[p]) /\ h \in Message
      /\ Elements(line'[p]) = Elements(line[p]) \ {h}
      /\ \A r \in Rank : r # p => line'[r] = line[r]
  BY <1>1, <1>2, <1>3, HeaderFacts DEF TypeOK
<1>5. h = Msg("GET", k)
  BY <1>2, <1>4 DEF Message, Msg
<1>6. k \in 1..Len(op[p]) /\ Fresh(op[p][k])
  BY <1>2, <1>3, <1>4 DEF ProcOK, ToHomeOK
<1>7. op[p][k] \in Record /\ c \in Calls /\ c.loc \in Loc
  BY <1>3, <1>6, RecordFields
<1>8. mem[c.loc] \in Value
  BY <1>1, <1>7 DEF TypeOK
<1>9. PICK d \in BOOLEAN : d <=> c.f = "no_op" \/ (c.f = "compare_and_swap" /\ mem[c.loc] # c.cmp)
  OBVIOUS
<1>10. PICK r : r = Noted(op[p][k], {mem[c.loc]}, d)
  OBVIOUS
<1>11. r \in Record /\ r.call = c /\ r.val = {mem[c.loc]} /\ r.done = d
  <2>1. PICK v : v = {mem[c.loc]}
    OBVIOUS
  <2>2. v \in SUBSET Value /\ r = Noted(op[p][k], v, d)
    BY <1>8, <1>10, <2>1
  <2>3. r \in Record /\ r.call = op[p][k].call /\ r.val = v /\ r.done = d
    BY <1>7, <2>2, NotedFacts
  <2> QED
    BY <2>1, <2>3
<1>12. op' = [op EXCEPT ![p][k].val = {mem[c.loc]}, ![p][k].done = d]
  <2>1. op' = [op EXCEPT ![p][k].val = {mem[c.loc]},
                         ![p][k].done = \/ c.f = "no_op"
                                        \/ c.f = "compare_and_swap" /\ mem[c.loc] # c.cmp]
    BY DEF RecvGet
  <2>2. d = (c.f = "no_op" \/ (c.f = "compare_and_swap" /\ mem[c.loc] # c.cmp))
    BY <1>9
  <2> QED
    BY <2>1, <2>2, Zenon
<1>13. op' = [op EXCEPT ![p] = [op[p] EXCEPT ![k] = r]]
  <2>1. PICK v : v = {mem[c.loc]}
    OBVIOUS
  <2>2. op' = [op EXCEPT ![p][k].val = v, ![p][k].done = d] /\ r = Noted(op[p][k], v, d)
    BY <1>10, <1>12, <2>1, Zenon
  <2>3. op \in [Rank -> Seq(Record)] /\ op[p] \in Seq(Record) /\ k \in DOMAIN op[p]
    BY <1>1, <1>3, <1>6 DEF TypeOK
  <2> QED
    BY <1>7, <2>2, <2>3 DEF Noted
<1>14. /\ op' \in [Rank -> Seq(Record)] /\ Edited(op[p], op'[p], k, r)
       /\ \A s \in Rank : s # p => op'[s] = op[s]
  BY <1>1, <1>6, <1>11, <1>13, EditOp DEF TypeOK
<1>15. r.done <=> c.f = "no_op" \/ Mismatch(r)
  BY <1>9, <1>11 DEF Mismatch
<1>16. Reads(p, k, c)
  BY <1>11, <1>14, <1>15 DEF Reads
<1> QED
  BY <1>2, <1>4, <1>5, <1>6, <1>7, <1>8, <1>14, <1>16

(* RecvGet preserves the invariant. *)
LEMMA RecvGetStep ==
    ASSUME AtomicInv, NEW p \in Rank, RecvGet(p)
    PROVE  AtomicInv'
<1>1. TypeOK
  BY DEF AtomicInv
<1>2. PICK h : h = Head(line[p])
  OBVIOUS
<1>3. PICK k : k = h.k
  OBVIOUS
<1>4. PICK c : c = op[p][k].call
  OBVIOUS
<1>5. /\ h \in Elements(line[p]) /\ h.type = "GET" /\ h \in Message /\ h = Msg("GET", k)
      /\ line' \in [Rank -> Seq(Message)] /\ LineOK(line'[p])
      /\ Elements(line'[p]) = Elements(line[p]) \ {h}
      /\ \A s \in Rank : s # p => line'[s] = line[s]
      /\ op' \in [Rank -> Seq(Record)] /\ \A s \in Rank : s # p => op'[s] = op[s]
      /\ Reads(p, k, c)
  BY <1>2, <1>3, <1>4, RecvGetFacts
<1>6. PICK r \in Record : /\ Edited(op[p], op'[p], k, r)
                          /\ r.call = c /\ r.val = {mem[c.loc]}
                          /\ r.done <=> c.f = "no_op" \/ Mismatch(r)
  BY <1>5 DEF Reads
<1>7. /\ back' = Answer(back, p, "GET", k) /\ gets' = [gets EXCEPT ![p] = @ + 1]
      /\ UNCHANGED <<mem, at, pend, data, lock, list, cb>>
  BY <1>2, <1>3 DEF RecvGet
<1>8. /\ op[p] \in Seq(Record) /\ Distinct(back[p]) /\ Distinct(list)
      /\ ProcOK(p, op[p], at[p], pend[p], Elements(line[p]), data[p], Elements(back[p]),
                Elements(list), cb)
  BY ProcFacts
<1>9. Elements(line[p]) \subseteq Message
  BY <1>1, ElementsType DEF TypeOK
<1>10. /\ ProcOK(p, op'[p], at[p], pend[p], Elements(line[p]) \ {h}, data[p],
                 Elements(back[p]) \cup {h}, Elements(list), cb)
       /\ h \notin Elements(back[p])
  <2>1. Edited(op[p], op'[p], h.k, r) /\ r.call = op[p][h.k].call
    BY <1>3, <1>4, <1>6
  <2>2. r \in Record /\ GetNote(r)
    BY <1>6 DEF GetNote
  <2>3. PICK t : t = op'[p]
    OBVIOUS
  <2>4. Edited(op[p], t, h.k, r)
    BY <2>1, <2>3
  <2>5. /\ ProcOK(p, t, at[p], pend[p], Elements(line[p]) \ {h}, data[p],
                  Elements(back[p]) \cup {h}, Elements(list), cb)
        /\ h \notin Elements(back[p])
    <3>1. h \in Elements(line[p]) /\ h.type = "GET" /\ h \in Message
      BY <1>5
    <3> QED
      BY <1>8, <1>9, <2>1, <2>2, <2>4, <3>1, GetProc
  <2> QED
    BY <2>3, <2>5
<1>11. /\ back' \in [Rank -> Seq(Message)] /\ Distinct(back'[p])
       /\ Elements(back'[p]) = Elements(back[p]) \cup {h}
       /\ \A s \in Rank : s # p => back'[s] = back[s]
  BY <1>1, <1>5, <1>7, <1>8, <1>10, AnswerFacts DEF TypeOK
<1>12. TypeOK'
  <2>1. gets' \in [Rank -> Nat]
    BY <1>1, <1>7 DEF TypeOK
  <2>2. \A s \in Rank : Len(op'[s]) = Len(op[s])
    BY <1>5, <1>6 DEF Edited
  <2> QED
    BY <1>1, <1>5, <1>7, <1>11, <2>1, <2>2 DEF TypeOK
<1>13. ProcInv(p)' /\ \A s \in Rank : s # p => Same(s)
  BY <1>5, <1>7, <1>10, <1>11 DEF ProcInv, Same, SameCalls
<1>14. Holder(p)' <=> Holder(p)
  <2>1. h # Msg("LOCK", 0) /\ h # Msg("UNLOCK", 0)
    BY <1>5, MsgFields
  <2> QED
    BY <1>7, <1>11, <2>1 DEF Holder, HoldsAt
<1> QED
  BY <1>5, <1>7, <1>8, <1>11, <1>12, <1>13, <1>14, OneProc

(* What the update of call k of p, a call c, makes of the value v. *)
Stored(c, v) == IF c.f = "compare_and_swap" THEN c.arg ELSE Update(c, v)

(* The note that call k of p, a call c, has taken effect by its update. *)
Applied(p, k, c) ==
    \E r \in Record : /\ Edited(op[p], op'[p], k, r)
                      /\ r.call = c /\ r.val = op[p][k].val /\ r.done

(* What Apply changes. *)
LEMMA ApplyFacts ==
    ASSUME AtomicInv, NEW p \in Rank, NEW k, UpdateDue(op[p], k, at[p]), Apply(p, k),
           NEW c, c = op[p][k].call
    PROVE  /\ k \in 1..Len(op[p]) /\ ~op[p][k].done /\ c \in Calls
           /\ op' \in [Rank -> Seq(Record)] /\ \A s \in Rank : s # p => op'[s] = op[s]
           /\ Applied(p, k, c)
           /\ mem' = [mem EXCEPT ![c.loc] = Stored(c, mem[c.loc])] /\ mem' \in [Loc -> Value]
<1>1. TypeOK
  BY DEF AtomicInv
<1>2. op[p] \in Seq(Record) /\ k \in 1..Len(op[p]) /\ ~op[p][k].done
  BY ProcFacts DEF UpdateDue
<1>3. op[p][k] \in Record /\ c \in Calls /\ c.loc \in Loc /\ op[p][k].val \in SUBSET Value
  BY <1>2, RecordFields
<1>4. mem \in [Loc -> Value] /\ mem[c.loc] \in Value
  BY <1>1, <1>3 DEF TypeOK
<1>5. Stored(c, mem[c.loc]) \in Value
  BY <1>3, <1>4, UpdateType DEF Stored
<1>6. mem' = [mem EXCEPT ![c.loc] = Stored(c, mem[c.loc])] /\ mem' \in [Loc -> Value]
  BY <1>3, <1>4, <1>5 DEF Apply, Stored
<1>7. PICK r : r = Effected(op[p][k], op[p][k].val)
  OBVIOUS
<1>8. r \in Record /\ r.call = c /\ r.val = op[p][k].val /\ r.done
  BY <1>3, <1>7, DoneFacts
<1>9. [op[p][k] EXCEPT !.done = TRUE] = r
  BY <1>3, <1>7 DEF Effected, Record
<1>10. op' = [op EXCEPT ![p] = [op[p] EXCEPT ![k] = r]]
  BY <1>9 DEF Apply
<1>11. /\ op' \in [Rank -> Seq(Record)] /\ Edited(op[p], op'[p], k, r)
       /\ \A s \in Rank : s # p => op'[s] = op[s]
  BY <1>1, <1>2, <1>8, <1>10, EditOp DEF TypeOK
<1>12. Applied(p, k, c)
  BY <1>8, <1>11 DEF Applied
<1> QED
  BY <1>2, <1>3, <1>6, <1>11, <1>12

(* An update takes effect: here l are the headers from p and E its calls whose   *)
(* data is missing, afterwards.                                                  *)
LEMMA ApplyStep ==
    ASSUME AtomicInv, NEW p \in Rank, NEW k, UpdateDue(op[p], k, at[p]), Apply(p, k),
           line' \in [Rank -> Seq(Message)], LineOK(line'[p]),
           \A s \in Rank : s # p => line'[s] = line[s],
           data' \in [Rank -> SUBSET Nat], data'[p] = data[p] \ {k},
           \A s \in Rank : s # p => data'[s] = data[s],
           Elements(line'[p]) \subseteq Elements(line[p]),
           \A x \in Elements(line'[p]) : IsUpdate(x) => x.k # k,
           \A x \in Elements(line[p]) : x \notin Elements(line'[p]) => IsUpdate(x) /\ x.k = k,
           UNCHANGED <<at, pend, gets, back, lock, list, cb>>
    PROVE  AtomicInv'
<1>1. TypeOK
  BY DEF AtomicInv
<1>2. PICK c : c = op[p][k].call
  OBVIOUS
<1>3. /\ op' \in [Rank -> Seq(Record)] /\ \A s \in Rank : s # p => op'[s] = op[s]
      /\ Applied(p, k, c) /\ mem' \in [Loc -> Value]
  BY <1>2, ApplyFacts
<1>4. PICK r \in Record : /\ Edited(op[p], op'[p], k, r)
                          /\ r.call = c /\ r.val = op[p][k].val /\ r.done
  BY <1>3 DEF Applied
<1>5. /\ op[p] \in Seq(Record) /\ Distinct(back[p]) /\ Distinct(list)
      /\ ProcOK(p, op[p], at[p], pend[p], Elements(line[p]), data[p], Elements(back[p]),
                Elements(list), cb)
  BY ProcFacts
<1>6. ProcOK(p, op'[p], at[p], pend[p], Elements(line'[p]), data'[p], Elements(back[p]),
             Elements(list), cb)
  <2>1. PICK t : t = op'[p]
    OBVIOUS
  <2>2. PICK M : M = Elements(line'[p])
    OBVIOUS
  <2>3. PICK E : E = data'[p]
    OBVIOUS
  <2>4. /\ Edited(op[p], t, k, r) /\ r.call = op[p][k].call /\ r.val = op[p][k].val /\ r.done
        /\ r \in Record
    BY <1>2, <1>4, <2>1
  <2>5. /\ M \subseteq Elements(line[p]) /\ E = data[p] \ {k}
        /\ \A x \in M : IsUpdate(x) => x.k # k
        /\ \A x \in Elements(line[p]) : x \notin M => IsUpdate(x) /\ x.k = k
    BY <2>2, <2>3
  <2>6. ProcOK(p, t, at[p], pend[p], M, E, Elements(back[p]), Elements(list), cb)
    BY <1>5, <2>4, <2>5, ApplyProc, SMTT(30)
  <2> QED
    BY <2>1, <2>2, <2>3, <2>6
<1>7. TypeOK'
  <2>1. \A s \in Rank : Len(op'[s]) = Len(op[s])
    BY <1>3, <1>4 DEF Edited
  <2> QED
    BY <1>1, <1>3, <2>1 DEF TypeOK
<1>8. ProcInv(p)' /\ (Holder(p)' <=> Holder(p)) /\ \A s \in Rank : s # p => Same(s)
  BY <1>3, <1>6 DEF ProcInv, Same, SameCalls, Holder
<1> QED
  BY <1>5, <1>7, <1>8, OneProc

(* What the header of an update says when it arrives. *)
LEMMA UpdateHeader ==
    ASSUME AtomicInv, NEW p \in Rank, RecvUpdate(p), NEW h, h = Head(line[p])
    PROVE  /\ h \in Elements(line[p]) /\ IsUpdate(h) /\ h.k \in Nat
           /\ UpdateDue(op[p], h.k, at[p]) /\ h.k \notin data[p]
           /\ line' \in [Rank -> Seq(Message)] /\ LineOK(line'[p])
           /\ Elements(line'[p]) = Elements(line[p]) \ {h}
           /\ \A s \in Rank : s # p => line'[s] = line[s]
           /\ \A x \in Elements(line[p]) : IsUpdate(x) /\ x.k = h.k => x = h
<1>1. TypeOK
  BY DEF AtomicInv
<1>2. line[p] # <<>> /\ IsUpdate(h) /\ TakeHeader(p)
  BY DEF RecvUpdate, Arrived, IsUpdate
<1>3. /\ LineOK(line[p]) /\ line[p] \in Seq(Message)
      /\ ProcOK(p, op[p], at[p], pend[p], Elements(line[p]), data[p], Elements(back[p]),
                Elements(list), cb)
  BY ProcFacts
<1>4. /\ line' \in [Rank -> Seq(Message)] /\ LineOK(line'[p])
      /\ h \in Elements(line[p]) /\ h \in Message
      /\ Elements(line'[p]) = Elements(line[p]) \ {h}
      /\ \A s \in Rank : s # p => line'[s] = line[s]
  BY <1>1, <1>2, <1>3, HeaderFacts DEF TypeOK
<1>5. Elements(line[p]) \subseteq Message /\ h.k \in Nat
  BY <1>3, <1>4, ElementsType DEF Message
<1>6. UpdateDue(op[p], h.k, at[p]) /\ h.k \notin data[p]
  BY <1>2, <1>3, <1>4 DEF ProcOK, ToHomeOK
<1>7. ASSUME NEW x \in Elements(line[p]), IsUpdate(x), x.k = h.k PROVE x = h
  <2>1. ToHomeOK(p, op[p], at[p], Elements(line[p]), data[p])
    BY <1>3 DEF ProcOK
  <2> QED
    BY <1>2, <1>4, <1>5, <1>7, <2>1, OneUpdate
<1> QED
  BY <1>2, <1>4, <1>5, <1>6, <1>7

(* RecvUpdate preserves the invariant. *)
LEMMA RecvUpdateStep ==
    ASSUME AtomicInv, NEW p \in Rank, RecvUpdate(p)
    PROVE  AtomicInv'
<1>1. TypeOK /\ data \in [Rank -> SUBSET Nat]
  BY DEF AtomicInv, TypeOK
<1>2. PICK h : h = Head(line[p])
  OBVIOUS
<1>3. /\ h \in Elements(line[p]) /\ IsUpdate(h) /\ h.k \in Nat
      /\ UpdateDue(op[p], h.k, at[p]) /\ h.k \notin data[p]
      /\ line' \in [Rank -> Seq(Message)] /\ LineOK(line'[p])
      /\ Elements(line'[p]) = Elements(line[p]) \ {h}
      /\ \A s \in Rank : s # p => line'[s] = line[s]
      /\ \A x \in Elements(line[p]) : IsUpdate(x) /\ x.k = h.k => x = h
  BY <1>2, UpdateHeader
<1>4. UNCHANGED <<at, pend, gets, back, lock, list, cb>>
  BY DEF RecvUpdate
<1>5. CASE op[p][h.k].call.large
  <2>1. data' = [data EXCEPT ![p] = @ \cup {h.k}] /\ UNCHANGED <<mem, op>>
    BY <1>2, <1>5 DEF RecvUpdate
  <2>2. /\ data' \in [Rank -> SUBSET Nat] /\ data'[p] = data[p] \cup {h.k}
        /\ \A s \in Rank : s # p => data'[s] = data[s]
    BY <1>1, <1>3, <2>1
  <2>3. /\ Distinct(back[p]) /\ Distinct(list)
        /\ ProcOK(p, op[p], at[p], pend[p], Elements(line[p]), data[p], Elements(back[p]),
                  Elements(list), cb)
    BY ProcFacts
  <2>4. ProcOK(p, op[p], at[p], pend[p], Elements(line[p]) \ {h}, data[p] \cup {h.k},
               Elements(back[p]), Elements(list), cb)
    BY <1>3, <2>3, LargeProc
  <2>5. TypeOK'
    BY <1>1, <1>3, <1>4, <2>1, <2>2 DEF TypeOK
  <2>6. ProcInv(p)' /\ (Holder(p)' <=> Holder(p)) /\ \A s \in Rank : s # p => Same(s)
    BY <1>3, <1>4, <2>1, <2>2, <2>4 DEF ProcInv, Same, SameCalls, Holder
  <2> QED
    BY <1>3, <1>4, <2>3, <2>5, <2>6, OneProc
<1>6. CASE ~op[p][h.k].call.large
  <2>1. Apply(p, h.k) /\ data' = data
    BY <1>2, <1>6 DEF RecvUpdate
  <2>2. PICK k : k = h.k
    OBVIOUS
  <2>3. /\ data' \in [Rank -> SUBSET Nat] /\ data'[p] = data[p] \ {k}
        /\ \A s \in Rank : s # p => data'[s] = data[s]
    BY <1>1, <1>3, <2>1, <2>2
  <2>4. /\ Elements(line'[p]) \subseteq Elements(line[p])
        /\ \A x \in Elements(line'[p]) : IsUpdate(x) => x.k # k
        /\ \A x \in Elements(line[p]) : x \notin Elements(line'[p]) => IsUpdate(x) /\ x.k = k
    BY <1>3, <2>2
  <2>5. UpdateDue(op[p], k, at[p]) /\ Apply(p, k)
    BY <1>3, <2>1, <2>2
  <2> QED
    BY <1>3, <1>4, <2>3, <2>4, <2>5, ApplyStep
<1> QED
  BY <1>5, <1>6

(* DataArrives preserves the invariant. *)
LEMMA DataArrivesStep ==
    ASSUME AtomicInv, NEW p \in Rank, DataArrives(p)
    PROVE  AtomicInv'
<1>1. TypeOK /\ data \in [Rank -> SUBSET Nat] /\ line' \in [Rank -> Seq(Message)]
  BY DEF AtomicInv, TypeOK, DataArrives
<1>2. PICK k \in data[p] : /\ Apply(p, k) /\ data' = [data EXCEPT ![p] = @ \ {k}]
                           /\ UNCHANGED <<at, pend, line, gets, back, lock, list, cb>>
  BY DEF DataArrives
<1>3. /\ LineOK(line[p])
      /\ ProcOK(p, op[p], at[p], pend[p], Elements(line[p]), data[p], Elements(back[p]),
                Elements(list), cb)
  BY ProcFacts
<1>4. UpdateDue(op[p], k, at[p]) /\ \A x \in Elements(line[p]) : IsUpdate(x) => x.k # k
  BY <1>2, <1>3 DEF ProcOK, DataOK, ToHomeOK
<1>5. /\ data' \in [Rank -> SUBSET Nat] /\ data'[p] = data[p] \ {k}
      /\ \A s \in Rank : s # p => data'[s] = data[s]
  BY <1>1, <1>2
<1> QED
  BY <1>1, <1>2, <1>3, <1>4, <1>5, ApplyStep

-----------------------------------------------------------------------------
(* The initial state satisfies the invariant. *)
LEMMA InitInv ==
    ASSUME Init
    PROVE  AtomicInv
<1>1. <<>> \in Seq(Message) /\ <<>> \in Seq(Record) /\ <<>> \in Seq(Rank) /\ Len(<<>>) = 0
  OBVIOUS
<1>2. Elements(<<>>) = {} /\ Distinct(<<>>) /\ LineOK(<<>>)
  BY DEF Elements, Distinct, LineOK
<1>3. 0 \in Value
  BY ModulusAssumption DEF Value
<1>4. TypeOK
  <2>1. mem \in [Loc -> Value]
    BY <1>3 DEF Init
  <2>2. \A p \in Rank : Len(op[p]) <= MaxCalls[p]
    BY <1>1, BoundAssumption DEF Init
  <2> QED
    BY <1>1, <2>1, <2>2 DEF Init, TypeOK, Place
<1>5. ChannelInv
  BY <1>2 DEF Init, ChannelInv
<1>6. ASSUME NEW p \in Rank PROVE ProcInv(p) /\ ~Holder(p)
  <2>1. /\ op[p] = <<>> /\ at[p] = "idle" /\ data[p] = {} /\ Elements(line[p]) = {}
        /\ Elements(back[p]) = {} /\ Elements(list) = {} /\ cb = {}
    BY <1>2 DEF Init
  <2>2. ProcOK(p, op[p], at[p], pend[p], {}, {}, {}, {}, {})
    BY <1>1, <2>1 DEF ProcOK, CallsOK, UpdateComes, ToHomeOK, FromHomeOK, DataOK, WaitsOK
  <2> QED
    BY <2>1, <2>2 DEF ProcInv, Holder, HoldsAt
<1>7. LockInv
  BY <1>6 DEF LockInv, Init
<1> QED
  BY <1>4, <1>5, <1>6, <1>7 DEF AtomicInv

(* Every step preserves the invariant. *)
LEMMA NextInv ==
    ASSUME AtomicInv, [Next]_vars
    PROVE  AtomicInv'
<1>1. CASE UNCHANGED vars
  BY <1>1 DEF vars, AtomicInv, TypeOK, ChannelInv, ProcInv, LockInv, Holder
<1>2. CASE Next
  <2>1. ASSUME NEW p \in Rank, NEW c \in Calls, Enter(p, c) PROVE AtomicInv'
    BY <2>1, EnterStep
  <2>2. ASSUME NEW p \in Rank, CallStep(p) PROVE AtomicInv'
    BY <2>2, StartStep, LockInternalStep, LockedStep, FetchedStep, UnlockInternalStep,
       UnlockDoneStep DEF CallStep
  <2>3. ASSUME NEW p \in Rank, Callback(p) PROVE AtomicInv'
    BY <2>3, RecvLockStep, RecvGetStep, AnswerSentStep, RecvUpdateStep, DataArrivesStep,
       RecvUnlockStep, CallbackDoneStep, GetDoneStep, SendDoneStep DEF Callback
  <2>4. ASSUME HomeStart \/ HomeLock \/ HomeLocked PROVE AtomicInv'
    BY <2>4, HomeStep, HomeLockedStep
  <2> QED
    BY <1>2, <2>1, <2>2, <2>3, <2>4 DEF Next, Progress
<1> QED
  BY <1>1, <1>2

(* The invariant of the calls, the connections and the lock always holds.       *)
THEOREM AtomicInvHolds == Spec => []AtomicInv
<1>1. Init => AtomicInv
  BY InitInv
<1>2. AtomicInv /\ [Next]_vars => AtomicInv'
  BY NextInv
<1> QED
  BY <1>1, <1>2, PTL DEF Spec

(* A process has the lock in the sense of the invariant if it has it in the      *)
(* sense of the property.                                                        *)
LEMMA HoldersAre ==
    ASSUME AtomicInv
    PROVE  LockHolders = {p \in Rank : Holder(p)}
<1>1. ASSUME NEW p \in Rank
      PROVE  /\ (\E i \in DOMAIN back[p] : back[p][i].type = "LOCK") <=> Msg("LOCK", 0) \in Elements(back[p])
             /\ (\E i \in DOMAIN back[p] : back[p][i].type = "UNLOCK") <=> Msg("UNLOCK", 0) \in Elements(back[p])
  <2>1. /\ back[p] \in Seq(Message)
        /\ FromHomeOK(p, op[p], at[p], Elements(line[p]), Elements(back[p]))
    BY ProcFacts DEF ProcOK
  <2>2. DOMAIN back[p] = 1..Len(back[p])
    BY <2>1
  <2>3. /\ Msg("LOCK", 0) \in Elements(back[p]) => \E i \in DOMAIN back[p] : back[p][i].type = "LOCK"
        /\ Msg("UNLOCK", 0) \in Elements(back[p]) => \E i \in DOMAIN back[p] : back[p][i].type = "UNLOCK"
    BY <2>2, MsgFields DEF Elements
  <2>4. \A i \in DOMAIN back[p] : back[p][i] \in Elements(back[p])
    BY <2>2 DEF Elements
  <2> QED
    BY <2>1, <2>3, <2>4 DEF FromHomeOK
<1> QED
  BY <1>1 DEF LockHolders, Holder, HoldsAt

(* lock_internal is set exactly while one process has the lock, and nobody waits *)
(* for a free lock.                                                              *)
THEOREM OneLockHolderHolds == Spec => []OneLockHolder
<1>1. AtomicInv => OneLockHolder
  <2> SUFFICES ASSUME AtomicInv PROVE OneLockHolder
    OBVIOUS
  <2>1. LockHolders = {p \in Rank : Holder(p)} /\ LockInv
    BY HoldersAre DEF AtomicInv
  <2>2. CASE ~lock
    <3>1. LockHolders = {}
      BY <2>1, <2>2 DEF LockInv
    <3>2. Cardinality(LockHolders) = 0
      BY <3>1, FS_EmptySet
    <3> QED
      BY <2>1, <2>2, <3>2 DEF OneLockHolder, LockInv
  <2>3. CASE lock
    <3>1. PICK p \in Rank : Holder(p)
      BY <2>1, <2>3 DEF LockInv
    <3>2. LockHolders = {p}
      BY <2>1, <3>1 DEF LockInv
    <3>3. Cardinality(LockHolders) = 1
      BY <3>2, FS_Singleton
    <3> QED
      BY <2>3, <3>3 DEF OneLockHolder
  <2> QED
    BY <2>2, <2>3
<1> QED
  BY <1>1, AtomicInvHolds, PTL

-----------------------------------------------------------------------------
(* What a step does to the calls and the memory: nothing, a new call, a call     *)
(* that takes effect, or a value that is fetched for a call whose update comes   *)
(* later.  A blocking call takes effect when no other process has the lock.      *)

Quiet == UNCHANGED <<op, mem>>

Alone(p) == Holder(p) \/ \A s \in Rank : ~Holder(s)

OnlyCall(p, k, c) ==
    /\ k \in 1..Len(op[p]) /\ ~op[p][k].done /\ c = op[p][k].call /\ c \in Calls
    /\ op' \in [Rank -> Seq(Record)] /\ \A s \in Rank : s # p => op'[s] = op[s]

TakesEffect(p, k, c) ==
    /\ OnlyCall(p, k, c) /\ NotesEffect(p, k, c)
    /\ mem' = [mem EXCEPT ![c.loc] = Update(c, mem[c.loc])]
    /\ Blocking(c) => Alone(p)

Fetches(p, k, c) ==
    /\ OnlyCall(p, k, c) /\ mem' = mem
    /\ \E r \in Record : /\ Edited(op[p], op'[p], k, r)
                         /\ r.call = c /\ ~r.done /\ r.val = {mem[c.loc]}

Kinds ==
    \/ Quiet
    \/ \E p \in Rank, c \in Calls : Enter(p, c)
    \/ \E p \in Rank, k \in Nat, c \in Calls : TakesEffect(p, k, c) \/ Fetches(p, k, c)

(* A call of Home in place takes effect. *)
LEMMA InPlaceKind ==
    ASSUME AtomicInv, InPlace, at[Home] \in {"start", "lock", "lockWait"},
           at[Home] = "start" \/ Alone(Home)
    PROVE  Kinds
<1>1. PICK k : k = Len(op[Home])
  OBVIOUS
<1>2. PICK c : c = op[Home][k].call
  OBVIOUS
<1>3. /\ k \in 1..Len(op[Home]) /\ Fresh(op[Home][k]) /\ c \in Calls
      /\ op' \in [Rank -> Seq(Record)] /\ \A s \in Rank : s # Home => op'[s] = op[s]
      /\ NotesEffect(Home, k, c)
      /\ mem' = [mem EXCEPT ![c.loc] = Update(c, mem[c.loc])]
  BY <1>1, <1>2, InPlaceFacts
<1>4. Home \in Rank /\ k \in Nat
  BY <1>3, RankAssumption
<1>5. Blocking(c) => Alone(Home)
  <2>1. ProcOK(Home, op[Home], at[Home], pend[Home], Elements(line[Home]), data[Home],
               Elements(back[Home]), Elements(list), cb)
    BY <1>4, ProcFacts
  <2> QED
    BY <1>1, <1>2, <2>1 DEF ProcOK, CallsOK
<1>6. TakesEffect(Home, k, c)
  BY <1>2, <1>3, <1>5 DEF TakesEffect, OnlyCall, Fresh
<1> QED
  BY <1>3, <1>4, <1>6 DEF Kinds

(* The kind of a step of Home on its own window. *)
LEMMA HomeKind ==
    ASSUME AtomicInv, HomeStart \/ HomeLock \/ HomeLocked
    PROVE  Kinds
<1>1. Home \in Rank /\ LockInv
  BY RankAssumption DEF AtomicInv
<1>2. CASE HomeStart
  BY <1>2, InPlaceKind DEF HomeStart, Runs
<1>3. CASE HomeLock
  <2>1. CASE ~lock /\ InPlace
    <3>1. Alone(Home) /\ at[Home] = "lock"
      BY <1>1, <1>3, <2>1 DEF Alone, LockInv, HomeLock, Runs
    <3> QED
      BY <2>1, <3>1, InPlaceKind
  <2>2. CASE UNCHANGED <<mem, op>>
    BY <2>2 DEF Kinds, Quiet
  <2> QED
    BY <1>3, <2>1, <2>2 DEF HomeLock
<1>4. CASE HomeLocked
  <2>1. at[Home] = "lockWait" /\ back[Home] # <<>> /\ InPlace
    BY <1>4 DEF HomeLocked, Runs
  <2>2. /\ back[Home] \in Seq(Message)
        /\ FromHomeOK(Home, op[Home], at[Home], Elements(line[Home]), Elements(back[Home]))
    BY <1>1, ProcFacts DEF ProcOK
  <2>3. Elements(back[Home]) # {} /\ Elements(back[Home]) \subseteq Message
    BY <2>1, <2>2, ElementsType
  <2>4. PICK m \in Elements(back[Home]) : TRUE
    BY <2>3
  <2>5. m.type \in {"LOCK", "GET", "ACCUMULATE", "PUT", "UNLOCK"}
    BY <2>3, <2>4 DEF Message
  <2>6. m = Msg("LOCK", 0)
    BY <2>1, <2>2, <2>4, <2>5 DEF FromHomeOK, IsUpdate
  <2>7. Alone(Home)
    BY <2>4, <2>6 DEF Alone, Holder, HoldsAt
  <2> QED
    BY <2>1, <2>7, InPlaceKind
<1> QED
  BY <1>2, <1>3, <1>4

(* The kind of a step that answers a get. *)
LEMMA RecvGetKind ==
    ASSUME AtomicInv, NEW p \in Rank, RecvGet(p)
    PROVE  Kinds
<1>1. PICK h : h = Head(line[p])
  OBVIOUS
<1>2. PICK k : k = h.k
  OBVIOUS
<1>3. PICK c : c = op[p][k].call
  OBVIOUS
<1>4. /\ h \in Elements(line[p]) /\ h.type = "GET"
      /\ k \in 1..Len(op[p]) /\ Fresh(op[p][k]) /\ c \in Calls /\ mem[c.loc] \in Value
      /\ op' \in [Rank -> Seq(Record)] /\ \A s \in Rank : s # p => op'[s] = op[s]
      /\ Reads(p, k, c)
  BY <1>1, <1>2, <1>3, RecvGetFacts
<1>5. PICK r \in Record : /\ Edited(op[p], op'[p], k, r)
                          /\ r.call = c /\ r.val = {mem[c.loc]}
                          /\ r.done <=> c.f = "no_op" \/ Mismatch(r)
  BY <1>4 DEF Reads
<1>6. mem' = mem /\ k \in Nat /\ mem \in [Loc -> Value] /\ c.loc \in Loc
  <2>1. mem' = mem /\ mem \in [Loc -> Value]
    BY DEF RecvGet, AtomicInv, TypeOK
  <2>2. k \in Nat
    BY <1>4
  <2>3. c.loc \in Loc
    BY <1>4, UpdateType
  <2> QED
    BY <2>1, <2>2, <2>3
<1>7. OnlyCall(p, k, c)
  BY <1>3, <1>4 DEF OnlyCall, Fresh
<1>8. CASE r.done
  <2>1. Update(c, mem[c.loc]) = mem[c.loc] /\ Fetching(c)
    BY <1>5, <1>8 DEF Update, Fetching, Mismatch
  <2>2. NotesEffect(p, k, c)
    BY <1>5, <1>8, <2>1 DEF NotesEffect, Found
  <2>3. mem' = [mem EXCEPT ![c.loc] = Update(c, mem[c.loc])]
    BY <1>6, <2>1
  <2>4. Blocking(c) => Alone(p)
    <3>1. ToHomeOK(p, op[p], at[p], Elements(line[p]), data[p])
      BY ProcFacts DEF ProcOK
    <3>2. Blocking(c) => at[p] = "getWait"
      BY <1>2, <1>3, <1>4, <3>1 DEF ToHomeOK, Blocking
    <3> QED
      BY <3>2 DEF Alone, Holder, HoldsAt
  <2>5. TakesEffect(p, k, c)
    BY <1>7, <2>2, <2>3, <2>4 DEF TakesEffect
  <2> QED
    BY <1>4, <1>6, <2>5 DEF Kinds
<1>9. CASE ~r.done
  <2>1. Fetches(p, k, c)
    BY <1>5, <1>6, <1>7, <1>9 DEF Fetches
  <2> QED
    BY <1>4, <1>6, <2>1 DEF Kinds
<1> QED
  BY <1>8, <1>9

(* The kind of a step that applies an update. *)
LEMMA ApplyKind ==
    ASSUME AtomicInv, FetchedInv, NEW p \in Rank, NEW k, UpdateDue(op[p], k, at[p]), Apply(p, k)
    PROVE  Kinds
<1>1. PICK c : c = op[p][k].call
  OBVIOUS
<1>2. /\ k \in 1..Len(op[p]) /\ ~op[p][k].done /\ c \in Calls
      /\ op' \in [Rank -> Seq(Record)] /\ \A s \in Rank : s # p => op'[s] = op[s]
      /\ Applied(p, k, c) /\ mem' = [mem EXCEPT ![c.loc] = Stored(c, mem[c.loc])]
  BY <1>1, ApplyFacts
<1>3. ProcOK(p, op[p], at[p], pend[p], Elements(line[p]), data[p], Elements(back[p]),
             Elements(list), cb)
  BY ProcFacts
<1>5. Stored(c, mem[c.loc]) = Update(c, mem[c.loc]) /\ op[p][k].val = Found(c, mem)
  <2>1. CASE c.f = "accumulate"
    BY <1>1, <1>2, <1>3, <2>1 DEF ProcOK, CallsOK, Fetching, Found, Stored
  <2>2. CASE c.f # "accumulate"
    <3>1. Blocking(c) /\ op[p][k].val # {} /\ ~Mismatch(op[p][k])
      BY <1>1, <2>2 DEF UpdateDue
    <3>2. op[p][k].val = {mem[c.loc]}
      BY <1>1, <1>2, <3>1 DEF FetchedInv, ValuesOK
    <3> QED
      BY <1>1, <2>2, <3>1, <3>2 DEF Mismatch, Stored, Update, Found, Fetching, Blocking
  <2> QED
    BY <2>1, <2>2
<1>6. PICK r \in Record : Edited(op[p], op'[p], k, r) /\ r.call = c /\ r.val = op[p][k].val /\ r.done
  BY <1>2 DEF Applied
<1>7. NotesEffect(p, k, c)
  BY <1>5, <1>6 DEF NotesEffect
<1>8. Blocking(c) => Alone(p)
  <2>1. SUFFICES ASSUME Blocking(c) PROVE Holder(p)
    BY DEF Alone
  <2>2. k = Len(op[p]) /\ at[p] \in {"unlock", "unlockWait"}
    BY <1>1, <2>1 DEF UpdateDue, Blocking
  <2>3. Msg("UNLOCK", 0) \notin Elements(back[p])
    BY <1>2, <1>3, <2>2, MsgFields DEF ProcOK, FromHomeOK
  <2> QED
    BY <2>2, <2>3 DEF Holder, HoldsAt
<1>9. TakesEffect(p, k, c) /\ k \in Nat
  BY <1>1, <1>2, <1>5, <1>7, <1>8 DEF TakesEffect, OnlyCall
<1> QED
  BY <1>2, <1>9 DEF Kinds

(* The kind of a step that receives an update. *)
LEMMA UpdateKind ==
    ASSUME AtomicInv, FetchedInv, NEW p \in Rank, RecvUpdate(p) \/ DataArrives(p)
    PROVE  Kinds
<1>1. CASE RecvUpdate(p)
  <2>1. PICK h : h = Head(line[p])
    OBVIOUS
  <2>2. UpdateDue(op[p], h.k, at[p])
    BY <1>1, <2>1, UpdateHeader
  <2>3. Apply(p, h.k) \/ UNCHANGED <<mem, op>>
    BY <1>1, <2>1 DEF RecvUpdate
  <2> QED
    BY <2>2, <2>3, ApplyKind DEF Kinds, Quiet
<1>2. CASE DataArrives(p)
  <2>1. PICK k \in data[p] : Apply(p, k)
    BY <1>2 DEF DataArrives
  <2>2. UpdateDue(op[p], k, at[p])
    BY <2>1, ProcFacts DEF ProcOK, DataOK
  <2> QED
    BY <2>1, <2>2, ApplyKind
<1> QED
  BY <1>1, <1>2

(* Every step is of one of the kinds. *)
LEMMA NextKind ==
    ASSUME AtomicInv, FetchedInv, [Next]_vars
    PROVE  Kinds
<1>1. CASE UNCHANGED vars
  BY <1>1 DEF vars, Kinds, Quiet
<1>2. CASE Next
  <2>1. ASSUME NEW p \in Rank, NEW c \in Calls, Enter(p, c) PROVE Kinds
    BY <2>1 DEF Kinds
  <2>2. ASSUME NEW p \in Rank, CallStep(p) PROVE Quiet
    BY <2>2 DEF CallStep, Start, LockInternal, Locked, Fetched, UnlockInternal, UnlockDone, Quiet
  <2>3. ASSUME NEW p \in Rank, Callback(p) PROVE Kinds
    <3>1. CASE RecvLock(p) \/ AnswerSent(p) \/ RecvUnlock(p) \/ CallbackDone(p)
               \/ GetDone(p) \/ SendDone(p)
      <4>1. Quiet
        BY <3>1 DEF RecvLock, AnswerSent, RecvUnlock, CallbackDone, GetDone, SendDone, Quiet
      <4> QED
        BY <4>1 DEF Kinds
    <3> QED
      BY <2>3, <3>1, RecvGetKind, UpdateKind DEF Callback
  <2>4. ASSUME HomeStart \/ HomeLock \/ HomeLocked PROVE Kinds
    BY <2>4, HomeKind
  <2> QED
    BY <1>2, <2>1, <2>2, <2>3, <2>4 DEF Next, Progress, Kinds
<1> QED
  BY <1>1, <1>2

(* Two calls on one location: a value that was fetched for call j of s, whose    *)
(* update is still to come, is not overwritten by another call k of p.           *)
LEMMA Exclusive ==
    ASSUME AtomicInv, Separate, NEW p \in Rank, NEW k, NEW c, TakesEffect(p, k, c),
           NEW s \in Rank, NEW j \in 1..Len(op[s]), Blocking(op[s][j].call), ~op[s][j].done,
           op[s][j].val # {}, op[s][j].call.loc = c.loc
    PROVE  c.f = "no_op" \/ (s = p /\ j = k)
<1>1. k \in 1..Len(op[p]) /\ ~op[p][k].done /\ c = op[p][k].call /\ c \in Calls
  BY DEF TakesEffect, OnlyCall
<1>2. /\ op[s] \in Seq(Record) /\ at[s] \in Place
      /\ ProcOK(s, op[s], at[s], pend[s], Elements(line[s]), data[s], Elements(back[s]),
                Elements(list), cb)
  BY ProcFacts
<1>3. j = Len(op[s]) /\ Holder(s)
  BY <1>2, FetchedHolds DEF Holder
<1>4. op[s][j].call \in Calls
  BY <1>2, RecordFields
<1>5. c.f # "accumulate"
  BY <1>1, <1>4 DEF Separate
<1>6. c.f \in {"get_accumulate", "compare_and_swap", "no_op", "accumulate"}
  BY <1>1, CallAssumption DEF Call
<1>7. CASE Blocking(c)
  <2>1. s = p
    BY <1>3, <1>7 DEF TakesEffect, Alone, AtomicInv, LockInv
  <2>2. k = Len(op[p])
    BY <1>1, <1>7, ProcFacts DEF ProcOK, CallsOK
  <2> QED
    BY <1>3, <2>1, <2>2
<1> QED
  BY <1>5, <1>6, <1>7 DEF Blocking

(* A call that takes effect keeps the values that others have fetched. *)
LEMMA EffectKeeps ==
    ASSUME AtomicInv, FetchedInv, Separate, NEW p \in Rank, NEW k, NEW c, TakesEffect(p, k, c)
    PROVE  FetchedInv'
<1> SUFFICES ASSUME NEW s \in Rank, NEW j \in 1..Len(op'[s]), Blocking(op'[s][j].call),
                    ~op'[s][j].done, op'[s][j].val # {}
             PROVE  op'[s][j].val = {mem'[op'[s][j].call.loc]}
  BY DEF FetchedInv, ValuesOK
<1>1. PICK r \in Record : Edited(op[p], op'[p], k, r) /\ r.done
  BY DEF TakesEffect, NotesEffect
<1>2. \A q \in Rank : q # p => op'[q] = op[q]
  BY DEF TakesEffect, OnlyCall
<1>3. ~(s = p /\ j = k)
  BY <1>1 DEF Edited
<1>4. op'[s][j] = op[s][j] /\ j \in 1..Len(op[s])
  BY <1>1, <1>2, <1>3 DEF Edited
<1>5. op[s][j].val = {mem[op[s][j].call.loc]}
  BY <1>4 DEF FetchedInv, ValuesOK
<1>6. /\ c \in Calls /\ mem \in [Loc -> Value] /\ c.loc \in Loc
      /\ mem' = [mem EXCEPT ![c.loc] = Update(c, mem[c.loc])]
  <2>1. c \in Calls /\ mem \in [Loc -> Value] /\ mem' = [mem EXCEPT ![c.loc] = Update(c, mem[c.loc])]
    BY DEF TakesEffect, OnlyCall, AtomicInv, TypeOK
  <2>2. c.loc \in Loc
    BY <2>1, CallAssumption DEF Call
  <2> QED
    BY <2>1, <2>2
<1>7. op[s][j].call.loc \in Loc
  <2>1. op[s][j] \in Record
    BY <1>4, ProcFacts
  <2> QED
    BY <2>1, RecordFields
<1>8. op[s][j].call.loc # c.loc \/ c.f = "no_op"
  BY <1>3, <1>4, Exclusive
<1>9. c.f = "no_op" => Update(c, mem[c.loc]) = mem[c.loc]
  BY DEF Update
<1>10. mem'[op[s][j].call.loc] = mem[op[s][j].call.loc]
  BY <1>6, <1>7, <1>8, <1>9
<1> QED
  BY <1>4, <1>5, <1>10

(* Every step keeps the values that were fetched. *)
LEMMA KindsKeep ==
    ASSUME AtomicInv, FetchedInv, Separate, Kinds
    PROVE  FetchedInv'
<1>1. CASE Quiet
  BY <1>1 DEF Quiet, FetchedInv
<1>2. ASSUME NEW p \in Rank, NEW c \in Calls, Enter(p, c) PROVE FetchedInv'
  <2> SUFFICES ASSUME NEW s \in Rank, NEW j \in 1..Len(op'[s]), Blocking(op'[s][j].call),
                      ~op'[s][j].done, op'[s][j].val # {}
               PROVE  op'[s][j].val = {mem'[op'[s][j].call.loc]}
    BY DEF FetchedInv, ValuesOK
  <2>1. op \in [Rank -> Seq(Record)] /\ mem' = mem
    BY <1>2 DEF AtomicInv, TypeOK, Enter
  <2>2. PICK r : r = [call |-> c, val |-> {}, done |-> FALSE]
    OBVIOUS
  <2>3. r \in Record /\ r.val = {}
    BY <2>2 DEF Record
  <2>4. op'[p] = Append(op[p], r) /\ \A q \in Rank : q # p => op'[q] = op[q]
    BY <1>2, <2>1, <2>2 DEF Enter
  <2>5. /\ Len(op'[p]) = Len(op[p]) + 1 /\ Len(op[p]) \in Nat
        /\ op'[p][Len(op[p]) + 1] = r /\ \A i \in 1..Len(op[p]) : op'[p][i] = op[p][i]
    BY <2>1, <2>3, <2>4, AppendElements
  <2>6. ~(s = p /\ j = Len(op[p]) + 1)
    BY <2>3, <2>5
  <2>7. op'[s][j] = op[s][j] /\ j \in 1..Len(op[s])
    BY <2>4, <2>5, <2>6
  <2> QED
    BY <2>1, <2>7 DEF FetchedInv, ValuesOK
<1>3. ASSUME NEW p \in Rank, NEW k \in Nat, NEW c \in Calls, TakesEffect(p, k, c) PROVE FetchedInv'
  BY <1>3, EffectKeeps
<1>4. ASSUME NEW p \in Rank, NEW k \in Nat, NEW c \in Calls, Fetches(p, k, c) PROVE FetchedInv'
  <2> SUFFICES ASSUME NEW s \in Rank, NEW j \in 1..Len(op'[s]), Blocking(op'[s][j].call),
                      ~op'[s][j].done, op'[s][j].val # {}
               PROVE  op'[s][j].val = {mem'[op'[s][j].call.loc]}
    BY DEF FetchedInv, ValuesOK
  <2>1. PICK r \in Record : Edited(op[p], op'[p], k, r) /\ r.call = c /\ r.val = {mem[c.loc]}
    BY <1>4 DEF Fetches
  <2>2. mem' = mem /\ \A q \in Rank : q # p => op'[q] = op[q]
    BY <1>4 DEF Fetches, OnlyCall
  <2>3. CASE s = p /\ j = k
    BY <2>1, <2>2, <2>3 DEF Edited
  <2>4. CASE ~(s = p /\ j = k)
    <3>1. op'[s][j] = op[s][j] /\ j \in 1..Len(op[s])
      BY <2>1, <2>2, <2>4 DEF Edited
    <3> QED
      BY <2>2, <3>1 DEF FetchedInv, ValuesOK
  <2> QED
    BY <2>3, <2>4
<1> QED
  BY <1>1, <1>2, <1>3, <1>4 DEF Kinds

(* If no accumulate meets a call that takes the lock, the value that such a      *)
(* call has fetched stays in the window until the call's update replaces it.     *)
THEOREM FetchedInvHolds ==
    ASSUME Separate
    PROVE  Spec => [](AtomicInv /\ FetchedInv)
<1>1. Init => AtomicInv /\ FetchedInv
  <2> SUFFICES ASSUME Init PROVE AtomicInv /\ FetchedInv
    OBVIOUS
  <2>1. \A p \in Rank : Len(op[p]) = 0
    BY DEF Init
  <2> QED
    BY <2>1, InitInv DEF FetchedInv, ValuesOK
<1>2. AtomicInv /\ FetchedInv /\ [Next]_vars => AtomicInv' /\ FetchedInv'
  BY NextInv, NextKind, KindsKeep
<1> QED
  BY <1>1, <1>2, PTL DEF Spec

(* The update of a fetching call replaces the value that the call returns. *)
THEOREM FetchesWhatItReplacesHolds ==
    ASSUME Separate
    PROVE  Spec => FetchesWhatItReplaces
<1>1. ASSUME AtomicInv, FetchedInv, [Next]_vars, NEW p \in Rank, NEW k \in DOMAIN op[p],
             ~op[p][k].done, op'[p][k].done, Blocking(op[p][k].call)
      PROVE  op'[p][k].val = {mem[op[p][k].call.loc]}
  <2>1. Kinds /\ op \in [Rank -> Seq(Record)] /\ op[p] \in Seq(Record)
    BY <1>1, NextKind DEF AtomicInv, TypeOK
  <2>2. k \in 1..Len(op[p])
    BY <1>1, <2>1
  <2>3. op'[p][k] # op[p][k]
    BY <1>1
  <2>4. ASSUME NEW q \in Rank, NEW c \in Calls, Enter(q, c) PROVE FALSE
    <3>0. PICK r : r = [call |-> c, val |-> {}, done |-> FALSE]
      OBVIOUS
    <3>1. r = [call |-> c, val |-> {}, done |-> FALSE] /\ r \in Record
      BY <3>0 DEF Record
    <3>2. op'[q] = Append(op[q], r) /\ \A s \in Rank : s # q => op'[s] = op[s]
      BY <2>1, <2>4, <3>1 DEF Enter
    <3>3. \A i \in 1..Len(op[q]) : op'[q][i] = op[q][i]
      BY <2>1, <3>1, <3>2, AppendElements
    <3> QED
      BY <2>2, <2>3, <3>2, <3>3
  <2>5. ASSUME NEW q \in Rank, NEW n \in Nat, NEW c \in Calls, TakesEffect(q, n, c)
        PROVE  op'[p][k].val = {mem[op[p][k].call.loc]}
    <3>1. PICK r \in Record : Edited(op[q], op'[q], n, r) /\ r.call = c /\ r.val = Found(c, mem)
      BY <2>5 DEF TakesEffect, NotesEffect
    <3>2. c = op[q][n].call /\ \A s \in Rank : s # q => op'[s] = op[s]
      BY <2>5 DEF TakesEffect, OnlyCall
    <3>3. p = q /\ k = n
      BY <2>2, <2>3, <3>1, <3>2 DEF Edited
    <3> QED
      BY <1>1, <3>1, <3>2, <3>3 DEF Edited, Found, Fetching, Blocking
  <2>6. ASSUME NEW q \in Rank, NEW n \in Nat, NEW c \in Calls, Fetches(q, n, c)
        PROVE  FALSE
    <3>1. PICK r \in Record : Edited(op[q], op'[q], n, r) /\ ~r.done
      BY <2>6 DEF Fetches
    <3>2. \A s \in Rank : s # q => op'[s] = op[s]
      BY <2>6 DEF Fetches, OnlyCall
    <3>3. p = q /\ k = n
      BY <2>2, <2>3, <3>1, <3>2 DEF Edited
    <3> QED
      BY <1>1, <3>1, <3>3 DEF Edited
  <2> QED
    BY <2>1, <2>3, <2>4, <2>5, <2>6 DEF Kinds, Quiet
<1>2. AtomicInv /\ FetchedInv /\ [Next]_vars =>
        [\A p \in Rank : \A k \in DOMAIN op[p] :
           ~op[p][k].done /\ op'[p][k].done /\ Blocking(op[p][k].call)
               => op'[p][k].val = {mem[op[p][k].call.loc]}]_vars
  BY <1>1
<1> QED
  BY <1>2, FetchedInvHolds, PTL DEF Spec, FetchesWhatItReplaces

-----------------------------------------------------------------------------
(* The refinement of AtomicMemory. *)

(* The log of AtomicMemory. *)
View == [p \in Rank |-> [k \in 1..MaxIndex |-> Entry(p, k)]]

(* The bound on the number of calls of any process. *)
LEMMA MaxIndexFacts ==
    MaxIndex \in Nat /\ \A p \in Rank : MaxCalls[p] \in Nat /\ MaxCalls[p] <= MaxIndex
<1>1. \E n \in {MaxCalls[p] : p \in Rank} : \A p \in Rank : MaxCalls[p] <= n
  BY BoundAssumption
<1>2. MaxIndex \in {MaxCalls[p] : p \in Rank} /\ \A p \in Rank : MaxCalls[p] <= MaxIndex
  BY <1>1, Zenon DEF MaxIndex
<1> QED
  BY <1>2, BoundAssumption

(* What the log shows of a call, before and after a step. *)
LEMMA ViewAt ==
    ASSUME NEW p \in Rank, NEW k \in 1..MaxIndex
    PROVE  View[p][k] = Entry(p, k) /\ View'[p][k] = Entry(p, k)'
BY DEF View

(* A step that changes at most what the log shows of call k of p. *)
LEMMA ViewEdit ==
    ASSUME NEW p \in Rank, NEW k \in 1..MaxIndex, NEW e, Entry(p, k)' = e,
           \A s \in Rank : \A j \in 1..MaxIndex : ~(s = p /\ j = k) => Entry(s, j)' = Entry(s, j)
    PROVE  View' = [View EXCEPT ![p] = [View[p] EXCEPT ![k] = e]]
<1>1. PICK f : f = [View EXCEPT ![p] = [View[p] EXCEPT ![k] = e]]
  OBVIOUS
<1>2. f = [s \in Rank |-> [j \in 1..MaxIndex |-> IF s = p /\ j = k THEN e ELSE Entry(s, j)]]
  BY <1>1 DEF View
<1>3. View' = [s \in Rank |-> [j \in 1..MaxIndex |-> Entry(s, j)']]
  BY DEF View
<1>4. ASSUME NEW s \in Rank PROVE View'[s] = f[s]
  <2>1. View'[s] = [j \in 1..MaxIndex |-> Entry(s, j)']
    BY <1>3
  <2>2. f[s] = [j \in 1..MaxIndex |-> IF s = p /\ j = k THEN e ELSE Entry(s, j)]
    BY <1>2
  <2>3. \A j \in 1..MaxIndex : View'[s][j] = f[s][j]
    BY <2>1, <2>2
  <2> QED
    BY <2>1, <2>2, <2>3
<1>5. View' = [s \in Rank |-> View'[s]]
  BY <1>3
<1>6. f = [s \in Rank |-> f[s]]
  BY <1>2
<1>7. View' = f
  BY <1>4, <1>5, <1>6
<1> QED
  BY <1>1, <1>7

(* Enter issues a call of the abstract memory. *)
LEMMA EnterIssues ==
    ASSUME AtomicInv, NEW p \in Rank, NEW c \in Calls, Enter(p, c)
    PROVE  Memory!Next
<1>1. op \in [Rank -> Seq(Record)] /\ mem' = mem /\ at[p] = "idle"
  BY DEF AtomicInv, TypeOK, Enter, Runs
<1>2. PICK k : k = Len(op[p]) + 1
  OBVIOUS
<1>3. /\ op[p] \in Seq(Record) /\ Len(op[p]) \in Nat
      /\ ProcOK(p, op[p], at[p], pend[p], Elements(line[p]), data[p], Elements(back[p]),
                Elements(list), cb)
  BY ProcFacts
<1>4. k \in 1..MaxIndex
  BY <1>2, <1>3, MaxIndexFacts DEF Enter
<1>5. PICK r : r = [call |-> c, val |-> {}, done |-> FALSE]
  OBVIOUS
<1>6. r \in Record /\ r.call = c /\ r.val = {} /\ r.done = FALSE
  BY <1>5 DEF Record
<1>7. op'[p] = Append(op[p], r) /\ \A q \in Rank : q # p => op'[q] = op[q]
  BY <1>1, <1>5 DEF Enter
<1>8. /\ op'[p] \in Seq(Record) /\ Len(op'[p]) = k
      /\ op'[p][k] = r /\ \A i \in 1..Len(op[p]) : op'[p][i] = op[p][i]
  BY <1>2, <1>3, <1>6, <1>7, AppendElements
<1>9. DOMAIN op[p] = 1..Len(op[p]) /\ DOMAIN op'[p] = 1..k /\ k \notin 1..Len(op[p])
  BY <1>2, <1>3, <1>8
<1>10. PICK e : e = [call |-> {c}, done |-> FALSE, val |-> {}]
  OBVIOUS
<1>11. Entry(p, k)' = e
  <2>1. k \in DOMAIN op'[p]
    BY <1>4, <1>9
  <2> QED
    BY <1>6, <1>8, <1>10, <2>1 DEF Entry
<1>12. ASSUME NEW s \in Rank, NEW j \in 1..MaxIndex, ~(s = p /\ j = k)
       PROVE  Entry(s, j)' = Entry(s, j)
  <2>1. CASE s # p
    BY <1>7, <2>1 DEF Entry
  <2>2. CASE s = p
    <3>1. j \in DOMAIN op'[p] <=> j \in DOMAIN op[p]
      BY <1>2, <1>3, <1>9, <1>12, <2>2
    <3>2. j \in DOMAIN op[p] => op'[p][j] = op[p][j]
      BY <1>8, <1>9
    <3> QED
      BY <2>2, <3>1, <3>2 DEF Entry
  <2> QED
    BY <2>1, <2>2
<1>13. View' = [View EXCEPT ![p] = [View[p] EXCEPT ![k] = e]]
  BY <1>4, <1>11, <1>12, ViewEdit
<1>14. View[p][k] = Memory!NoCall
  BY <1>4, <1>9, ViewAt DEF Entry, Memory!NoCall
<1>15. ASSUME NEW j \in 1..MaxIndex, j < k
       PROVE  /\ View[p][j] # Memory!NoCall
              /\ \A d \in View[p][j].call : Blocking(d) => View[p][j].done
  <2>1. j \in 1..Len(op[p]) /\ j \in DOMAIN op[p]
    BY <1>2, <1>3, <1>9, <1>15
  <2>2. PICK v : v = View[p][j]
    OBVIOUS
  <2>3. v.call = {op[p][j].call} /\ v.done = op[p][j].done
    <3>1. v = Entry(p, j)
      BY <2>2, ViewAt
    <3>2. PICK x : x = IF op[p][j].done THEN op[p][j].val ELSE {}
      OBVIOUS
    <3>3. v = [call |-> {op[p][j].call}, done |-> op[p][j].done, val |-> x]
      BY <2>1, <3>1, <3>2, Zenon DEF Entry
    <3> QED
      BY <3>3
  <2>4. Blocking(op[p][j].call) => op[p][j].done
    BY <1>1, <1>3, <2>1 DEF ProcOK, CallsOK
  <2>5. v # Memory!NoCall
    BY <2>3 DEF Memory!NoCall
  <2> QED
    BY <2>2, <2>3, <2>4, <2>5
<1>16. Memory!Issue(p, k, c)
  BY <1>1, <1>10, <1>13, <1>14, <1>15 DEF Memory!Issue, View
<1> QED
  BY <1>4, <1>16 DEF Memory!Next

(* A call that takes effect does so in the abstract memory. *)
LEMMA EffectRefines ==
    ASSUME AtomicInv, NEW p \in Rank, NEW k, NEW c, TakesEffect(p, k, c)
    PROVE  Memory!Next
<1>1. /\ k \in 1..Len(op[p]) /\ ~op[p][k].done /\ c = op[p][k].call /\ c \in Calls
      /\ \A s \in Rank : s # p => op'[s] = op[s]
      /\ mem' = [mem EXCEPT ![c.loc] = Update(c, mem[c.loc])]
  BY DEF TakesEffect, OnlyCall
<1>2. PICK r \in Record : /\ Edited(op[p], op'[p], k, r)
                          /\ r.call = c /\ r.done /\ r.val = Found(c, mem)
  BY DEF TakesEffect, NotesEffect
<1>3. op[p] \in Seq(Record) /\ Len(op[p]) \in Nat /\ Len(op[p]) <= MaxCalls[p]
  BY ProcFacts DEF AtomicInv, TypeOK
<1>4. k \in 1..MaxIndex
  BY <1>1, <1>3, MaxIndexFacts
<1>5. DOMAIN op[p] = 1..Len(op[p]) /\ DOMAIN op'[p] = 1..Len(op[p])
  BY <1>2, <1>3 DEF Edited
<1>6. PICK v : v = Found(c, mem)
  OBVIOUS
<1>7. PICK e : e = [call |-> {c}, done |-> TRUE, val |-> v]
  OBVIOUS
<1>8. op'[p][k] = r /\ r.done = TRUE
  BY <1>2, RecordFields DEF Edited
<1>9. Entry(p, k)' = e
  BY <1>1, <1>2, <1>5, <1>6, <1>7, <1>8 DEF Entry
<1>10. ASSUME NEW s \in Rank, NEW j \in 1..MaxIndex, ~(s = p /\ j = k)
       PROVE  Entry(s, j)' = Entry(s, j)
  <2>1. CASE s # p
    BY <1>1, <2>1 DEF Entry
  <2>2. CASE s = p
    <3>1. j \in DOMAIN op[p] => op'[p][j] = op[p][j]
      BY <1>2, <1>5, <1>10, <2>2 DEF Edited
    <3> QED
      BY <1>5, <2>2, <3>1 DEF Entry
  <2> QED
    BY <2>1, <2>2
<1>11. View' = [View EXCEPT ![p] = [View[p] EXCEPT ![k] = e]]
  BY <1>4, <1>9, <1>10, ViewEdit
<1>12. View[p][k] = [call |-> {c}, done |-> FALSE, val |-> {}]
  <2>1. View[p][k] = Entry(p, k) /\ k \in DOMAIN op[p]
    BY <1>1, <1>4, <1>5, ViewAt
  <2>2. op[p][k].done = FALSE
    BY <1>1, <1>3, RecordFields
  <2> QED
    BY <1>1, <2>1, <2>2 DEF Entry
<1>13. c \in View[p][k].call /\ ~View[p][k].done
  BY <1>12
<1>14. View' = [View EXCEPT ![p][k].done = TRUE, ![p][k].val = v]
  <2>1. PICK w : w = View[p][k]
    OBVIOUS
  <2>2. e = [w EXCEPT !.done = TRUE, !.val = v]
    <3>1. DOMAIN w = {"call", "done", "val"} /\ w.call = {c}
      BY <1>12, <2>1
    <3>2. DOMAIN e = {"call", "done", "val"} /\ e.call = {c} /\ e.done = TRUE /\ e.val = v
      BY <1>7
    <3>3. e = [i \in DOMAIN w |-> e[i]]
      BY <1>7, <3>1
    <3>4. [w EXCEPT !.done = TRUE, !.val = v]
            = [i \in DOMAIN w |-> IF i = "val" THEN v ELSE IF i = "done" THEN TRUE ELSE w[i]]
      BY <1>12, <2>1
    <3> QED
      BY <3>1, <3>2, <3>3, <3>4
  <2>3. DOMAIN View = Rank /\ DOMAIN View[p] = 1..MaxIndex
    BY DEF View
  <2> QED
    BY <1>4, <1>11, <2>1, <2>2, <2>3
<1>15. Memory!TakeEffect(p, k)
  BY <1>1, <1>6, <1>13, <1>14 DEF Memory!TakeEffect, View, Found
<1> QED
  BY <1>4, <1>15 DEF Memory!Next

(* The other steps change nothing that the abstract memory shows. *)
LEMMA OthersStutter ==
    ASSUME AtomicInv, Quiet \/ \E p \in Rank, k \in Nat, c \in Calls : Fetches(p, k, c)
    PROVE  UNCHANGED Memory!vars
<1>1. mem' = mem
  BY DEF Quiet, Fetches
<1>2. ASSUME NEW s \in Rank, NEW j \in 1..MaxIndex PROVE Entry(s, j)' = Entry(s, j)
  <2>1. CASE Quiet
    BY <2>1 DEF Quiet, Entry
  <2>2. ASSUME NEW p \in Rank, NEW k \in Nat, NEW c \in Calls, Fetches(p, k, c)
        PROVE  Entry(s, j)' = Entry(s, j)
    <3>1. PICK r \in Record : Edited(op[p], op'[p], k, r) /\ r.call = c /\ ~r.done
      BY <2>2 DEF Fetches
    <3>2. /\ k \in 1..Len(op[p]) /\ ~op[p][k].done /\ c = op[p][k].call
          /\ \A q \in Rank : q # p => op'[q] = op[q]
      BY <2>2 DEF Fetches, OnlyCall
    <3>3. op[p] \in Seq(Record)
      BY ProcFacts
    <3>4. DOMAIN op[p] = 1..Len(op[p]) /\ DOMAIN op'[p] = 1..Len(op[p])
      BY <3>1, <3>3 DEF Edited
    <3>5. op'[p][k] = r /\ r.done = op[p][k].done
      BY <3>1, <3>2, <3>3, RecordFields DEF Edited
    <3>6. CASE s # p
      BY <3>2, <3>6 DEF Entry
    <3>7. CASE s = p /\ j # k
      <4>1. j \in DOMAIN op[p] => op'[p][j] = op[p][j]
        BY <3>1, <3>4, <3>7 DEF Edited
      <4> QED
        BY <3>4, <3>7, <4>1 DEF Entry
    <3>8. CASE s = p /\ j = k
      BY <3>1, <3>2, <3>4, <3>5, <3>8 DEF Entry
    <3> QED
      BY <3>6, <3>7, <3>8
  <2> QED
    BY <2>1, <2>2
<1>3. View' = View
  BY <1>2 DEF View
<1> QED
  BY <1>1, <1>3 DEF Memory!vars, View

(* If no accumulate meets a call that takes the lock, the calls on the window    *)
(* behave like AtomicMemory: get_accumulate, fetch_and_op and compare_and_swap   *)
(* are atomic, for any number of processes, calls and locations.                 *)
THEOREM MemoryRefinement ==
    ASSUME Separate
    PROVE  Spec => MemorySpec
<1>1. Init => Memory!Init
  <2> SUFFICES ASSUME Init PROVE Memory!Init
    OBVIOUS
  <2>1. 0 \in Value
    BY ModulusAssumption DEF Value
  <2>2. mem \in [Loc -> Value]
    BY <2>1 DEF Init
  <2>3. ASSUME NEW p \in Rank, NEW k \in 1..MaxIndex PROVE Entry(p, k) = Memory!NoCall
    BY DEF Init, Entry, Memory!NoCall
  <2>4. View = [p \in Rank |-> [k \in 1..MaxIndex |-> Memory!NoCall]]
    BY <2>3 DEF View
  <2> QED
    BY <2>2, <2>4 DEF Memory!Init, View
<1>2. AtomicInv /\ FetchedInv /\ [Next]_vars => [Memory!Next]_(Memory!vars)
  BY NextKind, EnterIssues, EffectRefines, OthersStutter DEF Kinds
<1> QED
  BY <1>1, <1>2, FetchedInvHolds, PTL DEF Spec, MemorySpec, Memory!Spec
=============================================================================
