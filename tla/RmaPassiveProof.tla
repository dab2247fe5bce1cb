-------------------------- MODULE RmaPassiveProof --------------------------
(***************************************************************************)
(* Proofs about RmaPassive: what one rank at a time shows, and its requests *)
(* and answers: every process that waits has one request, queued request,   *)
(* waiting callback or answer at each rank it waits for, and nobody else    *)
(* has any.  The last part is about the locks and counters.                 *)
(***************************************************************************)
EXTENDS RmaPassive, FiniteSetTheorems, TLAPS

-----------------------------------------------------------------------------
(* Type correctness *)

(* The ranks of the communicator are ranks, and so are those a program locks. *)
LEMMA MemberFacts ==
    ASSUME TypeOK
    PROVE  /\ scn.n \in 2..N /\ Member \subseteq Rank /\ scn.targets \subseteq Member
           /\ scn.modes \subseteq BOOLEAN /\ scn.maxops \in Nat
           /\ Rank \subseteq Nat /\ N \in Nat /\ 0 \in Rank
<1>1. scn \in Scenarios /\ scn \in Scenario
  BY ProgramAssumption DEF TypeOK
<1>2. scn.n \in 2..N /\ scn.modes \subseteq BOOLEAN /\ scn.maxops \in Nat
  BY <1>1 DEF Scenario
<1>3. scn.targets \subseteq 0..(scn.n - 1)
  BY <1>1, ProgramAssumption
<1>4. N \in Nat \ {0, 1}
  BY RankAssumption
<1> QED
  BY <1>2, <1>3, <1>4 DEF Member, Rank

(* The fields of an origin record. *)
LEMMA OriginFields ==
    ASSUME NEW o \in Origin
    PROVE  /\ o.call \in Call /\ o.remote \in [Rank -> LockStates]
           /\ o.mode \in [Rank -> BOOLEAN] /\ o.epoch \in {"NONE", "LOCK"}
           /\ o.locks \in Nat /\ o.puts \in [Rank -> Nat] /\ o.pend \in [Rank -> Nat]
           /\ o.accs \in [Rank -> Nat] /\ o.accFlag \in [Rank -> BOOLEAN]
BY DEF Origin

(* The fields of a call record. *)
LEMMA CallFields ==
    ASSUME NEW c \in Call
    PROVE  /\ c.op \in {"none", "lock", "lockWait", "unlock", "unlockWait", "flush",
                        "flushWait", "flushAll", "flushAllWait"}
           /\ c.dest \in Rank /\ c.excl \in BOOLEAN /\ c.all \in BOOLEAN
BY DEF Call

(* The fields of a target record. *)
LEMMA TargetFields ==
    ASSUME NEW w \in Target
    PROVE  /\ w.cnt \in Int /\ w.excl \in BOOLEAN /\ w.list \in Seq(Request)
           /\ w.src \in [Rank -> Int] /\ w.recvd \in Int /\ w.stack \in Seq(Request)
BY DEF Target

(* What the next call of lock_all or unlock_all is. *)
LEMMA NextCallFacts ==
    ASSUME TypeOK, NEW op \in {"lock", "unlock"}, NEW d \in Rank, NEW x \in BOOLEAN,
           NEW all \in BOOLEAN
    PROVE  /\ NextCall(op, d, x, all) \in Call
           /\ NextCall(op, d, x, all).op \in {op, "none"}
           /\ NextCall(op, d, x, all).op = op => NextCall(op, d, x, all).all
<1>1. scn.n \in 2..N /\ Rank \subseteq Nat /\ N \in Nat
  BY MemberFacts
<1>2. Idle \in Call /\ Idle.op = "none"
  BY MemberFacts DEF Idle, Call
<1>3. ASSUME d + 1 < scn.n PROVE [op |-> op, dest |-> d + 1, excl |-> x, all |-> TRUE] \in Call
  BY <1>1, <1>3 DEF Call, Rank
<1> QED
  BY <1>2, <1>3 DEF NextCall

(* What do_trylock and do_unlock return is a target again. *)
LEMMA TargetTypes ==
    ASSUME NEW w \in Target
    PROVE  /\ \A x \in BOOLEAN : Lock(w, x) \in Target
           /\ DoUnlock(w) \in Target
           /\ \A k \in Int : [w EXCEPT !.recvd = k] \in Target
           /\ \A k \in Int, p \in Rank : [w EXCEPT !.src[p] = k] \in Target
           /\ \A s \in Seq(Request) : [w EXCEPT !.stack = s] \in Target
           /\ \A s \in Seq(Request) : [w EXCEPT !.list = s] \in Target
<1>1. ASSUME NEW v \in Target, NEW x \in BOOLEAN PROVE Lock(v, x) \in Target
  <2>1. \A k \in Int : [v EXCEPT !.cnt = k, !.excl = x] \in Target
    BY DEF Target
  <2>2. v.cnt + 1 \in Int
    BY TargetFields
  <2> QED
    BY <2>1, <2>2 DEF Lock
<1>2. DoUnlock(w) \in Target
  <2> DEFINE u == [w EXCEPT !.cnt = @ - 1]
  <2>1. u \in Target /\ u.list = w.list
    <3>1. \A k \in Int : [w EXCEPT !.cnt = k] \in Target /\ [w EXCEPT !.cnt = k].list = w.list
      BY DEF Target
    <3>2. w.cnt - 1 \in Int
      BY TargetFields
    <3> QED
      BY <3>1, <3>2
  <2>2. ASSUME HeadMayLock(w) PROVE DoUnlock(w) \in Target
    <3>1. w.list # <<>> /\ w.list \in Seq(Request)
      BY <2>2 DEF HeadMayLock, Target
    <3>2. Head(w.list) \in Request /\ Tail(w.list) \in Seq(Request)
      BY <3>1
    <3>3. Head(u.list).excl \in BOOLEAN
      BY <2>1, <3>2 DEF Request
    <3>4. Lock(u, Head(u.list).excl) \in Target
      BY <1>1, <2>1, <3>3
    <3>5. Lock(u, Head(u.list).excl).list = w.list
      BY <2>1 DEF Lock, Target
    <3>6. [Lock(u, Head(u.list).excl) EXCEPT !.list = Tail(@)] \in Target
      BY <3>2, <3>4, <3>5 DEF Target
    <3> QED
      BY <2>2, <3>6 DEF DoUnlock
  <2> QED
    BY <2>1, <2>2 DEF DoUnlock
<1> QED
  BY <1>1, <1>2 DEF Target

(* What the calls do to an origin record leaves it one. *)
LEMMA OriginTypes ==
    ASSUME NEW o \in Origin
    PROVE  /\ \A c \in Call : [o EXCEPT !.call = c] \in Origin
           /\ [o EXCEPT !.call.op = "flushWait"] \in Origin
           /\ \A t \in Rank, k \in Nat : [o EXCEPT !.pend[t] = k] \in Origin
           /\ \A t \in Rank, k \in Nat : [o EXCEPT !.puts[t] = k] \in Origin
           /\ \A t \in Rank, k, l \in Nat :
                 [o EXCEPT !.pend[t] = k, !.puts[t] = l] \in Origin
           /\ \A t \in Rank, k \in Nat, c \in Call :
                 [o EXCEPT !.puts[t] = k, !.call = c] \in Origin
           /\ \A t \in Rank, k, l, a \in Nat :
                 [o EXCEPT !.pend[t] = k, !.puts[t] = l, !.accs[t] = a, !.accFlag[t] = TRUE]
                   \in Origin
           /\ \A t \in Rank, k, a \in Nat :
                 [o EXCEPT !.pend[t] = k, !.accs[t] = a, !.accFlag[t] = FALSE] \in Origin
<1>1. \A c \in Call : [o EXCEPT !.call = c] \in Origin
  BY DEF Origin
<1>2. [o EXCEPT !.call.op = "flushWait"] \in Origin
  <2>1. [o.call EXCEPT !.op = "flushWait"] \in Call
    BY OriginFields DEF Call
  <2>2. [o EXCEPT !.call = [o.call EXCEPT !.op = "flushWait"]] \in Origin
    BY <1>1, <2>1
  <2> QED
    BY <2>2
<1>3. \A t \in Rank, k \in Nat : [o EXCEPT !.pend[t] = k] \in Origin
  BY DEF Origin
<1>4. \A t \in Rank, k \in Nat : [o EXCEPT !.puts[t] = k] \in Origin
  BY DEF Origin
<1>5. \A t \in Rank, k, l \in Nat : [o EXCEPT !.pend[t] = k, !.puts[t] = l] \in Origin
  BY DEF Origin
<1>6. \A t \in Rank, k \in Nat, c \in Call :
         [o EXCEPT !.puts[t] = k, !.call = c] \in Origin
  BY DEF Origin
<1>7. \A t \in Rank, k, l, a \in Nat :
         [o EXCEPT !.pend[t] = k, !.puts[t] = l, !.accs[t] = a, !.accFlag[t] = TRUE]
           \in Origin
  <2> SUFFICES ASSUME NEW t \in Rank, NEW k \in Nat, NEW l \in Nat, NEW a \in Nat
               PROVE  [o EXCEPT !.pend[t] = k, !.puts[t] = l, !.accs[t] = a,
                                !.accFlag[t] = TRUE] \in Origin
    OBVIOUS
  <2> DEFINE P == [o.pend EXCEPT ![t] = k]
             Q == [o.puts EXCEPT ![t] = l]
             A == [o.accs EXCEPT ![t] = a]
             F == [o.accFlag EXCEPT ![t] = TRUE]
  <2>1. P \in [Rank -> Nat] /\ Q \in [Rank -> Nat] /\ A \in [Rank -> Nat]
        /\ F \in [Rank -> BOOLEAN]
    BY OriginFields
  <2> HIDE DEF P, Q, A, F
  <2>2. [o EXCEPT !.pend = P, !.puts = Q, !.accs = A, !.accFlag = F] \in Origin
    BY <2>1 DEF Origin
  <2> QED
    BY <2>2 DEF P, Q, A, F
<1>8. \A t \in Rank, k, a \in Nat :
         [o EXCEPT !.pend[t] = k, !.accs[t] = a, !.accFlag[t] = FALSE] \in Origin
  BY DEF Origin
<1> QED
  BY <1>1, <1>2, <1>3, <1>4, <1>5, <1>6, <1>7, <1>8

(* The origin's record after it has got the lock of d. *)
LEMMA HasLockFacts ==
    ASSUME TypeOK, NEW o \in Origin, NEW d \in Rank, NEW x \in BOOLEAN, NEW all \in BOOLEAN,
           NEW g, g = HasLock(o, d, x, all)
    PROVE  /\ g \in Origin
           /\ \E r \in {"LOCKED", "LOCKED_ALL"} : g.remote = [o.remote EXCEPT ![d] = r]
           /\ g.mode[d] = x /\ \A t \in Rank \ {d} : g.mode[t] = o.mode[t]
           /\ g.epoch = "LOCK"
           /\ g.locks = o.locks + 1
           /\ g.call \in Call /\ g.call.op \in {"lock", "none"}
           /\ g.call.op = "lock" => g.call.all
           /\ g.puts = o.puts /\ g.pend = o.pend /\ g.accs = o.accs
           /\ g.accFlag = o.accFlag
<1> DEFINE r == IF all THEN "LOCKED_ALL" ELSE "LOCKED"
           c == NextCall("lock", d, x, all)
           k == o.locks + 1
           h == [o EXCEPT !.remote[d] = r, !.mode[d] = x, !.epoch = "LOCK", !.locks = k,
                          !.call = c]
<1>1. g = h
  BY DEF HasLock
<1>2. c \in Call /\ c.op \in {"lock", "none"} /\ (c.op = "lock" => c.all)
      /\ k \in Nat /\ r \in LockStates /\ r # "UNLOCKED"
  BY NextCallFacts, OriginFields DEF LockStates
<1> HIDE DEF r, c, k
<1>3. h \in Origin
  BY <1>2 DEF Origin
<1>4. /\ h.remote = [o.remote EXCEPT ![d] = r]
      /\ h.mode[d] = x /\ \A t \in Rank \ {d} : h.mode[t] = o.mode[t]
      /\ h.epoch = "LOCK" /\ h.locks = k /\ h.call = c
      /\ h.puts = o.puts /\ h.pend = o.pend /\ h.accs = o.accs /\ h.accFlag = o.accFlag
  BY DEF Origin
<1> HIDE DEF h
<1>5. r \in {"LOCKED", "LOCKED_ALL"}
  BY <1>2 DEF LockStates
<1> QED
  BY <1>1, <1>2, <1>3, <1>4, <1>5 DEF k

(* The origin's record after it has given up the lock of d. *)
LEMMA HasUnlockedFacts ==
    ASSUME TypeOK, NEW o \in Origin, NEW d \in Rank, NEW all \in BOOLEAN, o.locks > 0,
           NEW g, g = HasUnlocked(o, d, all)
    PROVE  /\ g \in Origin
           /\ g.remote = [o.remote EXCEPT ![d] = "UNLOCKED"]
           /\ o.locks = 1 => g.epoch = "NONE"
           /\ o.locks # 1 => g.epoch = o.epoch
           /\ g.locks = o.locks - 1
           /\ g.call \in Call /\ g.call.op \in {"unlock", "none"}
           /\ g.call.op = "unlock" => g.call.all
           /\ g.mode = o.mode /\ g.puts = o.puts /\ g.pend = o.pend
           /\ g.accs = o.accs /\ g.accFlag = o.accFlag
<1> DEFINE e == IF o.locks = 1 THEN "NONE" ELSE o.epoch
           c == NextCall("unlock", d, FALSE, all)
           k == o.locks - 1
           h == [o EXCEPT !.remote[d] = "UNLOCKED", !.locks = k, !.epoch = e, !.call = c]
<1>1. g = h
  BY DEF HasUnlocked
<1>2. c \in Call /\ c.op \in {"unlock", "none"} /\ (c.op = "unlock" => c.all)
      /\ k \in Nat /\ e \in {"NONE", "LOCK"}
  <2>1. c \in Call /\ c.op \in {"unlock", "none"} /\ (c.op = "unlock" => c.all)
    BY NextCallFacts
  <2>2. o.locks \in Nat /\ o.epoch \in {"NONE", "LOCK"}
    BY OriginFields
  <2>3. k \in Nat
    BY <2>2
  <2>4. e \in {"NONE", "LOCK"}
    BY <2>2
  <2> HIDE DEF e, c, k
  <2> QED
    BY <2>1, <2>3, <2>4
<1> HIDE DEF e, c, k
<1>3. h \in Origin
  BY <1>2 DEF Origin, LockStates
<1>4. /\ h.remote = [o.remote EXCEPT ![d] = "UNLOCKED"] /\ h.mode = o.mode
      /\ h.epoch = e /\ h.locks = k /\ h.call = c
      /\ h.puts = o.puts /\ h.pend = o.pend /\ h.accs = o.accs /\ h.accFlag = o.accFlag
  BY DEF Origin
<1> QED
  BY <1>1, <1>2, <1>3, <1>4 DEF e, k

-----------------------------------------------------------------------------
(* The invariant of one origin *)

(* The windows whose locks an origin holds, by its own account. *)
LockedBy(o) == {t \in Rank : o.remote[t] # "UNLOCKED"}

(* The operations of an origin are counted right, its epoch lasts as long as  *)
(* it holds locks, and the window that its call deals with is in the state     *)
(* that the call left it in.                                                   *)
OriginOK(p, o) ==
    /\ \A t \in Rank : o.accs[t] <= o.pend[t]
    /\ o.locks = Cardinality(LockedBy(o))
    /\ o.epoch = "LOCK" <=> LockedBy(o) # {}
    /\ o.call.op = "lock" => o.call.all
    /\ o.call.op = "lockWait" => o.remote[o.call.dest] = "UNLOCKED"
    /\ o.call.op = "unlock" /\ ~o.call.all => o.remote[o.call.dest] # "UNLOCKED"
    /\ o.call.op = "flush" => o.call.dest # p
    /\ o.call.op = "unlockWait" =>
          /\ o.call.dest # p /\ o.remote[o.call.dest] # "UNLOCKED"
          /\ \A t \in Rank : o.pend[t] = 0

OriginsOK == \A p \in Rank : OriginOK(p, org[p])

OriginInv == TypeOK /\ OriginsOK

(* The types of everything but the origins. *)
TargetTypeOK ==
    /\ scn \in Scenarios /\ tgt \in [Rank -> Target]
    /\ flight \in [Rank -> [Rank -> Nat]] /\ req \subseteq Request /\ ans \subseteq Answer

(* A set of ranks is finite. *)
LEMMA RanksFinite ==
    ASSUME NEW S \in SUBSET Rank
    PROVE  IsFiniteSet(S) /\ Cardinality(S) \in Nat
<1>1. IsFiniteSet(Rank)
  BY RankAssumption, FS_Interval DEF Rank
<1> QED
  BY <1>1, FS_Subset, FS_CardinalityType

(* A step that changes one origin, to one that satisfies the invariant, keeps  *)
(* the invariant of all.                                                       *)
LEMMA OneOriginChanges ==
    ASSUME OriginInv, NEW p \in Rank, NEW o \in Origin, OriginOK(p, o),
           org' = [org EXCEPT ![p] = o], TargetTypeOK'
    PROVE  OriginInv'
<1>1. org \in [Rank -> Origin]
  BY DEF OriginInv, TypeOK
<1>2. org' \in [Rank -> Origin]
  BY <1>1
<1>3. \A q \in Rank : org'[q] = IF q = p THEN o ELSE org[q]
  BY <1>1
<1>4. \A q \in Rank : OriginOK(q, org'[q])
  BY <1>3 DEF OriginInv, OriginsOK
<1>5. OriginsOK'
  <2>1. OriginsOK' <=> \A q \in Rank : OriginOK(q, org'[q])
    BY DEF OriginsOK, OriginOK, LockedBy
  <2> QED
    BY <1>4, <2>1
<1> QED
  BY <1>2, <1>5 DEF OriginInv, TypeOK, TargetTypeOK

(* A step that changes no origin keeps the invariant of all. *)
LEMMA NoOriginChanges ==
    ASSUME OriginInv, org' = org, TargetTypeOK'
    PROVE  OriginInv'
<1>1. OriginsOK' <=> \A q \in Rank : OriginOK(q, org'[q])
  BY DEF OriginsOK, OriginOK, LockedBy
<1>2. OriginsOK'
  BY <1>1 DEF OriginInv, OriginsOK
<1> QED
  BY <1>2 DEF OriginInv, TypeOK, TargetTypeOK

(* A change of the call that fits the lock states keeps the invariant of the   *)
(* origin.                                                                     *)
LEMMA CallChanges ==
    ASSUME NEW p \in Rank, NEW o \in Origin, OriginOK(p, o), NEW c \in Call,
           c.op = "lock" => c.all,
           c.op = "lockWait" => o.remote[c.dest] = "UNLOCKED",
           c.op = "unlock" /\ ~c.all => o.remote[c.dest] # "UNLOCKED",
           c.op = "flush" => c.dest # p,
           c.op = "unlockWait" => /\ c.dest # p /\ o.remote[c.dest] # "UNLOCKED"
                                  /\ \A t \in Rank : o.pend[t] = 0
    PROVE  /\ [o EXCEPT !.call = c] \in Origin
           /\ OriginOK(p, [o EXCEPT !.call = c])
<1> DEFINE h == [o EXCEPT !.call = c]
<1>1. h \in Origin
  BY OriginTypes
<1>2. /\ h.call = c /\ h.remote = o.remote /\ h.epoch = o.epoch /\ h.locks = o.locks
      /\ h.pend = o.pend /\ h.accs = o.accs
  BY DEF Origin
<1> HIDE DEF h
<1>3. LockedBy(h) = LockedBy(o)
  BY <1>2 DEF LockedBy
<1>4. OriginOK(p, h)
  BY <1>2, <1>3 DEF OriginOK
<1> QED
  BY <1>1, <1>4 DEF h

(* MPID_Win_lock counts the lock it has got: the window was not locked before. *)
LEMMA LockKeepsOrigin ==
    ASSUME TypeOK, NEW p \in Rank, NEW o \in Origin, OriginOK(p, o),
           NEW d \in Rank, o.remote[d] = "UNLOCKED", NEW x \in BOOLEAN, NEW all \in BOOLEAN,
           NEW h, h = HasLock(o, d, x, all)
    PROVE  h \in Origin /\ OriginOK(p, h)
<1>1. /\ h \in Origin
      /\ \E r \in {"LOCKED", "LOCKED_ALL"} : h.remote = [o.remote EXCEPT ![d] = r]
      /\ h.epoch = "LOCK" /\ h.locks = o.locks + 1
      /\ h.call.op \in {"lock", "none"}
      /\ h.call.op = "lock" => h.call.all
      /\ h.pend = o.pend /\ h.accs = o.accs
  BY HasLockFacts
<1>2. LockedBy(h) = LockedBy(o) \cup {d} /\ d \notin LockedBy(o)
  BY <1>1, OriginFields DEF LockedBy
<1>3. Cardinality(LockedBy(h)) = Cardinality(LockedBy(o)) + 1
  <2>1. IsFiniteSet(LockedBy(o))
    BY RanksFinite DEF LockedBy
  <2> QED
    BY <1>2, <2>1, FS_AddElement
<1>4. OriginOK(p, h)
  BY <1>1, <1>2, <1>3 DEF OriginOK
<1> QED
  BY <1>1, <1>4

(* MPID_Win_unlock counts the lock it has given up, and closes the epoch with  *)
(* the last one.                                                               *)
LEMMA UnlockKeepsOrigin ==
    ASSUME TypeOK, NEW p \in Rank, NEW o \in Origin, OriginOK(p, o),
           NEW d \in Rank, o.remote[d] # "UNLOCKED", NEW all \in BOOLEAN,
           NEW h, h = HasUnlocked(o, d, all)
    PROVE  h \in Origin /\ o.locks > 0 /\ OriginOK(p, h)
<1>1. IsFiniteSet(LockedBy(o)) /\ Cardinality(LockedBy(o)) \in Nat
  BY RanksFinite DEF LockedBy
<1>2. d \in LockedBy(o) /\ o.locks = Cardinality(LockedBy(o))
  BY DEF LockedBy, OriginOK
<1>3. o.locks > 0
  BY <1>1, <1>2, FS_EmptySet
<1>4. /\ h \in Origin /\ h.remote = [o.remote EXCEPT ![d] = "UNLOCKED"]
      /\ o.locks = 1 => h.epoch = "NONE"
      /\ o.locks # 1 => h.epoch = o.epoch
      /\ h.locks = o.locks - 1 /\ h.call.op \in {"unlock", "none"}
      /\ h.call.op = "unlock" => h.call.all
      /\ h.pend = o.pend /\ h.accs = o.accs
  BY <1>3, HasUnlockedFacts
<1>5. LockedBy(h) = LockedBy(o) \ {d}
  BY <1>4, OriginFields DEF LockedBy
<1>6. IsFiniteSet(LockedBy(h)) /\ Cardinality(LockedBy(h)) = Cardinality(LockedBy(o)) - 1
  BY <1>1, <1>2, <1>5, FS_RemoveElement
<1>7. h.locks = Cardinality(LockedBy(h)) /\ (o.locks = 1 <=> LockedBy(h) = {})
  BY <1>1, <1>2, <1>4, <1>6, FS_EmptySet
<1>8. h.epoch = "LOCK" <=> LockedBy(h) # {}
  <2>1. o.epoch = "LOCK"
    BY <1>2 DEF OriginOK
  <2> QED
    BY <1>4, <1>7, <2>1
<1>9. OriginOK(p, h)
  BY <1>4, <1>7, <1>8 DEF OriginOK
<1> QED
  BY <1>3, <1>4, <1>9

(* Counting operations keeps the invariant of the origin, outside the wait of   *)
(* unlock or downwards.                                                         *)
LEMMA CountsKeepOrigin ==
    ASSUME NEW p \in Rank, NEW o \in Origin, OriginOK(p, o), NEW h \in Origin,
           h.call = o.call, h.remote = o.remote, h.epoch = o.epoch, h.locks = o.locks,
           \A t \in Rank : h.accs[t] <= h.pend[t],
           \/ h.call.op # "unlockWait"
           \/ \A t \in Rank : h.pend[t] <= o.pend[t]
    PROVE  OriginOK(p, h)
<1>1. LockedBy(h) = LockedBy(o)
  BY DEF LockedBy
<1>2. \A t \in Rank : h.pend[t] \in Nat
  BY OriginFields
<1>3. h.call.op = "unlockWait" => \A t \in Rank : h.pend[t] = 0
  BY <1>2 DEF OriginOK
<1> QED
  BY <1>1, <1>3 DEF OriginOK

-----------------------------------------------------------------------------
(* The steps of the targets *)

(* The fields of a message. *)
LEMMA RequestFields ==
    ASSUME NEW m \in Request
    PROVE  /\ m.type \in {"LOCK", "UNLOCK", "FLUSH"} /\ m.src \in Rank /\ m.dst \in Rank
           /\ m.excl \in BOOLEAN /\ m.n \in Nat
BY DEF Request

(* What a target sends back is an answer. *)
LEMMA AnswerTypes ==
    ASSUME NEW t \in Rank, NEW p \in Rank
    PROVE  /\ LockAnswer(t, p) \in Answer
           /\ \A x \in {"LOCK", "UNLOCK", "FLUSH"} : [type |-> x, src |-> t, dst |-> p] \in Answer
BY DEF LockAnswer, Answer

(* do_unlock wakes at most the head of lock_list. *)
LEMMA WokenType ==
    ASSUME NEW w \in Target, NEW t \in Rank
    PROVE  Woken(t, w) \subseteq Answer
<1>1. CASE HeadMayLock(w)
  <2>1. w.list # <<>> /\ w.list \in Seq(Request)
    BY <1>1, TargetFields DEF HeadMayLock
  <2>2. Head(w.list) \in Request
    BY <2>1
  <2>3. Head(w.list).src \in Rank
    BY <2>2, RequestFields
  <2> QED
    BY <1>1, <2>3, AnswerTypes DEF Woken
<1>2. CASE ~HeadMayLock(w)
  BY <1>2 DEF Woken
<1> QED
  BY <1>1, <1>2

(* The end of a callback leaves targets and answers of their types. *)
LEMMA EndCallbackTypes ==
    ASSUME TypeOK, NEW t \in Rank, NEW w \in Target, NEW h \in Request, EndCallback(t, w, h)
    PROVE  tgt' \in [Rank -> Target] /\ ans' \subseteq Answer
<1> DEFINE v == [w EXCEPT !.recvd = @ - h.n]
<1>1. h.n \in Nat /\ w.recvd \in Int /\ w.recvd - h.n \in Int
  BY RequestFields, TargetFields
<1>2. v \in Target
  BY <1>1, TargetTypes
<1>3. DoUnlock(v) \in Target /\ Woken(t, v) \subseteq Answer
  BY <1>2, TargetTypes, WokenType
<1> HIDE DEF v
<1>4. /\ tgt' = [tgt EXCEPT ![t] = IF h.type = "UNLOCK" THEN DoUnlock(v) ELSE v]
      /\ ans' = ans \cup {[type |-> h.type, src |-> t, dst |-> h.src]}
                    \cup (IF h.type = "UNLOCK" THEN Woken(t, v) ELSE {})
  BY DEF EndCallback, v
<1>5. [type |-> h.type, src |-> t, dst |-> h.src] \in Answer
  BY RequestFields, AnswerTypes
<1>6. tgt \in [Rank -> Target] /\ ans \subseteq Answer
  BY DEF TypeOK
<1>7. tgt' \in [Rank -> Target]
  BY <1>2, <1>3, <1>4, <1>6
<1>8. ans' \subseteq Answer
  BY <1>3, <1>4, <1>5, <1>6
<1> QED
  BY <1>7, <1>8

(* The steps of the targets do not touch the origins. *)
LEMMA TargetSteps ==
    ASSUME OriginInv
    PROVE  /\ \A m \in req : RecvLockReq(m) \/ RecvCounter(m) => OriginInv'
           /\ \A t \in Rank : CallbackDone(t) => OriginInv'
           /\ \A p, t \in Rank : OpArrives(p, t) => OriginInv'
<1>1. TypeOK
  BY DEF OriginInv
<1>2. /\ tgt \in [Rank -> Target] /\ req \subseteq Request /\ ans \subseteq Answer
      /\ flight \in [Rank -> [Rank -> Nat]] /\ scn \in Scenarios
  BY <1>1 DEF TypeOK
<1>3. ASSUME NEW m \in req, RecvLockReq(m) PROVE OriginInv'
  <2>1. m \in Request /\ m.dst \in Rank /\ m.src \in Rank /\ m.excl \in BOOLEAN
    BY <1>2, RequestFields
  <2>2. tgt[m.dst] \in Target /\ Lock(tgt[m.dst], m.excl) \in Target
    BY <1>2, <2>1, TargetTypes
  <2>3. Append(tgt[m.dst].list, m) \in Seq(Request)
    BY <2>1, <2>2, TargetFields
  <2>4. [tgt[m.dst] EXCEPT !.list = Append(@, m)] \in Target
    BY <2>2, <2>3, TargetTypes
  <2>5. LockAnswer(m.dst, m.src) \in Answer
    BY <2>1, AnswerTypes
  <2>6. tgt' \in [Rank -> Target] /\ ans' \subseteq Answer
    <3>1. CASE MayLock(tgt[m.dst], m.excl)
      BY <1>2, <1>3, <2>1, <2>2, <2>5, <3>1 DEF RecvLockReq
    <3>2. CASE ~MayLock(tgt[m.dst], m.excl)
      BY <1>2, <1>3, <2>1, <2>4, <3>2 DEF RecvLockReq
    <3> QED
      BY <3>1, <3>2
  <2>7. TargetTypeOK' /\ org' = org
    BY <1>2, <1>3, <2>6 DEF RecvLockReq, TargetTypeOK
  <2> QED
    BY <2>7, NoOriginChanges
<1>4. ASSUME NEW m \in req, RecvCounter(m) PROVE OriginInv'
  <2>1. m \in Request /\ m.dst \in Rank /\ m.src \in Rank /\ m.n \in Nat
    BY <1>2, RequestFields
  <2> DEFINE w == [tgt[m.dst] EXCEPT !.src[m.src] = @ + m.n]
  <2>2. tgt[m.dst] \in Target /\ tgt[m.dst].src[m.src] + m.n \in Int
    BY <1>2, <2>1, TargetFields
  <2>3. w \in Target
    BY <2>1, <2>2, TargetTypes
  <2>4. <<m>> \o w.stack \in Seq(Request)
    <3> HIDE DEF w
    <3>1. w.stack \in Seq(Request) /\ <<m>> \in Seq(Request)
      BY <2>1, <2>3, TargetFields
    <3> QED
      BY <3>1
  <2>5. [w EXCEPT !.stack = <<m>> \o @] \in Target
    BY <2>3, <2>4, TargetTypes
  <2>6. /\ \/ EndCallback(m.dst, w, m)
           \/ tgt' = [tgt EXCEPT ![m.dst] = [w EXCEPT !.stack = <<m>> \o @]] /\ ans' = ans
        /\ req' = req \ {m} /\ UNCHANGED <<scn, org, flight>>
    BY <1>4 DEF RecvCounter
  <2> HIDE DEF w
  <2>7. tgt' \in [Rank -> Target] /\ ans' \subseteq Answer
    <3>1. CASE EndCallback(m.dst, w, m)
      BY <1>1, <2>1, <2>3, <3>1, EndCallbackTypes
    <3>2. CASE tgt' = [tgt EXCEPT ![m.dst] = [w EXCEPT !.stack = <<m>> \o @]] /\ ans' = ans
      BY <1>2, <2>1, <2>5, <3>2
    <3> QED
      BY <2>6, <3>1, <3>2
  <2>8. TargetTypeOK' /\ org' = org
    BY <1>2, <2>6, <2>7 DEF TargetTypeOK
  <2> QED
    BY <2>8, NoOriginChanges
<1>5. ASSUME NEW t \in Rank, CallbackDone(t) PROVE OriginInv'
  <2> DEFINE h == Head(tgt[t].stack)
             w == [tgt[t] EXCEPT !.stack = Tail(@)]
  <2>1. tgt[t] \in Target /\ tgt[t].stack # <<>> /\ tgt[t].stack \in Seq(Request)
    BY <1>2, <1>5, TargetFields DEF CallbackDone
  <2>2. h \in Request /\ Tail(tgt[t].stack) \in Seq(Request)
    BY <2>1
  <2>3. w \in Target
    BY <2>1, <2>2, TargetTypes
  <2>4. EndCallback(t, w, h) /\ UNCHANGED <<scn, org, flight, req>>
    BY <1>5 DEF CallbackDone
  <2> HIDE DEF w, h
  <2>5. tgt' \in [Rank -> Target] /\ ans' \subseteq Answer
    BY <1>1, <2>2, <2>3, <2>4, EndCallbackTypes
  <2>6. TargetTypeOK' /\ org' = org
    BY <1>2, <2>4, <2>5 DEF TargetTypeOK
  <2> QED
    BY <2>6, NoOriginChanges
<1>6. ASSUME NEW p \in Rank, NEW t \in Rank, OpArrives(p, t) PROVE OriginInv'
  <2>1. tgt[t] \in Target /\ tgt[t].recvd + 1 \in Int /\ tgt[t].src[p] - 1 \in Int
    BY <1>2, TargetFields
  <2>3. [tgt[t] EXCEPT !.recvd = @ + 1, !.src[p] = @ - 1] \in Target
    <3>1. \A k, l \in Int : [tgt[t] EXCEPT !.recvd = k, !.src[p] = l] \in Target
      BY <2>1 DEF Target
    <3> QED
      BY <2>1, <3>1
  <2>4. tgt' = [tgt EXCEPT ![t] = [tgt[t] EXCEPT !.recvd = @ + 1, !.src[p] = @ - 1]]
    BY <1>2, <1>6, <2>1 DEF OpArrives
  <2>5. tgt' \in [Rank -> Target]
    BY <1>2, <2>3, <2>4
  <2>6. flight' \in [Rank -> [Rank -> Nat]]
    BY <1>2, <1>6 DEF OpArrives
  <2>7. TargetTypeOK' /\ org' = org
    BY <1>2, <1>6, <2>5, <2>6 DEF TargetTypeOK, OpArrives
  <2> QED
    BY <2>7, NoOriginChanges
<1> QED
  BY <1>3, <1>4, <1>5, <1>6

-----------------------------------------------------------------------------
(* The steps of the origins *)

(* The record of one origin, and what a change of its call needs. *)
LEMMA OriginRecord ==
    ASSUME OriginInv, NEW p \in Rank
    PROVE  /\ org \in [Rank -> Origin] /\ org[p] \in Origin /\ OriginOK(p, org[p])
           /\ org[p].call \in Call /\ TypeOK
BY OriginFields DEF OriginInv, TypeOK, OriginsOK

(* A step that only starts or ends a call keeps the invariant. *)
LEMMA CallStepOK ==
    ASSUME OriginInv, NEW p \in Rank, NEW c \in Call, org' = [org EXCEPT ![p].call = c],
           TargetTypeOK',
           c.op = "lock" => c.all,
           c.op = "lockWait" => org[p].remote[c.dest] = "UNLOCKED",
           c.op = "unlock" /\ ~c.all => org[p].remote[c.dest] # "UNLOCKED",
           c.op = "flush" => c.dest # p,
           c.op = "unlockWait" => /\ c.dest # p /\ org[p].remote[c.dest] # "UNLOCKED"
                                  /\ \A t \in Rank : org[p].pend[t] = 0
    PROVE  OriginInv'
<1>1. org \in [Rank -> Origin] /\ org[p] \in Origin /\ OriginOK(p, org[p])
  BY OriginRecord
<1>2. [org[p] EXCEPT !.call = c] \in Origin /\ OriginOK(p, [org[p] EXCEPT !.call = c])
  BY <1>1, CallChanges
<1>3. org' = [org EXCEPT ![p] = [org[p] EXCEPT !.call = c]]
  OBVIOUS
<1> QED
  BY <1>2, <1>3, OneOriginChanges

(* MPID_Win_lock of a window that is not locked. *)
LEMMA EnterLockOK ==
    ASSUME OriginInv, NEW p \in Rank, NEW d \in Rank, NEW x \in BOOLEAN, NEW all \in BOOLEAN,
           org[p].remote[d] = "UNLOCKED", EnterLock(p, d, x, all)
    PROVE  OriginInv'
<1>1. org[p] \in Origin /\ OriginOK(p, org[p]) /\ TypeOK
  BY OriginRecord
<1>2. CASE /\ tgt' = [tgt EXCEPT ![p] = Lock(@, x)]
           /\ org' = [org EXCEPT ![p] = HasLock(@, d, x, all)]
           /\ UNCHANGED <<scn, flight, req, ans>>
  <2>1. PICK h : h = HasLock(org[p], d, x, all)
    OBVIOUS
  <2>2. h \in Origin /\ OriginOK(p, h)
    BY <1>1, <2>1, LockKeepsOrigin
  <2>3. org' = [org EXCEPT ![p] = h]
    BY <1>2, <2>1
  <2>4. Lock(tgt[p], x) \in Target
    BY <1>1, TargetTypes DEF TypeOK
  <2>5. TargetTypeOK'
    BY <1>1, <1>2, <2>4 DEF TypeOK, TargetTypeOK
  <2> QED
    BY <2>2, <2>3, <2>5, OneOriginChanges
<1>3. CASE /\ org' = [org EXCEPT ![p].call =
                       [op |-> "lockWait", dest |-> d, excl |-> x, all |-> all]]
           /\ req' = req \cup {[type |-> "LOCK", src |-> p, dst |-> d, excl |-> x, n |-> 0]}
           /\ UNCHANGED <<scn, tgt, flight, ans>>
  <2> DEFINE c == [op |-> "lockWait", dest |-> d, excl |-> x, all |-> all]
  <2>1. c \in Call /\ c.op = "lockWait" /\ c.dest = d
    BY DEF Call
  <2>2. [type |-> "LOCK", src |-> p, dst |-> d, excl |-> x, n |-> 0] \in Request
    BY DEF Request
  <2>3. TargetTypeOK'
    BY <1>1, <1>3, <2>2 DEF TypeOK, TargetTypeOK
  <2>4. org' = [org EXCEPT ![p].call = c]
    BY <1>3
  <2> HIDE DEF c
  <2> QED
    BY <2>1, <2>3, <2>4, CallStepOK
<1> QED
  BY <1>2, <1>3 DEF EnterLock

(* MPID_Win_unlock of a window that is locked. *)
LEMMA EnterUnlockOK ==
    ASSUME OriginInv, NEW p \in Rank, NEW d \in Rank, NEW all \in BOOLEAN,
           org[p].remote[d] # "UNLOCKED", EnterUnlock(p, d, all)
    PROVE  OriginInv'
<1>1. org[p] \in Origin /\ OriginOK(p, org[p]) /\ TypeOK
  BY OriginRecord
<1>2. CASE /\ tgt' = [tgt EXCEPT ![p] = DoUnlock(@)]
           /\ ans' = ans \cup Woken(p, tgt[p])
           /\ org' = [org EXCEPT ![p] = HasUnlocked(@, d, all)]
           /\ UNCHANGED <<scn, flight, req>>
  <2>1. PICK h : h = HasUnlocked(org[p], d, all)
    OBVIOUS
  <2>2. h \in Origin /\ OriginOK(p, h)
    BY <1>1, <2>1, UnlockKeepsOrigin
  <2>3. org' = [org EXCEPT ![p] = h]
    BY <1>2, <2>1
  <2>4. DoUnlock(tgt[p]) \in Target /\ Woken(p, tgt[p]) \subseteq Answer
    BY <1>1, TargetTypes, WokenType DEF TypeOK
  <2>5. TargetTypeOK'
    BY <1>1, <1>2, <2>4 DEF TypeOK, TargetTypeOK
  <2> QED
    BY <2>2, <2>3, <2>5, OneOriginChanges
<1>3. CASE /\ d # p /\ Drained(p)
           /\ req' = req \cup {[type |-> "UNLOCK", src |-> p, dst |-> d, excl |-> FALSE,
                                n |-> org[p].puts[d]]}
           /\ org' = [org EXCEPT ![p].call =
                       [op |-> "unlockWait", dest |-> d, excl |-> FALSE, all |-> all]]
           /\ UNCHANGED <<scn, tgt, flight, ans>>
  <2> DEFINE c == [op |-> "unlockWait", dest |-> d, excl |-> FALSE, all |-> all]
  <2>1. c \in Call /\ c.op = "unlockWait" /\ c.dest = d
    BY DEF Call
  <2>2. org[p].puts[d] \in Nat
    BY <1>1, OriginFields
  <2>3. [type |-> "UNLOCK", src |-> p, dst |-> d, excl |-> FALSE, n |-> org[p].puts[d]]
          \in Request
    BY <2>2 DEF Request
  <2>4. TargetTypeOK'
    BY <1>1, <1>3, <2>3 DEF TypeOK, TargetTypeOK
  <2>5. org' = [org EXCEPT ![p].call = c]
    BY <1>3
  <2>6. \A t \in Rank : org[p].pend[t] = 0
    BY <1>3 DEF Drained
  <2> HIDE DEF c
  <2> QED
    BY <1>3, <2>1, <2>4, <2>5, <2>6, CallStepOK
<1> QED
  BY <1>2, <1>3 DEF EnterUnlock

(* The steps of lock and lock_all. *)
LEMMA LockSteps ==
    ASSUME OriginInv, NEW p \in Member
    PROVE  /\ \A d \in scn.targets, x \in scn.modes : Win_lock(p, d, x) => OriginInv'
           /\ Win_lock_all(p) \/ LockAllNext(p) \/ LockAllRefused(p) \/ LockDone(p) => OriginInv'
<1>1. /\ p \in Rank /\ scn.targets \subseteq Rank /\ scn.modes \subseteq BOOLEAN
      /\ 0 \in Rank /\ Rank \subseteq Nat /\ TypeOK
  BY MemberFacts DEF OriginInv
<1>2. /\ org[p] \in Origin /\ OriginOK(p, org[p]) /\ org[p].call \in Call
      /\ org[p].call.dest \in Rank /\ org[p].remote \in [Rank -> LockStates]
  BY <1>1, OriginRecord, OriginFields, CallFields
<1>3. TargetTypeOK
  BY <1>1 DEF TypeOK, TargetTypeOK
<1>4. ASSUME NEW d \in scn.targets, NEW x \in scn.modes, Win_lock(p, d, x) PROVE OriginInv'
  <2>1. d \in Rank /\ x \in BOOLEAN
    BY <1>1
  <2>2. org[p].remote[d] = "UNLOCKED"
    <3>1. \A t \in Rank : org[p].remote[t] # "UNLOCKED" => t < d
      BY <1>4 DEF Win_lock
    <3>2. d \in Nat
      BY <1>1, <2>1
    <3>3. ~(d < d)
      BY <3>2
    <3> QED
      BY <2>1, <3>1, <3>3
  <2>3. EnterLock(p, d, x, FALSE)
    BY <1>4 DEF Win_lock
  <2> QED
    BY <1>1, <2>1, <2>2, <2>3, EnterLockOK
<1>5. ASSUME Win_lock_all(p) PROVE OriginInv'
  <2> DEFINE c == [op |-> "lock", dest |-> 0, excl |-> FALSE, all |-> TRUE]
  <2>1. c \in Call /\ c.op = "lock" /\ c.all
    BY <1>1 DEF Call
  <2>2. org' = [org EXCEPT ![p].call = c] /\ UNCHANGED <<scn, tgt, flight, req, ans>>
    BY <1>5 DEF Win_lock_all
  <2>3. TargetTypeOK'
    BY <1>3, <2>2 DEF TargetTypeOK
  <2> HIDE DEF c
  <2> QED
    BY <1>1, <2>1, <2>2, <2>3, CallStepOK
<1>6. ASSUME LockAllNext(p) PROVE OriginInv'
  BY <1>1, <1>2, <1>6, EnterLockOK DEF LockAllNext
<1>7. ASSUME LockAllRefused(p) PROVE OriginInv'
  <2>1. Idle \in Call /\ Idle.op = "none"
    BY <1>1 DEF Idle, Call
  <2>2. TargetTypeOK' /\ org' = [org EXCEPT ![p].call = Idle]
    BY <1>3, <1>7 DEF LockAllRefused, TargetTypeOK
  <2> QED
    BY <1>1, <2>1, <2>2, CallStepOK
<1>8. ASSUME LockDone(p) PROVE OriginInv'
  <2> DEFINE c == org[p].call
  <2>1. /\ c.op = "lockWait" /\ org' = [org EXCEPT ![p] = HasLock(@, c.dest, c.excl, c.all)]
        /\ ans' \subseteq ans /\ UNCHANGED <<scn, tgt, flight, req>>
    BY <1>8 DEF LockDone, InCall
  <2>2. org[p].remote[c.dest] = "UNLOCKED" /\ c.excl \in BOOLEAN /\ c.all \in BOOLEAN
    BY <1>2, <2>1, CallFields DEF OriginOK
  <2>3. PICK h : h = HasLock(org[p], c.dest, c.excl, c.all)
    OBVIOUS
  <2>4. h \in Origin /\ OriginOK(p, h)
    BY <1>1, <1>2, <2>2, <2>3, LockKeepsOrigin
  <2>5. org' = [org EXCEPT ![p] = h]
    BY <2>1, <2>3
  <2>6. TargetTypeOK'
    BY <1>3, <2>1 DEF TargetTypeOK
  <2> QED
    BY <1>1, <2>4, <2>5, <2>6, OneOriginChanges
<1> QED
  BY <1>4, <1>5, <1>6, <1>7, <1>8

(* The steps of unlock and unlock_all. *)
LEMMA UnlockSteps ==
    ASSUME OriginInv, NEW p \in Member
    PROVE  /\ \A d \in Member : Win_unlock(p, d) => OriginInv'
           /\ \/ Win_unlock_all(p) \/ UnlockSend(p) \/ UnlockAllRefused(p) \/ UnlockDone(p)
              => OriginInv'
<1>1. /\ p \in Rank /\ Member \subseteq Rank /\ 0 \in Rank /\ Rank \subseteq Nat /\ TypeOK
  BY MemberFacts DEF OriginInv
<1>2. /\ org[p] \in Origin /\ OriginOK(p, org[p]) /\ org[p].call \in Call
      /\ org[p].call.dest \in Rank /\ org[p].call.all \in BOOLEAN
      /\ org[p].remote \in [Rank -> LockStates]
  BY <1>1, OriginRecord, OriginFields, CallFields
<1>3. TargetTypeOK
  BY <1>1 DEF TypeOK, TargetTypeOK
<1>4. ASSUME NEW d \in Member, Win_unlock(p, d) PROVE OriginInv'
  <2> DEFINE c == [op |-> "unlock", dest |-> d, excl |-> FALSE, all |-> FALSE]
  <2>1. c \in Call /\ c.op = "unlock" /\ c.dest = d
    BY <1>1 DEF Call
  <2>2. org' = [org EXCEPT ![p].call = c] /\ UNCHANGED <<scn, tgt, flight, req, ans>>
    BY <1>4 DEF Win_unlock
  <2>3. org[p].remote[d] # "UNLOCKED"
    BY <1>4 DEF Win_unlock
  <2>4. TargetTypeOK'
    BY <1>3, <2>2 DEF TargetTypeOK
  <2> HIDE DEF c
  <2> QED
    BY <1>1, <2>1, <2>2, <2>3, <2>4, CallStepOK
<1>5. ASSUME Win_unlock_all(p) PROVE OriginInv'
  <2> DEFINE c == [op |-> "unlock", dest |-> 0, excl |-> FALSE, all |-> TRUE]
  <2>1. c \in Call /\ c.op = "unlock" /\ c.all
    BY <1>1 DEF Call
  <2>2. org' = [org EXCEPT ![p].call = c] /\ UNCHANGED <<scn, tgt, flight, req, ans>>
    BY <1>5 DEF Win_unlock_all
  <2>3. TargetTypeOK'
    BY <1>3, <2>2 DEF TargetTypeOK
  <2> HIDE DEF c
  <2> QED
    BY <1>1, <2>1, <2>2, <2>3, CallStepOK
<1>6. ASSUME UnlockSend(p) PROVE OriginInv'
  <2>1. /\ org[p].call.op = "unlock" /\ EnterUnlock(p, org[p].call.dest, org[p].call.all)
        /\ org[p].call.all => org[p].remote[org[p].call.dest] = "LOCKED_ALL"
    BY <1>6 DEF UnlockSend, InCall
  <2>2. org[p].remote[org[p].call.dest] # "UNLOCKED"
    BY <1>2, <2>1 DEF OriginOK
  <2> QED
    BY <1>1, <1>2, <2>1, <2>2, EnterUnlockOK
<1>7. ASSUME UnlockAllRefused(p) PROVE OriginInv'
  <2>1. Idle \in Call /\ Idle.op = "none"
    BY <1>1 DEF Idle, Call
  <2>2. TargetTypeOK' /\ org' = [org EXCEPT ![p].call = Idle]
    BY <1>3, <1>7 DEF UnlockAllRefused, TargetTypeOK
  <2> QED
    BY <1>1, <2>1, <2>2, CallStepOK
<1>8. ASSUME UnlockDone(p) PROVE OriginInv'
  <2> DEFINE c == org[p].call
             o == [org[p] EXCEPT !.puts[c.dest] = 0]
  <2>1. /\ c.op = "unlockWait" /\ org' = [org EXCEPT ![p] = HasUnlocked(o, c.dest, c.all)]
        /\ ans' \subseteq ans /\ UNCHANGED <<scn, tgt, flight, req>>
    BY <1>8 DEF UnlockDone, InCall
  <2>2. o \in Origin
    BY <1>2, OriginTypes
  <2>3. /\ o.call = org[p].call /\ o.remote = org[p].remote /\ o.epoch = org[p].epoch
        /\ o.locks = org[p].locks /\ o.accs = org[p].accs /\ o.pend = org[p].pend
    BY <1>2 DEF Origin
  <2>4. OriginOK(p, o)
    <3> HIDE DEF o
    <3> QED
      BY <1>2, <2>3 DEF OriginOK, LockedBy
  <2>5. o.remote[c.dest] # "UNLOCKED"
    BY <1>2, <2>1, <2>3 DEF OriginOK
  <2> HIDE DEF o
  <2>6. PICK h : h = HasUnlocked(o, c.dest, c.all)
    OBVIOUS
  <2>7. h \in Origin /\ OriginOK(p, h)
    BY <1>1, <1>2, <2>2, <2>4, <2>5, <2>6, UnlockKeepsOrigin
  <2>8. org' = [org EXCEPT ![p] = h]
    BY <2>1, <2>6
  <2>9. TargetTypeOK'
    BY <1>3, <2>1 DEF TargetTypeOK
  <2> QED
    BY <1>1, <2>7, <2>8, <2>9, OneOriginChanges
<1> QED
  BY <1>4, <1>5, <1>6, <1>7, <1>8

(* flush_all goes on to a rank of the communicator that is not its own, or     *)
(* returns.                                                                    *)
LEMMA FlushAllFromFacts ==
    ASSUME TypeOK, NEW p \in Rank, NEW d \in Nat
    PROVE  LET c == FlushAllFrom(p, d)
           IN  /\ c \in Call
               /\ \/ /\ c = Idle /\ c.op = "none"
                     /\ \A t \in Member : t >= d => t = p
                  \/ /\ c.op = "flushAllWait" /\ c.dest \in Member /\ c.dest # p
                     /\ c.dest = (IF d = p THEN d + 1 ELSE d)
<1>1. scn.n \in 2..N /\ Member \subseteq Rank /\ 0 \in Rank /\ N \in Nat
  BY MemberFacts
<1>2. Idle \in Call /\ Idle.op = "none"
  BY <1>1 DEF Idle, Call
<1>3. CASE \E t \in Member : t >= d /\ t # p
  <2>1. PICK t \in Member : t >= d /\ t # p
    BY <1>3
  <2> DEFINE e == IF d = p THEN d + 1 ELSE d
  <2>2. e \in Member /\ e # p
    BY <1>1, <2>1 DEF Member
  <2> HIDE DEF e
  <2>3. FlushAllFrom(p, d) = [op |-> "flushAllWait", dest |-> e, excl |-> FALSE, all |-> TRUE]
    BY <1>3 DEF FlushAllFrom, e
  <2>4. e \in Rank
    BY <1>1, <2>2
  <2>5. FlushAllFrom(p, d) \in Call
    BY <2>3, <2>4 DEF Call
  <2>6. FlushAllFrom(p, d).op = "flushAllWait" /\ FlushAllFrom(p, d).dest = e
    BY <2>3
  <2> QED
    BY <2>2, <2>5, <2>6 DEF e
<1>4. CASE ~\E t \in Member : t >= d /\ t # p
  BY <1>2, <1>4 DEF FlushAllFrom
<1> QED
  BY <1>3, <1>4

(* The steps of flush and flush_all. *)
LEMMA FlushSteps ==
    ASSUME OriginInv, NEW p \in Member
    PROVE  /\ \A d \in Member : Win_flush(p, d) => OriginInv'
           /\ \/ FlushSend(p) \/ FlushDone(p) \/ Win_flush_all(p) \/ FlushAllSend(p)
              \/ FlushAllDone(p)
              => OriginInv'
<1>1. /\ p \in Rank /\ Member \subseteq Rank /\ 0 \in Rank /\ Rank \subseteq Nat /\ TypeOK
  BY MemberFacts DEF OriginInv
<1>2. /\ org[p] \in Origin /\ OriginOK(p, org[p]) /\ org[p].call \in Call
      /\ org[p].call.dest \in Rank /\ org[p].puts \in [Rank -> Nat]
      /\ org \in [Rank -> Origin]
  BY <1>1, OriginRecord, OriginFields, CallFields
<1>3. TargetTypeOK
  BY <1>1 DEF TypeOK, TargetTypeOK
<1>4. Idle \in Call /\ Idle.op = "none"
  BY <1>1 DEF Idle, Call
<1>5. \A d \in Rank : FlushRequest(p, d) \in Request
  <2> SUFFICES ASSUME NEW d \in Rank PROVE FlushRequest(p, d) \in Request
    OBVIOUS
  <2>1. org[p].puts[d] \in Nat
    BY <1>2
  <2> QED
    BY <1>1, <2>1 DEF FlushRequest, Request
<1>6. ASSUME NEW d \in Rank, NEW c \in Call, c.op \in {"none", "flushAllWait"},
             org' = [org EXCEPT ![p].puts[d] = 0, ![p].call = c], TargetTypeOK'
      PROVE  OriginInv'
  <2> DEFINE o == [org[p] EXCEPT !.puts[d] = 0]
             h == [o EXCEPT !.call = c]
  <2>1. o \in Origin
    BY <1>2, OriginTypes
  <2>2. /\ o.call = org[p].call /\ o.remote = org[p].remote /\ o.epoch = org[p].epoch
        /\ o.locks = org[p].locks /\ o.accs = org[p].accs /\ o.pend = org[p].pend
    BY <1>2 DEF Origin
  <2>3. org' = [org EXCEPT ![p] = h]
    BY <1>2, <1>6
  <2> HIDE DEF o
  <2>4. OriginOK(p, o)
    BY <1>2, <2>2 DEF OriginOK, LockedBy
  <2>5. h \in Origin /\ OriginOK(p, h)
    BY <1>1, <1>6, <2>1, <2>4, CallChanges
  <2> HIDE DEF h
  <2> QED
    BY <1>1, <1>6, <2>3, <2>5, OneOriginChanges
<1>7. ASSUME NEW d \in Member, Win_flush(p, d) PROVE OriginInv'
  <2> DEFINE c == [op |-> "flush", dest |-> d, excl |-> FALSE, all |-> FALSE]
  <2>1. c \in Call /\ c.op = "flush" /\ c.dest # p
    BY <1>1, <1>7 DEF Call, Win_flush
  <2>2. org' = [org EXCEPT ![p].call = c] /\ UNCHANGED <<scn, tgt, flight, req, ans>>
    BY <1>7 DEF Win_flush
  <2>3. TargetTypeOK'
    BY <1>3, <2>2 DEF TargetTypeOK
  <2> HIDE DEF c
  <2> QED
    BY <1>1, <2>1, <2>2, <2>3, CallStepOK
<1>8. ASSUME FlushSend(p) PROVE OriginInv'
  <2> DEFINE c == [org[p].call EXCEPT !.op = "flushWait"]
  <2>1. c \in Call /\ c.op = "flushWait"
    BY <1>2 DEF Call
  <2>2. /\ org' = [org EXCEPT ![p].call.op = "flushWait"]
        /\ req' = req \cup {FlushRequest(p, org[p].call.dest)}
        /\ UNCHANGED <<scn, tgt, flight, ans>>
    BY <1>8 DEF FlushSend
  <2>3. org' = [org EXCEPT ![p].call = c]
    BY <2>2
  <2>4. TargetTypeOK'
    BY <1>2, <1>3, <1>5, <2>2 DEF TargetTypeOK
  <2> HIDE DEF c
  <2> QED
    BY <1>1, <2>1, <2>3, <2>4, CallStepOK
<1>9. ASSUME FlushDone(p) PROVE OriginInv'
  <2>1. /\ org' = [org EXCEPT ![p].puts[org[p].call.dest] = 0, ![p].call = Idle]
        /\ ans' \subseteq ans /\ UNCHANGED <<scn, tgt, flight, req>>
    BY <1>9 DEF FlushDone
  <2>2. TargetTypeOK'
    BY <1>3, <2>1 DEF TargetTypeOK
  <2> QED
    BY <1>2, <1>4, <1>6, <2>1, <2>2
<1>10. ASSUME Win_flush_all(p) PROVE OriginInv'
  <2> DEFINE c == [op |-> "flushAll", dest |-> 0, excl |-> FALSE, all |-> TRUE]
  <2>1. c \in Call /\ c.op = "flushAll"
    BY <1>1 DEF Call
  <2>2. org' = [org EXCEPT ![p].call = c] /\ UNCHANGED <<scn, tgt, flight, req, ans>>
    BY <1>10 DEF Win_flush_all
  <2>3. TargetTypeOK'
    BY <1>3, <2>2 DEF TargetTypeOK
  <2> HIDE DEF c
  <2> QED
    BY <1>1, <2>1, <2>2, <2>3, CallStepOK
<1>11. ASSUME FlushAllSend(p) PROVE OriginInv'
  <2>1. PICK c : c = FlushAllFrom(p, 0)
    OBVIOUS
  <2>2. c \in Call /\ c.op \in {"none", "flushAllWait"}
    BY <1>1, <2>1, FlushAllFromFacts
  <2>3. /\ org' = [org EXCEPT ![p].call = c]
        /\ req' = req \cup {FlushRequest(p, d) : d \in Member \ {p}}
        /\ UNCHANGED <<scn, tgt, flight, ans>>
    BY <1>11, <2>1 DEF FlushAllSend
  <2>4. {FlushRequest(p, d) : d \in Member \ {p}} \subseteq Request
    BY <1>1, <1>5
  <2>5. TargetTypeOK'
    BY <1>3, <2>3, <2>4 DEF TargetTypeOK
  <2> QED
    BY <1>1, <2>2, <2>3, <2>5, CallStepOK
<1>12. ASSUME FlushAllDone(p) PROVE OriginInv'
  <2> DEFINE d == org[p].call.dest
  <2>1. PICK c : c = FlushAllFrom(p, d + 1)
    OBVIOUS
  <2>2. d + 1 \in Nat /\ d \in Rank
    BY <1>1, <1>2
  <2>3. c \in Call /\ c.op \in {"none", "flushAllWait"}
    BY <1>1, <2>1, <2>2, FlushAllFromFacts
  <2>4. /\ org' = [org EXCEPT ![p].puts[d] = 0, ![p].call = c]
        /\ ans' \subseteq ans /\ UNCHANGED <<scn, tgt, flight, req>>
    BY <1>12, <2>1 DEF FlushAllDone
  <2>5. TargetTypeOK'
    BY <1>3, <2>4 DEF TargetTypeOK
  <2> HIDE DEF d
  <2> QED
    BY <1>6, <2>2, <2>3, <2>4, <2>5
<1> QED
  BY <1>7, <1>8, <1>9, <1>10, <1>11, <1>12

(* The one-sided operations and their completion. *)
LEMMA OperationSteps ==
    ASSUME OriginInv, NEW p \in Rank, NEW t \in Rank
    PROVE  \/ Put(p, t) \/ Get(p, t) \/ Accumulate(p, t) \/ OpDone(p, t) \/ AccumulateDone(p, t)
           => OriginInv'
<1> DEFINE o == org[p]
<1>1. /\ o \in Origin /\ OriginOK(p, o) /\ org \in [Rank -> Origin] /\ TypeOK
      /\ o.pend \in [Rank -> Nat] /\ o.puts \in [Rank -> Nat] /\ o.accs \in [Rank -> Nat]
      /\ \A q \in Rank : o.accs[q] <= o.pend[q]
  BY OriginRecord, OriginFields DEF OriginOK
<1>2. TargetTypeOK /\ flight \in [Rank -> [Rank -> Nat]]
  BY <1>1 DEF TypeOK, TargetTypeOK
<1>3. /\ o.pend[t] \in Nat /\ o.puts[t] \in Nat /\ o.accs[t] \in Nat /\ flight[p][t] \in Nat
      /\ o.pend[t] + 1 \in Nat /\ o.puts[t] + 1 \in Nat /\ o.accs[t] + 1 \in Nat
  BY <1>1, <1>2
<1>4. ASSUME NEW h \in Origin, org' = [org EXCEPT ![p] = h], TargetTypeOK',
             h.call = o.call, h.remote = o.remote, h.epoch = o.epoch, h.locks = o.locks,
             \A q \in Rank : h.accs[q] <= h.pend[q],
             o.call.op = "none" \/ \A q \in Rank : h.pend[q] <= o.pend[q]
      PROVE  OriginInv'
  BY <1>1, <1>4, CountsKeepOrigin, OneOriginChanges
<1>5. ASSUME [flight EXCEPT ![p][t] = @ + 1] = flight', UNCHANGED <<scn, tgt, req, ans>>
      PROVE  TargetTypeOK'
  <2>1. flight' \in [Rank -> [Rank -> Nat]]
    BY <1>2, <1>3, <1>5
  <2> QED
    BY <1>2, <1>5, <2>1 DEF TargetTypeOK
<1>6. UNCHANGED <<scn, tgt, flight, req, ans>> => TargetTypeOK'
  BY <1>2 DEF TargetTypeOK
<1>7. CASE Put(p, t)
  <2> DEFINE h == [o EXCEPT !.pend[t] = @ + 1, !.puts[t] = @ + 1]
  <2>1. h \in Origin
    BY <1>1, <1>3, OriginTypes
  <2>2. /\ h.call = o.call /\ h.remote = o.remote /\ h.epoch = o.epoch /\ h.locks = o.locks
        /\ h.accs = o.accs /\ h.pend = [o.pend EXCEPT ![t] = @ + 1]
    BY <1>1 DEF Origin
  <2>3. org' = [org EXCEPT ![p] = h] /\ o.call.op = "none" /\ TargetTypeOK'
    BY <1>1, <1>5, <1>7 DEF Put, Program, InCall
  <2> HIDE DEF h, o
  <2>4. \A q \in Rank : h.accs[q] <= h.pend[q]
    BY <1>1, <2>2
  <2> QED
    BY <1>4, <2>1, <2>2, <2>3, <2>4
<1>8. CASE Get(p, t)
  <2> DEFINE h == [o EXCEPT !.pend[t] = @ + 1]
  <2>1. h \in Origin
    BY <1>1, <1>3, OriginTypes
  <2>2. /\ h.call = o.call /\ h.remote = o.remote /\ h.epoch = o.epoch /\ h.locks = o.locks
        /\ h.accs = o.accs /\ h.pend = [o.pend EXCEPT ![t] = @ + 1]
    BY <1>1 DEF Origin
  <2>3. org' = [org EXCEPT ![p] = h] /\ o.call.op = "none" /\ TargetTypeOK'
    BY <1>1, <1>6, <1>8 DEF Get, Program, InCall
  <2> HIDE DEF h, o
  <2>4. \A q \in Rank : h.accs[q] <= h.pend[q]
    BY <1>1, <2>2
  <2> QED
    BY <1>4, <2>1, <2>2, <2>3, <2>4
<1>9. CASE Accumulate(p, t)
  <2> DEFINE h == [o EXCEPT !.pend[t] = @ + 1, !.puts[t] = @ + 1, !.accs[t] = @ + 1,
                            !.accFlag[t] = TRUE]
  <2>1. h \in Origin
    BY <1>1, <1>3, OriginTypes
  <2>2. /\ h.call = o.call /\ h.remote = o.remote /\ h.epoch = o.epoch /\ h.locks = o.locks
        /\ h.accs = [o.accs EXCEPT ![t] = @ + 1] /\ h.pend = [o.pend EXCEPT ![t] = @ + 1]
    BY <1>1 DEF Origin
  <2>3. org' = [org EXCEPT ![p] = h] /\ o.call.op = "none" /\ TargetTypeOK'
    BY <1>1, <1>5, <1>9, ZenonT(60) DEF Accumulate, Program, InCall
  <2> HIDE DEF h, o
  <2>4. \A q \in Rank : h.accs[q] <= h.pend[q]
    BY <1>1, <1>3, <2>2
  <2> QED
    BY <1>4, <2>1, <2>2, <2>3, <2>4
<1>10. CASE OpDone(p, t)
  <2> DEFINE h == [o EXCEPT !.pend[t] = @ - 1]
  <2>1. o.pend[t] > o.accs[t] /\ o.pend[t] - 1 \in Nat
    BY <1>3, <1>10 DEF OpDone
  <2>2. h \in Origin
    BY <1>1, <2>1, OriginTypes
  <2>3. /\ h.call = o.call /\ h.remote = o.remote /\ h.epoch = o.epoch /\ h.locks = o.locks
        /\ h.accs = o.accs /\ h.pend = [o.pend EXCEPT ![t] = @ - 1]
    BY <1>1 DEF Origin
  <2>4. org' = [org EXCEPT ![p] = h] /\ TargetTypeOK'
    BY <1>1, <1>6, <1>10 DEF OpDone
  <2> HIDE DEF h, o
  <2>5. \A q \in Rank : h.accs[q] <= h.pend[q] /\ h.pend[q] <= o.pend[q]
    BY <1>1, <1>3, <2>1, <2>3
  <2> QED
    BY <1>4, <2>2, <2>3, <2>4, <2>5
<1>11. CASE AccumulateDone(p, t)
  <2> DEFINE h == [o EXCEPT !.pend[t] = @ - 1, !.accs[t] = @ - 1, !.accFlag[t] = FALSE]
  <2>1. o.pend[t] - 1 \in Nat /\ o.accs[t] - 1 \in Nat
    BY <1>1, <1>3, <1>11 DEF AccumulateDone
  <2>2. h \in Origin
    BY <1>1, <2>1, OriginTypes
  <2>3. /\ h.call = o.call /\ h.remote = o.remote /\ h.epoch = o.epoch /\ h.locks = o.locks
        /\ h.accs = [o.accs EXCEPT ![t] = @ - 1] /\ h.pend = [o.pend EXCEPT ![t] = @ - 1]
    BY <1>1 DEF Origin
  <2>4. org' = [org EXCEPT ![p] = h] /\ TargetTypeOK'
    BY <1>1, <1>6, <1>11 DEF AccumulateDone
  <2> HIDE DEF h, o
  <2>5. \A q \in Rank : h.accs[q] <= h.pend[q] /\ h.pend[q] <= o.pend[q]
    BY <1>1, <1>3, <2>1, <2>3
  <2> QED
    BY <1>4, <2>2, <2>3, <2>4, <2>5
<1> QED
  BY <1>7, <1>8, <1>9, <1>10, <1>11

-----------------------------------------------------------------------------
(* The theorems *)

(* The initial state satisfies the invariant of the origins. *)
LEMMA OriginInit == Init => OriginInv
<1> SUFFICES ASSUME Init PROVE OriginInv
  OBVIOUS
<1>1. 0 \in Rank
  BY RankAssumption DEF Rank
<1>2. Idle \in Call
  BY <1>1 DEF Idle, Call
<1>3. org \in [Rank -> Origin]
  BY <1>2 DEF Init, Origin, LockStates
<1>4. tgt \in [Rank -> Target]
  <2>1. [cnt |-> 0, excl |-> FALSE, list |-> <<>>, src |-> [p \in Rank |-> 0],
         recvd |-> 0, stack |-> <<>>] \in Target
    BY DEF Target
  <2> QED
    BY <2>1 DEF Init
<1>5. TypeOK
  BY <1>3, <1>4 DEF Init, TypeOK
<1>6. ASSUME NEW p \in Rank PROVE OriginOK(p, org[p])
  <2>1. LockedBy(org[p]) = {}
    BY DEF Init, LockedBy
  <2>2. Cardinality(LockedBy(org[p])) = 0
    BY <2>1, FS_EmptySet
  <2>3. /\ org[p].call.op = "none" /\ org[p].epoch = "NONE" /\ org[p].locks = 0
        /\ \A t \in Rank : org[p].accs[t] = 0 /\ org[p].pend[t] = 0
    BY DEF Init, Idle
  <2> QED
    BY <2>1, <2>2, <2>3 DEF OriginOK
<1> QED
  BY <1>5, <1>6 DEF OriginInv, OriginsOK

(* Every step keeps the invariant of the origins. *)
LEMMA OriginStep == OriginInv /\ [Next]_vars => OriginInv'
<1> SUFFICES ASSUME OriginInv, [Next]_vars PROVE OriginInv'
  OBVIOUS
<1>1. Member \subseteq Rank
  BY MemberFacts DEF OriginInv
<1>2. ASSUME NEW p \in Member, ProgramStep(p) PROVE OriginInv'
  BY <1>1, <1>2, LockSteps, UnlockSteps, FlushSteps, OperationSteps DEF ProgramStep
<1>3. ASSUME NEW p \in Member, CallStep(p) PROVE OriginInv'
  BY <1>3, LockSteps, UnlockSteps, FlushSteps DEF CallStep
<1>4. ASSUME NEW p \in Member, CallbackDone(p) PROVE OriginInv'
  BY <1>1, <1>4, TargetSteps
<1>5. ASSUME NEW p \in Member, NEW t \in Member, CompletionStep(p, t) PROVE OriginInv'
  BY <1>1, <1>5, OperationSteps, TargetSteps DEF CompletionStep
<1>6. ASSUME NEW p \in Member, NEW t \in Member, RequestStep(p, t) PROVE OriginInv'
  BY <1>6, TargetSteps DEF RequestStep
<1>7. CASE UNCHANGED vars
  <2>1. TargetTypeOK' /\ org' = org
    BY <1>7 DEF vars, OriginInv, TypeOK, TargetTypeOK
  <2> QED
    BY <2>1, NoOriginChanges
<1> QED
  BY <1>2, <1>3, <1>4, <1>5, <1>6, <1>7 DEF Next

(* The invariant of the origins holds in every reachable state. *)
THEOREM OriginInvHolds == Spec => []OriginInv
BY OriginInit, OriginStep, PTL DEF Spec

(* The windows and messages are well-typed in every reachable state, for every *)
(* number of ranks and every program: no counter of an origin                   *)
(* (epoch_lock_count, rma_local_pending_rank) ever gets below zero.             *)
THEOREM PassiveTypeCorrect == Spec => []TypeOK
<1>1. OriginInv => TypeOK
  BY DEF OriginInv
<1> QED
  BY <1>1, OriginInvHolds, PTL

(* epoch_lock_count is the number of windows that the origin has locked, and    *)
(* its passive epoch lasts exactly as long as there is one, through lock_all    *)
(* and unlock_all calls that are refused half-way too.                          *)
THEOREM EpochTracksLocksHolds == Spec => []EpochTracksLocks
<1>1. OriginInv => EpochTracksLocks
  BY DEF OriginInv, OriginsOK, OriginOK, LockedBy, EpochTracksLocks
<1> QED
  BY <1>1, OriginInvHolds, PTL

-----------------------------------------------------------------------------
(* Requests, queued requests, waiting callbacks and answers are tokens of the *)
(* pair of an origin and a target: the origin waits for its token, and there  *)
(* is at most one.  The invariant is stated of the values R of req, A of ans, *)
(* L and S of the lists and stacks, C of the calls, n of the communicator's   *)
(* size, so that a step can be taken apart into moves of single tokens.       *)

(* The call c of p waits for an answer of the type from t. *)
Awaits(c, p, t, type) ==
    \/ type = "LOCK" /\ c.op = "lockWait" /\ c.dest = t
    \/ type = "UNLOCK" /\ c.op = "unlockWait" /\ c.dest = t /\ t # p
    \/ type = "FLUSH" /\ c.op = "flushWait" /\ c.dest = t /\ t # p
    \/ type = "FLUSH" /\ c.op = "flushAllWait" /\ t # p

Asked(R, p, t) == \E m \in R : m.src = p /\ m.dst = t
Within(s, p) == \E i \in 1..Len(s) : s[i].src = p
Answered(A, p, t) == \E a \in A : a.dst = p /\ a.src = t

(* The targets that p has a request at, or on the way, and the ranks flush_all *)
(* of p counts answers for when its next is d.                                  *)
Open(R, A, S, p) == {t \in Rank : Asked(R, p, t) \/ Within(S[t], p) \/ Answered(A, p, t)}
Due(n, p, d) == {t \in 0..(n - 1) : t >= d /\ t # p}

TokenTypes(R, A, L, S, C) ==
    /\ R \subseteq Request /\ A \subseteq Answer
    /\ L \in [Rank -> Seq(Request)] /\ S \in [Rank -> Seq(Request)]
    /\ C \in [Rank -> Call]

RequestsOK(R, C) ==
    /\ \A m \in R : /\ Awaits(C[m.src], m.src, m.dst, m.type)
                    /\ m.type = "LOCK" => m.excl = C[m.src].excl
    /\ \A m, l \in R : m.src = l.src /\ m.dst = l.dst => m = l

ListsOK(L, C) ==
    \A t \in Rank :
        /\ \A i \in 1..Len(L[t]) :
              /\ L[t][i].type = "LOCK" /\ L[t][i].dst = t
              /\ Awaits(C[L[t][i].src], L[t][i].src, t, "LOCK")
              /\ L[t][i].excl = C[L[t][i].src].excl
        /\ \A i, j \in 1..Len(L[t]) : L[t][i].src = L[t][j].src => i = j

StacksOK(S, C) ==
    \A t \in Rank :
        /\ \A i \in 1..Len(S[t]) :
              /\ S[t][i].type \in {"UNLOCK", "FLUSH"} /\ S[t][i].dst = t
              /\ Awaits(C[S[t][i].src], S[t][i].src, t, S[t][i].type)
        /\ \A i, j \in 1..Len(S[t]) : S[t][i].src = S[t][j].src => i = j

AnswersOK(A, C) == \A a \in A : Awaits(C[a.dst], a.dst, a.src, a.type)

Apart(R, A, L, S) ==
    \A p, t \in Rank :
        /\ Asked(R, p, t) => ~Within(L[t], p) /\ ~Within(S[t], p) /\ ~Answered(A, p, t)
        /\ Within(L[t], p) => ~Answered(A, p, t)
        /\ Within(S[t], p) => ~Answered(A, p, t)

FlushesOK(n, R, A, S, C) ==
    \A p \in Rank : C[p].op = "flushAllWait" =>
        /\ C[p].dest \in Due(n, p, C[p].dest)
        /\ Cardinality(Open(R, A, S, p)) = Cardinality(Due(n, p, C[p].dest))

TokensOK(n, R, A, L, S, C) ==
    /\ TokenTypes(R, A, L, S, C)
    /\ RequestsOK(R, C) /\ ListsOK(L, C) /\ StacksOK(S, C) /\ AnswersOK(A, C)
    /\ Apart(R, A, L, S)
    /\ FlushesOK(n, R, A, S, C)

-----------------------------------------------------------------------------
(* The moves of single tokens *)

(* An origin waits for tokens of one type only. *)
LEMMA OneType ==
    ASSUME NEW c, NEW p, NEW t, NEW x, NEW y, Awaits(c, p, t, x), Awaits(c, p, t, y)
    PROVE  x = y
BY DEF Awaits

(* An answer is determined by its pair. *)
LEMMA OneAnswer ==
    ASSUME NEW C, NEW A, A \subseteq Answer, AnswersOK(A, C), NEW a \in A, NEW b \in A,
           a.src = b.src, a.dst = b.dst
    PROVE  a = b
<1>1. a.type = b.type
  BY OneType DEF AnswersOK
<1>2. a \in Answer /\ b \in Answer
  OBVIOUS
<1> QED
  BY <1>1, <1>2 DEF Answer

(* An origin whose call does not wait has no tokens. *)
LEMMA NoTokens ==
    ASSUME NEW n, NEW R, NEW A, NEW L, NEW S, NEW C, TokensOK(n, R, A, L, S, C),
           NEW p \in Rank,
           C[p].op \notin {"lockWait", "unlockWait", "flushWait", "flushAllWait"}
    PROVE  \A t \in Rank : /\ ~Asked(R, p, t) /\ ~Within(L[t], p) /\ ~Within(S[t], p)
                           /\ ~Answered(A, p, t)
<1> SUFFICES ASSUME NEW t \in Rank
             PROVE  ~Asked(R, p, t) /\ ~Within(L[t], p) /\ ~Within(S[t], p) /\ ~Answered(A, p, t)
  OBVIOUS
<1>1. \A u, x : ~Awaits(C[p], p, u, x)
  BY DEF Awaits
<1>2. ~Asked(R, p, t)
  BY <1>1 DEF Asked, TokensOK, RequestsOK
<1>3. ~Within(L[t], p)
  BY <1>1 DEF Within, TokensOK, ListsOK
<1>4. ~Within(S[t], p)
  BY <1>1 DEF Within, TokensOK, StacksOK
<1>5. ~Answered(A, p, t)
  BY <1>1 DEF Answered, TokensOK, AnswersOK
<1> QED
  BY <1>2, <1>3, <1>4, <1>5

(* A request becomes an answer: a lock is granted, or a callback ends at once. *)
LEMMA RequestToAnswer ==
    ASSUME NEW n, NEW R, NEW A, NEW L, NEW S, NEW C, TokensOK(n, R, A, L, S, C),
           NEW m \in R, NEW a \in Answer, a.type = m.type, a.src = m.dst, a.dst = m.src
    PROVE  TokensOK(n, R \ {m}, A \cup {a}, L, S, C)
<1> DEFINE Q == R \ {m}
           B == A \cup {a}
<1>1. m \in Request /\ m.src \in Rank /\ m.dst \in Rank
  BY RequestFields DEF TokensOK, TokenTypes
<1>2. TokenTypes(Q, B, L, S, C)
  BY DEF TokensOK, TokenTypes
<1>3. RequestsOK(Q, C) /\ AnswersOK(B, C)
  BY DEF TokensOK, RequestsOK, AnswersOK
<1>4. \A p, t : Asked(Q, p, t) <=> Asked(R, p, t) /\ ~(p = m.src /\ t = m.dst)
  BY DEF Asked, TokensOK, RequestsOK
<1>5. \A p, t : Answered(B, p, t) <=> Answered(A, p, t) \/ (p = m.src /\ t = m.dst)
  BY DEF Answered
<1>6. Asked(R, m.src, m.dst)
  BY DEF Asked
<1> HIDE DEF Q, B
<1>7. Apart(Q, B, L, S)
  BY <1>1, <1>4, <1>5, <1>6 DEF Apart, TokensOK
<1>8. \A p \in Rank : Open(Q, B, S, p) = Open(R, A, S, p)
  BY <1>1, <1>4, <1>5, <1>6 DEF Open
<1>9. FlushesOK(n, Q, B, S, C)
  BY <1>8 DEF TokensOK, FlushesOK
<1>10. TokensOK(n, Q, B, L, S, C)
  BY <1>2, <1>3, <1>7, <1>9 DEF TokensOK
<1> QED
  BY <1>10 DEF Q, B

(* Where a source is within a sequence of requests after an element is added  *)
(* at its end or its front, or its head is removed.                            *)
LEMMA WithinAppend ==
    ASSUME NEW s \in Seq(Request), NEW m \in Request
    PROVE  /\ Append(s, m) \in Seq(Request) /\ Len(Append(s, m)) = Len(s) + 1
           /\ \A i \in 1..Len(s) : Append(s, m)[i] = s[i]
           /\ Append(s, m)[Len(s) + 1] = m
           /\ \A p : Within(Append(s, m), p) <=> Within(s, p) \/ p = m.src
<1>1. /\ Append(s, m) \in Seq(Request) /\ Len(Append(s, m)) = Len(s) + 1
      /\ \A i \in 1..Len(s) : Append(s, m)[i] = s[i]
      /\ Append(s, m)[Len(s) + 1] = m /\ Len(s) \in Nat
  OBVIOUS
<1>2. ASSUME NEW p PROVE Within(Append(s, m), p) <=> Within(s, p) \/ p = m.src
  BY <1>1 DEF Within
<1> QED
  BY <1>1, <1>2

(* A callback pushed on the stack adds its origin. *)
LEMMA WithinPush ==
    ASSUME NEW s \in Seq(Request), NEW m \in Request
    PROVE  /\ <<m>> \o s \in Seq(Request) /\ Len(<<m>> \o s) = Len(s) + 1
           /\ (<<m>> \o s)[1] = m
           /\ \A i \in 2..(Len(s) + 1) : (<<m>> \o s)[i] = s[i - 1]
           /\ \A p : Within(<<m>> \o s, p) <=> Within(s, p) \/ p = m.src
<1> DEFINE q == <<m>> \o s
<1>1. /\ q \in Seq(Request) /\ Len(q) = Len(s) + 1 /\ Len(s) \in Nat
      /\ q[1] = m /\ \A i \in 2..(Len(s) + 1) : q[i] = s[i - 1]
  OBVIOUS
<1> HIDE DEF q
<1>2. ASSUME NEW p PROVE Within(q, p) <=> Within(s, p) \/ p = m.src
  <2>1. ASSUME Within(s, p) PROVE Within(q, p)
    <3>1. PICK i \in 1..Len(s) : s[i].src = p
      BY <2>1 DEF Within
    <3>2. i + 1 \in 2..(Len(s) + 1) /\ (i + 1) - 1 = i /\ i + 1 \in 1..Len(q)
      BY <1>1, <3>1
    <3>3. q[i + 1] = s[i]
      BY <1>1, <3>2
    <3> QED
      BY <3>1, <3>2, <3>3 DEF Within
  <2>2. ASSUME p = m.src PROVE Within(q, p)
    <3>1. 1 \in 1..Len(q)
      BY <1>1
    <3> QED
      BY <1>1, <2>2, <3>1 DEF Within
  <2>3. ASSUME Within(q, p), p # m.src PROVE Within(s, p)
    <3>1. PICK i \in 1..Len(q) : q[i].src = p
      BY <2>3 DEF Within
    <3>2. i # 1
      BY <1>1, <2>3, <3>1
    <3>3. i - 1 \in 1..Len(s) /\ i \in 2..(Len(s) + 1)
      BY <1>1, <3>1, <3>2
    <3> QED
      BY <1>1, <3>1, <3>3 DEF Within
  <2> QED
    BY <2>1, <2>2, <2>3
<1> QED
  BY <1>1, <1>2 DEF q

(* A list or stack without its head has lost the origin of the head only. *)
LEMMA WithinTail ==
    ASSUME NEW s \in Seq(Request), s # <<>>,
           \A i, j \in 1..Len(s) : s[i].src = s[j].src => i = j
    PROVE  /\ Tail(s) \in Seq(Request) /\ Len(Tail(s)) = Len(s) - 1 /\ Head(s) = s[1]
           /\ 1 \in 1..Len(s) /\ Head(s) \in Request
           /\ \A i \in 1..Len(Tail(s)) : i + 1 \in 1..Len(s) /\ Tail(s)[i] = s[i + 1]
           /\ \A p : Within(Tail(s), p) <=> Within(s, p) /\ p # Head(s).src
<1> DEFINE q == Tail(s)
<1>1. /\ q \in Seq(Request) /\ Len(q) = Len(s) - 1 /\ Len(s) \in Nat /\ Len(s) > 0
      /\ Head(s) = s[1] /\ Head(s) \in Request
      /\ \A i \in 1..Len(q) : q[i] = s[i + 1]
  OBVIOUS
<1> HIDE DEF q
<1>2. 1 \in 1..Len(s) /\ \A i \in 1..Len(q) : i + 1 \in 1..Len(s)
  BY <1>1
<1>3. ASSUME NEW p PROVE Within(q, p) <=> Within(s, p) /\ p # Head(s).src
  <2>1. ASSUME Within(q, p) PROVE Within(s, p) /\ p # Head(s).src
    <3>1. PICK i \in 1..Len(q) : q[i].src = p
      BY <2>1 DEF Within
    <3>2. i + 1 \in 1..Len(s) /\ s[i + 1].src = p /\ i + 1 # 1
      BY <1>1, <1>2, <3>1
    <3>3. s[1].src # p
      BY <1>2, <3>2
    <3> QED
      BY <1>1, <3>2, <3>3 DEF Within
  <2>2. ASSUME Within(s, p), p # Head(s).src PROVE Within(q, p)
    <3>1. PICK i \in 1..Len(s) : s[i].src = p
      BY <2>2 DEF Within
    <3>2. i # 1
      BY <1>1, <2>2, <3>1
    <3>3. i - 1 \in 1..Len(q) /\ (i - 1) + 1 = i
      BY <1>1, <3>1, <3>2
    <3>4. q[i - 1] = s[i]
      BY <1>1, <3>3
    <3> QED
      BY <3>1, <3>3, <3>4 DEF Within
  <2> QED
    BY <2>1, <2>2
<1> QED
  BY <1>1, <1>2, <1>3 DEF q

(* A lock request is queued. *)
LEMMA RequestToList ==
    ASSUME NEW n, NEW R, NEW A, NEW L, NEW S, NEW C, TokensOK(n, R, A, L, S, C),
           NEW m \in R, m.type = "LOCK"
    PROVE  TokensOK(n, R \ {m}, A, [L EXCEPT ![m.dst] = Append(@, m)], S, C)
<1> DEFINE Q == R \ {m}
           u == m.dst
           s == L[u]
           K == [L EXCEPT ![u] = Append(s, m)]
<1>1. m \in Request /\ m.src \in Rank /\ u \in Rank /\ L \in [Rank -> Seq(Request)]
      /\ s \in Seq(Request)
  BY RequestFields DEF TokensOK, TokenTypes
<1>2. /\ Append(s, m) \in Seq(Request) /\ Len(Append(s, m)) = Len(s) + 1 /\ Len(s) \in Nat
      /\ \A i \in 1..Len(s) : Append(s, m)[i] = s[i]
      /\ Append(s, m)[Len(s) + 1] = m
      /\ \A p : Within(Append(s, m), p) <=> Within(s, p) \/ p = m.src
  BY <1>1, WithinAppend
<1>3. K \in [Rank -> Seq(Request)] /\ K[u] = Append(s, m) /\ \A t \in Rank \ {u} : K[t] = L[t]
  BY <1>1, <1>2
<1>4. TokenTypes(Q, A, K, S, C)
  BY <1>3 DEF TokensOK, TokenTypes
<1>5. RequestsOK(Q, C)
  BY DEF TokensOK, RequestsOK
<1>6. \A p, t : Asked(Q, p, t) <=> Asked(R, p, t) /\ ~(p = m.src /\ t = u)
  BY DEF Asked, TokensOK, RequestsOK
<1>7. Asked(R, m.src, u) /\ ~Within(L[u], m.src)
  BY <1>1 DEF Asked, Apart, TokensOK
<1>8. Awaits(C[m.src], m.src, u, "LOCK") /\ m.excl = C[m.src].excl
  BY DEF TokensOK, RequestsOK
<1> HIDE DEF Q, K, s, u
<1>9. ASSUME NEW t \in Rank, NEW i \in 1..Len(K[t])
      PROVE  /\ K[t][i].type = "LOCK" /\ K[t][i].dst = t
             /\ Awaits(C[K[t][i].src], K[t][i].src, t, "LOCK")
             /\ K[t][i].excl = C[K[t][i].src].excl
             /\ \A j \in 1..Len(K[t]) : K[t][i].src = K[t][j].src => i = j
  <2>1. CASE t # u
    BY <1>3, <1>9, <2>1 DEF TokensOK, ListsOK
  <2>2. CASE t = u /\ i \in 1..Len(s)
    <3>1. K[t][i] = s[i]
      BY <1>2, <1>3, <2>2
    <3>2. \A j \in 1..Len(K[t]) : K[t][i].src = K[t][j].src => i = j
      <4>1. s[i].src # m.src
        BY <1>7, <2>2 DEF Within, s
      <4> QED
        BY <1>2, <1>3, <2>2, <3>1, <4>1 DEF TokensOK, ListsOK, s
    <3> QED
      BY <1>1, <2>2, <3>1, <3>2 DEF TokensOK, ListsOK, s
  <2>3. CASE t = u /\ i \notin 1..Len(s)
    <3>1. i = Len(s) + 1 /\ K[t][i] = m
      BY <1>2, <1>3, <1>9, <2>3
    <3>2. \A j \in 1..Len(K[t]) : K[t][i].src = K[t][j].src => i = j
      <4>1. \A j \in 1..Len(s) : s[j].src # m.src
        BY <1>7 DEF Within, s
      <4> QED
        BY <1>2, <1>3, <2>3, <3>1, <4>1
    <3> QED
      BY <1>8, <2>3, <3>1, <3>2 DEF u
  <2> QED
    BY <2>1, <2>2, <2>3
<1>10. ListsOK(K, C)
  BY <1>9 DEF ListsOK
<1>11. Apart(Q, A, K, S)
  <2> SUFFICES ASSUME NEW p \in Rank, NEW t \in Rank
               PROVE  /\ Asked(Q, p, t) => ~Within(K[t], p) /\ ~Within(S[t], p) /\ ~Answered(A, p, t)
                      /\ Within(K[t], p) => ~Answered(A, p, t)
                      /\ Within(S[t], p) => ~Answered(A, p, t)
    BY DEF Apart
  <2>1. Within(K[t], p) <=> Within(L[t], p) \/ (t = u /\ p = m.src)
    BY <1>1, <1>2, <1>3 DEF s
  <2> QED
    BY <1>6, <1>7, <2>1 DEF Apart, TokensOK
<1>12. FlushesOK(n, Q, A, S, C)
  <2>1. ASSUME NEW p \in Rank, C[p].op = "flushAllWait" PROVE Open(Q, A, S, p) = Open(R, A, S, p)
    <3>1. p # m.src
      BY <1>8, <2>1 DEF Awaits
    <3> QED
      BY <1>6, <3>1 DEF Open
  <2> QED
    BY <2>1 DEF TokensOK, FlushesOK
<1>13. StacksOK(S, C) /\ AnswersOK(A, C)
  BY DEF TokensOK
<1>14. TokensOK(n, Q, A, K, S, C)
  BY <1>4, <1>5, <1>10, <1>11, <1>12, <1>13 DEF TokensOK
<1> QED
  BY <1>14 DEF Q, K, s, u

(* An unlock or flush request becomes a callback that waits. *)
LEMMA RequestToStack ==
    ASSUME NEW n, NEW R, NEW A, NEW L, NEW S, NEW C, TokensOK(n, R, A, L, S, C),
           NEW m \in R, m.type # "LOCK"
    PROVE  TokensOK(n, R \ {m}, A, L, [S EXCEPT ![m.dst] = <<m>> \o @], C)
<1> DEFINE Q == R \ {m}
           u == m.dst
           s == S[u]
           q == <<m>> \o s
           K == [S EXCEPT ![u] = q]
<1>1. m \in Request /\ m.src \in Rank /\ u \in Rank /\ S \in [Rank -> Seq(Request)]
      /\ s \in Seq(Request) /\ m.type \in {"UNLOCK", "FLUSH"}
  BY RequestFields DEF TokensOK, TokenTypes
<1>2. /\ q \in Seq(Request) /\ Len(q) = Len(s) + 1 /\ Len(s) \in Nat
      /\ q[1] = m /\ \A i \in 2..(Len(s) + 1) : q[i] = s[i - 1]
      /\ \A p : Within(q, p) <=> Within(s, p) \/ p = m.src
  BY <1>1, WithinPush
<1>3. K \in [Rank -> Seq(Request)] /\ K[u] = q /\ \A t \in Rank \ {u} : K[t] = S[t]
  BY <1>1, <1>2
<1>4. TokenTypes(Q, A, L, K, C)
  BY <1>3 DEF TokensOK, TokenTypes
<1>5. RequestsOK(Q, C)
  BY DEF TokensOK, RequestsOK
<1>6. \A p, t : Asked(Q, p, t) <=> Asked(R, p, t) /\ ~(p = m.src /\ t = u)
  BY DEF Asked, TokensOK, RequestsOK
<1>7. Asked(R, m.src, u) /\ ~Within(S[u], m.src)
  BY <1>1 DEF Asked, Apart, TokensOK
<1>8. Awaits(C[m.src], m.src, u, m.type)
  BY DEF TokensOK, RequestsOK
<1> HIDE DEF Q, K, s, u, q
<1>9. ASSUME NEW t \in Rank, NEW i \in 1..Len(K[t])
      PROVE  /\ K[t][i].type \in {"UNLOCK", "FLUSH"} /\ K[t][i].dst = t
             /\ Awaits(C[K[t][i].src], K[t][i].src, t, K[t][i].type)
             /\ \A j \in 1..Len(K[t]) : K[t][i].src = K[t][j].src => i = j
  <2>1. CASE t # u
    <3>1. K[t] = S[t]
      BY <1>3, <2>1
    <3>2. i \in 1..Len(S[t])
      BY <1>9, <3>1
    <3> QED
      BY <3>1, <3>2 DEF TokensOK, StacksOK
  <2>2. CASE t = u /\ i # 1
    <3>1. i \in 2..(Len(s) + 1) /\ i - 1 \in 1..Len(s) /\ K[t][i] = s[i - 1]
      BY <1>2, <1>3, <1>9, <2>2
    <3>2. s[i - 1].src # m.src
      BY <1>7, <3>1 DEF Within, s
    <3>3. ASSUME NEW j \in 1..Len(K[t]), K[t][i].src = K[t][j].src PROVE i = j
      <4>1. j # 1
        BY <1>2, <1>3, <2>2, <3>1, <3>2, <3>3
      <4>2. j \in 2..(Len(s) + 1) /\ j - 1 \in 1..Len(s) /\ K[t][j] = s[j - 1]
        BY <1>2, <1>3, <2>2, <3>3, <4>1
      <4>3. \A k, l \in 1..Len(s) : s[k].src = s[l].src => k = l
        BY <1>1 DEF TokensOK, StacksOK, s
      <4>4. s[i - 1].src = s[j - 1].src
        BY <3>1, <3>3, <4>2
      <4>5. i - 1 = j - 1
        BY <3>1, <4>2, <4>3, <4>4
      <4> QED
        BY <3>1, <4>2, <4>5
    <3> QED
      BY <1>1, <2>2, <3>1, <3>3 DEF TokensOK, StacksOK, s
  <2>3. CASE t = u /\ i = 1
    <3>1. K[t][i] = m
      BY <1>2, <1>3, <2>3
    <3>2. ASSUME NEW j \in 1..Len(K[t]), K[t][i].src = K[t][j].src PROVE i = j
      <4>1. CASE j # 1
        <5>1. j \in 2..(Len(s) + 1) /\ j - 1 \in 1..Len(s) /\ K[t][j] = s[j - 1]
          BY <1>2, <1>3, <2>3, <3>2, <4>1
        <5> QED
          BY <1>7, <3>1, <3>2, <5>1 DEF Within, s
      <4> QED
        BY <2>3, <4>1
    <3> QED
      BY <1>1, <1>8, <2>3, <3>1, <3>2 DEF u
  <2> QED
    BY <2>1, <2>2, <2>3
<1>10. StacksOK(K, C)
  BY <1>9 DEF StacksOK
<1>11. ASSUME NEW p, NEW t \in Rank
       PROVE  Within(K[t], p) <=> Within(S[t], p) \/ (t = u /\ p = m.src)
  BY <1>1, <1>2, <1>3 DEF s
<1>12. Apart(Q, A, L, K)
  BY <1>1, <1>6, <1>7, <1>11 DEF Apart, TokensOK
<1>13. \A p \in Rank : Open(Q, A, K, p) = Open(R, A, S, p)
  BY <1>1, <1>6, <1>7, <1>11 DEF Open
<1>14. FlushesOK(n, Q, A, K, C)
  BY <1>13 DEF TokensOK, FlushesOK
<1>15. ListsOK(L, C) /\ AnswersOK(A, C)
  BY DEF TokensOK
<1>16. TokensOK(n, Q, A, L, K, C)
  BY <1>4, <1>5, <1>10, <1>12, <1>14, <1>15 DEF TokensOK
<1> QED
  BY <1>16 DEF Q, K, s, u, q

(* A sequence of requests keeps its properties when its head is removed. *)
LEMMA TailKeeps ==
    ASSUME NEW s \in Seq(Request), s # <<>>, NEW C, NEW t, NEW T,
           \A i \in 1..Len(s) : /\ s[i].type \in T /\ s[i].dst = t
                                /\ Awaits(C[s[i].src], s[i].src, t, s[i].type)
                                /\ s[i].type = "LOCK" => s[i].excl = C[s[i].src].excl,
           \A i, j \in 1..Len(s) : s[i].src = s[j].src => i = j
    PROVE  /\ \A i \in 1..Len(Tail(s)) :
                 /\ Tail(s)[i].type \in T /\ Tail(s)[i].dst = t
                 /\ Awaits(C[Tail(s)[i].src], Tail(s)[i].src, t, Tail(s)[i].type)
                 /\ Tail(s)[i].type = "LOCK" => Tail(s)[i].excl = C[Tail(s)[i].src].excl
           /\ \A i, j \in 1..Len(Tail(s)) : Tail(s)[i].src = Tail(s)[j].src => i = j
<1> DEFINE q == Tail(s)
<1>1. \A i \in 1..Len(q) : i + 1 \in 1..Len(s) /\ q[i] = s[i + 1]
  BY WithinTail
<1> HIDE DEF q
<1>2. \A i \in 1..Len(q) :
         /\ q[i].type \in T /\ q[i].dst = t
         /\ Awaits(C[q[i].src], q[i].src, t, q[i].type)
         /\ q[i].type = "LOCK" => q[i].excl = C[q[i].src].excl
  BY <1>1
<1>3. ASSUME NEW i \in 1..Len(q), NEW j \in 1..Len(q), q[i].src = q[j].src PROVE i = j
  <2>1. i + 1 = j + 1
    BY <1>1, <1>3
  <2> QED
    BY <2>1
<1> QED
  BY <1>2, <1>3 DEF q

(* A waiting callback ends. *)
LEMMA StackToAnswer ==
    ASSUME NEW n, NEW R, NEW A, NEW L, NEW S, NEW C, TokensOK(n, R, A, L, S, C),
           NEW u \in Rank, S[u] # <<>>, NEW h, h = Head(S[u]),
           NEW a \in Answer, a.type = h.type, a.src = u, a.dst = h.src
    PROVE  TokensOK(n, R, A \cup {a}, L, [S EXCEPT ![u] = Tail(@)], C)
<1> DEFINE s == S[u]
           K == [S EXCEPT ![u] = Tail(s)]
           B == A \cup {a}
<1>1. S \in [Rank -> Seq(Request)] /\ s \in Seq(Request)
  BY DEF TokensOK, TokenTypes
<1>2. /\ \A i \in 1..Len(s) : /\ s[i].type \in {"UNLOCK", "FLUSH"} /\ s[i].dst = u
                              /\ Awaits(C[s[i].src], s[i].src, u, s[i].type)
      /\ \A i, j \in 1..Len(s) : s[i].src = s[j].src => i = j
  BY DEF TokensOK, StacksOK
<1>3. /\ Tail(s) \in Seq(Request) /\ h = s[1] /\ 1 \in 1..Len(s) /\ h \in Request
      /\ \A p : Within(Tail(s), p) <=> Within(s, p) /\ p # h.src
  BY <1>1, <1>2, WithinTail
<1>4. h.src \in Rank /\ Within(s, h.src) /\ Awaits(C[h.src], h.src, u, h.type)
  BY <1>2, <1>3, RequestFields DEF Within
<1>5. K \in [Rank -> Seq(Request)] /\ K[u] = Tail(s) /\ \A t \in Rank \ {u} : K[t] = S[t]
  BY <1>1, <1>3
<1>6. TokenTypes(R, B, L, K, C)
  BY <1>5 DEF TokensOK, TokenTypes
<1>7. AnswersOK(B, C)
  BY <1>4 DEF TokensOK, AnswersOK
<1>8. \A p, t : Answered(B, p, t) <=> Answered(A, p, t) \/ (p = h.src /\ t = u)
  BY DEF Answered
<1>9. \A i \in 1..Len(s) : s[i].type # "LOCK"
  BY <1>2
<1>10. StacksOK(K, C)
  <2>1. /\ \A i \in 1..Len(Tail(s)) :
             /\ Tail(s)[i].type \in {"UNLOCK", "FLUSH"} /\ Tail(s)[i].dst = u
             /\ Awaits(C[Tail(s)[i].src], Tail(s)[i].src, u, Tail(s)[i].type)
        /\ \A i, j \in 1..Len(Tail(s)) : Tail(s)[i].src = Tail(s)[j].src => i = j
    BY <1>1, <1>2, <1>9, TailKeeps
  <2> HIDE DEF K, s
  <2> SUFFICES ASSUME NEW t \in Rank
               PROVE  /\ \A i \in 1..Len(K[t]) :
                            /\ K[t][i].type \in {"UNLOCK", "FLUSH"} /\ K[t][i].dst = t
                            /\ Awaits(C[K[t][i].src], K[t][i].src, t, K[t][i].type)
                      /\ \A i, j \in 1..Len(K[t]) : K[t][i].src = K[t][j].src => i = j
    BY DEF StacksOK
  <2>2. CASE t = u
    <3> DEFINE q == Tail(s)
    <3>1. K[t] = q
      BY <1>5, <2>2
    <3>2. /\ \A i \in 1..Len(q) :
               /\ q[i].type \in {"UNLOCK", "FLUSH"} /\ q[i].dst = t
               /\ Awaits(C[q[i].src], q[i].src, t, q[i].type)
          /\ \A i, j \in 1..Len(q) : q[i].src = q[j].src => i = j
      BY <2>1, <2>2
    <3> HIDE DEF q
    <3> QED
      BY <3>1, <3>2
  <2>3. CASE t # u
    <3>1. K[t] = S[t]
      BY <1>5, <2>3
    <3> QED
      BY <3>1 DEF TokensOK, StacksOK
  <2> QED
    BY <2>2, <2>3
<1>11. \A t \in Rank : \A p : Within(K[t], p) <=> Within(S[t], p) /\ ~(t = u /\ p = h.src)
  <2> HIDE DEF K
  <2> QED
    BY <1>3, <1>5
<1> HIDE DEF K, B, s
<1>12. Apart(R, B, L, K)
  <2> SUFFICES ASSUME NEW p \in Rank, NEW t \in Rank
               PROVE  /\ Asked(R, p, t) => ~Within(L[t], p) /\ ~Within(K[t], p) /\ ~Answered(B, p, t)
                      /\ Within(L[t], p) => ~Answered(B, p, t)
                      /\ Within(K[t], p) => ~Answered(B, p, t)
    BY DEF Apart
  <2>1. ~Within(L[u], h.src)
    <3>1. ~Awaits(C[h.src], h.src, u, "LOCK")
      BY <1>3, <1>4, <1>9, OneType
    <3> QED
      BY <3>1 DEF Within, TokensOK, ListsOK
  <2>2. ~Asked(R, h.src, u)
    BY <1>4 DEF Apart, TokensOK, s
  <2> QED
    BY <1>8, <1>11, <2>1, <2>2 DEF Apart, TokensOK
<1>13. \A p \in Rank : Open(R, B, K, p) = Open(R, A, S, p)
  BY <1>4, <1>8, <1>11 DEF Open, s
<1>14. FlushesOK(n, R, B, K, C)
  BY <1>13 DEF TokensOK, FlushesOK
<1>15. RequestsOK(R, C) /\ ListsOK(L, C)
  BY DEF TokensOK
<1>16. TokensOK(n, R, B, L, K, C)
  BY <1>6, <1>7, <1>10, <1>12, <1>14, <1>15 DEF TokensOK
<1> QED
  BY <1>16 DEF B, K, s

(* The head of lock_list gets the lock. *)
LEMMA ListToAnswer ==
    ASSUME NEW n, NEW R, NEW A, NEW L, NEW S, NEW C, TokensOK(n, R, A, L, S, C),
           NEW u \in Rank, L[u] # <<>>, NEW h, h = Head(L[u])
    PROVE  TokensOK(n, R, A \cup {LockAnswer(u, h.src)}, [L EXCEPT ![u] = Tail(@)], S, C)
<1> DEFINE s == L[u]
           a == LockAnswer(u, h.src)
           K == [L EXCEPT ![u] = Tail(s)]
           B == A \cup {a}
<1>1. L \in [Rank -> Seq(Request)] /\ s \in Seq(Request)
  BY DEF TokensOK, TokenTypes
<1>2. /\ \A i \in 1..Len(s) : /\ s[i].type = "LOCK" /\ s[i].dst = u
                              /\ Awaits(C[s[i].src], s[i].src, u, "LOCK")
                              /\ s[i].excl = C[s[i].src].excl
      /\ \A i, j \in 1..Len(s) : s[i].src = s[j].src => i = j
  BY DEF TokensOK, ListsOK
<1>3. /\ Tail(s) \in Seq(Request) /\ h = s[1] /\ 1 \in 1..Len(s) /\ h \in Request
      /\ \A p : Within(Tail(s), p) <=> Within(s, p) /\ p # h.src
  BY <1>1, <1>2, WithinTail
<1>4. h.src \in Rank /\ Within(s, h.src) /\ Awaits(C[h.src], h.src, u, "LOCK")
  BY <1>2, <1>3, RequestFields DEF Within
<1>5. a \in Answer /\ a.type = "LOCK" /\ a.src = u /\ a.dst = h.src
  BY <1>4, AnswerTypes DEF LockAnswer
<1>6. K \in [Rank -> Seq(Request)] /\ K[u] = Tail(s) /\ \A t \in Rank \ {u} : K[t] = L[t]
  BY <1>1, <1>3
<1> HIDE DEF a
<1>7. TokenTypes(R, B, K, S, C)
  BY <1>5, <1>6 DEF TokensOK, TokenTypes
<1>8. AnswersOK(B, C)
  BY <1>4, <1>5 DEF TokensOK, AnswersOK
<1>9. \A p, t : Answered(B, p, t) <=> Answered(A, p, t) \/ (p = h.src /\ t = u)
  BY <1>5 DEF Answered
<1>10. ListsOK(K, C)
  <2>1. /\ \A i \in 1..Len(Tail(s)) :
             /\ Tail(s)[i].type = "LOCK" /\ Tail(s)[i].dst = u
             /\ Awaits(C[Tail(s)[i].src], Tail(s)[i].src, u, "LOCK")
             /\ Tail(s)[i].excl = C[Tail(s)[i].src].excl
        /\ \A i, j \in 1..Len(Tail(s)) : Tail(s)[i].src = Tail(s)[j].src => i = j
    <3>1. \A i \in 1..Len(s) : /\ s[i].type \in {"LOCK"} /\ s[i].dst = u
                               /\ Awaits(C[s[i].src], s[i].src, u, s[i].type)
                               /\ s[i].type = "LOCK" => s[i].excl = C[s[i].src].excl
      BY <1>2
    <3>2. /\ \A i \in 1..Len(Tail(s)) :
               /\ Tail(s)[i].type \in {"LOCK"} /\ Tail(s)[i].dst = u
               /\ Awaits(C[Tail(s)[i].src], Tail(s)[i].src, u, Tail(s)[i].type)
               /\ Tail(s)[i].type = "LOCK" => Tail(s)[i].excl = C[Tail(s)[i].src].excl
          /\ \A i, j \in 1..Len(Tail(s)) : Tail(s)[i].src = Tail(s)[j].src => i = j
      BY <1>1, <1>2, <3>1, TailKeeps
    <3> HIDE DEF s
    <3> QED
      BY <3>2
  <2> HIDE DEF K, s
  <2> SUFFICES ASSUME NEW t \in Rank
               PROVE  /\ \A i \in 1..Len(K[t]) :
                            /\ K[t][i].type = "LOCK" /\ K[t][i].dst = t
                            /\ Awaits(C[K[t][i].src], K[t][i].src, t, "LOCK")
                            /\ K[t][i].excl = C[K[t][i].src].excl
                      /\ \A i, j \in 1..Len(K[t]) : K[t][i].src = K[t][j].src => i = j
    BY DEF ListsOK
  <2>2. CASE t = u
    <3> DEFINE q == Tail(s)
    <3>1. K[t] = q
      BY <1>6, <2>2
    <3>2. /\ \A i \in 1..Len(q) :
               /\ q[i].type = "LOCK" /\ q[i].dst = t
               /\ Awaits(C[q[i].src], q[i].src, t, "LOCK")
               /\ q[i].excl = C[q[i].src].excl
          /\ \A i, j \in 1..Len(q) : q[i].src = q[j].src => i = j
      BY <2>1, <2>2
    <3> HIDE DEF q
    <3> QED
      BY <3>1, <3>2
  <2>3. CASE t # u
    <3>1. K[t] = L[t]
      BY <1>6, <2>3
    <3> QED
      BY <3>1 DEF TokensOK, ListsOK
  <2> QED
    BY <2>2, <2>3
<1>11. \A t \in Rank : \A p : Within(K[t], p) <=> Within(L[t], p) /\ ~(t = u /\ p = h.src)
  <2> HIDE DEF K
  <2> QED
    BY <1>3, <1>6
<1> HIDE DEF K, B, s
<1>12. Apart(R, B, K, S)
  <2> SUFFICES ASSUME NEW p \in Rank, NEW t \in Rank
               PROVE  /\ Asked(R, p, t) => ~Within(K[t], p) /\ ~Within(S[t], p) /\ ~Answered(B, p, t)
                      /\ Within(K[t], p) => ~Answered(B, p, t)
                      /\ Within(S[t], p) => ~Answered(B, p, t)
    BY DEF Apart
  <2>1. ~Within(S[u], h.src)
    <3>1. ASSUME NEW x, Awaits(C[h.src], h.src, u, x) PROVE x = "LOCK"
      BY <1>4, <3>1, OneType
    <3> QED
      BY <3>1 DEF Within, TokensOK, StacksOK
  <2>2. ~Asked(R, h.src, u)
    BY <1>4 DEF Apart, TokensOK, s
  <2> QED
    BY <1>9, <1>11, <2>1, <2>2 DEF Apart, TokensOK
<1>13. ASSUME NEW p \in Rank, C[p].op = "flushAllWait" PROVE Open(R, B, S, p) = Open(R, A, S, p)
  <2>1. p # h.src
    BY <1>4, <1>13 DEF Awaits
  <2> QED
    BY <1>9, <2>1 DEF Open
<1>14. FlushesOK(n, R, B, S, C)
  BY <1>13 DEF TokensOK, FlushesOK
<1>15. RequestsOK(R, C) /\ StacksOK(S, C)
  BY DEF TokensOK
<1>16. TokensOK(n, R, B, K, S, C)
  BY <1>7, <1>8, <1>10, <1>12, <1>14, <1>15 DEF TokensOK
<1> QED
  BY <1>16 DEF B, K, s, a

(* p has no token at t, or at any target. *)
Bare(R, A, L, S, p, t) ==
    ~Asked(R, p, t) /\ ~Within(L[t], p) /\ ~Within(S[t], p) /\ ~Answered(A, p, t)

(* An origin without tokens goes on to another call. *)
LEMMA CallMoves ==
    ASSUME NEW n, NEW R, NEW A, NEW L, NEW S, NEW C, TokensOK(n, R, A, L, S, C),
           NEW p \in Rank, \A t \in Rank : Bare(R, A, L, S, p, t),
           NEW c \in Call,
           c.op # "flushAllWait"
    PROVE  TokensOK(n, R, A, L, S, [C EXCEPT ![p] = c])
<1> DEFINE D == [C EXCEPT ![p] = c]
<1>1. /\ C \in [Rank -> Call] /\ R \subseteq Request /\ A \subseteq Answer
      /\ L \in [Rank -> Seq(Request)] /\ S \in [Rank -> Seq(Request)]
  BY DEF TokensOK, TokenTypes
<1>2. D \in [Rank -> Call] /\ D[p] = c /\ \A q \in Rank \ {p} : D[q] = C[q]
  BY <1>1
<1> HIDE DEF D
<1>3. TokenTypes(R, A, L, S, D)
  BY <1>1, <1>2 DEF TokenTypes
<1>4. RequestsOK(R, D)
  <2>1. \A m \in R : m.src \in Rank /\ m.dst \in Rank
    BY <1>1, RequestFields
  <2>2. \A m \in R : m.src # p
    BY <2>1 DEF Bare, Asked
  <2> QED
    BY <1>2, <2>1, <2>2 DEF TokensOK, RequestsOK
<1>5. ListsOK(L, D)
  <2> SUFFICES ASSUME NEW t \in Rank, NEW i \in 1..Len(L[t])
               PROVE  /\ L[t][i].type = "LOCK" /\ L[t][i].dst = t
                      /\ Awaits(D[L[t][i].src], L[t][i].src, t, "LOCK")
                      /\ L[t][i].excl = D[L[t][i].src].excl
    BY DEF TokensOK, ListsOK
  <2>1. L[t][i].src \in Rank /\ L[t][i].src # p
    BY <1>1, RequestFields DEF Bare, Within
  <2> QED
    BY <1>2, <2>1 DEF TokensOK, ListsOK
<1>6. StacksOK(S, D)
  <2> SUFFICES ASSUME NEW t \in Rank, NEW i \in 1..Len(S[t])
               PROVE  /\ S[t][i].type \in {"UNLOCK", "FLUSH"} /\ S[t][i].dst = t
                      /\ Awaits(D[S[t][i].src], S[t][i].src, t, S[t][i].type)
    BY DEF TokensOK, StacksOK
  <2>1. S[t][i].src \in Rank /\ S[t][i].src # p
    BY <1>1, RequestFields DEF Bare, Within
  <2>2. D[S[t][i].src] = C[S[t][i].src]
    BY <1>2, <2>1
  <2> QED
    BY <2>2 DEF TokensOK, StacksOK
<1>7. AnswersOK(A, D)
  <2>1. \A a \in A : a.dst \in Rank /\ a.src \in Rank
    BY <1>1 DEF Answer
  <2>2. \A a \in A : a.dst # p
    BY <2>1 DEF Bare, Answered
  <2> QED
    BY <1>2, <2>1, <2>2 DEF TokensOK, AnswersOK
<1>8. FlushesOK(n, R, A, S, D)
  <2>1. Open(R, A, S, p) = {}
    BY DEF Open, Bare
  <2>2. Cardinality(Open(R, A, S, p)) = 0
    BY <2>1, FS_EmptySet
  <2> QED
    BY <1>2, <2>2 DEF TokensOK, FlushesOK
<1>9. Apart(R, A, L, S)
  BY DEF TokensOK
<1>10. TokensOK(n, R, A, L, S, D)
  BY <1>3, <1>4, <1>5, <1>6, <1>7, <1>8, <1>9 DEF TokensOK
<1> QED
  BY <1>10 DEF D

(* An origin that waits sends its request. *)
LEMMA RequestSent ==
    ASSUME NEW n, NEW R, NEW A, NEW L, NEW S, NEW C, TokensOK(n, R, A, L, S, C),
           NEW m \in Request, Bare(R, A, L, S, m.src, m.dst),
           Awaits(C[m.src], m.src, m.dst, m.type), m.type = "LOCK" => m.excl = C[m.src].excl,
           C[m.src].op # "flushAllWait"
    PROVE  TokensOK(n, R \cup {m}, A, L, S, C)
<1> DEFINE Q == R \cup {m}
<1>1. m.src \in Rank /\ m.dst \in Rank
  BY RequestFields
<1>2. \A p, t : Asked(Q, p, t) <=> Asked(R, p, t) \/ (p = m.src /\ t = m.dst)
  BY DEF Asked
<1>3. TokenTypes(Q, A, L, S, C)
  BY DEF TokensOK, TokenTypes
<1>4. RequestsOK(Q, C)
  <2>1. \A l \in R : ~(l.src = m.src /\ l.dst = m.dst)
    BY DEF Bare, Asked
  <2> QED
    BY <2>1 DEF TokensOK, RequestsOK
<1> HIDE DEF Q
<1>5. Apart(Q, A, L, S)
  BY <1>1, <1>2 DEF TokensOK, Apart, Bare
<1>6. FlushesOK(n, Q, A, S, C)
  <2>1. ASSUME NEW p \in Rank, C[p].op = "flushAllWait" PROVE Open(Q, A, S, p) = Open(R, A, S, p)
    BY <1>2, <2>1 DEF Open
  <2> QED
    BY <2>1 DEF TokensOK, FlushesOK
<1>7. TokensOK(n, Q, A, L, S, C)
  BY <1>3, <1>4, <1>5, <1>6 DEF TokensOK
<1> QED
  BY <1>7 DEF Q

(* Taking an answer from the set of answers. *)
LEMMA AnswerRemoved ==
    ASSUME NEW n, NEW R, NEW A, NEW L, NEW S, NEW C, TokensOK(n, R, A, L, S, C), NEW a \in A,
           NEW B, B = A \ {a}
    PROVE  /\ \A p, t : Answered(B, p, t) <=>
                          Answered(A, p, t) /\ ~(p = a.dst /\ t = a.src)
           /\ TokenTypes(R, B, L, S, C) /\ AnswersOK(B, C)
           /\ Apart(R, B, L, S)
           /\ a.dst \in Rank /\ a.src \in Rank
           /\ Bare(R, B, L, S, a.dst, a.src)
           /\ \A p \in Rank : p # a.dst => Open(R, B, S, p) = Open(R, A, S, p)
<1>1. A \subseteq Answer /\ AnswersOK(A, C)
  BY DEF TokensOK, TokenTypes
<1>2. a.dst \in Rank /\ a.src \in Rank
  BY <1>1 DEF Answer
<1>3. \A b \in A : b.src = a.src /\ b.dst = a.dst => b = a
  BY <1>1, OneAnswer
<1>4. \A p, t : Answered(B, p, t) <=> Answered(A, p, t) /\ ~(p = a.dst /\ t = a.src)
  BY <1>3 DEF Answered
<1>5. Answered(A, a.dst, a.src)
  BY DEF Answered
<1>6. TokenTypes(R, B, L, S, C) /\ AnswersOK(B, C)
  BY DEF TokensOK, TokenTypes, AnswersOK
<1>7. Apart(R, B, L, S)
  BY <1>4 DEF TokensOK, Apart
<1>8. Bare(R, B, L, S, a.dst, a.src)
  BY <1>2, <1>4, <1>5 DEF Bare, TokensOK, Apart
<1>10. ASSUME NEW p \in Rank, p # a.dst PROVE Open(R, B, S, p) = Open(R, A, S, p)
  BY <1>4, <1>10 DEF Open
<1> QED
  BY <1>2, <1>4, <1>6, <1>7, <1>8, <1>10

(* lock, unlock and flush take their answer and go on. *)
LEMMA AnswerTaken ==
    ASSUME NEW n, NEW R, NEW A, NEW L, NEW S, NEW C, TokensOK(n, R, A, L, S, C), NEW a \in A,
           C[a.dst].op # "flushAllWait", NEW c \in Call, c.op # "flushAllWait"
    PROVE  TokensOK(n, R, A \ {a}, L, S, [C EXCEPT ![a.dst] = c])
<1> PICK B : B = A \ {a}
  OBVIOUS
<1> PICK p : p = a.dst
  OBVIOUS
<1>1. /\ TokenTypes(R, B, L, S, C) /\ AnswersOK(B, C) /\ Apart(R, B, L, S)
      /\ p \in Rank /\ Bare(R, B, L, S, p, a.src)
      /\ \A q \in Rank : q # p => Open(R, B, S, q) = Open(R, A, S, q)
  BY AnswerRemoved, SMTT(30)
<1>2. Awaits(C[p], p, a.src, a.type)
  BY DEF TokensOK, AnswersOK
<1>3. \A t, x : Awaits(C[p], p, t, x) => t = a.src
  BY <1>2 DEF Awaits
<1>4. TokensOK(n, R, B, L, S, C)
  <2>1. FlushesOK(n, R, B, S, C)
    BY <1>1 DEF TokensOK, FlushesOK
  <2> QED
    BY <1>1, <2>1 DEF TokensOK
<1>5. ASSUME NEW t \in Rank, t # a.src PROVE Bare(R, B, L, S, p, t)
  <2>1. \A x : ~Awaits(C[p], p, t, x)
    BY <1>3, <1>5
  <2>2. ~Asked(R, p, t)
    BY <2>1 DEF Asked, TokensOK, RequestsOK
  <2>3. ~Within(L[t], p)
    BY <2>1 DEF Within, TokensOK, ListsOK
  <2>4. ~Within(S[t], p)
    BY <2>1 DEF Within, TokensOK, StacksOK
  <2>5. ~Answered(B, p, t)
    BY <1>4, <2>1 DEF Answered, TokensOK, AnswersOK
  <2> QED
    BY <2>2, <2>3, <2>4, <2>5 DEF Bare
<1>6. TokensOK(n, R, B, L, S, [C EXCEPT ![p] = c])
  <2>1. \A t \in Rank : Bare(R, B, L, S, p, t)
    BY <1>1, <1>5
  <2> QED
    BY <1>1, <1>4, <2>1, CallMoves
<1> QED
  BY <1>6

(* F are the requests of flush_all of p to the ranks it counts from d on. *)
FlushAllRequests(F, n, p, d) ==
    /\ F \subseteq Request
    /\ \A m \in F : m.type = "FLUSH" /\ m.src = p /\ m.dst # p
    /\ \A m, l \in F : m.dst = l.dst => m = l
    /\ \A t : (\E m \in F : m.dst = t) <=> t \in Due(n, p, d)

(* flush_all of p, which counts from d on, goes on with the call c. *)
OneCounted(n, p, d, c) ==
    \/ /\ c.op = "flushAllWait" /\ c.dest \in Due(n, p, c.dest)
       /\ Due(n, p, c.dest) = Due(n, p, d) \ {d}
    \/ c.op = "none" /\ Due(n, p, d) = {d}

(* flush_all sends one request to each of the others and waits for as many    *)
(* answers.                                                                   *)
LEMMA FlushAllStart ==
    ASSUME NEW n, NEW R, NEW A, NEW L, NEW S, NEW C, TokensOK(n, R, A, L, S, C),
           NEW p \in Rank, \A t \in Rank : Bare(R, A, L, S, p, t),
           NEW c \in Call, c.op = "flushAllWait", c.dest \in Due(n, p, c.dest),
           NEW F, FlushAllRequests(F, n, p, c.dest),
           NEW Q, Q = R \cup F, NEW D, D = [C EXCEPT ![p] = c]
    PROVE  TokensOK(n, Q, A, L, S, D)
<1>1. /\ C \in [Rank -> Call] /\ R \subseteq Request /\ A \subseteq Answer
      /\ L \in [Rank -> Seq(Request)] /\ S \in [Rank -> Seq(Request)]
  BY DEF TokensOK, TokenTypes
<1>2. D \in [Rank -> Call] /\ D[p] = c /\ \A q \in Rank : q # p => D[q] = C[q]
  BY <1>1
<1>3. TokenTypes(Q, A, L, S, D)
  BY <1>1, <1>2 DEF FlushAllRequests, TokenTypes
<1>4. \A m \in R : m.src # p /\ m.src \in Rank
  BY <1>1, RequestFields DEF Bare, Asked
<1>5. RequestsOK(Q, D)
  <2>1. ASSUME NEW m \in Q
        PROVE  Awaits(D[m.src], m.src, m.dst, m.type) /\ (m.type = "LOCK" => m.excl = D[m.src].excl)
    <3>1. CASE m \in R
      BY <1>2, <1>4, <3>1 DEF TokensOK, RequestsOK
    <3>2. CASE m \in F
      BY <1>2, <3>2 DEF Awaits, FlushAllRequests
    <3> QED
      BY <3>1, <3>2
  <2>2. ASSUME NEW m \in Q, NEW l \in Q, m.src = l.src, m.dst = l.dst PROVE m = l
    BY <1>4, <2>2 DEF TokensOK, RequestsOK, FlushAllRequests
  <2> QED
    BY <2>1, <2>2 DEF RequestsOK
<1>6. ListsOK(L, D)
  <2>1. ASSUME NEW t \in Rank, NEW i \in 1..Len(L[t])
        PROVE  L[t][i].src \in Rank /\ L[t][i].src # p
    <3>1. L[t] \in Seq(Request) /\ L[t][i] \in Request
      BY <1>1
    <3> QED
      BY <3>1, RequestFields DEF Bare, Within
  <2> QED
    BY <1>2, <2>1 DEF TokensOK, ListsOK
<1>7. StacksOK(S, D)
  <2>1. ASSUME NEW t \in Rank, NEW i \in 1..Len(S[t])
        PROVE  S[t][i].src \in Rank /\ S[t][i].src # p
    <3>1. S[t] \in Seq(Request) /\ S[t][i] \in Request
      BY <1>1
    <3> QED
      BY <3>1, RequestFields DEF Bare, Within
  <2> QED
    BY <1>2, <2>1 DEF TokensOK, StacksOK
<1>8. AnswersOK(A, D)
  <2>1. \A a \in A : a.dst \in Rank /\ a.src \in Rank
    BY <1>1 DEF Answer
  <2>2. \A a \in A : a.dst # p
    BY <2>1 DEF Bare, Answered
  <2> QED
    BY <1>2, <2>1, <2>2 DEF TokensOK, AnswersOK
<1>9. \A q, t : Asked(Q, q, t) <=> Asked(R, q, t) \/ (q = p /\ t \in Due(n, p, c.dest))
  BY <1>4 DEF Asked, FlushAllRequests
<1>10. Apart(Q, A, L, S)
  <2>1. Apart(R, A, L, S)
    BY DEF TokensOK
  <2> QED
    BY <1>9, <2>1 DEF Apart, Bare
<1>11. Due(n, p, c.dest) \subseteq Rank
  BY RequestFields DEF FlushAllRequests
<1>12. FlushesOK(n, Q, A, S, D)
  <2>1. Open(Q, A, S, p) = Due(n, p, c.dest)
    BY <1>9, <1>11 DEF Open, Bare
  <2>2. \A q \in Rank : q # p => Open(Q, A, S, q) = Open(R, A, S, q)
    BY <1>9 DEF Open
  <2> QED
    BY <1>2, <2>1, <2>2 DEF TokensOK, FlushesOK
<1> QED
  BY <1>3, <1>5, <1>6, <1>7, <1>8, <1>10, <1>12 DEF TokensOK

(* A finite set without one of its elements. *)
LEMMA OneLess ==
    ASSUME NEW T, IsFiniteSet(T), NEW x \in T, NEW U, U = T \ {x}
    PROVE  IsFiniteSet(U) /\ Cardinality(U) = Cardinality(T) - 1
BY FS_RemoveElement

(* flush_all takes an answer, whoever it comes from, and counts one rank less. *)
LEMMA FlushAllAnswer ==
    ASSUME NEW n \in Int, NEW R, NEW A, NEW L, NEW S, NEW C, TokensOK(n, R, A, L, S, C),
           NEW a \in A, NEW p, p = a.dst, C[p].op = "flushAllWait",
           NEW c \in Call, NEW d, d = C[p].dest,
           OneCounted(n, p, d, c),
           NEW B, B = A \ {a}, NEW D, D = [C EXCEPT ![p] = c]
    PROVE  TokensOK(n, R, B, L, S, D)
<1>0. /\ a.dst \in Rank /\ a.src \in Rank
      /\ Open(R, B, S, a.dst) = Open(R, A, S, a.dst) \ {a.src}
      /\ a.src \in Open(R, A, S, a.dst)
  <2>1. /\ \A q, t : Answered(B, q, t) <=> Answered(A, q, t) /\ ~(q = a.dst /\ t = a.src)
        /\ a.dst \in Rank /\ a.src \in Rank /\ Bare(R, B, L, S, a.dst, a.src)
    BY AnswerRemoved
  <2>2. Answered(A, a.dst, a.src)
    BY DEF Answered
  <2> QED
    BY <2>1, <2>2 DEF Open, Bare
<1>1. /\ TokenTypes(R, B, L, S, C) /\ AnswersOK(B, C) /\ Apart(R, B, L, S)
      /\ p \in Rank /\ a.src \in Rank /\ Bare(R, B, L, S, p, a.src)
      /\ \A q \in Rank : q # p => Open(R, B, S, q) = Open(R, A, S, q)
  BY AnswerRemoved
<1>2. C \in [Rank -> Call] /\ D \in [Rank -> Call] /\ D[p] = c
      /\ \A q \in Rank : q # p => D[q] = C[q]
  BY <1>1 DEF TokenTypes
<1>3. Cardinality(Open(R, A, S, p)) = Cardinality(Due(n, p, d)) /\ d \in Due(n, p, d)
  BY <1>1 DEF TokensOK, FlushesOK
<1>4. IsFiniteSet(Open(R, A, S, p)) /\ IsFiniteSet(Due(n, p, d))
      /\ Cardinality(Due(n, p, d)) \in Nat
  <2>1. Open(R, A, S, p) \in SUBSET Rank
    BY DEF Open
  <2>2. Due(n, p, d) \subseteq 0..(n - 1) /\ IsFiniteSet(0..(n - 1))
    BY FS_Interval DEF Due
  <2> QED
    BY <2>1, <2>2, RanksFinite, FS_Subset, FS_CardinalityType
<1>5. Cardinality(Open(R, B, S, p)) = Cardinality(Due(n, p, d)) - 1
      /\ IsFiniteSet(Open(R, B, S, p))
  <2>1. PICK T, U : T = Open(R, A, S, a.dst) /\ U = Open(R, B, S, a.dst)
    OBVIOUS
  <2>2. IsFiniteSet(T) /\ a.src \in T /\ U = T \ {a.src}
    BY <1>0, <1>4, <2>1
  <2>3. IsFiniteSet(U) /\ Cardinality(U) = Cardinality(T) - 1
    BY <2>2, OneLess
  <2> QED
    BY <1>3, <2>1, <2>3
<1>6. CASE c.op = "none" /\ Due(n, p, d) = {d}
  <2>1. Cardinality(Due(n, p, d)) = 1
    BY <1>6, FS_Singleton
  <2>2. Cardinality(Open(R, B, S, p)) = 0
    BY <1>5, <2>1
  <2>3. Open(R, B, S, p) = {}
    BY <1>5, <2>2, FS_EmptySet
  <2>4. ASSUME NEW t \in Rank PROVE Bare(R, B, L, S, p, t)
    <3>1. ~Asked(R, p, t) /\ ~Within(S[t], p) /\ ~Answered(B, p, t)
      BY <2>3 DEF Open
    <3>2. \A u : ~Awaits(C[p], p, u, "LOCK")
      BY DEF Awaits
    <3>3. ~Within(L[t], p)
      BY <3>2 DEF Within, TokensOK, ListsOK
    <3> QED
      BY <3>1, <3>3 DEF Bare
  <2>5. RequestsOK(R, D)
    <3>1. \A m \in R : m.src # p /\ m.src \in Rank
      <4>1. \A m \in R : m.src \in Rank /\ m.dst \in Rank
        BY <1>1, RequestFields DEF TokenTypes
      <4> QED
        BY <2>4, <4>1 DEF Bare, Asked
    <3> QED
      BY <1>2, <3>1 DEF TokensOK, RequestsOK
  <2>6. ListsOK(L, D)
    <3>1. ASSUME NEW t \in Rank, NEW i \in 1..Len(L[t])
          PROVE  L[t][i].src \in Rank /\ L[t][i].src # p
      <4>1. L[t] \in Seq(Request) /\ L[t][i] \in Request
        BY <1>1 DEF TokenTypes
      <4> QED
        BY <2>4, <4>1, RequestFields DEF Bare, Within
    <3> QED
      BY <1>2, <3>1, SMTT(30) DEF TokensOK, ListsOK
  <2>7. StacksOK(S, D)
    <3>1. ASSUME NEW t \in Rank, NEW i \in 1..Len(S[t])
          PROVE  S[t][i].src \in Rank /\ S[t][i].src # p
      <4>1. S[t] \in Seq(Request) /\ S[t][i] \in Request
        BY <1>1 DEF TokenTypes
      <4> QED
        BY <2>4, <4>1, RequestFields DEF Bare, Within
    <3> QED
      BY <1>2, <3>1 DEF TokensOK, StacksOK
  <2>8. AnswersOK(B, D)
    <3>1. \A b \in B : b.dst \in Rank /\ b.src \in Rank
      BY <1>1 DEF TokenTypes, Answer
    <3>2. \A b \in B : b.dst # p
      BY <2>4, <3>1 DEF Bare, Answered
    <3> QED
      BY <1>1, <1>2, <3>1, <3>2 DEF AnswersOK
  <2>9. FlushesOK(n, R, B, S, D)
    BY <1>1, <1>2, <1>6 DEF TokensOK, FlushesOK
  <2> QED
    BY <1>1, <1>2, <2>5, <2>6, <2>7, <2>8, <2>9 DEF TokensOK, TokenTypes
<1>7. CASE /\ c.op = "flushAllWait" /\ c.dest \in Due(n, p, c.dest)
           /\ Due(n, p, c.dest) = Due(n, p, d) \ {d}
  <2>1. Cardinality(Due(n, p, c.dest)) = Cardinality(Due(n, p, d)) - 1
    BY <1>3, <1>4, <1>7, OneLess
  <2>2. FlushesOK(n, R, B, S, D)
    BY <1>1, <1>2, <1>5, <1>7, <2>1 DEF TokensOK, FlushesOK
  <2>3. \A t, x : Awaits(C[p], p, t, x) => Awaits(D[p], p, t, x) /\ x # "LOCK"
    BY <1>2, <1>7 DEF Awaits
  <2>4. \A q \in Rank : \A t, x : Awaits(C[q], q, t, x) =>
           Awaits(D[q], q, t, x) /\ (x = "LOCK" => C[q] = D[q])
    BY <1>2, <2>3
  <2>5. RequestsOK(R, D)
    <3>1. \A m \in R : m.src \in Rank
      BY <1>1, RequestFields DEF TokenTypes
    <3> QED
      BY <2>4, <3>1 DEF TokensOK, RequestsOK
  <2>6. ListsOK(L, D)
    <3>1. ASSUME NEW t \in Rank, NEW i \in 1..Len(L[t])
          PROVE  /\ Awaits(D[L[t][i].src], L[t][i].src, t, "LOCK")
                 /\ L[t][i].excl = D[L[t][i].src].excl
      <4>1. L[t] \in Seq(Request) /\ L[t][i] \in Request /\ L[t][i].src \in Rank
        BY <1>1, RequestFields DEF TokenTypes
      <4>2. /\ Awaits(C[L[t][i].src], L[t][i].src, t, "LOCK")
            /\ L[t][i].excl = C[L[t][i].src].excl
        BY DEF TokensOK, ListsOK
      <4> QED
        BY <2>4, <4>1, <4>2
    <3> QED
      BY <3>1 DEF TokensOK, ListsOK
  <2>7. StacksOK(S, D)
    <3>1. ASSUME NEW t \in Rank, NEW i \in 1..Len(S[t])
          PROVE  Awaits(D[S[t][i].src], S[t][i].src, t, S[t][i].type)
      <4>1. S[t] \in Seq(Request) /\ S[t][i] \in Request /\ S[t][i].src \in Rank
        BY <1>1, RequestFields DEF TokenTypes
      <4>2. Awaits(C[S[t][i].src], S[t][i].src, t, S[t][i].type)
        BY DEF TokensOK, StacksOK
      <4> QED
        BY <2>4, <4>1, <4>2
    <3> QED
      BY <3>1 DEF TokensOK, StacksOK
  <2>8. AnswersOK(B, D)
    <3>1. \A b \in B : b.dst \in Rank
      BY <1>1 DEF TokenTypes, Answer
    <3> QED
      BY <1>1, <2>4, <3>1 DEF AnswersOK
  <2> QED
    BY <1>1, <1>2, <2>2, <2>5, <2>6, <2>7, <2>8 DEF TokensOK, TokenTypes
<1> QED
  BY <1>6, <1>7 DEF OneCounted

-----------------------------------------------------------------------------
(* The effects of the steps on the components of the state *)

ListOf == [t \in Rank |-> tgt[t].list]
StackOf == [t \in Rank |-> tgt[t].stack]
CallOf == [p \in Rank |-> org[p].call]

(* A step that changes one origin. *)
LEMMA OriginEffect ==
    ASSUME TypeOK, NEW p \in Rank, NEW o \in Origin, org' = [org EXCEPT ![p] = o]
    PROVE  /\ CallOf' = [CallOf EXCEPT ![p] = o.call]
           /\ org'[p] = o /\ \A q \in Rank : q # p => org'[q] = org[q]
BY DEF TypeOK, CallOf

(* A step that changes no origin. *)
LEMMA NoOriginEffect ==
    ASSUME org' = org
    PROVE  CallOf' = CallOf
BY DEF CallOf

(* The state of the origins but for the call. *)
LEMMA CallEffect ==
    ASSUME TypeOK, NEW p \in Rank, NEW c \in Call, org' = [org EXCEPT ![p].call = c]
    PROVE  /\ CallOf' = [CallOf EXCEPT ![p] = c]
           /\ \A q \in Rank : /\ org'[q].remote = org[q].remote /\ org'[q].mode = org[q].mode
                              /\ org'[q].puts = org[q].puts /\ org'[q].pend = org[q].pend
                              /\ org'[q].accs = org[q].accs /\ org'[q].accFlag = org[q].accFlag
           /\ org'[p].call = c /\ \A q \in Rank : q # p => org'[q] = org[q]
<1> PICK o : o = [org[p] EXCEPT !.call = c]
  OBVIOUS
<1>1. org[p] \in Origin
  BY DEF TypeOK
<1>2. o \in Origin /\ org' = [org EXCEPT ![p] = o]
  BY <1>1, OriginTypes
<1>3. /\ o.call = c /\ o.remote = org[p].remote /\ o.mode = org[p].mode /\ o.puts = org[p].puts
      /\ o.pend = org[p].pend /\ o.accs = org[p].accs /\ o.accFlag = org[p].accFlag
  BY <1>1 DEF Origin
<1>4. /\ CallOf' = [CallOf EXCEPT ![p] = o.call]
      /\ org'[p] = o /\ \A q \in Rank : q # p => org'[q] = org[q]
  BY <1>2, OriginEffect
<1> QED
  BY <1>3, <1>4

(* The state of the origins when one has got a lock. *)
LEMMA LockEffect ==
    ASSUME TypeOK, NEW p \in Rank, NEW d \in Rank, NEW x \in BOOLEAN, NEW all \in BOOLEAN,
           org' = [org EXCEPT ![p] = HasLock(@, d, x, all)]
    PROVE  \E c \in Call :
           /\ CallOf' = [CallOf EXCEPT ![p] = c] /\ c.op \in {"lock", "none"} /\ org'[p].call = c
           /\ org'[p].remote[d] # "UNLOCKED" /\ org'[p].mode[d] = x
           /\ \A t \in Rank : t # d => /\ org'[p].remote[t] = org[p].remote[t]
                                       /\ org'[p].mode[t] = org[p].mode[t]
           /\ \A q \in Rank : /\ org'[q].puts = org[q].puts /\ org'[q].pend = org[q].pend
                              /\ org'[q].accs = org[q].accs /\ org'[q].accFlag = org[q].accFlag
           /\ \A q \in Rank : q # p => org'[q] = org[q]
<1> PICK o : o = HasLock(org[p], d, x, all)
  OBVIOUS
<1>1. org[p] \in Origin /\ org[p].remote \in [Rank -> LockStates]
  BY OriginFields DEF TypeOK
<1>2. /\ o \in Origin
      /\ \E r \in {"LOCKED", "LOCKED_ALL"} : o.remote = [org[p].remote EXCEPT ![d] = r]
      /\ o.mode[d] = x /\ \A t \in Rank \ {d} : o.mode[t] = org[p].mode[t]
      /\ o.call \in Call /\ o.call.op \in {"lock", "none"}
      /\ o.puts = org[p].puts /\ o.pend = org[p].pend
      /\ o.accs = org[p].accs /\ o.accFlag = org[p].accFlag
  BY <1>1, HasLockFacts
<1>3. org' = [org EXCEPT ![p] = o]
  OBVIOUS
<1>4. /\ CallOf' = [CallOf EXCEPT ![p] = o.call]
      /\ org'[p] = o /\ \A q \in Rank : q # p => org'[q] = org[q]
  BY <1>2, <1>3, OriginEffect, ZenonT(60)
<1>5. o.remote[d] # "UNLOCKED" /\ \A t \in Rank : t # d => o.remote[t] = org[p].remote[t]
  BY <1>1, <1>2
<1> QED
  BY <1>2, <1>4, <1>5, ZenonT(60)

(* The record of an origin that has given up a lock. *)
LEMMA UnlockRecord ==
    ASSUME TypeOK, NEW d \in Rank, NEW all \in BOOLEAN, NEW h \in Origin,
           h.locks \in Nat \ {0}, NEW o, o = HasUnlocked(h, d, all)
    PROVE  /\ o \in Origin /\ o.call \in Call /\ o.call.op \in {"unlock", "none"}
           /\ o.remote[d] = "UNLOCKED" /\ o.mode = h.mode
           /\ \A t \in Rank : t # d => o.remote[t] = h.remote[t]
           /\ o.puts = h.puts /\ o.pend = h.pend /\ o.accs = h.accs /\ o.accFlag = h.accFlag
<1>1. h.remote \in [Rank -> LockStates] /\ h.locks > 0
  BY OriginFields
<1>2. /\ o \in Origin /\ o.remote = [h.remote EXCEPT ![d] = "UNLOCKED"]
      /\ o.call \in Call /\ o.call.op \in {"unlock", "none"}
      /\ o.mode = h.mode /\ o.puts = h.puts /\ o.pend = h.pend
      /\ o.accs = h.accs /\ o.accFlag = h.accFlag
  BY <1>1, HasUnlockedFacts
<1>3. o.remote[d] = "UNLOCKED" /\ \A t \in Rank : t # d => o.remote[t] = h.remote[t]
  BY <1>1, <1>2
<1> QED
  BY <1>2, <1>3

(* The record of an origin whose flush has been answered. *)
HasFlushed(o, d, c) == [o EXCEPT !.puts[d] = 0, !.call = c]

(* The origin record after a flush of d. *)
LEMMA FlushRecord ==
    ASSUME NEW h \in Origin, NEW d \in Rank, NEW c \in Call,
           NEW o, o = HasFlushed(h, d, c)
    PROVE  /\ o \in Origin /\ o.call = c /\ o.remote = h.remote /\ o.mode = h.mode
           /\ o.puts[d] = 0 /\ \A t \in Rank : t # d => o.puts[t] = h.puts[t]
           /\ o.pend = h.pend /\ o.accs = h.accs /\ o.accFlag = h.accFlag
<1>1. h.puts \in [Rank -> Nat]
  BY OriginFields
<1>2. o \in Origin
  BY OriginTypes DEF HasFlushed
<1>3. /\ o.call = c /\ o.remote = h.remote /\ o.mode = h.mode
      /\ o.puts = [h.puts EXCEPT ![d] = 0]
      /\ o.pend = h.pend /\ o.accs = h.accs /\ o.accFlag = h.accFlag
  BY DEF Origin, HasFlushed
<1> QED
  BY <1>1, <1>2, <1>3

(* The state of the origins when one counts operations. *)
LEMMA CountEffect ==
    ASSUME TypeOK, NEW p \in Rank, NEW o \in Origin,
           org' = [org EXCEPT ![p] = o],
           o.call = org[p].call, o.remote = org[p].remote, o.mode = org[p].mode
    PROVE  /\ CallOf' = CallOf /\ org'[p] = o
           /\ \A q \in Rank : /\ org'[q].remote = org[q].remote /\ org'[q].mode = org[q].mode
                              /\ org'[q].call = org[q].call
           /\ \A q \in Rank : q # p => org'[q] = org[q]
<1>1. /\ CallOf' = [CallOf EXCEPT ![p] = o.call]
      /\ org'[p] = o /\ \A q \in Rank : q # p => org'[q] = org[q]
  BY OriginEffect
<1>2. CallOf' = CallOf
  BY <1>1 DEF CallOf
<1> QED
  BY <1>1, <1>2

(* The operations and their completion at the origin. *)
LEMMA OperationEffect ==
    ASSUME OriginInv, NEW p \in Rank, NEW t \in Rank,
           Put(p, t) \/ Get(p, t) \/ Accumulate(p, t) \/ OpDone(p, t) \/ AccumulateDone(p, t)
    PROVE  /\ CallOf' = CallOf
           /\ \A u \in Rank : u # t => /\ org'[p].pend[u] = org[p].pend[u]
                                       /\ org'[p].puts[u] = org[p].puts[u]
           /\ \A q \in Rank : /\ org'[q].remote = org[q].remote /\ org'[q].mode = org[q].mode
                              /\ org'[q].call = org[q].call
           /\ \A q \in Rank : q # p => org'[q] = org[q]
           /\ \/ /\ p # t /\ org[p].remote[t] # "UNLOCKED" /\ org[p].call.op = "none"
                 /\ \/ /\ org'[p].puts[t] = org[p].puts[t] + 1
                       /\ flight' = [flight EXCEPT ![p][t] = @ + 1]
                    \/ org'[p].puts[t] = org[p].puts[t] /\ flight' = flight
              \/ /\ org[p].pend[t] > 0 /\ org'[p].pend[t] = org[p].pend[t] - 1
                 /\ org'[p].puts[t] = org[p].puts[t] /\ flight' = flight
<1> DEFINE o == org[p]
<1>1. /\ o \in Origin /\ o.pend \in [Rank -> Nat] /\ o.puts \in [Rank -> Nat]
      /\ o.accs \in [Rank -> Nat]
  BY OriginFields DEF TypeOK, OriginInv
<1>0. TypeOK
  BY DEF OriginInv
<1>2. /\ o.pend[t] \in Nat /\ o.puts[t] \in Nat /\ o.accs[t] \in Nat
      /\ o.pend[t] + 1 \in Nat /\ o.puts[t] + 1 \in Nat /\ o.accs[t] + 1 \in Nat
      /\ o.puts = [o.puts EXCEPT ![t] = o.puts[t]]
  BY <1>1
<1>3. CASE Put(p, t)
  <2> DEFINE h == [o EXCEPT !.pend[t] = @ + 1, !.puts[t] = @ + 1]
  <2>1. h \in Origin
    BY <1>1, <1>2, OriginTypes
  <2>2. /\ h.call = o.call /\ h.remote = o.remote /\ h.mode = o.mode
        /\ h.pend = [o.pend EXCEPT ![t] = o.pend[t] + 1]
        /\ h.puts = [o.puts EXCEPT ![t] = o.puts[t] + 1]
    BY <1>1 DEF Origin
  <2>3. org' = [org EXCEPT ![p] = h]
    BY <1>3 DEF Put
  <2> HIDE DEF h
  <2>9. /\ h.pend[t] = o.pend[t] + 1 /\ h.puts[t] = o.puts[t] + 1
        /\ \A u \in Rank : u # t => h.pend[u] = o.pend[u] /\ h.puts[u] = o.puts[u]
    BY <1>1, <2>2
  <2>4. /\ CallOf' = CallOf /\ org'[p] = h
        /\ \A q \in Rank : /\ org'[q].remote = org[q].remote /\ org'[q].mode = org[q].mode
                           /\ org'[q].call = org[q].call
        /\ \A q \in Rank : q # p => org'[q] = org[q]
    <3>1. h.call = org[p].call /\ h.remote = org[p].remote /\ h.mode = org[p].mode
      BY <2>2
    <3> HIDE DEF o
    <3> QED
      BY <1>0, <2>1, <2>3, <3>1, CountEffect
  <2>5. /\ p # t /\ org[p].remote[t] # "UNLOCKED" /\ org[p].call.op = "none"
        /\ flight' = [flight EXCEPT ![p][t] = @ + 1]
    BY <1>3 DEF Put, Program, InCall
  <2> QED
    BY <2>9, <2>4, <2>5
<1>4. CASE Get(p, t)
  <2> DEFINE h == [o EXCEPT !.pend[t] = @ + 1]
  <2>1. h \in Origin
    BY <1>1, <1>2, OriginTypes
  <2>2. /\ h.call = o.call /\ h.remote = o.remote /\ h.mode = o.mode
        /\ h.pend = [o.pend EXCEPT ![t] = o.pend[t] + 1]
        /\ h.puts = [o.puts EXCEPT ![t] = o.puts[t]]
    BY <1>1, <1>2 DEF Origin
  <2>3. org' = [org EXCEPT ![p] = h]
    BY <1>4 DEF Get
  <2> HIDE DEF h
  <2>9. /\ h.pend[t] = o.pend[t] + 1 /\ h.puts[t] = o.puts[t]
        /\ \A u \in Rank : u # t => h.pend[u] = o.pend[u] /\ h.puts[u] = o.puts[u]
    BY <1>1, <2>2
  <2>4. /\ CallOf' = CallOf /\ org'[p] = h
        /\ \A q \in Rank : /\ org'[q].remote = org[q].remote /\ org'[q].mode = org[q].mode
                           /\ org'[q].call = org[q].call
        /\ \A q \in Rank : q # p => org'[q] = org[q]
    <3>1. h.call = org[p].call /\ h.remote = org[p].remote /\ h.mode = org[p].mode
      BY <2>2
    <3> HIDE DEF o
    <3> QED
      BY <1>0, <2>1, <2>3, <3>1, CountEffect
  <2>5. /\ p # t /\ org[p].remote[t] # "UNLOCKED" /\ org[p].call.op = "none"
        /\ flight' = flight
    BY <1>4 DEF Get, Program, InCall
  <2> QED
    BY <2>9, <2>4, <2>5
<1>5. CASE Accumulate(p, t)
  <2> DEFINE h == [o EXCEPT !.pend[t] = @ + 1, !.puts[t] = @ + 1, !.accs[t] = @ + 1,
                            !.accFlag[t] = TRUE]
  <2>1. h \in Origin
    BY <1>1, <1>2, OriginTypes
  <2>2. /\ h.call = o.call /\ h.remote = o.remote /\ h.mode = o.mode
        /\ h.pend = [o.pend EXCEPT ![t] = o.pend[t] + 1]
        /\ h.puts = [o.puts EXCEPT ![t] = o.puts[t] + 1]
    BY <1>1 DEF Origin
  <2>3. org' = [org EXCEPT ![p] = h]
    BY <1>5, ZenonT(60) DEF Accumulate
  <2> HIDE DEF h
  <2>9. /\ h.pend[t] = o.pend[t] + 1 /\ h.puts[t] = o.puts[t] + 1
        /\ \A u \in Rank : u # t => h.pend[u] = o.pend[u] /\ h.puts[u] = o.puts[u]
    BY <1>1, <2>2
  <2>4. /\ CallOf' = CallOf /\ org'[p] = h
        /\ \A q \in Rank : /\ org'[q].remote = org[q].remote /\ org'[q].mode = org[q].mode
                           /\ org'[q].call = org[q].call
        /\ \A q \in Rank : q # p => org'[q] = org[q]
    <3>1. h.call = org[p].call /\ h.remote = org[p].remote /\ h.mode = org[p].mode
      BY <2>2
    <3> HIDE DEF o
    <3> QED
      BY <1>0, <2>1, <2>3, <3>1, CountEffect
  <2>5. /\ p # t /\ org[p].remote[t] # "UNLOCKED" /\ org[p].call.op = "none"
        /\ flight' = [flight EXCEPT ![p][t] = @ + 1]
    BY <1>5 DEF Accumulate, Program, InCall
  <2> QED
    BY <2>9, <2>4, <2>5
<1>6. CASE OpDone(p, t)
  <2> DEFINE h == [o EXCEPT !.pend[t] = @ - 1]
  <2>1. o.pend[t] > 0 /\ o.pend[t] - 1 \in Nat
    BY <1>2, <1>6 DEF OpDone
  <2>2. h \in Origin
    BY <1>1, <2>1, OriginTypes
  <2>3. /\ h.call = o.call /\ h.remote = o.remote /\ h.mode = o.mode
        /\ h.pend = [o.pend EXCEPT ![t] = o.pend[t] - 1]
        /\ h.puts = [o.puts EXCEPT ![t] = o.puts[t]]
    BY <1>1, <1>2 DEF Origin
  <2>4. org' = [org EXCEPT ![p] = h]
    BY <1>6 DEF OpDone
  <2> HIDE DEF h
  <2>9. /\ h.pend[t] = o.pend[t] - 1 /\ h.puts[t] = o.puts[t]
        /\ \A u \in Rank : u # t => h.pend[u] = o.pend[u] /\ h.puts[u] = o.puts[u]
    BY <1>1, <2>3
  <2>5. /\ CallOf' = CallOf /\ org'[p] = h
        /\ \A q \in Rank : /\ org'[q].remote = org[q].remote /\ org'[q].mode = org[q].mode
                           /\ org'[q].call = org[q].call
        /\ \A q \in Rank : q # p => org'[q] = org[q]
    <3>1. h.call = org[p].call /\ h.remote = org[p].remote /\ h.mode = org[p].mode
      BY <2>3
    <3> HIDE DEF o
    <3> QED
      BY <1>0, <2>2, <2>4, <3>1, CountEffect
  <2>6. flight' = flight
    BY <1>6 DEF OpDone
  <2> QED
    BY <2>9, <2>1, <2>5, <2>6
<1>7. CASE AccumulateDone(p, t) /\ o.pend[t] > 0
  <2> DEFINE h == [o EXCEPT !.pend[t] = @ - 1, !.accs[t] = @ - 1, !.accFlag[t] = FALSE]
  <2>1. o.pend[t] - 1 \in Nat /\ o.accs[t] - 1 \in Nat
    BY <1>2, <1>7 DEF AccumulateDone
  <2>2. h \in Origin
    BY <1>1, <2>1, OriginTypes
  <2>3. /\ h.call = o.call /\ h.remote = o.remote /\ h.mode = o.mode
        /\ h.pend = [o.pend EXCEPT ![t] = o.pend[t] - 1]
        /\ h.puts = [o.puts EXCEPT ![t] = o.puts[t]]
    BY <1>1, <1>2 DEF Origin
  <2>4. org' = [org EXCEPT ![p] = h]
    BY <1>7 DEF AccumulateDone
  <2> HIDE DEF h
  <2>9. /\ h.pend[t] = o.pend[t] - 1 /\ h.puts[t] = o.puts[t]
        /\ \A u \in Rank : u # t => h.pend[u] = o.pend[u] /\ h.puts[u] = o.puts[u]
    BY <1>1, <2>3
  <2>5. /\ CallOf' = CallOf /\ org'[p] = h
        /\ \A q \in Rank : /\ org'[q].remote = org[q].remote /\ org'[q].mode = org[q].mode
                           /\ org'[q].call = org[q].call
        /\ \A q \in Rank : q # p => org'[q] = org[q]
    <3>1. h.call = org[p].call /\ h.remote = org[p].remote /\ h.mode = org[p].mode
      BY <2>3
    <3> HIDE DEF o
    <3> QED
      BY <1>0, <2>2, <2>4, <3>1, CountEffect
  <2>6. flight' = flight
    BY <1>7 DEF AccumulateDone
  <2> QED
    BY <2>9, <1>7, <2>5, <2>6
<1>8. AccumulateDone(p, t) => o.pend[t] > 0
  BY <1>2 DEF AccumulateDone, OriginOK, OriginsOK, OriginInv
<1> QED
  BY <1>3, <1>4, <1>5, <1>6, <1>7, <1>8

(* A step that changes one target, or none. *)
LEMMA TargetEffect ==
    ASSUME TypeOK, NEW t \in Rank, NEW w \in Target, tgt' = [tgt EXCEPT ![t] = w]
    PROVE  /\ ListOf' = [ListOf EXCEPT ![t] = w.list]
           /\ StackOf' = [StackOf EXCEPT ![t] = w.stack]
           /\ tgt'[t] = w /\ \A u \in Rank : u # t => tgt'[u] = tgt[u]
BY DEF TypeOK, ListOf, StackOf

(* Without a change of the targets, lists and stacks are the same. *)
LEMMA NoTargetEffect ==
    ASSUME tgt' = tgt
    PROVE  ListOf' = ListOf /\ StackOf' = StackOf
BY DEF ListOf, StackOf

(* The window after do_trylock has succeeded. *)
LEMMA LockFacts ==
    ASSUME NEW w \in Target, NEW x \in BOOLEAN, NEW z, z = Lock(w, x)
    PROVE  /\ z \in Target /\ z.cnt = w.cnt + 1 /\ z.excl = x /\ z.list = w.list
           /\ z.src = w.src /\ z.recvd = w.recvd /\ z.stack = w.stack
<1>1. z \in Target
  BY TargetTypes
<1> QED
  BY <1>1 DEF Lock, Target

(* What do_unlock does to the window w: the lock is given up, or handed to the  *)
(* head of lock_list.                                                            *)
GivenUp(w, z) ==
    /\ w.list # <<>> => ~(w.cnt - 1 = 0 \/ (~w.excl /\ ~Head(w.list).excl))
    /\ z.cnt = w.cnt - 1 /\ z.excl = w.excl /\ z.list = w.list
HandedOn(w, z) ==
    /\ w.list # <<>> /\ (w.cnt - 1 = 0 \/ (~w.excl /\ ~Head(w.list).excl))
    /\ z.cnt = w.cnt /\ z.excl = Head(w.list).excl /\ z.list = Tail(w.list)

(* The window after do_unlock, and whom it wakes. *)
LEMMA DoUnlockFacts ==
    ASSUME NEW w \in Target, NEW t \in Rank, NEW z, z = DoUnlock(w)
    PROVE  /\ z \in Target /\ z.src = w.src /\ z.recvd = w.recvd /\ z.stack = w.stack
           /\ \/ GivenUp(w, z) /\ Woken(t, w) = {}
              \/ HandedOn(w, z) /\ Woken(t, w) = {LockAnswer(t, Head(w.list).src)}
<1>0. PICK u : u = [w EXCEPT !.cnt = @ - 1]
  OBVIOUS
<1>1. z \in Target
  BY TargetTypes
<1>2. w.cnt \in Int /\ w.list \in Seq(Request)
  BY TargetFields
<1>3. /\ u.cnt = w.cnt - 1 /\ u.excl = w.excl /\ u.list = w.list
      /\ u.src = w.src /\ u.recvd = w.recvd /\ u.stack = w.stack
  BY <1>0 DEF Target
<1>4. u \in Target
  <2>1. \A k \in Int : [w EXCEPT !.cnt = k] \in Target
    BY DEF Target
  <2> QED
    BY <1>0, <1>2, <2>1
<1>5. HeadMayLock(w) <=> w.list # <<>> /\ (w.cnt - 1 = 0 \/ (~w.excl /\ ~Head(w.list).excl))
  BY <1>0, <1>3 DEF HeadMayLock, MayLock
<1>6. CASE HeadMayLock(w)
  <2>1. w.list # <<>> /\ Head(w.list) \in Request
    BY <1>2, <1>5, <1>6
  <2>2. PICK x : x = Head(w.list).excl
    OBVIOUS
  <2>3. x \in BOOLEAN
    BY <2>1, <2>2, RequestFields
  <2>4. PICK v : v = Lock(u, x)
    OBVIOUS
  <2>5. /\ v \in Target /\ v.cnt = u.cnt + 1 /\ v.excl = x
        /\ v.src = u.src /\ v.recvd = u.recvd /\ v.stack = u.stack /\ v.list = u.list
    BY <1>4, <2>3, <2>4, LockFacts
  <2>6. z = [v EXCEPT !.list = Tail(@)]
    BY <1>0, <1>3, <1>6, <2>2, <2>4 DEF DoUnlock
  <2>7. /\ z.cnt = v.cnt /\ z.excl = v.excl /\ z.src = v.src /\ z.recvd = v.recvd
        /\ z.stack = v.stack /\ z.list = Tail(v.list)
    BY <2>5, <2>6 DEF Target
  <2>8. HandedOn(w, z)
    BY <1>2, <1>3, <1>5, <1>6, <2>2, <2>5, <2>7 DEF HandedOn
  <2> QED
    BY <1>1, <1>3, <1>6, <2>5, <2>7, <2>8 DEF Woken
<1>7. CASE ~HeadMayLock(w)
  <2>1. z = u
    BY <1>0, <1>7 DEF DoUnlock
  <2>2. GivenUp(w, z)
    BY <1>3, <1>5, <1>7, <2>1 DEF GivenUp
  <2> QED
    BY <1>1, <1>3, <1>7, <2>1, <2>2 DEF Woken
<1> QED
  BY <1>6, <1>7

(* The end of a callback: the answer is sent, a lock given up or handed on. *)
LEMMA EndEffect ==
    ASSUME NEW t \in Rank, NEW w \in Target, NEW h \in Request, EndCallback(t, w, h),
           NEW a, a = [type |-> h.type, src |-> t, dst |-> h.src]
    PROVE  \E z \in Target :
           /\ tgt' = [tgt EXCEPT ![t] = z]
           /\ z.src = w.src /\ z.recvd = w.recvd - h.n /\ z.stack = w.stack
           /\ \/ /\ h.type # "UNLOCK" /\ ans' = ans \cup {a}
                 /\ z.cnt = w.cnt /\ z.excl = w.excl /\ z.list = w.list
              \/ h.type = "UNLOCK" /\ GivenUp(w, z) /\ ans' = ans \cup {a}
              \/ /\ h.type = "UNLOCK" /\ HandedOn(w, z)
                 /\ ans' = (ans \cup {a}) \cup {LockAnswer(t, Head(w.list).src)}
<1> DEFINE v == [w EXCEPT !.recvd = @ - h.n]
<1>1. h.n \in Nat /\ w.recvd \in Int /\ w.recvd - h.n \in Int
  BY RequestFields, TargetFields
<1>2. v \in Target
  BY <1>1, TargetTypes
<1>3. /\ v.cnt = w.cnt /\ v.excl = w.excl /\ v.list = w.list /\ v.src = w.src
      /\ v.stack = w.stack /\ v.recvd = w.recvd - h.n
  BY DEF Target
<1> HIDE DEF v
<1>4. /\ tgt' = [tgt EXCEPT ![t] = IF h.type = "UNLOCK" THEN DoUnlock(v) ELSE v]
      /\ ans' = ans \cup {a} \cup (IF h.type = "UNLOCK" THEN Woken(t, v) ELSE {})
  BY DEF EndCallback, v
<1>5. CASE h.type = "UNLOCK"
  <2>1. PICK z : z = DoUnlock(v)
    OBVIOUS
  <2>2. tgt' = [tgt EXCEPT ![t] = z] /\ ans' = (ans \cup {a}) \cup Woken(t, v)
    BY <1>4, <1>5, <2>1
  <2>3. /\ z \in Target /\ z.src = v.src /\ z.recvd = v.recvd /\ z.stack = v.stack
        /\ \/ GivenUp(v, z) /\ Woken(t, v) = {}
           \/ HandedOn(v, z) /\ Woken(t, v) = {LockAnswer(t, Head(v.list).src)}
    BY <1>2, <2>1, DoUnlockFacts
  <2>4. (GivenUp(v, z) => GivenUp(w, z)) /\ (HandedOn(v, z) => HandedOn(w, z))
    BY <1>3 DEF GivenUp, HandedOn
  <2>5. CASE GivenUp(v, z) /\ Woken(t, v) = {}
    <3>1. ans' = ans \cup {a}
      BY <2>2, <2>5
    <3> QED
      BY <1>3, <1>5, <2>2, <2>3, <2>4, <2>5, <3>1
  <2>6. CASE HandedOn(v, z) /\ Woken(t, v) = {LockAnswer(t, Head(v.list).src)}
    <3>1. ans' = (ans \cup {a}) \cup {LockAnswer(t, Head(w.list).src)}
      BY <1>3, <2>2, <2>6
    <3> QED
      BY <1>3, <1>5, <2>2, <2>3, <2>4, <2>6, <3>1
  <2> QED
    BY <2>3, <2>5, <2>6
<1>6. CASE h.type # "UNLOCK"
  <2>1. tgt' = [tgt EXCEPT ![t] = v] /\ ans' = ans \cup {a}
    BY <1>4, <1>6
  <2> QED
    BY <1>2, <1>3, <1>6, <2>1
<1> QED
  BY <1>5, <1>6

-----------------------------------------------------------------------------
(* The tokens along the steps *)

TokenInv == TokensOK(scn.n, req, ans, ListOf, StackOf, CallOf)

(* The operations a process waits in for an answer. *)
Waiting == {"lockWait", "unlockWait", "flushWait", "flushAllWait"}

(* The invariant after a step, in terms of what the step makes of the state. *)
LEMMA TokensAfter ==
    ASSUME NEW R, NEW A, NEW L, NEW S, NEW C, TokensOK(scn.n, R, A, L, S, C), scn' = scn,
           req' = R, ans' = A, ListOf' = L, StackOf' = S, CallOf' = C
    PROVE  TokenInv'
BY DEF TokenInv

(* A call that starts or ends without waiting moves no token. *)
LEMMA QuietTokens ==
    ASSUME TypeOK, TokenInv, NEW p \in Rank, NEW c \in Call,
           org' = [org EXCEPT ![p].call = c], org[p].call.op \notin Waiting, c.op \notin Waiting,
           UNCHANGED <<scn, tgt, req, ans>>
    PROVE  TokenInv'
<1>1. CallOf' = [CallOf EXCEPT ![p] = c] /\ CallOf[p].op \notin Waiting
  BY CallEffect DEF CallOf
<1>2. ListOf' = ListOf /\ StackOf' = StackOf
  BY NoTargetEffect
<1>3. \A t \in Rank : Bare(req, ans, ListOf, StackOf, p, t)
  BY <1>1, NoTokens DEF TokenInv, Bare, Waiting
<1>4. TokensOK(scn.n, req, ans, ListOf, StackOf, [CallOf EXCEPT ![p] = c])
  BY <1>3, CallMoves DEF TokenInv, Waiting
<1> QED
  BY <1>1, <1>2, <1>4, TokensAfter

(* A call that sends its request and waits. *)
LEMMA SendTokens ==
    ASSUME TypeOK, TokenInv, NEW p \in Rank, NEW c \in Call,
           org' = [org EXCEPT ![p].call = c], org[p].call.op \notin Waiting,
           c.op # "flushAllWait", NEW m \in Request, m.src = p,
           Awaits(c, p, m.dst, m.type), m.type = "LOCK" => m.excl = c.excl,
           req' = req \cup {m}, UNCHANGED <<scn, tgt, ans>>
    PROVE  TokenInv'
<1>1. CallOf' = [CallOf EXCEPT ![p] = c] /\ CallOf[p].op \notin Waiting
  BY CallEffect DEF CallOf
<1>2. ListOf' = ListOf /\ StackOf' = StackOf
  BY NoTargetEffect
<1>3. \A t \in Rank : Bare(req, ans, ListOf, StackOf, p, t)
  BY <1>1, NoTokens DEF TokenInv, Bare, Waiting
<1>4. PICK D : D = [CallOf EXCEPT ![p] = c]
  OBVIOUS
<1>5. TokensOK(scn.n, req, ans, ListOf, StackOf, D)
  BY <1>3, <1>4, CallMoves DEF TokenInv
<1>6. D[p] = c /\ m.dst \in Rank
  BY <1>4, RequestFields DEF CallOf
<1>7. TokensOK(scn.n, req \cup {m}, ans, ListOf, StackOf, D)
  BY <1>3, <1>5, <1>6, RequestSent
<1> QED
  BY <1>1, <1>2, <1>4, <1>7, TokensAfter

(* lock, unlock and flush go on with their answer. *)
LEMMA TakeTokens ==
    ASSUME TypeOK, TokenInv, NEW p \in Rank, NEW c \in Call, CallOf' = [CallOf EXCEPT ![p] = c],
           org[p].call.op # "flushAllWait", c.op # "flushAllWait",
           NEW a \in ans, a.dst = p, ans' = ans \ {a}, UNCHANGED <<scn, tgt, req>>
    PROVE  TokenInv'
<1>1. CallOf[p].op # "flushAllWait"
  BY DEF CallOf
<1>2. ListOf' = ListOf /\ StackOf' = StackOf
  BY NoTargetEffect
<1>3. TokensOK(scn.n, req, ans \ {a}, ListOf, StackOf, [CallOf EXCEPT ![p] = c])
  BY <1>1, AnswerTaken DEF TokenInv
<1> QED
  BY <1>2, <1>3, TokensAfter

(* do_unlock hands the lock on, or does not. *)
LEMMA WakeTokens ==
    ASSUME NEW n, NEW R, NEW A, NEW L, NEW S, NEW C, TokensOK(n, R, A, L, S, C),
           NEW t \in Rank, NEW w \in Target, w.list = L[t], NEW z \in Target, NEW B,
           \/ GivenUp(w, z) /\ B = A
           \/ HandedOn(w, z) /\ B = A \cup {LockAnswer(t, Head(w.list).src)},
           NEW K, K = [L EXCEPT ![t] = z.list]
    PROVE  TokensOK(n, R, B, K, S, C)
<1>1. CASE GivenUp(w, z) /\ B = A
  <2>1. K = L
    BY <1>1 DEF GivenUp, TokensOK, TokenTypes
  <2> QED
    BY <1>1, <2>1
<1>2. CASE HandedOn(w, z) /\ B = A \cup {LockAnswer(t, Head(w.list).src)}
  <2>1. L[t] # <<>> /\ K = [L EXCEPT ![t] = Tail(@)]
    BY <1>2 DEF HandedOn
  <2>2. PICK h : h = Head(L[t])
    OBVIOUS
  <2>3. TokensOK(n, R, A \cup {LockAnswer(t, h.src)}, [L EXCEPT ![t] = Tail(@)], S, C)
    BY <2>1, <2>2, ListToAnswer
  <2> QED
    BY <1>2, <2>1, <2>2, <2>3
<1> QED
  BY <1>1, <1>2

(* MPID_Win_lock up to its wait. *)
LEMMA EnterLockTokens ==
    ASSUME TypeOK, TokenInv, NEW p \in Rank, NEW d \in Rank, NEW x \in BOOLEAN,
           NEW all \in BOOLEAN, org[p].call.op \notin Waiting, EnterLock(p, d, x, all)
    PROVE  TokenInv'
<1>1. CASE /\ d = p /\ MayLock(tgt[p], x)
           /\ tgt' = [tgt EXCEPT ![p] = Lock(@, x)]
           /\ org' = [org EXCEPT ![p] = HasLock(@, d, x, all)]
           /\ UNCHANGED <<scn, flight, req, ans>>
  <2>1. PICK c \in Call : CallOf' = [CallOf EXCEPT ![p] = c] /\ c.op \in {"lock", "none"}
    BY <1>1, LockEffect
  <2>2. PICK z : z = Lock(tgt[p], x)
    OBVIOUS
  <2>3. tgt[p] \in Target
    BY DEF TypeOK
  <2>4. z \in Target /\ z.list = tgt[p].list /\ z.stack = tgt[p].stack
    BY <2>2, <2>3, LockFacts
  <2>5. tgt' = [tgt EXCEPT ![p] = z]
    BY <1>1, <2>2
  <2>6. ListOf' = [ListOf EXCEPT ![p] = z.list] /\ StackOf' = [StackOf EXCEPT ![p] = z.stack]
    BY <2>4, <2>5, TargetEffect
  <2>7. ListOf' = ListOf /\ StackOf' = StackOf
    BY <2>4, <2>6 DEF ListOf, StackOf
  <2>8. \A t \in Rank : Bare(req, ans, ListOf, StackOf, p, t)
    BY NoTokens DEF TokenInv, Bare, Waiting, CallOf
  <2>9. TokensOK(scn.n, req, ans, ListOf, StackOf, [CallOf EXCEPT ![p] = c])
    BY <2>1, <2>8, CallMoves DEF TokenInv
  <2>10. scn' = scn /\ req' = req /\ ans' = ans
    BY <1>1
  <2> QED
    BY <2>1, <2>7, <2>9, <2>10, TokensAfter
<1>2. CASE /\ org' = [org EXCEPT ![p].call =
                [op |-> "lockWait", dest |-> d, excl |-> x, all |-> all]]
           /\ req' = req \cup {[type |-> "LOCK", src |-> p, dst |-> d, excl |-> x, n |-> 0]}
           /\ UNCHANGED <<scn, tgt, flight, ans>>
  <2> DEFINE c == [op |-> "lockWait", dest |-> d, excl |-> x, all |-> all]
             m == [type |-> "LOCK", src |-> p, dst |-> d, excl |-> x, n |-> 0]
  <2>1. c \in Call /\ m \in Request
    BY DEF Call, Request
  <2>2. /\ c.op = "lockWait" /\ c.excl = x /\ m.src = p /\ m.dst = d /\ m.excl = x
        /\ m.type = "LOCK" /\ Awaits(c, p, m.dst, m.type)
    BY DEF Awaits
  <2>3. org' = [org EXCEPT ![p].call = c] /\ req' = req \cup {m} /\ UNCHANGED <<scn, tgt, ans>>
    BY <1>2
  <2> HIDE DEF c, m
  <2> QED
    BY <2>1, <2>2, <2>3, SendTokens
<1> QED
  BY <1>1, <1>2 DEF EnterLock

(* The steps of lock and lock_all. *)
LEMMA LockTokens ==
    ASSUME OriginInv, TokenInv, NEW p \in Member
    PROVE  /\ \A d \in scn.targets, x \in scn.modes : Win_lock(p, d, x) => TokenInv'
           /\ Win_lock_all(p) \/ LockAllNext(p) \/ LockAllRefused(p) \/ LockDone(p) => TokenInv'
<1>1. /\ p \in Rank /\ scn.targets \subseteq Rank /\ scn.modes \subseteq BOOLEAN
      /\ 0 \in Rank /\ TypeOK
  BY MemberFacts DEF OriginInv
<1>2. /\ org[p] \in Origin /\ org[p].call \in Call /\ org[p].call.dest \in Rank
      /\ org[p].call.excl \in BOOLEAN /\ org[p].call.all \in BOOLEAN
  BY <1>1, OriginRecord, OriginFields, CallFields
<1>3. ASSUME NEW d \in scn.targets, NEW x \in scn.modes, Win_lock(p, d, x) PROVE TokenInv'
  <2>1. d \in Rank /\ x \in BOOLEAN /\ org[p].call.op \notin Waiting
    BY <1>1, <1>3 DEF Win_lock, Program, InCall, Waiting
  <2>2. EnterLock(p, d, x, FALSE)
    BY <1>3 DEF Win_lock
  <2> QED
    BY <1>1, <2>1, <2>2, EnterLockTokens
<1>4. ASSUME Win_lock_all(p) PROVE TokenInv'
  <2> DEFINE c == [op |-> "lock", dest |-> 0, excl |-> FALSE, all |-> TRUE]
  <2>1. c \in Call /\ c.op \notin Waiting
    BY <1>1 DEF Call, Waiting
  <2>2. /\ org' = [org EXCEPT ![p].call = c] /\ UNCHANGED <<scn, tgt, req, ans>>
        /\ org[p].call.op \notin Waiting
    BY <1>4 DEF Win_lock_all, Program, InCall, Waiting
  <2> HIDE DEF c
  <2> QED
    BY <1>1, <2>1, <2>2, QuietTokens
<1>5. ASSUME LockAllNext(p) PROVE TokenInv'
  <2>1. org[p].call.op \notin Waiting /\ EnterLock(p, org[p].call.dest, FALSE, TRUE)
    BY <1>5 DEF LockAllNext, InCall, Waiting
  <2> QED
    BY <1>1, <1>2, <2>1, EnterLockTokens
<1>6. ASSUME LockAllRefused(p) PROVE TokenInv'
  <2>1. Idle \in Call /\ Idle.op \notin Waiting
    BY <1>1 DEF Idle, Call, Waiting
  <2>2. /\ org' = [org EXCEPT ![p].call = Idle] /\ UNCHANGED <<scn, tgt, req, ans>>
        /\ org[p].call.op \notin Waiting
    BY <1>6 DEF LockAllRefused, InCall, Waiting
  <2> QED
    BY <1>1, <2>1, <2>2, QuietTokens
<1>7. ASSUME LockDone(p) PROVE TokenInv'
  <2>1. PICK d, x, all : d = org[p].call.dest /\ x = org[p].call.excl /\ all = org[p].call.all
    OBVIOUS
  <2>2. /\ org[p].call.op = "lockWait" /\ LockAnswer(d, p) \in ans
        /\ ans' = ans \ {LockAnswer(d, p)} /\ UNCHANGED <<scn, tgt, req>>
        /\ org' = [org EXCEPT ![p] = HasLock(@, d, x, all)]
    BY <1>7, <2>1 DEF LockDone, InCall
  <2>3. d \in Rank /\ x \in BOOLEAN /\ all \in BOOLEAN
    BY <1>2, <2>1
  <2>4. PICK c \in Call : CallOf' = [CallOf EXCEPT ![p] = c] /\ c.op \in {"lock", "none"}
    BY <1>1, <2>2, <2>3, LockEffect
  <2>5. LockAnswer(d, p).dst = p
    BY DEF LockAnswer
  <2> QED
    BY <1>1, <2>2, <2>4, <2>5, TakeTokens
<1> QED
  BY <1>3, <1>4, <1>5, <1>6, <1>7

(* The steps of unlock and unlock_all. *)
LEMMA UnlockTokens ==
    ASSUME OriginInv, TokenInv, NEW p \in Member
    PROVE  /\ \A d \in Member : Win_unlock(p, d) => TokenInv'
           /\ \/ Win_unlock_all(p) \/ UnlockSend(p) \/ UnlockAllRefused(p) \/ UnlockDone(p)
              => TokenInv'
<1>1. p \in Rank /\ Member \subseteq Rank /\ 0 \in Rank /\ TypeOK
  BY MemberFacts DEF OriginInv
<1>2. /\ org[p] \in Origin /\ org[p].call \in Call /\ org[p].call.dest \in Rank
      /\ org[p].call.all \in BOOLEAN /\ OriginOK(p, org[p])
  BY <1>1, OriginRecord, OriginFields, CallFields
<1>3. ASSUME NEW d \in Member, Win_unlock(p, d) PROVE TokenInv'
  <2> DEFINE c == [op |-> "unlock", dest |-> d, excl |-> FALSE, all |-> FALSE]
  <2>1. c \in Call /\ c.op \notin Waiting
    BY <1>1 DEF Call, Waiting
  <2>2. /\ org' = [org EXCEPT ![p].call = c] /\ UNCHANGED <<scn, tgt, req, ans>>
        /\ org[p].call.op \notin Waiting
    BY <1>3 DEF Win_unlock, Program, InCall, Waiting
  <2> HIDE DEF c
  <2> QED
    BY <1>1, <2>1, <2>2, QuietTokens
<1>4. ASSUME Win_unlock_all(p) PROVE TokenInv'
  <2> DEFINE c == [op |-> "unlock", dest |-> 0, excl |-> FALSE, all |-> TRUE]
  <2>1. c \in Call /\ c.op \notin Waiting
    BY <1>1 DEF Call, Waiting
  <2>2. /\ org' = [org EXCEPT ![p].call = c] /\ UNCHANGED <<scn, tgt, req, ans>>
        /\ org[p].call.op \notin Waiting
    BY <1>4 DEF Win_unlock_all, Program, InCall, Waiting
  <2> HIDE DEF c
  <2> QED
    BY <1>1, <2>1, <2>2, QuietTokens
<1>5. ASSUME UnlockAllRefused(p) PROVE TokenInv'
  <2>1. Idle \in Call /\ Idle.op \notin Waiting
    BY <1>1 DEF Idle, Call, Waiting
  <2>2. /\ org' = [org EXCEPT ![p].call = Idle] /\ UNCHANGED <<scn, tgt, req, ans>>
        /\ org[p].call.op \notin Waiting
    BY <1>5 DEF UnlockAllRefused, InCall, Waiting
  <2> QED
    BY <1>1, <2>1, <2>2, QuietTokens
<1>6. ASSUME UnlockSend(p) PROVE TokenInv'
  <2>1. PICK d \in Rank, all \in BOOLEAN : d = org[p].call.dest /\ all = org[p].call.all
    BY <1>2
  <2>2. /\ d \in Rank /\ all \in BOOLEAN /\ org[p].call.op = "unlock" /\ EnterUnlock(p, d, all)
        /\ org[p].call.op \notin Waiting
    BY <1>2, <1>6, <2>1 DEF UnlockSend, InCall, Waiting
  <2>3. org[p].remote[d] # "UNLOCKED"
    BY <1>2, <1>6, <2>1 DEF UnlockSend, InCall, OriginOK
  <2>4. CASE /\ d = p /\ tgt' = [tgt EXCEPT ![p] = DoUnlock(@)]
             /\ ans' = ans \cup Woken(p, tgt[p])
             /\ org' = [org EXCEPT ![p] = HasUnlocked(@, d, all)]
             /\ UNCHANGED <<scn, flight, req>>
    <3>0. PICK o : o = HasUnlocked(org[p], d, all)
      OBVIOUS
    <3>1. org[p].locks \in Nat \ {0}
      BY <1>1, <1>2, <2>2, <2>3, <3>0, UnlockKeepsOrigin, OriginFields
    <3>2. org' = [org EXCEPT ![p] = o]
      BY <2>4, <3>0
    <3>3a. o \in Origin /\ o.call \in Call /\ o.call.op \in {"unlock", "none"}
      BY <1>1, <1>2, <2>2, <3>0, <3>1, UnlockRecord
    <3>3b. CallOf' = [CallOf EXCEPT ![p] = o.call]
      BY <1>1, <3>2, <3>3a, OriginEffect
    <3>3. PICK c \in Call : CallOf' = [CallOf EXCEPT ![p] = c] /\ c.op \in {"unlock", "none"}
      BY <3>3a, <3>3b
    <3>4. PICK z : z = DoUnlock(tgt[p])
      OBVIOUS
    <3>5. tgt[p] \in Target
      BY <1>1 DEF TypeOK
    <3>6. /\ z \in Target /\ z.stack = tgt[p].stack
          /\ \/ GivenUp(tgt[p], z) /\ Woken(p, tgt[p]) = {}
             \/ /\ HandedOn(tgt[p], z)
                /\ Woken(p, tgt[p]) = {LockAnswer(p, Head(tgt[p].list).src)}
      BY <1>1, <3>4, <3>5, DoUnlockFacts
    <3>7. tgt' = [tgt EXCEPT ![p] = z]
      BY <2>4, <3>4
    <3>8. ListOf' = [ListOf EXCEPT ![p] = z.list] /\ StackOf' = [StackOf EXCEPT ![p] = z.stack]
      BY <1>1, <3>6, <3>7, TargetEffect
    <3>9. StackOf' = StackOf /\ tgt[p].list = ListOf[p]
      BY <1>1, <3>6, <3>8 DEF StackOf, ListOf
    <3>10. \A t \in Rank : Bare(req, ans, ListOf, StackOf, p, t)
      BY <1>1, <2>2, NoTokens DEF TokenInv, Bare, Waiting, CallOf
    <3>11. PICK D : D = [CallOf EXCEPT ![p] = c]
      OBVIOUS
    <3>12. TokensOK(scn.n, req, ans, ListOf, StackOf, D)
      BY <1>1, <3>3, <3>10, <3>11, CallMoves DEF TokenInv
    <3>13. \/ GivenUp(tgt[p], z) /\ ans' = ans
           \/ HandedOn(tgt[p], z) /\ ans' = ans \cup {LockAnswer(p, Head(tgt[p].list).src)}
      BY <2>4, <3>6
    <3>14. PICK B, K : B = ans' /\ K = ListOf'
      OBVIOUS
    <3>15. TokensOK(scn.n, req, B, K, StackOf, D)
      BY <1>1, <3>5, <3>6, <3>8, <3>9, <3>12, <3>13, <3>14, WakeTokens
    <3> QED
      BY <2>4, <3>3, <3>9, <3>11, <3>14, <3>15, TokensAfter
  <2>5. CASE /\ d # p
             /\ req' = req \cup {[type |-> "UNLOCK", src |-> p, dst |-> d, excl |-> FALSE,
                                  n |-> org[p].puts[d]]}
             /\ org' = [org EXCEPT ![p].call =
                          [op |-> "unlockWait", dest |-> d, excl |-> FALSE, all |-> all]]
             /\ UNCHANGED <<scn, tgt, flight, ans>>
    <3> DEFINE c == [op |-> "unlockWait", dest |-> d, excl |-> FALSE, all |-> all]
               m == [type |-> "UNLOCK", src |-> p, dst |-> d, excl |-> FALSE,
                     n |-> org[p].puts[d]]
    <3>1. org[p].puts[d] \in Nat
      BY <1>2, <2>2, OriginFields
    <3>2. c \in Call /\ m \in Request
      BY <1>1, <2>2, <3>1 DEF Call, Request
    <3>3. /\ c.op = "unlockWait" /\ m.src = p /\ m.type = "UNLOCK"
          /\ Awaits(c, p, m.dst, m.type)
      BY <2>5 DEF Awaits
    <3>4. org' = [org EXCEPT ![p].call = c] /\ req' = req \cup {m} /\ UNCHANGED <<scn, tgt, ans>>
      BY <2>5
    <3> HIDE DEF c, m
    <3> QED
      BY <1>1, <2>2, <3>2, <3>3, <3>4, SendTokens
  <2> QED
    BY <2>2, <2>4, <2>5 DEF EnterUnlock
<1>7. ASSUME UnlockDone(p) PROVE TokenInv'
  <2>0. PICK d \in Rank, all \in BOOLEAN : d = org[p].call.dest /\ all = org[p].call.all
    BY <1>2
  <2>1. PICK a : /\ d = org[p].call.dest /\ all = org[p].call.all
                 /\ a = [type |-> "UNLOCK", src |-> d, dst |-> p]
    BY <2>0
  <2>2. PICK h : h = [org[p] EXCEPT !.puts[d] = 0]
    OBVIOUS
  <2>3. /\ org[p].call.op = "unlockWait" /\ a \in ans /\ ans' = ans \ {a}
        /\ UNCHANGED <<scn, tgt, req>>
        /\ org' = [org EXCEPT ![p] = HasUnlocked([org[p] EXCEPT !.puts[d] = 0], d, all)]
    BY <1>7, <2>1 DEF UnlockDone, InCall
  <2>4. d \in Rank /\ all \in BOOLEAN /\ a.dst = p
    BY <1>2, <2>1
  <2>5. h \in Origin
    BY <1>2, <2>2, <2>4, OriginTypes
  <2>6. h.locks = org[p].locks
    BY <1>2, <2>2 DEF Origin
  <2>7. org[p].locks \in Nat \ {0}
    <3>1. org[p].remote[d] # "UNLOCKED"
      BY <1>2, <2>1, <2>3 DEF OriginOK
    <3>2. PICK g : g = HasUnlocked(org[p], d, all)
      OBVIOUS
    <3> QED
      BY <1>1, <1>2, <2>4, <3>1, <3>2, UnlockKeepsOrigin, OriginFields
  <2>8a. PICK o : o = HasUnlocked(h, d, all)
    OBVIOUS
  <2>8. org' = [org EXCEPT ![p] = o]
    BY <2>2, <2>3, <2>8a
  <2>9. o \in Origin /\ o.call \in Call /\ o.call.op \in {"unlock", "none"}
    BY <1>1, <2>4, <2>5, <2>6, <2>7, <2>8a, UnlockRecord
  <2>10. CallOf' = [CallOf EXCEPT ![p] = o.call]
    BY <1>1, <2>8, <2>9, OriginEffect
  <2> QED
    BY <1>1, <2>3, <2>4, <2>9, <2>10, TakeTokens
<1> QED
  BY <1>3, <1>4, <1>5, <1>6, <1>7

(* How flush_all goes on at the rank d or above. *)
LEMMA FlushAllNext ==
    ASSUME TypeOK, NEW p \in Rank, NEW d \in Nat, NEW c, c = FlushAllFrom(p, d)
    PROVE  /\ c \in Call
           /\ \/ c.op = "none" /\ c = Idle /\ Due(scn.n, p, d) = {}
              \/ /\ c.op = "flushAllWait" /\ c.dest \in Due(scn.n, p, c.dest)
                 /\ Due(scn.n, p, c.dest) = Due(scn.n, p, d)
                 /\ \A t \in Member : t < c.dest /\ t # p => t < d
<1>1. /\ scn.n \in 2..N /\ Member \subseteq Rank /\ 0 \in Rank /\ N \in Nat /\ p \in Nat
      /\ Rank \subseteq Nat /\ scn.n \in Nat
  BY MemberFacts
<1>2. /\ c \in Call
      /\ \/ /\ c = Idle /\ c.op = "none"
            /\ \A t \in Member : t >= d => t = p
         \/ /\ c.op = "flushAllWait" /\ c.dest \in Member /\ c.dest # p
            /\ c.dest = (IF d = p THEN d + 1 ELSE d)
  BY FlushAllFromFacts
<1>3. CASE c = Idle /\ c.op = "none" /\ \A t \in Member : t >= d => t = p
  BY <1>2, <1>3 DEF Due, Member
<1>4. CASE /\ c.op = "flushAllWait" /\ c.dest \in Member /\ c.dest # p
           /\ c.dest = (IF d = p THEN d + 1 ELSE d)
  <2>1. c.dest \in Nat
    BY <1>1, <1>4
  <2>2. PICK e \in Nat : e = c.dest
    BY <2>1
  <2>3. (d = p /\ e = d + 1) \/ (d # p /\ e = d)
    BY <1>4, <2>2
  <2>4. e \in Due(scn.n, p, e)
    BY <1>1, <1>4, <2>2 DEF Due, Member
  <2>5. \A t \in Nat : t >= e /\ t # p <=> t >= d /\ t # p
    BY <1>1, <2>3
  <2>6. Due(scn.n, p, e) = Due(scn.n, p, d)
    BY <1>1, <2>5 DEF Due
  <2>7. \A t \in Member : t < e /\ t # p => t < d
    BY <1>1, <2>3
  <2> QED
    BY <1>2, <1>4, <2>2, <2>4, <2>6, <2>7
<1> QED
  BY <1>2, <1>3, <1>4

(* The steps of flush and flush_all. *)
LEMMA FlushTokens ==
    ASSUME OriginInv, TokenInv, NEW p \in Member
    PROVE  /\ \A d \in Member : Win_flush(p, d) => TokenInv'
           /\ \/ FlushSend(p) \/ FlushDone(p) \/ Win_flush_all(p) \/ FlushAllSend(p)
              \/ FlushAllDone(p)
              => TokenInv'
<1>1. /\ p \in Rank /\ Member \subseteq Rank /\ 0 \in Rank /\ TypeOK /\ Rank \subseteq Nat
      /\ scn.n \in Nat /\ scn.n > 1
  BY MemberFacts DEF OriginInv
<1>2. /\ org[p] \in Origin /\ org[p].call \in Call /\ org[p].call.dest \in Rank
      /\ org[p].puts \in [Rank -> Nat] /\ org \in [Rank -> Origin]
  BY <1>1, OriginRecord, OriginFields, CallFields
<1>3. \A d \in Rank : FlushRequest(p, d) \in Request
  <2>1. \A d \in Rank : org[p].puts[d] \in Nat
    BY <1>2
  <2> QED
    BY <1>1, <2>1 DEF FlushRequest, Request
<1>4. \A d : /\ FlushRequest(p, d).src = p /\ FlushRequest(p, d).dst = d
             /\ FlushRequest(p, d).type = "FLUSH"
  BY DEF FlushRequest
<1>5. ASSUME NEW d \in Member, Win_flush(p, d) PROVE TokenInv'
  <2> DEFINE c == [op |-> "flush", dest |-> d, excl |-> FALSE, all |-> FALSE]
  <2>1. c \in Call /\ c.op \notin Waiting
    BY <1>1 DEF Call, Waiting
  <2>2. /\ org' = [org EXCEPT ![p].call = c] /\ UNCHANGED <<scn, tgt, req, ans>>
        /\ org[p].call.op \notin Waiting
    BY <1>5 DEF Win_flush, Program, InCall, Waiting
  <2> HIDE DEF c
  <2> QED
    BY <1>1, <2>1, <2>2, QuietTokens
<1>6. ASSUME Win_flush_all(p) PROVE TokenInv'
  <2> DEFINE c == [op |-> "flushAll", dest |-> 0, excl |-> FALSE, all |-> TRUE]
  <2>1. c \in Call /\ c.op \notin Waiting
    BY <1>1 DEF Call, Waiting
  <2>2. /\ org' = [org EXCEPT ![p].call = c] /\ UNCHANGED <<scn, tgt, req, ans>>
        /\ org[p].call.op \notin Waiting
    BY <1>6 DEF Win_flush_all, Program, InCall, Waiting
  <2> HIDE DEF c
  <2> QED
    BY <1>1, <2>1, <2>2, QuietTokens
<1>7. ASSUME FlushSend(p) PROVE TokenInv'
  <2> DEFINE c == [org[p].call EXCEPT !.op = "flushWait"]
             m == FlushRequest(p, org[p].call.dest)
  <2>1. c \in Call
    BY <1>2 DEF Call
  <2>2. c.op = "flushWait" /\ c.dest = org[p].call.dest
    BY <1>2 DEF Call
  <2>3. m \in Request /\ m.src = p /\ m.type = "FLUSH" /\ m.dst = org[p].call.dest
    BY <1>2, <1>3, <1>4
  <2>4. org' = [org EXCEPT ![p].call = c]
    BY <1>7 DEF FlushSend
  <2>5. /\ req' = req \cup {m} /\ UNCHANGED <<scn, tgt, ans>> /\ org[p].call.op \notin Waiting
    BY <1>7 DEF FlushSend, InCall, Waiting
  <2> HIDE DEF c, m
  <2>6. Awaits(c, p, m.dst, m.type)
    <3>1. org[p].call.dest # p
      BY <1>1, <1>7, OriginRecord DEF FlushSend, InCall, OriginOK
    <3> QED
      BY <2>2, <2>3, <3>1 DEF Awaits
  <2> QED
    BY <1>1, <2>1, <2>2, <2>3, <2>4, <2>5, <2>6, SendTokens
<1>8. ASSUME FlushDone(p) PROVE TokenInv'
  <2>1. PICK d \in Rank : d = org[p].call.dest
    BY <1>2
  <2>2. PICK a : a = [type |-> "FLUSH", src |-> d, dst |-> p]
    OBVIOUS
  <2>3. /\ org[p].call.op = "flushWait" /\ a \in ans /\ ans' = ans \ {a} /\ a.dst = p
        /\ UNCHANGED <<scn, tgt, req>>
        /\ org' = [org EXCEPT ![p].puts[d] = 0, ![p].call = Idle]
    BY <1>8, <2>1, <2>2 DEF FlushDone, InCall
  <2>4. Idle \in Call /\ Idle.op = "none"
    BY <1>1 DEF Idle, Call
  <2>5. CallOf' = [CallOf EXCEPT ![p] = Idle]
    <3>0. PICK o : o = HasFlushed(org[p], d, Idle)
      OBVIOUS
    <3>1. org' = [org EXCEPT ![p] = o]
      BY <2>3, <3>0 DEF HasFlushed
    <3>2. org[p] \in Origin /\ Idle \in Call
      BY <1>2, <2>4
    <3>3. o \in Origin /\ o.call = Idle
      BY <3>0, <3>2, FlushRecord
    <3> QED
      BY <1>1, <3>1, <3>3, OriginEffect
  <2> QED
    BY <1>1, <2>3, <2>4, <2>5, TakeTokens
<1>9. ASSUME FlushAllSend(p) PROVE TokenInv'
  <2>1. PICK c : c = FlushAllFrom(p, 0)
    OBVIOUS
  <2>2. PICK F : F = {FlushRequest(p, d) : d \in Member \ {p}}
    OBVIOUS
  <2>3. /\ org[p].call.op = "flushAll" /\ req' = req \cup F
        /\ org' = [org EXCEPT ![p].call = c] /\ UNCHANGED <<scn, tgt, ans>>
    BY <1>9, <2>1, <2>2 DEF FlushAllSend, InCall
  <2>4. Due(scn.n, p, 0) = Member \ {p}
    BY <1>1 DEF Due, Member
  <2>5. Member \ {p} # {}
    <3>1. 0 \in Member /\ 1 \in Member
      BY <1>1 DEF Member
    <3> QED
      BY <3>1
  <2>6. /\ c \in Call /\ c.op = "flushAllWait" /\ c.dest \in Due(scn.n, p, c.dest)
        /\ Due(scn.n, p, c.dest) = Due(scn.n, p, 0)
    BY <1>1, <2>1, <2>4, <2>5, FlushAllNext
  <2>7. F \subseteq Request
    BY <1>1, <1>3, <2>2
  <2>8. \A m \in F : m.type = "FLUSH" /\ m.src = p /\ m.dst # p
    BY <1>4, <2>2
  <2>9. \A m, l \in F : m.dst = l.dst => m = l
    BY <1>4, <2>2
  <2>10. \A t : (\E m \in F : m.dst = t) <=> t \in Due(scn.n, p, c.dest)
    <3>1. \A t : (\E m \in F : m.dst = t) <=> t \in Member \ {p}
      BY <1>4, <2>2
    <3> QED
      BY <2>4, <2>6, <3>1
  <2>11. CallOf' = [CallOf EXCEPT ![p] = c] /\ CallOf[p].op \notin Waiting
    BY <1>1, <2>3, <2>6, CallEffect DEF CallOf, Waiting
  <2>12. ListOf' = ListOf /\ StackOf' = StackOf
    BY <2>3, NoTargetEffect
  <2>13. \A t \in Rank : Bare(req, ans, ListOf, StackOf, p, t)
    BY <1>1, <2>11, NoTokens DEF TokenInv, Bare, Waiting
  <2>16. FlushAllRequests(F, scn.n, p, c.dest)
    BY <2>7, <2>8, <2>9, <2>10 DEF FlushAllRequests
  <2>14. PICK Q, D : Q = req \cup F /\ D = [CallOf EXCEPT ![p] = c]
    OBVIOUS
  <2>15. TokensOK(scn.n, Q, ans, ListOf, StackOf, D)
    BY <1>1, <2>6, <2>13, <2>14, <2>16, FlushAllStart DEF TokenInv
  <2> QED
    BY <2>3, <2>11, <2>12, <2>14, <2>15, TokensAfter
<1>10. ASSUME FlushAllDone(p) PROVE TokenInv'
  <2>1. PICK d \in Rank : d = org[p].call.dest
    BY <1>2
  <2>2. PICK c : c = FlushAllFrom(p, d + 1)
    OBVIOUS
  <2>3. PICK a \in ans : /\ a.type = "FLUSH" /\ a.dst = p /\ ans' = ans \ {a}
                         /\ org' = [org EXCEPT ![p].puts[d] = 0, ![p].call = c]
    BY <1>10, <2>1, <2>2 DEF FlushAllDone
  <2>4. org[p].call.op = "flushAllWait" /\ UNCHANGED <<scn, tgt, req>>
    BY <1>10 DEF FlushAllDone, InCall
  <2>5. d + 1 \in Nat /\ d \in Nat
    BY <1>1
  <2>6. /\ c \in Call
        /\ \/ c.op = "none" /\ Due(scn.n, p, d + 1) = {}
           \/ /\ c.op = "flushAllWait" /\ c.dest \in Due(scn.n, p, c.dest)
              /\ Due(scn.n, p, c.dest) = Due(scn.n, p, d + 1)
    BY <1>1, <2>2, <2>5, FlushAllNext
  <2>7. CallOf[p].op = "flushAllWait" /\ CallOf[p].dest = d
    BY <1>1, <2>1, <2>4 DEF CallOf
  <2>8. d \in Due(scn.n, p, d)
    BY <1>1, <2>7 DEF TokenInv, TokensOK, FlushesOK
  <2>9. Due(scn.n, p, d + 1) = Due(scn.n, p, d) \ {d}
    BY <1>1, <2>5 DEF Due
  <2>10. Due(scn.n, p, d + 1) = {} => Due(scn.n, p, d) = {d}
    BY <2>8, <2>9
  <2>11. CallOf' = [CallOf EXCEPT ![p] = c]
    <3>0. PICK o : o = HasFlushed(org[p], d, c)
      OBVIOUS
    <3>1. org' = [org EXCEPT ![p] = o]
      BY <2>3, <3>0 DEF HasFlushed
    <3>2. org[p] \in Origin /\ c \in Call
      BY <1>2, <2>6
    <3>3. o \in Origin /\ o.call = c
      BY <3>0, <3>2, FlushRecord
    <3> QED
      BY <1>1, <3>1, <3>3, OriginEffect
  <2>12. ListOf' = ListOf /\ StackOf' = StackOf
    BY <2>4, NoTargetEffect
  <2>13. PICK B, D : B = ans \ {a} /\ D = [CallOf EXCEPT ![p] = c]
    OBVIOUS
  <2>14. OneCounted(scn.n, p, d, c)
    BY <2>6, <2>9, <2>10 DEF OneCounted
  <2>15. TokensOK(scn.n, req, B, ListOf, StackOf, D)
    <3>1. /\ TokensOK(scn.n, req, ans, ListOf, StackOf, CallOf) /\ scn.n \in Int
          /\ p = a.dst /\ c \in Call /\ CallOf[p].op = "flushAllWait" /\ d = CallOf[p].dest
      BY <1>1, <2>3, <2>6, <2>7 DEF TokenInv
    <3> QED
      BY <2>13, <2>14, <3>1, FlushAllAnswer
  <2> QED
    BY <2>3, <2>4, <2>11, <2>12, <2>13, <2>15, TokensAfter
<1> QED
  BY <1>5, <1>6, <1>7, <1>8, <1>9, <1>10

(* The operations and their completion move no token. *)
LEMMA OperationTokens ==
    ASSUME OriginInv, TokenInv, NEW p \in Rank, NEW t \in Rank
    PROVE  \/ Put(p, t) \/ Get(p, t) \/ Accumulate(p, t) \/ OpDone(p, t) \/ AccumulateDone(p, t)
           \/ OpArrives(p, t)
           => TokenInv'
<1>1. TokensOK(scn.n, req, ans, ListOf, StackOf, CallOf) /\ TypeOK
  BY DEF TokenInv, OriginInv
<1>2. ASSUME \/ Put(p, t) \/ Get(p, t) \/ Accumulate(p, t) \/ OpDone(p, t)
             \/ AccumulateDone(p, t)
      PROVE  TokenInv'
  <2>1. CallOf' = CallOf
    BY <1>2, OperationEffect
  <2>2. UNCHANGED <<scn, tgt, req, ans>>
    BY <1>2 DEF Put, Get, Accumulate, OpDone, AccumulateDone
  <2>3. ListOf' = ListOf /\ StackOf' = StackOf
    BY <2>2, NoTargetEffect
  <2> QED
    BY <1>1, <2>1, <2>2, <2>3, TokensAfter
<1>3. ASSUME OpArrives(p, t) PROVE TokenInv'
  <2>1. UNCHANGED <<scn, org, req, ans>>
    BY <1>3 DEF OpArrives
  <2>2. CallOf' = CallOf
    BY <2>1, NoOriginEffect
  <2>3. \A u \in Rank : tgt'[u].list = tgt[u].list /\ tgt'[u].stack = tgt[u].stack
    <3>1. tgt \in [Rank -> Target]
      BY <1>1 DEF TypeOK
    <3> QED
      BY <1>3, <3>1 DEF OpArrives, Target
  <2>4. ListOf' = ListOf /\ StackOf' = StackOf
    BY <2>3 DEF ListOf, StackOf
  <2> QED
    BY <1>1, <2>1, <2>2, <2>4, TokensAfter
<1> QED
  BY <1>2, <1>3

(* The end of a callback h of the window w, whose token is an answer now. *)
LEMMA EndTokens ==
    ASSUME TypeOK, NEW t \in Rank, NEW w \in Target, NEW h \in Request, EndCallback(t, w, h),
           NEW R, NEW L, NEW S, NEW C, NEW a, a = [type |-> h.type, src |-> t, dst |-> h.src],
           TokensOK(scn.n, R, ans \cup {a}, L, S, C),
           L = ListOf, w.list = tgt[t].list, S = [StackOf EXCEPT ![t] = w.stack],
           req' = R, CallOf' = C, scn' = scn
    PROVE  TokenInv'
<1>1. PICK z \in Target :
           /\ tgt' = [tgt EXCEPT ![t] = z]
           /\ z.stack = w.stack
           /\ \/ h.type # "UNLOCK" /\ ans' = ans \cup {a} /\ z.list = w.list
              \/ h.type = "UNLOCK" /\ GivenUp(w, z) /\ ans' = ans \cup {a}
              \/ /\ h.type = "UNLOCK" /\ HandedOn(w, z)
                 /\ ans' = (ans \cup {a}) \cup {LockAnswer(t, Head(w.list).src)}
  <2>1. \E z \in Target :
           /\ tgt' = [tgt EXCEPT ![t] = z]
           /\ z.src = w.src /\ z.recvd = w.recvd - h.n /\ z.stack = w.stack
           /\ \/ /\ h.type # "UNLOCK" /\ ans' = ans \cup {a}
                 /\ z.cnt = w.cnt /\ z.excl = w.excl /\ z.list = w.list
              \/ h.type = "UNLOCK" /\ GivenUp(w, z) /\ ans' = ans \cup {a}
              \/ /\ h.type = "UNLOCK" /\ HandedOn(w, z)
                 /\ ans' = (ans \cup {a}) \cup {LockAnswer(t, Head(w.list).src)}
    BY EndEffect
  <2> QED
    BY <2>1
<1>2. ListOf' = [ListOf EXCEPT ![t] = z.list] /\ StackOf' = [StackOf EXCEPT ![t] = z.stack]
  BY <1>1, TargetEffect
<1>3. StackOf' = S /\ w.list = L[t]
  BY <1>1, <1>2 DEF ListOf
<1>4. CASE h.type # "UNLOCK" /\ ans' = ans \cup {a} /\ z.list = w.list
  <2>1. ListOf' = L
    BY <1>2, <1>4 DEF ListOf
  <2> QED
    BY <1>3, <1>4, <2>1, TokensAfter
<1>5. CASE \/ GivenUp(w, z) /\ ans' = ans \cup {a}
           \/ /\ HandedOn(w, z)
              /\ ans' = (ans \cup {a}) \cup {LockAnswer(t, Head(w.list).src)}
  <2>1. PICK A, B, K : A = ans \cup {a} /\ B = ans' /\ K = ListOf'
    OBVIOUS
  <2>2. \/ GivenUp(w, z) /\ B = A
        \/ HandedOn(w, z) /\ B = A \cup {LockAnswer(t, Head(w.list).src)}
    BY <1>5, <2>1
  <2>3. K = [L EXCEPT ![t] = z.list]
    BY <1>2, <2>1
  <2>4. TokensOK(scn.n, R, A, L, S, C)
    BY <2>1
  <2>5. TokensOK(scn.n, R, B, K, S, C)
    BY <1>3, <2>2, <2>3, <2>4, WakeTokens
  <2> QED
    BY <1>3, <2>1, <2>5, TokensAfter
<1> QED
  BY <1>1, <1>4, <1>5

(* The steps of the targets. *)
LEMMA TargetTokens ==
    ASSUME TypeOK, TokenInv
    PROVE  /\ \A m \in req : RecvLockReq(m) \/ RecvCounter(m) => TokenInv'
           /\ \A t \in Rank : CallbackDone(t) => TokenInv'
<1>1. /\ tgt \in [Rank -> Target] /\ req \subseteq Request
      /\ TokensOK(scn.n, req, ans, ListOf, StackOf, CallOf)
  BY DEF TypeOK, TokenInv
<1>2. ASSUME NEW m \in req, RecvLockReq(m) PROVE TokenInv'
  <2>1. /\ m \in Request /\ m.dst \in Rank /\ m.src \in Rank /\ m.excl \in BOOLEAN
        /\ tgt[m.dst] \in Target /\ tgt[m.dst].list \in Seq(Request)
    BY <1>1, RequestFields, TargetFields
  <2>2. m.type = "LOCK" /\ req' = req \ {m} /\ UNCHANGED <<scn, org, flight>>
    BY <1>2 DEF RecvLockReq
  <2>3. CallOf' = CallOf
    BY <2>2, NoOriginEffect
  <2>4. CASE /\ tgt' = [tgt EXCEPT ![m.dst] = Lock(@, m.excl)]
             /\ ans' = ans \cup {LockAnswer(m.dst, m.src)}
    <3>1. PICK z : z = Lock(tgt[m.dst], m.excl)
      OBVIOUS
    <3>2. z \in Target /\ z.list = tgt[m.dst].list /\ z.stack = tgt[m.dst].stack
      BY <2>1, <3>1, LockFacts
    <3>3. tgt' = [tgt EXCEPT ![m.dst] = z]
      BY <2>4, <3>1
    <3>4. /\ ListOf' = [ListOf EXCEPT ![m.dst] = z.list]
          /\ StackOf' = [StackOf EXCEPT ![m.dst] = z.stack]
      BY <2>1, <3>2, <3>3, TargetEffect
    <3>5. ListOf' = ListOf /\ StackOf' = StackOf
      BY <3>2, <3>4 DEF ListOf, StackOf
    <3>6. PICK a : a = LockAnswer(m.dst, m.src)
      OBVIOUS
    <3>7. a \in Answer /\ a.type = m.type /\ a.src = m.dst /\ a.dst = m.src
      BY <2>1, <2>2, <3>6 DEF Answer, LockAnswer
    <3>8. TokensOK(scn.n, req \ {m}, ans \cup {a}, ListOf, StackOf, CallOf)
      BY <1>1, <3>7, RequestToAnswer
    <3> QED
      BY <2>2, <2>3, <2>4, <3>5, <3>6, <3>8, TokensAfter
  <2>5. CASE tgt' = [tgt EXCEPT ![m.dst].list = Append(@, m)] /\ ans' = ans
    <3>1. PICK z : z = [tgt[m.dst] EXCEPT !.list = Append(tgt[m.dst].list, m)]
      OBVIOUS
    <3>2. Append(tgt[m.dst].list, m) \in Seq(Request)
      BY <2>1
    <3>3. z \in Target
      BY <2>1, <3>1, <3>2, TargetTypes
    <3>4. z.list = Append(tgt[m.dst].list, m) /\ z.stack = tgt[m.dst].stack
      BY <2>1, <3>1 DEF Target
    <3>5. tgt' = [tgt EXCEPT ![m.dst] = z]
      BY <2>5, <3>1
    <3>6. /\ ListOf' = [ListOf EXCEPT ![m.dst] = z.list]
          /\ StackOf' = [StackOf EXCEPT ![m.dst] = z.stack]
      BY <2>1, <3>3, <3>5, TargetEffect
    <3>7. ListOf' = [ListOf EXCEPT ![m.dst] = Append(@, m)] /\ StackOf' = StackOf
      BY <2>1, <3>4, <3>6 DEF ListOf, StackOf
    <3>8. TokensOK(scn.n, req \ {m}, ans, [ListOf EXCEPT ![m.dst] = Append(@, m)], StackOf, CallOf)
      BY <1>1, <2>2, RequestToList
    <3> QED
      BY <2>2, <2>3, <2>5, <3>7, <3>8, TokensAfter
  <2> QED
    BY <1>2, <2>4, <2>5 DEF RecvLockReq
<1>3. ASSUME NEW m \in req, RecvCounter(m) PROVE TokenInv'
  <2>1. /\ m \in Request /\ m.dst \in Rank /\ m.src \in Rank /\ m.n \in Nat
        /\ tgt[m.dst] \in Target /\ tgt[m.dst].stack \in Seq(Request)
        /\ tgt[m.dst].src \in [Rank -> Int]
    BY <1>1, RequestFields, TargetFields
  <2>2. /\ m.type # "LOCK" /\ req' = req \ {m} /\ UNCHANGED <<scn, org, flight>>
        /\ m.type \in {"LOCK", "UNLOCK", "FLUSH"}
    BY <1>3 DEF RecvCounter
  <2>3. CallOf' = CallOf
    BY <2>2, NoOriginEffect
  <2> DEFINE w == [tgt[m.dst] EXCEPT !.src[m.src] = @ + m.n]
  <2>4. tgt[m.dst].src[m.src] + m.n \in Int
    BY <2>1
  <2>5. w \in Target
    BY <2>1, <2>4, TargetTypes
  <2>6. w.list = tgt[m.dst].list /\ w.stack = tgt[m.dst].stack
    BY <2>1 DEF Target
  <2>7. \/ EndCallback(m.dst, w, m)
        \/ /\ tgt' = [tgt EXCEPT ![m.dst] = [w EXCEPT !.stack = <<m>> \o @]]
           /\ ans' = ans
    BY <1>3 DEF RecvCounter
  <2> HIDE DEF w
  <2>8. CASE EndCallback(m.dst, w, m)
    <3>1. PICK a : a = [type |-> m.type, src |-> m.dst, dst |-> m.src]
      OBVIOUS
    <3>2. a \in Answer /\ a.type = m.type /\ a.src = m.dst /\ a.dst = m.src
      BY <2>1, <2>2, <3>1 DEF Answer
    <3>3. TokensOK(scn.n, req \ {m}, ans \cup {a}, ListOf, StackOf, CallOf)
      BY <1>1, <3>2, RequestToAnswer
    <3>4. PICK R, L, S, C : /\ R = req \ {m} /\ L = ListOf /\ S = StackOf /\ C = CallOf
      OBVIOUS
    <3>5. S = [StackOf EXCEPT ![m.dst] = w.stack]
      BY <2>6, <3>4 DEF StackOf
    <3>6. /\ TokensOK(scn.n, R, ans \cup {a}, L, S, C) /\ req' = R /\ CallOf' = C /\ L = ListOf
          /\ scn' = scn
      BY <2>2, <2>3, <3>3, <3>4
    <3>7. m.dst \in Rank /\ m \in Request
      BY <2>1
    <3> QED
      BY <2>5, <2>6, <2>8, <3>1, <3>5, <3>6, <3>7, EndTokens
  <2>9. CASE tgt' = [tgt EXCEPT ![m.dst] = [w EXCEPT !.stack = <<m>> \o @]] /\ ans' = ans
    <3>1. PICK z : z = [w EXCEPT !.stack = <<m>> \o @]
      OBVIOUS
    <3>2. <<m>> \o w.stack \in Seq(Request)
      BY <2>1, <2>6
    <3>3. z \in Target
      BY <2>5, <3>1, <3>2, TargetTypes
    <3>4. z.list = w.list /\ z.stack = <<m>> \o w.stack
      BY <2>5, <3>1 DEF Target
    <3>5. tgt' = [tgt EXCEPT ![m.dst] = z]
      BY <2>9, <3>1
    <3>6. /\ ListOf' = [ListOf EXCEPT ![m.dst] = z.list]
          /\ StackOf' = [StackOf EXCEPT ![m.dst] = z.stack]
      BY <2>1, <3>3, <3>5, TargetEffect
    <3>7. StackOf' = [StackOf EXCEPT ![m.dst] = <<m>> \o @] /\ ListOf' = ListOf
      <4>1. m.dst \in Rank /\ w.stack = tgt[m.dst].stack /\ w.list = tgt[m.dst].list
        BY <2>1, <2>6
      <4>2. StackOf[m.dst] = w.stack
        BY <4>1 DEF StackOf
      <4>3. StackOf' = [StackOf EXCEPT ![m.dst] = <<m>> \o StackOf[m.dst]]
        BY <3>4, <3>6, <4>2
      <4>4. ListOf = [ListOf EXCEPT ![m.dst] = w.list]
        BY <4>1 DEF ListOf
      <4> QED
        BY <3>4, <3>6, <4>3, <4>4
    <3>8. TokensOK(scn.n, req \ {m}, ans, ListOf, [StackOf EXCEPT ![m.dst] = <<m>> \o @], CallOf)
      BY <1>1, <2>2, RequestToStack
    <3> QED
      BY <2>2, <2>3, <2>9, <3>7, <3>8, TokensAfter
  <2> QED
    BY <2>7, <2>8, <2>9
<1>4. ASSUME NEW t \in Rank, CallbackDone(t) PROVE TokenInv'
  <2> DEFINE w == [tgt[t] EXCEPT !.stack = Tail(@)]
  <2>1. PICK h : h = Head(tgt[t].stack)
    OBVIOUS
  <2>2. /\ tgt[t].stack # <<>> /\ EndCallback(t, w, h) /\ UNCHANGED <<scn, org, flight, req>>
    BY <1>4, <2>1 DEF CallbackDone
  <2>3. tgt[t] \in Target /\ tgt[t].stack \in Seq(Request)
    BY <1>1, TargetFields
  <2>4. Tail(tgt[t].stack) \in Seq(Request) /\ h \in Request
    BY <2>1, <2>2, <2>3
  <2>5. w \in Target
    BY <2>3, <2>4, TargetTypes
  <2>6. w.list = tgt[t].list /\ w.stack = Tail(tgt[t].stack)
    BY <2>3 DEF Target
  <2>7. CallOf' = CallOf
    BY <2>2, NoOriginEffect
  <2> HIDE DEF w
  <2>8. PICK a : a = [type |-> h.type, src |-> t, dst |-> h.src]
    OBVIOUS
  <2>9. a \in Answer /\ a.type = h.type /\ a.src = t /\ a.dst = h.src
    <3>1. h.type \in {"LOCK", "UNLOCK", "FLUSH"} /\ h.src \in Rank
      BY <2>4, RequestFields
    <3> QED
      BY <2>8, <3>1 DEF Answer
  <2>10. StackOf[t] # <<>> /\ h = Head(StackOf[t])
    BY <2>1, <2>2 DEF StackOf
  <2>11. TokensOK(scn.n, req, ans \cup {a}, ListOf, [StackOf EXCEPT ![t] = Tail(@)], CallOf)
    BY <1>1, <2>9, <2>10, StackToAnswer
  <2>12. PICK R, L, S, C : /\ R = req /\ L = ListOf /\ S = [StackOf EXCEPT ![t] = Tail(@)]
                           /\ C = CallOf
    OBVIOUS
  <2>13. S = [StackOf EXCEPT ![t] = w.stack]
    BY <2>6, <2>12 DEF StackOf
  <2>14. /\ TokensOK(scn.n, R, ans \cup {a}, L, S, C) /\ req' = R /\ CallOf' = C /\ L = ListOf
         /\ scn' = scn
    BY <2>2, <2>7, <2>11, <2>12
  <2> QED
    BY <2>2, <2>4, <2>5, <2>6, <2>8, <2>13, <2>14, EndTokens
<1> QED
  BY <1>2, <1>3, <1>4

(* There are no tokens at first. *)
LEMMA TokenInit == Init => TokenInv
<1> SUFFICES ASSUME Init PROVE TokenInv
  OBVIOUS
<1>1. TypeOK
  BY OriginInit DEF OriginInv
<1>2. /\ \A p \in Rank : CallOf[p] = Idle /\ ListOf[p] = <<>> /\ StackOf[p] = <<>>
      /\ req = {} /\ ans = {}
  BY DEF Init, CallOf, ListOf, StackOf
<1>3. TokenTypes(req, ans, ListOf, StackOf, CallOf)
  <2>1. /\ \A p \in Rank : org[p].call \in Call
        /\ \A p \in Rank : tgt[p].list \in Seq(Request) /\ tgt[p].stack \in Seq(Request)
    BY <1>1, OriginFields, TargetFields DEF TypeOK
  <2> QED
    BY <1>1, <2>1 DEF TypeOK, TokenTypes, CallOf, ListOf, StackOf
<1>4. \A p \in Rank : Len(ListOf[p]) = 0 /\ Len(StackOf[p]) = 0
  BY <1>2
<1>5. RequestsOK(req, CallOf) /\ AnswersOK(ans, CallOf)
  BY <1>2 DEF RequestsOK, AnswersOK
<1>6. ListsOK(ListOf, CallOf) /\ StacksOK(StackOf, CallOf)
  BY <1>4 DEF ListsOK, StacksOK
<1>7. Apart(req, ans, ListOf, StackOf)
  BY <1>2, <1>4 DEF Apart, Asked, Answered, Within
<1>8. FlushesOK(scn.n, req, ans, StackOf, CallOf)
  BY <1>2 DEF FlushesOK, Idle
<1> QED
  BY <1>3, <1>5, <1>6, <1>7, <1>8 DEF TokenInv, TokensOK

(* Every step keeps the tokens in order. *)
LEMMA TokenStep == OriginInv /\ TokenInv /\ [Next]_vars => TokenInv'
<1> SUFFICES ASSUME OriginInv, TokenInv, [Next]_vars PROVE TokenInv'
  OBVIOUS
<1>1. Member \subseteq Rank /\ TypeOK
  BY MemberFacts DEF OriginInv
<1>2. ASSUME NEW p \in Member, ProgramStep(p) PROVE TokenInv'
  BY <1>1, <1>2, LockTokens, UnlockTokens, FlushTokens, OperationTokens DEF ProgramStep
<1>3. ASSUME NEW p \in Member, CallStep(p) PROVE TokenInv'
  BY <1>3, LockTokens, UnlockTokens, FlushTokens DEF CallStep
<1>4. ASSUME NEW p \in Member, CallbackDone(p) PROVE TokenInv'
  BY <1>1, <1>4, TargetTokens
<1>5. ASSUME NEW p \in Member, NEW t \in Member, CompletionStep(p, t) PROVE TokenInv'
  BY <1>1, <1>5, OperationTokens DEF CompletionStep
<1>6. ASSUME NEW p \in Member, NEW t \in Member, RequestStep(p, t) PROVE TokenInv'
  BY <1>1, <1>6, TargetTokens DEF RequestStep
<1>7. ASSUME UNCHANGED vars PROVE TokenInv'
  <2>1. CallOf' = CallOf /\ ListOf' = ListOf /\ StackOf' = StackOf
    BY <1>7, NoOriginEffect, NoTargetEffect DEF vars
  <2> QED
    BY <1>7, <2>1, TokensAfter DEF vars, TokenInv
<1> QED
  BY <1>2, <1>3, <1>4, <1>5, <1>6, <1>7 DEF Next

(* In every reachable state the requests, queued requests, waiting callbacks   *)
(* and answers are those the waiting processes account for.                    *)
THEOREM TokenInvHolds == Spec => [](OriginInv /\ TokenInv)
<1>1. Init => OriginInv /\ TokenInv
  BY OriginInit, TokenInit
<1>2. (OriginInv /\ TokenInv) /\ [Next]_vars => (OriginInv /\ TokenInv)'
  BY OriginStep, TokenStep
<1> QED
  BY <1>1, <1>2, PTL DEF Spec

-----------------------------------------------------------------------------
(***************************************************************************)
(* Proofs about the locks of RmaPassive, lock_cnt, lock_exclusive and       *)
(* lock_list of a window against the processes that hold its lock, and      *)
(* about its operations: what an origin has counted, what is on its way and *)
(* what the target has counted of it, and with the locks, that exclusive    *)
(* locks exclude.                                                           *)
(***************************************************************************)

(* What a step does to the lock of one window *)

UnlockAnswer(t, p) == [type |-> "UNLOCK", src |-> t, dst |-> p]

(* p holds the lock of t, and asked for an exclusive one. *)
Holds(p, t) ==
    /\ org[p].remote[t] # "UNLOCKED" \/ LockAnswer(t, p) \in ans
    /\ UnlockAnswer(t, p) \notin ans
Exclusive(p, t) ==
    (org[p].remote[t] # "UNLOCKED" /\ org[p].mode[t])
      \/ (org[p].remote[t] = "UNLOCKED" /\ org[p].call.excl)

(* The other holders of the lock of t stay what they are. *)
HoldersKept(t, p) ==
    \A q \in Rank : q # p =>
        /\ Holds(q, t) <=> Holds(q, t)'
        /\ Holds(q, t) => (Exclusive(q, t) <=> Exclusive(q, t)')

(* The lock of t is left alone. *)
Kept(t) ==
    /\ tgt'[t].cnt = tgt[t].cnt /\ tgt'[t].excl = tgt[t].excl /\ tgt'[t].list = tgt[t].list
    /\ \A q \in Rank : /\ Holds(q, t) <=> Holds(q, t)'
                       /\ Holds(q, t) => (Exclusive(q, t) <=> Exclusive(q, t)')

(* p takes the lock of t. *)
Gained(t, p, x) ==
    /\ tgt[t].cnt = 0 \/ (~tgt[t].excl /\ ~x)
    /\ tgt'[t].cnt = tgt[t].cnt + 1 /\ tgt'[t].excl = x /\ tgt'[t].list = tgt[t].list
    /\ ~Holds(p, t) /\ Holds(p, t)' /\ (Exclusive(p, t)' <=> x)
    /\ HoldersKept(t, p)

(* The request m is put into lock_list of t. *)
Queued(t, m) ==
    /\ m \in req /\ m \in Request /\ ~(tgt[t].cnt = 0 \/ (~tgt[t].excl /\ ~m.excl))
    /\ tgt'[t].cnt = tgt[t].cnt /\ tgt'[t].excl = tgt[t].excl
    /\ tgt'[t].list = Append(tgt[t].list, m)
    /\ \A q \in Rank : /\ Holds(q, t) <=> Holds(q, t)'
                       /\ Holds(q, t) => (Exclusive(q, t) <=> Exclusive(q, t)')

(* p gives up the lock of t; h, the first in lock_list, gets it.              *)
Released(t, p) ==
    /\ GivenUp(tgt[t], tgt'[t])
    /\ Holds(p, t) /\ ~Holds(p, t)'
    /\ HoldersKept(t, p)
Passed(t, p, h) ==
    /\ HandedOn(tgt[t], tgt'[t]) /\ h # p
    /\ Holds(p, t) /\ ~Holds(p, t)'
    /\ ~Holds(h, t) /\ Holds(h, t)' /\ (Exclusive(h, t)' <=> Head(tgt[t].list).excl)
    /\ \A q \in Rank : q # p /\ q # h =>
          /\ Holds(q, t) <=> Holds(q, t)'
          /\ Holds(q, t) => (Exclusive(q, t) <=> Exclusive(q, t)')

LockMoves(t) ==
    \/ Kept(t)
    \/ \E p \in Rank, x \in BOOLEAN : Gained(t, p, x)
    \/ \E m : Queued(t, m)
    \/ \E p \in Rank : Released(t, p)
    \/ \E p, h \in Rank : Passed(t, p, h)

(* Whoever has the answer to a lock request, or to an unlock request, waits    *)
(* for it.                                                                     *)
LEMMA AnswerAwaited ==
    ASSUME TypeOK, TokenInv, NEW p \in Rank, NEW t \in Rank
    PROVE  /\ LockAnswer(t, p) \in ans => org[p].call.op = "lockWait" /\ org[p].call.dest = t
           /\ UnlockAnswer(t, p) \in ans =>
                 org[p].call.op = "unlockWait" /\ org[p].call.dest = t /\ t # p
<1>1. CallOf[p] = org[p].call
  BY DEF CallOf
<1>2. \A a \in ans : Awaits(CallOf[a.dst], a.dst, a.src, a.type)
  BY DEF TokenInv, TokensOK, AnswersOK
<1>3. ASSUME LockAnswer(t, p) \in ans
      PROVE  org[p].call.op = "lockWait" /\ org[p].call.dest = t
  <2>1. LockAnswer(t, p).type = "LOCK" /\ LockAnswer(t, p).src = t /\ LockAnswer(t, p).dst = p
    BY DEF LockAnswer
  <2> QED
    BY <1>1, <1>2, <1>3, <2>1 DEF Awaits
<1>4. ASSUME UnlockAnswer(t, p) \in ans
      PROVE  org[p].call.op = "unlockWait" /\ org[p].call.dest = t /\ t # p
  <2>1. /\ UnlockAnswer(t, p).type = "UNLOCK" /\ UnlockAnswer(t, p).src = t
        /\ UnlockAnswer(t, p).dst = p
    BY DEF UnlockAnswer
  <2> QED
    BY <1>1, <1>2, <1>4, <2>1 DEF Awaits
<1> QED
  BY <1>3, <1>4

(* A step that changes neither lock states nor answers to lock and unlock, and *)
(* leaves the calls that wait for a lock alone.                                *)
LEMMA KeptWhen ==
    ASSUME TypeOK, TokenInv, NEW t \in Rank,
           \A q \in Rank : /\ org'[q].remote[t] = org[q].remote[t]
                           /\ org'[q].mode[t] = org[q].mode[t]
                           /\ org[q].call.op = "lockWait" => org'[q].call = org[q].call
                           /\ LockAnswer(t, q) \in ans' <=> LockAnswer(t, q) \in ans
                           /\ UnlockAnswer(t, q) \in ans' <=> UnlockAnswer(t, q) \in ans
    PROVE  \A q \in Rank : /\ Holds(q, t) <=> Holds(q, t)'
                           /\ Holds(q, t) => (Exclusive(q, t) <=> Exclusive(q, t)')
BY AnswerAwaited DEF Holds, Exclusive

-----------------------------------------------------------------------------
(* The invariant of the lock of one window *)

HoldersOf(t) == {p \in Rank : Holds(p, t)}

(* lock_cnt counts the holders, nobody waits for a free lock, an exclusive     *)
(* lock has one holder, and lock_exclusive is what the holders asked for.      *)
LockOK(t) ==
    /\ tgt[t].cnt = Cardinality(HoldersOf(t))
    /\ tgt[t].list # <<>> => tgt[t].cnt > 0
    /\ tgt[t].excl => tgt[t].cnt <= 1
    /\ \A p \in Rank : Holds(p, t) => (Exclusive(p, t) <=> tgt[t].excl)

LockInv == \A t \in Rank : LockOK(t)

(* Adding or taking away one rank. *)
LEMMA OneMore ==
    ASSUME NEW S, S \subseteq Rank, NEW T, T \subseteq Rank, NEW p \in Rank, p \notin S, p \in T,
           \A q \in Rank : q # p => (q \in S <=> q \in T)
    PROVE  Cardinality(T) = Cardinality(S) + 1
<1>1. T = S \cup {p}
  OBVIOUS
<1>2. IsFiniteSet(S)
  BY RanksFinite
<1> QED
  BY <1>1, <1>2, FS_AddElement

(* The number of holders is a natural number; a holder makes it positive, and  *)
(* the only one if it is one.                                                  *)
LEMMA HolderCount ==
    ASSUME NEW t \in Rank
    PROVE  /\ Cardinality(HoldersOf(t)) \in Nat
           /\ \A p \in Rank : Holds(p, t) => Cardinality(HoldersOf(t)) > 0
           /\ \A p, q \in Rank :
                 Holds(p, t) /\ Holds(q, t) /\ Cardinality(HoldersOf(t)) <= 1 => p = q
<1>1. HoldersOf(t) \subseteq Rank /\ IsFiniteSet(HoldersOf(t)) /\ Cardinality(HoldersOf(t)) \in Nat
  <2>1. HoldersOf(t) \subseteq Rank
    BY DEF HoldersOf
  <2> QED
    BY <2>1, RanksFinite
<1>2. \A p \in Rank : Holds(p, t) => p \in HoldersOf(t)
  BY DEF HoldersOf
<1>3. \A p \in Rank : Holds(p, t) => Cardinality(HoldersOf(t)) > 0
  BY <1>1, <1>2, FS_EmptySet
<1>4. ASSUME NEW p \in Rank, NEW q \in Rank, Holds(p, t), Holds(q, t),
             Cardinality(HoldersOf(t)) <= 1, p # q
      PROVE  FALSE
  <2>1. {p, q} \subseteq HoldersOf(t)
    BY <1>2, <1>4
  <2>2. Cardinality({p}) = 1 /\ Cardinality({p, q}) = Cardinality({p}) + 1
    <3>1. \A r \in Rank : r # q => (r \in {p} <=> r \in {p, q})
      OBVIOUS
    <3> QED
      BY <1>4, <3>1, OneMore, FS_Singleton, ZenonT(60)
  <2> QED
    BY <1>1, <1>4, <2>1, <2>2, FS_Subset
<1> QED
  BY <1>1, <1>3, <1>4

(* Every move keeps the invariant. *)
LEMMA MoveKeepsLock ==
    ASSUME TypeOK, TypeOK', NEW t \in Rank, LockOK(t), LockMoves(t)
    PROVE  LockOK(t)'
<1> DEFINE w == tgt[t]
           v == tgt'[t]
           H == HoldersOf(t)
           G == HoldersOf(t)'
<1>1. w \in Target /\ v \in Target
  BY DEF TypeOK
<1>2. /\ w.cnt \in Int /\ v.cnt \in Int /\ w.excl \in BOOLEAN /\ v.excl \in BOOLEAN
      /\ w.list \in Seq(Request) /\ v.list \in Seq(Request)
  BY <1>1, TargetFields
<1>3. /\ H \subseteq Rank /\ G \subseteq Rank
      /\ \A p \in Rank : (p \in H <=> Holds(p, t)) /\ (p \in G <=> Holds(p, t)')
  BY DEF HoldersOf
<1>4. /\ Cardinality(H) \in Nat
      /\ \A p \in Rank : Holds(p, t) => Cardinality(H) > 0
      /\ \A p, q \in Rank : Holds(p, t) /\ Holds(q, t) /\ Cardinality(H) <= 1 => p = q
  BY HolderCount
<1>5. /\ w.cnt = Cardinality(H)
      /\ \A p \in Rank : Holds(p, t) => (Exclusive(p, t) <=> w.excl)
  BY DEF LockOK
<1>5a. w.list # <<>> => w.cnt > 0
  BY DEF LockOK
<1>5b. w.excl => w.cnt <= 1
  BY DEF LockOK
<1> HIDE DEF w, v, H, G
<1> SUFFICES /\ v.cnt = Cardinality(G)
             /\ v.list # <<>> => v.cnt > 0
             /\ v.excl => v.cnt <= 1
             /\ \A p \in Rank : Holds(p, t)' => (Exclusive(p, t)' <=> v.excl)
  BY DEF LockOK, v, G
<1>6. CASE Kept(t)
  <2>1. /\ v.cnt = w.cnt /\ v.excl = w.excl /\ v.list = w.list
        /\ \A q \in Rank : /\ Holds(q, t) <=> Holds(q, t)'
                           /\ Holds(q, t) => (Exclusive(q, t) <=> Exclusive(q, t)')
    BY <1>6 DEF Kept, v, w
  <2>2. G = H
    BY <1>3, <2>1
  <2> QED
    BY <1>5, <1>5a, <1>5b, <2>1, <2>2
<1>7. ASSUME NEW p \in Rank, NEW x \in BOOLEAN, Gained(t, p, x)
      PROVE  /\ v.cnt = Cardinality(G)
             /\ v.list # <<>> => v.cnt > 0
             /\ v.excl => v.cnt <= 1
             /\ \A q \in Rank : Holds(q, t)' => (Exclusive(q, t)' <=> v.excl)
  <2>1. /\ w.cnt = 0 \/ (~w.excl /\ ~x)
        /\ v.cnt = w.cnt + 1 /\ v.excl = x /\ v.list = w.list
        /\ ~Holds(p, t) /\ Holds(p, t)' /\ (Exclusive(p, t)' <=> x)
    BY <1>7 DEF Gained, v, w
  <2>2. \A q \in Rank : q # p => /\ Holds(q, t) <=> Holds(q, t)'
                                 /\ Holds(q, t) => (Exclusive(q, t) <=> Exclusive(q, t)')
    BY <1>7 DEF Gained, HoldersKept
  <2>3. Cardinality(G) = Cardinality(H) + 1
    BY <1>3, <2>1, <2>2, OneMore
  <2>4. \A q \in Rank : Holds(q, t)' => (Exclusive(q, t)' <=> v.excl)
    BY <1>2, <1>4, <1>5, <2>1, <2>2
  <2> QED
    BY <1>2, <1>4, <1>5, <2>1, <2>3, <2>4
<1>8. ASSUME NEW m, Queued(t, m)
      PROVE  /\ v.cnt = Cardinality(G)
             /\ v.list # <<>> => v.cnt > 0
             /\ v.excl => v.cnt <= 1
             /\ \A q \in Rank : Holds(q, t)' => (Exclusive(q, t)' <=> v.excl)
  <2>1. /\ w.cnt # 0 /\ v.cnt = w.cnt /\ v.excl = w.excl
        /\ \A q \in Rank : /\ Holds(q, t) <=> Holds(q, t)'
                           /\ Holds(q, t) => (Exclusive(q, t) <=> Exclusive(q, t)')
    BY <1>8 DEF Queued, v, w
  <2>2. G = H
    BY <1>3, <2>1
  <2> QED
    BY <1>2, <1>4, <1>5, <1>5b, <2>1, <2>2
<1>9. ASSUME NEW p \in Rank, Released(t, p)
      PROVE  /\ v.cnt = Cardinality(G)
             /\ v.list # <<>> => v.cnt > 0
             /\ v.excl => v.cnt <= 1
             /\ \A q \in Rank : Holds(q, t)' => (Exclusive(q, t)' <=> v.excl)
  <2>1. /\ w.list # <<>> => ~(w.cnt - 1 = 0)
        /\ v.cnt = w.cnt - 1 /\ v.excl = w.excl /\ v.list = w.list
        /\ Holds(p, t) /\ ~Holds(p, t)'
    BY <1>9 DEF Released, GivenUp, v, w
  <2>2. \A q \in Rank : q # p => /\ Holds(q, t) <=> Holds(q, t)'
                                 /\ Holds(q, t) => (Exclusive(q, t) <=> Exclusive(q, t)')
    BY <1>9 DEF Released, HoldersKept
  <2>3. Cardinality(H) = Cardinality(G) + 1
    BY <1>3, <2>1, <2>2, OneMore
  <2>4. \A q \in Rank : Holds(q, t)' => (Exclusive(q, t)' <=> v.excl)
    BY <1>5, <2>1, <2>2
  <2>5. Cardinality(G) \in Nat
    BY <1>3, RanksFinite
  <2> QED
    BY <1>2, <1>4, <1>5, <1>5a, <1>5b, <2>1, <2>3, <2>4, <2>5
<1>10. ASSUME NEW p \in Rank, NEW h \in Rank, Passed(t, p, h)
      PROVE  /\ v.cnt = Cardinality(G)
             /\ v.list # <<>> => v.cnt > 0
             /\ v.excl => v.cnt <= 1
             /\ \A q \in Rank : Holds(q, t)' => (Exclusive(q, t)' <=> v.excl)
  <2> DEFINE x == Head(w.list).excl
             M == H \ {p}
  <2>1. /\ w.list # <<>> /\ (w.cnt - 1 = 0 \/ (~w.excl /\ ~x))
        /\ v.cnt = w.cnt /\ v.excl = x /\ h # p
        /\ Holds(p, t) /\ ~Holds(p, t)' /\ ~Holds(h, t) /\ Holds(h, t)'
        /\ (Exclusive(h, t)' <=> x)
    BY <1>10 DEF Passed, HandedOn, v, w
  <2>2. \A q \in Rank : q # p /\ q # h =>
            /\ Holds(q, t) <=> Holds(q, t)'
            /\ Holds(q, t) => (Exclusive(q, t) <=> Exclusive(q, t)')
    BY <1>10 DEF Passed
  <2>3. /\ M \subseteq Rank /\ p \in H /\ p \notin M /\ h \notin M
        /\ \A q \in Rank : q # p => (q \in M <=> q \in H)
    BY <1>3, <2>1
  <2>4. Cardinality(H) = Cardinality(M) + 1
    BY <1>3, <2>3, OneMore
  <2>5. h \in G /\ \A q \in Rank : q # h => (q \in M <=> q \in G)
    BY <1>3, <2>1, <2>2, <2>3
  <2>6. Cardinality(G) = Cardinality(M) + 1
    BY <1>3, <2>3, <2>5, OneMore
  <2>7. Cardinality(M) \in Nat
    BY <2>3, RanksFinite
  <2> HIDE DEF x, M
  <2>8. x \in BOOLEAN
    BY <1>2, <2>1
  <2>9. ASSUME NEW q \in Rank, Holds(q, t)' PROVE Exclusive(q, t)' <=> v.excl
    <3>1. CASE q = h
      BY <2>1, <3>1
    <3>2. CASE q # h
      <4>1. q # p /\ Holds(q, t) /\ (Exclusive(q, t)' <=> Exclusive(q, t))
        BY <2>1, <2>2, <2>9, <3>2
      <4>2. w.cnt - 1 # 0
        BY <1>2, <1>4, <1>5, <2>1, <4>1
      <4> QED
        BY <1>5, <2>1, <4>1, <4>2
    <3> QED
      BY <3>1, <3>2
  <2>10. v.excl => v.cnt <= 1
    BY <1>2, <2>1, <2>8
  <2> QED
    BY <1>2, <1>4, <1>5, <2>1, <2>4, <2>6, <2>7, <2>9, <2>10
<1> QED
  BY <1>6, <1>7, <1>8, <1>9, <1>10 DEF LockMoves

-----------------------------------------------------------------------------
(* The locks along the steps *)

(* The lock fields of a window and the answers of one that a step may change.  *)
SameLock(t) ==
    tgt'[t].cnt = tgt[t].cnt /\ tgt'[t].excl = tgt[t].excl /\ tgt'[t].list = tgt[t].list
SameAnswers(t) ==
    \A q \in Rank : /\ LockAnswer(t, q) \in ans' <=> LockAnswer(t, q) \in ans
                    /\ UnlockAnswer(t, q) \in ans' <=> UnlockAnswer(t, q) \in ans
SameOrigins(t) ==
    \A q \in Rank : /\ org'[q].remote[t] = org[q].remote[t]
                    /\ org'[q].mode[t] = org[q].mode[t]
                    /\ org[q].call.op = "lockWait" => org'[q].call = org[q].call

(* A step that changes nothing of the lock of t. *)
LEMMA KeptBy ==
    ASSUME TypeOK, TokenInv, NEW t \in Rank, SameLock(t), SameAnswers(t), SameOrigins(t)
    PROVE  Kept(t)
<1>1. \A q \in Rank : /\ org'[q].remote[t] = org[q].remote[t]
                      /\ org'[q].mode[t] = org[q].mode[t]
                      /\ org[q].call.op = "lockWait" => org'[q].call = org[q].call
                      /\ LockAnswer(t, q) \in ans' <=> LockAnswer(t, q) \in ans
                      /\ UnlockAnswer(t, q) \in ans' <=> UnlockAnswer(t, q) \in ans
  BY DEF SameAnswers, SameOrigins
<1>2. \A q \in Rank : /\ Holds(q, t) <=> Holds(q, t)'
                      /\ Holds(q, t) => (Exclusive(q, t) <=> Exclusive(q, t)')
  BY <1>1, KeptWhen
<1> QED
  BY <1>2 DEF Kept, SameLock

(* A call that does not end with a lock leaves the locks alone. *)
LEMMA QuietLocks ==
    ASSUME TypeOK, TokenInv, NEW p \in Rank, NEW c \in Call,
           org' = [org EXCEPT ![p].call = c], org[p].call.op # "lockWait",
           UNCHANGED <<tgt, ans>>
    PROVE  \A t \in Rank : Kept(t)
<1>1. \A q \in Rank : org'[q].remote = org[q].remote /\ org'[q].mode = org[q].mode
  BY CallEffect
<1>2. \A q \in Rank : q # p => org'[q] = org[q]
  BY CallEffect
<1>3. \A t \in Rank : SameOrigins(t)
  BY <1>1, <1>2 DEF SameOrigins
<1>4. \A t \in Rank : SameLock(t) /\ SameAnswers(t)
  BY DEF SameLock, SameAnswers
<1> QED
  BY <1>3, <1>4, KeptBy

(* A step that changes no origin, and of the answers only those to flush. *)
LEMMA FlushAnswers ==
    ASSUME NEW a, a.type = "FLUSH", ans' = ans \cup {a} \/ ans' = ans \ {a}
    PROVE  \A t \in Rank : SameAnswers(t)
<1>1. \A t, q : LockAnswer(t, q) # a /\ UnlockAnswer(t, q) # a
  BY DEF LockAnswer, UnlockAnswer
<1> QED
  BY <1>1 DEF SameAnswers

(* The record of an origin that has got a lock. *)
LEMMA LockRecord ==
    ASSUME TypeOK, NEW d \in Rank, NEW x \in BOOLEAN, NEW all \in BOOLEAN, NEW h \in Origin,
           NEW o, o = HasLock(h, d, x, all)
    PROVE  /\ o \in Origin /\ o.call \in Call /\ o.call.op \in {"lock", "none"}
           /\ o.remote[d] # "UNLOCKED" /\ o.mode[d] = x
           /\ \A t \in Rank : t # d => o.remote[t] = h.remote[t] /\ o.mode[t] = h.mode[t]
           /\ o.puts = h.puts /\ o.pend = h.pend /\ o.accs = h.accs /\ o.accFlag = h.accFlag
<1>1. /\ o \in Origin
      /\ \E r \in {"LOCKED", "LOCKED_ALL"} : o.remote = [h.remote EXCEPT ![d] = r]
      /\ o.mode[d] = x /\ \A t \in Rank \ {d} : o.mode[t] = h.mode[t]
      /\ o.call \in Call /\ o.call.op \in {"lock", "none"}
      /\ o.puts = h.puts /\ o.pend = h.pend /\ o.accs = h.accs /\ o.accFlag = h.accFlag
  BY HasLockFacts
<1>2. h.remote \in [Rank -> LockStates]
  BY OriginFields
<1> QED
  BY <1>1, <1>2

(* MPID_Win_lock up to its wait. *)
LEMMA EnterLockMoves ==
    ASSUME TypeOK, TokenInv, NEW p \in Rank, NEW d \in Rank, NEW x \in BOOLEAN,
           NEW all \in BOOLEAN, org[p].call.op \notin Waiting, org[p].remote[d] = "UNLOCKED",
           EnterLock(p, d, x, all)
    PROVE  \A t \in Rank : LockMoves(t)
<1>1. CASE /\ d = p /\ MayLock(tgt[p], x) /\ tgt' = [tgt EXCEPT ![p] = Lock(@, x)]
           /\ org' = [org EXCEPT ![p] = HasLock(@, d, x, all)] /\ UNCHANGED <<scn, flight, req, ans>>
  <2>1. PICK z : z = Lock(tgt[p], x)
    OBVIOUS
  <2>2. tgt' = [tgt EXCEPT ![p] = z] /\ ans' = ans
    BY <1>1, <2>1
  <2>3. tgt[p] \in Target
    BY DEF TypeOK
  <2>4. z \in Target /\ z.cnt = tgt[p].cnt + 1 /\ z.excl = x /\ z.list = tgt[p].list
    BY <2>1, <2>3, LockFacts
  <2>5. tgt'[p] = z /\ \A u \in Rank : u # p => tgt'[u] = tgt[u]
    BY <2>2, <2>4, TargetEffect
  <2>6. org' = [org EXCEPT ![p] = HasLock(@, d, x, all)]
    BY <1>1
  <2>7. /\ org'[p].remote[d] # "UNLOCKED" /\ org'[p].mode[d] = x
        /\ \A t \in Rank : t # d => /\ org'[p].remote[t] = org[p].remote[t]
                                    /\ org'[p].mode[t] = org[p].mode[t]
        /\ \A q \in Rank : q # p => org'[q] = org[q]
    <3>1. PICK g : g = HasLock(org[p], d, x, all)
      OBVIOUS
    <3>2. org' = [org EXCEPT ![p] = g] /\ org[p] \in Origin
      BY <2>6, <3>1 DEF TypeOK
    <3>3. /\ g \in Origin /\ g.remote[d] # "UNLOCKED" /\ g.mode[d] = x
          /\ \A t \in Rank : t # d => g.remote[t] = org[p].remote[t] /\ g.mode[t] = org[p].mode[t]
      BY <3>1, <3>2, LockRecord
    <3>4. org'[p] = g /\ \A q \in Rank : q # p => org'[q] = org[q]
      BY <3>2, <3>3, OriginEffect
    <3> QED
      BY <3>3, <3>4
  <2>8. /\ \A t \in Rank : LockAnswer(t, p) \notin ans
        /\ UnlockAnswer(p, p) \notin ans
    BY AnswerAwaited DEF Waiting
  <2>9. Gained(p, p, x)
    <3>1. tgt[p].cnt = 0 \/ (~tgt[p].excl /\ ~x)
      BY <1>1 DEF MayLock
    <3>2. tgt'[p].cnt = tgt[p].cnt + 1 /\ tgt'[p].excl = x /\ tgt'[p].list = tgt[p].list
      BY <2>4, <2>5
    <3>3. ~Holds(p, p) /\ Holds(p, p)' /\ (Exclusive(p, p)' <=> x)
      BY <1>1, <2>2, <2>7, <2>8 DEF Holds, Exclusive
    <3>4. HoldersKept(p, p)
      BY <2>2, <2>7 DEF Holds, Exclusive, HoldersKept
    <3> QED
      BY <3>1, <3>2, <3>3, <3>4 DEF Gained
  <2>10. ASSUME NEW t \in Rank, t # p PROVE Kept(t)
    <3>1. SameLock(t)
      BY <2>5, <2>10 DEF SameLock
    <3>2. SameAnswers(t)
      BY <2>2 DEF SameAnswers
    <3>3. SameOrigins(t)
      BY <1>1, <2>7, <2>10 DEF SameOrigins, Waiting
    <3> QED
      BY <3>1, <3>2, <3>3, KeptBy
  <2> QED
    BY <2>9, <2>10 DEF LockMoves
<1>2. CASE /\ org' = [org EXCEPT ![p].call =
                        [op |-> "lockWait", dest |-> d, excl |-> x, all |-> all]]
           /\ UNCHANGED <<tgt, ans>>
  <2> DEFINE c == [op |-> "lockWait", dest |-> d, excl |-> x, all |-> all]
  <2>1. c \in Call
    BY DEF Call
  <2>2. org' = [org EXCEPT ![p].call = c] /\ UNCHANGED <<tgt, ans>> /\ org[p].call.op # "lockWait"
    BY <1>2 DEF Waiting
  <2> HIDE DEF c
  <2> QED
    BY <2>1, <2>2, QuietLocks DEF LockMoves
<1> QED
  BY <1>1, <1>2 DEF EnterLock

(* The steps of lock and lock_all. *)
LEMMA LockLocks ==
    ASSUME OriginInv, TokenInv, NEW p \in Member
    PROVE  /\ \A d \in scn.targets, x \in scn.modes :
                 Win_lock(p, d, x) => \A t \in Rank : LockMoves(t)
           /\ Win_lock_all(p) \/ LockAllNext(p) \/ LockAllRefused(p) \/ LockDone(p)
              => \A t \in Rank : LockMoves(t)
<1>1. /\ p \in Rank /\ scn.targets \subseteq Rank /\ scn.modes \subseteq BOOLEAN
      /\ 0 \in Rank /\ TypeOK /\ Rank \subseteq Nat
  BY MemberFacts DEF OriginInv
<1>2. /\ org[p] \in Origin /\ org[p].call \in Call /\ org[p].call.dest \in Rank
      /\ org[p].call.excl \in BOOLEAN /\ org[p].call.all \in BOOLEAN
  BY <1>1, OriginRecord, OriginFields, CallFields
<1>3. ASSUME NEW d \in scn.targets, NEW x \in scn.modes, Win_lock(p, d, x)
      PROVE  \A t \in Rank : LockMoves(t)
  <2>1. d \in Rank /\ x \in BOOLEAN /\ org[p].call.op \notin Waiting
    BY <1>1, <1>3 DEF Win_lock, Program, InCall, Waiting
  <2>2. EnterLock(p, d, x, FALSE) /\ \A t \in Rank : org[p].remote[t] # "UNLOCKED" => t < d
    BY <1>3 DEF Win_lock
  <2>3. org[p].remote[d] = "UNLOCKED"
    BY <1>1, <2>1, <2>2
  <2> QED
    BY <1>1, <2>1, <2>2, <2>3, EnterLockMoves
<1>4. ASSUME Win_lock_all(p) PROVE \A t \in Rank : LockMoves(t)
  <2> DEFINE c == [op |-> "lock", dest |-> 0, excl |-> FALSE, all |-> TRUE]
  <2>1. c \in Call
    BY <1>1 DEF Call
  <2>2. /\ org' = [org EXCEPT ![p].call = c] /\ UNCHANGED <<tgt, ans>>
        /\ org[p].call.op # "lockWait"
    BY <1>4 DEF Win_lock_all, Program, InCall
  <2> HIDE DEF c
  <2> QED
    BY <1>1, <2>1, <2>2, QuietLocks DEF LockMoves
<1>5. ASSUME LockAllNext(p) PROVE \A t \in Rank : LockMoves(t)
  <2>1. /\ org[p].call.op \notin Waiting /\ EnterLock(p, org[p].call.dest, FALSE, TRUE)
        /\ org[p].remote[org[p].call.dest] = "UNLOCKED"
    BY <1>5 DEF LockAllNext, InCall, Waiting
  <2> QED
    BY <1>1, <1>2, <2>1, EnterLockMoves
<1>6. ASSUME LockAllRefused(p) PROVE \A t \in Rank : LockMoves(t)
  <2>1. Idle \in Call
    BY <1>1 DEF Idle, Call
  <2>2. /\ org' = [org EXCEPT ![p].call = Idle] /\ UNCHANGED <<tgt, ans>>
        /\ org[p].call.op # "lockWait"
    BY <1>6 DEF LockAllRefused, InCall
  <2> QED
    BY <1>1, <2>1, <2>2, QuietLocks DEF LockMoves
<1>7. ASSUME LockDone(p) PROVE \A t \in Rank : LockMoves(t)
  <2>1. PICK d, x, all : d = org[p].call.dest /\ x = org[p].call.excl /\ all = org[p].call.all
    OBVIOUS
  <2>2. /\ org[p].call.op = "lockWait" /\ LockAnswer(d, p) \in ans
        /\ ans' = ans \ {LockAnswer(d, p)} /\ tgt' = tgt
        /\ org' = [org EXCEPT ![p] = HasLock(@, d, x, all)]
    BY <1>7, <2>1 DEF LockDone, InCall
  <2>3. d \in Rank /\ x \in BOOLEAN /\ all \in BOOLEAN /\ d = org[p].call.dest
    BY <1>2, <2>1
  <2>4. /\ org'[p].remote[d] # "UNLOCKED" /\ org'[p].mode[d] = x
        /\ \A t \in Rank : t # d => /\ org'[p].remote[t] = org[p].remote[t]
                                    /\ org'[p].mode[t] = org[p].mode[t]
        /\ \A q \in Rank : q # p => org'[q] = org[q]
    <3>1. PICK g : g = HasLock(org[p], d, x, all)
      OBVIOUS
    <3>2. org' = [org EXCEPT ![p] = g] /\ org[p] \in Origin
      BY <1>1, <2>2, <3>1 DEF TypeOK
    <3>3. /\ g \in Origin /\ g.remote[d] # "UNLOCKED" /\ g.mode[d] = x
          /\ \A t \in Rank : t # d => g.remote[t] = org[p].remote[t] /\ g.mode[t] = org[p].mode[t]
      BY <1>1, <2>3, <3>1, <3>2, LockRecord
    <3>4. org'[p] = g /\ \A q \in Rank : q # p => org'[q] = org[q]
      BY <1>1, <2>3, <3>2, <3>3, OriginEffect
    <3> QED
      BY <3>3, <3>4
  <2>5. org[p].remote[d] = "UNLOCKED"
    BY <1>1, <2>2, <2>3, OriginRecord DEF OriginOK
  <2>6. \A t, q \in Rank : /\ UnlockAnswer(t, q) \in ans' <=> UnlockAnswer(t, q) \in ans
                           /\ LockAnswer(t, q) \in ans' <=>
                                 LockAnswer(t, q) \in ans /\ ~(t = d /\ q = p)
    BY <2>2 DEF LockAnswer, UnlockAnswer
  <2>7. \A t \in Rank : /\ UnlockAnswer(t, p) \notin ans
                        /\ LockAnswer(t, p) \in ans => t = d
    BY <1>1, <2>2, <2>3, AnswerAwaited
  <2>8. ASSUME NEW t \in Rank
        PROVE  \A q \in Rank : /\ Holds(q, t) <=> Holds(q, t)'
                               /\ Holds(q, t) => (Exclusive(q, t) <=> Exclusive(q, t)')
    <3>1. ASSUME NEW q \in Rank, q # p
          PROVE  /\ Holds(q, t) <=> Holds(q, t)'
                 /\ Holds(q, t) => (Exclusive(q, t) <=> Exclusive(q, t)')
      BY <2>4, <2>6, <3>1 DEF Holds, Exclusive
    <3>2. CASE t = d
      <4>1. Holds(p, t) /\ Holds(p, t)'
        BY <1>1, <2>2, <2>4, <2>6, <2>7, <3>2 DEF Holds
      <4>2. (Exclusive(p, t) <=> x) /\ (Exclusive(p, t)' <=> x)
        BY <2>1, <2>4, <2>5, <3>2 DEF Exclusive
      <4> QED
        BY <3>1, <4>1, <4>2
    <3>3. CASE t # d
      <4>1. org'[p].remote[t] = org[p].remote[t] /\ org'[p].mode[t] = org[p].mode[t]
        BY <2>4, <3>3
      <4>2. /\ LockAnswer(t, p) \notin ans /\ LockAnswer(t, p) \notin ans'
            /\ UnlockAnswer(t, p) \notin ans /\ UnlockAnswer(t, p) \notin ans'
        BY <1>1, <2>6, <2>7, <3>3
      <4>3. /\ Holds(p, t) <=> Holds(p, t)'
            /\ Holds(p, t) => (Exclusive(p, t) <=> Exclusive(p, t)')
        BY <4>1, <4>2 DEF Holds, Exclusive
      <4> QED
        BY <3>1, <4>3
    <3> QED
      BY <3>2, <3>3
  <2>9. \A t \in Rank : Kept(t)
    BY <2>2, <2>8 DEF Kept
  <2> QED
    BY <2>9 DEF LockMoves
<1> QED
  BY <1>3, <1>4, <1>5, <1>6, <1>7

(* The first in lock_list waits for the lock, and has no answer yet. *)
LEMMA ListHead ==
    ASSUME OriginInv, TokenInv, NEW t \in Rank, tgt[t].list # <<>>,
           NEW h, h = Head(tgt[t].list).src
    PROVE  /\ h \in Rank /\ org[h].call.op = "lockWait" /\ org[h].call.dest = t
           /\ org[h].remote[t] = "UNLOCKED" /\ org[h].call.excl = Head(tgt[t].list).excl
           /\ LockAnswer(t, h) \notin ans /\ UnlockAnswer(t, h) \notin ans
           /\ ~Holds(h, t)
<1>1. TypeOK /\ tgt[t] \in Target /\ tgt[t].list \in Seq(Request)
  BY TargetFields DEF OriginInv, TypeOK
<1>2. /\ 1 \in 1..Len(tgt[t].list) /\ Head(tgt[t].list) = tgt[t].list[1]
      /\ Head(tgt[t].list) \in Request
  BY <1>1
<1>3. h \in Rank
  BY <1>2, RequestFields
<1>4. ListOf[t] = tgt[t].list /\ CallOf[h] = org[h].call
  BY <1>3 DEF ListOf, CallOf
<1>5. /\ Awaits(CallOf[h], h, t, "LOCK") /\ Head(tgt[t].list).excl = CallOf[h].excl
  BY <1>2, <1>4 DEF TokenInv, TokensOK, ListsOK
<1>6. org[h].call.op = "lockWait" /\ org[h].call.dest = t
  BY <1>4, <1>5 DEF Awaits
<1>7. org[h].remote[t] = "UNLOCKED"
  BY <1>3, <1>6, OriginRecord DEF OriginOK
<1>8. Within(ListOf[t], h)
  BY <1>2, <1>4 DEF Within
<1>9. ~Answered(ans, h, t)
  BY <1>3, <1>8 DEF TokenInv, TokensOK, Apart
<1>10. LockAnswer(t, h) \notin ans /\ UnlockAnswer(t, h) \notin ans
  BY <1>9 DEF Answered, LockAnswer, UnlockAnswer
<1> QED
  BY <1>3, <1>4, <1>5, <1>6, <1>7, <1>10 DEF Holds

(* The answers for t to others than p stay, but for one that the lock is       *)
(* handed to.                                                                  *)
AnswersBut(t, p) ==
    \A q \in Rank : q # p => /\ LockAnswer(t, q) \in ans' <=> LockAnswer(t, q) \in ans
                             /\ UnlockAnswer(t, q) \in ans' <=> UnlockAnswer(t, q) \in ans
AnswersAnd(t, p, h) ==
    \A q \in Rank : q # p => /\ LockAnswer(t, q) \in ans' <=> LockAnswer(t, q) \in ans \/ q = h
                             /\ UnlockAnswer(t, q) \in ans' <=> UnlockAnswer(t, q) \in ans

(* do_unlock of the window t, when p gives up its lock. *)
LEMMA UnlockMoves ==
    ASSUME OriginInv, TokenInv, NEW t \in Rank, NEW p \in Rank, Holds(p, t), ~Holds(p, t)',
           \A q \in Rank : q # p => org'[q] = org[q],
           \/ GivenUp(tgt[t], tgt'[t]) /\ AnswersBut(t, p)
           \/ HandedOn(tgt[t], tgt'[t]) /\ AnswersAnd(t, p, Head(tgt[t].list).src)
    PROVE  LockMoves(t)
<1>1. CASE GivenUp(tgt[t], tgt'[t]) /\ AnswersBut(t, p)
  <2>1. HoldersKept(t, p)
    BY <1>1 DEF HoldersKept, AnswersBut, Holds, Exclusive
  <2>2. Released(t, p)
    BY <1>1, <2>1 DEF Released
  <2> QED
    BY <2>2 DEF LockMoves
<1>2. CASE HandedOn(tgt[t], tgt'[t]) /\ AnswersAnd(t, p, Head(tgt[t].list).src)
  <2>1. PICK h : h = Head(tgt[t].list).src
    OBVIOUS
  <2>2. tgt[t].list # <<>>
    BY <1>2 DEF HandedOn
  <2>3. /\ h \in Rank /\ org[h].remote[t] = "UNLOCKED"
        /\ org[h].call.excl = Head(tgt[t].list).excl
        /\ UnlockAnswer(t, h) \notin ans /\ ~Holds(h, t)
    BY <2>1, <2>2, ListHead
  <2>4. h # p /\ org'[h] = org[h]
    BY <2>3
  <2>5. /\ LockAnswer(t, h) \in ans' /\ UnlockAnswer(t, h) \notin ans'
    BY <1>2, <2>1, <2>3, <2>4 DEF AnswersAnd
  <2>6. Holds(h, t)' /\ (Exclusive(h, t)' <=> Head(tgt[t].list).excl)
    BY <2>3, <2>4, <2>5 DEF Holds, Exclusive
  <2>7. \A q \in Rank : q # p /\ q # h =>
            /\ Holds(q, t) <=> Holds(q, t)'
            /\ Holds(q, t) => (Exclusive(q, t) <=> Exclusive(q, t)')
    BY <1>2, <2>1 DEF AnswersAnd, Holds, Exclusive
  <2>8. Passed(t, p, h)
    BY <1>2, <2>3, <2>4, <2>6, <2>7 DEF Passed
  <2> QED
    BY <2>3, <2>8 DEF LockMoves
<1> QED
  BY <1>1, <1>2

(* The answers after an unlock, for the window t that is unlocked and for the  *)
(* others.                                                                     *)
LEMMA WokenAnswers ==
    ASSUME NEW t \in Rank, NEW B, B \subseteq {UnlockAnswer(t, p) : p \in Rank},
           NEW p \in Rank, \A q \in Rank : UnlockAnswer(t, q) \in B => q = p
    PROVE  /\ ans' = ans \cup B => /\ AnswersBut(t, p)
                                   /\ \A u \in Rank : u # t => SameAnswers(u)
           /\ \A h \in Rank : ans' = (ans \cup B) \cup {LockAnswer(t, h)} =>
                 AnswersAnd(t, p, h) /\ \A u \in Rank : u # t => SameAnswers(u)
<1>1. \A u, q \in Rank : /\ LockAnswer(u, q) \notin B
                         /\ UnlockAnswer(u, q) \in B => u = t /\ q = p
  BY DEF LockAnswer, UnlockAnswer
<1>2. \A u, q, h \in Rank : /\ UnlockAnswer(u, q) # LockAnswer(t, h)
                            /\ LockAnswer(u, q) = LockAnswer(t, h) <=> u = t /\ q = h
  BY DEF LockAnswer, UnlockAnswer
<1> QED
  BY <1>1, <1>2 DEF AnswersBut, AnswersAnd, SameAnswers

(* MPID_Win_unlock of the own window. *)
LEMMA OwnUnlockMoves ==
    ASSUME OriginInv, TokenInv, NEW p \in Rank, NEW all \in BOOLEAN,
           org[p].remote[p] # "UNLOCKED", org[p].call.op \notin Waiting,
           tgt' = [tgt EXCEPT ![p] = DoUnlock(tgt[p])], ans' = ans \cup Woken(p, tgt[p]),
           org' = [org EXCEPT ![p] = HasUnlocked(org[p], p, all)]
    PROVE  \A t \in Rank : LockMoves(t)
<1>1. TypeOK /\ org[p] \in Origin /\ tgt[p] \in Target
  BY DEF OriginInv, TypeOK
<1>2. org[p].locks \in Nat \ {0}
  <2>1. PICK g : g = HasUnlocked(org[p], p, all)
    OBVIOUS
  <2> QED
    BY <1>1, <2>1, OriginRecord, UnlockKeepsOrigin, OriginFields
<1>3. PICK o : o = HasUnlocked(org[p], p, all)
  OBVIOUS
<1>4. org' = [org EXCEPT ![p] = o]
  BY <1>3
<1>5. /\ o \in Origin /\ o.remote[p] = "UNLOCKED" /\ o.mode = org[p].mode
      /\ \A t \in Rank : t # p => o.remote[t] = org[p].remote[t]
  BY <1>1, <1>2, <1>3, UnlockRecord
<1>6. org'[p] = o /\ \A q \in Rank : q # p => org'[q] = org[q]
  BY <1>1, <1>4, <1>5, OriginEffect
<1>7. PICK z : z = DoUnlock(tgt[p])
  OBVIOUS
<1>8. /\ z \in Target
      /\ \/ GivenUp(tgt[p], z) /\ Woken(p, tgt[p]) = {}
         \/ HandedOn(tgt[p], z) /\ Woken(p, tgt[p]) = {LockAnswer(p, Head(tgt[p].list).src)}
  BY <1>1, <1>7, DoUnlockFacts
<1>9. tgt' = [tgt EXCEPT ![p] = z]
  BY <1>7
<1>10. tgt'[p] = z /\ \A u \in Rank : u # p => tgt'[u] = tgt[u]
  BY <1>1, <1>8, <1>9, TargetEffect
<1>11. PICK B : B = {}
  OBVIOUS
<1>12. /\ B \subseteq {UnlockAnswer(p, q) : q \in Rank}
       /\ \A q \in Rank : UnlockAnswer(p, q) \in B => q = p
  BY <1>11
<1>13. LockAnswer(p, p) \notin ans /\ UnlockAnswer(p, p) \notin ans
  BY <1>1, AnswerAwaited DEF Waiting
<1>14. /\ \/ GivenUp(tgt[p], tgt'[p]) /\ AnswersBut(p, p)
          \/ HandedOn(tgt[p], tgt'[p]) /\ AnswersAnd(p, p, Head(tgt[p].list).src)
       /\ LockAnswer(p, p) \notin ans' /\ \A u \in Rank : u # p => SameAnswers(u)
  <2>1. CASE GivenUp(tgt[p], z) /\ Woken(p, tgt[p]) = {}
    <3>1. ans' = ans /\ ans' = ans \cup B
      BY <1>11, <2>1
    <3> QED
      BY <1>10, <1>12, <1>13, <2>1, <3>1, WokenAnswers
  <2>2. CASE HandedOn(tgt[p], z) /\ Woken(p, tgt[p]) = {LockAnswer(p, Head(tgt[p].list).src)}
    <3>1. PICK h : h = Head(tgt[p].list).src
      OBVIOUS
    <3>2. tgt[p].list # <<>>
      BY <2>2 DEF HandedOn
    <3>3. h \in Rank /\ org[h].call.op = "lockWait"
      BY <3>1, <3>2, ListHead
    <3>4. h # p
      BY <3>3 DEF Waiting
    <3>5. ans' = (ans \cup B) \cup {LockAnswer(p, h)}
      BY <1>11, <2>2, <3>1
    <3>6. AnswersAnd(p, p, h) /\ \A u \in Rank : u # p => SameAnswers(u)
      BY <1>12, <3>3, <3>5, WokenAnswers
    <3>7. LockAnswer(p, p) # LockAnswer(p, h)
      BY <3>4 DEF LockAnswer
    <3> QED
      BY <1>10, <1>11, <1>13, <2>2, <3>1, <3>5, <3>6, <3>7
  <2> QED
    BY <1>8, <2>1, <2>2
<1>15. Holds(p, p) /\ ~Holds(p, p)'
  BY <1>5, <1>6, <1>13, <1>14 DEF Holds
<1>16. LockMoves(p)
  BY <1>6, <1>14, <1>15, UnlockMoves
<1>17. ASSUME NEW t \in Rank, t # p PROVE Kept(t)
  <2>1. SameLock(t)
    BY <1>10, <1>17 DEF SameLock
  <2>2. SameAnswers(t)
    BY <1>14, <1>17
  <2>3. SameOrigins(t)
    BY <1>5, <1>6, <1>17 DEF SameOrigins, Waiting
  <2> QED
    BY <1>1, <2>1, <2>2, <2>3, KeptBy
<1> QED
  BY <1>16, <1>17 DEF LockMoves

(* The steps of unlock and unlock_all. *)
LEMMA UnlockLocks ==
    ASSUME OriginInv, TokenInv, NEW p \in Member
    PROVE  /\ \A d \in Member : Win_unlock(p, d) => \A t \in Rank : LockMoves(t)
           /\ \/ Win_unlock_all(p) \/ UnlockSend(p) \/ UnlockAllRefused(p) \/ UnlockDone(p)
              => \A t \in Rank : LockMoves(t)
<1>1. p \in Rank /\ Member \subseteq Rank /\ 0 \in Rank /\ TypeOK
  BY MemberFacts DEF OriginInv
<1>2. /\ org[p] \in Origin /\ org[p].call \in Call /\ org[p].call.dest \in Rank
      /\ org[p].call.all \in BOOLEAN /\ OriginOK(p, org[p])
  BY <1>1, OriginRecord, OriginFields, CallFields
<1>3. ASSUME NEW d \in Member, Win_unlock(p, d) PROVE \A t \in Rank : LockMoves(t)
  <2> DEFINE c == [op |-> "unlock", dest |-> d, excl |-> FALSE, all |-> FALSE]
  <2>1. c \in Call
    BY <1>1 DEF Call
  <2>2. /\ org' = [org EXCEPT ![p].call = c] /\ UNCHANGED <<tgt, ans>>
        /\ org[p].call.op # "lockWait"
    BY <1>3 DEF Win_unlock, Program, InCall
  <2> HIDE DEF c
  <2> QED
    BY <1>1, <2>1, <2>2, QuietLocks DEF LockMoves
<1>4. ASSUME Win_unlock_all(p) PROVE \A t \in Rank : LockMoves(t)
  <2> DEFINE c == [op |-> "unlock", dest |-> 0, excl |-> FALSE, all |-> TRUE]
  <2>1. c \in Call
    BY <1>1 DEF Call
  <2>2. /\ org' = [org EXCEPT ![p].call = c] /\ UNCHANGED <<tgt, ans>>
        /\ org[p].call.op # "lockWait"
    BY <1>4 DEF Win_unlock_all, Program, InCall
  <2> HIDE DEF c
  <2> QED
    BY <1>1, <2>1, <2>2, QuietLocks DEF LockMoves
<1>5. ASSUME UnlockAllRefused(p) PROVE \A t \in Rank : LockMoves(t)
  <2>1. Idle \in Call
    BY <1>1 DEF Idle, Call
  <2>2. /\ org' = [org EXCEPT ![p].call = Idle] /\ UNCHANGED <<tgt, ans>>
        /\ org[p].call.op # "lockWait"
    BY <1>5 DEF UnlockAllRefused, InCall
  <2> QED
    BY <1>1, <2>1, <2>2, QuietLocks DEF LockMoves
<1>6. ASSUME UnlockSend(p) PROVE \A t \in Rank : LockMoves(t)
  <2>1. PICK d \in Rank, all \in BOOLEAN : d = org[p].call.dest /\ all = org[p].call.all
    BY <1>2
  <2>2. /\ org[p].call.op = "unlock" /\ EnterUnlock(p, d, all)
        /\ org[p].remote[d] # "UNLOCKED"
    BY <1>2, <1>6, <2>1 DEF UnlockSend, InCall, OriginOK
  <2>3. CASE /\ d = p /\ tgt' = [tgt EXCEPT ![p] = DoUnlock(@)]
             /\ ans' = ans \cup Woken(p, tgt[p])
             /\ org' = [org EXCEPT ![p] = HasUnlocked(@, d, all)]
    <3>1. /\ org[p].remote[p] # "UNLOCKED" /\ org[p].call.op \notin Waiting
          /\ tgt' = [tgt EXCEPT ![p] = DoUnlock(tgt[p])] /\ ans' = ans \cup Woken(p, tgt[p])
          /\ org' = [org EXCEPT ![p] = HasUnlocked(org[p], p, all)]
      BY <2>2, <2>3 DEF Waiting
    <3> QED
      BY <1>1, <3>1, OwnUnlockMoves
  <2>4. CASE /\ org' = [org EXCEPT ![p].call =
                          [op |-> "unlockWait", dest |-> d, excl |-> FALSE, all |-> all]]
             /\ UNCHANGED <<scn, tgt, flight, ans>>
    <3> DEFINE c == [op |-> "unlockWait", dest |-> d, excl |-> FALSE, all |-> all]
    <3>1. c \in Call
      BY DEF Call
    <3>2. org' = [org EXCEPT ![p].call = c] /\ UNCHANGED <<tgt, ans>> /\ org[p].call.op # "lockWait"
      BY <2>2, <2>4
    <3> HIDE DEF c
    <3> QED
      BY <1>1, <3>1, <3>2, QuietLocks DEF LockMoves
  <2> QED
    BY <2>2, <2>3, <2>4 DEF EnterUnlock
<1>7. ASSUME UnlockDone(p) PROVE \A t \in Rank : LockMoves(t)
  <2>1. PICK d \in Rank, all \in BOOLEAN : d = org[p].call.dest /\ all = org[p].call.all
    BY <1>2
  <2>2. PICK h : h = [org[p] EXCEPT !.puts[d] = 0]
    OBVIOUS
  <2>3. /\ org[p].call.op = "unlockWait" /\ UnlockAnswer(d, p) \in ans
        /\ ans' = ans \ {UnlockAnswer(d, p)} /\ tgt' = tgt
        /\ org' = [org EXCEPT ![p] = HasUnlocked([org[p] EXCEPT !.puts[d] = 0], d, all)]
    BY <1>7, <2>1 DEF UnlockDone, InCall, UnlockAnswer
  <2>4. h \in Origin /\ h.locks = org[p].locks /\ h.remote = org[p].remote /\ h.mode = org[p].mode
    <3>1. h \in Origin
      BY <1>2, <2>2, OriginTypes
    <3> QED
      BY <1>2, <2>2, <3>1 DEF Origin
  <2>5. org[p].locks \in Nat \ {0}
    <3>1. org[p].remote[d] # "UNLOCKED"
      BY <1>2, <2>1, <2>3 DEF OriginOK
    <3>2. PICK g : g = HasUnlocked(org[p], d, all)
      OBVIOUS
    <3> QED
      BY <1>1, <1>2, <3>1, <3>2, UnlockKeepsOrigin, OriginFields
  <2>6. PICK o : o = HasUnlocked(h, d, all)
    OBVIOUS
  <2>7. org' = [org EXCEPT ![p] = o]
    BY <2>2, <2>3, <2>6
  <2>8. /\ o \in Origin /\ o.remote[d] = "UNLOCKED" /\ o.mode = h.mode
        /\ \A t \in Rank : t # d => o.remote[t] = h.remote[t]
    BY <1>1, <2>4, <2>5, <2>6, UnlockRecord
  <2>9. org'[p] = o /\ \A q \in Rank : q # p => org'[q] = org[q]
    BY <1>1, <2>7, <2>8, OriginEffect
  <2>10. \A t, q \in Rank : /\ LockAnswer(t, q) \in ans' <=> LockAnswer(t, q) \in ans
                            /\ UnlockAnswer(t, q) \in ans' <=>
                                  UnlockAnswer(t, q) \in ans /\ ~(t = d /\ q = p)
    BY <2>3 DEF LockAnswer, UnlockAnswer
  <2>11. \A t \in Rank : LockAnswer(t, p) \notin ans
    BY <1>1, <2>3, AnswerAwaited
  <2>12. ASSUME NEW t \in Rank, t # d PROVE Kept(t)
    <3>1. SameLock(t) /\ SameAnswers(t)
      BY <2>3, <2>10, <2>12 DEF SameLock, SameAnswers
    <3>2. SameOrigins(t)
      BY <2>3, <2>4, <2>8, <2>9, <2>12 DEF SameOrigins
    <3> QED
      BY <1>1, <3>1, <3>2, KeptBy
  <2>13. Kept(d)
    <3>1. ~Holds(p, d) /\ ~Holds(p, d)'
      BY <1>1, <2>3, <2>8, <2>9, <2>10, <2>11 DEF Holds
    <3>2. \A q \in Rank : q # p =>
              /\ Holds(q, d) <=> Holds(q, d)'
              /\ Holds(q, d) => (Exclusive(q, d) <=> Exclusive(q, d)')
      BY <2>9, <2>10 DEF Holds, Exclusive
    <3> QED
      BY <2>3, <3>1, <3>2 DEF Kept
  <2> QED
    BY <2>12, <2>13 DEF LockMoves
<1> QED
  BY <1>3, <1>4, <1>5, <1>6, <1>7

(* A flush that goes on with an answer leaves the locks alone. *)
LEMMA FlushedLocks ==
    ASSUME TypeOK, TokenInv, NEW p \in Rank, NEW d \in Rank, NEW c \in Call,
           org' = [org EXCEPT ![p] = HasFlushed(org[p], d, c)], org[p].call.op # "lockWait",
           NEW a, a.type = "FLUSH", ans' = ans \ {a}, tgt' = tgt
    PROVE  \A t \in Rank : LockMoves(t)
<1>1. PICK o : o = HasFlushed(org[p], d, c)
  OBVIOUS
<1>2. org' = [org EXCEPT ![p] = o] /\ org[p] \in Origin
  BY <1>1 DEF TypeOK
<1>3. o \in Origin /\ o.remote = org[p].remote /\ o.mode = org[p].mode
  BY <1>1, <1>2, FlushRecord
<1>4. org'[p] = o /\ \A q \in Rank : q # p => org'[q] = org[q]
  BY <1>2, <1>3, OriginEffect
<1>5. \A t \in Rank : SameAnswers(t)
  BY FlushAnswers
<1>6. \A t \in Rank : SameOrigins(t) /\ SameLock(t)
  BY <1>3, <1>4 DEF SameOrigins, SameLock
<1> QED
  BY <1>5, <1>6, KeptBy DEF LockMoves

(* The steps of flush and flush_all. *)
LEMMA FlushLocks ==
    ASSUME OriginInv, TokenInv, NEW p \in Member
    PROVE  /\ \A d \in Member : Win_flush(p, d) => \A t \in Rank : LockMoves(t)
           /\ \/ FlushSend(p) \/ FlushDone(p) \/ Win_flush_all(p) \/ FlushAllSend(p)
              \/ FlushAllDone(p)
              => \A t \in Rank : LockMoves(t)
<1>1. /\ p \in Rank /\ Member \subseteq Rank /\ 0 \in Rank /\ TypeOK /\ Rank \subseteq Nat
  BY MemberFacts DEF OriginInv
<1>2. org[p] \in Origin /\ org[p].call \in Call /\ org[p].call.dest \in Rank
  BY <1>1, OriginRecord, OriginFields, CallFields
<1>3. ASSUME NEW c \in Call, org' = [org EXCEPT ![p].call = c], UNCHANGED <<tgt, ans>>,
             org[p].call.op # "lockWait"
      PROVE  \A t \in Rank : LockMoves(t)
  BY <1>1, <1>3, QuietLocks DEF LockMoves
<1>4. ASSUME NEW d \in Member, Win_flush(p, d) PROVE \A t \in Rank : LockMoves(t)
  <2> DEFINE c == [op |-> "flush", dest |-> d, excl |-> FALSE, all |-> FALSE]
  <2>1. c \in Call
    BY <1>1 DEF Call
  <2>2. /\ org' = [org EXCEPT ![p].call = c] /\ UNCHANGED <<tgt, ans>>
        /\ org[p].call.op # "lockWait"
    BY <1>4 DEF Win_flush, Program, InCall
  <2> HIDE DEF c
  <2> QED
    BY <1>3, <2>1, <2>2
<1>5. ASSUME Win_flush_all(p) PROVE \A t \in Rank : LockMoves(t)
  <2> DEFINE c == [op |-> "flushAll", dest |-> 0, excl |-> FALSE, all |-> TRUE]
  <2>1. c \in Call
    BY <1>1 DEF Call
  <2>2. /\ org' = [org EXCEPT ![p].call = c] /\ UNCHANGED <<tgt, ans>>
        /\ org[p].call.op # "lockWait"
    BY <1>5 DEF Win_flush_all, Program, InCall
  <2> HIDE DEF c
  <2> QED
    BY <1>3, <2>1, <2>2
<1>6. ASSUME FlushSend(p) PROVE \A t \in Rank : LockMoves(t)
  <2> DEFINE c == [org[p].call EXCEPT !.op = "flushWait"]
  <2>1. c \in Call
    BY <1>2 DEF Call
  <2>2. org' = [org EXCEPT ![p].call = c]
    BY <1>6 DEF FlushSend
  <2>3. UNCHANGED <<tgt, ans>> /\ org[p].call.op # "lockWait"
    BY <1>6 DEF FlushSend, InCall
  <2> HIDE DEF c
  <2> QED
    BY <1>3, <2>1, <2>2, <2>3
<1>7. ASSUME FlushAllSend(p) PROVE \A t \in Rank : LockMoves(t)
  <2>1. PICK c : c = FlushAllFrom(p, 0)
    OBVIOUS
  <2>2. /\ org' = [org EXCEPT ![p].call = c] /\ UNCHANGED <<tgt, ans>>
        /\ org[p].call.op # "lockWait"
    BY <1>7, <2>1 DEF FlushAllSend, InCall
  <2>3. c \in Call
    BY <1>1, <2>1, FlushAllNext
  <2> QED
    BY <1>3, <2>2, <2>3
<1>8. ASSUME FlushDone(p) PROVE \A t \in Rank : LockMoves(t)
  <2>1. PICK d \in Rank : d = org[p].call.dest
    BY <1>2
  <2>2. PICK a : a = [type |-> "FLUSH", src |-> d, dst |-> p]
    OBVIOUS
  <2>3. /\ org[p].call.op # "lockWait" /\ ans' = ans \ {a} /\ a.type = "FLUSH" /\ tgt' = tgt
        /\ org' = [org EXCEPT ![p].puts[d] = 0, ![p].call = Idle]
    BY <1>8, <2>1, <2>2 DEF FlushDone, InCall
  <2>4. Idle \in Call
    BY <1>1 DEF Idle, Call
  <2>5. org' = [org EXCEPT ![p] = HasFlushed(org[p], d, Idle)]
    BY <2>3 DEF HasFlushed
  <2> QED
    BY <1>1, <2>3, <2>4, <2>5, FlushedLocks
<1>9. ASSUME FlushAllDone(p) PROVE \A t \in Rank : LockMoves(t)
  <2>1. PICK d \in Rank : d = org[p].call.dest
    BY <1>2
  <2>2. PICK c : c = FlushAllFrom(p, d + 1)
    OBVIOUS
  <2>3. PICK a \in ans : /\ a.type = "FLUSH" /\ a.dst = p /\ ans' = ans \ {a}
                         /\ org' = [org EXCEPT ![p].puts[d] = 0, ![p].call = c]
    BY <1>9, <2>1, <2>2 DEF FlushAllDone
  <2>4. org[p].call.op # "lockWait" /\ tgt' = tgt
    BY <1>9 DEF FlushAllDone, InCall
  <2>5. d + 1 \in Nat
    BY <1>1
  <2>6. c \in Call
    BY <1>1, <2>2, <2>5, FlushAllNext
  <2>7. org' = [org EXCEPT ![p] = HasFlushed(org[p], d, c)]
    BY <2>3 DEF HasFlushed
  <2> QED
    BY <1>1, <2>3, <2>4, <2>6, <2>7, FlushedLocks, ZenonT(60)
<1> QED
  BY <1>4, <1>5, <1>6, <1>7, <1>8, <1>9

(* The operations and their completion leave the locks alone. *)
LEMMA OperationLocks ==
    ASSUME OriginInv, TokenInv, NEW p \in Rank, NEW t \in Rank
    PROVE  \/ Put(p, t) \/ Get(p, t) \/ Accumulate(p, t) \/ OpDone(p, t) \/ AccumulateDone(p, t)
           \/ OpArrives(p, t)
           => \A u \in Rank : LockMoves(u)
<1>1. TypeOK
  BY DEF OriginInv
<1>2. ASSUME \/ Put(p, t) \/ Get(p, t) \/ Accumulate(p, t) \/ OpDone(p, t)
             \/ AccumulateDone(p, t)
      PROVE  \A u \in Rank : LockMoves(u)
  <2>1. \A q \in Rank : /\ org'[q].remote = org[q].remote /\ org'[q].mode = org[q].mode
                        /\ org'[q].call = org[q].call
    BY <1>2, OperationEffect
  <2>2. UNCHANGED <<tgt, ans>>
    BY <1>2 DEF Put, Get, Accumulate, OpDone, AccumulateDone
  <2>3. \A u \in Rank : SameOrigins(u) /\ SameLock(u) /\ SameAnswers(u)
    BY <2>1, <2>2 DEF SameOrigins, SameLock, SameAnswers
  <2> QED
    BY <1>1, <2>3, KeptBy DEF LockMoves
<1>3. ASSUME OpArrives(p, t) PROVE \A u \in Rank : LockMoves(u)
  <2>1. UNCHANGED <<org, ans>> /\ tgt' = [tgt EXCEPT ![t].recvd = @ + 1, ![t].src[p] = @ - 1]
    BY <1>3 DEF OpArrives
  <2>2. tgt \in [Rank -> Target]
    BY <1>1 DEF TypeOK
  <2>3. \A u \in Rank : SameLock(u)
    BY <2>1, <2>2 DEF SameLock, Target
  <2>4. \A u \in Rank : SameOrigins(u) /\ SameAnswers(u)
    BY <2>1 DEF SameOrigins, SameAnswers
  <2> QED
    BY <1>1, <2>3, <2>4, KeptBy DEF LockMoves
<1> QED
  BY <1>2, <1>3

(* The end of the callback h at t, whose window is w. *)
LEMMA EndLocks ==
    ASSUME OriginInv, TokenInv, NEW t \in Rank, NEW w \in Target, NEW h \in Request,
           EndCallback(t, w, h), org' = org, h.type \in {"UNLOCK", "FLUSH"},
           w.cnt = tgt[t].cnt, w.excl = tgt[t].excl, w.list = tgt[t].list,
           ~Answered(ans, h.src, t), Awaits(CallOf[h.src], h.src, t, h.type)
    PROVE  \A u \in Rank : LockMoves(u)
<1>1. PICK p \in Rank : p = h.src
  BY RequestFields
<1>2. PICK a : a = [type |-> h.type, src |-> t, dst |-> h.src]
  OBVIOUS
<1>3. PICK z \in Target :
           /\ tgt' = [tgt EXCEPT ![t] = z]
           /\ \/ /\ h.type # "UNLOCK" /\ ans' = ans \cup {a}
                 /\ z.cnt = w.cnt /\ z.excl = w.excl /\ z.list = w.list
              \/ h.type = "UNLOCK" /\ GivenUp(w, z) /\ ans' = ans \cup {a}
              \/ /\ h.type = "UNLOCK" /\ HandedOn(w, z)
                 /\ ans' = (ans \cup {a}) \cup {LockAnswer(t, Head(w.list).src)}
  <2>1. EndCallback(t, w, h)
    OBVIOUS
  <2> QED
    BY <1>2, <2>1, EndEffect
<1>4. TypeOK
  BY DEF OriginInv
<1>5. tgt'[t] = z /\ \A u \in Rank : u # t => tgt'[u] = tgt[u]
  BY <1>3, <1>4, TargetEffect
<1>6. \A u \in Rank : SameOrigins(u)
  BY DEF SameOrigins
<1>7. \A u \in Rank : u # t => SameLock(u)
  BY <1>5 DEF SameLock
<1>8. CASE h.type # "UNLOCK"
  <2>1. a.type = "FLUSH" /\ ans' = ans \cup {a}
    BY <1>2, <1>3, <1>8
  <2>2. \A u \in Rank : SameAnswers(u)
    BY <2>1, FlushAnswers
  <2>3. SameLock(t)
    BY <1>3, <1>5, <1>8 DEF SameLock
  <2> QED
    BY <1>4, <1>6, <1>7, <2>2, <2>3, KeptBy DEF LockMoves
<1>9. CASE h.type = "UNLOCK"
  <2>1. a = UnlockAnswer(t, p)
    BY <1>1, <1>2, <1>9 DEF UnlockAnswer
  <2>2. org[p].call.op = "unlockWait" /\ org[p].call.dest = t
    BY <1>1, <1>9 DEF Awaits, CallOf
  <2>3. org[p].remote[t] # "UNLOCKED"
    BY <2>2, OriginRecord DEF OriginOK
  <2>4. UnlockAnswer(t, p) \notin ans /\ UnlockAnswer(t, p) \in ans'
    <3>1. UnlockAnswer(t, p).src = t /\ UnlockAnswer(t, p).dst = p
      BY DEF UnlockAnswer
    <3> QED
      BY <1>1, <1>3, <1>9, <2>1, <3>1 DEF Answered
  <2>5. Holds(p, t) /\ ~Holds(p, t)'
    BY <2>3, <2>4 DEF Holds
  <2>6. PICK B : B = {a}
    OBVIOUS
  <2>7. /\ B \subseteq {UnlockAnswer(t, q) : q \in Rank}
        /\ \A q \in Rank : UnlockAnswer(t, q) \in B => q = p
    BY <2>1, <2>6 DEF UnlockAnswer
  <2>8. /\ \/ GivenUp(tgt[t], tgt'[t]) /\ AnswersBut(t, p)
           \/ HandedOn(tgt[t], tgt'[t]) /\ AnswersAnd(t, p, Head(tgt[t].list).src)
        /\ \A u \in Rank : u # t => SameAnswers(u)
    <3>1. CASE GivenUp(w, z) /\ ans' = ans \cup {a}
      <4>1. ans' = ans \cup B
        BY <2>6, <3>1
      <4>2. GivenUp(tgt[t], tgt'[t])
        BY <1>5, <3>1 DEF GivenUp
      <4> QED
        BY <2>7, <4>1, <4>2, WokenAnswers
    <3>2. CASE /\ HandedOn(w, z)
               /\ ans' = (ans \cup {a}) \cup {LockAnswer(t, Head(w.list).src)}
      <4>1. PICK g : g = Head(tgt[t].list).src
        OBVIOUS
      <4>2. tgt[t].list # <<>>
        BY <3>2 DEF HandedOn
      <4>3. g \in Rank
        BY <4>1, <4>2, ListHead
      <4>4. ans' = (ans \cup B) \cup {LockAnswer(t, g)}
        BY <2>6, <3>2, <4>1
      <4>5. AnswersAnd(t, p, g) /\ \A u \in Rank : u # t => SameAnswers(u)
        BY <2>7, <4>3, <4>4, WokenAnswers
      <4>6. HandedOn(tgt[t], tgt'[t])
        BY <1>5, <3>2 DEF HandedOn
      <4> QED
        BY <4>1, <4>5, <4>6
    <3> QED
      BY <1>3, <1>9, <3>1, <3>2
  <2>9. LockMoves(t)
    BY <2>5, <2>8, UnlockMoves
  <2>10. \A u \in Rank : u # t => Kept(u)
    BY <1>4, <1>6, <1>7, <2>8, KeptBy
  <2> QED
    BY <2>9, <2>10 DEF LockMoves
<1> QED
  BY <1>8, <1>9

(* The steps of the targets. *)
LEMMA TargetLocks ==
    ASSUME OriginInv, TokenInv
    PROVE  /\ \A m \in req : RecvLockReq(m) \/ RecvCounter(m) => \A u \in Rank : LockMoves(u)
           /\ \A t \in Rank : CallbackDone(t) => \A u \in Rank : LockMoves(u)
<1>1. TypeOK /\ tgt \in [Rank -> Target] /\ req \subseteq Request
  BY DEF OriginInv, TypeOK
<1>2. ASSUME NEW m \in req, RecvLockReq(m) PROVE \A u \in Rank : LockMoves(u)
  <2>1. PICK t \in Rank, p \in Rank, x \in BOOLEAN : t = m.dst /\ p = m.src /\ x = m.excl
    BY <1>1, RequestFields
  <2>2. m \in Request /\ tgt[t] \in Target /\ tgt[t].list \in Seq(Request)
    BY <1>1, TargetFields
  <2>3. m.type = "LOCK" /\ org' = org
    BY <1>2 DEF RecvLockReq
  <2>4. \A u \in Rank : SameOrigins(u)
    BY <2>3 DEF SameOrigins
  <2>5. /\ Awaits(CallOf[p], p, t, "LOCK") /\ x = CallOf[p].excl /\ Asked(req, p, t)
        /\ ~Answered(ans, p, t)
    BY <2>1, <2>3 DEF TokenInv, TokensOK, RequestsOK, Apart, Asked
  <2>6. org[p].call.op = "lockWait" /\ org[p].call.dest = t /\ org[p].call.excl = x
    BY <2>5 DEF Awaits, CallOf
  <2>7. org[p].remote[t] = "UNLOCKED"
    BY <2>6, OriginRecord DEF OriginOK
  <2>8. LockAnswer(t, p) \notin ans /\ UnlockAnswer(t, p) \notin ans
    BY <2>5 DEF Answered, LockAnswer, UnlockAnswer
  <2>9. CASE /\ MayLock(tgt[t], x) /\ tgt' = [tgt EXCEPT ![t] = Lock(@, x)]
             /\ ans' = ans \cup {LockAnswer(t, p)}
    <3>1. PICK z : z = Lock(tgt[t], x)
      OBVIOUS
    <3>2. z \in Target /\ z.cnt = tgt[t].cnt + 1 /\ z.excl = x /\ z.list = tgt[t].list
      BY <2>2, <3>1, LockFacts
    <3>3. tgt' = [tgt EXCEPT ![t] = z]
      BY <2>9, <3>1
    <3>4. tgt'[t] = z /\ \A u \in Rank : u # t => tgt'[u] = tgt[u]
      BY <1>1, <3>2, <3>3, TargetEffect
    <3>5. \A u, q \in Rank : /\ UnlockAnswer(u, q) \in ans' <=> UnlockAnswer(u, q) \in ans
                             /\ LockAnswer(u, q) \in ans' <=>
                                   LockAnswer(u, q) \in ans \/ (u = t /\ q = p)
      BY <2>9 DEF LockAnswer, UnlockAnswer
    <3>6. ~Holds(p, t) /\ Holds(p, t)' /\ (Exclusive(p, t)' <=> x)
      BY <2>3, <2>6, <2>7, <2>8, <3>5 DEF Holds, Exclusive
    <3>7. HoldersKept(t, p)
      BY <2>3, <3>5 DEF HoldersKept, Holds, Exclusive
    <3>8. tgt[t].cnt = 0 \/ (~tgt[t].excl /\ ~x)
      BY <2>9 DEF MayLock
    <3>9. Gained(t, p, x)
      BY <3>2, <3>4, <3>6, <3>7, <3>8 DEF Gained
    <3>10. \A u \in Rank : u # t => SameLock(u) /\ SameAnswers(u)
      BY <3>4, <3>5 DEF SameLock, SameAnswers
    <3>11. \A u \in Rank : u # t => Kept(u)
      BY <1>1, <2>4, <3>10, KeptBy
    <3> QED
      BY <3>9, <3>11 DEF LockMoves
  <2>10. CASE /\ ~MayLock(tgt[t], x) /\ tgt' = [tgt EXCEPT ![t].list = Append(@, m)]
              /\ ans' = ans
    <3>1. /\ tgt'[t].cnt = tgt[t].cnt /\ tgt'[t].excl = tgt[t].excl
          /\ tgt'[t].list = Append(tgt[t].list, m)
      BY <1>1, <2>2, <2>10 DEF Target
    <3>2. \A u \in Rank : u # t => tgt'[u] = tgt[u]
      BY <2>10
    <3>3. \A u \in Rank : SameAnswers(u)
      BY <2>10 DEF SameAnswers
    <3>4. \A u \in Rank : u # t => Kept(u)
      BY <1>1, <2>4, <3>2, <3>3, KeptBy DEF SameLock
    <3>5. \A q \in Rank : /\ Holds(q, t) <=> Holds(q, t)'
                          /\ Holds(q, t) => (Exclusive(q, t) <=> Exclusive(q, t)')
      BY <2>3, <2>10 DEF Holds, Exclusive
    <3>6. Queued(t, m)
      BY <2>1, <2>2, <2>10, <3>1, <3>5 DEF Queued, MayLock
    <3> QED
      BY <3>4, <3>6 DEF LockMoves
  <2> QED
    BY <1>2, <2>1, <2>9, <2>10 DEF RecvLockReq
<1>3. ASSUME NEW m \in req, RecvCounter(m) PROVE \A u \in Rank : LockMoves(u)
  <2>1. PICK t \in Rank, p \in Rank : t = m.dst /\ p = m.src
    BY <1>1, RequestFields
  <2>2. /\ m \in Request /\ m.n \in Nat /\ tgt[t] \in Target /\ tgt[t].stack \in Seq(Request)
        /\ tgt[t].src \in [Rank -> Int]
    BY <1>1, RequestFields, TargetFields
  <2>3. m.type \in {"UNLOCK", "FLUSH"} /\ org' = org
    BY <1>3 DEF RecvCounter
  <2> DEFINE w == [tgt[t] EXCEPT !.src[p] = @ + m.n]
  <2>4. tgt[t].src[p] + m.n \in Int
    BY <2>2
  <2>5. w \in Target
    BY <2>2, <2>4, TargetTypes
  <2>6. w.cnt = tgt[t].cnt /\ w.excl = tgt[t].excl /\ w.list = tgt[t].list
    BY <2>2 DEF Target
  <2>7. \/ EndCallback(t, w, m)
        \/ tgt' = [tgt EXCEPT ![t] = [w EXCEPT !.stack = <<m>> \o @]] /\ ans' = ans
    BY <1>3, <2>1 DEF RecvCounter
  <2> HIDE DEF w
  <2>8. CASE EndCallback(t, w, m)
    <3>1. Awaits(CallOf[p], p, t, m.type) /\ ~Answered(ans, p, t)
      BY <2>1 DEF TokenInv, TokensOK, RequestsOK, Apart, Asked
    <3> QED
      BY <2>1, <2>2, <2>3, <2>5, <2>6, <2>8, <3>1, EndLocks
  <2>9. CASE tgt' = [tgt EXCEPT ![t] = [w EXCEPT !.stack = <<m>> \o @]] /\ ans' = ans
    <3>1. \A u \in Rank : SameLock(u)
      BY <1>1, <2>5, <2>6, <2>9 DEF SameLock, Target
    <3>2. \A u \in Rank : SameOrigins(u) /\ SameAnswers(u)
      BY <2>3, <2>9 DEF SameOrigins, SameAnswers
    <3> QED
      BY <1>1, <3>1, <3>2, KeptBy DEF LockMoves
  <2> QED
    BY <2>7, <2>8, <2>9
<1>4. ASSUME NEW t \in Rank, CallbackDone(t) PROVE \A u \in Rank : LockMoves(u)
  <2> DEFINE w == [tgt[t] EXCEPT !.stack = Tail(@)]
  <2>1. PICK h : h = Head(tgt[t].stack)
    OBVIOUS
  <2>2. tgt[t].stack # <<>> /\ EndCallback(t, w, h) /\ org' = org
    BY <1>4, <2>1 DEF CallbackDone
  <2>3. tgt[t] \in Target /\ tgt[t].stack \in Seq(Request)
    BY <1>1, TargetFields
  <2>4. /\ Tail(tgt[t].stack) \in Seq(Request) /\ h \in Request
        /\ 1 \in 1..Len(tgt[t].stack) /\ h = tgt[t].stack[1]
    BY <2>1, <2>2, <2>3
  <2>5. w \in Target
    BY <2>3, <2>4, TargetTypes
  <2>6. w.cnt = tgt[t].cnt /\ w.excl = tgt[t].excl /\ w.list = tgt[t].list
    BY <2>3 DEF Target
  <2> HIDE DEF w
  <2>7. h.src \in Rank /\ StackOf[t] = tgt[t].stack
    BY <2>4, RequestFields DEF StackOf
  <2>8. /\ h.type \in {"UNLOCK", "FLUSH"} /\ Awaits(CallOf[h.src], h.src, t, h.type)
        /\ Within(StackOf[t], h.src)
    BY <2>4, <2>7 DEF TokenInv, TokensOK, StacksOK, Within
  <2>9. ~Answered(ans, h.src, t)
    BY <2>7, <2>8 DEF TokenInv, TokensOK, Apart
  <2> QED
    BY <2>2, <2>4, <2>5, <2>6, <2>8, <2>9, EndLocks
<1> QED
  BY <1>2, <1>3, <1>4

-----------------------------------------------------------------------------
(* The theorems *)

(* Every step moves the lock of each window in one of the five ways. *)
LEMMA LockStep == OriginInv /\ TokenInv /\ [Next]_vars => \A t \in Rank : LockMoves(t)
<1> SUFFICES ASSUME OriginInv, TokenInv, [Next]_vars PROVE \A t \in Rank : LockMoves(t)
  OBVIOUS
<1>1. Member \subseteq Rank /\ TypeOK
  BY MemberFacts DEF OriginInv
<1>2. ASSUME NEW p \in Member, ProgramStep(p) PROVE \A t \in Rank : LockMoves(t)
  BY <1>1, <1>2, LockLocks, UnlockLocks, FlushLocks, OperationLocks DEF ProgramStep
<1>3. ASSUME NEW p \in Member, CallStep(p) PROVE \A t \in Rank : LockMoves(t)
  BY <1>3, LockLocks, UnlockLocks, FlushLocks DEF CallStep
<1>4. ASSUME NEW p \in Member, CallbackDone(p) PROVE \A t \in Rank : LockMoves(t)
  BY <1>1, <1>4, TargetLocks
<1>5. ASSUME NEW p \in Member, NEW t \in Member, CompletionStep(p, t)
      PROVE  \A u \in Rank : LockMoves(u)
  BY <1>1, <1>5, OperationLocks DEF CompletionStep
<1>6. ASSUME NEW p \in Member, NEW t \in Member, RequestStep(p, t)
      PROVE  \A u \in Rank : LockMoves(u)
  BY <1>1, <1>6, TargetLocks DEF RequestStep
<1>7. ASSUME UNCHANGED vars PROVE \A t \in Rank : LockMoves(t)
  <2>1. \A t \in Rank : SameLock(t) /\ SameAnswers(t) /\ SameOrigins(t)
    BY <1>7 DEF vars, SameLock, SameAnswers, SameOrigins
  <2> QED
    BY <1>1, <2>1, KeptBy DEF LockMoves
<1> QED
  BY <1>2, <1>3, <1>4, <1>5, <1>6, <1>7 DEF Next

(* Nobody holds a lock at first. *)
LEMMA LockInit == Init => LockInv
<1> SUFFICES ASSUME Init, NEW t \in Rank PROVE LockOK(t)
  BY DEF LockInv
<1>1. tgt[t].cnt = 0 /\ tgt[t].excl = FALSE /\ tgt[t].list = <<>>
  BY DEF Init
<1>2. \A p \in Rank : ~Holds(p, t)
  BY DEF Init, Holds
<1>3. HoldersOf(t) = {}
  BY <1>2 DEF HoldersOf
<1> QED
  BY <1>1, <1>2, <1>3, FS_EmptySet DEF LockOK

LockingInv == OriginInv /\ TokenInv /\ LockInv

(* The lock fields of every window fit its holders in every reachable state. *)
THEOREM LockInvHolds == Spec => []LockingInv
<1>1. Init => LockingInv
  BY OriginInit, TokenInit, LockInit DEF LockingInv
<1>2. LockingInv /\ [Next]_vars => LockingInv'
  <2> SUFFICES ASSUME LockingInv, [Next]_vars PROVE LockingInv'
    OBVIOUS
  <2>1. OriginInv /\ TokenInv /\ LockInv
    BY DEF LockingInv
  <2>2. OriginInv' /\ TokenInv' /\ \A t \in Rank : LockMoves(t)
    BY <2>1, OriginStep, TokenStep, LockStep
  <2>3. TypeOK /\ TypeOK'
    BY <2>1, <2>2 DEF OriginInv
  <2>4. \A t \in Rank : LockOK(t)'
    BY <2>1, <2>2, <2>3, MoveKeepsLock DEF LockInv
  <2> QED
    BY <2>2, <2>4 DEF LockingInv, LockInv
<1> QED
  BY <1>1, <1>2, PTL DEF Spec

(* lock_cnt counts the holders of every window exactly, and nobody waits in    *)
(* lock_list for a free lock, in every reachable state, for every number of    *)
(* ranks and every program.                                                    *)
THEOREM LockCountExactHolds == Spec => []LockCountExact
<1>1. LockingInv => LockCountExact
  <2> SUFFICES ASSUME LockingInv, NEW t \in Rank
               PROVE  /\ tgt[t].cnt = Cardinality(Holders(t))
                      /\ tgt[t].list # <<>> => tgt[t].cnt > 0
    BY DEF LockCountExact
  <2>1. Holders(t) = HoldersOf(t)
    BY DEF Holders, HoldersOf, Holds, UnlockAnswer
  <2>2. LockOK(t)
    BY DEF LockingInv, LockInv
  <2> QED
    BY <2>1, <2>2 DEF LockOK
<1> QED
  BY <1>1, LockInvHolds, PTL

(* lock_list is served first come, first served, and only those overtake it    *)
(* who share the lock with its holders, in every step of every program.        *)
THEOREM QueueOrderHolds == Spec => QueueOrder
<1>1. LockingInv /\ LockingInv' /\ [Next]_vars => [\A t \in Rank : ServedInOrder(t)]_vars
  <2> SUFFICES ASSUME LockingInv, LockingInv', [Next]_vars, NEW t \in Rank
               PROVE  ServedInOrder(t)
    OBVIOUS
  <2>1. OriginInv /\ TokenInv /\ LockOK(t) /\ TypeOK /\ TypeOK'
    BY DEF LockingInv, LockInv, OriginInv
  <2>2. LockMoves(t)
    BY <2>1, LockStep
  <2>3. tgt[t].cnt \in Int /\ tgt'[t].cnt \in Int /\ tgt[t].excl \in BOOLEAN
    BY <2>1, TargetFields DEF TypeOK
  <2>4. tgt[t].list # <<>> => tgt[t].cnt > 0
    BY <2>1 DEF LockOK
  <2>5. CASE Kept(t)
    BY <2>3, <2>5 DEF Kept, ServedInOrder
  <2>6. ASSUME NEW p \in Rank, NEW x \in BOOLEAN, Gained(t, p, x) PROVE ServedInOrder(t)
    BY <2>3, <2>4, <2>6 DEF Gained, ServedInOrder
  <2>7. ASSUME NEW m, Queued(t, m) PROVE ServedInOrder(t)
    BY <2>3, <2>7 DEF Queued, ServedInOrder
  <2>8. ASSUME NEW p \in Rank, Released(t, p) PROVE ServedInOrder(t)
    BY <2>3, <2>8 DEF Released, GivenUp, ServedInOrder
  <2>9. ASSUME NEW p \in Rank, NEW h \in Rank, Passed(t, p, h) PROVE ServedInOrder(t)
    BY <2>3, <2>9 DEF Passed, HandedOn, ServedInOrder
  <2> QED
    BY <2>2, <2>5, <2>6, <2>7, <2>8, <2>9 DEF LockMoves
<1> QED
  BY <1>1, LockInvHolds, PTL DEF Spec, QueueOrder

-----------------------------------------------------------------------------
(* The invariant of an origin and a target *)

(* m is an UNLOCK or FLUSH request of p to t; p has one waiting as a callback  *)
(* of t, or the answer of t; p waits for such an answer.                       *)
Of(m, p, t) == m.type # "LOCK" /\ m.src = p /\ m.dst = t
Stacked(p, t) == Within(tgt[t].stack, p)
Counted(p, t) == \E a \in ans : a.type # "LOCK" /\ a.dst = p /\ a.src = t
AwaitsCount(p, t) == Awaits(org[p].call, p, t, "UNLOCK") \/ Awaits(org[p].call, p, t, "FLUSH")

(* The counter of t for p, and its operations that have not arrived. *)
Src(p, t) == tgt[t].src[p]
InFlight(p, t) == flight[p][t]

(* Nothing is counted on either side. *)
Clean(p, t) ==
    Src(p, t) = 0 /\ InFlight(p, t) = 0 /\ org[p].puts[t] = 0 /\ org[p].pend[t] = 0

(* Without a lock nothing is counted.  The target's counter is what is on its  *)
(* way less what the origin will report, or has reported in a request; once    *)
(* the target has the report, it is what is on its way; and this is nothing    *)
(* when the target answers.                                                    *)
PairOK(p, t) ==
    /\ p = t \/ org[p].remote[t] = "UNLOCKED" \/ t \notin Member => Clean(p, t)
    /\ \A m \in req : Of(m, p, t) => Src(p, t) = InFlight(p, t) - m.n
    /\ Stacked(p, t) => Src(p, t) = InFlight(p, t) /\ org[p].remote[t] # "UNLOCKED"
    /\ Counted(p, t) => Src(p, t) = 0 /\ InFlight(p, t) = 0
    /\ ~AwaitsCount(p, t) => Src(p, t) = InFlight(p, t) - org[p].puts[t]
    /\ org[p].call.op = "flushAllWait" /\ t # p =>
          /\ Stacked(p, t) \/ (\E m \in req : Of(m, p, t))
                \/ (Src(p, t) = 0 /\ InFlight(p, t) = 0)
          /\ t < org[p].call.dest => org[p].puts[t] = 0

PairInv == \A p, t \in Rank : PairOK(p, t)

-----------------------------------------------------------------------------
(* What a step leaves alone *)

SameTraffic(p, t) ==
    /\ Src(p, t)' = Src(p, t) /\ InFlight(p, t)' = InFlight(p, t)
    /\ Stacked(p, t)' <=> Stacked(p, t)
    /\ Counted(p, t)' => Counted(p, t)
    /\ \A m : Of(m, p, t) => (m \in req' <=> m \in req)
SameCounts(p, t) ==
    /\ org'[p].puts[t] = org[p].puts[t] /\ org'[p].pend[t] = org[p].pend[t]
    /\ org[p].remote[t] # "UNLOCKED" => org'[p].remote[t] # "UNLOCKED"
SameCall(p, t) ==
    \/ org'[p].call = org[p].call
    \/ ~AwaitsCount(p, t) /\ org'[p].call.op # "flushAllWait"

(* A step that leaves the pair alone. *)
LEMMA PairKept ==
    ASSUME NEW p \in Rank, NEW t \in Rank, PairOK(p, t), scn' = scn,
           SameTraffic(p, t), SameCounts(p, t), SameCall(p, t)
    PROVE  PairOK(p, t)'
<1>1. Member' = Member
  BY DEF Member
<1>2. Clean(p, t) => Clean(p, t)'
  BY DEF Clean, SameTraffic, SameCounts
<1>3. p = t \/ org'[p].remote[t] = "UNLOCKED" \/ t \notin Member' => Clean(p, t)'
  BY <1>1, <1>2 DEF PairOK, SameCounts
<1>4. \A m \in req' : Of(m, p, t) => Src(p, t)' = InFlight(p, t)' - m.n
  BY DEF PairOK, SameTraffic
<1>5. Stacked(p, t)' => Src(p, t)' = InFlight(p, t)' /\ org'[p].remote[t] # "UNLOCKED"
  BY DEF PairOK, SameTraffic, SameCounts
<1>6. Counted(p, t)' => Src(p, t)' = 0 /\ InFlight(p, t)' = 0
  BY DEF PairOK, SameTraffic
<1>7. ~AwaitsCount(p, t)' => Src(p, t)' = InFlight(p, t)' - org'[p].puts[t]
  <2>1. ~AwaitsCount(p, t)' => ~AwaitsCount(p, t)
    BY DEF SameCall, AwaitsCount
  <2> QED
    BY <2>1 DEF PairOK, SameTraffic, SameCounts
<1>8. org'[p].call.op = "flushAllWait" /\ t # p =>
          /\ Stacked(p, t)' \/ (\E m \in req' : Of(m, p, t))
                \/ (Src(p, t)' = 0 /\ InFlight(p, t)' = 0)
          /\ t < org'[p].call.dest => org'[p].puts[t] = 0
  <2>1. org'[p].call.op = "flushAllWait" => org'[p].call = org[p].call
    BY DEF SameCall
  <2> QED
    BY <2>1 DEF PairOK, SameTraffic, SameCounts
<1> QED
  BY <1>3, <1>4, <1>5, <1>6, <1>7, <1>8 DEF PairOK, Of

(* A process that does not wait for an answer to unlock or flush. *)
LEMMA NotAwaiting ==
    ASSUME NEW p \in Rank, org[p].call.op \notin {"unlockWait", "flushWait", "flushAllWait"}
    PROVE  \A t \in Rank : ~AwaitsCount(p, t)
BY DEF AwaitsCount, Awaits

(* A process that waits for no answer has nothing on its way. *)
LEMMA NothingAsked ==
    ASSUME TokenInv, NEW p \in Rank, NEW t \in Rank, ~AwaitsCount(p, t)
    PROVE  ~Stacked(p, t) /\ ~Counted(p, t) /\ \A m \in req : ~Of(m, p, t)
<1>1. CallOf[p] = org[p].call /\ StackOf[t] = tgt[t].stack
  BY DEF CallOf, StackOf
<1>2. ~Stacked(p, t)
  <2>1. SUFFICES ASSUME NEW i \in 1..Len(StackOf[t]), StackOf[t][i].src = p PROVE FALSE
    BY <1>1 DEF Stacked, Within
  <2>2. StackOf[t][i].type \in {"UNLOCK", "FLUSH"} /\ Awaits(CallOf[p], p, t, StackOf[t][i].type)
    BY <2>1 DEF TokenInv, TokensOK, StacksOK
  <2> QED
    BY <1>1, <2>2 DEF AwaitsCount
<1>3. ~Counted(p, t)
  <2>1. SUFFICES ASSUME NEW a \in ans, a.type # "LOCK", a.dst = p, a.src = t PROVE FALSE
    BY DEF Counted
  <2>2. a \in Answer /\ Awaits(CallOf[p], p, t, a.type)
    BY <2>1 DEF TokenInv, TokensOK, TokenTypes, AnswersOK
  <2>3. a.type \in {"UNLOCK", "FLUSH"}
    BY <2>1, <2>2 DEF Answer
  <2> QED
    BY <1>1, <2>2, <2>3 DEF AwaitsCount
<1>4. ASSUME NEW m \in req, Of(m, p, t) PROVE FALSE
  <2>1. m \in Request /\ Awaits(CallOf[p], p, t, m.type) /\ m.type # "LOCK"
    BY <1>4 DEF TokenInv, TokensOK, TokenTypes, RequestsOK, Of
  <2>2. m.type \in {"UNLOCK", "FLUSH"}
    BY <2>1, RequestFields
  <2> QED
    BY <1>1, <2>1, <2>2 DEF AwaitsCount
<1> QED
  BY <1>2, <1>3, <1>4

(* A process that has the answer to unlock or flush has no request and no      *)
(* callback left.                                                              *)
LEMMA NothingElse ==
    ASSUME TokenInv, NEW p \in Rank, NEW t \in Rank, Counted(p, t)
    PROVE  ~Stacked(p, t) /\ \A m \in req : ~Of(m, p, t)
<1>1. Answered(ans, p, t)
  BY DEF Counted, Answered
<1>2. ~Within(StackOf[t], p) /\ ~Asked(req, p, t)
  BY <1>1 DEF TokenInv, TokensOK, Apart
<1> QED
  BY <1>2 DEF Stacked, StackOf, Asked, Of

(* A call that starts, or sends requests that report what was counted. *)
LEMMA PairAsked ==
    ASSUME NEW p \in Rank, NEW t \in Rank, PairOK(p, t), ~AwaitsCount(p, t), scn' = scn,
           Src(p, t)' = Src(p, t), InFlight(p, t)' = InFlight(p, t), SameCounts(p, t),
           Stacked(p, t)' => Stacked(p, t), Counted(p, t)' => Counted(p, t),
           \A m \in req' : Of(m, p, t) => m \in req \/ m.n = org[p].puts[t],
           org'[p].call.op = "flushAllWait" /\ t # p =>
              /\ Clean(p, t) \/ \E m \in req' : Of(m, p, t)
              /\ t < org'[p].call.dest => org[p].puts[t] = 0
    PROVE  PairOK(p, t)'
<1>1. Member' = Member
  BY DEF Member
<1>2. Clean(p, t) => Clean(p, t)'
  BY DEF Clean, SameCounts
<1>3. p = t \/ org'[p].remote[t] = "UNLOCKED" \/ t \notin Member' => Clean(p, t)'
  BY <1>1, <1>2 DEF PairOK, SameCounts
<1>4. \A m \in req' : Of(m, p, t) => Src(p, t)' = InFlight(p, t)' - m.n
  BY DEF PairOK
<1>5. Stacked(p, t)' => Src(p, t)' = InFlight(p, t)' /\ org'[p].remote[t] # "UNLOCKED"
  BY DEF PairOK, SameCounts
<1>6. Counted(p, t)' => Src(p, t)' = 0 /\ InFlight(p, t)' = 0
  BY DEF PairOK
<1>7. ~AwaitsCount(p, t)' => Src(p, t)' = InFlight(p, t)' - org'[p].puts[t]
  BY DEF PairOK, SameCounts
<1>8. org'[p].call.op = "flushAllWait" /\ t # p =>
          /\ Stacked(p, t)' \/ (\E m \in req' : Of(m, p, t))
                \/ (Src(p, t)' = 0 /\ InFlight(p, t)' = 0)
          /\ t < org'[p].call.dest => org'[p].puts[t] = 0
  BY DEF Clean, SameCounts
<1> QED
  BY <1>3, <1>4, <1>5, <1>6, <1>7, <1>8 DEF PairOK, Of

(* unlock or flush returns with the answer. *)
LEMMA PairAnswered ==
    ASSUME NEW p \in Rank, NEW t \in Rank, PairOK(p, t), Counted(p, t), scn' = scn,
           TokenInv, Src(p, t)' = Src(p, t), InFlight(p, t)' = InFlight(p, t),
           org'[p].puts[t] = 0, org'[p].pend[t] = org[p].pend[t],
           org'[p].remote[t] = "UNLOCKED" => org[p].pend[t] = 0,
           Stacked(p, t)' => Stacked(p, t), req' = req, org'[p].call.op # "flushAllWait"
    PROVE  PairOK(p, t)'
<1>1. Member' = Member
  BY DEF Member
<1>2. ~Stacked(p, t) /\ \A m \in req : ~Of(m, p, t)
  BY NothingElse
<1>3. Src(p, t)' = 0 /\ InFlight(p, t)' = 0
  BY DEF PairOK
<1>4. p = t \/ org'[p].remote[t] = "UNLOCKED" \/ t \notin Member' => Clean(p, t)'
  BY <1>1, <1>3 DEF PairOK, Clean
<1> QED
  BY <1>2, <1>3, <1>4 DEF PairOK, Of

(* A step that does not touch targets and requests, nor the operations on      *)
(* their way, and sends no answer.                                             *)
LEMMA NoTraffic ==
    ASSUME UNCHANGED <<tgt, flight, req>>, ans' \subseteq ans, NEW p \in Rank, NEW t \in Rank
    PROVE  SameTraffic(p, t)
BY DEF SameTraffic, Src, InFlight, Stacked, Counted

(* The origins that a step does not change. *)
LEMMA OtherPair ==
    ASSUME PairInv, NEW q \in Rank, NEW t \in Rank, org'[q] = org[q], scn' = scn,
           SameTraffic(q, t)
    PROVE  PairOK(q, t)'
<1>1. SameCounts(q, t) /\ SameCall(q, t)
  BY DEF SameCounts, SameCall
<1> QED
  BY <1>1, PairKept DEF PairInv

-----------------------------------------------------------------------------
(* The operations along the steps *)

(* A call that starts, fails, or sends its request. *)
LEMMA CallPairs ==
    ASSUME TypeOK, PairInv, NEW p \in Rank, NEW c \in Call,
           org' = [org EXCEPT ![p].call = c], UNCHANGED <<scn, tgt, flight, ans>>,
           org[p].call.op \notin {"unlockWait", "flushWait", "flushAllWait"},
           c.op # "flushAllWait",
           \/ req' = req
           \/ \E m : /\ req' = req \cup {m}
                     /\ m.type = "LOCK" \/ (m.src = p /\ m.n = org[p].puts[m.dst])
    PROVE  PairInv'
<1>1. /\ \A q \in Rank : /\ org'[q].remote = org[q].remote /\ org'[q].puts = org[q].puts
                         /\ org'[q].pend = org[q].pend
      /\ org'[p].call = c /\ \A q \in Rank : q # p => org'[q] = org[q]
  BY CallEffect
<1>2. \A q, t \in Rank : \A m \in req' :
          Of(m, q, t) => m \in req \/ (q = p /\ m.n = org[p].puts[t])
  BY DEF Of
<1>3. SUFFICES ASSUME NEW q \in Rank, NEW t \in Rank PROVE PairOK(q, t)'
  BY DEF PairInv
<1>4. PairOK(q, t)
  BY DEF PairInv
<1>5. /\ Src(q, t)' = Src(q, t) /\ InFlight(q, t)' = InFlight(q, t)
      /\ Stacked(q, t)' <=> Stacked(q, t)
      /\ Counted(q, t)' => Counted(q, t)
  BY DEF Src, InFlight, Stacked, Counted
<1>6. CASE q # p
  <2>1. \A m : Of(m, q, t) => (m \in req' <=> m \in req)
    BY <1>2, <1>6
  <2>2. SameTraffic(q, t)
    BY <1>5, <2>1 DEF SameTraffic
  <2> QED
    BY <1>1, <1>6, <2>2, OtherPair
<1>7. CASE q = p
  <2>1. ~AwaitsCount(p, t)
    BY NotAwaiting
  <2>2. SameCounts(p, t)
    BY <1>1 DEF SameCounts
  <2>3. \A m \in req' : Of(m, p, t) => m \in req \/ m.n = org[p].puts[t]
    BY <1>2, <1>7
  <2>4. org'[p].call.op # "flushAllWait"
    BY <1>1
  <2> QED
    BY <1>4, <1>5, <1>7, <2>1, <2>2, <2>3, <2>4, PairAsked
<1> QED
  BY <1>6, <1>7

(* A step that changes the origin p to o, but not what it counts. *)
LEMMA RecordPairs ==
    ASSUME TypeOK, PairInv, NEW p \in Rank, NEW o \in Origin, org' = [org EXCEPT ![p] = o],
           scn' = scn, \A q, t \in Rank : SameTraffic(q, t)
    PROVE  \A q, t \in Rank : q # p \/ (SameCounts(p, t) /\ SameCall(p, t)) => PairOK(q, t)'
<1>1. \A q \in Rank : q # p => org'[q] = org[q]
  BY OriginEffect
<1>2. \A q, t \in Rank : q # p => PairOK(q, t)'
  BY <1>1, OtherPair
<1>3. \A t \in Rank : SameCounts(p, t) /\ SameCall(p, t) => PairOK(p, t)'
  BY PairKept DEF PairInv
<1> QED
  BY <1>2, <1>3

(* MPID_Win_lock gets a lock. *)
LEMMA LockPairs ==
    ASSUME TypeOK, PairInv, NEW p \in Rank, NEW d \in Rank, NEW x \in BOOLEAN,
           NEW all \in BOOLEAN, org' = [org EXCEPT ![p] = HasLock(org[p], d, x, all)],
           scn' = scn, org[p].call.op \notin {"unlockWait", "flushWait", "flushAllWait"},
           \A q, t \in Rank : SameTraffic(q, t)
    PROVE  PairInv'
<1>1. PICK o : o = HasLock(org[p], d, x, all)
  OBVIOUS
<1>2. org' = [org EXCEPT ![p] = o] /\ org[p] \in Origin
  BY <1>1 DEF TypeOK
<1>3. /\ o \in Origin /\ o.call.op \in {"lock", "none"} /\ o.remote[d] # "UNLOCKED"
      /\ \A t \in Rank : t # d => o.remote[t] = org[p].remote[t]
      /\ o.puts = org[p].puts /\ o.pend = org[p].pend
  BY <1>1, <1>2, LockRecord
<1>4. org'[p] = o
  BY <1>2, <1>3, OriginEffect
<1>5. \A t \in Rank : ~AwaitsCount(p, t)
  BY NotAwaiting
<1>6. \A t \in Rank : SameCounts(p, t) /\ SameCall(p, t)
  BY <1>3, <1>4, <1>5 DEF SameCounts, SameCall
<1>7. \A q, t \in Rank : q # p \/ (SameCounts(p, t) /\ SameCall(p, t)) => PairOK(q, t)'
  BY <1>2, <1>3, RecordPairs
<1> QED
  BY <1>6, <1>7 DEF PairInv

(* A step at the window t that changes neither its counters nor its callbacks. *)
LEMMA WindowTraffic ==
    ASSUME TypeOK, NEW t \in Rank, NEW z \in Target, tgt' = [tgt EXCEPT ![t] = z],
           z.src = tgt[t].src, z.stack = tgt[t].stack, flight' = flight,
           \A m : m.type # "LOCK" => (m \in req' <=> m \in req),
           \A a \in ans' : a.type = "LOCK" \/ a \in ans
    PROVE  \A p, u \in Rank : SameTraffic(p, u)
<1>1. tgt'[t] = z /\ \A u \in Rank : u # t => tgt'[u] = tgt[u]
  BY TargetEffect
<1>2. \A u \in Rank : tgt'[u].src = tgt[u].src /\ tgt'[u].stack = tgt[u].stack
  BY <1>1
<1>3. SUFFICES ASSUME NEW p \in Rank, NEW u \in Rank PROVE SameTraffic(p, u)
  OBVIOUS
<1>4. /\ Src(p, u)' = Src(p, u) /\ InFlight(p, u)' = InFlight(p, u)
      /\ Stacked(p, u)' <=> Stacked(p, u)
  BY <1>2 DEF Src, InFlight, Stacked
<1>5. Counted(p, u)' => Counted(p, u)
  BY DEF Counted
<1>6. \A m : Of(m, p, u) => (m \in req' <=> m \in req)
  BY DEF Of
<1> QED
  BY <1>4, <1>5, <1>6 DEF SameTraffic

(* MPID_Win_lock up to its wait. *)
LEMMA EnterLockPairs ==
    ASSUME TypeOK, PairInv, NEW p \in Rank, NEW d \in Rank, NEW x \in BOOLEAN,
           NEW all \in BOOLEAN, org[p].call.op \notin Waiting, EnterLock(p, d, x, all)
    PROVE  PairInv'
<1>1. CASE /\ d = p /\ MayLock(tgt[p], x) /\ tgt' = [tgt EXCEPT ![p] = Lock(@, x)]
           /\ org' = [org EXCEPT ![p] = HasLock(@, d, x, all)] /\ UNCHANGED <<scn, flight, req, ans>>
  <2>1. PICK z : z = Lock(tgt[p], x)
    OBVIOUS
  <2>2. tgt' = [tgt EXCEPT ![p] = z] /\ UNCHANGED <<scn, flight, req, ans>>
    BY <1>1, <2>1
  <2>3. tgt[p] \in Target
    BY DEF TypeOK
  <2>4. z \in Target /\ z.src = tgt[p].src /\ z.stack = tgt[p].stack
    BY <2>1, <2>3, LockFacts
  <2>5. \A q, t \in Rank : SameTraffic(q, t)
    BY <2>2, <2>4, WindowTraffic
  <2>6. /\ org' = [org EXCEPT ![p] = HasLock(org[p], d, x, all)] /\ scn' = scn
        /\ org[p].call.op \notin {"unlockWait", "flushWait", "flushAllWait"}
    BY <1>1 DEF Waiting
  <2> QED
    BY <2>5, <2>6, LockPairs
<1>2. CASE /\ org' = [org EXCEPT ![p].call =
                        [op |-> "lockWait", dest |-> d, excl |-> x, all |-> all]]
           /\ req' = req \cup {[type |-> "LOCK", src |-> p, dst |-> d, excl |-> x, n |-> 0]}
           /\ UNCHANGED <<scn, tgt, flight, ans>>
  <2> DEFINE c == [op |-> "lockWait", dest |-> d, excl |-> x, all |-> all]
             m == [type |-> "LOCK", src |-> p, dst |-> d, excl |-> x, n |-> 0]
  <2>1. c \in Call /\ c.op # "flushAllWait" /\ m.type = "LOCK"
    BY DEF Call
  <2>2. /\ org' = [org EXCEPT ![p].call = c] /\ UNCHANGED <<scn, tgt, flight, ans>>
        /\ org[p].call.op \notin {"unlockWait", "flushWait", "flushAllWait"}
        /\ req' = req \cup {m}
    BY <1>2 DEF Waiting
  <2> HIDE DEF c, m
  <2> QED
    BY <2>1, <2>2, CallPairs
<1> QED
  BY <1>1, <1>2 DEF EnterLock

(* The steps of lock and lock_all. *)
LEMMA LockCounts ==
    ASSUME OriginInv, TokenInv, PairInv, NEW p \in Member
    PROVE  /\ \A d \in scn.targets, x \in scn.modes : Win_lock(p, d, x) => PairInv'
           /\ Win_lock_all(p) \/ LockAllNext(p) \/ LockAllRefused(p) \/ LockDone(p) => PairInv'
<1>1. /\ p \in Rank /\ scn.targets \subseteq Rank /\ scn.modes \subseteq BOOLEAN
      /\ 0 \in Rank /\ TypeOK
  BY MemberFacts DEF OriginInv
<1>2. /\ org[p] \in Origin /\ org[p].call \in Call /\ org[p].call.dest \in Rank
      /\ org[p].call.excl \in BOOLEAN /\ org[p].call.all \in BOOLEAN
  BY <1>1, OriginRecord, OriginFields, CallFields
<1>3. ASSUME NEW d \in scn.targets, NEW x \in scn.modes, Win_lock(p, d, x) PROVE PairInv'
  <2>1. d \in Rank /\ x \in BOOLEAN /\ org[p].call.op \notin Waiting
    BY <1>1, <1>3 DEF Win_lock, Program, InCall, Waiting
  <2>2. EnterLock(p, d, x, FALSE)
    BY <1>3 DEF Win_lock
  <2> QED
    BY <1>1, <2>1, <2>2, EnterLockPairs
<1>4. ASSUME Win_lock_all(p) PROVE PairInv'
  <2> DEFINE c == [op |-> "lock", dest |-> 0, excl |-> FALSE, all |-> TRUE]
  <2>1. c \in Call /\ c.op # "flushAllWait"
    BY <1>1 DEF Call
  <2>2. /\ org' = [org EXCEPT ![p].call = c] /\ UNCHANGED <<scn, tgt, flight, ans>> /\ req' = req
        /\ org[p].call.op \notin {"unlockWait", "flushWait", "flushAllWait"}
    BY <1>4 DEF Win_lock_all, Program, InCall
  <2> HIDE DEF c
  <2> QED
    BY <1>1, <2>1, <2>2, CallPairs
<1>5. ASSUME LockAllNext(p) PROVE PairInv'
  <2>1. org[p].call.op \notin Waiting /\ EnterLock(p, org[p].call.dest, FALSE, TRUE)
    BY <1>5 DEF LockAllNext, InCall, Waiting
  <2> QED
    BY <1>1, <1>2, <2>1, EnterLockPairs
<1>6. ASSUME LockAllRefused(p) PROVE PairInv'
  <2>1. Idle \in Call /\ Idle.op # "flushAllWait"
    BY <1>1 DEF Idle, Call
  <2>2. /\ org' = [org EXCEPT ![p].call = Idle] /\ UNCHANGED <<scn, tgt, flight, ans>>
        /\ req' = req /\ org[p].call.op \notin {"unlockWait", "flushWait", "flushAllWait"}
    BY <1>6 DEF LockAllRefused, InCall
  <2> QED
    BY <1>1, <2>1, <2>2, CallPairs
<1>7. ASSUME LockDone(p) PROVE PairInv'
  <2>1. PICK d \in Rank, x \in BOOLEAN, all \in BOOLEAN :
            d = org[p].call.dest /\ x = org[p].call.excl /\ all = org[p].call.all
    BY <1>2
  <2>2. /\ org[p].call.op \notin {"unlockWait", "flushWait", "flushAllWait"}
        /\ ans' \subseteq ans /\ UNCHANGED <<scn, tgt, flight, req>>
        /\ org' = [org EXCEPT ![p] = HasLock(org[p], d, x, all)]
    BY <1>7, <2>1 DEF LockDone, InCall
  <2>3. \A q, t \in Rank : SameTraffic(q, t)
    BY <2>2, NoTraffic
  <2> QED
    BY <1>1, <2>2, <2>3, LockPairs
<1> QED
  BY <1>3, <1>4, <1>5, <1>6, <1>7

(* MPID_Win_unlock of the own window, to which nothing is counted. *)
LEMMA OwnUnlockPairs ==
    ASSUME OriginInv, TokenInv, PairInv, NEW p \in Rank, NEW all \in BOOLEAN,
           org[p].remote[p] # "UNLOCKED", org[p].call.op \notin Waiting,
           tgt' = [tgt EXCEPT ![p] = DoUnlock(tgt[p])], ans' = ans \cup Woken(p, tgt[p]),
           org' = [org EXCEPT ![p] = HasUnlocked(org[p], p, all)],
           UNCHANGED <<scn, flight, req>>
    PROVE  PairInv'
<1>1. TypeOK /\ org[p] \in Origin /\ tgt[p] \in Target
  BY DEF OriginInv, TypeOK
<1>2. org[p].locks \in Nat \ {0}
  <2>1. PICK g : g = HasUnlocked(org[p], p, all)
    OBVIOUS
  <2> QED
    BY <1>1, <2>1, OriginRecord, UnlockKeepsOrigin, OriginFields
<1>3. PICK o : o = HasUnlocked(org[p], p, all)
  OBVIOUS
<1>4. org' = [org EXCEPT ![p] = o]
  BY <1>3
<1>5. /\ o \in Origin /\ o.puts = org[p].puts /\ o.pend = org[p].pend
      /\ o.call.op \in {"unlock", "none"}
      /\ \A t \in Rank : t # p => o.remote[t] = org[p].remote[t]
  BY <1>1, <1>2, <1>3, UnlockRecord
<1>6. org'[p] = o
  BY <1>1, <1>4, <1>5, OriginEffect
<1>7. PICK z : z = DoUnlock(tgt[p])
  OBVIOUS
<1>8. /\ z \in Target /\ z.src = tgt[p].src /\ z.stack = tgt[p].stack
      /\ Woken(p, tgt[p]) = {} \/ Woken(p, tgt[p]) = {LockAnswer(p, Head(tgt[p].list).src)}
  BY <1>1, <1>7, DoUnlockFacts
<1>9. tgt' = [tgt EXCEPT ![p] = z] /\ flight' = flight
      /\ \A m : m.type # "LOCK" => (m \in req' <=> m \in req)
  BY <1>7
<1>10. \A a \in ans' : a.type = "LOCK" \/ a \in ans
  BY <1>8 DEF LockAnswer
<1>11. \A q, t \in Rank : SameTraffic(q, t)
  BY <1>1, <1>8, <1>9, <1>10, WindowTraffic
<1>12. \A t \in Rank : ~AwaitsCount(p, t)
  BY NotAwaiting DEF Waiting
<1>13. \A t \in Rank : t # p => SameCounts(p, t) /\ SameCall(p, t)
  BY <1>5, <1>6, <1>12 DEF SameCounts, SameCall
<1>14. \A q, t \in Rank : q # p \/ (SameCounts(p, t) /\ SameCall(p, t)) => PairOK(q, t)'
  BY <1>1, <1>4, <1>5, <1>11, RecordPairs
<1>15. PairOK(p, p)'
  <2>1. Clean(p, p)
    BY DEF PairInv, PairOK
  <2>2. SameTraffic(p, p)
    BY <1>11
  <2>3. Clean(p, p)'
    BY <1>5, <1>6, <2>1, <2>2 DEF Clean, SameTraffic
  <2>4. ~Stacked(p, p) /\ ~Counted(p, p) /\ \A m \in req : ~Of(m, p, p)
    BY <1>12, NothingAsked
  <2>5. ~Stacked(p, p)' /\ ~Counted(p, p)' /\ \A m \in req' : ~Of(m, p, p)
    BY <2>2, <2>4 DEF SameTraffic
  <2> QED
    BY <1>5, <1>6, <2>3, <2>5 DEF PairOK, Clean, Of
<1> QED
  BY <1>13, <1>14, <1>15 DEF PairInv

(* The steps of unlock and unlock_all. *)
LEMMA UnlockCounts ==
    ASSUME OriginInv, TokenInv, PairInv, NEW p \in Member
    PROVE  /\ \A d \in Member : Win_unlock(p, d) => PairInv'
           /\ \/ Win_unlock_all(p) \/ UnlockSend(p) \/ UnlockAllRefused(p) \/ UnlockDone(p)
              => PairInv'
<1>1. p \in Rank /\ Member \subseteq Rank /\ 0 \in Rank /\ TypeOK
  BY MemberFacts DEF OriginInv
<1>2. /\ org[p] \in Origin /\ org[p].call \in Call /\ org[p].call.dest \in Rank
      /\ org[p].call.all \in BOOLEAN /\ OriginOK(p, org[p])
  BY <1>1, OriginRecord, OriginFields, CallFields
<1>3. ASSUME NEW d \in Member, Win_unlock(p, d) PROVE PairInv'
  <2> DEFINE c == [op |-> "unlock", dest |-> d, excl |-> FALSE, all |-> FALSE]
  <2>1. c \in Call /\ c.op # "flushAllWait"
    BY <1>1 DEF Call
  <2>2. /\ org' = [org EXCEPT ![p].call = c] /\ UNCHANGED <<scn, tgt, flight, ans>> /\ req' = req
        /\ org[p].call.op \notin {"unlockWait", "flushWait", "flushAllWait"}
    BY <1>3 DEF Win_unlock, Program, InCall
  <2> HIDE DEF c
  <2> QED
    BY <1>1, <2>1, <2>2, CallPairs
<1>4. ASSUME Win_unlock_all(p) PROVE PairInv'
  <2> DEFINE c == [op |-> "unlock", dest |-> 0, excl |-> FALSE, all |-> TRUE]
  <2>1. c \in Call /\ c.op # "flushAllWait"
    BY <1>1 DEF Call
  <2>2. /\ org' = [org EXCEPT ![p].call = c] /\ UNCHANGED <<scn, tgt, flight, ans>> /\ req' = req
        /\ org[p].call.op \notin {"unlockWait", "flushWait", "flushAllWait"}
    BY <1>4 DEF Win_unlock_all, Program, InCall
  <2> HIDE DEF c
  <2> QED
    BY <1>1, <2>1, <2>2, CallPairs
<1>5. ASSUME UnlockAllRefused(p) PROVE PairInv'
  <2>1. Idle \in Call /\ Idle.op # "flushAllWait"
    BY <1>1 DEF Idle, Call
  <2>2. /\ org' = [org EXCEPT ![p].call = Idle] /\ UNCHANGED <<scn, tgt, flight, ans>>
        /\ req' = req /\ org[p].call.op \notin {"unlockWait", "flushWait", "flushAllWait"}
    BY <1>5 DEF UnlockAllRefused, InCall
  <2> QED
    BY <1>1, <2>1, <2>2, CallPairs
<1>6. ASSUME UnlockSend(p) PROVE PairInv'
  <2>1. PICK d \in Rank, all \in BOOLEAN : d = org[p].call.dest /\ all = org[p].call.all
    BY <1>2
  <2>2. /\ org[p].call.op = "unlock" /\ EnterUnlock(p, d, all)
        /\ org[p].remote[d] # "UNLOCKED"
    BY <1>2, <1>6, <2>1 DEF UnlockSend, InCall, OriginOK
  <2>3. CASE /\ d = p /\ tgt' = [tgt EXCEPT ![p] = DoUnlock(@)]
             /\ ans' = ans \cup Woken(p, tgt[p])
             /\ org' = [org EXCEPT ![p] = HasUnlocked(@, d, all)]
             /\ UNCHANGED <<scn, flight, req>>
    <3>1. /\ org[p].remote[p] # "UNLOCKED" /\ org[p].call.op \notin Waiting
          /\ tgt' = [tgt EXCEPT ![p] = DoUnlock(tgt[p])] /\ ans' = ans \cup Woken(p, tgt[p])
          /\ org' = [org EXCEPT ![p] = HasUnlocked(org[p], p, all)]
          /\ UNCHANGED <<scn, flight, req>>
      BY <2>2, <2>3 DEF Waiting
    <3> QED
      BY <1>1, <3>1, OwnUnlockPairs
  <2>4. CASE /\ req' = req \cup {[type |-> "UNLOCK", src |-> p, dst |-> d, excl |-> FALSE,
                                  n |-> org[p].puts[d]]}
             /\ org' = [org EXCEPT ![p].call =
                          [op |-> "unlockWait", dest |-> d, excl |-> FALSE, all |-> all]]
             /\ UNCHANGED <<scn, tgt, flight, ans>>
    <3> DEFINE c == [op |-> "unlockWait", dest |-> d, excl |-> FALSE, all |-> all]
               m == [type |-> "UNLOCK", src |-> p, dst |-> d, excl |-> FALSE,
                     n |-> org[p].puts[d]]
    <3>1. c \in Call /\ c.op # "flushAllWait" /\ m.src = p /\ m.n = org[p].puts[m.dst]
      BY DEF Call
    <3>2. /\ org' = [org EXCEPT ![p].call = c] /\ UNCHANGED <<scn, tgt, flight, ans>>
          /\ org[p].call.op \notin {"unlockWait", "flushWait", "flushAllWait"}
          /\ req' = req \cup {m}
      BY <2>2, <2>4
    <3> HIDE DEF c, m
    <3> QED
      BY <1>1, <3>1, <3>2, CallPairs
  <2> QED
    BY <2>2, <2>3, <2>4 DEF EnterUnlock
<1>7. ASSUME UnlockDone(p) PROVE PairInv'
  <2>1. PICK d \in Rank, all \in BOOLEAN : d = org[p].call.dest /\ all = org[p].call.all
    BY <1>2
  <2>2. PICK h : h = [org[p] EXCEPT !.puts[d] = 0]
    OBVIOUS
  <2>3. /\ org[p].call.op = "unlockWait" /\ UnlockAnswer(d, p) \in ans
        /\ ans' \subseteq ans /\ UNCHANGED <<scn, tgt, flight, req>>
        /\ org' = [org EXCEPT ![p] = HasUnlocked([org[p] EXCEPT !.puts[d] = 0], d, all)]
    BY <1>7, <2>1 DEF UnlockDone, InCall, UnlockAnswer
  <2>4. /\ h \in Origin /\ h.locks = org[p].locks /\ h.remote = org[p].remote
        /\ h.pend = org[p].pend /\ h.puts[d] = 0
        /\ \A t \in Rank : t # d => h.puts[t] = org[p].puts[t]
    <3>1. h \in Origin
      BY <1>2, <2>2, OriginTypes
    <3>2. org[p].puts \in [Rank -> Nat]
      BY <1>2, OriginFields
    <3> QED
      BY <1>2, <2>2, <3>1, <3>2 DEF Origin
  <2>5. org[p].remote[d] # "UNLOCKED" /\ \A t \in Rank : org[p].pend[t] = 0
    BY <1>2, <2>1, <2>3 DEF OriginOK
  <2>6. org[p].locks \in Nat \ {0}
    <3>1. PICK g : g = HasUnlocked(org[p], d, all)
      OBVIOUS
    <3> QED
      BY <1>1, <1>2, <2>5, <3>1, UnlockKeepsOrigin, OriginFields
  <2>7. PICK o : o = HasUnlocked(h, d, all)
    OBVIOUS
  <2>8. org' = [org EXCEPT ![p] = o]
    BY <2>2, <2>3, <2>7
  <2>9. /\ o \in Origin /\ o.remote[d] = "UNLOCKED" /\ o.puts = h.puts /\ o.pend = h.pend
        /\ \A t \in Rank : t # d => o.remote[t] = h.remote[t]
        /\ o.call.op \in {"unlock", "none"}
    BY <1>1, <2>4, <2>6, <2>7, UnlockRecord
  <2>10. org'[p] = o
    BY <1>1, <2>8, <2>9, OriginEffect
  <2>11. \A q, t \in Rank : SameTraffic(q, t)
    BY <2>3, NoTraffic
  <2>12. \A t \in Rank : t # d => ~AwaitsCount(p, t)
    BY <2>1, <2>3 DEF AwaitsCount, Awaits
  <2>13. \A t \in Rank : t # d => SameCounts(p, t) /\ SameCall(p, t)
    BY <2>4, <2>9, <2>10, <2>12 DEF SameCounts, SameCall
  <2>14. \A q, t \in Rank : q # p \/ (SameCounts(p, t) /\ SameCall(p, t)) => PairOK(q, t)'
    BY <1>1, <2>3, <2>8, <2>9, <2>11, RecordPairs
  <2>15. PairOK(p, d)'
    <3>1. Counted(p, d)
      BY <2>3 DEF Counted, UnlockAnswer
    <3>2. /\ Src(p, d)' = Src(p, d) /\ InFlight(p, d)' = InFlight(p, d)
          /\ Stacked(p, d)' => Stacked(p, d)
      BY <1>1, <2>11 DEF SameTraffic
    <3>3. /\ org'[p].puts[d] = 0 /\ org'[p].pend[d] = org[p].pend[d] /\ org[p].pend[d] = 0
          /\ org'[p].call.op # "flushAllWait" /\ req' = req /\ scn' = scn
      BY <2>3, <2>4, <2>5, <2>9, <2>10
    <3>4. PairOK(p, d)
      BY <1>1 DEF PairInv
    <3> QED
      BY <1>1, <3>1, <3>2, <3>3, <3>4, PairAnswered
  <2> QED
    BY <2>13, <2>14, <2>15 DEF PairInv
<1> QED
  BY <1>3, <1>4, <1>5, <1>6, <1>7

(* flush_all of p takes an answer and counts the rank d, with the call c next. *)
LEMMA FlushAllPairs ==
    ASSUME OriginInv, TokenInv, TokenInv', PairInv, NEW p \in Rank, NEW d \in Rank, NEW c \in Call,
           d = org[p].call.dest, org[p].call.op = "flushAllWait",
           org' = [org EXCEPT ![p] = HasFlushed(org[p], d, c)],
           ans' \subseteq ans, UNCHANGED <<scn, tgt, flight, req>>,
           \/ c.op = "none" /\ \A t \in Member : t >= d + 1 => t = p
           \/ c.op = "flushAllWait" /\ \A t \in Member : t < c.dest /\ t # p => t < d + 1
    PROVE  PairInv'
<1>1. TypeOK /\ org[p] \in Origin /\ Rank \subseteq Nat /\ Member \subseteq Rank
  BY MemberFacts DEF OriginInv, TypeOK
<1>2. PICK o : o = HasFlushed(org[p], d, c)
  OBVIOUS
<1>3. org' = [org EXCEPT ![p] = o]
  BY <1>2
<1>4. /\ o \in Origin /\ o.call = c /\ o.remote = org[p].remote /\ o.pend = org[p].pend
      /\ o.puts[d] = 0 /\ \A t \in Rank : t # d => o.puts[t] = org[p].puts[t]
  BY <1>1, <1>2, FlushRecord, SMTT(30)
<1>5. org'[p] = o
  BY <1>1, <1>3, <1>4, OriginEffect
<1>6. \A q, t \in Rank : SameTraffic(q, t)
  BY NoTraffic
<1>7. \A q, t \in Rank : q # p \/ (SameCounts(p, t) /\ SameCall(p, t)) => PairOK(q, t)'
  BY <1>1, <1>3, <1>4, <1>6, RecordPairs
<1>8. ASSUME NEW t \in Rank PROVE PairOK(p, t)'
  <2>1. PairOK(p, t) /\ SameTraffic(p, t)
    BY <1>6, <1>8 DEF PairInv
  <2>2. org'[p].puts[t] = 0 \/ (t # d /\ org'[p].puts[t] = org[p].puts[t])
    BY <1>4, <1>5
  <2>3. Clean(p, t) => Clean(p, t)'
    BY <1>4, <1>5, <2>1, <2>2 DEF Clean, SameTraffic
  <2>4. Member' = Member
    BY DEF Member
  <2>5. p = t \/ org'[p].remote[t] = "UNLOCKED" \/ t \notin Member' => Clean(p, t)'
    BY <1>4, <1>5, <2>1, <2>3, <2>4 DEF PairOK
  <2>6. \A m \in req' : Of(m, p, t) => Src(p, t)' = InFlight(p, t)' - m.n
    BY <2>1 DEF PairOK, SameTraffic
  <2>7. Stacked(p, t)' => Src(p, t)' = InFlight(p, t)' /\ org'[p].remote[t] # "UNLOCKED"
    BY <1>4, <1>5, <2>1 DEF PairOK, SameTraffic
  <2>8. Counted(p, t)' => Src(p, t)' = 0 /\ InFlight(p, t)' = 0
    BY <2>1 DEF PairOK, SameTraffic
  <2>9. t # p => /\ Stacked(p, t)' \/ (\E m \in req' : Of(m, p, t))
                       \/ (Src(p, t)' = 0 /\ InFlight(p, t)' = 0)
                 /\ t < d => org[p].puts[t] = 0
    BY <2>1 DEF PairOK, SameTraffic
  <2>10. CASE c.op = "none"
    <3>1. ~AwaitsCount(p, t)'
      BY <1>4, <1>5, <2>10 DEF AwaitsCount, Awaits
    <3>2. ~Stacked(p, t)' /\ \A m \in req' : ~Of(m, p, t)
      <4>1. CallOf'[p].op \notin Waiting
        BY <1>4, <1>5, <2>10 DEF CallOf, Waiting
      <4>2. ~Asked(req', p, t) /\ ~Within(StackOf'[t], p)
        BY <4>1, NoTokens DEF TokenInv, Waiting
      <4> QED
        BY <4>2 DEF Asked, Of, Stacked, StackOf
    <3>3. org'[p].puts[t] = 0
      <4>1. t \in Member \/ Clean(p, t)'
        BY <2>4, <2>5
      <4>2. t \in Member /\ t # p => t < d \/ t = d
        BY <1>1, <2>10
      <4>3. p = t => Clean(p, t)'
        BY <2>5
      <4> QED
        BY <2>2, <2>9, <4>1, <4>2, <4>3 DEF Clean
    <3>4. Src(p, t)' = 0 /\ InFlight(p, t)' = 0
      BY <2>5, <2>9, <3>2 DEF Clean
    <3> QED
      BY <1>4, <1>5, <2>5, <2>6, <2>7, <2>8, <2>10, <3>3, <3>4 DEF PairOK, Of
  <2>11. CASE c.op = "flushAllWait" /\ \A u \in Member : u < c.dest /\ u # p => u < d + 1
    <3>1. org'[p].call = c /\ org'[p].call.op = "flushAllWait"
      BY <1>4, <1>5, <2>11
    <3>2. t # p => AwaitsCount(p, t)'
      BY <3>1 DEF AwaitsCount, Awaits
    <3>3. t # p /\ t < c.dest => org'[p].puts[t] = 0
      <4>1. t \in Member \/ Clean(p, t)'
        BY <2>4, <2>5
      <4>2. t \in Member /\ t # p /\ t < c.dest => t < d \/ t = d
        BY <1>1, <2>11
      <4> QED
        BY <2>2, <2>9, <4>1, <4>2 DEF Clean
    <3>4. p = t => Src(p, t)' = InFlight(p, t)' - org'[p].puts[t]
      BY <2>5 DEF Clean
    <3>5. ~AwaitsCount(p, t)' => Src(p, t)' = InFlight(p, t)' - org'[p].puts[t]
      BY <3>2, <3>4
    <3>6. org'[p].call.op = "flushAllWait" /\ t # p =>
            /\ Stacked(p, t)' \/ (\E m \in req' : Of(m, p, t))
                  \/ (Src(p, t)' = 0 /\ InFlight(p, t)' = 0)
            /\ t < org'[p].call.dest => org'[p].puts[t] = 0
      BY <2>9, <3>1, <3>3
    <3> QED
      BY <2>5, <2>6, <2>7, <2>8, <3>5, <3>6 DEF PairOK, Of
  <2> QED
    BY <2>10, <2>11
<1> QED
  BY <1>7, <1>8 DEF PairInv

(* The steps of flush and flush_all. *)
LEMMA FlushCounts ==
    ASSUME OriginInv, TokenInv, TokenInv', PairInv, NEW p \in Member
    PROVE  /\ \A d \in Member : Win_flush(p, d) => PairInv'
           /\ \/ FlushSend(p) \/ FlushDone(p) \/ Win_flush_all(p) \/ FlushAllSend(p)
              \/ FlushAllDone(p)
              => PairInv'
<1>1. /\ p \in Rank /\ Member \subseteq Rank /\ 0 \in Rank /\ TypeOK /\ Rank \subseteq Nat
  BY MemberFacts DEF OriginInv
<1>2. org[p] \in Origin /\ org[p].call \in Call /\ org[p].call.dest \in Rank
  BY <1>1, OriginRecord, OriginFields, CallFields
<1>3. \A d : /\ FlushRequest(p, d).src = p /\ FlushRequest(p, d).dst = d
             /\ FlushRequest(p, d).type = "FLUSH" /\ FlushRequest(p, d).n = org[p].puts[d]
  BY DEF FlushRequest
<1>4. ASSUME NEW d \in Member, Win_flush(p, d) PROVE PairInv'
  <2> DEFINE c == [op |-> "flush", dest |-> d, excl |-> FALSE, all |-> FALSE]
  <2>1. c \in Call /\ c.op # "flushAllWait"
    BY <1>1 DEF Call
  <2>2. /\ org' = [org EXCEPT ![p].call = c] /\ UNCHANGED <<scn, tgt, flight, ans>> /\ req' = req
        /\ org[p].call.op \notin {"unlockWait", "flushWait", "flushAllWait"}
    BY <1>4 DEF Win_flush, Program, InCall
  <2> HIDE DEF c
  <2> QED
    BY <1>1, <2>1, <2>2, CallPairs
<1>5. ASSUME Win_flush_all(p) PROVE PairInv'
  <2> DEFINE c == [op |-> "flushAll", dest |-> 0, excl |-> FALSE, all |-> TRUE]
  <2>1. c \in Call /\ c.op # "flushAllWait"
    BY <1>1 DEF Call
  <2>2. /\ org' = [org EXCEPT ![p].call = c] /\ UNCHANGED <<scn, tgt, flight, ans>> /\ req' = req
        /\ org[p].call.op \notin {"unlockWait", "flushWait", "flushAllWait"}
    BY <1>5 DEF Win_flush_all, Program, InCall
  <2> HIDE DEF c
  <2> QED
    BY <1>1, <2>1, <2>2, CallPairs
<1>6. ASSUME FlushSend(p) PROVE PairInv'
  <2> DEFINE c == [org[p].call EXCEPT !.op = "flushWait"]
             m == FlushRequest(p, org[p].call.dest)
  <2>1. c \in Call /\ c.op = "flushWait"
    BY <1>2 DEF Call
  <2>2. org' = [org EXCEPT ![p].call = c]
    BY <1>6 DEF FlushSend
  <2>3. /\ UNCHANGED <<scn, tgt, flight, ans>> /\ req' = req \cup {m}
        /\ org[p].call.op \notin {"unlockWait", "flushWait", "flushAllWait"}
    BY <1>6 DEF FlushSend, InCall
  <2>4. m.src = p /\ m.n = org[p].puts[m.dst]
    BY <1>3
  <2> HIDE DEF c, m
  <2> QED
    BY <1>1, <2>1, <2>2, <2>3, <2>4, CallPairs
<1>7. ASSUME FlushDone(p) PROVE PairInv'
  <2>1. PICK d \in Rank : d = org[p].call.dest
    BY <1>2
  <2>2. /\ org[p].call.op = "flushWait" /\ [type |-> "FLUSH", src |-> d, dst |-> p] \in ans
        /\ ans' \subseteq ans /\ UNCHANGED <<scn, tgt, flight, req>>
        /\ org' = [org EXCEPT ![p].puts[d] = 0, ![p].call = Idle]
    BY <1>7, <2>1 DEF FlushDone, InCall
  <2>3. Idle \in Call /\ Idle.op = "none"
    BY <1>1 DEF Idle, Call
  <2>4. PICK o : o = HasFlushed(org[p], d, Idle)
    OBVIOUS
  <2>5. org' = [org EXCEPT ![p] = o]
    BY <2>2, <2>4 DEF HasFlushed
  <2>6. /\ o \in Origin /\ o.call = Idle /\ o.remote = org[p].remote /\ o.pend = org[p].pend
        /\ o.puts[d] = 0 /\ \A t \in Rank : t # d => o.puts[t] = org[p].puts[t]
    <3>1. org[p] \in Origin /\ Idle \in Call
      BY <1>2, <2>3
    <3> QED
      BY <2>4, <3>1, FlushRecord
  <2>7. org'[p] = o
    BY <1>1, <2>5, <2>6, OriginEffect
  <2>8. \A q, t \in Rank : SameTraffic(q, t)
    BY <2>2, NoTraffic
  <2>9. \A t \in Rank : t # d => ~AwaitsCount(p, t)
    BY <2>1, <2>2 DEF AwaitsCount, Awaits
  <2>10. \A t \in Rank : t # d => SameCounts(p, t) /\ SameCall(p, t)
    BY <2>3, <2>6, <2>7, <2>9 DEF SameCounts, SameCall
  <2>11. \A q, t \in Rank : q # p \/ (SameCounts(p, t) /\ SameCall(p, t)) => PairOK(q, t)'
    BY <1>1, <2>2, <2>5, <2>6, <2>8, RecordPairs
  <2>12. PairOK(p, d)'
    <3>1. Counted(p, d)
      BY <2>2 DEF Counted
    <3>2. /\ Src(p, d)' = Src(p, d) /\ InFlight(p, d)' = InFlight(p, d)
          /\ Stacked(p, d)' => Stacked(p, d)
      BY <1>1, <2>8 DEF SameTraffic
    <3>3. PairOK(p, d)
      BY <1>1 DEF PairInv
    <3>4. /\ org'[p].puts[d] = 0 /\ org'[p].pend[d] = org[p].pend[d]
          /\ org'[p].remote[d] = "UNLOCKED" => org[p].pend[d] = 0
      BY <2>6, <2>7, <3>3 DEF PairOK, Clean
    <3>5. org'[p].call.op # "flushAllWait" /\ req' = req /\ scn' = scn
      BY <2>2, <2>3, <2>6, <2>7
    <3> QED
      BY <1>1, <3>1, <3>2, <3>3, <3>4, <3>5, PairAnswered
  <2> QED
    BY <2>10, <2>11, <2>12 DEF PairInv
<1>8. ASSUME FlushAllSend(p) PROVE PairInv'
  <2>1. PICK c : c = FlushAllFrom(p, 0)
    OBVIOUS
  <2>2. PICK F : F = {FlushRequest(p, d) : d \in Member \ {p}}
    OBVIOUS
  <2>3. /\ org[p].call.op = "flushAll" /\ req' = req \cup F
        /\ org' = [org EXCEPT ![p].call = c] /\ UNCHANGED <<scn, tgt, flight, ans>>
    BY <1>8, <2>1, <2>2 DEF FlushAllSend, InCall
  <2>4. /\ c \in Call
        /\ \/ c.op = "none"
           \/ c.op = "flushAllWait" /\ \A t \in Member : t < c.dest /\ t # p => t < 0
    BY <1>1, <2>1, FlushAllNext
  <2>5. /\ \A q \in Rank : /\ org'[q].remote = org[q].remote /\ org'[q].puts = org[q].puts
                           /\ org'[q].pend = org[q].pend
        /\ org'[p].call = c /\ \A q \in Rank : q # p => org'[q] = org[q]
    BY <1>1, <2>3, <2>4, CallEffect
  <2>6. \A q, t \in Rank : \A m \in req' :
            Of(m, q, t) => m \in req \/ (q = p /\ m.n = org[p].puts[t])
    BY <1>3, <2>2, <2>3 DEF Of
  <2>7. \A t \in Member : t # p => \E m \in req' : Of(m, p, t)
    <3>1. SUFFICES ASSUME NEW t \in Member, t # p PROVE FlushRequest(p, t) \in req' /\ Of(FlushRequest(p, t), p, t)
      OBVIOUS
    <3> QED
      BY <1>3, <2>2, <2>3, <3>1 DEF Of
  <2>8. SUFFICES ASSUME NEW q \in Rank, NEW t \in Rank PROVE PairOK(q, t)'
    BY DEF PairInv
  <2>9. PairOK(q, t)
    BY DEF PairInv
  <2>10. /\ Src(q, t)' = Src(q, t) /\ InFlight(q, t)' = InFlight(q, t)
         /\ Stacked(q, t)' <=> Stacked(q, t)
         /\ Counted(q, t)' => Counted(q, t)
    BY <2>3 DEF Src, InFlight, Stacked, Counted
  <2>11. CASE q # p
    <3>1. \A m : Of(m, q, t) => (m \in req' <=> m \in req)
      BY <2>3, <2>6, <2>11
    <3>2. SameTraffic(q, t)
      BY <2>10, <3>1 DEF SameTraffic
    <3> QED
      BY <2>3, <2>5, <2>11, <3>2, OtherPair
  <2>12. CASE q = p
    <3>1. ~AwaitsCount(p, t)
      BY <1>1, <2>3, NotAwaiting
    <3>2. SameCounts(p, t)
      BY <1>1, <2>5 DEF SameCounts
    <3>3. \A m \in req' : Of(m, p, t) => m \in req \/ m.n = org[p].puts[t]
      BY <1>1, <2>6
    <3>4. t \notin Member => Clean(p, t) /\ org[p].puts[t] = 0
      BY <2>9, <2>12 DEF PairOK, Clean
    <3>5. org'[p].call.op = "flushAllWait" /\ t # p =>
              /\ Clean(p, t) \/ \E m \in req' : Of(m, p, t)
              /\ t < org'[p].call.dest => org[p].puts[t] = 0
      <4>1. t \in Member => ~(t < 0)
        BY <1>1
      <4> QED
        BY <2>4, <2>5, <2>7, <3>4, <4>1
    <3>6. scn' = scn
      BY <2>3
    <3> QED
      BY <1>1, <2>9, <2>10, <2>12, <3>1, <3>2, <3>3, <3>5, <3>6, PairAsked
  <2> QED
    BY <2>11, <2>12
<1>9. ASSUME FlushAllDone(p) PROVE PairInv'
  <2>1. PICK d \in Rank : d = org[p].call.dest
    BY <1>2
  <2>2. PICK c : c = FlushAllFrom(p, d + 1)
    OBVIOUS
  <2>3. PICK a \in ans : /\ ans' = ans \ {a}
                         /\ org' = [org EXCEPT ![p].puts[d] = 0, ![p].call = c]
    BY <1>9, <2>1, <2>2 DEF FlushAllDone
  <2>4. org[p].call.op = "flushAllWait" /\ UNCHANGED <<scn, tgt, flight, req>>
    BY <1>9 DEF FlushAllDone, InCall
  <2>5. d + 1 \in Nat
    BY <1>1
  <2>6. /\ c \in Call
        /\ \/ c.op = "none" /\ Due(scn.n, p, d + 1) = {}
           \/ c.op = "flushAllWait" /\ \A t \in Member : t < c.dest /\ t # p => t < d + 1
    BY <1>1, <2>2, <2>5, FlushAllNext
  <2>7. Due(scn.n, p, d + 1) = {} => \A t \in Member : t >= d + 1 => t = p
    BY DEF Due, Member
  <2>8. org' = [org EXCEPT ![p] = HasFlushed(org[p], d, c)]
    BY <2>3 DEF HasFlushed
  <2>9. /\ ans' \subseteq ans
        /\ \/ c.op = "none" /\ \A t \in Member : t >= d + 1 => t = p
           \/ c.op = "flushAllWait" /\ \A t \in Member : t < c.dest /\ t # p => t < d + 1
    BY <2>3, <2>6, <2>7
  <2> QED
    BY <1>1, <2>1, <2>4, <2>6, <2>8, <2>9, FlushAllPairs
<1> QED
  BY <1>4, <1>5, <1>6, <1>7, <1>8, <1>9

(* The operations and their completion at the origin. *)
LEMMA OperationCounts ==
    ASSUME OriginInv, TokenInv, PairInv, NEW p \in Member, NEW t \in Member
    PROVE  \/ Put(p, t) \/ Get(p, t) \/ Accumulate(p, t) \/ OpDone(p, t) \/ AccumulateDone(p, t)
           => PairInv'
<1> SUFFICES ASSUME \/ Put(p, t) \/ Get(p, t) \/ Accumulate(p, t) \/ OpDone(p, t)
                    \/ AccumulateDone(p, t)
             PROVE  PairInv'
  OBVIOUS
<1>1. p \in Rank /\ t \in Rank /\ TypeOK
  BY MemberFacts DEF OriginInv
<1>2. /\ \A u \in Rank : u # t => /\ org'[p].pend[u] = org[p].pend[u]
                                  /\ org'[p].puts[u] = org[p].puts[u]
      /\ \A q \in Rank : org'[q].remote = org[q].remote /\ org'[q].call = org[q].call
      /\ \A q \in Rank : q # p => org'[q] = org[q]
      /\ \/ /\ p # t /\ org[p].remote[t] # "UNLOCKED" /\ org[p].call.op = "none"
            /\ \/ /\ org'[p].puts[t] = org[p].puts[t] + 1
                  /\ flight' = [flight EXCEPT ![p][t] = @ + 1]
               \/ org'[p].puts[t] = org[p].puts[t] /\ flight' = flight
         \/ /\ org[p].pend[t] > 0
            /\ org'[p].puts[t] = org[p].puts[t] /\ flight' = flight
  BY <1>1, OperationEffect
<1>3. UNCHANGED <<scn, tgt, req, ans>>
  BY DEF Put, Get, Accumulate, OpDone, AccumulateDone
<1>4. flight \in [Rank -> [Rank -> Nat]] /\ org[p] \in Origin
  BY <1>1 DEF TypeOK
<1>5. /\ org[p].puts[t] \in Nat /\ flight[p][t] \in Nat /\ org[p].pend[t] \in Nat
      /\ tgt[t].src[p] \in Int
  BY <1>1, <1>4, OriginFields, TargetFields DEF TypeOK
<1>6. PairOK(p, t)
  BY <1>1 DEF PairInv
<1>7. p # t /\ org[p].remote[t] # "UNLOCKED"
  BY <1>2, <1>5, <1>6 DEF PairOK, Clean
<1>8. \A q, u \in Rank : flight'[q][u] = flight[q][u] \/ (q = p /\ u = t)
  BY <1>1, <1>2, <1>4
<1>9. \A q, u \in Rank : q # p \/ u # t => SameTraffic(q, u)
  <2>1. SUFFICES ASSUME NEW q \in Rank, NEW u \in Rank, q # p \/ u # t PROVE SameTraffic(q, u)
    OBVIOUS
  <2>2. flight'[q][u] = flight[q][u]
    BY <1>8, <2>1
  <2> QED
    BY <1>3, <2>2 DEF SameTraffic, Src, InFlight, Stacked, Counted
<1>10. ASSUME NEW q \in Rank, NEW u \in Rank, q # p \/ u # t PROVE PairOK(q, u)'
  <2>1. SameTraffic(q, u) /\ PairOK(q, u) /\ scn' = scn
    BY <1>3, <1>9, <1>10 DEF PairInv
  <2>2. SameCounts(q, u) /\ SameCall(q, u)
    BY <1>2, <1>10 DEF SameCounts, SameCall
  <2> QED
    BY <2>1, <2>2, PairKept
<1>11. /\ Src(p, t)' = Src(p, t) /\ (Stacked(p, t)' <=> Stacked(p, t))
       /\ Counted(p, t)' <=> Counted(p, t)
  BY <1>3 DEF Src, Stacked, Counted
<1>12a. org'[p].call = org[p].call /\ (AwaitsCount(p, t)' <=> AwaitsCount(p, t))
  BY <1>1, <1>2 DEF AwaitsCount
<1>12b. org'[p].remote[t] # "UNLOCKED" /\ t \in Member'
  BY <1>1, <1>2, <1>3, <1>7 DEF Member
<1>13. ASSUME org[p].call.op = "none", org'[p].puts[t] = org[p].puts[t] + 1,
              flight' = [flight EXCEPT ![p][t] = @ + 1]
       PROVE  PairOK(p, t)'
  <2>1. InFlight(p, t)' = InFlight(p, t) + 1
    BY <1>1, <1>4, <1>13 DEF InFlight
  <2>2. ~AwaitsCount(p, t)
    BY <1>1, <1>13, NotAwaiting
  <2>3. ~Stacked(p, t) /\ ~Counted(p, t) /\ \A m \in req : ~Of(m, p, t)
    BY <1>1, <2>2, NothingAsked
  <2>4. Src(p, t) = InFlight(p, t) - org[p].puts[t]
    BY <1>6, <2>2 DEF PairOK
  <2>5. Src(p, t)' = InFlight(p, t)' - org'[p].puts[t]
    BY <1>5, <1>11, <1>13, <2>1, <2>4 DEF InFlight
  <2>6. ~Stacked(p, t)' /\ ~Counted(p, t)' /\ \A m \in req' : ~Of(m, p, t)
    BY <1>3, <1>11, <2>3
  <2>7. org'[p].call.op # "flushAllWait"
    BY <1>12a, <1>13
  <2> QED
    BY <1>7, <1>12b, <2>5, <2>6, <2>7 DEF PairOK, Of
<1>14. ASSUME org'[p].puts[t] = org[p].puts[t], flight' = flight PROVE PairOK(p, t)'
  <2>1. InFlight(p, t)' = InFlight(p, t)
    BY <1>14 DEF InFlight
  <2>2. \A m \in req' : Of(m, p, t) => Src(p, t)' = InFlight(p, t)' - m.n
    BY <1>3, <1>6, <1>11, <2>1 DEF PairOK
  <2>3. /\ Stacked(p, t)' => Src(p, t)' = InFlight(p, t)' /\ org'[p].remote[t] # "UNLOCKED"
        /\ Counted(p, t)' => Src(p, t)' = 0 /\ InFlight(p, t)' = 0
    BY <1>6, <1>11, <1>12b, <2>1 DEF PairOK
  <2>4. ~AwaitsCount(p, t)' => Src(p, t)' = InFlight(p, t)' - org'[p].puts[t]
    BY <1>6, <1>11, <1>12a, <1>14, <2>1 DEF PairOK
  <2>5. org'[p].call.op = "flushAllWait" /\ t # p =>
            /\ Stacked(p, t)' \/ (\E m \in req' : Of(m, p, t))
                  \/ (Src(p, t)' = 0 /\ InFlight(p, t)' = 0)
            /\ t < org'[p].call.dest => org'[p].puts[t] = 0
    BY <1>3, <1>6, <1>11, <1>12a, <1>14, <2>1 DEF PairOK
  <2> QED
    BY <1>7, <1>12b, <2>2, <2>3, <2>4, <2>5 DEF PairOK, Of
<1>15. PairOK(p, t)'
  BY <1>2, <1>13, <1>14
<1> QED
  BY <1>10, <1>15 DEF PairInv

(* The arrival of an operation. *)
LEMMA ArrivalCounts ==
    ASSUME TypeOK, PairInv, NEW p \in Rank, NEW t \in Rank, OpArrives(p, t)
    PROVE  PairInv'
<1>1. /\ flight[p][t] > 0 /\ flight' = [flight EXCEPT ![p][t] = @ - 1]
      /\ tgt' = [tgt EXCEPT ![t].recvd = @ + 1, ![t].src[p] = @ - 1]
      /\ UNCHANGED <<scn, org, req, ans>>
  BY DEF OpArrives
<1>2. flight \in [Rank -> [Rank -> Nat]] /\ tgt \in [Rank -> Target]
  BY DEF TypeOK
<1>3. /\ \A u \in Rank : tgt'[u].stack = tgt[u].stack
      /\ \A u \in Rank : u # t => tgt'[u] = tgt[u]
  BY <1>1, <1>2 DEF Target
<1>4. tgt[t].src \in [Rank -> Int]
  BY <1>2, TargetFields
<1>5. /\ tgt'[t].src[p] = tgt[t].src[p] - 1
      /\ \A q \in Rank : q # p => tgt'[t].src[q] = tgt[t].src[q]
  <2>1. tgt'[t].src = [tgt[t].src EXCEPT ![p] = @ - 1]
    BY <1>1, <1>2 DEF Target
  <2> QED
    BY <1>4, <2>1
<1>6. /\ flight'[p][t] = flight[p][t] - 1
      /\ \A q, u \in Rank : q # p \/ u # t => flight'[q][u] = flight[q][u]
  BY <1>1, <1>2
<1>7. ASSUME NEW q \in Rank, NEW u \in Rank, q # p \/ u # t PROVE PairOK(q, u)'
  <2>1. SameTraffic(q, u)
    BY <1>1, <1>3, <1>5, <1>6, <1>7 DEF SameTraffic, Src, InFlight, Stacked, Counted
  <2> QED
    BY <1>1, <2>1, OtherPair
<1>8. PairOK(p, t) /\ flight[p][t] \in Nat /\ tgt[t].src[p] \in Int
  BY <1>2, <1>4 DEF PairInv
<1>9. /\ Src(p, t)' = Src(p, t) - 1 /\ InFlight(p, t)' = InFlight(p, t) - 1
      /\ Stacked(p, t)' <=> Stacked(p, t)
  BY <1>3, <1>5, <1>6 DEF Src, InFlight, Stacked
<1>10. InFlight(p, t) \in Nat /\ InFlight(p, t) > 0 /\ Src(p, t) \in Int
  BY <1>1, <1>8 DEF InFlight, Src
<1>11. p # t /\ org[p].remote[t] # "UNLOCKED" /\ t \in Member
  BY <1>8, <1>10 DEF PairOK, Clean
<1>12. org'[p].remote[t] # "UNLOCKED" /\ t \in Member'
  BY <1>1, <1>11 DEF Member
<1>13. ~Counted(p, t)'
  BY <1>1, <1>8, <1>10 DEF PairOK, Counted
<1>14. ASSUME NEW m \in req', Of(m, p, t) PROVE Src(p, t)' = InFlight(p, t)' - m.n
  <2>1. m \in req /\ m.n \in Nat
    BY <1>1, RequestFields DEF TypeOK
  <2>2. Src(p, t) = InFlight(p, t) - m.n
    BY <1>8, <1>14, <2>1 DEF PairOK
  <2> QED
    BY <1>9, <1>10, <2>1, <2>2
<1>15. Stacked(p, t)' => Src(p, t)' = InFlight(p, t)'
  BY <1>8, <1>9, <1>10 DEF PairOK
<1>16. ~AwaitsCount(p, t)' => Src(p, t)' = InFlight(p, t)' - org'[p].puts[t]
  <2>1. (AwaitsCount(p, t)' <=> AwaitsCount(p, t)) /\ org'[p].puts[t] = org[p].puts[t]
    BY <1>1 DEF AwaitsCount
  <2>2. org[p].puts[t] \in Nat
    BY OriginFields DEF TypeOK
  <2> QED
    BY <1>8, <1>9, <1>10, <2>1, <2>2 DEF PairOK
<1>17. org'[p].call.op = "flushAllWait" /\ t # p =>
          /\ Stacked(p, t)' \/ (\E m \in req' : Of(m, p, t))
          /\ t < org'[p].call.dest => org'[p].puts[t] = 0
  BY <1>1, <1>8, <1>9, <1>10 DEF PairOK
<1>18. PairOK(p, t)'
  BY <1>11, <1>12, <1>13, <1>14, <1>15, <1>16, <1>17 DEF PairOK, Of
<1> QED
  BY <1>7, <1>18 DEF PairInv

(* The end of the callback h of the window w, whose operations have all arrived. *)
LEMMA EndPairs ==
    ASSUME TypeOK, PairInv, NEW t \in Rank, NEW w \in Target, NEW h \in Request, h.type # "LOCK",
           EndCallback(t, w, h), UNCHANGED <<scn, org, flight>>,
           NEW p \in Rank, p = h.src, AwaitsCount(p, t),
           w.src[p] = 0, InFlight(p, t) = 0, ~Within(w.stack, p),
           \A q \in Rank : q # p => /\ w.src[q] = Src(q, t)
                                    /\ Within(w.stack, q) <=> Within(tgt[t].stack, q),
           \A m \in req' : ~Of(m, p, t),
           \A m : ~Of(m, p, t) => (m \in req' <=> m \in req)
    PROVE  PairInv'
<1>1. PICK a : a = [type |-> h.type, src |-> t, dst |-> h.src]
  OBVIOUS
<1>2. PICK z \in Target :
           /\ tgt' = [tgt EXCEPT ![t] = z] /\ z.src = w.src /\ z.stack = w.stack
           /\ \A b \in ans' : b \in ans \/ b = a \/ b.type = "LOCK"
  <2>1. \E z \in Target :
           /\ tgt' = [tgt EXCEPT ![t] = z]
           /\ z.src = w.src /\ z.recvd = w.recvd - h.n /\ z.stack = w.stack
           /\ \/ /\ h.type # "UNLOCK" /\ ans' = ans \cup {a}
                 /\ z.cnt = w.cnt /\ z.excl = w.excl /\ z.list = w.list
              \/ h.type = "UNLOCK" /\ GivenUp(w, z) /\ ans' = ans \cup {a}
              \/ /\ h.type = "UNLOCK" /\ HandedOn(w, z)
                 /\ ans' = (ans \cup {a}) \cup {LockAnswer(t, Head(w.list).src)}
    BY <1>1, EndEffect
  <2>2. LockAnswer(t, Head(w.list).src).type = "LOCK"
    BY DEF LockAnswer
  <2> QED
    BY <2>1, <2>2
<1>3. tgt'[t] = z /\ \A u \in Rank : u # t => tgt'[u] = tgt[u]
  BY <1>2, TargetEffect
<1>4. \A b \in ans' : b \in ans \/ b.type = "LOCK" \/ (b.src = t /\ b.dst = p)
  BY <1>1, <1>2
<1>5. ASSUME NEW q \in Rank, NEW u \in Rank, q # p \/ u # t PROVE PairOK(q, u)'
  <2>1. Src(q, u)' = Src(q, u) /\ (Stacked(q, u)' <=> Stacked(q, u))
    BY <1>2, <1>3, <1>5 DEF Src, Stacked
  <2>2. Counted(q, u)' => Counted(q, u)
    BY <1>4, <1>5 DEF Counted
  <2>3. \A m : Of(m, q, u) => (m \in req' <=> m \in req)
    BY <1>5 DEF Of
  <2>4. InFlight(q, u)' = InFlight(q, u)
    BY DEF InFlight
  <2>5. SameTraffic(q, u)
    BY <2>1, <2>2, <2>3, <2>4 DEF SameTraffic
  <2> QED
    BY <2>5, OtherPair
<1>6. PairOK(p, t)'
  <2>1. PairOK(p, t)
    BY DEF PairInv
  <2>2. Src(p, t)' = 0 /\ InFlight(p, t)' = 0 /\ ~Stacked(p, t)'
    BY <1>2, <1>3 DEF Src, InFlight, Stacked
  <2>3. AwaitsCount(p, t)' /\ Member' = Member
    BY DEF AwaitsCount, Member
  <2>4. p = t \/ org'[p].remote[t] = "UNLOCKED" \/ t \notin Member' => Clean(p, t)'
    BY <2>1, <2>2, <2>3 DEF PairOK, Clean
  <2>5. org'[p].call.op = "flushAllWait" /\ t # p =>
            (t < org'[p].call.dest => org'[p].puts[t] = 0)
    BY <2>1 DEF PairOK
  <2> QED
    BY <2>2, <2>3, <2>4, <2>5 DEF PairOK, Of
<1> QED
  BY <1>5, <1>6 DEF PairInv

(* A request for the lock is granted or queued. *)
LEMMA LockReqCounts ==
    ASSUME TypeOK, PairInv, NEW m \in req, RecvLockReq(m)
    PROVE  PairInv'
<1>1. /\ m \in Request /\ m.dst \in Rank /\ m.src \in Rank /\ m.excl \in BOOLEAN
      /\ tgt[m.dst] \in Target /\ tgt[m.dst].list \in Seq(Request)
  BY RequestFields, TargetFields DEF TypeOK
<1>2. m.type = "LOCK" /\ req' = req \ {m} /\ UNCHANGED <<scn, org, flight>>
  BY DEF RecvLockReq
<1>3. \A l : l.type # "LOCK" => (l \in req' <=> l \in req)
  BY <1>2
<1>4. ASSUME NEW z \in Target, tgt' = [tgt EXCEPT ![m.dst] = z], z.src = tgt[m.dst].src,
             z.stack = tgt[m.dst].stack, \A a \in ans' : a.type = "LOCK" \/ a \in ans
      PROVE  PairInv'
  <2>1. \A p, u \in Rank : SameTraffic(p, u)
    BY <1>1, <1>2, <1>3, <1>4, WindowTraffic
  <2> QED
    BY <1>2, <2>1, OtherPair DEF PairInv
<1>5. CASE /\ tgt' = [tgt EXCEPT ![m.dst] = Lock(@, m.excl)]
           /\ ans' = ans \cup {LockAnswer(m.dst, m.src)}
  <2>1. PICK z : z = Lock(tgt[m.dst], m.excl)
    OBVIOUS
  <2>2. z \in Target /\ z.src = tgt[m.dst].src /\ z.stack = tgt[m.dst].stack
    BY <1>1, <2>1, LockFacts
  <2>3. tgt' = [tgt EXCEPT ![m.dst] = z]
    BY <1>5, <2>1
  <2>4. \A a \in ans' : a.type = "LOCK" \/ a \in ans
    BY <1>5 DEF LockAnswer
  <2> QED
    BY <1>4, <2>2, <2>3, <2>4
<1>6. CASE tgt' = [tgt EXCEPT ![m.dst].list = Append(@, m)] /\ ans' = ans
  <2>1. PICK z : z = [tgt[m.dst] EXCEPT !.list = Append(tgt[m.dst].list, m)]
    OBVIOUS
  <2>2. Append(tgt[m.dst].list, m) \in Seq(Request)
    BY <1>1
  <2>3. z \in Target
    BY <1>1, <2>1, <2>2, TargetTypes
  <2>4. z.src = tgt[m.dst].src /\ z.stack = tgt[m.dst].stack
    BY <1>1, <2>1 DEF Target
  <2>5. tgt' = [tgt EXCEPT ![m.dst] = z]
    BY <1>6, <2>1
  <2> QED
    BY <1>4, <1>6, <2>3, <2>4, <2>5
<1> QED
  BY <1>5, <1>6 DEF RecvLockReq

(* What TokenInv says of a request, and of a callback that waits. *)
LEMMA RequestAwaited ==
    ASSUME TypeOK, TokenInv, NEW m \in req, m.type # "LOCK"
    PROVE  /\ m.src \in Rank /\ m.dst \in Rank /\ m.n \in Nat
           /\ AwaitsCount(m.src, m.dst) /\ ~Stacked(m.src, m.dst) /\ ~Counted(m.src, m.dst)
           /\ \A l \in req : Of(l, m.src, m.dst) => l = m
<1>1. m \in Request /\ m.src \in Rank /\ m.dst \in Rank /\ m.n \in Nat
      /\ m.type \in {"UNLOCK", "FLUSH"}
  BY RequestFields DEF TypeOK
<1>2. Awaits(CallOf[m.src], m.src, m.dst, m.type)
  BY DEF TokenInv, TokensOK, RequestsOK
<1>3. \A l \in req : Of(l, m.src, m.dst) => l = m
  BY DEF TokenInv, TokensOK, RequestsOK, Of
<1>4. Asked(req, m.src, m.dst)
  BY DEF Asked
<1>5. ~Within(StackOf[m.dst], m.src) /\ ~Answered(ans, m.src, m.dst)
  BY <1>1, <1>4 DEF TokenInv, TokensOK, Apart
<1> QED
  BY <1>1, <1>2, <1>3, <1>5 DEF AwaitsCount, CallOf, StackOf, Stacked, Counted, Answered

(* A callback that waits on the stack has an origin that waits for it, and nothing else of this pair is under way. *)
LEMMA CallbackAwaited ==
    ASSUME TypeOK, TokenInv, NEW t \in Rank, NEW i \in 1..Len(tgt[t].stack),
           NEW h, h = tgt[t].stack[i]
    PROVE  /\ h \in Request /\ h.src \in Rank /\ h.n \in Nat /\ h.type # "LOCK"
           /\ AwaitsCount(h.src, t) /\ Stacked(h.src, t) /\ ~Counted(h.src, t)
           /\ \A m \in req : ~Of(m, h.src, t)
           /\ \A j \in 1..Len(tgt[t].stack) : tgt[t].stack[j].src = h.src => j = i
<1>1. tgt[t].stack \in Seq(Request) /\ StackOf[t] = tgt[t].stack
  BY TargetFields DEF TypeOK, StackOf
<1>2. h \in Request /\ h.src \in Rank /\ h.n \in Nat
  BY <1>1, RequestFields
<1>3. /\ h.type \in {"UNLOCK", "FLUSH"} /\ Awaits(CallOf[h.src], h.src, t, h.type)
      /\ \A j \in 1..Len(tgt[t].stack) : tgt[t].stack[j].src = h.src => j = i
  BY <1>1 DEF TokenInv, TokensOK, StacksOK
<1>4. Within(StackOf[t], h.src)
  BY <1>1 DEF Within
<1>5. ~Asked(req, h.src, t) /\ ~Answered(ans, h.src, t)
  BY <1>2, <1>4 DEF TokenInv, TokensOK, Apart
<1> QED
  BY <1>1, <1>2, <1>3, <1>4, <1>5
  DEF AwaitsCount, CallOf, Stacked, Counted, Answered, Asked, Of

(* The request of an unlock or flush arrives. *)
LEMMA CounterCounts ==
    ASSUME TypeOK, TokenInv, PairInv, NEW m \in req, RecvCounter(m)
    PROVE  PairInv'
<1>0. m.type # "LOCK" /\ req' = req \ {m} /\ UNCHANGED <<scn, org, flight>>
  BY DEF RecvCounter
<1>1. PICK p \in Rank, t \in Rank : p = m.src /\ t = m.dst
  BY <1>0, RequestAwaited
<1>2. /\ m \in Request /\ m.n \in Nat /\ tgt[t] \in Target /\ tgt[t].stack \in Seq(Request)
      /\ tgt[t].src \in [Rank -> Int] /\ flight[p][t] \in Nat
  BY RequestFields, TargetFields DEF TypeOK
<1>3. /\ AwaitsCount(p, t) /\ ~Stacked(p, t) /\ ~Counted(p, t)
      /\ \A l \in req : Of(l, p, t) => l = m
  BY <1>0, <1>1, RequestAwaited
<1>4. Of(m, p, t) /\ PairOK(p, t)
  BY <1>0, <1>1 DEF Of, PairInv
<1>5. Src(p, t) = InFlight(p, t) - m.n /\ Src(p, t) \in Int /\ InFlight(p, t) \in Nat
  BY <1>2, <1>4 DEF PairOK, Src, InFlight
<1> DEFINE w == [tgt[t] EXCEPT !.src[p] = @ + m.n]
<1>6. tgt[t].src[p] + m.n \in Int
  BY <1>2
<1>7. w \in Target
  BY <1>2, <1>6, TargetTypes
<1>8. w.stack = tgt[t].stack /\ w.src = [tgt[t].src EXCEPT ![p] = @ + m.n]
  BY <1>2 DEF Target
<1>9. w.src[p] = InFlight(p, t) /\ \A q \in Rank : q # p => w.src[q] = Src(q, t)
  <2>1. w.src[p] = Src(p, t) + m.n /\ \A q \in Rank : q # p => w.src[q] = Src(q, t)
    BY <1>2, <1>8 DEF Src
  <2> QED
    BY <1>2, <1>5, <2>1
<1>10. \/ w.src[p] = 0 /\ EndCallback(t, w, m)
       \/ /\ w.src[p] # 0 /\ tgt' = [tgt EXCEPT ![t] = [w EXCEPT !.stack = <<m>> \o @]]
          /\ ans' = ans
  BY <1>1 DEF RecvCounter
<1> HIDE DEF w
<1>11. /\ \A l \in req' : ~Of(l, p, t)
       /\ \A l : ~Of(l, p, t) => (l \in req' <=> l \in req)
  BY <1>0, <1>3, <1>4
<1>12. CASE w.src[p] = 0 /\ EndCallback(t, w, m)
  <2>1. ~Within(w.stack, p) /\ InFlight(p, t) = 0
    BY <1>3, <1>8, <1>9, <1>12 DEF Stacked
  <2>2. \A q \in Rank : q # p => /\ w.src[q] = Src(q, t)
                                 /\ Within(w.stack, q) <=> Within(tgt[t].stack, q)
    BY <1>8, <1>9
  <2> QED
    BY <1>0, <1>1, <1>2, <1>3, <1>7, <1>11, <1>12, <2>1, <2>2, EndPairs, SMTT(90)
<1>13. CASE /\ w.src[p] # 0 /\ tgt' = [tgt EXCEPT ![t] = [w EXCEPT !.stack = <<m>> \o @]]
            /\ ans' = ans
  <2>1. PICK z : z = [w EXCEPT !.stack = <<m>> \o @]
    OBVIOUS
  <2>2. /\ <<m>> \o w.stack \in Seq(Request)
        /\ \A q : Within(<<m>> \o w.stack, q) <=> Within(w.stack, q) \/ q = m.src
    BY <1>2, <1>8, WithinPush
  <2>3. z \in Target
    BY <1>7, <2>1, <2>2, TargetTypes
  <2>4. z.src = w.src /\ z.stack = <<m>> \o w.stack
    BY <1>7, <2>1 DEF Target
  <2>5. tgt'[t] = z /\ \A u \in Rank : u # t => tgt'[u] = tgt[u]
    BY <1>13, <2>1, <2>3, TargetEffect
  <2>6. \A q \in Rank : Within(z.stack, q) <=> Within(tgt[t].stack, q) \/ q = p
    BY <1>1, <1>8, <2>2, <2>4
  <2>7. ASSUME NEW q \in Rank, NEW u \in Rank, q # p \/ u # t PROVE PairOK(q, u)'
    <3>1. Src(q, u)' = Src(q, u) /\ (Stacked(q, u)' <=> Stacked(q, u))
      BY <1>9, <2>4, <2>5, <2>6, <2>7 DEF Src, Stacked
    <3>2. Counted(q, u)' => Counted(q, u)
      BY <1>13 DEF Counted
    <3>3. \A l : Of(l, q, u) => (l \in req' <=> l \in req)
      BY <1>11, <2>7 DEF Of
    <3>4. InFlight(q, u)' = InFlight(q, u)
      BY <1>0 DEF InFlight
    <3>5. SameTraffic(q, u)
      BY <3>1, <3>2, <3>3, <3>4 DEF SameTraffic
    <3> QED
      BY <1>0, <3>5, OtherPair
  <2>8. Src(p, t)' = InFlight(p, t)' /\ InFlight(p, t)' = InFlight(p, t) /\ Stacked(p, t)'
    BY <1>0, <1>9, <2>4, <2>5, <2>6 DEF Src, InFlight, Stacked
  <2>9. p # t /\ org[p].remote[t] # "UNLOCKED" /\ t \in Member
    BY <1>4, <1>9, <1>13 DEF PairOK, Clean
  <2>10. /\ p # t /\ org'[p].remote[t] # "UNLOCKED" /\ t \in Member' /\ AwaitsCount(p, t)'
         /\ ~Counted(p, t)'
    BY <1>0, <1>3, <1>13, <2>9 DEF Member, AwaitsCount, Counted
  <2>11. org'[p].call.op = "flushAllWait" => (t < org'[p].call.dest => org'[p].puts[t] = 0)
    BY <1>0, <1>4, <2>9 DEF PairOK
  <2>12. PairOK(p, t)'
    BY <1>11, <2>8, <2>10, <2>11 DEF PairOK, Of
  <2> QED
    BY <2>7, <2>12 DEF PairInv
<1> QED
  BY <1>10, <1>12, <1>13

(* A waiting callback has seen all operations arrive. *)
LEMMA CallbackCounts ==
    ASSUME TypeOK, TokenInv, PairInv, NEW t \in Rank, CallbackDone(t)
    PROVE  PairInv'
<1>1. tgt[t] \in Target /\ tgt[t].stack \in Seq(Request) /\ tgt[t].src \in [Rank -> Int]
  BY TargetFields DEF TypeOK
<1>2. PICK h : h = Head(tgt[t].stack)
  OBVIOUS
<1> DEFINE w == [tgt[t] EXCEPT !.stack = Tail(@)]
<1>3. /\ tgt[t].stack # <<>> /\ tgt[t].src[h.src] = 0 /\ EndCallback(t, w, h)
      /\ UNCHANGED <<scn, org, flight, req>>
  BY <1>2 DEF CallbackDone
<1>4. \A i, j \in 1..Len(tgt[t].stack) : tgt[t].stack[i].src = tgt[t].stack[j].src => i = j
  BY DEF TokenInv, TokensOK, StacksOK, StackOf
<1>5. /\ Tail(tgt[t].stack) \in Seq(Request) /\ h = tgt[t].stack[1] /\ 1 \in 1..Len(tgt[t].stack)
      /\ \A q : Within(Tail(tgt[t].stack), q) <=> Within(tgt[t].stack, q) /\ q # h.src
  BY <1>1, <1>2, <1>3, <1>4, WithinTail, SMTT(30)
<1>6. /\ h \in Request /\ h.src \in Rank /\ h.n \in Nat /\ h.type # "LOCK"
      /\ AwaitsCount(h.src, t) /\ Stacked(h.src, t)
      /\ \A m \in req : ~Of(m, h.src, t)
  BY <1>5, CallbackAwaited
<1>7. w \in Target
  BY <1>1, <1>5, TargetTypes
<1>8. w.src = tgt[t].src /\ w.stack = Tail(tgt[t].stack)
  BY <1>1 DEF Target
<1> HIDE DEF w
<1>9. PICK p \in Rank : p = h.src
  BY <1>6
<1>10. InFlight(p, t) = 0
  BY <1>3, <1>6, <1>9 DEF PairInv, PairOK, Src
<1>11. /\ w.src[p] = 0 /\ ~Within(w.stack, p)
       /\ \A q \in Rank : q # p => /\ w.src[q] = Src(q, t)
                                   /\ Within(w.stack, q) <=> Within(tgt[t].stack, q)
  BY <1>3, <1>5, <1>8, <1>9 DEF Src
<1>12. \A m \in req' : ~Of(m, p, t)
  BY <1>3, <1>6, <1>9
<1> QED
  BY <1>3, <1>6, <1>7, <1>9, <1>10, <1>11, <1>12, EndPairs

-----------------------------------------------------------------------------
(* The invariant and what follows from it *)

(* Nothing is counted at first. *)
LEMMA PairInit == Init => PairInv
<1> SUFFICES ASSUME Init, NEW p \in Rank, NEW t \in Rank PROVE PairOK(p, t)
  BY DEF PairInv
<1>1. org[p].puts[t] = 0 /\ org[p].pend[t] = 0 /\ org[p].call = Idle
  BY DEF Init
<1>2. Src(p, t) = 0 /\ InFlight(p, t) = 0 /\ tgt[t].stack = <<>>
  BY DEF Init, Src, InFlight
<1>3. Clean(p, t) /\ ~Stacked(p, t) /\ org[p].call.op # "flushAllWait"
  BY <1>1, <1>2 DEF Clean, Stacked, Within, Idle
<1>4. req = {} /\ ~Counted(p, t)
  BY DEF Init, Counted
<1> QED
  BY <1>1, <1>2, <1>3, <1>4 DEF PairOK

(* Every step keeps the counters of every pair in order. *)
LEMMA PairStep == OriginInv /\ TokenInv /\ TokenInv' /\ PairInv /\ [Next]_vars => PairInv'
<1> SUFFICES ASSUME OriginInv, TokenInv, TokenInv', PairInv, [Next]_vars PROVE PairInv'
  OBVIOUS
<1>1. Member \subseteq Rank /\ TypeOK
  BY MemberFacts DEF OriginInv
<1>2. ASSUME NEW p \in Member, ProgramStep(p) PROVE PairInv'
  BY <1>2, LockCounts, UnlockCounts, FlushCounts, OperationCounts DEF ProgramStep
<1>3. ASSUME NEW p \in Member, CallStep(p) PROVE PairInv'
  BY <1>3, LockCounts, UnlockCounts, FlushCounts DEF CallStep
<1>4. ASSUME NEW p \in Member, CallbackDone(p) PROVE PairInv'
  BY <1>1, <1>4, CallbackCounts
<1>5. ASSUME NEW p \in Member, NEW t \in Member, CompletionStep(p, t) PROVE PairInv'
  BY <1>1, <1>5, OperationCounts, ArrivalCounts DEF CompletionStep
<1>6. ASSUME NEW p \in Member, NEW t \in Member, RequestStep(p, t) PROVE PairInv'
  BY <1>1, <1>6, LockReqCounts, CounterCounts DEF RequestStep
<1>7. ASSUME UNCHANGED vars PROVE PairInv'
  <2>1. \A p, t \in Rank : SameTraffic(p, t) /\ org'[p] = org[p] /\ scn' = scn
    BY <1>7, NoTraffic DEF vars
  <2> QED
    BY <2>1, OtherPair DEF PairInv
<1> QED
  BY <1>2, <1>3, <1>4, <1>5, <1>6, <1>7 DEF Next

CountingInv == LockingInv /\ PairInv

(* In every reachable state the counters of every origin and target fit the    *)
(* operations that are on their way.                                           *)
THEOREM PairInvHolds == Spec => []CountingInv
<1>1. Init => PairInv
  BY PairInit
<1>2. LockingInv /\ LockingInv' /\ PairInv /\ [Next]_vars => PairInv'
  BY PairStep DEF LockingInv
<1> QED
  BY <1>1, <1>2, LockInvHolds, PTL DEF Spec, CountingInv

(* Whoever may still touch a window holds its lock. *)
LEMMA AccessorHolds ==
    ASSUME CountingInv, NEW p \in Rank, NEW t \in Rank, Accesses(p, t)
    PROVE  Holds(p, t) /\ org[p].remote[t] # "UNLOCKED"
<1>1. TypeOK /\ TokenInv /\ PairOK(p, t) /\ OriginOK(p, org[p])
  BY DEF CountingInv, LockingInv, PairInv, OriginInv, OriginsOK
<1>2. flight[p][t] \in Nat /\ org[p].pend[t] \in Nat
  BY <1>1, OriginFields DEF TypeOK
<1>3. UnlockAnswer(t, p) \in ans =>
          org[p].call.op = "unlockWait" /\ org[p].call.dest = t /\ t # p
  BY <1>1, AnswerAwaited
<1>4. UnlockAnswer(t, p) \in ans => Counted(p, t)
  BY DEF UnlockAnswer, Counted
<1>5. org[p].remote[t] # "UNLOCKED"
  BY <1>1, <1>2 DEF Accesses, PairOK, Clean, InFlight
<1>6. UnlockAnswer(t, p) \notin ans
  BY <1>1, <1>2, <1>3, <1>4 DEF Accesses, PairOK, InFlight, OriginOK
<1> QED
  BY <1>5, <1>6 DEF Holds

(* An exclusive lock excludes every other access to the window, operations of  *)
(* earlier holders that are on their way included, in every reachable state.   *)
THEOREM MutualExclusionHolds == Spec => []MutualExclusion
<1>1. CountingInv => MutualExclusion
  <2> SUFFICES ASSUME CountingInv, NEW t \in Rank, NEW p \in Rank, NEW q \in Rank, p # q,
                      Accesses(p, t), Accesses(q, t)
               PROVE  ~org[p].mode[t] /\ ~org[q].mode[t]
    BY DEF MutualExclusion
  <2>1. /\ Holds(p, t) /\ org[p].remote[t] # "UNLOCKED"
        /\ Holds(q, t) /\ org[q].remote[t] # "UNLOCKED"
    BY AccessorHolds
  <2>2. LockOK(t)
    BY DEF CountingInv, LockingInv, LockInv
  <2>3. ~tgt[t].excl
    BY <2>1, <2>2, HolderCount DEF LockOK
  <2> QED
    BY <2>1, <2>2, <2>3 DEF LockOK, Exclusive
<1> QED
  BY <1>1, PairInvHolds, PTL

(* Only the end of its call changes the call of a process that waits for the   *)
(* answer to unlock, flush or flush_all.                                       *)
LEMMA OnlyReturnChanges ==
    ASSUME OriginInv, Next, NEW p \in Rank,
           org[p].call.op \in {"unlockWait", "flushWait", "flushAllWait"},
           org'[p].call # org[p].call
    PROVE  p \in Member /\ (UnlockDone(p) \/ FlushDone(p) \/ FlushAllDone(p))
<1>1. org \in [Rank -> Origin] /\ Member \subseteq Rank /\ scn.targets \subseteq Rank
  BY MemberFacts DEF OriginInv, TypeOK
<1>2. ASSUME NEW q \in Rank, NEW o, org' = [org EXCEPT ![q] = o], q # p PROVE FALSE
  BY <1>1, <1>2
<1>3. ASSUME NEW q \in Rank, NEW c, org' = [org EXCEPT ![q].call = c], q # p PROVE FALSE
  BY <1>1, <1>3
<1>4. ASSUME NEW q \in Rank, NEW d, NEW x, NEW all, EnterLock(q, d, x, all) PROVE q = p
  BY <1>2, <1>3, <1>4 DEF EnterLock
<1>5. ASSUME NEW q \in Rank, NEW d, NEW all, EnterUnlock(q, d, all) PROVE q = p
  BY <1>2, <1>3, <1>5 DEF EnterUnlock
<1>6. ASSUME NEW q \in Member, ProgramStep(q) PROVE FALSE
  <2>0. q \in Rank
    BY <1>1
  <2>1. CASE \E d \in scn.targets, x \in scn.modes : Win_lock(q, d, x)
    BY <1>4, <2>0, <2>1 DEF Win_lock, Program, InCall
  <2>2. CASE \E d \in Member : Win_unlock(q, d) \/ Win_flush(q, d)
    BY <1>3, <2>0, <2>2 DEF Win_unlock, Win_flush, Program, InCall
  <2>3. CASE Win_lock_all(q) \/ Win_unlock_all(q) \/ Win_flush_all(q)
    BY <1>3, <2>0, <2>3 DEF Win_lock_all, Win_unlock_all, Win_flush_all, Program, InCall
  <2>4. CASE \E t \in Member : Put(q, t) \/ Get(q, t) \/ Accumulate(q, t)
    <3>1. PICK t \in Member : Put(q, t) \/ Get(q, t) \/ Accumulate(q, t)
      BY <2>4
    <3>2. org'[p].call = org[p].call
      BY <1>1, <2>0, <3>1, OperationEffect
    <3> QED
      BY <3>2
  <2> QED
    BY <1>6, <2>1, <2>2, <2>3, <2>4 DEF ProgramStep
<1>7. ASSUME NEW q \in Member, CallStep(q)
      PROVE  q = p /\ (UnlockDone(p) \/ FlushDone(p) \/ FlushAllDone(p))
  <2>0. q \in Rank
    BY <1>1
  <2>1. CASE LockAllNext(q) \/ LockAllRefused(q) \/ LockDone(q)
    BY <1>2, <1>3, <1>4, <2>0, <2>1 DEF LockAllNext, LockAllRefused, LockDone, InCall
  <2>2. CASE UnlockSend(q) \/ UnlockAllRefused(q)
    BY <1>3, <1>5, <2>0, <2>2 DEF UnlockSend, UnlockAllRefused, InCall
  <2>3. CASE FlushSend(q) \/ FlushAllSend(q)
    <3>1. q # p \/ org[q].call.op \in {"flush", "flushAll"}
      BY <2>3 DEF FlushSend, FlushAllSend, InCall
    <3>2. q # p
      BY <3>1
    <3>3. org'[p] = org[p]
      BY <1>1, <2>0, <2>3, <3>2 DEF FlushSend, FlushAllSend
    <3> QED
      BY <3>3
  <2>4. CASE UnlockDone(q) \/ FlushDone(q) \/ FlushAllDone(q)
    <3>1. q = p
      <4>1. CASE UnlockDone(q)
        BY <1>2, <2>0, <4>1 DEF UnlockDone
      <4>2. ASSUME FlushDone(q) \/ FlushAllDone(q), q # p PROVE FALSE
        <5>1. org'[p] = org[p]
          BY <1>1, <2>0, <4>2 DEF FlushDone, FlushAllDone
        <5> QED
          BY <5>1
      <4> QED
        BY <2>4, <4>1, <4>2
    <3> QED
      BY <2>4, <3>1
  <2> QED
    BY <1>7, <2>1, <2>2, <2>3, <2>4 DEF CallStep
<1>8. ASSUME NEW q \in Member, CallbackDone(q) PROVE FALSE
  BY <1>8 DEF CallbackDone
<1>9. ASSUME NEW q \in Member, NEW t \in Member, CompletionStep(q, t) PROVE FALSE
  <2>1. CASE OpArrives(q, t)
    BY <2>1 DEF OpArrives
  <2>2. CASE OpDone(q, t) \/ AccumulateDone(q, t)
    <3>1. org'[p].call = org[p].call
      BY <1>1, <2>2, OperationEffect
    <3> QED
      BY <3>1
  <2> QED
    BY <1>9, <2>1, <2>2 DEF CompletionStep
<1>10. ASSUME NEW q \in Member, NEW t \in Member, RequestStep(q, t) PROVE FALSE
  BY <1>10 DEF RequestStep, RecvLockReq, RecvCounter
<1> QED
  BY <1>6, <1>7, <1>8, <1>9, <1>10 DEF Next

(* When unlock, flush or flush_all returns, every put and accumulate to the    *)
(* target has arrived there, in every step of every program.                   *)
THEOREM RemoteCompletionHolds == Spec => RemoteCompletion
<1>1. CountingInv /\ CountingInv' /\ [Next]_vars =>
          [\A p, d \in Rank : ReturnsFrom(p, d) => flight[p][d] = 0 /\ tgt[d].src[p] = 0]_vars
  <2> SUFFICES ASSUME CountingInv, CountingInv', [Next]_vars,
                      NEW p \in Rank, NEW d \in Rank, ReturnsFrom(p, d)
               PROVE  flight[p][d] = 0 /\ tgt[d].src[p] = 0
    OBVIOUS
  <2>1. OriginInv /\ TokenInv /\ TokenInv' /\ PairOK(p, d)
    BY DEF CountingInv, LockingInv, PairInv
  <2>2. /\ d # p /\ org[p].call.op \in {"unlockWait", "flushWait", "flushAllWait"}
        /\ org'[p].call # org[p].call
        /\ \/ org[p].call.op # "flushAllWait" /\ org[p].call.dest = d
           \/ org[p].call.op = "flushAllWait" /\ org'[p].call = Idle
    BY DEF ReturnsFrom
  <2>3. Next
    BY <2>2 DEF vars
  <2>4. UnlockDone(p) \/ FlushDone(p) \/ FlushAllDone(p)
    BY <2>1, <2>2, <2>3, OnlyReturnChanges
  <2>5. CASE UnlockDone(p) \/ FlushDone(p)
    <3>1. org[p].call.dest = d
      BY <2>2, <2>5 DEF UnlockDone, FlushDone, InCall
    <3>2. Counted(p, d)
      BY <2>5, <3>1 DEF UnlockDone, FlushDone, Counted
    <3> QED
      BY <2>1, <3>2 DEF PairOK, InFlight, Src
  <2>6. CASE FlushAllDone(p)
    <3>1. org[p].call.op = "flushAllWait" /\ org'[p].call = Idle /\ tgt' = tgt /\ req' = req
      BY <2>2, <2>6 DEF FlushAllDone, InCall
    <3>2. CallOf'[p].op \notin {"lockWait", "unlockWait", "flushWait", "flushAllWait"}
      BY <3>1 DEF CallOf, Idle
    <3>3. ~Asked(req', p, d) /\ ~Within(StackOf'[d], p)
      BY <2>1, <3>2, NoTokens DEF TokenInv
    <3>4. ~Stacked(p, d) /\ ~\E m \in req : Of(m, p, d)
      BY <3>1, <3>3 DEF Stacked, StackOf, Asked, Of
    <3> QED
      BY <2>1, <2>2, <3>1, <3>4 DEF PairOK, InFlight, Src
  <2> QED
    BY <2>4, <2>5, <2>6
<1> QED
  BY <1>1, PairInvHolds, PTL DEF Spec, RemoteCompletion

-----------------------------------------------------------------------------
(* The invariant of what a target has received *)

(* The callback of p that waits at the window w was told of b operations; none *)
(* was told of any if there is no such callback.                               *)
Reports(w, p, b) ==
    \/ ~Within(w.stack, p) /\ b = 0
    \/ \E i \in 1..Len(w.stack) : w.stack[i].src = p /\ w.stack[i].n = b

(* The operations that have arrived at w and that no callback has answered:    *)
(* the k-th of p is one of them.                                               *)
Unit(w, p, k) == \E b \in Nat : Reports(w, p, b) /\ w.src[p] + k <= b
Unanswered(w) == {x \in Rank \X (Nat \ {0}) : Unit(w, x[1], x[2])}

(* No more operations are expected than were reported, and                     *)
(* rma_puts_accs_received counts those that have arrived and are not answered.  *)
ReceivedOK(w) ==
    /\ \A p \in Rank : \A b \in Nat : Reports(w, p, b) => w.src[p] <= b
    /\ IsFiniteSet(Unanswered(w)) /\ w.recvd = Cardinality(Unanswered(w))

ReceivedInv == \A t \in Rank : ReceivedOK(tgt[t])

(* A callback is the only one of its origin. *)
LEMMA OneReport ==
    ASSUME NEW w \in Target, \A i, j \in 1..Len(w.stack) : w.stack[i].src = w.stack[j].src => i = j
    PROVE  /\ \A p : ~Within(w.stack, p) => \A b \in Nat : Reports(w, p, b) <=> b = 0
           /\ \A i \in 1..Len(w.stack) :
                 /\ w.stack[i].n \in Nat
                 /\ \A b \in Nat : Reports(w, w.stack[i].src, b) <=> b = w.stack[i].n
           /\ \A p : \E c \in Nat : \A b \in Nat : Reports(w, p, b) <=> b = c
<1>1. w.stack \in Seq(Request)
  BY TargetFields
<1>2. \A p : ~Within(w.stack, p) => \A b \in Nat : Reports(w, p, b) <=> b = 0
  BY DEF Reports, Within
<1>3. ASSUME NEW i \in 1..Len(w.stack)
      PROVE  /\ w.stack[i].n \in Nat
             /\ \A b \in Nat : Reports(w, w.stack[i].src, b) <=> b = w.stack[i].n
  <2>1. w.stack[i] \in Request
    BY <1>1
  <2>2. w.stack[i].n \in Nat
    BY <2>1, RequestFields
  <2> QED
    BY <2>2 DEF Reports, Within
<1>4. ASSUME NEW p PROVE \E c \in Nat : \A b \in Nat : Reports(w, p, b) <=> b = c
  <2>1. CASE ~Within(w.stack, p)
    BY <1>2, <2>1
  <2>2. CASE Within(w.stack, p)
    <3>1. PICK i \in 1..Len(w.stack) : w.stack[i].src = p
      BY <2>2 DEF Within
    <3> QED
      BY <1>3, <3>1
  <2> QED
    BY <2>1, <2>2
<1> QED
  BY <1>2, <1>3, <1>4

(* The operations of one origin, when b of them are reported. *)
LEMMA UnitsUpTo ==
    ASSUME NEW w, NEW p, NEW b \in Nat, \A c \in Nat : Reports(w, p, c) <=> c = b,
           w.src[p] \in Int
    PROVE  \A k \in Nat \ {0} : Unit(w, p, k) <=> k <= b - w.src[p]
BY DEF Unit

(* A window where the operations of the other origins are the same. *)
LEMMA OtherUnits ==
    ASSUME NEW w, NEW z, NEW q, z.src[q] = w.src[q],
           \A b \in Nat : Reports(z, q, b) <=> Reports(w, q, b)
    PROVE  \A k : Unit(z, q, k) <=> Unit(w, q, k)
BY DEF Unit

(* Nothing is received, answered or reported. *)
LEMMA ReceivedKept ==
    ASSUME NEW w \in Target, NEW z \in Target, ReceivedOK(w), z.recvd = w.recvd,
           z.src = w.src, z.stack = w.stack
    PROVE  ReceivedOK(z)
<1>1. \A p, b : Reports(z, p, b) <=> Reports(w, p, b)
  BY DEF Reports
<1>2. \A p, k : Unit(z, p, k) <=> Unit(w, p, k)
  BY <1>1 DEF Unit
<1>3. Unanswered(z) = Unanswered(w)
  BY <1>2 DEF Unanswered
<1> QED
  BY <1>1, <1>3 DEF ReceivedOK

(* An operation of p arrives. *)
LEMMA OneReceived ==
    ASSUME NEW w \in Target, NEW z \in Target, NEW p \in Rank, NEW b \in Nat, ReceivedOK(w),
           \A c \in Nat : Reports(w, p, c) <=> c = b,
           z.stack = w.stack, z.recvd = w.recvd + 1, z.src[p] = w.src[p] - 1,
           \A q \in Rank : q # p => z.src[q] = w.src[q]
    PROVE  ReceivedOK(z)
<1>1. w.src \in [Rank -> Int] /\ z.src \in [Rank -> Int] /\ w.recvd \in Int
  BY TargetFields
<1>2. w.src[p] \in Int /\ z.src[p] \in Int /\ w.src[p] <= b
  BY <1>1 DEF ReceivedOK
<1>3. \A q, c : Reports(z, q, c) <=> Reports(w, q, c)
  BY DEF Reports
<1>4. PICK k0 : k0 = b - w.src[p] + 1
  OBVIOUS
<1>5. k0 \in Nat \ {0}
  BY <1>2, <1>4
<1>6. \A c \in Nat : Reports(z, p, c) <=> c = b
  BY <1>3
<1>7. \A k \in Nat \ {0} : Unit(w, p, k) <=> k <= b - w.src[p]
  BY <1>2, UnitsUpTo
<1>8. \A k \in Nat \ {0} : Unit(z, p, k) <=> k <= b - z.src[p]
  BY <1>2, <1>6, UnitsUpTo
<1>9. \A k \in Nat \ {0} : Unit(z, p, k) <=> Unit(w, p, k) \/ k = k0
  BY <1>2, <1>4, <1>7, <1>8
<1>10. ~Unit(w, p, k0)
  BY <1>2, <1>4, <1>5, <1>7
<1>11. \A q \in Rank : q # p => \A k : Unit(z, q, k) <=> Unit(w, q, k)
  BY <1>3, OtherUnits
<1>12. PICK u : u = <<p, k0>>
  OBVIOUS
<1>13. /\ u \in Rank \X (Nat \ {0}) /\ u[1] = p /\ u[2] = k0
       /\ \A x \in Rank \X (Nat \ {0}) : /\ x[1] \in Rank /\ x[2] \in Nat \ {0}
                                         /\ x[1] = p /\ x[2] = k0 => x = u
  BY <1>5, <1>12
<1>14. Unanswered(z) = Unanswered(w) \cup {u} /\ u \notin Unanswered(w)
  <2>1. \A x \in Rank \X (Nat \ {0}) :
            Unit(z, x[1], x[2]) <=> Unit(w, x[1], x[2]) \/ x = u
    BY <1>9, <1>11, <1>13
  <2> QED
    BY <1>10, <1>13, <2>1 DEF Unanswered
<1>15. /\ IsFiniteSet(Unanswered(z))
       /\ Cardinality(Unanswered(z)) = Cardinality(Unanswered(w)) + 1
  BY <1>14, FS_AddElement DEF ReceivedOK
<1>16. ASSUME NEW q \in Rank, NEW c \in Nat, Reports(z, q, c) PROVE z.src[q] <= c
  <2>1. Reports(w, q, c) /\ w.src[q] <= c
    BY <1>3, <1>16 DEF ReceivedOK
  <2> QED
    BY <1>2, <2>1
<1> QED
  BY <1>15, <1>16 DEF ReceivedOK

(* The callback of p that was told of n operations ends; all had arrived. *)
LEMMA AllAnswered ==
    ASSUME NEW w \in Target, NEW z \in Target, NEW p \in Rank, NEW b \in Nat, NEW n \in Nat,
           ReceivedOK(w), \A c \in Nat : Reports(w, p, c) <=> c = b, b - w.src[p] = n,
           \A c \in Nat : Reports(z, p, c) <=> c = 0, z.src[p] = 0,
           z.recvd = w.recvd - n,
           \A q \in Rank : q # p => z.src[q] = w.src[q],
           \A q \in Rank : q # p => \A c \in Nat : Reports(z, q, c) <=> Reports(w, q, c)
    PROVE  ReceivedOK(z)
<1>1. w.src \in [Rank -> Int] /\ w.recvd \in Int
  BY TargetFields
<1>2. w.src[p] \in Int
  BY <1>1
<1>3. \A k \in Nat \ {0} : Unit(w, p, k) <=> k <= n
  BY <1>2, UnitsUpTo
<1>4. \A k \in Nat \ {0} : ~Unit(z, p, k)
  <2>1. \A k \in Nat \ {0} : Unit(z, p, k) <=> k <= 0 - z.src[p]
    BY UnitsUpTo
  <2> QED
    BY <2>1
<1>5. \A q \in Rank : q # p => \A k : Unit(z, q, k) <=> Unit(w, q, k)
  BY OtherUnits
<1>6. PICK U : U = {p} \X (1..n)
  OBVIOUS
<1>7. IsFiniteSet(U) /\ Cardinality(U) = n
  <2>1. IsFiniteSet({p}) /\ Cardinality({p}) = 1
    BY FS_Singleton
  <2>2. IsFiniteSet(1..n) /\ Cardinality(1..n) = n
    BY FS_Interval
  <2>3. IsFiniteSet(U) /\ Cardinality(U) = 1 * n
    BY <1>6, <2>1, <2>2, FS_Product
  <2> QED
    BY <2>3
<1>8. \A x \in Rank \X (Nat \ {0}) : x \in U <=> x[1] = p /\ x[2] <= n
  BY <1>6
<1>9. U \subseteq Rank \X (Nat \ {0})
  BY <1>6
<1>10. \A x \in Rank \X (Nat \ {0}) : x[1] \in Rank /\ x[2] \in Nat \ {0}
  OBVIOUS
<1>11. Unanswered(z) = Unanswered(w) \ U /\ Unanswered(w) \cap U = U
  <2>1. \A x \in Rank \X (Nat \ {0}) : Unit(z, x[1], x[2]) <=> Unit(w, x[1], x[2]) /\ x \notin U
    BY <1>3, <1>4, <1>5, <1>8, <1>10
  <2>2. \A x \in U : Unit(w, x[1], x[2])
    BY <1>3, <1>8, <1>9, <1>10
  <2> QED
    BY <1>9, <2>1, <2>2 DEF Unanswered
<1>12. /\ IsFiniteSet(Unanswered(z))
       /\ Cardinality(Unanswered(z)) = Cardinality(Unanswered(w)) - n
  <2>1. PICK V : V = Unanswered(w)
    OBVIOUS
  <2>2. IsFiniteSet(V) /\ V \cap U = U /\ Unanswered(z) = V \ U
    BY <1>11, <2>1 DEF ReceivedOK
  <2>3. IsFiniteSet(V \ U) /\ Cardinality(V \ U) = Cardinality(V) - Cardinality(V \cap U)
    BY <2>2, FS_Difference
  <2> QED
    BY <1>7, <2>1, <2>2, <2>3
<1>13. ASSUME NEW q \in Rank, NEW c \in Nat, Reports(z, q, c) PROVE z.src[q] <= c
  BY <1>13 DEF ReceivedOK
<1> QED
  BY <1>12, <1>13 DEF ReceivedOK

(* A callback of p that was told of n operations starts to wait. *)
LEMMA CallbackWaits ==
    ASSUME NEW w \in Target, NEW z \in Target, NEW p \in Rank, NEW n \in Nat,
           ReceivedOK(w), \A c \in Nat : Reports(w, p, c) <=> c = 0,
           \A c \in Nat : Reports(z, p, c) <=> c = n, z.src[p] = w.src[p] + n,
           z.recvd = w.recvd,
           \A q \in Rank : q # p => z.src[q] = w.src[q],
           \A q \in Rank : q # p => \A c \in Nat : Reports(z, q, c) <=> Reports(w, q, c)
    PROVE  ReceivedOK(z)
<1>1. w.src \in [Rank -> Int] /\ z.src \in [Rank -> Int]
  BY TargetFields
<1>2. w.src[p] \in Int /\ z.src[p] \in Int
  BY <1>1
<1>3. \A k \in Nat \ {0} : Unit(w, p, k) <=> k <= 0 - w.src[p]
  BY <1>2, UnitsUpTo
<1>4. \A k \in Nat \ {0} : Unit(z, p, k) <=> k <= n - z.src[p]
  BY <1>2, UnitsUpTo
<1>5. \A k \in Nat \ {0} : Unit(z, p, k) <=> Unit(w, p, k)
  BY <1>2, <1>3, <1>4
<1>6. \A q \in Rank : \A k \in Nat \ {0} : Unit(z, q, k) <=> Unit(w, q, k)
  BY <1>5, OtherUnits
<1>7. \A x \in Rank \X (Nat \ {0}) : x[1] \in Rank /\ x[2] \in Nat \ {0}
  OBVIOUS
<1>8. Unanswered(z) = Unanswered(w)
  BY <1>6, <1>7 DEF Unanswered
<1>9. ASSUME NEW q \in Rank, NEW c \in Nat, Reports(z, q, c) PROVE z.src[q] <= c
  <2>1. CASE q = p
    <3>1. w.src[p] <= 0
      BY DEF ReceivedOK
    <3> QED
      BY <1>2, <1>9, <2>1, <3>1
  <2>2. CASE q # p
    BY <1>9, <2>2 DEF ReceivedOK
  <2> QED
    BY <2>1, <2>2
<1> QED
  BY <1>8, <1>9 DEF ReceivedOK

(* The steps of origins and the grants of locks do not touch what targets have *)
(* received.                                                                   *)
LEMMA WindowsKept ==
    ASSUME TypeOK
    PROVE  /\ \A p \in Member : ProgramStep(p) \/ CallStep(p) =>
                 \A t \in Rank : /\ tgt'[t].src = tgt[t].src /\ tgt'[t].stack = tgt[t].stack
                                 /\ tgt'[t].recvd = tgt[t].recvd
           /\ \A m \in req : RecvLockReq(m) =>
                 \A t \in Rank : /\ tgt'[t].src = tgt[t].src /\ tgt'[t].stack = tgt[t].stack
                                 /\ tgt'[t].recvd = tgt[t].recvd
<1> DEFINE Same == \A t \in Rank : /\ tgt'[t].src = tgt[t].src /\ tgt'[t].stack = tgt[t].stack
                                   /\ tgt'[t].recvd = tgt[t].recvd
<1>1. /\ tgt \in [Rank -> Target] /\ Member \subseteq Rank /\ scn.modes \subseteq BOOLEAN
      /\ req \subseteq Request
  BY MemberFacts DEF TypeOK
<1>2. ASSUME NEW t \in Rank, NEW z \in Target, tgt' = [tgt EXCEPT ![t] = z],
             z.src = tgt[t].src, z.stack = tgt[t].stack, z.recvd = tgt[t].recvd
      PROVE  Same
  <2>1. tgt'[t] = z /\ \A u \in Rank : u # t => tgt'[u] = tgt[u]
    BY <1>2, TargetEffect
  <2> QED
    BY <1>2, <2>1
<1>3. tgt' = tgt => Same
  OBVIOUS
<1> HIDE DEF Same
<1>4. ASSUME NEW t \in Rank, NEW x \in BOOLEAN, tgt' = [tgt EXCEPT ![t] = Lock(@, x)] PROVE Same
  <2>1. PICK z : z = Lock(tgt[t], x)
    OBVIOUS
  <2>2. /\ z \in Target /\ z.src = tgt[t].src /\ z.stack = tgt[t].stack
        /\ z.recvd = tgt[t].recvd
    BY <1>1, <2>1, LockFacts
  <2>3. tgt' = [tgt EXCEPT ![t] = z]
    BY <1>4, <2>1
  <2> QED
    BY <1>2, <2>2, <2>3
<1>5. ASSUME NEW t \in Rank, tgt' = [tgt EXCEPT ![t] = DoUnlock(@)] PROVE Same
  <2>1. PICK z : z = DoUnlock(tgt[t])
    OBVIOUS
  <2>2. /\ z \in Target /\ z.src = tgt[t].src /\ z.stack = tgt[t].stack
        /\ z.recvd = tgt[t].recvd
    BY <1>1, <2>1, DoUnlockFacts
  <2>3. tgt' = [tgt EXCEPT ![t] = z]
    BY <1>5, <2>1
  <2> QED
    BY <1>2, <2>2, <2>3
<1>6. ASSUME NEW p \in Rank, NEW d, NEW x \in BOOLEAN, NEW all, EnterLock(p, d, x, all) PROVE Same
  BY <1>3, <1>4, <1>6 DEF EnterLock
<1>7. ASSUME NEW p \in Rank, NEW d, NEW all, EnterUnlock(p, d, all) PROVE Same
  BY <1>3, <1>5, <1>7 DEF EnterUnlock
<1>8. ASSUME NEW p \in Member, ProgramStep(p) PROVE Same
  <2>1. CASE \E d \in scn.targets, x \in scn.modes : Win_lock(p, d, x)
    BY <1>1, <1>6, <2>1 DEF Win_lock
  <2>2. CASE ~\E d \in scn.targets, x \in scn.modes : Win_lock(p, d, x)
    <3>1. tgt' = tgt
      BY <1>8, <2>2 DEF ProgramStep, Win_unlock, Win_flush, Win_lock_all, Win_unlock_all,
                        Win_flush_all, Put, Get, Accumulate
    <3> QED
      BY <1>3, <3>1
  <2> QED
    BY <2>1, <2>2
<1>9. ASSUME NEW p \in Member, CallStep(p) PROVE Same
  <2>1. CASE LockAllNext(p)
    BY <1>1, <1>6, <2>1 DEF LockAllNext
  <2>2. CASE UnlockSend(p)
    BY <1>1, <1>7, <2>2 DEF UnlockSend
  <2>3. CASE ~LockAllNext(p) /\ ~UnlockSend(p)
    <3>1. tgt' = tgt
      BY <1>9, <2>3 DEF CallStep, LockAllRefused, LockDone, UnlockAllRefused, UnlockDone,
                        FlushSend, FlushDone, FlushAllSend, FlushAllDone
    <3> QED
      BY <1>3, <3>1
  <2> QED
    BY <2>1, <2>2, <2>3
<1>10. ASSUME NEW m \in req, RecvLockReq(m) PROVE Same
  <2>1. m \in Request /\ m.dst \in Rank /\ m.excl \in BOOLEAN
    BY <1>1, RequestFields
  <2>2. CASE tgt' = [tgt EXCEPT ![m.dst] = Lock(@, m.excl)]
    BY <1>4, <2>1, <2>2
  <2>3. CASE tgt' = [tgt EXCEPT ![m.dst].list = Append(@, m)]
    <3>1. PICK z : z = [tgt[m.dst] EXCEPT !.list = Append(tgt[m.dst].list, m)]
      OBVIOUS
    <3>2. tgt[m.dst] \in Target /\ tgt[m.dst].list \in Seq(Request)
      BY <1>1, <2>1, TargetFields
    <3>3. Append(tgt[m.dst].list, m) \in Seq(Request)
      BY <2>1, <3>2
    <3>4. z \in Target
      BY <3>1, <3>2, <3>3, TargetTypes
    <3>5. z.src = tgt[m.dst].src /\ z.stack = tgt[m.dst].stack /\ z.recvd = tgt[m.dst].recvd
      BY <3>1, <3>2 DEF Target
    <3>6. tgt' = [tgt EXCEPT ![m.dst] = z]
      BY <2>3, <3>1
    <3> QED
      BY <1>2, <2>1, <3>4, <3>5, <3>6
  <2> QED
    BY <1>10, <2>2, <2>3 DEF RecvLockReq
<1> QED
  BY <1>8, <1>9, <1>10 DEF Same

(* One window changes, to one that satisfies the invariant. *)
LEMMA OneWindow ==
    ASSUME TypeOK, ReceivedInv, NEW t \in Rank, NEW z \in Target, tgt' = [tgt EXCEPT ![t] = z],
           ReceivedOK(z)
    PROVE  ReceivedInv'
<1>1. tgt'[t] = z /\ \A u \in Rank : u # t => tgt'[u] = tgt[u]
  BY TargetEffect
<1>2. \A u \in Rank : ReceivedOK(tgt'[u])
  BY <1>1 DEF ReceivedInv
<1> QED
  BY <1>2 DEF ReceivedInv

(* Every waiting callback is the only one of its origin at its window. *)
LEMMA OneCallback ==
    ASSUME TokenInv, NEW t \in Rank
    PROVE  \A i, j \in 1..Len(tgt[t].stack) : tgt[t].stack[i].src = tgt[t].stack[j].src => i = j
BY DEF TokenInv, TokensOK, StacksOK, StackOf

(* The arrival of an operation. *)
LEMMA ArrivalReceived ==
    ASSUME TypeOK, TokenInv, ReceivedInv, NEW p \in Rank, NEW t \in Rank, OpArrives(p, t)
    PROVE  ReceivedInv'
<1>1. tgt \in [Rank -> Target] /\ tgt[t] \in Target
  BY DEF TypeOK
<1>2. tgt[t].src \in [Rank -> Int] /\ tgt[t].recvd \in Int
  BY <1>1, TargetFields
<1>3. tgt[t].src[p] - 1 \in Int /\ tgt[t].recvd + 1 \in Int
  BY <1>2
<1>4. PICK s : s = [tgt[t].src EXCEPT ![p] = tgt[t].src[p] - 1]
  OBVIOUS
<1>5. /\ s \in [Rank -> Int] /\ s[p] = tgt[t].src[p] - 1
      /\ \A q \in Rank : q # p => s[q] = tgt[t].src[q]
  BY <1>2, <1>3, <1>4
<1>6. PICK z : z = [tgt[t] EXCEPT !.recvd = tgt[t].recvd + 1, !.src = s]
  OBVIOUS
<1>7. z \in Target /\ z.stack = tgt[t].stack /\ z.recvd = tgt[t].recvd + 1 /\ z.src = s
  BY <1>1, <1>3, <1>5, <1>6 DEF Target
<1>8. tgt' = [tgt EXCEPT ![t] = z]
  BY <1>1, <1>4, <1>6 DEF OpArrives, Target
<1>9. PICK b \in Nat : \A c \in Nat : Reports(tgt[t], p, c) <=> c = b
  BY <1>1, OneCallback, OneReport
<1>10. ReceivedOK(tgt[t])
  BY DEF ReceivedInv
<1>11. /\ z.src[p] = tgt[t].src[p] - 1
       /\ \A q \in Rank : q # p => z.src[q] = tgt[t].src[q]
  BY <1>5, <1>7
<1>12. ReceivedOK(z)
  BY <1>1, <1>7, <1>9, <1>10, <1>11, OneReceived
<1> QED
  BY <1>7, <1>8, <1>12, OneWindow

(* The window after the end of a callback. *)
LEMMA EndWindow ==
    ASSUME NEW t \in Rank, NEW w \in Target, NEW h \in Request, EndCallback(t, w, h)
    PROVE  \E z \in Target : /\ tgt' = [tgt EXCEPT ![t] = z] /\ z.src = w.src
                             /\ z.recvd = w.recvd - h.n /\ z.stack = w.stack
<1>1. PICK a : a = [type |-> h.type, src |-> t, dst |-> h.src]
  OBVIOUS
<1>2. \E z \in Target :
           /\ tgt' = [tgt EXCEPT ![t] = z]
           /\ z.src = w.src /\ z.recvd = w.recvd - h.n /\ z.stack = w.stack
           /\ \/ /\ h.type # "UNLOCK" /\ ans' = ans \cup {a}
                 /\ z.cnt = w.cnt /\ z.excl = w.excl /\ z.list = w.list
              \/ h.type = "UNLOCK" /\ GivenUp(w, z) /\ ans' = ans \cup {a}
              \/ /\ h.type = "UNLOCK" /\ HandedOn(w, z)
                 /\ ans' = (ans \cup {a}) \cup {LockAnswer(t, Head(w.list).src)}
  BY <1>1, EndEffect
<1> QED
  BY <1>2

(* The request of an unlock or flush arrives. *)
LEMMA CounterReceived ==
    ASSUME TypeOK, TokenInv, TokenInv', ReceivedInv, NEW m \in req, RecvCounter(m)
    PROVE  ReceivedInv'
<1>0. m.type # "LOCK"
  BY DEF RecvCounter
<1>1. PICK p \in Rank, t \in Rank : p = m.src /\ t = m.dst
  BY <1>0, RequestAwaited
<1>2. /\ m \in Request /\ m.n \in Nat /\ tgt[t] \in Target /\ tgt[t].stack \in Seq(Request)
      /\ tgt[t].src \in [Rank -> Int] /\ ReceivedOK(tgt[t])
  BY RequestFields, TargetFields DEF TypeOK, ReceivedInv
<1>3. ~Within(tgt[t].stack, p)
  BY <1>0, <1>1, RequestAwaited DEF Stacked
<1>4. \A c \in Nat : Reports(tgt[t], p, c) <=> c = 0
  BY <1>2, <1>3, OneCallback, OneReport
<1> DEFINE w == [tgt[t] EXCEPT !.src[p] = @ + m.n]
<1>5. tgt[t].src[p] + m.n \in Int /\ tgt[t].src[p] \in Int
  BY <1>2
<1>6. w \in Target
  BY <1>2, <1>5, TargetTypes
<1>7. /\ w.stack = tgt[t].stack /\ w.src = [tgt[t].src EXCEPT ![p] = @ + m.n]
      /\ w.recvd = tgt[t].recvd
  BY <1>2 DEF Target
<1>8. w.src[p] = tgt[t].src[p] + m.n /\ \A q \in Rank : q # p => w.src[q] = tgt[t].src[q]
  BY <1>2, <1>7
<1>9. \/ w.src[p] = 0 /\ EndCallback(t, w, m)
      \/ tgt' = [tgt EXCEPT ![t] = [w EXCEPT !.stack = <<m>> \o @]]
  BY <1>1 DEF RecvCounter
<1> HIDE DEF w
<1>10. CASE w.src[p] = 0 /\ EndCallback(t, w, m)
  <2>1. PICK z \in Target : /\ tgt' = [tgt EXCEPT ![t] = z] /\ z.src = w.src
                            /\ z.recvd = w.recvd - m.n /\ z.stack = w.stack
    BY <1>2, <1>6, <1>10, EndWindow
  <2>2. \A q, c : Reports(z, q, c) <=> Reports(tgt[t], q, c)
    BY <1>7, <2>1 DEF Reports
  <2>3. /\ \A c \in Nat : Reports(z, p, c) <=> c = 0
        /\ z.src[p] = 0 /\ z.recvd = tgt[t].recvd - m.n /\ 0 - tgt[t].src[p] = m.n
        /\ \A q \in Rank : q # p => z.src[q] = tgt[t].src[q]
    BY <1>2, <1>4, <1>5, <1>7, <1>8, <1>10, <2>1, <2>2
  <2>4. ReceivedOK(z)
    BY <1>2, <1>4, <2>2, <2>3, AllAnswered
  <2> QED
    BY <2>1, <2>4, OneWindow
<1>11. CASE tgt' = [tgt EXCEPT ![t] = [w EXCEPT !.stack = <<m>> \o @]]
  <2>1. PICK z : z = [w EXCEPT !.stack = <<m>> \o @]
    OBVIOUS
  <2>2. /\ <<m>> \o w.stack \in Seq(Request) /\ Len(<<m>> \o w.stack) = Len(w.stack) + 1
        /\ (<<m>> \o w.stack)[1] = m
        /\ \A i \in 2..(Len(w.stack) + 1) : (<<m>> \o w.stack)[i] = w.stack[i - 1]
        /\ \A q : Within(<<m>> \o w.stack, q) <=> Within(w.stack, q) \/ q = m.src
    BY <1>2, <1>7, WithinPush
  <2>3. z \in Target
    BY <1>6, <2>1, <2>2, TargetTypes
  <2>4. z.src = w.src /\ z.stack = <<m>> \o w.stack /\ z.recvd = w.recvd
    BY <1>6, <2>1 DEF Target
  <2>5. tgt' = [tgt EXCEPT ![t] = z] /\ tgt'[t] = z
    BY <1>11, <2>1, <2>3, TargetEffect
  <2>6. \A i, j \in 1..Len(z.stack) : z.stack[i].src = z.stack[j].src => i = j
    <3>1. \A i, j \in 1..Len(tgt'[t].stack) : tgt'[t].stack[i].src = tgt'[t].stack[j].src => i = j
      BY DEF TokenInv, TokensOK, StacksOK, StackOf
    <3> QED
      BY <2>5, <3>1
  <2>7. 1 \in 1..Len(z.stack) /\ z.stack[1] = m
    BY <1>2, <1>7, <2>2, <2>4
  <2>8. \A c \in Nat : Reports(z, p, c) <=> c = m.n
    BY <1>1, <2>3, <2>6, <2>7, OneReport
  <2>9. ASSUME NEW q \in Rank, q # p, NEW c \in Nat PROVE Reports(z, q, c) <=> Reports(tgt[t], q, c)
    <3>1. PICK s : s = w.stack
      OBVIOUS
    <3>a. s = tgt[t].stack /\ s \in Seq(Request) /\ z.stack = <<m>> \o s
      BY <1>2, <1>7, <2>4, <3>1
    <3>b. /\ Len(<<m>> \o s) = Len(s) + 1 /\ (<<m>> \o s)[1] = m
          /\ \A i \in 2..(Len(s) + 1) : (<<m>> \o s)[i] = s[i - 1]
          /\ Within(<<m>> \o s, q) <=> Within(s, q) \/ q = m.src
      BY <1>2, <3>a, WithinPush
    <3>2. /\ s = tgt[t].stack /\ Len(z.stack) = Len(s) + 1 /\ Len(s) \in Nat /\ z.stack[1] = m
          /\ \A i \in 2..(Len(s) + 1) : z.stack[i] = s[i - 1]
          /\ Within(z.stack, q) <=> Within(s, q)
      BY <1>1, <2>9, <3>a, <3>b
    <3>3. ASSUME NEW i \in 1..Len(s), s[i].src = q, s[i].n = c PROVE Reports(z, q, c)
      <4>1. i + 1 \in 2..(Len(s) + 1) /\ i + 1 \in 1..Len(z.stack) /\ (i + 1) - 1 = i
        BY <3>2
      <4>2. z.stack[i + 1] = s[i]
        BY <3>2, <4>1
      <4> QED
        BY <3>3, <4>1, <4>2 DEF Reports
    <3>4. ASSUME NEW i \in 1..Len(z.stack), z.stack[i].src = q, z.stack[i].n = c
          PROVE  Reports(tgt[t], q, c)
      <4>1. i # 1
        BY <1>1, <2>9, <3>2, <3>4
      <4>2. i \in 2..(Len(s) + 1) /\ i - 1 \in 1..Len(s)
        BY <3>2, <4>1
      <4>3. z.stack[i] = s[i - 1]
        BY <3>2, <4>2
      <4> QED
        BY <3>2, <3>4, <4>2, <4>3 DEF Reports
    <3> QED
      BY <3>2, <3>3, <3>4 DEF Reports
  <2>10. /\ z.src[p] = tgt[t].src[p] + m.n /\ z.recvd = tgt[t].recvd
         /\ \A q \in Rank : q # p => z.src[q] = tgt[t].src[q]
    BY <1>7, <1>8, <2>4
  <2>11. ReceivedOK(z)
    BY <1>2, <1>4, <2>3, <2>8, <2>9, <2>10, CallbackWaits
  <2> QED
    BY <2>3, <2>5, <2>11, OneWindow
<1> QED
  BY <1>9, <1>10, <1>11

(* A waiting callback ends. *)
LEMMA CallbackReceived ==
    ASSUME TypeOK, TokenInv, ReceivedInv, NEW t \in Rank, CallbackDone(t)
    PROVE  ReceivedInv'
<1>1. /\ tgt[t] \in Target /\ tgt[t].stack \in Seq(Request) /\ tgt[t].src \in [Rank -> Int]
      /\ ReceivedOK(tgt[t])
  BY TargetFields DEF TypeOK, ReceivedInv
<1>2. PICK h : h = Head(tgt[t].stack)
  OBVIOUS
<1> DEFINE w == [tgt[t] EXCEPT !.stack = Tail(@)]
<1>3. tgt[t].stack # <<>> /\ tgt[t].src[h.src] = 0 /\ EndCallback(t, w, h)
  BY <1>2 DEF CallbackDone
<1>4. \A i, j \in 1..Len(tgt[t].stack) : tgt[t].stack[i].src = tgt[t].stack[j].src => i = j
  BY OneCallback
<1>5. PICK s : s = tgt[t].stack
  OBVIOUS
<1>6. /\ Tail(s) \in Seq(Request) /\ Len(Tail(s)) = Len(s) - 1 /\ h = s[1] /\ 1 \in 1..Len(s)
      /\ \A i \in 1..Len(Tail(s)) : i + 1 \in 1..Len(s) /\ Tail(s)[i] = s[i + 1]
      /\ \A q : Within(Tail(s), q) <=> Within(s, q) /\ q # h.src
  <2>1. /\ s \in Seq(Request) /\ s # <<>> /\ h = Head(s)
        /\ \A i, j \in 1..Len(s) : s[i].src = s[j].src => i = j
    BY <1>1, <1>2, <1>3, <1>4, <1>5
  <2> QED
    BY <2>1, WithinTail
<1>7. h \in Request /\ h.src \in Rank /\ h.n \in Nat
  BY <1>5, <1>6, CallbackAwaited
<1>8. w \in Target
  BY <1>1, <1>5, <1>6, TargetTypes
<1>9. w.src = tgt[t].src /\ w.stack = Tail(s) /\ w.recvd = tgt[t].recvd
  BY <1>1, <1>5 DEF Target
<1> HIDE DEF w
<1>10. PICK p \in Rank : p = h.src
  BY <1>7
<1>11. PICK z \in Target : /\ tgt' = [tgt EXCEPT ![t] = z] /\ z.src = w.src
                           /\ z.recvd = w.recvd - h.n /\ z.stack = w.stack
  BY <1>3, <1>7, <1>8, EndWindow
<1>12. \A c \in Nat : Reports(tgt[t], p, c) <=> c = h.n
  BY <1>1, <1>4, <1>5, <1>6, <1>10, OneReport
<1>13. PICK r : r = z.stack
  OBVIOUS
<1>14. /\ r = Tail(s) /\ ~Within(r, p) /\ \A q \in Rank : q # p => (Within(r, q) <=> Within(s, q))
       /\ Len(r) = Len(s) - 1 /\ Len(s) \in Nat /\ h = s[1]
       /\ \A i \in 1..Len(r) : i + 1 \in 1..Len(s) /\ r[i] = s[i + 1]
  BY <1>1, <1>5, <1>6, <1>9, <1>10, <1>11, <1>13
<1>15. \A c \in Nat : Reports(z, p, c) <=> c = 0
  BY <1>13, <1>14 DEF Reports, Within
<1>16. ASSUME NEW q \in Rank, q # p, NEW c \in Nat PROVE Reports(z, q, c) <=> Reports(tgt[t], q, c)
  <2>1. ASSUME NEW i \in 1..Len(s), s[i].src = q, s[i].n = c PROVE Reports(z, q, c)
    <3>1. i # 1
      BY <1>10, <1>14, <1>16, <2>1
    <3>2. i - 1 \in 1..Len(r) /\ (i - 1) + 1 = i
      BY <1>14, <3>1
    <3>3. r[i - 1] = s[i]
      BY <1>14, <3>2
    <3> QED
      BY <1>13, <2>1, <3>2, <3>3 DEF Reports
  <2>2. ASSUME NEW i \in 1..Len(r), r[i].src = q, r[i].n = c PROVE Reports(tgt[t], q, c)
    BY <1>5, <1>14, <2>2 DEF Reports
  <2> QED
    BY <1>5, <1>13, <1>14, <1>16, <2>1, <2>2 DEF Reports
<1>17. /\ z.src[p] = 0 /\ z.recvd = tgt[t].recvd - h.n /\ h.n - tgt[t].src[p] = h.n
       /\ \A q \in Rank : q # p => z.src[q] = tgt[t].src[q]
  BY <1>3, <1>7, <1>9, <1>10, <1>11
<1>18. ReceivedOK(z)
  BY <1>1, <1>7, <1>12, <1>15, <1>16, <1>17, AllAnswered, SMTT(30)
<1> QED
  BY <1>11, <1>18, OneWindow

(* Nothing has been received at first. *)
LEMMA ReceivedInit == Init => ReceivedInv
<1> SUFFICES ASSUME Init, NEW t \in Rank PROVE ReceivedOK(tgt[t])
  BY DEF ReceivedInv
<1>1. /\ tgt[t].stack = <<>> /\ tgt[t].recvd = 0 /\ \A p \in Rank : tgt[t].src[p] = 0
  BY DEF Init
<1>2. Len(tgt[t].stack) = 0
  BY <1>1
<1>3. \A p, b : Reports(tgt[t], p, b) <=> b = 0
  BY <1>2 DEF Reports, Within
<1>4. \A p \in Rank : \A k \in Nat \ {0} : ~Unit(tgt[t], p, k)
  BY <1>1, <1>3 DEF Unit
<1>5. \A x \in Rank \X (Nat \ {0}) : x[1] \in Rank /\ x[2] \in Nat \ {0}
  OBVIOUS
<1>6. Unanswered(tgt[t]) = {}
  BY <1>4, <1>5 DEF Unanswered
<1> QED
  BY <1>1, <1>3, <1>6, FS_EmptySet DEF ReceivedOK

(* Every step keeps what the targets have received in order. *)
LEMMA ReceivedStep ==
    TypeOK /\ TypeOK' /\ TokenInv /\ TokenInv' /\ ReceivedInv /\ [Next]_vars => ReceivedInv'
<1> SUFFICES ASSUME TypeOK, TypeOK', TokenInv, TokenInv', ReceivedInv, [Next]_vars
             PROVE  ReceivedInv'
  OBVIOUS
<1>1. Member \subseteq Rank
  BY MemberFacts
<1>2. ASSUME \A t \in Rank : /\ tgt'[t].src = tgt[t].src /\ tgt'[t].stack = tgt[t].stack
                             /\ tgt'[t].recvd = tgt[t].recvd
      PROVE  ReceivedInv'
  <2>1. ASSUME NEW t \in Rank PROVE ReceivedOK(tgt'[t])
    <3>1. tgt[t] \in Target /\ tgt'[t] \in Target /\ ReceivedOK(tgt[t])
      BY DEF TypeOK, ReceivedInv
    <3> QED
      BY <1>2, <3>1, ReceivedKept
  <2> QED
    BY <2>1 DEF ReceivedInv
<1>3. ASSUME NEW p \in Member, ProgramStep(p) \/ CallStep(p) PROVE ReceivedInv'
  BY <1>2, <1>3, WindowsKept
<1>4. ASSUME NEW p \in Member, CallbackDone(p) PROVE ReceivedInv'
  BY <1>1, <1>4, CallbackReceived
<1>5. ASSUME NEW p \in Member, NEW t \in Member, CompletionStep(p, t) PROVE ReceivedInv'
  <2>1. CASE OpArrives(p, t)
    BY <1>1, <2>1, ArrivalReceived
  <2>2. CASE OpDone(p, t) \/ AccumulateDone(p, t)
    BY <1>2, <2>2 DEF OpDone, AccumulateDone
  <2> QED
    BY <1>5, <2>1, <2>2 DEF CompletionStep
<1>6. ASSUME NEW p \in Member, NEW t \in Member, RequestStep(p, t) PROVE ReceivedInv'
  BY <1>2, <1>6, WindowsKept, CounterReceived DEF RequestStep
<1>7. ASSUME UNCHANGED vars PROVE ReceivedInv'
  BY <1>2, <1>7 DEF vars
<1> QED
  BY <1>3, <1>4, <1>5, <1>6, <1>7 DEF Next

(* In every reachable state rma_puts_accs_received counts the operations that  *)
(* have arrived and that no callback has answered.                             *)
THEOREM ReceivedInvHolds == Spec => []ReceivedInv
<1>1. Init => ReceivedInv
  BY ReceivedInit
<1>2. LockingInv /\ LockingInv' /\ ReceivedInv /\ [Next]_vars => ReceivedInv'
  BY ReceivedStep DEF LockingInv, OriginInv
<1> QED
  BY <1>1, <1>2, LockInvHolds, PTL DEF Spec

(* Between epochs the counters of both sides are back at zero, in every        *)
(* reachable state.                                                            *)
THEOREM CleanBetweenEpochsHolds == Spec => []CleanBetweenEpochs
<1>1. CountingInv /\ ReceivedInv => CleanBetweenEpochs
  <2> SUFFICES ASSUME CountingInv, ReceivedInv, NEW t \in Rank
               PROVE  /\ \A p \in Rank \ {t} : org[p].remote[t] = "UNLOCKED" =>
                            /\ org[p].puts[t] = 0 /\ org[p].pend[t] = 0
                            /\ flight[p][t] = 0 /\ tgt[t].src[p] = 0
                      /\ (\A p \in Rank \ {t} : org[p].remote[t] = "UNLOCKED") => tgt[t].recvd = 0
    BY DEF CleanBetweenEpochs
  <2>1. \A p \in Rank : PairOK(p, t)
    BY DEF CountingInv, PairInv
  <2>2. \A p \in Rank \ {t} : org[p].remote[t] = "UNLOCKED" =>
                            /\ org[p].puts[t] = 0 /\ org[p].pend[t] = 0
                            /\ flight[p][t] = 0 /\ tgt[t].src[p] = 0
    BY <2>1 DEF PairOK, Clean, Src, InFlight
  <2>3. ASSUME \A p \in Rank \ {t} : org[p].remote[t] = "UNLOCKED" PROVE tgt[t].recvd = 0
    <3>1. TypeOK /\ TokenInv /\ ReceivedOK(tgt[t])
      BY DEF CountingInv, LockingInv, OriginInv, ReceivedInv
    <3>2. tgt[t] \in Target
      BY <3>1 DEF TypeOK
    <3>3. ~Stacked(t, t)
      <4>1. ~AwaitsCount(t, t)
        BY DEF AwaitsCount, Awaits
      <4> QED
        BY <3>1, <4>1, NothingAsked
    <3>4. \A p \in Rank : tgt[t].src[p] = 0 /\ ~Within(tgt[t].stack, p)
      BY <2>1, <2>3, <3>3 DEF PairOK, Clean, Src, Stacked
    <3>5. \A p \in Rank : \A k \in Nat \ {0} : ~Unit(tgt[t], p, k)
      BY <3>4 DEF Unit, Reports, Within
    <3>6. \A x \in Rank \X (Nat \ {0}) : x[1] \in Rank /\ x[2] \in Nat \ {0}
      OBVIOUS
    <3>7. Unanswered(tgt[t]) = {}
      BY <3>5, <3>6 DEF Unanswered
    <3> QED
      BY <3>1, <3>7, FS_EmptySet DEF ReceivedOK
  <2> QED
    BY <2>2, <2>3
<1> QED
  BY <1>1, PairInvHolds, ReceivedInvHolds, PTL

-----------------------------------------------------------------------------
(* The flag of pending accumulates *)

(* With ordering there is at most one accumulate to each target, and the flag  *)
(* says whether there is one.                                                  *)
AccOK(p, t) == org[p].accs[t] <= 1 /\ (org[p].accs[t] > 0 <=> org[p].accFlag[t])
AccInv == \A p, t \in Rank : AccOK(p, t)

(* Only accumulates and their completion touch the flag and its accumulates. *)
LEMMA AccsKept ==
    ASSUME TypeOK, Next,
           \A p, t \in Member : ~Accumulate(p, t) /\ ~AccumulateDone(p, t)
    PROVE  \A p \in Rank : org'[p].accs = org[p].accs /\ org'[p].accFlag = org[p].accFlag
<1> DEFINE Same == \A p \in Rank : org'[p].accs = org[p].accs /\ org'[p].accFlag = org[p].accFlag
<1>1. org \in [Rank -> Origin] /\ Member \subseteq Rank
  BY MemberFacts DEF TypeOK
<1>2. ASSUME NEW p \in Rank, NEW o, org' = [org EXCEPT ![p] = o],
             o.accs = org[p].accs, o.accFlag = org[p].accFlag
      PROVE  Same
  BY <1>1, <1>2
<1>3. ASSUME NEW p \in Rank, NEW c, org' = [org EXCEPT ![p].call = c] PROVE Same
  BY <1>1, <1>3 DEF Origin
<1>4. ASSUME NEW p \in Rank, NEW d, NEW x, NEW all,
             org' = [org EXCEPT ![p] = HasLock(@, d, x, all)]
      PROVE  Same
  <2>1. PICK o : o = HasLock(org[p], d, x, all)
    OBVIOUS
  <2>2. org[p] \in Origin
    BY <1>1
  <2>3. o.accs = org[p].accs /\ o.accFlag = org[p].accFlag
    BY <2>1, <2>2 DEF HasLock, Origin
  <2>4. org' = [org EXCEPT ![p] = o]
    BY <1>4, <2>1
  <2> QED
    BY <1>2, <2>3, <2>4
<1>5. ASSUME NEW p \in Rank, NEW d, NEW all, NEW u, u = org[p] \/ u = [org[p] EXCEPT !.puts[d] = 0],
             org' = [org EXCEPT ![p] = HasUnlocked(u, d, all)]
      PROVE  Same
  <2>1. PICK o : o = HasUnlocked(u, d, all)
    OBVIOUS
  <2>2. org[p] \in Origin
    BY <1>1
  <2>3. /\ u.accs = org[p].accs /\ u.accFlag = org[p].accFlag
        /\ DOMAIN u = DOMAIN org[p]
    BY <1>5, <2>2 DEF Origin
  <2>4. o.accs = u.accs /\ o.accFlag = u.accFlag
    BY <1>5, <2>1, <2>2, <2>3 DEF HasUnlocked, Origin
  <2>5. org' = [org EXCEPT ![p] = o]
    BY <1>5, <2>1
  <2> QED
    BY <1>2, <2>3, <2>4, <2>5
<1>6. org' = org => Same
  OBVIOUS
<1>7. ASSUME NEW p \in Rank, NEW t, org' = [org EXCEPT ![p].pend[t] = @ + 1, ![p].puts[t] = @ + 1]
      PROVE  Same
  BY <1>1, <1>7 DEF Origin
<1>8. ASSUME NEW p \in Rank, NEW t, \/ org' = [org EXCEPT ![p].pend[t] = @ + 1]
                                    \/ org' = [org EXCEPT ![p].pend[t] = @ - 1]
      PROVE  Same
  <2>1. PICK f : org' = [org EXCEPT ![p].pend = f]
    BY <1>8
  <2> QED
    BY <1>1, <2>1 DEF Origin
<1>9. ASSUME NEW p \in Rank, NEW d, NEW c, org' = [org EXCEPT ![p].puts[d] = 0, ![p].call = c]
      PROVE  Same
  BY <1>1, <1>9 DEF Origin
<1>10. ASSUME NEW p \in Rank, org' = [org EXCEPT ![p].call.op = "flushWait"]
       PROVE  Same
  BY <1>1, <1>10 DEF Origin
<1> HIDE DEF Same
<1>11. ASSUME NEW p \in Member, ProgramStep(p) PROVE Same
  <2>1. p \in Rank
    BY <1>1
  <2>2. CASE \E d \in scn.targets, x \in scn.modes : Win_lock(p, d, x)
    BY <1>3, <1>4, <2>1, <2>2 DEF Win_lock, EnterLock
  <2>3. CASE \E d \in Member : Win_unlock(p, d) \/ Win_flush(p, d)
    BY <1>3, <2>1, <2>3 DEF Win_unlock, Win_flush
  <2>4. CASE Win_lock_all(p) \/ Win_unlock_all(p) \/ Win_flush_all(p)
    BY <1>3, <2>1, <2>4 DEF Win_lock_all, Win_unlock_all, Win_flush_all
  <2>5. CASE \E t \in Member : Put(p, t) \/ Get(p, t)
    BY <1>7, <1>8, <2>1, <2>5 DEF Put, Get
  <2> QED
    BY <1>11, <2>2, <2>3, <2>4, <2>5 DEF ProgramStep
<1>12. ASSUME NEW p \in Member, CallStep(p) PROVE Same
  <2>1. p \in Rank
    BY <1>1
  <2>2. CASE LockAllNext(p) \/ LockAllRefused(p) \/ LockDone(p)
    BY <1>3, <1>4, <2>1, <2>2 DEF LockAllNext, LockAllRefused, LockDone, EnterLock
  <2>3. CASE UnlockSend(p) \/ UnlockAllRefused(p)
    BY <1>3, <1>5, <2>1, <2>3 DEF UnlockSend, UnlockAllRefused, EnterUnlock
  <2>4. CASE UnlockDone(p)
    <3>1. PICK d, all, u : /\ d = org[p].call.dest /\ all = org[p].call.all
                           /\ u = [org[p] EXCEPT !.puts[d] = 0]
      OBVIOUS
    <3>2. org' = [org EXCEPT ![p] = HasUnlocked(u, d, all)]
      BY <2>4, <3>1 DEF UnlockDone
    <3> QED
      BY <1>5, <2>1, <3>1, <3>2
  <2>5. CASE FlushSend(p) \/ FlushDone(p) \/ FlushAllSend(p) \/ FlushAllDone(p)
    BY <1>3, <1>9, <1>10, <2>1, <2>5 DEF FlushSend, FlushDone, FlushAllSend, FlushAllDone
  <2> QED
    BY <1>12, <2>2, <2>3, <2>4, <2>5 DEF CallStep
<1>13. ASSUME NEW p \in Member, CallbackDone(p) PROVE Same
  BY <1>6, <1>13 DEF CallbackDone
<1>14. ASSUME NEW p \in Member, NEW t \in Member, CompletionStep(p, t) PROVE Same
  BY <1>1, <1>6, <1>8, <1>14 DEF CompletionStep, OpArrives, OpDone
<1>15. ASSUME NEW p \in Member, NEW t \in Member, RequestStep(p, t) PROVE Same
  BY <1>6, <1>15 DEF RequestStep, RecvLockReq, RecvCounter
<1> QED
  BY <1>11, <1>12, <1>13, <1>14, <1>15 DEF Next, Same

(* An accumulate, and its completion. *)
LEMMA AccumulateAccs ==
    ASSUME TypeOK, AccInv, Ordering, NEW p \in Rank, NEW t \in Rank,
           Accumulate(p, t) \/ AccumulateDone(p, t)
    PROVE  AccInv'
<1>1. org \in [Rank -> Origin] /\ org[p] \in Origin
  BY DEF TypeOK
<1>2. org[p].accs \in [Rank -> Nat] /\ org[p].accFlag \in [Rank -> BOOLEAN]
  BY <1>1, OriginFields
<1>3. \A q \in Rank : q # p => org'[q] = org[q]
  BY <1>1 DEF Accumulate, AccumulateDone
<1>4. \/ /\ ~org[p].accFlag[t] /\ org'[p].accs = [org[p].accs EXCEPT ![t] = @ + 1]
         /\ org'[p].accFlag = [org[p].accFlag EXCEPT ![t] = TRUE]
      \/ /\ org[p].accs[t] > 0 /\ org'[p].accs = [org[p].accs EXCEPT ![t] = @ - 1]
         /\ org'[p].accFlag = [org[p].accFlag EXCEPT ![t] = FALSE]
  <2>1. CASE Accumulate(p, t)
    BY <1>1, <2>1 DEF Accumulate, Origin
  <2>2. CASE AccumulateDone(p, t)
    BY <1>1, <2>2 DEF AccumulateDone, Origin
  <2> QED
    BY <2>1, <2>2
<1>5. ASSUME NEW u \in Rank PROVE AccOK(p, u)'
  <2>1. AccOK(p, t) /\ AccOK(p, u)
    BY DEF AccInv
  <2>2. org[p].accs[t] \in Nat /\ org[p].accs[u] \in Nat
    BY <1>2
  <2>3. CASE u # t
    BY <1>2, <1>4, <2>1, <2>3 DEF AccOK
  <2>4. CASE u = t
    <3>1. \/ /\ ~org[p].accFlag[t] /\ org'[p].accs[t] = org[p].accs[t] + 1 /\ org'[p].accFlag[t]
          \/ /\ org[p].accs[t] > 0 /\ org'[p].accs[t] = org[p].accs[t] - 1
             /\ ~org'[p].accFlag[t]
      BY <1>2, <1>4
    <3> QED
      BY <2>1, <2>2, <2>4, <3>1 DEF AccOK
  <2> QED
    BY <2>3, <2>4
<1> QED
  BY <1>3, <1>5 DEF AccInv, AccOK

(* With ordering the assertion of the accumulate callbacks never fails. *)
THEOREM PendingAccumulateFlagHolds == ASSUME Ordering PROVE Spec => []PendingAccumulateFlag
<1>1. Init => AccInv
  BY DEF Init, AccInv, AccOK
<1>2. OriginInv /\ AccInv /\ [Next]_vars => AccInv'
  <2> SUFFICES ASSUME OriginInv, AccInv, [Next]_vars PROVE AccInv'
    OBVIOUS
  <2>1. TypeOK /\ Member \subseteq Rank
    BY MemberFacts DEF OriginInv
  <2>2. CASE \E p, t \in Member : Accumulate(p, t) \/ AccumulateDone(p, t)
    BY <2>1, <2>2, AccumulateAccs
  <2>3. CASE UNCHANGED vars
    BY <2>3 DEF vars, AccInv, AccOK
  <2>4. CASE Next /\ ~\E p, t \in Member : Accumulate(p, t) \/ AccumulateDone(p, t)
    <3>1. \A p \in Rank : org'[p].accs = org[p].accs /\ org'[p].accFlag = org[p].accFlag
      BY <2>1, <2>4, AccsKept
    <3> QED
      BY <3>1 DEF AccInv, AccOK
  <2> QED
    BY <2>2, <2>3, <2>4
<1>3. AccInv => PendingAccumulateFlag
  BY DEF AccInv, AccOK, PendingAccumulateFlag
<1> QED
  BY <1>1, <1>2, <1>3, OriginInvHolds, PTL DEF Spec
=============================================================================
