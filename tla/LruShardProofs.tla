--------------------------- MODULE LruShardProofs ---------------------------
(***************************************************************************)
(* The invariants and the action properties of LruShard, for every set of  *)
(* keys and values, every size, budget and deadline.                       *)
(*                                                                         *)
(* None of them is inductive alone.  The bytes used can be charged and     *)
(* released correctly only if the list, the map and the nodes agree, the   *)
(* expiry index stays exact only if the iterator in every node is, and the *)
(* eviction loop reaches the budget only if the count it watches is the    *)
(* bytes held.  IInv is their conjunction, with the set of keys finite.    *)
(*                                                                         *)
(* The action properties (which keys a call may drop, how the counters     *)
(* record them, what ttl may report) rest on it as well.  ReadProtects     *)
(* spans two calls and needs one fact more, that a key just read is at the *)
(* front of the list until the next call.                                  *)
(*                                                                         *)
(* Then the two loops of the class, iteration by iteration, and last the   *)
(* refinement of the dictionary of AbstractCache.                          *)
(***************************************************************************)
EXTENDS LruShardLoops, LruShardLemmas

IInv == /\ Consistent(shard)
        /\ shard.used <= MaxMemoryBytes
        /\ now \in 0 .. Horizon
        /\ reply \in Reply

(* What a call has to establish: its result and a consistent shard within  *)
(* the budget are enough.                                                  *)
LEMMA ReturnKeeps ==
  ASSUME NEW sh, Consistent(sh), sh.used <= MaxMemoryBytes,
         NEW op \in Op, NEW k \in Key \cup {Null}, NEW arg \in Seconds \cup {Null},
         NEW ret \in Value \cup {Null} \cup Int,
         Return(sh, op, k, arg, ret),
         now \in 0 .. Horizon, now' \in 0 .. Horizon
  PROVE  IInv'
<1>1. shard' = sh /\ reply' = [op |-> op, key |-> k, arg |-> arg, ret |-> ret, at |-> now]
  BY DEF Return
<1>2. reply' \in Reply
  BY <1>1 DEF Reply
<1>3. Consistent(shard)'
  BY <1>1 DEF Consistent, Indexed, Scheduled, Accounted
<1> QED
  BY <1>1, <1>2, <1>3 DEF IInv

(* A bound on what a shard held bounds what is left of it. *)
LEMMA StillWithin ==
  ASSUME NEW sh, Consistent(sh), sh.used <= MaxMemoryBytes,
         NEW r, Consistent(r), r.used <= sh.used
  PROVE  r.used <= MaxMemoryBytes
<1>1. sh.used \in Nat /\ r.used \in Nat /\ MaxMemoryBytes \in Nat
  BY SizeAssumption DEF Consistent, Shard
<1> QED
  BY <1>1

(* A constructed shard satisfies the invariant. *)
LEMMA InitIInv == Init => IInv
<1> SUFFICES ASSUME Init PROVE IInv
  OBVIOUS
<1>1. shard = EmptyShard /\ now = 0
      /\ reply = [op |-> "none", key |-> Null, arg |-> Null, ret |-> Null, at |-> 0]
  BY DEF Init
<1>2. Consistent(shard) /\ shard.used <= MaxMemoryBytes
  BY <1>1, EmptyConsistent, SizeAssumption
<1>3. now \in 0 .. Horizon
  BY <1>1, HorizonAssumption
<1>4. reply \in Reply
  BY <1>1, HorizonAssumption DEF Reply, Op
<1> QED
  BY <1>2, <1>3, <1>4 DEF IInv

(* Every method of the class, and the clock, preserve the invariant. *)
LEMMA NextIInv == IInv /\ [Next]_vars => IInv'
<1> SUFFICES ASSUME IInv, [Next]_vars PROVE IInv'
  OBVIOUS
<1> USE HorizonAssumption
<1>1. /\ Consistent(shard) /\ shard.used <= MaxMemoryBytes
      /\ now \in 0 .. Horizon /\ now \in Int /\ reply \in Reply
  BY DEF IInv
<1>2. ASSUME NEW k \in Key, Get(k) PROVE IInv'
  <2> DEFINE r == get(shard, k, now)
  <2>1. /\ Consistent(r.shard) /\ r.shard.used <= shard.used
        /\ r.ret \in Value \cup {Null}
    BY <1>1, GetConsistent
  <2>2. Return(r.shard, "get", k, Null, r.ret) /\ now' = now
    BY <1>2 DEF Get
  <2> HIDE DEF r
  <2>3. r.shard.used <= MaxMemoryBytes
    BY <1>1, <2>1, StillWithin
  <2> QED
    BY <1>1, <2>1, <2>2, <2>3, ReturnKeeps DEF Op
<1>3. ASSUME NEW k \in Key, NEW v \in Value, NEW s \in Seconds \cup {Null}, Set(k, v, s)
      PROVE  IInv'
  <2> DEFINE d == IF s = Null THEN Null ELSE Deadline(now, s)
  <2>1. d \in Int \cup {Null}
    BY <1>1, DeadlineType, SecondsAssumption
  <2>2. Return(set(shard, k, v, d), "set", k, s, Null) /\ now' = now
    BY <1>3 DEF Set
  <2> HIDE DEF d
  <2>3. /\ Consistent(set(shard, k, v, d))
        /\ set(shard, k, v, d).used <= MaxMemoryBytes
    BY <1>1, <2>1, SetConsistent
  <2> QED
    BY <1>1, <2>2, <2>3, ReturnKeeps DEF Op
<1>4. ASSUME NEW k \in Key, NEW s \in Seconds, Expire(k, s) PROVE IInv'
  <2> DEFINE d == Deadline(now, s)
             r == expire(shard, k, d)
  <2>1. d \in Int
    BY <1>1, DeadlineType, SecondsAssumption
  <2>2. Return(r.shard, "expire", k, s, Flag(r.ret)) /\ now' = now
    BY <1>4 DEF Expire
  <2> HIDE DEF d
  <2>3. Consistent(r.shard) /\ r.shard.used = shard.used
    BY <1>1, <2>1, ExpireConsistent
  <2> HIDE DEF r
  <2>4. Flag(r.ret) \in Int
    BY DEF Flag
  <2> QED
    BY <1>1, <2>2, <2>3, <2>4, ReturnKeeps DEF Op
<1>5. ASSUME NEW k \in Key, Ttl(k) PROVE IInv'
  <2>1. PICK u \in now .. Horizon :
          /\ Return(ttl(shard, k, now, u).shard, "ttl", k, Null, ttl(shard, k, now, u).ret)
          /\ now' = u
    BY <1>5 DEF Ttl
  <2> DEFINE r == ttl(shard, k, now, u)
  <2>2. u \in Int /\ u \in 0 .. Horizon
    BY <1>1
  <2>3. /\ Consistent(r.shard) /\ r.shard.used <= shard.used
        /\ r.ret \in Int
    BY <1>1, <2>2, TtlConsistent
  <2>4. Return(r.shard, "ttl", k, Null, r.ret)
    BY <2>1
  <2> HIDE DEF r
  <2>5. r.shard.used <= MaxMemoryBytes
    BY <1>1, <2>3, StillWithin
  <2> QED
    BY <1>1, <2>1, <2>2, <2>3, <2>4, <2>5, ReturnKeeps DEF Op
<1>6. ASSUME NEW k \in Key, Del(k) PROVE IInv'
  <2> DEFINE r == del(shard, k)
  <2>1. Consistent(r.shard) /\ r.shard.used <= shard.used
    BY <1>1, DelConsistent
  <2>2. Return(r.shard, "del", k, Null, Flag(r.ret)) /\ now' = now
    BY <1>6 DEF Del
  <2> HIDE DEF r
  <2>3. r.shard.used <= MaxMemoryBytes
    BY <1>1, <2>1, StillWithin
  <2>4. Flag(r.ret) \in Int
    BY DEF Flag
  <2> QED
    BY <1>1, <2>1, <2>2, <2>3, <2>4, ReturnKeeps DEF Op
<1>7. CASE RemoveExpiredKeys
  <2> DEFINE r == remove_expired_keys(shard, now)
  <2>1. Consistent(r) /\ r.used <= shard.used
    BY <1>1, SweepConsistent
  <2>2. Return(r, "remove_expired_keys", Null, Null, Null) /\ now' = now
    BY <1>7 DEF RemoveExpiredKeys
  <2> HIDE DEF r
  <2>3. r.used <= MaxMemoryBytes
    BY <1>1, <2>1, StillWithin
  <2> QED
    BY <1>1, <2>1, <2>2, <2>3, ReturnKeeps DEF Op
<1>8. CASE Tick
  <2>1. shard' = shard /\ reply' = reply /\ now' \in 0 .. Horizon
    BY <1>1, <1>8 DEF Tick
  <2> QED
    BY <1>1, <2>1 DEF IInv, Consistent, Indexed, Scheduled, Accounted
<1>9. CASE UNCHANGED vars
  BY <1>1, <1>9 DEF vars, IInv, Consistent, Indexed, Scheduled, Accounted
<1> QED
  BY <1>2, <1>3, <1>4, <1>5, <1>6, <1>7, <1>8, <1>9 DEF Next

(* The invariant holds in every state a shard can reach. *)
LEMMA Inductive == Spec => []IInv
BY InitIInv, NextIInv, PTL DEF Spec

-----------------------------------------------------------------------------
(* The fields, the clock and the reply keep their types: in particular     *)
(* used_payload_bytes_, which is unsigned, never goes below zero.          *)
THEOREM TypeCorrect == Spec => []TypeOK
<1>1. IInv => TypeOK
  BY DEF IInv, TypeOK, Consistent
<1> QED
  BY <1>1, Inductive, PTL

(* After any sequence of calls map_, lru_list_ and the nodes agree: no     *)
(* method follows an iterator to a node that is gone.                      *)
THEOREM NoDanglingNode == Spec => []IndexesAgree
<1>1. IInv => IndexesAgree
  BY DEF IInv, IndexesAgree, Consistent
<1> QED
  BY <1>1, Inductive, PTL

(* After any sequence of calls expire_map_ has exactly the deadlines of    *)
(* the keys held and every node's expire_it points to its own entry: no    *)
(* method erases through an iterator that is no longer valid.              *)
THEOREM NoDanglingDeadline == Spec => []ExpireIndexExact
<1>1. IInv => ExpireIndexExact
  BY DEF IInv, ExpireIndexExact, Consistent
<1> QED
  BY <1>1, Inductive, PTL

(* used_payload_bytes_ is always the sum of the sizes of what is held: the *)
(* additions and subtractions of set and remove_key never drift, and no    *)
(* subtraction is clamped.                                                 *)
THEOREM AccountingExact == Spec => []MemoryAccounting
<1>1. IInv => MemoryAccounting
  BY DEF IInv, MemoryAccounting, Consistent
<1> QED
  BY <1>1, Inductive, PTL

(* Whatever is stored, when a call returns the bytes held are within       *)
(* max_memory_bytes_: the eviction loop never gives up early.              *)
THEOREM BudgetKept == Spec => []WithinBudget
<1>1. IInv => WithinBudget
  BY DEF IInv, WithinBudget, Consistent, Accounted
<1> QED
  BY <1>1, Inductive, PTL

-----------------------------------------------------------------------------
(* The action properties.                                                  *)

(* The key the last call returned a value for is at the front. *)
ReadFirst ==
  reply.op = "get" /\ reply.ret # Null =>
    /\ reply.key \in shard.map
    /\ \A j \in shard.map : <<reply.key, j>> \in shard.lru

-----------------------------------------------------------------------------
(* The keys evicted.                                                       *)

(* The keys evicted are the least recently used ones. *)
LEMMA EvictedLast ==
  ASSUME NEW sh, Consistent(sh), NEW a \in sh.map \ Evicted(sh), NEW b \in Evicted(sh)
  PROVE  <<a, b>> \in sh.lru
<1>1. LinearOrder(sh.lru, sh.map) /\ Listed(sh.lru) = sh.map /\ sh.used \in Nat
  BY DEF Consistent, Indexed, Shard
<1>2. a \in sh.map /\ b \in sh.map /\ a # b
  BY <1>1 DEF Evicted
<1> SUFFICES ASSUME <<a, b>> \notin sh.lru PROVE FALSE
  OBVIOUS
<1>3. <<b, a>> \in sh.lru
  BY <1>1, <1>2 DEF LinearOrder
<1>4. Behind(sh.lru, a) \subseteq Behind(sh.lru, b) /\ Behind(sh.lru, b) \subseteq sh.map
  BY <1>1, <1>2, <1>3 DEF Behind, LinearOrder
<1> DEFINE PA == Payload(sh.node, Behind(sh.lru, a))
           PB == Payload(sh.node, Behind(sh.lru, b))
           PD == Payload(sh.node, Behind(sh.lru, b) \ Behind(sh.lru, a))
<1>5. PA \in Nat /\ PD \in Nat /\ PB = PA + PD
  BY <1>4, HeldValued, PayloadSplit
<1>6. Minus(sh.used, PB) > MaxMemoryBytes /\ ~ (Minus(sh.used, PA) > MaxMemoryBytes)
  BY <1>1, <1>2 DEF Evicted
<1> HIDE DEF PA, PB, PD
<1> QED
  BY <1>1, <1>5, <1>6, SizeAssumption DEF Minus

(* Any non-empty part of the list has a first element. *)
LEMMA FirstOf ==
  ASSUME NEW sh, Consistent(sh), NEW T, T \subseteq sh.map, T # {}
  PROVE  \E b \in T : \A c \in T : <<b, c>> \in sh.lru
<1> DEFINE InFront(k) == {j \in sh.map : j # k /\ <<j, k>> \in sh.lru}
           D == {InFront(k) : k \in T}
<1>1. LinearOrder(sh.lru, sh.map) /\ IsFiniteSet(sh.map)
  BY DEF Consistent, Indexed
<1>2. D \subseteq SUBSET sh.map /\ D # {}
  OBVIOUS
<1>3. D \subseteq FiniteSubsetsOf(sh.map)
  BY <1>1, <1>2, FS_FiniteSubsetsOfFinite
<1>4. IsWellFoundedOn(StrictSubsetOrdering(sh.map), FiniteSubsetsOf(sh.map))
  BY FS_StrictSubsetOrderingWellFounded
<1> HIDE DEF D
<1>5. PICK X \in D : \A Y \in D : ~ (<<Y, X>> \in StrictSubsetOrdering(sh.map))
  BY <1>2, <1>3, <1>4, WFMin
<1>6. PICK b \in T : X = InFront(b)
  BY <1>5 DEF D
<1>7. ASSUME NEW c \in T, <<b, c>> \notin sh.lru
      PROVE  FALSE
  <2> DEFINE Y == InFront(c)
  <2>1. <<c, b>> \in sh.lru /\ c # b /\ b \in sh.map /\ c \in sh.map
    BY <1>1, <1>7 DEF LinearOrder
  <2>2. Y \subseteq X
    BY <1>1, <1>6, <2>1 DEF LinearOrder
  <2>3. c \in X /\ c \notin Y
    BY <1>6, <2>1
  <2>4. Y \in D /\ Y \subseteq sh.map /\ X \subseteq sh.map
    BY <1>2 DEF D
  <2> HIDE DEF Y
  <2>5. <<Y, X>> \in StrictSubsetOrdering(sh.map)
    BY <2>2, <2>3, <2>4 DEF StrictSubsetOrdering
  <2> QED
    BY <1>5, <2>4, <2>5
<1> QED
  BY <1>6, <1>7

(* The last key evicted did not fit with the ones that are left. *)
LEMMA LastEvicted ==
  ASSUME NEW sh, Consistent(sh), Evicted(sh) # {}
  PROVE  \E b \in Evicted(sh) :
           /\ Behind(sh.lru, b) = Evicted(sh) \ {b}
           /\ Payload(sh.node, sh.map \ Evicted(sh))
                + payload_bytes(b, sh.node[b].value) > MaxMemoryBytes
<1> DEFINE E == Evicted(sh)
<1>1. /\ LinearOrder(sh.lru, sh.map) /\ Listed(sh.lru) = sh.map /\ sh.used \in Nat
      /\ E \subseteq sh.map
  BY DEF Consistent, Indexed, Shard, Evicted
<1>2. PICK b \in E : \A c \in E : <<b, c>> \in sh.lru
  BY <1>1, FirstOf
<1>3. Behind(sh.lru, b) = E \ {b}
  <2>1. ASSUME NEW j \in Behind(sh.lru, b) PROVE j \in E \ {b}
    <3>1. j \in sh.map /\ j # b /\ <<b, j>> \in sh.lru
      BY <1>1 DEF Behind
    <3>2. j \notin E => <<j, b>> \in sh.lru
      BY <3>1, EvictedLast
    <3> QED
      BY <1>1, <3>1, <3>2 DEF LinearOrder
  <2>2. ASSUME NEW j \in E \ {b} PROVE j \in Behind(sh.lru, b)
    BY <1>1, <1>2 DEF Behind
  <2> QED
    BY <2>1, <2>2
<1> DEFINE F == E \ {b}
           PF == Payload(sh.node, F)
           PR == Payload(sh.node, sh.map \ F)
           PK == Payload(sh.node, sh.map \ E)
           PO == payload_bytes(b, sh.node[b].value)
<1>4. Minus(sh.used, PF) > MaxMemoryBytes
  BY <1>3 DEF Evicted
<1>5. PF \in Nat /\ PR \in Nat /\ sh.used = PF + PR
  BY <1>1, HeldPayload
<1>6. PR = PO + PK /\ PO \in Nat /\ PK \in Nat
  <2>1. Valued(sh.node, sh.map \ F) /\ {b} \subseteq sh.map \ F
    BY <1>1, HeldValued
  <2>2. /\ Payload(sh.node, {b}) \in Nat
        /\ Payload(sh.node, (sh.map \ F) \ {b}) \in Nat
        /\ PR = Payload(sh.node, {b}) + Payload(sh.node, (sh.map \ F) \ {b})
    BY <2>1, PayloadSplit
  <2>3. (sh.map \ F) \ {b} = sh.map \ E
    BY <1>2
  <2>4. Payload(sh.node, {b}) = PO
    BY <2>1, PayloadOne DEF Valued
  <2> QED
    BY <2>2, <2>3, <2>4
<1> HIDE DEF PF, PR, PK, PO
<1>7. PK + PO > MaxMemoryBytes
  BY <1>4, <1>5, <1>6, SizeAssumption DEF Minus
<1> QED
  BY <1>3, <1>7 DEF PK, PO

-----------------------------------------------------------------------------
(* The action properties.                                                  *)

(* The formula under the box of KeysBalance. *)
BalanceStep ==
  Cardinality(shard'.map)
    + (shard'.evictions - shard.evictions)
    + (shard'.expired - shard.expired)
    + Flag(reply'.op = "del" /\ reply'.ret = 1)
  = Cardinality(shard.map)
    + Flag(reply'.op = "set" /\ reply'.key \notin shard.map)

(* Grown(sh, r) is a difference of whole numbers. *)
LEMMA Balanced ==
  ASSUME Consistent(shard), Consistent(shard'), NEW g \in {-1, 0, 1},
         Grown(shard, shard') = g,
         g = Flag(reply'.op = "set" /\ reply'.key \notin shard.map)
               - Flag(reply'.op = "del" /\ reply'.ret = 1)
  PROVE  BalanceStep
<1> DEFINE f1 == Flag(reply'.op = "set" /\ reply'.key \notin shard.map)
           f2 == Flag(reply'.op = "del" /\ reply'.ret = 1)
           c == Cardinality(shard.map)
           c1 == Cardinality(shard'.map)
<1>1. f1 \in Int /\ f2 \in Int
  BY DEF Flag
<1>2. c \in Int /\ c1 \in Int
  BY FS_CardinalityType DEF Consistent
<1>3. /\ shard.evictions \in Int /\ shard.expired \in Int
      /\ shard'.evictions \in Int /\ shard'.expired \in Int
  BY DEF Consistent, Shard
<1>4. (c1 + (shard'.evictions - shard.evictions) + (shard'.expired - shard.expired)) - c
        = f1 - f2
  BY DEF Grown
<1> HIDE DEF f1, f2, c, c1
<1>5. c1 + (shard'.evictions - shard.evictions) + (shard'.expired - shard.expired) + f2
        = c + f1
  BY <1>1, <1>2, <1>3, <1>4
<1> QED
  BY <1>5 DEF BalanceStep, f1, f2, c, c1

(* get and ttl look at the deadline of one key. *)
LEMMA LooksAtOne ==
  ASSUME NEW k, reply'.op \in {"get", "ttl"}, reply'.key = k,
         Left(shard, shard', PastDeadline(shard, {k}, now))
  PROVE  ExpiredStep
<1>1. FoundExpired = PastDeadline(shard, {k}, now)
  BY DEF FoundExpired, PastDeadline
<1> QED
  BY <1>1 DEF ExpiredStep, Left, Removed

(* set, expire and del look at none, and count none as expired. *)
LEMMA LooksAtNone ==
  ASSUME Consistent(shard), reply'.op \in {"set", "expire", "del"},
         shard'.expired = shard.expired
  PROVE  ExpiredStep
<1>1. FoundExpired = {} /\ Cardinality({}) = 0
  BY FS_EmptySet DEF FoundExpired
<1>2. shard.expired \in Nat
  BY DEF Consistent, Shard
<1> QED
  BY <1>1, <1>2 DEF ExpiredStep

(* What each step does to the keys, the counters and the reply. *)
LEMMA CallSteps == IInv /\ [Next]_vars =>
                     [TtlStep /\ ExpiredStep /\ BalanceStep]_<<shard, reply>>
<1> SUFFICES ASSUME IInv, [Next]_vars, ~ UNCHANGED <<shard, reply>>
             PROVE  TtlStep /\ ExpiredStep /\ BalanceStep
  OBVIOUS
<1>1. /\ Consistent(shard) /\ now \in 0 .. Horizon /\ now \in Int /\ Horizon \in Nat
  BY HorizonAssumption DEF IInv
<1>0. Consistent(shard')
  BY NextIInv DEF IInv, Consistent, Indexed, Scheduled, Accounted
<1>2. ASSUME NEW k \in Key, Get(k) PROVE TtlStep /\ ExpiredStep /\ BalanceStep
  <2> DEFINE r == get(shard, k, now)
  <2>1. /\ shard' = r.shard
        /\ reply' = [op |-> "get", key |-> k, arg |-> Null, ret |-> r.ret, at |-> now]
    BY <1>2 DEF Get, Return
  <2>2. reply'.op = "get"
    BY <2>1
  <2>3. /\ Grown(shard, shard') = 0
        /\ Left(shard, shard', PastDeadline(shard, {k}, now))
    BY <1>1, <2>1, GetEffect
  <2>4. BalanceStep
    BY <1>0, <1>1, <2>2, <2>3, Balanced DEF Flag
  <2>5. reply'.key = k
    BY <2>1
  <2>6. ExpiredStep
    BY <2>2, <2>3, <2>5, LooksAtOne
  <2> QED
    BY <2>2, <2>4, <2>6 DEF TtlStep
<1>3. ASSUME NEW k \in Key, NEW v \in Value, NEW s \in Seconds \cup {Null}, Set(k, v, s)
      PROVE  TtlStep /\ ExpiredStep /\ BalanceStep
  <2> DEFINE d == IF s = Null THEN Null ELSE Deadline(now, s)
  <2>1. d \in Int \cup {Null}
    BY <1>1, DeadlineType, SecondsAssumption
  <2>2. /\ shard' = set(shard, k, v, d)
        /\ reply' = [op |-> "set", key |-> k, arg |-> s, ret |-> Null, at |-> now]
    BY <1>3 DEF Set, Return
  <2> HIDE DEF d
  <2>3. reply'.op = "set" /\ reply'.key = k
    BY <2>2
  <2>4. /\ shard'.expired = shard.expired
        /\ Grown(shard, shard') = IF k \in shard.map THEN 0 ELSE 1
    BY <1>1, <2>1, <2>2, SetEffect
  <2>5. BalanceStep
    <3>1. CASE k \in shard.map
      BY <1>0, <1>1, <2>3, <2>4, <3>1, Balanced DEF Flag
    <3>2. CASE k \notin shard.map
      BY <1>0, <1>1, <2>3, <2>4, <3>2, Balanced DEF Flag
    <3> QED
      BY <3>1, <3>2
  <2>6. ExpiredStep
    BY <1>1, <2>3, <2>4, LooksAtNone
  <2> QED
    BY <2>3, <2>5, <2>6 DEF TtlStep
<1>4. ASSUME NEW k \in Key, NEW s \in Seconds, Expire(k, s)
      PROVE  TtlStep /\ ExpiredStep /\ BalanceStep
  <2> DEFINE d == Deadline(now, s)
             r == expire(shard, k, d)
  <2>1. /\ shard' = r.shard
        /\ reply' = [op |-> "expire", key |-> k, arg |-> s, ret |-> Flag(r.ret), at |-> now]
    BY <1>4 DEF Expire, Return
  <2>2. reply'.op = "expire"
    BY <2>1
  <2>3. shard'.expired = shard.expired /\ Grown(shard, shard') = 0
    BY <1>1, <2>1, ExpireEffect
  <2>4. BalanceStep
    BY <1>0, <1>1, <2>2, <2>3, Balanced DEF Flag
  <2>5. ExpiredStep
    BY <1>1, <2>2, <2>3, LooksAtNone
  <2> QED
    BY <2>2, <2>4, <2>5 DEF TtlStep
<1>5. ASSUME NEW k \in Key, Ttl(k) PROVE TtlStep /\ ExpiredStep /\ BalanceStep
  <2>1. PICK u \in now .. Horizon :
          /\ Return(ttl(shard, k, now, u).shard, "ttl", k, Null, ttl(shard, k, now, u).ret)
          /\ now' = u
    BY <1>5 DEF Ttl
  <2> DEFINE r == ttl(shard, k, now, u)
  <2>2. /\ shard' = r.shard /\ now' = u /\ u \in Int
        /\ reply' = [op |-> "ttl", key |-> k, arg |-> Null, ret |-> r.ret, at |-> now]
    BY <1>1, <2>1 DEF Return
  <2>3. reply'.op = "ttl" /\ reply'.key = k /\ reply'.ret = r.ret
    BY <2>2
  <2> DEFINE d == r.shard.node[k].expire_at
  <2>4. /\ Grown(shard, r.shard) = 0
        /\ Left(shard, r.shard, PastDeadline(shard, {k}, now))
        /\ IF k \notin r.shard.map THEN r.ret = -2
           ELSE IF d = Null THEN r.ret = -1
           ELSE r.ret >= 0 /\ (r.ret > 0 => u + r.ret * TicksPerSecond <= d)
    BY <1>1, <2>2, TtlEffect
  <2> HIDE DEF r
  <2>5. BalanceStep
    BY <1>0, <1>1, <2>2, <2>3, <2>4, Balanced DEF Flag
  <2>6. TtlStep
    BY <2>2, <2>3, <2>4 DEF TtlStep
  <2>7. ExpiredStep
    BY <2>2, <2>3, <2>4, LooksAtOne
  <2> QED
    BY <2>5, <2>6, <2>7
<1>6. ASSUME NEW k \in Key, Del(k) PROVE TtlStep /\ ExpiredStep /\ BalanceStep
  <2> DEFINE r == del(shard, k)
  <2>1. /\ shard' = r.shard
        /\ reply' = [op |-> "del", key |-> k, arg |-> Null, ret |-> Flag(r.ret), at |-> now]
    BY <1>6 DEF Del, Return
  <2>2. /\ Grown(shard, r.shard) = IF k \in shard.map THEN -1 ELSE 0
        /\ r.shard.expired = shard.expired
        /\ r.ret = (k \in shard.map)
    BY <1>1, DelEffect
  <2>3. Flag(r.ret) = IF k \in shard.map THEN 1 ELSE 0
    BY <2>2 DEF Flag
  <2> HIDE DEF r
  <2>4. /\ reply'.op = "del" /\ reply'.ret = IF k \in shard.map THEN 1 ELSE 0
    BY <2>1, <2>3
  <2>5. BalanceStep
    <3>1. CASE k \in shard.map
      BY <1>0, <1>1, <2>1, <2>2, <2>4, <3>1, Balanced DEF Flag
    <3>2. CASE k \notin shard.map
      BY <1>0, <1>1, <2>1, <2>2, <2>4, <3>2, Balanced DEF Flag
    <3> QED
      BY <3>1, <3>2
  <2>6. ExpiredStep
    BY <1>1, <2>1, <2>2, <2>4, LooksAtNone
  <2> QED
    BY <2>4, <2>5, <2>6 DEF TtlStep
<1>7. CASE RemoveExpiredKeys
  <2>1. /\ shard' = remove_expired_keys(shard, now)
        /\ reply' = [op |-> "remove_expired_keys", key |-> Null, arg |-> Null,
                     ret |-> Null, at |-> now]
    BY <1>7 DEF RemoveExpiredKeys, Return
  <2>2. reply'.op = "remove_expired_keys"
    BY <2>1
  <2>3. /\ Grown(shard, shard') = 0
        /\ Left(shard, shard', PastDeadline(shard, shard.map, now))
    BY <1>1, <2>1, SweepEffect
  <2>4. BalanceStep
    BY <1>0, <1>1, <2>2, <2>3, Balanced DEF Flag
  <2>5. FoundExpired = PastDeadline(shard, shard.map, now)
    BY <2>2 DEF FoundExpired, PastDeadline
  <2>6. ExpiredStep
    BY <2>3, <2>5 DEF ExpiredStep, Left, Removed
  <2> QED
    BY <2>2, <2>4, <2>6 DEF TtlStep
<1>8. ~ Tick /\ ~ UNCHANGED vars
  BY DEF Tick, vars
<1> QED
  BY <1>2, <1>3, <1>4, <1>5, <1>6, <1>7, <1>8 DEF Next

(* What ttl reports is true of the shard it leaves and never more than is  *)
(* left when it returns, for every deadline and however far the clock      *)
(* advances during the call.                                               *)
THEOREM TtlHonest == Spec => TtlNeverOverstates
<1>1. IInv /\ [Next]_vars => [TtlStep]_<<shard, reply>>
  BY CallSteps
<1> QED
  BY <1>1, Inductive, PTL DEF Spec, TtlNeverOverstates

(* Every key that get, ttl or the cleaner finds past its deadline has left *)
(* the shard when the call returns, also when no key left before it; these *)
(* calls remove no other key, and expired_ counts exactly these.           *)
THEOREM ExpiredKeysLeave == Spec => ExpiredLeave
<1>1. IInv /\ [Next]_vars => [ExpiredStep]_<<shard, reply>>
  BY CallSteps
<1> QED
  BY <1>1, Inductive, PTL DEF Spec, ExpiredLeave

(* The keys that appear and disappear balance with the results of del and  *)
(* the counters evictions_ and expired_.                                   *)
THEOREM KeysAccounted == Spec => KeysBalance
<1>1. IInv /\ [Next]_vars => [BalanceStep]_<<shard, reply>>
  BY CallSteps
<1> QED
  BY <1>1, Inductive, PTL DEF Spec, KeysBalance, BalanceStep

-----------------------------------------------------------------------------
(* Eviction.                                                               *)

(* The order and the keys evicted in a call of set. *)
LEMMA SetEvicts ==
  ASSUME IInv, NEW k \in Key, NEW v \in Value, NEW s \in Seconds \cup {Null}, Set(k, v, s)
  PROVE  \E st : /\ Consistent(st) /\ st.lru = MoveToFront(shard.lru, k)
                 /\ st.map = shard.map \cup {k} /\ Listed(st.lru) = st.map
                 /\ Evicted(st) \subseteq st.map /\ shard'.map = st.map \ Evicted(st)
                 /\ Payload(shard'.node, shard'.map) = Payload(st.node, shard'.map)
                 /\ \A j \in shard.map \ {k} : st.node[j] = shard.node[j]
                 /\ Evicted(st) = {} => shard'.evictions = shard.evictions
                 /\ reply'.op = "set" /\ reply'.key = k
<1> DEFINE d == IF s = Null THEN Null ELSE Deadline(now, s)
           st == Store(shard, k, v, d)
<1>1. Consistent(shard) /\ now \in Int
  BY HorizonAssumption DEF IInv
<1>2. d \in Int \cup {Null}
  BY <1>1, DeadlineType, SecondsAssumption
<1>3. /\ shard' = set(shard, k, v, d)
      /\ reply' = [op |-> "set", key |-> k, arg |-> s, ret |-> Null, at |-> now]
  BY DEF Set, Return
<1> HIDE DEF d
<1>4. /\ Consistent(st) /\ Evicted(st) \subseteq st.map
      /\ shard' = remove_keys(st, Evicted(st), "kEviction")
      /\ st.map = shard.map \cup {k} /\ shard'.map = st.map \ Evicted(st)
      /\ \A j \in shard.map \ {k} : st.node[j] = shard.node[j]
      /\ shard'.evictions = shard.evictions + Cardinality(Evicted(st))
  BY <1>1, <1>2, <1>3, SetEffect
<1>5. st.lru = MoveToFront(shard.lru, k)
  BY DEF Store
<1> HIDE DEF st
<1>6. \A j \in shard'.map : shard'.node[j].value = st.node[j].value
  <2>1. \A j \in shard'.map : shard'.node[j] = st.node[j]
    BY <1>4, RemoveEffect
  <2> QED
    BY <2>1
<1>7. Payload(shard'.node, shard'.map) = Payload(st.node, shard'.map)
  BY <1>6, PayloadSame
<1>8. Evicted(st) = {} => shard'.evictions = shard.evictions
  BY <1>1, <1>4, FS_EmptySet DEF Consistent, Shard
<1>9. Listed(st.lru) = st.map
  BY <1>4 DEF Consistent, Indexed
<1>10. reply'.op = "set" /\ reply'.key = k
  BY <1>3
<1> QED
  BY <1>4, <1>5, <1>7, <1>8, <1>9, <1>10

(* A step whose reply is set's is a call of set, or changes nothing. *)
LEMMA OnlySet ==
  ASSUME IInv, [Next]_vars, reply'.op = "set", ~ UNCHANGED <<shard, reply>>
  PROVE  \E k \in Key, v \in Value, s \in Seconds \cup {Null} : Set(k, v, s)
<1>1. ASSUME NEW k \in Key, Get(k) \/ (\E s \in Seconds : Expire(k, s)) \/ Ttl(k) \/ Del(k)
      PROVE  reply'.op # "set"
  BY <1>1 DEF Get, Expire, Ttl, Del, Return
<1>2. RemoveExpiredKeys => reply'.op # "set"
  BY DEF RemoveExpiredKeys, Return
<1>3. ~ Tick /\ ~ UNCHANGED vars
  BY DEF Tick, vars
<1> QED
  BY <1>1, <1>2, <1>3 DEF Next

(* A call of set evicts the least recently used keys and no more of them   *)
(* than it must.                                                           *)
THEOREM EvictsLeastRecent == Spec => LruEviction
<1>1. ASSUME IInv, NEW k \in Key, NEW v \in Value, NEW s \in Seconds \cup {Null},
             Set(k, v, s), shard'.evictions # shard.evictions
      PROVE  LruStep
  <2>1. PICK st : /\ Consistent(st) /\ st.lru = MoveToFront(shard.lru, k)
                  /\ st.map = shard.map \cup {k} /\ Listed(st.lru) = st.map
                  /\ Evicted(st) \subseteq st.map /\ shard'.map = st.map \ Evicted(st)
                  /\ Payload(shard'.node, shard'.map) = Payload(st.node, shard'.map)
                  /\ \A j \in shard.map \ {k} : st.node[j] = shard.node[j]
                  /\ Evicted(st) = {} => shard'.evictions = shard.evictions
                  /\ reply'.op = "set" /\ reply'.key = k
    BY <1>1, SetEvicts
  <2> DEFINE E == Evicted(st)
             before == MoveToFront(shard.lru, reply'.key)
             gone == Listed(before) \ shard'.map
  <2>2. before = st.lru /\ gone = E
    BY <2>1
  <2>3. \A a \in shard'.map, b \in E : <<a, b>> \in st.lru
    BY <2>1, EvictedLast
  <2>4. PICK b \in E : /\ Behind(st.lru, b) = E \ {b}
                       /\ Payload(st.node, st.map \ E)
                            + payload_bytes(b, st.node[b].value) > MaxMemoryBytes
    BY <1>1, <2>1, LastEvicted
  <2>5. ASSUME k \notin E
        PROVE  Payload(shard'.node, shard'.map)
                 + payload_bytes(b, shard.node[b].value) > MaxMemoryBytes
    <3>1. b \in shard.map \ {k}
      BY <2>1, <2>4, <2>5
    <3>2. st.node[b] = shard.node[b]
      BY <2>1, <3>1
    <3> QED
      BY <2>1, <2>4, <3>2
  <2> HIDE DEF before, gone, E
  <2>6. /\ \A a \in shard'.map, c \in gone : <<a, c>> \in before
        /\ \/ reply'.key \in gone
           \/ \E c \in gone :
                /\ Behind(before, c) = gone \ {c}
                /\ Payload(shard'.node, shard'.map)
                     + payload_bytes(c, shard.node[c].value) > MaxMemoryBytes
    BY <2>1, <2>2, <2>3, <2>4, <2>5
  <2> QED
    BY <2>6 DEF LruStep, before, gone
<1>2. IInv /\ [Next]_vars => [LruStep]_vars
  <2> SUFFICES ASSUME IInv, [Next]_vars, reply'.op = "set",
                      shard'.evictions # shard.evictions
               PROVE  LruStep
    BY DEF LruStep
  <2>1. ~ UNCHANGED <<shard, reply>>
    OBVIOUS
  <2> QED
    BY <1>1, <2>1, OnlySet
<1> QED
  BY <1>2, Inductive, PTL DEF Spec, LruEviction

-----------------------------------------------------------------------------
(* A key just read.                                                        *)

(* Moving a key to the front puts it before every key. *)
LEMMA FrontFirst ==
  ASSUME NEW lru, NEW k
  PROVE  /\ \A j \in Listed(MoveToFront(lru, k)) : <<k, j>> \in MoveToFront(lru, k)
         /\ \A a, b : a # k /\ b # k /\ <<a, b>> \in lru => <<a, b>> \in MoveToFront(lru, k)
<1> DEFINE R == Unlink(lru, {k})
<1>1. MoveToFront(lru, k) = R \cup {<<k, j>> : j \in Listed(R) \cup {k}}
  BY DEF MoveToFront, PushFront
<1>2. \A a, b : a # k /\ b # k /\ <<a, b>> \in lru => <<a, b>> \in R
  BY DEF Unlink
<1> HIDE DEF R
<1>3. \A j \in Listed(MoveToFront(lru, k)) : j \in Listed(R) \cup {k}
  <2> SUFFICES ASSUME NEW p \in MoveToFront(lru, k), p[1] = p[2], p[1] # k
               PROVE  p[1] \in Listed(R)
    BY DEF Listed
  <2>1. p \in R
    BY <1>1
  <2> QED
    BY <2>1 DEF Listed
<1> QED
  BY <1>1, <1>2, <1>3

(* The key get returned a value for is at the front until the next call. *)
LEMMA ReadFirstKept == IInv /\ ReadFirst /\ [Next]_vars => ReadFirst'
<1> SUFFICES ASSUME IInv, ReadFirst, [Next]_vars PROVE ReadFirst'
  OBVIOUS
<1>1. Consistent(shard) /\ Consistent(shard')
  BY NextIInv DEF IInv, Consistent, Indexed, Scheduled, Accounted
<1>2. ASSUME NEW k \in Key, Get(k) PROVE ReadFirst'
  <2> SUFFICES ASSUME reply'.ret # Null
               PROVE  /\ reply'.key \in shard'.map
                      /\ \A j \in shard'.map : <<reply'.key, j>> \in shard'.lru
    BY DEF ReadFirst
  <2> DEFINE r == get(shard, k, now)
             m == [shard EXCEPT !.lru = MoveToFront(@, k)]
  <2>1. /\ shard' = r.shard
        /\ reply' = [op |-> "get", key |-> k, arg |-> Null, ret |-> r.ret, at |-> now]
    BY <1>2 DEF Get, Return
  <2>2. r.ret # Null /\ reply'.key = k
    BY <2>1
  <2>3. k \in shard.map /\ r.shard = m
    BY <2>2 DEF get
  <2>4. m.lru = MoveToFront(shard.lru, k) /\ m.map = shard.map
    BY <1>1 DEF Consistent, Shard
  <2> HIDE DEF m, r
  <2>5. shard'.lru = MoveToFront(shard.lru, k) /\ k \in shard'.map
    BY <2>1, <2>3, <2>4
  <2>6. Listed(shard'.lru) = shard'.map
    BY <1>1 DEF Consistent, Indexed
  <2> QED
    BY <2>2, <2>5, <2>6, FrontFirst
<1>3. ASSUME NEW k \in Key, \/ \E v \in Value, s \in Seconds \cup {Null} : Set(k, v, s)
                            \/ \E s \in Seconds : Expire(k, s)
                            \/ Ttl(k) \/ Del(k)
      PROVE  ReadFirst'
  <2>1. reply'.op # "get"
    BY <1>3 DEF Set, Expire, Ttl, Del, Return
  <2> QED
    BY <2>1 DEF ReadFirst
<1>4. CASE RemoveExpiredKeys
  <2>1. reply'.op # "get"
    BY <1>4 DEF RemoveExpiredKeys, Return
  <2> QED
    BY <2>1 DEF ReadFirst
<1>5. CASE Tick \/ UNCHANGED vars
  BY <1>5 DEF Tick, vars, ReadFirst
<1> QED
  BY <1>2, <1>3, <1>4, <1>5 DEF Next

(* A key that get has just returned is evicted by the next call only if    *)
(* that call evicts every other key the shard held.                        *)
THEOREM ReadsProtect == Spec => ReadProtects
<1> DEFINE A == reply.op = "get" /\ reply.ret # Null /\ reply'.op = "set"
                  /\ reply'.key # reply.key /\ reply.key \notin shard'.map
                => shard'.map \subseteq {reply'.key}
<1>1. ASSUME IInv, ReadFirst, NEW k \in Key, NEW v \in Value,
             NEW s \in Seconds \cup {Null}, Set(k, v, s)
      PROVE  A
  <2> SUFFICES ASSUME reply.op = "get", reply.ret # Null, reply'.key # reply.key,
                      reply.key \notin shard'.map, NEW a \in shard'.map, a # reply'.key
               PROVE  FALSE
    OBVIOUS
  <2>1. PICK st : /\ Consistent(st) /\ st.lru = MoveToFront(shard.lru, k)
                  /\ st.map = shard.map \cup {k} /\ Listed(st.lru) = st.map
                  /\ Evicted(st) \subseteq st.map /\ shard'.map = st.map \ Evicted(st)
                  /\ Payload(shard'.node, shard'.map) = Payload(st.node, shard'.map)
                  /\ \A j \in shard.map \ {k} : st.node[j] = shard.node[j]
                  /\ Evicted(st) = {} => shard'.evictions = shard.evictions
                  /\ reply'.op = "set" /\ reply'.key = k
    BY <1>1, SetEvicts
  <2> DEFINE g == reply.key
  <2>2. /\ g \in shard.map /\ g # k /\ \A j \in shard.map : <<g, j>> \in shard.lru
    BY <1>1, <2>1 DEF ReadFirst
  <2>3. g \in Evicted(st) /\ a \in st.map \ Evicted(st) /\ a \in shard.map /\ a # k /\ a # g
    BY <2>1, <2>2
  <2>4. <<a, g>> \in st.lru
    BY <2>1, <2>3, EvictedLast
  <2>5. <<g, a>> \in st.lru
    BY <2>1, <2>2, <2>3, FrontFirst
  <2>6. LinearOrder(st.lru, st.map)
    BY <2>1 DEF Consistent, Indexed
  <2> QED
    BY <2>1, <2>2, <2>3, <2>4, <2>5, <2>6 DEF LinearOrder
<1>2. IInv /\ ReadFirst /\ [Next]_vars => [A]_vars
  <2> SUFFICES ASSUME IInv, ReadFirst, [Next]_vars, reply.op = "get", reply'.op = "set"
               PROVE  A
    OBVIOUS
  <2>1. ~ UNCHANGED <<shard, reply>>
    OBVIOUS
  <2> QED
    BY <1>1, <2>1, OnlySet
<1>3. Init => ReadFirst
  BY DEF Init, ReadFirst
<1> QED
  BY <1>2, <1>3, ReadFirstKept, Inductive, PTL DEF Spec, ReadProtects

-----------------------------------------------------------------------------
(* The loops, iteration by iteration.                                      *)

(* A set of naturals that has 0 and every successor of its elements. *)
LEMMA CountUp ==
  ASSUME NEW T, 0 \in T, \A n \in Nat : n \in T => n + 1 \in T
  PROVE  Nat \subseteq T
<1> SUFFICES ASSUME Nat \ T # {} PROVE FALSE
  OBVIOUS
<1>1. PICK x \in Nat \ T : \A y \in Nat \ T : x <= y
  BY Least
<1>2. x # 0 /\ x - 1 \in T
  BY <1>1
<1> QED
  BY <1>1, <1>2

(* Removing nothing changes nothing. *)
LEMMA RemoveNone ==
  ASSUME NEW sh, Consistent(sh), NEW reason
  PROVE  remove_keys(sh, {}, reason) = sh
<1>1. sh \in Shard
  BY DEF Consistent
<1>2. Payload(sh.node, {}) = 0 /\ Cardinality({}) = 0
  BY PayloadEmpty, FS_EmptySet
<1>3. Unlink(sh.lru, {}) = sh.lru
  BY DEF Unlink
<1>4. [k \in Key |-> IF k \in {} THEN Null ELSE sh.node[k]] = sh.node
  BY <1>1 DEF Shard
<1>5. Minus(sh.used, 0) = sh.used
  BY <1>1 DEF Shard, Minus
<1>6. sh.map \ {} = sh.map /\ sh.expire_map \ {sh.node[k].expire_it : k \in {}} = sh.expire_map
  OBVIOUS
<1>7. sh.evictions + 0 = sh.evictions /\ sh.expired + 0 = sh.expired
  BY <1>1 DEF Shard
<1>8. sh = [map |-> sh.map, lru |-> sh.lru, node |-> sh.node, expire_map |-> sh.expire_map,
            used |-> sh.used, evictions |-> sh.evictions, expired |-> sh.expired]
  BY <1>1 DEF Shard
<1> QED
  BY <1>2, <1>3, <1>4, <1>5, <1>6, <1>7, <1>8 DEF remove_keys

(* remove_key is remove_keys of one key. *)
LEMMA RemoveOne ==
  ASSUME NEW sh, Consistent(sh), NEW k \in sh.map, NEW reason
  PROVE  remove_key(sh, k, reason) = remove_keys(sh, {k}, reason)
<1> DEFINE n == sh.node[k]
<1>1. sh \in Shard /\ k \in Key /\ n \in Node
  BY HeldNode DEF Consistent
<1>2. Payload(sh.node, {k}) = payload_bytes(k, n.value) /\ Cardinality({k}) = 1
  BY <1>1, PayloadOne, FS_Singleton DEF Node
<1>3. [sh.node EXCEPT ![k] = Null]
        = [j \in Key |-> IF j \in {k} THEN Null ELSE sh.node[j]]
  BY <1>1 DEF Shard
<1>4. (IF n.expire_it # Null THEN Erased(sh.expire_map, n.expire_it) ELSE sh.expire_map)
        = sh.expire_map \ {sh.node[j].expire_it : j \in {k}}
  <2>1. n.expire_it # Null => n.expire_it \in sh.expire_map
    BY DEF Consistent, Scheduled, Iterator
  <2> QED
    BY <1>1, <2>1, NullAssumption DEF Shard, Erased
<1>5. /\ sh.evictions + Flag(reason = "kEviction")
           = IF reason = "kEviction" THEN sh.evictions + 1 ELSE sh.evictions
      /\ sh.expired + Flag(reason = "kExpired")
           = IF reason = "kExpired" THEN sh.expired + 1 ELSE sh.expired
  BY <1>1 DEF Flag, Shard
<1> QED
  BY <1>2, <1>3, <1>4, <1>5 DEF remove_key, remove_keys, Minus

(* Two removals are one. *)
LEMMA RemoveTwice ==
  ASSUME NEW sh, Consistent(sh), NEW J, NEW K, J \subseteq sh.map,
         K \subseteq sh.map \ J, NEW reason
  PROVE  remove_keys(remove_keys(sh, J, reason), K, reason)
           = remove_keys(sh, J \cup K, reason)
<1> DEFINE r == remove_keys(sh, J, reason)
<1>1. sh \in Shard /\ J \subseteq Key /\ K \subseteq Key
  BY HeldNode DEF Consistent
<1>2. \A k \in K : k \notin J /\ r.node[k] = sh.node[k]
  BY <1>1 DEF remove_keys
<1>3. [k \in Key |-> IF k \in K THEN Null ELSE r.node[k]]
        = [k \in Key |-> IF k \in J \cup K THEN Null ELSE sh.node[k]]
  BY <1>1 DEF remove_keys
<1>4. Unlink(r.lru, K) = Unlink(sh.lru, J \cup K) /\ r.map \ K = sh.map \ (J \cup K)
  BY DEF remove_keys, Unlink
<1>5. r.expire_map \ {r.node[k].expire_it : k \in K}
        = sh.expire_map \ {sh.node[k].expire_it : k \in J \cup K}
  <2>1. r.expire_map = sh.expire_map \ {sh.node[k].expire_it : k \in J}
    BY DEF remove_keys
  <2>2. {r.node[k].expire_it : k \in K} = {sh.node[k].expire_it : k \in K}
    BY <1>2
  <2> QED
    BY <2>1, <2>2
<1>6. Minus(r.used, Payload(r.node, K)) = Minus(sh.used, Payload(sh.node, J \cup K))
  <2>1. Payload(r.node, K) = Payload(sh.node, K)
    BY <1>2, PayloadSame
  <2>2. Valued(sh.node, J \cup K)
    BY HeldValued
  <2>3. /\ Payload(sh.node, J) \in Nat /\ Payload(sh.node, (J \cup K) \ J) \in Nat
        /\ Payload(sh.node, J \cup K)
             = Payload(sh.node, J) + Payload(sh.node, (J \cup K) \ J)
    BY <2>2, PayloadSplit
  <2>4. (J \cup K) \ J = K
    OBVIOUS
  <2>5. r.used = Minus(sh.used, Payload(sh.node, J))
    BY DEF remove_keys
  <2> DEFINE a == Payload(sh.node, J)
             b == Payload(sh.node, K)
             c == Payload(sh.node, J \cup K)
  <2>6. a \in Nat /\ b \in Nat /\ c = a + b /\ sh.used \in Nat
    BY <1>1, <2>3, <2>4 DEF Shard
  <2> HIDE DEF a, b, c
  <2>7. Minus(Minus(sh.used, a), b) = Minus(sh.used, c)
    BY <2>6 DEF Minus
  <2> QED
    BY <2>1, <2>5, <2>7 DEF a, b, c
<1>7. Cardinality(J \cup K) = Cardinality(J) + Cardinality(K)
      /\ Cardinality(J) \in Nat /\ Cardinality(K) \in Nat
  <2>1. IsFiniteSet(J) /\ IsFiniteSet(K)
    BY FS_Subset DEF Consistent
  <2> QED
    BY <2>1, DisjointCount
<1>8. /\ (IF reason = "kEviction" THEN r.evictions + Cardinality(K) ELSE r.evictions)
           = IF reason = "kEviction" THEN sh.evictions + Cardinality(J \cup K)
                                     ELSE sh.evictions
      /\ (IF reason = "kExpired" THEN r.expired + Cardinality(K) ELSE r.expired)
           = IF reason = "kExpired" THEN sh.expired + Cardinality(J \cup K)
                                    ELSE sh.expired
  <2>1. /\ r.evictions = IF reason = "kEviction" THEN sh.evictions + Cardinality(J)
                                                 ELSE sh.evictions
        /\ r.expired = IF reason = "kExpired" THEN sh.expired + Cardinality(J)
                                              ELSE sh.expired
    BY DEF remove_keys
  <2>2. sh.evictions \in Nat /\ sh.expired \in Nat
    BY <1>1 DEF Shard
  <2> HIDE DEF r
  <2> QED
    BY <1>7, <2>1, <2>2
<1> HIDE DEF r
<1>9. remove_keys(r, K, reason) = remove_keys(sh, J \cup K, reason)
  BY <1>3, <1>4, <1>5, <1>6, <1>8 DEF remove_keys
<1> QED
  BY <1>9 DEF r

(* Within the budget, or with nothing left, enforce_max_memory does nothing. *)
LEMMA EnforceDone ==
  ASSUME NEW sh, Consistent(sh), ~ (sh.used > MaxMemoryBytes /\ Listed(sh.lru) # {})
  PROVE  enforce_max_memory(sh) = sh
<1>1. sh.used \in Nat /\ MaxMemoryBytes \in Nat /\ Listed(sh.lru) = sh.map
  BY SizeAssumption DEF Consistent, Shard, Indexed
<1>2. ASSUME NEW k \in Evicted(sh) PROVE FALSE
  <2> DEFINE K == Behind(sh.lru, k)
             P == Payload(sh.node, K)
  <2>1. K \subseteq sh.map
    BY <1>1 DEF Behind
  <2>2. P \in Nat
    BY <2>1, HeldPayload
  <2>3. Minus(sh.used, P) > MaxMemoryBytes /\ k \in Listed(sh.lru)
    BY <1>2 DEF Evicted
  <2> HIDE DEF P
  <2> QED
    BY <1>1, <2>2, <2>3 DEF Minus
<1>3. Evicted(sh) = {}
  BY <1>2
<1> QED
  BY <1>3, RemoveNone DEF enforce_max_memory

(* One eviction leaves the rest of them to do. *)
LEMMA EnforceOnce ==
  ASSUME NEW sh, Consistent(sh), sh.used > MaxMemoryBytes, Listed(sh.lru) # {}
  PROVE  /\ Consistent(evict_lru(sh))
         /\ enforce_max_memory(evict_lru(sh)) = enforce_max_memory(sh)
         /\ \E b \in sh.map : evict_lru(sh).map = sh.map \ {b}
<1> DEFINE b == CHOOSE k \in Listed(sh.lru) : Behind(sh.lru, k) = {}
           s1 == remove_keys(sh, {b}, "kEviction")
<1>1. /\ sh.used \in Nat /\ MaxMemoryBytes \in Nat /\ Listed(sh.lru) = sh.map
      /\ LinearOrder(sh.lru, sh.map)
  BY SizeAssumption DEF Consistent, Shard, Indexed
<1>2. b \in sh.map /\ Behind(sh.lru, b) = {}
  <2>1. PICK x \in sh.map : \A c \in sh.map : c \notin Behind(sh.lru, x)
    BY <1>1, LastOf
  <2>2. Behind(sh.lru, x) = {}
    BY <1>1, <2>1 DEF Behind
  <2> QED
    BY <1>1, <2>2
<1>3. evict_lru(sh) = s1
  <2>1. evict_lru(sh) = remove_key(sh, b, "kEviction")
    BY <1>2 DEF evict_lru
  <2> HIDE DEF b
  <2> QED
    BY <1>2, <2>1, RemoveOne
<1> HIDE DEF b
<1>4. Consistent(s1) /\ s1.used = sh.used - Payload(sh.node, {b})
  BY <1>2, RemoveKeysConsistent
<1>5. /\ s1.map = sh.map \ {b} /\ s1.lru = Unlink(sh.lru, {b})
      /\ \A k \in s1.map : s1.node[k] = sh.node[k]
  BY <1>1, <1>2, HeldNode DEF remove_keys, Consistent
<1> HIDE DEF s1
<1>6. Listed(s1.lru) = sh.map \ {b}
  BY <1>4, <1>5 DEF Consistent, Indexed
<1>7. b \in Evicted(sh)
  <2>1. Payload(sh.node, Behind(sh.lru, b)) = 0
    BY <1>2, PayloadEmpty
  <2> QED
    BY <1>1, <1>2, <2>1 DEF Evicted, Minus
<1>8. ASSUME NEW k \in sh.map \ {b}
      PROVE  k \in Evicted(s1) <=> k \in Evicted(sh)
  <2> DEFINE B == Behind(sh.lru, k)
  <2>1. b \in B /\ B \subseteq sh.map
    <3>1. <<k, b>> \in sh.lru \/ <<b, k>> \in sh.lru
      BY <1>1, <1>2 DEF LinearOrder
    <3>2. <<b, k>> \notin sh.lru
      BY <1>1, <1>2 DEF Behind
    <3> QED
      BY <1>1, <1>2, <3>1, <3>2 DEF Behind
  <2>2. Behind(s1.lru, k) = B \ {b}
    <3>1. \A x, y : <<x, y>> \in s1.lru <=> <<x, y>> \in sh.lru /\ x # b /\ y # b
      BY <1>5 DEF Unlink
    <3>2. \A j : j \in Behind(s1.lru, k) <=> j \in sh.map \ {b} /\ j # k /\ <<k, j>> \in sh.lru
      BY <1>6, <3>1 DEF Behind
    <3>3. \A j : j \in B <=> j \in sh.map /\ j # k /\ <<k, j>> \in sh.lru
      BY <1>1 DEF Behind
    <3> HIDE DEF B
    <3> QED
      BY <3>2, <3>3
  <2> HIDE DEF B
  <2>3. Payload(s1.node, B \ {b}) = Payload(sh.node, B \ {b})
    BY <1>5, <2>1, PayloadSame
  <2> DEFINE x == Payload(sh.node, {b})
             y == Payload(sh.node, B \ {b})
             z == Payload(sh.node, B)
  <2>4. Valued(sh.node, B)
    BY <2>1, HeldValued
  <2>5. x \in Nat /\ y \in Nat /\ z = x + y
    BY <2>1, <2>4, PayloadSplit
  <2>6. s1.used = sh.used - x /\ s1.used \in Nat
    BY <1>4 DEF Consistent, Shard
  <2> HIDE DEF x, y, z
  <2>7. Minus(s1.used, y) = Minus(sh.used, z)
    BY <1>1, <2>5, <2>6 DEF Minus
  <2>8. k \in Evicted(s1) <=> Minus(s1.used, y) > MaxMemoryBytes
    BY <1>6, <2>2, <2>3 DEF Evicted, y
  <2>9. k \in Evicted(sh) <=> Minus(sh.used, z) > MaxMemoryBytes
    BY <1>1 DEF Evicted, z, B
  <2> QED
    BY <2>7, <2>8, <2>9
<1>9. Evicted(s1) = Evicted(sh) \ {b} /\ Evicted(sh) \subseteq sh.map
  BY <1>1, <1>6, <1>8 DEF Evicted
<1>10. remove_keys(s1, Evicted(sh) \ {b}, "kEviction")
         = remove_keys(sh, {b} \cup (Evicted(sh) \ {b}), "kEviction")
  BY <1>2, <1>9, RemoveTwice DEF s1
<1>11. {b} \cup (Evicted(sh) \ {b}) = Evicted(sh)
  BY <1>7
<1>12. enforce_max_memory(s1) = enforce_max_memory(sh)
  BY <1>9, <1>10, <1>11 DEF enforce_max_memory
<1> QED
  BY <1>2, <1>3, <1>4, <1>5, <1>12

(* The first n turns of the eviction loop. *)
Enforced(sh, turns, g) ==
  g = [n \in 0 .. turns |-> IF n = 0 THEN sh ELSE EnforceTurn(g[n - 1])]

(* There are always such turns. *)
LEMMA EnforcedExists ==
  ASSUME NEW sh, NEW turns \in Nat
  PROVE  \E g : Enforced(sh, turns, g)
<1> DEFINE T == {n \in Nat : \E g : Enforced(sh, n, g)}
<1>1. 0 \in T
  <2> DEFINE g == [n \in {0} |-> sh]
  <2>1. 0 .. 0 = {0}
    OBVIOUS
  <2>2. g = [n \in {0} |-> IF n = 0 THEN sh ELSE EnforceTurn(g[n - 1])]
    OBVIOUS
  <2> QED
    BY <2>1, <2>2 DEF Enforced
<1>2. ASSUME NEW m \in Nat, m \in T PROVE m + 1 \in T
  <2>1. PICK g : Enforced(sh, m, g)
    BY <1>2
  <2> DEFINE h == [n \in 0 .. m + 1 |-> IF n = m + 1 THEN EnforceTurn(g[m]) ELSE g[n]]
  <2>2. \A n \in 0 .. m : g[n] = IF n = 0 THEN sh ELSE EnforceTurn(g[n - 1])
    BY <2>1 DEF Enforced
  <2>3. \A n \in 0 .. m : h[n] = g[n]
    OBVIOUS
  <2>4. ASSUME NEW n \in 0 .. m + 1
        PROVE  h[n] = IF n = 0 THEN sh ELSE EnforceTurn(h[n - 1])
    <3>1. CASE n = m + 1
      BY <2>3, <3>1
    <3>2. CASE n \in 1 .. m
      <4>1. n - 1 \in 0 .. m /\ n \in 0 .. m
        BY <3>2
      <4> QED
        BY <2>2, <2>3, <3>2, <4>1
    <3>3. CASE n = 0
      BY <2>2, <2>3, <3>3
    <3> QED
      BY <3>1, <3>2, <3>3
  <2>5. h = [n \in 0 .. m + 1 |-> IF n = 0 THEN sh ELSE EnforceTurn(h[n - 1])]
    BY <2>4
  <2>6. Enforced(sh, m + 1, h) /\ m + 1 \in Nat
    BY <2>5 DEF Enforced
  <2> HIDE DEF h
  <2> QED
    BY <2>6
<1> HIDE DEF T
<1>3. turns \in T
  BY <1>1, <1>2, CountUp
<1> QED
  BY <1>3 DEF T

(* The eviction loop, turn by turn, removes Evicted. *)
LEMMA EnforceLoopExact ==
  ASSUME NEW sh, Consistent(sh)
  PROVE  EnforceLoop(sh) = enforce_max_memory(sh)
<1> DEFINE N == Cardinality(Listed(sh.lru))
           P(g) == Enforced(sh, N, g)
           after == CHOOSE g : P(g)
           Over(s) == s.used > MaxMemoryBytes /\ Listed(s.lru) # {}
<1>1. Listed(sh.lru) = sh.map /\ N = Cardinality(sh.map) /\ N \in Nat
  BY FS_CardinalityType DEF Consistent, Indexed
<1>2. EnforceLoop(sh) = after[N]
  BY Zenon DEF EnforceLoop, Enforced
<1>3. P(after)
  <2>1. \E g : P(g)
    BY <1>1, EnforcedExists
  <2> HIDE DEF P
  <2> QED
    BY <2>1
<1>4. \A n \in 0 .. N : after[n] = IF n = 0 THEN sh ELSE EnforceTurn(after[n - 1])
  <2> HIDE DEF after, N
  <2> QED
    BY <1>3 DEF Enforced
<1> HIDE DEF after, N
<1> DEFINE Good(s, n) == /\ Consistent(s)
                         /\ enforce_max_memory(s) = enforce_max_memory(sh)
                         /\ Over(s) => Cardinality(s.map) <= N - n
           T == {n \in Nat : n <= N => Good(after[n], n)}
<1>5. 0 \in T
  BY <1>1, <1>4
<1>6. ASSUME NEW n \in Nat, n \in T PROVE n + 1 \in T
  <2> SUFFICES ASSUME n + 1 <= N PROVE Good(after[n + 1], n + 1)
    OBVIOUS
  <2> DEFINE s == after[n]
             r == after[n + 1]
  <2>1. n + 1 \in 0 .. N /\ n + 1 # 0 /\ n + 1 - 1 = n /\ n <= N
    BY <1>1
  <2>2. r = EnforceTurn(s) /\ Good(s, n)
    BY <1>4, <1>6, <2>1
  <2> HIDE DEF s, r
  <2>3. CASE Over(s)
    <3>1. r = evict_lru(s)
      BY <2>2, <2>3 DEF EnforceTurn
    <3>2. /\ Consistent(r) /\ enforce_max_memory(r) = enforce_max_memory(s)
          /\ \E b \in s.map : r.map = s.map \ {b}
      BY <2>2, <2>3, <3>1, EnforceOnce
    <3>3. Cardinality(r.map) = Cardinality(s.map) - 1 /\ Cardinality(s.map) \in Nat
      BY <2>2, <3>2, FS_RemoveElement, FS_CardinalityType DEF Consistent
    <3> QED
      BY <1>1, <2>1, <2>2, <2>3, <3>2, <3>3 DEF r
  <2>4. CASE ~ Over(s)
    <3>1. r = s
      BY <2>2, <2>4 DEF EnforceTurn
    <3> QED
      BY <2>2, <2>4, <3>1 DEF r
  <2> QED
    BY <2>3, <2>4
<1>7. N \in T
  <2> HIDE DEF T
  <2> QED
    BY <1>1, <1>5, <1>6, CountUp
<1> DEFINE e == after[N]
<1>8. Good(e, N)
  BY <1>1, <1>7
<1> HIDE DEF e
<1>9. ~ Over(e)
  <2>1. Listed(e.lru) = e.map /\ IsFiniteSet(e.map)
    BY <1>8 DEF Consistent, Indexed
  <2>2. Cardinality(e.map) \in Nat /\ (Cardinality(e.map) = 0 <=> e.map = {})
    BY <2>1, FS_CardinalityType, FS_EmptySet
  <2> QED
    BY <1>1, <1>8, <2>1, <2>2
<1>10. enforce_max_memory(e) = e
  BY <1>8, <1>9, EnforceDone
<1> QED
  BY <1>2, <1>8, <1>10 DEF e

(* The index of deadlines is finite, and each entry is that of its key. *)
LEMMA IndexEntries ==
  ASSUME NEW sh, Consistent(sh)
  PROVE  /\ IsFiniteSet(sh.expire_map) /\ Cardinality(sh.expire_map) \in Nat
         /\ \A p \in sh.expire_map : /\ p \in Pair /\ p[1] \in Int /\ p[2] \in sh.map
                                     /\ sh.node[p[2]].expire_it = p
<1>1. sh.expire_map \subseteq Pair
  BY DEF Consistent, Shard
<1>2. \A p \in sh.expire_map : p[1] \in Int
  BY <1>1 DEF Pair
<1>3. ASSUME NEW p \in sh.expire_map
      PROVE  p[2] \in sh.map /\ sh.node[p[2]].expire_it = p
  <2>1. PICK j \in sh.map : sh.node[j].expire_at # Null
                            /\ p = <<sh.node[j].expire_at, j>>
    BY DEF Consistent, Scheduled
  <2>2. sh.node[j].expire_it = Iterator(j, sh.node[j].expire_at) /\ p[2] = j
    BY <2>1 DEF Consistent, Scheduled
  <2> QED
    BY <2>1, <2>2 DEF Iterator
<1>4. IsFiniteSet(sh.expire_map)
  <2> DEFINE f == [p \in sh.expire_map |-> p[2]]
  <2>1. f \in Injection(sh.expire_map, sh.map)
    <3>1. f \in [sh.expire_map -> sh.map]
      BY <1>3
    <3>2. ASSUME NEW p \in sh.expire_map, NEW q \in sh.expire_map, f[p] = f[q]
          PROVE  p = q
      BY <1>3, <3>2
    <3> QED
      BY <3>1, <3>2 DEF Injection, IsInjective
  <2>2. IsFiniteSet(sh.map)
    BY DEF Consistent
  <2> HIDE DEF f
  <2> QED
    BY <2>1, <2>2, FS_Injection
<1> QED
  BY <1>1, <1>2, <1>3, <1>4, FS_CardinalityType

(* While an entry is due, the front of the index is. *)
LEMMA FrontDue ==
  ASSUME NEW sh, Consistent(sh), NEW t \in Int, NEW d \in sh.expire_map, d[1] <= t
  PROVE  \E p \in sh.expire_map : p[1] <= t /\ \A q \in sh.expire_map : p[1] <= q[1]
<1> DEFINE E == sh.expire_map
           Before(p) == {q \in E : q[1] < p[1]}
           T == {Cardinality(Before(p)) : p \in E}
<1>1. IsFiniteSet(E) /\ \A p \in E : p[1] \in Int
  BY IndexEntries
<1>2. \A p \in E : IsFiniteSet(Before(p)) /\ Cardinality(Before(p)) \in Nat
  BY <1>1, FS_Subset, FS_CardinalityType
<1>3. T \subseteq Nat /\ T # {}
  BY <1>2
<1>4. PICK x \in T : \A y \in T : x <= y
  <2> HIDE DEF T
  <2> QED
    BY <1>3, Least
<1>5. PICK p \in E : x = Cardinality(Before(p))
  BY <1>4
<1>6. ASSUME NEW q \in E, ~ (p[1] <= q[1]) PROVE FALSE
  <2>1. q[1] < p[1] /\ q[1] \in Int /\ p[1] \in Int
    BY <1>1, <1>6
  <2>2. Before(q) \subseteq Before(p) \ {q} /\ q \in Before(p)
    BY <1>1, <2>1
  <2> DEFINE B == Before(p)
             C == Before(q)
  <2>3. IsFiniteSet(B) /\ Cardinality(B) \in Nat /\ Cardinality(C) \in Nat /\ C \subseteq B \ {q}
        /\ q \in B /\ Cardinality(B) <= Cardinality(C)
    BY <1>2, <1>4, <1>5, <2>2
  <2> HIDE DEF B, C
  <2>4. IsFiniteSet(B \ {q}) /\ Cardinality(B \ {q}) = Cardinality(B) - 1
    BY <2>3, FS_RemoveElement
  <2>5. Cardinality(C) <= Cardinality(B \ {q})
    BY <2>3, <2>4, FS_Subset
  <2> QED
    BY <2>3, <2>4, <2>5
<1>7. p[1] <= d[1] /\ p[1] \in Int /\ d[1] \in Int
  BY <1>1, <1>6
<1>8. p[1] <= t
  BY <1>7
<1> QED
  BY <1>6, <1>8

(* One turn of the expiration loop is the removal of the entry's key. *)
LEMMA SweepEntryRemoves ==
  ASSUME NEW sh, Consistent(sh), NEW p \in sh.expire_map
  PROVE  /\ SweepEntry(sh, p) = remove_keys(sh, {p[2]}, "kExpired")
         /\ SweepEntry(sh, p).expire_map = sh.expire_map \ {p}
<1> DEFINE k == p[2]
           n == sh.node[k]
           erased == [sh EXCEPT !.expire_map = Erased(@, p), !.node[k].expire_it = Null]
<1>1. k \in sh.map /\ k \in Key /\ n \in Node /\ n.expire_it = p /\ sh \in Shard
  BY IndexEntries, HeldNode DEF Consistent
<1> HIDE DEF k
<1>2. /\ erased.map = sh.map /\ erased.lru = sh.lru /\ erased.used = sh.used
      /\ erased.evictions = sh.evictions /\ erased.expired = sh.expired
      /\ erased.expire_map = sh.expire_map \ {p}
      /\ erased.node = [sh.node EXCEPT ![k].expire_it = Null]
  BY <1>1 DEF Shard, Erased
<1>3. erased.node[k].expire_it = Null /\ erased.node[k].value = n.value
  BY <1>1, <1>2 DEF Shard, Node
<1>4. [erased.node EXCEPT ![k] = Null] = [sh.node EXCEPT ![k] = Null]
  BY <1>1, <1>2 DEF Shard
<1>5. SweepEntry(sh, p) = remove_key(erased, k, "kExpired")
  BY <1>1 DEF SweepEntry, k
<1> HIDE DEF erased
<1>6. remove_key(sh, k, "kExpired").expire_map = sh.expire_map \ {p}
  BY <1>1, NullAssumption DEF remove_key, Shard, Erased
<1>7. remove_key(erased, k, "kExpired") = remove_key(sh, k, "kExpired")
  <2> DEFINE c == payload_bytes(k, n.value)
  <2>1. remove_key(erased, k, "kExpired")
         = [map |-> sh.map \ {k}, lru |-> Unlink(sh.lru, {k}),
            node |-> [sh.node EXCEPT ![k] = Null], expire_map |-> sh.expire_map \ {p},
            used |-> IF sh.used >= c THEN sh.used - c ELSE 0,
            evictions |-> sh.evictions + Flag("kExpired" = "kEviction"),
            expired |-> sh.expired + Flag("kExpired" = "kExpired")]
    BY <1>2, <1>3, <1>4 DEF remove_key
  <2>2. remove_key(sh, k, "kExpired")
         = [map |-> sh.map \ {k}, lru |-> Unlink(sh.lru, {k}),
            node |-> [sh.node EXCEPT ![k] = Null], expire_map |-> sh.expire_map \ {p},
            used |-> IF sh.used >= c THEN sh.used - c ELSE 0,
            evictions |-> sh.evictions + Flag("kExpired" = "kEviction"),
            expired |-> sh.expired + Flag("kExpired" = "kExpired")]
    <3>1. n.expire_it # Null
      BY <1>1, NullAssumption DEF Shard
    <3> QED
      BY <1>1, <3>1 DEF remove_key, Erased
  <2> QED
    BY <2>1, <2>2
<1>8. remove_key(sh, k, "kExpired") = remove_keys(sh, {k}, "kExpired")
  BY <1>1, RemoveOne
<1> QED
  BY <1>5, <1>6, <1>7, <1>8 DEF k

(* One due entry gone leaves the rest of them to do. *)
LEMMA SweepOnce ==
  ASSUME NEW sh, Consistent(sh), NEW t \in Int, NEW p \in sh.expire_map, p[1] <= t
  PROVE  LET r == SweepEntry(sh, p)
         IN  /\ Consistent(r)
             /\ remove_expired_keys(r, t) = remove_expired_keys(sh, t)
             /\ Cardinality(r.expire_map) = Cardinality(sh.expire_map) - 1
<1> DEFINE k == p[2]
           r == SweepEntry(sh, p)
<1>1. r = remove_keys(sh, {k}, "kExpired") /\ r.expire_map = sh.expire_map \ {p}
  BY SweepEntryRemoves
<1>2. k \in sh.map /\ IsFiniteSet(sh.expire_map)
  BY IndexEntries
<1> HIDE DEF r
<1>3. Consistent(r)
  BY <1>1, <1>2, RemoveKeysConsistent
<1>4. k \in DueKeys(sh, t)
  BY DEF DueKeys, Due
<1>5. DueKeys(r, t) = DueKeys(sh, t) \ {k}
  <2>1. Due(r, t) = Due(sh, t) \ {p}
    BY <1>1 DEF Due
  <2>2. ASSUME NEW q \in Due(sh, t), q[2] = k PROVE q = p
    <3>1. q \in sh.expire_map
      BY DEF Due
    <3>2. sh.node[q[2]].expire_it = q /\ sh.node[p[2]].expire_it = p
      BY <3>1, IndexEntries
    <3> QED
      BY <2>2, <3>2
  <2> HIDE DEF k
  <2>3. p[2] = k
    BY DEF k
  <2> QED
    BY <2>1, <2>2, <2>3 DEF DueKeys
<1> HIDE DEF k
<1>6. /\ DueKeys(sh, t) \subseteq sh.map
      /\ remove_expired_keys(sh, t) = remove_keys(sh, DueKeys(sh, t), "kExpired")
      /\ remove_expired_keys(r, t) = remove_keys(r, DueKeys(r, t), "kExpired")
  BY <1>3, SweepIsRemoval
<1>7. {k} \cup (DueKeys(sh, t) \ {k}) = DueKeys(sh, t) /\ {k} \subseteq sh.map
  BY <1>2, <1>4
<1>8. remove_keys(r, DueKeys(sh, t) \ {k}, "kExpired")
        = remove_keys(sh, {k} \cup (DueKeys(sh, t) \ {k}), "kExpired")
  BY <1>1, <1>6, <1>7, RemoveTwice
<1>9. remove_expired_keys(r, t) = remove_expired_keys(sh, t)
  BY <1>5, <1>6, <1>7, <1>8
<1>10. Cardinality(r.expire_map) = Cardinality(sh.expire_map) - 1
  BY <1>1, <1>2, FS_RemoveElement
<1> QED
  BY <1>3, <1>9, <1>10 DEF r

(* With nothing due remove_expired_keys does nothing. *)
LEMMA SweepDone ==
  ASSUME NEW sh, Consistent(sh), NEW t \in Int, \A p \in sh.expire_map : ~ (p[1] <= t)
  PROVE  remove_expired_keys(sh, t) = sh
<1>1. DueKeys(sh, t) = {}
  BY DEF DueKeys, Due
<1> QED
  BY <1>1, SweepIsRemoval, RemoveNone

(* The shards the first turns of the expiration loop can leave. *)
Swept(sh, t, turns, g) ==
  g = [n \in 0 .. turns |-> IF n = 0 THEN {sh} ELSE UNION {SweepTurn(s, t) : s \in g[n - 1]}]

(* There are always such shards. *)
LEMMA SweptExists ==
  ASSUME NEW sh, NEW t, NEW turns \in Nat
  PROVE  \E g : Swept(sh, t, turns, g)
<1> DEFINE Next1(S) == UNION {SweepTurn(s, t) : s \in S}
           T == {n \in Nat : \E g : Swept(sh, t, n, g)}
<1>0. ASSUME NEW n, NEW g
      PROVE  Swept(sh, t, n, g) <=> g = [i \in 0 .. n |-> IF i = 0 THEN {sh} ELSE Next1(g[i - 1])]
  BY DEF Swept
<1> HIDE DEF Next1
<1>1. 0 \in T
  <2> DEFINE g == [n \in {0} |-> {sh}]
  <2>1. 0 .. 0 = {0}
    OBVIOUS
  <2>2. g = [n \in {0} |-> IF n = 0 THEN {sh} ELSE Next1(g[n - 1])]
    OBVIOUS
  <2> QED
    BY <1>0, <2>1, <2>2
<1>2. ASSUME NEW m \in Nat, m \in T PROVE m + 1 \in T
  <2>1. PICK g : Swept(sh, t, m, g)
    BY <1>2
  <2> DEFINE h == [n \in 0 .. m + 1 |-> IF n = m + 1 THEN Next1(g[m]) ELSE g[n]]
  <2>2. \A n \in 0 .. m : g[n] = IF n = 0 THEN {sh} ELSE Next1(g[n - 1])
    <3>1. g = [i \in 0 .. m |-> IF i = 0 THEN {sh} ELSE Next1(g[i - 1])]
      BY <1>0, <2>1
    <3> QED
      BY <3>1
  <2>3. \A n \in 0 .. m : h[n] = g[n]
    OBVIOUS
  <2>4. ASSUME NEW n \in 0 .. m + 1
        PROVE  h[n] = IF n = 0 THEN {sh} ELSE Next1(h[n - 1])
    <3>1. CASE n = m + 1
      BY <2>3, <3>1
    <3>2. CASE n \in 1 .. m
      <4>1. n - 1 \in 0 .. m /\ n \in 0 .. m
        BY <3>2
      <4> QED
        BY <2>2, <2>3, <3>2, <4>1
    <3>3. CASE n = 0
      BY <2>2, <2>3, <3>3
    <3> QED
      BY <3>1, <3>2, <3>3
  <2>5. h = [n \in 0 .. m + 1 |-> IF n = 0 THEN {sh} ELSE Next1(h[n - 1])]
    BY <2>4
  <2> HIDE DEF h
  <2>6. Swept(sh, t, m + 1, h)
    BY <2>5 DEF Swept, Next1
  <2>7. m + 1 \in Nat
    OBVIOUS
  <2> QED
    BY <2>6, <2>7
<1> HIDE DEF T
<1>3. turns \in T
  BY <1>1, <1>2, CountUp
<1> QED
  BY <1>3 DEF T

(* The expiration loop, turn by turn and whatever the order of equal       *)
(* deadlines, removes the keys that are due.                               *)
LEMMA SweepLoopExact ==
  ASSUME NEW sh, Consistent(sh), NEW t \in Int
  PROVE  SweepLoop(sh, t) = {remove_expired_keys(sh, t)}
<1> DEFINE N == Cardinality(sh.expire_map)
           P(g) == Swept(sh, t, N, g)
           after == CHOOSE g : P(g)
           Late(s) == \E p \in s.expire_map : p[1] <= t
           Turn(S) == UNION {SweepTurn(s, t) : s \in S}
<1>1. N \in Nat
  BY IndexEntries
<1>2. SweepLoop(sh, t) = after[N]
  BY Zenon DEF SweepLoop, Swept
<1>3. P(after)
  <2>1. \E g : P(g)
    BY <1>1, SweptExists
  <2> HIDE DEF P
  <2> QED
    BY <2>1
<1>4. \A n \in 0 .. N : after[n] = IF n = 0 THEN {sh} ELSE Turn(after[n - 1])
  <2> HIDE DEF after, N
  <2>1. after = [n \in 0 .. N |-> IF n = 0 THEN {sh} ELSE Turn(after[n - 1])]
    BY <1>3 DEF Swept
  <2> HIDE DEF Turn
  <2> QED
    BY <2>1
<1> HIDE DEF after, N
<1> DEFINE Good(s, n) == /\ Consistent(s)
                         /\ remove_expired_keys(s, t) = remove_expired_keys(sh, t)
                         /\ Late(s) => Cardinality(s.expire_map) <= N - n
           T == {n \in Nat : n <= N => after[n] # {} /\ \A s \in after[n] : Good(s, n)}
<1>5. 0 \in T
  <2>1. after[0] = {sh}
    <3> HIDE DEF Turn
    <3> QED
      BY <1>1, <1>4
  <2>2. Good(sh, 0)
    BY <1>1 DEF N
  <2> HIDE DEF Good
  <2> QED
    BY <2>1, <2>2
<1>6. ASSUME NEW s, NEW n \in Nat, n + 1 <= N, Good(s, n)
      PROVE  SweepTurn(s, t) # {} /\ \A r \in SweepTurn(s, t) : Good(r, n + 1)
  <2> DEFINE front == {p \in s.expire_map : \A q \in s.expire_map : p[1] <= q[1]}
  <2>0. \A p \in s.expire_map : p[1] \in Int
    BY <1>6, IndexEntries
  <2>1. CASE \E p \in front : p[1] <= t
    <3>1. SweepTurn(s, t) = {SweepEntry(s, p) : p \in front} /\ front # {}
      BY <2>1 DEF SweepTurn
    <3>2. ASSUME NEW p \in front PROVE Good(SweepEntry(s, p), n + 1)
      <4>1. p \in s.expire_map /\ p[1] <= t
        BY <2>0, <2>1
      <4>2. Late(s) /\ Cardinality(s.expire_map) \in Nat
        BY <1>6, <4>1, IndexEntries
      <4> DEFINE r == SweepEntry(s, p)
      <4>3. /\ Consistent(r)
            /\ remove_expired_keys(r, t) = remove_expired_keys(s, t)
            /\ Cardinality(r.expire_map) = Cardinality(s.expire_map) - 1
        BY <1>6, <4>1, SweepOnce
      <4> HIDE DEF r
      <4>4. Good(r, n + 1)
        BY <1>1, <1>6, <4>2, <4>3
      <4> QED
        BY <4>4 DEF r
    <3> HIDE DEF front, Good
    <3> QED
      BY <3>1, <3>2
  <2>2. CASE ~ \E p \in front : p[1] <= t
    <3>1. SweepTurn(s, t) = {s}
      BY <2>2 DEF SweepTurn
    <3>2. ~ Late(s)
      BY <1>6, <2>2, FrontDue
    <3>3. Good(s, n + 1)
      BY <1>6, <3>2
    <3> QED
      BY <3>1, <3>3
  <2> QED
    BY <2>1, <2>2
<1> HIDE DEF Good
<1>7. ASSUME NEW n \in Nat, n \in T PROVE n + 1 \in T
  <2> SUFFICES ASSUME n + 1 <= N
               PROVE  after[n + 1] # {} /\ \A s \in after[n + 1] : Good(s, n + 1)
    OBVIOUS
  <2>1. n + 1 \in 0 .. N /\ n + 1 # 0 /\ n + 1 - 1 = n /\ n <= N
    BY <1>1
  <2>2. after[n + 1] = Turn(after[n])
    <3> HIDE DEF Turn
    <3> QED
      BY <1>4, <2>1
  <2>3. after[n] # {} /\ \A s \in after[n] : Good(s, n)
    BY <1>7, <2>1
  <2>4. \A s \in after[n] : SweepTurn(s, t) # {} /\ \A r \in SweepTurn(s, t) : Good(r, n + 1)
    BY <1>6, <2>3
  <2> QED
    BY <2>2, <2>3, <2>4
<1>8. N \in T
  <2> HIDE DEF T
  <2> QED
    BY <1>1, <1>5, <1>7, CountUp
<1>9. after[N] # {} /\ \A s \in after[N] : Good(s, N)
  BY <1>1, <1>8
<1>10. ASSUME NEW s \in after[N] PROVE s = remove_expired_keys(sh, t)
  <2>1. Good(s, N)
    BY <1>9
  <2>2. IsFiniteSet(s.expire_map) /\ Cardinality(s.expire_map) \in Nat
    BY <2>1, IndexEntries DEF Good
  <2>3. ~ Late(s)
    <3>1. Cardinality(s.expire_map) = 0 => s.expire_map = {}
      BY <2>2, FS_EmptySet
    <3>2. Late(s) => Cardinality(s.expire_map) <= 0
      BY <1>1, <2>1 DEF Good
    <3> QED
      BY <2>2, <3>1, <3>2
  <2>4. remove_expired_keys(s, t) = s
    BY <2>1, <2>3, SweepDone DEF Good
  <2> QED
    BY <2>1, <2>4 DEF Good
<1> QED
  BY <1>2, <1>9, <1>10

(* The loops as they are written compute what LruShardOps says they do, in *)
(* every state a shard can reach: the eviction loop stops at the budget    *)
(* and takes the back of the list each time, the expiration loop skips no  *)
(* due entry although it erases while iterating.                           *)
THEOREM LoopsExact == Spec => []LoopsAgree
<1>1. IInv => LoopsAgree
  <2> SUFFICES ASSUME IInv PROVE LoopsAgree
    OBVIOUS
  <2>1. Consistent(shard) /\ now \in Int
    BY DEF IInv
  <2>2. ASSUME NEW k \in Key, NEW v \in Value, NEW d \in {Null, now}
        PROVE  EnforceLoop(Store(shard, k, v, d)) = enforce_max_memory(Store(shard, k, v, d))
    <3>1. Consistent(Store(shard, k, v, d))
      BY <2>1, StoreConsistent
    <3> QED
      BY <3>1, EnforceLoopExact
  <2>3. ASSUME NEW t \in now .. Horizon
        PROVE  SweepLoop(shard, t) = {remove_expired_keys(shard, t)}
    <3>1. t \in Int
      BY <2>1
    <3> QED
      BY <2>1, <3>1, SweepLoopExact
  <2> QED
    BY <2>2, <2>3 DEF LoopsAgree
<1> QED
  BY <1>1, Inductive, PTL

-----------------------------------------------------------------------------
(* A shard implements the dictionary of AbstractCache.                     *)
(*                                                                         *)
(* The dictionary of a shard is the values and deadlines of the keys in    *)
(* map_.  For each method a lemma says what it does to that dictionary and *)
(* what it returns; the step of the specification is then the dictionary's *)
(* step.  The lists, the expiry index and the byte count matter through    *)
(* the invariant only: without it a sweep could miss an entry, and the     *)
(* eviction loop could drop entries that fit or keep ones that do not.     *)


Entry(n) == [value |-> n.value, expire_at |-> n.expire_at]

(* The dictionary of shard sh. *)
Image(sh) == [k \in Key |-> IF k \in sh.map THEN Entry(sh.node[k]) ELSE Null]

Clear(c, K) == [k \in Key |-> IF k \in K THEN Null ELSE c[k]]

Alive(sh, k, t) == k \in sh.map /\ ~ is_expired(sh.node[k], t)

-----------------------------------------------------------------------------
(* The dictionary of a shard.                                              *)

(* The keys of the dictionary are the keys held. *)
LEMMA ImageKeys ==
  ASSUME NEW sh, Consistent(sh)
  PROVE  /\ \A k \in Key : Image(sh)[k] # Null <=> k \in sh.map
         /\ \A k \in sh.map : /\ k \in Key
                              /\ Image(sh)[k] = Entry(sh.node[k])
                              /\ Image(sh)[k].value = sh.node[k].value
                              /\ Image(sh)[k].expire_at = sh.node[k].expire_at
                              /\ sh.node[k].expire_at \in Int \cup {Null}
<1>1. \A k \in sh.map : k \in Key /\ sh.node[k] \in Node
  BY HeldNode DEF Consistent
<1>2. \A n \in Node : Entry(n) # Null
  BY EntryAssumption DEF Entry, Node
<1>3. \A n \in Node : /\ Entry(n).value = n.value /\ Entry(n).expire_at = n.expire_at
                      /\ n.expire_at \in Int \cup {Null}
  BY DEF Entry, Node
<1>4. \A k \in sh.map : Image(sh)[k] = Entry(sh.node[k])
  BY <1>1 DEF Image
<1>5. \A k \in Key : k \notin sh.map => Image(sh)[k] = Null
  BY DEF Image
<1>6. \A k \in Key : Image(sh)[k] # Null <=> k \in sh.map
  BY <1>1, <1>2, <1>4, <1>5
<1> QED
  BY <1>1, <1>3, <1>4, <1>6

(* The dictionary fits iff the bytes counted do. *)
LEMMA ImageFits ==
  ASSUME NEW sh, Consistent(sh)
  PROVE  ContentsFit(Image(sh)) <=> sh.used <= MaxMemoryBytes
<1> DEFINE c == Image(sh)
           K == {k \in Key : c[k] # Null}
<1>1. K = sh.map
  BY ImageKeys
<1>2. \A k \in sh.map : c[k].value = sh.node[k].value
  BY ImageKeys
<1> HIDE DEF c
<1>3. Payload(c, sh.map) = Payload(sh.node, sh.map)
  BY <1>2, PayloadSame
<1>4. Payload(c, K) = sh.used
  BY <1>1, <1>3 DEF Consistent, Accounted
<1> QED
  BY <1>4 DEF ContentsFit, c

(* Removing keys clears their entries. *)
LEMMA ImageRemove ==
  ASSUME NEW sh, NEW K, NEW reason
  PROVE  Image(remove_keys(sh, K, reason)) = Clear(Image(sh), K)
<1> DEFINE r == remove_keys(sh, K, reason)
<1>1. /\ r.map = sh.map \ K
      /\ r.node = [k \in Key |-> IF k \in K THEN Null ELSE sh.node[k]]
  BY DEF remove_keys
<1> HIDE DEF r
<1>2. \A k \in Key : (IF k \in r.map THEN Entry(r.node[k]) ELSE Null)
                       = (IF k \in K THEN Null ELSE Image(sh)[k])
  BY <1>1 DEF Image
<1>3. Image(r) = Clear(Image(sh), K)
  BY <1>2 DEF Image, Clear
<1> QED
  BY <1>3 DEF r

(* Clearing entries that are not there changes nothing. *)
LEMMA ClearAbsent ==
  ASSUME NEW sh, Consistent(sh), NEW K, K \cap sh.map = {}
  PROVE  Clear(Image(sh), K) = Image(sh)
<1>1. \A k \in Key : k \in K => Image(sh)[k] = Null
  BY DEF Image
<1>2. Image(sh) = [k \in Key |-> Image(sh)[k]]
  BY DEF Image
<1> QED
  BY <1>1, <1>2 DEF Clear

-----------------------------------------------------------------------------
(* The methods.                                                            *)

(* get returns the value of a live entry and drops one past its deadline. *)
LEMMA GetImage ==
  ASSUME NEW sh, Consistent(sh), NEW k \in Key, NEW t \in Int
  PROVE  /\ Alive(sh, k, t) => /\ get(sh, k, t).ret = Image(sh)[k].value
                               /\ Image(get(sh, k, t).shard) = Image(sh)
         /\ ~ Alive(sh, k, t) => /\ get(sh, k, t).ret = Null
                                 /\ Image(get(sh, k, t).shard) = Clear(Image(sh), {k})
<1>1. CASE Alive(sh, k, t)
  <2> DEFINE r == [sh EXCEPT !.lru = MoveToFront(@, k)]
  <2>1. get(sh, k, t).shard = r /\ get(sh, k, t).ret = sh.node[k].value
    BY <1>1 DEF get, Alive
  <2>2. r.map = sh.map /\ r.node = sh.node
    BY DEF Consistent, Shard
  <2> HIDE DEF r
  <2>3. Image(r) = Image(sh)
    BY <2>2 DEF Image
  <2> QED
    BY <1>1, <2>1, <2>3, ImageKeys DEF Alive
<1>2. CASE k \notin sh.map
  <2>1. get(sh, k, t).shard = sh /\ get(sh, k, t).ret = Null
    BY <1>2 DEF get
  <2>2. Clear(Image(sh), {k}) = Image(sh)
    BY <1>2, ClearAbsent
  <2> QED
    BY <1>2, <2>1, <2>2 DEF Alive
<1>3. CASE k \in sh.map /\ is_expired(sh.node[k], t)
  <2>1. /\ get(sh, k, t).shard = remove_keys(sh, {k}, "kExpired")
        /\ get(sh, k, t).ret = Null
    BY <1>3 DEF get
  <2> QED
    BY <1>3, <2>1, ImageRemove DEF Alive
<1> QED
  BY <1>1, <1>2, <1>3 DEF Alive

(* ttl drops an entry past its deadline and otherwise reports what is left.*)
LEMMA TtlImage ==
  ASSUME NEW sh, Consistent(sh), NEW k \in Key, NEW t \in Int, NEW u \in Int
  PROVE  /\ Alive(sh, k, t) =>
              /\ Image(ttl(sh, k, t, u).shard) = Image(sh)
              /\ Image(sh)[k].expire_at = Null => ttl(sh, k, t, u).ret = -1
              /\ Image(sh)[k].expire_at # Null =>
                   ttl(sh, k, t, u).ret =
                     LET left == (Image(sh)[k].expire_at - u) \div TicksPerSecond
                     IN  IF left > 0 THEN left ELSE 0
         /\ ~ Alive(sh, k, t) => /\ ttl(sh, k, t, u).ret = -2
                                 /\ Image(ttl(sh, k, t, u).shard) = Clear(Image(sh), {k})
<1>1. CASE Alive(sh, k, t)
  <2>1. ttl(sh, k, t, u).shard = sh
    BY <1>1 DEF ttl, Alive
  <2>2. Image(sh)[k].expire_at = sh.node[k].expire_at
    BY <1>1, ImageKeys DEF Alive
  <2>3. sh.node[k].expire_at = Null => ttl(sh, k, t, u).ret = -1
    BY <1>1 DEF ttl, Alive
  <2>4. sh.node[k].expire_at # Null =>
          ttl(sh, k, t, u).ret =
            LET left == (sh.node[k].expire_at - u) \div TicksPerSecond
            IN  IF left > 0 THEN left ELSE 0
    BY <1>1 DEF ttl, Alive
  <2> QED
    BY <1>1, <2>1, <2>2, <2>3, <2>4
<1>2. CASE k \notin sh.map
  <2>1. ttl(sh, k, t, u).shard = sh /\ ttl(sh, k, t, u).ret = -2
    BY <1>2 DEF ttl
  <2>2. Clear(Image(sh), {k}) = Image(sh)
    BY <1>2, ClearAbsent
  <2> QED
    BY <1>2, <2>1, <2>2 DEF Alive
<1>3. CASE k \in sh.map /\ is_expired(sh.node[k], t)
  <2>1. /\ ttl(sh, k, t, u).shard = remove_keys(sh, {k}, "kExpired")
        /\ ttl(sh, k, t, u).ret = -2
    BY <1>3 DEF ttl
  <2> QED
    BY <1>3, <2>1, ImageRemove DEF Alive
<1> QED
  BY <1>1, <1>2, <1>3 DEF Alive

(* del clears the entry. *)
LEMMA DelImage ==
  ASSUME NEW sh, Consistent(sh), NEW k \in Key
  PROVE  /\ Image(del(sh, k).shard) = Clear(Image(sh), {k})
         /\ del(sh, k).ret = (k \in sh.map)
<1>1. /\ del(sh, k).shard = remove_keys(sh, {k} \cap sh.map, "kDelete")
      /\ del(sh, k).ret = (k \in sh.map)
  BY DEF del
<1>2. Image(del(sh, k).shard) = Clear(Image(sh), {k} \cap sh.map)
  BY <1>1, ImageRemove
<1>3. CASE k \in sh.map
  <2>1. {k} \cap sh.map = {k}
    BY <1>3
  <2> QED
    BY <1>1, <1>2, <2>1
<1>4. CASE k \notin sh.map
  <2>1. Clear(Image(sh), {k}) = Image(sh) /\ Clear(Image(sh), {k} \cap sh.map) = Image(sh)
    BY <1>4, ClearAbsent
  <2> QED
    BY <1>1, <1>2, <2>1
<1> QED
  BY <1>3, <1>4

(* remove_expired_keys clears exactly the entries that are not live. *)
LEMMA SweepImage ==
  ASSUME NEW sh, Consistent(sh), NEW t \in Int
  PROVE  Image(remove_expired_keys(sh, t))
           = Clear(Image(sh), {k \in Key : ~ Alive(sh, k, t)})
<1> DEFINE D == DueKeys(sh, t)
           N == {k \in Key : ~ Alive(sh, k, t)}
<1>1. D \subseteq sh.map /\ Image(remove_expired_keys(sh, t)) = Clear(Image(sh), D)
  BY SweepIsRemoval, ImageRemove
<1>2. \A k \in sh.map : k \in D <=> is_expired(sh.node[k], t)
  BY DueExpired
<1>3. \A k \in Key : (IF k \in D THEN Null ELSE Image(sh)[k])
                       = (IF k \in N THEN Null ELSE Image(sh)[k])
  <2> SUFFICES ASSUME NEW k \in Key
               PROVE  (IF k \in D THEN Null ELSE Image(sh)[k])
                        = (IF k \in N THEN Null ELSE Image(sh)[k])
    OBVIOUS
  <2>1. CASE k \in sh.map
    <3>1. k \in D <=> k \in N
      BY <1>2, <2>1 DEF Alive
    <3> QED
      BY <3>1
  <2>2. CASE k \notin sh.map
    <3>1. Image(sh)[k] = Null
      BY <2>2 DEF Image
    <3> QED
      BY <3>1
  <2> QED
    BY <2>1, <2>2
<1>4. Clear(Image(sh), D) = Clear(Image(sh), N)
  BY <1>3 DEF Clear
<1> QED
  BY <1>1, <1>4

(* expire replaces the deadline of an entry, live or not, and nothing else.*)
LEMMA ExpireImage ==
  ASSUME NEW sh, Consistent(sh), NEW k \in Key, NEW d \in Int
  PROVE  /\ k \in sh.map => Image(expire(sh, k, d).shard)
                              = [Image(sh) EXCEPT ![k].expire_at = d]
         /\ k \notin sh.map => Image(expire(sh, k, d).shard) = Image(sh)
         /\ expire(sh, k, d).ret = IF k \in sh.map THEN TRUE ELSE FALSE
<1>1. CASE k \notin sh.map
  <2>1. expire(sh, k, d).shard = sh /\ expire(sh, k, d).ret = FALSE
    BY <1>1 DEF expire
  <2> QED
    BY <1>1, <2>1
<1>2. CASE k \in sh.map
  <2> DEFINE new == [value |-> sh.node[k].value, expire_at |-> d,
                     expire_it |-> Iterator(k, d)]
             nodes == [sh.node EXCEPT ![k] = new]
             sched == Reschedule(sh, k, d)
             r == [sh EXCEPT !.node = nodes, !.expire_map = sched]
  <2>1. expire(sh, k, d).shard = r /\ expire(sh, k, d).ret = TRUE
    BY <1>2 DEF expire
  <2>2. /\ sh.node[k] \in Node /\ sh.node \in [Key -> Node \cup {Null}]
        /\ Image(sh)[k] = Entry(sh.node[k])
    BY <1>2, HeldNode, ImageKeys DEF Consistent, Shard
  <2>3. Entry(new) = [value |-> sh.node[k].value, expire_at |-> d]
    BY DEF Entry
  <2> HIDE DEF new
  <2>4. nodes[k] = new /\ \A j \in Key \ {k} : nodes[j] = sh.node[j]
    BY <2>2
  <2> HIDE DEF nodes, sched
  <2>5. r.map = sh.map /\ r.node = nodes
    BY DEF Consistent, Shard
  <2> HIDE DEF r
  <2>6. [Image(sh)[k] EXCEPT !.expire_at = d]
          = [value |-> sh.node[k].value, expire_at |-> d]
    BY <2>2 DEF Entry
  <2>7. Image(r)[k] = [Image(sh)[k] EXCEPT !.expire_at = d]
    BY <1>2, <2>3, <2>4, <2>5, <2>6 DEF Image
  <2>8. \A j \in Key \ {k} : Image(r)[j] = Image(sh)[j]
    BY <2>4, <2>5 DEF Image
  <2>9. /\ Image(r) = [j \in Key |-> Image(r)[j]]
        /\ Image(sh) = [j \in Key |-> Image(sh)[j]]
    BY DEF Image
  <2>10. Image(r) = [Image(sh) EXCEPT ![k] = [Image(sh)[k] EXCEPT !.expire_at = d]]
    BY <2>7, <2>8, <2>9
  <2> QED
    BY <1>2, <2>1, <2>10
<1> QED
  BY <1>1, <1>2

(* The first half of set writes the entry. *)
Written(sh, k, v, d) == [Image(sh) EXCEPT ![k] = [value |-> v, expire_at |-> d]]

(* In the dictionary, the first half of set is that write and nothing      *)
(* else.                                                                   *)
LEMMA StoreImage ==
  ASSUME NEW sh, Consistent(sh), NEW k \in Key, NEW v \in Value,
         NEW d \in Int \cup {Null}
  PROVE  Image(Store(sh, k, v, d)) = Written(sh, k, v, d)
<1> DEFINE new == [value |-> v, expire_at |-> d, expire_it |-> Iterator(k, d)]
           r == Store(sh, k, v, d)
<1>1. r.map = sh.map \cup {k} /\ r.node = [sh.node EXCEPT ![k] = new]
  BY DEF Store
<1>2. Entry(new) = [value |-> v, expire_at |-> d]
  BY DEF Entry
<1> HIDE DEF new, r
<1>3. r.node[k] = new /\ \A j \in Key \ {k} : r.node[j] = sh.node[j]
  <2>1. sh.node \in [Key -> Node \cup {Null}]
    BY DEF Consistent, Shard
  <2> QED
    BY <1>1, <2>1
<1>4. Image(r)[k] = [value |-> v, expire_at |-> d]
  BY <1>1, <1>2, <1>3 DEF Image
<1>5. \A j \in Key \ {k} : Image(r)[j] = Image(sh)[j]
  BY <1>1, <1>3 DEF Image
<1>6. /\ Image(r) = [j \in Key |-> Image(r)[j]]
      /\ Image(sh) = [j \in Key |-> Image(sh)[j]]
  BY DEF Image
<1>7. Image(r) = [Image(sh) EXCEPT ![k] = [value |-> v, expire_at |-> d]]
  BY <1>4, <1>5, <1>6
<1> QED
  BY <1>7 DEF r, Written

(* set drops entries only if they do not fit, and leaves entries that do. *)
LEMMA SetImage ==
  ASSUME NEW sh, Consistent(sh), NEW k \in Key, NEW v \in Value,
         NEW d \in Int \cup {Null}
  PROVE  /\ ContentsFit(Written(sh, k, v, d)) =>
              Image(set(sh, k, v, d)) = Written(sh, k, v, d)
         /\ \E K \in SUBSET Key :
              Image(set(sh, k, v, d)) = Clear(Written(sh, k, v, d), K)
         /\ ContentsFit(Image(set(sh, k, v, d)))
<1> DEFINE s == Store(sh, k, v, d)
           E == Evicted(s)
           w == Written(sh, k, v, d)
<1>1. Consistent(s) /\ Image(s) = w
  BY StoreConsistent, StoreImage
<1>2. Consistent(set(sh, k, v, d)) /\ set(sh, k, v, d).used <= MaxMemoryBytes
  BY SetConsistent
<1>3. Image(set(sh, k, v, d)) = Clear(w, E)
  BY <1>1, ImageRemove DEF set, enforce_max_memory
<1> HIDE DEF s, w
<1>4. E \subseteq s.map /\ s.map \subseteq Key /\ Listed(s.lru) = s.map
  BY <1>1 DEF Evicted, Consistent, Indexed, Shard
<1>5. ASSUME ContentsFit(w) PROVE E = {}
  <2>1. s.used <= MaxMemoryBytes /\ s.used \in Nat
    BY <1>1, <1>5, ImageFits DEF Consistent, Shard
  <2>2. ASSUME NEW j \in E PROVE FALSE
    <3> DEFINE P == Payload(s.node, Behind(s.lru, j))
    <3>1. Behind(s.lru, j) \subseteq s.map
      BY <1>4 DEF Behind
    <3>2. P \in Nat
      BY <1>1, <3>1, HeldPayload
    <3>3. Minus(s.used, P) > MaxMemoryBytes
      BY <2>2 DEF Evicted
    <3> HIDE DEF P
    <3> QED
      BY <2>1, <3>2, <3>3, SizeAssumption DEF Minus
  <2> QED
    BY <2>2
<1>6. ASSUME ContentsFit(w) PROVE Image(set(sh, k, v, d)) = w
  BY <1>1, <1>3, <1>5, <1>6, ClearAbsent
<1>7. ContentsFit(Image(set(sh, k, v, d)))
  BY <1>2, ImageFits
<1> QED
  BY <1>3, <1>4, <1>6, <1>7 DEF w

-----------------------------------------------------------------------------
(* The steps.                                                              *)

avars == <<Contents, now, reply>>

(* Contents is the dictionary of the shard. *)
LEMMA ContentsImage == Contents = Image(shard)
BY DEF Contents, Image, Entry

(* Liveness of an entry is what the shard's test computes. *)
LEMMA LiveAlive ==
  ASSUME IInv, NEW k \in Key
  PROVE  /\ Abstract!Present(k) <=> k \in shard.map
         /\ Abstract!Live(k) <=> Alive(shard, k, now)
<1>1. Consistent(shard) /\ now \in Int
  BY HorizonAssumption DEF IInv
<1>2. Abstract!Present(k) <=> k \in shard.map
  BY <1>1, ImageKeys, ContentsImage DEF Abstract!Present
<1>3. ASSUME k \in shard.map
      PROVE  (Contents[k].expire_at = Null \/ now < Contents[k].expire_at)
               <=> ~ is_expired(shard.node[k], now)
  <2>1. /\ Contents[k].expire_at = shard.node[k].expire_at
        /\ shard.node[k].expire_at \in Int \cup {Null}
    BY <1>1, <1>3, ImageKeys, ContentsImage
  <2> DEFINE e == shard.node[k].expire_at
  <2> HIDE DEF e
  <2>2. CASE e = Null
    BY <2>1, <2>2 DEF is_expired, e
  <2>3. CASE e # Null
    <3>1. e \in Int
      BY <2>1, <2>3 DEF e
    <3>2. now < e <=> ~ (now >= e)
      BY <1>1, <3>1
    <3> QED
      BY <2>1, <2>3, <3>2 DEF is_expired, e
  <2> QED
    BY <2>2, <2>3
<1> QED
  BY <1>2, <1>3 DEF Abstract!Live, Alive

(* Every step of a shard is a step of the dictionary. *)
LEMMA RefinementStep == IInv /\ [Next]_vars => [Abstract!Next]_avars
<1> SUFFICES ASSUME IInv, [Next]_vars PROVE [Abstract!Next]_avars
  OBVIOUS
<1>1. /\ Consistent(shard) /\ now \in 0 .. Horizon /\ now \in Int /\ Horizon \in Nat
      /\ Contents = Image(shard) /\ Contents' = Image(shard')
  BY HorizonAssumption, ContentsImage DEF IInv, Contents, Image, Entry
<1>2. ASSUME NEW k \in Key, Get(k) PROVE Abstract!Get(k)
  <2> DEFINE r == get(shard, k, now)
  <2>1. /\ shard' = r.shard /\ now' = now
        /\ reply' = [op |-> "get", key |-> k, arg |-> Null, ret |-> r.ret, at |-> now]
    BY <1>2 DEF Get, Return
  <2>2. /\ Alive(shard, k, now) => r.ret = Contents[k].value /\ Contents' = Contents
        /\ ~ Alive(shard, k, now) => r.ret = Null /\ Contents' = Clear(Contents, {k})
    BY <1>1, <2>1, GetImage
  <2> HIDE DEF r
  <2> QED
    BY <2>1, <2>2, LiveAlive
       DEF Abstract!Get, Abstract!Answer, Abstract!LookedAt, Abstract!Without, Clear
<1>3. ASSUME NEW k \in Key, NEW v \in Value, NEW s \in Seconds \cup {Null}, Set(k, v, s)
      PROVE  Abstract!Set(k, v, s)
  <2> DEFINE d == IF s = Null THEN Null ELSE Deadline(now, s)
             w == [Contents EXCEPT ![k] = [value |-> v, expire_at |-> d]]
  <2>1. d \in Int \cup {Null}
    BY <1>1, DeadlineType, SecondsAssumption
  <2>2. /\ shard' = set(shard, k, v, d) /\ now' = now
        /\ reply' = [op |-> "set", key |-> k, arg |-> s, ret |-> Null, at |-> now]
    BY <1>3 DEF Set, Return
  <2>3. /\ ContentsFit(w) => Contents' = w
        /\ \E K \in SUBSET Key : Contents' = Clear(w, K)
        /\ ContentsFit(Contents')
    <3> HIDE DEF d
    <3>1. w = Written(shard, k, v, d)
      BY <1>1 DEF Written
    <3> HIDE DEF w
    <3>2. /\ ContentsFit(w) => Image(set(shard, k, v, d)) = w
          /\ \E K \in SUBSET Key : Image(set(shard, k, v, d)) = Clear(w, K)
          /\ ContentsFit(Image(set(shard, k, v, d)))
      BY <1>1, <2>1, <3>1, SetImage
    <3>3. Contents' = Image(set(shard, k, v, d))
      BY <1>1, <2>2
    <3> QED
      BY <3>2, <3>3
  <2> QED
    BY <2>2, <2>3 DEF Abstract!Set, Abstract!Answer, Abstract!Without, Clear
<1>4. ASSUME NEW k \in Key, NEW s \in Seconds, Expire(k, s) PROVE Abstract!Expire(k, s)
  <2> DEFINE d == Deadline(now, s)
             r == expire(shard, k, d)
  <2>1. d \in Int
    BY <1>1, DeadlineType, SecondsAssumption
  <2>2. /\ shard' = r.shard /\ now' = now
        /\ reply' = [op |-> "expire", key |-> k, arg |-> s, ret |-> Flag(r.ret), at |-> now]
    BY <1>4 DEF Expire, Return
  <2> HIDE DEF d
  <2>3. /\ k \in shard.map => Contents' = [Contents EXCEPT ![k].expire_at = d]
        /\ k \notin shard.map => Contents' = Contents
        /\ r.ret = IF k \in shard.map THEN TRUE ELSE FALSE
    BY <1>1, <2>1, <2>2, ExpireImage
  <2>4. Flag(r.ret) = IF k \in shard.map THEN 1 ELSE 0
    BY <2>3 DEF Flag
  <2> HIDE DEF r
  <2> QED
    BY <2>2, <2>3, <2>4, LiveAlive DEF Abstract!Expire, Abstract!Answer, d
<1>5. ASSUME NEW k \in Key, Ttl(k) PROVE Abstract!Ttl(k)
  <2>1. PICK u \in now .. Horizon :
          /\ Return(ttl(shard, k, now, u).shard, "ttl", k, Null, ttl(shard, k, now, u).ret)
          /\ now' = u
    BY <1>5 DEF Ttl
  <2> DEFINE r == ttl(shard, k, now, u)
  <2>2. u \in Int
    BY <1>1
  <2>3. /\ shard' = r.shard
        /\ reply' = [op |-> "ttl", key |-> k, arg |-> Null, ret |-> r.ret, at |-> now]
    BY <2>1 DEF Return
  <2>4. /\ Alive(shard, k, now) =>
             /\ Contents' = Contents
             /\ Contents[k].expire_at = Null => r.ret = -1
             /\ Contents[k].expire_at # Null => r.ret = Abstract!Remaining(k, u)
        /\ ~ Alive(shard, k, now) => r.ret = -2 /\ Contents' = Clear(Contents, {k})
    <3> DEFINE c == Image(shard)
               left == (c[k].expire_at - u) \div TicksPerSecond
    <3>1. /\ Alive(shard, k, now) =>
               /\ Image(r.shard) = c
               /\ c[k].expire_at = Null => r.ret = -1
               /\ c[k].expire_at # Null => r.ret = IF left > 0 THEN left ELSE 0
          /\ ~ Alive(shard, k, now) => r.ret = -2 /\ Image(r.shard) = Clear(c, {k})
      BY <1>1, <2>2, TtlImage
    <3>2. Contents = c /\ Contents' = Image(r.shard)
      BY <1>1, <2>3
    <3>3. Abstract!Remaining(k, u) = IF left > 0 THEN left ELSE 0
      BY <3>2 DEF Abstract!Remaining
    <3> HIDE DEF r, c, left
    <3> QED
      BY <3>1, <3>2, <3>3
  <2> HIDE DEF r
  <2>5. Contents' = Abstract!LookedAt(k)
    BY <2>4, LiveAlive DEF Abstract!LookedAt, Abstract!Without, Clear
  <2>6. r.ret = IF ~ Abstract!Live(k) THEN -2
                ELSE IF Contents[k].expire_at = Null THEN -1
                ELSE Abstract!Remaining(k, u)
    BY <2>4, LiveAlive
  <2> QED
    BY <2>1, <2>3, <2>5, <2>6 DEF Abstract!Ttl, Abstract!Answer
<1>6. ASSUME NEW k \in Key, Del(k) PROVE Abstract!Del(k)
  <2> DEFINE r == del(shard, k)
  <2>1. /\ shard' = r.shard /\ now' = now
        /\ reply' = [op |-> "del", key |-> k, arg |-> Null, ret |-> Flag(r.ret), at |-> now]
    BY <1>6 DEF Del, Return
  <2>2. Contents' = Clear(Contents, {k}) /\ r.ret = (k \in shard.map)
    BY <1>1, <2>1, DelImage
  <2>3. Flag(r.ret) = IF k \in shard.map THEN 1 ELSE 0
    BY <2>2 DEF Flag
  <2> HIDE DEF r
  <2> QED
    BY <2>1, <2>2, <2>3, LiveAlive DEF Abstract!Del, Abstract!Answer, Abstract!Without, Clear
<1>7. CASE RemoveExpiredKeys
  <2>1. /\ shard' = remove_expired_keys(shard, now) /\ now' = now
        /\ reply' = [op |-> "remove_expired_keys", key |-> Null, arg |-> Null,
                     ret |-> Null, at |-> now]
    BY <1>7 DEF RemoveExpiredKeys, Return
  <2>2. Contents' = Clear(Contents, {k \in Key : ~ Alive(shard, k, now)})
    BY <1>1, <2>1, SweepImage
  <2>3. {k \in Key : ~ Alive(shard, k, now)} = {k \in Key : ~ Abstract!Live(k)}
    BY LiveAlive
  <2>4. Abstract!Sweep
    BY <2>1, <2>2, <2>3 DEF Abstract!Sweep, Abstract!Answer, Abstract!Without, Clear
  <2> QED
    BY <2>4 DEF Abstract!Next
<1>8. CASE Tick
  <2>1. shard' = shard /\ reply' = reply /\ now' = now + 1 /\ now < Horizon
    BY <1>8 DEF Tick
  <2>2. Abstract!Tick
    BY <1>1, <2>1 DEF Abstract!Tick
  <2> QED
    BY <2>2 DEF Abstract!Next
<1>9. CASE UNCHANGED vars
  BY <1>1, <1>9 DEF vars, avars
<1> QED
  BY <1>2, <1>3, <1>4, <1>5, <1>6, <1>7, <1>8, <1>9 DEF Next, Abstract!Next

(* A shard implements the dictionary: every result get, set, expire, ttl   *)
(* and del return, and every key they keep or drop, is one AbstractCache   *)
(* allows, whatever the keys, the sizes, the budget and the deadlines.     *)
THEOREM ShardImplementsCache == Spec => ImplementsCache
<1>1. Init => Abstract!Init
  BY DEF Init, Abstract!Init, Contents, EmptyShard
<1> QED
  BY <1>1, RefinementStep, Inductive, PTL
     DEF Spec, ImplementsCache, Abstract!Spec, Abstract!vars, avars
=============================================================================
