---------------------------- MODULE LruShardOps ----------------------------
(***************************************************************************)
(* The methods of class LruShard (include/lruShard.hpp, src/lruShard.cpp)  *)
(* as functions of the shard's fields.                                     *)
(*                                                                         *)
(* A shard is a record with the class's data members:                      *)
(*                                                                         *)
(*   map         map_: the keys it holds an iterator for.                  *)
(*   lru         lru_list_, as the linear order of its elements:           *)
(*               <<a, b>> is in lru iff a and b are in the list and a is b *)
(*               or nearer to the front than b.                            *)
(*   node        the list nodes.  Keys in the list are distinct, so a node *)
(*               is named by its key; Null is a key without a node.        *)
(*   expire_map  expire_map_: pairs <<deadline, node>>.                    *)
(*   used        used_payload_bytes_                                       *)
(*   evictions, expired   the two statistics counters.                     *)
(*                                                                         *)
(* A node has its value, expire_at (Null is std::nullopt) and expire_it,   *)
(* the iterator into expire_map_, which is the pair it points to or Null   *)
(* for expire_map_.end().                                                  *)
(*                                                                         *)
(* The two loops (enforce_max_memory, remove_expired_keys) are given by    *)
(* the set of keys they remove.  Module LruShardLoops has them iteration   *)
(* by iteration, and a run compares the two.                               *)
(***************************************************************************)
EXTENDS Integers, FiniteSets

CONSTANTS
  Key, Value,        \* keys and values (strings)
  KeySize,           \* KeySize[k] is k.size()
  ValueSize,         \* ValueSize[v] is v.size()
  MaxMemoryBytes,    \* max_memory_bytes_
  TicksPerSecond,    \* steady_clock periods in a second
  TimeHalf,          \* time points are signed numbers in -TimeHalf .. TimeHalf-1
  Null               \* std::nullopt, end() and "no node"

Pair == Int \X Key

Node == [value     : Value,
         expire_at : Int \cup {Null},
         expire_it : Pair \cup {Null}]

ASSUME SizeAssumption ==
  /\ KeySize \in [Key -> Nat]
  /\ ValueSize \in [Value -> Nat]
  /\ MaxMemoryBytes \in Nat

ASSUME TimeAssumption ==
  /\ TicksPerSecond \in Nat \ {0}
  /\ TimeHalf \in Nat \ {0}

ASSUME NullAssumption ==
  /\ Null \notin Value
  /\ Null \notin Int
  /\ Null \notin Pair
  /\ Null \notin Node

Shard == [map        : SUBSET Key,
          lru        : SUBSET (Key \X Key),
          node       : [Key -> Node \cup {Null}],
          expire_map : SUBSET Pair,
          used       : Nat,
          evictions  : Nat,
          expired    : Nat]

EmptyShard == [map |-> {}, lru |-> {}, node |-> [k \in Key |-> Null],
               expire_map |-> {}, used |-> 0, evictions |-> 0, expired |-> 0]

-----------------------------------------------------------------------------
(* Time.                                                                   *)

(* steady_clock::now() + seconds(s): the product and the sum are computed  *)
(* in the 64-bit signed count of the clock and wrap around.                *)
Deadline(t, s) ==
  ((t + s * TicksPerSecond + TimeHalf) % (2 * TimeHalf)) - TimeHalf

is_expired_Late(n, t) == n.expire_at # Null /\ t > n.expire_at    \* fault

is_expired(n, t) == n.expire_at # Null /\ t >= n.expire_at

-----------------------------------------------------------------------------
(* std::list.                                                              *)

Listed(lru) == {p[1] : p \in {q \in lru : q[1] = q[2]}}

Unlink(lru, K) == {p \in lru : p[1] \notin K /\ p[2] \notin K}

PushFront(lru, k) == lru \cup {<<k, j>> : j \in Listed(lru) \cup {k}}

(* splice(begin(), ...) of a listed node. *)
MoveToFront(lru, k) == PushFront(Unlink(lru, {k}), k)

(* The keys strictly behind k, nearer to the back. *)
Behind(lru, k) == {j \in Listed(lru) : j # k /\ <<k, j>> \in lru}

-----------------------------------------------------------------------------
(* Memory.                                                                 *)

payload_bytes(k, v) == KeySize[k] + ValueSize[v]

(* The bytes of the payloads of the nodes of K, as a set of positions: its *)
(* cardinality is the sum of payload_bytes over K.                         *)
Bytes(node, K) ==
  UNION {{k} \X (1 .. payload_bytes(k, node[k].value)) : k \in K}

Payload(node, K) == Cardinality(Bytes(node, K))

(* size_t subtraction that stops at zero. *)
Minus(a, b) == IF a >= b THEN a - b ELSE 0

(* Faults: the subtraction counts one byte too many and is not clamped;    *)
(* the list node stays.                                                    *)
remove_keys_Terminator(sh, K, reason) ==
  [map        |-> sh.map \ K,
   lru        |-> Unlink(sh.lru, K),
   node       |-> [k \in Key |-> IF k \in K THEN Null ELSE sh.node[k]],
   expire_map |-> sh.expire_map \ {sh.node[k].expire_it : k \in K},
   used       |-> sh.used - Payload(sh.node, K) - Cardinality(K),
   evictions  |-> IF reason = "kEviction" THEN sh.evictions + Cardinality(K)
                                          ELSE sh.evictions,
   expired    |-> IF reason = "kExpired" THEN sh.expired + Cardinality(K)
                                         ELSE sh.expired]

remove_keys_KeepsListNode(sh, K, reason) ==
  [remove_keys_Terminator(sh, K, reason) EXCEPT
     !.lru = sh.lru, !.used = Minus(sh.used, Payload(sh.node, K))]

(* remove_key on every node of K, for the given RemovalReason. *)
remove_keys(sh, K, reason) ==
  [map        |-> sh.map \ K,
   lru        |-> Unlink(sh.lru, K),
   node       |-> [k \in Key |-> IF k \in K THEN Null ELSE sh.node[k]],
   expire_map |-> sh.expire_map \ {sh.node[k].expire_it : k \in K},
   used       |-> Minus(sh.used, Payload(sh.node, K)),
   evictions  |-> IF reason = "kEviction" THEN sh.evictions + Cardinality(K)
                                          ELSE sh.evictions,
   expired    |-> IF reason = "kExpired" THEN sh.expired + Cardinality(K)
                                         ELSE sh.expired]

(* Fault: victims are taken from the front of the list. *)
Evicted_FromFront(sh) ==
  {k \in Listed(sh.lru) :
     LET inFront == {j \in Listed(sh.lru) : j # k /\ <<j, k>> \in sh.lru}
     IN  Minus(sh.used, Payload(sh.node, inFront)) > MaxMemoryBytes}

(* The nodes the eviction loop reaches: k is evicted iff, once everything  *)
(* behind it has been, the shard is still over its budget.                 *)
Evicted(sh) ==
  {k \in Listed(sh.lru) :
     Minus(sh.used, Payload(sh.node, Behind(sh.lru, k))) > MaxMemoryBytes}

(* Faults: one eviction at most; evictions counted as deletions. *)
enforce_max_memory_Once(sh) ==
  remove_keys(sh, {k \in Evicted(sh) : Behind(sh.lru, k) = {}}, "kEviction")

enforce_max_memory_Uncounted(sh) == remove_keys(sh, Evicted(sh), "kDelete")

enforce_max_memory(sh) == remove_keys(sh, Evicted(sh), "kEviction")

-----------------------------------------------------------------------------
(* The public methods.  Those with a result return [shard, ret].           *)

(* Fault: reading does not move the node. *)
get_NoTouch(sh, k, t) ==
  IF k \notin sh.map THEN [shard |-> sh, ret |-> Null]
  ELSE IF is_expired(sh.node[k], t)
       THEN [shard |-> remove_keys(sh, {k}, "kExpired"), ret |-> Null]
       ELSE [shard |-> sh, ret |-> sh.node[k].value]

get(sh, k, t) ==
  IF k \notin sh.map THEN [shard |-> sh, ret |-> Null]
  ELSE IF is_expired(sh.node[k], t)
       THEN [shard |-> remove_keys(sh, {k}, "kExpired"), ret |-> Null]
       ELSE [shard |-> [sh EXCEPT !.lru = MoveToFront(@, k)],
             ret   |-> sh.node[k].value]

(* Fault: the old entry is not erased. *)
Reschedule_KeepsOld(sh, k, d) ==
  sh.expire_map \cup (IF d = Null THEN {} ELSE {<<d, k>>})

(* The node of k gets deadline d: its old expire_map_ entry is erased and, *)
(* unless d is Null, a new one inserted.                                   *)
Reschedule(sh, k, d) ==
  (IF sh.node[k] = Null THEN sh.expire_map
                        ELSE sh.expire_map \ {sh.node[k].expire_it})
    \cup (IF d = Null THEN {} ELSE {<<d, k>>})

Iterator(k, d) == IF d = Null THEN Null ELSE <<d, k>>

(* Fault: an overwrite is counted as an insertion. *)
UsedAfter_AddsWhole(sh, k, v) == sh.used + payload_bytes(k, v)

(* used_payload_bytes_ after the value of k, if it has one, becomes v. *)
UsedAfter(sh, k, v) ==
  IF k \notin sh.map THEN sh.used + payload_bytes(k, v)
  ELSE LET old == payload_bytes(k, sh.node[k].value)
           new == payload_bytes(k, v)
       IN  IF new >= old THEN sh.used + (new - old)
                         ELSE Minus(sh.used, old - new)

(* set, before its call of enforce_max_memory. *)
Store(sh, k, v, d) ==
  [map        |-> sh.map \cup {k},
   lru        |-> MoveToFront(sh.lru, k),
   node       |-> [sh.node EXCEPT ![k] = [value |-> v, expire_at |-> d,
                                          expire_it |-> Iterator(k, d)]],
   expire_map |-> Reschedule(sh, k, d),
   used       |-> UsedAfter(sh, k, v),
   evictions  |-> sh.evictions,
   expired    |-> sh.expired]

set(sh, k, v, d) == enforce_max_memory(Store(sh, k, v, d))

del(sh, k) ==
  [shard |-> remove_keys(sh, {k} \cap sh.map, "kDelete"),
   ret   |-> k \in sh.map]

expire(sh, k, d) ==
  IF k \notin sh.map THEN [shard |-> sh, ret |-> FALSE]
  ELSE [shard |-> [sh EXCEPT
                     !.node = [sh.node EXCEPT ![k] =
                                 [value     |-> sh.node[k].value,
                                  expire_at |-> d,
                                  expire_it |-> Iterator(k, d)]],
                     !.expire_map = Reschedule(sh, k, d)],
        ret   |-> TRUE]

(* Fault: the remaining time is rounded up. *)
ttl_RoundsUp(sh, k, t, u) ==
  IF k \notin sh.map \/ is_expired(sh.node[k], t) THEN [shard |-> sh, ret |-> -2]
  ELSE IF sh.node[k].expire_at = Null THEN [shard |-> sh, ret |-> -1]
  ELSE [shard |-> sh,
        ret   |-> 1 + (sh.node[k].expire_at - u) \div TicksPerSecond]

(* ttl reads the clock twice: t for is_expired, u for the remaining time. *)
ttl(sh, k, t, u) ==
  IF k \notin sh.map THEN [shard |-> sh, ret |-> -2]
  ELSE IF is_expired(sh.node[k], t)
       THEN [shard |-> remove_keys(sh, {k}, "kExpired"), ret |-> -2]
       ELSE IF sh.node[k].expire_at = Null THEN [shard |-> sh, ret |-> -1]
            ELSE LET seconds == (sh.node[k].expire_at - u) \div TicksPerSecond
                 IN  [shard |-> sh,
                      ret   |-> IF seconds > 0 THEN seconds ELSE 0]

Due_Strict(sh, t) == {p \in sh.expire_map : p[1] < t}    \* fault

Due(sh, t) == {p \in sh.expire_map : p[1] <= t}

(* Each due entry is erased, its node's iterator reset, and the node       *)
(* removed through the map.                                                *)
remove_expired_keys(sh, t) ==
  LET due == {p[2] : p \in Due(sh, t)}
  IN  remove_keys([sh EXCEPT !.expire_map = @ \ Due(sh, t),
                             !.node = [k \in Key |->
                                IF k \in due
                                THEN [sh.node[k] EXCEPT !.expire_it = Null]
                                ELSE sh.node[k]]],
                  due \cap sh.map, "kExpired")

get_next_expire_time(sh) ==
  IF sh.expire_map = {} THEN Null
  ELSE (CHOOSE p \in sh.expire_map :
          \A q \in sh.expire_map : p[1] <= q[1])[1]

get_stats(sh) == [used_payload_bytes |-> sh.used,
                  key_count          |-> Cardinality(sh.map),
                  evictions          |-> sh.evictions,
                  expired            |-> sh.expired,
                  max_memory_bytes   |-> MaxMemoryBytes]

-----------------------------------------------------------------------------
(* What the fields say of each other between two calls.                    *)

LinearOrder(R, S) ==
  /\ R \subseteq S \X S
  /\ \A a, b \in S : <<a, b>> \in R \/ <<b, a>> \in R
  /\ \A a, b \in S : <<a, b>> \in R /\ <<b, a>> \in R => a = b
  /\ \A a, b, c \in S : <<a, b>> \in R /\ <<b, c>> \in R => <<a, c>> \in R

Indexed(sh) ==
  /\ Listed(sh.lru) = sh.map
  /\ LinearOrder(sh.lru, sh.map)
  /\ \A k \in Key : k \in sh.map <=> sh.node[k] # Null

Scheduled(sh) ==
  /\ \A k \in sh.map : sh.node[k].expire_it = Iterator(k, sh.node[k].expire_at)
  /\ sh.expire_map = {<<sh.node[k].expire_at, k>> :
                        k \in {j \in sh.map : sh.node[j].expire_at # Null}}

Accounted(sh) == sh.used = Payload(sh.node, sh.map)
=============================================================================
