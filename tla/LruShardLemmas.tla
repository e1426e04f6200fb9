--------------------------- MODULE LruShardLemmas ---------------------------
(***************************************************************************)
(* What the methods of a shard preserve, whatever the keys, the values,    *)
(* their sizes, the budget and the deadlines.  The modules that prove      *)
(* theorems about shards, alone or under a cleaner, draw on these lemmas.  *)
(***************************************************************************)
EXTENDS LruShardOps, FiniteSetTheorems, WellFoundedInduction, TLAPS

-----------------------------------------------------------------------------
(* Counting.                                                               *)

(* n pairs with the same first element are n elements. *)
LEMMA TaggedCount ==
  ASSUME NEW x, NEW n \in Nat
  PROVE  IsFiniteSet({x} \X (1 .. n)) /\ Cardinality({x} \X (1 .. n)) = n
<1> DEFINE S == {x}
           T == 1 .. n
<1>1. IsFiniteSet(T) /\ Cardinality(T) = n
  BY FS_Interval
<1>2. IsFiniteSet(S) /\ Cardinality(S) = 1
  BY FS_Singleton
<1> HIDE DEF S, T
<1>3. IsFiniteSet(S \X T) /\ Cardinality(S \X T) = Cardinality(S) * Cardinality(T)
  BY <1>1, <1>2, FS_Product, Zenon
<1>4. Cardinality(S \X T) = n
  BY <1>1, <1>2, <1>3
<1> QED
  BY <1>3, <1>4, Zenon DEF S, T

(* Finite sets without a common element have as many as both together. *)
LEMMA DisjointCount ==
  ASSUME NEW S, IsFiniteSet(S), NEW T, IsFiniteSet(T), S \cap T = {}
  PROVE  /\ Cardinality(S) \in Nat /\ Cardinality(T) \in Nat
         /\ Cardinality(S \cup T) = Cardinality(S) + Cardinality(T)
<1>1. Cardinality(S \cup T)
        = Cardinality(S) + Cardinality(T) - Cardinality(S \cap T)
  BY FS_Union, Zenon
<1>2. Cardinality(S \cap T) = 0
  BY FS_EmptySet
<1>3. Cardinality(S) \in Nat /\ Cardinality(T) \in Nat
  BY FS_CardinalityType
<1> QED
  BY <1>1, <1>2, <1>3

-----------------------------------------------------------------------------
(* Payload is a sum over keys.                                             *)

(* Valued(node, K): K is a finite set of keys whose nodes have values. *)
Valued(node, K) == /\ K \subseteq Key
                   /\ IsFiniteSet(K)
                   /\ \A k \in K : node[k].value \in Value

(* payload_bytes is a natural number. *)
LEMMA PayloadBytesType ==
  ASSUME NEW k \in Key, NEW v \in Value
  PROVE  payload_bytes(k, v) \in Nat
BY SizeAssumption DEF payload_bytes

(* The bytes of finitely many nodes are finitely many. *)
LEMMA BytesFinite ==
  ASSUME NEW node, NEW K, Valued(node, K)
  PROVE  IsFiniteSet(Bytes(node, K)) /\ Payload(node, K) \in Nat
<1> DEFINE B(k) == {k} \X (1 .. payload_bytes(k, node[k].value))
           f == [k \in K |-> B(k)]
           T == {B(k) : k \in K}
<1>1. f \in Surjection(K, T)
  BY DEF Surjection
<1>2. IsFiniteSet(T)
  BY <1>1, FS_Surjection DEF Valued
<1>3. ASSUME NEW S \in T PROVE IsFiniteSet(S)
  <2>1. PICK k \in K : S = B(k)
    OBVIOUS
  <2>2. payload_bytes(k, node[k].value) \in Nat
    BY PayloadBytesType DEF Valued
  <2> QED
    BY <2>1, <2>2, TaggedCount
<1>4. IsFiniteSet(UNION T)
  <2> HIDE DEF T
  <2> QED BY <1>2, <1>3, FS_UNION
<1>5. Bytes(node, K) = UNION T
  BY DEF Bytes
<1> QED
  BY <1>4, <1>5, FS_CardinalityType DEF Payload

(* The payload of a set of nodes is that of a part and that of the rest. *)
LEMMA PayloadSplit ==
  ASSUME NEW node, NEW K, Valued(node, K), NEW J, J \subseteq K
  PROVE  /\ Payload(node, J) \in Nat
         /\ Payload(node, K \ J) \in Nat
         /\ Payload(node, K) = Payload(node, J) + Payload(node, K \ J)
<1>1. Valued(node, J) /\ Valued(node, K \ J)
  BY FS_Subset DEF Valued
<1>2. /\ IsFiniteSet(Bytes(node, J)) /\ Payload(node, J) \in Nat
      /\ IsFiniteSet(Bytes(node, K \ J)) /\ Payload(node, K \ J) \in Nat
  BY <1>1, BytesFinite
<1>3. Bytes(node, K) = Bytes(node, J) \cup Bytes(node, K \ J)
  BY DEF Bytes
<1>4. Bytes(node, J) \cap Bytes(node, K \ J) = {}
  <2>1. \A p \in Bytes(node, J) : p[1] \in J
    BY DEF Bytes
  <2>2. \A p \in Bytes(node, K \ J) : p[1] \in K \ J
    BY DEF Bytes
  <2> QED
    BY <2>1, <2>2
<1>5. Cardinality(Bytes(node, K))
        = Cardinality(Bytes(node, J)) + Cardinality(Bytes(node, K \ J))
  BY <1>2, <1>3, <1>4, DisjointCount, Zenon
<1> QED
  BY <1>2, <1>5 DEF Payload

(* The payload of one node. *)
LEMMA PayloadOne ==
  ASSUME NEW node, NEW k \in Key, node[k].value \in Value
  PROVE  Payload(node, {k}) = payload_bytes(k, node[k].value)
<1> DEFINE n == payload_bytes(k, node[k].value)
<1>1. n \in Nat
  BY PayloadBytesType
<1>2. Bytes(node, {k}) = {k} \X (1 .. n)
  BY DEF Bytes
<1>3. Payload(node, {k}) = Cardinality({k} \X (1 .. n))
  BY <1>2 DEF Payload
<1> HIDE DEF n
<1>4. Cardinality({k} \X (1 .. n)) = n
  BY <1>1, TaggedCount
<1> QED
  BY <1>3, <1>4 DEF n

(* The payload depends on the values only. *)
LEMMA PayloadSame ==
  ASSUME NEW n1, NEW n2, NEW K, \A k \in K : n1[k].value = n2[k].value
  PROVE  Payload(n1, K) = Payload(n2, K)
<1>1. Bytes(n1, K) = Bytes(n2, K)
  BY DEF Bytes
<1> QED
  BY <1>1 DEF Payload

(* No nodes, no bytes. *)
LEMMA PayloadEmpty ==
  ASSUME NEW node
  PROVE  Payload(node, {}) = 0
<1>1. Bytes(node, {}) = {}
  BY DEF Bytes
<1> QED
  BY <1>1, FS_EmptySet DEF Payload

-----------------------------------------------------------------------------
(* Consistent shards.                                                      *)

Consistent(sh) == /\ sh \in Shard
                  /\ IsFiniteSet(sh.map)
                  /\ Indexed(sh)
                  /\ Scheduled(sh)
                  /\ Accounted(sh)

(* A key of a consistent shard has a node. *)
LEMMA HeldNode ==
  ASSUME NEW sh, sh \in Shard, Indexed(sh), NEW k \in sh.map
  PROVE  k \in Key /\ sh.node[k] \in Node /\ sh.node[k] # Null
BY NullAssumption DEF Shard, Indexed

(* Any part of a consistent shard's keys has a payload. *)
LEMMA HeldValued ==
  ASSUME NEW sh, Consistent(sh), NEW K, K \subseteq sh.map
  PROVE  Valued(sh.node, K)
<1>1. \A k \in K : k \in Key /\ sh.node[k] \in Node
  BY HeldNode DEF Consistent
<1>2. IsFiniteSet(K)
  BY FS_Subset DEF Consistent
<1>3. \A n \in Node : n.value \in Value
  BY DEF Node
<1> QED
  BY <1>1, <1>2, <1>3 DEF Valued

(* used_payload_bytes_ is the payload of any part of the keys and the rest.*)
LEMMA HeldPayload ==
  ASSUME NEW sh, Consistent(sh), NEW K, K \subseteq sh.map
  PROVE  /\ Payload(sh.node, K) \in Nat
         /\ Payload(sh.node, sh.map \ K) \in Nat
         /\ sh.used = Payload(sh.node, K) + Payload(sh.node, sh.map \ K)
BY HeldValued, PayloadSplit DEF Consistent, Accounted

(* A new shard is consistent. *)
LEMMA EmptyConsistent == Consistent(EmptyShard) /\ EmptyShard.used = 0
<1> DEFINE e == EmptyShard
<1>1. e \in Shard
  BY DEF EmptyShard, Shard
<1>2. IsFiniteSet(e.map)
  BY FS_EmptySet DEF EmptyShard
<1>3. Indexed(e)
  BY DEF EmptyShard, Indexed, Listed, LinearOrder
<1>4. Scheduled(e)
  BY DEF EmptyShard, Scheduled
<1>5. Accounted(e)
  BY PayloadEmpty DEF EmptyShard, Accounted
<1> QED
  BY <1>1, <1>2, <1>3, <1>4, <1>5 DEF Consistent, EmptyShard

(* Erasing nodes from the list keeps the order of the others. *)
LEMMA UnlinkOrder ==
  ASSUME NEW lru, NEW S, NEW K, LinearOrder(lru, S), Listed(lru) = S
  PROVE  LinearOrder(Unlink(lru, K), S \ K) /\ Listed(Unlink(lru, K)) = S \ K
<1>1. \A p \in lru : p = <<p[1], p[2]>> /\ p[1] \in S /\ p[2] \in S
  BY DEF LinearOrder
<1>2. \A a, b : <<a, b>> \in Unlink(lru, K) <=> <<a, b>> \in lru /\ a \notin K /\ b \notin K
  BY DEF Unlink
<1>3. Unlink(lru, K) \subseteq (S \ K) \X (S \ K)
  BY <1>1 DEF Unlink
<1>4. LinearOrder(Unlink(lru, K), S \ K)
  BY <1>2, <1>3 DEF LinearOrder
<1>5. \A a \in S : <<a, a>> \in lru
  BY DEF LinearOrder
<1>6. Listed(Unlink(lru, K)) = S \ K
  BY <1>1, <1>2, <1>3, <1>5 DEF Listed
<1> QED
  BY <1>4, <1>6

(* Moving a node to the front, or inserting it there, orders the list with *)
(* that node.                                                              *)
LEMMA MoveToFrontOrder ==
  ASSUME NEW lru, NEW S, NEW k, LinearOrder(lru, S), Listed(lru) = S
  PROVE  /\ LinearOrder(MoveToFront(lru, k), S \cup {k})
         /\ Listed(MoveToFront(lru, k)) = S \cup {k}
<1> DEFINE R == Unlink(lru, {k})
           Q == MoveToFront(lru, k)
           U == S \ {k}
<1>1. LinearOrder(R, U) /\ Listed(R) = U
  BY UnlinkOrder
<1>2. Q = R \cup {<<k, j>> : j \in U \cup {k}}
  BY <1>1 DEF MoveToFront, PushFront
<1>3. \A p \in R : p = <<p[1], p[2]>> /\ p[1] \in U /\ p[2] \in U
  BY <1>1 DEF LinearOrder
<1> HIDE DEF R, Q
<1>4. \A a, b : <<a, b>> \in Q <=> \/ <<a, b>> \in R
                                   \/ a = k /\ b \in U \cup {k}
  BY <1>2
<1>5. Q \subseteq (S \cup {k}) \X (S \cup {k})
  BY <1>2, <1>3
<1>6. LinearOrder(Q, S \cup {k})
  <2>1. \A a, b \in S \cup {k} : <<a, b>> \in Q \/ <<b, a>> \in Q
    BY <1>1, <1>4 DEF LinearOrder
  <2>2. \A a, b \in S \cup {k} : <<a, b>> \in Q /\ <<b, a>> \in Q => a = b
    BY <1>1, <1>3, <1>4 DEF LinearOrder
  <2>3. \A a, b, c \in S \cup {k} :
          <<a, b>> \in Q /\ <<b, c>> \in Q => <<a, c>> \in Q
    BY <1>1, <1>3, <1>4 DEF LinearOrder
  <2> QED
    BY <1>5, <2>1, <2>2, <2>3 DEF LinearOrder
<1>7. \A a \in S \cup {k} : <<a, a>> \in Q
  BY <1>6 DEF LinearOrder
<1>8. Listed(Q) = S \cup {k}
  BY <1>5, <1>7 DEF Listed
<1> QED
  BY <1>6, <1>8 DEF Q

-----------------------------------------------------------------------------
(* The methods.                                                            *)

(* remove_key, on any of the keys held, leaves a consistent shard with the *)
(* other keys and exactly their bytes.                                     *)
LEMMA RemoveKeysConsistent ==
  ASSUME NEW sh, Consistent(sh), NEW K, K \subseteq sh.map, NEW reason
  PROVE  /\ Consistent(remove_keys(sh, K, reason))
         /\ remove_keys(sh, K, reason).used = sh.used - Payload(sh.node, K)
         /\ remove_keys(sh, K, reason).used <= sh.used
<1> DEFINE r == remove_keys(sh, K, reason)
           J == sh.map \ K
<1>1. sh \in Shard /\ Indexed(sh) /\ Scheduled(sh) /\ Accounted(sh)
  BY DEF Consistent
<1>2. /\ Payload(sh.node, K) \in Nat
      /\ Payload(sh.node, J) \in Nat
      /\ sh.used = Payload(sh.node, K) + Payload(sh.node, J)
  BY HeldPayload
<1>3. IsFiniteSet(K) /\ Cardinality(K) \in Nat /\ IsFiniteSet(J)
  BY FS_Subset, FS_CardinalityType DEF Consistent
<1>4. /\ r.map = J
      /\ r.lru = Unlink(sh.lru, K)
      /\ r.node = [k \in Key |-> IF k \in K THEN Null ELSE sh.node[k]]
      /\ r.expire_map = sh.expire_map \ {sh.node[k].expire_it : k \in K}
      /\ r.used = Minus(sh.used, Payload(sh.node, K))
      /\ r.evictions = (IF reason = "kEviction" THEN sh.evictions + Cardinality(K)
                                                ELSE sh.evictions)
      /\ r.expired = (IF reason = "kExpired" THEN sh.expired + Cardinality(K)
                                             ELSE sh.expired)
      /\ r = [map |-> r.map, lru |-> r.lru, node |-> r.node,
              expire_map |-> r.expire_map, used |-> r.used,
              evictions |-> r.evictions, expired |-> r.expired]
  BY DEF remove_keys
<1> HIDE DEF r
<1>5. r.used = Payload(sh.node, J)
  BY <1>2, <1>4 DEF Minus
<1>6. Indexed(r)
  <2>1. LinearOrder(r.lru, J) /\ Listed(r.lru) = J
    <3>1. LinearOrder(sh.lru, sh.map) /\ Listed(sh.lru) = sh.map
      BY <1>1 DEF Indexed
    <3> QED
      BY <1>4, <3>1, UnlinkOrder
  <2>2. \A k \in Key : k \in J <=> r.node[k] # Null
    BY <1>1, <1>4 DEF Indexed
  <2> QED
    BY <1>4, <2>1, <2>2 DEF Indexed
<1>7. r \in Shard
  <2>1. sh.map \subseteq Key /\ sh.lru \subseteq Key \X Key
        /\ sh.node \in [Key -> Node \cup {Null}] /\ sh.expire_map \subseteq Pair
        /\ sh.evictions \in Nat /\ sh.expired \in Nat
    BY <1>1 DEF Shard
  <2>2. r.lru \subseteq Key \X Key
    BY <1>4, <2>1 DEF Unlink
  <2>3. r.node \in [Key -> Node \cup {Null}]
    BY <1>4, <2>1
  <2>4. r.used \in Nat /\ r.evictions \in Nat /\ r.expired \in Nat
    BY <1>2, <1>3, <1>4, <1>5, <2>1
  <2>5. r.map \in SUBSET Key /\ r.expire_map \in SUBSET Pair
    BY <1>4, <2>1
  <2> QED
    BY <1>4, <2>2, <2>3, <2>4, <2>5 DEF Shard
<1>8. Scheduled(r)
  <2>1. \A k \in J : k \in Key /\ r.node[k] = sh.node[k]
    BY <1>1, <1>4, HeldNode
  <2>2. \A k \in r.map : r.node[k].expire_it = Iterator(k, r.node[k].expire_at)
    BY <1>1, <1>4, <2>1 DEF Scheduled
  <2>3. \A k \in K : sh.node[k].expire_it = Iterator(k, sh.node[k].expire_at)
    BY <1>1 DEF Scheduled
  <2>4. \A p : p \in sh.expire_map <=>
               \E k \in sh.map : sh.node[k].expire_at # Null
                                 /\ p = <<sh.node[k].expire_at, k>>
    BY <1>1 DEF Scheduled
  <2>5. \A p : p \in r.expire_map <=>
               \E k \in J : sh.node[k].expire_at # Null
                            /\ p = <<sh.node[k].expire_at, k>>
    <3>1. \A p : p \in r.expire_map <=>
                 p \in sh.expire_map /\ \A j \in K : p # sh.node[j].expire_it
      BY <1>4
    <3>2. \A k \in sh.map : sh.node[k].expire_at # Null =>
            (k \in K <=> \E j \in K : <<sh.node[k].expire_at, k>> = sh.node[j].expire_it)
      <4>1. \A j \in K : sh.node[j].expire_it = Null
                         \/ sh.node[j].expire_it = <<sh.node[j].expire_at, j>>
        BY <2>3 DEF Iterator
      <4>2. \A j \in K : sh.node[j].expire_at # Null =>
              sh.node[j].expire_it = <<sh.node[j].expire_at, j>>
        BY <2>3 DEF Iterator
      <4>3. \A k \in sh.map : sh.node[k].expire_at # Null =>
              <<sh.node[k].expire_at, k>> # Null
        <5>1. \A k \in sh.map : sh.node[k].expire_at # Null =>
                <<sh.node[k].expire_at, k>> \in Pair
          BY <1>1, <2>4 DEF Shard
        <5> QED
          BY <5>1, NullAssumption
      <4>4. ASSUME NEW k \in sh.map, NEW j \in K, sh.node[k].expire_at # Null,
                   <<sh.node[k].expire_at, k>> = sh.node[j].expire_it
            PROVE  k \in K
        <5>1. <<sh.node[k].expire_at, k>> = <<sh.node[j].expire_at, j>>
          BY <4>1, <4>3, <4>4
        <5> QED
          BY <5>1
      <4> QED
        BY <4>2, <4>4
    <3> QED
      BY <2>4, <3>1, <3>2
  <2>6. r.expire_map = {<<r.node[k].expire_at, k>> :
                          k \in {j \in J : r.node[j].expire_at # Null}}
    BY <2>1, <2>5
  <2> QED
    BY <1>4, <2>2, <2>6 DEF Scheduled
<1>9. Accounted(r)
  <2>1. \A k \in J : r.node[k].value = sh.node[k].value
    BY <1>1, <1>4, HeldNode
  <2>2. Payload(r.node, J) = Payload(sh.node, J)
    BY <2>1, PayloadSame
  <2> QED
    BY <1>4, <1>5, <2>2 DEF Accounted
<1>10. Consistent(r)
  BY <1>3, <1>4, <1>6, <1>7, <1>8, <1>9 DEF Consistent
<1> QED
  BY <1>2, <1>5, <1>10 DEF r

(* Giving k the deadline d replaces k's entry of expire_map_ and no other. *)
LEMMA RescheduleExact ==
  ASSUME NEW sh, Consistent(sh), NEW k \in Key, NEW d \in Int \cup {Null}
  PROVE  /\ Reschedule(sh, k, d) \subseteq Pair
         /\ \A p : p \in Reschedule(sh, k, d) <=>
                 \/ \E j \in sh.map \ {k} : /\ sh.node[j].expire_at # Null
                                            /\ p = <<sh.node[j].expire_at, j>>
                 \/ d # Null /\ p = <<d, k>>
<1>1. sh \in Shard /\ Indexed(sh) /\ Scheduled(sh)
  BY DEF Consistent
<1>2. \A p : p \in sh.expire_map <=>
             \E j \in sh.map : sh.node[j].expire_at # Null
                               /\ p = <<sh.node[j].expire_at, j>>
  BY <1>1 DEF Scheduled
<1>3. sh.expire_map \subseteq Pair /\ (d # Null => <<d, k>> \in Pair)
  BY <1>1 DEF Shard, Pair
<1> DEFINE kept == IF sh.node[k] = Null THEN sh.expire_map
                                        ELSE sh.expire_map \ {sh.node[k].expire_it}
<1>4. \A p : p \in kept <=>
             \E j \in sh.map \ {k} : sh.node[j].expire_at # Null
                                     /\ p = <<sh.node[j].expire_at, j>>
  <2>1. CASE k \notin sh.map
    BY <1>1, <1>2, <2>1 DEF Indexed
  <2>2. CASE k \in sh.map /\ sh.node[k].expire_at = Null
    <3>1. sh.node[k] # Null /\ sh.node[k].expire_it = Null
      BY <1>1, <2>2 DEF Indexed, Scheduled, Iterator
    <3>2. Null \notin sh.expire_map
      BY <1>3, NullAssumption
    <3>3. kept = sh.expire_map
      BY <3>1, <3>2
    <3> QED
      BY <1>2, <2>2, <3>3
  <2>3. CASE k \in sh.map /\ sh.node[k].expire_at # Null
    <3>1. sh.node[k] # Null /\ sh.node[k].expire_it = <<sh.node[k].expire_at, k>>
      BY <1>1, <2>3 DEF Indexed, Scheduled, Iterator
    <3>2. kept = sh.expire_map \ {<<sh.node[k].expire_at, k>>}
      BY <3>1
    <3> HIDE DEF kept
    <3> QED
      BY <1>2, <3>2
  <2> QED
    BY <2>1, <2>2, <2>3
<1>5. Reschedule(sh, k, d) = kept \cup (IF d = Null THEN {} ELSE {<<d, k>>})
  BY DEF Reschedule
<1>6. kept \subseteq Pair
  BY <1>3
<1> HIDE DEF kept
<1> QED
  BY <1>3, <1>4, <1>5, <1>6

(* The node written by set. *)
LEMMA NewNode ==
  ASSUME NEW k \in Key, NEW v \in Value, NEW d \in Int \cup {Null}
  PROVE  [value |-> v, expire_at |-> d, expire_it |-> Iterator(k, d)] \in Node
<1>1. Iterator(k, d) \in Pair \cup {Null}
  BY DEF Iterator, Pair
<1> QED
  BY <1>1 DEF Node

(* set, before it evicts, leaves a consistent shard that holds k as well.  *)
LEMMA StoreConsistent ==
  ASSUME NEW sh, Consistent(sh), NEW k \in Key, NEW v \in Value,
         NEW d \in Int \cup {Null}
  PROVE  Consistent(Store(sh, k, v, d))
<1> DEFINE r   == Store(sh, k, v, d)
           new == [value |-> v, expire_at |-> d, expire_it |-> Iterator(k, d)]
           M   == sh.map \cup {k}
<1>1. sh \in Shard /\ Indexed(sh) /\ Scheduled(sh) /\ Accounted(sh)
  BY DEF Consistent
<1>2. /\ sh.map \subseteq Key /\ sh.lru \subseteq Key \X Key
      /\ sh.node \in [Key -> Node \cup {Null}] /\ sh.expire_map \subseteq Pair
      /\ sh.used \in Nat /\ sh.evictions \in Nat /\ sh.expired \in Nat
  BY <1>1 DEF Shard
<1>3. /\ r.map = M
      /\ r.lru = MoveToFront(sh.lru, k)
      /\ r.node = [sh.node EXCEPT ![k] = new]
      /\ r.expire_map = Reschedule(sh, k, d)
      /\ r.used = UsedAfter(sh, k, v)
      /\ r.evictions = sh.evictions
      /\ r.expired = sh.expired
      /\ r = [map |-> r.map, lru |-> r.lru, node |-> r.node,
              expire_map |-> r.expire_map, used |-> r.used,
              evictions |-> r.evictions, expired |-> r.expired]
  BY <1>1 DEF Store, Shard
<1> HIDE DEF r
<1>4. /\ new \in Node
      /\ new.value = v /\ new.expire_at = d /\ new.expire_it = Iterator(k, d)
  BY NewNode
<1> HIDE DEF new
<1>5. /\ r.node \in [Key -> Node \cup {Null}]
      /\ r.node[k] = new
      /\ \A j \in Key \ {k} : r.node[j] = sh.node[j]
  BY <1>2, <1>3, <1>4
<1>6. Indexed(r)
  <2>1. LinearOrder(sh.lru, sh.map) /\ Listed(sh.lru) = sh.map
    BY <1>1 DEF Indexed
  <2>2. LinearOrder(r.lru, M) /\ Listed(r.lru) = M
    <3>1. /\ LinearOrder(MoveToFront(sh.lru, k), sh.map \cup {k})
          /\ Listed(MoveToFront(sh.lru, k)) = sh.map \cup {k}
      BY <2>1, MoveToFrontOrder
    <3> QED
      BY <1>3, <3>1
  <2>3. new # Null
    BY <1>4, NullAssumption
  <2>4. \A j \in Key : j \in M <=> r.node[j] # Null
    BY <1>1, <1>5, <2>3 DEF Indexed
  <2> QED
    BY <1>3, <2>2, <2>4 DEF Indexed
<1>7. Scheduled(r)
  <2>1. \A j \in sh.map \ {k} : r.node[j] = sh.node[j]
    BY <1>2, <1>5
  <2>2. \A j \in M : r.node[j].expire_it = Iterator(j, r.node[j].expire_at)
    BY <1>1, <1>4, <1>5, <2>1 DEF Scheduled
  <2>3. \A p : p \in r.expire_map <=>
               \/ \E j \in sh.map \ {k} : /\ sh.node[j].expire_at # Null
                                          /\ p = <<sh.node[j].expire_at, j>>
               \/ d # Null /\ p = <<d, k>>
    BY <1>3, RescheduleExact
  <2>4. \A p : p \in r.expire_map <=>
               \E j \in M : r.node[j].expire_at # Null /\ p = <<r.node[j].expire_at, j>>
    BY <1>4, <1>5, <2>1, <2>3
  <2>5. r.expire_map = {<<r.node[j].expire_at, j>> :
                          j \in {i \in M : r.node[i].expire_at # Null}}
    BY <2>4
  <2> QED
    BY <1>3, <2>2, <2>5 DEF Scheduled
<1>8. /\ Accounted(r)
      /\ r.used \in Nat
  <2> DEFINE rest == Payload(sh.node, sh.map \ {k})
             pnew == payload_bytes(k, v)
  <2>1. pnew \in Nat
    BY PayloadBytesType
  <2>2. IsFiniteSet(M)
    BY FS_AddElement DEF Consistent
  <2>3. Valued(r.node, M)
    <3>1. \A j \in sh.map : sh.node[j].value \in Value
      BY HeldValued DEF Valued
    <3> QED
      BY <1>2, <1>4, <1>5, <2>2, <3>1 DEF Valued
  <2>4. Payload(r.node, M) = Payload(r.node, {k}) + Payload(r.node, M \ {k})
    BY <2>3, PayloadSplit
  <2>5. Payload(r.node, {k}) = pnew
    BY <1>4, <1>5, PayloadOne
  <2>6. Payload(r.node, M \ {k}) = rest
    <3>1. M \ {k} = sh.map \ {k}
      OBVIOUS
    <3>2. \A j \in sh.map \ {k} : r.node[j].value = sh.node[j].value
      BY <1>2, <1>5
    <3>3. Payload(r.node, sh.map \ {k}) = Payload(sh.node, sh.map \ {k})
      BY <3>2, PayloadSame
    <3> QED
      BY <3>1, <3>3
  <2>7. rest \in Nat
    BY HeldValued, BytesFinite
  <2>8. r.used = pnew + rest
    <3>1. CASE k \notin sh.map
      <4>1. sh.map \ {k} = sh.map
        BY <3>1
      <4>2. sh.used = rest
        BY <1>1, <4>1 DEF Accounted
      <4> QED
        BY <1>3, <2>1, <2>7, <3>1, <4>2 DEF UsedAfter
    <3>2. CASE k \in sh.map
      <4> DEFINE pold == payload_bytes(k, sh.node[k].value)
      <4>1. sh.node[k].value \in Value
        BY <3>2, HeldValued DEF Valued
      <4>2. pold \in Nat
        BY <4>1, PayloadBytesType
      <4>3. Payload(sh.node, {k}) = pold
        BY <4>1, PayloadOne
      <4>4. sh.used = pold + rest
        BY <3>2, <4>3, HeldPayload
      <4>5. r.used = IF pnew >= pold THEN sh.used + (pnew - pold)
                                     ELSE Minus(sh.used, pold - pnew)
        BY <1>3, <3>2 DEF UsedAfter
      <4> HIDE DEF pold, pnew, rest
      <4> QED
        BY <2>1, <2>7, <4>2, <4>4, <4>5 DEF Minus
    <3> QED
      BY <3>1, <3>2
  <2> HIDE DEF pnew, rest
  <2> QED
    BY <1>3, <2>1, <2>4, <2>5, <2>6, <2>7, <2>8 DEF Accounted
<1>9. r \in Shard
  <2>1. r.lru \subseteq Key \X Key /\ r.map \subseteq Key
    BY <1>2, <1>3, <1>6 DEF Indexed, LinearOrder
  <2>2. r.expire_map \subseteq Pair
    BY <1>3, RescheduleExact
  <2> QED
    BY <1>2, <1>3, <1>5, <1>8, <2>1, <2>2 DEF Shard
<1>10. IsFiniteSet(r.map)
  BY <1>3, FS_AddElement DEF Consistent
<1> QED
  BY <1>6, <1>7, <1>8, <1>9, <1>10 DEF Consistent, r

(* Any non-empty part of the list has a last element. *)
LEMMA LastOf ==
  ASSUME NEW sh, Consistent(sh), NEW T, T \subseteq sh.map, T # {}
  PROVE  \E b \in T : \A c \in T : c \notin Behind(sh.lru, b)
<1> DEFINE D == {Behind(sh.lru, k) : k \in T}
<1>1. LinearOrder(sh.lru, sh.map) /\ Listed(sh.lru) = sh.map /\ IsFiniteSet(sh.map)
  BY DEF Consistent, Indexed
<1>2. D \subseteq SUBSET sh.map /\ D # {}
  BY <1>1 DEF Behind
<1>3. D \subseteq FiniteSubsetsOf(sh.map)
  BY <1>1, <1>2, FS_FiniteSubsetsOfFinite
<1>4. IsWellFoundedOn(StrictSubsetOrdering(sh.map), FiniteSubsetsOf(sh.map))
  BY FS_StrictSubsetOrderingWellFounded
<1> HIDE DEF D
<1>5. PICK X \in D : \A Y \in D : ~ (<<Y, X>> \in StrictSubsetOrdering(sh.map))
  BY <1>2, <1>3, <1>4, WFMin
<1>6. PICK b \in T : X = Behind(sh.lru, b)
  BY <1>5 DEF D
<1>7. ASSUME NEW c \in T, c \in Behind(sh.lru, b)
      PROVE  FALSE
  <2> DEFINE Y == Behind(sh.lru, c)
  <2>1. <<b, c>> \in sh.lru /\ c # b /\ b \in sh.map /\ c \in sh.map
    BY <1>7 DEF Behind
  <2>2. Y \subseteq X
    BY <1>1, <1>6, <2>1 DEF Behind, LinearOrder
  <2>3. c \in X /\ c \notin Y
    BY <1>6, <1>7 DEF Behind
  <2>4. Y \in D /\ Y \subseteq sh.map /\ X \subseteq sh.map
    BY <1>2 DEF D
  <2> HIDE DEF Y
  <2>5. <<Y, X>> \in StrictSubsetOrdering(sh.map)
    BY <2>2, <2>3, <2>4 DEF StrictSubsetOrdering
  <2> QED
    BY <1>5, <2>4, <2>5
<1> QED
  BY <1>6, <1>7

(* enforce_max_memory leaves a consistent shard within its budget. *)
LEMMA EnforceConsistent ==
  ASSUME NEW sh, Consistent(sh)
  PROVE  /\ Consistent(enforce_max_memory(sh))
         /\ enforce_max_memory(sh).used <= MaxMemoryBytes
<1> DEFINE E == Evicted(sh)
           r == enforce_max_memory(sh)
<1>1. /\ LinearOrder(sh.lru, sh.map) /\ Listed(sh.lru) = sh.map
      /\ sh.used \in Nat
  BY DEF Consistent, Indexed, Shard
<1>2. E \subseteq sh.map
  BY <1>1 DEF Evicted
<1>3. Consistent(r) /\ r.used = sh.used - Payload(sh.node, E)
  BY <1>2, RemoveKeysConsistent DEF enforce_max_memory
<1>4. \A k \in sh.map : Behind(sh.lru, k) \subseteq sh.map
  BY <1>1 DEF Behind
<1>5. \A k \in sh.map :
        k \in E <=> sh.used - Payload(sh.node, Behind(sh.lru, k)) > MaxMemoryBytes
  <2>1. \A k \in sh.map : /\ Payload(sh.node, Behind(sh.lru, k)) \in Nat
                          /\ Payload(sh.node, Behind(sh.lru, k)) <= sh.used
    <3> SUFFICES ASSUME NEW k \in sh.map
                 PROVE  /\ Payload(sh.node, Behind(sh.lru, k)) \in Nat
                        /\ Payload(sh.node, Behind(sh.lru, k)) <= sh.used
      OBVIOUS
    <3>1. Behind(sh.lru, k) \subseteq sh.map
      BY <1>4
    <3> DEFINE P == Payload(sh.node, Behind(sh.lru, k))
               Q == Payload(sh.node, sh.map \ Behind(sh.lru, k))
    <3>2. P \in Nat /\ Q \in Nat /\ sh.used = P + Q
      BY <3>1, HeldPayload
    <3> HIDE DEF P, Q
    <3>3. P \in Nat /\ P <= sh.used
      BY <3>2
    <3> QED
      BY <3>3 DEF P
  <2> QED
    BY <1>1, <2>1, SizeAssumption DEF Evicted, Minus
<1>6. CASE E = sh.map
  <2>1. sh.used = Payload(sh.node, E)
    BY <1>6 DEF Consistent, Accounted
  <2> QED
    BY <1>1, <1>3, <2>1, SizeAssumption
<1>7. CASE E # sh.map
  <2> DEFINE T == sh.map \ E
  <2>1. T # {} /\ T \subseteq sh.map
    BY <1>2, <1>7
  <2> HIDE DEF T
  <2>2. PICK b \in T : \A c \in T : c \notin Behind(sh.lru, b)
    BY <2>1, LastOf
  <2>3. Behind(sh.lru, b) \subseteq E
    BY <1>4, <2>1, <2>2 DEF T
  <2>4. ASSUME NEW e \in E PROVE e \in Behind(sh.lru, b)
    <3> SUFFICES ASSUME e \notin Behind(sh.lru, b) PROVE FALSE
      OBVIOUS
    <3>1. e \in sh.map /\ b \in sh.map /\ b \notin E /\ e # b
      BY <1>2, <2>1 DEF T
    <3>2. <<e, b>> \in sh.lru
      BY <1>1, <3>1 DEF Behind, LinearOrder
    <3>3. Behind(sh.lru, b) \subseteq Behind(sh.lru, e)
      BY <1>1, <3>1, <3>2 DEF Behind, LinearOrder
    <3>4. Valued(sh.node, Behind(sh.lru, e))
      BY <1>4, <3>1, HeldValued
    <3> DEFINE PB == Payload(sh.node, Behind(sh.lru, b))
               PE == Payload(sh.node, Behind(sh.lru, e))
               PD == Payload(sh.node, Behind(sh.lru, e) \ Behind(sh.lru, b))
    <3>5. PB \in Nat /\ PD \in Nat /\ PE = PB + PD
      BY <3>3, <3>4, PayloadSplit
    <3>6. sh.used - PE > MaxMemoryBytes /\ ~ (sh.used - PB > MaxMemoryBytes)
      BY <1>5, <3>1
    <3> HIDE DEF PB, PE, PD
    <3> QED
      BY <1>1, <3>5, <3>6, SizeAssumption
  <2>5. E = Behind(sh.lru, b)
    BY <2>3, <2>4
  <2>6. ~ (sh.used - Payload(sh.node, Behind(sh.lru, b)) > MaxMemoryBytes)
    BY <1>5, <2>1 DEF T
  <2>7. ~ (sh.used - Payload(sh.node, E) > MaxMemoryBytes)
    BY <2>5, <2>6
  <2>8. Payload(sh.node, E) \in Nat
    BY <1>2, HeldPayload
  <2> QED
    BY <1>1, <1>3, <2>7, <2>8, SizeAssumption
<1> QED
  BY <1>3, <1>6, <1>7

(* get leaves a consistent shard that holds no more. *)
LEMMA GetConsistent ==
  ASSUME NEW sh, Consistent(sh), NEW k \in Key, NEW t \in Int
  PROVE  /\ Consistent(get(sh, k, t).shard)
         /\ get(sh, k, t).shard.used <= sh.used
         /\ get(sh, k, t).ret \in Value \cup {Null}
<1>1. sh \in Shard /\ Indexed(sh) /\ Scheduled(sh) /\ Accounted(sh) /\ sh.used \in Nat
  BY DEF Consistent, Shard
<1>2. CASE k \notin sh.map
  BY <1>1, <1>2 DEF get
<1>3. CASE k \in sh.map /\ is_expired(sh.node[k], t)
  <2>1. /\ get(sh, k, t).shard = remove_keys(sh, {k}, "kExpired")
        /\ get(sh, k, t).ret = Null
    BY <1>3 DEF get
  <2>2. {k} \subseteq sh.map
    BY <1>3
  <2> QED
    BY <2>1, <2>2, RemoveKeysConsistent
<1>4. CASE k \in sh.map /\ ~ is_expired(sh.node[k], t)
  <2> DEFINE r == [sh EXCEPT !.lru = MoveToFront(@, k)]
  <2>1. get(sh, k, t).shard = r /\ get(sh, k, t).ret = sh.node[k].value
    BY <1>4 DEF get
  <2>2. /\ r.map = sh.map /\ r.node = sh.node /\ r.expire_map = sh.expire_map
        /\ r.used = sh.used
        /\ r.lru = MoveToFront(sh.lru, k)
    BY <1>1 DEF Shard
  <2>3. Indexed(r)
    <3>1. LinearOrder(sh.lru, sh.map) /\ Listed(sh.lru) = sh.map
      BY <1>1 DEF Indexed
    <3>2. /\ LinearOrder(MoveToFront(sh.lru, k), sh.map \cup {k})
          /\ Listed(MoveToFront(sh.lru, k)) = sh.map \cup {k}
      BY <3>1, MoveToFrontOrder
    <3>3. sh.map \cup {k} = sh.map
      BY <1>4
    <3> QED
      BY <1>1, <2>2, <3>2, <3>3 DEF Indexed
  <2>4. r \in Shard
    <3>1. MoveToFront(sh.lru, k) \subseteq sh.map \X sh.map
      BY <2>2, <2>3 DEF Indexed, LinearOrder
    <3>2. MoveToFront(sh.lru, k) \in SUBSET (Key \X Key)
      BY <1>1, <3>1 DEF Shard
    <3> QED
      BY <1>1, <3>2 DEF Shard
  <2> HIDE DEF r
  <2>5. Scheduled(r) /\ Accounted(r) /\ IsFiniteSet(r.map)
    BY <1>1, <2>2 DEF Scheduled, Accounted, Consistent
  <2>6. sh.node[k].value \in Value
    BY <1>4, HeldValued DEF Valued
  <2>7. Consistent(r) /\ r.used <= sh.used
    BY <1>1, <2>2, <2>3, <2>4, <2>5 DEF Consistent
  <2> QED
    BY <2>1, <2>6, <2>7
<1> QED
  BY <1>2, <1>3, <1>4

(* set leaves a consistent shard within its budget. *)
LEMMA SetConsistent ==
  ASSUME NEW sh, Consistent(sh), NEW k \in Key, NEW v \in Value,
         NEW d \in Int \cup {Null}
  PROVE  /\ Consistent(set(sh, k, v, d))
         /\ set(sh, k, v, d).used <= MaxMemoryBytes
BY StoreConsistent, EnforceConsistent DEF set

(* del leaves a consistent shard that holds no more. *)
LEMMA DelConsistent ==
  ASSUME NEW sh, Consistent(sh), NEW k \in Key
  PROVE  /\ Consistent(del(sh, k).shard)
         /\ del(sh, k).shard.used <= sh.used
         /\ del(sh, k).ret \in BOOLEAN
<1>1. {k} \cap sh.map \subseteq sh.map
  OBVIOUS
<1> QED
  BY <1>1, RemoveKeysConsistent DEF del

(* expire leaves a consistent shard that holds the same. *)
LEMMA ExpireConsistent ==
  ASSUME NEW sh, Consistent(sh), NEW k \in Key, NEW d \in Int
  PROVE  /\ Consistent(expire(sh, k, d).shard)
         /\ expire(sh, k, d).shard.used = sh.used
         /\ expire(sh, k, d).ret \in BOOLEAN
<1>1. sh \in Shard /\ Indexed(sh) /\ Scheduled(sh) /\ Accounted(sh)
  BY DEF Consistent
<1>2. CASE k \notin sh.map
  BY <1>2 DEF expire
<1>3. CASE k \in sh.map
  <2> DEFINE r == expire(sh, k, d).shard
             v == sh.node[k].value
             new == [value |-> v, expire_at |-> d, expire_it |-> Iterator(k, d)]
  <2>1. /\ sh.node \in [Key -> Node \cup {Null}] /\ sh.node[k] \in Node /\ v \in Value
        /\ sh.map \subseteq Key
    BY <1>1, <1>3, HeldNode, HeldValued DEF Shard, Valued
  <2> DEFINE nodes == [sh.node EXCEPT ![k] = new]
             sched == Reschedule(sh, k, d)
  <2>a. /\ r = [sh EXCEPT !.node = nodes, !.expire_map = sched]
        /\ expire(sh, k, d).ret = TRUE
    BY <1>3 DEF expire
  <2>b. /\ r.map = sh.map /\ r.lru = sh.lru /\ r.used = sh.used
        /\ r.node = nodes /\ r.expire_map = sched
        /\ r.evictions = sh.evictions /\ r.expired = sh.expired
    <3> HIDE DEF nodes, sched, r
    <3> QED
      BY <1>1, <2>a DEF Shard
  <2>2. /\ r.map = sh.map /\ r.lru = sh.lru /\ r.used = sh.used
        /\ r.node = [sh.node EXCEPT ![k] = new]
        /\ r.expire_map = Reschedule(sh, k, d)
        /\ r.evictions = sh.evictions /\ r.expired = sh.expired
        /\ r = [sh EXCEPT !.node = [sh.node EXCEPT ![k] = new],
                          !.expire_map = Reschedule(sh, k, d)]
        /\ expire(sh, k, d).ret = TRUE
    BY <2>a, <2>b
  <2> HIDE DEF r
  <2>3. /\ new \in Node /\ new # Null
        /\ new.value = v /\ new.expire_at = d /\ new.expire_it = Iterator(k, d)
    BY <2>1, NewNode, NullAssumption
  <2> HIDE DEF new
  <2>4. /\ r.node \in [Key -> Node \cup {Null}]
        /\ r.node[k] = new
        /\ \A j \in Key \ {k} : r.node[j] = sh.node[j]
    BY <2>1, <2>2, <2>3
  <2>5. r \in Shard
    <3>1. Reschedule(sh, k, d) \in SUBSET Pair
      BY RescheduleExact
    <3>2. [sh.node EXCEPT ![k] = new] \in [Key -> Node \cup {Null}]
      BY <2>1, <2>3
    <3> QED
      BY <1>1, <2>2, <3>1, <3>2 DEF Shard
  <2>6. Indexed(r)
    <3>1. \A j \in Key : j \in sh.map <=> r.node[j] # Null
      BY <1>1, <1>3, <2>3, <2>4 DEF Indexed
    <3> QED
      BY <1>1, <2>2, <3>1 DEF Indexed
  <2>7. Scheduled(r)
    <3>1. \A j \in sh.map \ {k} : r.node[j] = sh.node[j]
      BY <2>1, <2>4
    <3>2. \A j \in sh.map : r.node[j].expire_it = Iterator(j, r.node[j].expire_at)
      BY <1>1, <2>3, <2>4, <3>1 DEF Scheduled
    <3>3. \A p : p \in r.expire_map <=>
                 \/ \E j \in sh.map \ {k} : /\ sh.node[j].expire_at # Null
                                            /\ p = <<sh.node[j].expire_at, j>>
                 \/ d # Null /\ p = <<d, k>>
      BY <2>2, RescheduleExact
    <3>4. \A p : p \in r.expire_map <=>
                 \E j \in sh.map : /\ r.node[j].expire_at # Null
                                  /\ p = <<r.node[j].expire_at, j>>
      BY <1>3, <2>3, <2>4, <3>1, <3>3
    <3>5. r.expire_map = {<<r.node[j].expire_at, j>> :
                            j \in {i \in sh.map : r.node[i].expire_at # Null}}
      BY <3>4
    <3> QED
      BY <2>2, <3>2, <3>5 DEF Scheduled
  <2>8. Accounted(r)
    <3>1. \A j \in sh.map : r.node[j].value = sh.node[j].value
      BY <2>1, <2>3, <2>4
    <3>2. Payload(r.node, sh.map) = Payload(sh.node, sh.map)
      BY <3>1, PayloadSame
    <3> QED
      BY <1>1, <2>2, <3>2 DEF Accounted
  <2>9. Consistent(r)
    BY <2>2, <2>5, <2>6, <2>7, <2>8 DEF Consistent
  <2> QED
    BY <2>2, <2>9 DEF r
<1> QED
  BY <1>2, <1>3

(* ttl leaves a consistent shard that holds no more. *)
LEMMA TtlConsistent ==
  ASSUME NEW sh, Consistent(sh), NEW k \in Key, NEW t \in Int, NEW u \in Int
  PROVE  /\ Consistent(ttl(sh, k, t, u).shard)
         /\ ttl(sh, k, t, u).shard.used <= sh.used
         /\ ttl(sh, k, t, u).ret \in Int
<1>1. sh.used \in Nat
  BY DEF Consistent, Shard
<1>2. CASE k \notin sh.map
  BY <1>1, <1>2 DEF ttl
<1>3. CASE k \in sh.map /\ is_expired(sh.node[k], t)
  <2>1. {k} \subseteq sh.map
    BY <1>3
  <2> QED
    BY <1>3, <2>1, RemoveKeysConsistent DEF ttl
<1>4. CASE k \in sh.map /\ ~ is_expired(sh.node[k], t)
  <2>1. ttl(sh, k, t, u).shard = sh
    BY <1>4 DEF ttl
  <2>2. sh.node[k].expire_at \in Int \cup {Null}
    BY <1>4, HeldNode DEF Consistent, Node
  <2>3. ttl(sh, k, t, u).ret \in Int
    <3>1. CASE sh.node[k].expire_at = Null
      BY <1>4, <3>1 DEF ttl
    <3>2. CASE sh.node[k].expire_at # Null
      <4> DEFINE q == (sh.node[k].expire_at - u) \div TicksPerSecond
      <4>1. q \in Int
        BY <2>2, <3>2, TimeAssumption
      <4>2. ttl(sh, k, t, u).ret = IF q > 0 THEN q ELSE 0
        BY <1>4, <3>2 DEF ttl
      <4> HIDE DEF q
      <4> QED
        BY <4>1, <4>2
    <3> QED
      BY <3>1, <3>2
  <2> QED
    BY <1>1, <2>1, <2>3
<1> QED
  BY <1>2, <1>3, <1>4

(* remove_expired_keys removes the keys whose entries are due, as          *)
(* remove_key would, although it has erased their entries first.           *)
DueKeys(sh, t) == {p[2] : p \in Due(sh, t)}

(* In a consistent shard the loop of remove_expired_keys is remove_key on  *)
(* the keys that are due.                                                  *)
LEMMA SweepIsRemoval ==
  ASSUME NEW sh, Consistent(sh), NEW t \in Int
  PROVE  /\ DueKeys(sh, t) \subseteq sh.map
         /\ remove_expired_keys(sh, t) = remove_keys(sh, DueKeys(sh, t), "kExpired")
<1> DEFINE K == DueKeys(sh, t)
           m == [sh EXCEPT !.expire_map = @ \ Due(sh, t),
                           !.node = [k \in Key |->
                                       IF k \in K
                                       THEN [sh.node[k] EXCEPT !.expire_it = Null]
                                       ELSE sh.node[k]]]
<1>1. sh \in Shard /\ Indexed(sh) /\ Scheduled(sh)
  BY DEF Consistent
<1>2. \A p : p \in sh.expire_map <=>
             \E j \in sh.map : sh.node[j].expire_at # Null
                               /\ p = <<sh.node[j].expire_at, j>>
  BY <1>1 DEF Scheduled
<1>3. K \subseteq sh.map
  BY <1>2 DEF DueKeys, Due
<1>4. /\ m.map = sh.map /\ m.lru = sh.lru /\ m.used = sh.used
      /\ m.evictions = sh.evictions /\ m.expired = sh.expired
      /\ m.expire_map = sh.expire_map \ Due(sh, t)
      /\ m.node = [k \in Key |-> IF k \in K
                                  THEN [sh.node[k] EXCEPT !.expire_it = Null]
                                  ELSE sh.node[k]]
  BY <1>1 DEF Shard
<1>5. remove_expired_keys(sh, t) = remove_keys(m, K, "kExpired")
  <2>1. K \cap sh.map = K
    BY <1>3
  <2> QED
    BY <2>1 DEF remove_expired_keys, DueKeys
<1> HIDE DEF m
<1>6. \A k \in K : /\ k \in Key
                    /\ m.node[k].value = sh.node[k].value
                    /\ m.node[k].expire_it = Null
  BY <1>1, <1>3, <1>4, HeldNode DEF Node
<1>7. Payload(m.node, K) = Payload(sh.node, K)
  BY <1>6, PayloadSame
<1>8. m.expire_map \ {m.node[k].expire_it : k \in K}
        = sh.expire_map \ {sh.node[k].expire_it : k \in K}
  <2>1. Due(sh, t) = {sh.node[k].expire_it : k \in K}
    <3>1. \A p : p \in Due(sh, t) <=>
                 \E j \in sh.map : /\ sh.node[j].expire_at # Null
                                  /\ p = <<sh.node[j].expire_at, j>>
                                  /\ sh.node[j].expire_at <= t
      BY <1>2 DEF Due
    <3>2. ASSUME NEW k \in K
          PROVE  /\ sh.node[k].expire_it = <<sh.node[k].expire_at, k>>
                 /\ sh.node[k].expire_it \in Due(sh, t)
      <4>1. PICK p \in Due(sh, t) : k = p[2]
        BY DEF DueKeys
      <4>2. PICK j \in sh.map : /\ sh.node[j].expire_at # Null
                                /\ p = <<sh.node[j].expire_at, j>>
        BY <3>1, <4>1
      <4>3. j = k
        BY <4>1, <4>2
      <4>4. sh.node[j].expire_it = Iterator(j, sh.node[j].expire_at)
        BY <1>1, <4>2 DEF Scheduled
      <4>5. sh.node[j].expire_it = p
        BY <4>2, <4>4 DEF Iterator
      <4> QED
        BY <4>1, <4>2, <4>3, <4>5
    <3>3. ASSUME NEW p \in Due(sh, t)
          PROVE  \E k \in K : p = sh.node[k].expire_it
      <4>1. PICK j \in sh.map : /\ sh.node[j].expire_at # Null
                                /\ p = <<sh.node[j].expire_at, j>>
        BY <3>1
      <4>2. p[2] \in K
        BY DEF DueKeys
      <4>3. p[2] = j
        BY <4>1
      <4>4. p = sh.node[j].expire_it
        BY <3>2, <4>1, <4>2, <4>3
      <4> QED
        BY <4>2, <4>3, <4>4
    <3> HIDE DEF K
    <3> QED
      BY <3>2, <3>3
  <2>2. Null \notin sh.expire_map
    BY <1>1, NullAssumption DEF Shard
  <2> QED
    BY <1>4, <1>6, <2>1, <2>2
<1>9. [k \in Key |-> IF k \in K THEN Null ELSE m.node[k]]
        = [k \in Key |-> IF k \in K THEN Null ELSE sh.node[k]]
  BY <1>4
<1>10. remove_keys(m, K, "kExpired") = remove_keys(sh, K, "kExpired")
  BY <1>4, <1>7, <1>8, <1>9 DEF remove_keys
<1> QED
  BY <1>3, <1>5, <1>10

(* The keys whose entries are due are the keys held that are expired. *)
LEMMA DueExpired ==
  ASSUME NEW sh, Consistent(sh), NEW t \in Int, NEW k \in sh.map
  PROVE  k \in DueKeys(sh, t) <=> is_expired(sh.node[k], t)
<1>1. sh.node[k].expire_at \in Int \cup {Null}
  BY HeldNode DEF Consistent, Node
<1>2. \A p : p \in sh.expire_map <=>
             \E j \in sh.map : sh.node[j].expire_at # Null
                               /\ p = <<sh.node[j].expire_at, j>>
  BY DEF Consistent, Scheduled
<1>3. k \in DueKeys(sh, t) <=> sh.node[k].expire_at # Null /\ sh.node[k].expire_at <= t
  <2>1. ASSUME k \in DueKeys(sh, t) PROVE sh.node[k].expire_at # Null /\ sh.node[k].expire_at <= t
    <3>1. PICK p \in sh.expire_map : p[1] <= t /\ p[2] = k
      BY <2>1 DEF DueKeys, Due
    <3>2. PICK j \in sh.map : sh.node[j].expire_at # Null
                              /\ p = <<sh.node[j].expire_at, j>>
      BY <1>2, <3>1
    <3> QED
      BY <3>1, <3>2
  <2>2. ASSUME sh.node[k].expire_at # Null, sh.node[k].expire_at <= t PROVE k \in DueKeys(sh, t)
    <3> DEFINE p == <<sh.node[k].expire_at, k>>
    <3>1. p \in sh.expire_map
      BY <1>2, <2>2
    <3>2. p[1] = sh.node[k].expire_at /\ p[2] = k
      OBVIOUS
    <3> HIDE DEF p
    <3>3. p \in Due(sh, t)
      BY <2>2, <3>1, <3>2 DEF Due
    <3> QED
      BY <3>2, <3>3 DEF DueKeys
  <2> QED
    BY <2>1, <2>2
<1>4. sh.node[k].expire_at # Null =>
        (sh.node[k].expire_at <= t <=> t >= sh.node[k].expire_at)
  BY <1>1
<1> QED
  BY <1>3, <1>4 DEF is_expired

(* remove_expired_keys leaves a consistent shard that holds no more. *)
LEMMA SweepConsistent ==
  ASSUME NEW sh, Consistent(sh), NEW t \in Int
  PROVE  /\ Consistent(remove_expired_keys(sh, t))
         /\ remove_expired_keys(sh, t).used <= sh.used
BY SweepIsRemoval, RemoveKeysConsistent

(* A deadline is a time point. *)
LEMMA DeadlineType ==
  ASSUME NEW t \in Int, NEW s \in Int
  PROVE  Deadline(t, s) \in Int
<1> DEFINE x == t + s * TicksPerSecond + TimeHalf
<1>1. x \in Int /\ 2 * TimeHalf \in Nat \ {0}
  BY TimeAssumption
<1>2. x % (2 * TimeHalf) \in Int
  BY <1>1
<1> QED
  BY <1>2, TimeAssumption DEF Deadline

(* A set of naturals that is not empty has a least element. *)
LEMMA Least ==
  ASSUME NEW T, T \subseteq Nat, T # {}
  PROVE  \E x \in T : \A y \in T : x <= y
<1>1. IsWellFoundedOn(OpToRel(<, Nat), Nat)
  BY NatLessThanWellFounded
<1>2. PICK x \in T : \A y \in T : ~ (<<y, x>> \in OpToRel(<, Nat))
  BY <1>1, WFMin
<1>3. \A y \in T : ~ (y < x)
  BY <1>2 DEF OpToRel
<1> QED
  BY <1>3

-----------------------------------------------------------------------------
(* The keys removed and the counters.                                      *)

(* What remove_key does to the map, the nodes and the counters. *)
LEMMA RemoveEffect ==
  ASSUME NEW sh, Consistent(sh), NEW K, K \subseteq sh.map, NEW reason
  PROVE  LET r == remove_keys(sh, K, reason)
         IN  /\ r.map = sh.map \ K
             /\ \A k \in r.map : r.node[k] = sh.node[k]
             /\ r.evictions = IF reason = "kEviction"
                              THEN sh.evictions + Cardinality(K) ELSE sh.evictions
             /\ r.expired = IF reason = "kExpired"
                            THEN sh.expired + Cardinality(K) ELSE sh.expired
             /\ IsFiniteSet(K) /\ Cardinality(K) \in Nat /\ Cardinality(sh.map) \in Nat
             /\ Cardinality(r.map) = Cardinality(sh.map) - Cardinality(K)
             /\ sh.evictions \in Nat /\ sh.expired \in Nat
<1> DEFINE r == remove_keys(sh, K, reason)
<1>1. /\ r.map = sh.map \ K
      /\ r.node = [k \in Key |-> IF k \in K THEN Null ELSE sh.node[k]]
      /\ r.evictions = IF reason = "kEviction"
                       THEN sh.evictions + Cardinality(K) ELSE sh.evictions
      /\ r.expired = IF reason = "kExpired"
                     THEN sh.expired + Cardinality(K) ELSE sh.expired
  BY DEF remove_keys
<1> HIDE DEF r
<1>2. \A k \in r.map : r.node[k] = sh.node[k]
  BY <1>1, HeldNode DEF Consistent
<1>3. /\ IsFiniteSet(K) /\ Cardinality(K) \in Nat /\ Cardinality(sh.map) \in Nat
      /\ IsFiniteSet(sh.map)
  BY FS_Subset, FS_CardinalityType DEF Consistent
<1>4. Cardinality(sh.map \ K) = Cardinality(sh.map) - Cardinality(sh.map \cap K)
  BY <1>3, FS_Difference
<1>5. sh.map \cap K = K
  OBVIOUS
<1>6. sh.evictions \in Nat /\ sh.expired \in Nat
  BY DEF Consistent, Shard
<1> QED
  BY <1>1, <1>2, <1>3, <1>4, <1>5, <1>6 DEF r

(* The number of keys a call appears to have added, once those it counted  *)
(* as evicted or expired are added to the ones left.                       *)
Grown(sh, r) == (Cardinality(r.map) + (r.evictions - sh.evictions)
                   + (r.expired - sh.expired)) - Cardinality(sh.map)

(* The keys of K that are held past their deadline at time t. *)
PastDeadline(sh, K, t) == {j \in sh.map : j \in K /\ is_expired(sh.node[j], t)}

(* The call that took sh to r has removed the keys of F, and counted them  *)
(* as expired.                                                             *)
Left(sh, r, F) == sh.map \ r.map = F /\ r.expired = sh.expired + Cardinality(F)

(* get and ttl remove their key if it is expired, and count it; else they  *)
(* remove none.                                                            *)
LEMMA LookEffect ==
  ASSUME NEW sh, Consistent(sh), NEW k \in Key, NEW t, NEW r,
         \/ /\ ~ (k \in sh.map /\ is_expired(sh.node[k], t))
            /\ r.map = sh.map /\ r.evictions = sh.evictions /\ r.expired = sh.expired
         \/ /\ k \in sh.map /\ is_expired(sh.node[k], t)
            /\ r = remove_keys(sh, {k}, "kExpired")
  PROVE  Grown(sh, r) = 0 /\ Left(sh, r, PastDeadline(sh, {k}, t))
<1>1. Cardinality(sh.map) \in Nat /\ sh.evictions \in Nat /\ sh.expired \in Nat
  BY FS_CardinalityType DEF Consistent, Shard
<1>2. CASE /\ ~ (k \in sh.map /\ is_expired(sh.node[k], t))
           /\ r.map = sh.map /\ r.evictions = sh.evictions /\ r.expired = sh.expired
  <2>1. PastDeadline(sh, {k}, t) = {} /\ Cardinality({}) = 0
    BY <1>2, FS_EmptySet DEF PastDeadline
  <2>2. Grown(sh, r) = 0
    BY <1>1, <1>2 DEF Grown
  <2> QED
    BY <1>1, <1>2, <2>1, <2>2 DEF Left
<1>3. CASE /\ k \in sh.map /\ is_expired(sh.node[k], t)
           /\ r = remove_keys(sh, {k}, "kExpired")
  <2>1. {k} \subseteq sh.map /\ Cardinality({k}) = 1
    BY <1>3, FS_Singleton
  <2>2. /\ r.map = sh.map \ {k} /\ r.evictions = sh.evictions
        /\ r.expired = sh.expired + Cardinality({k})
        /\ Cardinality(r.map) = Cardinality(sh.map) - Cardinality({k})
    BY <1>3, <2>1, RemoveEffect
  <2>3. Grown(sh, r) = 0
    BY <1>1, <2>1, <2>2 DEF Grown
  <2>4. PastDeadline(sh, {k}, t) = {k}
    BY <1>3 DEF PastDeadline
  <2> QED
    BY <1>3, <2>2, <2>3, <2>4 DEF Left
<1> QED
  BY <1>2, <1>3

(* get is such a call. *)
LEMMA GetEffect ==
  ASSUME NEW sh, Consistent(sh), NEW k \in Key, NEW t
  PROVE  LET r == get(sh, k, t).shard
         IN  Grown(sh, r) = 0 /\ Left(sh, r, PastDeadline(sh, {k}, t))
<1> DEFINE r == get(sh, k, t).shard
           m == [sh EXCEPT !.lru = MoveToFront(@, k)]
           E == k \in sh.map /\ is_expired(sh.node[k], t)
<1>1. \/ ~ E /\ r = sh
      \/ E /\ r = remove_keys(sh, {k}, "kExpired")
      \/ ~ E /\ r = m
  BY DEF get
<1>2. m.map = sh.map /\ m.evictions = sh.evictions /\ m.expired = sh.expired
  BY DEF Consistent, Shard
<1> HIDE DEF m, r
<1>3. \/ ~ E /\ r.map = sh.map /\ r.evictions = sh.evictions /\ r.expired = sh.expired
      \/ E /\ r = remove_keys(sh, {k}, "kExpired")
  BY <1>1, <1>2
<1>4. Grown(sh, r) = 0 /\ Left(sh, r, PastDeadline(sh, {k}, t))
  BY <1>3, LookEffect
<1> QED
  BY <1>4 DEF r

(* ttl is such a call, and what it reports is true when it returns. *)
LEMMA TtlEffect ==
  ASSUME NEW sh, Consistent(sh), NEW k \in Key, NEW t, NEW u \in Int
  PROVE  LET r == ttl(sh, k, t, u)
             d == r.shard.node[k].expire_at
         IN  /\ Grown(sh, r.shard) = 0
             /\ Left(sh, r.shard, PastDeadline(sh, {k}, t))
             /\ IF k \notin r.shard.map THEN r.ret = -2
                ELSE IF d = Null THEN r.ret = -1
                ELSE r.ret >= 0 /\ (r.ret > 0 => u + r.ret * TicksPerSecond <= d)
<1> DEFINE r == ttl(sh, k, t, u)
           E == k \in sh.map /\ is_expired(sh.node[k], t)
           e == sh.node[k].expire_at
<1>1. \/ ~ E /\ r.shard = sh
      \/ E /\ r.shard = remove_keys(sh, {k}, "kExpired")
  BY DEF ttl
<1>2. /\ Grown(sh, r.shard) = 0
      /\ Left(sh, r.shard, PastDeadline(sh, {k}, t))
  <2> DEFINE q == r.shard
  <2> HIDE DEF r
  <2>1. \/ ~ E /\ q.map = sh.map /\ q.evictions = sh.evictions /\ q.expired = sh.expired
        \/ E /\ q = remove_keys(sh, {k}, "kExpired")
    BY <1>1
  <2> HIDE DEF q
  <2>2. Grown(sh, q) = 0 /\ Left(sh, q, PastDeadline(sh, {k}, t))
    BY <2>1, LookEffect
  <2> QED
    BY <2>2 DEF q
<1> DEFINE True == IF k \notin r.shard.map THEN r.ret = -2
                   ELSE IF r.shard.node[k].expire_at = Null THEN r.ret = -1
                   ELSE /\ r.ret >= 0
                        /\ r.ret > 0 => u + r.ret * TicksPerSecond
                                          <= r.shard.node[k].expire_at
<1>3. CASE k \notin sh.map
  <2>1. r.shard = sh /\ r.ret = -2
    BY <1>3 DEF ttl
  <2> QED
    BY <1>2, <1>3, <2>1
<1>4. CASE E
  <2>1. r.shard = remove_keys(sh, {k}, "kExpired") /\ r.ret = -2
    BY <1>4 DEF ttl
  <2>2. k \notin r.shard.map
    BY <2>1 DEF remove_keys
  <2> QED
    BY <1>2, <2>1, <2>2
<1>5. CASE k \in sh.map /\ ~ E /\ e = Null
  <2>1. r.shard = sh /\ r.ret = -1
    BY <1>5 DEF ttl
  <2> QED
    BY <1>2, <1>5, <2>1
<1>6. CASE k \in sh.map /\ ~ E /\ e # Null
  <2> DEFINE q == (e - u) \div TicksPerSecond
  <2>1. r.shard = sh /\ r.ret = IF q > 0 THEN q ELSE 0
    BY <1>6 DEF ttl
  <2>2. e \in Int
    BY <1>6, HeldNode DEF Consistent, Node
  <2>3. q \in Int /\ q * TicksPerSecond <= e - u
    <3> HIDE DEF e
    <3> DEFINE x == e - u
    <3>1. x \in Int /\ TicksPerSecond \in Int /\ TicksPerSecond > 0
      BY <2>2, TimeAssumption
    <3> HIDE DEF x
    <3>2. /\ x \div TicksPerSecond \in Int
          /\ (x \div TicksPerSecond) * TicksPerSecond <= x
      BY <3>1
    <3> QED
      BY <3>2 DEF x
  <2> DEFINE m == q * TicksPerSecond
  <2>4. m \in Int /\ m <= e - u
    BY <2>3, TimeAssumption
  <2>5. ASSUME r.ret > 0 PROVE u + r.ret * TicksPerSecond <= e
    <3>1. r.ret = q
      <4> HIDE DEF q, r
      <4> QED
        BY <2>1, <2>3, <2>5
    <3>2. r.ret * TicksPerSecond = m
      BY <3>1
    <3> HIDE DEF m, q, e, r
    <3>3. u + m <= e
      BY <2>2, <2>4
    <3> QED
      BY <3>2, <3>3
  <2>6. r.ret >= 0
    <3> HIDE DEF q, r
    <3> QED
      BY <2>1, <2>3
  <2> HIDE DEF r
  <2>7. True
    BY <1>6, <2>1, <2>5, <2>6
  <2> QED
    BY <1>2, <2>7 DEF r
<1> QED
  BY <1>3, <1>4, <1>5, <1>6

(* del removes a key it holds and counts it nowhere. *)
LEMMA DelEffect ==
  ASSUME NEW sh, Consistent(sh), NEW k \in Key
  PROVE  LET r == del(sh, k)
         IN  /\ Grown(sh, r.shard) = IF k \in sh.map THEN -1 ELSE 0
             /\ r.shard.expired = sh.expired
             /\ r.ret = (k \in sh.map)
<1> DEFINE K == {k} \cap sh.map
           r == remove_keys(sh, K, "kDelete")
<1>1. del(sh, k).shard = r /\ del(sh, k).ret = (k \in sh.map)
  BY DEF del
<1>2. K \subseteq sh.map
  OBVIOUS
<1>3. /\ r.evictions = sh.evictions /\ r.expired = sh.expired
      /\ Cardinality(K) \in Nat /\ Cardinality(sh.map) \in Nat
      /\ Cardinality(r.map) = Cardinality(sh.map) - Cardinality(K)
      /\ sh.evictions \in Nat /\ sh.expired \in Nat
  <2> HIDE DEF K
  <2> QED
    BY <1>2, RemoveEffect
<1>4. CASE k \in sh.map
  <2>1. K = {k}
    BY <1>4
  <2>2. Cardinality(K) = 1
    BY <2>1, FS_Singleton
  <2> HIDE DEF r, K
  <2> QED
    BY <1>1, <1>3, <1>4, <2>2 DEF Grown
<1>5. CASE k \notin sh.map
  <2>1. K = {}
    BY <1>5
  <2>2. Cardinality(K) = 0
    BY <2>1, FS_EmptySet
  <2> HIDE DEF r, K
  <2> QED
    BY <1>1, <1>3, <1>5, <2>2 DEF Grown
<1> QED
  BY <1>4, <1>5

(* expire removes nothing. *)
LEMMA ExpireEffect ==
  ASSUME NEW sh, Consistent(sh), NEW k \in Key, NEW d
  PROVE  LET r == expire(sh, k, d).shard
         IN  r.map = sh.map /\ r.expired = sh.expired /\ Grown(sh, r) = 0
<1> DEFINE r == expire(sh, k, d).shard
           n == [sh.node EXCEPT ![k] = [value     |-> sh.node[k].value,
                                        expire_at |-> d,
                                        expire_it |-> Iterator(k, d)]]
           m == Reschedule(sh, k, d)
           e == [sh EXCEPT !.node = n, !.expire_map = m]
<1>1. r = sh \/ r = e
  BY DEF expire
<1> HIDE DEF n, m
<1>2. e.map = sh.map /\ e.expired = sh.expired /\ e.evictions = sh.evictions
  BY DEF Consistent, Shard
<1> HIDE DEF r, e
<1>3. r.map = sh.map /\ r.expired = sh.expired /\ r.evictions = sh.evictions
  BY <1>1, <1>2
<1>4. Cardinality(sh.map) \in Nat /\ sh.evictions \in Nat /\ sh.expired \in Nat
  BY FS_CardinalityType DEF Consistent, Shard
<1>5. Grown(sh, r) = 0
  BY <1>3, <1>4 DEF Grown
<1> QED
  BY <1>3, <1>5 DEF r

(* remove_expired_keys removes the expired keys, all of them, and counts   *)
(* them.                                                                   *)
LEMMA SweepEffect ==
  ASSUME NEW sh, Consistent(sh), NEW t \in Int
  PROVE  LET r == remove_expired_keys(sh, t)
         IN  Grown(sh, r) = 0 /\ Left(sh, r, PastDeadline(sh, sh.map, t))
<1> DEFINE D == DueKeys(sh, t)
           r == remove_keys(sh, D, "kExpired")
<1>1. D \subseteq sh.map /\ remove_expired_keys(sh, t) = r
  BY SweepIsRemoval
<1>2. D = PastDeadline(sh, sh.map, t)
  BY <1>1, DueExpired DEF PastDeadline
<1> HIDE DEF D
<1>3. /\ r.map = sh.map \ D /\ \A k \in r.map : r.node[k] = sh.node[k]
      /\ r.evictions = sh.evictions /\ r.expired = sh.expired + Cardinality(D)
      /\ Cardinality(D) \in Nat /\ Cardinality(sh.map) \in Nat
      /\ Cardinality(r.map) = Cardinality(sh.map) - Cardinality(D)
      /\ sh.evictions \in Nat /\ sh.expired \in Nat
  BY <1>1, RemoveEffect
<1> HIDE DEF r
<1>4. Grown(sh, r) = 0
  BY <1>3 DEF Grown
<1>5. Left(sh, r, D)
  BY <1>1, <1>3 DEF Left
<1> QED
  BY <1>1, <1>2, <1>4, <1>5

(* set adds its key, and counts the ones it evicts. *)
LEMMA SetEffect ==
  ASSUME NEW sh, Consistent(sh), NEW k \in Key, NEW v \in Value,
         NEW d \in Int \cup {Null}
  PROVE  LET st == Store(sh, k, v, d)
             r  == set(sh, k, v, d)
         IN  /\ Consistent(st) /\ Evicted(st) \subseteq st.map
             /\ r = remove_keys(st, Evicted(st), "kEviction")
             /\ st.map = sh.map \cup {k} /\ r.map = st.map \ Evicted(st)
             /\ \A j \in sh.map \ {k} : st.node[j] = sh.node[j]
             /\ r.evictions = sh.evictions + Cardinality(Evicted(st))
             /\ r.expired = sh.expired
             /\ Grown(sh, r) = IF k \in sh.map THEN 0 ELSE 1
<1> DEFINE st == Store(sh, k, v, d)
           E == Evicted(st)
           r == remove_keys(st, E, "kEviction")
<1>1. Consistent(st)
  BY StoreConsistent
<1>a. set(sh, k, v, d) = r
  BY DEF set, enforce_max_memory
<1>2. /\ st.map = sh.map \cup {k} /\ st.evictions = sh.evictions
      /\ st.expired = sh.expired
      /\ st.node = [sh.node EXCEPT ![k] = [value |-> v, expire_at |-> d,
                                           expire_it |-> Iterator(k, d)]]
  BY DEF Store
<1> HIDE DEF st
<1>3. E \subseteq st.map
  BY <1>1 DEF Evicted, Consistent, Indexed
<1> HIDE DEF E
<1>4. /\ r.map = st.map \ E
      /\ r.evictions = st.evictions + Cardinality(E) /\ r.expired = st.expired
      /\ Cardinality(E) \in Nat /\ Cardinality(st.map) \in Nat
      /\ Cardinality(r.map) = Cardinality(st.map) - Cardinality(E)
      /\ st.evictions \in Nat /\ st.expired \in Nat
  BY <1>1, <1>3, RemoveEffect
<1> HIDE DEF r
<1>5. \A j \in sh.map \ {k} : st.node[j] = sh.node[j]
  <2>1. sh.node \in [Key -> Node \cup {Null}] /\ sh.map \subseteq Key
    BY DEF Consistent, Shard
  <2> QED
    BY <1>2, <2>1
<1>6. /\ Cardinality(sh.map) \in Nat
      /\ Cardinality(st.map) = Cardinality(sh.map) + (IF k \in sh.map THEN 0 ELSE 1)
  <2>1. IsFiniteSet(sh.map)
    BY DEF Consistent
  <2>2. /\ Cardinality(sh.map) \in Nat
        /\ Cardinality(sh.map \cup {k})
             = IF k \in sh.map THEN Cardinality(sh.map) ELSE Cardinality(sh.map) + 1
    BY <2>1, FS_AddElement, FS_CardinalityType
  <2> QED
    BY <1>2, <2>2
<1>7. Grown(sh, r) = IF k \in sh.map THEN 0 ELSE 1
  BY <1>2, <1>4, <1>6 DEF Grown
<1>8. r = remove_keys(st, E, "kEviction")
  BY DEF r
<1>9. /\ r.evictions = sh.evictions + Cardinality(E) /\ r.expired = sh.expired
      /\ set(sh, k, v, d) = r
  BY <1>2, <1>4, <1>a
<1> QED
  BY <1>1, <1>2, <1>3, <1>4, <1>5, <1>7, <1>8, <1>9 DEF st, E
=============================================================================
