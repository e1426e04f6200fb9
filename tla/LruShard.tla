------------------------------ MODULE LruShard ------------------------------
(***************************************************************************)
(* One LruShard object under an arbitrary sequence of calls of its public  *)
(* methods, with the clock advancing between and within them.  All calls   *)
(* on a shard are made from its worker's thread, so each is one step.      *)
(***************************************************************************)
EXTENDS LruShardOps

CONSTANTS
  Seconds,       \* the arguments of expire and of set's expire_seconds
  Horizon,       \* bound: the last time point of the clock
  MaxRemovals    \* bound: evictions and expirations counted in a behaviour

ASSUME HorizonAssumption == Horizon \in Nat /\ Horizon < TimeHalf
ASSUME SecondsAssumption == Seconds \subseteq Int /\ Null \notin Seconds
ASSUME MaxRemovalsAssumption == MaxRemovals \in Nat

VARIABLES
  shard,    \* the object
  now,      \* steady_clock::now()
  reply     \* the last call: method, key, expiry argument, result and when it began

vars == <<shard, now, reply>>

Op == {"none", "get", "set", "expire", "ttl", "del", "remove_expired_keys"}

Reply == [op  : Op,
          key : Key \cup {Null},
          arg : Seconds \cup {Null},
          ret : Value \cup {Null} \cup Int,
          at  : 0 .. Horizon]

Init == /\ shard = EmptyShard
        /\ now = 0
        /\ reply = [op |-> "none", key |-> Null, arg |-> Null, ret |-> Null, at |-> 0]

Flag(b) == IF b THEN 1 ELSE 0    \* a bool result

(* A call leaves the shard as sh and is answered with ret. *)
Return(sh, op, k, arg, ret) ==
  /\ sh.evictions + sh.expired <= MaxRemovals
  /\ shard' = sh
  /\ reply' = [op |-> op, key |-> k, arg |-> arg, ret |-> ret, at |-> now]

Get(k) == LET r == get(shard, k, now)
          IN  Return(r.shard, "get", k, Null, r.ret) /\ UNCHANGED now

Set(k, v, s) ==
  LET d == IF s = Null THEN Null ELSE Deadline(now, s)
  IN  Return(set(shard, k, v, d), "set", k, s, Null) /\ UNCHANGED now

Expire(k, s) == LET r == expire(shard, k, Deadline(now, s))
                IN  Return(r.shard, "expire", k, s, Flag(r.ret)) /\ UNCHANGED now

(* The clock may advance between ttl's two readings of it. *)
Ttl(k) == \E u \in now .. Horizon :
            LET r == ttl(shard, k, now, u)
            IN  Return(r.shard, "ttl", k, Null, r.ret) /\ now' = u

Del(k) == LET r == del(shard, k)
          IN  Return(r.shard, "del", k, Null, Flag(r.ret)) /\ UNCHANGED now

(* Called by the cleaner of module ExpirationController. *)
RemoveExpiredKeys ==
  /\ Return(remove_expired_keys(shard, now), "remove_expired_keys",
            Null, Null, Null)
  /\ UNCHANGED now

Tick == now < Horizon /\ now' = now + 1 /\ UNCHANGED <<shard, reply>>

Next == \/ \E k \in Key : \/ Get(k)
                          \/ \E v \in Value, s \in Seconds \cup {Null} : Set(k, v, s)
                          \/ \E s \in Seconds : Expire(k, s)
                          \/ Ttl(k)
                          \/ Del(k)
        \/ RemoveExpiredKeys
        \/ Tick

Spec == Init /\ [][Next]_vars

-----------------------------------------------------------------------------
(* Invariants.                                                             *)

(* The fields, the clock and the reply are of their types. *)
TypeOK == shard \in Shard /\ now \in 0 .. Horizon /\ reply \in Reply

(* map_ and lru_list_ hold the same keys, every key in map_ has its node   *)
(* and the list orders them: neither index has an entry the other lacks,   *)
(* so no iterator that get, set, del or evict_lru follows is dangling.     *)
IndexesAgree == Indexed(shard)

(* expire_map_ has exactly one entry per key with a deadline, at that      *)
(* deadline, and the node's expire_it points to it: set, expire and        *)
(* remove_key never erase through a stale iterator, and                    *)
(* remove_expired_keys never follows an entry to a destroyed node.         *)
ExpireIndexExact == Scheduled(shard)

(* used_payload_bytes_ is the number of bytes of the keys and values held, *)
(* whatever sequence of overwrites, deletions, expirations and evictions   *)
(* led here: the clamps at zero in remove_key and set never apply.         *)
MemoryAccounting == Accounted(shard)

(* When a call returns, the bytes held are within max_memory_bytes_.       *)
WithinBudget == Payload(shard.node, shard.map) <= MaxMemoryBytes

-----------------------------------------------------------------------------
(* Action properties.                                                      *)

Removed == shard.map \ shard'.map

(* Only the least recently used keys are evicted, and no more than needed: *)
(* after a set that evicts, every survivor was used more recently than     *)
(* every evicted key, and the last key evicted, together with the          *)
(* survivors, did not fit.                                                 *)
LruStep ==
  reply'.op = "set" /\ shard'.evictions # shard.evictions =>
    LET before == MoveToFront(shard.lru, reply'.key)
        gone   == Listed(before) \ shard'.map
    IN  /\ \A a \in shard'.map, b \in gone : <<a, b>> \in before
        /\ \/ reply'.key \in gone
           \/ \E b \in gone :
                /\ Behind(before, b) = gone \ {b}
                /\ Payload(shard'.node, shard'.map)
                     + payload_bytes(b, shard.node[b].value) > MaxMemoryBytes

LruEviction == [][LruStep]_vars

(* The key a get has just returned is the last to go: if the next call is  *)
(* a set of another key that evicts it, every other key is evicted before. *)
ReadProtects ==
  [][ reply.op = "get" /\ reply.ret # Null /\ reply'.op = "set"
        /\ reply'.key # reply.key /\ reply.key \notin shard'.map
      => shard'.map \subseteq {reply'.key} ]_vars

(* Every key that appears was set and every key that disappears is counted *)
(* once: by del's result, by evictions_ or by expired_.  A set that evicts *)
(* the very key it inserts counts it too.                                  *)
KeysBalance ==
  [][ Cardinality(shard'.map)
        + (shard'.evictions - shard.evictions)
        + (shard'.expired - shard.expired)
        + Flag(reply'.op = "del" /\ reply'.ret = 1)
      = Cardinality(shard.map)
        + Flag(reply'.op = "set" /\ reply'.key \notin shard.map)
    ]_<<shard, reply>>

(* What ttl reports is true of the shard it leaves, although it reads the  *)
(* clock twice: -2 of a key that is not held, -1 of one without a deadline *)
(* and no other negative number, and a remaining time is not more than     *)
(* what is left when it returns, also when the key expires between the     *)
(* readings.                                                               *)
TtlStep ==
  reply'.op = "ttl" =>
    LET ret == reply'.ret
        d   == shard'.node[reply'.key].expire_at
    IN  IF reply'.key \notin shard'.map THEN ret = -2
        ELSE IF d = Null THEN ret = -1
        ELSE ret >= 0 /\ (ret > 0 => now' + ret * TicksPerSecond <= d)

TtlNeverOverstates == [][TtlStep]_<<shard, reply>>

(* The keys held past their deadline that the call looks at: get and ttl   *)
(* at their own, the cleaner at all.                                       *)
FoundExpired ==
  {k \in shard.map : /\ is_expired(shard.node[k], now)
                     /\ \/ reply'.op \in {"get", "ttl"} /\ reply'.key = k
                        \/ reply'.op = "remove_expired_keys"}

(* Every key that get, ttl or the cleaner finds expired has left the shard *)
(* when the call returns, whether or not another has; these calls remove   *)
(* no other key, and expired_ counts these keys and no others.  A deadline *)
(* equal to the time of the call is past for all three.                    *)
ExpiredStep ==
  /\ reply'.op \in {"get", "ttl", "remove_expired_keys"} => Removed = FoundExpired
  /\ shard'.expired = shard.expired + Cardinality(FoundExpired)

ExpiredLeave == [][ExpiredStep]_<<shard, reply>>

-----------------------------------------------------------------------------
(* The promise to callers.                                                 *)

Contents == [k \in Key |-> IF k \in shard.map
                           THEN [value     |-> shard.node[k].value,
                                 expire_at |-> shard.node[k].expire_at]
                           ELSE Null]

ContentsFit(c) == Payload(c, {k \in Key : c[k] # Null}) <= MaxMemoryBytes

(* Null, a key without an entry, is not an entry. *)
ASSUME EntryAssumption == Null \notin [value : Value, expire_at : Int \cup {Null}]

Abstract == INSTANCE AbstractCache WITH cache <- Contents, Fits <- ContentsFit

(* A shard implements the dictionary: whatever the lists, iterators and    *)
(* counters hold, every result and every key kept or dropped is one the    *)
(* dictionary allows.                                                      *)
ImplementsCache == Abstract!Spec

-----------------------------------------------------------------------------
(* What the repository says of expire.  The code does not keep to it.      *)

(* include/lruShard.hpp: "Set expiration time in seconds from now".        *)
SecondsFromNow ==
  [][ reply'.op = "expire" /\ reply'.ret = 1
        => shard'.node[reply'.key].expire_at
             = now + reply'.arg * TicksPerSecond ]_<<shard, reply>>

(* tests/lruCacheTest.cpp: "Expire should return false for non-existent    *)
(* key", which a key past its deadline is to get and ttl.                  *)
ExpireNeedsExisting ==
  [][ reply'.op = "expire" /\ reply'.ret = 1
        => ~ is_expired(shard.node[reply'.key], now) ]_<<shard, reply>>
=============================================================================
