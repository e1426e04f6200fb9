--------------------------- MODULE LruShardLoops ---------------------------
(***************************************************************************)
(* remove_key, evict_lru and the two loops of class LruShard, one          *)
(* iteration at a time as they are written.  LruShardOps gives the loops   *)
(* by what they remove; here the two forms are compared in every state a   *)
(* shard can reach.                                                        *)
(***************************************************************************)
EXTENDS LruShard

(* expire_map_.erase(it) for the entry it points to.  For an iterator that *)
(* is not valid any more the result is no index at all.                    *)
Erased(index, it) == IF it \in index THEN index \ {it} ELSE {Null}

remove_key(sh, k, reason) ==
  LET n       == sh.node[k]
      removed == payload_bytes(k, n.value)
  IN  [map        |-> sh.map \ {k},
       lru        |-> Unlink(sh.lru, {k}),
       node       |-> [sh.node EXCEPT ![k] = Null],
       expire_map |-> IF n.expire_it # Null THEN Erased(sh.expire_map, n.expire_it)
                                            ELSE sh.expire_map,
       used       |-> IF sh.used >= removed THEN sh.used - removed ELSE 0,
       evictions  |-> sh.evictions + Flag(reason = "kEviction"),
       expired    |-> sh.expired + Flag(reason = "kExpired")]

(* The key at the back of the list goes; were it not in map_, only its     *)
(* list node would.                                                        *)
evict_lru(sh) ==
  LET back == CHOOSE k \in Listed(sh.lru) : Behind(sh.lru, k) = {}
  IN  IF back \in sh.map
      THEN remove_key(sh, back, "kEviction")
      ELSE [sh EXCEPT !.lru = Unlink(@, {back}), !.node[back] = Null]

(* One turn of the loop, none once its condition is false. *)
EnforceTurn(sh) ==
  IF sh.used > MaxMemoryBytes /\ Listed(sh.lru) # {} THEN evict_lru(sh) ELSE sh

(* A turn takes a node off the list, so there are no more than nodes. *)
EnforceLoop(sh) ==
  LET turns == Cardinality(Listed(sh.lru))
      after[n \in 0 .. turns] == IF n = 0 THEN sh ELSE EnforceTurn(after[n - 1])
  IN  after[turns]

(* Fault: the iterator to the erased entry is kept, and followed. *)
SweepEntry_KeepsIterator(sh, p) ==
  remove_key([sh EXCEPT !.expire_map = Erased(@, p)], p[2], "kExpired")

(* One iteration for the entry p at the front of expire_map_. *)
SweepEntry(sh, p) ==
  LET k      == p[2]
      erased == [sh EXCEPT !.expire_map = Erased(@, p), !.node[k].expire_it = Null]
  IN  IF k \in sh.map THEN remove_key(erased, k, "kExpired") ELSE erased

(* The shards a turn can leave: entries of equal deadline are in the order *)
(* of their insertion, which the model does not keep.                      *)
SweepTurn(sh, t) ==
  LET front == {p \in sh.expire_map : \A q \in sh.expire_map : p[1] <= q[1]}
  IN  IF \E p \in front : p[1] <= t THEN {SweepEntry(sh, p) : p \in front} ELSE {sh}

(* A turn takes an entry off the index, so there are no more than entries. *)
SweepLoop(sh, t) ==
  LET turns == Cardinality(sh.expire_map)
      after[n \in 0 .. turns] ==
        IF n = 0 THEN {sh} ELSE UNION {SweepTurn(s, t) : s \in after[n - 1]}
  IN  after[turns]

-----------------------------------------------------------------------------
(* The loops, iteration by iteration, end with the shards that             *)
(* enforce_max_memory and remove_expired_keys give: the first, after any   *)
(* set that can follow, stops at the budget and takes the back of the list *)
(* each time; the second, at any time and whatever the order of equal      *)
(* deadlines, skips no due entry although it erases while iterating, and   *)
(* no entry is erased twice or through an iterator to another.  The        *)
(* branches for a listed or scheduled key that map_ lacks are never taken. *)
LoopsAgree ==
  /\ \A k \in Key, v \in Value, d \in {Null, now} :
       LET sh == Store(shard, k, v, d)
       IN  EnforceLoop(sh) = enforce_max_memory(sh)
  /\ \A t \in now .. Horizon :
       SweepLoop(shard, t) = {remove_expired_keys(shard, t)}
=============================================================================
