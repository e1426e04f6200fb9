--------------------------- MODULE AbstractCache ---------------------------
(***************************************************************************)
(* What a shard promises its callers, without lists, iterators or counters:*)
(* a dictionary whose entries may carry a deadline.  Reading never returns *)
(* an entry past its deadline; a write may drop entries, the one it writes *)
(* included, but only when the entries do not fit, and leaves entries that *)
(* do.  An entry past its deadline stays until something looks at it: it   *)
(* can be deleted and given a new deadline.                                *)
(***************************************************************************)
EXTENDS Integers

CONSTANTS
  Key, Value, Seconds, Horizon, TicksPerSecond, Null,
  Deadline(_, _),    \* the deadline for an expiry set now
  Fits(_)            \* whether a dictionary is within the memory budget

VARIABLES cache, now, reply

vars == <<cache, now, reply>>

Init == /\ cache = [k \in Key |-> Null]
        /\ now = 0
        /\ reply = [op |-> "none", key |-> Null, arg |-> Null, ret |-> Null, at |-> 0]

Present(k) == cache[k] # Null

Live(k) == Present(k) /\ (cache[k].expire_at = Null \/ now < cache[k].expire_at)

Without(c, K) == [k \in Key |-> IF k \in K THEN Null ELSE c[k]]

(* Looking at k drops it when it is past its deadline. *)
LookedAt(k) == IF Live(k) THEN cache ELSE Without(cache, {k})

Answer(op, k, arg, ret) ==
  reply' = [op |-> op, key |-> k, arg |-> arg, ret |-> ret, at |-> now]

Get(k) == /\ Answer("get", k, Null, IF Live(k) THEN cache[k].value ELSE Null)
          /\ cache' = LookedAt(k)
          /\ UNCHANGED now

Set(k, v, s) ==
  LET written == [cache EXCEPT ![k] =
                    [value     |-> v,
                     expire_at |-> IF s = Null THEN Null ELSE Deadline(now, s)]]
  IN  /\ Answer("set", k, s, Null)
      /\ UNCHANGED now
      /\ IF Fits(written)
         THEN cache' = written
         ELSE \E dropped \in SUBSET Key : cache' = Without(written, dropped)
      /\ Fits(cache')

Expire(k, s) ==
  /\ cache' = IF Present(k) THEN [cache EXCEPT ![k].expire_at = Deadline(now, s)]
                            ELSE cache
  /\ Answer("expire", k, s, IF Present(k) THEN 1 ELSE 0)
  /\ UNCHANGED now

(* The remaining time is what is left at a moment u within the call, in    *)
(* whole seconds.                                                          *)
Remaining(k, u) ==
  LET left == (cache[k].expire_at - u) \div TicksPerSecond
  IN  IF left > 0 THEN left ELSE 0

Ttl(k) ==
  \E u \in now .. Horizon :
    /\ cache' = LookedAt(k)
    /\ now' = u
    /\ Answer("ttl", k, Null, IF ~ Live(k) THEN -2
                              ELSE IF cache[k].expire_at = Null THEN -1
                              ELSE Remaining(k, u))

Del(k) == /\ cache' = Without(cache, {k})
          /\ Answer("del", k, Null, IF Present(k) THEN 1 ELSE 0)
          /\ UNCHANGED now

Sweep == /\ cache' = Without(cache, {k \in Key : ~ Live(k)})
         /\ Answer("remove_expired_keys", Null, Null, Null)
         /\ UNCHANGED now

Tick == now < Horizon /\ now' = now + 1 /\ UNCHANGED <<cache, reply>>

Next == \/ \E k \in Key : \/ Get(k)
                          \/ \E v \in Value, s \in Seconds \cup {Null} : Set(k, v, s)
                          \/ \E s \in Seconds : Expire(k, s)
                          \/ Ttl(k)
                          \/ Del(k)
        \/ Sweep
        \/ Tick

Spec == Init /\ [][Next]_vars
=============================================================================
