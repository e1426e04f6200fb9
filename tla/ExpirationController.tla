------------------------ MODULE ExpirationController ------------------------
(***************************************************************************)
(* A worker's thread: the coroutine ExpirationController::cleaning_loop    *)
(* and the calls clients make on the same shard.                           *)
(*                                                                         *)
(* The io_context of a worker has one thread, so a client's call runs only *)
(* while the coroutine is suspended in async_wait; between two suspensions *)
(* the coroutine runs alone, but the clock does not stop for it.           *)
(***************************************************************************)
EXTENDS LruShardOps

CONSTANTS
  Seconds,        \* arguments of EXPIRE and SET EX
  ActiveUntil,    \* bound: the last time at which a deadline may be set
  Horizon,        \* bound: the last time point of the clock
  MaxRemovals     \* bound: no set once this many removals are counted

IdlePeriod == 3 * TicksPerSecond

(* The longest the coroutine can sleep: an idle period or the most distant *)
(* deadline.                                                               *)
Sleeps == {IdlePeriod} \cup {s * TicksPerSecond : s \in Seconds}

LongestSleep == CHOOSE m \in Sleeps : \A n \in Sleeps : n <= m

(* Deadlines do not wrap around, and every one of them comes before the    *)
(* clock stops.                                                            *)
ASSUME ControllerAssumption ==
  /\ Seconds \subseteq Nat /\ Null \notin Seconds
  /\ ActiveUntil \in Nat /\ MaxRemovals \in Nat /\ Horizon \in Nat
  /\ Horizon < TimeHalf
  /\ \A n \in Sleeps : ActiveUntil + n <= Horizon

VARIABLES
  shard,    \* cache_
  now,      \* steady_clock::now()
  pc,       \* where the coroutine is: at the head of its loop, suspended in
            \* async_wait, or past the branch that needs no wait
  timer     \* the expiry of the steady_timer

vars == <<shard, now, pc, timer>>

Init == shard = EmptyShard /\ now = 0 /\ pc = "loop" /\ timer = Null

-----------------------------------------------------------------------------
(* cleaning_loop.                                                          *)

(* Fault: the idle wait is twice as long. *)
Sleep_LongIdle(next) ==
  \/ next = Null /\ pc' = "waiting" /\ timer' = now + 2 * IdlePeriod
  \/ next # Null /\ next > now /\ pc' = "waiting" /\ timer' = next
  \/ next # Null /\ next <= now /\ pc' = "overdue" /\ UNCHANGED timer

(* Arm the timer and suspend, or go on at once if the deadline has passed. *)
Sleep(next) ==
  \/ next = Null /\ pc' = "waiting" /\ timer' = now + IdlePeriod
  \/ next # Null /\ next > now /\ pc' = "waiting" /\ timer' = next
  \/ next # Null /\ next <= now /\ pc' = "overdue" /\ UNCHANGED timer

CheckNext == /\ pc = "loop"
             /\ Sleep(get_next_expire_time(shard))
             /\ UNCHANGED <<shard, now>>

Awake_Never == pc = "overdue"    \* fault: the completion is lost

(* The wait completes at or after the timer's expiry. *)
Awake == pc = "overdue" \/ (pc = "waiting" /\ now >= timer)

(* Fault: the pass removes nothing. *)
Clean_Idle == Awake /\ pc' = "loop" /\ UNCHANGED <<shard, now, timer>>

Clean == /\ Awake
         /\ shard' = remove_expired_keys(shard, now)
         /\ pc' = "loop"
         /\ UNCHANGED <<now, timer>>

-----------------------------------------------------------------------------
(* Clients' calls on the worker's thread.                                  *)

Call(sh) == pc = "waiting" /\ shard' = sh /\ UNCHANGED <<now, pc, timer>>

Set(k, v, s) ==
  /\ shard.evictions + shard.expired < MaxRemovals
  /\ now <= ActiveUntil
  /\ Call(set(shard, k, v, IF s = Null THEN Null ELSE Deadline(now, s)))

Expire(k, s) == now <= ActiveUntil /\ Call(expire(shard, k, Deadline(now, s)).shard)

(* GET and TTL leave the same keys; only GET moves the key it finds. *)
Lookup(k) == Call(get(shard, k, now).shard) \/ Call(ttl(shard, k, now, now).shard)

Del(k) == Call(del(shard, k).shard)

Tick == now < Horizon /\ now' = now + 1 /\ UNCHANGED <<shard, pc, timer>>

Next == \/ CheckNext
        \/ Clean
        \/ \E k \in Key : \/ \E v \in Value, s \in Seconds \cup {Null} : Set(k, v, s)
                          \/ \E s \in Seconds : Expire(k, s)
                          \/ Lookup(k)
                          \/ Del(k)
        \/ Tick

(* Time passes, and the io_context resumes the coroutine when it is ready: *)
(* handlers are run in the order in which they became ready.  Clients need *)
(* not call.                                                               *)
Fairness == WF_vars(Tick) /\ WF_vars(CheckNext) /\ WF_vars(Clean)

Spec == Init /\ [][Next]_vars /\ Fairness

-----------------------------------------------------------------------------
(* A pass that skips the wait finds something to remove: the loop never    *)
(* spins.  Nothing runs on the shard between reading the first deadline    *)
(* and removing what is due.                                               *)
NoEmptyPass == pc = "overdue" => Due(shard, now) # {}

(* A timer armed for an older deadline is not rearmed when an earlier one  *)
(* is set, so a key can outlive its deadline while the coroutine sleeps,   *)
(* but by no more than one longest sleep.                                  *)
BoundedLateness ==
  pc = "waiting" => \A p \in shard.expire_map : timer <= p[1] + LongestSleep

(* A key past its deadline leaves the shard or is given a new deadline,    *)
(* whether or not a client ever asks for it again.                         *)
Expired(k) == k \in shard.map /\ is_expired(shard.node[k], now)

ExpiredKeysGo == \A k \in Key : Expired(k) ~> ~ Expired(k)

(* Once awake, the coroutine always gives the thread back to the clients.  *)
CleanerYields == (pc # "waiting") ~> (pc = "waiting")
=============================================================================
