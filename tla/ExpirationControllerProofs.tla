--------------------- MODULE ExpirationControllerProofs ---------------------
(***************************************************************************)
(* The safety of the cleaner, for every set of keys and values and every   *)
(* choice of expiry times.                                                 *)
(*                                                                         *)
(* BoundedLateness is not inductive: it must be known how far ahead of the *)
(* clock the deadlines and an armed timer can be.  A deadline is set at    *)
(* most one longest sleep ahead of the clock of that moment, and the clock *)
(* only advances; a timer is armed for an idle period or for the first of  *)
(* the deadlines.                                                          *)
(***************************************************************************)
EXTENDS ExpirationController, LruShardLemmas

(* A deadline that can be pending when the clock is at t. *)
Pending(t) == 0 .. (t + LongestSleep)

Deadlines == \A p \in shard.expire_map : p[1] \in Pending(now)

Armed == pc = "waiting" => /\ timer \in Int
                           /\ timer <= now + LongestSleep
                           /\ BoundedLateness

IInv == /\ Consistent(shard)
        /\ now \in 0 .. Horizon
        /\ pc \in {"loop", "waiting", "overdue"}
        /\ Deadlines
        /\ Armed
        /\ NoEmptyPass

-----------------------------------------------------------------------------
(* Time.                                                                   *)

(* The periods the coroutine can sleep are natural numbers. *)
LEMMA SleepsType == Sleeps \subseteq Nat /\ IdlePeriod \in Sleeps
<1>1. IdlePeriod \in Nat
  BY TimeAssumption DEF IdlePeriod
<1>2. \A s \in Seconds : s * TicksPerSecond \in Nat
  BY TimeAssumption, ControllerAssumption
<1> QED
  BY <1>1, <1>2 DEF Sleeps

(* There is a longest sleep: they all end before the clock stops. *)
LEMMA Longest ==
  LongestSleep \in Nat /\ \A n \in Sleeps : n <= LongestSleep
<1> DEFINE T == {Horizon - n : n \in Sleeps}
<1>1. \A n \in Sleeps : n \in Nat /\ n <= Horizon
  BY SleepsType, ControllerAssumption
<1>2. T \subseteq Nat /\ T # {}
  BY <1>1, SleepsType, ControllerAssumption
<1> HIDE DEF T
<1>3. PICK x \in T : \A y \in T : x <= y
  BY <1>2, Least
<1>4. PICK m \in Sleeps : x = Horizon - m
  BY <1>3 DEF T
<1>5. ASSUME NEW n \in Sleeps PROVE n <= m
  <2>1. Horizon - n \in T
    BY DEF T
  <2>2. Horizon - m <= Horizon - n
    BY <1>3, <1>4, <2>1
  <2> QED
    BY <1>1, <2>2, ControllerAssumption
<1>6. LongestSleep \in Sleeps /\ \A n \in Sleeps : n <= LongestSleep
  BY <1>5 DEF LongestSleep
<1> QED
  BY <1>6, SleepsType

(* A deadline set while the clients are active does not wrap around. *)
LEMMA DeadlineAhead ==
  ASSUME NEW t \in Nat, t <= ActiveUntil, NEW s \in Seconds
  PROVE  Deadline(t, s) \in t .. (t + LongestSleep)
<1> DEFINE d == s * TicksPerSecond
           x == t + d + TimeHalf
<1>1. d \in Sleeps
  BY DEF Sleeps
<1>2. d \in Nat /\ d <= LongestSleep /\ ActiveUntil + d <= Horizon
  BY <1>1, SleepsType, Longest, ControllerAssumption
<1>3. Deadline(t, s) = (x % (2 * TimeHalf)) - TimeHalf
  BY DEF Deadline
<1> HIDE DEF d
<1>4. x \in Nat /\ x < 2 * TimeHalf
  BY <1>2, ControllerAssumption, TimeAssumption
<1>5. x % (2 * TimeHalf) = x
  <2> HIDE DEF x
  <2> DEFINE m == 2 * TimeHalf
  <2>1. m \in Nat /\ m > 0 /\ x < m
    BY <1>4, TimeAssumption
  <2> HIDE DEF m
  <2>2. x % m = x
    BY <1>4, <2>1
  <2> QED
    BY <2>2 DEF m
<1>6. Deadline(t, s) = t + d
  BY <1>2, <1>3, <1>5, TimeAssumption
<1> QED
  BY <1>2, <1>6, Longest

-----------------------------------------------------------------------------
(* What the methods do to expire_map_.                                     *)

(* Removing keys sets no deadline. *)
LEMMA RemovalDeadlines ==
  ASSUME NEW sh, NEW K, NEW reason
  PROVE  remove_keys(sh, K, reason).expire_map \subseteq sh.expire_map
BY DEF remove_keys

(* Neither reading nor deleting sets a deadline. *)
LEMMA QuietDeadlines ==
  ASSUME NEW sh, Consistent(sh), NEW k, NEW t, NEW u
  PROVE  /\ get(sh, k, t).shard.expire_map \subseteq sh.expire_map
         /\ ttl(sh, k, t, u).shard.expire_map \subseteq sh.expire_map
         /\ del(sh, k).shard.expire_map \subseteq sh.expire_map
<1>1. get(sh, k, t).shard.expire_map \subseteq sh.expire_map
  <2>1. [sh EXCEPT !.lru = MoveToFront(@, k)].expire_map = sh.expire_map
    BY DEF Consistent, Shard
  <2> QED
    BY <2>1, RemovalDeadlines DEF get
<1>2. ttl(sh, k, t, u).shard.expire_map \subseteq sh.expire_map
  BY RemovalDeadlines DEF ttl
<1>3. del(sh, k).shard.expire_map \subseteq sh.expire_map
  BY RemovalDeadlines DEF del
<1> QED
  BY <1>1, <1>2, <1>3

(* set and expire set one deadline. *)
Scheduling(k, d) == IF d = Null THEN {} ELSE {<<d, k>>}

(* set and expire add at most that one entry to expire_map_. *)
LEMMA NewDeadline ==
  ASSUME NEW sh, Consistent(sh), NEW k, NEW d
  PROVE  /\ \A v : set(sh, k, v, d).expire_map
                     \subseteq sh.expire_map \cup Scheduling(k, d)
         /\ expire(sh, k, d).shard.expire_map
              \subseteq sh.expire_map \cup Scheduling(k, d)
<1>1. Reschedule(sh, k, d) \subseteq sh.expire_map \cup Scheduling(k, d)
  BY DEF Reschedule, Scheduling
<1>2. ASSUME NEW v PROVE set(sh, k, v, d).expire_map \subseteq Reschedule(sh, k, d)
  BY RemovalDeadlines DEF set, enforce_max_memory, Store
<1>3. expire(sh, k, d).shard.expire_map \subseteq sh.expire_map \cup Reschedule(sh, k, d)
  <2> DEFINE n == [sh.node EXCEPT ![k] = [value     |-> sh.node[k].value,
                                          expire_at |-> d,
                                          expire_it |-> Iterator(k, d)]]
             m == Reschedule(sh, k, d)
  <2>1. expire(sh, k, d).shard \in {sh, [sh EXCEPT !.node = n, !.expire_map = m]}
    BY DEF expire
  <2> HIDE DEF n, m
  <2>2. [sh EXCEPT !.node = n, !.expire_map = m].expire_map = m
    BY DEF Consistent, Shard
  <2> QED
    BY <2>1, <2>2 DEF m
<1> QED
  BY <1>1, <1>2, <1>3

(* get_next_expire_time is the first of the deadlines. *)
LEMMA NextDeadline ==
  ASSUME NEW sh, Consistent(sh), \A p \in sh.expire_map : p[1] \in Nat,
         sh.expire_map # {}
  PROVE  \E p \in sh.expire_map : /\ get_next_expire_time(sh) = p[1]
                                  /\ \A q \in sh.expire_map : p[1] <= q[1]
<1> DEFINE T == {p[1] : p \in sh.expire_map}
<1>1. T \subseteq Nat /\ T # {}
  OBVIOUS
<1> HIDE DEF T
<1>2. PICK x \in T : \A y \in T : x <= y
  BY <1>1, Least
<1>3. \E p \in sh.expire_map : \A q \in sh.expire_map : p[1] <= q[1]
  BY <1>2 DEF T
<1> QED
  BY <1>3 DEF get_next_expire_time
-----------------------------------------------------------------------------
(* The steps.                                                              *)

(* The invariant depends on the variables only through these facts: a      *)
(* client's call, made while the coroutine sleeps, may add a deadline not  *)
(* before the present moment.                                              *)
LEMMA CallKeeps ==
  ASSUME IInv, NEW sh, Consistent(sh), Call(sh),
         \A p \in sh.expire_map :
           p \in shard.expire_map \/ p[1] \in now .. (now + LongestSleep)
  PROVE  IInv'
<1>1. /\ shard' = sh /\ now' = now /\ pc' = pc /\ timer' = timer /\ pc = "waiting"
  BY DEF Call
<1>2. /\ now \in 0 .. Horizon /\ timer \in Int /\ timer <= now + LongestSleep
      /\ \A p \in shard.expire_map : timer <= p[1] + LongestSleep
      /\ \A p \in shard.expire_map : p[1] \in 0 .. (now + LongestSleep)
  BY <1>1 DEF IInv, Armed, BoundedLateness, Deadlines, Pending
<1>3. LongestSleep \in Nat /\ Horizon \in Nat
  BY Longest, ControllerAssumption
<1>4. \A p \in sh.expire_map : p[1] \in 0 .. (now + LongestSleep)
  BY <1>2, <1>3
<1>5. \A p \in sh.expire_map : timer <= p[1] + LongestSleep
  BY <1>2, <1>3
<1>6. Consistent(shard')
  BY <1>1
<1>7. Deadlines' /\ Armed'
  BY <1>1, <1>2, <1>4, <1>5 DEF Deadlines, Pending, Armed, BoundedLateness
<1>8. NoEmptyPass'
  BY <1>1 DEF NoEmptyPass
<1> QED
  BY <1>1, <1>2, <1>6, <1>7, <1>8 DEF IInv

(* When the coroutine starts, nothing is held. *)
LEMMA InitIInv == Init => IInv
<1> SUFFICES ASSUME Init PROVE IInv
  OBVIOUS
<1>1. shard = EmptyShard /\ now = 0 /\ pc = "loop"
  BY DEF Init
<1>2. Consistent(shard)
  BY <1>1, EmptyConsistent
<1>3. shard.expire_map = {}
  BY <1>1 DEF EmptyShard
<1> QED
  BY <1>1, <1>2, <1>3, ControllerAssumption
     DEF IInv, Deadlines, Armed, NoEmptyPass

(* The coroutine arms its timer for the first deadline, or goes on at once *)
(* when there is something to remove.                                      *)
LEMMA CheckKeeps ==
  ASSUME IInv, CheckNext
  PROVE  IInv'
<1> DEFINE next == get_next_expire_time(shard)
<1>1. shard' = shard /\ now' = now /\ Sleep(next)
  BY DEF CheckNext
<1>2. /\ now \in 0 .. Horizon /\ LongestSleep \in Nat /\ Horizon \in Nat
      /\ IdlePeriod \in Nat /\ IdlePeriod <= LongestSleep
      /\ \A p \in shard.expire_map : p[1] \in 0 .. (now + LongestSleep)
  BY Longest, SleepsType, ControllerAssumption DEF IInv, Deadlines, Pending
<1>3. Consistent(shard)
  BY DEF IInv
<1> HIDE DEF next
<1>4. CASE shard.expire_map = {}
  <2>1. next = Null
    BY <1>4 DEF next, get_next_expire_time
  <2>2. pc' = "waiting" /\ timer' = now + IdlePeriod
    BY <1>1, <2>1 DEF Sleep
  <2> QED
    BY <1>1, <1>2, <1>3, <1>4, <2>2
       DEF IInv, Deadlines, Pending, Armed, BoundedLateness, NoEmptyPass
<1>5. CASE shard.expire_map # {}
  <2>1. \A p \in shard.expire_map : p[1] \in Nat
    BY <1>2
  <2>2. PICK p \in shard.expire_map : /\ next = p[1]
                                      /\ \A q \in shard.expire_map : p[1] <= q[1]
    BY <1>3, <1>5, <2>1, NextDeadline DEF next
  <2>3. next \in Nat /\ next # Null /\ next <= now + LongestSleep
    BY <1>2, <2>1, <2>2, NullAssumption
  <2>4. CASE next > now
    <3>1. pc' = "waiting" /\ timer' = next
      BY <1>1, <1>2, <2>3, <2>4 DEF Sleep
    <3>2. \A q \in shard.expire_map : next <= q[1] + LongestSleep
      BY <1>2, <2>1, <2>2, <2>3
    <3> QED
      BY <1>1, <1>2, <1>3, <2>3, <3>1, <3>2
         DEF IInv, Deadlines, Pending, Armed, BoundedLateness, NoEmptyPass
  <2>5. CASE next <= now
    <3>1. pc' = "overdue"
      BY <1>1, <1>2, <2>3, <2>5 DEF Sleep
    <3>2. Due(shard, now) # {}
      BY <2>2, <2>5 DEF Due
    <3> QED
      BY <1>1, <1>2, <1>3, <3>1, <3>2
         DEF IInv, Deadlines, Pending, Armed, NoEmptyPass
  <2> QED
    BY <1>2, <2>3, <2>4, <2>5
<1> QED
  BY <1>4, <1>5

(* A pass only removes entries. *)
LEMMA CleanKeeps ==
  ASSUME IInv, Clean
  PROVE  IInv'
<1>1. shard' = remove_expired_keys(shard, now) /\ now' = now /\ pc' = "loop"
  BY DEF Clean
<1>2. Consistent(shard) /\ now \in 0 .. Horizon /\ now \in Int
  BY ControllerAssumption DEF IInv
<1>3. Consistent(remove_expired_keys(shard, now))
  BY <1>2, SweepConsistent
<1>4. remove_expired_keys(shard, now).expire_map \subseteq shard.expire_map
  BY <1>2, SweepIsRemoval, RemovalDeadlines
<1>5. Deadlines'
  BY <1>1, <1>4 DEF IInv, Deadlines, Pending
<1> QED
  BY <1>1, <1>2, <1>3, <1>5 DEF IInv, Armed, NoEmptyPass

(* Time passing brings the deadlines and the timer nearer. *)
LEMMA TickKeeps ==
  ASSUME IInv, Tick
  PROVE  IInv'
<1>1. shard' = shard /\ now' = now + 1 /\ pc' = pc /\ timer' = timer /\ now < Horizon
  BY DEF Tick
<1>2. now \in 0 .. Horizon /\ LongestSleep \in Nat /\ Horizon \in Nat
  BY Longest, ControllerAssumption DEF IInv
<1>3. Deadlines'
  BY <1>1, <1>2 DEF IInv, Deadlines, Pending
<1>4. Armed'
  <2>1. ASSUME pc = "waiting"
        PROVE  /\ timer \in Int /\ timer <= now + LongestSleep
               /\ \A p \in shard.expire_map : timer <= p[1] + LongestSleep
    BY <2>1 DEF IInv, Armed, BoundedLateness
  <2> QED
    BY <1>1, <1>2, <2>1 DEF Armed, BoundedLateness
<1>5. NoEmptyPass'
  <2> SUFFICES ASSUME pc' = "overdue" PROVE Due(shard', now') # {}
    BY DEF NoEmptyPass
  <2>1. PICK p \in Due(shard, now) : TRUE
    BY <1>1 DEF IInv, NoEmptyPass
  <2>2. p \in shard.expire_map /\ p[1] <= now
    BY <2>1 DEF Due
  <2>3. p[1] \in Int
    BY <1>2, <2>2 DEF IInv, Deadlines, Pending
  <2>4. p[1] <= now + 1
    BY <1>2, <2>2, <2>3
  <2> QED
    BY <1>1, <2>2, <2>4 DEF Due
<1> QED
  BY <1>1, <1>2, <1>3, <1>4, <1>5 DEF IInv

(* Every step of the coroutine, of a client and of the clock preserves the *)
(* invariant.                                                              *)
LEMMA NextKeeps == IInv /\ [Next]_vars => IInv'
<1> SUFFICES ASSUME IInv, [Next]_vars PROVE IInv'
  OBVIOUS
<1>1. Consistent(shard) /\ now \in Nat /\ now \in Int
  BY ControllerAssumption DEF IInv
<1>2. ASSUME NEW k \in Key, NEW v \in Value, NEW s \in Seconds \cup {Null}, Set(k, v, s)
      PROVE  IInv'
  <2> DEFINE d == IF s = Null THEN Null ELSE Deadline(now, s)
  <2>1. now <= ActiveUntil /\ Call(set(shard, k, v, d))
    BY <1>2 DEF Set
  <2>2. s # Null => d \in now .. (now + LongestSleep)
    BY <1>1, <2>1, DeadlineAhead
  <2>3. d \in Int \cup {Null} /\ (d # Null => d \in now .. (now + LongestSleep))
    BY <1>1, <2>2, Longest
  <2> HIDE DEF d
  <2>4. Consistent(set(shard, k, v, d))
    BY <1>1, <2>3, SetConsistent
  <2>5. \A p \in set(shard, k, v, d).expire_map :
          p \in shard.expire_map \/ p[1] \in now .. (now + LongestSleep)
    <3>1. set(shard, k, v, d).expire_map \subseteq shard.expire_map \cup Scheduling(k, d)
      BY <1>1, NewDeadline
    <3>2. \A p \in Scheduling(k, d) : p[1] \in now .. (now + LongestSleep)
      BY <2>3 DEF Scheduling
    <3> QED
      BY <3>1, <3>2
  <2> QED
    BY <2>1, <2>4, <2>5, CallKeeps
<1>3. ASSUME NEW k \in Key, NEW s \in Seconds, Expire(k, s)
      PROVE  IInv'
  <2> DEFINE d == Deadline(now, s)
  <2>1. now <= ActiveUntil /\ Call(expire(shard, k, d).shard)
    BY <1>3 DEF Expire
  <2>2. d \in now .. (now + LongestSleep)
    BY <1>1, <2>1, DeadlineAhead
  <2>3. d \in Int
    BY <1>1, <2>2, Longest
  <2> HIDE DEF d
  <2>4. Consistent(expire(shard, k, d).shard)
    BY <1>1, <2>3, ExpireConsistent
  <2>5. \A p \in expire(shard, k, d).shard.expire_map :
          p \in shard.expire_map \/ p[1] \in now .. (now + LongestSleep)
    BY <1>1, <2>2, NewDeadline DEF Scheduling
  <2> QED
    BY <2>1, <2>4, <2>5, CallKeeps
<1>4. ASSUME NEW k \in Key, Lookup(k) \/ Del(k)
      PROVE  IInv'
  <2>1. CASE Call(get(shard, k, now).shard)
    BY <1>1, <2>1, GetConsistent, QuietDeadlines, CallKeeps
  <2>2. CASE Call(ttl(shard, k, now, now).shard)
    BY <1>1, <2>2, TtlConsistent, QuietDeadlines, CallKeeps
  <2>3. CASE Call(del(shard, k).shard)
    BY <1>1, <2>3, DelConsistent, QuietDeadlines, CallKeeps
  <2> QED
    BY <1>4, <2>1, <2>2, <2>3 DEF Lookup, Del
<1>5. CASE UNCHANGED vars
  BY <1>5 DEF vars, IInv, Consistent, Indexed, Scheduled, Accounted, Deadlines,
              Pending, Armed, BoundedLateness, NoEmptyPass
<1> QED
  BY <1>2, <1>3, <1>4, <1>5, CheckKeeps, CleanKeeps, TickKeeps DEF Next

-----------------------------------------------------------------------------

(* The invariant of the cleaner and its clients holds in every state. *)
THEOREM Invariance == Spec => []IInv
BY InitIInv, NextKeeps, PTL DEF Spec

(* cleaning_loop never makes a pass without waiting that removes nothing:  *)
(* whatever clients do to the shard, the loop cannot spin.                 *)
THEOREM NeverSpins == Spec => []NoEmptyPass
<1>1. IInv => NoEmptyPass
  BY DEF IInv
<1> QED
  BY <1>1, Invariance, PTL

(* The timer that cleaning_loop sleeps on expires no later than one        *)
(* longest sleep after any deadline held, although a deadline set while it *)
(* sleeps does not rearm it.                                               *)
THEOREM LatenessBounded == Spec => []BoundedLateness
<1>1. IInv => BoundedLateness
  BY DEF IInv, Armed, BoundedLateness
<1> QED
  BY <1>1, Invariance, PTL
=============================================================================
