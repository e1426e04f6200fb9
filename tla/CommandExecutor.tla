-------------------------- MODULE CommandExecutor --------------------------
(***************************************************************************)
(* Sessions executing commands against a pool of shards: CommandExecutor   *)
(* (src/commandExecutor.cpp) over ShardPool (src/shardPool.cpp).           *)
(*                                                                         *)
(* Every shard belongs to a worker, an io_context run by one thread.  A    *)
(* session runs on its home shard's worker, touches the home shard         *)
(* directly and every other shard through run_on_shard, which posts a job  *)
(* to that shard's worker and suspends the session until the result is     *)
(* posted back.  A handler that runs is one step; what interleaves is the  *)
(* jobs, the resumptions and the cleaning coroutines of the workers.       *)
(*                                                                         *)
(* A session has one job outstanding at most, and jobs that different      *)
(* sessions posted to a worker may run in any order.                       *)
(***************************************************************************)
EXTENDS LruShardOps, FiniteSetsExt

CONSTANTS
  Session,
  home,          \* home[s]: home_shard_ of s, or Null where none is passed
  ShardCount,    \* shard_pool_.size()
  ShardOf,       \* ShardOf[k]: XXH3_64bits(k) % ShardCount
  Command,       \* the commands sessions receive: a set of records
  Horizon,       \* bound: the last time point of the clock
  MaxInserts     \* bound: keys inserted in a behaviour

ShardIndex == 0 .. ShardCount - 1

ASSUME ExecutorAssumption ==
  /\ ShardCount \in Nat \ {0}
  /\ ShardOf \in [Key -> ShardIndex]
  /\ home \in [Session -> ShardIndex \cup {Null}]
  /\ IsFiniteSet(Session)
  /\ Horizon \in Nat /\ Horizon < TimeHalf
  /\ MaxInserts \in Nat

(* A command has its CommandType; key, or for DEL the set keys (a key      *)
(* named twice is deleted once); value; opt, the option or subcommand, and *)
(* arg, the number of seconds, Null when std::stoull rejects it.           *)
CommandType == {"kGet", "kSet", "kDel", "kExpire", "kTtl", "kInfo",
                "kPing", "kCommand", "kConfig", "kUnknown"}

ASSUME CommandAssumption ==
  \A cmd \in Command :
    /\ cmd.type \in CommandType
    /\ cmd.type \in {"kGet", "kSet", "kExpire", "kTtl"} => cmd.key \in Key
    /\ cmd.type = "kSet" => cmd.value \in Value
    /\ cmd.keys \subseteq Key
    /\ cmd.value \in Value \cup {Null}
    /\ cmd.arg \in Nat \cup {Null}

VARIABLES
  shards,      \* the shard of each worker
  now,         \* steady_clock::now()
  session,     \* the sessions' coroutines
  stopped,     \* the number of workers ShardPool::stop has stopped
  history      \* what the properties remember (see the end of the module)

vars == <<shards, now, session, stopped, history>>

-----------------------------------------------------------------------------
(* What a command does on one shard.  A result is the new shard, what the  *)
(* shard adds to the command's totals, and the RespValue.                  *)

Zero == [used_payload_bytes |-> 0, key_count |-> 0, evictions |-> 0,
         expired |-> 0, max_memory_bytes |-> 0, deleted |-> 0]

Add(a, b) == [f \in DOMAIN a |-> a[f] + b[f]]

RespValue(type, data) == [type |-> type, data |-> data]

(* Null, where there is no reply, is none. *)
ASSUME ReplyAssumption == RespValue("kError", Null) # Null

Result(sh, ret) == [shard |-> sh, total |-> Zero, ret |-> ret]

processGetCommand(cmd, sh, t) ==
  LET r == get(sh, cmd.key, t)
  IN  Result(r.shard, IF r.ret # Null THEN RespValue("kBulkString", r.ret)
                                      ELSE RespValue("kNullBulkString", Null))

(* Faults: NX writes where it must not; the option is applied before the   *)
(* number is parsed.                                                       *)
processSetCommand_IgnoresNX(cmd, sh, t) ==
  LET d == IF cmd.opt = "EX" THEN Deadline(t, cmd.arg) ELSE Null
  IN  IF cmd.opt = "bad" \/ (cmd.opt = "EX" /\ cmd.arg = Null)
      THEN Result(sh, RespValue("kError", Null))
      ELSE Result(set(sh, cmd.key, cmd.value, d), RespValue("kSimpleString", Null))

processSetCommand_SetsFirst(cmd, sh, t) ==
  LET stored == set(sh, cmd.key, cmd.value, Null)
  IN  IF cmd.opt = "bad" \/ (cmd.opt = "EX" /\ cmd.arg = Null)
      THEN Result(stored, RespValue("kError", Null))
      ELSE Result(stored, RespValue("kSimpleString", Null))

(* NX and XX look the key up with get, which may remove it as expired or   *)
(* move it to the front, also when the write is then refused.              *)
processSetCommand(cmd, sh, t) ==
  LET looked == get(sh, cmd.key, t)
      found  == looked.ret # Null
      ok     == RespValue("kSimpleString", Null)
      null   == RespValue("kNullBulkString", Null)
      error  == RespValue("kError", Null)
      Stored(from, d) == Result(set(from, cmd.key, cmd.value, d), ok)
  IN  CASE cmd.opt = "none" -> Stored(sh, Null)
        [] cmd.opt = "NX" -> IF found THEN Result(looked.shard, null)
                                      ELSE Stored(looked.shard, Null)
        [] cmd.opt = "XX" -> IF found THEN Stored(looked.shard, Null)
                                      ELSE Result(looked.shard, null)
        [] cmd.opt = "EX" -> IF cmd.arg = Null THEN Result(sh, error)
                                               ELSE Stored(sh, Deadline(t, cmd.arg))
        [] OTHER -> Result(sh, error)

(* The keys of the command that live on shard i. *)
KeysOn(cmd, i) == {k \in cmd.keys : ShardOf[k] = i}

(* Fault: every key named is counted. *)
processDelKeys_CountsAll(cmd, i, sh) ==
  [shard |-> remove_keys(sh, KeysOn(cmd, i) \cap sh.map, "kDelete"),
   total |-> [Zero EXCEPT !.deleted = Cardinality(KeysOn(cmd, i))],
   ret   |-> Null]

processDelKeys(cmd, i, sh) ==
  LET present == KeysOn(cmd, i) \cap sh.map
  IN  [shard |-> remove_keys(sh, present, "kDelete"),
       total |-> [Zero EXCEPT !.deleted = Cardinality(present)],
       ret   |-> Null]

processExpireCommand(cmd, sh, t) ==
  IF cmd.arg = Null THEN Result(sh, RespValue("kError", Null))
  ELSE LET r == expire(sh, cmd.key, Deadline(t, cmd.arg))
       IN  Result(r.shard, RespValue("kInteger", IF r.ret THEN 1 ELSE 0))

(* That ttl reads the clock twice matters only to its result (LruShard). *)
processTtlCommand(cmd, sh, t) ==
  LET r == ttl(sh, cmd.key, t, t)
  IN  Result(r.shard, RespValue("kInteger", r.ret))

(* Fault: the evictions are left out. *)
ShardStats_NoEvictions(sh) ==
  [shard |-> sh,
   total |-> [Zero EXCEPT !.used_payload_bytes = sh.used, !.expired = sh.expired,
                          !.max_memory_bytes = MaxMemoryBytes],
   ret   |-> Null]

(* The part of INFO that runs on a shard. *)
ShardStats(sh) ==
  [shard |-> sh,
   total |-> [f \in DOMAIN Zero |-> IF f = "deleted" THEN 0 ELSE get_stats(sh)[f]],
   ret   |-> Null]

Run(cmd, i, sh, t) ==
  CASE cmd.type = "kGet"    -> processGetCommand(cmd, sh, t)
    [] cmd.type = "kSet"    -> processSetCommand(cmd, sh, t)
    [] cmd.type = "kDel"    -> processDelKeys(cmd, i, sh)
    [] cmd.type = "kExpire" -> processExpireCommand(cmd, sh, t)
    [] cmd.type = "kTtl"    -> processTtlCommand(cmd, sh, t)
    [] cmd.type = "kInfo"   -> ShardStats(sh)

(* Commands that touch no shard.  Of arrays, and of error texts, only the  *)
(* type is kept.                                                           *)
processPingCommand(cmd) ==
  RespValue("kBulkString", IF cmd.value = Null THEN "PONG" ELSE cmd.value)

processCommandCommand(cmd) ==
  CASE cmd.opt \in {"none", "INFO"} -> RespValue("kArray", Null)
    [] cmd.opt = "COUNT" -> RespValue("kInteger", Cardinality(CommandType \ {"kUnknown"}))
    [] OTHER -> RespValue("kError", Null)

processConfigCommand(cmd) ==
  IF cmd.opt = "GET" THEN RespValue("kArray", Null) ELSE RespValue("kError", Null)

processUnknownCommand == RespValue("kError", Null)

(* An INFO that reaches the last arm names a section that is not there. *)
Immediate(cmd) ==
  CASE cmd.type = "kPing"    -> processPingCommand(cmd)
    [] cmd.type = "kCommand" -> processCommandCommand(cmd)
    [] cmd.type = "kConfig"  -> processConfigCommand(cmd)
    [] cmd.type = "kUnknown" -> processUnknownCommand
    [] OTHER                 -> RespValue("kError", Null)

(* Fault: DEL stops at the first shard. *)
Targets_FirstOnly(cmd) ==
  IF cmd.type = "kInfo" THEN ShardIndex
  ELSE IF cmd.type = "kDel" THEN {Min({ShardOf[k] : k \in cmd.keys})}
  ELSE {ShardOf[cmd.key]}

(* The shards a command has to run on. *)
Targets(cmd) ==
  CASE cmd.type \in {"kGet", "kSet", "kExpire", "kTtl"} -> {ShardOf[cmd.key]}
    [] cmd.type = "kDel" -> {i \in ShardIndex : KeysOn(cmd, i) # {}}
    [] cmd.type = "kInfo" /\ cmd.opt # "bad" -> ShardIndex
    [] OTHER -> {}
-----------------------------------------------------------------------------
(* The sessions' coroutines.  pc is "idle" while a session waits for a     *)
(* command, "posted" while its job waits on the worker of the first shard  *)
(* of todo, "ran" while the job's result is on its way back, and "reply"   *)
(* while the answer is written.  total and ret are the local variables of  *)
(* execute; res is the job's result.                                       *)

Idle == [pc |-> "idle", cmd |-> Null, todo |-> {}, total |-> Zero,
         ret |-> Null, res |-> Null]

Running(i) == i # Null => i >= stopped

(* The answer of a command that has run on all its shards. *)
Answer(c) ==
  CASE c.cmd.type = "kDel" -> RespValue("kInteger", c.total.deleted)
    [] c.cmd.type = "kInfo" /\ c.ret = Null -> RespValue("kBulkString", Null)
    [] OTHER -> c.ret

(* Post the job for the next shard, or answer. *)
Advance(c) == IF c.todo # {} THEN [c EXCEPT !.pc = "posted"]
                             ELSE [c EXCEPT !.pc = "reply", !.ret = Answer(c)]

(* Fault: whatever the key, the home shard serves it. *)
LocalTargets_Always(s, cmd) ==
  IF cmd.type = "kInfo" \/ Targets(cmd) = {} \/ home[s] = Null THEN {} ELSE {home[s]}

(* execute up to its first suspension.  The home shard is used directly,   *)
(* except by INFO, whose loop posts a job to every shard.                  *)
LocalTargets(s, cmd) == IF cmd.type = "kInfo" THEN {} ELSE Targets(cmd) \cap {home[s]}

Executing(s, type) == session[s].pc # "idle" /\ session[s].cmd.type = type

Wrote(cmd, ret) == cmd.type = "kSet" /\ ret.type = "kSimpleString"

(* cmd ran on a shard that was before and is after. *)
Remember(h, cmd, before, after, ret) ==
  IF ~ Wrote(cmd, ret) THEN h
  ELSE [h EXCEPT !.inserted = IF \/ cmd.key \notin before.map
                                 \/ after.expired # before.expired
                              THEN @ + 1 ELSE @,
                 !.fresh = [s \in Session |->
                              IF Executing(s, "kDel") THEN @[s] \cup {cmd.key} ELSE {}]]

(* The sum of f over S, as the number of elements of a set (see Payload). *)
Sum(f, S) == Cardinality(UNION {{x} \X (1 .. f[x]) : x \in S})

Removals(sh) == sh.evictions + sh.expired
TotalRemovals == Sum([i \in ShardIndex |-> Removals(shards[i])], ShardIndex)

PendingSets ==
  Cardinality({s \in Session : session[s].pc = "posted" /\ Executing(s, "kSet")})

Start(s, cmd) ==
  LET local   == LocalTargets(s, cmd)
      h       == home[s]
      begun   == [Idle EXCEPT !.cmd = cmd, !.todo = Targets(cmd) \ local,
                              !.ret = IF Targets(cmd) = {} THEN Immediate(cmd) ELSE Null]
      noted   == IF cmd.type = "kInfo" THEN [history EXCEPT !.floor[s] = TotalRemovals]
                                       ELSE history
  IN  /\ session[s].pc = "idle"
      /\ Running(h)
      /\ cmd.type = "kSet" => history.inserted + PendingSets < MaxInserts
      /\ IF local = {}
         THEN /\ session' = [session EXCEPT ![s] = Advance(begun)]
              /\ history' = noted
              /\ UNCHANGED shards
         ELSE LET r == Run(cmd, h, shards[h], now)
              IN  /\ shards' = [shards EXCEPT ![h] = r.shard]
                  /\ session' = [session EXCEPT ![s] =
                       Advance([begun EXCEPT !.total = r.total, !.ret = r.ret])]
                  /\ history' = Remember(noted, cmd, shards[h], r.shard, r.ret)
      /\ UNCHANGED <<now, stopped>>

(* The job of s, which its worker runs: the callable is invoked on the     *)
(* shard and its result posted back.                                       *)
Job(s) ==
  LET i == Min(session[s].todo)
      r == Run(session[s].cmd, i, shards[i], now)
  IN  /\ shards' = [shards EXCEPT ![i] = r.shard]
      /\ session' = [session EXCEPT ![s].pc = "ran",
                                    ![s].res = [total |-> r.total, ret |-> r.ret]]
      /\ history' = Remember(history, session[s].cmd, shards[i], r.shard, r.ret)
      /\ UNCHANGED <<now, stopped>>

(* Fault: a session waits for its result without releasing its thread. *)
RunJob_Blocking(s) ==
  /\ session[s].pc = "posted"
  /\ Running(Min(session[s].todo))
  /\ \A t \in Session : session[t].pc \in {"posted", "ran"}
                          => home[t] # Min(session[s].todo)
  /\ Job(s)

RunJob(s) ==
  /\ session[s].pc = "posted"
  /\ Running(Min(session[s].todo))
  /\ Job(s)

(* What co_await returned is added to the totals. *)
Collected(c) ==
  [c EXCEPT !.todo = @ \ {Min(@)}, !.total = Add(@, c.res.total),
            !.ret = c.res.ret, !.res = Null]

Resume(s) ==
  /\ session[s].pc = "ran"
  /\ Running(home[s])
  /\ session' = [session EXCEPT ![s] = Advance(Collected(session[s]))]
  /\ UNCHANGED <<shards, now, stopped, history>>

(* Session::run writes the answer and goes on to the next command. *)
Reply(s) ==
  /\ session[s].pc = "reply"
  /\ Running(home[s])
  /\ session' = [session EXCEPT ![s] = Idle]
  /\ history' = [history EXCEPT !.deleted = @ + session[s].total.deleted,
                               !.fresh[s] = {}, !.floor[s] = 0]
  /\ UNCHANGED <<shards, now, stopped>>

-----------------------------------------------------------------------------
(* The workers.                                                            *)

(* A pass of the cleaning coroutine of worker i (ExpirationController). *)
Clean(i) ==
  /\ Running(i)
  /\ shards' = [shards EXCEPT ![i] = remove_expired_keys(@, now)]
  /\ UNCHANGED <<now, session, stopped, history>>

(* ShardPool::stop, on SIGINT or SIGTERM, stops the io_contexts one after  *)
(* the other; handlers still queued never run.                             *)
StopNext ==
  /\ stopped < ShardCount
  /\ stopped' = stopped + 1
  /\ UNCHANGED <<shards, now, session, history>>

Tick == now < Horizon /\ now' = now + 1 /\ UNCHANGED <<shards, session, stopped, history>>

Init ==
  /\ shards = [i \in ShardIndex |-> EmptyShard]
  /\ now = 0
  /\ session = [s \in Session |-> Idle]
  /\ stopped = 0
  /\ history = [inserted |-> 0, deleted |-> 0,
                fresh |-> [s \in Session |-> {}], floor |-> [s \in Session |-> 0]]

Next == \/ \E s \in Session : \/ \E cmd \in Command : Start(s, cmd)
                               \/ RunJob(s)
                               \/ Resume(s)
                               \/ Reply(s)
        \/ \E i \in ShardIndex : Clean(i)
        \/ StopNext
        \/ Tick

(* A worker runs the handlers in its queue.  No fairness for commands,     *)
(* signals or the clock.                                                   *)
Fairness == \A s \in Session :
              WF_vars(RunJob(s)) /\ WF_vars(Resume(s)) /\ WF_vars(Reply(s))

Spec == Init /\ [][Next]_vars /\ Fairness

-----------------------------------------------------------------------------
(* Properties.  history holds, for them alone: the number of keys inserted *)
(* and of keys DEL replies have reported; for a session executing DEL, the *)
(* keys set since it began; for one executing INFO, the removals counted   *)
(* when it began.                                                          *)

(* The shards and the coroutines are of their types. *)
TypeOK ==
  /\ shards \in [ShardIndex -> Shard]
  /\ now \in 0 .. Horizon
  /\ stopped \in 0 .. ShardCount
  /\ \A s \in Session :
       /\ session[s].pc \in {"idle", "posted", "ran", "reply"}
       /\ session[s].todo \subseteq ShardIndex
       /\ session[s].total \in [DOMAIN Zero -> Nat]

(* A key is held by the shard it hashes to and by no other, whether it was *)
(* written directly by a session of that shard or through run_on_shard.    *)
KeysRouted ==
  \A i \in ShardIndex : shards[i].map \subseteq {k \in Key : ShardOf[k] = i}

(* Every key ever inserted is still held, or was counted as evicted, as    *)
(* expired, or by the reply of one DEL, sent or under way: concurrent DELs *)
(* never count a key twice, and no count is lost between two shards.       *)
KeysConserved ==
  LET held  == [i \in ShardIndex |->
                  Cardinality(shards[i].map) + Removals(shards[i])]
      going == [s \in Session |->
                  session[s].total.deleted
                    + (IF session[s].pc = "ran" THEN session[s].res.total.deleted ELSE 0)]
  IN  history.inserted = Sum(held, ShardIndex) + Sum(going, Session) + history.deleted

(* DEL is not atomic across shards, but when it answers, a key it names    *)
(* that is held was set by some session after the DEL began.               *)
DelEffective ==
  \A s \in Session :
    session[s].pc = "reply" /\ Executing(s, "kDel") =>
      \A k \in session[s].cmd.keys :
        k \in shards[ShardOf[k]].map => k \in history.fresh[s]

(* INFO visits the shards one by one.  Its totals are of no single moment, *)
(* yet the removals it reports are at least those counted when it began    *)
(* and at most those counted when it answers, and the bytes it reports are *)
(* within the budget it reports.                                           *)
InfoBracketed ==
  \A s \in Session :
    session[s].pc = "reply" /\ Executing(s, "kInfo")
      /\ session[s].ret.type # "kError" =>
        LET t == session[s].total
        IN  /\ history.floor[s] <= t.evictions + t.expired
            /\ t.evictions + t.expired <= TotalRemovals
            /\ t.used_payload_bytes <= t.max_memory_bytes
            /\ t.max_memory_bytes = ShardCount * MaxMemoryBytes

(* The step in which a single-key command of s runs on its shard. *)
Ran(s) == \/ session[s].pc = "idle" /\ session'[s].pc = "reply"
          \/ session[s].pc = "posted" /\ session'[s].pc = "ran"

RanRet(s) == IF session'[s].pc = "ran" THEN session'[s].res.ret ELSE session'[s].ret

Readable(k) == LET sh == shards[ShardOf[k]]
               IN  k \in sh.map /\ ~ is_expired(sh.node[k], now)

(* SET NX writes only a key no GET could read at that moment and SET XX    *)
(* only one that a GET could, however other sessions' commands interleave; *)
(* a refused SET leaves the key's value as it was.                         *)
ConditionalSets ==
  [][ \A s \in Session :
        Ran(s) /\ session'[s].cmd.type = "kSet" /\ session'[s].cmd.opt \in {"NX", "XX"} =>
          LET k     == session'[s].cmd.key
              i     == ShardOf[k]
              wrote == RanRet(s).type = "kSimpleString"
          IN  /\ wrote <=> (Readable(k) <=> session'[s].cmd.opt = "XX")
              /\ ~ wrote /\ Readable(k) => shards'[i].node[k] = shards[i].node[k] ]_vars

(* A command answered with an error has changed no shard. *)
ErrorsChangeNothing ==
  [][ \A s \in Session :
        Ran(s) /\ session'[s].cmd.type # "kDel" /\ RanRet(s) # Null
          => (RanRet(s).type = "kError" => shards' = shards) ]_vars

(* Every command is answered unless the pool is being stopped: sessions of *)
(* different shards that wait for each other's workers do not block them,  *)
(* and DEL and INFO end.                                                   *)
EveryCommandAnswered ==
  \A s \in Session : session[s].pc # "idle" ~> (session[s].pc = "idle" \/ stopped > 0)
=============================================================================
