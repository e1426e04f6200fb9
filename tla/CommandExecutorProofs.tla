----------------------- MODULE CommandExecutorProofs -----------------------
(***************************************************************************)
(* The safety of command execution over a pool of shards, for any number   *)
(* of shards, sessions, keys and values and any set of commands.           *)
(*                                                                         *)
(* IInv says that every shard is consistent, within its budget and holds   *)
(* only the keys that hash to it, and that every coroutine has its local   *)
(* variables as the suspension it is at requires: a command that is under  *)
(* way has only its own shards still to visit.                             *)
(***************************************************************************)
EXTENDS CommandExecutor, LruShardLemmas

Totals == [DOMAIN Zero -> Nat]

RespType == {"kSimpleString", "kBulkString", "kNullBulkString", "kInteger",
             "kArray", "kError"}

CommandCount == Cardinality(CommandType \ {"kUnknown"})

Data == Value \cup {Null, "PONG", CommandCount} \cup Int

Resp == [type : RespType, data : Data]

JobResult == [total : Totals, ret : Resp \cup {Null}]

Coroutine == [pc    : {"idle", "posted", "ran", "reply"},
              cmd   : Command \cup {Null},
              todo  : SUBSET ShardIndex,
              total : Totals,
              ret   : Resp \cup {Null},
              res   : JobResult \cup {Null}]

Routed(i) == {k \in Key : ShardOf[k] = i}

Sound(i, sh) ==
  Consistent(sh) /\ sh.used <= MaxMemoryBytes /\ sh.map \subseteq Routed(i)

WellFormed(c) ==
  /\ c \in Coroutine
  /\ c.pc = "idle" => c = Idle
  /\ c.pc # "idle" => c.cmd \in Command /\ c.todo \subseteq Targets(c.cmd)
  /\ c.pc \in {"posted", "ran"} => c.todo # {}
  /\ c.pc = "ran" => c.res \in JobResult
  /\ c.pc # "ran" => c.res = Null
  /\ c.pc = "reply" => c.todo = {}

Pool == shards \in [ShardIndex -> Shard] /\ \A i \in ShardIndex : Sound(i, shards[i])

Sessions == session \in [Session -> Coroutine] /\ \A s \in Session : WellFormed(session[s])

IInv == Pool /\ Sessions /\ now \in 0 .. Horizon /\ stopped \in 0 .. ShardCount

-----------------------------------------------------------------------------
(* Sum adds up natural numbers.                                            *)

(* The set whose elements Sum counts. *)
Units(f, S) == UNION {{x} \X (1 .. f[x]) : x \in S}

(* f gives every element of the finite set S a natural number. *)
Counts(f, S) == IsFiniteSet(S) /\ \A x \in S : f[x] \in Nat

(* A sum is a natural number. *)
LEMMA SumType ==
  ASSUME NEW f, NEW S, Counts(f, S)
  PROVE  IsFiniteSet(Units(f, S)) /\ Sum(f, S) \in Nat
<1> DEFINE B(x) == {x} \X (1 .. f[x])
           g == [x \in S |-> B(x)]
           T == {B(x) : x \in S}
<1>1. g \in Surjection(S, T)
  BY DEF Surjection
<1>2. IsFiniteSet(T)
  BY <1>1, FS_Surjection DEF Counts
<1>3. ASSUME NEW U \in T PROVE IsFiniteSet(U)
  <2>1. PICK x \in S : U = B(x)
    OBVIOUS
  <2>2. f[x] \in Nat
    BY DEF Counts
  <2> QED
    BY <2>1, <2>2, TaggedCount
<1>4. IsFiniteSet(UNION T)
  <2> HIDE DEF T
  <2> QED
    BY <1>2, <1>3, FS_UNION
<1>5. Units(f, S) = UNION T
  BY DEF Units
<1> QED
  BY <1>4, <1>5, FS_CardinalityType DEF Sum, Units

(* A sum is that of a part and that of the rest. *)
LEMMA SumSplit ==
  ASSUME NEW f, NEW S, Counts(f, S), NEW x \in S
  PROVE  /\ f[x] \in Nat /\ Sum(f, S \ {x}) \in Nat
         /\ Sum(f, S) = f[x] + Sum(f, S \ {x})
<1> DEFINE R == S \ {x}
           n == f[x]
<1>1. Counts(f, R) /\ n \in Nat
  BY FS_Subset DEF Counts
<1>2. Sum(f, R) \in Nat /\ IsFiniteSet(Units(f, R))
  BY <1>1, SumType
<1>3. IsFiniteSet({x} \X (1 .. n)) /\ Cardinality({x} \X (1 .. n)) = n
  BY <1>1, TaggedCount
<1>4. Units(f, S) = ({x} \X (1 .. n)) \cup Units(f, R)
  BY DEF Units
<1>5. ({x} \X (1 .. n)) \cap Units(f, R) = {}
  <2>1. \A p \in Units(f, R) : p[1] \in R
    BY DEF Units
  <2>2. \A p \in {x} \X (1 .. n) : p[1] = x
    OBVIOUS
  <2> QED
    BY <2>1, <2>2
<1> DEFINE own == {x} \X (1 .. n)
<1> HIDE DEF n
<1>6. Cardinality(Units(f, S))
        = Cardinality(own) + Cardinality(Units(f, R))
  <2>1. IsFiniteSet(own) /\ Units(f, S) = own \cup Units(f, R) /\ own \cap Units(f, R) = {}
    BY <1>3, <1>4, <1>5
  <2> HIDE DEF own
  <2> QED
    BY <1>2, <2>1, DisjointCount, Zenon
<1>7. Sum(f, S) = Cardinality(Units(f, S)) /\ Sum(f, R) = Cardinality(Units(f, R))
  BY DEF Sum, Units
<1> QED
  BY <1>1, <1>2, <1>3, <1>6, <1>7 DEF n

(* A sum depends on the numbers only. *)
LEMMA SumSame ==
  ASSUME NEW f, NEW g, NEW S, \A x \in S : f[x] = g[x]
  PROVE  Sum(f, S) = Sum(g, S)
<1>1. UNION {{x} \X (1 .. f[x]) : x \in S} = UNION {{x} \X (1 .. g[x]) : x \in S}
  OBVIOUS
<1> QED
  BY <1>1 DEF Sum

(* When one of the numbers changes the sum changes as much. *)
LEMMA SumUpdate ==
  ASSUME NEW f, NEW g, NEW S, Counts(f, S), Counts(g, S), NEW x \in S,
         \A y \in S : y # x => f[y] = g[y]
  PROVE  /\ Sum(f, S) \in Nat /\ Sum(g, S) \in Nat /\ f[x] \in Nat /\ g[x] \in Nat
         /\ Sum(g, S) = Sum(f, S) + (g[x] - f[x])
<1>1. /\ Sum(f, S) = f[x] + Sum(f, S \ {x})
      /\ f[x] \in Nat /\ Sum(f, S \ {x}) \in Nat
  BY SumSplit
<1>2. /\ Sum(g, S) = g[x] + Sum(g, S \ {x})
      /\ g[x] \in Nat /\ Sum(g, S \ {x}) \in Nat
  BY SumSplit
<1>3. Sum(f, S \ {x}) = Sum(g, S \ {x})
  <2>1. \A y \in S \ {x} : f[y] = g[y]
    OBVIOUS
  <2> QED
    BY <2>1, SumSame
<1> QED
  BY <1>1, <1>2, <1>3

(* Nothing adds up to nothing. *)
LEMMA SumZero ==
  ASSUME NEW f, NEW S, \A x \in S : f[x] = 0
  PROVE  Sum(f, S) = 0
<1>1. UNION {{x} \X (1 .. f[x]) : x \in S} = {}
  <2>1. \A x \in S : {x} \X (1 .. f[x]) = {}
    <3>1. \A x \in S : 1 .. f[x] = {}
      OBVIOUS
    <3> QED
      BY <3>1
  <2> QED
    BY <2>1
<1> QED
  BY <1>1, FS_EmptySet DEF Sum

-----------------------------------------------------------------------------
(* What a command does on one shard.                                       *)

(* The totals of a command start at zero and are added up. *)
LEMMA TotalsAdd ==
  /\ Zero \in Totals
  /\ \A n \in Nat : [Zero EXCEPT !.deleted = n] \in Totals
  /\ \A n \in Nat : [Zero EXCEPT !.deleted = n].deleted = n
  /\ \A a, b \in Totals : Add(a, b) \in Totals
  /\ \A a, b \in Totals : Add(a, b).deleted = a.deleted + b.deleted
  /\ \A a \in Totals : a.deleted \in Nat
<1>1. Zero \in Totals
  BY DEF Zero, Totals
<1>2. \A n \in Nat : [Zero EXCEPT !.deleted = n] \in Totals
  BY DEF Zero, Totals
<1>3. \A n \in Nat : [Zero EXCEPT !.deleted = n].deleted = n
  BY DEF Zero
<1>4. \A a, b \in Totals : Add(a, b) \in Totals
  BY DEF Totals, Add
<1>5. "deleted" \in DOMAIN Zero
  BY DEF Zero
<1>6. \A a, b \in Totals : Add(a, b).deleted = a.deleted + b.deleted
  BY <1>5 DEF Totals, Add
<1>7. \A a \in Totals : a.deleted \in Nat
  BY <1>5 DEF Totals
<1> QED
  BY <1>1, <1>2, <1>3, <1>4, <1>6, <1>7

(* A part of a shard is held by the same shard. *)
LEMMA LookMap ==
  ASSUME NEW sh, Consistent(sh), NEW k, NEW t, NEW u
  PROVE  /\ get(sh, k, t).shard.map \subseteq sh.map
         /\ ttl(sh, k, t, u).shard.map \subseteq sh.map
<1>1. remove_keys(sh, {k}, "kExpired").map \subseteq sh.map
  BY DEF remove_keys
<1>2. [sh EXCEPT !.lru = MoveToFront(@, k)].map = sh.map
  BY DEF Consistent, Shard
<1> HIDE DEF remove_keys
<1>3. get(sh, k, t).shard.map \subseteq sh.map
  BY <1>1, <1>2 DEF get
<1>4. ttl(sh, k, t, u).shard.map \subseteq sh.map
  BY <1>1 DEF ttl
<1> QED
  BY <1>3, <1>4

(* A lookup leaves a sound shard sound. *)
LEMMA LookSound ==
  ASSUME NEW i, NEW sh, Sound(i, sh), NEW k \in Key, NEW t \in Int, NEW u \in Int
  PROVE  Sound(i, get(sh, k, t).shard) /\ Sound(i, ttl(sh, k, t, u).shard)
<1>1. Consistent(sh) /\ sh.used <= MaxMemoryBytes /\ sh.map \subseteq Routed(i)
  BY DEF Sound
<1>2. sh.used \in Nat /\ MaxMemoryBytes \in Nat
  BY <1>1, SizeAssumption DEF Consistent, Shard
<1>3. Sound(i, get(sh, k, t).shard)
  <2> DEFINE r == get(sh, k, t).shard
  <2>1. Consistent(r) /\ r.used <= sh.used /\ r.map \subseteq sh.map
    BY <1>1, GetConsistent, LookMap
  <2> HIDE DEF r
  <2>2. r.used \in Nat
    BY <2>1 DEF Consistent, Shard
  <2>3. Sound(i, r)
    BY <1>1, <1>2, <2>1, <2>2 DEF Sound
  <2> QED
    BY <2>3 DEF r
<1>4. Sound(i, ttl(sh, k, t, u).shard)
  <2> DEFINE r == ttl(sh, k, t, u).shard
  <2>1. Consistent(r) /\ r.used <= sh.used /\ r.map \subseteq sh.map
    BY <1>1, TtlConsistent, LookMap
  <2> HIDE DEF r
  <2>2. r.used \in Nat
    BY <2>1 DEF Consistent, Shard
  <2>3. Sound(i, r)
    BY <1>1, <1>2, <2>1, <2>2 DEF Sound
  <2> QED
    BY <2>3 DEF r
<1> QED
  BY <1>3, <1>4

(* A write of a key on its own shard leaves that shard sound. *)
LEMMA SetSound ==
  ASSUME NEW i, NEW sh, Sound(i, sh), NEW k \in Routed(i), NEW v \in Value,
         NEW d \in Int \cup {Null}
  PROVE  Sound(i, set(sh, k, v, d)) /\ set(sh, k, v, d).map \subseteq sh.map \cup {k}
<1>1. Consistent(sh) /\ sh.map \subseteq Routed(i) /\ k \in Key
  BY DEF Sound, Routed
<1>2. Consistent(set(sh, k, v, d)) /\ set(sh, k, v, d).used <= MaxMemoryBytes
  BY <1>1, SetConsistent
<1>3. set(sh, k, v, d).map \subseteq sh.map \cup {k}
  BY <1>1, SetEffect
<1> QED
  BY <1>1, <1>2, <1>3 DEF Sound

(* What every handler has to establish. *)
Handled(i, sh, cmd, r) ==
  /\ Sound(i, r.shard)
  /\ r.total \in Totals
  /\ r.ret \in Resp \cup {Null}
  /\ r.shard.map \subseteq sh.map \cup (IF Wrote(cmd, r.ret) THEN {cmd.key} ELSE {})

(* A reply of one of the types. *)
LEMMA Replies ==
  ASSUME NEW type \in RespType, NEW data \in Data
  PROVE  RespValue(type, data) \in Resp /\ RespValue(type, data).type = type
BY DEF RespValue, Resp

(* GET. *)
LEMMA GetHandled ==
  ASSUME NEW i, NEW sh, Sound(i, sh), NEW cmd, cmd.key \in Key, NEW t \in Int
  PROVE  Handled(i, sh, cmd, processGetCommand(cmd, sh, t))
<1> DEFINE g == get(sh, cmd.key, t)
           resp == IF g.ret # Null THEN RespValue("kBulkString", g.ret)
                                   ELSE RespValue("kNullBulkString", Null)
           r == processGetCommand(cmd, sh, t)
<1>1. Sound(i, g.shard) /\ g.shard.map \subseteq sh.map /\ g.ret \in Value \cup {Null}
  BY LookSound, LookMap, GetConsistent DEF Sound
<1>2. r = Result(g.shard, resp)
  BY DEF processGetCommand
<1> HIDE DEF g
<1>3. resp \in Resp
  BY <1>1, Replies DEF RespType, Data
<1> HIDE DEF resp, r
<1>4. r.shard = g.shard /\ r.total \in Totals /\ r.ret = resp
  BY <1>2, TotalsAdd DEF Result
<1> QED
  BY <1>1, <1>3, <1>4 DEF Handled, r

(* TTL. *)
LEMMA TtlHandled ==
  ASSUME NEW i, NEW sh, Sound(i, sh), NEW cmd, cmd.key \in Key, NEW t \in Int
  PROVE  Handled(i, sh, cmd, processTtlCommand(cmd, sh, t))
<1> DEFINE g == ttl(sh, cmd.key, t, t)
           r == processTtlCommand(cmd, sh, t)
<1>1. Sound(i, g.shard) /\ g.shard.map \subseteq sh.map /\ g.ret \in Int
  BY LookSound, LookMap, TtlConsistent DEF Sound
<1>2. r = Result(g.shard, RespValue("kInteger", g.ret))
  BY DEF processTtlCommand
<1> HIDE DEF g
<1>3. RespValue("kInteger", g.ret) \in Resp
  BY <1>1, Replies DEF RespType, Data
<1> HIDE DEF r
<1>4. r.shard = g.shard /\ r.total \in Totals /\ r.ret = RespValue("kInteger", g.ret)
  BY <1>2, TotalsAdd DEF Result
<1> QED
  BY <1>1, <1>3, <1>4 DEF Handled, r

(* EXPIRE. *)
LEMMA ExpireHandled ==
  ASSUME NEW i, NEW sh, Sound(i, sh), NEW cmd, cmd.key \in Key,
         cmd.arg \in Nat \cup {Null}, NEW t \in Int
  PROVE  Handled(i, sh, cmd, processExpireCommand(cmd, sh, t))
<1> DEFINE r == processExpireCommand(cmd, sh, t)
<1>1. CASE cmd.arg = Null
  <2>1. r = Result(sh, RespValue("kError", Null))
    BY <1>1 DEF processExpireCommand
  <2>2. RespValue("kError", Null) \in Resp
    BY Replies DEF RespType, Data
  <2> HIDE DEF r
  <2>3. r.shard = sh /\ r.total \in Totals /\ r.ret = RespValue("kError", Null)
    BY <2>1, TotalsAdd DEF Result
  <2> QED
    BY <2>2, <2>3 DEF Handled, r
<1>2. CASE cmd.arg # Null
  <2> DEFINE d == Deadline(t, cmd.arg)
             g == expire(sh, cmd.key, d)
             n == IF g.ret THEN 1 ELSE 0
  <2>1. d \in Int
    <3>1. cmd.arg \in Int
      BY <1>2
    <3> QED
      BY <3>1, DeadlineType
  <2>2. r = Result(g.shard, RespValue("kInteger", n))
    BY <1>2 DEF processExpireCommand
  <2> HIDE DEF d
  <2>3. /\ Consistent(g.shard) /\ g.shard.used = sh.used /\ g.shard.map = sh.map
    BY <2>1, ExpireConsistent, ExpireEffect DEF Sound
  <2> HIDE DEF g
  <2>4. Sound(i, g.shard)
    BY <2>3 DEF Sound
  <2>5. n \in Int
    OBVIOUS
  <2> HIDE DEF n
  <2>6. RespValue("kInteger", n) \in Resp
    BY <2>5, Replies DEF RespType, Data
  <2> HIDE DEF r
  <2>7. r.shard = g.shard /\ r.total \in Totals /\ r.ret = RespValue("kInteger", n)
    BY <2>2, TotalsAdd DEF Result
  <2> QED
    BY <2>3, <2>4, <2>6, <2>7 DEF Handled, r
<1> QED
  BY <1>1, <1>2

(* The outcomes of SET: an error, a refusal after a lookup, a plain write  *)
(* and a write after a lookup.                                             *)
SetOutcome(cmd, sh, t, r) ==
  LET g     == get(sh, cmd.key, t)
      ok    == RespValue("kSimpleString", Null)
      null  == RespValue("kNullBulkString", Null)
      error == RespValue("kError", Null)
  IN  \/ r = Result(sh, error) /\ cmd.opt \notin {"NX", "XX"}
      \/ /\ r = Result(g.shard, null) /\ cmd.opt \in {"NX", "XX"}
         /\ cmd.opt = "NX" <=> g.ret # Null
      \/ /\ \E d \in Int \cup {Null} : r = Result(set(sh, cmd.key, cmd.value, d), ok)
         /\ cmd.opt \notin {"NX", "XX"}
      \/ /\ r = Result(set(g.shard, cmd.key, cmd.value, Null), ok)
         /\ cmd.opt \in {"NX", "XX"}
         /\ cmd.opt = "XX" <=> g.ret # Null

(* SET ends in one of the four ways of SetOutcome, on every branch of      *)
(* processSetCommand.                                                      *)
LEMMA SetOutcomes ==
  ASSUME NEW sh, NEW cmd, cmd.arg \in Nat \cup {Null}, NEW t \in Int
  PROVE  SetOutcome(cmd, sh, t, processSetCommand(cmd, sh, t))
<1> DEFINE r == processSetCommand(cmd, sh, t)
           g == get(sh, cmd.key, t)
           ok == RespValue("kSimpleString", Null)
           null == RespValue("kNullBulkString", Null)
           error == RespValue("kError", Null)
<1>1. CASE cmd.opt = "none"
  <2>1. r = Result(set(sh, cmd.key, cmd.value, Null), ok)
    BY <1>1 DEF processSetCommand
  <2> HIDE DEF r, ok
  <2>2. \E d \in Int \cup {Null} : r = Result(set(sh, cmd.key, cmd.value, d), ok)
    BY <2>1
  <2> QED
    BY <1>1, <2>2 DEF SetOutcome, r, ok
<1>2. CASE cmd.opt = "NX"
  <2>1. r = IF g.ret # Null THEN Result(g.shard, null)
                            ELSE Result(set(g.shard, cmd.key, cmd.value, Null), ok)
    BY <1>2 DEF processSetCommand
  <2> HIDE DEF r
  <2> QED
    BY <1>2, <2>1 DEF SetOutcome, r
<1>3. CASE cmd.opt = "XX"
  <2>1. r = IF g.ret # Null THEN Result(set(g.shard, cmd.key, cmd.value, Null), ok)
                            ELSE Result(g.shard, null)
    BY <1>3 DEF processSetCommand
  <2> HIDE DEF r
  <2> QED
    BY <1>3, <2>1 DEF SetOutcome, r
<1>4. CASE cmd.opt = "EX" /\ cmd.arg = Null
  <2>1. r = Result(sh, error)
    BY <1>4 DEF processSetCommand
  <2> HIDE DEF r
  <2> QED
    BY <1>4, <2>1 DEF SetOutcome, r
<1>5. CASE cmd.opt = "EX" /\ cmd.arg # Null
  <2>1. r = Result(set(sh, cmd.key, cmd.value, Deadline(t, cmd.arg)), ok)
    BY <1>5 DEF processSetCommand
  <2>2. cmd.arg \in Int
    BY <1>5
  <2>3. Deadline(t, cmd.arg) \in Int
    BY <2>2, DeadlineType
  <2> HIDE DEF r, ok
  <2>4. \E d \in Int \cup {Null} : r = Result(set(sh, cmd.key, cmd.value, d), ok)
    BY <2>1, <2>3
  <2> QED
    BY <1>5, <2>4 DEF SetOutcome, r, ok
<1>6. CASE cmd.opt \notin {"none", "NX", "XX", "EX"}
  <2>1. r = Result(sh, error)
    BY <1>6 DEF processSetCommand
  <2> HIDE DEF r
  <2> QED
    BY <1>6, <2>1 DEF SetOutcome, r
<1> QED
  BY <1>1, <1>2, <1>3, <1>4, <1>5, <1>6

(* The fields of a Result. *)
LEMMA ResultFields ==
  ASSUME NEW sh, NEW ret
  PROVE  /\ Result(sh, ret).shard = sh /\ Result(sh, ret).ret = ret
         /\ Result(sh, ret).total = Zero /\ Result(sh, ret).total \in Totals
BY TotalsAdd DEF Result

(* SET. *)
LEMMA SetHandled ==
  ASSUME NEW i, NEW sh, Sound(i, sh), NEW cmd, cmd.type = "kSet",
         cmd.key \in Routed(i), cmd.value \in Value,
         cmd.arg \in Nat \cup {Null}, NEW t \in Int
  PROVE  Handled(i, sh, cmd, processSetCommand(cmd, sh, t))
<1> DEFINE r == processSetCommand(cmd, sh, t)
           g == get(sh, cmd.key, t)
           ok == RespValue("kSimpleString", Null)
           null == RespValue("kNullBulkString", Null)
           error == RespValue("kError", Null)
<1>1. SetOutcome(cmd, sh, t, r)
  BY SetOutcomes
<1>2. /\ ok \in Resp /\ null \in Resp /\ error \in Resp
      /\ ok.type = "kSimpleString" /\ null.type # "kSimpleString"
      /\ error.type # "kSimpleString"
  BY Replies DEF RespType, Data
<1>3. cmd.key \in Key
  BY DEF Routed
<1>4. Sound(i, g.shard) /\ g.shard.map \subseteq sh.map
  BY <1>3, LookSound, LookMap DEF Sound
<1> HIDE DEF r, g, ok, null, error
<1>5. CASE r = Result(sh, error)
  <2>1. r.shard = sh /\ r.ret = error /\ r.total \in Totals
    BY <1>5, ResultFields
  <2> QED
    BY <1>2, <2>1 DEF Handled, r
<1>6. CASE r = Result(g.shard, null)
  <2>1. r.shard = g.shard /\ r.ret = null /\ r.total \in Totals
    BY <1>6, ResultFields
  <2> QED
    BY <1>2, <1>4, <2>1 DEF Handled, r
<1>7. ASSUME NEW from, Sound(i, from), from.map \subseteq sh.map, NEW d \in Int \cup {Null},
             r = Result(set(from, cmd.key, cmd.value, d), ok)
      PROVE  Handled(i, sh, cmd, r)
  <2> DEFINE n == set(from, cmd.key, cmd.value, d)
  <2>1. Sound(i, n) /\ n.map \subseteq from.map \cup {cmd.key}
    BY <1>7, SetSound
  <2>2. r.shard = n /\ r.ret = ok /\ r.total \in Totals
    BY <1>7, ResultFields
  <2> HIDE DEF n
  <2>3. Wrote(cmd, r.ret)
    BY <1>2, <2>2 DEF Wrote
  <2> QED
    BY <1>2, <1>7, <2>1, <2>2, <2>3 DEF Handled
<1>8. \/ r = Result(sh, error)
      \/ r = Result(g.shard, null)
      \/ \E d \in Int \cup {Null} : r = Result(set(sh, cmd.key, cmd.value, d), ok)
      \/ r = Result(set(g.shard, cmd.key, cmd.value, Null), ok)
  BY <1>1 DEF SetOutcome, g, ok, null, error
<1>9. CASE \E d \in Int \cup {Null} : r = Result(set(sh, cmd.key, cmd.value, d), ok)
  BY <1>7, <1>9 DEF r
<1>10. CASE r = Result(set(g.shard, cmd.key, cmd.value, Null), ok)
  BY <1>4, <1>7, <1>10 DEF r
<1> QED
  BY <1>5, <1>6, <1>8, <1>9, <1>10 DEF r

(* The part of DEL that runs on a shard removes all the keys named there.  *)
LEMMA DelHandled ==
  ASSUME NEW i, NEW sh, Sound(i, sh), NEW cmd, cmd.type = "kDel"
  PROVE  LET r == processDelKeys(cmd, i, sh)
         IN  /\ Handled(i, sh, cmd, r)
             /\ r.ret = Null
             /\ \A k \in cmd.keys : ShardOf[k] = i => k \notin r.shard.map
             /\ r.total.deleted = Cardinality(KeysOn(cmd, i) \cap sh.map)
             /\ r.shard = remove_keys(sh, KeysOn(cmd, i) \cap sh.map, "kDelete")
<1> DEFINE K == KeysOn(cmd, i) \cap sh.map
           m == remove_keys(sh, K, "kDelete")
           r == processDelKeys(cmd, i, sh)
           n == Cardinality(K)
<1>1. r = [shard |-> m, total |-> [Zero EXCEPT !.deleted = n], ret |-> Null]
  BY DEF processDelKeys
<1>2. K \subseteq sh.map /\ Consistent(sh)
  BY DEF Sound
<1>3. \A k \in cmd.keys : ShardOf[k] = i => k \notin sh.map \ K
  BY DEF KeysOn
<1> HIDE DEF K
<1>4. Consistent(m) /\ m.used <= sh.used /\ m.map = sh.map \ K /\ n \in Nat
  BY <1>2, RemoveKeysConsistent, RemoveEffect
<1> HIDE DEF m, n
<1>5. r.shard = m /\ r.ret = Null /\ r.total \in Totals /\ r.total.deleted = n
  <2> DEFINE z == [Zero EXCEPT !.deleted = n]
  <2>1. z \in Totals /\ z.deleted = n
    BY <1>4, TotalsAdd
  <2>2. r = [shard |-> m, total |-> z, ret |-> Null]
    BY <1>1
  <2> HIDE DEF z, r
  <2> QED
    BY <2>1, <2>2
<1>6. m.used <= MaxMemoryBytes
  BY <1>2, <1>4, SizeAssumption DEF Sound, Consistent, Shard
<1>7. Sound(i, m)
  BY <1>4, <1>6 DEF Sound
<1> HIDE DEF r
<1>8. Handled(i, sh, cmd, r)
  BY <1>4, <1>5, <1>7 DEF Handled
<1> QED
  BY <1>3, <1>4, <1>5, <1>8 DEF r, m, n, K

(* The part of INFO that runs on a shard changes nothing. *)
LEMMA StatsHandled ==
  ASSUME NEW i, NEW sh, Sound(i, sh), NEW cmd
  PROVE  LET r == ShardStats(sh)
         IN  /\ Handled(i, sh, cmd, r)
             /\ r.shard = sh /\ r.ret = Null /\ r.total.deleted = 0
             /\ r.total.evictions = sh.evictions /\ r.total.expired = sh.expired
             /\ r.total.used_payload_bytes = sh.used
             /\ r.total.max_memory_bytes = MaxMemoryBytes
<1> DEFINE q == get_stats(sh)
           tot == [f \in DOMAIN Zero |-> IF f = "deleted" THEN 0 ELSE q[f]]
           r == ShardStats(sh)
<1>1. r = [shard |-> sh, total |-> tot, ret |-> Null]
  BY DEF ShardStats
<1>2. /\ sh.used \in Nat /\ sh.evictions \in Nat /\ sh.expired \in Nat
      /\ Cardinality(sh.map) \in Nat /\ MaxMemoryBytes \in Nat
  BY FS_CardinalityType, SizeAssumption DEF Sound, Consistent, Shard
<1>3. /\ q["used_payload_bytes"] = sh.used /\ q["evictions"] = sh.evictions
      /\ q["expired"] = sh.expired /\ q["max_memory_bytes"] = MaxMemoryBytes
      /\ q["key_count"] = Cardinality(sh.map)
  BY DEF get_stats
<1>4. DOMAIN Zero = {"used_payload_bytes", "key_count", "evictions", "expired",
                     "max_memory_bytes", "deleted"}
  BY DEF Zero
<1> HIDE DEF q
<1>5. tot \in Totals
  BY <1>2, <1>3, <1>4 DEF Totals
<1>6. /\ tot["used_payload_bytes"] = sh.used /\ tot["evictions"] = sh.evictions
      /\ tot["expired"] = sh.expired /\ tot["max_memory_bytes"] = MaxMemoryBytes
      /\ tot["deleted"] = 0
  BY <1>3, <1>4
<1> HIDE DEF tot
<1>7. r.shard = sh /\ r.total = tot /\ r.ret = Null
  BY <1>1
<1> HIDE DEF r
<1>8. Handled(i, sh, cmd, r)
  BY <1>5, <1>7 DEF Handled
<1> QED
  BY <1>6, <1>7, <1>8 DEF r

(* A command runs only on shards it has business with. *)
LEMMA TargetsType ==
  ASSUME NEW cmd \in Command
  PROVE  /\ Targets(cmd) \subseteq ShardIndex
         /\ \A i \in Targets(cmd) :
              \/ /\ cmd.type \in {"kGet", "kSet", "kExpire", "kTtl"}
                 /\ cmd.key \in Routed(i) /\ Targets(cmd) = {i}
              \/ cmd.type = "kDel"
              \/ cmd.type = "kInfo" /\ Targets(cmd) = ShardIndex
<1>1. cmd.type \in CommandType
      /\ (cmd.type \in {"kGet", "kSet", "kExpire", "kTtl"} => cmd.key \in Key)
  BY CommandAssumption
<1>2. CASE cmd.type \in {"kGet", "kSet", "kExpire", "kTtl"}
  <2>1. Targets(cmd) = {ShardOf[cmd.key]}
    BY <1>2 DEF Targets
  <2> QED
    BY <1>1, <1>2, <2>1, ExecutorAssumption DEF Routed
<1>3. CASE cmd.type = "kDel"
  <2>1. Targets(cmd) = {i \in ShardIndex : KeysOn(cmd, i) # {}}
    BY <1>3 DEF Targets
  <2> QED
    BY <1>3, <2>1
<1>4. CASE cmd.type = "kInfo" /\ cmd.opt # "bad"
  <2>1. Targets(cmd) = ShardIndex
    BY <1>4 DEF Targets
  <2> QED
    BY <1>4, <2>1
<1>5. CASE cmd.type \notin {"kGet", "kSet", "kExpire", "kTtl", "kDel"}
           /\ ~ (cmd.type = "kInfo" /\ cmd.opt # "bad")
  <2>1. Targets(cmd) = {}
    BY <1>5 DEF Targets
  <2> QED
    BY <2>1
<1> QED
  BY <1>2, <1>3, <1>4, <1>5

(* Whatever a command does on a shard, the shard stays sound. *)
LEMMA RunHandled ==
  ASSUME NEW cmd \in Command, NEW i \in Targets(cmd), NEW sh, Sound(i, sh), NEW t \in Int
  PROVE  Handled(i, sh, cmd, Run(cmd, i, sh, t))
<1>1. /\ cmd.type = "kSet" => cmd.value \in Value
      /\ cmd.arg \in Nat \cup {Null}
  BY CommandAssumption
<1>2. \A k \in Routed(i) : k \in Key
  BY DEF Routed
<1>3. CASE cmd.type = "kGet"
  <2>1. Run(cmd, i, sh, t) = processGetCommand(cmd, sh, t)
    BY <1>3 DEF Run
  <2> QED
    BY <1>2, <1>3, <2>1, TargetsType, GetHandled
<1>4. CASE cmd.type = "kSet"
  <2>1. Run(cmd, i, sh, t) = processSetCommand(cmd, sh, t)
    BY <1>4 DEF Run
  <2> QED
    BY <1>1, <1>4, <2>1, TargetsType, SetHandled
<1>5. CASE cmd.type = "kDel"
  <2>1. Run(cmd, i, sh, t) = processDelKeys(cmd, i, sh)
    BY <1>5 DEF Run
  <2>2. Handled(i, sh, cmd, processDelKeys(cmd, i, sh))
    BY <1>5, DelHandled
  <2> QED
    BY <2>1, <2>2
<1>6. CASE cmd.type = "kExpire"
  <2>1. Run(cmd, i, sh, t) = processExpireCommand(cmd, sh, t)
    BY <1>6 DEF Run
  <2> QED
    BY <1>1, <1>2, <1>6, <2>1, TargetsType, ExpireHandled
<1>7. CASE cmd.type = "kTtl"
  <2>1. Run(cmd, i, sh, t) = processTtlCommand(cmd, sh, t)
    BY <1>7 DEF Run
  <2> QED
    BY <1>2, <1>7, <2>1, TargetsType, TtlHandled
<1>8. CASE cmd.type = "kInfo"
  <2>1. Run(cmd, i, sh, t) = ShardStats(sh)
    BY <1>8 DEF Run
  <2> QED
    BY <2>1, StatsHandled
<1> QED
  BY <1>3, <1>4, <1>5, <1>6, <1>7, <1>8, TargetsType

-----------------------------------------------------------------------------
(* The coroutines.                                                         *)

(* A session visits the first of the shards left. *)
LEMMA FirstTodo ==
  ASSUME NEW T, T \subseteq ShardIndex, T # {}
  PROVE  Min(T) \in T
<1>1. T \subseteq Nat
  BY ExecutorAssumption DEF ShardIndex
<1>2. \E x \in T : \A y \in T : x <= y
  BY <1>1, Least
<1> QED
  BY <1>2 DEF Min

(* The commands that touch no shard are answered with a reply. *)
LEMMA ImmediateType ==
  ASSUME NEW cmd \in Command
  PROVE  Immediate(cmd) \in Resp
<1>1. RespValue("kError", Null) \in Resp
  BY Replies DEF RespType, Data
<1>2. processPingCommand(cmd) \in Resp
  <2>1. cmd.value \in Value \cup {Null}
    BY CommandAssumption
  <2>2. (IF cmd.value = Null THEN "PONG" ELSE cmd.value) \in Data
    BY <2>1 DEF Data
  <2> QED
    BY <2>2, Replies DEF RespType, processPingCommand
<1>3. processCommandCommand(cmd) \in Resp
  <2>1. RespValue("kArray", Null) \in Resp
    BY Replies DEF RespType, Data
  <2>2. RespValue("kInteger", CommandCount) \in Resp
    BY Replies DEF RespType, Data
  <2> QED
    BY <1>1, <2>1, <2>2 DEF processCommandCommand, CommandCount
<1>4. processConfigCommand(cmd) \in Resp
  <2>1. RespValue("kArray", Null) \in Resp
    BY Replies DEF RespType, Data
  <2> QED
    BY <1>1, <2>1 DEF processConfigCommand
<1>5. processUnknownCommand \in Resp
  BY <1>1 DEF processUnknownCommand
<1>6. CASE cmd.type = "kPing"
  BY <1>2, <1>6 DEF Immediate
<1>7. CASE cmd.type = "kCommand"
  BY <1>3, <1>7 DEF Immediate
<1>8. CASE cmd.type = "kConfig"
  BY <1>4, <1>8 DEF Immediate
<1>9. CASE cmd.type = "kUnknown"
  BY <1>5, <1>9 DEF Immediate
<1>10. CASE cmd.type \notin {"kPing", "kCommand", "kConfig", "kUnknown"}
  <2>1. Immediate(cmd) = RespValue("kError", Null)
    BY <1>10 DEF Immediate
  <2> QED
    BY <1>1, <2>1
<1> QED
  BY <1>6, <1>7, <1>8, <1>9, <1>10

(* Answer is a reply, or what the last shard returned. *)
LEMMA AnswerType ==
  ASSUME NEW c \in Coroutine
  PROVE  Answer(c) \in Resp \cup {Null}
<1>1. c.total.deleted \in Int
  <2>1. c.total \in Totals
    BY DEF Coroutine
  <2>2. c.total.deleted \in Nat
    BY <2>1, TotalsAdd
  <2> QED
    BY <2>2
<1>2. RespValue("kInteger", c.total.deleted) \in Resp
  BY <1>1, Replies DEF RespType, Data
<1>3. RespValue("kBulkString", Null) \in Resp
  BY Replies DEF RespType, Data
<1>4. c.ret \in Resp \cup {Null}
  BY DEF Coroutine
<1> QED
  BY <1>2, <1>3, <1>4 DEF Answer

(* Going on leaves a coroutine suspended at its next job or at its reply. *)
LEMMA AdvanceForm ==
  ASSUME NEW c \in Coroutine, c.cmd \in Command, c.todo \subseteq Targets(c.cmd),
         c.res = Null
  PROVE  LET a == Advance(c)
         IN  /\ WellFormed(a)
             /\ a.cmd = c.cmd /\ a.todo = c.todo /\ a.total = c.total /\ a.res = Null
             /\ c.todo # {} => a.pc = "posted" /\ a.ret = c.ret
             /\ c.todo = {} => a.pc = "reply" /\ a.ret = Answer(c)
<1> DEFINE a == Advance(c)
<1>1. CASE c.todo # {}
  <2>1. a = [c EXCEPT !.pc = "posted"]
    BY <1>1 DEF Advance
  <2> HIDE DEF a
  <2>2. /\ a \in Coroutine
        /\ a.cmd = c.cmd /\ a.todo = c.todo /\ a.total = c.total /\ a.res = c.res
        /\ a.pc = "posted" /\ a.ret = c.ret
    BY <2>1 DEF Coroutine
  <2> QED
    BY <1>1, <2>2 DEF WellFormed, a
<1>2. CASE c.todo = {}
  <2> DEFINE w == Answer(c)
  <2>1. a = [c EXCEPT !.pc = "reply", !.ret = w]
    BY <1>2 DEF Advance
  <2>2. w \in Resp \cup {Null}
    BY AnswerType
  <2> HIDE DEF a, w
  <2>3. /\ a \in Coroutine
        /\ a.cmd = c.cmd /\ a.todo = c.todo /\ a.total = c.total /\ a.res = c.res
        /\ a.pc = "reply" /\ a.ret = w
    BY <2>1, <2>2 DEF Coroutine
  <2> QED
    BY <1>2, <2>3 DEF WellFormed, a, w
<1> QED
  BY <1>1, <1>2

(* An idle coroutine is well formed. *)
LEMMA IdleForm == WellFormed(Idle) /\ Idle.pc = "idle" /\ Idle.total = Zero
<1>1. Idle \in Coroutine
  BY TotalsAdd DEF Idle, Coroutine
<1> QED
  BY <1>1 DEF WellFormed, Idle

(* The coroutine of a command that has just begun. *)
Begun(cmd, todo, total, ret) ==
  [pc |-> "idle", cmd |-> cmd, todo |-> todo, total |-> total, ret |-> ret, res |-> Null]

(* The same, as the only record with those fields. *)
Exactly(cmd, todo, total, ret) ==
  [pc : {"idle"}, cmd : {cmd}, todo : {todo}, total : {total}, ret : {ret}, res : {Null}]

(* The fields of a record determine it. *)
LEMMA ExactlyOne ==
  ASSUME NEW a, NEW b, NEW c, NEW d, NEW z \in Exactly(a, b, c, d)
  PROVE  z = Begun(a, b, c, d)
BY DEF Exactly, Begun

(* The two ways Start writes such a coroutine. *)
LEMMA BegunIs ==
  ASSUME NEW a, NEW b, NEW d
  PROVE  [Idle EXCEPT !.cmd = a, !.todo = b, !.ret = d] = Begun(a, b, Zero, d)
<1>1. [Idle EXCEPT !.cmd = a, !.todo = b, !.ret = d] \in Exactly(a, b, Zero, d)
  BY DEF Idle, Exactly
<1> QED
  BY <1>1, ExactlyOne

(* The second takes the result of the home shard. *)
With(c, total, ret) == [c EXCEPT !.total = total, !.ret = ret]

(* It is the coroutine begun with that result. *)
LEMMA BegunWith ==
  ASSUME NEW a, NEW b, NEW c, NEW d, NEW x, NEW y
  PROVE  With(Begun(a, b, c, d), x, y) = Begun(a, b, x, y)
<1>1. With(Begun(a, b, c, d), x, y) \in Exactly(a, b, x, y)
  BY DEF Begun, Exactly, With
<1> QED
  BY <1>1, ExactlyOne

(* The removals an INFO notes when it begins. *)
Noted(s, cmd) ==
  IF cmd.type = "kInfo" THEN [history EXCEPT !.floor[s] = TotalRemovals] ELSE history

(* A command that begins with a job on another shard, or with its answer. *)
StartsAway(s, cmd) ==
  LET first == IF Targets(cmd) = {} THEN Immediate(cmd) ELSE Null
  IN  /\ shards' = shards
      /\ session' = [session EXCEPT ![s] = Advance(Begun(cmd, Targets(cmd), Zero, first))]
      /\ history' = Noted(s, cmd)

(* A command that begins on the home shard of its session. *)
StartsHome(s, cmd) ==
  LET h == home[s]
      r == Run(cmd, h, shards[h], now)
  IN  /\ h \in Targets(cmd) /\ cmd.type # "kInfo"
      /\ shards' = [shards EXCEPT ![h] = r.shard]
      /\ session' = [session EXCEPT ![s] =
           Advance(Begun(cmd, Targets(cmd) \ {h}, r.total, r.ret))]
      /\ history' = Remember(history, cmd, shards[h], r.shard, r.ret)

(* Start is one of the two. *)
LEMMA StartCases ==
  ASSUME NEW s \in Session, NEW cmd \in Command, Start(s, cmd)
  PROVE  /\ session[s].pc = "idle" /\ now' = now /\ stopped' = stopped
         /\ StartsAway(s, cmd) \/ StartsHome(s, cmd)
<1> DEFINE local == LocalTargets(s, cmd)
           h == home[s]
           r == Run(cmd, h, shards[h], now)
           todo == Targets(cmd) \ local
           first == IF Targets(cmd) = {} THEN Immediate(cmd) ELSE Null
           begun == [Idle EXCEPT !.cmd = cmd, !.todo = todo, !.ret = first]
           noted == Noted(s, cmd)
           seen == Remember(noted, cmd, shards[h], r.shard, r.ret)
<1>1. /\ session[s].pc = "idle" /\ now' = now /\ stopped' = stopped
      /\ \/ /\ local = {} /\ shards' = shards
            /\ session' = [session EXCEPT ![s] = Advance(begun)]
            /\ history' = noted
         \/ /\ local # {} /\ shards' = [shards EXCEPT ![h] = r.shard]
            /\ session' = [session EXCEPT ![s] =
                 Advance([begun EXCEPT !.total = r.total, !.ret = r.ret])]
            /\ history' = seen
  BY DEF Start, Noted
<1>2. local # {} => local = {h} /\ h \in Targets(cmd) /\ cmd.type # "kInfo"
  BY DEF LocalTargets
<1>3. local = {} => todo = Targets(cmd)
  OBVIOUS
<1>4. begun = Begun(cmd, todo, Zero, first)
  BY BegunIs
<1>5. [begun EXCEPT !.total = r.total, !.ret = r.ret] = Begun(cmd, todo, r.total, r.ret)
  <2> HIDE DEF r, todo, first, begun
  <2>1. With(begun, r.total, r.ret) = Begun(cmd, todo, r.total, r.ret)
    BY <1>4, BegunWith
  <2> QED
    BY <2>1 DEF With
<1>6. cmd.type # "kInfo" => noted = history
  BY DEF Noted
<1> HIDE DEF begun, noted
<1>7. CASE local = {}
  <2> HIDE DEF local, first
  <2>1. /\ shards' = shards
        /\ session' = [session EXCEPT ![s] = Advance(Begun(cmd, Targets(cmd), Zero, first))]
        /\ history' = noted
    BY <1>1, <1>3, <1>4, <1>7
  <2>2. StartsAway(s, cmd)
    BY <2>1 DEF StartsAway, first, noted
  <2> QED
    BY <1>1, <2>2
<1>8. CASE local # {}
  <2>1. h \in Targets(cmd) /\ cmd.type # "kInfo" /\ todo = Targets(cmd) \ {h}
    BY <1>2, <1>8
  <2>2. seen = Remember(history, cmd, shards[h], r.shard, r.ret)
    BY <1>6, <2>1
  <2> HIDE DEF local, r, todo, seen
  <2>3. /\ shards' = [shards EXCEPT ![h] = r.shard]
        /\ session' = [session EXCEPT ![s] =
             Advance(Begun(cmd, Targets(cmd) \ {h}, r.total, r.ret))]
        /\ history' = Remember(history, cmd, shards[h], r.shard, r.ret)
    BY <1>1, <1>5, <1>8, <2>1, <2>2
  <2>4. StartsHome(s, cmd)
    BY <2>1, <2>3 DEF StartsHome, r
  <2> QED
    BY <1>1, <2>4
<1> QED
  BY <1>7, <1>8

(* A command that begins has its shards still to visit. *)
LEMMA BegunForm ==
  ASSUME NEW cmd \in Command, NEW todo, todo \subseteq Targets(cmd),
         NEW total \in Totals, NEW ret \in Resp \cup {Null}
  PROVE  LET b == Begun(cmd, todo, total, ret)
         IN  /\ b \in Coroutine /\ b.cmd = cmd /\ b.todo = todo
             /\ b.total = total /\ b.ret = ret /\ b.res = Null
<1>1. todo \subseteq ShardIndex
  BY TargetsType
<1> QED
  BY <1>1 DEF Begun, Coroutine

(* Pool and Sessions survive a change of one shard or of one coroutine. *)
LEMMA OneShard ==
  ASSUME Pool, NEW i \in ShardIndex, NEW sh, Sound(i, sh),
         shards' = [shards EXCEPT ![i] = sh]
  PROVE  /\ Pool'
         /\ shards'[i] = sh /\ \A j \in ShardIndex : j # i => shards'[j] = shards[j]
<1>1. sh \in Shard
  BY DEF Sound, Consistent
<1>2. shards' \in [ShardIndex -> Shard]
  BY <1>1 DEF Pool
<1>3. shards'[i] = sh /\ \A j \in ShardIndex : j # i => shards'[j] = shards[j]
  BY DEF Pool
<1>4. \A j \in ShardIndex : Sound(j, shards'[j])
  BY <1>3 DEF Pool
<1> QED
  BY <1>2, <1>3, <1>4 DEF Pool

(* The other sessions are left as they were. *)
LEMMA OneSession ==
  ASSUME Sessions, NEW s \in Session, NEW c, WellFormed(c),
         session' = [session EXCEPT ![s] = c]
  PROVE  /\ Sessions'
         /\ session'[s] = c /\ \A t \in Session : t # s => session'[t] = session[t]
<1>1. c \in Coroutine
  BY DEF WellFormed
<1>2. session' \in [Session -> Coroutine]
  BY <1>1 DEF Sessions
<1>3. session'[s] = c /\ \A t \in Session : t # s => session'[t] = session[t]
  BY DEF Sessions
<1>4. \A t \in Session : WellFormed(session'[t])
  BY <1>3 DEF Sessions
<1> QED
  BY <1>2, <1>3, <1>4 DEF Sessions

-----------------------------------------------------------------------------
(* The steps, each as what it does to a coroutine and to a shard.          *)

(* The job of s ran on shard i with result r. *)
JobRan(s, i, r) ==
  /\ i \in session[s].todo /\ i = Min(session[s].todo)
  /\ shards' = [shards EXCEPT ![i] = r.shard]
  /\ session' = [session EXCEPT ![s] =
       [session[s] EXCEPT !.pc = "ran", !.res = [total |-> r.total, ret |-> r.ret]]]
  /\ history' = Remember(history, session[s].cmd, shards[i], r.shard, r.ret)

(* A command that begins away from home. *)
LEMMA AwayStep ==
  ASSUME IInv, NEW s \in Session, NEW cmd \in Command, StartsAway(s, cmd)
  PROVE  /\ Pool' /\ Sessions'
         /\ \A t \in Session : t # s => session'[t] = session[t]
         /\ session'[s].cmd = cmd /\ session'[s].todo = Targets(cmd)
         /\ session'[s].total = Zero /\ session'[s].res = Null
         /\ Targets(cmd) # {} => session'[s].pc = "posted"
         /\ Targets(cmd) = {} => session'[s].pc = "reply"
         /\ Targets(cmd) = {} /\ cmd.type = "kInfo" => session'[s].ret.type = "kError"
<1> DEFINE first == IF Targets(cmd) = {} THEN Immediate(cmd) ELSE Null
           b == Begun(cmd, Targets(cmd), Zero, first)
           a == Advance(b)
<1>1. first \in Resp \cup {Null}
  BY ImmediateType
<1>2. shards' = shards /\ session' = [session EXCEPT ![s] = a]
  BY DEF StartsAway
<1>a. Targets(cmd) = {} /\ cmd.type = "kInfo" => first # Null /\ first.type = "kError"
  <2> SUFFICES ASSUME Targets(cmd) = {}, cmd.type = "kInfo"
               PROVE  first # Null /\ first.type = "kError"
    OBVIOUS
  <2> DEFINE e == RespValue("kError", Null)
  <2>1. first = e
    <3>1. Immediate(cmd) = e
      BY DEF Immediate
    <3> QED
      BY <3>1
  <2>2. e \in Resp /\ e.type = "kError"
    BY Replies DEF RespType, Data
  <2> HIDE DEF first, e
  <2>3. e # Null
    BY ReplyAssumption DEF e
  <2> QED
    BY <2>1, <2>2, <2>3
<1> HIDE DEF first
<1>3. /\ b \in Coroutine /\ b.cmd = cmd /\ b.todo = Targets(cmd)
      /\ b.total = Zero /\ b.res = Null /\ b.ret = first
  <2>1. Zero \in Totals /\ Targets(cmd) \subseteq Targets(cmd)
    BY TotalsAdd
  <2> QED
    BY <1>1, <2>1, BegunForm
<1> HIDE DEF b
<1>4. /\ WellFormed(a) /\ a.cmd = cmd /\ a.todo = Targets(cmd)
      /\ a.total = Zero /\ a.res = Null
      /\ Targets(cmd) # {} => a.pc = "posted"
      /\ Targets(cmd) = {} => a.pc = "reply" /\ a.ret = Answer(b)
  BY <1>3, AdvanceForm
<1>b. Targets(cmd) = {} /\ cmd.type = "kInfo" => Answer(b) = first
  BY <1>a, <1>3 DEF Answer
<1> HIDE DEF a
<1>5. Pool'
  BY <1>2 DEF IInv, Pool
<1>6. /\ Sessions' /\ session'[s] = a
      /\ \A t \in Session : t # s => session'[t] = session[t]
  BY <1>2, <1>4, OneSession DEF IInv
<1> QED
  BY <1>a, <1>b, <1>4, <1>5, <1>6

(* A command that begins at home. *)
LEMMA HomeStep ==
  ASSUME IInv, NEW s \in Session, NEW cmd \in Command, StartsHome(s, cmd)
  PROVE  LET h == home[s]
             r == Run(cmd, h, shards[h], now)
         IN  /\ Pool' /\ Sessions' /\ h \in ShardIndex /\ h \in Targets(cmd)
             /\ Handled(h, shards[h], cmd, r)
             /\ shards'[h] = r.shard
             /\ \A j \in ShardIndex : j # h => shards'[j] = shards[j]
             /\ \A t \in Session : t # s => session'[t] = session[t]
             /\ session'[s].cmd = cmd /\ session'[s].todo = Targets(cmd) \ {h}
             /\ session'[s].total = r.total /\ session'[s].res = Null
             /\ session'[s].pc \in {"posted", "reply"}
             /\ session'[s].pc = "reply" /\ cmd.type # "kDel" => session'[s].ret = r.ret
<1> DEFINE h == home[s]
           r == Run(cmd, h, shards[h], now)
           b == Begun(cmd, Targets(cmd) \ {h}, r.total, r.ret)
           a == Advance(b)
<1>1. /\ h \in Targets(cmd) /\ shards' = [shards EXCEPT ![h] = r.shard]
      /\ cmd.type # "kInfo" /\ session' = [session EXCEPT ![s] = a]
  BY DEF StartsHome
<1>2. h \in ShardIndex
  BY <1>1, TargetsType
<1>3. Sound(h, shards[h]) /\ now \in Int
  BY <1>2 DEF IInv, Pool
<1>4. Handled(h, shards[h], cmd, r)
  BY <1>1, <1>3, RunHandled
<1> HIDE DEF r, h
<1>5. Sound(h, r.shard) /\ r.total \in Totals /\ r.ret \in Resp \cup {Null}
  BY <1>4 DEF Handled
<1>6. /\ b \in Coroutine /\ b.cmd = cmd /\ b.todo = Targets(cmd) \ {h}
      /\ b.total = r.total /\ b.ret = r.ret /\ b.res = Null
  BY <1>5, BegunForm
<1> HIDE DEF b
<1>7. /\ WellFormed(a) /\ a.cmd = cmd /\ a.todo = Targets(cmd) \ {h}
      /\ a.total = r.total /\ a.res = Null /\ a.pc \in {"posted", "reply"}
      /\ a.pc = "reply" => a.ret = Answer(b)
  BY <1>6, AdvanceForm
<1>a. cmd.type # "kDel" => Answer(b) = r.ret
  BY <1>1, <1>6 DEF Answer
<1> HIDE DEF a
<1>8. /\ Pool' /\ shards'[h] = r.shard
      /\ \A j \in ShardIndex : j # h => shards'[j] = shards[j]
  BY <1>1, <1>2, <1>5, OneShard DEF IInv
<1>9. /\ Sessions' /\ session'[s] = a
      /\ \A t \in Session : t # s => session'[t] = session[t]
  BY <1>1, <1>7, OneSession DEF IInv
<1> QED
  BY <1>a, <1>1, <1>2, <1>4, <1>7, <1>8, <1>9 DEF h, r

(* The job of a session runs on its next shard. *)
LEMMA JobStep ==
  ASSUME IInv, NEW s \in Session, RunJob(s)
  PROVE  LET i == Min(session[s].todo)
             cmd == session[s].cmd
             r == Run(cmd, i, shards[i], now)
         IN  /\ Pool' /\ Sessions' /\ i \in ShardIndex /\ i \in session[s].todo
             /\ cmd \in Command /\ i \in Targets(cmd)
             /\ Handled(i, shards[i], cmd, r)
             /\ shards'[i] = r.shard
             /\ \A j \in ShardIndex : j # i => shards'[j] = shards[j]
             /\ \A t \in Session : t # s => session'[t] = session[t]
             /\ session[s].pc = "posted" /\ session'[s].pc = "ran"
             /\ session'[s].cmd = cmd /\ session'[s].todo = session[s].todo
             /\ session'[s].total = session[s].total
             /\ session'[s].res.total = r.total /\ session'[s].res.ret = r.ret
<1> DEFINE c == session[s]
           i == Min(c.todo)
           r == Run(c.cmd, i, shards[i], now)
           res == [total |-> r.total, ret |-> r.ret]
           a == [c EXCEPT !.pc = "ran", !.res = res]
<1>1. /\ c.pc = "posted" /\ c \in Coroutine /\ WellFormed(c)
  BY DEF RunJob, IInv, Sessions
<1>2. /\ c.cmd \in Command /\ c.todo # {} /\ c.todo \subseteq Targets(c.cmd)
      /\ c.todo \subseteq ShardIndex
  BY <1>1 DEF WellFormed, Coroutine
<1>3. i \in c.todo /\ i \in ShardIndex /\ i \in Targets(c.cmd)
  BY <1>2, FirstTodo
<1>4. Sound(i, shards[i]) /\ now \in Int
  BY <1>3 DEF IInv, Pool
<1>5. Handled(i, shards[i], c.cmd, r)
  BY <1>2, <1>3, <1>4, RunHandled
<1>6. shards' = [shards EXCEPT ![i] = r.shard] /\ session' = [session EXCEPT ![s] = a]
  <2>1. shards' = [shards EXCEPT ![i] = r.shard]
        /\ session' = [session EXCEPT ![s].pc = "ran", ![s].res = res]
    BY DEF RunJob, Job
  <2> HIDE DEF res
  <2>2. [session EXCEPT ![s].pc = "ran", ![s].res = res] = [session EXCEPT ![s] = a]
    BY <1>1 DEF IInv, Sessions
  <2> QED
    BY <2>1, <2>2
<1> HIDE DEF i, r
<1>7. Sound(i, r.shard) /\ r.total \in Totals /\ r.ret \in Resp \cup {Null}
  BY <1>5 DEF Handled
<1>8. res \in JobResult /\ res.total = r.total /\ res.ret = r.ret
  BY <1>7 DEF JobResult
<1> HIDE DEF res, c
<1>9. /\ a \in Coroutine /\ a.pc = "ran" /\ a.cmd = c.cmd /\ a.todo = c.todo
      /\ a.total = c.total /\ a.res = res
  BY <1>1, <1>8 DEF Coroutine
<1> HIDE DEF a
<1>10. WellFormed(a)
  BY <1>2, <1>8, <1>9 DEF WellFormed
<1>11. /\ Pool' /\ shards'[i] = r.shard
       /\ \A j \in ShardIndex : j # i => shards'[j] = shards[j]
  BY <1>3, <1>6, <1>7, OneShard DEF IInv
<1>12. /\ Sessions' /\ session'[s] = a
       /\ \A t \in Session : t # s => session'[t] = session[t]
  BY <1>6, <1>10, OneSession DEF IInv
<1> QED
  BY <1>1, <1>2, <1>3, <1>5, <1>8, <1>9, <1>11, <1>12 DEF i, r, c

(* The result of a job is added to the totals. *)
LEMMA ResumeStep ==
  ASSUME IInv, NEW s \in Session, Resume(s)
  PROVE  LET c == session[s]
             d == session'[s]
         IN  /\ Pool' /\ Sessions' /\ shards' = shards
             /\ \A t \in Session : t # s => session'[t] = session[t]
             /\ c.pc = "ran" /\ c.cmd \in Command /\ c.res \in JobResult
             /\ c.todo \subseteq ShardIndex /\ Min(c.todo) \in c.todo
             /\ d.cmd = c.cmd /\ d.todo = c.todo \ {Min(c.todo)}
             /\ d.total = Add(c.total, c.res.total) /\ d.res = Null
             /\ d.pc \in {"posted", "reply"}
<1> DEFINE c == session[s]
           todo == c.todo \ {Min(c.todo)}
           total == Add(c.total, c.res.total)
           b == Collected(c)
           a == Advance(b)
<1>1. c.pc = "ran" /\ c \in Coroutine /\ WellFormed(c)
  BY DEF Resume, IInv, Sessions
<1>2. /\ c.cmd \in Command /\ c.todo \subseteq Targets(c.cmd) /\ c.todo # {}
      /\ c.todo \subseteq ShardIndex /\ c.res \in JobResult /\ c.total \in Totals
  BY <1>1 DEF WellFormed, Coroutine
<1>3. Min(c.todo) \in c.todo
  BY <1>2, FirstTodo
<1>4. total \in Totals /\ c.res.ret \in Resp \cup {Null}
  BY <1>2, TotalsAdd DEF JobResult
<1>5. b = [c EXCEPT !.todo = todo, !.total = total, !.ret = c.res.ret, !.res = Null]
  BY <1>1 DEF Collected, Coroutine
<1>6. shards' = shards /\ session' = [session EXCEPT ![s] = a]
  BY DEF Resume
<1>7. todo \subseteq Targets(c.cmd) /\ todo \subseteq ShardIndex
  BY <1>2
<1> HIDE DEF b, todo, total
<1>8. /\ b \in Coroutine /\ b.cmd = c.cmd /\ b.todo = todo /\ b.total = total
      /\ b.res = Null
  <2> HIDE DEF c
  <2> QED
    BY <1>1, <1>4, <1>5, <1>7 DEF Coroutine
<1>9. /\ WellFormed(a) /\ a.cmd = c.cmd /\ a.todo = todo /\ a.total = total
      /\ a.res = Null /\ a.pc \in {"posted", "reply"}
  <2> HIDE DEF c
  <2> QED
    BY <1>2, <1>7, <1>8, AdvanceForm
<1> HIDE DEF a
<1>10. /\ Sessions' /\ session'[s] = a
       /\ \A t \in Session : t # s => session'[t] = session[t]
  BY <1>6, <1>9, OneSession DEF IInv
<1>11. Pool'
  BY <1>6 DEF IInv, Pool
<1> QED
  BY <1>1, <1>2, <1>3, <1>6, <1>9, <1>10, <1>11 DEF todo, total

(* The coroutine goes back to waiting for a command. *)
LEMMA ReplyStep ==
  ASSUME IInv, NEW s \in Session, Reply(s)
  PROVE  /\ Pool' /\ Sessions' /\ shards' = shards
         /\ \A t \in Session : t # s => session'[t] = session[t]
         /\ session[s].pc = "reply" /\ session'[s] = Idle
<1>1. /\ session[s].pc = "reply" /\ shards' = shards
      /\ session' = [session EXCEPT ![s] = Idle]
  BY DEF Reply
<1>2. /\ Sessions' /\ session'[s] = Idle
      /\ \A t \in Session : t # s => session'[t] = session[t]
  BY <1>1, IdleForm, OneSession DEF IInv
<1>3. Pool'
  BY <1>1 DEF IInv, Pool
<1> QED
  BY <1>1, <1>2, <1>3

(* A pass of a cleaning coroutine. *)
LEMMA CleanStep ==
  ASSUME IInv, NEW i \in ShardIndex, Clean(i)
  PROVE  /\ Pool' /\ session' = session
         /\ shards'[i] = remove_expired_keys(shards[i], now)
         /\ shards'[i].map \subseteq shards[i].map
         /\ \A j \in ShardIndex : j # i => shards'[j] = shards[j]
<1> DEFINE sh == shards[i]
           m == remove_expired_keys(sh, now)
<1>1. Sound(i, sh) /\ now \in Int
  BY DEF IInv, Pool
<1>2. Consistent(m) /\ m.used <= sh.used /\ m.map \subseteq sh.map
  <2>1. m = remove_keys(sh, DueKeys(sh, now), "kExpired")
    BY <1>1, SweepIsRemoval DEF Sound
  <2>2. remove_keys(sh, DueKeys(sh, now), "kExpired").map \subseteq sh.map
    BY DEF remove_keys
  <2> QED
    BY <1>1, <2>1, <2>2, SweepConsistent DEF Sound
<1>3. shards' = [shards EXCEPT ![i] = m] /\ session' = session
  BY DEF Clean
<1> HIDE DEF m
<1>4. m.used <= MaxMemoryBytes
  BY <1>1, <1>2, SizeAssumption DEF Sound, Consistent, Shard
<1>5. Sound(i, m)
  BY <1>1, <1>2, <1>4 DEF Sound
<1>6. /\ Pool' /\ shards'[i] = m
      /\ \A j \in ShardIndex : j # i => shards'[j] = shards[j]
  BY <1>3, <1>5, OneShard DEF IInv
<1> QED
  BY <1>2, <1>3, <1>6 DEF m

-----------------------------------------------------------------------------
(* The invariant.                                                          *)

(* The pool starts empty and the sessions idle. *)
LEMMA InitIInv == Init => IInv
<1> SUFFICES ASSUME Init PROVE IInv
  OBVIOUS
<1>1. Pool
  <2>1. \A i : Sound(i, EmptyShard)
    <3>1. EmptyShard.map = {}
      BY DEF EmptyShard
    <3> QED
      BY <3>1, EmptyConsistent, SizeAssumption DEF Sound
  <2>2. EmptyShard \in Shard
    BY EmptyConsistent DEF Consistent
  <2> QED
    BY <2>1, <2>2 DEF Init, Pool
<1>2. Sessions
  <2>1. Idle \in Coroutine /\ WellFormed(Idle)
    BY IdleForm DEF WellFormed
  <2> QED
    BY <2>1 DEF Init, Sessions
<1>3. now \in 0 .. Horizon /\ stopped \in 0 .. ShardCount
  BY ExecutorAssumption DEF Init
<1> QED
  BY <1>1, <1>2, <1>3 DEF IInv

(* Every step keeps it. *)
LEMMA NextIInv == IInv /\ [Next]_vars => IInv'
<1> SUFFICES ASSUME IInv, [Next]_vars PROVE IInv'
  OBVIOUS
<1>0. Pool /\ Sessions /\ now \in 0 .. Horizon /\ stopped \in 0 .. ShardCount
  BY DEF IInv
<1>1. ASSUME NEW s \in Session, NEW cmd \in Command, Start(s, cmd) PROVE IInv'
  <2>1. now' = now /\ stopped' = stopped /\ (StartsAway(s, cmd) \/ StartsHome(s, cmd))
    BY <1>1, StartCases
  <2>2. StartsAway(s, cmd) => Pool' /\ Sessions'
    BY AwayStep
  <2>3. StartsHome(s, cmd) => Pool' /\ Sessions'
    BY HomeStep
  <2> QED
    BY <1>0, <2>1, <2>2, <2>3 DEF IInv
<1>2. ASSUME NEW s \in Session, RunJob(s) PROVE IInv'
  <2>1. Pool' /\ Sessions'
    BY <1>2, JobStep
  <2>2. now' = now /\ stopped' = stopped
    BY <1>2 DEF RunJob, Job
  <2> QED
    BY <1>0, <2>1, <2>2 DEF IInv
<1>3. ASSUME NEW s \in Session, Resume(s) PROVE IInv'
  <2>1. Pool' /\ Sessions'
    BY <1>3, ResumeStep
  <2>2. now' = now /\ stopped' = stopped
    BY <1>3 DEF Resume
  <2> QED
    BY <1>0, <2>1, <2>2 DEF IInv
<1>4. ASSUME NEW s \in Session, Reply(s) PROVE IInv'
  <2>1. Pool' /\ Sessions'
    BY <1>4, ReplyStep
  <2>2. now' = now /\ stopped' = stopped
    BY <1>4 DEF Reply
  <2> QED
    BY <1>0, <2>1, <2>2 DEF IInv
<1>5. ASSUME NEW i \in ShardIndex, Clean(i) PROVE IInv'
  <2>1. Pool' /\ session' = session
    BY <1>5, CleanStep
  <2>2. now' = now /\ stopped' = stopped
    BY <1>5 DEF Clean
  <2> QED
    BY <1>0, <2>1, <2>2 DEF IInv, Sessions
<1>6. ASSUME StopNext PROVE IInv'
  <2>1. stopped' \in 0 .. ShardCount
    BY <1>0, <1>6, ExecutorAssumption DEF StopNext
  <2>2. UNCHANGED <<shards, session, now>>
    BY <1>6 DEF StopNext
  <2> QED
    BY <1>0, <2>1, <2>2 DEF IInv, Pool, Sessions
<1>7. ASSUME Tick PROVE IInv'
  <2>1. now' \in 0 .. Horizon
    BY <1>0, <1>7, ExecutorAssumption DEF Tick
  <2>2. UNCHANGED <<shards, session, stopped>>
    BY <1>7 DEF Tick
  <2> QED
    BY <1>0, <2>1, <2>2 DEF IInv, Pool, Sessions
<1>8. ASSUME UNCHANGED vars PROVE IInv'
  BY <1>0, <1>8 DEF IInv, Pool, Sessions, vars
<1> QED
  BY <1>1, <1>2, <1>3, <1>4, <1>5, <1>6, <1>7, <1>8 DEF Next

(* IInv holds in every state of the executor. *)
THEOREM Invariance == Spec => []IInv
BY InitIInv, NextIInv, PTL DEF Spec

(* Shards and coroutines are of their types (TypeOK of CommandExecutor). *)
THEOREM TypeCorrect == Spec => []TypeOK
<1>1. IInv => TypeOK
  <2> SUFFICES ASSUME IInv PROVE TypeOK
    OBVIOUS
  <2>1. \A s \in Session : session[s] \in Coroutine
    BY DEF IInv, Sessions
  <2>2. \A s \in Session :
          /\ session[s].pc \in {"idle", "posted", "ran", "reply"}
          /\ session[s].todo \subseteq ShardIndex
          /\ session[s].total \in [DOMAIN Zero -> Nat]
    BY <2>1 DEF Coroutine, Totals
  <2> QED
    BY <2>2 DEF IInv, Pool, TypeOK
<1> QED
  BY <1>1, Invariance, PTL

(* Whichever thread writes a key, directly or through run_on_shard, the    *)
(* shard it hashes to is the only one that ever holds it.                  *)
THEOREM Routing == Spec => []KeysRouted
<1>1. IInv => KeysRouted
  BY DEF IInv, Pool, Sound, Routed, KeysRouted
<1> QED
  BY <1>1, Invariance, PTL

-----------------------------------------------------------------------------
(* DEL over several shards.                                                *)

History == [inserted : Nat, deleted : Nat,
            fresh : [Session -> SUBSET Key], floor : [Session -> Nat]]

(* The shards on which the command of coroutine c has yet to run. *)
Pending(c) == IF c.pc = "ran" THEN c.todo \ {Min(c.todo)} ELSE c.todo

(* On the shards that the DEL of s has run on, the keys it names are held  *)
(* only if they were set since it began.                                   *)
Swept(s) ==
  Executing(s, "kDel") =>
    \A k \in session[s].cmd.keys :
      ShardOf[k] \notin Pending(session[s]) /\ k \in shards[ShardOf[k]].map
        => k \in history.fresh[s]

DInv == IInv /\ history \in History /\ \A s \in Session : Swept(s)

(* A key was inserted: it was not there, or had just been removed. *)
Inserts(cmd, before, after, ret) ==
  Wrote(cmd, ret) /\ (cmd.key \notin before.map \/ after.expired # before.expired)

(* A write is remembered for every DEL under way. *)
LEMMA RememberEffect ==
  ASSUME history \in History, NEW cmd \in Command, NEW before, NEW after, NEW ret,
         history' = Remember(history, cmd, before, after, ret)
  PROVE  /\ history' \in History
         /\ history'.deleted = history.deleted /\ history'.floor = history.floor
         /\ history'.inserted =
              history.inserted + (IF Inserts(cmd, before, after, ret) THEN 1 ELSE 0)
         /\ \A t \in Session : Executing(t, "kDel") =>
              /\ history.fresh[t] \subseteq history'.fresh[t]
              /\ Wrote(cmd, ret) => cmd.key \in history'.fresh[t]
<1>1. CASE ~ Wrote(cmd, ret)
  <2>1. history' = history
    BY <1>1 DEF Remember
  <2> QED
    BY <1>1, <2>1 DEF Inserts, History
<1>2. CASE Wrote(cmd, ret)
  <2> DEFINE new == cmd.key \notin before.map \/ after.expired # before.expired
             ins == IF new THEN history.inserted + 1 ELSE history.inserted
             fr  == [s \in Session |-> IF Executing(s, "kDel")
                                       THEN history.fresh[s] \cup {cmd.key} ELSE {}]
  <2>1. history' = [history EXCEPT !.inserted = ins, !.fresh = fr]
    BY <1>2 DEF Remember
  <2>2. cmd.key \in Key
    BY <1>2, CommandAssumption DEF Wrote
  <2>3. history.fresh \in [Session -> SUBSET Key] /\ history.inserted \in Nat
    BY DEF History
  <2>4. fr \in [Session -> SUBSET Key]
    BY <2>2, <2>3
  <2>5. ins \in Nat /\ ins = history.inserted + (IF new THEN 1 ELSE 0)
    BY <2>3
  <2>6. new <=> Inserts(cmd, before, after, ret)
    BY <1>2 DEF Inserts
  <2>7. \A t \in Session : Executing(t, "kDel") =>
          history.fresh[t] \subseteq fr[t] /\ cmd.key \in fr[t]
    OBVIOUS
  <2> HIDE DEF fr, ins, new
  <2>8. /\ history' \in History /\ history'.deleted = history.deleted
        /\ history'.floor = history.floor /\ history'.fresh = fr
        /\ history'.inserted = ins
    BY <2>1, <2>4, <2>5 DEF History
  <2> QED
    BY <2>5, <2>6, <2>7, <2>8
<1> QED
  BY <1>1, <1>2

(* What a command does on one shard leaves the DELs of others swept. *)
LEMMA StillSwept ==
  ASSUME DInv, NEW t \in Session, session'[t] = session[t],
         NEW cmd \in Command, NEW i \in ShardIndex, NEW r,
         Handled(i, shards[i], cmd, r), shards'[i] = r.shard,
         \A j \in ShardIndex : j # i => shards'[j] = shards[j],
         history' = Remember(history, cmd, shards[i], r.shard, r.ret)
  PROVE  Swept(t)'
<1> SUFFICES ASSUME Executing(t, "kDel")',
                    NEW k \in session'[t].cmd.keys,
                    ShardOf[k] \notin Pending(session'[t]),
                    k \in shards'[ShardOf[k]].map
             PROVE  k \in history'.fresh[t]
  BY DEF Swept
<1>1. Executing(t, "kDel")
  BY DEF Executing
<1>2. session[t].cmd \in Command
  BY <1>1 DEF DInv, IInv, Sessions, WellFormed, Executing
<1>3. k \in Key /\ ShardOf[k] \in ShardIndex
  BY <1>2, CommandAssumption, ExecutorAssumption
<1>4. k \in shards[ShardOf[k]].map => k \in history.fresh[t]
  BY <1>1 DEF DInv, Swept
<1>5. /\ history.fresh[t] \subseteq history'.fresh[t]
      /\ Wrote(cmd, r.ret) => cmd.key \in history'.fresh[t]
  BY <1>1, RememberEffect DEF DInv
<1>6. \/ k \in shards[ShardOf[k]].map
      \/ Wrote(cmd, r.ret) /\ k = cmd.key
  <2>1. r.shard.map \subseteq shards[i].map \cup (IF Wrote(cmd, r.ret) THEN {cmd.key} ELSE {})
    BY DEF Handled
  <2>2. CASE ShardOf[k] = i
    BY <2>1, <2>2
  <2>3. CASE ShardOf[k] # i
    BY <1>3, <2>3
  <2> QED
    BY <2>2, <2>3
<1> QED
  BY <1>4, <1>5, <1>6

(* A coroutine whose pending shards, history and keys are no more than     *)
(* they were stays swept.                                                  *)
LEMMA SameSwept ==
  ASSUME DInv, NEW t \in Session,
         Executing(t, "kDel")' => /\ Executing(t, "kDel") /\ session'[t].cmd = session[t].cmd
                                  /\ Pending(session[t]) \subseteq Pending(session'[t])
                                  /\ history'.fresh[t] = history.fresh[t],
         \A j \in ShardIndex : shards'[j].map \subseteq shards[j].map
  PROVE  Swept(t)'
<1> SUFFICES ASSUME Executing(t, "kDel")',
                    NEW k \in session'[t].cmd.keys,
                    ShardOf[k] \notin Pending(session'[t]),
                    k \in shards'[ShardOf[k]].map
             PROVE  k \in history'.fresh[t]
  BY DEF Swept
<1>1. session[t].cmd \in Command
  BY DEF DInv, IInv, Sessions, WellFormed, Executing
<1>2. k \in Key /\ ShardOf[k] \in ShardIndex
  BY <1>1, CommandAssumption, ExecutorAssumption
<1> QED
  BY <1>2 DEF DInv, Swept

(* A DEL leaves none of its keys on the shard it has run on. *)
LEMMA DelRuns ==
  ASSUME NEW i, NEW sh, Sound(i, sh), NEW cmd, NEW t, cmd.type = "kDel", NEW k \in cmd.keys,
         ShardOf[k] = i
  PROVE  k \notin Run(cmd, i, sh, t).shard.map
<1>1. Run(cmd, i, sh, t) = processDelKeys(cmd, i, sh)
  BY DEF Run
<1>2. \A j \in cmd.keys : ShardOf[j] = i => j \notin processDelKeys(cmd, i, sh).shard.map
  BY DelHandled
<1> QED
  BY <1>1, <1>2

(* The keys a DEL names are on its shards. *)
LEMMA DelTargets ==
  ASSUME NEW cmd \in Command, cmd.type = "kDel", NEW k \in cmd.keys
  PROVE  ShardOf[k] \in Targets(cmd)
<1>1. k \in Key /\ ShardOf[k] \in ShardIndex
  BY CommandAssumption, ExecutorAssumption
<1>2. Targets(cmd) = {i \in ShardIndex : KeysOn(cmd, i) # {}}
  BY DEF Targets
<1>3. k \in KeysOn(cmd, ShardOf[k])
  BY DEF KeysOn
<1> QED
  BY <1>1, <1>2, <1>3

(* The removals counted so far by the shards P, one by one. *)
RemovalsOf(P) == [i \in ShardIndex |-> Removals(P[i])]

(* They are natural numbers, and there are finitely many. *)
LEMMA RemovalsType ==
  ASSUME NEW P \in [ShardIndex -> Shard]
  PROVE  Counts(RemovalsOf(P), ShardIndex)
<1>1. IsFiniteSet(ShardIndex)
  BY ExecutorAssumption, FS_Interval DEF ShardIndex
<1>2. \A i \in ShardIndex : P[i].evictions \in Nat /\ P[i].expired \in Nat
  BY DEF Shard
<1>3. \A i \in ShardIndex : RemovalsOf(P)[i] \in Nat
  BY <1>2 DEF RemovalsOf, Removals
<1> QED
  BY <1>1, <1>3 DEF Counts

(* So is their sum. *)
LEMMA TotalType ==
  ASSUME Pool
  PROVE  TotalRemovals = Sum(RemovalsOf(shards), ShardIndex) /\ TotalRemovals \in Nat
<1>1. TotalRemovals = Sum(RemovalsOf(shards), ShardIndex)
  BY DEF TotalRemovals, RemovalsOf
<1>2. Counts(RemovalsOf(shards), ShardIndex)
  BY RemovalsType DEF Pool
<1> QED
  BY <1>1, <1>2, SumType

(* An INFO that begins notes the removals and nothing else. *)
LEMMA NotedEffect ==
  ASSUME Pool, history \in History, NEW s \in Session, NEW cmd
  PROVE  LET n == Noted(s, cmd)
         IN  /\ n \in History /\ n.fresh = history.fresh
             /\ n.inserted = history.inserted /\ n.deleted = history.deleted
             /\ cmd.type = "kInfo" => n.floor[s] = TotalRemovals
             /\ \A t \in Session : t # s => n.floor[t] = history.floor[t]
<1> DEFINE m == TotalRemovals
           fl == [history.floor EXCEPT ![s] = m]
           n == Noted(s, cmd)
<1>1. m \in Nat
  BY TotalType
<1>2. CASE cmd.type = "kInfo"
  <2>1. n = [history EXCEPT !.floor = fl]
    BY <1>2 DEF Noted, History
  <2> HIDE DEF m, n
  <2>2. history.floor \in [Session -> Nat]
    BY DEF History
  <2>3. /\ fl \in [Session -> Nat] /\ fl[s] = m
        /\ \A t \in Session : t # s => fl[t] = history.floor[t]
    BY <1>1, <2>2
  <2> HIDE DEF fl
  <2>4. /\ n \in History /\ n.fresh = history.fresh /\ n.floor = fl
        /\ n.inserted = history.inserted /\ n.deleted = history.deleted
    BY <2>1, <2>3 DEF History
  <2> QED
    BY <2>3, <2>4 DEF n, m
<1>3. CASE cmd.type # "kInfo"
  <2>1. n = history
    BY <1>3 DEF Noted
  <2> QED
    BY <1>3, <2>1
<1> QED
  BY <1>2, <1>3

(* Start keeps every DEL swept. *)
LEMMA StartSwept ==
  ASSUME DInv, NEW s \in Session, NEW cmd \in Command, Start(s, cmd)
  PROVE  history' \in History /\ \A t \in Session : Swept(t)'
<1>0. IInv /\ Pool /\ history \in History
  BY DEF DInv, IInv
<1>1. CASE StartsAway(s, cmd)
  <2>1. /\ \A t \in Session : t # s => session'[t] = session[t]
        /\ session'[s].cmd = cmd /\ session'[s].todo = Targets(cmd)
        /\ session'[s].pc \in {"posted", "reply"}
    BY <1>0, <1>1, AwayStep
  <2>2. history' = Noted(s, cmd) /\ shards' = shards
    BY <1>1 DEF StartsAway
  <2>3. history' \in History /\ history'.fresh = history.fresh
    BY <1>0, <2>2, NotedEffect
  <2>4. Swept(s)'
    <3>1. Pending(session'[s]) = Targets(cmd)
      BY <2>1 DEF Pending
    <3>2. cmd.type = "kDel" => \A k \in cmd.keys : ShardOf[k] \in Targets(cmd)
      BY DelTargets
    <3> QED
      BY <2>1, <3>1, <3>2 DEF Swept, Executing
  <2>5. ASSUME NEW t \in Session, t # s PROVE Swept(t)'
    <3>1. session'[t] = session[t]
      BY <2>1, <2>5
    <3>2. Executing(t, "kDel")' <=> Executing(t, "kDel")
      BY <3>1 DEF Executing
    <3>3. \A j \in ShardIndex : shards'[j].map \subseteq shards[j].map
      BY <2>2
    <3> QED
      BY <2>3, <3>1, <3>2, <3>3, SameSwept
  <2> QED
    BY <2>3, <2>4, <2>5
<1>2. CASE StartsHome(s, cmd)
  <2> DEFINE h == home[s]
             r == Run(cmd, h, shards[h], now)
  <2>1. /\ h \in ShardIndex /\ h \in Targets(cmd) /\ Handled(h, shards[h], cmd, r)
        /\ shards'[h] = r.shard
        /\ \A j \in ShardIndex : j # h => shards'[j] = shards[j]
        /\ \A t \in Session : t # s => session'[t] = session[t]
        /\ session'[s].cmd = cmd /\ session'[s].todo = Targets(cmd) \ {h}
        /\ session'[s].pc \in {"posted", "reply"}
    BY <1>0, <1>2, HomeStep
  <2>2. history' = Remember(history, cmd, shards[h], r.shard, r.ret)
    BY <1>2 DEF StartsHome
  <2>3. cmd.type = "kDel" => \A k \in cmd.keys : ShardOf[k] = h => k \notin r.shard.map
    <3>1. Sound(h, shards[h])
      BY <1>0, <2>1 DEF Pool
    <3> QED
      BY <3>1, DelRuns
  <2> HIDE DEF r, h
  <2>4. history' \in History
    BY <1>0, <2>2, RememberEffect
  <2>5. Swept(s)'
    <3>1. Pending(session'[s]) = Targets(cmd) \ {h}
      BY <2>1 DEF Pending
    <3>2. cmd.type = "kDel" => \A k \in cmd.keys : ShardOf[k] \in Targets(cmd)
      BY DelTargets
    <3> QED
      BY <2>1, <2>3, <3>1, <3>2 DEF Swept, Executing
  <2>6. ASSUME NEW t \in Session, t # s PROVE Swept(t)'
    <3>1. session'[t] = session[t]
      BY <2>1, <2>6
    <3> QED
      BY <2>1, <2>2, <3>1, StillSwept
  <2> QED
    BY <2>4, <2>5, <2>6
<1> QED
  BY <1>1, <1>2, StartCases

(* So does a job: it sweeps its own shard. *)
LEMMA JobSwept ==
  ASSUME DInv, NEW s \in Session, RunJob(s)
  PROVE  history' \in History /\ \A t \in Session : Swept(t)'
<1> DEFINE i == Min(session[s].todo)
           cmd == session[s].cmd
           r == Run(cmd, i, shards[i], now)
<1>0. IInv /\ Pool /\ history \in History
  BY DEF DInv, IInv
<1>1. /\ i \in ShardIndex /\ i \in session[s].todo /\ cmd \in Command
      /\ i \in Targets(cmd) /\ Handled(i, shards[i], cmd, r)
      /\ shards'[i] = r.shard
      /\ \A j \in ShardIndex : j # i => shards'[j] = shards[j]
      /\ \A t \in Session : t # s => session'[t] = session[t]
      /\ session[s].pc = "posted" /\ session'[s].pc = "ran"
      /\ session'[s].cmd = cmd /\ session'[s].todo = session[s].todo
  BY <1>0, JobStep
<1>2. history' = Remember(history, cmd, shards[i], r.shard, r.ret)
  BY DEF RunJob, Job
<1>3. cmd.type = "kDel" => \A k \in cmd.keys : ShardOf[k] = i => k \notin r.shard.map
  <2>1. Sound(i, shards[i])
    BY <1>0, <1>1 DEF Pool
  <2> QED
    BY <2>1, DelRuns
<1>4. Pending(session'[s]) = session[s].todo \ {i} /\ Pending(session[s]) = session[s].todo
  BY <1>1 DEF Pending
<1> HIDE DEF r, i
<1>5. history' \in History
  BY <1>0, <1>1, <1>2, RememberEffect
<1>6. Swept(s)'
  <2> SUFFICES ASSUME cmd.type = "kDel", NEW k \in cmd.keys,
                      ShardOf[k] \notin session[s].todo \ {i},
                      k \in shards'[ShardOf[k]].map
               PROVE  k \in history'.fresh[s]
    BY <1>1, <1>4 DEF Swept, Executing
  <2>1. k \in Key /\ ShardOf[k] \in ShardIndex
    BY <1>1, CommandAssumption, ExecutorAssumption
  <2>2. ShardOf[k] # i
    BY <1>1, <1>3
  <2>3. k \in shards[ShardOf[k]].map /\ ShardOf[k] \notin Pending(session[s])
    BY <1>1, <1>4, <2>1, <2>2
  <2>4. Executing(s, "kDel")
    BY <1>1 DEF Executing
  <2>5. k \in history.fresh[s]
    BY <2>3, <2>4 DEF DInv, Swept
  <2>6. history.fresh[s] \subseteq history'.fresh[s]
    BY <1>0, <1>1, <1>2, <2>4, RememberEffect
  <2> QED
    BY <2>5, <2>6
<1>7. ASSUME NEW t \in Session, t # s PROVE Swept(t)'
  <2>1. session'[t] = session[t]
    BY <1>1, <1>7
  <2> HIDE DEF cmd
  <2> QED
    BY <1>1, <1>2, <2>1, StillSwept
<1> QED
  BY <1>5, <1>6, <1>7

(* Every step keeps the DELs swept. *)
LEMMA NextDInv == DInv /\ [Next]_vars => DInv'
<1> SUFFICES ASSUME DInv, [Next]_vars PROVE DInv'
  OBVIOUS
<1>0. IInv /\ history \in History /\ IInv'
  BY NextIInv DEF DInv
<1>1. ASSUME NEW s \in Session, NEW cmd \in Command, Start(s, cmd) PROVE DInv'
  BY <1>0, <1>1, StartSwept DEF DInv
<1>2. ASSUME NEW s \in Session, RunJob(s) PROVE DInv'
  BY <1>0, <1>2, JobSwept DEF DInv
<1>3. ASSUME NEW s \in Session, Resume(s) PROVE DInv'
  <2>1. /\ shards' = shards /\ \A t \in Session : t # s => session'[t] = session[t]
        /\ session[s].pc = "ran" /\ session'[s].cmd = session[s].cmd
        /\ session'[s].todo = session[s].todo \ {Min(session[s].todo)}
        /\ session'[s].pc \in {"posted", "reply"}
    BY <1>0, <1>3, ResumeStep
  <2>2. history' = history
    BY <1>3 DEF Resume
  <2>3. Pending(session'[s]) = Pending(session[s])
    BY <2>1 DEF Pending
  <2>4. ASSUME NEW t \in Session PROVE Swept(t)'
    <3>1. Executing(t, "kDel")' => /\ Executing(t, "kDel") /\ session'[t].cmd = session[t].cmd
                                   /\ Pending(session[t]) \subseteq Pending(session'[t])
      BY <2>1, <2>3 DEF Executing
    <3> QED
      BY <2>1, <2>2, <3>1, SameSwept
  <2> QED
    BY <1>0, <2>2, <2>4 DEF DInv
<1>4. ASSUME NEW s \in Session, Reply(s) PROVE DInv'
  <2> DEFINE n == history.deleted + session[s].total.deleted
             fr == [history.fresh EXCEPT ![s] = {}]
             fl == [history.floor EXCEPT ![s] = 0]
  <2>1. /\ shards' = shards /\ \A t \in Session : t # s => session'[t] = session[t]
        /\ session'[s] = Idle
    BY <1>0, <1>4, ReplyStep
  <2>2. session[s].total.deleted \in Nat
    <3>1. session[s].total \in Totals
      BY <1>0 DEF IInv, Sessions, Coroutine
    <3> QED
      BY <3>1, TotalsAdd
  <2>3. history' = [history EXCEPT !.deleted = n, !.fresh = fr, !.floor = fl]
    BY <1>0, <1>4 DEF Reply, History
  <2>4. /\ n \in Nat /\ fr \in [Session -> SUBSET Key] /\ fl \in [Session -> Nat]
        /\ \A t \in Session : t # s => fr[t] = history.fresh[t]
    BY <1>0, <2>2 DEF History
  <2> HIDE DEF n, fr, fl
  <2>5. history' \in History /\ history'.fresh = fr
    BY <1>0, <2>3, <2>4 DEF History
  <2>6. ASSUME NEW t \in Session PROVE Swept(t)'
    <3>1. CASE t = s
      BY <2>1, <3>1, IdleForm DEF Swept, Executing
    <3>2. CASE t # s
      <4>1. session'[t] = session[t] /\ history'.fresh[t] = history.fresh[t]
        BY <2>1, <2>4, <2>5, <3>2
      <4>2. Executing(t, "kDel")' <=> Executing(t, "kDel")
        BY <4>1 DEF Executing
      <4> QED
        BY <2>1, <4>1, <4>2, SameSwept
    <3> QED
      BY <3>1, <3>2
  <2> QED
    BY <1>0, <2>5, <2>6 DEF DInv
<1>5. ASSUME NEW i \in ShardIndex, Clean(i) PROVE DInv'
  <2>1. /\ session' = session /\ shards'[i].map \subseteq shards[i].map
        /\ \A j \in ShardIndex : j # i => shards'[j] = shards[j]
    BY <1>0, <1>5, CleanStep
  <2>2. history' = history
    BY <1>5 DEF Clean
  <2>3. \A j \in ShardIndex : shards'[j].map \subseteq shards[j].map
    BY <2>1
  <2>4. ASSUME NEW t \in Session PROVE Swept(t)'
    <3>1. Executing(t, "kDel")' <=> Executing(t, "kDel")
      BY <2>1 DEF Executing
    <3> QED
      BY <2>1, <2>2, <2>3, <3>1, SameSwept
  <2> QED
    BY <1>0, <2>2, <2>4 DEF DInv
<1>6. ASSUME UNCHANGED <<shards, session, history>> PROVE DInv'
  BY <1>0, <1>6 DEF DInv, Swept, Executing
<1>7. StopNext \/ Tick \/ UNCHANGED vars => UNCHANGED <<shards, session, history>>
  BY DEF StopNext, Tick, vars
<1> QED
  BY <1>1, <1>2, <1>3, <1>4, <1>5, <1>6, <1>7 DEF Next

(* No session executes a command at first. *)
LEMMA InitDInv == Init => DInv
<1> SUFFICES ASSUME Init PROVE DInv
  OBVIOUS
<1>1. IInv
  BY InitIInv
<1>2. history \in History
  BY DEF Init, History
<1>3. \A s \in Session : Swept(s)
  BY IdleForm DEF Init, Swept, Executing
<1> QED
  BY <1>1, <1>2, <1>3 DEF DInv

(* DInv holds in every state of the executor. *)
LEMMA SweptAlways == Spec => []DInv
BY InitDInv, NextDInv, PTL DEF Spec

(* However DELs, SETs, evictions and sweeps of different sessions          *)
(* interleave over the shards, a key that a DEL names and that is held     *)
(* when the DEL answers was set after the DEL began.                       *)
THEOREM DelReallyDeletes == Spec => []DelEffective
<1>1. DInv => DelEffective
  <2> SUFFICES ASSUME DInv, NEW s \in Session, session[s].pc = "reply", Executing(s, "kDel")
               PROVE  \A k \in session[s].cmd.keys :
                        k \in shards[ShardOf[k]].map => k \in history.fresh[s]
    BY DEF DelEffective
  <2>1. session[s].todo = {}
    BY DEF DInv, IInv, Sessions, WellFormed
  <2>2. Pending(session[s]) = {}
    BY <2>1 DEF Pending
  <2> QED
    BY <2>2 DEF DInv, Swept
<1> QED
  BY <1>1, SweptAlways, PTL

-----------------------------------------------------------------------------
(* The step in which a command runs on its shard.                          *)

(* get finds the keys that are held and not expired. *)
LEMMA GetFinds ==
  ASSUME NEW sh, Consistent(sh), NEW k \in Key, NEW t \in Int
  PROVE  LET g == get(sh, k, t)
         IN  /\ g.ret # Null <=> (k \in sh.map /\ ~ is_expired(sh.node[k], t))
             /\ g.ret # Null => g.shard.node = sh.node
<1> DEFINE m == [sh EXCEPT !.lru = MoveToFront(@, k)]
<1>1. m.node = sh.node
  BY DEF Consistent, Shard
<1> HIDE DEF m
<1>2. k \in sh.map => sh.node[k].value # Null
  <2>1. k \in sh.map => sh.node[k].value \in Value
    BY HeldValued DEF Valued
  <2> QED
    BY <2>1, NullAssumption
<1>3. CASE k \notin sh.map
  BY <1>3 DEF get
<1>4. CASE k \in sh.map /\ is_expired(sh.node[k], t)
  BY <1>4 DEF get
<1>5. CASE k \in sh.map /\ ~ is_expired(sh.node[k], t)
  <2>1. get(sh, k, t) = [shard |-> m, ret |-> sh.node[k].value]
    BY <1>5 DEF get, m
  <2> QED
    BY <1>1, <1>2, <1>5, <2>1
<1> QED
  BY <1>3, <1>4, <1>5

(* r is what SET NX or SET XX may do at time t. *)
Conditional(cmd, sh, t, r) ==
  LET k        == cmd.key
      readable == k \in sh.map /\ ~ is_expired(sh.node[k], t)
      wrote    == r.ret.type = "kSimpleString"
  IN  /\ wrote <=> (readable <=> cmd.opt = "XX")
      /\ ~ wrote /\ readable => r.shard.node[k] = sh.node[k]

(* SET does it. *)
LEMMA SetConditional ==
  ASSUME NEW sh, Consistent(sh), NEW cmd \in Command, cmd.type = "kSet",
         cmd.opt \in {"NX", "XX"}, NEW t \in Int
  PROVE  Conditional(cmd, sh, t, processSetCommand(cmd, sh, t))
<1> DEFINE r == processSetCommand(cmd, sh, t)
           k == cmd.key
           g == get(sh, k, t)
           ok == RespValue("kSimpleString", Null)
           null == RespValue("kNullBulkString", Null)
           n == set(g.shard, k, cmd.value, Null)
           readable == k \in sh.map /\ ~ is_expired(sh.node[k], t)
<1>1. k \in Key /\ cmd.arg \in Nat \cup {Null}
  BY CommandAssumption
<1>2. (g.ret # Null <=> readable) /\ (g.ret # Null => g.shard.node = sh.node)
  BY <1>1, GetFinds
<1>3. ok.type = "kSimpleString" /\ null.type = "kNullBulkString"
  BY DEF RespValue
<1>4. SetOutcome(cmd, sh, t, r)
  BY <1>1, SetOutcomes
<1>5. \/ r = Result(g.shard, null) /\ (cmd.opt = "NX" <=> g.ret # Null)
      \/ r = Result(n, ok) /\ (cmd.opt = "XX" <=> g.ret # Null)
  BY <1>4 DEF SetOutcome
<1> HIDE DEF r, g, ok, null, n
<1>6. CASE r = Result(g.shard, null) /\ (cmd.opt = "NX" <=> g.ret # Null)
  <2>1. r.shard = g.shard /\ r.ret = null
    BY <1>6, ResultFields
  <2>2. r.ret.type # "kSimpleString"
    BY <1>3, <2>1
  <2>3. ~ (readable <=> cmd.opt = "XX")
    BY <1>2, <1>6
  <2>4. readable => r.shard.node[k] = sh.node[k]
    BY <1>2, <2>1
  <2> QED
    BY <2>2, <2>3, <2>4 DEF Conditional, r
<1>7. CASE r = Result(n, ok) /\ (cmd.opt = "XX" <=> g.ret # Null)
  <2>1. r.ret = ok
    BY <1>7, ResultFields
  <2>2. r.ret.type = "kSimpleString"
    BY <1>3, <2>1
  <2>3. readable <=> cmd.opt = "XX"
    BY <1>2, <1>7
  <2> QED
    BY <2>2, <2>3 DEF Conditional, r
<1> QED
  BY <1>5, <1>6, <1>7 DEF r

(* A command other than DEL is answered with an error only if its shard    *)
(* is as it was.                                                           *)
LEMMA ErrorsHarmless ==
  ASSUME NEW cmd \in Command, NEW i \in Targets(cmd), NEW sh, Sound(i, sh), NEW t \in Int,
         cmd.type # "kDel", Run(cmd, i, sh, t).ret # Null,
         Run(cmd, i, sh, t).ret.type = "kError"
  PROVE  Run(cmd, i, sh, t).shard = sh
<1> DEFINE r == Run(cmd, i, sh, t)
           error == RespValue("kError", Null)
<1>1. \A type, data : RespValue(type, data).type = type
  BY DEF RespValue
<1>2. cmd.arg \in Nat \cup {Null}
  BY CommandAssumption
<1>3. CASE cmd.type = "kGet"
  <2> DEFINE g == get(sh, cmd.key, t)
             v == IF g.ret # Null THEN RespValue("kBulkString", g.ret)
                                  ELSE RespValue("kNullBulkString", Null)
  <2>1. r = Result(g.shard, v)
    BY <1>3 DEF Run, processGetCommand
  <2>2. v.type # "kError"
    BY <1>1
  <2> HIDE DEF v, g
  <2>3. r.ret = v
    BY <2>1, ResultFields
  <2> QED
    BY <2>2, <2>3
<1>4. CASE cmd.type = "kTtl"
  <2> DEFINE g == ttl(sh, cmd.key, t, t)
             v == RespValue("kInteger", g.ret)
  <2>1. r = Result(g.shard, v)
    BY <1>4 DEF Run, processTtlCommand
  <2>2. v.type # "kError"
    BY <1>1
  <2> HIDE DEF v, g
  <2>3. r.ret = v
    BY <2>1, ResultFields
  <2> QED
    BY <2>2, <2>3
<1>5. CASE cmd.type = "kExpire"
  <2>1. r = processExpireCommand(cmd, sh, t)
    BY <1>5 DEF Run
  <2>2. CASE cmd.arg = Null
    <3>1. r = Result(sh, error)
      BY <2>1, <2>2 DEF processExpireCommand
    <3> QED
      BY <3>1, ResultFields
  <2>3. CASE cmd.arg # Null
    <3> DEFINE g == expire(sh, cmd.key, Deadline(t, cmd.arg))
               v == RespValue("kInteger", IF g.ret THEN 1 ELSE 0)
    <3>1. r = Result(g.shard, v)
      BY <2>1, <2>3 DEF processExpireCommand
    <3>2. v.type # "kError"
      BY <1>1
    <3> HIDE DEF v, g
    <3>3. r.ret = v
      BY <3>1, ResultFields
    <3> QED
      BY <3>2, <3>3
  <2> QED
    BY <2>2, <2>3
<1>6. CASE cmd.type = "kSet"
  <2> DEFINE g == get(sh, cmd.key, t)
             ok == RespValue("kSimpleString", Null)
             null == RespValue("kNullBulkString", Null)
             n(from, d) == set(from, cmd.key, cmd.value, d)
  <2>1. r = processSetCommand(cmd, sh, t)
    BY <1>6 DEF Run
  <2>2. SetOutcome(cmd, sh, t, r)
    BY <1>2, <2>1, SetOutcomes
  <2>3. \/ r = Result(sh, error)
        \/ r = Result(g.shard, null)
        \/ \E d : r = Result(n(sh, d), ok)
        \/ r = Result(n(g.shard, Null), ok)
    BY <2>2 DEF SetOutcome
  <2>4. ok.type # "kError" /\ null.type # "kError"
    BY <1>1
  <2> HIDE DEF g, ok, null, error, n, r
  <2>5. r = Result(sh, error)
    <3>1. r # Result(g.shard, null)
      BY <2>4, ResultFields DEF r
    <3>2. \A w : r # Result(w, ok)
      BY <2>4, ResultFields DEF r
    <3> QED
      BY <2>3, <3>1, <3>2
  <2>6. r.shard = sh
    BY <2>5, ResultFields
  <2> QED
    BY <2>6 DEF r
<1>7. CASE cmd.type = "kInfo"
  <2>1. r = ShardStats(sh)
    BY <1>7 DEF Run
  <2>2. r.shard = sh
    BY <2>1 DEF ShardStats
  <2> QED
    BY <2>2
<1> QED
  BY <1>3, <1>4, <1>5, <1>6, <1>7, TargetsType

(* The command of s ran on shard i. *)
RanOn(s, i) ==
  LET cmd == session'[s].cmd
      r   == Run(cmd, i, shards[i], now)
  IN  /\ cmd \in Command /\ i \in Targets(cmd) /\ i \in ShardIndex
      /\ shards'[i] = r.shard
      /\ \A j \in ShardIndex : j # i => shards'[j] = shards[j]
      /\ cmd.type # "kDel" => RanRet(s) = r.ret

(* A command of no shard, or of one. *)
LEMMA RanCases ==
  ASSUME IInv, [Next]_vars, NEW s \in Session, Ran(s)
  PROVE  \/ shards' = shards /\ session'[s].cmd \in Command
            /\ Targets(session'[s].cmd) = {}
         \/ \E i \in ShardIndex : RanOn(s, i)
<1> DEFINE Goal == \/ shards' = shards /\ session'[s].cmd \in Command
                      /\ Targets(session'[s].cmd) = {}
                   \/ \E i \in ShardIndex : RanOn(s, i)
<1>1. ASSUME session'[s] = session[s] PROVE FALSE
  BY <1>1 DEF Ran
<1>2. ASSUME NEW t \in Session, NEW cmd \in Command, Start(t, cmd) PROVE Goal
  <2>1. CASE StartsAway(t, cmd)
    <3>1. /\ \A u \in Session : u # t => session'[u] = session[u]
          /\ session'[t].cmd = cmd
          /\ Targets(cmd) # {} => session'[t].pc = "posted"
      BY <2>1, AwayStep
    <3>2. t = s
      BY <1>1, <3>1
    <3>3. session[s].pc = "idle"
      BY <1>2, <3>2, StartCases
    <3>4. Targets(cmd) = {}
      BY <3>1, <3>2, <3>3 DEF Ran
    <3>5. shards' = shards
      BY <2>1 DEF StartsAway
    <3> QED
      BY <3>1, <3>2, <3>4, <3>5
  <2>2. CASE StartsHome(t, cmd)
    <3> DEFINE h == home[t]
               r == Run(cmd, h, shards[h], now)
    <3>1. /\ \A u \in Session : u # t => session'[u] = session[u]
          /\ session'[t].cmd = cmd /\ h \in ShardIndex /\ h \in Targets(cmd)
          /\ shards'[h] = r.shard
          /\ \A j \in ShardIndex : j # h => shards'[j] = shards[j]
          /\ session'[t].pc = "reply" /\ cmd.type # "kDel" => session'[t].ret = r.ret
      BY <2>2, HomeStep
    <3>2. t = s
      BY <1>1, <3>1
    <3>3. session[s].pc = "idle"
      BY <1>2, <3>2, StartCases
    <3>4. session'[s].pc = "reply"
      BY <3>3 DEF Ran
    <3> HIDE DEF h
    <3>5. cmd.type # "kDel" => RanRet(s) = r.ret
      BY <3>1, <3>2, <3>4 DEF RanRet
    <3>6. RanOn(s, h)
      BY <3>1, <3>2, <3>5 DEF RanOn
    <3> QED
      BY <3>1, <3>6
  <2> QED
    BY <1>2, <2>1, <2>2, StartCases
<1>3. ASSUME NEW t \in Session, RunJob(t) PROVE Goal
  <2> DEFINE i == Min(session[t].todo)
             cmd == session[t].cmd
             r == Run(cmd, i, shards[i], now)
  <2>1. /\ i \in ShardIndex /\ cmd \in Command /\ i \in Targets(cmd)
        /\ shards'[i] = r.shard
        /\ \A j \in ShardIndex : j # i => shards'[j] = shards[j]
        /\ \A u \in Session : u # t => session'[u] = session[u]
        /\ session'[t].pc = "ran" /\ session'[t].cmd = cmd
        /\ session'[t].res.ret = r.ret
    BY <1>3, JobStep
  <2>2. t = s
    BY <1>1, <2>1
  <2> HIDE DEF i
  <2>3. RanRet(s) = r.ret
    BY <2>1, <2>2 DEF RanRet
  <2>4. RanOn(s, i)
    BY <2>1, <2>2, <2>3 DEF RanOn
  <2> QED
    BY <2>1, <2>4
<1>4. ASSUME NEW t \in Session, Resume(t) PROVE Goal
  <2>1. /\ \A u \in Session : u # t => session'[u] = session[u]
        /\ session[t].pc = "ran"
    BY <1>4, ResumeStep
  <2> QED
    BY <1>1, <2>1 DEF Ran
<1>5. ASSUME NEW t \in Session, Reply(t) PROVE Goal
  <2>1. /\ \A u \in Session : u # t => session'[u] = session[u]
        /\ session[t].pc = "reply"
    BY <1>5, ReplyStep
  <2> QED
    BY <1>1, <2>1 DEF Ran
<1>6. ASSUME UNCHANGED session PROVE Goal
  BY <1>1, <1>6
<1>7. (\E i \in ShardIndex : Clean(i)) \/ StopNext \/ Tick \/ UNCHANGED vars
        => UNCHANGED session
  BY DEF Clean, StopNext, Tick, vars
<1> QED
  BY <1>2, <1>3, <1>4, <1>5, <1>6, <1>7 DEF Next

(* The step ConditionalSets is about. *)
ConditionalStep ==
  \A s \in Session :
    Ran(s) /\ session'[s].cmd.type = "kSet" /\ session'[s].cmd.opt \in {"NX", "XX"} =>
      LET k     == session'[s].cmd.key
          i     == ShardOf[k]
          wrote == RanRet(s).type = "kSimpleString"
      IN  /\ wrote <=> (Readable(k) <=> session'[s].cmd.opt = "XX")
          /\ ~ wrote /\ Readable(k) => shards'[i].node[k] = shards[i].node[k]

(* SET NX and SET XX decide by what a GET would see at that very moment:   *)
(* no step of another session falls between the lookup and the write, on   *)
(* the home shard or through run_on_shard.                                 *)
THEOREM SetsConditional == Spec => ConditionalSets
<1>1. IInv /\ [Next]_vars => [ConditionalStep]_vars
  <2> SUFFICES ASSUME IInv, [Next]_vars, NEW s \in Session, Ran(s),
                      session'[s].cmd.type = "kSet",
                      session'[s].cmd.opt \in {"NX", "XX"}
               PROVE  LET k     == session'[s].cmd.key
                          i     == ShardOf[k]
                          wrote == RanRet(s).type = "kSimpleString"
                      IN  /\ wrote <=> (Readable(k) <=> session'[s].cmd.opt = "XX")
                          /\ ~ wrote /\ Readable(k) => shards'[i].node[k] = shards[i].node[k]
    BY DEF ConditionalStep
  <2> DEFINE cmd == session'[s].cmd
             k == cmd.key
  <2>1. cmd \in Command
    BY RanCases DEF RanOn
  <2>2. k \in Key /\ Targets(cmd) = {ShardOf[k]}
    BY <2>1, CommandAssumption DEF Targets
  <2>3. PICK i \in ShardIndex : RanOn(s, i)
    BY <2>2, RanCases
  <2> DEFINE r == Run(cmd, i, shards[i], now)
  <2>4. i \in Targets(cmd) /\ shards'[i] = r.shard /\ RanRet(s) = r.ret
    BY <2>3 DEF RanOn
  <2>5. i = ShardOf[k]
    BY <2>2, <2>4
  <2>6. Consistent(shards[i]) /\ now \in Int
    BY DEF IInv, Pool, Sound
  <2>7. r = processSetCommand(cmd, shards[i], now)
    BY DEF Run
  <2>8. Conditional(cmd, shards[i], now, processSetCommand(cmd, shards[i], now))
    BY <2>1, <2>6, SetConditional
  <2> HIDE DEF r
  <2>9. Conditional(cmd, shards[i], now, r)
    BY <2>7, <2>8
  <2>10. Readable(k) <=> k \in shards[i].map /\ ~ is_expired(shards[i].node[k], now)
    BY <2>5 DEF Readable
  <2> QED
    BY <2>4, <2>5, <2>9, <2>10 DEF Conditional
<1> QED
  BY <1>1, Invariance, PTL DEF Spec, ConditionalSets, ConditionalStep

(* The step ErrorsChangeNothing is about. *)
ErrorStep ==
  \A s \in Session :
    Ran(s) /\ session'[s].cmd.type # "kDel" /\ RanRet(s) # Null
      => (RanRet(s).type = "kError" => shards' = shards)

(* A command answered with an error has left every shard as it was: an     *)
(* argument is refused before anything is looked up or stored.             *)
THEOREM ErrorsLeaveShards == Spec => ErrorsChangeNothing
<1>1. IInv /\ [Next]_vars => [ErrorStep]_vars
  <2> SUFFICES ASSUME IInv, [Next]_vars, NEW s \in Session, Ran(s),
                      session'[s].cmd.type # "kDel", RanRet(s) # Null,
                      RanRet(s).type = "kError"
               PROVE  shards' = shards
    BY DEF ErrorStep
  <2>1. CASE shards' = shards
    BY <2>1
  <2>2. ASSUME NEW i \in ShardIndex, RanOn(s, i) PROVE shards' = shards
    <3> DEFINE cmd == session'[s].cmd
               r == Run(cmd, i, shards[i], now)
    <3>1. /\ cmd \in Command /\ i \in Targets(cmd) /\ shards'[i] = r.shard
          /\ \A j \in ShardIndex : j # i => shards'[j] = shards[j]
          /\ RanRet(s) = r.ret
      BY <2>2 DEF RanOn
    <3>2. Sound(i, shards[i]) /\ now \in Int
      BY DEF IInv, Pool
    <3>3. r.shard = shards[i]
      BY <3>1, <3>2, ErrorsHarmless
    <3>4. \A j \in ShardIndex : shards'[j] = shards[j]
      BY <3>1, <3>3
    <3>5. shards \in [ShardIndex -> Shard] /\ shards' \in [ShardIndex -> Shard]
      BY NextIInv DEF IInv, Pool
    <3> QED
      BY <3>4, <3>5
  <2> QED
    BY <2>1, <2>2, RanCases
<1> QED
  BY <1>1, Invariance, PTL DEF Spec, ErrorsChangeNothing, ErrorStep

-----------------------------------------------------------------------------
(***************************************************************************)
(* What the counters of several shards add up to while commands interleave *)
(* on them: no key is lost or counted twice, and the totals INFO collects  *)
(* shard by shard are bracketed.                                           *)
(*                                                                         *)
(* Conservation is inductive once the keys that a job has deleted are      *)
(* counted from the moment the job ran.  For INFO the invariant speaks of  *)
(* a loop in the middle: what it has added up is at most what the shards   *)
(* visited have counted by now, and with what the others have counted by   *)
(* now it is at least what all had counted when it began.                  *)
(***************************************************************************)
(* Every key a shard has received and that no DEL has removed. *)
Held(sh) == Cardinality(sh.map) + Removals(sh)

(* A call took sh to r, inserted n keys or, when n is negative, deleted    *)
(* some; the counters never decrease.                                      *)
Counted(sh, r, n) == Held(r) = Held(sh) + n /\ Removals(sh) <= Removals(r)

-----------------------------------------------------------------------------
(* What a command counts.                                                  *)

(* The counters are natural numbers. *)
LEMMA HeldType ==
  ASSUME NEW sh, Consistent(sh)
  PROVE  /\ Held(sh) \in Nat /\ Removals(sh) \in Nat /\ Cardinality(sh.map) \in Nat
         /\ sh.evictions \in Nat /\ sh.expired \in Nat
<1>1. Cardinality(sh.map) \in Nat /\ sh.evictions \in Nat /\ sh.expired \in Nat
  BY FS_CardinalityType DEF Consistent, Shard
<1> QED
  BY <1>1 DEF Held, Removals

(* A call that only drops keys it counts. *)
LEMMA DropsCounted ==
  ASSUME NEW sh, Consistent(sh), NEW r, Consistent(r),
         Grown(sh, r) = 0, r.map \subseteq sh.map
  PROVE  Counted(sh, r, 0)
<1>1. /\ Cardinality(sh.map) \in Nat /\ sh.evictions \in Nat /\ sh.expired \in Nat
      /\ Cardinality(r.map) \in Nat /\ r.evictions \in Nat /\ r.expired \in Nat
  BY HeldType
<1>2. Cardinality(r.map) <= Cardinality(sh.map)
  BY FS_Subset DEF Consistent
<1> QED
  BY <1>1, <1>2 DEF Counted, Held, Removals, Grown

(* A write. *)
LEMMA SetCounted ==
  ASSUME NEW sh, Consistent(sh), NEW k \in Key, NEW v \in Value, NEW d \in Int \cup {Null}
  PROVE  LET r == set(sh, k, v, d)
         IN  /\ Consistent(r) /\ r.expired = sh.expired
             /\ Counted(sh, r, IF k \in sh.map THEN 0 ELSE 1)
<1> DEFINE st == Store(sh, k, v, d)
           E == Evicted(st)
           r == set(sh, k, v, d)
           n == IF k \in sh.map THEN 0 ELSE 1
<1>1. /\ Consistent(st) /\ E \subseteq st.map /\ r.expired = sh.expired
      /\ r.evictions = sh.evictions + Cardinality(E)
      /\ Grown(sh, r) = n
  BY SetEffect
<1>2. Consistent(r)
  BY SetConsistent
<1>3. Cardinality(E) \in Nat
  BY <1>1, FS_Subset, FS_CardinalityType DEF Consistent
<1>4. n \in Nat
  OBVIOUS
<1>5. /\ Cardinality(sh.map) \in Nat /\ sh.evictions \in Nat /\ sh.expired \in Nat
      /\ Cardinality(r.map) \in Nat /\ r.evictions \in Nat /\ r.expired \in Nat
  BY <1>2, HeldType
<1> HIDE DEF r, n, E, st
<1>6. Counted(sh, r, n)
  BY <1>1, <1>3, <1>4, <1>5 DEF Counted, Held, Removals, Grown
<1> QED
  BY <1>1, <1>2, <1>6 DEF r, n

(* A lookup: the key is gone afterwards if it was not there or has just    *)
(* been removed as expired.                                                *)
LEMMA GetCounted ==
  ASSUME NEW sh, Consistent(sh), NEW k \in Key, NEW t \in Int
  PROVE  LET g == get(sh, k, t).shard
         IN  /\ Consistent(g) /\ Counted(sh, g, 0)
             /\ k \notin g.map <=> (k \notin sh.map \/ g.expired # sh.expired)
<1> DEFINE g == get(sh, k, t).shard
           m == [sh EXCEPT !.lru = MoveToFront(@, k)]
           x == remove_keys(sh, {k}, "kExpired")
<1>1. Consistent(g) /\ Grown(sh, g) = 0 /\ g.map \subseteq sh.map
  BY GetConsistent, GetEffect, LookMap
<1>2. Counted(sh, g, 0)
  BY <1>1, DropsCounted
<1>3. m.map = sh.map /\ m.expired = sh.expired
  BY DEF Consistent, Shard
<1>4. k \in sh.map => k \notin x.map /\ x.expired # sh.expired
  <2> SUFFICES ASSUME k \in sh.map PROVE k \notin x.map /\ x.expired # sh.expired
    OBVIOUS
  <2>1. {k} \subseteq sh.map /\ Cardinality({k}) = 1
    BY FS_Singleton
  <2>2. x.map = sh.map \ {k} /\ x.expired = sh.expired + Cardinality({k})
    BY <2>1, RemoveEffect
  <2>3. sh.expired \in Nat
    BY HeldType
  <2> QED
    BY <2>1, <2>2, <2>3
<1> HIDE DEF m, x
<1>5. CASE k \notin sh.map
  <2>1. g = sh
    BY <1>5 DEF get
  <2> QED
    BY <1>1, <1>2, <1>5, <2>1
<1>6. CASE k \in sh.map /\ is_expired(sh.node[k], t)
  <2>1. g = x
    BY <1>6 DEF get, x
  <2> QED
    BY <1>1, <1>2, <1>4, <1>6, <2>1
<1>7. CASE k \in sh.map /\ ~ is_expired(sh.node[k], t)
  <2>1. g = m
    BY <1>7 DEF get, m
  <2> QED
    BY <1>1, <1>2, <1>3, <1>7, <2>1
<1> QED
  BY <1>5, <1>6, <1>7

(* What result r of cmd on sh has to count: the key it inserts, if any,    *)
(* and those it deletes.                                                   *)
Exact(cmd, sh, r) ==
  Counted(sh, r.shard,
          (IF Inserts(cmd, sh, r.shard, r.ret) THEN 1 ELSE 0) - r.total.deleted)

(* A command that is no SET, or no write, inserts nothing. *)
LEMMA PlainExact ==
  ASSUME NEW cmd, NEW sh, NEW g, NEW ret, Counted(sh, g, 0), ~ Wrote(cmd, ret)
  PROVE  Exact(cmd, sh, Result(g, ret))
<1> DEFINE r == Result(g, ret)
<1>1. r.shard = g /\ r.ret = ret /\ r.total.deleted = 0
  BY ResultFields DEF Zero
<1> HIDE DEF r
<1>2. (IF Inserts(cmd, sh, r.shard, r.ret) THEN 1 ELSE 0) - r.total.deleted = 0
  BY <1>1 DEF Inserts
<1>3. Exact(cmd, sh, r)
  BY <1>1, <1>2 DEF Exact
<1> QED
  BY <1>3 DEF r

(* SET counts its key if it is new, also when the lookup removed it. *)
LEMMA SetExact ==
  ASSUME NEW sh, Consistent(sh), NEW cmd \in Command, cmd.type = "kSet", NEW t \in Int
  PROVE  Exact(cmd, sh, processSetCommand(cmd, sh, t))
<1> DEFINE r == processSetCommand(cmd, sh, t)
           k == cmd.key
           g == get(sh, k, t)
           ok == RespValue("kSimpleString", Null)
           null == RespValue("kNullBulkString", Null)
           error == RespValue("kError", Null)
<1>1. k \in Key /\ cmd.value \in Value /\ cmd.arg \in Nat \cup {Null}
  BY CommandAssumption
<1>2. Wrote(cmd, ok) /\ ~ Wrote(cmd, null) /\ ~ Wrote(cmd, error)
  BY DEF Wrote, RespValue
<1>3. /\ Consistent(g.shard) /\ Counted(sh, g.shard, 0)
      /\ k \notin g.shard.map <=> (k \notin sh.map \/ g.shard.expired # sh.expired)
  BY <1>1, GetCounted
<1>4. \/ r = Result(sh, error)
      \/ r = Result(g.shard, null)
      \/ \E d \in Int \cup {Null} : r = Result(set(sh, k, cmd.value, d), ok)
      \/ r = Result(set(g.shard, k, cmd.value, Null), ok)
  <2>1. SetOutcome(cmd, sh, t, r)
    BY <1>1, SetOutcomes
  <2> QED
    BY <2>1 DEF SetOutcome
<1>5. Held(sh) \in Nat /\ Removals(sh) \in Nat
  BY HeldType
<1>6. Counted(sh, sh, 0)
  BY <1>5 DEF Counted
<1> HIDE DEF r, g, ok, null, error
<1>7. CASE r = Result(sh, error)
  BY <1>2, <1>6, <1>7, PlainExact DEF r
<1>8. CASE r = Result(g.shard, null)
  BY <1>2, <1>3, <1>8, PlainExact DEF r
<1>9. ASSUME NEW from, Consistent(from), Counted(sh, from, 0), NEW d \in Int \cup {Null},
             k \notin from.map <=> (k \notin sh.map \/ from.expired # sh.expired),
             r = Result(set(from, k, cmd.value, d), ok)
      PROVE  Exact(cmd, sh, r)
  <2> DEFINE n == set(from, k, cmd.value, d)
             new == IF k \in from.map THEN 0 ELSE 1
  <2>1. Consistent(n) /\ n.expired = from.expired /\ Counted(from, n, new)
    BY <1>1, <1>9, SetCounted
  <2> HIDE DEF n
  <2>2. r.shard = n /\ r.ret = ok /\ r.total.deleted = 0
    BY <1>9, ResultFields DEF n, Zero
  <2>3. Inserts(cmd, sh, r.shard, r.ret) <=> k \notin from.map
    BY <1>2, <1>9, <2>1, <2>2 DEF Inserts
  <2>4. (IF Inserts(cmd, sh, r.shard, r.ret) THEN 1 ELSE 0) - r.total.deleted = new
    BY <2>2, <2>3
  <2>5. new \in Nat
    OBVIOUS
  <2> HIDE DEF new
  <2>6. /\ Held(from) \in Nat /\ Removals(from) \in Nat
        /\ Held(n) \in Nat /\ Removals(n) \in Nat
    BY <1>9, <2>1, HeldType
  <2>7. Counted(sh, n, new)
    BY <1>5, <1>9, <2>1, <2>5, <2>6 DEF Counted
  <2> QED
    BY <2>2, <2>4, <2>7 DEF Exact
<1>10. CASE \E d \in Int \cup {Null} : r = Result(set(sh, k, cmd.value, d), ok)
  <2>1. k \notin sh.map <=> (k \notin sh.map \/ sh.expired # sh.expired)
    OBVIOUS
  <2> QED
    BY <1>6, <1>9, <1>10, <2>1 DEF r
<1>11. CASE r = Result(set(g.shard, k, cmd.value, Null), ok)
  BY <1>3, <1>9, <1>11 DEF r
<1> QED
  BY <1>4, <1>7, <1>8, <1>10, <1>11 DEF r

(* A deletion counts as neither an eviction nor an expiry. *)
LEMMA DeleteEffect ==
  ASSUME NEW sh, Consistent(sh), NEW K, K \subseteq sh.map
  PROVE  LET m == remove_keys(sh, K, "kDelete")
         IN  /\ m.evictions = sh.evictions /\ m.expired = sh.expired
             /\ Cardinality(K) \in Nat
             /\ Cardinality(m.map) = Cardinality(sh.map) - Cardinality(K)
<1> DEFINE why == "kDelete"
           m == remove_keys(sh, K, why)
<1>1. why # "kEviction" /\ why # "kExpired"
  OBVIOUS
<1> HIDE DEF why
<1>2. /\ m.evictions = IF why = "kEviction" THEN sh.evictions + Cardinality(K)
                                            ELSE sh.evictions
      /\ m.expired = IF why = "kExpired" THEN sh.expired + Cardinality(K)
                                         ELSE sh.expired
      /\ Cardinality(K) \in Nat
      /\ Cardinality(m.map) = Cardinality(sh.map) - Cardinality(K)
  BY RemoveEffect
<1> HIDE DEF m
<1> QED
  BY <1>1, <1>2 DEF m, why

(* Whatever runs on a shard, the keys are accounted for. *)
LEMMA RunExact ==
  ASSUME NEW cmd \in Command, NEW i \in Targets(cmd), NEW sh, Sound(i, sh), NEW t \in Int
  PROVE  Exact(cmd, sh, Run(cmd, i, sh, t))
<1>1. Consistent(sh)
  BY DEF Sound
<1>2. Held(sh) \in Nat /\ Removals(sh) \in Nat
  BY <1>1, HeldType
<1>3. Counted(sh, sh, 0)
  BY <1>2 DEF Counted
<1>4. cmd.type \in {"kGet", "kSet", "kExpire", "kTtl"} => cmd.key \in Key
  BY CommandAssumption
<1>5. \A ret : cmd.type # "kSet" => ~ Wrote(cmd, ret)
  BY DEF Wrote
<1>6. CASE cmd.type = "kGet"
  <2> DEFINE g == get(sh, cmd.key, t)
             v == IF g.ret # Null THEN RespValue("kBulkString", g.ret)
                                  ELSE RespValue("kNullBulkString", Null)
  <2>1. Run(cmd, i, sh, t) = Result(g.shard, v)
    BY <1>6 DEF Run, processGetCommand
  <2>2. Counted(sh, g.shard, 0)
    BY <1>1, <1>4, <1>6, GetCounted
  <2> HIDE DEF g, v
  <2>3. Exact(cmd, sh, Result(g.shard, v))
    BY <1>5, <1>6, <2>2, PlainExact
  <2> QED
    BY <2>1, <2>3
<1>7. CASE cmd.type = "kTtl"
  <2> DEFINE g == ttl(sh, cmd.key, t, t)
             v == RespValue("kInteger", g.ret)
  <2>1. Run(cmd, i, sh, t) = Result(g.shard, v)
    BY <1>7 DEF Run, processTtlCommand
  <2>2. Consistent(g.shard) /\ Grown(sh, g.shard) = 0 /\ g.shard.map \subseteq sh.map
    BY <1>1, <1>4, <1>7, TtlConsistent, TtlEffect, LookMap
  <2> HIDE DEF g, v
  <2>3. Counted(sh, g.shard, 0)
    BY <1>1, <2>2, DropsCounted
  <2>4. Exact(cmd, sh, Result(g.shard, v))
    BY <1>5, <1>7, <2>3, PlainExact
  <2> QED
    BY <2>1, <2>4
<1>8. CASE cmd.type = "kExpire" /\ cmd.arg = Null
  <2> DEFINE v == RespValue("kError", Null)
  <2>1. Run(cmd, i, sh, t) = Result(sh, v)
    BY <1>8 DEF Run, processExpireCommand
  <2> HIDE DEF v
  <2>2. Exact(cmd, sh, Result(sh, v))
    BY <1>3, <1>5, <1>8, PlainExact
  <2> QED
    BY <2>1, <2>2
<1>9. CASE cmd.type = "kExpire" /\ cmd.arg # Null
  <2> DEFINE d == Deadline(t, cmd.arg)
             g == expire(sh, cmd.key, d)
             v == RespValue("kInteger", IF g.ret THEN 1 ELSE 0)
  <2>1. Run(cmd, i, sh, t) = Result(g.shard, v)
    BY <1>9 DEF Run, processExpireCommand
  <2>2. d \in Int
    <3>1. cmd.arg \in Nat \cup {Null}
      BY CommandAssumption
    <3>2. cmd.arg \in Int
      BY <1>9, <3>1
    <3> QED
      BY <3>2, DeadlineType
  <2> HIDE DEF d
  <2>3. Consistent(g.shard) /\ Grown(sh, g.shard) = 0 /\ g.shard.map = sh.map
    BY <1>1, <1>4, <1>9, <2>2, ExpireConsistent, ExpireEffect
  <2> HIDE DEF g, v
  <2>4. Counted(sh, g.shard, 0)
    BY <1>1, <2>3, DropsCounted
  <2>5. Exact(cmd, sh, Result(g.shard, v))
    BY <1>5, <1>9, <2>4, PlainExact
  <2> QED
    BY <2>1, <2>5
<1>10. CASE cmd.type = "kSet"
  <2>1. Run(cmd, i, sh, t) = processSetCommand(cmd, sh, t)
    BY <1>10 DEF Run
  <2> QED
    BY <1>1, <1>10, <2>1, SetExact
<1>11. CASE cmd.type = "kDel"
  <2> DEFINE K == KeysOn(cmd, i) \cap sh.map
             m == remove_keys(sh, K, "kDelete")
             r == processDelKeys(cmd, i, sh)
             n == Cardinality(K)
  <2>1. Run(cmd, i, sh, t) = r
    BY <1>11 DEF Run
  <2>2. r.shard = m /\ r.total.deleted = n
    BY <1>11, DelHandled
  <2>3. /\ m.evictions = sh.evictions /\ m.expired = sh.expired /\ n \in Nat
        /\ Cardinality(m.map) = Cardinality(sh.map) - n
    <3>1. K \subseteq sh.map
      OBVIOUS
    <3> HIDE DEF K
    <3> QED
      BY <1>1, <3>1, DeleteEffect
  <2>4. /\ Cardinality(sh.map) \in Nat /\ sh.evictions \in Nat /\ sh.expired \in Nat
    BY <1>1, HeldType
  <2> HIDE DEF m, n, K, r
  <2>5. Counted(sh, m, 0 - n)
    BY <2>3, <2>4 DEF Counted, Held, Removals
  <2>6. (IF Inserts(cmd, sh, r.shard, r.ret) THEN 1 ELSE 0) - r.total.deleted = 0 - n
    BY <1>5, <1>11, <2>2 DEF Inserts
  <2>7. Exact(cmd, sh, r)
    BY <2>2, <2>5, <2>6 DEF Exact
  <2> QED
    BY <2>1, <2>7
<1>12. CASE cmd.type = "kInfo"
  <2> DEFINE r == ShardStats(sh)
  <2>1. Run(cmd, i, sh, t) = r
    BY <1>12 DEF Run
  <2>2. r.shard = sh /\ r.total.deleted = 0
    BY StatsHandled
  <2> HIDE DEF r
  <2>3. (IF Inserts(cmd, sh, r.shard, r.ret) THEN 1 ELSE 0) - r.total.deleted = 0
    BY <1>5, <1>12, <2>2 DEF Inserts
  <2>4. Exact(cmd, sh, r)
    BY <1>3, <2>2, <2>3 DEF Exact
  <2> QED
    BY <2>1, <2>4
<1> QED
  BY <1>6, <1>7, <1>8, <1>9, <1>10, <1>11, <1>12, TargetsType

-----------------------------------------------------------------------------
(* Conservation.                                                           *)

HeldOf(P) == [i \in ShardIndex |-> Held(P[i])]

(* The keys a coroutine has deleted and not yet reported. *)
Owed(c) == c.total.deleted + (IF c.pc = "ran" THEN c.res.total.deleted ELSE 0)

OwedOf(S) == [s \in Session |-> Owed(S[s])]

Conserved(P, S, h) ==
  h.inserted = Sum(HeldOf(P), ShardIndex) + Sum(OwedOf(S), Session) + h.deleted

(* A pool counts natural numbers. *)
LEMMA HeldCounts ==
  ASSUME NEW P, \A i \in ShardIndex : Consistent(P[i])
  PROVE  Counts(HeldOf(P), ShardIndex)
<1>1. IsFiniteSet(ShardIndex)
  BY ExecutorAssumption, FS_Interval DEF ShardIndex
<1>2. \A i \in ShardIndex : Held(P[i]) \in Nat
  BY HeldType
<1> QED
  BY <1>1, <1>2 DEF Counts, HeldOf

(* So do the coroutines. *)
LEMMA OwedType ==
  ASSUME NEW c, WellFormed(c)
  PROVE  Owed(c) \in Nat /\ c.total \in Totals /\ c.total.deleted \in Nat
<1>1. c.total \in Totals /\ (c.pc = "ran" => c.res \in JobResult)
  BY DEF WellFormed, Coroutine
<1>2. c.total.deleted \in Nat
  BY <1>1, TotalsAdd
<1>3. c.pc = "ran" => c.res.total.deleted \in Nat
  <2>1. c.pc = "ran" => c.res.total \in Totals
    BY <1>1 DEF JobResult
  <2> QED
    BY <2>1, TotalsAdd
<1> QED
  BY <1>1, <1>2, <1>3 DEF Owed

(* And there are finitely many. *)
LEMMA OwedCounts ==
  ASSUME NEW S, \A s \in Session : WellFormed(S[s])
  PROVE  Counts(OwedOf(S), Session)
<1>1. \A s \in Session : Owed(S[s]) \in Nat
  BY OwedType
<1> QED
  BY <1>1, ExecutorAssumption DEF Counts, OwedOf

(* One shard changes. *)
LEMMA HeldChange ==
  ASSUME Pool, Pool', NEW i \in ShardIndex,
         \A j \in ShardIndex : j # i => shards'[j] = shards[j]
  PROVE  /\ Sum(HeldOf(shards), ShardIndex) \in Nat /\ Sum(HeldOf(shards'), ShardIndex) \in Nat
         /\ Held(shards[i]) \in Nat /\ Held(shards'[i]) \in Nat
         /\ Sum(HeldOf(shards'), ShardIndex)
              = Sum(HeldOf(shards), ShardIndex) + (Held(shards'[i]) - Held(shards[i]))
<1> DEFINE f == HeldOf(shards)
           g == HeldOf(shards')
<1>1. \A j \in ShardIndex : Consistent(shards[j]) /\ Consistent(shards'[j])
  BY DEF Pool, Sound
<1>2. Counts(f, ShardIndex) /\ Counts(g, ShardIndex)
  BY <1>1, HeldCounts
<1>3. /\ f[i] = Held(shards[i]) /\ g[i] = Held(shards'[i])
      /\ \A j \in ShardIndex : j # i => f[j] = g[j]
  BY DEF HeldOf
<1> HIDE DEF f, g
<1>4. /\ Sum(f, ShardIndex) \in Nat /\ Sum(g, ShardIndex) \in Nat
      /\ f[i] \in Nat /\ g[i] \in Nat
      /\ Sum(g, ShardIndex) = Sum(f, ShardIndex) + (g[i] - f[i])
  BY <1>2, <1>3, SumUpdate
<1> QED
  BY <1>3, <1>4 DEF f, g

(* One coroutine changes. *)
LEMMA OwedChange ==
  ASSUME Sessions, Sessions', NEW s \in Session,
         \A t \in Session : t # s => session'[t] = session[t]
  PROVE  /\ Sum(OwedOf(session), Session) \in Nat /\ Sum(OwedOf(session'), Session) \in Nat
         /\ Owed(session[s]) \in Nat /\ Owed(session'[s]) \in Nat
         /\ Sum(OwedOf(session'), Session)
              = Sum(OwedOf(session), Session) + (Owed(session'[s]) - Owed(session[s]))
<1> DEFINE f == OwedOf(session)
           g == OwedOf(session')
<1>1. \A t \in Session : WellFormed(session[t]) /\ WellFormed(session'[t])
  BY DEF Sessions
<1>2. Counts(f, Session) /\ Counts(g, Session)
  BY <1>1, OwedCounts
<1>3. /\ f[s] = Owed(session[s]) /\ g[s] = Owed(session'[s])
      /\ \A t \in Session : t # s => f[t] = g[t]
  BY DEF OwedOf
<1> HIDE DEF f, g
<1>4. /\ Sum(f, Session) \in Nat /\ Sum(g, Session) \in Nat
      /\ f[s] \in Nat /\ g[s] \in Nat
      /\ Sum(g, Session) = Sum(f, Session) + (g[s] - f[s])
  BY <1>2, <1>3, SumUpdate
<1> QED
  BY <1>3, <1>4 DEF f, g

CInv == DInv /\ Conserved(shards, session, history)

(* A command runs on shard i for session s, which has deleted r's keys as  *)
(* well.                                                                   *)
LEMMA RunConserves ==
  ASSUME CInv, Pool', Sessions', NEW s \in Session, NEW i \in ShardIndex,
         NEW cmd \in Command, NEW r, r.total \in Totals, Exact(cmd, shards[i], r),
         shards'[i] = r.shard,
         \A j \in ShardIndex : j # i => shards'[j] = shards[j],
         \A t \in Session : t # s => session'[t] = session[t],
         Owed(session'[s]) = Owed(session[s]) + r.total.deleted,
         history' = Remember(history, cmd, shards[i], r.shard, r.ret)
  PROVE  Conserved(shards', session', history')
<1> DEFINE n == IF Inserts(cmd, shards[i], r.shard, r.ret) THEN 1 ELSE 0
           d == r.total.deleted
           A == Sum(HeldOf(shards), ShardIndex)
           B == Sum(HeldOf(shards'), ShardIndex)
           C == Sum(OwedOf(session), Session)
           D == Sum(OwedOf(session'), Session)
           x == Held(shards[i])
           y == Held(shards'[i])
           u == Owed(session[s])
           w == Owed(session'[s])
<1>1. A \in Nat /\ B \in Nat /\ x \in Nat /\ y \in Nat /\ B = A + (y - x)
  BY HeldChange DEF CInv, DInv, IInv
<1>2. C \in Nat /\ D \in Nat /\ u \in Nat /\ w \in Nat /\ D = C + (w - u)
  BY OwedChange DEF CInv, DInv, IInv
<1>3. history'.inserted = history.inserted + n /\ history'.deleted = history.deleted
  BY RememberEffect DEF CInv, DInv
<1>4. d \in Nat
  BY TotalsAdd
<1>5. y = x + (n - d)
  BY DEF Exact, Counted
<1>6. history.inserted = A + C + history.deleted /\ history.deleted \in Nat
  BY DEF CInv, DInv, Conserved, History
<1>7. w = u + d /\ n \in Nat
  OBVIOUS
<1> HIDE DEF n, d, A, B, C, D, x, y, u, w
<1>8. history.inserted + n = B + D + history.deleted
  BY <1>1, <1>2, <1>4, <1>5, <1>6, <1>7
<1>9. history'.inserted = B + D + history'.deleted
  BY <1>3, <1>8
<1> QED
  BY <1>9 DEF Conserved, B, D

(* A step of session s on no shard. *)
LEMMA SessionConserves ==
  ASSUME CInv, Sessions', shards' = shards, NEW s \in Session,
         \A t \in Session : t # s => session'[t] = session[t],
         history'.inserted = history.inserted, history'.deleted \in Nat,
         Owed(session'[s]) + history'.deleted = Owed(session[s]) + history.deleted
  PROVE  Conserved(shards', session', history')
<1> DEFINE A == Sum(HeldOf(shards), ShardIndex)
           C == Sum(OwedOf(session), Session)
           D == Sum(OwedOf(session'), Session)
           u == Owed(session[s])
           w == Owed(session'[s])
<1>1. A \in Nat
  <2>1. \A j \in ShardIndex : Consistent(shards[j])
    BY DEF CInv, DInv, IInv, Pool, Sound
  <2> QED
    BY <2>1, HeldCounts, SumType
<1>2. C \in Nat /\ D \in Nat /\ u \in Nat /\ w \in Nat /\ D = C + (w - u)
  BY OwedChange DEF CInv, DInv, IInv
<1>3. history.inserted = A + C + history.deleted /\ history.deleted \in Nat
  BY DEF CInv, DInv, Conserved, History
<1> HIDE DEF A, C, D, u, w
<1>4. history'.inserted = A + D + history'.deleted
  BY <1>1, <1>2, <1>3 DEF u, w
<1> QED
  BY <1>4 DEF Conserved, A, D

(* An idle coroutine has nothing to report. *)
LEMMA IdleOwed == Owed(Idle) = 0
BY DEF Owed, Idle, Zero

(* A pass of the cleaner counts what it removes. *)
LEMMA CleanCounted ==
  ASSUME IInv, NEW i \in ShardIndex, Clean(i)
  PROVE  Counted(shards[i], shards'[i], 0)
<1>1. Consistent(shards[i]) /\ now \in Int
  BY DEF IInv, Pool, Sound
<1>2. /\ shards'[i] = remove_expired_keys(shards[i], now)
      /\ shards'[i].map \subseteq shards[i].map
  BY CleanStep
<1>3. Consistent(shards'[i]) /\ Grown(shards[i], shards'[i]) = 0
  BY <1>1, <1>2, SweepConsistent, SweepEffect
<1> QED
  BY <1>1, <1>2, <1>3, DropsCounted

(* Every step conserves the keys. *)
LEMMA NextCInv == CInv /\ [Next]_vars => CInv'
<1> SUFFICES ASSUME CInv, [Next]_vars PROVE CInv'
  OBVIOUS
<1>0. /\ DInv /\ IInv /\ Pool /\ Sessions /\ history \in History
      /\ DInv' /\ Pool' /\ Sessions' /\ history' \in History
  BY NextDInv DEF CInv, DInv, IInv
<1> SUFFICES Conserved(shards', session', history')
  BY <1>0 DEF CInv
<1>1. ASSUME NEW s \in Session, NEW cmd \in Command, Start(s, cmd)
      PROVE  Conserved(shards', session', history')
  <2>1. Owed(session[s]) = 0
    <3>1. session[s] = Idle
      BY <1>0, <1>1, StartCases DEF Sessions, WellFormed
    <3> QED
      BY <3>1, IdleOwed
  <2>2. CASE StartsAway(s, cmd)
    <3>1. /\ \A t \in Session : t # s => session'[t] = session[t]
          /\ session'[s].total = Zero /\ session'[s].pc # "ran"
      BY <1>0, <2>2, AwayStep
    <3>2. shards' = shards /\ history' = Noted(s, cmd)
      BY <2>2 DEF StartsAway
    <3>3. Owed(session'[s]) = 0
      BY <3>1 DEF Owed, Zero
    <3>4. history'.inserted = history.inserted /\ history'.deleted = history.deleted
      BY <1>0, <3>2, NotedEffect
    <3>5. history'.deleted \in Nat
      BY <1>0 DEF History
    <3> QED
      BY <1>0, <2>1, <3>1, <3>2, <3>3, <3>4, <3>5, SessionConserves
  <2>3. CASE StartsHome(s, cmd)
    <3> DEFINE h == home[s]
               r == Run(cmd, h, shards[h], now)
    <3>1. /\ h \in ShardIndex /\ h \in Targets(cmd) /\ Handled(h, shards[h], cmd, r)
          /\ shards'[h] = r.shard
          /\ \A j \in ShardIndex : j # h => shards'[j] = shards[j]
          /\ \A t \in Session : t # s => session'[t] = session[t]
          /\ session'[s].total = r.total /\ session'[s].pc \in {"posted", "reply"}
      BY <1>0, <2>3, HomeStep
    <3>2. history' = Remember(history, cmd, shards[h], r.shard, r.ret)
      BY <2>3 DEF StartsHome
    <3>3. Exact(cmd, shards[h], r)
      <4>1. Sound(h, shards[h]) /\ now \in Int
        BY <1>0, <3>1 DEF IInv, Pool
      <4> QED
        BY <3>1, <4>1, RunExact
    <3> HIDE DEF h, r
    <3>4. r.total \in Totals
      BY <3>1 DEF Handled
    <3>5. r.total.deleted \in Nat
      BY <3>4, TotalsAdd
    <3>6. Owed(session'[s]) = Owed(session[s]) + r.total.deleted
      BY <2>1, <3>1, <3>5 DEF Owed
    <3> QED
      BY <1>0, <3>1, <3>2, <3>3, <3>4, <3>6, RunConserves
  <2> QED
    BY <1>1, <2>2, <2>3, StartCases
<1>2. ASSUME NEW s \in Session, RunJob(s) PROVE Conserved(shards', session', history')
  <2> DEFINE i == Min(session[s].todo)
             cmd == session[s].cmd
             r == Run(cmd, i, shards[i], now)
  <2>1. /\ i \in ShardIndex /\ cmd \in Command /\ i \in Targets(cmd)
        /\ Handled(i, shards[i], cmd, r) /\ shards'[i] = r.shard
        /\ \A j \in ShardIndex : j # i => shards'[j] = shards[j]
        /\ \A t \in Session : t # s => session'[t] = session[t]
        /\ session[s].pc = "posted" /\ session'[s].pc = "ran"
        /\ session'[s].total = session[s].total /\ session'[s].res.total = r.total
    BY <1>0, <1>2, JobStep
  <2>2. history' = Remember(history, cmd, shards[i], r.shard, r.ret)
    BY <1>2 DEF RunJob, Job
  <2>3. Exact(cmd, shards[i], r)
    <3>1. Sound(i, shards[i]) /\ now \in Int
      BY <1>0, <2>1 DEF IInv, Pool
    <3> QED
      BY <2>1, <3>1, RunExact
  <2> HIDE DEF i, r, cmd
  <2>4. r.total \in Totals
    BY <2>1 DEF Handled
  <2>5. r.total.deleted \in Nat /\ session[s].total.deleted \in Nat
    <3>1. WellFormed(session[s])
      BY <1>0 DEF Sessions
    <3> QED
      BY <2>4, <3>1, TotalsAdd, OwedType
  <2>6. Owed(session'[s]) = Owed(session[s]) + r.total.deleted
    BY <2>1, <2>5 DEF Owed
  <2> QED
    BY <1>0, <2>1, <2>2, <2>3, <2>4, <2>6, RunConserves
<1>3. ASSUME NEW s \in Session, Resume(s) PROVE Conserved(shards', session', history')
  <2>1. /\ shards' = shards /\ \A t \in Session : t # s => session'[t] = session[t]
        /\ session[s].pc = "ran" /\ session[s].res \in JobResult
        /\ session'[s].total = Add(session[s].total, session[s].res.total)
        /\ session'[s].pc \in {"posted", "reply"}
    BY <1>0, <1>3, ResumeStep
  <2>2. history' = history
    BY <1>3 DEF Resume
  <2>3. session[s].total \in Totals /\ session[s].res.total \in Totals
    BY <1>0, <2>1 DEF Sessions, Coroutine, JobResult
  <2>4. session'[s].total.deleted = session[s].total.deleted + session[s].res.total.deleted
    <3> DEFINE a == session[s].total
               b == session[s].res.total
    <3>1. Add(a, b).deleted = a.deleted + b.deleted
      <4> HIDE DEF a, b
      <4>1. a \in Totals /\ b \in Totals
        BY <2>3 DEF a, b
      <4> QED
        BY <4>1, TotalsAdd
    <3> QED
      BY <2>1, <3>1
  <2>5. session[s].total.deleted \in Nat /\ session[s].res.total.deleted \in Nat
    BY <2>3, TotalsAdd
  <2>6. Owed(session'[s]) = Owed(session[s])
    BY <2>1, <2>4, <2>5 DEF Owed
  <2>7. history'.deleted \in Nat
    BY <1>0 DEF History
  <2> QED
    BY <1>0, <2>1, <2>2, <2>6, <2>7, SessionConserves
<1>4. ASSUME NEW s \in Session, Reply(s) PROVE Conserved(shards', session', history')
  <2>1. /\ shards' = shards /\ \A t \in Session : t # s => session'[t] = session[t]
        /\ session[s].pc = "reply" /\ session'[s] = Idle
    BY <1>0, <1>4, ReplyStep
  <2>2. history' = [history EXCEPT !.deleted = @ + session[s].total.deleted,
                                   !.fresh[s] = {}, !.floor[s] = 0]
    BY <1>4 DEF Reply
  <2>3. /\ history'.inserted = history.inserted
        /\ history'.deleted = history.deleted + session[s].total.deleted
    BY <1>0, <2>2 DEF History
  <2>4. session[s].total.deleted \in Nat /\ history.deleted \in Nat /\ history'.deleted \in Nat
    <3>1. WellFormed(session[s])
      BY <1>0 DEF Sessions
    <3>2. session[s].total.deleted \in Nat
      BY <3>1, OwedType
    <3> QED
      BY <1>0, <3>2 DEF History
  <2>5. Owed(session'[s]) = 0 /\ Owed(session[s]) = session[s].total.deleted
    BY <2>1, <2>4, IdleOwed DEF Owed
  <2>6. Owed(session'[s]) + history'.deleted = Owed(session[s]) + history.deleted
    BY <2>3, <2>4, <2>5
  <2> QED
    BY <1>0, <2>1, <2>3, <2>4, <2>6, SessionConserves
<1>5. ASSUME NEW i \in ShardIndex, Clean(i) PROVE Conserved(shards', session', history')
  <2>1. /\ session' = session /\ \A j \in ShardIndex : j # i => shards'[j] = shards[j]
    BY <1>0, <1>5, CleanStep
  <2>2. history' = history
    BY <1>5 DEF Clean
  <2>3. Held(shards'[i]) = Held(shards[i]) + 0
    BY <1>0, <1>5, CleanCounted DEF Counted
  <2>4. Sum(HeldOf(shards'), ShardIndex) = Sum(HeldOf(shards), ShardIndex)
    <3>1. /\ Sum(HeldOf(shards), ShardIndex) \in Nat
          /\ Held(shards[i]) \in Nat /\ Held(shards'[i]) \in Nat
          /\ Sum(HeldOf(shards'), ShardIndex)
               = Sum(HeldOf(shards), ShardIndex) + (Held(shards'[i]) - Held(shards[i]))
      BY <1>0, <2>1, HeldChange
    <3> QED
      BY <2>3, <3>1
  <2> QED
    BY <2>1, <2>2, <2>4 DEF CInv, Conserved
<1>6. ASSUME UNCHANGED <<shards, session, history>>
      PROVE  Conserved(shards', session', history')
  BY <1>6 DEF CInv
<1>7. StopNext \/ Tick \/ UNCHANGED vars => UNCHANGED <<shards, session, history>>
  BY DEF StopNext, Tick, vars
<1> QED
  BY <1>1, <1>2, <1>3, <1>4, <1>5, <1>6, <1>7 DEF Next

(* At first nothing is held and nothing was inserted. *)
LEMMA InitCInv == Init => CInv
<1> SUFFICES ASSUME Init PROVE CInv
  OBVIOUS
<1>1. DInv
  BY InitDInv
<1>2. Sum(HeldOf(shards), ShardIndex) = 0
  <2>1. Held(EmptyShard) = 0
    BY FS_EmptySet DEF Held, Removals, EmptyShard
  <2>2. \A i \in ShardIndex : HeldOf(shards)[i] = 0
    BY <2>1 DEF HeldOf, Init
  <2> QED
    BY <2>2, SumZero
<1>3. Sum(OwedOf(session), Session) = 0
  <2>1. \A s \in Session : OwedOf(session)[s] = 0
    BY IdleOwed DEF OwedOf, Init
  <2> QED
    BY <2>1, SumZero
<1>4. history.inserted = 0 /\ history.deleted = 0
  BY DEF Init
<1> QED
  BY <1>1, <1>2, <1>3, <1>4 DEF CInv, Conserved

(* Every key ever inserted is held, or was evicted, or expired, or is      *)
(* counted by exactly one DEL: concurrent DELs over several shards count   *)
(* no key twice and none is forgotten between two of them.                 *)
THEOREM NoKeyLost == Spec => []KeysConserved
<1>1. CInv => KeysConserved
  BY DEF CInv, Conserved, KeysConserved, HeldOf, Held, OwedOf, Owed
<1>2. Spec => []CInv
  BY InitCInv, NextCInv, PTL DEF Spec
<1> QED
  BY <1>1, <1>2, PTL

-----------------------------------------------------------------------------
(* INFO.                                                                   *)

(* What INFO has added up, with the result on its way. *)
Sofar(c) == IF c.pc = "ran" THEN Add(c.total, c.res.total) ELSE c.total

(* The totals t of an INFO that has yet to visit the shards todo and that  *)
(* began when floor keys had been removed.                                 *)
Between(P, todo, t, floor) ==
  LET seen == ShardIndex \ todo
  IN  /\ floor <= (t.evictions + t.expired) + Sum(RemovalsOf(P), todo)
      /\ t.evictions + t.expired <= Sum(RemovalsOf(P), seen)
      /\ t.used_payload_bytes <= t.max_memory_bytes
      /\ t.max_memory_bytes = Cardinality(seen) * MaxMemoryBytes

Bracket(s) ==
  Executing(s, "kInfo") =>
    \/ session[s].pc = "reply" /\ session[s].ret.type = "kError"
    \/ Between(shards, Pending(session[s]), Sofar(session[s]), history.floor[s])

BInv == DInv /\ \A s \in Session : Bracket(s)

(* The totals are natural numbers, added field by field. *)
LEMMA TotalsFields ==
  ASSUME NEW a \in Totals, NEW b \in Totals
  PROVE  /\ a.evictions \in Nat /\ a.expired \in Nat
         /\ a.used_payload_bytes \in Nat /\ a.max_memory_bytes \in Nat
         /\ Add(a, b).evictions = a.evictions + b.evictions
         /\ Add(a, b).expired = a.expired + b.expired
         /\ Add(a, b).used_payload_bytes = a.used_payload_bytes + b.used_payload_bytes
         /\ Add(a, b).max_memory_bytes = a.max_memory_bytes + b.max_memory_bytes
<1>1. {"evictions", "expired", "used_payload_bytes", "max_memory_bytes"} \subseteq DOMAIN Zero
  BY DEF Zero
<1>2. /\ a.evictions \in Nat /\ a.expired \in Nat
      /\ a.used_payload_bytes \in Nat /\ a.max_memory_bytes \in Nat
  BY <1>1 DEF Totals
<1>3. \A f \in DOMAIN Zero : Add(a, b)[f] = a[f] + b[f]
  BY DEF Totals, Add
<1> QED
  BY <1>1, <1>2, <1>3

(* A part of the counts. *)
LEMMA PartCounts ==
  ASSUME NEW f, NEW S, Counts(f, S), NEW T, T \subseteq S
  PROVE  Counts(f, T)
BY FS_Subset DEF Counts

(* Larger numbers add up to more. *)
LEMMA SumMonotone ==
  ASSUME NEW f, NEW g, NEW S, Counts(f, S), Counts(g, S), \A x \in S : f[x] <= g[x]
  PROVE  Sum(f, S) \in Nat /\ Sum(g, S) \in Nat /\ Sum(f, S) <= Sum(g, S)
<1>1. Sum(f, S) \in Nat /\ Sum(g, S) \in Nat /\ IsFiniteSet(Units(g, S))
  BY SumType
<1>2. Units(f, S) \subseteq Units(g, S)
  <2> SUFFICES ASSUME NEW p \in Units(f, S) PROVE p \in Units(g, S)
    OBVIOUS
  <2>1. PICK x \in S : p \in {x} \X (1 .. f[x])
    BY DEF Units
  <2>2. f[x] \in Nat /\ g[x] \in Nat /\ f[x] <= g[x]
    BY DEF Counts
  <2>3. 1 .. f[x] \subseteq 1 .. g[x]
    BY <2>2
  <2>4. p \in {x} \X (1 .. g[x])
    BY <2>1, <2>3
  <2> QED
    BY <2>4 DEF Units
<1>3. Cardinality(Units(f, S)) <= Cardinality(Units(g, S))
  BY <1>1, <1>2, FS_Subset
<1> QED
  BY <1>1, <1>3 DEF Sum, Units

(* The bracket widens as shards remove more. *)
LEMMA BetweenGrows ==
  ASSUME NEW P \in [ShardIndex -> Shard], NEW Q \in [ShardIndex -> Shard],
         \A j \in ShardIndex : Removals(P[j]) <= Removals(Q[j]),
         NEW todo, todo \subseteq ShardIndex, NEW t \in Totals, NEW floor \in Nat,
         Between(P, todo, t, floor)
  PROVE  Between(Q, todo, t, floor)
<1> DEFINE f == RemovalsOf(P)
           g == RemovalsOf(Q)
           seen == ShardIndex \ todo
<1>1. Counts(f, ShardIndex) /\ Counts(g, ShardIndex)
  BY RemovalsType
<1>2. \A j \in ShardIndex : f[j] <= g[j]
  BY DEF RemovalsOf
<1>3. seen \subseteq ShardIndex
  OBVIOUS
<1> HIDE DEF f, g
<1>4. Counts(f, todo) /\ Counts(g, todo) /\ Counts(f, seen) /\ Counts(g, seen)
  BY <1>1, <1>3, PartCounts
<1>5. Sum(f, todo) \in Nat /\ Sum(g, todo) \in Nat /\ Sum(f, todo) <= Sum(g, todo)
  BY <1>2, <1>4, SumMonotone
<1>6. Sum(f, seen) \in Nat /\ Sum(g, seen) \in Nat /\ Sum(f, seen) <= Sum(g, seen)
  BY <1>2, <1>3, <1>4, SumMonotone
<1>7. t.evictions \in Nat /\ t.expired \in Nat
  BY TotalsFields
<1>8. /\ floor <= (t.evictions + t.expired) + Sum(f, todo)
      /\ t.evictions + t.expired <= Sum(f, seen)
      /\ t.used_payload_bytes <= t.max_memory_bytes
      /\ t.max_memory_bytes = Cardinality(seen) * MaxMemoryBytes
  BY DEF Between, f
<1> HIDE DEF seen
<1>9. /\ floor <= (t.evictions + t.expired) + Sum(g, todo)
      /\ t.evictions + t.expired <= Sum(g, seen)
  BY <1>5, <1>6, <1>7, <1>8
<1> QED
  BY <1>8, <1>9 DEF Between, g, seen

(* The next shard is visited. *)
LEMMA BetweenVisits ==
  ASSUME NEW P \in [ShardIndex -> Shard], NEW todo, todo \subseteq ShardIndex,
         NEW i \in todo, Sound(i, P[i]), NEW t \in Totals, NEW floor \in Nat,
         Between(P, todo, t, floor)
  PROVE  Between(P, todo \ {i}, Add(t, ShardStats(P[i]).total), floor)
<1> DEFINE f == RemovalsOf(P)
           seen == ShardIndex \ todo
           rest == todo \ {i}
           more == ShardIndex \ rest
           u == ShardStats(P[i]).total
           a == Add(t, u)
           M == MaxMemoryBytes
           c == Cardinality(seen)
<1>1. /\ u \in Totals /\ u.evictions = P[i].evictions /\ u.expired = P[i].expired
      /\ u.used_payload_bytes = P[i].used /\ u.max_memory_bytes = M
  BY StatsHandled DEF Handled
<1>2. Counts(f, ShardIndex) /\ IsFiniteSet(ShardIndex)
  BY RemovalsType DEF Counts
<1>3. /\ seen \subseteq ShardIndex /\ more \subseteq ShardIndex
      /\ i \in more /\ more \ {i} = seen /\ more = seen \cup {i} /\ i \notin seen
      /\ todo \ {i} = rest
  OBVIOUS
<1>4. f[i] = u.evictions + u.expired
  BY <1>1 DEF RemovalsOf, Removals
<1> HIDE DEF u, f
<1>5. Counts(f, todo) /\ Counts(f, more)
  BY <1>2, <1>3, PartCounts
<1> HIDE DEF more, rest, seen
<1>6. f[i] \in Nat /\ Sum(f, rest) \in Nat /\ Sum(f, todo) = f[i] + Sum(f, rest)
  BY <1>3, <1>5, SumSplit
<1>7. Sum(f, seen) \in Nat /\ Sum(f, more) = f[i] + Sum(f, seen)
  BY <1>3, <1>5, SumSplit
<1>8. c \in Nat /\ Cardinality(more) = c + 1
  BY <1>2, <1>3, FS_Subset, FS_AddElement, FS_CardinalityType
<1>9. /\ floor <= (t.evictions + t.expired) + Sum(f, todo)
      /\ t.evictions + t.expired <= Sum(f, seen)
      /\ t.used_payload_bytes <= t.max_memory_bytes
      /\ t.max_memory_bytes = c * M
  BY DEF Between, f, seen
<1>10. /\ t.evictions \in Nat /\ t.expired \in Nat /\ u.evictions \in Nat /\ u.expired \in Nat
       /\ t.used_payload_bytes \in Nat /\ t.max_memory_bytes \in Nat
       /\ u.used_payload_bytes \in Nat /\ u.max_memory_bytes \in Nat
       /\ a.evictions = t.evictions + u.evictions
       /\ a.expired = t.expired + u.expired
       /\ a.used_payload_bytes = t.used_payload_bytes + u.used_payload_bytes
       /\ a.max_memory_bytes = t.max_memory_bytes + u.max_memory_bytes
  BY <1>1, TotalsFields
<1>11. P[i].used <= M /\ M \in Nat
  BY SizeAssumption DEF Sound
<1> HIDE DEF a, c, M
<1>12. floor <= (a.evictions + a.expired) + Sum(f, rest)
  BY <1>4, <1>6, <1>9, <1>10
<1>13. a.evictions + a.expired <= Sum(f, more)
  BY <1>4, <1>6, <1>7, <1>9, <1>10
<1>14. a.used_payload_bytes <= a.max_memory_bytes
  BY <1>1, <1>9, <1>10, <1>11
<1>15. a.max_memory_bytes = Cardinality(more) * M
  <2>1. (c + 1) * M = c * M + M
    BY <1>8, <1>11
  <2> QED
    BY <1>1, <1>8, <1>9, <1>10, <2>1
<1> QED
  BY <1>12, <1>13, <1>14, <1>15 DEF Between, f, more, rest, a, u, M

(* The totals of a coroutine, at any suspension. *)
LEMMA SofarType ==
  ASSUME NEW c, WellFormed(c)
  PROVE  Sofar(c) \in Totals /\ Pending(c) \subseteq ShardIndex
<1>1. c.total \in Totals /\ c.todo \subseteq ShardIndex
  BY DEF WellFormed, Coroutine
<1>2. c.pc = "ran" => c.res.total \in Totals
  BY DEF WellFormed, JobResult
<1>3. Sofar(c) \in Totals
  BY <1>1, <1>2, TotalsAdd DEF Sofar
<1> QED
  BY <1>1, <1>3 DEF Pending

(* One shard counts more removals, the others as many. *)
LEMMA RemovalsGrow ==
  ASSUME Pool, NEW i \in ShardIndex, Removals(shards[i]) <= Removals(shards'[i]),
         \A j \in ShardIndex : j # i => shards'[j] = shards[j]
  PROVE  \A j \in ShardIndex : Removals(shards[j]) <= Removals(shards'[j])
<1>1. \A j \in ShardIndex : Removals(shards[j]) \in Nat
  BY HeldType DEF Pool, Sound
<1> QED
  BY <1>1

(* An INFO that another step leaves alone. *)
LEMMA StillBetween ==
  ASSUME BInv, Pool', NEW t \in Session, session'[t] = session[t],
         history'.floor[t] = history.floor[t],
         \A j \in ShardIndex : Removals(shards[j]) <= Removals(shards'[j])
  PROVE  Bracket(t)'
<1>1. CASE ~ Executing(t, "kInfo")
  BY <1>1 DEF Bracket, Executing
<1>2. CASE session[t].pc = "reply" /\ session[t].ret.type = "kError"
  BY <1>2 DEF Bracket
<1>3. CASE Between(shards, Pending(session[t]), Sofar(session[t]), history.floor[t])
  <2>1. Sofar(session[t]) \in Totals /\ Pending(session[t]) \subseteq ShardIndex
    BY SofarType DEF BInv, DInv, IInv, Sessions
  <2>2. history.floor[t] \in Nat
    BY DEF BInv, DInv, History
  <2>3. shards \in [ShardIndex -> Shard] /\ shards' \in [ShardIndex -> Shard]
    BY DEF BInv, DInv, IInv, Pool
  <2>4. Between(shards', Pending(session[t]), Sofar(session[t]), history.floor[t])
    BY <1>3, <2>1, <2>2, <2>3, BetweenGrows
  <2> QED
    BY <2>4 DEF Bracket
<1> QED
  BY <1>1, <1>2, <1>3 DEF BInv, Bracket

(* An INFO that begins has everything to visit, or has no such section. *)
LEMMA InfoBegins ==
  ASSUME BInv, Pool', NEW s \in Session, NEW cmd \in Command, StartsAway(s, cmd)
  PROVE  Bracket(s)'
<1>0. IInv /\ Pool /\ history \in History
  BY DEF BInv, DInv, IInv
<1>1. /\ session'[s].cmd = cmd /\ session'[s].todo = Targets(cmd)
      /\ session'[s].total = Zero
      /\ Targets(cmd) # {} => session'[s].pc = "posted"
      /\ Targets(cmd) = {} => session'[s].pc = "reply"
      /\ Targets(cmd) = {} /\ cmd.type = "kInfo" => session'[s].ret.type = "kError"
  BY <1>0, AwayStep
<1>2. CASE cmd.type # "kInfo"
  BY <1>1, <1>2 DEF Bracket, Executing
<1>3. CASE cmd.type = "kInfo" /\ Targets(cmd) = {}
  BY <1>1, <1>3 DEF Bracket
<1>4. CASE cmd.type = "kInfo" /\ Targets(cmd) # {}
  <2>1. Targets(cmd) = ShardIndex
    BY <1>4, TargetsType
  <2>2. Pending(session'[s]) = ShardIndex /\ Sofar(session'[s]) = Zero
    BY <1>1, <1>4, <2>1 DEF Pending, Sofar
  <2>3. shards' = shards /\ history' = Noted(s, cmd)
    BY DEF StartsAway
  <2>4. history'.floor[s] = TotalRemovals
    BY <1>0, <1>4, <2>3, NotedEffect
  <2> DEFINE f == RemovalsOf(shards)
             m == TotalRemovals
  <2>5. m = Sum(f, ShardIndex) /\ m \in Nat
    BY <1>0, TotalType
  <2>6. ShardIndex \ ShardIndex = {} /\ Sum(f, {}) = 0 /\ Cardinality({}) = 0
    BY SumZero, FS_EmptySet
  <2>7. /\ Zero.evictions = 0 /\ Zero.expired = 0
        /\ Zero.used_payload_bytes = 0 /\ Zero.max_memory_bytes = 0
    BY DEF Zero
  <2>8. MaxMemoryBytes \in Nat
    BY SizeAssumption
  <2> HIDE DEF f, m
  <2>9. /\ m <= (Zero.evictions + Zero.expired) + Sum(f, ShardIndex)
        /\ Zero.evictions + Zero.expired <= Sum(f, {})
        /\ Zero.used_payload_bytes <= Zero.max_memory_bytes
        /\ Zero.max_memory_bytes = Cardinality({}) * MaxMemoryBytes
    BY <2>5, <2>6, <2>7, <2>8
  <2>10. Between(shards, ShardIndex, Zero, m)
    BY <2>6, <2>9 DEF Between, f
  <2> QED
    BY <2>2, <2>3, <2>4, <2>10 DEF Bracket, m
<1> QED
  BY <1>2, <1>3, <1>4

(* Every step keeps the totals of the INFOs under way bracketed. *)
LEMMA NextBInv == BInv /\ [Next]_vars => BInv'
<1> SUFFICES ASSUME BInv, [Next]_vars PROVE BInv'
  OBVIOUS
<1>0. /\ DInv /\ IInv /\ Pool /\ Sessions /\ history \in History
      /\ DInv' /\ Pool' /\ Sessions'
  BY NextDInv DEF BInv, DInv, IInv
<1> SUFFICES ASSUME NEW t \in Session PROVE Bracket(t)'
  BY <1>0 DEF BInv
<1>a. shards' = shards => \A j \in ShardIndex : Removals(shards[j]) <= Removals(shards'[j])
  <2>1. \A j \in ShardIndex : Removals(shards[j]) \in Nat
    BY <1>0, HeldType DEF Pool, Sound
  <2> QED
    BY <2>1
<1>1. ASSUME NEW s \in Session, NEW cmd \in Command, Start(s, cmd) PROVE Bracket(t)'
  <2>1. CASE StartsAway(s, cmd)
    <3>1. shards' = shards /\ history' = Noted(s, cmd)
      BY <2>1 DEF StartsAway
    <3>2. CASE t = s
      BY <1>0, <2>1, <3>2, InfoBegins
    <3>3. CASE t # s
      <4>1. session'[t] = session[t]
        BY <1>0, <2>1, <3>3, AwayStep
      <4>2. history'.floor[t] = history.floor[t]
        BY <1>0, <3>1, <3>3, NotedEffect
      <4> QED
        BY <1>0, <1>a, <3>1, <4>1, <4>2, StillBetween
    <3> QED
      BY <3>2, <3>3
  <2>2. CASE StartsHome(s, cmd)
    <3> DEFINE h == home[s]
               r == Run(cmd, h, shards[h], now)
    <3>1. /\ h \in ShardIndex /\ h \in Targets(cmd) /\ shards'[h] = r.shard
          /\ \A j \in ShardIndex : j # h => shards'[j] = shards[j]
          /\ \A u \in Session : u # s => session'[u] = session[u]
          /\ session'[s].cmd = cmd
      BY <1>0, <2>2, HomeStep
    <3>2. cmd.type # "kInfo" /\ history' = Remember(history, cmd, shards[h], r.shard, r.ret)
      BY <2>2 DEF StartsHome
    <3>3. Removals(shards[h]) <= Removals(shards'[h])
      <4>1. Sound(h, shards[h]) /\ now \in Int
        BY <1>0, <3>1 DEF IInv, Pool
      <4>2. Exact(cmd, shards[h], r)
        BY <3>1, <4>1, RunExact
      <4> HIDE DEF r, h
      <4> QED
        BY <3>1, <4>2 DEF Exact, Counted
    <3> HIDE DEF h, r
    <3>4. history'.floor = history.floor
      BY <1>0, <3>2, RememberEffect
    <3>5. CASE t = s
      BY <3>1, <3>2, <3>5 DEF Bracket, Executing
    <3>6. CASE t # s
      <4>1. \A j \in ShardIndex : Removals(shards[j]) <= Removals(shards'[j])
        BY <1>0, <3>1, <3>3, RemovalsGrow
      <4> QED
        BY <1>0, <3>1, <3>4, <3>6, <4>1, StillBetween
    <3> QED
      BY <3>5, <3>6
  <2> QED
    BY <1>1, <2>1, <2>2, StartCases
<1>2. ASSUME NEW s \in Session, RunJob(s) PROVE Bracket(t)'
  <2> DEFINE c == session[s]
             i == Min(c.todo)
             cmd == c.cmd
             r == Run(cmd, i, shards[i], now)
  <2>1. /\ i \in ShardIndex /\ i \in c.todo /\ cmd \in Command /\ i \in Targets(cmd)
        /\ shards'[i] = r.shard
        /\ \A j \in ShardIndex : j # i => shards'[j] = shards[j]
        /\ \A u \in Session : u # s => session'[u] = session[u]
        /\ c.pc = "posted" /\ session'[s].pc = "ran"
        /\ session'[s].cmd = cmd /\ session'[s].todo = c.todo
        /\ session'[s].total = c.total /\ session'[s].res.total = r.total
    BY <1>0, <1>2, JobStep
  <2>2. history' = Remember(history, cmd, shards[i], r.shard, r.ret)
    BY <1>2 DEF RunJob, Job
  <2>3. Sound(i, shards[i]) /\ now \in Int
    BY <1>0, <2>1 DEF IInv, Pool
  <2>4. Exact(cmd, shards[i], r)
    BY <2>1, <2>3, RunExact
  <2>5. cmd.type = "kInfo" => r = ShardStats(shards[i])
    BY DEF Run
  <2>6. /\ Pending(session'[s]) = c.todo \ {i} /\ Pending(c) = c.todo
        /\ Sofar(session'[s]) = Add(c.total, r.total) /\ Sofar(c) = c.total
    BY <2>1 DEF Pending, Sofar
  <2> HIDE DEF r, i, cmd
  <2>7. history'.floor = history.floor
    BY <1>0, <2>1, <2>2, RememberEffect
  <2>8. Removals(shards[i]) <= Removals(shards'[i])
    BY <2>1, <2>4 DEF Exact, Counted
  <2>9. \A j \in ShardIndex : Removals(shards[j]) <= Removals(shards'[j])
    BY <1>0, <2>1, <2>8, RemovalsGrow
  <2>10. CASE t # s
    BY <1>0, <2>1, <2>7, <2>9, <2>10, StillBetween
  <2>11. CASE t = s /\ cmd.type # "kInfo"
    BY <2>1, <2>11 DEF Bracket, Executing
  <2>12. CASE t = s /\ cmd.type = "kInfo"
    <3>1. Executing(s, "kInfo")
      BY <2>1, <2>12 DEF Executing, cmd
    <3>2. Between(shards, c.todo, c.total, history.floor[s])
      BY <2>1, <2>6, <3>1 DEF BInv, Bracket
    <3>3. /\ c.total \in Totals /\ c.todo \subseteq ShardIndex
          /\ history.floor[s] \in Nat /\ shards \in [ShardIndex -> Shard]
          /\ shards' \in [ShardIndex -> Shard]
      BY <1>0 DEF Sessions, Coroutine, History, Pool
    <3>4. Between(shards, c.todo \ {i}, Add(c.total, ShardStats(shards[i]).total),
                  history.floor[s])
      BY <2>1, <2>3, <3>2, <3>3, BetweenVisits
    <3>5. Between(shards, c.todo \ {i}, Add(c.total, r.total), history.floor[s])
      BY <2>5, <2>12, <3>4
    <3>6. Add(c.total, r.total) \in Totals /\ c.todo \ {i} \subseteq ShardIndex
      <4>1. WellFormed(session'[s])
        BY <1>0 DEF Sessions
      <4> QED
        BY <2>6, <4>1, SofarType
    <3>7. Between(shards', c.todo \ {i}, Add(c.total, r.total), history.floor[s])
      BY <2>9, <3>3, <3>5, <3>6, BetweenGrows
    <3> QED
      BY <2>6, <2>7, <2>12, <3>7 DEF Bracket
  <2> QED
    BY <2>10, <2>11, <2>12
<1>3. ASSUME NEW s \in Session, Resume(s) PROVE Bracket(t)'
  <2>1. /\ shards' = shards /\ \A u \in Session : u # s => session'[u] = session[u]
        /\ session[s].pc = "ran" /\ session'[s].cmd = session[s].cmd
        /\ session'[s].todo = session[s].todo \ {Min(session[s].todo)}
        /\ session'[s].total = Add(session[s].total, session[s].res.total)
        /\ session'[s].pc \in {"posted", "reply"}
    BY <1>0, <1>3, ResumeStep
  <2>2. history' = history
    BY <1>3 DEF Resume
  <2>3. CASE t # s
    BY <1>0, <1>a, <2>1, <2>2, <2>3, StillBetween
  <2>4. CASE t = s
    <3>1. /\ Pending(session'[s]) = Pending(session[s])
          /\ Sofar(session'[s]) = Sofar(session[s])
      BY <2>1 DEF Pending, Sofar
    <3>2. Executing(s, "kInfo")' => Executing(s, "kInfo")
      BY <2>1 DEF Executing
    <3>3. Executing(s, "kInfo") =>
            Between(shards, Pending(session[s]), Sofar(session[s]), history.floor[s])
      BY <2>1 DEF BInv, Bracket
    <3> QED
      BY <2>1, <2>2, <2>4, <3>1, <3>2, <3>3 DEF Bracket
  <2> QED
    BY <2>3, <2>4
<1>4. ASSUME NEW s \in Session, Reply(s) PROVE Bracket(t)'
  <2>1. /\ shards' = shards /\ \A u \in Session : u # s => session'[u] = session[u]
        /\ session'[s] = Idle
    BY <1>0, <1>4, ReplyStep
  <2>2. CASE t = s
    BY <2>1, <2>2, IdleForm DEF Bracket, Executing
  <2>3. CASE t # s
    <3> DEFINE n == history.deleted + session[s].total.deleted
               fr == [history.fresh EXCEPT ![s] = {}]
               fl == [history.floor EXCEPT ![s] = 0]
    <3>1. history' = [history EXCEPT !.deleted = n, !.fresh = fr, !.floor = fl]
      BY <1>0, <1>4 DEF Reply, History
    <3>2. fl[t] = history.floor[t]
      BY <1>0, <2>3 DEF History
    <3> HIDE DEF n, fr, fl
    <3>3. history'.floor = fl
      BY <1>0, <3>1 DEF History
    <3> QED
      BY <1>0, <1>a, <2>1, <2>3, <3>2, <3>3, StillBetween
  <2> QED
    BY <2>2, <2>3
<1>5. ASSUME NEW i \in ShardIndex, Clean(i) PROVE Bracket(t)'
  <2>1. session' = session /\ \A j \in ShardIndex : j # i => shards'[j] = shards[j]
    BY <1>0, <1>5, CleanStep
  <2>2. history' = history
    BY <1>5 DEF Clean
  <2>3. Removals(shards[i]) <= Removals(shards'[i])
    BY <1>0, <1>5, CleanCounted DEF Counted
  <2>4. \A j \in ShardIndex : Removals(shards[j]) <= Removals(shards'[j])
    BY <1>0, <2>1, <2>3, RemovalsGrow
  <2> QED
    BY <1>0, <2>1, <2>2, <2>4, StillBetween
<1>6. ASSUME UNCHANGED <<shards, session, history>> PROVE Bracket(t)'
  BY <1>0, <1>a, <1>6, StillBetween
<1>7. StopNext \/ Tick \/ UNCHANGED vars => UNCHANGED <<shards, session, history>>
  BY DEF StopNext, Tick, vars
<1> QED
  BY <1>1, <1>2, <1>3, <1>4, <1>5, <1>6, <1>7 DEF Next

(* No INFO is under way at first. *)
LEMMA InitBInv == Init => BInv
<1> SUFFICES ASSUME Init PROVE BInv
  OBVIOUS
<1>1. DInv
  BY InitDInv
<1>2. \A s \in Session : Bracket(s)
  BY IdleForm DEF Init, Bracket, Executing
<1> QED
  BY <1>1, <1>2 DEF BInv

(* INFO reads the shards at different moments; still the removals it       *)
(* reports lie between those counted when it began and when it answers,    *)
(* and the bytes it reports are within the budget it reports, which is     *)
(* that of all the shards.                                                 *)
THEOREM InfoSane == Spec => []InfoBracketed
<1>1. BInv => InfoBracketed
  <2> SUFFICES ASSUME BInv, NEW s \in Session, session[s].pc = "reply",
                      Executing(s, "kInfo"), session[s].ret.type # "kError"
               PROVE  LET t == session[s].total
                      IN  /\ history.floor[s] <= t.evictions + t.expired
                          /\ t.evictions + t.expired <= TotalRemovals
                          /\ t.used_payload_bytes <= t.max_memory_bytes
                          /\ t.max_memory_bytes = ShardCount * MaxMemoryBytes
    BY DEF InfoBracketed
  <2> DEFINE t == session[s].total
             f == RemovalsOf(shards)
  <2>1. Between(shards, Pending(session[s]), Sofar(session[s]), history.floor[s])
    BY DEF BInv, Bracket
  <2>2. Pending(session[s]) = {} /\ Sofar(session[s]) = t
    <3>1. session[s].todo = {}
      BY DEF BInv, DInv, IInv, Sessions, WellFormed
    <3> QED
      BY <3>1 DEF Pending, Sofar
  <2>3. ShardIndex \ {} = ShardIndex /\ Cardinality(ShardIndex) = ShardCount
    <3>1. Cardinality(0 .. ShardCount - 1) = ShardCount
      BY ExecutorAssumption, FS_Interval
    <3> QED
      BY <3>1 DEF ShardIndex
  <2>4. Sum(f, {}) = 0
    BY SumZero
  <2>5. TotalRemovals = Sum(f, ShardIndex)
    BY TotalType DEF BInv, DInv, IInv
  <2>6. Between(shards, {}, t, history.floor[s])
    BY <2>1, <2>2
  <2> HIDE DEF t
  <2>7. /\ history.floor[s] <= (t.evictions + t.expired) + Sum(f, {})
        /\ t.evictions + t.expired <= Sum(f, ShardIndex)
        /\ t.used_payload_bytes <= t.max_memory_bytes
        /\ t.max_memory_bytes = Cardinality(ShardIndex) * MaxMemoryBytes
    BY <2>3, <2>6 DEF Between
  <2>8. t.evictions \in Nat /\ t.expired \in Nat /\ history.floor[s] \in Nat
    <3>1. t \in Totals
      BY DEF BInv, DInv, IInv, Sessions, Coroutine, t
    <3> QED
      BY <3>1, TotalsFields DEF BInv, DInv, History
  <2>9. history.floor[s] <= t.evictions + t.expired
    BY <2>4, <2>7, <2>8
  <2> QED
    BY <2>3, <2>5, <2>7, <2>9 DEF t
<1>2. Spec => []BInv
  BY InitBInv, NextBInv, PTL DEF Spec
<1> QED
  BY <1>1, <1>2, PTL
=============================================================================
