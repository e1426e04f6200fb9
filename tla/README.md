# TinyCache: specification and proofs

TLA+ models of TinyCache, an in-memory cache server with the Redis protocol
(C++20, Boost.Asio coroutines), checked with TLC and, where stated, proved with
TLAPS. Paths below are relative to the repository.

## The system

| Part | State | Operations | Talks to |
|---|---|---|---|
| `LruShard` (`src/lruShard.cpp`) | hash map, recency list, expiry index, byte count, two counters | get, set, del, expire, ttl, remove_expired_keys, get_next_expire_time, get_stats | called from its worker's thread only |
| `ExpirationController` (`src/expirationController.cpp`) | a timer, a point in a coroutine | cleaning_loop | its shard, on the same thread |
| `ShardPool` (`src/shardPool.cpp`, `include/shardPool.hpp`) | workers: an io_context, a thread, a shard, a cleaner | construction, start, stop, destruction, run_on_shard, local_shard | posts jobs to workers |
| `shard_router` (`include/shardRouter.hpp`) | none | getShardIndex (hash modulo) | |
| `CommandExecutor` (`src/commandExecutor.cpp`) | none across commands | execute: GET SET DEL EXPIRE TTL INFO PING COMMAND CONFIG | the home shard directly, others through run_on_shard |
| `Session` (`src/session.cpp`) | socket, buffer | run, read, write | parser, executor, serializer |
| `RespParser`, `RespSerializer` | none | parse, serialize | the session's buffer |
| `Command` (`src/command.cpp`) | none | toCommand | |
| `Server` (`src/server.cpp`) | acceptor, round-robin counter, signals | listener, shutdown | spawns sessions on workers |
| `Config` (`src/config.cpp`) | none | get_config | read once by `main` |
| `main`, `utils` | none | the server's life; to_uppercase | |

A worker is one thread with one event loop. Everything a shard ever executes
runs there, so a call on a shard is atomic; `Server` shows that this holds, and
the other modules rest on it. What is hard lies around that:

* a key is in three indexes that point into each other (a map keyed by views
  into list nodes, list nodes with iterators into a multimap, a multimap with
  iterators to list nodes), and the memory budget rests on a byte count that is
  kept by differences;
* expired keys linger until something looks at them, and the cleaner sleeps on
  a timer that nobody rearms;
* commands over several shards suspend between shards, so DEL and INFO are not
  atomic, sessions on different workers wait for each other, and shutdown cuts
  them off anywhere;
* TCP delivers requests in arbitrary pieces into a bounded buffer;
* shards have no locks: that one thread at a time uses a shard depends on where
  coroutines run, from the first accept, which may come before the workers'
  threads run, to a shutdown while handlers run; and shutdown must end although
  cleaners always have work pending and sessions wait for jobs that are dropped.

What makes each part correct: a shard's indexes agree, its count is exact, it
stays within its budget, evicts the least recently used keys and nothing else,
and behaves as a dictionary with deadlines; every expired key goes, and the
cleaner never spins; keys are on the shard they hash to, deletions are counted
once, conditions of SET hold when it writes, every command is answered; the
answers on a connection follow its requests however they arrive; connections
are spread evenly, shards are used serially, and a signal ends the process with
every thread joined.
`PROJECT.json` lists each hazard at its line with the properties that cover it.

## Modules

| Module | Models |
|---|---|
| `LruShardOps` | the methods of `LruShard` as functions of its fields |
| `LruShard` | one shard under any sequence of calls; its properties |
| `AbstractCache` | what a shard promises: a dictionary with deadlines |
| `LruShardLoops` | the eviction and expiration loops, one iteration at a time |
| `ExpirationController` | a worker's thread: the cleaner, the clients' calls, the clock |
| `CommandExecutor` | sessions, workers, jobs, cleaners and shutdown over several shards |
| `Session` | one connection: buffer, pieces of requests, answers, disconnection |
| `RespParser` | `parse` on bytes, and a buffer parsed again at every byte |
| `RespSerializer` | `serialize`, and the size it reserves |
| `Command` | `toCommand`, and what the handlers read of the arguments |
| `GlobMatch` | `glob_match`, one turn of its loops at a time |
| `Config` | `get_config` on the numbers of `config.toml` |
| `Server` | the process from `config.toml` to its exit: main thread, listener, workers' threads, sessions' coroutines, signals |
| `SerialShards` | what the shards need of everything above: one user at a time, from construction to destruction |
| `LruShardLemmas` | lemmas about the operators of `LruShardOps` |
| `LruShardProofs` | theorems about `LruShard` and its loops; the proof that it implements `AbstractCache` |
| `ExpirationControllerProofs` | theorems about `ExpirationController` |
| `CommandExecutorProofs` | theorems about `CommandExecutor`, its totals last |
| `SessionProofs` | theorems about `Session` and `Command` |
| `ServerProofs` | theorems about `Server` and `Config`, with the refinement of `SerialShards` |
| `GlobMatchProofs` | theorems about `glob_match` |
| `RespParserProofs` | theorems about the parser |
| `MC*` | constants for TLC |

### LruShardOps and LruShard

A shard is a record of the class's members. The recency list is kept as the
linear order of its elements, which makes `splice` and `erase` set operations
and lets the proofs do without induction over sequences. List nodes are named
by their keys. `expire_it` holds the multimap entry it points to, or `Null` for
`end()`, so a dangling iterator is an entry that is no longer in `expire_map`.
`Payload` is a cardinality (the set of byte positions of the payloads), again so
that sums need no recursion.

`remove_keys(sh, K, reason)` is `remove_key` on each key of `K`; the eviction
loop removes the keys `k` for which the shard is still too large once everything
behind `k` is gone. `LruShardLoops` has both loops as written, one turn after
another, with an `erase` that leaves a broken index when its iterator is no
longer valid, so that an entry erased twice shows; run `lru_refines_cache`
compares them with these closed forms in every reachable state, and
`LoopsExact` proves that they agree.

`Deadline` wraps around in the width of the clock (`TimeHalf`), which is what
the multiplication and addition of 64-bit counts do in the builds the repository
makes; strictly, the overflow is undefined behaviour. `ttl` has the two clock
readings of the code. Each action is a whole public method, `set` with its
trailing `enforce_max_memory`. `reply` is the last call with its result and the
time it began, so that a call which changes nothing in the shard is still a step
and has to satisfy the action properties: `ExpiredLeave` asks of every get, ttl
and cleaner pass that the keys it finds past their deadline are gone when it
returns, and `TtlNeverOverstates` that every answer of ttl, the negative ones
included, is true of the shard it leaves. Only an exact repetition of the last
call, at the same time, with the same result and without effect, is a stutter.

`AbstractCache` allows a write to drop entries only when they do not fit, and
says nothing of which. That the least recently used go is `LruEviction`.

### ExpirationController

`pc` is the point where the coroutine is: `loop` before it reads the next
deadline, `waiting` in `async_wait`, `overdue` when the deadline had passed and
it goes on without suspending. Clients' calls happen in `waiting` only, since
the thread is the coroutine's otherwise; the clock ticks at any point.

### CommandExecutor

A session is `idle`, has `posted` a job to the worker of the first shard of
`todo`, has a result on its way (`ran`), or writes its `reply`. `Start` is
`execute` up to its first suspension: work on the home shard is done there, and
DEL does it before the other shards. INFO posts a job to every shard, its own
included. Jobs of different sessions on a worker run in any order, which allows
more than the queue of an io_context does. A session whose `home` is `Null` is
an executor that is called without a home shard, as the tests do. DEL's keys are
a set, since a key named twice is deleted once. A number that `std::stoull`
rejects is `Null`. `StopNext` is one turn of the loop of `ShardPool::stop`.
TTL reads the clock once here; `LruShard` has both readings. `history` exists
for the properties alone. `Sum` is a cardinality, as `Payload` is, and for the
same reason.

### Session and Command

A stream is a sequence of frames with the number of bytes after which the
parser decides, its decision and the value it reads, and the position in the
stream where the frame ends (`end`), so that where a frame begins (`Position`)
is not a sum over the frames before it. That a decision depends on
the frame alone is what `RespParser`'s `VerdictStable` and `ReadyAtLastByte`
show. `Session` extends `Command`, whose `toCommand` tells commands from other
values. A request is the types of its elements. `ArgsRead` gives, for each
handler, the sets of indexes into `cmd.args` that its paths read; `read` holds
the one the last command took.

### Config and Server

`value_or` is external (toml++): it returns the type of its argument, which in
`get_config` is `int`, and the argument where the number does not fit. Of the
configuration `Config` has the numbers that size the server.

In `Server` the main thread is at a place (`main.at`) and, in the loops of
`start`, `stop` and the destruction of `workers_`, at a worker. Other than in
`CommandExecutor`, a handler that uses a shard is two steps, its beginning and
its end, so that handlers of different threads overlap: `busy` is what a
worker's thread runs, and the session's record says where its coroutine is.
What is done with the shard is left to `CommandExecutor`. `Post` may name any
shard, the home shard too (INFO does). A handler is taken only by a running
thread whose io_context is not stopped; the handler during which it is stopped
ends normally, and the rest of the queue is dropped. `Listen` has the throwing
constructor with both outcomes an uncaught exception may have, the stack unwound
or not. A second `stop`, by `Server::run` and by the destructor, does nothing;
for a pool that was never started it joins nothing.

`SerialShards` is implemented under the mapping of a shard to its user, which is
"contended", a value that `SerialShards` does not have, when there are two.

After `stop`, a session that waits in run_on_shard is owned by the queue of the
worker it posted to. The workers are destroyed first to last, so a session at
home on worker 0 that waits for worker 1 is destroyed after the io_context its
socket belongs to. What that does is inside Boost.Asio, and no text of the
repository says what is meant to happen; no run is about it.

### RespParser and GlobMatch

`RespParser` has the parser as an operator on the whole buffer, since the code
starts from its first byte every time. Positions, the stack of open arrays and
the order of the tests are the code's; the limits and the width of an integer
are constants. A byte is one of those the parser tells apart or `x`. `Turn` is
one turn of the loop of `parseImpl`, and `parse` the verdict after as many turns
as there can be. `RespSerializer` has the serializer and the estimate of the
size it reserves with the stacks of their loops; popping the finished arrays is
one step.

`GlobMatch` has an action per branch of the two loops and compares them with a
definition of matching that knows nothing of stars remembered. The names it is
applied to are those of the supported parameters; none has a star, which the
code relies on, since it compares characters before it looks for a star.

The loops and tables that are compared or proved about are recursive functions
over a range of numbers; only `RespSerializer`, about which nothing is proved,
has recursive operators.

## Runs

| Run | Shows | Bounds |
|---|---|---|
| `lru_shard` | types, `IndexesAgree`, `ExpireIndexExact`, `MemoryAccounting`, `WithinBudget`, `LruEviction`, `ReadProtects`, `KeysBalance`, `TtlNeverOverstates`, `ExpiredLeave` | 3 keys, values of 1, 3 and 6 bytes, budget 6: one big and one small entry fit, two big ones do not, and an entry with the largest value does not fit alone, so a set can evict its own key; expiry after 0 and 1 seconds and one that wraps; time up to 3 ticks of half a second; 2 removals |
| `lru_refines_cache` | a shard implements `AbstractCache`; the loops compute what `LruShardOps` says (`LoopsAgree`) | the same with time up to 2; the eviction loop after every set that can follow, the expiration loop at every time |
| `cleaner` | `NoEmptyPass`, `BoundedLateness`, `ExpiredKeysGo`, `CleanerYields` | 2 keys; expiry after 0, 1 and 4 seconds, below and above the idle period of 3; deadlines set until time 3, clock until 7, so every sleep ends |
| `many_shards` | `KeysRouted`, `KeysConserved`, `DelEffective`, `InfoBracketed`, `EveryCommandAnswered` | 2 shards, 2 sessions with different homes, 3 keys of which two share a shard that holds one, DEL across shards, INFO, 3 insertions, shutdown at any point |
| `conditional_sets` | `ConditionalSets`, `ErrorsChangeNothing` | a session at home and one without, every option of SET and every kind of bad argument, one tick |
| `session` | `RepliesFollowRequests`, `ArgsInRange`, `EveryFrameAnswered` (every whole frame is answered or the session ends, and it ends once the client has left) | streams of up to 3 frames of 1 to 4 bytes, limit 3, every way to cut them; and all command names with up to 12 elements (kMaxArgs and two more), at most one not a bulk string |
| `resp_parser` | `VerdictStable`, `ReadyAtLastByte`, `AgreesWithReference`, `EstimateExact` | integers of up to 4 characters against a width of 8 bits, so that both limits and their neighbours occur; values with up to 2 elements and 3 levels, followed by another, and one level more than allowed; up to 3 of 15 lines in every order; limits 7, 6 and 3 |
| `glob_match` | `MatchesExactly`, `Terminates` | patterns up to 5 characters, which have two stars with something behind each, or one with enough on both sides to overlap in a short name; names up to 5, over 2 letters |
| `server` | `ShardsSerial` (refinement of `SerialShards`), `JoinedBeforeDestroyed`, `Balanced`, `ConfigSane`, `ShutdownCompletes` | each number of `config.toml` absent, negative, zero, at and above the width it is narrowed to; hence 1 or 2 workers; 2 connections, so that two sessions, a job and a cleaner meet on a shard; turns counted to 4, twice round the workers, in a counter that wraps at 8; widths 5001 for `int` and 4 for the shard count |
| `expire_wraps` (violated) | EXPIRE with a huge argument sets a deadline in the past | |
| `expire_revives` (violated) | EXPIRE brings an expired key back: it answers 1 and the key can be read again | expiry after 1 second |
| `budget_as_configured` (violated) | a budget per shard above the largest `int` becomes 1024 bytes | 3 budgets, one worker |

Two texts of the repository differ from the code without effect on the server:
`include/respParser.hpp:37` says a malformed buffer is consumed up to the error
(`parse` leaves it, and the session closes), and the table of
`include/command.hpp:40` gives PING a fixed arity although it takes a message.

Two or three keys suffice because every property speaks of one key, of a pair
(which of two is evicted), or of a sum; three keys are needed for an eviction of
more than one key and for a survivor. Each bound is a constant named in its
module: `Horizon` stops the clock, `MaxRemovals` and `MaxInserts` stop the
counters, which only grow. Keys of the shard runs are symmetric: they have the
same size, and no liveness is checked there.

Deadlock is checked in the shard and cleaner runs. It is not in
`CommandExecutor`, whose pool may be stopped, and in `Session`,
`RespParser`, `GlobMatch` and `Server`, which end.

Every property has a mutant in `PROJECT.json`: a plausible fault (the operators
marked as such in the modules) under which TLC finds the property violated.

### Fairness

* `ExpirationController`: weak fairness of the clock and of the coroutine's own
  steps. The event loop runs handlers in the order they become ready, so a
  completed wait is not overtaken for ever. Nothing is assumed of clients.
* `CommandExecutor`: weak fairness of running a posted job, resuming a session
  and writing its answer, while their workers run. None of commands, clock,
  cleaner or shutdown.
* `Session`: weak fairness of the session's handlers and of receiving what the
  client sends, as long as it stays.
* `Server`: weak fairness of the main thread's steps, of the handler of the
  signals, of the beginning and the end of the workers' threads and of the end
  of a handler that runs (no handler blocks). The handler of the signals is
  queued behind the accept that is pending, so accepts that fail at once cannot
  overtake it for ever. None of clients, signals, cleaners or the beginning of
  handlers.
* `GlobMatch`: weak fairness of the loop, which runs without suspending.

## Proofs

32 of the 40 properties of the passing runs are proved: for every set of keys,
values, commands, connections, frames, bytes and patterns, any number of shards
and sessions, and all sizes, budgets, deadlines and limits.

| Module | Theorem | Property |
|---|---|---|
| `LruShardProofs` | `TypeCorrect` | `TypeOK` |
| | `NoDanglingNode` | `IndexesAgree` |
| | `NoDanglingDeadline` | `ExpireIndexExact` |
| | `AccountingExact` | `MemoryAccounting` |
| | `BudgetKept` | `WithinBudget` |
| | `TtlHonest` | `TtlNeverOverstates` |
| | `ExpiredKeysLeave` | `ExpiredLeave` |
| | `KeysAccounted` | `KeysBalance` |
| | `EvictsLeastRecent` | `LruEviction` |
| | `ReadsProtect` | `ReadProtects` |
| | `LoopsExact` | `LoopsAgree` |
| | `ShardImplementsCache` | `ImplementsCache` |
| `ExpirationControllerProofs` | `NeverSpins` | `NoEmptyPass` |
| | `LatenessBounded` | `BoundedLateness` |
| `CommandExecutorProofs` | `TypeCorrect` | `TypeOK` |
| | `Routing` | `KeysRouted` |
| | `DelReallyDeletes` | `DelEffective` |
| | `SetsConditional` | `ConditionalSets` |
| | `ErrorsLeaveShards` | `ErrorsChangeNothing` |
| | `NoKeyLost` | `KeysConserved` |
| | `InfoSane` | `InfoBracketed` |
| `SessionProofs` | `TypeCorrect` | `TypeOK` |
| | `AnswersFollowFrames` | `RepliesFollowRequests` |
| | `HandlersReadWhatIsThere` | `ArgsInRange` |
| `ServerProofs` | `TypeCorrect` | `TypeOK` |
| | `JoinedFirst` | `JoinedBeforeDestroyed` |
| | `Serialized` | `ShardsSerial` |
| | `ConfigurationSane` | `ConfigSane` |
| | `WorkersBalanced` | `Balanced` |
| `GlobMatchProofs` | `GlobExact` | `MatchesExactly` |
| | `GlobTurns` | a bound on the turns of `glob_match` |
| `RespParserProofs` | `VerdictsFinal` | `VerdictStable` |
| | `ValuesPrompt` | `ReadyAtLastByte` |
| | `NumbersExact` | what `parseInt64Token` accepts, and its value |

### The shard

The inductive invariant `IInv` is `Consistent(shard)` (typed, finitely many
keys, the three indexes agree, the expiry index exact, the count exact), the
count within the budget, and the types of clock and reply. The parts depend on
each other: the count is right after a removal only if the removed nodes are
there; the expiry index is right only if each node's iterator is its own entry;
and the eviction loop's stopping condition is about the count, so the budget
follows only from an exact one.

The argument is carried by lemmas of `LruShardLemmas` on the operators:
`PayloadSplit` (a payload is the sum over a partition, by cardinality),
`UnlinkOrder` and `MoveToFrontOrder` (the list stays a linear order),
`RemoveKeysConsistent`, `RescheduleExact`, `StoreConsistent`, and
`EnforceConsistent`, whose core is that if the shard was over its budget, the
front-most evicted key has behind it only evicted keys and what is left fits.
`LastOf` gives a last element of a finite part of the list, from the
well-foundedness of strict subset on finite sets. One lemma per method follows,
and `NextIInv` has one step per action.

The action properties follow from `IInv` and, for each method, from a lemma
that says which keys it drops and how it counts them. `ReadProtects` spans two
calls; it needs the further invariant that the key a get returned is at the
front of the list until the next call.

For the refinement, `Image(sh)` is the dictionary of a shard. A lemma per
method says what the method does to the image and what it returns; a step of
the shard is then a step of `AbstractCache`, or changes nothing it sees.
`ImageFits` ties the budget of the dictionary to the byte count, which is where
the exactness of the count is used.

For the loops, a turn of the eviction loop on a consistent shard over its budget
removes the last of the keys that `Evicted` names, and leaves the rest of them
as what is to be evicted from the shard it leaves (`EnforceOnce`); once within
the budget there are none (`EnforceDone`). A turn of the expiration loop removes
one due key (`SweepOnce`), whichever of the entries of equal deadline is first,
so after as many turns as there are entries the only shard it can leave is the
one without due keys. Both need the indexes to agree: that is what makes the
branches for a listed or scheduled key the map lacks unreachable.

### The cleaner

`BoundedLateness` is not inductive. The invariant adds that every deadline held
and every armed timer is at most one longest sleep ahead of the clock. It
assumes that expiry times are natural numbers that do not overflow the clock
(`ControllerAssumption`); what happens when they do is run `expire_wraps`.

### The executor

`IInv` of `CommandExecutorProofs` has each shard consistent, within its budget
and holding only keys that hash to it, and each coroutine's locals as its
suspension point requires, above all that what it still has to visit is among
the shards of its command. The shard's lemmas are used as they are, so nothing
about a shard is proved twice.

* `DelEffective` is about the end of a DEL. `Swept` says the same of the middle:
  on the shards the DEL has run on, a key it names is held only if it was set
  since the DEL began.
* `KeysConserved` counts what a DEL has deleted from the moment its job ran
  (`Owed`), not from when the session has added it up. `SumSplit` and
  `SumUpdate` say how a sum changes when one shard or one session does.
* `InfoBracketed` needs `Between` for a loop in the middle: what INFO has added
  up is at most what the visited shards have counted by now, and together with
  what the others have counted by now it is at least what all had counted when
  INFO began. Since the counters only grow, other sessions' steps keep it.
* `ConditionalSets` and `ErrorsChangeNothing` are action properties. They rest on
  a lemma that lists the ways `processSetCommand` ends (`SetOutcomes`).

TLC has checked the invariants of this section on both runs of the executor.

### The session

The buffer begins where a frame does and is the stretch of the stream received
since (`Bytes`): only so can a full buffer be told from a frame too large. The
answer on its way is for the frame before the buffer or, when the session is
closing, for the one at its front (`Answers`). For `ArgsInRange`, the argument
counts `validateArgs` admits are set against what each handler reads.

### The server

`IInv` has three parts. `Shape`: workers are numbered from zero and fewer than
a `uint16_t` counts. `Phases`: what the loops before each place of the main
thread have done to every thread. `Coroutines`: a thread knows the coroutine it
runs, and the coroutine the shard it is on; both directions are needed for a
shard to have one user. `Balanced` adds an account of the turns: the connections
of a worker are no more than the turns it had, and short of them by no more than
the accepts that failed. It is stated for a counter that has not wrapped around,
which `MaxTurns < CounterSize` says.

### glob_match

`Matching` is a table: for each position of the pattern, the positions of the
text from which the rest matches. Before the first star the position is forced
(`Forced`). After one, `LastStar` says that the text matches if and only if
what follows the last star matches from where the star was last made to end or
from a later place, and that from any such place what has been compared since
can be passed over again (`Since`, the part that makes it inductive). So when
another star is reached, every match with the earlier star ending later is one
the new star can reach too, and the earlier one can be forgotten
(`TakeStarKeeps`). TLC has checked this invariant on run `glob_match`.

`GlobTurns` gives a measure, a natural number that every turn lowers: at most
(name + 1) * (pattern + 2) turns, so a pattern cannot hold a worker for longer
than a product of the lengths. That a turn is always possible is `Terminates`,
which TLC checks.

### The parser

`parse` starts over whenever bytes arrive, so two runs of its loop have to be
compared, on a prefix and on a longer buffer. From the same state, a turn on
each either gives the same state, or the one on the prefix asks for more
(`Waits`) and the one on the longer buffer takes a byte the prefix lacks
(`Beyond`), `TurnSame`; both conditions last (`TurnBeyond`). `RunsAgree` says
this of whole runs. If the verdict on the prefix is not to wait, the runs are
therefore equal: `VerdictStable`. If it is to wait and one byte more gives a
value, the run on the longer buffer went beyond the prefix, and no run consumes
more than there is: `ReadyAtLastByte`. Every turn takes a byte or returns
(`TurnMoves`), so the turns `parse` counts suffice (`RunOver`).

`NumbersExact` compares the accumulator of `parseInt64Token` with the value of
the digits, for any number of digits: the test before a digit is appended fails
exactly when the value would pass the limit, and the least integer, whose
magnitude the type lacks, is accepted.

### Induction

Facts about the turns of a loop or the entries of a table are proved by
contradiction from a least counterexample (`CountUp` and `Induction`, from the
well-foundedness of the naturals). A recursive function is its `CHOOSE`: that
some function satisfies its equation is proved first (`RunsExist`,
`TableExists`, `EnforcedExists` and their like), and then used for the one
chosen.

### Assumptions

The named assumptions of the modules, which TLC evaluates on the runs: sizes
and budgets are natural numbers, the special values (`Null`, `None`, `Absent`)
differ from everything they are told apart from, the clock stops before its
width (`Horizon < TimeHalf`; deadlines may wrap), the hash maps keys to shards,
sessions are finitely many, a command has the fields its handler reads, which
`toCommand` ensures, the elements of a request have types, frames follow each
other in the stream, an `int` holds every `uint16_t`, bytes and characters are
strings, names have no star, and the largest integer has more than one digit.
Bounds that exist for
TLC (`Horizon`, `MaxInserts`, `MaxRemovals`, `MaxTurns`) are arbitrary natural
numbers in the proofs.

### Only model-checked

* `ExpiredKeysGo`, `CleanerYields`, `EveryCommandAnswered`, `EveryFrameAnswered`,
  `ShutdownCompletes`, `Terminates`: liveness under fairness, which the prover
  does not reach.
* `AgreesWithReference`: that `parse` reads back what `serialize` writes, and
  `EstimateExact`: both are about values nested to any depth, and would take
  induction over their structure. The half of `AgreesWithReference` about
  numbers is proved (`NumbersExact`).

## Plan

In this order:

1. Done: the shard, its abstract specification, its loops and its invariants'
   proofs; the cleaner; the executor over several shards; the session; the
   parser and the serializer; the commands' arguments and `glob_match`.
2. Done: `Server` and `Config`, with the composition of listener, sessions'
   coroutines, workers and shutdown, and `SerialShards`; the serializer's loops
   and its estimate; commands as part of the session.
3. Done: proofs of the safety properties of the shard, its refinement, the
   cleaner, the executor, the session and the server.
4. Done: proofs of the loops, against what they compute: the eviction and
   expiration loops, `glob_match`, the parser on pieces and its numbers.
5. Open: the serializer against the parser on values of any depth.

## Not modelled

The event loop and sockets themselves (their use is), thread affinity, logging,
memory allocation and its failure, the reserve of the hash map, the quality of
the hash, host and port, the benchmarks, and the texts of answers: nothing of
the control depends on them, or they are other programs. What Boost.Asio does
when it destroys a suspended session after shutdown is described under `Server`
and not modelled.
