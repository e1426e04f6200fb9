------------------------------- MODULE Server -------------------------------
(***************************************************************************)
(* The life of the process: main (src/main.cpp), Server (src/server.cpp)   *)
(* and ShardPool (src/shardPool.cpp) from the configuration to the exit,   *)
(* with the threads.                                                       *)
(*                                                                         *)
(* The main thread starts a thread per worker, accepts connections in      *)
(* turn for the workers and, on a signal, stops the workers, joins their   *)
(* threads and destroys them.  A worker's thread runs one handler at a     *)
(* time: here a handler that uses a shard has a beginning and an end, so   *)
(* that handlers of different threads overlap.                             *)
(*                                                                         *)
(* Of a session only where its coroutine is matters: "queued" on its       *)
(* home's worker (or waiting there for a request, or between two shards of *)
(* one command), "direct" while it uses its home shard, "posted" to a      *)
(* worker through run_on_shard, "job" while that worker runs the callable, *)
(* "result" when its result is queued at home.  What it does on the shard  *)
(* is in CommandExecutor.                                                  *)
(***************************************************************************)
EXTENDS Config, FiniteSets

CONSTANTS
  File,           \* the contents config.toml may have
  Connection,     \* the connections clients open
  CounterSize,    \* the number of values of next_shard_, a std::size_t
  MaxTurns,       \* bound: turns of the listener that are counted
  None            \* no connection, no thread

ASSUME ServerAssumption ==
  /\ CounterSize \in Nat /\ MaxTurns \in Nat /\ MaxTurns < CounterSize
  /\ None \notin Connection \cup {"cleaner"} /\ None \notin Nat
  /\ "cleaner" \notin Connection
  /\ \A f \in File : {f.max_message_size, f.max_memory_bytes_per_shard, f.shard_count}
                      \subseteq Int \cup {Absent}

VARIABLES
  file, config,    \* config.toml, until it is read, and what get_config made of it
  main,            \* where the main thread is: at, and i, the worker of a loop
  worker,          \* workers_
  stopped,         \* ShardPool::stopped_
  next_shard,      \* next_shard_
  shard_index,     \* the listener's, for the connection it waits for
  session,         \* the sessions' coroutines
  signal,          \* whether SIGINT or SIGTERM has been received
  turns            \* the accepts that have completed, counted to MaxTurns

setup    == <<file, config>>
listener == <<next_shard, shard_index, turns>>
vars     == <<setup, main, worker, stopped, listener, session, signal>>

At(place, i) == [at |-> place, i |-> i]

(* thread: "none" until start, then "starting", "running" in               *)
(* io_context.run, "finished" and, after join, "joined".  busy is the      *)
(* handler it runs: None, a connection or "cleaner".                       *)
Worker == [thread : {"none", "starting", "running", "finished", "joined"},
           thread_id : Nat \cup {None}, stopped : BOOLEAN, destroyed : BOOLEAN,
           busy : Connection \cup {"cleaner", None}]

NewWorker == [thread |-> "none", thread_id |-> None, stopped |-> FALSE,
              destroyed |-> FALSE, busy |-> None]

Index == DOMAIN worker
size  == Cardinality(Index)

NoSession == [at |-> "none", home |-> None, shard |-> None]

Init == /\ file \in File /\ config = None
        /\ main = At("main", 0)
        /\ worker = [i \in {} |-> NewWorker]
        /\ stopped = FALSE
        /\ next_shard = 0 /\ shard_index = None
        /\ session = [c \in Connection |-> NoSession]
        /\ signal = FALSE /\ turns = 0

-----------------------------------------------------------------------------
(* The main thread.                                                        *)

(* The constructor of ShardPool. *)
WorkerCount(n) == IF n > 1 THEN n ELSE 1

(* config.toml is missing or is not TOML: the exception leaves main. *)
ParseFails ==
  /\ main.at = "main"
  /\ main' = At("exited", 0)
  /\ UNCHANGED <<setup, worker, stopped, listener, session, signal>>

Construct ==
  /\ main.at = "main"
  /\ config' = get_config(file)
  /\ worker' = [i \in 0 .. WorkerCount(config'.shard_count) - 1 |-> NewWorker]
  /\ main' = At("listen", 0)
  /\ file' = None
  /\ UNCHANGED <<stopped, listener, session, signal>>

(* The rest of the constructor of Server.  Opening the port may throw; no  *)
(* handler catches it, and whether the stack is unwound, which destroys    *)
(* the pool, is up to the implementation.                                  *)
Listen ==
  /\ main.at = "listen"
  /\ main' \in {At("start", 0), At("return", 0), At("exited", 0)}
  /\ UNCHANGED <<setup, worker, stopped, listener, session, signal>>

(* Fault: the counter itself is the index. *)
Turn_NoModulo == /\ shard_index' = next_shard
                 /\ next_shard' = (next_shard + 1) % CounterSize

(* Fault: the counter stays. *)
Turn_Stays == shard_index' = next_shard % size /\ UNCHANGED next_shard

(* The head of the listener's loop. *)
Turn == /\ shard_index' = next_shard % size
        /\ next_shard' = (next_shard + 1) % CounterSize

(* ShardPool::start, one thread at a time; then run spawns the listener    *)
(* and runs the main thread's io_context.                                  *)
Start ==
  /\ main.at = "start"
  /\ worker' = [worker EXCEPT ![main.i].thread = "starting"]
  /\ IF main.i + 1 < size
     THEN main' = At("start", main.i + 1) /\ UNCHANGED <<next_shard, shard_index>>
     ELSE main' = At("run", 0) /\ Turn
  /\ UNCHANGED <<setup, stopped, session, signal, turns>>

Counted == turns' = IF turns < MaxTurns THEN turns + 1 ELSE turns

(* A connection is accepted: its session runs on the worker the socket was *)
(* made for, whether or not that worker's thread has begun.                *)
Accept(c) ==
  /\ main.at = "run" /\ session[c].at = "none"
  /\ session' = [session EXCEPT ![c] = [at |-> "queued", home |-> shard_index,
                                        shard |-> None]]
  /\ Turn /\ Counted
  /\ UNCHANGED <<setup, main, worker, stopped, signal>>

(* The socket made for this turn is given up, and the turn with it. *)
AcceptError ==
  /\ main.at = "run"
  /\ Turn /\ Counted
  /\ UNCHANGED <<setup, main, worker, stopped, session, signal>>

(* signals_ exists from the constructor to the destructor of Server. *)
Signal == /\ main.at \notin {"main", "destroy", "exited"}
          /\ ~ signal /\ signal' = TRUE
          /\ UNCHANGED <<setup, main, worker, stopped, listener, session>>

(* The handler of the signals calls ShardPool::stop. *)
HandleSignal ==
  /\ main.at = "run" /\ signal
  /\ main' = At("stop", 0) /\ stopped' = TRUE
  /\ UNCHANGED <<setup, worker, listener, session, signal>>

(* The end of a turn of a loop over the workers; place comes after the loop. *)
NextWorker(place) ==
  main' = IF main.i + 1 < size THEN At(main.at, main.i + 1) ELSE At(place, 0)

(* Fault: only the work guard is reset; the cleaner is work enough. *)
StopWorker_GuardOnly ==
  /\ main.at = "stop"
  /\ NextWorker("join")
  /\ UNCHANGED <<setup, worker, stopped, listener, session, signal>>

StopWorker ==
  /\ main.at = "stop"
  /\ worker' = [worker EXCEPT ![main.i].stopped = TRUE]
  /\ NextWorker("join")
  /\ UNCHANGED <<setup, stopped, listener, session, signal>>

(* Fault: the thread is not waited for. *)
Join_Not ==
  /\ main.at = "join"
  /\ NextWorker("return")
  /\ UNCHANGED <<setup, worker, stopped, listener, session, signal>>

(* A thread that was never started is not joinable. *)
Join ==
  /\ main.at = "join"
  /\ worker[main.i].thread \in {"none", "finished"}
  /\ worker' = [worker EXCEPT ![main.i].thread = IF @ = "finished" THEN "joined" ELSE @]
  /\ NextWorker("return")
  /\ UNCHANGED <<setup, stopped, listener, session, signal>>

(* Server::run and the destructor of ShardPool call stop again, which does *)
(* nothing the second time.  After a constructor that threw, the           *)
(* destructor's is the first.                                              *)
Return ==
  /\ main.at = "return"
  /\ main' = At(IF stopped THEN "destroy" ELSE "stop", 0)
  /\ stopped' = TRUE
  /\ UNCHANGED <<setup, worker, listener, session, signal>>

(* The workers are destroyed first to last. *)
Destroy ==
  /\ main.at = "destroy"
  /\ worker' = [worker EXCEPT ![main.i].destroyed = TRUE]
  /\ NextWorker("exited")
  /\ UNCHANGED <<setup, stopped, listener, session, signal>>

-----------------------------------------------------------------------------
(* The workers' threads.                                                   *)

OnlyWorker == UNCHANGED <<setup, main, stopped, listener, signal>>

BeginThread(w) ==
  /\ worker[w].thread = "starting"
  /\ worker' = [worker EXCEPT ![w].thread = "running", ![w].thread_id = w]
  /\ OnlyWorker /\ UNCHANGED session

(* io_context.run takes the next handler unless the context is stopped. *)
Ready(w) == worker[w].thread = "running" /\ worker[w].busy = None /\ ~ worker[w].stopped

Busy(w, h) == worker' = [worker EXCEPT ![w].busy = h]

(* The cleaner wakes up and uses the shard. *)
BeginClean(w) == Ready(w) /\ Busy(w, "cleaner") /\ OnlyWorker /\ UNCHANGED session

EndClean(w) == /\ worker[w].busy = "cleaner" /\ Busy(w, None)
               /\ OnlyWorker /\ UNCHANGED session

is_on_shard_thread(i, thread) == worker[i].thread_id = thread

(* Fault: any shard is used directly. *)
is_local_AnyShard(c, i) == is_on_shard_thread(session[c].home, session[c].home)

(* Whether the session, which runs on its home's thread, may use shard i   *)
(* directly.                                                               *)
is_local(c, i) ==
  is_on_shard_thread(session[c].home, session[c].home) /\ i = session[c].home

Move(c, place) == session' = [session EXCEPT ![c].at = place]

(* A command needs shard i and uses it at once. *)
BeginDirect(c, i) ==
  /\ session[c].at = "queued" /\ Ready(session[c].home) /\ is_local(c, i)
  /\ session' = [session EXCEPT ![c].at = "direct", ![c].shard = i]
  /\ Busy(session[c].home, c)
  /\ OnlyWorker

(* run_on_shard: a job is posted to the worker of shard i, by INFO to its  *)
(* home's as well.                                                         *)
Post(c, i) ==
  /\ session[c].at = "queued" /\ Ready(session[c].home)
  /\ session' = [session EXCEPT ![c].at = "posted", ![c].shard = i]
  /\ OnlyWorker /\ UNCHANGED worker

EndDirect(c) == /\ session[c].at = "direct"
                /\ Move(c, "queued") /\ Busy(session[c].home, None)
                /\ OnlyWorker

BeginJob(c) == /\ session[c].at = "posted"
               /\ Ready(session[c].shard)
               /\ Move(c, "job") /\ Busy(session[c].shard, c)
               /\ OnlyWorker

EndJob(c) == /\ session[c].at = "job"
             /\ Move(c, "result") /\ Busy(session[c].shard, None)
             /\ OnlyWorker

Resume(c) == /\ session[c].at = "result"
             /\ Ready(session[c].home)
             /\ Move(c, "queued")
             /\ OnlyWorker /\ UNCHANGED worker

(* The client is gone: Session::run returns. *)
EndSession(c) == /\ session[c].at = "queued"
                 /\ Ready(session[c].home)
                 /\ Move(c, "ended")
                 /\ OnlyWorker /\ UNCHANGED worker

(* run returns after the handler during which the context was stopped. *)
EndThread(w) ==
  /\ worker[w].thread = "running" /\ worker[w].busy = None /\ worker[w].stopped
  /\ worker' = [worker EXCEPT ![w].thread = "finished"]
  /\ OnlyWorker /\ UNCHANGED session

-----------------------------------------------------------------------------
MainStep == \/ ParseFails \/ Construct \/ Listen \/ Start
            \/ StopWorker \/ Join \/ Return \/ Destroy

EndHandler(w) == EndClean(w) \/ \E c \in Connection : /\ worker[w].busy = c
                                                      /\ EndDirect(c) \/ EndJob(c)

Next == \/ MainStep \/ HandleSignal \/ AcceptError \/ Signal
        \/ \E c \in Connection :
             \/ Accept(c) \/ BeginJob(c) \/ Resume(c) \/ EndSession(c)
             \/ \E i \in Index : BeginDirect(c, i) \/ Post(c, i)
        \/ \E w \in Index : BeginThread(w) \/ BeginClean(w) \/ EndHandler(w) \/ EndThread(w)

(* The main thread and the workers' threads go on, and a handler ends.     *)
(* The handler of a signal is queued behind the accept that is pending, so *)
(* accepts, failed ones included, cannot put it off for ever.  No fairness *)
(* for clients, the cleaner, or the beginning of handlers.                 *)
Fairness ==
  /\ WF_vars(MainStep) /\ WF_vars(HandleSignal)
  /\ \A w \in 0 .. UInt16Size - 1 :
       /\ WF_vars(w \in Index /\ BeginThread(w))
       /\ WF_vars(w \in Index /\ EndHandler(w))
       /\ WF_vars(w \in Index /\ EndThread(w))

Spec == Init /\ [][Next]_vars /\ Fairness

-----------------------------------------------------------------------------
(* The threads, the loops of the main thread and the coroutines are of     *)
(* their types, and what a thread is busy with is the coroutine it runs.   *)
TypeOK ==
  /\ main.at \in {"main", "listen", "start", "run", "stop", "join", "return",
                  "destroy", "exited"}
  /\ main.at \notin {"main", "exited"} => main.i \in Index
  /\ \A w \in Index : worker[w] \in Worker
  /\ shard_index \in Index \cup {None}
  /\ next_shard \in 0 .. CounterSize - 1
  /\ \A c \in Connection :
       /\ session[c].at \in {"none", "queued", "direct", "posted", "job", "result",
                            "ended"}
       /\ session[c].at = "direct" => worker[session[c].home].busy = c
       /\ session[c].at = "job" => worker[session[c].shard].busy = c

Users(i) ==
  {c \in Connection : session[c].at \in {"direct", "job"} /\ session[c].shard = i}
    \cup (IF worker[i].busy = "cleaner" THEN {"cleaner"} ELSE {})

Use(i) == IF i \notin Index THEN "unborn"
          ELSE IF worker[i].destroyed THEN "gone"
          ELSE IF Users(i) = {} THEN "free"
          ELSE IF Cardinality(Users(i)) = 1 THEN CHOOSE u \in Users(i) : TRUE
          ELSE "contended"

Serial == INSTANCE SerialShards
            WITH Shard <- 0 .. UInt16Size - 1,
                 User  <- Connection \cup {"cleaner"},
                 use   <- [i \in 0 .. UInt16Size - 1 |-> Use(i)]

(* A shard is never used by two threads at once, nor after it is           *)
(* destroyed: direct use by sessions at home, jobs from other workers and  *)
(* the cleaner take turns, from the first connection, which may be         *)
(* accepted before the threads run, through a shutdown that comes while    *)
(* handlers run.                                                           *)
ShardsSerial == Serial!Spec

(* No worker is destroyed whose thread still has to be joined (the         *)
(* destructor of std::thread would end the process), whether the server    *)
(* ran or its constructor threw before any thread was started; and no      *)
(* thread runs a handler when the first worker goes, so none refers to a   *)
(* coroutine that is destroyed.                                            *)
JoinedBeforeDestroyed ==
  \A i \in Index : worker[i].destroyed =>
    \A w \in Index : worker[w].thread \in {"none", "joined"} /\ worker[w].busy = None

(* Turn by turn, the workers get the same number of connections, but for   *)
(* one, and for the turns that failed accepts use up.                      *)
Balanced ==
  turns < MaxTurns =>
    LET accepted(i) == Cardinality({c \in Connection : session[c].home = i})
        failed      == turns - Cardinality({c \in Connection : session[c].home # None})
    IN  \A i, j \in Index : accepted(i) <= accepted(j) + 1 + failed

(* A signal, and a constructor that throws, end the process, although      *)
(* sessions wait for other workers, accepts fail again and again, and the  *)
(* cleaners never run out of work.                                         *)
ShutdownCompletes == (signal \/ main.at = "return") ~> (main.at = "exited")

(* However odd the numbers in config.toml, there is a worker, there are no *)
(* more than were asked for, and there are exactly that many when the      *)
(* number fits; and no limit is zero.                                      *)
ConfigSane ==
  [][ Construct =>
        LET asked == Asked(file.shard_count, 1)
        IN  /\ size' >= 1 /\ (size' > 1 => size' <= asked)
            /\ asked \in 1 .. UInt16Size - 1 => size' = asked
            /\ config'.max_memory_bytes_per_shard > 0
            /\ config'.max_message_size > 0 ]_vars

(* config.toml: "max payload bytes per shard, total budget =               *)
(* max_memory_bytes_per_shard * shard_count".  A number that does not fit  *)
(* in an int is not taken.                                                 *)
BudgetAsConfigured ==
  [][ Construct /\ file.max_memory_bytes_per_shard > 0 /\ file.shard_count > 0 =>
        size' * config'.max_memory_bytes_per_shard
          = file.max_memory_bytes_per_shard * file.shard_count ]_vars
=============================================================================
