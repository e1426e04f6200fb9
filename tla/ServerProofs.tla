---------------------------- MODULE ServerProofs ----------------------------
(***************************************************************************)
(* The theorems about Server, for every configuration, every number of     *)
(* workers and every set of connections.                                   *)
(*                                                                         *)
(* IInv is the inductive invariant.  That a shard has one user needs both  *)
(* directions of the relation between a worker's thread and the coroutine  *)
(* it runs; that the use ends before the shard does needs, for each place  *)
(* of the main thread, what the loops before it have done to every thread. *)
(***************************************************************************)
EXTENDS Server, FiniteSetTheorems, TLAPS

Place == {"main", "listen", "start", "run", "stop", "join", "return", "destroy",
          "exited"}

Session == [at : {"none", "queued", "direct", "posted", "job", "result", "ended"},
            home : Nat \cup {None}, shard : Nat \cup {None}]

(* The workers are numbered from zero, and fewer than a uint16_t can count. *)
Shape ==
  /\ main \in [at : Place, i : Nat]
  /\ \E n \in 0 .. UInt16Size - 1 : Index = 0 .. n - 1
  /\ worker \in [Index -> Worker]
  /\ main.at = "main" => Index = {} /\ file \in File
  /\ main.at \notin {"main", "exited"} => main.i \in Index
  /\ next_shard \in 0 .. CounterSize - 1
  /\ shard_index \in Index \cup {None}
  /\ session \in [Connection -> Session]

(* What the main thread has done to the threads by the time it is where it is. *)
Phases ==
  /\ main.at \in {"main", "listen", "start", "run"} => ~ stopped
  /\ main.at \in {"stop", "join", "destroy"} => stopped
  /\ main.at = "run" => shard_index \in Index
  /\ \A w \in Index :
       /\ main.at = "listen" => worker[w].thread = "none"
       /\ main.at = "start" /\ w >= main.i => worker[w].thread = "none"
       /\ main.at = "stop" /\ w < main.i => worker[w].stopped
       /\ main.at = "join" => worker[w].stopped
       /\ main.at = "join" /\ w < main.i => worker[w].thread \in {"none", "joined"}
       /\ main.at = "return" => worker[w].thread \in {"none", "joined"}
       /\ main.at \in {"destroy", "exited"} => worker[w].thread \in {"none", "joined"}
       /\ worker[w].destroyed => main.at \in {"destroy", "exited"}
       /\ main.at = "destroy" /\ w >= main.i => ~ worker[w].destroyed

(* A thread runs at most one coroutine, and the coroutine knows it. *)
Coroutines ==
  /\ \A c \in Connection :
       /\ session[c].at # "none" => session[c].home \in Index
       /\ session[c].at \in {"direct", "posted", "job", "result"} => session[c].shard \in Index
       /\ session[c].at = "direct" => session[c].shard = session[c].home
       /\ session[c].at \in {"direct", "job"} => worker[session[c].shard].busy = c
  /\ \A w \in Index :
       /\ worker[w].busy # None => worker[w].thread = "running"
       /\ worker[w].busy \in Connection =>
            /\ session[worker[w].busy].at \in {"direct", "job"}
            /\ session[worker[w].busy].shard = w

IInv == Shape /\ Phases /\ Coroutines

-----------------------------------------------------------------------------
(* The workers are numbered 0 to size - 1. *)
LEMMA Numbered ==
  ASSUME Shape
  PROVE  /\ size \in Nat /\ Index = 0 .. size - 1 /\ size < UInt16Size
         /\ Index \subseteq 0 .. UInt16Size - 1
<1>1. PICK n \in 0 .. UInt16Size - 1 : Index = 0 .. n - 1
  BY DEF Shape
<1>2. Cardinality(0 .. n - 1) = n
  BY FS_Interval, WidthAssumption
<1> QED
  BY <1>1, <1>2, WidthAssumption DEF size

(* The modulo of a size_t counter is the index of a worker. *)
LEMMA TurnInRange ==
  ASSUME Shape, Index # {}, Turn
  PROVE  shard_index' \in Index /\ next_shard' \in 0 .. CounterSize - 1
<1>1. size \in Nat /\ size > 0 /\ Index = 0 .. size - 1
  BY Numbered
<1>2. next_shard \in Nat /\ CounterSize \in Nat /\ CounterSize > 0
  BY ServerAssumption DEF Shape
<1> QED
  BY <1>1, <1>2 DEF Turn

(* A process that has just begun satisfies the invariant. *)
LEMMA InitIInv == Init => IInv
<1> SUFFICES ASSUME Init PROVE IInv
  OBVIOUS
<1>1. Index = {} /\ worker \in [Index -> Worker]
  BY DEF Init, Index
<1>2. \E n \in 0 .. UInt16Size - 1 : Index = 0 .. n - 1
  <2>1. 0 \in 0 .. UInt16Size - 1 /\ Index = 0 .. 0 - 1
    BY <1>1, WidthAssumption
  <2> QED
    BY <2>1
<1>3. Shape
  <2>1. main \in [at : Place, i : Nat] /\ main.at = "main" /\ file \in File
    BY DEF Init, At, Place
  <2>2. session \in [Connection -> Session]
    BY DEF Init, NoSession, Session
  <2> QED
    BY <1>1, <1>2, <2>1, <2>2, ServerAssumption DEF Init, Shape
<1>4. Phases /\ Coroutines
  BY <1>1 DEF Init, Phases, Coroutines, At, NoSession
<1> QED
  BY <1>3, <1>4 DEF IInv

-----------------------------------------------------------------------------
(* The steps of the main thread. *)

(* The constructor of ShardPool: all the workers are new. *)
LEMMA ConstructKeeps ==
  ASSUME IInv, Construct
  PROVE  IInv'
<1>1. config'.shard_count \in 0 .. UInt16Size - 1
  <2>1. Positive(value_or(file.shard_count, 1), 1) \in Nat
    BY WidthAssumption DEF Positive, value_or
  <2> QED
    BY <2>1, WidthAssumption DEF Construct, get_config
<1>2. PICK n \in 1 .. UInt16Size - 1 : worker' = [i \in 0 .. n - 1 |-> NewWorker]
  BY <1>1, WidthAssumption DEF Construct, WorkerCount
<1>3. Index' = 0 .. n - 1 /\ 0 \in Index' /\ Index = {}
  <2>1. Index' = 0 .. n - 1
    BY <1>2 DEF Index
  <2> QED
    BY <2>1 DEF IInv, Shape, Construct
<1>4. worker' \in [Index' -> Worker]
  BY <1>2, <1>3 DEF NewWorker, Worker
<1>5. main' = [at |-> "listen", i |-> 0]
  BY DEF Construct, At
<1>6. Shape'
  <2>1. \E m \in 0 .. UInt16Size - 1 : Index' = 0 .. m - 1
    BY <1>3, WidthAssumption
  <2>2. shard_index' \in Index' \cup {None} /\ next_shard' \in 0 .. CounterSize - 1
        /\ session' \in [Connection -> Session]
    BY <1>3 DEF IInv, Shape, Construct, listener
  <2> QED
    BY <1>3, <1>4, <1>5, <2>1, <2>2 DEF Shape, Place
<1>7. \A c \in Connection : session'[c].at = "none"
  BY <1>3 DEF IInv, Coroutines, Construct
<1>8. Phases'
  <2>1. \A w \in Index' : worker'[w] = NewWorker
    BY <1>2, <1>3
  <2>2. ~ stopped'
    BY DEF IInv, Phases, Construct
  <2> QED
    BY <1>5, <2>1, <2>2 DEF Phases, NewWorker
<1>9. Coroutines'
  BY <1>2, <1>3, <1>7, ServerAssumption DEF Coroutines, NewWorker
<1> QED
  BY <1>6, <1>8, <1>9 DEF IInv

(* A step of the main thread that leaves the threads and the sessions. *)
LEMMA MainMovesKeeps ==
  ASSUME IInv, ParseFails \/ Listen \/ HandleSignal \/ Return
  PROVE  IInv'
<1>1. Index' = Index /\ UNCHANGED <<worker, session, next_shard, shard_index>>
  BY DEF Index, ParseFails, Listen, HandleSignal, Return, listener
<1>2. main' \in [at : Place, i : {0}] /\ main'.at # "main"
  BY DEF ParseFails, Listen, HandleSignal, Return, IInv, Shape, Place, At
<1>3. main'.at # "exited" => 0 \in Index
  BY Numbered DEF ParseFails, Listen, HandleSignal, Return, IInv, Shape, At
<1>4. Shape'
  BY <1>1, <1>2, <1>3 DEF IInv, Shape
<1>5. Phases'
  <2>1. CASE ParseFails
    BY <1>1, <2>1 DEF ParseFails, At, IInv, Shape, Phases
  <2>2. CASE Listen
    BY <1>1, <2>2 DEF Listen, At, IInv, Shape, Phases
  <2>3. CASE HandleSignal
    BY <1>1, <2>3, Numbered DEF HandleSignal, At, IInv, Shape, Phases
  <2>4. CASE Return
    BY <1>1, <2>4, Numbered DEF Return, At, IInv, Shape, Phases
  <2> QED
    BY <2>1, <2>2, <2>3, <2>4
<1>6. Coroutines'
  BY <1>1 DEF IInv, Coroutines
<1> QED
  BY <1>4, <1>5, <1>6 DEF IInv

(* A loop over the workers stays in their range, and ends with the last. *)
LEMMA LoopInRange ==
  ASSUME Shape, main.i \in Index, NEW place, NextWorker(place)
  PROVE  \/ main' = [at |-> main.at, i |-> main.i + 1] /\ main.i + 1 \in Index
         \/ main' = [at |-> place, i |-> 0] /\ 0 \in Index /\ \A w \in Index : w <= main.i
BY Numbered DEF NextWorker, At

(* Whoever changes one worker adds none and removes none. *)
LEMMA OneWorker ==
  ASSUME worker \in [Index -> Worker], NEW i \in Index, NEW v \in Worker,
         worker' = [worker EXCEPT ![i] = v]
  PROVE  Index' = Index /\ worker' \in [Index -> Worker]
BY DEF Index

(* The loops of start, stop, join and the destruction change one worker    *)
(* each time; what they leave it with.                                     *)
LEMMA StartKeeps ==
  ASSUME IInv, Start
  PROVE  IInv'
<1>1. main.i \in Index /\ Index' = Index /\ worker' \in [Index -> Worker]
  <2>1. main.i \in Index /\ worker \in [Index -> Worker]
    BY DEF IInv, Shape, Start
  <2>2. [worker[main.i] EXCEPT !.thread = "starting"] \in Worker
    BY <2>1 DEF Worker
  <2> QED
    BY <2>1, <2>2, OneWorker DEF Start
<1>2. \/ main' = [at |-> "start", i |-> main.i + 1] /\ main.i + 1 \in Index
         /\ UNCHANGED <<next_shard, shard_index>>
      \/ main' = [at |-> "run", i |-> 0] /\ 0 \in Index /\ Turn
  BY <1>1, Numbered DEF IInv, Start, At
<1>3. next_shard' \in 0 .. CounterSize - 1 /\ shard_index' \in Index \cup {None}
      /\ (Turn => shard_index' \in Index)
  BY <1>1, <1>2, TurnInRange DEF IInv, Shape
<1>4. \A w \in Index :
        /\ worker'[w].thread = IF w = main.i THEN "starting" ELSE worker[w].thread
        /\ worker'[w].busy = worker[w].busy
        /\ worker'[w].stopped = worker[w].stopped
        /\ worker'[w].destroyed = worker[w].destroyed
  BY <1>1 DEF Start, IInv, Shape, Worker
<1>5. Shape'
  BY <1>1, <1>2, <1>3, Numbered DEF IInv, Shape, Place, Start
<1>6. Phases'
  BY <1>1, <1>2, <1>3, <1>4, Numbered DEF IInv, Shape, Phases, Start
<1>7. Coroutines'
  BY <1>1, <1>4, ServerAssumption DEF IInv, Shape, Phases, Coroutines, Start
<1> QED
  BY <1>5, <1>6, <1>7 DEF IInv

(* The loops of stop and of the destruction of workers_ keep the           *)
(* invariant: one worker at a time, first to last.                         *)
LEMMA LoopsKeep ==
  ASSUME IInv, StopWorker \/ Join \/ Destroy
  PROVE  IInv'
<1>1. main.i \in Index /\ Index' = Index /\ worker' \in [Index -> Worker]
  <2>1. main.i \in Index /\ worker \in [Index -> Worker]
    BY DEF IInv, Shape, StopWorker, Join, Destroy
  <2>2. PICK v \in Worker : worker' = [worker EXCEPT ![main.i] = v]
    <3> DEFINE old == worker[main.i]
    <3>1. /\ [old EXCEPT !.stopped = TRUE] \in Worker
          /\ [old EXCEPT !.destroyed = TRUE] \in Worker
          /\ \A t \in {"none", "joined"} : [old EXCEPT !.thread = t] \in Worker
      BY <2>1 DEF Worker
    <3>2. CASE StopWorker
      BY <3>1, <3>2 DEF StopWorker
    <3>3. CASE Join
      BY <2>1, <3>1, <3>3 DEF Join
    <3>4. CASE Destroy
      BY <3>1, <3>4 DEF Destroy
    <3> QED
      BY <3>2, <3>3, <3>4
  <2> QED
    BY <2>1, <2>2, OneWorker
<1>2. UNCHANGED <<session, next_shard, shard_index, stopped>>
  BY DEF StopWorker, Join, Destroy, listener
<1>3. PICK place \in {"join", "return", "exited"} :
        /\ NextWorker(place)
        /\ place = "join" <=> main.at = "stop"
        /\ place = "return" <=> main.at = "join"
        /\ place = "exited" <=> main.at = "destroy"
  BY DEF StopWorker, Join, Destroy
<1>4. \/ main' = [at |-> main.at, i |-> main.i + 1] /\ main.i + 1 \in Index
      \/ main' = [at |-> place, i |-> 0] /\ 0 \in Index /\ \A w \in Index : w <= main.i
  BY <1>1, <1>3, LoopInRange DEF IInv
<1>5. /\ worker \in [Index -> Worker]
      /\ \A w \in Index : w # main.i => worker'[w] = worker[w]
      /\ worker'[main.i].busy = worker[main.i].busy
  BY <1>1 DEF StopWorker, Join, Destroy, IInv, Shape, Worker
<1>6. Shape'
  BY <1>1, <1>2, <1>3, <1>4 DEF IInv, Shape, Place, StopWorker, Join, Destroy
<1>7. Phases'
  <2>1. CASE StopWorker
    <3>1. /\ worker'[main.i].stopped
          /\ worker'[main.i].thread = worker[main.i].thread
          /\ worker'[main.i].destroyed = worker[main.i].destroyed
      BY <1>1, <1>5, <2>1 DEF StopWorker, Worker
    <3> QED
      BY <1>1, <1>2, <1>3, <1>4, <1>5, <2>1, <3>1, Numbered
         DEF IInv, Shape, Phases, StopWorker
  <2>2. CASE Join
    <3>1. /\ worker'[main.i].thread \in {"none", "joined"}
          /\ worker'[main.i].stopped = worker[main.i].stopped
          /\ worker'[main.i].destroyed = worker[main.i].destroyed
      BY <1>1, <1>5, <2>2 DEF Join, Worker
    <3> QED
      BY <1>1, <1>2, <1>3, <1>4, <1>5, <2>2, <3>1, Numbered
         DEF IInv, Shape, Phases, Join
  <2>3. CASE Destroy
    <3>1. worker'[main.i].thread = worker[main.i].thread
      BY <1>1, <1>5, <2>3 DEF Destroy, Worker
    <3> QED
      BY <1>1, <1>2, <1>3, <1>4, <1>5, <2>3, <3>1, Numbered
         DEF IInv, Shape, Phases, Destroy
  <2> QED
    BY <2>1, <2>2, <2>3
<1>8. Coroutines'
  <2>1. worker[main.i].thread = "running" => worker'[main.i].thread = "running"
    BY <1>1, <1>5 DEF StopWorker, Join, Destroy, Worker
  <2>2. \A w \in Index : /\ worker'[w].busy = worker[w].busy
                         /\ worker[w].thread = "running" => worker'[w].thread = "running"
    BY <1>5, <2>1
  <2> QED
    BY <1>1, <1>2, <2>2 DEF IInv, Coroutines
<1> QED
  BY <1>6, <1>7, <1>8 DEF IInv

(* The listener gives a new session a home, or wastes a turn. *)
LEMMA ListenerKeeps ==
  ASSUME IInv, AcceptError \/ Signal \/ \E c \in Connection : Accept(c)
  PROVE  IInv'
<1>1. Index' = Index /\ UNCHANGED <<main, worker, stopped>>
  BY DEF AcceptError, Signal, Accept, Index
<1>2. /\ next_shard' \in 0 .. CounterSize - 1
      /\ shard_index' \in Index \cup {None}
      /\ main.at = "run" => shard_index' \in Index
  BY TurnInRange DEF AcceptError, Signal, Accept, IInv, Shape, Phases, listener
<1>3. CASE \E c \in Connection : Accept(c)
  <2>1. PICK c \in Connection : Accept(c)
    BY <1>3
  <2>2. shard_index \in Index /\ session[c].at = "none"
    BY <2>1 DEF Accept, IInv, Phases
  <2>3. [at |-> "queued", home |-> shard_index, shard |-> None] \in Session
    BY <2>2, Numbered DEF Session, IInv
  <2>4. session' = [session EXCEPT ![c] = [at |-> "queued", home |-> shard_index,
                                           shard |-> None]]
    BY <2>1 DEF Accept
  <2>5. Shape'
    BY <1>1, <1>2, <2>1, <2>3, <2>4 DEF IInv, Shape, Accept
  <2>6. Coroutines'
    BY <1>1, <2>2, <2>4 DEF IInv, Shape, Coroutines
  <2> QED
    BY <1>1, <1>2, <2>5, <2>6 DEF IInv, Phases
<1>4. CASE AcceptError \/ Signal
  <2>1. session' = session /\ (main.at = "main" => file' = file)
    BY <1>4 DEF AcceptError, Signal, setup
  <2> QED
    BY <1>1, <1>2, <2>1 DEF IInv, Shape, Phases, Coroutines
<1> QED
  BY <1>3, <1>4

-----------------------------------------------------------------------------
(* The steps of the workers' threads. *)

(* What a thread does to its own worker keeps the shape and the phase when *)
(* the thread was alive and the main thread has not joined it.             *)
LEMMA WorkerKeeps ==
  ASSUME IInv, OnlyWorker, session' \in [Connection -> Session],
         NEW w \in Index, worker[w].thread \in {"starting", "running"},
         NEW v \in Worker, worker' = [worker EXCEPT ![w] = v],
         v.thread \notin {"none", "joined"},
         v.stopped = worker[w].stopped, v.destroyed = worker[w].destroyed
  PROVE  Shape' /\ Phases' /\ Index' = Index
<1>1. Index' = Index /\ worker' \in [Index -> Worker]
  BY OneWorker DEF IInv, Shape
<1>2. UNCHANGED <<file, main, stopped, next_shard, shard_index>>
  BY DEF OnlyWorker, setup, listener
<1>3. Shape'
  BY <1>1, <1>2 DEF IInv, Shape
<1>4. Phases'
  BY <1>1, <1>2, Numbered DEF IInv, Shape, Phases
<1> QED
  BY <1>1, <1>3, <1>4

(* The beginning and the end of a handler. *)
LEMMA BusyKeeps ==
  ASSUME IInv, OnlyWorker, session' \in [Connection -> Session],
         NEW w \in Index, worker[w].thread = "running",
         NEW h \in Connection \cup {"cleaner", None}, Busy(w, h)
  PROVE  /\ Shape' /\ Phases' /\ Index' = Index
         /\ \A u \in Index : /\ worker'[u].thread = worker[u].thread
                             /\ worker'[u].busy = IF u = w THEN h ELSE worker[u].busy
<1> DEFINE v == [worker[w] EXCEPT !.busy = h]
<1>1. worker' = [worker EXCEPT ![w] = v] /\ worker \in [Index -> Worker]
  BY DEF Busy, IInv, Shape
<1>2. /\ v \in Worker /\ v.thread = "running" /\ v.busy = h
      /\ v.stopped = worker[w].stopped /\ v.destroyed = worker[w].destroyed
  BY <1>1 DEF Worker
<1> HIDE DEF v
<1>3. Shape' /\ Phases' /\ Index' = Index
  BY <1>1, <1>2, WorkerKeeps
<1> QED
  BY <1>1, <1>2, <1>3

(* The thread of a worker and its cleaner keep the invariant. *)
LEMMA ThreadKeeps ==
  ASSUME IInv, NEW w \in Index,
         BeginThread(w) \/ BeginClean(w) \/ EndClean(w) \/ EndThread(w)
  PROVE  IInv'
<1>1. worker \in [Index -> Worker] /\ OnlyWorker /\ UNCHANGED session
  BY DEF IInv, Shape, BeginThread, BeginClean, EndClean, EndThread
<1>2. worker[w].thread \in {"starting", "running"} /\ worker[w].busy \notin Connection
  BY ServerAssumption
     DEF BeginThread, BeginClean, EndClean, EndThread, Ready, IInv, Coroutines
<1>3. session' \in [Connection -> Session]
  BY <1>1 DEF IInv, Shape
<1>4. CASE BeginThread(w)
  <2> DEFINE v == [worker[w] EXCEPT !.thread = "running", !.thread_id = w]
  <2>1. worker' = [worker EXCEPT ![w] = v]
    BY <1>4 DEF BeginThread
  <2>2. w \in Nat
    BY Numbered DEF IInv
  <2>3. /\ v \in Worker /\ v.thread = "running" /\ v.busy = worker[w].busy
        /\ v.stopped = worker[w].stopped /\ v.destroyed = worker[w].destroyed
    BY <1>1, <2>2 DEF Worker
  <2> HIDE DEF v
  <2>4. Shape' /\ Phases' /\ Index' = Index
    BY <1>1, <1>2, <1>3, <2>1, <2>3, WorkerKeeps
  <2>5. Coroutines'
    BY <1>1, <2>1, <2>3, <2>4 DEF IInv, Coroutines
  <2> QED
    BY <2>4, <2>5 DEF IInv
<1>5. CASE EndThread(w)
  <2> DEFINE v == [worker[w] EXCEPT !.thread = "finished"]
  <2>1. worker' = [worker EXCEPT ![w] = v] /\ worker[w].busy = None
    BY <1>5 DEF EndThread
  <2>2. /\ v \in Worker /\ v.thread = "finished" /\ v.busy = worker[w].busy
        /\ v.stopped = worker[w].stopped /\ v.destroyed = worker[w].destroyed
    BY <1>1 DEF Worker
  <2> HIDE DEF v
  <2>3. Shape' /\ Phases' /\ Index' = Index
    BY <1>1, <1>2, <1>3, <2>1, <2>2, WorkerKeeps
  <2>4. Coroutines'
    BY <1>1, <2>1, <2>2, <2>3 DEF IInv, Coroutines
  <2> QED
    BY <2>3, <2>4 DEF IInv
<1>6. CASE BeginClean(w) \/ EndClean(w)
  <2>1. PICK h \in {"cleaner", None} : Busy(w, h)
    BY <1>6 DEF BeginClean, EndClean
  <2>2. worker[w].thread = "running"
    BY <1>6, ServerAssumption DEF BeginClean, EndClean, Ready, IInv, Coroutines
  <2>3. /\ Shape' /\ Phases' /\ Index' = Index
        /\ \A u \in Index : /\ worker'[u].thread = worker[u].thread
                            /\ worker'[u].busy = IF u = w THEN h ELSE worker[u].busy
    BY <1>1, <1>3, <2>1, <2>2, BusyKeeps
  <2>4. h \notin Connection
    BY <2>1, ServerAssumption
  <2>5. Coroutines'
    BY <1>1, <1>2, <2>2, <2>3, <2>4 DEF IInv, Coroutines
  <2> QED
    BY <2>3, <2>5 DEF IInv
<1> QED
  BY <1>4, <1>5, <1>6

(* A session takes a thread, its home's or that of the shard its job was   *)
(* posted to, or gives it back.                                            *)
LEMMA SessionBusyKeeps ==
  ASSUME IInv, NEW c \in Connection,
         \/ \E i \in Index : BeginDirect(c, i)
         \/ EndDirect(c) \/ BeginJob(c) \/ EndJob(c)
  PROVE  IInv'
<1>1. /\ session \in [Connection -> Session] /\ Index \subseteq Nat
      /\ session[c].at # "none"
  BY Numbered DEF IInv, Shape, BeginDirect, EndDirect, BeginJob, EndJob
<1>2. OnlyWorker
  BY DEF BeginDirect, EndDirect, BeginJob, EndJob
<1>3. CASE \E i \in Index : BeginDirect(c, i)
  <2> DEFINE w == session[c].home
  <2>1. PICK i \in Index : BeginDirect(c, i)
    BY <1>3
  <2>2. /\ session[c].at = "queued" /\ i = w /\ w \in Index /\ worker[w].thread = "running"
        /\ worker[w].busy = None /\ Busy(w, c)
    BY <2>1 DEF BeginDirect, Ready, is_local, IInv, Coroutines
  <2> DEFINE v == [session[c] EXCEPT !.at = "direct", !.shard = i]
  <2>3. session' = [session EXCEPT ![c] = v]
    BY <2>1 DEF BeginDirect
  <2>4. v \in Session /\ v.at = "direct" /\ v.shard = i /\ v.home = w
    BY <1>1, <2>2 DEF Session
  <2> HIDE DEF v
  <2>5. session' \in [Connection -> Session]
    BY <1>1, <2>3, <2>4
  <2>6. /\ Shape' /\ Phases' /\ Index' = Index
        /\ \A u \in Index : /\ worker'[u].thread = worker[u].thread
                            /\ worker'[u].busy = IF u = w THEN c ELSE worker[u].busy
    BY <1>2, <2>2, <2>5, BusyKeeps
  <2>7. /\ session'[c].at = "direct" /\ session'[c].shard = w /\ session'[c].home = w
        /\ \A d \in Connection \ {c} : session'[d] = session[d]
    BY <1>1, <2>2, <2>3, <2>4
  <2>8. Coroutines'
    <3>1. \A d \in Connection : session[d].at \in {"direct", "job"} => session[d].shard # w
      BY <2>2, ServerAssumption DEF IInv, Coroutines
    <3> HIDE DEF w
    <3> QED
      BY <2>2, <2>6, <2>7, <3>1, ServerAssumption DEF IInv, Coroutines
  <2> QED
    BY <2>6, <2>8 DEF IInv
<1>4. CASE BeginJob(c)
  <2> DEFINE w == session[c].shard
  <2>1. /\ w \in Index /\ worker[w].thread = "running"
        /\ worker[w].busy = None /\ Busy(w, c)
        /\ session' = [session EXCEPT ![c] = [session[c] EXCEPT !.at = "job"]]
    BY <1>4 DEF BeginJob, Move, Ready, IInv, Coroutines
  <2>2. session' \in [Connection -> Session]
    BY <1>1, <2>1 DEF Session
  <2>3. /\ Shape' /\ Phases' /\ Index' = Index
        /\ \A u \in Index : /\ worker'[u].thread = worker[u].thread
                            /\ worker'[u].busy = IF u = w THEN c ELSE worker[u].busy
    BY <1>2, <2>1, <2>2, BusyKeeps
  <2>4. /\ session'[c].at = "job" /\ session'[c].shard = w
        /\ session'[c].home = session[c].home
        /\ \A d \in Connection \ {c} : session'[d] = session[d]
    BY <1>1, <2>1 DEF Session
  <2>5. Coroutines'
    BY <1>1, <2>1, <2>3, <2>4, ServerAssumption DEF IInv, Coroutines
  <2> QED
    BY <2>3, <2>5 DEF IInv
<1>5. CASE EndDirect(c) \/ EndJob(c)
  <2> DEFINE w == session[c].shard
  <2>1. /\ w \in Index /\ worker[w].busy = c /\ Busy(w, None)
        /\ \E place \in {"queued", "result"} :
             session' = [session EXCEPT ![c] = [session[c] EXCEPT !.at = place]]
    BY <1>5 DEF EndDirect, EndJob, Move, IInv, Coroutines
  <2>2. PICK place \in {"queued", "result"} :
          session' = [session EXCEPT ![c] = [session[c] EXCEPT !.at = place]]
    BY <2>1
  <2>3. session' \in [Connection -> Session]
    BY <1>1, <2>2 DEF Session
  <2>4. worker[w].thread = "running"
    BY <2>1, ServerAssumption DEF IInv, Coroutines
  <2>5. /\ Shape' /\ Phases' /\ Index' = Index
        /\ \A u \in Index : /\ worker'[u].thread = worker[u].thread
                            /\ worker'[u].busy = IF u = w THEN None ELSE worker[u].busy
    BY <1>2, <2>1, <2>3, <2>4, BusyKeeps
  <2>6. /\ session'[c].at = place /\ session'[c].shard = w
        /\ session'[c].home = session[c].home
        /\ \A d \in Connection \ {c} : session'[d] = session[d]
    BY <1>1, <2>2 DEF Session
  <2>7. Coroutines'
    BY <1>1, <2>1, <2>5, <2>6, ServerAssumption DEF IInv, Coroutines
  <2> QED
    BY <2>5, <2>7 DEF IInv
<1> QED
  BY <1>3, <1>4, <1>5

(* A session moves between queues, or ends; no thread is busy with it. *)
LEMMA SessionMovesKeeps ==
  ASSUME IInv, NEW c \in Connection,
         Resume(c) \/ EndSession(c) \/ \E i \in Index : Post(c, i)
  PROVE  IInv'
<1>1. /\ session \in [Connection -> Session] /\ Index \subseteq Nat
      /\ UNCHANGED <<file, main, worker, stopped, next_shard, shard_index>>
      /\ Index' = Index
  BY Numbered
     DEF IInv, Shape, Resume, EndSession, Post, OnlyWorker, setup, listener, Index
<1>2. session[c].at \in {"queued", "result"} /\ session[c].home \in Index
  BY DEF Resume, EndSession, Post, IInv, Coroutines
<1>3. PICK v \in Session :
        /\ session' = [session EXCEPT ![c] = v]
        /\ v.home = session[c].home
        /\ v.at \in {"queued", "posted", "ended"}
        /\ v.at = "posted" => v.shard \in Index
  <2>1. CASE Resume(c) \/ EndSession(c)
    <3>1. PICK place \in {"queued", "ended"} : Move(c, place)
      BY <2>1 DEF Resume, EndSession
    <3> DEFINE v == [session[c] EXCEPT !.at = place]
    <3>2. session' = [session EXCEPT ![c] = v]
      BY <3>1 DEF Move
    <3>3. v \in Session /\ v.home = session[c].home /\ v.at = place
      BY <1>1 DEF Session
    <3> QED
      BY <3>2, <3>3
  <2>2. CASE \E i \in Index : Post(c, i)
    <3>1. PICK i \in Index : Post(c, i)
      BY <2>2
    <3> DEFINE v == [session[c] EXCEPT !.at = "posted", !.shard = i]
    <3>2. session' = [session EXCEPT ![c] = v]
      BY <3>1 DEF Post
    <3>3. v \in Session /\ v.home = session[c].home /\ v.at = "posted" /\ v.shard = i
      BY <1>1 DEF Session
    <3> QED
      BY <3>2, <3>3
  <2> QED
    BY <2>1, <2>2
<1>4. Shape'
  BY <1>1, <1>3 DEF IInv, Shape
<1>5. Phases'
  BY <1>1 DEF IInv, Phases
<1>6. Coroutines'
  <2>1. session'[c] = v /\ \A d \in Connection \ {c} : session'[d] = session[d]
    BY <1>1, <1>3
  <2>2. \A w \in Index : worker[w].busy # c
    BY <1>2 DEF IInv, Coroutines
  <2> QED
    BY <1>1, <1>2, <1>3, <2>1, <2>2 DEF IInv, Coroutines
<1> QED
  BY <1>4, <1>5, <1>6 DEF IInv

-----------------------------------------------------------------------------
(* Every step of the process preserves the invariant. *)
LEMMA NextKeeps == IInv /\ [Next]_vars => IInv'
<1> SUFFICES ASSUME IInv, [Next]_vars PROVE IInv'
  OBVIOUS
<1>1. CASE MainStep
  BY <1>1, MainMovesKeeps, ConstructKeeps, StartKeeps, LoopsKeep DEF MainStep
<1>2. CASE HandleSignal
  BY <1>2, MainMovesKeeps
<1>3. CASE AcceptError \/ Signal
  BY <1>3, ListenerKeeps
<1>4. ASSUME NEW c \in Connection,
             \/ Accept(c) \/ BeginJob(c) \/ Resume(c) \/ EndSession(c)
             \/ \E i \in Index : BeginDirect(c, i) \/ Post(c, i)
      PROVE  IInv'
  BY <1>4, ListenerKeeps, SessionBusyKeeps, SessionMovesKeeps
<1>5. ASSUME NEW w \in Index,
             BeginThread(w) \/ BeginClean(w) \/ EndHandler(w) \/ EndThread(w)
      PROVE  IInv'
  BY <1>5, ThreadKeeps, SessionBusyKeeps DEF EndHandler
<1>6. CASE UNCHANGED vars
  <2>1. UNCHANGED <<file, main, worker, stopped, next_shard, shard_index, session>>
        /\ Index' = Index
    BY <1>6 DEF vars, setup, listener, Index
  <2> QED
    BY <2>1 DEF IInv, Shape, Phases, Coroutines
<1> QED
  BY <1>1, <1>2, <1>3, <1>4, <1>5, <1>6 DEF Next

(* The places of the main thread, the states of the workers and the places *)
(* of the sessions' coroutines fit together in every state of the process. *)
THEOREM Invariance == Spec => []IInv
<1> QED
  BY InitIInv, NextKeeps, PTL DEF Spec

(* The main thread's loops stay within the workers, the listener's index   *)
(* is a worker's, and a session that is on a thread is what that thread    *)
(* runs.                                                                   *)
THEOREM TypeCorrect == Spec => []TypeOK
<1>1. IInv => TypeOK
  <2> SUFFICES ASSUME IInv PROVE TypeOK
    OBVIOUS
  <2>1. \A c \in Connection : session[c] \in Session
    BY DEF IInv, Shape
  <2> QED
    BY <2>1 DEF IInv, Shape, Coroutines, TypeOK, Place, Session
<1> QED
  BY <1>1, Invariance, PTL

(* ShardPool::stop joins every thread that was started before the first    *)
(* worker is destroyed, and by then no handler runs.                       *)
THEOREM JoinedFirst == Spec => []JoinedBeforeDestroyed
<1>1. IInv => JoinedBeforeDestroyed
  BY DEF IInv, Phases, Coroutines, JoinedBeforeDestroyed
<1> QED
  BY <1>1, Invariance, PTL

-----------------------------------------------------------------------------
(* The refinement of SerialShards.                                         *)

(* Who uses shard i, read off the worker alone. *)
Handler(i) == IF i \notin Index THEN "unborn"
              ELSE IF worker[i].destroyed THEN "gone"
              ELSE IF worker[i].busy = None THEN "free"
              ELSE worker[i].busy

Owned == \A i \in 0 .. UInt16Size - 1 : Use(i) = Handler(i)

(* The sessions and the cleaner that use a shard are the handler its       *)
(* worker's thread is busy with: there is never a second.                  *)
LEMMA OneUser == IInv => Owned
<1> SUFFICES ASSUME IInv, NEW i \in 0 .. UInt16Size - 1 PROVE Use(i) = Handler(i)
  BY DEF Owned
<1>1. CASE i \notin Index
  BY <1>1 DEF Use, Handler
<1>2. CASE i \in Index /\ worker[i].busy = None
  <2>1. Users(i) = {}
    BY <1>2, ServerAssumption DEF Users, IInv, Coroutines
  <2> QED
    BY <1>2, <2>1 DEF Use, Handler
<1>3. CASE i \in Index /\ worker[i].busy # None
  <2>1. worker[i].busy \in Connection \cup {"cleaner"}
    BY <1>3 DEF IInv, Shape, Worker
  <2>2. Users(i) = {worker[i].busy}
    BY <1>3, <2>1, ServerAssumption DEF Users, IInv, Coroutines
  <2>3. Cardinality(Users(i)) = 1 /\ (CHOOSE u \in Users(i) : TRUE) = worker[i].busy
    BY <2>2, FS_Singleton
  <2> QED
    BY <1>3, <2>2, <2>3 DEF Use, Handler
<1> QED
  BY <1>1, <1>2, <1>3

use == [i \in 0 .. UInt16Size - 1 |-> Use(i)]

(* A step that changes the user of one shard at most. *)
LEMMA OneShardChanges ==
  ASSUME Owned, Owned', Index' = Index, NEW i \in Index, Index \subseteq 0 .. UInt16Size - 1,
         \A w \in Index \ {i} : /\ worker'[w].busy = worker[w].busy
                                /\ worker'[w].destroyed = worker[w].destroyed
  PROVE  use' = [use EXCEPT ![i] = Handler(i)'] /\ use[i] = Handler(i)
<1>1. \A j \in 0 .. UInt16Size - 1 : use[j] = Handler(j) /\ use'[j] = Handler(j)'
  BY DEF use, Owned
<1>2. \A j \in 0 .. UInt16Size - 1 : j # i => Handler(j)' = Handler(j)
  BY DEF Handler
<1>3. use' = [j \in 0 .. UInt16Size - 1 |-> use'[j]]
      /\ use = [j \in 0 .. UInt16Size - 1 |-> use[j]]
  BY DEF use
<1> QED
  BY <1>1, <1>2, <1>3

(* A step that begins and ends no handler changes the user of no shard. *)
LEMMA NoShardChanges ==
  ASSUME Owned, Owned', Index' = Index,
         \A w \in Index : /\ worker'[w].busy = worker[w].busy
                          /\ worker'[w].destroyed = worker[w].destroyed
  PROVE  use' = use
<1>1. \A j \in 0 .. UInt16Size - 1 : Use(j) = Handler(j) /\ Use(j)' = Handler(j)'
  BY DEF Owned
<1>2. \A j \in 0 .. UInt16Size - 1 : Handler(j)' = Handler(j)
  BY DEF Handler
<1> QED
  BY <1>1, <1>2 DEF use

(* The handler that begins enters a free shard, and the one that ends      *)
(* leaves it.                                                              *)
LEMMA EnterOrLeave ==
  ASSUME IInv, Owned, Owned', NEW w \in Index, worker[w].thread = "running",
         NEW h \in Connection \cup {"cleaner", None}, Busy(w, h)
  PROVE  /\ worker[w].busy = None /\ h # None => Serial!Enter(w, h)
         /\ worker[w].busy # None /\ h = None => Serial!Leave(w)
<1>1. worker \in [Index -> Worker] /\ Index \subseteq 0 .. UInt16Size - 1
  BY Numbered DEF IInv, Shape
<1>2. /\ Index' = Index
      /\ \A u \in Index \ {w} : worker'[u] = worker[u]
      /\ worker'[w].busy = h /\ worker'[w].destroyed = worker[w].destroyed
  BY <1>1 DEF Busy, Index, Worker
<1>3. ~ worker[w].destroyed
  BY DEF IInv, Phases
<1>4. use' = [use EXCEPT ![w] = Handler(w)'] /\ use[w] = Handler(w)
  BY <1>1, <1>2, OneShardChanges
<1>5. Handler(w)' = (IF h = None THEN "free" ELSE h)
      /\ Handler(w) = (IF worker[w].busy = None THEN "free" ELSE worker[w].busy)
  BY <1>2, <1>3 DEF Handler
<1>6. worker[w].busy # None => worker[w].busy \in Connection \cup {"cleaner"}
  BY <1>1 DEF Worker
<1>7. ASSUME worker[w].busy = None, h # None PROVE Serial!Enter(w, h)
  <2>1. use[w] = "free" /\ use' = [use EXCEPT ![w] = h]
    BY <1>4, <1>5, <1>7
  <2> QED
    BY <2>1 DEF Serial!Enter, use
<1>8. ASSUME worker[w].busy # None, h = None PROVE Serial!Leave(w)
  <2>1. use[w] \in Connection \cup {"cleaner"} /\ use' = [use EXCEPT ![w] = "free"]
    BY <1>4, <1>5, <1>6, <1>8
  <2> QED
    BY <2>1 DEF Serial!Leave, use
<1> QED
  BY <1>7, <1>8

(* Every step of the process is a step of SerialShards, or leaves the use  *)
(* of the shards as it is.                                                 *)
LEMMA SerialStep ==
  ASSUME IInv, Owned, Owned', [Next]_vars
  PROVE  Serial!Next \/ use' = use
<1>1. worker \in [Index -> Worker] /\ Index \subseteq 0 .. UInt16Size - 1
  BY Numbered DEF IInv, Shape
<1>2. CASE Construct
  <2>1. Index = {}
    BY <1>2 DEF Construct, IInv, Shape
  <2>2. \A i \in 0 .. UInt16Size - 1 : use[i] = "unborn"
    BY <2>1 DEF use, Owned, Handler
  <2>3. \A i \in Index' : worker'[i] = NewWorker
    BY <1>2 DEF Construct, Index
  <2>4. \A i \in 0 .. UInt16Size - 1 : Handler(i)' \in {"unborn", "free"}
    BY <2>3 DEF Handler, NewWorker
  <2>5. use' \in [0 .. UInt16Size - 1 -> {"unborn", "free"}]
    BY <2>4 DEF use, Owned
  <2> QED
    BY <2>2, <2>5 DEF Serial!Next, Serial!Construct, use
<1>3. CASE Destroy
  <2>1. PICK i \in Index : i = main.i
    BY <1>3 DEF Destroy, IInv, Shape
  <2>2. Index' = Index /\ ~ worker[i].destroyed /\ worker[i].busy = None
    BY <1>3, <2>1, Numbered DEF Destroy, IInv, Shape, Phases, Coroutines, Index
  <2>3. (\A u \in Index \ {i} : worker'[u] = worker[u]) /\ worker'[i].destroyed
    BY <1>1, <1>3, <2>1 DEF Destroy, Worker
  <2>4. use' = [use EXCEPT ![i] = Handler(i)'] /\ use[i] = Handler(i)
    BY <1>1, <2>2, <2>3, OneShardChanges
  <2>5. Handler(i) = "free" /\ Handler(i)' = "gone"
    BY <2>2, <2>3 DEF Handler
  <2>6. Serial!Destroy(i)
    BY <2>4, <2>5 DEF Serial!Destroy, use
  <2> QED
    BY <1>1, <2>6 DEF Serial!Next
<1>4. ASSUME NEW w \in Index, worker[w].thread = "running", NEW h \in Connection \cup {"cleaner", None},
             Busy(w, h), (worker[w].busy = None) # (h = None)
      PROVE  Serial!Next
  BY <1>1, <1>4, EnterOrLeave DEF Serial!Next
<1>5. ASSUME Index' = Index,
             \A w \in Index : /\ worker'[w].busy = worker[w].busy
                              /\ worker'[w].destroyed = worker[w].destroyed
      PROVE  use' = use
  BY <1>5, NoShardChanges
<1>6. CASE Start \/ StopWorker \/ Join
  <2>1. main.i \in Index
    BY <1>6 DEF Start, StopWorker, Join, IInv, Shape
  <2> QED
    BY <1>1, <1>5, <1>6, <2>1 DEF Start, StopWorker, Join, Index, Worker
<1>7. CASE MainStep
  <2>1. CASE ParseFails \/ Listen \/ Return
    BY <1>5, <2>1 DEF ParseFails, Listen, Return, Index
  <2> QED
    BY <1>2, <1>3, <1>6, <1>7, <2>1 DEF MainStep
<1>8. CASE HandleSignal \/ AcceptError \/ Signal \/ UNCHANGED vars
  BY <1>5, <1>8 DEF HandleSignal, AcceptError, Signal, vars, Index
<1>9. ASSUME NEW c \in Connection,
             \/ Accept(c) \/ Resume(c) \/ EndSession(c)
             \/ \E i \in Index : Post(c, i)
      PROVE  use' = use
  BY <1>5, <1>9 DEF Accept, Resume, EndSession, Post, Index
<1>10. ASSUME NEW c \in Connection, BeginJob(c) \/ \E i \in Index : BeginDirect(c, i)
       PROVE  Serial!Next
  <2>1. PICK w \in Index : worker[w].thread = "running" /\ worker[w].busy = None /\ Busy(w, c)
    BY <1>10 DEF BeginJob, BeginDirect, Ready, IInv, Coroutines
  <2> QED
    BY <1>4, <2>1, ServerAssumption
<1>11. ASSUME NEW w \in Index, BeginClean(w) \/ EndHandler(w)
       PROVE  Serial!Next
  <2>1. CASE BeginClean(w)
    BY <1>4, <2>1, ServerAssumption DEF BeginClean, Ready
  <2>2. CASE EndHandler(w)
    <3>1. worker[w].busy # None /\ Busy(w, None)
      BY <2>2, ServerAssumption
         DEF EndHandler, EndClean, EndDirect, EndJob, IInv, Coroutines
    <3>2. worker[w].thread = "running"
      BY <3>1 DEF IInv, Coroutines
    <3> QED
      BY <1>4, <3>1, <3>2
  <2> QED
    BY <1>11, <2>1, <2>2
<1>12. ASSUME NEW w \in Index, BeginThread(w) \/ EndThread(w)
       PROVE  use' = use
  BY <1>1, <1>5, <1>12 DEF BeginThread, EndThread, Index, Worker
<1> QED
  BY <1>7, <1>8, <1>9, <1>10, <1>11, <1>12 DEF Next

(* Handlers of the workers' threads, however they overlap, never use a     *)
(* shard two at a time, nor one that is not yet or no longer there.        *)
THEOREM Serialized == Spec => ShardsSerial
<1>1. Init => Serial!Init
  <2> SUFFICES ASSUME Init PROVE Serial!Init
    OBVIOUS
  <2>1. Index = {}
    BY DEF Init, Index
  <2> QED
    BY <2>1 DEF Serial!Init, Use
<1>2. IInv /\ Owned /\ Owned' /\ [Next]_vars => [Serial!Next]_use
  BY SerialStep
<1>3. Spec => []Owned
  BY Invariance, OneUser, PTL
<1> QED
  BY <1>1, <1>2, <1>3, Invariance, PTL DEF Spec, ShardsSerial, Serial!Spec, use

-----------------------------------------------------------------------------
(* The configuration.                                                      *)

(* What a modulo leaves of a number. *)
LEMMA Modulo ==
  ASSUME NEW n \in Nat, NEW m \in Nat, m > 0
  PROVE  n % m \in 0 .. m - 1 /\ n % m <= n /\ (n < m => n % m = n)
<1>1. n % m \in 0 .. m - 1
  OBVIOUS
<1>2. n < m => n % m = n
  OBVIOUS
<1> QED
  BY <1>1, <1>2

(* The constructor makes a worker at least, no more than config.toml asks  *)
(* for and as many as it asks for when a uint16_t can hold the number; no  *)
(* limit is zero.                                                          *)
THEOREM ConfigurationSane == Spec => ConfigSane
<1> DEFINE asked == Asked(file.shard_count, 1)
           Sane  == /\ size' >= 1 /\ (size' > 1 => size' <= asked)
                    /\ asked \in 1 .. UInt16Size - 1 => size' = asked
                    /\ config'.max_memory_bytes_per_shard > 0
                    /\ config'.max_message_size > 0
<1>1. IInv /\ Construct => Sane
  <2> SUFFICES ASSUME IInv, Construct PROVE Sane
    OBVIOUS
  <2>1. /\ file.shard_count \in Int \cup {Absent}
        /\ file.max_message_size \in Int \cup {Absent}
        /\ file.max_memory_bytes_per_shard \in Int \cup {Absent}
    BY ServerAssumption DEF Construct, IInv, Shape
  <2> DEFINE p == Positive(value_or(file.shard_count, 1), 1)
             n == config'.shard_count
  <2>2. p \in Nat /\ p >= 1 /\ asked \in Int /\ (p > 1 => p <= asked)
        /\ (asked \in 1 .. UInt16Size - 1 => p = asked)
    BY <2>1, WidthAssumption DEF Positive, value_or, Asked
  <2>3. n = p % UInt16Size
    BY DEF Construct, get_config
  <2> HIDE DEF p
  <2>4. n \in 0 .. UInt16Size - 1 /\ n <= p /\ (p < UInt16Size => n = p)
    BY <2>2, <2>3, Modulo, WidthAssumption
  <2>5. size' = WorkerCount(n) /\ WorkerCount(n) \in Nat
    <3>1. Index' = 0 .. WorkerCount(n) - 1
      BY DEF Construct, Index
    <3>2. WorkerCount(n) \in Nat /\ WorkerCount(n) >= 1
      BY <2>4, WidthAssumption DEF WorkerCount
    <3> QED
      BY <3>1, <3>2, FS_Interval DEF size
  <2>6. size' >= 1 /\ (size' > 1 => size' <= asked)
        /\ (asked \in 1 .. UInt16Size - 1 => size' = asked)
    BY <2>2, <2>4, <2>5, WidthAssumption DEF WorkerCount
  <2>7. config'.max_memory_bytes_per_shard > 0 /\ config'.max_message_size > 0
    BY <2>1, WidthAssumption DEF Construct, get_config, Positive, value_or
  <2> QED
    BY <2>6, <2>7
<1>2. IInv /\ [Next]_vars => [Construct => Sane]_vars
  BY <1>1
<1> QED
  BY <1>2, Invariance, PTL DEF Spec, ConfigSane

-----------------------------------------------------------------------------
(* The balance of the connections.                                         *)

(* The remainder follows a number within its row and from row to row. *)
LEMMA Remainder ==
  ASSUME NEW n \in Nat, n > 0, NEW q \in Nat, NEW r \in 0 .. n - 1
  PROVE  (n * q + r) % n = r
OBVIOUS

(* A number is in some row, at the place its remainder gives. *)
LEMMA Rows ==
  ASSUME NEW n \in Nat, n > 0, NEW k \in Nat
  PROVE  \E q \in Nat : k = n * q + (k % n)
OBVIOUS

(* A shift that stays in the row shifts the remainder. *)
LEMMA Shift ==
  ASSUME NEW n \in Nat, n > 0, NEW k \in Nat, NEW d \in Int, (k % n) + d \in 0 .. n - 1
  PROVE  (k + d) % n = (k % n) + d
<1>1. PICK q \in Nat : k = n * q + (k % n)
  BY Rows
<1>2. k % n \in Nat /\ k + d = n * q + ((k % n) + d)
  BY <1>1, Modulo
<1>3. (n * q + ((k % n) + d)) % n = (k % n) + d
  BY Remainder
<1> QED
  BY <1>2, <1>3

(* The number one row earlier has the same remainder. *)
LEMMA RowBefore ==
  ASSUME NEW n \in Nat, n > 0, NEW k \in Nat, k >= n
  PROVE  (k - n) % n = k % n
<1>1. PICK q \in Nat : k = n * q + (k % n)
  BY Rows
<1>2. k % n \in 0 .. n - 1
  BY Modulo
<1>3. q # 0
  BY <1>1, <1>2
<1>4. q - 1 \in Nat /\ n * (q - 1) = n * q - n
  BY <1>3
<1>5. k - n = n * (q - 1) + (k % n)
  BY <1>1, <1>2, <1>4
<1>6. (n * (q - 1) + (k % n)) % n = k % n
  BY <1>2, <1>4, Remainder
<1> QED
  BY <1>5, <1>6

(* The turns of the first t that were worker i's, of n workers. *)
Taken(i, t, n) == {k \in 0 .. t - 1 : k % n = i}

(* The turns of a worker can be counted. *)
LEMMA TakenFinite ==
  ASSUME NEW t \in Nat, NEW n \in Nat, NEW i
  PROVE  IsFiniteSet(Taken(i, t, n)) /\ Cardinality(Taken(i, t, n)) \in Nat
<1>1. IsFiniteSet(0 .. t - 1) /\ Taken(i, t, n) \in SUBSET (0 .. t - 1)
  BY FS_Interval DEF Taken
<1> QED
  BY <1>1, FS_Subset, FS_CardinalityType

(* An earlier worker has had as many turns as a later one, if not one more. *)
LEMMA TurnByTurn ==
  ASSUME NEW t \in Nat, NEW n \in Nat, n > 0, NEW i \in 0 .. n - 1, NEW j \in 0 .. n - 1
  PROVE  Cardinality(Taken(i, t, n)) <= Cardinality(Taken(j, t, n)) + 1
<1>1. IsFiniteSet(Taken(i, t, n)) /\ Cardinality(Taken(i, t, n)) \in Nat
      /\ IsFiniteSet(Taken(j, t, n)) /\ Cardinality(Taken(j, t, n)) \in Nat
  BY TakenFinite
<1>2. CASE j <= i
  <2> DEFINE f == [k \in Taken(i, t, n) |-> k + (j - i)]
  <2>1. \A k \in Taken(i, t, n) : k + (j - i) \in Taken(j, t, n)
    <3> SUFFICES ASSUME NEW k \in Taken(i, t, n) PROVE k + (j - i) \in Taken(j, t, n)
      OBVIOUS
    <3>1. k \in 0 .. t - 1 /\ k % n = i /\ k >= i
      BY Modulo DEF Taken
    <3>2. (k + (j - i)) % n = j
      BY <3>1, Shift
    <3> QED
      BY <1>2, <3>1, <3>2 DEF Taken
  <2>2. f \in Injection(Taken(i, t, n), Taken(j, t, n))
    <3>1. Taken(i, t, n) \subseteq Int
      BY DEF Taken
    <3>2. f \in [Taken(i, t, n) -> Taken(j, t, n)]
      BY <2>1
    <3>3. IsInjective(f)
      BY <3>1 DEF IsInjective
    <3> QED
      BY <3>2, <3>3 DEF Injection
  <2>3. Cardinality(Taken(i, t, n)) <= Cardinality(Taken(j, t, n))
    BY <1>1, <2>2, FS_Injection
  <2> QED
    BY <1>1, <2>3
<1>3. CASE i < j
  <2> DEFINE later == Taken(i, t, n) \ {i}
             f     == [k \in later |-> (k - n) + (j - i)]
  <2>1. \A k \in later : (k - n) + (j - i) \in Taken(j, t, n)
    <3> SUFFICES ASSUME NEW k \in later PROVE (k - n) + (j - i) \in Taken(j, t, n)
      OBVIOUS
    <3>1. k \in 0 .. t - 1 /\ k % n = i /\ k # i
      BY DEF Taken
    <3>2. k >= n
      BY <3>1, Modulo
    <3>3. (k - n) % n = i
      BY <3>1, <3>2, RowBefore
    <3>4. ((k - n) + (j - i)) % n = j
      <4>1. k - n \in Nat /\ j - i \in Int /\ ((k - n) % n) + (j - i) = j
        BY <3>1, <3>2, <3>3
      <4> QED
        BY <4>1, Shift
    <3> QED
      BY <1>3, <3>1, <3>2, <3>4 DEF Taken
  <2>2. f \in Injection(later, Taken(j, t, n))
    <3>1. later \subseteq Int
      BY DEF Taken
    <3>2. f \in [later -> Taken(j, t, n)]
      BY <2>1
    <3>3. IsInjective(f)
      BY <3>1 DEF IsInjective
    <3> QED
      BY <3>2, <3>3 DEF Injection
  <2>3. Cardinality(later) <= Cardinality(Taken(j, t, n))
    BY <1>1, <2>2, FS_Injection
  <2>4. IsFiniteSet(later) /\ Cardinality(later) >= Cardinality(Taken(i, t, n)) - 1
    BY <1>1, FS_RemoveElement
  <2>5. Cardinality(later) \in Nat
    BY <2>4, FS_CardinalityType
  <2> QED
    BY <1>1, <2>3, <2>4, <2>5
<1> QED
  BY <1>2, <1>3

Homed(i) == {c \in Connection : session[c].home = i}
Homes    == {c \in Connection : session[c].home # None}

(* The counter is one ahead of the turns that have completed, the worker   *)
(* of the turn that is under way is the one the counter named, and what a  *)
(* worker has had are its turns, less failed accepts at most.              *)
Counters ==
  /\ turns \in 0 .. MaxTurns
  /\ \A c \in Connection : session[c].at = "none" <=> session[c].home = None
  /\ main.at \in {"main", "listen", "start"} => next_shard = 0 /\ turns = 0 /\ Homes = {}
  /\ main.at = "run" /\ turns < MaxTurns =>
       next_shard = turns + 1 /\ shard_index = turns % size

Accounts ==
  /\ IsFiniteSet(Homes)
  /\ turns < MaxTurns =>
       \A i \in Index :
         LET had == Cardinality(Taken(i, turns, size))
         IN  /\ Cardinality(Homed(i)) <= had
             /\ had <= Cardinality(Homed(i)) + (turns - Cardinality(Homes))

BInv == IInv /\ Counters /\ Accounts

(* Before the first accept nothing is counted and nobody is connected. *)
LEMMA InitBInv == Init => BInv
<1> SUFFICES ASSUME Init PROVE BInv
  OBVIOUS
<1>1. IInv
  BY InitIInv
<1>2. Index = {} /\ Homes = {} /\ \A c \in Connection : session[c] = NoSession
  BY DEF Init, Index, Homes, NoSession
<1>3. Counters
  BY <1>2, ServerAssumption DEF Init, Counters, At, NoSession
<1>4. Accounts
  BY <1>2, FS_EmptySet DEF Accounts
<1> QED
  BY <1>1, <1>3, <1>4 DEF BInv

(* A step that neither takes a turn nor gives a session a home. *)
LEMMA Uncounted ==
  ASSUME BInv, Index' = Index, UNCHANGED <<turns, next_shard, shard_index>>,
         \A c \in Connection : /\ session'[c].home = session[c].home
                               /\ session'[c].at = "none" <=> session[c].at = "none",
         main'.at = "run" => main.at = "run",
         main'.at \in {"main", "listen", "start"} => main.at \in {"main", "listen", "start"}
  PROVE  Counters' /\ Accounts'
<1>1. Homes' = Homes /\ size' = size /\ \A i : Homed(i)' = Homed(i)
  BY DEF Homes, Homed, size
<1>2. Counters'
  BY <1>1 DEF BInv, Counters
<1>3. Accounts'
  BY <1>1 DEF BInv, Accounts
<1> QED
  BY <1>2, <1>3

(* The workers are constructed before the first turn. *)
LEMMA ConstructBalanced ==
  ASSUME BInv, Construct
  PROVE  Counters' /\ Accounts'
<1>1. Homes = {} /\ turns = 0 /\ next_shard = 0
      /\ UNCHANGED <<turns, next_shard, session>> /\ main'.at = "listen"
  BY DEF BInv, Counters, Construct, listener, At
<1>2. Homes' = {} /\ \A i \in Index' : Homed(i)' = {}
  <2>1. Shape'
    BY ConstructKeeps DEF BInv, IInv
  <2>2. Index' \subseteq Nat
    BY <2>1 DEF Shape
  <2> QED
    BY <1>1, <2>2, ServerAssumption DEF Homes, Homed
<1>3. \A i \in Index' : Taken(i, turns, size)' = {}
  BY <1>1 DEF Taken
<1>4. Counters'
  BY <1>1, <1>2 DEF BInv, Counters
<1>5. Accounts'
  BY <1>1, <1>2, <1>3, FS_EmptySet DEF Accounts
<1> QED
  BY <1>4, <1>5

(* The last turn of start is the first of the listener. *)
LEMMA StartBalanced ==
  ASSUME BInv, Start
  PROVE  Counters' /\ Accounts'
<1>1. /\ Index' = Index /\ size' = size /\ UNCHANGED <<session, turns>>
      /\ Homes' = Homes /\ \A i : Homed(i)' = Homed(i)
      /\ turns = 0 /\ next_shard = 0 /\ Homes = {}
  BY DEF BInv, IInv, Shape, Counters, Start, Index, size, Homes, Homed
<1>2. Accounts'
  BY <1>1 DEF BInv, Accounts
<1>3. \/ main'.at = "start" /\ next_shard' = 0
      \/ main'.at = "run" /\ (turns < MaxTurns => next_shard' = 1) /\ shard_index' = 0 % size
  <2>1. MaxTurns > 0 => (0 + 1) % CounterSize = 1
    BY Modulo, ServerAssumption
  <2> QED
    BY <1>1, <2>1, ServerAssumption DEF Start, Turn, At
<1>4. Counters'
  <2>1. turns' = 0 /\ turns' \in 0 .. MaxTurns
    BY <1>1, ServerAssumption
  <2>2. \A c \in Connection : session'[c].at = "none" <=> session'[c].home = None
    BY <1>1 DEF BInv, Counters
  <2> QED
    BY <1>1, <1>3, <2>1, <2>2 DEF Counters
<1> QED
  BY <1>2, <1>4

(* A turn adds to the turns of the worker whose it was. *)
LEMMA TakenGrows ==
  ASSUME NEW t \in Nat, NEW n \in Nat, n > 0, NEW i
  PROVE  Cardinality(Taken(i, t + 1, n))
           = Cardinality(Taken(i, t, n)) + (IF t % n = i THEN 1 ELSE 0)
<1>1. IsFiniteSet(Taken(i, t, n)) /\ Cardinality(Taken(i, t, n)) \in Nat
      /\ t \notin Taken(i, t, n)
  <2>1. t \notin Taken(i, t, n)
    BY DEF Taken
  <2> QED
    BY <2>1, TakenFinite
<1>2. CASE t % n = i
  <2>1. Taken(i, t + 1, n) = Taken(i, t, n) \cup {t}
    BY <1>2 DEF Taken
  <2> QED
    BY <1>1, <1>2, <2>1, FS_AddElement
<1>3. CASE t % n # i
  <2>1. Taken(i, t + 1, n) = Taken(i, t, n)
    BY <1>3 DEF Taken
  <2> QED
    BY <1>1, <1>3, <2>1
<1> QED
  BY <1>2, <1>3

(* A connection is accepted for the worker of the turn, or the turn fails. *)
LEMMA ListenerBalanced ==
  ASSUME BInv, AcceptError \/ \E c \in Connection : Accept(c)
  PROVE  Counters' /\ Accounts'
<1> DEFINE failing == Homes' = Homes /\ \A i \in Index : Homed(i)' = Homed(i)
           taken   == \E c \in Connection \ Homes :
                        /\ Homes' = Homes \cup {c}
                        /\ \A i \in Index :
                             Homed(i)' = IF i = shard_index THEN Homed(i) \cup {c} ELSE Homed(i)
<1>1. /\ Index' = Index /\ size' = size /\ main' = main /\ main.at = "run" /\ Turn /\ Counted
      /\ size \in Nat /\ size > 0 /\ Index = 0 .. size - 1 /\ None \notin Index
      /\ shard_index \in Index /\ session \in [Connection -> Session]
      /\ MaxTurns \in Nat /\ CounterSize \in Nat /\ MaxTurns < CounterSize
  BY Numbered, ServerAssumption
     DEF AcceptError, Accept, Index, size, BInv, IInv, Shape, Phases
<1>2. /\ failing \/ taken
      /\ \A c \in Connection : session'[c].at = "none" <=> session'[c].home = None
  <2>1. CASE AcceptError
    BY <2>1 DEF AcceptError, Homes, Homed, BInv, Counters
  <2>2. ASSUME NEW c \in Connection, Accept(c)
        PROVE  /\ taken
               /\ \A d \in Connection : session'[d].at = "none" <=> session'[d].home = None
    <3>1. /\ session[c].home = None
          /\ session'[c].at = "queued" /\ session'[c].home = shard_index
          /\ \A d \in Connection \ {c} : session'[d] = session[d]
      BY <1>1, <2>2 DEF Accept, BInv, Counters
    <3>2. c \in Connection \ Homes /\ Homes' = Homes \cup {c}
      BY <1>1, <3>1 DEF Homes
    <3>3. \A i \in Index : Homed(i)' = IF i = shard_index THEN Homed(i) \cup {c} ELSE Homed(i)
      BY <1>1, <3>1 DEF Homed
    <3> QED
      BY <1>1, <3>1, <3>2, <3>3 DEF BInv, Counters
  <2> QED
    BY <2>1, <2>2
<1>3. turns \in Nat /\ turns' \in 0 .. MaxTurns /\ (turns' < MaxTurns => turns < MaxTurns)
      /\ (turns < MaxTurns => turns' = turns + 1)
  BY <1>1 DEF BInv, Counters, Counted
<1>4. turns' < MaxTurns => next_shard' = turns' + 1 /\ shard_index' = turns' % size
  <2> SUFFICES ASSUME turns' < MaxTurns
               PROVE  next_shard' = turns' + 1 /\ shard_index' = turns' % size
    OBVIOUS
  <2>1. next_shard = turns + 1 /\ turns' = turns + 1
    BY <1>1, <1>3 DEF BInv, Counters
  <2>2. (next_shard + 1) % CounterSize = next_shard + 1
    BY <1>1, <1>3, <2>1, Modulo
  <2> QED
    BY <1>1, <2>1, <2>2 DEF Turn
<1>5. Counters'
  BY <1>1, <1>2, <1>3, <1>4 DEF Counters
<1>6. IsFiniteSet(Homes) /\ Cardinality(Homes) \in Nat
      /\ \A i \in Index : IsFiniteSet(Homed(i)) /\ Cardinality(Homed(i)) \in Nat
                          /\ Homed(i) \subseteq Homes
  <2>1. IsFiniteSet(Homes)
    BY DEF BInv, Accounts
  <2>2. \A i \in Index : Homed(i) \in SUBSET Homes
    BY <1>1 DEF Homed, Homes
  <2> QED
    BY <2>1, <2>2, FS_Subset, FS_CardinalityType
<1>7. IsFiniteSet(Homes')
  BY <1>2, <1>6, FS_AddElement
<1>8. ASSUME turns' < MaxTurns, NEW i \in Index
      PROVE  /\ Cardinality(Homed(i))' <= Cardinality(Taken(i, turns, size))'
             /\ Cardinality(Taken(i, turns, size))'
                  <= Cardinality(Homed(i))' + (turns' - Cardinality(Homes)')
  <2> DEFINE had == Cardinality(Taken(i, turns, size))
             own == IF i = shard_index THEN 1 ELSE 0
  <2>1. shard_index = turns % size /\ turns' = turns + 1
    BY <1>1, <1>3, <1>8 DEF BInv, Counters
  <2>2. had \in Nat /\ Cardinality(Taken(i, turns, size))' = had + own
    BY <1>1, <1>3, <2>1, TakenFinite, TakenGrows
  <2>3. /\ Cardinality(Homed(i)) <= had
        /\ had <= Cardinality(Homed(i)) + (turns - Cardinality(Homes))
    BY <1>3, <1>8 DEF BInv, Accounts
  <2>4. CASE failing
    BY <1>3, <1>6, <2>1, <2>2, <2>3, <2>4
  <2>5. CASE taken
    <3>1. PICK c \in Connection \ Homes :
            /\ Homes' = Homes \cup {c}
            /\ \A j \in Index :
                 Homed(j)' = IF j = shard_index THEN Homed(j) \cup {c} ELSE Homed(j)
      BY <2>5
    <3>2. Cardinality(Homes') = Cardinality(Homes) + 1
      BY <1>6, <3>1, FS_AddElement
    <3>3. Cardinality(Homed(i)') = Cardinality(Homed(i)) + own
      BY <1>6, <3>1, FS_AddElement
    <3> QED
      BY <1>3, <1>6, <2>1, <2>2, <2>3, <3>2, <3>3
  <2> QED
    BY <1>2, <2>4, <2>5
<1>9. Accounts'
  BY <1>1, <1>7, <1>8 DEF Accounts
<1> QED
  BY <1>5, <1>9

(* Every step of the process keeps the account of the turns. *)
LEMMA NextBalanced == BInv /\ [Next]_vars => BInv'
<1> SUFFICES ASSUME BInv, [Next]_vars PROVE Counters' /\ Accounts'
  BY NextKeeps DEF BInv
<1>1. session \in [Connection -> Session] /\ main \in [at : Place, i : Nat]
  BY DEF BInv, IInv, Shape
<1>2. CASE Construct
  BY <1>2, ConstructBalanced
<1>3. CASE Start
  BY <1>3, StartBalanced
<1>4. CASE AcceptError \/ \E c \in Connection : Accept(c)
  BY <1>4, ListenerBalanced
<1>5. CASE ParseFails \/ Listen \/ HandleSignal \/ Signal \/ Return \/ UNCHANGED vars
  <2>1. UNCHANGED <<worker, session, turns, next_shard, shard_index>> /\ Index' = Index
    BY <1>5 DEF ParseFails, Listen, HandleSignal, Signal, Return, vars, listener, Index
  <2>2. /\ main'.at = "run" => main.at = "run"
        /\ main'.at \in {"main", "listen", "start"} => main.at \in {"main", "listen", "start"}
    BY <1>5 DEF ParseFails, Listen, HandleSignal, Signal, Return, vars, At
  <2> QED
    BY <2>1, <2>2, Uncounted
<1>6. CASE StopWorker \/ Join \/ Destroy
  <2>1. UNCHANGED <<session, turns, next_shard, shard_index>> /\ Index' = Index
    BY <1>6 DEF StopWorker, Join, Destroy, listener, Index, BInv, IInv, Shape
  <2>2. main'.at \notin {"main", "listen", "start", "run"}
    BY <1>6 DEF StopWorker, Join, Destroy, NextWorker, At
  <2> QED
    BY <2>1, <2>2, Uncounted
<1>7. ASSUME OnlyWorker, Index' = Index,
             \A c \in Connection : /\ session'[c].home = session[c].home
                                   /\ session'[c].at = "none" <=> session[c].at = "none"
      PROVE  Counters' /\ Accounts'
  BY <1>7, Uncounted DEF OnlyWorker, listener
<1>8. ASSUME NEW c \in Connection,
             \/ BeginJob(c) \/ Resume(c) \/ EndSession(c) \/ EndDirect(c) \/ EndJob(c)
             \/ \E i \in Index : BeginDirect(c, i) \/ Post(c, i)
      PROVE  Counters' /\ Accounts'
  <2>1. OnlyWorker /\ Index' = Index
    BY <1>8 DEF BeginJob, Resume, EndSession, EndDirect, EndJob, BeginDirect, Post, Busy,
                Index, BInv, IInv, Shape
  <2>2. \A d \in Connection : /\ session'[d].home = session[d].home
                              /\ session'[d].at = "none" <=> session[d].at = "none"
    BY <1>1, <1>8 DEF BeginJob, Resume, EndSession, EndDirect, EndJob, BeginDirect, Post,
                      Move, Session
  <2> QED
    BY <1>7, <2>1, <2>2
<1>9. ASSUME NEW w \in Index, BeginThread(w) \/ BeginClean(w) \/ EndClean(w) \/ EndThread(w)
      PROVE  Counters' /\ Accounts'
  BY <1>7, <1>9 DEF BeginThread, BeginClean, EndClean, EndThread, Busy, Index, BInv, IInv, Shape
<1> QED
  BY <1>2, <1>3, <1>4, <1>5, <1>6, <1>8, <1>9 DEF Next, MainStep, EndHandler

(* Round robin with the failed turns counted against it: no worker is ever *)
(* more than one connection ahead of another, but for the turns that       *)
(* failed accepts used up.                                                 *)
THEOREM WorkersBalanced == Spec => []Balanced
<1>1. BInv => Balanced
  <2> SUFFICES ASSUME BInv, turns < MaxTurns, NEW i \in Index, NEW j \in Index
               PROVE  Cardinality(Homed(i))
                        <= Cardinality(Homed(j)) + 1 + (turns - Cardinality(Homes))
    BY DEF Balanced, Homed, Homes
  <2>1. size \in Nat /\ size > 0 /\ Index = 0 .. size - 1 /\ turns \in Nat
    BY Numbered DEF BInv, IInv, Counters
  <2>2. Cardinality(Taken(i, turns, size)) <= Cardinality(Taken(j, turns, size)) + 1
    BY <2>1, TurnByTurn
  <2>3. /\ Cardinality(Homed(i)) <= Cardinality(Taken(i, turns, size))
        /\ Cardinality(Taken(j, turns, size))
             <= Cardinality(Homed(j)) + (turns - Cardinality(Homes))
    BY DEF BInv, Accounts
  <2>4. /\ Cardinality(Taken(i, turns, size)) \in Nat
        /\ Cardinality(Taken(j, turns, size)) \in Nat
    BY <2>1, TakenFinite
  <2>5. /\ Cardinality(Homes) \in Nat
        /\ Cardinality(Homed(i)) \in Nat /\ Cardinality(Homed(j)) \in Nat
    <3>1. IsFiniteSet(Homes)
      BY DEF BInv, Accounts
    <3>2. Homed(i) \in SUBSET Homes /\ Homed(j) \in SUBSET Homes
      BY <2>1, ServerAssumption DEF Homed, Homes
    <3> QED
      BY <3>1, <3>2, FS_Subset, FS_CardinalityType
  <2> QED
    BY <2>1, <2>2, <2>3, <2>4, <2>5
<1> QED
  BY <1>1, InitBInv, NextBalanced, PTL DEF Spec
=============================================================================
