----------------------------- MODULE ThreadPool -----------------------------
(***************************************************************************)
(* ThreadPool.{h,cpp}: static members, one mutex and one condition; every  *)
(* critical section that does not wait or block is one step.  Tasks are    *)
(* numbered in the order in which they are added.                          *)
(*                                                                         *)
(* A worker is at                                                          *)
(*   "none"   not created                                                  *)
(*   "lock"   at the first pthread_mutex_lock, or back from a wait that    *)
(*            has to lock the mutex again                                  *)
(*   "check"  holding the mutex, at the test of the while                  *)
(*   "wait"   in pthread_cond_wait                                         *)
(*   "relock" holding the mutex and a task, at the second lock             *)
(*   "run"    running the task                                             *)
(*   "ended"                                                               *)
(***************************************************************************)
EXTENDS Integers, Sequences, FiniteSets

CONSTANTS
    Callers,            \* threads that add tasks and destroy the pool
    NoThread,           \* nobody holds the mutex
    Requests,           \* arguments of threadpool_create: <<threads, queue>>
    MaxThreads,         \* MAX_THREADS
    MaxQueue,           \* MAX_QUEUE
    Defaults,           \* the 4 and 1024 that take their place
    MaxTasks            \* bound: the tasks ever added

Workers == 1 .. MaxThreads

ASSUME PoolAssumption ==
    /\ NoThread \notin Callers \cup Workers
    /\ Callers \cap Workers = {}
    /\ MaxThreads \in Nat /\ MaxQueue \in Nat
    /\ Requests \subseteq Int \X Int
    /\ Defaults \in (1 .. MaxThreads) \X (1 .. MaxQueue)
    /\ MaxTasks \in Nat

VARIABLES
    creator,            \* threadpool_create: "new", "busy", "returned"
    wanted,             \* _thread_count
    threadCount,        \* thread_count
    started,
    queueSize,          \* queue_size
    queue,              \* 0 is no task
    head, tail, count,
    shutdown,
    mutex,              \* who holds lock
    worker,
    caller,             \* "idle", "joining", "freeing", "gone"
    added               \* history: the tasks added so far

ringVars == <<queueSize, queue, head, tail, count>>
poolVars == <<wanted, threadCount>>
vars == <<creator, poolVars, started, ringVars, shutdown, mutex, worker,
          caller, added>>

WorkerPc == {"none", "lock", "check", "wait", "relock", "run", "ended"}
Option   == {"immediate", "graceful"}

TypeOK ==
    /\ creator \in {"new", "busy", "returned"}
    /\ threadCount \in 0 .. MaxThreads /\ started \in 0 .. MaxThreads
    /\ queueSize \in 0 .. MaxQueue
    /\ head \in 0 .. MaxQueue - 1 /\ tail \in 0 .. MaxQueue - 1
    /\ count \in 0 .. queueSize
    /\ queue \in [0 .. queueSize - 1 -> 0 .. MaxTasks]
    /\ shutdown \in {"no"} \cup Option
    /\ mutex \in {NoThread} \cup Callers \cup Workers
    /\ worker \in [Workers -> WorkerPc]
    /\ caller \in [Callers -> {"idle", "joining", "freeing", "gone"}]
    /\ added \in 0 .. MaxTasks

Init ==
    /\ creator = "new"
    /\ wanted = 0 /\ threadCount = 0 /\ started = 0
    /\ queueSize = 0 /\ queue = [i \in {} |-> 0]
    /\ head = 0 /\ tail = 0 /\ count = 0
    /\ shutdown = "no"
    /\ mutex = NoThread
    /\ worker = [w \in Workers |-> "none"]
    /\ caller = [c \in Callers |-> "idle"]
    /\ added = 0

-----------------------------------------------------------------------------
(***************************************************************************)
(* threadpool_create, which returns -1 at the first thread that fails and  *)
(* leaves those before it.                                                 *)
(***************************************************************************)
Sizes(n, q) ==
    IF n \in 1 .. MaxThreads /\ q \in 1 .. MaxQueue THEN <<n, q>> ELSE Defaults

Create(n, q) ==
    /\ creator = "new"
    /\ creator' = "busy"
    /\ wanted' = Sizes(n, q)[1]
    /\ queueSize' = Sizes(n, q)[2]
    /\ queue' = [i \in 0 .. Sizes(n, q)[2] - 1 |-> 0]
    /\ UNCHANGED <<threadCount, started, head, tail, count, shutdown, mutex,
                   worker, caller, added>>

CreateThread ==
    /\ creator = "busy"
    /\ threadCount' = threadCount + 1
    /\ started' = started + 1
    /\ worker' = [worker EXCEPT ![threadCount + 1] = "lock"]
    /\ creator' = IF threadCount + 1 = wanted THEN "returned" ELSE "busy"
    /\ UNCHANGED <<wanted, ringVars, shutdown, mutex, caller, added>>

CreateFails ==
    /\ creator = "busy"
    /\ creator' = "returned"
    /\ UNCHANGED <<poolVars, started, ringVars, shutdown, mutex, worker,
                   caller, added>>

-----------------------------------------------------------------------------
(***************************************************************************)
(* The mutex and the condition (external).  The mutex is of the normal     *)
(* kind: who holds it and locks it again waits for himself.                *)
(***************************************************************************)
Waiting == {w \in Workers : worker[w] = "wait"}

Woken(W) == [w \in Workers |-> IF w \in W THEN "lock" ELSE worker[w]]

Signalled == IF Waiting = {} THEN {worker} ELSE {Woken({w}) : w \in Waiting}

Lock(w) ==
    /\ worker[w] \in {"lock", "relock"}
    /\ mutex = NoThread
    /\ mutex' = w
    /\ worker' = [worker EXCEPT ![w] = IF @ = "lock" THEN "check" ELSE "run"]
    /\ UNCHANGED <<creator, poolVars, started, ringVars, shutdown, caller,
                   added>>

SpuriousWakeup(w) ==
    /\ worker[w] = "wait"
    /\ worker' = Woken({w})
    /\ UNCHANGED <<creator, poolVars, started, ringVars, shutdown, mutex,
                   caller, added>>

-----------------------------------------------------------------------------
(***************************************************************************)
(* The callers, once threadpool_create has returned.                       *)
(***************************************************************************)
\* Mistaken variant: a full ring is overwritten.
AddOverwrites(c) ==
    /\ creator = "returned"
    /\ caller[c] = "idle" /\ mutex = NoThread
    /\ shutdown = "no"
    /\ added < MaxTasks
    /\ queue' = [queue EXCEPT ![tail] = added + 1]
    /\ tail' = (tail + 1) % queueSize
    /\ count' = count + 1
    /\ added' = added + 1
    /\ worker' \in Signalled
    /\ UNCHANGED <<creator, poolVars, started, queueSize, head, shutdown,
                   mutex, caller>>

\* Mistaken variant: the index is advanced before it is used.
AddBehindTail(c) ==
    /\ creator = "returned"
    /\ caller[c] = "idle" /\ mutex = NoThread
    /\ count # queueSize /\ shutdown = "no"
    /\ added < MaxTasks
    /\ queue' = [queue EXCEPT ![(tail + 1) % queueSize] = added + 1]
    /\ tail' = (tail + 1) % queueSize
    /\ count' = count + 1
    /\ added' = added + 1
    /\ worker' \in Signalled
    /\ UNCHANGED <<creator, poolVars, started, queueSize, head, shutdown,
                   mutex, caller>>

\* threadpool_add; with a full queue or after the shutdown it returns an error
\* and changes nothing.
Add(c) ==
    /\ creator = "returned"
    /\ caller[c] = "idle" /\ mutex = NoThread
    /\ count # queueSize /\ shutdown = "no"
    /\ added < MaxTasks
    /\ queue' = [queue EXCEPT ![tail] = added + 1]
    /\ tail' = (tail + 1) % queueSize
    /\ count' = count + 1
    /\ added' = added + 1
    /\ worker' \in Signalled
    /\ UNCHANGED <<creator, poolVars, started, queueSize, head, shutdown,
                   mutex, caller>>

\* Mistaken variant: pthread_cond_signal.
DestroySignals(c, option) ==
    /\ creator = "returned"
    /\ caller[c] = "idle" /\ mutex = NoThread
    /\ shutdown = "no"
    /\ shutdown' = option
    /\ worker' \in Signalled
    /\ caller' = [caller EXCEPT ![c] = "joining"]
    /\ UNCHANGED <<creator, poolVars, started, ringVars, mutex, added>>

\* threadpool_destroy up to the joins.
Destroy(c, option) ==
    /\ creator = "returned"
    /\ caller[c] = "idle" /\ mutex = NoThread
    /\ shutdown = "no"
    /\ shutdown' = option
    /\ worker' = Woken(Waiting)
    /\ caller' = [caller EXCEPT ![c] = "joining"]
    /\ UNCHANGED <<creator, poolVars, started, ringVars, mutex, added>>

\* A second threadpool_destroy breaks out of the block that unlocks, and
\* returns with the mutex.
DestroyAgain(c) ==
    /\ caller[c] = "idle" /\ mutex = NoThread
    /\ shutdown # "no"
    /\ mutex' = c
    /\ caller' = [caller EXCEPT ![c] = "gone"]
    /\ UNCHANGED <<creator, poolVars, started, ringVars, shutdown, worker,
                   added>>

JoinAll(c) ==
    /\ caller[c] = "joining"
    /\ \A w \in 1 .. threadCount : worker[w] = "ended"
    /\ caller' = [caller EXCEPT ![c] = "freeing"]
    /\ UNCHANGED <<creator, poolVars, started, ringVars, shutdown, mutex,
                   worker, added>>

\* threadpool_free locks the mutex before it destroys it, unless a thread is
\* left.
Free(c) ==
    /\ caller[c] = "freeing"
    /\ IF started > 0 THEN UNCHANGED mutex
       ELSE mutex = NoThread /\ mutex' = c
    /\ caller' = [caller EXCEPT ![c] = "gone"]
    /\ UNCHANGED <<creator, poolVars, started, ringVars, shutdown, worker,
                   added>>

-----------------------------------------------------------------------------
(***************************************************************************)
(* threadpool_thread.                                                      *)
(***************************************************************************)
MustSleep == count = 0 /\ shutdown = "no"
MustLeave == \/ shutdown = "immediate"
             \/ shutdown = "graceful" /\ count = 0

Sleep(w) ==
    /\ worker[w] = "check"
    /\ MustSleep
    /\ worker' = [worker EXCEPT ![w] = "wait"]
    /\ mutex' = NoThread
    /\ UNCHANGED <<creator, poolVars, started, ringVars, shutdown, caller,
                   added>>

Leave(w) ==
    /\ worker[w] = "check"
    /\ MustLeave
    /\ started' = started - 1
    /\ worker' = [worker EXCEPT ![w] = "ended"]
    /\ mutex' = NoThread
    /\ UNCHANGED <<creator, poolVars, ringVars, shutdown, caller, added>>

\* Mistaken variant: the second pthread_mutex_lock is the unlock that its
\* message speaks of.
TakeTaskUnlocks(w) ==
    /\ worker[w] = "check"
    /\ ~MustSleep /\ ~MustLeave
    /\ queue' = [queue EXCEPT ![head] = 0]
    /\ head' = (head + 1) % queueSize
    /\ count' = count - 1
    /\ mutex' = NoThread
    /\ worker' = [worker EXCEPT ![w] = "run"]
    /\ UNCHANGED <<creator, poolVars, started, queueSize, tail, shutdown,
                   caller, added>>

\* A task is taken out of the ring; the mutex stays locked.
TakeTask(w) ==
    /\ worker[w] = "check"
    /\ ~MustSleep /\ ~MustLeave
    /\ queue' = [queue EXCEPT ![head] = 0]
    /\ head' = (head + 1) % queueSize
    /\ count' = count - 1
    /\ worker' = [worker EXCEPT ![w] = "relock"]
    /\ UNCHANGED <<creator, poolVars, started, queueSize, tail, shutdown,
                   mutex, caller, added>>

CallerNext(c) ==
    \/ Add(c)
    \/ \E option \in Option : Destroy(c, option)
    \/ DestroyAgain(c)
    \/ JoinAll(c)
    \/ Free(c)

WorkerNext(w) == Sleep(w) \/ Leave(w) \/ TakeTask(w)

Next ==
    \/ \E r \in Requests : Create(r[1], r[2])
    \/ CreateThread
    \/ CreateFails
    \/ \E c \in Callers : CallerNext(c)
    \/ \E w \in Workers : Lock(w) \/ SpuriousWakeup(w) \/ WorkerNext(w)

\* A thread that keeps trying gets the mutex, and who can go on does; nobody
\* has to add or to destroy.
Fairness ==
    /\ \A w \in Workers : SF_vars(Lock(w)) /\ WF_vars(WorkerNext(w))
    /\ \A c \in Callers : WF_vars(JoinAll(c)) /\ SF_vars(Free(c))

Spec == Init /\ [][Next]_vars /\ Fairness

-----------------------------------------------------------------------------
(***************************************************************************)
(* Properties.                                                             *)
(***************************************************************************)
\* What is added and not taken is in the ring from head on, in the order of
\* the adds, and the rest of the ring is empty (ThreadPool.cpp:60-72,
\* 140-145), also when it is full, when tail has gone round, and for a ring
\* of one.
RingHoldsTheTasks ==
    queueSize > 0 =>
        /\ tail = (head + count) % queueSize
        /\ \A i \in 0 .. queueSize - 1 :
              queue[(head + i) % queueSize] =
                  IF i < count THEN added - count + 1 + i ELSE 0

\* No task is ever run, and only one is taken (ThreadPool.cpp:146): its
\* worker waits for the mutex it holds itself, for good, and the others for
\* him.
NoTaskIsRun ==
    \A w \in Workers :
        /\ worker[w] # "run"
        /\ worker[w] = "relock" => mutex = w /\ count = added - 1

\* A pool whose workers have not taken a task comes down
\* (ThreadPool.cpp:95-109, 133-138): wherever the workers are when the flag
\* is set, all of them see it, and the first destroyer comes back with the
\* mutex destroyed; unless a second destroyer has run off with it.
DestroyComesBack ==
    \A c \in Callers :
        (caller[c] = "joining") ~>
            \/ caller[c] = "gone" /\ mutex = c
            \/ \E w \in Workers : worker[w] = "relock"
            \/ \E d \in Callers \ {c} : mutex = d
=============================================================================
