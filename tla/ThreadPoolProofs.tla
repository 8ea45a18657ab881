-------------------------- MODULE ThreadPoolProofs --------------------------
(***************************************************************************)
(* Theorems about ThreadPool, for every number of threads, size of the     *)
(* queue and set of callers: the types, the contents of the ring, and what *)
(* the second lock of a worker does to the pool.                           *)
(***************************************************************************)
EXTENDS ThreadPool, FiniteSetTheorems, TLAPS

\* An index that is less than two rounds ahead.
LEMMA Wraps ==
    ASSUME NEW q \in Nat \ {0}, NEW a \in 0 .. 2 * q - 1
    PROVE  a % q = IF a < q THEN a ELSE a - q
OBVIOUS

(***************************************************************************)
(* The inductive invariant, in four parts.                                 *)
(***************************************************************************)
\* Before threadpool_create there is nothing; after it, the ring has a size
\* and its ends are inside.
SizesFit ==
    /\ wanted \in 0 .. MaxThreads
    /\ IF creator = "new"
       THEN /\ threadCount = 0 /\ queueSize = 0
            /\ head = 0 /\ tail = 0 /\ count = 0 /\ added = 0
       ELSE /\ queueSize \in 1 .. MaxQueue
            /\ head \in 0 .. queueSize - 1 /\ tail \in 0 .. queueSize - 1
    /\ creator = "busy" => threadCount < wanted

\* The workers are the first threadCount, and `started' counts those that
\* have not left.
Alive == {w \in Workers : worker[w] \notin {"none", "ended"}}

WorkersCounted ==
    /\ \A w \in Workers : worker[w] = "none" <=> w > threadCount
    /\ started = Cardinality(Alive)

\* A worker that is past its lock and not asleep holds the mutex.
WorkersHold ==
    \A w \in Workers : worker[w] \in {"check", "relock"} => mutex = w

\* No task is missing in the ring but the one of a worker at the second lock.
TasksAccounted ==
    /\ \A w \in Workers : worker[w] # "run"
    /\ \/ count = added /\ \A w \in Workers : worker[w] # "relock"
       \/ count = added - 1 /\ \E w \in Workers : worker[w] = "relock"

PoolInvariant ==
    /\ TypeOK
    /\ SizesFit
    /\ WorkersCounted
    /\ WorkersHold
    /\ TasksAccounted

-----------------------------------------------------------------------------
\* The workers are finitely many.
LEMMA WorkersFinite == IsFiniteSet(Workers) /\ IsFiniteSet(Alive)
<1>1. IsFiniteSet(1 .. MaxThreads)
  BY PoolAssumption, FS_Interval
<1> QED
  BY <1>1, FS_Subset DEF Workers, Alive

\* A worker that goes from one place to another in its function stays alive.
LEMMA MovesKeepAlive ==
    ASSUME PoolInvariant, worker' \in [Workers -> WorkerPc],
           UNCHANGED <<threadCount, started>>,
           \A w \in Workers : worker'[w] # worker[w] =>
               /\ worker[w] \notin {"none", "ended"}
               /\ worker'[w] \notin {"none", "ended"}
    PROVE  WorkersCounted'
<1>1. Alive' = Alive
  BY DEF Alive
<1> QED
  BY <1>1 DEF PoolInvariant, WorkersCounted

\* pthread_cond_signal and pthread_cond_broadcast send sleepers to the lock.
LEMMA WakingKeeps ==
    ASSUME PoolInvariant, NEW W \in SUBSET Waiting, worker' = Woken(W),
           UNCHANGED <<threadCount, started>>
    PROVE  /\ worker' \in [Workers -> WorkerPc]
           /\ WorkersCounted'
           /\ \A w \in Workers, pc \in {"check", "relock", "run"} :
                  worker'[w] = pc <=> worker[w] = pc
<1>1. worker' \in [Workers -> WorkerPc]
  BY DEF PoolInvariant, TypeOK, Woken, WorkerPc
<1>2. \A w \in Workers : worker'[w] # worker[w] =>
          worker[w] = "wait" /\ worker'[w] = "lock"
  BY DEF Woken, Waiting
<1>3. WorkersCounted'
  BY <1>1, <1>2, MovesKeepAlive
<1> QED
  BY <1>1, <1>2, <1>3

\* Who is signalled was asleep.
LEMMA SignalWakes ==
    ASSUME PoolInvariant, worker' \in Signalled
    PROVE  \E W \in SUBSET Waiting : worker' = Woken(W)
<1>1. CASE Waiting = {}
  <2>1. worker = Woken({})
    BY DEF Woken, PoolInvariant, TypeOK
  <2> QED
    BY <1>1, <2>1 DEF Signalled
<1>2. CASE Waiting # {}
  BY <1>2 DEF Signalled
<1> QED
  BY <1>1, <1>2

-----------------------------------------------------------------------------
(***************************************************************************)
(* Every step keeps PoolInvariant.                                         *)
(***************************************************************************)
LEMMA CreateKeeps ==
    ASSUME PoolInvariant, NEW r \in Requests, Create(r[1], r[2])
    PROVE  PoolInvariant'
<1> DEFINE n == Sizes(r[1], r[2])[1]
           q == Sizes(r[1], r[2])[2]
<1>1. n \in 1 .. MaxThreads /\ q \in 1 .. MaxQueue
  BY PoolAssumption DEF Sizes
<1>2. /\ creator = "new" /\ creator' = "busy"
      /\ wanted' = n /\ queueSize' = q
      /\ queue' = [i \in 0 .. q - 1 |-> 0]
      /\ UNCHANGED <<threadCount, started, head, tail, count, shutdown,
                     mutex, worker, caller, added>>
  BY DEF Create
<1> HIDE DEF n, q
<1>3. TypeOK'
  BY <1>1, <1>2, PoolAssumption DEF PoolInvariant, TypeOK, SizesFit
<1>4. SizesFit'
  BY <1>1, <1>2, PoolAssumption DEF PoolInvariant, TypeOK, SizesFit
<1> QED
  BY <1>2, <1>3, <1>4
     DEF PoolInvariant, WorkersCounted, Alive, WorkersHold, TasksAccounted

LEMMA CreateThreadKeeps ==
    ASSUME PoolInvariant, CreateThread \/ CreateFails
    PROVE  PoolInvariant'
<1>1. CASE CreateFails
  BY <1>1 DEF CreateFails, poolVars, ringVars, PoolInvariant, TypeOK,
     SizesFit, WorkersCounted, Alive, WorkersHold, TasksAccounted
<1>2. CASE CreateThread
  <2> DEFINE w == threadCount + 1
  <2>1. w \in Workers /\ worker[w] = "none" /\ w <= wanted
    BY <1>2, PoolAssumption
       DEF CreateThread, PoolInvariant, TypeOK, SizesFit, WorkersCounted,
           Workers
  <2>2. /\ creator = "busy"
        /\ creator' = IF w = wanted THEN "returned" ELSE "busy"
        /\ threadCount' = w /\ started' = started + 1
        /\ worker' = [worker EXCEPT ![w] = "lock"]
        /\ UNCHANGED <<wanted, queueSize, queue, head, tail, count,
                       shutdown, mutex, caller, added>>
    BY <1>2 DEF CreateThread, ringVars
  <2>3. worker' \in [Workers -> WorkerPc]
    BY <2>2 DEF PoolInvariant, TypeOK, WorkerPc
  <2>4. /\ worker'[w] = "lock"
        /\ \A v \in Workers : v # w => worker'[v] = worker[v]
    BY <2>1, <2>2 DEF PoolInvariant, TypeOK
  <2>5. WorkersCounted'
    <3>1. Alive' = Alive \cup {w} /\ w \notin Alive
      BY <2>1, <2>4 DEF Alive
    <3>2. Cardinality(Alive') = Cardinality(Alive) + 1
      BY <3>1, WorkersFinite, FS_AddElement
    <3>3. \A v \in Workers : worker'[v] = "none" <=> v > threadCount'
      BY <2>1, <2>2, <2>4
         DEF PoolInvariant, TypeOK, WorkersCounted, Workers
    <3> QED
      BY <2>2, <3>2, <3>3 DEF PoolInvariant, WorkersCounted
  <2>6. TypeOK'
    <3>1. Cardinality(Alive') \in 0 .. MaxThreads
      <4>1. Cardinality(Workers) = MaxThreads
        BY FS_Interval, PoolAssumption DEF Workers
      <4>2. IsFiniteSet(Alive') /\ Cardinality(Alive') <= Cardinality(Workers)
                /\ Cardinality(Alive') \in Nat
        <5>1. Alive' \subseteq Workers
          BY DEF Alive
        <5> QED
          BY <5>1, WorkersFinite, FS_Subset, FS_CardinalityType
      <4> QED
        BY <4>1, <4>2, PoolAssumption
    <3>2. started' \in 0 .. MaxThreads
      BY <2>5, <3>1 DEF WorkersCounted
    <3>3. threadCount' \in 0 .. MaxThreads /\ creator' \in {"busy", "returned"}
      BY <2>1, <2>2 DEF Workers
    <3> QED
      BY <2>2, <2>3, <3>2, <3>3 DEF PoolInvariant, TypeOK
  <2>7. SizesFit'
    BY <2>1, <2>2, PoolAssumption DEF PoolInvariant, SizesFit, TypeOK
  <2>8. WorkersHold'
    BY <2>2, <2>4 DEF PoolInvariant, WorkersHold
  <2>9. TasksAccounted'
    BY <2>1, <2>2, <2>4 DEF PoolInvariant, TasksAccounted
  <2> QED
    BY <2>5, <2>6, <2>7, <2>8, <2>9 DEF PoolInvariant
<1> QED
  BY <1>1, <1>2

LEMMA AddKeeps ==
    ASSUME PoolInvariant, NEW c \in Callers, Add(c)
    PROVE  PoolInvariant'
<1>1. /\ creator = "returned" /\ mutex = NoThread
      /\ count # queueSize /\ added < MaxTasks
      /\ queue' = [queue EXCEPT ![tail] = added + 1]
      /\ tail' = (tail + 1) % queueSize
      /\ count' = count + 1 /\ added' = added + 1
      /\ worker' \in Signalled
      /\ UNCHANGED <<creator, wanted, threadCount, started, queueSize, head,
                     shutdown, mutex, caller>>
  BY DEF Add, poolVars
<1>2. /\ worker' \in [Workers -> WorkerPc]
      /\ WorkersCounted'
      /\ \A w \in Workers, pc \in {"check", "relock", "run"} :
             worker'[w] = pc <=> worker[w] = pc
  BY <1>1, SignalWakes, WakingKeeps
<1>3. tail' \in 0 .. queueSize - 1
  BY <1>1, Wraps DEF PoolInvariant, TypeOK, SizesFit
<1>4. TypeOK'
  <2>1. queue' \in [0 .. queueSize - 1 -> 0 .. MaxTasks]
    <3>1. added + 1 \in 0 .. MaxTasks
      BY <1>1, PoolAssumption DEF PoolInvariant, TypeOK
    <3> QED
      BY <1>1, <3>1, Zenon DEF PoolInvariant, TypeOK
  <2> QED
    BY <1>1, <1>2, <1>3, <2>1, PoolAssumption
       DEF PoolInvariant, TypeOK, SizesFit
<1>5. SizesFit'
  BY <1>1, <1>3 DEF PoolInvariant, SizesFit
<1>6. WorkersHold'
  BY <1>1, <1>2 DEF PoolInvariant, WorkersHold
<1>7. \A w \in Workers : worker[w] # "relock"
  BY <1>1, PoolAssumption DEF PoolInvariant, WorkersHold
<1>8. TasksAccounted'
  BY <1>1, <1>2, <1>7 DEF PoolInvariant, TasksAccounted
<1> QED
  BY <1>2, <1>4, <1>5, <1>6, <1>8 DEF PoolInvariant

LEMMA CallerKeeps ==
    ASSUME PoolInvariant, NEW c \in Callers, CallerNext(c)
    PROVE  PoolInvariant'
<1> USE DEF poolVars, ringVars
<1>1. CASE Add(c)
  BY <1>1, AddKeeps
<1>2. ASSUME NEW option \in Option, Destroy(c, option)
      PROVE  PoolInvariant'
  <2>1. /\ worker' = Woken(Waiting)
        /\ UNCHANGED <<creator, wanted, threadCount, started, queueSize,
                       queue, head, tail, count, mutex, added>>
    BY <1>2 DEF Destroy
  <2>2. /\ worker' \in [Workers -> WorkerPc]
        /\ WorkersCounted'
        /\ \A w \in Workers, pc \in {"check", "relock", "run"} :
               worker'[w] = pc <=> worker[w] = pc
    BY <2>1, WakingKeeps
  <2>3. TypeOK'
    BY <1>2, <2>1, <2>2 DEF Destroy, PoolInvariant, TypeOK
  <2>4. SizesFit' /\ WorkersHold' /\ TasksAccounted'
    BY <2>1, <2>2
       DEF PoolInvariant, SizesFit, WorkersHold, TasksAccounted
  <2> QED
    BY <2>2, <2>3, <2>4 DEF PoolInvariant
<1>3. CASE DestroyAgain(c) \/ JoinAll(c) \/ Free(c)
  <2>1. UNCHANGED <<creator, wanted, threadCount, started, queueSize, queue,
                    head, tail, count, shutdown, worker, added>>
    BY <1>3 DEF DestroyAgain, JoinAll, Free
  <2>2. \/ mutex' = mutex
        \/ mutex = NoThread /\ mutex' = c
    BY <1>3 DEF DestroyAgain, JoinAll, Free
  <2>3. TypeOK'
    BY <1>3, <2>1, <2>2
       DEF DestroyAgain, JoinAll, Free, PoolInvariant, TypeOK
  <2>4. WorkersHold'
    BY <2>1, <2>2, PoolAssumption DEF PoolInvariant, WorkersHold
  <2> QED
    BY <2>1, <2>3, <2>4
       DEF PoolInvariant, SizesFit, WorkersCounted, Alive, TasksAccounted
<1> QED
  BY <1>1, <1>2, <1>3 DEF CallerNext

LEMMA LockKeeps ==
    ASSUME PoolInvariant, NEW w \in Workers, Lock(w) \/ SpuriousWakeup(w)
    PROVE  PoolInvariant'
<1> USE DEF poolVars, ringVars
<1>1. CASE Lock(w)
  <2>1. worker[w] = "lock"
    BY <1>1, PoolAssumption DEF Lock, PoolInvariant, WorkersHold
  <2>2. /\ mutex = NoThread /\ mutex' = w
        /\ worker' = [worker EXCEPT ![w] = "check"]
        /\ UNCHANGED <<creator, wanted, threadCount, started, queueSize,
                       queue, head, tail, count, shutdown, caller, added>>
    BY <1>1, <2>1 DEF Lock, PoolInvariant, TypeOK
  <2>3. /\ worker' \in [Workers -> WorkerPc]
        /\ worker'[w] = "check"
        /\ \A v \in Workers : v # w => worker'[v] = worker[v]
    BY <2>2 DEF PoolInvariant, TypeOK, WorkerPc
  <2>4. WorkersCounted'
    BY <2>1, <2>2, <2>3, MovesKeepAlive
  <2>5. TypeOK'
    BY <2>2, <2>3 DEF PoolInvariant, TypeOK
  <2>6. WorkersHold'
    BY <2>2, <2>3, PoolAssumption DEF PoolInvariant, WorkersHold
  <2>7. SizesFit' /\ TasksAccounted'
    BY <2>1, <2>2, <2>3 DEF PoolInvariant, SizesFit, TasksAccounted
  <2> QED
    BY <2>4, <2>5, <2>6, <2>7 DEF PoolInvariant
<1>2. CASE SpuriousWakeup(w)
  <2>1. /\ worker' = Woken({w}) /\ {w} \in SUBSET Waiting
        /\ UNCHANGED <<creator, wanted, threadCount, started, queueSize,
                       queue, head, tail, count, shutdown, mutex, caller,
                       added>>
    BY <1>2 DEF SpuriousWakeup, Waiting
  <2>2. /\ worker' \in [Workers -> WorkerPc]
        /\ WorkersCounted'
        /\ \A v \in Workers, pc \in {"check", "relock", "run"} :
               worker'[v] = pc <=> worker[v] = pc
    BY <2>1, WakingKeeps
  <2>3. TypeOK' /\ SizesFit'
    BY <2>1, <2>2 DEF PoolInvariant, TypeOK, SizesFit
  <2> QED
    BY <2>1, <2>2, <2>3 DEF PoolInvariant, WorkersHold, TasksAccounted
<1> QED
  BY <1>1, <1>2

LEMMA WorkerKeeps ==
    ASSUME PoolInvariant, NEW w \in Workers, WorkerNext(w)
    PROVE  PoolInvariant'
<1> USE DEF poolVars, ringVars
<1>0. /\ worker[w] = "check" /\ mutex = w
      /\ count = added
      /\ \A v \in Workers : v # w => worker[v] \notin {"check", "relock"}
  BY DEF WorkerNext, Sleep, Leave, TakeTask, PoolInvariant, WorkersHold,
     TasksAccounted
<1>1. CASE Sleep(w)
  <2>1. /\ worker' = [worker EXCEPT ![w] = "wait"] /\ mutex' = NoThread
        /\ UNCHANGED <<creator, wanted, threadCount, started, queueSize,
                       queue, head, tail, count, shutdown, caller, added>>
    BY <1>1 DEF Sleep
  <2>2. /\ worker' \in [Workers -> WorkerPc]
        /\ worker'[w] = "wait"
        /\ \A v \in Workers : v # w => worker'[v] = worker[v]
    BY <2>1 DEF PoolInvariant, TypeOK, WorkerPc
  <2>3. WorkersCounted'
    BY <1>0, <2>1, <2>2, MovesKeepAlive
  <2>4. TypeOK' /\ SizesFit'
    BY <2>1, <2>2 DEF PoolInvariant, TypeOK, SizesFit
  <2> QED
    BY <1>0, <2>1, <2>2, <2>3, <2>4
       DEF PoolInvariant, WorkersHold, TasksAccounted
<1>2. CASE Leave(w)
  <2>1. /\ worker' = [worker EXCEPT ![w] = "ended"] /\ mutex' = NoThread
        /\ started' = started - 1
        /\ UNCHANGED <<creator, wanted, threadCount, queueSize, queue, head,
                       tail, count, shutdown, caller, added>>
    BY <1>2 DEF Leave
  <2>2. /\ worker' \in [Workers -> WorkerPc]
        /\ worker'[w] = "ended"
        /\ \A v \in Workers : v # w => worker'[v] = worker[v]
    BY <2>1 DEF PoolInvariant, TypeOK, WorkerPc
  <2>3. WorkersCounted' /\ started' \in 0 .. MaxThreads
    <3>1. Alive' = Alive \ {w} /\ w \in Alive
      BY <1>0, <2>2 DEF Alive
    <3>2. Cardinality(Alive') = Cardinality(Alive) - 1
      BY <3>1, WorkersFinite, FS_RemoveElement
    <3>3. Cardinality(Alive') \in Nat
      BY <3>1, WorkersFinite, FS_RemoveElement, FS_CardinalityType
    <3> QED
      BY <1>0, <2>1, <2>2, <3>2, <3>3, PoolAssumption
         DEF PoolInvariant, TypeOK, WorkersCounted
  <2>4. TypeOK' /\ SizesFit'
    BY <2>1, <2>2, <2>3 DEF PoolInvariant, TypeOK, SizesFit
  <2> QED
    BY <1>0, <2>1, <2>2, <2>3, <2>4
       DEF PoolInvariant, WorkersHold, TasksAccounted
<1>3. CASE TakeTask(w)
  <2>1. /\ worker' = [worker EXCEPT ![w] = "relock"]
        /\ queue' = [queue EXCEPT ![head] = 0]
        /\ head' = (head + 1) % queueSize /\ count' = count - 1
        /\ UNCHANGED <<creator, wanted, threadCount, started, queueSize,
                       tail, shutdown, mutex, caller, added>>
    BY <1>3 DEF TakeTask
  <2>2. /\ worker' \in [Workers -> WorkerPc]
        /\ worker'[w] = "relock"
        /\ \A v \in Workers : v # w => worker'[v] = worker[v]
    BY <2>1 DEF PoolInvariant, TypeOK, WorkerPc
  <2>3. WorkersCounted'
    BY <1>0, <2>1, <2>2, MovesKeepAlive
  <2>4. count \in Nat \ {0} /\ creator # "new"
    BY <1>3 DEF TakeTask, MustSleep, MustLeave, PoolInvariant, TypeOK,
       SizesFit, Option
  <2>5. head' \in 0 .. queueSize - 1
    BY <2>1, <2>4, Wraps DEF PoolInvariant, TypeOK, SizesFit
  <2>6. queue' \in [0 .. queueSize - 1 -> 0 .. MaxTasks]
    <3>1. 0 \in 0 .. MaxTasks
      BY PoolAssumption
    <3> QED
      BY <2>1, <3>1, Zenon DEF PoolInvariant, TypeOK
  <2>7. SizesFit'
    BY <2>1, <2>4, <2>5 DEF PoolInvariant, SizesFit
  <2>8. head' \in 0 .. MaxQueue - 1 /\ count' \in 0 .. queueSize
    BY <2>1, <2>4, <2>5, PoolAssumption DEF PoolInvariant, TypeOK, SizesFit
  <2>9. TypeOK'
    BY <2>1, <2>2, <2>6, <2>8 DEF PoolInvariant, TypeOK
  <2> QED
    BY <1>0, <2>1, <2>2, <2>3, <2>7, <2>9
       DEF PoolInvariant, WorkersHold, TasksAccounted
<1> QED
  BY <1>1, <1>2, <1>3 DEF WorkerNext

-----------------------------------------------------------------------------
\* The four parts hold together (ThreadPool.cpp:9-165).
THEOREM PoolInvariantHolds == Spec => []PoolInvariant
<1>1. Init => PoolInvariant
  <2> SUFFICES ASSUME Init PROVE PoolInvariant
    OBVIOUS
  <2>1. queue \in [0 .. queueSize - 1 -> 0 .. MaxTasks]
    BY DEF Init
  <2>2. TypeOK
    BY <2>1, PoolAssumption DEF Init, TypeOK, WorkerPc
  <2>3. Alive = {} /\ Cardinality({}) = 0
    BY FS_EmptySet DEF Init, Alive
  <2> QED
    BY <2>2, <2>3, PoolAssumption
       DEF Init, PoolInvariant, SizesFit, WorkersCounted, WorkersHold,
           TasksAccounted, Workers
<1>2. PoolInvariant /\ [Next]_vars => PoolInvariant'
  <2> SUFFICES ASSUME PoolInvariant, [Next]_vars
               PROVE  PoolInvariant'
    OBVIOUS
  <2>1. CASE UNCHANGED vars
    BY <2>1 DEF vars, poolVars, ringVars, PoolInvariant, TypeOK, SizesFit,
       WorkersCounted, Alive, WorkersHold, TasksAccounted
  <2> QED
    BY <2>1, CreateKeeps, CreateThreadKeeps, CallerKeeps, LockKeeps,
       WorkerKeeps DEF Next
<1> QED
  BY <1>1, <1>2, PTL DEF Spec

\* Every variable of the pool keeps its type: the ring is never indexed
\* outside, its counters never pass its size, and `started' never the number
\* of threads (ThreadPool.cpp:9-50, 60-72, 140-145, 155).
THEOREM PoolTypeCorrect == Spec => []TypeOK
<1>1. PoolInvariant => TypeOK
  BY DEF PoolInvariant
<1> QED
  BY <1>1, PoolInvariantHolds, PTL

\* No task is ever run, and only one is taken (ThreadPool.cpp:146).
THEOREM PoolRunsNoTask == Spec => []NoTaskIsRun
<1>1. PoolInvariant => NoTaskIsRun
  BY DEF PoolInvariant, WorkersHold, TasksAccounted, NoTaskIsRun
<1> QED
  BY <1>1, PoolInvariantHolds, PTL

-----------------------------------------------------------------------------
(***************************************************************************)
(* The ring: q is its size, h where it begins.                             *)
(***************************************************************************)
\* The slot behind a slot.
LEMMA SlotAfter ==
    ASSUME NEW q \in Nat \ {0}, NEW h \in 0 .. q - 1, NEW i \in 0 .. q - 1
    PROVE  (((h + i) % q) + 1) % q = (h + (i + 1)) % q
<1> DEFINE s == (h + i) % q
           t == (h + (i + 1)) % q
<1>1. s = IF h + i < q THEN h + i ELSE h + i - q
  OBVIOUS
<1>2. t = IF h + (i + 1) < q THEN h + (i + 1) ELSE h + (i + 1) - q
  OBVIOUS
<1> HIDE DEF s, t
<1>3. s \in 0 .. q - 1
  BY <1>1
<1> DEFINE u == (s + 1) % q
<1>4. u = IF s + 1 < q THEN s + 1 ELSE s + 1 - q
  BY <1>3
<1> HIDE DEF u
<1>5. u = t
  BY <1>1, <1>2, <1>4
<1> QED
  BY <1>5 DEF s, t, u

\* A round that begins one slot later ends where this one begins.
LEMMA SlotFromNext ==
    ASSUME NEW q \in Nat \ {0}, NEW h \in 0 .. q - 1, NEW i \in 0 .. q - 1
    PROVE  (((h + 1) % q) + i) % q =
               IF i = q - 1 THEN h ELSE (h + (i + 1)) % q
<1> DEFINE s == (h + 1) % q
           t == (h + (i + 1)) % q
<1>1. s = IF h + 1 < q THEN h + 1 ELSE h + 1 - q
  OBVIOUS
<1>2. t = IF h + (i + 1) < q THEN h + (i + 1) ELSE h + (i + 1) - q
  OBVIOUS
<1> HIDE DEF s, t
<1>3. s \in 0 .. q - 1
  BY <1>1
<1> DEFINE u == (s + i) % q
<1>4. u = IF s + i < q THEN s + i ELSE s + i - q
  BY <1>3
<1> HIDE DEF u
<1>5. u = IF i = q - 1 THEN h ELSE t
  BY <1>1, <1>2, <1>4
<1> QED
  BY <1>5 DEF s, t, u

\* threadpool_add fills the slot behind the last task.
LEMMA AddKeepsRing ==
    ASSUME PoolInvariant, RingHoldsTheTasks, NEW c \in Callers, Add(c)
    PROVE  RingHoldsTheTasks'
<1>1. /\ count # queueSize /\ creator = "returned"
      /\ queue' = [queue EXCEPT ![tail] = added + 1]
      /\ tail' = (tail + 1) % queueSize
      /\ count' = count + 1 /\ added' = added + 1
      /\ UNCHANGED <<queueSize, head>>
  BY DEF Add
<1>2. /\ queueSize \in Nat \ {0} /\ head \in 0 .. queueSize - 1
      /\ count \in 0 .. queueSize - 1 /\ added \in Nat
      /\ DOMAIN queue = 0 .. queueSize - 1
      /\ tail = (head + count) % queueSize
  BY <1>1, PoolAssumption DEF PoolInvariant, TypeOK, SizesFit,
     RingHoldsTheTasks
<1>3. tail \in 0 .. queueSize - 1
  BY <1>1 DEF PoolInvariant, SizesFit
<1>4. tail' = (head' + count') % queueSize'
  <2>1. (((head + count) % queueSize) + 1) % queueSize
            = (head + (count + 1)) % queueSize
    BY <1>2, SlotAfter
  <2> QED
    BY <1>1, <1>2, <2>1
<1>5. ASSUME NEW i \in 0 .. queueSize - 1
      PROVE  queue'[(head + i) % queueSize] =
                 IF i < count' THEN added' - count' + 1 + i ELSE 0
  <2> DEFINE s == (head + i) % queueSize
  <2>1. s \in 0 .. queueSize - 1 /\ (s = tail <=> i = count)
    <3>1. s = IF head + i < queueSize THEN head + i ELSE head + i - queueSize
      BY <1>2
    <3>2. tail = IF head + count < queueSize THEN head + count
                 ELSE head + count - queueSize
      BY <1>2
    <3> HIDE DEF s
    <3> QED
      BY <1>2, <3>1, <3>2
  <2>2. queue[s] = IF i < count THEN added - count + 1 + i ELSE 0
    BY <1>2 DEF RingHoldsTheTasks
  <2>3. queue'[s] = IF s = tail THEN added + 1 ELSE queue[s]
    BY <1>1, <1>2, <2>1
  <2> HIDE DEF s
  <2>4. queue'[s] = IF i < count' THEN added' - count' + 1 + i ELSE 0
    BY <1>1, <1>2, <2>1, <2>2, <2>3
  <2> QED
    BY <2>4 DEF s
<1> QED
  BY <1>1, <1>4, <1>5 DEF RingHoldsTheTasks

\* A worker empties the slot of the first.
LEMMA TakeKeepsRing ==
    ASSUME PoolInvariant, RingHoldsTheTasks, NEW w \in Workers, TakeTask(w)
    PROVE  RingHoldsTheTasks'
<1>1. /\ queue' = [queue EXCEPT ![head] = 0]
      /\ head' = (head + 1) % queueSize /\ count' = count - 1
      /\ UNCHANGED <<queueSize, tail, added>>
  BY DEF TakeTask
<1>2. count \in Nat \ {0} /\ creator # "new"
  BY DEF TakeTask, MustSleep, MustLeave, PoolInvariant, TypeOK, SizesFit,
     Option
<1>3. /\ queueSize \in Nat \ {0} /\ head \in 0 .. queueSize - 1
      /\ count \in 1 .. queueSize /\ added \in Nat
      /\ DOMAIN queue = 0 .. queueSize - 1
      /\ tail = (head + count) % queueSize
  BY <1>2, PoolAssumption DEF PoolInvariant, TypeOK, SizesFit,
     RingHoldsTheTasks
<1>4. tail' = (head' + count') % queueSize'
  <2> DEFINE k == count - 1
  <2>1. k \in 0 .. queueSize - 1 /\ count = k + 1
    BY <1>3
  <2> HIDE DEF k
  <2>2. (((head + 1) % queueSize) + k) % queueSize
            = IF k = queueSize - 1 THEN head ELSE (head + (k + 1)) % queueSize
    BY <1>3, <2>1, SlotFromNext
  <2>3. k = queueSize - 1 => (head + (k + 1)) % queueSize = head
    BY <1>3, <2>1
  <2>4. count' = k
    BY <1>1, <2>1
  <2> QED
    BY <1>1, <1>3, <2>1, <2>2, <2>3, <2>4
<1>5. ASSUME NEW i \in 0 .. queueSize - 1
      PROVE  queue'[(head' + i) % queueSize] =
                 IF i < count' THEN added' - count' + 1 + i ELSE 0
  <2> DEFINE s == (head' + i) % queueSize
             j == IF i = queueSize - 1 THEN 0 ELSE i + 1
  <2>0. /\ j \in 0 .. queueSize - 1
        /\ j = IF i = queueSize - 1 THEN 0 ELSE i + 1
    BY <1>3
  <2> HIDE DEF j
  <2>1. /\ s \in 0 .. queueSize - 1
        /\ s = (head + j) % queueSize
        /\ s = head <=> j = 0
    <3>1. s = IF i = queueSize - 1 THEN head ELSE (head + (i + 1)) % queueSize
      BY <1>1, <1>3, SlotFromNext
    <3>2. (head + 0) % queueSize = head
      BY <1>3
    <3>3. s = (head + j) % queueSize
      BY <2>0, <3>1, <3>2
    <3>4. (head + j) % queueSize =
              IF head + j < queueSize THEN head + j ELSE head + j - queueSize
      BY <1>3, <2>0
    <3> HIDE DEF s
    <3> QED
      BY <1>3, <2>0, <3>3, <3>4
  <2>2. queue[s] = IF j < count THEN added - count + 1 + j ELSE 0
    <3>1. queue[(head + j) % queueSize] =
              IF j < count THEN added - count + 1 + j ELSE 0
      <4>1. queueSize > 0
        BY <1>3
      <4> QED
        BY <2>0, <4>1, Zenon DEF RingHoldsTheTasks
    <3> QED
      BY <2>1, <3>1
  <2>3. queue'[s] = IF s = head THEN 0 ELSE queue[s]
    BY <1>1, <1>3, <2>1
  <2> HIDE DEF s
  <2>4. queue'[s] = IF i < count' THEN added' - count' + 1 + i ELSE 0
    BY <1>1, <1>3, <2>0, <2>1, <2>2, <2>3
  <2> QED
    BY <2>4 DEF s
<1> QED
  BY <1>1, <1>4, <1>5 DEF RingHoldsTheTasks

\* Nobody else touches it.
LEMMA OthersKeepRing ==
    ASSUME PoolInvariant, RingHoldsTheTasks, [Next]_vars,
           ~\E c \in Callers : Add(c), ~\E w \in Workers : TakeTask(w),
           ~\E r \in Requests : Create(r[1], r[2])
    PROVE  RingHoldsTheTasks'
<1>1. UNCHANGED <<queueSize, queue, head, tail, count, added>>
  BY DEF Next, CreateThread, CreateFails, CallerNext, Destroy, DestroyAgain,
     JoinAll, Free, Lock, SpuriousWakeup, WorkerNext, Sleep, Leave, vars,
     poolVars, ringVars
<1> QED
  BY <1>1 DEF RingHoldsTheTasks

\* The ring holds the tasks that were added and not taken, in their order
\* (ThreadPool.cpp:60-72, 140-145).
THEOREM PoolKeepsTasks == Spec => []RingHoldsTheTasks
<1>1. Init => RingHoldsTheTasks
  BY DEF Init, RingHoldsTheTasks
<1>2. PoolInvariant /\ RingHoldsTheTasks /\ [Next]_vars => RingHoldsTheTasks'
  <2> SUFFICES ASSUME PoolInvariant, RingHoldsTheTasks, [Next]_vars
               PROVE  RingHoldsTheTasks'
    OBVIOUS
  <2>1. ASSUME NEW r \in Requests, Create(r[1], r[2])
        PROVE  RingHoldsTheTasks'
    <3> DEFINE q == Sizes(r[1], r[2])[2]
    <3>1. q \in Nat \ {0}
      BY PoolAssumption DEF Sizes
    <3>2. /\ head = 0 /\ tail = 0 /\ count = 0 /\ queueSize' = q
          /\ queue' = [i \in 0 .. q - 1 |-> 0]
          /\ UNCHANGED <<head, tail, count, added>>
      BY <2>1 DEF Create, PoolInvariant, SizesFit
    <3> HIDE DEF q
    <3>3. \A i \in 0 .. q - 1 : (0 + i) % q \in 0 .. q - 1
      BY <3>1, Wraps
    <3>4. (0 + 0) % q = 0
      BY <3>1, Wraps
    <3> QED
      BY <3>1, <3>2, <3>3, <3>4 DEF RingHoldsTheTasks
  <2> QED
    BY <2>1, AddKeepsRing, TakeKeepsRing, OthersKeepRing
<1> QED
  BY <1>1, <1>2, PoolInvariantHolds, PTL DEF Spec
=============================================================================
