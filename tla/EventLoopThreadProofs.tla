----------------------- MODULE EventLoopThreadProofs -----------------------
(***************************************************************************)
(* Theorems about EventLoopThread, for every set of users and of functors: *)
(* what a loop does in its thread is what EventLoop allows, so that the    *)
(* theorems of EventLoopProofs hold of it; and the loop outlives the calls *)
(* of everybody but the destructor.                                        *)
(***************************************************************************)
EXTENDS EventLoopThread, EventLoopProofs

(***************************************************************************)
(* The loop in its thread is an EventLoop.                                 *)
(***************************************************************************)
\* A step of the thread, of its owner or of a user is a step of the loop or
\* leaves it alone.
LEMMA ThreadStepIsLoopStep ==
    ASSUME [ThreadNext]_threadVars
    PROVE  [Next]_vars
<1>1. Owner \in Quitters /\ Owner \in Callers
  BY OwnerAssumption
<1>2. CASE OwnerNext
  BY <1>1, <1>2 DEF OwnerNext, StartThread, LatchOpens, StartLoopReturns,
     BeginDestroy, DestroyQuits, Join, Next, CallerNext
<1>3. CASE UserNext
  BY <1>3 DEF UserNext, UseLoop, FinishCall, Next, CallerNext
<1>4. CASE CountDown \/ PublishLoop \/ ClearLoop \/ EndThread
  BY <1>4 DEF CountDown, PublishLoop, ClearLoop, EndThread
<1>5. CASE RunLoop
  BY <1>5 DEF RunLoop, Next
<1>6. CASE UNCHANGED threadVars
  BY <1>6 DEF threadVars
<1> QED
  BY <1>2, <1>3, <1>4, <1>5, <1>6 DEF ThreadNext

\* The thread implements the loop (EventLoopThread.cpp:15-46): it calls
\* nothing of the loop that the other threads may not call.
THEOREM ThreadRunsLoop == ThreadSpec => Steps
<1>1. ThreadInit => Init
  BY DEF ThreadInit
<1>2. [ThreadNext]_threadVars => [Next]_vars
  BY ThreadStepIsLoopStep
<1> QED
  BY <1>1, <1>2, PTL DEF ThreadSpec, Steps

\* The wakeup protocol (EventLoop.cpp:42-114) holds of a loop that its thread
\* starts and its owner stops.
THEOREM ThreadProtocolHolds == ThreadSpec => []WakeupProtocol
BY ThreadRunsLoop, ProtocolHolds, PTL

\* No wakeup of such a loop is lost (EventLoop.cpp:77-93), the one that the
\* destructor's quit() owes it included.
THEOREM ThreadWakeupsAreNotLost == ThreadSpec => []NoLostWakeup
BY ThreadRunsLoop, WakeupsAreNotLost, PTL

\* Functors run at most once and in the order of the hand-over
\* (EventLoop.cpp:77-85, 104-115) until the thread is stopped.
THEOREM ThreadSimulatesTaskQueue ==
    ThreadSpec => Promise!Init /\ [][Promise!Next]_(Promise!vars)
BY ThreadRunsLoop, SimulatesTaskQueue, PTL

(***************************************************************************)
(* The life of the loop.                                                   *)
(***************************************************************************)
\* The positions of owner and thread and the pointer keep their types.
LifeTypeOK ==
    /\ owner \in OwnerPc
    /\ thread \in ThreadPc
    /\ loopSet \in BOOLEAN

\* Every variable of the thread and its loop keeps its type
\* (EventLoopThread.cpp:7-46, Thread.cpp:50-107).
THEOREM ThreadTypeCorrect == ThreadSpec => []ThreadTypeOK
<1>1. ThreadInit => LifeTypeOK
  BY Zenon DEF ThreadInit, LifeTypeOK, OwnerPc, ThreadPc
<1>2. LifeTypeOK /\ [ThreadNext]_threadVars => LifeTypeOK'
  <2> SUFFICES ASSUME LifeTypeOK, [ThreadNext]_threadVars
               PROVE  LifeTypeOK'
    OBVIOUS
  <2> USE DEF LifeTypeOK, OwnerPc, ThreadPc, lifeVars
  <2>1. CASE OwnerNext
    BY <2>1 DEF OwnerNext, StartThread, LatchOpens, StartLoopReturns,
       BeginDestroy, DestroyQuits, Join
  <2>2. CASE UserNext
    BY <2>2 DEF UserNext, UseLoop, FinishCall
  <2>3. CASE CountDown \/ PublishLoop \/ ClearLoop \/ EndThread
    BY <2>3 DEF CountDown, PublishLoop, ClearLoop, EndThread
  <2>4. CASE RunLoop
    BY <2>4 DEF RunLoop
  <2>5. CASE UNCHANGED threadVars
    BY <2>5 DEF threadVars
  <2> QED
    BY <2>1, <2>2, <2>3, <2>4, <2>5 DEF ThreadNext
<1>3. TypeOK /\ LifeTypeOK => ThreadTypeOK
  BY DEF ThreadTypeOK, LifeTypeOK
<1>4. ThreadSpec => []TypeOK
  BY ThreadRunsLoop, TypeCorrect, PTL
<1> QED
  BY <1>1, <1>2, <1>3, <1>4, PTL DEF ThreadSpec

\* The inductive invariant behind LoopOutlivesItsCalls: m_loop is set while
\* the thread is in its loop; there is no thread before startLoop; nothing
\* stops the loop before the destructor has set the flag; and who is inside a call is a user of a running object,
\* or the destructor.
PointerMeansLooping == loopSet <=> thread = "looping"

OwnerHasLoop ==
    /\ owner = "new" => thread = "none"
    /\ owner \in {"running", "quit"} => thread = "looping"

NotStopped ==
    owner \in {"new", "latch", "loop", "running", "quit"}
        => ~quit /\ loopPc # "stopped"

CallsAreAccounted ==
    \A t \in Callers :
        callerPc[t] = "wakeup"
            => owner = "running" \/ (owner = "wakeup" /\ t = Owner)

LifeInvariant ==
    /\ PointerMeansLooping
    /\ OwnerHasLoop
    /\ NotStopped
    /\ CallsAreAccounted

\* The loop does not stop by itself, and calls for nobody.
LEMMA LoopKeepsGoing ==
    ASSUME LoopNext
    PROVE  /\ ~quit /\ loopPc # "stopped" => ~quit' /\ loopPc' # "stopped"
           /\ callerPc' = callerPc
<1> USE DEF callerVars, loopVars, wakeVars
<1>1. CASE LoopStart \/ LoopTest
  BY <1>1 DEF LoopStart, LoopTest
<1>2. ASSUME NEW others \in SUBSET {Other}, Poll(others)
      PROVE  /\ ~quit /\ loopPc # "stopped" => ~quit' /\ loopPc' # "stopped"
             /\ callerPc' = callerPc
  BY <1>2 DEF Poll
<1>3. CASE HandleWake \/ HandleOther
  BY <1>3 DEF HandleWake, HandleOther
<1>4. ASSUME NEW k \in Tasks, QueueFromLoop(k)
      PROVE  /\ ~quit /\ loopPc # "stopped" => ~quit' /\ loopPc' # "stopped"
             /\ callerPc' = callerPc
  BY <1>4 DEF QueueFromLoop
<1>5. CASE BeginPending \/ Swap \/ RunFunctor \/ FunctorReturns \/ EndPending
  BY <1>5 DEF BeginPending, Swap, RunFunctor, FunctorReturns, EndPending
<1> QED
  BY <1>1, <1>2, <1>3, <1>4, <1>5 DEF LoopNext

\* The owner keeps LifeInvariant: it stops the loop only when it is on its
\* way to the join.
LEMMA OwnerKeepsLife ==
    ASSUME TypeOK, LifeTypeOK, LifeInvariant, OwnerNext
    PROVE  LifeInvariant'
<1> USE DEF LifeInvariant, PointerMeansLooping, OwnerHasLoop, NotStopped,
            CallsAreAccounted, LifeTypeOK, vars, TypeOK
<1>0. callerPc \in [Callers -> {"idle", "wakeup"}]
  OBVIOUS
<1>1. ASSUME NEW created \in BOOLEAN, StartThread(created)
      PROVE  LifeInvariant'
  <2>1. thread' # "looping" /\ thread # "looping" /\ loopSet' = loopSet
    BY <1>1 DEF StartThread
  <2> QED
    BY <1>1, <2>1 DEF StartThread
<1>2. CASE LatchOpens
  BY <1>2 DEF LatchOpens
<1>3. CASE StartLoopReturns
  BY <1>3 DEF StartLoopReturns
<1>4. CASE BeginDestroy
  BY <1>4 DEF BeginDestroy
<1>5. CASE DestroyQuits
  <2>1. \A t \in Callers : callerPc'[t] = "wakeup" => t = Owner
    BY <1>0, <1>5 DEF DestroyQuits, Quit
  <2> QED
    BY <1>5, <2>1 DEF DestroyQuits, Quit, loopVars
<1>6. CASE Join
  BY <1>6 DEF Join
<1> QED
  BY <1>1, <1>2, <1>3, <1>4, <1>5, <1>6 DEF OwnerNext

\* So do the users and the thread.
LEMMA OthersKeepLife ==
    ASSUME TypeOK, LifeTypeOK, LifeInvariant,
           UserNext \/ CountDown \/ PublishLoop \/ RunLoop \/ ClearLoop
           \/ EndThread
    PROVE  LifeInvariant'
<1> USE DEF LifeInvariant, PointerMeansLooping, OwnerHasLoop, NotStopped,
            CallsAreAccounted, LifeTypeOK, vars, lifeVars, loopVars, TypeOK
<1>1. ASSUME NEW t \in Callers, NEW k \in Tasks, UseLoop(t, k)
      PROVE  LifeInvariant'
  BY <1>1 DEF UseLoop, QueueInLoop
<1>2. ASSUME NEW t \in Callers, FinishCall(t)
      PROVE  LifeInvariant'
  <2>1. /\ callerPc' = [callerPc EXCEPT ![t] = "idle"]
        /\ quit' = quit /\ loopPc' = loopPc
        /\ thread' = thread /\ loopSet' = loopSet
    BY <1>2 DEF FinishCall, Wakeup
  <2>2. owner' = owner \/ (t = Owner /\ owner = "wakeup" /\ owner' = "join")
    BY <1>2 DEF FinishCall
  <2>3. \A u \in Callers : callerPc'[u] = "wakeup"
            => u # t /\ callerPc[u] = "wakeup"
    BY <2>1
  <2> QED
    BY <2>1, <2>2, <2>3
<1>3. CASE CountDown \/ EndThread
  BY <1>3 DEF CountDown, EndThread
<1>4. CASE PublishLoop
  BY <1>4 DEF PublishLoop
<1>5. CASE RunLoop
  BY <1>5, LoopKeepsGoing DEF RunLoop
<1>6. CASE ClearLoop
  BY <1>6 DEF ClearLoop
<1> QED
  BY <1>1, <1>2, <1>3, <1>4, <1>5, <1>6 DEF UserNext

\* LifeInvariant holds (EventLoopThread.cpp:15-46).
THEOREM LifeInvariantHolds == ThreadSpec => []LifeInvariant
<1>1. ThreadInit => LifeInvariant
  BY DEF ThreadInit, Init, LifeInvariant, PointerMeansLooping, OwnerHasLoop,
     NotStopped, CallsAreAccounted
<1>2. ThreadTypeOK /\ LifeInvariant /\ [ThreadNext]_threadVars
          => LifeInvariant'
  <2> SUFFICES ASSUME ThreadTypeOK, LifeInvariant, [ThreadNext]_threadVars
               PROVE  LifeInvariant'
    OBVIOUS
  <2>1. TypeOK /\ LifeTypeOK
    BY DEF ThreadTypeOK, LifeTypeOK
  <2>2. CASE UNCHANGED threadVars
    BY <2>2 DEF threadVars, vars, lifeVars, LifeInvariant,
       PointerMeansLooping, OwnerHasLoop, NotStopped, CallsAreAccounted
  <2> QED
    BY <2>1, <2>2, OwnerKeepsLife, OthersKeepLife DEF ThreadNext
<1> QED
  BY <1>1, <1>2, ThreadTypeCorrect, PTL DEF ThreadSpec

\* The loop outlives the calls of its users (EventLoopThread.cpp:15-46), and
\* of the destructor everything but the write at the end of quit().
THEOREM LoopOutlives == ThreadSpec => []LoopOutlivesItsCalls
<1>1. ThreadTypeOK /\ LifeInvariant => LoopOutlivesItsCalls
  BY DEF ThreadTypeOK, LifeInvariant, PointerMeansLooping, OwnerHasLoop,
     CallsAreAccounted, LoopOutlivesItsCalls, LoopGone
<1> QED
  BY <1>1, ThreadTypeCorrect, LifeInvariantHolds, PTL
=============================================================================
