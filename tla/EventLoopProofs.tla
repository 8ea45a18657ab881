-------------------------- MODULE EventLoopProofs --------------------------
(***************************************************************************)
(* Theorems about EventLoop for every set of callers, of functors and of   *)
(* callers that may quit: types, the wakeup protocol, and the simulation   *)
(* of TaskQueue.                                                           *)
(***************************************************************************)
EXTENDS EventLoop, SequenceTheorems, TLAPS

(***************************************************************************)
(* Types.                                                                  *)
(***************************************************************************)
USE CallersAssumption

\* The masks of the wakeup channel once the constructor has added it.
LEMMA WakeChannelBuilt ==
    UpdateLastEvents(SetEvents(NewChannel, WakeMask))
        = [events |-> WakeMask, lastEvents |-> WakeMask]
<1>1. SetEvents(NewChannel, WakeMask) = [events |-> WakeMask, lastEvents |-> {}]
  BY Z3 DEF SetEvents, NewChannel
<1>2. UpdateLastEvents([events |-> WakeMask, lastEvents |-> {}])
        = [events |-> WakeMask, lastEvents |-> WakeMask]
  BY Z3 DEF UpdateLastEvents
<1> QED
  BY <1>1, <1>2

\* Every variable of the loop keeps its type (EventLoop.cpp:19-114).
THEOREM TypeCorrect == Steps => []TypeOK
<1>1. Init => TypeOK
  <2>1. UpdateLastEvents(SetEvents(NewChannel, WakeMask))
            = [events |-> WakeMask, lastEvents |-> WakeMask]
    BY WakeChannelBuilt
  <2>2. WakeMask \in SUBSET Flag
    BY DEF WakeMask, Flag
  <2>3. [events |-> WakeMask, lastEvents |-> WakeMask] \in ChannelType
    BY <2>2 DEF ChannelType
  <2> SUFFICES ASSUME Init
               PROVE  TypeOK
    OBVIOUS
  <2>4. chan \in ChannelType /\ kernelMask \in SUBSET Flag
    BY <2>1, <2>2, <2>3 DEF Init
  <2>5. /\ pending \in Seq(Tasks)
        /\ functors \in Seq(Tasks)
        /\ executed \in Seq(Tasks)
    BY DEF Init
  <2>6. /\ active \in SUBSET {Wake, Other}
        /\ posted \in SUBSET Tasks
        /\ quitters \in SUBSET Quitters
        /\ callerPc \in [Callers -> {"idle", "wakeup"}]
    BY DEF Init
  <2> QED
    BY <2>4, <2>5, <2>6 DEF Init, TypeOK
<1>2. TypeOK /\ [Next]_vars => TypeOK'
  <2> SUFFICES ASSUME TypeOK, [Next]_vars
               PROVE  TypeOK'
    OBVIOUS
  <2> USE DEF TypeOK, loopVars, wakeVars, callerVars
  <2>1. ASSUME NEW t \in Callers, NEW k \in Tasks, QueueInLoop(t, k)
        PROVE  TypeOK'
    BY <2>1 DEF QueueInLoop
  <2>2. ASSUME NEW t \in Quitters, Quit(t)
        PROVE  TypeOK'
    BY <2>2 DEF Quit
  <2>3. ASSUME NEW t \in Callers, Wakeup(t)
        PROVE  TypeOK'
    BY <2>3 DEF Wakeup, WriteEventFd
  <2>4. CASE LoopStart
    BY <2>4 DEF LoopStart
  <2>5. CASE LoopTest
    BY <2>5 DEF LoopTest
  <2>6. ASSUME NEW others \in SUBSET {Other}, Poll(others)
        PROVE  TypeOK'
    BY <2>6 DEF Poll, SetEvents, ChannelType
  <2>7. CASE HandleWake
    BY <2>7 DEF HandleWake, SetEvents, UpdateLastEvents, ModMask, ChannelType,
                WakeMask, Flag
  <2>8. CASE HandleOther
    BY <2>8 DEF HandleOther
  <2>9. ASSUME NEW k \in Tasks, QueueFromLoop(k)
        PROVE  TypeOK'
    BY <2>9 DEF QueueFromLoop, WriteEventFd
  <2>10. CASE BeginPending
    BY <2>10 DEF BeginPending
  <2>11. CASE Swap
    BY <2>11 DEF Swap
  <2>12. CASE RunFunctor
    BY <2>12 DEF RunFunctor
  <2>13. CASE FunctorReturns
    BY <2>13 DEF FunctorReturns
  <2>14. CASE EndPending
    BY <2>14 DEF EndPending
  <2>15. CASE UNCHANGED vars
    BY <2>15 DEF vars
  <2> QED
    BY <2>1, <2>2, <2>3, <2>4, <2>5, <2>6, <2>7, <2>8, <2>9, <2>10, <2>11,
       <2>12, <2>13, <2>14, <2>15 DEF Next, CallerNext, LoopNext
<1> QED
  BY <1>1, <1>2, PTL DEF Steps

(***************************************************************************)
(* The wakeup protocol.                                                    *)
(***************************************************************************)
\* What the wakeup protocol looks like when the loop starts.
LEMMA WakeupProtocolInit == Init => WakeupProtocol
  <1>1. UpdateLastEvents(SetEvents(NewChannel, WakeMask))
            = [events |-> WakeMask, lastEvents |-> WakeMask]
    BY WakeChannelBuilt
  <1> QED
    BY <1>1 DEF Init, WakeupProtocol, PendingPhase, WakeChannelArmed,
       CounterHasEdge, PendingHasSignal, QuitHasSignal

\* The step of another thread keeps the protocol: a caller changes the
\* vector or the flag and is then about to write the eventfd.
LEMMA CallerKeepsProtocol ==
    ASSUME TypeOK, WakeupProtocol, CallerNext
    PROVE  WakeupProtocol'
  <1> USE DEF TypeOK, WakeupProtocol, PendingPhase, WakeChannelArmed,
              CounterHasEdge, PendingHasSignal, QuitHasSignal, WakeupComing,
              loopVars, wakeVars, callerVars
  <1>1. ASSUME NEW t \in Callers, NEW k \in Tasks, QueueInLoop(t, k)
        PROVE  WakeupProtocol'
    BY <1>1 DEF QueueInLoop
  <1>2. ASSUME NEW t \in Quitters, Quit(t)
        PROVE  WakeupProtocol'
    BY <1>2 DEF Quit
  <1>3. ASSUME NEW t \in Callers, Wakeup(t)
        PROVE  WakeupProtocol'
    <2>1. "IN" \in kernelMask
      BY DEF WakeMask
    <2>2. ready'
      BY <1>3, <2>1, Zenon DEF Wakeup, WriteEventFd
    <2>3. count' > 0
      BY <1>3 DEF Wakeup, WriteEventFd
    <2> QED
      BY <1>3, <2>2, <2>3 DEF Wakeup, WriteEventFd
  <1> QED
    BY <1>1, <1>2, <1>3 DEF CallerNext

\* So does every step of the loop's own thread.
LEMMA LoopKeepsProtocol ==
    ASSUME TypeOK, WakeupProtocol, LoopNext
    PROVE  WakeupProtocol'
  <1> USE DEF TypeOK, WakeupProtocol, PendingPhase, WakeChannelArmed,
              CounterHasEdge, PendingHasSignal, QuitHasSignal, WakeupComing,
              loopVars, wakeVars, callerVars
  <1>1. CASE LoopStart
    BY <1>1 DEF LoopStart
  <1>2. CASE LoopTest
    BY <1>2 DEF LoopTest
  <1>3. ASSUME NEW others \in SUBSET {Other}, Poll(others)
        PROVE  WakeupProtocol'
    BY <1>3 DEF Poll, SetEvents, ChannelType, WakeReported, WakeMask
  <1>4. CASE HandleWake
    BY <1>4 DEF HandleWake, SetEvents, UpdateLastEvents, ModMask, SameAsLast,
                ChannelType
  <1>5. CASE HandleOther
    BY <1>5 DEF HandleOther, Wake, Other
  <1>6. ASSUME NEW k \in Tasks, QueueFromLoop(k)
        PROVE  WakeupProtocol'
    <2>1. CASE ~calling
      BY <1>6, <2>1 DEF QueueFromLoop
    <2>2. CASE calling
      <3>1. WriteEventFd
        BY <1>6, <2>2 DEF QueueFromLoop
      <3>2. "IN" \in kernelMask
        BY DEF WakeMask
      <3>3. ready'
        BY <3>1, <3>2, Zenon DEF WriteEventFd
      <3>4. count' > 0
        BY <3>1 DEF WriteEventFd
      <3> QED
        BY <1>6, <3>1, <3>3, <3>4 DEF QueueFromLoop, WriteEventFd
    <2> QED
      BY <2>1, <2>2
  <1>7. CASE BeginPending
    BY <1>7 DEF BeginPending
  <1>8. CASE Swap
    BY <1>8 DEF Swap
  <1>9. CASE RunFunctor
    BY <1>9 DEF RunFunctor
  <1>10. CASE FunctorReturns
    BY <1>10 DEF FunctorReturns
  <1>11. CASE EndPending
    BY <1>11 DEF EndPending
  <1> QED
    BY <1>1, <1>2, <1>3, <1>4, <1>5, <1>6, <1>7, <1>8, <1>9, <1>10, <1>11
       DEF LoopNext

\* The inductive invariant (EventLoop.cpp:42-115), for every set of callers
\* and any number of functors.
THEOREM ProtocolHolds == Steps => []WakeupProtocol
<1>1. TypeOK /\ WakeupProtocol /\ [Next]_vars => WakeupProtocol'
  <2>1. CASE UNCHANGED vars
    BY <2>1 DEF vars, WakeupProtocol, PendingPhase, WakeChannelArmed,
       CounterHasEdge, PendingHasSignal, QuitHasSignal, WakeupComing
  <2> QED
    BY <2>1, CallerKeepsProtocol, LoopKeepsProtocol DEF Next
<1> QED
  BY <1>1, TypeCorrect, WakeupProtocolInit, PTL DEF Steps

\* No wakeup is lost (EventLoop.cpp:77-93): a loop blocked in epoll_wait with
\* a functor or a stop outstanding has an event to be reported, or a thread
\* that is about to cause one.
THEOREM WakeupsAreNotLost == Steps => []NoLostWakeup
<1>1. TypeOK /\ WakeupProtocol => NoLostWakeup
  BY DEF TypeOK, WakeupProtocol, PendingPhase, WakeChannelArmed,
     CounterHasEdge, PendingHasSignal, QuitHasSignal, NoLostWakeup,
     WakeReported, WakeMask
<1> QED
  BY <1>1, TypeCorrect, ProtocolHolds, PTL

(***************************************************************************)
(* The simulation of TaskQueue.                                            *)
(***************************************************************************)
\* Every functor in a vector or already run was handed over before.
HandedOver ==
    /\ pending \in Seq(posted)
    /\ functors \in Seq(posted)
    /\ executed \in Seq(posted)

\* Handing a functor over keeps HandedOver.
LEMMA PostKeepsHandedOver ==
    ASSUME HandedOver, NEW k, pending' = Append(pending, k),
           posted' = posted \cup {k}, functors' = functors,
           executed' = executed
    PROVE  HandedOver'
<1>1. posted \subseteq posted' /\ k \in posted'
  OBVIOUS
<1>2. /\ pending \in Seq(posted')
      /\ functors \in Seq(posted')
      /\ executed \in Seq(posted')
  BY <1>1, SeqMonotonic DEF HandedOver
<1> QED
  BY <1>1, <1>2, AppendProperties DEF HandedOver

\* No functor runs that nobody queued (EventLoop.cpp:77-85, 104-115).
THEOREM OnlyQueuedFunctors == Steps => []HandedOver
<1>1. Init => HandedOver
  BY DEF Init, HandedOver
<1>2. TypeOK /\ HandedOver /\ [Next]_vars => HandedOver'
  <2> SUFFICES ASSUME TypeOK, HandedOver, [Next]_vars
               PROVE  HandedOver'
    OBVIOUS
  <2> USE DEF loopVars, wakeVars, callerVars
  <2>1. ASSUME NEW t \in Callers, NEW k \in Tasks, QueueInLoop(t, k)
        PROVE  HandedOver'
    BY <2>1, PostKeepsHandedOver DEF QueueInLoop
  <2>2. ASSUME NEW k \in Tasks, QueueFromLoop(k)
        PROVE  HandedOver'
    BY <2>2, PostKeepsHandedOver DEF QueueFromLoop
  <2>3. CASE Swap
    BY <2>3 DEF Swap, HandedOver
  <2>4. CASE RunFunctor
    <3>1. Head(functors) \in posted /\ Tail(functors) \in Seq(posted)
      BY <2>4, HeadTailProperties DEF RunFunctor, HandedOver
    <3>2. Append(executed, Head(functors)) \in Seq(posted)
      BY <3>1, AppendProperties DEF HandedOver
    <3> QED
      BY <2>4, <3>1, <3>2 DEF RunFunctor, HandedOver
  <2>5. CASE UNCHANGED <<pending, functors, executed, posted>>
    BY <2>5 DEF HandedOver
  <2>6. ASSUME NEW t \in Callers, Quit(t) \/ Wakeup(t)
        PROVE  HandedOver'
    BY <2>5, <2>6 DEF Quit, Wakeup
  <2>7. ASSUME NEW others \in SUBSET {Other}, Poll(others)
        PROVE  HandedOver'
    BY <2>5, <2>7 DEF Poll
  <2>8. CASE LoopStart \/ LoopTest \/ HandleWake \/ HandleOther
             \/ BeginPending \/ FunctorReturns \/ EndPending
    BY <2>5, <2>8 DEF LoopStart, LoopTest, HandleWake, HandleOther,
       BeginPending, FunctorReturns, EndPending
  <2>9. CASE UNCHANGED vars
    BY <2>5, <2>9 DEF vars
  <2> QED
    BY <2>1, <2>2, <2>3, <2>4, <2>6, <2>7, <2>8, <2>9, CallersAssumption
       DEF Next, CallerNext, LoopNext
<1> QED
  BY <1>1, <1>2, TypeCorrect, PTL DEF Steps

\* A step that leaves the queue's three variables alone is a stutter.
LEMMA QuietStep ==
    ASSUME UNCHANGED <<pending, functors, executed>>,
           (loopPc = "stopped") = (loopPc' = "stopped")
    PROVE  UNCHANGED Promise!vars
BY DEF Promise!vars

\* Handing a functor over is a Post of TaskQueue.
LEMMA PostStep ==
    ASSUME HandedOver, NEW k \in Tasks, k \notin posted,
           pending' = Append(pending, k),
           UNCHANGED <<functors, executed, loopPc>>
    PROVE  Promise!Post(k)
<1>1. (functors \o pending) \o executed \in Seq(posted)
  BY ConcatProperties DEF HandedOver
<1>2. Promise!Fresh(k)
  BY <1>1, ElementOfSeq DEF Promise!Fresh
<1> DEFINE S == posted \cup {k}
<1>3. functors \in Seq(S) /\ pending \in Seq(S) /\ <<k>> \in Seq(S)
  BY SeqMonotonic DEF HandedOver
<1>4. pending' = pending \o <<k>>
  BY <1>3, AppendIsConcat
<1>5. functors \o pending' = (functors \o pending) \o <<k>>
  BY <1>3, <1>4, ConcatAssociative
<1>6. Append(functors \o pending, k) = (functors \o pending) \o <<k>>
  BY <1>3, ConcatProperties, AppendIsConcat
<1> QED
  BY <1>2, <1>5, <1>6 DEF Promise!Post

\* A functor that starts is a Run of TaskQueue: it was the oldest one.
LEMMA RunStep ==
    ASSUME TypeOK, RunFunctor
    PROVE  Promise!Run
<1> USE DEF TypeOK, RunFunctor
<1>1. functors # <<>>
  OBVIOUS
<1>2. functors \o pending # <<>>
  BY <1>1, ConcatEqualIffEmpty
<1>3. Head(functors \o pending) = Head(functors)
  BY <1>1
<1>4. Tail(functors \o pending) = Tail(functors) \o pending
  BY <1>1
<1> QED
  BY <1>2, <1>3, <1>4 DEF Promise!Run

\* EventLoop simulates TaskQueue (EventLoop.cpp:77-85, 104-115): functors run
\* at most once and in the order in which they were handed over.
THEOREM SimulatesTaskQueue == Steps => Promise!Init /\ [][Promise!Next]_(Promise!vars)
<1>1. Init => Promise!Init
  BY ConcatEmptySeq DEF Init, Promise!Init
<1>2. TypeOK /\ WakeupProtocol /\ HandedOver /\ [Next]_vars
          => [Promise!Next]_(Promise!vars)
  <2> SUFFICES ASSUME TypeOK, WakeupProtocol, HandedOver, [Next]_vars
               PROVE  Promise!Next \/ UNCHANGED Promise!vars
    OBVIOUS
  <2> USE DEF loopVars, wakeVars, callerVars
  <2>1. ASSUME NEW t \in Callers, NEW k \in Tasks, QueueInLoop(t, k)
        PROVE  Promise!Next
    BY <2>1, PostStep DEF QueueInLoop, Promise!Next
  <2>2. ASSUME NEW k \in Tasks, QueueFromLoop(k)
        PROVE  Promise!Next
    BY <2>2, PostStep DEF QueueFromLoop, Promise!Next
  <2>3. CASE RunFunctor
    BY <2>3, RunStep DEF Promise!Next
  <2>4. CASE Swap
    <3>1. functors = <<>>
      BY <2>4 DEF Swap, WakeupProtocol, PendingPhase
    <3>2. functors' \o pending' = functors \o pending
      BY <2>4, <3>1, ConcatEmptySeq DEF Swap, TypeOK
    <3> QED
      BY <2>4, <3>2 DEF Swap, Promise!vars
  <2>5. CASE LoopTest
    BY <2>5 DEF LoopTest, Promise!Next, Promise!Stop, Promise!vars
  <2>6. ASSUME NEW t \in Callers, Quit(t) \/ Wakeup(t)
        PROVE  UNCHANGED Promise!vars
    BY <2>6, QuietStep DEF Quit, Wakeup
  <2>7. ASSUME NEW others \in SUBSET {Other}, Poll(others)
        PROVE  UNCHANGED Promise!vars
    BY <2>7, QuietStep DEF Poll
  <2>8. CASE LoopStart \/ HandleWake \/ HandleOther
             \/ BeginPending \/ FunctorReturns \/ EndPending
    BY <2>8, QuietStep DEF LoopStart, HandleWake, HandleOther,
       BeginPending, FunctorReturns, EndPending
  <2>9. CASE UNCHANGED vars
    BY <2>9, QuietStep DEF vars
  <2> QED
    BY <2>1, <2>2, <2>3, <2>4, <2>5, <2>6, <2>7, <2>8, <2>9, CallersAssumption
       DEF Next, CallerNext, LoopNext
<1> QED
  BY <1>1, <1>2, TypeCorrect, ProtocolHolds, OnlyQueuedFunctors, PTL DEF Steps
=============================================================================
