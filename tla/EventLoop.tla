----------------------------- MODULE EventLoop -----------------------------
(***************************************************************************)
(* One EventLoop (WebServer/EventLoop.cpp): its own thread blocks in       *)
(* epoll_wait, other threads hand it functors with queueInLoop and wake it *)
(* through an eventfd registered edge-triggered.  In the server the only   *)
(* such thread is the main one, which hands every accepted connection to   *)
(* an I/O loop (Server.cpp:63).  EventLoopThread.tla adds the life of the  *)
(* thread.                                                                 *)
(*                                                                         *)
(* The loop thread's position is loopPc:                                   *)
(*   "start"   the object is built, loop() has not been entered            *)
(*   "test"    at `while(!m_quit)'                                         *)
(*   "poll"    in Epoll::poll                                              *)
(*   "handle"  running the handlers of the channels poll returned          *)
(*   "swap"    in doPendingFunctors, before the swap                       *)
(*   "run"     in doPendingFunctors, between two functors                  *)
(*   "exec"    inside a functor                                            *)
(*   "stopped" loop() returned                                             *)
(***************************************************************************)
EXTENDS Naturals, Sequences, FiniteSets, Channel

CONSTANTS
    Callers,            \* threads other than the loop's own
    Tasks,              \* functors; each is queued at most once
    Quitters            \* the callers that may call quit()

ASSUME CallersAssumption == Quitters \subseteq Callers

VARIABLES
    loopPc,
    quit,               \* m_quit
    calling,            \* m_callingPendingFunctors
    pending,            \* m_pendingFunctors, guarded by m_mutex
    functors,           \* the local vector of doPendingFunctors, what is left of it
    active,             \* the channels poll returned, not yet handled
    chan,               \* the masks of m_pwakeupChannel
    kernelMask,         \* the mask epoll holds for m_wakeupFd
    count,              \* the eventfd's counter
    ready,              \* epoll's ready list holds m_wakeupFd
    callerPc,           \* "idle", or "wakeup": before the write in wakeup()
    posted,             \* history: functors handed over
    executed,           \* history: functors run, in order
    quitters            \* history: callers that have called quit()

loopVars   == <<loopPc, calling, functors, active, executed>>
wakeVars   == <<chan, kernelMask, count, ready>>
callerVars == <<callerPc, quitters>>
vars == <<loopPc, quit, calling, pending, functors, active, chan, kernelMask,
          count, ready, callerPc, posted, executed, quitters>>

Wake  == "wakeup channel"
Other == "another channel"      \* every connection or listening socket

WakeMask == {"IN", "ET"}

TypeOK ==
    /\ loopPc \in {"start", "test", "poll", "handle", "swap", "run", "exec",
                   "stopped"}
    /\ quit \in BOOLEAN
    /\ calling \in BOOLEAN
    /\ pending \in Seq(Tasks)
    /\ functors \in Seq(Tasks)
    /\ active \in SUBSET {Wake, Other}
    /\ chan \in ChannelType
    /\ kernelMask \in SUBSET Flag
    /\ count \in Nat
    /\ ready \in BOOLEAN
    /\ callerPc \in [Callers -> {"idle", "wakeup"}]
    /\ posted \in SUBSET Tasks
    /\ executed \in Seq(Tasks)
    /\ quitters \in SUBSET Quitters

(***************************************************************************)
(* EventLoop::EventLoop: the eventfd is created with 0 and its channel is  *)
(* added to the poller with EPOLLIN | EPOLLET.                             *)
(***************************************************************************)
Init ==
    /\ loopPc = "start"
    /\ quit = FALSE
    /\ calling = FALSE
    /\ pending = <<>>
    /\ functors = <<>>
    /\ active = {}
    /\ chan = UpdateLastEvents(SetEvents(NewChannel, WakeMask))
    /\ kernelMask = WakeMask
    /\ count = 0
    /\ ready = FALSE
    /\ callerPc = [t \in Callers |-> "idle"]
    /\ posted = {}
    /\ executed = <<>>
    /\ quitters = {}

(***************************************************************************)
(* The kernel (external).  A write to an eventfd adds to its counter and   *)
(* is an edge every time; a descriptor on the ready list is reported only  *)
(* while its file is readable and the mask asks for it.                    *)
(***************************************************************************)
WriteEventFd ==
    /\ count' = count + 1
    /\ ready' = (ready \/ "IN" \in kernelMask)
    /\ UNCHANGED <<chan, kernelMask>>

WakeReported == ready /\ count > 0 /\ "IN" \in kernelMask

(***************************************************************************)
(* The other threads.  queueInLoop appends under m_mutex and then, outside *)
(* it, writes to the eventfd; quit sets the flag and then writes.          *)
(***************************************************************************)
QueueInLoop(t, k) ==
    /\ callerPc[t] = "idle"
    /\ k \notin posted
    /\ pending' = Append(pending, k)
    /\ posted' = posted \cup {k}
    /\ callerPc' = [callerPc EXCEPT ![t] = "wakeup"]
    /\ UNCHANGED <<loopVars, wakeVars, quit, quitters>>

Quit(t) ==
    /\ callerPc[t] = "idle"
    /\ t \notin quitters
    /\ quit' = TRUE
    /\ quitters' = quitters \cup {t}
    /\ callerPc' = [callerPc EXCEPT ![t] = "wakeup"]
    /\ UNCHANGED <<loopVars, wakeVars, pending, posted>>

Wakeup(t) ==
    /\ callerPc[t] = "wakeup"
    /\ WriteEventFd
    /\ callerPc' = [callerPc EXCEPT ![t] = "idle"]
    /\ UNCHANGED <<loopVars, quit, pending, posted, quitters>>

(***************************************************************************)
(* EventLoop::loop, the loop's own thread.                                 *)
(***************************************************************************)
LoopStart ==
    /\ loopPc = "start"
    /\ quit' = FALSE
    /\ loopPc' = "test"
    /\ UNCHANGED <<wakeVars, callerVars, calling, pending, functors, active,
                   posted, executed>>

\* Mistaken variant: `while(m_quit)'.
LoopTestInverted ==
    /\ loopPc = "test"
    /\ loopPc' = IF quit THEN "poll" ELSE "stopped"
    /\ UNCHANGED <<wakeVars, callerVars, quit, calling, pending, functors,
                   active, posted, executed>>

LoopTest ==
    /\ loopPc = "test"
    /\ loopPc' = IF quit THEN "stopped" ELSE "poll"
    /\ UNCHANGED <<wakeVars, callerVars, quit, calling, pending, functors,
                   active, posted, executed>>

\* Epoll::poll returns once at least one channel has an event; `others' is
\* what epoll_wait reports beside the eventfd.  getEventsReqeust zeroes the
\* m_events of every channel it returns.
Poll(others) ==
    /\ loopPc = "poll"
    /\ active' = others \cup (IF WakeReported THEN {Wake} ELSE {})
    /\ active' # {}
    /\ chan' = IF WakeReported THEN SetEvents(chan, {}) ELSE chan
    /\ ready' = FALSE
    /\ loopPc' = "handle"
    /\ UNCHANGED <<callerVars, quit, calling, pending, functors, kernelMask,
                   count, posted, executed>>

\* Mistaken variant: handleRead does not set the mask that poll zeroed.
HandleWakeDisarms ==
    /\ loopPc = "handle"
    /\ Wake \in active
    /\ active' = active \ {Wake}
    /\ count' = 0
    /\ chan' = UpdateLastEvents(chan)
    /\ kernelMask' = ModMask(chan, kernelMask)
    /\ UNCHANGED <<callerVars, loopPc, quit, calling, pending, functors,
                   ready, posted, executed>>

\* Channel::handleEvents of the wakeup channel: EventLoop::handleRead drains
\* the eventfd and sets the mask again, EventLoop::handleConn updates the
\* poller with it.  An epoll_ctl that changes the mask re-arms the edge.
HandleWake ==
    LET ch == SetEvents(chan, WakeMask) IN
    /\ loopPc = "handle"
    /\ Wake \in active
    /\ active' = active \ {Wake}
    /\ count' = 0
    /\ chan' = UpdateLastEvents(ch)
    /\ kernelMask' = ModMask(ch, kernelMask)
    /\ UNCHANGED <<callerVars, loopPc, quit, calling, pending, functors,
                   ready, posted, executed>>

\* Mistaken variant: the handler of another channel drains the eventfd.
HandleOtherDrains ==
    /\ loopPc = "handle"
    /\ Other \in active
    /\ active' = active \ {Other}
    /\ count' = count - 1
    /\ UNCHANGED <<chan, kernelMask, ready, callerVars, loopPc, quit, calling,
                   pending, functors, posted, executed>>

\* Channel::handleEvents of any other channel.  It runs in the loop's thread,
\* where runInLoop calls its functor at once and changes nothing here.
HandleOther ==
    /\ loopPc = "handle"
    /\ Other \in active
    /\ active' = active \ {Other}
    /\ UNCHANGED <<wakeVars, callerVars, loopPc, quit, calling, pending,
                   functors, posted, executed>>

\* Mistaken variant: m_callingPendingFunctors is not looked at.
QueueFromLoopSilently(k) ==
    /\ \/ loopPc = "handle" /\ Other \in active
       \/ loopPc = "exec"
    /\ k \notin posted
    /\ pending' = Append(pending, k)
    /\ posted' = posted \cup {k}
    /\ UNCHANGED <<wakeVars, loopVars, callerVars, quit>>

\* queueInLoop called from the loop's own thread: by a handler, or by a
\* functor, in which case m_callingPendingFunctors makes it write the eventfd.
QueueFromLoop(k) ==
    /\ \/ loopPc = "handle" /\ Other \in active
       \/ loopPc = "exec"
    /\ k \notin posted
    /\ pending' = Append(pending, k)
    /\ posted' = posted \cup {k}
    /\ IF calling THEN WriteEventFd ELSE UNCHANGED wakeVars
    /\ UNCHANGED <<loopVars, callerVars, quit>>

BeginPending ==
    /\ loopPc = "handle"
    /\ active = {}
    /\ calling' = TRUE
    /\ loopPc' = "swap"
    /\ UNCHANGED <<wakeVars, callerVars, quit, pending, functors, active,
                   posted, executed>>

\* Mistaken variant: the vector is copied, not swapped out.
SwapCopies ==
    /\ loopPc = "swap"
    /\ functors' = pending
    /\ loopPc' = "run"
    /\ UNCHANGED <<wakeVars, callerVars, quit, calling, pending, active, posted,
                   executed>>

Swap ==
    /\ loopPc = "swap"
    /\ functors' = pending
    /\ pending' = <<>>
    /\ loopPc' = "run"
    /\ UNCHANGED <<wakeVars, callerVars, quit, calling, active, posted,
                   executed>>

RunFunctor ==
    /\ loopPc = "run"
    /\ functors # <<>>
    /\ executed' = Append(executed, Head(functors))
    /\ functors' = Tail(functors)
    /\ loopPc' = "exec"
    /\ UNCHANGED <<wakeVars, callerVars, quit, calling, pending, active,
                   posted>>

FunctorReturns ==
    /\ loopPc = "exec"
    /\ loopPc' = "run"
    /\ UNCHANGED <<wakeVars, callerVars, quit, calling, pending, functors,
                   active, posted, executed>>

\* Every functor has run; Epoll::handleExpired follows (Connections.tla).
EndPending ==
    /\ loopPc = "run"
    /\ functors = <<>>
    /\ calling' = FALSE
    /\ loopPc' = "test"
    /\ UNCHANGED <<wakeVars, callerVars, quit, pending, functors, active,
                   posted, executed>>

CallerNext ==
    \/ \E t \in Callers, k \in Tasks : QueueInLoop(t, k)
    \/ \E t \in Quitters : Quit(t)
    \/ \E t \in Callers : Wakeup(t)

LoopNext ==
    \/ LoopStart
    \/ LoopTest
    \/ \E others \in SUBSET {Other} : Poll(others)
    \/ HandleWake
    \/ HandleOther
    \/ \E k \in Tasks : QueueFromLoop(k)
    \/ BeginPending
    \/ Swap
    \/ RunFunctor
    \/ FunctorReturns
    \/ EndPending

Next == CallerNext \/ LoopNext

(***************************************************************************)
(* Fairness.  A running thread keeps running: the loop's thread is never   *)
(* descheduled for ever, handlers and functors return, and a caller that   *)
(* is about to write the eventfd does so.  Nothing obliges another thread  *)
(* to call, nor another descriptor to have an event: Poll is fair only     *)
(* when the kernel reports the eventfd.                                    *)
(***************************************************************************)
LoopProgress ==
    \/ LoopStart \/ LoopTest
    \/ WakeReported /\ \E others \in SUBSET {Other} : Poll(others)
    \/ HandleWake \/ HandleOther
    \/ BeginPending \/ Swap \/ RunFunctor \/ FunctorReturns \/ EndPending

Fairness ==
    /\ WF_vars(LoopProgress)
    /\ \A t \in Callers : WF_vars(Wakeup(t))

\* What the loop and its callers may do, and what they must.
Steps == Init /\ [][Next]_vars

Spec == Steps /\ Fairness

-----------------------------------------------------------------------------
(***************************************************************************)
(* Properties.                                                             *)
(***************************************************************************)

\* A caller is between changing the loop's state and writing the eventfd.
WakeupComing == \E t \in Callers : callerPc[t] = "wakeup"

\* No lost wakeup (EventLoop.cpp:77, 90): while the loop's thread is blocked
\* in epoll_wait, a functor nobody has taken or a stop nobody has seen is
\* accompanied by an event the kernel will report, or by a thread that is
\* about to write the eventfd.  At stake: the append and the write are two
\* steps, the drain and the swap are two steps, and the eventfd is
\* edge-triggered.
NoLostWakeup ==
    loopPc = "poll" /\ (pending # <<>> \/ quit) => WakeReported \/ WakeupComing

(***************************************************************************)
(* The inductive invariant behind NoLostWakeup, in parts.                  *)
(***************************************************************************)
\* Where doPendingFunctors is, by its flag and its local vector.
PendingPhase ==
    /\ calling <=> loopPc \in {"swap", "run", "exec"}
    /\ functors # <<>> => loopPc \in {"run", "exec"}
    /\ active # {} => loopPc = "handle"

\* The wakeup channel stays armed for edge-triggered reads, and believes so.
WakeChannelArmed ==
    /\ kernelMask = WakeMask
    /\ chan.lastEvents = WakeMask

\* A counter that is not zero has an edge the loop has not consumed, or is
\* about to be drained by the handler.
CounterHasEdge == count > 0 => ready \/ Wake \in active

\* Outside the window between the drain and the swap, a functor in the
\* shared vector has a signal of its own.
PendingHasSignal ==
    pending # <<>> /\ loopPc \notin {"handle", "swap", "stopped"}
        => count > 0 \/ WakeupComing

\* Once the flag has been tested, a later quit() has a signal of its own.
QuitHasSignal == quit /\ loopPc = "poll" => count > 0 \/ WakeupComing

\* The strengthening of NoLostWakeup (EventLoop.cpp:42-114) that every step
\* preserves.
WakeupProtocol ==
    /\ PendingPhase
    /\ WakeChannelArmed
    /\ CounterHasEdge
    /\ PendingHasSignal
    /\ QuitHasSignal

\* The loop does to its callers what TaskQueue promises: the functors still
\* to be run are those of the local vector followed by the shared one.
Promise == INSTANCE TaskQueue WITH
               queue <- functors \o pending,
               done  <- executed,
               open  <- loopPc # "stopped"

\* queueInLoop and doPendingFunctors implement TaskQueue: functors run once,
\* in the order in which they were queued, and none waits for ever.
ImplementsTaskQueue == Promise!Spec
=============================================================================
