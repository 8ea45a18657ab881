-------------------------- MODULE EventLoopThread --------------------------
(***************************************************************************)
(* The life of an EventLoop inside the thread that runs it:                *)
(* EventLoopThread with its Thread and CountDownLatch (EventLoopThread.cpp, *)
(* base/Thread.cpp).  The EventLoop is a local variable of threadFunc: it  *)
(* is built when the thread starts, published through m_loop, and dies     *)
(* when loop() returns.  The only call of quit() in the program is the one *)
(* of ~EventLoopThread, so Quitters is {Owner}.                            *)
(*                                                                         *)
(* The owner of the object is at `owner':                                  *)
(*   "new"     the object is built                                         *)
(*   "latch"   in Thread::start, waiting for the latch                     *)
(*   "loop"    in startLoop, waiting for m_loop                            *)
(*   "running" startLoop has returned                                      *)
(*   "quit"    in the destructor, having seen m_loop                       *)
(*   "wakeup"  inside m_loop->quit(), the flag is set                      *)
(*   "join"    in Thread::join                                             *)
(*   "gone"    destroyed                                                   *)
(* The thread is at `thread': "none", "created", "counted" (the latch is   *)
(* at 0), "looping" (m_loop published), "cleared" (m_loop is null again),  *)
(* "ended" (the EventLoop is destroyed).                                   *)
(***************************************************************************)
EXTENDS EventLoop

CONSTANTS
    Owner,              \* the thread that starts and destroys the object
    CreateMayFail       \* pthread_create may fail

ASSUME OwnerAssumption ==
    /\ Owner \in Callers
    /\ Quitters = {Owner}
    /\ CreateMayFail \in BOOLEAN

VARIABLES
    owner,
    thread,
    loopSet             \* m_loop is not null

lifeVars   == <<owner, thread, loopSet>>
threadVars == <<vars, lifeVars>>

OwnerPc  == {"new", "latch", "loop", "running", "quit", "wakeup", "join",
             "gone"}
ThreadPc == {"none", "created", "counted", "looping", "cleared", "ended"}

ThreadTypeOK ==
    /\ TypeOK
    /\ owner \in OwnerPc
    /\ thread \in ThreadPc
    /\ loopSet \in BOOLEAN

ThreadInit ==
    /\ Init
    /\ owner = "new"
    /\ thread = "none"
    /\ loopSet = FALSE

(***************************************************************************)
(* The owner: startLoop.                                                   *)
(***************************************************************************)
\* Thread::start.  pthread_create returns a positive number when it fails,
\* which is not the -1 it is compared with: the wait follows all the same.
StartThread(created) ==
    /\ owner = "new"
    /\ owner' = "latch"
    /\ thread' = IF created THEN "created" ELSE "none"
    /\ UNCHANGED <<vars, loopSet>>

\* CountDownLatch::wait returns (Server.tla has the wait step by step).
LatchOpens ==
    /\ owner = "latch"
    /\ thread \notin {"none", "created"}
    /\ owner' = "loop"
    /\ UNCHANGED <<vars, thread, loopSet>>

StartLoopReturns ==
    /\ owner = "loop"
    /\ loopSet
    /\ owner' = "running"
    /\ UNCHANGED <<vars, thread, loopSet>>

(***************************************************************************)
(* The thread: ThreadData::runInThread and EventLoopThread::threadFunc.    *)
(***************************************************************************)
CountDown ==
    /\ thread = "created"
    /\ thread' = "counted"
    /\ UNCHANGED <<vars, owner, loopSet>>

\* Mistaken variant: threadFunc sets a local m_loop.
PublishLoopNowhere ==
    /\ thread = "counted"
    /\ thread' = "looping"
    /\ UNCHANGED <<vars, owner, loopSet>>

\* The EventLoop is built and published under m_mutex.
PublishLoop ==
    /\ thread = "counted"
    /\ thread' = "looping"
    /\ loopSet' = TRUE
    /\ UNCHANGED <<vars, owner>>

\* m_loop->loop().
RunLoop ==
    /\ thread = "looping"
    /\ LoopNext
    /\ UNCHANGED lifeVars

\* `m_loop = nullptr', without the mutex.
ClearLoop ==
    /\ thread = "looping"
    /\ loopPc = "stopped"
    /\ thread' = "cleared"
    /\ loopSet' = FALSE
    /\ UNCHANGED <<vars, owner>>

\* The frame of threadFunc goes, and EventLoop::~EventLoop closes the eventfd.
EndThread ==
    /\ thread = "cleared"
    /\ thread' = "ended"
    /\ UNCHANGED <<vars, owner, loopSet>>

(***************************************************************************)
(* The users of the loop: its owner, and threads the owner gave the        *)
(* pointer to.  They call it between startLoop and the destructor, and are *)
(* out of their calls when the destructor begins.                          *)
(***************************************************************************)
UseLoop(t, k) ==
    /\ owner = "running"
    /\ QueueInLoop(t, k)
    /\ UNCHANGED lifeVars

\* The write to the eventfd.  The owner's, inside quit(), may come when the
\* loop it belongs to is gone: then it finds the descriptor closed, and
\* `count' stands for nothing any more.
FinishCall(t) ==
    /\ Wakeup(t)
    /\ owner' = IF t = Owner /\ owner = "wakeup" THEN "join" ELSE owner
    /\ UNCHANGED <<thread, loopSet>>

(***************************************************************************)
(* The owner: EventLoopThread::~EventLoopThread reads m_loop without the   *)
(* mutex, and again to call quit().                                        *)
(***************************************************************************)
BeginDestroy ==
    /\ owner \in {"new", "running"}
    /\ \A t \in Callers : callerPc[t] = "idle"
    /\ owner' = IF loopSet THEN "quit" ELSE "gone"
    /\ UNCHANGED <<vars, thread, loopSet>>

DestroyQuits ==
    /\ owner = "quit"
    /\ Quit(Owner)
    /\ owner' = "wakeup"
    /\ UNCHANGED <<thread, loopSet>>

Join ==
    /\ owner = "join"
    /\ thread = "ended"
    /\ owner' = "gone"
    /\ UNCHANGED <<vars, thread, loopSet>>

OwnerNext ==
    \/ \E created \in (IF CreateMayFail THEN BOOLEAN ELSE {TRUE}) :
          StartThread(created)
    \/ LatchOpens
    \/ StartLoopReturns
    \/ BeginDestroy
    \/ DestroyQuits
    \/ Join

UserNext ==
    \/ \E t \in Callers, k \in Tasks : UseLoop(t, k)
    \/ \E t \in Callers : FinishCall(t)

ThreadNext == OwnerNext \/ UserNext \/ CountDown \/ PublishLoop \/ RunLoop
              \/ ClearLoop \/ EndThread

(***************************************************************************)
(* Fairness: that of EventLoop while the loop runs, and threads that can   *)
(* go on do.  Nothing obliges the owner to start or to destroy the object, *)
(* nor anybody to use the loop.                                            *)
(***************************************************************************)
ThreadFairness ==
    /\ WF_threadVars(thread = "looping" /\ LoopProgress /\ UNCHANGED lifeVars)
    /\ WF_threadVars(CountDown \/ PublishLoop \/ ClearLoop \/ EndThread)
    /\ WF_threadVars(LatchOpens \/ StartLoopReturns \/ DestroyQuits \/ Join)
    /\ \A t \in Callers : WF_threadVars(FinishCall(t))

ThreadSpec == ThreadInit /\ [][ThreadNext]_threadVars /\ ThreadFairness

-----------------------------------------------------------------------------
(***************************************************************************)
(* Properties.                                                             *)
(***************************************************************************)
LoopGone == thread \in {"cleared", "ended"}

\* The loop is a local variable of another thread, and m_loop is read without
\* the mutex that guards it (EventLoopThread.cpp:17-18, 33, 43-46).  The
\* pointer startLoop returned and the one the destructor calls quit() on are
\* those of a living loop, and a call that meets a loop that is gone is the
\* destructor's own, between setting the flag and writing the eventfd.
LoopOutlivesItsCalls ==
    /\ owner \in {"running", "quit"} => loopSet /\ ~LoopGone
    /\ \A t \in Callers :
          callerPc[t] = "wakeup" /\ LoopGone => t = Owner /\ owner = "wakeup"

\* startLoop comes back with a loop (EventLoopThread.cpp:23-34,
\* Thread.cpp:88-100), whatever the order of the two waits and of the two
\* steps they wait for; except when pthread_create failed, for then nobody
\* counts the latch down.
StartLoopComesBack ==
    (owner \in {"latch", "loop"} /\ thread # "none") ~> (owner = "running")

\* The destructor of a thread whose loop is inside loop() when the flag is
\* set comes back (EventLoopThread.cpp:15-21, EventLoop.cpp:62-67): wherever
\* the loop is, whatever is still queued, it returns and the thread ends.
EnteredLoopIsJoined ==
    (owner = "join" /\ quit /\ loopPc # "start") ~> (owner = "gone")

\* The comment on quit() (EventLoop.cpp:64-65): the loop's thread is woken
\* up, to see the flag; so a destructor that called quit() comes back from
\* the join.
DestructorComesBack == (owner = "join") ~> (owner = "gone")
=============================================================================
