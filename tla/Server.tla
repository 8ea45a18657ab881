------------------------------- MODULE Server -------------------------------
(***************************************************************************)
(* The main thread (WebServer/Server.cpp): it starts the I/O loops, one    *)
(* after the other (EventLoopThreadPool, EventLoopThread, Thread,          *)
(* CountDownLatch), then accepts connections from an edge-triggered        *)
(* listening socket and hands them to the loops in turn.                   *)
(*                                                                         *)
(* The main thread's position is pc:                                       *)
(*   "spawn"   in EventLoopThreadPool::start, before Thread::start         *)
(*   "latch"   in CountDownLatch::wait, at the test of m_count             *)
(*   "latchWait"  there, blocked in pthread_cond_wait                      *)
(*   "startLoop"  in EventLoopThread::startLoop, at the test of m_loop     *)
(*   "loopWait"   there, blocked in pthread_cond_wait                      *)
(*   "listen"  in Server::start, the loops are running                     *)
(*   "poll"    in Epoll::poll                                              *)
(*   "accept"  in Server::handNewConn, before a call of accept             *)
(*   "conn"    in Channel::handleEvents, before handThisConn               *)
(* What a loop does with a connection is in Connections.tla; how it is     *)
(* handed over and woken up, in EventLoop.tla.                             *)
(***************************************************************************)
EXTENDS Naturals, Sequences, FiniteSets, Channel

CONSTANTS
    Conns,              \* the connections ever made
    None,
    NumThreads,         \* m_numThreads
    FdLimits,           \* how many descriptors the process may have
    MAXFDS,             \* larger descriptors are closed at once
    AcceptMayFail,      \* accept fails for a connection that was aborted
    NonBlockMayFail     \* setSocketNonBlocking may fail

ASSUME ServerAssumption ==
    /\ NumThreads \in Nat \ {0}
    /\ FdLimits \subseteq Nat \ {0} /\ FdLimits # {}
    /\ MAXFDS \in Nat
    /\ None \notin Conns \cup Nat
    /\ AcceptMayFail \in BOOLEAN /\ NonBlockMayFail \in BOOLEAN

Threads == 0 .. NumThreads - 1

VARIABLES
    fdLimit,            \* RLIMIT_NOFILE: the descriptors are 1 .. fdLimit
    pc,
    loops,              \* how many loops m_loops holds
    threadPc,           \* the I/O threads
    latch,              \* m_latch of each thread
    mloop,              \* EventLoopThread::m_loop is set
    turn,               \* m_next
    backlog,            \* the listening socket's queue
    chan,               \* the masks of m_acceptChannel
    kernelMask,         \* the mask epoll holds for m_listenFd
    edge,               \* epoll's ready list holds m_listenFd
    fdOf,               \* the descriptor of an accepted connection
    handed,             \* the connections in each loop's m_pendingFunctors
    served,             \* those a loop has taken over
    came,               \* history: the connections made so far
    leaked,             \* history: left open when setSocketNonBlocking failed
    cut,                \* history: accept failed with connections waiting, and
                        \* none has come since
    share,              \* history: the connections handed to each loop
    refused             \* history: the connections closed at once

startVars  == <<fdLimit, loops, threadPc, latch, mloop>>
acceptVars == <<chan, kernelMask, edge>>
connVars   == <<fdOf, handed, served>>
history    == <<leaked, share, refused>>
serving    == <<turn, backlog, acceptVars, connVars, came, cut, history>>
vars == <<fdLimit, pc, loops, threadPc, latch, mloop, turn, backlog, chan,
          kernelMask, edge, fdOf, handed, served, came, leaked, cut, share,
          refused>>

ListenMask == {"IN", "ET"}

SeqSet(s) == {s[i] : i \in DOMAIN s}

TypeOK ==
    /\ fdLimit \in FdLimits
    /\ pc \in {"spawn", "latch", "latchWait", "startLoop", "loopWait",
               "listen", "poll", "accept", "conn"}
    /\ loops \in 0 .. NumThreads
    /\ threadPc \in [Threads -> {"none", "created", "counted", "looping"}]
    /\ latch \in [Threads -> {0, 1}]
    /\ mloop \in [Threads -> BOOLEAN]
    /\ turn \in Threads
    /\ backlog \in Seq(Conns)
    /\ chan \in ChannelType
    /\ kernelMask \in SUBSET Flag
    /\ edge \in BOOLEAN
    /\ fdOf \in [Conns -> 1 .. fdLimit \cup {None}]
    /\ handed \in [Threads -> Seq(Conns)]
    /\ served \subseteq Conns
    /\ came \subseteq Conns
    /\ leaked \subseteq Conns
    /\ cut \in BOOLEAN
    /\ share \in [Threads -> Nat]
    /\ refused \in Nat

\* Server::Server has made the listening socket; nothing watches it yet.
Init ==
    /\ fdLimit \in FdLimits
    /\ pc = "spawn"
    /\ loops = 0
    /\ threadPc = [t \in Threads |-> "none"]
    /\ latch = [t \in Threads |-> 1]
    /\ mloop = [t \in Threads |-> FALSE]
    /\ turn = 0
    /\ backlog = <<>>
    /\ chan = NewChannel
    /\ kernelMask = {}
    /\ edge = FALSE
    /\ fdOf = [c \in Conns |-> None]
    /\ handed = [t \in Threads |-> <<>>]
    /\ served = {}
    /\ came = {}
    /\ leaked = {}
    /\ cut = FALSE
    /\ share = [t \in Threads |-> 0]
    /\ refused = 0

-----------------------------------------------------------------------------
(***************************************************************************)
(* EventLoopThreadPool::start: for each thread Thread::start, which waits  *)
(* for the latch, then the wait for m_loop in startLoop.  Both tests are   *)
(* made under the mutex that the notifying thread holds; pthread_cond_wait *)
(* lets go of it.  pthread_create succeeds.                                *)
(***************************************************************************)
ThreadStart ==
    /\ pc = "spawn"
    /\ threadPc' = [threadPc EXCEPT ![loops] = "created"]
    /\ pc' = "latch"
    /\ UNCHANGED <<fdLimit, loops, latch, mloop, serving>>

LatchWait ==
    /\ pc = "latch"
    /\ pc' = IF latch[loops] > 0 THEN "latchWait" ELSE "startLoop"
    /\ UNCHANGED <<startVars, serving>>

\* pthread_cond_wait may return for no reason.
SpuriousWakeup ==
    /\ \/ pc = "latchWait" /\ pc' = "latch"
       \/ pc = "loopWait" /\ pc' = "startLoop"
    /\ UNCHANGED <<startVars, serving>>

StartLoopWaits ==
    /\ pc = "startLoop"
    /\ ~mloop[loops]
    /\ pc' = "loopWait"
    /\ UNCHANGED <<startVars, serving>>

StartLoopReturns ==
    /\ pc = "startLoop"
    /\ mloop[loops]
    /\ loops' = loops + 1
    /\ pc' = IF loops' = NumThreads THEN "listen" ELSE "spawn"
    /\ UNCHANGED <<fdLimit, threadPc, latch, mloop, serving>>

\* The main thread waits for thread t, and goes back to its test.
Notify(t, waiting, test) ==
    pc' = IF pc = waiting /\ loops = t THEN test ELSE pc

\* Mistaken variant: countDown does not notify.
CountDownQuietly(t) ==
    /\ threadPc[t] = "created"
    /\ latch' = [latch EXCEPT ![t] = @ - 1]
    /\ threadPc' = [threadPc EXCEPT ![t] = "counted"]
    /\ UNCHANGED <<fdLimit, pc, loops, mloop, serving>>

\* ThreadData::runInThread
CountDown(t) ==
    /\ threadPc[t] = "created"
    /\ latch' = [latch EXCEPT ![t] = @ - 1]
    /\ IF latch'[t] = 0 THEN Notify(t, "latchWait", "latch") ELSE UNCHANGED pc
    /\ threadPc' = [threadPc EXCEPT ![t] = "counted"]
    /\ UNCHANGED <<fdLimit, loops, mloop, serving>>

\* EventLoopThread::threadFunc, up to loop().
PublishLoop(t) ==
    /\ threadPc[t] = "counted"
    /\ mloop' = [mloop EXCEPT ![t] = TRUE]
    /\ Notify(t, "loopWait", "startLoop")
    /\ threadPc' = [threadPc EXCEPT ![t] = "looping"]
    /\ UNCHANGED <<fdLimit, loops, latch, serving>>

\* The rest of Server::start: epoll_add, whose epoll_ctl succeeds and reports
\* what is already in the backlog.
Listen ==
    /\ pc = "listen"
    /\ chan' = UpdateLastEvents(SetEvents(chan, ListenMask))
    /\ kernelMask' = ListenMask
    /\ edge' = (backlog # <<>>)
    /\ pc' = "poll"
    /\ UNCHANGED <<startVars, turn, backlog, connVars, came, cut, history>>

(***************************************************************************)
(* The clients (external).  A completed connection is an edge.             *)
(***************************************************************************)
Queued  == UNION {SeqSet(handed[t]) : t \in Threads}

Connect(c) ==
    /\ c \notin came
    /\ came' = came \cup {c}
    /\ backlog' = Append(backlog, c)
    /\ edge' = (edge \/ "IN" \in kernelMask)
    /\ cut' = FALSE
    /\ UNCHANGED <<pc, startVars, turn, chan, kernelMask, connVars, history>>

-----------------------------------------------------------------------------
(***************************************************************************)
(* The accepting side of the main loop.                                    *)
(***************************************************************************)
Reported == edge /\ backlog # <<>> /\ "IN" \in kernelMask

Poll ==
    /\ pc = "poll"
    /\ Reported
    /\ chan' = SetEvents(chan, {})
    /\ edge' = FALSE
    /\ pc' = "accept"
    /\ UNCHANGED <<startVars, turn, backlog, kernelMask, connVars, came, cut,
                   history>>

FreeFds == {f \in 1 .. fdLimit : \A c \in Conns : fdOf[c] # f}
LowestFree == CHOOSE f \in FreeFds : \A g \in FreeFds : f <= g

\* Mistaken variant: m_next runs past the last loop.
NextTurnPastEnd == turn' = turn + 1

\* Mistaken variant: m_next stays.
NextTurnStays == turn' = turn

\* EventLoopThreadPool::getNextLoop
NextTurn == turn' = (turn + 1) % NumThreads

\* accept takes the oldest connection; the loop is chosen before anything
\* can go wrong.
AcceptOne ==
    /\ pc = "accept"
    /\ backlog # <<>>
    /\ FreeFds # {}
    /\ backlog' = Tail(backlog)
    /\ NextTurn

HandOver ==
    /\ AcceptOne
    /\ LowestFree < MAXFDS
    /\ fdOf' = [fdOf EXCEPT ![Head(backlog)] = LowestFree]
    /\ handed' = [handed EXCEPT ![turn] = Append(@, Head(backlog))]
    /\ share' = [share EXCEPT ![turn] = @ + 1]
    /\ UNCHANGED <<pc, startVars, acceptVars, served, came, leaked, cut,
                   refused>>

\* Mistaken variant: the connection is forgotten, not closed.
RefuseKeepsOpen ==
    /\ AcceptOne
    /\ LowestFree >= MAXFDS
    /\ fdOf' = [fdOf EXCEPT ![Head(backlog)] = LowestFree]
    /\ refused' = refused + 1
    /\ UNCHANGED <<pc, startVars, acceptVars, handed, served, came, leaked,
                   cut, share>>

\* More than MAXFDS: the connection is closed at once.
Refuse ==
    /\ AcceptOne
    /\ LowestFree >= MAXFDS
    /\ refused' = refused + 1
    /\ UNCHANGED <<pc, startVars, acceptVars, connVars, came, leaked, cut,
                   share>>

\* setSocketNonBlocking fails: handNewConn returns, with the descriptor open
\* and the acceptor's mask still zero.
GiveUp ==
    /\ NonBlockMayFail
    /\ AcceptOne
    /\ LowestFree < MAXFDS
    /\ fdOf' = [fdOf EXCEPT ![Head(backlog)] = LowestFree]
    /\ leaked' = leaked \cup {Head(backlog)}
    /\ pc' = "conn"
    /\ UNCHANGED <<startVars, acceptVars, handed, served, came, cut, share,
                   refused>>

\* Mistaken variant: the mask that poll zeroed is not set again.
AcceptFailsDisarmed ==
    /\ pc = "accept"
    /\ backlog = <<>>
    /\ pc' = "conn"
    /\ UNCHANGED <<startVars, turn, backlog, acceptVars, connVars, came, cut,
                   history>>

\* accept fails: the backlog is empty, or no descriptor is left, or the
\* connection was aborted.  Whatever it was, handNewConn is done.
AcceptFails ==
    /\ pc = "accept"
    /\ \/ backlog = <<>> /\ UNCHANGED backlog
       \/ backlog # <<>> /\ FreeFds = {} /\ UNCHANGED backlog
       \/ AcceptMayFail /\ backlog # <<>> /\ backlog' = Tail(backlog)
    /\ cut' = (cut \/ backlog # <<>>)
    /\ chan' = SetEvents(chan, ListenMask)
    /\ pc' = "conn"
    /\ UNCHANGED <<startVars, turn, kernelMask, edge, connVars, came, history>>

\* Server::handThisConn, an epoll_mod; epoll_ctl looks at the backlog again.
HandThisConn ==
    /\ pc = "conn"
    /\ kernelMask' = ModMask(chan, kernelMask)
    /\ edge' = IF SameAsLast(chan) THEN edge
               ELSE "IN" \in kernelMask' /\ backlog # <<>>
    /\ chan' = UpdateLastEvents(chan)
    /\ pc' = "poll"
    /\ UNCHANGED <<startVars, turn, backlog, connVars, came, cut, history>>

(***************************************************************************)
(* The I/O loops: HttpData::newEvent, and later the connection's end.      *)
(***************************************************************************)
TakeOver(t) ==
    /\ threadPc[t] = "looping"
    /\ handed[t] # <<>>
    /\ served' = served \cup {Head(handed[t])}
    /\ handed' = [handed EXCEPT ![t] = Tail(@)]
    /\ UNCHANGED <<pc, startVars, turn, backlog, acceptVars, fdOf, came, cut,
                   history>>

Release(c) ==
    /\ c \in served
    /\ served' = served \ {c}
    /\ fdOf' = [fdOf EXCEPT ![c] = None]
    /\ UNCHANGED <<pc, startVars, turn, backlog, acceptVars, handed, came, cut,
                   history>>

MainNext ==
    \/ ThreadStart \/ LatchWait \/ StartLoopWaits \/ StartLoopReturns \/ Listen
    \/ Poll \/ HandOver \/ Refuse \/ GiveUp \/ AcceptFails \/ HandThisConn

ThreadNext(t) == CountDown(t) \/ PublishLoop(t) \/ TakeOver(t)

Next ==
    \/ MainNext
    \/ SpuriousWakeup
    \/ \E t \in Threads : ThreadNext(t)
    \/ \E c \in Conns : Connect(c) \/ Release(c)

\* Threads run whenever they can.  No client is obliged to come or to leave.
Fairness == WF_vars(MainNext) /\ \A t \in Threads : WF_vars(ThreadNext(t))

Spec == Init /\ [][Next]_vars /\ Fairness

-----------------------------------------------------------------------------
(***************************************************************************)
(* Properties.                                                             *)
(***************************************************************************)

\* The loop never sleeps on a backlog it could accept from (Server.cpp:36-67,
\* Epoll.cpp:56-60): a connection that arrives while handNewConn is leaving,
\* or before the socket is watched, is still reported.  Excepted is what
\* handNewConn itself leaves behind when accept or setSocketNonBlocking fails.
NoStuckBacklog ==
    pc = "poll" /\ backlog # <<>> /\ ~cut /\ leaked = {} => Reported

\* Every open descriptor has one holder (Server.cpp:42-65): it is queued once,
\* for one loop, or that loop has taken it over; none is open that nobody will
\* close, except after setSocketNonBlocking failed.
DescriptorsOwned ==
    /\ \A c, d \in Conns : fdOf[c] # None /\ fdOf[c] = fdOf[d] => c = d
    /\ \A c \in Conns :
          (fdOf[c] # None) <=> (c \in Queued \cup served \cup leaked)
    /\ Queued \cap (served \cup leaked) = {}
    /\ \A s, t \in Threads :
          \A i \in DOMAIN handed[s], j \in DOMAIN handed[t] :
              handed[s][i] = handed[t][j] => s = t /\ i = j

\* The loops get the connections in turn (README.md:8, EventLoopThreadPool.cpp:
\* 27-36): no loop is ahead of another by more than one, and by one more for
\* each connection that took a turn and was not handed over.
FairShare ==
    \A s, t \in Threads :
        share[s] <= share[t] + 1 + refused + Cardinality(leaked)

\* The server comes up: the two waits for each thread, on the latch and on
\* m_loop, end (Thread.cpp:88-100, EventLoopThread.cpp:23-46), and only then
\* does the main loop start to accept.
ServerStarts ==
    <>(pc = "poll" /\ \A t \in Threads : mloop[t] /\ latch[t] = 0)
=============================================================================
