---------------------------- MODULE Connections ----------------------------
(***************************************************************************)
(* The life of the connections of one I/O loop: HttpData objects, their    *)
(* descriptors, the two descriptor tables and the kernel registrations of  *)
(* Epoll, and the heap of TimerManager.  HttpData is destroyed, and its    *)
(* descriptor closed, when the last shared_ptr to it goes: from a pending  *)
(* functor, from m_fd2http or from a TimerNode.                            *)
(*                                                                         *)
(* The loop's thread is at `phase':                                        *)
(*   "poll"     in Epoll::poll                                             *)
(*   "handle"   running Channel::handleEvents of what poll returned        *)
(*   "functors" running what doPendingFunctors swapped out                 *)
(*   "sweep"    at Epoll::handleExpired                                    *)
(*                                                                         *)
(* What a request does to the parser is reduced to whether it ends in an   *)
(* error: no request gets to analysisRequest (HttpRequest.tla), so there   *)
(* is never output to wait for and m_keepAlive stays false.                *)
(***************************************************************************)
EXTENDS Naturals, Sequences, FiniteSets, Channel

CONSTANTS
    Conns,              \* the HttpData objects ever made for this loop
    Fds,                \* the descriptors accept can return: numbers
    None,
    NewTimeout,         \* DEFAULT_EXPIRED_TIME, in ticks
    IdleTimeout,        \* DEFAULT_KEEP_ALIVE_TIME >> 1
    Wrap,               \* the clock of Timer.cpp is taken modulo 10000 s
    MaxTime,            \* bound: ticks
    CtlMayFail          \* epoll_ctl may fail

ASSUME TimeAssumption ==
    /\ NewTimeout \in Nat \ {0}
    /\ IdleTimeout \in Nat \ {0}
    /\ Wrap \in Nat \ {0}
    /\ MaxTime \in Nat
ASSUME ConnectionAssumption ==
    /\ Fds \subseteq Nat
    /\ None \notin Conns \cup Fds
    /\ CtlMayFail \in BOOLEAN

VARIABLES
    now,                \* ticks since the start
    phase,
    active,             \* what poll returned and is not handled yet
    signal,             \* the eventfd has been written
    pending,            \* connections whose newEvent is queued
    batch,              \* those of the vector doPendingFunctors swapped out
    fdOf,               \* the open descriptor of an HttpData
    born,               \* the connections made so far
    fd2http, fd2chan,   \* Epoll's tables
    chan,               \* the masks of each connection's Channel
    reg,                \* the kernel's registrations
    edge,               \* what is on epoll's ready list
    peer, unread,       \* the socket: its other end, and data not read yet
    nodes               \* the TimerNodes in the heap

sockVars  == <<peer, unread>>
tableVars == <<fd2http, fd2chan>>
kernelVars == <<reg, edge>>
queueVars == <<signal, pending, batch, born>>
vars == <<now, phase, active, signal, pending, batch, fdOf, born, fd2http,
          fd2chan, chan, reg, edge, peer, unread, nodes>>

DefaultEvent == {"IN", "ET", "ONESHOT"}
ReadEvent    == {"IN", "ET"}
Revents      == {"IN", "ERR", "HUP"}

\* What the kernel knows of a descriptor; `on' goes off when a one-shot
\* registration has fired.
Registration == [mask : SUBSET Flag, on : BOOLEAN]
NotRegistered == [mask |-> {}, on |-> FALSE]

\* A TimerNode.  `linked': its owner's m_timer points to it.  `due' is when
\* it is really due; the code has only `exp', on the clock that wraps.
Node == [owner : Conns \cup {None}, exp : Nat, due : Nat,
         deleted : BOOLEAN, linked : BOOLEAN]

TypeOK ==
    /\ now \in 0 .. MaxTime
    /\ phase \in {"poll", "handle", "functors", "sweep"}
    /\ active \subseteq [conn : Conns, revents : SUBSET Revents]
    /\ signal \in BOOLEAN
    /\ pending \in Seq(Conns) /\ batch \in Seq(Conns)
    /\ fdOf \in [Conns -> Fds \cup {None}]
    /\ born \subseteq Conns
    /\ fd2http \in [Fds -> Conns \cup {None}]
    /\ fd2chan \in [Fds -> Conns \cup {None}]
    /\ chan \in [Conns -> ChannelType]
    /\ reg \in [Conns -> Registration]
    /\ edge \subseteq Conns
    /\ peer \in [Conns -> {"open", "closed", "reset"}]
    /\ unread \subseteq Conns
    /\ nodes \subseteq Node

Init ==
    /\ now = 0
    /\ phase = "poll"
    /\ active = {}
    /\ signal = FALSE
    /\ pending = <<>> /\ batch = <<>>
    /\ fdOf = [c \in Conns |-> None]
    /\ born = {}
    /\ fd2http = [f \in Fds |-> None]
    /\ fd2chan = [f \in Fds |-> None]
    /\ chan = [c \in Conns |-> NewChannel]
    /\ reg = [c \in Conns |-> NotRegistered]
    /\ edge = {}
    /\ peer = [c \in Conns |-> "open"]
    /\ unread = {}
    /\ nodes = {}

Alive(c) == fdOf[c] # None

-----------------------------------------------------------------------------
(***************************************************************************)
(* Timer.cpp.                                                              *)
(***************************************************************************)
Clock == now % Wrap

\* TimerManager::addTimer: the HttpData's m_timer points to the new node.
AddTimer(ns, c, timeout) ==
    {IF n.owner = c THEN [n EXCEPT !.linked = FALSE] ELSE n : n \in ns}
    \cup {[owner |-> c, exp |-> Clock + timeout, due |-> now + timeout,
           deleted |-> FALSE, linked |-> TRUE]}

\* Mistaken variant: the node is marked deleted and keeps its HttpData.
SeparateTimerKeeps(ns, c) ==
    {IF n.owner = c /\ n.linked
        THEN [n EXCEPT !.deleted = TRUE, !.linked = FALSE] ELSE n : n \in ns}

\* Mistaken variant: a request that starts the timer again leaves the old one.
SeparateTimerNot(ns, c) == ns

\* HttpData::seperateTimer: the node lets go of the HttpData and stays in the
\* heap until it comes to the top.
SeparateTimer(ns, c) ==
    {IF n.owner = c /\ n.linked
        THEN [n EXCEPT !.owner = None, !.deleted = TRUE, !.linked = FALSE]
        ELSE n : n \in ns}

\* TimerNode::isValid.
IsValid(n) == Clock < n.exp

\* Mistaken variant: only the node at the top is looked at.
PoppedOnce(ns) ==
    LET top == CHOOSE n \in ns : \A m \in ns : n.exp <= m.exp IN
    {n \in ns : n = top /\ (n.deleted \/ ~IsValid(n))}

\* TimerManager::handleExpiredEvent pops from the top of the heap until it
\* meets a node that is neither deleted nor expired.
Popped(ns) ==
    {n \in ns : \A m \in ns :
        m.exp <= n.exp => m.deleted \/ ~IsValid(m)}

(***************************************************************************)
(* Ownership.  The connections somebody still points to, given what is in  *)
(* the table, the heap and the functors; the others are destroyed and      *)
(* their descriptors closed, which takes them out of the epoll set.        *)
(***************************************************************************)
SeqSet(s) == {s[i] : i \in DOMAIN s}

Owned(table, ns, functors) ==
    {table[f] : f \in Fds} \cup {n.owner : n \in ns} \cup SeqSet(functors)

Destroy(table, ns, functors, registrations, edges) ==
    LET dead == Conns \ Owned(table, ns, functors) IN
    /\ fdOf' = [c \in Conns |-> IF c \in dead THEN None ELSE fdOf[c]]
    /\ reg' = [c \in Conns |->
                  IF c \in dead THEN NotRegistered ELSE registrations[c]]
    /\ edge' = edges \ dead
    /\ peer' = [c \in Conns |-> IF c \in dead THEN "open" ELSE peer[c]]

(***************************************************************************)
(* The kernel (external) and the clients.                                  *)
(***************************************************************************)
Readable(c) == c \in unread \/ peer[c] # "open"

\* What epoll_wait reports of a registered socket.
Reported(c) ==
    /\ c \in edge /\ reg[c].on /\ "IN" \in reg[c].mask
    /\ Readable(c)

EventsOf(c) == IF peer[c] = "reset" THEN Revents ELSE {"IN"}

\* epoll_ctl (ADD or MOD) checks at once whether the socket is ready.
Rearmed(edges, c) == IF Readable(c) THEN edges \cup {c} ELSE edges \ {c}

Tick ==
    /\ now < MaxTime
    /\ now' = now + 1
    /\ UNCHANGED <<phase, active, queueVars, fdOf, tableVars, chan,
                   kernelVars, sockVars, nodes>>

\* The socket of c changes: an edge if the epoll set watches it.
SocketEvent(c) ==
    /\ Alive(c)
    /\ peer[c] = "open"
    /\ edge' = IF reg[c].on THEN edge \cup {c} ELSE edge
    /\ UNCHANGED <<now, phase, active, queueVars, fdOf, tableVars, chan, reg,
                   nodes>>

ClientSends(c) ==
    /\ SocketEvent(c)
    /\ unread' = unread \cup {c}
    /\ UNCHANGED peer

ClientCloses(c) ==
    /\ SocketEvent(c)
    /\ peer' = [peer EXCEPT ![c] = "closed"]
    /\ UNCHANGED unread

ClientResets(c) ==
    /\ SocketEvent(c)
    /\ peer' = [peer EXCEPT ![c] = "reset"]
    /\ unread' = unread \ {c}

(***************************************************************************)
(* The main thread: accept returns the lowest descriptor that is free, and *)
(* Server::handNewConn queues HttpData::newEvent on the loop.              *)
(***************************************************************************)
LowestFree(f) ==
    /\ \A c \in Conns : fdOf[c] # f
    /\ \A g \in Fds : g < f => \E c \in Conns : fdOf[c] = g

Accept(c) ==
    /\ c \notin born
    /\ \E f \in Fds : LowestFree(f) /\ fdOf' = [fdOf EXCEPT ![c] = f]
    /\ born' = born \cup {c}
    /\ pending' = Append(pending, c)
    /\ signal' = TRUE
    /\ UNCHANGED <<now, phase, active, batch, tableVars, chan, kernelVars,
                   sockVars, nodes>>

-----------------------------------------------------------------------------
(***************************************************************************)
(* The loop's thread.                                                      *)
(***************************************************************************)
\* Mistaken variant: the masks of setRevents and setEvents are exchanged.
PollMixesMasks ==
    LET kept == {c \in Conns : Reported(c) /\ fd2chan[fdOf[c]] # None} IN
    /\ phase = "poll"
    /\ kept # {} \/ signal
    /\ active' = {[conn |-> fd2chan[fdOf[c]], revents |-> EventsOf(c)] :
                     c \in kept}
    /\ chan' = [c \in Conns |->
                   IF c \in kept THEN SetEvents(chan[c], EventsOf(c))
                   ELSE chan[c]]
    /\ edge' = edge \ kept
    /\ signal' = FALSE
    /\ phase' = "handle"
    /\ UNCHANGED <<now, pending, batch, born, fdOf, tableVars, reg, sockVars,
                   nodes>>

\* Epoll::poll.  An event whose descriptor has no Channel in the table is
\* passed over; with nothing else the loop goes back to epoll_wait.  The
\* other channel of the loop is the eventfd's.
Poll ==
    LET reported == {c \in Conns : Reported(c)}
        kept     == {c \in reported : fd2chan[fdOf[c]] # None}
    IN
    /\ phase = "poll"
    /\ reported # {} \/ signal
    /\ active' = {[conn |-> fd2chan[fdOf[c]], revents |-> EventsOf(c)] :
                     c \in kept}
    /\ chan' = [c \in Conns |->
                   IF \E a \in active' : a.conn = c
                   THEN SetEvents(chan[c], {}) ELSE chan[c]]
    /\ edge' = edge \ reported
    /\ reg' = [c \in Conns |->
                  IF c \in reported /\ "ONESHOT" \in reg[c].mask
                  THEN [reg[c] EXCEPT !.on = FALSE] ELSE reg[c]]
    /\ signal' = FALSE
    /\ phase' = IF active' # {} \/ signal THEN "handle" ELSE "poll"
    /\ UNCHANGED <<now, pending, batch, born, fdOf, tableVars, sockVars,
                   nodes>>

\* Channel::handleEvents returns early, before the read and before
\* handleConn: with EPOLLERR, since HttpData sets no error handler, and with
\* EPOLLHUP alone.
SkipEvents(a) ==
    /\ phase = "handle"
    /\ a \in active
    /\ "ERR" \in a.revents \/ a.revents \cap {"HUP", "IN"} = {"HUP"}
    /\ chan' = [chan EXCEPT ![a.conn] = SetEvents(@, {})]
    /\ active' = active \ {a}
    /\ UNCHANGED <<now, phase, queueVars, fdOf, tableVars, kernelVars,
                   sockVars, nodes>>

ReadsAndGoesOn(a) ==
    /\ phase = "handle"
    /\ a \in active
    /\ "ERR" \notin a.revents /\ "IN" \in a.revents
    /\ active' = active \ {a}
    /\ unread' = unread \ {a.conn}

\* HttpData::handleRead reads all there is, the request is not finished and
\* in order so far; handleConn replaces the timer and updates the poller.
HandleRequest(a, ok) ==
    LET c  == a.conn
        f  == fdOf[c]
        ch == SetEvents(chan[c], ReadEvent)
        ns == AddTimer(SeparateTimer(nodes, c), c, IdleTimeout)
        failed == ~SameAsLast(ch) /\ ~ok
        table  == IF failed THEN [fd2http EXCEPT ![f] = None] ELSE fd2http
        rs == IF SameAsLast(ch) \/ failed THEN reg
              ELSE [reg EXCEPT ![c] = [mask |-> ch.events, on |-> TRUE]]
        es == IF SameAsLast(ch) \/ failed THEN edge ELSE edge \ {c}
    IN
    /\ ReadsAndGoesOn(a)
    /\ peer[c] = "open"
    /\ nodes' = ns
    /\ chan' = [chan EXCEPT ![c] = UpdateLastEvents(ch)]
    /\ fd2http' = table
    /\ fd2chan' = IF failed THEN [fd2chan EXCEPT ![f] = None] ELSE fd2chan
    /\ Destroy(table, ns, pending \o batch, rs, es)
    /\ UNCHANGED <<now, phase, queueVars>>

\* Mistaken variant: epoll_del leaves m_fd2chan as it is.
HandleCloseLeavesChannel(a) ==
    LET c  == a.conn
        ns == SeparateTimer(nodes, c)
        table == [fd2http EXCEPT ![fdOf[c]] = None]
    IN
    /\ ReadsAndGoesOn(a)
    /\ peer[c] # "open" \/ c \in unread
    /\ nodes' = ns
    /\ fd2http' = table
    /\ Destroy(table, ns, pending \o batch,
               [reg EXCEPT ![c] = NotRegistered], edge \ {c})
    /\ UNCHANGED <<now, phase, queueVars, fd2chan, chan>>

\* The read fails, or finds the end of the stream, or the request is in
\* error and answered with 400: handleConn takes the timer off and calls
\* handleClose, which takes the connection out of the poller.
HandleClose(a) ==
    LET c  == a.conn
        f  == fdOf[c]
        ns == SeparateTimer(nodes, c)
        table == [fd2http EXCEPT ![f] = None]
    IN
    /\ ReadsAndGoesOn(a)
    /\ peer[c] # "open" \/ c \in unread
    /\ nodes' = ns
    /\ fd2http' = table
    /\ fd2chan' = [fd2chan EXCEPT ![f] = None]
    /\ Destroy(table, ns, pending \o batch,
               [reg EXCEPT ![c] = NotRegistered], edge \ {c})
    /\ UNCHANGED <<now, phase, queueVars, chan>>

BeginFunctors ==
    /\ phase = "handle"
    /\ active = {}
    /\ batch' = pending
    /\ pending' = <<>>
    /\ phase' = "functors"
    /\ UNCHANGED <<now, active, signal, born, fdOf, tableVars, chan,
                   kernelVars, sockVars, nodes>>

\* HttpData::newEvent: Epoll::epoll_add adds the timer, fills the tables,
\* and empties them again if epoll_ctl fails.  The functor goes when the
\* vector does, here as soon as it has run.
NewEvent(ok) ==
    LET c  == Head(batch)
        f  == fdOf[c]
        ch == SetEvents(chan[c], DefaultEvent)
        ns == AddTimer(nodes, c, NewTimeout)
        entry == IF ok THEN c ELSE None
        table == [fd2http EXCEPT ![f] = entry]
    IN
    /\ phase = "functors"
    /\ batch # <<>>
    /\ batch' = Tail(batch)
    /\ nodes' = ns
    /\ chan' = [chan EXCEPT ![c] = UpdateLastEvents(ch)]
    /\ fd2http' = table
    /\ fd2chan' = [fd2chan EXCEPT ![f] = entry]
    /\ Destroy(table, ns, pending \o batch',
               IF ok THEN [reg EXCEPT ![c] = [mask |-> ch.events, on |-> TRUE]]
                     ELSE reg,
               IF ok THEN Rearmed(edge, c) ELSE edge)
    /\ UNCHANGED <<now, phase, active, signal, pending, born, unread>>

EndFunctors ==
    /\ phase = "functors"
    /\ batch = <<>>
    /\ phase' = "sweep"
    /\ UNCHANGED <<now, active, queueVars, fdOf, tableVars, chan, kernelVars,
                   sockVars, nodes>>

\* Epoll::handleExpired.  A node that goes with its HttpData calls
\* HttpData::handleClose from its destructor.
Sweep ==
    LET popped == Popped(nodes)
        closed == {n.owner : n \in popped} \ {None}
        closedFds == {fdOf[c] : c \in closed}
        table == [f \in Fds |-> IF f \in closedFds THEN None ELSE fd2http[f]]
        ns == {IF n.owner \in closed THEN [n EXCEPT !.linked = FALSE] ELSE n :
                  n \in nodes \ popped}
    IN
    /\ phase = "sweep"
    /\ nodes' = ns
    /\ fd2http' = table
    /\ fd2chan' = [f \in Fds |-> IF f \in closedFds THEN None ELSE fd2chan[f]]
    /\ Destroy(table, ns, pending \o batch,
               [c \in Conns |-> IF c \in closed THEN NotRegistered ELSE reg[c]],
               edge \ closed)
    /\ unread' = unread \ closed
    /\ phase' = "poll"
    /\ UNCHANGED <<now, active, queueVars, chan>>

CtlResult == IF CtlMayFail THEN BOOLEAN ELSE {TRUE}

LoopNext ==
    \/ Poll
    \/ \E a \in active : SkipEvents(a) \/ HandleClose(a)
    \/ \E a \in active, ok \in CtlResult : HandleRequest(a, ok)
    \/ BeginFunctors
    \/ \E ok \in CtlResult : NewEvent(ok)
    \/ EndFunctors
    \/ Sweep

ClientNext ==
    \E c \in Conns :
        Accept(c) \/ ClientSends(c) \/ ClientCloses(c) \/ ClientResets(c)

Next == LoopNext \/ ClientNext \/ Tick

\* The loop's thread runs whenever it can; time passes.  No client is
\* obliged to do anything.
Fairness == WF_vars(LoopNext) /\ WF_vars(Tick)

Spec == Init /\ [][Next]_vars /\ Fairness

-----------------------------------------------------------------------------
(***************************************************************************)
(* Properties.                                                             *)
(***************************************************************************)
Registered(c) == Alive(c) /\ fd2http[fdOf[c]] = c

\* A descriptor means one connection (Epoll.cpp:34-35, 81-82, 106-107;
\* HttpData.h:89-91): no two live connections share it, the tables name a
\* connection only under its own open descriptor, the kernel watches open
\* descriptors only, and what poll returned is still there when its handler
\* runs, which it reaches through a raw pointer.
DescriptorsAgree ==
    /\ \A c, d \in Conns : Alive(c) /\ fdOf[c] = fdOf[d] => c = d
    /\ \A f \in Fds :
          /\ fd2chan[f] = fd2http[f]
          /\ fd2http[f] # None => fdOf[fd2http[f]] = f
    /\ \A c \in Conns : reg[c].on => Alive(c)
    /\ \A a \in active : Alive(a.conn) /\ Registered(a.conn)

\* Every connection the loop has taken over is held by exactly one live
\* timer, the one its m_timer points to (HttpData.cpp:284-308, Timer.cpp:63-68):
\* none is left without, so that its descriptor is never closed, and none has
\* a second one that would close it while it is in use.
OneTimerEach ==
    \A c \in Conns :
        Alive(c) /\ c \notin SeqSet(pending \o batch) =>
            /\ \E n \in nodes : n.owner = c /\ n.linked /\ ~n.deleted
            /\ \A n, m \in nodes : n.owner = c /\ m.owner = c => n = m

\* No request is stuck (HttpData.cpp:160-163, 284-308; Epoll.cpp:56-60): a
\* connection in the tables with data to read, or whose peer has closed, is
\* watched by the kernel and on the ready list, or about to be handled;
\* except after EPOLLERR, when nobody reads any more.
NoStuckRequest ==
    \A c \in Conns :
        Registered(c) /\ Readable(c) /\ peer[c] # "reset" =>
            Reported(c) \/ \E a \in active : a.conn = c

\* A sweep closes a connection only when its time is up, whatever the clock
\* that wraps says (Timer.cpp:37-48, 70-82).
SweptWhenDue ==
    [][\A c \in Conns :
          phase = "sweep" /\ Alive(c) /\ ~Alive(c)' =>
              \E n \in nodes : n.owner = c /\ n.due <= now]_vars

\* Before the clock wraps a sweep leaves no connection that is overdue
\* (Timer.cpp:70-82), though it stops at the first node that is valid and
\* nodes are pushed with two different timeouts.
SweepLeavesNoneOverdue ==
    [][phase = "sweep" /\ phase' = "poll" /\ now < Wrap =>
          \A n \in nodes' : n.owner # None => n.due > now]_vars

\* The comment in handleExpiredEvent (Timer.cpp:78): the queue is ordered by
\* expiry time, so when its front is not overdue yet nothing behind it is.
FrontExpiresFirst ==
    \A n \in nodes :
        /\ phase = "sweep" /\ n.owner # None /\ now < n.due
        /\ \A m \in nodes \ {n} : n.exp < m.exp
        => \A m \in nodes : m.owner # None => now < m.due

\* What comes from a client is dealt with (EventLoop.cpp:48-58,
\* HttpData.cpp:182-191, 313): a connection with data to read, or whose peer
\* has closed, is read to the end or closed, and after a close gives its
\* descriptor back, without waiting for a timer or for another event; but
\* not once the peer has reset the connection.  Connections are alike, so
\* the property is stated of any one of them.
InputIsDealtWith ==
    LET c == CHOOSE c \in Conns : TRUE IN
    (Registered(c) /\ Readable(c))
        ~> (~Readable(c) \/ peer[c] = "reset" \/ ~Alive(c))

\* README.md:7: timers close the requests that have timed out.
IdleConnectionsAreClosed ==
    \A c \in Conns :
        (\E n \in nodes : n.owner = c /\ n.due <= now)
            ~> ~\E n \in nodes : n.owner = c /\ n.due <= now
=============================================================================
