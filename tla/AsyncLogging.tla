---------------------------- MODULE AsyncLogging ----------------------------
(***************************************************************************)
(* The double-buffered log of WebServer/base/AsyncLogging.{h,cpp} with the *)
(* LogFile behind it.  Any thread appends a line to the current buffer     *)
(* under m_mutex; the logging thread takes the full buffers, hands back    *)
(* empty ones and writes what it took.                                     *)
(*                                                                         *)
(* Buffers are objects with an identity: a variable that points to one is  *)
(* a shared_ptr, and two of them pointing to the same object would mix the *)
(* lines.  A line is its number in the order of the appends; its text is   *)
(* its length.                                                             *)
(*                                                                         *)
(* The logging thread's position is lpc:                                   *)
(*   "none"     no thread                                                  *)
(*   "boot"     entered threadFunc                                         *)
(*   "test"     at `while(m_running)'                                      *)
(*   "lock"     at the assertions, before the critical section             *)
(*   "wait"     in m_cond.waitForSeconds                                   *)
(*   "collected", "write", "recycle", "flush"  after the critical section  *)
(*   "final"    after the loop;  "done"  threadFunc returned               *)
(***************************************************************************)
EXTENDS Naturals, Sequences, Functions

LOCAL INSTANCE SequencesExt     \* FoldLeft

CONSTANTS
    Buffers,            \* the FixedBuffer objects the heap has room for
    NoBuffer,           \* an empty shared_ptr
    BufferSize,         \* kLargeBuffer
    Lengths,            \* of the lines that are logged, all below BufferSize
    MaxBuffers,         \* 25: a larger batch is cut to Kept buffers
    Kept,               \* 2
    FlushEveryN,        \* LogFile's m_flushEveryN
    MaxLines,           \* bound: the lines ever appended
    MayStop             \* stop() is called (the server never does)

ASSUME BufferAssumption ==
    /\ NoBuffer \notin Buffers
    /\ \E b, c \in Buffers : b # c
ASSUME LengthAssumption ==
    /\ BufferSize \in Nat
    /\ Lengths \subseteq Nat \ {0}
    /\ \A len \in Lengths : len < BufferSize
ASSUME LimitAssumption ==
    /\ MaxBuffers \in Nat
    /\ Kept \in Nat
    /\ 2 <= Kept /\ Kept <= MaxBuffers
    /\ FlushEveryN \in Nat \ {0}
    /\ MaxLines \in Nat
    /\ MayStop \in BOOLEAN

VARIABLES
    running,            \* m_running
    ownerPc,            \* the thread that calls start() and stop()
    latch,              \* m_latch
    lpc,
    store,              \* what each buffer holds
    current,            \* m_currentBuffer
    next,               \* m_nextBuffer
    buffers,            \* m_buffers
    new1,               \* newBuffer1
    new2,               \* newBuffer2
    toWrite,            \* buffersToWrite
    index,              \* of the next element of buffersToWrite to write
    count,              \* LogFile's m_count
    written,            \* the lines given to fwrite
    flushed,            \* how many of them fflush has pushed out for sure
    appended            \* how many lines were appended

ownerVars  == <<running, ownerPc>>
sharedVars == <<current, next, buffers>>
localVars  == <<new1, new2, toWrite, index>>
fileVars   == <<count, written, flushed>>
vars == <<running, ownerPc, latch, lpc, store, current, next, buffers, new1,
          new2, toWrite, index, count, written, flushed, appended>>

Pointer == Buffers \cup {NoBuffer}

TypeOK ==
    /\ running \in BOOLEAN
    /\ ownerPc \in {"new", "starting", "running", "stopping", "joined"}
    /\ latch \in {0, 1}
    /\ lpc \in {"none", "boot", "test", "lock", "wait", "collected", "write",
                "recycle", "flush", "final", "done"}
    /\ store \in [Buffers -> [lines : Seq(Nat), used : Nat]]
    /\ current \in Pointer /\ next \in Pointer
    /\ new1 \in Pointer /\ new2 \in Pointer
    /\ buffers \in Seq(Buffers) /\ toWrite \in Seq(Buffers)
    /\ index \in Nat \ {0}
    /\ count \in 0 .. FlushEveryN - 1
    /\ written \in Seq(Nat)
    /\ flushed \in 0 .. Len(written)
    /\ appended \in Nat

-----------------------------------------------------------------------------
(***************************************************************************)
(* FixedBuffer<kLargeBuffer> and the heap.                                 *)
(***************************************************************************)
Empty == [lines |-> <<>>, used |-> 0]

\* FixedBuffer::append fills a buffer only while a byte remains free.
Fits(content, len) == BufferSize - content.used > len

AppendTo(content, line, len) ==
    [lines |-> Append(content.lines, line), used |-> content.used + len]

\* FixedBuffer::append drops what does not fit.
BufferAppend(content, line, len) ==
    IF Fits(content, len) THEN AppendTo(content, line, len) ELSE content

InUse == {current, next, new1, new2} \cup Range(buffers) \cup Range(toWrite)
Free  == Buffers \ InUse

\* `new Buffer': an object that nothing points to; which one is no matter.
Allocated == CHOOSE b \in Free : TRUE

TwoOf(S) == CHOOSE p \in S \X S : p[1] # p[2]

Init ==
    /\ running = FALSE
    /\ ownerPc = "new"
    /\ latch = 1
    /\ lpc = "none"
    /\ store = [b \in Buffers |-> Empty]
    /\ current = TwoOf(Buffers)[1]
    /\ next = TwoOf(Buffers)[2]
    /\ buffers = <<>> /\ toWrite = <<>>
    /\ new1 = NoBuffer /\ new2 = NoBuffer
    /\ index = 1
    /\ count = 0
    /\ written = <<>>
    /\ flushed = 0
    /\ appended = 0

-----------------------------------------------------------------------------
(***************************************************************************)
(* The owner: once_init calls start() under pthread_once and nobody logs   *)
(* before it returns.  stop() is the class's, the server never calls it.   *)
(***************************************************************************)
Start ==
    /\ ownerPc = "new"
    /\ running' = TRUE
    /\ lpc' = "boot"
    /\ ownerPc' = "starting"
    /\ UNCHANGED <<latch, store, sharedVars, localVars, fileVars, appended>>

StartReturns ==
    /\ ownerPc = "starting"
    /\ latch = 0
    /\ ownerPc' = "running"
    /\ UNCHANGED <<running, latch, lpc, store, sharedVars, localVars,
                   fileVars, appended>>

\* The notify only ends a wait that may end at any time anyway.
Stop ==
    /\ MayStop
    /\ ownerPc = "running"
    /\ running' = FALSE
    /\ ownerPc' = "stopping"
    /\ UNCHANGED <<latch, lpc, store, sharedVars, localVars, fileVars,
                   appended>>

Join ==
    /\ ownerPc = "stopping"
    /\ lpc = "done"
    /\ ownerPc' = "joined"
    /\ UNCHANGED <<running, latch, lpc, store, sharedVars, localVars,
                   fileVars, appended>>

(***************************************************************************)
(* AsyncLogging::append, one critical section of m_mutex.                  *)
(***************************************************************************)
MayAppend ==
    /\ ownerPc \in {"running", "stopping"}
    /\ appended < MaxLines
    /\ appended' = appended + 1
    /\ UNCHANGED <<ownerVars, latch, lpc, localVars, fileVars>>

AppendToCurrent(len) ==
    /\ MayAppend
    /\ Fits(store[current], len)
    /\ store' = [store EXCEPT ![current] = AppendTo(@, appended + 1, len)]
    /\ UNCHANGED sharedVars

\* The current buffer is full: the spare one takes its place, or a new one.
AppendToSpare(len) ==
    /\ MayAppend
    /\ ~Fits(store[current], len)
    /\ next # NoBuffer
    /\ buffers' = Append(buffers, current)
    /\ current' = next
    /\ next' = NoBuffer
    /\ store' = [store EXCEPT ![next] = BufferAppend(@, appended + 1, len)]

AppendToNew(len) ==
    /\ MayAppend
    /\ ~Fits(store[current], len)
    /\ next = NoBuffer
    /\ Free # {}
    /\ buffers' = Append(buffers, current)
    /\ current' = Allocated
    /\ store' = [store EXCEPT
                    ![Allocated] = BufferAppend(Empty, appended + 1, len)]
    /\ UNCHANGED next

-----------------------------------------------------------------------------
(***************************************************************************)
(* AsyncLogging::threadFunc.                                               *)
(***************************************************************************)
Boot ==
    /\ lpc = "boot"
    /\ \E b, c \in Free : b # c
    /\ latch' = 0
    /\ new1' = TwoOf(Free)[1]
    /\ new2' = TwoOf(Free)[2]
    /\ store' = [store EXCEPT ![new1'] = Empty, ![new2'] = Empty]
    /\ lpc' = "test"
    /\ UNCHANGED <<ownerVars, sharedVars, toWrite, index, fileVars, appended>>

LoggerTest ==
    /\ lpc = "test"
    /\ lpc' = IF running THEN "lock" ELSE "final"
    /\ UNCHANGED <<ownerVars, latch, store, sharedVars, localVars, fileVars,
                   appended>>

\* With nothing in m_buffers the thread waits, and m_mutex is free meanwhile.
Wait ==
    /\ lpc = "lock"
    /\ buffers = <<>>
    /\ lpc' = "wait"
    /\ UNCHANGED <<ownerVars, latch, store, sharedVars, localVars, fileVars,
                   appended>>

\* The rest of the critical section.  A wait ends with a notify, after
\* m_flushInterval seconds, or for no reason: `if', not `while'.
Collect ==
    /\ \/ lpc = "lock" /\ buffers # <<>>
       \/ lpc = "wait"
    /\ toWrite' = Append(buffers, current)
    /\ buffers' = toWrite
    /\ current' = new1
    /\ new1' = NoBuffer
    /\ next' = IF next = NoBuffer THEN new2 ELSE next
    /\ new2' = IF next = NoBuffer THEN NoBuffer ELSE new2
    /\ lpc' = "collected"
    /\ UNCHANGED <<ownerVars, latch, store, index, fileVars, appended>>

\* Mistaken variant: an overload leaves the newest buffers.
DropOldest ==
    /\ lpc = "collected"
    /\ toWrite' = IF Len(toWrite) > MaxBuffers
                    THEN SubSeq(toWrite, Len(toWrite) - Kept + 1, Len(toWrite))
                    ELSE toWrite
    /\ lpc' = "write"
    /\ UNCHANGED <<ownerVars, latch, store, sharedVars, new1, new2, index,
                   fileVars, appended>>

\* Mistaken variant: an overload leaves one buffer too few.
DropOneTooMany ==
    /\ lpc = "collected"
    /\ toWrite' = IF Len(toWrite) > MaxBuffers
                    THEN SubSeq(toWrite, 1, Kept - 1) ELSE toWrite
    /\ lpc' = "write"
    /\ UNCHANGED <<ownerVars, latch, store, sharedVars, new1, new2, index,
                   fileVars, appended>>

\* More than 25 buffers: all but the first two are forgotten.
DropExcess ==
    /\ lpc = "collected"
    /\ toWrite' = IF Len(toWrite) > MaxBuffers
                    THEN SubSeq(toWrite, 1, Kept) ELSE toWrite
    /\ lpc' = "write"
    /\ UNCHANGED <<ownerVars, latch, store, sharedVars, new1, new2, index,
                   fileVars, appended>>

\* Mistaken variant: the counter is compared before it is incremented.
WriteBufferCountsLate ==
    /\ lpc = "write"
    /\ index <= Len(toWrite)
    /\ written' = written \o store[toWrite[index]].lines
    /\ count' = IF count >= FlushEveryN THEN 0 ELSE count + 1
    /\ flushed' = IF count' = 0 THEN Len(written') ELSE flushed
    /\ index' = index + 1
    /\ UNCHANGED <<ownerVars, latch, lpc, store, sharedVars, new1, new2,
                   toWrite, appended>>

\* LogFile::append; every m_flushEveryN-th call flushes too.
WriteBuffer ==
    /\ lpc = "write"
    /\ index <= Len(toWrite)
    /\ written' = written \o store[toWrite[index]].lines
    /\ count' = IF count + 1 >= FlushEveryN THEN 0 ELSE count + 1
    /\ flushed' = IF count' = 0 THEN Len(written') ELSE flushed
    /\ index' = index + 1
    /\ UNCHANGED <<ownerVars, latch, lpc, store, sharedVars, new1, new2,
                   toWrite, appended>>

EndWrite ==
    /\ lpc = "write"
    /\ index > Len(toWrite)
    /\ toWrite' = IF Len(toWrite) > 2 THEN SubSeq(toWrite, 1, 2) ELSE toWrite
    /\ index' = 1
    /\ lpc' = "recycle"
    /\ UNCHANGED <<ownerVars, latch, store, sharedVars, new1, new2, fileVars,
                   appended>>

\* Mistaken variant: back() without pop_back().
RecycleTwice ==
    LET last == toWrite[Len(toWrite)] IN
    /\ lpc = "recycle"
    /\ new1' = IF new1 = NoBuffer THEN last ELSE new1
    /\ new2' = IF new2 = NoBuffer THEN last ELSE new2
    /\ store' = [store EXCEPT ![last] = Empty]
    /\ toWrite' = <<>>
    /\ lpc' = "flush"
    /\ UNCHANGED <<ownerVars, latch, sharedVars, index, fileVars, appended>>

\* newBuffer1 is null here and takes the last buffer; newBuffer2, when it is
\* null too, takes the one before.  Both are emptied, the others are freed.
Recycle ==
    LET n     == Len(toWrite)
        first == IF new1 = NoBuffer THEN toWrite[n] ELSE new1
        m     == IF new1 = NoBuffer THEN n - 1 ELSE n
        second == IF new2 = NoBuffer THEN toWrite[m] ELSE new2
    IN
    /\ lpc = "recycle"
    /\ new1' = first
    /\ new2' = second
    /\ store' = [b \in Buffers |->
                    IF \/ b = first /\ new1 = NoBuffer
                       \/ b = second /\ new2 = NoBuffer
                    THEN Empty ELSE store[b]]
    /\ toWrite' = <<>>
    /\ lpc' = "flush"
    /\ UNCHANGED <<ownerVars, latch, sharedVars, index, fileVars, appended>>

Flush ==
    /\ lpc \in {"flush", "final"}
    /\ flushed' = Len(written)
    /\ lpc' = IF lpc = "flush" THEN "test" ELSE "done"
    /\ UNCHANGED <<ownerVars, latch, store, sharedVars, localVars, count,
                   written, appended>>

OwnerNext == Start \/ StartReturns \/ Stop \/ Join

AppendNext ==
    \E len \in Lengths :
        AppendToCurrent(len) \/ AppendToSpare(len) \/ AppendToNew(len)

LoggerNext ==
    \/ Boot \/ LoggerTest \/ Wait \/ Collect \/ DropExcess \/ WriteBuffer
    \/ EndWrite \/ Recycle \/ Flush

Next == OwnerNext \/ AppendNext \/ LoggerNext

\* The logging thread is scheduled, and its wait ends after m_flushInterval
\* seconds whether or not it is notified.  Nobody is obliged to log.
Fairness == WF_vars(LoggerNext) /\ WF_vars(StartReturns)

Spec == Init /\ [][Next]_vars /\ Fairness

-----------------------------------------------------------------------------
(***************************************************************************)
(* Properties.                                                             *)
(***************************************************************************)
Null(p) == IF p = NoBuffer THEN 1 ELSE 0

\* The assertions of threadFunc hold (AsyncLogging.cpp:43, 56-58, 75, 88,
\* 94) and append never dereferences an empty m_currentBuffer (27).  Lines
\* 88 and 94 are the delicate ones: both spare buffers may have been given
\* away, and the batch they are taken back from must then hold two, also
\* after it was cut.
AssertionsHold ==
    /\ lpc = "boot" => running
    /\ lpc = "lock" => \A b \in {new1, new2} :
           b # NoBuffer /\ store[b].used = 0 /\ store[b].lines = <<>>
    /\ lpc = "lock" => toWrite = <<>>
    /\ lpc = "collected" => toWrite # <<>>
    /\ lpc = "recycle" => Len(toWrite) >= Null(new1) + Null(new2)
    /\ current # NoBuffer

\* Every buffer is in one place (AsyncLogging.cpp:30-35, 65-72, 87-100): a
\* buffer that threads append to is neither queued for the logging thread
\* nor being written or reset by it.
NoSharedBuffer ==
    LET four == <<current, next, new1, new2>> IN
    /\ \A i, j \in 1 .. 4 : i # j /\ four[i] # NoBuffer => four[i] # four[j]
    /\ \A i \in 1 .. 4, j \in 1 .. Len(buffers) : buffers[j] # four[i]
    /\ \A i \in 1 .. 4, j \in 1 .. Len(toWrite) : toWrite[j] # four[i]
    /\ \A i \in 1 .. Len(buffers), j \in 1 .. Len(toWrite) :
           buffers[i] # toWrite[j]
    /\ \A i, j \in 1 .. Len(buffers) : i # j => buffers[i] # buffers[j]
    /\ \A i, j \in 1 .. Len(toWrite) : i # j => toWrite[i] # toWrite[j]

\* The lines in a sequence of buffers, oldest first.
LinesOf(seq) == FoldLeft(LAMBDA acc, b : acc \o store[b].lines, <<>>, seq)

\* What the logging thread has taken and not yet written.
Taken == CASE lpc = "collected" -> toWrite
           [] lpc = "write"     -> SubSeq(toWrite, index, Len(toWrite))
           [] OTHER             -> <<>>

Promise == INSTANCE LineLog WITH
               Overload <- MaxBuffers,
               waiting  <- SubSeq(written, flushed + 1, Len(written))
                               \o LinesOf(Taken \o Append(buffers, current)),
               file     <- SubSeq(written, 1, flushed),
               open     <- ownerPc \notin {"stopping", "joined"}

\* The log implements LineLog (AsyncLogging.cpp:25-104, LogFile.cpp:33-40):
\* lines reach the disk in order and once, only an overload drops any, and as
\* long as the log is not stopped every line that is kept gets there.
ImplementsLineLog == Promise!Spec

\* The comment on threadFunc (AsyncLogging.h:38): it writes what was logged
\* to the file.  A line logged before stop() is called would then get there;
\* the run that refutes it logs too few lines for an overload.
LoggedLinesAreWritten ==
    \A n \in 1 .. MaxLines :
        (ownerPc = "running" /\ n <= appended)
            ~> \E i \in 1 .. flushed : written[i] = n

=============================================================================
