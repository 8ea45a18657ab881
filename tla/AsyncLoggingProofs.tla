------------------------- MODULE AsyncLoggingProofs -------------------------
(***************************************************************************)
(* Theorems about AsyncLogging for every number of buffers, every size of  *)
(* them and of the lines, and every batch limit from two upwards: the      *)
(* assertions of threadFunc hold and no buffer is ever in two places.      *)
(***************************************************************************)
EXTENDS AsyncLogging, SequenceTheorems, TLAPS

Idle    == {"test", "lock", "wait", "flush", "final", "done"}
Writing == {"collected", "write", "recycle"}

\* start() has been called once and returns after the thread's countDown.
Startup ==
    /\ lpc = "none" <=> ownerPc = "new"
    /\ lpc = "none" => latch = 1
    /\ lpc = "boot" => ownerPc = "starting" /\ running /\ latch = 1

\* Which pointers are set, and what the spare buffers hold, by where the
\* logging thread is.  The spare pointer of append() is empty only if append
\* has moved it since the last batch was taken, and then m_buffers is not.
Shape ==
    /\ current # NoBuffer
    /\ next = NoBuffer => buffers # <<>>
    /\ lpc \in {"none", "boot"} =>
           new1 = NoBuffer /\ new2 = NoBuffer /\ toWrite = <<>>
    /\ lpc \in Idle =>
           /\ new1 # NoBuffer /\ store[new1] = Empty
           /\ new2 # NoBuffer /\ store[new2] = Empty
           /\ toWrite = <<>>
    /\ lpc \in Writing =>
           /\ new1 = NoBuffer
           /\ new2 # NoBuffer => store[new2] = Empty
           /\ IF new2 = NoBuffer THEN Len(toWrite) >= 2 ELSE Len(toWrite) >= 1

-----------------------------------------------------------------------------
(***************************************************************************)
(* The heap.                                                               *)
(***************************************************************************)
\* Two objects taken from a set that has two.
LEMMA TwoOfWorks ==
    ASSUME NEW S, \E b, c \in S : b # c
    PROVE  /\ TwoOf(S)[1] \in S
           /\ TwoOf(S)[2] \in S
           /\ TwoOf(S)[1] # TwoOf(S)[2]
<1>1. \E p \in S \X S : p[1] # p[2]
  <2>1. PICK b \in S, c \in S : b # c
    OBVIOUS
  <2>2. <<b, c>> \in S \X S /\ <<b, c>>[1] # <<b, c>>[2]
    BY <2>1
  <2> QED
    BY <2>2
<1>2. TwoOf(S) \in S \X S /\ TwoOf(S)[1] # TwoOf(S)[2]
  BY <1>1 DEF TwoOf
<1> QED
  BY <1>2

\* A fresh buffer is nobody's.
LEMMA AllocatedIsFree ==
    ASSUME Free # {}
    PROVE  Allocated \in Free
BY DEF Allocated

\* What it means to be nobody's.
LEMMA FreeIsUnused ==
    ASSUME TypeOK, NEW b \in Free
    PROVE  /\ b \in Buffers
           /\ b # current /\ b # next /\ b # new1 /\ b # new2
           /\ \A i \in 1 .. Len(buffers) : buffers[i] # b
           /\ \A i \in 1 .. Len(toWrite) : toWrite[i] # b
<1>1. /\ Range(buffers) = {buffers[i] : i \in 1 .. Len(buffers)}
      /\ Range(toWrite) = {toWrite[i] : i \in 1 .. Len(toWrite)}
  BY RangeEquality DEF TypeOK
<1> QED
  BY <1>1 DEF Free, InUse

-----------------------------------------------------------------------------
(***************************************************************************)
(* The inductive invariant.                                                *)
(***************************************************************************)
\* The sole-owner condition, spelled out for the four single pointers.
Apart(p, q) == p # NoBuffer => p # q

SoleOwner ==
    /\ Apart(current, next) /\ Apart(current, new1) /\ Apart(current, new2)
    /\ Apart(next, new1) /\ Apart(next, new2) /\ Apart(new1, new2)
    /\ \A j \in 1 .. Len(buffers) :
           buffers[j] # current /\ buffers[j] # next
               /\ buffers[j] # new1 /\ buffers[j] # new2
    /\ \A j \in 1 .. Len(toWrite) :
           toWrite[j] # current /\ toWrite[j] # next
               /\ toWrite[j] # new1 /\ toWrite[j] # new2
    /\ \A i \in 1 .. Len(buffers), j \in 1 .. Len(toWrite) :
           buffers[i] # toWrite[j]
    /\ \A i, j \in 1 .. Len(buffers) : i # j => buffers[i] # buffers[j]
    /\ \A i, j \in 1 .. Len(toWrite) : i # j => toWrite[i] # toWrite[j]

LEMMA SoleOwnerMeansNotShared == SoleOwner => NoSharedBuffer
<1> SUFFICES ASSUME SoleOwner PROVE NoSharedBuffer
  OBVIOUS
<1> DEFINE four == <<current, next, new1, new2>>
<1>1. \A i \in 1 .. 4 : i = 1 \/ i = 2 \/ i = 3 \/ i = 4
  OBVIOUS
<1>2. /\ four[1] = current /\ four[2] = next
      /\ four[3] = new1 /\ four[4] = new2
  OBVIOUS
<1> HIDE DEF four
<1>3. \A i, j \in 1 .. 4 : i # j /\ four[i] # NoBuffer => four[i] # four[j]
  BY <1>1, <1>2 DEF SoleOwner, Apart
<1>4. /\ \A i \in 1 .. 4, j \in 1 .. Len(buffers) : buffers[j] # four[i]
      /\ \A i \in 1 .. 4, j \in 1 .. Len(toWrite) : toWrite[j] # four[i]
  BY <1>1, <1>2 DEF SoleOwner
<1> QED
  BY <1>3, <1>4 DEF SoleOwner, NoSharedBuffer, four

\* The inductive invariant.
LogInvariant == TypeOK /\ Startup /\ Shape /\ SoleOwner

LEMMA LogInvariantInit == Init => LogInvariant
<1> SUFFICES ASSUME Init PROVE LogInvariant
  OBVIOUS
<1>1. current \in Buffers /\ next \in Buffers /\ current # next
  BY TwoOfWorks, BufferAssumption DEF Init
<1>2. store \in [Buffers -> [lines : Seq(Nat), used : Nat]]
  BY DEF Init, Empty
<1>3. 0 \in 0 .. FlushEveryN - 1 /\ 0 \in 0 .. Len(<<>>)
  BY LimitAssumption
<1>4. TypeOK
  <2>1. buffers \in Seq(Buffers) /\ toWrite \in Seq(Buffers)
        /\ written \in Seq(Nat)
    BY DEF Init
  <2>2. count \in 0 .. FlushEveryN - 1 /\ flushed \in 0 .. Len(written)
    BY <1>3 DEF Init
  <2>3. current \in Pointer /\ next \in Pointer /\ new1 \in Pointer
        /\ new2 \in Pointer
    BY <1>1 DEF Init, Pointer
  <2>4. running = FALSE /\ latch = 1 /\ index = 1 /\ appended = 0
        /\ ownerPc = "new" /\ lpc = "none"
    BY Zenon DEF Init
  <2>5. running \in BOOLEAN
    BY <2>4
  <2> QED
    BY <1>2, <2>1, <2>2, <2>3, <2>4, <2>5 DEF TypeOK
<1>5. Startup /\ Shape
  BY <1>1, BufferAssumption DEF Init, Startup, Shape, Idle, Writing
<1>6. SoleOwner
  BY <1>1, BufferAssumption DEF Init, SoleOwner, Apart
<1> QED
  BY <1>4, <1>5, <1>6 DEF LogInvariant

\* start() and stop().
LEMMA OwnerKeepsInvariant ==
    ASSUME LogInvariant, OwnerNext
    PROVE  LogInvariant'
<1> USE DEF LogInvariant, ownerVars, sharedVars, localVars, fileVars
<1>1. TypeOK'
  BY DEF OwnerNext, Start, StartReturns, Stop, Join, TypeOK
<1>2. Startup'
  <2>1. CASE Start
    BY <2>1 DEF Start, Startup, TypeOK
  <2>2. CASE StartReturns
    BY <2>2 DEF StartReturns, Startup, TypeOK
  <2>3. CASE Stop
    BY <2>3 DEF Stop, Startup, TypeOK
  <2>4. CASE Join
    BY <2>4 DEF Join, Startup, TypeOK
  <2> QED
    BY <2>1, <2>2, <2>3, <2>4 DEF OwnerNext
<1>3. Shape'
  BY DEF OwnerNext, Start, StartReturns, Stop, Join, Shape, Startup, Idle,
     Writing
<1>4. SoleOwner'
  BY DEF OwnerNext, Start, StartReturns, Stop, Join, SoleOwner, Apart
<1> QED
  BY <1>1, <1>2, <1>3, <1>4

\* What BufferAppend stores is a buffer's content.
LEMMA BufferAppendType ==
    ASSUME NEW content \in [lines : Seq(Nat), used : Nat],
           NEW line \in Nat, NEW len \in Nat
    PROVE  /\ AppendTo(content, line, len) \in [lines : Seq(Nat), used : Nat]
           /\ BufferAppend(content, line, len)
                  \in [lines : Seq(Nat), used : Nat]
BY AppendProperties DEF AppendTo, BufferAppend

LEMMA AppendNotEmpty ==
    \A s \in Seq(Buffers), b \in Buffers : Append(s, b) # <<>>
BY AppendProperties, Zenon

LEMMA EmptyType == Empty \in [lines : Seq(Nat), used : Nat]
BY DEF Empty

\* A full buffer moves to m_buffers: the pointers after the move.
LEMMA PushKeepsOwners ==
    ASSUME LogInvariant, NEW b \in Buffers,
           b = next \/ b \in Free,
           buffers' = Append(buffers, current), current' = b,
           next' = NoBuffer,
           UNCHANGED <<new1, new2, toWrite>>
    PROVE  SoleOwner'
<1> USE DEF LogInvariant
<1>1. current \in Buffers /\ b # current
  BY FreeIsUnused DEF TypeOK, Pointer, Shape, SoleOwner, Apart
<1>2. /\ b # new1 /\ b # new2
      /\ \A j \in 1 .. Len(buffers) : buffers[j] # b
      /\ \A j \in 1 .. Len(toWrite) : toWrite[j] # b
  BY FreeIsUnused, BufferAssumption DEF SoleOwner, Apart
<1>3. /\ Len(buffers') = Len(buffers) + 1
      /\ \A j \in 1 .. Len(buffers) : buffers'[j] = buffers[j]
      /\ buffers'[Len(buffers) + 1] = current
      /\ Len(buffers) \in Nat
  BY <1>1, AppendProperties, LenProperties DEF TypeOK
<1>4. \A j \in 1 .. Len(buffers') : j \in 1 .. Len(buffers) \/ j = Len(buffers) + 1
  BY <1>3
<1>5. \A j \in 1 .. Len(buffers') :
         /\ buffers'[j] # b /\ buffers'[j] # NoBuffer
         /\ buffers'[j] # new1 /\ buffers'[j] # new2
  <2>1. \A j \in 1 .. Len(buffers) :
           /\ buffers[j] # b /\ buffers[j] # NoBuffer
           /\ buffers[j] # new1 /\ buffers[j] # new2
    BY <1>2, BufferAssumption, ElementOfSeq DEF SoleOwner, TypeOK
  <2>2. /\ current # b /\ current # NoBuffer
        /\ current # new1 /\ current # new2
    BY <1>1, BufferAssumption DEF SoleOwner, Apart
  <2> QED
    BY <1>3, <1>4, <2>1, <2>2
<1>6. \A i \in 1 .. Len(buffers'), j \in 1 .. Len(toWrite) :
         buffers'[i] # toWrite[j]
  BY <1>3, <1>4 DEF SoleOwner
<1>7. \A i, j \in 1 .. Len(buffers') : i # j => buffers'[i] # buffers'[j]
  BY <1>3, <1>4 DEF SoleOwner
<1>8. \A j \in 1 .. Len(toWrite) :
         toWrite[j] # NoBuffer /\ toWrite[j] # new1 /\ toWrite[j] # new2
  BY BufferAssumption, ElementOfSeq DEF SoleOwner, TypeOK
<1> QED
  BY <1>1, <1>2, <1>5, <1>6, <1>7, <1>8, BufferAssumption
     DEF SoleOwner, Apart

\* AsyncLogging::append.
LEMMA AppendKeepsInvariant ==
    ASSUME LogInvariant, NEW len \in Lengths,
           AppendToCurrent(len) \/ AppendToSpare(len) \/ AppendToNew(len)
    PROVE  LogInvariant'
<1> USE DEF LogInvariant, ownerVars, sharedVars, localVars, fileVars, MayAppend
<1>1. len \in Nat /\ appended \in Nat /\ appended + 1 \in Nat
  BY LengthAssumption DEF TypeOK
<1>2. current \in Buffers
  BY DEF TypeOK, Shape, Pointer
<1>3. CASE AppendToCurrent(len)
  <2>1. TypeOK'
    BY <1>1, <1>2, <1>3, BufferAppendType DEF AppendToCurrent, TypeOK
  <2>2. Startup'
    BY <1>3 DEF AppendToCurrent, Startup
  <2>3. Shape'
    BY <1>2, <1>3 DEF AppendToCurrent, Shape, SoleOwner, Apart, TypeOK
  <2>4. SoleOwner'
    BY <1>3 DEF AppendToCurrent, SoleOwner, Apart
  <2> QED
    BY <2>1, <2>2, <2>3, <2>4
<1>4. CASE AppendToSpare(len)
  <2>0. next \in Buffers
    BY <1>4 DEF AppendToSpare, TypeOK, Pointer
  <2>1. TypeOK'
    <3>1. store' \in [Buffers -> [lines : Seq(Nat), used : Nat]]
      BY <1>1, <1>4, <2>0, BufferAppendType DEF AppendToSpare, TypeOK
    <3>2. buffers' \in Seq(Buffers)
      BY <1>2, <1>4, AppendProperties DEF AppendToSpare, TypeOK
    <3> QED
      BY <1>1, <1>4, <2>0, <3>1, <3>2 DEF AppendToSpare, TypeOK, Pointer
  <2>2. Startup'
    BY <1>4 DEF AppendToSpare, Startup
  <2>3. Shape'
    <3>0. buffers' = Append(buffers, current)
      BY <1>4 DEF AppendToSpare
    <3>1. buffers' # <<>>
      BY <1>2, <3>0, AppendNotEmpty DEF TypeOK
    <3> QED
      <4>1. /\ current' = next /\ next' = NoBuffer
            /\ lpc' = lpc /\ new1' = new1 /\ new2' = new2
            /\ toWrite' = toWrite
            /\ store' = [store EXCEPT ![next] =
                            BufferAppend(@, appended + 1, len)]
        BY <1>4 DEF AppendToSpare
      <4>2. next # new1 /\ next # new2 /\ next # NoBuffer
        BY <2>0, BufferAssumption DEF SoleOwner, Apart
      <4>3. /\ new1 # NoBuffer => store'[new1] = store[new1]
            /\ new2 # NoBuffer => store'[new2] = store[new2]
        BY <4>1, <4>2 DEF TypeOK, Pointer
      <4> QED
        BY <3>1, <4>1, <4>2, <4>3 DEF Shape, Idle, Writing
  <2>4. SoleOwner'
    BY <1>4, <2>0, PushKeepsOwners DEF AppendToSpare
  <2> QED
    BY <2>1, <2>2, <2>3, <2>4
<1>5. CASE AppendToNew(len)
  <2>0. Allocated \in Free /\ Allocated \in Buffers
    BY <1>5, AllocatedIsFree, FreeIsUnused DEF AppendToNew
  <2> DEFINE b == Allocated
  <2>1. /\ current' = b /\ buffers' = Append(buffers, current)
        /\ store' = [store EXCEPT
                        ![b] = BufferAppend(Empty, appended + 1, len)]
        /\ b \in Free /\ b \in Buffers
        /\ next = NoBuffer /\ next' = NoBuffer
        /\ appended' = appended + 1
        /\ UNCHANGED <<ownerVars, latch, lpc, localVars, fileVars>>
    BY <1>5, <2>0 DEF AppendToNew
  <2> HIDE DEF b
  <2>2. TypeOK'
    <3>1. store' \in [Buffers -> [lines : Seq(Nat), used : Nat]]
      BY <1>1, <2>1, EmptyType, BufferAppendType DEF TypeOK
    <3>2. buffers' \in Seq(Buffers)
      BY <1>2, <2>1, AppendProperties DEF TypeOK
    <3> QED
      BY <1>1, <2>1, <3>1, <3>2 DEF TypeOK, Pointer
  <2>3. Startup'
    BY <2>1 DEF Startup
  <2>4. Shape'
    <3>1. buffers' # <<>>
      BY <1>2, <2>1, AppendNotEmpty DEF TypeOK
    <3>2. b # new1 /\ b # new2
      BY <2>1, FreeIsUnused
    <3>3. /\ new1 # NoBuffer => store'[new1] = store[new1]
          /\ new2 # NoBuffer => store'[new2] = store[new2]
      BY <2>1, <3>2 DEF TypeOK, Pointer
    <3> QED
      BY <2>1, <3>1, <3>2, <3>3, BufferAssumption DEF Shape, Idle, Writing
  <2>5. SoleOwner'
    BY <2>1, PushKeepsOwners
  <2> QED
    BY <2>2, <2>3, <2>4, <2>5
<1> QED
  BY <1>3, <1>4, <1>5

\* The steps of threadFunc that move no buffer.
LEMMA QuietLoggerStep ==
    ASSUME LogInvariant, LoggerTest \/ Wait \/ WriteBuffer \/ Flush
    PROVE  LogInvariant'
<1> USE DEF LogInvariant, ownerVars, sharedVars, localVars, fileVars
<1>1. CASE LoggerTest
  BY <1>1 DEF LoggerTest, TypeOK, Startup, Shape, SoleOwner, Apart, Idle, Writing
<1>2. CASE Wait
  BY <1>2 DEF Wait, TypeOK, Startup, Shape, SoleOwner, Apart, Idle, Writing
<1>3. CASE WriteBuffer
  <2>1. toWrite[index] \in Buffers
    BY <1>3, ElementOfSeq DEF WriteBuffer, TypeOK
  <2>2. written' \in Seq(Nat) /\ Len(written') \in Nat
        /\ Len(written) <= Len(written')
    <3> DEFINE more == store[toWrite[index]].lines
    <3>1. more \in Seq(Nat) /\ written \in Seq(Nat)
      BY <2>1 DEF TypeOK
    <3>2. written' = written \o more
      BY <1>3 DEF WriteBuffer
    <3> HIDE DEF more
    <3>3. Len(more) \in Nat /\ Len(written) \in Nat
      BY <3>1, LenProperties
    <3>4. written' \in Seq(Nat) /\ Len(written') = Len(written) + Len(more)
      BY <3>1, <3>2, ConcatProperties
    <3> QED
      BY <3>3, <3>4
  <2>3. count' \in 0 .. FlushEveryN - 1
    BY <1>3, LimitAssumption DEF WriteBuffer, TypeOK
  <2>4. flushed' \in 0 .. Len(written')
    BY <1>3, <2>2 DEF WriteBuffer, TypeOK
  <2>5. index' \in Nat \ {0}
    BY <1>3 DEF WriteBuffer, TypeOK
  <2>6. UNCHANGED <<running, ownerPc, latch, lpc, store, current, next,
                    buffers, new1, new2, toWrite, appended>>
    BY <1>3 DEF WriteBuffer
  <2> QED
    BY <2>2, <2>3, <2>4, <2>5, <2>6
       DEF TypeOK, Startup, Shape, SoleOwner, Apart, Idle, Writing
<1>4. CASE Flush
  <2>1. flushed' \in 0 .. Len(written)
    BY <1>4, LenProperties DEF Flush, TypeOK
  <2> QED
    BY <1>4, <2>1
       DEF Flush, TypeOK, Startup, Shape, SoleOwner, Apart, Idle, Writing
<1> QED
  BY <1>1, <1>2, <1>3, <1>4

\* The thread takes two buffers nobody has.
LEMMA BootKeepsInvariant ==
    ASSUME LogInvariant, Boot
    PROVE  LogInvariant'
<1> USE DEF LogInvariant, ownerVars, sharedVars, localVars, fileVars
<1> DEFINE b == TwoOf(Free)[1]
           c == TwoOf(Free)[2]
<1>1. b \in Free /\ c \in Free /\ b # c
  BY TwoOfWorks DEF Boot
<1>2. /\ new1' = b /\ new2' = c /\ latch' = 0
      /\ store' = [store EXCEPT ![b] = Empty, ![c] = Empty]
      /\ lpc = "boot" /\ lpc' = "test"
      /\ UNCHANGED <<running, ownerPc, current, next, buffers, toWrite, index,
                     count, written, flushed, appended>>
  BY DEF Boot
<1> HIDE DEF b, c
<1>3. /\ b \in Buffers /\ b # current /\ b # next
      /\ \A i \in 1 .. Len(buffers) : buffers[i] # b
      /\ \A i \in 1 .. Len(toWrite) : toWrite[i] # b
  BY <1>1, FreeIsUnused
<1>4. /\ c \in Buffers /\ c # current /\ c # next
      /\ \A i \in 1 .. Len(buffers) : buffers[i] # c
      /\ \A i \in 1 .. Len(toWrite) : toWrite[i] # c
  BY <1>1, FreeIsUnused
<1>5. TypeOK'
  <2>1. store' \in [Buffers -> [lines : Seq(Nat), used : Nat]]
    BY <1>2, EmptyType DEF TypeOK
  <2> QED
    BY <1>2, <1>3, <1>4, <2>1 DEF TypeOK, Pointer
<1>6. Startup'
  BY <1>2 DEF Startup
<1>7. Shape'
  <2>1. store'[b] = Empty /\ store'[c] = Empty
    BY <1>1, <1>2, <1>3, <1>4 DEF TypeOK
  <2> QED
    BY <1>2, <1>3, <1>4, <2>1, BufferAssumption DEF Shape, Idle, Writing
<1>8. SoleOwner'
  BY <1>1, <1>2, <1>3, <1>4 DEF SoleOwner, Apart
<1> QED
  BY <1>5, <1>6, <1>7, <1>8

\* A batch is cut to its first elements.
LEMMA CutBatch ==
    ASSUME TypeOK, SoleOwner, NEW n \in Nat, n <= Len(toWrite),
           toWrite' = SubSeq(toWrite, 1, n),
           UNCHANGED <<current, next, new1, new2, buffers>>
    PROVE  SoleOwner' /\ toWrite' \in Seq(Buffers) /\ Len(toWrite') = n
<1>1. \A i \in 1 .. n : toWrite[i] \in Buffers
  BY ElementOfSeq, LenProperties DEF TypeOK
<1>2. /\ toWrite' \in Seq(Buffers) /\ Len(toWrite') = n
      /\ \A i \in 1 .. n : toWrite'[i] = toWrite[i]
  BY <1>1, SubSeqProperties
<1>3. \A i \in 1 .. n : i \in 1 .. Len(toWrite)
  BY LenProperties DEF TypeOK
<1> QED
  BY <1>2, <1>3 DEF SoleOwner, Apart

\* More than MaxBuffers are cut to Kept, more than two to two.
LEMMA CutKeepsInvariant ==
    ASSUME LogInvariant, DropExcess \/ EndWrite
    PROVE  LogInvariant'
<1> USE DEF LogInvariant, ownerVars, sharedVars, localVars, fileVars
<1>0. Len(toWrite) \in Nat
  BY LenProperties DEF TypeOK
<1>1. CASE DropExcess
  <2>1. SoleOwner' /\ toWrite' \in Seq(Buffers)
        /\ (Len(toWrite') = Len(toWrite) \/ Len(toWrite') >= 2)
    <3>1. CASE Len(toWrite) > MaxBuffers
      BY <1>0, <1>1, <3>1, CutBatch, LimitAssumption DEF DropExcess
    <3>2. CASE ~(Len(toWrite) > MaxBuffers)
      BY <1>1, <3>2 DEF DropExcess, TypeOK, SoleOwner, Apart
    <3> QED
      BY <3>1, <3>2
  <2>2. TypeOK'
    BY <1>1, <2>1 DEF DropExcess, TypeOK
  <2>3. Startup'
    BY <1>1 DEF DropExcess, Startup
  <2>4. Shape'
    <3>1. Len(toWrite') \in Nat
      BY <2>1, LenProperties
    <3> QED
      BY <1>0, <1>1, <2>1, <3>1 DEF DropExcess, Shape, Idle, Writing
  <2> QED
    BY <2>1, <2>2, <2>3, <2>4
<1>2. CASE EndWrite
  <2>1. SoleOwner' /\ toWrite' \in Seq(Buffers)
        /\ (Len(toWrite') = Len(toWrite) \/ Len(toWrite') >= 2)
    <3>1. CASE Len(toWrite) > 2
      BY <1>0, <1>2, <3>1, CutBatch DEF EndWrite
    <3>2. CASE ~(Len(toWrite) > 2)
      BY <1>2, <3>2 DEF EndWrite, TypeOK, SoleOwner, Apart
    <3> QED
      BY <3>1, <3>2
  <2>2. TypeOK'
    BY <1>2, <2>1 DEF EndWrite, TypeOK
  <2>3. Startup'
    BY <1>2 DEF EndWrite, Startup
  <2>4. Shape'
    <3>1. Len(toWrite') \in Nat
      BY <2>1, LenProperties
    <3> QED
      BY <1>0, <1>2, <2>1, <3>1 DEF EndWrite, Shape, Idle, Writing
  <2> QED
    BY <2>1, <2>2, <2>3, <2>4
<1> QED
  BY <1>1, <1>2

\* The batch is what was full and the current buffer; a spare takes its
\* place, and the second spare becomes append()'s if append has used its own.
LEMMA CollectKeepsInvariant ==
    ASSUME LogInvariant, Collect
    PROVE  LogInvariant'
<1> USE DEF LogInvariant, ownerVars, sharedVars, localVars, fileVars
<1>1. /\ lpc \in {"lock", "wait"} /\ lpc' = "collected"
      /\ toWrite' = Append(buffers, current) /\ buffers' = toWrite
      /\ current' = new1 /\ new1' = NoBuffer
      /\ next' = (IF next = NoBuffer THEN new2 ELSE next)
      /\ new2' = (IF next = NoBuffer THEN NoBuffer ELSE new2)
      /\ UNCHANGED <<running, ownerPc, latch, store, index, count, written,
                     flushed, appended>>
  BY DEF Collect
<1>2. /\ toWrite = <<>> /\ current \in Buffers
      /\ new1 \in Buffers /\ new2 \in Buffers
  BY <1>1 DEF Shape, TypeOK, Pointer, Idle
<1>3. /\ toWrite' \in Seq(Buffers)
      /\ Len(toWrite') = Len(buffers) + 1
      /\ \A j \in 1 .. Len(buffers) : toWrite'[j] = buffers[j]
      /\ toWrite'[Len(buffers) + 1] = current
      /\ Len(buffers) \in Nat
  BY <1>1, <1>2, AppendProperties, LenProperties DEF TypeOK
<1>4. \A j \in 1 .. Len(toWrite') :
         j \in 1 .. Len(buffers) \/ j = Len(buffers) + 1
  BY <1>3
<1>5. TypeOK'
  BY <1>1, <1>2, <1>3 DEF TypeOK, Pointer
<1>6. Startup'
  BY <1>1 DEF Startup
<1>7. Shape'
  <2>1. next = NoBuffer => Len(buffers) >= 1
    BY <1>3, EmptySeq DEF Shape, TypeOK
  <2>2. store[new2] = Empty
    BY <1>1 DEF Shape, Idle
  <2>3. current' # NoBuffer /\ next' # NoBuffer
    BY <1>1, <1>2, BufferAssumption
  <2>4. IF new2' = NoBuffer THEN Len(toWrite') >= 2 ELSE Len(toWrite') >= 1
    BY <1>1, <1>2, <1>3, <2>1, BufferAssumption
  <2>5. new2' # NoBuffer => store'[new2'] = Empty
    BY <1>1, <2>2
  <2> QED
    BY <1>1, <2>3, <2>4, <2>5 DEF Shape, Idle, Writing
<1>8. SoleOwner'
  <2>1. buffers' = <<>> /\ Len(buffers') = 0
    BY <1>1, <1>2
  <2>2. \A j \in 1 .. Len(buffers) :
           /\ buffers[j] # new1 /\ buffers[j] # new2 /\ buffers[j] # next
           /\ buffers[j] # NoBuffer /\ buffers[j] # current
    BY BufferAssumption, ElementOfSeq DEF SoleOwner, TypeOK
  <2>3. /\ current # new1 /\ current # new2 /\ current # next
        /\ current # NoBuffer /\ new1 # new2
        /\ next # NoBuffer => next # new1 /\ next # new2
    BY <1>2, BufferAssumption DEF SoleOwner, Apart
  <2>4. \A j \in 1 .. Len(toWrite') :
           /\ toWrite'[j] # current' /\ toWrite'[j] # next'
           /\ toWrite'[j] # new1' /\ toWrite'[j] # new2'
    BY <1>1, <1>3, <1>4, <2>2, <2>3
  <2>5. \A i, j \in 1 .. Len(toWrite') : i # j => toWrite'[i] # toWrite'[j]
    BY <1>3, <1>4, <2>2 DEF SoleOwner
  <2>6. /\ Apart(current, next)' /\ Apart(current, new1)'
        /\ Apart(current, new2)' /\ Apart(next, new1)'
        /\ Apart(next, new2)' /\ Apart(new1, new2)'
    BY <1>1, <1>2, <2>3, BufferAssumption DEF Apart
  <2> QED
    BY <2>1, <2>4, <2>5, <2>6 DEF SoleOwner
<1> QED
  BY <1>5, <1>6, <1>7, <1>8

\* The spare buffers are taken back from the batch and emptied: there are as
\* many left as are needed.
LEMMA RecycleKeepsInvariant ==
    ASSUME LogInvariant, Recycle
    PROVE  LogInvariant'
<1> USE DEF LogInvariant, ownerVars, sharedVars, localVars, fileVars
<1> DEFINE n == Len(toWrite)
           second == IF new2 = NoBuffer THEN toWrite[n - 1] ELSE new2
<1>0. lpc = "recycle" /\ new1 = NoBuffer
  BY DEF Recycle, Shape, Writing
<1>1. /\ lpc' = "flush" /\ toWrite' = <<>>
      /\ new1' = toWrite[n] /\ new2' = second
      /\ store' = [b \in Buffers |->
                      IF b = toWrite[n] \/ (b = second /\ new2 = NoBuffer)
                      THEN Empty ELSE store[b]]
      /\ UNCHANGED <<running, ownerPc, latch, current, next, buffers, index,
                     count, written, flushed, appended>>
  BY <1>0 DEF Recycle
<1>2. n \in Nat /\ n >= 1 /\ (new2 = NoBuffer => n >= 2)
  BY <1>0, LenProperties DEF Shape, Writing, TypeOK
<1>3. n \in 1 .. n /\ (new2 = NoBuffer => n - 1 \in 1 .. n /\ n - 1 # n)
  BY <1>2
<1>4. toWrite[n] \in Buffers /\ second \in Buffers
  BY <1>3, ElementOfSeq DEF TypeOK, Pointer
<1>5. toWrite[n] # second
  BY <1>3 DEF SoleOwner
<1>6. /\ toWrite[n] # current /\ toWrite[n] # next
      /\ second # current
      /\ next # NoBuffer => second # next
      /\ \A j \in 1 .. Len(buffers) :
             buffers[j] # toWrite[n] /\ buffers[j] # second
  BY <1>3, <1>4, BufferAssumption DEF SoleOwner, Apart, Shape
<1> HIDE DEF second, n
<1>7. TypeOK'
  <2>1. store' \in [Buffers -> [lines : Seq(Nat), used : Nat]]
    BY <1>1, EmptyType DEF TypeOK
  <2> QED
    BY <1>1, <1>4, <2>1 DEF TypeOK, Pointer
<1>8. Startup'
  BY <1>0, <1>1 DEF Startup
<1>9. Shape'
  <2>1. store'[new1'] = Empty
    BY <1>1, <1>4
  <2>2. store'[new2'] = Empty
    <3>1. new2 # NoBuffer => second = new2 /\ store[new2] = Empty
      BY <1>0 DEF Shape, Writing, second
    <3> QED
      BY <1>1, <1>4, <3>1
  <2> QED
    BY <1>1, <1>4, <2>1, <2>2, BufferAssumption DEF Shape, Idle, Writing
<1>10. SoleOwner'
  BY <1>1, <1>4, <1>5, <1>6, BufferAssumption DEF SoleOwner, Apart
<1> QED
  BY <1>7, <1>8, <1>9, <1>10

\* Every reachable state satisfies the inductive invariant.
THEOREM LogInvariantHolds == Spec => []LogInvariant
<1>1. LogInvariant /\ [Next]_vars => LogInvariant'
  <2>1. CASE UNCHANGED vars
    BY <2>1 DEF vars, LogInvariant, TypeOK, Startup, Shape, SoleOwner, Apart,
       Idle, Writing
  <2> QED
    BY <2>1, OwnerKeepsInvariant, AppendKeepsInvariant, QuietLoggerStep,
       BootKeepsInvariant, CutKeepsInvariant, CollectKeepsInvariant,
       RecycleKeepsInvariant DEF Next, AppendNext, LoggerNext
<1> QED
  BY <1>1, LogInvariantInit, PTL DEF Spec

\* Every variable of the log keeps its type.
THEOREM TypeCorrect == Spec => []TypeOK
<1>1. LogInvariant => TypeOK
  BY DEF LogInvariant
<1> QED
  BY <1>1, LogInvariantHolds, PTL

\* The assertions of threadFunc never fail and append never dereferences an
\* empty pointer (AsyncLogging.cpp:27, 43, 56-58, 75, 88, 94).
THEOREM AssertionsNeverFail == Spec => []AssertionsHold
<1>1. LogInvariant => AssertionsHold
  <2> SUFFICES ASSUME LogInvariant PROVE AssertionsHold
    OBVIOUS
  <2> USE DEF LogInvariant
  <2>1. lpc = "boot" => running
    BY DEF Startup
  <2>2. lpc = "lock" =>
           /\ \A b \in {new1, new2} :
                 b # NoBuffer /\ store[b].used = 0 /\ store[b].lines = <<>>
           /\ toWrite = <<>>
    BY DEF Shape, Idle, Empty
  <2>3. lpc = "collected" => toWrite # <<>>
    BY EmptySeq DEF Shape, Writing
  <2>4. lpc = "recycle" => Len(toWrite) >= Null(new1) + Null(new2)
    BY DEF Shape, Writing, Null
  <2> QED
    BY <2>1, <2>2, <2>3, <2>4 DEF AssertionsHold, Shape
<1> QED
  BY <1>1, LogInvariantHolds, PTL

\* No buffer is in two places: the loggers never append to one the logging
\* thread is writing or resetting (AsyncLogging.cpp:30-35, 65-72, 87-100).
THEOREM BuffersAreNotShared == Spec => []NoSharedBuffer
<1>1. LogInvariant => NoSharedBuffer
  BY SoleOwnerMeansNotShared DEF LogInvariant
<1> QED
  BY <1>1, LogInvariantHolds, PTL
=============================================================================
