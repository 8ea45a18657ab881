--------------------------- MODULE LogStreamProofs ---------------------------
(***************************************************************************)
(* Theorems about LogStream, for every size of the buffer and every set of *)
(* texts and numbers: nothing is written past the end of the buffer.  What *)
(* convert returns is recursive and is taken from NumericAssumption, which *)
(* TLC evaluates for every integer of its width.                           *)
(***************************************************************************)
EXTENDS LogStream, TLAPS

\* The buffer has room for one more byte, and nothing was written outside.
Inside(b) ==
    /\ b.used \in 0 .. Size - 1
    /\ b.top \in 0 .. Size

Fits(p) == IF p.kind = "text" THEN p.len \in Nat ELSE p.value \in Integer

\* A line ends before the buffer does.
StreamInvariant ==
    /\ TypeOK
    /\ Inside(buffer)
    /\ log \in Seq(0 .. Size - 1)

-----------------------------------------------------------------------------
\* What a statement may insert.
LEMMA PiecesFit ==
    /\ \A p \in Piece : Fits(p)
    /\ \A n \in Nat : Fits(CString(n)) /\ Fits(String(n))
    /\ Fits(Number(LineNumber, TRUE))
BY SizeAssumption
   DEF Piece, Fits, String, CString, NullPointer, Number, Null, Integer

\* Text and numbers are let in by different checks (LogStream.h:23,
\* LogStream.cpp:79-84); both leave the buffer as they should find it.
LEMMA InsertStaysInside ==
    ASSUME NEW s, NEW p, Inside(s.buffer), Fits(p)
    PROVE  Inside(Insert(s, p).buffer)
<1> DEFINE b == s.buffer
           k == Len(s.given) + 1
<1>1. Insert(s, p).buffer = IF p.kind = "text" THEN AppendText(b, k, p.len)
                            ELSE FormatInteger(b, k, p.value)
  BY DEF Insert
<1>2. Inside(b)
  OBVIOUS
<1> HIDE DEF b, k
<1>3. CASE p.kind = "text"
  <2>1. p.len \in Nat
    BY <1>3 DEF Fits
  <2>2. Len(Letters(p.len)) = p.len
    BY <2>1 DEF Letters
  <2> QED
    BY <1>1, <1>2, <1>3, <2>1, <2>2, SizeAssumption
       DEF AppendText, Store, Avail, Inside
<1>4. CASE p.kind # "text"
  <2>1. /\ Len(Convert(p.value)) \in Nat
        /\ Len(Convert(p.value)) < NumericSize
    BY <1>4, NumericAssumption DEF Fits
  <2> QED
    BY <1>1, <1>2, <1>4, <2>1, SizeAssumption
       DEF FormatInteger, Store, Avail, Inside
<1> QED
  BY <1>3, <1>4

\* What the destructor of Logger adds.
LEMMA EndingStaysInside ==
    ASSUME NEW s, Inside(s.buffer)
    PROVE  Inside(WithEnding(s).buffer)
BY InsertStaysInside, PiecesFit DEF WithEnding

-----------------------------------------------------------------------------
LEMMA StatementKeeps ==
    ASSUME StreamInvariant, StatementNext
    PROVE  StreamInvariant'
<1> DEFINE begun == Insert([given |-> <<>>, buffer |-> EmptyBuffer], Stamp)
           ended == WithEnding([given |-> given, buffer |-> buffer])
<1>1. UNCHANGED fileVars
  BY DEF StatementNext, Start, InsertPiece, Stray, Finish
<1>2. pc' \in {"idle", "body", "stray"} /\ chained' \in BOOLEAN
  BY Zenon DEF StatementNext, Start, InsertPiece, Stray, Finish,
     StreamInvariant, TypeOK
<1>3. Inside(buffer) /\ Inside(begun.buffer) /\ Inside(ended.buffer)
  <2>1. Inside(EmptyBuffer)
    BY SizeAssumption DEF EmptyBuffer, Inside
  <2> QED
    BY <2>1, InsertStaysInside, EndingStaysInside, PiecesFit
       DEF Stamp, StreamInvariant
<1>4. Inside(buffer')
  <2>1. ASSUME NEW p \in Piece, InsertPiece(p)
        PROVE  Inside(buffer')
    BY <1>3, <2>1, InsertStaysInside, PiecesFit DEF InsertPiece
  <2> QED
    BY <1>3, <2>1 DEF StatementNext, Start, Stray, Finish
<1>5. log' = log \/ log' = Append(log, ended.buffer.used)
  BY DEF StatementNext, Start, InsertPiece, Stray, Finish
<1> HIDE DEF begun, ended
<1>6. /\ log' \in Seq(0 .. Size - 1)
      /\ log' \in Seq(0 .. Size)
      /\ Len(log') \in Nat /\ Len(log') >= Len(log)
  <2>1. log \in Seq(0 .. Size - 1) /\ log \in Seq(0 .. Size)
    BY DEF StreamInvariant, TypeOK
  <2>2. CASE log' = log
    BY <2>1, <2>2
  <2>3. CASE log' = Append(log, ended.buffer.used)
    <3>1. ended.buffer.used \in 0 .. Size - 1
          /\ ended.buffer.used \in 0 .. Size
      BY <1>3, SizeAssumption DEF Inside
    <3> QED
      BY <2>1, <2>3, <3>1
  <2> QED
    BY <1>5, <2>2, <2>3
<1>7. taken' \in 0 .. Len(log')
  BY <1>1, <1>6 DEF fileVars, StreamInvariant, TypeOK
<1>8. again' \in BOOLEAN /\ call' \in BOOLEAN /\ failed' \in BOOLEAN
  BY <1>1, Zenon DEF fileVars, StreamInvariant, TypeOK
<1> QED
  BY <1>2, <1>4, <1>6, <1>7, <1>8, SizeAssumption, Z3
     DEF StreamInvariant, TypeOK, Inside

LEMMA FileKeeps ==
    ASSUME StreamInvariant, FileNext
    PROVE  StreamInvariant'
<1>1. UNCHANGED <<pc, given, chained, buffer, log>>
  BY DEF FileNext, AppendLines, FirstWrite, WriteAgain, streamVars
<1>2. Len(log) \in Nat /\ taken \in 0 .. Len(log)
  BY DEF StreamInvariant, TypeOK
<1>3. taken' = taken \/ \E n \in 1 .. Len(log) - taken : taken' = taken + n
  BY DEF FileNext, AppendLines, FirstWrite, WriteAgain
<1>4. taken' \in 0 .. Len(log')
  BY <1>1, <1>2, <1>3
<1>5. again' \in BOOLEAN /\ call' \in BOOLEAN /\ failed' \in BOOLEAN
  BY Zenon DEF FileNext, AppendLines, FirstWrite, WriteAgain, Written,
     StreamInvariant, TypeOK
<1>6. chained' \in BOOLEAN
  BY <1>1, Zenon DEF StreamInvariant, TypeOK
<1> QED
  BY <1>1, <1>4, <1>5, <1>6 DEF StreamInvariant, TypeOK, Inside

\* The invariant holds, whatever is logged and whatever fwrite does.
THEOREM StreamInvariantHolds == Spec => []StreamInvariant
<1>1. Init => StreamInvariant
  <2> SUFFICES ASSUME Init PROVE StreamInvariant
    OBVIOUS
  <2>1. chained \in BOOLEAN /\ again \in BOOLEAN /\ call \in BOOLEAN
            /\ failed \in BOOLEAN
    BY Zenon DEF Init
  <2> QED
    BY <2>1, SizeAssumption
       DEF Init, StreamInvariant, TypeOK, Inside, EmptyBuffer
<1>2. StreamInvariant /\ [Next]_vars => StreamInvariant'
  <2>1. CASE UNCHANGED vars
    BY <2>1 DEF vars, streamVars, fileVars, StreamInvariant, TypeOK, Inside
  <2> QED
    BY <2>1, StatementKeeps, FileKeeps DEF Next
<1> QED
  BY <1>1, <1>2, PTL DEF Spec

\* Every variable of the stream and the file keeps its type
\* (LogStream.h:14-50, FileUtil.cpp:19-37).
THEOREM StreamTypeCorrect == Spec => []TypeOK
<1>1. StreamInvariant => TypeOK
  BY DEF StreamInvariant
<1> QED
  BY <1>1, StreamInvariantHolds, PTL

\* Nothing is written past the end of the buffer, and every line is shorter
\* than it (LogStream.h:23, LogStream.cpp:79-105).
THEOREM StreamStaysInside == Spec => []StaysInside
<1>1. StreamInvariant => StaysInside
  BY SizeAssumption DEF StreamInvariant, Inside, StaysInside
<1> QED
  BY <1>1, StreamInvariantHolds, PTL
=============================================================================
