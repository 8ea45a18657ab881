----------------------------- MODULE LogStream -----------------------------
(***************************************************************************)
(* LOG statements, from the operators of LogStream to the file:            *)
(* base/LogStream.{h,cpp}, base/Logging.cpp and base/FileUtil.cpp.  A      *)
(* Logger is a temporary of the statement; it stamps a line, the statement *)
(* inserts its pieces, and the destructor adds where it stands and hands   *)
(* the line over.  What AsyncLogging does between the hand-over and        *)
(* AppendFile is in AsyncLogging.tla; here it is the promise of LineLog    *)
(* that lines get to the file in their order, any number at a time.        *)
(*                                                                         *)
(* Text is its length, a number its value and its digits.                  *)
(***************************************************************************)
EXTENDS Integers, Sequences

LOCAL INSTANCE SequencesExt     \* FoldLeft, FlattenSeq

CONSTANTS
    Size,               \* kSmallBuffer
    NumericSize,        \* kMaxNumericSize
    Width,              \* of the integers, in bits
    Values,             \* the integers that are logged
    Lengths,            \* of the strings that are logged
    LineNumber,         \* __LINE__ of the statements
    MaxPieces,          \* bound: pieces of one statement
    MaxLines            \* bound: statements

Integer == -(2 ^ (Width - 1)) .. 2 ^ (Width - 1) - 1

ASSUME SizeAssumption ==
    /\ Size \in Nat \ {0} /\ NumericSize \in Nat
    /\ Width \in Nat \ {0}
    /\ Values \subseteq Integer /\ LineNumber \in Integer
    /\ Lengths \subseteq Nat
    /\ MaxPieces \in Nat /\ MaxLines \in Nat

VARIABLES
    pc,                 \* "idle", "body" of a statement, or "stray"
    given,              \* history: the pieces of the statement so far
    chained,            \* the last `<<' of the chain returned nothing
    buffer,             \* m_buffer
    log,                \* the lines handed over by output(): their lengths
    taken,              \* how many of them were given to AppendFile::append
    batch,              \* what append was given, not written yet
    again,              \* append has made its first call of fwrite
    call,               \* changes with every call of fwrite
    file,               \* what fwrite has taken
    failed              \* ferror(fp_)

streamVars == <<pc, given, chained, buffer>>
fileVars   == <<taken, batch, again, call, file, failed>>
vars == <<streamVars, log, fileVars>>

-----------------------------------------------------------------------------
(***************************************************************************)
(* The pieces.  `returns' is FALSE for the two operators that end without  *)
(* a return statement.                                                     *)
(***************************************************************************)
Null == 6                                       \* "<null>"

String(len)  == [kind |-> "text", len |-> IF len = 0 THEN Null ELSE len,
                 returns |-> TRUE]              \* std::string, char, bool
CString(len) == [kind |-> "text", len |-> len, returns |-> FALSE]
NullPointer  == [kind |-> "text", len |-> Null, returns |-> TRUE]
Number(v, r) == [kind |-> "number", value |-> v, returns |-> r]

Piece == {String(n) : n \in Lengths} \cup {CString(n) : n \in Lengths}
         \cup {NullPointer} \cup {Number(v, TRUE) : v \in Values}
         \cup {Number(v, FALSE) : v \in Values \cap Nat}   \* unsigned short

(***************************************************************************)
(* convert.  / and % of C round towards 0; zero[lsd] is the digit of -lsd  *)
(* as well.  `if(value = 0)' assigns, and no sign is ever written.         *)
(***************************************************************************)
Abs(i) == IF i < 0 THEN -i ELSE i

Quotient(i, d) == IF i < 0 THEN -((-i) \div d) ELSE i \div d

\* Mistaken variant: a negative value is negated first, in its own width.
ConvertNegates(value) ==
    LET start == IF value < 0 /\ -value \in Integer THEN -value ELSE value
        digits[i \in Integer] ==
            IF i < 10 THEN <<Abs(i) % 10>>
            ELSE Append(digits[i \div 10], i % 10)
    IN digits[start]

Convert(value) ==
    LET digits[i \in Integer] ==
            LET rest == Quotient(i, 10)
                lsd  == Abs(i - 10 * rest)
            IN IF rest = 0 THEN <<lsd>> ELSE Append(digits[rest], lsd)
    IN digits[value]

\* kMaxNumericSize is room for a number of the type and its terminator.
ASSUME NumericAssumption ==
    \A v \in Integer : /\ Convert(v) \in Seq(Nat)
                       /\ Len(Convert(v)) < NumericSize

(***************************************************************************)
(* FixedBuffer<kSmallBuffer>: its entries, the bytes used, and the highest *)
(* byte ever written.                                                      *)
(***************************************************************************)
EmptyBuffer == [entries |-> <<>>, used |-> 0, top |-> 0]

\* Entry k is what the k-th piece of the statement left in the buffer.
Store(b, k, chars, written) ==
    [entries |-> Append(b.entries, [piece |-> k, chars |-> chars]),
     used    |-> b.used + Len(chars),
     top     |-> b.used + written]

Avail(b) == Size - b.used

Letters(len) == [i \in 1 .. len |-> i]

\* FixedBuffer::append drops what does not fit, and fills no last byte.
AppendText(b, k, len) ==
    IF Avail(b) > len THEN Store(b, k, Letters(len), len) ELSE b

\* Mistaken variant: the check of avail() is left to append.
FormatIntegerUnchecked(b, k, v) ==
    Store(b, k, Convert(v), Len(Convert(v)) + 1)

\* LogStream::formatInteger converts in place, a terminator at the end.
FormatInteger(b, k, v) ==
    IF Avail(b) >= NumericSize THEN Store(b, k, Convert(v), Len(Convert(v)) + 1)
    ELSE b

\* One `<<' on a stream that is known: s is [buffer, given].
Insert(s, p) ==
    LET k == Len(s.given) + 1 IN
    [given  |-> Append(s.given, p),
     buffer |-> IF p.kind = "text" THEN AppendText(s.buffer, k, p.len)
                ELSE FormatInteger(s.buffer, k, p.value)]

-----------------------------------------------------------------------------
TypeOK ==
    /\ pc \in {"idle", "body", "stray"}
    /\ chained \in BOOLEAN
    /\ buffer.used \in 0 .. Size /\ buffer.top \in 0 .. Size
    /\ log \in Seq(0 .. Size)
    /\ taken \in 0 .. Len(log)
    /\ again \in BOOLEAN /\ call \in BOOLEAN
    /\ failed \in BOOLEAN

Init ==
    /\ pc = "idle"
    /\ given = <<>>
    /\ chained = FALSE
    /\ buffer = EmptyBuffer
    /\ log = <<>>
    /\ taken = 0
    /\ batch = <<>>
    /\ again = FALSE
    /\ call = FALSE
    /\ file = <<>>
    /\ failed = FALSE

\* Logger::Logger: formatTime inserts the time, a C string.
Stamp  == CString(1)
\* Logger::~Logger: "--" and where the statement stands.
WithEnding(s) ==
    Insert(Insert(Insert(Insert(Insert(s, CString(2)), String(2)), CString(1)),
                  Number(LineNumber, TRUE)), CString(1))

Start ==
    LET s == Insert([given |-> <<>>, buffer |-> EmptyBuffer], Stamp) IN
    /\ pc = "idle"
    /\ Len(log) < MaxLines
    /\ pc' = "body"
    /\ given' = s.given
    /\ buffer' = s.buffer
    /\ chained' = FALSE
    /\ UNCHANGED <<log, fileVars>>

\* The next `<<' of the statement.  Where the one before returned nothing,
\* it may still find the stream.
InsertPiece(p) ==
    LET s == Insert([given |-> given, buffer |-> buffer], p) IN
    /\ pc = "body"
    /\ Len(given) <= MaxPieces
    /\ given' = s.given
    /\ buffer' = s.buffer
    /\ chained' = ~p.returns
    /\ UNCHANGED <<pc, log, fileVars>>

\* ... or something that is no stream: nothing is known of the program after
\* that.
Stray ==
    /\ pc = "body"
    /\ chained
    /\ pc' = "stray"
    /\ UNCHANGED <<given, chained, buffer, log, fileVars>>

\* Logger::~Logger and output().  Its chain has operators that return
\* nothing, too, and may end astray.
Finish ==
    LET s == WithEnding([given |-> given, buffer |-> buffer]) IN
    /\ pc = "body"
    /\ given' = s.given
    /\ buffer' = s.buffer
    /\ \/ pc' = "idle" /\ log' = Append(log, s.buffer.used)
       \/ pc' = "stray" /\ UNCHANGED log
    /\ chained' = FALSE
    /\ UNCHANGED fileVars

-----------------------------------------------------------------------------
(***************************************************************************)
(* AppendFile::append, in the logging thread.  fwrite (external) takes     *)
(* less than it is given only after setting the error flag, which stays.   *)
(***************************************************************************)
LineChars(l) == [i \in 1 .. log[l] |-> <<l, i>>]

\* Bound: how much of n characters fwrite may take.
Amounts(n) == {0, 1, n}

Written(k) ==
    /\ call' = ~call
    /\ file' = file \o SubSeq(batch, 1, k)
    /\ failed' \in {failed, TRUE}
    /\ k < Len(batch) => failed'

\* append is given the next n lines and calls fwrite; n lines because the
\* buffers of AsyncLogging hold that many.
AppendLines(n) ==
    /\ batch = <<>>
    /\ taken' = taken + n
    /\ batch' = FlattenSeq([i \in 1 .. n |-> LineChars(taken + i)])
    /\ again' = FALSE
    /\ UNCHANGED <<streamVars, log, call, file, failed>>

FirstWrite(k) ==
    /\ batch # <<>> /\ ~again
    /\ Written(k)
    /\ batch' = SubSeq(batch, k + 1, Len(batch))
    /\ again' = TRUE
    /\ UNCHANGED <<streamVars, log, taken>>

\* Mistaken variant: `this->write(logline, len)' in the loop.
WriteAgainFromStart(k) ==
    /\ batch # <<>> /\ again
    /\ Written(k)
    /\ batch' = IF k = 0 /\ failed' THEN <<>>
                ELSE SubSeq(batch, 1, Len(batch) - k)
    /\ UNCHANGED <<streamVars, log, taken, again>>

\* Mistaken variant: the error is not asked for.
WriteAgainForEver(k) ==
    /\ batch # <<>> /\ again
    /\ Written(k)
    /\ batch' = SubSeq(batch, k + 1, Len(batch))
    /\ UNCHANGED <<streamVars, log, taken, again>>

\* The loop: it gives up what remains when nothing was taken and the error
\* flag is set.
WriteAgain(k) ==
    /\ batch # <<>> /\ again
    /\ Written(k)
    /\ batch' = IF k = 0 /\ failed' THEN <<>>
                ELSE SubSeq(batch, k + 1, Len(batch))
    /\ UNCHANGED <<streamVars, log, taken, again>>

StatementNext == Start \/ (\E p \in Piece : InsertPiece(p)) \/ Stray \/ Finish

FileNext ==
    \/ \E n \in 1 .. Len(log) - taken : AppendLines(n)
    \/ \E k \in Amounts(Len(batch)) : FirstWrite(k)
    \/ \E k \in Amounts(Len(batch)) : WriteAgain(k)

Next == StatementNext \/ FileNext

\* The logging thread runs on for certain while no statement went astray.
Fairness == WF_vars(pc # "stray" /\ FileNext)

Spec == Init /\ [][Next]_vars /\ Fairness

-----------------------------------------------------------------------------
(***************************************************************************)
(* Properties.                                                             *)
(***************************************************************************)
\* The number its decimal digits stand for.
ValueOf(digits) == FoldLeft(LAMBDA n, d : 10 * n + d, 0, digits)

\* The line is made of whole pieces of the statement, in their order
\* (LogStream.h:22-27, LogStream.cpp:14-31): a piece is there to its last
\* character or not at all, also beyond one that was left out, and of a
\* number the magnitude is there, the least one included, which has no
\* negative in its type.
PiecesAreWhole ==
    \A i \in 1 .. Len(buffer.entries) :
        LET e == buffer.entries[i] IN
        /\ i > 1 => buffer.entries[i - 1].piece < e.piece
        /\ IF given[e.piece].kind = "text"
           THEN e.chars = Letters(given[e.piece].len)
           ELSE ValueOf(e.chars) = Abs(given[e.piece].value)

\* Nothing is written past the end of the buffer, the terminator of a number
\* included, and a line is shorter than the buffer (LogStream.h:23,
\* LogStream.cpp:79-105): text and numbers are let in by different checks.
\* AsyncLogging.tla relies on it: every line fits an empty buffer.
StaysInside ==
    /\ buffer.top <= Size
    /\ buffer.used < Size
    /\ \A l \in 1 .. Len(log) : log[l] < Size

\* The file has the characters of the lines in their order, none twice
\* (FileUtil.cpp:19-34), and none is missing as long as the stream has had
\* no error; after one a line may end early.
Before(c, d) == c[1] < d[1] \/ (c[1] = d[1] /\ c[2] < d[2])

FileFollowsLog ==
    /\ \A i \in 1 .. Len(file) - 1 : Before(file[i], file[i + 1])
    /\ ~failed =>
          file \o batch = FlattenSeq([l \in 1 .. taken |-> LineChars(l)])

\* AppendFile::append comes back, also when the disk is full
\* (FileUtil.cpp:22-33): every turn of its loop writes something or finds the
\* error.
AppendComesBack == batch # <<>> ~> (batch = <<>> \/ pc = "stray")
=============================================================================
