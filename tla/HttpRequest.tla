---------------------------- MODULE HttpRequest ----------------------------
(***************************************************************************)
(* How one connection parses what it receives: HttpData::handleRead with   *)
(* parseURI and parseHeaders (WebServer/HttpData.cpp), on top of readn and *)
(* writen (SocketIO.tla).  Input arrives in pieces of any size, and reads  *)
(* and writes may be interrupted, cut short or fail.  Text is a sequence   *)
(* of tokens: "GET", "POST", "HEAD", "VER" (1.0 or 1.1) and the characters *)
(* the parser looks at; the rest is "X".                                   *)
(*                                                                         *)
(* The result enumerations keep the values the code gives them, because    *)
(* handleRead compares a HeaderState with the values of URIState.          *)
(***************************************************************************)
EXTENDS Integers, Sequences, FiniteSets, SocketIO

LOCAL INSTANCE SequencesExt     \* FoldLeft

CONSTANTS
    Streams,            \* what the client may send, in all
    StartPositions      \* values the uninitialised m_nowReadPos may have

Token  == {"GET", "POST", "HEAD", "SLASH", "SP", "VER", "COLON", "CR", "LF", "X"}
Method == {"GET", "POST", "HEAD"}

ASSUME StreamAssumption ==
    /\ \A s \in Streams : s \in Seq(Token)
    /\ StartPositions \subseteq Nat

\* URIState, HeaderState
URI_AGAIN   == 1
URI_ERROR   == 2
URI_SUCCESS == 3
HEADER_SUCCESS == 1
HEADER_AGAIN   == 2
HEADER_ERROR   == 3
\* ProcessState
ProcessState == {"PARSE_URI", "PARSE_HEADERS", "RECV_BODY", "ANALYSIS",
                 "FINISH"}
\* ParseState
ParseState == {"START", "KEY", "COLON", "SPACES_AFTER_COLON", "VALUE", "CR",
               "LF", "END_CR", "END_LF"}

VARIABLES
    stream,             \* what this client sends
    received,           \* how much of it has been read
    nowReadPos,         \* m_nowReadPos, which the constructor leaves alone
    inBuffer,           \* m_inBuffer
    state,              \* m_state
    hState,             \* m_hState
    method,             \* m_method
    answer,             \* what is sent back
    sent,               \* what of it the socket has taken
    keysInRange,        \* every header key was cut out of the buffer
    closed              \* handleConn has called handleClose

vars == <<stream, received, nowReadPos, inBuffer, state, hState, method,
          answer, sent, keysInRange, closed>>

\* The answer of handleError in the pieces it may be cut into: the header
\* and the body, written one after the other.  Output stands for a response.
Header == <<"status line", "header lines">>
Body   == <<"html", "end of html">>
Output == <<"response">>
Sendable == {"status line", "header lines", "html", "end of html", "response"}

TypeOK ==
    /\ stream \in Streams
    /\ received \in 0 .. Len(stream)
    /\ nowReadPos \in StartPositions \cup {0}
    /\ inBuffer \in Seq(Token)
    /\ state \in ProcessState
    /\ hState \in ParseState
    /\ method \in Method
    /\ answer \in {"none", "400", "output"}
    /\ sent \in Seq(Sendable)
    /\ keysInRange \in BOOLEAN
    /\ closed \in BOOLEAN

Init ==
    /\ stream \in Streams
    /\ received = 0
    /\ nowReadPos \in StartPositions
    /\ inBuffer = <<>>
    /\ state = "PARSE_URI"
    /\ hState = "START"
    /\ method = "GET"
    /\ answer = "none"
    /\ sent = <<>>
    /\ keysInRange = TRUE
    /\ closed = FALSE

-----------------------------------------------------------------------------
(***************************************************************************)
(* std::string::find: the first place of token t in s from position i on   *)
(* (positions count from 1), or npos.  A search from npos finds nothing,   *)
(* and npos compares greater than every position: `pos < 0' is never true. *)
(***************************************************************************)
npos == 0

Find(s, t, i) ==
    LET places == {j \in 1 .. Len(s) : j >= i /\ s[j] = t} IN
    IF i = npos \/ places = {} THEN npos
    ELSE CHOOSE j \in places : \A k \in places : j <= k

\* Mistaken variant: substr(0, i) for substr(i).
Before(s, i) == SubSeq(s, 1, i)

\* How parseURI and parseHeaders cut what they have consumed off m_inBuffer.
After(s, i) == SubSeq(s, i + 1, Len(s))

(***************************************************************************)
(* HttpData::parseURI.  Without a carriage return the line is the whole    *)
(* buffer, and the buffer stays as it is.                                  *)
(***************************************************************************)
MethodOf(line) ==
    IF Find(line, "GET", 1) # npos THEN "GET"
    ELSE IF Find(line, "POST", 1) # npos THEN "POST"
    ELSE IF Find(line, "HEAD", 1) # npos THEN "HEAD"
    ELSE "none"

\* Mistaken variant: `pos < 0' true without a slash, where parseURI succeeds.
VersionFoundSigned(line, m) ==
    LET slash   == Find(line, "SLASH", Find(line, m, 1))
        version == Find(line, "SLASH", Find(line, "SP", slash)) + 1
    IN slash = npos \/ (version <= Len(line) /\ line[version] = "VER")

\* Is a version where the version number is looked for?  Past npos that is
\* the beginning of the line.
VersionFound(line, m) ==
    LET slash   == Find(line, "SLASH", Find(line, m, 1))
        space   == Find(line, "SP", slash)
        version == Find(line, "SLASH", space) + 1
    IN version <= Len(line) /\ line[version] = "VER"

ParseURI(buf, from) ==
    LET cr   == Find(buf, "CR", from + 1)
        line == IF cr = npos THEN buf ELSE SubSeq(buf, 1, cr - 1)
        m    == MethodOf(line)
    IN [rest   |-> IF cr = npos THEN buf ELSE After(buf, cr),
        method |-> m,
        flag   |-> IF m # "none" /\ VersionFound(line, m)
                   THEN URI_SUCCESS ELSE URI_ERROR]

(***************************************************************************)
(* HttpData::parseHeaders.  m_hState outlives the call; the positions are  *)
(* local to it and count from 0.                                           *)
(***************************************************************************)
MaxValue == 255

Scan0(h) == [h |-> h, i |-> 0, keyStart |-> -1, keyEnd |-> -1,
             valueStart |-> -1, lineBegin |-> 0, error |-> FALSE,
             finished |-> FALSE, inRange |-> TRUE]

Bad(s) == [s EXCEPT !.error = TRUE]

\* Mistaken variant: H_SPACES_AFTER_COLON ends, as line 457 may have meant,
\* and nothing else changes.
ScanValue(s, t) ==
    CASE s.h = "SPACES_AFTER_COLON" ->
           [s EXCEPT !.h = "VALUE", !.valueStart = s.i]
      [] s.h = "START" /\ t \notin {"CR", "LF"} ->
           [s EXCEPT !.h = "KEY", !.keyStart = s.i, !.lineBegin = s.i]
      [] s.h = "KEY" /\ t = "COLON" -> [s EXCEPT !.keyEnd = s.i, !.h = "COLON"]
      [] s.h = "COLON" /\ t = "SP" -> [s EXCEPT !.h = "SPACES_AFTER_COLON"]
      [] s.h = "VALUE" /\ t = "CR" -> [s EXCEPT !.h = "CR"]
      [] s.h = "CR" /\ t = "LF" ->
           [s EXCEPT !.h = "LF", !.lineBegin = s.i,
                     !.inRange = @ /\ s.keyStart >= 0 /\ s.valueStart >= 0]
      [] s.h = "CR" /\ t # "LF" -> Bad(s)
      [] OTHER -> s

ScanToken(s, t) ==
    CASE s.h = "START" ->
           IF t \in {"CR", "LF"} THEN s
           ELSE [s EXCEPT !.h = "KEY", !.keyStart = s.i, !.lineBegin = s.i]
      [] s.h = "KEY" ->
           CASE t = "COLON" ->
                  IF s.i - s.keyStart <= 0 THEN Bad([s EXCEPT !.keyEnd = s.i])
                  ELSE [s EXCEPT !.keyEnd = s.i, !.h = "COLON"]
             [] t \in {"CR", "LF"} -> Bad(s)
             [] OTHER -> s
      [] s.h = "COLON" ->
           IF t = "SP" THEN [s EXCEPT !.h = "SPACES_AFTER_COLON"] ELSE Bad(s)
      [] s.h = "SPACES_AFTER_COLON" ->
           \* `m_state == H_VALUE;' compares
           [s EXCEPT !.valueStart = s.i]
      [] s.h = "VALUE" ->
           CASE t = "CR" ->
                  IF s.i - s.valueStart <= 0 THEN Bad([s EXCEPT !.h = "CR"])
                  ELSE [s EXCEPT !.h = "CR"]
             [] t # "CR" /\ s.i - s.valueStart > MaxValue -> Bad(s)
             [] OTHER -> s
      [] s.h = "CR" ->
           IF t = "LF"
           THEN [s EXCEPT !.h = "LF", !.lineBegin = s.i,
                          !.inRange = @ /\ s.keyStart >= 0 /\ s.valueStart >= 0]
           ELSE Bad(s)
      [] s.h = "LF" ->
           IF t = "CR" THEN [s EXCEPT !.h = "END_CR"]
           ELSE [s EXCEPT !.h = "KEY", !.keyStart = s.i]
      [] s.h = "END_CR" ->
           IF t = "LF" THEN [s EXCEPT !.h = "END_LF"] ELSE Bad(s)
      [] s.h = "END_LF" ->
           [s EXCEPT !.finished = TRUE, !.keyStart = s.i, !.lineBegin = s.i]

\* The loop leaves at an error without counting the token, and after the one
\* that finds the headers finished.
Counted(s) == IF s.error THEN s ELSE [s EXCEPT !.i = @ + 1]

ScanStep(s, t) ==
    IF s.error \/ s.finished THEN s ELSE Counted(ScanToken(s, t))

Scanned(h, buf) == FoldLeft(ScanStep, Scan0(h), buf)

\* What parseHeaders makes of the buffer once it has scanned it to s.
HeadersOf(s, buf) ==
    [h       |-> s.h,
     inRange |-> s.inRange,
     rest    |-> IF s.error THEN buf
                 ELSE IF s.h = "END_LF" THEN After(buf, s.i)
                 ELSE After(buf, s.lineBegin),
     flag    |-> IF s.error THEN HEADER_ERROR
                 ELSE IF s.h = "END_LF" THEN HEADER_SUCCESS
                 ELSE HEADER_AGAIN]

-----------------------------------------------------------------------------
(***************************************************************************)
(* HttpData::handleRead, stage by stage: each maps what handleRead works   *)
(* on to the set of its outcomes.  `stop' is the break out of the          *)
(* do-while; an error sends 400.                                           *)
(***************************************************************************)
Break(r)  == [r EXCEPT !.stop = TRUE]

\* Mistaken variant: handleError without `m_error = true'.
RejectGoesOn(r) == [r EXCEPT !.stop = TRUE, !.answer = "400"]

Reject(r) == [r EXCEPT !.stop = TRUE, !.error = TRUE, !.answer = "400"]

\* Before the parser: a read error is answered with 400, the end of the
\* stream alone with nothing.
StartStage(r, rd) ==
    CASE rd.result < 0            -> Reject(r)
      [] rd.result = 0 /\ rd.zero -> Break(r)
      [] OTHER                    -> r

\* Mistaken variant: m_method takes whatever the search came up with.
AfterUriAnyMethod(r, p) ==
    LET q == [r EXCEPT !.buf = p.rest, !.method = p.method] IN
    IF p.flag = URI_ERROR THEN Reject([q EXCEPT !.buf = <<>>])
    ELSE [q EXCEPT !.state = "PARSE_HEADERS"]

\* What handleRead does with the result p of parseURI.
AfterUri(r, p) ==
    LET q == [r EXCEPT !.buf = p.rest,
                       !.method = IF p.method = "none" THEN @ ELSE p.method]
    IN CASE p.flag = URI_AGAIN   -> Break(q)
         [] p.flag = URI_ERROR   -> Reject([q EXCEPT !.buf = <<>>])
         [] p.flag = URI_SUCCESS -> [q EXCEPT !.state = "PARSE_HEADERS"]

UriStage(r) ==
    IF r.stop \/ r.state # "PARSE_URI" THEN {r}
    ELSE {AfterUri(r, p) : p \in {ParseURI(r.buf, r.pos)}}

\* Mistaken variant: line 222 assigns.
AfterHeadersAssigns(r, p) ==
    LET q == [r EXCEPT !.buf = p.rest, !.h = p.h, !.keys = @ /\ p.inRange]
    IN CASE p.flag = URI_AGAIN -> Break(q)
         [] p.flag = URI_ERROR -> Reject([q EXCEPT !.buf = <<>>])
         [] OTHER -> [q EXCEPT !.state = IF r.method = "POST"
                                         THEN "RECV_BODY" ELSE "ANALYSIS"]

\* The HeaderState in p is compared with URI_AGAIN and URI_ERROR.  After
\* headers that pass for good, a GET leaves m_state alone: `m_state ==
\* STATE_ANALYSIS;' compares.
AfterHeaders(r, p) ==
    LET q == [r EXCEPT !.buf = p.rest, !.h = p.h, !.keys = @ /\ p.inRange]
    IN CASE p.flag = URI_AGAIN -> Break(q)
         [] p.flag = URI_ERROR -> Reject([q EXCEPT !.buf = <<>>])
         [] OTHER -> IF r.method = "POST"
                     THEN [q EXCEPT !.state = "RECV_BODY"] ELSE q

HeaderStage(r) ==
    IF r.stop \/ r.state # "PARSE_HEADERS" THEN {r}
    ELSE {AfterHeaders(r, HeadersOf(s, r.buf)) : s \in {Scanned(r.h, r.buf)}}

\* m_headers is empty: no header is ever completed, so there is no
\* "Content-length".
BodyStage(r) ==
    IF r.stop \/ r.state # "RECV_BODY" THEN r ELSE Reject(r)

\* analysisRequest succeeds or fails by the file that is asked for.
AnalysisStage(r) ==
    IF r.stop \/ r.state # "ANALYSIS" THEN {r}
    ELSE {[r EXCEPT !.stop = TRUE, !.state = "FINISH", !.answer = "output",
                    !.out = Output],
          [r EXCEPT !.stop = TRUE, !.error = TRUE]}

\* HttpData::handleWrite, to a socket that takes everything: m_outBuffer is
\* empty (NoRequestIsAnalysed).
WriteStage(r) ==
    LET w == WritenString(r.out, <<Taken(Len(r.out))>>) IN
    IF r.error THEN r
    ELSE [r EXCEPT !.out = w.sbuff, !.error = w.result < 0,
                   !.sent = @ \o w.sent]

\* A finished request resets the connection for the next one (HttpData::reset),
\* and handleRead calls itself for what is left in the buffer; at the end of
\* the stream it does not.
FinishStage(r, eof) ==
    IF ~r.error /\ r.state = "FINISH"
    THEN [r EXCEPT !.state = "PARSE_URI", !.h = "START", !.pos = 0,
                   !.stop = eof \/ r.buf = <<>>]
    ELSE Break(r)

\* What handleRead works on: the members it changes and its local flags.
ReadState ==
    [buf : Seq(Token), pos : Nat, state : ProcessState, h : ParseState,
     method : Method, error : BOOLEAN, answer : {"none", "400", "output"},
     out : {<<>>, Output}, sent : Seq(Sendable), keys : BOOLEAN,
     stop : BOOLEAN]

\* One pass through the stages.
Pass(r, eof) ==
    LET parsed   == UNION {HeaderStage(u) : u \in UriStage(r)}
        analysed == UNION {AnalysisStage(BodyStage(p)) : p \in parsed}
        replied  == {WriteStage(a) : a \in analysed}
    IN {FinishStage(w, eof) : w \in replied}

\* handleRead calls itself as long as FinishStage finds more requests; the
\* socket it then reads once more is taken to be empty.
ReadFrom(r, eof) ==
    LET read[q \in ReadState] ==
          UNION {IF end.stop THEN {end} ELSE read[end] : end \in Pass(q, eof)}
    IN read[r]

ReadResults(rd) ==
    LET r == [buf |-> rd.inBuffer, pos |-> nowReadPos, state |-> state,
              h |-> hState, method |-> method, error |-> FALSE,
              answer |-> answer, out |-> <<>>, sent |-> sent,
              keys |-> keysInRange, stop |-> FALSE]
    IN UNION {ReadFrom(s, rd.zero) : s \in {StartStage(r, rd)}}

(***************************************************************************)
(* The kernel (external): n tokens are read at once, or in two pieces with *)
(* a signal between them, until the socket is empty, at its end or broken; *)
(* a write is taken whole, after a signal, in part, or fails.              *)
(***************************************************************************)
ReadPieces(all) ==
    CASE Len(all) = 0 -> {<<>>}
      [] Len(all) = 1 -> {<<Data(all)>>}
      [] OTHER -> {<<Data(all)>>, <<Data(<<Head(all)>>), Interrupted,
                                    Data(Tail(all))>>}

ReadAnswers(n) ==
    {pieces \o <<end>> :
        pieces \in ReadPieces(SubSeq(stream, received + 1, received + n)),
        end \in {WouldBlock, EndOfStream, Failure}}

WriteAnswers(data) ==
    {<<Taken(Len(data))>>, <<Interrupted, Taken(Len(data))>>,
     <<Taken(1), WouldBlock>>, <<Taken(1), Failure>>, <<Failure>>}

\* HttpData::handleError: a short write of the header does not keep the body
\* from being written.
ErrorPages(r) ==
    IF r.answer = answer THEN {r.sent}
    ELSE {r.sent \o Writen(Header, h).sent \o Writen(Body, b).sent :
             h \in WriteAnswers(Header), b \in WriteAnswers(Body)}

\* Channel::handleEvents of the connection: handleRead, then handleConn,
\* which closes after an error or at the end of the stream.
HandleRead(n) ==
    /\ ~closed
    /\ received' = received + n
    /\ \E rd \in {Readn(inBuffer, answers) : answers \in ReadAnswers(n)} :
          /\ n > 0 \/ rd.zero \/ rd.result < 0
          /\ \E r \in ReadResults(rd) :
                /\ inBuffer' = r.buf
                /\ state' = r.state
                /\ hState' = r.h
                /\ method' = r.method
                /\ answer' = r.answer
                /\ sent' \in ErrorPages(r)
                /\ keysInRange' = r.keys
                /\ closed' = (r.error \/ rd.zero)
                /\ nowReadPos' = r.pos
    /\ UNCHANGED stream

Next == \E n \in 0 .. Len(stream) - received : HandleRead(n)

Spec == Init /\ [][Next]_vars

-----------------------------------------------------------------------------
(***************************************************************************)
(* Properties.                                                             *)
(***************************************************************************)
Delivered == SubSeq(stream, 1, received)

\* No request gets as far as analysisRequest (HttpData.cpp:209-224, 457):
\* whatever the client sends and however it is cut up, the answer is 400 or
\* none.  Connections.tla relies on it: there is never output to wait for.
NoRequestIsAnalysed ==
    state \in {"PARSE_URI", "PARSE_HEADERS", "RECV_BODY"} /\ answer # "output"

\* A header key is cut out between positions of the buffer it is in
\* (HttpData.cpp:476-477), though m_hState outlives the call that found where
\* the key starts.
HeaderKeysAreInRange == keysInRange

\* What is kept of the input is its tail (HttpData.cpp:349-354, 511-514): a
\* piece is consumed from the front, nothing is skipped twice or repeated.
BufferIsTheTail ==
    /\ Len(inBuffer) <= received
    /\ inBuffer = SubSeq(Delivered, received - Len(inBuffer) + 1, received)

\* A request line is accepted only if it names a method and a version
\* (HttpData.cpp:356-370, 399-416).
AcceptedLinesAreRequests ==
    state # "PARSE_URI" =>
        /\ \E i \in 1 .. received : stream[i] = method
        /\ \E i \in 1 .. received : stream[i] = "VER"

\* A connection is sent one error page at most, and nothing after it
\* (HttpData.cpp:175-217, 252, 317-338): its header as far as the socket took
\* it, then its body as far as the socket took that, and it is closed.  Three
\* stages and every later read of the connection could send another.
OneErrorPage ==
    sent # <<>> =>
        /\ closed
        /\ \E i \in 0 .. Len(Header), j \in 0 .. Len(Body) :
              sent = SubSeq(Header, 1, i) \o SubSeq(Body, 1, j)

\* README.md:2: get requests are parsed; so a request in order is not
\* answered with 400.  tests/HTTPClient.cpp:83 sends one.
GetIsServed(get) == stream = get => answer # "400"
=============================================================================
