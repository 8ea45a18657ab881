------------------------------ MODULE SocketIO ------------------------------
(***************************************************************************)
(* The loops around read(2) and write(2) of WebServer/Util.cpp, as what    *)
(* they make of the answers of the kernel, given in order.  An answer to a *)
(* read is a piece of data, to a write the number of bytes taken; both may *)
(* be "EINTR", "EAGAIN" or another error.  A read may also find the end of *)
(* the stream.                                                             *)
(***************************************************************************)
EXTENDS Integers, Sequences

LOCAL INSTANCE SequencesExt     \* FoldLeft

Data(piece) == [kind |-> "data", piece |-> piece]
Taken(n)    == [kind |-> "taken", n |-> n]
Interrupted == [kind |-> "EINTR"]
WouldBlock  == [kind |-> "EAGAIN"]
EndOfStream == [kind |-> "EOF"]
Failure     == [kind |-> "error"]

(***************************************************************************)
(* readn(fd, inBuffer, zero): reads until the socket is empty, at its end  *)
(* or broken.  What came before a failure stays in the buffer, although    *)
(* the result is -1.                                                       *)
(***************************************************************************)
\* Mistaken variant: after EINTR the last piece is appended again.
ReadStepRepeats(r, a) ==
    CASE r.end # "none" -> r
      [] r.end = "none" /\ a.kind = "data" ->
            [r EXCEPT !.buf = @ \o a.piece, !.n = @ + Len(a.piece)]
      [] r.end = "none" /\ a.kind = "EINTR" ->
            [r EXCEPT !.buf = @ \o SubSeq(@, Len(@), Len(@))]
      [] OTHER -> [r EXCEPT !.end = a.kind]

ReadStep(r, a) ==
    CASE r.end # "none" -> r
      [] r.end = "none" /\ a.kind = "data" ->
            [r EXCEPT !.buf = @ \o a.piece, !.n = @ + Len(a.piece)]
      [] r.end = "none" /\ a.kind = "EINTR" -> r
      [] OTHER -> [r EXCEPT !.end = a.kind]

Readn(inBuffer, answers) ==
    LET r == FoldLeft(ReadStep, [buf |-> inBuffer, n |-> 0, end |-> "none"],
                      answers)
    IN [inBuffer |-> r.buf,
        result   |-> IF r.end = "error" THEN -1 ELSE r.n,
        zero     |-> r.end = "EOF"]

(***************************************************************************)
(* writen(fd, buff, n): writes until everything is taken, the socket is    *)
(* full or broken.                                                         *)
(***************************************************************************)
WriteStep(w, a) ==
    CASE w.left = <<>> \/ w.end # "none" -> w
      [] w.left # <<>> /\ w.end = "none" /\ a.kind = "taken" ->
            [w EXCEPT !.sent = @ \o SubSeq(w.left, 1, a.n),
                      !.left = SubSeq(@, a.n + 1, Len(@))]
      [] w.left # <<>> /\ w.end = "none" /\ a.kind = "EINTR" -> w
      [] OTHER -> [w EXCEPT !.end = a.kind]

Writen(data, answers) ==
    LET w == FoldLeft(WriteStep, [sent |-> <<>>, left |-> data,
                                  end |-> "none"], answers)
    IN [sent   |-> w.sent,
        left   |-> w.left,
        result |-> IF w.end = "error" THEN -1 ELSE Len(w.sent)]

\* writen(fd, sbuff): what was taken is cut off the string, unless the
\* socket is broken.
WritenString(sbuff, answers) ==
    LET w == Writen(sbuff, answers) IN
    [sent   |-> w.sent,
     sbuff  |-> IF w.result = -1 THEN sbuff ELSE w.left,
     result |-> w.result]
=============================================================================
