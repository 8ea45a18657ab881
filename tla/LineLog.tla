------------------------------ MODULE LineLog ------------------------------
(***************************************************************************)
(* What AsyncLogging promises to the threads that log: the lines reach the *)
(* file in the order in which they were appended, each once, and a line is *)
(* left out only when lines are produced faster than they are written.     *)
(* Even then the oldest ones are kept.  Once the log is closed, nothing is *)
(* promised but the order.                                                 *)
(***************************************************************************)
EXTENDS Naturals, Sequences

CONSTANTS
    Overload,           \* nothing is dropped while fewer lines wait
    Kept                \* the oldest lines that are never dropped

VARIABLES
    appended,           \* number of lines appended; line n is the n-th
    waiting,            \* appended, not yet in the file
    file,               \* in the file
    open                \* the log has not been closed

vars == <<appended, waiting, file, open>>

Init == appended = 0 /\ waiting = <<>> /\ file = <<>> /\ open = TRUE

AppendLine ==
    /\ appended' = appended + 1
    /\ waiting' = Append(waiting, appended + 1)
    /\ UNCHANGED <<file, open>>

Write ==
    \E n \in 1 .. Len(waiting) :
        /\ file' = file \o SubSeq(waiting, 1, n)
        /\ waiting' = SubSeq(waiting, n + 1, Len(waiting))
        /\ UNCHANGED <<appended, open>>

Drop ==
    /\ Len(waiting) >= Overload
    /\ \E i \in Kept + 1 .. Len(waiting), j \in 1 .. Len(waiting) :
        /\ i <= j
        /\ waiting' = SubSeq(waiting, 1, i - 1)
                          \o SubSeq(waiting, j + 1, Len(waiting))
    /\ UNCHANGED <<appended, file, open>>

Close ==
    /\ open
    /\ open' = FALSE
    /\ UNCHANGED <<appended, waiting, file>>

Next == AppendLine \/ Write \/ Drop \/ Close

Spec == Init /\ [][Next]_vars /\ WF_vars(open /\ Write)
=============================================================================
