----------------------------- MODULE TaskQueue -----------------------------
(***************************************************************************)
(* What an EventLoop promises to the threads that hand it work with        *)
(* EventLoop::queueInLoop: every functor handed over is run by the loop's  *)
(* thread, once, in the order of the hand-over, until the loop stops.      *)
(* Nothing of mutexes, eventfds or epoll is visible here.                  *)
(***************************************************************************)
EXTENDS Naturals, Sequences

CONSTANT Tasks          \* the functors ever handed over

VARIABLES
    queue,              \* handed over, not yet run
    done,               \* run, in order
    open                \* the loop has not stopped

vars == <<queue, done, open>>

Fresh(k) == \A i \in 1 .. Len(queue \o done) : (queue \o done)[i] # k

Init == queue = <<>> /\ done = <<>> /\ open = TRUE

Post(k) ==
    /\ Fresh(k)
    /\ queue' = Append(queue, k)
    /\ UNCHANGED <<done, open>>

Run ==
    /\ open
    /\ queue # <<>>
    /\ done' = Append(done, Head(queue))
    /\ queue' = Tail(queue)
    /\ UNCHANGED open

Stop ==
    /\ open
    /\ open' = FALSE
    /\ UNCHANGED <<queue, done>>

Next == (\E k \in Tasks : Post(k)) \/ Run \/ Stop

Spec == Init /\ [][Next]_vars /\ WF_vars(Run)
=============================================================================
