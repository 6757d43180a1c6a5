----------------------------- MODULE ExitStack -----------------------------
(***************************************************************************)
(* What atexit promises: callbacks are registered one after the other, and *)
(* one thread at a time runs the latest that waits until none is left, the *)
(* ones registered meanwhile included.  A callback is known by its number  *)
(* in the order of registration.                                           *)
(***************************************************************************)
EXTENDS Naturals, Sequences

CONSTANTS Threads, NoThread

VARIABLES
    count,      \* how many callbacks were registered
    waiting,    \* the ones that were not run
    ran,        \* the ones that were, in the order they were run
    runner      \* the thread that runs the callbacks

vars == <<count, waiting, ran, runner>>

Init == count = 0 /\ waiting = {} /\ ran = <<>> /\ runner = NoThread

Push ==
    /\ count' = count + 1
    /\ waiting' = waiting \cup {count + 1}
    /\ UNCHANGED <<ran, runner>>

Begin ==
    /\ runner = NoThread
    /\ runner' \in Threads
    /\ UNCHANGED <<count, waiting, ran>>

\* The last in is the first out.
Pop(f) ==
    /\ runner # NoThread
    /\ \A g \in waiting : g <= f
    /\ waiting' = waiting \ {f}
    /\ ran' = Append(ran, f)
    /\ UNCHANGED <<count, runner>>

End ==
    /\ waiting = {}
    /\ runner' = NoThread
    /\ UNCHANGED <<count, waiting, ran>>

Next == Push \/ Begin \/ (\E f \in waiting : Pop(f)) \/ End

Spec == Init /\ [][Next]_vars
=============================================================================
