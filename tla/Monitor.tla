------------------------------- MODULE Monitor -------------------------------
(***************************************************************************)
(* What a C++ program expects of a mutex used with a condition variable:   *)
(* one thread inside at a time, several times over only if the mutex is    *)
(* reentrant, and a wait that leaves the monitor and comes back into it    *)
(* only when nobody is inside.                                             *)
(***************************************************************************)
EXTENDS Naturals

CONSTANT Threads

VARIABLES
    reentrant,  \* whether a thread inside may enter again
    depth,      \* how often each thread is inside
    suspended   \* the threads that left in a wait

vars == <<reentrant, depth, suspended>>

Init ==
    /\ reentrant \in BOOLEAN
    /\ depth = [t \in Threads |-> 0]
    /\ suspended = {}

NobodyElse(t) == \A u \in Threads \ {t} : depth[u] = 0

Enter(t) ==
    /\ t \notin suspended
    /\ NobodyElse(t)
    /\ depth[t] > 0 => reentrant
    /\ depth' = [depth EXCEPT ![t] = @ + 1]
    /\ UNCHANGED <<reentrant, suspended>>

Leave(t) ==
    /\ depth[t] > 0
    /\ depth' = [depth EXCEPT ![t] = @ - 1]
    /\ UNCHANGED <<reentrant, suspended>>

Wait(t) ==
    /\ depth[t] = 1
    /\ depth' = [depth EXCEPT ![t] = 0]
    /\ suspended' = suspended \cup {t}
    /\ UNCHANGED reentrant

Resume(t) ==
    /\ t \in suspended
    /\ NobodyElse(t)
    /\ depth' = [depth EXCEPT ![t] = 1]
    /\ suspended' = suspended \ {t}
    /\ UNCHANGED reentrant

Next == \E t \in Threads : Enter(t) \/ Leave(t) \/ Wait(t) \/ Resume(t)

Spec == Init /\ [][Next]_vars
=============================================================================
