------------------------------ MODULE StlMutex ------------------------------
(***************************************************************************)
(* The mutex and the condition variable under std::mutex,                  *)
(* std::recursive_mutex and std::condition_variable: _Mtx_internal_imp_t   *)
(* with _Mtx_lock, _Mtx_trylock, _Mtx_timedlock, _Mtx_unlock (mutex.cpp of *)
(* the overlay) and _Cnd_wait, _Cnd_timedwait, _Cnd_timedwait_for,         *)
(* _Cnd_signal, _Cnd_broadcast (cond.cpp, sharedmutex.cpp).                *)
(*                                                                         *)
(* One mutex and one condition variable are shared by Threads.  Every      *)
(* access to a field of the mutex is a step of its own: _Thread_id and     *)
(* _Count are read by threads that do not hold the SRW lock.               *)
(***************************************************************************)
EXTENDS Naturals

CONSTANTS
    Threads,    \* the threads that use the mutex
    NoThread,   \* the value -1 of _Thread_id; also: the SRW lock is free
    MaxCount    \* bound: how deep the clients nest locks

ASSUME StlMutexAssumption ==
    /\ NoThread \notin Threads
    /\ MaxCount \in Nat \ {0}

(***************************************************************************)
(* The mutex types the STL headers use: _Mtx_plain (_Thrd_create),         *)
(* _Mtx_try (std::mutex), _Mtx_timed, and the last two with _Mtx_recursive.*)
(***************************************************************************)
Types == { {"plain"}, {"try"}, {"timed"},
           {"try", "recursive"}, {"timed", "recursive"} }

VARIABLES
    type,       \* mtx->_Type
    owner,      \* mtx->_Thread_id
    count,      \* mtx->_Count
    srw,        \* the thread that holds mtx->_Critical_section exclusively
    waiting,    \* threads asleep on the condition variable
    pc,         \* where each thread is
    depth       \* history: locks a thread acquired and has not released

vars == <<type, owner, count, srw, waiting, pc, depth>>

LockOps == {"lock", "trylock", "timedlock"}

Plain     == "plain" \in type
Recursive == "recursive" \in type

\* _Mtx_init_in_situ
Init ==
    /\ type \in Types
    /\ owner = NoThread
    /\ count = 0
    /\ srw = NoThread
    /\ waiting = {}
    /\ pc = [t \in Threads |-> "idle"]
    /\ depth = [t \in Threads |-> 0]

Goto(t, from, to) ==
    /\ pc[t] = from
    /\ pc' = [pc EXCEPT ![t] = to]

-----------------------------------------------------------------------------
(* mtx_do_lock *)

(***************************************************************************)
(* Entry of _Mtx_lock, _Mtx_trylock and _Mtx_timedlock; the asserts of the *)
(* last two are preconditions on the type.  _Thread_id is read without the *)
(* lock: a thread that finds its own identifier there acquires nothing.    *)
(* A timedlock reads it again in each turn of its loop.                    *)
(***************************************************************************)
Call(t, o) ==
    /\ o = "trylock" => type \cap {"try", "timed"} # {}
    /\ o = "timedlock" => "timed" \in type
    /\ depth[t] < MaxCount
    /\ Goto(t, "idle", CASE o = "timedlock"              -> "timed"
                         [] o # "timedlock" /\ owner = t -> "count"
                         [] o = "lock" /\ owner # t      -> "acquire"
                         [] o = "trylock" /\ owner # t   -> "try")
    /\ UNCHANGED <<type, owner, count, srw, waiting, depth>>

\* AcquireSRWLockExclusive: blocks until the SRW lock is free.
Acquire(t) ==
    /\ srw = NoThread
    /\ srw' = t
    /\ Goto(t, "acquire", IF Plain THEN "own" ELSE "count")
    /\ UNCHANGED <<type, owner, count, waiting, depth>>

\* The single TryAcquireSRWLockExclusive of a trylock; _Busy when it fails.
TryAcquire(t) ==
    /\ \/ /\ srw = NoThread
          /\ srw' = t
          /\ Goto(t, "try", "count")
       \/ /\ srw # NoThread
          /\ Goto(t, "try", "idle")
          /\ UNCHANGED srw
    /\ UNCHANGED <<type, owner, count, waiting, depth>>

\* One turn of the timedlock loop that ends it; a turn that fails repeats it.
TimedTry(t) ==
    /\ \/ /\ owner = t
          /\ UNCHANGED srw
       \/ /\ owner # t
          /\ srw = NoThread
          /\ srw' = t
    /\ Goto(t, "timed", "count")
    /\ UNCHANGED <<type, owner, count, waiting, depth>>

(***************************************************************************)
(* The clock has passed the target, perhaps before the first turn: the     *)
(* call returns _Timedout, even to a thread that owns a recursive mutex.   *)
(***************************************************************************)
TimedOut(t) ==
    /\ Goto(t, "timed", "idle")
    /\ UNCHANGED <<type, owner, count, srw, waiting, depth>>

\* The plain branch stores the owner before it counts.
SetOwner(t) ==
    /\ owner' = t
    /\ Goto(t, "own", "count")
    /\ UNCHANGED <<type, count, srw, waiting, depth>>

(***************************************************************************)
(* ++_Count.  The first lock of a try or timed mutex goes on to store the  *)
(* owner; a second lock stands if the mutex is recursive (or plain, which  *)
(* asks nothing) and is taken back if it is not.                           *)
(***************************************************************************)
CountUp_AlwaysRecursive(t) ==
    /\ count' = count + 1
    /\ \/ /\ Plain \/ count > 0
          /\ Goto(t, "count", "idle")
          /\ depth' = [depth EXCEPT ![t] = @ + 1]
       \/ /\ ~Plain /\ count = 0
          /\ Goto(t, "count", "setowner")
          /\ UNCHANGED depth
    /\ UNCHANGED <<type, owner, srw, waiting>>

CountUp(t) ==
    /\ count' = count + 1
    /\ \/ /\ Plain \/ (Recursive /\ count > 0)
          /\ Goto(t, "count", "idle")
          /\ depth' = [depth EXCEPT ![t] = @ + 1]
       \/ /\ ~Plain /\ count = 0
          /\ Goto(t, "count", "setowner")
          /\ UNCHANGED depth
       \/ /\ ~Plain /\ ~Recursive /\ count > 0
          /\ Goto(t, "count", "fixup")
          /\ UNCHANGED depth
    /\ UNCHANGED <<type, owner, srw, waiting>>

\* First lock of a try or timed mutex: the owner is stored, the call succeeds.
StoreOwner(t) ==
    /\ owner' = t
    /\ Goto(t, "setowner", "idle")
    /\ depth' = [depth EXCEPT ![t] = @ + 1]
    /\ UNCHANGED <<type, count, srw, waiting>>

\* The mutex is not recursive: the count is taken back, _Busy or _Timedout.
FixupCount(t) ==
    /\ count' = count - 1
    /\ Goto(t, "fixup", "idle")
    /\ UNCHANGED <<type, owner, srw, waiting, depth>>

-----------------------------------------------------------------------------
(* _Mtx_unlock: its asserts are the precondition that the caller holds it. *)

UnlockCount_ReleaseAlways(t) ==
    /\ depth[t] > 0
    /\ count' = count - 1
    /\ depth' = [depth EXCEPT ![t] = @ - 1]
    /\ Goto(t, "idle", "disown")
    /\ UNCHANGED <<type, owner, srw, waiting>>

UnlockCount_ReleaseNever(t) ==
    /\ depth[t] > 0
    /\ count' = count - 1
    /\ depth' = [depth EXCEPT ![t] = @ - 1]
    /\ Goto(t, "idle", IF count = 0 THEN "disown" ELSE "idle")
    /\ UNCHANGED <<type, owner, srw, waiting>>

UnlockCount(t) ==
    /\ depth[t] > 0
    /\ count' = count - 1
    /\ depth' = [depth EXCEPT ![t] = @ - 1]
    /\ Goto(t, "idle", IF count = 1 THEN "disown" ELSE "idle")
    /\ UNCHANGED <<type, owner, srw, waiting>>

ClearOwner_Dropped(t) ==
    /\ Goto(t, "disown", "release")
    /\ UNCHANGED <<type, owner, count, srw, waiting, depth>>

\* _Thread_id = -1, while the SRW lock is still held.
ClearOwner(t) ==
    /\ owner' = NoThread
    /\ Goto(t, "disown", "release")
    /\ UNCHANGED <<type, count, srw, waiting, depth>>

\* ReleaseSRWLockExclusive
Release(t) ==
    /\ srw' = NoThread
    /\ Goto(t, "release", "idle")
    /\ UNCHANGED <<type, owner, count, waiting, depth>>

-----------------------------------------------------------------------------
(* _Cnd_wait, _Cnd_timedwait, _Cnd_timedwait_for *)

(***************************************************************************)
(* _Mtx_clear_owner.  The caller is a unique_lock<mutex>: it holds the     *)
(* mutex once.                                                             *)
(***************************************************************************)
CndClearOwner(t) ==
    /\ depth[t] = 1
    /\ ~Recursive
    /\ owner' = NoThread
    /\ Goto(t, "idle", "cndcount")
    /\ UNCHANGED <<type, count, srw, waiting, depth>>

CndClearCount(t) ==
    /\ count' = count - 1
    /\ depth' = [depth EXCEPT ![t] = 0]
    /\ Goto(t, "cndcount", "cndsleep")
    /\ UNCHANGED <<type, owner, srw, waiting>>

\* SleepConditionVariableSRW releases the lock and sleeps in one step.
CndSleep(t) ==
    /\ srw' = NoThread
    /\ waiting' = waiting \cup {t}
    /\ Goto(t, "cndsleep", "asleep")
    /\ UNCHANGED <<type, owner, count, depth>>

\* The time-out of a timed wait, or a spurious wake-up.
CndTimeout(t) ==
    /\ pc[t] = "asleep"
    /\ t \in waiting
    /\ waiting' = waiting \ {t}
    /\ UNCHANGED <<type, owner, count, srw, pc, depth>>

CndReacquire_NoLock(t) ==
    /\ t \notin waiting
    /\ Goto(t, "asleep", "cndown")
    /\ UNCHANGED <<type, owner, count, srw, waiting, depth>>

\* A thread that was woken takes the SRW lock before the sleep returns.
CndReacquire(t) ==
    /\ t \notin waiting
    /\ srw = NoThread
    /\ srw' = t
    /\ Goto(t, "asleep", "cndown")
    /\ UNCHANGED <<type, owner, count, waiting, depth>>

\* _Mtx_reset_owner
CndResetOwner(t) ==
    /\ owner' = t
    /\ Goto(t, "cndown", "cndup")
    /\ UNCHANGED <<type, count, srw, waiting, depth>>

CndResetCount_Dropped(t) ==
    /\ depth' = [depth EXCEPT ![t] = 1]
    /\ Goto(t, "cndup", "idle")
    /\ UNCHANGED <<type, owner, count, srw, waiting>>

CndResetCount(t) ==
    /\ count' = count + 1
    /\ depth' = [depth EXCEPT ![t] = 1]
    /\ Goto(t, "cndup", "idle")
    /\ UNCHANGED <<type, owner, srw, waiting>>

\* _Cnd_signal: wakes one waiting thread, if there is one.
Signal(t) ==
    /\ pc[t] = "idle"
    /\ \E w \in waiting : waiting' = waiting \ {w}
    /\ UNCHANGED <<type, owner, count, srw, pc, depth>>

\* _Cnd_broadcast
Broadcast(t) ==
    /\ pc[t] = "idle"
    /\ waiting # {}
    /\ waiting' = {}
    /\ UNCHANGED <<type, owner, count, srw, pc, depth>>

-----------------------------------------------------------------------------
LockStep(t) ==
    \/ Acquire(t) \/ TryAcquire(t) \/ TimedTry(t) \/ TimedOut(t)
    \/ SetOwner(t) \/ CountUp(t) \/ StoreOwner(t) \/ FixupCount(t)

UnlockStep(t) == UnlockCount(t) \/ ClearOwner(t) \/ Release(t)

CndStep(t) ==
    \/ CndClearOwner(t) \/ CndClearCount(t) \/ CndSleep(t) \/ CndTimeout(t)
    \/ CndReacquire(t) \/ CndResetOwner(t) \/ CndResetCount(t)

Next ==
    \E t \in Threads :
        \/ \E o \in LockOps : Call(t, o)
        \/ LockStep(t)
        \/ UnlockStep(t)
        \/ CndStep(t)
        \/ Signal(t)
        \/ Broadcast(t)

Spec == Init /\ [][Next]_vars

-----------------------------------------------------------------------------
(* Properties *)

PCs == {"idle", "acquire", "try", "timed", "own", "count", "setowner",
        "fixup", "disown", "release", "cndcount", "cndsleep", "asleep",
        "cndown", "cndup"}

\* The types of the variables.
TypeOK ==
    /\ type \in Types
    /\ owner \in Threads \cup {NoThread}
    /\ count \in Nat
    /\ srw \in Threads \cup {NoThread}
    /\ waiting \subseteq Threads
    /\ pc \in [Threads -> PCs]
    /\ depth \in [Threads -> Nat]

(***************************************************************************)
(* Two threads never hold the mutex together, although mtx_do_lock decides *)
(* from an unprotected read of _Thread_id whether to acquire at all.       *)
(***************************************************************************)
MutualExclusion ==
    \A t, u \in Threads : depth[t] > 0 /\ depth[u] > 0 => t = u

(***************************************************************************)
(* Between its calls a holder finds itself in _Thread_id, its number of    *)
(* locks in _Count, and the SRW lock held: what _Mtx_current_owns and the  *)
(* asserts of _Mtx_unlock rely on, also after a wait or a failed relock.   *)
(***************************************************************************)
OwnerExact ==
    \A t \in Threads :
        pc[t] = "idle" /\ depth[t] > 0 =>
            owner = t /\ count = depth[t] /\ srw = t

(***************************************************************************)
(* A call that fails (_Busy, _Timedout) and a last _Mtx_unlock leave       *)
(* nothing behind: a thread that holds no lock and is in no call neither   *)
(* keeps the SRW lock nor is still named as the owner.                     *)
(***************************************************************************)
NoStrandedLock ==
    \A t \in Threads :
        pc[t] = "idle" /\ depth[t] = 0 => srw # t /\ owner # t

(***************************************************************************)
(* A mutex without _Mtx_recursive is never locked twice by its owner       *)
(* (mtx_do_lock takes the count back); _Mtx_plain, which _Thrd_create      *)
(* uses, is the exception the code makes.                                  *)
(***************************************************************************)
NotRecursive ==
    ~Recursive /\ ~Plain => \A t \in Threads : depth[t] <= 1

(***************************************************************************)
(* The mutex and its condition variable are a monitor: every step of the   *)
(* code that changes who is inside is one the monitor allows, a wait       *)
(* (_Mtx_clear_owner ... _Mtx_reset_owner) included.                       *)
(***************************************************************************)
M == INSTANCE Monitor WITH
        reentrant <- Plain \/ Recursive,
        suspended <- {t \in Threads :
                        pc[t] \in {"cndsleep", "asleep", "cndown", "cndup"}}

MonitorSpec == M!Spec
=============================================================================
