--------------------------- MODULE StlMutexProofs ---------------------------
(***************************************************************************)
(* Proofs about StlMutex for any set of threads and any nesting bound.     *)
(***************************************************************************)
EXTENDS StlMutex, TLAPS

(***************************************************************************)
(* The inductive invariant.  Everything follows from who holds the SRW     *)
(* lock: the fields of the mutex are those of the step its holder is at,   *)
(* and a thread without it is in one of the steps that need no lock.       *)
(***************************************************************************)
FreeInv == srw = NoThread => owner = NoThread /\ count = 0

OwnerInv == owner # NoThread => owner = srw

OutsideInv(t) ==
    srw # t => /\ pc[t] \in {"idle", "acquire", "try", "timed", "asleep"}
               /\ depth[t] = 0

HolderInv(t) ==
    srw = t =>
      /\ pc[t] \notin {"acquire", "try", "asleep"}
      /\ pc[t] \in {"idle", "timed"} =>
            owner = t /\ depth[t] > 0 /\ count = depth[t]
      /\ pc[t] = "count" =>
            /\ count = depth[t]
            /\ IF depth[t] > 0 \/ Plain THEN owner = t ELSE owner = NoThread
      /\ pc[t] = "setowner" =>
            ~Plain /\ owner = NoThread /\ depth[t] = 0 /\ count = 1
      /\ pc[t] = "fixup" =>
            /\ ~Plain /\ ~Recursive
            /\ owner = t /\ depth[t] > 0 /\ count = depth[t] + 1
      /\ pc[t] = "cndcount" =>
            owner = NoThread /\ depth[t] = 1 /\ count = 1
      /\ pc[t] \in {"disown", "cndup"} =>
            owner = t /\ depth[t] = 0 /\ count = 0
      /\ pc[t] \in {"own", "release", "cndsleep", "cndown"} =>
            owner = NoThread /\ depth[t] = 0 /\ count = 0
      /\ pc[t] = "own" => Plain

\* _Mtx_trylock and _Mtx_timedlock refuse a plain mutex (their asserts).
TryInv(t) == pc[t] \in {"try", "timed"} => ~Plain

IInv ==
    /\ TypeOK
    /\ FreeInv
    /\ OwnerInv
    /\ NotRecursive
    /\ \A t \in Threads : OutsideInv(t) /\ HolderInv(t) /\ TryInv(t)

USE StlMutexAssumption

LEMMA InitInv == Init => IInv
  BY DEF Init, IInv, TypeOK, PCs, FreeInv, OwnerInv, NotRecursive,
         OutsideInv, HolderInv, TryInv, Types

LEMMA PlainAlone ==
  TypeOK /\ Plain => "timed" \notin type /\ type \cap {"try", "timed"} = {}
  BY DEF TypeOK, Types, Plain

\* Every step of mtx_do_lock keeps the invariant.
LEMMA LockInv ==
  ASSUME IInv, NEW t \in Threads,
         (\E o \in LockOps : Call(t, o)) \/ LockStep(t)
  PROVE  IInv'
  <1> USE DEF IInv, TypeOK, PCs, Goto, FreeInv, OwnerInv, NotRecursive,
              OutsideInv, HolderInv, TryInv, Plain, Recursive
  <1>1. CASE \E o \in LockOps : Call(t, o)
    BY <1>1, PlainAlone DEF Call, LockOps
  <1>2. CASE Acquire(t)
    <2>1. CASE Plain
      BY <1>2, <2>1 DEF Acquire
    <2>2. CASE ~Plain
      BY <1>2, <2>2 DEF Acquire
    <2> QED
      BY <2>1, <2>2
  <1>3. CASE TryAcquire(t)
    BY <1>3 DEF TryAcquire
  <1>4. CASE TimedTry(t)
    BY <1>4 DEF TimedTry
  <1>5. CASE TimedOut(t)
    BY <1>5 DEF TimedOut
  <1>6. CASE SetOwner(t)
    BY <1>6 DEF SetOwner
  <1>7. CASE CountUp(t)
    BY <1>7 DEF CountUp
  <1>8. CASE StoreOwner(t)
    BY <1>8 DEF StoreOwner
  <1>9. CASE FixupCount(t)
    BY <1>9 DEF FixupCount
  <1> QED
    BY <1>1, <1>2, <1>3, <1>4, <1>5, <1>6, <1>7, <1>8, <1>9 DEF LockStep

\* Every step of _Mtx_unlock keeps the invariant.
LEMMA UnlockInv ==
  ASSUME IInv, NEW t \in Threads, UnlockStep(t)
  PROVE  IInv'
  <1> USE DEF IInv, TypeOK, PCs, Goto, FreeInv, OwnerInv, NotRecursive,
              OutsideInv, HolderInv, TryInv, Plain, Recursive
  <1>1. CASE UnlockCount(t)
    BY <1>1 DEF UnlockCount
  <1>2. CASE ClearOwner(t)
    BY <1>2 DEF ClearOwner
  <1>3. CASE Release(t)
    BY <1>3 DEF Release
  <1> QED
    BY <1>1, <1>2, <1>3 DEF UnlockStep

\* Every step of a wait, a signal and a broadcast keeps the invariant.
LEMMA CndInv ==
  ASSUME IInv, NEW t \in Threads, CndStep(t) \/ Signal(t) \/ Broadcast(t)
  PROVE  IInv'
  <1> USE DEF IInv, TypeOK, PCs, Goto, FreeInv, OwnerInv, NotRecursive,
              OutsideInv, HolderInv, TryInv, Plain, Recursive
  <1>1. CASE CndClearOwner(t)
    BY <1>1 DEF CndClearOwner
  <1>2. CASE CndClearCount(t)
    BY <1>2 DEF CndClearCount
  <1>3. CASE CndSleep(t)
    BY <1>3 DEF CndSleep
  <1>4. CASE CndTimeout(t)
    BY <1>4 DEF CndTimeout
  <1>5. CASE CndReacquire(t)
    BY <1>5 DEF CndReacquire
  <1>6. CASE CndResetOwner(t)
    BY <1>6 DEF CndResetOwner
  <1>7. CASE CndResetCount(t)
    BY <1>7 DEF CndResetCount
  <1>8. CASE Signal(t)
    BY <1>8 DEF Signal
  <1>9. CASE Broadcast(t)
    BY <1>9 DEF Broadcast
  <1> QED
    BY <1>1, <1>2, <1>3, <1>4, <1>5, <1>6, <1>7, <1>8, <1>9 DEF CndStep

(***************************************************************************)
(* IInv holds in every reachable state: one lemma for each of the code's   *)
(* functions shows that its steps preserve it.                             *)
(***************************************************************************)
THEOREM Inductive == Spec => []IInv
  <1>1. IInv /\ [Next]_vars => IInv'
    <2> SUFFICES ASSUME IInv, [Next]_vars
                 PROVE  IInv'
      OBVIOUS
    <2>1. CASE Next
      BY <2>1, LockInv, UnlockInv, CndInv DEF Next
    <2>2. CASE UNCHANGED vars
      BY <2>2 DEF vars, IInv, TypeOK, FreeInv, OwnerInv, NotRecursive,
                  OutsideInv, HolderInv, TryInv, Plain, Recursive
    <2> QED
      BY <2>1, <2>2
  <1> QED
    BY InitInv, <1>1, PTL DEF Spec

(***************************************************************************)
(* The fields of the mutex keep their types: in particular _Count, which   *)
(* mtx_do_lock, _Mtx_unlock and the wait add to and take from, never goes  *)
(* below zero.                                                             *)
(***************************************************************************)
THEOREM MutexTypes == Spec => []TypeOK
  <1>1. IInv => TypeOK
    BY DEF IInv
  <1> QED
    BY <1>1, Inductive, PTL

(***************************************************************************)
(* std::mutex never has two holders, whatever the number of threads and    *)
(* whichever of lock, trylock, timedlock, unlock and wait they call: the   *)
(* unprotected read of _Thread_id in mtx_do_lock is harmless.              *)
(***************************************************************************)
THEOREM MutexExclusive == Spec => []MutualExclusion
  <1>1. IInv => MutualExclusion
    BY DEF IInv, TypeOK, OutsideInv, MutualExclusion
  <1> QED
    BY <1>1, Inductive, PTL

\* Between calls _Thread_id and _Count describe the mutex's holder exactly.
THEOREM MutexOwnerExact == Spec => []OwnerExact
  <1>1. IInv => OwnerExact
    BY DEF IInv, TypeOK, OwnerInv, OutsideInv, HolderInv, OwnerExact
  <1> QED
    BY <1>1, Inductive, PTL

(***************************************************************************)
(* A thread that is in no call and holds nothing left no lock behind: no   *)
(* path of mtx_do_lock, _Mtx_unlock or the wait forgets the SRW lock.      *)
(***************************************************************************)
THEOREM MutexNotStranded == Spec => []NoStrandedLock
  <1>1. IInv => NoStrandedLock
    BY DEF IInv, TypeOK, OwnerInv, OutsideInv, HolderInv, NoStrandedLock
  <1> QED
    BY <1>1, Inductive, PTL

\* A mutex that is neither recursive nor plain is never held twice by its owner.
THEOREM MutexNotRecursive == Spec => []NotRecursive
  <1>1. IInv => NotRecursive
    BY DEF IInv
  <1> QED
    BY <1>1, Inductive, PTL

-----------------------------------------------------------------------------
(* Refinement of the monitor. *)

Sleepers == {t \in Threads : pc[t] \in {"cndsleep", "asleep", "cndown", "cndup"}}

\* A step that leaves depth and the sleepers alone is a stutter of the monitor.
LEMMA MonitorStutter ==
  ASSUME UNCHANGED <<type, depth>>, Sleepers' = Sleepers
  PROVE  UNCHANGED M!vars
  BY DEF M!vars, Sleepers, Plain, Recursive

\* Only the holder of the SRW lock is inside.
LEMMA HolderAlone ==
  ASSUME IInv, NEW t \in Threads, srw = t
  PROVE  M!NobodyElse(t)
  BY DEF IInv, OutsideInv, M!NobodyElse

LEMMA LockRefines ==
  ASSUME IInv, NEW t \in Threads,
         (\E o \in LockOps : Call(t, o)) \/ LockStep(t)
  PROVE  M!Next \/ UNCHANGED M!vars
  <1> USE DEF IInv, TypeOK, Goto
  <1>1. CASE /\ UNCHANGED <<type, depth>>
             /\ pc'[t] \in {"count", "acquire", "try", "timed", "idle", "own", "setowner", "fixup"}
             /\ pc[t] \in {"count", "acquire", "try", "timed", "idle", "own", "fixup"}
             /\ \E q \in PCs : pc' = [pc EXCEPT ![t] = q]
    <2>1. Sleepers' = Sleepers
      BY <1>1 DEF Sleepers
    <2> QED
      BY <1>1, <2>1, MonitorStutter
  <1>2. CASE \E o \in LockOps : Call(t, o)
    BY <1>1, <1>2 DEF Call, LockOps, PCs
  <1>3. CASE Acquire(t) \/ TryAcquire(t) \/ TimedTry(t) \/ TimedOut(t)
             \/ SetOwner(t) \/ FixupCount(t)
    BY <1>1, <1>3 DEF Acquire, TryAcquire, TimedTry, TimedOut, SetOwner,
                      FixupCount, PCs
  <1>4. ASSUME depth' = [depth EXCEPT ![t] = @ + 1], UNCHANGED type, srw = t,
               pc[t] \in {"count", "setowner"}, pc' = [pc EXCEPT ![t] = "idle"],
               depth[t] > 0 => Plain \/ Recursive
        PROVE  M!Next
    <2>1. Sleepers' = Sleepers /\ t \notin Sleepers
      BY <1>4 DEF Sleepers
    <2>2. M!Enter(t)
      BY <1>4, <2>1, HolderAlone DEF M!Enter, Sleepers, Plain, Recursive
    <2> QED
      BY <2>2 DEF M!Next
  <1>5. CASE CountUp(t)
    <2>1. CASE Plain \/ (Recursive /\ count > 0)
      <3>1. srw = t
        BY <1>5 DEF CountUp, OutsideInv
      <3> QED
        BY <1>4, <1>5, <2>1, <3>1 DEF CountUp, HolderInv
    <2>2. CASE ~(Plain \/ (Recursive /\ count > 0))
      BY <1>1, <1>5, <2>2 DEF CountUp, PCs
    <2> QED
      BY <2>1, <2>2
  <1>6. CASE StoreOwner(t)
    <2>1. srw = t /\ depth[t] = 0
      BY <1>6 DEF StoreOwner, OutsideInv, HolderInv
    <2> QED
      BY <1>4, <1>6, <2>1 DEF StoreOwner
  <1> QED
    BY <1>2, <1>3, <1>5, <1>6 DEF LockStep

LEMMA UnlockRefines ==
  ASSUME IInv, NEW t \in Threads, UnlockStep(t)
  PROVE  M!Next \/ UNCHANGED M!vars
  <1> USE DEF IInv, TypeOK, Goto
  <1>1. CASE UnlockCount(t)
    <2>1. Sleepers' = Sleepers
      BY <1>1 DEF UnlockCount, Sleepers
    <2>2. M!Leave(t)
      BY <1>1, <2>1 DEF UnlockCount, M!Leave, Sleepers, Plain, Recursive
    <2> QED
      BY <2>2 DEF M!Next
  <1>2. CASE ClearOwner(t) \/ Release(t)
    <2>1. Sleepers' = Sleepers
      BY <1>2 DEF ClearOwner, Release, Sleepers
    <2> QED
      BY <1>2, <2>1, MonitorStutter DEF ClearOwner, Release
  <1> QED
    BY <1>1, <1>2 DEF UnlockStep

LEMMA CndRefines ==
  ASSUME IInv, NEW t \in Threads, CndStep(t) \/ Signal(t) \/ Broadcast(t)
  PROVE  M!Next \/ UNCHANGED M!vars
  <1> USE DEF IInv, TypeOK, Goto
  <1>1. CASE CndClearCount(t)
    <2>1. Sleepers' = Sleepers \cup {t}
      BY <1>1 DEF CndClearCount, Sleepers
    <2>2. depth[t] = 1
      BY <1>1 DEF CndClearCount, OutsideInv, HolderInv
    <2>3. M!Wait(t)
      BY <1>1, <2>1, <2>2 DEF CndClearCount, M!Wait, Sleepers, Plain, Recursive
    <2> QED
      BY <2>3 DEF M!Next
  <1>2. CASE CndResetCount(t)
    <2>1. Sleepers' = Sleepers \ {t} /\ t \in Sleepers
      BY <1>2 DEF CndResetCount, Sleepers
    <2>2. srw = t
      BY <1>2 DEF CndResetCount, OutsideInv
    <2>3. M!Resume(t)
      BY <1>2, <2>1, <2>2, HolderAlone
         DEF CndResetCount, M!Resume, Sleepers, Plain, Recursive
    <2> QED
      BY <2>3 DEF M!Next
  <1>3. CASE CndClearOwner(t) \/ CndSleep(t) \/ CndReacquire(t)
             \/ CndResetOwner(t)
    <2>1. Sleepers' = Sleepers
      BY <1>3 DEF CndClearOwner, CndSleep, CndReacquire, CndResetOwner, Sleepers
    <2> QED
      BY <1>3, <2>1, MonitorStutter
         DEF CndClearOwner, CndSleep, CndReacquire, CndResetOwner
  <1>4. CASE CndTimeout(t) \/ Signal(t) \/ Broadcast(t)
    <2>1. Sleepers' = Sleepers
      BY <1>4 DEF CndTimeout, Signal, Broadcast, Sleepers
    <2> QED
      BY <1>4, <2>1, MonitorStutter DEF CndTimeout, Signal, Broadcast
  <1> QED
    BY <1>1, <1>2, <1>3, <1>4 DEF CndStep

(***************************************************************************)
(* mutex.cpp with cond.cpp implements a monitor, for any number of         *)
(* threads: the initial states are the monitor's and every step of the     *)
(* code is a step of the monitor or changes nothing it can see.            *)
(***************************************************************************)
THEOREM MutexIsMonitor == Spec => MonitorSpec
  <1>1. Init => M!Init
    BY DEF Init, M!Init, Plain, Recursive
  <1>2. IInv /\ [Next]_vars => [M!Next]_(M!vars)
    <2> SUFFICES ASSUME IInv, [Next]_vars
                 PROVE  M!Next \/ UNCHANGED M!vars
      OBVIOUS
    <2>1. CASE Next
      BY <2>1, LockRefines, UnlockRefines, CndRefines DEF Next
    <2>2. CASE UNCHANGED vars
      BY <2>2 DEF vars, M!vars, Plain, Recursive
    <2> QED
      BY <2>1, <2>2
  <1> QED
    BY <1>1, <1>2, Inductive, PTL DEF Spec, MonitorSpec, M!Spec
=============================================================================
