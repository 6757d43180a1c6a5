------------------------- MODULE ThreadStartProofs -------------------------
(***************************************************************************)
(* Proofs about ThreadStart, for any threads of the system and any threads *)
(* created by _beginthread and _beginthreadex.                             *)
(***************************************************************************)
EXTENDS ThreadStart, TLAPS

(***************************************************************************)
(* The inductive invariant says where each thing a thread owns is at each  *)
(* step.  ret is set only inside __acrt_getptd_noexit, and a slow path is  *)
(* suspended only while the errno of its failed allocation is set.         *)
(***************************************************************************)
GetptdInv(t) ==
    /\ ~InGetptd(t) => ret[t] = "errno"
    /\ nest[t] = 1 => pc[t] = "getptd"

\* Which steps a thread of the system and a created thread can be at.
KindInv(t) ==
    /\ t \in Foreign =>
         /\ pc[t] \notin {"unborn", "start", "setcontext", "procedure", "closehandle", "aborted"}
         /\ ret[t] # "start"
         /\ ~context[t]
    /\ t \in Created =>
         /\ pc[t] \notin {"inited", "uninit"}
         /\ ret[t] # "init"

\* A created thread is in thread_start and does not have its PTD yet.
Starting(c) == pc[c] = "start" \/ ret[c] = "start"

(***************************************************************************)
(* The PTD and the context of a created thread: a thread that runs has its *)
(* PTD for good, because thread_start aborts without one, and its context  *)
(* points to its parameter from SetContext on.                             *)
(***************************************************************************)
ContextInv(c) ==
    /\ pc[c] = "unborn" => slot[c] = "null"
    /\ pc[c] = "unborn" \/ Starting(c) => ~context[c]
    /\ pc[c] \notin {"unborn", "gone", "aborted"} /\ ~Starting(c) =>
         /\ slot[c] = "ptd"
         /\ pc[c] # "setcontext" => context[c]

GoneInv(t) == pc[t] = "gone" => slot[t] = "null"

\* The thread is in none of the driver's functions.
Quiet(t) == pc[t] \in (IF t \in Foreign THEN {"run", "gone"} ELSE {"unborn", "gone"})

\* The thread is inside __acrt_initialize_ptd.
Loads(t) == pc[t] \in {"inited", "uninit"} \/ ret[t] = "init"

\* Before the driver runs and after it, at most its loader is inside it.
PhaseInv ==
    /\ \A t \in Threads :
         /\ phase # "live" => Quiet(t) \/ (phase = "loading" /\ Loads(t))
         /\ Loads(t) => phase = "loading"
    /\ \A t, u \in Threads : Loads(t) /\ Loads(u) => t = u

\* The thread has a parameter that no thread was created with.
HasParameter(t) == pc[t] \in {"create", "dropparam"} \/ ret[t] = "create"

(***************************************************************************)
(* A thread is made by one creator at a time; until CreateThread succeeds  *)
(* it does not exist, and from then on its creator does not drop it.       *)
(***************************************************************************)
MakingInv ==
    /\ \A t \in Threads :
         /\ making[t] # None <=> HasParameter(t) \/ pc[t] \in {"sethandle", "detach"}
         /\ making[t] # None =>
              /\ making[t] # t
              /\ pc[making[t]] = "unborn" <=> HasParameter(t)
         /\ pc[t] = "sethandle" => api[making[t]] = "_beginthread"
    /\ \A t, u \in Threads : making[t] = making[u] /\ making[t] # None => t = u

\* A handle that a parameter holds is still to be closed, by its thread.
HandleInv(c) ==
    /\ stored[c] => api[c] = "_beginthread" /\ pc[c] # "unborn"
    /\ api[c] = "_beginthread" /\ pc[c] \notin {"unborn", "exit", "gone"} => handle[c] = "open"

IInv ==
    /\ TypeOK
    /\ SentinelGuards
    /\ PtdOwned
    /\ ParameterOwned
    /\ ReleasedOnce
    /\ PhaseInv
    /\ MakingInv
    /\ \A t \in Threads : GetptdInv(t) /\ KindInv(t) /\ GoneInv(t)
    /\ \A c \in Created : ContextInv(c) /\ HandleInv(c)

USE ThreadStartAssumption DEF Threads

LEMMA InitInv == Init => IInv
  <1> SUFFICES ASSUME Init PROVE IInv
    OBVIOUS
  <1> USE DEF Init, Quiet, Loads, HasParameter, InGetptd, Starting, Apis, CreatorOwns
  <1>1. TypeOK
    BY DEF TypeOK
  <1>2. SentinelGuards /\ PtdOwned /\ ReleasedOnce
    BY DEF SentinelGuards, PtdOwned, ReleasedOnce
  <1>3. ParameterOwned
    BY DEF ParameterOwned
  <1>4. PhaseInv /\ MakingInv
    BY DEF PhaseInv, MakingInv
  <1>5. \A t \in Threads : GetptdInv(t) /\ KindInv(t) /\ GoneInv(t)
    BY DEF GetptdInv, KindInv, GoneInv
  <1>6. \A c \in Created : ContextInv(c) /\ HandleInv(c)
    BY DEF ContextInv, HandleInv
  <1> QED
    BY <1>1, <1>2, <1>3, <1>4, <1>5, <1>6 DEF IInv

(***************************************************************************)
(* __acrt_getptd_noexit returns, to a slow path or to its caller: with the *)
(* PTD in the slot, or without a PTD and with the slot as it was before.   *)
(***************************************************************************)
LEMMA ReturnInv ==
  ASSUME IInv, NEW t \in Threads, InGetptd(t), Return(t, slot'[t] = "ptd"),
         slot' = [slot EXCEPT ![t] = slot'[t]], slot'[t] \in {"null", "sentinel", "ptd"},
         slot'[t] = "sentinel" <=> nest[t] > 0, slot[t] = "ptd" => slot'[t] = "ptd",
         ptd' = [ptd EXCEPT ![t] = ptd'[t]], ptd'[t] \in {"none", "live", "freed"},
         ptd'[t] = "live" <=> slot'[t] = "ptd",
         context' = [context EXCEPT ![t] = context'[t]], context'[t] \in BOOLEAN,
         context'[t] => context[t], slot[t] = "ptd" => context'[t] = context[t],
         UNCHANGED <<phase, object, making>>
  PROVE  IInv'
  <1> USE DEF IInv, GetptdInv, KindInv, GoneInv, ContextInv, Starting, HandleInv, InGetptd
  <1> DEFINE ok == slot'[t] = "ptd"
  <1>1. CASE nest[t] > 0
    <2>1. /\ pc' = [pc EXCEPT ![t] = "resetslot"] /\ pc[t] = "getptd" /\ UNCHANGED ret
          /\ nest' = [nest EXCEPT ![t] = 0]
      BY <1>1 DEF TypeOK, Return
    <2> USE <1>1, <2>1 DEF TypeOK, object
    <2>2. TypeOK'
      OBVIOUS
    <2>3. SentinelGuards' /\ PtdOwned' /\ ReleasedOnce'
      BY <2>2 DEF SentinelGuards, PtdOwned, ReleasedOnce
    <2>4. PhaseInv' /\ MakingInv'
      BY <2>2 DEF PhaseInv, Quiet, Loads, MakingInv, HasParameter
    <2>5. ParameterOwned'
      BY <2>2 DEF ParameterOwned, CreatorOwns
    <2>6. \A u \in Threads : GetptdInv(u)' /\ KindInv(u)' /\ GoneInv(u)'
      BY <2>2
    <2>7. \A c \in Created : ContextInv(c)' /\ HandleInv(c)'
      BY <2>2 DEF SentinelGuards
    <2> QED
      BY <2>2, <2>3, <2>4, <2>5, <2>6, <2>7
  <1>2. CASE nest[t] = 0
    <2>1. PICK q : /\ pc' = [pc EXCEPT ![t] = q]
                   /\ \/ ret[t] = "start" /\ q = (IF ok THEN "setcontext" ELSE "aborted")
                      \/ ret[t] = "end" /\ q = (IF ok THEN "readcontext" ELSE "exit")
                      \/ ret[t] = "init" /\ q = (IF ok THEN "inited" ELSE "uninit")
                      \/ ret[t] = "create" /\ q = "dropparam"
                      \/ ret[t] = "errno" /\ q = "run"
      BY <1>2 DEF TypeOK, Return
    <2>2. nest' = nest /\ ret' = [ret EXCEPT ![t] = "errno"]
      BY <1>2 DEF TypeOK, Return
    <2> USE <1>2, <2>1, <2>2 DEF TypeOK, object
    <2>3. TypeOK'
      OBVIOUS
    <2>4. SentinelGuards' /\ PtdOwned' /\ ReleasedOnce'
      BY <2>3 DEF SentinelGuards, PtdOwned, ReleasedOnce
    <2>5. PhaseInv'
      BY <2>3 DEF PhaseInv, Quiet, Loads
    <2>6. MakingInv'
      BY <2>3 DEF MakingInv, HasParameter
    <2>7. ParameterOwned'
      BY <2>3 DEF ParameterOwned, CreatorOwns, MakingInv, HasParameter
    <2>8. \A u \in Threads : GetptdInv(u)' /\ KindInv(u)' /\ GoneInv(u)'
      BY <2>3
    <2>9. \A c \in Created : ContextInv(c)' /\ HandleInv(c)'
      BY <2>3 DEF MakingInv, HasParameter
    <2> QED
      BY <2>3, <2>4, <2>5, <2>6, <2>7, <2>8, <2>9
  <1> QED
    BY <1>1, <1>2 DEF TypeOK

\* Every step of __acrt_getptd_noexit keeps the invariant.
LEMMA GetptdStepInv ==
  ASSUME IInv, NEW t \in Threads, GetptdStep(t)
  PROVE  IInv'
  <1>0. /\ slot = [slot EXCEPT ![t] = slot[t]] /\ slot[t] \in {"null", "sentinel", "ptd"}
        /\ ptd = [ptd EXCEPT ![t] = ptd[t]] /\ ptd[t] \in {"none", "live", "freed"}
        /\ context = [context EXCEPT ![t] = context[t]] /\ context[t] \in BOOLEAN
        /\ nest[t] \in 0..1
    BY DEF IInv, TypeOK, ReleasedOnce
  <1>1. CASE FindPtd(t)
    <2>1. /\ InGetptd(t) /\ Return(t, slot'[t] = "ptd")
          /\ UNCHANGED <<phase, slot, ptd, context, object, making>>
      BY <1>1 DEF FindPtd, At, InGetptd, fls
    <2>2. /\ slot[t] = "sentinel" <=> nest[t] > 0
          /\ ptd[t] = "live" <=> slot[t] = "ptd"
      BY <1>0, <1>1 DEF IInv, FindPtd, At, SentinelGuards, PtdOwned
    <2> QED
      BY <1>0, <2>1, <2>2, ReturnInv
  <1>2. CASE SetSentinelFails(t)
    <2>1. /\ InGetptd(t) /\ Return(t, FALSE) /\ slot[t] = "null"
          /\ UNCHANGED <<phase, slot, ptd, context, object, making>>
      BY <1>2 DEF SetSentinelFails, At, InGetptd, fls
    <2>2. nest[t] = 0 /\ ptd[t] # "live"
      BY <1>0, <1>2 DEF IInv, SetSentinelFails, At, SentinelGuards, PtdOwned
    <2>3. /\ slot' = [slot EXCEPT ![t] = slot'[t]] /\ slot'[t] = "null"
          /\ ptd' = [ptd EXCEPT ![t] = ptd'[t]] /\ ptd'[t] = ptd[t]
          /\ context' = [context EXCEPT ![t] = context'[t]] /\ context'[t] = context[t]
      BY <1>0, <2>1 DEF IInv, TypeOK
    <2>4. Return(t, slot'[t] = "ptd")
      BY <2>1, <2>3 DEF Return
    <2> QED
      BY <1>0, <2>1, <2>2, <2>3, <2>4, ReturnInv
  <1>3. CASE ResetSlot(t)
    <2>1. nest[t] = 0 /\ slot[t] = "sentinel" /\ ptd[t] # "live"
      BY <1>0, <1>3 DEF IInv, ResetSlot, At, GetptdInv, SentinelGuards, PtdOwned
    <2>2. /\ slot' = [slot EXCEPT ![t] = slot'[t]] /\ slot'[t] = "null"
          /\ ptd' = [ptd EXCEPT ![t] = ptd'[t]] /\ ptd'[t] = ptd[t]
          /\ context' = [context EXCEPT ![t] = context'[t]] /\ context'[t] = context[t]
      BY <1>0, <1>3 DEF IInv, TypeOK, ResetSlot
    <2>3. /\ InGetptd(t) /\ Return(t, slot'[t] = "ptd")
          /\ UNCHANGED <<phase, object, making>>
      BY <1>3, <2>2 DEF ResetSlot, At, InGetptd, Return
    <2> QED
      BY <1>0, <2>1, <2>2, <2>3, ReturnInv
  <1>4. CASE SetPtd(t)
    <2>1. nest[t] = 0 /\ slot[t] = "sentinel" /\ ptd[t] = "live"
      BY <1>0, <1>4 DEF IInv, SetPtd, At, GetptdInv, SentinelGuards, PtdOwned
    <2>2. /\ slot' = [slot EXCEPT ![t] = slot'[t]] /\ slot'[t] = "ptd"
          /\ ptd' = [ptd EXCEPT ![t] = ptd'[t]] /\ ptd'[t] = ptd[t]
          /\ context' = [context EXCEPT ![t] = context'[t]] /\ context'[t] \in BOOLEAN /\ ~context'[t]
      BY <1>0, <1>4 DEF IInv, TypeOK, SetPtd
    <2>3. /\ InGetptd(t) /\ Return(t, slot'[t] = "ptd")
          /\ UNCHANGED <<phase, object, making>>
      BY <1>4, <2>2 DEF SetPtd, At, InGetptd, Return
    <2> QED
      BY <1>0, <2>1, <2>2, <2>3, ReturnInv
  <1>5. CASE SetPtdFails(t)
    <2>1. nest[t] = 0 /\ slot[t] = "sentinel"
      BY <1>0, <1>5 DEF IInv, SetPtdFails, At, GetptdInv, SentinelGuards
    <2>2. /\ slot' = [slot EXCEPT ![t] = slot'[t]] /\ slot'[t] = "null"
          /\ ptd' = [ptd EXCEPT ![t] = ptd'[t]] /\ ptd'[t] = "freed"
          /\ context' = [context EXCEPT ![t] = context'[t]] /\ context'[t] = context[t]
      BY <1>0, <1>5 DEF IInv, TypeOK, SetPtdFails
    <2>3. /\ InGetptd(t) /\ Return(t, slot'[t] = "ptd")
          /\ UNCHANGED <<phase, object, making>>
      BY <1>5, <2>2 DEF SetPtdFails, At, InGetptd, Return
    <2> QED
      BY <1>0, <2>1, <2>2, <2>3, ReturnInv
  <1>6. CASE SetSentinel(t) \/ AllocPtd(t) \/ AllocPtdFails(t)
    <2> USE DEF IInv, TypeOK, SentinelGuards, PtdOwned, ParameterOwned, CreatorOwns,
                ReleasedOnce, PhaseInv, Quiet, Loads, MakingInv, HasParameter, GetptdInv,
                KindInv, GoneInv, ContextInv, Starting, HandleInv, InGetptd,
                At, Goto, fls, frame, object
    <2>1. CASE SetSentinel(t)
      BY <2>1 DEF SetSentinel
    <2>2. CASE AllocPtd(t)
      BY <2>2 DEF AllocPtd
    <2>3. CASE AllocPtdFails(t)
      BY <2>3 DEF AllocPtdFails
    <2> QED
      BY <1>6, <2>1, <2>2, <2>3
  <1> QED
    BY <1>1, <1>2, <1>3, <1>4, <1>5, <1>6 DEF GetptdStep

(***************************************************************************)
(* destroy_fls on the slots of threads that are outside the slow path: the *)
(* PTDs are freed once, and so are the parameters they point to.           *)
(***************************************************************************)
LEMMA DestroyFlsFrees ==
  ASSUME IInv, NEW S \in SUBSET Threads, DestroyFls(S), UNCHANGED context,
         \A t \in S : pc[t] \notin {"getptd", "allocptd", "setptd", "resetslot"}
  PROVE  /\ slot' \in [Threads -> {"null", "sentinel", "ptd"}]
         /\ ptd' \in [Threads -> {"none", "live", "freed"}]
         /\ param' \in [Created -> {"none", "live", "freed"}]
         /\ \A t \in Threads : t \notin S => slot'[t] = slot[t] /\ ptd'[t] = ptd[t]
         /\ \A t \in S : slot'[t] = "null" /\ ptd'[t] # "live"
         /\ \A c \in Created : param'[c] = "live" <=>
               param[c] = "live" /\ ~(c \in S /\ slot[c] # "null" /\ context[c])
  <1> USE DEF IInv, TypeOK, DestroyFls, Freed
  <1>1. \A t \in S : slot[t] # "null" => ptd[t] = "live"
    BY DEF SentinelGuards, PtdOwned
  <1>2. \A c \in Created : c \in S /\ slot[c] # "null" /\ context[c] => param[c] = "live"
    BY DEF ParameterOwned, ContextInv, GoneInv
  <1>3. /\ \A t \in Threads : t \notin S => slot'[t] = slot[t] /\ ptd'[t] = ptd[t]
        /\ \A t \in S : slot'[t] = "null" /\ ptd'[t] # "live"
    BY DEF SentinelGuards, PtdOwned
  <1>4. /\ slot' \in [Threads -> {"null", "sentinel", "ptd"}]
        /\ ptd' \in [Threads -> {"none", "live", "freed"}]
    BY <1>1 DEF ReleasedOnce
  <1>5. param' \in [Created -> {"none", "live", "freed"}]
    BY <1>2 DEF ReleasedOnce
  <1>6. \A c \in Created : param'[c] = "live" <=>
               param[c] = "live" /\ ~(c \in S /\ slot[c] # "null" /\ context[c])
    BY <1>2
  <1> QED
    BY <1>3, <1>4, <1>5, <1>6

\* CreateThread succeeds: the thread that was made may run from here on.
LEMMA CreateThreadInv ==
  ASSUME IInv, NEW t \in Threads, NEW c \in Created, CreateThread(t, c)
  PROVE  IInv'
  <1>1. t # c /\ pc[t] = "create" /\ pc[c] = "unborn" /\ making[t] = c
    BY DEF IInv, MakingInv, HasParameter, CreateThread, At
  <1>0. phase = "live" /\ ret[t] = "errno" /\ ret[c] = "errno" /\ making[c] = None
    BY <1>1 DEF IInv, TypeOK, PhaseInv, Quiet, Loads, GetptdInv, InGetptd, MakingInv, HasParameter
  <1>2. PICK q \in {"sethandle", "detach"} :
          /\ q = "sethandle" <=> api[c] = "_beginthread"
          /\ pc' = [pc EXCEPT ![t] = q, ![c] = "start"]
    BY DEF CreateThread
  <1>3. /\ pc'[t] = q /\ pc'[c] = "start"
        /\ \A u \in Threads : u # t /\ u # c => pc'[u] = pc[u]
    BY <1>1, <1>2 DEF IInv, TypeOK
  <1>4. /\ handle' = [handle EXCEPT ![c] = "open"]
        /\ UNCHANGED <<phase, ret, nest, slot, ptd, context, param, stored, api, making>>
    BY DEF CreateThread, frame, fls
  <1>5. TypeOK'
    BY <1>2, <1>4 DEF IInv, TypeOK
  <1>6. SentinelGuards' /\ PtdOwned' /\ ReleasedOnce'
    BY <1>1, <1>3, <1>4 DEF IInv, TypeOK, SentinelGuards, PtdOwned, ReleasedOnce
  <1>7. PhaseInv'
    BY <1>0, <1>1, <1>3, <1>4 DEF IInv, PhaseInv, Loads
  <1>8. MakingInv'
    <2>1. \A u \in Threads : u # t /\ making[u] # None => making[u] # c
      BY <1>1 DEF IInv, MakingInv
    <2>2. \A u \in Threads : u # t /\ making[u] # None =>
            (pc'[making[u]] = "unborn" <=> pc[making[u]] = "unborn")
      BY <1>1, <1>3, <2>1 DEF IInv, TypeOK
    <2>3. ASSUME NEW u \in Threads
          PROVE  /\ making[u] # None <=> HasParameter(u)' \/ pc'[u] \in {"sethandle", "detach"}
                 /\ making[u] # None =>
                      /\ making[u] # u
                      /\ pc'[making[u]] = "unborn" <=> HasParameter(u)'
                 /\ pc'[u] = "sethandle" => api[making[u]] = "_beginthread"
      <3>1. CASE u = t
        BY <1>0, <1>1, <1>2, <1>3, <1>4, <3>1 DEF IInv, MakingInv, HasParameter
      <3>2. CASE u = c
        BY <1>0, <1>3, <1>4, <3>2 DEF HasParameter
      <3>3. CASE u # t /\ u # c
        BY <1>3, <1>4, <2>2, <3>3 DEF IInv, MakingInv, HasParameter
      <3> QED
        BY <3>1, <3>2, <3>3
    <2> QED
      BY <1>4, <2>3 DEF IInv, MakingInv
  <1>9. ParameterOwned'
    BY <1>1, <1>3, <1>4 DEF IInv, ParameterOwned, CreatorOwns, InGetptd, MakingInv
  <1>10. \A u \in Threads : GetptdInv(u)' /\ KindInv(u)' /\ GoneInv(u)'
    BY <1>1, <1>3, <1>4 DEF IInv, GetptdInv, InGetptd, KindInv, GoneInv
  <1>11. \A d \in Created : ContextInv(d)' /\ HandleInv(d)'
    BY <1>1, <1>3, <1>4 DEF IInv, TypeOK, ContextInv, HandleInv, Starting
  <1> QED
    BY <1>5, <1>6, <1>7, <1>8, <1>9, <1>10, <1>11 DEF IInv

\* Every step of a creator keeps the invariant.
LEMMA CreatorStepInv ==
  ASSUME IInv, NEW t \in Threads, CreatorStep(t)
  PROVE  IInv'
  <1> USE DEF IInv, TypeOK, SentinelGuards, PtdOwned, ParameterOwned, CreatorOwns,
              ReleasedOnce, PhaseInv, Quiet, Loads, MakingInv, HasParameter, GetptdInv,
              KindInv, GoneInv, ContextInv, Starting, HandleInv, InGetptd,
              At, Goto, CallGetptd, Freed, Closed, Apis, fls, frame, object
  <1>1. CASE UseErrno(t)
    BY <1>1 DEF UseErrno
  <1>2. CASE CreateThreadFails(t)
    BY <1>2 DEF CreateThreadFails
  <1>3. CASE Detach(t)
    BY <1>3 DEF Detach
  <1>4. CASE \E c \in Created, a \in Apis : Begin(t, c, a)
    BY <1>4 DEF Begin
  <1>5. CASE \E c \in Created : CreateThread(t, c)
    BY <1>5, CreateThreadInv
  <1>6. CASE \E c \in Created : DropParameter(t, c)
    BY <1>6 DEF DropParameter
  <1>7. CASE \E c \in Created : SetHandle(t, c)
    <2> SUFFICES ASSUME NEW c \in Created, SetHandle(t, c)
                 PROVE  IInv'
      BY <1>7
    <2> USE DEF SetHandle
    <2>1. TypeOK'
      OBVIOUS
    <2>2. SentinelGuards' /\ PtdOwned' /\ ReleasedOnce'
      BY <2>1
    <2>3. ParameterOwned'
      BY <2>1
    <2>4. PhaseInv'
      BY <2>1
    <2>5. MakingInv'
      BY <2>1
    <2>6. \A u \in Threads : GetptdInv(u)' /\ KindInv(u)' /\ GoneInv(u)'
      BY <2>1
    <2>7. \A d \in Created : ContextInv(d)' /\ HandleInv(d)'
      BY <2>1
    <2> QED
      BY <2>1, <2>2, <2>3, <2>4, <2>5, <2>6, <2>7
  <1> HIDE DEF IInv
  <1> QED
    BY <1>1, <1>2, <1>3, <1>4, <1>5, <1>6, <1>7, Zenon DEF CreatorStep

\* A thread ends and the system calls destroy_fls on its slot.
LEMMA ExitsInv ==
  ASSUME IInv, NEW t \in Threads, ExitThread(t) \/ ForeignExits(t)
  PROVE  IInv'
  <1>1. /\ pc' = [pc EXCEPT ![t] = "gone"] /\ DestroyFls({t})
        /\ pc[t] = "exit" \/ (t \in Foreign /\ pc[t] = "run")
        /\ UNCHANGED <<phase, ret, nest, context, stored, handle, api, making>>
    BY DEF ExitThread, ForeignExits, Goto, At, frame
  <1>2. /\ slot' \in [Threads -> {"null", "sentinel", "ptd"}]
        /\ ptd' \in [Threads -> {"none", "live", "freed"}]
        /\ param' \in [Created -> {"none", "live", "freed"}]
        /\ \A u \in Threads : u # t => slot'[u] = slot[u] /\ ptd'[u] = ptd[u]
        /\ slot'[t] = "null" /\ ptd'[t] # "live"
        /\ \A c \in Created : param'[c] = "live" <=>
               param[c] = "live" /\ ~(c = t /\ slot[c] # "null" /\ context[c])
    <2> DEFINE S == {t}
    <2>1. /\ S \in SUBSET Threads /\ DestroyFls(S) /\ UNCHANGED context
          /\ \A u \in S : pc[u] \notin {"getptd", "allocptd", "setptd", "resetslot"}
      BY <1>1
    <2>2. \A u \in Threads \cup Created : u \in S <=> u = t
      OBVIOUS
    <2> HIDE DEF S
    <2>3. /\ slot' \in [Threads -> {"null", "sentinel", "ptd"}]
          /\ ptd' \in [Threads -> {"none", "live", "freed"}]
          /\ param' \in [Created -> {"none", "live", "freed"}]
          /\ \A u \in Threads : u \notin S => slot'[u] = slot[u] /\ ptd'[u] = ptd[u]
          /\ \A u \in S : slot'[u] = "null" /\ ptd'[u] # "live"
          /\ \A c \in Created : param'[c] = "live" <=>
                param[c] = "live" /\ ~(c \in S /\ slot[c] # "null" /\ context[c])
      BY <2>1, DestroyFlsFrees, Zenon
    <2>4. \A u \in Threads : u # t => slot'[u] = slot[u] /\ ptd'[u] = ptd[u]
      BY <2>2, <2>3, Zenon
    <2>5. slot'[t] = "null" /\ ptd'[t] # "live"
      BY <2>2, <2>3, Zenon
    <2>6. \A c \in Created : param'[c] = "live" <=>
             param[c] = "live" /\ ~(c = t /\ slot[c] # "null" /\ context[c])
      BY <2>2, <2>3
    <2> QED
      BY <2>3, <2>4, <2>5, <2>6, Zenon
  <1>3. \A c \in Created : param'[c] = "live" <=> param[c] = "live" /\ c # t
    BY <1>1, <1>2 DEF IInv, ContextInv, Starting, GetptdInv, InGetptd
  <1>4. TypeOK'
    BY <1>1, <1>2 DEF IInv, TypeOK
  <1>5. SentinelGuards' /\ PtdOwned' /\ ReleasedOnce'
    BY <1>1, <1>2 DEF IInv, TypeOK, SentinelGuards, PtdOwned, ReleasedOnce, GetptdInv
  <1>6. PhaseInv'
    BY <1>1 DEF IInv, TypeOK, PhaseInv, Quiet, Loads
  <1>7. MakingInv'
    BY <1>1 DEF IInv, TypeOK, MakingInv, HasParameter
  <1>8. ParameterOwned'
    BY <1>1, <1>3 DEF IInv, TypeOK, ParameterOwned, CreatorOwns, InGetptd, MakingInv, HasParameter
  <1>9. \A u \in Threads : GetptdInv(u)' /\ KindInv(u)' /\ GoneInv(u)'
    BY <1>1, <1>2 DEF IInv, TypeOK, GetptdInv, InGetptd, KindInv, GoneInv
  <1>10. \A c \in Created : ContextInv(c)' /\ HandleInv(c)'
    BY <1>1, <1>2 DEF IInv, TypeOK, ContextInv, HandleInv, Starting
  <1> QED
    BY <1>4, <1>5, <1>6, <1>7, <1>8, <1>9, <1>10 DEF IInv

\* Every step of a created thread keeps it.
LEMMA ThreadStepInv ==
  ASSUME IInv, NEW t \in Threads, ThreadStep(t)
  PROVE  IInv'
  <1> USE DEF IInv, TypeOK, SentinelGuards, PtdOwned, ParameterOwned, CreatorOwns,
              ReleasedOnce, PhaseInv, Quiet, Loads, MakingInv, HasParameter, GetptdInv,
              KindInv, GoneInv, ContextInv, Starting, HandleInv, InGetptd,
              At, Goto, CallGetptd, Freed, Closed, Apis, fls, frame, object
  <1>1. CASE ThreadStart(t)
    BY <1>1 DEF ThreadStart
  <1>2. CASE SetContext(t)
    BY <1>2 DEF SetContext
  <1>3. CASE Procedure(t)
    BY <1>3 DEF Procedure
  <1>4. CASE EndThread(t)
    BY <1>4 DEF EndThread
  <1>5. CASE ReadContext(t)
    BY <1>5 DEF ReadContext
  <1>6. CASE CloseStored(t)
    <2> SUFFICES ASSUME CloseStored(t)
                 PROVE  IInv'
      BY <1>6
    <2> USE DEF CloseStored
    <2>1. TypeOK'
      OBVIOUS
    <2>2. SentinelGuards' /\ PtdOwned' /\ ReleasedOnce'
      BY <2>1
    <2>3. ParameterOwned'
      BY <2>1
    <2>4. PhaseInv'
      BY <2>1
    <2>5. MakingInv'
      BY <2>1
    <2>6. \A u \in Threads : GetptdInv(u)' /\ KindInv(u)' /\ GoneInv(u)'
      BY <2>1
    <2>7. \A d \in Created : ContextInv(d)' /\ HandleInv(d)'
      BY <2>1
    <2> QED
      BY <2>1, <2>2, <2>3, <2>4, <2>5, <2>6, <2>7
  <1> HIDE DEF IInv
  <1>7. CASE ExitThread(t) \/ ForeignExits(t)
    BY <1>7, ExitsInv
  <1> QED
    BY <1>1, <1>2, <1>3, <1>4, <1>5, <1>6, <1>7 DEF ThreadStep

\* Loading and unloading the driver keep the invariant.
LEMMA LoadInv ==
  ASSUME IInv, NEW t \in Threads, InitializePtd(t) \/ Initialized(t)
  PROVE  IInv'
  <1> USE DEF IInv, TypeOK, Goto, At, CallGetptd, frame, object
  <1>1. PICK q \in {"getptd", "run"}, r \in {"init", "errno"} :
          /\ q = "getptd" <=> r = "init"
          /\ pc[t] = (IF q = "getptd" THEN "run" ELSE "inited")
          /\ pc' = [pc EXCEPT ![t] = q]
          /\ ret' = [ret EXCEPT ![t] = r]
          /\ nest' = [nest EXCEPT ![t] = 0]
          /\ phase = (IF q = "getptd" THEN "initial" ELSE "loading")
          /\ phase' = (IF q = "getptd" THEN "loading" ELSE "live")
          /\ t \in Foreign /\ ret[t] = "errno"
          /\ UNCHANGED <<slot, ptd, context, param, stored, handle, api, making>>
    <2>1. CASE InitializePtd(t)
      BY <2>1 DEF InitializePtd, GetptdInv, InGetptd
    <2>2. CASE Initialized(t)
      BY <2>2 DEF Initialized, GetptdInv, InGetptd, KindInv, PhaseInv, Loads
    <2> QED
      BY <2>1, <2>2
  <1>2. TypeOK'
    BY <1>1
  <1>3. SentinelGuards' /\ PtdOwned' /\ ReleasedOnce'
    BY <1>1 DEF SentinelGuards, PtdOwned, ReleasedOnce
  <1>4. PhaseInv'
    BY <1>1 DEF PhaseInv, Quiet, Loads, GetptdInv, InGetptd
  <1>5. MakingInv'
    BY <1>1 DEF MakingInv, HasParameter
  <1>6. ParameterOwned'
    <2>1. making[t] = None
      BY <1>1 DEF MakingInv, HasParameter
    <2>2. \A c \in Created : CreatorOwns(c)' <=> CreatorOwns(c)
      BY <1>1, <2>1 DEF CreatorOwns, InGetptd
    <2> QED
      BY <1>1, <2>2 DEF ParameterOwned
  <1>7. \A u \in Threads : GetptdInv(u)' /\ KindInv(u)' /\ GoneInv(u)'
    BY <1>1 DEF GetptdInv, InGetptd, KindInv, GoneInv
  <1>8. \A c \in Created : ContextInv(c)' /\ HandleInv(c)'
    BY <1>1 DEF ContextInv, HandleInv, Starting
  <1> QED
    BY <1>2, <1>3, <1>4, <1>5, <1>6, <1>7, <1>8

(***************************************************************************)
(* __acrt_uninitialize_ptd, after a load that failed or when the driver is *)
(* unloaded: every thread is outside the driver, so that no parameter is   *)
(* left and every PTD there is is freed.                                   *)
(***************************************************************************)
LEMMA UnloadInv ==
  ASSUME IInv, UninitializePtd \/ \E t \in Threads : InitializeFails(t)
  PROVE  IInv'
  <1>1. /\ \A t \in Threads : Quiet(t) \/ (t \in Foreign /\ pc[t] = "uninit")
        /\ \A t \in Threads : Quiet(t)'
        /\ \A t \in Threads : pc'[t] = pc[t] \/ (pc[t] = "uninit" /\ pc'[t] = "run")
        /\ pc' \in [Threads -> {pc[t] : t \in Threads} \cup {"run"}]
        /\ phase' = "dead" /\ DestroyFls(Threads)
        /\ UNCHANGED <<ret, nest, context, stored, handle, api, making>>
    <2>1. CASE UninitializePtd
      BY <2>1 DEF IInv, TypeOK, UninitializePtd, Quiet, frame
    <2>2. ASSUME NEW t \in Threads, InitializeFails(t)
          PROVE  <1>1!:
      BY <2>2 DEF IInv, TypeOK, InitializeFails, Goto, At, Quiet, PhaseInv, Loads, KindInv, frame
    <2> QED
      BY <2>1, <2>2
  <1>2. \A t \in Threads : /\ ret[t] = "errno" /\ nest[t] = 0 /\ making[t] = None
                           /\ pc[t] \notin {"getptd", "allocptd", "setptd", "resetslot"}
    BY <1>1 DEF IInv, TypeOK, GetptdInv, InGetptd, MakingInv, HasParameter, Quiet
  <1>3. \A c \in Created : slot[c] = "null" /\ pc'[c] = pc[c] /\ pc[c] \in {"unborn", "gone"}
    BY <1>1 DEF IInv, ContextInv, GoneInv, Quiet
  <1>4. /\ slot' \in [Threads -> {"null", "sentinel", "ptd"}]
        /\ ptd' \in [Threads -> {"none", "live", "freed"}]
        /\ param' \in [Created -> {"none", "live", "freed"}]
        /\ \A t \in Threads : slot'[t] = "null" /\ ptd'[t] # "live"
        /\ \A c \in Created : param'[c] = "live" <=> param[c] = "live"
    BY <1>1, <1>2, <1>3, DestroyFlsFrees
  <1>5. TypeOK'
    BY <1>1, <1>4 DEF IInv, TypeOK
  <1>6. SentinelGuards' /\ PtdOwned' /\ ReleasedOnce'
    BY <1>1, <1>2, <1>4 DEF IInv, SentinelGuards, PtdOwned, ReleasedOnce
  <1>7. PhaseInv'
    BY <1>1, <1>2 DEF PhaseInv, Loads, Quiet
  <1>8. MakingInv'
    BY <1>1, <1>2 DEF MakingInv, HasParameter, Quiet
  <1>9. ParameterOwned'
    BY <1>1, <1>2, <1>3, <1>4 DEF IInv, ParameterOwned, CreatorOwns
  <1>10. \A t \in Threads : GetptdInv(t)' /\ KindInv(t)' /\ GoneInv(t)'
    BY <1>1, <1>2, <1>4 DEF IInv, GetptdInv, KindInv, GoneInv, Quiet
  <1>11. \A c \in Created : ContextInv(c)' /\ HandleInv(c)'
    BY <1>1, <1>2, <1>3, <1>4 DEF IInv, ContextInv, HandleInv, Starting
  <1> QED
    BY <1>5, <1>6, <1>7, <1>8, <1>9, <1>10, <1>11 DEF IInv

(***************************************************************************)
(* IInv holds in every reachable state: one lemma for each group of steps  *)
(* shows that it is preserved.                                             *)
(***************************************************************************)
THEOREM Inductive == Spec => []IInv
  <1>1. IInv /\ [Next]_vars => IInv'
    <2> SUFFICES ASSUME IInv, [Next]_vars
                 PROVE  IInv'
      OBVIOUS
    <2>1. ASSUME NEW c \in Created, CallerCloses(c)
          PROVE  IInv'
      <3>1. /\ handle[c] = "open"
            /\ handle' = [handle EXCEPT ![c] = "closed"]
            /\ UNCHANGED <<phase, pc, ret, nest, slot, ptd, context, param, stored, api, making>>
        BY <2>1 DEF CallerCloses, IInv, TypeOK, Closed, frame
      <3>2. TypeOK' /\ SentinelGuards' /\ PtdOwned' /\ ParameterOwned' /\ ReleasedOnce'
        BY <3>1 DEF IInv, TypeOK, SentinelGuards, PtdOwned, ParameterOwned, CreatorOwns,
                    ReleasedOnce, InGetptd
      <3>3. PhaseInv' /\ MakingInv'
        BY <3>1 DEF IInv, PhaseInv, Quiet, Loads, MakingInv, HasParameter
      <3>4. \A t \in Threads : GetptdInv(t)' /\ KindInv(t)' /\ GoneInv(t)'
        BY <3>1 DEF IInv, GetptdInv, InGetptd, KindInv, GoneInv
      <3>5. \A d \in Created : ContextInv(d)' /\ HandleInv(d)'
        BY <2>1, <3>1 DEF IInv, TypeOK, ContextInv, Starting, HandleInv, CallerCloses
      <3> QED
        BY <3>2, <3>3, <3>4, <3>5 DEF IInv
    <2>2. CASE FlsAllocFails
      BY <2>2 DEF FlsAllocFails, IInv, TypeOK, SentinelGuards, PtdOwned, ParameterOwned,
              CreatorOwns, ReleasedOnce, PhaseInv, Quiet, Loads, MakingInv, HasParameter,
              GetptdInv, KindInv, GoneInv, ContextInv, Starting, HandleInv, InGetptd,
              frame, object
    <2>3. CASE UNCHANGED vars
      BY <2>3 DEF vars, IInv, TypeOK, SentinelGuards, PtdOwned, ParameterOwned,
              CreatorOwns, ReleasedOnce, PhaseInv, Quiet, Loads, MakingInv, HasParameter,
              GetptdInv, KindInv, GoneInv, ContextInv, Starting, HandleInv, InGetptd
    <2> QED
      BY <2>1, <2>2, <2>3, GetptdStepInv, CreatorStepInv, ThreadStepInv, LoadInv, UnloadInv
         DEF Next
  <1> QED
    BY InitInv, <1>1, PTL DEF Spec

(***************************************************************************)
(* The variables keep their types.  In particular the recursion "allocate  *)
(* the PTD, fail, set errno, get the PTD" in __acrt_getptd_noexit is never *)
(* more than one call deep.                                                *)
(***************************************************************************)
THEOREM ThreadTypes == Spec => []TypeOK
  <1>1. IInv => TypeOK
    BY DEF IInv
  <1> QED
    BY <1>1, Inductive, PTL

(***************************************************************************)
(* For any threads and any failures, reentrancy_sentinel is in a slot only *)
(* while the slow path of internal_get_ptd_head is under way.              *)
(***************************************************************************)
THEOREM SentinelOnlyInside == Spec => []SentinelGuards
  <1>1. IInv => SentinelGuards
    BY DEF IInv
  <1> QED
    BY <1>1, Inductive, PTL

(***************************************************************************)
(* No failure, exit or unload leaks a PTD or leaves a slot that refers to  *)
(* a freed one.                                                            *)
(***************************************************************************)
THEOREM PtdNeverLeaks == Spec => []PtdOwned
  <1>1. IInv => PtdOwned
    BY DEF IInv
  <1> QED
    BY <1>1, Inductive, PTL

(***************************************************************************)
(* thread_start and common_end_thread never read a freed parameter, and    *)
(* each parameter is freed, although nothing keeps the new thread from     *)
(* running before its creator is done with it.                             *)
(***************************************************************************)
THEOREM ParameterNeverLeaks == Spec => []ParameterOwned
  <1>1. IInv => ParameterOwned
    BY DEF IInv
  <1> QED
    BY <1>1, Inductive, PTL

(***************************************************************************)
(* Whichever of the creator, its caller, the thread and the system comes   *)
(* first, nothing is freed or closed twice.                                *)
(***************************************************************************)
THEOREM NothingReleasedTwice == Spec => []ReleasedOnce
  <1>1. IInv => ReleasedOnce
    BY DEF IInv
  <1> QED
    BY <1>1, Inductive, PTL
=============================================================================
