---------------------------- MODULE ThreadStart ----------------------------
(***************************************************************************)
(* Threads of the CRT: _beginthread, _beginthreadex, thread_start and      *)
(* common_end_thread (startup/thread.cpp) over the per-thread data of      *)
(* internal/per_thread_data.cpp (__acrt_initialize_ptd,                    *)
(* __acrt_getptd_noexit, destroy_fls, __acrt_uninitialize_ptd).            *)
(*                                                                         *)
(* A thread owns three things that somebody has to give back exactly once: *)
(* its handle, the __acrt_thread_parameter its creator allocates, and the  *)
(* PTD its first call into the CRT allocates.  The creator and the created *)
(* thread run concurrently, any allocation may fail, and the PTD is needed *)
(* even to report that its own allocation failed.                          *)
(***************************************************************************)
EXTENDS Naturals

CONSTANTS
    Foreign,    \* threads of the system that call into the driver
    Created,    \* threads made by _beginthread and _beginthreadex
    None        \* no thread

Threads == Foreign \cup Created

ASSUME ThreadStartAssumption ==
    /\ Foreign \cap Created = {}
    /\ None \notin Threads

Apis == {"_beginthread", "_beginthreadex"}

VARIABLES
    phase,      \* "initial", "loading", "live", "dead": the life of __acrt_flsindex
    pc,         \* where each thread is
    ret,        \* why a thread is in __acrt_getptd_noexit
    nest,       \* slow paths of __acrt_getptd_noexit a thread has suspended
    slot,       \* the thread's FLS slot: "null", "sentinel" or "ptd"
    ptd,        \* the block of the thread's PTD: "none", "live", "freed"
    context,    \* ptd->_beginthread_context is the thread's parameter
    param,      \* the __acrt_thread_parameter: "none", "live", "freed", "twice"
    stored,     \* parameter->_thread_handle is set
    handle,     \* the thread handle: "none", "open", "closed", "twice"
    api,        \* the function that created the thread
    making      \* the thread a creator is creating

fls    == <<phase, slot, ptd>>
frame  == <<ret, nest>>
object == <<param, stored, handle, api>>
vars   == <<phase, pc, ret, nest, slot, ptd, context, param, stored, handle, api, making>>

Init ==
    /\ phase = "initial"
    /\ pc = [t \in Threads |-> IF t \in Foreign THEN "run" ELSE "unborn"]
    /\ ret = [t \in Threads |-> "errno"]
    /\ nest = [t \in Threads |-> 0]
    /\ slot = [t \in Threads |-> "null"]
    /\ ptd = [t \in Threads |-> "none"]
    /\ context = [t \in Threads |-> FALSE]
    /\ param = [t \in Created |-> "none"]
    /\ stored = [t \in Created |-> FALSE]
    /\ handle = [t \in Created |-> "none"]
    /\ api = [t \in Created |-> "_beginthreadex"]
    /\ making = [t \in Threads |-> None]

\* The thread t is here, and no thread has called abort(), which stops the machine.
At(t, here) ==
    /\ pc[t] = here
    /\ \A u \in Threads : pc[u] # "aborted"

Goto(t, from, to) ==
    /\ At(t, from)
    /\ pc' = [pc EXCEPT ![t] = to]

\* _free_crt, and CloseHandle: what a second release would be is recorded.
Freed(p)  == IF p = "live" THEN "freed" ELSE "twice"
Closed(h) == IF h = "open" THEN "closed" ELSE "twice"

-----------------------------------------------------------------------------
(* __acrt_getptd_noexit *)

\* Enter __acrt_getptd_noexit from the place `from`, for the purpose why.
CallGetptd(t, from, why) ==
    /\ Goto(t, from, "getptd")
    /\ ret' = [ret EXCEPT ![t] = why]
    /\ nest' = [nest EXCEPT ![t] = 0]

(***************************************************************************)
(* Where __acrt_getptd_noexit returns to.  A nested call was made by       *)
(* _errno, which falls back on errno_no_memory, and returns to the slow    *)
(* path whose allocation failed.  Otherwise: thread_start aborts without a *)
(* PTD (__acrt_getptd), common_end_thread exits the thread, _errno falls   *)
(* back, and __acrt_initialize_ptd gives up.                               *)
(***************************************************************************)
Return(t, ok) ==
    IF nest[t] > 0
      THEN /\ pc' = [pc EXCEPT ![t] = "resetslot"]
           /\ nest' = [nest EXCEPT ![t] = @ - 1]
           /\ ret' = ret
      ELSE /\ pc' = [pc EXCEPT ![t] =
                       CASE ret[t] = "start"  -> IF ok THEN "setcontext" ELSE "aborted"
                         [] ret[t] = "end"    -> IF ok THEN "readcontext" ELSE "exit"
                         [] ret[t] = "init"   -> IF ok THEN "inited" ELSE "uninit"
                         [] ret[t] = "create" -> "dropparam"
                         [] ret[t] = "errno"  -> "run"]
           /\ nest' = nest
           /\ ret' = [ret EXCEPT ![t] = "errno"]

FindPtd_IgnoreSentinel(t) ==
    /\ At(t, "getptd")
    /\ slot[t] # "null"
    /\ IF slot[t] = "ptd" THEN Return(t, TRUE)
                          ELSE pc' = [pc EXCEPT ![t] = "allocptd"] /\ UNCHANGED frame
    /\ UNCHANGED <<fls, context, object, making>>

(***************************************************************************)
(* internal_get_ptd_head.  Without an FLS index, or with an empty slot, it *)
(* takes the slow path, whose first step puts reentrancy_sentinel into the *)
(* slot; FlsSetValue fails without an index and may fail with one.         *)
(***************************************************************************)
FindPtd(t) ==
    /\ At(t, "getptd")
    /\ slot[t] # "null"
    /\ Return(t, slot[t] = "ptd")
    /\ UNCHANGED <<fls, context, object, making>>

SetSentinel(t) ==
    /\ At(t, "getptd")
    /\ slot[t] = "null"
    /\ slot' = [slot EXCEPT ![t] = "sentinel"]
    /\ pc' = [pc EXCEPT ![t] = "allocptd"]
    /\ UNCHANGED <<ret, nest, phase, ptd, context, object, making>>

SetSentinelFails(t) ==
    /\ At(t, "getptd")
    /\ slot[t] = "null"
    /\ Return(t, FALSE)
    /\ UNCHANGED <<fls, context, object, making>>

\* _calloc_crt_t of the PTD array.
AllocPtd(t) ==
    /\ Goto(t, "allocptd", "setptd")
    /\ ptd' = [ptd EXCEPT ![t] = "live"]
    /\ UNCHANGED <<frame, phase, slot, context, object, making>>

(***************************************************************************)
(* It fails: _calloc_base assigns ENOMEM to errno, and so calls            *)
(* __acrt_getptd_noexit while the slow path waits.                         *)
(***************************************************************************)
AllocPtdFails(t) ==
    /\ Goto(t, "allocptd", "getptd")
    /\ nest' = [nest EXCEPT ![t] = @ + 1]
    /\ UNCHANGED <<ret, fls, context, object, making>>

ResetSlot_Dropped(t) ==
    /\ At(t, "resetslot")
    /\ Return(t, FALSE)
    /\ UNCHANGED <<fls, context, object, making>>

\* The slow path after a failed allocation: clear the slot, return nullptr.
ResetSlot(t) ==
    /\ At(t, "resetslot")
    /\ slot' = [slot EXCEPT ![t] = "null"]
    /\ Return(t, FALSE)
    /\ UNCHANGED <<phase, ptd, context, object, making>>

\* The second FlsSetValue, construct_ptd_array and new_ptd_head.detach().
SetPtd(t) ==
    /\ At(t, "setptd")
    /\ slot' = [slot EXCEPT ![t] = "ptd"]
    /\ context' = [context EXCEPT ![t] = FALSE]
    /\ Return(t, TRUE)
    /\ UNCHANGED <<phase, ptd, object, making>>

SetPtdFails_Leak(t) ==
    /\ At(t, "setptd")
    /\ slot' = [slot EXCEPT ![t] = "null"]
    /\ Return(t, FALSE)
    /\ UNCHANGED <<phase, ptd, context, object, making>>

\* It fails: the slot is cleared and new_ptd_head frees the block.
SetPtdFails(t) ==
    /\ At(t, "setptd")
    /\ slot' = [slot EXCEPT ![t] = "null"]
    /\ ptd' = [ptd EXCEPT ![t] = "freed"]
    /\ Return(t, FALSE)
    /\ UNCHANGED <<phase, context, object, making>>

GetptdStep(t) ==
    \/ FindPtd(t) \/ SetSentinel(t) \/ SetSentinelFails(t)
    \/ AllocPtd(t) \/ AllocPtdFails(t) \/ ResetSlot(t)
    \/ SetPtd(t) \/ SetPtdFails(t)

-----------------------------------------------------------------------------
(* The FLS index *)

(***************************************************************************)
(* destroy_fls on the slots of the threads S: destroy_ptd frees what       *)
(* _beginthread_context points to (nullptr is nothing to free), then the   *)
(* block itself is freed.                                                  *)
(***************************************************************************)
DestroyFls(S) ==
    /\ ptd' = [t \in Threads |-> IF t \in S /\ slot[t] # "null" THEN Freed(ptd[t]) ELSE ptd[t]]
    /\ slot' = [t \in Threads |-> IF t \in S THEN "null" ELSE slot[t]]
    /\ param' = [t \in Created |-> IF t \in S /\ slot[t] # "null" /\ context[t]
                                     THEN Freed(param[t]) ELSE param[t]]

\* __acrt_initialize_ptd: FlsAlloc, then a PTD for the thread that loads.
InitializePtd(t) ==
    /\ t \in Foreign
    /\ phase = "initial"
    /\ phase' = "loading"
    /\ CallGetptd(t, "run", "init")
    /\ UNCHANGED <<slot, ptd, context, object, making>>

\* FlsAlloc fails: there is no index and the driver does not load.
FlsAllocFails ==
    /\ phase = "initial"
    /\ phase' = "dead"
    /\ UNCHANGED <<pc, frame, slot, ptd, context, object, making>>

\* The PTD was got: initialization succeeds and the driver runs.
Initialized(t) ==
    /\ Goto(t, "inited", "run")
    /\ phase' = "live"
    /\ UNCHANGED <<frame, slot, ptd, context, object, making>>

\* It was not: __acrt_uninitialize_ptd, and the driver does not load.
InitializeFails(t) ==
    /\ Goto(t, "uninit", "run")
    /\ phase' = "dead"
    /\ DestroyFls(Threads)
    /\ UNCHANGED <<frame, context, stored, handle, api, making>>

(***************************************************************************)
(* __acrt_uninitialize_ptd when the driver is unloaded.  FlsFree calls     *)
(* destroy_fls on the slot of every thread of the system.  A driver is     *)
(* unloaded when no thread is inside it: its own threads are gone and the  *)
(* others are in none of its functions.                                    *)
(***************************************************************************)
UninitializePtd ==
    /\ phase = "live"
    /\ \A t \in Foreign : pc[t] \in {"run", "gone"}
    /\ \A t \in Created : pc[t] \in {"unborn", "gone"}
    /\ phase' = "dead"
    /\ DestroyFls(Threads)
    /\ UNCHANGED <<pc, frame, context, stored, handle, api, making>>

-----------------------------------------------------------------------------
(* The creator *)

\* A CRT function sets errno; _beginthread does when create_thread_parameter fails.
UseErrno(t) ==
    /\ phase = "live"
    /\ CallGetptd(t, "run", "errno")
    /\ UNCHANGED <<fls, context, object, making>>

\* _beginthread or _beginthreadex: create_thread_parameter succeeds.
Begin(t, c, a) ==
    /\ phase = "live"
    /\ pc[c] = "unborn"
    /\ param[c] # "live"
    /\ Goto(t, "run", "create")
    /\ making' = [making EXCEPT ![t] = c]
    /\ api' = [api EXCEPT ![c] = a]
    /\ param' = [param EXCEPT ![c] = "live"]
    /\ stored' = [stored EXCEPT ![c] = FALSE]
    /\ UNCHANGED <<frame, fls, context, handle>>

CreateThread_StoreFirst(t, c) ==
    /\ At(t, "create") /\ making[t] = c
    /\ handle' = [handle EXCEPT ![c] = "open"]
    /\ stored' = [stored EXCEPT ![c] = TRUE]
    /\ pc' = [pc EXCEPT ![t] = "detach", ![c] = "start"]
    /\ UNCHANGED <<frame, fls, context, param, api, making>>

(***************************************************************************)
(* CreateThread.  Neither caller passes CREATE_SUSPENDED in the kernel     *)
(* runtime, so the thread may run from here on.                            *)
(***************************************************************************)
CreateThread(t, c) ==
    /\ At(t, "create") /\ making[t] = c
    /\ handle' = [handle EXCEPT ![c] = "open"]
    /\ pc' = [pc EXCEPT ![t] = IF api[c] = "_beginthread" THEN "sethandle" ELSE "detach",
                        ![c] = "start"]
    /\ UNCHANGED <<frame, fls, context, param, stored, api, making>>

\* It fails: __acrt_errno_map_os_error, and then the parameter is dropped.
CreateThreadFails(t) ==
    /\ CallGetptd(t, "create", "create")
    /\ UNCHANGED <<fls, context, object, making>>

DropParameter_Detached(t, c) ==
    /\ Goto(t, "dropparam", "run")
    /\ making[t] = c
    /\ making' = [making EXCEPT ![t] = None]
    /\ UNCHANGED <<frame, fls, context, object>>

\* thread_parameter_free_policy.
DropParameter(t, c) ==
    /\ Goto(t, "dropparam", "run")
    /\ making[t] = c
    /\ making' = [making EXCEPT ![t] = None]
    /\ param' = [param EXCEPT ![c] = Freed(@)]
    /\ handle' = [handle EXCEPT ![c] = IF stored[c] THEN Closed(@) ELSE @]
    /\ UNCHANGED <<frame, fls, context, stored, api>>

(***************************************************************************)
(* _beginthread: parameter.get()->_thread_handle = thread_handle.  The     *)
(* store is lost if the thread has freed the parameter.                    *)
(***************************************************************************)
SetHandle(t, c) ==
    /\ Goto(t, "sethandle", "detach")
    /\ making[t] = c
    /\ stored' = [stored EXCEPT ![c] = param[c] = "live"]
    /\ UNCHANGED <<frame, fls, context, param, handle, api, making>>

\* parameter.detach(): the new thread owns its parameter.
Detach(t) ==
    /\ Goto(t, "detach", "run")
    /\ making' = [making EXCEPT ![t] = None]
    /\ UNCHANGED <<frame, fls, context, object>>

\* The caller of _beginthreadex closes the handle it was given, once.
CallerCloses(c) ==
    /\ api[c] = "_beginthreadex"
    /\ handle[c] = "open"
    /\ \A t \in Threads : making[t] # c /\ pc[t] # "aborted"
    /\ handle' = [handle EXCEPT ![c] = Closed(@)]
    /\ UNCHANGED <<phase, pc, frame, slot, ptd, context, param, stored, api, making>>

CreatorStep(t) ==
    \/ UseErrno(t) \/ CreateThreadFails(t) \/ Detach(t)
    \/ \E c \in Created :
          \/ \E a \in Apis : Begin(t, c, a)
          \/ CreateThread(t, c) \/ DropParameter(t, c) \/ SetHandle(t, c)

-----------------------------------------------------------------------------
(* The created thread *)

\* thread_start: __acrt_getptd.
ThreadStart(t) ==
    /\ CallGetptd(t, "start", "start")
    /\ UNCHANGED <<fls, context, object, making>>

\* _beginthread_context = context.
SetContext(t) ==
    /\ Goto(t, "setcontext", "procedure")
    /\ context' = [context EXCEPT ![t] = TRUE]
    /\ UNCHANGED <<frame, fls, object, making>>

\* Reads _procedure and _context of the parameter and calls the procedure.
Procedure(t) ==
    /\ Goto(t, "procedure", "run")
    /\ UNCHANGED <<frame, fls, context, object, making>>

\* The procedure returns, or it calls _endthread or _endthreadex.
EndThread(t) ==
    /\ phase = "live"
    /\ CallGetptd(t, "run", "end")
    /\ UNCHANGED <<fls, context, object, making>>

(***************************************************************************)
(* common_end_thread: a thread with a parameter closes the handle stored   *)
(* in it, if any; then ExitThread.                                         *)
(***************************************************************************)
ReadContext(t) ==
    /\ Goto(t, "readcontext", IF context[t] THEN "closehandle" ELSE "exit")
    /\ UNCHANGED <<frame, fls, context, object, making>>

CloseStored(t) ==
    /\ t \in Created
    /\ Goto(t, "closehandle", "exit")
    /\ handle' = [handle EXCEPT ![t] = IF stored[t] THEN Closed(@) ELSE @]
    /\ UNCHANGED <<frame, fls, context, param, stored, api, making>>

\* ExitThread: the system calls destroy_fls on the thread's slot.
ExitThread(t) ==
    /\ Goto(t, "exit", "gone")
    /\ DestroyFls({t})
    /\ UNCHANGED <<phase, frame, context, stored, handle, api, making>>

\* A thread of the system ends elsewhere; FlsFree may have come before.
ForeignExits(t) ==
    /\ t \in Foreign
    /\ Goto(t, "run", "gone")
    /\ DestroyFls({t})
    /\ UNCHANGED <<phase, frame, context, stored, handle, api, making>>

ThreadStep(t) ==
    \/ ThreadStart(t) \/ SetContext(t) \/ Procedure(t) \/ EndThread(t)
    \/ ReadContext(t) \/ CloseStored(t) \/ ExitThread(t) \/ ForeignExits(t)

Next ==
    \/ \E t \in Threads : \/ GetptdStep(t) \/ CreatorStep(t) \/ ThreadStep(t)
                          \/ InitializePtd(t) \/ Initialized(t) \/ InitializeFails(t)
    \/ \E c \in Created : CallerCloses(c)
    \/ FlsAllocFails
    \/ UninitializePtd

Spec == Init /\ [][Next]_vars

-----------------------------------------------------------------------------
(* Properties *)

InGetptd(t) == pc[t] \in {"getptd", "allocptd", "resetslot", "setptd"}

(***************************************************************************)
(* Each variable holds one of the values the code gives it.  In particular *)
(* a thread never suspends more than one slow path: the recursion          *)
(* "allocate the PTD, fail, set errno, get the PTD" ends.                  *)
(***************************************************************************)
TypeOK ==
    /\ phase \in {"initial", "loading", "live", "dead"}
    /\ pc \in [Threads -> {"unborn", "run", "getptd", "allocptd", "resetslot", "setptd",
                           "inited", "uninit", "create", "sethandle", "detach",
                           "dropparam", "start", "setcontext", "procedure",
                           "readcontext", "closehandle", "exit", "gone", "aborted"}]
    /\ ret \in [Threads -> {"start", "end", "init", "create", "errno"}]
    /\ nest \in [Threads -> 0..1]
    /\ slot \in [Threads -> {"null", "sentinel", "ptd"}]
    /\ ptd \in [Threads -> {"none", "live", "freed", "twice"}]
    /\ context \in [Threads -> BOOLEAN]
    /\ param \in [Created -> {"none", "live", "freed", "twice"}]
    /\ stored \in [Created -> BOOLEAN]
    /\ handle \in [Created -> {"none", "open", "closed", "twice"}]
    /\ api \in [Created -> Apis]
    /\ making \in [Threads -> Created \cup {None}]

(***************************************************************************)
(* reentrancy_sentinel is in a thread's slot exactly while the slow path   *)
(* of internal_get_ptd_head is under way, whatever fails in it: nobody     *)
(* outside takes it for a pointer or is denied a PTD for good.             *)
(***************************************************************************)
SentinelGuards ==
    \A t \in Threads :
        slot[t] = "sentinel" <=> \/ pc[t] \in {"allocptd", "setptd", "resetslot"}
                                 \/ pc[t] = "getptd" /\ nest[t] = 1

(***************************************************************************)
(* A PTD block is allocated as long as the thread's slot, or the slow path *)
(* that is about to store it there, refers to it, and no longer: no        *)
(* failure, exit or unload leaks one or leaves a slot dangling.            *)
(***************************************************************************)
PtdOwned ==
    \A t \in Threads : ptd[t] = "live" <=> slot[t] = "ptd" \/ pc[t] = "setptd"

\* The creator still owns the parameter of c: CreateThread has not succeeded.
CreatorOwns(c) ==
    \E t \in Threads :
        /\ making[t] = c
        /\ pc[t] \in {"create", "dropparam"} \/ InGetptd(t)

(***************************************************************************)
(* The __acrt_thread_parameter is allocated exactly while its creator owns *)
(* it or the thread it was made for is alive: thread_start and             *)
(* common_end_thread never read a freed parameter, and neither a failed    *)
(* CreateThread nor the end of the thread leaks it.                        *)
(***************************************************************************)
ParameterOwned ==
    \A c \in Created :
        param[c] = "live" <=> CreatorOwns(c) \/ pc[c] \notin {"unborn", "gone"}

(***************************************************************************)
(* No PTD or parameter is freed twice and no thread handle is closed twice,*)
(* whichever of the creator, its caller, the thread and the system gets to *)
(* it first.                                                               *)
(***************************************************************************)
ReleasedOnce ==
    /\ \A t \in Threads : ptd[t] # "twice"
    /\ \A c \in Created : param[c] # "twice" /\ handle[c] # "twice"

(***************************************************************************)
(* "The newly created thread is responsible for closing this handle"       *)
(* (thread.cpp): when a thread made by _beginthread is gone, its handle is *)
(* closed.                                                                 *)
(***************************************************************************)
HandleClosedByThread ==
    \A c \in Created :
        api[c] = "_beginthread" /\ pc[c] = "gone" => handle[c] = "closed"
=============================================================================
