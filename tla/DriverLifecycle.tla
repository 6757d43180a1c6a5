-------------------------- MODULE DriverLifecycle --------------------------
(***************************************************************************)
(* Loading and unloading a driver, or a kernel DLL, that is linked with    *)
(* the runtime: DriverEntry and DllInitialize down to                      *)
(* __scrt_common_main_seh (vcruntime/sys_common.inl), __scrt_common_exit   *)
(* and DllUnload, __scrt_initialize_crt and __scrt_uninitialize_crt        *)
(* (utility.cpp), __vcrt_initialize (initialization.cpp), the table        *)
(* __acrt_initializers (ucrt/internal/initialization.cpp) with the loops   *)
(* that run it (shared_initialization.cpp), and _cexit (startup/exit.cpp). *)
(*                                                                         *)
(* The runtime is a stack of components, each of which needs some of those *)
(* below it.  Most of them may fail to come up; the user's own             *)
(* initializers, constructors and DriverMain run on top and may fail too.  *)
(***************************************************************************)
EXTENDS Naturals, Sequences

CONSTANT MaxCallbacks   \* bound: how many callbacks are registered with atexit

ASSUME LifecycleAssumption == MaxCallbacks \in Nat

VARIABLES
    flavour,        \* "driver" (DriverEntry) or "dll" (DllInitialize)
    pc,             \* the step of __scrt_common_main_seh or of the unload
    at,             \* the entry of the table the step is at
    up,             \* the components that are initialized
    pending,        \* callbacks in __acrt_atexit_table
    registered,     \* history: callbacks ever registered
    DriverUnload,   \* driver_object->DriverUnload: "none", "user", "common"
    drv_unload,     \* __scrt_drv_unload
    status,         \* what the load returned: "none", "success", "failed"
    detached        \* history: calls of the user's DriverUnload or DllDetach

user == <<DriverUnload, drv_unload, status, detached>>
vars == <<flavour, pc, at, up, pending, registered, DriverUnload, drv_unload, status, detached>>

-----------------------------------------------------------------------------
(* The tables *)

Vcrt == <<"vcrt_locks", "vcrt_ptd">>

\* A row of __acrt_initializers; the functions that may return false fail.
Row(name, init, uninit, fails) ==
    [name |-> name, init |-> init, uninit |-> uninit, fails |-> fails]

Initializers_HeapLast == <<
    Row("pointers",     TRUE,  FALSE, FALSE),
    Row("isolation",    TRUE,  TRUE,  TRUE),
    Row("locks",        TRUE,  TRUE,  TRUE),
    Row("vcruntime",    FALSE, TRUE,  FALSE),
    Row("heap",         TRUE,  TRUE,  TRUE),
    Row("ptd",          TRUE,  TRUE,  TRUE),
    Row("lowio",        TRUE,  TRUE,  TRUE),
    Row("command_line", TRUE,  TRUE,  FALSE),
    Row("environment",  TRUE,  TRUE,  FALSE),
    Row("c",            TRUE,  TRUE,  FALSE) >>

\* __acrt_initializers as the preprocessor leaves it in the kernel build.
Initializers == <<
    Row("pointers",     TRUE,  FALSE, FALSE),
    Row("isolation",    TRUE,  TRUE,  TRUE),
    Row("locks",        TRUE,  TRUE,  TRUE),
    Row("heap",         TRUE,  TRUE,  TRUE),
    Row("vcruntime",    FALSE, TRUE,  FALSE),
    Row("ptd",          TRUE,  TRUE,  TRUE),
    Row("lowio",        TRUE,  TRUE,  TRUE),
    Row("command_line", TRUE,  TRUE,  FALSE),
    Row("environment",  TRUE,  TRUE,  FALSE),
    Row("c",            TRUE,  TRUE,  FALSE) >>

\* .CRT$XI, from pre_c_initializer in XIAA to the user's own.
CInitializers == <<"pre_c", "stdio", "timeset", "user_c">>

\* What the uninitializer of a row takes down.
Owned(name) == IF name = "vcruntime" THEN {"vcrt_locks", "vcrt_ptd"} ELSE {name}

(***************************************************************************)
(* The components whose code or memory the initializer and the             *)
(* uninitializer of a component use.                                       *)
(***************************************************************************)
Needs(name) ==
    CASE name \in {"vcrt_locks", "isolation", "locks", "heap"} -> {"core"}
      [] name = "ptd"         -> {"core", "pointers", "isolation", "heap"}
      [] name = "lowio"       -> {"core", "pointers", "locks", "heap"}
      [] name = "environment" -> {"heap", "ptd"}
      [] name = "stdio"       -> {"heap", "ptd", "locks", "lowio"}
      [] name = "user_c"      -> {"heap", "ptd", "locks", "lowio", "c", "stdio"}
      [] OTHER                -> {}

Init ==
    /\ flavour \in {"driver", "dll"}
    /\ pc = "core" /\ at = 1
    /\ up = {}
    /\ pending = 0 /\ registered = 0
    /\ DriverUnload = "none" /\ drv_unload = "none"
    /\ status = "none" /\ detached = 0

\* The step after the entry `at` of a table of n entries, or the next stage.
Advance(n, stage) ==
    IF at < n THEN pc' = pc /\ at' = at + 1
              ELSE pc' = stage /\ at' = 1

\* The step before it, when the table is walked backwards.
Retreat(stage, from) ==
    IF at > 1 THEN pc' = pc /\ at' = at - 1
              ELSE pc' = stage /\ at' = from

-----------------------------------------------------------------------------
(* Loading *)

\* MusaCoreStartup.
CoreStartup ==
    /\ pc = "core"
    /\ up' = {"core"}
    /\ pc' = "tls"
    /\ UNCHANGED <<flavour, at, pending, registered, user>>

CoreStartupFails ==
    /\ pc = "core"
    /\ status' = "failed"
    /\ pc' = "returned"
    /\ UNCHANGED <<flavour, at, up, pending, registered, DriverUnload, drv_unload, detached>>

\* TlsAlloc for _tls_index, which is never freed.
AllocTls ==
    /\ pc = "tls"
    /\ up' = up \cup {"tls"}
    /\ pc' = "vcrt"
    /\ UNCHANGED <<flavour, at, pending, registered, user>>

AllocTlsFails ==
    /\ pc = "tls"
    /\ pc' = "fastfail"
    /\ UNCHANGED <<flavour, at, up, pending, registered, user>>

\* __vcrt_initialize: __vcrt_initialize_locks, __vcrt_initialize_ptd.
VcrtInitialize ==
    /\ pc = "vcrt"
    /\ up' = up \cup {Vcrt[at]}
    /\ Advance(Len(Vcrt), "acrt")
    /\ UNCHANGED <<flavour, pending, registered, user>>

\* What came up before is taken down; __scrt_initialize_crt fails.
VcrtInitializeFails ==
    /\ pc = "vcrt"
    /\ up' = up \ {"vcrt_locks"}
    /\ pc' = "fastfail"
    /\ UNCHANGED <<flavour, at, pending, registered, user>>

AcrtInitialize_PastEnd ==
    /\ pc = "acrt"
    /\ up' = IF Initializers[at].init THEN up \cup {Initializers[at].name} ELSE up
    /\ Advance(Len(Initializers) + 1, "c_init")
    /\ UNCHANGED <<flavour, pending, registered, user>>

\* __acrt_execute_initializers.
AcrtInitialize ==
    /\ pc = "acrt"
    /\ up' = IF Initializers[at].init THEN up \cup {Initializers[at].name} ELSE up
    /\ Advance(Len(Initializers), "c_init")
    /\ UNCHANGED <<flavour, pending, registered, user>>

AcrtInitializeFails_OffByOne ==
    /\ pc = "acrt"
    /\ Initializers[at].fails
    /\ pc' = "rollback" /\ at' = at - 2
    /\ UNCHANGED <<flavour, up, pending, registered, user>>

\* An initializer returns false: roll back from the row before it.
AcrtInitializeFails ==
    /\ pc = "acrt"
    /\ Initializers[at].fails
    /\ pc' = "rollback" /\ at' = at - 1
    /\ UNCHANGED <<flavour, up, pending, registered, user>>

(***************************************************************************)
(* The rows before the one that failed are taken back; a row without an    *)
(* initializer is skipped.  Then __vcrt_uninitialize, and the load of the  *)
(* driver ends in __scrt_fastfail.                                         *)
(***************************************************************************)
Rollback ==
    /\ pc = "rollback" /\ at > 0
    /\ LET row == Initializers[at]
       IN  up' = IF row.init /\ row.uninit THEN up \ Owned(row.name) ELSE up
    /\ at' = at - 1
    /\ UNCHANGED <<flavour, pc, pending, registered, user>>

RollbackVcrt ==
    /\ pc = "rollback" /\ at = 0
    /\ up' = up \ Owned("vcruntime")
    /\ pc' = "fastfail"
    /\ UNCHANGED <<flavour, at, pending, registered, user>>

\* _initterm_e(__xi_a, __xi_z).
CInitialize ==
    /\ pc = "c_init"
    /\ up' = up \cup {CInitializers[at]}
    /\ Advance(Len(CInitializers), "cpp_init")
    /\ UNCHANGED <<flavour, pending, registered, user>>

(***************************************************************************)
(* __acrt_initialize_stdio or an initializer of the user fails: nothing    *)
(* but MusaCoreShutdown is undone, and the load fails.                     *)
(***************************************************************************)
CInitializeFails ==
    /\ pc = "c_init"
    /\ CInitializers[at] \in {"stdio", "user_c"}
    /\ up' = up \ {"core"}
    /\ status' = "failed"
    /\ pc' = "returned"
    /\ UNCHANGED <<flavour, at, pending, registered, DriverUnload, drv_unload, detached>>

(***************************************************************************)
(* A constructor, DriverMain, the running driver, its unload routine, or a *)
(* callback registers a callback with atexit.                              *)
(***************************************************************************)
Atexit ==
    /\ pc \in {"cpp_init", "main", "running", "atexit"}
    /\ registered < MaxCallbacks
    /\ pending' = pending + 1
    /\ registered' = registered + 1
    /\ UNCHANGED <<flavour, pc, at, up, user>>

\* _initterm(__xc_a, __xc_z) is done; the callbacks for thread locals.
CppInitialize ==
    /\ pc = "cpp_init"
    /\ pc' = "main"
    /\ UNCHANGED <<flavour, at, up, pending, registered, user>>

MainSucceeds_Overwrite ==
    /\ pc = "main"
    /\ status' = "success"
    /\ pc' = "running"
    /\ drv_unload' \in {"none", "user"}
    /\ DriverUnload' = drv_unload'
    /\ UNCHANGED <<flavour, at, up, pending, registered, detached>>

(***************************************************************************)
(* DriverMain succeeds, having set DriverUnload or not.  The runtime puts  *)
(* __scrt_common_exit in its place and keeps what was there.               *)
(***************************************************************************)
MainSucceeds ==
    /\ pc = "main"
    /\ status' = "success"
    /\ pc' = "running"
    /\ IF flavour = "driver"
         THEN DriverUnload' = "common" /\ drv_unload' \in {"none", "user"}
         ELSE UNCHANGED <<DriverUnload, drv_unload>>
    /\ UNCHANGED <<flavour, at, up, pending, registered, detached>>

MainFails_NoCexit ==
    /\ pc = "main"
    /\ status' = "failed"
    /\ DriverUnload' \in IF flavour = "driver" THEN {"none", "user"} ELSE {"none"}
    /\ pc' = "uninit" /\ at' = Len(Initializers)
    /\ UNCHANGED <<flavour, up, pending, registered, drv_unload, detached>>

\* DriverMain fails: _cexit, __scrt_uninitialize_crt, MusaCoreShutdown follow.
MainFails ==
    /\ pc = "main"
    /\ status' = "failed"
    /\ DriverUnload' \in IF flavour = "driver" THEN {"none", "user"} ELSE {"none"}
    /\ pc' = "atexit"
    /\ UNCHANGED <<flavour, at, up, pending, registered, drv_unload, detached>>

(***************************************************************************)
(* A constructor or DriverMain throws a C++ exception: _seh_filter_sys     *)
(* accepts it and the __except clause calls _exit.                         *)
(***************************************************************************)
Throws ==
    /\ pc \in {"cpp_init", "main"}
    /\ pc' = "except"
    /\ UNCHANGED <<flavour, at, up, pending, registered, user>>

Load ==
    \/ CoreStartup \/ CoreStartupFails \/ AllocTls \/ AllocTlsFails
    \/ VcrtInitialize \/ VcrtInitializeFails
    \/ AcrtInitialize \/ AcrtInitializeFails \/ Rollback \/ RollbackVcrt
    \/ CInitialize \/ CInitializeFails \/ CppInitialize
    \/ MainSucceeds \/ MainFails \/ Throws

-----------------------------------------------------------------------------
(* Unloading *)

(***************************************************************************)
(* __scrt_common_exit or DllUnload: the user's routine, then _cexit.  A    *)
(* DriverMainForDllDetach that fails leaves the DLL as it was.             *)
(***************************************************************************)
Unload ==
    /\ pc = "running"
    /\ flavour = "driver" => DriverUnload = "common"
    /\ detached' = IF flavour = "dll" \/ drv_unload = "user" THEN detached + 1 ELSE detached
    /\ pc' = "atexit"
    /\ UNCHANGED <<flavour, at, up, pending, registered, DriverUnload, drv_unload, status>>

\* _cexit: the thread-local destructors, then _execute_onexit_table.
RunCallback ==
    /\ pc = "atexit"
    /\ pending > 0
    /\ pending' = pending - 1
    /\ UNCHANGED <<flavour, pc, at, up, registered, user>>

\* The terminators in .CRT$XP, stdio's, and in .CRT$XT.
Terminate ==
    /\ pc = "atexit"
    /\ pending = 0
    /\ up' = up \ {"stdio"}
    /\ pc' = "uninit" /\ at' = Len(Initializers)
    /\ UNCHANGED <<flavour, pending, registered, user>>

\* __acrt_execute_uninitializers: every row that has an uninitializer.
AcrtUninitialize ==
    /\ pc = "uninit"
    /\ LET row == Initializers[at]
       IN  up' = IF row.uninit THEN up \ Owned(row.name) ELSE up
    /\ Retreat("vcrt_uninit", 1)
    /\ UNCHANGED <<flavour, pending, registered, user>>

\* __vcrt_uninitialize, for the second time, and MusaCoreShutdown.
VcrtUninitialize ==
    /\ pc = "vcrt_uninit"
    /\ up' = up \ Owned("vcruntime")
    /\ pc' = "shutdown"
    /\ UNCHANGED <<flavour, at, pending, registered, user>>

CoreShutdown ==
    /\ pc = "shutdown"
    /\ up' = up \ {"core"}
    /\ pc' = IF status = "failed" THEN "returned" ELSE "unloaded"
    /\ UNCHANGED <<flavour, at, pending, registered, user>>

Next ==
    \/ Load \/ Atexit \/ Unload \/ RunCallback \/ Terminate
    \/ AcrtUninitialize \/ VcrtUninitialize \/ CoreShutdown

Spec == Init /\ [][Next]_vars

-----------------------------------------------------------------------------
(* Properties *)

Components ==
    {"core", "tls", "vcrt_locks", "vcrt_ptd", "stdio", "pre_c", "timeset", "user_c"}
        \cup { Initializers[i].name : i \in 1..Len(Initializers) }

\* Types; `at` stays within the table that is walked.
TypeOK ==
    /\ flavour \in {"driver", "dll"}
    /\ pc \in {"core", "tls", "vcrt", "acrt", "rollback", "c_init", "cpp_init", "main",
               "running", "atexit", "uninit", "vcrt_uninit", "shutdown",
               "returned", "unloaded", "fastfail", "except"}
    /\ at \in 0..Len(Initializers)
    /\ up \subseteq Components
    /\ pending \in 0..registered /\ registered \in 0..MaxCallbacks
    /\ DriverUnload \in {"none", "user", "common"} /\ drv_unload \in {"none", "user"}
    /\ status \in {"none", "success", "failed"}
    /\ detached \in 0..1

(***************************************************************************)
(* The components the next step uses.  An uninitializer of something that  *)
(* is already down uses nothing: __vcrt_uninitialize runs twice.  The PTDs *)
(* that the vcruntime frees come from the UCRT's heap.                     *)
(***************************************************************************)
Using ==
    CASE pc = "vcrt"                      -> {"core"}
      [] pc = "acrt"                      -> Needs(Initializers[at].name)
      [] pc = "c_init"                    -> Needs(CInitializers[at])
      [] pc \in {"cpp_init", "main", "running", "atexit"} -> Needs("user_c") \cup {"core", "vcrt_ptd"}
      [] pc = "rollback" /\ at > 0 /\ Initializers[at].name \in up -> Needs(Initializers[at].name)
      [] pc = "uninit" /\ Initializers[at].name \in up -> Needs(Initializers[at].name)
      [] pc = "uninit" /\ Initializers[at].name = "vcruntime" /\ "vcrt_ptd" \in up -> {"core", "heap"}
      [] pc = "vcrt_uninit" /\ "vcrt_ptd" \in up -> {"core", "heap"}
      [] OTHER                            -> {}

(***************************************************************************)
(* No step uses a component before it is initialized or after it is        *)
(* uninitialized: not while loading, not while rolling back, not while the *)
(* table of uninitializers is run from its end, and not in the callbacks   *)
(* and destructors, which find the whole runtime alive.                    *)
(***************************************************************************)
UsesLive == Using \subseteq up

(***************************************************************************)
(* A driver that was unloaded, or whose DriverMain failed, leaves no       *)
(* component of the runtime alive and no callback that was not run; only   *)
(* the TLS index, for which there is no uninitializer, was not given back. *)
(***************************************************************************)
NothingLeft ==
    pc \in {"shutdown", "unloaded"} =>
        /\ up \subseteq {"core", "tls", "pointers", "pre_c", "timeset", "user_c"}
        /\ pending = 0

(***************************************************************************)
(* When the machine is stopped by __scrt_fastfail because __acrt_initialize*)
(* failed, the components that had come up have been taken down: the       *)
(* rollback misses none.                                                   *)
(***************************************************************************)
RollbackComplete ==
    pc = "fastfail" => up \subseteq {"core", "tls", "pointers"}

(***************************************************************************)
(* The user's unload routine runs exactly once and before the callbacks    *)
(* and static destructors, the system always comes back through            *)
(* __scrt_common_exit, and a driver whose load failed is never entered     *)
(* again.                                                                  *)
(***************************************************************************)
UnloadHooked ==
    /\ status = "success" /\ pc = "running" =>
         /\ detached = 0
         /\ flavour = "driver" => DriverUnload = "common"
    /\ status = "success" /\ pc # "running" =>
         detached = IF flavour = "dll" \/ drv_unload = "user" THEN 1 ELSE 0
    /\ status = "failed" => DriverUnload # "common" /\ detached = 0
=============================================================================
