------------------------------- MODULE Lowio -------------------------------
(***************************************************************************)
(* The table of CRT file handles: _alloc_osfhnd, _free_osfhnd,             *)
(* __acrt_lowio_set_os_handle, __acrt_lowio_ensure_fh_exists and           *)
(* _open_osfhandle (lowio/osfinfo.cpp), and the functions that use it:     *)
(* _open (open.cpp), _close (close.cpp), _dup (dup.cpp), _dup2 (dup2.cpp)  *)
(* and those that lock a handle and use it, _write, _read, _lseek and so   *)
(* on.                                                                     *)
(*                                                                         *)
(* A file handle fh is an index into arrays that are created on demand.    *)
(* Each entry has a lock, a flag FOPEN and the handle of the kernel.  The  *)
(* index lock protects the allocation of entries, but _dup2 opens an entry *)
(* without it, and several checks read FOPEN before they take a lock.      *)
(*                                                                         *)
(* The calls of a thread are cut where it takes a lock, where it reads or  *)
(* writes what others access without the lock, and where a kernel handle   *)
(* is opened or closed.                                                    *)
(***************************************************************************)
EXTENDS Naturals, FiniteSets

CONSTANTS
    Threads,
    NoThread,       \* a lock that nobody holds
    Elts,           \* IOINFO_ARRAY_ELTS (64)
    Arrays,         \* IOINFO_ARRAYS (128)
    Handles,        \* the handles the kernel gives out, again when closed
    Invalid,        \* INVALID_HANDLE_VALUE
    NoConsole,      \* _NO_CONSOLE_FILENO
    Ops,            \* the calls the driver makes,
    Files,          \*   and the file handles it passes to them
    MaxCalls        \* bound: how many calls are made

\* The handles below _NHANDLE_.
FH == 0 .. (Elts * Arrays - 1)

ASSUME LowioAssumption ==
    /\ NoThread \notin Threads
    /\ Elts \in Nat /\ Elts >= 3 /\ Arrays \in Nat \ {0}
    /\ Invalid \notin Handles /\ NoConsole \notin Handles /\ Invalid # NoConsole
    /\ Ops \subseteq {"open", "reopen", "osfhandle", "close", "use", "dup", "dup2"}
    /\ Files \subseteq FH
    /\ MaxCalls \in Nat

VARIABLES
    nhandle,    \* _nhandle
    osfile,     \* of a handle: the flag FOPEN in _osfile
    osfhnd,     \* of a handle: _osfhnd
    lock,       \* of a handle: the thread that holds its lock
    index,      \* the thread that holds __acrt_lowio_index_lock
    live,       \* the handles that are open in the kernel
    pc,         \* of a thread: the step of its call
    op,         \* of a thread: its call
    fh,         \* of a thread: the handle that is duplicated
    to,         \* of a thread: the handle that is opened, closed or used
    at,         \* of a thread: the entry _alloc_osfhnd is at
    os,         \* of a thread: its local os_handle
    calls       \* bound: the calls made

slots == <<nhandle, osfile, osfhnd>>
args  == <<op, fh, to>>
vars  == <<nhandle, osfile, osfhnd, lock, index, live, pc, op, fh, to, at, os, calls>>

(***************************************************************************)
(* __acrt_initialize_lowio: the first array; in the kernel nothing is      *)
(* inherited and stdin, stdout and stderr have no handle.                  *)
(***************************************************************************)
Init ==
    /\ nhandle = Elts
    /\ osfile = [f \in FH |-> f < 3]
    /\ osfhnd = [f \in FH |-> IF f < 3 THEN NoConsole ELSE Invalid]
    /\ lock = [f \in FH |-> NoThread]
    /\ index = NoThread
    /\ live = {}
    /\ pc = [t \in Threads |-> "idle"]
    /\ op = [t \in Threads |-> "none"]
    /\ fh = [t \in Threads |-> 0]
    /\ to = [t \in Threads |-> 0]
    /\ at = [t \in Threads |-> 0]
    /\ os = [t \in Threads |-> Invalid]
    /\ calls = 0

Goto(t, step) == pc' = [pc EXCEPT ![t] = step]

\* The locks when t lets go of the handles in F.
Without(t, F) == [f \in FH |-> IF f \in F /\ lock[f] = t THEN NoThread ELSE lock[f]]

\* t returns to its caller and holds no lock of a handle any more.
Return(t) ==
    /\ lock' = Without(t, FH)
    /\ Goto(t, "idle")

\* __acrt_lowio_set_os_handle: does nothing if f has a kernel handle already.
SetOsHandle(f, h) ==
    osfhnd' = IF osfhnd[f] = Invalid THEN [osfhnd EXCEPT ![f] = h] ELSE osfhnd

\* _free_osfhnd, called when FOPEN of f is `open`.
FreeOsfhnd(f, open) ==
    osfhnd' = IF open /\ osfhnd[f] # Invalid THEN [osfhnd EXCEPT ![f] = Invalid] ELSE osfhnd

-----------------------------------------------------------------------------
(* The calls.  The handle of the caller is checked without its lock. *)

Begin(t, name, f, g, step) ==
    /\ pc[t] = "idle"
    /\ name \in Ops
    /\ calls < MaxCalls
    /\ calls' = calls + 1
    /\ op' = [op EXCEPT ![t] = name]
    /\ fh' = [fh EXCEPT ![t] = f]
    /\ to' = [to EXCEPT ![t] = g]
    /\ Goto(t, step)

IsOpen(f) == f < nhandle /\ osfile[f]

(***************************************************************************)
(* _open; "reopen" is _open with _O_WRONLY, _O_APPEND and a Unicode flag,  *)
(* which opens the file for reading too and opens it again when it has     *)
(* read the byte order mark.                                               *)
(***************************************************************************)
Open(t) ==
    /\ \E mode \in {"open", "reopen"} : Begin(t, mode, 0, 0, "alloc")
    /\ UNCHANGED <<slots, lock, index, live, at, os>>

\* _open_osfhandle with a kernel handle that the caller has opened.
OpenOsfhandle(t, h) ==
    /\ h \notin live
    /\ Begin(t, "osfhandle", 0, 0, "alloc")
    /\ live' = live \cup {h}
    /\ os' = [os EXCEPT ![t] = h]
    /\ UNCHANGED <<slots, lock, index, at>>

Close(t, f) ==
    /\ IsOpen(f)
    /\ Begin(t, "close", f, f, "lock")
    /\ UNCHANGED <<slots, lock, index, live, at, os>>

\* _write, _read, _lseek, _locking, _chsize, _commit, _setmode.
Use(t, f) ==
    /\ IsOpen(f)
    /\ Begin(t, "use", f, f, "lock")
    /\ UNCHANGED <<slots, lock, index, live, at, os>>

Dup(t, f) ==
    /\ IsOpen(f)
    /\ Begin(t, "dup", f, f, "lock")
    /\ UNCHANGED <<slots, lock, index, live, at, os>>

\* Nothing is done if f and g are the same.
Dup2(t, f, g) ==
    /\ IsOpen(f)
    /\ f # g
    /\ Begin(t, "dup2", f, g, IF g < nhandle THEN "lock1" ELSE "ensure")
    /\ UNCHANGED <<slots, lock, index, live, at, os>>

-----------------------------------------------------------------------------
(* _close, _dup and the functions that use a handle: lock it, check again *)

Lock_NotForClose(t) ==
    /\ pc[t] = "lock"
    /\ lock[fh[t]] = NoThread \/ op[t] = "close"
    /\ IF osfile[fh[t]]
         THEN /\ lock' = IF op[t] = "close" THEN lock ELSE [lock EXCEPT ![fh[t]] = t]
              /\ Goto(t, CASE op[t] = "close" -> "close_os"
                           [] op[t] = "use"   -> "use"
                           [] op[t] = "dup"   -> "alloc")
         ELSE Return(t)
    /\ UNCHANGED <<slots, index, live, args, at, os, calls>>

\* A handle that another thread has closed meanwhile is an error (EBADF).
Lock(t) ==
    /\ pc[t] = "lock"
    /\ lock[fh[t]] = NoThread
    /\ IF osfile[fh[t]]
         THEN /\ lock' = [lock EXCEPT ![fh[t]] = t]
              /\ Goto(t, CASE op[t] = "close" -> "close_os"
                           [] op[t] = "use"   -> "use"
                           [] op[t] = "dup"   -> "alloc")
         ELSE Return(t)
    /\ UNCHANGED <<slots, index, live, args, at, os, calls>>

\* The kernel handle is used while the lock is held.
UseEnds(t) ==
    /\ pc[t] = "use"
    /\ Return(t)
    /\ UNCHANGED <<slots, index, live, args, at, os, calls>>

(***************************************************************************)
(* close_os_handle_nolock looks at the other one of stdout and stderr      *)
(* without its lock and leaves the kernel handle open if they share it.    *)
(***************************************************************************)
SharedStd(f) ==
    /\ f \in {1, 2}
    /\ osfile[3 - f]
    /\ osfhnd[1] = osfhnd[2]

\* close_os_handle_nolock; Invalid and NoConsole are no handles to close.
CloseOsHandle(t) ==
    /\ pc[t] = "close_os"
    /\ live' = IF SharedStd(to[t]) THEN live ELSE live \ {osfhnd[to[t]]}
    /\ Goto(t, "close_free")
    /\ UNCHANGED <<slots, lock, index, args, at, os, calls>>

\* The rest of _close_nolock_internal, and back to _dup2 or the caller.
CloseFree(t) ==
    /\ pc[t] = "close_free"
    /\ FreeOsfhnd(to[t], osfile[to[t]])
    /\ osfile' = [osfile EXCEPT ![to[t]] = FALSE]
    /\ IF op[t] = "dup2" THEN Goto(t, "dup2_set") /\ UNCHANGED lock ELSE Return(t)
    /\ UNCHANGED <<nhandle, index, live, args, at, os, calls>>

-----------------------------------------------------------------------------
(* _alloc_osfhnd *)

AllocLock(t) ==
    /\ pc[t] = "alloc"
    /\ index = NoThread
    /\ index' = t
    /\ at' = [at EXCEPT ![t] = 0]
    /\ Goto(t, "scan")
    /\ UNCHANGED <<slots, lock, live, args, os, calls>>

Scan_PastEnd(t) ==
    /\ pc[t] = "scan"
    /\ at[t] <= nhandle
    /\ IF at[t] < nhandle /\ ~osfile[at[t]]
         THEN Goto(t, "enter") /\ at' = at
         ELSE pc' = pc /\ at' = [at EXCEPT ![t] = @ + 1]
    /\ UNCHANGED <<slots, lock, index, live, args, os, calls>>

\* An entry that is open is passed over; the flag is read without its lock.
Scan(t) ==
    /\ pc[t] = "scan"
    /\ at[t] < nhandle
    /\ IF osfile[at[t]]
         THEN pc' = pc /\ at' = [at EXCEPT ![t] = @ + 1]
         ELSE Goto(t, "enter") /\ at' = at
    /\ UNCHANGED <<slots, lock, index, live, args, os, calls>>

\* t has the entry: it is locked and open, and the index is unlocked.
Taken(t) ==
    /\ lock' = [lock EXCEPT ![at[t]] = t]
    /\ osfile' = [osfile EXCEPT ![at[t]] = TRUE]
    /\ to' = [to EXCEPT ![t] = at[t]]
    /\ index' = NoThread
    /\ Goto(t, "taken")

Enter_NoRecheck(t) ==
    /\ pc[t] = "enter"
    /\ lock[at[t]] = NoThread
    /\ Taken(t)
    /\ osfhnd' = [osfhnd EXCEPT ![at[t]] = Invalid]
    /\ at' = at
    /\ UNCHANGED <<nhandle, live, op, fh, os, calls>>

\* Lock the entry that seemed free and look again.
Enter(t) ==
    /\ pc[t] = "enter"
    /\ lock[at[t]] = NoThread
    /\ IF osfile[at[t]]
         THEN /\ Goto(t, "scan")
              /\ at' = [at EXCEPT ![t] = @ + 1]
              /\ UNCHANGED <<osfile, osfhnd, lock, index, to>>
         ELSE /\ Taken(t)
              /\ osfhnd' = [osfhnd EXCEPT ![at[t]] = Invalid]
              /\ at' = at
    /\ UNCHANGED <<nhandle, live, op, fh, os, calls>>

\* No entry is free: create the next array, whose first entry is taken.
Grow(t) ==
    /\ pc[t] = "scan"
    /\ at[t] = nhandle
    /\ nhandle < Elts * Arrays
    /\ nhandle' = nhandle + Elts
    /\ Goto(t, "enter_new")
    /\ UNCHANGED <<osfile, osfhnd, lock, index, live, args, at, os, calls>>

\* It is not checked again.
EnterNew(t) ==
    /\ pc[t] = "enter_new"
    /\ lock[at[t]] = NoThread
    /\ Taken(t)
    /\ UNCHANGED <<nhandle, osfhnd, live, op, fh, at, os, calls>>

AllocFails_KeepIndex(t) ==
    /\ pc[t] = "scan"
    /\ at[t] = nhandle
    /\ live' = IF op[t] = "osfhandle" THEN live \ {os[t]} ELSE live
    /\ Return(t)
    /\ UNCHANGED <<slots, index, args, at, os, calls>>

(***************************************************************************)
(* There is no memory for a new array, or no room: the call fails.  The    *)
(* caller of _open_osfhandle still owns its handle and closes it.          *)
(***************************************************************************)
AllocFails(t) ==
    /\ pc[t] = "scan"
    /\ at[t] = nhandle
    /\ index' = NoThread
    /\ live' = IF op[t] = "osfhandle" THEN live \ {os[t]} ELSE live
    /\ Return(t)
    /\ UNCHANGED <<slots, args, at, os, calls>>

-----------------------------------------------------------------------------
(* _wsopen_nolock, _open_osfhandle and _dup_nolock_internal, with the entry *)

CreateFile(t, h) ==
    /\ pc[t] = "taken" /\ op[t] \in {"open", "reopen"}
    /\ h \notin live
    /\ live' = live \cup {h}
    /\ os' = [os EXCEPT ![t] = h]
    /\ Goto(t, "created")
    /\ UNCHANGED <<slots, lock, index, args, at, calls>>

CreateFileFails(t) ==
    /\ pc[t] = "taken" /\ op[t] \in {"open", "reopen"}
    /\ osfile' = [osfile EXCEPT ![to[t]] = FALSE]
    /\ Return(t)
    /\ UNCHANGED <<nhandle, osfhnd, index, live, args, at, os, calls>>

\* GetFileType does not know the file, and it is closed again.
UnknownType(t) ==
    /\ pc[t] = "created"
    /\ osfile' = [osfile EXCEPT ![to[t]] = FALSE]
    /\ live' = live \ {os[t]}
    /\ Return(t)
    /\ UNCHANGED <<nhandle, osfhnd, index, args, at, os, calls>>

FileOpen(t) ==
    /\ pc[t] = "created"
    /\ SetOsHandle(to[t], os[t])
    /\ osfile' = [osfile EXCEPT ![to[t]] = TRUE]
    /\ Goto(t, "text_mode")
    /\ UNCHANGED <<nhandle, lock, index, live, args, at, os, calls>>

\* truncate_ctrl_z_if_present or configure_text_mode fails: _close_nolock.
ConfigureFails(t) ==
    /\ pc[t] = "text_mode"
    /\ Goto(t, "close_os")
    /\ UNCHANGED <<slots, lock, index, live, args, at, os, calls>>

\* They succeed; with "reopen" the file is closed to be opened again.
Configure(t) ==
    /\ pc[t] = "text_mode"
    /\ IF op[t] = "reopen"
         THEN live' = live \ {os[t]} /\ Goto(t, "reopen") /\ UNCHANGED lock
         ELSE UNCHANGED live /\ Return(t)
    /\ UNCHANGED <<slots, index, args, at, os, calls>>

Reopen_KeepHandle(t, h) ==
    /\ pc[t] = "reopen"
    /\ h \notin live
    /\ live' = live \cup {h}
    /\ SetOsHandle(to[t], h)
    /\ Return(t)
    /\ UNCHANGED <<nhandle, osfile, index, args, at, os, calls>>

Reopen(t, h) ==
    /\ pc[t] = "reopen"
    /\ h \notin live
    /\ live' = live \cup {h}
    /\ osfhnd' = [osfhnd EXCEPT ![to[t]] = h]
    /\ Return(t)
    /\ UNCHANGED <<nhandle, osfile, index, args, at, os, calls>>

\* FOPEN is cleared before _free_osfhnd is called, which looks at it.
ReopenFails(t) ==
    /\ pc[t] = "reopen"
    /\ osfile' = [osfile EXCEPT ![to[t]] = FALSE]
    /\ FreeOsfhnd(to[t], FALSE)
    /\ Return(t)
    /\ UNCHANGED <<nhandle, index, live, args, at, os, calls>>

\* _open_osfhandle puts the handle of its caller into the entry.
AttachOsfhandle(t) ==
    /\ pc[t] = "taken" /\ op[t] = "osfhandle"
    /\ SetOsHandle(to[t], os[t])
    /\ Return(t)
    /\ UNCHANGED <<nhandle, osfile, index, live, args, at, os, calls>>

\* duplicate_osfhnd.
Duplicate(t, h) ==
    /\ pc[t] = "taken" /\ op[t] = "dup"
    /\ h \notin live
    /\ live' = live \cup {h}
    /\ SetOsHandle(to[t], h)
    /\ osfile' = [osfile EXCEPT ![to[t]] = osfile[fh[t]]]
    /\ Return(t)
    /\ UNCHANGED <<nhandle, index, args, at, os, calls>>

DuplicateFails(t) ==
    /\ pc[t] = "taken" /\ op[t] = "dup"
    /\ osfile' = [osfile EXCEPT ![to[t]] = FALSE]
    /\ Return(t)
    /\ UNCHANGED <<nhandle, osfhnd, index, live, args, at, os, calls>>

-----------------------------------------------------------------------------
(* _dup2 *)

\* __acrt_lowio_ensure_fh_exists, all of it under the index lock.
EnsureFhExists(t) ==
    /\ pc[t] = "ensure"
    /\ index = NoThread
    /\ nhandle' = IF to[t] < nhandle THEN nhandle ELSE Elts * (to[t] \div Elts + 1)
    /\ Goto(t, "lock1")
    /\ UNCHANGED <<osfile, osfhnd, lock, index, live, args, at, os, calls>>

\* No memory for one of the arrays; those before it stay.
EnsureFails(t, n) ==
    /\ pc[t] = "ensure"
    /\ index = NoThread
    /\ n \in nhandle..to[t] /\ n % Elts = 0
    /\ nhandle' = n
    /\ Goto(t, "idle")
    /\ UNCHANGED <<osfile, osfhnd, lock, index, live, args, at, os, calls>>

First_Source(t) == fh[t]

\* The lower-numbered handle is locked first.
First(t) == IF fh[t] < to[t] THEN fh[t] ELSE to[t]

Second(t) == IF First(t) = fh[t] THEN to[t] ELSE fh[t]

LockFirst(t) ==
    /\ pc[t] = "lock1"
    /\ lock[First(t)] = NoThread
    /\ lock' = [lock EXCEPT ![First(t)] = t]
    /\ Goto(t, "lock2")
    /\ UNCHANGED <<slots, index, live, args, at, os, calls>>

\* Both are locked; the source may have been closed meanwhile.
LockSecond(t) ==
    /\ pc[t] = "lock2"
    /\ lock[Second(t)] = NoThread
    /\ IF osfile[fh[t]]
         THEN lock' = [lock EXCEPT ![Second(t)] = t] /\ Goto(t, "dup2")
         ELSE Return(t)
    /\ UNCHANGED <<slots, index, live, args, at, os, calls>>

\* DuplicateHandle; a target that is open is closed next.
Dup2Duplicate(t, h) ==
    /\ pc[t] = "dup2"
    /\ h \notin live
    /\ live' = live \cup {h}
    /\ os' = [os EXCEPT ![t] = h]
    /\ Goto(t, IF osfile[to[t]] THEN "close_os" ELSE "dup2_set")
    /\ UNCHANGED <<slots, lock, index, args, at, calls>>

Dup2Fails(t) ==
    /\ pc[t] = "dup2"
    /\ Return(t)
    /\ UNCHANGED <<slots, index, live, args, at, os, calls>>

Dup2Set(t) ==
    /\ pc[t] = "dup2_set"
    /\ SetOsHandle(to[t], os[t])
    /\ osfile' = [osfile EXCEPT ![to[t]] = osfile[fh[t]]]
    /\ Return(t)
    /\ UNCHANGED <<nhandle, index, live, args, at, os, calls>>

-----------------------------------------------------------------------------

Call(t) ==
    \/ Open(t)
    \/ \E h \in Handles : OpenOsfhandle(t, h)
    \/ \E f \in Files : Close(t, f) \/ Use(t, f) \/ Dup(t, f)
    \/ \E f, g \in Files : Dup2(t, f, g)

Step(t) ==
    \/ Lock(t) \/ UseEnds(t) \/ CloseOsHandle(t) \/ CloseFree(t)
    \/ AllocLock(t) \/ Scan(t) \/ Enter(t) \/ Grow(t) \/ EnterNew(t) \/ AllocFails(t)
    \/ CreateFileFails(t) \/ UnknownType(t) \/ FileOpen(t)
    \/ ConfigureFails(t) \/ Configure(t) \/ ReopenFails(t)
    \/ AttachOsfhandle(t) \/ DuplicateFails(t)
    \/ EnsureFhExists(t) \/ LockFirst(t) \/ LockSecond(t) \/ Dup2Fails(t) \/ Dup2Set(t)
    \/ \E h \in Handles : CreateFile(t, h) \/ Reopen(t, h) \/ Duplicate(t, h) \/ Dup2Duplicate(t, h)
    \/ \E n \in 0..(Elts * Arrays) : EnsureFails(t, n)

Next == \E t \in Threads : Call(t) \/ Step(t)

Spec == Init /\ [][Next]_vars

-----------------------------------------------------------------------------
(* Properties *)

\* Types; _alloc_osfhnd stays within the arrays that exist.
TypeOK ==
    /\ nhandle \in { Elts * n : n \in 1..Arrays }
    /\ osfile \in [FH -> BOOLEAN]
    /\ osfhnd \in [FH -> Handles \cup {Invalid, NoConsole}]
    /\ lock \in [FH -> Threads \cup {NoThread}]
    /\ index \in Threads \cup {NoThread}
    /\ live \subseteq Handles
    /\ fh \in [Threads -> FH] /\ to \in [Threads -> FH]
    /\ os \in [Threads -> Handles \cup {Invalid}]
    /\ \A t \in Threads : at[t] \in 0..nhandle

\* The kernel handle of f is closed and f is about to be told.
Closing(f) ==
    \E t \in Threads : to[t] = f /\ lock[f] = t /\ pc[t] \in {"close_free", "reopen"}

\* t has a kernel handle that is in no entry.
InTransit(t) ==
    \/ pc[t] = "created"
    \/ pc[t] \in {"alloc", "scan", "enter", "enter_new", "taken"} /\ op[t] = "osfhandle"
    \/ pc[t] \in {"close_os", "close_free", "dup2_set"} /\ op[t] = "dup2"

\* Who would close the kernel handle h.
Owners(h) ==
    { f \in FH : osfile[f] /\ osfhnd[f] = h /\ ~Closing(f) }
        \cup { <<t>> : t \in { u \in Threads : InTransit(u) /\ os[u] = h } }

(***************************************************************************)
(* Every kernel handle that is open has exactly one owner, an open entry   *)
(* or a call in progress: none is leaked and no two entries would both     *)
(* close it.  No open entry has a handle that was closed.                  *)
(***************************************************************************)
HandleOwned ==
    /\ \A h \in live : Cardinality(Owners(h)) = 1
    /\ \A f \in FH : osfile[f] /\ osfhnd[f] \in Handles /\ ~Closing(f) => osfhnd[f] \in live

(***************************************************************************)
(* While a thread uses a handle, which _write, _read and the others do     *)
(* with its lock held, no other thread closes it, or its kernel handle, or *)
(* puts something else in its place.                                       *)
(***************************************************************************)
UseStable ==
    [][\A t \in Threads :
         pc[t] = "use" =>
           LET f == to[t]
           IN  /\ osfile[f] /\ osfile'[f]
               /\ osfhnd'[f] = osfhnd[f]
               /\ osfhnd[f] \in live => osfhnd[f] \in live']_vars

\* The threads that t waits for: the one that holds the lock it wants.
Blockers(t) ==
    { CASE pc[t] = "lock"                   -> lock[fh[t]]
        [] pc[t] \in {"enter", "enter_new"} -> lock[at[t]]
        [] pc[t] \in {"alloc", "ensure"}    -> index
        [] pc[t] = "lock1"                  -> lock[First(t)]
        [] pc[t] = "lock2"                  -> lock[Second(t)]
        [] OTHER                            -> NoThread } \ {NoThread}

\* The threads in S wait for each other, for ever.
Stuck(S) == S # {} /\ \A t \in S : Blockers(t) \cap S # {}

(***************************************************************************)
(* "In order to prevent deadlock, we always obtain the lock for the        *)
(* lower-numbered file handle first" (dup2.cpp): no threads wait for each  *)
(* other in a circle.                                                      *)
(***************************************************************************)
NoCircularWait == \A S \in SUBSET Threads : ~Stuck(S)

(***************************************************************************)
(* Only _dup takes the index lock while it holds the lock of a handle: a   *)
(* circle of threads that wait for each other always has a _dup in it.     *)
(***************************************************************************)
OnlyDupDeadlocks ==
    \A S \in SUBSET Threads : Stuck(S) => \E t \in S : op[t] = "dup"

(***************************************************************************)
(* "Note that since we hold the index lock, no one else can allocate this  *)
(* handle" (osfinfo.cpp): the first entry of a new array is free when      *)
(* _alloc_osfhnd takes it.                                                 *)
(***************************************************************************)
NewEntryFree == \A t \in Threads : pc[t] = "enter_new" => ~osfile[at[t]]
=============================================================================
