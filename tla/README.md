# TLA+ verification of Musa.Runtime

Musa.Runtime makes the Microsoft C++ runtime (STL, UCRT, VCRuntime) usable in
Windows kernel drivers. It is an *overlay*: `src/Musa.Runtime` holds the files
the project rewrote or edited, `src/Microsoft.VisualC.Runtime` the vendor's files
it builds unchanged. Where both have a file, the overlay's is the one that is
built. In `NTOS_KERNEL_RUNTIME` builds many branches of the vendor code disappear
(no process exit, no suspended threads, no console), and these modules model the
branches that remain.

Paths below are shortened: `ucrt/`, `vcruntime/` and `stl/` are the directories of
those names under `UCRT/10.0.28000.0` and `MSVC/14.51.36231/crt`; `PROJECT.json`
gives, for every definition, the file and the lines it stands for.

## 1. Inventory

| Component | State it keeps | Operations | What makes it correct |
|---|---|---|---|
| STL mutex and condition variable (`stl/mutex.cpp`, `stl/cond.cpp`) | type, owner thread, count, SRW lock; sleepers | `_Mtx_lock/trylock/timedlock/unlock`, `_Cnd_wait/timedwait/signal/broadcast` | exclusion in spite of unprotected reads of the owner; owner and count exact between calls; a wait gives up and regains the monitor |
| CRT threads and per-thread data (`ucrt/startup/thread.cpp`, `ucrt/internal/per_thread_data.cpp`, `ucrt/misc/errno.cpp`) | FLS slot and PTD of a thread, thread parameter, thread handle | `_beginthread(ex)`, `thread_start`, `_endthread(ex)`, `__acrt_getptd(_noexit)`, `destroy_fls`, `_errno` | every PTD, parameter and handle released once, by whoever owns it; the recursion through `errno` ends |
| On-exit table (`ucrt/startup/onexit.cpp`) | a growing heap array of callbacks, the exit lock | register, execute | every callback once, last in first out, also when callbacks register callbacks |
| Driver lifecycle (`vcruntime/sys_common.inl`, `sys_main.cpp`, `sys_dllmain.cpp`, `utility.cpp`, `initialization.cpp`, `ucrt/internal/initialization.cpp`, `shared_initialization.cpp`, `ucrt/startup/exit.cpp`) | which components are up, pending callbacks, the driver's unload routine | load, fail, roll back, unload | nothing used while it is down; a failed load and an unload miss nothing; the user's routine runs once |
| Low-level I/O (`ucrt/lowio/`) | arrays of entries (FOPEN flag, kernel handle, lock), their number, the index lock | `_open`, `_open_osfhandle`, `_close`, `_dup`, `_dup2`, and the users of a handle | a kernel handle has one owner; a handle in use is not closed; no deadlock |
| Kernel pool heap (`kext/`) | pool blocks; the new mode and new handler of the UCRT | `kmalloc`, `kcalloc`, `krealloc`, `krecalloc`, `kfree`, `operator new`/`delete` with a pool, `kallocator` | no size wraps; a failed reallocation keeps the block; the retry loops end |
| `std::thread` and promises (`stl/cthread.cpp`, `stl/xnotify.cpp`, the headers `thread` and `future`) | a start block on the creator's stack, the thread's copy of its function, the table of mutexes to release at thread exit, shared states | `_Thrd_create`, `thread`, `join`, `detach`, `set_value(_at_thread_exit)`, `wait`, destruction | the block outlives both readers; what is registered is released once, by its thread |
| Text mode of reads and writes (`ucrt/lowio/read.cpp`, `write.cpp`, `lseek.cpp`) | file position, FEOFLAG, one look-ahead character | `_read`, `_write`, `_lseek` | the text is the same however it is cut into reads; a write that is read back is unchanged |
| Stdio streams (`ucrt/stdio/`) | the table of streams with its index lock; a stream's flags, buffer, file and lock | `fopen`, `freopen`, `fclose`, `fputc`, `fwrite`, `fgetc`, `setvbuf`, `fflush`, the terminator | what a call accepted reaches the file, in order, or an error is reported; a stream has one user; no deadlock |
| Thread-local objects (`vcruntime/tlsdtor.cpp`, `tlsdyn.cpp`) | a list of destructors per thread | register, run at thread exit | each destructor once, in reverse order (not modelled) |

**Interactions.** `DriverEntry` runs the lifecycle, which brings the other
components up in the order of a table and takes them down in the reverse order.
Almost every function reaches the per-thread data through `errno`; the PTD comes
from the heap, and the heap reports failure through `errno`. A thread's exit and the
driver's unload both destroy PTDs. Constructors, `DriverMain` and callbacks register
callbacks in the on-exit table, which the unload executes under a recursive lock.
`std::thread` and `promise` use the mutex and the condition variable, and a
thread that ends releases the mutexes of other objects. Everything below (FLS, TLS,
threads, files) is Musa.Core, a separate package: it appears in the modules as calls
that succeed or fail.

**What is hard.** Concurrency: unprotected reads that decide whether to lock
(mutex, lowio), a creator and its thread sharing a block, two kinds of lock taken in
different orders. Failure: every allocation may fail, and reporting it allocates.
Reentrancy: callbacks that register callbacks, `errno` inside the allocation of the
PTD, new handlers at two levels of a loop. Lifetime: a stack frame, a function object
and a shared state used by a thread other than the one that frees it. Ordering: the two
initializer tables, run forwards, backwards and from the middle; reads that end between
CR and LF. `PROJECT.json` lists these hazards at their lines.

## 2. Modules

Every component has one module with its state as variables, one action per
operation or atomic step, and its properties at the end. An operator whose name has a
suffix (`ResetSlot_Dropped`) is the body its namesake would have with a plausible bug;
it stands before it and is used only to see that a property notices the bug.

### StlMutex, Monitor, StlMutexProofs

`StlMutex` has one mutex, one condition variable and any number of threads.
`type`, `owner`, `count`, `srw` are the fields of `_Mtx_internal_imp_t`; `depth`
records how many locks each thread has been granted. Every read or write of a field is
a step, because `mtx_do_lock` reads `_Thread_id` before it holds anything. `Call` is the
entry with that first read; `Acquire`, `TryAcquire`, `TimedTry`, `TimedOut` are the three
ways of waiting; `CountUp`, `StoreOwner`, `FixupCount` the end of `mtx_do_lock`;
`UnlockCount`, `ClearOwner`, `Release` are `_Mtx_unlock`. `_Cnd_wait` is
`CndClearOwner` ... `CndResetCount`, with `SleepConditionVariableSRW` as an atomic
release-and-sleep (external), time-outs and spurious wake-ups. The asserts of the code
are preconditions. `Monitor` is what a C++ program expects: Enter, Leave, Wait, Resume.

### ThreadStart, ThreadStartProofs

`slot`, `ptd` and `context` are a thread's FLS slot, the block it points to and the
field `_beginthread_context`; `param`, `stored` and `handle` are the creator's
parameter block, its `_thread_handle` field, and the handle. The program counter `pc`
walks `__acrt_getptd_noexit`'s slow path step by step (`FindPtd`, `SetSentinel`,
`AllocPtd`, `SetPtd` and their failures). A failed allocation calls `_errno` and so
enters `__acrt_getptd_noexit` again; `nest` counts these suspended calls and `ret` says
where the outermost one returns. `Begin`, `CreateThread`, `SetHandle`, `Detach` are the
creator; `ThreadStart` ... `ExitThread` the thread. `DestroyFls` is what the system calls
at a thread's exit and `FlsFree` for all threads at unload. A call of `abort` stops
everything. The unload has the precondition the kernel gives it: no thread is inside the
driver.

### OnexitTable, ExitStack, OnexitTableProofs

`block`, `cells`, `used` are `_first`, the array and `_last`; `first`, `last`, `saved`
are the local pointers of `_execute_onexit_table`. `Register`/`RegisterGrow` take the
recursive exit lock (`CanLock`), so they are possible for the running callback but not
for other threads during an execution. Blocks are numbered, so that a pointer into a
freed block is visible. `ExitStack` is the abstract promise of `atexit`: callbacks are
numbered as they are registered, and one thread at a time runs the latest that waits until
none is left.

### DriverLifecycle, DriverLifecycleProofs

`up` is the set of components that are initialized, `pc` and `at` the place in
`__scrt_common_main_seh` and in the table it is walking. `Initializers` is
`__acrt_initializers` after preprocessing; `Needs` says which components the code of
each uses. Load failures end in `"fastfail"`, `"returned"` or `"except"`; `MainFails` and
`Unload` share the path through `_cexit` and `__scrt_uninitialize_crt`.

### Lowio, LowioProofs

An entry has `osfile` (the FOPEN flag), `osfhnd` and `lock`; `nhandle` is `_nhandle`,
`index` the holder of the index lock, `live` the handles open in the kernel, which hands
a closed value out again. A call is cut where it takes a lock, where it touches what
others access without the lock, and where a kernel handle is opened or closed. `_dup2`
holds two locks and calls the same `CloseOsHandle`/`CloseFree` as `_close`. Locks are
critical sections; no path takes one that it already holds. `Ops` and `Files` restrict
which calls a run makes.

### KernelHeap, KernelHeapProofs

`pool` maps each allocated block to its real size, the size its owner meant, and how far
it holds data and zeros; `owned` are the blocks callers have. A call goes through `pc`
(about to allocate, look at the mode, call the handler) and `level`, the function whose
loop is running: `kcalloc` and `operator new` loop around `kmalloc`, which loops itself,
so a handler is asked at both levels. `size_t` has `Width` bits and multiplication wraps
(`Times`); `asked` is the product without wrapping. `ExReallocatePoolWithTag` is
`Reallocates` or, with an old size of 0, always `Refused`. Mode and handler belong to the
whole driver and other threads set them, so each look at them may find anything
(`QueryNewMode`, `HandlerFails`, `HandlerSucceeds`, `HandlerThrows`). A caller passes the
true old size of its block; `errno` is not part of the model.

### StdThread, StdThreadProofs

`Main` creates workers by `_Thrd_create` (`Created`) or as `std::thread` (the others),
joins or detaches them, waits for futures and destroys promises. `frame`, `started`,
`mtx` are the locals of `_Thrd_create` that `_Thrd_runner` uses through the binder;
`tuple` is the heap copy `thread::_Start` makes and `_Invoke` destroys. A mutex is a
holder, as in `Monitor`, which StlMutex is proved to implement: a lock waits until it is
free, a wait on a condition variable releases it and sleeps in one step and takes it back
after a signal or for no reason (`Spurious`). `table`, `num_used`, `blocks`, `exit` are the
exit table of `xnotify.cpp` with its mutex; a slot also remembers who filled it (`by`),
which the code does not know: it compares thread identifiers, and those are given out
again (`FreeId`). `alive`, `stored`, `ready`, `holder` are an associated state:
`_Has_stored_result`, `_Ready` and `_Mtx`. `~promise` reads `_Ready` without the mutex
(`Destroy`); a promise that is set at thread exit and destroyed before that ends in
`terminate`. For that reason `~_Associated_state` never reaches
`_Cnd_unregister_at_thread_exit`, which is left out. A program does not destroy a promise
inside a call that sets it, or while the worker that is to set it still runs and has not.

### TextMode

One handle, a file or a pipe, in the ANSI or the UTF-16 mode, under its lock (Lowio).
`disk` and `pos` are the file, `eof` is FEOFLAG, `look` the pipe's look-ahead character.
`Read`, `ReadLookahead` and `ReadFails` are `_read_nolock` up to the translation; each
turn of the loop of `translate_text_mode_nolock` is a step (`Copy`, `CrLf`, `StopAtCtrlZ`
and the three ways a CR at the end of the buffer is peeked over); `Return` hands the
characters over. `WriteChunk` fills the translation buffer, writes it and may be cut short
after any character. `TextOf` says in one definition what the text of a file is; nothing of
the loops is in it. A character is a model value; those whose UTF-16 low byte is that of LF
(`LowLF`) are told apart, because the code tests that byte.

### Stdio, StdioProofs

`piob` is the table `__piob`: a slot is null or a stream with its flags, the bytes between
`_base` and `_ptr` (`buf`), `_cnt`, `_bufsiz` and its file. Slot 0 is a standard stream,
which exists from the start, is never given out by `fopen`, may be redirected by `freopen`
and is not closed by `_fcloseall`. `lock` and `index` hold the owners of the locks. What a
function does to a stream under its lock is a set of `Result`s: the stream after it, the
bytes that reach the file, the value it returns and the faults it takes (`Flush`,
`WriteBuffer`, `FlushAndWrite`, `Put`, `Refill`). An action takes one of them under the
lock; `fwrite` takes one for each turn of its loop. Only `_IOALLOCATED` is read by others
in a way that matters, so `fclose` and `freopen` are cut where they clear and set it
(`Fclose`, `FreeStream`, `Claim`, `OpenFile`), and the loops of `fopen` and
`fflush(NULL)` where they read it without the lock (`FopenScan`, `FlushScan`) and again
with it (`FopenEnter`, `FlushStream`). `_write` may write any prefix and fail. The
terminator (`Exit` ... `Down`) runs when no other call is in progress, which is what the
unload of a driver requires. The bytes of a file are numbered, so order, loss and
duplication show. As the position of a file is always its end, `fgetc` finds the end or an
error; that is enough for the switch between reading and writing.

## 3. Runs

All runs are complete searches. `pass` runs:

| Run | Bounds | Shows |
|---|---|---|
| `stl_mutex` | 3 threads (symmetric), nesting 2, all 5 mutex types | `MutualExclusion`, `OwnerExact`, `NoStrandedLock`, `NotRecursive`, refinement of `Monitor`. Three threads: a holder, a waiter, and one that signals; nesting 2 is the first recursive lock. The proofs remove both bounds |
| `thread_start` | 2 system threads, 2 created ones | `SentinelGuards`, `PtdOwned`, `ParameterOwned`, `ReleasedOnce`. Two of each: a created thread can create another, and a system thread can race both |
| `onexit_table` | 2 threads, 5 registrations, 2 executions, sizes 2/1/2 for 32/4/512 | `EachOnce`, `BlockSafe`, refinement of `ExitStack`, `ExecutionEnds`. Five registrations fill and grow the table twice, past the maximum increment |
| `driver_lifecycle` | both flavours, 3 callbacks | `UsesLive`, `NothingLeft`, `RollbackComplete`, `UnloadHooked` |
| `lowio` | 2 threads, 2 kernel handles, 2 arrays of 3 entries, 4 calls | `HandleOwned`, `NoCircularWait` without `_dup2` |
| `lowio_dup` | 2 arrays of 4 entries, `_close`, `_dup`, `_dup2`, users, 4 calls | `HandleOwned`, `OnlyDupDeadlocks`, `UseStable` |
| `kernel_heap` | `size_t` of 3 bits, `_HEAP_MAXREQ` 5, 2 blocks | `BigEnough`, `Accounted`, `ReallocKeeps`, `NewThrows`, `CallsEnd`. Every pair of operands occurs: products that fit, exceed `_HEAP_MAXREQ`, and wrap to 0, to a small number and to a large one. Two blocks: the old and the new one of a reallocation |
| `std_thread` | 2 workers (one of each kind), 2 identifiers, 2 states, blocks of 1 slot, at most 2 blocks | `FrameAlive`, `TableExact`, `ReleasedAtExit`, `CallsReturn`. One slot per block makes the table full, extended and out of memory with two registrations; two identifiers let the second worker have the first one's |
| `text_mode` | every text of up to 4 of 5 characters, reads of up to 3, buffers of up to 3, a translation buffer of 3, files and pipes, both modes | `ReadsText`, `WritesText`. Four characters hold CR CR LF x and CR LF CR LF, and every cut between them is a read of 1, 2 or 3 |
| `stdio` | 2 threads, a standard stream and one more, 3 files, 4 bytes, 5 calls and the terminator, 1 fault; buffers of 3 bytes, or 2 by `setvbuf` | `DataKept`, `FileOwned`, and no deadlock. Three files: one is reopened while `fopen` waits for its stream. Four bytes fill a buffer of two, force a flush and a direct write in one `fwrite`; five calls are open, write, flush, write, close |

In the lowio runs two kernel handles are enough for a value to be closed and given out
again while a stale copy exists; an array of three is as small as the standard handles
allow; four calls let each thread finish one call and start another against the other's.
The passing lowio runs leave file handle 2 out of `Files` and do not combine `_open` or
`_open_osfhandle` with `_dup2` over two arrays, or a reopening `_open` with `_dup2`:
there `HandleOwned` fails, for the reasons given under Findings.

Deadlock checking is off where the system may stop: a machine that was aborted, a
driver that was unloaded, a program that terminated or waits for a promise nobody sets, a
bound on calls that was reached. In `stl_mutex`, `kernel_heap` and `stdio` it is on.
Lowio states the absence of circular waits as an invariant instead, which also sees a
circle of two threads while a third goes on.

**Fairness.** Three modules have liveness properties. Each assumes that the code goes on
once a call has begun, never that a call is made.

- `OnexitTable` assumes weak fairness of the thread that runs the callbacks
  (`RunnerStep`): a callback returns, and the thread is scheduled. It is the code's own
  assumption, since the unload waits for both. The number of registrations is bounded, so
  that "callbacks register callbacks for ever" is excluded; without that bound the loop
  need not end.
- `KernelHeap` assumes that the pool does not refuse the same request for ever (strong
  fairness of `PoolAllocates` and `Reallocates`), which is what a new handler that says it
  succeeded promises. The handler itself is not assumed to give up. `CallsEnd` excludes
  the two calls that no memory can help (`Hopeless`): `krealloc` with an old size of 0
  (`kmalloc.cpp:15`) and `operator new` of more than `_HEAP_MAXREQ` bytes
  (`new_km.cpp:37`) loop as long as the handler succeeds.
- `StdThread` assumes that threads are scheduled and that the functions of workers end,
  and strong fairness of the runner's lock of the start mutex, which the creator takes and
  releases whenever it wakes up for no reason. Spurious wake-ups are not assumed, so a lost
  signal would show.

### Findings

`violation` runs check a statement that the repository's comments make of the code.

| Run | The comment | What happens |
|---|---|---|
| `thread_handle` | `thread.cpp:180` "We create the new thread in a suspended state [...] The newly created thread is responsible for closing this handle." | in kernel builds it is not created suspended; a thread that ends before line 202 leaves its handle open for good, and line 202 writes into the parameter it has freed |
| `lowio_grow` | `osfinfo.cpp:139` "since we hold the index lock, no one else can allocate this handle" | `_dup2` opens the entry without the index lock |

More disagreements of the same kind were met. They have no run of their own, but the
models reach them; most are the reason for a restriction of a run or of a property.

- `dup2.cpp:83` "In order to prevent deadlock, we always obtain the lock for the
  lower-numbered file handle first": `_dup` waits for a lower, free entry with the lock of
  a higher one held. `OnlyDupDeadlocks` shows that `_dup` is in every such circle, and
  `lowio` that there is none without `_dup2`.
- `dup2.cpp:15` a handle that is not open "implies that
  `_osfhnd(source_fh) == INVALID_HANDLE_VALUE`": when the second open of a file fails,
  `open.cpp:815` clears FOPEN before `_free_osfhnd`, which then does nothing
  (`ReopenFails`); `_dup2` onto the entry keeps the stale handle.
- `close.cpp:13` "if and only if nt needs to be closed": while stdout and stderr are
  closed by two threads, one reads the other's entry without its lock (`SharedStd`); if
  the stale value there has been given out again and equals its own, the handle is not
  closed.
- `read.cpp:370` "If the file is in text mode, CRLF sequences are mapped to LF", and
  `read.cpp:587` a broken pipe means "all data has been read": on a pipe the look-ahead
  character is taken out of `_pipe_lookahead` before `ReadFile` fails, and is lost; in the
  ANSI mode the translation starts after it and ends one character late; a UTF-16
  character with low byte 0x0A passes for an empty look-ahead. `ReadsText` speaks of pipes
  only until a look-ahead character is handed out (`late`).
- `_flsbuf.cpp:109` "Returns (W)EOF on failure": when the seek of an appending file fails,
  `write_buffer_nolock`, whose type is `bool`, returns `stdio_traits::eof`, which is true
  (line 90). `fputc` returns the character, which is not stored, and the buffer's stale
  first byte is written in its place. `ferror` does report it, so `DataKept` holds.
- `freopen` ignores a flush that fails (`freopen.cpp:57` says so) and so does the
  terminator: `DataKept` exempts exactly these (`ignored`).

Two results of `std_thread` are worth knowing although no comment denies them. Between
`*res = 1` and the unlock of the broadcast (`xnotify.cpp:94-97`) a `~promise` in another
thread may free the state first; `TableExact` names this as the only exception. And a
registration that finds no memory (`xnotify.cpp:43`) is dropped silently, so the promise's
mutex stays locked; `ReleasedAtExit` exempts exactly these (`lost`).

## 4. Proofs

Every module but TextMode has a module of proofs, which TLAPS checks for every
value of the constants. What a run shows for two threads and a few bytes holds for any
number of threads, widths, table sizes and bounds on calls. Each proof is the same
argument: an inductive invariant, which TLC checked on the runs' instances first, a lemma
per group of actions that they preserve it, and the theorem that it implies the property.

| Module | Theorem | States |
|---|---|---|
| StlMutexProofs | `MutexTypes`, `MutexExclusive`, `MutexOwnerExact`, `MutexNotStranded`, `MutexNotRecursive` | `[]TypeOK`, `[]MutualExclusion`, `[]OwnerExact`, `[]NoStrandedLock`, `[]NotRecursive` |
| | `MutexIsMonitor` | the refinement of `Monitor` |
| ThreadStartProofs | `ThreadTypes`, `SentinelOnlyInside`, `PtdNeverLeaks`, `ParameterNeverLeaks`, `NothingReleasedTwice` | `[]TypeOK`, `[]SentinelGuards`, `[]PtdOwned`, `[]ParameterOwned`, `[]ReleasedOnce` |
| KernelHeapProofs | `HeapBigEnough`, `HeapAccounted` | `[]BigEnough`, `[]Accounted` |
| | `HeapReallocKeeps`, `HeapNewThrows` | the action properties `ReallocKeeps`, `NewThrows` |
| | `FitsExact` | `Fits(count, n) <=> count * n <= MaxReq` |
| OnexitTableProofs | `TableTypes`, `CallbacksRunOnce`, `TableBlockSafe` | `[]TypeOK`, `[]EachOnce`, `[]BlockSafe` |
| | `TableIsExitStack` | the refinement of `ExitStack` |
| DriverLifecycleProofs | `LifecycleTypes`, `LifecycleUsesLive`, `LifecycleNothingLeft`, `LifecycleRollback`, `LifecycleUnloadHooked` | `[]TypeOK`, `[]UsesLive`, `[]NothingLeft`, `[]RollbackComplete`, `[]UnloadHooked` |
| | `NeedsBelow` | what a row of the tables needs is brought up before it |
| StdThreadProofs | `HandshakeFrameAlive`, `ExitTableExact`, `PromisesReleasedAtExit` | `[]FrameAlive`, `[]TableExact`, `[]ReleasedAtExit` |
| LowioProofs | `LowioTypes`, `OnlyDupDeadlocksAlways` | `[]TypeOK`, `[]OnlyDupDeadlocks` |
| | `NoDeadlockWithoutBoth` | `[]NoCircularWait`, unless both `_dup` and `_dup2` are called |
| | `KernelHandlesOwned`, `HandleStableInUse` | `[]HandleOwned` and the action property `UseStable`, under `Careful` |
| StdioProofs | `FilesOwned`, `DataNeverLost` | `[]FileOwned`, `[]DataKept` |
| | `StdioInductive` | the invariant they follow from, `[](Control /\ Table)` |

**Assumptions.** A proof uses the named assumption on the constants of its module and
nothing else: the null value of a kind is none of its values, sizes and bounds are natural
numbers, increments and array sizes are positive. In Stdio the threads are finitely many
as well, because the calls that open a file are counted. Two theorems of Lowio have a hypothesis
about the driver, because without it the property is false (see Findings). `Careful` says
that the driver does not close or replace both stdout and stderr; and that, if it calls
`_dup2`, it opens nothing in the way that closes and opens the file again, and names no
first entry of a later array as a target. The passing lowio runs are instances of it.

### The arguments

**StlMutex.** `MutualExclusion` speaks of `depth`, which says nothing of why it holds. The
inductive invariant ties everything to the holder of the SRW lock: while it is free the
owner and the count are reset (`FreeInv`); the owner, if there is one, is the holder
(`OwnerInv`); a thread that is not the holder is at a step that needs no lock and has
depth 0 (`OutsideInv`); and the fields of the mutex are determined by the step the
holder is at (`HolderInv`). This is what makes the unprotected read harmless: a thread
reads its own identifier only if it is the holder, and nobody else writes it then.
For the refinement, `HolderAlone` turns the invariant into the monitor's condition that
nobody else is inside, and `LockRefines`, `UnlockRefines`, `CndRefines` map each step to
Enter, Leave, Wait, Resume or a stutter.

**ThreadStart.** None of the properties is inductive alone: that no slot refers to a freed
PTD needs to know which threads can be in the driver when it is unloaded (`PhaseInv`), and
that a parameter is freed once needs to know that a thread has one creator, which drops
the parameter only before the thread exists (`MakingInv`). `ContextInv` says when the PTD
of a created thread points to its parameter, `GetptdInv` that a call suspended by a failed
allocation is at the one place the code can suspend it, and `HandleInv` who still has to
close a handle.

**KernelHeap.** `SizeInv` carries the arithmetic: the size a loop allocates is the size the
caller meant, so a product that was cut never gets to a loop. That rests on `FitsExact`
(the test by division is exact) and `GetSizeExact` for `kallocator`, which are proved for
every width; `Uncut` is the only fact about `%`. `BlocksInv` bounds what a block holds by
its size, and `ReallocInv` says that the old block of a reallocation is still there, with
the size the caller gave, at each step of its loops. The proof of `NewThrows` failed at
first, because the alternatives of `GiveUp` overlapped and TLA+ leaves open which is
chosen; they are exclusive now, in the order in which the code tests them.

**OnexitTable.** `LocalsInv` is the heart: `_execute_onexit_table` compares only the two
pointers it saved. While a callback runs, the table has as many callbacks as before only if
it has not moved, since whatever moves it registers one; so the comparison never misses a
change. With `VisitedFrom` (nothing is left behind the local `last`) and `OrderInv` (the
cells are in the order of registration) the callback the loop finds is the latest that
waits, which is a `Pop` of `ExitStack`. That module knows a callback by its registration
number and keeps the set of those that wait: as a sequence the mapping would be a filter of
the cells, about which nothing can be proved here without induction.

**DriverLifecycle.** `UpInv` gives the components that are up at every step as a function of
the row `at`: forwards what the rows before it bring up, backwards what the rows up to it
leave. `RowSets` and `NeedsBelow` evaluate the tables once, and every property is read off
`UpInv`.

**StdThread.** The invariant has two halves that do not disturb each other (`StartKept`,
`ExitKept`). In `StartInv` the handshake: the frame is there exactly while its creator is
in `_Thrd_create`, which leaves only with the mutex and `started`, and the runner's last
access releases that mutex (`FrameInv`). In `ExitInv` the exit table: each entry was made by
a worker that has not ended, which holds the state (`EntryInv`), the counter of a block is
the number of its entries (`UsedInv`), and an identifier is shared only with a worker that
has left (`IdInv`), so a broadcast releases what its thread registered and, at most, what a
thread that called `_Thrd_exit` left behind.

**Lowio.** `LockingInv` says which thread is at which step of which call (`OpInv`), that it
holds exactly the locks that step needs (`LockInv`: an equivalence, so that nobody forgets
one), that an entry it has locked and looked at stays open (`EntryInv`), and that entries
of arrays to come are untouched (`NewInv`). A circle of waiting threads then has a greatest
locked entry; a `_dup2` that waits holds a lower entry than it wants, so only `_dup`, which
takes the index lock and a free entry with its source locked, can close the circle.
Without `_dup2` an entry that seemed free under the index lock still is (`ScanInv`), which
excludes that circle too. `OwnerInv` adds the kernel handles: each that is open is in one
open entry or on its way in one call (`OwnInv`), an entry that was just taken has none
(`OsInv`), and so has a free entry a `_dup2` may take (`FreeInv`). `Passes` lists the only
four things a step may do to a handle's owners, and each action is shown to do one of them.

**Stdio.** The invariant has two layers, proved one after the other. `Control` knows
nothing of streams: which steps a call may be at (`StepInv`), that a thread holds the lock
of the stream it is at exactly at the steps in `Held` and the index lock exactly while it
walks the table (`LockInv`, equivalences again), that the terminator is alone, and that a
client which closes, reopens, reads or rebuffers a stream is alone on it. `Table` rests on
it. `SlotInv` says that a stream with a file is in use and no other has the file; so a
stream that `fopen` finds free under its lock has none, and `freopen`, which keeps the lock
between `FreeStream` and `Claim`, cannot lose its stream (`FileOwned`). `KeptInv` is
`DataKept` for each stream: what is on the disk, then what is in the buffer, are the bytes
`1..sent`. It is preserved because of one fact per operation, `FlushKeeps`, `PutKeeps`,
`FlushAndWriteKeeps` and so on: the bytes put, then the new buffer, are the old buffer, then
the bytes accepted, unless `_IOERROR` or the result tells. That needs `Fine`: only a stream
that can be flushed has bytes or room in its buffer, or else a flush that does nothing
would drop bytes. No induction is needed, because bytes are numbered and only concatenation
is used (`IotaGrows`, `Regroup`). `ExitInv` says that after the terminator's walk every
buffer is empty, which is why `_fcloseall` may drop the streams; the slots behind it are
gone, so only slot 0 can leave a file open. A lemma for each kind of step (`TableKept`,
`RewriteTable`, `ClearTable`, `DropTable`) says what it must show to keep `Table`, and
`OthersKept` that it disturbs no other thread.

### Only model-checked

- `ExecutionEnds`, `CallsEnd` and `CallsReturn`: liveness under fairness, and ENABLED, are
  outside TLAPS's reach.
- `ReadsText` and `WritesText` of TextMode: they compare loops with `TextOf`, a sorted
  selection from a sequence, and what that is for every text needs induction over data.
- The absence of deadlock in `stl_mutex`, `kernel_heap` and `stdio`, which is about ENABLED.

## 5. Not modelled

- **Musa.Core** is another package; its calls succeed or fail.
- In **ThreadStart**, a procedure that throws (the `__except` clause of
  `thread_start`) and the contents of a PTD; in **DriverLifecycle**, `exit`, `_exit` and
  `quick_exit` called by the driver and what an initializer does inside; in **Lowio**,
  `__acrt_uninitialize_lowio`, handles inherited from a parent process (there is none in
  the kernel), and the contents of files: whether a byte order mark is read or Ctrl-Z is
  cut off is the choice between `Configure` and `ConfigureFails`.
- In **KernelHeap**, `errno` and the pool's type and tag, which select no path; in
  **StdThread**, move, swap and the destructor of `thread`, a thread joining itself,
  `packaged_task`, deferred functions, timed waits, and `notify_all_at_thread_exit` (the same
  registration without a flag); in **TextMode**, the UTF-8 mode and code pages, the Ctrl-Z
  of devices, the console (absent in the kernel), the flag FCRLF (only `ftell`
  reads it), UTF-16 characters with a high byte of 0x0A in the look-ahead, and a peek that
  fails by an error of the device; in **Stdio**, streams opened with `r`, reading data,
  `ungetc`, seeking, `clearerr`, the commit mode, the temporary buffers of stderr and of
  terminals, wide characters, text mode (`_write` returns the count it was given),
  `tmpfile`, formatted output, and clients that close a stream another thread uses.
- **Locale** in the kernel build is a constant C locale (`ucrt/locale/locale_update.cpp`,
  `wsetlocale.cpp`): there is no protocol in it.
- **Thread-local destructors**: the documents call `thread_local` unsupported
  (`docs/ARCHITECTURE.md:219`, `docs/DEVELOPER-GUIDE.md:256`) and `tlsdyn.cpp` is not built.
  **UCRT locks**: a sequential loop that runs once; it is an initializer that may fail in
  DriverLifecycle.
- `_initterm_e` failing leaves the initialized runtime behind and calls only
  `MusaCoreShutdown`. `CInitializeFails` models that; no property judges it, because the
  repository's documents do not say what should be undone.
- A constructor or `DriverMain` that throws reaches the `__except` clause of
  `__scrt_common_main_seh`, which its comment calls unreachable (`Throws`): the kernel's
  `_seh_filter_sys` accepts C++ exceptions. What `_exit` does there is not modelled.
- Strings, locale, number conversion, undecoration of symbols, debug heap, reports,
  signals, the vendored STL, UCRT and Boost.Math: data conversion or third-party code
  without a protocol of this repository's own. `thread_safe_statics.cpp` is excluded from
  the build.

## 6. Plan

Done: all the modules of section 2, and the proofs of section 4, which cover every safety
property of the runs but those of TextMode. What could come next is more of stdio and
lowio: streams opened for reading, seeking and the commit mode.
