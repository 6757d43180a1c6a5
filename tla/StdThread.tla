------------------------------ MODULE StdThread ------------------------------
(***************************************************************************)
(* Starting a C++ thread and what happens when it ends: _Thrd_create with  *)
(* its handshake on the creator's stack (cthread.cpp), std::thread (the    *)
(* header thread), and the table of mutexes and condition variables to be  *)
(* released at thread exit (xnotify.cpp) that promises use (the header     *)
(* future).                                                                *)
(*                                                                         *)
(* One thread, Main, creates Workers, joins or detaches them, waits for    *)
(* futures and destroys them.  A mutex is the monitor that StlMutex is     *)
(* shown to implement: it has a holder, and its release is the last access *)
(* to it.                                                                  *)
(***************************************************************************)
EXTENDS Naturals, FiniteSets, FiniteSetsExt

CONSTANTS
    Main, Workers,
    Created,    \* the workers that _Thrd_create starts, not std::thread
    Ids,        \* thread identifiers, numbers
    States,     \* associated states: a promise and its future
    Items,      \* _Nitems (20)
    Blocks,     \* bound: how many blocks of the exit table calloc gives
    None        \* no thread, no identifier, nothing registered

ASSUME StdThreadAssumption ==
    /\ Main \notin Workers /\ None \notin Workers \cup Ids \cup {Main}
    /\ IsFiniteSet(Workers) /\ IsFiniteSet(States)
    /\ Created \subseteq Workers /\ Ids \subseteq Nat
    /\ None \notin [id : Ids, state : States, by : Workers]
    /\ Items \in Nat \ {0} /\ Blocks \in Nat \ {0}

VARIABLES
    pc,         \* the step of each thread
    arg,        \* the worker or the state that Main's call is about
    frame,      \* _Thrd_create's locals for a worker: binder, started, mutex
    started,    \*   started,
    mtx,        \*   and the thread that holds the mutex
    tuple,      \* the heap copy of the function that std::thread makes
    handle,     \* the handle of a worker, in its thread object
    id,         \* the identifier of a worker
    setter,     \* the worker that is to set each promise
    alive,      \* whether an associated state is not destroyed
    stored,     \* _Has_stored_result
    ready,      \* _Ready
    holder,     \* the thread that locked _Mtx
    table,      \* the slots of the exit table, by block
    num_used,   \*   and how many of each block are used
    blocks,     \* how many blocks there are
    exit,       \* the thread that holds _Thread_exit_data_mutex
    at,         \* the slot a worker's broadcast is at
    lost        \* history: states whose registration found no memory

start  == <<frame, started, mtx, tuple, handle, id>>
future == <<setter, alive, stored, ready, holder>>
exits  == <<table, num_used, blocks, exit, at, lost>>
vars   == <<pc, arg, start, future, exits>>

Slots == (1..Blocks) \X (1..Items)

Init ==
    /\ pc = [t \in Workers \cup {Main} |-> IF t = Main THEN "idle" ELSE "none"]
    /\ arg = None
    /\ frame = [w \in Workers |-> "none"]
    /\ started = [w \in Workers |-> FALSE]
    /\ mtx = [w \in Workers |-> None]
    /\ tuple = [w \in Workers |-> "none"]
    /\ handle = [w \in Workers |-> "none"]
    /\ id = [w \in Workers |-> None]
    /\ setter \in [States -> Workers]
    /\ alive = [s \in States |-> TRUE]
    /\ stored = [s \in States |-> FALSE]
    /\ ready = [s \in States |-> FALSE]
    /\ holder = [s \in States |-> None]
    /\ table = [x \in Slots |-> None]
    /\ num_used = [b \in 1..Blocks |-> 0]
    /\ blocks = 1
    /\ exit = None
    /\ at = [w \in Workers |-> None]
    /\ lost = {}

Goto(t, from, to) == pc[t] = from /\ pc' = [pc EXCEPT ![t] = to]

-----------------------------------------------------------------------------
(* _Thrd_create and _Thrd_runner *)

(***************************************************************************)
(* An identifier is taken while its thread runs or its handle is open.     *)
(* Among those never used before, which are all alike, it is the lowest.   *)
(***************************************************************************)
FreeId(i) ==
    LET used == {id[w] : w \in Workers}
    IN  /\ \A w \in Workers :
               id[w] = i => pc[w] \in {"ended", "exited"} /\ handle[w] # "open"
        /\ i \notin used => \A j \in Ids \ used : i <= j

\* _beginthreadex makes worker w; it begins at the given step.
Begin(w, i, main, first) ==
    /\ FreeId(i)
    /\ id' = [id EXCEPT ![w] = i]
    /\ handle' = [handle EXCEPT ![w] = "open"]
    /\ pc' = [pc EXCEPT ![Main] = main, ![w] = first]

\* The locals are made and the mutex is locked.
ThrdCreate(w) ==
    /\ w \in Created /\ pc[w] = "none"
    /\ Goto(Main, "idle", "c_start")
    /\ arg' = w
    /\ frame' = [frame EXCEPT ![w] = "live"]
    /\ mtx' = [mtx EXCEPT ![w] = Main]
    /\ UNCHANGED <<started, tuple, handle, id, future, exits>>

\* _Thrd_start
ThrdStart ==
    /\ pc[Main] = "c_start"
    /\ \E i \in Ids : Begin(arg, i, "c_test", "copy")
    /\ UNCHANGED <<arg, frame, started, mtx, tuple, future, exits>>

Leave(w) ==
    /\ mtx' = [mtx EXCEPT ![w] = None]
    /\ frame' = [frame EXCEPT ![w] = "none"]
    /\ started' = [started EXCEPT ![w] = FALSE]

\* _Thrd_start failed: unlock and return the error.
ThrdStartFails ==
    /\ Goto(Main, "c_start", "idle")
    /\ arg' = None
    /\ Leave(arg)
    /\ UNCHANGED <<tuple, handle, id, future, exits>>

\* while (!started) _Cnd_wait: sleep and release the mutex in one step, or
\* unlock and return.
ThrdTest ==
    /\ pc[Main] = "c_test"
    /\ IF started[arg]
       THEN /\ Goto(Main, "c_test", "idle")
            /\ Leave(arg)
            /\ arg' = None
       ELSE /\ Goto(Main, "c_test", "c_sleep")
            /\ mtx' = [mtx EXCEPT ![arg] = None]
            /\ UNCHANGED <<arg, frame, started>>
    /\ UNCHANGED <<tuple, handle, id, future, exits>>

\* A sleeper wakes up for no reason.
Spurious ==
    /\ \/ Goto(Main, "c_sleep", "c_wake")
       \/ Goto(Main, "f_sleep", "f_lock")
    /\ UNCHANGED <<arg, start, future, exits>>

\* A sleeper that was woken takes the mutex back.
ThrdWake ==
    /\ Goto(Main, "c_wake", "c_test")
    /\ mtx[arg] = None
    /\ mtx' = [mtx EXCEPT ![arg] = Main]
    /\ UNCHANGED <<arg, frame, started, tuple, handle, id, future, exits>>

\* The runner copies the binder.
RunnerCopy(w) ==
    /\ Goto(w, "copy", "lock")
    /\ UNCHANGED <<arg, start, future, exits>>

\* Mutant: the mutex is not locked.
RunnerLock_Dropped(w) ==
    /\ Goto(w, "lock", "started")
    /\ UNCHANGED <<arg, start, future, exits>>

RunnerLock(w) ==
    /\ Goto(w, "lock", "started")
    /\ mtx[w] = None
    /\ mtx' = [mtx EXCEPT ![w] = w]
    /\ UNCHANGED <<arg, frame, started, tuple, handle, id, future, exits>>

RunnerStarted(w) ==
    /\ Goto(w, "started", "signal")
    /\ started' = [started EXCEPT ![w] = TRUE]
    /\ UNCHANGED <<arg, frame, mtx, tuple, handle, id, future, exits>>

\* Mutant: nobody is signalled.
RunnerSignal_Dropped(w) ==
    /\ Goto(w, "signal", "unlock")
    /\ UNCHANGED <<arg, start, future, exits>>

RunnerSignal(w) ==
    /\ pc[w] = "signal"
    /\ pc' = [pc EXCEPT ![w] = "unlock",
                        ![Main] = IF @ = "c_sleep" /\ arg = w THEN "c_wake" ELSE @]
    /\ UNCHANGED <<arg, start, future, exits>>

RunnerUnlock(w) ==
    /\ Goto(w, "unlock", "func")
    /\ mtx' = [mtx EXCEPT ![w] = None]
    /\ UNCHANGED <<arg, frame, started, tuple, handle, id, future, exits>>

-----------------------------------------------------------------------------
(* std::thread *)

\* _Start: the function is copied to the heap.
StartCopy(w) ==
    /\ w \notin Created /\ pc[w] = "none"
    /\ Goto(Main, "idle", "s_start")
    /\ arg' = w
    /\ tuple' = [tuple EXCEPT ![w] = "live"]
    /\ UNCHANGED <<frame, started, mtx, handle, id, future, exits>>

\* The thread owns the copy from now on, though release() is still to come.
Start ==
    /\ pc[Main] = "s_start"
    /\ \E i \in Ids : Begin(arg, i, "s_release", "func")
    /\ UNCHANGED <<arg, frame, started, mtx, tuple, future, exits>>

\* release() looks at the pointer only; the copy may be gone by now.
StartRelease ==
    /\ Goto(Main, "s_release", "idle")
    /\ arg' = None
    /\ UNCHANGED <<start, future, exits>>

\* _beginthreadex failed: the copy is destroyed and the error thrown.
StartFails ==
    /\ Goto(Main, "s_start", "idle")
    /\ arg' = None
    /\ tuple' = [tuple EXCEPT ![arg] = "none"]
    /\ UNCHANGED <<frame, started, mtx, handle, id, future, exits>>

\* join and _Thrd_join, up to the wait.
Join(w) ==
    /\ handle[w] = "open"
    /\ Goto(Main, "idle", "join")
    /\ arg' = w
    /\ UNCHANGED <<start, future, exits>>

\* The wait ends, the handle is closed.
Joined ==
    /\ Goto(Main, "join", "idle")
    /\ pc[arg] \in {"ended", "exited"}
    /\ handle' = [handle EXCEPT ![arg] = "closed"]
    /\ arg' = None
    /\ UNCHANGED <<frame, started, mtx, tuple, id, future, exits>>

\* detach and _Thrd_detach
Detach(w) ==
    /\ pc[Main] = "idle"
    /\ handle[w] = "open"
    /\ handle' = [handle EXCEPT ![w] = "closed"]
    /\ UNCHANGED <<pc, arg, frame, started, mtx, tuple, id, future, exits>>

-----------------------------------------------------------------------------
(* The function of a worker sets promises.  A promise outlives the call    *)
(* that sets it, and one worker sets it.                                   *)

Woken(s) == [pc EXCEPT ![Main] = IF @ = "f_sleep" /\ arg = s THEN "f_lock" ELSE @]

\* set_value: stored and notified under the mutex.
SetValue(w, s) ==
    /\ pc[w] = "func" /\ setter[s] = w
    /\ alive[s] /\ ~stored[s] /\ holder[s] = None
    /\ stored' = [stored EXCEPT ![s] = TRUE]
    /\ ready' = [ready EXCEPT ![s] = TRUE]
    /\ pc' = Woken(s)
    /\ UNCHANGED <<arg, start, setter, alive, holder, exits>>

\* set_value_at_thread_exit, up to the registration: the mutex stays locked.
SetAtExit(w, s) ==
    /\ Goto(w, "func", "reg") /\ setter[s] = w
    /\ alive[s] /\ ~stored[s] /\ holder[s] = None
    /\ stored' = [stored EXCEPT ![s] = TRUE]
    /\ holder' = [holder EXCEPT ![s] = w]
    /\ at' = [at EXCEPT ![w] = s]
    /\ UNCHANGED <<arg, start, setter, alive, ready, table, num_used, blocks, exit, lost>>

\* The worker's entry goes to the first empty slot of block b.
Store(w, b) ==
    LET i == Min({j \in 1..Items : table[<<b, j>>] = None})
    IN  /\ table' = [table EXCEPT ![<<b, i>>] = [id |-> id[w], state |-> at[w], by |-> w]]
        /\ num_used' = [num_used EXCEPT ![b] = @ + 1]

(***************************************************************************)
(* _Cnd_register_at_thread_exit: the first block that is not full takes    *)
(* the entry; if there is none calloc makes one, or fails, and the entry   *)
(* is dropped without a word.                                              *)
(***************************************************************************)
Register(w) ==
    LET open == {b \in 1..blocks : num_used[b] # Items}
    IN  /\ Goto(w, "reg", "func")
        /\ exit = None
        /\ \/ open # {} /\ Store(w, Min(open)) /\ UNCHANGED <<blocks, lost>>
           \/ /\ open = {} /\ blocks < Blocks
              /\ blocks' = blocks + 1
              /\ Store(w, blocks + 1)
              /\ UNCHANGED lost
           \/ /\ open = {}
              /\ lost' = lost \cup {at[w]}
              /\ UNCHANGED <<table, num_used, blocks>>
        /\ at' = [at EXCEPT ![w] = None]
        /\ UNCHANGED <<arg, start, future, exit>>

-----------------------------------------------------------------------------
(* The end of a worker *)

\* The function returns to _Thrd_runner or _Invoke.
FunctionReturns(w) ==
    /\ Goto(w, "func", "b_lock")
    /\ UNCHANGED <<arg, start, future, exits>>

\* The function calls _Thrd_exit: the thread ends here.
ThrdExit(w) ==
    /\ Goto(w, "func", "exited")
    /\ UNCHANGED <<arg, start, future, exits>>

\* _Cnd_do_broadcast_at_thread_exit
BroadcastLock(w) ==
    /\ Goto(w, "b_lock", "b_scan")
    /\ exit = None
    /\ exit' = w
    /\ UNCHANGED <<arg, start, future, table, num_used, blocks, at, lost>>

\* Mutant: every entry.
Mine_All(w) ==
    { x \in Slots : x[1] <= blocks /\ num_used[x[1]] # 0 /\ table[x] # None }

\* The entries with the worker's identifier, as the loops find them.
Mine(w) ==
    { x \in Slots : /\ x[1] <= blocks /\ num_used[x[1]] # 0
                    /\ table[x] # None /\ table[x].id = id[w] }

Before(x, y) == x[1] < y[1] \/ (x[1] = y[1] /\ x[2] <= y[2])

BroadcastNext(w) ==
    /\ Mine(w) # {}
    /\ Goto(w, "b_scan", "b_ready")
    /\ at' = [at EXCEPT ![w] = CHOOSE x \in Mine(w) : \A y \in Mine(w) : Before(x, y)]
    /\ UNCHANGED <<arg, start, future, table, num_used, blocks, exit, lost>>

BroadcastReady(w) ==
    /\ Goto(w, "b_ready", "b_cnd")
    /\ ready' = [ready EXCEPT ![table[at[w]].state] = TRUE]
    /\ UNCHANGED <<arg, start, setter, alive, stored, holder, exits>>

BroadcastCnd(w) ==
    /\ pc[w] = "b_cnd"
    /\ pc' = [Woken(table[at[w]].state) EXCEPT ![w] = "b_unlock"]
    /\ UNCHANGED <<arg, start, future, exits>>

\* The mutex is unlocked and the slot emptied.
BroadcastUnlock(w) ==
    /\ Goto(w, "b_unlock", "b_scan")
    /\ holder' = [holder EXCEPT ![table[at[w]].state] = None]
    /\ table' = [table EXCEPT ![at[w]] = None]
    /\ num_used' = [num_used EXCEPT ![at[w][1]] = @ - 1]
    /\ at' = [at EXCEPT ![w] = None]
    /\ UNCHANGED <<arg, start, setter, alive, stored, ready, blocks, exit, lost>>

\* The thread procedure returns; _Invoke destroys the copy.
BroadcastEnds(w) ==
    /\ Mine(w) = {}
    /\ Goto(w, "b_scan", "ended")
    /\ exit' = None
    /\ tuple' = [tuple EXCEPT ![w] = IF @ = "live" THEN "gone" ELSE @]
    /\ UNCHANGED <<arg, frame, started, mtx, handle, id, future, table, num_used, blocks, at, lost>>

-----------------------------------------------------------------------------
(* Main waits for a future, and destroys the future and the promise.       *)

Wait(s) ==
    /\ alive[s]
    /\ Goto(Main, "idle", "f_lock")
    /\ arg' = s
    /\ UNCHANGED <<start, future, exits>>

\* _Wait: the mutex is locked, and while (!_Ready) _Cond.wait.
WaitTest ==
    /\ pc[Main] = "f_lock" /\ holder[arg] = None
    /\ IF ready[arg]
       THEN Goto(Main, "f_lock", "idle") /\ arg' = None
       ELSE Goto(Main, "f_lock", "f_sleep") /\ UNCHANGED arg
    /\ UNCHANGED <<start, future, exits>>

\* Mutant: a promise that has a value is let go.
Destroy_NoWait(s) ==
    /\ alive[s]
    /\ IF stored[s] THEN pc[setter[s]] # "reg" ELSE pc[setter[s]] \in {"none", "ended", "exited"}
    /\ IF ready[s] \/ stored[s]
       THEN /\ pc[Main] = "idle"
            /\ alive' = [alive EXCEPT ![s] = FALSE]
            /\ UNCHANGED <<pc, arg>>
       ELSE /\ Goto(Main, "idle", "p_lock")
            /\ arg' = s
            /\ UNCHANGED alive
    /\ UNCHANGED <<start, setter, stored, ready, holder, exits>>

(***************************************************************************)
(* ~promise once the future is gone: _Ready is read without the mutex.  If *)
(* it is set the state is released, and ~_Associated_state, which reads it *)
(* as well, does not unregister anything.                                  *)
(***************************************************************************)
Destroy(s) ==
    /\ alive[s]
    /\ IF stored[s] THEN pc[setter[s]] # "reg" ELSE pc[setter[s]] \in {"none", "ended", "exited"}
    /\ IF ready[s]
       THEN /\ pc[Main] = "idle"
            /\ alive' = [alive EXCEPT ![s] = FALSE]
            /\ UNCHANGED <<pc, arg>>
       ELSE /\ Goto(Main, "idle", "p_lock")
            /\ arg' = s
            /\ UNCHANGED alive
    /\ UNCHANGED <<start, setter, stored, ready, holder, exits>>

(***************************************************************************)
(* _Set_exception in ~promise: with the mutex, the exception is stored for *)
(* a promise that was not set; for one that was, promise_already_satisfied *)
(* leaves a destructor that is noexcept, and the program terminates.       *)
(***************************************************************************)
DestroyUnset ==
    /\ pc[Main] = "p_lock" /\ holder[arg] = None
    /\ IF stored[arg]
       THEN Goto(Main, "p_lock", "terminated") /\ UNCHANGED <<arg, alive, stored, ready>>
       ELSE /\ Goto(Main, "p_lock", "idle")
            /\ arg' = None
            /\ stored' = [stored EXCEPT ![arg] = TRUE]
            /\ ready' = [ready EXCEPT ![arg] = TRUE]
            /\ alive' = [alive EXCEPT ![arg] = FALSE]
    /\ UNCHANGED <<start, setter, holder, exits>>

-----------------------------------------------------------------------------
\* A call of Main goes on.
MainStep ==
    \/ ThrdStart \/ ThrdStartFails \/ ThrdTest \/ ThrdWake
    \/ Start \/ StartRelease \/ StartFails \/ Joined
    \/ WaitTest \/ DestroyUnset

MainCall ==
    \/ \E w \in Workers : ThrdCreate(w) \/ StartCopy(w) \/ Join(w) \/ Detach(w)
    \/ \E s \in States : Wait(s) \/ Destroy(s)

WorkerStep(w) ==
    \/ RunnerCopy(w) \/ RunnerLock(w) \/ RunnerStarted(w) \/ RunnerSignal(w) \/ RunnerUnlock(w)
    \/ \E s \in States : SetValue(w, s) \/ SetAtExit(w, s)
    \/ Register(w) \/ FunctionReturns(w) \/ ThrdExit(w)
    \/ BroadcastLock(w) \/ BroadcastNext(w) \/ BroadcastReady(w) \/ BroadcastCnd(w)
    \/ BroadcastUnlock(w) \/ BroadcastEnds(w)

Next ==
    /\ pc[Main] # "terminated"
    /\ MainStep \/ MainCall \/ Spurious \/ \E w \in Workers : WorkerStep(w)

(***************************************************************************)
(* Threads are scheduled, the functions of the workers end, and a worker   *)
(* gets the mutex of the handshake that is free again and again.  Wake-ups *)
(* for no reason and new calls of Main are not relied on.                  *)
(***************************************************************************)
Fairness ==
    /\ WF_vars(pc[Main] # "terminated" /\ MainStep)
    /\ \A w \in Workers : /\ WF_vars(pc[Main] # "terminated" /\ WorkerStep(w))
                          /\ SF_vars(RunnerLock(w))

Spec == Init /\ [][Next]_vars /\ Fairness

-----------------------------------------------------------------------------
(* Properties *)

(***************************************************************************)
(* The runner uses the binder, started, the mutex and the condition        *)
(* variable on its creator's stack only while _Thrd_create has not         *)
(* returned, though a wake-up for no reason may bring the creator back at  *)
(* any time; and a std::thread has its function until it ends, whichever   *)
(* of _Start and _Invoke comes last.                                       *)
(***************************************************************************)
FrameAlive ==
    \A w \in Workers :
        /\ pc[w] \in {"copy", "lock", "started", "signal", "unlock"} => frame[w] = "live"
        /\ handle[w] # "none" /\ pc[w] \notin {"ended", "exited"} => tuple[w] # "gone"

Broadcasts(w, x) == pc[w] \in {"b_ready", "b_cnd", "b_unlock"} /\ at[w] = x

(***************************************************************************)
(* The exit table: num_used is exact, so that a block counts as full only  *)
(* if it is and no loop stops early; a state is registered once, by the    *)
(* thread that holds its mutex; and it is not destroyed while it is        *)
(* registered.  The one exception is between *res = 1 and the unlock of    *)
(* the broadcast, where ~promise, which does not lock, may come first.     *)
(***************************************************************************)
TableExact ==
    /\ \A b \in 1..Blocks :
           num_used[b] = Cardinality({i \in 1..Items : table[<<b, i>>] # None})
    /\ \A x \in Slots : table[x] # None =>
           LET s == table[x].state
           IN  /\ holder[s] = table[x].by
               /\ \A y \in Slots \ {x} : table[y] # None => table[y].state # s
               /\ ~alive[s] => \E w \in Workers : Broadcasts(w, x) /\ pc[w] # "b_ready"

(***************************************************************************)
(* A promise set at thread exit is released by its own thread, and by the  *)
(* time that thread has ended.  Only a thread that called _Thrd_exit, or   *)
(* that found no memory to register, leaves its mutex locked; an entry of  *)
(* the former is taken by the next thread with its identifier.             *)
(***************************************************************************)
ReleasedAtExit ==
    /\ \A s \in States \ lost :
           holder[s] \in Workers => pc[holder[s]] # "ended"
    /\ \A w \in Workers, x \in Slots :
           Broadcasts(w, x) => table[x].by = w \/ pc[table[x].by] = "exited"

Waits(s) == pc[Main] \in {"f_lock", "f_sleep"} /\ arg = s

Abandoned(s) == holder[s] \in Workers /\ pc[holder[s]] = "exited"

Registered(s) == \E x \in Slots : table[x] # None /\ table[x].state = s

(***************************************************************************)
(* _Thrd_create returns: no wake-up is lost in the handshake.  A join      *)
(* returns once the thread ends, as it does though others hold the exit    *)
(* table.  A wait for a future whose thread registered it returns, unless  *)
(* the thread then calls _Thrd_exit.                                       *)
(***************************************************************************)
CallsReturn ==
    /\ pc[Main] \in {"c_start", "c_test", "c_sleep", "c_wake", "join"} ~> pc[Main] = "idle"
    /\ \A s \in States : Waits(s) /\ Registered(s) ~> ~Waits(s) \/ Abandoned(s)
=============================================================================
