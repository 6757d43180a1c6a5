---------------------------- MODULE OnexitTable ----------------------------
(***************************************************************************)
(* The table of atexit callbacks, _onexit_table_t: _initialize_onexit_table,*)
(* _register_onexit_function and _execute_onexit_table (startup/onexit.cpp) *)
(* as the runtime's _onexit, atexit (vcruntime/utility.cpp) and _cexit use  *)
(* them.                                                                   *)
(*                                                                         *)
(* A driver registers one callback for every static object with a          *)
(* destructor, its threads may register more, and so may a callback that   *)
(* is being run.  The table lives in a heap block that moves when it grows;*)
(* the loop that runs the callbacks keeps pointers into it across each     *)
(* call.                                                                   *)
(***************************************************************************)
EXTENDS Integers, Sequences, FiniteSets, FiniteSetsExt, SequencesExt

CONSTANTS
    Threads,
    NoThread,           \* nobody holds the exit lock
    InitialCount,       \* initial_table_count (32)
    MinimumIncrement,   \* minimum_table_increment (4)
    MaximumIncrement,   \* maximum_table_increment (512)
    MaxRegistered,      \* bound: how many times atexit is called
    MaxRuns             \* bound: how often the table is executed

ASSUME OnexitAssumption ==
    /\ NoThread \notin Threads
    /\ InitialCount \in Nat \ {0}
    /\ MinimumIncrement \in Nat \ {0}
    /\ MaximumIncrement \in Nat \ {0}
    /\ MaxRegistered \in Nat /\ MaxRuns \in Nat

VARIABLES
    block,      \* the heap block at table->_first; 0 is nullptr
    cells,      \* its contents up to table->_end; 0 is the encoded nullptr
    used,       \* table->_last - table->_first
    live,       \* the blocks allocated and not freed
    blocks,     \* the number of blocks ever allocated
    lock,       \* the thread that holds the exit lock
    pc,         \* of that thread: "scan", "callback", or "none"
    first,      \* the local pointers of _execute_onexit_table: a block and
    last,       \*   an offset in it, and the
    saved,      \*   pair <<saved_first, saved_last>>
    next,       \* history: the callbacks registered are 1 .. next - 1
    ran,        \* history: the callbacks in the order they were run
    runs        \* history: how often the table was executed

table  == <<block, cells, used, live, blocks>>
locals == <<first, last, saved>>
vars   == <<block, cells, used, live, blocks, lock, pc, first, last, saved, next, ran, runs>>

\* __acrt_initialize: _initialize_onexit_table of a table that is all null.
Init ==
    /\ block = 0 /\ cells = <<>> /\ used = 0 /\ live = {} /\ blocks = 0
    /\ lock = NoThread /\ pc = "none"
    /\ first = 0 /\ last = 0 /\ saved = <<0, 0>>
    /\ next = 1 /\ ran = <<>> /\ runs = 0

\* The critical section is recursive: a callback that t runs may call atexit.
CanLock(t) == lock = NoThread \/ (lock = t /\ pc = "callback")

-----------------------------------------------------------------------------
(* _register_onexit_function *)

(***************************************************************************)
(* The sizes tried when the table is full: twice the old size, or at most  *)
(* MaximumIncrement more (InitialCount for an empty table), and if that    *)
(* cannot be allocated MinimumIncrement more.                              *)
(***************************************************************************)
GrowthCounts(old) ==
    { IF old = 0 THEN InitialCount
      ELSE old + (IF old > MaximumIncrement THEN MaximumIncrement ELSE old),
      old + MinimumIncrement }

Register_PastEnd(t) ==
    /\ CanLock(t)
    /\ next <= MaxRegistered
    /\ block # 0 /\ used <= Len(cells)
    /\ cells' = [i \in 1..Len(cells) |-> IF i = used + 1 THEN next ELSE cells[i]]
    /\ used' = used + 1
    /\ next' = next + 1
    /\ UNCHANGED <<block, live, blocks, lock, pc, locals, ran, runs>>

\* There is room for the callback.
Register(t) ==
    /\ CanLock(t)
    /\ next <= MaxRegistered
    /\ used < Len(cells)
    /\ cells' = [cells EXCEPT ![used + 1] = next]
    /\ used' = used + 1
    /\ next' = next + 1
    /\ UNCHANGED <<block, live, blocks, lock, pc, locals, ran, runs>>

RegisterGrow_KeepOld(t, count, moves) ==
    /\ CanLock(t)
    /\ next <= MaxRegistered
    /\ used = Len(cells)
    /\ block = 0 => moves
    /\ block' = IF moves THEN blocks + 1 ELSE block
    /\ live' = live \cup {block'}
    /\ blocks' = IF moves THEN blocks + 1 ELSE blocks
    /\ cells' = [i \in 1..count |-> IF i <= used THEN cells[i]
                                    ELSE IF i = used + 1 THEN next ELSE 0]
    /\ used' = used + 1
    /\ next' = next + 1
    /\ UNCHANGED <<lock, pc, locals, ran, runs>>

(***************************************************************************)
(* The table is full: _recalloc_crt_t grows the block, in place or by      *)
(* moving it to a new one, and the new cells hold the encoded nullptr.     *)
(* Which size succeeds, and whether the block moves, is the heap's choice. *)
(***************************************************************************)
RegisterGrow(t, count, moves) ==
    /\ CanLock(t)
    /\ next <= MaxRegistered
    /\ used = Len(cells)
    /\ block = 0 => moves
    /\ block' = IF moves THEN blocks + 1 ELSE block
    /\ live' = IF moves THEN (live \ {block}) \cup {blocks + 1} ELSE live
    /\ blocks' = IF moves THEN blocks + 1 ELSE blocks
    /\ cells' = [i \in 1..count |-> IF i <= used THEN cells[i]
                                    ELSE IF i = used + 1 THEN next ELSE 0]
    /\ used' = used + 1
    /\ next' = next + 1
    /\ UNCHANGED <<lock, pc, locals, ran, runs>>

-----------------------------------------------------------------------------
(* _execute_onexit_table *)

\* Enter: take the exit lock and load first and last; a null table is done.
Execute(t) ==
    /\ lock = NoThread
    /\ runs < MaxRuns
    /\ runs' = runs + 1
    /\ block # 0
    /\ lock' = t
    /\ pc' = "scan"
    /\ first' = block /\ last' = used /\ saved' = <<block, used>>
    /\ UNCHANGED <<table, next, ran>>

\* The offsets before last that hold a callback.
Valid == { i \in 1..last : cells[i] # 0 }

CallLast_NotVisited(t) ==
    /\ lock = t /\ pc = "scan"
    /\ Valid # {}
    /\ LET i == Max(Valid)
       IN  /\ last' = i - 1
           /\ cells' = cells
           /\ ran' = Append(ran, cells[i])
    /\ pc' = "callback"
    /\ UNCHANGED <<block, used, live, blocks, lock, first, saved, next, runs>>

CallLast_FirstIn(t) ==
    /\ lock = t /\ pc = "scan"
    /\ Valid # {}
    /\ LET i == Min(Valid)
       IN  /\ cells' = [cells EXCEPT ![i] = 0]
           /\ ran' = Append(ran, cells[i])
    /\ pc' = "callback"
    /\ UNCHANGED <<block, used, live, blocks, lock, first, last, saved, next, runs>>

(***************************************************************************)
(* Step back to the last valid callback, mark it visited, call it.  The    *)
(* exit lock stays held while the callback runs.                           *)
(***************************************************************************)
CallLast(t) ==
    /\ lock = t /\ pc = "scan"
    /\ Valid # {}
    /\ LET i == Max(Valid)
       IN  /\ last' = i - 1
           /\ cells' = [cells EXCEPT ![i] = 0]
           /\ ran' = Append(ran, cells[i])
    /\ pc' = "callback"
    /\ UNCHANGED <<block, used, live, blocks, lock, first, saved, next, runs>>

\* The callback returns: start over if it moved the table or registered.
CallbackReturns(t) ==
    /\ lock = t /\ pc = "callback"
    /\ pc' = "scan"
    /\ IF <<block, used>> # saved
         THEN first' = block /\ last' = used /\ saved' = <<block, used>>
         ELSE UNCHANGED locals
    /\ UNCHANGED <<table, lock, next, ran, runs>>

Finish_KeepLock(t) ==
    /\ lock = t /\ pc = "scan"
    /\ Valid = {}
    /\ live' = live \ {first}
    /\ block' = 0 /\ cells' = <<>> /\ used' = 0
    /\ pc' = "none"
    /\ first' = 0 /\ last' = 0 /\ saved' = <<0, 0>>
    /\ UNCHANGED <<lock, blocks, next, ran, runs>>

\* No callback is left: free the block, reset the table, release the lock.
Finish(t) ==
    /\ lock = t /\ pc = "scan"
    /\ Valid = {}
    /\ live' = live \ {first}
    /\ block' = 0 /\ cells' = <<>> /\ used' = 0
    /\ lock' = NoThread
    /\ pc' = "none"
    /\ first' = 0 /\ last' = 0 /\ saved' = <<0, 0>>
    /\ UNCHANGED <<blocks, next, ran, runs>>

RunnerStep(t) == CallLast(t) \/ CallbackReturns(t) \/ Finish(t)

Next ==
    \E t \in Threads :
        \/ Register(t)
        \/ \E count \in GrowthCounts(Len(cells)), moves \in BOOLEAN :
              RegisterGrow(t, count, moves)
        \/ Execute(t)
        \/ RunnerStep(t)

(***************************************************************************)
(* The callbacks of a driver return, and the thread that runs them is not  *)
(* kept from running.                                                      *)
(***************************************************************************)
Fairness ==
    \A t \in Threads : WF_vars(RunnerStep(t))

Spec == Init /\ [][Next]_vars /\ Fairness

-----------------------------------------------------------------------------
(* Properties *)

Callbacks == 1..MaxRegistered

\* Types; the table's pointers stay within its block.
TypeOK ==
    /\ block \in 0..blocks /\ live \subseteq 1..blocks
    /\ cells \in Seq(Callbacks \cup {0})
    /\ used \in 0..Len(cells)
    /\ lock \in Threads \cup {NoThread}
    /\ pc \in {"none", "scan", "callback"}
    /\ next \in 1..(MaxRegistered + 1)
    /\ ran \in Seq(Callbacks)

\* The callbacks the table holds.
Waiting == { cells[i] : i \in 1..used } \ {0}

(***************************************************************************)
(* Every callback registered is either waiting in the table or was run,    *)
(* and it is run once only: neither growing the table, nor registering     *)
(* from a callback, nor starting the scan over loses or repeats one.       *)
(***************************************************************************)
EachOnce ==
    /\ IsInjective(ran)
    /\ Waiting = (1..(next - 1)) \ ToSet(ran)

(***************************************************************************)
(* The table's block is the only one allocated, so that growing and        *)
(* resetting leak none, and the loop that runs the callbacks never scans   *)
(* a block that was freed under it.                                        *)
(***************************************************************************)
BlockSafe ==
    /\ live = {block} \ {0}
    /\ pc = "scan" => first = block /\ last <= used

S == INSTANCE ExitStack WITH count <- next - 1, waiting <- Waiting, runner <- lock

(***************************************************************************)
(* The table is a stack: callbacks run in the reverse order of their       *)
(* registration, and the run ends only when none is left.                  *)
(***************************************************************************)
StackSpec == S!Spec

(***************************************************************************)
(* _execute_onexit_table comes to its end and releases the exit lock,      *)
(* although callbacks register further callbacks.                          *)
(***************************************************************************)
ExecutionEnds == lock # NoThread ~> lock = NoThread
=============================================================================
