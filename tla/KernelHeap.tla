------------------------------ MODULE KernelHeap ------------------------------
(***************************************************************************)
(* The allocator on the kernel pool: kmalloc, kcalloc, krealloc, krecalloc *)
(* (kext/kmalloc.cpp), kfree, the operators new and delete that take a     *)
(* pool (new_km.cpp, delete_km.cpp) and kallocator, with the new mode and  *)
(* the new handler of the UCRT, which other threads set at any time.       *)
(*                                                                         *)
(* One call is followed through its loops: kcalloc and operator new retry  *)
(* around kmalloc, which retries by itself, so that a handler is called at *)
(* two levels.  size_t has its width; a block is kept as its real size,    *)
(* what its owner asked for, and how far it holds data or zeros.           *)
(***************************************************************************)
EXTENDS Naturals, FiniteSets, FiniteSetsExt

CONSTANTS
    Width,      \* the bits of size_t (64)
    MaxReq,     \* _HEAP_MAXREQ (2^64 - 32)
    Blocks,     \* the addresses the pool gives out
    Null        \* nullptr

SizeMax == 2^Width - 1
Size    == 0 .. SizeMax

Exceptions == {"bad_alloc", "bad_array_new_length"}

ASSUME HeapAssumption ==
    /\ Width \in Nat \ {0}
    /\ MaxReq \in 1 .. (SizeMax - 1)
    /\ IsFiniteSet(Blocks) /\ Null \notin Blocks
    /\ \A e \in Exceptions : e \notin Blocks /\ e # Null

VARIABLES
    pool,       \* the blocks that are allocated, a function on a subset of Blocks
    owned,      \* the blocks that callers hold
    pc,         \* the step of the call
    fn,         \* the function that was called
    level,      \* the function whose loop is running
    block,      \* the argument block of krealloc
    old,        \*   old_size
    size,       \*   and the size asked for, after every multiplication
    asked,      \* the size the caller meant, not cut to the width of size_t
    result      \* of the last call: a block, Null or an exception

call == <<fn, block, old, size, asked>>
vars == <<pool, owned, pc, fn, level, block, old, size, asked, result>>

Live == DOMAIN pool

(***************************************************************************)
(* A block: its size in the pool; what its owner asked for; the bytes from *)
(* the start that hold the owner's data; from where on all is zero.        *)
(***************************************************************************)
Fresh(n, zeroed) ==
    [real |-> n, user |-> asked, data |-> 0, zero |-> IF zeroed THEN 0 ELSE n]

Init ==
    /\ pool = << >>
    /\ owned = {}
    /\ pc = "idle"
    /\ fn = "none" /\ level = "none"
    /\ block = Null
    /\ old = 0 /\ size = 0 /\ asked = 0
    /\ result = Null

With(f, b, v) == [x \in DOMAIN f \cup {b} |-> IF x = b THEN v ELSE f[x]]
Without(f, b) == [x \in DOMAIN f \ {b} |-> f[x]]

\* size_t multiplication.
Times(m, n) == (m * n) % 2^Width

\* Mutant: no test.
Fits_Dropped(count, n) == TRUE

\* The test for overflow of kcalloc and krecalloc.
Fits(count, n) == count = 0 \/ MaxReq \div count >= n

-----------------------------------------------------------------------------
(* The calls.  They leave a block in the pool for the call itself: a bound *)
(* of the model, not of the code.                                          *)

Begin(f, b, o, n, want) ==
    /\ pc = "idle"
    /\ Cardinality(Live) < Cardinality(Blocks)
    /\ fn' = f
    /\ block' = b
    /\ old' = o
    /\ size' = n
    /\ asked' = want
    /\ result' = Null
    /\ UNCHANGED <<pool, owned>>

At(step, function) == pc' = step /\ level' = function

\* kmalloc is entered with n, by a caller or from another function.
EnterMalloc(n) == At(IF n > MaxReq THEN "fail" ELSE "alloc", "kmalloc")

KMalloc(n) ==
    /\ Begin("kmalloc", Null, 0, n, n)
    /\ EnterMalloc(n)

KCalloc(count, n) ==
    LET requested == Times(count, n)
        actual    == IF requested = 0 THEN 1 ELSE requested
    IN  /\ Begin("kcalloc", Null, 0, actual, count * n)
        /\ IF Fits(count, n) THEN EnterMalloc(actual) ELSE At("null", "kcalloc")

\* krealloc is entered with block b and size n.
EnterRealloc(b, n) ==
    IF b = Null THEN EnterMalloc(n)
    ELSE At(CASE n = 0      -> "free"
              [] n > MaxReq -> "null"
              [] OTHER      -> "alloc", "krealloc")

\* A caller knows the size of its block.
KRealloc(b, n) ==
    /\ b \in owned \cup {Null}
    /\ Begin("krealloc", b, IF b = Null THEN 0 ELSE pool[b].user, n, n)
    /\ EnterRealloc(b, n)

\* It knows how many elements of which size the block holds, too.
KRecalloc(b, count, o, n) ==
    /\ b \in owned \cup {Null}
    /\ b \in owned => count * o = pool[b].user
    /\ Begin("krecalloc", b, IF b = Null THEN 0 ELSE Times(count, o), Times(count, n), count * n)
    /\ IF Fits(count, n) THEN EnterRealloc(b, Times(count, n)) ELSE At("null", "krecalloc")

\* operator new(size, pool, tag).
New(n) ==
    /\ Begin("new", Null, 0, n, n)
    /\ EnterMalloc(n)

\* kallocator::allocate, with _Get_size_of_n, for elements of e bytes.
Allocate(count, e) ==
    /\ e > 0
    /\ Begin("new", Null, 0, Times(count, e), count * e)
    /\ IF e > 1 /\ count > SizeMax \div e
       THEN At("throw", "new")
       ELSE EnterMalloc(Times(count, e))

\* kfree, operator delete, kallocator::deallocate.
KFree(b) ==
    /\ pc = "idle"
    /\ b \in owned
    /\ pool' = Without(pool, b)
    /\ owned' = owned \ {b}
    /\ result' = Null
    /\ UNCHANGED <<pc, level, call>>

\* The owner writes all of its block.
Fill(b) ==
    /\ pc = "idle"
    /\ b \in owned
    /\ pool' = [pool EXCEPT ![b].data = pool[b].user, ![b].zero = Max({@, pool[b].user})]
    /\ result' = Null
    /\ UNCHANGED <<owned, pc, level, call>>

-----------------------------------------------------------------------------
(* The loops *)

Return(r) ==
    /\ At("idle", "none")
    /\ result' = r
    /\ fn' = "none" /\ block' = Null
    /\ old' = 0 /\ size' = 0 /\ asked' = 0

Keep == UNCHANGED <<pool, owned>>

(***************************************************************************)
(* ExAllocatePoolWithTag in kmalloc gives out a block.  kcalloc clears it, *)
(* and so does krecalloc for what is new.                                  *)
(***************************************************************************)
PoolAllocates(b) ==
    /\ pc = "alloc" /\ level = "kmalloc"
    /\ b \notin Live
    /\ pool' = With(pool, b, Fresh(IF size = 0 THEN 1 ELSE size,
                                   fn = "kcalloc" \/ (fn = "krecalloc" /\ size > 0)))
    /\ owned' = owned \cup {b}
    /\ Return(b)

\* Mutant: the old size even if the new one is smaller.
Copied_Old == old

\* The bytes ExReallocatePoolWithTag copies.
Copied == IF size < old THEN size ELSE old

\* Mutant: the old block is not freed.
Reallocates_Leaks(b) ==
    /\ pc = "alloc" /\ level = "krealloc"
    /\ old # 0
    /\ b \notin Live
    /\ LET o == pool[block]
       IN  pool' = With(pool, b,
                        [real |-> size, user |-> asked,
                         data |-> Min({o.data, Copied}), zero |-> Min({o.zero, Copied})])
    /\ owned' = (owned \ {block}) \cup {b}
    /\ Return(b)

\* Mutant: a block is not made larger.
Reallocates_NoGrowth(b) ==
    /\ pc = "alloc" /\ level = "krealloc"
    /\ old >= size
    /\ b \notin Live
    /\ LET o == pool[block]
       IN  pool' = With(Without(pool, block), b,
                        [real |-> size, user |-> asked,
                         data |-> Min({o.data, Copied}), zero |-> Min({o.zero, Copied})])
    /\ owned' = (owned \ {block}) \cup {b}
    /\ Return(b)

(***************************************************************************)
(* ExReallocatePoolWithTag: the new block is cleared, the old one copied   *)
(* and freed.  krecalloc clears what is new once more.                     *)
(***************************************************************************)
Reallocates(b) ==
    /\ pc = "alloc" /\ level = "krealloc"
    /\ old # 0
    /\ b \notin Live
    /\ LET o == pool[block]
       IN  pool' = With(Without(pool, block), b,
                        [real |-> size, user |-> asked,
                         data |-> Min({o.data, Copied}), zero |-> Min({o.zero, Copied})])
    /\ owned' = (owned \ {block}) \cup {b}
    /\ Return(b)

\* The pool has no memory, or the old size is 0.
Refused ==
    /\ pc = "alloc"
    /\ At("mode", level)
    /\ Keep /\ UNCHANGED <<call, result>>

\* Mutant: any size that kmalloc refuses counts as an overflow.
GiveUp_AnyLarge ==
    IF level = "kmalloc" /\ fn \in {"kcalloc", "new"}
    THEN /\ At(IF fn = "new" THEN "handler" ELSE "mode", fn)
         /\ UNCHANGED <<call, result>>
    ELSE Return(IF level # "new" THEN Null
                ELSE IF size > MaxReq THEN "bad_array_new_length" ELSE "bad_alloc")

(***************************************************************************)
(* The function whose loop is running gives up.  kmalloc returns nullptr   *)
(* to the function that called it, which looks for a handler of its own;   *)
(* operator new does so whatever the mode, and throws.                     *)
(***************************************************************************)
GiveUp ==
    IF level = "kmalloc" /\ fn \in {"kcalloc", "new"}
    THEN /\ At(IF fn = "new" THEN "handler" ELSE "mode", fn)
         /\ UNCHANGED <<call, result>>
    ELSE Return(IF level # "new" THEN Null
                ELSE IF size = SizeMax THEN "bad_array_new_length" ELSE "bad_alloc")

\* kmalloc refuses a size above _HEAP_MAXREQ.
TooLarge == pc = "fail" /\ GiveUp /\ Keep

\* A check before the first allocation fails.
Overflow ==
    /\ pc \in {"null", "throw"}
    /\ Return(IF pc = "null" THEN Null ELSE "bad_array_new_length")
    /\ Keep

\* krealloc to 0 bytes frees the block.
FreeInstead ==
    /\ pc = "free"
    /\ pool' = Without(pool, block)
    /\ owned' = owned \ {block}
    /\ Return(Null)

(***************************************************************************)
(* _query_new_mode, and _callnewh with the handler of the moment.  Other   *)
(* threads set both at any time: any value may be read.                    *)
(***************************************************************************)
QueryNewMode(m) ==
    /\ pc = "mode"
    /\ IF m = 0 THEN GiveUp ELSE At("handler", level) /\ UNCHANGED <<call, result>>
    /\ Keep

\* There is no handler, or it returns 0.
HandlerFails == pc = "handler" /\ GiveUp /\ Keep

\* The handler returns 1: the loop starts over.
HandlerSucceeds ==
    /\ pc = "handler"
    /\ IF level = "krealloc" THEN At("alloc", level) ELSE EnterMalloc(size)
    /\ Keep /\ UNCHANGED <<call, result>>

\* "The new handler may throw std::bad_alloc."
HandlerThrows == pc = "handler" /\ Return("bad_alloc") /\ Keep

Step ==
    \/ Refused \/ TooLarge \/ Overflow \/ FreeInstead
    \/ HandlerFails \/ HandlerSucceeds \/ HandlerThrows
    \/ \E m \in {0, 1} : QueryNewMode(m)
    \/ \E b \in Blocks : PoolAllocates(b) \/ Reallocates(b)

Call ==
    \/ \E n \in Size : KMalloc(n) \/ New(n)
    \/ \E count, n \in Size : KCalloc(count, n) \/ Allocate(count, n)
    \/ \E b \in Blocks \cup {Null}, n \in Size : KRealloc(b, n)
    \/ \E b \in Blocks \cup {Null}, count, o, n \in Size : KRecalloc(b, count, o, n)
    \/ \E b \in Blocks : KFree(b) \/ Fill(b)

Next == Call \/ Step

(***************************************************************************)
(* The code goes on, and the pool does not refuse the same request for     *)
(* ever.  Nothing is assumed of the handler.                               *)
(***************************************************************************)
Fairness ==
    /\ WF_vars(Step)
    /\ SF_vars(\E b \in Blocks : PoolAllocates(b))
    /\ SF_vars(\E b \in Blocks : Reallocates(b))

Spec == Init /\ [][Next]_vars /\ Fairness

-----------------------------------------------------------------------------
(* Properties *)

(***************************************************************************)
(* A block that kmalloc, kcalloc, krealloc, krecalloc or kallocator hands  *)
(* out is as large as its caller meant: where count * size does not fit in *)
(* a size_t the call fails, and where it wraps to a small number no block  *)
(* of that number is returned.  What krealloc copies is inside the old     *)
(* block and the new.                                                      *)
(***************************************************************************)
BigEnough ==
    /\ \A b \in Live : pool[b].real >= pool[b].user /\ pool[b].real \in 1..MaxReq
    /\ pc = "alloc" /\ level = "krealloc" => Copied <= pool[block].real /\ Copied <= size

(***************************************************************************)
(* Nothing leaks and nothing is freed under its owner: the blocks of the   *)
(* pool are those that callers hold, at every step of the loops, and a     *)
(* krealloc that has not returned still has its old block.                 *)
(***************************************************************************)
Accounted ==
    /\ Live = owned
    /\ pc # "idle" => block \in owned \cup {Null}

(***************************************************************************)
(* What krealloc and krecalloc do to a block: if they return another, it   *)
(* holds as much of the data as fits and zeros after the old size; if they *)
(* return nullptr the old block is untouched, unless 0 bytes were asked.   *)
(***************************************************************************)
ReallocKeeps ==
    [][block # Null /\ pc' = "idle" =>
         LET o == pool[block]
         IN  IF result' \in Blocks
             THEN /\ pool'[result'].data = Min({o.data, asked})
                  /\ pool'[result'].zero <= o.user
                  /\ block \notin DOMAIN pool'
             ELSE IF asked = 0 THEN block \notin DOMAIN pool' ELSE pool' = pool]_vars

(***************************************************************************)
(* operator new never returns nullptr; it throws bad_array_new_length only *)
(* for a size that stands for an overflow, and kmalloc and its siblings    *)
(* throw only what a handler throws.                                       *)
(***************************************************************************)
NewThrows ==
    [][pc # "idle" /\ pc' = "idle" =>
         /\ fn = "new" => result' # Null
         /\ result' = "bad_array_new_length" => fn = "new" /\ asked >= SizeMax
         /\ result' = "bad_alloc" /\ fn # "new" => pc = "handler"]_vars

\* No memory can help: krealloc of a block of 0 bytes, new of too many.
Hopeless ==
    \/ level = "krealloc" /\ old = 0
    \/ fn = "new" /\ size > MaxReq

(***************************************************************************)
(* Every call ends, though a handler that always succeeds makes its loops  *)
(* go round, unless no memory can help: those two loop as long as the      *)
(* handler succeeds.                                                       *)
(***************************************************************************)
CallsEnd == pc # "idle" /\ ~Hopeless ~> pc = "idle"
=============================================================================
