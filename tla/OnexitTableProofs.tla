------------------------- MODULE OnexitTableProofs -------------------------
(***************************************************************************)
(* Proofs about OnexitTable, for any threads, any sizes of the table and   *)
(* its increments, and any number of callbacks.                            *)
(***************************************************************************)
EXTENDS OnexitTable, WellFoundedInduction, TLAPS

\* The callbacks in the table are in the order they were registered in, and
\* only those that were registered are in it or were run.
OrderInv ==
    /\ \A i \in 1..used : cells[i] < next
    /\ \A i \in DOMAIN ran : ran[i] < next
    /\ \A i, j \in 1..used : i < j /\ cells[i] # 0 /\ cells[j] # 0 => cells[i] < cells[j]

\* Nothing is left from offset m on.
VisitedFrom(m) == \A i \in 1..used : i > m => cells[i] = 0

(***************************************************************************)
(* The local pointers of _execute_onexit_table: while it scans they are in *)
(* the table's block, and while a callback runs they are if the table has  *)
(* as many callbacks as before, since whatever moves it registers one.     *)
(***************************************************************************)
LocalsInv ==
    /\ first \in Nat /\ last \in Nat /\ saved \in Nat \X Nat
    /\ pc = "scan" => saved = <<block, used>>
    /\ pc = "callback" => saved[2] <= used
    /\ pc # "none" /\ saved[2] = used =>
         /\ saved[1] = block /\ first = block
         /\ last <= used
         /\ VisitedFrom(last)

\* The block is there when the loop runs, and a table without one is empty.
BlockInv ==
    /\ blocks \in Nat
    /\ live = {block} \ {0}
    /\ block = 0 => cells = <<>>
    /\ pc # "none" => block # 0
    /\ lock = NoThread <=> pc = "none"

IInv == TypeOK /\ EachOnce /\ OrderInv /\ LocalsInv /\ BlockInv

USE OnexitAssumption DEF Callbacks

-----------------------------------------------------------------------------
(* Facts about the operators *)

\* A set of offsets has a largest one.
LEMMA MaxOfOffsets ==
  ASSUME NEW n \in Nat, NEW T, T \subseteq 1..n, T # {}
  PROVE  Max(T) \in T /\ \A i \in T : i <= Max(T)
  <1> DEFINE D == { n - i : i \in T }
             R == { p \in Nat \X Nat : p[1] < p[2] }
  <1>1. D \subseteq Nat /\ D # {}
    <2>1. \A i \in T : n - i \in Nat
      OBVIOUS
    <2> QED
      BY <2>1
  <1>2. IsWellFoundedOn(R, Nat)
    BY NatLessThanWellFounded, Zenon DEF OpToRel
  <1>3. PICK d \in D : \A e \in D : ~(<<e, d>> \in R)
    <2> HIDE DEF D, R
    <2> QED
      BY <1>1, <1>2, WFMin
  <1>4. \A e \in D : d <= e
    <2> TAKE e \in D
    <2>1. d \in Nat /\ e \in Nat
      BY <1>1
    <2>2. e < d => <<e, d>> \in R
      <3> HIDE DEF D
      <3> QED
        BY <2>1
    <2> QED
      BY <1>3, <2>1, <2>2
  <1>5. PICK m \in T : d = n - m
    OBVIOUS
  <1>6. \A i \in T : m >= i
    <2> TAKE i \in T
    <2>1. n - i \in D
      OBVIOUS
    <2>2. n - m <= n - i
      BY <1>4, <1>5, <2>1
    <2>3. n \in Int /\ m \in Int /\ i \in Int
      OBVIOUS
    <2> HIDE DEF D, R
    <2> QED
      BY <2>2, <2>3
  <1>7. \E x \in T : \A y \in T : x >= y
    BY <1>6
  <1>8. Max(T) \in T /\ \A y \in T : Max(T) >= y
    BY <1>7 DEF Max
  <1> QED
    BY <1>8

\* Every growth makes room for one more callback.
LEMMA GrowthMakesRoom ==
  ASSUME NEW n \in Nat, NEW c \in GrowthCounts(n)
  PROVE  c \in Nat /\ c > n
  BY DEF GrowthCounts

\* A callback that was not run yet is added to a run without repetition.
LEMMA RunOnce ==
  ASSUME ran \in Seq(Callbacks), IsInjective(ran), NEW f \in Callbacks, f \notin ToSet(ran)
  PROVE  /\ Append(ran, f) \in Seq(Callbacks)
         /\ IsInjective(Append(ran, f))
         /\ ToSet(Append(ran, f)) = ToSet(ran) \cup {f}
  <1> DEFINE r == Append(ran, f)
             n == Len(ran)
  <1>1. /\ n \in Nat /\ r \in Seq(Callbacks) /\ DOMAIN ran = 1..n /\ DOMAIN r = 1..(n + 1)
        /\ \A i \in 1..n : r[i] = ran[i]
        /\ r[n + 1] = f
    OBVIOUS
  <1> HIDE DEF r, n
  <1>2. \A i \in 1..n : r[i] # f
    BY <1>1 DEF ToSet
  <1>3. IsInjective(r)
    BY <1>1, <1>2 DEF IsInjective
  <1>4. ToSet(r) = ToSet(ran) \cup {f}
    BY <1>1 DEF ToSet
  <1> QED
    BY <1>1, <1>3, <1>4 DEF r

LEMMA InitInv == Init => IInv
  <1> SUFFICES ASSUME Init PROVE IInv
    OBVIOUS
  <1>1. TypeOK
    BY DEF Init, TypeOK
  <1>2. EachOnce
    BY DEF Init, EachOnce, Waiting, IsInjective, ToSet
  <1> QED
    BY <1>1, <1>2 DEF Init, IInv, OrderInv, LocalsInv, BlockInv

-----------------------------------------------------------------------------
(* _register_onexit_function *)

(***************************************************************************)
(* The callback is stored after the last one, in a table that may have     *)
(* grown and moved.                                                        *)
(***************************************************************************)
Stores ==
    /\ next <= MaxRegistered
    /\ used' = used + 1 /\ next' = next + 1
    /\ cells' \in Seq(Callbacks \cup {0}) /\ used' <= Len(cells')
    /\ \A i \in 1..used : cells'[i] = cells[i]
    /\ cells'[used'] = next
    /\ pc \in {"none", "callback"}
    /\ UNCHANGED <<lock, pc, first, last, saved, ran, runs>>

LEMMA RegisterStores ==
  ASSUME IInv, NEW t \in Threads, Register(t)
  PROVE  Stores /\ BlockInv' /\ block' \in 0..blocks' /\ live' \subseteq 1..blocks'
  <1> USE DEF IInv, TypeOK, BlockInv
  <1>1. Len(cells) \in Nat /\ used + 1 \in 1..Len(cells) /\ next \in Callbacks
    BY DEF Register
  <1>2. cells' = [cells EXCEPT ![used + 1] = next]
    BY DEF Register
  <1>3. cells' \in Seq(Callbacks \cup {0}) /\ Len(cells') = Len(cells)
    BY <1>1, <1>2
  <1>4. cells # <<>>
    BY <1>1
  <1>5. Stores
    BY <1>1, <1>2, <1>3 DEF Stores, Register, CanLock, locals
  <1> QED
    BY <1>4, <1>5 DEF Register, locals

LEMMA GrowStores ==
  ASSUME IInv, NEW t \in Threads, NEW count \in GrowthCounts(Len(cells)), NEW moves \in BOOLEAN,
         RegisterGrow(t, count, moves)
  PROVE  Stores /\ BlockInv' /\ block' \in 0..blocks' /\ live' \subseteq 1..blocks'
  <1> USE DEF IInv, TypeOK
  <1>1. Len(cells) \in Nat /\ used = Len(cells) /\ count \in Nat /\ count > used /\ next \in Callbacks
    BY GrowthMakesRoom DEF RegisterGrow
  <1> DEFINE cell(i) == IF i <= used THEN cells[i] ELSE IF i = used + 1 THEN next ELSE 0
  <1>2. cells' = [i \in 1..count |-> cell(i)]
    BY DEF RegisterGrow
  <1>3. \A i \in 1..count : cell(i) \in Callbacks \cup {0}
    BY <1>1
  <1>4. cells' \in Seq(Callbacks \cup {0}) /\ Len(cells') = count
    <2> HIDE DEF cell
    <2> QED
      BY <1>1, <1>2, <1>3
  <1>5. Stores
    BY <1>1, <1>2, <1>4 DEF Stores, RegisterGrow, CanLock, locals, BlockInv
  <1>6. cells' # <<>>
    BY <1>1, <1>4
  <1>7. BlockInv' /\ block' \in 0..blocks' /\ live' \subseteq 1..blocks'
    <2>1. CASE moves
      <3>1. block' = blocks + 1 /\ blocks' = blocks + 1 /\ live' = (live \ {block}) \cup {blocks + 1}
        BY <2>1 DEF RegisterGrow
      <3> QED
        BY <1>6, <3>1 DEF RegisterGrow, BlockInv, locals
    <2>2. CASE ~moves
      <3>1. block' = block /\ blocks' = blocks /\ live' = live /\ block # 0
        BY <2>2 DEF RegisterGrow
      <3> QED
        BY <1>6, <3>1 DEF RegisterGrow, BlockInv, locals
    <2> QED
      BY <2>1, <2>2
  <1> QED
    BY <1>5, <1>7

\* What waits after a callback is stored.
LEMMA StoresWaiting ==
  ASSUME IInv, Stores
  PROVE  Waiting' = Waiting \cup {next}
  <1>1. used \in Nat /\ used' = used + 1 /\ next # 0
    BY DEF IInv, TypeOK, Stores
  <1>2. \A i \in 1..used : cells'[i] = cells[i]
    BY DEF Stores
  <1>3. cells'[used + 1] = next
    BY <1>1 DEF Stores
  <1>4. 1..used' = (1..used) \cup {used + 1}
    BY <1>1
  <1> QED
    BY <1>1, <1>2, <1>3, <1>4 DEF Waiting

LEMMA StoresInv ==
  ASSUME IInv, Stores, BlockInv', block' \in 0..blocks', live' \subseteq 1..blocks'
  PROVE  IInv'
  <1> USE DEF IInv, TypeOK
  <1>1. used \in Nat /\ next \in Callbacks
    BY DEF Stores
  <1>2. TypeOK'
    BY <1>1 DEF Stores
  <1>3. EachOnce'
    <2>1. next \notin ToSet(ran)
      BY <1>1 DEF ToSet, OrderInv
    <2> QED
      BY <1>1, <2>1, StoresWaiting DEF EachOnce, Stores
  <1>4. OrderInv'
    <2>1. \A i \in 1..used' : i \in 1..used \/ i = used'
      BY <1>1 DEF Stores
    <2>2. \A i \in 1..used : cells'[i] = cells[i] /\ cells[i] < next /\ cells[i] \in Nat
      BY <1>1 DEF Stores, OrderInv
    <2>3. cells'[used'] = next /\ next' = next + 1 /\ used' = used + 1
      BY DEF Stores
    <2>4. \A i \in 1..used' : cells'[i] < next'
      <3> HIDE DEF IInv, TypeOK
      <3>1. next \in Nat
        BY DEF IInv, TypeOK
      <3> SUFFICES ASSUME NEW i \in 1..used' PROVE cells'[i] < next'
        OBVIOUS
      <3>2. CASE i \in 1..used
        BY <2>2, <2>3, <3>1, <3>2
      <3>3. CASE i = used'
        BY <2>3, <3>1, <3>3
      <3> QED
        BY <2>1, <3>2, <3>3
    <2>5. \A i \in DOMAIN ran' : ran'[i] < next'
      <3>1. \A i \in DOMAIN ran : ran[i] \in Nat
        OBVIOUS
      <3> QED
        BY <1>1, <2>3, <3>1 DEF Stores, OrderInv
    <2>6. \A i, j \in 1..used' : i < j /\ cells'[i] # 0 /\ cells'[j] # 0 => cells'[i] < cells'[j]
      <3> SUFFICES ASSUME NEW i \in 1..used', NEW j \in 1..used', i < j, cells'[i] # 0, cells'[j] # 0
                   PROVE  cells'[i] < cells'[j]
        OBVIOUS
      <3>1. i \in 1..used
        BY <1>1, <2>3
      <3>2. CASE j \in 1..used
        BY <2>2, <3>1, <3>2 DEF OrderInv
      <3>3. CASE j = used'
        BY <2>2, <2>3, <3>1, <3>3
      <3> QED
        BY <2>1, <3>2, <3>3
    <2> QED
      BY <2>4, <2>5, <2>6 DEF OrderInv
  <1>5. LocalsInv'
    BY <1>1 DEF LocalsInv, Stores
  <1> QED
    BY <1>2, <1>3, <1>4, <1>5

-----------------------------------------------------------------------------
(* _execute_onexit_table *)

\* Nothing at or before last is left out of the scan.
LEMMA LastIsValid ==
  ASSUME IInv, pc = "scan", Valid # {}
  PROVE  /\ Max(Valid) \in 1..last /\ last <= used
         /\ cells[Max(Valid)] # 0
         /\ \A i \in 1..used : i > Max(Valid) => cells[i] = 0
  <1>1. last \in Nat /\ used \in Nat /\ last <= used /\ VisitedFrom(last)
    BY DEF IInv, TypeOK, LocalsInv
  <1>2. Max(Valid) \in Valid /\ \A i \in Valid : i <= Max(Valid)
    BY <1>1, MaxOfOffsets DEF Valid
  <1> QED
    BY <1>1, <1>2 DEF Valid, VisitedFrom

\* The callback that is called is the last of those that wait.
LEMMA CallLastTakes ==
  ASSUME IInv, NEW t \in Threads, CallLast(t)
  PROVE  \E f \in Waiting : /\ \A g \in Waiting : g <= f
                            /\ Waiting' = Waiting \ {f}
                            /\ ran' = Append(ran, f)
  <1> DEFINE m == Max(Valid)
             f == cells[m]
  <1>1. pc = "scan" /\ Valid # {} /\ used' = used /\ cells' = [cells EXCEPT ![m] = 0]
        /\ ran' = Append(ran, f)
    BY DEF CallLast
  <1>2. /\ m \in 1..used /\ f # 0 /\ \A i \in 1..used : i > m => cells[i] = 0
    BY <1>1, LastIsValid DEF IInv, TypeOK, LocalsInv
  <1> HIDE DEF m
  <1>3. \A i \in 1..used : i \in DOMAIN cells /\ cells[i] \in Nat
    BY DEF IInv, TypeOK
  <1>4. \A i \in 1..used : cells[i] # 0 /\ i # m => cells[i] < f
    BY <1>2 DEF IInv, TypeOK, OrderInv
  <1>5. \A i \in 1..used : cells'[i] = IF i = m THEN 0 ELSE cells[i]
    BY <1>1, <1>2, <1>3
  <1>6. f \in Waiting /\ \A g \in Waiting : g <= f
    BY <1>2, <1>3, <1>4 DEF Waiting
  <1>7. Waiting' = Waiting \ {f}
    BY <1>1, <1>2, <1>3, <1>4, <1>5 DEF Waiting
  <1> QED
    BY <1>1, <1>6, <1>7

LEMMA CallLastInv ==
  ASSUME IInv, NEW t \in Threads, CallLast(t)
  PROVE  IInv'
  <1> USE DEF IInv
  <1> DEFINE m == Max(Valid)
  <1>1. /\ pc = "scan" /\ pc' = "callback" /\ Valid # {}
        /\ cells' = [cells EXCEPT ![m] = 0] /\ last' = m - 1
        /\ UNCHANGED <<block, used, live, blocks, lock, first, saved, next, runs>>
    BY DEF CallLast
  <1>2. m \in 1..last /\ last <= used /\ \A i \in 1..used : i > m => cells[i] = 0
    BY <1>1, LastIsValid
  <1>3. last \in Nat /\ used \in 0..Len(cells) /\ next \in 1..(MaxRegistered + 1)
    BY DEF TypeOK, LocalsInv
  <1> HIDE DEF m
  <1>4. PICK f \in Waiting : Waiting' = Waiting \ {f} /\ ran' = Append(ran, f)
    BY CallLastTakes
  <1>5. f \in 1..(next - 1) /\ f \notin ToSet(ran) /\ f \in Callbacks
    BY <1>3, <1>4 DEF EachOnce
  <1>6. /\ ran' \in Seq(Callbacks) /\ IsInjective(ran') /\ ToSet(ran') = ToSet(ran) \cup {f}
    BY <1>4, <1>5, RunOnce DEF TypeOK, EachOnce
  <1>7. cells' \in Seq(Callbacks \cup {0}) /\ Len(cells') = Len(cells)
    BY <1>1, <1>2, <1>3 DEF TypeOK
  <1>8. TypeOK'
    BY <1>1, <1>3, <1>6, <1>7 DEF TypeOK
  <1>9. EachOnce'
    BY <1>1, <1>4, <1>6 DEF EachOnce
  <1>10. \A i \in 1..used : cells'[i] = IF i = m THEN 0 ELSE cells[i]
    BY <1>1, <1>2, <1>3 DEF TypeOK
  <1>11. OrderInv'
    <2>1. \A g \in ToSet(ran) \cup {f} : g < next
      BY <1>3, <1>5 DEF ToSet, OrderInv
    <2>2. \A i \in DOMAIN ran' : ran'[i] \in ToSet(ran')
      BY DEF ToSet
    <2>3. \A i \in DOMAIN ran' : ran'[i] < next'
      BY <1>1, <1>6, <2>1, <2>2
    <2> QED
      BY <1>1, <1>3, <1>10, <2>3 DEF OrderInv
  <1>12. LocalsInv'
    <2>1. VisitedFrom(last)'
      BY <1>1, <1>2, <1>3, <1>10 DEF VisitedFrom
    <2> QED
      BY <1>1, <1>2, <1>3, <2>1 DEF LocalsInv
  <1>13. BlockInv'
    BY <1>1, <1>3 DEF BlockInv, TypeOK
  <1> QED
    BY <1>8, <1>9, <1>11, <1>12, <1>13

\* When the scan finds no callback, none waits.
LEMMA FinishEmpty ==
  ASSUME IInv, NEW t \in Threads, Finish(t)
  PROVE  Waiting = {} /\ Waiting' = {}
  <1>1. last \in Nat /\ used \in Nat /\ last <= used /\ VisitedFrom(last)
    BY DEF IInv, TypeOK, LocalsInv, Finish
  <1>2. \A i \in 1..used : cells[i] = 0
    BY <1>1 DEF VisitedFrom, Valid, Finish
  <1> QED
    BY <1>2 DEF Waiting, Finish

LEMMA RunnerInv ==
  ASSUME IInv, NEW t \in Threads, Execute(t) \/ RunnerStep(t)
  PROVE  IInv'
  <1>1. CASE CallLast(t)
    BY <1>1, CallLastInv
  <1>2. CASE Finish(t)
    <2> USE <1>2 DEF Finish
    <2>1. TypeOK'
      BY DEF IInv, TypeOK, BlockInv, LocalsInv
    <2>2. EachOnce'
      BY FinishEmpty DEF IInv, EachOnce
    <2>3. OrderInv'
      BY DEF IInv, OrderInv
    <2>4. LocalsInv'
      BY DEF LocalsInv
    <2>5. BlockInv'
      BY DEF IInv, BlockInv, LocalsInv
    <2> QED
      BY <2>1, <2>2, <2>3, <2>4, <2>5 DEF IInv
  <1>3. CASE Execute(t) \/ CallbackReturns(t)
    <2>1. UNCHANGED <<block, cells, used, live, blocks, next, ran>> /\ pc' = "scan" /\ lock' = t
      BY <1>3 DEF Execute, CallbackReturns, table
    <2>2. block # 0
      BY <1>3 DEF Execute, CallbackReturns, IInv, BlockInv
    <2>3. TypeOK'
      BY <2>1 DEF IInv, TypeOK
    <2>4. EachOnce' /\ OrderInv'
      BY <2>1 DEF IInv, EachOnce, Waiting, OrderInv
    <2>5. LocalsInv'
      <3>1. block \in Nat /\ used \in Nat
        BY DEF IInv, TypeOK, BlockInv
      <3>2. CASE first' = block /\ last' = used /\ saved' = <<block, used>>
        BY <2>1, <3>1, <3>2 DEF LocalsInv, VisitedFrom
      <3>3. CASE CallbackReturns(t) /\ <<block, used>> = saved /\ UNCHANGED <<first, last, saved>>
        BY <2>1, <3>1, <3>3 DEF IInv, LocalsInv, VisitedFrom, CallbackReturns
      <3> QED
        BY <1>3, <3>2, <3>3 DEF Execute, CallbackReturns, locals
    <2>6. BlockInv'
      BY <2>1, <2>2 DEF IInv, BlockInv
    <2> QED
      BY <2>3, <2>4, <2>5, <2>6 DEF IInv
  <1> QED
    BY <1>1, <1>2, <1>3 DEF RunnerStep

\* No step of a thread that registers or of the one that runs breaks it.
THEOREM Inductive == Spec => []IInv
  <1>1. Init => IInv
    BY InitInv
  <1>2. IInv /\ [Next]_vars => IInv'
    <2> SUFFICES ASSUME IInv, [Next]_vars PROVE IInv'
      OBVIOUS
    <2>1. CASE UNCHANGED vars
      BY <2>1 DEF vars, IInv, TypeOK, EachOnce, Waiting, OrderInv, LocalsInv, VisitedFrom, BlockInv
    <2>2. ASSUME NEW t \in Threads, Register(t) PROVE IInv'
      BY <2>2, RegisterStores, StoresInv
    <2>3. ASSUME NEW t \in Threads, NEW count \in GrowthCounts(Len(cells)), NEW moves \in BOOLEAN,
                 RegisterGrow(t, count, moves)
          PROVE  IInv'
      BY <2>3, GrowStores, StoresInv
    <2> QED
      BY <2>1, <2>2, <2>3, RunnerInv DEF Next
  <1> QED
    BY <1>1, <1>2, PTL DEF Spec

\* The pointers of the table stay within its block, however it grows.
THEOREM TableTypes == Spec => []TypeOK
  <1>1. IInv => TypeOK
    BY DEF IInv
  <1> QED
    BY <1>1, Inductive, PTL

(***************************************************************************)
(* Every callback given to atexit waits or was run, and was run once only, *)
(* whatever callbacks register while they run and wherever the table moves.*)
(***************************************************************************)
THEOREM CallbacksRunOnce == Spec => []EachOnce
  <1>1. IInv => EachOnce
    BY DEF IInv
  <1> QED
    BY <1>1, Inductive, PTL

\* No block leaks, and _execute_onexit_table never scans one that was freed.
THEOREM TableBlockSafe == Spec => []BlockSafe
  <1>1. IInv => BlockSafe
    BY DEF IInv, BlockSafe, BlockInv, LocalsInv
  <1> QED
    BY <1>1, Inductive, PTL

(***************************************************************************)
(* onexit.cpp implements the promise of atexit, for any number of threads  *)
(* and callbacks: the callback that runs next is always the latest that    *)
(* waits, and _execute_onexit_table ends only when none does.              *)
(***************************************************************************)
THEOREM TableIsExitStack == Spec => StackSpec
  <1>1. Init => S!Init
    BY DEF Init, S!Init, Waiting
  <1>2. IInv /\ [Next]_vars => [S!Next]_(S!vars)
    <2> SUFFICES ASSUME IInv, [Next]_vars PROVE S!Next \/ UNCHANGED S!vars
      OBVIOUS
    <2>1. CASE UNCHANGED vars
      BY <2>1 DEF vars, S!vars, Waiting
    <2>2. ASSUME Stores PROVE S!Next
      <3>1. (next - 1) + 1 = next /\ next' - 1 = next
        BY <2>2 DEF Stores, IInv, TypeOK
      <3>2. S!Push
        BY <2>2, <3>1, StoresWaiting DEF S!Push, Stores
      <3> QED
        BY <3>2 DEF S!Next
    <2>3. ASSUME NEW t \in Threads, Register(t) PROVE S!Next
      BY <2>2, <2>3, RegisterStores
    <2>4. ASSUME NEW t \in Threads, NEW count \in GrowthCounts(Len(cells)), NEW moves \in BOOLEAN,
                 RegisterGrow(t, count, moves)
          PROVE  S!Next
      BY <2>2, <2>4, GrowStores
    <2>5. ASSUME NEW t \in Threads, Execute(t) PROVE S!Next
      <3>1. Waiting' = Waiting
        BY <2>5 DEF Execute, table, Waiting
      <3>2. S!Begin
        BY <2>5, <3>1 DEF Execute, S!Begin
      <3> QED
        BY <3>2 DEF S!Next
    <2>6. ASSUME NEW t \in Threads, CallLast(t) PROVE S!Next
      <3>1. PICK f \in Waiting : /\ \A g \in Waiting : g <= f
                                /\ Waiting' = Waiting \ {f}
                                /\ ran' = Append(ran, f)
        BY <2>6, CallLastTakes
      <3>2. S!Pop(f)
        BY <2>6, <3>1 DEF CallLast, S!Pop
      <3> QED
        BY <3>2 DEF S!Next
    <2>7. ASSUME NEW t \in Threads, CallbackReturns(t) PROVE UNCHANGED S!vars
      BY <2>7 DEF CallbackReturns, table, S!vars, Waiting
    <2>8. ASSUME NEW t \in Threads, Finish(t) PROVE S!Next
      <3>1. S!End
        BY <2>8, FinishEmpty DEF Finish, S!End
      <3> QED
        BY <3>1 DEF S!Next
    <2> QED
      BY <2>1, <2>3, <2>4, <2>5, <2>6, <2>7, <2>8 DEF Next, RunnerStep
  <1> QED
    BY <1>1, <1>2, Inductive, PTL DEF Spec, StackSpec, S!Spec
=============================================================================
