-------------------------- MODULE KernelHeapProofs --------------------------
(***************************************************************************)
(* Proofs about KernelHeap, for any width of size_t, any _HEAP_MAXREQ      *)
(* below its largest value and any pool.                                   *)
(***************************************************************************)
EXTENDS KernelHeap, TLAPS

Record == [real : Nat, user : Nat, data : Nat, zero : Nat]

\* The pool and the arguments of the call.
HeapTypes ==
    /\ owned \subseteq Blocks
    /\ pool \in [owned -> Record]
    /\ pc \in {"idle", "alloc", "mode", "handler", "fail", "null", "throw", "free"}
    /\ fn \in {"none", "kmalloc", "kcalloc", "krealloc", "krecalloc", "new"}
    /\ level \in {"none", "kmalloc", "kcalloc", "krealloc", "krecalloc", "new"}
    /\ block \in owned \cup {Null}
    /\ old \in Nat /\ size \in Nat /\ asked \in Nat

\* A block is as large as its owner knows it, and what it holds is inside.
BlocksInv ==
    \A b \in owned :
        /\ pool[b].real >= 1 /\ pool[b].real <= MaxReq
        /\ pool[b].user <= pool[b].real
        /\ pool[b].data <= pool[b].user

(***************************************************************************)
(* The size the loops allocate is the size the caller meant, with 1 for 0  *)
(* in kcalloc: a product that does not fit never gets to a loop.           *)
(***************************************************************************)
SizeInv ==
    /\ pc \in {"alloc", "mode", "handler", "fail", "free"} =>
         size = asked \/ (asked = 0 /\ size = 1)
    /\ pc \in {"alloc", "mode"} /\ level = "kmalloc" => size <= MaxReq
    /\ pc = "throw" => fn = "new" /\ asked > SizeMax
    /\ pc = "free" => asked = 0
    /\ fn = "new" /\ pc # "throw" => size = asked

\* Which loops a function runs: kmalloc is also the inner loop of others.
LevelInv ==
    /\ pc = "idle" => fn = "none" /\ block = Null
    /\ level = "new" => fn = "new"
    /\ fn = "new" => level \in {"kmalloc", "new"} /\ pc \notin {"null", "free"}
    /\ block # Null => level \in {"krealloc", "krecalloc"}
    /\ pc = "fail" => level = "kmalloc"
    /\ pc = "free" => block # Null
    /\ level = "krecalloc" => pc = "null"

\* krealloc has its old block, knows its size and was asked for more than 0.
ReallocInv ==
    /\ block # Null => old = pool[block].user
    /\ level = "krealloc" => block # Null
    /\ level = "krealloc" /\ pc \in {"alloc", "mode", "handler"} =>
         size = asked /\ size > 0 /\ size <= MaxReq
    /\ block # Null /\ pc = "null" => asked > 0

IInv == HeapTypes /\ BlocksInv /\ SizeInv /\ LevelInv /\ ReallocInv

USE HeapAssumption DEF Size, Exceptions

LEMMA SizeMaxNat == SizeMax \in Nat /\ 2^Width = SizeMax + 1
  <1>1. 2^Width \in Nat
    BY DEF SizeMax
  <1> QED
    BY <1>1 DEF SizeMax

\* A size within size_t is not cut.
LEMMA Uncut ==
  ASSUME NEW m \in Nat, NEW n \in Nat, m * n <= SizeMax
  PROVE  Times(m, n) = m * n
  <1>1. m * n \in Nat
    OBVIOUS
  <1> QED
    BY <1>1, SizeMaxNat DEF Times

\* A product modulo the width of size_t is a natural number.
LEMMA TimesNat ==
  ASSUME NEW m \in Nat, NEW n \in Nat
  PROVE  Times(m, n) \in Nat
  <1>1. m * n \in Nat
    OBVIOUS
  <1> QED
    BY <1>1, SizeMaxNat DEF Times

(***************************************************************************)
(* The test of kcalloc and krecalloc is exact: it lets through the counts  *)
(* and sizes whose product is at most _HEAP_MAXREQ, and no others.         *)
(***************************************************************************)
THEOREM FitsExact ==
  ASSUME NEW count \in Size, NEW n \in Size
  PROVE  Fits(count, n) <=> count * n <= MaxReq
  <1>1. SizeMax \in Nat
    BY SizeMaxNat
  <1>2. count \in Nat /\ n \in Nat /\ MaxReq \in Nat
    BY <1>1
  <1>3. CASE count = 0
    BY <1>2, <1>3 DEF Fits
  <1>4. CASE count # 0
    <2> DEFINE q == MaxReq \div count
    <2>1. q \in Nat /\ count * q <= MaxReq /\ MaxReq < count * (q + 1)
      BY <1>2, <1>4
    <2>2. n <= q => count * n <= count * q
      BY <1>2, <1>4, <2>1
    <2>3. n > q => count * n >= count * (q + 1)
      BY <1>2, <1>4, <2>1
    <2>4. count * n \in Nat /\ count * q \in Nat /\ count * (q + 1) \in Nat
      BY <1>2, <2>1
    <2>5. n <= q <=> count * n <= MaxReq
      <3> HIDE DEF q
      <3> QED
        BY <1>2, <2>1, <2>2, <2>3, <2>4
    <2> QED
      BY <1>2, <1>4, <2>1, <2>5 DEF Fits
  <1> QED
    BY <1>3, <1>4

\* The test of _Get_size_of_n: a product that does not fit in a size_t.
LEMMA GetSizeExact ==
  ASSUME NEW count \in Size, NEW e \in Size, e > 0
  PROVE  count > SizeMax \div e <=> count * e > SizeMax
  <1>1. SizeMax \in Nat
    BY SizeMaxNat
  <1>2. count \in Nat /\ e \in Nat
    BY <1>1
  <1> DEFINE q == SizeMax \div e
  <1>3. q \in Nat /\ e * q <= SizeMax /\ SizeMax < e * (q + 1)
    BY <1>1, <1>2
  <1>4. count <= q => e * count <= e * q
    BY <1>2, <1>3
  <1>5. count > q => e * count >= e * (q + 1)
    BY <1>2, <1>3
  <1>6. e * count \in Nat /\ e * q \in Nat /\ e * (q + 1) \in Nat /\ e * count = count * e
    BY <1>2, <1>3
  <1> HIDE DEF q
  <1>7. count > q <=> count * e > SizeMax
    BY <1>1, <1>2, <1>3, <1>4, <1>5, <1>6
  <1> QED
    BY <1>7 DEF q

LEMMA InitInv == Init => IInv
  <1> SUFFICES ASSUME Init PROVE IInv
    OBVIOUS
  <1>1. HeapTypes
    BY DEF Init, HeapTypes
  <1> QED
    BY <1>1 DEF Init, IInv, BlocksInv, SizeInv, LevelInv, ReallocInv

(***************************************************************************)
(* A call starts: whatever it was called with, the arguments it keeps fit  *)
(* the function whose loop it enters.                                      *)
(***************************************************************************)
LEMMA BeginInv ==
  ASSUME IInv, NEW f, NEW b \in owned \cup {Null}, NEW o \in Nat, NEW n \in Nat, NEW want \in Nat,
         Begin(f, b, o, n, want)
  PROVE  /\ HeapTypes /\ fn' = f /\ block' = b /\ old' = o /\ size' = n /\ asked' = want
         /\ pool' = pool /\ owned' = owned /\ BlocksInv'
  BY DEF IInv, HeapTypes, BlocksInv, Begin

\* What kmalloc needs of its caller.
LEMMA EnterMallocInv ==
  ASSUME IInv, EnterMalloc(size'), HeapTypes, BlocksInv', pool' = pool, owned' = owned,
         fn' \in {"kmalloc", "kcalloc", "krealloc", "krecalloc", "new"},
         block' = Null, old' \in Nat, size' \in Nat, asked' \in Nat,
         size' = asked' \/ (fn' # "new" /\ asked' = 0 /\ size' = 1)
  PROVE  IInv'
  <1>1. HeapTypes'
    BY DEF HeapTypes, EnterMalloc, At
  <1>2. SizeInv'
    BY DEF SizeInv, EnterMalloc, At
  <1>3. LevelInv' /\ ReallocInv'
    BY DEF LevelInv, ReallocInv, EnterMalloc, At
  <1> QED
    BY <1>1, <1>2, <1>3 DEF IInv

\* What krealloc needs of its caller.
LEMMA EnterReallocInv ==
  ASSUME IInv, EnterRealloc(block', size'), HeapTypes, BlocksInv', pool' = pool, owned' = owned,
         fn' \in {"krealloc", "krecalloc"}, block' \in owned \cup {Null},
         block' # Null => old' = pool[block'].user,
         old' \in Nat, size' \in Nat, asked' = size'
  PROVE  IInv'
  <1>1. CASE block' = Null
    BY <1>1, EnterMallocInv DEF EnterRealloc
  <1>2. CASE block' # Null
    <2>1. PICK q \in {"free", "null", "alloc"} :
            /\ pc' = q /\ level' = "krealloc"
            /\ q = "free" <=> size' = 0
            /\ q = "null" => size' > 0
            /\ q = "alloc" => size' > 0 /\ size' <= MaxReq
      BY <1>2, SizeMaxNat DEF EnterRealloc, At
    <2>2. HeapTypes'
      BY <2>1 DEF HeapTypes
    <2>3. SizeInv'
      BY <2>1 DEF SizeInv
    <2>4. LevelInv'
      BY <2>1, <1>2 DEF LevelInv
    <2>5. ReallocInv'
      BY <2>1, <1>2 DEF ReallocInv
    <2> QED
      BY <2>2, <2>3, <2>4, <2>5 DEF IInv
  <1> QED
    BY <1>1, <1>2

\* kcalloc and krecalloc fail before any loop, with the block untouched.
LEMMA OverflowInv ==
  ASSUME IInv, NEW g \in {"kcalloc", "krecalloc"}, At("null", g),
         HeapTypes, BlocksInv', pool' = pool, owned' = owned, fn' = g,
         block' \in owned \cup {Null}, g = "kcalloc" => block' = Null,
         block' # Null => old' = pool[block'].user,
         old' \in Nat, size' \in Nat, asked' \in Nat, asked' > 0
  PROVE  IInv'
  <1>1. HeapTypes'
    BY DEF HeapTypes, At
  <1>2. SizeInv' /\ LevelInv' /\ ReallocInv'
    BY DEF SizeInv, LevelInv, ReallocInv, At
  <1> QED
    BY <1>1, <1>2 DEF IInv

\* A caller takes nothing from a block but the one it frees or fills.
LEMMA OwnerInv ==
  ASSUME IInv, NEW b \in Blocks, KFree(b) \/ Fill(b)
  PROVE  IInv'
  <1> USE DEF IInv, HeapTypes
  <1>1. /\ pc = "idle" /\ b \in owned /\ block = Null
        /\ UNCHANGED <<pc, fn, level, block, old, size, asked>>
    BY DEF KFree, Fill, call, LevelInv
  <1>2. HeapTypes' /\ BlocksInv'
    <2>1. CASE KFree(b)
      BY <1>1, <2>1 DEF KFree, Without, BlocksInv
    <2>2. CASE Fill(b)
      <3> DEFINE z == Max({pool[b].zero, pool[b].user})
      <3>1. z \in Nat
        BY <1>1 DEF Max, Record
      <3>2. /\ pool' = [pool EXCEPT ![b] = [pool[b] EXCEPT !.data = pool[b].user, !.zero = z]]
            /\ owned' = owned
        BY <1>1, <2>2 DEF Fill
      <3> HIDE DEF z
      <3>3. pool' \in [owned -> Record]
        BY <1>1, <3>1, <3>2 DEF Record
      <3>4. \A x \in owned : /\ pool'[x].real = pool[x].real /\ pool'[x].user = pool[x].user
                             /\ pool'[x].data \in {pool[x].data, pool[x].user}
        BY <1>1, <3>2 DEF Record
      <3>5. \A x \in owned : pool[x].user \in Nat
        BY DEF Record
      <3> QED
        BY <1>1, <3>2, <3>3, <3>4, <3>5 DEF BlocksInv
    <2> QED
      BY <2>1, <2>2
  <1>3. SizeInv' /\ LevelInv' /\ ReallocInv'
    BY <1>1 DEF SizeInv, LevelInv, ReallocInv
  <1> QED
    BY <1>2, <1>3

LEMMA CallInv == IInv /\ Call => IInv'
  <1> SUFFICES ASSUME IInv, Call PROVE IInv'
    OBVIOUS
  <1>0. SizeMax \in Nat /\ Size \subseteq Nat /\ MaxReq \in Nat
    BY SizeMaxNat
  <1>1. ASSUME NEW n \in Size, KMalloc(n) \/ New(n) PROVE IInv'
    <2>1. PICK f \in {"kmalloc", "new"} : Begin(f, Null, 0, n, n) /\ EnterMalloc(n)
      BY <1>1 DEF KMalloc, New
    <2> QED
      BY <1>0, <2>1, BeginInv, EnterMallocInv
  <1>2. ASSUME NEW count \in Size, NEW n \in Size, KCalloc(count, n) PROVE IInv'
    <2> DEFINE actual == IF Times(count, n) = 0 THEN 1 ELSE Times(count, n)
    <2>1. count \in Nat /\ n \in Nat /\ Times(count, n) \in Nat /\ count * n \in Nat
      BY <1>0, TimesNat
    <2>2. actual \in Nat
      BY <2>1
    <2>3. Begin("kcalloc", Null, 0, actual, count * n)
      BY <1>2 DEF KCalloc
    <2>4. IF Fits(count, n) THEN EnterMalloc(actual) ELSE At("null", "kcalloc")
      BY <1>2 DEF KCalloc
    <2>5. Fits(count, n) => count * n <= MaxReq /\ Times(count, n) = count * n
      BY <1>0, <2>1, FitsExact, Uncut
    <2>6. ~Fits(count, n) => count * n > 0
      BY <1>0, <2>1, FitsExact
    <2>7. Fits(count, n) => actual = count * n \/ (count * n = 0 /\ actual = 1)
      BY <2>5
    <2> HIDE DEF actual
    <2>8. /\ HeapTypes /\ fn' = "kcalloc" /\ block' = Null /\ old' = 0 /\ size' = actual
          /\ asked' = count * n /\ pool' = pool /\ owned' = owned /\ BlocksInv'
      BY <2>1, <2>2, <2>3, BeginInv
    <2>9. CASE Fits(count, n)
      BY <2>1, <2>2, <2>4, <2>7, <2>8, <2>9, EnterMallocInv
    <2>10. CASE ~Fits(count, n)
      BY <2>1, <2>2, <2>4, <2>6, <2>8, <2>10, OverflowInv
    <2> QED
      BY <2>9, <2>10
  <1>3. ASSUME NEW count \in Size, NEW e \in Size, Allocate(count, e) PROVE IInv'
    <2>1. count \in Nat /\ e \in Nat /\ Times(count, e) \in Nat /\ count * e \in Nat
      BY <1>0, TimesNat
    <2>2. /\ HeapTypes /\ fn' = "new" /\ block' = Null /\ old' = 0 /\ size' = Times(count, e)
          /\ asked' = count * e /\ pool' = pool /\ owned' = owned /\ BlocksInv' /\ e > 0
      BY <1>3, <2>1, BeginInv DEF Allocate
    <2>3. CASE e > 1 /\ count > SizeMax \div e
      <3>1. pc' = "throw" /\ level' = "new" /\ count * e > SizeMax
        BY <1>3, <2>2, <2>3, GetSizeExact DEF Allocate, At
      <3>2. HeapTypes'
        BY <2>1, <2>2, <3>1 DEF HeapTypes
      <3>3. SizeInv' /\ LevelInv' /\ ReallocInv'
        BY <2>1, <2>2, <3>1 DEF SizeInv, LevelInv, ReallocInv
      <3> QED
        BY <2>2, <3>2, <3>3 DEF IInv
    <2>4. CASE ~(e > 1 /\ count > SizeMax \div e)
      <3>1. EnterMalloc(Times(count, e))
        BY <1>3, <2>4 DEF Allocate
      <3>2. CASE e > 1
        <4>1. count * e <= SizeMax
          BY <1>0, <2>1, <2>2, <2>4, <3>2, GetSizeExact
        <4> QED
          BY <2>1, <2>2, <3>1, <4>1, Uncut, EnterMallocInv
      <3>3. CASE e = 1
        <4>1. count * e <= SizeMax
          BY <1>0, <2>1, <3>3
        <4> QED
          BY <2>1, <2>2, <3>1, <4>1, Uncut, EnterMallocInv
      <3> QED
        BY <2>1, <2>2, <3>2, <3>3
    <2> QED
      BY <2>3, <2>4
  <1>4. ASSUME NEW b \in Blocks \cup {Null}, NEW n \in Size, KRealloc(b, n) PROVE IInv'
    <2>1. b \in owned \cup {Null} /\ n \in Nat
      BY <1>0, <1>4 DEF KRealloc
    <2>2. PICK o \in Nat : (b # Null => o = pool[b].user) /\ Begin("krealloc", b, o, n, n)
      <3>1. b # Null => pool[b].user \in Nat
        BY <2>1 DEF IInv, HeapTypes, Record
      <3> QED
        BY <1>4, <3>1 DEF KRealloc
    <2>3. EnterRealloc(b, n)
      BY <1>4 DEF KRealloc
    <2> QED
      BY <2>1, <2>2, <2>3, BeginInv, EnterReallocInv
  <1>5. ASSUME NEW b \in Blocks \cup {Null}, NEW count \in Size, NEW o \in Size, NEW n \in Size,
               KRecalloc(b, count, o, n)
        PROVE  IInv'
    <2>0. count \in Nat /\ n \in Nat /\ o \in Nat
      BY <1>0
    <2>1. /\ Times(count, n) \in Nat /\ Times(count, o) \in Nat
          /\ count * n \in Nat /\ count * o \in Nat
      BY <2>0, TimesNat
    <2>2. b \in owned \cup {Null}
      BY <1>5 DEF KRecalloc
    <2>3. b # Null => Times(count, o) = pool[b].user
      <3> SUFFICES ASSUME b # Null PROVE Times(count, o) = pool[b].user
        OBVIOUS
      <3>1. count * o = pool[b].user /\ b \in owned
        BY <1>5, <2>2 DEF KRecalloc
      <3>2. pool[b].user <= SizeMax
        BY <1>0, <3>1 DEF IInv, HeapTypes, BlocksInv, Record
      <3> QED
        BY <2>0, <3>1, <3>2, Uncut
    <2>4. PICK was \in Nat :
            /\ b # Null => was = pool[b].user
            /\ Begin("krecalloc", b, was, Times(count, n), count * n)
      BY <1>5, <2>1, <2>3 DEF KRecalloc
    <2>5. IF Fits(count, n) THEN EnterRealloc(b, Times(count, n)) ELSE At("null", "krecalloc")
      BY <1>5 DEF KRecalloc
    <2>6. /\ HeapTypes /\ fn' = "krecalloc" /\ block' = b /\ old' = was /\ size' = Times(count, n)
          /\ asked' = count * n /\ pool' = pool /\ owned' = owned /\ BlocksInv'
      BY <2>1, <2>2, <2>4, BeginInv
    <2>7. CASE Fits(count, n)
      <3>1. Times(count, n) = count * n
        BY <1>0, <2>0, <2>1, <2>7, FitsExact, Uncut
      <3> QED
        BY <2>1, <2>2, <2>4, <2>5, <2>6, <2>7, <3>1, EnterReallocInv
    <2>8. CASE ~Fits(count, n)
      <3>1. count * n > 0
        BY <1>0, <2>0, <2>1, <2>8, FitsExact
      <3> QED
        BY <2>1, <2>2, <2>4, <2>5, <2>6, <2>8, <3>1, OverflowInv
    <2> QED
      BY <2>7, <2>8
  <1> QED
    BY <1>1, <1>2, <1>3, <1>4, <1>5, OwnerInv DEF Call

-----------------------------------------------------------------------------
(* The loops *)

\* A call that returns leaves a pool whose blocks are whole.
LEMMA ReturnInv ==
  ASSUME NEW r, Return(r), owned' \subseteq Blocks, pool' \in [owned' -> Record], BlocksInv'
  PROVE  IInv'
  <1>1. HeapTypes'
    BY DEF HeapTypes, Return, At
  <1>2. SizeInv' /\ LevelInv' /\ ReallocInv'
    BY DEF SizeInv, LevelInv, ReallocInv, Return, At
  <1> QED
    BY <1>1, <1>2 DEF IInv

LEMMA KeepInv ==
  ASSUME IInv, Keep
  PROVE  owned' \subseteq Blocks /\ pool' \in [owned' -> Record] /\ BlocksInv'
  BY DEF IInv, HeapTypes, BlocksInv, Keep

\* Giving up returns, or goes on in the function around kmalloc.
LEMMA GiveUpInv ==
  ASSUME IInv, pc \in {"fail", "mode", "handler"}, GiveUp, Keep
  PROVE  IInv'
  <1>1. CASE level = "kmalloc" /\ fn \in {"kcalloc", "new"}
    <2>1. PICK q \in {"handler", "mode"} :
            /\ pc' = q /\ level' = fn /\ UNCHANGED <<pool, owned, fn, block, old, size, asked>>
      BY <1>1 DEF GiveUp, At, Keep, call
    <2>2. HeapTypes' /\ BlocksInv'
      BY <1>1, <2>1 DEF IInv, HeapTypes, BlocksInv
    <2>3. SizeInv' /\ LevelInv' /\ ReallocInv'
      BY <1>1, <2>1 DEF IInv, SizeInv, LevelInv, ReallocInv
    <2> QED
      BY <2>2, <2>3 DEF IInv
  <1>2. CASE ~(level = "kmalloc" /\ fn \in {"kcalloc", "new"})
    BY <1>2, ReturnInv, KeepInv DEF GiveUp
  <1> QED
    BY <1>1, <1>2

\* The fresh block of kmalloc.
LEMMA AllocateInv ==
  ASSUME IInv, NEW b \in Blocks, PoolAllocates(b)
  PROVE  IInv'
  <1>1. PICK n \in Nat, z \in Nat :
          /\ pool' = With(pool, b, [real |-> n, user |-> asked, data |-> 0, zero |-> z])
          /\ n = IF size = 0 THEN 1 ELSE size
    <2> DEFINE n == IF size = 0 THEN 1 ELSE size
    <2>1. n \in Nat
      BY DEF IInv, HeapTypes
    <2> QED
      BY <2>1 DEF PoolAllocates, Fresh
  <1>2. n >= 1 /\ n <= MaxReq /\ asked <= n
    BY <1>1, SizeMaxNat DEF IInv, HeapTypes, SizeInv, PoolAllocates
  <1>3. owned' = owned \cup {b} /\ owned' \subseteq Blocks
    BY DEF PoolAllocates, IInv, HeapTypes
  <1>4. pool' \in [owned' -> Record]
    BY <1>1, <1>3 DEF With, IInv, HeapTypes, Record
  <1>5. BlocksInv'
    BY <1>1, <1>2, <1>3 DEF With, IInv, HeapTypes, BlocksInv
  <1> QED
    BY <1>3, <1>4, <1>5, ReturnInv DEF PoolAllocates

\* The smaller of two numbers.
LEMMA MinOfTwo ==
  ASSUME NEW m \in Nat, NEW n \in Nat
  PROVE  Min({m, n}) = IF m <= n THEN m ELSE n
  BY DEF Min

\* The block that replaces the old one in krealloc.
LEMMA ReallocatesTo ==
  ASSUME IInv, NEW b \in Blocks, Reallocates(b)
  PROVE  /\ block \in owned /\ b \notin owned /\ b # block
         /\ owned' = (owned \ {block}) \cup {b}
         /\ Copied \in Nat /\ Copied <= size /\ Copied <= pool[block].user
         /\ \E d \in Nat, z \in Nat :
              /\ pool' = With(Without(pool, block), b,
                             [real |-> size, user |-> asked, data |-> d, zero |-> z])
              /\ d = Min({pool[block].data, asked})
              /\ d <= asked /\ z <= pool[block].user
  <1>1. /\ block \in owned /\ pc = "alloc" /\ level = "krealloc"
        /\ old = pool[block].user /\ size = asked /\ old \in Nat /\ size \in Nat
        /\ DOMAIN pool = owned /\ pool[block] \in Record
        /\ pool[block].data <= pool[block].user
    BY DEF Reallocates, IInv, HeapTypes, ReallocInv, BlocksInv
  <1>2. Copied \in Nat /\ Copied <= size /\ Copied <= old
    BY <1>1 DEF Copied
  <1> DEFINE o == pool[block]
             d == Min({o.data, Copied})
             z == Min({o.zero, Copied})
  <1>3. o.data \in Nat /\ o.zero \in Nat /\ o.user \in Nat
    BY <1>1 DEF Record
  <1>4. d = IF o.data <= Copied THEN o.data ELSE Copied
    BY <1>2, <1>3, MinOfTwo
  <1>5. z = IF o.zero <= Copied THEN o.zero ELSE Copied
    BY <1>2, <1>3, MinOfTwo
  <1>6. Min({o.data, asked}) = IF o.data <= asked THEN o.data ELSE asked
    BY <1>1, <1>3, MinOfTwo
  <1>7. pool' = With(Without(pool, block), b, [real |-> size, user |-> asked, data |-> d, zero |-> z])
    BY DEF Reallocates
  <1> HIDE DEF d, z, o
  <1>8. d = Min({o.data, asked})
    BY <1>1, <1>2, <1>3, <1>4, <1>6 DEF Copied, o
  <1>9. d \in Nat /\ z \in Nat /\ d <= asked /\ z <= o.user
    BY <1>1, <1>2, <1>3, <1>4, <1>5 DEF o
  <1> QED
    BY <1>1, <1>2, <1>7, <1>8, <1>9 DEF Reallocates, Live, o

LEMMA ReallocateInv ==
  ASSUME IInv, NEW b \in Blocks, Reallocates(b)
  PROVE  IInv'
  <1>1. PICK d \in Nat, z \in Nat :
          /\ pool' = With(Without(pool, block), b,
                         [real |-> size, user |-> asked, data |-> d, zero |-> z])
          /\ d <= asked
    BY ReallocatesTo
  <1>2. block \in owned /\ b \notin owned /\ owned' = (owned \ {block}) \cup {b}
    BY ReallocatesTo
  <1>3. size = asked /\ size \in Nat /\ size >= 1 /\ size <= MaxReq
    BY DEF Reallocates, IInv, HeapTypes, ReallocInv
  <1>4. owned' \subseteq Blocks /\ pool' \in [owned' -> Record]
    BY <1>1, <1>2, <1>3 DEF With, Without, IInv, HeapTypes, Record
  <1>5. BlocksInv'
    BY <1>1, <1>2, <1>3 DEF With, Without, IInv, HeapTypes, BlocksInv
  <1> QED
    BY <1>4, <1>5, ReturnInv DEF Reallocates

LEMMA StepInv == IInv /\ Step => IInv'
  <1> SUFFICES ASSUME IInv, Step PROVE IInv'
    OBVIOUS
  <1>1. CASE Refused
    <2>1. /\ pc = "alloc" /\ pc' = "mode"
          /\ UNCHANGED <<pool, owned, level, fn, block, old, size, asked>>
      BY <1>1 DEF Refused, At, Keep, call
    <2> QED
      BY <2>1 DEF IInv, HeapTypes, BlocksInv, SizeInv, LevelInv, ReallocInv
  <1>2. CASE TooLarge \/ HandlerFails
    BY <1>2, GiveUpInv DEF TooLarge, HandlerFails
  <1>3. CASE Overflow \/ HandlerThrows
    BY <1>3, ReturnInv, KeepInv DEF Overflow, HandlerThrows
  <1>4. CASE FreeInstead
    <2>1. owned' \subseteq Blocks /\ pool' \in [owned' -> Record] /\ BlocksInv'
      BY <1>4 DEF FreeInstead, Without, IInv, HeapTypes, BlocksInv
    <2> QED
      BY <1>4, <2>1, ReturnInv DEF FreeInstead
  <1>5. CASE HandlerSucceeds
    <2>1. UNCHANGED <<pool, owned, fn, block, old, size, asked>> /\ pc = "handler"
      BY <1>5 DEF HandlerSucceeds, Keep, call
    <2>2. CASE level = "krealloc"
      <3>1. pc' = "alloc" /\ level' = level
        BY <1>5, <2>2 DEF HandlerSucceeds, At
      <3> QED
        BY <2>1, <2>2, <3>1 DEF IInv, HeapTypes, BlocksInv, SizeInv, LevelInv, ReallocInv
    <2>3. CASE level # "krealloc"
      <3>1. EnterMalloc(size)
        BY <1>5, <2>3 DEF HandlerSucceeds
      <3>2. PICK q \in {"fail", "alloc"} : pc' = q /\ level' = "kmalloc" /\ (q = "alloc" => size <= MaxReq)
        BY <3>1, SizeMaxNat DEF EnterMalloc, At, IInv, HeapTypes
      <3> QED
        BY <2>1, <2>3, <3>2 DEF IInv, HeapTypes, BlocksInv, SizeInv, LevelInv, ReallocInv
    <2> QED
      BY <2>2, <2>3
  <1>6. ASSUME NEW m \in {0, 1}, QueryNewMode(m) PROVE IInv'
    <2>1. CASE m = 0
      BY <1>6, <2>1, GiveUpInv DEF QueryNewMode
    <2>2. CASE m = 1
      <3>1. /\ pc = "mode" /\ pc' = "handler"
            /\ UNCHANGED <<pool, owned, level, fn, block, old, size, asked>>
        BY <1>6, <2>2 DEF QueryNewMode, At, Keep, call
      <3> QED
        BY <3>1 DEF IInv, HeapTypes, BlocksInv, SizeInv, LevelInv, ReallocInv
    <2> QED
      BY <2>1, <2>2
  <1> QED
    BY <1>1, <1>2, <1>3, <1>4, <1>5, <1>6, AllocateInv, ReallocateInv DEF Step

-----------------------------------------------------------------------------
(* The theorems *)

\* No step of a call, a caller or the pool breaks the invariant.
THEOREM Inductive == Spec => []IInv
  <1>1. Init => IInv
    BY InitInv
  <1>2. IInv /\ [Next]_vars => IInv'
    <2>1. IInv /\ UNCHANGED vars => IInv'
      BY DEF vars, IInv, HeapTypes, BlocksInv, SizeInv, LevelInv, ReallocInv
    <2> QED
      BY <2>1, CallInv, StepInv DEF Next
  <1> QED
    BY <1>1, <1>2, PTL DEF Spec

(***************************************************************************)
(* Every block kmalloc, kcalloc, krealloc, krecalloc and kallocator hand   *)
(* out is as large as its caller meant, for every width of size_t, and     *)
(* krealloc copies only what is inside both blocks.                        *)
(***************************************************************************)
THEOREM HeapBigEnough == Spec => []BigEnough
  <1>1. IInv => BigEnough
    <2> SUFFICES ASSUME IInv PROVE BigEnough
      OBVIOUS
    <2>1. \A b \in Live : pool[b].real >= pool[b].user /\ pool[b].real \in 1..MaxReq
      BY SizeMaxNat DEF IInv, HeapTypes, BlocksInv, Live, Record
    <2>2. ASSUME pc = "alloc", level = "krealloc"
          PROVE  Copied <= pool[block].real /\ Copied <= size
      <3>1. block \in owned /\ old = pool[block].user /\ old <= pool[block].real
        BY <2>2 DEF IInv, HeapTypes, BlocksInv, ReallocInv
      <3>2. old \in Nat /\ size \in Nat /\ pool[block].real \in Nat
        BY <3>1 DEF IInv, HeapTypes, Record
      <3> QED
        BY <3>1, <3>2 DEF Copied
    <2> QED
      BY <2>1, <2>2 DEF BigEnough
  <1> QED
    BY <1>1, Inductive, PTL

(***************************************************************************)
(* The blocks of the pool are those that callers hold: no path through the *)
(* loops, the handlers and the failures leaks a block or frees one twice.  *)
(***************************************************************************)
THEOREM HeapAccounted == Spec => []Accounted
  <1>1. IInv => Accounted
    BY DEF IInv, HeapTypes, Accounted, Live
  <1> QED
    BY <1>1, Inductive, PTL

(***************************************************************************)
(* A krealloc or krecalloc that returns keeps the data of its block, and   *)
(* one that fails keeps the block, whichever of their loops it was in.     *)
(***************************************************************************)
THEOREM HeapReallocKeeps == Spec => ReallocKeeps
  <1> DEFINE Keeps ==
        block # Null /\ pc' = "idle" =>
          LET o == pool[block]
          IN  IF result' \in Blocks
              THEN /\ pool'[result'].data = Min({o.data, asked})
                   /\ pool'[result'].zero <= o.user
                   /\ block \notin DOMAIN pool'
              ELSE IF asked = 0 THEN block \notin DOMAIN pool' ELSE pool' = pool
  <1>1. IInv /\ [Next]_vars => [Keeps]_vars
    <2> SUFFICES ASSUME IInv, Next, block # Null, pc' = "idle"
                 PROVE  Keeps
      BY Zenon
    <2>0. block \in owned /\ pc # "idle" /\ DOMAIN pool = owned /\ asked \in Nat
      BY DEF IInv, HeapTypes, LevelInv
    <2>1. ASSUME NEW b \in Blocks, Reallocates(b) PROVE Keeps
      <3>1. PICK d \in Nat, z \in Nat :
              /\ pool' = With(Without(pool, block), b,
                             [real |-> size, user |-> asked, data |-> d, zero |-> z])
              /\ d = Min({pool[block].data, asked}) /\ z <= pool[block].user
        BY <2>1, ReallocatesTo
      <3>2. b # block /\ result' = b
        BY <2>1, ReallocatesTo DEF Reallocates, Return
      <3>3. pool'[b].data = d /\ pool'[b].zero = z /\ block \notin DOMAIN pool'
        BY <3>1, <3>2 DEF With, Without
      <3> QED
        BY <3>1, <3>2, <3>3
    <2>2. ASSUME NEW b \in Blocks, PoolAllocates(b) PROVE FALSE
      BY <2>2 DEF PoolAllocates, IInv, LevelInv
    <2>3. CASE FreeInstead
      <3>1. asked = 0 /\ result' = Null /\ block \notin DOMAIN pool'
        BY <2>3 DEF FreeInstead, Return, Without, IInv, SizeInv
      <3> QED
        BY <3>1
    <2>4. CASE Call
      BY <2>0, <2>4 DEF Call, KMalloc, New, KCalloc, Allocate, KRealloc, KRecalloc, Begin, KFree, Fill
    <2>5. CASE \/ Refused \/ TooLarge \/ Overflow \/ HandlerFails \/ HandlerSucceeds \/ HandlerThrows
               \/ \E m \in {0, 1} : QueryNewMode(m)
      <3>1. pool' = pool
        BY <2>5 DEF Refused, TooLarge, Overflow, HandlerFails, HandlerSucceeds, HandlerThrows,
                   QueryNewMode, Keep
      <3>2. result' \notin Blocks
        BY <2>5 DEF Refused, TooLarge, Overflow, HandlerFails, HandlerSucceeds, HandlerThrows,
                   QueryNewMode, At, EnterMalloc, GiveUp, Return
      <3>3. asked # 0
        <4>1. level \in {"krealloc", "krecalloc"}
          BY DEF IInv, LevelInv
        <4>2. pc \in {"null", "alloc", "mode", "handler"}
          BY <2>5, <4>1 DEF IInv, LevelInv, SizeInv, Refused, TooLarge, Overflow, HandlerFails,
                       HandlerSucceeds, HandlerThrows, QueryNewMode
        <4> QED
          BY <2>0, <4>1, <4>2 DEF IInv, LevelInv, ReallocInv
      <3> QED
        BY <3>1, <3>2, <3>3
    <2> QED
      BY <2>1, <2>2, <2>3, <2>4, <2>5 DEF Next, Step
  <1>2. Spec => [][Keeps]_vars
    BY <1>1, Inductive, PTL DEF Spec
  <1> QED
    BY <1>2 DEF ReallocKeeps

(***************************************************************************)
(* operator new never returns nullptr, throws bad_array_new_length only    *)
(* for an overflow, and the C functions throw only what a handler throws.  *)
(***************************************************************************)
THEOREM HeapNewThrows == Spec => NewThrows
  <1> DEFINE Throws ==
        pc # "idle" /\ pc' = "idle" =>
          /\ fn = "new" => result' # Null
          /\ result' = "bad_array_new_length" => fn = "new" /\ asked >= SizeMax
          /\ result' = "bad_alloc" /\ fn # "new" => pc = "handler"
  <1>1. IInv /\ [Next]_vars => [Throws]_vars
    <2> SUFFICES ASSUME IInv, Next, pc # "idle", pc' = "idle"
                 PROVE  Throws
      BY Zenon
    <2>0. asked \in Nat /\ size \in Nat /\ SizeMax \in Nat
      BY SizeMaxNat DEF IInv, HeapTypes
    <2>1. ASSUME NEW b \in Blocks, PoolAllocates(b) \/ Reallocates(b) PROVE Throws
      BY <2>1 DEF PoolAllocates, Reallocates, Return
    <2>2. CASE FreeInstead
      BY <2>2 DEF FreeInstead, Return, IInv, LevelInv
    <2>3. CASE Call
      BY <2>3 DEF Call, KMalloc, New, KCalloc, Allocate, KRealloc, KRecalloc, Begin, KFree, Fill
    <2>4. ASSUME GiveUp, pc \in {"fail", "mode", "handler"} PROVE Throws
      <3>1. level # "kmalloc" \/ fn \notin {"kcalloc", "new"}
        BY <2>4 DEF GiveUp, At
      <3>2. result' = IF level # "new" THEN Null
                      ELSE IF size = SizeMax THEN "bad_array_new_length" ELSE "bad_alloc"
        BY <2>4, <3>1 DEF GiveUp, Return
      <3>3. CASE level # "new"
        <4>1. result' = Null
          BY <3>2, <3>3
        <4>2. fn # "new"
          BY <3>1, <3>3 DEF IInv, LevelInv
        <4> QED
          BY <4>1, <4>2
      <3>4. CASE level = "new"
        <4>1. fn = "new" /\ size = asked
          BY <2>4, <3>4 DEF IInv, LevelInv, SizeInv
        <4>2. result' = IF size = SizeMax THEN "bad_array_new_length" ELSE "bad_alloc"
          BY <3>2, <3>4
        <4> QED
          BY <2>0, <4>1, <4>2
      <3> QED
        BY <3>3, <3>4
    <2>5. CASE TooLarge \/ HandlerFails \/ \E m \in {0, 1} : QueryNewMode(m)
      BY <2>4, <2>5 DEF TooLarge, HandlerFails, QueryNewMode, At
    <2>6. CASE Refused \/ HandlerSucceeds
      BY <2>6 DEF Refused, HandlerSucceeds, At, EnterMalloc
    <2>7. CASE Overflow \/ HandlerThrows
      BY <2>0, <2>7 DEF Overflow, HandlerThrows, Return, IInv, SizeInv, LevelInv
    <2> QED
      BY <2>1, <2>2, <2>3, <2>5, <2>6, <2>7 DEF Next, Step
  <1>2. Spec => [][Throws]_vars
    BY <1>1, Inductive, PTL DEF Spec
  <1> QED
    BY <1>2 DEF NewThrows

=============================================================================
