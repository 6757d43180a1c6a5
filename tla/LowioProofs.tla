---------------------------- MODULE LowioProofs ----------------------------
(***************************************************************************)
(* Proofs about Lowio, for any number of threads, arrays, entries and      *)
(* kernel handles.                                                         *)
(***************************************************************************)
EXTENDS Lowio, FiniteSetTheorems, WellFoundedInduction, TLAPS

AllocSteps == {"alloc", "scan", "enter", "enter_new"}

Steps ==
    AllocSteps \cup
    {"idle", "lock", "use", "close_os", "close_free", "taken", "created", "text_mode", "reopen",
     "ensure", "lock1", "lock2", "dup2", "dup2_set"}

\* The steps at which the entry `to` is locked, and those at which it is open.
ToOpen == {"use", "close_os", "close_free", "taken", "created", "text_mode", "reopen"}
ToHeld == ToOpen \cup {"dup2", "dup2_set"}

\* The source of _dup or _dup2 is locked.
FhHeld(t) ==
    \/ op[t] = "dup" /\ pc[t] \in AllocSteps \cup {"taken"}
    \/ op[t] = "dup2" /\ pc[t] \in {"close_os", "close_free", "dup2", "dup2_set"}

\* The locks of handles that t holds.
Holds(t, f) ==
    \/ pc[t] \in ToHeld /\ f = to[t]
    \/ FhHeld(t) /\ f = fh[t]
    \/ pc[t] = "lock2" /\ f = First(t)

Types ==
    /\ TypeOK
    /\ pc \in [Threads -> Steps]
    /\ op \in [Threads -> Ops \cup {"none"}]
    /\ at \in [Threads -> Nat]

\* Which call is at which step.
OpInv(t) ==
    /\ pc[t] # "idle" => op[t] \in Ops
    /\ pc[t] = "lock" => op[t] \in {"close", "use", "dup"} /\ fh[t] = to[t]
    /\ pc[t] = "use" => op[t] = "use"
    /\ pc[t] \in {"close_os", "close_free"} => op[t] \in {"close", "open", "reopen", "dup2"}
    /\ pc[t] \in AllocSteps \cup {"taken"} => op[t] \in {"open", "reopen", "osfhandle", "dup"}
    /\ pc[t] \in {"created", "text_mode"} => op[t] \in {"open", "reopen"}
    /\ pc[t] = "reopen" => op[t] = "reopen"
    /\ pc[t] \in {"ensure", "lock1", "lock2", "dup2", "dup2_set"} => op[t] = "dup2"
    /\ op[t] = "dup2" => fh[t] # to[t] /\ to[t] \in Files

\* The entries of a call exist, and those it has locked and looked at stay open.
EntryInv(t) ==
    /\ pc[t] \in ToHeld \cup {"lock", "lock1", "lock2"} => to[t] < nhandle
    /\ FhHeld(t) \/ pc[t] \in {"lock", "ensure", "lock1", "lock2"} => fh[t] < nhandle
    /\ pc[t] \in {"enter", "enter_new"} => at[t] < nhandle
    /\ pc[t] \in ToOpen => osfile[to[t]]
    /\ FhHeld(t) => osfile[fh[t]]

\* The locks are held by those who are at such a step, and nobody else.
LockInv ==
    /\ \A t \in Threads, f \in FH : lock[f] = t <=> Holds(t, f)
    /\ \A t \in Threads : index = t <=> pc[t] \in {"scan", "enter", "enter_new"}

\* Entries of arrays that do not exist.
NewInv == \A f \in FH : f >= nhandle => ~osfile[f] /\ osfhnd[f] = Invalid

\* Without _dup2 an entry that seemed free stays so under the index lock.
ScanInv ==
    "dup2" \notin Ops =>
        \A t \in Threads : pc[t] \in {"enter", "enter_new"} => ~osfile[at[t]]

LockingInv ==
    /\ Types
    /\ \A t \in Threads : OpInv(t) /\ EntryInv(t)
    /\ LockInv
    /\ NewInv
    /\ ScanInv

-----------------------------------------------------------------------------
(***************************************************************************)
(* What a driver must keep to for kernel handles to have one owner: not    *)
(* close or replace both stdout and stderr; and, if it calls _dup2, open   *)
(* nothing with "reopen" and give no first entry of a later array as the   *)
(* target.                                                                 *)
(***************************************************************************)
Careful ==
    /\ ~({1, 2} \subseteq Files)
    /\ "dup2" \in Ops => "reopen" \notin Ops /\ \A n \in 1..Arrays : Elts * n \notin Files

\* What the entry of a call has for a kernel handle.
OsInv(t) ==
    /\ pc[t] \in {"taken", "created", "dup2_set"} => osfhnd[to[t]] = Invalid
    /\ pc[t] \in {"text_mode", "reopen"} => osfhnd[to[t]] = os[t] /\ os[t] \in Handles
    /\ InTransit(t) => os[t] \in Handles
    /\ pc[t] = "enter_new" =>
         ~osfile[at[t]] /\ osfhnd[at[t]] = Invalid /\ \E n \in 1..Arrays : at[t] = Elts * n
    /\ pc[t] # "idle" /\ op[t] = "close" => to[t] \in Files
    /\ pc[t] \in ToHeld \ {"use"} => to[t] \notin {1, 2} \ Files

\* A free entry has no handle where _dup2 may take it.
FreeInv == \A f \in FH : "dup2" \in Ops /\ ~osfile[f] => osfhnd[f] = Invalid

\* Of stdout and stderr the one the driver leaves alone has no handle.
StdInv == \A f \in {1, 2} \ Files : osfile[f] /\ osfhnd[f] = NoConsole

Entries(h) == {f \in FH : osfile[f] /\ osfhnd[f] = h /\ ~Closing(f)}
Transits(h) == {t \in Threads : InTransit(t) /\ os[t] = h}

OwnInv ==
    \A h \in Handles :
        IF h \in live
        THEN \/ Transits(h) = {} /\ \E f \in FH : Entries(h) = {f}
             \/ Entries(h) = {} /\ \E t \in Threads : Transits(h) = {t}
        ELSE Entries(h) = {} /\ Transits(h) = {}

OwnerInv ==
    /\ \A t \in Threads : OsInv(t)
    /\ FreeInv
    /\ StdInv
    /\ OwnInv

USE LowioAssumption

-----------------------------------------------------------------------------
(* Numbers *)

LEMMA Sizes ==
  /\ Elts * Arrays \in Nat /\ Elts <= Elts * Arrays
  /\ \A f : f \in FH <=> f \in Nat /\ f < Elts * Arrays
  <1>1. Elts * Arrays \in Nat /\ Elts <= Elts * Arrays
    OBVIOUS
  <1> QED
    BY <1>1 DEF FH

\* The whole arrays that exist.
LEMMA Whole ==
  ASSUME NEW n \in 1..Arrays
  PROVE  Elts * n \in Nat /\ Elts <= Elts * n /\ Elts * n <= Elts * Arrays
  OBVIOUS

LEMMA NhandleBounds ==
  ASSUME TypeOK
  PROVE  nhandle \in Nat /\ Elts <= nhandle /\ nhandle <= Elts * Arrays
  BY Whole DEF TypeOK

LEMMA OneMore ==
  ASSUME TypeOK, nhandle < Elts * Arrays
  PROVE  \E n \in 1..Arrays : nhandle + Elts = Elts * n
  <1>1. PICK n \in 1..Arrays : nhandle = Elts * n
    BY DEF TypeOK
  <1>2. n # Arrays
    BY <1>1
  <1>3. n + 1 \in 1..Arrays /\ Elts * (n + 1) = Elts * n + Elts
    BY <1>2
  <1> QED
    BY <1>1, <1>3

\* The arrays up to the one that has entry f.
LEMMA ArrayOf ==
  ASSUME NEW f \in FH
  PROVE  /\ \E n \in 1..Arrays : Elts * (f \div Elts + 1) = Elts * n
         /\ Elts * (f \div Elts + 1) > f
  <1> DEFINE d == f \div Elts
  <1>1. f \in Nat /\ f < Elts * Arrays
    BY Sizes
  <1>2. d \in Nat /\ Elts * d <= f /\ f < Elts * d + Elts
    BY <1>1
  <1> HIDE DEF d
  <1>3. d < Arrays
    <2> SUFFICES ASSUME d >= Arrays PROVE FALSE
      BY <1>2
    <2>1. Elts * d >= Elts * Arrays
      BY <1>2
    <2> QED
      BY <1>1, <1>2, <2>1, Sizes
  <1>4. Elts * (d + 1) = Elts * d + Elts
    BY <1>2
  <1>5. d + 1 \in 1..Arrays
    BY <1>2, <1>3
  <1> QED
    BY <1>1, <1>2, <1>4, <1>5 DEF d

LEMMA Multiple ==
  ASSUME NEW n \in Nat, n % Elts = 0, Elts <= n, n <= Elts * Arrays
  PROVE  \E m \in 1..Arrays : n = Elts * m
  <1> DEFINE d == n \div Elts
  <1>1. d \in Nat /\ n = Elts * d
    OBVIOUS
  <1> HIDE DEF d
  <1>2. d # 0
    BY <1>1
  <1>3. d <= Arrays
    <2> SUFFICES ASSUME d > Arrays PROVE FALSE
      BY <1>1
    <2>1. Elts * d >= Elts * Arrays + Elts
      BY <1>1
    <2> QED
      BY <1>1, <2>1, Sizes
  <1> QED
    BY <1>1, <1>2, <1>3

-----------------------------------------------------------------------------
(* The locks *)

\* A step of t changes only what is t's.
Mine(t) ==
    /\ \A u \in Threads \ {t} : UNCHANGED <<pc[u], op[u], fh[u], to[u], at[u]>>
    /\ \A f \in FH : lock'[f] = lock[f] \/ {lock[f], lock'[f]} \subseteq {t, NoThread}
    /\ index' = index \/ {index, index'} \subseteq {t, NoThread}

\* What t holds after its step is what its step says.
Exact(t) ==
    /\ \A f \in FH : lock'[f] = t <=> Holds(t, f)'
    /\ index' = t <=> pc'[t] \in {"scan", "enter", "enter_new"}

\* Of the flags only that of e changes, which is not locked by another.
Touches(t, e) ==
    /\ \A f \in FH \ {e} : UNCHANGED osfile[f]
    /\ UNCHANGED osfile[e] \/ lock[e] \in {t, NoThread}
    /\ (osfile'[e] => osfile[e]) \/ (op[t] = "dup2" /\ pc[t] # "idle") \/ index = t

LEMMA LockingKept ==
  ASSUME LockingInv, NEW t \in Threads, NEW e \in FH,
         Types', nhandle <= nhandle', Mine(t), Exact(t), Touches(t, e),
         OpInv(t)', EntryInv(t)', NewInv',
         "dup2" \notin Ops /\ pc'[t] \in {"enter", "enter_new"} => ~osfile'[at'[t]]
  PROVE  LockingInv'
  <1> USE DEF LockingInv
  <1>1. NoThread \notin Threads /\ t # NoThread
    OBVIOUS
  <1>2. ASSUME NEW u \in Threads \ {t}
        PROVE  /\ UNCHANGED <<pc[u], op[u], fh[u], to[u], at[u]>>
               /\ \A f \in FH : lock'[f] = u <=> lock[f] = u
               /\ index' = u <=> index = u
    BY <1>1 DEF Mine, Types, TypeOK
  <1>3. ASSUME NEW u \in Threads \ {t} PROVE \A f \in FH : Holds(u, f)' <=> Holds(u, f)
    BY <1>2 DEF Holds, FhHeld, First
  <1>4. LockInv'
    BY <1>2, <1>3 DEF LockInv, Exact
  <1>5. ASSUME NEW u \in Threads \ {t} PROVE OpInv(u)' /\ EntryInv(u)'
    <2>1. OpInv(u)'
      BY <1>2 DEF OpInv
    <2>2. \A f \in FH : Holds(u, f) => osfile'[f] = osfile[f]
      BY <1>1 DEF LockInv, Touches
    <2>3. to[u] \in FH /\ fh[u] \in FH
      BY DEF Types, TypeOK
    <2>4. nhandle \in Nat /\ nhandle' \in Nat /\ at[u] \in Nat /\ to[u] \in Nat /\ fh[u] \in Nat
      <3>1. nhandle' \in Nat
        BY Whole DEF Types, TypeOK
      <3> QED
        BY <2>3, <3>1, NhandleBounds, Sizes DEF Types
    <2>5. pc[u] \in ToOpen => osfile'[to[u]]
      BY <2>2, <2>3 DEF EntryInv, Holds, ToHeld
    <2>6. FhHeld(u) => osfile'[fh[u]]
      BY <2>2, <2>3 DEF EntryInv, Holds
    <2>7. FhHeld(u)' <=> FhHeld(u)
      BY <1>2 DEF FhHeld
    <2>8. EntryInv(u)
      OBVIOUS
    <2> QED
      BY <1>2, <2>1, <2>4, <2>5, <2>6, <2>7, <2>8 DEF EntryInv
  <1>6. ScanInv'
    <2> SUFFICES ASSUME "dup2" \notin Ops, NEW u \in Threads \ {t}, pc'[u] \in {"enter", "enter_new"}
                 PROVE  ~osfile'[at'[u]]
      BY DEF ScanInv
    <2>1. ~osfile[at[u]] /\ index = u /\ at'[u] = at[u]
      BY <1>2 DEF ScanInv, LockInv
    <2>2. at[u] \in FH
      BY <1>2, NhandleBounds, Sizes DEF EntryInv, Types, TypeOK
    <2>3. op[t] # "dup2" \/ pc[t] = "idle"
      BY DEF OpInv
    <2> QED
      BY <2>1, <2>2, <2>3 DEF Touches
  <1> QED
    BY <1>4, <1>5, <1>6

\* t returns, after it may have changed the flag of an entry it has locked.
LEMMA ReturnKept ==
  ASSUME LockingInv, NEW t \in Threads, NEW e \in FH, Return(t),
         UNCHANGED <<nhandle, op, fh, to, at>>,
         TypeOK', \A f \in FH \ {e} : UNCHANGED <<osfile[f], osfhnd[f]>>,
         UNCHANGED <<osfile[e], osfhnd[e]>> \/ lock[e] = t,
         (osfile'[e] => osfile[e]) \/ (op[t] = "dup2" /\ pc[t] # "idle"),
         \/ UNCHANGED index /\ pc[t] \notin {"scan", "enter", "enter_new"}
         \/ index = t /\ index' = NoThread
  PROVE  LockingInv'
  <1>1. pc' = [pc EXCEPT ![t] = "idle"] /\ lock' = [f \in FH |-> IF lock[f] = t THEN NoThread ELSE lock[f]]
    BY DEF Return, Goto, Without
  <1>2. pc'[t] = "idle" /\ \A u \in Threads \ {t} : pc'[u] = pc[u]
    BY <1>1 DEF LockingInv, Types
  <1>3. Types'
    BY <1>1 DEF LockingInv, Types, Steps
  <1>4. Mine(t)
    BY <1>1, <1>2 DEF Mine
  <1>5. Exact(t)
    <2>1. \A f \in FH : ~Holds(t, f)' /\ lock'[f] # t
      BY <1>1, <1>2 DEF Holds, FhHeld, ToHeld, ToOpen, AllocSteps
    <2>2. index' # t
      BY DEF LockingInv, LockInv
    <2> QED
      BY <1>2, <2>1, <2>2 DEF Exact
  <1>6. Touches(t, e)
    BY DEF Touches
  <1>7. OpInv(t)'
    BY <1>2 DEF LockingInv, OpInv, AllocSteps
  <1>8. EntryInv(t)'
    BY <1>2 DEF EntryInv, FhHeld, ToHeld, ToOpen, AllocSteps
  <1>9. NewInv'
    <2>1. lock[e] = t => e < nhandle
      <3>1. lock[e] = t => Holds(t, e)
        BY DEF LockingInv, LockInv
      <3> QED
        BY <3>1 DEF LockingInv, EntryInv, Holds, First
    <2>2. e \in Nat /\ nhandle \in Nat
      BY NhandleBounds, Sizes DEF LockingInv, Types
    <2>3. \A f \in FH : f >= nhandle => UNCHANGED <<osfile[f], osfhnd[f]>>
      BY <2>1, <2>2
    <2> QED
      BY <2>3 DEF LockingInv, NewInv
  <1>10. nhandle \in Nat
    BY NhandleBounds DEF LockingInv, Types
  <1> QED
    BY <1>2, <1>3, <1>4, <1>5, <1>6, <1>7, <1>8, <1>9, <1>10, LockingKept

LEMMA ReturnsLocking ==
  ASSUME LockingInv, NEW t \in Threads,
         \/ UseEnds(t) \/ AllocFails(t) \/ CreateFileFails(t) \/ UnknownType(t) \/ ReopenFails(t)
         \/ AttachOsfhandle(t) \/ DuplicateFails(t) \/ Dup2Fails(t) \/ Dup2Set(t)
         \/ (Configure(t) /\ op[t] # "reopen") \/ (CloseFree(t) /\ op[t] # "dup2")
         \/ \E h \in Handles : Reopen(t, h) \/ Duplicate(t, h)
  PROVE  LockingInv'
  <1> DEFINE e == to[t]
  <1>0. Types /\ OpInv(t) /\ EntryInv(t) /\ TypeOK /\ e \in FH /\ fh[t] \in FH
    BY DEF LockingInv, Types, TypeOK
  <1>1. Return(t) /\ UNCHANGED <<nhandle, op, fh, to, at, os>>
    BY DEF UseEnds, AllocFails, CreateFileFails, UnknownType, ReopenFails, AttachOsfhandle,
           DuplicateFails, Dup2Fails, Dup2Set, Configure, CloseFree, Reopen, Duplicate, slots, args
  <1>2. /\ osfhnd' \in [FH -> Handles \cup {Invalid, NoConsole}]
        /\ \A f \in FH \ {e} : UNCHANGED osfhnd[f]
        /\ UNCHANGED osfhnd \/ pc[t] \in ToHeld
    <2>1. CASE UNCHANGED osfhnd
      BY <1>0, <2>1 DEF TypeOK
    <2>2. CASE /\ pc[t] \in ToHeld
               /\ \/ osfhnd' = [osfhnd EXCEPT ![e] = Invalid]
                  \/ \E h \in Handles \cup {Invalid} : osfhnd' = [osfhnd EXCEPT ![e] = h]
      BY <1>0, <2>2 DEF TypeOK
    <2>3. UseEnds(t) \/ AllocFails(t) \/ CreateFileFails(t) \/ UnknownType(t) \/ ReopenFails(t)
          \/ DuplicateFails(t) \/ Dup2Fails(t) \/ Configure(t) => UNCHANGED osfhnd
      BY DEF UseEnds, AllocFails, CreateFileFails, UnknownType, ReopenFails,
             DuplicateFails, Dup2Fails, Configure, slots, FreeOsfhnd
    <2>4. os[t] \in Handles \cup {Invalid}
      BY <1>0 DEF TypeOK
    <2>5. AttachOsfhandle(t) \/ Dup2Set(t) \/ CloseFree(t) \/ (\E h \in Handles : Reopen(t, h) \/ Duplicate(t, h))
             => <2>1!1 \/ <2>2!1
      BY <2>4 DEF AttachOsfhandle, Dup2Set, CloseFree, Reopen, Duplicate, SetOsHandle, FreeOsfhnd,
                  ToHeld, ToOpen
    <2> QED
      BY <2>1, <2>2, <2>3, <2>5
  <1>3. /\ osfile' \in [FH -> BOOLEAN]
        /\ \A f \in FH \ {e} : UNCHANGED osfile[f]
        /\ UNCHANGED osfile \/ pc[t] \in ToHeld
        /\ (osfile'[e] => osfile[e]) \/ (op[t] = "dup2" /\ pc[t] # "idle")
    <2>1. CASE UNCHANGED osfile
      <3>1. osfile' \in [FH -> BOOLEAN] /\ \A f \in FH \ {e} : UNCHANGED osfile[f]
        BY <1>0, <2>1 DEF TypeOK
      <3>2. osfile'[e] => osfile[e]
        BY <2>1
      <3> QED
        BY <2>1, <3>1, <3>2
    <2>2. CASE pc[t] \in ToHeld /\ osfile' = [osfile EXCEPT ![e] = FALSE]
      <3>1. osfile' \in [FH -> BOOLEAN] /\ \A f \in FH \ {e} : UNCHANGED osfile[f]
        BY <1>0, <2>2 DEF TypeOK
      <3>2. ~osfile'[e]
        BY <1>0, <2>2 DEF TypeOK
      <3> QED
        BY <2>2, <3>1, <3>2
    <2>3. CASE Dup2Set(t)
      <3>1. op[t] = "dup2" /\ pc[t] = "dup2_set" /\ osfile' = [osfile EXCEPT ![e] = osfile[fh[t]]]
        BY <1>0, <2>3 DEF Dup2Set, OpInv
      <3> QED
        BY <1>0, <3>1 DEF TypeOK, ToHeld
    <2>4. CASE \E h \in Handles : Duplicate(t, h)
      <3>1. op[t] = "dup" /\ pc[t] = "taken" /\ osfile' = [osfile EXCEPT ![e] = osfile[fh[t]]]
        BY <2>4 DEF Duplicate
      <3>2. osfile[e] /\ osfile[fh[t]]
        BY <1>0, <3>1 DEF EntryInv, ToOpen, FhHeld
      <3> QED
        BY <1>0, <3>1, <3>2 DEF TypeOK, ToHeld, ToOpen
    <2>5. UseEnds(t) \/ AllocFails(t) \/ AttachOsfhandle(t) \/ Dup2Fails(t) \/ Configure(t)
          \/ (\E h \in Handles : Reopen(t, h)) => UNCHANGED osfile
      BY DEF UseEnds, AllocFails, AttachOsfhandle, Dup2Fails, Configure, Reopen, slots
    <2>6. CreateFileFails(t) \/ UnknownType(t) \/ ReopenFails(t) \/ DuplicateFails(t) \/ CloseFree(t) => <2>2!1
      BY DEF CreateFileFails, UnknownType, ReopenFails, DuplicateFails, CloseFree, ToHeld, ToOpen
    <2> QED
      BY <2>1, <2>2, <2>3, <2>4, <2>5, <2>6
  <1>4. pc[t] \in ToHeld => lock[e] = t
    BY <1>0 DEF LockingInv, LockInv, Holds
  <1>5. \/ UNCHANGED index /\ pc[t] \notin {"scan", "enter", "enter_new"}
        \/ index = t /\ index' = NoThread
    <2>1. pc[t] = "scan" => index = t
      BY DEF LockingInv, LockInv
    <2> QED
      BY <2>1 DEF UseEnds, AllocFails, CreateFileFails, UnknownType, ReopenFails, AttachOsfhandle,
           DuplicateFails, Dup2Fails, Dup2Set, Configure, CloseFree, Reopen, Duplicate
  <1>6. live' \subseteq Handles
    <2>1. live' \subseteq live \/ \E h \in Handles : live' = live \cup {h}
      BY DEF UseEnds, AllocFails, CreateFileFails, UnknownType, ReopenFails, AttachOsfhandle,
           DuplicateFails, Dup2Fails, Dup2Set, Configure, CloseFree, Reopen, Duplicate
    <2> QED
      BY <1>0, <2>1 DEF TypeOK
  <1>7. TypeOK'
    <2>1. lock' \in [FH -> Threads \cup {NoThread}]
      BY <1>0, <1>1 DEF Return, Without, TypeOK
    <2>2. index' \in Threads \cup {NoThread}
      BY <1>0, <1>5 DEF TypeOK
    <2> QED
      BY <1>0, <1>1, <1>2, <1>3, <1>6, <2>1, <2>2 DEF TypeOK
  <1> HIDE DEF e
  <1> QED
    BY <1>0, <1>1, <1>2, <1>3, <1>4, <1>5, <1>7, ReturnKept

\* t takes and releases no lock.
LEMMA StayKept ==
  ASSUME LockingInv, NEW t \in Threads, NEW e \in FH, NEW q \in Steps,
         pc' = [pc EXCEPT ![t] = q], UNCHANGED <<lock, index>>,
         TypeOK', nhandle <= nhandle',
         op' \in [Threads -> Ops \cup {"none"}], at' \in [Threads -> Nat],
         \A u \in Threads \ {t} : UNCHANGED <<op[u], fh[u], to[u], at[u]>>,
         Touches(t, e),
         \A f \in FH : Holds(t, f)' <=> Holds(t, f),
         q \in {"scan", "enter", "enter_new"} <=> pc[t] \in {"scan", "enter", "enter_new"},
         OpInv(t)', EntryInv(t)', NewInv',
         "dup2" \notin Ops /\ q \in {"enter", "enter_new"} => ~osfile'[at'[t]]
  PROVE  LockingInv'
  <1>1. pc'[t] = q /\ \A u \in Threads \ {t} : pc'[u] = pc[u]
    BY DEF LockingInv, Types
  <1>2. Types'
    BY DEF LockingInv, Types
  <1>3. Mine(t)
    BY <1>1 DEF Mine
  <1>4. Exact(t)
    BY <1>1 DEF Exact, LockingInv, LockInv
  <1> QED
    BY <1>1, <1>2, <1>3, <1>4, LockingKept

\* A call begins.
LEMMA CallsLocking ==
  ASSUME LockingInv, NEW t \in Threads, Call(t)
  PROVE  LockingInv'
  <1> DEFINE Starts(name, f, g, q) ==
        /\ pc[t] = "idle"
        /\ op' = [op EXCEPT ![t] = name] /\ fh' = [fh EXCEPT ![t] = f] /\ to' = [to EXCEPT ![t] = g]
        /\ pc' = [pc EXCEPT ![t] = q]
        /\ \/ q = "alloc" /\ name \in {"open", "reopen", "osfhandle"}
           \/ q = "lock" /\ name \in {"close", "use", "dup"} /\ f = g /\ f < nhandle
           \/ q = "ensure" /\ name = "dup2" /\ f # g /\ g \in Files /\ f < nhandle
           \/ q = "lock1" /\ name = "dup2" /\ f # g /\ g \in Files /\ f < nhandle /\ g < nhandle
  <1>0. Types /\ TypeOK /\ 0 \in FH /\ Files \subseteq FH
    BY Sizes DEF LockingInv, Types
  <1>1. UNCHANGED <<nhandle, osfile, osfhnd, lock, index, at>>
    BY DEF Call, Open, OpenOsfhandle, Close, Use, Dup, Dup2, slots
  <1>2. live' \subseteq Handles /\ os' \in [Threads -> Handles \cup {Invalid}]
    BY <1>0 DEF Call, Open, OpenOsfhandle, Close, Use, Dup, Dup2, TypeOK
  <1>3. PICK name \in Ops, f \in FH, g \in FH, q \in {"alloc", "lock", "ensure", "lock1"} : Starts(name, f, g, q)
    <2>1. CASE Open(t)
      BY <1>0, <2>1 DEF Open, Begin, Goto
    <2>2. CASE \E h \in Handles : OpenOsfhandle(t, h)
      BY <1>0, <2>2 DEF OpenOsfhandle, Begin, Goto
    <2>3. CASE \E f \in Files : Close(t, f) \/ Use(t, f) \/ Dup(t, f)
      BY <1>0, <2>3 DEF Close, Use, Dup, Begin, Goto, IsOpen
    <2>4. CASE \E f, g \in Files : Dup2(t, f, g)
      <3>1. PICK f \in Files, g \in Files : Dup2(t, f, g)
        BY <2>4
      <3>2. CASE g < nhandle
        BY <1>0, <3>1, <3>2 DEF Dup2, Begin, Goto, IsOpen
      <3>3. CASE ~(g < nhandle)
        BY <1>0, <3>1, <3>3 DEF Dup2, Begin, Goto, IsOpen
      <3> QED
        BY <3>2, <3>3
    <2> QED
      BY <2>1, <2>2, <2>3, <2>4 DEF Call
  <1>4. op'[t] = name /\ fh'[t] = f /\ to'[t] = g /\ pc'[t] = q
    BY <1>0, <1>3 DEF Types, TypeOK
  <1>5. \A u \in Threads \ {t} : UNCHANGED <<op[u], fh[u], to[u], at[u]>>
    BY <1>0, <1>1, <1>3 DEF Types, TypeOK
  <1>6. TypeOK' /\ op' \in [Threads -> Ops \cup {"none"}] /\ at' \in [Threads -> Nat] /\ q \in Steps
    BY <1>0, <1>1, <1>2, <1>3 DEF Types, TypeOK, Steps, AllocSteps
  <1>7. Touches(t, f)
    BY <1>1 DEF Touches
  <1>8. \A x \in FH : ~Holds(t, x)' /\ ~Holds(t, x)
    BY <1>3, <1>4 DEF Holds, FhHeld, ToHeld, ToOpen, AllocSteps
  <1>9. OpInv(t)'
    BY <1>3, <1>4 DEF OpInv, AllocSteps
  <1>10. EntryInv(t)'
    BY <1>1, <1>3, <1>4 DEF EntryInv, FhHeld, ToHeld, ToOpen, AllocSteps
  <1>11. NewInv' /\ nhandle \in Nat
    BY <1>0, <1>1, NhandleBounds DEF NewInv, LockingInv
  <1>12. pc' = [pc EXCEPT ![t] = q] /\ nhandle <= nhandle'
    BY <1>1, <1>3, <1>11
  <1>13. pc[t] \notin {"scan", "enter", "enter_new"} /\ q \notin {"scan", "enter", "enter_new"}
    BY <1>3
  <1> HIDE DEF Starts
  <1> QED
    BY <1>1, <1>5, <1>6, <1>7, <1>8, <1>9, <1>10, <1>11, <1>12, <1>13, StayKept

\* A call goes on with the entry it has locked.
LEMMA GoesOnLocking ==
  ASSUME LockingInv, NEW t \in Threads,
         \/ CloseOsHandle(t) \/ FileOpen(t) \/ ConfigureFails(t)
         \/ (Configure(t) /\ op[t] = "reopen") \/ (CloseFree(t) /\ op[t] = "dup2")
         \/ \E h \in Handles : CreateFile(t, h) \/ Dup2Duplicate(t, h)
  PROVE  LockingInv'
  <1> DEFINE e == to[t]
             Moves(q) ==
               /\ pc' = [pc EXCEPT ![t] = q]
               /\ \/ /\ op[t] = "dup2" /\ pc[t] \in {"dup2", "close_os", "close_free"}
                     /\ q \in {"close_os", "close_free", "dup2_set"}
                  \/ op[t] \in {"open", "reopen", "close"} /\ pc[t] \in ToOpen
               /\ q \in {"created", "text_mode"} => op[t] \in {"open", "reopen"}
               /\ q = "reopen" => op[t] = "reopen"
               /\ q = "dup2_set" => op[t] = "dup2"
               /\ q # "dup2_set" => osfile[e] /\ osfile'[e]
  <1>0. Types /\ TypeOK /\ OpInv(t) /\ EntryInv(t) /\ e \in FH /\ fh[t] \in FH /\ os[t] \in Handles \cup {Invalid}
    BY DEF LockingInv, Types, TypeOK
  <1>1. UNCHANGED <<nhandle, lock, index, op, fh, to, at>>
    BY DEF CloseOsHandle, FileOpen, ConfigureFails, Configure, CloseFree, CreateFile, Dup2Duplicate, args, slots
  <1>2. /\ osfhnd' \in [FH -> Handles \cup {Invalid, NoConsole}]
        /\ \A f \in FH \ {e} : UNCHANGED osfhnd[f]
    BY <1>0 DEF CloseOsHandle, FileOpen, ConfigureFails, Configure, CloseFree, CreateFile, Dup2Duplicate,
                slots, SetOsHandle, FreeOsfhnd, TypeOK
  <1>3. /\ osfile' \in [FH -> BOOLEAN]
        /\ \A f \in FH \ {e} : UNCHANGED osfile[f]
    BY <1>0 DEF CloseOsHandle, FileOpen, ConfigureFails, Configure, CloseFree, CreateFile, Dup2Duplicate,
                slots, TypeOK
  <1>4. PICK q \in {"created", "text_mode", "reopen", "close_os", "close_free", "dup2_set"} : Moves(q)
    <2>1. CASE CloseOsHandle(t)
      <3>1. pc[t] = "close_os" /\ pc' = [pc EXCEPT ![t] = "close_free"] /\ UNCHANGED osfile
        BY <2>1 DEF CloseOsHandle, Goto, slots
      <3>2. osfile[e]
        BY <1>0, <3>1 DEF EntryInv, ToOpen
      <3>3. Moves("close_free")
        BY <1>0, <3>1, <3>2 DEF OpInv, ToOpen
      <3> QED
        BY <3>3
    <2>2. CASE FileOpen(t)
      <3>1. pc[t] = "created" /\ pc' = [pc EXCEPT ![t] = "text_mode"] /\ osfile' = [osfile EXCEPT ![e] = TRUE]
        BY <2>2 DEF FileOpen, Goto
      <3>2. osfile[e] /\ osfile'[e]
        BY <1>0, <3>1 DEF EntryInv, ToOpen, TypeOK
      <3>3. Moves("text_mode")
        BY <1>0, <3>1, <3>2 DEF OpInv, ToOpen
      <3> QED
        BY <3>3
    <2>3. CASE ConfigureFails(t)
      <3>1. pc[t] = "text_mode" /\ pc' = [pc EXCEPT ![t] = "close_os"] /\ UNCHANGED osfile
        BY <2>3 DEF ConfigureFails, Goto, slots
      <3>2. osfile[e]
        BY <1>0, <3>1 DEF EntryInv, ToOpen
      <3>3. Moves("close_os")
        BY <1>0, <3>1, <3>2 DEF OpInv, ToOpen
      <3> QED
        BY <3>3
    <2>4. CASE Configure(t) /\ op[t] = "reopen"
      <3>1. pc[t] = "text_mode" /\ pc' = [pc EXCEPT ![t] = "reopen"] /\ UNCHANGED osfile
        BY <2>4 DEF Configure, Goto, slots
      <3>2. osfile[e]
        BY <1>0, <3>1 DEF EntryInv, ToOpen
      <3>3. Moves("reopen")
        BY <1>0, <2>4, <3>1, <3>2 DEF OpInv, ToOpen
      <3> QED
        BY <3>3
    <2>5. CASE CloseFree(t) /\ op[t] = "dup2"
      <3>1. pc[t] = "close_free" /\ pc' = [pc EXCEPT ![t] = "dup2_set"]
        BY <2>5 DEF CloseFree, Goto
      <3>2. Moves("dup2_set")
        BY <2>5, <3>1
      <3> QED
        BY <3>2
    <2>6. CASE \E h \in Handles : CreateFile(t, h)
      <3>1. /\ pc[t] = "taken" /\ op[t] \in {"open", "reopen"}
            /\ pc' = [pc EXCEPT ![t] = "created"] /\ UNCHANGED osfile
        BY <2>6 DEF CreateFile, Goto, slots
      <3>2. osfile[e]
        BY <1>0, <3>1 DEF EntryInv, ToOpen
      <3>3. Moves("created")
        BY <1>0, <3>1, <3>2 DEF ToOpen
      <3> QED
        BY <3>3
    <2>7. CASE \E h \in Handles : Dup2Duplicate(t, h)
      <3>1. pc[t] = "dup2" /\ UNCHANGED osfile
        BY <2>7 DEF Dup2Duplicate, slots
      <3>2. op[t] = "dup2"
        BY <1>0, <3>1 DEF OpInv
      <3>3. CASE osfile[e]
        <4>1. pc' = [pc EXCEPT ![t] = "close_os"]
          BY <2>7, <3>3 DEF Dup2Duplicate, Goto
        <4>2. Moves("close_os")
          BY <3>1, <3>2, <3>3, <4>1
        <4> QED
          BY <4>2
      <3>4. CASE ~osfile[e]
        <4>1. pc' = [pc EXCEPT ![t] = "dup2_set"]
          BY <2>7, <3>4 DEF Dup2Duplicate, Goto
        <4>2. Moves("dup2_set")
          BY <3>1, <3>2, <4>1
        <4> QED
          BY <4>2
      <3> QED
        BY <3>3, <3>4
    <2> HIDE DEF Moves
    <2> QED
      BY <2>1, <2>2, <2>3, <2>4, <2>5, <2>6, <2>7
  <1>5. pc'[t] = q /\ q \in Steps
    BY <1>0, <1>4 DEF Types, Steps, AllocSteps
  <1>6. live' \subseteq Handles /\ os' \in [Threads -> Handles \cup {Invalid}]
    BY <1>0 DEF CloseOsHandle, FileOpen, ConfigureFails, Configure, CloseFree, CreateFile, Dup2Duplicate, TypeOK
  <1>7. TypeOK' /\ op' \in [Threads -> Ops \cup {"none"}] /\ at' \in [Threads -> Nat]
    BY <1>0, <1>1, <1>2, <1>3, <1>6 DEF Types, TypeOK
  <1>8. /\ FhHeld(t)' <=> FhHeld(t)
        /\ pc[t] \in ToHeld /\ pc'[t] \in ToHeld /\ pc[t] # "lock2" /\ pc'[t] # "lock2"
    BY <1>1, <1>4, <1>5 DEF FhHeld, ToHeld, ToOpen, AllocSteps
  <1>9. \A f \in FH : Holds(t, f)' <=> Holds(t, f)
    BY <1>1, <1>8 DEF Holds
  <1>10. lock[e] = t
    BY <1>0, <1>8 DEF LockingInv, LockInv, Holds
  <1>11. Touches(t, e)
    <2>1. (osfile'[e] => osfile[e]) \/ (op[t] = "dup2" /\ pc[t] # "idle")
      BY <1>4
    <2> QED
      BY <1>3, <1>10, <2>1 DEF Touches
  <1>12. OpInv(t)'
    <2>1. pc[t] # "idle"
      BY <1>8 DEF ToHeld, ToOpen
    <2> QED
      BY <1>0, <1>1, <1>4, <1>5, <2>1 DEF OpInv, AllocSteps
  <1>13. EntryInv(t)'
    <2>1. pc'[t] \in ToOpen => osfile'[e]
      BY <1>4, <1>5 DEF ToOpen
    <2>2. FhHeld(t) => osfile'[fh[t]] /\ fh[t] < nhandle
      <3>1. FhHeld(t) => fh[t] # e
        BY <1>0, <1>4 DEF FhHeld, OpInv, AllocSteps
      <3> QED
        BY <1>0, <1>3, <3>1 DEF EntryInv
    <2>3. to[t] < nhandle
      BY <1>0, <1>8 DEF EntryInv
    <2>4. pc'[t] \notin {"lock", "ensure", "lock1", "lock2", "enter", "enter_new"}
      BY <1>5
    <2> QED
      BY <1>1, <1>8, <2>1, <2>2, <2>3, <2>4 DEF EntryInv
  <1>14. NewInv' /\ nhandle \in Nat
    <2>1. e < nhandle /\ nhandle \in Nat /\ e \in Nat
      BY <1>0, <1>8, NhandleBounds, Sizes DEF EntryInv
    <2>2. \A f \in FH : f >= nhandle => UNCHANGED <<osfile[f], osfhnd[f]>>
      BY <1>2, <1>3, <2>1
    <2> QED
      BY <1>1, <2>1, <2>2 DEF LockingInv, NewInv
  <1>15. pc[t] \notin {"scan", "enter", "enter_new"} /\ q \notin {"scan", "enter", "enter_new"}
    BY <1>4 DEF ToOpen
  <1>16. pc' = [pc EXCEPT ![t] = q] /\ nhandle <= nhandle'
    BY <1>1, <1>4, <1>14
  <1> HIDE DEF e, Moves
  <1> QED
    BY <1>0, <1>1, <1>5, <1>7, <1>9, <1>11, <1>12, <1>13, <1>14, <1>15, <1>16, StayKept

\* _alloc_osfhnd and _dup2 look for entries, which exist then.
LEMMA TableLocking ==
  ASSUME LockingInv, NEW t \in Threads,
         \/ Scan(t) \/ Grow(t) \/ EnsureFhExists(t)
         \/ \E n \in 0..(Elts * Arrays) : EnsureFails(t, n)
  PROVE  LockingInv'
  <1>0. /\ Types /\ TypeOK /\ OpInv(t) /\ EntryInv(t) /\ to[t] \in FH
        /\ to[t] \in Nat /\ fh[t] \in Nat /\ at[t] \in Nat /\ nhandle \in Nat
    BY NhandleBounds, Sizes DEF LockingInv, Types, TypeOK
  <1>1. UNCHANGED <<osfile, osfhnd, lock, index, live, op, fh, to, os>>
    BY DEF Scan, Grow, EnsureFhExists, EnsureFails, slots, args
  <1>2. /\ nhandle' \in { Elts * n : n \in 1..Arrays } /\ nhandle <= nhandle'
        /\ Grow(t) => nhandle < nhandle'
        /\ EnsureFhExists(t) => to[t] < nhandle'
    <2>1. CASE Scan(t)
      <3>1. UNCHANGED nhandle /\ ~Grow(t) /\ ~EnsureFhExists(t)
        BY <1>0, <2>1 DEF Scan, slots, Grow, EnsureFhExists
      <3> QED
        BY <1>0, <3>1 DEF TypeOK
    <2>2. CASE Grow(t)
      <3>1. nhandle' = nhandle + Elts /\ nhandle < Elts * Arrays /\ ~EnsureFhExists(t)
        BY <2>2 DEF Grow, EnsureFhExists
      <3>2. \E n \in 1..Arrays : nhandle + Elts = Elts * n
        BY <1>0, <3>1, OneMore
      <3> QED
        BY <1>0, <3>1, <3>2
    <2>3. CASE EnsureFhExists(t)
      <3>0. ~Grow(t)
        BY <2>3 DEF Grow, EnsureFhExists
      <3>1. CASE to[t] < nhandle
        <4>1. nhandle' = nhandle
          BY <2>3, <3>1 DEF EnsureFhExists
        <4> QED
          BY <1>0, <3>0, <3>1, <4>1 DEF TypeOK
      <3>2. CASE ~(to[t] < nhandle)
        <4>1. nhandle' = Elts * (to[t] \div Elts + 1)
          BY <2>3, <3>2 DEF EnsureFhExists
        <4>2. (\E n \in 1..Arrays : nhandle' = Elts * n) /\ nhandle' > to[t]
          BY <1>0, <4>1, ArrayOf
        <4>3. nhandle' \in Nat
          BY <4>2, Whole
        <4> QED
          BY <1>0, <3>0, <3>2, <4>2, <4>3
      <3> QED
        BY <3>1, <3>2
    <2>4. CASE \E n \in 0..(Elts * Arrays) : EnsureFails(t, n)
      <3>1. PICK n \in 0..(Elts * Arrays) : EnsureFails(t, n)
        BY <2>4
      <3>2. n \in nhandle..to[t] /\ n % Elts = 0 /\ nhandle' = n /\ pc[t] = "ensure"
        BY <3>1 DEF EnsureFails
      <3>3. n \in Nat /\ Elts <= n /\ n <= Elts * Arrays
        BY <1>0, <3>2, NhandleBounds, Sizes
      <3>4. \E m \in 1..Arrays : n = Elts * m
        BY <3>2, <3>3, Multiple
      <3>5. ~Grow(t) /\ ~EnsureFhExists(t)
        <4>1. pc'[t] = "idle"
          BY <1>0, <3>1 DEF EnsureFails, Goto, Types
        <4>2. EnsureFhExists(t) => pc'[t] = "lock1"
          BY <1>0 DEF EnsureFhExists, Goto, Types
        <4> QED
          BY <3>2, <4>1, <4>2 DEF Grow
      <3> QED
        BY <1>0, <3>2, <3>3, <3>4, <3>5
    <2> QED
      BY <2>1, <2>2, <2>3, <2>4
  <1>3. nhandle' \in Nat
    BY <1>2, Whole
  <1> DEFINE Moves(q) ==
        /\ pc' = [pc EXCEPT ![t] = q]
        /\ \/ pc[t] = "scan" /\ q \in {"scan", "enter", "enter_new"}
           \/ pc[t] = "ensure" /\ q \in {"lock1", "idle"}
        /\ at' \in [Threads -> Nat] /\ at'[t] <= nhandle' /\ (\A u \in Threads \ {t} : at'[u] = at[u])
        /\ q \in {"enter", "enter_new"} => at'[t] < nhandle' /\ ~osfile[at'[t]]
        /\ q = "lock1" => to[t] < nhandle'
  <1>4. PICK q \in {"scan", "enter", "enter_new", "lock1", "idle"} : Moves(q)
    <2>1. CASE Scan(t)
      <3>1. pc[t] = "scan" /\ at[t] < nhandle /\ UNCHANGED nhandle
        BY <2>1 DEF Scan, slots
      <3>2. CASE osfile[at[t]]
        <4>1. pc' = pc /\ at' = [at EXCEPT ![t] = @ + 1]
          BY <2>1, <3>2 DEF Scan
        <4>2. Moves("scan")
          BY <1>0, <3>1, <4>1 DEF Types
        <4> QED
          BY <4>2
      <3>3. CASE ~osfile[at[t]]
        <4>1. pc' = [pc EXCEPT ![t] = "enter"] /\ at' = at
          BY <2>1, <3>3 DEF Scan, Goto
        <4>2. Moves("enter")
          BY <1>0, <3>1, <3>3, <4>1 DEF Types
        <4> QED
          BY <4>2
      <3> QED
        BY <3>2, <3>3
    <2>2. CASE Grow(t)
      <3>1. /\ pc[t] = "scan" /\ at[t] = nhandle /\ nhandle < Elts * Arrays /\ at' = at
            /\ pc' = [pc EXCEPT ![t] = "enter_new"]
        BY <2>2 DEF Grow, Goto
      <3>2. ~osfile[at[t]]
        BY <1>0, <3>1, Sizes DEF LockingInv, NewInv
      <3>3. Moves("enter_new")
        BY <1>0, <1>2, <1>3, <2>2, <3>1, <3>2 DEF Types
      <3> QED
        BY <3>3
    <2>3. CASE EnsureFhExists(t)
      <3>1. pc[t] = "ensure" /\ pc' = [pc EXCEPT ![t] = "lock1"] /\ at' = at
        BY <2>3 DEF EnsureFhExists, Goto
      <3>2. Moves("lock1")
        BY <1>0, <1>2, <1>3, <2>3, <3>1 DEF Types, TypeOK
      <3> QED
        BY <3>2
    <2>4. CASE \E n \in 0..(Elts * Arrays) : EnsureFails(t, n)
      <3>1. pc[t] = "ensure" /\ pc' = [pc EXCEPT ![t] = "idle"] /\ at' = at
        BY <2>4 DEF EnsureFails, Goto
      <3>2. Moves("idle")
        BY <1>0, <1>2, <1>3, <3>1 DEF Types, TypeOK
      <3> QED
        BY <3>2
    <2> HIDE DEF Moves
    <2> QED
      BY <2>1, <2>2, <2>3, <2>4
  <1>5. pc'[t] = q /\ q \in Steps
    BY <1>0, <1>4 DEF Types, Steps, AllocSteps
  <1>6. TypeOK'
    <2>1. \A u \in Threads : at'[u] \in 0..nhandle'
      BY <1>0, <1>2, <1>3, <1>4 DEF TypeOK, Types
    <2> QED
      BY <1>0, <1>1, <1>2, <2>1 DEF TypeOK
  <1>7. Touches(t, to[t])
    BY <1>1 DEF Touches
  <1>8. FhHeld(t)' <=> FhHeld(t)
    BY <1>0, <1>1, <1>4, <1>5 DEF FhHeld, OpInv, AllocSteps
  <1>9. \A f \in FH : Holds(t, f)' <=> Holds(t, f)
    BY <1>1, <1>4, <1>5, <1>8 DEF Holds, ToHeld, ToOpen
  <1>10. OpInv(t)'
    BY <1>0, <1>1, <1>4, <1>5 DEF OpInv, AllocSteps
  <1>11. EntryInv(t)'
    <2>1. pc'[t] \notin ToHeld /\ pc'[t] \notin {"lock", "lock2", "ensure"}
      BY <1>5 DEF ToHeld, ToOpen
    <2>2. FhHeld(t) => osfile[fh[t]] /\ fh[t] < nhandle
      BY <1>0 DEF EntryInv
    <2>3. pc'[t] = "lock1" => to[t] < nhandle' /\ fh[t] < nhandle
      BY <1>0, <1>4, <1>5 DEF EntryInv
    <2> QED
      BY <1>0, <1>1, <1>2, <1>3, <1>4, <1>5, <1>8, <2>1, <2>2, <2>3 DEF EntryInv, ToHeld
  <1>12. NewInv'
    <2>1. \A f \in FH : f >= nhandle' => f >= nhandle
      BY <1>0, <1>2, <1>3, Sizes
    <2> QED
      BY <1>1, <2>1 DEF LockingInv, NewInv
  <1>13. q \in {"scan", "enter", "enter_new"} <=> pc[t] \in {"scan", "enter", "enter_new"}
    BY <1>4
  <1>14. "dup2" \notin Ops /\ q \in {"enter", "enter_new"} => ~osfile'[at'[t]]
    BY <1>1, <1>4
  <1>15. /\ pc' = [pc EXCEPT ![t] = q] /\ at' \in [Threads -> Nat]
         /\ op' \in [Threads -> Ops \cup {"none"}]
         /\ \A u \in Threads \ {t} : UNCHANGED <<op[u], fh[u], to[u], at[u]>>
    BY <1>0, <1>1, <1>4 DEF Types
  <1> HIDE DEF Moves
  <1> QED
    BY <1>0, <1>1, <1>2, <1>5, <1>6, <1>7, <1>9, <1>10, <1>11, <1>12, <1>13, <1>14, <1>15, StayKept

\* t takes the lock of the free entry x, and keeps those it has.
LEMMA TakeKept ==
  ASSUME LockingInv, NEW t \in Threads, NEW x \in FH, NEW q \in Steps,
         pc' = [pc EXCEPT ![t] = q], lock[x] = NoThread, lock' = [lock EXCEPT ![x] = t],
         TypeOK', UNCHANGED <<nhandle, op, fh, at>>,
         \A u \in Threads \ {t} : UNCHANGED to[u],
         \A f \in FH \ {x} : UNCHANGED <<osfile[f], osfhnd[f]>>,
         x < nhandle,
         osfile'[x] = osfile[x] \/ index = t,
         \A f \in FH : Holds(t, f)' <=> Holds(t, f) \/ f = x,
         \/ UNCHANGED index /\ pc[t] \notin {"scan", "enter", "enter_new"}
         \/ index = t /\ index' = NoThread,
         q \notin {"scan", "enter", "enter_new"},
         OpInv(t)', EntryInv(t)'
  PROVE  LockingInv'
  <1>0. Types /\ TypeOK /\ nhandle \in Nat /\ nhandle <= nhandle'
    BY NhandleBounds DEF LockingInv, Types
  <1>1. pc'[t] = q /\ \A u \in Threads \ {t} : pc'[u] = pc[u]
    BY <1>0 DEF Types
  <1>2. Types'
    BY <1>0 DEF Types
  <1>3. lock'[x] = t /\ \A f \in FH \ {x} : lock'[f] = lock[f]
    BY <1>0 DEF TypeOK
  <1>4. Mine(t)
    BY <1>1, <1>3 DEF Mine
  <1>5. Exact(t)
    <2>1. \A f \in FH : lock[f] = t <=> Holds(t, f)
      BY DEF LockingInv, LockInv
    <2>2. index' # t
      BY DEF LockingInv, LockInv
    <2> QED
      BY <1>1, <1>3, <2>1, <2>2 DEF Exact
  <1>6. Touches(t, x)
    BY DEF Touches
  <1>7. NewInv'
    <2>1. \A f \in FH : f >= nhandle => UNCHANGED <<osfile[f], osfhnd[f]>>
      BY <1>0, Sizes
    <2> QED
      BY <2>1 DEF LockingInv, NewInv
  <1> QED
    BY <1>0, <1>1, <1>2, <1>4, <1>5, <1>6, <1>7, LockingKept

\* The entry that _alloc_osfhnd takes.
LEMMA TakenLocking ==
  ASSUME LockingInv, NEW t \in Threads,
         (Enter(t) /\ ~osfile[at[t]]) \/ EnterNew(t)
  PROVE  LockingInv'
  <1> DEFINE x == at[t]
  <1>0. Types /\ TypeOK /\ OpInv(t) /\ EntryInv(t) /\ nhandle \in Nat /\ at[t] \in Nat
    BY NhandleBounds DEF LockingInv, Types
  <1>1. /\ pc[t] \in {"enter", "enter_new"} /\ lock[x] = NoThread
        /\ lock' = [lock EXCEPT ![x] = t] /\ osfile' = [osfile EXCEPT ![x] = TRUE]
        /\ to' = [to EXCEPT ![t] = x] /\ index' = NoThread /\ pc' = [pc EXCEPT ![t] = "taken"]
        /\ UNCHANGED <<nhandle, op, fh, at, live, os>>
        /\ osfhnd' = osfhnd \/ osfhnd' = [osfhnd EXCEPT ![x] = Invalid]
    BY DEF Enter, EnterNew, Taken, Goto
  <1>2. x \in FH /\ x < nhandle /\ index = t
    <2>1. x < nhandle /\ index = t
      BY <1>0, <1>1 DEF EntryInv, LockingInv, LockInv
    <2> QED
      BY <1>0, <2>1, NhandleBounds, Sizes
  <1>3. pc'[t] = "taken" /\ to'[t] = x /\ \A u \in Threads \ {t} : UNCHANGED to[u]
    BY <1>0, <1>1 DEF Types, TypeOK
  <1>4. /\ osfile' \in [FH -> BOOLEAN] /\ osfhnd' \in [FH -> Handles \cup {Invalid, NoConsole}]
        /\ \A f \in FH \ {x} : UNCHANGED <<osfile[f], osfhnd[f]>>
    BY <1>0, <1>1 DEF TypeOK
  <1>4a. osfile'[x]
    BY <1>0, <1>1, <1>2 DEF TypeOK
  <1>5. TypeOK'
    <2>1. lock' \in [FH -> Threads \cup {NoThread}] /\ to' \in [Threads -> FH]
      BY <1>0, <1>1, <1>2 DEF TypeOK
    <2> QED
      BY <1>0, <1>1, <1>4, <2>1 DEF TypeOK
  <1>6. FhHeld(t)' <=> FhHeld(t)
    BY <1>0, <1>1, <1>3 DEF FhHeld, OpInv, AllocSteps
  <1>7. \A f \in FH : Holds(t, f)' <=> Holds(t, f) \/ f = x
    BY <1>1, <1>3, <1>6 DEF Holds, ToHeld, ToOpen
  <1>8. OpInv(t)'
    BY <1>0, <1>1, <1>3 DEF OpInv, AllocSteps
  <1>9. EntryInv(t)'
    <2>1. FhHeld(t) => fh[t] < nhandle /\ osfile'[fh[t]]
      <3>1. FhHeld(t) => fh[t] < nhandle /\ osfile[fh[t]] /\ fh[t] \in FH
        BY <1>0 DEF EntryInv, TypeOK
      <3> QED
        BY <1>4, <1>4a, <3>1
    <2> QED
      BY <1>1, <1>2, <1>3, <1>4a, <1>6, <2>1 DEF EntryInv
  <1>10. "taken" \in Steps
    BY DEF Steps
  <1> HIDE DEF x
  <1> QED
    BY <1>1, <1>2, <1>3, <1>4, <1>5, <1>7, <1>8, <1>9, <1>10, TakeKept

\* A handle is locked, and _dup2 locks its two.
LEMMA LocksLocking ==
  ASSUME LockingInv, NEW t \in Threads, Lock(t) \/ LockFirst(t) \/ LockSecond(t)
  PROVE  LockingInv'
  <1>0. /\ Types /\ TypeOK /\ OpInv(t) /\ EntryInv(t) /\ fh[t] \in FH /\ to[t] \in FH
        /\ First(t) \in FH /\ Second(t) \in FH
    BY DEF LockingInv, Types, TypeOK, First, Second
  <1>1. UNCHANGED <<nhandle, osfile, osfhnd, index, live, op, fh, to, at, os>>
    BY DEF Lock, LockFirst, LockSecond, slots, args
  <1>2. CASE Return(t)
    <2>1. TypeOK'
      BY <1>0, <1>1, <1>2 DEF TypeOK, Return, Without
    <2>2. pc[t] \notin {"scan", "enter", "enter_new"}
      BY DEF Lock, LockFirst, LockSecond
    <2> QED
      BY <1>0, <1>1, <1>2, <2>1, <2>2, ReturnKept
  <1> DEFINE Takes(x, q) ==
        /\ pc' = [pc EXCEPT ![t] = q] /\ lock[x] = NoThread /\ lock' = [lock EXCEPT ![x] = t]
        /\ \/ pc[t] = "lock" /\ x = fh[t] /\ osfile[fh[t]]
              /\ \/ q = "close_os" /\ op[t] = "close"
                 \/ q = "use" /\ op[t] = "use"
                 \/ q = "alloc" /\ op[t] = "dup"
           \/ pc[t] = "lock1" /\ x = First(t) /\ q = "lock2"
           \/ pc[t] = "lock2" /\ x = Second(t) /\ q = "dup2" /\ osfile[fh[t]]
  <1>3. CASE \E x \in FH, q \in Steps : Takes(x, q)
    <2>1. PICK x \in FH, q \in Steps : Takes(x, q)
      BY <1>3
    <2>2. pc'[t] = q
      BY <1>0, <2>1 DEF Types
    <2>3. TypeOK'
      BY <1>0, <1>1, <2>1 DEF TypeOK
    <2>4. First(t)' = First(t)
      BY <1>1 DEF First
    <2>5. x < nhandle /\ fh[t] < nhandle /\ to[t] < nhandle
      BY <1>0, <2>1 DEF EntryInv, First, Second
    <2>6. op[t] = "dup2" /\ pc[t] = "lock2" => {First(t), Second(t)} = {fh[t], to[t]}
      BY DEF First, Second
    <2>7. \A f \in FH : Holds(t, f)' <=> Holds(t, f) \/ f = x
      BY <1>0, <1>1, <2>1, <2>2, <2>4, <2>6 DEF Holds, FhHeld, ToHeld, ToOpen, AllocSteps, OpInv
    <2>8. OpInv(t)'
      BY <1>0, <1>1, <2>1, <2>2 DEF OpInv, AllocSteps
    <2>9. EntryInv(t)'
      BY <1>0, <1>1, <2>1, <2>2, <2>5 DEF EntryInv, FhHeld, ToHeld, ToOpen, AllocSteps, OpInv
    <2>10. pc[t] \notin {"scan", "enter", "enter_new"} /\ q \notin {"scan", "enter", "enter_new"}
      BY <2>1
    <2>11. pc' = [pc EXCEPT ![t] = q] /\ lock[x] = NoThread /\ lock' = [lock EXCEPT ![x] = t]
      BY <2>1
    <2> HIDE DEF Takes
    <2> QED
      BY <1>1, <2>3, <2>5, <2>7, <2>8, <2>9, <2>10, <2>11, TakeKept
  <1>4. Return(t) \/ \E x \in FH, q \in Steps : Takes(x, q)
    <2>0. {"close_os", "use", "alloc", "lock2", "dup2"} \subseteq Steps
      BY DEF Steps, AllocSteps
    <2>1. CASE Lock(t)
      <3>1. op[t] \in {"close", "use", "dup"} /\ pc[t] = "lock" /\ lock[fh[t]] = NoThread
        BY <1>0, <2>1 DEF Lock, OpInv
      <3>2. CASE osfile[fh[t]]
        <4>1. /\ lock' = [lock EXCEPT ![fh[t]] = t]
              /\ pc' = [pc EXCEPT ![t] = CASE op[t] = "close" -> "close_os"
                           [] op[t] = "use"   -> "use"
                           [] op[t] = "dup"   -> "alloc"]
          BY <2>1, <3>2 DEF Lock, Goto
        <4>2. CASE op[t] = "close"
          <5>1. Takes(fh[t], "close_os")
            BY <3>1, <3>2, <4>1, <4>2
          <5> QED
            BY <1>0, <2>0, <5>1
        <4>3. CASE op[t] = "use"
          <5>1. Takes(fh[t], "use")
            BY <3>1, <3>2, <4>1, <4>3
          <5> QED
            BY <1>0, <2>0, <5>1
        <4>4. CASE op[t] = "dup"
          <5>1. Takes(fh[t], "alloc")
            BY <3>1, <3>2, <4>1, <4>4
          <5> QED
            BY <1>0, <2>0, <5>1
        <4> QED
          BY <3>1, <4>2, <4>3, <4>4
      <3>3. CASE ~osfile[fh[t]]
        BY <2>1, <3>3 DEF Lock
      <3> QED
        BY <3>2, <3>3
    <2>2. CASE LockFirst(t)
      <3>1. Takes(First(t), "lock2")
        BY <2>2 DEF LockFirst, Goto
      <3> QED
        BY <1>0, <2>0, <3>1
    <2>3. CASE LockSecond(t)
      <3>1. CASE osfile[fh[t]]
        <4>1. Takes(Second(t), "dup2")
          BY <2>3, <3>1 DEF LockSecond, Goto
        <4> QED
          BY <1>0, <2>0, <4>1
      <3>2. CASE ~osfile[fh[t]]
        BY <2>3, <3>2 DEF LockSecond
      <3> QED
        BY <3>1, <3>2
    <2> QED
      BY <2>1, <2>2, <2>3
  <1> QED
    BY <1>2, <1>3, <1>4

\* The index lock is taken; an entry turns out to be open.
LEMMA IndexLocking ==
  ASSUME LockingInv, NEW t \in Threads, AllocLock(t) \/ (Enter(t) /\ osfile[at[t]])
  PROVE  LockingInv'
  <1>0. /\ Types /\ TypeOK /\ OpInv(t) /\ EntryInv(t) /\ to[t] \in FH /\ nhandle \in Nat /\ at[t] \in Nat
    BY NhandleBounds DEF LockingInv, Types, TypeOK
  <1>1. /\ pc' = [pc EXCEPT ![t] = "scan"] /\ pc[t] \in {"alloc", "enter"} /\ index' = t
        /\ index \in {t, NoThread}
        /\ UNCHANGED <<nhandle, osfile, osfhnd, lock, live, op, fh, to, os>>
        /\ \E n \in Nat : at' = [at EXCEPT ![t] = n] /\ n <= nhandle
    <2>1. CASE AllocLock(t)
      <3>1. 0 \in Nat /\ at' = [at EXCEPT ![t] = 0] /\ 0 <= nhandle
        BY <1>0, <2>1 DEF AllocLock
      <3>2. \E n \in Nat : at' = [at EXCEPT ![t] = n] /\ n <= nhandle
        BY <3>1
      <3> QED
        BY <2>1, <3>2 DEF AllocLock, Goto, slots, args
    <2>2. CASE Enter(t) /\ osfile[at[t]]
      <3>1. pc[t] = "enter" /\ index = t /\ at[t] < nhandle
        BY <1>0, <2>2 DEF Enter, LockingInv, LockInv, EntryInv
      <3>2. /\ pc' = [pc EXCEPT ![t] = "scan"] /\ at' = [at EXCEPT ![t] = at[t] + 1]
            /\ UNCHANGED <<nhandle, osfile, osfhnd, lock, index, live, op, fh, to, os>>
        BY <2>2 DEF Enter, Goto
      <3>3. at[t] + 1 \in Nat /\ at[t] + 1 <= nhandle
        BY <1>0, <3>1
      <3>4. \E n \in Nat : at' = [at EXCEPT ![t] = n] /\ n <= nhandle
        BY <3>2, <3>3
      <3> QED
        BY <3>1, <3>2, <3>4
    <2> QED
      BY <2>1, <2>2
  <1>2. pc'[t] = "scan" /\ \A u \in Threads \ {t} : pc'[u] = pc[u] /\ at'[u] = at[u]
    BY <1>0, <1>1 DEF Types
  <1>3. TypeOK'
    <2>1. \A u \in Threads : at'[u] \in 0..nhandle
      BY <1>0, <1>1, <1>2 DEF TypeOK, Types
    <2> QED
      BY <1>0, <1>1, <2>1 DEF TypeOK
  <1>4. Types'
    BY <1>0, <1>1, <1>3 DEF Types, Steps, AllocSteps
  <1>5. FhHeld(t)' <=> FhHeld(t)
    BY <1>0, <1>1, <1>2 DEF FhHeld, OpInv, AllocSteps
  <1>6. \A f \in FH : Holds(t, f)' <=> Holds(t, f)
    BY <1>1, <1>2, <1>5 DEF Holds, ToHeld, ToOpen
  <1>7. Mine(t) /\ Touches(t, to[t])
    BY <1>1, <1>2 DEF Mine, Touches
  <1>8. Exact(t)
    BY <1>1, <1>2, <1>6 DEF Exact, LockingInv, LockInv
  <1>9. OpInv(t)'
    BY <1>0, <1>1, <1>2 DEF OpInv, AllocSteps
  <1>10. EntryInv(t)'
    BY <1>0, <1>1, <1>2, <1>5 DEF EntryInv, ToHeld, ToOpen
  <1>11. NewInv' /\ nhandle <= nhandle'
    BY <1>0, <1>1 DEF LockingInv, NewInv
  <1> QED
    BY <1>0, <1>2, <1>4, <1>7, <1>8, <1>9, <1>10, <1>11, LockingKept

LEMMA InitLocking == Init => LockingInv
  <1> SUFFICES ASSUME Init PROVE LockingInv
    OBVIOUS
  <1>1. TypeOK
    <2>1. 1 \in 1..Arrays /\ Elts * 1 = Elts
      OBVIOUS
    <2>2. nhandle \in { Elts * n : n \in 1..Arrays }
      BY <2>1 DEF Init
    <2>3. 0 \in FH
      BY Sizes
    <2> QED
      BY <2>2, <2>3 DEF Init, TypeOK
  <1>2. Types
    BY <1>1 DEF Init, Types, Steps
  <1>3. \A t \in Threads : OpInv(t) /\ EntryInv(t)
    BY DEF Init, OpInv, EntryInv, FhHeld, ToHeld, ToOpen, AllocSteps
  <1>4. LockInv
    BY DEF Init, LockInv, Holds, FhHeld, ToHeld, ToOpen, AllocSteps
  <1>5. ASSUME NEW f \in FH, f >= nhandle PROVE ~osfile[f] /\ osfhnd[f] = Invalid
    <2>1. ~(f < 3)
      BY <1>5, Sizes DEF Init
    <2> QED
      BY <2>1 DEF Init
  <1>6. NewInv /\ ScanInv
    BY <1>5 DEF Init, NewInv, ScanInv
  <1> QED
    BY <1>2, <1>3, <1>4, <1>6 DEF LockingInv

LEMMA StepLocking ==
  ASSUME LockingInv, NEW t \in Threads, Call(t) \/ Step(t)
  PROVE  LockingInv'
  <1>1. CASE Call(t)
    BY <1>1, CallsLocking
  <1>2. CASE Enter(t)
    BY <1>2, TakenLocking, IndexLocking
  <1>3. CASE Configure(t) \/ CloseFree(t)
    BY <1>3, ReturnsLocking, GoesOnLocking
  <1>4. CASE \E h \in Handles : CreateFile(t, h) \/ Reopen(t, h) \/ Duplicate(t, h) \/ Dup2Duplicate(t, h)
    BY <1>4, ReturnsLocking, GoesOnLocking
  <1>5. CASE Step(t) /\ ~<1>2!1 /\ ~<1>3!1 /\ ~<1>4!1
    BY <1>5, LocksLocking, ReturnsLocking, GoesOnLocking, TableLocking, TakenLocking, IndexLocking DEF Step
  <1> QED
    BY <1>1, <1>2, <1>3, <1>4, <1>5

\* The locks of entries and the index lock are held exactly where the code
\* says, whatever calls the driver makes.
THEOREM LockDiscipline == Spec => []LockingInv
  <1>1. LockingInv /\ [Next]_vars => LockingInv'
    <2>1. CASE UNCHANGED vars
      BY <2>1 DEF vars, LockingInv, Types, TypeOK, OpInv, EntryInv, LockInv, NewInv, ScanInv, Holds,
                  FhHeld, First
    <2> QED
      BY <2>1, StepLocking DEF Next
  <1> QED
    BY <1>1, InitLocking, PTL DEF Spec

\* Types, and _alloc_osfhnd stays within the arrays that exist (osfinfo.cpp).
THEOREM LowioTypes == Spec => []TypeOK
  BY LockDiscipline, PTL DEF LockingInv, Types

-----------------------------------------------------------------------------
(* Circles of threads that wait for each other *)

\* The largest of a set of bounded numbers.
LEMMA GreatestOf ==
  ASSUME NEW T, T \subseteq FH, T # {}
  PROVE  \E m \in T : \A n \in T : n <= m
  <1> DEFINE R == { p \in Nat \X Nat : p[1] < p[2] }
             N == Elts * Arrays
             D == { N - n : n \in T }
  <1>0. N \in Nat /\ \A n \in T : n \in Nat /\ n < N
    BY Sizes
  <1>1. IsWellFoundedOn(R, Nat)
    BY NatLessThanWellFounded, Zenon DEF OpToRel
  <1>2. D \subseteq Nat /\ D # {}
    <2> HIDE DEF N
    <2> QED
      BY <1>0
  <1>3. PICK d \in D : \A c \in D : ~(<<c, d>> \in R)
    <2> HIDE DEF R, D
    <2> QED
      BY <1>1, <1>2, WFMin
  <1>4. PICK m \in T : d = N - m
    OBVIOUS
  <1>5. ASSUME NEW n \in T PROVE n <= m
    <2>1. N - n \in D /\ N - n \in Nat /\ d \in Nat
      BY <1>2
    <2>2. N - n < d => <<N - n, d>> \in R
      BY <2>1
    <2>3. ~(N - n < d)
      BY <1>3, <2>1, <2>2
    <2> HIDE DEF N
    <2> QED
      BY <1>0, <1>4, <2>3
  <1> QED
    BY <1>5

WaitSteps == {"lock", "enter", "enter_new", "alloc", "ensure", "lock1", "lock2"}

\* What a thread waits for.
LEMMA WaitsFor ==
  ASSUME LockingInv, NEW t \in Threads, NEW u \in Threads, u \in Blockers(t)
  PROVE  /\ pc[t] \in WaitSteps /\ op[t] \in Ops
         /\ \/ pc[t] \in {"alloc", "ensure"} /\ index = u
            \/ pc[t] \in {"enter", "enter_new"} /\ at[t] \in FH /\ lock[at[t]] = u
            \/ pc[t] \in {"lock", "lock1"} /\ \E f \in FH : lock[f] = u
            \/ pc[t] = "lock2" /\ Second(t) \in FH /\ lock[Second(t)] = u
  <1>1. /\ fh[t] \in FH /\ to[t] \in FH /\ u # NoThread /\ OpInv(t) /\ EntryInv(t)
        /\ at[t] \in Nat /\ nhandle \in Nat
    BY NhandleBounds DEF LockingInv, Types, TypeOK
  <1>2. First(t) \in FH /\ Second(t) \in FH
    BY <1>1 DEF First, Second
  <1>3. pc[t] \in {"enter", "enter_new"} => at[t] \in FH
    BY <1>1, NhandleBounds, Sizes DEF EntryInv, LockingInv, Types
  <1>4. pc[t] \in WaitSteps
    BY <1>1 DEF Blockers, WaitSteps
  <1>5. op[t] \in Ops
    BY <1>1, <1>4 DEF OpInv, WaitSteps
  <1>6. CASE pc[t] = "lock"
    BY <1>1, <1>4, <1>5, <1>6 DEF Blockers
  <1>7. CASE pc[t] \in {"enter", "enter_new"}
    BY <1>3, <1>4, <1>5, <1>7 DEF Blockers
  <1>8. CASE pc[t] \in {"alloc", "ensure"}
    BY <1>4, <1>5, <1>8 DEF Blockers
  <1>9. CASE pc[t] = "lock1"
    BY <1>2, <1>4, <1>5, <1>9 DEF Blockers
  <1>10. CASE pc[t] = "lock2"
    BY <1>2, <1>4, <1>5, <1>10 DEF Blockers
  <1> QED
    BY <1>4, <1>6, <1>7, <1>8, <1>9, <1>10 DEF WaitSteps

\* What a thread that waits has locked.
LEMMA WaiterHolds ==
  ASSUME LockingInv, NEW u \in Threads, pc[u] \in WaitSteps
  PROVE  /\ \A f \in FH : lock[f] = u =>
              \/ op[u] = "dup" /\ pc[u] \in {"alloc", "enter", "enter_new"} /\ f = fh[u] /\ osfile[f]
              \/ op[u] = "dup2" /\ pc[u] = "lock2" /\ f = First(u)
         /\ index = u => pc[u] \in {"enter", "enter_new"}
  <1>1. OpInv(u) /\ EntryInv(u)
    BY DEF LockingInv
  <1>2. ASSUME NEW f \in FH, lock[f] = u
        PROVE  \/ op[u] = "dup" /\ pc[u] \in {"alloc", "enter", "enter_new"} /\ f = fh[u] /\ osfile[f]
               \/ op[u] = "dup2" /\ pc[u] = "lock2" /\ f = First(u)
    <2>1. Holds(u, f)
      BY <1>2 DEF LockingInv, LockInv
    <2>2. CASE pc[u] = "lock2"
      BY <1>1, <2>1, <2>2 DEF Holds, FhHeld, ToHeld, ToOpen, AllocSteps, OpInv
    <2>3. CASE pc[u] # "lock2"
      <3>1. FhHeld(u) /\ f = fh[u]
        BY <2>1, <2>3 DEF Holds, ToHeld, ToOpen, WaitSteps
      <3>2. op[u] = "dup" /\ pc[u] \in {"alloc", "enter", "enter_new"}
        BY <3>1 DEF FhHeld, WaitSteps, AllocSteps
      <3> QED
        BY <1>1, <3>1, <3>2 DEF EntryInv
    <2> QED
      BY <2>2, <2>3
  <1> QED
    BY <1>2 DEF LockingInv, LockInv, WaitSteps

LEMMA DupInCircle == LockingInv => OnlyDupDeadlocks
  <1> SUFFICES ASSUME LockingInv, NEW S \in SUBSET Threads, Stuck(S), \A t \in S : op[t] # "dup"
               PROVE  FALSE
    BY DEF OnlyDupDeadlocks
  <1>1. ASSUME NEW t \in S PROVE \E u \in S : u \in Blockers(t)
    BY DEF Stuck
  <1>2. ASSUME NEW t \in S PROVE t \in Threads /\ pc[t] \in WaitSteps
    BY <1>1, WaitsFor
  <1>3. ASSUME NEW u \in S, NEW f \in FH, lock[f] = u PROVE pc[u] = "lock2" /\ f = First(u)
    BY <1>2, <1>3, WaiterHolds
  <1>4. \E t \in S : pc[t] = "lock2"
    <2>1. PICK t \in S : TRUE
      BY DEF Stuck
    <2>2. PICK u \in S : u \in Blockers(t)
      BY <1>1
    <2>3. CASE pc[t] \in {"alloc", "ensure"} /\ index = u
      <3>1. pc[u] \in {"enter", "enter_new"}
        BY <1>2, <2>3, WaiterHolds
      <3>2. PICK v \in S : v \in Blockers(u)
        BY <1>1
      <3>3. at[u] \in FH /\ lock[at[u]] = v
        BY <1>2, <3>1, <3>2, WaitsFor
      <3> QED
        BY <1>3, <3>3
    <2>4. CASE \E f \in FH : lock[f] = u
      BY <1>3, <2>4
    <2> QED
      BY <1>2, <2>2, <2>3, <2>4, WaitsFor
  <1> DEFINE M == { First(t) : t \in { u \in S : pc[u] = "lock2" } }
  <1>5. ASSUME NEW t \in S, pc[t] = "lock2" PROVE First(t) \in FH /\ First(t) < Second(t) /\ Second(t) \in M
    <2>1. fh[t] \in FH /\ to[t] \in FH /\ fh[t] # to[t]
      BY <1>2, <1>5 DEF LockingInv, Types, TypeOK, OpInv
    <2>2. First(t) \in FH /\ First(t) < Second(t)
      BY <2>1, Sizes DEF First, Second
    <2>3. PICK u \in S : u \in Blockers(t)
      BY <1>1
    <2>4. Second(t) \in FH /\ lock[Second(t)] = u
      BY <1>2, <1>5, <2>3, WaitsFor
    <2>5. pc[u] = "lock2" /\ Second(t) = First(u)
      BY <1>3, <2>4
    <2> QED
      BY <2>2, <2>5
  <1>6. M \subseteq FH /\ M # {}
    BY <1>4, <1>5
  <1>7. PICK m \in M : \A n \in M : n <= m
    <2> HIDE DEF M
    <2> QED
      BY <1>6, GreatestOf
  <1>8. PICK t \in S : pc[t] = "lock2" /\ m = First(t)
    OBVIOUS
  <1>9. Second(t) <= m /\ m < Second(t) /\ Second(t) \in Nat /\ m \in Nat
    <2>1. Second(t) \in M /\ First(t) < Second(t)
      BY <1>5, <1>8
    <2> HIDE DEF M
    <2> QED
      BY <1>6, <1>7, <1>8, <2>1, Sizes
  <1> QED
    BY <1>9

LEMMA NoCircle ==
  ASSUME ~({"dup", "dup2"} \subseteq Ops), LockingInv
  PROVE  NoCircularWait
  <1> SUFFICES ASSUME NEW S \in SUBSET Threads, Stuck(S) PROVE FALSE
    BY DEF NoCircularWait
  <1>1. ASSUME NEW t \in S PROVE \E u \in S : u \in Blockers(t)
    BY DEF Stuck
  <1>2. ASSUME NEW t \in S PROVE t \in Threads /\ pc[t] \in WaitSteps /\ op[t] \in Ops
    BY <1>1, WaitsFor
  <1>3. PICK d \in S : op[d] = "dup"
    BY DupInCircle DEF OnlyDupDeadlocks
  <1>4. "dup2" \notin Ops
    BY <1>2, <1>3
  <1>5. ASSUME NEW u \in S, NEW f \in FH, lock[f] = u
        PROVE  op[u] = "dup" /\ pc[u] \in {"alloc", "enter", "enter_new"} /\ f = fh[u] /\ osfile[f]
    BY <1>2, <1>4, <1>5, WaiterHolds
  <1>6. ASSUME NEW u \in S, pc[u] \in {"enter", "enter_new"} PROVE FALSE
    <2>1. PICK v \in S : v \in Blockers(u)
      BY <1>1
    <2>2. at[u] \in FH /\ lock[at[u]] = v
      BY <1>2, <1>6, <2>1, WaitsFor
    <2>3. osfile[at[u]]
      BY <1>5, <2>2
    <2> QED
      BY <1>2, <1>4, <1>6, <2>3 DEF LockingInv, ScanInv
  <1>7. ASSUME NEW t \in S, pc[t] = "alloc" PROVE FALSE
    <2>1. PICK u \in S : u \in Blockers(t)
      BY <1>1
    <2>2. index = u
      BY <1>2, <1>7, <2>1, WaitsFor
    <2> QED
      BY <1>2, <1>6, <2>2, WaiterHolds
  <1>8. PICK t \in S : TRUE
    BY DEF Stuck
  <1>9. PICK u \in S : u \in Blockers(t)
    BY <1>1
  <1>10. CASE index = u
    BY <1>2, <1>6, <1>10, WaiterHolds
  <1>11. CASE \E f \in FH : lock[f] = u
    BY <1>5, <1>6, <1>7, <1>11
  <1> QED
    BY <1>2, <1>9, <1>10, <1>11, WaitsFor

(***************************************************************************)
(* Threads that wait for each other in a circle always have a _dup among   *)
(* them: the order in which _dup2 locks its two handles, and _alloc_osfhnd *)
(* the index and an entry, rule out any other (dup2.cpp, osfinfo.cpp).     *)
(***************************************************************************)
THEOREM OnlyDupDeadlocksAlways == Spec => []OnlyDupDeadlocks
  BY LockDiscipline, DupInCircle, PTL

(***************************************************************************)
(* A driver that does not use both _dup and _dup2 never has threads that   *)
(* wait for each other in a circle (dup.cpp, dup2.cpp, osfinfo.cpp).       *)
(***************************************************************************)
THEOREM NoDeadlockWithoutBoth ==
  ASSUME ~({"dup", "dup2"} \subseteq Ops)
  PROVE  Spec => []NoCircularWait
  BY LockDiscipline, NoCircle, PTL

-----------------------------------------------------------------------------
(* The owners of kernel handles *)

Closes == {"close_free", "reopen"}

Has(f, h) == osfile[f] /\ osfhnd[f] = h /\ ~Closing(f)
Brings(t, h) == InTransit(t) /\ os[t] = h

\* What a step of t on entry e may do to the owners of h: nothing, move h from
\* the call to the entry, open h with one of them for owner, or close h.
Passes(t, e, h) ==
    \/ /\ Has(e, h)' <=> Has(e, h)
       /\ Brings(t, h)' <=> Brings(t, h)
       /\ h \in live' <=> h \in live
    \/ h \in live /\ h \in live' /\ Brings(t, h) /\ ~Brings(t, h)' /\ Has(e, h)'
    \/ h \notin live /\ h \in live' /\ ((Has(e, h)' /\ ~Brings(t, h)') \/ (~Has(e, h)' /\ Brings(t, h)'))
    \/ h \notin live' /\ (Has(e, h) \/ Brings(t, h)) /\ ~Has(e, h)' /\ ~Brings(t, h)'

\* A step of t changes the entry e, which nobody else has locked, or none.
OnlyEntry(t, e) ==
    /\ \A f \in FH \ {e} : UNCHANGED <<osfile[f], osfhnd[f]>>
    /\ \/ UNCHANGED <<osfile[e], osfhnd[e]>>
       \/ /\ lock[e] \in {t, NoThread}
          /\ e \notin {1, 2} \ Files
          /\ osfile[e] \/ index = t \/ (op[t] = "dup2" /\ pc[t] # "idle" /\ e = to[t])
    /\ pc[t] \in Closes => to[t] = e
    /\ pc'[t] \in Closes => to'[t] = e

LEMMA HolderUnique ==
  ASSUME OwnInv, NEW h \in Handles, NEW e \in FH, NEW t \in Threads
  PROVE  /\ Has(e, h) => h \in live /\ ~Brings(t, h)
         /\ Brings(t, h) => h \in live
  <1>1. Has(e, h) <=> e \in Entries(h)
    BY DEF Has, Entries
  <1>2. Brings(t, h) <=> t \in Transits(h)
    BY DEF Brings, Transits
  <1> QED
    BY <1>1, <1>2 DEF OwnInv

LEMMA OwnersKept ==
  ASSUME LockingInv, LockingInv', OwnInv, NEW t \in Threads, NEW e \in FH, Mine(t), OnlyEntry(t, e),
         \A u \in Threads \ {t} : UNCHANGED os[u],
         \A h \in Handles : Passes(t, e, h)
  PROVE  OwnInv'
  <1>1. ASSUME NEW u \in Threads \ {t}
        PROVE  /\ UNCHANGED <<pc[u], op[u], to[u], os[u]>>
               /\ \A f \in FH : lock'[f] = u <=> lock[f] = u
    BY DEF Mine, LockingInv, Types, TypeOK
  <1>2. ASSUME NEW f \in FH \ {e} PROVE Closing(f)' <=> Closing(f)
    BY <1>1 DEF Closing, OnlyEntry, Closes
  <1>3. ASSUME NEW h \in Handles, NEW f \in FH \ {e} PROVE Has(f, h)' <=> Has(f, h)
    <2>1. UNCHANGED <<osfile[f], osfhnd[f]>>
      BY DEF OnlyEntry
    <2> QED
      BY <1>2, <2>1 DEF Has
  <1>4. ASSUME NEW h \in Handles, NEW u \in Threads \ {t} PROVE Brings(u, h)' <=> Brings(u, h)
    BY <1>1 DEF Brings, InTransit
  <1>5. ASSUME NEW h \in Handles
        PROVE  IF h \in live'
               THEN \/ Transits(h)' = {} /\ \E f \in FH : Entries(h)' = {f}
                    \/ Entries(h)' = {} /\ \E u \in Threads : Transits(h)' = {u}
               ELSE Entries(h)' = {} /\ Transits(h)' = {}
    <2> DEFINE E == Entries(h)  F == Entries(h)'  T == Transits(h)  U == Transits(h)'
    <2>1. /\ \A f : f \in E <=> f \in FH /\ Has(f, h)
          /\ \A f : f \in F <=> f \in FH /\ Has(f, h)'
          /\ \A u : u \in T <=> u \in Threads /\ Brings(u, h)
          /\ \A u : u \in U <=> u \in Threads /\ Brings(u, h)'
      BY DEF Entries, Transits, Has, Brings
    <2>2. /\ \A f : f # e => (f \in F <=> f \in E)
          /\ \A u : u # t => (u \in U <=> u \in T)
      BY <1>3, <1>4, <2>1
    <2>3. IF h \in live
          THEN \/ T = {} /\ \E f \in FH : E = {f}
               \/ E = {} /\ \E u \in Threads : T = {u}
          ELSE E = {} /\ T = {}
      BY DEF OwnInv
    <2>4. /\ e \in F <=> Has(e, h)'
          /\ e \in E <=> Has(e, h)
          /\ t \in U <=> Brings(t, h)'
          /\ t \in T <=> Brings(t, h)
      BY <2>1
    <2>5. Passes(t, e, h)
      OBVIOUS
    <2> HIDE DEF E, F, T, U
    <2>6. CASE /\ Has(e, h)' <=> Has(e, h)
               /\ Brings(t, h)' <=> Brings(t, h)
               /\ h \in live' <=> h \in live
      <3>1. F = E /\ U = T
        BY <2>2, <2>4, <2>6
      <3> QED
        BY <2>3, <2>6, <3>1 DEF F, U
    <2>7. CASE h \in live /\ h \in live' /\ Brings(t, h) /\ ~Brings(t, h)' /\ Has(e, h)'
      <3>1. E = {} /\ T = {t}
        BY <2>3, <2>4, <2>7
      <3>2. F = {e} /\ U = {}
        BY <2>2, <2>4, <2>7, <3>1
      <3> QED
        BY <2>7, <3>2 DEF F, U
    <2>8. CASE /\ h \notin live /\ h \in live'
               /\ (Has(e, h)' /\ ~Brings(t, h)') \/ (~Has(e, h)' /\ Brings(t, h)')
      <3>1. E = {} /\ T = {}
        BY <2>3, <2>8
      <3>2. (F = {e} /\ U = {}) \/ (F = {} /\ U = {t})
        BY <2>2, <2>4, <2>8, <3>1
      <3> QED
        BY <2>8, <3>2 DEF F, U
    <2>9. CASE h \notin live' /\ (Has(e, h) \/ Brings(t, h)) /\ ~Has(e, h)' /\ ~Brings(t, h)'
      <3>1. F = {} /\ U = {}
        BY <2>2, <2>3, <2>4, <2>9
      <3> QED
        BY <2>9, <3>1 DEF F, U
    <2> QED
      BY <2>5, <2>6, <2>7, <2>8, <2>9 DEF Passes
  <1> QED
    BY <1>5 DEF OwnInv

LEMMA OwnerKept ==
  ASSUME Careful, LockingInv, LockingInv', OwnerInv, NEW t \in Threads, NEW e \in FH,
         Mine(t), OnlyEntry(t, e),
         \A u \in Threads \ {t} : UNCHANGED os[u],
         \A h \in Handles : Passes(t, e, h),
         OsInv(t)',
         "dup2" \in Ops /\ ~osfile'[e] => osfhnd'[e] = Invalid
  PROVE  OwnerInv'
  <1>1. OwnInv'
    BY OwnersKept DEF OwnerInv
  <1>2. FreeInv'
    BY DEF OwnerInv, FreeInv, OnlyEntry
  <1>3. StdInv'
    <2> SUFFICES ASSUME NEW f \in {1, 2} \ Files PROVE osfile'[f] /\ osfhnd'[f] = NoConsole
      BY DEF StdInv
    <2>1. f \in FH /\ osfile[f] /\ osfhnd[f] = NoConsole
      BY Sizes DEF OwnerInv, StdInv
    <2> QED
      BY <2>1 DEF OnlyEntry
  <1>4. ASSUME NEW u \in Threads \ {t} PROVE OsInv(u)'
    <2>1. /\ OsInv(u) /\ OpInv(u) /\ EntryInv(u)
          /\ UNCHANGED <<pc[u], op[u], fh[u], to[u], at[u], os[u]>>
      BY DEF OwnerInv, LockingInv, Mine
    <2>2. to[u] \in FH
      BY DEF LockingInv, Types, TypeOK
    <2>3. pc[u] \in ToHeld => osfile'[to[u]] = osfile[to[u]] /\ osfhnd'[to[u]] = osfhnd[to[u]]
      <3>1. pc[u] \in ToHeld => lock[to[u]] = u
        BY <2>2 DEF LockingInv, LockInv, Holds
      <3>2. u # NoThread /\ u # t
        OBVIOUS
      <3>3. CASE to[u] # e
        BY <2>2, <3>3 DEF OnlyEntry
      <3>4. CASE to[u] = e
        BY <3>1, <3>2, <3>4 DEF OnlyEntry
      <3> QED
        BY <3>3, <3>4
    <2>4. pc[u] = "enter_new" => at[u] \in FH /\ osfile'[at[u]] = osfile[at[u]] /\ osfhnd'[at[u]] = osfhnd[at[u]]
      <3> SUFFICES ASSUME pc[u] = "enter_new" PROVE at[u] \in FH /\ osfile'[at[u]] = osfile[at[u]] /\ osfhnd'[at[u]] = osfhnd[at[u]]
        OBVIOUS
      <3>1. at[u] \in FH
        <4>1. at[u] < nhandle /\ at[u] \in Nat /\ nhandle \in Nat /\ nhandle <= Elts * Arrays
          BY <2>1, NhandleBounds DEF EntryInv, LockingInv, Types
        <4> QED
          BY <4>1, Sizes
      <3>2. ~osfile[at[u]] /\ \E n \in 1..Arrays : at[u] = Elts * n
        BY <2>1 DEF OsInv
      <3>3. index # t
        BY DEF LockingInv, LockInv
      <3>4. op[t] = "dup2" /\ pc[t] # "idle" => to[t] # at[u]
        <4>1. op[t] = "dup2" /\ pc[t] # "idle" => "dup2" \in Ops /\ to[t] \in Files
          BY DEF LockingInv, OpInv
        <4> QED
          BY <3>2, <4>1 DEF Careful
      <3>5. CASE at[u] # e
        BY <3>1, <3>5 DEF OnlyEntry
      <3>6. CASE at[u] = e
        <4>1. ~osfile[e] /\ index # t /\ ~(op[t] = "dup2" /\ pc[t] # "idle" /\ e = to[t])
          BY <3>2, <3>3, <3>4, <3>6
        <4> QED
          BY <3>1, <3>6, <4>1 DEF OnlyEntry
      <3> QED
        BY <3>5, <3>6
    <2>5. InTransit(u)' <=> InTransit(u)
      BY <2>1 DEF InTransit
    <2> QED
      BY <2>1, <2>3, <2>4, <2>5 DEF OsInv, ToHeld, ToOpen
  <1> QED
    BY <1>1, <1>2, <1>3, <1>4 DEF OwnerInv

\* What every step of t leaves alone.
LEMMA StepMine ==
  ASSUME LockingInv, NEW t \in Threads, Call(t) \/ Step(t)
  PROVE  Mine(t) /\ \A u \in Threads \ {t} : UNCHANGED os[u]
  <1> DEFINE Goal == Mine(t) /\ \A u \in Threads \ {t} : UNCHANGED os[u]
  <1> SUFFICES Goal
    OBVIOUS
  <1>0. /\ pc \in [Threads -> Steps] /\ op \in [Threads -> Ops \cup {"none"}]
        /\ fh \in [Threads -> FH] /\ to \in [Threads -> FH] /\ at \in [Threads -> Nat]
        /\ os \in [Threads -> Handles \cup {Invalid}] /\ lock \in [FH -> Threads \cup {NoThread}]
        /\ First(t) \in FH /\ Second(t) \in FH
        /\ pc[t] \in {"enter", "enter_new"} => at[t] \in FH
        /\ pc[t] \in {"scan", "enter", "enter_new"} => index = t
    <2>1. pc[t] \in {"enter", "enter_new"} => at[t] \in FH
      BY NhandleBounds, Sizes DEF LockingInv, EntryInv, Types
    <2> QED
      BY <2>1 DEF LockingInv, LockInv, Types, TypeOK, First, Second
  <1> USE DEF Mine, Goto, args, slots
  <1>1. CASE Open(t) \/ \E h \in Handles : OpenOsfhandle(t, h)
    BY <1>0, <1>1 DEF Open, OpenOsfhandle, Begin
  <1>2. CASE \E f \in Files : Close(t, f) \/ Use(t, f) \/ Dup(t, f)
    BY <1>0, <1>2 DEF Close, Use, Dup, Begin
  <1>3. CASE \E f, g \in Files : Dup2(t, f, g)
    BY <1>0, <1>3 DEF Dup2, Begin
  <1>4. CASE Lock(t)
    BY <1>0, <1>4 DEF Lock, Return, Without
  <1>5. CASE UseEnds(t) \/ CloseOsHandle(t) \/ CloseFree(t)
    BY <1>0, <1>5 DEF UseEnds, CloseOsHandle, CloseFree, Return, Without
  <1>6. CASE AllocLock(t) \/ Scan(t) \/ Grow(t) \/ AllocFails(t)
    BY <1>0, <1>6 DEF AllocLock, Scan, Grow, AllocFails, Return, Without
  <1>7. CASE Enter(t) \/ EnterNew(t)
    BY <1>0, <1>7 DEF Enter, EnterNew, Taken
  <1>8. CASE CreateFileFails(t) \/ UnknownType(t) \/ FileOpen(t) \/ ConfigureFails(t)
    BY <1>0, <1>8 DEF CreateFileFails, UnknownType, FileOpen, ConfigureFails, Return, Without
  <1>9. CASE Configure(t) \/ ReopenFails(t) \/ AttachOsfhandle(t) \/ DuplicateFails(t)
    <2>1. CASE Configure(t)
      BY <1>0, <2>1 DEF Configure, Return, Without
    <2>2. CASE ReopenFails(t)
      BY <1>0, <2>2 DEF ReopenFails, Return, Without
    <2>3. CASE AttachOsfhandle(t)
      BY <1>0, <2>3 DEF AttachOsfhandle, Return, Without
    <2>4. CASE DuplicateFails(t)
      BY <1>0, <2>4 DEF DuplicateFails, Return, Without
    <2> QED
      BY <1>9, <2>1, <2>2, <2>3, <2>4
  <1>10. CASE EnsureFhExists(t) \/ \E n \in 0..(Elts * Arrays) : EnsureFails(t, n)
    BY <1>0, <1>10 DEF EnsureFhExists, EnsureFails
  <1>11. CASE LockFirst(t) \/ LockSecond(t)
    BY <1>0, <1>11 DEF LockFirst, LockSecond, Return, Without
  <1>12. CASE Dup2Fails(t) \/ Dup2Set(t)
    BY <1>0, <1>12 DEF Dup2Fails, Dup2Set, Return, Without
  <1>13. CASE \E h \in Handles : CreateFile(t, h) \/ Dup2Duplicate(t, h)
    BY <1>0, <1>13 DEF CreateFile, Dup2Duplicate
  <1>14. CASE \E h \in Handles : Reopen(t, h) \/ Duplicate(t, h)
    BY <1>0, <1>14 DEF Reopen, Duplicate, Return, Without
  <1> HIDE DEF Goal, Mine, Goto, args, slots
  <1> QED
    BY <1>1, <1>2, <1>3, <1>4, <1>5, <1>6, <1>7, <1>8, <1>9, <1>10, <1>11, <1>12, <1>13, <1>14 DEF Call, Step

\* Whether t is about to tell the entry e, which no other has locked.
LEMMA AtEntry ==
  ASSUME LockingInv, LockingInv', NEW t \in Threads, NEW e \in FH,
         lock[e] \in {t, NoThread}, lock'[e] \in {t, NoThread},
         pc[t] \in Closes => to[t] = e, pc'[t] \in Closes => to'[t] = e
  PROVE  /\ Closing(e) <=> pc[t] \in Closes
         /\ Closing(e)' <=> pc'[t] \in Closes
  <1>1. Closing(e) <=> pc[t] \in Closes
    <2>1. pc[t] \in Closes => lock[e] = t
      BY DEF Closes, LockingInv, LockInv, Holds, ToHeld, ToOpen
    <2> QED
      BY <2>1 DEF Closing, Closes
  <1>2. Closing(e)' <=> pc'[t] \in Closes
    <2>1. pc'[t] \in Closes => lock'[e] = t
      BY DEF Closes, LockingInv, LockInv, Holds, ToHeld, ToOpen
    <2> QED
      BY <2>1 DEF Closing, Closes
  <1> QED
    BY <1>1, <1>2

\* A step that changes no entry.
LEMMA EntriesLeft ==
  ASSUME Careful, LockingInv, LockingInv', OwnerInv, NEW t \in Threads, Call(t) \/ Step(t),
         UNCHANGED <<osfile, osfhnd>>, pc[t] \notin Closes, pc'[t] \notin Closes, OsInv(t)',
         \A h \in Handles :
           \/ (Brings(t, h)' <=> Brings(t, h)) /\ (h \in live' <=> h \in live)
           \/ h \notin live /\ h \in live' /\ Brings(t, h)'
           \/ h \notin live' /\ Brings(t, h) /\ ~Brings(t, h)'
  PROVE  OwnerInv'
  <1>0. 0 \in FH
    BY Sizes
  <1>1. Mine(t) /\ \A u \in Threads \ {t} : UNCHANGED os[u]
    BY StepMine
  <1>2. OnlyEntry(t, 0)
    BY DEF OnlyEntry, Closes
  <1>3. "dup2" \in Ops /\ ~osfile'[0] => osfhnd'[0] = Invalid
    BY <1>0 DEF OwnerInv, FreeInv
  <1>4. ASSUME NEW u \in Threads \ {t}
        PROVE  UNCHANGED <<pc[u], to[u]>> /\ (lock'[0] = u <=> lock[0] = u)
    BY <1>0, <1>1 DEF Mine
  <1>5. Closing(0)' <=> Closing(0)
    BY <1>4 DEF Closing, Closes
  <1>6. ASSUME NEW h \in Handles PROVE Passes(t, 0, h)
    <2>1. Has(0, h)' <=> Has(0, h)
      BY <1>5 DEF Has
    <2>2. /\ Has(0, h) => h \in live /\ ~Brings(t, h)
          /\ Brings(t, h) => h \in live
      BY <1>0, HolderUnique DEF OwnerInv
    <2> QED
      BY <2>1, <2>2 DEF Passes
  <1> QED
    BY <1>0, <1>1, <1>2, <1>3, <1>6, OwnerKept

\* A step that changes the entry e, which t has or takes.
LEMMA EntryChanged ==
  ASSUME Careful, LockingInv, LockingInv', OwnerInv, NEW t \in Threads, NEW e \in FH, Call(t) \/ Step(t),
         \A f \in FH \ {e} : UNCHANGED <<osfile[f], osfhnd[f]>>,
         lock[e] \in {t, NoThread}, lock'[e] \in {t, NoThread},
         pc[t] \in Closes => to[t] = e, pc'[t] \in Closes => to'[t] = e,
         e \notin {1, 2} \ Files,
         osfile[e] \/ index = t \/ (op[t] = "dup2" /\ pc[t] # "idle" /\ e = to[t]),
         OsInv(t)', "dup2" \in Ops /\ ~osfile'[e] => osfhnd'[e] = Invalid,
         \A h \in Handles :
           LET has   == osfile[e] /\ osfhnd[e] = h /\ pc[t] \notin Closes
               hasN  == osfile'[e] /\ osfhnd'[e] = h /\ pc'[t] \notin Closes
           IN  \/ (hasN <=> has) /\ (Brings(t, h)' <=> Brings(t, h)) /\ (h \in live' <=> h \in live)
               \/ h \in live' /\ Brings(t, h) /\ ~Brings(t, h)' /\ hasN
               \/ h \notin live /\ h \in live' /\ ~Brings(t, h)' /\ hasN
               \/ h \notin live' /\ (has \/ Brings(t, h)) /\ ~hasN /\ ~Brings(t, h)'
  PROVE  OwnerInv'
  <1>1. Mine(t) /\ \A u \in Threads \ {t} : UNCHANGED os[u]
    BY StepMine
  <1>2. OnlyEntry(t, e)
    BY DEF OnlyEntry
  <1>3. /\ Closing(e) <=> pc[t] \in Closes
        /\ Closing(e)' <=> pc'[t] \in Closes
    BY AtEntry
  <1>4. ASSUME NEW h \in Handles PROVE Passes(t, e, h)
    <2>1. Has(e, h) <=> osfile[e] /\ osfhnd[e] = h /\ pc[t] \notin Closes
      BY <1>3 DEF Has
    <2>2. Has(e, h)' <=> osfile'[e] /\ osfhnd'[e] = h /\ pc'[t] \notin Closes
      BY <1>3 DEF Has
    <2>3. Brings(t, h) => h \in live
      BY HolderUnique DEF OwnerInv
    <2> QED
      BY <2>1, <2>2, <2>3 DEF Passes
  <1> QED
    BY <1>1, <1>2, <1>4, OwnerKept

LEMMA CallsOwner ==
  ASSUME Careful, LockingInv, LockingInv', OwnerInv, NEW t \in Threads, Call(t)
  PROVE  OwnerInv'
  <1> DEFINE Calls(name, f, g, q) ==
               /\ pc'[t] = q /\ op'[t] = name /\ fh'[t] = f /\ to'[t] = g
               /\ UNCHANGED <<osfile, osfhnd, lock, index, at>>
  <1>0. /\ pc \in [Threads -> Steps] /\ op \in [Threads -> Ops \cup {"none"}]
        /\ fh \in [Threads -> FH] /\ to \in [Threads -> FH]
        /\ os \in [Threads -> Handles \cup {Invalid}] /\ OsInv(t)
    BY DEF LockingInv, Types, TypeOK, OwnerInv
  <1>1. ASSUME Open(t) PROVE OwnerInv'
    <2>1. PICK m \in {"open", "reopen"} : Begin(t, m, 0, 0, "alloc")
      BY <1>1 DEF Open
    <2>2. pc[t] = "idle" /\ Calls(m, 0, 0, "alloc") /\ UNCHANGED <<live, os>>
      BY <1>0, <1>1, <2>1 DEF Open, Begin, Goto, slots
    <2>3. ~InTransit(t) /\ ~InTransit(t)'
      BY <2>2 DEF InTransit
    <2>4. OsInv(t)'
      BY <2>2, <2>3 DEF OsInv, ToHeld, ToOpen
    <2> QED
      BY <2>2, <2>3, <2>4, EntriesLeft DEF Closes, Brings
  <1>2. ASSUME NEW h \in Handles, OpenOsfhandle(t, h) PROVE OwnerInv'
    <2>1. /\ pc[t] = "idle" /\ Calls("osfhandle", 0, 0, "alloc")
          /\ h \notin live /\ live' = live \cup {h} /\ os'[t] = h
      BY <1>0, <1>2 DEF OpenOsfhandle, Begin, Goto, slots
    <2>2. ~InTransit(t) /\ InTransit(t)'
      BY <2>1 DEF InTransit
    <2>3. OsInv(t)'
      BY <2>1, <2>2 DEF OsInv, ToHeld, ToOpen
    <2> QED
      BY <2>1, <2>2, <2>3, EntriesLeft DEF Closes, Brings
  <1>3. ASSUME NEW f \in Files, Close(t, f) \/ Use(t, f) \/ Dup(t, f) PROVE OwnerInv'
    <2>1. PICK m : /\ pc[t] = "idle" /\ Calls(m, f, f, "lock") /\ UNCHANGED <<live, os>>
      BY <1>0, <1>3 DEF Close, Use, Dup, Begin, Goto, slots
    <2>2. ~InTransit(t) /\ ~InTransit(t)'
      BY <2>1 DEF InTransit
    <2>3. OsInv(t)'
      BY <2>1, <2>2 DEF OsInv, ToHeld, ToOpen
    <2> QED
      BY <2>1, <2>2, <2>3, EntriesLeft DEF Closes, Brings
  <1>4. ASSUME NEW f \in Files, NEW g \in Files, Dup2(t, f, g) PROVE OwnerInv'
    <2>1. PICK q \in {"lock1", "ensure"} :
            pc[t] = "idle" /\ Calls("dup2", f, g, q) /\ UNCHANGED <<live, os>>
      BY <1>0, <1>4 DEF Dup2, Begin, Goto, slots
    <2>2. ~InTransit(t) /\ ~InTransit(t)'
      BY <2>1 DEF InTransit
    <2>3. OsInv(t)'
      BY <2>1, <2>2 DEF OsInv, ToHeld, ToOpen
    <2> QED
      BY <2>1, <2>2, <2>3, EntriesLeft DEF Closes, Brings
  <1> QED
    BY <1>1, <1>2, <1>3, <1>4 DEF Call

\* The steps that change no entry and no kernel handle.
LEMMA QuietOwner ==
  ASSUME Careful, LockingInv, LockingInv', OwnerInv, NEW t \in Threads,
         \/ Lock(t) \/ UseEnds(t) \/ AllocLock(t) \/ Scan(t) \/ (Enter(t) /\ osfile[at[t]]) \/ Grow(t)
         \/ (AllocFails(t) /\ op[t] # "osfhandle") \/ ConfigureFails(t) \/ (Configure(t) /\ op[t] # "reopen")
         \/ EnsureFhExists(t) \/ (\E n \in 0..(Elts * Arrays) : EnsureFails(t, n))
         \/ LockFirst(t) \/ LockSecond(t) \/ Dup2Fails(t)
  PROVE  OwnerInv'
  <1> DEFINE Stays(q) ==
               /\ pc'[t] = q /\ pc[t] \notin Closes \cup {"idle"}
               /\ UNCHANGED <<osfile, osfhnd, live, op, fh, to, os>>
  <1>0. /\ pc \in [Threads -> Steps] /\ pc[t] \in Steps /\ OsInv(t) /\ OpInv(t) /\ to[t] \in FH
        /\ at \in [Threads -> Nat]
    BY DEF LockingInv, Types, TypeOK, OwnerInv
  <1>1. Step(t)
    BY DEF Step
  <1>2. ASSUME NEW q \in Steps \ (Closes \cup ToHeld \cup {"enter_new"}), Stays(q),
               InTransit(t)' <=> InTransit(t)
        PROVE  OwnerInv'
    <2>1. OsInv(t)'
      BY <1>0, <1>2 DEF OsInv, ToHeld, ToOpen
    <2> QED
      BY <1>1, <1>2, <2>1, EntriesLeft DEF Brings
  <1>3. ASSUME NEW q \in ToHeld \ Closes, Stays(q), InTransit(t)' <=> InTransit(t), OsInv(t)' PROVE OwnerInv'
    BY <1>1, <1>3, EntriesLeft DEF Brings, Closes
  <1>4. CASE Lock(t)
    <2>1. /\ pc[t] = "lock" /\ fh[t] = to[t] /\ op[t] \in {"close", "use", "dup"} /\ ~InTransit(t)
          /\ \/ osfile[fh[t]] /\ op[t] = "close" /\ Stays("close_os")
             \/ osfile[fh[t]] /\ op[t] = "use" /\ Stays("use")
             \/ op[t] = "dup" /\ Stays("alloc")
             \/ Stays("idle")
      BY <1>0, <1>4 DEF Lock, Goto, Return, slots, args, OpInv, InTransit, Closes
    <2>2. ~InTransit(t)'
      BY <2>1 DEF InTransit
    <2>3. CASE Stays("alloc") \/ Stays("idle")
      BY <1>2, <2>1, <2>2, <2>3 DEF Steps, AllocSteps, Closes, ToHeld, ToOpen
    <2>4. CASE op[t] = "close" /\ Stays("close_os")
      <3>1. to[t] \in Files
        BY <1>0, <2>1, <2>4 DEF OsInv
      <3>2. OsInv(t)'
        BY <2>2, <2>4, <3>1 DEF OsInv
      <3> QED
        BY <1>3, <2>1, <2>2, <2>4, <3>2 DEF ToHeld, ToOpen, Closes
    <2>5. CASE op[t] = "use" /\ Stays("use")
      <3>1. OsInv(t)'
        BY <2>2, <2>5 DEF OsInv
      <3> QED
        BY <1>3, <2>1, <2>2, <2>5, <3>1 DEF ToHeld, ToOpen, Closes
    <2> QED
      BY <2>1, <2>3, <2>4, <2>5
  <1>5. CASE \/ UseEnds(t) \/ (AllocFails(t) /\ op[t] # "osfhandle") \/ (Configure(t) /\ op[t] # "reopen")
             \/ (\E n \in 0..(Elts * Arrays) : EnsureFails(t, n)) \/ Dup2Fails(t)
    <2>1. Stays("idle") /\ ~InTransit(t)
      BY <1>0, <1>5 DEF UseEnds, AllocFails, Configure, EnsureFails, Dup2Fails,
                        Goto, Return, slots, args, InTransit, Closes
    <2>2. ~InTransit(t)'
      BY <2>1 DEF InTransit
    <2> QED
      BY <1>2, <2>1, <2>2 DEF Steps, Closes, ToHeld, ToOpen
  <1>6. CASE AllocLock(t) \/ Scan(t) \/ (Enter(t) /\ osfile[at[t]])
    <2>1. pc[t] \in {"alloc", "scan", "enter"} /\ (Stays("scan") \/ Stays("enter"))
      BY <1>0, <1>6 DEF AllocLock, Scan, Enter, Goto, slots, args, Closes
    <2>2. InTransit(t)' <=> InTransit(t)
      BY <2>1 DEF InTransit
    <2> QED
      BY <1>2, <2>1, <2>2 DEF Steps, AllocSteps, Closes, ToHeld, ToOpen
  <1>7. CASE EnsureFhExists(t) \/ LockFirst(t)
    <2>1. pc[t] \in {"ensure", "lock1"} /\ (Stays("lock1") \/ Stays("lock2"))
      BY <1>0, <1>7 DEF EnsureFhExists, LockFirst, Goto, slots, args, Closes
    <2>2. ~InTransit(t) /\ ~InTransit(t)'
      BY <2>1 DEF InTransit
    <2> QED
      BY <1>2, <2>1, <2>2 DEF Steps, Closes, ToHeld, ToOpen
  <1>8. CASE LockSecond(t)
    <2>1. pc[t] = "lock2" /\ op[t] = "dup2" /\ to[t] \in Files /\ (Stays("idle") \/ Stays("dup2"))
      BY <1>0, <1>8 DEF LockSecond, Goto, Return, slots, args, Closes, OpInv
    <2>2. ~InTransit(t) /\ ~InTransit(t)'
      BY <2>1 DEF InTransit
    <2>3. OsInv(t)'
      BY <2>1, <2>2 DEF OsInv
    <2> QED
      BY <1>2, <1>3, <2>1, <2>2, <2>3 DEF Steps, Closes, ToHeld, ToOpen
  <1>9. CASE ConfigureFails(t)
    <2>1. pc[t] = "text_mode" /\ op[t] \in {"open", "reopen"} /\ Stays("close_os")
      BY <1>0, <1>9 DEF ConfigureFails, Goto, slots, args, Closes, OpInv
    <2>2. ~InTransit(t) /\ ~InTransit(t)'
      BY <2>1 DEF InTransit
    <2>3. OsInv(t)'
      BY <1>0, <2>1, <2>2 DEF OsInv, ToHeld, ToOpen
    <2> QED
      BY <1>3, <2>1, <2>2, <2>3 DEF Closes, ToHeld, ToOpen
  <1>10. CASE Grow(t)
    <2>1. /\ pc[t] = "scan" /\ at[t] = nhandle /\ nhandle < Elts * Arrays /\ Stays("enter_new")
          /\ UNCHANGED at
      BY <1>0, <1>10 DEF Grow, Goto, args, Closes
    <2>2. InTransit(t)' <=> InTransit(t)
      BY <2>1 DEF InTransit
    <2>3. at[t] \in FH /\ at[t] >= nhandle /\ \E n \in 1..Arrays : at[t] = Elts * n
      BY <2>1, NhandleBounds, Sizes DEF LockingInv, Types, TypeOK
    <2>4. ~osfile[at[t]] /\ osfhnd[at[t]] = Invalid
      BY <2>3 DEF LockingInv, NewInv
    <2>5. op[t] # "close"
      BY <1>0, <2>1 DEF OpInv, AllocSteps
    <2>6. OsInv(t)'
      BY <1>0, <2>1, <2>2, <2>3, <2>4, <2>5 DEF OsInv, ToHeld, ToOpen
    <2> QED
      BY <1>1, <2>1, <2>2, <2>6, EntriesLeft DEF Brings, Closes
  <1> QED
    BY <1>4, <1>5, <1>6, <1>7, <1>8, <1>9, <1>10

\* The steps that open or close a kernel handle that is in no entry.
LEMMA TransitOwner ==
  ASSUME Careful, LockingInv, LockingInv', OwnerInv, NEW t \in Threads,
         \/ AllocFails(t) /\ op[t] = "osfhandle"
         \/ \E h \in Handles : CreateFile(t, h) \/ Dup2Duplicate(t, h)
  PROVE  OwnerInv'
  <1>0. /\ pc \in [Threads -> Steps] /\ os \in [Threads -> Handles \cup {Invalid}]
        /\ to[t] \in FH /\ OsInv(t) /\ OpInv(t) /\ EntryInv(t)
    BY DEF LockingInv, Types, TypeOK, OwnerInv
  <1>1. Step(t)
    BY DEF Step
  <1>2. CASE AllocFails(t) /\ op[t] = "osfhandle"
    <2>1. /\ pc[t] = "scan" /\ pc'[t] = "idle" /\ live' = live \ {os[t]}
          /\ UNCHANGED <<osfile, osfhnd, op, os>>
      BY <1>0, <1>2 DEF AllocFails, Return, Goto, slots, args
    <2>2. InTransit(t) /\ ~InTransit(t)'
      BY <1>2, <2>1 DEF InTransit
    <2>3. OsInv(t)'
      BY <2>1, <2>2 DEF OsInv, ToHeld, ToOpen
    <2> QED
      BY <1>1, <2>1, <2>2, <2>3, EntriesLeft DEF Closes, Brings
  <1>3. ASSUME NEW h \in Handles, CreateFile(t, h) PROVE OwnerInv'
    <2>1. /\ pc[t] = "taken" /\ op[t] \in {"open", "reopen"} /\ pc'[t] = "created"
          /\ h \notin live /\ live' = live \cup {h} /\ os'[t] = h
          /\ UNCHANGED <<osfile, osfhnd, op, to>>
      BY <1>0, <1>3 DEF CreateFile, Goto, slots, args
    <2>2. ~InTransit(t) /\ InTransit(t)'
      BY <2>1 DEF InTransit
    <2>3. OsInv(t)'
      BY <1>0, <2>1, <2>2 DEF OsInv, ToHeld, ToOpen
    <2> QED
      BY <1>1, <2>1, <2>2, <2>3, EntriesLeft DEF Closes, Brings
  <1>4. ASSUME NEW h \in Handles, Dup2Duplicate(t, h) PROVE OwnerInv'
    <2>1. /\ pc[t] = "dup2" /\ op[t] = "dup2" /\ "dup2" \in Ops
          /\ pc'[t] = IF osfile[to[t]] THEN "close_os" ELSE "dup2_set"
          /\ h \notin live /\ live' = live \cup {h} /\ os'[t] = h
          /\ UNCHANGED <<osfile, osfhnd, op, to>>
      BY <1>0, <1>4 DEF Dup2Duplicate, Goto, slots, args, OpInv
    <2>2. ~InTransit(t) /\ InTransit(t)'
      BY <2>1 DEF InTransit
    <2>3. ~osfile[to[t]] => osfhnd[to[t]] = Invalid
      BY <1>0, <2>1 DEF OwnerInv, FreeInv
    <2>4. OsInv(t)'
      BY <1>0, <2>1, <2>2, <2>3 DEF OsInv, ToHeld, ToOpen
    <2> QED
      BY <1>1, <2>1, <2>2, <2>4, EntriesLeft DEF Closes, Brings
  <1> QED
    BY <1>2, <1>3, <1>4

\* The steps that take a free entry.
LEMMA TakesOwner ==
  ASSUME Careful, LockingInv, LockingInv', OwnerInv, NEW t \in Threads,
         (Enter(t) /\ ~osfile[at[t]]) \/ EnterNew(t)
  PROVE  OwnerInv'
  <1> DEFINE e == at[t]
  <1>0. /\ pc \in [Threads -> Steps] /\ osfile \in [FH -> BOOLEAN] /\ to \in [Threads -> FH]
        /\ osfhnd \in [FH -> Handles \cup {Invalid, NoConsole}] /\ lock \in [FH -> Threads \cup {NoThread}]
        /\ OsInv(t) /\ OpInv(t) /\ EntryInv(t)
    BY DEF LockingInv, Types, TypeOK, OwnerInv
  <1>1. Step(t)
    BY DEF Step
  <1>2. pc[t] \in {"enter", "enter_new"} /\ lock[e] = NoThread
    BY DEF Enter, EnterNew
  <1>3. e \in FH
    BY <1>0, <1>2, NhandleBounds, Sizes DEF EntryInv, LockingInv, Types
  <1>4. ~osfile[e]
    BY <1>0 DEF OsInv, EnterNew
  <1>5. /\ pc'[t] = "taken" /\ to'[t] = e /\ lock' = [lock EXCEPT ![e] = t]
        /\ osfile' = [osfile EXCEPT ![e] = TRUE] /\ UNCHANGED <<op, live, os>>
    BY <1>0, <1>4 DEF Enter, EnterNew, Taken, Goto
  <1>6. osfhnd' = [osfhnd EXCEPT ![e] = Invalid]
    <2>1. CASE Enter(t)
      BY <1>4, <2>1 DEF Enter
    <2>2. CASE EnterNew(t)
      <3>1. osfhnd[e] = Invalid /\ osfhnd' = osfhnd
        BY <1>0, <2>2 DEF EnterNew, OsInv
      <3> QED
        BY <1>0, <3>1
    <2> QED
      BY <2>1, <2>2
  <1>7. /\ \A f \in FH \ {e} : UNCHANGED <<osfile[f], osfhnd[f]>>
        /\ osfile'[e] /\ osfhnd'[e] = Invalid /\ lock'[e] = t
    BY <1>0, <1>3, <1>5, <1>6
  <1>8. index = t
    BY <1>2 DEF LockingInv, LockInv
  <1>9. e \notin {1, 2} \ Files
    BY <1>4 DEF OwnerInv, StdInv
  <1>10. InTransit(t)' <=> InTransit(t)
    BY <1>2, <1>5 DEF InTransit
  <1>11. op[t] # "close"
    BY <1>0, <1>2 DEF OpInv, AllocSteps
  <1>12. OsInv(t)'
    BY <1>0, <1>5, <1>7, <1>9, <1>10, <1>11 DEF OsInv, ToHeld, ToOpen
  <1>13. ASSUME NEW h \in Handles
         PROVE  /\ ~(osfile'[e] /\ osfhnd'[e] = h /\ pc'[t] \notin Closes)
                /\ Brings(t, h)' <=> Brings(t, h)
    BY <1>5, <1>7, <1>10 DEF Brings
  <1> HIDE DEF e
  <1>14. /\ lock[e] \in {t, NoThread} /\ lock'[e] \in {t, NoThread}
         /\ pc[t] \notin Closes /\ pc'[t] \notin Closes
    BY <1>2, <1>5, <1>7 DEF Closes
  <1>15. \A h \in Handles :
           LET has   == osfile[e] /\ osfhnd[e] = h /\ pc[t] \notin Closes
               hasN  == osfile'[e] /\ osfhnd'[e] = h /\ pc'[t] \notin Closes
           IN  (hasN <=> has) /\ (Brings(t, h)' <=> Brings(t, h)) /\ (h \in live' <=> h \in live)
    BY <1>4, <1>5, <1>13
  <1> QED
    BY <1>1, <1>3, <1>7, <1>8, <1>9, <1>12, <1>14, <1>15, EntryChanged

\* A step that changes the entry t has locked.
LEMMA HeldChanged ==
  ASSUME Careful, LockingInv, LockingInv', OwnerInv, NEW t \in Threads, Step(t),
         pc[t] \in ToHeld \ {"use"}, UNCHANGED to,
         \A f \in FH \ {to[t]} : UNCHANGED <<osfile[f], osfhnd[f]>>,
         pc[t] \in ToOpen \/ op[t] = "dup2",
         OsInv(t)', "dup2" \in Ops /\ ~osfile'[to[t]] => osfhnd'[to[t]] = Invalid,
         \A h \in Handles :
           LET has   == osfile[to[t]] /\ osfhnd[to[t]] = h /\ pc[t] \notin Closes
               hasN  == osfile'[to[t]] /\ osfhnd'[to[t]] = h /\ pc'[t] \notin Closes
           IN  \/ (hasN <=> has) /\ (Brings(t, h)' <=> Brings(t, h)) /\ (h \in live' <=> h \in live)
               \/ h \in live' /\ Brings(t, h) /\ ~Brings(t, h)' /\ hasN
               \/ h \notin live /\ h \in live' /\ ~Brings(t, h)' /\ hasN
               \/ h \notin live' /\ (has \/ Brings(t, h)) /\ ~hasN /\ ~Brings(t, h)'
  PROVE  OwnerInv'
  <1> DEFINE e == to[t]
  <1>1. e \in FH /\ OsInv(t) /\ EntryInv(t)
    BY DEF LockingInv, Types, TypeOK, OwnerInv
  <1>2. lock[e] = t
    BY <1>1 DEF LockingInv, LockInv, Holds
  <1>3. lock'[e] \in {t, NoThread}
    BY <1>1, <1>2, StepMine DEF Mine
  <1>4. e \notin {1, 2} \ Files
    BY <1>1 DEF OsInv
  <1>5. osfile[e] \/ (op[t] = "dup2" /\ pc[t] # "idle" /\ e = to[t])
    BY <1>1 DEF EntryInv, ToHeld, ToOpen
  <1>6. to'[t] = e
    OBVIOUS
  <1> QED
    BY <1>1, <1>2, <1>3, <1>4, <1>5, <1>6, EntryChanged

\* The steps of a close.
LEMMA ClosesOwner ==
  ASSUME Careful, LockingInv, LockingInv', OwnerInv, NEW t \in Threads,
         CloseOsHandle(t) \/ CloseFree(t)
  PROVE  OwnerInv'
  <1> DEFINE e == to[t]
  <1>0. /\ pc \in [Threads -> Steps] /\ osfile \in [FH -> BOOLEAN] /\ live \subseteq Handles
        /\ osfhnd \in [FH -> Handles \cup {Invalid, NoConsole}]
        /\ e \in FH /\ OsInv(t) /\ OpInv(t) /\ EntryInv(t)
    BY DEF LockingInv, Types, TypeOK, OwnerInv
  <1>1. Step(t)
    BY DEF Step
  <1>2. CASE CloseOsHandle(t)
    <2>1. /\ pc[t] = "close_os" /\ pc'[t] = "close_free"
          /\ live' = (IF SharedStd(e) THEN live ELSE live \ {osfhnd[e]})
          /\ UNCHANGED <<osfile, osfhnd, lock, op, to, os>>
      BY <1>0, <1>2 DEF CloseOsHandle, Goto, slots, args
    <2>2. osfile[e] /\ e \notin {1, 2} \ Files
      BY <1>0, <2>1 DEF EntryInv, OsInv, ToHeld, ToOpen
    <2>3. SharedStd(e) => osfhnd[e] \notin Handles
      <3> SUFFICES ASSUME SharedStd(e) PROVE osfhnd[e] = NoConsole
        OBVIOUS
      <3>1. e \in {1, 2} /\ osfhnd[1] = osfhnd[2]
        BY DEF SharedStd
      <3>2. PICK f \in {1, 2} : f \notin Files
        BY DEF Careful
      <3>3. osfhnd[f] = NoConsole
        BY <3>2 DEF OwnerInv, StdInv
      <3> QED
        BY <3>1, <3>3
    <2>4. live' = live \ {osfhnd[e]}
      BY <1>0, <2>1, <2>3
    <2>5. InTransit(t)' <=> InTransit(t)
      BY <2>1 DEF InTransit
    <2>6. OsInv(t)'
      BY <1>0, <2>1, <2>5 DEF OsInv, ToHeld, ToOpen
    <2>7. lock[e] = t
      BY <1>0, <2>1 DEF LockingInv, LockInv, Holds, ToHeld, ToOpen
    <2>8. ~Closing(e)
      BY <2>1, <2>7 DEF Closing
    <2>9. ASSUME NEW h \in Handles, osfhnd[e] = h PROVE ~Brings(t, h)
      <3>1. Has(e, h)
        BY <2>2, <2>8, <2>9 DEF Has
      <3> QED
        BY <1>0, <3>1, HolderUnique DEF OwnerInv
    <2>10. ASSUME NEW h \in Handles PROVE Brings(t, h)' <=> Brings(t, h)
      BY <2>1, <2>5 DEF Brings
    <2> QED
      BY <1>1, <2>1, <2>2, <2>4, <2>6, <2>9, <2>10, HeldChanged DEF Closes, ToHeld, ToOpen
  <1>3. CASE CloseFree(t)
    <2>1. pc[t] = "close_free" /\ osfile[e]
      BY <1>0, <1>3 DEF CloseFree, EntryInv, ToOpen
    <2>2. /\ pc'[t] = IF op[t] = "dup2" THEN "dup2_set" ELSE "idle"
          /\ osfile' = [osfile EXCEPT ![e] = FALSE]
          /\ UNCHANGED <<live, op, to, os>>
      BY <1>0, <1>3 DEF CloseFree, Return, Goto, args
    <2>3. /\ \A f \in FH \ {e} : UNCHANGED <<osfile[f], osfhnd[f]>>
          /\ ~osfile'[e]
          /\ osfhnd'[e] = Invalid
      <3>1. osfhnd' = IF osfhnd[e] # Invalid THEN [osfhnd EXCEPT ![e] = Invalid] ELSE osfhnd
        BY <1>3, <2>1 DEF CloseFree, FreeOsfhnd
      <3> QED
        BY <1>0, <2>2, <3>1
    <2>4. InTransit(t)' <=> InTransit(t)
      BY <2>1, <2>2 DEF InTransit
    <2>5. OsInv(t)'
      BY <1>0, <2>1, <2>2, <2>3, <2>4 DEF OsInv, ToHeld, ToOpen
    <2>6. ASSUME NEW h \in Handles PROVE Brings(t, h)' <=> Brings(t, h)
      BY <2>2, <2>4 DEF Brings
    <2> HIDE DEF e
    <2>7. to[t] = e
      BY DEF e
    <2> QED
      BY <1>1, <2>1, <2>2, <2>3, <2>5, <2>6, <2>7, HeldChanged DEF Closes, ToHeld, ToOpen
  <1> QED
    BY <1>2, <1>3

\* The steps that give up the entry.
LEMMA FailsOwner ==
  ASSUME Careful, LockingInv, LockingInv', OwnerInv, NEW t \in Threads,
         CreateFileFails(t) \/ UnknownType(t) \/ ReopenFails(t) \/ DuplicateFails(t)
  PROVE  OwnerInv'
  <1> DEFINE e == to[t]
  <1>0. /\ pc \in [Threads -> Steps] /\ osfile \in [FH -> BOOLEAN]
        /\ e \in FH /\ OsInv(t) /\ OpInv(t) /\ EntryInv(t)
    BY DEF LockingInv, Types, TypeOK, OwnerInv
  <1>1. Step(t)
    BY DEF Step
  <1>2. /\ pc[t] \in {"taken", "created", "reopen"} /\ pc'[t] = "idle"
        /\ pc[t] = "taken" => op[t] # "osfhandle"
        /\ live' = IF pc[t] = "created" THEN live \ {os[t]} ELSE live
        /\ osfile' = [osfile EXCEPT ![e] = FALSE]
        /\ UNCHANGED <<osfhnd, op, to, os>>
    BY <1>0 DEF CreateFileFails, UnknownType, ReopenFails, DuplicateFails, FreeOsfhnd, Return, Goto, args
  <1>3. /\ \A f \in FH \ {e} : UNCHANGED <<osfile[f], osfhnd[f]>>
        /\ ~osfile'[e]
    BY <1>0, <1>2
  <1>4. "dup2" \in Ops => osfhnd'[e] = Invalid
    BY <1>0, <1>2 DEF OsInv, OpInv, Careful
  <1>5. (InTransit(t) <=> pc[t] = "created") /\ ~InTransit(t)'
    BY <1>2 DEF InTransit
  <1>6. OsInv(t)'
    BY <1>2, <1>5 DEF OsInv, ToHeld, ToOpen
  <1>7. ASSUME NEW h \in Handles
        PROVE  /\ ~(osfile[e] /\ osfhnd[e] = h /\ pc[t] \notin Closes)
               /\ ~Brings(t, h)'
               /\ Brings(t, h) <=> pc[t] = "created" /\ os[t] = h
    <2>1. osfhnd[e] = Invalid \/ pc[t] \in Closes
      BY <1>0, <1>2 DEF OsInv, Closes
    <2> QED
      BY <1>5, <2>1 DEF Brings
  <1> HIDE DEF e
  <1>8. to[t] = e
    BY DEF e
  <1> QED
    BY <1>1, <1>2, <1>3, <1>4, <1>6, <1>7, <1>8, HeldChanged DEF ToHeld, ToOpen

\* The steps that put the kernel handle of a call into its entry.
LEMMA PutsOwner ==
  ASSUME Careful, LockingInv, LockingInv', OwnerInv, NEW t \in Threads,
         FileOpen(t) \/ AttachOsfhandle(t) \/ Dup2Set(t)
  PROVE  OwnerInv'
  <1> DEFINE e == to[t]
  <1>0. /\ pc \in [Threads -> Steps] /\ osfile \in [FH -> BOOLEAN]
        /\ osfhnd \in [FH -> Handles \cup {Invalid, NoConsole}]
        /\ e \in FH /\ fh[t] \in FH /\ OsInv(t) /\ OpInv(t) /\ EntryInv(t)
    BY DEF LockingInv, Types, TypeOK, OwnerInv
  <1>1. Step(t)
    BY DEF Step
  <1>2. /\ pc[t] \in {"created", "taken", "dup2_set"}
        /\ pc[t] = "taken" => op[t] = "osfhandle"
        /\ pc[t] = "dup2_set" => op[t] = "dup2"
    BY <1>0 DEF FileOpen, AttachOsfhandle, Dup2Set, OpInv
  <1>3. osfhnd[e] = Invalid /\ InTransit(t) /\ os[t] \in Handles
    BY <1>0, <1>2 DEF OsInv, InTransit
  <1>4. /\ pc'[t] = IF pc[t] = "created" THEN "text_mode" ELSE "idle"
        /\ osfhnd' = [osfhnd EXCEPT ![e] = os[t]]
        /\ UNCHANGED <<live, op, to, os>>
    BY <1>0, <1>2, <1>3 DEF FileOpen, AttachOsfhandle, Dup2Set, SetOsHandle, Return, Goto, args
  <1>5. /\ \A f \in FH \ {e} : osfile'[f] = osfile[f]
        /\ osfile'[e]
    <2>1. CASE FileOpen(t)
      BY <1>0, <2>1 DEF FileOpen
    <2>2. CASE AttachOsfhandle(t)
      <3>1. osfile[e] /\ osfile' = osfile
        BY <1>0, <2>2 DEF AttachOsfhandle, EntryInv, ToOpen
      <3> QED
        BY <3>1
    <2>3. CASE Dup2Set(t)
      <3>1. osfile[fh[t]] /\ osfile' = [osfile EXCEPT ![e] = osfile[fh[t]]]
        BY <1>0, <2>3 DEF Dup2Set, EntryInv, FhHeld, OpInv
      <3> QED
        BY <1>0, <3>1
    <2> QED
      BY <2>1, <2>2, <2>3
  <1>6. /\ \A f \in FH \ {e} : osfhnd'[f] = osfhnd[f]
        /\ osfhnd'[e] = os[t]
    BY <1>0, <1>4
  <1>7. ~InTransit(t)'
    BY <1>4 DEF InTransit
  <1>8. OsInv(t)'
    <2>1. pc'[t] = "text_mode" => e \notin {1, 2} \ Files /\ op[t] # "close"
      BY <1>0, <1>2, <1>4 DEF OsInv, OpInv, ToHeld, ToOpen
    <2> QED
      BY <1>3, <1>4, <1>6, <1>7, <2>1 DEF OsInv, ToHeld, ToOpen
  <1>9. ASSUME NEW h \in Handles
        PROVE  /\ Brings(t, h) <=> h = os[t]
               /\ ~Brings(t, h)'
               /\ Brings(t, h) => h \in live
    BY <1>0, <1>3, <1>7, HolderUnique DEF Brings, OwnerInv
  <1> HIDE DEF e
  <1>10. to[t] = e
    BY DEF e
  <1>11. pc'[t] \notin Closes
    BY <1>4 DEF Closes
  <1>12. ASSUME NEW h \in Handles
         PROVE  /\ ~(osfile[e] /\ osfhnd[e] = h /\ pc[t] \notin Closes)
                /\ (osfile'[e] /\ osfhnd'[e] = h /\ pc'[t] \notin Closes) <=> h = os[t]
    BY <1>3, <1>5, <1>6, <1>11
  <1>13. \A h \in Handles : h \in live' <=> h \in live
    BY <1>4
  <1> QED
    BY <1>1, <1>2, <1>4, <1>5, <1>6, <1>8, <1>9, <1>10, <1>12, <1>13, HeldChanged DEF ToHeld, ToOpen

\* The steps that open or close the kernel handle of the entry.
LEMMA OpensOwner ==
  ASSUME Careful, LockingInv, LockingInv', OwnerInv, NEW t \in Threads,
         \/ Configure(t) /\ op[t] = "reopen"
         \/ \E h \in Handles : Reopen(t, h) \/ Duplicate(t, h)
  PROVE  OwnerInv'
  <1> DEFINE e == to[t]
  <1>0. /\ pc \in [Threads -> Steps] /\ osfile \in [FH -> BOOLEAN]
        /\ osfhnd \in [FH -> Handles \cup {Invalid, NoConsole}]
        /\ e \in FH /\ fh[t] \in FH /\ OsInv(t) /\ OpInv(t) /\ EntryInv(t)
    BY DEF LockingInv, Types, TypeOK, OwnerInv
  <1>1. Step(t)
    BY DEF Step
  <1>2. CASE Configure(t) /\ op[t] = "reopen"
    <2>1. /\ pc[t] = "text_mode" /\ pc'[t] = "reopen" /\ live' = live \ {os[t]}
          /\ UNCHANGED <<osfile, osfhnd, op, to, os>>
      BY <1>0, <1>2 DEF Configure, Goto, slots, args
    <2>2. osfile[e] /\ osfhnd[e] = os[t] /\ ~InTransit(t) /\ ~InTransit(t)'
      BY <1>0, <2>1 DEF OsInv, EntryInv, InTransit, ToOpen
    <2>3. OsInv(t)'
      BY <1>0, <1>2, <2>1, <2>2 DEF OsInv, ToHeld, ToOpen
    <2> QED
      BY <1>1, <2>1, <2>2, <2>3, HeldChanged DEF Brings, Closes, ToHeld, ToOpen
  <1>3. ASSUME NEW h \in Handles, Reopen(t, h) \/ Duplicate(t, h) PROVE OwnerInv'
    <2>1. /\ pc[t] \in {"reopen", "taken"} /\ pc'[t] = "idle"
          /\ pc[t] = "taken" => op[t] = "dup"
          /\ h \notin live /\ live' = live \cup {h}
          /\ UNCHANGED <<op, to, os>>
      BY <1>0, <1>3 DEF Reopen, Duplicate, Return, Goto, args
    <2>2. pc[t] \in Closes \/ osfhnd[e] = Invalid
      BY <1>0, <2>1 DEF OsInv, Closes
    <2>3. osfhnd' = [osfhnd EXCEPT ![e] = h]
      BY <1>0, <1>3 DEF Reopen, Duplicate, SetOsHandle, OsInv
    <2>4. osfile[e]
      BY <1>0, <2>1 DEF EntryInv, ToOpen
    <2>5. /\ \A f \in FH \ {e} : osfile'[f] = osfile[f]
          /\ osfile'[e]
      <3>1. CASE Reopen(t, h)
        BY <2>4, <3>1 DEF Reopen
      <3>2. CASE Duplicate(t, h)
        <4>1. osfile[fh[t]] /\ osfile' = [osfile EXCEPT ![e] = osfile[fh[t]]]
          BY <1>0, <3>2 DEF Duplicate, EntryInv, FhHeld
        <4> QED
          BY <1>0, <4>1
      <3> QED
        BY <1>3, <3>1, <3>2
    <2>6. /\ \A f \in FH \ {e} : osfhnd'[f] = osfhnd[f]
          /\ osfhnd'[e] = h
      BY <1>0, <2>3
    <2>7. ~InTransit(t) /\ ~InTransit(t)'
      BY <1>0, <2>1 DEF InTransit
    <2>8. OsInv(t)'
      BY <2>1, <2>7 DEF OsInv, ToHeld, ToOpen
    <2> HIDE DEF e
    <2>9. to[t] = e
      BY DEF e
    <2>10. ASSUME NEW k \in Handles
           PROVE  /\ ~(osfile[e] /\ osfhnd[e] = k /\ pc[t] \notin Closes)
                  /\ (osfile'[e] /\ osfhnd'[e] = k /\ pc'[t] \notin Closes) <=> k = h
                  /\ ~Brings(t, k) /\ ~Brings(t, k)'
      BY <2>1, <2>2, <2>5, <2>6, <2>7 DEF Brings, Closes
    <2> QED
      BY <1>1, <2>1, <2>5, <2>6, <2>8, <2>9, <2>10, HeldChanged DEF ToHeld, ToOpen
  <1> QED
    BY <1>2, <1>3

LEMMA InitOwner == Init => OwnerInv
  <1> SUFFICES ASSUME Init PROVE OwnerInv
    OBVIOUS
  <1>0. 1 \in FH /\ 2 \in FH
    BY Sizes
  <1>1. ASSUME NEW t \in Threads PROVE ~InTransit(t) /\ OsInv(t)
    BY DEF Init, InTransit, OsInv, ToHeld, ToOpen
  <1>2. FreeInv
    BY DEF Init, FreeInv
  <1>3. StdInv
    <2>1. osfile[1] /\ osfile[2]
      <3>1. osfile[1] = (1 < 3) /\ osfile[2] = (2 < 3)
        BY <1>0, Zenon DEF Init
      <3>2. 1 < 3 /\ 2 < 3
        OBVIOUS
      <3> QED
        BY <3>1, <3>2, Zenon
    <2>2. osfhnd[1] = NoConsole /\ osfhnd[2] = NoConsole
      BY <1>0 DEF Init
    <2> QED
      BY <2>1, <2>2 DEF StdInv
  <1>4. ASSUME NEW h \in Handles PROVE h \notin live /\ Entries(h) = {} /\ Transits(h) = {}
    BY <1>1 DEF Init, Entries, Transits
  <1> QED
    BY <1>1, <1>2, <1>3, <1>4 DEF OwnerInv, OwnInv

LEMMA StepOwner ==
  ASSUME Careful, LockingInv, LockingInv', OwnerInv, [Next]_vars
  PROVE  OwnerInv'
  <1>1. CASE UNCHANGED vars
    BY <1>1 DEF vars, OwnerInv, OsInv, FreeInv, StdInv, OwnInv, Entries, Transits, InTransit, Closing
  <1>2. ASSUME NEW t \in Threads, Call(t) PROVE OwnerInv'
    BY <1>2, CallsOwner
  <1>3. ASSUME NEW t \in Threads, Step(t) PROVE OwnerInv'
    BY <1>3, QuietOwner, TransitOwner, TakesOwner, ClosesOwner, FailsOwner, PutsOwner, OpensOwner DEF Step
  <1> QED
    BY <1>1, <1>2, <1>3 DEF Next

\* The owners of kernel handles, for a driver that keeps to the rules.
THEOREM OwnerDiscipline ==
  ASSUME Careful
  PROVE  Spec => [](LockingInv /\ OwnerInv)
  <1>1. LockingInv /\ LockingInv' /\ OwnerInv /\ [Next]_vars => OwnerInv'
    BY StepOwner
  <1> QED
    BY <1>1, InitOwner, LockDiscipline, PTL DEF Spec

LEMMA OneOwner ==
  ASSUME LockingInv, OwnerInv
  PROVE  HandleOwned
  <1>1. ASSUME NEW h \in live PROVE Cardinality(Owners(h)) = 1
    <2>1. h \in Handles
      BY DEF LockingInv, Types, TypeOK
    <2>2. Owners(h) = Entries(h) \cup { <<u>> : u \in Transits(h) }
      BY DEF Owners, Entries, Transits
    <2>3. \E x : Owners(h) = {x}
      <3>1. CASE Transits(h) = {} /\ \E f \in FH : Entries(h) = {f}
        BY <2>2, <3>1
      <3>2. CASE Entries(h) = {} /\ \E t \in Threads : Transits(h) = {t}
        <4>1. PICK t \in Threads : Transits(h) = {t}
          BY <3>2
        <4>2. Owners(h) = {<<t>>}
          BY <2>2, <3>2, <4>1
        <4> QED
          BY <4>2
      <3> QED
        BY <2>1, <3>1, <3>2 DEF OwnerInv, OwnInv
    <2> QED
      BY <2>3, FS_Singleton
  <1>2. ASSUME NEW f \in FH, osfile[f], osfhnd[f] \in Handles, ~Closing(f) PROVE osfhnd[f] \in live
    <2>1. f \in Entries(osfhnd[f])
      BY <1>2 DEF Entries
    <2> QED
      BY <1>2, <2>1 DEF OwnerInv, OwnInv
  <1> QED
    BY <1>1, <1>2 DEF HandleOwned

(***************************************************************************)
(* A kernel handle that is open is owned by one open entry or one call in  *)
(* progress, whatever _open, _open_osfhandle, _close, _dup and _dup2 do at *)
(* the same time and wherever they fail, in a driver that keeps to         *)
(* `Careful' (osfinfo.cpp, open.cpp, close.cpp, dup.cpp, dup2.cpp).        *)
(***************************************************************************)
THEOREM KernelHandlesOwned ==
  ASSUME Careful
  PROVE  Spec => []HandleOwned
  BY OwnerDiscipline, OneOwner, PTL

\* No step of u changes an entry that another thread has locked.
LEMMA LockedKept ==
  ASSUME LockingInv, NEW t \in Threads, NEW u \in Threads \ {t}, Call(u) \/ Step(u),
         NEW f \in FH, lock[f] = t
  PROVE  osfile'[f] = osfile[f] /\ osfhnd'[f] = osfhnd[f]
  <1> DEFINE Goal == osfile'[f] = osfile[f] /\ osfhnd'[f] = osfhnd[f]
             Frame == UNCHANGED <<osfile, osfhnd>>
  <1> SUFFICES Goal
    OBVIOUS
  <1>1. to[u] \in FH /\ osfile \in [FH -> BOOLEAN] /\ osfhnd \in [FH -> Handles \cup {Invalid, NoConsole}]
    BY DEF LockingInv, Types, TypeOK
  <1>2. pc[u] \in ToHeld => to[u] # f
    BY <1>1 DEF LockingInv, LockInv, Holds
  <1>3. lock[f] # NoThread
    OBVIOUS
  <1>4. CASE Call(u)
    BY <1>4 DEF Call, Open, OpenOsfhandle, Close, Use, Dup, Dup2, slots
  <1>5. CASE \/ Lock(u) \/ UseEnds(u) \/ CloseOsHandle(u) \/ AllocLock(u) \/ Scan(u) \/ Grow(u) \/ AllocFails(u)
             \/ ConfigureFails(u) \/ Configure(u) \/ EnsureFhExists(u) \/ LockFirst(u) \/ LockSecond(u)
             \/ Dup2Fails(u) \/ (\E h \in Handles : CreateFile(u, h) \/ Dup2Duplicate(u, h))
             \/ \E n \in 0..(Elts * Arrays) : EnsureFails(u, n)
    <2>1. Frame
      BY <1>5 DEF Lock, UseEnds, CloseOsHandle, AllocLock, Scan, Grow, AllocFails, ConfigureFails, Configure,
                  EnsureFhExists, LockFirst, LockSecond, Dup2Fails, CreateFile, Dup2Duplicate, EnsureFails, slots
    <2> QED
      BY <2>1
  <1>6. CASE Enter(u) \/ EnterNew(u)
    BY <1>1, <1>3, <1>6 DEF Enter, EnterNew, Taken
  <1>7. CASE \/ CloseFree(u) \/ CreateFileFails(u) \/ UnknownType(u) \/ FileOpen(u) \/ ReopenFails(u)
             \/ AttachOsfhandle(u) \/ DuplicateFails(u)
    BY <1>1, <1>2, <1>7 DEF CloseFree, CreateFileFails, UnknownType, FileOpen, ReopenFails, AttachOsfhandle,
                            DuplicateFails, FreeOsfhnd, SetOsHandle, ToHeld, ToOpen
  <1>8. CASE Dup2Set(u) \/ \E h \in Handles : Reopen(u, h) \/ Duplicate(u, h)
    BY <1>1, <1>2, <1>8 DEF Dup2Set, Reopen, Duplicate, SetOsHandle, ToHeld, ToOpen
  <1> HIDE DEF Goal
  <1> QED
    BY <1>4, <1>5, <1>6, <1>7, <1>8 DEF Step

(***************************************************************************)
(* While _write, _read or another call uses a handle under its lock, no    *)
(* other thread closes or replaces the entry or its kernel handle, in a    *)
(* driver that keeps to `Careful' (osfinfo.cpp, close.cpp, dup2.cpp).      *)
(***************************************************************************)
THEOREM HandleStableInUse ==
  ASSUME Careful
  PROVE  Spec => UseStable
  <1> DEFINE Inv == LockingInv /\ OwnerInv
             Stable(t) == LET f == to[t]
                          IN  /\ osfile[f] /\ osfile'[f]
                              /\ osfhnd'[f] = osfhnd[f]
                              /\ osfhnd[f] \in live => osfhnd[f] \in live'
  <1>1. ASSUME LockingInv, OwnerInv, LockingInv', OwnerInv', NEW t \in Threads, pc[t] = "use", Next
        PROVE  Stable(t)
    <2> DEFINE f == to[t]
    <2>1. f \in FH /\ lock[f] = t
      BY <1>1 DEF LockingInv, LockInv, Types, TypeOK, Holds, ToHeld, ToOpen
    <2>2. osfile[f]
      BY <1>1 DEF LockingInv, EntryInv, ToOpen
    <2>3. PICK u \in Threads : Call(u) \/ Step(u)
      BY <1>1 DEF Next
    <2>4. CASE u = t
      <3>1. UseEnds(t)
        BY <1>1, <2>3, <2>4 DEF Call, Open, OpenOsfhandle, Close, Use, Dup, Dup2, Begin, Step, Lock, CloseOsHandle,
             CloseFree, AllocLock, Scan, Enter, Grow, EnterNew, AllocFails, CreateFileFails, UnknownType, FileOpen,
             ConfigureFails, Configure, ReopenFails, AttachOsfhandle, DuplicateFails, EnsureFhExists, LockFirst,
             LockSecond, Dup2Fails, Dup2Set, CreateFile, Reopen, Duplicate, Dup2Duplicate, EnsureFails
      <3> QED
        BY <2>2, <3>1 DEF UseEnds, slots
    <2>5. CASE u # t
      <3>1. osfile'[f] = osfile[f] /\ osfhnd'[f] = osfhnd[f]
        BY <1>1, <2>1, <2>3, <2>5, LockedKept
      <3>2. pc'[t] = "use" /\ to'[t] = f
        BY <1>1, <2>3, <2>5, StepMine DEF Mine
      <3>3. lock'[f] = t
        BY <1>1, <2>1, <3>2 DEF LockingInv, LockInv, Holds, ToHeld, ToOpen
      <3>4. ASSUME osfhnd[f] \in live PROVE osfhnd[f] \in live'
        <4>1. PICK h \in Handles : h = osfhnd[f]
          BY <1>1, <3>4 DEF LockingInv, Types, TypeOK
        <4>2. PICK g \in FH : g = f
          BY <2>1
        <4>3. osfile'[g] /\ osfhnd'[g] = h
          BY <2>2, <3>1, <4>1, <4>2
        <4>4. ~Closing(g)'
          BY <3>2, <3>3, <4>2 DEF Closing
        <4>5. g \in Entries(h)'
          BY <4>3, <4>4 DEF Entries
        <4> QED
          BY <1>1, <4>1, <4>5 DEF OwnerInv, OwnInv
      <3> QED
        BY <2>2, <3>1, <3>4
    <2> QED
      BY <2>4, <2>5
  <1>2. Inv /\ Inv' /\ [Next]_vars => [\A t \in Threads : pc[t] = "use" => Stable(t)]_vars
    BY <1>1
  <1> QED
    BY <1>2, OwnerDiscipline, PTL DEF Spec, UseStable

=============================================================================
