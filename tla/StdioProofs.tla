----------------------------- MODULE StdioProofs -----------------------------
(***************************************************************************)
(* Proofs about Stdio, for any number of threads, slots, files and bytes   *)
(* and any size of the buffers.                                            *)
(*                                                                         *)
(* The inductive invariant has two layers.  Control says where a thread    *)
(* may be in its call and which locks it then holds; it needs nothing      *)
(* else.  Table says what the streams, the files and the bytes are while   *)
(* threads are at those steps, and rests on Control.                       *)
(***************************************************************************)
EXTENDS Stdio, FiniteSetTheorems, SequenceTheorems, TLAPS

-----------------------------------------------------------------------------
(* Layer 1: calls and locks *)

Walks == {"fopen", "flushall", "exit"}     \* calls that go through __piob
Ops   == StreamOps \cup Walks \cup {"none"}
Held  == {"body", "unlock", "free", "claim", "open"}
Steps == Held \cup {"idle", "wait", "index", "scan", "close"}

ControlTypes ==
    /\ pc \in [Threads -> Steps] /\ op \in [Threads -> Ops]
    /\ at \in [Threads -> 0..NStream]
    /\ lock \in [Slots -> Threads \cup {NoThread}] /\ index \in Threads \cup {NoThread}
    /\ stage \in {"up", "exit", "down"} /\ users \subseteq Slots

\* The steps of each call.
StepInv(t) ==
    /\ op[t] = "none" <=> pc[t] = "idle"
    /\ op[t] \in StreamOps => pc[t] \in Held \cup {"wait"}
    /\ op[t] = "fopen"     => pc[t] \in {"index", "scan", "wait", "open", "free", "unlock"} /\ at[t] > 0
    /\ op[t] = "flushall"  => pc[t] \in {"index", "scan", "wait"}
    /\ op[t] = "exit"      => pc[t] \in {"index", "scan", "wait", "close"}
    /\ pc[t] \in {"unlock", "free"} => op[t] \in {"fclose", "freopen", "fopen"}
    /\ pc[t] = "claim"     => op[t] = "freopen"
    /\ pc[t] = "open"      => op[t] \in {"freopen", "fopen"}
    /\ pc[t] \in Held \cup {"wait"} => at[t] \in Slots
    /\ pc[t] = "close"     => op[t] = "exit" /\ at[t] > 0
    /\ pc[t] = "index"     => op[t] \in Walks
    /\ pc[t] = "scan"      => op[t] \in Walks

\* Who holds the index lock, and whose the lock of a stream is.
HoldsIndex(t) == pc[t] \in {"scan", "close"} \/ (pc[t] = "wait" /\ op[t] \in Walks)

LockInv(t) ==
    /\ index = t <=> HoldsIndex(t)
    /\ \A s \in Slots : lock[s] = t <=> (at[t] = s /\ pc[t] \in Held)

\* The terminator is alone.
AloneInv(t) ==
    /\ op[t] = "exit" => stage = "exit" /\ \A u \in Threads \ {t} : op[u] = "none"
    /\ stage = "exit" => op[t] \in {"none", "exit"}
    /\ stage = "down" => op[t] = "none"

\* A client that closes, reopens, reads or rebuffers a stream is alone on it.
ClientInv ==
    \A t, u \in Threads :
      t # u /\ op[t] \in StreamOps /\ op[u] \in StreamOps /\ at[t] = at[u] => op[t] \notin Alone

\* Every call that opens a file has one left to open.
Openers == {u \in Threads : op[u] \in {"fopen", "freopen"}}

OpenInv == opened \in Nat /\ opened + Cardinality(Openers) <= MaxFiles

Control ==
    /\ ControlTypes /\ ClientInv /\ OpenInv
    /\ \A t \in Threads : StepInv(t) /\ LockInv(t) /\ AloneInv(t)

-----------------------------------------------------------------------------
(* Layer 2: streams, files and bytes *)

\* A buffer has room, and only a stream that can be flushed has bytes in it.
Fine(s) ==
    /\ s \in Streams
    /\ HasBuffer(s) => s.bufsiz >= 2
    /\ s.buf # << >> \/ s.cnt > 0 => Flushable(s)

There(s) == piob[s] # NoStream

TableTypes ==
    /\ piob \in [Slots -> Streams \cup {NoStream}] /\ \A s \in Slots : There(s) => Fine(piob[s])
    /\ files \subseteq 1..opened /\ left \in [Threads -> Nat]
    /\ disk \in [Files -> Seq(Nat)] /\ sent \in [Files -> Nat]
    /\ err \in [Files -> {"no", "told", "ignored"}]

\* A stream with a file is in use, and no other stream has the file.
SlotInv ==
    \A s \in Slots : There(s) =>
      /\ piob[s].file <= opened
      /\ piob[s].file # NoFile => InUse(piob[s])
      /\ \A r \in Slots : There(r) /\ piob[r].file = piob[s].file /\ r # s => piob[s].file = NoFile

Has(s, f) == There(s) /\ piob[s].file = f

FileInv ==
    /\ stage # "down" => \A f \in files : \E s \in Slots : Has(s, f)
    /\ stage = "down" => Cardinality(files) <= 1

UserInv ==
    stage = "up" =>
      \A s \in users : /\ There(s)
                       /\ s # 0 => Closing(s) \/ piob[s].file \in files

Iota(n) == [i \in 1..n |-> i]

\* DataKept, stream by stream.
KeptInv ==
    \A f \in Files : err[f] = "no" =>
      /\ \A s \in Slots : Has(s, f) => disk[f] \o piob[s].buf = Iota(sent[f])
      /\ (\A s \in Slots : ~Has(s, f)) => disk[f] = Iota(sent[f])

Flushed(s) == There(s) /\ piob[s].file # NoFile => piob[s].buf = << >>

\* What a thread may rely on at each step of its call.
ThreadInv(t) ==
    /\ pc[t] \in Held \cup {"wait"} => There(at[t])
    /\ pc[t] = "free" => piob[at[t]].file \notin files /\ Flushed(at[t])
    /\ pc[t] \in {"claim", "open"} \/ (pc[t] = "free" /\ op[t] = "fopen") => piob[at[t]].file = NoFile
    /\ op[t] = "fopen" /\ pc[t] \in {"open", "free"} => at[t] \notin users
    /\ op[t] \in StreamOps \ {"freopen"} /\ pc[t] \in {"wait", "body"} => piob[at[t]].file # NoFile
    /\ op[t] = "fwrite" => left[t] > 0

ExitInv(t) ==
    /\ op[t] = "exit" /\ pc[t] # "close" => \A s \in Slots : s < at[t] => Flushed(s)
    /\ pc[t] = "close" => \A s \in Slots : Flushed(s) /\ (0 < s /\ s < at[t] => ~There(s))

Table ==
    /\ TableTypes /\ SlotInv /\ FileInv /\ UserInv /\ KeptInv
    /\ \A t \in Threads : ThreadInv(t) /\ ExitInv(t)

-----------------------------------------------------------------------------
(* Control is inductive *)

\* Concatenation, for sequences that have names.
LEMMA Regroup ==
  ASSUME NEW a \in Seq(Nat), NEW b \in Seq(Nat), NEW c \in Seq(Nat)
  PROVE  (a \o b) \o c = a \o (b \o c)
  BY ConcatAssociative, SMTT(30)

USE StdioAssumption DEF Slots, Files, NoFile

\* What a step of a call of t does to the control.
Internal(t) ==
    /\ op[t] # "none" /\ stage' = stage
    /\ \A u \in Threads \ {t} :
         /\ pc'[u] = pc[u] /\ op'[u] = op[u] /\ at'[u] = at[u]
         /\ index' = u <=> index = u
         /\ \A s \in Slots : lock'[s] = u <=> lock[s] = u
    /\ \/ op'[t] = op[t] /\ (op[t] \in StreamOps => at'[t] = at[t]) /\ opened' = opened
       \/ /\ op'[t] = "none"
          /\ opened' = opened \/ (opened' = opened + 1 /\ op[t] \in {"fopen", "freopen"})
    /\ ControlTypes' /\ StepInv(t)' /\ LockInv(t)'

\* The number of calls that open a file, when the call of t changes.
LEMMA OpenersChange ==
  ASSUME ControlTypes, NEW t \in Threads, NEW o \in Ops, op' = [op EXCEPT ![t] = o]
  PROVE  /\ Cardinality(Openers) \in Nat /\ Cardinality(Openers') \in Nat
         /\ t \in Openers => Cardinality(Openers) > 0
         /\ (t \in Openers <=> o \in {"fopen", "freopen"}) => Cardinality(Openers') = Cardinality(Openers)
         /\ t \in Openers /\ o \notin {"fopen", "freopen"} =>
              Cardinality(Openers') = Cardinality(Openers) - 1
         /\ t \notin Openers /\ o \in {"fopen", "freopen"} =>
              Cardinality(Openers') = Cardinality(Openers) + 1
  <1>1. IsFiniteSet(Openers)
    BY FS_Subset, StdioAssumption DEF Openers
  <1>2. /\ t \in Openers /\ o \notin {"fopen", "freopen"} => Openers' = Openers \ {t}
        /\ t \notin Openers /\ o \in {"fopen", "freopen"} => Openers' = Openers \cup {t}
        /\ (t \in Openers <=> o \in {"fopen", "freopen"}) => Openers' = Openers
    BY DEF Openers, ControlTypes
  <1>3. /\ IsFiniteSet(Openers \ {t}) /\ IsFiniteSet(Openers \cup {t})
        /\ t \in Openers => Cardinality(Openers \ {t}) = Cardinality(Openers) - 1
        /\ t \notin Openers => Cardinality(Openers \cup {t}) = Cardinality(Openers) + 1
    BY <1>1, FS_AddElement, FS_RemoveElement
  <1>4. /\ Cardinality(Openers) \in Nat /\ Cardinality(Openers \ {t}) \in Nat
        /\ Cardinality(Openers \cup {t}) \in Nat
    BY <1>1, <1>3, FS_CardinalityType
  <1>5. t \in Openers => Cardinality(Openers) > 0
    BY <1>3, <1>4
  <1>6. t \in Openers \/ t \notin Openers
    OBVIOUS
  <1>7. CASE t \in Openers
    BY <1>2, <1>3, <1>4, <1>5, <1>7
  <1>8. CASE t \notin Openers
    BY <1>2, <1>3, <1>4, <1>8
  <1> QED
    BY <1>7, <1>8

LEMMA InternalControl ==
  ASSUME Control, NEW t \in Threads, Internal(t)
  PROVE  Control'
  <1>0. op'[t] \in Ops /\ op' = [op EXCEPT ![t] = op'[t]]
    BY DEF Control, ControlTypes, Internal
  <1>1. OpenInv'
    <2> DEFINE o == op'[t]
    <2>1. /\ opened \in Nat /\ opened + Cardinality(Openers) <= MaxFiles /\ ControlTypes
          /\ t \in Openers <=> op[t] \in {"fopen", "freopen"}
      BY DEF Control, OpenInv, Openers
    <2>2. CASE op'[t] = op[t] /\ opened' = opened
      BY <1>0, <2>1, <2>2, OpenersChange DEF OpenInv
    <2>3. CASE op'[t] = "none" /\ opened' = opened
      BY <1>0, <2>1, <2>3, OpenersChange DEF OpenInv
    <2>4. CASE op'[t] = "none" /\ opened' = opened + 1 /\ op[t] \in {"fopen", "freopen"}
      BY <1>0, <2>1, <2>4, OpenersChange DEF OpenInv
    <2> QED
      BY <2>2, <2>3, <2>4 DEF Internal
  <1>2. ClientInv'
    BY DEF Control, ControlTypes, ClientInv, Internal, StreamOps
  <1>3. ASSUME NEW u \in Threads PROVE StepInv(u)' /\ LockInv(u)' /\ AloneInv(u)'
    <2>1. AloneInv(u)'
      BY DEF Control, AloneInv, Internal
    <2>2. StepInv(u)'
      BY DEF Control, StepInv, Internal
    <2>3. LockInv(u)'
      BY DEF Control, LockInv, HoldsIndex, Internal
    <2> QED
      BY <2>1, <2>2, <2>3
  <1> QED
    BY <1>1, <1>2, <1>3 DEF Control, Internal

\* A call begins: t takes no lock.
LEMMA StartControl ==
  ASSUME Control, NEW t \in Threads, NEW o \in Ops \ {"none"}, NEW q \in {"wait", "index"}, NEW a \in Slots \cup {1},
         Start(t, o, q, a), UNCHANGED <<lock, index, users, opened>>,
         o \in StreamOps <=> q = "wait", o \in StreamOps => a \in Slots, o = "fopen" => a = 1,
         o \in {"fopen", "freopen"} => MayOpen,
         IF o = "exit" THEN stage' = "exit" /\ \A u \in Threads : op[u] = "none" ELSE stage' = stage,
         o \in StreamOps => \A u \in Threads \ {t} :
           op[u] \in StreamOps /\ at[u] = a => op[u] \notin Alone /\ o \notin Alone
  PROVE  Control'
  <1> USE DEF Start, Move
  <1>1. /\ op[t] = "none" /\ pc[t] = "idle" /\ stage = "up"
        /\ pc'[t] = q /\ op'[t] = o /\ at'[t] = a
        /\ \A u \in Threads \ {t} : pc'[u] = pc[u] /\ op'[u] = op[u] /\ at'[u] = at[u]
    BY DEF Control, ControlTypes, StepInv
  <1>2. ControlTypes'
    BY DEF Control, ControlTypes, Steps
  <1>3. OpenInv'
    <2>1. /\ opened \in Nat /\ opened + Cardinality(Openers) <= MaxFiles /\ ControlTypes /\ t \notin Openers
          /\ op' = [op EXCEPT ![t] = o]
      BY <1>1 DEF Control, OpenInv, Openers
    <2>2. CASE o \in {"fopen", "freopen"}
      <3>1. opened + Cardinality(Openers) < MaxFiles
        BY <2>2 DEF MayOpen, Openers
      <3>2. Cardinality(Openers') = Cardinality(Openers) + 1 /\ Cardinality(Openers) \in Nat
        BY <2>1, <2>2, OpenersChange
      <3> QED
        BY <2>1, <3>1, <3>2 DEF OpenInv
    <2>3. CASE o \notin {"fopen", "freopen"}
      BY <2>1, <2>3, OpenersChange DEF OpenInv
    <2> QED
      BY <2>2, <2>3
  <1>4. ClientInv'
    BY <1>1 DEF Control, ClientInv
  <1>5. ASSUME NEW u \in Threads PROVE StepInv(u)' /\ LockInv(u)' /\ AloneInv(u)'
    <2>1. AloneInv(u)'
      BY <1>1 DEF Control, AloneInv
    <2>2. StepInv(u)'
      BY <1>1 DEF Control, StepInv, Held, Walks, Ops, StreamOps
    <2>3. LockInv(u)'
      BY <1>1 DEF Control, LockInv, HoldsIndex, Held, Walks, StreamOps
    <2> QED
      BY <2>1, <2>2, <2>3
  <1> QED
    BY <1>2, <1>3, <1>4, <1>5 DEF Control

LEMMA CallControl ==
  ASSUME Control, NEW t \in Threads,
         (\E o \in StreamOps, s \in Slots : Call(t, o, s)) \/ Fopen(t) \/ FlushAll(t) \/ Exit(t)
  PROVE  Control'
  <1> USE DEF Ops, StreamOps, Walks, table, lowio
  <1>1. ASSUME NEW o \in StreamOps, NEW s \in Slots, Call(t, o, s) PROVE Control'
    BY <1>1, StartControl DEF Call
  <1>2. CASE Fopen(t)
    BY <1>2, StartControl DEF Fopen
  <1>3. CASE FlushAll(t)
    BY <1>3, StartControl DEF FlushAll
  <1>4. CASE Exit(t)
    BY <1>4, StartControl DEF Exit
  <1> QED
    BY <1>1, <1>2, <1>3, <1>4

\* A step of a call moves t to step q at slot a, and the call is o from then on.
Moves(t, q, a, o) ==
    /\ pc' = [pc EXCEPT ![t] = q] /\ at' = [at EXCEPT ![t] = a] /\ op' = [op EXCEPT ![t] = o]
    /\ stage' = stage /\ users' \subseteq Slots

LocksKept    == lock' = lock
LockTaken(t, s) == lock[s] = NoThread /\ lock' = [lock EXCEPT ![s] = t]
IndexKept    == index' = index
IndexTaken(t) == index = NoThread /\ index' = t
IndexDropped(t) == index = t /\ index' = NoThread

LEMMA MovesControl ==
  ASSUME Control, NEW t \in Threads, NEW q \in Steps, NEW a \in 0..NStream, NEW o \in Ops,
         Moves(t, q, a, o), op[t] # "none", StepInv(t)',
         \/ o = op[t] /\ (op[t] \in StreamOps => a = at[t]) /\ opened' = opened
         \/ /\ o = "none"
            /\ opened' = opened \/ (opened' = opened + 1 /\ op[t] \in {"fopen", "freopen"}),
         \/ LocksKept /\ q \in Held /\ pc[t] \in Held /\ a = at[t]
         \/ LocksKept /\ q \notin Held /\ pc[t] \notin Held
         \/ LockTaken(t, a) /\ q \in Held /\ pc[t] \notin Held
         \/ Unlock(t) /\ q \notin Held /\ pc[t] \in Held,
         \/ IndexKept /\ (HoldsIndex(t)' <=> HoldsIndex(t))
         \/ IndexTaken(t) /\ HoldsIndex(t)'
         \/ IndexDropped(t) /\ ~HoldsIndex(t)'
  PROVE  Control'
  <1>0. /\ ControlTypes /\ LockInv(t) /\ StepInv(t)
        /\ \A u \in Threads : u # NoThread
        /\ \A s \in Slots : lock[s] = t <=> (at[t] = s /\ pc[t] \in Held)
        /\ index = t <=> HoldsIndex(t)
    BY DEF Control, LockInv
  <1>1. /\ pc'[t] = q /\ at'[t] = a /\ op'[t] = o
        /\ \A u \in Threads \ {t} : pc'[u] = pc[u] /\ op'[u] = op[u] /\ at'[u] = at[u]
    BY <1>0 DEF Moves, ControlTypes
  <1>2. q \in Held \cup {"wait"} => a \in Slots
    BY <1>1 DEF StepInv
  <1>3. /\ lock' \in [Slots -> Threads \cup {NoThread}]
        /\ \A s \in Slots : lock'[s] = t <=> (a = s /\ q \in Held)
        /\ \A u \in Threads \ {t} : \A s \in Slots : lock'[s] = u <=> lock[s] = u
    <2>1. CASE LocksKept /\ (q \in Held <=> pc[t] \in Held) /\ (q \in Held => a = at[t])
      BY <1>0, <1>1, <2>1 DEF LocksKept, ControlTypes
    <2>2. CASE LockTaken(t, a) /\ q \in Held /\ pc[t] \notin Held
      BY <1>0, <1>1, <1>2, <2>2 DEF LockTaken, ControlTypes
    <2>3. CASE Unlock(t) /\ q \notin Held /\ pc[t] \in Held
      <3>1. at[t] \in Slots
        BY <1>0, <2>3 DEF StepInv
      <3> QED
        BY <1>0, <1>1, <2>3, <3>1 DEF Unlock, ControlTypes
    <2> HIDE DEF LocksKept, LockTaken, Unlock, Held
    <2> QED
      BY <2>1, <2>2, <2>3
  <1>4. /\ index' \in Threads \cup {NoThread}
        /\ index' = t <=> HoldsIndex(t)'
        /\ \A u \in Threads \ {t} : index' = u <=> index = u
    BY <1>0 DEF IndexKept, IndexTaken, IndexDropped, ControlTypes
  <1>5. ControlTypes'
    BY <1>0, <1>3, <1>4 DEF ControlTypes, Moves
  <1>6. LockInv(t)'
    BY <1>1, <1>3, <1>4 DEF LockInv
  <1>7. Internal(t)
    BY <1>1, <1>3, <1>4, <1>5, <1>6 DEF Internal, Moves
  <1> QED
    BY <1>7, InternalControl

\* The steps under the lock of a stream, and the ones that return.
LEMMA BodyControl ==
  ASSUME Control, NEW t \in Threads,
         \/ LockFile(t) \/ UnlockFile(t) \/ Fputc(t) \/ Fflush(t) \/ Fgetc(t) \/ Setvbuf(t)
         \/ FwriteCopy(t) \/ FwriteBlocks(t) \/ FwriteChar(t) \/ Fclose(t) \/ FreeStream(t) \/ Claim(t)
         \/ (\E mode \in {"w", "w+", "a"} : OpenFile(t, mode)) \/ OpenFileFails(t)
  PROVE  Control'
  <1>0. ControlTypes /\ StepInv(t) /\ users \subseteq Slots /\ op[t] \in Ops /\ at[t] \in 0..NStream /\ 0 \in 0..NStream
    BY DEF Control, ControlTypes
  <1>a. ASSUME NEW q \in {"body", "free", "unlock", "claim", "open"}, pc[t] \in Held, op[t] # "none",
               Goto(t, q), UNCHANGED <<lock, index, stage, opened>>, users' \subseteq Slots, StepInv(t)'
        PROVE  Control'
    <2>1. Moves(t, q, at[t], op[t]) /\ q \in Steps /\ q \in Held
      BY <1>0, <1>a DEF Moves, Goto, Move, Steps, Held, ControlTypes
    <2>2. LocksKept /\ IndexKept /\ ~HoldsIndex(t) /\ ~HoldsIndex(t)'
      BY <1>0, <1>a, <2>1 DEF LocksKept, IndexKept, HoldsIndex, Held, Moves, ControlTypes
    <2> HIDE DEF Held, Steps, Ops
    <2> QED
      BY <1>0, <1>a, <2>1, <2>2, MovesControl
  <1>b. ASSUME pc[t] \in Held, op[t] # "none", Unlock(t), Return(t), UNCHANGED <<index, stage>>,
               users' \subseteq Slots,
               opened' = opened \/ (opened' = opened + 1 /\ op[t] \in {"fopen", "freopen"})
        PROVE  Control'
    <2>1. Moves(t, "idle", 0, "none") /\ "idle" \in Steps /\ "none" \in Ops /\ "idle" \notin Held
      BY <1>0, <1>b DEF Moves, Return, Move, Steps, Held, Ops, ControlTypes
    <2>2. pc'[t] = "idle" /\ op'[t] = "none"
      BY <1>0, <2>1 DEF Moves, ControlTypes
    <2>3. IndexKept /\ ~HoldsIndex(t) /\ ~HoldsIndex(t)' /\ StepInv(t)'
      BY <1>0, <1>b, <2>2 DEF IndexKept, HoldsIndex, Held, StepInv, StreamOps, Walks
    <2> HIDE DEF Held, Steps, Ops
    <2> QED
      BY <1>0, <1>b, <2>1, <2>3, MovesControl
  <1> USE <1>0 DEF Body, table, lowio
  <1>1. CASE LockFile(t)
    <2>1. /\ pc[t] = "wait" /\ op[t] \in StreamOps /\ at[t] \in Slots
          /\ Moves(t, "body", at[t], op[t]) /\ LockTaken(t, at[t]) /\ IndexKept /\ opened' = opened
      BY <1>1 DEF LockFile, Moves, Goto, Move, LockTaken, IndexKept, StepInv, ControlTypes
    <2>2. "body" \in Steps /\ "body" \in Held /\ pc[t] \notin Held /\ op[t] # "none"
      BY <2>1 DEF Steps, Held, StreamOps
    <2>3. pc'[t] = "body" /\ op'[t] = op[t] /\ at'[t] = at[t]
      BY <2>1 DEF Moves, ControlTypes
    <2>4. StepInv(t)' /\ ~HoldsIndex(t) /\ ~HoldsIndex(t)'
      BY <2>1, <2>3 DEF StepInv, HoldsIndex, Held, StreamOps, Walks
    <2> HIDE DEF Held, Steps, Ops
    <2> QED
      BY <2>1, <2>2, <2>4, MovesControl
  <1>2. CASE UnlockFile(t)
    BY <1>2, <1>b DEF UnlockFile, StepInv, Held
  <1>3. CASE Fputc(t) \/ Fflush(t) \/ Fgetc(t) \/ Setvbuf(t)
    <2>1. /\ pc[t] \in Held /\ op[t] # "none"
          /\ Unlock(t) /\ Return(t) /\ UNCHANGED <<table, lowio>>
      BY <1>3 DEF Fputc, Fflush, Fgetc, Setvbuf, Held
    <2> QED
      BY <2>1, <1>b
  <1>4. CASE FwriteCopy(t) \/ FwriteBlocks(t) \/ FwriteChar(t)
    <2>1. /\ pc[t] = "body" /\ op[t] = "fwrite"
          /\ (Goto(t, "body") /\ UNCHANGED lock) \/ (Unlock(t) /\ Return(t))
          /\ UNCHANGED <<table, lowio>>
      BY <1>4 DEF FwriteCopy, FwriteBlocks, FwriteChar, FwriteTurn
    <2>2. CASE Goto(t, "body") /\ UNCHANGED lock
      <3>1. StepInv(t)'
        BY <2>1, <2>2 DEF Goto, Move, StepInv, ControlTypes
      <3> QED
        BY <1>a, <2>1, <2>2, <3>1 DEF Held
    <2>3. CASE Unlock(t) /\ Return(t)
      BY <1>b, <2>1, <2>3 DEF Held
    <2> QED
      BY <2>1, <2>2, <2>3
  <1>5. CASE Fclose(t)
    <2>1. /\ pc[t] = "body" /\ op[t] \in {"fclose", "freopen"} /\ Goto(t, "free")
          /\ UNCHANGED <<lock, table, opened>>
      BY <1>5 DEF Fclose
    <2>2. StepInv(t)'
      BY <2>1 DEF Goto, Move, StepInv, ControlTypes, Held, StreamOps
    <2> QED
      BY <1>a, <2>1, <2>2 DEF Held
  <1>6. CASE FreeStream(t)
    <2>1. PICK q \in {"claim", "unlock"} :
            /\ pc[t] = "free" /\ Goto(t, q) /\ UNCHANGED <<lock, index, stage, opened>>
            /\ users' \subseteq Slots /\ (q = "claim" <=> op[t] = "freopen")
      BY <1>6 DEF FreeStream
    <2>2. StepInv(t)'
      BY <2>1 DEF Goto, Move, StepInv, ControlTypes, Held, StreamOps
    <2> QED
      BY <1>a, <2>1, <2>2 DEF Held, StepInv
  <1>7. CASE Claim(t)
    <2>1. pc[t] = "claim" /\ Goto(t, "open") /\ UNCHANGED <<lock, table, opened>>
      BY <1>7 DEF Claim
    <2>2. StepInv(t)'
      BY <2>1 DEF Goto, Move, StepInv, ControlTypes, Held, StreamOps
    <2> QED
      BY <1>a, <2>1, <2>2 DEF Held, StepInv
  <1>8. CASE \E mode \in {"w", "w+", "a"} : OpenFile(t, mode)
    <2>1. /\ pc[t] = "open" /\ opened' = opened + 1 /\ users' = users \cup {at[t]}
          /\ Unlock(t) /\ Return(t) /\ UNCHANGED <<index, stage>>
      BY <1>8 DEF OpenFile
    <2>2. pc[t] \in Held /\ op[t] \in {"freopen", "fopen"} /\ at[t] \in Slots
      BY <2>1 DEF StepInv, Held
    <2> QED
      BY <1>b, <2>1, <2>2
  <1>9. CASE OpenFileFails(t)
    <2>1. pc[t] = "open" /\ pc[t] \in Held /\ op[t] \in {"freopen", "fopen"} /\ at[t] \in Slots
      BY <1>9 DEF OpenFileFails, StepInv, Held
    <2>2. CASE op[t] = "fopen"
      <3>1. Goto(t, "free") /\ UNCHANGED <<lock, table, opened>>
        BY <1>9, <2>2 DEF OpenFileFails
      <3>2. StepInv(t)'
        BY <2>1, <2>2, <3>1 DEF Goto, Move, StepInv, ControlTypes, Held, StreamOps
      <3> QED
        BY <1>a, <2>1, <3>1, <3>2
    <2>3. CASE op[t] = "freopen"
      <3>1. Unlock(t) /\ Return(t) /\ UNCHANGED <<index, stage, opened>> /\ users' \subseteq users
        BY <1>9, <2>3 DEF OpenFileFails
      <3> QED
        BY <1>b, <2>1, <3>1
    <2> QED
      BY <2>1, <2>2, <2>3
  <1> QED
    BY <1>1, <1>2, <1>3, <1>4, <1>5, <1>6, <1>7, <1>8, <1>9

\* The steps of the calls that go through __piob.  A slot without a stream is locked by nobody.
LEMMA WalkControl ==
  ASSUME Control, NEW t \in Threads,
         \/ LockIndex(t) \/ FopenScan(t) \/ FopenFails(t) \/ FopenNew(t) \/ FopenEnter(t)
         \/ FlushScan(t) \/ FlushStream(t) \/ FlushedAll(t) \/ CloseSlot(t),
         \A s \in Slots : piob[s] = NoStream => lock[s] = NoThread
  PROVE  Control'
  <1>0. /\ ControlTypes /\ StepInv(t) /\ users \subseteq Slots /\ op[t] \in Ops
        /\ at[t] \in 0..NStream /\ 0 \in 0..NStream /\ (index = t <=> HoldsIndex(t))
    BY DEF Control, ControlTypes, LockInv
  <1>a. ASSUME NEW q \in {"scan", "wait", "close"}, NEW a \in 0..NStream, pc[t] \in {"index", "scan", "wait", "close"},
               op[t] \in Walks, Move(t, q, a), UNCHANGED <<op, lock, stage, users, opened>>,
               \/ index' = index /\ pc[t] # "index"
               \/ index' = t /\ index = NoThread,
               StepInv(t)'
        PROVE  Control'
    <2>1. /\ Moves(t, q, a, op[t]) /\ q \in Steps /\ q \notin Held /\ pc[t] \notin Held
          /\ op[t] # "none" /\ op[t] \notin StreamOps
      BY <1>0, <1>a DEF Moves, Move, Steps, Held, ControlTypes, Walks, StreamOps
    <2>2. pc'[t] = q /\ op'[t] = op[t] /\ LocksKept /\ opened' = opened
      BY <1>0, <1>a, <2>1 DEF Moves, ControlTypes, LocksKept
    <2>3. HoldsIndex(t)' /\ (pc[t] # "index" => HoldsIndex(t))
      BY <1>a, <2>2 DEF HoldsIndex
    <2>4. (IndexKept /\ HoldsIndex(t)) \/ IndexTaken(t)
      BY <1>a, <2>3 DEF IndexKept, IndexTaken
    <2> HIDE DEF Held, Steps, Ops
    <2> QED
      BY <1>0, <1>a, <2>1, <2>2, <2>3, <2>4, MovesControl
  <1>b. ASSUME pc[t] = "scan", op[t] # "none", Return(t), index' = NoThread,
               UNCHANGED <<lock, stage, users, opened>>
        PROVE  Control'
    <2>1. /\ Moves(t, "idle", 0, "none") /\ "idle" \in Steps /\ "none" \in Ops /\ "idle" \notin Held
          /\ pc[t] \notin Held /\ LocksKept
      BY <1>0, <1>b DEF Moves, Return, Move, Steps, Held, Ops, ControlTypes, LocksKept
    <2>2. pc'[t] = "idle" /\ op'[t] = "none"
      BY <1>0, <2>1 DEF Moves, ControlTypes
    <2>3. IndexDropped(t) /\ ~HoldsIndex(t)' /\ StepInv(t)'
      BY <1>0, <1>b, <2>2 DEF IndexDropped, HoldsIndex, Held, StepInv, StreamOps, Walks
    <2> HIDE DEF Held, Steps, Ops
    <2> QED
      BY <1>0, <1>b, <2>1, <2>3, MovesControl
  <1>c. ASSUME op[t] = "fopen", pc[t] \in {"scan", "wait"}, at[t] \in Slots, lock[at[t]] = NoThread, Allocated(t)
        PROVE  Control'
    <2>1. /\ Moves(t, "open", at[t], op[t]) /\ "open" \in Steps /\ "open" \in Held
          /\ pc[t] \notin Held /\ LockTaken(t, at[t]) /\ opened' = opened
      BY <1>0, <1>c DEF Allocated, Moves, Goto, Move, Steps, Held, ControlTypes, LockTaken, lowio
    <2>2. pc'[t] = "open" /\ op'[t] = op[t] /\ at'[t] = at[t]
      BY <1>0, <2>1 DEF Moves, ControlTypes
    <2>3. StepInv(t)'
      BY <1>0, <1>c, <2>2 DEF StepInv, StreamOps, Held
    <2>4. IndexDropped(t) /\ ~HoldsIndex(t)'
      BY <1>0, <1>c, <2>2 DEF IndexDropped, HoldsIndex, Allocated, Walks
    <2> HIDE DEF Held, Steps, Ops
    <2> QED
      BY <1>0, <1>c, <2>1, <2>3, <2>4, MovesControl
  <1>d. ASSUME NEW q \in {"scan", "wait"}, NEW a \in 0..NStream, op[t] \in Walks, Move(t, q, a),
               UNCHANGED op, op[t] = "fopen" => a > 0, q = "wait" => a \in Slots
        PROVE  StepInv(t)'
    BY <1>0, <1>d DEF Move, StepInv, ControlTypes, Walks, StreamOps, Held
  <1> USE <1>0 DEF table, lowio, Goto, NextSlot
  <1>1. CASE LockIndex(t)
    <2>1. /\ pc[t] = "index" /\ op[t] \in Walks /\ (op[t] = "fopen" => at[t] > 0)
          /\ Move(t, "scan", at[t]) /\ UNCHANGED <<op, lock, stage, users, opened>>
          /\ index = NoThread /\ index' = t
      BY <1>1 DEF LockIndex, StepInv
    <2> QED
      BY <1>a, <1>d, <2>1
  <1>2. CASE FopenScan(t)
    <2>1. /\ pc[t] = "scan" /\ op[t] = "fopen" /\ op[t] \in Walks /\ at[t] > 0 /\ at[t] \in Slots
          /\ UNCHANGED <<op, lock, index, stage, users, opened>>
          /\ Move(t, "scan", at[t] + 1) \/ Move(t, "wait", at[t])
      BY <1>2 DEF FopenScan, StepInv, Walks
    <2>2. at[t] + 1 \in 0..NStream /\ at[t] + 1 > 0
      BY <2>1
    <2> QED
      BY <1>a, <1>d, <2>1, <2>2
  <1>3. CASE FopenFails(t)
    BY <1>b, <1>3 DEF FopenFails
  <1>4. CASE FopenNew(t)
    BY <1>c, <1>4 DEF FopenNew
  <1>5. CASE FopenEnter(t)
    <2>1. /\ pc[t] = "wait" /\ op[t] = "fopen" /\ op[t] \in Walks /\ at[t] > 0 /\ at[t] \in Slots
          /\ lock[at[t]] = NoThread
      BY <1>5 DEF FopenEnter, StepInv, Walks
    <2>2. CASE Allocated(t)
      BY <1>c, <2>1, <2>2
    <2>3. CASE NextSlot(t) /\ UNCHANGED <<piob, lock, left, made, table, lowio, disk, sent, err, faults>>
      <3>1. at[t] + 1 \in 0..NStream /\ at[t] + 1 > 0
        BY <2>1
      <3> QED
        BY <1>a, <1>d, <2>1, <2>3, <3>1
    <2> QED
      BY <1>5, <2>2, <2>3 DEF FopenEnter
  <1>6. CASE FlushScan(t) \/ FlushStream(t)
    <2>1. /\ pc[t] \in {"scan", "wait"} /\ op[t] \in {"flushall", "exit"} /\ at[t] \in Slots
          /\ UNCHANGED <<op, lock, index, stage, users, opened>>
          /\ Move(t, "scan", at[t] + 1) \/ Move(t, "wait", at[t])
      BY <1>6 DEF FlushScan, FlushStream, StepInv
    <2>2. at[t] + 1 \in 0..NStream /\ op[t] \in Walks /\ op[t] # "fopen"
      BY <2>1 DEF Walks
    <2> QED
      BY <1>a, <1>d, <2>1, <2>2
  <1>7. CASE FlushedAll(t)
    <2>1. CASE op[t] = "exit"
      <3>1. /\ pc[t] = "scan" /\ op[t] \in Walks /\ Move(t, "close", 1)
            /\ UNCHANGED <<op, lock, index, stage, users, opened>> /\ 1 \in 0..NStream
        BY <1>7, <2>1 DEF FlushedAll, Walks
      <3>2. StepInv(t)'
        BY <2>1, <3>1 DEF Move, StepInv, ControlTypes, StreamOps, Walks, Held
      <3> QED
        BY <1>a, <3>1, <3>2
    <2>2. CASE op[t] # "exit"
      BY <1>b, <1>7, <2>2 DEF FlushedAll
    <2> QED
      BY <2>1, <2>2
  <1>8. CASE CloseSlot(t)
    <2>0. pc[t] = "close" /\ at[t] < NStream /\ op[t] = "exit" /\ op[t] \in Walks
      BY <1>8 DEF CloseSlot, StepInv, Walks
    <2>a. at[t] + 1 \in 0..NStream
      BY <2>0
    <2>b. Move(t, "close", at[t] + 1) /\ UNCHANGED <<op, lock, opened>>
      BY <1>8 DEF CloseSlot
    <2>c. UNCHANGED <<index, stage, users>>
      BY <1>8 DEF CloseSlot
    <2>1. /\ at[t] + 1 \in 0..NStream /\ Move(t, "close", at[t] + 1)
          /\ UNCHANGED <<op, lock, index, stage, users, opened>>
      BY <2>a, <2>b, <2>c
    <2>2. StepInv(t)'
      BY <2>0, <2>1 DEF Move, StepInv, ControlTypes, StreamOps, Walks, Held
    <2> QED
      BY <1>a, <2>0, <2>1, <2>2
  <1> QED
    BY <1>1, <1>2, <1>3, <1>4, <1>5, <1>6, <1>7, <1>8

\* The last step of the terminator.
LEMMA DownControl ==
  ASSUME Control, NEW t \in Threads, Down(t)
  PROVE  Control'
  <1>1. /\ op[t] = "exit" /\ stage = "exit" /\ pc[t] = "close" /\ index = t
        /\ \A u \in Threads \ {t} : op[u] = "none" /\ pc[u] = "idle"
    BY DEF Down, Control, StepInv, AloneInv, LockInv, HoldsIndex
  <1>2. /\ pc' = [pc EXCEPT ![t] = "idle"] /\ op' = [op EXCEPT ![t] = "none"]
        /\ at' = [at EXCEPT ![t] = 0] /\ stage' = "down" /\ users' = {} /\ index' = NoThread
        /\ UNCHANGED <<lock, opened>>
    BY DEF Down, Return, Move, lowio
  <1>3. \A u \in Threads : op'[u] = "none" /\ pc'[u] = "idle"
    BY <1>1, <1>2 DEF Control, ControlTypes
  <1>4. ControlTypes'
    BY <1>2 DEF Control, ControlTypes, Steps, Ops
  <1>5. OpenInv'
    BY <1>1, <1>2, OpenersChange DEF Control, OpenInv, Openers, Ops
  <1>6. ClientInv'
    BY <1>3 DEF ClientInv, StreamOps
  <1>7. ASSUME NEW u \in Threads PROVE StepInv(u)' /\ LockInv(u)' /\ AloneInv(u)'
    <2>1. pc[u] \notin Held
      BY <1>1 DEF Held
    <2>2. \A s \in Slots : lock[s] # u
      BY <2>1 DEF Control, LockInv
    <2> QED
      BY <1>2, <1>3, <2>2 DEF StepInv, LockInv, AloneInv, HoldsIndex, Held, Walks, StreamOps
  <1> QED
    BY <1>4, <1>5, <1>6, <1>7 DEF Control

LEMMA StepControl ==
  ASSUME Control, NEW t \in Threads, Step(t),
         \A s \in Slots : piob[s] = NoStream => lock[s] = NoThread
  PROVE  Control'
  <1>1. CASE (\E o \in StreamOps, s \in Slots : Call(t, o, s)) \/ Fopen(t) \/ FlushAll(t) \/ Exit(t)
    BY <1>1, CallControl
  <1>2. CASE \/ LockFile(t) \/ UnlockFile(t) \/ Fputc(t) \/ Fflush(t) \/ Fgetc(t) \/ Setvbuf(t)
             \/ FwriteCopy(t) \/ FwriteBlocks(t) \/ FwriteChar(t) \/ Fclose(t) \/ FreeStream(t) \/ Claim(t)
             \/ (\E mode \in {"w", "w+", "a"} : OpenFile(t, mode)) \/ OpenFileFails(t)
    BY <1>2, BodyControl
  <1>3. CASE \/ LockIndex(t) \/ FopenScan(t) \/ FopenFails(t) \/ FopenNew(t) \/ FopenEnter(t)
             \/ FlushScan(t) \/ FlushStream(t) \/ FlushedAll(t) \/ CloseSlot(t)
    BY <1>3, WalkControl
  <1>4. CASE Down(t)
    BY <1>4, DownControl
  <1> QED
    BY <1>1, <1>2, <1>3, <1>4 DEF Step

-----------------------------------------------------------------------------
(* What the operations on a stream return *)

Flags == {"alloc", "read", "write", "update", "crt", "user", "none", "eof", "error"}

LEMMA FlagFacts ==
  ASSUME NEW s \in Streams
  PROVE  /\ s.flags \in SUBSET Flags /\ s.file \in 0..MaxFiles
         /\ s.buf \in Seq(Nat) /\ s.cnt \in Nat /\ s.bufsiz \in Nat
         /\ BigBuffer(s) <=> ("crt" \in s.flags \/ "user" \in s.flags)
         /\ HasBuffer(s) <=> ("crt" \in s.flags \/ "user" \in s.flags \/ "none" \in s.flags)
         /\ Flushable(s) <=> ("write" \in s.flags /\ "read" \notin s.flags /\ BigBuffer(s))
  BY DEF Streams, Flags, BigBuffer, HasBuffer, Flushable

LEMMA SetIs ==
  ASSUME NEW s \in Streams, NEW on, NEW off
  PROVE  /\ on \subseteq Flags => Set(s, on, off) \in Streams
         /\ Set(s, on, off).flags = (s.flags \cup on) \ off
         /\ Set(s, on, off).file = s.file /\ Set(s, on, off).buf = s.buf
         /\ Set(s, on, off).cnt = s.cnt /\ Set(s, on, off).bufsiz = s.bufsiz
  BY DEF Streams, Set, Flags

LEMMA ResetIs ==
  ASSUME NEW s \in Streams
  PROVE  /\ Reset(s) \in Streams /\ Reset(s).flags = s.flags /\ Reset(s).file = s.file
         /\ Reset(s).buf = << >> /\ Reset(s).cnt = 0 /\ Reset(s).bufsiz = s.bufsiz
  <1>1. << >> \in Seq(Nat)
    BY EmptySeq
  <1> QED
    BY <1>1 DEF Streams, Reset

LEMMA StreamIs ==
  ASSUME NEW fl \in SUBSET {"alloc", "write", "update"}, NEW f \in 0..MaxFiles
  PROVE  /\ Fine(Stream(fl, f)) /\ Stream(fl, f) # NoStream
         /\ Stream(fl, f).flags = fl /\ Stream(fl, f).file = f /\ Stream(fl, f).buf = << >>
  <1>1. << >> \in Seq(Nat)
    BY EmptySeq
  <1>2. Stream(fl, f) \in Streams
    BY <1>1 DEF Streams, Stream
  <1>3. ~HasBuffer(Stream(fl, f))
    BY <1>2, FlagFacts DEF Stream
  <1> QED
    BY <1>2, <1>3, StdioAssumption DEF Fine, Stream

LEMMA Empties ==
  ASSUME NEW q \in Seq(Nat)
  PROVE  q \o << >> = q /\ << >> \o q = q /\ << >> \in Seq(Nat) /\ << >> \o << >> = << >>
  BY EmptySeq, ConcatEmptySeq

\* The same file, and in use if it was.
Same(s, x) == x.file = s.file /\ (InUse(x) <=> InUse(s))

\* The operation r accepts acc after what is in the buffer, unless it reports an error.
Keeps(s, r, acc) ==
    /\ Fine(r.stream) /\ Same(s, r.stream) /\ r.put \in Seq(Nat)
    /\ r.ok /\ "error" \notin r.stream.flags => r.put \o r.stream.buf = s.buf \o acc

LEMMA WriteIs ==
  ASSUME NEW s, NEW bytes \in Seq(Nat), NEW fail, NEW r \in Write(s, bytes, fail)
  PROVE  \/ r.stream = s /\ r.put = bytes /\ r.ok
         \/ /\ r.stream = fail /\ ~r.ok /\ r.put \in Seq(Nat)
            /\ Len(r.put) \in Nat /\ Len(r.put) <= Len(bytes)
  <1>1. CASE r = Result(s, bytes, TRUE, 0)
    BY <1>1 DEF Result
  <1>2. CASE \E n \in 0..(Len(bytes) - 1) : r = Result(fail, SubSeq(bytes, 1, n), FALSE, 1)
    <2>1. PICK n \in 0..(Len(bytes) - 1) : r = Result(fail, SubSeq(bytes, 1, n), FALSE, 1)
      BY <1>2
    <2>2. Len(bytes) \in Nat /\ \A i \in 1..n : bytes[i] \in Nat
      BY LenProperties
    <2>3. SubSeq(bytes, 1, n) \in Seq(Nat) /\ Len(SubSeq(bytes, 1, n)) = n
      BY <2>2, SubSeqProperties
    <2> QED
      BY <2>1, <2>2, <2>3 DEF Result
  <1> QED
    BY <1>1, <1>2 DEF Write

LEMMA FlushKeeps ==
  ASSUME NEW s, Fine(s), NEW r \in Flush(s)
  PROVE  /\ Keeps(s, r, << >>) /\ r.stream.buf = << >> /\ r.stream.cnt = 0
         /\ r.ok => r.put = s.buf
         /\ ~r.ok => "error" \in r.stream.flags
         /\ BigBuffer(r.stream) <=> BigBuffer(s)
         /\ HasBuffer(r.stream) <=> HasBuffer(s)
         /\ r.stream.bufsiz = s.bufsiz
  <1>0. /\ s \in Streams /\ s.buf \in Seq(Nat) /\ << >> \in Seq(Nat)
        /\ (~Flushable(s) => s.buf = << >> /\ s.cnt = 0)
        /\ s.buf \o << >> = s.buf /\ << >> \o << >> = << >>
    BY FlagFacts, Empties DEF Fine
  <1>1. CASE ~Flushable(s)
    <2>1. r = Result(s, << >>, TRUE, 0)
      BY <1>1 DEF Flush
    <2> QED
      BY <1>0, <1>1, <2>1 DEF Result, Keeps, Same
  <1>2. CASE Flushable(s)
    <2>1. PICK off \in SUBSET {"write"}, on \in SUBSET {"error"} :
            /\ r.stream = Set(Reset(s), on, off) \/ (r.stream = Reset(s) /\ on = {} /\ off = {})
            /\ r.put \in Seq(Nat)
            /\ (r.ok => r.put = s.buf) /\ (~r.ok => on = {"error"})
      <3>1. CASE s.buf = << >>
        <4>1. r.stream = Reset(s) /\ r.put = << >> /\ r.ok
          BY <1>2, <3>1 DEF Flush, Result
        <4> WITNESS {} \in SUBSET {"write"}, {} \in SUBSET {"error"}
        <4> QED
          BY <1>0, <3>1, <4>1
      <3>2. CASE s.buf # << >>
        <4> DEFINE off == IF "update" \in s.flags THEN {"write"} ELSE {}
        <4>1. r \in Write(Set(Reset(s), {}, off), s.buf, Set(Reset(s), {"error"}, {}))
          BY <1>2, <3>2 DEF Flush
        <4>2. off \in SUBSET {"write"}
          OBVIOUS
        <4> HIDE DEF off
        <4>3. CASE r.stream = Set(Reset(s), {}, off) /\ r.put = s.buf /\ r.ok
          <5> WITNESS off \in SUBSET {"write"}, {} \in SUBSET {"error"}
          <5> QED
            BY <1>0, <4>3
        <4>4. CASE r.stream = Set(Reset(s), {"error"}, {}) /\ r.put \in Seq(Nat) /\ ~r.ok
          <5> WITNESS {} \in SUBSET {"write"}, {"error"} \in SUBSET {"error"}
          <5> QED
            BY <1>0, <4>4
        <4>5. \/ r.stream = Set(Reset(s), {}, off) /\ r.put = s.buf /\ r.ok
              \/ r.stream = Set(Reset(s), {"error"}, {}) /\ r.put \in Seq(Nat) /\ ~r.ok
          BY <1>0, <4>1, WriteIs
        <4> QED
          BY <4>3, <4>4, <4>5
      <3> QED
        BY <3>1, <3>2
    <2>2. /\ r.stream \in Streams /\ r.stream.flags = (s.flags \cup on) \ off /\ r.stream.file = s.file
          /\ r.stream.buf = << >> /\ r.stream.cnt = 0 /\ r.stream.bufsiz = s.bufsiz
      <3>1. Reset(s) \in Streams /\ on \subseteq Flags
        BY <1>0, ResetIs DEF Flags
      <3>2. /\ Reset(s).flags = s.flags /\ Reset(s).file = s.file
            /\ Reset(s).buf = << >> /\ Reset(s).cnt = 0 /\ Reset(s).bufsiz = s.bufsiz
        BY <1>0, ResetIs
      <3>3. CASE r.stream = Set(Reset(s), on, off)
        <4> DEFINE x == Set(Reset(s), on, off)
        <4>1. x \in Streams
          BY <3>1, SetIs
        <4>2. /\ x.flags = (Reset(s).flags \cup on) \ off /\ x.file = Reset(s).file
              /\ x.buf = Reset(s).buf /\ x.cnt = Reset(s).cnt /\ x.bufsiz = Reset(s).bufsiz
          BY <3>1, SetIs
        <4> QED
          BY <3>2, <3>3, <4>1, <4>2
      <3>4. CASE r.stream = Reset(s) /\ on = {} /\ off = {}
        BY <3>1, <3>2, <3>4
      <3> QED
        BY <2>1, <3>3, <3>4
    <2>3. (HasBuffer(r.stream) <=> HasBuffer(s)) /\ (BigBuffer(r.stream) <=> BigBuffer(s))
      BY <1>0, <2>2, FlagFacts
    <2>4. Fine(r.stream)
      BY <2>2, <2>3 DEF Fine
    <2>5. Same(s, r.stream)
      BY <2>2 DEF Same, InUse
    <2>6. ~r.ok => "error" \in r.stream.flags
      BY <2>1, <2>2
    <2>7. r.ok => r.put \o r.stream.buf = s.buf \o << >>
      BY <1>0, <2>1, <2>2
    <2> QED
      BY <2>1, <2>2, <2>3, <2>4, <2>5, <2>6, <2>7 DEF Keeps
  <1> QED
    BY <1>1, <1>2

LEMMA AllocateKeeps ==
  ASSUME NEW s, Fine(s), s.cnt = 0, NEW b \in Allocate(s)
  PROVE  /\ Fine(b[1]) /\ Same(s, b[1]) /\ HasBuffer(b[1]) /\ b[1].buf = s.buf /\ b[1].cnt = 0
         /\ \A fl \in {"read", "write", "error"} : fl \in b[1].flags <=> fl \in s.flags
  <1>0. s \in Streams /\ BufSize \in Nat
    BY StdioAssumption DEF Fine
  <1>1. CASE HasBuffer(s)
    BY <1>1 DEF Allocate, Same
  <1>2. CASE ~HasBuffer(s)
    <2>1. PICK on \in {"crt", "none"}, n \in Nat : b[1] = [Set(Reset(s), {on}, {}) EXCEPT !.bufsiz = n] /\ n >= 2
      <3>1. CASE b = <<[Set(Reset(s), {"crt"}, {}) EXCEPT !.bufsiz = BufSize], 0>>
        <4> WITNESS "crt" \in {"crt", "none"}, BufSize \in Nat
        <4> QED
          BY <3>1, StdioAssumption
      <3>2. CASE b = <<[Set(Reset(s), {"none"}, {}) EXCEPT !.bufsiz = 2], 1>>
        <4> WITNESS "none" \in {"crt", "none"}, 2 \in Nat
        <4> QED
          BY <3>2
      <3> QED
        BY <1>2, <3>1, <3>2 DEF Allocate
    <2> DEFINE x == Set(Reset(s), {on}, {})
    <2>2. Reset(s) \in Streams /\ {on} \subseteq Flags
      BY <1>0, ResetIs DEF Flags
    <2>3. x \in Streams
      BY <2>2, SetIs
    <2>4. x.flags = s.flags \cup {on} /\ x.file = s.file /\ x.buf = << >> /\ x.cnt = 0
      <3>1. /\ x.flags = (Reset(s).flags \cup {on}) \ {} /\ x.file = Reset(s).file
            /\ x.buf = Reset(s).buf /\ x.cnt = Reset(s).cnt
        BY <2>2, SetIs
      <3> QED
        BY <1>0, <3>1, ResetIs
    <2>5. b[1] = [x EXCEPT !.bufsiz = n]
      BY <2>1
    <2> HIDE DEF x
    <2>6. /\ b[1] \in Streams /\ b[1].flags = s.flags \cup {on} /\ b[1].file = s.file
          /\ b[1].buf = << >> /\ b[1].cnt = 0 /\ b[1].bufsiz = n
      BY <2>3, <2>4, <2>5 DEF Streams
    <2>7. s.buf = << >>
      BY <1>0, <1>2, FlagFacts DEF Fine
    <2>8. HasBuffer(b[1])
      BY <2>6, FlagFacts
    <2>9. Fine(b[1])
      BY <2>1, <2>6 DEF Fine
    <2>10. Same(s, b[1])
      BY <2>6 DEF Same, InUse
    <2> QED
      BY <2>6, <2>7, <2>8, <2>9, <2>10
  <1> QED
    BY <1>1, <1>2

\* A stream that differs from a fine one in flags that have nothing to do with its buffer.
LEMMA MarkKeeps ==
  ASSUME NEW s, Fine(s), NEW x, x = Set(s, {"error"}, {})
  PROVE  Fine(x) /\ Same(s, x) /\ "error" \in x.flags
  <1>1. s \in Streams /\ {"error"} \subseteq Flags
    BY DEF Fine, Flags
  <1>2. x \in Streams
    BY <1>1, SetIs
  <1>3. /\ x.flags = s.flags \cup {"error"} /\ x.file = s.file
        /\ x.buf = s.buf /\ x.cnt = s.cnt /\ x.bufsiz = s.bufsiz
    BY <1>1, SetIs
  <1>4. (HasBuffer(x) <=> HasBuffer(s)) /\ (Flushable(x) <=> Flushable(s))
    BY <1>1, <1>2, <1>3, FlagFacts
  <1> QED
    BY <1>2, <1>3, <1>4 DEF Fine, Same, InUse

LEMMA WriteBufferKeeps ==
  ASSUME NEW s, Fine(s), HasBuffer(s), s.cnt = 0, "write" \in s.flags, "read" \notin s.flags,
         NEW c \in Nat, NEW r \in WriteBuffer(s, c)
  PROVE  Keeps(s, r, <<c>>)
  <1> DEFINE stored == [s EXCEPT !.buf = <<c>>, !.cnt = s.bufsiz - 1]
             failed == [s EXCEPT !.buf = <<Stale>>, !.cnt = s.bufsiz - 1]
  <1>0. /\ s \in Streams /\ s.bufsiz - 1 \in Nat /\ s.buf \in Seq(Nat)
        /\ <<c>> \in Seq(Nat) /\ <<Stale>> \in Seq(Nat)
    BY FlagFacts DEF Fine, Stale
  <1>1. CASE ~BigBuffer(s)
    <2>1. s.buf = << >>
      BY <1>0, <1>1, FlagFacts DEF Fine
    <2>2. r \in Write(s, <<c>>, Set(s, {"error"}, {}))
      BY <1>1 DEF WriteBuffer
    <2>3. CASE r.stream = s /\ r.put = <<c>> /\ r.ok
      <3>1. <<c>> \o << >> = << >> \o <<c>>
        BY <1>0, Empties
      <3> QED
        BY <1>0, <2>1, <2>3, <3>1 DEF Keeps, Same
    <2>4. CASE r.stream = Set(s, {"error"}, {}) /\ ~r.ok /\ r.put \in Seq(Nat)
      BY <2>4, MarkKeeps DEF Keeps
    <2>5. \/ r.stream = s /\ r.put = <<c>> /\ r.ok
          \/ r.stream = Set(s, {"error"}, {}) /\ ~r.ok /\ r.put \in Seq(Nat)
      <3> DEFINE b == <<c>>
      <3>1. b \in Seq(Nat) /\ r \in Write(s, b, Set(s, {"error"}, {}))
        BY <1>0, <2>2
      <3> HIDE DEF b
      <3>2. \/ r.stream = s /\ r.put = b /\ r.ok
            \/ r.stream = Set(s, {"error"}, {}) /\ ~r.ok /\ r.put \in Seq(Nat)
        BY <3>1, WriteIs
      <3> QED
        BY <3>2 DEF b
    <2> QED
      BY <2>3, <2>4, <2>5
  <1>2. CASE BigBuffer(s)
    <2>1. ASSUME NEW x, NEW b \in Seq(Nat), x = [s EXCEPT !.buf = b, !.cnt = s.bufsiz - 1]
          PROVE  Fine(x) /\ Same(s, x) /\ x.buf = b
      <3>1. /\ x \in Streams /\ x.flags = s.flags /\ x.file = s.file /\ x.buf = b
            /\ x.bufsiz = s.bufsiz
        BY <1>0, <2>1 DEF Streams
      <3>2. Flushable(x)
        BY <1>0, <1>2, <3>1, FlagFacts
      <3> QED
        BY <3>1, <3>2 DEF Fine, Same, InUse
    <2>2. Fine(stored) /\ Same(s, stored) /\ stored.buf = <<c>>
      BY <1>0, <2>1
    <2>3. Fine(failed) /\ Same(s, failed)
      BY <1>0, <2>1
    <2> HIDE DEF stored, failed
    <2>4. ASSUME NEW x, Fine(x), Same(s, x), r.stream = Set(x, {"error"}, {}), r.put \in Seq(Nat)
          PROVE  Keeps(s, r, <<c>>)
      <3>1. Fine(r.stream) /\ Same(x, r.stream) /\ "error" \in r.stream.flags
        BY <2>4, MarkKeeps
      <3> QED
        BY <2>4, <3>1 DEF Keeps, Same
    <2>5. CASE s.buf # << >>
      <3>1. r \in Write(stored, s.buf, Set(stored, {"error"}, {}))
        BY <1>2, <2>5 DEF WriteBuffer, stored
      <3>2. CASE r.stream = stored /\ r.put = s.buf /\ r.ok
        BY <1>0, <2>2, <3>2 DEF Keeps
      <3>3. CASE r.stream = Set(stored, {"error"}, {}) /\ ~r.ok /\ r.put \in Seq(Nat)
        BY <2>2, <2>4, <3>3
      <3> QED
        BY <1>0, <3>1, <3>2, <3>3, WriteIs
    <2>6. CASE s.buf = << >>
      <3>0. << >> \in Seq(Nat) /\ << >> \o <<c>> = <<c>>
        BY <1>0, Empties
      <3>1. CASE r = Result(stored, << >>, TRUE, 0)
        <4>1. r.stream = stored /\ r.put = << >>
          BY <3>1 DEF Result
        <4> QED
          BY <2>2, <2>6, <3>0, <4>1 DEF Keeps
      <3>2. CASE r = Result(Set(failed, {"error"}, {}), << >>, TRUE, 1)
        <4>1. r.stream = Set(failed, {"error"}, {}) /\ r.put = << >>
          BY <3>2 DEF Result
        <4> QED
          BY <2>3, <2>4, <3>0, <4>1
      <3> QED
        BY <1>2, <2>6, <3>1, <3>2 DEF WriteBuffer, stored, failed
    <2> QED
      BY <2>5, <2>6
  <1> QED
    BY <1>1, <1>2

LEMMA FlushAndWriteKeeps ==
  ASSUME NEW s, Fine(s), s.cnt = 0, NEW c \in Nat, NEW r \in FlushAndWrite(s, c)
  PROVE  Keeps(s, r, <<c>>)
  <1>0. s \in Streams /\ [s EXCEPT !.cnt = 0] = s
    BY DEF Fine, Streams
  <1>1. CASE "read" \in s.flags /\ ~AtEnd(s)
    <2>1. r.stream = Set(s, {"error"}, {}) /\ r.put = << >>
      BY <1>0, <1>1 DEF FlushAndWrite, Result
    <2>2. ~r.ok
      BY <1>0, <1>1 DEF FlushAndWrite, Result
    <2> QED
      BY <2>1, <2>2, MarkKeeps, EmptySeq DEF Keeps
  <1>2. CASE ~("read" \in s.flags /\ ~AtEnd(s))
    <2> DEFINE y == Set(s, {"write"}, {"read", "eof"})
               x == [y EXCEPT !.cnt = 0]
    <2>1. /\ y \in Streams /\ y.flags = (s.flags \cup {"write"}) \ {"read", "eof"} /\ y.file = s.file
          /\ y.buf = s.buf /\ y.cnt = 0 /\ y.bufsiz = s.bufsiz
      BY <1>0, SetIs DEF Flags
    <2>2. x = y
      BY <2>1 DEF Streams
    <2>3. (HasBuffer(y) <=> HasBuffer(s)) /\ (Flushable(s) => Flushable(y))
      BY <1>0, <2>1, FlagFacts
    <2>4. Fine(y) /\ Same(s, y)
      BY <2>1, <2>3 DEF Fine, Same, InUse
    <2>b. r \in UNION { {[w EXCEPT !.cost = @ + b[2]] : w \in WriteBuffer(b[1], c)} : b \in Allocate(x) }
      BY <1>2 DEF FlushAndWrite
    <2> HIDE DEF x
    <2>a. PICK b \in Allocate(x) : \E w \in WriteBuffer(b[1], c) : r = [w EXCEPT !.cost = @ + b[2]]
      BY <2>b
    <2>5. PICK w \in WriteBuffer(b[1], c) : r = [w EXCEPT !.cost = @ + b[2]]
      BY <2>a
    <2>6. /\ Fine(b[1]) /\ Same(y, b[1]) /\ HasBuffer(b[1]) /\ b[1].buf = y.buf /\ b[1].cnt = 0
          /\ "write" \in b[1].flags /\ "read" \notin b[1].flags
      BY <2>1, <2>2, <2>4, AllocateKeeps
    <2>7. Keeps(b[1], w, <<c>>)
      BY <2>6, WriteBufferKeeps
    <2>8. r.stream = w.stream /\ r.put = w.put /\ (r.ok <=> w.ok)
      BY <2>5
    <2> QED
      BY <2>1, <2>4, <2>6, <2>7, <2>8 DEF Keeps, Same
  <1> QED
    BY <1>1, <1>2

LEMMA PutKeeps ==
  ASSUME NEW s, Fine(s), NEW c \in Nat, NEW r \in Put(s, c)
  PROVE  Keeps(s, r, <<c>>)
  <1>0. s \in Streams /\ s.buf \in Seq(Nat) /\ s.cnt \in Nat
    BY FlagFacts DEF Fine
  <1>1. CASE s.cnt > 0
    <2> DEFINE x == [s EXCEPT !.buf = Append(@, c), !.cnt = @ - 1]
    <2>1. r.stream = x /\ r.put = << >>
      BY <1>1 DEF Put, Result
    <2>2. Append(s.buf, c) \in Seq(Nat) /\ s.cnt - 1 \in Nat /\ Append(s.buf, c) = s.buf \o <<c>>
      BY <1>0, <1>1, AppendProperties, AppendIsConcat
    <2>3. x = [s EXCEPT !.buf = Append(s.buf, c), !.cnt = s.cnt - 1]
      BY <1>0 DEF Streams
    <2>4. /\ x \in Streams /\ x.flags = s.flags /\ x.file = s.file /\ x.buf = s.buf \o <<c>>
          /\ x.bufsiz = s.bufsiz
      BY <1>0, <2>2, <2>3 DEF Streams
    <2> HIDE DEF x
    <2>5. (HasBuffer(x) <=> HasBuffer(s)) /\ (Flushable(x) <=> Flushable(s))
      BY <1>0, <2>4, FlagFacts
    <2>6. Fine(x) /\ Same(s, x)
      BY <1>1, <2>4, <2>5 DEF Fine, Same, InUse
    <2>7. << >> \in Seq(Nat) /\ << >> \o x.buf = x.buf
      BY <2>2, <2>4, Empties
    <2> QED
      BY <2>1, <2>4, <2>6, <2>7 DEF Keeps
  <1>2. CASE ~(s.cnt > 0)
    <2>1. s.cnt = 0
      BY <1>0, <1>2
    <2>2. r \in FlushAndWrite(s, c)
      BY <1>2, Zenon DEF Put
    <2> QED
      BY <2>1, <2>2, FlushAndWriteKeeps
  <1> QED
    BY <1>1, <1>2

LEMMA RefillKeeps ==
  ASSUME NEW s, Fine(s), NEW r \in Refill(s)
  PROVE  Keeps(s, r, << >>) /\ (~r.ok => "error" \in r.stream.flags)
  <1>1. CASE "write" \in s.flags
    <2>1. r.stream = Set(s, {"error"}, {}) /\ r.put = << >> /\ ~r.ok
      BY <1>1 DEF Refill, Result
    <2> QED
      BY <2>1, MarkKeeps, EmptySeq DEF Keeps
  <1>2. CASE "write" \notin s.flags
    <2>1. PICK b \in Allocate(s), on \in {{"read", "eof"}, {"read", "error"}} :
            r.stream = Set(Reset(b[1]), on, {}) /\ r.put = << >>
      BY <1>2 DEF Refill, Result
    <2>b. r.ok
      BY <1>2 DEF Refill, Result
    <2>0. s.cnt = 0
      BY <1>2, FlagFacts DEF Fine
    <2>2. /\ Fine(b[1]) /\ Same(s, b[1]) /\ b[1] \in Streams
      BY <2>0, AllocateKeeps DEF Fine
    <2> DEFINE x == Reset(b[1])
    <2>3. /\ x \in Streams /\ x.flags = b[1].flags /\ x.file = b[1].file
          /\ x.buf = << >> /\ x.cnt = 0 /\ x.bufsiz = b[1].bufsiz /\ on \subseteq Flags
      BY <2>2, ResetIs DEF Flags
    <2>4. r.stream = Set(x, on, {})
      BY <2>1
    <2> HIDE DEF x
    <2>5. r.stream \in Streams
      BY <2>3, <2>4, SetIs
    <2>6. /\ r.stream.flags = (x.flags \cup on) \ {} /\ r.stream.file = x.file
          /\ r.stream.buf = x.buf /\ r.stream.cnt = x.cnt /\ r.stream.bufsiz = x.bufsiz
      BY <2>3, <2>4, SetIs
    <2>7. HasBuffer(r.stream) <=> HasBuffer(b[1])
      BY <2>2, <2>3, <2>5, <2>6, FlagFacts
    <2>8. Fine(r.stream) /\ Same(s, r.stream)
      BY <2>2, <2>3, <2>5, <2>6, <2>7 DEF Fine, Same, InUse
    <2>9. s.buf = << >> /\ << >> \o << >> = << >> /\ << >> \in Seq(Nat)
      BY <1>2, Empties, EmptySeq, FlagFacts DEF Fine
    <2> QED
      BY <2>1, <2>b, <2>3, <2>6, <2>8, <2>9 DEF Keeps
  <1> QED
    BY <1>1, <1>2

\* The results are records, of which a caller may replace a field.
LEMMA FlushDomain ==
  ASSUME NEW s, NEW r \in Flush(s)
  PROVE  DOMAIN r = {"stream", "put", "ok", "cost"}
  BY DEF Flush, Write, Result

LEMMA WriteDomain ==
  ASSUME NEW s, NEW bytes, NEW fail, NEW r \in Write(s, bytes, fail)
  PROVE  DOMAIN r = {"stream", "put", "ok", "cost"}
  BY DEF Write, Result

LEMMA FreeBufferKeeps ==
  ASSUME NEW s, Fine(s), s.buf = << >>, s.cnt = 0, NEW x, x = FreeBuffer(s)
  PROVE  /\ Fine(x) /\ Same(s, x) /\ x.buf = << >> /\ x.cnt = 0 /\ x.flags = s.flags \ {"crt"}
  <1>0. s \in Streams
    BY DEF Fine
  <1>1. CASE "crt" \notin s.flags
    BY <1>1 DEF FreeBuffer, Same
  <1>2. CASE "crt" \in s.flags
    <2>1. x = Set(Reset(s), {}, {"crt"})
      BY <1>2 DEF FreeBuffer
    <2>2. Reset(s) \in Streams /\ {} \subseteq Flags
      BY <1>0, ResetIs
    <2>3. x \in Streams
      BY <2>1, <2>2, SetIs
    <2>4. /\ x.flags = (Reset(s).flags \cup {}) \ {"crt"} /\ x.file = Reset(s).file
          /\ x.buf = Reset(s).buf /\ x.cnt = Reset(s).cnt /\ x.bufsiz = Reset(s).bufsiz
      BY <2>1, <2>2, SetIs
    <2>5. /\ x.flags = s.flags \ {"crt"} /\ x.file = s.file
          /\ x.buf = << >> /\ x.cnt = 0 /\ x.bufsiz = s.bufsiz
      BY <1>0, <2>4, ResetIs
    <2>6. HasBuffer(x) => HasBuffer(s)
      BY <1>0, <2>3, <2>5, FlagFacts
    <2> QED
      BY <2>3, <2>5, <2>6 DEF Fine, Same, InUse
  <1> QED
    BY <1>1, <1>2

\* The streams that setvbuf may leave, after the flush has left s.
LEMMA SetvbufKeeps ==
  ASSUME NEW s, Fine(s), s.buf = << >>, s.cnt = 0,
         NEW y, y = Set(FreeBuffer(s), {}, {"crt", "user", "none"}), NEW x,
         \/ x = y
         \/ \E kind \in {"none", "crt", "user"} : x = Set([Reset(y) EXCEPT !.bufsiz = 2], {kind}, {})
  PROVE  /\ Fine(x) /\ Same(s, x) /\ x.buf = << >>
         /\ "error" \in s.flags => "error" \in x.flags
  <1> DEFINE z == FreeBuffer(s)
  <1>1. z \in Streams /\ z.flags = s.flags \ {"crt"} /\ z.file = s.file /\ z.buf = << >> /\ z.cnt = 0
    BY FreeBufferKeeps DEF Fine, Same
  <1>2. y = Set(z, {}, {"crt", "user", "none"}) /\ {} \subseteq Flags
    OBVIOUS
  <1> HIDE DEF z
  <1>3. y \in Streams
    BY <1>1, <1>2, SetIs
  <1>4. /\ y.flags = (z.flags \cup {}) \ {"crt", "user", "none"} /\ y.file = z.file
        /\ y.buf = z.buf /\ y.cnt = z.cnt
    BY <1>1, <1>2, SetIs
  <1>5. ~HasBuffer(y)
    BY <1>3, <1>4, FlagFacts
  <1>6. CASE x = y
    BY <1>1, <1>3, <1>4, <1>5, <1>6 DEF Fine, Same, InUse
  <1>7. CASE \E kind \in {"none", "crt", "user"} : x = Set([Reset(y) EXCEPT !.bufsiz = 2], {kind}, {})
    <2>1. PICK kind \in {"none", "crt", "user"} : x = Set([Reset(y) EXCEPT !.bufsiz = 2], {kind}, {})
      BY <1>7
    <2> DEFINE b == [Reset(y) EXCEPT !.bufsiz = 2]
    <2>2. /\ Reset(y) \in Streams /\ Reset(y).flags = y.flags /\ Reset(y).file = y.file
          /\ Reset(y).buf = << >> /\ Reset(y).cnt = 0
      BY <1>3, ResetIs
    <2>3. /\ b \in Streams /\ b.flags = y.flags /\ b.file = y.file
          /\ b.buf = << >> /\ b.cnt = 0 /\ b.bufsiz = 2
      BY <2>2 DEF Streams
    <2>4. x = Set(b, {kind}, {}) /\ {kind} \subseteq Flags
      BY <2>1 DEF Flags
    <2> HIDE DEF b
    <2>5. x \in Streams
      BY <2>3, <2>4, SetIs
    <2>6. /\ x.flags = (b.flags \cup {kind}) \ {} /\ x.file = b.file
          /\ x.buf = b.buf /\ x.cnt = b.cnt /\ x.bufsiz = b.bufsiz
      BY <2>3, <2>4, SetIs
    <2> QED
      BY <1>1, <1>4, <2>3, <2>5, <2>6 DEF Fine, Same, InUse
  <1> QED
    BY <1>6, <1>7

-----------------------------------------------------------------------------
(* Table is inductive *)

Closes == {"free", "claim", "open"}

\* Only t moves.
Frame(t) ==
    /\ op[t] # "none" \/ stage = "up"
    /\ \A u \in Threads \ {t} :
         pc'[u] = pc[u] /\ op'[u] = op[u] /\ at'[u] = at[u] /\ left'[u] = left[u]

\* The threads that do not move keep what they rely on.
LEMMA OthersKept ==
  ASSUME Control, Control', Table, NEW t \in Threads, NEW e \in Slots, Frame(t),
         lock[e] \in {t, NoThread},
         \A s \in Slots \ {e} : piob'[s] = piob[s],
         \A f \in files' : f \in files \/ f = opened + 1,
         \A s \in users' : s \in users \/ s = e,
         op[t] # "exit" => (There(e) => There(e)'),
         There(e) /\ piob[e].file # NoFile =>
           piob'[e].file # NoFile \/ op[t] = "exit" \/ (op[t] \in Alone /\ at[t] = e)
  PROVE  \A u \in Threads \ {t} : ThreadInv(u)' /\ ExitInv(u)'
  <1> SUFFICES ASSUME NEW u \in Threads \ {t} PROVE ThreadInv(u)' /\ ExitInv(u)'
    OBVIOUS
  <1>0. /\ ThreadInv(u) /\ ExitInv(u) /\ StepInv(u) /\ LockInv(u) /\ AloneInv(u) /\ AloneInv(t)
        /\ SlotInv /\ u # NoThread /\ opened \in Nat
    BY DEF Control, Table, OpenInv
  <1>1. pc'[u] = pc[u] /\ op'[u] = op[u] /\ at'[u] = at[u] /\ left'[u] = left[u]
    BY DEF Frame
  <1>2. op[u] # "exit" /\ pc[u] # "close"
    BY <1>0 DEF AloneInv, Frame, StepInv
  <1>3. ExitInv(u)'
    BY <1>1, <1>2 DEF ExitInv
  <1>4. op[t] = "exit" => op[u] = "none" /\ pc[u] = "idle"
    BY <1>0 DEF AloneInv, StepInv
  <1>5. pc[u] \in Held => at[u] \in Slots \ {e}
    BY <1>0 DEF LockInv, StepInv
  <1>6. pc[u] \in Held \cup {"wait"} => There(at[u])'
    <2>1. CASE at[u] = e
      BY <1>0, <1>1, <1>4, <2>1 DEF ThreadInv, There, Held
    <2>2. CASE at[u] # e
      BY <1>0, <1>1, <2>2 DEF ThreadInv, There, StepInv
    <2> QED
      BY <2>1, <2>2
  <1>7. pc[u] = "free" => piob'[at[u]].file \notin files' /\ Flushed(at[u])'
    <2> SUFFICES ASSUME pc[u] = "free" PROVE piob'[at[u]].file \notin files' /\ Flushed(at[u])'
      OBVIOUS
    <2>1. at[u] \in Slots \ {e} /\ piob'[at[u]] = piob[at[u]] /\ There(at[u])
      BY <1>0, <1>5 DEF Held, ThreadInv
    <2>2. piob[at[u]].file <= opened /\ piob[at[u]].file \notin files /\ Flushed(at[u])
      BY <1>0, <2>1 DEF SlotInv, ThreadInv
    <2>3. opened + 1 # piob[at[u]].file
      BY <1>0, <2>2
    <2> QED
      BY <1>1, <2>1, <2>2, <2>3 DEF Flushed, There
  <1>8. pc[u] \in {"claim", "open"} \/ (pc[u] = "free" /\ op[u] = "fopen") => piob'[at[u]].file = NoFile
    BY <1>0, <1>5 DEF ThreadInv, Held
  <1>9. op[u] = "fopen" /\ pc[u] \in {"open", "free"} => at[u] \notin users'
    BY <1>0, <1>5 DEF ThreadInv, Held
  <1>10. op[u] \in StreamOps \ {"freopen"} /\ pc[u] \in {"wait", "body"} => piob'[at[u]].file # NoFile
    <2> SUFFICES ASSUME op[u] \in StreamOps \ {"freopen"}, pc[u] \in {"wait", "body"}
                 PROVE  piob'[at[u]].file # NoFile
      OBVIOUS
    <2>1. at[u] \in Slots /\ There(at[u]) /\ piob[at[u]].file # NoFile
      BY <1>0 DEF StepInv, ThreadInv, Held
    <2>2. CASE at[u] # e
      BY <2>1, <2>2
    <2>3. CASE at[u] = e
      <3>1. ~(op[t] \in Alone /\ at[t] = e)
        BY <2>3 DEF Control, ClientInv, Alone, StreamOps
      <3>2. op[t] # "exit"
        BY <1>4 DEF StreamOps
      <3> QED
        BY <2>1, <2>3, <3>1, <3>2
    <2> QED
      BY <2>2, <2>3
  <1>11. op[u] = "fwrite" => left[u] > 0
    BY <1>0 DEF ThreadInv
  <1>12. ThreadInv(u)'
    BY <1>1, <1>6, <1>7, <1>8, <1>9, <1>10, <1>11 DEF ThreadInv, Flushed, There
  <1> QED
    BY <1>3, <1>12

\* A thread that closes a slot keeps closing it, unless t is the one.
LEMMA ClosingKept ==
  ASSUME NEW t \in Threads, Frame(t), NEW s, Closing(s), pc[t] \in Closes /\ at[t] = s => Closing(s)'
  PROVE  Closing(s)'
  BY DEF Closing, Frame, Closes

\* A step that leaves the table as it is.
LEMMA TableKept ==
  ASSUME Control, Control', Table, NEW t \in Threads, Frame(t),
         UNCHANGED <<piob, files, opened, users, disk, sent, err>>,
         stage' = stage \/ (stage = "up" /\ stage' = "exit"),
         left' \in [Threads -> Nat], ThreadInv(t)', ExitInv(t)',
         pc[t] \in Closes => pc'[t] \in Closes /\ at'[t] = at[t]
  PROVE  Table'
  <1>1. TableTypes' /\ SlotInv' /\ FileInv' /\ KeptInv'
    BY DEF Table, TableTypes, SlotInv, FileInv, KeptInv, There, Has
  <1>2. UserInv'
    <2>1. ASSUME NEW s \in Slots, Closing(s) PROVE Closing(s)'
      BY <2>1, ClosingKept DEF Closing, Closes
    <2> QED
      BY <2>1 DEF Table, UserInv, There, Control, ControlTypes
  <1>3. \A u \in Threads \ {t} : ThreadInv(u)' /\ ExitInv(u)'
    <2>1. ASSUME NEW u \in Threads \ {t} PROVE ThreadInv(u)' /\ ExitInv(u)'
      <3>1. /\ ThreadInv(u) /\ StepInv(u) /\ AloneInv(u) /\ AloneInv(t)
            /\ pc'[u] = pc[u] /\ op'[u] = op[u] /\ at'[u] = at[u] /\ left'[u] = left[u]
        BY DEF Control, Table, Frame
      <3>2. op[u] # "exit" /\ pc[u] # "close"
        BY <3>1 DEF AloneInv, Frame, StepInv
      <3> QED
        BY <3>1, <3>2 DEF ThreadInv, ExitInv, Flushed, There
    <2> QED
      BY <2>1
  <1> QED
    BY <1>1, <1>2, <1>3 DEF Table

\* The stream of slot e becomes x; the file of e gets the bytes it loses, and no other is touched.
Rewrites(e, x) ==
    /\ There(e) /\ Fine(x) /\ Same(piob[e], x) /\ piob' = [piob EXCEPT ![e] = x]
    /\ disk' \in [Files -> Seq(Nat)] /\ sent' \in [Files -> Nat]
    /\ err' \in [Files -> {"no", "told", "ignored"}]
    /\ \A g \in Files : g # piob[e].file => disk'[g] = disk[g] /\ sent'[g] = sent[g] /\ err'[g] = err[g]
    /\ piob[e].file \in Files /\ err'[piob[e].file] = "no" =>
         disk'[piob[e].file] \o x.buf = Iota(sent'[piob[e].file])

LEMMA RewriteTable ==
  ASSUME Control, Control', Table, NEW t \in Threads, Frame(t), NEW e \in Slots, NEW x, Rewrites(e, x),
         lock[e] \in {t, NoThread}, pc[t] \notin Closes,
         \/ files' = files
         \/ files' = files \ {piob[e].file} /\ pc'[t] \in Closes /\ at'[t] = e,
         UNCHANGED <<opened, users, stage>>,
         left' \in [Threads -> Nat], ThreadInv(t)', ExitInv(t)'
  PROVE  Table'
  <1>0. /\ TableTypes /\ SlotInv /\ FileInv /\ UserInv /\ KeptInv /\ opened \in Nat /\ users \subseteq Slots
    BY DEF Table, Control, OpenInv, ControlTypes
  <1>1. /\ There(e) /\ Fine(x) /\ x \in Streams /\ x # NoStream /\ piob'[e] = x
        /\ x.file = piob[e].file /\ (InUse(x) <=> InUse(piob[e]))
        /\ \A s \in Slots \ {e} : piob'[s] = piob[s]
    BY <1>0, StdioAssumption DEF Rewrites, Same, Fine, TableTypes
  <1>2. \A s \in Slots : /\ There(s)' <=> There(s)
                         /\ There(s) => /\ piob'[s].file = piob[s].file
                                        /\ InUse(piob'[s]) <=> InUse(piob[s])
    BY <1>1 DEF There
  <1>3. TableTypes'
    <2>1. piob' \in [Slots -> Streams \cup {NoStream}]
      BY <1>0, <1>1 DEF Rewrites, TableTypes
    <2>2. \A s \in Slots : There(s)' => Fine(piob'[s])
      BY <1>0, <1>1 DEF TableTypes, There
    <2>3. files' \subseteq 1..opened'
      BY <1>0 DEF TableTypes
    <2> QED
      BY <2>1, <2>2, <2>3 DEF Rewrites, TableTypes
  <1>4. SlotInv'
    BY <1>0, <1>2 DEF SlotInv
  <1>5. FileInv'
    <2>1. CASE files' = files
      BY <1>0, <1>2, <2>1 DEF FileInv, Has
    <2>2. CASE pc'[t] \in Closes /\ files' = files \ {piob[e].file}
      <3>1. stage' # "down"
        BY <2>2 DEF Control, AloneInv, StepInv, Closes
      <3> QED
        BY <1>0, <1>2, <2>2, <3>1 DEF FileInv, Has
    <2> QED
      BY <2>1, <2>2
  <1>6. UserInv'
    <2> SUFFICES ASSUME stage = "up", NEW s \in users
                 PROVE  There(s)' /\ (s # 0 => Closing(s)' \/ piob'[s].file \in files')
      BY DEF UserInv
    <2>1. s \in Slots /\ There(s) /\ (s # 0 => Closing(s) \/ piob[s].file \in files)
      BY <1>0 DEF UserInv
    <2>2. Closing(s) => Closing(s)'
      BY ClosingKept
    <2>3. CASE files' = files
      BY <1>2, <2>1, <2>2, <2>3
    <2>4. CASE files' = files \ {piob[e].file} /\ pc'[t] \in Closes /\ at'[t] = e
      <3>1. CASE s = e
        <4>1. Closing(e)'
          BY <2>4 DEF Closing, Closes
        <4> QED
          BY <1>2, <2>1, <3>1, <4>1
      <3>2. CASE s # e
        <4>1. piob[s].file = piob[e].file => piob[s].file = NoFile
          BY <1>0, <1>1, <2>1, <3>2 DEF SlotInv
        <4>2. NoFile \notin files
          BY <1>0 DEF TableTypes
        <4> QED
          BY <1>2, <2>1, <2>2, <2>4, <4>1, <4>2
      <3> QED
        BY <3>1, <3>2
    <2> QED
      BY <2>3, <2>4
  <1>7. KeptInv'
    <2> SUFFICES ASSUME NEW f \in Files, err'[f] = "no"
                 PROVE  /\ \A s \in Slots : Has(s, f)' => disk'[f] \o piob'[s].buf = Iota(sent'[f])
                        /\ (\A s \in Slots : ~Has(s, f)') => disk'[f] = Iota(sent'[f])
      BY DEF KeptInv, Iota
    <2>1. \A s \in Slots : Has(s, f)' <=> Has(s, f)
      BY <1>2 DEF Has
    <2>2. CASE f = piob[e].file
      <3>1. disk'[f] \o x.buf = Iota(sent'[f])
        BY <2>2 DEF Rewrites
      <3>2. ASSUME NEW s \in Slots, Has(s, f) PROVE s = e
        BY <1>0, <1>1, <2>2, <3>2 DEF SlotInv, Has
      <3>3. Has(e, f)
        BY <1>1, <2>2 DEF Has
      <3> QED
        BY <1>1, <2>1, <3>1, <3>2, <3>3
    <2>3. CASE f # piob[e].file
      <3>1. disk'[f] = disk[f] /\ sent'[f] = sent[f] /\ err[f] = "no"
        BY <2>3 DEF Rewrites
      <3>2. ~Has(e, f)
        BY <2>3 DEF Has
      <3>3. \A s \in Slots : Has(s, f) => piob'[s] = piob[s]
        BY <1>1, <3>2
      <3> QED
        BY <1>0, <2>1, <3>1, <3>3 DEF KeptInv
    <2> QED
      BY <2>2, <2>3
  <1>8. \A u \in Threads \ {t} : ThreadInv(u)' /\ ExitInv(u)'
    BY <1>1, <1>2, OthersKept
  <1> QED
    BY <1>3, <1>4, <1>5, <1>6, <1>7, <1>8 DEF Table

\* The bytes after the first k.
LEMMA IotaGrows ==
  ASSUME NEW k \in Nat, NEW n \in Nat, NEW acc, acc = [i \in 1..n |-> k + i]
  PROVE  acc \in Seq(Nat) /\ Iota(k) \in Seq(Nat) /\ Iota(k) \o acc = Iota(k + n)
  <1>1. /\ acc \in [1..n -> Nat] /\ Iota(k) \in [1..k -> Nat] /\ Iota(k + n) \in [1..(k + n) -> Nat]
        /\ DOMAIN acc = 1..n /\ DOMAIN Iota(k) = 1..k /\ DOMAIN Iota(k + n) = 1..(k + n)
    BY DEF Iota
  <1>2. acc \in Seq(Nat) /\ Iota(k) \in Seq(Nat) /\ Iota(k + n) \in Seq(Nat)
    BY <1>1, SeqDef
  <1>3. Len(acc) = n /\ Len(Iota(k)) = k /\ Len(Iota(k + n)) = k + n
    BY <1>1, <1>2, LenProperties
  <1>4. Iota(k) \o acc \in Seq(Nat) /\ Len(Iota(k) \o acc) = k + n
    BY <1>2, <1>3, ConcatProperties
  <1>5. ASSUME NEW i \in 1..(k + n) PROVE (Iota(k) \o acc)[i] = Iota(k + n)[i]
    <2>1. (Iota(k) \o acc)[i] = IF i <= k THEN Iota(k)[i] ELSE acc[i - k]
      BY <1>2, <1>3, ConcatProperties
    <2>2. CASE i <= k
      BY <2>1, <2>2 DEF Iota
    <2>3. CASE i > k
      BY <2>1, <2>3 DEF Iota
    <2>4. i <= k \/ i > k
      OBVIOUS
    <2> QED
      BY <2>2, <2>3, <2>4
  <1> QED
    BY <1>2, <1>3, <1>4, <1>5, SeqEqual

\* What a call accepts is added to what the file and the buffer hold.
LEMMA ApplyRewrites ==
  ASSUME Control, Table, NEW t \in Threads, NEW r, NEW ok, NEW n \in Nat, Apply(t, r, ok, n),
         at[t] \in Slots, There(at[t]),
         Fine(r.stream), Same(piob[at[t]], r.stream), r.put \in Seq(Nat),
         NEW acc, piob[at[t]].file \in Files => acc = [i \in 1..n |-> sent[piob[at[t]].file] + i],
         ok /\ "error" \notin r.stream.flags => r.put \o r.stream.buf = piob[at[t]].buf \o acc
  PROVE  Rewrites(at[t], r.stream)
  <1> DEFINE e == at[t]
             f == piob[e].file
             x == r.stream
  <1>0. TableTypes /\ KeptInv /\ piob[e] \in Streams
    BY DEF Table, TableTypes, There
  <1>1. /\ piob' = [piob EXCEPT ![e] = x] /\ disk' = [disk EXCEPT ![f] = @ \o r.put]
        /\ sent' = [sent EXCEPT ![f] = @ + n]
    BY DEF Apply
  <1>2. PICK m \in {"ignored", "told"} :
          err' = [err EXCEPT ![f] = IF @ = "no" /\ (~ok \/ "error" \in x.flags) THEN m ELSE @]
    BY DEF Apply
  <1>3. /\ disk \in [Files -> Seq(Nat)] /\ sent \in [Files -> Nat]
        /\ err \in [Files -> {"no", "told", "ignored"}]
    BY <1>0 DEF TableTypes
  <1> HIDE DEF f, x
  <1>4. f \in Files => disk[f] \o r.put \in Seq(Nat)
    BY <1>3, ConcatProperties
  <1>5. /\ disk' \in [Files -> Seq(Nat)] /\ sent' \in [Files -> Nat]
        /\ err' \in [Files -> {"no", "told", "ignored"}]
    <2>1. disk' \in [Files -> Seq(Nat)]
      BY <1>1, <1>3, <1>4
    <2>a. f \in Files => sent[f] + n \in Nat
      BY <1>3
    <2>2. sent' \in [Files -> Nat]
      BY <1>1, <1>3, <2>a
    <2>3. err' \in [Files -> {"no", "told", "ignored"}]
      BY <1>2, <1>3
    <2> QED
      BY <2>1, <2>2, <2>3
  <1>6. \A g \in Files : g # f => disk'[g] = disk[g] /\ sent'[g] = sent[g] /\ err'[g] = err[g]
    BY <1>1, <1>2, <1>3
  <1>7. ASSUME f \in Files, err'[f] = "no" PROVE disk'[f] \o x.buf = Iota(sent'[f])
    <2>1. err[f] = "no" /\ ok /\ "error" \notin x.flags
      BY <1>2, <1>3, <1>7
    <2>2. disk'[f] = disk[f] \o r.put /\ sent'[f] = sent[f] + n
      BY <1>1, <1>3, <1>7
    <2>3. r.put \o x.buf = piob[e].buf \o acc
      BY <2>1 DEF x
    <2>4. disk[f] \o piob[e].buf = Iota(sent[f])
      BY <1>0, <1>7, <2>1 DEF KeptInv, Has, f
    <2>5. acc \in Seq(Nat) /\ Iota(sent[f]) \o acc = Iota(sent[f] + n)
      BY <1>3, <1>7, IotaGrows DEF f
    <2>6. disk[f] \in Seq(Nat) /\ piob[e].buf \in Seq(Nat) /\ x.buf \in Seq(Nat)
      BY <1>0, <1>3, <1>7, FlagFacts DEF Fine, x
    <2>7. PICK d \in Seq(Nat), p \in Seq(Nat), b \in Seq(Nat), q \in Seq(Nat), c \in Seq(Nat) :
            d = disk[f] /\ p = r.put /\ b = x.buf /\ q = piob[e].buf /\ c = acc
      BY <2>5, <2>6
    <2>8. (d \o p) \o b = d \o (p \o b)
      BY Regroup, ZenonT(60)
    <2>9. (d \o q) \o c = d \o (q \o c)
      BY Regroup, ZenonT(60)
    <2> QED
      BY <2>2, <2>3, <2>4, <2>5, <2>7, <2>8, <2>9
  <1> QED
    BY <1>1, <1>5, <1>6, <1>7 DEF Rewrites, f, x

LEMMA FewBytes ==
  ASSUME NEW k \in Nat
  PROVE  [i \in 1..0 |-> k + i] = << >> /\ [i \in 1..1 |-> k + i] = <<k + 1>>
  OBVIOUS

\* The thread t in the body of a call on a stream.
LEMMA InBody ==
  ASSUME Control, Table, NEW t \in Threads, pc[t] = "body"
  PROVE  /\ at[t] \in Slots /\ There(at[t]) /\ Fine(piob[at[t]]) /\ lock[at[t]] = t
         /\ piob[at[t]] \in Streams /\ piob[at[t]].file \in 0..MaxFiles
         /\ op[t] \in StreamOps /\ left \in [Threads -> Nat]
         /\ op[t] # "freopen" => piob[at[t]].file \in Files /\ sent[piob[at[t]].file] \in Nat
  <1>1. StepInv(t) /\ LockInv(t) /\ ThreadInv(t) /\ TableTypes /\ op[t] \in Ops
    BY DEF Control, Table, ControlTypes
  <1>2. at[t] \in Slots /\ There(at[t]) /\ lock[at[t]] = t
    BY <1>1 DEF StepInv, LockInv, ThreadInv, Held
  <1>3. Fine(piob[at[t]]) /\ piob[at[t]] \in Streams
    BY <1>1, <1>2 DEF TableTypes, Fine
  <1>4. piob[at[t]].file \in 0..MaxFiles
    BY <1>3, FlagFacts
  <1>5. op[t] \in StreamOps
    BY <1>1 DEF StepInv, Ops, Walks
  <1>6. op[t] # "freopen" => piob[at[t]].file # NoFile
    BY <1>1, <1>5 DEF ThreadInv
  <1> QED
    BY <1>1, <1>2, <1>3, <1>4, <1>5, <1>6 DEF TableTypes

\* A call whose body is one step returns.
LEMMA ReturnTable ==
  ASSUME Control, Control', Table, NEW t \in Threads, pc[t] = "body", NEW x, Rewrites(at[t], x),
         Return(t), UNCHANGED <<table, lowio>>, NEW k \in Nat, left' = left \/ left' = [left EXCEPT ![t] = k]
  PROVE  Table'
  <1>1. at[t] \in Slots /\ lock[at[t]] = t /\ left \in [Threads -> Nat] /\ op[t] # "none"
    BY InBody DEF StreamOps
  <1>2. /\ pc'[t] = "idle" /\ op'[t] = "none" /\ at'[t] = 0
        /\ \A u \in Threads \ {t} : pc'[u] = pc[u] /\ op'[u] = op[u] /\ at'[u] = at[u]
    BY DEF Return, Move, Control, ControlTypes
  <1>3. Frame(t) /\ left' \in [Threads -> Nat]
    BY <1>1, <1>2 DEF Frame
  <1>4. ThreadInv(t)' /\ ExitInv(t)'
    BY <1>2 DEF ThreadInv, ExitInv, Held, StreamOps
  <1>5. UNCHANGED <<opened, users, stage, files>>
    BY DEF table, lowio
  <1>6. pc[t] \notin Closes
    BY DEF Closes
  <1> QED
    BY <1>1, <1>3, <1>4, <1>5, <1>6, RewriteTable

LEMMA ByteCallsTable ==
  ASSUME Control, Control', Table, NEW t \in Threads, Fputc(t) \/ Fflush(t) \/ Fgetc(t) \/ Setvbuf(t)
  PROVE  Table'
  <1> DEFINE s == piob[at[t]]
             f == s.file
  <1>0. /\ pc[t] = "body" /\ Return(t) /\ UNCHANGED <<left, table, lowio>> /\ op[t] # "freopen"
    BY DEF Fputc, Fflush, Fgetc, Setvbuf, Body
  <1>1. /\ at[t] \in Slots /\ There(at[t]) /\ Fine(s) /\ f \in Files /\ sent[f] \in Nat /\ s.buf \in Seq(Nat)
    BY <1>0, InBody, FlagFacts
  <1>2. [i \in 1..0 |-> sent[f] + i] = << >> /\ [i \in 1..1 |-> sent[f] + i] = <<sent[f] + 1>>
    BY <1>1, FewBytes
  <1>3. SUFFICES \E x : Rewrites(at[t], x)
    BY <1>0, ReturnTable
  <1>4. ASSUME NEW r, NEW ok, Apply(t, r, ok, 0), Fine(r.stream), Same(s, r.stream), r.put \in Seq(Nat),
               ok /\ "error" \notin r.stream.flags => r.put \o r.stream.buf = s.buf \o << >>
        PROVE  Rewrites(at[t], r.stream)
    BY <1>1, <1>2, <1>4, ApplyRewrites
  <1>5. CASE Fputc(t)
    <2>1. PICK r \in Put(s, sent[f] + 1) : Apply(t, r, r.ok, IF r.ok THEN 1 ELSE 0)
      BY <1>5 DEF Fputc, NextByte
    <2>2. Keeps(s, r, <<sent[f] + 1>>)
      BY <1>1, PutKeeps
    <2>3. CASE r.ok
      BY <1>1, <1>2, <2>1, <2>2, <2>3, ApplyRewrites DEF Keeps
    <2>4. CASE ~r.ok
      BY <1>4, <2>1, <2>2, <2>4 DEF Keeps
    <2> QED
      BY <2>3, <2>4
  <1>6. CASE Fflush(t)
    <2>1. PICK r \in Flush(s) : Apply(t, r, r.ok, 0)
      BY <1>6 DEF Fflush
    <2>2. Keeps(s, r, << >>)
      BY <1>1, FlushKeeps
    <2> QED
      BY <1>4, <2>1, <2>2 DEF Keeps
  <1>7. CASE Fgetc(t)
    <2>1. PICK r \in Refill(s) : Apply(t, r, TRUE, 0)
      BY <1>7 DEF Fgetc
    <2>2. Keeps(s, r, << >>) /\ (~r.ok => "error" \in r.stream.flags)
      BY <1>1, RefillKeeps
    <2> QED
      BY <1>4, <2>1, <2>2 DEF Keeps
  <1>8. CASE Setvbuf(t)
    <2>1. PICK r \in Flush(s) :
            LET y == Set(FreeBuffer(r.stream), {}, {"crt", "user", "none"})
                b == [Reset(y) EXCEPT !.bufsiz = 2]
            IN  \/ \E kind \in {"none", "crt", "user"} :
                     Apply(t, [r EXCEPT !.stream = Set(b, {kind}, {})], TRUE, 0)
                \/ Apply(t, [r EXCEPT !.stream = y, !.cost = @ + 1], TRUE, 0)
      BY <1>8 DEF Setvbuf
    <2>2. /\ Keeps(s, r, << >>) /\ r.stream.buf = << >> /\ r.stream.cnt = 0
          /\ ~r.ok => "error" \in r.stream.flags
      BY <1>1, FlushKeeps
    <2> DEFINE y == Set(FreeBuffer(r.stream), {}, {"crt", "user", "none"})
               b == [Reset(y) EXCEPT !.bufsiz = 2]
    <2>3. DOMAIN r = {"stream", "put", "ok", "cost"}
      BY FlushDomain
    <2> DEFINE Left(q) == /\ Apply(t, q, TRUE, 0) /\ q.put = r.put
                          /\ \/ q.stream = y
                             \/ \E kind \in {"none", "crt", "user"} : q.stream = Set(b, {kind}, {})
    <2>4. PICK q : Left(q)
      <3>1. CASE Apply(t, [r EXCEPT !.stream = y, !.cost = @ + 1], TRUE, 0)
        <4> DEFINE q == [r EXCEPT !.stream = y, !.cost = @ + 1]
        <4>1. q.put = r.put /\ q.stream = y
          BY <2>3
        <4>2. Left(q)
          BY <3>1, <4>1
        <4> QED
          BY <4>2
      <3>2. CASE \E kind \in {"none", "crt", "user"} :
                   Apply(t, [r EXCEPT !.stream = Set(b, {kind}, {})], TRUE, 0)
        <4>1. PICK kind \in {"none", "crt", "user"} :
                Apply(t, [r EXCEPT !.stream = Set(b, {kind}, {})], TRUE, 0)
          BY <3>2
        <4> DEFINE q == [r EXCEPT !.stream = Set(b, {kind}, {})]
        <4>2. q.put = r.put /\ q.stream = Set(b, {kind}, {})
          BY <2>3
        <4>3. Left(q)
          BY <4>1, <4>2
        <4> QED
          BY <4>3
      <3> QED
        BY <2>1, <3>1, <3>2
    <2>5. /\ Fine(q.stream) /\ Same(r.stream, q.stream) /\ q.stream.buf = << >>
          /\ "error" \in r.stream.flags => "error" \in q.stream.flags
      BY <2>2, <2>4, SetvbufKeeps DEF Keeps
    <2>6. Same(s, q.stream)
      BY <2>2, <2>5 DEF Keeps, Same
    <2>7. "error" \notin q.stream.flags => q.put \o q.stream.buf = s.buf \o << >>
      BY <2>2, <2>4, <2>5 DEF Keeps
    <2> QED
      BY <1>4, <2>2, <2>4, <2>5, <2>6, <2>7 DEF Keeps
  <1> QED
    BY <1>5, <1>6, <1>7, <1>8

\* One turn of the loop of fwrite, which accepts n bytes unless it fails.
LEMMA TurnTable ==
  ASSUME Control, Control', Table, NEW t \in Threads, Body(t, "fwrite"), NEW r, NEW n \in Nat,
         FwriteTurn(t, r, n), r.ok => n <= left[t],
         Fine(r.stream), Same(piob[at[t]], r.stream), r.put \in Seq(Nat),
         r.ok /\ "error" \notin r.stream.flags =>
           r.put \o r.stream.buf = piob[at[t]].buf \o [i \in 1..n |-> sent[piob[at[t]].file] + i]
  PROVE  Table'
  <1>0. pc[t] = "body" /\ op[t] = "fwrite"
    BY DEF Body
  <1>1. /\ at[t] \in Slots /\ There(at[t]) /\ lock[at[t]] = t /\ left \in [Threads -> Nat]
        /\ piob[at[t]].file \in Files
    BY <1>0, InBody
  <1>2. Rewrites(at[t], r.stream)
    BY <1>1, ApplyRewrites DEF FwriteTurn
  <1>3. PICK k \in Nat : left' = [left EXCEPT ![t] = k] /\ (r.ok => k = left[t] - n)
    <2>1. CASE r.ok
      <3>1. left[t] - n \in Nat
        BY <1>1, <2>1
      <3>2. left' = [left EXCEPT ![t] = left[t] - n]
        BY <2>1 DEF FwriteTurn
      <3> QED
        BY <3>1, <3>2
    <2>2. CASE ~r.ok
      <3> WITNESS 0 \in Nat
      <3> QED
        BY <1>1, <2>2 DEF FwriteTurn
    <2> QED
      BY <2>1, <2>2
  <1>4. CASE Return(t)
    BY <1>0, <1>2, <1>3, <1>4, ReturnTable DEF FwriteTurn
  <1>5. CASE r.ok /\ left[t] > n /\ Goto(t, "body")
    <2>1. /\ pc'[t] = "body" /\ op'[t] = "fwrite" /\ at'[t] = at[t] /\ left'[t] > 0
          /\ \A u \in Threads \ {t} : pc'[u] = pc[u] /\ op'[u] = op[u] /\ at'[u] = at[u]
      BY <1>0, <1>1, <1>3, <1>5 DEF Goto, Move, Control, ControlTypes
    <2>2. Frame(t) /\ left' \in [Threads -> Nat]
      BY <1>0, <1>1, <1>3, <2>1 DEF Frame
    <2>3. piob'[at[t]] = r.stream /\ r.stream # NoStream /\ r.stream.file = piob[at[t]].file
      BY <1>1, <1>2, StdioAssumption DEF Rewrites, Same, Fine, Table, TableTypes
    <2>4. ThreadInv(t)' /\ ExitInv(t)'
      BY <1>1, <2>1, <2>3 DEF ThreadInv, ExitInv, There, StreamOps, Held
    <2>5. UNCHANGED <<opened, users, stage, files>> /\ pc[t] \notin Closes
      BY <1>0 DEF FwriteTurn, table, lowio, Closes
    <2> QED
      BY <1>1, <1>2, <2>2, <2>4, <2>5, RewriteTable
  <1> QED
    BY <1>4, <1>5 DEF FwriteTurn

LEMMA FwriteTable ==
  ASSUME Control, Control', Table, NEW t \in Threads, FwriteCopy(t) \/ FwriteBlocks(t) \/ FwriteChar(t)
  PROVE  Table'
  <1> DEFINE s == piob[at[t]]
             f == s.file
  <1>0. Body(t, "fwrite") /\ pc[t] = "body" /\ op[t] = "fwrite"
    BY DEF FwriteCopy, FwriteBlocks, FwriteChar, Body
  <1>1. /\ Fine(s) /\ s \in Streams /\ s.buf \in Seq(Nat) /\ s.cnt \in Nat /\ s.bufsiz \in Nat
        /\ f \in Files /\ sent[f] \in Nat /\ left[t] \in Nat /\ left[t] > 0
    <2>1. ThreadInv(t)
      BY DEF Table
    <2> QED
      BY <1>0, <2>1, InBody, FlagFacts DEF ThreadInv
  <1>2. s.cnt > 0 => Flushable(s)
    BY <1>1 DEF Fine
  <1>3. ASSUME NEW n \in Nat PROVE /\ Data(t, n) = [i \in 1..n |-> sent[f] + i]
                                   /\ Data(t, n) \in Seq(Nat) /\ Len(Data(t, n)) = n
    <2>1. Data(t, n) = [i \in 1..n |-> sent[f] + i]
      BY DEF Data
    <2>2. Data(t, n) \in [1..n -> Nat]
      BY <1>1, <2>1
    <2>3. Data(t, n) \in Seq(Nat)
      BY <2>2, SeqDef
    <2>4. Len(Data(t, n)) = n
      BY <2>2, <2>3, LenProperties
    <2> QED
      BY <2>1, <2>3, <2>4
  <1>4. CASE FwriteCopy(t)
    <2> DEFINE n == IF left[t] < s.cnt THEN left[t] ELSE s.cnt
               x == [s EXCEPT !.buf = @ \o Data(t, n), !.cnt = @ - n]
               r == Result(x, << >>, TRUE, 0)
    <2>1. FwriteTurn(t, r, n) /\ s.cnt # 0
      BY <1>4 DEF FwriteCopy
    <2>2. n \in Nat /\ n <= left[t] /\ s.cnt - n \in Nat
      BY <1>1
    <2>3. r.stream = x /\ r.put = << >> /\ << >> \in Seq(Nat)
      BY EmptySeq DEF Result
    <2> HIDE DEF r, n
    <2>4. Data(t, n) \in Seq(Nat) /\ s.buf \o Data(t, n) \in Seq(Nat)
      BY <1>1, <1>3, <2>2, ConcatProperties
    <2>5. /\ x \in Streams /\ x.flags = s.flags /\ x.file = s.file
          /\ x.buf = s.buf \o Data(t, n) /\ x.bufsiz = s.bufsiz
      BY <1>1, <2>2, <2>4 DEF Streams
    <2> HIDE DEF x
    <2>6. (HasBuffer(x) <=> HasBuffer(s)) /\ (Flushable(x) <=> Flushable(s))
      BY <1>1, <2>5, FlagFacts
    <2>7. Flushable(s)
      BY <1>1, <1>2, <2>1
    <2>8. Fine(x) /\ Same(s, x)
      BY <1>1, <2>5, <2>6, <2>7 DEF Fine, Same, InUse
    <2>9. << >> \o x.buf = s.buf \o Data(t, n)
      BY <2>4, <2>5, Empties
    <2> QED
      BY <1>0, <1>3, <2>1, <2>2, <2>3, <2>8, <2>9, TurnTable
  <1>5. CASE FwriteBlocks(t)
    <2> DEFINE size == StreamBufferSize(s)
               n == left[t] - (left[t] % size)
    <2>1. size \in Nat /\ size > 0 /\ left[t] >= size
      <3>1. size \in Nat /\ size > 0
        BY <1>1, StdioAssumption DEF StreamBufferSize, Fine
      <3>2. left[t] >= size
        BY <1>5 DEF FwriteBlocks
      <3> QED
        BY <3>1, <3>2
    <2>2. n \in Nat /\ n <= left[t]
      <3> HIDE DEF size
      <3>1. left[t] % size \in 0..(size - 1)
        BY <1>1, <2>1
      <3> QED
        BY <1>1, <2>1, <3>1
    <2>3. PICK r \in IF BigBuffer(s) THEN Flush(s) ELSE {Result(s, << >>, TRUE, 0)} :
            IF ~r.ok THEN FwriteTurn(t, r, 0)
            ELSE \E w \in Write(r.stream, Data(t, n), Set(r.stream, {"error"}, {})) :
                   FwriteTurn(t, [w EXCEPT !.put = r.put \o @], Len(w.put))
      BY <1>5 DEF FwriteBlocks
    <2> HIDE DEF n
    <2>4. /\ Fine(r.stream) /\ Same(s, r.stream) /\ r.put \in Seq(Nat)
          /\ r.stream.buf = << >> /\ (r.ok => r.put = s.buf)
      <3>1. CASE BigBuffer(s)
        BY <1>1, <2>3, <3>1, FlushKeeps DEF Keeps
      <3>2. CASE ~BigBuffer(s)
        <4>1. r.stream = s /\ r.put = << >>
          BY <2>3, <3>2 DEF Result
        <4>2. s.buf = << >> /\ << >> \in Seq(Nat)
          BY <1>1, <3>2, FlagFacts, EmptySeq DEF Fine
        <4> QED
          BY <1>1, <4>1, <4>2 DEF Same
      <3> QED
        BY <3>1, <3>2
    <2>5. CASE ~r.ok
      BY <1>0, <1>1, <2>3, <2>4, <2>5, TurnTable
    <2>6. CASE r.ok
      <3>1. PICK w \in Write(r.stream, Data(t, n), Set(r.stream, {"error"}, {})) :
              FwriteTurn(t, [w EXCEPT !.put = r.put \o @], Len(w.put))
        BY <2>3, <2>6
      <3> DEFINE q == [w EXCEPT !.put = r.put \o @]
      <3>2. DOMAIN w = {"stream", "put", "ok", "cost"}
        BY WriteDomain
      <3>3. q.stream = w.stream /\ q.put = r.put \o w.put /\ (q.ok <=> w.ok) /\ FwriteTurn(t, q, Len(w.put))
        BY <3>1, <3>2
      <3> HIDE DEF q
      <3>4. Data(t, n) \in Seq(Nat) /\ Len(Data(t, n)) = n /\ Data(t, n) = [i \in 1..n |-> sent[f] + i]
        BY <1>3, <2>2
      <3>5. CASE w.stream = r.stream /\ w.put = Data(t, n) /\ w.ok
        <4>1. r.put \o Data(t, n) \in Seq(Nat) /\ r.put = s.buf
          BY <2>4, <2>6, <3>4, ConcatProperties
        <4>a. (r.put \o Data(t, n)) \o << >> = r.put \o Data(t, n)
          BY <4>1, Empties
        <4>b. q.put = r.put \o Data(t, n) /\ q.stream.buf = << >> /\ q.stream = r.stream
          BY <2>4, <3>3, <3>5
        <4>2. q.put \o q.stream.buf = s.buf \o Data(t, n)
          BY <4>1, <4>a, <4>b
        <4>3. Len(w.put) = n
          BY <3>4, <3>5
        <4>4. /\ Fine(q.stream) /\ Same(s, q.stream) /\ q.put \in Seq(Nat) /\ FwriteTurn(t, q, n)
              /\ q.put \o q.stream.buf = s.buf \o [i \in 1..n |-> sent[f] + i]
          BY <2>4, <3>3, <3>4, <4>1, <4>2, <4>3, <4>b
        <4> QED
          BY <1>0, <2>2, <4>4, TurnTable
      <3>6. CASE /\ w.stream = Set(r.stream, {"error"}, {}) /\ ~w.ok /\ w.put \in Seq(Nat)
                 /\ Len(w.put) \in Nat
        <4>1. Fine(w.stream) /\ Same(r.stream, w.stream) /\ r.put \o w.put \in Seq(Nat)
          BY <2>4, <3>6, MarkKeeps, ConcatProperties
        <4>2. Same(s, w.stream)
          BY <2>4, <4>1 DEF Same
        <4> QED
          BY <1>0, <3>3, <3>6, <4>1, <4>2, TurnTable
      <3> QED
        BY <3>4, <3>5, <3>6, WriteIs
    <2> QED
      BY <2>5, <2>6
  <1>6. CASE FwriteChar(t)
    <2>1. s.cnt = 0
      BY <1>1, <1>2, <1>6 DEF FwriteChar, Flushable
    <2>2. PICK r \in FlushAndWrite(s, sent[f] + 1) : FwriteTurn(t, r, IF r.ok THEN 1 ELSE 0)
      BY <1>6 DEF FwriteChar, NextByte
    <2>3. Keeps(s, r, <<sent[f] + 1>>)
      BY <1>1, <2>1, FlushAndWriteKeeps
    <2>4. [i \in 1..1 |-> sent[f] + i] = <<sent[f] + 1>>
      BY <1>1, FewBytes
    <2>5. CASE r.ok
      <3>1. FwriteTurn(t, r, 1) /\ 1 <= left[t]
        BY <1>1, <2>2, <2>5
      <3>2. "error" \notin r.stream.flags => r.put \o r.stream.buf = s.buf \o [i \in 1..1 |-> sent[f] + i]
        BY <2>3, <2>4, <2>5 DEF Keeps
      <3> QED
        BY <1>0, <2>3, <3>1, <3>2, TurnTable DEF Keeps
    <2>6. CASE ~r.ok
      BY <1>0, <1>1, <2>2, <2>3, <2>6, TurnTable DEF Keeps
    <2> QED
      BY <2>5, <2>6
  <1> QED
    BY <1>4, <1>5, <1>6

\* A stream whose file is closed, or that has none, is cleared.
LEMMA ClearTable ==
  ASSUME Control, Control', Table, NEW t \in Threads, Frame(t), NEW e \in Slots, NEW fl \in SUBSET {"alloc"},
         piob' = [piob EXCEPT ![e] = Stream(fl, NoFile)],
         There(e) => piob[e].file \notin files /\ Flushed(e),
         There(e) /\ piob[e].file # NoFile => op[t] \in Alone /\ at[t] = e,
         lock[e] \in {t, NoThread}, pc[t] \in Closes => at[t] = e,
         UNCHANGED <<files, opened, stage, disk, sent, err>>,
         users' \subseteq users, e \in users' /\ e # 0 => Closing(e)',
         left' \in [Threads -> Nat], ThreadInv(t)', ExitInv(t)'
  PROVE  Table'
  <1> DEFINE x == Stream(fl, NoFile)
  <1>0. TableTypes /\ SlotInv /\ FileInv /\ UserInv /\ KeptInv /\ opened \in Nat /\ users \subseteq Slots
    BY DEF Table, Control, OpenInv, ControlTypes
  <1>1. Fine(x) /\ x \in Streams /\ x # NoStream /\ x.file = NoFile /\ x.buf = << >>
    BY StreamIs, StdioAssumption DEF Fine
  <1>2. piob'[e] = x /\ \A s \in Slots \ {e} : piob'[s] = piob[s]
    BY <1>0 DEF TableTypes
  <1> HIDE DEF x
  <1>3. There(e)' /\ \A s \in Slots \ {e} : There(s)' <=> There(s)
    BY <1>1, <1>2 DEF There
  <1>4. TableTypes'
    <2>1. piob' \in [Slots -> Streams \cup {NoStream}]
      BY <1>0, <1>1 DEF TableTypes, x
    <2>2. \A s \in Slots : There(s)' => Fine(piob'[s])
      BY <1>0, <1>1, <1>2, <1>3 DEF TableTypes
    <2> QED
      BY <1>0, <2>1, <2>2 DEF TableTypes
  <1>5. SlotInv'
    BY <1>0, <1>1, <1>2, <1>3 DEF SlotInv
  <1>6. FileInv'
    <2>1. ASSUME stage # "down", NEW f \in files PROVE \E s \in Slots : Has(s, f)'
      <3>1. PICK s \in Slots : Has(s, f)
        BY <1>0, <2>1 DEF FileInv
      <3>2. s # e
        BY <3>1 DEF Has
      <3> QED
        BY <1>2, <1>3, <3>1, <3>2 DEF Has
    <2> QED
      BY <1>0, <2>1 DEF FileInv
  <1>7. UserInv'
    <2> SUFFICES ASSUME stage = "up", NEW s \in users'
                 PROVE  There(s)' /\ (s # 0 => Closing(s)' \/ piob'[s].file \in files)
      BY DEF UserInv
    <2>1. s \in Slots /\ There(s) /\ (s # 0 => Closing(s) \/ piob[s].file \in files)
      BY <1>0 DEF UserInv
    <2>2. CASE s = e
      BY <1>3, <2>2
    <2>3. CASE s # e
      <3>1. Closing(s) => Closing(s)'
        BY <2>3, ClosingKept
      <3> QED
        BY <1>2, <1>3, <2>1, <2>3, <3>1
    <2> QED
      BY <2>2, <2>3
  <1>8. KeptInv'
    <2> SUFFICES ASSUME NEW f \in Files, err[f] = "no"
                 PROVE  /\ \A s \in Slots : Has(s, f)' => disk[f] \o piob'[s].buf = Iota(sent[f])
                        /\ (\A s \in Slots : ~Has(s, f)') => disk[f] = Iota(sent[f])
      BY DEF KeptInv, Iota
    <2>1. ~Has(e, f)' /\ \A s \in Slots \ {e} : (Has(s, f)' <=> Has(s, f)) /\ piob'[s].buf = piob[s].buf
      BY <1>1, <1>2, <1>3 DEF Has
    <2>2. \A s \in Slots : Has(s, f) => disk[f] \o piob[s].buf = Iota(sent[f])
      BY <1>0 DEF KeptInv
    <2>3. ASSUME \A s \in Slots : ~Has(s, f)' PROVE disk[f] = Iota(sent[f])
      <3>1. CASE Has(e, f)
        <4>1. piob[e].buf = << >>
          BY <3>1 DEF Has, Flushed
        <4>2. disk[f] \o piob[e].buf = Iota(sent[f])
          BY <2>2, <3>1
        <4>3. disk[f] \o << >> = disk[f]
          BY <1>0, Empties DEF TableTypes
        <4> QED
          BY <4>1, <4>2, <4>3
      <3>2. CASE ~Has(e, f)
        <4>1. \A s \in Slots : ~Has(s, f)
          BY <2>1, <2>3, <3>2
        <4> QED
          BY <1>0, <4>1 DEF KeptInv
      <3> QED
        BY <3>1, <3>2
    <2>4. ASSUME NEW s \in Slots, Has(s, f)' PROVE disk[f] \o piob'[s].buf = Iota(sent[f])
      <3>1. s # e /\ Has(s, f) /\ piob'[s].buf = piob[s].buf
        BY <2>1, <2>4
      <3>2. disk[f] \o piob[s].buf = Iota(sent[f])
        BY <2>2, <3>1
      <3> QED
        BY <3>1, <3>2
    <2> QED
      BY <2>3, <2>4
  <1>9. \A u \in Threads \ {t} : ThreadInv(u)' /\ ExitInv(u)'
    BY <1>2, <1>3, OthersKept
  <1> QED
    BY <1>4, <1>5, <1>6, <1>7, <1>8, <1>9 DEF Table

\* A step that moves t and leaves the other threads where they are.
LEMMA MoveFrame ==
  ASSUME Control, Table, NEW t \in Threads, NEW q, NEW a, NEW o, Move(t, q, a),
         op' = [op EXCEPT ![t] = o] \/ (op' = op /\ o = op[t]), left' = left,
         op[t] # "none" \/ stage = "up"
  PROVE  /\ Frame(t) /\ pc'[t] = q /\ at'[t] = a /\ op'[t] = o
         /\ left' \in [Threads -> Nat] /\ left'[t] = left[t]
  BY DEF Frame, Move, Control, ControlTypes, Table, TableTypes

LEMMA CallTable ==
  ASSUME Control, Control', Table, NEW t \in Threads,
         (\E o \in StreamOps, s \in Slots : Call(t, o, s)) \/ Fopen(t) \/ FlushAll(t) \/ Exit(t)
  PROVE  Table'
  <1>0. op[t] = "none" /\ stage = "up" /\ pc[t] \notin Closes
    <2>1. op[t] = "none" /\ stage = "up"
      BY DEF Call, Fopen, FlushAll, Exit, Start
    <2> QED
      BY <2>1 DEF Control, StepInv, Closes
  <1>1. ASSUME NEW o \in StreamOps, NEW s \in Slots, Call(t, o, s) PROVE Table'
    <2>1. /\ pc'[t] = "wait" /\ at'[t] = s /\ op'[t] = o
          /\ \A u \in Threads \ {t} : pc'[u] = pc[u] /\ op'[u] = op[u] /\ at'[u] = at[u]
      BY <1>1 DEF Call, Start, Move, Control, ControlTypes
    <2>2. PICK n \in 1..MaxBytes : left' = [left EXCEPT ![t] = IF o = "fwrite" THEN n ELSE 0]
      BY <1>1 DEF Call
    <2>3. left \in [Threads -> Nat]
      BY DEF Table, TableTypes
    <2>4. left' \in [Threads -> Nat] /\ (o = "fwrite" => left'[t] > 0)
      BY <2>2, <2>3
    <2>5. Frame(t)
      BY <1>0, <2>1, <2>2, <2>3 DEF Frame
    <2>6. UNCHANGED <<piob, files, opened, users, stage, disk, sent, err>>
      BY <1>1 DEF Call, table, lowio
    <2>7. There(s)' /\ (o # "freopen" => piob'[s].file # NoFile)
      <3>1. s \in users /\ UserInv
        BY <1>1 DEF Call, Table
      <3>2. There(s) /\ (o # "freopen" => piob[s].file # NoFile)
        BY <1>0, <1>1, <3>1 DEF Call, UserInv
      <3> QED
        BY <2>6, <3>2 DEF There
    <2>8. ThreadInv(t)' /\ ExitInv(t)'
      BY <2>1, <2>4, <2>7 DEF ThreadInv, ExitInv, StreamOps
    <2> QED
      BY <1>0, <2>4, <2>5, <2>6, <2>8, TableKept
  <1>2. CASE Fopen(t) \/ FlushAll(t) \/ Exit(t)
    <2>1. PICK o \in Walks, a \in 0..1 : Start(t, o, "index", a) /\ (o = "exit" => a = 0)
      BY <1>2 DEF Fopen, FlushAll, Exit, Walks
    <2>2. /\ UNCHANGED <<piob, files, opened, users, disk, sent, err, left>>
          /\ stage' = stage \/ stage' = "exit"
      BY <1>2 DEF Fopen, FlushAll, Exit, table, lowio
    <2>3. Move(t, "index", a) /\ op' = [op EXCEPT ![t] = o]
      BY <2>1 DEF Start
    <2>4. Frame(t) /\ pc'[t] = "index" /\ op'[t] = o /\ at'[t] = a /\ left' \in [Threads -> Nat]
      BY <1>0, <2>2, <2>3, MoveFrame
    <2>5. ThreadInv(t)' /\ ExitInv(t)'
      BY <2>1, <2>4 DEF ThreadInv, ExitInv, Held, StreamOps, Walks
    <2> QED
      BY <1>0, <2>2, <2>4, <2>5, TableKept
  <1> QED
    BY <1>1, <1>2

\* The steps of a call that only take or release a lock.
LEMMA LockTable ==
  ASSUME Control, Control', Table, NEW t \in Threads,
         \/ LockFile(t) \/ UnlockFile(t) \/ LockIndex(t) \/ FopenFails(t)
         \/ (OpenFileFails(t) /\ op[t] = "fopen")
  PROVE  Table'
  <1>0. ThreadInv(t) /\ StepInv(t) /\ ExitInv(t) /\ TableTypes
    BY DEF Control, Table
  <1>1. UNCHANGED <<piob, files, opened, users, stage, disk, sent, err, left>>
    BY DEF LockFile, UnlockFile, LockIndex, FopenFails, OpenFileFails, table, lowio
  <1>2. op[t] # "none"
    BY <1>0 DEF LockFile, UnlockFile, LockIndex, FopenFails, OpenFileFails, StepInv, StreamOps
  <1> USE DEF Goto, Return
  <1>3. CASE LockFile(t)
    <2>1. /\ pc[t] = "wait" /\ op[t] \in StreamOps /\ pc[t] \notin Closes
          /\ Move(t, "body", at[t]) /\ op' = op
      BY <1>3 DEF LockFile, Closes
    <2>2. /\ Frame(t) /\ pc'[t] = "body" /\ op'[t] = op[t] /\ at'[t] = at[t] /\ left' \in [Threads -> Nat]
          /\ left'[t] = left[t]
      BY <1>1, <1>2, <2>1, MoveFrame
    <2>3. ThreadInv(t)' /\ ExitInv(t)'
      BY <1>0, <1>1, <2>1, <2>2 DEF ThreadInv, ExitInv, Held, StreamOps, There
    <2> QED
      BY <1>1, <2>1, <2>2, <2>3, TableKept
  <1>4. CASE UnlockFile(t) \/ FopenFails(t)
    <2>1. pc[t] \notin Closes /\ Move(t, "idle", 0) /\ op' = [op EXCEPT ![t] = "none"]
      BY <1>4 DEF UnlockFile, FopenFails, Closes
    <2>2. Frame(t) /\ pc'[t] = "idle" /\ op'[t] = "none" /\ left' \in [Threads -> Nat]
      BY <1>1, <1>2, <2>1, MoveFrame
    <2>3. ThreadInv(t)' /\ ExitInv(t)'
      BY <2>2 DEF ThreadInv, ExitInv, Held, StreamOps
    <2> QED
      BY <1>1, <2>1, <2>2, <2>3, TableKept
  <1>5. CASE LockIndex(t)
    <2>1. /\ pc[t] = "index" /\ op[t] \in Walks /\ pc[t] \notin Closes /\ Move(t, "scan", at[t]) /\ op' = op
      BY <1>0, <1>5 DEF LockIndex, StepInv, Closes
    <2>2. /\ Frame(t) /\ pc'[t] = "scan" /\ op'[t] = op[t] /\ at'[t] = at[t] /\ left' \in [Threads -> Nat]
      BY <1>1, <1>2, <2>1, MoveFrame
    <2>3. ThreadInv(t)'
      BY <2>1, <2>2 DEF ThreadInv, Held, StreamOps, Walks
    <2>4. ExitInv(t)'
      BY <1>0, <1>1, <2>1, <2>2 DEF ExitInv, Flushed, There
    <2> QED
      BY <1>1, <2>1, <2>2, <2>3, <2>4, TableKept
  <1>6. CASE OpenFileFails(t) /\ op[t] = "fopen"
    <2>1. pc[t] = "open" /\ op[t] = "fopen" /\ Move(t, "free", at[t]) /\ op' = op
      BY <1>6 DEF OpenFileFails
    <2>2. /\ Frame(t) /\ pc'[t] = "free" /\ op'[t] = "fopen" /\ at'[t] = at[t] /\ left' \in [Threads -> Nat]
      BY <1>1, <1>2, <2>1, MoveFrame
    <2>3. There(at[t]) /\ piob[at[t]].file = NoFile /\ at[t] \notin users
      BY <1>0, <2>1 DEF ThreadInv, Held
    <2>4. NoFile \notin files
      BY <1>0 DEF TableTypes
    <2>5. ThreadInv(t)' /\ ExitInv(t)'
      BY <1>1, <2>2, <2>3, <2>4 DEF ThreadInv, ExitInv, Flushed, There, StreamOps
    <2> QED
      BY <1>1, <2>1, <2>2, <2>5, TableKept DEF Closes
  <1> QED
    BY <1>3, <1>4, <1>5, <1>6

\* A stream that is not in use, or cannot be flushed, has nothing in its buffer.
LEMMA NothingToFlush ==
  ASSUME Table, NEW s \in Slots, ~There(s) \/ ~InUse(piob[s]) \/ ~Flushable(piob[s])
  PROVE  Flushed(s)
  BY DEF Table, TableTypes, SlotInv, Fine, Flushed

\* A walk over __piob that leaves the streams as they are.
LEMMA ScanTable ==
  ASSUME Control, Control', Table, NEW t \in Threads,
         \/ FopenScan(t) \/ FlushScan(t) \/ FlushedAll(t)
         \/ (FopenEnter(t) /\ InUse(piob[at[t]]))
         \/ (FlushStream(t) /\ ~(InUse(piob[at[t]]) /\ Flushable(piob[at[t]])))
  PROVE  Table'
  <1>0. ThreadInv(t) /\ StepInv(t) /\ ExitInv(t) /\ at[t] \in 0..NStream
    BY DEF Control, ControlTypes, Table
  <1>1. UNCHANGED <<piob, files, opened, users, stage, disk, sent, err, left>>
    BY DEF FopenScan, FlushScan, FlushedAll, FopenEnter, FlushStream, NextSlot, table, lowio
  <1>2. op[t] \in Walks /\ op[t] # "none" /\ pc[t] \in {"scan", "wait"} /\ pc[t] \notin Closes
    BY DEF FopenScan, FlushScan, FlushedAll, FopenEnter, FlushStream, Walks, Closes
  <1>3. \A s \in Slots : Flushed(s)' <=> Flushed(s)
    BY <1>1 DEF Flushed, There
  <1>4. ASSUME Move(t, "scan", at[t] + 1), op' = op, op[t] = "exit" => Flushed(at[t]) PROVE Table'
    <2>1. /\ Frame(t) /\ pc'[t] = "scan" /\ op'[t] = op[t] /\ at'[t] = at[t] + 1
          /\ left' \in [Threads -> Nat]
      BY <1>1, <1>2, <1>4, MoveFrame
    <2>2. ThreadInv(t)'
      BY <1>2, <2>1 DEF ThreadInv, Held, StreamOps, Walks
    <2>3. op[t] = "exit" => \A s \in Slots : s < at[t] + 1 => Flushed(s)
      <3>1. op[t] = "exit" => \A s \in Slots : s < at[t] => Flushed(s)
        BY <1>0, <1>2 DEF ExitInv
      <3>2. \A s \in Slots : s < at[t] + 1 => s < at[t] \/ s = at[t]
        BY <1>0
      <3> QED
        BY <1>4, <3>1, <3>2
    <2>4. ExitInv(t)'
      BY <1>3, <2>1, <2>3 DEF ExitInv
    <2> QED
      BY <1>1, <1>2, <2>1, <2>2, <2>4, TableKept
  <1>5. ASSUME Move(t, "wait", at[t]), op' = op, There(at[t]) PROVE Table'
    <2>1. /\ Frame(t) /\ pc'[t] = "wait" /\ op'[t] = op[t] /\ at'[t] = at[t]
          /\ left' \in [Threads -> Nat]
      BY <1>1, <1>2, <1>5, MoveFrame
    <2>2. ThreadInv(t)'
      BY <1>1, <1>2, <1>5, <2>1 DEF ThreadInv, StreamOps, Walks, There
    <2>3. ExitInv(t)'
      BY <1>0, <1>2, <1>3, <2>1 DEF ExitInv
    <2> QED
      BY <1>1, <1>2, <2>1, <2>2, <2>3, TableKept
  <1>6. CASE FopenScan(t) \/ (FopenEnter(t) /\ InUse(piob[at[t]]))
    <2>1. op[t] = "fopen"
      BY <1>6 DEF FopenScan, FopenEnter
    <2>2. CASE NextSlot(t)
      BY <1>4, <2>1, <2>2 DEF NextSlot
    <2>3. CASE Goto(t, "wait") /\ piob[at[t]] # NoStream
      BY <1>5, <2>3 DEF Goto, There
    <2> QED
      BY <1>6, <2>2, <2>3 DEF FopenScan, FopenEnter
  <1>7. CASE FlushScan(t)
    <2>1. at[t] \in Slots
      BY <1>0, <1>7 DEF FlushScan
    <2>2. CASE There(at[t]) /\ InUse(piob[at[t]]) /\ Flushable(piob[at[t]])
      <3>1. Move(t, "wait", at[t]) /\ op' = op
        BY <1>7, <2>2 DEF FlushScan, Goto, There
      <3> QED
        BY <1>5, <2>2, <3>1
    <2>3. CASE ~(There(at[t]) /\ InUse(piob[at[t]]) /\ Flushable(piob[at[t]]))
      <3>1. Move(t, "scan", at[t] + 1) /\ op' = op
        BY <1>7, <2>3 DEF FlushScan, NextSlot, There
      <3>2. Flushed(at[t])
        BY <2>1, <2>3, NothingToFlush
      <3> QED
        BY <1>4, <3>1, <3>2
    <2> QED
      BY <2>2, <2>3
  <1>8. CASE FlushStream(t) /\ ~(InUse(piob[at[t]]) /\ Flushable(piob[at[t]]))
    <2>1. at[t] \in Slots /\ Move(t, "scan", at[t] + 1) /\ op' = op
      BY <1>0, <1>8 DEF FlushStream, NextSlot, StepInv
    <2>2. Flushed(at[t])
      BY <1>8, <2>1, NothingToFlush
    <2> QED
      BY <1>4, <2>1, <2>2
  <1>9. CASE FlushedAll(t)
    <2>1. pc[t] = "scan" /\ at[t] = NStream
      BY <1>9 DEF FlushedAll
    <2>2. CASE op[t] = "exit"
      <3>1. Move(t, "close", 1) /\ op' = op
        BY <1>9, <2>2 DEF FlushedAll
      <3>2. Frame(t) /\ pc'[t] = "close" /\ op'[t] = op[t] /\ at'[t] = 1 /\ left' \in [Threads -> Nat]
        <4>1. left' = left /\ op[t] # "none"
          BY <1>1, <1>2
        <4>2. PICK a : a = 1 /\ Move(t, "close", a)
          BY <3>1
        <4>3. Frame(t) /\ pc'[t] = "close" /\ op'[t] = op[t] /\ at'[t] = a /\ left' \in [Threads -> Nat]
          BY <3>1, <4>1, <4>2, MoveFrame, ZenonT(60)
        <4> QED
          BY <4>2, <4>3
      <3>3. \A s \in Slots : Flushed(s)
        BY <1>0, <2>1, <2>2 DEF ExitInv
      <3>4. ThreadInv(t)'
        BY <2>2, <3>2 DEF ThreadInv, Held, StreamOps
      <3>5. ExitInv(t)'
        BY <1>3, <3>2, <3>3 DEF ExitInv
      <3> QED
        BY <1>1, <1>2, <3>2, <3>4, <3>5, TableKept
    <2>3. CASE op[t] # "exit"
      <3>1. Move(t, "idle", 0) /\ op' = [op EXCEPT ![t] = "none"]
        BY <1>9, <2>3 DEF FlushedAll, Return
      <3>2. Frame(t) /\ pc'[t] = "idle" /\ op'[t] = "none" /\ left' \in [Threads -> Nat]
        BY <1>1, <1>2, <3>1, MoveFrame
      <3>3. ThreadInv(t)' /\ ExitInv(t)'
        BY <3>2 DEF ThreadInv, ExitInv, Held, StreamOps
      <3> QED
        BY <1>1, <1>2, <3>2, <3>3, TableKept
    <2> QED
      BY <2>2, <2>3
  <1> QED
    BY <1>6, <1>7, <1>8, <1>9

\* fflush(NULL) and the terminator flush a stream that nobody has locked.
LEMMA FlushStreamTable ==
  ASSUME Control, Control', Table, NEW t \in Threads, FlushStream(t),
         InUse(piob[at[t]]) /\ Flushable(piob[at[t]])
  PROVE  Table'
  <1> DEFINE s == piob[at[t]]
  <1>0. ThreadInv(t) /\ StepInv(t) /\ ExitInv(t) /\ TableTypes
    BY DEF Control, Table
  <1>1. /\ pc[t] = "wait" /\ op[t] \in {"flushall", "exit"} /\ lock[at[t]] = NoThread
        /\ Move(t, "scan", at[t] + 1) /\ op' = op
        /\ UNCHANGED <<files, opened, users, stage, left>>
    BY DEF FlushStream, NextSlot, table, lowio
  <1>2. at[t] \in Slots /\ There(at[t]) /\ Fine(s) /\ s.file \in 0..MaxFiles
    <2>1. at[t] \in Slots /\ There(at[t])
      BY <1>0, <1>1 DEF StepInv, ThreadInv
    <2> QED
      BY <1>0, <2>1, FlagFacts DEF TableTypes, Fine
  <1>3. PICK r \in Flush(s) : Apply(t, r, r.ok, 0)
    BY DEF FlushStream
  <1>4. Keeps(s, r, << >>) /\ r.stream.buf = << >>
    BY <1>2, FlushKeeps
  <1>5. s.file \in Files => << >> = [i \in 1..0 |-> sent[s.file] + i]
    BY <1>0, FewBytes DEF TableTypes
  <1>6. Rewrites(at[t], r.stream)
    BY <1>2, <1>3, <1>4, <1>5, ApplyRewrites DEF Keeps
  <1>7. /\ Frame(t) /\ pc'[t] = "scan" /\ op'[t] = op[t] /\ at'[t] = at[t] + 1 /\ left' \in [Threads -> Nat]
    BY <1>1, MoveFrame
  <1>8. ThreadInv(t)'
    BY <1>1, <1>7 DEF ThreadInv, Held, StreamOps
  <1>9. ExitInv(t)'
    <2>1. /\ piob'[at[t]] = r.stream /\ \A i \in Slots \ {at[t]} : piob'[i] = piob[i]
      BY <1>0, <1>2, <1>6 DEF Rewrites, TableTypes
    <2>2. op[t] = "exit" => \A i \in Slots : i < at[t] => Flushed(i)
      BY <1>0, <1>1 DEF ExitInv
    <2>3. ASSUME op[t] = "exit", NEW i \in Slots, i < at[t] + 1 PROVE Flushed(i)'
      <3>1. CASE i = at[t]
        BY <1>4, <2>1, <3>1 DEF Flushed
      <3>2. CASE i < at[t]
        BY <2>1, <2>2, <2>3, <3>2 DEF Flushed, There
      <3>3. i = at[t] \/ i < at[t]
        BY <1>2, <2>3
      <3> QED
        BY <3>1, <3>2, <3>3
    <2> QED
      BY <1>7, <2>3 DEF ExitInv
  <1> QED
    BY <1>1, <1>2, <1>6, <1>7, <1>8, <1>9, RewriteTable DEF Closes

\* A slot without a stream is locked by nobody.
LEMMA NoStreamNoLock ==
  ASSUME Control, Table
  PROVE  \A s \in Slots : piob[s] = NoStream => lock[s] = NoThread
  <1> SUFFICES ASSUME NEW s \in Slots, lock[s] # NoThread PROVE There(s)
    BY DEF There
  <1>1. PICK t \in Threads : lock[s] = t
    BY DEF Control, ControlTypes
  <1>2. at[t] = s /\ pc[t] \in Held
    BY <1>1 DEF Control, LockInv
  <1> QED
    BY <1>2 DEF Table, ThreadInv

\* The thread t at a step that holds the lock of a stream.
LEMMA AtHeld ==
  ASSUME Control, Table, NEW t \in Threads, pc[t] \in Held
  PROVE  /\ at[t] \in Slots /\ There(at[t]) /\ lock[at[t]] = t /\ op[t] # "none"
         /\ StepInv(t) /\ ThreadInv(t) /\ NoFile \notin files
  <1>1. StepInv(t) /\ LockInv(t) /\ ThreadInv(t) /\ TableTypes
    BY DEF Control, Table
  <1>2. NoFile \notin files
    BY <1>1 DEF TableTypes
  <1>3. op[t] # "none"
    BY <1>1 DEF StepInv, Held
  <1> QED
    BY <1>1, <1>2, <1>3 DEF StepInv, LockInv, ThreadInv

LEMMA FcloseTable ==
  ASSUME Control, Control', Table, NEW t \in Threads, Fclose(t)
  PROVE  Table'
  <1> DEFINE s == piob[at[t]]
  <1>0. /\ pc[t] = "body" /\ op[t] \in {"fclose", "freopen"} /\ Move(t, "free", at[t]) /\ op' = op
        /\ UNCHANGED <<opened, users, stage, left>> /\ files' = files \ {s.file}
    BY DEF Fclose, Goto, table
  <1>1. /\ at[t] \in Slots /\ There(at[t]) /\ lock[at[t]] = t /\ NoFile \notin files /\ Fine(s)
        /\ s.file \in 0..MaxFiles /\ pc[t] \notin Closes /\ op[t] # "none"
    BY <1>0, AtHeld, InBody DEF Held, Closes
  <1>2. /\ Frame(t) /\ pc'[t] = "free" /\ op'[t] = op[t] /\ at'[t] = at[t] /\ left' \in [Threads -> Nat]
    <2>1. left' = left /\ op[t] # "none" /\ Move(t, "free", at[t]) /\ op' = op
      BY <1>0, <1>1
    <2> QED
      BY <2>1, MoveFrame
  <1>3. ExitInv(t)'
    BY <1>0, <1>2 DEF ExitInv
  <1>4. ASSUME piob'[at[t]] # NoStream, piob'[at[t]].file \notin files', piob'[at[t]].buf = << >> \/ piob'[at[t]].file = NoFile
        PROVE  ThreadInv(t)'
    BY <1>0, <1>2, <1>4 DEF ThreadInv, There, Flushed, StreamOps
  <1>5. CASE s.file = NoFile
    <2>1. UNCHANGED <<piob, disk, sent, err>> /\ files' = files
      BY <1>0, <1>1, <1>5 DEF Fclose
    <2>2. ThreadInv(t)'
      BY <1>1, <1>4, <1>5, <2>1 DEF There
    <2> QED
      BY <1>0, <1>1, <1>2, <1>3, <2>1, <2>2, TableKept DEF Closes
  <1>6. CASE s.file # NoFile
    <2>1. PICK r \in Flush(s) : Apply(t, [r EXCEPT !.stream = FreeBuffer(@)], r.ok, 0)
      BY <1>6 DEF Fclose
    <2> DEFINE q == [r EXCEPT !.stream = FreeBuffer(@)]
    <2>2. q.stream = FreeBuffer(r.stream) /\ q.put = r.put /\ Apply(t, q, r.ok, 0)
      BY <2>1, FlushDomain
    <2> HIDE DEF q
    <2>3. /\ Keeps(s, r, << >>) /\ r.stream.buf = << >> /\ r.stream.cnt = 0
      BY <1>1, FlushKeeps
    <2>4. /\ Fine(q.stream) /\ Same(r.stream, q.stream) /\ q.stream.buf = << >>
          /\ q.stream.flags = r.stream.flags \ {"crt"}
      BY <2>2, <2>3, FreeBufferKeeps DEF Keeps
    <2>5. Same(s, q.stream) /\ q.put \in Seq(Nat)
      BY <2>2, <2>3, <2>4 DEF Keeps, Same
    <2>6. r.ok /\ "error" \notin q.stream.flags => q.put \o q.stream.buf = s.buf \o << >>
      BY <2>2, <2>3, <2>4 DEF Keeps
    <2>7. << >> = [i \in 1..0 |-> sent[s.file] + i]
      BY <1>1, <1>6, FewBytes DEF Table, TableTypes
    <2>8. Rewrites(at[t], q.stream)
      BY <1>1, <2>2, <2>4, <2>5, <2>6, <2>7, ApplyRewrites
    <2>9. piob'[at[t]] = q.stream /\ q.stream # NoStream /\ q.stream.file = s.file
      BY <1>1, <2>4, <2>5, <2>8, StdioAssumption DEF Rewrites, Same, Fine, Table, TableTypes
    <2>10. ThreadInv(t)'
      BY <1>0, <1>4, <2>4, <2>9
    <2> QED
      BY <1>0, <1>1, <1>2, <1>3, <2>8, <2>10, RewriteTable DEF Closes
  <1> QED
    BY <1>5, <1>6

\* The steps that clear the stream whose lock t holds.
LEMMA FreeTable ==
  ASSUME Control, Control', Table, NEW t \in Threads,
         FreeStream(t) \/ Claim(t) \/ (OpenFileFails(t) /\ op[t] # "fopen")
  PROVE  Table'
  <1>0. pc[t] \in Held /\ UNCHANGED <<files, opened, stage, disk, sent, err, left>>
    BY DEF FreeStream, Claim, OpenFileFails, Held, table, lowio
  <1>1. PICK e \in Slots : e = at[t] /\ There(e) /\ lock[e] = t
    BY <1>0, AtHeld
  <1>b. op[t] # "none" /\ StepInv(t) /\ ThreadInv(t) /\ NoFile \notin files
    BY <1>0, AtHeld
  <1>2. TableTypes
    BY DEF Table
  <1>3. ASSUME NEW fl \in SUBSET {"alloc"}, piob' = [piob EXCEPT ![e] = Stream(fl, NoFile)]
        PROVE  There(e)' /\ piob'[e].file = NoFile
    <2>1. piob'[e] = Stream(fl, NoFile)
      BY <1>1, <1>2, <1>3 DEF TableTypes
    <2>2. fl \in SUBSET {"alloc", "write", "update"} /\ NoFile \in 0..MaxFiles
      OBVIOUS
    <2>3. Stream(fl, NoFile) # NoStream /\ Stream(fl, NoFile).file = NoFile
      BY <2>2, StreamIs
    <2> QED
      BY <2>1, <2>3 DEF There
  <1>a. {} \in SUBSET {"alloc"} /\ {"alloc"} \in SUBSET {"alloc"}
    OBVIOUS
  <1>4. CASE FreeStream(t)
    <2>1. /\ pc[t] = "free" /\ piob' = [piob EXCEPT ![e] = Stream({}, NoFile)]
          /\ users' = IF op[t] = "fclose" THEN users \ {e} ELSE users
          /\ Move(t, IF op[t] = "freopen" THEN "claim" ELSE "unlock", e) /\ op' = op
      BY <1>1, <1>4 DEF FreeStream, Goto
    <2>2. /\ Frame(t) /\ pc'[t] = (IF op[t] = "freopen" THEN "claim" ELSE "unlock")
          /\ op'[t] = op[t] /\ at'[t] = e /\ left' \in [Threads -> Nat]
      BY <1>0, <1>b, <2>1, MoveFrame
    <2>3. There(e)' /\ piob'[e].file = NoFile
      BY <1>3, <1>a, <2>1
    <2>4. /\ op[t] \in {"fclose", "freopen", "fopen"} /\ piob[e].file \notin files /\ Flushed(e)
          /\ op[t] = "fopen" => piob[e].file = NoFile /\ e \notin users
      BY <1>1, <1>b, <2>1 DEF StepInv, ThreadInv
    <2>5. op[t] = "freopen" => Closing(e)'
      BY <2>2 DEF Closing
    <2>6. ThreadInv(t)' /\ ExitInv(t)'
      BY <2>2, <2>3, <2>4 DEF ThreadInv, ExitInv
    <2>7. e \in users' /\ e # 0 => Closing(e)'
      BY <2>1, <2>4, <2>5
    <2>8. There(e) /\ piob[e].file # NoFile => op[t] \in Alone /\ at[t] = e
      BY <1>1, <2>4 DEF Alone
    <2>9. lock[e] \in {t, NoThread} /\ users' \subseteq users /\ (pc[t] \in Closes => at[t] = e)
      BY <1>1, <2>1
    <2> QED
      BY <1>0, <1>1, <1>b, <1>a, <2>1, <2>2, <2>4, <2>6, <2>7, <2>8, <2>9, ClearTable
  <1>5. CASE Claim(t)
    <2>1. /\ pc[t] = "claim" /\ piob' = [piob EXCEPT ![e] = Stream({"alloc"}, NoFile)]
          /\ users' = users /\ Move(t, "open", e) /\ op' = op
      BY <1>1, <1>5 DEF Claim, Goto, table
    <2>2. /\ Frame(t) /\ pc'[t] = "open" /\ op'[t] = op[t] /\ at'[t] = e /\ left' \in [Threads -> Nat]
      BY <1>0, <1>b, <2>1, MoveFrame
    <2>3. There(e)' /\ piob'[e].file = NoFile
      BY <1>3, <1>a, <2>1
    <2>4. op[t] = "freopen" /\ piob[e].file = NoFile /\ piob[e].file \notin files /\ Flushed(e)
      BY <1>1, <1>b, <2>1 DEF StepInv, ThreadInv, Flushed
    <2>5. Closing(e)'
      BY <2>2 DEF Closing
    <2>6. ThreadInv(t)' /\ ExitInv(t)'
      BY <2>2, <2>3, <2>4 DEF ThreadInv, ExitInv
    <2> QED
      BY <1>0, <1>1, <1>b, <2>1, <2>2, <2>4, <2>5, <2>6, ClearTable
  <1>6. CASE OpenFileFails(t) /\ op[t] # "fopen"
    <2>1. /\ pc[t] = "open" /\ piob' = [piob EXCEPT ![e] = Stream({}, NoFile)]
          /\ users' = users \ ({e} \ {0}) /\ Move(t, "idle", 0) /\ op' = [op EXCEPT ![t] = "none"]
      BY <1>1, <1>6 DEF OpenFileFails, Return
    <2>2. /\ Frame(t) /\ pc'[t] = "idle" /\ op'[t] = "none" /\ left' \in [Threads -> Nat]
      BY <1>0, <1>b, <2>1, MoveFrame
    <2>3. piob[e].file = NoFile /\ piob[e].file \notin files /\ Flushed(e)
      BY <1>1, <1>b, <2>1 DEF ThreadInv, Flushed
    <2>4. ThreadInv(t)' /\ ExitInv(t)'
      BY <2>2 DEF ThreadInv, ExitInv, Held, StreamOps
    <2>5. users' \subseteq users /\ (e \in users' /\ e # 0 => Closing(e)')
      BY <2>1
    <2> QED
      BY <1>0, <1>1, <1>b, <1>a, <2>1, <2>2, <2>3, <2>4, <2>5, ClearTable
  <1> QED
    BY <1>4, <1>5, <1>6

\* fopen takes a slot without a stream, or a stream that is not in use and that nobody has locked.
LEMMA AllocatedTable ==
  ASSUME Control, Control', Table, NEW t \in Threads, Allocated(t), op[t] = "fopen", pc[t] \in {"scan", "wait"},
         at[t] \in Slots, lock[at[t]] = NoThread, There(at[t]) => ~InUse(piob[at[t]])
  PROVE  Table'
  <1>0. PICK e \in Slots : e = at[t]
    OBVIOUS
  <1>1. /\ piob' = [piob EXCEPT ![e] = Stream({"alloc"}, NoFile)] /\ Move(t, "open", e) /\ op' = op
        /\ UNCHANGED <<left, stage, users, files, opened, disk, sent, err>> /\ lock[e] = NoThread
    BY <1>0 DEF Allocated, Goto, lowio
  <1>2. /\ TableTypes /\ SlotInv /\ UserInv /\ StepInv(t) /\ AloneInv(t)
        /\ NoFile \notin files /\ stage \in {"up", "exit", "down"}
    <2>1. TableTypes /\ SlotInv /\ UserInv /\ StepInv(t) /\ AloneInv(t) /\ ControlTypes
      BY DEF Table, Control
    <2>2. NoFile \notin files
      BY <2>1 DEF TableTypes
    <2>3. stage \in {"up", "exit", "down"}
      BY <2>1 DEF ControlTypes
    <2> QED
      BY <2>1, <2>2, <2>3
  <1>3. Frame(t) /\ pc'[t] = "open" /\ op'[t] = op[t] /\ at'[t] = e /\ left' \in [Threads -> Nat]
    <2>1. Move(t, "open", e) /\ op' = op /\ left' = left /\ op[t] # "none"
      BY <1>1
    <2> QED
      BY <2>1, MoveFrame
  <1>4. There(e) => piob[e].file = NoFile /\ piob[e].file \notin files /\ Flushed(e)
    BY <1>0, <1>2 DEF SlotInv, Flushed
  <1>5. e \notin users
    <2> SUFFICES ASSUME e \in users PROVE FALSE
      OBVIOUS
    <2>1. stage = "up" /\ e # 0
      BY <1>0, <1>2 DEF AloneInv, StepInv
    <2>2. There(e) /\ (Closing(e) \/ piob[e].file \in files)
      BY <1>2, <2>1 DEF UserInv
    <2>3. PICK u \in Threads : at[u] = e /\ pc[u] \in {"free", "claim", "open"}
      BY <1>4, <2>2 DEF Closing
    <2>4. lock[e] = u
      BY <2>3 DEF Control, LockInv, Held
    <2> QED
      BY <1>1, <2>4
  <1>6. There(e)' /\ piob'[e].file = NoFile
    <2>1. piob'[e] = Stream({"alloc"}, NoFile)
      BY <1>1, <1>2 DEF TableTypes
    <2>2. {"alloc"} \in SUBSET {"alloc", "write", "update"} /\ NoFile \in 0..MaxFiles
      OBVIOUS
    <2>3. Stream({"alloc"}, NoFile) # NoStream /\ Stream({"alloc"}, NoFile).file = NoFile
      BY <2>2, StreamIs
    <2> QED
      BY <2>1, <2>3 DEF There
  <1>7. ThreadInv(t)' /\ ExitInv(t)'
    BY <1>1, <1>3, <1>5, <1>6 DEF ThreadInv, ExitInv, StreamOps
  <1>8. {"alloc"} \in SUBSET {"alloc"} /\ pc[t] \notin Closes
    BY DEF Closes
  <1> QED
    BY <1>1, <1>3, <1>4, <1>5, <1>7, <1>8, ClearTable

LEMMA OpenFileTable ==
  ASSUME Control, Control', Table, NEW t \in Threads, NEW mode \in {"w", "w+", "a"}, OpenFile(t, mode)
  PROVE  Table'
  <1> DEFINE fl == {"alloc", IF mode = "w+" THEN "update" ELSE "write"}
  <1>0. pc[t] = "open" /\ pc[t] \in Held
    BY DEF OpenFile, Held
  <1>1. PICK e \in Slots : e = at[t] /\ There(e) /\ lock[e] = t
    BY <1>0, AtHeld
  <1>2. /\ op[t] \in {"freopen", "fopen"} /\ piob[e].file = NoFile /\ NoFile \notin files /\ op[t] # "none"
    BY <1>0, <1>1, AtHeld DEF StepInv, ThreadInv
  <1>3. PICK f : f = opened + 1
    OBVIOUS
  <1>4. PICK x : x = Stream(fl, f)
    OBVIOUS
  <1>5. /\ opened' = f /\ files' = files \cup {f} /\ piob' = [piob EXCEPT ![e] = x] /\ users' = users \cup {e}
        /\ Move(t, "idle", 0) /\ op' = [op EXCEPT ![t] = "none"] /\ UNCHANGED <<left, stage, disk, sent, err>>
    BY <1>1, <1>3, <1>4 DEF OpenFile, Return
  <1>6. f \in Files /\ f \in Nat /\ opened \in Nat
    <2>1. Cardinality(Openers) \in Nat /\ Cardinality(Openers) > 0
      <3>1. t \in Openers /\ "none" \in Ops /\ ControlTypes
        BY <1>2 DEF Openers, Ops, Control
      <3> QED
        BY <1>5, <3>1, OpenersChange
    <2>2. OpenInv
      BY DEF Control
    <2> QED
      BY <1>3, <2>1, <2>2, StdioAssumption DEF OpenInv
  <1>7. /\ Fine(x) /\ x # NoStream /\ x.file = f /\ x.buf = << >> /\ x \in Streams /\ InUse(x)
    <2>1. fl \in SUBSET {"alloc", "write", "update"} /\ f \in 0..MaxFiles
      BY <1>6
    <2> HIDE DEF fl
    <2>2. Fine(x) /\ x # NoStream /\ x.flags = fl /\ x.file = f /\ x.buf = << >>
      BY <1>4, <2>1, StreamIs
    <2> QED
      BY <2>2 DEF fl, InUse, Fine
  <1> HIDE DEF fl
  <1>8. TableTypes /\ SlotInv /\ FileInv /\ UserInv /\ KeptInv /\ users \subseteq Slots
    BY DEF Table, Control, ControlTypes
  <1>9. piob'[e] = x /\ \A s \in Slots \ {e} : piob'[s] = piob[s]
    BY <1>5, <1>8 DEF TableTypes
  <1>10. There(e)' /\ \A s \in Slots \ {e} : There(s)' <=> There(s)
    BY <1>7, <1>9 DEF There
  <1>11. Frame(t) /\ pc'[t] = "idle" /\ op'[t] = "none" /\ left' \in [Threads -> Nat]
    <2>1. Move(t, "idle", 0) /\ op' = [op EXCEPT ![t] = "none"] /\ left' = left /\ op[t] # "none"
      BY <1>2, <1>5
    <2> QED
      BY <2>1, MoveFrame
  <1>12. \A s \in Slots : There(s) => piob[s].file <= opened /\ piob[s].file # f /\ piob[s].file \in Nat
    <2> SUFFICES ASSUME NEW s \in Slots, There(s)
                 PROVE  piob[s].file <= opened /\ piob[s].file # f /\ piob[s].file \in Nat
      OBVIOUS
    <2>1. piob[s] \in Streams /\ piob[s].file <= opened
      BY <1>8 DEF SlotInv, TableTypes, Fine
    <2>2. piob[s].file \in Nat
      BY <2>1, FlagFacts
    <2> QED
      BY <1>3, <1>6, <2>1, <2>2
  <1>13. TableTypes'
    <2>1. piob' \in [Slots -> Streams \cup {NoStream}]
      BY <1>5, <1>7, <1>8 DEF TableTypes
    <2>2. \A s \in Slots : There(s)' => Fine(piob'[s])
      BY <1>7, <1>8, <1>9, <1>10 DEF TableTypes
    <2>3. files' \subseteq 1..opened'
      BY <1>3, <1>5, <1>6, <1>8 DEF TableTypes
    <2> QED
      BY <1>5, <1>8, <2>1, <2>2, <2>3 DEF TableTypes
  <1>14. SlotInv'
    <2>1. \A s \in Slots : There(s)' => piob'[s].file <= opened'
      BY <1>3, <1>5, <1>6, <1>7, <1>9, <1>10, <1>12
    <2>2. \A s \in Slots : There(s)' => (piob'[s].file # NoFile => InUse(piob'[s]))
      BY <1>7, <1>8, <1>9, <1>10 DEF SlotInv
    <2>3. \A s, r \in Slots : There(s)' /\ There(r)' /\ piob'[r].file = piob'[s].file /\ r # s => piob'[s].file = NoFile
      BY <1>7, <1>8, <1>9, <1>10, <1>12 DEF SlotInv
    <2> QED
      BY <2>1, <2>2, <2>3 DEF SlotInv
  <1>15. FileInv'
    <2>1. stage # "down"
      BY <1>2 DEF Control, AloneInv
    <2>2. Has(e, f)'
      BY <1>7, <1>9, <1>10 DEF Has
    <2>3. ASSUME NEW g \in files PROVE \E s \in Slots : Has(s, g)'
      <3>1. PICK s \in Slots : Has(s, g)
        BY <1>8, <2>1 DEF FileInv
      <3>2. s # e
        BY <1>2, <3>1 DEF Has
      <3> QED
        BY <1>9, <1>10, <3>1, <3>2 DEF Has
    <2> QED
      BY <1>5, <2>1, <2>2, <2>3 DEF FileInv
  <1>16. UserInv'
    <2> SUFFICES ASSUME stage = "up", NEW s \in users \cup {e}
                 PROVE  There(s)' /\ (s # 0 => Closing(s)' \/ piob'[s].file \in files')
      BY <1>5 DEF UserInv
    <2>1. CASE s = e
      BY <1>5, <1>7, <1>9, <1>10, <2>1
    <2>2. CASE s # e
      <3>1. s \in Slots /\ There(s) /\ (s # 0 => Closing(s) \/ piob[s].file \in files)
        BY <1>8, <2>2 DEF UserInv
      <3>2. Closing(s) => Closing(s)'
        BY <1>1, <1>11, <2>2, ClosingKept
      <3> QED
        BY <1>5, <1>9, <1>10, <2>2, <3>1, <3>2
    <2> QED
      BY <2>1, <2>2
  <1>17. KeptInv'
    <2> SUFFICES ASSUME NEW g \in Files, err[g] = "no"
                 PROVE  /\ \A s \in Slots : Has(s, g)' => disk[g] \o piob'[s].buf = Iota(sent[g])
                        /\ (\A s \in Slots : ~Has(s, g)') => disk[g] = Iota(sent[g])
      BY <1>5 DEF KeptInv, Iota
    <2>1. CASE g = f
      <3>1. \A s \in Slots : ~Has(s, g)
        BY <1>12, <2>1 DEF Has
      <3>2. disk[g] = Iota(sent[g]) /\ disk[g] \in Seq(Nat)
        BY <1>8, <3>1 DEF KeptInv, TableTypes
      <3>3. disk[g] \o << >> = disk[g]
        BY <3>2, Empties
      <3>4. \A s \in Slots : Has(s, g)' => s = e
        BY <1>9, <1>10, <1>12, <2>1 DEF Has
      <3> QED
        BY <1>7, <1>9, <3>2, <3>3, <3>4
    <2>2. CASE g # f
      <3>1. ~Has(e, g)' /\ ~Has(e, g)
        BY <1>2, <1>7, <1>9, <2>2 DEF Has
      <3>2. \A s \in Slots \ {e} : (Has(s, g)' <=> Has(s, g)) /\ piob'[s].buf = piob[s].buf
        BY <1>9, <1>10 DEF Has
      <3> QED
        BY <1>8, <3>1, <3>2 DEF KeptInv
    <2> QED
      BY <2>1, <2>2
  <1>18. ThreadInv(t)' /\ ExitInv(t)'
    BY <1>11 DEF ThreadInv, ExitInv, Held, StreamOps
  <1>19. \A u \in Threads \ {t} : ThreadInv(u)' /\ ExitInv(u)'
    <2>1. /\ \A g \in files' : g \in files \/ g = opened + 1
          /\ \A s \in users' : s \in users \/ s = e
      BY <1>3, <1>5
    <2> QED
      BY <1>1, <1>2, <1>9, <1>10, <1>11, <2>1, OthersKept
  <1> QED
    BY <1>13, <1>14, <1>15, <1>16, <1>17, <1>18, <1>19 DEF Table

\* The terminator, which is alone, drops the stream of slot e, which has nothing left to write.
LEMMA DropTable ==
  ASSUME Control, Table, NEW t \in Threads, pc[t] = "close", NEW e \in Slots,
         piob' = [piob EXCEPT ![e] = NoStream], files' \subseteq files, UNCHANGED <<opened, sent, left>>,
         disk' \in [Files -> Seq(Nat)], err' \in [Files -> {"no", "told", "ignored"}],
         \A g \in Files : disk'[g] = disk[g] /\ err'[g] = err[g],
         \A u \in Threads \ {t} : pc'[u] = pc[u] /\ op'[u] = op[u]
  PROVE  /\ TableTypes' /\ SlotInv' /\ KeptInv'
         /\ ~There(e)' /\ \A s \in Slots \ {e} : piob'[s] = piob[s]
         /\ \A s \in Slots : Flushed(s)'
         /\ \A u \in Threads \ {t} : ThreadInv(u)' /\ ExitInv(u)'
  <1>0. /\ TableTypes /\ SlotInv /\ KeptInv /\ (\A s \in Slots : Flushed(s)) /\ op[t] = "exit"
        /\ \A u \in Threads \ {t} : op[u] = "none" /\ pc[u] = "idle"
    BY DEF Table, ExitInv, Control, StepInv, AloneInv
  <1>1. piob'[e] = NoStream /\ \A s \in Slots \ {e} : piob'[s] = piob[s]
    BY <1>0 DEF TableTypes
  <1>2. ~There(e)' /\ \A s \in Slots \ {e} : There(s)' <=> There(s)
    BY <1>1 DEF There
  <1>3. TableTypes'
    <2>1. piob' \in [Slots -> Streams \cup {NoStream}]
      BY <1>0 DEF TableTypes
    <2>2. \A s \in Slots : There(s)' => Fine(piob'[s])
      BY <1>0, <1>1, <1>2 DEF TableTypes
    <2> QED
      BY <1>0, <2>1, <2>2 DEF TableTypes
  <1>4. SlotInv'
    BY <1>0, <1>1, <1>2 DEF SlotInv
  <1>5. \A s \in Slots : Flushed(s)'
    BY <1>0, <1>1, <1>2 DEF Flushed
  <1>6. KeptInv'
    <2> SUFFICES ASSUME NEW g \in Files, err[g] = "no"
                 PROVE  /\ \A s \in Slots : Has(s, g)' => disk[g] \o piob'[s].buf = Iota(sent[g])
                        /\ (\A s \in Slots : ~Has(s, g)') => disk[g] = Iota(sent[g])
      BY DEF KeptInv, Iota
    <2>1. ~Has(e, g)' /\ \A s \in Slots \ {e} : (Has(s, g)' <=> Has(s, g)) /\ piob'[s].buf = piob[s].buf
      BY <1>1, <1>2 DEF Has
    <2>2. \A s \in Slots : Has(s, g) => disk[g] \o piob[s].buf = Iota(sent[g])
      BY <1>0 DEF KeptInv
    <2>3. ASSUME \A s \in Slots : ~Has(s, g)' PROVE disk[g] = Iota(sent[g])
      <3>1. CASE Has(e, g)
        <4>1. piob[e].buf = << >>
          BY <1>0, <3>1 DEF Has, Flushed
        <4>2. disk[g] \o piob[e].buf = Iota(sent[g])
          BY <2>2, <3>1
        <4>3. disk[g] \o << >> = disk[g]
          BY <1>0, Empties DEF TableTypes
        <4> QED
          BY <4>1, <4>2, <4>3
      <3>2. CASE ~Has(e, g)
        <4>1. \A s \in Slots : ~Has(s, g)
          BY <2>1, <2>3, <3>2
        <4> QED
          BY <1>0, <4>1 DEF KeptInv
      <3> QED
        BY <3>1, <3>2
    <2>4. ASSUME NEW s \in Slots, Has(s, g)' PROVE disk[g] \o piob'[s].buf = Iota(sent[g])
      <3>1. s # e /\ Has(s, g) /\ piob'[s].buf = piob[s].buf
        BY <2>1, <2>4
      <3>2. disk[g] \o piob[s].buf = Iota(sent[g])
        BY <2>2, <3>1
      <3> QED
        BY <3>1, <3>2
    <2> QED
      BY <2>3, <2>4
  <1>7. ASSUME NEW u \in Threads \ {t} PROVE ThreadInv(u)' /\ ExitInv(u)'
    <2>1. pc'[u] = "idle" /\ op'[u] = "none"
      BY <1>0
    <2> QED
      BY <2>1 DEF ThreadInv, ExitInv, Held, StreamOps
  <1> QED
    BY <1>1, <1>2, <1>3, <1>4, <1>5, <1>6, <1>7

LEMMA CloseSlotTable ==
  ASSUME Control, Control', Table, NEW t \in Threads, CloseSlot(t)
  PROVE  Table'
  <1>0. /\ TableTypes /\ SlotInv /\ FileInv /\ StepInv(t) /\ AloneInv(t) /\ ExitInv(t) /\ at[t] \in 0..NStream
    BY DEF Table, Control, ControlTypes
  <1>1. PICK e \in Slots : e = at[t]
    BY <1>0 DEF CloseSlot
  <1>2. /\ pc[t] = "close" /\ op[t] = "exit" /\ stage = "exit" /\ e > 0 /\ NoFile \notin files
        /\ \A s \in Slots : Flushed(s) /\ (0 < s /\ s < e => ~There(s))
    <2>1. pc[t] = "close"
      BY DEF CloseSlot
    <2>2. op[t] = "exit" /\ e > 0
      BY <1>0, <1>1, <2>1 DEF StepInv
    <2>3. stage = "exit" /\ NoFile \notin files
      BY <1>0, <2>2 DEF AloneInv, TableTypes
    <2> QED
      BY <1>0, <1>1, <2>1, <2>2, <2>3 DEF ExitInv
  <1>3. /\ piob' = [piob EXCEPT ![e] = NoStream] /\ Move(t, "close", e + 1) /\ op' = op
        /\ UNCHANGED <<left, stage, users, opened, sent>>
    BY <1>1 DEF CloseSlot, table
  <1>4. /\ Frame(t) /\ pc'[t] = "close" /\ op'[t] = op[t] /\ at'[t] = e + 1 /\ left' \in [Threads -> Nat]
    <2>1. Move(t, "close", e + 1) /\ op' = op /\ left' = left /\ op[t] # "none"
      BY <1>2, <1>3
    <2> QED
      BY <2>1, MoveFrame
  <1>5. /\ disk' \in [Files -> Seq(Nat)] /\ err' \in [Files -> {"no", "told", "ignored"}]
        /\ \A g \in Files : disk'[g] = disk[g] /\ err'[g] = err[g]
        /\ There(e) => files' = files \ {piob[e].file}
        /\ ~There(e) => files' = files
    <2>1. CASE There(e) /\ InUse(piob[e])
      <3>1. PICK r \in Flush(piob[e]) :
              /\ disk' = [disk EXCEPT ![piob[e].file] = @ \o r.put]
              /\ err' = [err EXCEPT ![piob[e].file] = IF @ = "no" /\ ~r.ok THEN "ignored" ELSE @]
              /\ files' = files \ {piob[e].file}
        BY <1>1, <2>1 DEF CloseSlot, There
      <3>2. CASE piob[e].file = NoFile
        <4>1. piob[e].file \notin Files
          BY <3>2
        <4>2. disk \in [Files -> Seq(Nat)] /\ err \in [Files -> {"no", "told", "ignored"}]
          BY <1>0 DEF TableTypes
        <4>3. disk' = disk /\ err' = err
          BY <3>1, <4>1, <4>2
        <4> QED
          BY <2>1, <3>1, <4>2, <4>3
      <3>3. CASE piob[e].file # NoFile
        <4>1. piob[e].buf = << >>
          BY <1>2, <2>1, <3>3 DEF Flushed
        <4>2. r.ok /\ r.put = << >>
          BY <4>1 DEF Flush, Result
        <4>3. piob[e].file \in Files
          BY <1>0, <2>1, <3>3, FlagFacts DEF TableTypes, Fine
        <4>4. disk[piob[e].file] \o << >> = disk[piob[e].file]
          BY <1>0, <4>3, Empties DEF TableTypes
        <4>5. disk' = disk /\ err' = err
          BY <1>0, <3>1, <4>2, <4>3, <4>4 DEF TableTypes
        <4> QED
          BY <1>0, <2>1, <3>1, <4>5 DEF TableTypes
      <3> QED
        BY <3>2, <3>3
    <2>2. CASE ~(There(e) /\ InUse(piob[e]))
      <3>1. UNCHANGED <<disk, err, files>>
        BY <1>1, <2>2 DEF CloseSlot, There
      <3>2. There(e) => piob[e].file = NoFile
        BY <1>0, <2>2 DEF SlotInv
      <3>3. There(e) => files' = files \ {piob[e].file}
        BY <1>2, <3>1, <3>2
      <3> QED
        BY <1>0, <3>1, <3>3 DEF TableTypes
    <2> QED
      BY <2>1, <2>2
  <1>6. /\ TableTypes' /\ SlotInv' /\ KeptInv'
        /\ ~There(e)' /\ \A s \in Slots \ {e} : piob'[s] = piob[s]
        /\ \A s \in Slots : Flushed(s)'
        /\ \A u \in Threads \ {t} : ThreadInv(u)' /\ ExitInv(u)'
    <2>1. files' \subseteq files
      BY <1>5
    <2>2. \A u \in Threads \ {t} : pc'[u] = pc[u] /\ op'[u] = op[u]
      BY <1>4 DEF Frame
    <2> QED
      BY <1>2, <1>3, <1>5, <2>1, <2>2, DropTable
  <1>7. FileInv'
    <2>1. ASSUME NEW f \in files' PROVE \E s \in Slots : Has(s, f)'
      <3>1. PICK s \in Slots : Has(s, f)
        BY <1>0, <1>2, <1>5 DEF FileInv
      <3>2. s # e
        BY <1>5, <3>1 DEF Has
      <3>3. Has(s, f)'
        BY <1>6, <3>1, <3>2 DEF Has, There
      <3> QED
        BY <3>3
    <2> QED
      BY <1>2, <1>3, <2>1 DEF FileInv
  <1>8. UserInv'
    BY <1>2, <1>3 DEF UserInv
  <1>9. ThreadInv(t)'
    BY <1>2, <1>4 DEF ThreadInv, Held, StreamOps
  <1>10. ExitInv(t)'
    <2>1. ASSUME NEW s \in Slots, 0 < s, s < e + 1 PROVE ~There(s)'
      <3>1. CASE s = e
        BY <1>6, <3>1
      <3>2. CASE s < e
        BY <1>2, <1>6, <2>1, <3>2 DEF There
      <3>3. s = e \/ s < e
        BY <2>1
      <3> QED
        BY <3>1, <3>2, <3>3
    <2> QED
      BY <1>4, <1>6, <2>1 DEF ExitInv
  <1> QED
    BY <1>6, <1>7, <1>8, <1>9, <1>10 DEF Table

LEMMA DownTable ==
  ASSUME Control, Control', Table, NEW t \in Threads, Down(t)
  PROVE  Table'
  <1>0. FileInv /\ StepInv(t) /\ AloneInv(t) /\ ExitInv(t) /\ TableTypes
    BY DEF Table, Control
  <1>1. /\ pc[t] = "close" /\ at[t] = NStream /\ piob' = [piob EXCEPT ![0] = NoStream]
        /\ stage' = "down" /\ users' = {} /\ Move(t, "idle", 0) /\ op' = [op EXCEPT ![t] = "none"]
        /\ UNCHANGED <<left, files, opened, disk, sent, err>>
    BY DEF Down, Return, lowio
  <1>2. op[t] = "exit" /\ stage = "exit" /\ \A s \in Slots : There(s) => s = 0
    <2>1. op[t] = "exit"
      BY <1>0, <1>1 DEF StepInv
    <2>2. stage = "exit"
      BY <1>0, <2>1 DEF AloneInv
    <2>3. \A s \in Slots : There(s) => s = 0
      BY <1>0, <1>1 DEF ExitInv
    <2> QED
      BY <2>1, <2>2, <2>3
  <1>3. Frame(t) /\ pc'[t] = "idle" /\ op'[t] = "none"
    <2>1. Move(t, "idle", 0) /\ op' = [op EXCEPT ![t] = "none"] /\ left' = left /\ op[t] # "none"
      BY <1>1, <1>2
    <2> QED
      BY <2>1, MoveFrame
  <1>4. /\ TableTypes' /\ SlotInv' /\ KeptInv'
        /\ \A u \in Threads \ {t} : ThreadInv(u)' /\ ExitInv(u)'
    <2>1. \A u \in Threads \ {t} : pc'[u] = pc[u] /\ op'[u] = op[u]
      BY <1>3 DEF Frame
    <2>2. /\ disk' \in [Files -> Seq(Nat)] /\ err' \in [Files -> {"no", "told", "ignored"}]
          /\ \A g \in Files : disk'[g] = disk[g] /\ err'[g] = err[g]
      BY <1>0, <1>1 DEF TableTypes
    <2>3. 0 \in Slots /\ files' \subseteq files
      BY <1>1, StdioAssumption
    <2> QED
      BY <1>1, <2>1, <2>2, <2>3, DropTable
  <1>5. FileInv'
    <2>1. \A f \in files : f = piob[0].file
      BY <1>0, <1>2 DEF FileInv, Has
    <2>2. files \subseteq {piob[0].file}
      BY <2>1
    <2>3. IsFiniteSet({piob[0].file}) /\ Cardinality({piob[0].file}) = 1
      BY FS_Singleton
    <2>4. Cardinality(files) <= 1
      BY <2>2, <2>3, FS_Subset
    <2> QED
      BY <1>1, <2>4 DEF FileInv
  <1>6. UserInv'
    BY <1>1 DEF UserInv
  <1>7. ThreadInv(t)' /\ ExitInv(t)'
    BY <1>3 DEF ThreadInv, ExitInv, Held, StreamOps
  <1> QED
    BY <1>4, <1>5, <1>6, <1>7 DEF Table

LEMMA StepTable ==
  ASSUME Control, Control', Table, NEW t \in Threads, Step(t)
  PROVE  Table'
  <1>1. CASE (\E o \in StreamOps, s \in Slots : Call(t, o, s)) \/ Fopen(t) \/ FlushAll(t) \/ Exit(t)
    BY <1>1, CallTable
  <1>2. CASE LockFile(t) \/ UnlockFile(t) \/ LockIndex(t) \/ FopenFails(t)
    BY <1>2, LockTable
  <1>3. CASE Fputc(t) \/ Fflush(t) \/ Fgetc(t) \/ Setvbuf(t)
    BY <1>3, ByteCallsTable
  <1>4. CASE FwriteCopy(t) \/ FwriteBlocks(t) \/ FwriteChar(t)
    BY <1>4, FwriteTable
  <1>5. CASE Fclose(t)
    BY <1>5, FcloseTable
  <1>6. CASE FreeStream(t) \/ Claim(t)
    BY <1>6, FreeTable
  <1>7. CASE \E mode \in {"w", "w+", "a"} : OpenFile(t, mode)
    BY <1>7, OpenFileTable
  <1>8. CASE OpenFileFails(t)
    BY <1>8, LockTable, FreeTable
  <1>9. CASE FopenScan(t) \/ FlushScan(t) \/ FlushedAll(t)
    BY <1>9, ScanTable
  <1>10. CASE FopenNew(t)
    <2>1. /\ op[t] = "fopen" /\ pc[t] \in {"scan", "wait"} /\ Allocated(t) /\ at[t] < NStream /\ ~There(at[t])
      BY <1>10 DEF FopenNew, There
    <2>2. at[t] \in Slots
      BY <2>1 DEF Control, ControlTypes
    <2>3. lock[at[t]] = NoThread
      BY <2>1, <2>2, NoStreamNoLock DEF There
    <2> QED
      BY <2>1, <2>2, <2>3, AllocatedTable
  <1>11. CASE FopenEnter(t)
    <2>1. CASE InUse(piob[at[t]])
      BY <1>11, <2>1, ScanTable
    <2>2. CASE ~InUse(piob[at[t]])
      <3>1. op[t] = "fopen" /\ pc[t] \in {"scan", "wait"} /\ pc[t] = "wait" /\ Allocated(t) /\ lock[at[t]] = NoThread
        BY <1>11, <2>2 DEF FopenEnter
      <3>2. at[t] \in Slots
        BY <3>1 DEF Control, StepInv
      <3> QED
        BY <2>2, <3>1, <3>2, AllocatedTable
    <2> QED
      BY <2>1, <2>2
  <1>12. CASE FlushStream(t)
    BY <1>12, ScanTable, FlushStreamTable
  <1>13. CASE CloseSlot(t)
    BY <1>13, CloseSlotTable
  <1>14. CASE Down(t)
    BY <1>14, DownTable
  <1> QED
    BY <1>1, <1>2, <1>3, <1>4, <1>5, <1>6, <1>7, <1>8, <1>9, <1>10, <1>11, <1>12, <1>13, <1>14 DEF Step

-----------------------------------------------------------------------------
(* The theorems *)

LEMMA InitInv ==
  ASSUME Init
  PROVE  Control /\ Table
  <1> USE DEF Init
  <1>0. 0 \in Slots /\ NoFile \in 0..MaxFiles
    BY StdioAssumption
  <1>1. Control
    <2>1. ControlTypes
      BY <1>0 DEF ControlTypes, Steps, Held, Ops
    <2>2. OpenInv
      <3>1. Openers = {}
        BY DEF Openers
      <3>2. Cardinality(Openers) = 0
        BY <3>1, FS_EmptySet
      <3> QED
        BY <3>2, StdioAssumption DEF OpenInv
    <2>3. ClientInv
      BY DEF ClientInv, StreamOps
    <2>4. ASSUME NEW t \in Threads PROVE StepInv(t) /\ LockInv(t) /\ AloneInv(t)
      BY StdioAssumption DEF StepInv, LockInv, AloneInv, HoldsIndex, StreamOps, Walks, Held
    <2> QED
      BY <2>1, <2>2, <2>3, <2>4 DEF Control
  <1>2. Table
    <2> DEFINE x == Stream({"alloc", "write"}, NoFile)
    <2>1. Fine(x) /\ x # NoStream /\ x.file = NoFile /\ x.buf = << >> /\ x \in Streams
      <3>1. {"alloc", "write"} \in SUBSET {"alloc", "write", "update"}
        OBVIOUS
      <3> QED
        BY <1>0, <3>1, StreamIs DEF Fine
    <2>2. piob = [s \in Slots |-> IF s = 0 THEN x ELSE NoStream]
      OBVIOUS
    <2> HIDE DEF x
    <2>3. piob[0] = x /\ \A s \in Slots : There(s) <=> s = 0
      BY <1>0, <2>1, <2>2 DEF There
    <2>4. << >> \in Seq(Nat) /\ << >> \o << >> = << >> /\ Iota(0) = << >>
      BY Empties DEF Iota
    <2>5. TableTypes
      <3>1. piob \in [Slots -> Streams \cup {NoStream}]
        BY <2>1, <2>2
      <3>2. \A s \in Slots : There(s) => Fine(piob[s])
        BY <2>1, <2>3
      <3>3. disk \in [Files -> Seq(Nat)]
        BY <2>4
      <3> QED
        BY <3>1, <3>2, <3>3 DEF TableTypes
    <2>6. SlotInv
      BY <2>1, <2>3 DEF SlotInv
    <2>7. FileInv /\ UserInv
      BY <1>0, <2>3 DEF FileInv, UserInv
    <2>8. KeptInv
      <3> SUFFICES ASSUME NEW f \in Files, NEW s \in Slots, Has(s, f) PROVE FALSE
        BY <2>4 DEF KeptInv
      <3>1. There(s) /\ piob[s].file = f /\ f # 0
        BY DEF Has
      <3>2. piob[s] = x
        BY <2>3, <3>1
      <3> QED
        BY <2>1, <3>1, <3>2
    <2>9. ASSUME NEW t \in Threads PROVE ThreadInv(t) /\ ExitInv(t)
      BY DEF ThreadInv, ExitInv, Held, StreamOps
    <2> QED
      BY <2>5, <2>6, <2>7, <2>8, <2>9 DEF Table
  <1> QED
    BY <1>1, <1>2

LEMMA Stutters ==
  ASSUME Control, Table, UNCHANGED vars
  PROVE  Control' /\ Table'
  <1>1. UNCHANGED <<piob, lock, op, pc, at, left, index, stage, users, files, opened, disk, sent, err>>
    BY DEF vars, calls, table, lowio
  <1>2. Control'
    <2>1. ControlTypes' /\ ClientInv' /\ OpenInv'
      BY <1>1 DEF Control, ControlTypes, ClientInv, OpenInv, Openers
    <2>2. ASSUME NEW t \in Threads PROVE StepInv(t)' /\ LockInv(t)' /\ AloneInv(t)'
      BY <1>1 DEF Control, StepInv, LockInv, AloneInv, HoldsIndex
    <2> QED
      BY <2>1, <2>2 DEF Control
  <1>3. Table'
    <2>1. TableTypes' /\ SlotInv' /\ FileInv' /\ KeptInv'
      BY <1>1 DEF Table, TableTypes, SlotInv, FileInv, KeptInv, There, Has
    <2>2. UserInv'
      BY <1>1 DEF Table, UserInv, There, Closing
    <2>3. ASSUME NEW t \in Threads PROVE ThreadInv(t)' /\ ExitInv(t)'
      BY <1>1 DEF Table, ThreadInv, ExitInv, Flushed, There
    <2> QED
      BY <2>1, <2>2, <2>3 DEF Table
  <1> QED
    BY <1>2, <1>3

(***************************************************************************)
(* The two layers are an invariant of the streams: who holds which lock at *)
(* which step, which files belong to which streams, and what the buffers   *)
(* hold.                                                                   *)
(***************************************************************************)
THEOREM StdioInductive == Spec => [](Control /\ Table)
  <1>1. Init => Control /\ Table
    BY InitInv
  <1>2. Control /\ Table /\ [Next]_vars => (Control /\ Table)'
    <2> SUFFICES ASSUME Control, Table, [Next]_vars PROVE Control' /\ Table'
      OBVIOUS
    <2>1. CASE UNCHANGED vars
      BY <2>1, Stutters
    <2>2. CASE Unloaded
      BY <2>2, Stutters DEF Unloaded
    <2>3. ASSUME NEW t \in Threads, Step(t) PROVE Control' /\ Table'
      <3>1. Control'
        BY <2>3, NoStreamNoLock, StepControl
      <3> QED
        BY <2>3, <3>1, StepTable
    <2> QED
      BY <2>1, <2>2, <2>3 DEF Next
  <1> QED
    BY <1>1, <1>2, PTL DEF Spec

(***************************************************************************)
(* A file that is open belongs to one stream that is in use, and a client  *)
(* has only streams of open files: whatever fopen, freopen and fclose of   *)
(* other threads do between the test of _IOALLOCATED and the lock.         *)
(***************************************************************************)
THEOREM FilesOwned == Spec => []FileOwned
  <1>1. Control /\ Table => FileOwned
    <2> SUFFICES ASSUME Control, Table PROVE FileOwned
      OBVIOUS
    <2>0. TableTypes /\ SlotInv /\ FileInv /\ UserInv /\ ControlTypes /\ NoFile \notin files
      <3>1. TableTypes /\ SlotInv /\ FileInv /\ UserInv /\ ControlTypes
        BY DEF Control, Table
      <3> QED
        BY <3>1 DEF TableTypes
    <2>1. CASE stage = "down"
      BY <2>0, <2>1 DEF FileOwned, FileInv
    <2>2. CASE stage # "down"
      <3>1. ASSUME NEW f \in files
            PROVE  Cardinality({s \in Slots : piob[s] # NoStream /\ InUse(piob[s]) /\ piob[s].file = f}) = 1
        <4>1. PICK e \in Slots : There(e) /\ piob[e].file = f
          BY <2>0, <2>2 DEF FileInv, Has
        <4>2. InUse(piob[e]) /\ f # NoFile
          BY <2>0, <4>1 DEF SlotInv
        <4>3. ASSUME NEW s \in Slots, There(s), piob[s].file = f PROVE s = e
          BY <2>0, <4>1, <4>2, <4>3 DEF SlotInv
        <4>4. {s \in Slots : piob[s] # NoStream /\ InUse(piob[s]) /\ piob[s].file = f} = {e}
          BY <4>1, <4>2, <4>3 DEF There
        <4> QED
          BY <4>4, FS_Singleton
      <3>2. ASSUME NEW s \in users \ {0}
            PROVE  Closing(s) \/ stage = "exit" \/ (InUse(piob[s]) /\ piob[s].file \in files)
        <4>1. CASE stage = "exit"
          BY <4>1
        <4>2. CASE stage = "up"
          <5>1. s \in Slots /\ There(s) /\ (Closing(s) \/ piob[s].file \in files)
            BY <2>0, <4>2 DEF UserInv, ControlTypes
          <5>2. piob[s].file \in files => InUse(piob[s])
            BY <2>0, <5>1 DEF SlotInv
          <5> QED
            BY <5>1, <5>2
        <4> QED
          BY <2>0, <2>2, <4>1, <4>2 DEF ControlTypes
      <3> QED
        BY <2>2, <3>1, <3>2 DEF FileOwned
    <2> QED
      BY <2>1, <2>2
  <1> QED
    BY <1>1, StdioInductive, PTL

(***************************************************************************)
(* The bytes a client wrote are on the disk and in the buffer, each once   *)
(* and in order, until a call reported an error: for any size of buffers   *)
(* and of writes, any number of threads on the stream, and whoever         *)
(* flushes, rebuffers, reopens or closes it.                               *)
(***************************************************************************)
THEOREM DataNeverLost == Spec => []DataKept
  <1>1. Control /\ Table => DataKept
    <2> SUFFICES ASSUME Table, NEW f \in Files, err[f] = "no"
                 PROVE  disk[f] \o Pending(f) = Iota(sent[f])
      BY DEF DataKept, Iota
    <2> DEFINE S == {s \in Slots : piob[s] # NoStream /\ piob[s].file = f}
    <2>0. TableTypes /\ KeptInv
      BY DEF Table
    <2>1. CASE S = {}
      <3>1. Pending(f) = << >>
        BY <2>1 DEF Pending
      <3>2. \A s \in Slots : ~Has(s, f)
        BY <2>1 DEF Has, There
      <3>3. disk[f] = Iota(sent[f])
        BY <2>0, <3>2 DEF KeptInv
      <3>4. disk[f] \o << >> = disk[f]
        BY <2>0, Empties DEF TableTypes
      <3> QED
        BY <3>1, <3>3, <3>4
    <2>2. CASE S # {}
      <3>1. PICK e : e = CHOOSE s \in S : TRUE
        OBVIOUS
      <3>2. e \in S
        BY <2>2, <3>1
      <3>3. Pending(f) = piob[e].buf
        BY <2>2, <3>1 DEF Pending
      <3>4. e \in Slots /\ Has(e, f)
        BY <3>2 DEF Has, There
      <3> QED
        BY <2>0, <3>3, <3>4 DEF KeptInv
    <2> QED
      BY <2>1, <2>2
  <1> QED
    BY <1>1, StdioInductive, PTL


=============================================================================
