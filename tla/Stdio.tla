-------------------------------- MODULE Stdio --------------------------------
(***************************************************************************)
(* The streams of stdio: the table __piob with its index lock and a lock   *)
(* for every stream (_file.cpp, stream.cpp), fopen, freopen and fclose,    *)
(* the buffers behind fputc, fwrite and setvbuf (_flsbuf.cpp, _getbuf.cpp, *)
(* _freebuf.cpp), the switch to reading and back (_filbuf.cpp), fflush of  *)
(* one stream and of all, and the terminator that unloading runs.          *)
(*                                                                         *)
(* A step made under the lock of a stream is one action, except where a    *)
(* thread that does not hold the lock can see between: _IOALLOCATED is     *)
(* cleared before the lock is released.  Slot 0 is a standard stream that  *)
(* freopen may redirect to a file; the others are for fopen.  The bytes of *)
(* a file are numbered in the order in which they are written.             *)
(*                                                                         *)
(* The client keeps what C asks of it: no call on a stream that is closed, *)
(* or that another thread closes, reopens, reads or gives another buffer.  *)
(***************************************************************************)
EXTENDS Integers, Sequences, FiniteSets, FiniteSetsExt

CONSTANTS
    Threads, NoThread,
    NStream,    \* _nstream: slots of __piob
    BufSize,    \* _INTERNAL_BUFSIZ
    NoStream,   \* a null entry of __piob
    MaxFiles,   \* bound: files that are opened
    MaxBytes,   \* bound: bytes written
    MaxCalls,   \* bound: calls
    MaxFaults   \* bound: calls of the system and the heap that fail

\* The fields of __crt_stdio_stream that matter: _flags, _file, the bytes
\* between _base and _ptr, _cnt and _bufsiz.
Streams ==
    [flags : SUBSET {"alloc", "read", "write", "update", "crt", "user", "none", "eof", "error"},
     file : 0..MaxFiles, buf : Seq(Nat), cnt : Nat, bufsiz : Nat]

ASSUME StdioAssumption ==
    /\ IsFiniteSet(Threads) /\ NoThread \notin Threads
    /\ NoStream \notin Streams
    /\ NStream \in Nat \ {0}
    /\ BufSize \in Nat /\ BufSize > 2
    /\ MaxFiles \in Nat /\ MaxBytes \in Nat /\ MaxCalls \in Nat /\ MaxFaults \in Nat

Slots == 0..(NStream - 1)
Files == 1..MaxFiles
NoFile == 0     \* -1, and _NO_CONSOLE_FILENO
Stale  == 0     \* a byte that nobody wrote

VARIABLES
    piob,       \* the streams
    lock,       \* who holds _lock of a stream,
    index,      \*   and __acrt_stdio_index_lock
    op, pc, at, \* of a thread: its call, the step and the slot it is at
    left,       \* of fwrite: remaining_bytes
    stage,      \* "up", "exit" (the terminator runs), "down"
    users,      \* the streams the client may use
    files,      \* the files lowio has open
    append,     \* those with FAPPEND
    opened,     \* how many were opened
    disk,       \* what was written to them
    sent,       \* history: how many bytes calls have accepted
    err,        \*   "told" if a call or ferror said that some are lost;
                \*   "ignored" if the flush failed in freopen or at exit
    made,       \* calls made,
    faults      \*   and faults taken

calls == <<op, pc, at, left, made>>
table == <<index, stage, users>>
lowio == <<files, append, opened>>
vars  == <<piob, lock, calls, table, lowio, disk, sent, err, faults>>

Stream(flags, file) ==
    [flags |-> flags, file |-> file, buf |-> << >>, cnt |-> 0, bufsiz |-> 0]

Init ==
    /\ piob = [s \in Slots |-> IF s = 0 THEN Stream({"alloc", "write"}, NoFile) ELSE NoStream]
    /\ lock = [s \in Slots |-> NoThread]
    /\ index = NoThread
    /\ op = [t \in Threads |-> "none"] /\ pc = [t \in Threads |-> "idle"]
    /\ at = [t \in Threads |-> 0] /\ left = [t \in Threads |-> 0]
    /\ stage = "up"
    /\ users = {0}
    /\ files = {} /\ append = {} /\ opened = 0
    /\ disk = [f \in Files |-> << >>]
    /\ sent = [f \in Files |-> 0]
    /\ err = [f \in Files |-> "no"]
    /\ made = 0 /\ faults = 0

-----------------------------------------------------------------------------
(* Streams and their buffers *)

InUse(s)     == "alloc" \in s.flags
BigBuffer(s) == s.flags \cap {"crt", "user"} # {}     \* has_big_buffer
HasBuffer(s) == BigBuffer(s) \/ "none" \in s.flags    \* has_any_buffer

Set(s, on, off) == [s EXCEPT !.flags = (@ \cup on) \ off]

Flushable(s) == s.flags \cap {"read", "write"} = {"write"} /\ BigBuffer(s)

\* __acrt_stdio_reset_buffer.
Reset_Count(s) == [s EXCEPT !.buf = << >>, !.cnt = s.bufsiz]
Reset(s) == [s EXCEPT !.buf = << >>, !.cnt = 0]

(***************************************************************************)
(* What an operation may do: the stream after it, the bytes that reach the *)
(* file, whether it reports success, and the faults it takes.              *)
(***************************************************************************)
Result(s, put, ok, cost) == [stream |-> s, put |-> put, ok |-> ok, cost |-> cost]

\* _write of bytes, when s is the stream after success: a prefix is written if it fails.
Write(s, bytes, fail) ==
    {Result(s, bytes, TRUE, 0)} \cup
    {Result(fail, SubSeq(bytes, 1, n), FALSE, 1) : n \in 0..(Len(bytes) - 1)}

\* __acrt_stdio_flush_nolock.
Flush(s) ==
    IF ~Flushable(s) THEN {Result(s, << >>, TRUE, 0)}
    ELSE IF s.buf = << >> THEN {Result(Reset(s), << >>, TRUE, 0)}
    ELSE Write(Set(Reset(s), {}, IF "update" \in s.flags THEN {"write"} ELSE {}),
               s.buf,
               Set(Reset(s), {"error"}, {}))

\* __acrt_stdio_free_buffer_nolock.
FreeBuffer(s) == IF "crt" \in s.flags THEN Set(Reset(s), {}, {"crt"}) ELSE s

\* __acrt_stdio_allocate_buffer_nolock: the stream, and the faults.
Allocate(s) ==
    IF HasBuffer(s) THEN {<<s, 0>>}
    ELSE { <<[Set(Reset(s), {"crt"}, {}) EXCEPT !.bufsiz = BufSize], 0>>,
           <<[Set(Reset(s), {"none"}, {}) EXCEPT !.bufsiz = 2], 1>> }

\* stream_is_at_end_of_file_nolock: nothing is read but the end of a file.
AtEnd(s) == "eof" \in s.flags \/ ~BigBuffer(s)

(***************************************************************************)
(* write_buffer_nolock.  Its type is bool: "return stdio_traits::eof" when *)
(* the seek of an appending file fails is "return true", with _IOERROR set *)
(* and the byte not stored.                                                *)
(***************************************************************************)
WriteBuffer(s, c) ==
    LET stored == [s EXCEPT !.buf = <<c>>, !.cnt = s.bufsiz - 1]
        failed == Set([s EXCEPT !.buf = <<Stale>>, !.cnt = s.bufsiz - 1], {"error"}, {})
    IN  IF ~BigBuffer(s) THEN Write(s, <<c>>, Set(s, {"error"}, {}))
        ELSE IF s.buf # << >> THEN Write(stored, s.buf, Set(stored, {"error"}, {}))
        ELSE {Result(stored, << >>, TRUE, 0)} \cup
             (IF s.file \in append THEN {Result(failed, << >>, TRUE, 1)} ELSE {})

\* common_flush_and_write_nolock, for a stream that may be written.
FlushAndWrite(s, c) ==
    IF "read" \in s.flags /\ ~AtEnd(s)
    THEN {Result(Set([s EXCEPT !.cnt = 0], {"error"}, {}), << >>, FALSE, 0)}
    ELSE UNION { {[r EXCEPT !.cost = @ + b[2]] : r \in WriteBuffer(b[1], c)} :
                 b \in Allocate([Set(s, {"write"}, {"read", "eof"}) EXCEPT !.cnt = 0]) }

\* _fputc_nolock.
Put(s, c) ==
    IF s.cnt > 0
    THEN {Result([s EXCEPT !.buf = Append(@, c), !.cnt = @ - 1], << >>, TRUE, 0)}
    ELSE FlushAndWrite(s, c)

\* common_refill_and_read_nolock at the end of the file; _read may fail.
Refill(s) ==
    IF "write" \in s.flags THEN {Result(Set(s, {"error"}, {}), << >>, FALSE, 0)}
    ELSE UNION { { Result(Set(Reset(b[1]), {"read", "eof"}, {}), << >>, TRUE, b[2]),
                   Result(Set(Reset(b[1]), {"read", "error"}, {}), << >>, TRUE, b[2] + 1) } :
                 b \in Allocate(s) }

-----------------------------------------------------------------------------
(* Calls *)

StreamOps == {"fputc", "fwrite", "fflush", "fgetc", "setvbuf", "freopen", "fclose"}
Alone     == {"fgetc", "setvbuf", "freopen", "fclose"}

Move(t, step, slot) ==
    /\ pc' = [pc EXCEPT ![t] = step]
    /\ at' = [at EXCEPT ![t] = slot]

Goto(t, step) == Move(t, step, at[t]) /\ UNCHANGED op
Return(t)     == Move(t, "idle", 0) /\ op' = [op EXCEPT ![t] = "none"]
Unlock(t)     == lock' = [lock EXCEPT ![at[t]] = NoThread]

Cost(n) == faults' = faults + n /\ faults' <= MaxFaults

Start(t, o, step, slot) ==
    /\ op[t] = "none" /\ stage = "up"
    /\ made' = made + 1
    /\ op' = [op EXCEPT ![t] = o]
    /\ Move(t, step, slot)

SentInAll == MapThenSumSet(LAMBDA f : sent[f], Files)

MayOpen == opened + Cardinality({u \in Threads : op[u] \in {"fopen", "freopen"}}) < MaxFiles

(***************************************************************************)
(* A call on a stream begins, and waits for the lock.  fflush reads the    *)
(* flags first, and returns if there is nothing to flush.                  *)
(***************************************************************************)
Call(t, o, s) ==
    /\ stage = "up" /\ made < MaxCalls
    /\ s \in users
    /\ IF o = "freopen" THEN MayOpen ELSE piob[s].file # NoFile
    /\ o = "fflush" => Flushable(piob[s])
    /\ o = "fgetc" => "update" \in piob[s].flags /\ piob[s].cnt = 0
    /\ \A u \in Threads \ {t} :
         op[u] \in StreamOps /\ at[u] = s => op[u] \notin Alone /\ o \notin Alone
    /\ Start(t, o, "wait", s)
    /\ \E n \in 1..MaxBytes :
         /\ left' = [left EXCEPT ![t] = IF o = "fwrite" THEN n ELSE 0]
         /\ o \in {"fputc", "fwrite"} => SentInAll + n <= MaxBytes
         /\ o # "fwrite" => n = 1
    /\ UNCHANGED <<piob, lock, table, lowio, disk, sent, err, faults>>

\* _lock_file of the call.
LockFile(t) ==
    /\ pc[t] = "wait" /\ op[t] \in StreamOps
    /\ lock[at[t]] = NoThread
    /\ lock' = [lock EXCEPT ![at[t]] = t]
    /\ Goto(t, "body")
    /\ UNCHANGED <<piob, left, made, table, lowio, disk, sent, err, faults>>

\* _unlock_file, and the call returns.
UnlockFile(t) ==
    /\ pc[t] = "unlock"
    /\ Unlock(t) /\ Return(t)
    /\ UNCHANGED <<piob, left, made, table, lowio, disk, sent, err, faults>>

(***************************************************************************)
(* The stream of t becomes r.stream.  The client is told of an error by    *)
(* the result of its call and by ferror; freopen and the terminator ignore *)
(* the result and the stream is closed.                                    *)
(***************************************************************************)
Apply(t, r, ok, accepted) ==
    LET f == piob[at[t]].file
        e == IF op[t] \in {"freopen", "exit"} THEN "ignored" ELSE "told"
    IN  /\ piob' = [piob EXCEPT ![at[t]] = r.stream]
        /\ disk' = [disk EXCEPT ![f] = @ \o r.put]
        /\ sent' = [sent EXCEPT ![f] = @ + accepted]
        /\ err' = [err EXCEPT ![f] =
                     IF @ = "no" /\ (~ok \/ "error" \in r.stream.flags) THEN e ELSE @]
        /\ Cost(r.cost)

Body(t, o) == pc[t] = "body" /\ op[t] = o

NextByte(t) == sent[piob[at[t]].file] + 1

Fputc(t) ==
    /\ Body(t, "fputc")
    /\ \E r \in Put(piob[at[t]], NextByte(t)) : Apply(t, r, r.ok, IF r.ok THEN 1 ELSE 0)
    /\ Unlock(t) /\ Return(t)
    /\ UNCHANGED <<left, made, table, lowio>>

Fflush(t) ==
    /\ Body(t, "fflush")
    /\ \E r \in Flush(piob[at[t]]) : Apply(t, r, r.ok, 0)
    /\ Unlock(t) /\ Return(t)
    /\ UNCHANGED <<left, made, table, lowio>>

Fgetc(t) ==
    /\ Body(t, "fgetc")
    /\ \E r \in Refill(piob[at[t]]) : Apply(t, r, TRUE, 0)
    /\ Unlock(t) /\ Return(t)
    /\ UNCHANGED <<left, made, table, lowio>>

\* The next n bytes of the buffer given to fwrite.
Data(t, n) == [i \in 1..n |-> sent[piob[at[t]].file] + i]

\* One turn of the loop of fwrite, which takes n bytes, ends it or fails.
FwriteTurn(t, r, n) ==
    /\ Apply(t, r, r.ok, n)
    /\ left' = [left EXCEPT ![t] = IF r.ok THEN @ - n ELSE 0]
    /\ IF r.ok /\ left[t] > n
         THEN Goto(t, "body") /\ UNCHANGED lock
         ELSE Unlock(t) /\ Return(t)
    /\ UNCHANGED <<made, table, lowio>>

\* stream_buffer_size, which follows the buffer as the loop allocates one.
StreamBufferSize(s) == IF HasBuffer(s) THEN s.bufsiz ELSE BufSize

\* The buffer is big and not full: copy.
FwriteCopy(t) ==
    LET s == piob[at[t]]
        n == IF left[t] < s.cnt THEN left[t] ELSE s.cnt
    IN  /\ Body(t, "fwrite")
        /\ BigBuffer(s) /\ s.cnt # 0
        /\ FwriteTurn(t, Result([s EXCEPT !.buf = @ \o Data(t, n), !.cnt = @ - n],
                                << >>, TRUE, 0), n)

\* Whole blocks are written directly, after what is in the buffer.
FwriteBlocks(t) ==
    LET s == piob[at[t]]
        n == left[t] - (left[t] % StreamBufferSize(s))
    IN  /\ Body(t, "fwrite")
        /\ ~(BigBuffer(s) /\ s.cnt # 0)
        /\ left[t] >= StreamBufferSize(s)
        /\ \E r \in IF BigBuffer(s) THEN Flush(s) ELSE {Result(s, << >>, TRUE, 0)} :
             IF ~r.ok THEN FwriteTurn(t, r, 0)
             ELSE \E w \in Write(r.stream, Data(t, n), Set(r.stream, {"error"}, {})) :
                    FwriteTurn(t, [w EXCEPT !.put = r.put \o @], Len(w.put))

FwriteChar(t) ==
    LET s == piob[at[t]]
    IN  /\ Body(t, "fwrite")
        /\ ~(BigBuffer(s) /\ s.cnt # 0)
        /\ left[t] < StreamBufferSize(s)
        /\ \E r \in FlushAndWrite(s, NextByte(t)) : FwriteTurn(t, r, IF r.ok THEN 1 ELSE 0)

(***************************************************************************)
(* setvbuf: without a buffer, with one of the CRT, which may not be had,   *)
(* or with the caller's, of two bytes.                                     *)
(***************************************************************************)
Setvbuf(t) ==
    /\ Body(t, "setvbuf")
    /\ \E r \in Flush(piob[at[t]]) :
         LET s == Set(FreeBuffer(r.stream), {}, {"crt", "user", "none"})
             b == [Reset(s) EXCEPT !.bufsiz = 2]
         IN  \/ \E kind \in {"none", "crt", "user"} :
                  Apply(t, [r EXCEPT !.stream = Set(b, {kind}, {})], TRUE, 0)
             \/ Apply(t, [r EXCEPT !.stream = s, !.cost = @ + 1], TRUE, 0)
    /\ Unlock(t) /\ Return(t)
    /\ UNCHANGED <<left, made, table, lowio>>

-----------------------------------------------------------------------------
(* fclose, freopen, fopen *)

\* _fclose_nolock: flush, free the buffer, _close (if that fails, only the result differs).
Fclose(t) ==
    LET s == piob[at[t]]
    IN  /\ pc[t] = "body" /\ op[t] \in {"fclose", "freopen"}
        /\ IF s.file = NoFile THEN UNCHANGED <<piob, disk, sent, err, faults>>
           ELSE \E r \in Flush(s) :
                  Apply(t, [r EXCEPT !.stream = FreeBuffer(@)], r.ok, 0)
        /\ files' = files \ {s.file}
        /\ Goto(t, "free")
        /\ UNCHANGED <<lock, left, made, table, append, opened>>

\* __acrt_stdio_free_stream: from now on the stream is not in use.
FreeStream(t) ==
    /\ pc[t] = "free"
    /\ piob' = [piob EXCEPT ![at[t]] = Stream({}, NoFile)]
    /\ users' = IF op[t] = "fclose" THEN users \ {at[t]} ELSE users
    /\ Goto(t, IF op[t] = "freopen" THEN "claim" ELSE "unlock")
    /\ UNCHANGED <<lock, left, made, index, stage, lowio, disk, sent, err, faults>>

\* freopen sets _IOALLOCATED again, under the lock it still holds.
Claim(t) ==
    /\ pc[t] = "claim"
    /\ piob' = [piob EXCEPT ![at[t]] = Stream({"alloc"}, NoFile)]
    /\ Goto(t, "open")
    /\ UNCHANGED <<lock, left, made, table, lowio, disk, sent, err, faults>>

\* common_openfile opens the next file.
OpenFile(t, mode) ==
    LET f == opened + 1
    IN  /\ pc[t] = "open"
        /\ opened' = f
        /\ files' = files \cup {f}
        /\ append' = IF mode = "a" THEN append \cup {f} ELSE append
        /\ piob' = [piob EXCEPT ![at[t]] =
             Stream({"alloc", IF mode = "w+" THEN "update" ELSE "write"}, f)]
        /\ users' = users \cup {at[t]}
        /\ Unlock(t) /\ Return(t)
        /\ UNCHANGED <<left, made, index, stage, disk, sent, err, faults>>

\* It cannot be opened, and the stream is free again.
OpenFileFails(t) ==
    /\ pc[t] = "open"
    /\ IF op[t] = "fopen"
         THEN Goto(t, "free") /\ UNCHANGED <<piob, users, lock>>
         ELSE /\ piob' = [piob EXCEPT ![at[t]] = Stream({}, NoFile)]
              /\ users' = users \ ({at[t]} \ {0})
              /\ Unlock(t) /\ Return(t)
    /\ Cost(1)
    /\ UNCHANGED <<left, made, index, stage, lowio, disk, sent, err>>

Fopen(t) ==
    /\ made < MaxCalls /\ MayOpen
    /\ Start(t, "fopen", "index", 1)
    /\ UNCHANGED <<piob, lock, left, table, lowio, disk, sent, err, faults>>

LockIndex(t) ==
    /\ pc[t] = "index"
    /\ index = NoThread
    /\ index' = t
    /\ Goto(t, "scan")
    /\ UNCHANGED <<piob, lock, left, made, stage, users, lowio, disk, sent, err, faults>>

\* A loop over __piob goes on to the next slot.
NextSlot(t) == Move(t, "scan", at[t] + 1) /\ UNCHANGED op

\* find_or_allocate_unused_stream_nolock: reads _IOALLOCATED without the lock.
FopenScan(t) ==
    /\ pc[t] = "scan" /\ op[t] = "fopen"
    /\ at[t] < NStream /\ piob[at[t]] # NoStream
    /\ IF InUse(piob[at[t]]) THEN NextSlot(t) ELSE Goto(t, "wait")
    /\ UNCHANGED <<piob, lock, left, made, table, lowio, disk, sent, err, faults>>

\* All slots are in use, or a stream cannot be allocated: EMFILE.
FopenFails(t) ==
    /\ pc[t] = "scan" /\ op[t] = "fopen"
    /\ IF at[t] < NStream THEN piob[at[t]] = NoStream /\ Cost(1) ELSE Cost(0)
    /\ index' = NoThread
    /\ Return(t)
    /\ UNCHANGED <<piob, lock, left, made, stage, users, lowio, disk, sent, err>>

\* The stream of the slot is t's: the index lock is released and the file opened.
Allocated(t) ==
    /\ piob' = [piob EXCEPT ![at[t]] = Stream({"alloc"}, NoFile)]
    /\ lock' = [lock EXCEPT ![at[t]] = t]
    /\ index' = NoThread
    /\ Goto(t, "open")
    /\ UNCHANGED <<left, made, stage, users, lowio, disk, sent, err, faults>>

FopenNew(t) ==
    /\ pc[t] = "scan" /\ op[t] = "fopen"
    /\ at[t] < NStream /\ piob[at[t]] = NoStream
    /\ Allocated(t)

\* The lock of a stream that was not in use, and try_allocate.
FopenEnter_NoTry(t) ==
    /\ pc[t] = "wait" /\ op[t] = "fopen"
    /\ lock[at[t]] = NoThread
    /\ Allocated(t)

FopenEnter(t) ==
    /\ pc[t] = "wait" /\ op[t] = "fopen"
    /\ lock[at[t]] = NoThread
    /\ IF InUse(piob[at[t]])
         THEN /\ NextSlot(t)
              /\ UNCHANGED <<piob, lock, left, made, table, lowio, disk, sent, err, faults>>
         ELSE Allocated(t)

-----------------------------------------------------------------------------
(* fflush(NULL), and the terminator *)

FlushAll(t) ==
    /\ made < MaxCalls
    /\ Start(t, "flushall", "index", 0)
    /\ UNCHANGED <<piob, lock, left, table, lowio, disk, sent, err, faults>>

\* __acrt_uninitialize_stdio, when no other call is in progress.
Exit(t) ==
    /\ \A u \in Threads : op[u] = "none"
    /\ Start(t, "exit", "index", 0)
    /\ stage' = "exit"
    /\ UNCHANGED <<piob, lock, left, index, users, lowio, disk, sent, err, faults>>

\* common_flush_all looks at a stream without its lock.
FlushScan(t) ==
    /\ pc[t] = "scan" /\ op[t] \in {"flushall", "exit"}
    /\ at[t] < NStream
    /\ IF piob[at[t]] # NoStream /\ InUse(piob[at[t]]) /\ Flushable(piob[at[t]])
         THEN Goto(t, "wait")
         ELSE NextSlot(t)
    /\ UNCHANGED <<piob, lock, left, made, table, lowio, disk, sent, err, faults>>

\* With the lock, it looks again, flushes, and unlocks.
FlushStream(t) ==
    LET s == piob[at[t]]
    IN  /\ pc[t] = "wait" /\ op[t] \in {"flushall", "exit"}
        /\ lock[at[t]] = NoThread
        /\ IF InUse(s) /\ Flushable(s)
             THEN \E r \in Flush(s) : Apply(t, r, r.ok, 0)
             ELSE UNCHANGED <<piob, disk, sent, err, faults>>
        /\ NextSlot(t)
        /\ UNCHANGED <<lock, left, made, table, lowio>>

\* The end of common_flush_all; the terminator goes on with _fcloseall, as the only thread.
FlushedAll(t) ==
    /\ pc[t] = "scan" /\ op[t] \in {"flushall", "exit"}
    /\ at[t] = NStream
    /\ IF op[t] = "exit"
         THEN Move(t, "close", 1) /\ UNCHANGED <<op, index>>
         ELSE Return(t) /\ index' = NoThread
    /\ UNCHANGED <<piob, lock, left, made, stage, users, lowio, disk, sent, err, faults>>

\* _fcloseall: a stream that is in use is closed; every one is freed.
CloseSlot(t) ==
    LET s == piob[at[t]]
    IN  /\ pc[t] = "close" /\ at[t] < NStream
        /\ IF s # NoStream /\ InUse(s)
             THEN \E r \in Flush(s) :
                    /\ disk' = [disk EXCEPT ![s.file] = @ \o r.put]
                    /\ err' = [err EXCEPT ![s.file] = IF @ = "no" /\ ~r.ok THEN "ignored" ELSE @]
                    /\ files' = files \ {s.file}
                    /\ Cost(r.cost)
             ELSE UNCHANGED <<disk, err, files, faults>>
        /\ piob' = [piob EXCEPT ![at[t]] = NoStream]
        /\ Move(t, "close", at[t] + 1)
        /\ UNCHANGED <<lock, op, left, made, table, append, opened, sent>>

\* The buffers of the standard streams and __piob are freed.
Down(t) ==
    /\ pc[t] = "close" /\ at[t] = NStream
    /\ piob' = [piob EXCEPT ![0] = NoStream]
    /\ index' = NoThread
    /\ stage' = "down"
    /\ users' = {}
    /\ Return(t)
    /\ UNCHANGED <<lock, left, made, lowio, disk, sent, err, faults>>

-----------------------------------------------------------------------------

Step(t) ==
    \/ \E o \in StreamOps, s \in Slots : Call(t, o, s)
    \/ LockFile(t) \/ UnlockFile(t)
    \/ Fputc(t) \/ Fflush(t) \/ Fgetc(t) \/ Setvbuf(t)
    \/ FwriteCopy(t) \/ FwriteBlocks(t) \/ FwriteChar(t)
    \/ Fclose(t) \/ FreeStream(t) \/ Claim(t)
    \/ \E mode \in {"w", "w+", "a"} : OpenFile(t, mode)
    \/ OpenFileFails(t)
    \/ Fopen(t) \/ LockIndex(t) \/ FopenScan(t) \/ FopenFails(t) \/ FopenNew(t) \/ FopenEnter(t)
    \/ FlushAll(t) \/ Exit(t) \/ FlushScan(t) \/ FlushStream(t) \/ FlushedAll(t)
    \/ CloseSlot(t) \/ Down(t)

\* The image is gone.
Unloaded == stage = "down" /\ UNCHANGED vars

Next == Unloaded \/ \E t \in Threads : Step(t)

Spec == Init /\ [][Next]_vars

-----------------------------------------------------------------------------
(* Properties *)

\* Bytes in the buffer of the stream of f.
Pending(f) ==
    LET S == {s \in Slots : piob[s] # NoStream /\ piob[s].file = f}
    IN  IF S = {} THEN << >> ELSE piob[CHOOSE s \in S : TRUE].buf

(***************************************************************************)
(* The bytes that fputc and fwrite accepted are on the disk, and then in   *)
(* the buffer of the stream, each once and in order, until the client was  *)
(* told of an error or the flush failed in a call that ignores it.  With   *)
(* whatever buffer, whoever flushes and when; also after fclose, freopen   *)
(* and the terminator, when no buffer is left.                             *)
(***************************************************************************)
DataKept ==
    \A f \in Files :
      err[f] = "no" => disk[f] \o Pending(f) = [i \in 1..sent[f] |-> i]

\* The stream s is being closed, or reopened, by its client.
Closing(s) == \E t \in Threads : at[t] = s /\ pc[t] \in {"free", "claim", "open"}

(***************************************************************************)
(* A file that is open belongs to one stream that is in use, and the       *)
(* stream a client has belongs to an open file: fopen never takes a stream *)
(* that freopen, or another fopen, has taken between its test of           *)
(* _IOALLOCATED and the lock.  After the terminator only a standard stream *)
(* may have left a file open.                                              *)
(***************************************************************************)
FileOwned ==
    IF stage = "down" THEN Cardinality(files) <= 1
    ELSE /\ \A f \in files :
              Cardinality({s \in Slots : piob[s] # NoStream /\ InUse(piob[s]) /\ piob[s].file = f}) = 1
         /\ \A s \in users \ {0} :
              Closing(s) \/ stage = "exit" \/ (InUse(piob[s]) /\ piob[s].file \in files)
=============================================================================
