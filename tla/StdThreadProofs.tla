-------------------------- MODULE StdThreadProofs --------------------------
(***************************************************************************)
(* Proofs about StdThread, for any number of workers, promises, and blocks *)
(* of the exit table, and any number of slots in a block.                  *)
(***************************************************************************)
EXTENDS StdThread, FiniteSetTheorems, WellFoundedInduction, TLAPS

Entry == [id : Ids, state : States, by : Workers]

MainSteps ==
    {"idle", "c_start", "c_test", "c_sleep", "c_wake", "s_start", "s_release", "join",
     "f_lock", "f_sleep", "p_lock", "terminated"}

\* The steps of a worker before its exit table is looked at.
Front == {"none", "copy", "lock", "started", "signal", "unlock", "func", "b_lock"}

Scans == {"b_scan", "b_ready", "b_cnd", "b_unlock"}

WorkerSteps == Front \cup Scans \cup {"reg", "ended", "exited"}

StartTypes ==
    /\ pc \in [Workers \cup {Main} -> MainSteps \cup WorkerSteps]
    /\ pc[Main] \in MainSteps
    /\ \A w \in Workers : pc[w] \in WorkerSteps
    /\ frame \in [Workers -> {"none", "live"}]
    /\ started \in [Workers -> BOOLEAN]
    /\ mtx \in [Workers -> Workers \cup {Main, None}]
    /\ tuple \in [Workers -> {"none", "live", "gone"}]
    /\ handle \in [Workers -> {"none", "open", "closed"}]
    /\ id \in [Workers -> Ids \cup {None}]

ExitTypes ==
    /\ setter \in [States -> Workers]
    /\ alive \in [States -> BOOLEAN]
    /\ stored \in [States -> BOOLEAN]
    /\ ready \in [States -> BOOLEAN]
    /\ holder \in [States -> Workers \cup {None}]
    /\ table \in [Slots -> Entry \cup {None}]
    /\ num_used \in [1..Blocks -> Nat]
    /\ blocks \in 1..Blocks
    /\ exit \in Workers \cup {None}
    /\ at \in [Workers -> States \cup Slots \cup {None}]
    /\ lost \subseteq States

\* What Main's call is about.
ArgInv ==
    /\ pc[Main] \in {"c_start", "c_test", "c_sleep", "c_wake"} => arg \in Created
    /\ pc[Main] = "s_start" => arg \in Workers \ Created
    /\ pc[Main] \in {"s_release", "join"} => arg \in Workers
    /\ pc[Main] \in {"f_lock", "f_sleep", "p_lock"} => arg \in States
    /\ pc[Main] \in {"c_start", "s_start"} => pc[arg] = "none"

Creates(w) == pc[Main] \in {"c_start", "c_test", "c_sleep", "c_wake"} /\ arg = w

(***************************************************************************)
(* The handshake of a worker with its creator: the creator leaves          *)
(* _Thrd_create only with the mutex, once started is set, and the runner   *)
(* sets it with the mutex too, which it releases in its last access.       *)
(***************************************************************************)
FrameInv(w) ==
    /\ frame[w] = "live" <=> Creates(w)
    /\ pc[w] \in {"copy", "lock", "started", "signal", "unlock"} => Creates(w) /\ pc[Main] # "c_start"
    /\ mtx[w] = Main <=> Creates(w) /\ pc[Main] \in {"c_start", "c_test"}
    /\ mtx[w] = w <=> pc[w] \in {"started", "signal", "unlock"}
    /\ started[w] => pc[w] \notin {"none", "copy", "lock", "started"}
    /\ tuple[w] = "gone" => pc[w] = "ended"
    /\ pc[w] = "none" => handle[w] = "none"
    /\ pc[w] = "none" <=> id[w] = None

\* Two workers with one identifier do not run at the same time.
IdInv ==
    \A v, w \in Workers :
        v # w /\ id[v] = id[w] /\ id[v] # None =>
            pc[v] \in {"ended", "exited"} \/ pc[w] \in {"ended", "exited"}

StartInv == StartTypes /\ ArgInv /\ IdInv /\ \A w \in Workers : FrameInv(w)

\* An entry of the table was made by a worker that has not ended, and is
\* ready only between *res = 1 and the unlock of the broadcast.
EntryInv(x) ==
    LET e == table[x]
    IN  /\ x[1] <= blocks
        /\ e.id = id[e.by]
        /\ stored[e.state] /\ e.state \notin lost
        /\ holder[e.state] = e.by
        /\ \A y \in Slots \ {x} : table[y] # None => table[y].state # e.state
        /\ pc[e.by] # "ended"
        /\ ready[e.state] \/ ~alive[e.state] =>
             \E w \in Workers : Broadcasts(w, x) /\ pc[w] # "b_ready"

\* A worker that is about to register a state holds it, and it is new.
RegInv(w) ==
    /\ at[w] \in States
    /\ holder[at[w]] = w /\ stored[at[w]] /\ ~ready[at[w]] /\ alive[at[w]] /\ at[w] \notin lost
    /\ \A x \in Slots : table[x] # None => table[x].state # at[w]

\* A locked state is about to be registered, registered, or lost.
HeldInv(s) ==
    /\ ready[s] \/ s \in lost => stored[s]
    /\ holder[s] # None /\ s \notin lost =>
         \/ pc[holder[s]] = "reg" /\ at[holder[s]] = s
         \/ \E x \in Slots : table[x] # None /\ table[x].state = s

\* The worker that holds _Thread_exit_data_mutex, and where it is.
ScanInv(w) ==
    /\ pc[w] \in Scans <=> exit = w
    /\ pc[w] \in Scans \ {"b_scan"} =>
         /\ at[w] \in Slots /\ table[at[w]] # None
         /\ table[at[w]].by = w \/ pc[table[at[w]].by] = "exited"

UsedInv ==
    \A b \in 1..Blocks : num_used[b] = Cardinality({i \in 1..Items : table[<<b, i>>] # None})

ExitInv ==
    /\ ExitTypes
    /\ UsedInv
    /\ \A x \in Slots : table[x] # None => EntryInv(x)
    /\ \A w \in Workers : pc[w] = "reg" => RegInv(w)
    /\ \A s \in States : HeldInv(s)
    /\ \A w \in Workers : ScanInv(w)

IInv == StartInv /\ ExitInv

USE StdThreadAssumption

\* The steps of Main in which it makes a thread.
Making == {"c_start", "c_test", "c_sleep", "c_wake", "s_start"}

\* The steps of a worker between the handshake and its end.
Outside == {"func", "reg", "b_lock"} \cup Scans

-----------------------------------------------------------------------------
(* What leaves each half of the invariant alone *)

\* A worker that does not come to the exit table, and identifiers given to
\* workers that did not exist, disturb nothing about it.
LEMMA ExitKept ==
  ASSUME IInv,
         UNCHANGED <<setter, alive, stored, ready, holder, table, num_used, blocks, exit, at, lost>>,
         \A w \in Workers : pc'[w] = pc[w] \/ (pc[w] \in Front /\ pc'[w] \in Front \cup {"exited"}),
         \A w \in Workers : id'[w] = id[w] \/ pc[w] = "none"
  PROVE  ExitInv'
  <1> USE DEF IInv, ExitInv
  <1>1. ExitTypes' /\ UsedInv'
    BY DEF ExitTypes, UsedInv
  <1>2. ASSUME NEW x \in Slots, table'[x] # None PROVE EntryInv(x)'
    <2>1. EntryInv(x) /\ table[x] \in Entry
      BY <1>2 DEF ExitTypes
    <2>2. table[x].by \in Workers /\ table[x].id \in Ids /\ table[x].state \in States
      BY <2>1 DEF Entry
    <2>3. id[table[x].by] # None
      BY <2>1, <2>2 DEF EntryInv
    <2>4. id'[table[x].by] = id[table[x].by] /\ pc'[table[x].by] # "ended"
      BY <2>1, <2>2, <2>3 DEF EntryInv, StartInv, FrameInv, Front
    <2>5. \A w \in Workers : Broadcasts(w, x) => Broadcasts(w, x)' /\ pc'[w] = pc[w]
      BY DEF Broadcasts, Front
    <2> QED
      BY <2>1, <2>2, <2>4, <2>5 DEF EntryInv
  <1>3. ASSUME NEW w \in Workers, pc'[w] = "reg" PROVE RegInv(w)'
    <2>1. pc[w] = "reg"
      BY <1>3 DEF Front
    <2> QED
      BY <2>1 DEF RegInv
  <1>4. ASSUME NEW s \in States PROVE HeldInv(s)'
    <2>1. holder[s] # None => holder[s] \in Workers
      BY DEF ExitTypes
    <2>2. holder[s] # None /\ pc[holder[s]] = "reg" => pc'[holder[s]] = "reg"
      BY <2>1 DEF Front
    <2> QED
      BY <2>2 DEF HeldInv
  <1>5. ASSUME NEW w \in Workers PROVE ScanInv(w)'
    <2>1. pc'[w] \in Scans <=> pc[w] \in Scans
      BY DEF Front, Scans
    <2>2. pc[w] \in Scans => pc'[w] = pc[w]
      BY DEF Front, Scans
    <2>3. ASSUME pc[w] \in Scans \ {"b_scan"}, pc[table[at[w]].by] = "exited"
          PROVE  pc'[table[at[w]].by] = "exited"
      <3>1. table[at[w]] \in Entry
        BY <2>3 DEF ExitTypes, ScanInv
      <3>2. table[at[w]].by \in Workers
        BY <3>1 DEF Entry
      <3> QED
        BY <2>3, <3>2 DEF Front
    <2> QED
      BY <2>1, <2>2, <2>3 DEF ScanInv
  <1> QED
    BY <1>1, <1>2, <1>3, <1>4, <1>5

\* Nothing a worker does after the handshake disturbs the handshakes.
LEMMA StartKept ==
  ASSUME IInv, UNCHANGED <<frame, started, mtx, id>>,
         pc' \in [Workers \cup {Main} -> MainSteps \cup WorkerSteps], pc'[Main] \in MainSteps,
         \A w \in Workers :
            pc'[w] = pc[w] \/ (pc[w] \in Outside /\ pc'[w] \in Outside \cup {"ended", "exited"}),
         tuple' \in [Workers -> {"none", "live", "gone"}],
         \A w \in Workers : tuple'[w] = tuple[w] \/ pc'[w] = "ended",
         handle' \in [Workers -> {"none", "open", "closed"}],
         \A w \in Workers : handle'[w] = handle[w] \/ pc[w] # "none",
         \/ pc'[Main] = pc[Main] /\ arg' = arg
         \/ /\ pc[Main] \notin Making /\ pc'[Main] \notin Making
            /\ pc'[Main] \in {"join", "s_release"} => arg' \in Workers
            /\ pc'[Main] \in {"f_lock", "f_sleep", "p_lock"} => arg' \in States
  PROVE  StartInv'
  <1> USE DEF IInv, StartInv
  <1>1. StartTypes'
    BY DEF StartTypes, Outside, WorkerSteps, Front, Scans
  <1>2. ArgInv'
    <2>1. CASE pc'[Main] = pc[Main] /\ arg' = arg
      <3>1. pc[Main] \in {"c_start", "s_start"} => arg \in Workers /\ pc'[arg] = "none"
        BY DEF ArgInv, Outside, Scans
      <3> QED
        BY <2>1, <3>1 DEF ArgInv
    <2>2. CASE pc'[Main] \notin Making /\ ~(pc'[Main] = pc[Main] /\ arg' = arg)
      BY <2>2 DEF ArgInv, Making
    <2> QED
      BY <2>1, <2>2
  <1>3. \A w \in Workers : pc[w] \in {"ended", "exited"} => pc'[w] = pc[w]
    BY DEF Outside, Scans
  <1>4. IdInv'
    BY <1>3 DEF IdInv
  <1>5. ASSUME NEW w \in Workers PROVE FrameInv(w)'
    <2>1. /\ Creates(w)' <=> Creates(w)
          /\ Creates(w) => pc'[Main] = pc[Main]
      BY DEF Creates, Making
    <2>2. pc'[w] = pc[w] \/ (pc[w] \in Outside /\ pc'[w] \in Outside \cup {"ended", "exited"})
      OBVIOUS
    <2>3. /\ UNCHANGED <<frame[w], started[w], mtx[w], id[w]>>
          /\ tuple'[w] = tuple[w] \/ pc'[w] = "ended"
          /\ handle'[w] = handle[w] \/ pc[w] # "none"
      OBVIOUS
    <2> QED
      BY <2>1, <2>2, <2>3 DEF FrameInv, Outside, Scans
  <1> QED
    BY <1>1, <1>2, <1>4, <1>5

-----------------------------------------------------------------------------
(* The handshake and std::thread *)

LEMMA InitInv == Init => IInv
  <1> SUFFICES ASSUME Init PROVE IInv
    OBVIOUS
  <1>1. StartTypes /\ ArgInv
    BY DEF Init, StartTypes, ArgInv, MainSteps, WorkerSteps, Front
  <1>2. IdInv /\ \A w \in Workers : FrameInv(w)
    BY DEF Init, IdInv, FrameInv, Creates
  <1>3. ExitTypes
    BY DEF Init, ExitTypes
  <1>4. UsedInv
    <2>1. \A b \in 1..Blocks : {i \in 1..Items : table[<<b, i>>] # None} = {}
      BY DEF Init, Slots
    <2> QED
      BY <2>1, FS_EmptySet DEF UsedInv, Init
  <1>5. \A s \in States : HeldInv(s)
    BY DEF Init, HeldInv
  <1>6. \A w \in Workers : ScanInv(w)
    BY DEF Init, ScanInv, Scans
  <1> QED
    BY <1>1, <1>2, <1>3, <1>4, <1>5, <1>6 DEF Init, IInv, StartInv, ExitInv

\* A call of Main begins to make worker w, or gives it up.
LEMMA MakeInv ==
  ASSUME IInv, NEW w \in Workers,
         ThrdCreate(w) \/ StartCopy(w) \/ ((ThrdStartFails \/ StartFails) /\ arg = w)
  PROVE  IInv'
  <1> USE DEF IInv, StartInv, Goto
  <1>1. PICK q \in {"c_start", "s_start", "idle"} : pc' = [pc EXCEPT ![Main] = q]
    BY DEF ThrdCreate, StartCopy, ThrdStartFails, StartFails
  <1>2. pc[w] = "none" /\ UNCHANGED <<handle, id, future, exits>> /\ pc[Main] \in {"idle", "c_start", "s_start"}
    BY DEF ThrdCreate, StartCopy, ThrdStartFails, StartFails, ArgInv
  <1>3. pc'[Main] = q /\ \A v \in Workers : pc'[v] = pc[v]
    BY <1>1 DEF StartTypes
  <1>4. StartTypes'
    <2>1. /\ pc' \in [Workers \cup {Main} -> MainSteps \cup WorkerSteps]
          /\ pc'[Main] \in MainSteps /\ \A v \in Workers : pc'[v] \in WorkerSteps
      BY <1>1, <1>3 DEF StartTypes, MainSteps
    <2>2. CASE ThrdCreate(w)
      BY <1>2, <2>1, <2>2 DEF StartTypes, ThrdCreate
    <2>3. CASE StartCopy(w)
      BY <1>2, <2>1, <2>3 DEF StartTypes, StartCopy
    <2>4. CASE ThrdStartFails /\ arg = w
      BY <1>2, <2>1, <2>4 DEF StartTypes, ThrdStartFails, Leave
    <2>5. CASE StartFails /\ arg = w
      BY <1>2, <2>1, <2>5 DEF StartTypes, StartFails
    <2> QED
      BY <2>2, <2>3, <2>4, <2>5
  <1>5. ArgInv'
    BY <1>1, <1>2, <1>3 DEF ArgInv, ThrdCreate, StartCopy, ThrdStartFails, StartFails, StartTypes
  <1>6. IdInv'
    BY <1>2, <1>3 DEF IdInv
  <1>7. ASSUME NEW v \in Workers PROVE FrameInv(v)'
    <2>1. FrameInv(v) /\ pc'[v] = pc[v] /\ UNCHANGED <<handle[v], id[v]>> /\ v # Main
      BY <1>2, <1>3
    <2>2. CASE v # w
      <3>1. UNCHANGED <<frame[v], started[v], mtx[v], tuple[v]>>
        BY <2>2 DEF ThrdCreate, StartCopy, ThrdStartFails, StartFails, Leave, StartTypes
      <3>2. ~Creates(v) /\ ~Creates(v)'
        BY <1>2, <1>3, <2>2 DEF Creates, ThrdCreate, StartCopy, ThrdStartFails, StartFails
      <3> QED
        BY <2>1, <3>1, <3>2 DEF FrameInv
    <2>3. CASE v = w /\ ThrdCreate(w)
      BY <1>2, <1>3, <2>1, <2>3 DEF FrameInv, Creates, ThrdCreate, StartTypes
    <2>4. CASE v = w /\ StartCopy(w)
      BY <1>2, <1>3, <2>1, <2>4 DEF FrameInv, Creates, StartCopy, StartTypes
    <2>5. CASE v = w /\ ThrdStartFails /\ arg = w
      BY <1>2, <1>3, <2>1, <2>5 DEF FrameInv, Creates, ThrdStartFails, Leave, StartTypes
    <2>6. CASE v = w /\ StartFails /\ arg = w
      BY <1>2, <1>3, <2>1, <2>6 DEF FrameInv, Creates, StartFails, StartTypes
    <2> QED
      BY <2>2, <2>3, <2>4, <2>5, <2>6
  <1>8. ExitInv'
    BY <1>2, <1>3, ExitKept DEF future, exits
  <1> QED
    BY <1>4, <1>5, <1>6, <1>7, <1>8

\* The thread is made: it has an identifier that no running thread has.
LEMMA BeginInv ==
  ASSUME IInv, ThrdStart \/ Start
  PROVE  IInv'
  <1> USE DEF IInv, StartInv
  <1>1. PICK i \in Ids, m \in {"c_test", "s_release"}, q \in {"copy", "func"} :
          /\ FreeId(i)
          /\ id' = [id EXCEPT ![arg] = i]
          /\ handle' = [handle EXCEPT ![arg] = "open"]
          /\ pc' = [pc EXCEPT ![Main] = m, ![arg] = q]
          /\ UNCHANGED <<arg, frame, started, mtx, tuple, future, exits>>
          /\ m = "c_test" <=> pc[Main] = "c_start"
          /\ m = "c_test" <=> q = "copy"
    BY DEF ThrdStart, Start, Begin
  <1>2. arg \in Workers /\ pc[arg] = "none" /\ pc[Main] \in {"c_start", "s_start"} /\ arg # Main
    BY DEF ThrdStart, Start, ArgInv
  <1>3. pc'[Main] = m /\ pc'[arg] = q /\ \A v \in Workers : v # arg => pc'[v] = pc[v]
    BY <1>1, <1>2 DEF StartTypes
  <1>4. id'[arg] = i /\ \A v \in Workers : v # arg => id'[v] = id[v] /\ handle'[v] = handle[v]
    BY <1>1, <1>2 DEF StartTypes
  <1>5. StartTypes'
    BY <1>1, <1>2, <1>3 DEF StartTypes, MainSteps, WorkerSteps, Front
  <1>6. ArgInv'
    BY <1>1, <1>2, <1>3 DEF ArgInv
  <1>7. IdInv'
    <2>1. \A v \in Workers : id[v] = i => pc[v] \in {"ended", "exited"}
      BY <1>1 DEF FreeId
    <2> SUFFICES ASSUME NEW u \in Workers, NEW v \in Workers, u # v, id'[u] = id'[v], id'[u] # None
                 PROVE  pc'[u] \in {"ended", "exited"} \/ pc'[v] \in {"ended", "exited"}
      BY DEF IdInv
    <2>2. CASE u = arg
      BY <1>3, <1>4, <2>1, <2>2
    <2>3. CASE v = arg
      BY <1>3, <1>4, <2>1, <2>3
    <2>4. CASE u # arg /\ v # arg
      BY <1>3, <1>4, <2>4 DEF IdInv
    <2> QED
      BY <2>2, <2>3, <2>4
  <1>8. ASSUME NEW v \in Workers PROVE FrameInv(v)'
    <2>1. Creates(v)' <=> Creates(v)
      BY <1>1, <1>2, <1>3 DEF Creates
    <2>2. CASE v # arg
      <3>1. /\ FrameInv(v) /\ ~Creates(v) /\ ~Creates(v)'
            /\ UNCHANGED <<pc[v], frame[v], started[v], mtx[v], tuple[v], handle[v], id[v]>>
        BY <1>1, <1>3, <1>4, <2>1, <2>2 DEF Creates
      <3> QED
        BY <3>1 DEF FrameInv
    <2>3. CASE v = arg
      BY <1>1, <1>2, <1>3, <1>4, <2>1, <2>3 DEF FrameInv, Creates
    <2> QED
      BY <2>2, <2>3
  <1>9. ExitInv'
    BY <1>1, <1>2, <1>3, <1>4, ExitKept DEF future, exits, Front
  <1> QED
    BY <1>5, <1>6, <1>7, <1>8, <1>9

\* Main tests, sleeps and wakes in _Thrd_create, or leaves it.
LEMMA CreatorInv ==
  ASSUME IInv, ThrdTest \/ ThrdWake \/ (Spurious /\ pc[Main] = "c_sleep")
  PROVE  IInv'
  <1> USE DEF IInv, StartInv
  <1> DEFINE Leaves == /\ pc[Main] = "c_test" /\ started[arg] /\ pc' = [pc EXCEPT ![Main] = "idle"]
                       /\ Leave(arg) /\ arg' = None
             Sleeps == /\ pc[Main] = "c_test" /\ pc' = [pc EXCEPT ![Main] = "c_sleep"]
                       /\ mtx' = [mtx EXCEPT ![arg] = None] /\ UNCHANGED <<arg, frame, started>>
             Wakes  == /\ pc[Main] = "c_wake" /\ pc' = [pc EXCEPT ![Main] = "c_test"]
                       /\ mtx[arg] = None /\ mtx' = [mtx EXCEPT ![arg] = Main]
                       /\ UNCHANGED <<arg, frame, started>>
             Spurs  == /\ pc[Main] = "c_sleep" /\ pc' = [pc EXCEPT ![Main] = "c_wake"]
                       /\ UNCHANGED <<arg, frame, started, mtx>>
  <1>1. (Leaves \/ Sleeps \/ Wakes \/ Spurs) /\ UNCHANGED <<tuple, handle, id, future, exits>>
    BY DEF ThrdTest, ThrdWake, Spurious, start, Goto
  <1>2. pc[Main] \in {"c_test", "c_wake", "c_sleep"} /\ arg \in Workers
    BY <1>1 DEF ArgInv
  <1>3. PICK q \in {"idle", "c_sleep", "c_test", "c_wake"} : pc' = [pc EXCEPT ![Main] = q]
    BY <1>1
  <1>4. pc'[Main] = q /\ \A v \in Workers : pc'[v] = pc[v]
    BY <1>3 DEF StartTypes
  <1>5. StartTypes'
    <2>1. /\ pc' \in [Workers \cup {Main} -> MainSteps \cup WorkerSteps]
          /\ pc'[Main] \in MainSteps /\ \A v \in Workers : pc'[v] \in WorkerSteps
      BY <1>3, <1>4 DEF StartTypes, MainSteps
    <2>2. /\ frame' \in [Workers -> {"none", "live"}]
          /\ started' \in [Workers -> BOOLEAN]
          /\ mtx' \in [Workers -> Workers \cup {Main, None}]
      <3>1. CASE Leaves
        BY <3>1 DEF StartTypes, Leave
      <3>2. CASE Sleeps \/ Wakes \/ Spurs
        BY <3>2 DEF StartTypes
      <3> QED
        BY <1>1, <3>1, <3>2
    <2> QED
      BY <1>1, <2>1, <2>2 DEF StartTypes
  <1>6. ArgInv'
    <2>1. arg \in Created
      BY <1>2 DEF ArgInv
    <2>2. CASE Leaves
      BY <1>4, <2>2 DEF ArgInv, StartTypes
    <2>3. CASE Sleeps \/ Wakes \/ Spurs
      BY <1>4, <2>1, <2>3 DEF ArgInv, StartTypes
    <2> QED
      BY <1>1, <2>2, <2>3
  <1>7. IdInv'
    BY <1>1, <1>4 DEF IdInv
  <1>8. ASSUME NEW v \in Workers PROVE FrameInv(v)'
    <2>1. FrameInv(v) /\ UNCHANGED <<pc[v], handle[v], id[v], tuple[v]>> /\ v # Main
      BY <1>1, <1>4
    <2>2. CASE v # arg
      <3>1. UNCHANGED <<frame[v], started[v], mtx[v]>>
        BY <1>1, <1>2, <2>2 DEF Leave, StartTypes
      <3>2. ~Creates(v) /\ ~Creates(v)'
        BY <1>1, <1>2, <1>4, <2>2 DEF Creates
      <3> QED
        BY <2>1, <3>1, <3>2 DEF FrameInv
    <2>3. CASE v = arg /\ Leaves
      <3>1. pc[Main] = "c_test" /\ started[v] /\ Creates(v) /\ ~Creates(v)'
        BY <1>4, <2>3 DEF Creates, StartTypes
      <3>2. frame'[v] = "none" /\ mtx'[v] = None /\ started'[v] = FALSE
        BY <1>2, <2>3 DEF Leave, StartTypes
      <3> QED
        BY <2>1, <3>1, <3>2 DEF FrameInv
    <2>4. CASE v = arg /\ Sleeps
      BY <1>4, <2>1, <2>4 DEF FrameInv, StartTypes, Creates
    <2>5. CASE v = arg /\ Wakes
      BY <1>4, <2>1, <2>5 DEF FrameInv, StartTypes, Creates
    <2>6. CASE v = arg /\ Spurs
      BY <1>4, <2>1, <2>6 DEF FrameInv, StartTypes, Creates
    <2> QED
      BY <1>1, <2>2, <2>3, <2>4, <2>5, <2>6
  <1>9. ExitInv'
    BY <1>1, <1>4, ExitKept DEF future, exits
  <1> QED
    BY <1>5, <1>6, <1>7, <1>8, <1>9

\* The runner's side of the handshake.
LEMMA RunnerInv ==
  ASSUME IInv, NEW w \in Workers,
         RunnerCopy(w) \/ RunnerLock(w) \/ RunnerStarted(w) \/ RunnerSignal(w) \/ RunnerUnlock(w)
  PROVE  IInv'
  <1> USE DEF IInv, StartInv, Goto
  <1>1. w # Main /\ pc[w] \in {"copy", "lock", "started", "signal", "unlock"} /\ Creates(w)
    BY DEF RunnerCopy, RunnerLock, RunnerStarted, RunnerSignal, RunnerUnlock, FrameInv
  <1>2. PICK q \in {"lock", "started", "signal", "unlock", "func"}, m \in MainSteps :
          /\ pc' = [pc EXCEPT ![w] = q, ![Main] = m]
          /\ m = pc[Main] \/ (pc[Main] = "c_sleep" /\ m = "c_wake")
    <2>1. CASE RunnerSignal(w)
      BY <2>1 DEF RunnerSignal, StartTypes, MainSteps
    <2>2. CASE ~RunnerSignal(w)
      <3>1. PICK q \in {"lock", "started", "signal", "unlock", "func"} : pc' = [pc EXCEPT ![w] = q]
        BY <2>2 DEF RunnerCopy, RunnerLock, RunnerStarted, RunnerUnlock
      <3>2. pc' = [pc EXCEPT ![w] = q, ![Main] = pc[Main]]
        BY <1>1, <3>1 DEF StartTypes
      <3> QED
        BY <3>2 DEF StartTypes
    <2> QED
      BY <2>1, <2>2
  <1>3. pc'[w] = q /\ pc'[Main] = m /\ \A v \in Workers \ {w} : pc'[v] = pc[v]
    BY <1>1, <1>2 DEF StartTypes
  <1>4. UNCHANGED <<arg, frame, tuple, handle, id, future, exits>>
    BY DEF RunnerCopy, RunnerLock, RunnerStarted, RunnerSignal, RunnerUnlock, start
  <1>5. StartTypes'
    <2>1. /\ pc' \in [Workers \cup {Main} -> MainSteps \cup WorkerSteps]
          /\ pc'[Main] \in MainSteps /\ \A v \in Workers : pc'[v] \in WorkerSteps
      BY <1>2, <1>3 DEF StartTypes, WorkerSteps, Front
    <2>2. started' \in [Workers -> BOOLEAN] /\ mtx' \in [Workers -> Workers \cup {Main, None}]
      <3>1. CASE RunnerStarted(w)
        BY <3>1 DEF StartTypes, RunnerStarted
      <3>2. CASE RunnerLock(w) \/ RunnerUnlock(w)
        BY <3>2 DEF StartTypes, RunnerLock, RunnerUnlock
      <3>3. CASE RunnerCopy(w) \/ RunnerSignal(w)
        BY <3>3 DEF StartTypes, RunnerCopy, RunnerSignal, start
      <3> QED
        BY <3>1, <3>2, <3>3
    <2> QED
      BY <1>4, <2>1, <2>2 DEF StartTypes
  <1>6. ArgInv'
    BY <1>1, <1>2, <1>3, <1>4 DEF ArgInv, Creates, FrameInv
  <1>7. IdInv'
    BY <1>1, <1>3, <1>4 DEF IdInv
  <1>8. ASSUME NEW v \in Workers PROVE FrameInv(v)'
    <2>1. /\ FrameInv(v) /\ UNCHANGED <<frame[v], handle[v], id[v], tuple[v]>> /\ v # Main
          /\ Creates(v)' <=> Creates(v)
          /\ pc'[Main] = "c_start" <=> pc[Main] = "c_start"
          /\ pc'[Main] \in {"c_start", "c_test"} <=> pc[Main] \in {"c_start", "c_test"}
      BY <1>2, <1>3, <1>4 DEF Creates
    <2>2. CASE v # w
      <3>1. UNCHANGED <<started[v], mtx[v], pc[v]>>
        BY <1>3, <2>2 DEF RunnerCopy, RunnerLock, RunnerStarted, RunnerSignal, RunnerUnlock, start,
                         StartTypes
      <3> QED
        BY <2>1, <3>1 DEF FrameInv
    <2>3. CASE v = w /\ RunnerCopy(w)
      BY <1>1, <1>3, <2>1, <2>3 DEF RunnerCopy, start, FrameInv, StartTypes
    <2>4. CASE v = w /\ RunnerLock(w)
      BY <1>1, <1>3, <2>1, <2>4 DEF RunnerLock, FrameInv, StartTypes
    <2>5. CASE v = w /\ RunnerStarted(w)
      BY <1>1, <1>3, <2>1, <2>5 DEF RunnerStarted, FrameInv, StartTypes
    <2>6. CASE v = w /\ RunnerSignal(w)
      BY <1>1, <1>3, <2>1, <2>6 DEF RunnerSignal, start, FrameInv, StartTypes
    <2>7. CASE v = w /\ RunnerUnlock(w)
      BY <1>1, <1>3, <2>1, <2>7 DEF RunnerUnlock, FrameInv, StartTypes
    <2> QED
      BY <2>2, <2>3, <2>4, <2>5, <2>6, <2>7
  <1>9. ExitInv'
    BY <1>1, <1>3, <1>4, ExitKept DEF future, exits, Front
  <1> QED
    BY <1>5, <1>6, <1>7, <1>8, <1>9

\* A worker's function ends; Main joins, detaches, waits for a future.
LEMMA OtherInv ==
  ASSUME IInv,
         \/ StartRelease \/ Joined \/ WaitTest \/ (Spurious /\ pc[Main] # "c_sleep")
         \/ \E w \in Workers : Join(w) \/ Detach(w) \/ FunctionReturns(w) \/ ThrdExit(w)
         \/ \E s \in States : Wait(s)
  PROVE  IInv'
  <1> USE DEF Goto
  <1>0. StartTypes /\ ArgInv /\ ExitTypes
    BY DEF IInv, StartInv, ExitInv
  <1>1. UNCHANGED <<frame, started, mtx, tuple, id, future, exits>>
    BY DEF StartRelease, Joined, WaitTest, Spurious, Join, Detach, FunctionReturns, ThrdExit, Wait, start
  <1>2. \/ /\ UNCHANGED <<handle, arg>>
           /\ \E w \in Workers : pc[w] = "func" /\ \E q \in {"b_lock", "exited"} : pc' = [pc EXCEPT ![w] = q]
        \/ \E w \in Workers :
              /\ UNCHANGED <<pc, arg>>
              /\ handle[w] = "open" /\ handle' = [handle EXCEPT ![w] = "closed"]
        \/ \E q \in MainSteps \ Making :
              /\ pc[Main] \notin Making /\ pc' = [pc EXCEPT ![Main] = q]
              /\ q \in {"join", "s_release"} => arg' \in Workers
              /\ q \in {"f_lock", "f_sleep", "p_lock"} => arg' \in States
              /\ \/ UNCHANGED handle
                 \/ pc[Main] = "join" /\ handle' = [handle EXCEPT ![arg] = "closed"]
                    /\ pc[arg] \in {"ended", "exited"}
    <2>1. CASE StartRelease
      BY <1>0, <2>1 DEF StartRelease, Making, MainSteps, start
    <2>2. CASE Joined
      BY <1>0, <2>2 DEF Joined, Making, MainSteps, start
    <2>3. CASE WaitTest
      BY <1>0, <2>3 DEF WaitTest, Making, MainSteps, start, ArgInv
    <2>4. CASE Spurious /\ pc[Main] # "c_sleep"
      BY <1>0, <2>4 DEF Spurious, Making, MainSteps, start, ArgInv
    <2>5. ASSUME NEW w \in Workers, Join(w) PROVE <1>2!:
      BY <1>0, <2>5 DEF Join, Making, MainSteps, start
    <2>6. ASSUME NEW w \in Workers, Detach(w) PROVE <1>2!:
      BY <1>0, <2>6 DEF Detach
    <2>7. ASSUME NEW w \in Workers, FunctionReturns(w) \/ ThrdExit(w) PROVE <1>2!:
      BY <1>0, <2>7 DEF FunctionReturns, ThrdExit, start
    <2>8. ASSUME NEW s \in States, Wait(s) PROVE <1>2!:
      BY <1>0, <2>8 DEF Wait, Making, MainSteps, start
    <2> QED
      BY <2>1, <2>2, <2>3, <2>4, <2>5, <2>6, <2>7, <2>8
  <1>3. /\ pc' \in [Workers \cup {Main} -> MainSteps \cup WorkerSteps] /\ pc'[Main] \in MainSteps
        /\ \A w \in Workers : pc'[w] = pc[w] \/ (pc[w] = "func" /\ pc'[w] \in {"b_lock", "exited"})
    BY <1>0, <1>2 DEF StartTypes, MainSteps, WorkerSteps, Front
  <1>4. /\ handle' \in [Workers -> {"none", "open", "closed"}]
        /\ \A w \in Workers : handle'[w] = handle[w] \/ pc[w] # "none"
    <2>1. \A w \in Workers : handle[w] = "open" => pc[w] # "none"
      BY DEF IInv, StartInv, FrameInv
    <2> QED
      BY <1>0, <1>2, <2>1 DEF StartTypes
  <1>5. \/ pc'[Main] = pc[Main] /\ arg' = arg
        \/ /\ pc[Main] \notin Making /\ pc'[Main] \notin Making
           /\ pc'[Main] \in {"join", "s_release"} => arg' \in Workers
           /\ pc'[Main] \in {"f_lock", "f_sleep", "p_lock"} => arg' \in States
    BY <1>0, <1>2 DEF StartTypes
  <1>6. StartInv'
    BY <1>0, <1>1, <1>3, <1>4, <1>5, StartKept DEF StartTypes, Outside, Scans
  <1>7. ExitInv'
    BY <1>1, <1>3, ExitKept DEF future, exits, Front
  <1> QED
    BY <1>6, <1>7 DEF IInv

-----------------------------------------------------------------------------
(* Promises and the exit table *)

LEMMA EntryFacts ==
  ASSUME IInv, NEW x \in Slots, table[x] # None
  PROVE  /\ table[x] \in Entry /\ EntryInv(x)
         /\ table[x].by \in Workers /\ table[x].state \in States /\ table[x].id \in Ids
  <1>1. table[x] \in Entry /\ EntryInv(x)
    BY DEF IInv, ExitInv, ExitTypes
  <1> QED
    BY <1>1 DEF Entry

\* Waking Main changes no worker.
LEMMA WokenMain ==
  ASSUME IInv, NEW s
  PROVE  /\ Woken(s) \in [Workers \cup {Main} -> MainSteps \cup WorkerSteps]
         /\ Woken(s)[Main] \in MainSteps
         /\ \A w \in Workers : Woken(s)[w] = pc[w]
         /\ Woken(s)[Main] = pc[Main] \/ (pc[Main] = "f_sleep" /\ Woken(s)[Main] = "f_lock")
  BY DEF Woken, IInv, StartInv, StartTypes, MainSteps

LEMMA SetValueInv ==
  ASSUME IInv, NEW w \in Workers, NEW s \in States, SetValue(w, s)
  PROVE  IInv'
  <1> USE DEF IInv
  <1>1. /\ ~stored[s]
        /\ stored' = [stored EXCEPT ![s] = TRUE] /\ ready' = [ready EXCEPT ![s] = TRUE]
        /\ pc' = Woken(s)
        /\ UNCHANGED <<arg, frame, started, mtx, tuple, handle, id, setter, alive, holder, table,
                       num_used, blocks, exit, at, lost>>
    BY DEF SetValue, start, exits
  <1>2. StartInv'
    BY <1>1, WokenMain, StartKept DEF StartInv, StartTypes, ArgInv, Making
  <1>3. \A v \in Workers : pc'[v] = pc[v]
    BY <1>1, WokenMain
  <1>4. \A r \in States : stored[r] => stored'[r] /\ ready'[r] = ready[r]
    BY <1>1 DEF ExitInv, ExitTypes
  <1>5. ExitTypes' /\ UsedInv'
    BY <1>1 DEF ExitInv, ExitTypes, UsedInv
  <1>6. ASSUME NEW x \in Slots, table'[x] # None PROVE EntryInv(x)'
    BY <1>1, <1>3, <1>4, <1>6, EntryFacts DEF EntryInv, Broadcasts
  <1>7. ASSUME NEW v \in Workers, pc'[v] = "reg" PROVE RegInv(v)'
    BY <1>1, <1>3, <1>4, <1>7 DEF ExitInv, RegInv
  <1>8. ASSUME NEW r \in States PROVE HeldInv(r)'
    <2>1. HeldInv(r) /\ (holder[r] # None => holder[r] \in Workers)
      BY DEF ExitInv, ExitTypes
    <2>2. r = s => stored'[r]
      BY <1>1 DEF ExitInv, ExitTypes
    <2>3. r # s => ready'[r] = ready[r] /\ stored'[r] = stored[r]
      BY <1>1 DEF ExitInv, ExitTypes
    <2> QED
      BY <1>1, <1>3, <2>1, <2>2, <2>3 DEF HeldInv
  <1>9. ASSUME NEW v \in Workers PROVE ScanInv(v)'
    <2>1. pc[v] \in Scans \ {"b_scan"} => table[at[v]].by \in Workers
      BY EntryFacts DEF ExitInv, ScanInv
    <2> QED
      BY <1>1, <1>3, <2>1 DEF ExitInv, ScanInv
  <1> QED
    BY <1>2, <1>5, <1>6, <1>7, <1>8, <1>9 DEF ExitInv

LEMMA SetAtExitInv ==
  ASSUME IInv, NEW w \in Workers, NEW s \in States, SetAtExit(w, s)
  PROVE  IInv'
  <1> USE DEF IInv
  <1>1. /\ ~stored[s] /\ alive[s] /\ pc[w] = "func" /\ pc' = [pc EXCEPT ![w] = "reg"]
        /\ stored' = [stored EXCEPT ![s] = TRUE] /\ holder' = [holder EXCEPT ![s] = w]
        /\ at' = [at EXCEPT ![w] = s]
        /\ UNCHANGED <<arg, frame, started, mtx, tuple, handle, id, setter, alive, ready, table,
                       num_used, blocks, exit, lost>>
    BY DEF SetAtExit, start, Goto
  <1>2. StartInv'
    BY <1>1, StartKept DEF StartInv, StartTypes, Outside, WorkerSteps, MainSteps
  <1>3. pc'[w] = "reg" /\ at'[w] = s /\ \A v \in Workers \ {w} : pc'[v] = pc[v] /\ at'[v] = at[v]
    BY <1>1 DEF StartInv, StartTypes, ExitInv, ExitTypes
  <1>4. /\ \A r \in States : stored[r] => stored'[r] /\ holder'[r] = holder[r]
        /\ \A r \in States \ {s} : stored'[r] = stored[r] /\ holder'[r] = holder[r]
        /\ stored'[s] /\ holder'[s] = w
    BY <1>1 DEF ExitInv, ExitTypes
  <1>5. ExitTypes' /\ UsedInv'
    BY <1>1 DEF ExitInv, ExitTypes, UsedInv
  <1>6. ASSUME NEW x \in Slots, table'[x] # None PROVE EntryInv(x)'
    <2>1. \A v \in Workers : Broadcasts(v, x) => Broadcasts(v, x)' /\ pc'[v] = pc[v]
      BY <1>1, <1>3 DEF Broadcasts
    <2>2. pc'[table[x].by] # "ended"
      BY <1>1, <1>3, <1>6, EntryFacts DEF EntryInv
    <2> QED
      BY <1>1, <1>4, <1>6, <2>1, <2>2, EntryFacts DEF EntryInv
  <1>7. ASSUME NEW v \in Workers, pc'[v] = "reg" PROVE RegInv(v)'
    <2>1. CASE v = w
      <3>1. ~ready[s] /\ s \notin lost
        BY <1>1 DEF ExitInv, HeldInv
      <3>2. \A x \in Slots : table[x] # None => table[x].state # s
        BY <1>1, EntryFacts DEF EntryInv
      <3> QED
        BY <1>1, <1>3, <1>4, <2>1, <3>1, <3>2 DEF RegInv
    <2>2. CASE v # w
      BY <1>1, <1>3, <1>4, <1>7, <2>2 DEF ExitInv, RegInv
    <2> QED
      BY <2>1, <2>2
  <1>8. ASSUME NEW r \in States PROVE HeldInv(r)'
    <2>1. HeldInv(r) /\ (holder[r] # None => holder[r] \in Workers)
      BY DEF ExitInv, ExitTypes
    <2>2. CASE r = s
      BY <1>3, <1>4, <2>2 DEF HeldInv
    <2>3. CASE r # s
      BY <1>1, <1>3, <1>4, <2>1, <2>3 DEF HeldInv
    <2> QED
      BY <2>2, <2>3
  <1>9. ASSUME NEW v \in Workers PROVE ScanInv(v)'
    <2>1. pc[v] \in Scans \ {"b_scan"} => table[at[v]].by \in Workers
      BY EntryFacts DEF ExitInv, ScanInv
    <2>2. CASE v = w
      BY <1>1, <1>3, <2>2 DEF ExitInv, ScanInv, Scans
    <2>3. CASE v # w
      BY <1>1, <1>3, <2>1, <2>3 DEF ExitInv, ScanInv
    <2> QED
      BY <2>2, <2>3
  <1> QED
    BY <1>2, <1>5, <1>6, <1>7, <1>8, <1>9 DEF ExitInv

\* Main lets go of a promise: a state that is ready, or was never set.
LEMMA DestroyInv ==
  ASSUME IInv, DestroyUnset \/ \E s \in States : Destroy(s)
  PROVE  IInv'
  <1> USE DEF IInv, Goto
  <1>0. StartTypes /\ ArgInv /\ ExitTypes
    BY DEF StartInv, ExitInv
  <1>1. UNCHANGED <<frame, started, mtx, tuple, handle, id, setter, holder, table, num_used, blocks,
                    exit, at, lost>>
    BY DEF DestroyUnset, Destroy, start, exits
  <1>2. /\ pc[Main] \in {"idle", "p_lock"}
        /\ \E q \in {"idle", "p_lock", "terminated"} :
             pc' = [pc EXCEPT ![Main] = q] /\ (q = "p_lock" => arg' \in States)
    <2>1. CASE DestroyUnset
      BY <2>1 DEF DestroyUnset
    <2>2. ASSUME NEW s \in States, Destroy(s) PROVE <1>2!:
      <3>1. CASE ready[s]
        <4>1. pc' = [pc EXCEPT ![Main] = "idle"] /\ pc[Main] = "idle"
          BY <1>0, <2>2, <3>1 DEF Destroy, StartTypes
        <4> QED
          BY <4>1
      <3>2. CASE ~ready[s]
        BY <2>2, <3>2 DEF Destroy
      <3> QED
        BY <3>1, <3>2
    <2> QED
      BY <2>1, <2>2
  <1>3. /\ pc' \in [Workers \cup {Main} -> MainSteps \cup WorkerSteps] /\ pc'[Main] \in MainSteps
        /\ \A v \in Workers : pc'[v] = pc[v]
    BY <1>0, <1>2 DEF StartTypes, MainSteps
  <1>4. StartInv'
    <2>1. /\ pc[Main] \notin Making /\ pc'[Main] \notin Making
          /\ pc'[Main] \in {"join", "s_release"} => arg' \in Workers
          /\ pc'[Main] \in {"f_lock", "f_sleep", "p_lock"} => arg' \in States
      BY <1>0, <1>2 DEF StartTypes, Making
    <2>2. tuple' \in [Workers -> {"none", "live", "gone"}] /\ handle' \in [Workers -> {"none", "open", "closed"}]
      BY <1>0, <1>1 DEF StartTypes
    <2> QED
      BY <1>1, <1>3, <2>1, <2>2, StartKept
  <1>5. \E s \in States :
          \/ UNCHANGED <<alive, stored, ready>>
          \/ ready[s] /\ alive' = [alive EXCEPT ![s] = FALSE] /\ UNCHANGED <<stored, ready>>
          \/ /\ holder[s] = None /\ ~stored[s]
             /\ stored' = [stored EXCEPT ![s] = TRUE] /\ ready' = [ready EXCEPT ![s] = TRUE]
             /\ alive' = [alive EXCEPT ![s] = FALSE]
    <2>1. CASE DestroyUnset
      BY <1>0, <2>1 DEF DestroyUnset, ArgInv
    <2>2. ASSUME NEW s \in States, Destroy(s) PROVE <1>5!:
      BY <2>2 DEF Destroy
    <2> QED
      BY <2>1, <2>2
  <1>6. /\ \A r \in States : stored[r] => stored'[r] /\ ready'[r] = ready[r]
        /\ \A r \in States : stored[r] /\ ~ready[r] => alive'[r] = alive[r]
        /\ \A r \in States : ready'[r] => ready[r] \/ stored'[r]
        /\ ExitTypes'
    BY <1>0, <1>1, <1>5 DEF ExitTypes
  <1>7. ASSUME NEW x \in Slots, table'[x] # None PROVE EntryInv(x)'
    BY <1>1, <1>3, <1>6, <1>7, EntryFacts DEF EntryInv, Broadcasts
  <1>8. ASSUME NEW v \in Workers, pc'[v] = "reg" PROVE RegInv(v)'
    BY <1>1, <1>3, <1>6, <1>8 DEF ExitInv, RegInv
  <1>9. ASSUME NEW r \in States PROVE HeldInv(r)'
    <2>1. HeldInv(r) /\ (holder[r] # None => holder[r] \in Workers)
      BY <1>0 DEF ExitInv, ExitTypes
    <2> QED
      BY <1>1, <1>3, <1>6, <2>1 DEF HeldInv
  <1>10. ASSUME NEW v \in Workers PROVE ScanInv(v)'
    <2>1. pc[v] \in Scans \ {"b_scan"} => table[at[v]].by \in Workers
      BY EntryFacts DEF ExitInv, ScanInv
    <2> QED
      BY <1>1, <1>3, <2>1 DEF ExitInv, ScanInv
  <1> QED
    BY <1>1, <1>4, <1>6, <1>7, <1>8, <1>9, <1>10 DEF ExitInv, UsedInv

\* Every set of numbers has a least one.
LEMMA LeastOf ==
  ASSUME NEW T, T \subseteq Nat, T # {}
  PROVE  \E m \in T : \A n \in T : m <= n
  <1> DEFINE R == { p \in Nat \X Nat : p[1] < p[2] }
  <1>1. IsWellFoundedOn(R, Nat)
    BY NatLessThanWellFounded, Zenon DEF OpToRel
  <1>2. PICK m \in T : \A n \in T : ~(<<n, m>> \in R)
    <2> HIDE DEF R
    <2> QED
      BY <1>1, WFMin
  <1>3. \A n \in T : m <= n
    <2> TAKE n \in T
    <2>1. m \in Nat /\ n \in Nat
      OBVIOUS
    <2>2. n < m => <<n, m>> \in R
      BY <2>1
    <2> QED
      BY <1>2, <2>1, <2>2
  <1> QED
    BY <1>3

LEMMA MinIn ==
  ASSUME NEW T, T \subseteq Nat, T # {}
  PROVE  Min(T) \in T
  BY LeastOf DEF Min

\* The slot the loops of the broadcast come to first.
LEMMA FirstSlot ==
  ASSUME NEW T, T \subseteq Slots, T # {}
  PROVE  \E x \in T : \A y \in T : Before(x, y)
  <1> DEFINE A == { x[1] : x \in T }
  <1>1. \A x \in T : x[1] \in Nat /\ x[2] \in Nat
    BY DEF Slots
  <1>2. PICK b \in A : \A c \in A : b <= c
    <2>1. A \subseteq Nat /\ A # {}
      BY <1>1
    <2> HIDE DEF A
    <2> QED
      BY <2>1, LeastOf
  <1> DEFINE B == { x[2] : x \in { y \in T : y[1] = b } }
  <1>3. PICK i \in B : \A j \in B : i <= j
    <2>1. B \subseteq Nat /\ B # {}
      BY <1>1
    <2> HIDE DEF B
    <2> QED
      BY <2>1, LeastOf
  <1>4. PICK x \in T : x[1] = b /\ x[2] = i
    OBVIOUS
  <1>5. ASSUME NEW y \in T PROVE Before(x, y)
    <2>1. b <= y[1] /\ (y[1] = b => i <= y[2])
      BY <1>2, <1>3
    <2> QED
      BY <1>1, <1>4, <2>1 DEF Before
  <1> QED
    BY <1>5

\* The slots of block b that are used.
Used(b) == {i \in 1..Items : table[<<b, i>>] # None}

LEMMA UsedFinite ==
  ASSUME NEW b
  PROVE  /\ IsFiniteSet(Used(b)) /\ Cardinality(Used(b)) \in Nat
         /\ Cardinality(Used(b)) # Items => \E i \in 1..Items : table[<<b, i>>] = None
  <1>1. IsFiniteSet(1..Items) /\ Cardinality(1..Items) = Items
    BY FS_Interval
  <1>2. Used(b) \in SUBSET (1..Items)
    BY DEF Used
  <1>3. IsFiniteSet(Used(b))
    BY <1>1, <1>2, FS_Subset
  <1>4. Used(b) = 1..Items \/ \E i \in 1..Items : table[<<b, i>>] = None
    BY DEF Used
  <1> QED
    BY <1>1, <1>3, <1>4, FS_CardinalityType


\* An entry goes to an empty slot of a block.
Stores(w, b, i) ==
    /\ b <= blocks'
    /\ table[<<b, i>>] = None
    /\ table' = [table EXCEPT ![<<b, i>>] = [id |-> id[w], state |-> at[w], by |-> w]]
    /\ num_used' = [num_used EXCEPT ![b] = @ + 1]
    /\ UNCHANGED lost

Drops(w) == lost' = lost \cup {at[w]} /\ UNCHANGED <<table, num_used>>

\* The slot that Register takes is empty, in an old block and in a new one.
LEMMA RegisterStores ==
  ASSUME IInv, NEW w \in Workers, Register(w)
  PROVE  /\ blocks' \in {blocks, blocks + 1} /\ blocks' <= Blocks
         /\ \/ Drops(w)
            \/ \E b \in 1..Blocks, i \in 1..Items : Stores(w, b, i)
  <1> DEFINE open == {b \in 1..blocks : num_used[b] # Items}
  <1> USE DEF IInv, ExitInv
  <1>1. blocks \in 1..Blocks /\ blocks \in Nat /\ Blocks \in Nat
    BY DEF ExitTypes
  <1>2. ASSUME NEW b \in 1..Blocks, \E i \in 1..Items : table[<<b, i>>] = None, Store(w, b),
               b <= blocks', UNCHANGED lost
        PROVE  \E i \in 1..Items : Stores(w, b, i)
    <2> DEFINE T == {j \in 1..Items : table[<<b, j>>] = None}
    <2>1. T \subseteq Nat /\ T # {}
      BY <1>2
    <2>2. Min(T) \in T
      <3> HIDE DEF T
      <3> QED
        BY <2>1, MinIn
    <2>3. /\ table' = [table EXCEPT ![<<b, Min(T)>>] = [id |-> id[w], state |-> at[w], by |-> w]]
          /\ num_used' = [num_used EXCEPT ![b] = @ + 1]
      BY <1>2 DEF Store
    <2>4. Stores(w, b, Min(T))
      BY <1>2, <2>2, <2>3 DEF Stores
    <2> QED
      BY <2>2, <2>4
  <1>3. CASE open # {} /\ Store(w, Min(open)) /\ UNCHANGED <<blocks, lost>>
    <2>1. open \subseteq Nat
      BY <1>1
    <2>2. Min(open) \in open
      <3> HIDE DEF open
      <3> QED
        BY <1>3, <2>1, MinIn
    <2>3. PICK b \in 1..blocks : b = Min(open) /\ num_used[b] # Items
      BY <2>2
    <2>4. b \in 1..Blocks /\ \E i \in 1..Items : table[<<b, i>>] = None
      <3>1. b \in 1..Blocks
        BY <1>1
      <3> QED
        BY <2>3, <3>1, UsedFinite DEF UsedInv, Used
    <2>5. \E i \in 1..Items : Stores(w, b, i)
      <3> HIDE DEF open
      <3> QED
        BY <1>1, <1>2, <1>3, <2>3, <2>4
    <2> QED
      BY <1>1, <1>3, <2>4, <2>5
  <1>4. CASE blocks < Blocks /\ blocks' = blocks + 1 /\ Store(w, blocks + 1) /\ UNCHANGED lost
    <2>1. blocks + 1 \in 1..Blocks
      BY <1>1, <1>4
    <2>2. <<blocks + 1, 1>> \in Slots
      BY <2>1 DEF Slots
    <2>3. table[<<blocks + 1, 1>>] = None
      BY <1>1, <2>2 DEF EntryInv
    <2>4. \E i \in 1..Items : Stores(w, blocks + 1, i)
      BY <1>1, <1>2, <1>4, <2>1, <2>3
    <2> QED
      BY <1>1, <1>4, <2>1, <2>4
  <1>5. CASE Drops(w) /\ UNCHANGED blocks
    BY <1>1, <1>5
  <1> QED
    BY <1>3, <1>4, <1>5 DEF Register, Drops

LEMMA RegisterInv ==
  ASSUME IInv, NEW w \in Workers, Register(w)
  PROVE  IInv'
  <1> USE DEF IInv
  <1>1. /\ pc[w] = "reg" /\ pc' = [pc EXCEPT ![w] = "func"]
        /\ at' = [at EXCEPT ![w] = None]
        /\ UNCHANGED <<arg, frame, started, mtx, tuple, handle, id, setter, alive, stored, ready,
                       holder, exit>>
    BY DEF Register, start, future, Goto
  <1>2. StartInv'
    BY <1>1, StartKept DEF StartInv, StartTypes, Outside, WorkerSteps, Front, MainSteps
  <1>3. pc'[w] = "func" /\ at'[w] = None /\ \A v \in Workers \ {w} : pc'[v] = pc[v] /\ at'[v] = at[v]
    BY <1>1 DEF StartInv, StartTypes, ExitInv, ExitTypes
  <1>4. RegInv(w) /\ id[w] \in Ids
    BY <1>1 DEF ExitInv, StartInv, FrameInv, StartTypes
  <1>5. blocks' \in 1..Blocks /\ blocks <= blocks'
    BY RegisterStores DEF ExitInv, ExitTypes
  <1>6. \A v \in Workers, x \in Slots : Broadcasts(v, x) => Broadcasts(v, x)' /\ pc'[v] = pc[v]
    BY <1>1, <1>3 DEF Broadcasts
  <1>7. \A x \in Slots : table[x] # None => pc'[table[x].by] # "ended"
    BY <1>3, EntryFacts DEF EntryInv
  <1>8. ASSUME NEW v \in Workers PROVE pc[v] \notin Scans /\ pc'[v] \notin Scans /\ exit # v
    <2>1. exit = None
      BY DEF Register
    <2> QED
      BY <1>1, <1>3, <2>1 DEF ExitInv, ScanInv, Scans
  <1>9. \A v \in Workers : ScanInv(v)'
    BY <1>1, <1>8 DEF ScanInv
  <1>10. CASE Drops(w)
    <2>0. lost' = lost \cup {at[w]} /\ UNCHANGED <<table, num_used>>
      BY <1>10 DEF Drops
    <2>1. ExitTypes'
      BY <1>1, <1>4, <1>5, <2>0 DEF ExitInv, ExitTypes, RegInv
    <2>2. UsedInv'
      BY <2>0 DEF ExitInv, UsedInv
    <2>3. ASSUME NEW x \in Slots, table'[x] # None PROVE EntryInv(x)'
      <3>1. EntryInv(x) /\ table[x].state # at[w] /\ table[x].by \in Workers /\ table[x].state \in States
        BY <1>4, <2>0, <2>3, EntryFacts DEF RegInv
      <3>2. x[1] <= blocks'
        BY <1>5, <3>1 DEF EntryInv, Slots, ExitInv, ExitTypes
      <3> QED
        BY <1>1, <1>6, <1>7, <2>0, <2>3, <3>1, <3>2 DEF EntryInv
    <2>4. ASSUME NEW v \in Workers, pc'[v] = "reg" PROVE RegInv(v)'
      <3>1. v # w /\ RegInv(v) /\ at[v] # at[w]
        BY <1>3, <1>4, <2>4 DEF ExitInv, RegInv
      <3> QED
        BY <1>1, <1>3, <2>0, <3>1 DEF RegInv
    <2>5. ASSUME NEW s \in States PROVE HeldInv(s)'
      <3>1. HeldInv(s) /\ (holder[s] # None => holder[s] \in Workers)
        BY DEF ExitInv, ExitTypes
      <3> QED
        BY <1>1, <1>3, <1>4, <2>0, <3>1 DEF HeldInv, RegInv
    <2> QED
      BY <1>2, <1>9, <2>1, <2>2, <2>3, <2>4, <2>5 DEF ExitInv
  <1>11. ASSUME NEW b \in 1..Blocks, NEW i \in 1..Items, Stores(w, b, i) PROVE IInv'
    <2> DEFINE x0 == <<b, i>>
               e == [id |-> id[w], state |-> at[w], by |-> w]
    <2>1. x0 \in Slots /\ e \in Entry /\ e # None /\ e.state = at[w] /\ e.by = w /\ e.id = id[w]
      BY <1>4 DEF Slots, Entry, RegInv
    <2>2. /\ b <= blocks' /\ table[x0] = None /\ UNCHANGED lost
          /\ table' = [table EXCEPT ![x0] = e] /\ num_used' = [num_used EXCEPT ![b] = @ + 1]
      BY <1>11 DEF Stores
    <2>2a. x0[1] = b
      OBVIOUS
    <2> HIDE DEF e
    <2>3. /\ table'[x0] = e /\ \A x \in Slots \ {x0} : table'[x] = table[x]
          /\ \A c \in 1..Blocks, j \in 1..Items :
               <<c, j>> # x0 => <<c, j>> \in Slots /\ table'[<<c, j>>] = table[<<c, j>>]
      BY <2>1, <2>2 DEF ExitInv, ExitTypes, Slots
    <2>4. ExitTypes'
      <3>1. table' \in [Slots -> Entry \cup {None}]
        <4> HIDE DEF x0
        <4> QED
          BY <2>1, <2>2 DEF ExitInv, ExitTypes
      <3>2. num_used' \in [1..Blocks -> Nat]
        BY <2>2 DEF ExitInv, ExitTypes
      <3> QED
        BY <1>1, <1>5, <2>2, <3>1, <3>2 DEF ExitInv, ExitTypes
    <2>5. UsedInv'
      <3> SUFFICES ASSUME NEW c \in 1..Blocks PROVE num_used'[c] = Cardinality(Used(c)')
        BY DEF UsedInv, Used
      <3>1. num_used[c] = Cardinality(Used(c)) /\ IsFiniteSet(Used(c)) /\ num_used[c] \in Nat
        BY UsedFinite DEF ExitInv, UsedInv, Used, ExitTypes
      <3>2. CASE c = b
        <4>1. Used(c)' = Used(c) \cup {i} /\ i \notin Used(c)
          BY <2>1, <2>2, <2>3, <3>2 DEF Used
        <4>2. Cardinality(Used(c)') = Cardinality(Used(c)) + 1
          BY <3>1, <4>1, FS_AddElement
        <4>3. num_used'[c] = num_used[c] + 1
          BY <2>2, <3>2 DEF ExitInv, ExitTypes
        <4> QED
          BY <3>1, <4>2, <4>3
      <3>3. CASE c # b
        <4>1. Used(c)' = Used(c)
          BY <2>3, <3>3 DEF Used
        <4>2. num_used'[c] = num_used[c]
          BY <2>2, <3>3 DEF ExitInv, ExitTypes
        <4> QED
          BY <3>1, <4>1, <4>2
      <3> QED
        BY <3>2, <3>3
    <2> HIDE DEF x0
    <2>6. ASSUME NEW x \in Slots, table'[x] # None PROVE EntryInv(x)'
      <3>1. CASE x = x0
        <4>1. /\ stored[at[w]] /\ at[w] \notin lost /\ holder[at[w]] = w
              /\ ~ready[at[w]] /\ alive[at[w]]
              /\ \A y \in Slots \ {x} : table'[y] # None => table'[y].state # at[w]
          BY <1>4, <2>3, <3>1 DEF RegInv
        <4> QED
          BY <1>1, <1>3, <2>1, <2>2, <2>2a, <2>3, <3>1, <4>1 DEF EntryInv
      <3>2. CASE x # x0
        <4>1. table'[x] = table[x]
          BY <2>3, <3>2
        <4>2. EntryInv(x) /\ table[x].state # at[w] /\ table[x].by \in Workers /\ table[x].state \in States
          BY <1>4, <2>6, <4>1, EntryFacts DEF RegInv
        <4>3. x[1] <= blocks'
          BY <1>5, <4>2 DEF EntryInv, Slots, ExitInv, ExitTypes
        <4>4. \A y \in Slots \ {x} : table'[y] # None => table'[y].state # table[x].state
          BY <2>1, <2>3, <4>2 DEF EntryInv
        <4> QED
          BY <1>1, <1>6, <1>7, <2>2, <2>6, <4>1, <4>2, <4>3, <4>4 DEF EntryInv
      <3> QED
        BY <3>1, <3>2
    <2>7. ASSUME NEW v \in Workers, pc'[v] = "reg" PROVE RegInv(v)'
      <3>1. v # w /\ RegInv(v) /\ at[v] # at[w]
        BY <1>3, <1>4, <2>7 DEF ExitInv, RegInv
      <3> QED
        BY <1>1, <1>3, <2>1, <2>2, <2>3, <3>1 DEF RegInv
    <2>8. ASSUME NEW s \in States PROVE HeldInv(s)'
      <3>1. HeldInv(s) /\ (holder[s] # None => holder[s] \in Workers)
        BY DEF ExitInv, ExitTypes
      <3>2. \A x \in Slots : table[x] # None => table'[x] = table[x]
        BY <2>2, <2>3
      <3> QED
        BY <1>1, <1>3, <2>1, <2>2, <2>3, <3>1, <3>2 DEF HeldInv
    <2> QED
      BY <1>2, <1>9, <2>4, <2>5, <2>6, <2>7, <2>8 DEF ExitInv
  <1> QED
    BY <1>10, <1>11, RegisterStores

-----------------------------------------------------------------------------
(* The broadcast at thread exit *)

\* A worker takes _Thread_exit_data_mutex.
LEMMA BroadcastLockInv ==
  ASSUME IInv, NEW w \in Workers, BroadcastLock(w)
  PROVE  IInv'
  <1> USE DEF IInv
  <1>1. /\ pc[w] = "b_lock" /\ pc' = [pc EXCEPT ![w] = "b_scan"] /\ exit = None /\ exit' = w
        /\ UNCHANGED <<arg, frame, started, mtx, tuple, handle, id, setter, alive, stored, ready,
                       holder, table, num_used, blocks, at, lost>>
    BY DEF BroadcastLock, start, future, Goto
  <1>2. StartInv'
    BY <1>1, StartKept DEF StartInv, StartTypes, Outside, Scans, WorkerSteps, MainSteps
  <1>3. pc'[w] = "b_scan" /\ \A v \in Workers \ {w} : pc'[v] = pc[v]
    BY <1>1 DEF StartInv, StartTypes
  <1>4. ExitTypes' /\ UsedInv'
    BY <1>1 DEF ExitInv, ExitTypes, UsedInv
  <1>5. ASSUME NEW x \in Slots, table'[x] # None PROVE EntryInv(x)'
    <2>1. \A v \in Workers : Broadcasts(v, x) => Broadcasts(v, x)' /\ pc'[v] = pc[v]
      BY <1>1, <1>3 DEF Broadcasts
    <2>2. pc'[table[x].by] # "ended"
      BY <1>1, <1>3, <1>5, EntryFacts DEF EntryInv
    <2> QED
      BY <1>1, <1>5, <2>1, <2>2, EntryFacts DEF EntryInv
  <1>6. ASSUME NEW v \in Workers, pc'[v] = "reg" PROVE RegInv(v)'
    BY <1>1, <1>3, <1>6 DEF ExitInv, RegInv
  <1>7. ASSUME NEW s \in States PROVE HeldInv(s)'
    <2>1. HeldInv(s) /\ (holder[s] # None => holder[s] \in Workers)
      BY DEF ExitInv, ExitTypes
    <2> QED
      BY <1>1, <1>3, <2>1 DEF HeldInv
  <1>8. ASSUME NEW v \in Workers PROVE ScanInv(v)'
    <2>1. pc[v] \notin Scans
      BY <1>1 DEF ExitInv, ScanInv
    <2> QED
      BY <1>1, <1>3, <2>1 DEF ScanInv, Scans
  <1> QED
    BY <1>2, <1>4, <1>5, <1>6, <1>7, <1>8 DEF ExitInv

\* An entry with the identifier of a running worker is its own, or of a
\* worker that called _Thrd_exit.
LEMMA MineOnly ==
  ASSUME IInv, NEW w \in Workers, pc[w] = "b_scan", NEW x \in Mine(w)
  PROVE  /\ x \in Slots /\ table[x] # None
         /\ table[x].by = w \/ pc[table[x].by] = "exited"
  <1>1. x \in Slots /\ table[x] # None /\ table[x].id = id[w]
    BY DEF Mine
  <1>2. id[table[x].by] = id[w] /\ pc[table[x].by] # "ended" /\ table[x].by \in Workers /\ id[w] # None
    BY <1>1, EntryFacts DEF EntryInv
  <1>3. table[x].by # w => pc[table[x].by] \in {"ended", "exited"}
    BY <1>2 DEF IInv, StartInv, IdInv
  <1> QED
    BY <1>1, <1>2, <1>3

\* Only one worker is in the broadcast.
LEMMA OneBroadcast ==
  ASSUME IInv, NEW v \in Workers, NEW w \in Workers, pc[v] \in Scans, pc[w] \in Scans
  PROVE  v = w
  BY DEF IInv, ExitInv, ScanInv

\* The loops come to the next entry, set *res, and wake the waiters.
LEMMA BroadcastGoesOn ==
  ASSUME IInv, NEW w \in Workers, BroadcastNext(w) \/ BroadcastReady(w) \/ BroadcastCnd(w)
  PROVE  IInv'
  <1> USE DEF IInv
  <1>0. /\ UNCHANGED <<arg, frame, started, mtx, tuple, handle, id, setter, alive, stored,
                       holder, table, num_used, blocks, exit, lost>>
        /\ BroadcastNext(w) \/ UNCHANGED at
        /\ BroadcastReady(w) \/ UNCHANGED ready
    BY DEF BroadcastNext, BroadcastReady, BroadcastCnd, start, future, exits
  <1>1. /\ pc' \in [Workers \cup {Main} -> MainSteps \cup WorkerSteps] /\ pc'[Main] \in MainSteps
        /\ pc'[Main] = pc[Main] \/ (pc[Main] = "f_sleep" /\ pc'[Main] = "f_lock")
        /\ \A v \in Workers \ {w} : pc'[v] = pc[v]
        /\ pc[w] \in Scans /\ pc'[w] \in Scans \ {"b_scan"}
        /\ pc'[w] = "b_ready" <=> BroadcastNext(w)
        /\ pc[w] = "b_scan" <=> BroadcastNext(w)
        /\ pc[w] = "b_ready" <=> BroadcastReady(w)
    <2>1. CASE BroadcastNext(w)
      BY <2>1 DEF BroadcastNext, BroadcastReady, Goto, StartInv, StartTypes, Scans, WorkerSteps, MainSteps
    <2>2. CASE BroadcastReady(w)
      BY <2>2 DEF BroadcastNext, BroadcastReady, Goto, StartInv, StartTypes, Scans, WorkerSteps, MainSteps
    <2>3. CASE BroadcastCnd(w)
      <3>1. PICK p : p = Woken(table[at[w]].state) /\ pc' = [p EXCEPT ![w] = "b_unlock"] /\ pc[w] = "b_cnd"
        BY <2>3 DEF BroadcastCnd
      <3>2. /\ p \in [Workers \cup {Main} -> MainSteps \cup WorkerSteps] /\ p[Main] \in MainSteps
            /\ \A v \in Workers : p[v] = pc[v]
            /\ p[Main] = pc[Main] \/ (pc[Main] = "f_sleep" /\ p[Main] = "f_lock")
        BY <3>1, WokenMain
      <3> QED
        BY <2>3, <3>1, <3>2 DEF BroadcastNext, BroadcastReady, Goto, Scans, WorkerSteps
    <2> QED
      BY <2>1, <2>2, <2>3
  <1>2. StartInv'
    <2>1. /\ tuple' \in [Workers -> {"none", "live", "gone"}]
          /\ handle' \in [Workers -> {"none", "open", "closed"}]
          /\ pc[Main] = "f_sleep" => arg' \in States
      BY <1>0 DEF StartInv, StartTypes, ArgInv
    <2> QED
      BY <1>0, <1>1, <2>1, StartKept DEF Outside, Scans, Making
  <1>3. /\ at'[w] \in Slots /\ table[at'[w]] # None
        /\ table[at'[w]].by = w \/ pc[table[at'[w]].by] = "exited"
        /\ at' = [at EXCEPT ![w] = at'[w]]
    <2>1. CASE BroadcastNext(w)
      <3> DEFINE x == CHOOSE x \in Mine(w) : \A y \in Mine(w) : Before(x, y)
      <3>1. x \in Mine(w)
        <4>1. Mine(w) \subseteq Slots /\ Mine(w) # {}
          BY <2>1 DEF BroadcastNext, Mine
        <4> QED
          BY <4>1, FirstSlot
      <3>2. at' = [at EXCEPT ![w] = x] /\ pc[w] = "b_scan"
        BY <2>1 DEF BroadcastNext, Goto
      <3> HIDE DEF x
      <3>3. at'[w] = x
        BY <3>2 DEF ExitInv, ExitTypes
      <3> QED
        BY <3>1, <3>2, <3>3, MineOnly
    <2>2. CASE ~BroadcastNext(w)
      BY <1>0, <1>1, <2>2 DEF ExitInv, ExitTypes, ScanInv, Scans
    <2> QED
      BY <2>1, <2>2
  <1>4. \A v \in Workers \ {w} : at'[v] = at[v]
    BY <1>3 DEF ExitInv, ExitTypes
  <1>5. /\ ready' \in [States -> BOOLEAN]
        /\ \A s \in States : ready'[s] = ready[s] \/ (BroadcastReady(w) /\ s = table[at[w]].state)
    BY <1>0 DEF BroadcastReady, ExitInv, ExitTypes
  <1>6. ExitTypes'
    <2>1. at' \in [Workers -> States \cup Slots \cup {None}]
      BY <1>3 DEF ExitInv, ExitTypes
    <2> QED
      BY <1>0, <1>5, <2>1 DEF ExitInv, ExitTypes
  <1>7. UsedInv'
    BY <1>0 DEF ExitInv, UsedInv
  <1>8. ASSUME NEW x \in Slots, table'[x] # None PROVE EntryInv(x)'
    <2>1. EntryInv(x) /\ table[x].by \in Workers /\ table[x].state \in States
      BY <1>0, <1>8, EntryFacts
    <2>2. pc'[table[x].by] # "ended"
      BY <1>1, <2>1 DEF EntryInv, Scans
    <2>3. ASSUME ready'[table[x].state] \/ ~alive[table[x].state]
          PROVE  \E v \in Workers : Broadcasts(v, x)' /\ pc'[v] # "b_ready"
      <3>1. CASE BroadcastReady(w) /\ table[x].state = table[at[w]].state
        <4>1. at[w] \in Slots /\ table[at[w]] # None /\ at' = at
          BY <1>0, <1>1, <3>1 DEF ExitInv, ScanInv, Scans, BroadcastNext, BroadcastReady, Goto
        <4>2. at[w] = x
          BY <2>1, <3>1, <4>1 DEF EntryInv
        <4> QED
          BY <1>1, <3>1, <4>1, <4>2 DEF Broadcasts, Scans, BroadcastNext, BroadcastReady, Goto
      <3>2. CASE ~(BroadcastReady(w) /\ table[x].state = table[at[w]].state)
        <4>1. PICK v \in Workers : Broadcasts(v, x) /\ pc[v] # "b_ready"
          BY <1>5, <2>1, <2>3, <3>2 DEF EntryInv
        <4>2. v = w
          BY <1>1, <4>1, OneBroadcast DEF Broadcasts, Scans
        <4>3. at' = at
          BY <1>0, <1>1, <4>1, <4>2 DEF Broadcasts
        <4> QED
          BY <1>1, <4>1, <4>2, <4>3 DEF Broadcasts, Scans
      <3> QED
        BY <3>1, <3>2
    <2> QED
      BY <1>0, <2>1, <2>2, <2>3 DEF EntryInv
  <1>9. ASSUME NEW v \in Workers, pc'[v] = "reg" PROVE RegInv(v)'
    <2>1. v # w /\ RegInv(v)
      BY <1>1, <1>9 DEF ExitInv, Scans
    <2>2. ready'[at[v]] = ready[at[v]]
      <3>1. BroadcastReady(w) => at[w] \in Slots /\ table[at[w]] # None
        BY <1>1 DEF ExitInv, ScanInv, Scans
      <3> QED
        BY <1>5, <2>1, <3>1 DEF RegInv
    <2> QED
      BY <1>0, <1>4, <2>1, <2>2 DEF RegInv
  <1>10. ASSUME NEW s \in States PROVE HeldInv(s)'
    <2>1. HeldInv(s) /\ (holder[s] # None => holder[s] \in Workers)
      BY DEF ExitInv, ExitTypes
    <2>2. ready'[s] => ready[s] \/ stored[s]
      <3>1. BroadcastReady(w) => at[w] \in Slots /\ table[at[w]] # None
        BY <1>1 DEF ExitInv, ScanInv, Scans
      <3> QED
        BY <1>5, <3>1, EntryFacts DEF EntryInv
    <2>3. pc[w] # "reg"
      BY <1>1 DEF Scans
    <2> QED
      BY <1>0, <1>1, <1>4, <2>1, <2>2, <2>3 DEF HeldInv
  <1>11. ASSUME NEW v \in Workers PROVE ScanInv(v)'
    <2>1. CASE v = w
      <3>1. table[at'[w]].by \in Workers
        BY <1>3, EntryFacts
      <3>2. exit = w
        BY <1>1 DEF ExitInv, ScanInv
      <3>3. table'[at'[w]].by = w \/ pc'[table'[at'[w]].by] = "exited"
        BY <1>0, <1>1, <1>3, <3>1
      <3> QED
        BY <1>0, <1>1, <1>3, <2>1, <3>2, <3>3 DEF ScanInv
    <2>2. CASE v # w
      <3>1. pc[v] \notin Scans /\ exit # v
        BY <1>1, <2>2, OneBroadcast DEF ExitInv, ScanInv
      <3> QED
        BY <1>0, <1>1, <2>2, <3>1 DEF ScanInv
    <2> QED
      BY <2>1, <2>2
  <1> QED
    BY <1>2, <1>6, <1>7, <1>8, <1>9, <1>10, <1>11 DEF ExitInv

\* The mutex of a state is unlocked and its slot emptied.
LEMMA BroadcastUnlockInv ==
  ASSUME IInv, NEW w \in Workers, BroadcastUnlock(w)
  PROVE  IInv'
  <1> USE DEF IInv
  <1>1. PICK x0 \in Slots :
        /\ x0 = at[w] /\ table[x0] # None
        /\ pc[w] = "b_unlock" /\ pc' = [pc EXCEPT ![w] = "b_scan"]
        /\ holder' = [holder EXCEPT ![table[x0].state] = None]
        /\ table' = [table EXCEPT ![x0] = None]
        /\ num_used' = [num_used EXCEPT ![x0[1]] = @ - 1]
        /\ at' = [at EXCEPT ![w] = None]
        /\ UNCHANGED <<arg, frame, started, mtx, tuple, handle, id, setter, alive, stored, ready,
                       blocks, exit, lost>>
    <2>1. pc[w] = "b_unlock"
      BY DEF BroadcastUnlock, Goto
    <2>2. at[w] \in Slots /\ table[at[w]] # None
      BY <2>1 DEF ExitInv, ScanInv, Scans
    <2> QED
      BY <2>1, <2>2 DEF BroadcastUnlock, Goto, start
  <1>2. StartInv'
    BY <1>1, StartKept DEF StartInv, StartTypes, Outside, Scans, WorkerSteps, MainSteps
  <1>3. pc'[w] = "b_scan" /\ \A v \in Workers \ {w} : pc'[v] = pc[v] /\ at'[v] = at[v]
    BY <1>1 DEF StartInv, StartTypes, ExitInv, ExitTypes
  <1>4. table'[x0] = None /\ \A x \in Slots \ {x0} : table'[x] = table[x]
    BY <1>1 DEF ExitInv, ExitTypes
  <1>5. PICK z \in States : z = table[x0].state /\ EntryInv(x0)
    BY <1>1, EntryFacts
  <1>6. holder'[z] = None /\ \A s \in States \ {z} : holder'[s] = holder[s]
    BY <1>1, <1>5 DEF ExitInv, ExitTypes
  <1>7. \A x \in Slots \ {x0} : table[x] # None => table[x].state # z
    BY <1>5 DEF EntryInv
  <1>8. PICK b \in 1..Blocks, i \in 1..Items : x0 = <<b, i>> /\ x0[1] = b
    BY DEF Slots
  <1>9. ASSUME NEW c \in 1..Blocks
        PROVE  num_used'[c] = Cardinality(Used(c)') /\ num_used'[c] \in Nat
    <2>1. num_used[c] = Cardinality(Used(c)) /\ IsFiniteSet(Used(c)) /\ num_used[c] \in Nat
      BY UsedFinite DEF ExitInv, UsedInv, Used, ExitTypes
    <2>2. CASE c = b
      <3>1. Used(c)' = Used(c) \ {i} /\ i \in Used(c)
        <4>1. \A j \in 1..Items : <<b, j>> \in Slots /\ (<<b, j>> = x0 <=> j = i)
          BY <1>8 DEF Slots
        <4> QED
          BY <1>1, <1>4, <1>8, <2>2, <4>1 DEF Used
      <3>2. IsFiniteSet(Used(c)') /\ Cardinality(Used(c)') = Cardinality(Used(c)) - 1
        BY <2>1, <3>1, FS_RemoveElement
      <3>3. num_used'[c] = num_used[c] - 1
        BY <1>1, <1>8, <2>2 DEF ExitInv, ExitTypes
      <3>4. Cardinality(Used(c)') \in Nat
        BY <3>2, FS_CardinalityType
      <3> QED
        BY <2>1, <3>2, <3>3, <3>4
    <2>3. CASE c # b
      <3>1. Used(c)' = Used(c)
        <4>1. \A j \in 1..Items : <<c, j>> \in Slots /\ <<c, j>> # x0
          BY <1>8, <2>3 DEF Slots
        <4> QED
          BY <1>4, <4>1 DEF Used
      <3>2. num_used'[c] = num_used[c]
        BY <1>1, <1>8, <2>3 DEF ExitInv, ExitTypes
      <3> QED
        BY <2>1, <3>1, <3>2
    <2> QED
      BY <2>2, <2>3
  <1>10. UsedInv'
    BY <1>9 DEF UsedInv, Used
  <1>11. ExitTypes'
    <2>1. num_used' \in [1..Blocks -> Nat]
      <3>1. DOMAIN num_used' = 1..Blocks /\ num_used' = [c \in 1..Blocks |-> num_used'[c]]
        BY <1>1 DEF ExitInv, ExitTypes
      <3> QED
        BY <1>9, <3>1
    <2>2. table' \in [Slots -> Entry \cup {None}] /\ holder' \in [States -> Workers \cup {None}]
      BY <1>1 DEF ExitInv, ExitTypes
    <2>3. at' \in [Workers -> States \cup Slots \cup {None}]
      BY <1>1 DEF ExitInv, ExitTypes
    <2> QED
      BY <1>1, <2>1, <2>2, <2>3 DEF ExitInv, ExitTypes
  <1>12. ASSUME NEW x \in Slots, table'[x] # None PROVE EntryInv(x)'
    <2>1. x # x0 /\ table'[x] = table[x]
      BY <1>4, <1>12
    <2>2. EntryInv(x) /\ table[x].by \in Workers /\ table[x].state \in States
      BY <1>12, <2>1, EntryFacts
    <2>3. ~ready[table[x].state] /\ alive[table[x].state]
      <3>1. \A v \in Workers : ~Broadcasts(v, x)
        <4> SUFFICES ASSUME NEW v \in Workers, Broadcasts(v, x) PROVE FALSE
          OBVIOUS
        <4>1. v = w
          BY <1>1, OneBroadcast DEF Broadcasts, Scans
        <4> QED
          BY <1>1, <2>1, <4>1 DEF Broadcasts
      <3> QED
        BY <2>2, <3>1 DEF EntryInv, ExitInv, ExitTypes
    <2>4. holder'[table[x].state] = holder[table[x].state]
      BY <1>6, <1>7, <1>12, <2>1, <2>2
    <2>5. \A y \in Slots \ {x} : table'[y] # None => table'[y].state # table[x].state
      BY <1>4, <2>2 DEF EntryInv
    <2>6. pc'[table[x].by] # "ended"
      BY <1>1, <1>3, <2>2 DEF EntryInv
    <2> QED
      BY <1>1, <2>1, <2>2, <2>3, <2>4, <2>5, <2>6 DEF EntryInv
  <1>13. ASSUME NEW v \in Workers, pc'[v] = "reg" PROVE RegInv(v)'
    <2>1. v # w /\ RegInv(v)
      BY <1>3, <1>13 DEF ExitInv
    <2>2. at[v] # z
      BY <1>1, <1>5, <2>1 DEF RegInv
    <2> QED
      BY <1>1, <1>3, <1>4, <1>6, <2>1, <2>2 DEF RegInv
  <1>14. ASSUME NEW s \in States PROVE HeldInv(s)'
    <2>1. HeldInv(s) /\ (holder[s] # None => holder[s] \in Workers)
      BY DEF ExitInv, ExitTypes
    <2>2. CASE s = z
      BY <1>1, <1>6, <2>1, <2>2 DEF HeldInv
    <2>3. CASE s # z
      <3>1. ASSUME NEW x \in Slots, table[x] # None, table[x].state = s
            PROVE  table'[x] # None /\ table'[x].state = s
        BY <1>4, <1>5, <2>3, <3>1
      <3> QED
        BY <1>1, <1>3, <1>6, <2>1, <2>3, <3>1 DEF HeldInv
    <2> QED
      BY <2>2, <2>3
  <1>15. ASSUME NEW v \in Workers PROVE ScanInv(v)'
    <2>1. CASE v = w
      BY <1>1, <1>3, <2>1 DEF ExitInv, ScanInv, Scans
    <2>2. CASE v # w
      <3>1. pc[v] \notin Scans /\ exit # v
        BY <1>1, <2>2, OneBroadcast DEF ExitInv, ScanInv, Scans
      <3> QED
        BY <1>1, <1>3, <2>2, <3>1 DEF ScanInv
    <2> QED
      BY <2>1, <2>2
  <1> QED
    BY <1>2, <1>10, <1>11, <1>12, <1>13, <1>14, <1>15 DEF ExitInv

\* The loops find nothing more: no entry is left of a worker that ends.
LEMMA BroadcastEndsInv ==
  ASSUME IInv, NEW w \in Workers, BroadcastEnds(w)
  PROVE  IInv'
  <1> USE DEF IInv
  <1>1. /\ pc[w] = "b_scan" /\ pc' = [pc EXCEPT ![w] = "ended"] /\ exit' = None /\ Mine(w) = {}
        /\ tuple' = [tuple EXCEPT ![w] = IF @ = "live" THEN "gone" ELSE @]
        /\ UNCHANGED <<arg, frame, started, mtx, handle, id, setter, alive, stored, ready,
                       holder, table, num_used, blocks, at, lost>>
    BY DEF BroadcastEnds, future, Goto
  <1>2. StartInv'
    <2>1. tuple' \in [Workers -> {"none", "live", "gone"}] /\ \A v \in Workers \ {w} : tuple'[v] = tuple[v]
      BY <1>1 DEF StartInv, StartTypes
    <2> QED
      BY <1>1, <2>1, StartKept DEF StartInv, StartTypes, Outside, Scans, WorkerSteps, MainSteps
  <1>3. pc'[w] = "ended" /\ \A v \in Workers \ {w} : pc'[v] = pc[v]
    BY <1>1 DEF StartInv, StartTypes
  <1>4. ExitTypes' /\ UsedInv'
    BY <1>1 DEF ExitInv, ExitTypes, UsedInv
  <1>5. ASSUME NEW x \in Slots, table[x] # None PROVE table[x].by # w
    <2> SUFFICES ASSUME table[x].by = w PROVE FALSE
      OBVIOUS
    <2>1. x[1] <= blocks /\ table[x].id = id[w]
      BY <1>5, EntryFacts DEF EntryInv
    <2>2. PICK b \in 1..Blocks, i \in 1..Items : x = <<b, i>> /\ x[1] = b
      BY DEF Slots
    <2>3. Used(b) # {} /\ num_used[b] = Cardinality(Used(b))
      BY <1>5, <2>2 DEF Used, ExitInv, UsedInv
    <2>4. num_used[b] # 0
      BY <2>3, UsedFinite, FS_EmptySet
    <2>5. x \in Mine(w)
      BY <1>5, <2>1, <2>2, <2>4 DEF Mine
    <2> QED
      BY <1>1, <2>5
  <1>6. ASSUME NEW x \in Slots, table'[x] # None PROVE EntryInv(x)'
    <2>1. EntryInv(x) /\ table[x].by \in Workers \ {w}
      BY <1>1, <1>5, <1>6, EntryFacts
    <2>2. \A v \in Workers : Broadcasts(v, x) => Broadcasts(v, x)' /\ pc'[v] = pc[v]
      BY <1>1, <1>3 DEF Broadcasts
    <2> QED
      BY <1>1, <1>3, <2>1, <2>2 DEF EntryInv
  <1>7. ASSUME NEW v \in Workers, pc'[v] = "reg" PROVE RegInv(v)'
    BY <1>1, <1>3, <1>7 DEF ExitInv, RegInv
  <1>8. ASSUME NEW s \in States PROVE HeldInv(s)'
    <2>1. HeldInv(s) /\ (holder[s] # None => holder[s] \in Workers)
      BY DEF ExitInv, ExitTypes
    <2> QED
      BY <1>1, <1>3, <2>1 DEF HeldInv
  <1>9. ASSUME NEW v \in Workers PROVE ScanInv(v)'
    <2>1. v # w => pc[v] \notin Scans
      BY <1>1, OneBroadcast DEF Scans
    <2> QED
      BY <1>1, <1>3, <2>1 DEF ScanInv, Scans
  <1> QED
    BY <1>2, <1>4, <1>6, <1>7, <1>8, <1>9 DEF ExitInv

-----------------------------------------------------------------------------
(***************************************************************************)
(* The invariant is inductive: every step of Main (thread, _Thrd_create,   *)
(* join, detach, futures) and of a worker (_Thrd_runner, promises, the     *)
(* exit table of xnotify.cpp) preserves it.                                *)
(***************************************************************************)
THEOREM Inductive == Spec => []IInv
  <1>1. ASSUME IInv, [Next]_vars PROVE IInv'
    <2>1. CASE UNCHANGED vars
      <3>1. UNCHANGED <<pc, arg, frame, started, mtx, tuple, handle, id, setter, alive, stored, ready,
                        holder, table, num_used, blocks, exit, at, lost>>
        BY <2>1 DEF vars, start, future, exits
      <3>2. StartInv'
        BY <1>1, <3>1, StartKept DEF IInv, StartInv, StartTypes
      <3>3. ExitInv'
        BY <1>1, <3>1, ExitKept
      <3> QED
        BY <3>2, <3>3 DEF IInv
    <2>2. CASE MainStep
      <3>1. (ThrdStartFails \/ StartFails) => arg \in Workers
        BY <1>1 DEF ThrdStartFails, StartFails, Goto, IInv, StartInv, ArgInv
      <3> QED
        BY <1>1, <2>2, <3>1, MakeInv, BeginInv, CreatorInv, OtherInv, DestroyInv DEF MainStep
    <2>3. CASE MainCall
      BY <1>1, <2>3, MakeInv, OtherInv, DestroyInv DEF MainCall
    <2>4. CASE Spurious
      BY <1>1, <2>4, CreatorInv, OtherInv
    <2>5. ASSUME NEW w \in Workers, WorkerStep(w) PROVE IInv'
      BY <1>1, <2>5, RunnerInv, SetValueInv, SetAtExitInv, RegisterInv, OtherInv, BroadcastLockInv,
         BroadcastGoesOn, BroadcastUnlockInv, BroadcastEndsInv DEF WorkerStep
    <2> QED
      BY <1>1, <2>1, <2>2, <2>3, <2>4, <2>5 DEF Next
  <1> QED
    BY <1>1, InitInv, PTL DEF Spec

(***************************************************************************)
(* _Thrd_runner uses its creator's stack only while _Thrd_create is there, *)
(* whatever wakes the creator up, and the function of a std::thread is not *)
(* destroyed before the thread ends (cthread.cpp, thread).                 *)
(***************************************************************************)
THEOREM HandshakeFrameAlive == Spec => []FrameAlive
  <1>1. IInv => FrameAlive
    BY DEF IInv, StartInv, FrameInv, FrameAlive
  <1> QED
    BY <1>1, Inductive, PTL

(***************************************************************************)
(* The exit table counts its entries exactly, holds a state once and with  *)
(* its mutex locked, and never one that is destroyed, but for the broadcast*)
(* that is about to drop it (xnotify.cpp, future).                         *)
(***************************************************************************)
THEOREM ExitTableExact == Spec => []TableExact
  <1>1. IInv => TableExact
    BY DEF IInv, ExitInv, UsedInv, EntryInv, TableExact
  <1> QED
    BY <1>1, Inductive, PTL

(***************************************************************************)
(* A thread that ended has released every promise it registered; a         *)
(* broadcast releases those of its own thread, or of one with the same     *)
(* identifier that called _Thrd_exit (xnotify.cpp, cthread.cpp).           *)
(***************************************************************************)
THEOREM PromisesReleasedAtExit == Spec => []ReleasedAtExit
  <1>1. ASSUME IInv PROVE ReleasedAtExit
    <2>1. ASSUME NEW s \in States \ lost, holder[s] \in Workers PROVE pc[holder[s]] # "ended"
      <3>1. HeldInv(s) /\ holder[s] # None
        BY <1>1, <2>1 DEF IInv, ExitInv
      <3>2. ASSUME NEW x \in Slots, table[x] # None, table[x].state = s PROVE pc[holder[s]] # "ended"
        BY <1>1, <3>2, EntryFacts DEF EntryInv
      <3> QED
        BY <3>1, <3>2 DEF HeldInv
    <2>2. ASSUME NEW w \in Workers, NEW x \in Slots, Broadcasts(w, x)
          PROVE  table[x].by = w \/ pc[table[x].by] = "exited"
      BY <1>1, <2>2 DEF IInv, ExitInv, ScanInv, Broadcasts, Scans
    <2> QED
      BY <2>1, <2>2 DEF ReleasedAtExit
  <1> QED
    BY <1>1, Inductive, PTL

=============================================================================
