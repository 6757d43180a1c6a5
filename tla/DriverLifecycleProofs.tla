----------------------- MODULE DriverLifecycleProofs -----------------------
(***************************************************************************)
(* Proofs about DriverLifecycle, for any number of callbacks that are      *)
(* registered with atexit.                                                 *)
(***************************************************************************)
EXTENDS DriverLifecycle, TLAPS

USE LifecycleAssumption

\* What is up when __acrt_execute_initializers begins.
Base == {"core", "tls", "vcrt_locks", "vcrt_ptd"}

\* The components the first k rows of __acrt_initializers bring up.
Rows(k) == { Initializers[i].name : i \in 1..k } \ {"vcruntime"}

\* The components the first k C initializers bring up.
CRows(k) == { CInitializers[i] : i \in 1..k }

\* What no terminator or uninitializer takes down.
Stays == {"tls", "pointers", "pre_c", "timeset", "user_c"}

(***************************************************************************)
(* The components that are up are known exactly at every step from         *)
(* MusaCoreStartup to MusaCoreShutdown: while the table is walked forwards *)
(* they are what the rows before `at` bring up, and backwards, what the    *)
(* rows up to `at` leave.                                                  *)
(***************************************************************************)
UpInv ==
    /\ pc = "core" => up = {}
    /\ pc = "tls"  => up = {"core"}
    /\ pc = "vcrt" => up = {"core", "tls"} \cup (IF at = 2 THEN {"vcrt_locks"} ELSE {})
    /\ pc = "acrt" => up = Base \cup Rows(at - 1)
    /\ pc = "rollback" => up = Base \cup {"pointers"} \cup Rows(at)
    /\ pc = "c_init" => up = Base \cup Rows(10) \cup CRows(at - 1)
    /\ pc \in {"cpp_init", "main", "running", "atexit"} => up = Base \cup Rows(10) \cup CRows(4)
    /\ pc = "uninit" =>
         up = {"core"} \cup Stays \cup Rows(at) \cup (IF at >= 5 THEN {"vcrt_locks", "vcrt_ptd"} ELSE {})
    /\ pc \in {"vcrt_uninit", "shutdown"} => up = {"core"} \cup Stays
    /\ pc = "unloaded" => up = Stays
    /\ pc = "fastfail" => up \subseteq {"core", "tls", "pointers"}

\* Where each table is walked.
AtInv ==
    /\ pc # "rollback" /\ pc # "fastfail" => at >= 1
    /\ pc \in {"core", "tls"} => at = 1
    /\ pc = "vcrt" => at <= 2
    /\ pc = "c_init" => at <= 4

\* What the load returned, and what the system and the user were told.
StatusInv ==
    /\ pc \in {"core", "tls", "vcrt", "acrt", "rollback", "c_init", "cpp_init", "main", "fastfail", "except"} =>
         status = "none" /\ drv_unload = "none" /\ DriverUnload = "none" /\ detached = 0
    /\ pc \in {"running", "unloaded"} => status = "success"
    /\ pc = "returned" => status = "failed"
    /\ pc \in {"atexit", "uninit", "vcrt_uninit", "shutdown"} => status # "none"
    /\ pc \in {"uninit", "vcrt_uninit", "shutdown", "unloaded"} => pending = 0

IInv == TypeOK /\ UpInv /\ AtInv /\ StatusInv /\ UnloadHooked

-----------------------------------------------------------------------------
(* The tables *)

LEMMA Table ==
  /\ Len(Initializers) = 10
  /\ Initializers[1]  = Row("pointers",     TRUE,  FALSE, FALSE)
  /\ Initializers[2]  = Row("isolation",    TRUE,  TRUE,  TRUE)
  /\ Initializers[3]  = Row("locks",        TRUE,  TRUE,  TRUE)
  /\ Initializers[4]  = Row("heap",         TRUE,  TRUE,  TRUE)
  /\ Initializers[5]  = Row("vcruntime",    FALSE, TRUE,  FALSE)
  /\ Initializers[6]  = Row("ptd",          TRUE,  TRUE,  TRUE)
  /\ Initializers[7]  = Row("lowio",        TRUE,  TRUE,  TRUE)
  /\ Initializers[8]  = Row("command_line", TRUE,  TRUE,  FALSE)
  /\ Initializers[9]  = Row("environment",  TRUE,  TRUE,  FALSE)
  /\ Initializers[10] = Row("c",            TRUE,  TRUE,  FALSE)
  BY DEF Initializers

LEMMA CTable ==
  /\ Len(CInitializers) = 4 /\ Len(Vcrt) = 2
  /\ CInitializers[1] = "pre_c" /\ CInitializers[2] = "stdio"
  /\ CInitializers[3] = "timeset" /\ CInitializers[4] = "user_c"
  /\ Vcrt[1] = "vcrt_locks" /\ Vcrt[2] = "vcrt_ptd"
  BY DEF CInitializers, Vcrt

LEMMA Steps == ASSUME NEW k \in 1..10 PROVE Rows(k) = Rows(k - 1) \cup ({Initializers[k].name} \ {"vcruntime"})
  <1>1. 1..k = (1..(k - 1)) \cup {k}
    OBVIOUS
  <1> QED
    BY <1>1 DEF Rows

LEMMA RowSets ==
  /\ Rows(0) = {} /\ Rows(1) = {"pointers"} /\ Rows(2) = {"pointers", "isolation"}
  /\ Rows(3) = {"pointers", "isolation", "locks"}
  /\ Rows(4) = {"pointers", "isolation", "locks", "heap"}
  /\ Rows(5) = {"pointers", "isolation", "locks", "heap"}
  /\ Rows(6) = {"pointers", "isolation", "locks", "heap", "ptd"}
  /\ Rows(7) = {"pointers", "isolation", "locks", "heap", "ptd", "lowio"}
  /\ Rows(8) = {"pointers", "isolation", "locks", "heap", "ptd", "lowio", "command_line"}
  /\ Rows(9) = {"pointers", "isolation", "locks", "heap", "ptd", "lowio", "command_line", "environment"}
  /\ Rows(10) = {"pointers", "isolation", "locks", "heap", "ptd", "lowio", "command_line", "environment", "c"}
  <1>0. Rows(0) = {}
    BY DEF Rows
  <1>1. Rows(1) = {"pointers"}
    BY <1>0, Table, Steps DEF Row
  <1>2. Rows(2) = {"pointers", "isolation"}
    BY <1>1, Table, Steps DEF Row
  <1>3. Rows(3) = {"pointers", "isolation", "locks"}
    BY <1>2, Table, Steps DEF Row
  <1>4. Rows(4) = {"pointers", "isolation", "locks", "heap"}
    BY <1>3, Table, Steps DEF Row
  <1>5. Rows(5) = {"pointers", "isolation", "locks", "heap"}
    BY <1>4, Table, Steps DEF Row
  <1>6. Rows(6) = {"pointers", "isolation", "locks", "heap", "ptd"}
    BY <1>5, Table, Steps DEF Row
  <1>7. Rows(7) = {"pointers", "isolation", "locks", "heap", "ptd", "lowio"}
    BY <1>6, Table, Steps DEF Row
  <1>8. Rows(8) = {"pointers", "isolation", "locks", "heap", "ptd", "lowio", "command_line"}
    BY <1>7, Table, Steps DEF Row
  <1>9. Rows(9) = {"pointers", "isolation", "locks", "heap", "ptd", "lowio", "command_line", "environment"}
    BY <1>8, Table, Steps DEF Row
  <1>10. Rows(10) = {"pointers", "isolation", "locks", "heap", "ptd", "lowio", "command_line", "environment", "c"}
    BY <1>9, Table, Steps DEF Row
  <1> QED
    BY <1>0, <1>1, <1>2, <1>3, <1>4, <1>5, <1>6, <1>7, <1>8, <1>9, <1>10

LEMMA CRowSets ==
  /\ CRows(0) = {} /\ CRows(1) = {"pre_c"} /\ CRows(2) = {"pre_c", "stdio"}
  /\ CRows(3) = {"pre_c", "stdio", "timeset"} /\ CRows(4) = {"pre_c", "stdio", "timeset", "user_c"}
  BY CTable DEF CRows

(***************************************************************************)
(* Every row of the table needs only what the rows before it and           *)
(* __vcrt_initialize bring up, whichever way the table is walked.          *)
(***************************************************************************)
THEOREM NeedsBelow ==
  ASSUME NEW k \in 1..10
  PROVE  Needs(Initializers[k].name) \subseteq Base \cup Rows(k - 1)
  <1> USE Table, RowSets DEF Row, Base
  <1>1. CASE k \in {1, 5, 8, 10}
    BY <1>1 DEF Needs
  <1>2. CASE k \in {2, 3, 4}
    BY <1>2 DEF Needs
  <1>3. CASE k = 6
    BY <1>3 DEF Needs
  <1>4. CASE k = 7
    BY <1>4 DEF Needs
  <1>5. CASE k = 9
    BY <1>5 DEF Needs
  <1> QED
    BY <1>1, <1>2, <1>3, <1>4, <1>5

\* What a row brings up, and that it is nothing another row brings up.
LEMMA RowFacts ==
  ASSUME NEW k \in 1..10
  PROVE  /\ Initializers[k].init \in BOOLEAN /\ Initializers[k].uninit \in BOOLEAN
         /\ Initializers[k].init <=> Initializers[k].name # "vcruntime"
         /\ Initializers[k].name # "vcruntime" <=> k # 5
         /\ Initializers[k].uninit <=> k # 1
         /\ k = 1 => Initializers[k].name = "pointers"
         /\ k \notin {1, 5} => Initializers[k].name \notin Base \cup Stays \cup Rows(k - 1)
  <1> USE DEF Row
  <1>1. /\ Initializers[k].init \in BOOLEAN /\ Initializers[k].uninit \in BOOLEAN
        /\ Initializers[k].init <=> Initializers[k].name # "vcruntime"
        /\ Initializers[k].name # "vcruntime" <=> k # 5
        /\ Initializers[k].uninit <=> k # 1
        /\ k = 1 => Initializers[k].name = "pointers"
    <2>1. CASE k = 1
      BY <2>1, Table
    <2>2. CASE k = 2
      BY <2>2, Table
    <2>3. CASE k = 3
      BY <2>3, Table
    <2>4. CASE k = 4
      BY <2>4, Table
    <2>5. CASE k = 5
      BY <2>5, Table
    <2>6. CASE k = 6
      BY <2>6, Table
    <2>7. CASE k = 7
      BY <2>7, Table
    <2>8. CASE k = 8
      BY <2>8, Table
    <2>9. CASE k = 9
      BY <2>9, Table
    <2>10. CASE k = 10
      BY <2>10, Table
    <2> QED
      BY <2>1, <2>2, <2>3, <2>4, <2>5, <2>6, <2>7, <2>8, <2>9, <2>10
  <1>2. k \notin {1, 5} => Initializers[k].name \notin Base \cup Stays
    BY Table DEF Base, Stays
  <1>3. k \notin {1, 5} => Initializers[k].name \notin Rows(k - 1)
    BY Table, RowSets
  <1> QED
    BY <1>1, <1>2, <1>3

LEMMA AllComponents ==
  /\ Base \cup Stays \cup {"stdio"} \subseteq Components
  /\ \A k \in 1..10 : Initializers[k].name \in Components
  /\ \A k \in 1..4 : CInitializers[k] \in Components
  <1>1. \A k \in 1..10 : Initializers[k].name \in Components
    BY Table DEF Components
  <1>2. "pointers" \in Components
    BY <1>1, Table DEF Row
  <1>3. Base \cup Stays \cup {"stdio"} \subseteq Components
    BY <1>2 DEF Components, Base, Stays
  <1>4. \A k \in 1..4 : CInitializers[k] \in Base \cup Stays \cup {"stdio"}
    BY CTable DEF Stays
  <1> QED
    BY <1>1, <1>3, <1>4

LEMMA InitInv == Init => IInv
  BY Table DEF Init, IInv, TypeOK, UpInv, AtInv, StatusInv, UnloadHooked

\* The parts of the invariant that are not about the components.
RestInv ==
    /\ flavour \in {"driver", "dll"}
    /\ pc \in {"core", "tls", "vcrt", "acrt", "rollback", "c_init", "cpp_init", "main",
               "running", "atexit", "uninit", "vcrt_uninit", "shutdown",
               "returned", "unloaded", "fastfail", "except"}
    /\ at \in 0..10
    /\ pending \in 0..registered /\ registered \in 0..MaxCallbacks
    /\ DriverUnload \in {"none", "user", "common"} /\ drv_unload \in {"none", "user"}
    /\ status \in {"none", "success", "failed"}
    /\ detached \in 0..1
    /\ AtInv /\ StatusInv /\ UnloadHooked

LEMMA Parts == IInv <=> RestInv /\ UpInv /\ up \subseteq Components
  BY Table DEF IInv, RestInv, TypeOK

LEMMA LoadRest == IInv /\ Load => RestInv'
  <1> SUFFICES ASSUME RestInv, Load PROVE RestInv'
    BY Parts
  <1> USE Table, CTable DEF RestInv, AtInv, StatusInv, UnloadHooked, user, Advance
  <1>1. CASE CoreStartup \/ CoreStartupFails
    BY <1>1 DEF CoreStartup, CoreStartupFails
  <1>2. CASE AllocTls \/ AllocTlsFails
    BY <1>2 DEF AllocTls, AllocTlsFails
  <1>3. CASE VcrtInitialize \/ VcrtInitializeFails
    BY <1>3 DEF VcrtInitialize, VcrtInitializeFails
  <1>4. CASE AcrtInitialize
    BY <1>4 DEF AcrtInitialize
  <1>5. CASE AcrtInitializeFails
    BY <1>5 DEF AcrtInitializeFails
  <1>6. CASE Rollback \/ RollbackVcrt
    BY <1>6 DEF Rollback, RollbackVcrt
  <1>7. CASE CInitialize \/ CInitializeFails
    BY <1>7 DEF CInitialize, CInitializeFails
  <1>8. CASE CppInitialize \/ Throws
    BY <1>8 DEF CppInitialize, Throws
  <1>9. CASE MainSucceeds
    BY <1>9 DEF MainSucceeds
  <1>10. CASE MainFails
    BY <1>10 DEF MainFails
  <1> QED
    BY <1>1, <1>2, <1>3, <1>4, <1>5, <1>6, <1>7, <1>8, <1>9, <1>10 DEF Load

LEMMA UnloadRest ==
  IInv /\ (Atexit \/ Unload \/ RunCallback \/ Terminate \/ AcrtUninitialize
             \/ VcrtUninitialize \/ CoreShutdown) => RestInv'
  <1> SUFFICES ASSUME RestInv,
                      Atexit \/ Unload \/ RunCallback \/ Terminate \/ AcrtUninitialize
                        \/ VcrtUninitialize \/ CoreShutdown
               PROVE  RestInv'
    BY Parts
  <1> USE Table DEF RestInv, AtInv, StatusInv, UnloadHooked, user
  <1>1. CASE Atexit \/ RunCallback
    BY <1>1 DEF Atexit, RunCallback
  <1>2. CASE Unload
    BY <1>2 DEF Unload
  <1>3. CASE Terminate
    BY <1>3 DEF Terminate
  <1>4. CASE AcrtUninitialize
    BY <1>4 DEF AcrtUninitialize, Retreat
  <1>5. CASE VcrtUninitialize \/ CoreShutdown
    BY <1>5 DEF VcrtUninitialize, CoreShutdown
  <1> QED
    BY <1>1, <1>2, <1>3, <1>4, <1>5

-----------------------------------------------------------------------------
(* The components *)

LEMMA LoadUp == IInv /\ Load => UpInv' /\ up' \subseteq Components
  <1> SUFFICES ASSUME IInv, Load PROVE UpInv' /\ up' \subseteq Components
    OBVIOUS
  <1>0. RestInv /\ UpInv /\ up \subseteq Components
    BY Parts
  <1> USE <1>0
  <1>1. CASE CoreStartup \/ CoreStartupFails
    BY <1>1, AllComponents DEF CoreStartup, CoreStartupFails, UpInv, Base
  <1>2. CASE AllocTls \/ AllocTlsFails
    BY <1>2, AllComponents DEF AllocTls, AllocTlsFails, UpInv, Base, RestInv, AtInv
  <1>3. CASE VcrtInitialize
    <2>1. at \in {1, 2} /\ pc = "vcrt"
      BY <1>3 DEF VcrtInitialize, RestInv, AtInv
    <2>2. CASE at = 1
      BY <1>3, <2>1, <2>2, CTable, AllComponents DEF VcrtInitialize, Advance, UpInv, Base
    <2>3. CASE at = 2
      BY <1>3, <2>1, <2>3, CTable, RowSets, AllComponents DEF VcrtInitialize, Advance, UpInv, Base
    <2> QED
      BY <2>1, <2>2, <2>3
  <1>4. CASE VcrtInitializeFails
    BY <1>4 DEF VcrtInitializeFails, UpInv
  <1>5. CASE AcrtInitialize
    <2>1. at \in 1..10 /\ pc = "acrt" /\ up = Base \cup Rows(at - 1)
      BY <1>5 DEF AcrtInitialize, RestInv, AtInv, UpInv
    <2>2. up' = Base \cup Rows(at)
      <3>1. Rows(at) = Rows(at - 1) \cup ({Initializers[at].name} \ {"vcruntime"})
        BY <2>1, Steps
      <3>2. Initializers[at].init <=> Initializers[at].name # "vcruntime"
        BY <2>1, RowFacts
      <3>3. up' = IF Initializers[at].init THEN up \cup {Initializers[at].name} ELSE up
        BY <1>5 DEF AcrtInitialize
      <3>4. CASE Initializers[at].init
        BY <2>1, <3>1, <3>2, <3>3, <3>4
      <3>5. CASE ~Initializers[at].init
        BY <2>1, <3>1, <3>2, <3>3, <3>5
      <3> QED
        BY <3>4, <3>5
    <2>3. up' \subseteq Components
      BY <1>5, <2>1, AllComponents DEF AcrtInitialize
    <2>4. CASE at < 10
      <3>1. pc' = "acrt" /\ at' - 1 = at
        BY <1>5, <2>1, <2>4, Table DEF AcrtInitialize, Advance
      <3> QED
        BY <2>2, <2>3, <3>1 DEF UpInv
    <2>5. CASE at = 10
      <3>1. pc' = "c_init" /\ at' - 1 = 0
        BY <1>5, <2>1, <2>5, Table DEF AcrtInitialize, Advance
      <3> QED
        BY <2>2, <2>3, <2>5, <3>1, CRowSets DEF UpInv
    <2> QED
      BY <2>1, <2>4, <2>5
  <1>6. CASE AcrtInitializeFails
    <2>1. at \in 1..10 /\ pc = "acrt" /\ up = Base \cup Rows(at - 1) /\ at # 1
      BY <1>6, Table DEF AcrtInitializeFails, RestInv, AtInv, UpInv, Row
    <2>2. "pointers" \in Rows(at - 1)
      BY <2>1, RowSets
    <2> QED
      BY <1>6, <2>1, <2>2 DEF AcrtInitializeFails, UpInv
  <1>7. CASE Rollback
    <2>1. /\ at \in 1..10 /\ pc = "rollback" /\ pc' = pc /\ at' = at - 1
          /\ up = Base \cup {"pointers"} \cup Rows(at)
      BY <1>7 DEF Rollback, RestInv, UpInv
    <2>2. Rows(at) = Rows(at - 1) \cup ({Initializers[at].name} \ {"vcruntime"})
      BY <2>1, Steps
    <2>3. up' = IF Initializers[at].init /\ Initializers[at].uninit
                THEN up \ {Initializers[at].name} ELSE up
      BY <1>7, <2>1, RowFacts DEF Rollback, Owned
    <2>4. up' = Base \cup {"pointers"} \cup Rows(at - 1)
      <3>1. CASE at = 1
        BY <2>1, <2>2, <2>3, <3>1, RowFacts
      <3>2. CASE at = 5
        BY <2>1, <2>2, <2>3, <3>2, RowFacts
      <3>3. CASE at \notin {1, 5}
        BY <2>1, <2>2, <2>3, <3>3, RowFacts DEF Stays
      <3> QED
        BY <3>1, <3>2, <3>3
    <2> QED
      BY <2>1, <2>3, <2>4 DEF UpInv
  <1>8. CASE RollbackVcrt
    BY <1>8, RowSets DEF RollbackVcrt, UpInv, Owned, Base
  <1>9. CASE CInitialize
    <2>1. at \in {1, 2, 3, 4} /\ pc = "c_init" /\ up = Base \cup Rows(10) \cup CRows(at - 1)
      BY <1>9 DEF CInitialize, RestInv, AtInv, UpInv
    <2>2. up' = Base \cup Rows(10) \cup CRows(at)
      BY <1>9, <2>1, CTable, CRowSets DEF CInitialize
    <2>3. up' \subseteq Components
      BY <1>9, <2>1, AllComponents DEF CInitialize
    <2>4. CASE at # 4
      <3>1. pc' = "c_init" /\ at' - 1 = at
        BY <1>9, <2>1, <2>4, CTable DEF CInitialize, Advance
      <3> QED
        BY <2>2, <2>3, <3>1 DEF UpInv
    <2>5. CASE at = 4
      <3>1. pc' = "cpp_init"
        BY <1>9, <2>1, <2>5, CTable DEF CInitialize, Advance
      <3> QED
        BY <2>2, <2>3, <2>5, <3>1 DEF UpInv
    <2> QED
      BY <2>4, <2>5
  <1>10. CASE CInitializeFails
    BY <1>10 DEF CInitializeFails, UpInv
  <1>11. CASE CppInitialize \/ Throws \/ MainSucceeds \/ MainFails
    BY <1>11 DEF CppInitialize, Throws, MainSucceeds, MainFails, UpInv
  <1> QED
    BY <1>1, <1>2, <1>3, <1>4, <1>5, <1>6, <1>7, <1>8, <1>9, <1>10, <1>11 DEF Load

LEMMA UnloadUp ==
  IInv /\ (Atexit \/ Unload \/ RunCallback \/ Terminate \/ AcrtUninitialize
             \/ VcrtUninitialize \/ CoreShutdown) => UpInv' /\ up' \subseteq Components
  <1> SUFFICES ASSUME IInv,
                      Atexit \/ Unload \/ RunCallback \/ Terminate \/ AcrtUninitialize
                        \/ VcrtUninitialize \/ CoreShutdown
               PROVE  UpInv' /\ up' \subseteq Components
    OBVIOUS
  <1>0. RestInv /\ UpInv /\ up \subseteq Components
    BY Parts
  <1> USE <1>0
  <1>1. CASE Atexit \/ Unload \/ RunCallback
    BY <1>1 DEF Atexit, Unload, RunCallback, UpInv
  <1>2. CASE Terminate
    <2>1. up = Base \cup Rows(10) \cup CRows(4) /\ up' = up \ {"stdio"} /\ pc' = "uninit" /\ at' = 10
      BY <1>2, Table DEF Terminate, UpInv
    <2>2. up' = {"core"} \cup Stays \cup Rows(10) \cup {"vcrt_locks", "vcrt_ptd"}
      BY <2>1, RowSets, CRowSets DEF Base, Stays
    <2> QED
      BY <2>1, <2>2 DEF UpInv
  <1>3. CASE AcrtUninitialize
    <2>1. /\ at \in 1..10 /\ pc = "uninit"
          /\ up = {"core"} \cup Stays \cup Rows(at)
                    \cup (IF at >= 5 THEN {"vcrt_locks", "vcrt_ptd"} ELSE {})
          /\ up' = IF Initializers[at].uninit THEN up \ Owned(Initializers[at].name) ELSE up
      BY <1>3 DEF AcrtUninitialize, RestInv, AtInv, UpInv
    <2>2. Rows(at) = Rows(at - 1) \cup ({Initializers[at].name} \ {"vcruntime"})
      BY <2>1, Steps
    <2>3. CASE at = 1
      <3>1. pc' = "vcrt_uninit" /\ up' = up
        BY <1>3, <2>1, <2>3, RowFacts DEF AcrtUninitialize, Retreat
      <3>2. up' = {"core"} \cup Stays
        BY <2>1, <2>3, <3>1, RowSets DEF Stays
      <3> QED
        BY <3>1, <3>2 DEF UpInv
    <2>4. CASE at # 1
      <3>1. pc' = "uninit" /\ at' = at - 1
        BY <1>3, <2>1, <2>4 DEF AcrtUninitialize, Retreat
      <3>2. up' = {"core"} \cup Stays \cup Rows(at - 1)
                    \cup (IF at - 1 >= 5 THEN {"vcrt_locks", "vcrt_ptd"} ELSE {})
        <4>1. CASE at = 5
          <5>1. up' = up \ {"vcrt_locks", "vcrt_ptd"} /\ Rows(at) = Rows(at - 1)
            BY <2>1, <2>2, <4>1, RowFacts DEF Owned
          <5> QED
            BY <2>1, <4>1, <5>1, RowSets DEF Stays
        <4>2. CASE at # 5
          <5>1. /\ up' = up \ {Initializers[at].name}
                /\ Initializers[at].name \notin Base \cup Stays \cup Rows(at - 1)
                /\ Rows(at) = Rows(at - 1) \cup {Initializers[at].name}
            BY <2>1, <2>2, <2>4, <4>2, RowFacts DEF Owned
          <5> QED
            BY <2>1, <2>4, <4>2, <5>1 DEF Base
        <4> QED
          BY <4>1, <4>2
      <3> QED
        BY <2>1, <3>1, <3>2 DEF UpInv
    <2> QED
      BY <2>3, <2>4
  <1>4. CASE VcrtUninitialize
    BY <1>4 DEF VcrtUninitialize, UpInv, Owned, Stays
  <1>5. CASE CoreShutdown
    BY <1>5 DEF CoreShutdown, UpInv, Stays
  <1> QED
    BY <1>1, <1>2, <1>3, <1>4, <1>5

\* No step of a load, a rollback or an unload breaks the invariant.
THEOREM Inductive == Spec => []IInv
  <1>1. Init => IInv
    BY InitInv
  <1>2. IInv /\ [Next]_vars => IInv'
    <2> SUFFICES ASSUME IInv, [Next]_vars PROVE IInv'
      OBVIOUS
    <2>1. CASE UNCHANGED vars
      BY <2>1 DEF vars, IInv, TypeOK, UpInv, AtInv, StatusInv, UnloadHooked
    <2>2. CASE Next
      <3>1. RestInv' /\ UpInv' /\ up' \subseteq Components
        BY <2>2, LoadRest, UnloadRest, LoadUp, UnloadUp DEF Next
      <3> QED
        BY <3>1, Table DEF IInv, RestInv, TypeOK
    <2> QED
      BY <2>1, <2>2
  <1> QED
    BY <1>1, <1>2, PTL DEF Spec

\* No loop over a table of initializers leaves the table.
THEOREM LifecycleTypes == Spec => []TypeOK
  <1>1. IInv => TypeOK
    BY DEF IInv
  <1> QED
    BY <1>1, Inductive, PTL

(***************************************************************************)
(* No initializer, uninitializer, callback or destructor uses a component  *)
(* that is not up, for any number of callbacks.                            *)
(***************************************************************************)
THEOREM LifecycleUsesLive == Spec => []UsesLive
  <1>1. IInv => UsesLive
    <2> SUFFICES ASSUME IInv PROVE Using \subseteq up
      BY DEF UsesLive
    <2>0. RestInv /\ UpInv /\ up \subseteq Components
      BY Parts
    <2>1. CASE pc = "vcrt"
      BY <2>0, <2>1 DEF Using, UpInv
    <2>2. CASE pc = "acrt"
      <3>1. at \in 1..10 /\ up = Base \cup Rows(at - 1)
        BY <2>0, <2>2 DEF RestInv, AtInv, UpInv
      <3> QED
        BY <2>2, <3>1, NeedsBelow DEF Using
    <2>3. CASE pc = "c_init"
      <3>1. at \in {1, 2, 3, 4} /\ up = Base \cup Rows(10) \cup CRows(at - 1)
        BY <2>0, <2>3 DEF RestInv, AtInv, UpInv
      <3>2. Needs(CInitializers[at]) \subseteq up
        <4>1. CASE at \in {1, 3}
          BY <4>1, CTable DEF Needs
        <4>2. CASE at = 2
          BY <3>1, <4>2, CTable, RowSets DEF Needs
        <4>3. CASE at = 4
          BY <3>1, <4>3, CTable, RowSets, CRowSets DEF Needs
        <4> QED
          BY <3>1, <4>1, <4>2, <4>3
      <3> QED
        BY <2>3, <3>2 DEF Using
    <2>4. CASE pc \in {"cpp_init", "main", "running", "atexit"}
      <3>1. up = Base \cup Rows(10) \cup CRows(4)
        BY <2>0, <2>4 DEF UpInv
      <3>2. Using = Needs("user_c") \cup {"core", "vcrt_ptd"}
        BY <2>4 DEF Using
      <3> QED
        BY <3>1, <3>2, RowSets, CRowSets DEF Needs, Base
    <2>5. CASE pc = "rollback"
      <3>1. at \in 0..10 /\ up = Base \cup {"pointers"} \cup Rows(at)
        BY <2>0, <2>5 DEF RestInv, UpInv
      <3>2. at > 0 => Needs(Initializers[at].name) \subseteq up
        BY <3>1, NeedsBelow, Steps
      <3> QED
        BY <2>5, <3>2 DEF Using
    <2>6. CASE pc = "uninit"
      <3>1. /\ at \in 1..10
            /\ up = {"core"} \cup Stays \cup Rows(at)
                      \cup (IF at >= 5 THEN {"vcrt_locks", "vcrt_ptd"} ELSE {})
        BY <2>0, <2>6 DEF RestInv, AtInv, UpInv
      <3>2. "vcruntime" \notin up
        BY <3>1 DEF Stays, Rows
      <3>3. Needs(Initializers[at].name) \subseteq up
        <4>1. Needs(Initializers[at].name) \cap {"vcrt_locks", "vcrt_ptd"} = {}
          BY DEF Needs
        <4>2. Needs(Initializers[at].name) \subseteq Base \cup Rows(at)
          BY <3>1, NeedsBelow, Steps
        <4> QED
          BY <3>1, <4>1, <4>2 DEF Base, Stays
      <3>4. Initializers[at].name = "vcruntime" => {"core", "heap"} \subseteq up
        BY <3>1, RowFacts, RowSets
      <3> QED
        BY <2>6, <3>2, <3>3, <3>4 DEF Using
    <2>7. CASE pc = "vcrt_uninit"
      BY <2>0, <2>7 DEF Using, UpInv, Stays
    <2>8. CASE pc \notin {"vcrt", "acrt", "c_init", "cpp_init", "main", "running", "atexit",
                          "rollback", "uninit", "vcrt_uninit"}
      BY <2>8 DEF Using
    <2> QED
      BY <2>1, <2>2, <2>3, <2>4, <2>5, <2>6, <2>7, <2>8
  <1> QED
    BY <1>1, Inductive, PTL

(***************************************************************************)
(* A driver that was unloaded, or whose DriverMain failed, leaves nothing  *)
(* of the runtime behind but what has no uninitializer, and no callback.   *)
(***************************************************************************)
THEOREM LifecycleNothingLeft == Spec => []NothingLeft
  <1>1. IInv => NothingLeft
    BY DEF IInv, UpInv, StatusInv, NothingLeft, Stays
  <1> QED
    BY <1>1, Inductive, PTL

\* The rollback of __acrt_initialize misses no component that had come up.
THEOREM LifecycleRollback == Spec => []RollbackComplete
  <1>1. IInv => RollbackComplete
    BY DEF IInv, UpInv, RollbackComplete
  <1> QED
    BY <1>1, Inductive, PTL

(***************************************************************************)
(* The system unloads the driver through __scrt_common_exit, and the       *)
(* user's unload routine runs once, and never after a load that failed.    *)
(***************************************************************************)
THEOREM LifecycleUnloadHooked == Spec => []UnloadHooked
  <1>1. IInv => UnloadHooked
    BY DEF IInv
  <1> QED
    BY <1>1, Inductive, PTL
=============================================================================
