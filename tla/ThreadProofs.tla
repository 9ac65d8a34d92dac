---------------------------- MODULE ThreadProofs ----------------------------
(***************************************************************************)
(* The threads of the process, alone and in groups.                        *)
(*                                                                         *)
(* ThreadGroup, for every number of data handlers: threads are started in  *)
(* order, no task runs before its partners are set up, groups are cleaned  *)
(* up after once and when their threads have ended, and the manager's      *)
(* count is right for as long as it waits.                                 *)
(*                                                                         *)
(* ThreadControl: the invariant of the thread control and of the loggers   *)
(* under it, for every number of calls, failures and log modules and every *)
(* set of signals.                                                         *)
(***************************************************************************)
EXTENDS ThreadGroup, ThreadControl, FiniteSetTheorems, SequenceTheorems, TLAPS

-----------------------------------------------------------------------------
(* Groups of threads.                                                      *)

(* The inductive invariant: the invariants the process is checked for.     *)
TgIInv == TgInv /\ CleanupAfterThreads /\ ManagerAgrees

LEMMA TgInitInv == TgInit => TgIInv
<1> SUFFICES ASSUME TgInit PROVE TgIInv
  OBVIOUS
<1> USE DEF TgInit, Ids, Tasks, PgThread, MbPgTestServer, MbThread, ThreadCount
<1>1. TgTypeOK
  <2>1. Completed \in [Ids -> BOOLEAN] /\ freed \in BOOLEAN /\ ShutdownRequested \in BOOLEAN
    OBVIOUS
  <2> QED
    BY <2>1, GroupCountAssumption DEF TgTypeOK
<1>2. SetupBeforeRun /\ AllHandlersOrNone
  BY DEF SetupBeforeRun, AllHandlersOrNone
<1>3. LaunchInOrder
  BY GroupCountAssumption DEF LaunchInOrder
<1>4. MonitorsAgree
  BY DEF MonitorsAgree
<1>5. {i \in Ids : Completed[i]} = {}
  OBVIOUS
<1>6. CountAgrees
  BY <1>5, FS_EmptySet DEF CountAgrees
<1>7. CleanupAfterThreads /\ ManagerAgrees
  BY <1>4 DEF CleanupAfterThreads, ManagerAgrees, MonitorsAgree
<1> QED
  BY <1>1, <1>2, <1>3, <1>4, <1>6, <1>7 DEF TgIInv, TgInv

(* The steps of the set-up create no thread.                               *)
LEMMA SetUpStep ==
  ASSUME TgIInv, SetUp
  PROVE  TgIInv'
<1> USE DEF TgIInv, TgInv, restVars, Ids
<1>1. TgTypeOK'
  <2>1. (freed \in BOOLEAN /\ ShutdownRequested \in BOOLEAN)'
    BY DEF SetUp, LoadConf, DhsCreateTg, DhsCreateTgFails, MbPgCreateTgFails,
       TgCreateManager, SdbSetupSignalHandlers, TgTypeOK
  <2>2. (Completed \in [Ids -> BOOLEAN])'
    BY DEF SetUp, LoadConf, DhsCreateTg, DhsCreateTgFails, MbPgCreateTgFails,
       TgCreateManager, SdbSetupSignalHandlers, TgTypeOK
  <2>3. (pipes \subseteq Ids /\ live \subseteq Ids)'
    BY DEF SetUp, LoadConf, DhsCreateTg, DhsCreateTgFails, MbPgCreateTgFails,
       TgCreateManager, SdbSetupSignalHandlers, TgTypeOK
  <2>4. (g \in Ids \/ (mainpc \in {"handlers", "exited"} /\ g = GroupCount + 1))'
    <3>1. GroupCount \in Nat \ {0} /\ (g \in Ids \/ (mainpc \in {"handlers", "exited"} /\ g = GroupCount + 1))
      BY GroupCountAssumption DEF TgTypeOK
    <3>2. CASE LoadConf \/ SdbSetupSignalHandlers
      <4>1. g' = g /\ mainpc \in {"load", "signals"}
        BY <3>2 DEF LoadConf, SdbSetupSignalHandlers
      <4> QED
        BY <3>1, <4>1
    <3>3. CASE DhsCreateTg
      <4>1. g \in Ids /\ g' = g + 1 /\ mainpc' = "handlers"
        BY <3>3 DEF DhsCreateTg
      <4> QED
        BY <3>1, <4>1
    <3>4. CASE DhsCreateTgFails \/ MbPgCreateTgFails
      <4>1. g \in Ids /\ g' = g
        BY <3>4 DEF DhsCreateTgFails, MbPgCreateTgFails
      <4> QED
        BY <4>1
    <3>5. CASE TgCreateManager
      <4>1. g' = 1 \/ (mainpc' = "exited" /\ g' = GroupCount + 1)
        BY <3>5 DEF TgCreateManager
      <4> QED
        BY <3>1, <4>1
    <3> QED
      BY <3>2, <3>3, <3>4, <3>5 DEF SetUp
  <2> QED
    BY <2>1, <2>2, <2>3, <2>4
       DEF SetUp, LoadConf, DhsCreateTg, DhsCreateTgFails, MbPgCreateTgFails,
           TgCreateManager, SdbSetupSignalHandlers, TgTypeOK
<1>2. LaunchInOrder'
  <2>1. CASE LoadConf
    BY <2>1, GroupCountAssumption DEF LoadConf, LaunchInOrder
  <2>2. CASE DhsCreateTg
    BY <2>2, GroupCountAssumption DEF DhsCreateTg, LaunchInOrder
  <2>3. CASE DhsCreateTgFails \/ MbPgCreateTgFails
    BY <2>3 DEF DhsCreateTgFails, MbPgCreateTgFails, LaunchInOrder
  <2>4. CASE TgCreateManager
    BY <2>4, GroupCountAssumption DEF TgCreateManager, LaunchInOrder
  <2>5. CASE SdbSetupSignalHandlers
    BY <2>5, GroupCountAssumption DEF SdbSetupSignalHandlers, LaunchInOrder
  <2> QED
    BY <2>1, <2>2, <2>3, <2>4, <2>5 DEF SetUp
<1>3. /\ UNCHANGED <<task, monitor, cleanups, Completed, CompletedCount>>
      /\ mainpc \in {"load", "handlers", "signals"}
      /\ \A i \in Ids, j \in Tasks : task[i][j] = "none"
  BY DEF SetUp, LoadConf, DhsCreateTg, DhsCreateTgFails, MbPgCreateTgFails,
     TgCreateManager, SdbSetupSignalHandlers, LaunchInOrder
<1>4. SetupBeforeRun' /\ AllHandlersOrNone' /\ MonitorsAgree' /\ CleanupAfterThreads'
  BY <1>3 DEF SetupBeforeRun, AllHandlersOrNone, MonitorsAgree, CleanupAfterThreads, Ended
<1>5. CountAgrees'
  BY <1>3 DEF CountAgrees
<1>6. ManagerAgrees'
  BY <1>3 DEF SetUp, LoadConf, DhsCreateTg, DhsCreateTgFails, MbPgCreateTgFails,
     TgCreateManager, SdbSetupSignalHandlers, ManagerAgrees, CountAgrees, Ended
<1> QED
  BY <1>1, <1>2, <1>4, <1>5, <1>6

(* The steps of the main thread that neither start nor join a thread only  *)
(* change what the manager holds.                                          *)
LEMMA WaitStep ==
  ASSUME TgIInv,
         \/ StartTaskFails \/ StartMonitorFails \/ WaitLock \/ WaitTest \/ CondWake
         \/ ScanCompleted \/ WaitReturns \/ TgDestroyManager \/ ExitProcess
  PROVE  TgIInv'
<1> USE DEF TgIInv, TgInv, StartTaskFails, StartMonitorFails, WaitLock, WaitTest, CondWake,
            ScanCompleted, WaitReturns, TgDestroyManager, ExitProcess, setupVars, managerVars
<1>1. /\ UNCHANGED <<conf, pipes, g, t, task, monitor, cleanups, Completed, ShutdownRequested>>
      /\ mainpc \notin {"load", "handlers", "signals", "joining", "exited"}
      /\ mainpc' \notin {"load", "handlers", "signals", "creating"}
      /\ mainpc' = "joining" => mainpc = "creating"
      /\ live' \in {live, {i \in live : ~Completed[i]}}
  BY DEF TgTypeOK
<1>2. TgTypeOK'
  <2>1. (freed \in BOOLEAN /\ ShutdownRequested \in BOOLEAN)' /\ (Completed \in [Ids -> BOOLEAN])'
    BY DEF TgTypeOK
  <2>2. (live \subseteq Ids)'
    BY <1>1 DEF TgTypeOK
  <2>3. (CompletedCount \in Nat)'
    BY GroupCountAssumption DEF TgTypeOK
  <2> QED
    BY <2>1, <2>2, <2>3 DEF TgTypeOK
<1>3. LaunchInOrder'
  BY <1>1 DEF LaunchInOrder
<1>4. SetupBeforeRun' /\ MonitorsAgree' /\ CleanupAfterThreads'
  BY <1>1 DEF SetupBeforeRun, MonitorsAgree, CleanupAfterThreads, Ended
<1>5. AllHandlersOrNone'
  BY <1>1 DEF AllHandlersOrNone, LaunchInOrder, ManagerAgrees
<1>6. CountAgrees'
  BY <1>1 DEF CountAgrees
<1>7. ManagerAgrees'
  BY <1>1, <1>6 DEF ManagerAgrees, CountAgrees, Ended
<1> QED
  BY <1>2, <1>3, <1>4, <1>5, <1>6, <1>7

(* The main thread starts a task ...                                       *)
LEMMA StartTaskStep ==
  ASSUME TgIInv, StartTask
  PROVE  TgIInv'
<1> USE DEF TgIInv, TgInv, StartTask, setupVars, managerVars
<1>1. g \in Ids /\ t \in Tasks
  BY DEF TgTypeOK, ThreadCount, Tasks, PgThread, MbPgTestServer, MbThread
<1>2. /\ task[g][t] = "none"
      /\ \A i \in Ids, j \in Tasks :
           task'[i][j] = IF i = g /\ j = t THEN "init" ELSE task[i][j]
  BY <1>1 DEF TgTypeOK, LaunchInOrder, Ids, Tasks, PgThread, MbPgTestServer, MbThread
<1>3. TgTypeOK'
  <2>1. (task \in [Ids -> [Tasks -> {"none", "init", "barrier", "run", "failed", "done"}]])'
    BY <1>1 DEF TgTypeOK
  <2>2. (t \in 1 .. ThreadCount + 1)'
    BY DEF TgTypeOK, ThreadCount
  <2>3. (freed \in BOOLEAN /\ ShutdownRequested \in BOOLEAN)' /\ (Completed \in [Ids -> BOOLEAN])'
    BY DEF TgTypeOK
  <2> QED
    BY <2>1, <2>2, <2>3 DEF TgTypeOK
<1>4. SetupBeforeRun'
  BY <1>1, <1>2 DEF SetupBeforeRun
<1>5. AllHandlersOrNone'
  BY DEF AllHandlersOrNone, LaunchInOrder, ManagerAgrees
<1>6. LaunchInOrder'
  BY <1>1, <1>2 DEF LaunchInOrder, TgTypeOK, Ids, Tasks, PgThread, MbPgTestServer, MbThread
<1>7. MonitorsAgree' /\ CleanupAfterThreads' /\ ManagerAgrees' /\ CountAgrees'
  <2>1. monitor[g] = "none" /\ cleanups[g] = 0
    BY <1>1 DEF LaunchInOrder, MonitorsAgree, Ids
  <2>2. \A i \in Ids : i # g => \A j \in Tasks : task'[i][j] = task[i][j]
    BY <1>2
  <2>3. MonitorsAgree'
    BY <1>1, <2>1, <2>2 DEF MonitorsAgree, Ended
  <2>4. CleanupAfterThreads'
    BY <1>1, <2>1, <2>2 DEF CleanupAfterThreads
  <2>5. CountAgrees'
    BY DEF CountAgrees
  <2>6. ManagerAgrees'
    BY <2>3, <2>5 DEF ManagerAgrees, MonitorsAgree, CountAgrees
  <2> QED
    BY <2>3, <2>4, <2>5, <2>6
<1> QED
  BY <1>3, <1>4, <1>5, <1>6, <1>7

(* ... or the monitor of a group whose tasks are all started.              *)
LEMMA StartMonitorStep ==
  ASSUME TgIInv, StartMonitor
  PROVE  TgIInv'
<1> USE DEF TgIInv, TgInv, StartMonitor, setupVars, managerVars
<1>1. g \in Ids /\ monitor[g] = "none" /\ cleanups[g] = 0
  BY DEF TgTypeOK, LaunchInOrder, MonitorsAgree, Ids
<1>2. \A i \in Ids : monitor'[i] = IF i = g THEN "joining" ELSE monitor[i]
  BY <1>1 DEF TgTypeOK
<1>3. TgTypeOK'
  <2>1. (monitor \in [Ids -> {"none", "joining", "notify", "done"}])'
    BY <1>1 DEF TgTypeOK
  <2>2. (freed \in BOOLEAN /\ ShutdownRequested \in BOOLEAN)' /\ (Completed \in [Ids -> BOOLEAN])'
    BY DEF TgTypeOK
  <2>3. (/\ g \in Ids /\ t \in 1 .. ThreadCount + 1 /\ mainpc \in {"creating", "locking"})'
    BY <1>1, GroupCountAssumption DEF TgTypeOK, ThreadCount, Ids
  <2> QED
    BY <2>1, <2>2, <2>3 DEF TgTypeOK
<1>4. SetupBeforeRun' /\ CleanupAfterThreads'
  BY DEF SetupBeforeRun, CleanupAfterThreads
<1>5. AllHandlersOrNone'
  BY DEF AllHandlersOrNone, LaunchInOrder, ManagerAgrees
<1>6. LaunchInOrder'
  BY <1>1, <1>2 DEF LaunchInOrder, TgTypeOK, Ids
<1>7. MonitorsAgree'
  BY <1>1, <1>2 DEF MonitorsAgree, Ended
<1>8. CountAgrees'
  BY DEF CountAgrees
<1>9. ManagerAgrees'
  BY <1>8 DEF ManagerAgrees, CountAgrees, Ended
<1> QED
  BY <1>3, <1>4, <1>5, <1>6, <1>7, <1>8, <1>9

(* A failed start: the main thread joins what it has started, cleans up    *)
(* and exits.                                                              *)
LEMMA JoinStartedStep ==
  ASSUME TgIInv, JoinStarted
  PROVE  TgIInv'
<1> USE DEF TgIInv, TgInv, JoinStarted, setupVars, managerVars
<1>1. g \in Ids /\ monitor[g] = "none" /\ cleanups[g] = 0
  BY DEF TgTypeOK, LaunchInOrder, MonitorsAgree, Ids
<1>2. /\ cleanups' \in [Ids -> Nat]
      /\ \A i \in Ids : cleanups'[i] = IF i = g THEN 1 ELSE cleanups[i]
  BY <1>1 DEF TgTypeOK
<1>3. TgTypeOK'
  <2>1. (freed \in BOOLEAN /\ ShutdownRequested \in BOOLEAN)' /\ (Completed \in [Ids -> BOOLEAN])'
    BY DEF TgTypeOK
  <2> QED
    BY <1>2, <2>1 DEF TgTypeOK
<1>4. SetupBeforeRun' /\ AllHandlersOrNone' /\ LaunchInOrder' /\ CountAgrees'
  BY DEF SetupBeforeRun, AllHandlersOrNone, LaunchInOrder, CountAgrees
<1>5. MonitorsAgree'
  BY <1>1, <1>2 DEF MonitorsAgree, Ended
<1>6. CleanupAfterThreads'
  <2>1. \A j \in Tasks : task[g][j] \in {"none", "failed", "done"}
    BY <1>1 DEF LaunchInOrder, TgTypeOK, Ids, Tasks, PgThread, MbPgTestServer, MbThread,
       ThreadCount
  <2> QED
    BY <1>2, <2>1 DEF CleanupAfterThreads
<1>7. ManagerAgrees'
  BY <1>1, <1>2 DEF ManagerAgrees, Ended
<1> QED
  BY <1>3, <1>4, <1>5, <1>6, <1>7

-----------------------------------------------------------------------------
(* A step of a task moves its own thread, as long as the process lives.  A *)
(* thread that has ended does not move.                                    *)
LEMMA TaskStep ==
  ASSUME TgIInv, NEW i \in Ids, NEW j \in Tasks,
         \/ TaskSetupFails(i, j) \/ BarrierWait(i, j)
         \/ BarrierPass(i, j) \/ TaskEnds(i, j)
  PROVE  TgIInv'
<1> USE DEF TgIInv, TgInv, SetTask, mainVars, setupVars, managerVars, TaskSetupFails,
            BarrierWait, BarrierPass, TaskEnds, Exited
<1>1. /\ UNCHANGED <<conf, pipes, mainpc, g, t, monitor, cleanups, Completed, CompletedCount,
                     live, freed>>
      /\ mainpc # "exited"
      /\ ShutdownRequested' \in BOOLEAN
      /\ task[i][j] \in {"init", "barrier", "run"}
  BY DEF TgTypeOK
<1>2. PICK state \in {"failed", "barrier", "run", "done"} :
        /\ task' = [task EXCEPT ![i][j] = state]
        /\ state \in {"failed", "barrier"} => task[i][j] = "init"
        /\ state = "run" => \A k \in Tasks : task[i][k] \in {"barrier", "run", "done"}
        /\ state = "done" => task[i][j] = "run"
  OBVIOUS
<1>3. /\ task' \in [Ids -> [Tasks -> {"none", "init", "barrier", "run", "failed", "done"}]]
      /\ \A h \in Ids, k \in Tasks :
           task'[h][k] = IF h = i /\ k = j THEN state ELSE task[h][k]
  BY <1>2 DEF TgTypeOK
<1>4. TgTypeOK'
  <2>1. (freed \in BOOLEAN)' /\ (Completed \in [Ids -> BOOLEAN])'
    BY <1>1 DEF TgTypeOK
  <2> QED
    BY <1>1, <1>3, <2>1 DEF TgTypeOK
<1>5. SetupBeforeRun'
  BY <1>2, <1>3 DEF SetupBeforeRun
<1>6. mainpc \notin {"load", "handlers", "signals"}
  BY <1>1 DEF LaunchInOrder
<1>7. AllHandlersOrNone'
  BY <1>1, <1>6 DEF AllHandlersOrNone, LaunchInOrder, ManagerAgrees
<1>8. LaunchInOrder'
  BY <1>1, <1>3, <1>6 DEF LaunchInOrder
<1>9. monitor[i] \in {"none", "joining"} /\ cleanups[i] = 0
  BY <1>1 DEF MonitorsAgree, Ended, TgTypeOK
<1>10. MonitorsAgree'
  BY <1>1, <1>3, <1>9 DEF MonitorsAgree, Ended
<1>11. CleanupAfterThreads'
  BY <1>1, <1>3, <1>9 DEF CleanupAfterThreads
<1>12. CountAgrees'
  BY <1>1 DEF CountAgrees
<1>13. ManagerAgrees'
  BY <1>1, <1>10, <1>12 DEF ManagerAgrees, MonitorsAgree, CountAgrees
<1> QED
  BY <1>4, <1>5, <1>7, <1>8, <1>10, <1>11, <1>12, <1>13

(* A monitor joins its threads and cleans up ...                           *)
LEMMA MonitorJoinsStep ==
  ASSUME TgIInv, NEW i \in Ids, MonitorJoins(i)
  PROVE  TgIInv'
<1> USE DEF TgIInv, TgInv, MonitorJoins, mainVars, setupVars, managerVars, Exited
<1>1. /\ monitor' \in [Ids -> {"none", "joining", "notify", "done"}]
      /\ \A h \in Ids : monitor'[h] = IF h = i THEN "notify" ELSE monitor[h]
  BY DEF TgTypeOK
<1>2. /\ cleanups' \in [Ids -> Nat]
      /\ \A h \in Ids : cleanups'[h] = IF h = i THEN 1 ELSE cleanups[h]
  BY DEF TgTypeOK, MonitorsAgree
<1>3. TgTypeOK'
  <2>1. (freed \in BOOLEAN /\ ShutdownRequested \in BOOLEAN)' /\ (Completed \in [Ids -> BOOLEAN])'
    BY DEF TgTypeOK
  <2> QED
    BY <1>1, <1>2, <2>1 DEF TgTypeOK
<1>4. SetupBeforeRun' /\ AllHandlersOrNone' /\ CountAgrees'
  BY DEF SetupBeforeRun, AllHandlersOrNone, CountAgrees
<1>5. LaunchInOrder'
  BY <1>1 DEF LaunchInOrder
<1>6. MonitorsAgree'
  BY <1>1, <1>2 DEF MonitorsAgree, Ended
<1>7. CleanupAfterThreads'
  BY <1>2 DEF CleanupAfterThreads, Ended
<1>8. ManagerAgrees'
  BY <1>2, <1>4, <1>6 DEF ManagerAgrees, MonitorsAgree, CountAgrees
<1> QED
  BY <1>3, <1>4, <1>5, <1>6, <1>7, <1>8

(* ... and reports: one more group is completed, which was not before.     *)
LEMMA MonitorNotifiesStep ==
  ASSUME TgIInv, NEW i \in Ids, MonitorNotifies(i)
  PROVE  TgIInv'
<1> USE DEF TgIInv, TgInv, MonitorNotifies, mainVars, setupVars, Exited
<1>1. /\ monitor' \in [Ids -> {"none", "joining", "notify", "done"}]
      /\ \A h \in Ids : monitor'[h] = IF h = i THEN "done" ELSE monitor[h]
  BY DEF TgTypeOK
<1>2. Completed' \in [Ids -> BOOLEAN]
  BY DEF TgTypeOK
<1>3. \A h \in Ids : Completed'[h] <=> (h = i \/ Completed[h])
  BY DEF TgTypeOK
<1>4. TgTypeOK'
  <2>1. (freed \in BOOLEAN /\ ShutdownRequested \in BOOLEAN)'
    BY DEF TgTypeOK
  <2> QED
    BY <1>1, <1>2, <2>1 DEF TgTypeOK
<1>5. SetupBeforeRun' /\ CleanupAfterThreads'
  BY DEF SetupBeforeRun, CleanupAfterThreads
<1>6. AllHandlersOrNone'
  BY <1>3 DEF AllHandlersOrNone
<1>7. LaunchInOrder'
  BY <1>1 DEF LaunchInOrder
<1>8. MonitorsAgree'
  BY <1>1, <1>3 DEF MonitorsAgree, Ended
<1>9. CountAgrees'
  <2> DEFINE done == {h \in Ids : Completed[h]}
  <2>1. ~Completed[i]
    BY DEF MonitorsAgree
  <2>2. {h \in Ids : Completed'[h]} = done \cup {i}
    BY <1>3
  <2>3. IsFiniteSet(done)
    <3>1. IsFiniteSet(Ids)
      BY FS_Interval, GroupCountAssumption DEF Ids
    <3> QED
      BY <3>1, FS_Subset
  <2>4. Cardinality(done \cup {i}) = Cardinality(done) + 1
    BY <2>1, <2>3, FS_AddElement
  <2> QED
    BY <2>2, <2>4 DEF CountAgrees
<1>10. ManagerAgrees'
  BY <1>3, <1>8, <1>9 DEF ManagerAgrees, MonitorsAgree, CountAgrees
<1> QED
  BY <1>4, <1>5, <1>6, <1>7, <1>8, <1>9, <1>10

(* A signal only sets the request.                                         *)
LEMMA SignalStep ==
  ASSUME TgIInv, SignalHandler
  PROVE  TgIInv'
<1> USE DEF TgIInv, TgInv, SignalHandler, mainVars, setupVars, managerVars
<1>1. TgTypeOK'
  <2>1. (freed \in BOOLEAN /\ ShutdownRequested \in BOOLEAN)' /\ (Completed \in [Ids -> BOOLEAN])'
    BY DEF TgTypeOK
  <2> QED
    BY <2>1 DEF TgTypeOK
<1> QED
  BY <1>1 DEF SetupBeforeRun, AllHandlersOrNone, LaunchInOrder, MonitorsAgree, CountAgrees,
     CleanupAfterThreads, ManagerAgrees, Ended

-----------------------------------------------------------------------------
(* Every step of SdhsMain, of the tasks, of the monitors and of the signal *)
(* handler preserves the invariant.                                        *)
LEMMA TgStep == TgIInv /\ [TgNext]_tgVars => TgIInv'
<1> SUFFICES ASSUME TgIInv, [TgNext]_tgVars
             PROVE  TgIInv'
  OBVIOUS
<1>1. CASE UNCHANGED tgVars
  BY <1>1 DEF tgVars, mainVars, setupVars, managerVars, TgIInv, TgInv, TgTypeOK, SetupBeforeRun,
     AllHandlersOrNone, LaunchInOrder, MonitorsAgree, CountAgrees, CleanupAfterThreads,
     ManagerAgrees, Ended
<1>2. CASE SetUp
  BY <1>2, SetUpStep
<1>3. CASE MainStep \/ StartTaskFails \/ StartMonitorFails
  BY <1>3, WaitStep, StartTaskStep, StartMonitorStep, JoinStartedStep DEF MainStep
<1>4. ASSUME NEW i \in Ids, MonitorStep(i)
      PROVE  TgIInv'
  BY <1>4, MonitorJoinsStep, MonitorNotifiesStep DEF MonitorStep
<1>5. ASSUME NEW i \in Ids, NEW j \in Tasks,
             TaskStarts(i, j) \/ BarrierPass(i, j) \/ TaskEnds(i, j)
      PROVE  TgIInv'
  BY <1>5, TaskStep DEF TaskStarts
<1>6. CASE SignalHandler
  BY <1>6, SignalStep
<1> QED
  BY <1>1, <1>2, <1>3, <1>4, <1>5, <1>6 DEF TgNext

(* The invariants together, for every number of data handlers.             *)
LEMMA TgInductive == TgSpec => []TgIInv
<1> QED
  BY TgInitInv, TgStep, PTL DEF TgSpec

(* In every state of the process no task runs before its two partners have *)
(* set themselves up at the barrier, a thread exists only if every data    *)
(* handler of the configuration was accepted, and groups, tasks and        *)
(* monitors come into being in the order of TgManagerStartAll.             *)
THEOREM TgInvariant == TgSpec => []TgInv
<1> QED
  BY TgInductive, PTL DEF TgIInv

(* The cleanup of a group is called at most once, by its monitor or by the *)
(* failed start, and only when every thread of the group that was created  *)
(* has ended.                                                              *)
THEOREM CleanupOnceAfterThreads == TgSpec => []CleanupAfterThreads
<1> QED
  BY TgInductive, PTL DEF TgIInv

(* Whatever order the monitors report in, a group is marked as completed   *)
(* only after its cleanup, the manager drops only completed groups, and    *)
(* CompletedCount is the number of completed groups while it waits.        *)
THEOREM ManagerBelievesTruth == TgSpec => []ManagerAgrees
<1> QED
  BY TgInductive, PTL DEF TgIInv

-----------------------------------------------------------------------------
(* Stacks.                                                                 *)

(* A frame put on top of a stack leaves the ones below alone.              *)
LEMMA PushFacts ==
  ASSUME NEW s \in Seq(Frame), NEW f \in Frame
  PROVE  /\ Append(s, f) \in Seq(Frame)
         /\ Len(Append(s, f)) = Len(s) + 1
         /\ \A i \in 1 .. Len(s) : Append(s, f)[i] = s[i]
         /\ Append(s, f)[Len(s) + 1] = f
  OBVIOUS

(* So does taking the top one away ...                                     *)
LEMMA BelowFacts ==
  ASSUME NEW s \in Seq(Frame), s # <<>>
  PROVE  /\ Len(s) \in Nat \ {0}
         /\ SubSeq(s, 1, Len(s) - 1) \in Seq(Frame)
         /\ Len(SubSeq(s, 1, Len(s) - 1)) = Len(s) - 1
         /\ \A i \in 1 .. Len(s) - 1 : SubSeq(s, 1, Len(s) - 1)[i] = s[i]
         /\ s[Len(s)] \in Frame
<1>1. Len(s) \in Nat \ {0}
  OBVIOUS
<1>2. s[Len(s)] \in Frame
  BY <1>1
<1>3. \A i \in 1 .. Len(s) - 1 : s[i] \in Frame
  BY <1>1
<1>4. /\ SubSeq(s, 1, Len(s) - 1) \in Seq(Frame)
      /\ Len(SubSeq(s, 1, Len(s) - 1))
           = IF 1 <= Len(s) - 1 THEN Len(s) - 1 - 1 + 1 ELSE 0
      /\ \A i \in 1 .. Len(s) - 1 - 1 + 1 : SubSeq(s, 1, Len(s) - 1)[i] = s[1 + i - 1]
  <2>1. 1 \in Int /\ Len(s) - 1 \in Int
    BY <1>1
  <2> QED
    BY <1>3, <2>1, SubSeqProperties
<1>5. Len(SubSeq(s, 1, Len(s) - 1)) = Len(s) - 1
  <2>1. \A n \in Nat \ {0} : \A k : k = (IF 1 <= n - 1 THEN n - 1 - 1 + 1 ELSE 0) => k = n - 1
    OBVIOUS
  <2> QED
    BY <1>1, <1>4, <2>1, Zenon
<1>6. ASSUME NEW i \in 1 .. Len(s) - 1
      PROVE  SubSeq(s, 1, Len(s) - 1)[i] = s[i]
  <2>1. i \in 1 .. Len(s) - 1 - 1 + 1 /\ 1 + i - 1 = i
    BY <1>1
  <2> QED
    BY <1>4, <2>1
<1> QED
  BY <1>1, <1>2, <1>4, <1>5, <1>6

(* ... and replacing it.                                                   *)
LEMMA ReplaceFacts ==
  ASSUME NEW s \in Seq(Frame), s # <<>>, NEW f \in Frame,
         NEW r, r = Append(SubSeq(s, 1, Len(s) - 1), f)
  PROVE  /\ r \in Seq(Frame) /\ Len(r) = Len(s) /\ Len(s) \in Nat \ {0}
         /\ \A i \in 1 .. Len(s) - 1 : r[i] = s[i]
         /\ r[Len(s)] = f
<1> DEFINE b == SubSeq(s, 1, Len(s) - 1)
<1>1. /\ b \in Seq(Frame) /\ Len(b) = Len(s) - 1 /\ Len(s) \in Nat \ {0}
      /\ \A i \in 1 .. Len(s) - 1 : b[i] = s[i]
  BY BelowFacts
<1>2. /\ Append(b, f) \in Seq(Frame) /\ Len(Append(b, f)) = Len(b) + 1
      /\ \A i \in 1 .. Len(b) : Append(b, f)[i] = b[i]
      /\ Append(b, f)[Len(b) + 1] = f
  BY <1>1, PushFacts
<1> HIDE DEF b
<1>3. r = Append(b, f)
  BY DEF b
<1> QED
  BY <1>1, <1>2, <1>3

(* The frames that calls and handlers start with, and their control steps. *)
LEMMA FrameFacts ==
  /\ \A m \in Modules : /\ LogCall(m) \in Frame /\ LogCall(m).kind = "log"
                        /\ LogCall(m).module = m /\ LogCall(m).at = "lock"
  /\ \A k \in Signals \cup {"SIGABRT"} : /\ Handler(k) \in Frame /\ Handler(k).kind # "log"
  /\ \A f \in Frame, a \in {"lock", "fill", "write", "warn", "act", "return"} :
       /\ [f EXCEPT !.at = a] \in Frame /\ [f EXCEPT !.at = a].kind = f.kind
       /\ [f EXCEPT !.at = a].module = f.module /\ [f EXCEPT !.at = a].at = a
  /\ "Signals" \in Modules /\ "Thread" \in Modules
<1>1. "Signals" \in Modules /\ "Thread" \in Modules
  BY LoggingAssumption, ControlAssumption DEF Modules
<1> QED
  BY <1>1 DEF LogCall, Handler, Frame, Signals

(* What is on a thread's stack.                                            *)
LEMMA TopFacts ==
  ASSUME LogTypeOK, NEW p \in Threads, stack[p] # <<>>
  PROVE  /\ stack[p] \in Seq(Frame) /\ Len(stack[p]) \in Nat \ {0}
         /\ Top(p) \in Frame /\ Top(p) = stack[p][Len(stack[p])]
  BY BelowFacts DEF LogTypeOK, Top

(* Goto changes the top frame of one stack.                                *)
LEMMA GotoFacts ==
  ASSUME LogTypeOK, NEW p \in Threads, stack[p] # <<>>,
         NEW a \in {"lock", "fill", "write", "warn", "act", "return"}
  PROVE  /\ Goto(p, a) \in [Threads -> Seq(Frame)]
         /\ \A u \in Threads \ {p} : Goto(p, a)[u] = stack[u]
         /\ Len(Goto(p, a)[p]) = Len(stack[p]) /\ Len(stack[p]) \in Nat \ {0}
         /\ \A i \in 1 .. Len(stack[p]) - 1 : Goto(p, a)[p][i] = stack[p][i]
         /\ Goto(p, a)[p][Len(stack[p])].kind = Top(p).kind
         /\ Goto(p, a)[p][Len(stack[p])].module = Top(p).module
         /\ Goto(p, a)[p][Len(stack[p])].at = a
<1>1. stack[p] \in Seq(Frame) /\ Top(p) \in Frame /\ stack \in [Threads -> Seq(Frame)]
  BY TopFacts DEF LogTypeOK
<1>2. /\ [Top(p) EXCEPT !.at = a] \in Frame /\ [Top(p) EXCEPT !.at = a].kind = Top(p).kind
      /\ [Top(p) EXCEPT !.at = a].module = Top(p).module /\ [Top(p) EXCEPT !.at = a].at = a
  BY <1>1, FrameFacts
<1>3. Goto(p, a) = [stack EXCEPT ![p] =
         Append(SubSeq(stack[p], 1, Len(stack[p]) - 1), [Top(p) EXCEPT !.at = a])]
  BY DEF Goto, Below
<1> DEFINE r == Append(SubSeq(stack[p], 1, Len(stack[p]) - 1), [Top(p) EXCEPT !.at = a])
<1>4. /\ r \in Seq(Frame) /\ Len(r) = Len(stack[p]) /\ Len(stack[p]) \in Nat \ {0}
      /\ \A i \in 1 .. Len(stack[p]) - 1 : r[i] = stack[p][i]
      /\ r[Len(stack[p])] = [Top(p) EXCEPT !.at = a]
  <2>1. PICK s \in Seq(Frame) : s = stack[p]
    BY <1>1, Zenon
  <2>2. PICK f \in Frame : f = [Top(p) EXCEPT !.at = a]
    BY <1>2, Zenon
  <2>3. PICK q : q = Append(SubSeq(s, 1, Len(s) - 1), f)
    OBVIOUS
  <2>4. /\ q \in Seq(Frame) /\ Len(q) = Len(s) /\ Len(s) \in Nat \ {0}
        /\ \A i \in 1 .. Len(s) - 1 : q[i] = s[i]
        /\ q[Len(s)] = f
    BY <2>1, <2>3, ReplaceFacts
  <2>5. q = r
    BY <2>1, <2>2, <2>3, Zenon
  <2> QED
    BY <2>1, <2>2, <2>4, <2>5, Zenon
<1>5. Goto(p, a) = [stack EXCEPT ![p] = r]
  BY <1>3
<1>6. /\ r[Len(stack[p])].kind = Top(p).kind /\ r[Len(stack[p])].module = Top(p).module
      /\ r[Len(stack[p])].at = a
  BY <1>2, <1>4
<1> HIDE DEF r
<1> QED
  BY <1>1, <1>4, <1>5, <1>6

(* So does a failed call that its handler of SIGABRT takes the place of.   *)
LEMMA AfterFailureFacts ==
  ASSUME LogTypeOK, NEW p \in Threads, stack[p] # <<>>, AfterFailure(p)
  PROVE  /\ stack' \in [Threads -> Seq(Frame)]
         /\ \A u \in Threads \ {p} : stack'[u] = stack[u]
         /\ Len(stack[p]) \in Nat \ {0} /\ Len(stack'[p]) \in {Len(stack[p]), Len(stack[p]) - 1}
         /\ \A i \in 1 .. Len(stack[p]) - 1 : stack'[p][i] = stack[p][i]
         /\ Len(stack'[p]) = Len(stack[p]) => stack'[p][Len(stack[p])].kind # "log"
<1>1. stack[p] \in Seq(Frame) /\ stack \in [Threads -> Seq(Frame)]
  BY TopFacts DEF LogTypeOK
<1> DEFINE b == SubSeq(stack[p], 1, Len(stack[p]) - 1)
<1>2. /\ b \in Seq(Frame) /\ Len(b) = Len(stack[p]) - 1 /\ Len(stack[p]) \in Nat \ {0}
      /\ \A i \in 1 .. Len(stack[p]) - 1 : b[i] = stack[p][i]
  BY <1>1, BelowFacts
<1>3. stack' = IF asserts THEN [stack EXCEPT ![p] = Append(b, Handler("SIGABRT"))]
                          ELSE [stack EXCEPT ![p] = b]
  BY DEF AfterFailure, Pop, Below
<1>4. Handler("SIGABRT") \in Frame /\ Handler("SIGABRT").kind # "log"
  BY FrameFacts
<1> DEFINE r == Append(b, Handler("SIGABRT"))
<1>5. /\ r \in Seq(Frame) /\ Len(r) = Len(b) + 1
      /\ \A i \in 1 .. Len(b) : r[i] = b[i]
      /\ r[Len(b) + 1] = Handler("SIGABRT")
  BY <1>2, <1>4, PushFacts
<1>6. stack' = [stack EXCEPT ![p] = r] \/ stack' = [stack EXCEPT ![p] = b]
  BY <1>3
<1> HIDE DEF r, b
<1>7. CASE stack' = [stack EXCEPT ![p] = r]
  <2>1. stack'[p] = r /\ Len(b) + 1 = Len(stack[p]) /\ Len(r) = Len(stack[p])
    BY <1>1, <1>2, <1>5, <1>7
  <2>2. \A i \in 1 .. Len(stack[p]) - 1 : r[i] = stack[p][i]
    BY <1>2, <1>5
  <2>3. r[Len(stack[p])].kind # "log"
    BY <1>4, <1>5, <2>1
  <2> QED
    BY <1>1, <1>2, <1>5, <1>7, <2>1, <2>2, <2>3
<1>8. CASE stack' = [stack EXCEPT ![p] = b]
  BY <1>1, <1>2, <1>8
<1> QED
  BY <1>6, <1>7, <1>8

(* Pop takes the top frame of one stack away.                              *)
LEMMA PopFacts ==
  ASSUME LogTypeOK, NEW p \in Threads, stack[p] # <<>>
  PROVE  /\ Pop(p) \in [Threads -> Seq(Frame)]
         /\ \A u \in Threads \ {p} : Pop(p)[u] = stack[u]
         /\ Len(stack[p]) \in Nat \ {0} /\ Len(Pop(p)[p]) = Len(stack[p]) - 1
         /\ \A i \in 1 .. Len(stack[p]) - 1 : Pop(p)[p][i] = stack[p][i]
<1>1. stack[p] \in Seq(Frame) /\ stack \in [Threads -> Seq(Frame)]
  BY TopFacts DEF LogTypeOK
<1> DEFINE b == SubSeq(stack[p], 1, Len(stack[p]) - 1)
<1>2. /\ b \in Seq(Frame) /\ Len(b) = Len(stack[p]) - 1 /\ Len(stack[p]) \in Nat \ {0}
      /\ \A i \in 1 .. Len(stack[p]) - 1 : b[i] = stack[p][i]
  BY <1>1, BelowFacts
<1>3. Pop(p) = [stack EXCEPT ![p] = b]
  BY DEF Pop, Below
<1> HIDE DEF b
<1> QED
  BY <1>1, <1>2, <1>3

(* Push puts a frame on one stack.                                         *)
LEMMA PushStackFacts ==
  ASSUME NEW st \in [Threads -> Seq(Frame)], NEW p \in Threads, NEW f \in Frame,
         NEW r, r = [st EXCEPT ![p] = Append(@, f)]
  PROVE  /\ r \in [Threads -> Seq(Frame)]
         /\ \A u \in Threads \ {p} : r[u] = st[u]
         /\ Len(st[p]) \in Nat /\ Len(r[p]) = Len(st[p]) + 1
         /\ \A i \in 1 .. Len(st[p]) : r[p][i] = st[p][i]
         /\ r[p][Len(st[p]) + 1] = f
<1> DEFINE a == Append(st[p], f)
<1>1. /\ a \in Seq(Frame) /\ Len(a) = Len(st[p]) + 1
      /\ \A i \in 1 .. Len(st[p]) : a[i] = st[p][i]
      /\ a[Len(st[p]) + 1] = f
  BY PushFacts
<1>2. r = [st EXCEPT ![p] = a] /\ Len(st[p]) \in Nat
  OBVIOUS
<1> HIDE DEF a
<1> QED
  BY <1>1, <1>2

-----------------------------------------------------------------------------
(* A step after which no new frame holds a lock, no log call has gone and  *)
(* locks and buffers are the same keeps the agreement of the stacks with   *)
(* the locks.                                                              *)
LEMMA QuietStep ==
  ASSUME LogInv, UNCHANGED <<lock, buffer>>, causes \subseteq causes', NEW p \in Threads,
         stack' \in [Threads -> Seq(Frame)],
         \A u \in Threads \ {p} : stack'[u] = stack[u],
         \A i \in 1 .. Len(stack'[p]) : HoldsLock(stack'[p][i]) =>
           i \in 1 .. Len(stack[p]) /\ stack'[p][i] = stack[p][i],
         \A i \in 1 .. Len(stack[p]) : stack[p][i].kind = "log" =>
           i \in 1 .. Len(stack'[p]) /\ stack'[p][i] = stack[p][i]
  PROVE  CallsHoldLocks' /\ LockLeftOnlyByError'
<1>1. CallsHoldLocks'
  <2> SUFFICES ASSUME NEW u \in Threads, NEW i \in 1 .. Len(stack'[u]), HoldsLock(stack'[u][i])
               PROVE  /\ lock[stack'[u][i].module] = u
                      /\ stack'[u][i].at = "write" => buffer[stack'[u][i].module] = u
                      /\ \A j \in 1 .. Len(stack'[u]) :
                           HoldsLock(stack'[u][j]) /\ stack'[u][j].module = stack'[u][i].module
                             => j = i
    BY DEF CallsHoldLocks, HoldsLock
  <2>1. \A j \in 1 .. Len(stack'[u]) : HoldsLock(stack'[u][j]) =>
          j \in 1 .. Len(stack[u]) /\ stack'[u][j] = stack[u][j]
    <3>1. CASE u = p
      BY <3>1
    <3>2. CASE u # p
      BY <3>2
    <3> QED
      BY <3>1, <3>2
  <2>2. i \in 1 .. Len(stack[u]) /\ stack'[u][i] = stack[u][i] /\ HoldsLock(stack[u][i])
    BY <2>1
  <2>3. /\ lock[stack[u][i].module] = u
        /\ stack[u][i].at = "write" => buffer[stack[u][i].module] = u
        /\ \A j \in 1 .. Len(stack[u]) :
             HoldsLock(stack[u][j]) /\ stack[u][j].module = stack[u][i].module => j = i
    BY <2>2 DEF LogInv, CallsHoldLocks
  <2>4. ASSUME NEW j \in 1 .. Len(stack'[u]), HoldsLock(stack'[u][j]),
               stack'[u][j].module = stack'[u][i].module
        PROVE  j = i
    BY <2>1, <2>2, <2>3, <2>4
  <2> QED
    BY <2>2, <2>3, <2>4
<1>2. LockLeftOnlyByError'
  <2> SUFFICES ASSUME NEW m \in Modules, lock[m] # NoThread,
                      ~(m \in SdbModules /\ "error" \in causes')
               PROVE  \E i \in 1 .. Len(stack'[lock[m]]) :
                        stack'[lock[m]][i].kind = "log" /\ stack'[lock[m]][i].module = m
    BY DEF LockLeftOnlyByError
  <2>1. PICK i \in 1 .. Len(stack[lock[m]]) :
               stack[lock[m]][i].kind = "log" /\ stack[lock[m]][i].module = m
    BY DEF LogInv, LockLeftOnlyByError
  <2>2. lock[m] \in Threads
    BY DEF LogInv, LogTypeOK
  <2>3. i \in 1 .. Len(stack'[lock[m]]) /\ stack'[lock[m]][i] = stack[lock[m]][i]
    <3>1. CASE lock[m] = p
      BY <2>1, <3>1
    <3>2. CASE lock[m] # p
      BY <2>1, <2>2, <3>2
    <3> QED
      BY <3>1, <3>2
  <2> QED
    BY <2>1, <2>3
<1> QED
  BY <1>1, <1>2

-----------------------------------------------------------------------------
(* The depth of a stack is its length, and one more when the next thing on *)
(* it is a line that a handler logs.                                       *)
LEMMA DepthFacts ==
  ASSUME NEW f \in Seq(Frame)
  PROVE  /\ Len(f) \in Nat /\ Depth(f) \in Nat
         /\ Len(f) <= Depth(f) /\ Depth(f) <= Len(f) + 1
         /\ Len(f) = 0 => Depth(f) = 0
         /\ Len(f) > 0 /\ f[Len(f)].kind = "log" => Depth(f) = Len(f)
         /\ Len(f) > 0 /\ f[Len(f)].kind # "log" => Depth(f) = Len(f) + 1
<1>1. Len(f) \in Nat /\ (f = <<>> <=> Len(f) = 0)
  OBVIOUS
<1> QED
  BY <1>1 DEF Depth

(* The signals that came are finitely many.                                *)
LEMMA SignalCounts ==
  ASSUME NEW p \in SUBSET Sent
  PROVE  /\ Cardinality(Sent \ p) \in Nat
         /\ Cardinality(Sent \ p) <= Cardinality(Sent) /\ Cardinality(Sent) \in Nat
         /\ \A signal \in p :
              Cardinality(Sent \ (p \ {signal})) = Cardinality(Sent \ p) + 1
<1>1. IsFiniteSet(Signals)
  <2>1. IsFiniteSet({"SIGINT"}) /\ IsFiniteSet({"SIGTERM"})
    BY FS_Singleton
  <2>2. Signals = {"SIGINT"} \cup {"SIGTERM"}
    BY DEF Signals
  <2> QED
    BY <2>1, <2>2, FS_Union
<1>2. IsFiniteSet(Sent)
  BY <1>1, LoggingAssumption, FS_Subset
<1>3. IsFiniteSet(Sent \ p) /\ Cardinality(Sent \ p) <= Cardinality(Sent)
  BY <1>2, FS_Subset
<1>4. Cardinality(Sent \ p) \in Nat /\ Cardinality(Sent) \in Nat
  BY <1>2, <1>3, FS_CardinalityType
<1>5. ASSUME NEW signal \in p
      PROVE  Cardinality(Sent \ (p \ {signal})) = Cardinality(Sent \ p) + 1
  <2>1. Sent \ (p \ {signal}) = (Sent \ p) \cup {signal} /\ signal \notin Sent \ p
    OBVIOUS
  <2> QED
    BY <1>3, <2>1, FS_AddElement
<1> QED
  BY <1>3, <1>4, <1>5

(* The quantities of the bound are numbers.                                *)
LEMMA BoundFacts ==
  ASSUME LogInv
  PROVE  /\ pending \in SUBSET Sent /\ failures \in Nat
         /\ Cardinality(Sent \ pending) \in Nat
         /\ \A p \in Threads :
              /\ stack[p] \in Seq(Frame) /\ Len(stack[p]) \in Nat
              /\ Depth(stack[p]) \in Nat /\ Len(stack[p]) <= Depth(stack[p])
              /\ Depth(stack[p]) <= 1 + 2 * Cardinality(Sent \ pending) + failures
<1>1. pending \in SUBSET Sent /\ failures \in Nat
  BY LoggingAssumption DEF LogInv, LogTypeOK
<1>2. Cardinality(Sent \ pending) \in Nat
  BY <1>1, SignalCounts
<1>3. \A p \in Threads : stack[p] \in Seq(Frame)
  BY DEF LogInv, LogTypeOK
<1>4. \A p \in Threads : /\ Len(stack[p]) \in Nat /\ Depth(stack[p]) \in Nat
                           /\ Len(stack[p]) <= Depth(stack[p])
  BY <1>3, DepthFacts
<1>5. \A p \in Threads : Depth(stack[p]) <= 1 + 2 * Cardinality(Sent \ pending) + failures
  BY DEF LogInv, NestingBounded
<1> QED
  BY <1>1, <1>2, <1>3, <1>4, <1>5

(* Only the thread that takes the step is to be looked at.                 *)
LEMMA NestingKept ==
  ASSUME LogInv, NEW p \in Threads, failures' \in Nat, failures <= failures',
         pending' \subseteq pending, \A u \in Threads \ {p} : stack'[u] = stack[u],
         Depth(stack'[p]) <= 1 + 2 * Cardinality(Sent \ pending') + failures',
         Cardinality(Sent \ pending) <= Cardinality(Sent \ pending')
  PROVE  NestingBounded'
<1>1. /\ Cardinality(Sent \ pending) \in Nat /\ failures \in Nat
      /\ pending' \in SUBSET Sent
  BY BoundFacts
<1>2. Cardinality(Sent \ pending') \in Nat
  BY <1>1, SignalCounts
<1>3. ASSUME NEW u \in Threads \ {p}
      PROVE  Depth(stack'[u]) <= 1 + 2 * Cardinality(Sent \ pending') + failures'
  <2>1. /\ Depth(stack[u]) <= 1 + 2 * Cardinality(Sent \ pending) + failures
        /\ Depth(stack[u]) \in Nat /\ stack'[u] = stack[u]
    BY BoundFacts
  <2> QED
    BY <1>1, <1>2, <2>1
<1> QED
  BY <1>3 DEF NestingBounded, Depth

(* What the calls and handlers keep to: the invariant without the types of *)
(* the other variables.                                                    *)
CallInv == /\ stack \in [Threads -> Seq(Frame)]
           /\ LinesIntact /\ LockLeftOnlyByError /\ CallsHoldLocks /\ NestingBounded

(* A call is begun by a thread that is in none.                            *)
LEMMA BeginCall ==
  ASSUME LogInv, NEW p \in Threads, NEW m \in Modules, stack[p] = <<>>,
         stack' = Push(p, LogCall(m)), UNCHANGED <<lock, buffer, failures, pending, torn, causes>>
  PROVE  CallInv'
<1>1. LogCall(m) \in Frame /\ LogCall(m).kind = "log" /\ LogCall(m).at = "lock"
  BY FrameFacts
<1>2. stack \in [Threads -> Seq(Frame)] /\ Len(stack[p]) = 0
  BY DEF LogInv, LogTypeOK
<1>3. /\ stack' \in [Threads -> Seq(Frame)]
      /\ \A u \in Threads \ {p} : stack'[u] = stack[u]
      /\ Len(stack'[p]) = 1 /\ stack'[p][1] = LogCall(m)
  <2>1. stack' = [stack EXCEPT ![p] = Append(@, LogCall(m))]
    BY DEF Push
  <2> QED
    BY <1>1, <1>2, <2>1, PushStackFacts
<1>4. CallsHoldLocks' /\ LockLeftOnlyByError'
  <2>1. \A i \in 1 .. Len(stack'[p]) : ~HoldsLock(stack'[p][i])
    BY <1>1, <1>3 DEF HoldsLock
  <2>2. \A i \in 1 .. Len(stack[p]) : FALSE
    BY <1>2
  <2> QED
    BY <1>3, <2>1, <2>2, QuietStep
<1>5. NestingBounded'
  <2>1. Depth(stack'[p]) = 1
    <3>1. /\ stack'[p] \in Seq(Frame) /\ Len(stack'[p]) > 0
          /\ stack'[p][Len(stack'[p])].kind = "log"
      BY <1>1, <1>3
    <3> QED
      BY <1>3, <3>1, DepthFacts
  <2>2. failures \in Nat /\ Cardinality(Sent \ pending) \in Nat
    BY BoundFacts
  <2>3. /\ failures' \in Nat /\ failures <= failures' /\ pending' \subseteq pending
        /\ Depth(stack'[p]) <= 1 + 2 * Cardinality(Sent \ pending') + failures'
        /\ Cardinality(Sent \ pending) <= Cardinality(Sent \ pending')
    BY <2>1, <2>2
  <2> QED
    BY <1>3, <2>3, NestingKept
<1> QED
  BY <1>3, <1>4, <1>5 DEF CallInv, LogInv, LinesIntact

(* A signal puts its handler on any stack.                                 *)
LEMMA SignalKept ==
  ASSUME LogInv, NEW p \in Threads, NEW signal \in Signals, DeliverSignal(p, signal)
  PROVE  CallInv'
<1>1. Handler(signal) \in Frame /\ Handler(signal).kind # "log"
  BY FrameFacts
<1>2. stack \in [Threads -> Seq(Frame)] /\ pending \in SUBSET Sent /\ failures \in Nat
  BY LoggingAssumption DEF LogInv, LogTypeOK
<1>3. /\ stack' \in [Threads -> Seq(Frame)]
      /\ \A u \in Threads \ {p} : stack'[u] = stack[u]
      /\ Len(stack[p]) \in Nat /\ Len(stack'[p]) = Len(stack[p]) + 1
      /\ \A i \in 1 .. Len(stack[p]) : stack'[p][i] = stack[p][i]
      /\ stack'[p][Len(stack[p]) + 1] = Handler(signal)
  <2>1. stack' = [stack EXCEPT ![p] = Append(@, Handler(signal))]
    BY DEF DeliverSignal, Push
  <2> QED
    BY <1>1, <1>2, <2>1, PushStackFacts
<1>4. UNCHANGED <<lock, buffer, failures, torn>> /\ causes \subseteq causes'
  BY DEF DeliverSignal
<1>5. CallsHoldLocks' /\ LockLeftOnlyByError'
  <2>1. \A i \in 1 .. Len(stack'[p]) : HoldsLock(stack'[p][i]) => i \in 1 .. Len(stack[p])
    BY <1>1, <1>3 DEF HoldsLock
  <2>2. \A i \in 1 .. Len(stack[p]) : i \in 1 .. Len(stack'[p])
    BY <1>3
  <2> QED
    BY <1>3, <1>4, <2>1, <2>2, QuietStep
<1>6. NestingBounded'
  <2>1. Depth(stack'[p]) <= Len(stack[p]) + 2
    <3>1. Depth(stack'[p]) <= Len(stack'[p]) + 1
      BY <1>3, DepthFacts
    <3>2. Depth(stack'[p]) \in Nat
      BY <1>3, DepthFacts
    <3> QED
      BY <1>3, <3>1, <3>2
  <2>2. /\ Cardinality(Sent \ pending) \in Nat
        /\ Cardinality(Sent \ pending') = Cardinality(Sent \ pending) + 1
    BY <1>2, SignalCounts DEF DeliverSignal
  <2>3. Len(stack[p]) <= 1 + 2 * Cardinality(Sent \ pending) + failures
    <3>1. Depth(stack[p]) <= 1 + 2 * Cardinality(Sent \ pending) + failures
      BY DEF LogInv, NestingBounded
    <3>2. Len(stack[p]) <= Depth(stack[p]) /\ Depth(stack[p]) \in Nat
      BY <1>2, DepthFacts
    <3> QED
      BY <1>2, <1>3, <2>2, <3>1, <3>2
  <2>4. Depth(stack'[p]) <= 1 + 2 * Cardinality(Sent \ pending') + failures'
    <3>1. Depth(stack'[p]) \in Nat
      BY <1>3, DepthFacts
    <3> QED
      <4>1. Len(stack[p]) \in Nat /\ failures' = failures /\ failures \in Nat
        BY <1>2, <1>3, <1>4
      <4> QED
        BY <2>1, <2>2, <2>3, <3>1, <4>1
  <2>5. pending' \subseteq pending
    BY DEF DeliverSignal
  <2> QED
    <3>1. /\ failures' \in Nat /\ failures <= failures'
          /\ Cardinality(Sent \ pending) <= Cardinality(Sent \ pending')
      BY <1>2, <1>4, <2>2
    <3> QED
      BY <1>3, <2>4, <2>5, <3>1, NestingKept
<1> QED
  BY <1>3, <1>4, <1>5, <1>6 DEF CallInv, LogInv, LinesIntact

(* A stack that does not get deeper keeps the bound.                       *)
LEMMA NestingSame ==
  ASSUME LogInv, NEW p \in Threads, UNCHANGED <<pending, failures>>,
         \A u \in Threads \ {p} : stack'[u] = stack[u],
         Depth(stack'[p]) \in Nat, Depth(stack'[p]) <= Depth(stack[p])
  PROVE  NestingBounded'
<1>1. /\ failures \in Nat /\ Cardinality(Sent \ pending) \in Nat
      /\ Depth(stack[p]) \in Nat
      /\ Depth(stack[p]) <= 1 + 2 * Cardinality(Sent \ pending) + failures
  BY BoundFacts
<1>2. /\ failures' \in Nat /\ failures <= failures' /\ pending' \subseteq pending
      /\ Depth(stack'[p]) <= 1 + 2 * Cardinality(Sent \ pending') + failures'
      /\ Cardinality(Sent \ pending) <= Cardinality(Sent \ pending')
  BY <1>1
<1> QED
  BY <1>2, NestingKept

(* Goto followed by a call of the handler.                                 *)
LEMMA LogAndGotoFacts ==
  ASSUME LogTypeOK, NEW p \in Threads, stack[p] # <<>>,
         NEW a \in {"lock", "fill", "write", "warn", "act", "return"}
  PROVE  /\ LogAndGoto(p, a) \in [Threads -> Seq(Frame)]
         /\ \A u \in Threads \ {p} : LogAndGoto(p, a)[u] = stack[u]
         /\ Len(stack[p]) \in Nat \ {0} /\ Len(LogAndGoto(p, a)[p]) = Len(stack[p]) + 1
         /\ \A i \in 1 .. Len(stack[p]) - 1 : LogAndGoto(p, a)[p][i] = stack[p][i]
         /\ LogAndGoto(p, a)[p][Len(stack[p])].kind = Top(p).kind
         /\ LogAndGoto(p, a)[p][Len(stack[p]) + 1] = LogCall("Signals")
<1>1. PICK z : z = Goto(p, a)
  OBVIOUS
<1>2. /\ z \in [Threads -> Seq(Frame)] /\ \A u \in Threads \ {p} : z[u] = stack[u]
      /\ Len(z[p]) = Len(stack[p]) /\ Len(stack[p]) \in Nat \ {0}
      /\ \A i \in 1 .. Len(stack[p]) - 1 : z[p][i] = stack[p][i]
      /\ z[p][Len(stack[p])].kind = Top(p).kind
  <2>1. /\ Goto(p, a) \in [Threads -> Seq(Frame)]
        /\ \A u \in Threads \ {p} : Goto(p, a)[u] = stack[u]
        /\ Len(Goto(p, a)[p]) = Len(stack[p]) /\ Len(stack[p]) \in Nat \ {0}
        /\ \A i \in 1 .. Len(stack[p]) - 1 : Goto(p, a)[p][i] = stack[p][i]
        /\ Goto(p, a)[p][Len(stack[p])].kind = Top(p).kind
        /\ Goto(p, a)[p][Len(stack[p])].module = Top(p).module
        /\ Goto(p, a)[p][Len(stack[p])].at = a
    BY GotoFacts
  <2> QED
    BY <1>1, <2>1, Zenon
<1>3. PICK r : r = [z EXCEPT ![p] = Append(@, LogCall("Signals"))]
  OBVIOUS
<1>4. LogCall("Signals") \in Frame
  BY FrameFacts
<1>5. /\ r \in [Threads -> Seq(Frame)] /\ \A u \in Threads \ {p} : r[u] = z[u]
      /\ Len(r[p]) = Len(z[p]) + 1
      /\ \A i \in 1 .. Len(z[p]) : r[p][i] = z[p][i]
      /\ r[p][Len(z[p]) + 1] = LogCall("Signals")
  BY <1>2, <1>3, <1>4, PushStackFacts
<1>6. /\ \A i \in 1 .. Len(stack[p]) - 1 : i \in 1 .. Len(stack[p])
      /\ Len(stack[p]) \in 1 .. Len(stack[p])
  BY <1>2
<1>7. LogAndGoto(p, a) = r
  BY <1>1, <1>3 DEF LogAndGoto
<1> QED
  BY <1>2, <1>5, <1>6, <1>7

(* A handler logs a line.                                                  *)
LEMMA HandlerCall ==
  ASSUME LogInv, NEW p \in Threads, stack[p] # <<>>, Top(p).kind # "log",
         NEW a \in {"act", "return"},
         stack' = LogAndGoto(p, a),
         UNCHANGED <<lock, buffer, failures, pending, torn, causes>>
  PROVE  CallInv'
<1> DEFINE n == Len(stack[p])
<1>1. LogTypeOK /\ stack[p] \in Seq(Frame)
  BY BoundFacts DEF LogInv
<1>2. Top(p) \in Frame /\ Top(p) = stack[p][n]
  BY <1>1, TopFacts
<1>3. a \in {"lock", "fill", "write", "warn", "act", "return"}
  OBVIOUS
<1>4. LogCall("Signals") \in Frame /\ LogCall("Signals").kind = "log"
      /\ LogCall("Signals").at = "lock"
  BY FrameFacts
<1>5. /\ stack' \in [Threads -> Seq(Frame)] /\ \A u \in Threads \ {p} : stack'[u] = stack[u]
      /\ n \in Nat \ {0} /\ Len(stack'[p]) = n + 1
      /\ \A i \in 1 .. n - 1 : stack'[p][i] = stack[p][i]
      /\ stack'[p][n].kind = Top(p).kind
      /\ stack'[p][n + 1] = LogCall("Signals")
  BY <1>1, <1>3, LogAndGotoFacts
<1>6. n \in Nat \ {0}
  BY <1>5
<1> HIDE DEF n
<1>7. /\ \A u \in Threads \ {p} : stack'[u] = stack[u]
      /\ Len(stack'[p]) = n + 1 /\ stack'[p][n + 1] = LogCall("Signals")
      /\ \A i \in 1 .. n - 1 : stack'[p][i] = stack[p][i]
      /\ stack'[p][n].kind # "log" /\ stack[p][n].kind # "log"
  BY <1>2, <1>5
<1>8. CallsHoldLocks' /\ LockLeftOnlyByError'
  <2>1. \A i \in 1 .. Len(stack'[p]) : HoldsLock(stack'[p][i]) => i \in 1 .. n - 1
    <3>1. ~HoldsLock(stack'[p][n + 1]) /\ ~HoldsLock(stack'[p][n])
      BY <1>4, <1>7 DEF HoldsLock
    <3>2. \A i \in 1 .. n + 1 : i = n + 1 \/ i = n \/ i \in 1 .. n - 1
      BY <1>6
    <3> QED
      BY <1>7, <3>1, <3>2
  <2>2. \A i \in 1 .. n : stack[p][i].kind = "log" => i \in 1 .. n - 1
    BY <1>6, <1>7
  <2>3. \A i \in 1 .. n - 1 : i \in 1 .. n /\ i \in 1 .. Len(stack'[p])
    BY <1>6, <1>7
  <2>4. \A i \in 1 .. Len(stack'[p]) : HoldsLock(stack'[p][i]) =>
          i \in 1 .. Len(stack[p]) /\ stack'[p][i] = stack[p][i]
    BY <1>7, <2>1, <2>3 DEF n
  <2>5. \A i \in 1 .. Len(stack[p]) : stack[p][i].kind = "log" =>
          i \in 1 .. Len(stack'[p]) /\ stack'[p][i] = stack[p][i]
    BY <1>7, <2>2, <2>3 DEF n
  <2> QED
    BY <1>5, <1>7, <2>4, <2>5, QuietStep
<1>9. NestingBounded'
  <2>1. Depth(stack[p]) = n + 1
    BY <1>1, <1>6, <1>7, DepthFacts DEF n
  <2>2. stack'[p] \in Seq(Frame) /\ Len(stack'[p]) > 0 /\ stack'[p][Len(stack'[p])].kind = "log"
    BY <1>6, <1>4, <1>5, <1>7
  <2>3. Depth(stack'[p]) = n + 1
    BY <1>7, <2>2, DepthFacts
  <2>4. Depth(stack'[p]) \in Nat /\ Depth(stack'[p]) <= Depth(stack[p])
    BY <1>6, <2>1, <2>3
  <2> QED
    BY <1>7, <2>4, NestingSame
<1> QED
  BY <1>5, <1>8, <1>9 DEF CallInv, LogInv, LinesIntact

(* A handler returns.                                                      *)
LEMMA HandlerReturn ==
  ASSUME LogInv, NEW p \in Threads, HandlerReturns(p)
  PROVE  CallInv'
<1> DEFINE n == Len(stack[p])
<1>1. LogTypeOK /\ stack[p] \in Seq(Frame) /\ stack[p] # <<>>
  BY BoundFacts DEF LogInv, HandlerReturns, Runs
<1>2. Top(p) = stack[p][n] /\ stack[p][n].kind # "log"
  BY <1>1, TopFacts DEF HandlerReturns, Runs, Signals
<1>3. /\ stack' \in [Threads -> Seq(Frame)] /\ \A u \in Threads \ {p} : stack'[u] = stack[u]
      /\ n \in Nat \ {0} /\ Len(stack'[p]) = n - 1
      /\ \A i \in 1 .. n - 1 : stack'[p][i] = stack[p][i]
  BY <1>1, PopFacts DEF HandlerReturns
<1>4. UNCHANGED <<lock, buffer, failures, pending, torn, causes>>
  BY DEF HandlerReturns
<1>5. CallsHoldLocks' /\ LockLeftOnlyByError'
  <2> HIDE DEF n
  <2>1. \A i \in 1 .. Len(stack'[p]) : i \in 1 .. n /\ i \in 1 .. n - 1
    BY <1>3
  <2>2. \A i \in 1 .. n : stack[p][i].kind = "log" => i \in 1 .. Len(stack'[p])
    BY <1>2, <1>3
  <2> QED
    BY <1>3, <1>4, <2>1, <2>2, QuietStep DEF n
<1>6. NestingBounded'
  <2>1. Depth(stack[p]) = n + 1
    BY <1>1, <1>2, <1>3, DepthFacts
  <2>2. Depth(stack'[p]) \in Nat /\ Depth(stack'[p]) <= Len(stack'[p]) + 1
    BY <1>3, DepthFacts
  <2> HIDE DEF n
  <2>3. Depth(stack'[p]) <= Depth(stack[p])
    BY <1>3, <2>1, <2>2
  <2> QED
    BY <1>3, <1>4, <2>2, <2>3, NestingSame
<1> QED
  BY <1>3, <1>4, <1>5, <1>6 DEF CallInv, LogInv, LinesIntact

-----------------------------------------------------------------------------
(* A step on the call that is frame n of thread p and on the lock and the  *)
(* buffer of its module m, which no other call holds.                      *)
CallChange(p, n, m) ==
  /\ stack' \in [Threads -> Seq(Frame)] /\ causes \subseteq causes'
  /\ \A u \in Threads : \A i \in 1 .. Len(stack'[u]) :
       (u = p /\ i = n) \/ (i \in 1 .. Len(stack[u]) /\ stack'[u][i] = stack[u][i])
  /\ \A u \in Threads : \A i \in 1 .. Len(stack[u]) :
       (u = p /\ i = n /\ stack[u][i].module = m)
         \/ (i \in 1 .. Len(stack'[u]) /\ stack'[u][i] = stack[u][i])
  /\ \A k \in Modules \ {m} : lock'[k] = lock[k] /\ buffer'[k] = buffer[k]
  /\ \A u \in Threads : \A i \in 1 .. Len(stack[u]) :
       HoldsLock(stack[u][i]) /\ stack[u][i].module = m => u = p /\ i = n
  /\ n \in 1 .. Len(stack'[p]) /\ HoldsLock(stack'[p][n]) =>
       /\ stack'[p][n].module = m /\ lock'[m] = p
       /\ stack'[p][n].at = "write" => buffer'[m] = p
  /\ lock'[m] # NoThread =>
       \/ /\ lock'[m] = p /\ n \in 1 .. Len(stack'[p])
          /\ stack'[p][n].kind = "log" /\ stack'[p][n].module = m
       \/ m \in SdbModules /\ "error" \in causes'

LEMMA CallStep ==
  ASSUME LogInv, NEW p \in Threads, NEW n \in Nat, NEW m \in Modules, CallChange(p, n, m)
  PROVE  CallsHoldLocks' /\ LockLeftOnlyByError'
<1> USE DEF CallChange
<1>1. ASSUME NEW u \in Threads, NEW i \in 1 .. Len(stack'[u]), HoldsLock(stack'[u][i]),
             ~(u = p /\ i = n)
      PROVE  /\ i \in 1 .. Len(stack[u]) /\ stack'[u][i] = stack[u][i]
             /\ stack[u][i].module \in Modules \ {m}
  <2>1. i \in 1 .. Len(stack[u]) /\ stack'[u][i] = stack[u][i]
    BY <1>1
  <2>2. stack[u][i] \in Frame
    <3>1. stack[u] \in Seq(Frame)
      BY BoundFacts
    <3> QED
      BY <2>1, <3>1
  <2> QED
    BY <1>1, <2>1, <2>2 DEF Frame
<1>2. CallsHoldLocks'
  <2> SUFFICES ASSUME NEW u \in Threads, NEW i \in 1 .. Len(stack'[u]), HoldsLock(stack'[u][i])
               PROVE  /\ lock'[stack'[u][i].module] = u
                      /\ stack'[u][i].at = "write" => buffer'[stack'[u][i].module] = u
                      /\ \A j \in 1 .. Len(stack'[u]) :
                           HoldsLock(stack'[u][j]) /\ stack'[u][j].module = stack'[u][i].module
                             => j = i
    BY DEF CallsHoldLocks, HoldsLock
  <2>1. CASE u = p /\ i = n
    <3>1. stack'[u][i].module = m /\ lock'[m] = u
          /\ (stack'[u][i].at = "write" => buffer'[m] = u)
      BY <2>1
    <3>2. ASSUME NEW j \in 1 .. Len(stack'[u]), HoldsLock(stack'[u][j]), j # i
          PROVE  stack'[u][j].module # m
      BY <1>1, <2>1, <3>2
    <3> QED
      BY <3>1, <3>2
  <2>2. CASE ~(u = p /\ i = n)
    <3>1. /\ i \in 1 .. Len(stack[u]) /\ stack'[u][i] = stack[u][i]
          /\ stack[u][i].module \in Modules \ {m} /\ HoldsLock(stack[u][i])
      BY <1>1, <2>2
    <3>2. /\ lock[stack[u][i].module] = u
          /\ stack[u][i].at = "write" => buffer[stack[u][i].module] = u
          /\ \A j \in 1 .. Len(stack[u]) :
               HoldsLock(stack[u][j]) /\ stack[u][j].module = stack[u][i].module => j = i
      BY <3>1 DEF LogInv, CallsHoldLocks
    <3>3. ASSUME NEW j \in 1 .. Len(stack'[u]), HoldsLock(stack'[u][j]),
                 stack'[u][j].module = stack'[u][i].module
          PROVE  j = i
      <4>1. CASE u = p /\ j = n
        BY <3>1, <3>3, <4>1
      <4>2. CASE ~(u = p /\ j = n)
        <5>1. j \in 1 .. Len(stack[u]) /\ stack'[u][j] = stack[u][j]
          BY <1>1, <3>3, <4>2
        <5> QED
          BY <3>1, <3>2, <3>3, <5>1
      <4> QED
        BY <4>1, <4>2
    <3>4. lock'[stack'[u][i].module] = u
      BY <3>1, <3>2
    <3>5. stack'[u][i].at = "write" => buffer'[stack'[u][i].module] = u
      BY <3>1, <3>2
    <3> QED
      BY <3>3, <3>4, <3>5, Zenon
  <2> QED
    BY <2>1, <2>2
<1>3. LockLeftOnlyByError'
  <2> SUFFICES ASSUME NEW k \in Modules, lock'[k] # NoThread,
                      ~(k \in SdbModules /\ "error" \in causes')
               PROVE  \E i \in 1 .. Len(stack'[lock'[k]]) :
                        stack'[lock'[k]][i].kind = "log" /\ stack'[lock'[k]][i].module = k
    BY DEF LockLeftOnlyByError
  <2>1. CASE k = m
    BY <2>1
  <2>2. CASE k # m
    <3>1. lock'[k] = lock[k] /\ lock[k] \in Threads
      BY <2>2 DEF LogInv, LogTypeOK
    <3>2. PICK i \in 1 .. Len(stack[lock[k]]) :
                 stack[lock[k]][i].kind = "log" /\ stack[lock[k]][i].module = k
      BY <3>1 DEF LogInv, LockLeftOnlyByError
    <3>3. i \in 1 .. Len(stack'[lock[k]]) /\ stack'[lock[k]][i] = stack[lock[k]][i]
      BY <2>2, <3>1, <3>2
    <3> QED
      BY <3>1, <3>2, <3>3
  <2> QED
    BY <2>1, <2>2
<1> QED
  BY <1>2, <1>3

(* A call that holds its lock is the only one to do so.                    *)
LEMMA SoleHolder ==
  ASSUME LogInv, NEW p \in Threads, stack[p] # <<>>, HoldsLock(Top(p))
  PROVE  /\ lock[Top(p).module] = p /\ Top(p).module \in Modules
         /\ Top(p).at = "write" => buffer[Top(p).module] = p
         /\ \A u \in Threads : \A i \in 1 .. Len(stack[u]) :
              HoldsLock(stack[u][i]) /\ stack[u][i].module = Top(p).module
                => u = p /\ i = Len(stack[p])
<1>1. /\ Len(stack[p]) \in Nat \ {0} /\ Top(p) \in Frame
      /\ Top(p) = stack[p][Len(stack[p])]
  BY TopFacts DEF LogInv
<1>2. Len(stack[p]) \in 1 .. Len(stack[p])
  BY <1>1
<1>3. /\ lock[Top(p).module] = p
      /\ Top(p).at = "write" => buffer[Top(p).module] = p
      /\ \A j \in 1 .. Len(stack[p]) :
           HoldsLock(stack[p][j]) /\ stack[p][j].module = Top(p).module => j = Len(stack[p])
  BY <1>1, <1>2 DEF LogInv, CallsHoldLocks
<1>4. ASSUME NEW u \in Threads, NEW i \in 1 .. Len(stack[u]), HoldsLock(stack[u][i]),
             stack[u][i].module = Top(p).module
      PROVE  u = p /\ i = Len(stack[p])
  <2>1. lock[stack[u][i].module] = u
    BY <1>4 DEF LogInv, CallsHoldLocks
  <2>2. u = p
    BY <1>3, <1>4, <2>1
  <2> QED
    BY <1>3, <1>4, <2>2
<1> QED
  BY <1>1, <1>3, <1>4 DEF Frame

(* Nobody holds a lock that is free.                                       *)
LEMMA NoHolder ==
  ASSUME LogInv, NEW m \in Modules, lock[m] = NoThread
  PROVE  \A u \in Threads : \A i \in 1 .. Len(stack[u]) :
           ~(HoldsLock(stack[u][i]) /\ stack[u][i].module = m)
<1> SUFFICES ASSUME NEW u \in Threads, NEW i \in 1 .. Len(stack[u]),
                    HoldsLock(stack[u][i]), stack[u][i].module = m
             PROVE  FALSE
  OBVIOUS
<1>1. lock[stack[u][i].module] = u
  BY DEF LogInv, CallsHoldLocks
<1> QED
  BY <1>1, LoggingAssumption

(* Replacing or removing the top frame changes no other.                   *)
LEMMA OnlyTopChanges ==
  ASSUME LogInv, NEW p \in Threads, stack[p] # <<>>,
         \A u \in Threads \ {p} : stack'[u] = stack[u],
         Len(stack'[p]) \in {Len(stack[p]), Len(stack[p]) - 1},
         \A i \in 1 .. Len(stack[p]) - 1 : stack'[p][i] = stack[p][i]
  PROVE  /\ \A u \in Threads : \A i \in 1 .. Len(stack'[u]) :
              \/ u = p /\ i = Len(stack[p])
              \/ i \in 1 .. Len(stack[u]) /\ stack'[u][i] = stack[u][i]
         /\ \A u \in Threads : \A i \in 1 .. Len(stack[u]) :
              \/ u = p /\ i = Len(stack[p]) /\ stack[u][i].module = Top(p).module
              \/ i \in 1 .. Len(stack'[u]) /\ stack'[u][i] = stack[u][i]
<1> DEFINE n == Len(stack[p])
           n2 == Len(stack'[p])
<1>1. n \in Nat \ {0} /\ Top(p) = stack[p][n]
  BY TopFacts DEF LogInv
<1>2. n2 \in {n, n - 1} /\ \A i \in 1 .. n - 1 : stack'[p][i] = stack[p][i]
  OBVIOUS
<1> HIDE DEF n, n2
<1>3. \A i \in 1 .. n2 : i = n \/ (i \in 1 .. n /\ i \in 1 .. n - 1)
  BY <1>1, <1>2
<1>4. \A i \in 1 .. n : i = n \/ (i \in 1 .. n2 /\ i \in 1 .. n - 1)
  BY <1>1, <1>2
<1>5. ASSUME NEW u \in Threads, NEW i \in 1 .. Len(stack'[u])
      PROVE  \/ u = p /\ i = n
             \/ i \in 1 .. Len(stack[u]) /\ stack'[u][i] = stack[u][i]
  <2>1. CASE u = p
    BY <1>2, <1>3, <1>5, <2>1 DEF n, n2
  <2>2. CASE u # p
    BY <1>5, <2>2
  <2> QED
    BY <2>1, <2>2
<1>6. ASSUME NEW u \in Threads, NEW i \in 1 .. Len(stack[u])
      PROVE  \/ u = p /\ i = n /\ stack[u][i].module = Top(p).module
             \/ i \in 1 .. Len(stack'[u]) /\ stack'[u][i] = stack[u][i]
  <2>1. CASE u = p
    BY <1>1, <1>2, <1>4, <1>6, <2>1 DEF n, n2
  <2>2. CASE u # p
    BY <1>6, <2>2
  <2> QED
    BY <2>1, <2>2
<1> QED
  BY <1>5, <1>6 DEF n

(* Goto leaves the depth of a log call's stack alone, and so does Pop or a *)
(* failure that adds to the failures.                                      *)
LEMMA CallDepth ==
  ASSUME LogInv, NEW p \in Threads, stack[p] # <<>>, Top(p).kind = "log"
  PROVE  /\ Depth(stack[p]) = Len(stack[p]) /\ Len(stack[p]) \in Nat \ {0}
         /\ Top(p).module \in Modules
<1>1. /\ stack[p] \in Seq(Frame) /\ Len(stack[p]) \in Nat \ {0} /\ Top(p) \in Frame
      /\ Top(p) = stack[p][Len(stack[p])]
  BY TopFacts DEF LogInv
<1>2. Len(stack[p]) > 0 /\ stack[p][Len(stack[p])].kind = "log"
  BY <1>1
<1> QED
  BY <1>1, <1>2, DepthFacts DEF Frame

(* A call that advances keeps the depth.                                   *)
LEMMA GotoDepth ==
  ASSUME LogInv, NEW p \in Threads, stack[p] # <<>>, Top(p).kind = "log",
         NEW a \in {"fill", "write"}, stack' = Goto(p, a), UNCHANGED <<pending, failures>>
  PROVE  NestingBounded'
<1>1. a \in {"lock", "fill", "write", "warn", "act", "return"}
  OBVIOUS
<1>2. /\ stack' \in [Threads -> Seq(Frame)] /\ \A u \in Threads \ {p} : stack'[u] = stack[u]
      /\ Len(stack'[p]) = Len(stack[p]) /\ Len(stack[p]) \in Nat \ {0}
      /\ stack'[p][Len(stack[p])].kind = Top(p).kind
  <2>1. LogTypeOK
    BY DEF LogInv
  <2> QED
    BY <1>1, <2>1, GotoFacts
<1>3. stack'[p] \in Seq(Frame) /\ Len(stack'[p]) > 0 /\ stack'[p][Len(stack'[p])].kind = "log"
  BY <1>2
<1>4. Depth(stack'[p]) = Len(stack'[p])
  BY <1>3, DepthFacts
<1>5. Depth(stack'[p]) \in Nat /\ Depth(stack'[p]) <= Depth(stack[p])
  BY <1>2, <1>4, CallDepth
<1> QED
  BY <1>2, <1>5, NestingSame

(* The lock is taken.                                                      *)
LEMMA LockKept ==
  ASSUME LogInv, NEW p \in Threads, Lock(p)
  PROVE  CallInv'
<1> DEFINE m == Top(p).module
           n == Len(stack[p])
<1>1. /\ stack[p] # <<>> /\ Top(p).kind = "log" /\ lock[m] = NoThread
      /\ lock' = [lock EXCEPT ![m] = p] /\ stack' = Goto(p, "fill")
      /\ UNCHANGED <<buffer, failures, pending, torn, causes>>
  BY DEF Lock, Runs
<1>2. m \in Modules /\ n \in Nat \ {0} /\ lock \in [Modules -> Threads \cup {NoThread}]
  BY <1>1, CallDepth DEF LogInv, LogTypeOK
<1>3. /\ stack' \in [Threads -> Seq(Frame)] /\ \A u \in Threads \ {p} : stack'[u] = stack[u]
      /\ Len(stack'[p]) = n
      /\ \A i \in 1 .. n - 1 : stack'[p][i] = stack[p][i]
      /\ stack'[p][n].kind = "log" /\ stack'[p][n].module = m /\ stack'[p][n].at = "fill"
  <2>1. LogTypeOK
    BY DEF LogInv
  <2>2. /\ Goto(p, "fill") \in [Threads -> Seq(Frame)]
        /\ \A u \in Threads \ {p} : Goto(p, "fill")[u] = stack[u]
        /\ Len(Goto(p, "fill")[p]) = n
        /\ \A i \in 1 .. n - 1 : Goto(p, "fill")[p][i] = stack[p][i]
        /\ Goto(p, "fill")[p][n].kind = Top(p).kind
        /\ Goto(p, "fill")[p][n].module = m /\ Goto(p, "fill")[p][n].at = "fill"
    BY <1>1, <2>1, GotoFacts
  <2> QED
    BY <1>1, <2>2, Zenon
<1>4. CallsHoldLocks' /\ LockLeftOnlyByError'
  <2>1. /\ \A u \in Threads : \A i \in 1 .. Len(stack'[u]) :
             (u = p /\ i = n) \/ (i \in 1 .. Len(stack[u]) /\ stack'[u][i] = stack[u][i])
        /\ \A u \in Threads : \A i \in 1 .. Len(stack[u]) :
             (u = p /\ i = n /\ stack[u][i].module = m)
               \/ (i \in 1 .. Len(stack'[u]) /\ stack'[u][i] = stack[u][i])
    BY <1>1, <1>3, OnlyTopChanges
  <2>2. \A k \in Modules \ {m} : lock'[k] = lock[k] /\ buffer'[k] = buffer[k]
    BY <1>1, <1>2
  <2>3. lock'[m] = p /\ n \in 1 .. Len(stack'[p])
    BY <1>1, <1>2, <1>3
  <2>4. \A u \in Threads : \A i \in 1 .. Len(stack[u]) :
          ~(HoldsLock(stack[u][i]) /\ stack[u][i].module = m)
    BY <1>1, <1>2, NoHolder
  <2>5. stack'[p][n].at # "write"
    BY <1>3
  <2> HIDE DEF m, n
  <2>20. CallChange(p, n, m)
    BY <1>1, <1>2, <1>3, <2>1, <2>2, <2>3, <2>4, <2>5 DEF CallChange
  <2>21. n \in Nat /\ m \in Modules
    BY <1>2
  <2> QED
    BY <2>20, <2>21, CallStep
<1>5. NestingBounded'
  BY <1>1, GotoDepth
<1> QED
  BY <1>1, <1>3, <1>4, <1>5 DEF CallInv, LogInv, LinesIntact

(* The buffer is filled.                                                   *)
LEMMA FillKept ==
  ASSUME LogInv, NEW p \in Threads, Fill(p)
  PROVE  CallInv'
<1> DEFINE m == Top(p).module
           n == Len(stack[p])
<1>1. /\ stack[p] # <<>> /\ Top(p).kind = "log" /\ HoldsLock(Top(p))
      /\ buffer' = [buffer EXCEPT ![m] = p] /\ stack' = Goto(p, "write")
      /\ UNCHANGED <<lock, failures, pending, torn, causes>>
  BY DEF Fill, Runs, HoldsLock
<1>2. m \in Modules /\ n \in Nat \ {0} /\ buffer \in [Modules -> Threads \cup {NoThread}]
  BY <1>1, CallDepth DEF LogInv, LogTypeOK
<1>3. /\ stack' \in [Threads -> Seq(Frame)] /\ \A u \in Threads \ {p} : stack'[u] = stack[u]
      /\ Len(stack'[p]) = n
      /\ \A i \in 1 .. n - 1 : stack'[p][i] = stack[p][i]
      /\ stack'[p][n].kind = "log" /\ stack'[p][n].module = m /\ stack'[p][n].at = "write"
  <2>1. LogTypeOK
    BY DEF LogInv
  <2>2. /\ Goto(p, "write") \in [Threads -> Seq(Frame)]
        /\ \A u \in Threads \ {p} : Goto(p, "write")[u] = stack[u]
        /\ Len(Goto(p, "write")[p]) = n
        /\ \A i \in 1 .. n - 1 : Goto(p, "write")[p][i] = stack[p][i]
        /\ Goto(p, "write")[p][n].kind = Top(p).kind
        /\ Goto(p, "write")[p][n].module = m /\ Goto(p, "write")[p][n].at = "write"
    BY <1>1, <2>1, GotoFacts
  <2> QED
    BY <1>1, <2>2, Zenon
<1>4. CallsHoldLocks' /\ LockLeftOnlyByError'
  <2>1. /\ \A u \in Threads : \A i \in 1 .. Len(stack'[u]) :
             (u = p /\ i = n) \/ (i \in 1 .. Len(stack[u]) /\ stack'[u][i] = stack[u][i])
        /\ \A u \in Threads : \A i \in 1 .. Len(stack[u]) :
             (u = p /\ i = n /\ stack[u][i].module = m)
               \/ (i \in 1 .. Len(stack'[u]) /\ stack'[u][i] = stack[u][i])
    BY <1>1, <1>3, OnlyTopChanges
  <2>2. \A k \in Modules \ {m} : lock'[k] = lock[k] /\ buffer'[k] = buffer[k]
    BY <1>1, <1>2
  <2>3. buffer'[m] = p /\ n \in 1 .. Len(stack'[p])
    BY <1>1, <1>2, <1>3
  <2>4. /\ lock[m] = p
        /\ \A u \in Threads : \A i \in 1 .. Len(stack[u]) :
             HoldsLock(stack[u][i]) /\ stack[u][i].module = m => u = p /\ i = n
    BY <1>1, SoleHolder
  <2> HIDE DEF m, n
  <2>20. CallChange(p, n, m)
    BY <1>1, <1>2, <1>3, <2>1, <2>2, <2>3, <2>4 DEF CallChange
  <2>21. n \in Nat /\ m \in Modules
    BY <1>2
  <2> QED
    BY <2>20, <2>21, CallStep
<1>5. NestingBounded'
  BY <1>1, GotoDepth
<1> QED
  BY <1>1, <1>3, <1>4, <1>5 DEF CallInv, LogInv, LinesIntact

(* The line is written and the lock released.                              *)
LEMMA WriteKept ==
  ASSUME LogInv, NEW p \in Threads, Write(p)
  PROVE  CallInv'
<1> DEFINE m == Top(p).module
           n == Len(stack[p])
<1>1. /\ stack[p] # <<>> /\ Top(p).kind = "log" /\ HoldsLock(Top(p)) /\ Top(p).at = "write"
      /\ lock' = [lock EXCEPT ![m] = NoThread] /\ stack' = Pop(p)
      /\ UNCHANGED <<buffer, failures, pending, causes>>
  BY DEF Write, Runs, HoldsLock
<1>2. m \in Modules /\ n \in Nat \ {0} /\ lock \in [Modules -> Threads \cup {NoThread}]
  BY <1>1, CallDepth DEF LogInv, LogTypeOK
<1>3. /\ stack' \in [Threads -> Seq(Frame)] /\ \A u \in Threads \ {p} : stack'[u] = stack[u]
      /\ Len(stack'[p]) = n - 1
      /\ \A i \in 1 .. n - 1 : stack'[p][i] = stack[p][i]
  BY <1>1, PopFacts DEF LogInv
<1>4. /\ buffer[m] = p
      /\ \A u \in Threads : \A i \in 1 .. Len(stack[u]) :
           HoldsLock(stack[u][i]) /\ stack[u][i].module = m => u = p /\ i = n
  BY <1>1, SoleHolder
<1>5. CallsHoldLocks' /\ LockLeftOnlyByError'
  <2>1. /\ \A u \in Threads : \A i \in 1 .. Len(stack'[u]) :
             (u = p /\ i = n) \/ (i \in 1 .. Len(stack[u]) /\ stack'[u][i] = stack[u][i])
        /\ \A u \in Threads : \A i \in 1 .. Len(stack[u]) :
             (u = p /\ i = n /\ stack[u][i].module = m)
               \/ (i \in 1 .. Len(stack'[u]) /\ stack'[u][i] = stack[u][i])
    BY <1>1, <1>3, OnlyTopChanges
  <2>2. \A k \in Modules \ {m} : lock'[k] = lock[k] /\ buffer'[k] = buffer[k]
    BY <1>1, <1>2
  <2>3. lock'[m] = NoThread
    BY <1>1, <1>2
  <2> HIDE DEF m, n
  <2>4. n \notin 1 .. Len(stack'[p]) /\ n \in Nat /\ causes \subseteq causes'
    BY <1>1, <1>2, <1>3
  <2>5. /\ n \in 1 .. Len(stack'[p]) /\ HoldsLock(stack'[p][n]) =>
             /\ stack'[p][n].module = m /\ lock'[m] = p
             /\ stack'[p][n].at = "write" => buffer'[m] = p
        /\ lock'[m] # NoThread =>
             \/ /\ lock'[m] = p /\ n \in 1 .. Len(stack'[p])
                /\ stack'[p][n].kind = "log" /\ stack'[p][n].module = m
             \/ m \in SdbModules /\ "error" \in causes'
    BY <2>3, <2>4
  <2>20. CallChange(p, n, m)
    BY <1>2, <1>3, <1>4, <2>1, <2>2, <2>4, <2>5 DEF CallChange
  <2>21. n \in Nat /\ m \in Modules
    BY <1>2
  <2> QED
    BY <2>20, <2>21, CallStep
<1>6. LinesIntact'
  <2>1. ~torn
    BY DEF LogInv, LinesIntact
  <2>2. torn' = (torn \/ (buffer[m] # p /\ (m \in SdbModules \/ sinks[m] # {})))
    BY DEF Write
  <2>3. ~torn'
    BY <1>4, <2>1, <2>2, Zenon
  <2> QED
    BY <2>3 DEF LinesIntact
<1>7. NestingBounded'
  <2>1. stack'[p] \in Seq(Frame)
    BY <1>3
  <2>2. Depth(stack'[p]) \in Nat /\ Depth(stack'[p]) <= Len(stack'[p]) + 1
    BY <2>1, DepthFacts
  <2>3. Depth(stack[p]) = n
    BY <1>1, CallDepth
  <2> HIDE DEF n
  <2>4. Depth(stack'[p]) <= Depth(stack[p])
    BY <1>2, <1>3, <2>2, <2>3
  <2> QED
    BY <1>1, <1>3, <2>2, <2>4, NestingSame
<1> QED
  BY <1>3, <1>5, <1>6, <1>7 DEF CallInv

(* A call fails: lm.h releases the lock, Sdb.h leaves it and the failure   *)
(* is a cause.                                                             *)
LEMMA FailureKept ==
  ASSUME LogInv, NEW p \in Threads, LogFails(p)
  PROVE  CallInv'
<1> DEFINE m == Top(p).module
           n == Len(stack[p])
<1>1. /\ stack[p] # <<>> /\ Top(p).kind = "log" /\ HoldsLock(Top(p))
      /\ failures' = failures + 1 /\ AfterFailure(p)
      /\ UNCHANGED <<buffer, pending, torn>>
  BY DEF LogFails, LmFails, SdbFails, Runs, HoldsLock
<1>2. \/ lock' = [lock EXCEPT ![m] = NoThread] /\ causes' = causes
      \/ lock' = lock /\ m \in SdbModules /\ causes' = causes \cup {"error"}
  BY DEF LogFails, LmFails, SdbFails
<1>3. m \in Modules /\ n \in Nat \ {0} /\ lock \in [Modules -> Threads \cup {NoThread}]
  BY <1>1, CallDepth DEF LogInv, LogTypeOK
<1>4. /\ stack' \in [Threads -> Seq(Frame)] /\ \A u \in Threads \ {p} : stack'[u] = stack[u]
      /\ Len(stack'[p]) \in {n, n - 1}
      /\ \A i \in 1 .. n - 1 : stack'[p][i] = stack[p][i]
      /\ Len(stack'[p]) = n => stack'[p][n].kind # "log"
  BY <1>1, AfterFailureFacts DEF LogInv
<1>5. CallsHoldLocks' /\ LockLeftOnlyByError'
  <2>1. /\ \A u \in Threads : \A i \in 1 .. Len(stack'[u]) :
             (u = p /\ i = n) \/ (i \in 1 .. Len(stack[u]) /\ stack'[u][i] = stack[u][i])
        /\ \A u \in Threads : \A i \in 1 .. Len(stack[u]) :
             (u = p /\ i = n /\ stack[u][i].module = m)
               \/ (i \in 1 .. Len(stack'[u]) /\ stack'[u][i] = stack[u][i])
    BY <1>1, <1>4, OnlyTopChanges
  <2>2. \A k \in Modules \ {m} : lock'[k] = lock[k] /\ buffer'[k] = buffer[k]
    BY <1>1, <1>2, <1>3
  <2>3. lock'[m] = NoThread \/ (m \in SdbModules /\ "error" \in causes')
    BY <1>2, <1>3
  <2>4. causes \subseteq causes'
    BY <1>2
  <2>5. \A u \in Threads : \A i \in 1 .. Len(stack[u]) :
          HoldsLock(stack[u][i]) /\ stack[u][i].module = m => u = p /\ i = n
    BY <1>1, SoleHolder
  <2> HIDE DEF m, n
  <2>6. n \in Nat /\ (n \in 1 .. Len(stack'[p]) => ~HoldsLock(stack'[p][n]))
    BY <1>3, <1>4 DEF HoldsLock
  <2>7. /\ n \in 1 .. Len(stack'[p]) /\ HoldsLock(stack'[p][n]) =>
             /\ stack'[p][n].module = m /\ lock'[m] = p
             /\ stack'[p][n].at = "write" => buffer'[m] = p
        /\ lock'[m] # NoThread =>
             \/ /\ lock'[m] = p /\ n \in 1 .. Len(stack'[p])
                /\ stack'[p][n].kind = "log" /\ stack'[p][n].module = m
             \/ m \in SdbModules /\ "error" \in causes'
    BY <2>3, <2>6
  <2>8. n \in Nat /\ m \in Modules /\ stack' \in [Threads -> Seq(Frame)]
    BY <1>3, <1>4
  <2>20. CallChange(p, n, m)
    BY <2>1, <2>2, <2>4, <2>5, <2>7, <2>8 DEF CallChange
  <2>21. n \in Nat /\ m \in Modules
    BY <2>8
  <2> QED
    BY <2>20, <2>21, CallStep
<1>6. NestingBounded'
  <2>1. stack'[p] \in Seq(Frame)
    BY <1>4
  <2>2. Depth(stack'[p]) \in Nat /\ Depth(stack'[p]) <= Len(stack'[p]) + 1
    BY <2>1, DepthFacts
  <2>3. Depth(stack[p]) = n
    BY <1>1, CallDepth
  <2>4. /\ failures \in Nat /\ Cardinality(Sent \ pending) \in Nat
        /\ Depth(stack[p]) <= 1 + 2 * Cardinality(Sent \ pending) + failures
    BY BoundFacts
  <2> HIDE DEF n
  <2>5. /\ failures' \in Nat /\ failures <= failures' /\ pending' \subseteq pending
        /\ Depth(stack'[p]) <= 1 + 2 * Cardinality(Sent \ pending') + failures'
        /\ Cardinality(Sent \ pending) <= Cardinality(Sent \ pending')
    BY <1>1, <1>3, <1>4, <2>2, <2>3, <2>4
  <2> QED
    BY <1>4, <2>5, NestingKept
<1> QED
  BY <1>1, <1>4, <1>5, <1>6 DEF CallInv, LogInv, LinesIntact

(* lm__disable_log_to_term__ takes the lock and then waits for it.         *)
LEMMA DisableKept ==
  ASSUME LogInv, NEW p \in Threads, NEW m \in LmModules, lm__disable_log_to_term__(p, m)
  PROVE  CallInv'
<1>1. /\ stack[p] = <<>> /\ lock[m] = NoThread /\ lock' = [lock EXCEPT ![m] = p]
      /\ stack' = Push(p, LogCall(m)) /\ causes \subseteq causes'
      /\ UNCHANGED <<buffer, failures, pending, torn>>
  BY DEF lm__disable_log_to_term__, MayCall
<1>2. /\ m \in Modules /\ lock \in [Modules -> Threads \cup {NoThread}]
      /\ stack \in [Threads -> Seq(Frame)] /\ Len(stack[p]) = 0
  BY <1>1 DEF Modules, LogInv, LogTypeOK
<1>3. /\ LogCall(m) \in Frame /\ LogCall(m).kind = "log" /\ LogCall(m).at = "lock"
      /\ LogCall(m).module = m
  BY <1>2, FrameFacts
<1>4. /\ stack' \in [Threads -> Seq(Frame)] /\ \A u \in Threads \ {p} : stack'[u] = stack[u]
      /\ Len(stack'[p]) = 1 /\ stack'[p][1] = LogCall(m)
  <2>1. stack' = [stack EXCEPT ![p] = Append(@, LogCall(m))]
    BY <1>1 DEF Push
  <2> QED
    BY <1>2, <1>3, <2>1, PushStackFacts
<1>5. CallsHoldLocks' /\ LockLeftOnlyByError'
  <2>1. PICK n \in Nat : n = 1
    OBVIOUS
  <2>2. \A u \in Threads : \A i \in 1 .. Len(stack'[u]) :
          (u = p /\ i = n) \/ (i \in 1 .. Len(stack[u]) /\ stack'[u][i] = stack[u][i])
    <3> SUFFICES ASSUME NEW u \in Threads, NEW i \in 1 .. Len(stack'[u])
                 PROVE  (u = p /\ i = n)
                          \/ (i \in 1 .. Len(stack[u]) /\ stack'[u][i] = stack[u][i])
      OBVIOUS
    <3>1. CASE u = p
      <4>1. Len(stack'[u]) = 1
        BY <1>4, <3>1
      <4>2. i = 1
        BY <4>1
      <4> QED
        BY <2>1, <3>1, <4>2
    <3>2. CASE u # p
      BY <1>4, <3>2
    <3> QED
      BY <3>1, <3>2
  <2>3. \A u \in Threads : \A i \in 1 .. Len(stack[u]) :
          (u = p /\ i = n /\ stack[u][i].module = m)
            \/ (i \in 1 .. Len(stack'[u]) /\ stack'[u][i] = stack[u][i])
    <3> SUFFICES ASSUME NEW u \in Threads, NEW i \in 1 .. Len(stack[u])
                 PROVE  i \in 1 .. Len(stack'[u]) /\ stack'[u][i] = stack[u][i]
      OBVIOUS
    <3>1. u # p
      BY <1>2
    <3> QED
      BY <1>4, <3>1
  <2>4. \A k \in Modules \ {m} : lock'[k] = lock[k] /\ buffer'[k] = buffer[k]
    BY <1>1, <1>2
  <2>5. \A u \in Threads : \A i \in 1 .. Len(stack[u]) :
          HoldsLock(stack[u][i]) /\ stack[u][i].module = m => u = p /\ i = n
    BY <1>1, <1>2, NoHolder
  <2>6. ~HoldsLock(stack'[p][n])
    BY <1>3, <1>4, <2>1 DEF HoldsLock
  <2>7. lock'[m] = p /\ n \in 1 .. Len(stack'[p])
        /\ stack'[p][n].kind = "log" /\ stack'[p][n].module = m
    BY <1>1, <1>2, <1>3, <1>4, <2>1
  <2>8. /\ n \in 1 .. Len(stack'[p]) /\ HoldsLock(stack'[p][n]) =>
             /\ stack'[p][n].module = m /\ lock'[m] = p
             /\ stack'[p][n].at = "write" => buffer'[m] = p
        /\ lock'[m] # NoThread =>
             \/ /\ lock'[m] = p /\ n \in 1 .. Len(stack'[p])
                /\ stack'[p][n].kind = "log" /\ stack'[p][n].module = m
             \/ m \in SdbModules /\ "error" \in causes'
    BY <2>6, <2>7
  <2>9. m \in Modules /\ stack' \in [Threads -> Seq(Frame)] /\ causes \subseteq causes'
    BY <1>1, <1>2, <1>4
  <2>20. CallChange(p, n, m)
    BY <2>2, <2>3, <2>4, <2>5, <2>8, <2>9 DEF CallChange
  <2>21. n \in Nat /\ m \in Modules
    BY <2>1, <2>9
  <2> QED
    BY <2>20, <2>21, CallStep
<1>6. NestingBounded'
  <2>1. /\ stack'[p] \in Seq(Frame) /\ Len(stack'[p]) > 0
        /\ stack'[p][Len(stack'[p])].kind = "log"
    BY <1>3, <1>4
  <2>2. Depth(stack'[p]) = 1
    BY <1>4, <2>1, DepthFacts
  <2>3. failures \in Nat /\ Cardinality(Sent \ pending) \in Nat
    BY BoundFacts
  <2>4. /\ failures' \in Nat /\ failures <= failures' /\ pending' \subseteq pending
        /\ Depth(stack'[p]) <= 1 + 2 * Cardinality(Sent \ pending') + failures'
        /\ Cardinality(Sent \ pending) <= Cardinality(Sent \ pending')
    BY <1>1, <2>2, <2>3
  <2> QED
    BY <1>4, <2>4, NestingKept
<1> QED
  BY <1>1, <1>4, <1>5, <1>6 DEF CallInv, LogInv, LinesIntact

-----------------------------------------------------------------------------
(* What the loggers' steps do, together.                                   *)
LogAction(p) == LogStep(p) \/ LogFails(p) \/ LogBegins(p)

(* A step that leaves stacks, locks, buffers and counts alone.             *)
LEMMA LogSame ==
  ASSUME LogInv, UNCHANGED <<lock, buffer, stack, failures, pending, torn, causes>>
  PROVE  CallInv'
<1>1. stack' \in [Threads -> Seq(Frame)]
  BY DEF LogInv, LogTypeOK
<1>2. LinesIntact' /\ LockLeftOnlyByError'
  BY DEF LogInv, LinesIntact, LockLeftOnlyByError
<1>3. CallsHoldLocks'
  BY DEF LogInv, CallsHoldLocks, HoldsLock
<1>4. NestingBounded'
  BY DEF LogInv, NestingBounded, Depth
<1> QED
  BY <1>1, <1>2, <1>3, <1>4 DEF CallInv

(* Every step of the loggers keeps the calls in order.                     *)
LEMMA CallsKept ==
  ASSUME LogInv, NEW p \in Threads, LogAction(p)
  PROVE  CallInv'
<1>1. CASE LogStep(p)
  <2>1. CASE Lock(p) \/ Fill(p) \/ Write(p)
    BY <2>1, LockKept, FillKept, WriteKept
  <2>2. CASE HandlerLogs(p)
    <3>1. /\ stack[p] # <<>> /\ Top(p).kind # "log" /\ stack' = LogAndGoto(p, "act")
          /\ UNCHANGED <<lock, buffer, failures, pending, torn, causes>>
      BY <2>2 DEF HandlerLogs, Runs, Signals
    <3> QED
      BY <3>1, HandlerCall
  <2>3. CASE InitiateGracefulShutdown(p)
    <3>1. /\ stack[p] # <<>> /\ Top(p).kind # "log" /\ stack' = LogAndGoto(p, "return")
          /\ UNCHANGED <<lock, buffer, failures, pending, torn, causes>>
      BY <2>3 DEF InitiateGracefulShutdown, Runs, Signals
    <3> QED
      BY <3>1, HandlerCall
  <2>4. CASE HandlerReturns(p)
    BY <2>4, HandlerReturn
  <2>5. CASE HandlerExits(p)
    <3>1. UNCHANGED <<lock, buffer, stack, failures, pending, torn, causes>>
      BY <2>5 DEF HandlerExits
    <3> QED
      BY <3>1, LogSame
  <2> QED
    BY <1>1, <2>1, <2>2, <2>3, <2>4, <2>5 DEF LogStep
<1>2. CASE LogFails(p)
  BY <1>2, FailureKept
<1>3. CASE LogBegins(p)
  <2>1. CASE \E m \in Modules : StartLog(p, m)
    <3>1. PICK m \in Modules : StartLog(p, m)
      BY <2>1
    <3>2. /\ stack[p] = <<>> /\ stack' = Push(p, LogCall(m))
          /\ UNCHANGED <<lock, buffer, failures, pending, torn, causes>>
      BY <3>1 DEF StartLog, MayCall
    <3> QED
      BY <3>2, BeginCall
  <2>2. CASE \E m \in LmModules : \/ lm__set_log_file__(p, m) \/ lm__remove_log_file__(p, m)
                                  \/ lm__enable_log_to_term__(p, m)
    <3>1. UNCHANGED <<lock, buffer, stack, failures, pending, torn, causes>>
      BY <2>2 DEF lm__set_log_file__, lm__remove_log_file__, lm__enable_log_to_term__
    <3> QED
      BY <3>1, LogSame
  <2>3. CASE \E m \in LmModules : lm__disable_log_to_term__(p, m)
    BY <2>3, DisableKept
  <2>4. CASE \E signal \in Signals : DeliverSignal(p, signal)
    BY <2>4, SignalKept
  <2> QED
    BY <1>3, <2>1, <2>2, <2>3, <2>4 DEF LogBegins
<1> QED
  BY <1>1, <1>2, <1>3 DEF LogAction

(* Every step of the loggers keeps the types of the other state.           *)
LEMMA LogTypesKept ==
  ASSUME LogInv, NEW p \in Threads, LogAction(p), stack' \in [Threads -> Seq(Frame)]
  PROVE  LogTypeOK'
<1> USE DEF LogAction, LogStep, LogFails, LogBegins, Lock, Fill, Write, HandlerLogs,
            InitiateGracefulShutdown, HandlerReturns, HandlerExits, LmFails, SdbFails, StartLog,
            lm__set_log_file__, lm__remove_log_file__, lm__enable_log_to_term__,
            lm__disable_log_to_term__, DeliverSignal, MayCall
<1>1. lock' \in [Modules -> Threads \cup {NoThread}]
  BY DEF LogInv, LogTypeOK
<1>2. buffer' \in [Modules -> Threads \cup {NoThread}]
  BY DEF LogInv, LogTypeOK
<1>3. sinks' \in [LmModules -> SUBSET {"term", "file"}]
  <2>1. sinks \in [LmModules -> SUBSET {"term", "file"}]
    BY DEF LogInv, LogTypeOK
  <2>2. \/ sinks' = sinks
        \/ \E m \in LmModules : sinks' \in {[sinks EXCEPT ![m] = @ \cup {"file"}],
                                            [sinks EXCEPT ![m] = @ \ {"file"}],
                                            [sinks EXCEPT ![m] = @ \cup {"term"}],
                                            [sinks EXCEPT ![m] = @ \ {"term"}]}
    BY Zenon
  <2>3. ASSUME NEW m \in LmModules, NEW s \in SUBSET {"term", "file"}
        PROVE  [sinks EXCEPT ![m] = s] \in [LmModules -> SUBSET {"term", "file"}]
    BY <2>1
  <2>4. ASSUME NEW m \in LmModules
        PROVE  /\ sinks[m] \cup {"file"} \in SUBSET {"term", "file"}
               /\ sinks[m] \ {"file"} \in SUBSET {"term", "file"}
               /\ sinks[m] \cup {"term"} \in SUBSET {"term", "file"}
               /\ sinks[m] \ {"term"} \in SUBSET {"term", "file"}
    BY <2>1
  <2> HIDE DEF LogAction
  <2> QED
    BY <2>1, <2>2, <2>3, <2>4
<1>4. calls' \in 0 .. MaxCalls
  BY LoggingAssumption DEF LogInv, LogTypeOK
<1>5. failures' \in 0 .. MaxFailures
  BY LoggingAssumption DEF LogInv, LogTypeOK
<1>6. pending' \subseteq Sent
  BY DEF LogInv, LogTypeOK
<1>7. causes' \subseteq {"error", "relock", "interrupted"}
  BY DEF LogInv, LogTypeOK
<1>8. asserts' \in BOOLEAN /\ shutdown' \in BOOLEAN /\ alive' \in BOOLEAN
  <2>1. asserts' = asserts /\ shutdown' \in {shutdown, TRUE} /\ alive' \in {alive, FALSE}
    OBVIOUS
  <2> QED
    BY <2>1 DEF LogInv, LogTypeOK
<1>9. torn' \in BOOLEAN
  <2>1. torn \in BOOLEAN
    BY DEF LogInv, LogTypeOK
  <2>2. CASE Write(p)
    BY <2>2, Zenon
  <2>3. CASE ~Write(p)
    <3>1. torn' = torn
      BY <2>3
    <3> QED
      BY <2>1, <3>1
  <2> QED
    BY <2>2, <2>3
<1> QED
  BY <1>1, <1>2, <1>3, <1>4, <1>5, <1>6, <1>7, <1>8, <1>9 DEF LogTypeOK

LEMMA LogActionKept ==
  ASSUME LogInv, NEW p \in Threads, LogAction(p)
  PROVE  LogInv'
<1>1. CallInv'
  BY CallsKept
<1>2. stack' \in [Threads -> Seq(Frame)]
  BY <1>1 DEF CallInv
<1>3. LogTypeOK'
  BY <1>2, LogTypesKept
<1> QED
  BY <1>1, <1>3 DEF CallInv, LogInv

LEMMA LogVarsKept ==
  ASSUME LogInv, UNCHANGED logVars
  PROVE  LogInv'
<1>1. CallInv'
  BY LogSame DEF logVars
<1>2. LogTypeOK'
  BY DEF logVars, LogInv, LogTypeOK
<1> QED
  BY <1>1, <1>2 DEF CallInv, LogInv

-----------------------------------------------------------------------------
(* The control operations.                                                 *)
CtlInv == ControlTypeOK /\ MutexForBroadcast

LEMMA ThreadFacts ==
  /\ Worker \in Threads /\ Controller \in Threads /\ Watcher \in Threads
  /\ NoThread \notin Threads /\ "Thread" \in Modules
BY LoggingAssumption, ControlAssumption DEF Modules

(* A flag can be set; it is one of the structure.                          *)
LEMMA FlagSet ==
  ASSUME ControlTypeOK, NEW flag \in Flags
  PROVE  [control EXCEPT ![flag] = TRUE] \in [Flags -> BOOLEAN]
BY DEF ControlTypeOK

(* SdbTCtlSignalStop and SdbTCtlMarkStopped.                               *)
LEMMA SetsKept ==
  ASSUME CtlInv, LogInv, NEW p \in Threads, NEW label, Enters(p, label),
         NEW flag \in Flags, NEW waiting \in Flags, NEW done \in {"wait stop", "done"},
         Sets(p, flag, waiting, done)
  PROVE  CtlInv' /\ LogInv'
<1>1. /\ stack[p] = <<>> /\ p \notin sleeping /\ mutex = NoThread
      /\ control' = [control EXCEPT ![flag] = TRUE] /\ sleeping' = sleeping
      /\ UNCHANGED <<asserts, lock, buffer, sinks, calls, failures, pending, shutdown,
                     alive, torn, causes>>
  BY DEF Enters, At, Free, Sets
<1>2. \/ mutex' = p /\ Jump(p, "broadcast") /\ stack' = Push(p, LogCall("Thread"))
      \/ Jump(p, done) /\ mutex' = mutex /\ stack' = stack
  BY DEF Sets
<1>3. \A u \in Threads : pc[u] # "broadcast"
  BY <1>1, ThreadFacts DEF CtlInv, MutexForBroadcast
<1>4. pc \in [Threads -> Labels] /\ sleeping \subseteq Threads
  BY DEF CtlInv, ControlTypeOK
<1>5. control' \in [Flags -> BOOLEAN]
  BY <1>1, FlagSet DEF CtlInv
<1>6. CtlInv'
  <2>1. CASE mutex' = p /\ Jump(p, "broadcast")
    <3>1. pc' = [pc EXCEPT ![p] = "broadcast"]
      BY <2>1 DEF Jump
    <3>2. pc' \in [Threads -> Labels] /\ \A u \in Threads : pc'[u] = "broadcast" <=> p = u
      BY <1>3, <1>4, <3>1 DEF Labels
    <3> QED
      BY <1>1, <1>4, <1>5, <2>1, <3>2 DEF CtlInv, ControlTypeOK, MutexForBroadcast
  <2>2. CASE Jump(p, done) /\ mutex' = mutex
    <3>1. pc' = [pc EXCEPT ![p] = done]
      BY <2>2 DEF Jump
    <3>2. pc' \in [Threads -> Labels] /\ \A u \in Threads : pc'[u] # "broadcast"
      BY <1>3, <1>4, <3>1 DEF Labels
    <3> QED
      BY <1>1, <1>4, <1>5, <2>2, <3>2, ThreadFacts DEF CtlInv, ControlTypeOK, MutexForBroadcast
  <2> QED
    BY <1>2, <2>1, <2>2
<1>7. CallInv'
  <2>1. CASE stack' = Push(p, LogCall("Thread"))
    BY <1>1, <2>1, BeginCall, ThreadFacts
  <2>2. CASE stack' = stack
    BY <1>1, <2>2, LogSame
  <2> QED
    BY <1>2, <2>1, <2>2
<1>8. LogTypeOK'
  <2>1. stack' \in [Threads -> Seq(Frame)]
    BY <1>7 DEF CallInv
  <2> QED
    BY <1>1, <2>1 DEF LogInv, LogTypeOK
<1> QED
  BY <1>6, <1>7, <1>8 DEF CallInv, LogInv

(* SdbTCtlWaitForSignal and SdbTCtlWaitForStop.                            *)
LEMMA WaitsKept ==
  ASSUME CtlInv, LogInv, NEW p \in Threads, NEW label, Enters(p, label),
         NEW flag \in Flags, NEW waiting \in Flags, NEW done \in {"mark stopped", "done"},
         WaitsFor(p, flag, waiting, done)
  PROVE  CtlInv' /\ LogInv'
<1>1. mutex = NoThread /\ mutex' = mutex /\ UNCHANGED logVars
  BY DEF Enters, WaitsFor
<1>2. \/ Jump(p, done) /\ sleeping' = sleeping /\ control' = control
      \/ /\ control' = [control EXCEPT ![waiting] = TRUE]
         /\ sleeping' = sleeping \cup {p} /\ pc' = pc
  BY DEF WaitsFor
<1>3. \A u \in Threads : pc[u] # "broadcast"
  BY <1>1, ThreadFacts DEF CtlInv, MutexForBroadcast
<1>4. pc \in [Threads -> Labels] /\ sleeping \subseteq Threads /\ control \in [Flags -> BOOLEAN]
  BY DEF CtlInv, ControlTypeOK
<1>5. pc' \in [Threads -> Labels] /\ \A u \in Threads : pc'[u] # "broadcast"
  BY <1>2, <1>3, <1>4 DEF Labels, Jump
<1>6. sleeping' \subseteq Threads
  BY <1>2, <1>4
<1>7. control' \in [Flags -> BOOLEAN]
  BY <1>2, <1>4, FlagSet DEF CtlInv
<1>8. CtlInv'
  BY <1>1, <1>5, <1>6, <1>7, ThreadFacts DEF CtlInv, ControlTypeOK, MutexForBroadcast
<1> QED
  BY <1>1, <1>8, LogVarsKept

(* SdbCondBroadcast.                                                       *)
LEMMA BroadcastKept ==
  ASSUME CtlInv, LogInv, NEW p \in Threads, SdbCondBroadcast(p)
  PROVE  CtlInv' /\ LogInv'
<1>1. /\ pc[p] = "broadcast" /\ sleeping' = {} /\ mutex' = NoThread /\ control' = control
      /\ UNCHANGED logVars
  BY DEF SdbCondBroadcast, At
<1>2. PICK done \in {"wait stop", "done"} : pc' = [pc EXCEPT ![p] = done]
  BY DEF SdbCondBroadcast, Jump
<1>3. \A u \in Threads \ {p} : pc[u] # "broadcast"
  BY <1>1 DEF CtlInv, MutexForBroadcast
<1>4. pc \in [Threads -> Labels] /\ control \in [Flags -> BOOLEAN]
  BY DEF CtlInv, ControlTypeOK
<1>5. pc' \in [Threads -> Labels] /\ \A u \in Threads : pc'[u] # "broadcast"
  BY <1>2, <1>3, <1>4 DEF Labels
<1>6. CtlInv'
  BY <1>1, <1>4, <1>5, ThreadFacts DEF CtlInv, ControlTypeOK, MutexForBroadcast
<1> QED
  BY <1>1, <1>6, LogVarsKept

LEMMA ControlStepKept ==
  ASSUME CtlInv, LogInv, NEW p \in Threads, ControlStep(p)
  PROVE  CtlInv' /\ LogInv'
<1>1. CASE SdbTCtlShouldStop
  <2>1. /\ mutex = NoThread /\ UNCHANGED <<mutex, sleeping, control>> /\ UNCHANGED logVars
        /\ pc' = [pc EXCEPT ![Worker] = "mark stopped"]
    BY <1>1 DEF SdbTCtlShouldStop, Enters, Jump
  <2>2. pc \in [Threads -> Labels] /\ \A u \in Threads : pc[u] # "broadcast"
    BY <2>1, ThreadFacts DEF CtlInv, ControlTypeOK, MutexForBroadcast
  <2>3. pc' \in [Threads -> Labels] /\ \A u \in Threads : pc'[u] # "broadcast"
    BY <2>1, <2>2, ThreadFacts DEF Labels
  <2>4. CtlInv'
    BY <2>1, <2>3, ThreadFacts DEF CtlInv, ControlTypeOK, MutexForBroadcast
  <2> QED
    BY <2>1, <2>4, LogVarsKept
<1>2. CASE SdbTCtlWaitForSignal
  <2>1. "ShouldStop" \in Flags /\ "WaitingForSignalStop" \in Flags
    BY DEF Flags
  <2> QED
    BY <1>2, <2>1, WaitsKept, ThreadFacts DEF SdbTCtlWaitForSignal
<1>3. CASE SdbTCtlMarkStopped
  <2>1. "HasStopped" \in Flags /\ "WaitingForMarkStopped" \in Flags
    BY DEF Flags
  <2> QED
    BY <1>3, <2>1, SetsKept, ThreadFacts DEF SdbTCtlMarkStopped
<1>4. CASE SdbTCtlSignalStop
  <2>1. "ShouldStop" \in Flags /\ "WaitingForSignalStop" \in Flags
    BY DEF Flags
  <2> QED
    BY <1>4, <2>1, SetsKept, ThreadFacts DEF SdbTCtlSignalStop
<1>5. CASE SdbTCtlWaitForStop(p)
  <2>1. "HasStopped" \in Flags /\ "WaitingForMarkStopped" \in Flags
    BY DEF Flags
  <2> QED
    BY <1>5, <2>1, WaitsKept DEF SdbTCtlWaitForStop
<1>6. CASE SdbCondBroadcast(p)
  BY <1>6, BroadcastKept
<1> QED
  BY <1>1, <1>2, <1>3, <1>4, <1>5, <1>6 DEF ControlStep

LEMMA WakeupKept ==
  ASSUME CtlInv, LogInv, NEW p \in Threads, SpuriousWakeup(p)
  PROVE  CtlInv' /\ LogInv'
<1>1. sleeping' = sleeping \ {p} /\ UNCHANGED <<pc, mutex, control>> /\ UNCHANGED logVars
  BY DEF SpuriousWakeup
<1>2. CtlInv'
  BY <1>1 DEF CtlInv, ControlTypeOK, MutexForBroadcast
<1> QED
  BY <1>1, <1>2, LogVarsKept

-----------------------------------------------------------------------------
(* In the beginning nobody is in a call and nothing is locked.             *)
LEMMA ControlInit ==
  Init => ControlInv
<1> SUFFICES ASSUME Init PROVE ControlInv
  OBVIOUS
<1>1. LogTypeOK
  <2>1. <<>> \in Seq(Frame)
    OBVIOUS
  <2>2. stack = [p \in Threads |-> <<>>]
    BY DEF Init, LogInit
  <2>3. stack \in [Threads -> Seq(Frame)]
    BY <2>1, <2>2
  <2>4. /\ asserts \in BOOLEAN /\ shutdown \in BOOLEAN /\ alive \in BOOLEAN /\ torn \in BOOLEAN
    BY DEF Init, LogInit
  <2>5. /\ lock \in [Modules -> Threads \cup {NoThread}]
        /\ buffer \in [Modules -> Threads \cup {NoThread}]
        /\ calls \in 0 .. MaxCalls /\ failures \in 0 .. MaxFailures /\ pending \subseteq Sent
        /\ causes \subseteq {"error", "relock", "interrupted"}
    <3>1. /\ lock = [m \in Modules |-> NoThread] /\ buffer = [m \in Modules |-> NoThread]
          /\ calls = 0 /\ failures = 0 /\ pending = Sent /\ causes = {}
      BY DEF Init, LogInit
    <3>2. MaxCalls \in Nat /\ MaxFailures \in Nat
      BY LoggingAssumption
    <3> QED
      BY <3>1, <3>2
  <2>6. sinks \in [LmModules -> SUBSET {"term", "file"}]
    <3>1. sinks = [m \in LmModules |-> {"term"}] /\ {"term"} \in SUBSET {"term", "file"}
      BY DEF Init, LogInit
    <3> QED
      BY <3>1
  <2> QED
    BY <2>3, <2>4, <2>5, <2>6 DEF LogTypeOK
<1>2. LinesIntact
  BY DEF Init, LogInit, LinesIntact
<1>3. LockLeftOnlyByError
  BY DEF Init, LogInit, LockLeftOnlyByError
<1>4. \A p \in Threads : stack[p] = <<>> /\ Len(stack[p]) = 0
  BY DEF Init, LogInit
<1>5. CallsHoldLocks
  BY <1>4 DEF CallsHoldLocks
<1>6. NestingBounded
  <2>1. pending = Sent /\ failures = 0
    BY DEF Init, LogInit
  <2>2. Cardinality(Sent \ pending) = 0
    <3>1. Sent \ pending = {}
      BY <2>1
    <3> QED
      BY <3>1, FS_EmptySet
  <2>3. ASSUME NEW p \in Threads
        PROVE  Depth(stack[p]) \in Nat /\ Depth(stack[p]) <= 1
    <3>1. stack[p] \in Seq(Frame) /\ Len(stack[p]) = 0
      BY <1>1, <1>4 DEF LogTypeOK
    <3>2. Depth(stack[p]) \in Nat /\ Depth(stack[p]) <= Len(stack[p]) + 1
      BY <3>1, DepthFacts
    <3> QED
      BY <3>1, <3>2
  <2> QED
    BY <2>1, <2>2, <2>3 DEF NestingBounded
<1>7. control \in [Flags -> BOOLEAN]
  BY DEF Init, SdbTCtlInit
<1>8. PICK waits \in BOOLEAN :
        pc = [p \in Threads |-> IF p = Controller THEN "signal stop"
                                ELSE IF p = Watcher THEN "wait stop"
                                ELSE IF waits THEN "wait signal" ELSE "poll"]
  BY DEF Init
<1>9. pc \in [Threads -> Labels] /\ \A p \in Threads : pc[p] # "broadcast"
  BY <1>8 DEF Labels
<1>10. mutex = NoThread /\ sleeping = {}
  BY DEF Init, SdbTCtlInit
<1> QED
  BY <1>1, <1>2, <1>3, <1>5, <1>6, <1>7, <1>9, <1>10, ThreadFacts
  DEF ControlInv, ControlTypeOK, MutexForBroadcast, LogInv

LEMMA ControlNext ==
  ControlInv /\ [Next]_vars => ControlInv'
<1> SUFFICES ASSUME ControlInv, [Next]_vars PROVE ControlInv'
  OBVIOUS
<1>1. CtlInv /\ LogInv
  BY DEF ControlInv, CtlInv
<1>2. ASSUME NEW p \in Threads, LogAction(p), UNCHANGED ctlVars
      PROVE  ControlInv'
  <2>1. LogInv'
    BY <1>1, <1>2, LogActionKept
  <2>2. ControlTypeOK' /\ MutexForBroadcast'
    BY <1>1, <1>2 DEF CtlInv, ControlTypeOK, MutexForBroadcast, ctlVars
  <2> QED
    BY <2>1, <2>2 DEF ControlInv
<1>3. ASSUME NEW p \in Threads, ControlStep(p) \/ SpuriousWakeup(p)
      PROVE  ControlInv'
  <2>1. CtlInv' /\ LogInv'
    BY <1>1, <1>3, ControlStepKept, WakeupKept
  <2> QED
    BY <2>1 DEF CtlInv, ControlInv
<1>4. CASE UNCHANGED vars
  <2>1. LogInv'
    BY <1>1, <1>4, LogVarsKept DEF vars
  <2>2. ControlTypeOK' /\ MutexForBroadcast'
    BY <1>1, <1>4 DEF CtlInv, ControlTypeOK, MutexForBroadcast, vars, ctlVars
  <2> QED
    BY <2>1, <2>2 DEF ControlInv
<1> QED
  BY <1>2, <1>3, <1>4 DEF Next, LogAction

(* In every state, whatever the threads, the signals, the failures and the *)
(* compilation, the mutex of sdb_thread_control is kept only for a         *)
(* broadcast and never by a sleeper, every line is written whole, a log    *)
(* lock is held by a thread inside a log call on its module or was left by *)
(* an error of Sdb__WriteLog__, and handlers and calls nest no deeper than *)
(* the signals that came and the failures allow.                           *)
THEOREM ControlInvariant == Spec => []ControlInv
<1>1. Init => ControlInv
  BY ControlInit
<1>2. ControlInv /\ [Next]_vars => ControlInv'
  BY ControlNext
<1> QED
  BY <1>1, <1>2, PTL DEF Spec
=============================================================================
