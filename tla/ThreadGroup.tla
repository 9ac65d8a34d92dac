----------------------------- MODULE ThreadGroup -----------------------------
(***************************************************************************)
(* The life of the process that runs the Sensor Data Handler System        *)
(* (SdhsMain of src/sdhs/Sdhs.c): the main thread creates a thread group   *)
(* for every data handler of the configuration, starts them all, waits for *)
(* all of them or for a shutdown request, and frees the manager            *)
(* (src/sdhs/Common/ThreadGroup.c).  A detached monitor per group joins    *)
(* its threads, cleans up and reports to the manager.                      *)
(*                                                                         *)
(* Every group is a ModbusWithPostgres handler in test mode: three tasks   *)
(* that set themselves up, meet at a barrier for three and then run.  What *)
(* they do after the barrier is the subject of the module                  *)
(* ModbusWithPostgres; here a task only ends or does not.                  *)
(*                                                                         *)
(* The manager's mutex is held by the main thread in the control states    *)
(* HoldsMutex; a monitor's critical section is one step.                   *)
(***************************************************************************)
EXTENDS Integers, FiniteSets

CONSTANT GroupCount

ASSUME GroupCountAssumption == GroupCount \in Nat \ {0}

VARIABLES
  conf,              \* conf[i]: what the configuration says of handler i
  pipes,             \* the groups whose context and pipe exist
  mainpc,            \* control state of the main thread
  g, t,              \* loop variables of TgManagerStartAll and TgStartGroup
  task,              \* task[i][j]: state of thread j of group i
  monitor,           \* monitor[i]: state of TgMonitor of group i
  cleanups,          \* how often the Cleanup of group i has been called
  Completed,         \* Completed[i]: the flag of group i
  CompletedCount,
  live,              \* the i for which Manager->Groups[i] is not NULL
  freed,             \* TgDestroyManager has been called
  ShutdownRequested

setupVars == <<conf, pipes>>
mainVars == <<mainpc, g, t, setupVars>>
managerVars == <<Completed, CompletedCount, live, freed>>
tgVars == <<mainVars, task, monitor, cleanups, managerVars, ShutdownRequested>>

Ids == 1 .. GroupCount

(* MbPgTestTasks, in the order in which the threads are created.           *)
PgThread == 1
MbPgTestServer == 2
MbThread == 3
Tasks == {PgThread, MbPgTestServer, MbThread}
ThreadCount == 3

(* A handler is enabled in test mode, enabled without it, not enabled, or  *)
(* of a name that is not known.                                            *)
Kinds == {"test", "normal", "disabled", "unknown"}

TgInit ==
  /\ conf \in [Ids -> Kinds] /\ pipes = {}
  /\ mainpc = "load" /\ g = 1 /\ t = 1
  /\ task = [i \in Ids |-> [j \in Tasks |-> "none"]]
  /\ monitor = [i \in Ids |-> "none"]
  /\ cleanups = [i \in Ids |-> 0]
  /\ Completed = [i \in Ids |-> FALSE] /\ CompletedCount = 0 /\ live = {}
  /\ freed = FALSE /\ ShutdownRequested = FALSE

Ended(i) == \A j \in Tasks : task[i][j] \in {"failed", "done"}
Exited == mainpc = "exited"
HoldsMutex == mainpc \in {"creating", "joining", "test", "scan"}

-----------------------------------------------------------------------------
(* The main thread sets up from the configuration (SetUpFromConf).  g is   *)
(* the handler whose group is created next; when anything fails SdhsMain   *)
(* finds no manager and exits.                                             *)

restVars == <<conf, t, task, monitor, cleanups, Completed, CompletedCount,
              ShutdownRequested>>

(* The file is loaded and parsed and holds an array of data handlers.      *)
LoadConf ==
  /\ mainpc = "load" /\ mainpc' \in {"handlers", "exited"}
  /\ UNCHANGED <<restVars, pipes, g, live, freed>>

(* MbPgCreateTg creates the context, the pipe and then the group.          *)
DhsCreateTg ==
  /\ mainpc = "handlers" /\ g \in Ids /\ conf[g] = "test"
  /\ pipes' = pipes \cup {g} /\ g' = g + 1
  /\ UNCHANGED <<restVars, mainpc, live, freed>>

(* Fault: a handler without a group is passed over.                        *)
CreateTgSkips ==
  /\ mainpc = "handlers" /\ g \in Ids /\ conf[g] \in {"disabled", "unknown"}
  /\ g' = g + 1
  /\ UNCHANGED <<restVars, mainpc, pipes, live, freed>>

DhsCreateTgFails ==
  /\ mainpc = "handlers" /\ g \in Ids /\ conf[g] \in {"disabled", "unknown"}
  /\ mainpc' = "exited"
  /\ UNCHANGED <<restVars, pipes, g, live, freed>>

(* There is no memory for the context or no pipe, or, with both left       *)
(* behind, the handler is not in test mode or there is no memory for the   *)
(* group.                                                                  *)
MbPgCreateTgFails ==
  /\ mainpc = "handlers" /\ g \in Ids /\ conf[g] \in {"test", "normal"}
  /\ mainpc' = "exited" /\ pipes' \in {pipes, pipes \cup {g}}
  /\ UNCHANGED <<restVars, g, live, freed>>

TgCreateManager ==
  /\ mainpc = "handlers" /\ g = GroupCount + 1
  /\ \/ mainpc' = "signals" /\ live' = Ids /\ g' = 1
     \/ mainpc' = "exited" /\ UNCHANGED <<live, g>>
  /\ UNCHANGED <<restVars, pipes, freed>>

SdbSetupSignalHandlers ==
  /\ mainpc = "signals"
  /\ \/ mainpc' = "creating" /\ UNCHANGED freed
     \/ mainpc' = "exited" /\ freed' = TRUE
  /\ UNCHANGED <<restVars, pipes, g, live>>

SetUp == \/ LoadConf \/ DhsCreateTg \/ DhsCreateTgFails \/ MbPgCreateTgFails
         \/ TgCreateManager \/ SdbSetupSignalHandlers

-----------------------------------------------------------------------------
(* The main thread starts the groups and waits.                            *)

(* pthread_create of the next task of group g, or of its monitor.          *)
StartTask ==
  /\ mainpc = "creating" /\ t <= ThreadCount
  /\ task' = [task EXCEPT ![g][t] = "init"]
  /\ t' = t + 1
  /\ UNCHANGED <<setupVars, mainpc, g, monitor, cleanups, managerVars, ShutdownRequested>>

(* Fault: the loop over the groups runs once too often.                    *)
StartMonitorOffByOne ==
  /\ mainpc = "creating" /\ t = ThreadCount + 1
  /\ monitor' = [monitor EXCEPT ![g] = "joining"]
  /\ IF g <= GroupCount THEN g' = g + 1 /\ t' = 1 /\ UNCHANGED mainpc
                        ELSE mainpc' = "locking" /\ UNCHANGED <<g, t>>
  /\ UNCHANGED <<setupVars, task, cleanups, managerVars, ShutdownRequested>>

StartMonitor ==
  /\ mainpc = "creating" /\ t = ThreadCount + 1
  /\ monitor' = [monitor EXCEPT ![g] = "joining"]
  /\ IF g < GroupCount THEN g' = g + 1 /\ t' = 1 /\ UNCHANGED mainpc
                       ELSE mainpc' = "locking" /\ UNCHANGED <<g, t>>
  /\ UNCHANGED <<setupVars, task, cleanups, managerVars, ShutdownRequested>>

(* pthread_create fails.  For a task, the threads of the group that exist  *)
(* already are joined first; SdhsMain then exits the process.              *)
StartTaskFails ==
  /\ mainpc = "creating" /\ t <= ThreadCount
  /\ mainpc' = "joining"
  /\ UNCHANGED <<setupVars, g, t, task, monitor, cleanups, managerVars, ShutdownRequested>>

JoinStarted ==
  /\ mainpc = "joining"
  /\ \A j \in 1 .. t - 1 : task[g][j] \in {"failed", "done"}
  /\ cleanups' = [cleanups EXCEPT ![g] = @ + 1]
  /\ mainpc' = "exited"
  /\ UNCHANGED <<setupVars, g, t, task, monitor, managerVars, ShutdownRequested>>

StartMonitorFails ==
  /\ mainpc = "creating" /\ t = ThreadCount + 1
  /\ mainpc' = "exited"
  /\ UNCHANGED <<setupVars, g, t, task, monitor, cleanups, managerVars, ShutdownRequested>>

(* TgManagerWaitForAll.                                                    *)
WaitLock ==
  /\ mainpc = "locking"
  /\ mainpc' = "test"
  /\ UNCHANGED <<setupVars, g, t, task, monitor, cleanups, managerVars, ShutdownRequested>>

(* Fault: the shutdown request is not part of the loop's condition.        *)
WaitTestIgnoresShutdown ==
  /\ mainpc = "test" /\ CompletedCount < GroupCount
  /\ mainpc' = "condwait"
  /\ UNCHANGED <<setupVars, g, t, task, monitor, cleanups, managerVars, ShutdownRequested>>

WaitTest ==
  /\ mainpc = "test" /\ CompletedCount < GroupCount /\ ~ShutdownRequested
  /\ mainpc' = "condwait"
  /\ UNCHANGED <<setupVars, g, t, task, monitor, cleanups, managerVars, ShutdownRequested>>

(* The timed wait on the condition ends, by a signal or after a second.    *)
CondWake ==
  /\ mainpc = "condwait"
  /\ mainpc' = "scan"
  /\ UNCHANGED <<setupVars, g, t, task, monitor, cleanups, managerVars, ShutdownRequested>>

ScanCompleted ==
  /\ mainpc = "scan"
  /\ live' = {i \in live : ~Completed[i]}
  /\ mainpc' = "test"
  /\ UNCHANGED <<setupVars, g, t, task, monitor, cleanups, Completed, CompletedCount, freed,
                 ShutdownRequested>>

(* The loop ends and the mutex is unlocked.                                *)
WaitReturns ==
  /\ mainpc = "test" /\ (CompletedCount >= GroupCount \/ ShutdownRequested)
  /\ CompletedCount' = IF ShutdownRequested THEN GroupCount ELSE CompletedCount
  /\ mainpc' = "destroy"
  /\ UNCHANGED <<setupVars, g, t, task, monitor, cleanups, Completed, live, freed,
                 ShutdownRequested>>

TgDestroyManager ==
  /\ mainpc = "destroy"
  /\ freed' = TRUE
  /\ mainpc' = "report"
  /\ UNCHANGED <<setupVars, g, t, task, monitor, cleanups, Completed, CompletedCount, live,
                 ShutdownRequested>>

(* SdhsMain writes its timings and returns; the process exits.             *)
ExitProcess ==
  /\ mainpc = "report"
  /\ mainpc' = "exited"
  /\ UNCHANGED <<setupVars, g, t, task, monitor, cleanups, managerVars, ShutdownRequested>>

MainStep == \/ StartTask \/ StartMonitor \/ JoinStarted
            \/ WaitLock \/ WaitTest \/ CondWake \/ ScanCompleted \/ WaitReturns
            \/ TgDestroyManager \/ ExitProcess

-----------------------------------------------------------------------------
(* The threads of group i and its monitor, as long as the process lives.   *)

SetTask(i, j, state) ==
  /\ task' = [task EXCEPT ![i][j] = state]
  /\ UNCHANGED <<mainVars, monitor, cleanups, managerVars>>

(* The Postgres thread and the test server may return before the barrier.  *)
TaskSetupFails(i, j) ==
  /\ ~Exited /\ task[i][j] = "init" /\ j \in {PgThread, MbPgTestServer}
  /\ SetTask(i, j, "failed") /\ UNCHANGED ShutdownRequested

BarrierWait(i, j) ==
  /\ ~Exited /\ task[i][j] = "init"
  /\ SetTask(i, j, "barrier") /\ UNCHANGED ShutdownRequested

(* Fault: a barrier initialised for two threads.                           *)
BarrierPassTwo(i, j) ==
  /\ ~Exited /\ task[i][j] = "barrier"
  /\ Cardinality({k \in Tasks : task[i][k] \in {"barrier", "run", "done"}}) >= 2
  /\ SetTask(i, j, "run") /\ UNCHANGED ShutdownRequested

BarrierPass(i, j) ==
  /\ ~Exited /\ task[i][j] = "barrier"
  /\ \A k \in Tasks : task[i][k] \in {"barrier", "run", "done"}
  /\ SetTask(i, j, "run") /\ UNCHANGED ShutdownRequested

(* The Postgres thread leaves its loop for reasons of its own and requests *)
(* a shutdown; the other two only end after a request.                     *)
TaskEnds(i, j) ==
  /\ ~Exited /\ task[i][j] = "run" /\ (j = PgThread \/ ShutdownRequested)
  /\ SetTask(i, j, "done")
  /\ ShutdownRequested' = (ShutdownRequested \/ j = PgThread)

(* Fault: the monitor leaves its join loop one thread early.               *)
MonitorJoinsFewer(i) ==
  /\ ~Exited /\ monitor[i] = "joining"
  /\ \A j \in 1 .. ThreadCount - 1 : task[i][j] \in {"failed", "done"}
  /\ cleanups' = [cleanups EXCEPT ![i] = @ + 1]
  /\ monitor' = [monitor EXCEPT ![i] = "notify"]
  /\ UNCHANGED <<mainVars, task, managerVars, ShutdownRequested>>

MonitorJoins(i) ==
  /\ ~Exited /\ monitor[i] = "joining" /\ Ended(i)
  /\ cleanups' = [cleanups EXCEPT ![i] = @ + 1]
  /\ monitor' = [monitor EXCEPT ![i] = "notify"]
  /\ UNCHANGED <<mainVars, task, managerVars, ShutdownRequested>>

(* Fault: the monitor counts its group twice.                              *)
MonitorCountsTwice(i) ==
  /\ ~Exited /\ monitor[i] = "notify" /\ ~HoldsMutex
  /\ Completed' = [Completed EXCEPT ![i] = TRUE]
  /\ CompletedCount' = CompletedCount + 2
  /\ monitor' = [monitor EXCEPT ![i] = "done"]
  /\ UNCHANGED <<mainVars, task, cleanups, live, freed, ShutdownRequested>>

(* Under the manager's mutex, or in the memory where it used to be.        *)
MonitorNotifies(i) ==
  /\ ~Exited /\ monitor[i] = "notify" /\ ~HoldsMutex
  /\ Completed' = [Completed EXCEPT ![i] = TRUE]
  /\ CompletedCount' = CompletedCount + 1
  /\ monitor' = [monitor EXCEPT ![i] = "done"]
  /\ UNCHANGED <<mainVars, task, cleanups, live, freed, ShutdownRequested>>

SignalHandler ==
  /\ mainpc \notin {"load", "handlers", "signals", "exited"} /\ ~ShutdownRequested
  /\ ShutdownRequested' = TRUE
  /\ UNCHANGED <<mainVars, task, monitor, cleanups, managerVars>>

TaskStarts(i, j) == TaskSetupFails(i, j) \/ BarrierWait(i, j)
MonitorStep(i) == MonitorJoins(i) \/ MonitorNotifies(i)

TgNext == \/ SetUp \/ MainStep \/ StartTaskFails \/ StartMonitorFails
          \/ \E i \in Ids : \/ MonitorStep(i)
                            \/ \E j \in Tasks : \/ TaskStarts(i, j)
                                                \/ BarrierPass(i, j)
                                                \/ TaskEnds(i, j)
          \/ SignalHandler

TgSpec == TgInit /\ [][TgNext]_tgVars

(* Every thread is scheduled and the wait on the condition has a timeout.  *)
(* Nothing is assumed of how long a task runs once it has passed the       *)
(* barrier, of signals or of failures.                                     *)
FairTgSpec ==
  /\ TgSpec
  /\ WF_tgVars(MainStep)
  /\ \A i \in Ids : /\ WF_tgVars(MonitorStep(i))
                    /\ \A j \in Tasks : /\ WF_tgVars(TaskStarts(i, j))
                                        /\ WF_tgVars(BarrierPass(i, j))

-----------------------------------------------------------------------------
(* Every variable has its type.                                            *)
TgTypeOK ==
  /\ conf \in [Ids -> Kinds] /\ pipes \subseteq Ids
  /\ mainpc \in {"load", "handlers", "signals", "creating", "joining", "locking", "test",
                 "condwait", "scan", "destroy", "report", "exited"}
  /\ g \in Ids \/ (mainpc \in {"handlers", "exited"} /\ g = GroupCount + 1)
  /\ t \in 1 .. ThreadCount + 1
  /\ task \in [Ids -> [Tasks -> {"none", "init", "barrier", "run", "failed", "done"}]]
  /\ monitor \in [Ids -> {"none", "joining", "notify", "done"}]
  /\ cleanups \in [Ids -> Nat]
  /\ Completed \in [Ids -> BOOLEAN] /\ CompletedCount \in Nat
  /\ live \subseteq Ids /\ freed \in BOOLEAN /\ ShutdownRequested \in BOOLEAN

(* The cleanup of a group is called at most once, and only after all of    *)
(* the group's threads have completed.                                     *)
CleanupAfterThreads ==
  \A i \in Ids :
    /\ cleanups[i] <= 1
    /\ cleanups[i] = 1 => \A j \in Tasks : task[i][j] \in {"none", "failed", "done"}

(* What the manager believes is true: a group is marked as completed only  *)
(* when its threads have ended and have been cleaned up after, the groups  *)
(* it has dropped are completed, and as long as it waits CompletedCount is *)
(* the number of completed groups, whichever monitors report in between.   *)
ManagerAgrees ==
  /\ \A i \in Ids : Completed[i] => Ended(i) /\ cleanups[i] = 1
  /\ mainpc \notin {"load", "handlers", "exited"} => \A i \in Ids \ live : Completed[i]
  /\ mainpc \in {"locking", "test", "condwait", "scan"}
       => CompletedCount = Cardinality({i \in Ids : Completed[i]})

(* All or nothing: a thread exists only if every handler of the            *)
(* configuration has been accepted and has its context and pipe, and the   *)
(* manager knows its group or has seen it complete.                        *)
AllHandlersOrNone ==
  (\E i \in Ids, j \in Tasks : task[i][j] # "none")
    => \A i \in Ids : conf[i] = "test" /\ i \in pipes /\ (i \in live \/ Completed[i])

(* No task of a group runs before all three have completed their setup.    *)
SetupBeforeRun ==
  \A i \in Ids : (\E j \in Tasks : task[i][j] \in {"run", "done"})
    => \A k \in Tasks : task[i][k] \in {"barrier", "run", "done"}

(* A shutdown request ends the process, even if tasks are stuck at the     *)
(* barrier or in the pipe.  The one exception is a failed pthread_create:  *)
(* TgStartGroup then joins threads of which one is at the barrier, where   *)
(* the thread that was not created is missing.                             *)
ProcessEnds ==
  ShutdownRequested ~> \/ mainpc = "exited"
                       \/ mainpc = "joining" /\ \E j \in 1 .. t - 1 : task[g][j] = "barrier"

(* How far the main thread is tells which handlers are accepted and which  *)
(* threads exist: groups are created and started one after the other, and  *)
(* the monitor of a group after its tasks.                                 *)
LaunchInOrder ==
  /\ mainpc \in {"load", "signals"} => g = 1
  /\ mainpc = "handlers" => \A i \in Ids : i < g => conf[i] = "test" /\ i \in pipes
  /\ mainpc \notin {"load", "handlers", "exited"} =>
       \A i \in Ids : conf[i] = "test" /\ i \in pipes
  /\ mainpc \in {"load", "handlers", "signals"} =>
       /\ t = 1 /\ ~ShutdownRequested
       /\ \A i \in Ids : monitor[i] = "none" /\ \A j \in Tasks : task[i][j] = "none"
  /\ mainpc \in {"creating", "joining"} =>
       \A i \in Ids : /\ i >= g => monitor[i] = "none"
                      /\ \A j \in Tasks : i > g \/ (i = g /\ j >= t) => task[i][j] = "none"

(* What a monitor has done is what is recorded of its group.  Only the     *)
(* main thread cleans up without a monitor, and then exits.                *)
MonitorsAgree ==
  \A i \in Ids :
    /\ Completed[i] <=> monitor[i] = "done"
    /\ monitor[i] = "none" => cleanups[i] = 0 \/ mainpc = "exited"
    /\ monitor[i] = "joining" => cleanups[i] = 0
    /\ monitor[i] \in {"notify", "done"} => Ended(i) /\ cleanups[i] = 1

(* CompletedCount counts the completed groups until the wait is over.      *)
CountAgrees ==
  mainpc \notin {"destroy", "report", "exited"}
    => CompletedCount = Cardinality({i \in Ids : Completed[i]})

(* What holds of the process in every state: the types, that no task runs  *)
(* before its partners have set themselves up, that a thread exists only   *)
(* if every handler of the configuration could be created, and the order   *)
(* of events and the bookkeeping of the monitors behind these.             *)
TgInv ==
  /\ TgTypeOK /\ SetupBeforeRun /\ AllHandlersOrNone
  /\ LaunchInOrder /\ MonitorsAgree /\ CountAgrees
=============================================================================
