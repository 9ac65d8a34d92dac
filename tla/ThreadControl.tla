---------------------------- MODULE ThreadControl ----------------------------
(***************************************************************************)
(* sdb_thread_control of src/sdhs/Common/Thread.c: a controller asks a     *)
(* worker to stop and waits until it has, a watcher only waits.  All wait  *)
(* on one condition variable, and waking them logs a line while the mutex  *)
(* is held, so the log of Logging is part of the handshake.                *)
(*                                                                         *)
(* A thread is in its control operation only while it is in no log call    *)
(* and no signal handler.                                                  *)
(***************************************************************************)
EXTENDS Logging

CONSTANTS Worker, Controller, Watcher

ASSUME ControlAssumption ==
  Threads = {Worker, Controller, Watcher} /\ "Thread" \in SdbModules

VARIABLES
  pc,        \* where each thread is
  mutex,     \* the thread that holds Control->Mutex
  sleeping,  \* the threads in pthread_cond_wait
  control    \* the flags of the structure

ctlVars == <<pc, mutex, sleeping, control>>
vars == <<ctlVars, logVars>>

Flags == {"HasStopped", "ShouldStop", "WaitingForSignalStop", "WaitingForMarkStopped"}

(* SdbTCtlInit does not set WaitingForMarkStopped.                         *)
SdbTCtlInit ==
  /\ mutex = NoThread /\ sleeping = {}
  /\ control \in [Flags -> BOOLEAN]
  /\ \A flag \in Flags \ {"WaitingForMarkStopped"} : control[flag] = FALSE

Init ==
  /\ LogInit /\ SdbTCtlInit
  /\ \E waits \in BOOLEAN :
       pc = [t \in Threads |-> IF t = Controller THEN "signal stop"
                               ELSE IF t = Watcher THEN "wait stop"
                               ELSE IF waits THEN "wait signal" ELSE "poll"]

-----------------------------------------------------------------------------
Free(t) == alive /\ stack[t] = <<>> /\ t \notin sleeping
At(t, label) == Free(t) /\ pc[t] = label
Jump(t, label) == pc' = [pc EXCEPT ![t] = label]

(* A critical section without a call in it is one step, taken when the     *)
(* mutex is free (SdbMutexLock, SdbMutexUnlock with SDB_TIMEOUT_MAX).      *)
Enters(t, label) == At(t, label) /\ mutex = NoThread

(* SdbTCtlShouldStop, which the worker may call between other work.        *)
SdbTCtlShouldStop ==
  /\ Enters(Worker, "poll") /\ control["ShouldStop"]
  /\ Jump(Worker, "mark stopped")
  /\ UNCHANGED <<mutex, sleeping, control, logVars>>

(* A flag is set and, if somebody waits for it, the mutex kept for the     *)
(* broadcast, which begins with a line in the log of Thread.c.             *)
Sets(t, flag, waiting, done) ==
  /\ control' = [control EXCEPT ![flag] = TRUE]
  /\ IF control[waiting]
     THEN /\ mutex' = t /\ Jump(t, "broadcast") /\ stack' = Push(t, LogCall("Thread"))
     ELSE /\ Jump(t, done) /\ UNCHANGED <<mutex, stack>>
  /\ UNCHANGED <<sleeping, asserts, lock, buffer, sinks, calls, failures, pending, shutdown,
                 alive, torn, causes>>

SdbTCtlSignalStop ==
  /\ Enters(Controller, "signal stop")
  /\ Sets(Controller, "ShouldStop", "WaitingForSignalStop", "wait stop")

(* Fault: the flag tested is the one for the other direction.              *)
SdbTCtlMarkStoppedWrongFlag ==
  /\ Enters(Worker, "mark stopped")
  /\ Sets(Worker, "HasStopped", "WaitingForSignalStop", "done")

SdbTCtlMarkStopped ==
  /\ Enters(Worker, "mark stopped")
  /\ Sets(Worker, "HasStopped", "WaitingForMarkStopped", "done")

(* After the line every sleeper is woken and the mutex released.           *)
SdbCondBroadcast(t) ==
  /\ At(t, "broadcast")
  /\ sleeping' = {} /\ mutex' = NoThread
  /\ Jump(t, IF t = Controller THEN "wait stop" ELSE "done")
  /\ UNCHANGED <<control, logVars>>

(* Fault: the waiter sleeps with the mutex.                                *)
WaitsForLocked(t, flag, waiting, done) ==
  /\ IF control[flag]
     THEN Jump(t, done) /\ UNCHANGED <<mutex, sleeping, control>>
     ELSE /\ control' = [control EXCEPT ![waiting] = TRUE] /\ mutex' = t
          /\ sleeping' = sleeping \cup {t} /\ UNCHANGED pc
  /\ UNCHANGED logVars

(* The loop around SdbCondWait: a waiter that is woken tests again, with   *)
(* the mutex.                                                              *)
WaitsFor(t, flag, waiting, done) ==
  /\ IF control[flag]
     THEN Jump(t, done) /\ UNCHANGED <<sleeping, control>>
     ELSE /\ control' = [control EXCEPT ![waiting] = TRUE]
          /\ sleeping' = sleeping \cup {t} /\ UNCHANGED pc
  /\ UNCHANGED <<mutex, logVars>>

SdbTCtlWaitForSignal ==
  /\ Enters(Worker, "wait signal")
  /\ WaitsFor(Worker, "ShouldStop", "WaitingForSignalStop", "mark stopped")

SdbTCtlWaitForStop(t) ==
  /\ Enters(t, "wait stop")
  /\ WaitsFor(t, "HasStopped", "WaitingForMarkStopped", "done")

SpuriousWakeup(t) ==
  /\ alive /\ t \in sleeping
  /\ sleeping' = sleeping \ {t}
  /\ UNCHANGED <<pc, mutex, control, logVars>>

-----------------------------------------------------------------------------
ControlStep(t) ==
  \/ t = Worker /\ (SdbTCtlShouldStop \/ SdbTCtlWaitForSignal \/ SdbTCtlMarkStopped)
  \/ t = Controller /\ SdbTCtlSignalStop
  \/ t # Worker /\ SdbTCtlWaitForStop(t)
  \/ t # Watcher /\ SdbCondBroadcast(t)

Next ==
  \E t \in Threads :
    \/ ControlStep(t) \/ SpuriousWakeup(t)
    \/ (LogStep(t) \/ LogFails(t) \/ LogBegins(t)) /\ UNCHANGED ctlVars

(* Threads run on by themselves, and a mutex that is released comes to     *)
(* whoever waits for it.  Failures, signals, spurious wakeups and further  *)
(* log calls need not happen.                                              *)
Fairness ==
  \A t \in Threads : /\ WF_vars(ControlStep(t))
                     /\ WF_vars(LogStep(t) /\ UNCHANGED ctlVars)

Spec == Init /\ [][Next]_vars /\ Fairness

-----------------------------------------------------------------------------
(* The types of the structure.                                             *)
Labels == {"poll", "wait signal", "mark stopped", "signal stop", "wait stop", "broadcast",
           "done"}

ControlTypeOK ==
  /\ pc \in [Threads -> Labels] /\ mutex \in Threads \cup {NoThread}
  /\ sleeping \subseteq Threads /\ control \in [Flags -> BOOLEAN]

(* The mutex is held across steps by the thread that broadcasts, alone,    *)
(* and never by a sleeper.                                                 *)
MutexForBroadcast ==
  /\ \A t \in Threads : pc[t] = "broadcast" <=> mutex = t
  /\ mutex \notin sleeping

(* No wake-up is lost between the three waits on the one condition         *)
(* variable and every log call and signal handler returns: the worker      *)
(* stops and everybody who waits for it goes on.  This fails only when the *)
(* process ends, or a log lock is left taken in one of three ways: an      *)
(* error in Sdb__WriteLog__, the double lock of lm__disable_log_to_term__, *)
(* or a signal to a thread that holds the lock its handler needs.          *)
StopCompletes ==
  <>(~alive \/ causes # {} \/ \A t \in Threads : pc[t] = "done" /\ stack[t] = <<>>)

(* In every state only a broadcaster holds the mutex, the lines written    *)
(* are whole, the nesting of calls and handlers is bounded, and a log lock *)
(* is held by a thread inside a log call on it, or was left by an error of *)
(* Sdb__WriteLog__.                                                        *)
ControlInv == ControlTypeOK /\ MutexForBroadcast /\ LogInv
=============================================================================
