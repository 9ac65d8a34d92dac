------------------------------- MODULE Logging -------------------------------
(***************************************************************************)
(* The two loggers, Sdb__WriteLog__ of src/sdhs/Sdb.h and lm__write_log__  *)
(* of src/lm.h, under threads and signals.                                 *)
(*                                                                         *)
(* A log module is a lock and a buffer.  A thread has a stack of the log   *)
(* calls and signal handlers it is in; only the top one runs.  A line is   *)
(* represented by the thread it is from.  Time and formatting errors are   *)
(* one outcome each of two steps: before and after the buffer is filled.   *)
(***************************************************************************)
EXTENDS Integers, Sequences, FiniteSets

CONSTANTS
  Threads,     \* the threads of the process
  SdbModules,  \* the log modules of Sdb.h, "Signals" among them
  LmModules,   \* the log modules of lm.h
  MaxCalls,    \* bound on the calls threads make of their own
  MaxFailures, \* bound on the failing library calls
  Sent,        \* the signals that may be sent, once each
  NoThread

Modules == SdbModules \cup LmModules
Signals == {"SIGINT", "SIGTERM"}

ASSUME LoggingAssumption ==
  /\ "Signals" \in SdbModules /\ SdbModules \cap LmModules = {}
  /\ Sent \subseteq Signals /\ MaxCalls \in Nat /\ MaxFailures \in Nat /\ NoThread \notin Threads

VARIABLES
  asserts,   \* whether assertions are compiled in
  lock,      \* lock[m]: the thread that holds the lock of m
  buffer,    \* buffer[m]: whose line the buffer holds
  sinks,     \* sinks[m]: where lm.h writes: "term", "file"
  stack,     \* stack[t]: the calls and handlers t is in, innermost last
  calls,     \* calls made, those of the control operations aside
  failures,  \* library calls that failed
  pending,   \* signals that may still come
  shutdown,  \* GShutdownRequested
  alive,     \* the process runs
  torn,      \* a line was written that is not the caller's
  causes     \* why a lock is never released

logVars == <<asserts, lock, buffer, sinks, stack, calls, failures, pending, shutdown, alive,
             torn, causes>>

LogCall(m) == [kind |-> "log", module |-> m, at |-> "lock"]
Handler(signal) == [kind |-> signal, module |-> "Signals", at |-> "warn"]

LogInit ==
  /\ asserts \in BOOLEAN
  /\ lock = [m \in Modules |-> NoThread] /\ buffer = [m \in Modules |-> NoThread]
  /\ sinks = [m \in LmModules |-> {"term"}] /\ stack = [t \in Threads |-> <<>>]
  /\ calls = 0 /\ failures = 0 /\ pending = Sent
  /\ shutdown = FALSE /\ alive = TRUE /\ torn = FALSE /\ causes = {}

Top(t) == stack[t][Len(stack[t])]
Below(t) == SubSeq(stack[t], 1, Len(stack[t]) - 1)
Runs(t, kinds, label) ==
  alive /\ stack[t] # <<>> /\ Top(t).kind \in kinds /\ Top(t).at = label
Push(t, frame) == [stack EXCEPT ![t] = Append(@, frame)]
Goto(t, label) == [stack EXCEPT ![t] = Append(Below(t), [Top(t) EXCEPT !.at = label])]
LogAndGoto(t, label) == [Goto(t, label) EXCEPT ![t] = Append(@, LogCall("Signals"))]
Pop(t) == [stack EXCEPT ![t] = Below(t)]

-----------------------------------------------------------------------------
(* A log call, step by step.                                               *)

MayCall(t) == alive /\ stack[t] = <<>> /\ calls < MaxCalls /\ calls' = calls + 1

StartLog(t, m) ==
  /\ MayCall(t)
  /\ stack' = Push(t, LogCall(m))
  /\ UNCHANGED <<asserts, lock, buffer, sinks, failures, pending, shutdown, alive, torn, causes>>

Lock(t) ==
  /\ Runs(t, {"log"}, "lock") /\ lock[Top(t).module] = NoThread
  /\ lock' = [lock EXCEPT ![Top(t).module] = t]
  /\ stack' = Goto(t, "fill")
  /\ UNCHANGED <<asserts, buffer, sinks, calls, failures, pending, shutdown, alive, torn, causes>>

(* Fault: the lock is released before the line is written.                 *)
FillUnlocks(t) ==
  /\ Runs(t, {"log"}, "fill")
  /\ buffer' = [buffer EXCEPT ![Top(t).module] = t]
  /\ lock' = [lock EXCEPT ![Top(t).module] = NoThread]
  /\ stack' = Goto(t, "write")
  /\ UNCHANGED <<asserts, sinks, calls, failures, pending, shutdown, alive, torn, causes>>

Fill(t) ==
  /\ Runs(t, {"log"}, "fill")
  /\ buffer' = [buffer EXCEPT ![Top(t).module] = t]
  /\ stack' = Goto(t, "write")
  /\ UNCHANGED <<asserts, lock, sinks, calls, failures, pending, shutdown, alive, torn, causes>>

(* A module of lm.h with no sink writes nothing.  Nothing happens between  *)
(* the writing and the unlocking.                                          *)
Write(t) ==
  LET m == Top(t).module
  IN /\ Runs(t, {"log"}, "write")
     /\ torn' = (torn \/ (buffer[m] # t /\ (m \in SdbModules \/ sinks[m] # {})))
     /\ lock' = [lock EXCEPT ![m] = NoThread]
     /\ stack' = Pop(t)
     /\ UNCHANGED <<asserts, buffer, sinks, calls, failures, pending, shutdown, alive, causes>>

(* The caller of a failed log call: the assertion of the macro, if there   *)
(* is one, raises SIGABRT.                                                 *)
AfterFailure(t) ==
  stack' = IF asserts THEN [stack EXCEPT ![t] = Append(Below(t), Handler("SIGABRT"))]
                      ELSE Pop(t)

(* Fault: an error path of lm__write_log__ that returns with the lock.     *)
LmFailsLocked(t) ==
  /\ Runs(t, {"log"}, Top(t).at) /\ Top(t).module \in LmModules
  /\ Top(t).at \in {"fill", "write"} /\ failures < MaxFailures
  /\ failures' = failures + 1
  /\ AfterFailure(t)
  /\ UNCHANGED <<asserts, lock, buffer, sinks, calls, pending, shutdown, alive, torn, causes>>

(* Every error path of lm__write_log__ goes through the unlock.            *)
LmFails(t) ==
  /\ Runs(t, {"log"}, Top(t).at) /\ Top(t).module \in LmModules
  /\ Top(t).at \in {"fill", "write"} /\ failures < MaxFailures
  /\ failures' = failures + 1
  /\ lock' = [lock EXCEPT ![Top(t).module] = NoThread]
  /\ AfterFailure(t)
  /\ UNCHANGED <<asserts, buffer, sinks, calls, pending, shutdown, alive, torn, causes>>

(* No error path of Sdb__WriteLog__ does.                                  *)
SdbFails(t) ==
  /\ Runs(t, {"log"}, Top(t).at) /\ Top(t).module \in SdbModules
  /\ Top(t).at \in {"fill", "write"} /\ failures < MaxFailures
  /\ failures' = failures + 1
  /\ causes' = causes \cup {"error"}
  /\ AfterFailure(t)
  /\ UNCHANGED <<asserts, lock, buffer, sinks, calls, pending, shutdown, alive, torn>>

-----------------------------------------------------------------------------
(* The settings of an lm.h module, each under its lock.                    *)

lm__set_log_file__(t, m) ==
  /\ MayCall(t) /\ lock[m] = NoThread
  /\ sinks' = [sinks EXCEPT ![m] = @ \cup {"file"}]
  /\ UNCHANGED <<asserts, lock, buffer, stack, failures, pending, shutdown, alive, torn,
                 causes>>

lm__remove_log_file__(t, m) ==
  /\ MayCall(t) /\ lock[m] = NoThread
  /\ sinks' = [sinks EXCEPT ![m] = @ \ {"file"}]
  /\ UNCHANGED <<asserts, lock, buffer, stack, failures, pending, shutdown, alive, torn,
                 causes>>

lm__enable_log_to_term__(t, m) ==
  /\ MayCall(t) /\ lock[m] = NoThread
  /\ sinks' = [sinks EXCEPT ![m] = @ \cup {"term"}]
  /\ UNCHANGED <<asserts, lock, buffer, stack, failures, pending, shutdown, alive, torn,
                 causes>>

(* The second call that should release the lock waits for it.              *)
lm__disable_log_to_term__(t, m) ==
  /\ MayCall(t) /\ lock[m] = NoThread
  /\ sinks' = [sinks EXCEPT ![m] = @ \ {"term"}]
  /\ lock' = [lock EXCEPT ![m] = t]
  /\ stack' = Push(t, LogCall(m))
  /\ causes' = causes \cup {"relock"}
  /\ UNCHANGED <<asserts, buffer, failures, pending, shutdown, alive, torn>>

-----------------------------------------------------------------------------
(* A signal interrupts any thread anywhere; SignalHandler logs, requests   *)
(* the shutdown and logs again.  Only the signal itself is blocked while   *)
(* its handler runs.                                                       *)

DeliverSignal(t, signal) ==
  /\ alive /\ signal \in pending
  /\ pending' = pending \ {signal}
  /\ stack' = Push(t, Handler(signal))
  /\ causes' = IF lock["Signals"] = t THEN causes \cup {"interrupted"} ELSE causes
  /\ UNCHANGED <<asserts, lock, buffer, sinks, calls, failures, shutdown, alive, torn>>

HandlerLogs(t) ==
  /\ Runs(t, Signals \cup {"SIGABRT"}, "warn")
  /\ stack' = LogAndGoto(t, "act")
  /\ UNCHANGED <<asserts, lock, buffer, sinks, calls, failures, pending, shutdown, alive, torn,
                 causes>>

InitiateGracefulShutdown(t) ==
  /\ Runs(t, Signals, "act")
  /\ shutdown' = TRUE
  /\ stack' = LogAndGoto(t, "return")
  /\ UNCHANGED <<asserts, lock, buffer, sinks, calls, failures, pending, alive, torn, causes>>

HandlerReturns(t) ==
  /\ Runs(t, Signals, "return")
  /\ stack' = Pop(t)
  /\ UNCHANGED <<asserts, lock, buffer, sinks, calls, failures, pending, shutdown, alive, torn,
                 causes>>

(* SIGABRT, and the other fatal signals, end the process after the line.   *)
HandlerExits(t) ==
  /\ Runs(t, {"SIGABRT"}, "act")
  /\ alive' = FALSE
  /\ UNCHANGED <<asserts, lock, buffer, sinks, stack, calls, failures, pending, shutdown, torn,
                 causes>>

-----------------------------------------------------------------------------
(* What a thread does once it is in a call: it runs on by itself.          *)
LogStep(t) ==
  \/ Lock(t) \/ Fill(t) \/ Write(t)
  \/ HandlerLogs(t) \/ InitiateGracefulShutdown(t) \/ HandlerReturns(t) \/ HandlerExits(t)

LogFails(t) == LmFails(t) \/ SdbFails(t)

LogBegins(t) ==
  \/ \E m \in Modules : StartLog(t, m)
  \/ \E m \in LmModules : \/ lm__set_log_file__(t, m) \/ lm__remove_log_file__(t, m)
                          \/ lm__enable_log_to_term__(t, m) \/ lm__disable_log_to_term__(t, m)
  \/ \E signal \in Signals : DeliverSignal(t, signal)

-----------------------------------------------------------------------------
(* Every line that is written is the caller's own: no thread fills a       *)
(* buffer between the filling and the writing of another, signals or not.  *)
LinesIntact == ~torn

(* A lock is held only by a thread that is inside a log call on its        *)
(* module, however deep below handlers that interrupted it, unless an      *)
(* error of Sdb__WriteLog__ left it locked.  No error of lm__write_log__   *)
(* does.                                                                   *)
LockLeftOnlyByError ==
  \A m \in Modules : lock[m] # NoThread =>
    \/ \E i \in 1 .. Len(stack[lock[m]]) :
         stack[lock[m]][i].kind = "log" /\ stack[lock[m]][i].module = m
    \/ m \in SdbModules /\ "error" \in causes

(* What a log call has while it is between the lock and the unlock: the    *)
(* lock of its module, which no other call of the same thread has, and     *)
(* from the filling on its own line in the buffer.                         *)
HoldsLock(frame) == frame.kind = "log" /\ frame.at \in {"fill", "write"}

CallsHoldLocks ==
  \A t \in Threads : \A i \in 1 .. Len(stack[t]) : HoldsLock(stack[t][i]) =>
    /\ lock[stack[t][i].module] = t
    /\ stack[t][i].at = "write" => buffer[stack[t][i].module] = t
    /\ \A j \in 1 .. Len(stack[t]) :
         HoldsLock(stack[t][j]) /\ stack[t][j].module = stack[t][i].module => j = i

(* The nesting is bounded: by the thread's own call, by the handler of     *)
(* every signal that came and the line it is logging or will log, and by   *)
(* the calls whose failure raised SIGABRT.                                 *)
Depth(frames) ==
  Len(frames) + IF frames # <<>> /\ frames[Len(frames)].kind # "log" THEN 1 ELSE 0

NestingBounded ==
  \A t \in Threads : Depth(stack[t]) <= 1 + 2 * Cardinality(Sent \ pending) + failures

(* The types of the loggers' state.                                        *)
Frame == [kind : {"log", "SIGABRT"} \cup Signals, module : Modules,
          at : {"lock", "fill", "write", "warn", "act", "return"}]

LogTypeOK ==
  /\ lock \in [Modules -> Threads \cup {NoThread}]
  /\ buffer \in [Modules -> Threads \cup {NoThread}]
  /\ sinks \in [LmModules -> SUBSET {"term", "file"}]
  /\ stack \in [Threads -> Seq(Frame)]
  /\ calls \in 0 .. MaxCalls /\ failures \in 0 .. MaxFailures /\ pending \subseteq Sent
  /\ causes \subseteq {"error", "relock", "interrupted"}
  /\ asserts \in BOOLEAN /\ shutdown \in BOOLEAN /\ alive \in BOOLEAN /\ torn \in BOOLEAN

(* The inductive invariant of the loggers.                                 *)
LogInv == LogTypeOK /\ LinesIntact /\ LockLeftOnlyByError /\ CallsHoldLocks /\ NestingBounded
=============================================================================
