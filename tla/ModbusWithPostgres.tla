------------------------- MODULE ModbusWithPostgres -------------------------
(***************************************************************************)
(* The data handler ModbusWithPostgres after its start barrier: the Modbus *)
(* thread (MbRun of DataHandlers/ModbusWithPostgres/Modbus.c) receives     *)
(* packets and fills the pipe, the Postgres thread (module PgRun) empties  *)
(* it, and SIGINT or SIGTERM may ask both to stop.                         *)
(*                                                                         *)
(* The packets that pass MbRun's checks are numbered in the order in which *)
(* they are stored.  What a frame looks like, and which of the checks      *)
(* fails, only matters through the two outcomes "try again" and            *)
(* "reconnect".                                                            *)
(***************************************************************************)
EXTENDS PgRun

CONSTANT MaxPackets  \* bound on the packets received

ASSUME MaxPacketsAssumption == MaxPackets \in Nat

VARIABLES
  mbpc,      \* control state of MbRun
  Stored,    \* number of packets copied into a buffer
  staleWrite \* history: a packet went into a buffer already handed over

mbVars == <<mbpc, Stored, staleWrite>>
vars == <<pipeVars, Mem, ShutdownRequested, pgVars, mbVars>>

Init ==
  /\ SdpCreate /\ PgInit
  /\ Mem = [b \in Bufs |-> [i \in 1 .. MaxFill |-> 0]]
  /\ ShutdownRequested = FALSE
  /\ mbpc = "outer" /\ Stored = 0 /\ staleWrite = FALSE

-----------------------------------------------------------------------------
(* Fault: the outer loop does not test the shutdown request.               *)
MbOuterTestForever ==
  /\ mbpc = "outer"
  /\ mbpc' = "connect"
  /\ UNCHANGED <<pipeVars, Mem, ShutdownRequested, pgVars, Stored, staleWrite>>

(* The outer loop: MbPrepareCtx connects, or fails and is tried again.     *)
MbOuterTest ==
  /\ mbpc = "outer"
  /\ mbpc' = IF ShutdownRequested THEN "done" ELSE "connect"
  /\ UNCHANGED <<pipeVars, Mem, ShutdownRequested, pgVars, Stored, staleWrite>>

MbConnect(ok) ==
  /\ mbpc = "connect"
  /\ mbpc' = IF ok THEN "inner" ELSE "outer"
  /\ UNCHANGED <<pipeVars, Mem, ShutdownRequested, pgVars, Stored, staleWrite>>

(* Fault: the inner loop does not look at the fill of the buffer.          *)
MbInnerTestNoRoom ==
  /\ mbpc = "inner"
  /\ mbpc' = IF ShutdownRequested THEN "reconnect" ELSE "receive"
  /\ UNCHANGED <<pipeVars, Mem, ShutdownRequested, pgVars, Stored, staleWrite>>

(* The inner loop: on shutdown it falls through to the reconnect label,    *)
(* otherwise it receives, into the next buffer if the current one is full. *)
MbInnerTest ==
  /\ mbpc = "inner" /\ (ShutdownRequested \/ Pos[CurBuf] # MaxFill)
  /\ mbpc' = IF ShutdownRequested THEN "reconnect" ELSE "receive"
  /\ UNCHANGED <<pipeVars, Mem, ShutdownRequested, pgVars, Stored, staleWrite>>

MbNextBuffer ==
  /\ mbpc = "inner" /\ ~ShutdownRequested /\ Pos[CurBuf] = MaxFill
  /\ GetWriteBuffer
  /\ mbpc' = "getting"
  /\ UNCHANGED <<Mem, ShutdownRequested, pgVars, Stored, staleWrite>>

MbPipeStep ==
  /\ WriterStep
  /\ UNCHANGED <<Mem, ShutdownRequested, pgVars, mbVars>>

MbGotBuffer ==
  /\ mbpc = "getting" /\ wpc = "ready"
  /\ mbpc' = "receive"
  /\ UNCHANGED <<pipeVars, Mem, ShutdownRequested, pgVars, Stored, staleWrite>>

(* No header within the timeout.                                           *)
MbReceiveTimeout ==
  /\ mbpc = "receive"
  /\ mbpc' = "inner"
  /\ UNCHANGED <<pipeVars, Mem, ShutdownRequested, pgVars, Stored, staleWrite>>

(* A closed connection, a short read or a frame that fails a check.        *)
MbReceiveFails ==
  /\ mbpc = "receive"
  /\ mbpc' = "reconnect"
  /\ UNCHANGED <<pipeVars, Mem, ShutdownRequested, pgVars, Stored, staleWrite>>

(* A valid packet: room for it is allocated from CurBuf ...                *)
MbAllocPacket ==
  /\ mbpc = "receive" /\ Stored < MaxPackets
  /\ ArenaAlloc(1)
  /\ staleWrite' = (staleWrite \/ CurBuf # WriteBufIdx)
  /\ mbpc' = "copy"
  /\ UNCHANGED <<Mem, ShutdownRequested, pgVars, Stored>>

(* Fault: the packet is copied to the start of the buffer.                 *)
MbCopyPacketAtStart ==
  /\ mbpc = "copy"
  /\ Mem' = [Mem EXCEPT ![CurBuf][1] = Stored + 1]
  /\ Stored' = Stored + 1
  /\ mbpc' = "inner"
  /\ UNCHANGED <<pipeVars, ShutdownRequested, pgVars, staleWrite>>

(* ... and the packet is copied there.                                     *)
MbCopyPacket ==
  /\ mbpc = "copy"
  /\ Mem' = [Mem EXCEPT ![CurBuf][Pos[CurBuf]] = Stored + 1]
  /\ Stored' = Stored + 1
  /\ mbpc' = "inner"
  /\ UNCHANGED <<pipeVars, ShutdownRequested, pgVars, staleWrite>>

(* The reconnect label: flush, close the connections and start over.  The  *)
(* local CurBuf is not loaded again.                                       *)
MbFlush ==
  /\ mbpc = "reconnect"
  /\ Flush
  /\ mbpc' = "flushing"
  /\ UNCHANGED <<Mem, ShutdownRequested, pgVars, Stored, staleWrite>>

MbClose ==
  /\ mbpc = "flushing" /\ wpc = "ready"
  /\ mbpc' = "outer"
  /\ UNCHANGED <<pipeVars, Mem, ShutdownRequested, pgVars, Stored, staleWrite>>

(* SIGINT or SIGTERM.  The handlers are installed with SA_RESTART, so the  *)
(* reads of the eventfds are not interrupted.                              *)
SignalHandler ==
  /\ ~ShutdownRequested
  /\ ShutdownRequested' = TRUE
  /\ UNCHANGED <<pipeVars, Mem, pgVars, mbVars>>

-----------------------------------------------------------------------------
MbStep == \/ MbOuterTest \/ MbInnerTest \/ MbNextBuffer \/ MbPipeStep \/ MbGotBuffer
          \/ MbAllocPacket \/ MbCopyPacket \/ MbReceiveTimeout \/ MbReceiveFails
          \/ MbFlush \/ MbClose
          \/ \E ok \in BOOLEAN : MbConnect(ok)

MbPgNext == MbStep \/ (PgNext /\ UNCHANGED mbVars) \/ SignalHandler

MbPgSpec == Init /\ [][MbPgNext]_vars

(* Both threads are scheduled, and epoll_wait has a timeout, so that the   *)
(* Postgres thread always comes back from it.  Nothing is assumed of the   *)
(* network, of the database or of signals.                                 *)
FairMbPgSpec == /\ MbPgSpec
                /\ WF_vars(MbStep)
                /\ WF_vars(PgNext /\ UNCHANGED mbVars)

-----------------------------------------------------------------------------
(* Every variable of the handler has its type.                             *)
MbPgTypeOK ==
  /\ TypeOK /\ PgTypeOK
  /\ mbpc \in {"outer", "connect", "inner", "getting", "receive", "copy", "reconnect",
               "flushing", "done"}
  /\ Stored \in 0 .. MaxPackets /\ staleWrite \in BOOLEAN

(* MbRun only stores a packet when its buffer has room for it: CurBuf is   *)
(* never NULL and never above BufferMaxFill, which the assertion at the    *)
(* head of the inner loop relies on, even when CurBuf is stale.            *)
RoomForPacket == mbpc = "receive" => CurBuf # NoBuf /\ Pos[CurBuf] < MaxFill

(* How the control state of MbRun fits that of the pipe.                   *)
MbControlAgrees ==
  /\ wpc # "ready" => \/ mbpc = "getting" /\ wop = "get"
                      \/ mbpc = "flushing" /\ wop = "flush"
  /\ CurBuf # NoBuf
  /\ mbpc = "getting" /\ wpc = "ready" => Pos[CurBuf] = 0
  /\ mbpc = "copy" => Pos[CurBuf] > 0 /\ Stored < MaxPackets

(* The inductive invariant of the handler.                                 *)
MbPgInv == MbPgTypeOK /\ PipeInv /\ PgControlAgrees /\ MbControlAgrees /\ RoomForPacket

(* Packets in the buffer that is being filled.                             *)
RowsPending == IF wpc \in {"count", "signal", "free"} THEN 0
               ELSE IF mbpc = "copy" THEN Pos[WriteBufIdx] - 1 ELSE Pos[WriteBufIdx]

(* The packets in that buffer follow the ones on their way to the reader.  *)
PendingPackets == \A i \in 1 .. RowsPending :
  Mem[WriteBufIdx][i] = passed + RowsHeld + RowsHandedOver + i

(* Every packet stored is read or given up, held by the reader, handed     *)
(* over to it or waiting to be, and the three buffers hold the next        *)
(* packets in order.                                                       *)
PacketsAccounted ==
  /\ mbpc = "copy" => CurBuf = WriteBufIdx
  /\ passed + RowsHeld + RowsHandedOver + RowsPending = Stored
  /\ HeldRows /\ HandedOverRows /\ PendingPackets

(* Unless a packet was stored in a buffer that had been handed over: the   *)
(* rows read are packets in the order in which they were stored, none of   *)
(* them twice, and all others are in the buffers, or were in a buffer that *)
(* PgInsertData gave up before the first row.  None gets lost through      *)
(* reconnects, flushes and timeouts, or by an insertion that fails later.  *)
DeliveryUnlessStale == ~staleWrite => PacketsAccounted /\ RowsInOrder

(* A buffer that was handed over is taken by the Postgres thread, unless   *)
(* that thread leaves its main loop.                                       *)
HandedOverIsTaken == ReadEventFd > 0 ~> (ReadEventFd = 0 \/ pgpc \in {"exit", "done"})

(* A shutdown request ends in one of three ways, and stays there: both     *)
(* threads complete, or one of them completes and the other is blocked in  *)
(* the pipe.  They are never both blocked, and neither goes on running.    *)
ShutdownSettles ==
  ShutdownRequested ~> [](\/ mbpc = "done" /\ pgpc = "done"
                          \/ mbpc = "done" /\ rpc = "wait"
                          \/ pgpc = "done" /\ wpc = "wait")
=============================================================================
