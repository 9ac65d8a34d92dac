--------------------------- MODULE PipeThroughput ---------------------------
(***************************************************************************)
(* The pipe throughput test: MbPipeThroughputTest of                       *)
(* src/sdhs/DataHandlers/ModbusWithPostgres/Modbus.c pushes a file through *)
(* the pipe in chunks of BufferMaxFill, PgRun inserts it.  The file is     *)
(* TotalData packets, numbered from 1.  (MbPgCreateTg of this commit does  *)
(* not start the test, but still compiles it.)                             *)
(***************************************************************************)
EXTENDS PgRun

CONSTANT TotalData  \* the size of the test data, in packets

ASSUME TotalDataAssumption == TotalData \in Nat

VARIABLES
  mbpc,          \* control state of MbPipeThroughputTest
  RemainingData, \* packets not yet handed over; negative after a partial chunk
  Copied         \* packets of the current chunk that memcpy has copied

mbVars == <<mbpc, RemainingData, Copied>>
vars == <<pipeVars, Mem, ShutdownRequested, pgVars, mbVars>>

Init ==
  /\ SdpCreate /\ PgInit
  /\ Mem = [b \in Bufs |-> [i \in 1 .. MaxFill |-> 0]]
  /\ ShutdownRequested = FALSE
  /\ mbpc = "loop" /\ RemainingData = TotalData /\ Copied = 0

ChunkSize == IF RemainingData < MaxFill THEN RemainingData ELSE MaxFill

(* The loop reserves room for the next chunk in the current buffer ...     *)
AllocChunk ==
  /\ mbpc = "loop" /\ RemainingData > 0
  /\ ArenaAlloc(ChunkSize)
  /\ mbpc' = "copy" /\ Copied' = 0
  /\ UNCHANGED <<Mem, ShutdownRequested, pgVars, RemainingData>>

(* ... copies the chunk into it, a packet at a time ...                    *)
CopyPacket ==
  /\ mbpc = "copy" /\ Copied < ChunkSize
  /\ Mem' = [Mem EXCEPT ![CurBuf][Copied + 1] = TotalData - RemainingData + Copied + 1]
  /\ Copied' = Copied + 1
  /\ UNCHANGED <<pipeVars, ShutdownRequested, pgVars, mbpc, RemainingData>>

(* ... and asks for the next buffer, which hands the current one over.     *)
HandOver ==
  /\ mbpc = "copy" /\ Copied = ChunkSize
  /\ GetWriteBuffer
  /\ mbpc' = "getting"
  /\ UNCHANGED <<Mem, ShutdownRequested, pgVars, RemainingData, Copied>>

MbPipeStep ==
  /\ WriterStep
  /\ UNCHANGED <<Mem, ShutdownRequested, pgVars, mbVars>>

GotWriteBuffer ==
  /\ mbpc = "getting" /\ wpc = "ready"
  /\ RemainingData' = RemainingData - MaxFill
  /\ mbpc' = "loop"
  /\ UNCHANGED <<pipeVars, Mem, ShutdownRequested, pgVars, Copied>>

(* The last buffer is flushed; every chunk has been handed over already.   *)
FinalFlush ==
  /\ mbpc = "loop" /\ RemainingData <= 0
  /\ Flush
  /\ mbpc' = "flushing"
  /\ UNCHANGED <<Mem, ShutdownRequested, pgVars, RemainingData, Copied>>

(* MbPgPipeThroughputTest runs the test again unless it is to shut down,   *)
(* and the second run stays at the barrier, where PgRun does not come back *)
(* to.                                                                     *)
Finish ==
  /\ mbpc = "flushing" /\ wpc = "ready"
  /\ mbpc' = IF ShutdownRequested THEN "done" ELSE "barrier"
  /\ UNCHANGED <<pipeVars, Mem, ShutdownRequested, pgVars, RemainingData, Copied>>

MbStep == \/ AllocChunk \/ CopyPacket \/ HandOver \/ MbPipeStep
          \/ GotWriteBuffer \/ FinalFlush \/ Finish

TestNext == MbStep \/ (PgNext /\ UNCHANGED mbVars)

TestSpec == Init /\ [][TestNext]_vars

(* Both threads are scheduled; nothing is assumed of signals and timeouts. *)
FairTestSpec == TestSpec /\ WF_vars(MbStep)
                         /\ WF_vars(PgStep /\ UNCHANGED mbVars)

-----------------------------------------------------------------------------
(* Every variable of the test has its type.                                *)
TestTypeOK ==
  /\ TypeOK /\ PgTypeOK
  /\ mbpc \in {"loop", "copy", "getting", "flushing", "barrier", "done"}
  /\ RemainingData \in Int /\ Copied \in 0 .. MaxFill

(* Every packet of the file gets to PgInsertData, which reads it or gives  *)
(* its buffer up, unless the Postgres thread leaves its main loop first.   *)
EventuallyAllPassed ==
  <>(passed = TotalData \/ pgpc \in {"exit", "done"})

-----------------------------------------------------------------------------
(* The refinement of the abstract channel.                                 *)

(* Packets of the chunks that were handed over in earlier rounds.          *)
PacketsBefore == IF RemainingData >= 0 THEN TotalData - RemainingData ELSE TotalData

Fifo == INSTANCE PacketFifo WITH
          TotalPackets <- TotalData,
          Capacity  <- 3 * MaxFill,
          Batch     <- MaxFill,
          sent      <- PacketsBefore + (IF mbpc \in {"copy", "getting"} THEN Copied ELSE 0),
          delivered <- consumed,
          discarded <- lost,
          stopped   <- pgpc \in {"exit", "done"}

(* The test implements the bounded first-in first-out channel whose        *)
(* receiver may discard a batch.  Whatever the number of buffers, at most  *)
(* three of them hold packets at a time: the one being read, the one       *)
(* handed over and the one being written.                                  *)
ImplementsFifo == Fifo!FifoSpec

-----------------------------------------------------------------------------
(* The inductive invariant behind RowsInOrder.                             *)

(* The writer's chunk is in the buffer at WriteBufIdx, not handed over.    *)
ChunkPending == mbpc = "copy" \/ (mbpc = "getting" /\ wpc \in {"wait", "store"})

(* How the control states of the threads fit those of the pipe.            *)
ControlAgrees ==
  /\ rpc # "ready" => pgpc = "getting"
  /\ pgpc = "getting" /\ rpc = "ready" => Buf # NoBuf
  /\ pgpc = "insert" => Buf # NoBuf
  /\ wpc # "ready" => mbpc = "getting" /\ wop = "get"
  /\ wpc = "ready" \/ ChunkPending => CurBuf = WriteBufIdx
  /\ mbpc \in {"copy", "getting"} => RemainingData > 0
  /\ mbpc = "getting" => Copied = ChunkSize
  /\ Copied <= ChunkSize \/ mbpc \notin {"copy", "getting"}
  /\ RemainingData <= TotalData
  /\ wpc = "ready" /\ mbpc # "copy" => Pos[WriteBufIdx] = 0
  /\ ChunkPending => Pos[WriteBufIdx] = ChunkSize

(* Every packet handed over is read or given up, held by the reader or on  *)
(* its way.                                                                *)
RowsAccounted ==
  passed + RowsHeld + RowsHandedOver
    = PacketsBefore + (IF mbpc = "getting" /\ ~ChunkPending THEN ChunkSize ELSE 0)

(* The packets of the current chunk are in their buffer in order.          *)
PendingRows == ChunkPending => \A i \in 1 .. Copied :
  Mem[WriteBufIdx][i] = PacketsBefore + i

DataAgrees == RowsAccounted /\ HeldRows /\ HandedOverRows /\ PendingRows

(* The strengthening of RowsInOrder that every step preserves.             *)
TestInv == TestTypeOK /\ PipeInv /\ ControlAgrees /\ DataAgrees /\ RowsInOrder
=============================================================================
