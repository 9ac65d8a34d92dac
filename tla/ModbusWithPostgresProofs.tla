---------------------- MODULE ModbusWithPostgresProofs ----------------------
(***************************************************************************)
(* The data handler ModbusWithPostgres, for every number and fill level of *)
(* the buffers and every number of packets: its invariant, and that with   *)
(* three buffers or more no packet is lost, repeated or reordered unless   *)
(* the writer used a buffer it had handed over.                            *)
(***************************************************************************)
EXTENDS ModbusWithPostgres, SensorDataPipeProofs

(* A step of the handler is a step of the pipe with its general callers.   *)
LEMMA MbPgStepIsPipeStep ==
  [MbPgNext]_vars => [Next]_pipeVars
<1> SUFFICES ASSUME [MbPgNext]_vars
             PROVE  [Next]_pipeVars
  OBVIOUS
<1>1. CASE MbAllocPacket
  <2>1. 1 \in 1 .. MaxFill
    BY MaxFillAssumption
  <2> QED
    BY <1>1, <2>1 DEF MbAllocPacket, Next, WriterCall
<1>2. CASE MbStep /\ ~MbAllocPacket
  BY <1>2 DEF MbStep, MbOuterTest, MbInnerTest, MbNextBuffer, MbPipeStep, MbGotBuffer,
     MbCopyPacket, MbReceiveTimeout, MbReceiveFails, MbFlush, MbClose, MbConnect, Next,
     WriterCall
<1>3. CASE PgNext
  BY <1>3 DEF PgNext, PgStep, PgLoopTest, EpollReady, EpollInterrupted, EpollTimeout,
     PgGetReadBuffer, PgPipeStep, PgCountItems, PgConvertRow, PgInsertReturns, PgInsertGivesUp,
     PgAfterInsert, PgExit, Next
<1>4. CASE SignalHandler
  BY <1>4 DEF SignalHandler
<1>5. CASE UNCHANGED vars
  BY <1>5 DEF vars
<1> QED
  BY <1>1, <1>2, <1>3, <1>4, <1>5 DEF MbPgNext

(* The state after the start barrier is in the invariant.                  *)
LEMMA MbPgInitInv == Init => MbPgInv
<1> SUFFICES ASSUME Init PROVE MbPgInv
  OBVIOUS
<1> USE DEF Init, SdpCreate, PgInit
<1>1. PipeInv
  BY PipeInit
<1>2. MbPgTypeOK
  <2>1. TypeOK
    BY <1>1 DEF PipeInv
  <2>2. PgTypeOK
    <3>1. ShutdownRequested \in BOOLEAN
      OBVIOUS
    <3>2. consumed \in Seq(Nat)
      OBVIOUS
    <3> QED
      BY <3>1, <3>2, MaxFillAssumption, FailThresholdAssumption DEF PgTypeOK
  <2>3. staleWrite \in BOOLEAN
    OBVIOUS
  <2> QED
    BY <2>1, <2>2, <2>3, MaxPacketsAssumption DEF MbPgTypeOK
<1>3. PgControlAgrees /\ MbControlAgrees /\ RoomForPacket
  BY DEF PgControlAgrees, MbControlAgrees, RoomForPacket, NoBuf
<1> QED
  BY <1>1, <1>2, <1>3 DEF MbPgInv

-----------------------------------------------------------------------------
(* The Postgres thread keeps its types.                                    *)
LEMMA PgTypesKept ==
  ASSUME TypeOK, PgTypeOK, PgControlAgrees, PgNext
  PROVE  PgTypeOK'
<1> USE DEF PgTypeOK, pgVars, rowVars
<1>1. ShutdownRequested' \in BOOLEAN
  BY DEF PgNext, PgStep, PgLoopTest, EpollReady, EpollInterrupted, EpollTimeout,
     PgGetReadBuffer, PgPipeStep, PgCountItems, PgConvertRow, PgInsertReturns,
     PgInsertGivesUp, PgAfterInsert, PgExit
<1> USE <1>1
<1>2. CASE PgLoopTest
  BY <1>2 DEF PgLoopTest
<1>3. CASE EpollReady
  BY <1>3 DEF EpollReady
<1>4. CASE PgGetReadBuffer
  BY <1>4 DEF PgGetReadBuffer
<1>5. CASE PgPipeStep
  BY <1>5 DEF PgPipeStep
<1>6. CASE PgCountItems
  <2>1. Pos[Buf] \in 0 .. MaxFill
    BY <1>6 DEF PgCountItems, TypeOK
  <2> QED
    BY <1>6, <2>1, MaxFillAssumption DEF PgCountItems
<1>7. CASE PgConvertRow
  <2>1. Buf \in Bufs /\ RowsProcessed + 1 \in 1 .. MaxFill
    BY <1>7, MaxFillAssumption DEF PgConvertRow, PgControlAgrees, TypeOK
  <2>2. Mem[Buf][RowsProcessed + 1] \in Nat
    BY <2>1
  <2>3. consumed' \in Seq(Nat)
    BY <1>7, <2>2 DEF PgConvertRow
  <2> QED
    BY <1>7, <2>3 DEF PgConvertRow
<1>8. CASE PgExit
  BY <1>8 DEF PgExit
<1>9. ASSUME NEW ok \in BOOLEAN, PgInsertReturns(ok)
      PROVE  PgTypeOK'
  BY <1>9, FailThresholdAssumption DEF PgInsertReturns, PgAfterInsert, Saturating
<1>10. CASE EpollInterrupted
  BY <1>10 DEF EpollInterrupted
<1>11. CASE EpollTimeout
  BY <1>11, FailThresholdAssumption DEF EpollTimeout, Saturating
<1>12. ASSUME NEW ok \in BOOLEAN, PgInsertGivesUp(ok)
       PROVE  PgTypeOK'
  <2>1. Buf \in Bufs /\ \A i \in 1 .. ItemCount : i \in 1 .. MaxFill
    BY <1>12, MaxFillAssumption DEF PgInsertGivesUp, PgControlAgrees, TypeOK
  <2>2. {Mem[Buf][i] : i \in 1 .. ItemCount} \subseteq Nat
    <3>1. \A i \in 1 .. ItemCount : Mem[Buf][i] \in Nat
      BY <2>1
    <3> QED
      BY <3>1
  <2>3. /\ lost' = lost \cup {Mem[Buf][i] : i \in 1 .. ItemCount}
        /\ passed' = passed + ItemCount
    BY <1>12 DEF PgInsertGivesUp
  <2>4. lost' \subseteq Nat
    BY <2>2, <2>3, Zenon
  <2>5. passed' \in Nat
    BY <2>3, MaxFillAssumption
  <2> QED
    BY <1>12, <2>4, <2>5, FailThresholdAssumption
       DEF PgInsertGivesUp, PgAfterInsert, Saturating
<1> QED
  BY <1>2, <1>3, <1>4, <1>5, <1>6, <1>7, <1>8, <1>9, <1>10, <1>11, <1>12
     DEF PgNext, PgStep

(* The types are preserved.                                                *)
LEMMA MbPgStepTypes ==
  ASSUME MbPgInv, [MbPgNext]_vars
  PROVE  MbPgTypeOK'
<1>1. PipeInv'
  BY MbPgStepIsPipeStep, PipeStep DEF MbPgInv
<1>2. TypeOK /\ TypeOK'
  BY <1>1 DEF MbPgInv, PipeInv
<1>3. staleWrite' \in BOOLEAN
  BY DEF MbPgInv, MbPgTypeOK, MbPgNext, MbStep, MbOuterTest, MbInnerTest, MbNextBuffer,
     MbPipeStep, MbGotBuffer, MbAllocPacket, MbCopyPacket, MbReceiveTimeout,
     MbReceiveFails, MbFlush, MbClose, MbConnect, SignalHandler, mbVars, vars
<1>4. ShutdownRequested' \in BOOLEAN
  BY DEF MbPgInv, MbPgTypeOK, PgTypeOK, MbPgNext, MbStep, MbOuterTest, MbInnerTest,
     MbNextBuffer, MbPipeStep, MbGotBuffer, MbAllocPacket, MbCopyPacket, MbReceiveTimeout,
     MbReceiveFails, MbFlush, MbClose, MbConnect, SignalHandler, vars, PgNext, PgStep,
     PgLoopTest, EpollReady, EpollInterrupted, EpollTimeout, PgGetReadBuffer, PgPipeStep,
     PgCountItems, PgConvertRow, PgInsertReturns, PgInsertGivesUp, PgAfterInsert, PgExit
<1>5. CASE MbCopyPacket
  <2>1. /\ CurBuf \in Bufs /\ Pos[CurBuf] \in 1 .. MaxFill
        /\ Stored \in Nat /\ Stored < MaxPackets
    BY <1>2, <1>5, MaxFillAssumption, MaxPacketsAssumption
       DEF MbPgInv, MbPgTypeOK, MbControlAgrees, MbCopyPacket, TypeOK
  <2>2. Mem' \in [Bufs -> [1 .. MaxFill -> Nat]]
    BY <1>5, <2>1 DEF MbCopyPacket, MbPgInv, MbPgTypeOK, PgTypeOK
  <2> QED
    BY <1>2, <1>3, <1>4, <1>5, <2>1, <2>2, MaxPacketsAssumption
       DEF MbCopyPacket, MbPgInv, MbPgTypeOK, PgTypeOK, pgVars, rowVars
<1>6. CASE MbStep /\ ~MbCopyPacket
  BY <1>2, <1>3, <1>4, <1>6
     DEF MbPgInv, MbPgTypeOK, PgTypeOK, pgVars, rowVars, mbVars, MbStep, MbOuterTest, MbInnerTest,
         MbNextBuffer, MbPipeStep, MbGotBuffer, MbAllocPacket, MbReceiveTimeout,
         MbReceiveFails, MbFlush, MbClose, MbConnect
<1>7. CASE PgNext /\ UNCHANGED mbVars
  BY <1>2, <1>3, <1>7, PgTypesKept DEF MbPgInv, MbPgTypeOK, mbVars
<1>8. CASE SignalHandler \/ UNCHANGED vars
  BY <1>2, <1>3, <1>4, <1>8
     DEF MbPgInv, MbPgTypeOK, PgTypeOK, SignalHandler, vars, pgVars, rowVars, mbVars
<1> QED
  BY <1>5, <1>6, <1>7, <1>8 DEF MbPgNext

-----------------------------------------------------------------------------
(* The Modbus thread leaves the reader's side alone, up to a hand-over.    *)
LEMMA ReaderUntouched ==
  ASSUME MbStep \/ SignalHandler \/ UNCHANGED vars
  PROVE  UNCHANGED <<pgVars, rpc, Buf, ReadBufIdx>>
<1> USE DEF pgVars, rowVars, pipeVars, ringVars, readerVars
<1>1. CASE MbPipeStep
  BY <1>1 DEF MbPipeStep, WriterStep, DrainWriteEvent, StoreWriteBufIdx, CountFull,
     SignalReader, FreeWriteBuffer
<1>2. CASE MbStep /\ ~MbPipeStep
  BY <1>2 DEF MbStep, MbOuterTest, MbInnerTest, MbNextBuffer, MbGotBuffer,
     MbAllocPacket, MbCopyPacket, MbReceiveTimeout, MbReceiveFails, MbFlush, MbClose,
     MbConnect, GetWriteBuffer, Flush, ArenaAlloc
<1>3. CASE SignalHandler \/ UNCHANGED vars
  BY <1>3 DEF SignalHandler, vars
<1> QED
  BY <1>1, <1>2, <1>3

(* The Postgres thread leaves the writer's side alone.                     *)
LEMMA WriterUntouched ==
  ASSUME PgNext
  PROVE  UNCHANGED <<Mem, Pos, writerVars, WriteBufIdx>>
<1> USE DEF pipeVars, ringVars, writerVars
<1>1. CASE PgPipeStep
  BY <1>1 DEF PgPipeStep, ReaderStep, DrainReadEvent, TakeReadBuffer, CountTaken,
     SignalWriter
<1>2. CASE PgGetReadBuffer
  BY <1>2 DEF PgGetReadBuffer, GetReadBuffer
<1> QED
  BY <1>1, <1>2 DEF PgNext, PgStep, PgLoopTest, EpollReady, EpollInterrupted,
     EpollTimeout, PgCountItems, PgConvertRow, PgInsertReturns, PgInsertGivesUp,
     PgAfterInsert, PgExit

(* The Postgres thread stays where the pipe expects it.                    *)
LEMMA PgStepControl ==
  ASSUME TypeOK, PgControlAgrees, LocalsAgree, PgNext
  PROVE  PgControlAgrees'
<1> USE DEF PgControlAgrees
<1>1. CASE PgPipeStep
  <2>1. Bufs \cap {NoBuf} = {}
    BY DEF Bufs, NoBuf
  <2> QED
    BY <1>1, <2>1 DEF PgPipeStep, ReaderStep, DrainReadEvent, TakeReadBuffer, CountTaken,
       SignalWriter, pgVars, rowVars, TypeOK, LocalsAgree
<1>2. CASE PgGetReadBuffer
  BY <1>2 DEF PgGetReadBuffer, GetReadBuffer
<1>3. CASE EpollTimeout
  BY <1>3 DEF EpollTimeout, pipeVars
<1>4. CASE PgCountItems \/ PgConvertRow
  BY <1>4 DEF PgCountItems, PgConvertRow, pipeVars
<1>5. CASE PgLoopTest \/ EpollReady \/ EpollInterrupted \/ PgExit
  BY <1>5 DEF PgLoopTest, EpollReady, EpollInterrupted, PgExit, pipeVars
<1>6. ASSUME NEW ok \in BOOLEAN, PgInsertReturns(ok)
      PROVE  PgControlAgrees'
  BY <1>6 DEF PgInsertReturns, PgAfterInsert, pipeVars
<1>7. ASSUME NEW ok \in BOOLEAN, PgInsertGivesUp(ok)
      PROVE  PgControlAgrees'
  BY <1>7 DEF PgInsertGivesUp, PgAfterInsert, pipeVars
<1> QED
  BY <1>1, <1>2, <1>3, <1>4, <1>5, <1>6, <1>7 DEF PgNext, PgStep

(* MbRun stays where the pipe expects it, with room for what it stores.    *)
LEMMA MbStepControl ==
  ASSUME MbPgInv, MbStep, MbPgTypeOK'
  PROVE  MbControlAgrees' /\ RoomForPacket'
<1>t. TypeOK /\ TypeOK' /\ MbControlAgrees /\ RoomForPacket
  BY DEF MbPgInv, MbPgTypeOK
<1>n. NextWriteBuf # NoBuf
  <2>1. NextWriteBuf \in Bufs
    BY <1>t DEF TypeOK
  <2> QED
    BY <2>1 DEF Bufs, NoBuf
<1> USE MaxFillAssumption DEF MbControlAgrees, RoomForPacket
<1>0. /\ TypeOK /\ TypeOK' /\ NextWriteBuf # NoBuf
      /\ MbControlAgrees /\ RoomForPacket
  BY <1>t, <1>n
<1>1. CASE MbOuterTest \/ MbReceiveTimeout \/ MbReceiveFails \/ MbClose
  BY <1>0, <1>1 DEF MbOuterTest, MbReceiveTimeout, MbReceiveFails, MbClose, pipeVars
<1>2. ASSUME NEW ok \in BOOLEAN, MbConnect(ok)
      PROVE  MbControlAgrees' /\ RoomForPacket'
  BY <1>0, <1>2 DEF MbConnect, pipeVars
<1>3. CASE MbInnerTest
  BY <1>0, <1>3 DEF MbInnerTest, pipeVars, TypeOK
<1>4. CASE MbNextBuffer
  BY <1>0, <1>4 DEF MbNextBuffer, GetWriteBuffer
<1>5. CASE MbGotBuffer
  BY <1>0, <1>5 DEF MbGotBuffer, pipeVars
<1>6. CASE MbAllocPacket
  <2>1. Pos'[CurBuf] = Pos[CurBuf] + 1 /\ Pos[CurBuf] \in Nat
    BY <1>0, <1>6 DEF MbAllocPacket, ArenaAlloc, TypeOK
  <2> QED
    BY <1>0, <1>6, <2>1 DEF MbAllocPacket, ArenaAlloc, writerVars
<1>7. CASE MbCopyPacket
  BY <1>0, <1>7 DEF MbCopyPacket, pipeVars
<1>8. CASE MbFlush
  BY <1>0, <1>8 DEF MbFlush, Flush
<1>9. CASE MbPipeStep
  <2>1. CASE FreeWriteBuffer
    <3>1. mbpc' = mbpc /\ wpc' = "ready" /\ wop' = wop
      BY <1>9, <2>1 DEF MbPipeStep, FreeWriteBuffer, mbVars
    <3>2. mbpc \in {"getting", "flushing"} /\ (mbpc = "getting" => wop = "get")
      BY <1>0, <2>1 DEF FreeWriteBuffer
    <3>3. mbpc = "getting" => CurBuf' = NextWriteBuf /\ Pos'[NextWriteBuf] = 0
      BY <1>0, <2>1, <3>2 DEF FreeWriteBuffer, TypeOK
    <3>4. CurBuf' # NoBuf
      BY <1>0, <2>1 DEF FreeWriteBuffer
    <3> QED
      BY <3>1, <3>2, <3>3, <3>4
  <2>2. CASE ~FreeWriteBuffer
    BY <1>0, <1>9, <2>2 DEF MbPipeStep, WriterStep, DrainWriteEvent, StoreWriteBufIdx,
       CountFull, SignalReader, mbVars
  <2> QED
    BY <2>1, <2>2
<1> QED
  BY <1>1, <1>2, <1>3, <1>4, <1>5, <1>6, <1>7, <1>8, <1>9 DEF MbStep

(* Every step keeps the invariant.                                         *)
LEMMA MbPgStepInv ==
  ASSUME MbPgInv, [MbPgNext]_vars
  PROVE  MbPgInv'
<1>1. PipeInv'
  BY MbPgStepIsPipeStep, PipeStep DEF MbPgInv
<1>2. MbPgTypeOK'
  BY MbPgStepTypes
<1>3. CASE MbStep
  <2>1. PgControlAgrees'
    BY <1>3, ReaderUntouched DEF MbPgInv, PgControlAgrees, pgVars, rowVars
  <2> QED
    BY <1>1, <1>2, <1>3, <2>1, MbStepControl DEF MbPgInv
<1>4. CASE PgNext /\ UNCHANGED mbVars
  <2>1. PgControlAgrees'
    BY <1>4, PgStepControl DEF MbPgInv, PipeInv
  <2>2. MbControlAgrees' /\ RoomForPacket'
    BY <1>4, WriterUntouched
       DEF MbPgInv, MbControlAgrees, RoomForPacket, mbVars, writerVars
  <2> QED
    BY <1>1, <1>2, <2>1, <2>2 DEF MbPgInv
<1>5. CASE SignalHandler \/ UNCHANGED vars
  <2>1. PgControlAgrees' /\ MbControlAgrees' /\ RoomForPacket'
    BY <1>5 DEF MbPgInv, PgControlAgrees, MbControlAgrees, RoomForPacket, SignalHandler,
       vars, pipeVars, pgVars, rowVars, mbVars
  <2> QED
    BY <1>1, <1>2, <2>1 DEF MbPgInv
<1> QED
  BY <1>3, <1>4, <1>5 DEF MbPgNext

(* The invariant of the handler, for every number of buffers from two on:  *)
(* pipe and threads agree, and MbRun has a buffer with room whenever it    *)
(* receives.                                                               *)
THEOREM HandlerInvariant == MbPgSpec => []MbPgInv
<1>1. MbPgInv /\ [MbPgNext]_vars => MbPgInv'
  BY MbPgStepInv
<1> QED
  BY <1>1, MbPgInitInv, PTL DEF MbPgSpec

-----------------------------------------------------------------------------
(* The counts of rows are numbers.                                         *)
LEMMA RowCounts ==
  ASSUME MbPgInv, PacketsAccounted
  PROVE  /\ RowsHeld \in 0 .. MaxFill /\ RowsHandedOver \in 0 .. MaxFill
         /\ RowsPending \in 0 .. MaxFill /\ passed \in Nat /\ Stored \in Nat
<1>a. /\ passed \in Nat /\ Stored \in 0 .. MaxPackets
      /\ ItemCount \in 0 .. MaxFill /\ RowsProcessed \in 0 .. ItemCount
  BY DEF MbPgInv, MbPgTypeOK, PgTypeOK
<1>b. /\ Pos \in [Bufs -> 0 .. MaxFill] /\ Buf \in Bufs \cup {NoBuf}
      /\ ReadBufIdx \in Bufs /\ WriteBufIdx \in Bufs
  BY DEF MbPgInv, MbPgTypeOK, TypeOK
<1>1. passed \in Nat /\ Stored \in Nat
  BY <1>a, MaxPacketsAssumption
<1>2. RowsHeld \in 0 .. MaxFill
  BY <1>a, <1>b, MaxFillAssumption DEF RowsHeld
<1>3. RowsHandedOver \in 0 .. MaxFill
  BY <1>b, MaxFillAssumption DEF RowsHandedOver
<1>4. RowsPending \in 0 .. MaxFill
  <2>1. mbpc = "copy" => Pos[WriteBufIdx] > 0
    BY DEF PacketsAccounted, MbPgInv, MbControlAgrees
  <2> QED
    BY <1>b, <2>1, MaxFillAssumption DEF RowsPending
<1> QED
  BY <1>1, <1>2, <1>3, <1>4

(* What a step that leaves the contents and the three counts alone keeps.  *)
LEMMA CountsKept ==
  ASSUME PacketsAccounted,
         UNCHANGED <<Mem, passed, RowsHeld, RowsHandedOver, RowsPending, Stored, Buf,
                     ReadBufIdx, WriteBufIdx, RowsProcessed>>,
         pgpc' = "insert" <=> pgpc = "insert",
         mbpc' = "copy" => CurBuf' = WriteBufIdx
  PROVE  PacketsAccounted'
<1>1. HeldRows' /\ HandedOverRows' /\ PendingPackets'
  BY DEF PacketsAccounted, HeldRows, HandedOverRows, PendingPackets
<1> QED
  BY <1>1 DEF PacketsAccounted

(* The packet's room is reserved in the buffer being filled, where it is   *)
(* not counted until it is copied.                                         *)
LEMMA DataAllocPacket ==
  ASSUME MbPgInv, BuffersApart, PacketsAccounted, MbAllocPacket, CurBuf = WriteBufIdx
  PROVE  PacketsAccounted'
<1>1. /\ UNCHANGED <<Mem, passed, ItemCount, RowsProcessed, pgpc, rpc, wpc, ReadEventFd,
                     WriteBufIdx, ReadBufIdx, Buf, CurBuf, Stored>>
      /\ mbpc = "receive" /\ mbpc' = "copy" /\ wpc = "ready"
      /\ Pos'[WriteBufIdx] = Pos[WriteBufIdx] + 1 /\ Pos[WriteBufIdx] \in Nat
      /\ \A b \in Bufs : b # WriteBufIdx => Pos'[b] = Pos[b]
  BY DEF MbAllocPacket, ArenaAlloc, MbPgInv, MbPgTypeOK, TypeOK,
         ringVars, writerVars, readerVars, pgVars, rowVars
<1>2. RowsHeld' = RowsHeld
  BY <1>1 DEF RowsHeld, BuffersApart
<1>3. RowsHandedOver' = RowsHandedOver
  BY <1>1 DEF RowsHandedOver, HandedOver, BuffersApart, MbPgInv, MbPgTypeOK, TypeOK
<1>4. RowsPending' = RowsPending
  BY <1>1 DEF RowsPending
<1> QED
  BY <1>1, <1>2, <1>3, <1>4, CountsKept

(* The packet is copied behind the ones already there; the buffers of the  *)
(* reader are not touched.                                                 *)
LEMMA DataCopyPacket ==
  ASSUME MbPgInv, BuffersApart, PacketsAccounted, MbCopyPacket
  PROVE  PacketsAccounted'
<1> DEFINE last == Pos[WriteBufIdx]
<1>1. /\ UNCHANGED <<Pos, passed, ItemCount, RowsProcessed, pgpc, rpc, wpc, ReadEventFd,
                     WriteBufIdx, ReadBufIdx, Buf>>
      /\ mbpc = "copy" /\ mbpc' = "inner" /\ Stored' = Stored + 1
      /\ CurBuf = WriteBufIdx /\ wpc = "ready"
  BY DEF MbCopyPacket, pipeVars, pgVars, rowVars, MbPgInv, MbControlAgrees, PacketsAccounted
<1>2. WriteBufIdx \in Bufs /\ last \in 1 .. MaxFill
  BY <1>1, MaxFillAssumption
     DEF MbPgInv, MbPgTypeOK, TypeOK, MbControlAgrees
<1>3. RowsPending = last - 1 /\ RowsPending' = last
  BY <1>1 DEF RowsPending
<1>4. /\ \A b \in Bufs : b # WriteBufIdx => Mem'[b] = Mem[b]
      /\ \A i \in 1 .. last - 1 : Mem'[WriteBufIdx][i] = Mem[WriteBufIdx][i]
      /\ Mem'[WriteBufIdx][last] = Stored + 1
  <2>1. Mem \in [Bufs -> [1 .. MaxFill -> Nat]]
    BY DEF MbPgInv, MbPgTypeOK, PgTypeOK
  <2>2. Mem' = [Mem EXCEPT ![WriteBufIdx] = [Mem[WriteBufIdx] EXCEPT ![last] = Stored + 1]]
    BY <1>1 DEF MbCopyPacket
  <2>3. Mem'[WriteBufIdx] = [Mem[WriteBufIdx] EXCEPT ![last] = Stored + 1]
    BY <1>2, <2>1, <2>2
  <2>4. \A b \in Bufs : b # WriteBufIdx => Mem'[b] = Mem[b]
    BY <1>2, <2>1, <2>2
  <2>5. Mem[WriteBufIdx] \in [1 .. MaxFill -> Nat]
    BY <1>2, <2>1
  <2>6. \A i \in 1 .. last - 1 : i \in 1 .. MaxFill /\ i # last
    BY <1>2, MaxFillAssumption
  <2> HIDE DEF last
  <2> QED
    BY <1>2, <2>3, <2>4, <2>5, <2>6
<1>5. RowsHeld' = RowsHeld /\ RowsHandedOver' = RowsHandedOver
  BY <1>1 DEF RowsHeld, RowsHandedOver, HandedOver
<1>6. Stored + 1 = passed + RowsHeld + RowsHandedOver + last
  <2>1. passed + RowsHeld + RowsHandedOver + RowsPending = Stored
    BY DEF PacketsAccounted
  <2>2. RowsHeld \in Nat /\ RowsHandedOver \in Nat /\ passed \in Nat /\ last \in Nat
    BY <1>2, RowCounts, MaxFillAssumption
  <2> HIDE DEF last
  <2> QED
    BY <1>3, <2>1, <2>2
<1>7. HeldRows'
  <2>1. RowsHeld > 0 => Buf \in Bufs /\ Buf # WriteBufIdx
    BY DEF RowsHeld, BuffersApart, MbPgInv, PgControlAgrees
  <2>2. ASSUME NEW i \in 1 .. RowsHeld
        PROVE  Buf \in Bufs /\ Mem'[Buf] = Mem[Buf]
    BY <1>4, <2>1, RowCounts
  <2> QED
    BY <1>1, <1>5, <2>2 DEF PacketsAccounted, HeldRows
<1>8. HandedOverRows'
  <2>1. RowsHandedOver > 0 => ReadBufIdx \in Bufs /\ ReadBufIdx # WriteBufIdx
    BY DEF RowsHandedOver, BuffersApart, MbPgInv, MbPgTypeOK, TypeOK
  <2>2. ASSUME NEW i \in 1 .. RowsHandedOver
        PROVE  Mem'[ReadBufIdx] = Mem[ReadBufIdx]
    BY <1>4, <2>1, RowCounts
  <2> QED
    BY <1>1, <1>5, <2>2 DEF PacketsAccounted, HandedOverRows
<1>9. PendingPackets'
  <2>1. \A i \in 1 .. last - 1 :
          Mem[WriteBufIdx][i] = passed + RowsHeld + RowsHandedOver + i
    BY <1>3 DEF PacketsAccounted, PendingPackets
  <2>2. ASSUME NEW i \in 1 .. last
        PROVE  Mem'[WriteBufIdx][i] = passed + RowsHeld + RowsHandedOver + i
    <3>1. CASE i = last
      BY <1>4, <1>6, <3>1
    <3>2. CASE i # last
      <4>1. i \in 1 .. last - 1
        BY <1>2, <3>2
      <4> QED
        BY <1>4, <2>1, <4>1
    <3> QED
      BY <3>1, <3>2
  <2> HIDE DEF last
  <2> QED
    BY <1>1, <1>3, <1>5, <2>2 DEF PendingPackets
<1>10. passed' + RowsHeld' + RowsHandedOver' + RowsPending' = Stored'
  BY <1>1, <1>3, <1>5, <1>6
<1> QED
  BY <1>1, <1>7, <1>8, <1>9, <1>10 DEF PacketsAccounted

(* Storing the index is the moment of the hand-over: the packets in the    *)
(* buffer being filled become the ones handed over.                        *)
LEMMA DataStoreWriteBufIdx ==
  ASSUME MbPgInv, BuffersApart, PacketsAccounted, MbPipeStep, StoreWriteBufIdx
  PROVE  PacketsAccounted'
<1>1. /\ UNCHANGED <<Mem, Pos, passed, ItemCount, RowsProcessed, pgpc, rpc,
                     ReadEventFd, ReadBufIdx, Buf, mbpc, Stored>>
      /\ wpc = "store" /\ wpc' = "count" /\ mbpc # "copy"
  BY DEF MbPipeStep, StoreWriteBufIdx, pgVars, rowVars, mbVars, readerVars, MbPgInv,
     MbControlAgrees
<1>2. ~HandedOver /\ HandedOver' /\ ReadBufIdx = WriteBufIdx
  BY <1>1 DEF HandedOver, BuffersApart, MbPgInv, PipeInv, SinglePermission,
     WriterInTransit, ReaderInTransit
<1>3. /\ RowsHandedOver = 0 /\ RowsHandedOver' = Pos[WriteBufIdx]
      /\ RowsPending = Pos[WriteBufIdx] /\ RowsPending' = 0
      /\ RowsHeld' = RowsHeld
  BY <1>1, <1>2 DEF RowsHandedOver, RowsPending, RowsHeld
<1>4. HeldRows'
  BY <1>1, <1>3 DEF PacketsAccounted, HeldRows
<1>5. HandedOverRows'
  <2>1. \A i \in 1 .. Pos[WriteBufIdx] :
          Mem[WriteBufIdx][i] = passed + RowsHeld + 0 + i
    BY <1>3 DEF PacketsAccounted, PendingPackets
  <2>2. \A i \in 1 .. Pos[WriteBufIdx] :
          Mem[WriteBufIdx][i] = passed + RowsHeld + i
    BY <2>1, RowCounts
  <2> QED
    BY <1>1, <1>2, <1>3, <2>2 DEF HandedOverRows
<1>6. PendingPackets'
  BY <1>3 DEF PendingPackets
<1>7. passed' + RowsHeld' + RowsHandedOver' + RowsPending' = Stored'
  BY <1>1, <1>3, RowCounts DEF PacketsAccounted
<1> QED
  BY <1>1, <1>4, <1>5, <1>6, <1>7 DEF PacketsAccounted

(* The next buffer is emptied, which neither the reader nor the hand-over  *)
(* uses.                                                                   *)
LEMMA DataFreeWriteBuffer ==
  ASSUME MbPgInv, BuffersApart, PacketsAccounted, MbPipeStep, FreeWriteBuffer
  PROVE  PacketsAccounted'
<1>1. /\ UNCHANGED <<Mem, passed, ItemCount, RowsProcessed, pgpc, rpc, ReadEventFd,
                     WriteBufIdx, ReadBufIdx, Buf, mbpc, Stored>>
      /\ wpc = "free" /\ wpc' = "ready" /\ mbpc # "copy"
      /\ Pos'[WriteBufIdx] = 0
      /\ \A b \in Bufs : b # WriteBufIdx => Pos'[b] = Pos[b]
  BY DEF MbPipeStep, FreeWriteBuffer, ringVars, readerVars, pgVars, rowVars, mbVars, MbPgInv,
     MbPgTypeOK, TypeOK, PipeInv, LocalsAgree, MbControlAgrees
<1>2. RowsHeld' = RowsHeld
  BY <1>1 DEF RowsHeld, BuffersApart
<1>3. RowsHandedOver' = RowsHandedOver
  BY <1>1 DEF RowsHandedOver, HandedOver, BuffersApart, MbPgInv, MbPgTypeOK, TypeOK
<1>4. RowsPending' = RowsPending
  BY <1>1 DEF RowsPending
<1> QED
  BY <1>1, <1>2, <1>3, <1>4, CountsKept

(* The other steps of the Modbus thread move no packet.                    *)
LEMMA DataMbStep ==
  ASSUME MbPgInv, BuffersApart, PacketsAccounted, MbStep, ~staleWrite'
  PROVE  PacketsAccounted'
<1>1. CASE MbAllocPacket
  BY <1>1, DataAllocPacket DEF MbAllocPacket
<1>2. CASE MbCopyPacket
  BY <1>2, DataCopyPacket
<1>3. CASE MbPipeStep
  <2>1. CASE StoreWriteBufIdx
    BY <1>3, <2>1, DataStoreWriteBufIdx
  <2>2. CASE FreeWriteBuffer
    BY <1>3, <2>2, DataFreeWriteBuffer
  <2>3. CASE DrainWriteEvent \/ CountFull \/ SignalReader
    <3>1. /\ UNCHANGED <<Mem, Pos, passed, ItemCount, RowsProcessed, pgpc, rpc,
                         WriteBufIdx, ReadBufIdx, Buf, mbpc, Stored>>
          /\ mbpc # "copy"
      BY <1>3, <2>3 DEF MbPipeStep, DrainWriteEvent, CountFull, SignalReader,
         readerVars, pgVars, rowVars, mbVars, MbPgInv, MbControlAgrees
    <3>2. HandedOver' = HandedOver
      BY <2>3, <3>1 DEF HandedOver, DrainWriteEvent, CountFull, SignalReader, MbPgInv,
         MbPgTypeOK, TypeOK
    <3>3. UNCHANGED <<RowsHeld, RowsHandedOver>>
      BY <3>1, <3>2 DEF RowsHeld, RowsHandedOver
    <3>4. RowsPending' = RowsPending
      BY <2>3, <3>1 DEF RowsPending, DrainWriteEvent, CountFull, SignalReader
    <3> QED
      BY <3>1, <3>3, <3>4, CountsKept
  <2> QED
    BY <1>3, <2>1, <2>2, <2>3 DEF MbPipeStep, WriterStep
<1>4. CASE MbStep /\ ~MbAllocPacket /\ ~MbCopyPacket /\ ~MbPipeStep
  <2>1. /\ UNCHANGED <<Mem, Pos, passed, ItemCount, RowsProcessed, pgpc, rpc,
                       ReadEventFd, WriteBufIdx, ReadBufIdx, Buf, Stored>>
        /\ mbpc # "copy" /\ mbpc' # "copy"
        /\ wpc' \in {"count", "signal", "free"} <=> wpc \in {"count", "signal", "free"}
        /\ wpc' \in {"count", "signal"} <=> wpc \in {"count", "signal"}
    BY <1>4 DEF MbStep, MbOuterTest, MbInnerTest, MbNextBuffer, MbGotBuffer,
       MbReceiveTimeout, MbReceiveFails, MbFlush, MbClose, MbConnect, GetWriteBuffer,
       Flush, pipeVars, ringVars, readerVars, pgVars, rowVars
  <2>2. UNCHANGED <<RowsHeld, RowsHandedOver, RowsPending>>
    BY <2>1 DEF RowsHeld, RowsHandedOver, HandedOver, RowsPending
  <2> QED
    BY <2>1, <2>2, CountsKept
<1> QED
  BY <1>1, <1>2, <1>3, <1>4

-----------------------------------------------------------------------------
(* The rows of a buffer that is taken move from handed over to held.       *)
LEMMA DataTakeReadBuffer ==
  ASSUME MbPgInv, PacketsAccounted, PgPipeStep, TakeReadBuffer, UNCHANGED mbVars
  PROVE  PacketsAccounted'
<1>1. /\ UNCHANGED <<Mem, Pos, passed, ItemCount, RowsProcessed, pgpc, wpc,
                     ReadEventFd, WriteBufIdx, CurBuf, mbpc, Stored>>
      /\ rpc = "take" /\ rpc' = "count" /\ Buf = NoBuf /\ Buf' = ReadBufIdx
      /\ ReadBufIdx \in Bufs /\ pgpc = "getting"
  BY DEF PgPipeStep, TakeReadBuffer, pgVars, rowVars, mbVars, writerVars, MbPgInv, MbPgTypeOK,
     TypeOK, PipeInv, LocalsAgree, PgControlAgrees
<1>2. HandedOver /\ ~HandedOver'
  BY <1>1 DEF HandedOver, MbPgInv, PipeInv, SinglePermission, WriterInTransit,
     ReaderInTransit, MbPgTypeOK, TypeOK
<1>3. RowsHeld = 0 /\ RowsHeld' = Pos[ReadBufIdx]
  BY <1>1 DEF RowsHeld, Bufs, NoBuf
<1>4. RowsHandedOver = Pos[ReadBufIdx] /\ RowsHandedOver' = 0
  BY <1>1, <1>2 DEF RowsHandedOver
<1>5. RowsPending' = RowsPending
  BY <1>1 DEF RowsPending
<1>6. passed' + RowsHeld' + RowsHandedOver' = passed + RowsHeld + RowsHandedOver
  BY <1>1, <1>3, <1>4, RowCounts
<1>7. HeldRows'
  <2>1. passed \in Nat
    BY RowCounts
  <2>2. \A i \in 1 .. Pos[ReadBufIdx] : Mem[ReadBufIdx][i] = passed + 0 + i
    BY <1>3, <1>4 DEF PacketsAccounted, HandedOverRows
  <2>3. \A i \in 1 .. Pos[ReadBufIdx] : i \in Int /\ passed + 0 + i = passed + i /\ 0 + i = i
    BY <2>1
  <2> QED
    BY <1>1, <1>3, <2>2, <2>3 DEF HeldRows
<1>8. HandedOverRows'
  BY <1>4 DEF HandedOverRows
<1>9. PendingPackets'
  BY <1>1, <1>5, <1>6 DEF PacketsAccounted, PendingPackets
<1> QED
  BY <1>1, <1>5, <1>6, <1>7, <1>8, <1>9 DEF PacketsAccounted

(* The rows held are the rows PgRun counts in the buffer it has taken.     *)
LEMMA DataCountItems ==
  ASSUME MbPgInv, PacketsAccounted, PgCountItems, UNCHANGED mbVars
  PROVE  PacketsAccounted'
<1>1. /\ UNCHANGED <<Mem, Pos, passed, rpc, wpc, ReadEventFd, WriteBufIdx, ReadBufIdx,
                     Buf, CurBuf, mbpc, Stored>>
      /\ pgpc = "getting" /\ pgpc' = "insert" /\ Buf # NoBuf
      /\ ItemCount' = Pos[Buf] /\ RowsProcessed' = 0 /\ Pos[Buf] \in Nat
  BY MaxFillAssumption DEF PgCountItems, rowVars, pipeVars, mbVars, MbPgInv, MbPgTypeOK, TypeOK
<1>2. RowsHeld' = RowsHeld
  BY <1>1 DEF RowsHeld
<1>3. RowsHandedOver' = RowsHandedOver /\ RowsPending' = RowsPending
  BY <1>1 DEF RowsHandedOver, HandedOver, RowsPending
<1>4. HandedOverRows' /\ PendingPackets'
  BY <1>1, <1>2, <1>3 DEF PacketsAccounted, HandedOverRows, PendingPackets
<1>5. HeldRows'
  BY <1>1, <1>2 DEF PacketsAccounted, HeldRows
<1> QED
  BY <1>1, <1>2, <1>3, <1>4, <1>5 DEF PacketsAccounted

(* One more row is read: it is the next packet.                            *)
LEMMA DataConvertRow ==
  ASSUME MbPgInv, PacketsAccounted, PgConvertRow, UNCHANGED mbVars
  PROVE  /\ PacketsAccounted' /\ passed' = passed + 1 /\ lost' = lost
         /\ consumed' = Append(consumed, passed + 1)
<1>1. /\ UNCHANGED <<Mem, Pos, rpc, wpc, ReadEventFd, WriteBufIdx, ReadBufIdx, pgpc,
                     Buf, CurBuf, mbpc, Stored, ItemCount>>
      /\ pgpc = "insert" /\ RowsProcessed < ItemCount
      /\ RowsProcessed' = RowsProcessed + 1 /\ RowsProcessed \in Nat /\ ItemCount \in Nat
  BY MaxFillAssumption DEF PgConvertRow, pipeVars, mbVars, MbPgInv, MbPgTypeOK, PgTypeOK
<1>2. RowsHeld = ItemCount - RowsProcessed /\ RowsHeld' = RowsHeld - 1 /\ RowsHeld >= 1
  BY <1>1 DEF RowsHeld
<1>3. Mem[Buf][RowsProcessed + 1] = passed + 1
  <2>1. \A i \in 1 .. RowsHeld : Mem[Buf][RowsProcessed + i] = passed + i
    BY <1>1 DEF PacketsAccounted, HeldRows
  <2>2. 1 \in 1 .. RowsHeld
    BY <1>2, RowCounts
  <2> QED
    BY <2>1, <2>2
<1>4. consumed' = Append(consumed, passed + 1)
  BY <1>3 DEF PgConvertRow
<1>5. passed' = passed + 1 /\ lost' = lost
  BY RowCounts DEF PgConvertRow
<1>6. RowsHandedOver' = RowsHandedOver /\ RowsPending' = RowsPending
  BY <1>1 DEF RowsHandedOver, HandedOver, RowsPending
<1>7. passed' + RowsHeld' = passed + RowsHeld
  BY <1>2, <1>5, RowCounts
<1>8. HeldRows'
  <2>1. \A i \in 1 .. RowsHeld : Mem[Buf][RowsProcessed + i] = passed + i
    BY <1>1 DEF PacketsAccounted, HeldRows
  <2>2. ASSUME NEW i \in 1 .. RowsHeld - 1
        PROVE  Mem[Buf][RowsProcessed + 1 + i] = passed + 1 + i
    <3>1. i + 1 \in 1 .. RowsHeld
      BY RowCounts
    <3>2. Mem[Buf][RowsProcessed + (i + 1)] = passed + (i + 1)
      BY <2>1, <3>1
    <3>3. RowsProcessed + (i + 1) = RowsProcessed + 1 + i
      BY <1>1
    <3> QED
      BY <3>2, <3>3, RowCounts
  <2> QED
    BY <1>1, <1>2, <1>5, <2>2 DEF HeldRows
<1>9. HandedOverRows' /\ PendingPackets'
  BY <1>1, <1>6, <1>7 DEF PacketsAccounted, HandedOverRows, PendingPackets
<1> QED
  BY <1>1, <1>4, <1>5, <1>6, <1>7, <1>8, <1>9 DEF PacketsAccounted

(* A buffer that is given up holds the next packets.                       *)
LEMMA DataGivesUp ==
  ASSUME MbPgInv, PacketsAccounted, NEW ok \in BOOLEAN, PgInsertGivesUp(ok),
         UNCHANGED mbVars
  PROVE  /\ PacketsAccounted' /\ ItemCount \in Nat /\ passed' = passed + ItemCount
         /\ consumed' = consumed
         /\ lost' = lost \cup (passed + 1 .. passed + ItemCount)
<1>1. /\ UNCHANGED <<Mem, Pos, consumed, rpc, wpc, ReadEventFd, WriteBufIdx, ReadBufIdx,
                     Buf, CurBuf, mbpc, Stored>>
      /\ pgpc = "insert" /\ pgpc' \in {"loop", "inner"} /\ RowsProcessed = 0
      /\ passed' = passed + ItemCount
      /\ lost' = lost \cup {Mem[Buf][i] : i \in 1 .. ItemCount}
  BY DEF PgInsertGivesUp, PgAfterInsert, pipeVars, mbVars
<1>2. ItemCount \in Nat /\ passed \in Nat
  BY RowCounts, MaxFillAssumption DEF MbPgInv, MbPgTypeOK, PgTypeOK
<1>3. RowsHeld = ItemCount /\ RowsHeld' = 0
  BY <1>1, <1>2 DEF RowsHeld
<1>4. \A i \in 1 .. ItemCount : Mem[Buf][i] = passed + i
  <2>1. \A i \in 1 .. ItemCount : Mem[Buf][0 + i] = passed + i
    BY <1>1, <1>3 DEF PacketsAccounted, HeldRows
  <2> QED
    BY <1>2, <2>1
<1>5. {Mem[Buf][i] : i \in 1 .. ItemCount} = passed + 1 .. passed + ItemCount
  <2>1. ASSUME NEW k \in passed + 1 .. passed + ItemCount
        PROVE  k \in {Mem[Buf][i] : i \in 1 .. ItemCount}
    <3>1. k - passed \in 1 .. ItemCount /\ passed + (k - passed) = k
      BY <1>2
    <3> QED
      BY <1>4, <3>1
  <2>2. ASSUME NEW i \in 1 .. ItemCount
        PROVE  Mem[Buf][i] \in passed + 1 .. passed + ItemCount
    BY <1>2, <1>4
  <2> QED
    BY <2>1, <2>2
<1>6. RowsHandedOver' = RowsHandedOver /\ RowsPending' = RowsPending
  BY <1>1 DEF RowsHandedOver, HandedOver, RowsPending
<1>7. passed' + RowsHeld' = passed + RowsHeld
  BY <1>1, <1>2, <1>3
<1>8. HeldRows'
  BY <1>3 DEF HeldRows
<1>9. HandedOverRows' /\ PendingPackets'
  BY <1>1, <1>6, <1>7 DEF PacketsAccounted, HandedOverRows, PendingPackets
<1> QED
  BY <1>1, <1>2, <1>5, <1>6, <1>7, <1>8, <1>9 DEF PacketsAccounted

(* The other steps of the Postgres thread move no packet: when it leaves   *)
(* an insertion every row of the buffer has been read or given up.         *)
LEMMA DataPgStep ==
  ASSUME MbPgInv, PacketsAccounted, PgNext, UNCHANGED mbVars
  PROVE  PacketsAccounted'
<1>1. CASE PgPipeStep
  <2>1. CASE TakeReadBuffer
    BY <1>1, <2>1, DataTakeReadBuffer
  <2>2. CASE DrainReadEvent \/ CountTaken \/ SignalWriter
    <3>1. UNCHANGED <<Mem, Pos, passed, ItemCount, RowsProcessed, pgpc, wpc, CurBuf,
                      WriteBufIdx, ReadBufIdx, Buf, mbpc, Stored>>
      BY <1>1, <2>2 DEF PgPipeStep, DrainReadEvent, CountTaken, SignalWriter,
         writerVars, pgVars, rowVars, mbVars
    <3>2. HandedOver' = HandedOver
      BY <2>2, <3>1 DEF HandedOver, DrainReadEvent, CountTaken, SignalWriter, MbPgInv,
         MbPgTypeOK, TypeOK
    <3>3. UNCHANGED <<RowsHeld, RowsHandedOver, RowsPending>>
      BY <3>1, <3>2 DEF RowsHeld, RowsHandedOver, RowsPending
    <3> QED
      BY <3>1, <3>3, CountsKept DEF PacketsAccounted
  <2> QED
    BY <1>1, <2>1, <2>2 DEF PgPipeStep, ReaderStep
<1>2. CASE PgCountItems
  BY <1>2, DataCountItems
<1>3. CASE PgConvertRow
  BY <1>3, DataConvertRow
<1>4. CASE PgGetReadBuffer
  <2>1. /\ UNCHANGED <<Mem, Pos, passed, RowsProcessed, wpc, CurBuf, ReadEventFd,
                       WriteBufIdx, ReadBufIdx, mbpc, Stored>>
        /\ pgpc = "inner" /\ pgpc' = "getting" /\ Buf' = NoBuf
        /\ rpc # "take" /\ rpc' # "take"
    BY <1>4 DEF PgGetReadBuffer, GetReadBuffer, rowVars, ringVars, writerVars, mbVars
  <2>2. RowsHeld = 0 /\ RowsHeld' = 0
    BY <2>1 DEF RowsHeld
  <2>3. UNCHANGED <<RowsHandedOver, RowsPending>>
    BY <2>1 DEF RowsHandedOver, HandedOver, RowsPending
  <2>4. HeldRows' /\ HandedOverRows' /\ PendingPackets'
    BY <2>1, <2>2, <2>3 DEF PacketsAccounted, HeldRows, HandedOverRows, PendingPackets
  <2> QED
    BY <2>1, <2>2, <2>3, <2>4 DEF PacketsAccounted
<1>5. ASSUME NEW ok \in BOOLEAN, PgInsertGivesUp(ok)
      PROVE  PacketsAccounted'
  BY <1>5, DataGivesUp
<1>6. CASE /\ ~PgPipeStep /\ ~PgCountItems /\ ~PgConvertRow /\ ~PgGetReadBuffer
           /\ \A ok \in BOOLEAN : ~PgInsertGivesUp(ok)
  <2>1. /\ UNCHANGED <<Mem, passed, RowsProcessed, pipeVars, mbpc, Stored>>
        /\ RowsHeld = 0 /\ RowsHeld' = 0
    <3>1. UNCHANGED <<Mem, passed, RowsProcessed, ItemCount, pipeVars, mbpc, Stored>>
      BY <1>6 DEF PgNext, PgStep, PgLoopTest, EpollReady, EpollInterrupted, EpollTimeout,
         PgInsertReturns, PgAfterInsert, PgExit, rowVars, mbVars
    <3>2. /\ \/ pgpc \in {"loop", "epoll", "exit"}
             \/ pgpc = "insert" /\ RowsProcessed = ItemCount
          /\ pgpc' \in {"loop", "epoll", "inner", "exit", "done"}
      <4>1. CASE PgLoopTest \/ EpollReady \/ EpollInterrupted \/ PgExit
        BY <4>1 DEF PgLoopTest, EpollReady, EpollInterrupted, PgExit
      <4>2. CASE EpollTimeout
        BY <4>2 DEF EpollTimeout
      <4>3. ASSUME NEW ok \in BOOLEAN, PgInsertReturns(ok)
            PROVE  /\ pgpc = "insert" /\ RowsProcessed = ItemCount
                   /\ pgpc' \in {"loop", "inner"}
        BY <4>3 DEF PgInsertReturns, PgAfterInsert
      <4> QED
        BY <1>6, <4>1, <4>2, <4>3 DEF PgNext, PgStep
    <3>3. ItemCount \in Nat
      BY MaxFillAssumption DEF MbPgInv, MbPgTypeOK, PgTypeOK
    <3> QED
      BY <3>1, <3>2, <3>3 DEF RowsHeld
  <2>2. UNCHANGED <<RowsHandedOver, RowsPending>>
    BY <2>1 DEF RowsHandedOver, HandedOver, RowsPending, pipeVars
  <2>3. HeldRows' /\ HandedOverRows' /\ PendingPackets'
    BY <2>1, <2>2 DEF PacketsAccounted, HeldRows, HandedOverRows, PendingPackets, pipeVars
  <2> QED
    BY <2>1, <2>2, <2>3 DEF PacketsAccounted, pipeVars
<1> QED
  BY <1>1, <1>2, <1>3, <1>4, <1>5, <1>6

(* Only PgConvertRow and PgInsertGivesUp touch the histories of the rows,  *)
(* and a write into a buffer handed over is never forgotten.               *)
LEMMA HistoryKept ==
  ASSUME [MbPgNext]_vars
  PROVE  /\ \/ PgConvertRow /\ UNCHANGED mbVars
            \/ \E ok \in BOOLEAN : PgInsertGivesUp(ok) /\ UNCHANGED mbVars
            \/ UNCHANGED <<consumed, lost, passed>>
         /\ ~staleWrite' => ~staleWrite
<1>1. CASE MbStep \/ SignalHandler \/ UNCHANGED vars
  <2>1. UNCHANGED <<consumed, lost, passed>>
    BY <1>1, ReaderUntouched DEF pgVars, rowVars
  <2>2. ~staleWrite' => ~staleWrite
    BY <1>1 DEF MbStep, MbOuterTest, MbInnerTest, MbNextBuffer, MbPipeStep, MbGotBuffer,
       MbAllocPacket, MbCopyPacket, MbReceiveTimeout, MbReceiveFails, MbFlush, MbClose,
       MbConnect, SignalHandler, vars, mbVars
  <2> QED
    BY <2>1, <2>2
<1>2. CASE PgNext /\ UNCHANGED mbVars
  BY <1>2 DEF PgNext, PgStep, PgLoopTest, EpollReady, EpollInterrupted, EpollTimeout,
     PgGetReadBuffer, PgPipeStep, PgCountItems, PgInsertReturns, PgInsertGivesUp, PgAfterInsert,
     PgExit, pgVars, rowVars, mbVars
<1> QED
  BY <1>1, <1>2 DEF MbPgNext

(* Every step keeps the account of the packets.                            *)
LEMMA MbPgStepDelivery ==
  ASSUME BufCount >= 3, MbPgInv, DeliveryUnlessStale, [MbPgNext]_vars
  PROVE  DeliveryUnlessStale'
<1> SUFFICES ASSUME ~staleWrite'
             PROVE  PacketsAccounted' /\ RowsInOrder'
  BY DEF DeliveryUnlessStale
<1>1. BuffersApart
  BY BufferRoles DEF MbPgInv
<1>2. PacketsAccounted /\ RowsInOrder
  BY HistoryKept DEF DeliveryUnlessStale
<1>3. PacketsAccounted'
  <2>1. CASE MbStep
    BY <1>1, <1>2, <2>1, DataMbStep
  <2>2. CASE PgNext /\ UNCHANGED mbVars
    BY <1>2, <2>2, DataPgStep
  <2>3. CASE SignalHandler \/ UNCHANGED vars
    BY <1>2, <2>3 DEF SignalHandler, vars, pipeVars, pgVars, rowVars, mbVars, PacketsAccounted,
       HeldRows, HandedOverRows, PendingPackets, RowsHeld, RowsHandedOver, HandedOver,
       RowsPending
  <2> QED
    BY <2>1, <2>2, <2>3 DEF MbPgNext
<1>4. RowsInOrder'
  <2>0. passed \in Nat /\ consumed \in Seq(Nat)
    BY DEF MbPgInv, MbPgTypeOK, PgTypeOK
  <2>1. CASE PgConvertRow /\ UNCHANGED mbVars
    BY <1>2, <2>0, <2>1, DataConvertRow, NextRowInOrder
  <2>2. ASSUME NEW ok \in BOOLEAN, PgInsertGivesUp(ok), UNCHANGED mbVars
        PROVE  RowsInOrder'
    BY <1>2, <2>0, <2>2, DataGivesUp, LostRowsInOrder
  <2>3. CASE UNCHANGED <<consumed, lost, passed>>
    BY <1>2, <2>3 DEF RowsInOrder, RowsRead
  <2> QED
    BY <2>1, <2>2, <2>3, HistoryKept
<1> QED
  BY <1>3, <1>4

(* With three buffers or more, and unless MbRun stored a packet in a       *)
(* buffer it had already handed over, every packet stored gets to          *)
(* PgInsertData once and in order: it is read, or left unread with all     *)
(* the packets of its buffer, or still on its way.                         *)
THEOREM PacketsDelivered ==
  ASSUME BufCount >= 3
  PROVE  MbPgSpec => []DeliveryUnlessStale
<1>1. Init => DeliveryUnlessStale
  <2> SUFFICES ASSUME Init PROVE DeliveryUnlessStale
    OBVIOUS
  <2>1. RowsHeld = 0 /\ RowsHandedOver = 0
    BY DEF Init, SdpCreate, PgInit, RowsHeld, RowsHandedOver, HandedOver
  <2>2. RowsPending = 0
    BY BufCountAssumption DEF Init, SdpCreate, RowsPending, Bufs
  <2>3. passed = 0 /\ consumed = <<>> /\ lost = {} /\ Stored = 0 /\ mbpc = "outer"
    BY DEF Init, PgInit
  <2>4. HeldRows /\ HandedOverRows /\ PendingPackets
    BY <2>1, <2>2 DEF HeldRows, HandedOverRows, PendingPackets
  <2>5. RowsInOrder
    BY <2>3 DEF RowsInOrder, RowsRead
  <2> QED
    BY <2>1, <2>2, <2>3, <2>4, <2>5 DEF DeliveryUnlessStale, PacketsAccounted
<1>2. MbPgInv /\ DeliveryUnlessStale /\ [MbPgNext]_vars => DeliveryUnlessStale'
  BY MbPgStepDelivery
<1> QED
  BY <1>1, <1>2, HandlerInvariant, PTL DEF MbPgSpec
=============================================================================
