------------------------ MODULE PipeThroughputProofs ------------------------
(***************************************************************************)
(* The throughput test passes the file on in order, for every size of the  *)
(* file, every fill level and every number of buffers from three on: each  *)
(* packet is read by PgInsertData or belongs to a buffer it gave up.       *)
(***************************************************************************)
EXTENDS PipeThroughput, SensorDataPipeProofs

(* A step of the test is a step of the pipe with its general callers, so   *)
(* the pipe's invariant carries over.                                      *)
LEMMA TestStepIsPipeStep ==
  TestTypeOK /\ [TestNext]_vars => [Next]_pipeVars
<1> SUFFICES ASSUME TestTypeOK, [TestNext]_vars
             PROVE  [Next]_pipeVars
  OBVIOUS
<1>1. CASE AllocChunk
  <2>1. ChunkSize \in 1 .. MaxFill
    BY <1>1, MaxFillAssumption DEF AllocChunk, ChunkSize, TestTypeOK
  <2> QED
    BY <1>1, <2>1 DEF AllocChunk, Next, WriterCall
<1>2. CASE MbStep /\ ~AllocChunk
  BY <1>2 DEF MbStep, CopyPacket, HandOver, MbPipeStep, GotWriteBuffer, FinalFlush,
     Finish, Next, WriterCall
<1>3. CASE PgNext
  BY <1>3 DEF PgNext, PgStep, PgLoopTest, EpollReady, EpollInterrupted, EpollTimeout,
     PgGetReadBuffer, PgPipeStep, PgCountItems, PgConvertRow, PgInsertReturns, PgInsertGivesUp,
     PgAfterInsert, PgExit, Next
<1>4. CASE UNCHANGED vars
  BY <1>4 DEF vars
<1> QED
  BY <1>1, <1>2, <1>3, <1>4 DEF TestNext

(* The state MbPipeThroughputTest and PgRun start from is in the invariant. *)
LEMMA TestInitInv == Init => TestInv
<1> SUFFICES ASSUME Init PROVE TestInv
  OBVIOUS
<1> USE DEF Init, SdpCreate, PgInit
<1>1. PipeInv
  BY PipeInit
<1>2. TestTypeOK
  <2>1. TypeOK
    BY <1>1 DEF PipeInv
  <2>2. PgTypeOK
    <3>1. ShutdownRequested \in BOOLEAN
      OBVIOUS
    <3>2. consumed \in Seq(Nat)
      OBVIOUS
    <3> QED
      BY <3>1, <3>2, MaxFillAssumption, FailThresholdAssumption DEF PgTypeOK
  <2> QED
    BY <2>1, <2>2, MaxFillAssumption, TotalDataAssumption DEF TestTypeOK
<1>3. ControlAgrees
  BY BufCountAssumption, TotalDataAssumption DEF ControlAgrees, ChunkPending, Bufs
<1>4. DataAgrees
  BY BufCountAssumption, TotalDataAssumption
     DEF DataAgrees, RowsAccounted, HeldRows, HandedOverRows, PendingRows, RowsHeld,
         RowsHandedOver, HandedOver, ChunkPending, PacketsBefore
<1>5. RowsInOrder
  BY DEF RowsInOrder, RowsRead
<1> QED
  BY <1>1, <1>2, <1>3, <1>4, <1>5 DEF TestInv

-----------------------------------------------------------------------------
(* The types are preserved.                                                *)
LEMMA TestStepTypes ==
  ASSUME TestInv, [TestNext]_vars
  PROVE  TestTypeOK'
<1>1. PipeInv'
  BY TestStepIsPipeStep, PipeStep DEF TestInv
<1> USE DEF TestInv, TestTypeOK, PgTypeOK, pgVars, rowVars, mbVars
<1>2. TypeOK /\ TypeOK'
  BY <1>1 DEF PipeInv
<1>3. CASE AllocChunk
  BY <1>2, <1>3, MaxFillAssumption DEF AllocChunk
<1>4. CASE CopyPacket
  <2>1. /\ CurBuf \in Bufs
        /\ Copied + 1 \in 1 .. MaxFill
        /\ TotalData - RemainingData + Copied + 1 \in Nat
    BY <1>2, <1>4, TotalDataAssumption, MaxFillAssumption
       DEF CopyPacket, ControlAgrees, ChunkPending, ChunkSize, TypeOK
  <2>2. Mem' \in [Bufs -> [1 .. MaxFill -> Nat]]
    BY <1>4, <2>1 DEF CopyPacket
  <2> QED
    BY <1>2, <1>4, <2>1, <2>2 DEF CopyPacket
<1>5. CASE HandOver
  BY <1>2, <1>5 DEF HandOver
<1>6. CASE MbPipeStep
  BY <1>2, <1>6 DEF MbPipeStep
<1>7. CASE GotWriteBuffer
  BY <1>2, <1>7, MaxFillAssumption DEF GotWriteBuffer
<1>8. CASE FinalFlush
  BY <1>2, <1>8 DEF FinalFlush
<1>9. CASE Finish
  BY <1>2, <1>9 DEF Finish
<1>10. CASE UNCHANGED vars
  BY <1>2, <1>10 DEF vars
<1>11. CASE PgNext /\ UNCHANGED mbVars
  <2>1. CASE PgLoopTest
    BY <1>2, <1>11, <2>1 DEF PgLoopTest
  <2>2. CASE EpollReady
    BY <1>2, <1>11, <2>2 DEF EpollReady
  <2>3. CASE PgGetReadBuffer
    BY <1>2, <1>11, <2>3 DEF PgGetReadBuffer
  <2>4. CASE PgPipeStep
    BY <1>2, <1>11, <2>4 DEF PgPipeStep
  <2>5. CASE PgCountItems
    <3>1. Pos[Buf] \in 0 .. MaxFill
      BY <1>2, <2>5 DEF PgCountItems, TypeOK
    <3> QED
      BY <1>2, <1>11, <2>5, <3>1, MaxFillAssumption DEF PgCountItems
  <2>6. CASE PgConvertRow
    <3>1. Buf \in Bufs /\ RowsProcessed + 1 \in 1 .. MaxFill
      BY <1>2, <2>6, MaxFillAssumption DEF PgConvertRow, ControlAgrees, TypeOK
    <3>2. consumed' \in Seq(Nat)
      <4>1. Mem[Buf][RowsProcessed + 1] \in Nat
        BY <3>1
      <4> QED
        BY <2>6, <4>1 DEF PgConvertRow
    <3> QED
      BY <1>2, <1>11, <2>6, <3>2 DEF PgConvertRow
  <2>7. CASE PgExit
    BY <1>2, <1>11, <2>7 DEF PgExit
  <2>8. ASSUME NEW ok \in BOOLEAN, PgInsertReturns(ok)
        PROVE  TestTypeOK'
    BY <1>2, <1>11, <2>8, FailThresholdAssumption
       DEF PgInsertReturns, PgAfterInsert, Saturating
  <2>9. CASE EpollInterrupted
    BY <1>2, <1>11, <2>9 DEF EpollInterrupted
  <2>10. CASE EpollTimeout
    BY <1>2, <1>11, <2>10, FailThresholdAssumption DEF EpollTimeout, Saturating
  <2>11. ASSUME NEW ok \in BOOLEAN, PgInsertGivesUp(ok)
         PROVE  TestTypeOK'
    <3>1. Buf \in Bufs /\ \A i \in 1 .. ItemCount : i \in 1 .. MaxFill
      BY <1>2, <2>11, MaxFillAssumption DEF PgInsertGivesUp, ControlAgrees, TypeOK
    <3>2. \A i \in 1 .. ItemCount : Mem[Buf][i] \in Nat
      BY <3>1
    <3>3. lost' \subseteq Nat /\ passed' \in Nat
      <4>1. lost \subseteq Nat /\ passed \in Nat /\ ItemCount \in Nat
        BY MaxFillAssumption
      <4>2. {Mem[Buf][i] : i \in 1 .. ItemCount} \subseteq Nat
        BY <3>2
      <4>3. /\ lost' = lost \cup {Mem[Buf][i] : i \in 1 .. ItemCount}
            /\ passed' = passed + ItemCount
        BY <2>11 DEF PgInsertGivesUp
      <4>4. passed' \in Nat
        BY <4>1, <4>3
      <4>5. lost' \subseteq Nat
        BY <4>1, <4>2, <4>3, Zenon
      <4> QED
        BY <4>4, <4>5
    <3> QED
      BY <1>2, <1>11, <2>11, <3>3, FailThresholdAssumption
         DEF PgInsertGivesUp, PgAfterInsert, Saturating
  <2> QED
    BY <1>11, <2>1, <2>2, <2>3, <2>4, <2>5, <2>6, <2>7, <2>8, <2>9, <2>10, <2>11
       DEF PgNext, PgStep
<1> QED
  BY <1>3, <1>4, <1>5, <1>6, <1>7, <1>8, <1>9, <1>10, <1>11 DEF TestNext, MbStep

-----------------------------------------------------------------------------
(* memcpy stays inside the chunk that was allocated.                       *)
LEMMA CopyWithinChunk ==
  ASSUME TestTypeOK, CopyPacket
  PROVE  /\ mbpc = "copy"
         /\ Copied' = Copied + 1 /\ Copied' <= ChunkSize /\ ChunkSize' = ChunkSize
         /\ ChunkSize <= MaxFill
  BY MaxFillAssumption DEF TestTypeOK, CopyPacket, ChunkSize

(* The threads stay where the pipe expects them.                           *)
LEMMA TestStepControl ==
  ASSUME BufCount >= 3, TestInv, [TestNext]_vars
  PROVE  ControlAgrees'
<1>1. TestTypeOK'
  BY TestStepTypes
<1>2. BuffersApart
  BY BufferRoles DEF TestInv
<1> USE <1>1, <1>2, MaxFillAssumption, TotalDataAssumption
    DEF TestInv, TestTypeOK, PgTypeOK, PipeInv, TypeOK, BuffersApart, pgVars, rowVars, mbVars,
        ringVars, writerVars, readerVars, SinglePermission, WriterInTransit,
        ReaderInTransit, LocalsAgree, ControlAgrees, ChunkPending, ChunkSize, HandedOver
<1>3. CASE AllocChunk
  BY <1>3 DEF AllocChunk, ArenaAlloc
<1>4. CASE CopyPacket
  <2>1. UNCHANGED <<WriteBufIdx, ReadEventFd, Pos, wpc, wop, CurBuf, rpc, Buf, pgpc,
                    mbpc, RemainingData>>
    BY <1>4 DEF CopyPacket, pipeVars
  <2>2. mbpc = "copy" /\ Copied' <= ChunkSize /\ ChunkSize' = ChunkSize
    BY <1>4, CopyWithinChunk
  <2> QED
    BY <2>1, <2>2
<1>5. CASE HandOver
  BY <1>5 DEF HandOver, GetWriteBuffer
<1>6. CASE GotWriteBuffer
  BY <1>6 DEF GotWriteBuffer, pipeVars
<1>7. CASE FinalFlush
  BY <1>7 DEF FinalFlush, Flush
<1>8. CASE Finish
  BY <1>8 DEF Finish, pipeVars
<1>9. CASE MbPipeStep /\ DrainWriteEvent
  BY <1>9 DEF MbPipeStep, DrainWriteEvent
<1>10. CASE MbPipeStep /\ StoreWriteBufIdx
  BY <1>10 DEF MbPipeStep, StoreWriteBufIdx
<1>11. CASE MbPipeStep /\ CountFull
  BY <1>11 DEF MbPipeStep, CountFull
<1>12. CASE MbPipeStep /\ SignalReader
  BY <1>12 DEF MbPipeStep, SignalReader
<1>13. CASE MbPipeStep /\ FreeWriteBuffer
  BY <1>13 DEF MbPipeStep, FreeWriteBuffer
<1>14. CASE PgLoopTest /\ UNCHANGED mbVars
  BY <1>14 DEF PgLoopTest, pipeVars
<1>15. CASE EpollReady /\ UNCHANGED mbVars
  BY <1>15 DEF EpollReady, pipeVars
<1>16. CASE EpollInterrupted /\ UNCHANGED mbVars
  BY <1>16 DEF EpollInterrupted, pipeVars
<1>17. CASE EpollTimeout /\ UNCHANGED mbVars
  BY <1>17 DEF EpollTimeout, pipeVars
<1>18. CASE PgGetReadBuffer /\ UNCHANGED mbVars
  BY <1>18 DEF PgGetReadBuffer, GetReadBuffer, pipeVars
<1>19. CASE PgCountItems /\ UNCHANGED mbVars
  BY <1>19 DEF PgCountItems, pipeVars
<1>20. CASE PgConvertRow /\ UNCHANGED mbVars
  BY <1>20 DEF PgConvertRow, pipeVars
<1>21. CASE PgExit /\ UNCHANGED mbVars
  BY <1>21 DEF PgExit, pipeVars
<1>22. CASE PgPipeStep /\ DrainReadEvent /\ UNCHANGED mbVars
  BY <1>22 DEF PgPipeStep, DrainReadEvent
<1>23. CASE PgPipeStep /\ TakeReadBuffer /\ UNCHANGED mbVars
  BY <1>23 DEF PgPipeStep, TakeReadBuffer
<1>24. CASE PgPipeStep /\ CountTaken /\ UNCHANGED mbVars
  BY <1>24 DEF PgPipeStep, CountTaken
<1>25. CASE PgPipeStep /\ SignalWriter /\ UNCHANGED mbVars
  BY <1>25 DEF PgPipeStep, SignalWriter
<1>26. ASSUME NEW ok \in BOOLEAN, PgInsertReturns(ok), UNCHANGED mbVars
      PROVE  ControlAgrees'
  BY <1>26 DEF PgInsertReturns, PgAfterInsert, pipeVars
<1>27. CASE UNCHANGED vars
  BY <1>27 DEF vars, pipeVars
<1>28. ASSUME NEW ok \in BOOLEAN, PgInsertGivesUp(ok), UNCHANGED mbVars
      PROVE  ControlAgrees'
  BY <1>28 DEF PgInsertGivesUp, PgAfterInsert, pipeVars
<1> QED
  BY <1>3, <1>4, <1>5, <1>6, <1>7, <1>8, <1>9, <1>10, <1>11, <1>12, <1>13, <1>14, <1>15, <1>16, <1>17, <1>18, <1>19, <1>20, <1>21, <1>22, <1>23, <1>24, <1>25, <1>26, <1>27, <1>28
     DEF TestNext, MbStep, MbPipeStep, WriterStep, PgNext, PgStep, PgPipeStep, ReaderStep

(* The derived quantities of the invariant are numbers.                    *)
LEMMA RowCounts ==
  ASSUME TestInv
  PROVE  /\ RowsHeld \in 0 .. MaxFill /\ RowsHandedOver \in 0 .. MaxFill
         /\ PacketsBefore \in Nat /\ passed \in Nat /\ ChunkSize \in Int
         /\ Copied \in Nat
<1>a. /\ passed \in Nat /\ RemainingData \in Int /\ Copied \in 0 .. MaxFill
      /\ ItemCount \in 0 .. MaxFill /\ RowsProcessed \in 0 .. ItemCount
      /\ RemainingData <= TotalData
  BY DEF TestInv, TestTypeOK, PgTypeOK, ControlAgrees
<1>b. /\ Pos \in [Bufs -> 0 .. MaxFill] /\ Buf \in Bufs \cup {NoBuf} /\ ReadBufIdx \in Bufs
  BY DEF TestInv, TestTypeOK, TypeOK
<1>1. passed \in Nat /\ Copied \in Nat
  BY <1>a, MaxFillAssumption
<1>2. RowsHeld \in 0 .. MaxFill
  BY <1>a, <1>b, MaxFillAssumption DEF RowsHeld
<1>3. RowsHandedOver \in 0 .. MaxFill
  BY <1>b, MaxFillAssumption DEF RowsHandedOver
<1>4. PacketsBefore \in Nat /\ ChunkSize \in Int
  BY <1>a, MaxFillAssumption, TotalDataAssumption DEF PacketsBefore, ChunkSize
<1> QED
  BY <1>1, <1>2, <1>3, <1>4

(* Actions that leave Mem and the rows consumed alone keep the contents of *)
(* the buffers if they keep the counts.                                    *)
LEMMA DataAllocChunk ==
  ASSUME TestInv, BuffersApart, AllocChunk
  PROVE  DataAgrees'
<1>1. /\ UNCHANGED <<Mem, passed, ItemCount, RowsProcessed, pgpc, rpc, wpc, ReadEventFd,
                     WriteBufIdx, ReadBufIdx, Buf, RemainingData>>
      /\ mbpc = "loop" /\ mbpc' = "copy" /\ Copied' = 0 /\ CurBuf = WriteBufIdx
      /\ \A b \in Bufs : b # WriteBufIdx => Pos'[b] = Pos[b]
  BY DEF AllocChunk, ArenaAlloc, TestInv, TestTypeOK, TypeOK, ControlAgrees,
         ringVars, writerVars, readerVars, pgVars, rowVars
<1>2. RowsHeld' = RowsHeld
  BY <1>1 DEF RowsHeld, BuffersApart
<1>3. HandedOver' = HandedOver /\ RowsHandedOver' = RowsHandedOver
  BY <1>1 DEF RowsHandedOver, HandedOver, BuffersApart, TestInv, TestTypeOK, TypeOK
<1>4. PacketsBefore' = PacketsBefore
  BY <1>1 DEF PacketsBefore
<1>5. RowsAccounted' /\ HeldRows' /\ HandedOverRows'
  BY <1>1, <1>2, <1>3, <1>4
     DEF TestInv, DataAgrees, RowsAccounted, HeldRows, HandedOverRows
<1> QED
  BY <1>1, <1>5 DEF DataAgrees, PendingRows

(* One more packet is stored behind the ones of its chunk; the buffers of  *)
(* the reader are not touched.                                             *)
LEMMA DataCopyPacket ==
  ASSUME TestInv, BuffersApart, CopyPacket
  PROVE  DataAgrees'
<1>1. /\ UNCHANGED <<Pos, passed, ItemCount, RowsProcessed, pgpc, rpc, wpc, ReadEventFd,
                     WriteBufIdx, ReadBufIdx, Buf, RemainingData, mbpc>>
      /\ mbpc = "copy" /\ Copied' = Copied + 1 /\ CurBuf = WriteBufIdx /\ RemainingData > 0
  BY DEF CopyPacket, pipeVars, pgVars, rowVars, TestInv, ControlAgrees, ChunkPending
<1>2. /\ WriteBufIdx \in Bufs /\ Copied + 1 \in 1 .. MaxFill
  BY CopyWithinChunk, RowCounts, MaxFillAssumption
     DEF TestInv, TestTypeOK, TypeOK
<1>3. /\ \A b \in Bufs : b # WriteBufIdx => Mem'[b] = Mem[b]
      /\ \A i \in 1 .. Copied : Mem'[WriteBufIdx][i] = Mem[WriteBufIdx][i]
      /\ Mem'[WriteBufIdx][Copied + 1] = PacketsBefore + Copied + 1
  <2>1. PacketsBefore = TotalData - RemainingData
    BY <1>1 DEF PacketsBefore, TestInv, TestTypeOK
  <2>2. Mem' = [Mem EXCEPT ![WriteBufIdx][Copied + 1] = PacketsBefore + Copied + 1]
    BY <1>1, <2>1 DEF CopyPacket
  <2>3. Mem \in [Bufs -> [1 .. MaxFill -> Nat]] /\ Copied \in Nat
    BY RowCounts DEF TestInv, TestTypeOK, PgTypeOK
  <2>4. Mem' = [Mem EXCEPT ![WriteBufIdx] =
                  [Mem[WriteBufIdx] EXCEPT ![Copied + 1] = PacketsBefore + Copied + 1]]
    BY <2>2
  <2>5. Mem'[WriteBufIdx]
          = [Mem[WriteBufIdx] EXCEPT ![Copied + 1] = PacketsBefore + Copied + 1]
    BY <1>2, <2>3, <2>4
  <2>6. \A b \in Bufs : b # WriteBufIdx => Mem'[b] = Mem[b]
    BY <1>2, <2>3, <2>4
  <2>7. Mem[WriteBufIdx] \in [1 .. MaxFill -> Nat]
    BY <1>2, <2>3
  <2> QED
    BY <1>2, <2>3, <2>5, <2>6, <2>7
<1>4. /\ RowsHeld' = RowsHeld /\ RowsHandedOver' = RowsHandedOver
      /\ PacketsBefore' = PacketsBefore
  BY <1>1 DEF RowsHeld, RowsHandedOver, HandedOver, PacketsBefore
<1>5. RowsAccounted'
  BY <1>1, <1>4 DEF TestInv, DataAgrees, RowsAccounted
<1>6. HeldRows'
  <2>1. RowsHeld > 0 => Buf \in Bufs /\ Buf # WriteBufIdx
    BY DEF RowsHeld, BuffersApart, TestInv, ControlAgrees
  <2>2. ASSUME NEW i \in 1 .. RowsHeld
        PROVE  Buf \in Bufs /\ Mem'[Buf] = Mem[Buf]
    BY <1>3, <2>1, RowCounts
  <2> QED
    BY <1>1, <1>4, <2>2 DEF TestInv, DataAgrees, HeldRows
<1>7. HandedOverRows'
  <2>1. RowsHandedOver > 0 => ReadBufIdx \in Bufs /\ ReadBufIdx # WriteBufIdx
    BY DEF RowsHandedOver, BuffersApart, TestInv, TestTypeOK, TypeOK
  <2>2. ASSUME NEW i \in 1 .. RowsHandedOver
        PROVE  Mem'[ReadBufIdx] = Mem[ReadBufIdx]
    BY <1>3, <2>1, RowCounts
  <2> QED
    BY <1>1, <1>4, <2>2 DEF TestInv, DataAgrees, HandedOverRows
<1>8. PendingRows'
  <2>1. \A i \in 1 .. Copied : Mem[WriteBufIdx][i] = PacketsBefore + i
    BY <1>1 DEF TestInv, DataAgrees, PendingRows, ChunkPending
  <2>2. \A i \in 1 .. Copied + 1 : i \in 1 .. Copied \/ i = Copied + 1
    BY RowCounts
  <2>3. ASSUME NEW i \in 1 .. Copied + 1
        PROVE  Mem'[WriteBufIdx][i] = PacketsBefore + i
    <3>1. CASE i \in 1 .. Copied
      BY <1>3, <2>1, <3>1
    <3>2. CASE i = Copied + 1
      <4>1. PacketsBefore + Copied + 1 = PacketsBefore + i
        BY <3>2, RowCounts
      <4> QED
        BY <1>3, <3>2, <4>1
    <3> QED
      BY <2>2, <3>1, <3>2
  <2> QED
    BY <1>1, <1>4, <2>3 DEF PendingRows
<1> QED
  BY <1>5, <1>6, <1>7, <1>8 DEF DataAgrees

(* The chunk handed over moves from the current round to the earlier ones. *)
LEMMA DataGotWriteBuffer ==
  ASSUME TestInv, GotWriteBuffer
  PROVE  DataAgrees'
<1>1. /\ UNCHANGED <<Mem, Pos, passed, ItemCount, RowsProcessed, pgpc, rpc, wpc,
                     ReadEventFd, WriteBufIdx, ReadBufIdx, Buf>>
      /\ mbpc = "getting" /\ mbpc' = "loop" /\ wpc = "ready"
      /\ RemainingData' = RemainingData - MaxFill /\ RemainingData > 0
      /\ RemainingData <= TotalData
  BY DEF GotWriteBuffer, pipeVars, pgVars, rowVars, TestInv, ControlAgrees
<1>2. RowsHeld' = RowsHeld /\ RowsHandedOver' = RowsHandedOver
  BY <1>1 DEF RowsHeld, RowsHandedOver, HandedOver
<1>3. PacketsBefore' = PacketsBefore + ChunkSize
  BY <1>1, MaxFillAssumption, TotalDataAssumption
     DEF PacketsBefore, ChunkSize, TestInv, TestTypeOK
<1>4. RowsAccounted'
  <2>1. ~ChunkPending
    BY <1>1 DEF ChunkPending
  <2> QED
    BY <1>1, <1>2, <1>3, <2>1, RowCounts DEF TestInv, DataAgrees, RowsAccounted
<1>5. HeldRows' /\ HandedOverRows'
  BY <1>1, <1>2 DEF TestInv, DataAgrees, HeldRows, HandedOverRows
<1> QED
  BY <1>1, <1>4, <1>5 DEF DataAgrees, PendingRows, ChunkPending

(* Storing the index is the moment of the hand-over: the pending chunk     *)
(* becomes the buffer that is handed over.                                 *)
LEMMA DataStoreWriteBufIdx ==
  ASSUME TestInv, BuffersApart, MbPipeStep, StoreWriteBufIdx
  PROVE  DataAgrees'
<1>1. /\ UNCHANGED <<Mem, Pos, passed, ItemCount, RowsProcessed, pgpc, rpc,
                     ReadEventFd, ReadBufIdx, Buf, RemainingData, mbpc, Copied>>
      /\ wpc = "store" /\ wpc' = "count"
  BY DEF MbPipeStep, StoreWriteBufIdx, pgVars, rowVars, mbVars, readerVars
<1>2. /\ mbpc = "getting" /\ ChunkPending /\ ~ChunkPending'
      /\ Copied = ChunkSize /\ Pos[WriteBufIdx] = ChunkSize
  BY <1>1 DEF TestInv, ControlAgrees, ChunkPending
<1>3. ~HandedOver /\ HandedOver' /\ ReadBufIdx = WriteBufIdx
  BY <1>1 DEF HandedOver, BuffersApart, TestInv, PipeInv, SinglePermission,
     WriterInTransit, ReaderInTransit
<1>4. RowsHandedOver = 0 /\ RowsHandedOver' = ChunkSize
  BY <1>1, <1>2, <1>3 DEF RowsHandedOver
<1>5. /\ RowsHeld' = RowsHeld /\ PacketsBefore' = PacketsBefore /\ ChunkSize' = ChunkSize
  BY <1>1 DEF RowsHeld, PacketsBefore, ChunkSize
<1>6. passed + RowsHeld = PacketsBefore
  BY <1>2, <1>4, RowCounts DEF TestInv, DataAgrees, RowsAccounted
<1>7. RowsAccounted'
  BY <1>1, <1>2, <1>4, <1>5, <1>6, RowCounts DEF RowsAccounted
<1>8. HeldRows'
  BY <1>1, <1>5 DEF TestInv, DataAgrees, HeldRows
<1>9. HandedOverRows'
  BY <1>1, <1>2, <1>3, <1>4, <1>5, <1>6
     DEF TestInv, DataAgrees, PendingRows, HandedOverRows
<1> QED
  BY <1>2, <1>7, <1>8, <1>9 DEF DataAgrees, PendingRows

(* The buffer that is emptied for the next chunk is no buffer of the       *)
(* reader's, and nothing is pending.                                       *)
LEMMA DataFreeWriteBuffer ==
  ASSUME TestInv, BuffersApart, MbPipeStep, FreeWriteBuffer
  PROVE  DataAgrees'
<1>1. /\ UNCHANGED <<Mem, passed, ItemCount, RowsProcessed, pgpc, rpc, ReadEventFd,
                     WriteBufIdx, ReadBufIdx, Buf, RemainingData, mbpc, Copied>>
      /\ wpc = "free" /\ wpc' = "ready" /\ Pos' = [Pos EXCEPT ![NextWriteBuf] = 0]
  BY DEF MbPipeStep, FreeWriteBuffer, pgVars, rowVars, mbVars, ringVars, readerVars
<1>2. /\ NextWriteBuf = WriteBufIdx /\ mbpc = "getting"
      /\ ReadBufIdx \in Bufs /\ Buf \in Bufs \cup {NoBuf} /\ Pos \in [Bufs -> 0 .. MaxFill]
  BY <1>1 DEF TestInv, TestTypeOK, PipeInv, TypeOK, LocalsAgree, ControlAgrees
<1>3. ~ChunkPending /\ ~ChunkPending' /\ HandedOver' = HandedOver
  BY <1>1, <1>2 DEF ChunkPending, HandedOver
<1>4. HandedOver => Pos'[ReadBufIdx] = Pos[ReadBufIdx]
  BY <1>1, <1>2 DEF BuffersApart
<1>5. Buf # NoBuf => Pos'[Buf] = Pos[Buf]
  BY <1>1, <1>2 DEF BuffersApart
<1>6. RowsHeld' = RowsHeld /\ RowsHandedOver' = RowsHandedOver
  BY <1>1, <1>3, <1>4, <1>5 DEF RowsHeld, RowsHandedOver
<1>7. PacketsBefore' = PacketsBefore /\ ChunkSize' = ChunkSize
  BY <1>1 DEF PacketsBefore, ChunkSize
<1>8. RowsAccounted' /\ HeldRows' /\ HandedOverRows'
  BY <1>1, <1>3, <1>6, <1>7 DEF TestInv, DataAgrees, RowsAccounted, HeldRows, HandedOverRows
<1> QED
  BY <1>3, <1>8 DEF DataAgrees, PendingRows

(* The reader's step of taking the buffer: it moves from handed over to    *)
(* held.                                                                   *)
LEMMA DataTakeReadBuffer ==
  ASSUME TestInv, BuffersApart, PgPipeStep, TakeReadBuffer, UNCHANGED mbVars
  PROVE  DataAgrees'
<1>1. /\ UNCHANGED <<Mem, Pos, passed, ItemCount, RowsProcessed, pgpc, wpc,
                     ReadEventFd, WriteBufIdx, RemainingData, mbpc, Copied>>
      /\ rpc = "take" /\ rpc' = "count" /\ Buf = NoBuf /\ Buf' = ReadBufIdx
      /\ ReadBufIdx \in Bufs /\ pgpc = "getting"
  BY DEF PgPipeStep, TakeReadBuffer, pgVars, rowVars, mbVars, writerVars, TestInv, TestTypeOK, TypeOK,
     PipeInv, LocalsAgree, ControlAgrees
<1>2. HandedOver /\ ~HandedOver'
  BY <1>1 DEF HandedOver, TestInv, PipeInv, SinglePermission, WriterInTransit,
     ReaderInTransit, TestTypeOK, TypeOK
<1>3. RowsHeld = 0 /\ RowsHeld' = Pos[ReadBufIdx]
  BY <1>1 DEF RowsHeld, Bufs, NoBuf
<1>4. RowsHandedOver = Pos[ReadBufIdx] /\ RowsHandedOver' = 0
  BY <1>1, <1>2 DEF RowsHandedOver
<1>5. ChunkPending' = ChunkPending /\ PacketsBefore' = PacketsBefore /\ ChunkSize' = ChunkSize
  BY <1>1 DEF ChunkPending, PacketsBefore, ChunkSize
<1>6. RowsAccounted'
  BY <1>1, <1>3, <1>4, <1>5, RowCounts DEF TestInv, DataAgrees, RowsAccounted
<1>7. HeldRows'
  <2>1. \A i \in 1 .. RowsHandedOver : Mem[ReadBufIdx][i] = passed + RowsHeld + i
    BY DEF TestInv, DataAgrees, HandedOverRows
  <2>2. RowsHandedOver \in Nat /\ passed \in Nat
    BY RowCounts, MaxFillAssumption
  <2>3. \A i \in 1 .. RowsHeld' : Mem[ReadBufIdx][0 + i] = passed + i
    BY <1>3, <1>4, <2>1, <2>2
  <2> QED
    BY <1>1, <2>3 DEF HeldRows
<1>8. HandedOverRows' /\ PendingRows'
  BY <1>1, <1>4, <1>5 DEF TestInv, DataAgrees, HandedOverRows, PendingRows
<1> QED
  BY <1>6, <1>7, <1>8 DEF DataAgrees

(* The rows held are the rows PgRun counts in the buffer it has taken.     *)
LEMMA DataCountItems ==
  ASSUME TestInv, PgCountItems, UNCHANGED mbVars
  PROVE  DataAgrees'
<1>1. /\ UNCHANGED <<Mem, Pos, passed, rpc, wpc, ReadEventFd, WriteBufIdx, ReadBufIdx,
                     Buf, RemainingData, mbpc, Copied>>
      /\ pgpc = "getting" /\ pgpc' = "insert" /\ Buf # NoBuf
      /\ ItemCount' = Pos[Buf] /\ RowsProcessed' = 0 /\ Pos[Buf] \in Nat
  BY MaxFillAssumption DEF PgCountItems, rowVars, pipeVars, mbVars, TestInv, TestTypeOK, TypeOK
<1>2. RowsHeld' = RowsHeld
  BY <1>1 DEF RowsHeld
<1>3. /\ RowsHandedOver' = RowsHandedOver /\ ChunkPending' = ChunkPending
      /\ PacketsBefore' = PacketsBefore /\ ChunkSize' = ChunkSize
  BY <1>1 DEF RowsHandedOver, HandedOver, ChunkPending, PacketsBefore, ChunkSize
<1>4. RowsAccounted' /\ HandedOverRows' /\ PendingRows'
  BY <1>1, <1>2, <1>3
     DEF TestInv, DataAgrees, RowsAccounted, HandedOverRows, PendingRows
<1>5. HeldRows'
  BY <1>1, <1>2 DEF TestInv, DataAgrees, HeldRows
<1> QED
  BY <1>4, <1>5 DEF DataAgrees

(* One more row is read: it is the next packet.                            *)
LEMMA DataConvertRow ==
  ASSUME TestInv, PgConvertRow, UNCHANGED mbVars
  PROVE  /\ DataAgrees' /\ RowsInOrder' /\ passed' = passed + 1 /\ lost' = lost
         /\ consumed' = Append(consumed, passed + 1)
<1>1. /\ UNCHANGED <<Mem, Pos, rpc, wpc, ReadEventFd, WriteBufIdx, ReadBufIdx, pgpc,
                     Buf, RemainingData, mbpc, Copied, ItemCount>>
      /\ pgpc = "insert" /\ RowsProcessed < ItemCount
      /\ RowsProcessed' = RowsProcessed + 1 /\ RowsProcessed \in Nat /\ ItemCount \in Nat
  BY MaxFillAssumption DEF PgConvertRow, pipeVars, mbVars, TestInv, TestTypeOK, PgTypeOK
<1>2. RowsHeld = ItemCount - RowsProcessed /\ RowsHeld' = RowsHeld - 1 /\ RowsHeld >= 1
  BY <1>1 DEF RowsHeld
<1>3. Mem[Buf][RowsProcessed + 1] = passed + 1
  <2>1. \A i \in 1 .. RowsHeld : Mem[Buf][RowsProcessed + i] = passed + i
    BY <1>1 DEF TestInv, DataAgrees, HeldRows
  <2>2. 1 \in 1 .. RowsHeld
    BY <1>2, RowCounts
  <2> QED
    BY <2>1, <2>2
<1>4. consumed' = Append(consumed, passed + 1) /\ lost' = lost
  BY <1>3 DEF PgConvertRow
<1>5. passed' = passed + 1 /\ passed \in Nat
  BY RowCounts DEF PgConvertRow
<1>6. RowsInOrder'
  BY <1>4, <1>5, NextRowInOrder DEF TestInv, TestTypeOK, PgTypeOK
<1>7. /\ RowsHandedOver' = RowsHandedOver /\ ChunkPending' = ChunkPending
      /\ PacketsBefore' = PacketsBefore /\ ChunkSize' = ChunkSize
  BY <1>1 DEF RowsHandedOver, HandedOver, ChunkPending, PacketsBefore, ChunkSize
<1>8. RowsAccounted'
  BY <1>1, <1>2, <1>5, <1>7, RowCounts DEF TestInv, DataAgrees, RowsAccounted
<1>9. HeldRows'
  <2>1. \A i \in 1 .. RowsHeld : Mem[Buf][RowsProcessed + i] = passed + i
    BY <1>1 DEF TestInv, DataAgrees, HeldRows
  <2>2. ASSUME NEW i \in 1 .. RowsHeld - 1
        PROVE  Mem[Buf][RowsProcessed + 1 + i] = passed + 1 + i
    <3>1. i + 1 \in 1 .. RowsHeld
      BY RowCounts
    <3>2. Mem[Buf][RowsProcessed + (i + 1)] = passed + (i + 1)
      BY <2>1, <3>1
    <3>3. RowsProcessed + (i + 1) = RowsProcessed + 1 + i
      BY <1>1
    <3> QED
      BY <3>2, <3>3, RowCounts
  <2> QED
    BY <1>1, <1>2, <1>5, <2>2 DEF HeldRows
<1>10. HandedOverRows'
  BY <1>1, <1>2, <1>5, <1>7, RowCounts DEF TestInv, DataAgrees, HandedOverRows
<1>11. PendingRows'
  BY <1>1, <1>7 DEF TestInv, DataAgrees, PendingRows
<1> QED
  BY <1>4, <1>5, <1>6, <1>8, <1>9, <1>10, <1>11 DEF DataAgrees

(* When the insertion returns every row of the buffer has been read.       *)
LEMMA DataInsertReturns ==
  ASSUME TestInv, NEW ok \in BOOLEAN, PgInsertReturns(ok), UNCHANGED mbVars
  PROVE  DataAgrees'
<1>1. /\ UNCHANGED <<Mem, Pos, passed, rpc, wpc, ReadEventFd, WriteBufIdx, ReadBufIdx,
                     Buf, RemainingData, mbpc, Copied>>
      /\ pgpc = "insert" /\ pgpc' \in {"loop", "inner"} /\ RowsProcessed = ItemCount
      /\ ItemCount \in Nat
  BY MaxFillAssumption
     DEF PgInsertReturns, PgAfterInsert, rowVars, pipeVars, mbVars, TestInv, TestTypeOK, PgTypeOK
<1>2. RowsHeld = 0 /\ RowsHeld' = 0
  BY <1>1 DEF RowsHeld
<1>3. /\ RowsHandedOver' = RowsHandedOver /\ ChunkPending' = ChunkPending
      /\ PacketsBefore' = PacketsBefore /\ ChunkSize' = ChunkSize
  BY <1>1 DEF RowsHandedOver, HandedOver, ChunkPending, PacketsBefore, ChunkSize
<1>4. RowsAccounted' /\ HandedOverRows' /\ PendingRows'
  BY <1>1, <1>2, <1>3
     DEF TestInv, DataAgrees, RowsAccounted, HandedOverRows, PendingRows
<1> QED
  BY <1>2, <1>4 DEF DataAgrees, HeldRows

(* A buffer that is given up holds the next packets.                       *)
LEMMA DataGivesUp ==
  ASSUME TestInv, NEW ok \in BOOLEAN, PgInsertGivesUp(ok), UNCHANGED mbVars
  PROVE  /\ DataAgrees' /\ RowsInOrder' /\ ItemCount \in 0 .. MaxFill /\ RowsHeld = ItemCount
         /\ passed' = passed + ItemCount /\ consumed' = consumed
         /\ lost' = lost \cup (passed + 1 .. passed + ItemCount)
<1>1. /\ UNCHANGED <<Mem, Pos, consumed, rpc, wpc, ReadEventFd, WriteBufIdx, ReadBufIdx,
                     Buf, RemainingData, mbpc, Copied>>
      /\ pgpc = "insert" /\ pgpc' \in {"loop", "inner"} /\ RowsProcessed = 0
      /\ passed' = passed + ItemCount
      /\ lost' = lost \cup {Mem[Buf][i] : i \in 1 .. ItemCount}
  BY DEF PgInsertGivesUp, PgAfterInsert, pipeVars, mbVars
<1>2. ItemCount \in 0 .. MaxFill /\ ItemCount \in Nat /\ passed \in Nat
  BY RowCounts, MaxFillAssumption DEF TestInv, TestTypeOK, PgTypeOK
<1>3. RowsHeld = ItemCount /\ RowsHeld' = 0
  BY <1>1, <1>2 DEF RowsHeld
<1>4. \A i \in 1 .. ItemCount : Mem[Buf][i] = passed + i
  <2>1. \A i \in 1 .. ItemCount : Mem[Buf][0 + i] = passed + i
    BY <1>1, <1>3 DEF TestInv, DataAgrees, HeldRows
  <2> QED
    BY <1>2, <2>1
<1>5. {Mem[Buf][i] : i \in 1 .. ItemCount} = passed + 1 .. passed + ItemCount
  <2>1. ASSUME NEW k \in passed + 1 .. passed + ItemCount
        PROVE  k \in {Mem[Buf][i] : i \in 1 .. ItemCount}
    <3>1. k - passed \in 1 .. ItemCount /\ passed + (k - passed) = k
      BY <1>2
    <3> QED
      BY <1>4, <3>1
  <2>2. ASSUME NEW i \in 1 .. ItemCount
        PROVE  Mem[Buf][i] \in passed + 1 .. passed + ItemCount
    BY <1>2, <1>4
  <2> QED
    BY <2>1, <2>2
<1>6. lost' = lost \cup (passed + 1 .. passed + ItemCount)
  BY <1>1, <1>5
<1>7. RowsInOrder'
  BY <1>1, <1>2, <1>6, LostRowsInOrder DEF TestInv
<1>8. /\ RowsHandedOver' = RowsHandedOver /\ ChunkPending' = ChunkPending
      /\ PacketsBefore' = PacketsBefore /\ ChunkSize' = ChunkSize
  BY <1>1 DEF RowsHandedOver, HandedOver, ChunkPending, PacketsBefore, ChunkSize
<1>9. RowsAccounted'
  BY <1>1, <1>2, <1>3, <1>8, RowCounts DEF TestInv, DataAgrees, RowsAccounted
<1>10. HandedOverRows'
  <2>1. \A i \in 1 .. RowsHandedOver : Mem[ReadBufIdx][i] = passed + ItemCount + i
    BY <1>3 DEF TestInv, DataAgrees, HandedOverRows
  <2>2. \A i \in 1 .. RowsHandedOver : passed + ItemCount + 0 + i = passed + ItemCount + i
    BY <1>2, RowCounts
  <2> QED
    BY <1>1, <1>3, <1>8, <2>1, <2>2 DEF HandedOverRows
<1>11. HeldRows' /\ PendingRows'
  BY <1>1, <1>3, <1>8 DEF TestInv, DataAgrees, HeldRows, PendingRows
<1> QED
  BY <1>1, <1>2, <1>3, <1>6, <1>7, <1>9, <1>10, <1>11 DEF DataAgrees

(* PgRun's loop and epoll_wait leave the buffers alone and no row is held. *)
LEMMA DataPgLoop ==
  ASSUME TestInv, PgLoopTest \/ EpollReady \/ EpollInterrupted \/ EpollTimeout, UNCHANGED mbVars
  PROVE  DataAgrees'
<1>1. /\ UNCHANGED <<Mem, Pos, passed, rpc, wpc, ReadEventFd, WriteBufIdx, ReadBufIdx,
                     Buf, RemainingData, mbpc, Copied>>
      /\ pgpc \in {"loop", "epoll"} /\ pgpc' \in {"loop", "epoll", "exit", "inner"}
  BY DEF PgLoopTest, EpollReady, EpollInterrupted, EpollTimeout, rowVars, pipeVars, mbVars
<1>2. RowsHeld = 0 /\ RowsHeld' = 0
  BY <1>1 DEF RowsHeld
<1>3. /\ RowsHandedOver' = RowsHandedOver /\ ChunkPending' = ChunkPending
      /\ PacketsBefore' = PacketsBefore /\ ChunkSize' = ChunkSize
  BY <1>1 DEF RowsHandedOver, HandedOver, ChunkPending, PacketsBefore, ChunkSize
<1>4. RowsAccounted' /\ HandedOverRows' /\ PendingRows'
  BY <1>1, <1>2, <1>3
     DEF TestInv, DataAgrees, RowsAccounted, HandedOverRows, PendingRows
<1> QED
  BY <1>2, <1>4 DEF DataAgrees, HeldRows

LEMMA DataStays ==
  ASSUME DataAgrees, UNCHANGED vars
  PROVE  DataAgrees'
<1>1. UNCHANGED <<Mem, Pos, passed, ItemCount, RowsProcessed, pgpc, rpc, wpc, ReadEventFd,
                  WriteBufIdx, ReadBufIdx, Buf, RemainingData, mbpc, Copied>>
  BY DEF vars, pgVars, rowVars, mbVars, pipeVars
<1>2. /\ RowsHeld' = RowsHeld /\ RowsHandedOver' = RowsHandedOver
      /\ ChunkPending' = ChunkPending /\ PacketsBefore' = PacketsBefore /\ ChunkSize' = ChunkSize
  BY <1>1 DEF RowsHeld, RowsHandedOver, HandedOver, ChunkPending, PacketsBefore, ChunkSize
<1>3. RowsAccounted'
  BY <1>1, <1>2 DEF DataAgrees, RowsAccounted
<1>4. HeldRows'
  BY <1>1, <1>2 DEF DataAgrees, HeldRows
<1>5. HandedOverRows'
  BY <1>1, <1>2 DEF DataAgrees, HandedOverRows
<1>6. PendingRows'
  BY <1>1, <1>2 DEF DataAgrees, PendingRows
<1> QED
  BY <1>3, <1>4, <1>5, <1>6 DEF DataAgrees

(* The three buffers keep holding the next rows in order.                  *)
LEMMA TestStepData ==
  ASSUME BufCount >= 3, TestInv, [TestNext]_vars
  PROVE  DataAgrees'
<1>1. TestTypeOK'
  BY TestStepTypes
<1>2. BuffersApart
  BY BufferRoles DEF TestInv
<1> USE <1>1, <1>2, MaxFillAssumption, TotalDataAssumption
    DEF TestInv, TestTypeOK, PgTypeOK, PipeInv, TypeOK, BuffersApart, pgVars, rowVars, mbVars,
        ringVars, writerVars, readerVars, SinglePermission, WriterInTransit,
        ReaderInTransit, LocalsAgree, ControlAgrees, ChunkPending, ChunkSize, HandedOver,
        DataAgrees, RowsAccounted, HeldRows, HandedOverRows, PendingRows, RowsHeld,
        RowsHandedOver, PacketsBefore
<1>3. CASE AllocChunk
  BY <1>3, DataAllocChunk
<1>4. CASE CopyPacket
  BY <1>4, DataCopyPacket
<1>5. CASE HandOver
  BY <1>5 DEF HandOver, GetWriteBuffer
<1>6. CASE GotWriteBuffer
  BY <1>6, DataGotWriteBuffer
<1>7. CASE FinalFlush
  BY <1>7 DEF FinalFlush, Flush
<1>8. CASE Finish
  BY <1>8 DEF Finish, pipeVars
<1>9. CASE MbPipeStep /\ DrainWriteEvent
  BY <1>9 DEF MbPipeStep, DrainWriteEvent
<1>10. CASE MbPipeStep /\ StoreWriteBufIdx
  BY <1>10, DataStoreWriteBufIdx
<1>11. CASE MbPipeStep /\ CountFull
  BY <1>11 DEF MbPipeStep, CountFull
<1>12. CASE MbPipeStep /\ SignalReader
  BY <1>12 DEF MbPipeStep, SignalReader
<1>13. CASE MbPipeStep /\ FreeWriteBuffer
  BY <1>13, DataFreeWriteBuffer
<1>14. CASE PgLoopTest /\ UNCHANGED mbVars
  BY <1>14, DataPgLoop
<1>15. CASE EpollReady /\ UNCHANGED mbVars
  BY <1>15, DataPgLoop
<1>16. CASE EpollInterrupted /\ UNCHANGED mbVars
  BY <1>16, DataPgLoop
<1>17. CASE EpollTimeout /\ UNCHANGED mbVars
  BY <1>17, DataPgLoop
<1>18. CASE PgGetReadBuffer /\ UNCHANGED mbVars
  BY <1>18 DEF PgGetReadBuffer, GetReadBuffer, pipeVars
<1>19. CASE PgCountItems /\ UNCHANGED mbVars
  BY <1>19, DataCountItems
<1>20. CASE PgConvertRow /\ UNCHANGED mbVars
  BY <1>20, DataConvertRow
<1>21. CASE PgExit /\ UNCHANGED mbVars
  BY <1>21 DEF PgExit, pipeVars
<1>22. CASE PgPipeStep /\ DrainReadEvent /\ UNCHANGED mbVars
  BY <1>22 DEF PgPipeStep, DrainReadEvent
<1>23. CASE PgPipeStep /\ TakeReadBuffer /\ UNCHANGED mbVars
  BY <1>23, DataTakeReadBuffer
<1>24. CASE PgPipeStep /\ CountTaken /\ UNCHANGED mbVars
  BY <1>24 DEF PgPipeStep, CountTaken
<1>25. CASE PgPipeStep /\ SignalWriter /\ UNCHANGED mbVars
  BY <1>25 DEF PgPipeStep, SignalWriter
<1>26. ASSUME NEW ok \in BOOLEAN, PgInsertReturns(ok), UNCHANGED mbVars
      PROVE  DataAgrees'
  BY <1>26, DataInsertReturns
<1>27. CASE UNCHANGED vars
  BY <1>27, DataStays DEF TestInv
<1>28. ASSUME NEW ok \in BOOLEAN, PgInsertGivesUp(ok), UNCHANGED mbVars
      PROVE  DataAgrees'
  BY <1>28, DataGivesUp
<1> QED
  BY <1>3, <1>4, <1>5, <1>6, <1>7, <1>8, <1>9, <1>10, <1>11, <1>12, <1>13, <1>14, <1>15, <1>16, <1>17, <1>18, <1>19, <1>20, <1>21, <1>22, <1>23, <1>24, <1>25, <1>26, <1>27, <1>28
     DEF TestNext, MbStep, MbPipeStep, WriterStep, PgNext, PgStep, PgPipeStep, ReaderStep

-----------------------------------------------------------------------------
(* Only PgConvertRow and PgInsertGivesUp touch the histories of the rows.  *)
LEMMA RowsUnchanged ==
  ASSUME [TestNext]_vars, ~(PgConvertRow /\ UNCHANGED mbVars),
         \A ok \in BOOLEAN : ~(PgInsertGivesUp(ok) /\ UNCHANGED mbVars)
  PROVE  UNCHANGED <<consumed, lost, passed>>
<1>1. CASE MbStep
  BY <1>1 DEF MbStep, AllocChunk, CopyPacket, HandOver, MbPipeStep, GotWriteBuffer,
     FinalFlush, Finish, pgVars, rowVars
<1>2. CASE PgNext /\ UNCHANGED mbVars
  BY <1>2 DEF PgNext, PgStep, PgLoopTest, EpollReady, EpollInterrupted, EpollTimeout,
     PgGetReadBuffer, PgPipeStep, PgCountItems, PgInsertReturns, PgExit, pgVars, rowVars
<1>3. CASE UNCHANGED vars
  BY <1>3 DEF vars, pgVars, rowVars
<1> QED
  BY <1>1, <1>2, <1>3 DEF TestNext

(* Every step of the test keeps the whole invariant.                       *)
LEMMA TestStepInv ==
  ASSUME BufCount >= 3, TestInv, [TestNext]_vars
  PROVE  TestInv'
<1>1. PipeInv'
  BY TestStepIsPipeStep, PipeStep DEF TestInv
<1>2. RowsInOrder'
  <2>1. CASE PgConvertRow /\ UNCHANGED mbVars
    BY <2>1, DataConvertRow
  <2>2. ASSUME NEW ok \in BOOLEAN, PgInsertGivesUp(ok), UNCHANGED mbVars
        PROVE  RowsInOrder'
    BY <2>2, DataGivesUp
  <2>3. CASE UNCHANGED <<consumed, lost, passed>>
    BY <2>3 DEF TestInv, RowsInOrder, RowsRead
  <2> QED
    BY <2>1, <2>2, <2>3, RowsUnchanged
<1> QED
  BY <1>1, <1>2, TestStepTypes, TestStepControl, TestStepData DEF TestInv

(* The invariant of the throughput test: pipe, threads and contents of the *)
(* buffers agree in every reachable state.                                 *)
THEOREM TestInvariant ==
  ASSUME BufCount >= 3
  PROVE  TestSpec => []TestInv
<1>1. TestInv /\ [TestNext]_vars => TestInv'
  BY TestStepInv
<1> QED
  BY <1>1, TestInitInv, PTL DEF TestSpec

(* PgInsertData reads packets of the file in order, none twice, and the    *)
(* ones it never reads are those of the buffers it gave up before their    *)
(* first row, for every number of buffers from three on.                   *)
THEOREM RowsDeliveredInOrder ==
  ASSUME BufCount >= 3
  PROVE  TestSpec => []RowsInOrder
<1>1. TestInv => RowsInOrder
  BY DEF TestInv
<1> QED
  BY <1>1, TestInvariant, PTL

-----------------------------------------------------------------------------
(* The number of packets written so far, as the abstract channel sees it.  *)
PacketsSent == PacketsBefore + (IF mbpc \in {"copy", "getting"} THEN Copied ELSE 0)

(* No more than three buffers' worth of packets are between the threads.   *)
LEMMA InFlightBound ==
  ASSUME TestInv
  PROVE  /\ PacketsSent \in Nat /\ PacketsSent <= TotalData
         /\ passed + RowsHeld <= PacketsSent
         /\ CopyPacket => PacketsSent - passed < 3 * MaxFill /\ PacketsSent < TotalData
<1> USE RowCounts, MaxFillAssumption, TotalDataAssumption
<1>1. mbpc \in {"copy", "getting"} => /\ RemainingData > 0 /\ Copied <= ChunkSize
                                      /\ PacketsBefore = TotalData - RemainingData
                                      /\ ChunkSize <= RemainingData
                                      /\ ChunkSize <= MaxFill
  BY DEF TestInv, TestTypeOK, ControlAgrees, PacketsBefore, ChunkSize
<1>2. PacketsBefore <= TotalData
  BY DEF PacketsBefore, TestInv, TestTypeOK
<1>3. PacketsSent \in Nat /\ PacketsSent <= TotalData
  BY <1>1, <1>2 DEF PacketsSent, TestInv, TestTypeOK
<1>4. passed + RowsHeld <= PacketsSent
  <2>1. CASE mbpc = "getting"
    BY <1>1, <2>1 DEF TestInv, ControlAgrees, DataAgrees, RowsAccounted, PacketsSent
  <2>2. CASE mbpc # "getting"
    BY <2>2 DEF TestInv, DataAgrees, RowsAccounted, PacketsSent
  <2> QED
    BY <2>1, <2>2
<1>5. ASSUME CopyPacket
      PROVE  PacketsSent - passed < 3 * MaxFill /\ PacketsSent < TotalData
  <2>1. mbpc = "copy" /\ Copied < ChunkSize
    BY <1>5 DEF CopyPacket
  <2>2. passed + RowsHeld + RowsHandedOver = PacketsBefore
    BY <2>1 DEF TestInv, DataAgrees, RowsAccounted
  <2> QED
    BY <1>1, <2>1, <2>2 DEF PacketsSent, TestInv, TestTypeOK
<1> QED
  BY <1>3, <1>4, <1>5

(* Every step of the test is a step of the channel or leaves it alone.     *)
LEMMA TestStepIsFifoStep ==
  ASSUME TestInv, TestInv', [TestNext]_vars
  PROVE  [Fifo!FifoNext]_Fifo!fifoVars
<1> DEFINE Stopped == pgpc \in {"exit", "done"}
<1>0. /\ Fifo!Send <=> /\ PacketsSent < TotalData
                        /\ PacketsSent - passed < 3 * MaxFill
                        /\ PacketsSent' = PacketsSent + 1
                        /\ UNCHANGED <<consumed, lost, passed>> /\ Stopped' = Stopped
      /\ Fifo!Deliver <=> /\ ~Stopped
                           /\ passed < PacketsSent
                           /\ passed' = passed + 1
                           /\ consumed' = Append(consumed, passed + 1)
                           /\ PacketsSent' = PacketsSent
                           /\ lost' = lost /\ Stopped' = Stopped
      /\ \A n \in 1 .. MaxFill :
           Fifo!Discard(n) <=> /\ ~Stopped
                               /\ passed + n <= PacketsSent
                               /\ passed' = passed + n
                               /\ lost' = lost \cup (passed + 1 .. passed + n)
                               /\ PacketsSent' = PacketsSent
                               /\ consumed' = consumed /\ Stopped' = Stopped
      /\ Fifo!Stop <=> /\ ~Stopped /\ Stopped' = TRUE
                        /\ PacketsSent' = PacketsSent
                        /\ UNCHANGED <<consumed, lost, passed>>
      /\ UNCHANGED Fifo!fifoVars <=>
           /\ PacketsSent' = PacketsSent /\ Stopped' = Stopped
           /\ UNCHANGED <<consumed, lost, passed>>
  BY DEF Fifo!Send, Fifo!Deliver, Fifo!Discard, Fifo!Stop, Fifo!fifoVars, PacketsSent
<1>1. CASE CopyPacket
  <2>1. PacketsSent' = PacketsSent + 1
    BY <1>1, RowCounts DEF CopyPacket, PacketsSent, PacketsBefore
  <2>2. UNCHANGED <<consumed, lost, passed>> /\ Stopped' = Stopped
    BY <1>1 DEF CopyPacket, pgVars, rowVars
  <2> QED
    BY <1>0, <1>1, <2>1, <2>2, InFlightBound DEF Fifo!FifoNext
<1>2. CASE MbStep /\ ~CopyPacket
  <2>1. UNCHANGED <<consumed, lost, passed>> /\ Stopped' = Stopped
    BY <1>2 DEF MbStep, AllocChunk, HandOver, MbPipeStep, GotWriteBuffer, FinalFlush,
       Finish, pgVars, rowVars
  <2>2. PacketsSent' = PacketsSent
    <3>1. CASE AllocChunk
      BY <3>1, RowCounts DEF AllocChunk, PacketsSent, PacketsBefore
    <3>2. CASE GotWriteBuffer
      <4>1. /\ RemainingData > 0 /\ RemainingData <= TotalData
            /\ Copied = ChunkSize /\ mbpc = "getting" /\ mbpc' = "loop"
            /\ RemainingData' = RemainingData - MaxFill /\ RemainingData \in Int
        BY <3>2 DEF GotWriteBuffer, TestInv, TestTypeOK, ControlAgrees
      <4> QED
        BY <4>1, MaxFillAssumption, TotalDataAssumption
           DEF PacketsSent, PacketsBefore, ChunkSize
    <3>3. CASE HandOver \/ MbPipeStep \/ FinalFlush \/ Finish
      BY <3>3 DEF HandOver, MbPipeStep, FinalFlush, Finish, mbVars, PacketsSent, PacketsBefore
    <3> QED
      BY <1>2, <3>1, <3>2, <3>3 DEF MbStep
  <2> QED
    BY <1>0, <2>1, <2>2
<1>3. CASE PgNext /\ UNCHANGED mbVars
  <2>0. PacketsSent' = PacketsSent
    BY <1>3 DEF mbVars, PacketsSent, PacketsBefore
  <2>1. CASE PgConvertRow
    <3>1. ~Stopped /\ Stopped' = Stopped /\ RowsHeld >= 1
      BY <2>1, RowCounts, MaxFillAssumption
         DEF PgConvertRow, RowsHeld, TestInv, TestTypeOK, PgTypeOK
    <3>2. passed < PacketsSent
      BY <3>1, RowCounts, InFlightBound
    <3> QED
      BY <1>0, <1>3, <2>0, <2>1, <3>1, <3>2, DataConvertRow
         DEF Fifo!FifoNext, Fifo!Receive
  <2>2. ASSUME NEW ok \in BOOLEAN, PgInsertGivesUp(ok)
        PROVE  [Fifo!FifoNext]_Fifo!fifoVars
    <3>1. ~Stopped /\ Stopped' = Stopped
      BY <2>2 DEF PgInsertGivesUp, PgAfterInsert
    <3>2. /\ ItemCount \in 0 .. MaxFill /\ RowsHeld = ItemCount
          /\ passed' = passed + ItemCount /\ consumed' = consumed
          /\ lost' = lost \cup (passed + 1 .. passed + ItemCount)
      BY <1>3, <2>2, DataGivesUp
    <3>3. CASE ItemCount = 0
      <4>1. UNCHANGED <<consumed, lost, passed>>
        BY <3>2, <3>3, RowCounts
      <4> QED
        BY <1>0, <2>0, <3>1, <4>1
    <3>4. CASE ItemCount # 0
      <4>1. ItemCount \in 1 .. MaxFill /\ passed + ItemCount <= PacketsSent
        BY <3>2, <3>4, MaxFillAssumption, InFlightBound
      <4> QED
        BY <1>0, <2>0, <3>1, <3>2, <4>1 DEF Fifo!FifoNext, Fifo!Receive
    <3> QED
      BY <3>3, <3>4
  <2>3. CASE UNCHANGED <<consumed, lost, passed>>
    <3>2. Stopped => Stopped'
      BY <1>3 DEF PgNext, PgStep, PgLoopTest, EpollReady, EpollInterrupted, EpollTimeout,
         PgGetReadBuffer, PgPipeStep, PgCountItems, PgConvertRow, PgInsertReturns,
         PgInsertGivesUp, PgAfterInsert, PgExit, pgVars
    <3>3. CASE Stopped' = Stopped
      BY <1>0, <2>0, <2>3, <3>3
    <3>4. CASE Stopped' # Stopped
      BY <1>0, <2>0, <2>3, <3>2, <3>4 DEF Fifo!FifoNext
    <3> QED
      BY <3>3, <3>4
  <2> QED
    BY <1>3, <2>1, <2>2, <2>3, RowsUnchanged
<1>4. CASE UNCHANGED vars
  BY <1>0, <1>4 DEF vars, pgVars, rowVars, mbVars, PacketsSent, PacketsBefore
<1> QED
  BY <1>1, <1>2, <1>3, <1>4 DEF TestNext

(* The throughput test implements the safety part of the abstract channel: *)
(* packets arrive in order or are discarded a batch at a time, and the     *)
(* writer is at most three buffers ahead, however many the pipe is given.  *)
THEOREM TestImplementsFifo ==
  ASSUME BufCount >= 3
  PROVE  TestSpec => Fifo!FifoSafety
<1>1. Init => Fifo!FifoInit
  BY TotalDataAssumption DEF Init, PgInit, Fifo!FifoInit, PacketsBefore
<1>2. TestInv /\ TestInv' /\ [TestNext]_vars => [Fifo!FifoNext]_Fifo!fifoVars
  BY TestStepIsFifoStep
<1> QED
  BY <1>1, <1>2, TestInvariant, PTL DEF TestSpec, Fifo!FifoSafety
=============================================================================
