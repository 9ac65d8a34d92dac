------------------------ MODULE SensorDataPipeProofs ------------------------
(***************************************************************************)
(* Proofs about the sensor data pipe for every number of buffers and every *)
(* fill level, under the most general callers; and two facts about its     *)
(* reader, PgRun, for the proofs about the threads that use the pipe.      *)
(***************************************************************************)
EXTENDS PgRun, TLAPS

(* The index arithmetic of the ring: the successor is an index again, it   *)
(* never is the index itself and, with three buffers or more, two          *)
(* successors do not lead back either.                                     *)
LEMMA NextIdxValue ==
  ASSUME NEW i \in Bufs
  PROVE  NextIdx(i) = IF i = BufCount - 1 THEN 0 ELSE i + 1
<1>1. CASE i = BufCount - 1
  <2>1. BufCount % BufCount = 0
    BY BufCountAssumption
  <2> QED
    BY <1>1, <2>1, BufCountAssumption DEF NextIdx
<1>2. CASE i # BufCount - 1
  <2>1. i + 1 \in 0 .. BufCount - 1
    BY <1>2, BufCountAssumption DEF Bufs
  <2>2. (i + 1) % BufCount = i + 1
    BY <2>1, BufCountAssumption
  <2> QED
    BY <1>2, <2>2 DEF NextIdx
<1> QED
  BY <1>1, <1>2

(* The buffer after i is another buffer, and with three or more buffers    *)
(* the one after that is not i either.                                     *)
LEMMA NextIdxFacts ==
  ASSUME NEW i \in Bufs
  PROVE  /\ NextIdx(i) \in Bufs
         /\ NextIdx(i) # i
         /\ BufCount >= 3 => NextIdx(NextIdx(i)) # i
<1>1. NextIdx(i) \in Bufs /\ NextIdx(i) # i
  BY NextIdxValue, BufCountAssumption DEF Bufs
<1>2. ASSUME BufCount >= 3
      PROVE  NextIdx(NextIdx(i)) # i
  <2>1. NextIdx(NextIdx(i)) = IF NextIdx(i) = BufCount - 1 THEN 0 ELSE NextIdx(i) + 1
    BY <1>1, NextIdxValue
  <2> QED
    BY <1>2, <2>1, NextIdxValue, BufCountAssumption DEF Bufs
<1> QED
  BY <1>1, <1>2

-----------------------------------------------------------------------------
(* The inductive invariant holds initially ...                             *)
LEMMA PipeInit == SdpCreate => PipeInv
<1> SUFFICES ASSUME SdpCreate PROVE PipeInv
  OBVIOUS
<1>1. TypeOK
  BY BufCountAssumption, MaxFillAssumption DEF SdpCreate, TypeOK, Bufs, NoBuf
<1>2. SinglePermission
  BY BufCountAssumption DEF SdpCreate, SinglePermission, WriterInTransit, ReaderInTransit
<1>3. IndicesAgree /\ LocalsAgree
  BY DEF SdpCreate, IndicesAgree, LocalsAgree
<1> QED
  BY <1>1, <1>2, <1>3 DEF PipeInv

(* ... and is preserved by every step of the two threads.                  *)
LEMMA PipeStep == PipeInv /\ [Next]_pipeVars => PipeInv'
<1> SUFFICES ASSUME PipeInv, [Next]_pipeVars
             PROVE  PipeInv'
  OBVIOUS
<1> USE DEF PipeInv, TypeOK, SinglePermission, IndicesAgree, LocalsAgree,
            WriterInTransit, ReaderInTransit, ringVars, writerVars, readerVars
<1>0. /\ NextIdx(WriteBufIdx) \in Bufs
      /\ NextIdx(ReadBufIdx) \in Bufs
  BY NextIdxFacts
<1>1. ASSUME NEW n \in 1 .. MaxFill, ArenaAlloc(n)
      PROVE  PipeInv'
  <2>1. Pos[CurBuf] + n \in 0 .. MaxFill
    BY <1>1, MaxFillAssumption DEF ArenaAlloc
  <2> QED
    BY <1>1, <2>1 DEF ArenaAlloc
<1>2. CASE GetWriteBuffer
  BY <1>0, <1>2 DEF GetWriteBuffer
<1>3. CASE Flush
  BY <1>0, <1>3 DEF Flush
<1>4. CASE DrainWriteEvent
  BY <1>4 DEF DrainWriteEvent
<1>5. CASE WriterInterrupted
  BY <1>5 DEF WriterInterrupted
<1>6. CASE StoreWriteBufIdx
  BY <1>6 DEF StoreWriteBufIdx
<1>7. CASE CountFull
  BY <1>7 DEF CountFull
<1>8. CASE SignalReader
  BY <1>8 DEF SignalReader
<1>9. CASE FreeWriteBuffer
  BY <1>9, MaxFillAssumption DEF FreeWriteBuffer
<1>10. CASE GetReadBuffer
  BY <1>10 DEF GetReadBuffer
<1>11. CASE DrainReadEvent
  BY <1>11 DEF DrainReadEvent
<1>12. CASE ReaderInterrupted
  BY <1>12 DEF ReaderInterrupted
<1>13. CASE TakeReadBuffer
  BY <1>0, <1>13 DEF TakeReadBuffer, Bufs, NoBuf
<1>14. CASE CountTaken
  BY <1>14 DEF CountTaken
<1>15. CASE SignalWriter
  BY <1>15 DEF SignalWriter
<1>16. CASE UNCHANGED pipeVars
  BY <1>16 DEF pipeVars
<1> QED
  BY <1>1, <1>2, <1>3, <1>4, <1>5, <1>6, <1>7, <1>8, <1>9, <1>10, <1>11,
     <1>12, <1>13, <1>14, <1>15, <1>16 DEF Next, WriterCall, WriterStep, ReaderStep

(* In every reachable state of SensorDataPipe.c's two threads, one         *)
(* permission exists, the indices follow each other and the local copies   *)
(* of the threads agree with the pipe.                                     *)
THEOREM PipeInvariant == Spec => []PipeInv
<1>1. QED
  BY PipeInit, PipeStep, PTL DEF Spec

(* With three buffers or more the reader's buffer is never the one the     *)
(* writer frees and fills, although the reader gives the slot back before  *)
(* it reads the buffer.                                                    *)
THEOREM ReaderWriterExclusion ==
  ASSUME BufCount >= 3
  PROVE  Spec => []Exclusion
<1>1. PipeInv => Exclusion
  <2> SUFFICES ASSUME PipeInv, Buf # NoBuf
               PROVE  WriteBufIdx # Buf
    BY DEF Exclusion
  <2>1. Buf \in Bufs /\ ReadBufIdx = NextIdx(Buf)
    BY DEF PipeInv, TypeOK, LocalsAgree
  <2>2. WriteBufIdx \in {ReadBufIdx, NextIdx(ReadBufIdx)}
    BY DEF PipeInv, IndicesAgree
  <2> QED
    BY <2>1, <2>2, NextIdxFacts
<1> QED
  BY <1>1, PipeInvariant, PTL

-----------------------------------------------------------------------------
(* The three buffers in use are different ones.                            *)
BuffersApart ==
  /\ Buf # NoBuf => Buf \in Bufs /\ Buf # ReadBufIdx /\ Buf # WriteBufIdx
  /\ IF HandedOver THEN WriteBufIdx = NextIdx(ReadBufIdx) ELSE WriteBufIdx = ReadBufIdx
  /\ NextIdx(ReadBufIdx) \in Bufs /\ NextIdx(ReadBufIdx) # ReadBufIdx
  /\ Buf # NoBuf => NextIdx(ReadBufIdx) # Buf

(* The buffer filled, the one handed over and the one read are different   *)
(* buffers.                                                                *)
LEMMA BufferRoles ==
  ASSUME BufCount >= 3, PipeInv
  PROVE  BuffersApart
<1>1. Buf # NoBuf => Buf \in Bufs /\ ReadBufIdx = NextIdx(Buf)
  BY DEF PipeInv, TypeOK, LocalsAgree
<1>2. IF HandedOver THEN WriteBufIdx = NextIdx(ReadBufIdx) ELSE WriteBufIdx = ReadBufIdx
  BY DEF PipeInv, IndicesAgree, HandedOver
<1>3. ReadBufIdx \in Bufs
  BY DEF PipeInv, TypeOK
<1>4. NextIdx(ReadBufIdx) \in Bufs /\ NextIdx(ReadBufIdx) # ReadBufIdx
  BY <1>3, NextIdxFacts
<1>5. Buf # NoBuf => Buf # ReadBufIdx /\ NextIdx(ReadBufIdx) # Buf
  BY <1>1, NextIdxFacts
<1> QED
  BY <1>1, <1>2, <1>4, <1>5 DEF BuffersApart

-----------------------------------------------------------------------------
(* Reading the next packet, or giving the next ones up, continues the      *)
(* order of the packets that PgRun passes.                                 *)
LEMMA NextRowInOrder ==
  ASSUME RowsInOrder, consumed \in Seq(Nat), passed \in Nat,
         consumed' = Append(consumed, passed + 1), passed' = passed + 1, lost' = lost
  PROVE  RowsInOrder'
<1>1. /\ Len(consumed) \in Nat /\ Len(consumed') = Len(consumed) + 1
      /\ \A j \in 1 .. Len(consumed) : consumed'[j] = consumed[j]
      /\ consumed'[Len(consumed) + 1] = passed + 1
  OBVIOUS
<1>2. \A j \in 1 .. Len(consumed) : consumed[j] \in 1 .. passed
  BY DEF RowsInOrder, RowsRead
<1>3. ASSUME NEW i \in 1 .. Len(consumed'), NEW j \in 1 .. Len(consumed'), i < j
      PROVE  consumed'[i] < consumed'[j]
  <2>1. i \in 1 .. Len(consumed) /\ consumed'[i] = consumed[i] /\ consumed[i] \in 1 .. passed
    BY <1>1, <1>2, <1>3
  <2>2. CASE j = Len(consumed) + 1
    BY <1>1, <2>1, <2>2
  <2>3. CASE j # Len(consumed) + 1
    <3>1. j \in 1 .. Len(consumed)
      BY <1>1, <2>3
    <3>2. consumed[i] < consumed[j]
      BY <1>3, <2>1, <3>1 DEF RowsInOrder
    <3> QED
      BY <1>1, <2>1, <3>1, <3>2
  <2> QED
    BY <2>2, <2>3
<1>4. RowsRead' = RowsRead \cup {passed + 1}
  BY <1>1 DEF RowsRead
<1>5. RowsRead \cap lost = {} /\ RowsRead \cup lost = 1 .. passed
  BY DEF RowsInOrder
<1>6. passed + 1 \notin lost /\ 1 .. passed + 1 = (1 .. passed) \cup {passed + 1}
  BY <1>5
<1>7. RowsRead' \cap lost' = {} /\ RowsRead' \cup lost' = 1 .. passed'
  BY <1>4, <1>5, <1>6
<1> QED
  BY <1>3, <1>7 DEF RowsInOrder

LEMMA LostRowsInOrder ==
  ASSUME RowsInOrder, passed \in Nat, NEW n \in Nat, passed' = passed + n,
         consumed' = consumed, lost' = lost \cup (passed + 1 .. passed + n)
  PROVE  RowsInOrder'
<1>1. RowsRead' = RowsRead
  BY DEF RowsRead
<1>2. RowsRead \cap lost = {} /\ RowsRead \cup lost = 1 .. passed
  BY DEF RowsInOrder
<1>3. \A k \in passed + 1 .. passed + n : k \notin 1 .. passed
  OBVIOUS
<1>4. 1 .. passed + n = (1 .. passed) \cup (passed + 1 .. passed + n)
  OBVIOUS
<1>5. RowsRead' \cap lost' = {} /\ RowsRead' \cup lost' = 1 .. passed'
  BY <1>1, <1>2, <1>3, <1>4
<1> QED
  BY <1>5 DEF RowsInOrder
=============================================================================
