--------------------------- MODULE SensorDataPipe ---------------------------
(***************************************************************************)
(* The sensor data pipe of the Sensor Data Handler System                  *)
(* (src/sdhs/Common/SensorDataPipe.c): a ring of BufCount buffer arenas    *)
(* between one writer thread (Modbus) and one reader thread (Postgres),    *)
(* synchronised by two eventfds and three atomic counters.                 *)
(*                                                                         *)
(* Every shared access of SdPipeGetWriteBuffer, SdPipeFlush and            *)
(* SdPipeGetReadBuffer is a step of its own, so the two threads interleave *)
(* between any two of them.  The callers are left as general as C allows:  *)
(* the writer may allocate from CurBuf, ask for a buffer or flush whenever *)
(* it is not inside the pipe, the reader may ask whenever it is not inside *)
(* the pipe.  The modules of the real callers restrict this behaviour.     *)
(*                                                                         *)
(* The eventfds are created without EFD_SEMAPHORE, so a read returns the   *)
(* whole counter and resets it to zero.                                    *)
(***************************************************************************)
EXTENDS Integers

CONSTANTS BufCount, \* number of buffer arenas ("buf_count" of the config)
          MaxFill   \* BufferMaxFill, counted in packets

ASSUME BufCountAssumption == BufCount \in Nat /\ BufCount >= 2
ASSUME MaxFillAssumption  == MaxFill \in Nat \ {0}

VARIABLES
  WriteBufIdx, ReadBufIdx, FullBuffersCount, \* the atomics of the pipe
  ReadEventFd, WriteEventFd,                 \* the counters of the eventfds
  Pos,          \* ArenaPos of every buffer, in packets
  wpc,          \* where the writer is inside the pipe, or "ready"
  wop,          \* the operation the writer is in, "get" or "flush"
  NextWriteBuf, \* local of SdPipeGetWriteBuffer and SdPipeFlush
  CurBuf,       \* the writer's pointer to the buffer it fills
  rpc,          \* where the reader is inside the pipe, or "ready"
  Buf           \* the buffer the reader got, until it asks again

ringVars == <<WriteBufIdx, ReadBufIdx, FullBuffersCount, ReadEventFd, WriteEventFd>>
writerVars == <<wpc, wop, NextWriteBuf, CurBuf>>
readerVars == <<rpc, Buf>>
pipeVars == <<WriteBufIdx, ReadBufIdx, FullBuffersCount, ReadEventFd, WriteEventFd,
              Pos, wpc, wop, NextWriteBuf, CurBuf, rpc, Buf>>

Bufs  == 0 .. BufCount - 1
NoBuf == -1   \* the null pointer

NextIdx(i) == (i + 1) % BufCount

(* SdpCreate: empty buffers, indices at 0 and BufCount - 1 written to the  *)
(* write eventfd.  The writer starts with CurBuf = Buffers[WriteBufIdx].   *)
SdpCreate ==
  /\ WriteBufIdx = 0 /\ ReadBufIdx = 0 /\ FullBuffersCount = 0
  /\ ReadEventFd = 0 /\ WriteEventFd = BufCount - 1
  /\ Pos = [b \in Bufs |-> 0]
  /\ wpc = "ready" /\ wop = "get" /\ NextWriteBuf = 0 /\ CurBuf = 0
  /\ rpc = "ready" /\ Buf = NoBuf

-----------------------------------------------------------------------------
(* The writer's side.                                                      *)

(* The writer allocates n packets from the buffer it believes is its own.  *)
ArenaAlloc(n) ==
  /\ wpc = "ready" /\ CurBuf # NoBuf
  /\ Pos[CurBuf] + n <= MaxFill
  /\ Pos' = [Pos EXCEPT ![CurBuf] = @ + n]
  /\ UNCHANGED <<ringVars, writerVars, readerVars>>

(* Fault: the index of the current buffer is kept as the next one.         *)
GetWriteBufferSameIdx ==
  /\ wpc = "ready"
  /\ wpc' = "wait" /\ wop' = "get" /\ NextWriteBuf' = WriteBufIdx
  /\ UNCHANGED <<ringVars, Pos, CurBuf, readerVars>>

(* SdPipeGetWriteBuffer is entered: the index is loaded before the wait.   *)
GetWriteBuffer ==
  /\ wpc = "ready"
  /\ wpc' = "wait" /\ wop' = "get" /\ NextWriteBuf' = NextIdx(WriteBufIdx)
  /\ UNCHANGED <<ringVars, Pos, CurBuf, readerVars>>

(* SdPipeFlush is entered; it returns at once unless Buffers[WriteBufIdx]  *)
(* holds data.                                                             *)
Flush ==
  /\ wpc = "ready"
  /\ wpc' = IF Pos[WriteBufIdx] > 0 THEN "wait" ELSE "ready"
  /\ wop' = "flush" /\ NextWriteBuf' = NextIdx(WriteBufIdx)
  /\ UNCHANGED <<ringVars, Pos, CurBuf, readerVars>>

(* Fault: the eventfd created with EFD_SEMAPHORE, a read takes one unit.   *)
DrainWriteEventSemaphore ==
  /\ wpc = "wait" /\ WriteEventFd > 0
  /\ WriteEventFd' = WriteEventFd - 1
  /\ wpc' = "store"
  /\ UNCHANGED <<WriteBufIdx, ReadBufIdx, FullBuffersCount, ReadEventFd,
                 Pos, wop, NextWriteBuf, CurBuf, readerVars>>

(* read(WriteEventFd): blocks at zero, otherwise takes the whole counter.  *)
DrainWriteEvent ==
  /\ wpc = "wait" /\ WriteEventFd > 0
  /\ WriteEventFd' = 0
  /\ wpc' = "store"
  /\ UNCHANGED <<WriteBufIdx, ReadBufIdx, FullBuffersCount, ReadEventFd,
                 Pos, wop, NextWriteBuf, CurBuf, readerVars>>

(* The blocked read is interrupted: the get returns NULL, the flush gives  *)
(* up, and nothing has been handed over.                                   *)
WriterInterrupted ==
  /\ wpc = "wait" /\ WriteEventFd = 0
  /\ wpc' = "ready"
  /\ CurBuf' = IF wop = "get" THEN NoBuf ELSE CurBuf
  /\ UNCHANGED <<ringVars, Pos, wop, NextWriteBuf, readerVars>>

StoreWriteBufIdx ==
  /\ wpc = "store"
  /\ WriteBufIdx' = NextWriteBuf
  /\ wpc' = "count"
  /\ UNCHANGED <<ReadBufIdx, FullBuffersCount, ReadEventFd, WriteEventFd,
                 Pos, wop, NextWriteBuf, CurBuf, readerVars>>

CountFull ==
  /\ wpc = "count"
  /\ FullBuffersCount' = FullBuffersCount + 1
  /\ wpc' = "signal"
  /\ UNCHANGED <<WriteBufIdx, ReadBufIdx, ReadEventFd, WriteEventFd,
                 Pos, wop, NextWriteBuf, CurBuf, readerVars>>

(* Fault: the reader is not told of the full buffer.                       *)
SignalReaderMissing ==
  /\ wpc = "signal"
  /\ wpc' = "free"
  /\ UNCHANGED <<ringVars, Pos, wop, NextWriteBuf, CurBuf, readerVars>>

SignalReader ==
  /\ wpc = "signal"
  /\ ReadEventFd' = ReadEventFd + 1
  /\ wpc' = "free"
  /\ UNCHANGED <<WriteBufIdx, ReadBufIdx, FullBuffersCount, WriteEventFd,
                 Pos, wop, NextWriteBuf, CurBuf, readerVars>>

(* ArenaFree of the next buffer, whose contents stay in memory; only the   *)
(* get returns it to the caller.                                           *)
FreeWriteBuffer ==
  /\ wpc = "free"
  /\ Pos' = [Pos EXCEPT ![NextWriteBuf] = 0]
  /\ wpc' = "ready"
  /\ CurBuf' = IF wop = "get" THEN NextWriteBuf ELSE CurBuf
  /\ UNCHANGED <<ringVars, wop, NextWriteBuf, readerVars>>

WriterStep == \/ DrainWriteEvent \/ StoreWriteBufIdx \/ CountFull
              \/ SignalReader \/ FreeWriteBuffer

-----------------------------------------------------------------------------
(* The reader's side.                                                      *)

(* SdPipeGetReadBuffer is entered: the reader is done with its last buffer.*)
GetReadBuffer ==
  /\ rpc = "ready"
  /\ rpc' = "wait" /\ Buf' = NoBuf
  /\ UNCHANGED <<ringVars, Pos, writerVars>>

(* Fault: the reader polls the eventfd and never resets it.                *)
DrainReadEventNoReset ==
  /\ rpc = "wait" /\ ReadEventFd > 0
  /\ rpc' = "take"
  /\ UNCHANGED <<ringVars, Pos, writerVars, Buf>>

(* read(ReadEventFd): blocks at zero, otherwise takes the whole counter.   *)
DrainReadEvent ==
  /\ rpc = "wait" /\ ReadEventFd > 0
  /\ ReadEventFd' = 0
  /\ rpc' = "take"
  /\ UNCHANGED <<WriteBufIdx, ReadBufIdx, FullBuffersCount, WriteEventFd,
                 Pos, writerVars, Buf>>

ReaderInterrupted ==
  /\ rpc = "wait" /\ ReadEventFd = 0
  /\ rpc' = "ready"
  /\ UNCHANGED <<ringVars, Pos, writerVars, Buf>>

(* The load and the store of ReadBufIdx, which only the reader accesses.   *)
TakeReadBuffer ==
  /\ rpc = "take"
  /\ Buf' = ReadBufIdx
  /\ ReadBufIdx' = NextIdx(ReadBufIdx)
  /\ rpc' = "count"
  /\ UNCHANGED <<WriteBufIdx, FullBuffersCount, ReadEventFd, WriteEventFd,
                 Pos, writerVars>>

(* Fault: the count of full buffers is not taken back.                     *)
CountTakenMissing ==
  /\ rpc = "count"
  /\ rpc' = "signal"
  /\ UNCHANGED <<ringVars, Pos, writerVars, Buf>>

CountTaken ==
  /\ rpc = "count"
  /\ FullBuffersCount' = FullBuffersCount - 1
  /\ rpc' = "signal"
  /\ UNCHANGED <<WriteBufIdx, ReadBufIdx, ReadEventFd, WriteEventFd,
                 Pos, writerVars, Buf>>

(* The slot is given back before the caller has looked at the buffer.      *)
SignalWriter ==
  /\ rpc = "signal"
  /\ WriteEventFd' = WriteEventFd + 1
  /\ rpc' = "ready"
  /\ UNCHANGED <<WriteBufIdx, ReadBufIdx, FullBuffersCount, ReadEventFd,
                 Pos, writerVars, Buf>>

ReaderStep == DrainReadEvent \/ TakeReadBuffer \/ CountTaken \/ SignalWriter

-----------------------------------------------------------------------------
WriterCall == \/ GetWriteBuffer
              \/ Flush
              \/ \E n \in 1 .. MaxFill : ArenaAlloc(n)

Next == \/ WriterCall \/ WriterStep \/ WriterInterrupted
        \/ GetReadBuffer \/ ReaderStep \/ ReaderInterrupted

Spec == SdpCreate /\ [][Next]_pipeVars

-----------------------------------------------------------------------------
(* Properties.                                                             *)

(* Every variable has its type; the counters of the eventfds and           *)
(* FullBuffersCount, an atomic_uint, never go below zero.                  *)
TypeOK ==
  /\ WriteBufIdx \in Bufs /\ ReadBufIdx \in Bufs
  /\ FullBuffersCount \in Nat /\ ReadEventFd \in Nat /\ WriteEventFd \in Nat
  /\ Pos \in [Bufs -> 0 .. MaxFill]
  /\ wpc \in {"ready", "wait", "store", "count", "signal", "free"}
  /\ wop \in {"get", "flush"}
  /\ NextWriteBuf \in Bufs /\ CurBuf \in Bufs \cup {NoBuf}
  /\ rpc \in {"ready", "wait", "take", "count", "signal"}
  /\ Buf \in Bufs \cup {NoBuf}

(* The writer and the reader between draining their eventfd and signalling *)
(* the other side.                                                         *)
WriterInTransit == wpc \in {"store", "count", "signal"}
ReaderInTransit == rpc \in {"take", "count", "signal"}

(* Because a drain takes the whole counter, the two eventfds together      *)
(* carry exactly one permission to move: one of the write eventfd, the     *)
(* writer, the read eventfd and the reader has it.  The two threads        *)
(* therefore alternate strictly, and no wake-up is ever lost.              *)
SinglePermission ==
  \/ WriteEventFd > 0 /\ ~WriterInTransit /\ ReadEventFd = 0 /\ ~ReaderInTransit
  \/ WriteEventFd = 0 /\ WriterInTransit  /\ ReadEventFd = 0 /\ ~ReaderInTransit
  \/ WriteEventFd = 0 /\ ~WriterInTransit /\ ReadEventFd > 0 /\ ~ReaderInTransit
  \/ WriteEventFd = 0 /\ ~WriterInTransit /\ ReadEventFd = 0 /\ ReaderInTransit

(* What the indices and the count are in each of these cases: the writer   *)
(* is at the reader's index when nothing is handed over and exactly one    *)
(* ahead otherwise, and FullBuffersCount lags by the one step between the  *)
(* two accesses.                                                           *)
IndicesAgree ==
  /\ WriteBufIdx = IF \/ wpc \in {"count", "signal"} \/ ReadEventFd > 0
                      \/ rpc = "take"
                   THEN NextIdx(ReadBufIdx) ELSE ReadBufIdx
  /\ FullBuffersCount = IF \/ wpc = "signal" \/ ReadEventFd > 0
                           \/ rpc \in {"take", "count"}
                        THEN 1 ELSE 0

(* The locals of the two threads: the index loaded before the wait is      *)
(* still the right one after it, and the reader holds the buffer just      *)
(* behind its index.                                                       *)
LocalsAgree ==
  /\ wpc \in {"wait", "store"} => NextWriteBuf = NextIdx(WriteBufIdx)
  /\ wpc \in {"count", "signal", "free"} => NextWriteBuf = WriteBufIdx
  /\ Buf # NoBuf => ReadBufIdx = NextIdx(Buf)
  /\ rpc \in {"wait", "take"} => Buf = NoBuf
  /\ rpc \in {"count", "signal"} => Buf # NoBuf

(* A buffer is handed over and not yet taken.                              *)
HandedOver == wpc \in {"count", "signal"} \/ ReadEventFd > 0 \/ rpc = "take"

(* The inductive invariant of the pipe.                                    *)
PipeInv == TypeOK /\ SinglePermission /\ IndicesAgree /\ LocalsAgree

(* The buffer the pipe offers to the writer (which the writer frees and    *)
(* fills) is never the one the reader is still working on.                 *)
Exclusion == Buf # NoBuf => WriteBufIdx # Buf
=============================================================================
