------------------------------- MODULE PgRun --------------------------------
(***************************************************************************)
(* The Postgres thread, PgRun of                                           *)
(* src/sdhs/DataHandlers/ModbusWithPostgres/Postgres.c, as the reader of   *)
(* the sensor data pipe.  This module holds the thread's state and its     *)
(* actions; the modules of the writers compose it with a writer thread.    *)
(*                                                                         *)
(* Mem is the memory behind the buffers: ArenaFree resets the position and *)
(* leaves the bytes, so a row read late sees whatever is there by then.    *)
(* PgInsertData converts the rows of a buffer one after the other, or      *)
(* returns before the first of them; which of the two, and whether the     *)
(* database commits, is not determined by the program.                     *)
(***************************************************************************)
EXTENDS SensorDataPipe, Sequences

CONSTANTS BreakOnCount,  \* break_on_count, 10000 in the code
          FailThreshold  \* the 5 of both the timeout and the failure counter

ASSUME BreakOnCountAssumption  == BreakOnCount \in Nat \ {0}
ASSUME FailThresholdAssumption == FailThreshold \in Nat \ {0}

VARIABLES
  Mem,                \* Mem[b][i]: the i-th packet in buffer b, 0 if never written
  pgpc,               \* control state of PgRun
  ItemCount,          \* rows in the buffer being inserted
  RowsProcessed,      \* rows PgInsertData has converted
  TotalInsertedItems,
  PgFailCounter, TimeoutCounter, \* kept up to FailThreshold, where they saturate
  ShutdownRequested,  \* GShutdownRequested
  consumed,           \* history: the packets read out of the buffers, in order
  lost,               \* history: the packets in buffers that were left unread
  passed              \* history: how many rows were read or left unread

rowVars == <<consumed, lost, passed>>
pgVars == <<pgpc, ItemCount, RowsProcessed, TotalInsertedItems, PgFailCounter,
            TimeoutCounter, rowVars>>

PgInit ==
  /\ pgpc = "loop" /\ ItemCount = 0 /\ RowsProcessed = 0
  /\ TotalInsertedItems = 0 /\ PgFailCounter = 0 /\ TimeoutCounter = 0
  /\ consumed = <<>> /\ lost = {} /\ passed = 0

Saturating(counter) == IF counter < FailThreshold THEN counter + 1 ELSE counter

(* The condition of the main loop.                                         *)
PgLoopTest ==
  /\ pgpc = "loop"
  /\ pgpc' = IF ~ShutdownRequested /\ TotalInsertedItems < BreakOnCount
             THEN "epoll" ELSE "exit"
  /\ UNCHANGED <<pipeVars, Mem, ShutdownRequested, ItemCount, RowsProcessed,
                 TotalInsertedItems, PgFailCounter, TimeoutCounter, rowVars>>

(* Fault: one full buffer is not enough to be woken up.                    *)
EpollReadyLate ==
  /\ pgpc = "epoll" /\ ReadEventFd > 1
  /\ pgpc' = "inner"
  /\ UNCHANGED <<pipeVars, Mem, ShutdownRequested, ItemCount, RowsProcessed,
                 TotalInsertedItems, PgFailCounter, TimeoutCounter, rowVars>>

(* epoll_wait reports EPOLLIN.                                             *)
EpollReady ==
  /\ pgpc = "epoll" /\ ReadEventFd > 0
  /\ pgpc' = "inner"
  /\ UNCHANGED <<pipeVars, Mem, ShutdownRequested, ItemCount, RowsProcessed,
                 TotalInsertedItems, PgFailCounter, TimeoutCounter, rowVars>>

(* epoll_wait is interrupted by a signal, which SA_RESTART does not hide.  *)
(* Its other errors cannot happen with the arguments PgRun passes.         *)
EpollInterrupted ==
  /\ pgpc = "epoll" /\ ReadEventFd = 0
  /\ pgpc' = "loop"
  /\ UNCHANGED <<pipeVars, Mem, ShutdownRequested, ItemCount, RowsProcessed,
                 TotalInsertedItems, PgFailCounter, TimeoutCounter, rowVars>>

(* epoll_wait times out.  From the threshold on the code goes on to test   *)
(* an event array that the call did not fill in: any outcome of the two    *)
(* tests is possible.                                                      *)
EpollTimeout ==
  /\ pgpc = "epoll" /\ ReadEventFd = 0
  /\ TimeoutCounter' = Saturating(TimeoutCounter)
  /\ IF TimeoutCounter' < FailThreshold
     THEN pgpc' = "loop"
     ELSE pgpc' \in {"exit", "inner", "loop"}
  /\ UNCHANGED <<pipeVars, Mem, ShutdownRequested, ItemCount, RowsProcessed,
                 TotalInsertedItems, PgFailCounter, rowVars>>

(* The inner loop calls SdPipeGetReadBuffer ...                            *)
PgGetReadBuffer ==
  /\ pgpc = "inner"
  /\ GetReadBuffer
  /\ pgpc' = "getting"
  /\ UNCHANGED <<Mem, ShutdownRequested, ItemCount, RowsProcessed,
                 TotalInsertedItems, PgFailCounter, TimeoutCounter, rowVars>>

(* ... which runs through the pipe ...                                     *)
PgPipeStep ==
  /\ ReaderStep
  /\ UNCHANGED <<Mem, ShutdownRequested, pgVars>>

(* Fault: the items of the last buffer are counted again.                  *)
PgCountItemsAgain ==
  /\ pgpc = "getting" /\ rpc = "ready" /\ Buf # NoBuf
  /\ ItemCount' = ItemCount + Pos[Buf]
  /\ TotalInsertedItems' = TotalInsertedItems + Pos[Buf]
  /\ RowsProcessed' = 0
  /\ pgpc' = "insert"
  /\ UNCHANGED <<pipeVars, Mem, ShutdownRequested, PgFailCounter, TimeoutCounter,
                 rowVars>>

(* ... and returns: the rows are counted before they are inserted.         *)
PgCountItems ==
  /\ pgpc = "getting" /\ rpc = "ready" /\ Buf # NoBuf
  /\ ItemCount' = Pos[Buf]
  /\ TotalInsertedItems' = TotalInsertedItems + Pos[Buf]
  /\ RowsProcessed' = 0
  /\ pgpc' = "insert"
  /\ UNCHANGED <<pipeVars, Mem, ShutdownRequested, PgFailCounter, TimeoutCounter,
                 rowVars>>

(* Fault: the rows are converted from the last one to the first.           *)
PgConvertRowBackwards ==
  /\ pgpc = "insert" /\ RowsProcessed < ItemCount
  /\ consumed' = Append(consumed, Mem[Buf][ItemCount - RowsProcessed])
  /\ passed' = passed + 1 /\ UNCHANGED lost
  /\ RowsProcessed' = RowsProcessed + 1
  /\ UNCHANGED <<pipeVars, Mem, ShutdownRequested, pgpc, ItemCount,
                 TotalInsertedItems, PgFailCounter, TimeoutCounter>>

(* PgInsertData converts the next row.                                     *)
PgConvertRow ==
  /\ pgpc = "insert" /\ RowsProcessed < ItemCount
  /\ consumed' = Append(consumed, Mem[Buf][RowsProcessed + 1])
  /\ passed' = passed + 1 /\ UNCHANGED lost
  /\ RowsProcessed' = RowsProcessed + 1
  /\ UNCHANGED <<pipeVars, Mem, ShutdownRequested, pgpc, ItemCount,
                 TotalInsertedItems, PgFailCounter, TimeoutCounter>>

(* What PgRun does with the result.  Reaching a threshold leaves the inner *)
(* loop only.                                                              *)
PgAfterInsert(ok) ==
  /\ IF TotalInsertedItems >= BreakOnCount
     THEN pgpc' = "loop" /\ UNCHANGED PgFailCounter
     ELSE IF ok
     THEN pgpc' = "inner" /\ UNCHANGED PgFailCounter
     ELSE /\ PgFailCounter' = Saturating(PgFailCounter)
          /\ pgpc' = IF PgFailCounter' >= FailThreshold THEN "loop" ELSE "inner"
  /\ UNCHANGED <<pipeVars, Mem, ShutdownRequested, ItemCount, RowsProcessed,
                 TotalInsertedItems, TimeoutCounter>>

(* PgInsertData returns after it has converted all rows.                   *)
PgInsertReturns(ok) ==
  /\ pgpc = "insert" /\ RowsProcessed = ItemCount
  /\ PgAfterInsert(ok) /\ UNCHANGED rowVars

(* Fault: an insertion that breaks off after a row gives up the whole      *)
(* buffer, with the row it has read.                                       *)
PgInsertGivesUpLate(ok) ==
  /\ pgpc = "insert" /\ RowsProcessed <= 1
  /\ PgAfterInsert(ok)
  /\ lost' = lost \cup {Mem[Buf][i] : i \in 1 .. ItemCount}
  /\ passed' = passed + ItemCount /\ UNCHANGED consumed

(* BEGIN, COPY or the header of the copy fails, or the scratch memory does *)
(* not suffice, which is reported as a success if the copy of nothing ends *)
(* well: PgInsertData returns without a look at the rows, and PgRun goes   *)
(* on with the next buffer.                                                *)
PgInsertGivesUp(ok) ==
  /\ pgpc = "insert" /\ RowsProcessed = 0
  /\ PgAfterInsert(ok)
  /\ lost' = lost \cup {Mem[Buf][i] : i \in 1 .. ItemCount}
  /\ passed' = passed + ItemCount /\ UNCHANGED consumed

(* The thread ends: it asks everybody to stop.                             *)
PgExit ==
  /\ pgpc = "exit"
  /\ ShutdownRequested' = TRUE
  /\ pgpc' = "done"
  /\ UNCHANGED <<pipeVars, Mem, ItemCount, RowsProcessed, TotalInsertedItems,
                 PgFailCounter, TimeoutCounter, rowVars>>

PgStep == \/ PgLoopTest \/ EpollReady \/ PgGetReadBuffer \/ PgPipeStep
          \/ PgCountItems \/ PgConvertRow \/ PgExit
          \/ \E ok \in BOOLEAN : PgInsertReturns(ok) \/ PgInsertGivesUp(ok)

PgNext == PgStep \/ EpollInterrupted \/ EpollTimeout

(* The types of the variables of the Postgres thread.                      *)
PgTypeOK ==
  /\ Mem \in [Bufs -> [1 .. MaxFill -> Nat]]
  /\ pgpc \in {"loop", "epoll", "inner", "getting", "insert", "exit", "done"}
  /\ ItemCount \in 0 .. MaxFill /\ RowsProcessed \in 0 .. ItemCount
  /\ TotalInsertedItems \in Nat
  /\ PgFailCounter \in 0 .. FailThreshold /\ TimeoutCounter \in 0 .. FailThreshold
  /\ ShutdownRequested \in BOOLEAN
  /\ consumed \in Seq(Nat) /\ lost \subseteq Nat /\ passed \in Nat

(* The control state of the thread fits that of the pipe.                  *)
PgControlAgrees ==
  /\ rpc # "ready" => pgpc = "getting"
  /\ pgpc = "getting" /\ rpc = "ready" => Buf # NoBuf
  /\ pgpc = "insert" => Buf # NoBuf

(* Rows of the reader's buffer that it has not read, and of the one that   *)
(* is handed over.                                                         *)
RowsHeld == IF pgpc = "insert" THEN ItemCount - RowsProcessed
            ELSE IF pgpc = "getting" /\ Buf # NoBuf THEN Pos[Buf] ELSE 0
RowsHandedOver == IF HandedOver THEN Pos[ReadBufIdx] ELSE 0

(* These rows are the next packets in order, after the ones that the       *)
(* thread has read or left unread.                                         *)
HeldRows == \A i \in 1 .. RowsHeld :
  Mem[Buf][(IF pgpc = "insert" THEN RowsProcessed ELSE 0) + i] = passed + i
HandedOverRows == \A i \in 1 .. RowsHandedOver :
  Mem[ReadBufIdx][i] = passed + RowsHeld + i

RowsRead == {consumed[j] : j \in 1 .. Len(consumed)}

(* The rows that PgInsertData reads are packets in the order in which they *)
(* were stored, none of them twice; and the ones it has not read are those *)
(* of the buffers that it gave up before the first row: no buffer is       *)
(* overwritten while its rows are read, handed over twice, or skipped.     *)
RowsInOrder ==
  /\ \A i, j \in 1 .. Len(consumed) : i < j => consumed[i] < consumed[j]
  /\ RowsRead \cap lost = {} /\ RowsRead \cup lost = 1 .. passed
=============================================================================
