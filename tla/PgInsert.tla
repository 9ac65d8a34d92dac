------------------------------ MODULE PgInsert ------------------------------
(***************************************************************************)
(* src/sdhs/DatabaseSystems/Postgres.c: PgPrepareCtx, which connects and   *)
(* describes the tables, and then calls of PgInsertData, each one          *)
(* transaction with one binary copy.                                       *)
(*                                                                         *)
(* The database server and libpq are external.  A call of libpq succeeds,  *)
(* fails in the library without reaching the server, is refused by the     *)
(* server, or loses the connection; an answer to COMMIT may be lost after  *)
(* the commit.  A batch is the number of the call that inserts it.  Sizes  *)
(* are in bytes; what is in the rows is left out, but whether a row can be *)
(* encoded depends on its columns.                                         *)
(***************************************************************************)
EXTENDS Integers, Sequences, Functions

CONSTANTS
  Schemas,     \* the sensor files: sequences of tables, a table of columns
  MaxItems,    \* bound on the rows in a buffer
  MaxInserts,  \* bound on the calls of PgInsertData
  MaxFailures, \* bound on what goes wrong
  ScratchCap,  \* capacity of the scratch arena
  BufferCap,   \* capacity of a buffer of the pipe
  Garbage      \* what memory of malloc may hold

ASSUME PgAssumption ==
  /\ MaxItems \in Nat /\ MaxInserts \in Nat /\ MaxFailures \in Nat
  /\ ScratchCap \in Nat /\ BufferCap \in Nat /\ Garbage \in Nat

VARIABLES
  pc, ret,     \* the control state and the result of the function
  schema,      \* the file
  mallocd,     \* the arena of the thread comes from malloc
  tables,      \* TablesInfo: [RowSize, cols], cols those that are sent
  pipe,        \* PacketSize, ItemMaxCount and BufferMaxFill of the pipe
  held,        \* what PgPrepareCtx has to give back
  conn,        \* the connection: "none", "ok", "bad"
  server,      \* the session: "idle", "txn", "copy", "aborted"
  pending,     \* the batches of the open transaction
  stored,      \* the batches committed
  items,       \* ItemCount
  results,     \* what each call of PgInsertData returned
  unsent,      \* the calls whose rows were given up for lack of room
  unsure,      \* the calls whose COMMIT or ROLLBACK failed
  failures

vars == <<pc, ret, schema, mallocd, tables, pipe, held, conn, server, pending, stored, items,
          results, unsent, unsure, failures>>

prepareVars == <<schema, mallocd, tables, pipe, held>>
insertVars == <<server, pending, stored, items, results, unsent, unsure>>

Call == Len(results) + 1

Init ==
  /\ pc = "load" /\ ret = 0 /\ schema \in Schemas /\ mallocd \in BOOLEAN /\ tables = <<>>
  /\ pipe = [PacketSize |-> 0, ItemMaxCount |-> 0, BufferMaxFill |-> 0] /\ held = {"scratch"}
  /\ conn = "none" /\ server = "idle" /\ pending = {} /\ stored = {} /\ items = 0
  /\ results = <<>> /\ unsent = {} /\ unsure = {} /\ failures = 0

Fails == failures < MaxFailures /\ failures' = failures + 1
Works == UNCHANGED failures

-----------------------------------------------------------------------------
(* PgPrepareCtx.                                                           *)

(* The two files.  DbInitGetConfFromFile does not release its own scratch  *)
(* when it cannot read the file; the caller's release covers it.           *)
LoadFiles ==
  /\ pc = "load"
  /\ \/ Fails /\ pc' = "none" /\ held' = {}
     \/ Fails /\ pc' = "cleanup" /\ UNCHANGED held
     \/ Works /\ pc' = "connect" /\ held' = held \cup {"json"}
  /\ ret' = IF pc' = "cleanup" THEN -1 ELSE 0
  /\ UNCHANGED <<schema, mallocd, tables, pipe, conn, insertVars>>

(* PQconnectdb returns a connection to be finished also when it fails.     *)
Connect ==
  /\ pc = "connect"
  /\ held' = held \cup {"ctx", "conn"}
  /\ \/ Fails /\ conn' = "bad" /\ ret' = -1 /\ pc' = "cleanup"
     \/ Works /\ conn' = "ok" /\ pc' = "tables" /\ UNCHANGED ret
  /\ UNCHANGED <<schema, mallocd, tables, pipe, insertVars>>

SumLen(cols) == FoldFunction(LAMBDA c, sum : c.len + sum, 0, cols)

(* The columns that are sent: not those the server increments.             *)
Sent(cols) == SelectSeq(cols, LAMBDA c : ~c.auto)

(* Every table of a sensor file has a column to insert: the pipe divides   *)
(* by the size of a row without a test.                                    *)
ASSUME SchemasAssumption ==
  \A s \in Schemas : /\ s \in Seq(Seq([len : Nat \ {0}, auto : BOOLEAN, known : BOOLEAN]))
                     /\ \A i \in 1 .. Len(s) : SumLen(Sent(s[i])) \in Nat \ {0}

(* Fault: the column the server fills in is counted into the row.          *)
MetadataWithSerial(cols, before) ==
  [RowSize |-> before + SumLen(cols), cols |-> cols]

(* GetTableMetadata.  RowSize is added to, in memory that nobody has       *)
(* cleared.                                                                *)
GetTableMetadata(cols, before) ==
  [RowSize |-> before + SumLen(Sent(cols)), cols |-> Sent(cols)]

(* One table: its JSON, its creation, its metadata; the pipe is told the   *)
(* row size of the last one.                                               *)
PrepareTable ==
  /\ pc = "tables" /\ Len(tables) < Len(schema)
  /\ \/ /\ Fails /\ ret' = -1 /\ pc' = "cleanup"
        /\ conn' \in {conn, "bad"}
        /\ UNCHANGED <<tables, pipe>>
     \/ /\ Works /\ UNCHANGED <<ret, pc, conn>>
        /\ \E before \in {0} \cup (IF mallocd THEN {Garbage} ELSE {}) :
             LET t == GetTableMetadata(schema[Len(tables) + 1], before)
                 n == BufferCap \div t.RowSize
             IN /\ tables' = Append(tables, t)
                /\ pipe' = [PacketSize |-> t.RowSize, ItemMaxCount |-> n,
                            BufferMaxFill |-> t.RowSize * n]
  /\ UNCHANGED <<schema, mallocd, held, insertVars>>

TablesDone ==
  /\ pc = "tables" /\ Len(tables) = Len(schema)
  /\ pc' = "cleanup"
  /\ UNCHANGED <<ret, conn, failures, prepareVars, insertVars>>

(* Fault: the connection is finished only if it was ever established.      *)
CleanupKeepsFailed ==
  /\ pc = "cleanup"
  /\ held' = IF ret # 0 /\ conn = "ok" THEN {"ctx"} \cap held
             ELSE held \ {"json", "scratch"}
  /\ conn' = IF ret # 0 THEN "none" ELSE conn
  /\ pc' = IF ret = 0 THEN "idle" ELSE "none"
  /\ UNCHANGED <<ret, schema, mallocd, tables, pipe, failures, insertVars>>

(* The label cleanup.  What was pushed on the thread's arena stays there.  *)
Cleanup ==
  /\ pc = "cleanup"
  /\ held' = IF ret # 0 /\ "ctx" \in held THEN held \ {"json", "conn", "scratch"}
             ELSE held \ {"json", "scratch"}
  /\ conn' = IF ret # 0 THEN "none" ELSE conn
  /\ pc' = IF ret = 0 THEN "idle" ELSE "none"
  /\ UNCHANGED <<ret, schema, mallocd, tables, pipe, failures, insertVars>>

-----------------------------------------------------------------------------
(* The server, as libpq shows it.  A session that is lost is rolled back.  *)

Lost == conn' = "bad" /\ server' = "idle" /\ pending' = {}
Answered(state, batches) == server' = state /\ pending' = batches /\ UNCHANGED conn
NotSent == UNCHANGED <<conn, server, pending>>

(* A call that fails: on a dead connection, in the library, or on the way. *)
Breaks == \/ conn = "bad" /\ Works /\ NotSent
          \/ conn = "ok" /\ Fails /\ (NotSent \/ Lost)

Insert(label) == pc = label /\ UNCHANGED prepareVars
Returns(code) ==
  /\ pc' = "idle" /\ ret' = 0
  /\ results' = Append(results, code)

(* PgRun calls PgInsertData with the rows of a buffer.                     *)
PgInsertData ==
  /\ Insert("idle") /\ Len(results) < MaxInserts
  /\ items' \in 0 .. MaxItems
  /\ pc' = "begin"
  /\ UNCHANGED <<ret, conn, server, pending, stored, results, unsent, unsure, failures>>

(* BEGIN inside a transaction is a warning and counts as a success; in an  *)
(* aborted one it is refused.                                              *)
Begin ==
  /\ Insert("begin")
  /\ \/ /\ conn = "ok" /\ server # "aborted" /\ Works
        /\ Answered("txn", pending) /\ pc' = "copy" /\ UNCHANGED <<ret, results>>
     \/ conn = "ok" /\ server = "aborted" /\ Works /\ NotSent /\ Returns(-1)
     \/ Breaks /\ Returns(-1)
  /\ UNCHANGED <<stored, items, unsent, unsure>>

StartCopy ==
  /\ Insert("copy") /\ UNCHANGED ret
  /\ \/ conn = "ok" /\ Works /\ Answered("copy", pending) /\ pc' = "header"
     \/ conn = "ok" /\ Fails /\ Answered("aborted", {}) /\ pc' = "no copy"
     \/ Breaks /\ pc' = "no copy"
  /\ UNCHANGED <<stored, items, results, unsent, unsure>>

(* Fault: the function returns without rolling back.                       *)
ReturnNoCopy ==
  /\ Insert("no copy") /\ Returns(-1)
  /\ UNCHANGED <<conn, server, pending, stored, items, unsent, unsure, failures>>

(* The result of this ROLLBACK is neither tested nor cleared.              *)
RollbackNoCopy ==
  /\ Insert("no copy") /\ Returns(-1)
  /\ \/ conn = "ok" /\ Works /\ Answered("idle", {}) /\ UNCHANGED unsure
     \/ Breaks /\ unsure' = unsure \cup {Call}
  /\ UNCHANGED <<stored, items, unsent>>

PutHeader ==
  /\ Insert("header")
  /\ \/ conn = "ok" /\ Works /\ NotSent /\ pc' = "buffer" /\ UNCHANGED ret
     \/ Breaks /\ pc' = "end copy" /\ ret' = -1
  /\ UNCHANGED <<stored, items, results, unsent, unsure>>

-----------------------------------------------------------------------------
Table == tables[1]

(* The size of the conversion buffer: one field count, a length per row.   *)
NtwrkConvBufSize(n) == 2 + n * 4 + n * Table.RowSize

(* What the conversion writes: per row a field count, per column its       *)
(* length and, for the types it knows, its data.                           *)
Converted(n) ==
  n * (2 + FoldFunction(LAMBDA c, sum : 4 + (IF c.known THEN c.len ELSE 0) + sum, 0,
                        Table.cols))

(* Without room for the buffer the copy is ended as if it were complete.   *)
PushBuffer ==
  /\ Insert("buffer") /\ UNCHANGED ret
  /\ IF NtwrkConvBufSize(items) <= ScratchCap
     THEN pc' = "data" /\ UNCHANGED unsent
     ELSE pc' = "end copy" /\ unsent' = unsent \cup {Call}
  /\ UNCHANGED <<conn, server, pending, stored, items, results, unsure, failures>>

(* Rows that need more than the whole scratch arena are written past its   *)
(* end.  What that destroys is undefined: the process may stop here, or    *)
(* go on as in PutData.                                                    *)
ConversionOverruns ==
  /\ Insert("data") /\ Converted(items) > ScratchCap
  /\ pc' = "crashed"
  /\ UNCHANGED <<ret, conn, failures, insertVars>>

(* Fault: a failure to hand over the rows is logged and forgotten.         *)
PutDataForgets ==
  /\ Insert("data") /\ pc' = "end copy" /\ UNCHANGED ret
  /\ \/ conn = "ok" /\ Works /\ Answered("copy", pending \cup {Call})
     \/ Breaks
  /\ UNCHANGED <<stored, items, results, unsent, unsure>>

PutData ==
  /\ Insert("data") /\ pc' = "end copy"
  /\ \/ conn = "ok" /\ Works /\ Answered("copy", pending \cup {Call}) /\ UNCHANGED ret
     \/ Breaks /\ ret' = -1
  /\ UNCHANGED <<stored, items, results, unsent, unsure>>

(* A row with a column of a type the conversion does not know cannot be    *)
(* decoded.                                                                *)
Decodable == Call \in pending /\ items > 0 => \A i \in DOMAIN Table.cols : Table.cols[i].known

(* PQputCopyEnd and the one PQgetResult after it.  An end with an error    *)
(* message, or rows that cannot be decoded, abort the transaction; a       *)
(* further PQexec ends a copy that is still open.                          *)
EndCopy ==
  /\ Insert("end copy") /\ pc' = "end"
  /\ \/ /\ conn = "ok" /\ ret = 0 /\ Decodable /\ Works
        /\ Answered("txn", pending) /\ UNCHANGED ret
     \/ /\ conn = "ok" /\ (ret # 0 \/ ~Decodable) /\ Works
        /\ Answered("aborted", {}) /\ ret' = -1
     \/ conn = "ok" /\ ret = 0 /\ Fails /\ Answered("aborted", {}) /\ ret' = -1
     \/ Breaks /\ ret' = -1
  /\ UNCHANGED <<stored, items, results, unsent, unsure>>

(* COMMIT: the answer may be lost with the transaction committed or not.   *)
Commit ==
  /\ Insert("end") /\ ret = 0
  /\ \/ /\ conn = "ok" /\ Works /\ Answered("idle", {}) /\ stored' = stored \cup pending
        /\ Returns(0) /\ UNCHANGED unsure
     \/ Breaks /\ Returns(-1) /\ unsure' = unsure \cup {Call} /\ UNCHANGED stored
     \/ /\ conn = "ok" /\ Fails /\ Lost /\ stored' = stored \cup pending
        /\ Returns(-1) /\ unsure' = unsure \cup {Call}
  /\ UNCHANGED <<items, unsent>>

(* Fault: a failed copy is committed all the same.                         *)
CommitInsteadOfRollback ==
  /\ Insert("end") /\ ret # 0 /\ Returns(-1)
  /\ \/ /\ conn = "ok" /\ Works /\ Answered("idle", {}) /\ stored' = stored \cup {Call}
        /\ UNCHANGED unsure
     \/ Breaks /\ unsure' = unsure \cup {Call} /\ UNCHANGED stored
  /\ UNCHANGED <<items, unsent>>

Rollback ==
  /\ Insert("end") /\ ret # 0 /\ Returns(-1)
  /\ \/ conn = "ok" /\ Works /\ Answered("idle", {}) /\ UNCHANGED unsure
     \/ Breaks /\ unsure' = unsure \cup {Call}
  /\ UNCHANGED <<stored, items, unsent>>

-----------------------------------------------------------------------------
Next ==
  \/ LoadFiles \/ Connect \/ PrepareTable \/ TablesDone \/ Cleanup
  \/ PgInsertData \/ Begin \/ StartCopy \/ RollbackNoCopy \/ PutHeader \/ PushBuffer
  \/ ConversionOverruns \/ PutData \/ EndCopy \/ Commit \/ Rollback

Spec == Init /\ [][Next]_vars

-----------------------------------------------------------------------------
Prepared == pc \notin {"load", "connect", "tables", "cleanup", "none"}

(* What there is to give back at each point of PgPrepareCtx.               *)
HeldOnTheWay ==
  /\ schema \in Schemas /\ Len(tables) <= Len(schema)
  /\ pc = "load" => held = {"scratch"} /\ conn = "none" /\ ret = 0
  /\ pc = "connect" => held = {"scratch", "json"} /\ conn = "none" /\ ret = 0
  /\ pc = "tables" => held = {"scratch", "json", "ctx", "conn"} /\ conn = "ok" /\ ret = 0
  /\ pc = "cleanup" =>
       /\ held \subseteq {"scratch", "json", "ctx", "conn"} /\ ("conn" \in held => "ctx" \in held)
       /\ ret = 0 => {"ctx", "conn"} \subseteq held /\ Len(tables) = Len(schema)
  /\ ~Prepared => insertVars = <<"idle", {}, {}, 0, <<>>, {}, {}>>

(* Whatever fails in PgPrepareCtx, and when, the JSON and the scratch      *)
(* arena are given back, the connection is kept exactly if the function    *)
(* succeeds, and then every table of the file is described.                *)
NothingHeldAfterPrepare ==
  /\ HeldOnTheWay
  /\ pc = "none" => held \subseteq {"ctx"} /\ conn = "none"
  /\ Prepared => held = {"ctx", "conn"} /\ Len(tables) = Len(schema)

(* With one sensor, as the code assumes, and memory that is clear, the     *)
(* packets of the pipe are the rows of the table that is inserted into, as *)
(* soon as the table is described.                                         *)
PacketIsRow ==
  (Prepared \/ tables # <<>>) /\ Len(schema) = 1 /\ ~mallocd =>
    /\ pipe.PacketSize = SumLen(Sent(schema[1]))
    /\ pipe.PacketSize = Table.RowSize
    /\ pipe.BufferMaxFill \in BufferCap - pipe.PacketSize + 1 .. BufferCap

(* PgInsertData returns 0 only for rows that are committed, except when    *)
(* the conversion buffer did not fit its scratch arena.                    *)
SuccessMeansStored ==
  \A c \in DOMAIN results : results[c] = 0 => c \in stored \/ c \in unsent

(* A batch whose insertion returned an error is never stored, not by a     *)
(* later commit either, unless its own COMMIT or ROLLBACK got no answer.   *)
ErrorMeansNotStored ==
  \A c \in DOMAIN results : results[c] # 0 /\ c \in stored => c \in unsure

(* Between two calls the session is outside of any transaction, as BEGIN   *)
(* expects it, unless a COMMIT or ROLLBACK got no answer.                  *)
SessionIdleBetweenCalls == pc \in {"idle", "begin"} /\ unsure = {} => server = "idle"

(* What an open transaction holds besides the rows of this call are rows   *)
(* of a call whose COMMIT or ROLLBACK got no answer, and a copy that is    *)
(* about to be committed has its rows in it or has given them up.          *)
TransactionAgrees ==
  /\ stored \cup unsure \subseteq DOMAIN results
  /\ pending \subseteq IF pc \in {"end copy", "end"} THEN unsure \cup {Call} ELSE unsure
  /\ pc \in {"end copy", "end"} /\ ret = 0 => Call \in pending \cup unsent

(* The caller may believe PgInsertData: a success is in the database, an   *)
(* error is not and never will be, and the next call finds the session     *)
(* ready, but for the cases named above.                                   *)
ResultIsTrue == /\ SuccessMeansStored /\ ErrorMeansNotStored
                /\ SessionIdleBetweenCalls /\ TransactionAgrees
=============================================================================
