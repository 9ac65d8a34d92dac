--------------------------- MODULE PgInsertProofs ---------------------------
(***************************************************************************)
(* PgPrepareCtx and PgInsertData for every sensor file, every number of    *)
(* calls and of failures and all sizes: what is held and given back, the   *)
(* size of a packet, and whether the result of an insertion can be         *)
(* believed.                                                               *)
(***************************************************************************)
EXTENDS PgInsert, TLAPS

(* What GetTableMetadata makes of the tables of the sensor files.          *)
Described ==
  {GetTableMetadata(s[i], before) : s \in Schemas, i \in Nat, before \in Nat}

(* The sequences the proofs append to.                                     *)
SequencesTyped == tables \in Seq(Described) /\ results \in Seq({0, -1})

(* What PgPrepareCtx establishes and PgInsertData relies on.               *)
PrepareIInv == SequencesTyped /\ NothingHeldAfterPrepare /\ PacketIsRow

-----------------------------------------------------------------------------
(* A buffer filled with whole rows has less than a row to spare.           *)
LEMMA WholeRows ==
  ASSUME NEW cap \in Nat, NEW row \in Nat \ {0}
  PROVE  row * (cap \div row) \in cap - row + 1 .. cap
<1>1. cap \div row \in Nat
  BY Z3
<1>2. row * (cap \div row) <= cap
  BY Z3
<1>3. cap < row * (cap \div row) + row
  BY Z3
<1>4. row * (cap \div row) \in Int
  BY <1>1
<1> QED
  BY <1>2, <1>3, <1>4

LEMMA TableDescribed ==
  ASSUME NEW s \in Schemas, NEW i \in Nat, NEW before \in Nat
  PROVE  GetTableMetadata(s[i], before) \in Described
BY DEF Described

LEMMA AppendTyped ==
  ASSUME NEW S, NEW s \in Seq(S), NEW e \in S
  PROVE  Append(s, e) \in Seq(S)
OBVIOUS

LEMMA PrepareInit == Init => PrepareIInv
<1> SUFFICES ASSUME Init PROVE PrepareIInv
  OBVIOUS
<1>1. SequencesTyped
  BY DEF Init, SequencesTyped
<1>2. Len(schema) \in Nat
  BY SchemasAssumption DEF Init
<1>3. NothingHeldAfterPrepare
  BY <1>2 DEF Init, NothingHeldAfterPrepare, HeldOnTheWay, Prepared, insertVars
<1>4. PacketIsRow
  BY DEF Init, PacketIsRow, Prepared
<1> QED
  BY <1>1, <1>3, <1>4 DEF PrepareIInv

(* The steps of PgPrepareCtx.                                              *)
LEMMA PrepareTableStep ==
  ASSUME PrepareIInv, PrepareTable
  PROVE  PrepareIInv'
<1> USE DEF PrepareIInv, PrepareTable
<1>1. /\ schema \in Schemas /\ Len(schema) \in Nat /\ Len(tables) \in Nat
      /\ Len(tables) + 1 \in 1 .. Len(schema)
      /\ held = {"scratch", "json", "ctx", "conn"} /\ conn = "ok" /\ ret = 0
  BY SchemasAssumption DEF SequencesTyped, NothingHeldAfterPrepare, HeldOnTheWay
<1>2. CASE UNCHANGED <<tables, pipe>> /\ pc' = "cleanup" /\ ret' = -1
  BY <1>1, <1>2 DEF SequencesTyped, NothingHeldAfterPrepare, HeldOnTheWay, PacketIsRow, Prepared,
     insertVars, Table
<1>3. ASSUME NEW before \in {0} \cup (IF mallocd THEN {Garbage} ELSE {}),
             tables' = Append(tables, GetTableMetadata(schema[Len(tables) + 1], before)),
             LET t == GetTableMetadata(schema[Len(tables) + 1], before)
                 n == BufferCap \div t.RowSize
             IN  pipe' = [PacketSize |-> t.RowSize, ItemMaxCount |-> n,
                          BufferMaxFill |-> t.RowSize * n],
             UNCHANGED <<ret, pc, conn>>
      PROVE  PrepareIInv'
  <2> DEFINE row == GetTableMetadata(schema[Len(tables) + 1], before)
  <2>1. before \in Nat
    BY <1>3, PgAssumption
  <2>2. row \in Described
    BY <1>1, <2>1, TableDescribed
  <2>3. tables' \in Seq(Described) /\ Len(tables') = Len(tables) + 1
    BY <1>3, <2>2 DEF SequencesTyped
  <2>4. SequencesTyped'
    BY <2>3 DEF SequencesTyped, insertVars
  <2>5. NothingHeldAfterPrepare'
    BY <1>1, <1>3, <2>3 DEF NothingHeldAfterPrepare, HeldOnTheWay, Prepared, insertVars
  <2>6. PacketIsRow'
    <3> SUFFICES ASSUME Len(schema) = 1, ~mallocd
                 PROVE  (/\ pipe.PacketSize = SumLen(Sent(schema[1]))
                         /\ pipe.PacketSize = Table.RowSize
                         /\ pipe.BufferMaxFill \in BufferCap - pipe.PacketSize + 1 .. BufferCap)'
      BY DEF PacketIsRow
    <3>1. Len(tables) = 0 /\ before = 0
      BY <1>1, <1>3
    <3>2. SumLen(Sent(schema[1])) \in Nat \ {0}
      BY <1>1, SchemasAssumption
    <3>3. row.RowSize = SumLen(Sent(schema[1]))
      BY <3>1, <3>2 DEF GetTableMetadata
    <3>4. pipe'.PacketSize = row.RowSize
          /\ pipe'.BufferMaxFill = row.RowSize * (BufferCap \div row.RowSize)
      BY <1>3
    <3>5. tables'[1] = row
      BY <1>3, <3>1 DEF SequencesTyped
    <3>6. pipe'.BufferMaxFill \in BufferCap - row.RowSize + 1 .. BufferCap
      BY <3>2, <3>3, <3>4, WholeRows, PgAssumption
    <3> QED
      BY <3>3, <3>4, <3>5, <3>6 DEF Table
  <2> QED
    BY <2>4, <2>5, <2>6
<1> QED
  BY <1>2, <1>3

LEMMA PrepareStep == PrepareIInv /\ [Next]_vars => PrepareIInv'
<1> SUFFICES ASSUME PrepareIInv, [Next]_vars
             PROVE  PrepareIInv'
  OBVIOUS
<1> USE DEF PrepareIInv, SequencesTyped, NothingHeldAfterPrepare, HeldOnTheWay, PacketIsRow,
            Prepared, Table
<1>1. CASE LoadFiles
  BY <1>1 DEF LoadFiles, insertVars
<1>2. CASE Connect
  BY <1>2 DEF Connect, insertVars
<1>3. CASE PrepareTable
  BY <1>3, PrepareTableStep
<1>4. CASE TablesDone
  BY <1>4 DEF TablesDone, prepareVars, insertVars
<1>5. CASE Cleanup
  BY <1>5 DEF Cleanup, insertVars
<1>6. ASSUME \/ PgInsertData \/ Begin \/ StartCopy \/ RollbackNoCopy \/ PutHeader \/ PushBuffer
             \/ ConversionOverruns \/ PutData \/ EndCopy \/ Commit \/ Rollback
      PROVE  PrepareIInv'
  <2>1. Prepared /\ Prepared' /\ UNCHANGED prepareVars
    BY <1>6 DEF PgInsertData, Begin, StartCopy, RollbackNoCopy, PutHeader, PushBuffer,
       ConversionOverruns, PutData, EndCopy, Commit, Rollback, Insert, Returns
  <2>2. results' = results \/ \E code \in {0, -1} : results' = Append(results, code)
    BY <1>6 DEF PgInsertData, Begin, StartCopy, RollbackNoCopy, PutHeader, PushBuffer,
       ConversionOverruns, PutData, EndCopy, Commit, Rollback, Returns, insertVars
  <2>3. results' \in Seq({0, -1})
    BY <2>2, AppendTyped
  <2> QED
    BY <2>1, <2>3 DEF prepareVars
<1>7. CASE UNCHANGED vars
  BY <1>7 DEF vars, insertVars
<1> QED
  BY <1>1, <1>2, <1>3, <1>4, <1>5, <1>6, <1>7 DEF Next

LEMMA PrepareInductive == Spec => []PrepareIInv
<1> QED
  BY PrepareInit, PrepareStep, PTL DEF Spec

(* Whatever fails in PgPrepareCtx and when, for every sensor file: nothing *)
(* is held but the context after a failure, and exactly the context and    *)
(* the connection after a success.                                         *)
THEOREM PrepareGivesBack == Spec => []NothingHeldAfterPrepare
<1> QED
  BY PrepareInductive, PTL DEF PrepareIInv

(* For every file with one table and every size of a buffer the pipe's     *)
(* packets are the rows of that table, and less than a row is wasted.      *)
THEOREM PacketsAreRows == Spec => []PacketIsRow
<1> QED
  BY PrepareInductive, PTL DEF PrepareIInv

-----------------------------------------------------------------------------
(* The results recorded so far stay, and the number of the call that       *)
(* returns is a new one.                                                   *)
LEMMA ReturnsEffect ==
  ASSUME SequencesTyped, NEW code \in {0, -1}, Returns(code)
  PROVE  /\ Call \notin DOMAIN results
         /\ DOMAIN results' = DOMAIN results \cup {Call}
         /\ results'[Call] = code
         /\ \A c \in DOMAIN results : results'[c] = results[c]
         /\ pc' = "idle"
BY DEF SequencesTyped, Returns, Call

(* A call that breaks leaves of the transaction what there was, or         *)
(* nothing.                                                                *)
LEMMA BreaksEffect ==
  ASSUME Breaks
  PROVE  /\ \/ UNCHANGED <<server, pending>>
            \/ server' = "idle" /\ pending' = {}
         /\ pending' \subseteq pending
BY DEF Breaks, NotSent, Lost

(* An error code is not the code of success.                               *)
LEMMA ErrorIsNotSuccess == -1 # 0
BY SMT

LEMMA ResultInit == Init => ResultIsTrue
BY DEF Init, ResultIsTrue, SuccessMeansStored, ErrorMeansNotStored, SessionIdleBetweenCalls,
   TransactionAgrees, Call

(* The steps of PgInsertData that do not return leave the results and what *)
(* is stored alone.                                                        *)
LEMMA ResultInnerStep ==
  ASSUME PrepareIInv, ResultIsTrue,
         \/ PgInsertData \/ StartCopy \/ PutHeader \/ PushBuffer \/ ConversionOverruns
         \/ PutData \/ EndCopy \/ (Begin /\ pc' = "copy")
  PROVE  ResultIsTrue'
<1>1. UNCHANGED <<results, stored, unsure, Call>> /\ unsent \subseteq unsent'
  BY DEF PgInsertData, StartCopy, PutHeader, PushBuffer, ConversionOverruns, PutData, EndCopy,
     Begin, Insert, insertVars, Returns, Call
<1>2. SuccessMeansStored' /\ ErrorMeansNotStored'
  BY <1>1 DEF ResultIsTrue, SuccessMeansStored, ErrorMeansNotStored
<1>3. SessionIdleBetweenCalls'
  BY <1>1 DEF PgInsertData, StartCopy, PutHeader, PushBuffer, ConversionOverruns, PutData,
     EndCopy, Insert, ResultIsTrue, SessionIdleBetweenCalls
<1>4. TransactionAgrees'
  <2> USE DEF ResultIsTrue, TransactionAgrees, Insert, Answered
  <2>1. CASE PgInsertData
    BY <1>1, <2>1 DEF PgInsertData
  <2>2. CASE StartCopy
    BY <1>1, <2>2, BreaksEffect DEF StartCopy
  <2>3. CASE PutHeader
    BY <1>1, <2>3, BreaksEffect, ErrorIsNotSuccess DEF PutHeader, NotSent
  <2>4. CASE PushBuffer
    BY <1>1, <2>4 DEF PushBuffer
  <2>5. CASE ConversionOverruns
    BY <1>1, <2>5 DEF ConversionOverruns, insertVars
  <2>6. CASE PutData
    BY <1>1, <2>6, BreaksEffect, ErrorIsNotSuccess DEF PutData
  <2>7. CASE EndCopy
    BY <1>1, <2>7, BreaksEffect, ErrorIsNotSuccess DEF EndCopy
  <2>8. CASE Begin /\ pc' = "copy"
    BY <1>1, <2>8 DEF Begin, Returns
  <2> QED
    BY <2>1, <2>2, <2>3, <2>4, <2>5, <2>6, <2>7, <2>8
<1> QED
  BY <1>2, <1>3, <1>4 DEF ResultIsTrue

(* PgInsertData returns an error: its rows are not stored unless it is not *)
(* sure, and what it leaves pending is not sure either.                    *)
LEMMA ResultErrorStep ==
  ASSUME PrepareIInv, ResultIsTrue, Returns(-1),
         \/ Begin \/ RollbackNoCopy \/ Rollback \/ Commit
  PROVE  ResultIsTrue'
<1> USE DEF ResultIsTrue, TransactionAgrees, PrepareIInv
<1>1. /\ Call \notin DOMAIN results
      /\ DOMAIN results' = DOMAIN results \cup {Call}
      /\ results'[Call] = -1
      /\ \A c \in DOMAIN results : results'[c] = results[c]
      /\ pc' = "idle"
  BY ReturnsEffect
<1>2. /\ unsent' = unsent
      /\ unsure' \in {unsure, unsure \cup {Call}}
      /\ stored' \in {stored, stored \cup pending}
      /\ stored' # stored => unsure' = unsure \cup {Call}
      /\ pending' \subseteq pending
      /\ Call \in pending => unsure' = unsure \cup {Call} \/ pending' = {}
      /\ unsure' = {} => server' = "idle"
  <2> USE DEF Answered, Insert
  <2>1. CASE Begin
    BY <1>1, <2>1, BreaksEffect DEF Begin, NotSent, SessionIdleBetweenCalls
  <2>2. CASE RollbackNoCopy
    BY <1>1, <2>2, BreaksEffect DEF RollbackNoCopy
  <2>3. CASE Rollback
    BY <1>1, <2>3, BreaksEffect DEF Rollback
  <2>4. CASE Commit
    BY <1>1, <2>4, BreaksEffect DEF Commit, Returns, Lost
  <2> QED
    BY <2>1, <2>2, <2>3, <2>4
<1>3. SuccessMeansStored' /\ ErrorMeansNotStored'
  BY <1>1, <1>2, ErrorIsNotSuccess DEF SuccessMeansStored, ErrorMeansNotStored
<1>4. SessionIdleBetweenCalls'
  BY <1>2 DEF SessionIdleBetweenCalls
<1>5. TransactionAgrees'
  BY <1>1, <1>2
<1> QED
  BY <1>3, <1>4, <1>5

(* PgInsertData returns 0: COMMIT was answered.                            *)
LEMMA ResultSuccessStep ==
  ASSUME PrepareIInv, ResultIsTrue, Commit, Returns(0)
  PROVE  ResultIsTrue'
<1> USE DEF ResultIsTrue, TransactionAgrees, PrepareIInv
<1>1. /\ Call \notin DOMAIN results
      /\ DOMAIN results' = DOMAIN results \cup {Call}
      /\ results'[Call] = 0
      /\ \A c \in DOMAIN results : results'[c] = results[c]
      /\ pc' = "idle"
  BY ReturnsEffect
<1>2. ~Returns(-1)
  BY <1>1, ReturnsEffect, ErrorIsNotSuccess
<1>3. /\ stored' = stored \cup pending /\ UNCHANGED <<unsure, unsent>>
      /\ pending' = {} /\ server' = "idle"
      /\ pending \subseteq unsure \cup {Call} /\ Call \in pending \cup unsent
  BY <1>2 DEF Commit, Answered, Insert
<1>4. SuccessMeansStored' /\ ErrorMeansNotStored'
  BY <1>1, <1>3 DEF SuccessMeansStored, ErrorMeansNotStored
<1>5. SessionIdleBetweenCalls' /\ TransactionAgrees'
  BY <1>1, <1>3 DEF SessionIdleBetweenCalls
<1> QED
  BY <1>4, <1>5

LEMMA ResultStep == PrepareIInv /\ ResultIsTrue /\ [Next]_vars => ResultIsTrue'
<1> SUFFICES ASSUME PrepareIInv, ResultIsTrue, [Next]_vars
             PROVE  ResultIsTrue'
  OBVIOUS
<1>1. CASE LoadFiles \/ Connect \/ PrepareTable \/ TablesDone \/ Cleanup
  <2>1. pc \notin {"idle", "begin", "end copy", "end"} /\ pc' \notin {"begin", "end copy", "end"}
    BY <1>1 DEF LoadFiles, Connect, PrepareTable, TablesDone, Cleanup
  <2>2. UNCHANGED insertVars /\ server = "idle"
    BY <1>1 DEF LoadFiles, Connect, PrepareTable, TablesDone, Cleanup, PrepareIInv,
       NothingHeldAfterPrepare, HeldOnTheWay, Prepared, insertVars
  <2> QED
    BY <2>1, <2>2 DEF insertVars, ResultIsTrue, SuccessMeansStored, ErrorMeansNotStored,
       SessionIdleBetweenCalls, TransactionAgrees, Call
<1>2. CASE \/ PgInsertData \/ StartCopy \/ PutHeader \/ PushBuffer \/ ConversionOverruns
           \/ PutData \/ EndCopy \/ (Begin /\ pc' = "copy")
  BY <1>2, ResultInnerStep
<1>3. CASE Returns(-1) /\ (Begin \/ RollbackNoCopy \/ Rollback \/ Commit)
  BY <1>3, ResultErrorStep
<1>4. CASE Returns(0) /\ Commit
  BY <1>4, ResultSuccessStep
<1>5. CASE UNCHANGED vars
  BY <1>5 DEF vars, ResultIsTrue, SuccessMeansStored, ErrorMeansNotStored,
     SessionIdleBetweenCalls, TransactionAgrees, Call
<1>6. /\ Begin => Returns(-1) \/ pc' = "copy"
      /\ RollbackNoCopy => Returns(-1)
      /\ Rollback => Returns(-1)
      /\ Commit => Returns(0) \/ Returns(-1)
  BY DEF Begin, RollbackNoCopy, Rollback, Commit
<1> QED
  BY <1>1, <1>2, <1>3, <1>4, <1>5, <1>6 DEF Next

(* The caller may believe PgInsertData, whatever fails in the library, on  *)
(* the way and in the server, and however often: a success is committed or *)
(* was given up for lack of scratch memory, an error is never stored by a  *)
(* later COMMIT unless its own COMMIT or ROLLBACK got no answer, and       *)
(* without such a call the next one finds the session idle.                *)
THEOREM ResultsAreTrue == Spec => []ResultIsTrue
<1>1. PrepareIInv /\ ResultIsTrue /\ [Next]_vars => ResultIsTrue'
  BY ResultStep
<1> QED
  BY <1>1, ResultInit, PrepareInductive, PTL DEF Spec
=============================================================================
