------------------------------ MODULE MCPgInsert ------------------------------
(***************************************************************************)
(* The instance of PgInsert that is model-checked: a table with a serial   *)
(* number and two columns, one with a column of an unknown type, and two   *)
(* tables at once.                                                         *)
(***************************************************************************)
EXTENDS PgInsert

Column(len, known) == [len |-> len, auto |-> FALSE, known |-> known]
Serial == [len |-> 4, auto |-> TRUE, known |-> TRUE]

MCSchemas == {<<<<Serial, Column(8, TRUE), Column(2, TRUE)>>>>,
              <<<<Serial, Column(4, FALSE)>>>>,
              <<<<Serial, Column(8, TRUE)>>, <<Serial, Column(2, TRUE)>>>>}
=============================================================================
