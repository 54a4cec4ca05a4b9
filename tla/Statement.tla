----------------------------- MODULE Statement ------------------------------
(***************************************************************************)
(* What the router reads off a statement: package parser and the vschema.  *)
(* A statement keeps what decides its route.  A WHERE clause is the        *)
(* sequence of its AND-ed conditions from left to right (an OR, a NOT or a *)
(* parenthesis is one condition of another kind), a value is the number it *)
(* stands for and whether its text is an integer literal, quoted or not.   *)
(***************************************************************************)
EXTENDS Sequences, FiniteSetsExt

CONSTANTS
  ShardedTables   \* VSchema.ShardedTables: sharded table -> its key column

\* The statements these operators are for.
Values == [n : Int, literal : BOOLEAN, found : BOOLEAN]
Conditions == [op : STRING, col : STRING, val : Values]
Statements == [kind : STRING, plain : BOOLEAN, table : STRING,
               where : Seq(Conditions), cols : Seq(STRING),
               rows : Seq(Seq(Values))]

NoValue == [n |-> 0, literal |-> FALSE, found |-> FALSE]

Value(n, literal) == [n |-> n, literal |-> literal, found |-> TRUE]

\* tree.CanWriteData or tree.CanModifySchema.
IsWrite(s) == s.kind \in {"insert", "update", "delete", "ddl"}

\* The first place of a sequence with an element that passes Test, or 0.
IndexWhere(q, Test(_)) ==
  LET I == {i \in 1..Len(q) : Test(q[i])} IN IF I # {} THEN Min(I) ELSE 0

\* Mutant of equalityInExpr: an equality of any column will do.
equalityInExprAnyColumn(where, column) ==
  LET j == IndexWhere(where, LAMBDA c : c.op = "=")
  IN  IF j = 0 THEN NoValue ELSE where[j].val

\* The first condition of the form column = value.
equalityInExpr(where, column) ==
  LET j == IndexWhere(where, LAMBDA c : c.op = "=" /\ c.col = column)
  IN  IF j = 0 THEN NoValue ELSE where[j].val

\* An INSERT has a value for the column when it lists the column and has
\* exactly one row of VALUES that reaches it.
insertedValue(s, column) ==
  LET i == IndexWhere(s.cols, LAMBDA c : c = column)
  IN  IF i = 0 \/ Len(s.rows) # 1 \/ i > Len(s.rows[1])
      THEN NoValue ELSE s.rows[1][i]

EqualityValue(s, column) ==
  CASE s.kind \in {"select", "update", "delete"} ->
         equalityInExpr(s.where, column)
    [] s.kind = "insert" -> insertedValue(s, column)
    [] OTHER -> NoValue

\* GetTableName finds the table of SELECT, INSERT, UPDATE and DELETE when the
\* statement names it plainly (it is not a subquery or a JOIN).
Named(s) == s.kind \in {"select", "insert", "update", "delete"} /\ s.plain

\* The key Route looks for: an equality on the shard column of a sharded
\* table, with a value strconv.ParseInt accepts.
HasKey(s) ==
  /\ Named(s) /\ s.table \in DOMAIN ShardedTables
  /\ EqualityValue(s, ShardedTables[s.table]).literal

Key(s) == EqualityValue(s, ShardedTables[s.table]).n

-----------------------------------------------------------------------------
(* What a statement means, to compare the route with.                      *)

\* A row with key k meets the condition c on the key column.
Meets(c, k) ==
  CASE c.op = "=" -> k = c.val.n
    [] c.op = "<" -> k < c.val.n
    [] OTHER -> TRUE

\* The keys among K of the rows of a sharded table that the statement may
\* read, change or insert.  An INSERT without a column list gives the key
\* first, as tables declare it.
Touches(s, K) ==
  LET column == ShardedTables[s.table]
      i == IF s.cols = <<>> THEN 1
           ELSE IndexWhere(s.cols, LAMBDA c : c = column)
  IN  IF s.table \notin DOMAIN ShardedTables THEN {}
      ELSE IF s.kind = "insert" THEN {s.rows[j][i].n : j \in DOMAIN s.rows}
      ELSE {k \in K : \A j \in DOMAIN s.where :
              s.where[j].col = column => Meets(s.where[j], k)}

=============================================================================
