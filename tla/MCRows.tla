------------------------------- MODULE MCRows -------------------------------
(***************************************************************************)
(* The row interface of the v1 UDFs for TLC.  A behaviour is one of the    *)
(* copying VM, of a UDF that makes any calls of its input iterator, or of  *)
(* one that makes any calls of its result handler, chosen at the start.    *)
(***************************************************************************)
EXTENDS ForwardVM

CONSTANTS
  MaxEmits,   \* bound: rows a UDF emits
  TailRows    \* bound: rows of a table that has strings with a NUL byte

VARIABLE udf   \* "forward", "input" or "output"

\* Two columns of one type, and one of another type between them.
ThreeColumns == <<"string", "int32", "string">>
Sizes == [string |-> 2, int32 |-> 2]

\* The string of the third column is long in every row but the first.
Lengths == [v \in {<<r, 3>> : r \in 2..3} |-> 5]

RowsInit ==
  /\ udf \in {"forward", "input", "output"}
  /\ Init
  /\ (\E r \in DOMAIN table, c \in Cols : CString(table[r][c]) # table[r][c]) =>
       Len(table) <= TailRows
  /\ udf = "output" => table = << >>
  /\ udf = "input" => ~scalar

\* A value is named after the row it was first set for.
NewValue(c) == <<Len(accepted) + 1, c>>

\* Bounds: so many rows, and one next() that fails for a packet.
MayCall ==
  /\ torn = "no" \/ Missing(m_rowdata) = {}
  /\ m_rows_emited <= MaxEmits
  /\ Len(accepted) < MaxEmits

InputCalls ==
  /\ InputStart \/ InputNext \/ InputReset \/ InputGetWrong \/ CheckException
  /\ UNCHANGED <<outputVars, pc>>

OutputCalls ==
  /\ \/ \E c \in Cols : OutputSetNull(c) \/ OutputSetValue(c, NewValue(c))
     \/ OutputSetWrong
     \/ \E result \in SendResults : (MayCall /\ OutputNext(result)) \/ OutputFlush(result)
     \/ OutputReinitialize
  /\ UNCHANGED pc

RowsNext ==
  /\ \/ udf = "forward" /\ Next
     \/ udf = "input" /\ InputCalls
     \/ udf = "output" /\ OutputCalls
  /\ UNCHANGED udf

RowsSpec == RowsInit /\ [][RowsNext]_<<vars, udf>>
=============================================================================
