--------------------------- MODULE MCStreamingVM ---------------------------
(***************************************************************************)
(* A small instance of StreamingVM for TLC.  The run of MCRows looks at    *)
(* nulls in the input; here a line is only counted, and no cell is null.   *)
(***************************************************************************)
EXTENDS StreamingVM

TwoColumns == <<"string", "string">>
Sizes == [string |-> 3]

\* The third field of the stream is longer than the others.
Lengths == [v \in {<<3, 0>>} |-> 3]

NoNulls ==
  /\ Init
  /\ \A r \in DOMAIN table, c \in Cols : table[r][c] # Null

StreamSpec == NoNulls /\ [][Next]_vars /\ Fairness
=============================================================================
