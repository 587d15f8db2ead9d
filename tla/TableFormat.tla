---------------------------- MODULE TableFormat ----------------------------
(***************************************************************************)
(* exascript_table_data: how rows travel between the database and a v1     *)
(* client.  A packet has one null flag per cell, row by row, and for every *)
(* type one sequence of the values that are not null.                      *)
(*                                                                         *)
(* A value is its own name; types are the wire types, so the column types  *)
(* STRING, NUMERIC, TIMESTAMP and DATE are one.                            *)
(***************************************************************************)
EXTENDS Naturals, Sequences, FiniteSets, SequencesExt

CONSTANTS
  Columns,   \* the wire type of each column
  Null       \* the content of a null cell

ASSUME FormatAssumption == Columns \in Seq(STRING) /\ Columns # << >>

Cols == DOMAIN Columns
Width == Len(Columns)
Types == {Columns[c] : c \in Cols}

\* The column of the i-th cell of a packet.
ColumnOf(i) == ((i - 1) % Width) + 1

\* A set of numbers in increasing order: the k-th of them has k - 1 below it.
InOrder(S) ==
  [k \in 1..Cardinality(S) |-> CHOOSE i \in S : Cardinality({j \in S : j <= i}) = k]

EmptyPacket == [rows |-> 0, nulls |-> << >>, data |-> [t \in Types |-> << >>], row_number |-> << >>]

\* What a sequence of rows looks like on the wire.
Pack(rows, numbers) ==
  LET size == Len(rows) * Width
      Cell(i) == rows[((i - 1) \div Width) + 1][ColumnOf(i)]
      Carries(t, i) == Columns[ColumnOf(i)] = t /\ Cell(i) # Null
      places == [t \in Types |-> InOrder({i \in 1..size : Carries(t, i)})]
  IN [rows |-> Len(rows),
      nulls |-> [i \in 1..size |-> Cell(i) = Null],
      data |-> [t \in Types |-> [k \in DOMAIN places[t] |-> Cell(places[t][k])]],
      row_number |-> numbers]

\* The rows a reader gets out of a packet: a cell that is not null is the next
\* value of its type, if there is one.
Unpack(p) ==
  LET Before(i) == {j \in 1..i : ~p.nulls[j] /\ Columns[ColumnOf(j)] = Columns[ColumnOf(i)]}
      Value(values, k) == IF k <= Len(values) THEN values[k] ELSE Null
      Cell(i) == IF p.nulls[i] THEN Null
                 ELSE Value(p.data[Columns[ColumnOf(i)]], Cardinality(Before(i)))
  IN [r \in 1..p.rows |-> [cells |-> [c \in Cols |-> Cell((r - 1) * Width + c)],
                            number |-> p.row_number[r]]]
=============================================================================
