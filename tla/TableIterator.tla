--------------------------- MODULE TableIterator ---------------------------
(***************************************************************************)
(* SWIGTableIterator_Impl: the input side of a v1 UDF.  Rows arrive in     *)
(* packets (MT_NEXT, MT_RESET) and are decoded in place: next() moves one  *)
(* row on and keeps, per column, an offset into the values of its type.    *)
(*                                                                         *)
(* The VM (external) may call the methods in any order.  The database      *)
(* (external) cuts the rows of the group into packets as it likes, closes, *)
(* fails, or sends a packet that lacks its last null flag or value.        *)
(***************************************************************************)
EXTENDS TableFormat

CONSTANTS
  MaxRows,   \* bound: rows of a group
  Tails      \* what may follow a NUL byte in a string of the group

ASSUME IteratorAssumption == MaxRows \in Nat \ {0}

VARIABLES
  exthrowed,         \* exchandler.exthrowed
  inp_force_finish,  \* SWIGVM_params->inp_force_finish
  m_current_row,     \* 0 for (uint64_t)-1
  table,             \* external: the rows of the group
  sent,              \* external: how many of them have been sent
  packet,            \* m_next_response.next().table()
  m_rows_received, m_rows_completed, m_rows_group_completed,
  m_col_offsets,     \* per column
  m_values_per_row,  \* per type: values used up to and with this row
  raised,            \* history: an exception was set at some time
  stalled            \* history: next() moved on without a row

dataVars == <<packet, m_current_row, m_rows_received, m_rows_completed,
              m_rows_group_completed, m_col_offsets, m_values_per_row>>
inputVars == <<exthrowed, inp_force_finish, table, sent, dataVars, raised, stalled>>

\* Row r of the group.  A cell is null or has a name of its own; the name of a
\* string with a NUL byte in it has a tail.
Cell(r, c, kind) ==
  CASE kind = "null" -> Null
    [] kind # "null" /\ kind \in Tails /\ Columns[c] = "string" -> <<r, c, kind>>
    [] OTHER -> <<r, c>>
Tables ==
  UNION {{[r \in 1..n |-> [c \in Cols |-> Cell(r, c, kinds[<<r, c>>])]] :
            kinds \in [(1..n) \X Cols -> {"null", "plain"} \union Tails]} : n \in 0..MaxRows}

\* m_exch->setException
Raise(thrown) == exthrowed' = (exthrowed \/ thrown) /\ raised' = (raised \/ thrown)

-----------------------------------------------------------------------------
(* increment_col_offsets and receive_next_data                             *)

\* A slip: the value counters run on from packet to packet.
OffsetsRunOn(p, row, reset) ==
  LET Used(S) == {d \in S : ~p.nulls[row * Width + d]}
      Same(c) == {d \in Cols : Columns[d] = Columns[c]}
  IN [offsets |-> [c \in Cols |->
        IF c \in Used(Cols) THEN m_values_per_row[Columns[c]] + Cardinality(Used(Same(c) \cap 1..(c - 1)))
        ELSE m_col_offsets[c]],
      counts |-> [t \in Types |->
        m_values_per_row[t] + Cardinality(Used({d \in Cols : Columns[d] = t}))]]

\* The offsets of the row at index row of packet p.  The offset of a null
\* cell keeps its old value.
ColOffsets(p, row, reset) ==
  LET base == IF reset THEN [t \in Types |-> 0] ELSE m_values_per_row
      Used(S) == {d \in S : ~p.nulls[row * Width + d]}
      Same(c) == {d \in Cols : Columns[d] = Columns[c]}
  IN [offsets |-> [c \in Cols |->
        IF c \in Used(Cols) THEN base[Columns[c]] + Cardinality(Used(Same(c) \cap 1..(c - 1)))
        ELSE m_col_offsets[c]],
      counts |-> [t \in Types |->
        base[t] + Cardinality(Used({d \in Cols : Columns[d] = t}))]]

IncrementColOffsets(p, row, reset) ==
  /\ m_current_row' = p.row_number[row + 1]
  /\ IF Len(p.nulls) <= row * Width + Width - 1
     THEN /\ Raise(TRUE)
          /\ m_values_per_row' = IF reset THEN [t \in Types |-> 0] ELSE m_values_per_row
          /\ UNCHANGED m_col_offsets
     ELSE /\ Raise(FALSE)
          /\ m_col_offsets' = ColOffsets(p, row, reset).offsets
          /\ m_values_per_row' = ColOffsets(p, row, reset).counts

\* The next n rows of the group; "no_null" and "no_value" lack the last one.
Packet(start, n, flaw) ==
  LET whole == Pack(SubSeq(table, start + 1, start + n), [i \in 1..n |-> start + i])
      Shorter(s) == IF s = << >> THEN s ELSE Front(s)
  IN [rows |-> whole.rows,
      nulls |-> IF flaw = "no_null" THEN Shorter(whole.nulls) ELSE whole.nulls,
      data |-> [t \in Types |->
                  IF flaw = "no_value" THEN Shorter(whole.data[t]) ELSE whole.data[t]],
      row_number |-> whole.row_number]

\* MT_DONE, or MT_CLOSE without a message, which is taken for MT_DONE.
ReceiveEnd(start) ==
  /\ sent' = start
  /\ m_rows_received' = 0
  /\ m_rows_completed' = 0
  /\ packet' = EmptyPacket
  /\ Raise(FALSE)
  /\ UNCHANGED <<m_current_row, m_col_offsets, m_values_per_row>>

\* A reply that does not parse, has another connection id or type, or closes
\* with a message.
ReceiveError(start) ==
  /\ sent' = start
  /\ m_rows_received' = 0
  /\ m_rows_completed' = 0
  /\ packet' = EmptyPacket
  /\ Raise(TRUE)
  /\ UNCHANGED <<m_current_row, m_col_offsets, m_values_per_row>>

ReceiveRows(start, n, flaw) ==
  /\ sent' = start + n
  /\ m_rows_received' = n
  /\ m_rows_completed' = 0
  /\ packet' = Packet(start, n, flaw)
  /\ IncrementColOffsets(packet', 0, TRUE)

ReceiveNextData(start) ==
  \/ ReceiveEnd(start)
  \/ ReceiveError(start)
  \/ \E n \in 1..(Len(table) - start), flaw \in {"none", "no_null", "no_value"} :
       ReceiveRows(start, n, flaw)

-----------------------------------------------------------------------------
(* The methods of the iterator                                             *)

InputInit ==
  /\ exthrowed = FALSE
  /\ inp_force_finish = FALSE
  /\ m_current_row = 0
  /\ table \in Tables
  /\ sent = 0
  /\ packet = EmptyPacket
  /\ m_rows_received = 0
  /\ m_rows_completed = 0
  /\ m_rows_group_completed = 1
  /\ m_col_offsets = [c \in Cols |-> 0]
  /\ m_values_per_row = [t \in Types |-> 0]
  /\ raised = FALSE
  /\ stalled = FALSE

\* next() after the last row.
InputNextFinished ==
  /\ m_rows_received = 0
  /\ Raise(TRUE)
  /\ UNCHANGED <<inp_force_finish, table, sent, dataVars, stalled>>

\* next() after the result handler has asked for an end.
InputNextForced ==
  /\ m_rows_received # 0
  /\ inp_force_finish
  /\ m_rows_completed' = m_rows_completed + 1
  /\ m_rows_group_completed' = m_rows_group_completed + 1
  /\ stalled' = TRUE
  /\ UNCHANGED <<exthrowed, inp_force_finish, table, sent, packet, m_current_row,
                 m_rows_received, m_col_offsets, m_values_per_row, raised>>

\* next() within a packet.
InputNextRow ==
  /\ m_rows_received # 0
  /\ ~inp_force_finish
  /\ m_rows_completed + 1 < m_rows_received
  /\ m_rows_completed' = m_rows_completed + 1
  /\ m_rows_group_completed' = m_rows_group_completed + 1
  /\ IncrementColOffsets(packet, m_rows_completed + 1, FALSE)
  /\ UNCHANGED <<inp_force_finish, table, sent, packet, m_rows_received, stalled>>

\* next() at the end of a packet.
InputNextPacket ==
  /\ m_rows_received # 0
  /\ ~inp_force_finish
  /\ m_rows_completed + 1 >= m_rows_received
  /\ m_rows_group_completed' = m_rows_group_completed + 1
  /\ ReceiveNextData(sent)
  /\ UNCHANGED <<inp_force_finish, table, stalled>>

InputNext ==
  InputNextFinished \/ InputNextForced \/ InputNextRow \/ InputNextPacket

\* reset(): the database starts the group again.
InputReset ==
  /\ inp_force_finish' = FALSE
  /\ m_rows_group_completed' = 1
  /\ stalled' = FALSE
  /\ ReceiveNextData(0)
  /\ UNCHANGED table

Eot == m_rows_received = 0

\* The constructor, and reinitialize() in the run of a new group; main has
\* cleared inp_force_finish before that run.
InputStart ==
  /\ Eot \/ stalled
  /\ inp_force_finish' = FALSE
  /\ m_rows_group_completed' = 1
  /\ stalled' = FALSE
  /\ ReceiveNextData(0)
  /\ UNCHANGED table

\* checkException, which is called by the generated language bindings only.
CheckException ==
  /\ exthrowed
  /\ exthrowed' = FALSE
  /\ UNCHANGED <<inp_force_finish, table, sent, dataVars, raised, stalled>>

\* check_value: where the value of column c is, 0 for a null, and whether the
\* packet lacks its null flag or the value.
CheckValue(c) ==
  LET flag == Width * m_rows_completed + c
      lost == flag > Len(packet.nulls)
      null == ~lost /\ packet.nulls[flag]
      there == ~lost /\ ~null /\ m_col_offsets[c] < Len(packet.data[Columns[c]])
  IN [index |-> IF there THEN m_col_offsets[c] + 1 ELSE 0, throws |-> ~null /\ ~there]

\* A getter for the type of column c: what it returns, as wasNull() says it
\* is to be taken, and whether it sets an exception.
Get(c) ==
  LET found == CheckValue(c)
  IN [cell |-> IF found.index = 0 THEN Null ELSE packet.data[Columns[c]][found.index],
      throws |-> found.throws]

\* A getter for another type, or for a column that does not exist.
InputGetWrong ==
  /\ Raise(TRUE)
  /\ UNCHANGED <<inp_force_finish, table, sent, dataVars, stalled>>

InputTypeOK ==
  /\ {exthrowed, inp_force_finish, raised, stalled} \subseteq BOOLEAN
  /\ m_current_row \in 0..MaxRows
  /\ sent \in 0..Len(table)
  /\ m_rows_received \in 0..MaxRows
  /\ m_rows_completed \in 0..m_rows_received
  /\ m_rows_group_completed \in 1..(MaxRows + 1)
  /\ DOMAIN m_col_offsets = Cols
  /\ DOMAIN m_values_per_row = Types

\* Where the iterator stands in the group, while it stands on a row.
Reading == m_rows_received > 0 /\ ~stalled
Position == sent - m_rows_received + m_rows_completed + 1

\* Unless it has set an exception, what a getter of the iterator returns is
\* the cell of the database's table at the current row: whatever the pattern
\* of nulls, wherever the packets are cut, and after any number of resets.  The
\* row number that goes back with the output and the count of rowsCompleted()
\* are the position of that row in the group.
InputFaithful ==
  Reading =>
    /\ m_current_row = Position /\ m_rows_group_completed = Position
    /\ ~raised => \A c \in Cols : Get(c).throws \/ Get(c).cell = table[Position][c]
=============================================================================
