--------------------------- MODULE ResultHandler ---------------------------
(***************************************************************************)
(* SWIGResultHandler_Impl: the output side of a v1 UDF.  The setters fill  *)
(* one row, next() appends it to the packet m_emit_request, and a packet   *)
(* that has grown to SWIG_MAX_VAR_DATASIZE is sent with MT_EMIT; between a *)
(* scalar input and a scalar output the input is told to end instead.      *)
(***************************************************************************)
EXTENDS TableIterator, FiniteSetsExt

CONSTANTS
  CellSize,         \* bytes of a value, per type; of an empty string
  StringLength,     \* the length of each string that is not empty
  MaxVarDatasize    \* SWIG_MAX_VAR_DATASIZE

ASSUME HandlerAssumption ==
  /\ \A t \in Types : CellSize[t] \in Nat \ {0}
  /\ \A v \in DOMAIN StringLength : StringLength[v] \in Nat
  /\ MaxVarDatasize \in Nat \ {0}

VARIABLES
  scalar,           \* inp_iter_type and out_iter_type are EXACTLY_ONCE
  m_rowdata,        \* per column: the null flag, and the value or Null
  emit,             \* m_emit_request.emit().table()
  m_message_size,
  m_rows_emited,
  accepted,         \* history: the rows for which next() returned true
  delivered,        \* external: the rows the database has got
  torn,             \* history: "no", "half" when a next() that failed has left
                    \* half a row at the end of the packet, and "inside" from
                    \* the moment a row is appended to such a packet
  unserialised      \* history: the last packet to be sent is still here

outputVars == <<scalar, m_rowdata, emit, m_message_size, m_rows_emited,
                accepted, delivered, torn, unserialised>>

EmptyRow == [c \in Cols |-> [null |-> FALSE, value |-> Null]]

OutputInit ==
  /\ scalar \in BOOLEAN
  /\ m_rowdata = EmptyRow
  /\ emit = EmptyPacket
  /\ m_message_size = 0
  /\ m_rows_emited = 1
  /\ accepted = << >>
  /\ delivered = << >>
  /\ torn = "no"
  /\ unserialised = FALSE

-----------------------------------------------------------------------------
(* The setters.  setNull leaves the value alone.                           *)

\* setString takes a length and does not use it: a string ends at a NUL byte.
CString(v) == IF v = Null THEN Null ELSE SubSeq(v, 1, 2)

OutputSetNull(c) ==
  /\ m_rowdata' = [m_rowdata EXCEPT ![c] = [null |-> TRUE, value |-> @.value]]
  /\ UNCHANGED <<inputVars, scalar, emit, m_message_size, m_rows_emited,
                 accepted, delivered, torn, unserialised>>

OutputSetValue(c, v) ==
  /\ m_rowdata' = [m_rowdata EXCEPT ![c] = [null |-> FALSE, value |-> CString(v)]]
  /\ UNCHANGED <<inputVars, scalar, emit, m_message_size, m_rows_emited,
                 accepted, delivered, torn, unserialised>>

\* A column that does not exist or has another type.
OutputSetWrong ==
  /\ Raise(TRUE)
  /\ UNCHANGED <<inp_force_finish, table, sent, dataVars, stalled, outputVars>>

-----------------------------------------------------------------------------
(* flush                                                                   *)

SendResults == {"accepted", "refused", "unserialised"}

\* A slip: flush forgets to set the message size back.
SendKeepsSize(p, size, result) ==
  /\ delivered' = delivered \o Unpack(p)
  /\ emit' = EmptyPacket
  /\ m_message_size' = size
  /\ unserialised' = FALSE
  /\ Raise(result # "accepted")

\* A slip: the packet is sent and not cleared.
SendKeepsPacket(p, size, result) ==
  /\ delivered' = delivered \o Unpack(p)
  /\ emit' = p
  /\ m_message_size' = 0
  /\ unserialised' = FALSE
  /\ Raise(result # "accepted")

\* The packet is gone before the reply is looked at; one that cannot be
\* serialised stays.
Send(p, size, result) ==
  /\ IF result = "unserialised"
       THEN emit' = p /\ m_message_size' = size /\ UNCHANGED delivered
       ELSE emit' = EmptyPacket /\ m_message_size' = 0 /\ delivered' = delivered \o Unpack(p)
  /\ unserialised' = (result = "unserialised")
  /\ Raise(result # "accepted")

Keep(p, size) ==
  /\ emit' = p
  /\ m_message_size' = size
  /\ Raise(FALSE)
  /\ UNCHANGED <<delivered, unserialised>>

\* A reader finds whole rows only, so half a row at the end goes with the packet.
OutputFlush(result) ==
  /\ IF emit.rows > 0 THEN Send(emit, m_message_size, result) ELSE Keep(emit, m_message_size)
  /\ torn' = IF torn = "half" /\ emit.rows > 0 /\ result # "unserialised" THEN "no" ELSE torn
  /\ UNCHANGED <<inp_force_finish, table, sent, dataVars, stalled,
                 scalar, m_rowdata, m_rows_emited, accepted>>

-----------------------------------------------------------------------------
(* next                                                                    *)

\* The columns of the row with neither a value nor the null flag.
Missing(row) == {c \in Cols : ~row[c].null /\ row[c].value = Null}

\* A slip: a null cell does not skip its value.
AppendNulls(p, row, n) ==
  LET flags == IF n < Width THEN n + 1 ELSE n
      columns(t) == InOrder({c \in 1..n : Columns[c] = t})
      values(t) == [k \in DOMAIN columns(t) |-> row[columns(t)[k]].value]
  IN [rows |-> p.rows,
      nulls |-> p.nulls \o [c \in 1..flags |-> row[c].null],
      data |-> [t \in Types |-> p.data[t] \o values(t)],
      row_number |-> p.row_number]

\* The packet with columns 1..n of the row appended; the null flag of a column
\* is appended before its value is looked for.
AppendColumns(p, row, n) ==
  LET flags == IF n < Width THEN n + 1 ELSE n
      columns(t) == InOrder({c \in 1..n : Columns[c] = t /\ ~row[c].null})
      values(t) == [k \in DOMAIN columns(t) |-> row[columns(t)[k]].value]
  IN [rows |-> p.rows,
      nulls |-> p.nulls \o [c \in 1..flags |-> row[c].null],
      data |-> [t \in Types |-> p.data[t] \o values(t)],
      row_number |-> p.row_number]

\* The packet with a whole row appended, for the given row of the input.
AppendRow(p, row, number) ==
  LET q == AppendColumns(p, row, Width)
  IN [rows |-> p.rows + 1,
      nulls |-> q.nulls,
      data |-> q.data,
      row_number |-> Append(p.row_number, number)]

\* What the row says, as the database is to read it.
Entry(row, number) ==
  [cells |-> [c \in Cols |-> IF row[c].null THEN Null ELSE row[c].value], number |-> number]

\* The bytes of a value: a string has its length, and its characters.
Size(t, v) ==
  CellSize[t] + (IF t = "string" /\ v \in DOMAIN StringLength THEN StringLength[v] ELSE 0)

\* The bytes of columns 1..n of the row: a column and a place in its value.
RowBytes(row, n) ==
  UNION {{c} \X (1..Size(Columns[c], row[c].value)) : c \in {d \in 1..n : ~row[d].null}}

Bytes(row, n) == Cardinality(RowBytes(row, n))

\* next() with a whole row.
OutputNextRow(result) ==
  LET row == m_rowdata
      p == AppendRow(emit, row, m_current_row)
      size == m_message_size + Bytes(row, Width)
      full == size >= MaxVarDatasize
  IN /\ Missing(row) = {}
     /\ m_rowdata' = EmptyRow
     /\ m_rows_emited' = m_rows_emited + 1
     /\ accepted' = Append(accepted, Entry(row, m_current_row))
     /\ IF full /\ ~scalar THEN Send(p, size, result) ELSE Keep(p, size)
     /\ inp_force_finish' = (inp_force_finish \/ (full /\ scalar))
     /\ torn' = IF torn = "no" THEN "no" ELSE "inside"
     /\ UNCHANGED <<table, sent, dataVars, stalled, scalar>>

\* next() with a row that lacks a column: the columns before it, and its null
\* flag, stay in the packet.
OutputNextFails ==
  /\ Missing(m_rowdata) # {}
  /\ emit' = AppendColumns(emit, m_rowdata, Min(Missing(m_rowdata)) - 1)
  /\ m_message_size' = m_message_size + Bytes(m_rowdata, Min(Missing(m_rowdata)) - 1)
  /\ m_rows_emited' = m_rows_emited + 1
  /\ torn' = IF torn = "inside" THEN "inside" ELSE "half"
  /\ Raise(TRUE)
  /\ UNCHANGED <<inp_force_finish, table, sent, dataVars, stalled,
                 scalar, m_rowdata, accepted, delivered, unserialised>>

OutputNext(result) == OutputNextRow(result) \/ OutputNextFails

\* reinitialize(): what was not sent is dropped.
OutputReinitialize ==
  /\ m_rows_emited' = 0
  /\ m_message_size' = 0
  /\ emit' = EmptyPacket
  /\ m_rowdata' = EmptyRow
  /\ accepted' = delivered
  /\ torn' = "no"
  /\ unserialised' = FALSE
  /\ UNCHANGED <<inputVars, scalar, delivered>>

-----------------------------------------------------------------------------
OutputTypeOK ==
  /\ {scalar, unserialised} \subseteq BOOLEAN
  /\ torn \in {"no", "half", "inside"}
  /\ DOMAIN m_rowdata = Cols
  /\ emit.rows \in Nat
  /\ Len(emit.row_number) = emit.rows
  /\ m_message_size \in Nat
  /\ m_rows_emited \in Nat

\* The rows the database gets, followed by the ones that wait in the packet,
\* are the rows that next() accepted: in order, cell by cell, with the row
\* number they were emitted for, whatever was null and wherever the packet
\* was sent.  A next() that fails between two columns takes none of them away,
\* and the next flush is right; only a row that next() accepts on top of the
\* half one is read wrong.
OutputFaithful == torn # "inside" => delivered \o Unpack(emit) = accepted

\* The bytes of a packet: a type, the place of a value and a place in it.
PacketBytes(p) ==
  UNION {UNION {{t} \X ({k} \X (1..Size(t, p.data[t][k]))) : k \in 1..Len(p.data[t])} : t \in Types}

\* m_message_size counts the bytes in the packet, those of half a row included.
MessageSizeIsRight == m_message_size = Cardinality(PacketBytes(emit))

\* A packet at the limit does not stay: it is sent, or the input of a scalar
\* function is stopped.  A failure that adds half a row looks at no limit, and
\* a packet that cannot be serialised is not sent.
LimitIsKept ==
  torn = "no" /\ ~unserialised =>
    (m_message_size >= MaxVarDatasize => scalar /\ inp_force_finish)

\* No packet grows beyond the limit and the row that reaches it.
EmitIsBounded == MessageSizeIsRight /\ LimitIsKept
=============================================================================
