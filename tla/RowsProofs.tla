----------------------------- MODULE RowsProofs -----------------------------
(***************************************************************************)
(* The row interface of the v1 UDFs, proved for any columns, groups, cuts  *)
(* into packets and packet limits: what the input iterator returns is what *)
(* the database sent, what the result handler was given is what the        *)
(* database gets, and a VM that copies one to the other copies every row.  *)
(***************************************************************************)
EXTENDS MCRows, ResultHandlerProofs

-----------------------------------------------------------------------------
(* What a packet of the input says                                         *)

\* Packet p has the n rows behind the first start ones, as far as
\* its flags and values go.
Tells(rows, p, start, n) ==
  /\ Len(p.nulls) \in Nat
  /\ \A r \in 0..n - 1, c \in Cols :
       LET i == r * Width + c
           t == Columns[c]
           cell == rows[start + r + 1][c]
           k == Cardinality(Places(p, i, t))
       IN i <= Len(p.nulls) =>
            /\ p.nulls[i] <=> cell = Null
            /\ ~p.nulls[i] /\ k <= Len(p.data[t]) => p.data[t][k] = cell
  /\ \A t \in Types : Len(p.data[t]) \in Nat
  /\ \A r \in 0..n - 1 : p.row_number[r + 1] = start + r + 1

\* The offsets and counters are those of the row at index row of packet p.
Counted(p, row, offsets, counts) ==
  /\ row * Width + Width <= Len(p.nulls)
  /\ \A t \in Types : counts[t] = Cardinality(Places(p, row * Width + Width, t))
  /\ \A c \in Cols :
       LET i == row * Width + c
       IN ~p.nulls[i] => /\ offsets[c] \in Nat
                         /\ offsets[c] + 1 = Cardinality(Places(p, i, Columns[c]))

\* The iterator holds the last rows that were sent; while it stands on one of
\* them its counters are those of that row, up to the first exception.
InputInv ==
  /\ IsSequence(table)
  /\ {sent, m_rows_received, m_rows_completed} \subseteq Nat
  /\ sent <= Len(table) /\ m_rows_received <= sent
  /\ m_rows_received > 0 => Tells(table, packet, sent - m_rows_received, m_rows_received)
  /\ Reading => /\ m_rows_completed < m_rows_received
                /\ m_current_row = Position /\ m_rows_group_completed = Position
                /\ ~raised => Counted(packet, m_rows_completed, m_col_offsets, m_values_per_row)

\* A sequence without its last element.
LEMMA FrontIsShorter ==
  ASSUME NEW s, Len(s) \in Nat, s # << >> => Len(s) # 0,
         NEW u, u = (IF s = << >> THEN s ELSE Front(s))
  PROVE  /\ Len(u) \in Nat /\ Len(u) <= Len(s)
         /\ \A i \in 1..Len(u) : u[i] = s[i]
  BY DEF Front

\* Whatever the database leaves out at the end of a packet, what is there is
\* what the table says.
LEMMA PacketTells ==
  ASSUME IsSequence(table), NEW start \in Nat, NEW n \in Nat, start + n <= Len(table),
         NEW flaw \in {"none", "no_null", "no_value"}
  PROVE  Tells(table, Packet(start, n, flaw), start, n)
  <1> DEFINE rows == SubSeq(table, start + 1, start + n)
             numbers == [i \in 1..n |-> start + i]
             size == n * Width
             cell(i) == rows[((i - 1) \div Width) + 1][ColumnOf(i)]
             S(t) == {i \in 1..size : Columns[ColumnOf(i)] = t /\ cell(i) # Null}
             whole == Pack(rows, numbers)
             p == Packet(start, n, flaw)
  <1>1. Len(rows) = n /\ \A r \in 0..n - 1 : rows[r + 1] = table[start + r + 1]
    BY DEF IsSequence
  <1>2. size \in Nat
    BY Widths
  <1> HIDE DEF rows
  <1>3. \A r \in 0..n - 1, c \in Cols : cell(r * Width + c) = table[start + r + 1][c]
    <2> TAKE r \in 0..n - 1, c \in Cols
    <2>1. r \in Nat
      OBVIOUS
    <2>2. ColumnOf(r * Width + c) = c /\ (r * Width + c - 1) \div Width = r
      BY <2>1, PlaceOfCell
    <2> DEFINE i == r * Width + c
    <2>3. i - 1 = r * Width + c - 1
      BY <2>1, Widths
    <2>4. cell(i) = rows[r + 1][c]
      BY <2>2, <2>3
    <2> HIDE DEF cell
    <2> QED
      BY <1>1, <2>4 DEF i
  <1>0. Len(rows) * Width = size
    BY <1>1
  <1>4. /\ whole.nulls = [i \in 1..size |-> cell(i) = Null]
        /\ whole.data = [t \in Types |-> [k \in DOMAIN InOrder(S(t)) |-> cell(InOrder(S(t))[k])]]
        /\ whole.row_number = numbers
    BY <1>0 DEF Pack
  <1> HIDE DEF cell
  <1>5. \A t \in Types :
          /\ Cardinality(S(t)) \in Nat
          /\ \A i \in S(t) : LET k == Cardinality({j \in S(t) : j <= i})
                             IN k \in 1..Cardinality(S(t)) /\ InOrder(S(t))[k] = i
    <2> TAKE t \in Types
    <2>1. S(t) \in SUBSET (1..size)
      OBVIOUS
    <2> HIDE DEF S
    <2> QED
      BY <1>2, <2>1, OrderIsRank
  <1>6. /\ Len(whole.nulls) = size
        /\ \A i \in 1..size : whole.nulls[i] <=> cell(i) = Null
        /\ whole.nulls # << >> => size # 0
    <2> DEFINE nulls == whole.nulls
    <2>1. nulls = [i \in 1..size |-> cell(i) = Null]
      BY <1>4
    <2> HIDE DEF nulls
    <2>2. Len(nulls) = size /\ DOMAIN nulls = 1..size
      BY <1>2, <2>1
    <2>3. \A i \in 1..size : nulls[i] <=> cell(i) = Null
      BY <2>1, Zenon
    <2>4. nulls # << >> => size # 0
      BY <1>2, <2>1
    <2> QED
      BY <2>2, <2>3, <2>4 DEF nulls
  <1>7. \A t \in Types :
          /\ Len(whole.data[t]) = Cardinality(S(t))
          /\ \A k \in 1..Cardinality(S(t)) : whole.data[t][k] = cell(InOrder(S(t))[k])
          /\ whole.data[t] # << >> => Cardinality(S(t)) # 0
    <2> TAKE t \in Types
    <2>1. DOMAIN InOrder(S(t)) = 1..Cardinality(S(t)) /\ Cardinality(S(t)) \in Nat
      BY <1>5 DEF InOrder
    <2> HIDE DEF S
    <2>2. whole.data[t] = [k \in 1..Cardinality(S(t)) |-> cell(InOrder(S(t))[k])]
      BY <1>4, <2>1
    <2> HIDE DEF whole
    <2> QED
      BY <2>1, <2>2
  <1>8. /\ Len(p.nulls) \in Nat /\ Len(p.nulls) <= size
        /\ \A i \in 1..Len(p.nulls) : p.nulls[i] <=> cell(i) = Null
        /\ \A t \in Types :
             /\ Len(p.data[t]) \in Nat /\ Len(p.data[t]) <= Cardinality(S(t))
             /\ \A k \in 1..Len(p.data[t]) : p.data[t][k] = cell(InOrder(S(t))[k])
        /\ p.row_number = numbers
    <2> DEFINE Shorter(s) == IF s = << >> THEN s ELSE Front(s)
    <2>1. /\ p.nulls = (IF flaw = "no_null" THEN Shorter(whole.nulls) ELSE whole.nulls)
          /\ p.data = [t \in Types |->
               IF flaw = "no_value" THEN Shorter(whole.data[t]) ELSE whole.data[t]]
          /\ p.row_number = whole.row_number
      BY DEF Packet, rows
    <2> HIDE DEF p, whole, S, numbers, size
    <2>2. /\ Len(p.nulls) \in Nat /\ Len(p.nulls) <= size
          /\ \A i \in 1..Len(p.nulls) : p.nulls[i] = whole.nulls[i]
      BY <1>2, <1>6, <2>1, FrontIsShorter
    <2>3. ASSUME NEW t \in Types
          PROVE  /\ Len(p.data[t]) \in Nat /\ Len(p.data[t]) <= Cardinality(S(t))
                 /\ \A k \in 1..Len(p.data[t]) : p.data[t][k] = whole.data[t][k]
      <3> DEFINE old == whole.data[t]
                 new == p.data[t]
      <3>1. new = old \/ new = Shorter(old)
        BY <2>1
      <3>2. Len(old) \in Nat /\ Len(old) = Cardinality(S(t)) /\ (old # << >> => Len(old) # 0)
        BY <1>5, <1>7
      <3> HIDE DEF old, new
      <3>3. Len(new) \in Nat /\ Len(new) <= Len(old) /\ \A k \in 1..Len(new) : new[k] = old[k]
        BY <3>1, <3>2, FrontIsShorter
      <3> QED
        BY <3>2, <3>3 DEF old, new
    <2>4. \A i \in 1..Len(p.nulls) : p.nulls[i] <=> cell(i) = Null
      BY <1>2, <1>6, <2>2
    <2>5. ASSUME NEW t \in Types, NEW k \in 1..Len(p.data[t])
          PROVE  p.data[t][k] = cell(InOrder(S(t))[k])
      BY <1>5, <1>7, <2>3
    <2> QED
      BY <1>4, <2>1, <2>2, <2>3, <2>4, <2>5
  <1> HIDE DEF p, whole
  <1>9. ASSUME NEW r \in 0..n - 1, NEW c \in Cols, r * Width + c <= Len(p.nulls)
        PROVE  LET i == r * Width + c
                   t == Columns[c]
                   here == table[start + r + 1][c]
                   k == Cardinality(Places(p, i, t))
               IN /\ p.nulls[i] <=> here = Null
                  /\ ~p.nulls[i] /\ k <= Len(p.data[t]) => p.data[t][k] = here
    <2> DEFINE i == r * Width + c
               t == Columns[c]
               here == table[start + r + 1][c]
               k == Cardinality(Places(p, i, t))
    <2>1. i \in 1..size /\ i \in 1..Len(p.nulls) /\ ColumnOf(i) = c /\ t \in Types
      <3>1. r \in Nat
        OBVIOUS
      <3>2. i \in 1..size /\ i \in Nat \ {0} /\ ColumnOf(i) = c
        BY <3>1, PlaceOfCell, RowsInOrder
      <3> QED
        BY <1>8, <1>9, <3>2 DEF Types
    <2>2. cell(i) = here
      BY <1>3
    <2> HIDE DEF i, t, here
    <2>3. p.nulls[i] <=> here = Null
      BY <1>8, <2>1, <2>2
    <2>4. ASSUME ~p.nulls[i], k <= Len(p.data[t])
          PROVE  p.data[t][k] = here
      <3>1. i \in S(t)
        BY <2>1, <2>2, <2>3, <2>4 DEF t
      <3>2. Places(p, i, t) = {j \in S(t) : j <= i}
        BY <1>2, <1>8, <2>1 DEF Places
      <3> HIDE DEF S
      <3>3. k \in 1..Cardinality(S(t)) /\ InOrder(S(t))[k] = i
        BY <1>5, <2>1, <3>1, <3>2
      <3> HIDE DEF k
      <3>4. Len(p.data[t]) \in Nat /\ Cardinality(S(t)) \in Nat
        BY <1>5, <1>8, <2>1
      <3>5. k \in 1..Len(p.data[t])
        BY <2>4, <3>3, <3>4
      <3> QED
        BY <1>8, <2>1, <2>2, <3>3, <3>5
    <2> QED
      BY <2>3, <2>4 DEF i, t, here
  <1>10. \A r \in 0..n - 1 : p.row_number[r + 1] = start + r + 1
    BY <1>8
  <1> QED
    BY <1>8, <1>9, <1>10 DEF Tells, p

-----------------------------------------------------------------------------
(* The offsets                                                             *)

\* increment_col_offsets, from the counters of the row before.
LEMMA RowIsCounted ==
  ASSUME NEW p, Len(p.nulls) \in Nat, NEW row \in Nat, NEW reset \in BOOLEAN,
         reset => row = 0,
         ~reset => \A t \in Types : m_values_per_row[t] = Cardinality(Places(p, row * Width, t)),
         IncrementColOffsets(p, row, reset), ~raised'
  PROVE  Counted(p, row, m_col_offsets', m_values_per_row')
  <1> DEFINE m == row * Width
             base == IF reset THEN [t \in Types |-> 0] ELSE m_values_per_row
  <1>1. m \in Nat /\ Width \in Nat \ {0} /\ Cols = 1..Width
    BY Widths
  <1>2. /\ ~(Len(p.nulls) <= m + Width - 1)
        /\ m_col_offsets' = ColOffsets(p, row, reset).offsets
        /\ m_values_per_row' = ColOffsets(p, row, reset).counts
    <2>1. ~Raise(TRUE)
      BY Zenon DEF Raise
    <2> QED
      BY <2>1, Zenon DEF IncrementColOffsets
  <1>3. m + Width <= Len(p.nulls)
    BY <1>1, <1>2
  <1>4. \A t \in Types : base[t] = Cardinality(Places(p, m, t))
    <2> TAKE t \in Types
    <2>1. CASE reset
      <3>1. m = 0
        BY <1>1, <2>1
      <3>2. Places(p, 0, t) = {}
        BY DEF Places
      <3> QED
        BY <2>1, <3>1, <3>2, FS_EmptySet
    <2> QED
      BY <2>1
  <1>5. \A t \in Types : m_values_per_row'[t] = Cardinality(Places(p, m + Width, t))
    <2> TAKE t \in Types
    <2>1. m_values_per_row'[t] = base[t] + Cardinality(InRow(p, row, Width, t))
      <3>1. {d \in {e \in Cols : Columns[e] = t} : ~p.nulls[row * Width + d]}
               = InRow(p, row, Width, t)
        BY <1>1 DEF InRow
      <3> QED
        BY <1>2, <3>1 DEF ColOffsets
    <2>2. Cardinality(Places(p, m + Width, t)) = Cardinality(Places(p, m, t)) + Cardinality(InRow(p, row, Width, t))
      BY <1>1, PlacesInRow
    <2> QED
      BY <1>4, <2>1, <2>2
  <1>6. ASSUME NEW c \in Cols, ~p.nulls[m + c]
        PROVE  /\ m_col_offsets'[c] \in Nat
               /\ m_col_offsets'[c] + 1 = Cardinality(Places(p, m + c, Columns[c]))
    <2> DEFINE t == Columns[c]
               E == {d \in 1..c - 1 : Columns[d] = t /\ ~p.nulls[m + d]}
    <2>1. m_col_offsets'[c] = base[t] + Cardinality(E)
      <3>1. {d \in {e \in Cols : Columns[e] = Columns[c]} \cap 1..c - 1 : ~p.nulls[row * Width + d]} = E
        BY <1>1
      <3>2. c \in {d \in Cols : ~p.nulls[row * Width + d]}
        BY <1>6
      <3> QED
        BY <1>2, <3>1, <3>2 DEF ColOffsets
    <2>2. Cardinality(Places(p, m + c, t)) = Cardinality(Places(p, m, t)) + Cardinality(InRow(p, row, c, t))
      BY PlacesInRow
    <2>3. InRow(p, row, c, t) = E \cup {c} /\ c \notin E
      <3>1. \A d : d \in 1..c <=> d \in 1..c - 1 \/ d = c
        BY <1>1
      <3>2. c \notin 1..c - 1
        BY <1>1
      <3> QED
        BY <1>6, <3>1, <3>2 DEF InRow
    <2>4. IsFiniteSet(E) /\ Cardinality(E) \in Nat
      <3>1. E \in SUBSET (1..c) /\ c \in Nat
        BY <1>1
      <3> HIDE DEF E
      <3> QED
        BY <3>1, FinitelyMany
    <2>5. Cardinality(E \cup {c}) = Cardinality(E) + 1
      <3> HIDE DEF E
      <3> QED
        BY <2>3, <2>4, FS_AddElement
    <2>6. t \in Types /\ Cardinality(Places(p, m, t)) \in Nat
      BY PlacesInRow DEF Types
    <2> HIDE DEF E, base, t
    <2> QED
      BY <1>4, <2>1, <2>2, <2>3, <2>4, <2>5, <2>6 DEF t
  <1> QED
    BY <1>3, <1>5, <1>6 DEF Counted

-----------------------------------------------------------------------------
(* The input iterator                                                      *)

\* No exception is taken back.
LEMMA RaisedStays ==
  ASSUME NEW thrown, Raise(thrown), raised
  PROVE  raised'
  BY Zenon DEF Raise

\* The rows of a new packet.
LEMMA ReceiveKeepsInv ==
  ASSUME IsSequence(table), table' = table, NEW start \in Nat, start <= Len(table),
         ReceiveNextData(start), ~stalled' => m_rows_group_completed' = start + 1
  PROVE  InputInv'
  <1>0. Len(table) \in Nat
    BY DEF IsSequence
  <1>1. CASE ReceiveEnd(start) \/ ReceiveError(start)
    <2>1. sent' = start /\ m_rows_received' = 0 /\ m_rows_completed' = 0
      BY <1>1 DEF ReceiveEnd, ReceiveError
    <2> QED
      BY <2>1 DEF InputInv, Reading
  <1>2. ASSUME NEW n \in 1..Len(table) - start,
               NEW flaw \in {"none", "no_null", "no_value"},
               ReceiveRows(start, n, flaw)
        PROVE  InputInv'
    <2>1. /\ sent' = start + n /\ m_rows_received' = n /\ m_rows_completed' = 0
          /\ packet' = Packet(start, n, flaw)
          /\ IncrementColOffsets(packet', 0, TRUE)
      BY <1>2 DEF ReceiveRows
    <2>2. n \in Nat \ {0} /\ start + n <= Len(table) /\ start = sent' - m_rows_received'
      BY <1>0, <1>2, <2>1
    <2>3. Tells(table', packet', start, n)
      BY <2>1, <2>2, PacketTells
    <2>4. (Tells(table, packet, sent - m_rows_received, m_rows_received))'
      BY <2>1, <2>2, <2>3
    <2>5. m_current_row' = start + 1
      <3>1. m_current_row' = packet'.row_number[0 + 1]
        BY <2>1, Zenon DEF IncrementColOffsets
      <3> QED
        BY <2>2, <2>3, <3>1 DEF Tells
    <2>6. ~raised' => Counted(packet', 0, m_col_offsets', m_values_per_row')
      BY <2>1, <2>3, RowIsCounted, Zenon DEF Tells
    <2>7. Position' = start + 1
      BY <2>1, <2>2 DEF Position
    <2> QED
      BY <2>1, <2>2, <2>4, <2>5, <2>6, <2>7 DEF InputInv, Reading
  <1> QED
    BY <1>1, <1>2 DEF ReceiveNextData

\* An end of the group is one the database has sent.
LEMMA ReceiveIsHonest ==
  ASSUME NEW start \in Nat, ReceiveNextData(start)
  PROVE  ~raised' => ~raised /\ (Eot' => sent' = start)
  <1>1. CASE ReceiveError(start)
    BY <1>1, Zenon DEF ReceiveError, Raise
  <1>2. CASE ReceiveEnd(start)
    BY <1>2, RaisedStays DEF ReceiveEnd
  <1>3. ASSUME NEW n \in 1..Len(table) - start, NEW flaw, ReceiveRows(start, n, flaw)
        PROVE  (~raised' => ~raised) /\ ~Eot'
    <2>1. m_rows_received' = n /\ IncrementColOffsets(packet', 0, TRUE)
      BY <1>3 DEF ReceiveRows
    <2>2. ~raised' => ~raised
      BY <2>1, RaisedStays, Zenon DEF IncrementColOffsets
    <2> QED
      BY <1>3, <2>1, <2>2 DEF Eot
  <1> QED
    BY <1>1, <1>2, <1>3 DEF ReceiveNextData

\* A step that leaves the iterator where it is.
LEMMA InputStays ==
  ASSUME InputInv, UNCHANGED <<table, sent, dataVars, stalled>>, raised => raised'
  PROVE  InputInv'
  BY DEF InputInv, Reading, Position, dataVars

\* next()
LEMMA NextKeepsInv ==
  ASSUME InputInv, InputNext
  PROVE  InputInv'
  <1> USE DEF InputInv
  <1>1. CASE InputNextFinished
    <2>1. raised => raised'
      BY <1>1, RaisedStays DEF InputNextFinished
    <2> QED
      BY <1>1, <2>1, InputStays DEF InputNextFinished
  <1>2. CASE InputNextForced
    <2>1. m_rows_completed' \in Nat /\ stalled'
      BY <1>2 DEF InputNextForced
    <2>2. UNCHANGED <<table, sent, packet, m_rows_received>>
      BY <1>2 DEF InputNextForced
    <2> QED
      BY <2>1, <2>2 DEF Reading
  <1>3. CASE InputNextRow
    <2> DEFINE row == m_rows_completed + 1
    <2>1. /\ row < m_rows_received
          /\ m_rows_completed' = row /\ m_rows_group_completed' = m_rows_group_completed + 1
          /\ IncrementColOffsets(packet, row, FALSE)
          /\ UNCHANGED <<table, sent, packet, m_rows_received, stalled>>
      BY <1>3 DEF InputNextRow
    <2>2. row \in Nat \ {0} /\ row \in 0..m_rows_received - 1
      BY <2>1
    <2>3. Tells(table, packet, sent - m_rows_received, m_rows_received)
      BY <2>1, <2>2
    <2>4. raised => raised'
      BY <2>1, RaisedStays DEF IncrementColOffsets
    <2>5. ASSUME Reading'
          PROVE  m_current_row' = Position' /\ m_rows_group_completed' = Position'
      <3>1. Reading /\ Position' = Position + 1 /\ m_rows_group_completed = Position
        BY <2>1, <2>2, <2>5 DEF Reading, Position
      <3>2. m_current_row' = packet.row_number[row + 1]
        BY <2>1, Zenon DEF IncrementColOffsets
      <3>3. m_current_row' = (sent - m_rows_received) + row + 1
        BY <2>2, <2>3, <3>2 DEF Tells
      <3> QED
        BY <2>1, <2>2, <3>1, <3>3 DEF Position
    <2>6. ASSUME Reading', ~raised'
          PROVE  Counted(packet, row, m_col_offsets', m_values_per_row')
      <3>1. Reading /\ ~raised
        BY <2>1, <2>4, <2>6 DEF Reading
      <3>2. Counted(packet, m_rows_completed, m_col_offsets, m_values_per_row)
        BY <3>1
      <3>3. m_rows_completed * Width + Width = row * Width
        BY Widths
      <3>4. \A t \in Types : m_values_per_row[t] = Cardinality(Places(packet, row * Width, t))
        BY <3>2, <3>3 DEF Counted
      <3> QED
        BY <2>1, <2>2, <2>3, <2>6, <3>4, RowIsCounted, Zenon DEF Tells
    <2> HIDE DEF row
    <2> QED
      BY <2>1, <2>2, <2>3, <2>5, <2>6 DEF Reading
  <1>4. CASE InputNextPacket
    <2>1. /\ ReceiveNextData(sent) /\ table' = table /\ stalled' = stalled
          /\ m_rows_received # 0 /\ m_rows_completed + 1 >= m_rows_received
          /\ m_rows_group_completed' = m_rows_group_completed + 1
      BY <1>4 DEF InputNextPacket
    <2>2. ~stalled' => m_rows_group_completed' = sent + 1
      BY <2>1 DEF Reading, Position
    <2> QED
      BY <2>1, <2>2, ReceiveKeepsInv
  <1> QED
    BY <1>1, <1>2, <1>3, <1>4 DEF InputNext

\* Every call of the iterator.
LEMMA InputKeepsInv ==
  ASSUME InputInv,
         \/ InputStart \/ InputNext \/ InputReset \/ InputGetWrong \/ CheckException
         \/ UNCHANGED inputVars
  PROVE  InputInv'
  <1>1. CASE InputStart \/ InputReset
    <2>1. table' = table /\ ReceiveNextData(0) /\ m_rows_group_completed' = 0 + 1
      BY <1>1 DEF InputStart, InputReset
    <2>2. IsSequence(table) /\ 0 <= Len(table)
      BY DEF InputInv, IsSequence
    <2> QED
      BY <2>1, <2>2, ReceiveKeepsInv
  <1>2. CASE InputGetWrong \/ CheckException \/ UNCHANGED inputVars
    <2>1. UNCHANGED <<table, sent, dataVars, stalled>>
      BY <1>2 DEF InputGetWrong, CheckException, inputVars
    <2>2. raised => raised'
      BY <1>2, RaisedStays DEF InputGetWrong, CheckException, inputVars
    <2> QED
      BY <2>1, <2>2, InputStays
  <1> QED
    BY <1>1, <1>2, NextKeepsInv

\* The iterator before the first call.
LEMMA InputInitInv == InputInit => InputInv
  <1> SUFFICES ASSUME InputInit PROVE InputInv
    OBVIOUS
  <1>1. IsSequence(table)
    <2> DEFINE T(n) == {[r \in 1..n |-> [c \in Cols |-> Cell(r, c, kinds[<<r, c>>])]] :
                          kinds \in [(1..n) \X Cols -> {"null", "plain"} \union Tails]}
    <2>0. PICK n \in 0..MaxRows : table \in T(n)
      BY Zenon DEF InputInit, Tables
    <2>1. \E kinds : table = [r \in 1..n |-> [c \in Cols |-> Cell(r, c, kinds[<<r, c>>])]]
      BY <2>0
    <2>2. DOMAIN table = 1..n /\ table = [r \in DOMAIN table |-> table[r]]
      BY <2>1
    <2>3. n \in Nat
      BY IteratorAssumption
    <2>4. table \in Seq({table[r] : r \in 1..n})
      BY <2>2, <2>3
    <2> QED
      BY <2>4 DEF IsSequence
  <1>2. sent = 0 /\ m_rows_received = 0 /\ m_rows_completed = 0
    BY DEF InputInit
  <1> QED
    BY <1>1, <1>2 DEF InputInv, Reading, IsSequence

\* What a getter returns.
LEMMA GetIsRight == InputInv => InputFaithful
  <1> SUFFICES ASSUME InputInv, Reading, ~raised, NEW c \in Cols, ~Get(c).throws
               PROVE  Get(c).cell = table[Position][c]
    BY DEF InputInv, InputFaithful
  <1> DEFINE i == m_rows_completed * Width + c
             t == Columns[c]
             start == sent - m_rows_received
             here == table[Position][c]
             k == Cardinality(Places(packet, i, t))
  <1>1. /\ m_rows_completed \in 0..m_rows_received - 1
        /\ Tells(table, packet, start, m_rows_received)
        /\ Counted(packet, m_rows_completed, m_col_offsets, m_values_per_row)
        /\ Position = start + m_rows_completed + 1
    BY DEF InputInv, Reading, Position
  <1>2. i = Width * m_rows_completed + c /\ i <= Len(packet.nulls) /\ t \in Types
    BY <1>1, Widths DEF Counted, Tells, Types
  <1>3. (packet.nulls[i] <=> here = Null)
        /\ (~packet.nulls[i] /\ k <= Len(packet.data[t]) => packet.data[t][k] = here)
    BY <1>1, <1>2 DEF Tells
  <1>4. ~packet.nulls[i] => m_col_offsets[c] \in Nat /\ m_col_offsets[c] + 1 = k
    BY <1>1 DEF Counted
  <1>5. Len(packet.data[t]) \in Nat /\ Len(packet.nulls) \in Nat /\ i \in Int
    BY <1>1, <1>2, Widths DEF Tells
  <1> HIDE DEF i, here, k
  <1>6. ~(i > Len(packet.nulls))
    BY <1>2, <1>5
  <1>7. CASE packet.nulls[i]
    <2>1. CheckValue(c).index = 0
      BY <1>2, <1>6, <1>7 DEF CheckValue
    <2> QED
      BY <1>3, <1>7, <2>1 DEF Get, here
  <1>8. CASE ~packet.nulls[i]
    <2>1. CheckValue(c).throws <=> ~(m_col_offsets[c] < Len(packet.data[t]))
      BY <1>2, <1>6, <1>8 DEF CheckValue
    <2>2. m_col_offsets[c] < Len(packet.data[t])
      BY <2>1 DEF Get
    <2>3. CheckValue(c).index = m_col_offsets[c] + 1
      BY <1>2, <1>6, <1>8, <2>2 DEF CheckValue
    <2>4. k <= Len(packet.data[t]) /\ k # 0 /\ CheckValue(c).index = k
      BY <1>4, <1>5, <1>8, <2>2, <2>3
    <2> QED
      BY <1>3, <1>8, <2>4 DEF Get, here
  <1> QED
    BY <1>7, <1>8

-----------------------------------------------------------------------------
(* The copying VM                                                          *)

\* The first k rows of the group, as the VM returns them.
Copied(rows, k) ==
  [r \in 1..k |-> [cells |-> [c \in Cols |-> CString(rows[r][c])], number |-> r]]

\* Only a scalar function is told to stop, and it ends at once.
StopInv ==
  /\ inp_force_finish => scalar
  /\ stalled => pc \in {"flush", "done"}

\* Until something fails, the VM has accepted the rows it has read.
CopyInv ==
  ~raised =>
    /\ torn = "no"
    /\ pc = "start" => accepted = << >>
    /\ pc \in {"loop", "emit", "flush", "done"} => accepted = Copied(table, m_rows_group_completed - 1)
    /\ pc = "next" => accepted = Copied(table, m_rows_group_completed)
    /\ pc \in {"emit", "next"} => Reading
    /\ pc \in {"loop", "flush", "done"} /\ ~stalled /\ Eot => m_rows_group_completed = sent + 1
    /\ pc \in {"flush", "done"} /\ ~stalled => Eot
    /\ pc = "emit" => \A c \in Cols :
                        Entry(m_rowdata, m_current_row).cells[c] = CString(table[m_current_row][c])
    /\ pc = "done" => delivered = accepted

\* What holds of the copying VM and of a UDF that makes any calls.
RowsInv ==
  /\ InputInv
  /\ OutputInv
  /\ udf = "forward" => StopInv /\ CopyInv
  /\ udf # "forward" => pc = "start"

\* The input side of every step.
LEMMA InputStep ==
  ASSUME InputInv, [RowsNext]_<<vars, udf>>
  PROVE  InputInv'
  <1>1. CASE \/ InputStart \/ InputNext \/ InputReset \/ InputGetWrong \/ CheckException
             \/ UNCHANGED inputVars
    BY <1>1, InputKeepsInv
  <1>2. ASSUME UNCHANGED <<table, sent, dataVars, stalled>>, NEW thrown, Raise(thrown)
        PROVE  InputInv'
    BY <1>2, InputStays, RaisedStays
  <1>3. CASE CopyRow \/ OutputSetWrong \/ OutputNextFails
    BY <1>2, <1>3 DEF CopyRow, OutputSetWrong, OutputNextFails
  <1>4. ASSUME NEW result, OutputFlush(result) \/ OutputNextRow(result)
        PROVE  InputInv'
    BY <1>2, <1>4 DEF OutputFlush, OutputNextRow, Send, Keep
  <1>5. CASE OutputReinitialize \/ \E c \in Cols : OutputSetNull(c) \/ \E v : OutputSetValue(c, v)
    <2>1. UNCHANGED inputVars
      BY <1>5 DEF OutputReinitialize, OutputSetNull, OutputSetValue
    <2> QED
      BY <1>1, <2>1
  <1>6. CASE Next
    BY <1>1, <1>3, <1>4, <1>6
      DEF Next, Start, NextRow, LoopEnds, Done, EmitRow, Flush, OutputNext, vars
  <1>7. CASE InputCalls
    BY <1>1, <1>7 DEF InputCalls
  <1>8. CASE OutputCalls
    BY <1>3, <1>4, <1>5, <1>8 DEF OutputCalls, OutputNext
  <1> QED
    BY <1>1, <1>6, <1>7, <1>8 DEF RowsNext, vars

\* The output side of every step.
LEMMA OutputStep ==
  ASSUME OutputInv, [RowsNext]_<<vars, udf>>
  PROVE  OutputInv'
  <1>1. CASE UNCHANGED outputVars
    BY <1>1, SettersKeepInv
  <1>2. CASE OutputSetWrong \/ OutputReinitialize \/ OutputNextFails
    BY <1>2, SettersKeepInv, DropsKeepInv
  <1>3. ASSUME NEW result, OutputFlush(result) \/ OutputNextRow(result)
        PROVE  OutputInv'
    BY <1>3, FlushKeepsInv, NextRowKeepsInv
  <1>4. CASE \E c \in Cols : OutputSetNull(c) \/ \E v : OutputSetValue(c, v)
    BY <1>4, SettersKeepInv
  <1>5. CASE CopyRow
    <2>1. RowOK(m_rowdata')
      BY <1>5 DEF CopyRow, RowOK
    <2> QED
      BY <1>5, <2>1 DEF CopyRow, OutputInv
  <1>6. CASE Next
    BY <1>1, <1>2, <1>3, <1>5, <1>6
      DEF Next, Start, NextRow, LoopEnds, Done, EmitRow, Flush, OutputNext, vars
  <1>7. CASE InputCalls
    BY <1>1, <1>7 DEF InputCalls
  <1>8. CASE OutputCalls
    BY <1>2, <1>3, <1>4, <1>8 DEF OutputCalls, OutputNext
  <1> QED
    BY <1>1, <1>6, <1>7, <1>8 DEF RowsNext, vars

\* One row more.
LEMMA CopiedGrows ==
  ASSUME NEW rows, NEW k \in Nat, NEW row,
         \A c \in Cols : Entry(row, k + 1).cells[c] = CString(rows[k + 1][c])
  PROVE  Append(Copied(rows, k), Entry(row, k + 1)) = Copied(rows, k + 1)
  <1> DEFINE new == Entry(row, k + 1)
             Of(r) == [cells |-> [c \in Cols |-> CString(rows[r][c])], number |-> r]
  <1>1. new = Of(k + 1)
    <2> DEFINE cells == new.cells
    <2>1. cells = [c \in Cols |-> cells[c]] /\ new = [cells |-> cells, number |-> k + 1]
      BY DEF Entry
    <2>2. \A c \in Cols : cells[c] = CString(rows[k + 1][c])
      OBVIOUS
    <2> HIDE DEF new, cells
    <2> QED
      BY <2>1, <2>2
  <1>2. Copied(rows, k) = [r \in 1..k |-> Of(r)] /\ Copied(rows, k + 1) = [r \in 1..k + 1 |-> Of(r)]
    BY DEF Copied
  <1> HIDE DEF new, Of
  <1>3. Append(Copied(rows, k), new) = Copied(rows, k + 1)
    BY <1>1, <1>2
  <1> QED
    BY <1>3 DEF new

\* The constructors, and the getters and setters of one round.
LEMMA ReadKeepsCopy ==
  ASSUME InputInv, StopInv, CopyInv, Start \/ CopyRow \/ LoopEnds
  PROVE  StopInv' /\ CopyInv'
  <1>1. CASE Start
    <2>1. /\ pc = "start" /\ pc' = "loop" /\ ReceiveNextData(0) /\ UNCHANGED outputVars
          /\ m_rows_group_completed' = 1 /\ table' = table
      BY <1>1 DEF Start, InputStart
    <2>2. inp_force_finish' = FALSE /\ stalled' = FALSE
      BY <1>1, Zenon DEF Start, InputStart
    <2>3. StopInv'
      BY <2>2 DEF StopInv
    <2>4. ~raised' => ~raised /\ (Eot' => sent' = 0)
      BY <2>1, ReceiveIsHonest
    <2>5. Copied(table, 0) = << >>
      BY DEF Copied
    <2> QED
      BY <2>1, <2>3, <2>4, <2>5 DEF CopyInv, outputVars
  <1>2. CASE CopyRow
    <2>1. /\ pc = "loop" /\ ~Eot /\ pc' = "emit" /\ Raise(\E c \in Cols : Get(c).throws)
          /\ UNCHANGED <<inp_force_finish, table, sent, dataVars, stalled, scalar, accepted, torn>>
          /\ m_rowdata' = [c \in Cols |->
               [null |-> Get(c).cell = Null, value |-> CString(Get(c).cell)]]
      BY <1>2 DEF CopyRow
    <2>2. Reading /\ StopInv'
      BY <2>1 DEF StopInv, Reading, Eot, InputInv
    <2>3. ASSUME ~raised' PROVE CopyInv'
      <3>1. ~raised /\ \A c \in Cols : ~Get(c).throws
        BY <2>1, <2>3, Zenon DEF Raise
      <3>2. m_current_row = Position /\ \A c \in Cols : Get(c).cell = table[m_current_row][c]
        BY <2>2, <3>1, GetIsRight DEF InputFaithful
      <3>3. \A c \in Cols : Entry(m_rowdata', m_current_row).cells[c] = CString(table[m_current_row][c])
        <4> TAKE c \in Cols
        <4> DEFINE cell == Get(c).cell
        <4>1. (m_rowdata'[c].null <=> cell = Null) /\ m_rowdata'[c].value = CString(cell)
          BY <2>1
        <4> HIDE DEF cell
        <4>2. cell = Null => CString(cell) = Null
          BY DEF CString
        <4>3. Entry(m_rowdata', m_current_row).cells[c] = CString(cell)
          BY <4>1, <4>2 DEF Entry
        <4> QED
          BY <3>2, <4>3 DEF cell
      <3>4. Reading' /\ UNCHANGED <<m_current_row, m_rows_group_completed>>
        BY <2>1, <2>2 DEF Reading, dataVars
      <3> QED
        BY <2>1, <3>1, <3>3, <3>4 DEF CopyInv
    <2> QED
      BY <2>2, <2>3 DEF CopyInv
  <1>3. CASE LoopEnds
    <2>1. pc = "loop" /\ Eot /\ pc' = "flush" /\ UNCHANGED <<inputVars, outputVars>>
      BY <1>3 DEF LoopEnds
    <2> QED
      BY <2>1 DEF StopInv, CopyInv, Eot, inputVars, outputVars, dataVars, Reading
  <1> QED
    BY <1>1, <1>2, <1>3

\* next() of the result handler.
LEMMA EmitKeepsCopy ==
  ASSUME InputInv, StopInv, CopyInv, NEW result, EmitRow(result)
  PROVE  StopInv' /\ CopyInv'
  <1>1. pc = "emit" /\ pc' = "next"
    BY DEF EmitRow
  <1>2. CASE OutputNextRow(result)
    <2>1. /\ UNCHANGED <<table, sent, dataVars, stalled, scalar>>
          /\ torn = "no" => torn' = "no"
          /\ accepted' = Append(accepted, Entry(m_rowdata, m_current_row))
          /\ inp_force_finish' => inp_force_finish \/ scalar
          /\ \E thrown : Raise(thrown)
      BY <1>2 DEF OutputNextRow, Send, Keep
    <2>2. StopInv'
      BY <1>1, <2>1 DEF StopInv
    <2>3. ASSUME ~raised' PROVE CopyInv'
      <3>1. ~raised
        BY <2>1, <2>3, RaisedStays
      <3>2. Reading /\ accepted = Copied(table, m_rows_group_completed - 1)
            /\ \A c \in Cols :
                 Entry(m_rowdata, m_current_row).cells[c] = CString(table[m_current_row][c])
        BY <1>1, <3>1 DEF CopyInv
      <3>3. m_current_row = m_rows_group_completed /\ m_rows_group_completed \in Nat \ {0}
        BY <3>2 DEF InputInv, Reading, Position
      <3> DEFINE k == m_rows_group_completed - 1
      <3>4. k \in Nat /\ m_current_row = k + 1
        BY <3>3
      <3> HIDE DEF k
      <3>5. Append(Copied(table, k), Entry(m_rowdata, k + 1)) = Copied(table, k + 1)
        BY <3>2, <3>4, CopiedGrows
      <3>6. accepted' = Copied(table', m_rows_group_completed')
        BY <2>1, <3>2, <3>3, <3>4, <3>5 DEF k, dataVars
      <3>7. Reading'
        BY <2>1, <3>2 DEF Reading, dataVars
      <3> QED
        BY <1>1, <2>1, <3>1, <3>6, <3>7 DEF CopyInv
    <2> QED
      BY <2>2, <2>3 DEF CopyInv
  <1>3. CASE OutputNextFails
    <2>1. raised'
      BY <1>3, Zenon DEF OutputNextFails, Raise
    <2>2. UNCHANGED <<inp_force_finish, stalled, scalar>>
      BY <1>3 DEF OutputNextFails
    <2> QED
      BY <1>1, <2>1, <2>2 DEF CopyInv, StopInv
  <1> QED
    BY <1>2, <1>3 DEF EmitRow, OutputNext

\* next() of the iterator, and the end of the loop of a scalar function.
LEMMA NextKeepsCopy ==
  ASSUME InputInv, StopInv, CopyInv, NextRow
  PROVE  StopInv' /\ CopyInv'
  <1>1. /\ pc = "next" /\ UNCHANGED outputVars
        /\ pc' = IF scalar /\ (m_rows_received' = 0 \/ stalled') THEN "flush" ELSE "loop"
        /\ ~stalled
    BY DEF NextRow, StopInv
  <1>2. UNCHANGED <<scalar, accepted, torn>>
    BY <1>1 DEF outputVars
  <1>3. CASE InputNextFinished
    <2>1. raised'
      BY <1>3, Zenon DEF InputNextFinished, Raise
    <2>2. UNCHANGED <<inp_force_finish, stalled>>
      BY <1>3 DEF InputNextFinished
    <2> QED
      BY <1>1, <1>2, <2>1, <2>2 DEF CopyInv, StopInv
  <1>4. CASE InputNextForced
    <2>1. /\ inp_force_finish /\ stalled' /\ m_rows_group_completed' = m_rows_group_completed + 1
          /\ UNCHANGED <<inp_force_finish, table, raised>>
      BY <1>4 DEF InputNextForced
    <2>2. scalar /\ pc' = "flush"
      BY <1>1, <2>1 DEF StopInv
    <2>3. ~raised => m_rows_group_completed \in Nat
      BY <1>1 DEF InputInv, CopyInv, Reading, Position
    <2> QED
      BY <1>1, <1>2, <2>1, <2>2, <2>3 DEF CopyInv, StopInv
  <1>5. CASE InputNextRow
    <2>1. /\ m_rows_received # 0 /\ UNCHANGED <<inp_force_finish, table, m_rows_received, stalled>>
          /\ m_rows_group_completed' = m_rows_group_completed + 1
          /\ IncrementColOffsets(packet, m_rows_completed + 1, FALSE)
      BY <1>5 DEF InputNextRow
    <2>2. ~raised' => ~raised
      BY <2>1, RaisedStays, Zenon DEF IncrementColOffsets
    <2>3. ~raised => m_rows_group_completed \in Nat
      BY <1>1 DEF InputInv, CopyInv, Reading, Position
    <2>4. pc' = "loop"
      BY <1>1, <2>1
    <2> QED
      BY <1>1, <1>2, <2>1, <2>2, <2>3, <2>4 DEF CopyInv, StopInv, Eot
  <1>6. CASE InputNextPacket
    <2>1. /\ m_rows_completed + 1 >= m_rows_received /\ ReceiveNextData(sent)
          /\ m_rows_group_completed' = m_rows_group_completed + 1
          /\ UNCHANGED <<inp_force_finish, table, stalled>>
      BY <1>6 DEF InputNextPacket
    <2>2. ~raised' => ~raised /\ (Eot' => sent' = sent)
      BY <2>1, ReceiveIsHonest DEF InputInv
    <2>3. ~raised => m_rows_group_completed \in Nat /\ m_rows_group_completed = sent
      <3> SUFFICES ASSUME ~raised PROVE m_rows_group_completed = sent /\ sent \in Nat
        OBVIOUS
      <3>1. Reading
        BY <1>1 DEF CopyInv
      <3> QED
        BY <2>1, <3>1 DEF InputInv, Reading, Position
    <2>4. pc' = "loop" \/ (pc' = "flush" /\ Eot')
      BY <1>1, <2>1 DEF Eot
    <2> QED
      BY <1>1, <1>2, <2>1, <2>2, <2>3, <2>4 DEF CopyInv, StopInv
  <1> QED
    BY <1>3, <1>4, <1>5, <1>6 DEF NextRow, InputNext

\* The last flush, and the end.
LEMMA FlushKeepsCopy ==
  ASSUME OutputInv, StopInv, CopyInv, (\E result : Flush(result)) \/ UNCHANGED vars
  PROVE  StopInv' /\ CopyInv'
  <1>1. ASSUME NEW result, Flush(result) PROVE StopInv' /\ CopyInv'
    <2>1. /\ pc = "flush" /\ pc' = "done" /\ OutputFlush(result)
          /\ UNCHANGED <<inp_force_finish, table, sent, dataVars, stalled, scalar, accepted>>
          /\ torn = "no" => torn' = "no"
          /\ \E thrown : Raise(thrown)
      BY <1>1 DEF Flush, OutputFlush, Send, Keep
    <2>2. ~raised' => ~raised
      BY <2>1, RaisedStays
    <2>3. torn = "no" /\ ~raised' => delivered' = accepted'
      <3>1. CASE emit.rows > 0 /\ result = "unserialised"
        <4>1. Raise(result # "accepted")
          BY <2>1, <3>1 DEF OutputFlush, Send
        <4>2. raised'
          BY <3>1, <4>1 DEF Raise
        <4> QED
          BY <4>2
      <3>2. CASE ~(emit.rows > 0)
        <4>1. OutputFlush("accepted")
          BY <2>1, <3>2 DEF OutputFlush
        <4> QED
          BY <4>1, FlushKeepsInv
      <3>3. CASE result # "unserialised"
        BY <2>1, <3>3, FlushKeepsInv
      <3> QED
        BY <3>1, <3>2, <3>3
    <2> QED
      BY <2>1, <2>2, <2>3 DEF StopInv, CopyInv, Eot, dataVars
  <1>2. CASE UNCHANGED vars
    BY <1>2 DEF StopInv, CopyInv, Eot, Reading, vars, inputVars, outputVars, dataVars
  <1> QED
    BY <1>1, <1>2

\* Every UDF starts in the invariant.
LEMMA RowsInitInv == RowsInit => RowsInv
  <1> SUFFICES ASSUME RowsInit PROVE RowsInv
    OBVIOUS
  <1>1. InputInv /\ OutputInv
    BY InputInitInv, OutputInitInv DEF RowsInit, Init
  <1>2. pc = "start" /\ accepted = << >>
    BY DEF RowsInit, Init, OutputInit
  <1>3. ~inp_force_finish /\ ~stalled /\ torn = "no"
    BY Zenon DEF RowsInit, Init, InputInit, OutputInit
  <1> QED
    BY <1>1, <1>2, <1>3 DEF RowsInv, StopInv, CopyInv

\* Every step of every UDF keeps it.
LEMMA RowsStep == RowsInv /\ [RowsNext]_<<vars, udf>> => RowsInv'
  <1> SUFFICES ASSUME RowsInv, [RowsNext]_<<vars, udf>> PROVE RowsInv'
    OBVIOUS
  <1>1. InputInv /\ OutputInv /\ InputInv' /\ OutputInv' /\ udf' = udf
    BY InputStep, OutputStep DEF RowsInv, RowsNext
  <1>2. CASE udf = "forward"
    <2>1. StopInv /\ CopyInv
      BY <1>2 DEF RowsInv
    <2>2. ASSUME UNCHANGED vars PROVE StopInv' /\ CopyInv'
      BY <1>1, <2>1, <2>2, FlushKeepsCopy
    <2>3. ASSUME Next PROVE StopInv' /\ CopyInv'
      BY <1>1, <2>1, <2>3, ReadKeepsCopy, EmitKeepsCopy, NextKeepsCopy, FlushKeepsCopy
        DEF Next, Done
    <2>4. StopInv' /\ CopyInv'
      BY <1>2, <2>2, <2>3 DEF RowsNext, vars
    <2> QED
      BY <1>1, <1>2, <2>4 DEF RowsInv
  <1>3. CASE udf # "forward"
    <2>1. pc' = pc
      BY <1>3 DEF RowsNext, InputCalls, OutputCalls, vars
    <2> QED
      BY <1>1, <1>3, <2>1 DEF RowsInv
  <1> QED
    BY <1>2, <1>3

\* The invariant of the row interface.
LEMMA RowsInvariant == RowsSpec => []RowsInv
  <1> QED
    BY RowsInitInv, RowsStep, PTL DEF RowsSpec

-----------------------------------------------------------------------------
(* The size and the limit of a packet                                      *)

\* The message size is the number of bytes in the packet, of which there are
\* finitely many.
SizeInv ==
  /\ \A t \in Types : Len(emit.data[t]) \in Nat
  /\ IsFiniteSet(PacketBytes(emit))
  /\ m_message_size = Cardinality(PacketBytes(emit))

\* An empty packet has no byte.
LEMMA NoBytes == PacketBytes(EmptyPacket) = {} /\ \A t \in Types : Len(EmptyPacket.data[t]) = 0
  <1>1. \A t \in Types : Len(EmptyPacket.data[t]) = 0
    BY DEF EmptyPacket
  <1>2. PacketBytes(EmptyPacket) = {}
    BY <1>1, ByteOfPacket
  <1> QED
    BY <1>1, <1>2

\* A packet that was sent or is the same as before.
LEMMA SizeUntouched ==
  ASSUME SizeInv,
         \/ emit' = EmptyPacket /\ m_message_size' = 0
         \/ UNCHANGED <<emit, m_message_size>>
  PROVE  SizeInv'
  <1>1. CASE emit' = EmptyPacket /\ m_message_size' = 0
    <2>1. PacketBytes(emit') = {} /\ \A t \in Types : Len(emit'.data[t]) = 0
      BY <1>1, NoBytes
    <2>2. IsFiniteSet(PacketBytes(emit')) /\ Cardinality(PacketBytes(emit')) = 0
      BY <2>1, FS_EmptySet
    <2> QED
      BY <1>1, <2>1, <2>2 DEF SizeInv
  <1>2. CASE UNCHANGED <<emit, m_message_size>>
    BY <1>2 DEF SizeInv
  <1> QED
    BY <1>1, <1>2

\* next(), with a whole row and with one that lacks a column.
LEMMA NextKeepsSize ==
  ASSUME SizeInv, NEW result, OutputNext(result)
  PROVE  SizeInv'
  <1>1. CASE OutputNextRow(result)
    <2> DEFINE p == AppendRow(emit, m_rowdata, m_current_row)
               size == m_message_size + Bytes(m_rowdata, Width)
    <2>1. Send(p, size, result) \/ Keep(p, size)
      BY <1>1 DEF OutputNextRow
    <2>2. p.data = AppendColumns(emit, m_rowdata, Width).data /\ Width \in 0..Width
      BY Widths DEF AppendRow
    <2> HIDE DEF p
    <2>3. /\ \A t \in Types : Len(p.data[t]) \in Nat
          /\ IsFiniteSet(PacketBytes(p)) /\ Cardinality(PacketBytes(p)) = size
      BY <2>2, SizeAppended DEF SizeInv
    <2>4. CASE emit' = p /\ m_message_size' = size
      BY <2>3, <2>4 DEF SizeInv
    <2>5. CASE emit' = EmptyPacket /\ m_message_size' = 0
      BY <2>5, SizeUntouched
    <2> QED
      BY <2>1, <2>4, <2>5 DEF Send, Keep
  <1>2. CASE OutputNextFails
    <2> DEFINE n == Min(Missing(m_rowdata)) - 1
    <2>1. /\ Missing(m_rowdata) # {} /\ emit' = AppendColumns(emit, m_rowdata, n)
          /\ m_message_size' = m_message_size + Bytes(m_rowdata, n)
      BY <1>2 DEF OutputNextFails
    <2>2. n \in 0..Width
      BY <2>1, Incomplete
    <2> HIDE DEF n
    <2>3. /\ \A t \in Types : Len(emit'.data[t]) \in Nat
          /\ IsFiniteSet(PacketBytes(emit'))
          /\ Cardinality(PacketBytes(emit')) = Cardinality(PacketBytes(emit)) + Bytes(m_rowdata, n)
      BY <2>1, <2>2, SizeAppended DEF SizeInv
    <2> QED
      BY <2>1, <2>3 DEF SizeInv
  <1> QED
    BY <1>1, <1>2 DEF OutputNext

\* The message size after every step.
LEMMA SizeStep ==
  ASSUME SizeInv, [RowsNext]_<<vars, udf>>
  PROVE  SizeInv'
  <1>1. CASE UNCHANGED <<emit, m_message_size>>
    BY <1>1, SizeUntouched
  <1>2. CASE OutputSetWrong \/ \E c \in Cols : OutputSetNull(c) \/ \E v : OutputSetValue(c, v)
    BY <1>1, <1>2 DEF OutputSetWrong, OutputSetNull, OutputSetValue, outputVars
  <1>3. CASE OutputReinitialize
    BY <1>3, SizeUntouched DEF OutputReinitialize
  <1>4. ASSUME NEW result, OutputFlush(result) PROVE SizeInv'
    <2>1. \/ emit' = EmptyPacket /\ m_message_size' = 0
          \/ UNCHANGED <<emit, m_message_size>>
      BY <1>4 DEF OutputFlush, Send, Keep
    <2> QED
      BY <2>1, SizeUntouched
  <1>5. ASSUME NEW result, OutputNext(result) PROVE SizeInv'
    BY <1>5, NextKeepsSize
  <1>6. CASE Next
    <2>1. CASE Start \/ CopyRow \/ LoopEnds \/ NextRow \/ Done
      BY <1>1, <2>1 DEF Start, CopyRow, LoopEnds, NextRow, Done, vars, outputVars
    <2> QED
      BY <1>4, <1>5, <1>6, <2>1 DEF Next, EmitRow, Flush
  <1>7. CASE InputCalls
    BY <1>1, <1>7 DEF InputCalls, outputVars
  <1>8. CASE OutputCalls
    BY <1>2, <1>3, <1>4, <1>5, <1>8 DEF OutputCalls
  <1> QED
    BY <1>1, <1>6, <1>7, <1>8 DEF RowsNext, vars, outputVars

\* A packet is empty before the first call that may cancel an end of the input.
LimitInv ==
  /\ pc = "start" /\ udf # "output" => m_message_size = 0
  /\ udf # "forward" => pc = "start"
  /\ LimitIsKept

\* A packet that was sent, that no limit is kept for, or that is the same as
\* before.
LEMMA WithinLimit ==
  ASSUME LimitIsKept,
         \/ m_message_size' = 0
         \/ torn' # "no"
         \/ unserialised'
         \/ UNCHANGED <<m_message_size, torn, unserialised, scalar, inp_force_finish>>
  PROVE  LimitIsKept'
  BY HandlerAssumption DEF LimitIsKept

\* flush and next().
LEMMA EmitKeepsLimit ==
  ASSUME LimitIsKept, NEW result, OutputFlush(result) \/ OutputNext(result)
  PROVE  LimitIsKept'
  <1>1. CASE OutputFlush(result)
    <2>1. CASE emit.rows > 0
      <3>1. Send(emit, m_message_size, result)
        BY <1>1, <2>1 DEF OutputFlush
      <3>2. m_message_size' = 0 \/ unserialised'
        BY <3>1, Zenon DEF Send
      <3> QED
        BY <3>2, WithinLimit
    <2>2. CASE ~(emit.rows > 0)
      <3>1. UNCHANGED <<m_message_size, torn, unserialised, scalar, inp_force_finish>>
        BY <1>1, <2>2 DEF OutputFlush, Keep
      <3> QED
        BY <3>1, WithinLimit
    <2> QED
      BY <2>1, <2>2
  <1>2. CASE OutputNextFails
    <2>1. torn' # "no"
      BY <1>2 DEF OutputNextFails
    <2> QED
      BY <2>1, WithinLimit
  <1>3. CASE OutputNextRow(result)
    <2> DEFINE p == AppendRow(emit, m_rowdata, m_current_row)
               size == m_message_size + Bytes(m_rowdata, Width)
               full == size >= MaxVarDatasize
    <2>1. /\ IF full /\ ~scalar THEN Send(p, size, result) ELSE Keep(p, size)
          /\ scalar' = scalar
      BY <1>3 DEF OutputNextRow
    <2>2. full /\ scalar => inp_force_finish'
      BY <1>3 DEF OutputNextRow
    <2> HIDE DEF p
    <2>3. CASE full /\ ~scalar
      <3>1. m_message_size' = 0 \/ unserialised'
        BY <2>1, <2>3, Zenon DEF Send
      <3> QED
        BY <3>1, WithinLimit
    <2>4. CASE ~(full /\ ~scalar)
      <3>1. m_message_size' = size
        BY <2>1, <2>4 DEF Keep
      <3> QED
        BY <2>1, <2>2, <2>4, <3>1 DEF LimitIsKept
    <2> QED
      BY <2>3, <2>4
  <1> QED
    BY <1>1, <1>2, <1>3 DEF OutputNext

\* Every step of every UDF.
LEMMA LimitStep == LimitInv /\ [RowsNext]_<<vars, udf>> => LimitInv'
  <1> SUFFICES ASSUME LimitInv, [RowsNext]_<<vars, udf>> PROVE LimitInv'
    OBVIOUS
  <1> USE DEF LimitInv
  <1>1. CASE UNCHANGED <<vars, udf>>
    BY <1>1, WithinLimit DEF vars, inputVars, outputVars
  <1>2. CASE udf = "forward" /\ Next /\ udf' = udf
    <2>1. LimitIsKept' /\ pc' # "start"
      <3>1. CASE Start
        <4>1. m_message_size' = 0
          BY <1>2, <3>1 DEF Start, outputVars
        <4> QED
          BY <3>1, <4>1, WithinLimit DEF Start
      <3>2. CASE CopyRow \/ LoopEnds \/ Done
        <4>1. UNCHANGED <<m_message_size, torn, unserialised, scalar, inp_force_finish>>
          BY <3>2 DEF CopyRow, LoopEnds, Done, vars, inputVars, outputVars
        <4>2. pc' # "start"
          BY <3>2 DEF CopyRow, LoopEnds, Done, vars
        <4> QED
          BY <4>1, <4>2, WithinLimit
      <3>3. CASE NextRow
        <4>1. UNCHANGED <<m_message_size, torn, unserialised, scalar>> /\ pc' # "start"
          BY <3>3 DEF NextRow, outputVars
        <4>2. inp_force_finish' = inp_force_finish
          BY <3>3 DEF NextRow, InputNext, InputNextFinished, InputNextForced,
                      InputNextRow, InputNextPacket
        <4> QED
          BY <4>1, <4>2, WithinLimit
      <3>4. ASSUME NEW result, EmitRow(result) \/ Flush(result) PROVE LimitIsKept' /\ pc' # "start"
        BY <3>4, EmitKeepsLimit DEF EmitRow, Flush
      <3> QED
        BY <1>2, <3>1, <3>2, <3>3, <3>4 DEF Next
    <2> QED
      BY <1>2, <2>1
  <1>3. CASE udf = "input" /\ InputCalls /\ udf' = udf
    <2>1. m_message_size' = 0 /\ pc' = pc
      BY <1>3 DEF InputCalls, outputVars
    <2> QED
      BY <1>3, <2>1, WithinLimit
  <1>4. CASE udf = "output" /\ OutputCalls /\ udf' = udf
    <2>1. pc' = pc
      BY <1>4 DEF OutputCalls
    <2>2. ASSUME NEW result, OutputNext(result) \/ OutputFlush(result) PROVE LimitIsKept'
      BY <2>2, EmitKeepsLimit
    <2>3. ASSUME OutputReinitialize PROVE LimitIsKept'
      BY <2>3, WithinLimit DEF OutputReinitialize
    <2>4. ASSUME OutputSetWrong \/ \E c \in Cols : OutputSetNull(c) \/ \E v : OutputSetValue(c, v)
          PROVE  LimitIsKept'
      <3>1. UNCHANGED <<m_message_size, torn, unserialised, scalar, inp_force_finish>>
        BY <2>4 DEF OutputSetWrong, OutputSetNull, OutputSetValue, inputVars, outputVars
      <3> QED
        BY <3>1, WithinLimit
    <2>5. LimitIsKept'
      BY <1>4, <2>2, <2>3, <2>4 DEF OutputCalls
    <2> QED
      BY <1>4, <2>1, <2>5
  <1> QED
    BY <1>1, <1>2, <1>3, <1>4 DEF RowsNext

-----------------------------------------------------------------------------
(* The theorems                                                            *)

\* The getters of SWIGTableIterator_Impl return the cells of the current row,
\* for any columns and any group.
THEOREM InputIsFaithful == RowsSpec => []InputFaithful
  <1>1. RowsInv => InputFaithful
    BY GetIsRight DEF RowsInv
  <1> QED
    BY <1>1, RowsInvariant, PTL

\* SWIGResultHandler_Impl delivers the rows that next() has accepted, for any
\* columns and any limit of the packets.
THEOREM OutputIsFaithful == RowsSpec => []OutputFaithful
  <1>1. RowsInv => OutputFaithful
    BY DEF RowsInv, OutputInv, OutputFaithful
  <1> QED
    BY <1>1, RowsInvariant, PTL

\* A VM that copies its input to its output loses no row and adds none.
THEOREM EveryRowIsForwarded == RowsSpec => []ForwardsEveryRow
  <1>1. RowsInv => ForwardsEveryRow
    BY DEF RowsInv, CopyInv, ForwardsEveryRow, Copied
  <1> QED
    BY <1>1, RowsInvariant, PTL

\* The message size of SWIGResultHandler_Impl is the number of bytes in the
\* packet, and a packet at the limit is sent, or the input of a scalar function
\* is at its end, for any sizes of the values and any limit.
THEOREM EmitStaysBounded == RowsSpec => []EmitIsBounded
  <1> DEFINE Inv == SizeInv /\ LimitInv
  <1>1. RowsInit => Inv
    <2> SUFFICES ASSUME RowsInit PROVE Inv
      OBVIOUS
    <2>1. m_message_size = 0 /\ pc = "start" /\ emit = EmptyPacket
      BY DEF RowsInit, Init, OutputInit
    <2>2. LimitInv
      BY <2>1, HandlerAssumption DEF LimitInv, LimitIsKept
    <2> QED
      BY <2>1, <2>2, NoBytes, FS_EmptySet DEF SizeInv
  <1>2. Inv /\ [RowsNext]_<<vars, udf>> => Inv'
    BY SizeStep, LimitStep
  <1>3. Inv => EmitIsBounded
    BY DEF SizeInv, LimitInv, EmitIsBounded, MessageSizeIsRight
  <1> QED
    BY <1>1, <1>2, <1>3, PTL DEF RowsSpec
=============================================================================
