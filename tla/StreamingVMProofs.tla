------------------------- MODULE StreamingVMProofs -------------------------
(***************************************************************************)
(* Proofs about StreamingVM::run, for pipes of any size.                   *)
(***************************************************************************)
EXTENDS StreamingVM, ResultHandlerProofs

-----------------------------------------------------------------------------
(* What went wrong with the child is reported                              *)

\* Nothing that the child wrote to stderr is lost before main closes its end.
EveryMessageCounted ==
  /\ {stderr, messages, errors} \subseteq Nat
  /\ errors = stderr + messages

\* t2 sets the message when it fails.
FailedReaderReported == t2 = "failed" => exception_msg # "none"

\* Where main gives stderr up, it has what it keeps, or there is no more to come.
StderrReadToTheEnd ==
  main \in {"close", "wait"} /\ exception_msg = "none" =>
    messages = ErrLimit \/ (child = "exited" /\ stderr = 0)

\* A run that is over has reported what it collected.
MessagesReported ==
  main = "done" /\ exception_msg = "none" => child = "exited" /\ errors = 0

FailureInv ==
  EveryMessageCounted /\ FailedReaderReported /\ StderrReadToTheEnd /\ MessagesReported

\* No thread and no step of the child loses a failure.
LEMMA FailureStep == FailureInv /\ [Next]_vars => FailureInv'
  <1> SUFFICES ASSUME FailureInv, [Next]_vars PROVE FailureInv'
    OBVIOUS
  <1> USE PipeAssumption
          DEF FailureInv, EveryMessageCounted, FailedReaderReported, StderrReadToTheEnd,
              MessagesReported, pipeVars, childVars, t2Vars
  <1>1. CASE Start
    BY <1>1 DEF Start
  <1>2. CASE InputToCSV
    BY <1>2 DEF InputToCSV
  <1>3. CASE AdvanceInput
    BY <1>3 DEF AdvanceInput
  <1>4. CASE CloseStdin
    BY <1>4 DEF CloseStdin
  <1>5. CASE ReadCSVValue
    BY <1>5 DEF ReadCSVValue, T2Throws
  <1>6. CASE SetColumn
    BY <1>6 DEF SetColumn, T2Throws
  <1>7. ASSUME NEW result \in SendResults, MakeRoom(result) PROVE FailureInv'
    BY <1>7 DEF MakeRoom
  <1>8. ASSUME NEW result \in SendResults, FlushOutput(result) PROVE FailureInv'
    BY <1>8 DEF FlushOutput
  <1>9. CASE JoinThreads
    BY <1>9 DEF JoinThreads
  <1>10. CASE CollectMessage
    BY <1>10 DEF CollectMessage
  <1>11. CASE CollectedAll
    BY <1>11 DEF CollectedAll
  <1>12. CASE CloseStderr
    BY <1>12 DEF CloseStderr
  <1>13. CASE WaitPid
    BY <1>13 DEF WaitPid
  <1>14. CASE ChildReads
    BY <1>14 DEF ChildReads
  <1>15. CASE ChildComplains
    BY <1>15 DEF ChildComplains
  <1>16. CASE ChildIsKilled
    BY <1>16 DEF ChildIsKilled
  <1>17. ASSUME NEW end \in {"comma", "newline"}, ChildWrites(end) PROVE FailureInv'
    BY <1>17 DEF ChildWrites
  <1>18. CASE ChildClosesStdout \/ ChildExits
    BY <1>18 DEF ChildClosesStdout, ChildExits
  <1>19. ASSUME NEW target \in {"out", "err"}, ChildTurnsTo(target) PROVE FailureInv'
    BY <1>19 DEF ChildTurnsTo
  <1>20. CASE UNCHANGED vars
    BY <1>20 DEF vars
  <1> QED
    BY <1>1, <1>2, <1>3, <1>4, <1>5, <1>6, <1>7, <1>8, <1>9, <1>10, <1>11, <1>12, <1>13,
       <1>14, <1>15, <1>16, <1>17, <1>18, <1>19, <1>20
    DEF Next, T1, T2, Main, Done, ChildIO

\* A stream that is not CSV, and anything on stderr, is an error of the run,
\* whenever the child wrote it and however large the pipes are.
THEOREM NoSilentFailure == Spec => []FailureSurfaces
  <1>1. Init => FailureInv
    BY DEF Init, FailureInv, EveryMessageCounted, FailedReaderReported,
           StderrReadToTheEnd, MessagesReported
  <1>2. FailureInv => FailureSurfaces
    BY DEF FailureInv, FailedReaderReported, MessagesReported, FailureSurfaces,
           EveryMessageCounted
  <1> QED
    BY <1>1, <1>2, FailureStep, PTL DEF Spec

-----------------------------------------------------------------------------
(* Every line is delivered: the invariant                                  *)

\* The fields that t2 has read.
Consumed == Len(stream) - Len(stdout)

\* The pipe holds the last fields of the stream, which are numbered, and nothing
\* comes behind the end.
PipeInv ==
  /\ IsSequence(stream) /\ IsSequence(stdout)
  /\ Len(stdout) <= Len(stream)
  /\ \A i \in 1..Len(stdout) : stdout[i] = stream[Consumed + i]
  /\ \A i \in 1..Len(stream) :
       /\ stream[i].value = <<i, 0>>
       /\ stream[i].end \in {"comma", "newline", "eof"}
       /\ stream[i].end = "eof" => i = Len(stream)
  /\ child = "out" => ~ClosedOut /\ Len(stream) < MaxFields
  /\ Len(stream) <= MaxFields + 1
  /\ ~ClosedOut => Len(stream) <= MaxFields

\* The row under construction when k fields of line l are set.
LineRow(l, k) ==
  [c \in Cols |-> [null |-> FALSE,
                   value |-> IF c <= k THEN <<l * Width + c, 0>> ELSE Null]]

\* t2 stands in line L, and every field before was where it belongs.
ReaderAt(L) ==
  /\ \A i \in 1..Consumed : stream[i].end = "comma" <=> ColumnOf(i) # Width
  /\ t2 \in {"none", "next", "flush", "ended"} => column = 1
  /\ t2 \in {"none", "read"} => Consumed = L * Width + (column - 1)
  /\ t2 \in {"next", "set"} =>
       Consumed = L * Width + column /\ readBuffer = stream[Consumed]
  /\ t2 \in {"flush", "ended"} =>
       L > 0 /\ Consumed = L * Width /\ stream[Consumed].end = "eof"
  /\ \A c \in Cols : L > 0 \/ c < column => Columns[c] = "string"

\* next() has been called for line L.
Begun == t2 = "set" \/ (t2 = "read" /\ column > 1)

\* next() has accepted A rows; the row of a whole line stays under construction
\* until the line after it has begun.
RowOf(L, A) ==
  /\ Begun => A = L /\ m_rowdata = LineRow(L, column - 1)
  /\ ~Begun /\ L = 0 => A = 0 /\ m_rowdata = LineRow(0, 0)
  /\ ~Begun /\ L > 0 => A = L - 1 /\ m_rowdata = LineRow(L - 1, Width)

\* The rows in rows and in packet p are the first A lines of the stream.  The
\* packet may have a flag too many: that of the next() before the first line.
Holds(p, rows, A) ==
  /\ IsSequence(rows) /\ p.rows \in Nat /\ Len(rows) + p.rows = A
  /\ \A r \in 1..Len(rows) : rows[r].cells = [c \in Cols |-> <<(r - 1) * Width + c, 0>>]
  /\ Len(p.nulls) \in Nat /\ p.rows * Width <= Len(p.nulls)
  /\ \A i \in 1..Len(p.nulls) : ~p.nulls[i]
  /\ \A t \in Types :
       /\ Len(p.data[t]) = p.rows * Width
       /\ \A j \in 1..p.rows * Width : p.data[t][j] = <<Len(rows) * Width + j, 0>>

StreamInv ==
  /\ PipeInv
  /\ column \in Cols
  /\ ~scalar /\ m_rows_emited \in Nat \ {0}
  /\ t2 # "failed" =>
       \E L, A \in Nat : ReaderAt(L) /\ RowOf(L, A) /\ Holds(emit, delivered, A)
  /\ t2 = "ended" => emit.rows = 0 \/ unserialised
  /\ main = "start" => t2 = "none"
  /\ main \in {"stderr", "close", "wait", "done"} => t2 \in {"ended", "failed"}
  /\ FailedReaderReported

-----------------------------------------------------------------------------
(* Packets of strings without nulls                                        *)

\* There are as many numbers up to n as n says.
LEMMA CountUpTo == \A n \in Nat : IsFiniteSet(1..n) /\ Cardinality(1..n) = n
  <1> TAKE n \in Nat
  <1>1. 1 \in Int /\ n \in Int
    OBVIOUS
  <1> QED
    BY <1>1, FS_Interval

AllStrings == \A c \in Cols : Columns[c] = "string"

\* What the database reads from a packet of whole lines.
LEMMA LinesUnpacked ==
  ASSUME NEW p, NEW rows, NEW A \in Nat, Holds(p, rows, A), p.rows = 0 \/ AllStrings
  PROVE  Holds(EmptyPacket, rows \o Unpack(p), A)
  <1> DEFINE n == p.rows
             D == Len(rows)
             u == Unpack(p)
             all == rows \o u
  <1>1. n \in Nat /\ D \in Nat /\ D + n = A /\ IsSequence(rows) /\ n * Width <= Len(p.nulls)
        /\ Len(p.nulls) \in Nat
    BY DEF Holds, IsSequence
  <1>2. Len(u) = n /\ IsSequence(u)
    BY <1>1, UnpackLength
  <1>3. ASSUME NEW r \in 1..n, NEW c \in Cols
        PROVE  CellAt(p, (r - 1) * Width + c) = <<(D + r - 1) * Width + c, 0>>
    <2> DEFINE i == (r - 1) * Width + c
    <2>1. r - 1 \in Nat /\ r - 1 \in 0..n - 1
      BY <1>1
    <2>2. i \in 1..n * Width /\ ColumnOf(i) = c /\ i \in Nat \ {0}
      BY <1>1, <2>1, PlaceOfCell, RowsInOrder
    <2>3. (D + r - 1) * Width + c = D * Width + i
      BY <1>1, Widths
    <2> HIDE DEF i
    <2>4. Columns[c] = "string" /\ "string" \in Types
      BY <1>1 DEF AllStrings, Types
    <2>5. Places(p, i, "string") = 1..i
      <3>0. n * Width \in Nat
        BY <1>1, Widths
      <3>1. \A j \in 1..i : ~p.nulls[j]
        <4> TAKE j \in 1..i
        <4>1. j \in 1..Len(p.nulls)
          BY <1>1, <2>2, <3>0
        <4> QED
          BY <4>1 DEF Holds
      <3>2. \A j \in 1..i : Columns[ColumnOf(j)] = "string"
        <4> TAKE j \in 1..i
        <4>1. j \in 1..n * Width
          BY <2>2, <3>0
        <4>2. ColumnOf(j) \in Cols
          BY <1>1, <4>1, CellOfPlace
        <4>3. AllStrings
          BY <1>1
        <4> QED
          BY <4>2, <4>3 DEF AllStrings
      <3> QED
        BY <3>1, <3>2 DEF Places
    <2>6. Cardinality(Places(p, i, "string")) = i
      BY <2>2, <2>5, CountUpTo
    <2>7. ~p.nulls[i] /\ p.data["string"][i] = <<D * Width + i, 0>>
          /\ Len(p.data["string"]) = n * Width
      BY <1>1, <2>2, <2>4 DEF Holds
    <2>8. CellAt(p, i) = p.data["string"][i]
      <3>1. Columns[ColumnOf(i)] = "string"
        BY <2>2, <2>4
      <3>2. n * Width \in Nat
        BY <1>1, Widths
      <3> HIDE DEF n
      <3>3. i <= Len(p.data["string"])
        BY <2>2, <2>7, <3>2
      <3> QED
        BY <2>6, <2>7, <3>1, <3>3 DEF CellAt
    <2> QED
      BY <2>3, <2>7, <2>8 DEF i
  <1>4. ASSUME NEW r \in 1..n
        PROVE  u[r].cells = [c \in Cols |-> <<(D + r - 1) * Width + c, 0>>]
    <2>1. u[r].cells = [c \in Cols |-> CellAt(p, (r - 1) * Width + c)]
      BY DEF Unpack, CellAt, Places
    <2> HIDE DEF u, n, D
    <2> QED
      BY <1>3, <2>1
  <1>5. IsSequence(all) /\ Len(all) = D + n
    BY <1>1, <1>2, Joined DEF IsSequence
  <1> HIDE DEF u, n
  <1>6. \A r \in 1..D + n : all[r] = IF r <= D THEN rows[r] ELSE u[r - D]
    BY <1>1, <1>2
  <1> HIDE DEF all
  <1>7. ASSUME NEW r \in 1..Len(all)
        PROVE  all[r].cells = [c \in Cols |-> <<(r - 1) * Width + c, 0>>]
    <2>1. CASE r <= D
      BY <1>1, <1>5, <1>6, <2>1 DEF Holds
    <2>2. CASE r > D
      <3>1. r - D \in 1..n /\ D + (r - D) - 1 = r - 1 /\ all[r] = u[r - D]
        BY <1>1, <1>5, <1>6, <2>2
      <3> QED
        BY <1>4, <3>1
    <2> QED
      BY <1>1, <1>5, <2>1, <2>2
  <1>8. /\ EmptyPacket.rows = 0 /\ EmptyPacket.nulls = << >>
        /\ \A t \in Types : EmptyPacket.data[t] = << >>
    BY DEF EmptyPacket
  <1>9. 0 * Width = 0
    BY Widths
  <1> QED
    BY <1>1, <1>5, <1>7, <1>8, <1>9 DEF Holds, all, u

\* The numbers up to n in order.
LEMMA NumbersInOrder ==
  \A n \in Nat : InOrder(1..n) = [k \in 1..n |-> k]
  <1> TAKE n \in Nat
  <1>1. Cardinality(1..n) = n
    BY CountUpTo
  <1>2. ASSUME NEW i \in 1..n PROVE Cardinality({j \in 1..n : j <= i}) = i
    <2>1. {j \in 1..n : j <= i} = 1..i /\ i \in Nat
      OBVIOUS
    <2> QED
      BY <2>1, CountUpTo
  <1>3. ASSUME NEW k \in 1..n
        PROVE  (CHOOSE i \in 1..n : Cardinality({j \in 1..n : j <= i}) = k) = k
    BY <1>2
  <1> QED
    BY <1>1, <1>3 DEF InOrder

\* next() with the row of line A.
LEMMA LineAppended ==
  ASSUME NEW p, NEW rows, NEW A \in Nat, Holds(p, rows, A), AllStrings, NEW number
  PROVE  Holds(AppendRow(p, LineRow(A, Width), number), rows, A + 1)
  <1> DEFINE q == AppendRow(p, LineRow(A, Width), number)
             row == LineRow(A, Width)
             new == [c \in 1..Width |-> <<A * Width + c, 0>>]
             flags == [c \in 1..Width |-> row[c].null]
             n == p.rows
             D == Len(rows)
  <1>1. n \in Nat /\ D \in Nat /\ D + n = A /\ IsSequence(rows) /\ n * Width <= Len(p.nulls)
        /\ Len(p.nulls) \in Nat /\ \A i \in 1..Len(p.nulls) : ~p.nulls[i]
    BY DEF Holds, IsSequence
  <1>2. \A c \in 1..Width : ~row[c].null /\ row[c].value = <<A * Width + c, 0>>
    <2> TAKE c \in 1..Width
    <2>1. c \in Cols /\ c <= Width
      BY Widths
    <2>2. row[c] = [null |-> FALSE, value |-> <<A * Width + c, 0>>]
      BY <2>1 DEF LineRow
    <2> HIDE DEF row
    <2> QED
      BY <2>2
  <1>3. Types = {"string"} /\ \A c \in 1..Width : Columns[c] = "string"
    BY Widths DEF AllStrings, Types
  <1> HIDE DEF row
  <1>4. {c \in 1..Width : Columns[c] = "string" /\ ~row[c].null} = 1..Width
    BY <1>2, <1>3
  <1>5. InOrder(1..Width) = [k \in 1..Width |-> k]
    BY NumbersInOrder, Widths
  <1>6. (IF Width < Width THEN Width + 1 ELSE Width) = Width
    BY Widths
  <1>7. [k \in DOMAIN InOrder(1..Width) |-> row[InOrder(1..Width)[k]].value] = new
    <2> DEFINE o == InOrder(1..Width)
    <2>1. DOMAIN o = 1..Width /\ \A k \in 1..Width : o[k] = k
      BY <1>5
    <2> HIDE DEF o
    <2>2. \A k \in 1..Width : row[o[k]].value = <<A * Width + k, 0>>
      BY <1>2, <2>1
    <2>3. [k \in DOMAIN o |-> row[o[k]].value] =
          [c \in 1..Width |-> <<A * Width + c, 0>>]
      BY <2>1, <2>2
    <2> QED
      BY <2>3 DEF o
  <1>8. Len(flags) = Width /\ \A c \in 1..Width : ~flags[c]
    BY <1>2, Widths
  <1> HIDE DEF new, flags
  <1>9. q.rows = n + 1 /\ q.nulls = p.nulls \o flags
        /\ q.data["string"] = p.data["string"] \o new
    BY <1>3, <1>4, <1>6, <1>7 DEF AppendRow, AppendColumns, row, flags
  <1> HIDE DEF q
  <1>11. Len(new) = Width /\ \A c \in 1..Width : new[c] = <<A * Width + c, 0>>
    BY Widths DEF new
  <1>12. n * Width \in Nat /\ D * Width \in Nat
    BY <1>1, Widths
  <1>13. (n + 1) * Width = n * Width + Width
    BY <1>1, Widths
  <1>14. A * Width = D * Width + n * Width
    <2>1. (D + n) * Width = D * Width + n * Width
      BY <1>1, Widths
    <2> QED
      BY <1>1, <2>1
  <1> DEFINE old == p.nulls
             nulls == q.nulls
  <1>15. Len(nulls) = Len(old) + Width /\ \A i \in 1..Len(nulls) : ~nulls[i]
    <2>1. nulls = old \o flags /\ Len(old) \in Nat /\ \A i \in 1..Len(old) : ~old[i]
      BY <1>1, <1>9
    <2> HIDE DEF nulls, old, n, D, flags
    <2>2. Len(nulls) = Len(old) + Width
      BY <1>8, <2>1, Widths
    <2>3. \A i \in 1..Len(old) + Width :
            nulls[i] = IF i <= Len(old) THEN old[i] ELSE flags[i - Len(old)]
      BY <1>8, <2>1, Widths
    <2>4. ASSUME NEW i \in 1..Len(old) + Width PROVE ~nulls[i]
      <3>1. i > Len(old) => i - Len(old) \in 1..Width
        BY <2>1, Widths
      <3> QED
        BY <1>8, <2>1, <2>3, <3>1
    <2> QED
      BY <2>2, <2>4
  <1> DEFINE before == p.data["string"]
             values == q.data["string"]
             m == n * Width
  <1>16. /\ Len(before) = m
         /\ \A j \in 1..m : before[j] = <<D * Width + j, 0>>
    BY <1>3 DEF Holds
  <1>17. values = before \o new
    BY <1>9
  <1>18. m \in Nat /\ D * Width \in Nat
    BY <1>12
  <1> HIDE DEF before, values, m
  <1>19. Len(values) = m + Width
    BY <1>11, <1>16, <1>17, <1>18, Widths
  <1>20. \A j \in 1..m + Width : values[j] = IF j <= m THEN before[j] ELSE new[j - m]
    <2>1. Len(before) = m /\ Len(new) = Width /\ Width \in Nat
      BY <1>11, <1>16, Widths
    <2> QED
      BY <1>17, <1>18, <2>1
  <1>21. ASSUME NEW j \in 1..m + Width PROVE values[j] = <<D * Width + j, 0>>
    <2>1. CASE j <= m
      BY <1>16, <1>18, <1>20, <2>1
    <2>2. CASE j > m
      <3>1. j - m \in 1..Width /\ A * Width = D * Width + m
        BY <1>14, <1>18, <2>2, Widths DEF m
      <3>2. A * Width + (j - m) = D * Width + j
        BY <1>18, <3>1
      <3> QED
        BY <1>11, <1>18, <1>20, <2>2, <3>1, <3>2
    <2> QED
      BY <1>18, <2>1, <2>2
  <1>22. /\ Len(rows) + q.rows = A + 1 /\ q.rows \in Nat
         /\ q.rows * Width = m + Width /\ m + Width <= Len(q.nulls) /\ Len(q.nulls) \in Nat
    <2>1. q.rows = n + 1 /\ q.rows * Width = m + Width
      BY <1>1, <1>9, <1>13 DEF m
    <2>2. Len(q.nulls) = Len(p.nulls) + Width /\ m <= Len(p.nulls)
      BY <1>1, <1>15 DEF m
    <2> HIDE DEF n, D
    <2>3. D + (n + 1) = A + 1
      BY <1>1
    <2> QED
      BY <1>1, <1>18, <2>1, <2>2, <2>3, Widths DEF D
  <1>23. \A r \in 1..Len(rows) :
           rows[r].cells = [c \in Cols |-> <<(r - 1) * Width + c, 0>>]
    BY DEF Holds
  <1>24. Holds(q, rows, A + 1)
    BY <1>1, <1>3, <1>15, <1>19, <1>21, <1>22, <1>23 DEF Holds, values
  <1> QED
    BY <1>24 DEF q

\* The next() before the first line fails and leaves a flag behind.
LEMMA NothingAppended ==
  ASSUME NEW p, NEW rows, NEW A \in Nat, Holds(p, rows, A)
  PROVE  Holds(AppendColumns(p, EmptyRow, 0), rows, A)
  <1> DEFINE q == AppendColumns(p, EmptyRow, 0)
             flags == [c \in 1..1 |-> EmptyRow[c].null]
  <1>1. p.rows \in Nat /\ p.rows * Width \in Nat /\ p.rows * Width <= Len(p.nulls)
        /\ Len(p.nulls) \in Nat /\ \A i \in 1..Len(p.nulls) : ~p.nulls[i]
    BY Widths DEF Holds
  <1>2. (IF 0 < Width THEN 0 + 1 ELSE 0) = 1 /\ 1 \in Cols
    BY Widths
  <1>3. \A t : InOrder({c \in 1..0 : Columns[c] = t /\ ~EmptyRow[c].null}) = << >>
    <2> TAKE t
    <2>1. {c \in 1..0 : Columns[c] = t /\ ~EmptyRow[c].null} = {}
      OBVIOUS
    <2>2. Cardinality({}) = 0
      BY FS_EmptySet
    <2>3. InOrder({}) = << >>
      BY <2>2 DEF InOrder
    <2> QED
      BY <2>1, <2>3
  <1>4. q.rows = p.rows /\ q.nulls = p.nulls \o flags
        /\ \A t \in Types : q.data[t] = p.data[t] \o << >>
    <2> DEFINE columns(t) == InOrder({c \in 1..0 : Columns[c] = t /\ ~EmptyRow[c].null})
               values(t) == [k \in DOMAIN columns(t) |-> EmptyRow[columns(t)[k]].value]
    <2>1. q.rows = p.rows /\ q.nulls = p.nulls \o flags
      BY <1>2 DEF AppendColumns
    <2>2. \A t \in Types : q.data[t] = p.data[t] \o values(t)
      BY DEF AppendColumns
    <2> HIDE DEF columns
    <2>3. \A t \in Types : columns(t) = << >>
      BY <1>3 DEF columns
    <2>4. \A t \in Types : values(t) = << >>
      BY <2>3
    <2> QED
      BY <2>1, <2>2, <2>4
  <1>5. Len(flags) = 1 /\ ~flags[1]
    BY <1>2 DEF EmptyRow
  <1> HIDE DEF q, flags
  <1>6. Len(q.nulls) = Len(p.nulls) + 1 /\ \A i \in 1..Len(q.nulls) : ~q.nulls[i]
    <2> DEFINE old == p.nulls
               nulls == q.nulls
    <2>1. nulls = old \o flags /\ Len(old) \in Nat /\ \A i \in 1..Len(old) : ~old[i]
      BY <1>1, <1>4
    <2> HIDE DEF nulls, old
    <2>2. Len(nulls) = Len(old) + 1
          /\ (\A i \in 1..Len(old) : nulls[i] = old[i]) /\ nulls[Len(old) + 1] = flags[1]
      <3>1. nulls = old \o flags /\ Len(old) \in Nat /\ Len(flags) = 1 /\ Len(flags) \in Nat
        BY <1>5, <2>1
      <3>2. Len(nulls) = Len(old) + Len(flags)
        <4>1. nulls = old \o flags /\ Len(old) \in Nat /\ Len(flags) \in Nat
          BY <3>1
        <4> QED
          BY <4>1
      <3>3. \A i \in 1..Len(old) : nulls[i] = old[i]
        BY <3>1
      <3>4. nulls[Len(old) + 1] = flags[1]
        BY <3>1
      <3> QED
        BY <3>1, <3>2, <3>3, <3>4
    <2>3. ASSUME NEW i \in 1..Len(old) + 1 PROVE ~nulls[i]
      <3>1. i \in 1..Len(old) \/ i = Len(old) + 1
        BY <2>1
      <3> QED
        BY <1>5, <2>1, <2>2, <3>1
    <2> QED
      BY <2>2, <2>3 DEF nulls, old
  <1>7. ASSUME NEW t \in Types
        PROVE  /\ Len(q.data[t]) = p.rows * Width
               /\ \A j \in 1..p.rows * Width :
                    q.data[t][j] = <<Len(rows) * Width + j, 0>>
    <2> DEFINE old == p.data[t]
               new == q.data[t]
               m == p.rows * Width
    <2>1. new = old \o << >> /\ Len(old) = m /\ m \in Nat
          /\ \A j \in 1..m : old[j] = <<Len(rows) * Width + j, 0>>
      BY <1>1, <1>4 DEF Holds
    <2> HIDE DEF old, new, m
    <2>2. Len(new) = m /\ \A j \in 1..m : new[j] = old[j]
      BY <2>1
    <2>3. Len(new) = m /\ \A j \in 1..m : new[j] = <<Len(rows) * Width + j, 0>>
      BY <2>1, <2>2
    <2> QED
      BY <2>3 DEF new, m
  <1>8. Len(q.nulls) \in Nat /\ q.rows * Width <= Len(q.nulls)
    BY <1>1, <1>4, <1>6
  <1>9. Holds(q, rows, A)
    BY <1>4, <1>6, <1>7, <1>8 DEF Holds
  <1> QED
    BY <1>9 DEF q

\* The row of a whole line lacks nothing, the one before the first line all.
LEMMA WhatIsMissing ==
  /\ LineRow(0, 0) = EmptyRow
  /\ \A l \in Nat : LineRow(l, 0) = EmptyRow
  /\ Missing(EmptyRow) = Cols /\ Min(Missing(EmptyRow)) = 1
  /\ \A l \in Nat : (l + 1) * Width <= MaxFields + 1 => Missing(LineRow(l, Width)) = {}
  <1>1. \A l \in Nat : LineRow(l, 0) = EmptyRow
    <2> TAKE l \in Nat
    <2>1. \A c \in Cols : ~(c <= 0)
      BY Widths
    <2> QED
      BY <2>1 DEF LineRow, EmptyRow
  <1>2. Missing(EmptyRow) = Cols
    BY DEF Missing, EmptyRow
  <1>3. Min(Cols) = 1
    <2>1. 1 \in Cols /\ \A c \in Cols : c \in Nat /\ 1 <= c
      BY Widths
    <2> QED
      BY <2>1 DEF Min
  <1>4. ASSUME NEW l \in Nat, (l + 1) * Width <= MaxFields + 1
        PROVE  Missing(LineRow(l, Width)) = {}
    <2> SUFFICES ASSUME NEW c \in Cols PROVE LineRow(l, Width)[c].value # Null
      BY DEF Missing
    <2>1. LineRow(l, Width)[c].value = <<l * Width + c, 0>>
      BY Widths DEF LineRow
    <2>2. l * Width + c \in 1..(l + 1) * Width /\ (l + 1) * Width \in Nat
      BY Widths, RowsInOrder
    <2>3. l * Width + c \in 1..MaxFields + 1
      BY <1>4, <2>2, PipeAssumption
    <2> QED
      BY <2>1, <2>3, FieldAssumption
  <1> QED
    BY <1>1, <1>2, <1>3, <1>4

-----------------------------------------------------------------------------
(* The pipe                                                                *)

\* One element more.
LEMMA OneMore ==
  ASSUME NEW s, IsSequence(s), NEW x
  PROVE  /\ IsSequence(Append(s, x))
         /\ Len(Append(s, x)) = Len(s) + 1 /\ Len(s) \in Nat
         /\ \A i \in 1..Len(s) : Append(s, x)[i] = s[i]
         /\ Append(s, x)[Len(s) + 1] = x
  <1>1. PICK S : s \in Seq(S)
    BY DEF IsSequence
  <1>2. s \in Seq(S \cup {x})
    BY <1>1
  <1>3. Append(s, x) \in Seq(S \cup {x})
    BY <1>2
  <1> QED
    BY <1>1, <1>3 DEF IsSequence

\* One element less.
LEMMA OneLess ==
  ASSUME NEW s, IsSequence(s), s # << >>
  PROVE  /\ IsSequence(Tail(s)) /\ Len(s) \in Nat \ {0}
         /\ Len(Tail(s)) = Len(s) - 1 /\ Head(s) = s[1]
         /\ \A i \in 1..Len(s) - 1 : Tail(s)[i] = s[i + 1]
  <1>1. PICK S : s \in Seq(S)
    BY DEF IsSequence
  <1>2. Tail(s) \in Seq(S) /\ Len(s) \in Nat \ {0}
    BY <1>1
  <1> QED
    BY <1>1, <1>2 DEF IsSequence

\* The stream has grown by one field, which is in the pipe.
Grown(end) ==
  /\ stdout' = Append(stdout, Field(Len(stream) + 1, end))
  /\ stream' = Append(stream, Field(Len(stream) + 1, end))

\* What has been written stays, and nobody has read it yet.
LEMMA StreamGrows ==
  ASSUME PipeInv, NEW end, Grown(end)
  PROVE  /\ IsSequence(stream') /\ IsSequence(stdout')
         /\ Len(stream) \in Nat /\ Len(stdout) \in Nat
         /\ Len(stream') = Len(stream) + 1 /\ Len(stdout') = Len(stdout) + 1
         /\ \A i \in 1..Len(stream) : stream'[i] = stream[i]
         /\ stream'[Len(stream) + 1] = Field(Len(stream) + 1, end)
         /\ \A i \in 1..Len(stdout) : stdout'[i] = stdout[i]
         /\ stdout'[Len(stdout) + 1] = Field(Len(stream) + 1, end)
         /\ Consumed \in 0..Len(stream) /\ Consumed' = Consumed
  <1> DEFINE f == Field(Len(stream) + 1, end)
  <1>1. IsSequence(stream) /\ IsSequence(stdout) /\ Len(stdout) <= Len(stream)
    BY DEF PipeInv
  <1>2. stdout' = Append(stdout, f) /\ stream' = Append(stream, f)
    BY DEF Grown
  <1> HIDE DEF f
  <1>3. /\ IsSequence(stream') /\ IsSequence(stdout')
        /\ Len(stream) \in Nat /\ Len(stdout) \in Nat
        /\ Len(stream') = Len(stream) + 1 /\ Len(stdout') = Len(stdout) + 1
        /\ \A i \in 1..Len(stream) : stream'[i] = stream[i]
        /\ stream'[Len(stream) + 1] = f
        /\ \A i \in 1..Len(stdout) : stdout'[i] = stdout[i]
        /\ stdout'[Len(stdout) + 1] = f
    BY <1>1, <1>2, OneMore
  <1>4. Consumed \in 0..Len(stream) /\ Consumed' = Consumed
    BY <1>1, <1>3 DEF Consumed
  <1> QED
    BY <1>3, <1>4 DEF f

\* The pipe after a field that is not behind the end.
LEMMA PipeAfterField ==
  ASSUME PipeInv, ~ClosedOut, NEW end \in {"comma", "newline", "eof"}, Grown(end),
         Len(stream) < MaxFields \/ end = "eof",
         child' # "out"
  PROVE  PipeInv'
  <1> DEFINE n == Len(stream)
  <1>1. /\ IsSequence(stream') /\ IsSequence(stdout')
        /\ n \in Nat /\ Len(stdout) \in Nat /\ Len(stdout) <= n
        /\ Len(stream') = n + 1 /\ Len(stdout') = Len(stdout) + 1
    BY StreamGrows DEF PipeInv
  <1>2. /\ \A i \in 1..n : stream'[i] = stream[i]
        /\ stream'[n + 1] = Field(n + 1, end)
        /\ \A i \in 1..Len(stdout) : stdout'[i] = stdout[i]
        /\ stdout'[Len(stdout) + 1] = Field(n + 1, end)
    BY StreamGrows
  <1>3. Consumed \in 0..n /\ Consumed' = Consumed /\ Consumed + Len(stdout) = n
    BY <1>1, StreamGrows DEF Consumed
  <1>4. \A i \in 1..n : stream[i].end # "eof"
    <2> SUFFICES ASSUME NEW i \in 1..n, stream[i].end = "eof" PROVE FALSE
      OBVIOUS
    <2>1. i = n
      BY DEF PipeInv
    <2>2. stream # << >>
      BY <1>1
    <2> QED
      BY <2>1, <2>2 DEF ClosedOut
  <1> HIDE DEF n
  <1>5. \A i \in 1..Len(stdout') : stdout'[i] = stream'[Consumed' + i]
    <2> TAKE i \in 1..Len(stdout')
    <2>1. CASE i = Len(stdout) + 1
      BY <1>1, <1>2, <1>3, <2>1
    <2>2. CASE i \in 1..Len(stdout)
      <3>1. Consumed + i \in 1..n
        BY <1>1, <1>3, <2>2
      <3>2. stdout[i] = stream[Consumed + i]
        BY <2>2 DEF PipeInv
      <3> QED
        BY <1>2, <1>3, <2>2, <3>1, <3>2
    <2> QED
      BY <1>1, <2>1, <2>2
  <1>6. \A i \in 1..Len(stream') :
          /\ stream'[i].value = <<i, 0>>
          /\ stream'[i].end \in {"comma", "newline", "eof"}
          /\ stream'[i].end = "eof" => i = Len(stream')
    <2> TAKE i \in 1..Len(stream')
    <2>1. CASE i = n + 1
      BY <1>1, <1>2, <2>1 DEF Field
    <2>2. CASE i \in 1..n
      BY <1>2, <1>4, <2>2 DEF PipeInv, n
    <2> QED
      BY <1>1, <2>1, <2>2
  <1>7. n <= MaxFields /\ MaxFields \in Nat
    BY PipeAssumption DEF PipeInv, n
  <1>8. Len(stream') <= MaxFields + 1 /\ (~ClosedOut' => Len(stream') <= MaxFields)
    <2>1. CASE end = "eof"
      <3>1. stream' # << >> /\ stream'[Len(stream')].end = "eof"
        BY <1>1, <1>2, <2>1 DEF Field
      <3> QED
        BY <1>1, <1>7, <3>1 DEF ClosedOut
    <2>2. CASE end # "eof"
      BY <1>1, <1>7, <2>2 DEF n
    <2> QED
      BY <2>1, <2>2
  <1> QED
    BY <1>1, <1>5, <1>6, <1>8 DEF PipeInv

\* t2 takes the first field in the pipe, which is the next one of the stream.
LEMMA PipeAfterRead ==
  ASSUME PipeInv, stdout # << >>, stdout' = Tail(stdout), UNCHANGED <<stream, child>>
  PROVE  /\ PipeInv'
         /\ Consumed \in Nat /\ Consumed' = Consumed + 1
         /\ Head(stdout) = stream[Consumed + 1]
  <1> DEFINE n == Len(stream)
             m == Len(stdout)
  <1>1. /\ IsSequence(stream) /\ IsSequence(stdout') /\ n \in Nat
        /\ m \in Nat \ {0} /\ m <= n /\ Len(stdout') = m - 1 /\ Head(stdout) = stdout[1]
    BY OneLess DEF PipeInv, IsSequence
  <1>2. \A i \in 1..m - 1 : stdout'[i] = stdout[i + 1]
    BY OneLess DEF PipeInv
  <1>3. Consumed = n - m /\ Consumed' = Consumed + 1 /\ Consumed \in Nat
    BY <1>1 DEF Consumed
  <1>4. \A i \in 1..m : stdout[i] = stream[Consumed + i]
    BY DEF PipeInv
  <1> HIDE DEF n, m
  <1>5. \A i \in 1..Len(stdout') : stdout'[i] = stream'[Consumed' + i]
    <2> TAKE i \in 1..Len(stdout')
    <2>1. i \in 1..m - 1 /\ i + 1 \in 1..m /\ Consumed' + i = Consumed + (i + 1)
      BY <1>1, <1>3
    <2> QED
      BY <1>2, <1>4, <2>1
  <1>6. Head(stdout) = stream[Consumed + 1]
    BY <1>1, <1>4
  <1>7. ClosedOut' = ClosedOut
    BY DEF ClosedOut
  <1>8. Len(stdout') <= Len(stream')
    BY <1>1 DEF n
  <1> QED
    BY <1>1, <1>3, <1>5, <1>6, <1>7, <1>8 DEF PipeInv

\* A step that neither t2 nor the stream is concerned with.
LEMMA ElsewhereKeeps ==
  ASSUME StreamInv, UNCHANGED <<t2Vars, stream, stdout, outputVars>>,
         child' = "out" => child = "out" \/ (Len(stream) < MaxFields /\ ~ClosedOut),
         main' = "start" => main = "start",
         main' \in {"stderr", "close", "wait", "done"} =>
           main \in {"stderr", "close", "wait", "done"} \/ t2 \in {"ended", "failed"},
         exception_msg' = "none" => exception_msg = "none"
  PROVE  StreamInv'
  <1>1. UNCHANGED <<Consumed, ClosedOut, Begun>>
    BY DEF Consumed, ClosedOut, Begun, t2Vars
  <1>2. PipeInv'
    BY <1>1 DEF StreamInv, PipeInv
  <1>3. ASSUME NEW L \in Nat, NEW A \in Nat, ReaderAt(L), RowOf(L, A), Holds(emit,
      delivered, A)
        PROVE  ReaderAt(L)' /\ RowOf(L, A)' /\ Holds(emit, delivered, A)'
    <2>1. ReaderAt(L)'
      BY <1>1, <1>3 DEF ReaderAt, t2Vars
    <2>2. RowOf(L, A)'
      BY <1>1, <1>3 DEF RowOf, t2Vars, outputVars
    <2>3. Holds(emit, delivered, A)'
      BY <1>3 DEF outputVars
    <2> QED
      BY <2>1, <2>2, <2>3
  <1>4. (t2 # "failed" =>
           \E L, A \in Nat : ReaderAt(L) /\ RowOf(L, A) /\ Holds(emit, delivered, A))'
    BY <1>3 DEF StreamInv, t2Vars
  <1> QED
    BY <1>2, <1>4 DEF StreamInv, t2Vars, outputVars, FailedReaderReported

\* The child writes a field or closes its end.
LEMMA WritingKeeps ==
  ASSUME StreamInv, ~ClosedOut, NEW end \in {"comma", "newline", "eof"}, Grown(end),
         Len(stream) < MaxFields \/ end = "eof", child' # "out",
         UNCHANGED <<t2Vars, outputVars, main, exception_msg>>
  PROVE  StreamInv'
  <1>1. PipeInv'
    BY PipeAfterField DEF StreamInv
  <1>2. Consumed \in 0..Len(stream) /\ Consumed' = Consumed /\ Len(stream) \in Nat
        /\ \A i \in 1..Len(stream) : stream'[i] = stream[i]
    BY StreamGrows DEF StreamInv
  <1>3. \A i \in 1..Consumed : stream'[i] = stream[i]
    BY <1>2
  <1>4. ASSUME NEW L \in Nat, NEW A \in Nat, ReaderAt(L), RowOf(L, A), Holds(emit,
      delivered, A)
        PROVE  ReaderAt(L)' /\ RowOf(L, A)' /\ Holds(emit, delivered, A)'
    <2>0. t2 \in {"next", "set", "flush", "ended"} => Consumed \in 1..Consumed
      BY <1>2, <1>4, Widths DEF ReaderAt, StreamInv
    <2>1. ReaderAt(L)'
      BY <1>2, <1>3, <1>4, <2>0 DEF ReaderAt, t2Vars
    <2>2. RowOf(L, A)'
      BY <1>4 DEF RowOf, Begun, t2Vars, outputVars
    <2>3. Holds(emit, delivered, A)'
      BY <1>4 DEF outputVars
    <2> QED
      BY <2>1, <2>2, <2>3
  <1>5. (t2 # "failed" =>
           \E L, A \in Nat : ReaderAt(L) /\ RowOf(L, A) /\ Holds(emit, delivered, A))'
    BY <1>4 DEF StreamInv, t2Vars
  <1> QED
    BY <1>1, <1>5 DEF StreamInv, t2Vars, outputVars, FailedReaderReported

-----------------------------------------------------------------------------
(* The steps of t2                                                         *)

\* t2 gives up, having set the message.
LEMMA ThrowingKeeps ==
  ASSUME StreamInv, T2Throws, PipeInv', t2 \notin {"none", "ended"},
         UNCHANGED <<outputVars, main>>
  PROVE  StreamInv'
  BY DEF StreamInv, T2Throws, FailedReaderReported, outputVars

\* readCSVValue: a field that t2 accepts is where it belongs.
LEMMA ReadingKeeps ==
  ASSUME StreamInv, ReadCSVValue
  PROVE  StreamInv'
  <1>1. /\ PipeInv' /\ Consumed \in Nat /\ Consumed' = Consumed + 1
        /\ Head(stdout) = stream[Consumed + 1]
    BY PipeAfterRead DEF StreamInv, ReadCSVValue, childVars
  <1>2. t2 = "read" /\ UNCHANGED <<outputVars, main, stream>>
        /\ readBuffer' = stream[Consumed']
    BY <1>1 DEF ReadCSVValue, childVars
  <1>3. CASE Misplaced(Head(stdout))
    <2>1. T2Throws
      BY <1>3 DEF ReadCSVValue
    <2> QED
      BY <1>1, <1>2, <2>1, ThrowingKeeps
  <1>4. CASE ~Misplaced(Head(stdout))
    <2>1. /\ t2' = IF column = 1 THEN "next" ELSE "set"
          /\ UNCHANGED <<column, exception_msg>>
      BY <1>4 DEF ReadCSVValue
    <2>2. PICK L \in Nat, A \in Nat :
            ReaderAt(L) /\ RowOf(L, A) /\ Holds(emit, delivered, A)
      BY <1>2 DEF StreamInv
    <2>3. column \in Cols /\ Consumed = L * Width + (column - 1)
      BY <1>2, <2>2 DEF StreamInv, ReaderAt
    <2>4. Consumed' = L * Width + column /\ ColumnOf(Consumed') = column
      <3>1. Consumed' = L * Width + column
        BY <1>1, <2>3, Widths
      <3> QED
        BY <2>3, <3>1, PlaceOfCell
    <2>5. stream[Consumed'].end = "comma" <=> ColumnOf(Consumed') # Width
      BY <1>1, <1>4, <2>4 DEF Misplaced
    <2>6. \A i \in 1..Consumed' : stream[i].end = "comma" <=> ColumnOf(i) # Width
      <3> TAKE i \in 1..Consumed'
      <3>1. i \in 1..Consumed \/ i = Consumed'
        BY <1>1
      <3> QED
        BY <2>2, <2>5, <3>1 DEF ReaderAt
    <2>7. ReaderAt(L)'
      <3>1. \A c \in Cols : L > 0 \/ c < column => Columns[c] = "string"
        BY <2>2 DEF ReaderAt
      <3> HIDE DEF Cols
      <3> QED
        BY <1>2, <2>1, <2>4, <2>6, <3>1 DEF ReaderAt
    <2>8. RowOf(L, A)'
      <3>1. Begun' <=> Begun
        BY <1>2, <2>1, <2>3, Widths DEF Begun
      <3> QED
        BY <1>2, <2>1, <2>2, <3>1 DEF RowOf, outputVars
    <2>9. Holds(emit, delivered, A)'
      BY <1>2, <2>2 DEF outputVars
    <2> QED
      BY <1>1, <1>2, <2>1, <2>7, <2>8, <2>9 DEF StreamInv, FailedReaderReported,
          outputVars
  <1> QED
    BY <1>3, <1>4

\* next() takes the row of the line before, if there is one.
LEMMA NextKeeps ==
  ASSUME StreamInv, NEW result \in SendResults, MakeRoom(result)
  PROVE  StreamInv'
  <1>1. /\ t2 = "next" /\ t2' = "set" /\ OutputNext(result)
        /\ UNCHANGED <<column, readBuffer, main, stream, stdout, child, exception_msg>>
    BY DEF MakeRoom, StreamInv, childVars, pipeVars
  <1>2. PICK L \in Nat, A \in Nat :
          ReaderAt(L) /\ RowOf(L, A) /\ Holds(emit, delivered, A)
    BY <1>1 DEF StreamInv
  <1>3. UNCHANGED <<Consumed, ClosedOut>>
    BY <1>1 DEF Consumed, ClosedOut
  <1>4. PipeInv'
    BY <1>1, <1>3 DEF StreamInv, PipeInv
  <1>5. ReaderAt(L)'
    BY <1>1, <1>2, <1>3 DEF ReaderAt
  <1>6. column = 1 /\ column' = 1 /\ ~Begun /\ Begun'
    BY <1>1, <1>2 DEF ReaderAt, Begun
  <1>7. ~scalar' /\ m_rows_emited' \in Nat \ {0}
    <2>1. m_rows_emited' = m_rows_emited + 1 /\ scalar' = scalar
      <3>1. OutputNextRow(result) => m_rows_emited' = m_rows_emited + 1 /\ scalar' = scalar
        BY DEF OutputNextRow
      <3>2. OutputNextFails => m_rows_emited' = m_rows_emited + 1 /\ scalar' = scalar
        BY DEF OutputNextFails
      <3> QED
        BY <1>1, <3>1, <3>2 DEF OutputNext
    <2> QED
      BY <2>1 DEF StreamInv
  <1>8. \E B \in Nat : RowOf(L, B)' /\ Holds(emit, delivered, B)'
    <2>1. CASE L = 0
      <3>1. A = 0 /\ m_rowdata = EmptyRow
        BY <1>2, <1>6, <2>1, WhatIsMissing DEF RowOf
      <3>2. Missing(m_rowdata) # {} /\ Min(Missing(m_rowdata)) - 1 = 0
        <4>1. Missing(m_rowdata) = Cols /\ Min(Missing(m_rowdata)) = 1
          BY <3>1, WhatIsMissing
        <4>2. Cols # {}
          BY Widths
        <4> QED
          BY <4>1, <4>2
      <3>3. OutputNextFails
        BY <1>1, <3>2 DEF OutputNext, OutputNextRow
      <3>4. emit' = AppendColumns(emit, EmptyRow, 0)
            /\ UNCHANGED <<m_rowdata, delivered>>
        BY <3>1, <3>2, <3>3 DEF OutputNextFails
      <3>5. Holds(emit, delivered, 0)'
        BY <1>2, <3>1, <3>4, NothingAppended
      <3>6. RowOf(L, 0)'
        BY <1>6, <2>1, <3>1, <3>4, WhatIsMissing DEF RowOf
      <3> QED
        BY <3>5, <3>6
    <2>2. CASE L > 0
      <3>1. A = L - 1 /\ m_rowdata = LineRow(A, Width) /\ L = A + 1
        BY <1>2, <1>6, <2>2 DEF RowOf
      <3>2. AllStrings
        BY <1>2, <2>2 DEF ReaderAt, AllStrings
      <3>3. Missing(m_rowdata) = {}
        <4>1. Consumed = L * Width + 1 /\ Consumed <= Len(stream)
              /\ Len(stream) <= MaxFields + 1
          BY <1>1, <1>2, <1>6 DEF ReaderAt, StreamInv, PipeInv, Consumed, IsSequence
        <4>2. L * Width <= MaxFields + 1
          BY <4>1, Widths, PipeAssumption DEF Consumed, StreamInv, PipeInv, IsSequence
        <4> QED
          BY <3>1, <4>2, WhatIsMissing
      <3>4. OutputNextRow(result)
        BY <1>1, <3>3 DEF OutputNext, OutputNextFails
      <3> DEFINE q == AppendRow(emit, m_rowdata, m_current_row)
                 size == m_message_size + Bytes(m_rowdata, Width)
      <3>5. m_rowdata' = EmptyRow /\ (Send(q, size, result) \/ Keep(q, size))
        BY <3>4 DEF OutputNextRow
      <3>6. Holds(q, delivered, L)
        BY <1>2, <3>1, <3>2, LineAppended
      <3> HIDE DEF q, size
      <3>7. Holds(emit, delivered, L)'
        <4>1. CASE Send(q, size, result)
          <5>1. CASE result = "unserialised"
            <6>1. emit' = q /\ delivered' = delivered
              BY <4>1, <5>1 DEF Send
            <6> QED
              BY <3>6, <6>1
          <5>2. CASE result # "unserialised"
            <6>1. emit' = EmptyPacket /\ delivered' = delivered \o Unpack(q)
              BY <4>1, <5>2 DEF Send
            <6>2. Holds(EmptyPacket, delivered \o Unpack(q), L)
              BY <3>2, <3>6, LinesUnpacked
            <6> QED
              BY <6>1, <6>2
          <5> QED
            BY <5>1, <5>2
        <4>2. CASE Keep(q, size)
          BY <3>6, <4>2 DEF Keep
        <4> QED
          BY <3>5, <4>1, <4>2
      <3>8. RowOf(L, L)'
        BY <1>6, <3>5, WhatIsMissing DEF RowOf
      <3> QED
        BY <3>7, <3>8
    <2> QED
      BY <2>1, <2>2
  <1> QED
    BY <1>1, <1>4, <1>5, <1>7, <1>8 DEF StreamInv, FailedReaderReported

\* A setter adds the field that was read to the row of its line.
LEMMA SettingKeeps ==
  ASSUME StreamInv, SetColumn
  PROVE  StreamInv'
  <1>1. t2 = "set" /\ UNCHANGED <<readBuffer, main, stream, stdout, child>>
    BY DEF SetColumn, childVars, pipeVars
  <1>2. PICK L \in Nat, A \in Nat :
          ReaderAt(L) /\ RowOf(L, A) /\ Holds(emit, delivered, A)
    BY <1>1 DEF StreamInv
  <1>3. UNCHANGED <<Consumed, ClosedOut>>
    BY <1>1 DEF Consumed, ClosedOut
  <1>4. PipeInv'
    BY <1>1, <1>3 DEF StreamInv, PipeInv
  <1>5. CASE column \notin Readable
    <2>1. T2Throws /\ UNCHANGED outputVars
      BY <1>5 DEF SetColumn
    <2> QED
      BY <1>1, <1>4, <2>1, ThrowingKeeps
  <1>6. CASE column \in Readable
    <2>1. /\ OutputSetValue(column, readBuffer.value)
          /\ column' = IF column = Width THEN 1 ELSE column + 1
          /\ t2' = IF column = Width /\ readBuffer.end = "eof" THEN "flush" ELSE "read"
          /\ UNCHANGED exception_msg
      BY <1>6 DEF SetColumn
    <2>2. UNCHANGED <<scalar, emit, m_rows_emited, delivered>>
      BY <2>1 DEF OutputSetValue
    <2>3. /\ column \in Cols /\ Consumed = L * Width + column
          /\ readBuffer = stream[Consumed] /\ A = L
          /\ m_rowdata = LineRow(L, column - 1)
      BY <1>1, <1>2 DEF StreamInv, ReaderAt, RowOf, Begun
    <2>4. readBuffer.value = <<L * Width + column, 0>>
      <3>1. Consumed \in 1..Len(stream)
        BY <2>3, Widths DEF StreamInv, PipeInv, Consumed, IsSequence
      <3>2. stream[Consumed].value = <<Consumed, 0>>
        BY <3>1 DEF StreamInv, PipeInv
      <3> QED
        BY <2>3, <3>2
    <2>5. m_rowdata' = LineRow(L, column)
      <3>1. CString(readBuffer.value) = <<L * Width + column, 0>>
        <4> DEFINE k == L * Width + column
        <4>1. readBuffer.value = <<k, 0>>
          BY <2>4
        <4> HIDE DEF k
        <4> DEFINE v == <<k, 0>>
        <4>2. v \in Seq({k, 0}) /\ Len(v) = 2
          OBVIOUS
        <4> HIDE DEF v
        <4>3. SubSeq(v, 1, 2) = v
          BY <4>2
        <4> QED
          BY <4>1, <4>3 DEF CString, k, v
      <3>2. m_rowdata' = [m_rowdata EXCEPT ![column] =
                             [null |-> FALSE, value |-> <<L * Width + column, 0>>]]
        BY <2>1, <3>1 DEF OutputSetValue
      <3>3. \A c \in Cols : c # column => (c <= column <=> c <= column - 1)
        BY <2>3, Widths
      <3> DEFINE old == LineRow(L, column - 1)
                 new == LineRow(L, column)
                 cell == [null |-> FALSE, value |-> <<L * Width + column, 0>>]
      <3>4. \A c \in Cols : c # column => new[c] = old[c]
        BY <3>3 DEF LineRow
      <3>5. new[column] = cell
        BY <2>3, Widths DEF LineRow
      <3>6. old = [c \in Cols |-> old[c]] /\ new = [c \in Cols |-> new[c]]
        BY DEF LineRow
      <3> HIDE DEF old, new, cell
      <3>7. new = [old EXCEPT ![column] = cell]
        BY <2>3, <3>4, <3>5, <3>6
      <3> QED
        BY <2>3, <3>2, <3>7 DEF old, new, cell
    <2>6. \A c \in Cols : c <= column => Columns[c] = "string"
      <3>1. Columns[column] = "string"
        BY <1>6, ReaderAssumption
      <3> QED
        BY <1>2, <2>3, <3>1, Widths DEF ReaderAt
    <2>7. \A i \in 1..Consumed : stream[i].end = "comma" <=> ColumnOf(i) # Width
      BY <1>2 DEF ReaderAt
    <2>8. CASE column = Width
      <3>1. column' = 1 /\ (t2' = "flush" \/ t2' = "read")
            /\ (t2' = "flush" => readBuffer.end = "eof")
        BY <2>1, <2>8
      <3>2. Consumed = (L + 1) * Width /\ 1 \in Cols
        BY <2>3, <2>8, Widths
      <3>3. \A c \in Cols : Columns[c] = "string"
        BY <2>6, <2>8, Widths
      <3>4. ReaderAt(L + 1)'
        <4>1. L + 1 > 0 /\ (L + 1) * Width + (1 - 1) = (L + 1) * Width
          BY Widths
        <4> QED
          BY <1>1, <1>3, <2>3, <2>7, <3>1, <3>2, <3>3, <4>1 DEF ReaderAt
      <3>5. RowOf(L + 1, A)'
        <4>1. ~Begun' /\ (L + 1) - 1 = L /\ L + 1 > 0
          BY <3>1 DEF Begun
        <4> QED
          BY <2>3, <2>5, <2>8, <4>1 DEF RowOf
      <3>6. Holds(emit, delivered, A)'
        BY <1>2, <2>2
      <3>7. L + 1 \in Nat
        OBVIOUS
      <3>8. \E K, B \in Nat : (ReaderAt(K) /\ RowOf(K, B) /\ Holds(emit, delivered, B))'
        BY <3>4, <3>5, <3>6, <3>7
      <3> QED
        BY <1>1, <1>4, <2>1, <2>2, <3>1, <3>2, <3>8 DEF StreamInv, FailedReaderReported
    <2>9. CASE column # Width
      <3>1. column' = column + 1 /\ t2' = "read" /\ column + 1 \in Cols /\ column' - 1 = column
        BY <2>1, <2>3, <2>9, Widths
      <3>2. ReaderAt(L)'
        <4>1. ASSUME NEW c \in Cols, L > 0 \/ c < column + 1 PROVE Columns[c] = "string"
          <5>1. c \in Int /\ column \in Int
            BY <2>3, Widths
          <5>2. CASE L > 0
            BY <1>2, <5>2 DEF ReaderAt
          <5>3. CASE c < column + 1
            BY <2>6, <5>1, <5>3
          <5> QED
            BY <4>1, <5>2, <5>3
        <4> QED
          BY <1>1, <1>3, <2>3, <2>7, <3>1, <4>1 DEF ReaderAt
      <3>3. RowOf(L, A)'
        <4>1. Begun'
          BY <2>3, <3>1, Widths DEF Begun
        <4> QED
          BY <2>3, <2>5, <3>1, <4>1 DEF RowOf
      <3>4. Holds(emit, delivered, A)'
        BY <1>2, <2>2
      <3> QED
        BY <1>1, <1>4, <2>1, <2>2, <3>1, <3>2, <3>3, <3>4 DEF StreamInv,
            FailedReaderReported
    <2> QED
      BY <2>8, <2>9
  <1> QED
    BY <1>5, <1>6

\* flush sends what next() has accepted.
LEMMA FlushingKeeps ==
  ASSUME StreamInv, NEW result \in SendResults, FlushOutput(result)
  PROVE  StreamInv'
  <1>1. /\ t2 = "flush" /\ t2' = "ended" /\ OutputFlush(result)
        /\ UNCHANGED <<column, readBuffer, main, stream, stdout, child, exception_msg>>
    BY DEF FlushOutput, childVars, pipeVars
  <1>2. PICK L \in Nat, A \in Nat :
          ReaderAt(L) /\ RowOf(L, A) /\ Holds(emit, delivered, A)
    BY <1>1 DEF StreamInv
  <1>3. UNCHANGED <<Consumed, ClosedOut>>
    BY <1>1 DEF Consumed, ClosedOut
  <1>4. PipeInv'
    BY <1>1, <1>3 DEF StreamInv, PipeInv
  <1>5. ReaderAt(L)'
    BY <1>1, <1>2, <1>3 DEF ReaderAt
  <1>6. UNCHANGED <<scalar, m_rowdata, m_rows_emited>>
    BY <1>1 DEF OutputFlush
  <1>7. RowOf(L, A)'
    BY <1>1, <1>2, <1>6 DEF RowOf, Begun
  <1>8. Holds(emit, delivered, A)' /\ (emit'.rows = 0 \/ unserialised')
    <2>1. AllStrings /\ emit.rows \in Nat
      BY <1>1, <1>2 DEF ReaderAt, AllStrings, Holds
    <2>2. CASE emit.rows > 0 /\ result = "unserialised"
      <3>1. Send(emit, m_message_size, result)
        BY <1>1, <2>2 DEF OutputFlush
      <3>2. emit' = emit /\ delivered' = delivered /\ unserialised'
        BY <2>2, <3>1, Zenon DEF Send
      <3> QED
        BY <1>2, <3>2, Zenon
    <2>3. CASE emit.rows > 0 /\ result # "unserialised"
      <3>1. emit' = EmptyPacket /\ delivered' = delivered \o Unpack(emit)
        BY <1>1, <2>3 DEF OutputFlush, Send
      <3>2. Holds(EmptyPacket, delivered \o Unpack(emit), A)
        BY <1>2, <2>1, LinesUnpacked
      <3>3. EmptyPacket.rows = 0
        BY DEF EmptyPacket
      <3> QED
        BY <3>1, <3>2, <3>3
    <2>4. CASE ~(emit.rows > 0)
      <3>1. UNCHANGED <<emit, delivered>>
        BY <1>1, <2>4 DEF OutputFlush, Keep
      <3> QED
        BY <1>2, <2>1, <2>4, <3>1
    <2> QED
      BY <2>2, <2>3, <2>4
  <1> QED
    BY <1>1, <1>4, <1>5, <1>6, <1>7, <1>8 DEF StreamInv, FailedReaderReported

-----------------------------------------------------------------------------
(* Every line is delivered: the theorem                                    *)

\* The child has not written and t2 has not read.
LEMMA StreamStart == Init => StreamInv
  <1> SUFFICES ASSUME Init PROVE StreamInv
    OBVIOUS
  <1>1. /\ stream = << >> /\ stdout = << >> /\ child = "none" /\ column = 1 /\ t2 = "none"
        /\ main = "start"
    BY DEF Init
  <1>2. ~scalar /\ m_rows_emited = 1 /\ emit = EmptyPacket
        /\ delivered = << >> /\ m_rowdata = EmptyRow
    BY DEF Init, OutputInit
  <1>3. Consumed = 0 /\ ~ClosedOut /\ ~Begun
    BY <1>1 DEF Consumed, ClosedOut, Begun
  <1>4. PipeInv
    <2>1. IsSequence(<< >>)
      BY DEF IsSequence
    <2> QED
      BY <1>1, <1>3, <2>1, PipeAssumption DEF PipeInv
  <1>5. 1 \in Cols /\ 0 * Width = 0 /\ \A c \in Cols : ~(c < 1)
    BY Widths
  <1>6. ReaderAt(0)
    BY <1>1, <1>3, <1>5 DEF ReaderAt
  <1>7. RowOf(0, 0)
    BY <1>2, <1>3, WhatIsMissing DEF RowOf
  <1>8. Holds(emit, delivered, 0)
    <2>1. /\ EmptyPacket.rows = 0 /\ EmptyPacket.nulls = << >>
          /\ \A t \in Types : EmptyPacket.data[t] = << >>
      BY DEF EmptyPacket
    <2>2. IsSequence(<< >>)
      BY DEF IsSequence
    <2> QED
      BY <1>2, <1>5, <2>1, <2>2 DEF Holds
  <1> QED
    BY <1>1, <1>2, <1>4, <1>5, <1>6, <1>7, <1>8 DEF StreamInv, FailedReaderReported

\* Starting the threads.
LEMMA StartKeeps ==
  ASSUME StreamInv, Start
  PROVE  StreamInv'
  <1>1. t2 = "none" /\ t2' = "read" /\ main' = "join" /\ child' = "running"
        /\ UNCHANGED <<outputVars, column, readBuffer, stream, stdout, exception_msg>>
    BY DEF Start, StreamInv, pipeVars
  <1>2. PICK L \in Nat, A \in Nat :
          ReaderAt(L) /\ RowOf(L, A) /\ Holds(emit, delivered, A)
    BY <1>1 DEF StreamInv
  <1>3. UNCHANGED <<Consumed, ClosedOut>> /\ column = 1
    BY <1>1, <1>2 DEF Consumed, ClosedOut, ReaderAt
  <1>4. PipeInv'
    BY <1>1, <1>3 DEF StreamInv, PipeInv
  <1>5. ReaderAt(L)'
    BY <1>1, <1>2, <1>3 DEF ReaderAt
  <1>6. RowOf(L, A)'
    BY <1>1, <1>2, <1>3 DEF RowOf, Begun, outputVars
  <1>7. Holds(emit, delivered, A)'
    BY <1>1, <1>2 DEF outputVars
  <1> QED
    BY <1>1, <1>4, <1>5, <1>6, <1>7 DEF StreamInv, FailedReaderReported, outputVars

\* The child closes its end of stdout.
LEMMA ClosingKeeps ==
  ASSUME StreamInv, CloseOut, child = "running", child' # "out",
         UNCHANGED <<t2Vars, outputVars, main, exception_msg>>
  PROVE  StreamInv'
  <1>1. CASE ClosedOut
    <2>1. UNCHANGED <<stdout, stream>>
      BY <1>1 DEF CloseOut
    <2> QED
      BY <2>1, ElsewhereKeeps
  <1>2. CASE ~ClosedOut
    <2>1. Grown("eof")
      BY <1>2 DEF CloseOut, Grown
    <2> QED
      BY <1>2, <2>1, WritingKeeps
  <1> QED
    BY <1>1, <1>2

\* No step loses or repeats a field, or a row.
LEMMA StreamStep == StreamInv /\ [Next]_vars => StreamInv'
  <1> SUFFICES ASSUME StreamInv, [Next]_vars PROVE StreamInv'
    OBVIOUS
  <1> USE DEF pipeVars, childVars
  <1>1. CASE Start
    BY <1>1, StartKeeps
  <1>2. CASE InputToCSV
    BY <1>2, ElsewhereKeeps DEF InputToCSV
  <1>3. CASE AdvanceInput
    BY <1>3, ElsewhereKeeps DEF AdvanceInput
  <1>4. CASE CloseStdin
    BY <1>4, ElsewhereKeeps DEF CloseStdin
  <1>5. CASE ReadCSVValue
    BY <1>5, ReadingKeeps
  <1>6. CASE SetColumn
    BY <1>6, SettingKeeps
  <1>7. ASSUME NEW result \in SendResults, MakeRoom(result) PROVE StreamInv'
    BY <1>7, NextKeeps
  <1>8. ASSUME NEW result \in SendResults, FlushOutput(result) PROVE StreamInv'
    BY <1>8, FlushingKeeps
  <1>9. CASE JoinThreads
    BY <1>9, ElsewhereKeeps DEF JoinThreads
  <1>10. CASE CollectMessage
    BY <1>10, ElsewhereKeeps DEF CollectMessage
  <1>11. CASE CollectedAll
    BY <1>11, ElsewhereKeeps DEF CollectedAll
  <1>12. CASE CloseStderr
    BY <1>12, ElsewhereKeeps DEF CloseStderr
  <1>13. CASE WaitPid
    BY <1>13, ElsewhereKeeps DEF WaitPid
  <1>14. CASE ChildReads
    BY <1>14, ElsewhereKeeps DEF ChildReads
  <1>15. CASE ChildComplains
    BY <1>15, ElsewhereKeeps DEF ChildComplains
  <1>16. CASE ChildIsKilled
    BY <1>16, ElsewhereKeeps DEF ChildIsKilled
  <1>17. ASSUME NEW end \in {"comma", "newline"}, ChildWrites(end) PROVE StreamInv'
    <2>1. child = "out" /\ child' = "running" /\ Grown(end)
          /\ UNCHANGED <<t2Vars, outputVars, main, exception_msg>>
      BY <1>17 DEF ChildWrites, Grown
    <2>2. ~ClosedOut /\ Len(stream) < MaxFields
      BY <2>1 DEF StreamInv, PipeInv
    <2> QED
      BY <1>17, <2>1, <2>2, WritingKeeps
  <1>18. CASE ChildClosesStdout \/ ChildExits
    BY <1>18, ClosingKeeps DEF ChildClosesStdout, ChildExits
  <1>19. ASSUME NEW target \in {"out", "err"}, ChildTurnsTo(target) PROVE StreamInv'
    BY <1>19, ElsewhereKeeps DEF ChildTurnsTo
  <1>20. CASE UNCHANGED vars
    BY <1>20, ElsewhereKeeps DEF vars
  <1> QED
    BY <1>1, <1>2, <1>3, <1>4, <1>5, <1>6, <1>7, <1>8, <1>9, <1>10, <1>11, <1>12, <1>13,
       <1>14, <1>15, <1>16, <1>17, <1>18, <1>19, <1>20
    DEF Next, T1, T2, Main, Done, ChildIO

\* In a stream of L whole lines, all but the last one end with a newline.
LEMMA CountLines ==
  ASSUME NEW L \in Nat \ {0}, NEW S,
         \A i : i \in S <=> i \in 1..L * Width /\ ColumnOf(i) = Width /\ i # L * Width
  PROVE  Cardinality(S) = L - 1
  <1> DEFINE R == 1..L - 1
             f == [r \in R |-> r * Width]
  <1>1. L - 1 \in Nat /\ L * Width \in Nat
    BY Widths
  <1>2. ASSUME NEW r \in R PROVE r * Width \in S
    <2>1. r - 1 \in Nat /\ Width \in Cols /\ r * Width = (r - 1) * Width + Width
      BY <1>1, Widths
    <2>2. ColumnOf(r * Width) = Width
      BY <2>1, PlaceOfCell
    <2>3. r * Width \in 1..L * Width /\ r * Width # L * Width
      BY <1>1, Widths
    <2> QED
      BY <2>2, <2>3
  <1>3. ASSUME NEW i \in S PROVE \E r \in R : i = r * Width
    <2> DEFINE q == (i - 1) \div Width
    <2>1. i \in 1..L * Width /\ ColumnOf(i) = Width /\ i # L * Width
      OBVIOUS
    <2>2. q \in 0..L - 1 /\ i = q * Width + Width
      BY <2>1, CellOfPlace
    <2> HIDE DEF q
    <2>3. i = (q + 1) * Width
      BY <2>2, Widths
    <2>4. q + 1 # L
      BY <2>1, <2>3
    <2>5. q + 1 \in R
      BY <2>2, <2>4
    <2> QED
      BY <2>3, <2>5
  <1>4. \A r, s \in R : r * Width = s * Width => r = s
    BY Widths
  <1> HIDE DEF R
  <1>5. f \in Bijection(R, S)
    <2>1. f \in [R -> S] /\ \A x, y \in R : f[x] = f[y] => x = y
      BY <1>2, <1>4
    <2>2. \A y \in S : \E x \in R : f[x] = y
      BY <1>3
    <2> QED
      BY <2>1, <2>2 DEF Bijection, Injection, Surjection, IsInjective
  <1>6. IsFiniteSet(R) /\ Cardinality(R) = L - 1
    BY <1>1, CountUpTo DEF R
  <1> QED
    BY <1>5, <1>6, FS_Bijection DEF ExistsBijection

\* When the run is over, the lines and the rows are the same.
LEMMA LinesAreRows == StreamInv => DeliversEveryLine
  <1> SUFFICES ASSUME StreamInv, main = "done", exception_msg = "none", ~unserialised
               PROVE  DeliversEveryLine
    BY DEF DeliversEveryLine
  <1>1. t2 = "ended" /\ emit.rows = 0
    BY DEF StreamInv, FailedReaderReported
  <1>2. PICK L \in Nat, A \in Nat :
          ReaderAt(L) /\ RowOf(L, A) /\ Holds(emit, delivered, A)
    BY <1>1 DEF StreamInv
  <1>3. L > 0 /\ Consumed = L * Width /\ stream[Consumed].end = "eof" /\ A = L - 1
    BY <1>1, <1>2 DEF ReaderAt, RowOf, Begun
  <1>4. Consumed \in 1..Len(stream) /\ Len(stream) \in Nat
    BY <1>3, Widths DEF StreamInv, PipeInv, Consumed, IsSequence
  <1>5. Len(stream) = L * Width /\ stream[L * Width].end = "eof"
        /\ DOMAIN stream = 1..Len(stream)
    BY <1>3, <1>4 DEF StreamInv, PipeInv, IsSequence
  <1> DEFINE S == {i \in DOMAIN stream : stream[i].end = "newline"}
  <1>6. Cardinality(S) = L - 1
    <2>1. ASSUME NEW i \in 1..L * Width
          PROVE  i \in S <=> ColumnOf(i) = Width /\ i # L * Width
      <3>1. stream[i].end = "comma" <=> ColumnOf(i) # Width
        BY <1>2, <1>3 DEF ReaderAt
      <3>2. stream[i].end = "eof" => i = L * Width
        BY <1>5 DEF StreamInv, PipeInv
      <3>3. stream[i].end \in {"comma", "newline", "eof"}
        BY <1>5 DEF StreamInv, PipeInv
      <3> QED
        BY <1>5, <3>1, <3>2, <3>3
    <2>2. \A i : i \in S <=> i \in 1..L * Width /\ ColumnOf(i) = Width /\ i # L * Width
      BY <1>5, <2>1
    <2> HIDE DEF S
    <2> QED
      BY <1>3, <2>2, CountLines
  <1>7. Len(delivered) = L - 1 /\ DOMAIN delivered = 1..L - 1
    BY <1>1, <1>2, <1>3 DEF Holds, IsSequence
  <1>8. ASSUME NEW r \in 1..L - 1
        PROVE  delivered[r].cells = [c \in Cols |-> stream[(r - 1) * Width + c].value]
    <2>1. delivered[r].cells = [c \in Cols |-> <<(r - 1) * Width + c, 0>>]
      BY <1>2, <1>7 DEF Holds
    <2>2. ASSUME NEW c \in Cols
          PROVE  stream[(r - 1) * Width + c].value = <<(r - 1) * Width + c, 0>>
      <3>1. r - 1 \in 0..L - 1
        OBVIOUS
      <3>2. (r - 1) * Width + c \in 1..Len(stream)
        BY <1>5, <3>1, RowsInOrder
      <3> QED
        BY <3>2 DEF StreamInv, PipeInv
    <2> QED
      BY <2>1, <2>2
  <1> HIDE DEF S
  <1>9. [r \in DOMAIN delivered |-> delivered[r].cells] =
        [r \in 1..Cardinality(S) |-> [c \in Cols |-> stream[(r - 1) * Width + c].value]]
    BY <1>6, <1>7, <1>8
  <1> QED
    BY <1>9 DEF DeliversEveryLine, S

\* A run without an error delivers every line that the child has ended with a
\* newline, in order, cell by cell, and no other: however large the pipes and
\* the packets are, and however the threads and the child take turns.
THEOREM LinesAreDelivered == Spec => []DeliversEveryLine
  BY StreamStart, StreamStep, LinesAreRows, PTL DEF Spec
=============================================================================
