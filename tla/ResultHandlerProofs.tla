------------------------ MODULE ResultHandlerProofs ------------------------
(***************************************************************************)
(* Lemmas about the packets of the v1 row interface, and the proof that    *)
(* the output side delivers the rows it was given: for any columns, values *)
(* and packet limit.                                                       *)
(***************************************************************************)
EXTENDS ResultHandler, FiniteSetTheorems, TLAPS

-----------------------------------------------------------------------------
(* Cells and columns                                                       *)

\* There is at least one column.
LEMMA Widths == Width \in Nat \ {0} /\ Cols = 1..Width
  BY FormatAssumption DEF Width, Cols

\* Cell c of row r + 1 is where it should be.
LEMMA PlaceOfCell ==
  ASSUME NEW r \in Nat, NEW c \in Cols
  PROVE  /\ r * Width + c \in Nat \ {0}
         /\ ColumnOf(r * Width + c) = c
         /\ (r * Width + c - 1) \div Width = r
  BY Widths DEF ColumnOf

\* Every cell of a packet of n rows is in one of its rows.
LEMMA CellOfPlace ==
  ASSUME NEW n \in Nat, NEW i \in 1..n * Width
  PROVE  /\ ColumnOf(i) \in Cols
         /\ (i - 1) \div Width \in 0..n - 1
         /\ i = ((i - 1) \div Width) * Width + ColumnOf(i)
  BY Widths DEF ColumnOf

\* The cells of the first rows come first.
LEMMA RowsInOrder ==
  ASSUME NEW n \in Nat, NEW r \in 0..n - 1, NEW c \in Cols
  PROVE  r * Width + c \in 1..n * Width
  BY Widths

-----------------------------------------------------------------------------
(* Counting                                                                *)

\* Cells and columns are finitely many.
LEMMA FinitelyMany ==
  ASSUME NEW n \in Nat, NEW A \in SUBSET (1..n)
  PROVE  IsFiniteSet(A) /\ Cardinality(A) \in Nat
  <1>1. 1 \in Int /\ n \in Int
    OBVIOUS
  <1>2. IsFiniteSet(1..n)
    BY <1>1, FS_Interval
  <1>3. IsFiniteSet(A)
    BY <1>2, FS_Subset
  <1> QED
    BY <1>3, FS_CardinalityType

\* The numbers of B, counted on from m, behind those of A.
Behind(A, m, B) == A \cup {m + d : d \in B}

\* A finite set of numbers behind another one.
LEMMA CountBehind ==
  ASSUME NEW m \in Nat, NEW A \in SUBSET (1..m), NEW n \in Nat, NEW B \in SUBSET (1..n)
  PROVE  /\ IsFiniteSet(Behind(A, m, B))
         /\ Cardinality(Behind(A, m, B)) = Cardinality(A) + Cardinality(B)
  <1> DEFINE D == {m + d : d \in B}
  <1>1. IsFiniteSet(A) /\ IsFiniteSet(B)
    BY FinitelyMany
  <1>2. IsFiniteSet(D) /\ Cardinality(D) = Cardinality(B)
    <2> DEFINE f == [d \in B |-> m + d]
    <2>1. f \in [B -> D] /\ \A x, y \in B : f[x] = f[y] => x = y
      OBVIOUS
    <2>2. \A y \in D : \E x \in B : f[x] = y
      OBVIOUS
    <2>3. f \in Bijection(B, D)
      BY <2>1, <2>2 DEF Bijection, Injection, Surjection, IsInjective
    <2> QED
      BY <1>1, <2>3, FS_Bijection DEF ExistsBijection
  <1>3. A \cap D = {}
    OBVIOUS
  <1>4. /\ IsFiniteSet(A \cup D)
        /\ Cardinality(A \cup D) = Cardinality(A) + Cardinality(D) - Cardinality(A \cap D)
    BY <1>1, <1>2, FS_Union
  <1>5. Cardinality(A \cap D) = 0
    BY <1>3, FS_EmptySet
  <1>6. Cardinality(A) \in Nat /\ Cardinality(B) \in Nat
    BY FinitelyMany
  <1> QED
    BY <1>2, <1>4, <1>5, <1>6 DEF Behind

\* The k-th number of a set in order is the one that has k up to it.
LEMMA OrderIsRank ==
  ASSUME NEW n \in Nat, NEW S \in SUBSET (1..n)
  PROVE  /\ Cardinality(S) \in Nat
         /\ Len(InOrder(S)) = Cardinality(S)
         /\ \A i \in S : LET k == Cardinality({j \in S : j <= i})
                         IN k \in 1..Cardinality(S) /\ InOrder(S)[k] = i
  <1> DEFINE Upto(i) == {j \in S : j <= i}
  <1>1. IsFiniteSet(S) /\ Cardinality(S) \in Nat
    BY FinitelyMany
  <1>2. \A i \in S : Cardinality(Upto(i)) \in 1..Cardinality(S) /\ IsFiniteSet(Upto(i))
    <2> TAKE i \in S
    <2>1. Upto(i) \in SUBSET S /\ i \in Upto(i)
      OBVIOUS
    <2>2. IsFiniteSet(Upto(i)) /\ Cardinality(Upto(i)) <= Cardinality(S)
      BY <1>1, <2>1, FS_Subset
    <2>3. Cardinality(Upto(i)) \in Nat /\ Cardinality(Upto(i)) # 0
      BY <2>1, <2>2, FS_CardinalityType, FS_EmptySet
    <2> QED
      BY <1>1, <2>2, <2>3
  <1>3. ASSUME NEW i \in S, NEW j \in S, i < j
        PROVE  Cardinality(Upto(i)) # Cardinality(Upto(j))
    <2>0. \A k \in S : k \in Nat
      OBVIOUS
    <2>1. \A k \in S : k <= i => k <= j
      BY <1>3, <2>0
    <2>2. Upto(i) \in SUBSET Upto(j)
      BY <2>1
    <2>3. j \in Upto(j) /\ j \notin Upto(i)
      BY <1>3, <2>0
    <2>4. Upto(i) # Upto(j)
      BY <2>3
    <2> QED
      BY <1>2, <2>2, <2>4, FS_Subset
  <1>4. \A i, j \in S : Cardinality(Upto(i)) = Cardinality(Upto(j)) => i = j
    BY <1>3
  <1>5. \A i \in S : InOrder(S)[Cardinality(Upto(i))] = i
    BY <1>2, <1>4 DEF InOrder
  <1> QED
    BY <1>1, <1>2, <1>5 DEF InOrder

\* Every number up to the size of a set is the rank of one of its members.
LEMMA EveryRank ==
  ASSUME NEW n \in Nat, NEW S \in SUBSET (1..n), NEW k \in 1..Cardinality(S)
  PROVE  \E i \in S : Cardinality({j \in S : j <= i}) = k
  <1> DEFINE f == [i \in S |-> Cardinality({j \in S : j <= i})]
             T == 1..Cardinality(S)
  <1>1. Cardinality(S) \in Nat /\ \A i \in S : f[i] \in T /\ InOrder(S)[f[i]] = i
    BY OrderIsRank
  <1>2. f \in [S -> T] /\ \A i, j \in S : f[i] = f[j] => i = j
    BY <1>1
  <1>3. f \in Injection(S, T)
    BY <1>2 DEF Injection, IsInjective
  <1>4. IsFiniteSet(T) /\ Cardinality(T) = Cardinality(S)
    <2>1. 1 \in Int /\ Cardinality(S) \in Int
      BY <1>1
    <2>2. IsFiniteSet(T) /\ Cardinality(T) = IF 1 > Cardinality(S) THEN 0 ELSE Cardinality(S) - 1 + 1
      BY <2>1, FS_Interval
    <2> HIDE DEF T
    <2> QED
      BY <1>1, <2>2
  <1> HIDE DEF f
  <1>5. f \in Surjection(S, T)
    BY <1>3, <1>4, FS_Injection
  <1>6. \E i \in S : f[i] = k
    BY <1>5 DEF Surjection, T
  <1> QED
    BY <1>6 DEF f

\* A set of numbers that is not empty has a least member.
LEMMA LeastOne ==
  ASSUME NEW n \in Nat, NEW S \in SUBSET (1..n), S # {}
  PROVE  Min(S) \in S
  <1>1. IsFiniteSet(S) /\ Cardinality(S) \in Nat
    BY FinitelyMany
  <1>2. 1 \in 1..Cardinality(S)
    BY <1>1, FS_EmptySet
  <1>3. PICK i \in S : Cardinality({j \in S : j <= i}) = 1
    BY <1>2, EveryRank
  <1>4. ASSUME NEW y \in S, y < i PROVE FALSE
    <2> DEFINE T == {j \in S : j <= i}
    <2>1. i \in T /\ y \in T /\ y # i /\ T \in SUBSET S
      BY <1>4
    <2>2. Cardinality(T) = 1
      BY <1>3
    <2> HIDE DEF T
    <2>3. IsFiniteSet(T) /\ {i} \in SUBSET T /\ {i} # T
      BY <1>1, <2>1, FS_Subset
    <2>4. Cardinality({i}) # Cardinality(T)
      BY <2>3, FS_Subset
    <2> QED
      BY <2>2, <2>4, FS_Singleton
  <1>5. \A y \in S : i <= y
    BY <1>4
  <1> QED
    BY <1>5 DEF Min

-----------------------------------------------------------------------------
(* Packets                                                                 *)

\* The places of the values of type t among the first m cells of a packet.
Places(p, m, t) == {j \in 1..m : ~p.nulls[j] /\ Columns[ColumnOf(j)] = t}

\* What a reader gets for the i-th cell of a packet.
CellAt(p, i) ==
  LET values == p.data[Columns[ColumnOf(i)]]
      k == Cardinality(Places(p, i, Columns[ColumnOf(i)]))
  IN IF p.nulls[i] THEN Null ELSE IF k <= Len(values) THEN values[k] ELSE Null

\* The columns up to c of type t that have a value in the row at index row.
InRow(p, row, c, t) == {d \in 1..c : Columns[d] = t /\ ~p.nulls[row * Width + d]}

\* The values up to a cell are those of the rows before and those of its row.
LEMMA PlacesInRow ==
  ASSUME NEW p, NEW row \in Nat, NEW c \in Cols, NEW t
  PROVE  /\ Cardinality(Places(p, row * Width, t)) \in Nat
         /\ Cardinality(InRow(p, row, c, t)) \in Nat
         /\ Cardinality(Places(p, row * Width + c, t)) =
              Cardinality(Places(p, row * Width, t)) + Cardinality(InRow(p, row, c, t))
  <1> DEFINE m == row * Width
             A == Places(p, m, t)
             D == InRow(p, row, c, t)
  <1>1. m \in Nat /\ c \in Nat /\ 1..c \subseteq Cols
    BY Widths
  <1>2. \A d \in Cols : ColumnOf(m + d) = d
    BY PlaceOfCell
  <1>0. D = {d \in 1..c : Columns[d] = t /\ ~p.nulls[m + d]}
    BY DEF InRow
  <1> HIDE DEF m, D
  <1>3. A \in SUBSET (1..m) /\ D \in SUBSET (1..c)
    BY <1>0 DEF Places
  <1>4. ASSUME NEW j \in 1..m + c
        PROVE  j \in Places(p, m + c, t) <=> j \in A \cup {m + d : d \in D}
    <2>1. CASE j <= m
      BY <1>0, <1>1, <1>4, <2>1 DEF Places
    <2>2. CASE j > m
      <3>1. j - m \in 1..c /\ j - m \in Cols /\ j = m + (j - m)
        BY <1>1, <1>4, <2>2
      <3>2. ColumnOf(j) = j - m
        BY <1>2, <3>1
      <3>3. j \in Places(p, m + c, t) <=> j - m \in D
        BY <1>0, <1>4, <3>1, <3>2 DEF Places
      <3>4. j \notin A
        BY <1>1, <1>4, <2>2 DEF Places
      <3> QED
        BY <1>1, <1>3, <3>1, <3>3, <3>4
    <2> QED
      BY <1>1, <2>1, <2>2
  <1>5. Places(p, m + c, t) = Behind(A, m, D)
    <2>1. Places(p, m + c, t) \subseteq 1..m + c
      BY DEF Places
    <2>2. A \cup {m + d : d \in D} \subseteq 1..m + c
      BY <1>1, <1>3
    <2> QED
      BY <1>4, <2>1, <2>2 DEF Behind
  <1> HIDE DEF A
  <1>6. Cardinality(Behind(A, m, D)) = Cardinality(A) + Cardinality(D)
    BY <1>1, <1>3, CountBehind
  <1>7. Cardinality(A) \in Nat /\ Cardinality(D) \in Nat
    BY <1>1, <1>3, FinitelyMany
  <1> QED
    BY <1>5, <1>6, <1>7 DEF m, A, D

\* A packet of whole rows: a flag per cell, and a value per flag that is not set.
WellFormed(p) ==
  /\ p = [rows |-> p.rows, nulls |-> p.nulls, data |-> p.data, row_number |-> p.row_number]
  /\ p.rows \in Nat
  /\ Len(p.nulls) = p.rows * Width
  /\ Len(p.row_number) = p.rows
  /\ \A t \in Types : Len(p.data[t]) = Cardinality(Places(p, p.rows * Width, t))

\* Packet q says what packet p says, and one row more.
Extends(q, p, row, number) ==
  /\ p.rows \in Nat
  /\ q.rows = p.rows + 1
  /\ \A r \in 1..p.rows, c \in Cols :
       CellAt(q, (r - 1) * Width + c) = CellAt(p, (r - 1) * Width + c)
  /\ \A c \in Cols : CellAt(q, p.rows * Width + c) = Entry(row, number).cells[c]
  /\ \A r \in 1..p.rows : q.row_number[r] = p.row_number[r]
  /\ q.row_number[p.rows + 1] = number

\* A reader gets the new row behind the others.
LEMMA UnpackGrows ==
  ASSUME NEW p, NEW q, NEW row, NEW number, Extends(q, p, row, number)
  PROVE  Unpack(q) = Append(Unpack(p), Entry(row, number))
  <1> DEFINE n == p.rows
             RowOf(a, r) == [cells |-> [c \in Cols |-> CellAt(a, (r - 1) * Width + c)],
                             number |-> a.row_number[r]]
             new == Entry(row, number)
  <1> USE DEF Extends
  <1>1. n \in Nat /\ q.rows = n + 1
    OBVIOUS
  <1>2. Unpack(p) = [r \in 1..n |-> RowOf(p, r)] /\ Unpack(q) = [r \in 1..n + 1 |-> RowOf(q, r)]
    BY DEF Unpack, CellAt, Places
  <1>3. ASSUME NEW r \in 1..n PROVE RowOf(q, r) = RowOf(p, r)
    BY <1>3
  <1>4. RowOf(q, n + 1) = new
    <2>1. (n + 1 - 1) * Width = n * Width
      BY <1>1
    <2> DEFINE cells == Entry(row, number).cells
    <2>2. \A c \in Cols : CellAt(q, (n + 1 - 1) * Width + c) = cells[c]
      BY <2>1
    <2>3. cells = [c \in Cols |-> cells[c]] /\ new = [cells |-> cells, number |-> number]
      BY DEF Entry
    <2> HIDE DEF n, cells, new
    <2>4. [c \in Cols |-> CellAt(q, (n + 1 - 1) * Width + c)] = cells
      BY <2>2, <2>3
    <2> QED
      BY <2>3, <2>4 DEF n
  <1> HIDE DEF RowOf, n, new
  <1>5. Unpack(q) = Append(Unpack(p), new)
    BY <1>1, <1>2, <1>3, <1>4
  <1> QED
    BY <1>5 DEF new

\* A new row comes behind the ones in the packet and leaves them alone, whatever
\* is null in it and in them.
LEMMA RowAppended ==
  ASSUME NEW p, WellFormed(p), NEW row, NEW number,
         \A c \in Cols : row[c].null \in BOOLEAN
  PROVE  LET q == AppendRow(p, row, number)
         IN /\ WellFormed(q)
            /\ Unpack(q) = Append(Unpack(p), Entry(row, number))
  <1> DEFINE q == AppendRow(p, row, number)
             m == p.rows * Width
             D(t) == {c \in 1..Width : Columns[c] = t /\ ~row[c].null}
             Upto(t, c) == {e \in D(t) : e <= c}
             Flags == [c \in 1..Width |-> row[c].null]
             New(t) == [k \in DOMAIN InOrder(D(t)) |-> row[InOrder(D(t))[k]].value]
  <1>1. /\ q.rows = p.rows + 1
        /\ q.nulls = p.nulls \o Flags
        /\ q.data = [t \in Types |-> p.data[t] \o New(t)]
        /\ q.row_number = Append(p.row_number, number)
        /\ q = [rows |-> q.rows, nulls |-> q.nulls, data |-> q.data, row_number |-> q.row_number]
    <2>1. /\ AppendColumns(p, row, Width).nulls = p.nulls \o Flags
          /\ AppendColumns(p, row, Width).data = [t \in Types |-> p.data[t] \o New(t)]
      <3>1. (IF Width < Width THEN Width + 1 ELSE Width) = Width
        BY Widths
      <3> QED
        BY <3>1 DEF AppendColumns
    <2> HIDE DEF Flags, New, D
    <2>2. q = [rows |-> p.rows + 1, nulls |-> p.nulls \o Flags,
               data |-> [t \in Types |-> p.data[t] \o New(t)],
               row_number |-> Append(p.row_number, number)]
      BY <2>1 DEF AppendRow
    <2> HIDE DEF q
    <2> QED
      BY <2>2
  <1>2. m \in Nat /\ p.rows \in Nat /\ Len(p.nulls) = m /\ q.rows * Width = m + Width
    BY <1>1, Widths DEF WellFormed
  <1>x. Flags = [c \in 1..Width |-> row[c].null]
    OBVIOUS
  <1> HIDE DEF q, m, Flags, New
  <1>3. /\ Len(q.nulls) = m + Width
        /\ \A i \in 1..m : q.nulls[i] = p.nulls[i]
        /\ \A c \in Cols : q.nulls[m + c] = row[c].null
    BY <1>1, <1>2, <1>x, Widths
  <1>4. \A c \in Cols : ColumnOf(m + c) = c
    BY PlaceOfCell DEF m, WellFormed
  <1>5. \A i \in 0..m, t \in Types : Places(q, i, t) = Places(p, i, t)
    BY <1>2, <1>3 DEF Places
  <1>6. ASSUME NEW c \in Cols, NEW t \in Types
        PROVE  InRow(q, p.rows, c, t) = Upto(t, c)
    <2>1. c \in 1..Width /\ \A d : d \in 1..c <=> d \in 1..Width /\ d <= c
      BY Widths
    <2>2. \A d \in 1..Width : q.nulls[m + d] = row[d].null
      BY <1>3, Widths
    <2> QED
      BY <2>1, <2>2 DEF InRow, m
  <1>7. ASSUME NEW t \in Types
        PROVE  /\ Cardinality(D(t)) \in Nat /\ Len(New(t)) = Cardinality(D(t))
               /\ \A c \in D(t) : LET k == Cardinality(Upto(t, c))
                                  IN k \in 1..Cardinality(D(t)) /\ New(t)[k] = row[c].value
    <2>1. D(t) \in SUBSET (1..Width)
      OBVIOUS
    <2>2. DOMAIN InOrder(D(t)) = 1..Cardinality(D(t))
      BY DEF InOrder
    <2> HIDE DEF D
    <2>3. /\ Cardinality(D(t)) \in Nat
          /\ \A c \in D(t) : LET k == Cardinality({e \in D(t) : e <= c})
                             IN k \in 1..Cardinality(D(t)) /\ InOrder(D(t))[k] = c
      BY <2>1, OrderIsRank, Widths
    <2>4. \A c \in D(t) : Cardinality(Upto(t, c)) \in 1..Cardinality(D(t))
                          /\ InOrder(D(t))[Cardinality(Upto(t, c))] = c
      BY <2>3
    <2> HIDE DEF Upto
    <2> QED
      BY <2>2, <2>3, <2>4 DEF New
  <1>8. ASSUME NEW c \in Cols, NEW t \in Types
        PROVE  /\ Cardinality(Places(p, m, t)) \in Nat
               /\ Cardinality(Places(q, m + c, t)) =
                    Cardinality(Places(p, m, t)) + Cardinality(Upto(t, c))
    <2>1. p.rows \in Nat /\ Places(q, m, t) = Places(p, m, t) /\ InRow(q, p.rows, c, t) = Upto(t, c)
      BY <1>2, <1>5, <1>6, <1>8
    <2> HIDE DEF Upto
    <2> QED
      BY <2>1, PlacesInRow DEF m
  <1>9. ASSUME NEW t \in Types
        PROVE  /\ Len(p.data[t]) = Cardinality(Places(p, m, t))
               /\ Len(p.data[t]) \in Nat /\ Len(q.data[t]) \in Nat
               /\ Len(q.data[t]) = Cardinality(Places(p, m, t)) + Cardinality(D(t))
               /\ \A k \in 1..Len(p.data[t]) : q.data[t][k] = p.data[t][k]
               /\ \A k \in 1..Cardinality(D(t)) : q.data[t][Len(p.data[t]) + k] = New(t)[k]
    <2>1. Len(p.data[t]) = Cardinality(Places(p, m, t))
      BY DEF WellFormed, m
    <2>2. Len(p.data[t]) \in Nat
      BY <1>8, <2>1, Widths
    <2>3. q.data[t] = p.data[t] \o New(t)
      BY <1>1
    <2>4. Cardinality(D(t)) \in Nat /\ Len(New(t)) = Cardinality(D(t))
      BY <1>7
    <2> DEFINE old == p.data[t]
               new == New(t)
               all == q.data[t]
    <2> HIDE DEF D, old, new, all
    <2>5. ASSUME Len(old) \in Nat, Len(new) \in Nat, all = old \o new
          PROVE  /\ Len(all) = Len(old) + Len(new)
                 /\ \A k \in 1..Len(old) : all[k] = old[k]
                 /\ \A k \in 1..Len(new) : all[Len(old) + k] = new[k]
      BY <2>5
    <2> USE DEF old, new, all
    <2>6. /\ Len(q.data[t]) = Len(p.data[t]) + Cardinality(D(t))
          /\ \A k \in 1..Len(p.data[t]) : q.data[t][k] = p.data[t][k]
          /\ \A k \in 1..Cardinality(D(t)) : q.data[t][Len(p.data[t]) + k] = New(t)[k]
      BY <2>2, <2>3, <2>4, <2>5
    <2> QED
      BY <2>1, <2>2, <2>4, <2>6
  <1>10. WellFormed(q)
    <2>1. \A t \in Types : Len(q.data[t]) = Cardinality(Places(q, m + Width, t))
      <3> TAKE t \in Types
      <3>1. Width \in Cols /\ Upto(t, Width) = D(t)
        BY Widths
      <3> HIDE DEF D, Upto
      <3> QED
        BY <1>8, <1>9, <3>1
    <2> QED
      BY <1>1, <1>2, <1>3, <2>1 DEF WellFormed
  <1>11. ASSUME NEW i \in 1..m
         PROVE  CellAt(q, i) = CellAt(p, i)
    <2> DEFINE t == Columns[ColumnOf(i)]
               k == Cardinality(Places(p, i, t))
    <2>1. ColumnOf(i) \in Cols /\ t \in Types
      BY <1>11, <1>2, CellOfPlace DEF m, Types
    <2> HIDE DEF t
    <2>2. Places(q, i, t) = Places(p, i, t) /\ q.nulls[i] = p.nulls[i]
      BY <1>2, <1>3, <1>5, <1>11, <2>1
    <2>3. Len(p.data[t]) \in Nat /\ Len(q.data[t]) \in Nat /\ Len(p.data[t]) <= Len(q.data[t])
      <3>1. Cardinality(D(t)) \in Nat
        BY <1>7, <2>1
      <3> HIDE DEF D
      <3> QED
        BY <1>9, <2>1, <3>1
    <2>4. ~p.nulls[i] => k \in 1..Len(p.data[t])
      <3> SUFFICES ASSUME ~p.nulls[i] PROVE k \in 1..Len(p.data[t])
        OBVIOUS
      <3>1. i \in Places(p, i, t) /\ Places(p, i, t) \in SUBSET Places(p, m, t)
        BY <1>2 DEF Places, t
      <3>2. Places(p, m, t) \in SUBSET (1..m) /\ Places(p, i, t) \in SUBSET (1..m)
        BY <1>2 DEF Places
      <3>3. IsFiniteSet(Places(p, m, t)) /\ IsFiniteSet(Places(p, i, t)) /\ k \in Nat
        BY <1>2, <3>2, FinitelyMany
      <3>4. k # 0
        BY <3>1, <3>3, FS_EmptySet
      <3>5. k <= Cardinality(Places(p, m, t))
        BY <3>1, <3>3, FS_Subset
      <3>6. Len(p.data[t]) = Cardinality(Places(p, m, t))
        BY <1>9, <2>1
      <3> QED
        BY <2>3, <3>3, <3>4, <3>5, <3>6
    <2>5. \A n \in 1..Len(p.data[t]) : q.data[t][n] = p.data[t][n]
      BY <1>9, <2>1
    <2> QED
      BY <2>2, <2>3, <2>4, <2>5 DEF CellAt, t
  <1>12. ASSUME NEW c \in Cols
         PROVE  CellAt(q, m + c) = Entry(row, number).cells[c]
    <2> DEFINE t == Columns[c]
               k == Cardinality(Upto(t, c))
    <2>1. t \in Types /\ ColumnOf(m + c) = c /\ q.nulls[m + c] = row[c].null
      BY <1>3, <1>4, <1>12 DEF Types
    <2> HIDE DEF t
    <2>2. Cardinality(Places(q, m + c, t)) = Len(p.data[t]) + k
      <3> HIDE DEF D, Upto
      <3> QED
        BY <1>8, <1>9, <1>12, <2>1
    <2>3. ~row[c].null => k \in 1..Cardinality(D(t)) /\ New(t)[k] = row[c].value
      <3>1. ~row[c].null => c \in D(t)
        BY <1>12, Widths DEF t
      <3> QED
        BY <1>7, <2>1, <3>1
    <2>4. /\ Len(p.data[t]) \in Nat /\ Cardinality(D(t)) \in Nat
          /\ Len(q.data[t]) = Len(p.data[t]) + Cardinality(D(t))
      <3>1. Cardinality(D(t)) \in Nat
        BY <1>7, <2>1
      <3> HIDE DEF D
      <3> QED
        BY <1>9, <2>1, <3>1
    <2>5. ~row[c].null => q.data[t][Len(p.data[t]) + k] = row[c].value
      BY <1>9, <2>1, <2>3
    <2> HIDE DEF D, k
    <2>6. ~row[c].null => CellAt(q, m + c) = row[c].value
      BY <2>1, <2>2, <2>3, <2>4, <2>5, SMTT(30) DEF CellAt, t
    <2>7. row[c].null => CellAt(q, m + c) = Null
      BY <2>1 DEF CellAt
    <2> QED
      BY <2>6, <2>7 DEF Entry
  <1>13. Unpack(q) = Append(Unpack(p), Entry(row, number))
    <2>1. \A r \in 1..p.rows, c \in Cols : (r - 1) * Width + c \in 1..m
      BY <1>2, RowsInOrder DEF m
    <2>2. \A r \in 1..p.rows, c \in Cols :
            CellAt(q, (r - 1) * Width + c) = CellAt(p, (r - 1) * Width + c)
      BY <1>11, <2>1
    <2>3. \A c \in Cols : CellAt(q, p.rows * Width + c) = Entry(row, number).cells[c]
      BY <1>12 DEF m
    <2>4. /\ \A r \in 1..p.rows : q.row_number[r] = p.row_number[r]
          /\ q.row_number[p.rows + 1] = number
      BY <1>1, <1>2 DEF WellFormed
    <2>5. p.rows \in Nat /\ q.rows = p.rows + 1
      BY <1>1, <1>2
    <2>6. Extends(q, p, row, number)
      BY <2>2, <2>3, <2>4, <2>5 DEF Extends
    <2> QED
      BY <2>6, UnpackGrows
  <1> QED
    BY <1>10, <1>13 DEF q

\* A packet that begins with whole rows: what a reader needs for them is there,
\* and half a row may follow.
Whole(p) ==
  /\ p.rows \in Nat
  /\ Len(p.nulls) \in Nat /\ Len(p.nulls) >= p.rows * Width
  /\ \A t \in Types : /\ Len(p.data[t]) \in Nat
                       /\ Len(p.data[t]) >= Cardinality(Places(p, p.rows * Width, t))

\* A packet of whole rows is one.
LEMMA WellFormedIsWhole ==
  ASSUME NEW p, WellFormed(p)
  PROVE  Whole(p)
  <1> DEFINE m == p.rows * Width
  <1>1. m \in Nat /\ Len(p.nulls) = m /\ p.rows \in Nat
    BY Widths DEF WellFormed
  <1> HIDE DEF m
  <1>2. ASSUME NEW t \in Types PROVE Cardinality(Places(p, m, t)) \in Nat
    <2>1. Places(p, m, t) \in SUBSET (1..m)
      BY DEF Places
    <2> QED
      BY <1>1, <2>1, FinitelyMany
  <1>3. \A t \in Types : Len(p.data[t]) = Cardinality(Places(p, m, t))
    BY DEF WellFormed, m
  <1> QED
    BY <1>1, <1>2, <1>3 DEF Whole, m

\* The columns up to n of type t that have a value in the row.
Carried(row, n, t) == {c \in 1..n : Columns[c] = t /\ ~row[c].null}

\* The values of the row come behind those in the packet, in the order of their
\* columns.
LEMMA ValuesAppended ==
  ASSUME NEW p, NEW row, NEW n \in 0..Width, NEW t \in Types, Len(p.data[t]) \in Nat
  PROVE  LET new == AppendColumns(p, row, n).data[t]
             old == p.data[t]
             D == Carried(row, n, t)
         IN /\ Cardinality(D) \in Nat
            /\ Len(new) = Len(old) + Cardinality(D)
            /\ \A k \in 1..Len(old) : new[k] = old[k]
            /\ \A c \in D : LET k == Cardinality({e \in D : e <= c})
                            IN k \in 1..Cardinality(D) /\ new[Len(old) + k] = row[c].value
  <1> DEFINE D == Carried(row, n, t)
             old == p.data[t]
             all == AppendColumns(p, row, n).data[t]
             add == [k \in DOMAIN InOrder(D) |-> row[InOrder(D)[k]].value]
             Rank(c) == Cardinality({e \in D : e <= c})
  <1>1. n \in Nat /\ D \in SUBSET (1..n)
    BY Widths DEF Carried
  <1>2. all = old \o add
    BY DEF AppendColumns, Carried
  <1>3. DOMAIN InOrder(D) = 1..Cardinality(D)
    BY DEF InOrder
  <1> HIDE DEF D
  <1>4. /\ Cardinality(D) \in Nat
        /\ \A c \in D : Rank(c) \in 1..Cardinality(D) /\ InOrder(D)[Rank(c)] = c
    BY <1>1, OrderIsRank
  <1>5. add = [k \in 1..Cardinality(D) |-> row[InOrder(D)[k]].value]
    BY <1>3
  <1> HIDE DEF add, Rank
  <1>6. Len(add) = Cardinality(D) /\ \A c \in D : add[Rank(c)] = row[c].value
    BY <1>4, <1>5
  <1>7. Len(old) \in Nat
    OBVIOUS
  <1> HIDE DEF all, old
  <1>8. /\ Len(all) = Len(old) + Cardinality(D)
        /\ \A k \in 1..Len(old) : all[k] = old[k]
        /\ \A k \in 1..Cardinality(D) : all[Len(old) + k] = add[k]
    <2>1. Len(add) \in Nat
      BY <1>4, <1>6
    <2>2. /\ Len(all) = Len(old) + Len(add)
          /\ \A k \in 1..Len(old) : all[k] = old[k]
          /\ \A k \in 1..Len(add) : all[Len(old) + k] = add[k]
      BY <1>2, <1>7, <2>1
    <2> QED
      BY <1>6, <2>2
  <1> QED
    BY <1>4, <1>6, <1>8 DEF Rank, D, old, all

\* What a next() that fails leaves behind changes nothing for a reader.
LEMMA PartAppended ==
  ASSUME NEW p, Whole(p), NEW row, NEW n \in 0..Width
  PROVE  LET q == AppendColumns(p, row, n)
         IN Whole(q) /\ Unpack(q) = Unpack(p)
  <1> DEFINE q == AppendColumns(p, row, n)
             m == p.rows * Width
             flags == IF n < Width THEN n + 1 ELSE n
             Flags == [c \in 1..flags |-> row[c].null]
  <1>1. q.rows = p.rows /\ q.nulls = p.nulls \o Flags /\ q.row_number = p.row_number
    BY DEF AppendColumns
  <1>2. /\ m \in Nat /\ p.rows \in Nat /\ flags \in Nat
        /\ Len(p.nulls) \in Nat /\ Len(p.nulls) >= m
    BY Widths DEF Whole
  <1> HIDE DEF flags
  <1>3. Len(Flags) = flags /\ Flags = [c \in 1..flags |-> Flags[c]]
    BY <1>2
  <1>d. \A t \in Types : /\ Len(p.data[t]) \in Nat /\ Len(q.data[t]) \in Nat
                         /\ Len(p.data[t]) <= Len(q.data[t])
                         /\ \A k \in 1..Len(p.data[t]) : q.data[t][k] = p.data[t][k]
    <2> TAKE t \in Types
    <2>1. Len(p.data[t]) \in Nat
      BY DEF Whole
    <2>2. /\ Cardinality(Carried(row, n, t)) \in Nat
          /\ Len(q.data[t]) = Len(p.data[t]) + Cardinality(Carried(row, n, t))
          /\ \A k \in 1..Len(p.data[t]) : q.data[t][k] = p.data[t][k]
      BY <2>1, ValuesAppended
    <2> HIDE DEF q
    <2> QED
      BY <2>1, <2>2, SMTT(30)
  <1> HIDE DEF q, m, Flags
  <1>4. /\ Len(q.nulls) \in Nat /\ Len(q.nulls) >= m
        /\ \A i \in 1..m : q.nulls[i] = p.nulls[i]
    <2> DEFINE old == p.nulls
               all == q.nulls
    <2>1. Len(old) \in Nat /\ Len(Flags) \in Nat /\ all = old \o Flags
      BY <1>1, <1>2, <1>3
    <2> HIDE DEF old, all
    <2>2. Len(all) = Len(old) + Len(Flags) /\ \A i \in 1..Len(old) : all[i] = old[i]
      BY <2>1
    <2> QED
      BY <1>2, <2>1, <2>2, SMTT(30) DEF old, all
  <1>5. \A i \in 0..m, t \in Types : Places(q, i, t) = Places(p, i, t)
    BY <1>2, <1>4 DEF Places
  <1>6. Whole(q)
    <2>1. \A t \in Types : /\ Len(q.data[t]) \in Nat
                           /\ Len(q.data[t]) >= Cardinality(Places(q, m, t))
      <3> TAKE t \in Types
      <3>1. Len(p.data[t]) >= Cardinality(Places(p, m, t)) /\ Places(q, m, t) = Places(p, m, t)
        BY <1>2, <1>5 DEF Whole, m
      <3>2. Places(p, m, t) \in SUBSET (1..m)
        BY DEF Places
      <3>3. Cardinality(Places(p, m, t)) \in Nat
        BY <1>2, <3>2, FinitelyMany
      <3> QED
        BY <1>d, <3>1, <3>3
    <2> QED
      BY <1>1, <1>2, <1>4, <2>1 DEF Whole, m
  <1>7. ASSUME NEW i \in 1..m
        PROVE  CellAt(q, i) = CellAt(p, i)
    <2> DEFINE t == Columns[ColumnOf(i)]
               k == Cardinality(Places(p, i, t))
    <2>1. ColumnOf(i) \in Cols /\ t \in Types
      BY <1>7, <1>2, CellOfPlace DEF m, Types
    <2> HIDE DEF t
    <2>2. Places(q, i, t) = Places(p, i, t) /\ q.nulls[i] = p.nulls[i]
      BY <1>2, <1>4, <1>5, <1>7, <2>1
    <2>3. Len(p.data[t]) \in Nat /\ Len(q.data[t]) \in Nat /\ Len(p.data[t]) <= Len(q.data[t])
      BY <1>d, <2>1
    <2>4. ~p.nulls[i] => k \in 1..Len(p.data[t])
      <3> SUFFICES ASSUME ~p.nulls[i] PROVE k \in 1..Len(p.data[t])
        OBVIOUS
      <3>1. i \in Places(p, i, t) /\ Places(p, i, t) \in SUBSET Places(p, m, t)
        BY <1>2 DEF Places, t
      <3>2. Places(p, m, t) \in SUBSET (1..m) /\ Places(p, i, t) \in SUBSET (1..m)
        BY <1>2 DEF Places
      <3>3. /\ IsFiniteSet(Places(p, m, t)) /\ Cardinality(Places(p, m, t)) \in Nat
            /\ IsFiniteSet(Places(p, i, t)) /\ k \in Nat
        BY <1>2, <3>2, FinitelyMany
      <3>4. k # 0
        BY <3>1, <3>3, FS_EmptySet
      <3>5. k <= Cardinality(Places(p, m, t))
        BY <3>1, <3>3, FS_Subset
      <3>6. Len(p.data[t]) >= Cardinality(Places(p, m, t))
        BY <2>1 DEF Whole, m
      <3> QED
        BY <2>3, <3>3, <3>4, <3>5, <3>6
    <2>5. \A j \in 1..Len(p.data[t]) : q.data[t][j] = p.data[t][j]
      BY <1>d, <2>1
    <2> QED
      BY <2>2, <2>3, <2>4, <2>5 DEF CellAt, t
  <1>8. Unpack(q) = Unpack(p)
    <2> DEFINE RowOf(a, r) == [cells |-> [c \in Cols |-> CellAt(a, (r - 1) * Width + c)],
                               number |-> a.row_number[r]]
    <2>1. Unpack(p) = [r \in 1..p.rows |-> RowOf(p, r)] /\ Unpack(q) = [r \in 1..q.rows |-> RowOf(q, r)]
      BY DEF Unpack, CellAt, Places
    <2>2. ASSUME NEW r \in 1..p.rows PROVE RowOf(q, r) = RowOf(p, r)
      <3>1. \A c \in Cols : (r - 1) * Width + c \in 1..m
        BY <1>2, RowsInOrder DEF m
      <3>2. \A c \in Cols : CellAt(q, (r - 1) * Width + c) = CellAt(p, (r - 1) * Width + c)
        BY <1>7, <3>1
      <3> QED
        BY <1>1, <3>2
    <2> HIDE DEF RowOf
    <2> QED
      BY <1>1, <2>1, <2>2
  <1> QED
    BY <1>6, <1>8 DEF q

-----------------------------------------------------------------------------
(* The result handler                                                      *)

\* A row as the setters leave it.
RowOK(row) ==
  /\ row = [c \in Cols |-> row[c]]
  /\ \A c \in Cols : row[c].null \in BOOLEAN

IsSequence(s) == \E S : s \in Seq(S)

\* The packet under construction is one of whole rows, or begins with them, and
\* nothing that was accepted is missing.
OutputInv ==
  /\ RowOK(m_rowdata)
  /\ IsSequence(delivered)
  /\ emit.rows \in Nat
  /\ torn \in {"no", "half", "inside"}
  /\ torn = "no" => WellFormed(emit)
  /\ torn # "inside" => Whole(emit) /\ delivered \o Unpack(emit) = accepted

\* A packet without rows is empty.
LEMMA NothingInside ==
  /\ WellFormed(EmptyPacket)
  /\ \A p : p.rows = 0 => Unpack(p) = << >>
  <1>1. \A p, t : Places(p, 0, t) = {}
    BY DEF Places
  <1>2. EmptyPacket.rows = 0 /\ Len(EmptyPacket.nulls) = 0 /\ Len(EmptyPacket.row_number) = 0
        /\ \A t \in Types : Len(EmptyPacket.data[t]) = 0
    BY DEF EmptyPacket
  <1>3. 0 * Width = 0
    BY Widths
  <1>4. WellFormed(EmptyPacket)
    <2>1. \A t \in Types : Cardinality(Places(EmptyPacket, 0, t)) = 0
      BY <1>1, FS_EmptySet
    <2>2. EmptyPacket = [rows |-> EmptyPacket.rows, nulls |-> EmptyPacket.nulls,
                         data |-> EmptyPacket.data, row_number |-> EmptyPacket.row_number]
      BY DEF EmptyPacket
    <2> QED
      BY <1>2, <1>3, <2>1, <2>2 DEF WellFormed
  <1>5. ASSUME NEW p, p.rows = 0 PROVE Unpack(p) = << >>
    BY <1>5 DEF Unpack
  <1> QED
    BY <1>4, <1>5

\* Unpack returns a sequence.
LEMMA UnpackLength ==
  ASSUME NEW p, p.rows \in Nat
  PROVE  Len(Unpack(p)) = p.rows /\ IsSequence(Unpack(p))
  <1> DEFINE u == Unpack(p)
  <1>1. DOMAIN u = 1..p.rows /\ u = [r \in DOMAIN u |-> u[r]]
    BY DEF Unpack
  <1> HIDE DEF u
  <1>2. u \in Seq({u[r] : r \in 1..p.rows}) /\ Len(u) = p.rows
    BY <1>1
  <1> QED
    BY <1>2 DEF u, IsSequence

\* Sequences behind one another.
LEMMA Joined ==
  ASSUME NEW s, IsSequence(s)
  PROVE  /\ s \o << >> = s
         /\ \A t : IsSequence(t) => IsSequence(s \o t)
         /\ \A t, x : IsSequence(t) => s \o Append(t, x) = Append(s \o t, x)
  <1>1. s \o << >> = s
    BY DEF IsSequence
  <1>2. ASSUME NEW t, IsSequence(t) PROVE IsSequence(s \o t)
    <2>1. PICK S : s \in Seq(S)
      BY DEF IsSequence
    <2>2. PICK T : t \in Seq(T)
      BY <1>2 DEF IsSequence
    <2>3. s \in Seq(S \cup T) /\ t \in Seq(S \cup T)
      BY <2>1, <2>2
    <2>4. s \o t \in Seq(S \cup T)
      BY <2>3
    <2> QED
      BY <2>4 DEF IsSequence
  <1>3. ASSUME NEW t, NEW x, IsSequence(t) PROVE s \o Append(t, x) = Append(s \o t, x)
    BY <1>3 DEF IsSequence
  <1> QED
    BY <1>1, <1>2, <1>3

\* The constructor: nothing is accepted, nothing is sent.
LEMMA OutputInitInv == OutputInit => OutputInv
  <1> SUFFICES ASSUME OutputInit PROVE OutputInv
    OBVIOUS
  <1>1. RowOK(m_rowdata)
    BY DEF OutputInit, RowOK, EmptyRow
  <1>2. WellFormed(emit) /\ Whole(emit) /\ Unpack(emit) = << >>
    BY NothingInside, WellFormedIsWhole DEF OutputInit, EmptyPacket
  <1>3. emit.rows \in Nat /\ delivered = << >> /\ accepted = << >> /\ torn = "no"
    BY DEF OutputInit, EmptyPacket
  <1>4. IsSequence(delivered) /\ << >> \o << >> = << >>
    BY <1>3 DEF IsSequence
  <1> QED
    BY <1>1, <1>2, <1>3, <1>4 DEF OutputInv

\* Setters, with or without success.
LEMMA SettersKeepInv ==
  ASSUME OutputInv,
         \/ \E c \in Cols : OutputSetNull(c) \/ \E v : OutputSetValue(c, v)
         \/ OutputSetWrong
         \/ UNCHANGED outputVars
  PROVE  OutputInv'
  <1>1. ASSUME NEW c \in Cols, OutputSetNull(c) PROVE OutputInv'
    <2>1. RowOK(m_rowdata)'
      BY <1>1 DEF OutputSetNull, OutputInv, RowOK
    <2> QED
      BY <1>1, <2>1 DEF OutputSetNull, OutputInv
  <1>2. ASSUME NEW c \in Cols, NEW v, OutputSetValue(c, v) PROVE OutputInv'
    <2>1. RowOK(m_rowdata)'
      BY <1>2 DEF OutputSetValue, OutputInv, RowOK
    <2> QED
      BY <1>2, <2>1 DEF OutputSetValue, OutputInv
  <1>3. CASE OutputSetWrong \/ UNCHANGED outputVars
    BY <1>3 DEF OutputSetWrong, outputVars, OutputInv
  <1> QED
    BY <1>1, <1>2, <1>3

\* Sending a packet, or failing to.
LEMMA SendKeepsInv ==
  ASSUME IsSequence(delivered), NEW p, p.rows \in Nat, NEW size, NEW result,
         Send(p, size, result)
  PROVE  /\ IsSequence(delivered') /\ emit'.rows \in Nat
         /\ delivered' \o Unpack(emit') = delivered \o Unpack(p)
         /\ IF result = "unserialised"
              THEN emit' = p
              ELSE WellFormed(emit') /\ Whole(emit') /\ delivered' = delivered \o Unpack(p)
  <1>1. CASE result = "unserialised"
    BY <1>1 DEF Send
  <1>2. CASE result # "unserialised"
    <2>1. delivered' = delivered \o Unpack(p) /\ emit' = EmptyPacket
      BY <1>2 DEF Send
    <2>2. IsSequence(delivered')
      BY <2>1, Joined, UnpackLength
    <2>3. EmptyPacket.rows = 0 /\ WellFormed(EmptyPacket) /\ Unpack(EmptyPacket) = << >>
      BY NothingInside DEF EmptyPacket
    <2>4. delivered' \o << >> = delivered'
      BY <2>2, Joined
    <2> QED
      BY <1>2, <2>1, <2>2, <2>3, <2>4, WellFormedIsWhole
  <1> QED
    BY <1>1, <1>2

\* flush: what was in the packet is delivered, unless it cannot be serialised.
LEMMA FlushKeepsInv ==
  ASSUME OutputInv, NEW result, OutputFlush(result)
  PROVE  /\ OutputInv'
         /\ torn # "inside" /\ result # "unserialised" => delivered' = accepted'
  <1>1. UNCHANGED <<m_rowdata, accepted>>
    BY DEF OutputFlush
  <1>2. IsSequence(delivered) /\ emit.rows \in Nat /\ torn \in {"no", "half", "inside"}
    BY DEF OutputInv
  <1>3. CASE emit.rows > 0
    <2>1. /\ Send(emit, m_message_size, result)
          /\ torn' = IF torn = "half" /\ result # "unserialised" THEN "no" ELSE torn
      BY <1>3 DEF OutputFlush
    <2>2. /\ IsSequence(delivered') /\ emit'.rows \in Nat
          /\ delivered' \o Unpack(emit') = delivered \o Unpack(emit)
          /\ IF result = "unserialised"
               THEN emit' = emit
               ELSE WellFormed(emit') /\ Whole(emit') /\ delivered' = delivered \o Unpack(emit)
      BY <1>2, <2>1, SendKeepsInv
    <2>3. RowOK(m_rowdata')
      BY <1>1 DEF OutputInv
    <2>4. torn # "inside" => Whole(emit) /\ delivered \o Unpack(emit) = accepted
      BY DEF OutputInv
    <2>5. CASE result = "unserialised"
      <3>1. torn' = torn /\ emit' = emit /\ delivered' \o Unpack(emit') = delivered \o Unpack(emit)
        BY <2>1, <2>2, <2>5
      <3>2. torn = "no" => WellFormed(emit)
        BY DEF OutputInv
      <3> QED
        BY <1>1, <1>2, <2>2, <2>3, <2>4, <2>5, <3>1, <3>2 DEF OutputInv
    <2>6. CASE result # "unserialised"
      <3>1. /\ torn' \in {"no", "half", "inside"} /\ (torn' = "inside" <=> torn = "inside")
            /\ WellFormed(emit') /\ Whole(emit') /\ delivered' = delivered \o Unpack(emit)
        BY <1>2, <2>1, <2>2, <2>6
      <3> QED
        BY <1>1, <2>2, <2>3, <2>4, <3>1 DEF OutputInv
    <2> QED
      BY <2>5, <2>6
  <1>4. CASE ~(emit.rows > 0)
    <2>1. UNCHANGED <<emit, delivered, torn>>
      BY <1>4 DEF OutputFlush, Keep
    <2>2. Unpack(emit) = << >>
      BY <1>2, <1>4, NothingInside
    <2>3. delivered \o << >> = delivered
      BY <1>2, Joined
    <2>4. OutputInv'
      BY <1>1, <2>1 DEF OutputInv
    <2> QED
      BY <1>1, <2>1, <2>2, <2>3, <2>4 DEF OutputInv
  <1> QED
    BY <1>3, <1>4

\* next() with a whole row, sent or kept.
LEMMA NextRowKeepsInv ==
  ASSUME OutputInv, NEW result, OutputNextRow(result)
  PROVE  OutputInv'
  <1> DEFINE p == AppendRow(emit, m_rowdata, m_current_row)
             size == m_message_size + Bytes(m_rowdata, Width)
             entry == Entry(m_rowdata, m_current_row)
  <1>1. /\ m_rowdata' = EmptyRow /\ torn' = IF torn = "no" THEN "no" ELSE "inside"
        /\ accepted' = Append(accepted, entry)
        /\ Send(p, size, result) \/ Keep(p, size)
    BY DEF OutputNextRow
  <1>2. p.rows \in Nat
    BY DEF AppendRow, OutputInv
  <1>3. IsSequence(delivered) /\ \A c \in Cols : m_rowdata[c].null \in BOOLEAN
    BY DEF OutputInv, RowOK
  <1>4. torn = "no" => WellFormed(p) /\ Whole(p) /\ delivered \o Unpack(p) = accepted'
    <2> SUFFICES ASSUME torn = "no" PROVE WellFormed(p) /\ Whole(p) /\ delivered \o Unpack(p) = accepted'
      OBVIOUS
    <2>1. WellFormed(emit) /\ emit.rows \in Nat /\ delivered \o Unpack(emit) = accepted
      BY DEF OutputInv
    <2>2. WellFormed(p) /\ Unpack(p) = Append(Unpack(emit), entry)
      BY <1>3, <2>1, RowAppended
    <2> HIDE DEF p, entry
    <2>x. IsSequence(Unpack(emit))
      BY <2>1, UnpackLength
    <2>3. delivered \o Append(Unpack(emit), entry) = Append(delivered \o Unpack(emit), entry)
      BY <1>3, <2>x, Joined
    <2> QED
      BY <1>1, <2>1, <2>2, <2>3, WellFormedIsWhole
  <1>5. RowOK(m_rowdata')
    BY <1>1 DEF RowOK, EmptyRow
  <1> HIDE DEF p, size, entry
  <1>6. torn' \in {"no", "inside"} /\ (torn' # "inside" => torn = "no")
    BY <1>1
  <1>7. /\ IsSequence(delivered') /\ emit'.rows \in Nat
        /\ delivered' \o Unpack(emit') = delivered \o Unpack(p)
        /\ emit' = p \/ (WellFormed(emit') /\ Whole(emit'))
    <2>1. CASE Send(p, size, result)
      BY <1>2, <1>3, <2>1, SendKeepsInv
    <2>2. CASE Keep(p, size)
      BY <1>2, <1>3, <2>2 DEF Keep
    <2> QED
      BY <1>1, <2>1, <2>2
  <1>8. torn = "no" => WellFormed(emit') /\ Whole(emit') /\ delivered' \o Unpack(emit') = accepted'
    BY <1>4, <1>7
  <1> QED
    BY <1>5, <1>6, <1>7, <1>8 DEF OutputInv

\* The column at which next() gives up.
LEMMA Incomplete ==
  ASSUME NEW row, Missing(row) # {}
  PROVE  Min(Missing(row)) - 1 \in 0..Width
  <1>1. Missing(row) \in SUBSET (1..Width) /\ Width \in Nat
    BY Widths DEF Missing
  <1>2. Min(Missing(row)) \in Missing(row)
    BY <1>1, LeastOne
  <1>3. Min(Missing(row)) \in 1..Width
    BY <1>1, <1>2
  <1> QED
    BY <1>1, <1>3

\* next() that fails, and reinitialize(), which makes up for it.
LEMMA DropsKeepInv ==
  ASSUME OutputInv, OutputNextFails \/ OutputReinitialize
  PROVE  OutputInv'
  <1>1. CASE OutputNextFails
    <2> DEFINE n == Min(Missing(m_rowdata)) - 1
               q == AppendColumns(emit, m_rowdata, n)
    <2>1. Missing(m_rowdata) # {} /\ emit' = q
      BY <1>1 DEF OutputNextFails
    <2>2. torn' = (IF torn = "inside" THEN "inside" ELSE "half") /\ UNCHANGED <<m_rowdata, delivered, accepted>>
      BY <1>1 DEF OutputNextFails
    <2>3. n \in 0..Width
      BY <2>1, Incomplete
    <2>4. q.rows = emit.rows
      BY DEF AppendColumns
    <2> HIDE DEF n
    <2>5. Whole(emit) => Whole(q) /\ Unpack(q) = Unpack(emit)
      BY <2>3, PartAppended
    <2> HIDE DEF q
    <2>6. torn # "inside" => Whole(emit') /\ delivered' \o Unpack(emit') = accepted'
      BY <2>1, <2>2, <2>5 DEF OutputInv
    <2>7. torn' \in {"half", "inside"} /\ (torn' # "inside" => torn # "inside")
      BY <2>2
    <2>8. RowOK(m_rowdata') /\ IsSequence(delivered') /\ emit'.rows \in Nat
      BY <2>1, <2>2, <2>4 DEF OutputInv
    <2> QED
      BY <2>6, <2>7, <2>8 DEF OutputInv
  <1>2. CASE OutputReinitialize
    <2>1. m_rowdata' = EmptyRow /\ emit' = EmptyPacket /\ torn' = "no"
          /\ accepted' = delivered /\ delivered' = delivered
      BY <1>2 DEF OutputReinitialize
    <2>2. RowOK(m_rowdata')
      BY <2>1 DEF RowOK, EmptyRow
    <2>3. EmptyPacket.rows = 0 /\ WellFormed(EmptyPacket) /\ Unpack(EmptyPacket) = << >>
      BY NothingInside DEF EmptyPacket
    <2>4. IsSequence(delivered) /\ delivered \o << >> = delivered
      BY Joined DEF OutputInv
    <2> QED
      BY <2>1, <2>2, <2>3, <2>4, WellFormedIsWhole DEF OutputInv
  <1> QED
    BY <1>1, <1>2

-----------------------------------------------------------------------------
(* The size of a packet                                                    *)

\* A value has a size.
LEMMA SizeIsNat ==
  ASSUME NEW t \in Types, NEW v
  PROVE  Size(t, v) \in Nat
  BY HandlerAssumption DEF Size

\* A byte of a row.
LEMMA ByteOfRow ==
  ASSUME NEW row, NEW n \in 0..Width, NEW x
  PROVE  x \in RowBytes(row, n) <=>
           \E c \in 1..n : /\ ~row[c].null
                           /\ \E b \in 1..Size(Columns[c], row[c].value) : x = <<c, b>>
  BY DEF RowBytes

\* A byte of a packet.
LEMMA ByteOfPacket ==
  ASSUME NEW p, NEW x
  PROVE  x \in PacketBytes(p) <=>
           \E t \in Types : \E k \in 1..Len(p.data[t]) : \E b \in 1..Size(t, p.data[t][k]) :
             x = <<t, <<k, b>>>>
  BY DEF PacketBytes

\* A row has finitely many bytes.
LEMMA FiniteRow ==
  ASSUME NEW row, NEW n \in 0..Width
  PROVE  IsFiniteSet(RowBytes(row, n)) /\ Bytes(row, n) \in Nat
  <1> DEFINE D == {c \in 1..n : ~row[c].null}
             Value(c) == {c} \X (1..Size(Columns[c], row[c].value))
             Values == {Value(c) : c \in D}
             f == [c \in D |-> Value(c)]
  <1>1. D \in SUBSET (1..n) /\ n \in Nat /\ 1..n \subseteq Cols
    BY Widths
  <1>2. \A c \in D : IsFiniteSet(Value(c))
    <2> TAKE c \in D
    <2>1. Columns[c] \in Types
      BY <1>1 DEF Types
    <2> DEFINE size == Size(Columns[c], row[c].value)
    <2>2. 1 \in Int /\ size \in Int
      BY <2>1, SizeIsNat
    <2> HIDE DEF size
    <2>3. IsFiniteSet(1..size) /\ IsFiniteSet({c})
      BY <2>2, FS_Interval, FS_Singleton
    <2>4. IsFiniteSet({c} \X (1..size))
      BY <2>3, FS_Product
    <2> QED
      BY <2>4 DEF size
  <1>3. RowBytes(row, n) = UNION Values
    BY DEF RowBytes
  <1>4. IsFiniteSet(D)
    <2> HIDE DEF D
    <2> QED
      BY <1>1, FinitelyMany
  <1> HIDE DEF D, Value
  <1>5. f \in Surjection(D, Values)
    BY DEF Surjection
  <1>6. IsFiniteSet(Values) /\ \A T \in Values : IsFiniteSet(T)
    BY <1>2, <1>4, <1>5, FS_Surjection
  <1> HIDE DEF Values
  <1>7. IsFiniteSet(UNION Values)
    BY <1>6, FS_UNION
  <1> QED
    BY <1>3, <1>7, FS_CardinalityType DEF Bytes

\* next() makes the packet larger by the bytes of the columns it appends.
LEMMA SizeAppended ==
  ASSUME NEW p, \A t \in Types : Len(p.data[t]) \in Nat, IsFiniteSet(PacketBytes(p)),
         NEW row, NEW n \in 0..Width, NEW q, q.data = AppendColumns(p, row, n).data
  PROVE  /\ \A t \in Types : Len(q.data[t]) \in Nat
         /\ IsFiniteSet(PacketBytes(q))
         /\ Cardinality(PacketBytes(q)) = Cardinality(PacketBytes(p)) + Bytes(row, n)
  <1> DEFINE D(t) == Carried(row, n, t)
             Rank(c) == Cardinality({e \in D(Columns[c]) : e <= c})
             Place(c) == Len(p.data[Columns[c]]) + Rank(c)
             Old == PacketBytes(p)
             Row == RowBytes(row, n)
             f == [x \in Row |-> <<Columns[x[1]], <<Place(x[1]), x[2]>>>>]
             New == {f[x] : x \in Row}
  <1>1. \A t \in Types : Len(p.data[t]) \in Nat
    OBVIOUS
  <1>2. \A t \in Types :
          /\ Cardinality(D(t)) \in Nat
          /\ Len(q.data[t]) = Len(p.data[t]) + Cardinality(D(t))
          /\ \A k \in 1..Len(p.data[t]) : q.data[t][k] = p.data[t][k]
          /\ \A c \in D(t) : LET k == Cardinality({e \in D(t) : e <= c})
                             IN k \in 1..Cardinality(D(t)) /\ q.data[t][Len(p.data[t]) + k] = row[c].value
    BY <1>1, ValuesAppended
  <1>0. 1..n \subseteq Cols /\ n \in Nat
    BY Widths
  <1>3. \A c \in 1..n : ~row[c].null =>
          /\ Columns[c] \in Types /\ c \in D(Columns[c])
          /\ Rank(c) \in 1..Cardinality(D(Columns[c]))
          /\ q.data[Columns[c]][Place(c)] = row[c].value
    <2> TAKE c \in 1..n
    <2> HAVE ~row[c].null
    <2>1. Columns[c] \in Types
      BY <1>0 DEF Types
    <2>2. c \in D(Columns[c])
      BY DEF Carried
    <2> QED
      BY <1>2, <2>1, <2>2
  <1>i. \A c, d \in 1..n :
          ~row[c].null /\ ~row[d].null /\ Columns[c] = Columns[d] /\ Rank(c) = Rank(d) => c = d
    <2> SUFFICES ASSUME NEW c \in 1..n, NEW d \in 1..n, ~row[c].null, ~row[d].null,
                        Columns[c] = Columns[d], Rank(c) = Rank(d)
                 PROVE  c = d
      OBVIOUS
    <2> DEFINE S == D(Columns[c])
    <2>1. S \in SUBSET (1..n) /\ c \in S /\ d \in S
      BY DEF Carried
    <2>2. Cardinality({e \in S : e <= c}) = Cardinality({e \in S : e <= d})
      OBVIOUS
    <2> HIDE DEF S
    <2>3. InOrder(S)[Cardinality({e \in S : e <= c})] = c /\ InOrder(S)[Cardinality({e \in S : e <= d})] = d
      BY <1>0, <2>1, OrderIsRank
    <2> QED
      BY <2>2, <2>3
  <1>4. \A t \in Types : \A k \in 1..Cardinality(D(t)) :
          \E c \in 1..n : ~row[c].null /\ Columns[c] = t /\ Rank(c) = k
    <2> TAKE t \in Types
    <2> TAKE k \in 1..Cardinality(D(t))
    <2> DEFINE S == D(t)
    <2>1. S \in SUBSET (1..n)
      BY DEF Carried
    <2>2. k \in 1..Cardinality(S)
      OBVIOUS
    <2> HIDE DEF S
    <2>3. PICK c \in S : Cardinality({j \in S : j <= c}) = k
      BY <1>0, <2>1, <2>2, EveryRank
    <2>4. c \in 1..n /\ ~row[c].null /\ Columns[c] = t
      BY <2>3 DEF S, Carried
    <2> QED
      BY <2>3, <2>4 DEF S
  <1>y. \A c \in 1..n : Place(c) = Len(p.data[Columns[c]]) + Rank(c)
    OBVIOUS
  <1> HIDE DEF D, Rank, Place
  <1>5. \A x \in Row : /\ x[1] \in 1..n /\ ~row[x[1]].null
                       /\ x[2] \in 1..Size(Columns[x[1]], row[x[1]].value) /\ x = <<x[1], x[2]>>
    BY ByteOfRow
  <1> HIDE DEF Row
  <1>6. IsFiniteSet(New) /\ Cardinality(New) = Cardinality(Row)
    <2>1. ASSUME NEW x \in Row, NEW y \in Row, f[x] = f[y] PROVE x = y
      <3>1. Columns[x[1]] = Columns[y[1]] /\ Place(x[1]) = Place(y[1]) /\ x[2] = y[2]
        BY <2>1
      <3>2. Rank(x[1]) = Rank(y[1])
        <4>1. ASSUME NEW z \in Row
              PROVE  /\ Rank(z[1]) \in Nat /\ Len(p.data[Columns[z[1]]]) \in Nat
                     /\ Place(z[1]) = Len(p.data[Columns[z[1]]]) + Rank(z[1])
          <5>1. z[1] \in 1..n /\ ~row[z[1]].null
            BY <1>5
          <5>2. Columns[z[1]] \in Types /\ Rank(z[1]) \in 1..Cardinality(D(Columns[z[1]]))
            BY <1>3, <5>1
          <5>3. Cardinality(D(Columns[z[1]])) \in Nat
            BY <1>2, <5>2
          <5> QED
            BY <1>1, <1>y, <5>1, <5>2, <5>3
        <4> QED
          BY <3>1, <4>1
      <3>3. x[1] = y[1]
        BY <1>i, <1>5, <3>1, <3>2
      <3> QED
        BY <1>5, <3>1, <3>3
    <2>2. f \in [Row -> New] /\ \A y \in New : \E x \in Row : f[x] = y
      OBVIOUS
    <2> HIDE DEF f
    <2>3. f \in Bijection(Row, New)
      BY <2>1, <2>2 DEF Bijection, Injection, Surjection, IsInjective
    <2>4. IsFiniteSet(Row)
      BY FiniteRow DEF Row
    <2> HIDE DEF New
    <2> QED
      BY <2>3, <2>4, FS_Bijection DEF ExistsBijection
  <1> DEFINE NewByte(y, t, k, b) ==
        /\ k \in 1..Cardinality(D(t))
        /\ b \in 1..Size(t, q.data[t][Len(p.data[t]) + k])
        /\ y = <<t, <<Len(p.data[t]) + k, b>>>>
  <1>7. \A y : y \in New <=> \E t \in Types : \E k, b : NewByte(y, t, k, b)
    <2> TAKE y
    <2>1. ASSUME y \in New PROVE \E t \in Types : \E k, b : NewByte(y, t, k, b)
      <3>1. PICK x \in Row : y = <<Columns[x[1]], <<Place(x[1]), x[2]>>>>
        BY <2>1
      <3> DEFINE t == Columns[x[1]]
                 k == Rank(x[1])
      <3>2. Place(x[1]) = Len(p.data[t]) + k
        BY <1>5, <1>y
      <3>3. t \in Types /\ k \in 1..Cardinality(D(t)) /\ q.data[t][Len(p.data[t]) + k] = row[x[1]].value
        BY <1>3, <1>5, <3>2
      <3>4. x[2] \in 1..Size(t, q.data[t][Len(p.data[t]) + k])
        BY <1>5, <3>3
      <3>5. NewByte(y, t, k, x[2])
        BY <3>1, <3>2, <3>3, <3>4
      <3> QED
        BY <3>3, <3>5
    <2>2. ASSUME NEW t \in Types, NEW k, NEW b, NewByte(y, t, k, b) PROVE y \in New
      <3>1. PICK c \in 1..n : ~row[c].null /\ Columns[c] = t /\ Rank(c) = k
        BY <1>4, <2>2
      <3>2. Place(c) = Len(p.data[t]) + k /\ q.data[t][Len(p.data[t]) + k] = row[c].value
        BY <1>3, <1>y, <3>1
      <3>3. b \in 1..Size(Columns[c], row[c].value)
        BY <2>2, <3>1, <3>2
      <3>4. <<c, b>> \in Row
        BY <3>1, <3>3, ByteOfRow DEF Row
      <3>5. f[<<c, b>>] = <<t, <<Place(c), b>>>>
        BY <3>1, <3>4
      <3> QED
        BY <2>2, <3>2, <3>4, <3>5
    <2> QED
      BY <2>1, <2>2
  <1> DEFINE OldByte(y, t, k, b) ==
        k \in 1..Len(p.data[t]) /\ b \in 1..Size(t, p.data[t][k]) /\ y = <<t, <<k, b>>>>
             AnyByte(y, t, k, b) ==
        k \in 1..Len(q.data[t]) /\ b \in 1..Size(t, q.data[t][k]) /\ y = <<t, <<k, b>>>>
  <1>8. \A y : y \in Old <=> \E t \in Types : \E k, b : OldByte(y, t, k, b)
    BY ByteOfPacket
  <1>9. \A y : y \in PacketBytes(q) <=> \E t \in Types : \E k, b : AnyByte(y, t, k, b)
    BY ByteOfPacket
  <1> HIDE DEF New, Old
  <1>10. PacketBytes(q) = Old \cup New
    <2>1. ASSUME NEW y \in PacketBytes(q) PROVE y \in Old \cup New
      <3>1. PICK t \in Types : \E k, b : AnyByte(y, t, k, b)
        BY <1>9, <2>1
      <3>2. PICK k, b : AnyByte(y, t, k, b)
        BY <3>1
      <3> DEFINE len == Len(p.data[t])
                 more == Cardinality(D(t))
      <3>3. len \in Nat /\ more \in Nat /\ Len(q.data[t]) = len + more
        BY <1>1, <1>2
      <3>4. CASE k \in 1..len
        <4>1. q.data[t][k] = p.data[t][k]
          BY <1>2, <3>4
        <4>2. OldByte(y, t, k, b)
          BY <3>2, <3>4, <4>1
        <4> QED
          BY <1>8, <4>2
      <3>5. CASE k \notin 1..len
        <4> DEFINE j == k - len
        <4>1. j \in 1..more /\ k = len + j
          <5> HIDE DEF len, more
          <5> QED
            BY <3>2, <3>3, <3>5
        <4>2. NewByte(y, t, j, b)
          BY <3>2, <4>1
        <4> QED
          BY <1>7, <4>2
      <3> QED
        BY <3>4, <3>5
    <2>2. ASSUME NEW y \in Old PROVE y \in PacketBytes(q)
      <3>1. PICK t \in Types : \E k, b : OldByte(y, t, k, b)
        BY <1>8, <2>2
      <3>2. PICK k, b : OldByte(y, t, k, b)
        BY <3>1
      <3>3. k \in 1..Len(q.data[t]) /\ q.data[t][k] = p.data[t][k]
        BY <1>1, <1>2, <3>2
      <3>4. AnyByte(y, t, k, b)
        BY <3>2, <3>3
      <3> QED
        BY <1>9, <3>4
    <2>3. ASSUME NEW y \in New PROVE y \in PacketBytes(q)
      <3>1. PICK t \in Types : \E k, b : NewByte(y, t, k, b)
        BY <1>7, <2>3
      <3>2. PICK k, b : NewByte(y, t, k, b)
        BY <3>1
      <3>3. Len(p.data[t]) + k \in 1..Len(q.data[t])
        BY <1>1, <1>2, <3>2
      <3>4. AnyByte(y, t, Len(p.data[t]) + k, b)
        BY <3>2, <3>3
      <3> QED
        BY <1>9, <3>4
    <2> QED
      BY <2>1, <2>2, <2>3
  <1>11. Old \cap New = {}
    <2> SUFFICES ASSUME NEW y \in Old, y \in New PROVE FALSE
      OBVIOUS
    <2>1. PICK t \in Types : \E k, b : OldByte(y, t, k, b)
      BY <1>8
    <2>2. PICK k, b : OldByte(y, t, k, b)
      BY <2>1
    <2>3. PICK u \in Types : \E l, d : NewByte(y, u, l, d)
      BY <1>7
    <2>4. PICK l, d : NewByte(y, u, l, d)
      BY <2>3
    <2>5. t = u /\ k = Len(p.data[u]) + l /\ k \in 1..Len(p.data[t]) /\ l \in 1..Cardinality(D(u))
      BY <2>2, <2>4
    <2> QED
      BY <1>1, <1>2, <2>5
  <1>12. IsFiniteSet(Old) /\ Cardinality(Old) \in Nat
    BY FS_CardinalityType DEF Old
  <1>13. Cardinality(New) = Bytes(row, n) /\ Bytes(row, n) \in Nat
    BY <1>6, FiniteRow DEF Row, Bytes
  <1>14. /\ IsFiniteSet(Old \cup New)
         /\ Cardinality(Old \cup New) = Cardinality(Old) + Cardinality(New) - Cardinality(Old \cap New)
    BY <1>6, <1>12, FS_Union
  <1>15. Cardinality(Old \cup New) = Cardinality(Old) + Cardinality(New)
    <2>1. Cardinality(Old \cap New) = 0
      BY <1>11, FS_EmptySet
    <2> QED
      BY <1>12, <1>13, <1>14, <2>1
  <1>16. \A t \in Types : Len(q.data[t]) \in Nat
    BY <1>1, <1>2
  <1> QED
    BY <1>10, <1>13, <1>14, <1>15, <1>16 DEF Old
=============================================================================
