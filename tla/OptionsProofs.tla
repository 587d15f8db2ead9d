--------------------------- MODULE OptionsProofs ---------------------------
(***************************************************************************)
(* Both script options parsers for scripts of any length.                  *)
(***************************************************************************)
EXTENDS OptionLineLegacy, OptionLinesCtpg, FiniteSetTheorems, SequenceTheorems,
        WellFoundedInduction, TLAPS

\* The semicolon is another character than those that have a meaning, and no
\* name of a kind of token.
LEMMA SemicolonFact ==
  /\ Semicolon # "%" /\ Semicolon # "\\" /\ Semicolon # "eof"
  /\ Semicolon # "escape" /\ Semicolon # "blank_escape" /\ Semicolon # "other"
  /\ Semicolon # "blanks" /\ Semicolon # "letters"
BY Zenon DEF Semicolon

-----------------------------------------------------------------------------

(***************************************************************************)
(* The searches                                                            *)
(***************************************************************************)

\* A set of numbers has a least member.
LEMMA Least ==
  ASSUME NEW S, S \subseteq Nat, S # {}
  PROVE  \E x \in S : \A y \in S : x <= y
<1> DEFINE R == OpToRel(<, Nat)
<1>1. \A a, b \in Nat : a < b => <<a, b>> \in R
  BY DEF OpToRel
<1>2. IsWellFoundedOn(R, Nat)
  BY NatLessThanWellFounded, Zenon
<1> HIDE DEF R
<1>3. \E x \in S : \A y \in S : ~(<<y, x>> \in R)
  BY <1>2, WFMin, Zenon
<1>4. PICK x \in S : \A y \in S : ~(<<y, x>> \in R)
  BY <1>3, Zenon
<1>5. \A y \in S : ~(y < x)
  BY <1>1, <1>4, Zenon
<1> QED
  BY <1>5

\* A bounded one has a greatest member too: the least bound is in the set.
LEMMA Greatest ==
  ASSUME NEW S, S \subseteq Nat, S # {}, NEW n \in Nat, \A x \in S : x <= n
  PROVE  \E x \in S : \A y \in S : y <= x
<1> DEFINE T == {k \in Nat : \A x \in S : x <= k}
<1>1. T \subseteq Nat /\ T # {}
  OBVIOUS
<1>2. PICK k \in T : \A y \in T : k <= y
  <2> HIDE DEF T
  <2> QED BY <1>1, Least
<1>3. CASE k \in S
  BY <1>3, <1>2
<1>4. CASE k \notin S
  <2>1. \A x \in S : x <= k /\ x # k
    BY <1>4, <1>2
  <2>2. k \in Nat /\ k > 0
    <3>1. PICK x : x \in S
      OBVIOUS
    <3> QED BY <3>1, <2>1, <1>2
  <2>3. \A x \in S : x <= k - 1
    BY <2>1, <2>2
  <2>4. k - 1 \in T
    BY <2>2, <2>3
  <2> QED BY <2>2, <2>4, <1>2
<1> QED BY <1>3, <1>4

\* What Max returns.
LEMMA MaxFact ==
  ASSUME NEW S, S \subseteq Nat, S # {}, NEW n \in Nat, \A x \in S : x <= n
  PROVE  Max(S) \in S /\ Max(S) \in Nat /\ \A y \in S : y <= Max(S)
<1>1. \E x \in S : \A y \in S : x >= y
  BY Greatest
<1>2. Max(S) \in S /\ \A y \in S : Max(S) >= y
  BY <1>1, Zenon DEF Max
<1> QED BY <1>2

\* The least position of a set, or 0.
LEMMA FirstOfFact ==
  ASSUME NEW S, S \subseteq Nat
  PROVE  /\ S = {} => FirstOf(S) = 0
         /\ S # {} => FirstOf(S) \in S /\ \A y \in S : FirstOf(S) <= y
<1>1. CASE S = {}
  BY <1>1 DEF FirstOf
<1>2. CASE S # {}
  <2>1. \E x \in S : \A y \in S : x <= y
    BY <1>2, Least
  <2>2. Min(S) \in S /\ \A y \in S : Min(S) <= y
    BY <2>1, Zenon DEF Min
  <2> QED BY <1>2, <2>2 DEF FirstOf
<1> QED BY <1>1, <1>2

\* find_first_of returns the first position with a character of the set,
LEMMA FirstInFact ==
  ASSUME NEW s, Len(s) \in Nat, NEW C, NEW p \in Nat, p # 0
  PROVE  /\ FirstIn(s, C, p) \in Nat
         /\ FirstIn(s, C, p) = 0 => \A i \in p..Len(s) : s[i] \notin C
         /\ FirstIn(s, C, p) # 0 =>
              /\ FirstIn(s, C, p) \in p..Len(s)
              /\ s[FirstIn(s, C, p)] \in C
              /\ \A i \in p..(FirstIn(s, C, p) - 1) : s[i] \notin C
<1> DEFINE S == {i \in p..Len(s) : s[i] \in C}
<1>1. S \subseteq Nat /\ 0 \notin S
  OBVIOUS
<1>2. /\ S = {} => FirstOf(S) = 0
      /\ S # {} => FirstOf(S) \in S /\ \A y \in S : FirstOf(S) <= y
  <2> HIDE DEF S
  <2> QED BY <1>1, FirstOfFact
<1>3. PICK q : q = FirstOf(S)
  OBVIOUS
<1>4. FirstIn(s, C, p) = q
  BY <1>3 DEF FirstIn
<1>5. CASE S = {}
  <2>1. q = 0
    BY <1>2, <1>3, <1>5
  <2> QED BY <2>1, <1>4, <1>5
<1>6. CASE S # {}
  <2>1. q \in S /\ \A y \in S : q <= y
    <3> HIDE DEF S
    <3> QED BY <1>2, <1>3, <1>6
  <2> QED BY <2>1, <1>4, <1>1
<1> QED BY <1>5, <1>6

\* find_first_not_of the first one with another character,
LEMMA FirstNotInFact ==
  ASSUME NEW s, Len(s) \in Nat, NEW C, NEW p \in Nat, p # 0
  PROVE  /\ FirstNotIn(s, C, p) \in Nat
         /\ FirstNotIn(s, C, p) = 0 => \A i \in p..Len(s) : s[i] \in C
         /\ FirstNotIn(s, C, p) # 0 =>
              /\ FirstNotIn(s, C, p) \in p..Len(s)
              /\ s[FirstNotIn(s, C, p)] \notin C
              /\ \A i \in p..(FirstNotIn(s, C, p) - 1) : s[i] \in C
<1> DEFINE S == {i \in p..Len(s) : s[i] \notin C}
<1>1. S \subseteq Nat /\ 0 \notin S
  OBVIOUS
<1>2. /\ S = {} => FirstOf(S) = 0
      /\ S # {} => FirstOf(S) \in S /\ \A y \in S : FirstOf(S) <= y
  <2> HIDE DEF S
  <2> QED BY <1>1, FirstOfFact
<1>3. PICK q : q = FirstOf(S)
  OBVIOUS
<1>4. FirstNotIn(s, C, p) = q
  BY <1>3 DEF FirstNotIn
<1>5. CASE S = {}
  <2>1. q = 0
    BY <1>2, <1>3, <1>5
  <2> QED BY <2>1, <1>4, <1>5
<1>6. CASE S # {}
  <2>1. q \in S /\ \A y \in S : q <= y
    <3> HIDE DEF S
    <3> QED BY <1>2, <1>3, <1>6
  <2> QED BY <2>1, <1>4, <1>1
<1> QED BY <1>5, <1>6

\* find_last_of the last one with a character of the set,
LEMMA LastInFact ==
  ASSUME NEW s, NEW C, NEW p \in Nat
  PROVE  /\ LastIn(s, C, p) \in 0..p
         /\ LastIn(s, C, p) # 0 => s[LastIn(s, C, p)] \in C
         /\ \A i \in (LastIn(s, C, p) + 1)..p : s[i] \notin C
<1> DEFINE S == {0} \cup {i \in 1..p : s[i] \in C}
<1>1. S \subseteq Nat /\ S # {} /\ \A x \in S : x <= p
  OBVIOUS
<1>2. Max(S) \in S /\ Max(S) \in Nat /\ \A y \in S : y <= Max(S)
  <2> HIDE DEF S
  <2> QED BY <1>1, MaxFact
<1> QED BY <1>2 DEF LastIn

\* and find_last_not_of the last one with another character.
LEMMA LastNotInFact ==
  ASSUME NEW s, NEW C, NEW p \in Nat
  PROVE  /\ LastNotIn(s, C, p) \in 0..p
         /\ LastNotIn(s, C, p) # 0 => s[LastNotIn(s, C, p)] \notin C
         /\ \A i \in (LastNotIn(s, C, p) + 1)..p : s[i] \in C
<1> DEFINE S == {0} \cup {i \in 1..p : s[i] \notin C}
<1>1. S \subseteq Nat /\ S # {} /\ \A x \in S : x <= p
  OBVIOUS
<1>2. Max(S) \in S /\ Max(S) \in Nat /\ \A y \in S : y <= Max(S)
  <2> HIDE DEF S
  <2> QED BY <1>1, MaxFact
<1> QED BY <1>2 DEF LastNotIn

\* An occurrence that find returns.
LEMMA FindFact ==
  ASSUME NEW s \in Seq(STRING), NEW t \in Seq(STRING), Find(s, t) # 0
  PROVE  /\ Find(s, t) \in 1..Len(s) + 1 - Len(t)
         /\ \A i \in 1..Len(t) : s[Find(s, t) + i - 1] = t[i]
<1> DEFINE S == {i \in 1..(Len(s) + 1 - Len(t)) : SubSeq(s, i, i + Len(t) - 1) = t}
<1>1. S \subseteq Nat
  OBVIOUS
<1>2. /\ S = {} => FirstOf(S) = 0
      /\ S # {} => FirstOf(S) \in S
  <2> HIDE DEF S
  <2> QED BY <1>1, FirstOfFact
<1>3. Find(s, t) = FirstOf(S)
  BY DEF Find
<1>4. Find(s, t) \in S
  <2> HIDE DEF S
  <2> QED BY <1>2, <1>3
<1>5. PICK k \in 1..(Len(s) + 1 - Len(t)) : k = Find(s, t) /\ SubSeq(s, k, k + Len(t) - 1) = t
  BY <1>4
<1>6. \A i \in 1..Len(t) : SubSeq(s, k, k + Len(t) - 1)[i] = s[k + i - 1]
  OBVIOUS
<1> QED BY <1>5, <1>6

-----------------------------------------------------------------------------

(***************************************************************************)
(* Version 1                                                               *)
(***************************************************************************)

\* The value that is cut out has no white space at its ends.
LEMMA ValueIsTrimmed ==
  ASSUME code \in Seq(STRING), NEW first \in 1..Len(code), NEW last \in 1..Len(code),
         first < last, code[first] \notin Blanks, NEW v, v = ValueOf(first, last)
  PROVE  v # << >> /\ {v[1], v[Len(v)]} \cap Blanks = {}
<1>1. PICK q : q = LastNotIn(code, Blanks, last - 1)
  OBVIOUS
<1>2. /\ q \in 0..(last - 1)
      /\ q # 0 => code[q] \notin Blanks
      /\ \A i \in (q + 1)..(last - 1) : code[i] \in Blanks
  BY <1>1, LastNotInFact
<1>3. q >= first
  BY <1>2
<1>4. v = SubSeq(code, first, q)
  BY <1>1 DEF ValueOf
<1>5. q \in Nat /\ first \in Nat /\ q <= Len(code) /\ Len(code) \in Nat
  BY <1>2
<1>6. Len(v) = (q - first) + 1 /\ \A i \in 1..((q - first) + 1) : v[i] = code[(first + i) - 1]
  BY <1>3, <1>4, <1>5
<1>7. v[1] = code[first] /\ v[Len(v)] = code[q] /\ Len(v) > 0
  BY <1>3, <1>5, <1>6
<1> QED BY <1>2, <1>3, <1>5, <1>7

\* A call that finds its option cuts it out as the property says.
LEMMA ExtractedCutsOne ==
  ASSUME code \in Seq(STRING), NEW t \in Known, Extracted(t)
  PROVE  \E i \in 1..Len(code) : \E j \in i..Len(code) :
           /\ code' = Erase(code, i, j)
           /\ code[i] = "%" /\ FirstInLine(code, i)
           /\ code[j] = Semicolon
           /\ \A m \in i..(j - 1) : code[m] \notin LineEnds \cup {Semicolon}
           /\ value' # << >>
           /\ {value'[1], value'[Len(value')]} \cap Blanks = {}
<1>1. PICK start : start = Find(code, t)
  OBVIOUS
<1>2. PICK first : first = FirstNotIn(code, Blanks, start + Len(t))
  OBVIOUS
<1>3. PICK last : last = ValueEnd(first)
  OBVIOUS
<1>4. /\ start # 0 /\ ~Ignored(start) /\ Complete(first)
      /\ value' = ValueOf(first, last) /\ code' = Erase(code, start, last)
  BY <1>1, <1>2, <1>3 DEF Extracted
<1>5. /\ t \in Seq(STRING) /\ Len(t) > 1 /\ Len(t) \in Nat /\ t[1] = "%"
      /\ \A i \in 2..Len(t) : t[i] \in Letters
  BY KnownAssumption
<1>6. /\ start \in 1..Len(code) + 1 - Len(t)
      /\ \A i \in 1..Len(t) : code[start + i - 1] = t[i]
  BY <1>1, <1>4, <1>5, FindFact
<1>n. /\ Len(code) \in Nat /\ start \in Nat /\ start >= 1
      /\ start + Len(t) <= Len(code) + 1
  BY <1>5, <1>6
<1>7. /\ first \in (start + Len(t))..Len(code) /\ code[first] \notin Blanks
      /\ \A i \in (start + Len(t))..(first - 1) : code[i] \in Blanks
  <2>1. first # 0
    BY <1>4 DEF Complete
  <2> QED BY <2>1, <1>2, <1>5, <1>6, FirstNotInFact
<1>f. first \in Nat /\ start + Len(t) <= first /\ first <= Len(code) /\ first # 0
  BY <1>n, <1>5, <1>7
<1>8. /\ last \in first..Len(code) /\ first < last
      /\ code[last] = Semicolon
      /\ \A i \in first..(last - 1) : code[i] \notin {Semicolon} \cup LineEnds
  <2>1. last # 0 /\ code[last] = Semicolon /\ first < last
    BY <1>3, <1>4 DEF Complete
  <2>2. last = FirstIn(code, {Semicolon} \cup LineEnds, first)
    BY <1>3 DEF ValueEnd
  <2> QED BY <2>1, <2>2, <1>f, <1>n, FirstInFact
<1>l. last \in Nat /\ first < last /\ last <= Len(code)
  <2>1. last \in first..Len(code) /\ first < last
    BY <1>8
  <2> QED BY <2>1, <1>n, <1>f
<1>9. code[start] = "%" /\ \A i \in (start + 1)..(start + Len(t) - 1) : code[i] \in Letters
  <2>1. ASSUME NEW i \in (start + 1)..(start + Len(t) - 1)
        PROVE  code[i] \in Letters
    <3>1. PICK k \in 2..Len(t) : k = i - start + 1
      BY <1>6, <1>5
    <3>2. code[start + k - 1] = t[k] /\ start + k - 1 = i
      BY <3>1, <1>6, <1>5
    <3> QED BY <3>1, <3>2, <1>5
  <2> QED BY <2>1, <1>6, <1>5
<1>10. ASSUME NEW m \in start..(last - 1)
       PROVE  code[m] \notin LineEnds \cup {Semicolon}
  <2>1. m \in Nat /\ m >= start /\ m < last
    BY <1>n, <1>l
  <2>2. CASE m = start
    BY <2>2, <1>9, CharactersAssumption, SemicolonFact
  <2>3. CASE m \in (start + 1)..(start + Len(t) - 1)
    BY <2>3, <1>9, CharactersAssumption, SemicolonFact
  <2>4. CASE m \in (start + Len(t))..(first - 1)
    BY <2>4, <1>7, CharactersAssumption, SemicolonFact
  <2>5. CASE m \in first..(last - 1)
    BY <2>5, <1>8
  <2>6. \/ m = start \/ m \in (start + 1)..(start + Len(t) - 1)
        \/ m \in (start + Len(t))..(first - 1) \/ m \in first..(last - 1)
    <3>1. Len(t) \in Nat
      BY <1>5
    <3> QED BY <2>1, <3>1, <1>n, <1>f, <1>l
  <2> QED BY <2>2, <2>3, <2>4, <2>5, <2>6
<1>11. FirstInLine(code, start)
  <2>1. PICK l : l = LineStart(code, start)
    OBVIOUS
  <2>2. l \in Nat /\ l # 0
    BY <2>1, <1>6, <1>5, LastInFact DEF LineStart
  <2>3. FirstNotIn(code, Blanks, l) = start
    BY <1>4, <2>1 DEF Ignored
  <2> QED BY <2>1, <2>2, <2>3, <1>4, FirstNotInFact DEF FirstInLine
<1>12. value' # << >> /\ {value'[1], value'[Len(value')]} \cap Blanks = {}
  <2>1. first \in 1..Len(code) /\ last \in 1..Len(code)
    BY <1>n, <1>f, <1>l
  <2> QED BY <2>1, <1>4, <1>7, <1>l, ValueIsTrimmed
<1> QED
  <2>1. start \in 1..Len(code) /\ last \in start..Len(code)
    BY <1>n, <1>f, <1>l, <1>5
  <2> QED BY <2>1, <1>4, <1>8, <1>9, <1>10, <1>11, <1>12

\* The script stays a sequence of characters.
LEMMA ScriptStaysText ==
  ASSUME code \in Seq(STRING), [LegacyNext]_legacyVars
  PROVE  code' \in Seq(STRING)
<1>1. CASE UNCHANGED code
  BY <1>1
<1>2. ASSUME NEW t \in Known, Extracted(t)
      PROVE  code' \in Seq(STRING)
  <2>1. PICK i \in 1..Len(code) : \E j \in i..Len(code) : code' = Erase(code, i, j)
    BY <1>2, ExtractedCutsOne
  <2>2. PICK j \in i..Len(code) : code' = Erase(code, i, j)
    BY <2>1
  <2>3. SubSeq(code, 1, i - 1) \in Seq(STRING) /\ SubSeq(code, j + 1, Len(code)) \in Seq(STRING)
    OBVIOUS
  <2> QED BY <2>2, <2>3 DEF Erase
<1> QED BY <1>1, <1>2 DEF LegacyNext, NotExtracted, Throws, legacyVars

\* For scripts of any length and any known options, asked for in any order: a
\* call of extractOptionLine changes the script only by cutting out one option
\* of one line with its terminator, and what it returns is not empty and has no
\* white space at its ends.
THEOREM OneOptionIsCut == LegacySpec => CutsOneOption
<1> DEFINE IsText == code \in Seq(STRING)
           Cuts == code' # code =>
             \E i \in 1..Len(code) : \E j \in i..Len(code) :
               /\ code' = Erase(code, i, j)
               /\ code[i] = "%" /\ FirstInLine(code, i)
               /\ code[j] = Semicolon
               /\ \A m \in i..(j - 1) : code[m] \notin LineEnds \cup {Semicolon}
               /\ value' # << >>
               /\ {value'[1], value'[Len(value')]} \cap Blanks = {}
<1>1. LegacyInit => IsText
  BY ScriptsAssumption DEF LegacyInit
<1>2. IsText /\ [LegacyNext]_legacyVars => IsText'
  BY ScriptStaysText
<1>3. IsText /\ [LegacyNext]_legacyVars => [Cuts]_legacyVars
  <2> SUFFICES ASSUME IsText, LegacyNext, code' # code PROVE Cuts
    OBVIOUS
  <2>1. PICK t \in Known : Extracted(t)
    BY DEF LegacyNext, NotExtracted, Throws
  <2> QED BY <2>1, ExtractedCutsOne
<1> QED BY <1>1, <1>2, <1>3, PTL DEF LegacySpec, CutsOneOption

-----------------------------------------------------------------------------

(***************************************************************************)
(* The options of a script                                                 *)
(***************************************************************************)

\* How many backslashes may be said to stand right before p.
Slashes(s, p, first) == {n \in 0..(p - first) : \A i \in (p - n)..(p - 1) : s[i] = "\\"}

\* The longest run of them tells what is escaped.
LEMMA SlashesFact ==
  ASSUME NEW s, NEW first \in Nat, NEW p \in Nat, first <= p
  PROVE  /\ Max(Slashes(s, p, first)) \in Slashes(s, p, first)
         /\ Max(Slashes(s, p, first)) \in Nat
         /\ \A n \in Slashes(s, p, first) : n <= Max(Slashes(s, p, first))
         /\ IsEscaped(s, p, first) <=> Max(Slashes(s, p, first)) % 2 = 1
<1>1. /\ Slashes(s, p, first) \subseteq Nat /\ 0 \in Slashes(s, p, first)
      /\ \A n \in Slashes(s, p, first) : n <= p
  BY DEF Slashes
<1>2. IsEscaped(s, p, first) <=> Max(Slashes(s, p, first)) % 2 = 1
  BY Zenon DEF IsEscaped, Slashes
<1>3. Slashes(s, p, first) # {}
  BY <1>1
<1> QED BY <1>1, <1>2, <1>3, MaxFact

\* Nothing is escaped that no backslash precedes,
LEMMA NotEscaped ==
  ASSUME NEW s, NEW first \in Nat, NEW p \in Nat, first <= p, p = first \/ s[p - 1] # "\\"
  PROVE  ~IsEscaped(s, p, first)
<1>1. PICK M : M = Max(Slashes(s, p, first))
  OBVIOUS
<1>2. M \in Slashes(s, p, first) /\ M \in Nat /\ (IsEscaped(s, p, first) <=> M % 2 = 1)
  BY <1>1, SlashesFact
<1>3. M = 0
  BY <1>2 DEF Slashes
<1> QED BY <1>2, <1>3

\* and behind a backslash exactly what follows one that is not escaped.
LEMMA EscapedBehind ==
  ASSUME NEW s, NEW first \in Nat, NEW p \in Nat, first <= p, s[p] = "\\"
  PROVE  IsEscaped(s, p + 1, first) <=> ~IsEscaped(s, p, first)
<1>1. PICK M : M = Max(Slashes(s, p, first))
  OBVIOUS
<1>2. PICK N : N = Max(Slashes(s, p + 1, first))
  OBVIOUS
<1>3. /\ M \in Slashes(s, p, first) /\ M \in Nat /\ (IsEscaped(s, p, first) <=> M % 2 = 1)
      /\ \A n \in Slashes(s, p, first) : n <= M
  BY <1>1, SlashesFact
<1>4. p + 1 \in Nat /\ first <= p + 1
  OBVIOUS
<1>5. /\ N \in Slashes(s, p + 1, first) /\ N \in Nat
      /\ IsEscaped(s, p + 1, first) <=> N % 2 = 1
      /\ \A n \in Slashes(s, p + 1, first) : n <= N
  BY <1>2, <1>4, SlashesFact
<1>6. M + 1 \in Slashes(s, p + 1, first)
  <2>1. M \in 0..(p - first) /\ \A i \in (p - M)..(p - 1) : s[i] = "\\"
    BY <1>3 DEF Slashes
  <2>2. \A i \in ((p + 1) - (M + 1))..((p + 1) - 1) : s[i] = "\\"
    BY <2>1
  <2> QED BY <2>1, <2>2 DEF Slashes
<1>7. N >= M + 1
  BY <1>5, <1>6
<1>8. N - 1 \in Slashes(s, p, first)
  <2>1. N \in 0..((p + 1) - first) /\ \A i \in ((p + 1) - N)..((p + 1) - 1) : s[i] = "\\"
    BY <1>5 DEF Slashes
  <2>2. \A i \in (p - (N - 1))..(p - 1) : s[i] = "\\"
    BY <2>1
  <2> QED BY <2>1, <2>2, <1>7, <1>3 DEF Slashes
<1>9. N = M + 1
  BY <1>3, <1>5, <1>7, <1>8
<1> QED BY <1>3, <1>5, <1>9

\* It does not matter from where on the backslashes are counted.
LEMMA EscapedFrom ==
  ASSUME NEW s, NEW first \in Nat, NEW second \in Nat, NEW p \in Nat,
         first <= second, second <= p, second = first \/ s[second - 1] # "\\"
  PROVE  IsEscaped(s, p, first) <=> IsEscaped(s, p, second)
<1>1. ASSUME NEW n
      PROVE  n \in Slashes(s, p, first) <=> n \in Slashes(s, p, second)
  <2>1. CASE n \in Slashes(s, p, second)
    BY <2>1 DEF Slashes
  <2>2. CASE n \in Slashes(s, p, first)
    <3>1. n \in 0..(p - first) /\ \A i \in (p - n)..(p - 1) : s[i] = "\\"
      BY <2>2 DEF Slashes
    <3>2. n <= p - second
      <4> SUFFICES ASSUME n > p - second, second # first PROVE FALSE
        BY <3>1
      <4>1. second - 1 \in (p - n)..(p - 1)
        BY <3>1
      <4> QED BY <3>1, <4>1
    <3> QED BY <3>1, <3>2 DEF Slashes
  <2> QED BY <2>1, <2>2
<1>2. Slashes(s, p, first) = Slashes(s, p, second)
  BY <1>1
<1> QED BY <1>2, SlashesFact

\* The place where a value starts is unique.
LEMMA ValueStartFact ==
  ASSUME NEW s \in Seq(STRING), NEW i \in Nat
  PROVE  /\ ValueStart(s, i) \in Nat
         /\ ValueStart(s, i) # 0 =>
              ValueStart(s, i) \in (i + 3)..Len(s) /\ StartsValue(s, i, ValueStart(s, i))
         /\ \A v \in (i + 3)..Len(s) : StartsValue(s, i, v) => ValueStart(s, i) = v
<1> DEFINE S == {v \in (i + 3)..Len(s) : StartsValue(s, i, v)}
<1>1. S \subseteq Nat /\ 0 \notin S
  OBVIOUS
<1>2. PICK q : q = ValueStart(s, i)
  OBVIOUS
<1>3. /\ S = {} => q = 0
      /\ S # {} => q \in S
  <2>1. q = FirstOf(S)
    BY <1>2 DEF ValueStart
  <2> HIDE DEF S
  <2> QED BY <1>1, <2>1, FirstOfFact
<1>4. ASSUME NEW v \in S, NEW w \in S, v < w
      PROVE  FALSE
  <2>1. v \in Nat /\ w \in Nat /\ i + 3 <= v
    OBVIOUS
  <2>2. s[v] \notin Blanks
    BY DEF StartsValue
  <2>3. PICK k \in (i + 1)..(v - 2) : \A m \in (k + 1)..(v - 1) : s[m] \in Blanks
    BY DEF StartsValue
  <2>4. PICK l \in (i + 1)..(w - 2) : /\ \A m \in (i + 1)..l : s[m] \in Letters
                                    /\ \A m \in (l + 1)..(w - 1) : s[m] \in Blanks
    BY DEF StartsValue
  <2>5. s[v - 1] \in Blanks
    BY <2>1, <2>3
  <2>6. l < v - 1
    <3> SUFFICES ASSUME v - 1 <= l PROVE FALSE
      BY <2>1
    <3>1. v - 1 \in (i + 1)..l
      BY <2>1
    <3> QED BY <2>4, <2>5, <3>1, CharactersAssumption, SemicolonFact
  <2>7. v \in (l + 1)..(w - 1)
    BY <1>4, <2>1, <2>4, <2>6
  <2> QED BY <2>2, <2>4, <2>7
<1>5. \A v \in S : v = q
  <2>1. SUFFICES ASSUME NEW v \in S PROVE v = q
    OBVIOUS
  <2>2. q \in S
    BY <1>3
  <2>3. ~(v < q) /\ ~(q < v)
    BY <1>4, <2>2
  <2> QED BY <1>1, <2>2, <2>3
<1> QED BY <1>2, <1>3, <1>5

\* The parts of an option, all in one line.
LEMMA OptionParts ==
  ASSUME NEW s \in Seq(STRING), NEW i \in DOMAIN s, NEW j \in DOMAIN s, IsOption(s, i, j),
         NEW v, v = ValueStart(s, i)
  PROVE  /\ v \in Nat /\ i + 3 <= v /\ v < j
         /\ s[v] \notin Blanks /\ s[v - 1] # "\\"
         /\ \A m \in (i + 1)..(v - 1) : s[m] \notin {"%", Semicolon}
         /\ \A m \in i..j : s[m] \notin LineEnds
<1>1. /\ v # 0 /\ v < j /\ s[i] = "%" /\ s[j] = Semicolon
      /\ \A m \in v..(j - 1) : ~EndsValue(s, m, v)
  BY DEF IsOption
<1>2. i \in Nat /\ j \in Nat
  OBVIOUS
<1>3. v \in (i + 3)..Len(s) /\ StartsValue(s, i, v)
  BY <1>1, <1>2, ValueStartFact
<1>4. PICK k \in (i + 1)..(v - 2) : /\ \A m \in (i + 1)..k : s[m] \in Letters
                                  /\ \A m \in (k + 1)..(v - 1) : s[m] \in Blanks
  BY <1>3 DEF StartsValue
<1>5. v \in Nat /\ i + 3 <= v /\ k \in Nat /\ k + 2 <= v
  BY <1>2, <1>3, <1>4
<1>6. s[v] \notin Blanks
  BY <1>3 DEF StartsValue
<1>7. s[v - 1] \in Blanks
  BY <1>4, <1>5
<1>8. ASSUME NEW m \in (i + 1)..(v - 1)
      PROVE  s[m] \in Letters \cup Blanks
  <2>1. m \in (i + 1)..k \/ m \in (k + 1)..(v - 1)
    BY <1>2, <1>5
  <2> QED BY <2>1, <1>4
<1>9. ASSUME NEW m \in i..j
      PROVE  s[m] \notin LineEnds
  <2>1. m = i \/ m \in (i + 1)..(v - 1) \/ m \in v..(j - 1) \/ m = j
    <3>1. v < j
      BY <1>1
    <3> QED BY <3>1, <1>2, <1>5
  <2>2. CASE m \in v..(j - 1)
    BY <2>2, <1>1 DEF EndsValue
  <2>3. CASE m \in (i + 1)..(v - 1)
    BY <2>3, <1>8, CharactersAssumption, SemicolonFact
  <2> QED BY <2>1, <2>2, <2>3, <1>1, CharactersAssumption, SemicolonFact
<1> QED BY <1>1, <1>5, <1>6, <1>7, <1>8, <1>9, CharactersAssumption, SemicolonFact

\* An option has one end.
LEMMA OneEnd ==
  ASSUME NEW s \in Seq(STRING), NEW i \in DOMAIN s, NEW j \in DOMAIN s, NEW k \in DOMAIN s,
         IsOption(s, i, j), IsOption(s, i, k)
  PROVE  j = k
<1>1. PICK v : v = ValueStart(s, i)
  OBVIOUS
<1>2. v \in Nat /\ v < j /\ v < k
  BY <1>1, OptionParts
<1>3. /\ EndsValue(s, j, v) /\ EndsValue(s, k, v)
      /\ \A m \in v..(j - 1) : ~EndsValue(s, m, v)
      /\ \A m \in v..(k - 1) : ~EndsValue(s, m, v)
  BY <1>1 DEF IsOption
<1>4. k \notin v..(j - 1) /\ j \notin v..(k - 1)
  BY <1>3
<1> QED BY <1>2, <1>4

\* An option that begins inside another one ends with it or before.
LEMMA OptionsNest ==
  ASSUME NEW s \in Seq(STRING), NEW i \in DOMAIN s, NEW j \in DOMAIN s,
         NEW k \in DOMAIN s, NEW l \in DOMAIN s,
         IsOption(s, i, j), IsOption(s, k, l), i < k, k <= j
  PROVE  l <= j
<1>0. i \in Nat /\ j \in Nat /\ k \in Nat /\ l \in Nat
  OBVIOUS
<1>1. PICK v : v = ValueStart(s, i)
  OBVIOUS
<1>2. PICK w : w = ValueStart(s, k)
  OBVIOUS
<1>3. /\ v \in Nat /\ i + 3 <= v /\ v < j
      /\ \A m \in (i + 1)..(v - 1) : s[m] \notin {"%", Semicolon}
  BY <1>1, OptionParts
<1>4. /\ w \in Nat /\ k + 3 <= w /\ w < l
      /\ s[w - 1] # "\\"
      /\ \A m \in (k + 1)..(w - 1) : s[m] \notin {"%", Semicolon}
  BY <1>2, OptionParts
<1>n. v \in Nat /\ i + 3 <= v /\ v < j /\ w \in Nat /\ k + 3 <= w /\ w < l
  BY <1>3, <1>4, Zenon
<1>5. /\ s[j] = Semicolon /\ EndsValue(s, j, v) /\ s[k] = "%"
      /\ \A m \in w..(l - 1) : ~EndsValue(s, m, w)
      /\ s[w] # Semicolon
  <2>1. StartsValue(s, k, w)
    <3>1. w # 0
      BY <1>0, <1>n
    <3> QED BY <1>0, <1>2, <3>1, ValueStartFact
  <2>2. s[w] # Semicolon
    BY <2>1 DEF StartsValue
  <2> QED BY <1>1, <1>2, <2>2 DEF IsOption
<1>6. k >= v
  <2> SUFFICES ASSUME k < v PROVE FALSE
    BY <1>0, <1>n
  <2>1. k \in (i + 1)..(v - 1)
    BY <1>0, <1>n
  <2> QED BY <2>1, <1>3, <1>5
<1>7. w < j
  <2> SUFFICES ASSUME j <= w PROVE FALSE
    BY <1>0, <1>n
  <2>1. j # k /\ j # w
    BY <1>5, SemicolonFact
  <2>2. j \in (k + 1)..(w - 1)
    BY <1>0, <1>n, <2>1
  <2> QED BY <2>2, <1>4, <1>5
<1>8. IsEscaped(s, j, v) <=> IsEscaped(s, j, w)
  <2>1. v <= w /\ w <= j
    BY <1>0, <1>n, <1>6, <1>7
  <2> QED BY <1>0, <1>3, <1>4, <2>1, EscapedFrom
<1>9. EndsValue(s, j, w)
  BY <1>5, <1>8 DEF EndsValue
<1>10. j \notin w..(l - 1)
  BY <1>5, <1>9
<1> QED
  <2>1. w \in Nat /\ w < l
    BY <1>4
  <2> QED BY <1>0, <2>1, <1>7, <1>10

-----------------------------------------------------------------------------

(***************************************************************************)
(* The lines of a script                                                   *)
(***************************************************************************)

\* The positions from first to last - 1 are a line.
IsLine(s, first, last) ==
  /\ first \in Nat /\ last \in Nat /\ 1 <= first /\ first <= last /\ last <= Len(s) + 1
  /\ first = 1 \/ s[first - 1] \in LineEnds
  /\ last = Len(s) + 1 \/ s[last] \in LineEnds
  /\ \A m \in first..(last - 1) : s[m] \notin LineEnds

\* The options that lead before p.
Before(s, p) == {o \in Leading(s) : o[1] < p}

\* An option is a pair of positions of the script, and begins with "%".
LEMMA OptionFact ==
  ASSUME NEW s \in Seq(STRING), NEW o \in AllOptions(s)
  PROVE  /\ o = <<o[1], o[2]>> /\ o[1] \in DOMAIN s /\ o[2] \in DOMAIN s
         /\ o[1] \in Nat /\ o[2] \in Nat /\ 1 <= o[1] /\ o[2] <= Len(s)
         /\ IsOption(s, o[1], o[2]) /\ s[o[1]] = "%"
<1>1. o = <<o[1], o[2]>> /\ o[1] \in DOMAIN s /\ o[2] \in DOMAIN s /\ IsOption(s, o[1], o[2])
  BY DEF AllOptions
<1>2. s[o[1]] = "%"
  BY <1>1, Zenon DEF IsOption
<1>3. o[1] \in 1..Len(s) /\ o[2] \in 1..Len(s)
  BY <1>1
<1> QED BY <1>1, <1>2, <1>3

\* The line of a position begins where the line begins.
LEMMA StartOfLine ==
  ASSUME NEW s \in Seq(STRING), NEW first, NEW last, IsLine(s, first, last),
         NEW h \in first..(last - 1)
  PROVE  Leads(s, h) <=> LeadsFrom(s, first, h)
<1>1. PICK q : q = LastIn(s, LineEnds, h)
  OBVIOUS
<1>2. first \in Nat /\ last \in Nat /\ 1 <= first /\ h \in Nat /\ first <= h /\ h < last
  BY DEF IsLine
<1>3. /\ q \in 0..h
      /\ q # 0 => s[q] \in LineEnds
      /\ \A i \in (q + 1)..h : s[i] \notin LineEnds
  BY <1>1, <1>2, LastInFact
<1>4. q < first
  <2> SUFFICES ASSUME first <= q PROVE FALSE
    BY <1>2, <1>3
  <2>1. q \in first..(last - 1) /\ q # 0
    BY <1>2, <1>3
  <2> QED BY <2>1, <1>3 DEF IsLine
<1>5. q >= first - 1
  <2> SUFFICES ASSUME q < first - 1 PROVE FALSE
    BY <1>2, <1>3
  <2>1. first - 1 \in (q + 1)..h /\ first # 1
    BY <1>2, <1>3
  <2> QED BY <2>1, <1>3 DEF IsLine
<1>6. LineStart(s, h) = first
  BY <1>1, <1>2, <1>3, <1>4, <1>5 DEF LineStart
<1> QED BY <1>6 DEF Leads

\* An option does not reach into another line.
LEMMA OptionInLine ==
  ASSUME NEW s \in Seq(STRING), NEW first, NEW last, IsLine(s, first, last),
         NEW o \in AllOptions(s), NEW h \in first..(last - 1), o[1] <= h, h <= o[2]
  PROVE  first <= o[1] /\ o[2] < last
<1>1. PICK v : v = ValueStart(s, o[1])
  OBVIOUS
<1>2. first \in Nat /\ last \in Nat /\ 1 <= first /\ h \in Nat /\ first <= h /\ h < last
  BY DEF IsLine
<1>3. o[1] \in Nat /\ o[2] \in Nat /\ 1 <= o[1] /\ o[2] <= Len(s)
  BY OptionFact
<1>4. \A m \in o[1]..o[2] : s[m] \notin LineEnds
  BY <1>1, OptionFact, OptionParts
<1>5. first <= o[1]
  <2> SUFFICES ASSUME o[1] < first PROVE FALSE
    BY <1>2, <1>3
  <2>1. first - 1 \in o[1]..o[2] /\ first # 1
    BY <1>2, <1>3
  <2> QED BY <2>1, <1>4 DEF IsLine
<1>6. o[2] < last
  <2> SUFFICES ASSUME last <= o[2] PROVE FALSE
    BY <1>2, <1>3
  <2>1. last \in o[1]..o[2] /\ last # Len(s) + 1
    BY <1>2, <1>3
  <2> QED BY <2>1, <1>4 DEF IsLine
<1> QED BY <1>5, <1>6

\* Behind white space and options no option is open.
LEMMA NoneIsOpen ==
  ASSUME NEW s \in Seq(STRING), NEW first \in Nat, NEW h \in Nat, LeadsFrom(s, first, h),
         NEW o \in AllOptions(s), first <= o[1], o[1] < h
  PROVE  o[2] < h
<1>1. /\ o[1] \in Nat /\ o[2] \in Nat /\ s[o[1]] = "%" /\ IsOption(s, o[1], o[2])
      /\ o[1] \in DOMAIN s /\ o[2] \in DOMAIN s
  BY OptionFact
<1>2. o[1] \in first..(h - 1) /\ s[o[1]] \notin Blanks
  <2>1. o[1] \in Nat
    BY <1>1
  <2>2. s[o[1]] \notin Blanks
    BY <1>1, CharactersAssumption, SemicolonFact
  <2> QED BY <2>1, <2>2
<1>3. PICK q \in AllOptions(s) : q[1] <= o[1] /\ o[1] <= q[2] /\ q[2] < h
  BY <1>2 DEF LeadsFrom
<1>4. /\ q[1] \in Nat /\ q[2] \in Nat /\ IsOption(s, q[1], q[2])
      /\ q[1] \in DOMAIN s /\ q[2] \in DOMAIN s
  BY OptionFact
<1>5. CASE q[1] = o[1]
  <2>1. q[2] = o[2]
    BY <1>1, <1>4, <1>5, OneEnd
  <2> QED BY <2>1, <1>3
<1>6. CASE q[1] < o[1]
  <2>1. o[2] <= q[2]
    BY <1>1, <1>3, <1>4, <1>6, OptionsNest
  <2> QED BY <2>1, <1>1, <1>3, <1>4
<1> QED BY <1>1, <1>3, <1>4, <1>5, <1>6

\* Nothing leads behind a character that is not white space and not in an option
\* that has ended.
LEMMA NothingLeads ==
  ASSUME NEW s \in Seq(STRING), NEW first, NEW last, IsLine(s, first, last),
         NEW h \in first..(last - 1), LeadsFrom(s, first, h), s[h] \notin Blanks,
         NEW m \in (h + 1)..(last - 1), \A o \in AllOptions(s) : o[1] = h => m <= o[2]
  PROVE  ~Leads(s, m)
<1>1. first \in Nat /\ last \in Nat /\ 1 <= first /\ h \in Nat /\ first <= h /\ h < last
  BY DEF IsLine
<1>2. m \in Nat /\ m \in first..(last - 1) /\ h \in first..(m - 1)
  BY <1>1
<1> SUFFICES ASSUME LeadsFrom(s, first, m) PROVE FALSE
  BY <1>2, StartOfLine
<1>3. PICK o \in AllOptions(s) : o[1] <= h /\ h <= o[2] /\ o[2] < m
  BY <1>2 DEF LeadsFrom
<1>4. o[1] \in Nat /\ o[2] \in Nat
  BY OptionFact
<1>5. CASE o[1] = h
  BY <1>2, <1>3, <1>4, <1>5
<1>6. CASE o[1] < h
  <2>1. first <= o[1]
    BY <1>3, OptionInLine
  <2>2. o[2] < h
    BY <1>1, <1>6, <2>1, NoneIsOpen
  <2> QED BY <2>2, <1>1, <1>3, <1>4
<1> QED BY <1>1, <1>3, <1>4, <1>5, <1>6

\* White space and an option keep the way free.
LEMMA LeadsOn ==
  ASSUME NEW s \in Seq(STRING), NEW first \in Nat, NEW h \in Nat, LeadsFrom(s, first, h),
         NEW n \in Nat, h <= n,
         \/ \A m \in h..(n - 1) : s[m] \in Blanks
         \/ \E o \in AllOptions(s) : o[1] = h /\ o[2] = n - 1
  PROVE  LeadsFrom(s, first, n)
<1> SUFFICES ASSUME NEW m \in first..(n - 1)
             PROVE  s[m] \in Blanks \/ \E o \in AllOptions(s) : o[1] <= m /\ m <= o[2] /\ o[2] < n
  BY DEF LeadsFrom
<1>1. CASE m \in first..(h - 1)
  <2>1. s[m] \in Blanks \/ \E o \in AllOptions(s) : o[1] <= m /\ m <= o[2] /\ o[2] < h
    BY <1>1 DEF LeadsFrom
  <2>2. ASSUME NEW o \in AllOptions(s), o[1] <= m /\ m <= o[2] /\ o[2] < h
        PROVE  o[2] < n
    BY <2>2, OptionFact
  <2> QED BY <2>1, <2>2
<1>2. CASE m \in h..(n - 1)
  <2>1. CASE \A k \in h..(n - 1) : s[k] \in Blanks
    BY <1>2, <2>1
  <2>2. ASSUME NEW o \in AllOptions(s), o[1] = h /\ o[2] = n - 1
        PROVE  o[1] <= m /\ m <= o[2] /\ o[2] < n
    BY <1>2, <2>2
  <2> QED BY <2>1, <2>2
<1> QED BY <1>1, <1>2

\* Where no option begins and leads, the script is settled as before.
LEMMA SettledOn ==
  ASSUME NEW s \in Seq(STRING), NEW p \in Nat, NEW q \in Nat, p <= q,
         \A m \in p..(q - 1) : m \in DOMAIN s /\ s[m] = "%" => ~Leads(s, m)
  PROVE  /\ Before(s, q) = Before(s, p)
         /\ (\A i \in Broken(s) : i >= p) => \A i \in Broken(s) : i >= q
<1>1. ASSUME NEW o \in Leading(s), o[1] < q
      PROVE  o[1] < p
  <2>1. o \in AllOptions(s) /\ Leads(s, o[1])
    BY DEF Leading
  <2>2. o[1] \in Nat /\ o[1] \in DOMAIN s /\ s[o[1]] = "%"
    BY <2>1, OptionFact
  <2>3. o[1] \notin p..(q - 1)
    BY <2>1, <2>2
  <2> QED BY <1>1, <2>2, <2>3
<1>2. ASSUME NEW o \in Leading(s), o[1] < p
      PROVE  o[1] < q
  <2>1. o[1] \in Nat
    BY OptionFact DEF Leading
  <2> QED BY <1>2, <2>1
<1>3. Before(s, q) = Before(s, p)
  BY <1>1, <1>2 DEF Before
<1>4. ASSUME NEW i \in Broken(s), i >= p
      PROVE  i >= q
  <2>1. i \in DOMAIN s /\ s[i] = "%" /\ Leads(s, i)
    BY DEF Broken
  <2>2. i \in Nat /\ i \notin p..(q - 1)
    BY <2>1
  <2> QED BY <1>4, <2>2
<1> QED BY <1>3, <1>4

\* An option that leads is the only one between its ends that does.
LEMMA SettledByOption ==
  ASSUME NEW s \in Seq(STRING), NEW first, NEW last, IsLine(s, first, last),
         NEW i \in first..(last - 1), LeadsFrom(s, first, i),
         NEW j \in (i + 1)..(last - 1), <<i, j>> \in AllOptions(s)
  PROVE  /\ Before(s, j + 1) = Before(s, i) \cup {<<i, j>>}
         /\ (\A b \in Broken(s) : b >= i) => \A b \in Broken(s) : b >= j + 1
<1>1. first \in Nat /\ last \in Nat /\ 1 <= first /\ last <= Len(s) + 1 /\ i \in Nat /\ j \in Nat
  BY DEF IsLine
<1>2. Leads(s, i)
  BY StartOfLine
<1>3. /\ i \in DOMAIN s /\ j \in DOMAIN s /\ IsOption(s, i, j) /\ s[i] = "%"
  <2>1. <<i, j>>[1] = i /\ <<i, j>>[2] = j
    OBVIOUS
  <2> QED BY <2>1, OptionFact
<1>4. ASSUME NEW o \in AllOptions(s), o[1] = i
      PROVE  o[2] = j /\ o = <<i, j>>
  <2>1. o = <<o[1], o[2]>> /\ o[2] \in DOMAIN s /\ IsOption(s, o[1], o[2])
    BY OptionFact
  <2>2. o[2] = j
    BY <1>3, <1>4, <2>1, OneEnd
  <2> QED BY <1>4, <2>1, <2>2
<1>5. <<i, j>> \in Leading(s)
  BY <1>2 DEF Leading
<1>6. i \notin Broken(s)
  BY <1>5 DEF Broken
<1>7. ASSUME NEW m \in (i + 1)..((j + 1) - 1)
      PROVE  ~Leads(s, m)
  <2>1. m \in (i + 1)..(last - 1) /\ m <= j
    BY <1>1
  <2>2. s[i] \notin Blanks
    BY <1>3, CharactersAssumption, SemicolonFact
  <2>3. \A o \in AllOptions(s) : o[1] = i => m <= o[2]
    BY <1>4, <2>1
  <2> QED BY <2>1, <2>2, <2>3, NothingLeads
<1>8. /\ Before(s, j + 1) = Before(s, i + 1)
      /\ (\A b \in Broken(s) : b >= i + 1) => \A b \in Broken(s) : b >= j + 1
  <2>1. i + 1 \in Nat /\ j + 1 \in Nat /\ i + 1 <= j + 1
    BY <1>1
  <2> QED BY <2>1, <1>7, SettledOn
<1>9. Before(s, i + 1) = Before(s, i) \cup {<<i, j>>}
  <2>1. ASSUME NEW o \in Leading(s)
        PROVE  o[1] < i + 1 <=> o[1] < i \/ o = <<i, j>>
    <3>1. o \in AllOptions(s) /\ o[1] \in Nat
      BY OptionFact DEF Leading
    <3>2. o = <<i, j>> => o[1] = i
      OBVIOUS
    <3> QED BY <1>1, <1>4, <3>1, <3>2
  <2> QED BY <1>5, <2>1 DEF Before
<1>10. ASSUME NEW b \in Broken(s), b >= i
       PROVE  b >= i + 1
  <2>1. b \in DOMAIN s /\ b # i
    BY <1>6 DEF Broken
  <2>2. b \in Nat
    BY <2>1
  <2> QED BY <1>1, <1>10, <2>1, <2>2
<1> QED BY <1>8, <1>9, <1>10

-----------------------------------------------------------------------------

(***************************************************************************)
(* Tokens                                                                  *)
(***************************************************************************)

\* A run goes as far as it can.
LEMMA RunFact ==
  ASSUME LineEnd \in Nat, NEW C, NEW p \in Nat, p < LineEnd
  PROVE  /\ Run(C, p) \in Nat /\ p + Run(C, p) <= LineEnd
         /\ \A i \in p..(p + Run(C, p) - 1) : code[i] \in C
         /\ p + Run(C, p) = LineEnd \/ code[p + Run(C, p)] \notin C
         /\ code[p] \in C => Run(C, p) >= 1
<1> DEFINE S == {n \in 0..(LineEnd - p) : \A i \in p..(p + n - 1) : code[i] \in C}
<1>1. S \subseteq Nat /\ 0 \in S /\ \A n \in S : n <= LineEnd
  OBVIOUS
<1>2. PICK r : r = Run(C, p)
  OBVIOUS
<1>3. r \in S /\ r \in Nat /\ \A n \in S : n <= r
  <2>1. r = Max(S)
    BY <1>2 DEF Run
  <2> HIDE DEF S
  <2>2. S # {}
    BY <1>1
  <2> QED BY <1>1, <2>1, <2>2, MaxFact
<1>4. r <= LineEnd - p /\ \A i \in p..(p + r - 1) : code[i] \in C
  BY <1>3
<1>5. p + r = LineEnd \/ code[p + r] \notin C
  <2> SUFFICES ASSUME p + r < LineEnd, code[p + r] \in C PROVE FALSE
    BY <1>3, <1>4
  <2>1. \A i \in p..(p + (r + 1) - 1) : code[i] \in C
    BY <1>3, <1>4
  <2>2. r + 1 \in S
    BY <1>3, <2>1
  <2> QED BY <1>3, <2>2
<1>6. code[p] \in C => r >= 1
  BY <1>3, <1>5
<1> QED BY <1>2, <1>3, <1>4, <1>5, <1>6

Kinds == {"%", "escape", "blank_escape", "blanks", Semicolon, "letters", "other"}

\* The cases of a token exclude each other.
LEMMA TokenCases ==
  ASSUME NEW p
  PROVE  /\ Reads(p, {"%"}) => Token(p) = [kind |-> "%", len |-> 1]
         /\ Escapes(p, Escaped) => Token(p) = [kind |-> "escape", len |-> 2]
         /\ Escapes(p, EscapedBlanks) => Token(p) = [kind |-> "blank_escape", len |-> 2]
         /\ Reads(p, Blanks) => Token(p) = [kind |-> "blanks", len |-> Run(Blanks, p)]
         /\ Reads(p, {Semicolon}) => Token(p) = [kind |-> Semicolon, len |-> 1]
         /\ Reads(p, Letters) => Token(p) = [kind |-> "letters", len |-> Run(Letters, p)]
         /\ Single(p) => Token(p) = [kind |-> "other", len |-> 1]
<1>1. ASSUME Reads(p, {"%"})
      PROVE  Token(p) = [kind |-> "%", len |-> 1]
  <2>1. /\ ~Escapes(p, Escaped) /\ ~Escapes(p, EscapedBlanks) /\ ~Reads(p, Blanks)
        /\ ~Reads(p, {Semicolon}) /\ ~Reads(p, Letters) /\ ~Single(p)
    BY <1>1, CharactersAssumption, SemicolonFact, EscapedAssumption DEF Escapes, Single, Reads
  <2> QED BY <1>1, <2>1, Zenon DEF Token
<1>2. ASSUME Escapes(p, Escaped)
      PROVE  Token(p) = [kind |-> "escape", len |-> 2]
  <2>1. /\ ~Reads(p, {"%"}) /\ ~Escapes(p, EscapedBlanks) /\ ~Reads(p, Blanks)
        /\ ~Reads(p, {Semicolon}) /\ ~Reads(p, Letters) /\ ~Single(p)
    BY <1>2, CharactersAssumption, SemicolonFact, EscapedAssumption DEF Escapes, Single, Reads
  <2> QED BY <1>2, <2>1, Zenon DEF Token
<1>3. ASSUME Escapes(p, EscapedBlanks)
      PROVE  Token(p) = [kind |-> "blank_escape", len |-> 2]
  <2>1. /\ ~Reads(p, {"%"}) /\ ~Escapes(p, Escaped) /\ ~Reads(p, Blanks)
        /\ ~Reads(p, {Semicolon}) /\ ~Reads(p, Letters) /\ ~Single(p)
    BY <1>3, CharactersAssumption, SemicolonFact, EscapedAssumption DEF Escapes, Single, Reads
  <2> QED BY <1>3, <2>1, Zenon DEF Token
<1>4. ASSUME Reads(p, Blanks)
      PROVE  Token(p) = [kind |-> "blanks", len |-> Run(Blanks, p)]
  <2>1. /\ ~Reads(p, {"%"}) /\ ~Escapes(p, Escaped) /\ ~Escapes(p, EscapedBlanks)
        /\ ~Reads(p, {Semicolon}) /\ ~Reads(p, Letters) /\ ~Single(p)
    BY <1>4, CharactersAssumption, SemicolonFact, EscapedAssumption DEF Escapes, Single, Reads
  <2> QED BY <1>4, <2>1, Zenon DEF Token
<1>5. ASSUME Reads(p, {Semicolon})
      PROVE  Token(p) = [kind |-> Semicolon, len |-> 1]
  <2>1. /\ ~Reads(p, {"%"}) /\ ~Escapes(p, Escaped) /\ ~Escapes(p, EscapedBlanks)
        /\ ~Reads(p, Blanks) /\ ~Reads(p, Letters) /\ ~Single(p)
    BY <1>5, CharactersAssumption, SemicolonFact, EscapedAssumption DEF Escapes, Single, Reads
  <2> QED BY <1>5, <2>1, Zenon DEF Token
<1>6. ASSUME Reads(p, Letters)
      PROVE  Token(p) = [kind |-> "letters", len |-> Run(Letters, p)]
  <2>1. /\ ~Reads(p, {"%"}) /\ ~Escapes(p, Escaped) /\ ~Escapes(p, EscapedBlanks)
        /\ ~Reads(p, Blanks) /\ ~Reads(p, {Semicolon}) /\ ~Single(p)
    BY <1>6, CharactersAssumption, SemicolonFact, EscapedAssumption DEF Escapes, Single, Reads
  <2> QED BY <1>6, <2>1, Zenon DEF Token
<1>7. ASSUME Single(p)
      PROVE  Token(p) = [kind |-> "other", len |-> 1]
  <2>1. /\ ~Reads(p, {"%"}) /\ ~Escapes(p, Escaped) /\ ~Escapes(p, EscapedBlanks)
        /\ ~Reads(p, Blanks) /\ ~Reads(p, {Semicolon}) /\ ~Reads(p, Letters)
    BY <1>7, CharactersAssumption, SemicolonFact, EscapedAssumption DEF Escapes, Single, Reads
  <2> QED BY <1>7, <2>1, Zenon DEF Token
<1> QED BY <1>1, <1>2, <1>3, <1>4, <1>5, <1>6, <1>7

\* What the kind of a token says of the text, and how far the token goes.
LEMMA TokenFact ==
  ASSUME LineEnd \in Nat, NEW p \in Nat, p < LineEnd,
         NEW kind, kind = Token(p).kind, NEW n, n = Token(p).len
  PROVE  /\ kind \in Kinds /\ n \in Nat /\ n >= 1 /\ p + n <= LineEnd
         /\ kind = "%" <=> code[p] = "%"
         /\ kind = Semicolon <=> code[p] = Semicolon
         /\ kind = "blanks" <=> code[p] \in Blanks
         /\ kind = "letters" <=> code[p] \in Letters
         /\ kind = "blanks" => /\ \A i \in p..(p + n - 1) : code[i] \in Blanks
                               /\ p + n = LineEnd \/ code[p + n] \notin Blanks
         /\ kind = "letters" => /\ \A i \in p..(p + n - 1) : code[i] \in Letters
                                /\ p + n = LineEnd \/ code[p + n] \notin Letters
         /\ kind = "escape" => n = 2 /\ code[p] = "\\" /\ code[p + 1] \in Escaped
         /\ kind = "blank_escape" => n = 2 /\ code[p] = "\\" /\ code[p + 1] \in EscapedBlanks
         /\ kind \in {"%", Semicolon, "other"} => n = 1
         /\ kind = "other" =>
              \/ code[p] # "\\" \/ p + 1 = LineEnd
              \/ code[p + 1] \notin Escaped \cup EscapedBlanks
<1>1. CASE Reads(p, {"%"})
  <2>1. Token(p) = [kind |-> "%", len |-> 1]
    BY <1>1, TokenCases
  <2>2. kind = "%" /\ n = 1
    BY <2>1
  <2>3. code[p] = "%" /\ code[p] # Semicolon /\ code[p] \notin Blanks /\ code[p] \notin Letters
    BY <1>1, CharactersAssumption, SemicolonFact DEF Reads, Escapes, Single
  <2> QED BY <2>2, <2>3, SemicolonFact DEF Kinds
<1>2. CASE Escapes(p, Escaped)
  <2>1. Token(p) = [kind |-> "escape", len |-> 2]
    BY <1>2, TokenCases
  <2>2. kind = "escape" /\ n = 2
    BY <2>1
  <2>3. /\ code[p] = "\\" /\ code[p + 1] \in Escaped /\ p + 1 < LineEnd
        /\ code[p] # "%" /\ code[p] # Semicolon /\ code[p] \notin Blanks /\ code[p] \notin Letters
    BY <1>2, CharactersAssumption, SemicolonFact DEF Reads, Escapes, Single
  <2> QED BY <2>2, <2>3, SemicolonFact DEF Kinds
<1>3. CASE Escapes(p, EscapedBlanks)
  <2>1. Token(p) = [kind |-> "blank_escape", len |-> 2]
    BY <1>3, TokenCases
  <2>2. kind = "blank_escape" /\ n = 2
    BY <2>1
  <2>3. /\ code[p] = "\\" /\ code[p + 1] \in EscapedBlanks /\ p + 1 < LineEnd
        /\ code[p] # "%" /\ code[p] # Semicolon /\ code[p] \notin Blanks /\ code[p] \notin Letters
    BY <1>3, CharactersAssumption, SemicolonFact DEF Reads, Escapes, Single
  <2> QED BY <2>2, <2>3, SemicolonFact DEF Kinds
<1>4. CASE Reads(p, Blanks)
  <2>1. Token(p) = [kind |-> "blanks", len |-> Run(Blanks, p)]
    BY <1>4, TokenCases
  <2>2. kind = "blanks" /\ n = Run(Blanks, p)
    BY <2>1
  <2>3. code[p] # "%" /\ code[p] # Semicolon /\ code[p] \in Blanks /\ code[p] \notin Letters
    BY <1>4, CharactersAssumption, SemicolonFact DEF Reads, Escapes, Single
  <2> QED BY <2>2, <2>3, SemicolonFact, RunFact DEF Kinds
<1>5. CASE Reads(p, {Semicolon})
  <2>1. Token(p) = [kind |-> Semicolon, len |-> 1]
    BY <1>5, TokenCases
  <2>2. kind = Semicolon /\ n = 1
    BY <2>1
  <2>3. code[p] # "%" /\ code[p] = Semicolon /\ code[p] \notin Blanks /\ code[p] \notin Letters
    BY <1>5, CharactersAssumption, SemicolonFact DEF Reads, Escapes, Single
  <2> QED BY <2>2, <2>3, SemicolonFact DEF Kinds
<1>6. CASE Reads(p, Letters)
  <2>1. Token(p) = [kind |-> "letters", len |-> Run(Letters, p)]
    BY <1>6, TokenCases
  <2>2. kind = "letters" /\ n = Run(Letters, p)
    BY <2>1
  <2>3. code[p] # "%" /\ code[p] # Semicolon /\ code[p] \notin Blanks /\ code[p] \in Letters
    BY <1>6, CharactersAssumption, SemicolonFact DEF Reads, Escapes, Single
  <2> QED BY <2>2, <2>3, SemicolonFact, RunFact DEF Kinds
<1>7. CASE Single(p)
  <2>1. Token(p) = [kind |-> "other", len |-> 1]
    BY <1>7, TokenCases
  <2>2. kind = "other" /\ n = 1
    BY <2>1
  <2>3. /\ code[p] # "%" /\ code[p] # Semicolon /\ code[p] \notin Blanks /\ code[p] \notin Letters
        /\ \/ code[p] # "\\" \/ ~(p + 1 < LineEnd)
           \/ code[p + 1] \notin Escaped \cup EscapedBlanks
    BY <1>7, CharactersAssumption, SemicolonFact DEF Reads, Escapes, Single
  <2> QED BY <2>2, <2>3, SemicolonFact DEF Kinds
<1> QED
  <2>1. \/ Reads(p, {"%"}) \/ Reads(p, {Semicolon}) \/ Reads(p, Blanks) \/ Reads(p, Letters)
        \/ Escapes(p, Escaped) \/ Escapes(p, EscapedBlanks) \/ Single(p)
    BY DEF Single, Escapes, Reads
  <2> QED BY <2>1, <1>1, <1>2, <1>3, <1>4, <1>5, <1>6, <1>7

-----------------------------------------------------------------------------

(***************************************************************************)
(* The invariant of the parser                                             *)
(***************************************************************************)

\* What the parser and its result hold of a line.
Chars == STRING \cup {"LF", "CR", "HT", "FF", "VT"}
ScriptOption == [key : Seq(STRING), value : Seq(Chars), idx : Nat, size : Nat]

Modes == {"start", "blanks", "key", "gap", "first", "value", "rest"}

LinesTypeOK ==
  /\ code \in Seq(STRING)
  /\ pc \in {"next", "parse", "push", "done", "threw"}
  /\ from \in 1..(Len(code) + 1)
  /\ at \in Nat
  /\ mode \in Modes
  /\ option \in ScriptOption
  /\ options \in Seq(ScriptOption)
  /\ result = [key \in DOMAIN result |-> result[key]]
  /\ \A key \in DOMAIN result : result[key] \in Seq(ScriptOption)

\* The parser is in a line of the script.
InLine ==
  /\ IsLine(code, line.start, LineEnd)
  /\ line.start <= at /\ at <= LineEnd
  /\ line.last \in Nat /\ line.last <= Len(code)

\* The places of the options that were read.
Place(o) == <<o.idx, (o.idx + o.size) - 1>>
Found == {Place(o) : o \in Reported} \cup {Place(options[n]) : n \in DOMAIN options}

\* They are the leading options of the script before p, where none is broken.
Settled(p) ==
  /\ Found = Before(code, p)
  /\ \A i \in Broken(code) : i >= p

\* Only white space and options stand before position p of the line.
Ahead(p) == LeadsFrom(code, line.start, p) /\ Settled(p)

\* An option has begun.
Opened == {"key", "gap", "first", "value"}
InOption ==
  /\ line.start <= option.idx /\ option.idx < at
  /\ code[option.idx] = "%"
  /\ Ahead(option.idx)

\* How far the parser has come with the option.
InKey == at = option.idx + 1

InGap ==
  /\ option.idx + 1 < at
  /\ \A m \in (option.idx + 1)..(at - 1) : code[m] \in Letters
  /\ at = LineEnd \/ code[at] \notin Letters

InFirst ==
  /\ \E k \in (option.idx + 1)..(at - 2) :
       /\ \A m \in (option.idx + 1)..k : code[m] \in Letters
       /\ \A m \in (k + 1)..(at - 1) : code[m] \in Blanks
  /\ at = LineEnd \/ code[at] \notin Blanks

\* In a value no ";" at the parser's place is escaped: the tokens are as long as
\* the escapes.
InValue ==
  LET v == ValueStart(code, option.idx)
  IN /\ v # 0 /\ v < at
     /\ \A m \in v..(at - 1) : ~EndsValue(code, m, v)
     /\ at = LineEnd \/ code[at] \notin {Semicolon, "\\"} \/ ~IsEscaped(code, at, v)

Parsing ==
  /\ mode \in {"start", "blanks"} => Ahead(at)
  /\ mode = "blanks" => at = LineEnd \/ code[at] \notin Blanks
  /\ mode = "rest" => Settled(LineEnd)
  /\ mode \in Opened => InOption
  /\ mode = "key" => InKey
  /\ mode = "gap" => InGap
  /\ mode = "first" => InFirst
  /\ mode = "value" => InValue

\* Where the next option can begin at the earliest.
Frontier ==
  IF pc = "next" THEN from
  ELSE IF pc = "parse" /\ mode \in Opened THEN option.idx ELSE at

\* The options do not overlap: they are read and pushed in their order.
InOrder ==
  /\ \A key \in DOMAIN result : \A m, n \in DOMAIN result[key] :
       m < n => result[key][m].idx + result[key][m].size <= result[key][n].idx
  /\ \A o, q \in Reported : o # q => o.idx + o.size <= q.idx \/ q.idx + q.size <= o.idx
  /\ \A m, n \in DOMAIN options : m < n => options[m].idx + options[m].size <= options[n].idx
  /\ \A o \in Reported : \A n \in DOMAIN options : o.idx + o.size <= options[n].idx
  /\ pc \in {"next", "parse", "push"} =>
       /\ \A o \in Reported : o.idx + o.size <= Frontier
       /\ \A n \in DOMAIN options : options[n].idx + options[n].size <= Frontier

LinesInv ==
  /\ LinesTypeOK
  /\ pc = "next" =>
       /\ options = << >>
       /\ from = 1 \/ code[from - 1] \in LineEnds
       /\ Settled(from)
  /\ pc \in {"parse", "push"} => InLine
  /\ pc = "parse" => Parsing
  /\ pc = "push" => at = LineEnd /\ Settled(LineEnd)
  /\ pc = "done" => options = << >> /\ Settled(Len(code) + 1)
  /\ pc = "threw" => Broken(code) # {}
  /\ InOrder

\* Which tokens are shifted.
LEMMA ShiftsFact ==
  /\ Shifts("start") = Kinds /\ Shifts("value") = Kinds /\ Shifts("rest") = Kinds
  /\ Shifts("blanks") = Kinds \ {"blanks"}
  /\ Shifts("key") = {"letters"} /\ Shifts("gap") = {"blanks"}
  /\ Shifts("first") = {"letters", "other", "escape", "blank_escape"}
<1>1. Shifts("start") = Kinds
  BY Zenon DEF Shifts, Kinds
<1>2. Shifts("value") = Kinds
  BY Zenon DEF Shifts, Kinds
<1>3. Shifts("rest") = Kinds
  BY Zenon DEF Shifts, Kinds
<1>4. Shifts("blanks") = {"%", "escape", "blank_escape", Semicolon, "letters", "other"}
  BY Zenon DEF Shifts
<1>5. Shifts("key") = {"letters"}
  BY Zenon DEF Shifts
<1>6. Shifts("gap") = {"blanks"}
  BY Zenon DEF Shifts
<1>7. Shifts("first") = {"letters", "other", "escape", "blank_escape"}
  BY Zenon DEF Shifts
<1>8. Shifts("blanks") = Kinds \ {"blanks"}
  BY <1>4, SemicolonFact DEF Kinds
<1> QED BY <1>1, <1>2, <1>3, <1>5, <1>6, <1>7, <1>8

\* A token that is shifted is one of the line.
LEMMA ShiftsKinds ==
  ASSUME mode \in Modes
  PROVE  Shifts(mode) \subseteq Kinds /\ "eof" \notin Shifts(mode)
<1>1. "eof" \notin Kinds
  BY SemicolonFact DEF Kinds
<1>2. {"letters", "other", "escape", "blank_escape", "blanks"} \subseteq Kinds
  BY DEF Kinds
<1> QED BY <1>1, <1>2, ShiftsFact DEF Modes

\* What shifting a token leaves alone, and how far it goes.
LEMMA ShiftFact ==
  ASSUME LinesInv, NEW m \in Modes, NEW o \in ScriptOption, Shift(m, o)
  PROVE  /\ pc = "parse" /\ pc' = "parse" /\ Kind \in Shifts(mode) /\ Kind = Token(at).kind
         /\ at \in Nat /\ LineEnd \in Nat /\ line.start \in Nat /\ 1 <= line.start
         /\ line.start <= at /\ at < LineEnd
         /\ at' = at + Token(at).len /\ at' \in Nat /\ at < at' /\ at' <= LineEnd
         /\ code' = code /\ line' = line /\ LineEnd' = LineEnd /\ from' = from
         /\ mode' = m /\ option' = o /\ result' = result /\ Reported' = Reported
         /\ IsLine(code, line.start, LineEnd) /\ Parsing /\ InLine'
<1>1. /\ pc = "parse" /\ Kind \in Shifts(mode) /\ at' = at + Token(at).len
      /\ code' = code /\ pc' = pc /\ line' = line /\ from' = from
      /\ mode' = m /\ option' = o /\ result' = result
  BY DEF Shift
<1>2. InLine /\ Parsing /\ LinesTypeOK
  BY <1>1 DEF LinesInv
<1>3. /\ LineEnd \in Nat /\ at \in Nat /\ line.start \in Nat /\ 1 <= line.start
      /\ line.start <= at /\ at <= LineEnd
  BY <1>2 DEF InLine, IsLine, LinesTypeOK
<1>4. at < LineEnd /\ Kind = Token(at).kind
  <2>1. mode \in Modes
    BY <1>2 DEF LinesTypeOK
  <2>2. Kind # "eof"
    BY <1>1, <2>1, ShiftsKinds
  <2> QED BY <2>2, <1>3 DEF Kind
<1>5. at' \in Nat /\ at < at' /\ at' <= LineEnd
  <2>1. Token(at).len \in Nat /\ Token(at).len >= 1 /\ at + Token(at).len <= LineEnd
    BY <1>3, <1>4, TokenFact
  <2> QED BY <1>1, <1>3, <2>1
<1>6. LineEnd' = LineEnd
  BY <1>1 DEF LineEnd
<1>7. Reported' = Reported
  BY <1>1 DEF Reported
<1>8. InLine'
  <2>1. IsLine(code', line'.start, LineEnd')
    BY <1>1, <1>2, <1>6 DEF InLine
  <2>2. line'.start <= at' /\ at' <= LineEnd'
    BY <1>1, <1>3, <1>5, <1>6
  <2>3. line'.last \in Nat /\ line'.last <= Len(code')
    BY <1>1, <1>2 DEF InLine
  <2> QED BY <2>1, <2>2, <2>3 DEF InLine
<1>9. IsLine(code, line.start, LineEnd)
  BY <1>2 DEF InLine
<1> QED BY <1>1, <1>2, <1>3, <1>4, <1>5, <1>6, <1>7, <1>8, <1>9

\* Options and what is reported of them are records of the script's positions.
LEMMA OptionNumbers ==
  ASSUME LinesTypeOK
  PROVE  /\ \A o \in Reported : o \in ScriptOption /\ o.idx \in Nat /\ o.size \in Nat
         /\ \A n \in DOMAIN options : /\ options[n] \in ScriptOption
                                      /\ options[n].idx \in Nat /\ options[n].size \in Nat
<1>1. ASSUME NEW o \in ScriptOption
      PROVE  o.idx \in Nat /\ o.size \in Nat
  BY DEF ScriptOption
<1>2. ASSUME NEW o \in Reported
      PROVE  o \in ScriptOption
  BY DEF Reported, LinesTypeOK
<1>3. ASSUME NEW n \in DOMAIN options
      PROVE  options[n] \in ScriptOption
  BY DEF LinesTypeOK
<1> QED BY <1>1, <1>2, <1>3

\* The order stays as long as no option is read or pushed.
LEMMA OrderStays ==
  ASSUME LinesTypeOK, InOrder, pc \in {"next", "parse", "push"},
         result' = result, options' = options,
         Frontier \in Nat,
         pc' \in {"next", "parse", "push"} => Frontier' \in Nat /\ Frontier <= Frontier'
  PROVE  InOrder'
<1>1. Reported' = Reported
  BY DEF Reported
<1>2. /\ \A o \in Reported : o.idx \in Nat /\ o.size \in Nat
      /\ \A n \in DOMAIN options : options[n].idx \in Nat /\ options[n].size \in Nat
  BY OptionNumbers
<1>3. ASSUME pc' \in {"next", "parse", "push"}, NEW o \in Reported
      PROVE  o.idx + o.size <= Frontier'
  <2>1. o.idx \in Nat /\ o.size \in Nat /\ o.idx + o.size <= Frontier
    BY <1>2 DEF InOrder
  <2> QED BY <1>3, <2>1
<1>4. ASSUME pc' \in {"next", "parse", "push"}, NEW n \in DOMAIN options
      PROVE  options[n].idx + options[n].size <= Frontier'
  <2>1. /\ options[n].idx \in Nat /\ options[n].size \in Nat
        /\ options[n].idx + options[n].size <= Frontier
    BY <1>2 DEF InOrder
  <2> QED BY <1>4, <2>1
<1> QED BY <1>1, <1>3, <1>4 DEF InOrder

\* A token that ends no option keeps the invariant if the parser is then where
\* its mode says.
LEMMA ShiftKeeps ==
  ASSUME LinesInv, NEW m \in Modes, NEW o \in ScriptOption, Shift(m, o), options' = options,
         Parsing', Frontier <= Frontier', Frontier \in Nat, Frontier' \in Nat
  PROVE  LinesInv'
<1>1. /\ pc = "parse" /\ pc' = "parse" /\ at' \in Nat /\ code' = code /\ from' = from
      /\ mode' = m /\ option' = o /\ result' = result /\ Reported' = Reported /\ InLine'
  BY ShiftFact
<1>2. LinesTypeOK /\ InOrder
  BY DEF LinesInv
<1>3. LinesTypeOK'
  BY <1>1, <1>2 DEF LinesTypeOK
<1>4. InOrder'
  BY <1>1, <1>2, OrderStays
<1> QED BY <1>1, <1>3, <1>4 DEF LinesInv

\* The option that the parser reads is a record with a position.
LEMMA OptionStays ==
  ASSUME LinesInv
  PROVE  option \in ScriptOption /\ option.idx \in Nat
BY DEF LinesInv, LinesTypeOK, ScriptOption

\* White space at the start of a line leaves the way to an option free.
LEMMA ReadBlanksKeeps ==
  ASSUME LinesInv, ReadBlanks
  PROVE  LinesInv'
<1>1. mode = "start" /\ Kind = "blanks" /\ Shift("blanks", option) /\ options' = options
  BY DEF ReadBlanks
<1>2. "blanks" \in Modes /\ option \in ScriptOption
  BY OptionStays DEF Modes
<1>3. /\ pc = "parse" /\ pc' = "parse" /\ Kind = Token(at).kind
      /\ at \in Nat /\ LineEnd \in Nat /\ line.start \in Nat
      /\ line.start <= at /\ at < LineEnd
      /\ at' = at + Token(at).len /\ at' \in Nat /\ at < at' /\ at' <= LineEnd
      /\ code' = code /\ line' = line /\ LineEnd' = LineEnd
      /\ mode' = "blanks" /\ Reported' = Reported /\ Parsing
  BY <1>1, <1>2, ShiftFact
<1>4. code \in Seq(STRING)
  BY DEF LinesInv, LinesTypeOK
<1>5. Ahead(at)
  BY <1>1, <1>3 DEF Parsing
<1>6. /\ \A i \in at..(at' - 1) : code[i] \in Blanks
      /\ at' = LineEnd \/ code[at'] \notin Blanks
  BY <1>1, <1>3, TokenFact
<1>7. LeadsFrom(code, line.start, at')
  <2>1. LeadsFrom(code, line.start, at) /\ at <= at'
    BY <1>3, <1>5 DEF Ahead
  <2> QED BY <2>1, <1>3, <1>4, <1>6, LeadsOn
<1>8. /\ Before(code, at') = Before(code, at)
      /\ (\A i \in Broken(code) : i >= at) => \A i \in Broken(code) : i >= at'
  <2>1. \A i \in at..(at' - 1) : i \in DOMAIN code /\ code[i] = "%" => ~Leads(code, i)
    BY <1>6, CharactersAssumption
  <2>2. at <= at'
    BY <1>3
  <2> QED BY <1>3, <1>4, <2>1, <2>2, SettledOn
<1>9. Found' = Found
  BY <1>1, <1>3 DEF Found
<1>10. Ahead(at)'
  <2>1. LeadsFrom(code', line'.start, at')
    BY <1>3, <1>7
  <2>2. Found' = Before(code', at') /\ \A i \in Broken(code') : i >= at'
    BY <1>3, <1>5, <1>8, <1>9 DEF Ahead, Settled
  <2> QED BY <2>1, <2>2 DEF Ahead, Settled
<1>11. Parsing'
  BY <1>3, <1>6, <1>10 DEF Parsing, Opened
<1>12. Frontier = at /\ Frontier' = at'
  BY <1>1, <1>3 DEF Frontier, Opened
<1>13. Frontier <= Frontier' /\ Frontier \in Nat /\ Frontier' \in Nat
  BY <1>3, <1>12
<1> QED BY <1>1, <1>2, <1>11, <1>13, ShiftKeeps

\* Anything else at the start of a line hides what follows it in the line.
LEMMA ReadRestKeeps ==
  ASSUME LinesInv, ReadRest
  PROVE  LinesInv'
<1>1. /\ Shift("rest", option) /\ options' = options
      /\ \/ mode = "start" /\ Kind \notin {"%", "blanks"}
         \/ mode = "blanks" /\ Kind # "%"
         \/ mode = "rest"
  BY DEF ReadRest
<1>2. "rest" \in Modes /\ option \in ScriptOption
  BY OptionStays DEF Modes
<1>3. /\ pc = "parse" /\ pc' = "parse" /\ Kind = Token(at).kind
      /\ at \in Nat /\ LineEnd \in Nat /\ line.start \in Nat
      /\ line.start <= at /\ at < LineEnd
      /\ at' \in Nat /\ at < at' /\ at' <= LineEnd
      /\ code' = code /\ line' = line /\ LineEnd' = LineEnd
      /\ mode' = "rest" /\ Reported' = Reported /\ Parsing
      /\ IsLine(code, line.start, LineEnd)
  BY <1>1, <1>2, ShiftFact
<1>4. code \in Seq(STRING)
  BY DEF LinesInv, LinesTypeOK
<1>5. Settled(LineEnd)
  <2>1. CASE mode = "rest"
    BY <2>1, <1>3 DEF Parsing
  <2>2. CASE mode # "rest"
    <3>1. Ahead(at)
      BY <1>1, <1>3, <2>2 DEF Parsing
    <3>2. code[at] # "%" /\ code[at] \notin Blanks
      <4>1. (Kind = "%" <=> code[at] = "%") /\ (Kind = "blanks" <=> code[at] \in Blanks)
        BY <1>3, TokenFact
      <4>2. mode = "blanks" => code[at] \notin Blanks
        BY <1>3 DEF Parsing
      <4> QED BY <1>1, <2>2, <4>1, <4>2
    <3>3. ASSUME NEW m \in at..(LineEnd - 1), code[m] = "%"
          PROVE  ~Leads(code, m)
      <4>1. m \in (at + 1)..(LineEnd - 1)
        BY <1>3, <3>2, <3>3
      <4>2. \A o \in AllOptions(code) : o[1] = at => m <= o[2]
        BY <1>4, <3>2, OptionFact
      <4>3. at \in line.start..(LineEnd - 1) /\ LeadsFrom(code, line.start, at)
        BY <1>3, <3>1 DEF Ahead
      <4> QED BY <1>3, <1>4, <3>2, <4>1, <4>2, <4>3, NothingLeads
    <3>4. /\ Before(code, LineEnd) = Before(code, at)
          /\ (\A i \in Broken(code) : i >= at) => \A i \in Broken(code) : i >= LineEnd
      <4>1. at <= LineEnd
        BY <1>3
      <4> QED BY <1>3, <1>4, <3>3, <4>1, SettledOn
    <3> QED BY <3>1, <3>4 DEF Ahead, Settled
  <2> QED BY <2>1, <2>2
<1>6. Found' = Found
  BY <1>1, <1>3 DEF Found
<1>7. Settled(LineEnd)'
  BY <1>3, <1>5, <1>6 DEF Settled
<1>8. Parsing'
  BY <1>3, <1>7 DEF Parsing, Opened
<1>9. Frontier = at /\ Frontier' = at'
  BY <1>1, <1>3 DEF Frontier, Opened
<1>10. Frontier <= Frontier' /\ Frontier \in Nat /\ Frontier' \in Nat
  BY <1>3, <1>9
<1> QED BY <1>1, <1>2, <1>8, <1>10, ShiftKeeps

\* "%" opens an option that leads.
LEMMA BeginOptionKeeps ==
  ASSUME LinesInv, BeginOption
  PROVE  LinesInv'
<1> DEFINE o == [NoOption EXCEPT !.idx = at]
<1>1. /\ mode \in {"start", "blanks"} /\ Kind = "%"
      /\ Shift("key", o) /\ options' = options
  BY DEF BeginOption
<1>2. "key" \in Modes /\ o \in ScriptOption /\ o.idx = at
  <2>1. at \in Nat
    BY DEF LinesInv, LinesTypeOK
  <2>2. o = [key |-> << >>, value |-> << >>, idx |-> at, size |-> 0]
    BY DEF NoOption
  <2>3. << >> \in Seq(STRING) /\ << >> \in Seq(Chars)
    OBVIOUS
  <2>4. [key |-> << >>, value |-> << >>, idx |-> at, size |-> 0] \in ScriptOption
    BY <2>1, <2>3 DEF ScriptOption
  <2> QED BY <2>2, <2>4 DEF Modes
<1> HIDE DEF o
<1>3. /\ pc = "parse" /\ pc' = "parse" /\ Kind = Token(at).kind
      /\ at \in Nat /\ LineEnd \in Nat /\ line.start \in Nat
      /\ line.start <= at /\ at < LineEnd
      /\ at' = at + Token(at).len /\ at' \in Nat /\ at < at' /\ at' <= LineEnd
      /\ code' = code /\ line' = line /\ LineEnd' = LineEnd
      /\ mode' = "key" /\ option' = o /\ Reported' = Reported /\ Parsing
  BY <1>1, <1>2, ShiftFact
<1>4. Ahead(at)
  BY <1>1, <1>3 DEF Parsing
<1>5. code[at] = "%" /\ Token(at).len = 1
  BY <1>1, <1>3, TokenFact
<1>6. Found' = Found
  BY <1>1, <1>3 DEF Found
<1>7. Ahead(option.idx)'
  BY <1>2, <1>3, <1>4, <1>6 DEF Ahead, Settled
<1>8. InOption' /\ InKey'
  BY <1>2, <1>3, <1>5, <1>7 DEF InOption, InKey
<1>9. Parsing'
  BY <1>3, <1>8 DEF Parsing
<1>10. Frontier = at /\ Frontier' = at
  BY <1>1, <1>2, <1>3 DEF Frontier, Opened
<1>11. Frontier <= Frontier' /\ Frontier \in Nat /\ Frontier' \in Nat
  BY <1>3, <1>10
<1> QED BY <1>1, <1>2, <1>9, <1>11, ShiftKeeps

\* The text of a token, and what an escape stands for, is text.
LEMMA TokenText ==
  ASSUME LinesInv, at < LineEnd, LineEnd <= Len(code) + 1, LineEnd \in Nat, 1 <= at
  PROVE  /\ Text \in Seq(STRING) /\ Text \in Seq(Chars) /\ Len(Text) = Token(at).len
         /\ Token(at).len \in Nat /\ \A i \in 1..Token(at).len : Text[i] = code[(at + i) - 1]
<1>1. code \in Seq(STRING) /\ at \in Nat
  BY DEF LinesInv, LinesTypeOK
<1>2. PICK n : n = Token(at).len
  OBVIOUS
<1>3. n \in Nat /\ n >= 1 /\ at + n <= LineEnd
  BY <1>1, <1>2, TokenFact
<1>4. Text = SubSeq(code, at, (at + n) - 1)
  BY <1>1, <1>2, <1>3 DEF Text
<1>5. /\ SubSeq(code, at, (at + n) - 1) \in Seq(STRING)
      /\ Len(SubSeq(code, at, (at + n) - 1)) = n
  BY <1>1, <1>3
<1>6. \A i \in 1..n : SubSeq(code, at, (at + n) - 1)[i] = code[(at + i) - 1]
  BY <1>1, <1>3
<1>8. STRING \subseteq Chars
  BY DEF Chars
<1>9. Text \in Seq(Chars)
  BY <1>4, <1>5, <1>8, SeqMonotonic, Zenon
<1> QED BY <1>2, <1>3, <1>4, <1>5, <1>6, <1>9

\* An escape stands for one character.
LEMMA UnescapedText ==
  ASSUME NEW t \in Seq(STRING), Len(t) = 2
  PROVE  Unescape(t) \in Seq(Chars) /\ Len(Unescape(t)) = 1
<1>1. PICK c : c = IF t[2] \in DOMAIN Controls THEN Controls[t[2]] ELSE t[2]
  OBVIOUS
<1>2. c \in Chars
  <2>1. t[2] \in STRING
    OBVIOUS
  <2>2. \A x \in DOMAIN Controls : Controls[x] \in Chars
    BY DEF Controls, Chars
  <2> QED BY <1>1, <2>1, <2>2 DEF Chars
<1>3. Unescape(t) = <<c>>
  BY <1>1 DEF Unescape
<1>4. ASSUME NEW S, NEW x \in S
      PROVE  <<x>> \in Seq(S) /\ Len(<<x>>) = 1
  OBVIOUS
<1> QED BY <1>2, <1>3, <1>4, Zenon

\* A token inside an option: what precedes the option stays as it is.
LEMMA ShiftInOption ==
  ASSUME LinesInv, pc = "parse", mode \in Opened, NEW m \in Opened \ {"key"},
         NEW o \in ScriptOption, o.idx = option.idx, Shift(m, o), options' = options,
         m = "gap" => InGap', m = "first" => InFirst', m = "value" => InValue'
  PROVE  LinesInv'
<1>1. m \in Modes
  BY DEF Opened, Modes
<1>2. option.idx \in Nat
  BY OptionStays
<1>3. /\ pc' = "parse" /\ at \in Nat /\ at' \in Nat /\ at < at'
      /\ code' = code /\ line' = line /\ mode' = m /\ option' = o /\ Reported' = Reported
  BY <1>1, ShiftFact
<1>4. InOption
  <2>1. Parsing
    BY DEF LinesInv
  <2> QED BY <2>1 DEF Parsing
<1>5. Found' = Found
  BY <1>3 DEF Found
<1>6. InOption'
  <2>1. line'.start <= option'.idx /\ option'.idx < at'
    BY <1>2, <1>3, <1>4 DEF InOption
  <2>2. code'[option'.idx] = "%"
    BY <1>3, <1>4 DEF InOption
  <2>3. Ahead(option.idx)'
    BY <1>3, <1>4, <1>5 DEF InOption, Ahead, Settled
  <2> QED BY <2>1, <2>2, <2>3 DEF InOption
<1>7. Parsing'
  BY <1>3, <1>6 DEF Parsing, Opened
<1>8. Frontier = option.idx /\ Frontier' = option.idx
  BY <1>3 DEF Frontier
<1>9. Frontier <= Frontier' /\ Frontier \in Nat /\ Frontier' \in Nat
  BY <1>2, <1>8
<1> QED BY <1>1, <1>7, <1>9, ShiftKeeps

\* Where a token in an option begins.
LEMMA TokenPlace ==
  ASSUME LinesInv, pc = "parse", Kind # "eof"
  PROVE  /\ LineEnd \in Nat /\ LineEnd <= Len(code) + 1 /\ 1 <= at /\ at < LineEnd /\ at \in Nat
         /\ code \in Seq(STRING) /\ IsLine(code, line.start, LineEnd) /\ Parsing
         /\ line.start \in Nat /\ 1 <= line.start /\ line.start <= at
         /\ Kind = Token(at).kind
<1>1. InLine /\ Parsing /\ at \in Nat /\ code \in Seq(STRING)
  BY DEF LinesInv, LinesTypeOK
<1> QED BY <1>1 DEF InLine, IsLine, Kind

\* The letters behind "%" are the whole key.
LEMMA ReadKeyKeeps ==
  ASSUME LinesInv, ReadKey
  PROVE  LinesInv'
<1> DEFINE o == [option EXCEPT !.key = Text]
<1>1. mode = "key" /\ Shift("gap", o) /\ options' = options
  BY DEF ReadKey
<1>2. option \in ScriptOption /\ option.idx \in Nat
  BY OptionStays
<1>3. pc = "parse" /\ Kind = "letters"
  <2>1. pc = "parse" /\ Kind \in Shifts(mode)
    BY <1>1 DEF Shift
  <2> QED BY <2>1, <1>1, ShiftsFact
<1>4. /\ LineEnd \in Nat /\ LineEnd <= Len(code) + 1 /\ 1 <= at /\ at < LineEnd
      /\ Kind = Token(at).kind /\ Parsing
  BY <1>3, TokenPlace
<1>5. "gap" \in Modes /\ "gap" \in Opened \ {"key"} /\ mode \in Opened
  BY <1>1 DEF Modes, Opened
<1>6. o \in ScriptOption /\ o.idx = option.idx
  <2>1. Text \in Seq(STRING)
    BY <1>4, TokenText
  <2> QED BY <1>2, <2>1 DEF ScriptOption
<1> HIDE DEF o
<1>7. /\ at \in Nat /\ at' = at + Token(at).len /\ at' \in Nat /\ at < at' /\ at' <= LineEnd
      /\ code' = code /\ LineEnd' = LineEnd /\ option' = o
  BY <1>1, <1>5, <1>6, ShiftFact
<1>8. at = option.idx + 1
  BY <1>1, <1>4 DEF Parsing, InKey
<1>9. /\ \A i \in at..(at' - 1) : code[i] \in Letters
      /\ at' = LineEnd \/ code[at'] \notin Letters
  BY <1>3, <1>4, <1>7, TokenFact
<1>10. InGap'
  <2>1. option'.idx + 1 < at'
    BY <1>2, <1>6, <1>7, <1>8
  <2>2. \A m \in (option'.idx + 1)..(at' - 1) : code'[m] \in Letters
    BY <1>6, <1>7, <1>8, <1>9
  <2>3. at' = LineEnd' \/ code'[at'] \notin Letters
    BY <1>7, <1>9
  <2> QED BY <2>1, <2>2, <2>3 DEF InGap
<1> QED BY <1>1, <1>3, <1>5, <1>6, <1>10, ShiftInOption

\* The white space behind the key ends where a value could start.
LEMMA ReadGapKeeps ==
  ASSUME LinesInv, ReadGap
  PROVE  LinesInv'
<1>1. mode = "gap" /\ Shift("first", option) /\ options' = options
  BY DEF ReadGap
<1>2. option \in ScriptOption /\ option.idx \in Nat
  BY OptionStays
<1>3. pc = "parse" /\ Kind = "blanks"
  <2>1. pc = "parse" /\ Kind \in Shifts(mode)
    BY <1>1 DEF Shift
  <2> QED BY <2>1, <1>1, ShiftsFact
<1>4. /\ LineEnd \in Nat /\ at < LineEnd /\ Kind = Token(at).kind /\ Parsing
  BY <1>3, TokenPlace
<1>5. "first" \in Modes /\ "first" \in Opened \ {"key"} /\ mode \in Opened
  BY <1>1 DEF Modes, Opened
<1>6. /\ at \in Nat /\ at' = at + Token(at).len /\ at' \in Nat /\ at < at' /\ at' <= LineEnd
      /\ code' = code /\ LineEnd' = LineEnd /\ option' = option
  BY <1>1, <1>2, <1>5, ShiftFact
<1>7. InGap
  BY <1>1, <1>4 DEF Parsing
<1>8. /\ \A i \in at..(at' - 1) : code[i] \in Blanks
      /\ at' = LineEnd \/ code[at'] \notin Blanks
  BY <1>3, <1>4, <1>6, TokenFact
<1>9. InFirst'
  <2>1. PICK k : k = at - 1
    OBVIOUS
  <2>2. k \in (option.idx + 1)..(at' - 2) /\ k + 1 = at
    BY <1>2, <1>6, <1>7, <2>1 DEF InGap
  <2>3. \A m \in (option.idx + 1)..k : code[m] \in Letters
    BY <1>7, <2>1 DEF InGap
  <2>4. \A m \in (k + 1)..(at' - 1) : code[m] \in Blanks
    BY <1>8, <2>2
  <2>5. at' = LineEnd' \/ code'[at'] \notin Blanks
    BY <1>6, <1>8
  <2> QED BY <1>6, <2>2, <2>3, <2>4, <2>5 DEF InFirst
<1> QED BY <1>1, <1>2, <1>3, <1>5, <1>9, ShiftInOption

\* A token of a value, the first one or a later one, does not reach beyond the
\* end of the value, and no escape is cut in two.
LEMMA ValueToken ==
  ASSUME LinesInv, pc = "parse", Kind # "eof", Kind # Semicolon,
         NEW v \in Nat, v <= at, NEW n, n = at + Token(at).len,
         code[at] \notin {Semicolon, "\\"} \/ ~IsEscaped(code, at, v)
  PROVE  /\ \A m \in at..(n - 1) : ~EndsValue(code, m, v)
         /\ n = LineEnd \/ code[n] \notin {Semicolon, "\\"} \/ ~IsEscaped(code, n, v)
<1>1. /\ LineEnd \in Nat /\ at < LineEnd /\ at \in Nat
      /\ IsLine(code, line.start, LineEnd)
      /\ line.start \in Nat /\ line.start <= at /\ Kind = Token(at).kind
  BY TokenPlace
<1>2. n \in Nat /\ at < n /\ n <= LineEnd
  <2>1. Token(at).len \in Nat /\ Token(at).len >= 1 /\ at + Token(at).len <= LineEnd
    BY <1>1, TokenFact
  <2> QED BY <1>1, <2>1
<1>3. ASSUME NEW m \in at..(n - 1)
      PROVE  code[m] \notin LineEnds
  <2>1. m \in line.start..(LineEnd - 1)
    BY <1>1, <1>2
  <2> QED BY <1>1, <2>1 DEF IsLine
<1>4. CASE Kind \in {"blanks", "letters"}
  <2>1. \A m \in at..(n - 1) : code[m] \in Blanks \cup Letters
    BY <1>1, <1>4, TokenFact
  <2>2. \A m \in at..(n - 1) : code[m] # Semicolon /\ code[m] # "\\"
    BY <2>1, CharactersAssumption
  <2>3. ~IsEscaped(code, n, v)
    <3>1. code[n - 1] # "\\" /\ v <= n
      BY <1>1, <1>2, <2>2
    <3> QED BY <1>2, <3>1, NotEscaped
  <2> QED BY <1>3, <2>2, <2>3 DEF EndsValue
<1>5. CASE Kind = "%"
  <2>1. code[at] = "%" /\ n = at + 1
    BY <1>1, <1>5, TokenFact
  <2>2. ~IsEscaped(code, n, v)
    <3>1. code[n - 1] # "\\" /\ v <= n
      BY <1>1, <2>1
    <3> QED BY <1>2, <3>1, NotEscaped
  <2>3. \A m \in at..(n - 1) : m = at
    BY <1>1, <2>1
  <2> QED BY <1>3, <2>1, <2>2, <2>3, SemicolonFact DEF EndsValue
<1>6. CASE Kind \in {"escape", "blank_escape"}
  <2>1. n = at + 2 /\ code[at] = "\\" /\ code[at + 1] \in Escaped \cup EscapedBlanks
    BY <1>1, <1>6, TokenFact
  <2>2. IsEscaped(code, at + 1, v)
    BY <1>1, <2>1, EscapedBehind
  <2>3. ~IsEscaped(code, n, v)
    <3>1. CASE code[at + 1] = "\\"
      <4>1. at + 1 \in Nat /\ v <= at + 1 /\ n = (at + 1) + 1
        BY <1>1, <2>1
      <4> QED BY <2>2, <3>1, <4>1, EscapedBehind
    <3>2. CASE code[at + 1] # "\\"
      <4>1. code[n - 1] # "\\" /\ v <= n
        BY <1>1, <2>1, <3>2
      <4> QED BY <1>2, <4>1, NotEscaped
    <3> QED BY <3>1, <3>2
  <2>4. \A m \in at..(n - 1) : m = at \/ m = at + 1
    BY <1>1, <2>1
  <2>5. ASSUME NEW m \in at..(n - 1)
        PROVE  ~EndsValue(code, m, v)
    <3>1. CASE m = at
      BY <1>3, <2>1, <3>1, SemicolonFact DEF EndsValue
    <3>2. CASE m = at + 1
      BY <1>3, <2>2, <3>2 DEF EndsValue
    <3> QED BY <2>4, <3>1, <3>2
  <2> QED BY <2>3, <2>5
<1>7. CASE Kind = "other"
  <2>1. /\ n = at + 1 /\ code[at] # Semicolon
        /\ code[at] # "\\" \/ n = LineEnd \/ code[n] \notin Escaped \cup EscapedBlanks
    BY <1>1, <1>7, TokenFact, SemicolonFact
  <2>2. n = LineEnd \/ code[n] \notin {Semicolon, "\\"} \/ ~IsEscaped(code, n, v)
    <3>1. CASE code[at] # "\\"
      <4>1. code[n - 1] # "\\" /\ v <= n
        BY <1>1, <2>1, <3>1
      <4> QED BY <1>2, <4>1, NotEscaped
    <3>2. CASE code[at] = "\\"
      BY <2>1, <3>2, EscapedAssumption
    <3> QED BY <3>1, <3>2
  <2>3. \A m \in at..(n - 1) : m = at
    BY <1>1, <2>1
  <2> QED BY <1>3, <2>1, <2>2, <2>3 DEF EndsValue
<1> QED
  <2>1. Kind \in Kinds
    BY <1>1, TokenFact
  <2> QED BY <2>1, <1>4, <1>5, <1>6, <1>7 DEF Kinds

\* An escape has two characters.
LEMMA EscapeLength ==
  ASSUME LineEnd \in Nat, at \in Nat, at < LineEnd, Kind = Token(at).kind,
         Kind \in {"escape", "blank_escape"}
  PROVE  /\ Token(at).len = 2
         /\ Kind = "blank_escape" => code[at + 1] \in EscapedBlanks
<1>1. PICK n : n = Token(at).len
  OBVIOUS
<1>2. PICK k : k = Token(at).kind
  OBVIOUS
<1>3. (k = "escape" => n = 2) /\ (k = "blank_escape" => n = 2)
  BY <1>1, <1>2, TokenFact
<1>4. k = "blank_escape" => code[at + 1] \in EscapedBlanks
  BY <1>1, <1>2, TokenFact
<1> QED BY <1>1, <1>2, <1>3, <1>4

\* A value starts with its first token.
LEMMA ValueBegins ==
  ASSUME LinesInv, pc = "parse", mode = "first",
         Kind \in {"letters", "other", "escape", "blank_escape"}
  PROVE  ValueStart(code, option.idx) = at
<1>1. Kind # "eof" /\ Kind # Semicolon /\ Kind # "%" /\ Kind # "blanks"
  BY SemicolonFact
<1>2. /\ LineEnd \in Nat /\ LineEnd <= Len(code) + 1 /\ at < LineEnd /\ at \in Nat
      /\ code \in Seq(STRING) /\ Kind = Token(at).kind /\ Parsing
      /\ IsLine(code, line.start, LineEnd) /\ line.start \in Nat /\ line.start <= at
  BY <1>1, TokenPlace
<1>3. option.idx \in Nat /\ InFirst
  BY <1>2, OptionStays DEF Parsing
<1>4. PICK k \in (option.idx + 1)..(at - 2) :
        /\ \A m \in (option.idx + 1)..k : code[m] \in Letters
        /\ \A m \in (k + 1)..(at - 1) : code[m] \in Blanks
  BY <1>3 DEF InFirst
<1>5. at \in (option.idx + 3)..Len(code)
  BY <1>2, <1>3, <1>4
<1>6. code[at] \notin Blanks \cup LineEnds \cup {"%", Semicolon}
  <2>1. /\ Kind = "%" <=> code[at] = "%"
        /\ Kind = Semicolon <=> code[at] = Semicolon
        /\ Kind = "blanks" <=> code[at] \in Blanks
    BY <1>2, TokenFact
  <2>2. code[at] \notin LineEnds
    BY <1>2 DEF IsLine
  <2> QED BY <1>1, <2>1, <2>2
<1>7. StartsValue(code, option.idx, at)
  BY <1>4, <1>6 DEF StartsValue
<1> QED BY <1>2, <1>3, <1>5, <1>7, ValueStartFact

\* The first token of a value begins where the value starts.
LEMMA BeginValueKeeps ==
  ASSUME LinesInv, BeginValue
  PROVE  LinesInv'
<1> DEFINE o == [option EXCEPT !.value =
                   IF Kind \in {"escape", "blank_escape"} THEN Unescape(Text) ELSE Text]
<1>1. mode = "first" /\ Shift("value", o) /\ options' = options
  BY DEF BeginValue
<1> HIDE DEF o
<1>2. option \in ScriptOption /\ option.idx \in Nat
  BY OptionStays
<1>3. pc = "parse" /\ Kind \in {"letters", "other", "escape", "blank_escape"}
  <2>1. pc = "parse" /\ Kind \in Shifts(mode)
    BY <1>1 DEF Shift
  <2> QED BY <2>1, <1>1, ShiftsFact
<1>e. Kind # "eof" /\ Kind # Semicolon /\ Kind # "%" /\ Kind # "blanks"
  BY <1>3, SemicolonFact
<1>4. /\ LineEnd \in Nat /\ LineEnd <= Len(code) + 1 /\ 1 <= at /\ at < LineEnd /\ at \in Nat
      /\ code \in Seq(STRING) /\ Kind = Token(at).kind /\ Parsing
      /\ IsLine(code, line.start, LineEnd) /\ line.start \in Nat /\ line.start <= at
  BY <1>3, <1>e, TokenPlace
<1>5. "value" \in Modes /\ "value" \in Opened \ {"key"} /\ mode \in Opened
  BY <1>1 DEF Modes, Opened
<1>6. o \in ScriptOption /\ o.idx = option.idx
  <2>1. Text \in Seq(STRING) /\ Text \in Seq(Chars) /\ Len(Text) = Token(at).len
    BY <1>4, TokenText
  <2>2. Kind \in {"escape", "blank_escape"} => Unescape(Text) \in Seq(Chars)
    <3>1. Kind \in {"escape", "blank_escape"} => Token(at).len = 2
      BY <1>4, EscapeLength
    <3> QED BY <2>1, <3>1, UnescapedText
  <2>3. PICK val : val = IF Kind \in {"escape", "blank_escape"} THEN Unescape(Text) ELSE Text
    OBVIOUS
  <2>4. val \in Seq(Chars)
    BY <2>1, <2>2, <2>3
  <2>5. o = [option EXCEPT !.value = val]
    BY <2>3 DEF o
  <2> QED BY <1>2, <2>4, <2>5 DEF ScriptOption
<1>7. /\ at' = at + Token(at).len /\ at' \in Nat /\ at < at' /\ at' <= LineEnd
      /\ code' = code /\ LineEnd' = LineEnd /\ option' = o
  BY <1>1, <1>5, <1>6, ShiftFact
<1>9. ValueStart(code, option.idx) = at
  BY <1>1, <1>3, ValueBegins
<1>10. InValue'
  <2>1. ~IsEscaped(code, at, at)
    BY <1>4, NotEscaped
  <2>2. /\ \A m \in at..(at' - 1) : ~EndsValue(code, m, at)
        /\ at' = LineEnd \/ code[at'] \notin {Semicolon, "\\"} \/ ~IsEscaped(code, at', at)
    <3>1. at <= at
      BY <1>4
    <3> QED BY <1>3, <1>e, <1>4, <1>7, <2>1, <3>1, ValueToken
  <2>3. ValueStart(code', option'.idx) = at /\ at # 0
    BY <1>4, <1>6, <1>7, <1>9
  <2> QED BY <1>7, <2>2, <2>3 DEF InValue
<1> QED BY <1>1, <1>3, <1>5, <1>6, <1>10, ShiftInOption

\* A later token goes on from there.
LEMMA ExtendValueKeeps ==
  ASSUME LinesInv, ExtendValue
  PROVE  LinesInv'
<1> DEFINE o == [option EXCEPT !.value = @ \o Extends]
<1>1. mode = "value" /\ Kind # Semicolon /\ Shift("value", o) /\ options' = options
  BY DEF ExtendValue
<1> HIDE DEF o
<1>2. option \in ScriptOption /\ option.idx \in Nat
  BY OptionStays
<1>3. pc = "parse" /\ Kind # "eof"
  <2>1. pc = "parse" /\ Kind \in Shifts(mode) /\ mode \in Modes
    BY <1>1 DEF Shift, Modes
  <2> QED BY <2>1, <1>1, ShiftsKinds
<1>4. /\ LineEnd \in Nat /\ LineEnd <= Len(code) + 1 /\ 1 <= at /\ at < LineEnd /\ at \in Nat
      /\ code \in Seq(STRING) /\ Kind = Token(at).kind /\ Parsing
  BY <1>3, TokenPlace
<1>5. "value" \in Modes /\ "value" \in Opened \ {"key"} /\ mode \in Opened
  BY <1>1 DEF Modes, Opened
<1>6. o \in ScriptOption /\ o.idx = option.idx
  <2>1. Text \in Seq(STRING) /\ Text \in Seq(Chars) /\ Len(Text) = Token(at).len
    BY <1>4, TokenText
  <2>2. Kind = "escape" => Unescape(Text) \in Seq(Chars)
    <3>1. Kind = "escape" => Token(at).len = 2
      BY <1>4, EscapeLength
    <3> QED BY <2>1, <3>1, UnescapedText
  <2>3. Extends \in Seq(Chars)
    BY <2>1, <2>2 DEF Extends
  <2>4. option.value \in Seq(Chars)
    BY <1>2 DEF ScriptOption
  <2>5. ASSUME NEW S, NEW p \in Seq(S), NEW q \in Seq(S) PROVE p \o q \in Seq(S)
    OBVIOUS
  <2>6. PICK val : val = option.value \o Extends
    OBVIOUS
  <2>7. val \in Seq(Chars)
    BY <2>3, <2>4, <2>5, <2>6, Zenon
  <2>8. o = [option EXCEPT !.value = val]
    BY <2>6 DEF o
  <2> QED BY <1>2, <2>7, <2>8 DEF ScriptOption
<1>7. /\ at' = at + Token(at).len /\ at' \in Nat /\ at < at' /\ at' <= LineEnd
      /\ code' = code /\ LineEnd' = LineEnd /\ option' = o
  BY <1>1, <1>5, <1>6, ShiftFact
<1>8. PICK v : v = ValueStart(code, option.idx)
  OBVIOUS
<1>9. /\ v # 0 /\ v < at
      /\ \A m \in v..(at - 1) : ~EndsValue(code, m, v)
      /\ code[at] \notin {Semicolon, "\\"} \/ ~IsEscaped(code, at, v)
  <2>1. InValue
    BY <1>1, <1>4 DEF Parsing
  <2> QED BY <1>4, <1>8, <2>1 DEF InValue
<1>10. v \in Nat /\ v <= at
  <2>1. v \in Nat /\ v < at
    BY <1>2, <1>4, <1>8, <1>9, ValueStartFact
  <2> QED BY <1>4, <2>1
<1>11. InValue'
  <2>1. /\ \A m \in at..(at' - 1) : ~EndsValue(code, m, v)
        /\ at' = LineEnd \/ code[at'] \notin {Semicolon, "\\"} \/ ~IsEscaped(code, at', v)
    BY <1>1, <1>3, <1>7, <1>9, <1>10, ValueToken
  <2>2. ASSUME NEW m \in v..(at' - 1)
        PROVE  ~EndsValue(code, m, v)
    <3>1. m \in v..(at - 1) \/ m \in at..(at' - 1)
      BY <1>4, <1>7, <1>10
    <3> QED BY <1>9, <2>1, <3>1
  <2>3. ValueStart(code', option'.idx) = v /\ v # 0 /\ v < at'
    BY <1>4, <1>6, <1>7, <1>8, <1>9, <1>10
  <2> QED BY <1>7, <2>1, <2>2, <2>3 DEF InValue
<1> QED BY <1>1, <1>3, <1>5, <1>6, <1>11, ShiftInOption

\* An option that begins where the others have ended keeps the order.
LEMMA AppendInOrder ==
  ASSUME LinesTypeOK, InOrder, pc = "parse", pc' = "parse", result' = result,
         NEW q \in ScriptOption, options' = Append(options, q),
         Frontier \in Nat, Frontier' \in Nat, q.idx = Frontier, q.idx + q.size <= Frontier'
  PROVE  InOrder'
<1>1. Reported' = Reported
  BY DEF Reported
<1>2. options \in Seq(ScriptOption)
  BY DEF LinesTypeOK
<1>3. q.idx \in Nat /\ q.size \in Nat
  BY DEF ScriptOption
<1>4. /\ \A o \in Reported : o.idx \in Nat /\ o.size \in Nat
      /\ \A n \in DOMAIN options : options[n].idx \in Nat /\ options[n].size \in Nat
  BY OptionNumbers
<1>5. /\ \A o \in Reported : o.idx + o.size <= q.idx
      /\ \A n \in DOMAIN options : options[n].idx + options[n].size <= q.idx
  BY DEF InOrder
<1>6. PICK k \in Nat : k = Len(options)
  BY <1>2
<1>7. DOMAIN options = 1..k /\ DOMAIN options' = 1..(k + 1)
  BY <1>2, <1>6
<1>8. options'[k + 1] = q /\ \A n \in 1..k : options'[n] = options[n]
  BY <1>2, <1>6
<1>9. q.idx <= Frontier'
  BY <1>3
<1>10. ASSUME NEW n \in DOMAIN options'
       PROVE  \/ n \in DOMAIN options /\ options'[n] = options[n]
              \/ n = k + 1 /\ options'[n] = q
  <2>1. n \in 1..k \/ n = k + 1
    BY <1>7
  <2> QED BY <2>1, <1>7, <1>8
<1>11. ASSUME NEW m \in DOMAIN options', NEW n \in DOMAIN options', m < n
       PROVE  options'[m].idx + options'[m].size <= options'[n].idx
  <2>1. m \in DOMAIN options /\ options'[m] = options[m]
    <3>1. m # k + 1
      BY <1>7, <1>11
    <3> QED BY <1>10, <3>1
  <2>2. CASE n = k + 1 /\ options'[n] = q
    BY <1>5, <2>1, <2>2
  <2>3. CASE n \in DOMAIN options /\ options'[n] = options[n]
    BY <1>11, <2>1, <2>3 DEF InOrder
  <2> QED BY <1>10, <2>2, <2>3
<1>12. ASSUME NEW o \in Reported, NEW n \in DOMAIN options'
       PROVE  o.idx + o.size <= options'[n].idx
  <2>1. CASE n = k + 1 /\ options'[n] = q
    BY <1>5, <2>1
  <2>2. CASE n \in DOMAIN options /\ options'[n] = options[n]
    BY <2>2 DEF InOrder
  <2> QED BY <1>10, <2>1, <2>2
<1>13. ASSUME NEW o \in Reported
       PROVE  o.idx + o.size <= Frontier'
  <2>1. o.idx \in Nat /\ o.size \in Nat /\ o.idx + o.size <= q.idx
    BY <1>4, <1>5
  <2> QED BY <2>1, <1>3, <1>9
<1>14. ASSUME NEW n \in DOMAIN options'
       PROVE  options'[n].idx + options'[n].size <= Frontier'
  <2>1. CASE n = k + 1 /\ options'[n] = q
    BY <2>1
  <2>2. CASE n \in DOMAIN options /\ options'[n] = options[n]
    <3>1. /\ options[n].idx \in Nat /\ options[n].size \in Nat
          /\ options[n].idx + options[n].size <= q.idx
      BY <1>4, <1>5, <2>2
    <3> QED BY <2>2, <3>1, <1>3, <1>9
  <2> QED BY <1>10, <2>1, <2>2
<1>15. /\ \A key \in DOMAIN result' : \A m, n \in DOMAIN result'[key] :
            m < n => result'[key][m].idx + result'[key][m].size <= result'[key][n].idx
       /\ \A o, p \in Reported' : o # p => o.idx + o.size <= p.idx \/ p.idx + p.size <= o.idx
  BY <1>1 DEF InOrder
<1> QED BY <1>1, <1>11, <1>12, <1>13, <1>14, <1>15 DEF InOrder

\* The first ";" that is not escaped ends the option.
LEMMA EndOptionKeeps ==
  ASSUME LinesInv, EndOption
  PROVE  LinesInv'
<1> DEFINE o == [option EXCEPT !.size = at - option.idx + 1]
<1>1. /\ mode = "value" /\ Kind = Semicolon /\ Shift("start", NoOption)
      /\ options' = Append(options, o)
  BY DEF EndOption
<1> HIDE DEF o
<1>2. option \in ScriptOption /\ option.idx \in Nat
  BY OptionStays
<1>3. PICK i : i = option.idx
  OBVIOUS
<1>4. pc = "parse" /\ Kind # "eof" /\ mode \in Opened
  BY <1>1, SemicolonFact DEF Shift, Opened
<1>5. /\ LineEnd \in Nat /\ LineEnd <= Len(code) + 1 /\ 1 <= at /\ at < LineEnd /\ at \in Nat
      /\ code \in Seq(STRING) /\ IsLine(code, line.start, LineEnd) /\ Parsing
      /\ line.start \in Nat /\ 1 <= line.start /\ line.start <= at /\ Kind = Token(at).kind
  BY <1>4, TokenPlace
<1>6. "start" \in Modes /\ NoOption \in ScriptOption
  <2>1. << >> \in Seq(STRING) /\ << >> \in Seq(Chars)
    OBVIOUS
  <2> QED BY <2>1 DEF ScriptOption, NoOption, Modes
<1>7. InOption /\ InValue
  BY <1>1, <1>4, <1>5 DEF Parsing
<1>8. i \in Nat /\ line.start <= i /\ i < at /\ code[i] = "%" /\ Ahead(i)
  BY <1>2, <1>3, <1>7 DEF InOption
<1>9. o \in ScriptOption /\ o.idx = i /\ o.size = (at - i) + 1
  <2>1. PICK z : z = (at - i) + 1
    OBVIOUS
  <2>2. z \in Nat
    BY <1>5, <1>8, <2>1
  <2>3. o = [option EXCEPT !.size = z]
    BY <1>3, <2>1 DEF o
  <2>4. o \in ScriptOption /\ o.idx = i /\ o.size = z
    BY <1>2, <1>3, <2>2, <2>3 DEF ScriptOption
  <2> QED BY <2>1, <2>4
<1>10. code[at] = Semicolon /\ Token(at).len = 1
  BY <1>1, <1>5, TokenFact
<1>11. /\ pc' = "parse" /\ at' = at + 1 /\ at' \in Nat /\ at' <= LineEnd
       /\ code' = code /\ line' = line /\ LineEnd' = LineEnd /\ from' = from
       /\ mode' = "start" /\ option' = NoOption /\ result' = result /\ Reported' = Reported
       /\ InLine'
  BY <1>1, <1>6, <1>10, ShiftFact
<1>12. i \in DOMAIN code /\ at \in DOMAIN code
  BY <1>5, <1>8
<1>13. IsOption(code, i, at)
  <2>1. PICK v : v = ValueStart(code, i)
    OBVIOUS
  <2>2. /\ v # 0 /\ v < at
        /\ \A m \in v..(at - 1) : ~EndsValue(code, m, v)
        /\ at = LineEnd \/ code[at] \notin {Semicolon, "\\"} \/ ~IsEscaped(code, at, v)
    BY <1>3, <1>7, <2>1 DEF InValue
  <2>3. v \in Nat
    BY <1>5, <1>8, <2>1, ValueStartFact
  <2>4. ~IsEscaped(code, at, v)
    BY <1>5, <1>10, <2>2
  <2>5. EndsValue(code, at, v)
    BY <1>10, <2>4 DEF EndsValue
  <2>6. at > v
    BY <1>5, <2>2, <2>3
  <2> QED BY <1>8, <1>10, <2>1, <2>2, <2>5, <2>6 DEF IsOption
<1>14. <<i, at>> \in AllOptions(code)
  BY <1>12, <1>13 DEF AllOptions
<1>15. LeadsFrom(code, line.start, at + 1)
  <2>1. LeadsFrom(code, line.start, i)
    BY <1>8 DEF Ahead
  <2>2. \E q \in AllOptions(code) : q[1] = i /\ q[2] = (at + 1) - 1
    <3>1. <<i, at>>[1] = i /\ <<i, at>>[2] = (at + 1) - 1
      BY <1>5
    <3> QED BY <1>14, <3>1
  <2>3. at + 1 \in Nat /\ i <= at + 1
    BY <1>5, <1>8
  <2> QED BY <1>5, <1>8, <2>1, <2>2, <2>3, LeadsOn
<1>16. /\ Before(code, at + 1) = Before(code, i) \cup {<<i, at>>}
       /\ (\A b \in Broken(code) : b >= i) => \A b \in Broken(code) : b >= at + 1
  <2>1. LeadsFrom(code, line.start, i)
    BY <1>8 DEF Ahead
  <2>2. i \in line.start..(LineEnd - 1) /\ at \in (i + 1)..(LineEnd - 1)
    BY <1>5, <1>8
  <2> QED BY <1>5, <1>14, <2>1, <2>2, SettledByOption
<1>17. Place(o) = <<i, at>>
  <2>1. (o.idx + o.size) - 1 = at
    BY <1>5, <1>8, <1>9
  <2> QED BY <1>9, <2>1 DEF Place
<1>18. LinesTypeOK /\ InOrder /\ options \in Seq(ScriptOption)
  BY DEF LinesInv, LinesTypeOK
<1>19. Found' = Found \cup {<<i, at>>}
  <2>1. PICK k \in Nat : k = Len(options) /\ DOMAIN options = 1..k
    BY <1>18
  <2>2. /\ DOMAIN options' = 1..(k + 1) /\ options'[k + 1] = o
        /\ \A n \in 1..k : options'[n] = options[n]
    BY <1>1, <1>9, <1>18, <2>1
  <2>3. {Place(options'[n]) : n \in DOMAIN options'}
          = {Place(options[n]) : n \in DOMAIN options} \cup {Place(o)}
    <3>1. ASSUME NEW n \in DOMAIN options'
          PROVE  Place(options'[n]) \in {Place(options[m]) : m \in DOMAIN options} \cup {Place(o)}
      <4>1. n \in 1..k \/ n = k + 1
        BY <2>1, <2>2
      <4> QED BY <4>1, <2>1, <2>2
    <3>2. ASSUME NEW n \in DOMAIN options
          PROVE  Place(options[n]) \in {Place(options'[m]) : m \in DOMAIN options'}
      <4>1. n \in DOMAIN options' /\ options'[n] = options[n]
        BY <2>1, <2>2
      <4> QED BY <4>1
    <3>3. Place(o) \in {Place(options'[m]) : m \in DOMAIN options'}
      <4>1. k + 1 \in DOMAIN options'
        BY <2>1, <2>2
      <4> QED BY <4>1, <2>2
    <3> QED BY <3>1, <3>2, <3>3
  <2> QED BY <1>11, <1>17, <2>3 DEF Found, Place
<1>20. Ahead(at)'
  <2>1. LeadsFrom(code', line'.start, at')
    BY <1>11, <1>15
  <2>2. Found = Before(code, i) /\ \A b \in Broken(code) : b >= i
    BY <1>8 DEF Ahead, Settled
  <2>3. Found' = Before(code', at')
    BY <1>11, <1>16, <1>19, <2>2
  <2>4. \A b \in Broken(code') : b >= at'
    BY <1>11, <1>16, <2>2
  <2> QED BY <2>1, <2>3, <2>4 DEF Ahead, Settled
<1>21. Parsing'
  BY <1>11, <1>20 DEF Parsing, Opened
<1>22. LinesTypeOK'
  <2>1. options' \in Seq(ScriptOption)
    BY <1>1, <1>9, <1>18
  <2> QED BY <1>6, <1>11, <1>18, <2>1 DEF LinesTypeOK
<1>23. InOrder'
  <2>1. Frontier = i
    BY <1>3, <1>4 DEF Frontier
  <2>2. Frontier' = at + 1
    BY <1>11 DEF Frontier, Opened
  <2>3. o.idx + o.size <= Frontier' /\ Frontier' \in Nat
    BY <1>5, <1>8, <1>9, <2>2
  <2> QED BY <1>1, <1>4, <1>8, <1>9, <1>11, <1>18, <2>1, <2>3, AppendInOrder
<1> QED BY <1>11, <1>21, <1>22, <1>23 DEF LinesInv

\* There is no token only at the end of the line.
LEMMA EndOfLine ==
  ASSUME LinesInv, pc = "parse", Kind = "eof"
  PROVE  at = LineEnd /\ at \in Nat
<1>1. LineEnd \in Nat /\ at \in Nat /\ at <= LineEnd
  BY DEF LinesInv, LinesTypeOK, InLine, IsLine
<1>2. ~(at < LineEnd)
  <2> SUFFICES ASSUME at < LineEnd PROVE FALSE
    OBVIOUS
  <2>1. Token(at).kind = "eof"
    BY DEF Kind
  <2>2. Token(at).kind \in Kinds
    BY <1>1, TokenFact
  <2> QED BY <2>1, <2>2, SemicolonFact DEF Kinds
<1> QED BY <1>1, <1>2

\* Where the parser has no rule for a token, it is in an option.
LEMMA ErrorInOption ==
  ASSUME LinesInv, SyntaxError
  PROVE  mode \in Opened /\ (mode = "value" => at = LineEnd)
<1>1. /\ pc = "parse" /\ Kind \notin Shifts(mode)
      /\ Kind = "eof" => mode \notin {"start", "blanks", "rest"}
  BY DEF SyntaxError
<1>2. mode \in Modes
  BY DEF LinesInv, LinesTypeOK
<1>3. CASE Kind = "eof"
  BY <1>1, <1>2, <1>3, EndOfLine DEF Modes, Opened
<1>4. CASE Kind # "eof"
  <2>1. /\ LineEnd \in Nat /\ at < LineEnd /\ at \in Nat /\ Kind = Token(at).kind /\ Parsing
    BY <1>1, <1>4, TokenPlace
  <2>2. Kind \in Kinds /\ (Kind = "blanks" <=> code[at] \in Blanks)
    BY <2>1, TokenFact
  <2>3. mode \notin {"start", "value", "rest"}
    BY <1>1, <2>2, ShiftsFact
  <2>4. mode # "blanks"
    <3> SUFFICES ASSUME mode = "blanks" PROVE FALSE
      OBVIOUS
    <3>1. code[at] \notin Blanks
      BY <2>1 DEF Parsing
    <3> QED BY <1>1, <2>2, <3>1, ShiftsFact
  <2> QED BY <1>2, <2>3, <2>4 DEF Modes, Opened
<1> QED BY <1>3, <1>4

\* No option begins where the option begins that the parser gives up.
LEMMA ErrorIsBroken ==
  ASSUME LinesInv, SyntaxError, NEW o \in AllOptions(code), o[1] = option.idx
  PROVE  FALSE
<1>1. pc = "parse" /\ Kind \notin Shifts(mode)
  BY DEF SyntaxError
<1>2. InLine /\ Parsing /\ code \in Seq(STRING) /\ at \in Nat
  BY <1>1 DEF LinesInv, LinesTypeOK
<1>3. mode \in Opened /\ (mode = "value" => at = LineEnd)
  BY ErrorInOption
<1>4. PICK i : i = option.idx
  OBVIOUS
<1>5. PICK j : j = o[2]
  OBVIOUS
<1>6. /\ i \in DOMAIN code /\ j \in DOMAIN code /\ i \in Nat /\ j \in Nat /\ IsOption(code, i, j)
  BY <1>2, <1>4, <1>5, OptionFact
<1>7. /\ IsLine(code, line.start, LineEnd) /\ LineEnd \in Nat /\ line.start \in Nat
      /\ line.start <= i /\ i < at /\ at <= LineEnd
  BY <1>2, <1>3, <1>4 DEF InLine, IsLine, Parsing, InOption
<1>8. PICK v : v = ValueStart(code, i)
  OBVIOUS
<1>9. v \in Nat /\ i + 3 <= v /\ v < j
  BY <1>2, <1>6, <1>8, OptionParts
<1>10. j < LineEnd
  <2>0. i \in Nat /\ j \in Nat /\ o[1] = i /\ o[2] = j
    BY <1>4, <1>5, <1>6
  <2>1. i \in line.start..(LineEnd - 1) /\ i <= j /\ i <= i
    BY <1>2, <1>7, <1>9, <2>0
  <2> QED BY <1>2, <1>7, <2>0, <2>1, OptionInLine
<1>11. StartsValue(code, i, v)
  <2>1. v # 0
    BY <1>6, <1>9
  <2> QED BY <1>2, <1>6, <1>8, <2>1, ValueStartFact
<1>12. PICK k \in (i + 1)..(v - 2) : /\ \A m \in (i + 1)..k : code[m] \in Letters
                                   /\ \A m \in (k + 1)..(v - 1) : code[m] \in Blanks
  BY <1>11 DEF StartsValue
<1>13. k \in Nat /\ i + 1 <= k /\ k + 2 <= v
  BY <1>6, <1>9, <1>12
<1>14. code[v] \notin Blanks \cup {"%", Semicolon}
  BY <1>11 DEF StartsValue
<1>15. at < LineEnd => /\ Kind = Token(at).kind /\ Kind \in Kinds
                       /\ Kind = "letters" <=> code[at] \in Letters
                       /\ Kind = "blanks" <=> code[at] \in Blanks
                       /\ Kind = "%" <=> code[at] = "%"
                       /\ Kind = Semicolon <=> code[at] = Semicolon
  <2> SUFFICES ASSUME at < LineEnd
               PROVE  /\ Kind = Token(at).kind /\ Kind \in Kinds
                      /\ Kind = "letters" <=> code[at] \in Letters
                      /\ Kind = "blanks" <=> code[at] \in Blanks
                      /\ Kind = "%" <=> code[at] = "%"
                      /\ Kind = Semicolon <=> code[at] = Semicolon
    OBVIOUS
  <2>1. Kind = Token(at).kind
    BY DEF Kind
  <2> QED BY <1>2, <1>7, <2>1, TokenFact
<1>16. CASE mode = "key"
  <2>1. at = i + 1
    BY <1>2, <1>4, <1>16 DEF Parsing, InKey
  <2>2. at < LineEnd /\ at \in (i + 1)..k
    BY <1>6, <1>7, <1>9, <1>10, <1>13, <2>1
  <2>3. Kind = "letters"
    BY <1>12, <1>15, <2>2
  <2> QED BY <1>1, <1>16, <2>3, ShiftsFact
<1>17. CASE mode = "gap"
  <2>1. /\ i + 1 < at
        /\ \A m \in (i + 1)..(at - 1) : code[m] \in Letters
        /\ at = LineEnd \/ code[at] \notin Letters
    BY <1>2, <1>4, <1>17 DEF Parsing, InGap
  <2>2. k < at
    <3> SUFFICES ASSUME at <= k PROVE FALSE
      BY <1>2, <1>13
    <3>1. at \in (i + 1)..k /\ at < LineEnd
      BY <1>2, <1>6, <1>7, <1>9, <1>10, <1>13
    <3> QED BY <1>12, <2>1, <3>1
  <2>3. code[k + 1] \in Blanks
    BY <1>9, <1>12, <1>13
  <2>4. at <= k + 1
    <3> SUFFICES ASSUME k + 1 < at PROVE FALSE
      BY <1>2, <1>13
    <3>1. k + 1 \in (i + 1)..(at - 1)
      BY <1>2, <1>6, <1>13
    <3> QED BY <2>1, <2>3, <3>1, CharactersAssumption
  <2>5. at = k + 1 /\ at < LineEnd
    BY <1>2, <1>6, <1>7, <1>9, <1>10, <1>13, <2>2, <2>4
  <2>6. Kind = "blanks"
    BY <1>15, <2>3, <2>5
  <2> QED BY <1>1, <1>17, <2>6, ShiftsFact
<1>18. CASE mode = "first"
  <2>1. InFirst
    BY <1>2, <1>18 DEF Parsing
  <2>2. PICK l \in (i + 1)..(at - 2) : /\ \A m \in (i + 1)..l : code[m] \in Letters
                                      /\ \A m \in (l + 1)..(at - 1) : code[m] \in Blanks
    BY <1>4, <2>1 DEF InFirst
  <2>3. l \in Nat /\ i + 1 <= l /\ l + 2 <= at
    BY <1>2, <1>6, <2>2
  <2>4. at = LineEnd \/ code[at] \notin Blanks
    BY <2>1 DEF InFirst
  <2>5. at <= v
    <3> SUFFICES ASSUME v < at PROVE FALSE
      BY <1>2, <1>9
    <3>1. v <= l
      <4> SUFFICES ASSUME l < v PROVE FALSE
        BY <1>9, <2>3
      <4>1. v \in (l + 1)..(at - 1)
        BY <1>2, <1>9, <2>3
      <4> QED BY <1>14, <2>2, <4>1
    <3>2. v - 1 \in (i + 1)..l /\ v - 1 \in (k + 1)..(v - 1)
      BY <1>6, <1>9, <1>13, <2>3, <3>1
    <3> QED BY <1>12, <2>2, <3>2, CharactersAssumption
  <2>6. v <= at
    <3> SUFFICES ASSUME at < v PROVE FALSE
      BY <1>2, <1>9
    <3>1. at < LineEnd
      BY <1>2, <1>6, <1>7, <1>9, <1>10
    <3>2. k + 1 <= at
      <4> SUFFICES ASSUME at <= k PROVE FALSE
        BY <1>2, <1>13
      <4>1. at - 1 \in (i + 1)..k /\ at - 1 \in (l + 1)..(at - 1)
        BY <1>2, <1>6, <1>13, <2>3
      <4> QED BY <1>12, <2>2, <4>1, CharactersAssumption
    <3>3. at \in (k + 1)..(v - 1)
      BY <1>2, <1>9, <1>13, <3>2
    <3> QED BY <1>12, <2>4, <3>1, <3>3
  <2>7. at = v /\ at < LineEnd
    BY <1>2, <1>6, <1>7, <1>9, <1>10, <2>5, <2>6
  <2>8. Kind \in Kinds /\ Kind # "blanks" /\ Kind # "%" /\ Kind # Semicolon
    BY <1>14, <1>15, <2>7
  <2>9. Kind \in {"letters", "other", "escape", "blank_escape"}
    BY <2>8 DEF Kinds
  <2> QED BY <1>1, <1>18, <2>9, ShiftsFact
<1>19. CASE mode = "value"
  <2>1. \A m \in v..(at - 1) : ~EndsValue(code, m, v)
    BY <1>2, <1>4, <1>8, <1>19 DEF Parsing, InValue
  <2>2. EndsValue(code, j, v)
    BY <1>6, <1>8 DEF IsOption
  <2>3. j \in v..(at - 1)
    BY <1>2, <1>3, <1>6, <1>9, <1>10, <1>19
  <2> QED BY <2>1, <2>2, <2>3
<1> QED BY <1>3, <1>16, <1>17, <1>18, <1>19 DEF Opened

\* parse throws only where an option leads and is none.
LEMMA SyntaxErrorKeeps ==
  ASSUME LinesInv, SyntaxError
  PROVE  LinesInv'
<1>1. /\ pc = "parse" /\ pc' = "threw" /\ code' = code /\ from' = from /\ at' = at
      /\ mode' = mode /\ option' = option /\ options' = options /\ result' = result
  BY DEF SyntaxError
<1>2. InLine /\ Parsing /\ LinesTypeOK /\ InOrder /\ mode \in Opened /\ code \in Seq(STRING)
  BY <1>1, ErrorInOption DEF LinesInv, LinesTypeOK
<1>3. PICK i : i = option.idx
  OBVIOUS
<1>4. /\ IsLine(code, line.start, LineEnd) /\ line.start <= i /\ i < at /\ at <= LineEnd
      /\ code[i] = "%" /\ LeadsFrom(code, line.start, i) /\ i \in Nat /\ at \in Nat
  BY <1>2, <1>3, OptionStays DEF InLine, Parsing, InOption, Ahead, LinesTypeOK
<1>5. line.start \in Nat /\ LineEnd \in Nat /\ 1 <= line.start /\ LineEnd <= Len(code) + 1
  BY <1>4 DEF IsLine
<1>6. i \in DOMAIN code /\ i \in line.start..(LineEnd - 1)
  <2>1. i \in 1..Len(code) /\ i \in line.start..(LineEnd - 1)
    BY <1>2, <1>4, <1>5
  <2> QED BY <1>2, <2>1
<1>7. Leads(code, i)
  BY <1>2, <1>4, <1>6, StartOfLine
<1>8. \A o \in Leading(code) : o[1] # i
  BY <1>3, ErrorIsBroken DEF Leading
<1>9. i \in Broken(code)
  BY <1>4, <1>6, <1>7, <1>8 DEF Broken
<1>10. Broken(code') # {}
  BY <1>1, <1>9
<1>11. LinesTypeOK'
  BY <1>1, <1>2 DEF LinesTypeOK
<1>12. Reported' = Reported
  BY <1>1 DEF Reported
<1>13. InOrder'
  BY <1>1, <1>2, <1>12 DEF InOrder
<1> QED BY <1>1, <1>10, <1>11, <1>13 DEF LinesInv

\* The line around the next "%" is a line, and no option begins before it.
LEMMA EnterLineKeeps ==
  ASSUME LinesInv, EnterLine
  PROVE  LinesInv'
<1>1. PICK p : p = FirstIn(code, {"%"}, from)
  OBVIOUS
<1>2. PICK q : q = LastIn(code, LineEnds, p)
  OBVIOUS
<1>3. PICK last : last = FirstIn(code, LineEnds, q + 1)
  OBVIOUS
<1>4. /\ pc = "next" /\ p # 0 /\ line' = NextLine /\ at' = NextLine.start
      /\ mode' = "start" /\ options' = << >> /\ option' = NoOption
      /\ pc' = "parse" /\ code' = code /\ from' = from /\ result' = result
  BY <1>1 DEF EnterLine
<1>5. line'.start = q + 1 /\ line'.last = last /\ at' = q + 1
  <2>1. NextLine = [start |-> q + 1, last |-> last]
    BY <1>1, <1>2, <1>3 DEF NextLine, LineStart
  <2> QED BY <1>4, <2>1
<1>6. /\ LinesTypeOK /\ InOrder /\ code \in Seq(STRING) /\ from \in 1..(Len(code) + 1)
      /\ options = << >> /\ (from = 1 \/ code[from - 1] \in LineEnds) /\ Settled(from)
  BY <1>4 DEF LinesInv, LinesTypeOK
<1>7. from \in Nat /\ 1 <= from /\ Len(code) \in Nat
  BY <1>6
<1>8. /\ p \in from..Len(code) /\ code[p] = "%" /\ \A i \in from..(p - 1) : code[i] # "%"
  <2>1. from # 0
    BY <1>7
  <2>2. /\ p \in from..Len(code) /\ code[p] \in {"%"}
        /\ \A i \in from..(p - 1) : code[i] \notin {"%"}
    BY <1>1, <1>4, <1>7, <2>1, FirstInFact
  <2> QED BY <2>2
<1>9. p \in Nat /\ from <= p /\ p <= Len(code)
  BY <1>7, <1>8
<1>10. /\ q \in 0..p
       /\ q # 0 => code[q] \in LineEnds
       /\ \A i \in (q + 1)..p : code[i] \notin LineEnds
  BY <1>2, <1>9, LastInFact
<1>11. q \in Nat /\ q < p
  <2>1. q \in Nat /\ q <= p
    BY <1>9, <1>10
  <2>2. q # p
    BY <1>7, <1>8, <1>9, <1>10, CharactersAssumption
  <2> QED BY <1>9, <2>1, <2>2
<1>12. from <= q + 1
  <2> SUFFICES ASSUME q + 1 < from PROVE FALSE
    BY <1>7, <1>11
  <2>1. from - 1 \in (q + 1)..p /\ from # 1
    BY <1>7, <1>9, <1>11
  <2> QED BY <1>6, <1>10, <2>1
<1>13. /\ last \in Nat
       /\ last = 0 => \A i \in (q + 1)..Len(code) : code[i] \notin LineEnds
       /\ last # 0 => /\ last \in (q + 1)..Len(code)
                      /\ code[last] \in LineEnds
                      /\ \A i \in (q + 1)..(last - 1) : code[i] \notin LineEnds
  <2>1. q + 1 \in Nat /\ q + 1 # 0
    BY <1>11
  <2> QED BY <1>3, <1>7, <2>1, FirstInFact
<1>14. LineEnd' = IF last = 0 THEN Len(code) + 1 ELSE last
  BY <1>4, <1>5 DEF LineEnd
<1>15. IsLine(code, q + 1, LineEnd') /\ q + 1 <= LineEnd'
  <2>1. q = 0 \/ code[(q + 1) - 1] \in LineEnds
    BY <1>10, <1>11
  <2>2. CASE last = 0
    BY <1>7, <1>9, <1>11, <1>13, <1>14, <2>1, <2>2 DEF IsLine
  <2>3. CASE last # 0
    <3>1. last \in Nat /\ q + 1 <= last /\ last <= Len(code)
      BY <1>7, <1>11, <1>13, <2>3
    <3> QED BY <1>7, <1>11, <1>13, <1>14, <2>1, <2>3, <3>1 DEF IsLine
  <2> QED BY <2>2, <2>3
<1>16. InLine'
  <2>1. last \in Nat /\ last <= Len(code)
    BY <1>7, <1>13
  <2>2. q + 1 <= q + 1
    BY <1>11
  <2> QED BY <1>4, <1>5, <1>15, <2>1, <2>2 DEF InLine
<1>17. /\ Before(code, q + 1) = Before(code, from)
       /\ (\A i \in Broken(code) : i >= from) => \A i \in Broken(code) : i >= q + 1
  <2>1. \A m \in from..((q + 1) - 1) : m \in DOMAIN code /\ code[m] = "%" => ~Leads(code, m)
    <3>1. \A m \in from..((q + 1) - 1) : m \in from..(p - 1)
      BY <1>7, <1>9, <1>11
    <3> QED BY <1>8, <3>1
  <2>2. q + 1 \in Nat
    BY <1>11
  <2> QED BY <1>6, <1>7, <1>12, <2>1, <2>2, SettledOn
<1>18. Found' = Found
  <2>1. Reported' = Reported
    BY <1>4 DEF Reported
  <2> QED BY <1>4, <1>6, <2>1 DEF Found
<1>19. LeadsFrom(code, q + 1, q + 1)
  BY <1>11 DEF LeadsFrom
<1>20. Ahead(at)'
  <2>1. LeadsFrom(code', line'.start, at')
    BY <1>4, <1>5, <1>19
  <2>2. Found' = Before(code', at') /\ \A i \in Broken(code') : i >= at'
    BY <1>4, <1>5, <1>6, <1>17, <1>18 DEF Settled
  <2> QED BY <2>1, <2>2 DEF Ahead, Settled
<1>21. Parsing'
  BY <1>4, <1>20 DEF Parsing, Opened
<1>22. LinesTypeOK'
  <2>1. << >> \in Seq(STRING) /\ << >> \in Seq(Chars) /\ << >> \in Seq(ScriptOption)
    OBVIOUS
  <2>2. NoOption \in ScriptOption
    BY <2>1 DEF NoOption, ScriptOption
  <2>3. at' \in Nat /\ mode' \in Modes
    BY <1>4, <1>5, <1>11 DEF Modes
  <2> QED BY <1>4, <1>6, <2>1, <2>2, <2>3 DEF LinesTypeOK
<1>23. InOrder'
  <2>1. Frontier = from
    BY <1>4 DEF Frontier
  <2>2. Frontier' = q + 1
    BY <1>4, <1>5 DEF Frontier, Opened
  <2>3. Frontier \in Nat /\ Frontier' \in Nat /\ Frontier <= Frontier'
    BY <1>7, <1>11, <1>12, <2>1, <2>2
  <2> QED BY <1>4, <1>6, <2>3, OrderStays
<1> QED BY <1>4, <1>16, <1>21, <1>22, <1>23 DEF LinesInv

\* Behind the last "%" no option begins.
LEMMA NoMoreOptionsKeeps ==
  ASSUME LinesInv, NoMoreOptions
  PROVE  LinesInv'
<1>1. /\ pc = "next" /\ FirstIn(code, {"%"}, from) = 0 /\ pc' = "done"
      /\ code' = code /\ from' = from /\ at' = at /\ mode' = mode
      /\ option' = option /\ options' = options /\ result' = result
  BY DEF NoMoreOptions
<1>2. /\ LinesTypeOK /\ InOrder /\ code \in Seq(STRING) /\ from \in 1..(Len(code) + 1)
      /\ options = << >> /\ Settled(from)
  BY <1>1 DEF LinesInv, LinesTypeOK
<1>3. from \in Nat /\ 1 <= from /\ Len(code) \in Nat /\ from <= Len(code) + 1
  BY <1>2
<1>4. \A i \in from..Len(code) : code[i] # "%"
  <2>1. from # 0
    BY <1>3
  <2>2. \A i \in from..Len(code) : code[i] \notin {"%"}
    BY <1>1, <1>3, <2>1, FirstInFact
  <2> QED BY <2>2
<1>5. /\ Before(code, Len(code) + 1) = Before(code, from)
      /\ (\A i \in Broken(code) : i >= from) => \A i \in Broken(code) : i >= Len(code) + 1
  <2>1. \A m \in from..((Len(code) + 1) - 1) :
          m \in DOMAIN code /\ code[m] = "%" => ~Leads(code, m)
    BY <1>3, <1>4
  <2>2. Len(code) + 1 \in Nat
    BY <1>3
  <2> QED BY <1>2, <1>3, <2>1, <2>2, SettledOn
<1>6. Reported' = Reported
  BY <1>1 DEF Reported
<1>7. Found' = Found
  BY <1>1, <1>6 DEF Found
<1>8. Settled(Len(code) + 1)'
  BY <1>1, <1>2, <1>5, <1>7 DEF Settled
<1>9. InOrder'
  BY <1>1, <1>2, <1>6 DEF InOrder
<1>10. LinesTypeOK'
  BY <1>1, <1>2 DEF LinesTypeOK
<1> QED BY <1>1, <1>2, <1>8, <1>9, <1>10 DEF LinesInv

\* At the end of a line everything of it is read.
LEMMA EndLineKeeps ==
  ASSUME LinesInv, EndLine
  PROVE  LinesInv'
<1>1. /\ pc = "parse" /\ Kind = "eof" /\ mode \in {"start", "blanks", "rest"} /\ pc' = "push"
      /\ code' = code /\ from' = from /\ line' = line /\ at' = at /\ mode' = mode
      /\ option' = option /\ options' = options /\ result' = result
  BY DEF EndLine
<1>2. LinesTypeOK /\ InOrder /\ InLine /\ Parsing
  BY <1>1 DEF LinesInv
<1>3. at = LineEnd /\ at \in Nat
  BY <1>1, EndOfLine
<1>4. Settled(LineEnd)
  BY <1>1, <1>2, <1>3 DEF Parsing, Ahead
<1>5. LineEnd' = LineEnd /\ Reported' = Reported
  BY <1>1 DEF LineEnd, Reported
<1>6. Found' = Found
  BY <1>1, <1>5 DEF Found
<1>7. Settled(LineEnd)' /\ at' = LineEnd'
  BY <1>1, <1>3, <1>4, <1>5, <1>6 DEF Settled
<1>8. InLine'
  BY <1>1, <1>2, <1>5 DEF InLine
<1>9. LinesTypeOK'
  BY <1>1, <1>2 DEF LinesTypeOK
<1>10. InOrder'
  <2>1. Frontier = at /\ Frontier' = at
    BY <1>1 DEF Frontier, Opened
  <2>2. Frontier \in Nat /\ Frontier' \in Nat /\ Frontier <= Frontier'
    BY <1>3, <2>1
  <2> QED BY <1>1, <1>2, <2>2, OrderStays
<1> QED BY <1>1, <1>7, <1>8, <1>9, <1>10 DEF LinesInv

\* The search goes on behind a line that has nothing left.
LEMMA LeaveLineKeeps ==
  ASSUME LinesInv, LeaveLine
  PROVE  LinesInv'
<1>1. /\ pc = "push" /\ options = << >>
      /\ IF line.last = 0 THEN pc' = "done" /\ from' = from ELSE pc' = "next" /\ from' = Resume
      /\ code' = code /\ line' = line /\ at' = at /\ mode' = mode
      /\ option' = option /\ options' = options /\ result' = result
  BY DEF LeaveLine
<1>2. /\ LinesTypeOK /\ InOrder /\ InLine /\ at = LineEnd /\ Settled(LineEnd)
      /\ code \in Seq(STRING) /\ at \in Nat
  BY <1>1 DEF LinesInv, LinesTypeOK
<1>3. Reported' = Reported
  BY <1>1 DEF Reported
<1>4. Found' = Found
  BY <1>1, <1>3 DEF Found
<1>5. CASE line.last = 0
  <2>1. pc' = "done" /\ from' = from /\ LineEnd = Len(code) + 1
    BY <1>1, <1>5 DEF LineEnd
  <2>2. Settled(Len(code) + 1)'
    BY <1>1, <1>2, <1>4, <2>1 DEF Settled
  <2>3. InOrder'
    BY <1>1, <1>2, <1>3, <2>1 DEF InOrder
  <2>4. LinesTypeOK'
    BY <1>1, <1>2, <2>1 DEF LinesTypeOK
  <2> QED BY <1>1, <2>1, <2>2, <2>3, <2>4 DEF LinesInv
<1>6. CASE line.last # 0
  <2>1. PICK last : last = line.last
    OBVIOUS
  <2>2. pc' = "next" /\ from' = last + 1 /\ LineEnd = last
    BY <1>1, <1>6, <2>1 DEF LineEnd, Resume
  <2>3. last \in Nat /\ last <= Len(code) /\ Len(code) \in Nat /\ last # 0
    BY <1>2, <1>6, <2>1 DEF InLine
  <2>4. code[last] \in LineEnds
    <3>1. IsLine(code, line.start, last)
      BY <1>2, <2>2 DEF InLine
    <3> QED BY <2>3, <3>1 DEF IsLine
  <2>5. /\ Before(code, last + 1) = Before(code, last)
        /\ (\A i \in Broken(code) : i >= last) => \A i \in Broken(code) : i >= last + 1
    <3>1. \A m \in last..((last + 1) - 1) : m \in DOMAIN code /\ code[m] = "%" => ~Leads(code, m)
      <4>1. \A m \in last..((last + 1) - 1) : m = last
        BY <2>3
      <4> QED BY <2>4, <4>1, CharactersAssumption
    <3>2. last + 1 \in Nat /\ last <= last + 1
      BY <2>3
    <3> QED BY <1>2, <2>3, <3>1, <3>2, SettledOn
  <2>6. Settled(from)'
    BY <1>1, <1>2, <1>4, <2>2, <2>5 DEF Settled
  <2>7. from' \in 1..(Len(code') + 1) /\ from' - 1 = last
    BY <1>1, <2>2, <2>3
  <2>8. LinesTypeOK'
    BY <1>1, <1>2, <2>2, <2>7 DEF LinesTypeOK
  <2>9. InOrder'
    <3>1. Frontier = at
      BY <1>1 DEF Frontier
    <3>2. Frontier' = last + 1
      BY <2>2 DEF Frontier
    <3>3. Frontier \in Nat /\ Frontier' \in Nat /\ Frontier <= Frontier'
      BY <1>2, <2>2, <2>3, <3>1, <3>2
    <3> QED BY <1>1, <1>2, <3>3, OrderStays
  <2> QED BY <1>1, <2>2, <2>4, <2>6, <2>7, <2>8, <2>9 DEF LinesInv
<1> QED BY <1>5, <1>6

\* The vectors of the result with one more option.
LEMMA PushedFact ==
  ASSUME LinesTypeOK, NEW o \in ScriptOption, NEW r, r = Pushed(o)
  PROVE  /\ DOMAIN r = DOMAIN result \cup {o.key} /\ r = [key \in DOMAIN r |-> r[key]]
         /\ \A key \in DOMAIN result : key # o.key => r[key] = result[key]
         /\ o.key \in DOMAIN result => r[o.key] = Append(result[o.key], o)
         /\ o.key \notin DOMAIN result => r[o.key] = <<o>>
         /\ \A key \in DOMAIN r : r[key] \in Seq(ScriptOption)
<1>1. r = [key \in DOMAIN result \cup {o.key} |->
             IF key # o.key THEN result[key]
             ELSE Append(IF key \in DOMAIN result THEN result[key] ELSE << >>, o)]
  BY DEF Pushed
<1>2. DOMAIN r = DOMAIN result \cup {o.key} /\ r = [key \in DOMAIN r |-> r[key]]
  BY <1>1
<1>3. \A key \in DOMAIN result : key # o.key => r[key] = result[key]
  BY <1>1
<1>4. o.key \in DOMAIN result => r[o.key] = Append(result[o.key], o)
  BY <1>1
<1>5. o.key \notin DOMAIN result => r[o.key] = <<o>>
  <2>1. o.key \notin DOMAIN result => r[o.key] = Append(<< >>, o)
    BY <1>1
  <2>2. Append(<< >>, o) = <<o>>
    OBVIOUS
  <2> QED BY <2>1, <2>2
<1>6. \A key \in DOMAIN result : result[key] \in Seq(ScriptOption)
  BY DEF LinesTypeOK
<1>7. <<o>> \in Seq(ScriptOption)
  OBVIOUS
<1>8. ASSUME NEW key \in DOMAIN r
      PROVE  r[key] \in Seq(ScriptOption)
  <2>1. CASE key # o.key
    BY <1>2, <1>3, <1>6, <2>1
  <2>2. CASE key = o.key /\ key \in DOMAIN result
    <3>1. Append(result[key], o) \in Seq(ScriptOption)
      BY <1>6, <2>2
    <3> QED BY <1>4, <2>2, <3>1
  <2>3. CASE key = o.key /\ key \notin DOMAIN result
    BY <1>5, <1>7, <2>3
  <2> QED BY <2>1, <2>2, <2>3
<1> QED BY <1>2, <1>3, <1>4, <1>5, <1>8

\* Where an option of the new result comes from.
LEMMA PushedMember ==
  ASSUME LinesTypeOK, NEW o \in ScriptOption, NEW r, r = Pushed(o),
         NEW key \in DOMAIN r, NEW n \in DOMAIN r[key]
  PROVE  \/ /\ key \in DOMAIN result /\ n \in DOMAIN result[key]
            /\ r[key][n] = result[key][n] /\ result[key][n] \in Reported
         \/ /\ r[key][n] = o /\ key = o.key
            /\ \A m \in DOMAIN r[key] : m <= n
<1>1. /\ DOMAIN r = DOMAIN result \cup {o.key}
      /\ \A k \in DOMAIN result : k # o.key => r[k] = result[k]
      /\ o.key \in DOMAIN result => r[o.key] = Append(result[o.key], o)
      /\ o.key \notin DOMAIN result => r[o.key] = <<o>>
  BY PushedFact
<1>2. \A k \in DOMAIN result : \A m \in DOMAIN result[k] : result[k][m] \in Reported
  BY DEF Reported
<1>3. CASE key # o.key
  BY <1>1, <1>2, <1>3
<1>4. CASE key = o.key /\ key \in DOMAIN result
  <2>1. PICK q : q = result[key]
    OBVIOUS
  <2>2. q \in Seq(ScriptOption) /\ r[key] = Append(q, o)
    BY <1>1, <1>4, <2>1 DEF LinesTypeOK
  <2>3. PICK h \in Nat : h = Len(q) /\ DOMAIN q = 1..h
    BY <2>2
  <2>4. DOMAIN r[key] = 1..(h + 1) /\ r[key][h + 1] = o /\ \A m \in 1..h : r[key][m] = q[m]
    BY <2>2, <2>3
  <2>5. CASE n \in 1..h
    BY <1>2, <1>4, <2>1, <2>3, <2>4, <2>5
  <2>6. CASE n = h + 1
    <3>1. \A m \in DOMAIN r[key] : m <= n
      BY <2>3, <2>4, <2>6
    <3> QED BY <1>4, <2>4, <2>6, <3>1
  <2> QED BY <2>3, <2>4, <2>5, <2>6
<1>5. CASE key = o.key /\ key \notin DOMAIN result
  <2>1. r[key] = <<o>>
    BY <1>1, <1>5
  <2>2. n = 1 /\ r[key][n] = o /\ \A m \in DOMAIN r[key] : m <= n
    BY <2>1
  <2> QED BY <1>5, <2>2
<1> QED BY <1>3, <1>4, <1>5

\* One option more is reported.
LEMMA PushedReported ==
  ASSUME LinesTypeOK, NEW o \in ScriptOption, result' = Pushed(o)
  PROVE  Reported' = Reported \cup {o}
<1>1. PICK r : r = result'
  OBVIOUS
<1>2. r = Pushed(o)
  BY <1>1
<1>3. /\ DOMAIN r = DOMAIN result \cup {o.key}
      /\ \A k \in DOMAIN result : k # o.key => r[k] = result[k]
      /\ o.key \in DOMAIN result => r[o.key] = Append(result[o.key], o)
      /\ o.key \notin DOMAIN result => r[o.key] = <<o>>
  BY <1>2, PushedFact
<1>4. \A x : x \in Reported' <=> \E key \in DOMAIN r : \E n \in DOMAIN r[key] : x = r[key][n]
  BY <1>1 DEF Reported
<1>5. \A x : x \in Reported <=>
        \E key \in DOMAIN result : \E n \in DOMAIN result[key] : x = result[key][n]
  BY DEF Reported
<1>6. ASSUME NEW key \in DOMAIN r, NEW n \in DOMAIN r[key]
      PROVE  r[key][n] \in Reported \cup {o}
  BY <1>2, PushedMember
<1>7. ASSUME NEW key \in DOMAIN result, NEW n \in DOMAIN result[key]
      PROVE  key \in DOMAIN r /\ n \in DOMAIN r[key] /\ r[key][n] = result[key][n]
  <2>1. CASE key # o.key
    BY <1>3, <2>1
  <2>2. CASE key = o.key
    <3>1. PICK q : q = result[key]
      OBVIOUS
    <3>2. q \in Seq(ScriptOption) /\ r[key] = Append(q, o) /\ n \in DOMAIN q
      BY <1>3, <2>2, <3>1 DEF LinesTypeOK
    <3>3. n \in DOMAIN Append(q, o) /\ Append(q, o)[n] = q[n]
      BY <3>2
    <3> QED BY <1>3, <2>2, <3>1, <3>2, <3>3
  <2> QED BY <2>1, <2>2
<1>8. \E key \in DOMAIN r : \E n \in DOMAIN r[key] : o = r[key][n]
  <2>1. CASE o.key \in DOMAIN result
    <3>1. PICK q : q = result[o.key]
      OBVIOUS
    <3>2. q \in Seq(ScriptOption) /\ r[o.key] = Append(q, o)
      BY <1>3, <2>1, <3>1 DEF LinesTypeOK
    <3>3. Len(q) + 1 \in DOMAIN Append(q, o) /\ Append(q, o)[Len(q) + 1] = o
      BY <3>2
    <3> QED BY <1>3, <3>2, <3>3
  <2>2. CASE o.key \notin DOMAIN result
    <3>1. 1 \in DOMAIN <<o>> /\ <<o>>[1] = o
      OBVIOUS
    <3> QED BY <1>3, <2>2, <3>1
  <2> QED BY <2>1, <2>2
<1> QED BY <1>4, <1>5, <1>6, <1>7, <1>8

\* An option moves from the line to the result, behind all that are there.
LEMMA PushOptionKeeps ==
  ASSUME LinesInv, PushOption
  PROVE  LinesInv'
<1>1. /\ pc = "push" /\ options # << >> /\ result' = Pushed(Head(options))
      /\ options' = Tail(options) /\ pc' = pc /\ code' = code /\ from' = from
      /\ line' = line /\ at' = at /\ mode' = mode /\ option' = option
  BY DEF PushOption
<1>2. /\ LinesTypeOK /\ InOrder /\ InLine /\ at = LineEnd /\ Settled(LineEnd)
      /\ options \in Seq(ScriptOption) /\ at \in Nat
  BY <1>1 DEF LinesInv, LinesTypeOK
<1>3. PICK o : o = Head(options)
  OBVIOUS
<1>4. PICK k \in Nat : k + 1 = Len(options)
  <2>1. Len(options) \in Nat /\ Len(options) # 0
    BY <1>1, <1>2
  <2>2. Len(options) - 1 \in Nat /\ (Len(options) - 1) + 1 = Len(options)
    BY <2>1
  <2> QED BY <2>2
<1>5. /\ DOMAIN options = 1..(k + 1) /\ o = options[1] /\ o \in ScriptOption
      /\ options' \in Seq(ScriptOption) /\ DOMAIN options' = 1..k
      /\ \A n \in 1..k : options'[n] = options[n + 1]
  BY <1>1, <1>2, <1>3, <1>4
<1>6. PICK r : r = result'
  OBVIOUS
<1>7. r = Pushed(o)
  BY <1>1, <1>3, <1>6
<1>8. Reported' = Reported \cup {o}
  BY <1>1, <1>2, <1>3, <1>5, PushedReported
<1>9. LinesTypeOK'
  <2>1. r = [key \in DOMAIN r |-> r[key]] /\ \A key \in DOMAIN r : r[key] \in Seq(ScriptOption)
    BY <1>2, <1>5, <1>7, PushedFact
  <2> QED BY <1>1, <1>2, <1>5, <1>6, <2>1 DEF LinesTypeOK
<1>10. LineEnd' = LineEnd
  BY <1>1 DEF LineEnd
<1>11. InLine'
  BY <1>1, <1>2, <1>10 DEF InLine
<1>12. Found' = Found
  <2>1. ASSUME NEW n \in DOMAIN options'
        PROVE  Place(options'[n]) \in {Place(options[m]) : m \in DOMAIN options}
    <3>1. n + 1 \in DOMAIN options /\ options'[n] = options[n + 1]
      BY <1>4, <1>5
    <3> QED BY <3>1
  <2>2. ASSUME NEW n \in DOMAIN options
        PROVE  \/ n = 1 /\ Place(options[n]) = Place(o)
               \/ Place(options[n]) \in {Place(options'[m]) : m \in DOMAIN options'}
    <3>1. CASE n = 1
      BY <1>5, <3>1
    <3>2. CASE n # 1
      <4>1. n - 1 \in DOMAIN options' /\ options'[n - 1] = options[n]
        BY <1>4, <1>5, <3>2
      <4> QED BY <4>1
    <3> QED BY <3>1, <3>2
  <2>3. 1 \in DOMAIN options
    BY <1>4, <1>5
  <2>4. Place(o) \in {Place(options[m]) : m \in DOMAIN options}
    BY <1>5, <2>3
  <2>5. {Place(p) : p \in Reported'} = {Place(p) : p \in Reported} \cup {Place(o)}
    BY <1>8
  <2> HIDE DEF Place
  <2> QED BY <2>1, <2>2, <2>4, <2>5 DEF Found
<1>13. Settled(LineEnd)'
  BY <1>1, <1>2, <1>10, <1>12 DEF Settled
<1>14. /\ \A p \in Reported : p.idx \in Nat /\ p.size \in Nat
       /\ \A n \in DOMAIN options : options[n].idx \in Nat /\ options[n].size \in Nat
  BY <1>2, OptionNumbers
<1>15. 1 \in DOMAIN options /\ \A p \in Reported : p.idx + p.size <= o.idx
  BY <1>2, <1>4, <1>5 DEF InOrder
<1>16. ASSUME NEW n \in DOMAIN options'
       PROVE  /\ n + 1 \in DOMAIN options /\ options'[n] = options[n + 1] /\ n \in Nat
              /\ o.idx + o.size <= options'[n].idx
  <2>1. n + 1 \in DOMAIN options /\ options'[n] = options[n + 1] /\ n \in Nat /\ 1 < n + 1
    BY <1>4, <1>5
  <2> QED BY <1>2, <1>5, <1>15, <2>1 DEF InOrder
<1>17. InOrder'
  <2>1. ASSUME NEW key \in DOMAIN r, NEW m \in DOMAIN r[key], NEW n \in DOMAIN r[key], m < n
        PROVE  r[key][m].idx + r[key][m].size <= r[key][n].idx
    <3>1. m \in Nat /\ n \in Nat
      <4>1. r[key] \in Seq(ScriptOption)
        BY <1>2, <1>5, <1>7, PushedFact
      <4> QED BY <4>1
    <3>2. /\ key \in DOMAIN result /\ m \in DOMAIN result[key]
          /\ r[key][m] = result[key][m] /\ result[key][m] \in Reported
      <4>1. ~(\A h \in DOMAIN r[key] : h <= m)
        BY <2>1, <3>1
      <4> QED BY <1>2, <1>5, <1>7, <4>1, PushedMember
    <3>3. CASE r[key][n] = o
      BY <1>15, <3>2, <3>3
    <3>4. CASE n \in DOMAIN result[key] /\ r[key][n] = result[key][n]
      BY <1>2, <2>1, <3>2, <3>4 DEF InOrder
    <3> QED BY <1>2, <1>5, <1>7, <3>3, <3>4, PushedMember
  <2>2. ASSUME NEW p \in Reported', NEW q \in Reported', p # q
        PROVE  p.idx + p.size <= q.idx \/ q.idx + q.size <= p.idx
    <3>1. CASE p \in Reported /\ q \in Reported
      BY <1>2, <2>2, <3>1 DEF InOrder
    <3>2. CASE p \in Reported /\ q = o
      BY <1>15, <3>2
    <3>3. CASE p = o /\ q \in Reported
      BY <1>15, <3>3
    <3> QED BY <1>8, <2>2, <3>1, <3>2, <3>3
  <2>3. ASSUME NEW m \in DOMAIN options', NEW n \in DOMAIN options', m < n
        PROVE  options'[m].idx + options'[m].size <= options'[n].idx
    <3>1. /\ m + 1 \in DOMAIN options /\ options'[m] = options[m + 1] /\ m \in Nat
          /\ n + 1 \in DOMAIN options /\ options'[n] = options[n + 1] /\ n \in Nat
      BY <1>16
    <3>2. m + 1 < n + 1
      BY <2>3, <3>1
    <3> QED BY <1>2, <3>1, <3>2 DEF InOrder
  <2>4. ASSUME NEW p \in Reported', NEW n \in DOMAIN options'
        PROVE  p.idx + p.size <= options'[n].idx
    <3>1. CASE p = o
      BY <1>16, <3>1
    <3>2. CASE p \in Reported
      BY <1>2, <1>16, <3>2 DEF InOrder
    <3> QED BY <1>8, <3>1, <3>2
  <2>5. Frontier' = Frontier
    BY <1>1 DEF Frontier
  <2>6. /\ \A p \in Reported : p.idx + p.size <= Frontier
        /\ \A n \in DOMAIN options : options[n].idx + options[n].size <= Frontier
    BY <1>1, <1>2 DEF InOrder
  <2>7. \A p \in Reported' : p.idx + p.size <= Frontier'
    BY <1>5, <1>8, <1>15, <2>5, <2>6
  <2>8. \A n \in DOMAIN options' : options'[n].idx + options'[n].size <= Frontier'
    BY <1>16, <2>5, <2>6
  <2> QED BY <1>6, <2>1, <2>2, <2>3, <2>4, <2>7, <2>8 DEF InOrder
<1> QED BY <1>1, <1>2, <1>9, <1>10, <1>11, <1>13, <1>17 DEF LinesInv

-----------------------------------------------------------------------------

(***************************************************************************)
(* Version 2                                                               *)
(***************************************************************************)

\* Before the first line nothing is read, and nothing begins before the script.
LEMMA LinesInitially ==
  ASSUME Init
  PROVE  LinesInv
<1>1. /\ code \in Seq(STRING) /\ pc = "next" /\ from = 1 /\ at = 1 /\ mode = "start"
      /\ option = NoOption /\ options = << >> /\ result = [key \in {} |-> << >>]
  BY ScriptsAssumption DEF Init
<1>2. DOMAIN result = {} /\ Reported = {} /\ DOMAIN options = {}
  BY <1>1 DEF Reported
<1>3. LinesTypeOK
  <2>1. << >> \in Seq(STRING) /\ << >> \in Seq(Chars) /\ << >> \in Seq(ScriptOption)
    OBVIOUS
  <2>2. NoOption \in ScriptOption
    BY <2>1 DEF NoOption, ScriptOption
  <2>3. result = [key \in DOMAIN result |-> result[key]]
    BY <1>1, <1>2
  <2>4. from \in 1..(Len(code) + 1)
    BY <1>1
  <2> QED BY <1>1, <1>2, <2>1, <2>2, <2>3, <2>4 DEF LinesTypeOK, Modes
<1>4. Found = {}
  BY <1>2 DEF Found
<1>5. Before(code, 1) = {}
  <2>1. ASSUME NEW o \in Leading(code), o[1] < 1
        PROVE  FALSE
    <3>1. o[1] \in Nat /\ 1 <= o[1]
      BY <1>1, OptionFact DEF Leading
    <3> QED BY <2>1, <3>1
  <2> QED BY <2>1 DEF Before
<1>6. \A i \in Broken(code) : i >= 1
  <2>1. \A i \in Broken(code) : i \in DOMAIN code
    BY DEF Broken
  <2> QED BY <1>1, <2>1
<1>7. Settled(from)
  BY <1>1, <1>4, <1>5, <1>6 DEF Settled
<1>8. InOrder
  BY <1>2 DEF InOrder
<1> QED BY <1>1, <1>3, <1>7, <1>8 DEF LinesInv

\* Every step keeps the invariant.
LEMMA LinesStep ==
  ASSUME LinesInv, [Next]_vars
  PROVE  LinesInv'
<1>1. CASE Next
  BY <1>1, EnterLineKeeps, NoMoreOptionsKeeps, EndLineKeeps, PushOptionKeeps, LeaveLineKeeps,
     ReadBlanksKeeps, ReadRestKeeps, BeginOptionKeeps, ReadKeyKeeps, ReadGapKeeps,
     BeginValueKeeps, ExtendValueKeeps, EndOptionKeeps, SyntaxErrorKeeps DEF Next
<1>2. CASE UNCHANGED vars
  <2>1. /\ code' = code /\ pc' = pc /\ from' = from /\ line' = line /\ at' = at /\ mode' = mode
        /\ option' = option /\ options' = options /\ result' = result
    BY <1>2 DEF vars
  <2>2. LineEnd' = LineEnd /\ Reported' = Reported /\ Frontier' = Frontier
    BY <2>1 DEF LineEnd, Reported, Frontier
  <2>3. Found' = Found
    BY <2>1, <2>2 DEF Found
  <2>4. Parsing' <=> Parsing
    BY <2>1, <2>2, <2>3 DEF Parsing, Ahead, Settled, InOption, InKey, InGap, InFirst, InValue
  <2>5. (InLine' <=> InLine) /\ (LinesTypeOK' <=> LinesTypeOK) /\ (InOrder' <=> InOrder)
    BY <2>1, <2>2 DEF InLine, LinesTypeOK, InOrder
  <2> QED BY <2>1, <2>2, <2>3, <2>4, <2>5 DEF LinesInv, Settled
<1> QED BY <1>1, <1>2

\* For scripts of any length: parseOptions returns exactly the options that
\* nothing but white space and other options precede in their line, with their
\* places; it throws exactly when such a "%" begins no option; and the options
\* come in the order of the script and do not overlap.
THEOREM OptionsAreFound == Spec => []FindsTheOptions
<1>1. LinesInv => FindsTheOptions
  <2> SUFFICES ASSUME LinesInv PROVE FindsTheOptions
    OBVIOUS
  <2>1. ASSUME pc = "done"
        PROVE  /\ {<<o.idx, (o.idx + o.size) - 1>> : o \in Reported} = Leading(code)
               /\ Broken(code) = {}
    <3>1. options = << >> /\ Found = Before(code, Len(code) + 1) /\ code \in Seq(STRING)
          /\ \A i \in Broken(code) : i >= Len(code) + 1
      BY <2>1 DEF LinesInv, LinesTypeOK, Settled
    <3>2. Found = {<<o.idx, (o.idx + o.size) - 1>> : o \in Reported}
      BY <3>1 DEF Found, Place
    <3>3. Before(code, Len(code) + 1) = Leading(code)
      <4>1. ASSUME NEW o \in Leading(code)
            PROVE  o[1] < Len(code) + 1
        <5>1. o[1] \in DOMAIN code
          BY <3>1, OptionFact DEF Leading
        <5> QED BY <3>1, <5>1
      <4> QED BY <4>1 DEF Before
    <3>4. Broken(code) = {}
      <4>1. ASSUME NEW i \in Broken(code)
            PROVE  FALSE
        <5>1. i \in DOMAIN code /\ i >= Len(code) + 1
          BY <3>1 DEF Broken
        <5> QED BY <3>1, <5>1
      <4> QED BY <4>1
    <3> QED BY <3>1, <3>2, <3>3, <3>4
  <2>2. pc = "threw" => Broken(code) # {}
    BY DEF LinesInv
  <2>3. InOrder
    BY DEF LinesInv
  <2> QED BY <2>1, <2>2, <2>3 DEF InOrder, FindsTheOptions
<1> QED BY <1>1, LinesInitially, LinesStep, PTL DEF Spec

-----------------------------------------------------------------------------

(***************************************************************************)
(* The values                                                              *)
(***************************************************************************)

\* The positions between first and last that a value keeps, behind a given one,
\* and those of a set up to a position.
Kept(s, first, last, p) == {q \in p..last : ~Drops(s, q, first, last)}
UpTo(S, p) == {q \in S : q <= p}

\* A longer value drops what the shorter one does, except at the shorter's end.
LEMMA DropsOn ==
  ASSUME NEW s, NEW first \in Nat, NEW e \in Nat, NEW f \in Nat, e <= f, NEW p \in Nat, p < e
  PROVE  Drops(s, p, first, e) <=> Drops(s, p, first, f)
<1>1. p < f
  OBVIOUS
<1> QED BY <1>1 DEF Drops

\* The last character of a value is kept.
LEMMA LastIsKept ==
  ASSUME NEW s, NEW first \in Nat, NEW e \in Nat
  PROVE  ~Drops(s, e, first, e)
BY DEF Drops

\* The sizes of two sets of positions, one behind the other.
LEMMA TwoParts ==
  ASSUME NEW A, IsFiniteSet(A), NEW B, IsFiniteSet(B), A \cap B = {}
  PROVE  /\ Cardinality(A \cup B) = Cardinality(A) + Cardinality(B)
         /\ Cardinality(A) \in Nat /\ Cardinality(B) \in Nat
<1>1. Cardinality(A \cup B) = Cardinality(A) + Cardinality(B) - Cardinality({})
  BY FS_Union
<1>2. Cardinality(A) \in Nat /\ Cardinality(B) \in Nat /\ Cardinality({}) = 0
  BY FS_CardinalityType, FS_EmptySet
<1> QED BY <1>1, <1>2

\* The rank of a member of a finite set of positions is one of its size.
LEMMA RankFact ==
  ASSUME NEW S, IsFiniteSet(S), S \subseteq Nat, NEW p \in S
  PROVE  /\ Cardinality(UpTo(S, p)) \in 1..Cardinality(S) /\ IsFiniteSet(UpTo(S, p))
         /\ Cardinality(S) \in Nat
<1>1. UpTo(S, p) \in SUBSET S /\ p \in UpTo(S, p)
  BY DEF UpTo
<1>2. IsFiniteSet(UpTo(S, p)) /\ Cardinality(UpTo(S, p)) <= Cardinality(S)
  BY <1>1, FS_Subset
<1>3. Cardinality(UpTo(S, p)) \in Nat /\ Cardinality(S) \in Nat
  BY <1>2, FS_CardinalityType
<1>4. Cardinality(UpTo(S, p)) # 0
  BY <1>1, <1>2, FS_EmptySet
<1> QED BY <1>2, <1>3, <1>4

\* What a value decodes to, with the sets named.
LEMMA DecodesFact ==
  ASSUME NEW text, NEW s, NEW first, NEW last, NEW S, S = Kept(s, first, last, first)
  PROVE  Decodes(text, s, first, last) <=>
           /\ Len(text) = Cardinality(S)
           /\ \A p \in S : text[Cardinality(UpTo(S, p))] = Becomes(s, p, first, last)
BY Zenon DEF Decodes, Kept, UpTo

\* More characters of the script are more of the text.
LEMMA DecodesMore ==
  ASSUME NEW s, NEW first \in Nat, NEW e \in Nat, NEW f \in Nat, first <= e + 1, e < f,
         NEW T, NEW text \in Seq(T), NEW x \in Seq(T), Decodes(text, s, first, e),
         first <= e => ~Drops(s, e, first, f),
         NEW K, K = Kept(s, first, f, e + 1), Len(x) = Cardinality(K),
         \A p \in K : x[Cardinality(UpTo(K, p))] = Becomes(s, p, first, f)
  PROVE  Decodes(text \o x, s, first, f)
<1>1. PICK A : A = Kept(s, first, e, first)
  OBVIOUS
<1>2. PICK B : B = Kept(s, first, f, first)
  OBVIOUS
<1>3. /\ Len(text) = Cardinality(A)
      /\ \A p \in A : text[Cardinality(UpTo(A, p))] = Becomes(s, p, first, e)
  BY <1>1, DecodesFact
<1>4. A \subseteq first..e /\ K \subseteq (e + 1)..f
  BY <1>1 DEF Kept
<1>5. IsFiniteSet(A) /\ IsFiniteSet(K) /\ A \subseteq Nat /\ K \subseteq Nat
  <2>1. IsFiniteSet(first..e) /\ IsFiniteSet((e + 1)..f)
    BY FS_Interval
  <2>2. first..e \subseteq Nat /\ (e + 1)..f \subseteq Nat
    OBVIOUS
  <2> QED BY <1>4, <2>1, <2>2, FS_Subset
<1>6. A \cap K = {}
  BY <1>4
<1>7. B = A \cup K
  <2>1. ASSUME NEW p \in first..e
        PROVE  Drops(s, p, first, e) <=> Drops(s, p, first, f)
    <3>1. CASE p < e
      BY <3>1, DropsOn
    <3>2. CASE p = e
      BY <3>2, LastIsKept
    <3> QED BY <3>1, <3>2
  <2>2. \A p : p \in first..f <=> p \in first..e \/ p \in (e + 1)..f
    OBVIOUS
  <2> QED BY <1>1, <1>2, <2>1, <2>2 DEF Kept
<1>8. /\ Cardinality(B) = Cardinality(A) + Cardinality(K)
      /\ Cardinality(A) \in Nat /\ Cardinality(K) \in Nat
  <2>1. /\ Cardinality(A \cup K) = Cardinality(A) + Cardinality(K)
        /\ Cardinality(A) \in Nat /\ Cardinality(K) \in Nat
    BY <1>5, <1>6, TwoParts
  <2> QED BY <1>7, <2>1
<1>9. PICK n \in Nat : n = Len(text)
  OBVIOUS
<1>10. PICK k \in Nat : k = Len(x)
  OBVIOUS
<1>11. /\ Len(text \o x) = n + k
       /\ \A i \in 1..n : (text \o x)[i] = text[i]
       /\ \A i \in 1..k : (text \o x)[n + i] = x[i]
  BY <1>9, <1>10
<1>12. ASSUME NEW p \in A
       PROVE  (text \o x)[Cardinality(UpTo(B, p))] = Becomes(s, p, first, f)
  <2>1. UpTo(B, p) = UpTo(A, p)
    <3>1. \A q \in K : ~(q <= p)
      BY <1>4
    <3> QED BY <1>7, <3>1 DEF UpTo
  <2>2. Cardinality(UpTo(A, p)) \in 1..n
    BY <1>3, <1>5, <1>9, RankFact
  <2>3. Becomes(s, p, first, f) = Becomes(s, p, first, e)
    <3>1. p \in Nat /\ p <= e /\ first <= p
      BY <1>4
    <3>2. p > first => p - 1 \in Nat /\ p - 1 < e /\ e <= f
      BY <3>1
    <3>3. p > first => (Drops(s, p - 1, first, e) <=> Drops(s, p - 1, first, f))
      BY <3>2, DropsOn
    <3> QED BY <3>3 DEF Becomes
  <2> QED BY <1>3, <1>11, <2>1, <2>2, <2>3
<1>13. ASSUME NEW p \in K
       PROVE  (text \o x)[Cardinality(UpTo(B, p))] = Becomes(s, p, first, f)
  <2>1. UpTo(B, p) = A \cup UpTo(K, p) /\ A \cap UpTo(K, p) = {}
    <3>1. \A q \in A : q <= p
      BY <1>4
    <3> QED BY <1>6, <1>7, <3>1 DEF UpTo
  <2>2. Cardinality(UpTo(K, p)) \in 1..k /\ IsFiniteSet(UpTo(K, p))
    BY <1>5, <1>10, RankFact
  <2>3. Cardinality(UpTo(B, p)) = n + Cardinality(UpTo(K, p))
    <3>1. Cardinality(UpTo(B, p)) = Cardinality(A) + Cardinality(UpTo(K, p))
      <4>1. Cardinality(A \cup UpTo(K, p)) = Cardinality(A) + Cardinality(UpTo(K, p))
        BY <1>5, <2>1, <2>2, TwoParts
      <4> QED BY <2>1, <4>1
    <3> QED BY <1>3, <1>9, <3>1
  <2> QED BY <1>11, <2>2, <2>3
<1>14. Len(text \o x) = Cardinality(B)
  BY <1>3, <1>8, <1>9, <1>10, <1>11
<1>15. \A p \in B : (text \o x)[Cardinality(UpTo(B, p))] = Becomes(s, p, first, f)
  BY <1>7, <1>12, <1>13
<1>16. PICK y : y = text \o x
  OBVIOUS
<1> QED BY <1>2, <1>14, <1>15, <1>16, DecodesFact

\* Characters that stand for themselves,
LEMMA PlainMore ==
  ASSUME NEW s, NEW first \in Nat, NEW e \in Nat, NEW f \in Nat, first <= e + 1, e < f,
         NEW T, NEW text \in Seq(T), NEW x \in Seq(T), Decodes(text, s, first, e),
         first <= e => ~Drops(s, e, first, f),
         \A p \in (e + 1)..f : ~Drops(s, p, first, f),
         Len(x) = f - e, \A i \in 1..(f - e) : x[i] = s[e + i]
  PROVE  Decodes(text \o x, s, first, f)
<1>1. PICK K : K = Kept(s, first, f, e + 1)
  OBVIOUS
<1>2. K = (e + 1)..f
  BY <1>1 DEF Kept
<1>3. Cardinality(K) = f - e
  <2>1. Cardinality((e + 1)..f) = (f - (e + 1)) + 1
    <3>1. e + 1 \in Int /\ f \in Int /\ ~(e + 1 > f)
      OBVIOUS
    <3> QED BY <3>1, FS_Interval
  <2> QED BY <1>2, <2>1
<1>4. ASSUME NEW p \in K
      PROVE  x[Cardinality(UpTo(K, p))] = Becomes(s, p, first, f)
  <2>1. p \in Nat /\ e + 1 <= p /\ p <= f
    BY <1>2
  <2>2. UpTo(K, p) = (e + 1)..p
    BY <1>2, <2>1 DEF UpTo
  <2>3. Cardinality((e + 1)..p) = (p - (e + 1)) + 1
    <3>1. e + 1 \in Int /\ p \in Int /\ ~(e + 1 > p)
      BY <2>1
    <3> QED BY <3>1, FS_Interval
  <2>4. PICK i : i = p - e
    OBVIOUS
  <2>5. Cardinality(UpTo(K, p)) = i /\ i \in 1..(f - e) /\ e + i = p
    BY <2>1, <2>2, <2>3, <2>4
  <2>6. x[i] = s[p]
    BY <2>5
  <2>7. ~(p > first /\ Drops(s, p - 1, first, f))
    <3>1. CASE p = e + 1
      <4>1. p - 1 = e /\ (p > first => first <= e)
        BY <3>1
      <4> QED BY <4>1
    <3>2. CASE p # e + 1
      <4>1. p - 1 \in (e + 1)..f
        BY <2>1, <3>2
      <4> QED BY <4>1
    <3> QED BY <3>1, <3>2
  <2>8. Becomes(s, p, first, f) = s[p]
    BY <2>7 DEF Becomes
  <2> QED BY <2>5, <2>6, <2>8
<1> QED BY <1>1, <1>3, <1>4, DecodesMore

\* and an escape that stands for one character.
LEMMA EscapeMore ==
  ASSUME NEW s, NEW first \in Nat, NEW e \in Nat, NEW f \in Nat, first <= e + 1, f = e + 2,
         NEW T, NEW text \in Seq(T), NEW c \in T, Decodes(text, s, first, e),
         first <= e => ~Drops(s, e, first, f), Drops(s, e + 1, first, f),
         c = IF s[f] \in DOMAIN Controls THEN Controls[s[f]] ELSE s[f]
  PROVE  Decodes(text \o <<c>>, s, first, f)
<1>1. PICK K : K = Kept(s, first, f, e + 1)
  OBVIOUS
<1>2. K = {f}
  <2>1. \A p : p \in (e + 1)..f <=> p = e + 1 \/ p = f
    OBVIOUS
  <2>2. ~Drops(s, f, first, f)
    BY LastIsKept
  <2> QED BY <1>1, <2>1, <2>2 DEF Kept
<1>3. Cardinality(K) = 1
  BY <1>2, FS_Singleton
<1>4. PICK x : x = <<c>>
  OBVIOUS
<1>5. x \in Seq(T) /\ Len(x) = 1 /\ x[1] = c
  BY <1>4
<1>6. Becomes(s, f, first, f) = c
  <2>1. f > first /\ f - 1 = e + 1
    OBVIOUS
  <2> QED BY <2>1 DEF Becomes
<1>7. ASSUME NEW p \in K
      PROVE  x[Cardinality(UpTo(K, p))] = Becomes(s, p, first, f)
  <2>1. p = f /\ UpTo(K, p) = K
    BY <1>2 DEF UpTo
  <2> QED BY <1>3, <1>5, <1>6, <2>1
<1>8. Len(x) = Cardinality(K) /\ e < f
  BY <1>3, <1>5
<1>9. Decodes(text \o x, s, first, f)
  BY <1>1, <1>5, <1>7, <1>8, DecodesMore
<1> QED BY <1>4, <1>9

\* A backslash right before p that is not escaped itself, and what it could be
\* an escape of.
Pending(p, v) ==
  /\ code[p - 1] = "\\" /\ ~IsEscaped(code, p - 1, v)
  /\ code[p] \in Escaped \cup EscapedBlanks

\* The text of a token of a value.
LEMMA TokenDecodes ==
  ASSUME LinesInv, pc = "parse", Kind # "eof", Kind # Semicolon,
         NEW v \in Nat, v <= at, NEW n, n = at + Token(at).len,
         code[at] \notin {Semicolon, "\\"} \/ ~IsEscaped(code, at, v),
         v < at => ~Pending(at, v),
         NEW text \in Seq(Chars), Decodes(text, code, v, at - 1),
         NEW x, x = IF Kind = "escape" \/ (Kind = "blank_escape" /\ at = v)
                      THEN Unescape(Text) ELSE Text
  PROVE  Decodes(text \o x, code, v, n - 1)
<1>1. /\ LineEnd \in Nat /\ LineEnd <= Len(code) + 1 /\ 1 <= at /\ at < LineEnd /\ at \in Nat
      /\ code \in Seq(STRING) /\ Kind = Token(at).kind
  BY TokenPlace
<1>2. PICK z : z = Token(at).len
  OBVIOUS
<1>3. z \in Nat /\ z >= 1 /\ at + z <= LineEnd /\ n = at + z
  BY <1>1, <1>2, TokenFact
<1>b. Kind = "blank_escape" => z = 2 /\ code[at + 1] \in EscapedBlanks
  BY <1>1, <1>2, EscapeLength
<1>4. PICK e : e = at - 1
  OBVIOUS
<1>5. PICK f : f = n - 1
  OBVIOUS
<1>6. /\ e \in Nat /\ f \in Nat /\ e + 1 = at /\ v <= e + 1 /\ e < f /\ f - e = z
      /\ f = (at + z) - 1
  BY <1>1, <1>3, <1>4, <1>5
<1>7. /\ Text \in Seq(STRING) /\ Text \in Seq(Chars) /\ Len(Text) = z
      /\ \A i \in 1..z : Text[i] = code[(at + i) - 1]
  BY <1>1, <1>2, TokenText
<1>8. Decodes(text, code, v, e)
  BY <1>4
<1>9. v <= e => ~Drops(code, e, v, f)
  <2> SUFFICES ASSUME v <= e, Drops(code, e, v, f) PROVE FALSE
    OBVIOUS
  <2>1. v < at /\ at - 1 = e
    BY <1>1, <1>4, <1>6
  <2>2. code[e] = "\\" /\ ~IsEscaped(code, e, v) /\ code[e + 1] \in Escaped \cup EscapedBlanks
    BY DEF Drops
  <2> QED BY <1>6, <2>1, <2>2 DEF Pending
<1>10. CASE Kind = "escape" \/ (Kind = "blank_escape" /\ at = v)
  <2>1. /\ z = 2 /\ code[at] = "\\"
        /\ code[at + 1] \in Escaped \cup (IF at = v THEN EscapedBlanks ELSE {})
    BY <1>1, <1>2, <1>10, TokenFact
  <2>2. f = e + 2 /\ at < f /\ f = at + 1
    BY <1>1, <1>6, <2>1
  <2>3. Drops(code, e + 1, v, f)
    BY <1>6, <2>1, <2>2 DEF Drops
  <2>4. Text[2] = code[f]
    BY <1>1, <1>7, <2>1, <2>2
  <2>5. PICK c : c = IF code[f] \in DOMAIN Controls THEN Controls[code[f]] ELSE code[f]
    OBVIOUS
  <2>6. x = <<c>>
    BY <1>10, <2>4, <2>5 DEF Unescape
  <2>7. c \in Chars
    <3>1. code[f] \in STRING
      BY <1>1, <1>3, <2>1, <2>2
    <3>2. \A y \in DOMAIN Controls : Controls[y] \in Chars
      BY DEF Controls, Chars
    <3> QED BY <2>5, <3>1, <3>2 DEF Chars
  <2> QED BY <1>5, <1>6, <1>8, <1>9, <2>2, <2>3, <2>5, <2>6, <2>7, EscapeMore
<1>11. CASE ~(Kind = "escape" \/ (Kind = "blank_escape" /\ at = v))
  <2>1. x = Text
    BY <1>11
  <2>2. \A i \in 1..(f - e) : x[i] = code[e + i]
    <3>1. ASSUME NEW i \in 1..z
          PROVE  (at + i) - 1 = e + i
      BY <1>1, <1>3, <1>4
    <3> QED BY <1>6, <1>7, <2>1, <3>1
  <2>3. ASSUME NEW p \in (e + 1)..f
        PROVE  ~Drops(code, p, v, f)
    <3>1. p \in Nat /\ at <= p /\ p <= f
      BY <1>6
    <3>2. CASE p = f
      BY <1>6, <3>2, LastIsKept
    <3>3. CASE p # f
      <4>1. z # 1
        BY <1>1, <1>6, <3>1, <3>3
      <4>2. Kind \in {"blanks", "letters", "blank_escape"}
        <5>1. Kind \in Kinds /\ (Kind \in {"%", Semicolon, "other"} => z = 1)
          BY <1>1, <1>2, TokenFact
        <5> QED BY <1>11, <4>1, <5>1 DEF Kinds
      <4>3. CASE Kind \in {"blanks", "letters"}
        <5>1. \A i \in at..(at + z - 1) : code[i] \in Blanks \cup Letters
          BY <1>1, <1>2, <4>3, TokenFact
        <5>2. p \in at..(at + z - 1)
          BY <1>1, <1>3, <1>6, <3>1
        <5>3. code[p] # "\\"
          BY <5>1, <5>2, CharactersAssumption
        <5> QED BY <5>3 DEF Drops
      <4>4. CASE Kind = "blank_escape"
        <5>0. at # v
          BY <1>11, <4>4
        <5>1. z = 2 /\ code[at + 1] \in EscapedBlanks
          BY <1>b, <4>4
        <5>2. p = at
          BY <1>1, <1>6, <3>1, <3>3, <5>1
        <5>3. code[p + 1] \notin Escaped /\ p # v
          BY <5>0, <5>1, <5>2, EscapedAssumption
        <5> QED BY <5>3 DEF Drops
      <4> QED BY <4>2, <4>3, <4>4
    <3> QED BY <3>2, <3>3
  <2>4. x \in Seq(Chars) /\ Len(x) = f - e
    BY <1>6, <1>7, <2>1
  <2> QED BY <1>5, <1>6, <1>8, <1>9, <2>2, <2>3, <2>4, PlainMore
<1> QED BY <1>10, <1>11

\* No token ends between a backslash and what it escapes.
LEMMA NothingPending ==
  ASSUME LinesInv, pc = "parse", Kind # "eof", Kind # Semicolon,
         NEW v \in Nat, v <= at, NEW n, n = at + Token(at).len,
         code[at] \notin {Semicolon, "\\"} \/ ~IsEscaped(code, at, v)
  PROVE  n = LineEnd \/ ~Pending(n, v)
<1>1. /\ LineEnd \in Nat /\ at < LineEnd /\ at \in Nat /\ Kind = Token(at).kind
  BY TokenPlace
<1>2. PICK z : z = Token(at).len
  OBVIOUS
<1>3. z \in Nat /\ z >= 1 /\ n = at + z /\ Kind \in Kinds
  BY <1>1, <1>2, TokenFact
<1>4. CASE Kind \in {"blanks", "letters"}
  <2>1. \A i \in at..(at + z - 1) : code[i] \in Blanks \cup Letters
    BY <1>1, <1>2, <1>4, TokenFact
  <2>2. n - 1 \in at..(at + z - 1)
    BY <1>1, <1>3
  <2>3. code[n - 1] # "\\"
    BY <2>1, <2>2, CharactersAssumption
  <2> QED BY <2>3 DEF Pending
<1>5. CASE Kind \in {"%", "other"}
  <2>1. /\ z = 1 /\ (Kind = "%" => code[at] = "%")
        /\ Kind = "other" => \/ code[at] # "\\" \/ at + 1 = LineEnd
                             \/ code[at + 1] \notin Escaped \cup EscapedBlanks
    BY <1>1, <1>2, <1>5, TokenFact
  <2>2. n - 1 = at /\ n = at + 1
    BY <1>1, <1>3, <2>1
  <2> QED BY <1>5, <2>1, <2>2 DEF Pending
<1>6. CASE Kind \in {"escape", "blank_escape"}
  <2>1. z = 2 /\ code[at] = "\\"
    BY <1>1, <1>2, <1>6, TokenFact
  <2>2. n - 1 = at + 1
    BY <1>1, <1>3, <2>1
  <2>3. IsEscaped(code, at + 1, v)
    BY <1>1, <2>1, EscapedBehind
  <2> QED BY <2>2, <2>3 DEF Pending
<1> QED BY <1>3, <1>4, <1>5, <1>6 DEF Kinds

\* An option has the value that the script has between its ends; of the one the
\* parser is reading this is so up to its place.
Decoded(o) == Decodes(o.value, code, ValueStart(code, o.idx), (o.idx + o.size) - 2)

Decoding ==
  LET v == ValueStart(code, option.idx)
  IN Decodes(option.value, code, v, at - 1) /\ (at = LineEnd \/ ~Pending(at, v))

DecodeInv ==
  /\ \A o \in Reported : Decoded(o)
  /\ \A n \in DOMAIN options : Decoded(options[n])
  /\ pc = "parse" /\ mode = "value" => Decoding

\* What was read keeps its value where the parser reads no value.
LEMMA DecodedStay ==
  ASSUME DecodeInv, code' = code, result' = result, options' \in {options, << >>},
         pc' = "parse" /\ mode' = "value" => Decoding'
  PROVE  DecodeInv'
<1>1. Reported' = Reported
  BY DEF Reported
<1>2. \A o \in Reported' : Decoded(o)'
  BY <1>1 DEF DecodeInv, Decoded
<1>3. \A n \in DOMAIN options' : Decoded(options[n])'
  BY DEF DecodeInv, Decoded
<1> QED BY <1>2, <1>3 DEF DecodeInv

\* The value is right behind its first token,
LEMMA BeginValueDecodes ==
  ASSUME LinesInv, DecodeInv, BeginValue, LinesInv'
  PROVE  DecodeInv'
<1>1. PICK x : x = IF Kind \in {"escape", "blank_escape"} THEN Unescape(Text) ELSE Text
  OBVIOUS
<1>2. mode = "first" /\ Shift("value", [option EXCEPT !.value = x]) /\ options' = options
  BY <1>1 DEF BeginValue
<1>3. option \in ScriptOption /\ option.idx \in Nat
  BY OptionStays
<1>4. /\ pc = "parse" /\ Kind \in Shifts(mode) /\ pc' = "parse" /\ mode' = "value"
      /\ option' = [option EXCEPT !.value = x] /\ at' = at + Token(at).len
      /\ code' = code /\ line' = line /\ result' = result
  BY <1>2 DEF Shift
<1>5. Kind \in {"letters", "other", "escape", "blank_escape"}
  BY <1>2, <1>4, ShiftsFact
<1>6. Kind # "eof" /\ Kind # Semicolon /\ Kind # "%" /\ Kind # "blanks"
  BY <1>5, SemicolonFact
<1>7. /\ LineEnd \in Nat /\ LineEnd <= Len(code) + 1 /\ 1 <= at /\ at < LineEnd /\ at \in Nat
      /\ code \in Seq(STRING) /\ Parsing /\ IsLine(code, line.start, LineEnd)
      /\ line.start \in Nat /\ line.start <= at /\ Kind = Token(at).kind
  BY <1>4, <1>6, TokenPlace
<1>9. ValueStart(code, option.idx) = at
  BY <1>2, <1>4, <1>5, ValueBegins
<1>10. option'.value = x /\ option'.idx = option.idx
  BY <1>3, <1>4 DEF ScriptOption
<1>11. LineEnd' = LineEnd
  BY <1>4 DEF LineEnd
<1>12. ~IsEscaped(code, at, at) /\ at <= at
  BY <1>7, NotEscaped
<1>13. Decodes(<< >>, code, at, at - 1)
  <2>1. Kept(code, at, at - 1, at) = {}
    BY <1>7 DEF Kept
  <2>2. Len(<< >>) = Cardinality({})
    BY FS_EmptySet
  <2> QED BY <2>1, <2>2, DecodesFact
<1>14. x = IF Kind = "escape" \/ (Kind = "blank_escape" /\ at = at) THEN Unescape(Text) ELSE Text
  BY <1>1
<1>15. PICK n : n = at + Token(at).len
  OBVIOUS
<1>16. PICK text : text = << >>
  OBVIOUS
<1>17. text \in Seq(Chars) /\ Decodes(text, code, at, at - 1)
  <2>1. << >> \in Seq(Chars)
    OBVIOUS
  <2> QED BY <1>13, <1>16, <2>1
<1>18. Decodes(text \o x, code, at, n - 1)
  <2>1. at < at => ~Pending(at, at)
    BY <1>7
  <2> QED BY <1>4, <1>6, <1>7, <1>12, <1>14, <1>15, <1>17, <2>1, TokenDecodes
<1>19. text \o x = x
  <2>1. x \in Seq(Chars)
    <3>1. Text \in Seq(STRING) /\ Text \in Seq(Chars) /\ Len(Text) = Token(at).len
      BY <1>7, TokenText
    <3>2. Kind \in {"escape", "blank_escape"} => Token(at).len = 2
      BY <1>7, EscapeLength
    <3>3. Kind \in {"escape", "blank_escape"} => Unescape(Text) \in Seq(Chars)
      BY <3>1, <3>2, UnescapedText
    <3> QED BY <1>1, <3>1, <3>3
  <2> QED BY <1>16, <2>1
<1>20. n = LineEnd \/ ~Pending(n, at)
  BY <1>4, <1>6, <1>7, <1>12, <1>15, NothingPending
<1>21. Decoding'
  <2>1. ValueStart(code', option'.idx) = at /\ at' = n
    BY <1>4, <1>9, <1>10, <1>15
  <2> QED BY <1>4, <1>10, <1>11, <1>18, <1>19, <1>20, <2>1 DEF Decoding, Pending
<1> QED BY <1>2, <1>4, <1>21, DecodedStay

\* behind each later one,
LEMMA ExtendValueDecodes ==
  ASSUME LinesInv, DecodeInv, ExtendValue
  PROVE  DecodeInv'
<1>1. PICK x : x = Extends
  OBVIOUS
<1>2. PICK text : text = option.value
  OBVIOUS
<1>3. /\ mode = "value" /\ Kind # Semicolon /\ options' = options
      /\ Shift("value", [option EXCEPT !.value = text \o x])
  <2>1. [option EXCEPT !.value = @ \o Extends] = [option EXCEPT !.value = text \o x]
    BY <1>1, <1>2
  <2> QED BY <2>1 DEF ExtendValue
<1>4. option \in ScriptOption /\ option.idx \in Nat
  BY OptionStays
<1>5. /\ pc = "parse" /\ Kind \in Shifts(mode) /\ pc' = "parse" /\ mode' = "value"
      /\ option' = [option EXCEPT !.value = text \o x] /\ at' = at + Token(at).len
      /\ code' = code /\ line' = line /\ result' = result
  BY <1>3 DEF Shift
<1>6. Kind # "eof"
  <2>1. mode \in Modes
    BY <1>3 DEF Modes
  <2> QED BY <1>5, <2>1, ShiftsKinds
<1>7. /\ LineEnd \in Nat /\ at < LineEnd /\ at \in Nat /\ code \in Seq(STRING) /\ Parsing
  BY <1>5, <1>6, TokenPlace
<1>8. PICK v : v = ValueStart(code, option.idx)
  OBVIOUS
<1>9. v < at /\ (code[at] \notin {Semicolon, "\\"} \/ ~IsEscaped(code, at, v))
  <2>1. InValue
    BY <1>3, <1>7 DEF Parsing
  <2> QED BY <1>7, <1>8, <2>1 DEF InValue
<1>10. v \in Nat /\ v <= at /\ at # v
  <2>1. v \in Nat
    BY <1>4, <1>7, <1>8, ValueStartFact
  <2> QED BY <1>7, <1>9, <2>1
<1>11. Decodes(text, code, v, at - 1) /\ ~Pending(at, v)
  <2>1. Decoding
    BY <1>3, <1>5 DEF DecodeInv
  <2> QED BY <1>2, <1>7, <1>8, <2>1 DEF Decoding
<1>12. x = IF Kind = "escape" \/ (Kind = "blank_escape" /\ at = v) THEN Unescape(Text) ELSE Text
  BY <1>1, <1>10 DEF Extends
<1>13. text \in Seq(Chars)
  BY <1>2, <1>4 DEF ScriptOption
<1>14. PICK n : n = at + Token(at).len
  OBVIOUS
<1>15. Decodes(text \o x, code, v, n - 1)
  BY <1>3, <1>5, <1>6, <1>9, <1>10, <1>11, <1>12, <1>13, <1>14, TokenDecodes
<1>16. n = LineEnd \/ ~Pending(n, v)
  BY <1>3, <1>5, <1>6, <1>9, <1>10, <1>14, NothingPending
<1>17. option'.value = text \o x /\ option'.idx = option.idx
  BY <1>4, <1>5 DEF ScriptOption
<1>18. LineEnd' = LineEnd
  BY <1>5 DEF LineEnd
<1>19. Decoding'
  <2>1. ValueStart(code', option'.idx) = v /\ at' = n
    BY <1>5, <1>8, <1>14, <1>17
  <2> QED BY <1>5, <1>15, <1>16, <1>17, <1>18, <2>1 DEF Decoding, Pending
<1> QED BY <1>3, <1>5, <1>19, DecodedStay

\* and at its end.
LEMMA EndOptionDecodes ==
  ASSUME LinesInv, DecodeInv, EndOption
  PROVE  DecodeInv'
<1>1. PICK z : z = at - option.idx + 1
  OBVIOUS
<1>2. PICK o : o = [option EXCEPT !.size = z]
  OBVIOUS
<1>3. /\ mode = "value" /\ Kind = Semicolon /\ Shift("start", NoOption)
      /\ options' = Append(options, o)
  BY <1>1, <1>2 DEF EndOption
<1>4. option \in ScriptOption /\ option.idx \in Nat
  BY OptionStays
<1>5. pc = "parse" /\ pc' = "parse" /\ mode' = "start" /\ code' = code /\ result' = result
  BY <1>3 DEF Shift
<1>6. at \in Nat /\ options \in Seq(ScriptOption)
  BY DEF LinesInv, LinesTypeOK
<1>7. option.idx < at
  <2>1. mode \in Opened /\ Parsing
    BY <1>3, <1>5 DEF Opened, LinesInv
  <2> QED BY <2>1 DEF Parsing, InOption
<1>8. o.idx = option.idx /\ o.value = option.value /\ o.size = z /\ o \in ScriptOption
  <2>1. z \in Nat
    BY <1>1, <1>4, <1>6, <1>7
  <2> QED BY <1>2, <1>4, <2>1 DEF ScriptOption
<1>9. (o.idx + o.size) - 2 = at - 1
  BY <1>1, <1>4, <1>6, <1>8
<1>10. Decoding
  BY <1>3, <1>5 DEF DecodeInv
<1>11. Decodes(o.value, code, ValueStart(code, o.idx), (o.idx + o.size) - 2)
  BY <1>8, <1>9, <1>10 DEF Decoding
<1>12. ASSUME NEW n \in DOMAIN options'
       PROVE  Decoded(options[n])'
  <2>1. CASE n \in DOMAIN options /\ options'[n] = options[n]
    BY <1>5, <2>1 DEF DecodeInv, Decoded
  <2>2. CASE options'[n] = o
    BY <1>5, <1>11, <2>2 DEF Decoded
  <2>3. \/ n \in DOMAIN options /\ options'[n] = options[n]
        \/ options'[n] = o
    <3>1. PICK k \in Nat : k = Len(options) /\ DOMAIN options = 1..k
      BY <1>6
    <3>2. /\ DOMAIN options' = 1..(k + 1) /\ options'[k + 1] = o
          /\ \A m \in 1..k : options'[m] = options[m]
      BY <1>3, <1>6, <1>8, <3>1
    <3>3. n \in 1..k \/ n = k + 1
      BY <3>1, <3>2
    <3> QED BY <3>1, <3>2, <3>3
  <2> QED BY <2>1, <2>2, <2>3
<1>13. Reported' = Reported
  BY <1>5 DEF Reported
<1>14. \A p \in Reported' : Decoded(p)'
  BY <1>5, <1>13 DEF DecodeInv, Decoded
<1>15. mode' # "value"
  BY <1>5
<1> QED BY <1>12, <1>14, <1>15 DEF DecodeInv

\* An option is pushed as it is.
LEMMA PushOptionDecodes ==
  ASSUME LinesInv, DecodeInv, PushOption
  PROVE  DecodeInv'
<1>1. /\ pc = "push" /\ options # << >> /\ result' = Pushed(Head(options))
      /\ options' = Tail(options) /\ pc' = pc /\ code' = code
  BY DEF PushOption
<1>2. LinesTypeOK /\ options \in Seq(ScriptOption)
  BY DEF LinesInv, LinesTypeOK
<1>3. PICK o : o = Head(options)
  OBVIOUS
<1>4. 1 \in DOMAIN options /\ o = options[1] /\ o \in ScriptOption
  BY <1>1, <1>2, <1>3
<1>5. Reported' = Reported \cup {o}
  BY <1>1, <1>2, <1>3, <1>4, PushedReported
<1>6. \A p \in Reported' : Decoded(p)'
  BY <1>1, <1>4, <1>5 DEF DecodeInv, Decoded
<1>7. ASSUME NEW n \in DOMAIN options'
      PROVE  Decoded(options[n])'
  <2>1. n + 1 \in DOMAIN options /\ options'[n] = options[n + 1]
    BY <1>1, <1>2
  <2> QED BY <1>1, <2>1 DEF DecodeInv, Decoded
<1>8. pc' # "parse"
  BY <1>1
<1> QED BY <1>6, <1>7, <1>8 DEF DecodeInv

\* Every step keeps the values right.
LEMMA DecodeStep ==
  ASSUME LinesInv, DecodeInv, LinesInv', [Next]_vars
  PROVE  DecodeInv'
<1>1. CASE EnterLine
  <2>1. code' = code /\ result' = result /\ options' = << >> /\ mode' = "start"
    BY <1>1 DEF EnterLine
  <2>2. mode' # "value"
    BY <2>1
  <2> QED BY <2>1, <2>2, DecodedStay
<1>2. CASE NoMoreOptions \/ EndLine \/ LeaveLine \/ SyntaxError
  <2>1. code' = code /\ result' = result /\ options' = options /\ pc' # "parse"
    BY <1>2 DEF NoMoreOptions, EndLine, LeaveLine, SyntaxError
  <2> QED BY <2>1, DecodedStay
<1>3. CASE ReadBlanks \/ ReadRest \/ BeginOption \/ ReadKey \/ ReadGap
  <2>1. code' = code /\ result' = result /\ options' = options
    BY <1>3 DEF ReadBlanks, ReadRest, BeginOption, ReadKey, ReadGap, Shift
  <2>2. mode' \in {"blanks", "rest", "key", "gap", "first"}
    BY <1>3 DEF ReadBlanks, ReadRest, BeginOption, ReadKey, ReadGap, Shift
  <2>3. mode' # "value"
    BY <2>2
  <2> QED BY <2>1, <2>3, DecodedStay
<1>4. CASE UNCHANGED vars
  <2>1. /\ code' = code /\ result' = result /\ options' = options /\ pc' = pc /\ mode' = mode
        /\ option' = option /\ at' = at /\ line' = line
    BY <1>4 DEF vars
  <2>2. LineEnd' = LineEnd
    BY <2>1 DEF LineEnd
  <2>3. pc' = "parse" /\ mode' = "value" => Decoding'
    BY <2>1, <2>2 DEF DecodeInv, Decoding, Pending
  <2> QED BY <2>1, <2>3, DecodedStay
<1> QED BY <1>1, <1>2, <1>3, <1>4, BeginValueDecodes, ExtendValueDecodes, EndOptionDecodes,
        PushOptionDecodes DEF Next

\* For scripts of any length: a value that parseOptions reports is the text of
\* the script with each escape replaced by the character it stands for, and with
\* the escapes of white space kept anywhere but at the start.
THEOREM ValuesAreDecoded == Spec => []ValuesDecoded
<1>1. Init => DecodeInv
  <2> SUFFICES ASSUME Init PROVE DecodeInv
    OBVIOUS
  <2>1. Reported = {} /\ DOMAIN options = {} /\ pc # "parse"
    BY DEF Init, Reported
  <2> QED BY <2>1 DEF DecodeInv
<1>2. DecodeInv => ValuesDecoded
  BY DEF DecodeInv, Decoded, ValuesDecoded
<1> QED BY <1>1, <1>2, LinesInitially, LinesStep, DecodeStep, PTL DEF Spec
=============================================================================
