----------------------------- MODULE CtpgLexer -----------------------------
(***************************************************************************)
(* The lexical side of ctpg: regex_lexer, which cuts a pattern into the    *)
(* terms of the regex grammar; dfa_builder, which that grammar's rules     *)
(* call to put an automaton together in one vector, in place; and          *)
(* dfa_match, which runs the automaton on a text.                          *)
(*                                                                         *)
(* A pattern and a text are sequences of characters.  A slice of the       *)
(* automaton is the record of its first state and its number of states;    *)
(* `size' is what dfa_size_analyzer takes that number for, before anything *)
(* is built.                                                               *)
(***************************************************************************)
EXTENDS Naturals, SequencesExt

CONSTANT Ascii   \* characters with their codes, in the order of the codes

Chars == [i \in DOMAIN Ascii |-> Ascii[i][2]]
Code == [c \in Range(Chars) |-> Ascii[SelectInSeq(Ascii, LAMBDA a : a[2] = c)][1]]

CharRange(c1, c2) == {c \in Range(Chars) : Code[c1] <= Code[c] /\ Code[c] <= Code[c2]}

IsPrintable(c) == Code[c] \in 32..126
IsDecDigit(c) == Code[c] \in 48..57
IsHexDigit(c) == IsDecDigit(c) \/ Code[c] \in 65..70 \/ Code[c] \in 97..102

\* hex_digits_to_char
HexChar(d1, d2) ==
  LET Digit(d) == IF IsDecDigit(d) THEN Code[d] - 48 ELSE (Code[d] % 32) + 9
  IN CHOOSE c \in Range(Chars) : Code[c] = 16 * Digit(d1) + Digit(d2)

-----------------------------------------------------------------------------

(***************************************************************************)
(* regex_lexer: terms of a pattern.  A length of zero without ok is no     *)
(* term; Symbol reads the terminating null behind the end.                 *)
(***************************************************************************)

Symbol(s, i) == IF i \in DOMAIN s THEN s[i] ELSE "null"
Printable(s, i) == i \in DOMAIN s /\ IsPrintable(s[i])

No == [ok |-> FALSE, len |-> 0]
Yes(n) == [ok |-> TRUE, len |-> n]

\* match_escaped
MatchEscaped(s, i) ==
  LET Hex(j) == j \in DOMAIN s /\ IsHexDigit(s[j])
  IN IF Symbol(s, i) # "\\" THEN Yes(0)
     ELSE IF i = Len(s) THEN No
     ELSE IF s[i + 1] # "x" THEN [ok |-> IsPrintable(s[i + 1]), len |-> 2]
     ELSE Yes(CASE ~Hex(i + 2) -> 2 [] Hex(i + 2) /\ ~Hex(i + 3) -> 3 [] OTHER -> 4)

\* The second match, when the first one neither failed nor matched anything.
OrElse(m1, m2) == IF ~m1.ok \/ m1.len # 0 THEN m1 ELSE m2

MatchPrintable(s, i) == IF Printable(s, i) THEN Yes(1) ELSE No

\* One character of a set, escaped or printable.
MatchChar(s, i) == OrElse(MatchEscaped(s, i), MatchPrintable(s, i))

\* A range whose first character ends before its "-".
MatchRangeEnd(s, dash, first, last) ==
  IF dash = Len(s) \/ Symbol(s, dash + 1) = "]" \/ ~last.ok THEN No
  ELSE Yes(first.len + 1 + last.len)

\* The first character of an item is matched; a "-" behind it makes it a range.
MatchItemFrom(s, i, first) ==
  LET dash == i + first.len
  IN IF ~first.ok \/ Symbol(s, dash) # "-" THEN first
     ELSE MatchRangeEnd(s, dash, first, MatchChar(s, dash + 1))

\* match_range_item: a character or a range of a set.
MatchRangeItem(s, i) == MatchItemFrom(s, i, MatchChar(s, i))

RECURSIVE ItemsEnd(_, _)

\* Where the "]" is that ends the items from i on, 0 if there is none.
ItemsEnd(s, i) ==
  LET item == MatchRangeItem(s, i)
  IN IF Symbol(s, i) = "]" THEN i
     ELSE IF i > Len(s) \/ ~item.ok THEN 0
     ELSE ItemsEnd(s, i + item.len)

\* match_range
MatchRange(s, i) ==
  LET last == ItemsEnd(s, IF Symbol(s, i + 1) = "^" THEN i + 2 ELSE i + 1)
  IN IF s[i] # "[" THEN Yes(0) ELSE IF last = 0 THEN No ELSE Yes(last - i + 1)

\* match_primary
MatchPrimary(s, i) ==
  OrElse(MatchEscaped(s, i), OrElse(MatchRange(s, i), MatchPrintable(s, i)))

NoTerm == [term |-> "none", len |-> 0]
PrimaryTerm(m) == IF m.ok THEN [term |-> "primary", len |-> m.len] ELSE NoTerm

\* regex_lexer::match
RegexMatch(s, i) ==
  CASE s[i] \in {"*", "+", "?", "|", "(", ")", "{", "}"} -> [term |-> s[i], len |-> 1]
    [] IsDecDigit(s[i]) -> [term |-> "digit", len |-> 1]
    [] OTHER -> PrimaryTerm(MatchPrimary(s, i))

\* regex_char: the character that an item of a set, or a primary, stands for.
RegexChar(s, i) ==
  LET e == MatchEscaped(s, i)
  IN IF s[i] # "\\" THEN [char |-> s[i], len |-> 1]
     ELSE IF s[i + 1] # "x" THEN [char |-> s[i + 1], len |-> 2]
     ELSE [len |-> e.len,
           char |-> CASE e.len = 2 -> "null"
                      [] e.len = 3 -> HexChar("0", s[i + 2])
                      [] e.len = 4 -> HexChar(s[i + 2], s[i + 3])]

RECURSIVE Items(_, _)

\* The loop of string_view_to_subset.  The end of a range is read again as a
\* character of its own.
Items(s, i) ==
  LET c == RegexChar(s, i)
      j == i + c.len
  IN IF s[i] = "]" THEN {}
     ELSE IF s[j] = "-" THEN CharRange(c.char, RegexChar(s, j + 1).char) \cup Items(s, j + 1)
     ELSE {c.char} \cup Items(s, j)

\* string_view_to_subset: the characters that a primary matches.
Subset(s) ==
  CASE s[1] = "." -> Range(Chars)
    [] s[1] = "[" -> IF s[2] = "^" THEN Range(Chars) \ Items(s, 3) ELSE Items(s, 2)
    [] OTHER -> {RegexChar(s, 1).char}

-----------------------------------------------------------------------------

(***************************************************************************)
(* dfa_builder.  A state has the character's successors `to', is the start *)
(* or an end of a slice, and lists the terms that end in it.               *)
(***************************************************************************)

MaxConflicts == 4
NewState == [start |-> FALSE, end |-> FALSE, terms |-> << >>, to |-> << >>]

\* mark_end_state: a term is remembered while there is room for it.
MarkEnd(sm, q, term) ==
  IF sm[q].end /\ Len(sm[q].terms) < MaxConflicts
    THEN [sm EXCEPT ![q].terms = Append(@, term)] ELSE sm

States(s) == [i \in 1..s.n |-> s.start + i - 1]
MarkEnds(sm, s, term) == FoldLeft(LAMBDA m, q : MarkEnd(m, q, term), sm, States(s))

RECURSIVE Merge(_, _, _, _)
RECURSIVE MergeTransitions(_, _, _, _, _)

\* What `to' does not do for one of the characters, it does as `from'.
Adopt(sm, to, from, cs) ==
  [sm EXCEPT ![to].to = @ @@ [c \in cs \cap DOMAIN sm[from].to |-> sm[from].to[c]]]

\* The loop of merge over the characters: when both have a successor, these are
\* merged in turn, whoever else shares them.
MergeTransitions(sm, to, from, keepEnd, chars) ==
  LET k == SelectInSeq(chars, LAMBDA c : c \in DOMAIN sm[from].to /\ c \in DOMAIN sm[to].to)
  IN IF k = 0 THEN Adopt(sm, to, from, Range(chars))
     ELSE MergeTransitions(
            Merge(Adopt(sm, to, from, Range(SubSeq(chars, 1, k))),
                  sm[to].to[chars[k]], sm[from].to[chars[k]], keepEnd),
            to, from, keepEnd, SubSeq(chars, k + 1, Len(chars)))

\* merge: everything that `from' can do, `to' can do as well.
Merge(sm, to, from, keepEnd) ==
  LET begun == [sm EXCEPT ![from].start = FALSE,
                          ![to].end = sm[from].end \/ (keepEnd /\ sm[to].end)]
      merged == MergeTransitions(begun, to, from, keepEnd, Chars)
  IN IF to = from THEN sm
     ELSE FoldLeft(LAMBDA m, t : MarkEnd(m, to, t), merged, merged[from].terms)

\* A start state is merged into every end state of slice s.
MergeEnds(sm, s, from, keepEnd) ==
  FoldLeft(LAMBDA m, q : IF m[q].end THEN Merge(m, q, from, keepEnd) ELSE m, sm, States(s))

Built(sm, start, n, size) == [sm |-> sm, value |-> [start |-> start, n |-> n, size |-> size]]

\* primary_subset, primary_char
Primary(sm, cs) ==
  LET n == Len(sm)
  IN Built(sm \o <<[NewState EXCEPT !.start = TRUE, !.to = [c \in cs |-> n + 2]],
                   [NewState EXCEPT !.end = TRUE]>>, n + 1, 2, 2)

Star(sm, s) ==
  Built(MergeEnds([sm EXCEPT ![s.start].end = TRUE], s, s.start, FALSE), s.start, s.n, s.size)

Plus(sm, s) == Built(MergeEnds(sm, s, s.start, TRUE), s.start, s.n, s.size)

Opt(sm, s) == Built([sm EXCEPT ![s.start].end = TRUE], s.start, s.n, s.size)

Cat(sm, s1, s2) ==
  Built(MergeEnds(sm, s1, s2.start, FALSE), s1.start, s1.n + s2.n, s1.size + s2.size)

Alt(sm, s1, s2) ==
  Built(Merge(sm, s1.start, s2.start, TRUE), s1.start, s1.n + s2.n, s1.size + s2.size)

\* rep with zero: the start accepts and leads nowhere.
RepNone(sm, s) ==
  Built([q \in DOMAIN sm |->
           IF q \in Range(States(s)) /\ sm[q].start
             THEN [sm[q] EXCEPT !.to = << >>, !.end = TRUE, !.start = FALSE] ELSE sm[q]],
        s.start, s.n, s.size)

\* The slip of an analyzer that does not multiply.
RepSizeOnce(s, n) == s.size

\* dfa_size_analyzer::rep
RepSize(s, n) == s.size * n

\* rep: n - 1 copies behind the slice, then one concatenation after the other.
Rep(sm, s, n) ==
  LET Copy(k) == [i \in 1..s.n |->
                    LET q == sm[s.start + i - 1]
                    IN [q EXCEPT !.to = [c \in DOMAIN q.to |-> q.to[c] + s.n * k]]]
      copied == sm \o FlattenSeq([k \in 1..(n - 1) |-> Copy(k)])
      Join(b, k) == Cat(b.sm, b.value,
                        [start |-> b.value.start + b.value.n, n |-> s.n, size |-> s.size])
      joined == FoldLeft(Join, Built(copied, s.start, s.n, s.size), [k \in 1..(n - 1) |-> k])
  IN IF n = 0 THEN RepNone(sm, s)
     ELSE [joined EXCEPT !.value.size = RepSize(s, n)]

-----------------------------------------------------------------------------

(***************************************************************************)
(* The terms of a grammar in its automaton, and matching                   *)
(***************************************************************************)

\* The last step of add_term_data_to_dfa: slice s recognises the term, and the
\* start of the whole automaton does what the start of s does.
AddTerm(sm, s, term) == Merge(MarkEnds(sm, s, term), 1, s.start, TRUE)

\* add_term_data_to_dfa of a character or a string.
AddString(sm, str, term) ==
  LET Join(b, c) == LET one == Primary(b.sm, {c}) IN Cat(one.sm, b.value, one.value)
      whole == FoldLeft(Join, Primary(sm, {Head(str)}), Tail(str))
  IN AddTerm(whole.sm, whole.value, term)

RECURSIVE Walk(_, _, _, _, _)

\* The slip of a match that ends with the first term that is recognised.
WalkShortest(sm, q, text, at, best) ==
  IF sm[q].terms # << >> THEN [term |-> sm[q].terms[1], end |-> at]
  ELSE IF at > Len(text) \/ text[at] \notin DOMAIN sm[q].to THEN best
  ELSE Walk(sm, sm[q].to[text[at]], text, at + 1, best)

\* The loop of dfa_match in state q: the last term that was recognised counts.
Walk(sm, q, text, at, best) ==
  LET now == IF sm[q].terms # << >> THEN [term |-> sm[q].terms[1], end |-> at] ELSE best
  IN IF at > Len(text) \/ text[at] \notin DOMAIN sm[q].to THEN now
     ELSE Walk(sm, sm[q].to[text[at]], text, at + 1, now)

\* dfa_match
DfaMatch(sm, text, at) ==
  LET m == Walk(sm, 1, text, at, [term |-> "none", end |-> at])
  IN [term |-> m.term, len |-> m.end - at]
=============================================================================
