-------------------------- MODULE OptionLinesCtpg --------------------------
(***************************************************************************)
(* parseOptions, the script options parser of version 2.  It visits every  *)
(* line that has a "%" and runs a generated LR parser on it, token by      *)
(* token; a conflict of shift and reduce is a shift, so white space and    *)
(* "%" after the options of a line always begin another option.            *)
(*                                                                         *)
(* The result maps a key to its options in the order of the script, each   *)
(* with the place where the callers cut it out again.                      *)
(***************************************************************************)
EXTENDS OptionText

CONSTANTS
  Escaped,          \* what may follow a backslash anywhere in a value: ; \ n r
  EscapedBlanks     \* what may follow it at the start: space and t f v

ASSUME EscapedAssumption ==
  /\ {Semicolon, "\\"} \subseteq Escaped
  /\ Escaped \cap EscapedBlanks = {}

VARIABLES
  pc,        \* "next" before getNextLine, "parse" in a line, "push" behind it,
             \* "done" or "threw"
  from,      \* current_pos
  line,      \* LinePositions of the current line; last is 0 for npos
  at,        \* the next character of the line
  mode,      \* what the LR parser has seen of the text
  option,    \* the option it is reading
  options,   \* the options of the line that are read and not yet pushed
  result     \* options_map_t

vars == <<code, pc, from, line, at, mode, option, options, result>>

NoOption == [key |-> << >>, value |-> << >>, idx |-> 0, size |-> 0]

Init ==
  /\ code \in Scripts
  /\ pc = "next"
  /\ from = 1
  /\ line = [start |-> 1, last |-> 0]
  /\ at = 1
  /\ mode = "start"
  /\ option = NoOption
  /\ options = << >>
  /\ result = [key \in {} |-> << >>]

\* One behind the last character of the line.
LineEnd == IF line.last = 0 THEN Len(code) + 1 ELSE line.last

-----------------------------------------------------------------------------

(***************************************************************************)
(* Tokens                                                                  *)
(***************************************************************************)

\* The length of the longest run of characters of C from p on in the line.
Run(C, p) == Max({n \in 0..(LineEnd - p) : \A i \in p..(p + n - 1) : code[i] \in C})

Reads(p, C) == code[p] \in C
Escapes(p, C) == code[p] = "\\" /\ p + 1 < LineEnd /\ code[p + 1] \in C

\* A character that no pattern but that of a single one matches.
Single(p) ==
  /\ ~Reads(p, Blanks \cup Letters \cup {"%", Semicolon})
  /\ ~Escapes(p, Escaped \cup EscapedBlanks)

\* The kind and length of the token at p: the longest match, and of two
\* equally long ones the term that is declared first.
Token(p) ==
  CASE Reads(p, {"%"}) -> [kind |-> "%", len |-> 1]
    [] Escapes(p, Escaped) -> [kind |-> "escape", len |-> 2]
    [] Escapes(p, EscapedBlanks) -> [kind |-> "blank_escape", len |-> 2]
    [] Reads(p, Blanks) -> [kind |-> "blanks", len |-> Run(Blanks, p)]
    [] Reads(p, {Semicolon}) -> [kind |-> Semicolon, len |-> 1]
    [] Reads(p, Letters) -> [kind |-> "letters", len |-> Run(Letters, p)]
    [] Single(p) -> [kind |-> "other", len |-> 1]

Kind == IF at < LineEnd THEN Token(at).kind ELSE "eof"
Text == SubSeq(code, at, at + Token(at).len - 1)

\* The control characters that letters stand for behind a backslash.
Controls == [n |-> "LF", r |-> "CR", t |-> "HT", f |-> "FF", v |-> "VT"]

\* convert_escape_seq and convert_whitespace_escape_seq
Unescape(t) == <<IF t[2] \in DOMAIN Controls THEN Controls[t[2]] ELSE t[2]>>

-----------------------------------------------------------------------------

(***************************************************************************)
(* The lines                                                               *)
(***************************************************************************)

\* The slip of an end that is searched from the option on, not from the line.
NextLineFromOption ==
  LET pct == FirstIn(code, {"%"}, from)
  IN [start |-> pct, last |-> FirstIn(code, LineEnds, pct)]

\* getNextLine: the line around the next "%".
NextLine ==
  LET start == LineStart(code, FirstIn(code, {"%"}, from))
  IN [start |-> start, last |-> FirstIn(code, LineEnds, start)]

EnterLine ==
  /\ pc = "next"
  /\ FirstIn(code, {"%"}, from) # 0
  /\ line' = NextLine
  /\ at' = NextLine.start
  /\ mode' = "start"
  /\ options' = << >>
  /\ option' = NoOption
  /\ pc' = "parse"
  /\ UNCHANGED <<code, from, result>>

NoMoreOptions ==
  /\ pc = "next"
  /\ FirstIn(code, {"%"}, from) = 0
  /\ pc' = "done"
  /\ UNCHANGED <<code, from, line, at, mode, option, options, result>>

\* The text of the line is options, a rest, or both.
EndLine ==
  /\ pc = "parse" /\ Kind = "eof"
  /\ mode \in {"start", "blanks", "rest"}
  /\ pc' = "push"
  /\ UNCHANGED <<code, from, line, at, mode, option, options, result>>

\* The vector of a key with one more option.
Pushed(o) ==
  [key \in DOMAIN result \cup {o.key} |->
     IF key # o.key THEN result[key]
     ELSE Append(IF key \in DOMAIN result THEN result[key] ELSE << >>, o)]

\* The options of the line are pushed to the vectors of their keys.
PushOption ==
  /\ pc = "push" /\ options # << >>
  /\ result' = Pushed(Head(options))
  /\ options' = Tail(options)
  /\ UNCHANGED <<code, pc, from, line, at, mode, option>>

\* The slip of a search that does not advance.
ResumeAtStart == line.start

\* The search goes on behind the end of the line.
Resume == line.last + 1

LeaveLine ==
  /\ pc = "push" /\ options = << >>
  /\ IF line.last = 0
       THEN pc' = "done" /\ UNCHANGED from
       ELSE pc' = "next" /\ from' = Resume
  /\ UNCHANGED <<code, line, at, mode, option, options, result>>

-----------------------------------------------------------------------------

(***************************************************************************)
(* The grammar                                                             *)
(***************************************************************************)

\* Which tokens the parser shifts in which mode.
Shifts(m) ==
  CASE m = "start" -> {"%", "escape", "blank_escape", "blanks", Semicolon, "letters", "other"}
    [] m = "blanks" -> {"%", "escape", "blank_escape", Semicolon, "letters", "other"}
    [] m = "key" -> {"letters"}
    [] m = "gap" -> {"blanks"}
    [] m = "first" -> {"letters", "other", "escape", "blank_escape"}
    [] m = "value" -> {"%", "escape", "blank_escape", "blanks", Semicolon, "letters", "other"}
    [] m = "rest" -> {"%", "escape", "blank_escape", "blanks", Semicolon, "letters", "other"}

\* A token is shifted, and the parser goes on in mode m with option o.
Shift(m, o) ==
  /\ pc = "parse"
  /\ Kind \in Shifts(mode)
  /\ mode' = m
  /\ option' = o
  /\ at' = at + Token(at).len
  /\ UNCHANGED <<code, pc, from, line, result>>

\* White space before an option or the rest.
ReadBlanks ==
  /\ mode = "start" /\ Kind = "blanks"
  /\ Shift("blanks", option)
  /\ UNCHANGED options

\* Anything but an option: the parser ignores the remainder of the line.
ReadRest ==
  /\ \/ mode = "start" /\ Kind \notin {"%", "blanks"}
     \/ mode = "blanks" /\ Kind # "%"
     \/ mode = "rest"
  /\ Shift("rest", option)
  /\ UNCHANGED options

\* "%" and its position; column_start - 1 plus the start of the line.
BeginOption ==
  /\ mode \in {"start", "blanks"} /\ Kind = "%"
  /\ Shift("key", [NoOption EXCEPT !.idx = at])
  /\ UNCHANGED options

ReadKey ==
  /\ mode = "key"
  /\ Shift("gap", [option EXCEPT !.key = Text])
  /\ UNCHANGED options

ReadGap ==
  /\ mode = "gap"
  /\ Shift("first", option)
  /\ UNCHANGED options

\* The first token of a value, with an escape converted.
BeginValue ==
  /\ mode = "first"
  /\ Shift("value", [option EXCEPT !.value =
       IF Kind \in {"escape", "blank_escape"} THEN Unescape(Text) ELSE Text])
  /\ UNCHANGED options

\* The slip of an escape that loses its backslash and keeps its letter.
ExtendsRaw == IF Kind = "escape" THEN SubSeq(Text, 2, 2) ELSE Text

\* A later token: here the escapes of white space are kept as they are.
Extends == IF Kind = "escape" THEN Unescape(Text) ELSE Text

ExtendValue ==
  /\ mode = "value" /\ Kind # Semicolon
  /\ Shift("value", [option EXCEPT !.value = @ \o Extends])
  /\ UNCHANGED options

\* The terminator belongs to the option.
EndOption ==
  /\ mode = "value" /\ Kind = Semicolon
  /\ Shift("start", NoOption)
  /\ options' = Append(options, [option EXCEPT !.size = at - option.idx + 1])

\* No rule for the token: parse throws, and parseOptions with it.  The options
\* of the lines before stay in the result.
SyntaxError ==
  /\ pc = "parse"
  /\ Kind \notin Shifts(mode)
  /\ Kind = "eof" => mode \notin {"start", "blanks", "rest"}
  /\ pc' = "threw"
  /\ UNCHANGED <<code, from, line, at, mode, option, options, result>>

Next ==
  \/ EnterLine
  \/ NoMoreOptions
  \/ EndLine
  \/ PushOption
  \/ LeaveLine
  \/ ReadBlanks
  \/ ReadRest
  \/ BeginOption
  \/ ReadKey
  \/ ReadGap
  \/ BeginValue
  \/ ExtendValue
  \/ EndOption
  \/ SyntaxError

Fairness == WF_vars(Next)
Spec == Init /\ [][Next]_vars /\ Fairness

-----------------------------------------------------------------------------

(***************************************************************************)
(* The options of a script s, defined without a parser                     *)
(***************************************************************************)

\* A backslash run of odd length ends right before p: p is escaped.
IsEscaped(s, p, first) ==
  LET run == Max({n \in 0..(p - first) : \A i \in (p - n)..(p - 1) : s[i] = "\\"})
  IN run % 2 = 1

\* The value of an option at i would start at v: behind the white space that
\* follows a key.
StartsValue(s, i, v) ==
  /\ s[v] \notin Blanks \cup LineEnds \cup {"%", Semicolon}
  /\ \E k \in (i + 1)..(v - 2) :
       /\ \A m \in (i + 1)..k : s[m] \in Letters
       /\ \A m \in (k + 1)..(v - 1) : s[m] \in Blanks
ValueStart(s, i) == FirstOf({v \in (i + 3)..Len(s) : StartsValue(s, i, v)})

\* A value that started at v cannot go beyond m.
EndsValue(s, m, v) == s[m] \in LineEnds \/ (s[m] = Semicolon /\ ~IsEscaped(s, m, v))

\* The text from i to j is an option: "%", a key, white space, and a value up
\* to the first ";" of the line that is not escaped.
IsOption(s, i, j) ==
  LET v == ValueStart(s, i)
  IN /\ s[i] = "%" /\ v # 0 /\ j > v
     /\ s[j] = Semicolon /\ EndsValue(s, j, v)
     /\ \A m \in v..(j - 1) : ~EndsValue(s, m, v)

AllOptions(s) == {o \in (DOMAIN s) \X (DOMAIN s) : IsOption(s, o[1], o[2])}

\* Only white space and options stand between the positions first and i, or
\* before i in its line.
LeadsFrom(s, first, i) ==
  \A m \in first..(i - 1) :
    s[m] \in Blanks \/ \E o \in AllOptions(s) : o[1] <= m /\ m <= o[2] /\ o[2] < i
Leads(s, i) == LeadsFrom(s, LineStart(s, i), i)

\* The options that nothing else precedes in their line, and the places where
\* such an option begins and does not go on.
Leading(s) == {o \in AllOptions(s) : Leads(s, o[1])}
Broken(s) == {i \in DOMAIN s : s[i] = "%" /\ Leads(s, i) /\ \A o \in Leading(s) : o[1] # i}

\* The backslash at p is taken off a value that ends at last, and what the
\* character at p becomes.
Drops(s, p, first, last) ==
  /\ s[p] = "\\" /\ ~IsEscaped(s, p, first) /\ p < last
  /\ s[p + 1] \in Escaped \cup (IF p = first THEN EscapedBlanks ELSE {})
Becomes(s, p, first, last) ==
  IF p > first /\ Drops(s, p - 1, first, last) /\ s[p] \in DOMAIN Controls THEN Controls[s[p]]
  ELSE s[p]

\* The text is the value between two positions, decoded: the characters that
\* are not taken off, in their order.
Decodes(text, s, first, last) ==
  LET kept == {p \in first..last : ~Drops(s, p, first, last)}
  IN /\ Len(text) = Cardinality(kept)
     /\ \A p \in kept :
          text[Cardinality({q \in kept : q <= p})] = Becomes(s, p, first, last)

Reported == UNION {{result[key][n] : n \in DOMAIN result[key]} : key \in DOMAIN result}

-----------------------------------------------------------------------------

(***************************************************************************)
(* Properties                                                              *)
(***************************************************************************)

\* parseOptions returns exactly the options of the script that nothing but
\* white space and other options precede in their line, each with the positions
\* of its "%" and its ";"; it throws exactly when such a "%" begins no option.
\* The options of a key come in the order of the script, also across lines, and
\* no two of all the options overlap: callers cut them out from the last to the
\* first by the positions that they were given.
FindsTheOptions ==
  /\ pc = "done" =>
       /\ {<<o.idx, (o.idx + o.size) - 1>> : o \in Reported} = Leading(code)
       /\ Broken(code) = {}
  /\ pc = "threw" => Broken(code) # {}
  /\ \A key \in DOMAIN result : \A m, n \in DOMAIN result[key] :
       m < n => result[key][m].idx + result[key][m].size <= result[key][n].idx
  /\ \A o, q \in Reported :
       o # q => o.idx + o.size <= q.idx \/ q.idx + q.size <= o.idx

\* A reported value is the text of the script with every escape replaced by the
\* character it stands for; an escape of white space counts only at the start.
ValuesDecoded ==
  \A o \in Reported :
    Decodes(o.value, code, ValueStart(code, o.idx), (o.idx + o.size) - 2)

\* parseOptions comes to an end for every script.
Terminates == <>(pc \in {"done", "threw"})
=============================================================================
