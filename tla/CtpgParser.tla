----------------------------- MODULE CtpgParser -----------------------------
(***************************************************************************)
(* A ctpg parser object: its constructor, which analyses the grammar, then *)
(* the grammar of regular expressions, and then parses the pattern of each *)
(* term to build the automaton of the lexer; and parse, which runs the     *)
(* finished object on a text.  Patterns and texts go through the same      *)
(* loop, context_parse, with their own table, lexer and rules.             *)
(*                                                                         *)
(* No grammar of the repository uses the error recovery token.  Recovery   *)
(* mode therefore only empties the stacks, and the consume mode that would *)
(* follow a shift of the token is left out.  Neither does any parse skip   *)
(* white space.                                                            *)
(***************************************************************************)
EXTENDS CtpgTables, CtpgLexer

CONSTANTS
  Programs,   \* the parsers that are built: a grammar and the data of its terms
  Texts       \* texts a finished parser is given, for each grammar

VARIABLES
  program,   \* the parser that is built
  stage,     \* "grammar", "regex", "terms", "ready"; "threw" is a compile error
  tables,    \* the tables of its grammar
  regex,     \* the tables of the grammar of regular expressions
  sm,        \* lexer_sm, the automaton
  added,     \* how many terms are in the automaton
  dfaSize,   \* lexer_dfa_size, the room that was analysed for it
  ps         \* parse_state of the current parse

ctpgVars == <<program, stage, tables, regex, sm, added, dfaSize, ps>>

\* parse_state: the input and where it is read, the current term and its end,
\* and the stacks.  outcome is that of the parse: none while it runs.
ParseOf(input) ==
  [input |-> input, at |-> 1, end |-> 1, term |-> "none", line |-> 1, column |-> 1,
   recovering |-> FALSE, cursors |-> <<1>>, values |-> << >>, outcome |-> "none"]

NoParse == [ParseOf(<< >>) EXCEPT !.outcome = "idle"]

Rule(l, r, f) == [l |-> l, r |-> r, f |-> f]

\* create_regex_parser
RegexGrammar == [
  terms |-> <<"digit", "primary", "*", "+", "?", "|", "(", ")", "{", "}">>,
  nterms |-> <<"expr", "alt", "concat", "q_expr", "primary_expr", "number">>,
  precedence |-> << >>, ltor |-> {},
  rules |-> <<
    Rule("number", <<"digit">>, "same"),
    Rule("number", <<"number", "digit">>, "number"),
    Rule("primary_expr", <<"digit">>, "primary_char"),
    Rule("primary_expr", <<"primary">>, "primary_subset"),
    Rule("primary_expr", <<"(", "expr", ")">>, "e2"),
    Rule("q_expr", <<"primary_expr">>, "same"),
    Rule("q_expr", <<"primary_expr", "*">>, "star"),
    Rule("q_expr", <<"primary_expr", "+">>, "plus"),
    Rule("q_expr", <<"primary_expr", "?">>, "opt"),
    Rule("q_expr", <<"primary_expr", "{", "number", "}">>, "rep"),
    Rule("concat", <<"q_expr">>, "same"),
    Rule("concat", <<"concat", "q_expr">>, "cat"),
    Rule("alt", <<"concat">>, "same"),
    Rule("alt", <<"alt", "|", "alt">>, "alt"),
    Rule("expr", <<"alt">>, "same")>>]

CtpgInit ==
  /\ program \in Programs
  /\ stage = "grammar"
  /\ tables = NewParser(program.grammar)
  /\ regex = NewParser(RegexGrammar)
  /\ sm = << >>
  /\ added = 0
  /\ dfaSize = 0
  /\ ps = NoParse

-----------------------------------------------------------------------------

(***************************************************************************)
(* Rules: what the functors compute from the values of a right side        *)
(***************************************************************************)

\* convert_escape_seq and convert_whitespace_escape_seq
Converted(t) ==
  <<CASE t[2] = "n" -> "LF" [] t[2] = "r" -> "CR" [] t[2] = "t" -> "HT" [] t[2] = "f" -> "FF"
      [] t[2] = "v" -> "VT" [] OTHER -> t[2]>>

\* The slip of a size that leaves out the ";".
ToOptionShort(st, key, value, e) ==
  [key |-> key.text, value |-> value, idx |-> st.column, size |-> e.column - st.column]

\* to_option, with the columns of the "%" and the ";"
ToOption(st, key, value, e) ==
  [key |-> key.text, value |-> value, idx |-> st.column, size |-> e.column - st.column + 1]

\* The functors of option_parser; a term's value is its text and its column.
OptionValue(f, v) ==
  CASE f = "empty" -> << >>
    [] f = "same" -> v[1]
    [] f = "to_options" -> <<v[1]>>
    [] f = "add_option" -> Append(v[1], v[2])
    [] f = "to_option" -> ToOption(v[1], v[2], v[4], v[5])
    [] f = "to_option behind blanks" -> ToOption(v[2], v[3], v[5], v[6])
    [] f = "text" -> v[1].text
    [] f = "convert" -> Converted(v[1].text)
    [] f = "append" -> v[1] \o v[2].text
    [] f = "append converted" -> v[1] \o Converted(v[2].text)
    [] f = "skip" -> 0

\* The functors of the regex grammar; they build the automaton.
RegexValue(f, v) ==
  CASE f = "same" -> [sm |-> sm, value |-> v[1]]
    [] f = "e2" -> [sm |-> sm, value |-> v[2]]
    [] f = "number" -> [sm |-> sm, value |-> v[1] * 10 + v[2]]
    [] f = "primary_char" -> Primary(sm, {c \in Range(Chars) : Code[c] = v[1] + 48})
    [] f = "primary_subset" -> Primary(sm, v[1])
    [] f = "star" -> Star(sm, v[1])
    [] f = "plus" -> Plus(sm, v[1])
    [] f = "opt" -> Opt(sm, v[1])
    [] f = "rep" -> Rep(sm, v[1], v[3])
    [] f = "cat" -> Cat(sm, v[1], v[2])
    [] f = "alt" -> Alt(sm, v[1], v[3])

-----------------------------------------------------------------------------

(***************************************************************************)
(* context_parse: one action for each way a round of the loop goes         *)
(***************************************************************************)

Running == ps.outcome = "none"
Pattern == stage = "terms"
InUse == IF Pattern THEN regex ELSE tables

\* get_current_term: the recovery token, the term that was not consumed yet, the
\* end of the input, or what the lexer finds.
Current ==
  LET m == IF Pattern THEN RegexMatch(ps.input, ps.at) ELSE DfaMatch(sm, ps.input, ps.at)
  IN IF ps.recovering THEN [term |-> ErrorTerm, end |-> ps.end]
     ELSE IF ps.at # ps.end THEN [term |-> ps.term, end |-> ps.end]
     ELSE IF ps.at > Len(ps.input) THEN [term |-> EofTerm, end |-> ps.end]
     ELSE [term |-> m.term, end |-> ps.at + m.len]

\* The actions below are given that term, c.
Action(c) == Entry(InUse, Last(ps.cursors), c.term)

\* A round that reads its term and goes on with the parse state q.
Round(q) ==
  /\ ps' = q
  /\ UNCHANGED <<program, stage, tables, regex, added, dfaSize>>

Lexed(c) ==
  IF ps.recovering THEN ps ELSE [ps EXCEPT !.term = c.term, !.end = c.end]

\* source_point::update over the characters of a term.
Advance(q, s) ==
  LET lf == Max({0} \cup {i \in DOMAIN s : s[i] = "LF"})
  IN [q EXCEPT !.line = @ + Len(SelectSeq(s, LAMBDA c : c = "LF")),
               !.column = IF lf = 0 THEN @ + Len(s) ELSE Len(s) - lf + 1]

\* consume_term
Consume(q, text) == [Advance(q, text) EXCEPT !.at = q.end]

\* value_variant_type: a value on the stack is held under its symbol.
Hold(x, value) == x :> value
Held(variant) == variant[CHOOSE x \in DOMAIN variant : TRUE]

\* The functor of a term: the value that shift pushes.
TermValue(c, text) ==
  IF ~Pattern THEN [text |-> text, column |-> ps.column]
  ELSE CASE c.term = "digit" -> Code[text[1]] - 48
         [] c.term = "primary" -> Subset(text)
         [] OTHER -> 0

\* unexpected_char: the lexer knows no term.
UnexpectedChar(c) ==
  /\ Running /\ c.term = "none"
  /\ Round([Lexed(c) EXCEPT !.outcome = "failed"])
  /\ UNCHANGED sm

\* shift
ShiftTerm(c) ==
  /\ Running /\ Action(c).kind = "shift"
  /\ LET text == SubSeq(ps.input, ps.at, c.end - 1)
     IN Round([Consume(Lexed(c), text) EXCEPT
                 !.cursors = Append(@, Action(c).shift),
                 !.values = Append(@, Hold(c.term, TermValue(c, text)))])
  /\ UNCHANGED sm

\* reduce, also for an rr_conflict: the rule's values make room for one.
Reduce(c) ==
  /\ Running /\ Action(c).kind \in {"reduce", "rr_conflict"}
  /\ LET info == InUse.infos[Action(c).reduce]
         n == Len(info.r)
         below == SubSeq(ps.cursors, 1, Len(ps.cursors) - n)
         rest == SubSeq(ps.values, 1, Len(ps.values) - n)
         args == [i \in 1..n |-> Held(ps.values[Len(rest) + i])]
         made == IF Pattern THEN RegexValue(info.f, args)
                            ELSE [sm |-> sm, value |-> OptionValue(info.f, args)]
     IN /\ Round([Lexed(c) EXCEPT !.cursors = Append(below, Entry(InUse, Last(below), info.l).shift),
                               !.values = Append(rest, Hold(info.l, made.value))])
        /\ sm' = made.sm

\* success
Success(c) ==
  /\ Running /\ Action(c).kind = "success"
  /\ Round([Lexed(c) EXCEPT !.outcome = "value"])
  /\ UNCHANGED sm

\* syntax_error, enter_recovery_mode and pop_stacks: recovery ends the parse when
\* the last state is popped.
RejectTerm(c) ==
  /\ Running /\ c.term # "none" /\ Action(c).kind = "error"
  /\ Round([Lexed(c) EXCEPT !.recovering = TRUE,
                         !.cursors = Front(@),
                         !.values = IF @ = << >> THEN @ ELSE Front(@),
                         !.outcome = IF Len(ps.cursors) = 1 THEN "failed" ELSE "none"])
  /\ UNCHANGED sm

-----------------------------------------------------------------------------

(***************************************************************************)
(* The constructor                                                         *)
(***************************************************************************)

\* A table without what only its construction needs.
Finished(p) ==
  [p EXCEPT !.memo = NoMemo, !.states = << >>, !.closures = << >>]

\* analyze_states of the grammar
AnalyzeGrammar ==
  /\ stage = "grammar"
  /\ IF tables.queue # << >>
       THEN tables' = Analyze(tables) /\ UNCHANGED stage
       ELSE tables' = Finished(tables) /\ stage' = "regex"
  /\ UNCHANGED <<program, regex, sm, added, dfaSize, ps>>

\* create_lexer: analyze_states of the regex grammar
AnalyzeRegex ==
  /\ stage = "regex"
  /\ IF regex.queue # << >>
       THEN regex' = Analyze(regex) /\ UNCHANGED stage
       ELSE regex' = Finished(regex) /\ stage' = "terms"
  /\ UNCHANGED <<program, tables, sm, added, dfaSize, ps>>

Term == program.data[added + 1]
Adding == stage = "terms" /\ ps.outcome = "idle" /\ added < Len(program.data)

\* A term that is a character or a string.
AddPlainTerm ==
  /\ Adding /\ ~Term.regex
  /\ sm' = AddString(sm, Term.data, Term.name)
  /\ dfaSize' = dfaSize + 2 * Len(Term.data)
  /\ added' = added + 1
  /\ UNCHANGED <<program, stage, tables, regex, ps>>

ParsePattern ==
  /\ Adding /\ Term.regex
  /\ ps' = ParseOf(Term.data)
  /\ UNCHANGED <<program, stage, tables, regex, sm, added, dfaSize>>

\* The pattern is in the automaton.  The room for it was analysed by a parse of
\* its own, with the same calls.
AddPattern ==
  /\ stage = "terms" /\ ps.outcome = "value"
  /\ sm' = AddTerm(sm, Held(ps.values[1]), Term.name)
  /\ dfaSize' = dfaSize + Held(ps.values[1]).size
  /\ added' = added + 1
  /\ ps' = NoParse
  /\ UNCHANGED <<program, stage, tables, regex>>

\* "Regex parse error": the program does not compile.
RejectPattern ==
  /\ stage = "terms" /\ ps.outcome = "failed"
  /\ stage' = "threw"
  /\ UNCHANGED <<program, tables, regex, sm, added, dfaSize, ps>>

\* The parser of patterns is a local of create_lexer.
Constructed ==
  /\ stage = "terms" /\ ps.outcome = "idle" /\ added = Len(program.data)
  /\ stage' = "ready"
  /\ regex' = [regex EXCEPT !.table = << >>]
  /\ UNCHANGED <<program, tables, sm, added, dfaSize, ps>>

-----------------------------------------------------------------------------

\* parse of a text
Parse ==
  /\ stage = "ready" /\ ps.outcome = "idle"
  /\ \E text \in Texts[program.name] : ps' = ParseOf(text)
  /\ UNCHANGED <<program, stage, tables, regex, sm, added, dfaSize>>

Return ==
  /\ stage = "ready" /\ ps.outcome \in {"value", "failed"}
  /\ ps' = NoParse
  /\ UNCHANGED <<program, stage, tables, regex, sm, added, dfaSize>>

CtpgNext ==
  \/ AnalyzeGrammar
  \/ AnalyzeRegex
  \/ AddPlainTerm
  \/ ParsePattern
  \/ AddPattern
  \/ RejectPattern
  \/ Constructed
  \/ Parse
  \/ Return
  \/ UnexpectedChar(Current)
  \/ ShiftTerm(Current)
  \/ Reduce(Current)
  \/ Success(Current)
  \/ RejectTerm(Current)

CtpgSpec == CtpgInit /\ [][CtpgNext]_ctpgVars
=============================================================================
