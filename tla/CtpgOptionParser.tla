-------------------------- MODULE CtpgOptionParser --------------------------
(***************************************************************************)
(* option_parser, the ctpg parser of script_option_lines_ctpg.cc, and what  *)
(* makes it right: the tables and the automaton that its constructor        *)
(* builds accept the options as OptionLinesCtpg defines them.  Two further  *)
(* kinds of parsers use the patterns that the options do not: one with      *)
(* patterns that are right and some with a pattern that is wrong.           *)
(***************************************************************************)
EXTENDS CtpgParser

CONSTANT TextPieces   \* bound: how many pieces a text has

\* The characters that patterns and texts are made of, the ends of the ranges
\* and one of the upper half.
Characters == <<
  <<9, "HT">>, <<10, "LF">>, <<11, "VT">>, <<12, "FF">>, <<13, "CR">>, <<32, " ">>,
  <<37, "%">>, <<40, "(">>, <<41, ")">>, <<42, "*">>, <<43, "+">>, <<45, "-">>, <<46, ".">>,
  <<48, "0">>, <<50, "2">>, <<57, "9">>, <<59, ";">>, <<63, "?">>, <<65, "A">>, <<90, "Z">>,
  <<91, "[">>, <<92, "\\">>, <<93, "]">>, <<94, "^">>, <<95, "_">>, <<97, "a">>, <<98, "b">>,
  <<99, "c">>, <<102, "f">>, <<110, "n">>, <<114, "r">>, <<116, "t">>, <<118, "v">>,
  <<120, "x">>, <<122, "z">>, <<123, "{">>, <<124, "|">>, <<125, "}">>, <<200, "high">> >>

Each(l, before, symbols, f) == [i \in DOMAIN symbols |-> Rule(l, Append(before, symbols[i]), f)]

OptionGrammar == [
  terms |-> <<"%", "escape", "blank_escape", "blanks", ";", "letters", "other">>,
  nterms |-> <<"text", "option_value", "options", "option_element", "rest">>,
  precedence |-> << >>, ltor |-> {},
  rules |-> <<
      Rule("text", <<"rest">>, "empty"),
      Rule("text", <<"options", "rest">>, "same"),
      Rule("text", <<"options">>, "same"),
      Rule("options", <<"option_element">>, "to_options"),
      Rule("options", <<"options", "option_element">>, "add_option"),
      Rule("option_element", <<"%", "letters", "blanks", "option_value", ";">>, "to_option"),
      Rule("option_element", <<"blanks", "%", "letters", "blanks", "option_value", ";">>,
           "to_option behind blanks")>>
    \o Each("option_value", << >>, <<"letters", "other">>, "text")
    \o Each("option_value", << >>, <<"blank_escape", "escape">>, "convert")
    \o Each("option_value", <<"option_value">>, <<"other", "blank_escape">>, "append")
    \o Each("option_value", <<"option_value">>, <<"escape">>, "append converted")
    \o Each("option_value", <<"option_value">>, <<"%", "letters", "blanks">>, "append")
    \o Each("rest", << >>, <<"letters", "blanks", "escape", "blank_escape", ";", "other">>, "skip")
    \o Each("rest", <<"rest">>,
            <<"letters", "other", "blanks", ";", "%", "escape", "blank_escape">>, "skip")]

Regex(name, pattern) == [name |-> name, regex |-> TRUE, data |-> pattern]
Plain(name, string) == [name |-> name, regex |-> FALSE, data |-> string]

OptionTerms == <<
  Plain("%", <<"%">>),
  Regex("escape", <<"\\","\\",";","|","\\","\\","n","|","\\","\\","r","|","\\","\\","\\","\\">>),
  Regex("blank_escape", <<"\\","\\"," ","|","\\","\\","t","|","\\","\\","f","|","\\","\\","v">>),
  Regex("blanks", <<"["," ","\\","x","0","9","\\","x","0","c","\\","x","0","b","]","+">>),
  Plain(";", <<";">>),
  Regex("letters", <<"[","0","-","9","a","-","z","A","-","Z","_","]","+">>),
  Regex("other", <<"[","^",";","]">>) >>

OptionProgram == [name |-> "option", grammar |-> OptionGrammar, data |-> OptionTerms]

\* Patterns with what those of the options do not use, and three that are wrong.
Listing(terms) == [
  terms |-> terms, nterms |-> <<"list">>, precedence |-> << >>, ltor |-> {},
  rules |-> Each("list", << >>, terms, "skip") \o Each("list", <<"list">>, terms, "skip")]

PatternProgram == [
  name |-> "patterns",
  grammar |-> Listing(<<"rep", "star", "opt", "string", "zero">>),
  data |-> <<
    Regex("rep", <<"n", "{", "2", "}">>),
    Regex("star", <<"%", "n", "*", ";">>),
    Regex("opt", <<"(", ";", "|", "_", ")", "?", "0">>),
    Plain("string", <<"_", "%">>),
    Regex("zero", <<"z", "{", "0", "}", "a">>)>>]

BrokenProgram(pattern) ==
  [name |-> "broken", grammar |-> Listing(<<"t">>), data |-> <<Regex("t", pattern)>>]

AllPrograms ==
  {OptionProgram, PatternProgram}
    \cup {BrokenProgram(p) : p \in {<<"[", "n">>, <<"n", "{">>, <<"(", "n">>}}

LinePieces ==
  {<<"%", "n", " ", ".", ";">>, <<"%", "n", " ">>, <<"%">>, <<"n">>, <<" ">>, <<";">>,
   <<"\\">>, <<"\\", "t">>}
AllTexts == [
  option |-> {t \in {FlattenSeq(p) : p \in BoundedSeq(LinePieces, TextPieces)} : "%" \in Range(t)},
  patterns |-> {<<"n", "n", "%", "n", ";", "0">>, <<"_", "n">>}]

-----------------------------------------------------------------------------

\* OptionLinesCtpg with one line, its result and the outcome of its parse.
Lines(text, outcome, found) == INSTANCE OptionLinesCtpg WITH
  Blanks <- {"HT", "VT", "FF", " "}, LineEnds <- {"LF", "CR"},
  Letters <- {"0", "2", "9", "A", "Z", "_", "a", "b", "c", "f", "n", "r", "t", "v", "x", "z"},
  Escaped <- {";", "\\", "n", "r"}, EscapedBlanks <- {" ", "t", "f", "v"}, Scripts <- {},
  code <- text, pc <- outcome, from <- 1, line <- [start |-> 1, last |-> 0], at <- 1,
  mode <- "start", option <- << >>, options <- << >>,
  result <- [key \in {o.key : o \in Range(found)} |-> SelectSeq(found, LAMBDA o : o.key = key)]

Words(C, n) == UNION {[1..k -> C] : k \in 1..n}

\* What the terms of PatternProgram match, as far as the words go.
Meaning == [
  rep |-> {<<"n", "n">>},
  star |-> {<<"%", ";">>, <<"%", "n", ";">>, <<"%", "n", "n", ";">>},
  opt |-> {<<"0">>, <<";", "0">>, <<"_", "0">>},
  string |-> {<<"_", "%">>},
  zero |-> {<<"a">>}]

\* The longest beginning of w that some term of PatternProgram matches.
Longest(w) ==
  LET n == Max({0} \cup {k \in DOMAIN w : \E t \in DOMAIN Meaning : SubSeq(w, 1, k) \in Meaning[t]})
  IN IF n = 0 THEN NoTerm
     ELSE [term |-> CHOOSE t \in DOMAIN Meaning : SubSeq(w, 1, n) \in Meaning[t], len |-> n]

-----------------------------------------------------------------------------

\* A finished automaton finds in every short text the longest term, and of two
\* terms of that length the one that was declared first; a parser with a pattern
\* that is not a regular expression is never finished.
LexerIsExact ==
  /\ stage = "ready" => program.name # "broken"
  /\ stage = "ready" /\ ps.outcome = "idle" =>
       CASE program.name = "option" ->
              \A w \in Words({"%", "\\", " ", "HT", ";", "n", "t", "9", "-", "LF", "high"}, 3) :
                LET token == Lines(w, "parse", << >>)!Token(1)
                IN DfaMatch(sm, w, 1) = [term |-> token.kind, len |-> token.len]
         [] program.name = "patterns" ->
              \A w \in Words({"n", "%", ";", "_", "0", "a", "z"}, 4) :
                DfaMatch(sm, w, 1) = Longest(w)
  /\ stage = "threw" => program.name = "broken"

\* The generated parser returns for a line the options that OptionLinesCtpg
\* defines without a parser, with their positions and values, and no value
\* exactly when the line has a broken option.
GeneratedParserIsExact ==
  stage = "ready" /\ program.name = "option" /\ ps.outcome \in {"value", "failed"} =>
    LET ok == ps.outcome = "value"
        found == IF ok THEN Held(ps.values[1]) ELSE << >>
    IN /\ Lines(ps.input, IF ok THEN "done" ELSE "threw", found)!FindsTheOptions
       /\ Lines(ps.input, "done", found)!ValuesDecoded

\* The terms that the words of a nonterminal begin with, by the first symbols of
\* the rules alone: no rule of these grammars is empty.
Begins(g) ==
  LET Grow(symbols, i) ==
        symbols \cup {Head(rule.r) : rule \in {r \in Range(RuleInfos(g)) : r.l \in symbols}}
      From(nt) == FoldLeft(Grow, {nt}, NTerms(g))
  IN [nt \in Range(NTerms(g)) |-> From(nt) \cap Range(g.terms)]

ReferenceFirst ==
  [g \in {OptionGrammar, PatternProgram.grammar, Listing(<<"t">>), RegexGrammar} |-> Begins(g)]

\* What is kept as a FIRST set is the whole FIRST set, although an entry can be
\* read while it is computed: nothing was kept from before it was complete.
FirstSetsExact ==
  \A p \in {tables, regex} :
    /\ \A nt \in DOMAIN p.memo.first :
         p.memo.first[nt] = ReferenceFirst[p.grammar][nt]
    /\ \A nt \in DOMAIN p.memo.empty : ~p.memo.empty[nt]

\* Everything fits what is reserved for it at compile time: the states and the
\* queue of the analysis, the automaton in the size that dfa_size_analyzer
\* found, and the stacks of the parse of a pattern.  The automaton and the
\* stacks do not check.
FitsItsArrays ==
  /\ stage \in {"grammar", "regex"} => \A p \in {tables, regex} :
       /\ Len(p.states) <= MaxStates(p.grammar)
       /\ Len(p.queue) <= MaxStates(p.grammar) * MaxStates(p.grammar)
  /\ ps.outcome = "idle" => Len(sm) <= dfaSize
  /\ Pattern => Len(ps.cursors) <= Len(ps.input) + 2 /\ Len(ps.values) <= Len(ps.input) + 2

\* No table has a choice between two reductions, and the only choice between a
\* shift and a reduction is the one the grammar's author accepted: what begins
\* an option is not read as the rest of the line, and alternatives group to the
\* right.
ConflictsAreKnown ==
  ps.outcome = "idle" => \A p \in {tables, regex} : \A e \in DOMAIN p.table :
    /\ p.table[e].kind # "rr_conflict"
    /\ p.table[e].shift # 0 /\ p.table[e].reduce # 0 =>
         e[2] \in {"%", "|"} /\ p.table[e].kind = "shift"
=============================================================================
