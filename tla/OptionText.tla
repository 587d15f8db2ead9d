----------------------------- MODULE OptionText -----------------------------
(***************************************************************************)
(* Script code as the two script options parsers see it: a sequence of     *)
(* characters of which only the class matters, and the searches of         *)
(* std::string on it.  A position is 1-based and 0 stands for npos.        *)
(***************************************************************************)
EXTENDS Naturals, Sequences, FiniteSets, FiniteSetsExt

CONSTANTS
  Blanks,     \* the white spaces: space, tab, form feed, vertical tab
  LineEnds,   \* line feed and carriage return
  Letters,    \* what a key is made of: [0-9a-zA-Z_]
  Scripts     \* the codes a user may have written

VARIABLE code   \* the script

\* What ends an option.
Semicolon == ";"

ASSUME CharactersAssumption ==
  /\ Blanks \cap LineEnds = {} /\ Blanks \cap Letters = {} /\ LineEnds \cap Letters = {}
  /\ {"%", Semicolon, "\\"} \cap (Blanks \cup LineEnds \cup Letters) = {}

ASSUME ScriptsAssumption == Scripts \subseteq Seq(STRING)

\* The smallest member of a set of positions, 0 when there is none.
FirstOf(S) == IF S = {} THEN 0 ELSE Min(S)

\* std::string::find_first_of: the first position at or after p with a
\* character of C.
FirstIn(s, C, p) == FirstOf({i \in p..Len(s) : s[i] \in C})

\* std::string::find_first_not_of
FirstNotIn(s, C, p) == FirstOf({i \in p..Len(s) : s[i] \notin C})

\* std::string::find_last_of: the last position at or before p with a
\* character of C.  The line of p starts one behind the last line end.
LastIn(s, C, p) == Max({0} \cup {i \in 1..p : s[i] \in C})
LineStart(s, p) == LastIn(s, LineEnds, p) + 1

\* std::string::find_last_not_of
LastNotIn(s, C, p) == Max({0} \cup {i \in 1..p : s[i] \notin C})

\* std::string::find: the first occurrence of t in s.
Find(s, t) == FirstOf({i \in 1..(Len(s) + 1 - Len(t)) : SubSeq(s, i, i + Len(t) - 1) = t})

\* std::string::erase of the positions i to j.
Erase(s, i, j) == SubSeq(s, 1, i - 1) \o SubSeq(s, j + 1, Len(s))

\* Nothing but white space stands before position p in its line.
FirstInLine(s, p) == \A i \in LineStart(s, p)..(p - 1) : s[i] \in Blanks
=============================================================================
