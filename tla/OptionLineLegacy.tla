-------------------------- MODULE OptionLineLegacy --------------------------
(***************************************************************************)
(* extractOptionLine, the script options parser of version 1: a caller     *)
(* asks for one option after the other, and every call that finds the      *)
(* option cuts it out of the code.  The callers are not in the repository: *)
(* they may ask for any known option in any order, until a call throws.    *)
(***************************************************************************)
EXTENDS OptionText

CONSTANT Known   \* the options a caller asks for: "%" and a key

ASSUME KnownAssumption ==
  \A t \in Known :
    /\ t \in Seq(STRING) /\ Len(t) > 1 /\ t[1] = "%"
    /\ \A i \in 2..Len(t) : t[i] \in Letters

VARIABLES
  asked,    \* the option of the last call
  pos,      \* the out-parameter of the last call, 0 for npos
  value,    \* what the last call returned
  threw     \* the last call threw OptionParserException

legacyVars == <<code, asked, pos, value, threw>>

NoCallYet ==
  /\ asked = << >>
  /\ pos = 0
  /\ value = << >>
  /\ threw = FALSE

LegacyInit == code \in Scripts /\ NoCallYet

\* The slip of a terminator that is looked for beyond the line.
ValueEndBeyond(first) == FirstIn(code, {Semicolon}, first)

\* The end of the value of an option: the terminator or, should it come first,
\* the end of the line.
ValueEnd(first) == FirstIn(code, {Semicolon} \cup LineEnds, first)

\* The value without the white space around it.
ValueOf(first, last) == SubSeq(code, first, LastNotIn(code, Blanks, last - 1))

\* An occurrence counts when it is the first thing in its line.
Ignored(start) == FirstNotIn(code, Blanks, LineStart(code, start)) # start

\* A value and, in the same line, its terminator follow the option.
Complete(first) ==
  /\ first # 0
  /\ ValueEnd(first) # 0
  /\ code[ValueEnd(first)] = Semicolon
  /\ first < ValueEnd(first)

\* The option is not there, or its first occurrence is inside a line.
NotExtracted(option) ==
  LET start == Find(code, option)
  IN /\ ~threw
     /\ start = 0 \/ Ignored(start)
     /\ asked' = option
     /\ pos' = 0
     /\ value' = << >>
     /\ UNCHANGED <<code, threw>>

\* "No values found" or "End of ... statement not found".
Throws(option) ==
  LET start == Find(code, option)
      first == FirstNotIn(code, Blanks, start + Len(option))
  IN /\ ~threw
     /\ start # 0 /\ ~Ignored(start)
     /\ ~Complete(first)
     /\ threw' = TRUE
     /\ asked' = option
     /\ UNCHANGED <<code, pos, value>>

\* The option is returned and cut out of the code with its terminator.
Extracted(option) ==
  LET start == Find(code, option)
      first == FirstNotIn(code, Blanks, start + Len(option))
      last == ValueEnd(first)
  IN /\ ~threw
     /\ start # 0 /\ ~Ignored(start)
     /\ Complete(first)
     /\ value' = ValueOf(first, last)
     /\ code' = Erase(code, start, last)
     /\ pos' = start
     /\ asked' = option
     /\ UNCHANGED threw

LegacyNext ==
  \E option \in Known :
    \/ NotExtracted(option)
    \/ Throws(option)
    \/ Extracted(option)

LegacySpec == LegacyInit /\ [][LegacyNext]_legacyVars

-----------------------------------------------------------------------------

(***************************************************************************)
(* Properties                                                              *)
(***************************************************************************)

\* extractOptionLine changes the code only by cutting out one option: the text
\* that disappears starts with "%" as the first thing in a line, ends with the
\* first ";" after it and lies in that one line, whatever was cut out before.
\* The value that is returned is not empty and has no white space at its ends,
\* as req~white-spaces-script-options-parsing-v1~1 asks for.
CutsOneOption ==
  [][code' # code =>
       \E i \in 1..Len(code) : \E j \in i..Len(code) :
         /\ code' = Erase(code, i, j)
         /\ code[i] = "%" /\ FirstInLine(code, i)
         /\ code[j] = Semicolon
         /\ \A m \in i..(j - 1) : code[m] \notin LineEnds \cup {Semicolon}
         /\ value' # << >>
         /\ {value'[1], value'[Len(value')]} \cap Blanks = {}]_legacyVars

\* The option t stands at position i the way the requirements write one: first
\* in its line, white space behind the key, and a terminated value.
WrittenAt(t, i) ==
  LET last == i + Len(t) - 1
  IN /\ last <= Len(code) /\ SubSeq(code, i, last) = t
     /\ FirstInLine(code, i)
     /\ \E j \in (last + 3)..Len(code) :
          /\ code[last + 1] \in Blanks
          /\ code[j] = Semicolon
          /\ \A m \in (last + 2)..(j - 1) : code[m] \notin LineEnds \cup Blanks \cup {Semicolon}

\* What req~multiple-lines-script-options-parsing~1 says of the parser: an
\* option at any line is recognised.  A caller that is told npos has seen all
\* of them.
EveryLineRecognised ==
  asked # << >> /\ pos = 0 /\ ~threw => \A i \in 1..Len(code) : ~WrittenAt(asked, i)
=============================================================================
