----------------------------- MODULE MCOptions -----------------------------
(***************************************************************************)
(* The script options parsers for TLC.  The client picks one of the two at *)
(* its start; a behaviour is one of the first, one of the second, which    *)
(* defines what the generated parser accepts, or one of the construction   *)
(* and the runs of that parser.                                            *)
(*                                                                         *)
(* The scripts of a run are all concatenations of a few pieces: the        *)
(* characters that decide what a parser does, and the beginning of an      *)
(* option and a whole option, so that short sequences of pieces make       *)
(* scripts with several options and several lines.                         *)
(***************************************************************************)
EXTENDS OptionLineLegacy, OptionLinesCtpg, CtpgOptionParser

CONSTANT MaxPieces   \* bound: how many pieces a script has

VARIABLE part   \* "version 1", "version 2" or "generator"

callVars == <<asked, pos, value, threw>>
lineVars == <<pc, from, line, at, mode, option, options, result>>
optionsVars == <<vars, callVars, ctpgVars, part>>

Whole == <<"%", "n", " ", ".", ";">>
Pieces ==
  {Whole, <<"%", "n", " ">>, <<"%">>, <<"n">>, <<" ">>, <<";">>, <<"\\">>, <<"LF">>}

EscapedAnywhere == {";", "\\", "n", "r"}
AllScripts == {FlattenSeq(p) : p \in BoundedSeq(Pieces, MaxPieces)}
KnownOptions == {<<"%", "n">>, <<"%", "n", "n">>}

\* A behaviour that builds no parser.
NoTables == [memo |-> NoMemo, table |-> << >>]
NotBuilt ==
  /\ program = "none" /\ stage = "unused"
  /\ tables = NoTables /\ regex = NoTables
  /\ sm = << >> /\ added = 0 /\ dfaSize = 0
  /\ ps = NoParse

OptionsInit ==
  /\ part \in {"version 1", "version 2", "generator"}
  /\ Init
  /\ NoCallYet
  /\ \/ part # "generator" /\ NotBuilt
     \/ part = "generator" /\ code = << >> /\ CtpgInit

OptionsNext ==
  /\ \/ part = "version 1" /\ LegacyNext /\ UNCHANGED <<lineVars, ctpgVars>>
     \/ part = "version 2" /\ Next /\ UNCHANGED <<callVars, ctpgVars>>
     \/ part = "generator" /\ CtpgNext /\ UNCHANGED <<vars, callVars>>
  /\ UNCHANGED part

OptionsSpec ==
  /\ OptionsInit /\ [][OptionsNext]_optionsVars
  /\ part = "version 2" => Fairness

\* parseOptions comes to an end for every script.
CtpgTerminates == part = "version 2" => Terminates
=============================================================================
