-------------------------- MODULE MCSpecifications --------------------------
(***************************************************************************)
(* Small messages: every optional field absent, empty or given, up to two  *)
(* parameters that may have one key, up to one column.                     *)
(***************************************************************************)
EXTENDS Specifications, SequencesExt

Columns == BoundedSeq({"a"}, 1)
Parameters == BoundedSeq({<<"k", "v">>, <<"l", "w">>}, 2)
Kinds == {Absent, "", "password"}
Names == {Absent, "", "c"}

Imports ==
  [subselect : {"yes", "no"}, kind : Kinds, name : Names, columns : Columns,
   parameters : Parameters]

Exports ==
  [kind : Kinds, name : Names, columns : Columns, parameters : {<< >>, <<<<"k", "v">>>>},
   truncate : BOOLEAN, replace : BOOLEAN, created_by : {Absent, "", "u"}]
=============================================================================
