--------------------------- MODULE Specifications ---------------------------
(***************************************************************************)
(* The argument of a single call: an ImportSpecification or an             *)
(* ExportSpecification that send_run fills from a message by a sequence of *)
(* setters, that the container reads, and that exaudfclient_main deletes   *)
(* after the call.  The two arguments are separate global objects; a       *)
(* behaviour follows one of them through the calls that use it.            *)
(*                                                                         *)
(* Subselect columns are pairs of a name and a type; the model keeps their *)
(* name.                                                                   *)
(***************************************************************************)
EXTENDS Naturals, Sequences, FiniteSets

CONSTANTS
  ImportMessages,   \* import_specification_rep as the database sends them
  ExportMessages,   \* export_specification_rep
  Absent,           \* an optional field that is not there
  MaxCalls          \* bound: the calls of a session

\* The repeated fields of a message.
ASSUME MessagesAssumption ==
  /\ \A m \in ImportMessages \cup ExportMessages :
       m.columns \in Seq(STRING) /\ m.parameters \in Seq(STRING \X STRING)
  /\ MaxCalls \in Nat

VARIABLES
  function,  \* "import" or "export": which function is called
  stage,     \* "idle" before send_run, "fill", "call", "failed", "aborted"
  arg,       \* the global argument object
  field,     \* the field of the message send_run is at, by its number
  given,     \* how many values of that field it has passed on
  message,   \* the message of the last MT_CALL
  calls      \* how many replies send_run has received

argVars == <<function, stage, arg, field, given, message, calls>>

\* The empty string, which the objects cannot tell from a value that is not set.
Unset == ""

\* A new object: only whether it is empty, and whether it is a subselect, differ.
NewSpecification(empty, subselect) ==
  [empty |-> empty, subselect |-> subselect, columns |-> << >>, name |-> Unset, kind |-> Unset,
   parameters |-> << >>, truncate |-> FALSE, replace |-> FALSE, created_by |-> Unset]

\* The default constructors.  That of ImportSpecification leaves isSubselect_
\* without a value.
EmptySpecification == NewSpecification(TRUE, "undefined")

ArgInit ==
  /\ function \in {"import", "export"}
  /\ stage = "idle"
  /\ arg = EmptySpecification
  /\ field = 1
  /\ given = 0
  /\ message = Absent
  /\ calls = 0

-----------------------------------------------------------------------------

(***************************************************************************)
(* The setters                                                             *)
(***************************************************************************)

hasConnectionName(s) == s.name # Unset
hasConnectionInformation(s) == s.kind # Unset
Keys(s) == {s.parameters[i][1] : i \in DOMAIN s.parameters}

\* When the setter of field f does not throw.
Accepts(s, f, v) ==
  /\ f \in {"information", "name"} => ~hasConnectionName(s) /\ ~hasConnectionInformation(s)
  /\ f = "column" => function = "export" \/ s.subselect = "yes"
  /\ f = "parameter" => v[1] \notin Keys(s)
  /\ f = "created_by" => s.created_by = Unset

\* What it changes.  Only the setters of an export make it not empty.
Changed(s, f, v) ==
  [empty |-> s.empty /\ function = "import",
   subselect |-> s.subselect,
   kind |-> IF f = "information" THEN v ELSE s.kind,
   name |-> IF f = "name" THEN v ELSE s.name,
   columns |-> IF f = "column" THEN Append(s.columns, v) ELSE s.columns,
   parameters |-> IF f = "parameter" THEN Append(s.parameters, v) ELSE s.parameters,
   truncate |-> IF f = "truncate" THEN v ELSE s.truncate,
   replace |-> IF f = "replace" THEN v ELSE s.replace,
   created_by |-> IF f = "created_by" THEN v ELSE s.created_by]

-----------------------------------------------------------------------------

(***************************************************************************)
(* send_run                                                                *)
(***************************************************************************)

\* The fields in the order in which send_run reads them.
Order ==
  IF function = "import"
    THEN <<"information", "name", "column", "parameter">>
    ELSE <<"information", "name", "parameter", "truncate", "replace", "created_by", "column">>

Optional(value) == IF value = Absent THEN << >> ELSE <<value>>

\* What a message has for a field: nothing, one value or several.
Values(m, f) ==
  CASE f = "information" -> Optional(m.kind)
    [] f = "name" -> Optional(m.name)
    [] f = "column" -> m.columns
    [] f = "parameter" -> m.parameters
    [] f = "truncate" -> <<m.truncate>>
    [] f = "replace" -> <<m.replace>>
    [] f = "created_by" -> Optional(m.created_by)

\* The slip of an argument that is filled on top of what it holds.
FreshOnTop(m) ==
  IF function = "import" THEN [arg EXCEPT !.empty = FALSE, !.subselect = m.subselect] ELSE arg

\* Every message starts from a new object.
Fresh(m) ==
  IF function = "import" THEN NewSpecification(FALSE, m.subselect) ELSE EmptySpecification

Messages == IF function = "import" THEN ImportMessages ELSE ExportMessages

\* MT_CALL with the specification of the function.
ReceiveArgument(m) ==
  /\ stage = "idle" /\ calls < MaxCalls
  /\ arg' = Fresh(m)
  /\ field' = 1 /\ given' = 0
  /\ message' = m
  /\ calls' = calls + 1
  /\ stage' = "fill"
  /\ UNCHANGED function

\* MT_CALL without it: F-UDF-CL-LIB-1029 and 1030.
ReceiveNothing ==
  /\ stage = "idle" /\ calls < MaxCalls
  /\ stage' = "failed"
  /\ calls' = calls + 1
  /\ UNCHANGED <<function, arg, field, given, message>>

\* MT_RUN is also accepted in single call mode.  The function and the argument
\* are those of the last call; before the first there is no function.
ReceiveRun ==
  /\ stage = "idle" /\ calls < MaxCalls
  /\ stage' = IF message = Absent THEN "aborted" ELSE "call"
  /\ calls' = calls + 1
  /\ UNCHANGED <<function, arg, field, given, message>>

\* The values of the field send_run is at.
Current == Values(message, Order[field])

\* A setter is called with the next value of the field.
Set ==
  /\ stage = "fill" /\ field <= Len(Order)
  /\ given < Len(Current)
  /\ Accepts(arg, Order[field], Current[given + 1])
  /\ arg' = Changed(arg, Order[field], Current[given + 1])
  /\ given' = given + 1
  /\ UNCHANGED <<function, stage, field, message, calls>>

\* The setter throws out of send_run and ends the client.
SetThrows ==
  /\ stage = "fill" /\ field <= Len(Order)
  /\ given < Len(Current)
  /\ ~Accepts(arg, Order[field], Current[given + 1])
  /\ stage' = "failed"
  /\ UNCHANGED <<function, arg, field, given, message, calls>>

\* All of a field is passed on.
NextField ==
  /\ stage = "fill" /\ field <= Len(Order)
  /\ given = Len(Current)
  /\ field' = field + 1
  /\ given' = 0
  /\ UNCHANGED <<function, stage, arg, message, calls>>

Filled ==
  /\ stage = "fill" /\ field > Len(Order)
  /\ stage' = "call"
  /\ UNCHANGED <<function, arg, field, given, message, calls>>

-----------------------------------------------------------------------------

(***************************************************************************)
(* The call                                                                *)
(***************************************************************************)

\* assert(!isEmpty()) before the container is called.
AssertFails ==
  /\ stage = "call" /\ arg.empty
  /\ stage' = "aborted"
  /\ UNCHANGED <<function, arg, field, given, message, calls>>

\* The container returns and the argument is deleted.
CallReturns ==
  /\ stage = "call" /\ ~arg.empty
  /\ arg' = EmptySpecification
  /\ stage' = "idle"
  /\ UNCHANGED <<function, field, given, message, calls>>

\* The container throws: catch(...) goes on with the next call and the
\* argument stays.
CallThrows ==
  /\ stage = "call" /\ ~arg.empty
  /\ stage' = "idle"
  /\ UNCHANGED <<function, arg, field, given, message, calls>>

ArgNext ==
  \/ \E m \in Messages : ReceiveArgument(m)
  \/ ReceiveNothing
  \/ ReceiveRun
  \/ Set
  \/ SetThrows
  \/ NextField
  \/ Filled
  \/ AssertFails
  \/ CallReturns
  \/ CallThrows

ArgSpec == ArgInit /\ [][ArgNext]_argVars

-----------------------------------------------------------------------------

(***************************************************************************)
(* Properties                                                              *)
(***************************************************************************)

\* The container is only called with an argument that holds what the last
\* MT_CALL carried, all of it and nothing of an earlier call, also after a call
\* that threw and left its argument behind; and never with both a connection
\* name and connection information, whatever the message carries.
ArgumentIsTheMessage ==
  LET Given(value) == IF value = Absent THEN Unset ELSE value
  IN stage = "call" /\ ~arg.empty =>
       /\ ~(hasConnectionName(arg) /\ hasConnectionInformation(arg))
       /\ arg.kind = Given(message.kind) /\ arg.name = Given(message.name)
       /\ arg.columns = message.columns
       /\ arg.parameters = message.parameters
       /\ Cardinality(Keys(arg)) = Len(arg.parameters)
       /\ function = "import" => arg.subselect = message.subselect
       /\ function = "export" =>
            /\ arg.truncate = message.truncate /\ arg.replace = message.replace
            /\ arg.created_by = Given(message.created_by)
=============================================================================
