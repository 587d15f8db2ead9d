----------------------------- MODULE ForwardVM -----------------------------
(***************************************************************************)
(* A VM that copies its input to its output, on top of TableIterator and   *)
(* ResultHandler: forwardInput of the test container for a set function,   *)
(* and the loop of a scalar function, do ... while (input.next()), which   *)
(* is the only one that inp_force_finish is made for (external).  Neither  *)
(* calls checkException.                                                   *)
(***************************************************************************)
EXTENDS ResultHandler

VARIABLE pc   \* the next call of the VM

vars == <<inputVars, outputVars, pc>>

Init ==
  /\ InputInit
  /\ OutputInit
  /\ pc = "start"

\* The constructors of the VM: the first packet is fetched before MT_RUN.
Start ==
  /\ pc = "start"
  /\ InputStart
  /\ pc' = "loop"
  /\ UNCHANGED outputVars

\* The getters and setters of one round: what wasNull() says is set as a null.
CopyRow ==
  /\ pc = "loop"
  /\ ~Eot
  /\ m_rowdata' = [c \in Cols |-> [null |-> Get(c).cell = Null, value |-> CString(Get(c).cell)]]
  /\ Raise(\E c \in Cols : Get(c).throws)
  /\ pc' = "emit"
  /\ UNCHANGED <<inp_force_finish, table, sent, dataVars, stalled, scalar, emit,
                 m_message_size, m_rows_emited, accepted, delivered, torn, unserialised>>

EmitRow(result) ==
  /\ pc = "emit"
  /\ OutputNext(result)
  /\ pc' = "next"

\* input.next().  A scalar function ends when it returns false.
NextRow ==
  /\ pc = "next"
  /\ InputNext
  /\ pc' = IF scalar /\ (m_rows_received' = 0 \/ stalled') THEN "flush" ELSE "loop"
  /\ UNCHANGED outputVars

LoopEnds ==
  /\ pc = "loop"
  /\ Eot
  /\ pc' = "flush"
  /\ UNCHANGED <<inputVars, outputVars>>

Flush(result) ==
  /\ pc = "flush"
  /\ OutputFlush(result)
  /\ pc' = "done"

Done ==
  /\ pc = "done"
  /\ UNCHANGED vars

Next ==
  \/ Start \/ CopyRow \/ NextRow \/ LoopEnds \/ Done
  \/ \E result \in SendResults : EmitRow(result) \/ Flush(result)

Spec == Init /\ [][Next]_vars

TypeOK ==
  /\ InputTypeOK
  /\ OutputTypeOK
  /\ pc \in {"start", "loop", "emit", "next", "flush", "done"}

\* A run that ends without an exception has returned to the database every
\* row it has got, once, in order, cell by cell and under its own row number,
\* and a set function has got every row the database sends; a scalar run that
\* was cut short by a full packet, every row up to there.  Of a string with a
\* NUL byte only the part before it comes back.
ForwardsEveryRow ==
  pc = "done" /\ ~raised =>
    /\ delivered = [r \in 1..(m_rows_group_completed - 1) |->
                      [cells |-> [c \in Cols |-> CString(table[r][c])], number |-> r]]
    /\ ~stalled => m_rows_group_completed = sent + 1
=============================================================================
