---------------------------- MODULE StreamingVM ----------------------------
(***************************************************************************)
(* StreamingVM::run: a program of the user as a child process.  Thread t1  *)
(* prints the input rows as lines into its stdin, thread t2 parses its     *)
(* stdout into output rows, and the main thread joins both, then collects  *)
(* stderr and reaps the child.  The three pipes are bounded.               *)
(*                                                                         *)
(* The child (external) reads, writes and ends as it likes.  What it       *)
(* writes is a stream of fields, each with the delimiter behind it; the    *)
(* field before the end of the stream may be empty.  A line of the input   *)
(* is only counted: the child is free to make anything of it.              *)
(***************************************************************************)
EXTENDS ResultHandler

CONSTANTS
  Readable,      \* the output columns that are declared STRING
  InCapacity,    \* lines that fit into the pipe to stdin
  OutCapacity,   \* fields that fit into the pipe from stdout
  ErrCapacity,   \* messages that fit into the pipe from stderr
  ErrLimit,      \* messages that run() keeps (1000 characters)
  MaxFields,     \* bound: fields the child writes
  MaxErrors      \* bound: messages the child writes

ASSUME PipeAssumption ==
  /\ {InCapacity, OutCapacity, ErrCapacity, ErrLimit} \subseteq Nat \ {0}
  /\ {MaxFields, MaxErrors} \subseteq Nat

\* NUMERIC, DATE and TIMESTAMP travel as strings too.
ASSUME ReaderAssumption == Readable \subseteq {c \in Cols : Columns[c] = "string"}

\* No field of the stream is taken for a null.
ASSUME FieldAssumption == \A k \in 1..MaxFields + 1 : <<k, 0>> # Null

VARIABLES
  t1, t2, main,        \* what each thread does next
  child,               \* "running", writing to "out" or "err", or "exited"
  stdin,               \* lines in the pipe to the child
  stdin_open,          \* t1 has not closed its end
  stdout, stdout_open, \* fields in the pipe; the reading end is open
  stderr, stderr_open, \* messages in the pipe; the reading end is open
  column,              \* the column t2 reads
  readBuffer,          \* the field that readCSVValue has read
  messages,            \* messages of the child that run() has collected
  exception_msg,       \* "none", or who set it
  stream,              \* history: every field the child has written
  errors               \* history: messages the child has written

pipeVars == <<stdin, stdin_open, stdout, stdout_open, stderr, stderr_open>>
childVars == <<child, stream, errors>>
t2Vars == <<t2, column, readBuffer>>
vars == <<inputVars, outputVars, t1, t2Vars, main, childVars, pipeVars, messages, exception_msg>>

Field(k, end) == [value |-> <<k, 0>>, end |-> end]

\* A VM for anything but a set function is refused.
Init ==
  /\ InputInit
  /\ OutputInit
  /\ scalar = FALSE
  /\ t1 = "none"
  /\ t2 = "none"
  /\ main = "start"
  /\ child = "none"
  /\ stdin = 0
  /\ stdin_open = TRUE
  /\ stdout = << >>
  /\ stdout_open = TRUE
  /\ stderr = 0
  /\ stderr_open = TRUE
  /\ column = 1
  /\ readBuffer = Field(0, "eof")
  /\ messages = 0
  /\ exception_msg = "none"
  /\ stream = << >>
  /\ errors = 0

-----------------------------------------------------------------------------
\* The constructor has the first packet; run() starts the child and the threads.
Start ==
  /\ main = "start"
  /\ InputStart
  /\ main' = "join"
  /\ t1' = "write"
  /\ t2' = "read"
  /\ child' = "running"
  /\ UNCHANGED <<outputVars, column, readBuffer, stream, errors, pipeVars, messages, exception_msg>>

-----------------------------------------------------------------------------
(* t1: do inputToCSV(os) while inp.next()                                  *)

\* A group without rows is one line too.  Once the child is gone the write
\* fails, which leaves a mark on the stream that nobody looks at.
InputToCSV ==
  /\ t1 = "write"
  /\ \/ child = "exited" /\ UNCHANGED stdin
     \/ child # "exited" /\ stdin < InCapacity /\ stdin' = stdin + 1
  /\ Raise(\E c \in Cols : Get(c).throws)
  /\ t1' = "next"
  /\ UNCHANGED <<inp_force_finish, table, sent, dataVars, stalled, outputVars, t2Vars, main,
                 childVars, stdin_open, stdout, stdout_open, stderr, stderr_open,
                 messages, exception_msg>>

AdvanceInput ==
  /\ t1 = "next"
  /\ InputNext
  /\ t1' = IF m_rows_received' = 0 THEN "close" ELSE "write"
  /\ UNCHANGED <<outputVars, t2Vars, main, childVars, pipeVars, messages, exception_msg>>

\* A slip: the pipe is flushed and not closed.
KeepStdin ==
  /\ t1 = "close"
  /\ t1' = "ended"
  /\ UNCHANGED <<inputVars, outputVars, t2Vars, main, childVars, pipeVars, messages, exception_msg>>

CloseStdin ==
  /\ t1 = "close"
  /\ stdin_open' = FALSE
  /\ t1' = "ended"
  /\ UNCHANGED <<inputVars, outputVars, t2Vars, main, childVars, stdin, stdout, stdout_open,
                 stderr, stderr_open, messages, exception_msg>>

-----------------------------------------------------------------------------
(* t2: CSVToOutput until the end of the stream, then flush                 *)

\* readCSVValue throws unless the field ends the way its column must end.
Misplaced(field) ==
  IF column = Width THEN field.end = "comma" ELSE field.end # "comma"

T2Throws ==
  /\ t2' = "failed"
  /\ exception_msg' = "t2"
  /\ UNCHANGED column

ReadCSVValue ==
  /\ t2 = "read"
  /\ stdout # << >>
  /\ stdout' = Tail(stdout)
  /\ readBuffer' = Head(stdout)
  /\ IF Misplaced(Head(stdout)) THEN T2Throws
     ELSE /\ t2' = IF column = 1 THEN "next" ELSE "set"
          /\ UNCHANGED <<column, exception_msg>>
  /\ UNCHANGED <<inputVars, outputVars, t1, main, childVars, stdin, stdin_open,
                 stdout_open, stderr, stderr_open, messages>>

\* A slip: the first row is told by a count that only next() moves.
MakeRoomLater(result) ==
  /\ t2 = "next"
  /\ IF m_rows_emited > 1 THEN OutputNext(result) ELSE UNCHANGED <<inputVars, outputVars>>
  /\ t2' = "set"
  /\ UNCHANGED <<t1, column, readBuffer, main, childVars, pipeVars, messages, exception_msg>>

\* outp.next() before the first value of a line is set: it completes the row
\* of the line before.  What it returns is not looked at.
MakeRoom(result) ==
  /\ t2 = "next"
  /\ IF m_rows_emited > 0 THEN OutputNext(result) ELSE UNCHANGED <<inputVars, outputVars>>
  /\ t2' = "set"
  /\ UNCHANGED <<t1, column, readBuffer, main, childVars, pipeVars, messages, exception_msg>>

\* csvReaders has an entry for STRING only; any other one throws.
SetColumn ==
  /\ t2 = "set"
  /\ IF column \notin Readable
     THEN T2Throws /\ UNCHANGED <<inputVars, outputVars>>
     ELSE /\ OutputSetValue(column, readBuffer.value)
          /\ column' = IF column = Width THEN 1 ELSE column + 1
          /\ t2' = IF column = Width /\ readBuffer.end = "eof" THEN "flush" ELSE "read"
          /\ UNCHANGED exception_msg
  /\ UNCHANGED <<t1, readBuffer, main, childVars, pipeVars, messages>>

FlushOutput(result) ==
  /\ t2 = "flush"
  /\ OutputFlush(result)
  /\ t2' = "ended"
  /\ UNCHANGED <<t1, column, readBuffer, main, childVars, pipeVars, messages, exception_msg>>

-----------------------------------------------------------------------------
(* The main thread after it has started t1 and t2                          *)

JoinThreads ==
  /\ main = "join"
  /\ t1 = "ended"
  /\ t2 \in {"ended", "failed"}
  /\ stdout_open' = FALSE
  /\ main' = IF exception_msg = "none" THEN "stderr" ELSE "close"
  /\ UNCHANGED <<inputVars, outputVars, t1, t2Vars, childVars, stdin, stdin_open, stdout,
                 stderr, stderr_open, messages, exception_msg>>

CollectMessage ==
  /\ main = "stderr"
  /\ stderr > 0
  /\ messages < ErrLimit
  /\ stderr' = stderr - 1
  /\ messages' = messages + 1
  /\ UNCHANGED <<inputVars, outputVars, t1, t2Vars, main, childVars, stdin, stdin_open,
                 stdout, stdout_open, stderr_open, exception_msg>>

\* A slip: what is in the pipe now is taken for all there is.
CollectSome ==
  /\ main = "stderr"
  /\ stderr = 0
  /\ main' = "close"
  /\ UNCHANGED <<inputVars, outputVars, t1, t2Vars, childVars, pipeVars, messages, exception_msg>>

\* es.get() waits until the child has closed its end.
CollectedAll ==
  /\ main = "stderr"
  /\ messages = ErrLimit \/ (stderr = 0 /\ child = "exited")
  /\ main' = "close"
  /\ UNCHANGED <<inputVars, outputVars, t1, t2Vars, childVars, pipeVars, messages, exception_msg>>

CloseStderr ==
  /\ main = "close"
  /\ stderr_open' = FALSE
  /\ main' = "wait"
  /\ UNCHANGED <<inputVars, outputVars, t1, t2Vars, childVars, stdin, stdin_open, stdout,
                 stdout_open, stderr, messages, exception_msg>>

\* waitpid, and the exceptions that run() throws at itself.
WaitPid ==
  /\ main = "wait"
  /\ child = "exited"
  /\ exception_msg' = IF exception_msg = "none" /\ messages > 0 THEN "stderr" ELSE exception_msg
  /\ main' = "done"
  /\ UNCHANGED <<inputVars, outputVars, t1, t2Vars, childVars, pipeVars, messages>>

-----------------------------------------------------------------------------
(* The child (external)                                                    *)

\* The child has closed its end of stdout.
ClosedOut == stream # << >> /\ stream[Len(stream)].end = "eof"

ChildReads ==
  /\ child = "running"
  /\ stdin > 0
  /\ stdin' = stdin - 1
  /\ UNCHANGED <<inputVars, outputVars, t1, t2Vars, main, childVars, stdin_open, stdout,
                 stdout_open, stderr, stderr_open, messages, exception_msg>>

ChildTurnsTo(target) ==
  /\ child = "running"
  /\ target = "out" => Len(stream) < MaxFields /\ ~ClosedOut
  /\ target = "err" => errors < MaxErrors
  /\ child' = target
  /\ UNCHANGED <<inputVars, outputVars, t1, t2Vars, main, stream, errors, pipeVars,
                 messages, exception_msg>>

ChildWrites(end) ==
  /\ child = "out"
  /\ stdout_open
  /\ Len(stdout) < OutCapacity
  /\ LET field == Field(Len(stream) + 1, end)
     IN stdout' = Append(stdout, field) /\ stream' = Append(stream, field)
  /\ child' = "running"
  /\ UNCHANGED <<inputVars, outputVars, t1, t2Vars, main, errors, stdin, stdin_open,
                 stdout_open, stderr, stderr_open, messages, exception_msg>>

ChildComplains ==
  /\ child = "err"
  /\ stderr_open
  /\ stderr < ErrCapacity
  /\ stderr' = stderr + 1
  /\ errors' = errors + 1
  /\ child' = "running"
  /\ UNCHANGED <<inputVars, outputVars, t1, t2Vars, main, stream, stdin, stdin_open, stdout,
                 stdout_open, stderr_open, messages, exception_msg>>

\* SIGPIPE: nobody reads any more.
ChildIsKilled ==
  /\ \/ child = "out" /\ ~stdout_open
     \/ child = "err" /\ ~stderr_open
  /\ child' = "exited"
  /\ UNCHANGED <<inputVars, outputVars, t1, t2Vars, main, stream, errors, pipeVars,
                 messages, exception_msg>>

CloseOut ==
  IF ClosedOut THEN UNCHANGED <<stdout, stream>>
  ELSE /\ stdout' = Append(stdout, Field(Len(stream) + 1, "eof"))
       /\ stream' = Append(stream, Field(Len(stream) + 1, "eof"))

\* The child may close stdout, maybe in the middle of a line, and go on.
ChildClosesStdout ==
  /\ child = "running"
  /\ ~ClosedOut
  /\ CloseOut
  /\ UNCHANGED <<inputVars, outputVars, t1, t2Vars, main, child, errors, stdin, stdin_open,
                 stdout_open, stderr, stderr_open, messages, exception_msg>>

\* The child ends, here or at the end of its input.
ChildExits ==
  /\ child = "running"
  /\ child' = "exited"
  /\ CloseOut
  /\ UNCHANGED <<inputVars, outputVars, t1, t2Vars, main, errors, stdin, stdin_open,
                 stdout_open, stderr, stderr_open, messages, exception_msg>>

ChildEnds == stdin = 0 /\ ~stdin_open /\ ChildExits

Done ==
  /\ main = "done"
  /\ UNCHANGED vars

-----------------------------------------------------------------------------
T1 == InputToCSV \/ AdvanceInput \/ CloseStdin
T2 == ReadCSVValue \/ SetColumn \/ \E result \in SendResults : MakeRoom(result) \/ FlushOutput(result)
Main == Start \/ JoinThreads \/ CollectMessage \/ CollectedAll \/ CloseStderr \/ WaitPid
ChildIO == ChildReads \/ ChildComplains \/ ChildIsKilled \/ \E end \in {"comma", "newline"} : ChildWrites(end)

Next ==
  \/ T1 \/ T2 \/ Main \/ Done
  \/ ChildIO \/ ChildClosesStdout \/ ChildExits \/ \E target \in {"out", "err"} : ChildTurnsTo(target)

\* The threads run, and the database answers.  The child reads what it is
\* given, completes its writes, and ends at the end of its input.
Fairness ==
  /\ WF_vars(T1) /\ WF_vars(T2) /\ WF_vars(Main)
  /\ WF_vars(ChildReads) /\ WF_vars(ChildEnds)
  /\ WF_vars(ChildComplains \/ ChildIsKilled \/ \E end \in {"comma", "newline"} : ChildWrites(end))

Spec == Init /\ [][Next]_vars
FairSpec == Spec /\ Fairness

-----------------------------------------------------------------------------
(* Properties                                                              *)

TypeOK ==
  /\ InputTypeOK
  /\ OutputTypeOK
  /\ t1 \in {"none", "write", "next", "close", "ended"}
  /\ t2 \in {"none", "read", "next", "set", "flush", "ended", "failed"}
  /\ main \in {"start", "join", "stderr", "close", "wait", "done"}
  /\ child \in {"none", "running", "out", "err", "exited"}
  /\ stdin \in 0..InCapacity
  /\ Len(stdout) <= OutCapacity + 1
  /\ stderr \in 0..ErrCapacity
  /\ {stdin_open, stdout_open, stderr_open} \subseteq BOOLEAN
  /\ column \in Cols
  /\ messages \in 0..ErrLimit
  /\ exception_msg \in {"none", "t2", "stderr"}

\* A run that ends without an error has given the database, in order and cell
\* by cell, every line that the child completed with a newline and no other:
\* although a row is only completed when the line after it has begun, and
\* the output packets are cut anywhere.  What the child wrote behind its last
\* newline is lost, and so is a packet that could not be serialised when it was
\* to be sent last: nobody looks at that exception.
DeliversEveryLine ==
  main = "done" /\ exception_msg = "none" /\ ~unserialised =>
    LET lines == Cardinality({i \in DOMAIN stream : stream[i].end = "newline"})
    IN [r \in DOMAIN delivered |-> delivered[r].cells] =
       [r \in 1..lines |-> [c \in Cols |-> stream[(r - 1) * Width + c].value]]

\* What went wrong on the side of the child is an error of the run: a stream
\* that is not CSV, and anything on stderr, whenever it was written.
FailureSurfaces ==
  main = "done" /\ (t2 = "failed" \/ errors > 0) => exception_msg # "none"

\* Nobody reads what the child wants to write: stderr is only read after both
\* threads have ended, and stdout not at all once t2 has failed.
Blocked ==
  \/ child = "err" /\ main = "join" /\ stderr = ErrCapacity
  \/ child = "out" /\ main = "join" /\ stdout_open /\ t2 = "failed" /\ Len(stdout) >= OutCapacity

\* The run of a child that reads its input and then ends is over some time,
\* unless the child is blocked in one of these two ways for good.
RunEnds == <>(main = "done") \/ <>[]Blocked
=============================================================================
