# A TLA+ model of the Exasol UDF runner (C++)

The repository holds two generations of a program that runs user-defined
functions for the Exasol database. *Version 1* (`udf-runner-cpp/v1`) is a client
process: it is started by the database with the address of a ZeroMQ socket,
asks over that socket for its meta data, its input rows and its calls, hands
them to a language container (the "VM"), and sends output rows back. *Version 2*
(`udf-runner-cpp/v2`) is, at this commit, a library of the parts a new runner
will be made of: a waitable queue, an epoll wrapper, Unix sockets with owned
descriptors, and interfaces without an implementation.

The modules here model the state-changing logic of both. TLC checks them on
small instances; for everything but the parser generator ctpg TLAPS proves the
safety properties for every value of the constants.

Run one with `tlc -workers 2 -config <cfg> <module>`, and check the proofs of a
module with `tlapm <module>.tla`. `PROJECT.json` lists runs, mutants, theorems,
hazards and the source lines of every definition.

## 1. Inventory

| Component | State it keeps | Operations | What must hold |
|---|---|---|---|
| v2 waitable queue + event fd | the storage (one sub-queue per producer), the eventfd counter | `enqueue`, `enqueue_batch`, `try_dequeue`, `drain_notifications` | no item waits without somebody being woken; per-producer order; nothing twice |
| v2 epoll | descriptor of the epoll, registrations with weak pointers to it | `add`, `modify`, `wait`, `close`, destructors | objects and kernel agree; a late registration touches nobody else's epoll; deadlines are kept |
| v2 sockets | owned descriptors, bound paths, the POSIX facade of each object | factories, `accept`, moves, `release`, `adopt`, `close`, I/O | every descriptor and path has one owner, through every failure |
| v1 client session | VM, mode, error state, exit code | the exchanges `MT_CLIENT` ... `MT_FINISHED`, run, single call, `handle_error`, `stop_all` | exit code and messages tell the truth; VM is shut down before it is deleted |
| v1 check thread | flag, cancellation, first parent pid | looks for the socket file and the parent | ends a client without a database, never one that is ending |
| v1 socket layer | REQ socket, mutex | `socket_send`, `socket_recv` with retries | one thread inside; answers reach their asker |
| v1 table iterator | current packet, offsets per column and type, row counters | `next`, `reset`, `reinitialize`, getters | a getter returns the cell of the current row |
| v1 result handler | row under construction, packet under construction, its size | setters, `next`, `flush`, `reinitialize` | the database gets the accepted rows, in bounded packets |
| v1 streaming container | two threads, a child process, three pipes | `run`, `inputToCSV`, `readCSVValue`, ... | every line arrives, every failure is reported, the run ends |
| v1 test container | – | `forwardInput` | rows come back once |
| v1 single-call arguments | the global import and export specifications | setters, call, delete | the container sees the last message and nothing of an earlier one |
| v1 script options parsers | the script, the options found | `extractOptionLine` (version 1), `parseOptions` (version 2) | exactly the options of the script |
| ctpg, the parser generator behind version 2 | FIRST sets, parse table, automaton, the stacks of a parse | the constructor of `parser` (at compile time), `parse` | table and automaton recognise what grammar and patterns say, within arrays of a fixed size |
| v1 start-up, meta data, benchmark container; v2 message builders, POSIX facade, protocol, demos | see `PROJECT.json` | | not modelled (section 8) |

How they interact: the session drives everything by request and reply; the check
thread shares the socket file and the process with it; iterator and handler
share the socket layer, the row number (`current_row`), the exception handler
and, for a scalar function, the flag `inp_force_finish`, through which a full
output packet ends the input; the streaming container uses iterator and handler
from two threads at once, which is what the mutex of the socket layer is for.
In version 2 the queue's event fd is what an epoll loop registers.

What is hard: the wake-up protocol of the queue; two threads on one socket whose
mutex covers less than an exchange; the check thread racing the clean-up;
columns of packets that are packed per type without nulls; exceptions between
two steps that belong together (store/notify, bind/listen, set/emit, receive/
call); buffers handed to ZeroMQ without a copy; descriptors and paths that are
known by number or by name and change hands behind their owner; threads, pipes
and a child that may wait for each other; parsers that work on positions, and
one that is generated at compile time by a memoised recursion. The list of hazards
in `PROJECT.json` has each at its line.

## 2. Modules

| Module | Models | Used by |
|---|---|---|
| `MailboxSpec` | abstract specification: what a queue promises | `WaitableQueue` (refinement) |
| `WaitableQueue` | `waitable_queue.hpp`, `linux_event_fd.cc` | `MCWaitableQueue`, `WaitableQueueProofs` |
| `EpollRegistrations` | `linux_epoll_registration.cc`, `linux_epoll_state.cc`, `linux_epoll.cc` | `MCEpoll`, `EpollProofs` |
| `EpollWait` | `NativeLinuxEpoll::wait` | `MCEpoll`, `EpollProofs` |
| `SocketOwnership` | `v2/socket/*.cc` | itself, `SocketOwnershipProofs` |
| `ProcessCheck` | `check.cc` | `UdfClient` |
| `UdfClient` | `exaudflib_main.cc`, `socket_high_level.cc`, composed with `ProcessCheck` | itself, `UdfClientProofs` |
| `SharedSocket` | `socket_low_level.cc` | itself, `UdfClientProofs` |
| `TableFormat` | the wire format of a packet of rows | the next three |
| `TableIterator` | `swig_table_iterator.h`, `swig_general_iterator.h` | `ResultHandler` |
| `ResultHandler` | `swig_result_handler.h`, on the same process as the iterator | `ForwardVM`, `StreamingVM`, `ResultHandlerProofs` |
| `ForwardVM` | `test_container.cc`: iterator and handler composed | `MCRows`, `RowsProofs` |
| `StreamingVM` | `streamingcontainer.cc`: iterator and handler in two threads, a child and its pipes | `MCStreamingVM`, `StreamingVMProofs` |
| `Specifications` | `script_data_transfer_objects.cc` as `send_run` and `main` use it | `MCSpecifications`, `UdfClientProofs` |
| `OptionText` | characters and the searches of `std::string` | both parsers |
| `OptionLineLegacy` | `script_option_lines.cc` | `MCOptions`, `OptionsProofs` |
| `OptionLinesCtpg` | `script_option_lines_ctpg.cc`, written by hand | `MCOptions`, `CtpgOptionParser`, `OptionsProofs` |
| `CtpgTables` | `ctpg.hpp`: the analysis of a grammar, from FIRST sets to the parse table | `CtpgParser` |
| `CtpgLexer` | `ctpg.hpp`: patterns, the automaton that is built from them, its matches | `CtpgParser` |
| `CtpgParser` | `ctpg.hpp`: the construction of a parser and the loop of a parse | `CtpgOptionParser` |
| `CtpgOptionParser` | the grammar and the patterns of `script_option_lines_ctpg.cc` as a program for `CtpgParser`, compared with `OptionLinesCtpg` | `MCOptions` |

Variables carry the names of the members they stand for where there is one
(`m_rows_received`, `inp_force_finish`, `keep_checking`). Comments mark a variable
as *history* when only properties read it, and as *external* when it is the state
of the kernel, the database or a child. Each module also defines a few *slips*,
wrong versions of its own actions; a mutant in `PROJECT.json` puts a slip in the
place of the action, and the named property must then fail.

### How the models correspond to the code

**WaitableQueue.** A producer stores its items one by one and then notifies; a
batch that fails half way notifies for what it stored, and an exception leaves
the items in the storage. A consumer is the loop of the class comment: wait for
the event fd, drain it until it is empty, then call `try_dequeue` until it
reports "empty". The storage (moodycamel, external) keeps the order of one
producer only, and one `try_dequeue` visits the sub-queues one after the other:
it may say "empty" although an item arrived in a sub-queue it has passed. At the
maximum of the counter the write fails with `EAGAIN`, which the code takes for a
notification that is pending anyway.

**EpollRegistrations / EpollWait.** A registration borrows its descriptor and
holds a weak pointer to the epoll. The kernel's interest set is a function from
descriptors to events; the number of a closed epoll can be handed to another
epoll of the process. Callers shall keep a registered descriptor open and may
break that rule: the kernel then drops it from the interest set, the number can be
opened and registered again, and the destructor of the old registration removes
the new one. The history variable `misused` names the numbers this happened to,
until their last registration is gone.

`wait` computes a deadline once and the remaining milliseconds before every
attempt, rounded up; the clock of the model runs in half milliseconds, so the
rounding shows. The caller's vector is the capacity of a wait and its result: it
shrinks to what was reported, and only the caller makes it larger (`Restore`). A
`wait` throws at once for a vector that is empty or longer than an `int` says
(`Unusable`), for a timeout that is no `int`, and on a closed epoll (`Refused`).
The kernel's ready list is level-triggered and in turns: what was reported goes to
its end. `wait` and the registrations share no variable: `MCEpoll` explores
behaviours of the one or of the other.

**SocketOwnership.** A slot is a C++ variable: empty, an owned descriptor, a
socket, a listener, or a factory call between two of its system calls. Moves
take the facade along, so a moved-from object has none; I/O on such an object
dereferences a null pointer (`UseMovedFrom`, after which nothing happens any
more). Other processes bind paths and remove any path, ours too. The library
removes its paths by name, so a listener whose path was taken removes the entry of
whoever bound it next; `usurped` names these paths, and the properties say that
nothing else is touched.

**UdfClient / ProcessCheck.** One action per exchange and per call of the VM;
`pc` names the next thing `exaudfclient_main` does. An exchange is one step: a REQ
socket allows nothing between request and reply and the main thread only waits.
The database answers with every kind of reply the code tells apart, or leaves,
with or without its socket file, and with or without a new parent for the
client. Errors in a run surface only after `MT_CLEANUP`; in single-call mode
everything thrown between two exchanges is swallowed; a failing `setrlimit`
throws outside the `try` (`SetLimitFails`); `assert` is active unless the build
is optimised. The check thread's steps (sleep, look for the file, look at the
parent, abort) interleave with all of that, and `pthread_cancel` acts where it
sleeps.

**SharedSocket.** Several threads, one REQ socket, a mutex per call. What keeps
two exchanges apart is that the socket refuses a second request (`EFSM`), and
that the code then gives the mutex back and tries again. A message is a view of
its sender's buffer without a copy, so the buffer must stay as it is until the
answer is there; it is what an exchange begins with that writes it. (`send_init`
may leave a receive without an answer; it then serialises the same bytes into the
same buffer. That is the session's, and `UdfClient`'s, affair.)

**TableIterator / ResultHandler / ForwardVM.** Packets are modelled as they are
on the wire: null flags row by row, values per *type* in one sequence without
the nulls, so that the position of a value depends on the nulls of every earlier
column of its type. A cell is null or has a name of its own; a string with a NUL
byte has a tail, which `setString` drops. The database cuts a group into packets
anywhere, may send an error or an unexpected close, and may send a packet that
lacks a flag or a value. The size of a cell is that of its type and, for a string,
its length (`StringLength`).

A packet that cannot be serialised stays where it is, with its size (`Send`,
history `unserialised`); one whose answer is an error is gone. A `next()` that
fails between two columns leaves half a row in the packet, and `torn` says where:
`half`, at the end, where a reader of whole rows does not see it; or `inside`, once
`next()` has accepted a row on top of it, whose cells are then read from the wrong
places. `OutputFaithful` covers the first case and stops at the second, which is
what the code does. `m_message_size` is right in both.

Exceptions are a flag that only generated bindings turn into a C++ exception, so a
VM goes on after one.

**StreamingVM.** Threads `t1` (rows to the child), `t2` (child to rows), the main
thread, and the child, over three bounded pipes. What the child writes is a
stream of fields with the delimiter behind each; it may close stdout and go on.
The main thread reads stderr only after both threads ended. `csvReaders` has an
entry for `STRING` alone: `Readable` are the columns that have it, and the field of
any other column, of the string-wired `NUMERIC`, `DATE` and `TIMESTAMP` too, ends
`t2` with an exception.

The end of the stream is a delimiter like the others. With two columns or more, a
child that ends its last line with a newline and exits leaves an empty field that
ends before the last column, and that is an error of the run; the runs without an
error end in an incomplete last line, which is lost. With one column the empty
field is a line of its own, also lost, and no error.

**Specifications.** `send_run` goes through the fields of a message in their order
(`Order`) and passes every value of a field to its setter, which may throw; `field`
and `given` say how far it has come. The argument is a global object that is
filled, passed and deleted, or left behind when something throws in between.

**Option parsers.** A script is a sequence of characters of which only the class
matters; positions are one-based and 0 is `npos`. Both parsers work on the variable
`code`. Version 1 is one step per call. Version 2 is one step per token: the scanner
takes the longest match and the LR parser's conflicts are resolved as shifts; the
nonterminals are the values of `mode`. At the end of a line its options are pushed
one by one to the vectors of their keys, and the search goes on behind the line
(`EndLine`, `PushOption`, `LeaveLine`). What it is checked against are operators of a
script that use neither tokens nor a grammar: `IsOption` and `Leads` (which
characters are an option), `Broken` (where one begins and does not end), and
`Decodes` (a value has as many characters as the script keeps there, and each is
the one its place stands for). The line number of an error message is left out.

**ctpg.** That the parser behaves like this is not assumed. `CtpgTables` is
`analyze_states` with everything below it: empty and FIRST sets that are memoised
while they are computed, closures of situations, transitions to states that are
reused when they contain the new kernel, and the resolution of conflicts. One step
analyses one state of the queue. `CtpgLexer` is the hand-written scanner of
patterns, the functions of `dfa_builder`, which glue automata inside one growing
array by merging states, and `dfa_match`. `CtpgParser` is what the constructor of
a parser does: the tables of its grammar, the tables of ctpg's own grammar of
patterns, then term by term a parse of the pattern, by the same parse loop, whose
reductions build the automaton; after that, the parses of texts. Characters keep
their codes where ranges, escapes and complements need them. A parser whose
pattern is no regular expression ends in `throw`, which at compile time is a
compiler error. `CtpgOptionParser` gives it three kinds of programs: the option
parser itself; a list of tokens whose patterns use what those of the options do
not (`{n}`, `*`, `?`, groups, strings); and parsers with a broken pattern.

## 3. Runs

| Run | Module, configuration | Checks |
|---|---|---|
| `queue_faults` | `MCWaitableQueue`, `WaitableQueueFaults.cfg` | `TypeOK`, `NoLostWakeup`: with exceptions at any step and a saturated counter, an item that no failed call abandoned has a pending notification, a producer about to notify, or a consumer that will still visit it |
| `queue_live` | `MCWaitableQueue`, `WaitableQueueLive.cfg` | refinement of `MailboxSpec`, safety (`ImplementsMailbox`) and fairness (`ImplementsFairMailbox`), and that the queue comes to rest (`Quiescence`) |
| `client` | `UdfClient`, `UdfClient.cfg` | `ExitTellsTheTruth`, `ShutDownBeforeDelete`, `NoSpuriousAbort`, `StartsFromOneHandshake` (the VM of a local client has the columns of one `MT_META`, and no exception of an earlier attempt is pending), `UnansweredCallsFailed`, `LostDatabaseEndsClient` |
| `client_orphan` | `UdfClient`, `UdfClientOrphan.cfg` | *violated*: `OrphanEnds` |
| `shared_socket` | `SharedSocket`, `SharedSocket.cfg` | `AnswersReachTheirAsker`, `RequestsIntact` (no buffer changes between the send and its answer), `EveryRequestIsAnswered` |
| `rows` | `MCRows`, `Rows.cfg` | `InputFaithful` (cells, row number and row count), `OutputFaithful`, `EmitIsBounded` (`m_message_size` is the size of the packet, half rows included, and no packet stays that has reached the limit, unless it could not be serialised or a failing `next()` added to it) under any calls of iterator or handler; `ForwardsEveryRow` for the copying VM |
| `stream` | `MCStreamingVM`, `StreamingVM.cfg` | `DeliversEveryLine`, `FailureSurfaces`, `RunEnds`, with two columns (so its error-free runs end in an incomplete last line) |
| `epoll` | `MCEpoll`, `Epoll.cfg` | `RegistrationsAreTheInterestSet` (wherever no descriptor was closed under its registration, and the damage ends with the registrations of that number), `NobodyElsesEpoll`, `DeadlinePreserved` (not early, not late), `WaitReturns`, `ReadyIsReported` (nobody starves although the vector shrinks) |
| `sockets` | `SocketOwnership`, `SocketOwnership.cfg` | `ExclusiveOwners`, `CanCleanUp`, `PathsHaveOwners`, `ForeignPathsSafe` |
| `options` | `MCOptions`, `Options.cfg` | version 2: `FindsTheOptions` (all, in order, with their positions), `ValuesDecoded`, `CtpgTerminates`; version 1: `CutsOneOption`; ctpg: `FirstSetsExact`, `ConflictsAreKnown`, `FitsItsArrays`, `LexerIsExact`, `GeneratedParserIsExact` |
| `options_lines` | `MCOptions`, `OptionsLines.cfg` | *violated*: `EveryLineRecognised` |
| `specifications` | `MCSpecifications`, `Specifications.cfg` | `ArgumentIsTheMessage` (all of the last message, nothing of an earlier one, and never two connections) |

The two violated runs are disagreements between the code and its own words:

* `client_orphan`: `check.cc` says that an orphaned client notices that its parent
  changed, but the parent is recorded when the check thread first looks. A client
  that lost its parent before that takes the adopting process for it and, as long
  as the socket file stays, never ends.
* `options_lines`: the requirements ask for options "at any line"; the version 1
  parser looks at the first occurrence of the key only, and one inside an earlier
  line hides the option.

Others that were met while modelling and have no run of their own: a single call
whose container throws is never answered (its positive half is
`UnansweredCallsFailed`); the streaming container calls `next()` before the first
row as well, against the comment beside it, because the counter starts at one; a
version 1 option is found as the prefix of a longer key; I/O on a moved-from
socket dereferences a null facade where the design promises `std::system_error`;
the environment variable for the parser version has priority only when it says 2;
and the streaming container never looks at the exception flag of iterator and
handler (`exaudflib_main.cc` does so once, before the VM runs), so that a run whose
last packet could not be serialised, or was refused, ends as if it had been taken.
`DeliversEveryLine` leaves the unserialised packet out.

### Bounds

Every bound is a CONSTANT or a named definition.

* Queue: two producers and two consumers (a batch of one overlaps a notification
  of the other, both consumers wake for one signal), batches of two, a counter
  that saturates after one or two signals, two exceptions. Symmetry only in the
  safety run. The theorems remove all these bounds.
* Client: `MaxMeta` = 2 accepted `MT_META` replies, enough for a remote client to
  fail half way and start over. The session loop itself is not bounded: its state
  is finite.
* Rows: three columns of two types, so that a column shares its value sequence
  with one other and not with the third; groups of up to three rows, the
  smallest with a packet border before *and* after an advance inside a packet;
  packets full after one long row or after two (`Lengths`: a string of the second
  row fills a packet by itself). Strings with a NUL byte in groups of one row
  (`TailRows`). Of the calls of `next()` on one packet one may fail (`MayCall`),
  before, between or after rows that are accepted.
* Stream: two-column lines, pipes of one or two entries, two input rows without
  nulls (`NoNulls`), so that every thread blocks somewhere; six fields and the end
  of the stream: a row is completed when the line after it begins, and a packet is
  full after two rows, or after one with the long field (`Lengths`). Left to
  the theorem `LinesAreDelivered`, which is for any columns: a single column, where
  a child that ends all its lines properly makes no error, and columns that are not
  `Readable`.
* Epoll: three registrations for two descriptors; timeouts 0, 1, 2 and 4 ms of
  which the last exceeds `MaxInt`; a clock of nine ticks; two tokens and vectors
  of one or two events, so that a vector that shrank to one has to serve both, and
  one of four, which exceeds `MaxInt`.
* Sockets: three objects, three descriptors and two paths: a number is reused
  while its old owner still exists, and two objects compete for a path.
* Options: all scripts of up to five pieces, where a piece is a character that
  matters, the beginning of an option, or a whole option: two options in one
  line, options in two lines, an escape before a terminator. ctpg (`TextPieces`):
  all lines of up to four such pieces, with a blank escape among them; every word
  of up to three characters of an eleven-letter alphabet for the automaton, which
  has a character of each class the patterns tell apart, and one above 127.
* Specifications: three calls, every optional field absent, empty or given.

### Fairness

* Queue: producers inside a call and consumers go on; nobody is forced to call.
* Client: the check thread and the clean-up go on. A VM may compute for ever and
  the database may never answer, so nothing is assumed of them;
  `LostDatabaseEndsClient` holds by the check thread alone.
* Shared socket: threads go on, and the database answers. Taking the mutex, and a
  send into a free socket, are strongly fair: a thread whose attempt failed gives
  the mutex back and sleeps 0.1 s before it asks again, so the others get it.
* Stream: the threads run, the database answers, and the child reads what it is
  given and ends at the end of its input. A child that does not may run for ever;
  a child that writes more than the pipes hold when nobody reads them blocks the
  run, and `RunEnds` names exactly these two cases (`Blocked`).
* Epoll: time passes and the kernel ends a wait that is over or has an event,
  *unless a signal interrupts it*; signals may never stop. `ReadyIsReported` states
  its further assumptions as its premise `WaitsAgain`: the epoll stays open, the
  caller is a loop that waits again and restores its vector to a size that fits at
  least when `wait` would refuse it, and `epoll_wait` does not fail or get
  interrupted for ever. The waiting is strongly fair, because the caller may resize
  its vector in between.
* Options: the parser takes its next step.

## 4. Theorems

The theorems are about the same modules as the runs and hold for every value of
the constants that satisfies the named assumptions. Most of these only say that
bounds are numbers and that special values are not members of the sets they mark
(`QueueAssumption`, `SocketAssumption`, `EpollAssumption`, `WaitAssumption`,
`OwnershipAssumption`, `MaxMetaAssumption`, `IteratorAssumption`,
`HandlerAssumption`, `PipeAssumption`, `MessagesAssumption`, `ScriptsAssumption`, and
`FieldAssumption`: the name of a field is not the name of the null). These have
content:

* `LocksAssumption`: a VM that does not ask for locks has one thread;
* `FormatAssumption`: there is at least one column;
* `ReaderAssumption`: a column that is declared `STRING` travels as a string;
* `CharactersAssumption`: white space, line ends, letters of a key and `%`, `;`, `\`
  are different characters, as they are in the patterns;
* `KnownAssumption`: what a caller of version 1 asks for is `%` and a key;
* `EscapedAssumption`: `;` and `\` can be escaped, and no escape is both of the kind
  that may stand anywhere and of the kind that may only begin a value.

| Theorem | Statement | Inductive invariant |
|---|---|---|
| `TypeCorrect` | `Spec => []TypeOK` (queue) | itself |
| `WakeupsAreNotLost` | `Spec => []NoLostWakeup` | + `IdleOwesNothing`: a producer between calls has stored nothing it did not notify for; without it a producer that returns could take the only promise of a wake-up with it |
| `QueueIsMailbox` | `Spec => ImplementsMailbox` | + `NumberedInv`: stored = waiting + taken, which names the item the abstract `Put` adds |
| `SocketIsNotShared`, `AnswersAreOwn`, `BuffersAreLeftAlone` | `[]OneThreadInSocket`, `[]AnswersReachTheirAsker`, `[]RequestsIntact` | `MutexGuardsSocket` (the thread inside holds the mutex) and `AskerWaits` (the socket waits for exactly the thread that waits for it, so nobody who begins a request, and writes its buffer, has one under way) |
| `RegistrationsAgree`, `OtherEpollsAreSafe` | `[]RegistrationsAreTheInterestSet`, `[]NobodyElsesEpoll`, for callers that may close registered descriptors | + `OpenIsOurs`: the state is open only while the number is ours |
| `DeadlinesAreKept` | `EpollSpec => []DeadlinePreserved`, for any resolution of the clock and any largest timeout | `AttemptsReachTheDeadline`: the wake-up of the attempt in the kernel lies at or behind the deadline; that holds because the rest is rounded up (`CeilRoundsUp`, `RemainingReaches`), and the upper half because less than a millisecond is added |
| `DescriptorsHaveOneOwner`, `CleanUpIsSafe`, `PathsHaveOneOwner` | the three invariants of `SocketOwnership` | `Owned`: + `Shapes`, what an object of each kind holds; a factory between two system calls has its descriptor, its facade and, after `bind`, its path |
| `ForeignPathsAreSafe` | the action property `ForeignPathsSafe`, with other processes that remove our paths | `Owned` |
| `TypeCorrect`, `ExitIsTruthful`, `NoDeleteWithoutShutdown` | `[]TypeOK`, `[]ExitTellsTheTruth`, `[]ShutDownBeforeDelete` (client) | `Phases`: what is true of VM, exit code and messages in each phase of `main` (before the VM, in the loops, behind them, in `handle_error`, on the way out), and that in normal mode a failure that nobody has reported has left its message |
| `CheckIsRight` | `[]NoSpuriousAbort` | `CheckInv`: a new parent means that the database has left; the file of a local client whose database is up goes only after the thread was cancelled; so a thread that found it missing is right, or dies in its sleep |
| `OneHandshake`, `CallsAreAnswered` | `[]StartsFromOneHandshake`, `[]UnansweredCallsFailed` | `OneTry` (a local client never repeats a handshake after a reply that counted), `AnsweredOrFailed` |
| `InputIsFaithful` | `[]InputFaithful` for every table, every cut into packets and every sequence of calls | `InputInv`: the packet tells the rows behind those sent before (`Tells`, also of a packet that lacks its last flag or value), and the offsets and counters are the numbers of values up to the current row (`Counted`) |
| `OutputIsFaithful` | `[]OutputFaithful` | `OutputInv`: the packet is `WellFormed`, one flag per cell and one value per flag that is not set, and with half a row behind its last one still `Whole`: its rows have all their flags and values; lemma `RowAppended` is the core: a reader of the packet gets the new row behind the old ones, whatever is null in it and in them; `PartAppended` says that half a row changes nothing a reader gets |
| `EveryRowIsForwarded` | `[]ForwardsEveryRow` | + `CopyInv` (what the copying VM has written is what it has read) and `StopInv` (how a full packet ends the input of a scalar function) |
| `EmitStaysBounded` | `[]EmitIsBounded`, for strings of any length | `LimitInv` (no packet stays that has reached the limit, and before the copying VM starts the packet is empty) and `SizeInv`: `m_message_size` is the number of bytes in the packet; the bytes are a set (`PacketBytes`), and what a row, or the first columns of one, adds is disjoint from what was there |
| `NoSilentFailure` | `[]FailureSurfaces` (streaming container) | `FailureInv`: every message of the child is in the pipe or collected, and the main thread leaves stderr when it has what it keeps or the child is gone |
| `LinesAreDelivered` | `[]DeliversEveryLine`, for any number of columns, readable or not, any pipes and any packet limit | `StreamInv`: `PipeInv` (the pipe holds the last fields of the stream), `ReaderAt(L)` (`t2` stands in line `L`, and every field before was where it belongs), `RowOf(L, A)` (`A` rows are accepted: `L` once the line has begun, one less before, since the row of a line is only completed by the line after it) and `Holds` (packet and database have the first `A` lines; a flag may be left over from the `next()` before the first line, which fails); a thread that ended has sent them all, unless the last packet could not be serialised |
| `ArgumentIsRight` | `ArgSpec => []ArgumentIsTheMessage`, for messages with any columns and parameters | `ArgInv`: while it is filled, the argument holds the fields before the one `send_run` is at and the values passed of that one (`Filling`); before a call and in it, it is empty or `Whole`; connections and parameters are kept apart always |
| `OneOptionIsCut` | `LegacySpec => CutsOneOption`, for every script | the script stays text; the rest is `ExtractedCutsOne`, from what each search of `std::string` finds (`FirstInFact`, `LastNotInFact`, `FindFact`, ...) |
| `OptionsAreFound` | `Spec => []FindsTheOptions` (version 2), for every script | `LinesInv`: what was read so far is exactly the options of the script that lead their line before the parser's place, and none is broken there (`Settled`); what each mode has seen (`InKey`, `InGap`, `InFirst`, `InValue`: no `;` the parser stands before is escaped); and the options lie behind one another (`InOrder`) |
| `ValuesAreDecoded` | `Spec => []ValuesDecoded` | + `DecodeInv`: the value being read is decoded up to the parser's place, and no backslash before that place is the beginning of an escape (`Pending`) |

Each proof has one step (or one lemma) per action; the temporal step combines
`Init => Inv`, `Inv /\ [Next]_vars => Inv'` and `Inv => P` with PTL. The
lemmas about packets (`ResultHandlerProofs`) serve both the row interface and the
streaming container: `PlaceOfCell`/`CellOfPlace` between a cell and its row and
column, `OrderIsRank` (what `InOrder` computes, by counting instead of induction),
`PlacesInRow` and `RowAppended`.

The parsers (`OptionsProofs`) need no induction over the text: `Least` and `Greatest`
say that a set of positions that is not empty has a first and a last member, and
every search, run of characters or count of backslashes is one of these. Three
lemmas carry the proof of version 2. `ValueToken`: a token of a value contains no
`;` that ends it, and leaves the parser at a character that is not escaped, because
an escape is one token. `SettledByOption`: an option that was read is the only one
that leads the line between its ends. `ErrorIsBroken`: where the parser stops, an
option of the script begins that has no end, so a syntax error is never raised for
a script without one.

## 5. Only model-checked

* Everything under fairness (`Quiescence`, `ImplementsFairMailbox`,
  `LostDatabaseEndsClient`, `EveryRequestIsAnswered`, `RunEnds`, `WaitReturns`,
  `ReadyIsReported`, `CtpgTerminates`): TLAPS does not prove liveness here.
* ctpg (`FirstSetsExact`, `ConflictsAreKnown`, `FitsItsArrays`, `LexerIsExact`,
  `GeneratedParserIsExact`): the generator is recursive and is run on the
  repository's one grammar, and the automaton's meaning is an induction over words.
  That the generated parser is the one `OptionsAreFound` speaks of is therefore
  checked for the texts of the `options` run only.

## 6. Assumptions about what is outside

The moodycamel queues keep the order of one producer; ZeroMQ's REQ socket
alternates requests and replies; `eventfd`, `epoll` and Unix sockets behave as
their manual pages say; the database sends any message of a type the client
distinguishes, but no more rows than a packet announces; the compiler evaluates
ctpg's constructors as they would run.

## 7. Plan

Done in this order: queue, its mailbox and proofs; session and check thread;
iterator, handler and their compositions; streaming container; socket layer;
epoll; sockets; the two parsers; the single-call arguments; callers and processes
that break the rules of epoll and sockets; the vector of `wait`; the buffers of the
socket layer; the parser generator.

Then the proofs: queue, sockets, socket layer and registrations; the deadline of
`wait`; the session and its check thread; the row interface; the streaming
container; the size of a packet; the single-call arguments; the two option parsers.

What is left to prove is `TypeOK` of the streaming container and of the row
interface. Their other theorems rest on the types they need. The rest of section 5
is out of reach of the provers.

## 8. Not modelled

* The meta data of version 1 (`swig_meta_data.h`): accessors that copy a field, and
  two import requests. A request is one exchange of the socket layer, of which
  `SharedSocket` models the exchange and `CheckException` of `TableIterator` the
  exception flag; nothing is kept from one to the next but the last text.
* The getters and wrappers of the single-call arguments: a field each.
* Start-up: arguments, library, environment, factory. A straight line of checks
  that ends before there is a second thread or a peer.
* The benchmark container: it reads all rows and emits two, with calls that
  `MCRows` makes in any order.
* Version 2's message builders and views: setters and getters of one object that
  nothing sends yet. Its interfaces have no implementation, its POSIX facade is one
  system call per function.
* Of ctpg, what no grammar of the repository uses: error recovery and the
  consumption of terms in it, the generator's own skipping of white space, rules
  with an explicit precedence, typed and custom terms, custom lexers and the
  printed diagnostics.
* Dynamic symbol loading, demos, benchmarks and generated protobuf code; the other
  third-party libraries; the bytes of socket transfers; formatting of numbers,
  dates and messages.

The component list of `PROJECT.json` has a reason for each.
