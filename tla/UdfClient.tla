----------------------------- MODULE UdfClient -----------------------------
(***************************************************************************)
(* The life of a v1 client process: exaudfclient_main, handle_error and    *)
(* stop_all, with the request/reply exchanges of socket_high_level, next   *)
(* to the check thread of ProcessCheck.                                    *)
(*                                                                         *)
(* Every exchange is one step: a REQ socket allows nothing between the     *)
(* request and its reply, and the main thread only waits.  The database    *)
(* (external) answers with any reply the code tells apart, or leaves.  The *)
(* VM (external: a language container) may fail wherever it is called.     *)
(***************************************************************************)
EXTENDS ProcessCheck

CONSTANT MaxMeta   \* bound: MT_META replies accepted by one process

ASSUME MaxMetaAssumption == MaxMeta \in Nat \ {0}

VARIABLES
  db,          \* "up" or "gone"
  pc,          \* the next thing the main thread does
  mode,        \* "normal" or "single" (singleCallMode)
  exthrowed,   \* exchandler.exthrowed
  columns,     \* how many MT_META replies left columns in SWIGVM_params
  vm,          \* "none", "made" (by vmMaker) or "deleted"
  armed,       \* shutdown_vm_in_case_of_error
  shutdown_vm, \* the parameter handle_error was called with
  shutdowns,   \* history: calls of vm->shutdown()
  exception_msg,  \* vm->exception_msg is not empty
  fn,          \* singleCallFunction
  args,        \* the single-call arguments that are not empty
  undefined,   \* vm->calledUndefinedSingleCall is not empty
  pending,     \* history: an MT_CALL was accepted and not answered
  unreported,  \* history: the VM failed and the database was not told
  finished,    \* history: the MT_FINISHED handshake was completed
  code         \* what main returns; "none" until it is decided

callVars == <<fn, args, undefined, pending>>
vmVars == <<vm, armed, shutdown_vm, shutdowns, exception_msg>>
clientVars ==
  <<db, pc, mode, exthrowed, columns, vmVars, callVars, unreported, finished, code>>
vars == <<checkVars, clientVars>>

\* The kinds of reply that the exchanges tell apart.  "right" is the type the
\* request asks for, "garbled" does not parse.
Reply == {"right", "CLOSE", "CLEANUP", "other", "garbled"}

Functions == {"NIL", "COLUMNS", "IMPORT", "EXPORT", "ADAPTER"}
Specs == {"IMPORT", "EXPORT"}

\* The exchanges: in these places the main thread waits for the database.
Exchanges == {"init", "meta", "run", "done", "return", "undefined", "finish", "close"}

Alive == aborted = "no" /\ pc # "exit"
At(place) == Alive /\ pc = place
Answered(place) == At(place) /\ db = "up"

Init ==
  /\ CheckInit
  /\ db = "up"
  /\ pc = "init"
  /\ mode = "normal"
  /\ exthrowed = FALSE
  /\ columns = 0
  /\ vm = "none"
  /\ armed = FALSE
  /\ shutdown_vm = FALSE
  /\ shutdowns = 0
  /\ exception_msg = FALSE
  /\ fn = "NIL"
  /\ args = {}
  /\ undefined = FALSE
  /\ pending = FALSE
  /\ unreported = FALSE
  /\ finished = FALSE
  /\ code = "none"

-----------------------------------------------------------------------------
(* Slips that the properties must catch.                                   *)

\* A remote client's way of starting over, taken by every client.
InitFailsAgain(thrown) ==
  /\ exthrowed' = (exthrowed \/ thrown)
  /\ pc' = "init"
  /\ code' = code

\* stop_all without cancel_check_thread.
StopAllButThread ==
  /\ At("stop")
  /\ StopCheckThread
  /\ pc' = IF remote THEN "leave" ELSE "unlink"
  /\ UNCHANGED <<db, mode, exthrowed, columns, vmVars, callVars, unreported, finished, code>>

\* run_ does not keep the message of the exception it catches.
RunVmForgets(outcome) ==
  /\ At("group")
  /\ outcome \in {"ok", "caught"}
  /\ pc' = "done"
  /\ unreported' = (unreported \/ outcome # "ok")
  /\ UNCHANGED <<checkVars, db, mode, exthrowed, columns, vmVars, callVars, finished, code>>

\* handle_error for a failed single call with its default shutdown_vm=false.
SingleCallKeepsVm(outcome) ==
  /\ At("call")
  /\ outcome = "error"
  /\ exception_msg' = TRUE
  /\ unreported' = TRUE
  /\ shutdown_vm' = FALSE
  /\ pc' = "error"
  /\ code' = "error"
  /\ UNCHANGED <<checkVars, db, mode, exthrowed, columns, vm, armed, shutdowns,
                 callVars, finished>>

-----------------------------------------------------------------------------
(* send_init: MT_CLIENT and MT_META                                        *)

\* send_init returned false.  A local client with an error tells the database
\* (handle_error without a VM); everyone else starts over.
InitFails(thrown) ==
  /\ exthrowed' = (exthrowed \/ thrown)
  /\ IF ~remote /\ exthrowed'
     THEN pc' = "close" /\ code' = "error"
     ELSE pc' = "init" /\ code' = code

SendClient(reply) ==
  /\ Answered("init")
  /\ IF reply = "right"
     THEN pc' = "meta" /\ UNCHANGED <<exthrowed, code>>
     ELSE InitFails(TRUE)
  /\ UNCHANGED <<checkVars, db, mode, columns, vmVars, callVars, unreported, finished>>

\* The reply to MT_CLIENT is the only one that is not waited for: without it
\* send_init returns false.
ClientTimeout ==
  /\ At("init")
  /\ remote \/ file
  /\ InitFails(FALSE)
  /\ UNCHANGED <<checkVars, db, mode, columns, vmVars, callVars, unreported, finished>>

\* A limit that cannot be set is thrown out of main: send_init is called
\* outside of its try block.
SetLimitFails ==
  /\ At("meta")
  /\ Die("terminate")
  /\ UNCHANGED clientVars

\* The columns of the reply are appended; a column type the client does not
\* know ends the loop with an error and leaves the columns seen so far.
SendMeta(reply, m, supported) ==
  /\ Answered("meta")
  /\ reply = "right" => columns < MaxMeta
  /\ columns' = IF reply = "right" THEN columns + 1 ELSE columns
  /\ mode' = IF reply = "right" THEN m ELSE mode
  /\ IF reply = "right" /\ supported
     THEN pc' = "make" /\ UNCHANGED <<exthrowed, code>>
     ELSE InitFails(TRUE)
  /\ UNCHANGED <<checkVars, db, vmVars, callVars, unreported, finished>>

-----------------------------------------------------------------------------
(* handle_error(..., shutdown_vm), stop_all and the return from main       *)

\* return handle_error(..., shutdown)
Fail(shutdown) == pc' = "error" /\ code' = "error" /\ shutdown_vm' = shutdown

\* An exception reaches the catch blocks at the end of main.
Throw == Fail(armed)

GoTo(place) == pc' = place /\ UNCHANGED <<code, shutdown_vm>>

\* The first try block of handle_error.  If shutdown throws, the VM is not
\* deleted.
HandleError(throws) ==
  /\ At("error")
  /\ pc' = "close"
  /\ IF vm = "made" /\ shutdown_vm
     THEN /\ shutdowns' = shutdowns + 1
          /\ vm' = IF throws THEN vm ELSE "deleted"
     ELSE /\ ~throws
          /\ vm' = IF vm = "made" THEN "deleted" ELSE vm
          /\ UNCHANGED shutdowns
  /\ UNCHANGED <<checkVars, db, mode, exthrowed, columns, armed, shutdown_vm,
                 exception_msg, callVars, unreported, finished, code>>

\* send_close: an answer other than MT_FINISHED throws, which handle_error
\* only logs.
SendClose(reply) ==
  /\ Answered("close")
  /\ pc' = "stop"
  /\ unreported' = FALSE
  /\ UNCHANGED <<checkVars, db, mode, exthrowed, columns, vmVars, callVars, finished, code>>

DeleteVm ==
  /\ At("delete")
  /\ vm' = "deleted"
  /\ pc' = "stop"
  /\ code' = "ok"
  /\ UNCHANGED <<checkVars, db, mode, exthrowed, columns, armed, shutdown_vm,
                 shutdowns, exception_msg, callVars, unreported, finished>>

StopAll ==
  /\ At("stop")
  /\ StopCheckThread
  /\ pc' = IF remote THEN "leave" ELSE "cancel"
  /\ UNCHANGED <<db, mode, exthrowed, columns, vmVars, callVars, unreported, finished, code>>

Cancel ==
  /\ At("cancel")
  /\ CancelCheckThread
  /\ pc' = "unlink"
  /\ UNCHANGED <<db, mode, exthrowed, columns, vmVars, callVars, unreported, finished, code>>

Unlink ==
  /\ At("unlink")
  /\ UnlinkSocketFile
  /\ pc' = "leave"
  /\ UNCHANGED <<db, mode, exthrowed, columns, vmVars, callVars, unreported, finished, code>>

\* main returns and the process ends; the other thread runs until then.
Leave ==
  /\ At("leave")
  /\ pc' = "exit"
  /\ UNCHANGED <<checkVars, db, mode, exthrowed, columns, vmVars, callVars,
                 unreported, finished, code>>

-----------------------------------------------------------------------------
(* vmMaker and the loop of normal mode                                     *)

\* vmMaker throws or returns nullptr, or the VM has an error message: then it
\* is not shut down.
MakeVm(outcome) ==
  /\ At("make")
  /\ vm' = IF outcome \in {"ok", "error"} THEN "made" ELSE "none"
  /\ exception_msg' = (outcome = "error")
  /\ unreported' = (outcome # "ok")
  /\ armed' = (outcome = "ok")
  /\ IF outcome = "ok" THEN GoTo("run") ELSE Fail(FALSE)
  /\ UNCHANGED <<checkVars, db, mode, exthrowed, columns, shutdowns, callVars, finished>>

\* send_run, answered by anything but MT_CALL.  MT_RUN is accepted in
\* single-call mode too: then the previous function is called again.
SendRun(reply) ==
  /\ Answered("run")
  /\ \/ reply = "right" /\ GoTo(IF mode = "normal" THEN "group" ELSE "call")
     \/ reply = "CLEANUP" /\ GoTo("shutdown")
     \/ reply \notin {"right", "CLEANUP"} /\ Throw
  /\ UNCHANGED <<checkVars, db, mode, exthrowed, columns, vm, armed, shutdowns,
                 exception_msg, callVars, unreported, finished>>

\* send_run, answered by MT_CALL in single-call mode.  The function is stored
\* before its argument is looked at; an argument that is missing, or that the
\* specification's setters refuse, throws.
ReceiveCall(f, given) ==
  /\ Answered("run")
  /\ mode = "single"
  /\ fn' = f
  /\ IF f \in Specs \cup {"ADAPTER"} /\ ~given
     THEN Throw /\ UNCHANGED <<args, pending>>
     ELSE GoTo("call") /\ args' = args \cup ({f} \cap Specs) /\ pending' = TRUE
  /\ UNCHANGED <<checkVars, db, mode, exthrowed, columns, vm, armed, shutdowns,
                 exception_msg, undefined, unreported, finished>>

\* vm->run_(): a SWIGVM::exception becomes exception_msg and "we are done"; a
\* VM may also set the message and return false, or throw something else.  A
\* VM that returns false without a message is run again, which is no step.
RunVm(outcome) ==
  /\ At("group")
  /\ exception_msg' = (exception_msg \/ outcome \in {"caught", "false"})
  /\ unreported' = (unreported \/ outcome # "ok")
  /\ \/ outcome \in {"ok", "caught"} /\ GoTo("done")
     \/ outcome = "false" /\ Fail(TRUE)
     \/ outcome = "throws" /\ Throw
  /\ UNCHANGED <<checkVars, db, mode, exthrowed, columns, vm, armed, shutdowns,
                 callVars, finished>>

\* In single-call mode whatever send_done throws is swallowed.
SendDone(reply) ==
  /\ Answered("done")
  /\ \/ reply = "right" /\ GoTo("run")
     \/ reply = "CLEANUP" /\ GoTo("shutdown")
     \/ reply \notin {"right", "CLEANUP"} /\ IF mode = "single" THEN GoTo("run") ELSE Throw
  /\ UNCHANGED <<checkVars, db, mode, exthrowed, columns, vm, armed, shutdowns,
                 exception_msg, callVars, unreported, finished>>

\* vm->shutdown() after the loop, and the look at exception_msg behind it.
Shutdown(outcome) ==
  /\ At("shutdown")
  /\ shutdowns' = shutdowns + 1
  /\ exception_msg' = (exception_msg \/ outcome = "error")
  /\ unreported' = (unreported \/ outcome # "ok")
  /\ \/ outcome = "throws" /\ Throw
     \/ outcome # "throws" /\ IF exception_msg' THEN Fail(FALSE) ELSE GoTo("finish")
  /\ UNCHANGED <<checkVars, db, mode, exthrowed, columns, vm, armed, callVars, finished>>

SendFinished(reply) ==
  /\ Answered("finish")
  /\ finished' = (reply = "right")
  /\ IF reply = "right" THEN GoTo("delete") ELSE Throw
  /\ UNCHANGED <<checkVars, db, mode, exthrowed, columns, vm, armed, shutdowns,
                 exception_msg, callVars, unreported>>

-----------------------------------------------------------------------------
(* The loop of single-call mode: everything that is thrown between the two *)
(* exchanges of the loop ends in catch(...) {} and the next MT_RUN.        *)

\* The assertions before the call: a function, and its argument.
Callable == fn # "NIL" /\ (fn \in Specs => fn \in args)

CallAsserts ==
  /\ At("call")
  /\ ~Callable
  /\ Die("assert")
  /\ UNCHANGED clientVars

\* A slip: an undefined call is taken for an answered one.
SingleCallSilent(outcome) ==
  /\ At("call")
  /\ Callable
  /\ args' = IF outcome = "throws" THEN args ELSE args \ {fn}
  /\ exception_msg' = (exception_msg \/ outcome = "error")
  /\ undefined' = (undefined \/ outcome = "undefined")
  /\ unreported' = (unreported \/ outcome \in {"error", "throws"})
  /\ \/ outcome = "error" /\ Fail(TRUE)
     \/ outcome = "throws" /\ GoTo("run")
     \/ outcome \in {"value", "undefined"} /\ GoTo(IF undefined' THEN "run" ELSE "return")
  /\ UNCHANGED <<checkVars, db, mode, exthrowed, columns, vm, armed, shutdowns,
                 fn, pending, finished>>

\* vm->singleCall.  A specification is deleted after the call, but not when
\* the call throws.  calledUndefinedSingleCall is never reset.
SingleCall(outcome) ==
  /\ At("call")
  /\ Callable
  /\ args' = IF outcome = "throws" THEN args ELSE args \ {fn}
  /\ exception_msg' = (exception_msg \/ outcome = "error")
  /\ undefined' = (undefined \/ outcome = "undefined")
  /\ unreported' = (unreported \/ outcome \in {"error", "throws"})
  /\ \/ outcome = "error" /\ Fail(TRUE)
     \/ outcome = "throws" /\ GoTo("run")
     \/ outcome \in {"value", "undefined"} /\ GoTo(IF undefined' THEN "undefined" ELSE "return")
  /\ UNCHANGED <<checkVars, db, mode, exthrowed, columns, vm, armed, shutdowns,
                 fn, pending, finished>>

\* send_return asserts that the VM did not return nullptr.
ReturnAsserts ==
  /\ At("return")
  /\ Die("assert")
  /\ UNCHANGED clientVars

\* main does not look at what send_return returns, so MT_CLEANUP goes on with
\* MT_DONE.
SendReturn(reply) ==
  /\ Answered("return")
  /\ pending' = FALSE
  /\ GoTo(IF reply \in {"right", "CLEANUP"} THEN "done" ELSE "run")
  /\ UNCHANGED <<checkVars, db, mode, exthrowed, columns, vm, armed, shutdowns,
                 exception_msg, fn, args, undefined, unreported, finished>>

SendUndefinedCall(reply) ==
  /\ Answered("undefined")
  /\ pending' = FALSE
  /\ GoTo(IF reply = "right" THEN "done" ELSE "run")
  /\ UNCHANGED <<checkVars, db, mode, exthrowed, columns, vm, armed, shutdowns,
                 exception_msg, fn, args, undefined, unreported, finished>>

-----------------------------------------------------------------------------
(* The rest of the world                                                   *)

DbGone(removes, adopted) ==
  /\ Alive
  /\ db = "up"
  /\ db' = "gone"
  /\ DatabaseLeaves(removes, adopted)
  /\ UNCHANGED <<pc, mode, exthrowed, columns, vmVars, callVars, unreported, finished, code>>

\* The main thread notices while it sends or receives.
SocketFileMissing ==
  /\ Alive
  /\ pc \in Exchanges
  /\ MainAborts
  /\ UNCHANGED clientVars

\* The retry loops of socket_send and socket_recv.
Retry ==
  /\ Alive
  /\ pc \in Exchanges
  /\ db = "gone"
  /\ remote \/ file
  /\ UNCHANGED vars

Ended ==
  /\ ~Alive
  /\ UNCHANGED vars

Checker ==
  /\ Alive
  /\ CheckThread
  /\ UNCHANGED clientVars

Exchange ==
  \/ \E r \in Reply :
       \/ SendClient(r) \/ SendRun(r) \/ SendDone(r) \/ SendFinished(r)
       \/ SendClose(r) \/ SendReturn(r) \/ SendUndefinedCall(r)
       \/ \E m \in {"normal", "single"}, supported \in BOOLEAN : SendMeta(r, m, supported)
  \/ \E f \in Functions, given \in BOOLEAN : ReceiveCall(f, given)

Vm ==
  \/ \E o \in {"ok", "error", "null", "throws"} : MakeVm(o)
  \/ \E o \in {"ok", "caught", "false", "throws"} : RunVm(o)
  \/ \E o \in {"value", "undefined", "error", "throws"} : SingleCall(o)
  \/ \E o \in {"ok", "error", "throws"} : Shutdown(o)
  \/ \E throws \in BOOLEAN : HandleError(throws)
  \/ DeleteVm

Stopping == StopAll \/ Cancel \/ Unlink \/ Leave

Next ==
  \/ Exchange \/ ClientTimeout \/ SetLimitFails \/ Retry \/ SocketFileMissing
  \/ Vm \/ CallAsserts \/ ReturnAsserts
  \/ Stopping \/ Checker \/ Ended
  \/ \E removes, adopted \in BOOLEAN : DbGone(removes, adopted)

\* Both threads keep running.  A VM may compute forever and the database may
\* never answer: no fairness for them.
Fairness ==
  /\ WF_vars(Checker)
  /\ WF_vars(Stopping)

Spec == Init /\ [][Next]_vars
FairSpec == Spec /\ Fairness

-----------------------------------------------------------------------------
(* Properties                                                              *)

VmTypeOK ==
  /\ vm \in {"none", "made", "deleted"}
  /\ armed \in BOOLEAN /\ shutdown_vm \in BOOLEAN /\ exception_msg \in BOOLEAN
  /\ shutdowns \in 0..2

CallTypeOK ==
  /\ fn \in Functions
  /\ args \subseteq Specs
  /\ undefined \in BOOLEAN /\ pending \in BOOLEAN

TypeOK ==
  /\ CheckTypeOK
  /\ VmTypeOK
  /\ CallTypeOK
  /\ db \in {"up", "gone"}
  /\ pc \in Exchanges \cup {"make", "group", "call", "shutdown", "delete", "error",
                           "stop", "cancel", "unlink", "leave", "exit"}
  /\ mode \in {"normal", "single"}
  /\ columns \in 0..MaxMeta
  /\ exthrowed \in BOOLEAN /\ unreported \in BOOLEAN /\ finished \in BOOLEAN
  /\ code \in {"none", "ok", "error"}

\* The exit code tells the truth.  0 is returned only after the MT_FINISHED
\* handshake, by a client whose VM was shut down once and deleted and, in
\* normal mode, never failed, although run_ reports a failed run as done and
\* lets MT_DONE be sent.  1 is returned only after the database got MT_CLOSE.
ExitTellsTheTruth ==
  pc = "exit" =>
    /\ code = "ok" => /\ finished
                      /\ vm = "deleted"
                      /\ shutdowns = 1
                      /\ mode = "normal" => ~unreported
    /\ code = "error" => ~unreported
    /\ code # "none"

\* A VM that was ready (main armed its clean-up) is never deleted before its
\* shutdown, whichever of the returns of main is taken, and is shut down
\* again only by handle_error.
ShutDownBeforeDelete ==
  /\ vm = "deleted" /\ armed => shutdowns >= 1
  /\ shutdowns = 2 => code = "error"

\* The check does not fire on the client's own clean-up: the process is only
\* killed by it when the database has left, although stop_all removes the
\* very file the check thread looks for while that thread may still run.
NoSpuriousAbort == aborted = "check" => db = "gone"

\* The VM of a local client starts from one handshake: it works with the columns
\* of exactly one MT_META, for a reply that was refused half way is never
\* followed by another one, and it finds no exception that an earlier attempt
\* left in the exchandler, which its first checkException() would report.
StartsFromOneHandshake == ~remote /\ vm # "none" => columns = 1 /\ ~exthrowed

\* A local client that lost its database ends: when the socket file is gone,
\* or the parent is no longer the one the check thread saw first, the process
\* stops even if the VM or the main thread never comes back.
LostDatabaseEndsClient ==
  (~remote /\ db = "gone" /\ (~file \/ (first_ppid # "unset" /\ first_ppid # ppid)))
    ~> ~Alive

\* "The ppid ... will change if it gets killed" (check.cc): an adopted local
\* client ends.
OrphanEnds == (~remote /\ ppid = "adopter") ~> ~Alive

\* The database goes without MT_RETURN or MT_UNDEFINED_CALL (zmqcontainer.proto)
\* for an accepted MT_CALL only when the VM failed in a call: the next MT_RUN of
\* a VM that never failed finds nothing open.
UnansweredCallsFailed == pc = "run" /\ pending => unreported
=============================================================================
