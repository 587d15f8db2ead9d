-------------------------- MODULE UdfClientProofs --------------------------
(***************************************************************************)
(* Proofs about the v1 client.  For any number of MT_META replies: what    *)
(* its exit code says, how its VM ends, when the check thread kills it,    *)
(* what a VM starts from and which calls stay unanswered.  For any number  *)
(* of threads: two exchanges on the shared socket never mix.  For any      *)
(* messages: the argument of a single call is what the last one carried.   *)
(***************************************************************************)
EXTENDS UdfClient, SharedSocket, Specifications, FiniteSetTheorems, TLAPS

-----------------------------------------------------------------------------
(* The phases of main                                                      *)

Handshaking == {"init", "meta", "make"}
Working == {"run", "group", "call", "done", "return", "undefined", "shutdown"}
Leaving == {"stop", "cancel", "unlink", "leave", "exit"}

\* Up to vmMaker there is no VM, and nothing has happened to one.
BeforeVm ==
  pc \in Handshaking =>
    /\ vm = "none" /\ ~armed /\ shutdowns = 0 /\ code = "none"
    /\ ~exception_msg /\ ~unreported /\ ~pending

\* In its loops the client has a VM that it will shut down.
InTheLoop ==
  pc \in Working => vm = "made" /\ armed /\ shutdowns = 0 /\ code = "none"

\* Behind the loop the VM is shut down and has no message.
BehindTheLoop ==
  pc \in {"finish", "delete"} =>
    /\ vm = "made" /\ armed /\ shutdowns = 1 /\ code = "none" /\ ~exception_msg
    /\ pc = "delete" => finished

\* handle_error finds a VM that was ready alive, and is told to shut it down
\* unless main has done so.
InHandleError ==
  /\ pc \in {"error", "close"} => code = "error"
  /\ pc = "error" => /\ shutdowns <= 1
                     /\ armed => vm = "made" /\ (shutdown_vm \/ shutdowns = 1)

\* The code is decided, and each of the two codes has its reasons.
OnTheWayOut ==
  pc \in Leaving =>
    /\ code # "none"
    /\ code = "error" => ~unreported
    /\ code = "ok" => /\ finished /\ vm = "deleted" /\ shutdowns = 1
                      /\ mode = "normal" => ~unreported

\* Each mode has its own places; in normal mode a VM that failed has left a
\* message, until handle_error is under way.
ModesApart ==
  /\ pc \in {"call", "return", "undefined"} => mode = "single"
  /\ pc = "group" => mode = "normal"
  /\ mode = "normal" => ~pending
  /\ mode = "normal" /\ unreported /\ pc \in Working \cup {"finish", "delete"}
       => exception_msg

ShutDown ==
  /\ shutdowns \in 0..2
  /\ pc \notin {"close"} \cup Leaving => vm # "deleted" /\ shutdowns <= 1

Phases ==
  /\ BeforeVm /\ InTheLoop /\ BehindTheLoop /\ InHandleError /\ OnTheWayOut
  /\ ModesApart /\ ShutDown
  /\ ShutDownBeforeDelete

MainInv == TypeOK /\ Phases

-----------------------------------------------------------------------------
(* The check thread next to main                                           *)

\* A new parent means that the database has left.
ParentsTellTheTruth == ppid = "adopter" \/ first_ppid = "adopter" => db = "gone"

\* A local client whose database is up has its socket file until the very end,
\* and the thread is cancelled before the file goes.
FileTellsTheTruth ==
  ~remote => /\ ~file /\ db = "up" => pc \in {"leave", "exit"}
             /\ pc \in {"unlink", "leave", "exit"} => cancelled

\* A thread that found the file missing is cancelled in its sleep, or is right.
CheckerIsRight ==
  /\ remote => checker = "none"
  /\ checker = "missing" => db = "gone" \/ cancelled
  /\ checker \in {"orphaned", "condemned"} => db = "gone"

CheckInv ==
  ParentsTellTheTruth /\ FileTellsTheTruth /\ CheckerIsRight /\ NoSpuriousAbort

-----------------------------------------------------------------------------
(* Handshake and calls                                                     *)

\* A local client has no second try after a reply that counted.
OneTry ==
  ~remote => /\ pc \in {"init", "meta"} => columns = 0 /\ ~exthrowed
             /\ pc = "make" => columns = 1 /\ ~exthrowed

\* Between the answer to a call and the next MT_RUN nothing is open either.
AnsweredOrFailed == pc \in {"run", "done", "group"} /\ pending => unreported

IndInv ==
  /\ MainInv /\ CheckInv
  /\ OneTry /\ StartsFromOneHandshake
  /\ AnsweredOrFailed

-----------------------------------------------------------------------------
(* Every step keeps the types.                                             *)

\* Types are kept; the number of shutdowns is bounded because a VM is shut
\* down at most once before handle_error.
LEMMA TypeStep == TypeOK /\ ShutDown /\ [Next]_vars => TypeOK'
  <1> SUFFICES ASSUME TypeOK, ShutDown, [Next]_vars PROVE TypeOK'
    OBVIOUS
  <1> USE MaxMetaAssumption
          DEF TypeOK, CheckTypeOK, VmTypeOK, CallTypeOK, Exchanges, ShutDown, Leaving,
              Alive,
              checkVars, vmVars, callVars
  <1>1. ASSUME NEW r \in Reply, SendClient(r) PROVE TypeOK'
    <2>1. exthrowed' \in BOOLEAN
      BY <1>1, Zenon DEF SendClient, InitFails
    <2>2. QED
      BY <1>1, <2>1 DEF SendClient, Answered, At, InitFails
  <1>2. ASSUME NEW r \in Reply, SendRun(r) PROVE TypeOK'
    <2>1. shutdown_vm' \in BOOLEAN
      BY <1>2, Zenon DEF SendRun, GoTo, Throw, Fail
    <2>2. QED
      BY <1>2, <2>1 DEF SendRun, Answered, At, GoTo, Throw, Fail
  <1>3. ASSUME NEW r \in Reply, SendDone(r) PROVE TypeOK'
    <2>1. shutdown_vm' \in BOOLEAN
      BY <1>3, Zenon DEF SendDone, GoTo, Throw, Fail
    <2>2. QED
      BY <1>3, <2>1 DEF SendDone, Answered, At, GoTo, Throw, Fail
  <1>4. ASSUME NEW r \in Reply, SendFinished(r) PROVE TypeOK'
    <2>1. shutdown_vm' \in BOOLEAN
      BY <1>4, Zenon DEF SendFinished, GoTo, Throw, Fail
    <2>2. QED
      BY <1>4, <2>1 DEF SendFinished, Answered, At, GoTo, Throw, Fail
  <1>5. ASSUME NEW r \in Reply, SendClose(r) PROVE TypeOK'
    <2>1. unreported' \in BOOLEAN
      BY <1>5, Zenon DEF SendClose
    <2>2. QED
      BY <1>5, <2>1 DEF SendClose, Answered, At
  <1>6. ASSUME NEW r \in Reply, SendReturn(r) PROVE TypeOK'
    <2>1. pending' \in BOOLEAN
      BY <1>6, Zenon DEF SendReturn, GoTo
    <2>2. QED
      BY <1>6, <2>1 DEF SendReturn, Answered, At, GoTo
  <1>7. ASSUME NEW r \in Reply, SendUndefinedCall(r) PROVE TypeOK'
    <2>1. pending' \in BOOLEAN
      BY <1>7, Zenon DEF SendUndefinedCall, GoTo
    <2>2. QED
      BY <1>7, <2>1 DEF SendUndefinedCall, Answered, At, GoTo
  <1>8. ASSUME NEW r \in Reply, NEW m \in {"normal", "single"}, NEW s \in BOOLEAN,
               SendMeta(r, m, s) PROVE TypeOK'
    <2>1. exthrowed' \in BOOLEAN
      BY <1>8, Zenon DEF SendMeta, InitFails
    <2>2. QED
      BY <1>8, <2>1 DEF SendMeta, Answered, At, InitFails
  <1>9. ASSUME NEW f \in Functions, NEW b \in BOOLEAN, ReceiveCall(f, b)
      PROVE TypeOK'
    <2>1. pending' \in BOOLEAN /\ shutdown_vm' \in BOOLEAN
      BY <1>9, Zenon DEF ReceiveCall, GoTo, Throw, Fail
    <2>2. CallTypeOK'
      BY <1>9, <2>1 DEF ReceiveCall, Answered, At, GoTo, Throw, Fail, Specs
    <2>3. VmTypeOK'
      BY <1>9, <2>1 DEF ReceiveCall, Answered, At, GoTo, Throw, Fail
    <2>4. CheckTypeOK'
      BY <1>9 DEF ReceiveCall
    <2>5. QED
      BY <1>9, <2>2, <2>3, <2>4 DEF ReceiveCall, Answered, At, GoTo, Throw, Fail
  <1>10. CASE ClientTimeout
    BY <1>10 DEF ClientTimeout, At, InitFails
  <1>11. CASE SetLimitFails
    BY <1>11 DEF SetLimitFails, At, Die, clientVars
  <1>12. CASE SocketFileMissing
    BY <1>12 DEF SocketFileMissing, MainAborts, clientVars
  <1>13. ASSUME NEW o \in {"ok", "error", "null", "throws"}, MakeVm(o) PROVE TypeOK'
    <2>1. shutdown_vm' \in BOOLEAN
      BY <1>13, Zenon DEF MakeVm, GoTo, Fail
    <2>2. QED
      BY <1>13, <2>1 DEF MakeVm, At, GoTo, Fail
  <1>14. ASSUME NEW o \in {"ok", "caught", "false", "throws"}, RunVm(o) PROVE TypeOK'
    <2>1. shutdown_vm' \in BOOLEAN
      BY <1>14, Zenon DEF RunVm, GoTo, Throw, Fail
    <2>2. QED
      BY <1>14, <2>1 DEF RunVm, At, GoTo, Throw, Fail
  <1>15. ASSUME NEW o \in {"value", "undefined", "error", "throws"}, SingleCall(o)
      PROVE TypeOK'
    <2>1. shutdown_vm' \in BOOLEAN
      BY <1>15, Zenon DEF SingleCall, GoTo, Fail
    <2>2. QED
      BY <1>15, <2>1 DEF SingleCall, At, GoTo, Fail
  <1>16. ASSUME NEW o \in {"ok", "error", "throws"}, Shutdown(o) PROVE TypeOK'
    <2>1. shutdown_vm' \in BOOLEAN
      BY <1>16, Zenon DEF Shutdown, GoTo, Throw, Fail
    <2>2. QED
      BY <1>16, <2>1 DEF Shutdown, At, GoTo, Throw, Fail
  <1>17. ASSUME NEW throws \in BOOLEAN, HandleError(throws) PROVE TypeOK'
    BY <1>17 DEF HandleError, At
  <1>18. CASE DeleteVm
    BY <1>18 DEF DeleteVm, At
  <1>19. CASE CallAsserts
    BY <1>19 DEF CallAsserts, At, Die, clientVars
  <1>20. CASE ReturnAsserts
    BY <1>20 DEF ReturnAsserts, At, Die, clientVars
  <1>21. CASE StopAll
    <2>1. keep_checking' \in BOOLEAN
      BY <1>21, Zenon DEF StopAll, StopCheckThread
    <2>2. QED
      BY <1>21, <2>1 DEF StopAll, StopCheckThread, At
  <1>22. CASE Cancel
    <2>1. cancelled' \in BOOLEAN
      BY <1>22, Zenon DEF Cancel, CancelCheckThread
    <2>2. QED
      BY <1>22, <2>1 DEF Cancel, CancelCheckThread, At
  <1>23. CASE Unlink
    <2>1. file' \in BOOLEAN
      BY <1>23, Zenon DEF Unlink, UnlinkSocketFile
    <2>2. QED
      BY <1>23, <2>1 DEF Unlink, UnlinkSocketFile, At
  <1>24. CASE Leave
    BY <1>24 DEF Leave, At
  <1>25. CASE Checker
    BY <1>25 DEF Checker, CheckThread, TestKeepChecking, TestSocketFile, TestParent,
        Nap, SleepReturns,
                 CheckerAborts, ActOnCancel, clientVars
  <1>26. ASSUME NEW removes \in BOOLEAN, NEW adopted \in BOOLEAN, DbGone(removes,
      adopted) PROVE TypeOK'
    BY <1>26 DEF DbGone, DatabaseLeaves
  <1>27. CASE UNCHANGED vars
    BY <1>27 DEF vars, clientVars
  <1> QED
    BY <1>1, <1>2, <1>3, <1>4, <1>5, <1>6, <1>7, <1>8, <1>9, <1>10, <1>11,
       <1>12, <1>13, <1>14, <1>15, <1>16, <1>17, <1>18, <1>19, <1>20,
       <1>21, <1>22, <1>23, <1>24, <1>25, <1>26, <1>27
    DEF Next, Exchange, Vm, Stopping, Retry, Ended

\* Every step of main keeps the phases.
LEMMA PhaseStep == MainInv /\ [Next]_vars => Phases'
  <1> SUFFICES ASSUME TypeOK, Phases, [Next]_vars PROVE Phases'
    BY DEF MainInv
  <1> USE MaxMetaAssumption
          DEF Phases, TypeOK, CheckTypeOK, VmTypeOK, CallTypeOK, Exchanges,
              Handshaking, Working, Leaving,
              BeforeVm, InTheLoop, BehindTheLoop, InHandleError, OnTheWayOut,
              ModesApart, ShutDown, ShutDownBeforeDelete, Alive, checkVars, vmVars,
              callVars
  <1>1. ASSUME NEW r \in Reply, SendClient(r) PROVE Phases'
    BY <1>1 DEF SendClient, Answered, At, InitFails
  <1>2. ASSUME NEW r \in Reply, SendRun(r) PROVE Phases'
    <2>1. pc' = "error" => shutdown_vm' = armed
      BY <1>2, Zenon DEF SendRun, Answered, At, GoTo, Throw, Fail
    <2>2. armed
      BY <1>2 DEF SendRun, At, Answered
    <2>3. pc' = "error" => shutdown_vm'
      BY <2>1, <2>2
    <2>4. InHandleError'
      BY <1>2, <2>3 DEF SendRun, Answered, At, GoTo, Throw, Fail
    <2>5. BeforeVm' /\ InTheLoop' /\ BehindTheLoop' /\ OnTheWayOut'
      BY <1>2 DEF SendRun, Answered, At, GoTo, Throw, Fail
    <2>6. ModesApart' /\ ShutDown' /\ ShutDownBeforeDelete'
      BY <1>2 DEF SendRun, Answered, At, GoTo, Throw, Fail
    <2>7. QED
      BY <2>4, <2>5, <2>6
  <1>3. ASSUME NEW r \in Reply, SendDone(r) PROVE Phases'
    BY <1>3 DEF SendDone, Answered, At, GoTo, Throw, Fail
  <1>4. ASSUME NEW r \in Reply, SendFinished(r) PROVE Phases'
    BY <1>4 DEF SendFinished, Answered, At, GoTo, Throw, Fail
  <1>5. ASSUME NEW r \in Reply, SendClose(r) PROVE Phases'
    BY <1>5 DEF SendClose, Answered, At
  <1>6. ASSUME NEW r \in Reply, SendReturn(r) PROVE Phases'
    BY <1>6 DEF SendReturn, Answered, At, GoTo
  <1>7. ASSUME NEW r \in Reply, SendUndefinedCall(r) PROVE Phases'
    BY <1>7 DEF SendUndefinedCall, Answered, At, GoTo
  <1>8. ASSUME NEW r \in Reply, NEW m \in {"normal", "single"}, NEW s \in BOOLEAN,
               SendMeta(r, m, s) PROVE Phases'
    BY <1>8 DEF SendMeta, Answered, At, InitFails
  <1>9. ASSUME NEW f \in Functions, NEW b \in BOOLEAN, ReceiveCall(f, b)
      PROVE Phases'
    BY <1>9 DEF ReceiveCall, Answered, At, GoTo, Throw, Fail, Specs
  <1>10. CASE ClientTimeout
    BY <1>10 DEF ClientTimeout, At, InitFails
  <1>11. CASE SetLimitFails
    BY <1>11 DEF SetLimitFails, At, Die, clientVars
  <1>12. CASE SocketFileMissing
    BY <1>12 DEF SocketFileMissing, MainAborts, clientVars
  <1>13. ASSUME NEW o \in {"ok", "error", "null", "throws"}, MakeVm(o) PROVE Phases'
    BY <1>13 DEF MakeVm, At, GoTo, Fail
  <1>14. ASSUME NEW o \in {"ok", "caught", "false", "throws"}, RunVm(o) PROVE Phases'
    <2>1. pc' = "error" => shutdown_vm' = armed \/ shutdown_vm'
      BY <1>14, Zenon DEF RunVm, At, GoTo, Throw, Fail
    <2>2. armed
      BY <1>14 DEF RunVm, At
    <2>3. pc' = "error" => shutdown_vm'
      BY <2>1, <2>2
    <2>4. InHandleError'
      BY <1>14, <2>3 DEF RunVm, At, GoTo, Throw, Fail
    <2>5. BeforeVm' /\ InTheLoop' /\ BehindTheLoop' /\ OnTheWayOut'
      BY <1>14 DEF RunVm, At, GoTo, Throw, Fail
    <2>6. ModesApart' /\ ShutDown' /\ ShutDownBeforeDelete'
      BY <1>14 DEF RunVm, At, GoTo, Throw, Fail
    <2>7. QED
      BY <2>4, <2>5, <2>6
  <1>15. ASSUME NEW o \in {"value", "undefined", "error", "throws"}, SingleCall(o)
      PROVE Phases'
    BY <1>15 DEF SingleCall, At, GoTo, Fail
  <1>16. ASSUME NEW o \in {"ok", "error", "throws"}, Shutdown(o) PROVE Phases'
    <2>1. /\ pc = "shutdown" /\ shutdowns' = shutdowns + 1
          /\ UNCHANGED <<mode, vm, armed, pending, finished>>
      BY <1>16 DEF Shutdown, At
    <2>2. (pc' = "error" /\ code' = "error") \/ (pc' = "finish" /\ code' = code)
      BY <1>16 DEF Shutdown, GoTo, Throw, Fail
    <2>3. pc' = "finish" => ~exception_msg'
      BY <1>16, Zenon DEF Shutdown, At, GoTo, Throw, Fail
    <2>4. pc' = "finish" => o # "throws"
      BY <1>16 DEF Shutdown, At, GoTo, Throw, Fail
    <2>5. exception_msg' = (exception_msg \/ o = "error")
      BY <1>16 DEF Shutdown
    <2>6. unreported' = (unreported \/ o # "ok")
      BY <1>16 DEF Shutdown
    <2>7. pc' = "finish" /\ mode' = "normal" => ~unreported'
      BY <2>1, <2>3, <2>4, <2>5, <2>6 DEF TypeOK, VmTypeOK, Phases, ModesApart, Working
    <2>8. InHandleError' /\ BeforeVm' /\ InTheLoop' /\ BehindTheLoop' /\ OnTheWayOut'
      BY <2>1, <2>2, <2>3, <2>7 DEF Phases, InTheLoop, Working, BeforeVm,
          BehindTheLoop, OnTheWayOut, InHandleError, Handshaking, Leaving
    <2>9. ModesApart' /\ ShutDown' /\ ShutDownBeforeDelete'
      BY <2>1, <2>2, <2>3, <2>7 DEF Phases, InTheLoop, Working, ModesApart, ShutDown,
          ShutDownBeforeDelete, Leaving
    <2>10. QED
      BY <2>8, <2>9 DEF Phases
  <1>17. ASSUME NEW throws \in BOOLEAN, HandleError(throws) PROVE Phases'
    BY <1>17 DEF HandleError, At
  <1>18. CASE DeleteVm
    BY <1>18 DEF DeleteVm, At
  <1>19. CASE CallAsserts
    BY <1>19 DEF CallAsserts, At, Die, clientVars
  <1>20. CASE ReturnAsserts
    BY <1>20 DEF ReturnAsserts, At, Die, clientVars
  <1>21. CASE StopAll
    BY <1>21 DEF StopAll, StopCheckThread, At
  <1>22. CASE Cancel
    BY <1>22 DEF Cancel, CancelCheckThread, At
  <1>23. CASE Unlink
    BY <1>23 DEF Unlink, UnlinkSocketFile, At
  <1>24. CASE Leave
    BY <1>24 DEF Leave, At
  <1>25. CASE Checker
    BY <1>25 DEF Checker, CheckThread, TestKeepChecking, TestSocketFile, TestParent,
        Nap, SleepReturns,
                 CheckerAborts, ActOnCancel, clientVars
  <1>26. ASSUME NEW removes \in BOOLEAN, NEW adopted \in BOOLEAN, DbGone(removes,
      adopted) PROVE Phases'
    BY <1>26 DEF DbGone, DatabaseLeaves
  <1>27. CASE UNCHANGED vars
    BY <1>27 DEF vars, clientVars
  <1> QED
    BY <1>1, <1>2, <1>3, <1>4, <1>5, <1>6, <1>7, <1>8, <1>9, <1>10, <1>11,
       <1>12, <1>13, <1>14, <1>15, <1>16, <1>17, <1>18, <1>19, <1>20,
       <1>21, <1>22, <1>23, <1>24, <1>25, <1>26, <1>27
    DEF Next, Exchange, Vm, Stopping, Retry, Ended

\* Neither thread, nor the database on its way out, makes the check wrong.
LEMMA CheckStep == TypeOK /\ CheckInv /\ [Next]_vars => CheckInv'
  <1> SUFFICES ASSUME TypeOK, CheckInv, [Next]_vars PROVE CheckInv'
    OBVIOUS
  <1> USE DEF TypeOK, CheckTypeOK, CheckInv, ParentsTellTheTruth, FileTellsTheTruth,
      CheckerIsRight,
              NoSpuriousAbort, Alive, Exchanges, checkVars, vmVars, callVars
  <1>1. ASSUME NEW r \in Reply, SendClient(r) PROVE CheckInv'
    BY <1>1 DEF SendClient, Answered, At, InitFails
  <1>2. ASSUME NEW r \in Reply, SendRun(r) PROVE CheckInv'
    BY <1>2 DEF SendRun, Answered, At, GoTo, Throw, Fail
  <1>3. ASSUME NEW r \in Reply, SendDone(r) PROVE CheckInv'
    BY <1>3 DEF SendDone, Answered, At, GoTo, Throw, Fail
  <1>4. ASSUME NEW r \in Reply, SendFinished(r) PROVE CheckInv'
    BY <1>4 DEF SendFinished, Answered, At, GoTo, Throw, Fail
  <1>5. ASSUME NEW r \in Reply, SendClose(r) PROVE CheckInv'
    BY <1>5 DEF SendClose, Answered, At
  <1>6. ASSUME NEW r \in Reply, SendReturn(r) PROVE CheckInv'
    BY <1>6 DEF SendReturn, Answered, At, GoTo
  <1>7. ASSUME NEW r \in Reply, SendUndefinedCall(r) PROVE CheckInv'
    BY <1>7 DEF SendUndefinedCall, Answered, At, GoTo
  <1>8. ASSUME NEW r \in Reply, NEW m \in {"normal", "single"}, NEW s \in BOOLEAN,
               SendMeta(r, m, s) PROVE CheckInv'
    BY <1>8 DEF SendMeta, Answered, At, InitFails
  <1>9. ASSUME NEW f \in Functions, NEW b \in BOOLEAN, ReceiveCall(f, b)
      PROVE CheckInv'
    BY <1>9 DEF ReceiveCall, Answered, At, GoTo, Throw, Fail, Specs
  <1>10. CASE ClientTimeout
    BY <1>10 DEF ClientTimeout, At, InitFails
  <1>11. CASE SetLimitFails
    BY <1>11 DEF SetLimitFails, At, Die, clientVars
  <1>12. CASE SocketFileMissing
    BY <1>12 DEF SocketFileMissing, MainAborts, clientVars
  <1>13. ASSUME NEW o \in {"ok", "error", "null", "throws"}, MakeVm(o) PROVE CheckInv'
    BY <1>13 DEF MakeVm, At, GoTo, Fail
  <1>14. ASSUME NEW o \in {"ok", "caught", "false", "throws"}, RunVm(o) PROVE CheckInv'
    BY <1>14 DEF RunVm, At, GoTo, Throw, Fail
  <1>15. ASSUME NEW o \in {"value", "undefined", "error", "throws"}, SingleCall(o)
      PROVE CheckInv'
    BY <1>15 DEF SingleCall, At, GoTo, Fail
  <1>16. ASSUME NEW o \in {"ok", "error", "throws"}, Shutdown(o) PROVE CheckInv'
    BY <1>16 DEF Shutdown, At, GoTo, Throw, Fail
  <1>17. ASSUME NEW throws \in BOOLEAN, HandleError(throws) PROVE CheckInv'
    BY <1>17 DEF HandleError, At
  <1>18. CASE DeleteVm
    BY <1>18 DEF DeleteVm, At
  <1>19. CASE CallAsserts
    BY <1>19 DEF CallAsserts, At, Die, clientVars
  <1>20. CASE ReturnAsserts
    BY <1>20 DEF ReturnAsserts, At, Die, clientVars
  <1>21. CASE StopAll
    BY <1>21 DEF StopAll, StopCheckThread, At
  <1>22. CASE Cancel
    BY <1>22 DEF Cancel, CancelCheckThread, At
  <1>23. CASE Unlink
    BY <1>23 DEF Unlink, UnlinkSocketFile, At
  <1>24. CASE Leave
    BY <1>24 DEF Leave, At
  <1>25. CASE Checker
    BY <1>25 DEF Checker, CheckThread, TestKeepChecking, TestSocketFile, TestParent,
        Nap, SleepReturns,
                 CheckerAborts, ActOnCancel, clientVars
  <1>26. ASSUME NEW removes \in BOOLEAN, NEW adopted \in BOOLEAN, DbGone(removes,
      adopted) PROVE CheckInv'
    BY <1>26 DEF DbGone, DatabaseLeaves
  <1>27. CASE UNCHANGED vars
    BY <1>27 DEF vars, clientVars
  <1> QED
    BY <1>1, <1>2, <1>3, <1>4, <1>5, <1>6, <1>7, <1>8, <1>9, <1>10, <1>11,
       <1>12, <1>13, <1>14, <1>15, <1>16, <1>17, <1>18, <1>19, <1>20,
       <1>21, <1>22, <1>23, <1>24, <1>25, <1>26, <1>27
    DEF Next, Exchange, Vm, Stopping, Retry, Ended

\* A local client never gets a second MT_META.
LEMMA HandshakeStep ==
  TypeOK /\ Phases /\ OneTry /\ StartsFromOneHandshake /\ [Next]_vars
    => OneTry' /\ StartsFromOneHandshake'
  <1> DEFINE Once == OneTry /\ StartsFromOneHandshake
  <1> SUFFICES ASSUME TypeOK, Phases, Once, [Next]_vars PROVE Once'
    OBVIOUS
  <1> USE DEF TypeOK, CheckTypeOK, VmTypeOK, Phases, BeforeVm, Handshaking,
      BehindTheLoop, OneTry, StartsFromOneHandshake,
              Alive, checkVars, vmVars, callVars
  <1>1. ASSUME NEW r \in Reply, SendClient(r) PROVE Once'
    BY <1>1 DEF SendClient, Answered, At, InitFails
  <1>2. ASSUME NEW r \in Reply, SendRun(r) PROVE Once'
    BY <1>2 DEF SendRun, Answered, At, GoTo, Throw, Fail
  <1>3. ASSUME NEW r \in Reply, SendDone(r) PROVE Once'
    BY <1>3 DEF SendDone, Answered, At, GoTo, Throw, Fail
  <1>4. ASSUME NEW r \in Reply, SendFinished(r) PROVE Once'
    BY <1>4 DEF SendFinished, Answered, At, GoTo, Throw, Fail
  <1>5. ASSUME NEW r \in Reply, SendClose(r) PROVE Once'
    BY <1>5 DEF SendClose, Answered, At
  <1>6. ASSUME NEW r \in Reply, SendReturn(r) PROVE Once'
    BY <1>6 DEF SendReturn, Answered, At, GoTo
  <1>7. ASSUME NEW r \in Reply, SendUndefinedCall(r) PROVE Once'
    BY <1>7 DEF SendUndefinedCall, Answered, At, GoTo
  <1>8. ASSUME NEW r \in Reply, NEW m \in {"normal", "single"}, NEW s \in BOOLEAN,
               SendMeta(r, m, s) PROVE Once'
    <2>1. UNCHANGED <<remote, vm>> /\ pc = "meta" /\ columns' \in {columns, columns + 1}
      BY <1>8 DEF SendMeta, Answered, At
    <2>2. ~remote /\ InitFails(TRUE) => pc' = "close"
      BY Zenon DEF InitFails
    <2>3. \/ ~remote => pc' = "close"
          \/ r = "right" /\ pc' = "make" /\ exthrowed' = exthrowed
      <3>1. InitFails(TRUE) \/ (r = "right" /\ pc' = "make" /\ exthrowed' = exthrowed)
        BY <1>8 DEF SendMeta
      <3>2. QED
        BY <2>2, <3>1, Zenon
    <2>4. r = "right" => columns' = columns + 1
      BY <1>8 DEF SendMeta
    <2>5. OneTry'
      BY <2>1, <2>2, <2>3, <2>4
    <2>6. StartsFromOneHandshake'
      BY <2>1
    <2>7. QED
      BY <2>5, <2>6
  <1>9. ASSUME NEW f \in Functions, NEW b \in BOOLEAN, ReceiveCall(f, b)
      PROVE Once'
    BY <1>9 DEF ReceiveCall, Answered, At, GoTo, Throw, Fail, Specs
  <1>10. CASE ClientTimeout
    BY <1>10 DEF ClientTimeout, At, InitFails
  <1>11. CASE SetLimitFails
    BY <1>11 DEF SetLimitFails, At, Die, clientVars
  <1>12. CASE SocketFileMissing
    BY <1>12 DEF SocketFileMissing, MainAborts, clientVars
  <1>13. ASSUME NEW o \in {"ok", "error", "null", "throws"}, MakeVm(o) PROVE Once'
    BY <1>13 DEF MakeVm, At, GoTo, Fail
  <1>14. ASSUME NEW o \in {"ok", "caught", "false", "throws"}, RunVm(o) PROVE Once'
    BY <1>14 DEF RunVm, At, GoTo, Throw, Fail
  <1>15. ASSUME NEW o \in {"value", "undefined", "error", "throws"}, SingleCall(o)
      PROVE Once'
    BY <1>15 DEF SingleCall, At, GoTo, Fail
  <1>16. ASSUME NEW o \in {"ok", "error", "throws"}, Shutdown(o) PROVE Once'
    BY <1>16 DEF Shutdown, At, GoTo, Throw, Fail
  <1>17. ASSUME NEW throws \in BOOLEAN, HandleError(throws) PROVE Once'
    BY <1>17 DEF HandleError, At
  <1>18. CASE DeleteVm
    BY <1>18 DEF DeleteVm, At
  <1>19. CASE CallAsserts
    BY <1>19 DEF CallAsserts, At, Die, clientVars
  <1>20. CASE ReturnAsserts
    BY <1>20 DEF ReturnAsserts, At, Die, clientVars
  <1>21. CASE StopAll
    BY <1>21 DEF StopAll, StopCheckThread, At
  <1>22. CASE Cancel
    BY <1>22 DEF Cancel, CancelCheckThread, At
  <1>23. CASE Unlink
    BY <1>23 DEF Unlink, UnlinkSocketFile, At
  <1>24. CASE Leave
    BY <1>24 DEF Leave, At
  <1>25. CASE Checker
    BY <1>25 DEF Checker, CheckThread, TestKeepChecking, TestSocketFile, TestParent,
        Nap, SleepReturns,
                 CheckerAborts, ActOnCancel, clientVars
  <1>26. ASSUME NEW removes \in BOOLEAN, NEW adopted \in BOOLEAN, DbGone(removes,
      adopted) PROVE Once'
    BY <1>26 DEF DbGone, DatabaseLeaves
  <1>27. CASE UNCHANGED vars
    BY <1>27 DEF vars, clientVars
  <1> QED
    BY <1>1, <1>2, <1>3, <1>4, <1>5, <1>6, <1>7, <1>8, <1>9, <1>10, <1>11,
       <1>12, <1>13, <1>14, <1>15, <1>16, <1>17, <1>18, <1>19, <1>20,
       <1>21, <1>22, <1>23, <1>24, <1>25, <1>26, <1>27
    DEF Next, Exchange, Vm, Stopping, Retry, Ended

\* A call is answered, or the VM failed.
LEMMA CallStep ==
  TypeOK /\ Phases /\ AnsweredOrFailed /\ [Next]_vars => AnsweredOrFailed'
  <1> SUFFICES ASSUME TypeOK, Phases, AnsweredOrFailed, [Next]_vars
      PROVE AnsweredOrFailed'
    OBVIOUS
  <1> USE DEF TypeOK, CheckTypeOK, VmTypeOK, CallTypeOK, Phases, BeforeVm, ModesApart,
      Handshaking, AnsweredOrFailed,
              Alive, checkVars, vmVars, callVars
  <1>1. ASSUME NEW r \in Reply, SendClient(r) PROVE AnsweredOrFailed'
    BY <1>1 DEF SendClient, Answered, At, InitFails
  <1>2. ASSUME NEW r \in Reply, SendRun(r) PROVE AnsweredOrFailed'
    BY <1>2 DEF SendRun, Answered, At, GoTo, Throw, Fail
  <1>3. ASSUME NEW r \in Reply, SendDone(r) PROVE AnsweredOrFailed'
    BY <1>3 DEF SendDone, Answered, At, GoTo, Throw, Fail
  <1>4. ASSUME NEW r \in Reply, SendFinished(r) PROVE AnsweredOrFailed'
    BY <1>4 DEF SendFinished, Answered, At, GoTo, Throw, Fail
  <1>5. ASSUME NEW r \in Reply, SendClose(r) PROVE AnsweredOrFailed'
    BY <1>5 DEF SendClose, Answered, At
  <1>6. ASSUME NEW r \in Reply, SendReturn(r) PROVE AnsweredOrFailed'
    BY <1>6 DEF SendReturn, Answered, At, GoTo
  <1>7. ASSUME NEW r \in Reply, SendUndefinedCall(r) PROVE AnsweredOrFailed'
    BY <1>7 DEF SendUndefinedCall, Answered, At, GoTo
  <1>8. ASSUME NEW r \in Reply, NEW m \in {"normal", "single"}, NEW s \in BOOLEAN,
               SendMeta(r, m, s) PROVE AnsweredOrFailed'
    BY <1>8 DEF SendMeta, Answered, At, InitFails
  <1>9. ASSUME NEW f \in Functions, NEW b \in BOOLEAN, ReceiveCall(f, b)
      PROVE AnsweredOrFailed'
    BY <1>9 DEF ReceiveCall, Answered, At, GoTo, Throw, Fail, Specs
  <1>10. CASE ClientTimeout
    BY <1>10 DEF ClientTimeout, At, InitFails
  <1>11. CASE SetLimitFails
    BY <1>11 DEF SetLimitFails, At, Die, clientVars
  <1>12. CASE SocketFileMissing
    BY <1>12 DEF SocketFileMissing, MainAborts, clientVars
  <1>13. ASSUME NEW o \in {"ok", "error", "null", "throws"}, MakeVm(o)
      PROVE AnsweredOrFailed'
    BY <1>13 DEF MakeVm, At, GoTo, Fail
  <1>14. ASSUME NEW o \in {"ok", "caught", "false", "throws"}, RunVm(o)
      PROVE AnsweredOrFailed'
    BY <1>14 DEF RunVm, At, GoTo, Throw, Fail
  <1>15. ASSUME NEW o \in {"value", "undefined", "error", "throws"}, SingleCall(o)
      PROVE AnsweredOrFailed'
    BY <1>15 DEF SingleCall, At, GoTo, Fail
  <1>16. ASSUME NEW o \in {"ok", "error", "throws"}, Shutdown(o) PROVE AnsweredOrFailed'
    BY <1>16 DEF Shutdown, At, GoTo, Throw, Fail
  <1>17. ASSUME NEW throws \in BOOLEAN, HandleError(throws) PROVE AnsweredOrFailed'
    BY <1>17 DEF HandleError, At
  <1>18. CASE DeleteVm
    BY <1>18 DEF DeleteVm, At
  <1>19. CASE CallAsserts
    BY <1>19 DEF CallAsserts, At, Die, clientVars
  <1>20. CASE ReturnAsserts
    BY <1>20 DEF ReturnAsserts, At, Die, clientVars
  <1>21. CASE StopAll
    BY <1>21 DEF StopAll, StopCheckThread, At
  <1>22. CASE Cancel
    BY <1>22 DEF Cancel, CancelCheckThread, At
  <1>23. CASE Unlink
    BY <1>23 DEF Unlink, UnlinkSocketFile, At
  <1>24. CASE Leave
    BY <1>24 DEF Leave, At
  <1>25. CASE Checker
    BY <1>25 DEF Checker, CheckThread, TestKeepChecking, TestSocketFile, TestParent,
        Nap, SleepReturns,
                 CheckerAborts, ActOnCancel, clientVars
  <1>26. ASSUME NEW removes \in BOOLEAN, NEW adopted \in BOOLEAN, DbGone(removes,
      adopted) PROVE AnsweredOrFailed'
    BY <1>26 DEF DbGone, DatabaseLeaves
  <1>27. CASE UNCHANGED vars
    BY <1>27 DEF vars, clientVars
  <1> QED
    BY <1>1, <1>2, <1>3, <1>4, <1>5, <1>6, <1>7, <1>8, <1>9, <1>10, <1>11,
       <1>12, <1>13, <1>14, <1>15, <1>16, <1>17, <1>18, <1>19, <1>20,
       <1>21, <1>22, <1>23, <1>24, <1>25, <1>26, <1>27
    DEF Next, Exchange, Vm, Stopping, Retry, Ended

-----------------------------------------------------------------------------
(* The theorems                                                            *)

\* A process that has just started its check thread.
LEMMA InitIsGood == Init => IndInv
  <1> SUFFICES ASSUME Init PROVE IndInv
    OBVIOUS
  <1> USE MaxMetaAssumption DEF Init, CheckInit
  <1>1. /\ exthrowed \in BOOLEAN /\ armed \in BOOLEAN /\ shutdown_vm \in BOOLEAN
        /\ exception_msg \in BOOLEAN /\ undefined \in BOOLEAN /\ pending \in BOOLEAN
        /\ unreported \in BOOLEAN /\ finished \in BOOLEAN /\ keep_checking \in BOOLEAN
        /\ cancelled \in BOOLEAN
    BY Zenon
  <1>2. TypeOK
    BY <1>1 DEF TypeOK, CheckTypeOK, VmTypeOK, CallTypeOK, Exchanges, Functions
  <1>3. Phases
    BY DEF Phases, Handshaking, Working, Leaving, BeforeVm, InTheLoop, BehindTheLoop,
           InHandleError, OnTheWayOut, ModesApart, ShutDown, ShutDownBeforeDelete
  <1>4. CheckInv
    BY DEF CheckInv, ParentsTellTheTruth, FileTellsTheTruth, CheckerIsRight,
        NoSpuriousAbort
  <1>5. OneTry /\ StartsFromOneHandshake /\ AnsweredOrFailed
    BY DEF OneTry, StartsFromOneHandshake, AnsweredOrFailed
  <1> QED
    BY <1>2, <1>3, <1>4, <1>5 DEF IndInv, MainInv

\* The whole invariant of the client holds in every reachable state.
LEMMA ClientInvariant == Spec => []IndInv
  <1>1. IndInv /\ [Next]_vars => IndInv'
    <2>1. TypeOK /\ Phases => ShutDown
      BY DEF Phases
    <2> QED
      BY <2>1, TypeStep, PhaseStep, CheckStep, HandshakeStep, CallStep DEF IndInv,
          MainInv
  <1> QED
    BY InitIsGood, <1>1, PTL DEF Spec

\* The types of the client, with at most two calls of vm->shutdown().
THEOREM TypeCorrect == Spec => []TypeOK
  <1>1. IndInv => TypeOK
    BY DEF IndInv, MainInv
  <1> QED
    BY ClientInvariant, <1>1, PTL

\* main returns 0 and 1 only for the reasons the database may rely on: every
\* path from a failing exchange or a failing VM to the return is covered.
THEOREM ExitIsTruthful == Spec => []ExitTellsTheTruth
  <1>1. IndInv => ExitTellsTheTruth
    BY DEF IndInv, MainInv, Phases, OnTheWayOut, Leaving, ExitTellsTheTruth
  <1> QED
    BY ClientInvariant, <1>1, PTL

\* handle_error and the regular end of main shut a ready VM down before they
\* delete it.
THEOREM NoDeleteWithoutShutdown == Spec => []ShutDownBeforeDelete
  <1>1. IndInv => ShutDownBeforeDelete
    BY DEF IndInv, MainInv, Phases
  <1> QED
    BY ClientInvariant, <1>1, PTL

\* stop_all cancels the check thread before it removes the socket file, so the
\* thread never takes the clean-up for a lost database.
THEOREM CheckIsRight == Spec => []NoSpuriousAbort
  <1>1. IndInv => NoSpuriousAbort
    BY DEF IndInv, CheckInv
  <1> QED
    BY ClientInvariant, <1>1, PTL

\* The retries of send_init leave nothing behind for the VM of a local client.
THEOREM OneHandshake == Spec => []StartsFromOneHandshake
  <1>1. IndInv => StartsFromOneHandshake
    BY DEF IndInv
  <1> QED
    BY ClientInvariant, <1>1, PTL

\* The loop of single-call mode goes back to MT_RUN with an open MT_CALL only
\* when the VM failed.
THEOREM CallsAreAnswered == Spec => []UnansweredCallsFailed
  <1>1. IndInv => UnansweredCallsFailed
    BY DEF IndInv, AnsweredOrFailed, UnansweredCallsFailed
  <1> QED
    BY ClientInvariant, <1>1, PTL

-----------------------------------------------------------------------------
(* The socket that the threads of a VM share                               *)

\* Initially nobody is in the socket, waits, or has an answer.
LEMMA SocketInitInv == SocketInit => SocketInv
  BY SocketAssumption
  DEF SocketInit, SocketInv, SocketTypeOK, MutexGuardsSocket, AskerWaits, AnswersReachTheirAsker,
      RequestsIntact, InSocket, Waiting

\* One attempt of one thread, or the answer of the database, keeps the
\* invariant.
LEMMA SocketStepInv == SocketInv /\ [SocketNext]_socketVars => SocketInv'
  <1> USE SocketAssumption DEF SocketInv, SocketTypeOK, MutexGuardsSocket, AskerWaits,
          AnswersReachTheirAsker, RequestsIntact, InSocket, Waiting, Goto
  <1> SUFFICES ASSUME SocketInv, [SocketNext]_socketVars PROVE SocketInv'
    OBVIOUS
  <1>1. CASE DatabaseAnswers
    BY <1>1 DEF DatabaseAnswers
  <1>2. CASE Rest
    BY <1>2 DEF Rest, socketVars
  <1>3. ASSUME NEW t \in Threads, Begin(t) PROVE SocketInv'
    BY <1>3 DEF Begin
  <1>4. ASSUME NEW t \in Threads, LockToSend(t) PROVE SocketInv'
    BY <1>4, LocksAssumption DEF LockToSend, Lock
  <1>5. ASSUME NEW t \in Threads, Send(t) PROVE SocketInv'
    BY <1>5, LocksAssumption DEF Send, Unlock
  <1>6. ASSUME NEW t \in Threads, SendFails(t) PROVE SocketInv'
    BY <1>6, LocksAssumption DEF SendFails, Unlock
  <1>7. ASSUME NEW t \in Threads, LockToRecv(t) PROVE SocketInv'
    BY <1>7, LocksAssumption DEF LockToRecv, Lock
  <1>8. ASSUME NEW t \in Threads, Recv(t) PROVE SocketInv'
    BY <1>8, LocksAssumption DEF Recv, Unlock
  <1>9. ASSUME NEW t \in Threads, RecvFails(t) PROVE SocketInv'
    BY <1>9, LocksAssumption DEF RecvFails, Unlock
  <1>10. CASE UNCHANGED socketVars
    BY <1>10 DEF socketVars
  <1>11. QED
    BY <1>1, <1>2, <1>3, <1>4, <1>5, <1>6, <1>7, <1>8, <1>9, <1>10 DEF SocketNext, Step

\* The invariant holds in every state of every behaviour.
LEMMA SocketInvariance == SocketSpec => []SocketInv
  BY SocketInitInv, SocketStepInv, PTL DEF SocketSpec

\* The mutex of socket_low_level.cc, or having one thread only, keeps every
\* two threads from being inside the socket at once.
THEOREM SocketIsNotShared == SocketSpec => []OneThreadInSocket
  <1>1. SocketInv => OneThreadInSocket
    BY LocksAssumption DEF SocketInv, MutexGuardsSocket, OneThreadInSocket
  <1>2. QED
    BY SocketInvariance, <1>1, PTL

\* Every answer that socket_recv returns is the answer to the request that
\* the same thread has sent, for any number of threads and requests.
THEOREM AnswersAreOwn == SocketSpec => []AnswersReachTheirAsker
  <1>1. SocketInv => AnswersReachTheirAsker
    BY DEF SocketInv
  <1>2. QED
    BY SocketInvariance, <1>1, PTL

\* The buffers that ZeroMQ reads without a copy are left alone until the
\* answer is there, for any number of threads and requests.
THEOREM BuffersAreLeftAlone == SocketSpec => []RequestsIntact
  <1>1. SocketInv => RequestsIntact
    BY DEF SocketInv
  <1>2. QED
    BY SocketInvariance, <1>1, PTL

-----------------------------------------------------------------------------
(* The argument of a single call                                           *)

\* The first n members of a sequence.
Taken(s, n) == [i \in 1..n |-> s[i]]

\* Field f of argument a holds the first n values of message m for it.
Holds(a, m, f, n) ==
  LET values == Values(m, f)
  IN /\ n = 0 => /\ f = "information" => a.kind = Unset
                 /\ f = "name" => a.name = Unset
                 /\ f = "created_by" => a.created_by = Unset
     /\ n # 0 => /\ f = "information" => a.kind = values[1]
                 /\ f = "name" => a.name = values[1]
                 /\ f = "created_by" => a.created_by = values[1]
                 /\ f = "truncate" => a.truncate = values[1]
                 /\ f = "replace" => a.replace = values[1]
     /\ f = "column" => a.columns = Taken(values, n)
     /\ f = "parameter" => a.parameters = Taken(values, n)

\* How many values of the i-th field are passed on.
Passed(i) ==
  IF i < field THEN Len(Values(message, Order[i])) ELSE IF i = field THEN given ELSE 0

\* The argument is one of the last message, which is not the missing one.
OfMessage ==
  /\ message \in Messages
  /\ function = "import" => arg.subselect = message.subselect

\* While send_run fills the argument, it holds the fields before the one it is
\* at, and the values it has passed on of that one.
Filling ==
  /\ OfMessage
  /\ field \in 1..(Len(Order) + 1)
  /\ given \in Nat
  /\ field <= Len(Order) => given <= Len(Current)
  /\ \A i \in 1..Len(Order) : Holds(arg, message, Order[i], Passed(i))

\* It holds all of the message.
Whole ==
  /\ OfMessage
  /\ \A i \in 1..Len(Order) : Holds(arg, message, Order[i], Len(Values(message, Order[i])))

\* What the setters keep apart, in every argument.
KeptApart ==
  /\ arg.kind = Unset \/ arg.name = Unset
  /\ IsFiniteSet(Keys(arg)) /\ Cardinality(Keys(arg)) = Len(arg.parameters)
  /\ arg.columns \in Seq(STRING) /\ arg.parameters \in Seq(STRING \X STRING)

ArgInv ==
  /\ function \in {"import", "export"}
  /\ KeptApart
  /\ stage = "fill" => Filling
  /\ stage \in {"idle", "call"} => arg.empty \/ Whole

\* The fields of the two functions.
LEMMA Fields ==
  ASSUME function \in {"import", "export"}
  PROVE  /\ Len(Order) = IF function = "import" THEN 4 ELSE 7
         /\ Order[1] = "information" /\ Order[2] = "name"
         /\ function = "import" => Order[3] = "column" /\ Order[4] = "parameter"
         /\ function = "export" =>
              /\ Order[3] = "parameter" /\ Order[4] = "truncate" /\ Order[5] = "replace"
              /\ Order[6] = "created_by" /\ Order[7] = "column"
  BY DEF Order

\* No field comes twice.
LEMMA FieldsDiffer ==
  ASSUME function \in {"import", "export"},
         NEW i \in 1..Len(Order), NEW j \in 1..Len(Order), Order[i] = Order[j]
  PROVE  i = j
  <1>1. CASE function = "import"
    <2>0. Len(Order) = 4
      BY <1>1, Fields
    <2>1. i \in {1, 2, 3, 4} /\ j \in {1, 2, 3, 4}
      BY <2>0
    <2> QED
      BY <1>1, <2>1, Fields
  <1>2. CASE function = "export"
    <2>0. Len(Order) = 7
      BY <1>2, Fields
    <2>1. i \in {1, 2, 3, 4, 5, 6, 7} /\ j \in {1, 2, 3, 4, 5, 6, 7}
      BY <2>0
    <2> QED
      BY <1>2, <2>1, Fields
  <1> QED
    BY <1>1, <1>2

FieldNames ==
  {"information", "name", "column", "parameter", "truncate", "replace", "created_by"}

\* Every field is one of them.
LEMMA FieldsAreKnown ==
  ASSUME function \in {"import", "export"}, NEW i \in 1..Len(Order)
  PROVE  Order[i] \in FieldNames
  <1>1. CASE function = "import"
    <2>0. Len(Order) = 4
      BY <1>1, Fields
    <2>1. i \in {1, 2, 3, 4}
      BY <2>0
    <2> QED
      BY <1>1, <2>1, Fields DEF FieldNames
  <1>2. CASE function = "export"
    <2>0. Len(Order) = 7
      BY <1>2, Fields
    <2>1. i \in {1, 2, 3, 4, 5, 6, 7}
      BY <2>0
    <2> QED
      BY <1>2, <2>1, Fields DEF FieldNames
  <1> QED
    BY <1>1, <1>2

\* What a message of the database has for a field.
LEMMA ValuesOfMessage ==
  ASSUME message \in Messages
  PROVE  /\ Values(message, "information") = Optional(message.kind)
         /\ Values(message, "name") = Optional(message.name)
         /\ Values(message, "created_by") = Optional(message.created_by)
         /\ Values(message, "truncate") = <<message.truncate>>
         /\ Values(message, "replace") = <<message.replace>>
         /\ Values(message, "column") = message.columns
         /\ Values(message, "parameter") = message.parameters
         /\ message.columns \in Seq(STRING) /\ message.parameters \in Seq(STRING \X STRING)
  <1>1. message \in ImportMessages \cup ExportMessages
    BY DEF Messages
  <1> QED
    BY <1>1, MessagesAssumption DEF Values

\* An optional or single field has at most one value.
LEMMA AtMostOne ==
  ASSUME message \in Messages, NEW f \in FieldNames
  PROVE  /\ Len(Values(message, f)) \in Nat
         /\ f \notin {"column", "parameter"} => Len(Values(message, f)) \in {0, 1}
         /\ f \in {"truncate", "replace"} => Len(Values(message, f)) = 1
  <1>1. \A v : Len(Optional(v)) \in {0, 1}
    BY DEF Optional
  <1> QED
    BY <1>1, ValuesOfMessage DEF FieldNames

\* A setter adds one value to its field.
LEMMA OneValueMore ==
  ASSUME message \in Messages, NEW f \in FieldNames, NEW n \in Nat,
         n < Len(Values(message, f)), NEW a, Holds(a, message, f, n),
         NEW b, b = Changed(a, f, Values(message, f)[n + 1])
  PROVE  Holds(b, message, f, n + 1)
  <1> DEFINE values == Values(message, f)
  <1>1. ASSUME f \notin {"column", "parameter"} PROVE n = 0
    BY <1>1, AtMostOne
  <1>2. ASSUME NEW s, s = Taken(values, n) PROVE Append(s, values[n + 1]) = Taken(values, n + 1)
    BY <1>2 DEF Taken
  <1> HIDE DEF values
  <1>3. CASE f = "column"
    <2>1. a.columns = Taken(values, n)
      BY <1>3 DEF Holds, values
    <2>2. b.columns = Append(a.columns, values[n + 1])
      BY <1>3 DEF Changed, values
    <2>3. b.columns = Taken(values, n + 1)
      BY <1>2, <2>1, <2>2
    <2> QED
      BY <1>3, <2>3 DEF Holds, values
  <1>4. CASE f = "parameter"
    <2>1. a.parameters = Taken(values, n)
      BY <1>4 DEF Holds, values
    <2>2. b.parameters = Append(a.parameters, values[n + 1])
      BY <1>4 DEF Changed, values
    <2>3. b.parameters = Taken(values, n + 1)
      BY <1>2, <2>1, <2>2
    <2> QED
      BY <1>4, <2>3 DEF Holds, values
  <1>5. CASE f \notin {"column", "parameter"}
    <2>1. n = 0
      BY <1>1, <1>5
    <2>2. /\ f = "information" => b.kind = values[1]
          /\ f = "name" => b.name = values[1]
          /\ f = "created_by" => b.created_by = values[1]
          /\ f = "truncate" => b.truncate = values[1]
          /\ f = "replace" => b.replace = values[1]
      BY <2>1 DEF Changed, values
    <2> QED
      BY <1>5, <2>1, <2>2 DEF Holds, values
  <1> QED
    BY <1>3, <1>4, <1>5

\* It leaves the other fields alone.
LEMMA OtherFieldsStay ==
  ASSUME NEW f, NEW g, f # g, NEW m, NEW n, NEW v, NEW a, Holds(a, m, g, n),
         NEW b, b = Changed(a, f, v)
  PROVE  Holds(b, m, g, n)
  <1>1. /\ f # "information" => b.kind = a.kind
        /\ f # "name" => b.name = a.name
        /\ f # "created_by" => b.created_by = a.created_by
        /\ f # "truncate" => b.truncate = a.truncate
        /\ f # "replace" => b.replace = a.replace
        /\ f # "column" => b.columns = a.columns
        /\ f # "parameter" => b.parameters = a.parameters
    BY DEF Changed
  <1>2. CASE g \in {"column", "parameter"}
    BY <1>1, <1>2 DEF Holds
  <1>3. CASE g \notin {"column", "parameter"}
    BY <1>1, <1>3 DEF Holds
  <1> QED
    BY <1>2, <1>3

\* No setter makes two connections, or two parameters of one key.
LEMMA SetKeepsApart ==
  ASSUME KeptApart, message \in Messages, NEW f \in FieldNames, NEW n \in Nat,
         n < Len(Values(message, f)), Accepts(arg, f, Values(message, f)[n + 1]),
         arg' = Changed(arg, f, Values(message, f)[n + 1])
  PROVE  KeptApart'
  <1> DEFINE v == Values(message, f)[n + 1]
  <1>1. arg'.kind = Unset \/ arg'.name = Unset
    BY DEF KeptApart, Accepts, Changed, hasConnectionName, hasConnectionInformation
  <1>2. /\ f = "column" => v \in STRING
        /\ f = "parameter" => v \in STRING \X STRING
    BY ValuesOfMessage, AtMostOne
  <1>3. /\ f = "column" => arg'.columns = Append(arg.columns, v)
        /\ f # "column" => arg'.columns = arg.columns
        /\ f = "parameter" => arg'.parameters = Append(arg.parameters, v) /\ v[1] \notin Keys(arg)
        /\ f # "parameter" => arg'.parameters = arg.parameters
    BY DEF Changed, Accepts
  <1> HIDE DEF v
  <1>4. arg'.columns \in Seq(STRING)
    <2>1. arg.columns \in Seq(STRING)
      BY DEF KeptApart
    <2>2. \A S : \A s \in Seq(S), x \in S : Append(s, x) \in Seq(S)
      OBVIOUS
    <2> QED
      BY <1>2, <1>3, <2>1, <2>2, Zenon
  <1>5. CASE f = "parameter"
    <2> DEFINE old == arg.parameters
               new == arg'.parameters
               Of(s) == {s[i][1] : i \in DOMAIN s}
    <2>1. old \in Seq(STRING \X STRING) /\ v \in STRING \X STRING /\ new = Append(old, v)
      BY <1>2, <1>3, <1>5 DEF KeptApart
    <2> HIDE DEF old, new
    <2>2. /\ new \in Seq(STRING \X STRING) /\ Len(new) = Len(old) + 1 /\ Len(old) \in Nat
          /\ DOMAIN old = 1..Len(old) /\ DOMAIN new = 1..Len(old) + 1
          /\ \A i \in 1..Len(old) : new[i] = old[i]
          /\ new[Len(old) + 1] = v
      BY <2>1
    <2>3. Of(new) = Of(old) \cup {v[1]}
      <3>1. \A i \in DOMAIN new : i \in DOMAIN old \/ i = Len(old) + 1
        BY <2>2
      <3>2. \A i \in DOMAIN old : i \in DOMAIN new
        BY <2>2
      <3>3. Len(old) + 1 \in DOMAIN new
        BY <2>2
      <3> QED
        BY <2>2, <3>1, <3>2, <3>3
    <2>4. Of(new) = Keys(arg)' /\ Of(old) = Keys(arg)
      BY DEF Keys, old, new
    <2> HIDE DEF Of
    <2>5. /\ IsFiniteSet(Of(old)) /\ Cardinality(Of(old)) = Len(old) /\ v[1] \notin Of(old)
      BY <1>3, <1>5, <2>4 DEF KeptApart, old
    <2>6. /\ IsFiniteSet(Of(old) \cup {v[1]})
          /\ Cardinality(Of(old) \cup {v[1]}) = Len(old) + 1
      BY <2>5, FS_AddElement
    <2> QED
      BY <1>1, <1>4, <2>2, <2>3, <2>4, <2>6 DEF KeptApart, new
  <1>6. CASE f # "parameter"
    <2>1. arg'.parameters = arg.parameters /\ Keys(arg)' = Keys(arg)
      BY <1>3, <1>6 DEF Keys
    <2> QED
      BY <1>1, <1>4, <2>1 DEF KeptApart
  <1> QED
    BY <1>5, <1>6

\* A setter call of send_run.
LEMMA SetKeepsArgument ==
  ASSUME ArgInv, Set
  PROVE  ArgInv'
  <1> DEFINE f == Order[field]
             v == Values(message, f)[given + 1]
  <1>1. /\ stage = "fill" /\ field <= Len(Order) /\ given < Len(Values(message, f))
        /\ Accepts(arg, f, v) /\ arg' = Changed(arg, f, v) /\ given' = given + 1
        /\ UNCHANGED <<function, stage, field, message>>
    BY DEF Set, Current
  <1>2. Filling /\ KeptApart /\ function \in {"import", "export"} /\ message \in Messages
        /\ given \in Nat /\ field \in 1..(Len(Order) + 1)
    BY <1>1 DEF ArgInv, Filling, OfMessage
  <1>3. Len(Order) \in Nat /\ field \in 1..Len(Order) /\ f \in FieldNames
    <2>1. Len(Order) \in Nat
      BY <1>2, Fields
    <2>2. field \in 1..Len(Order)
      BY <1>1, <1>2, <2>1
    <2> QED
      BY <1>2, <2>1, <2>2, FieldsAreKnown
  <1>4. Order' = Order /\ \A g : Values(message, g)' = Values(message, g)
    BY <1>1 DEF Order, Values, Optional
  <1>5. KeptApart'
    BY <1>1, <1>2, <1>3, SetKeepsApart
  <1>6. \A i \in 1..Len(Order) : Holds(arg, message, Order[i], Passed(i))
    BY <1>2 DEF Filling
  <1>7. ASSUME NEW i \in 1..Len(Order) PROVE Holds(arg', message, Order[i], Passed(i)')
    <2>1. CASE i = field
      <3>1. Passed(i) = given /\ Passed(i)' = given + 1 /\ Order[i] = f
        BY <1>1, <1>2, <1>3, <2>1 DEF Passed
      <3>2. Holds(arg, message, f, given)
        BY <1>6, <3>1
      <3>3. Holds(arg', message, f, given + 1)
        BY <1>1, <1>2, <1>3, <3>2, OneValueMore
      <3> QED
        BY <3>1, <3>3
    <2>2. CASE i # field
      <3>1. Passed(i)' = Passed(i) /\ Order[i] # f
        BY <1>1, <1>2, <1>3, <1>4, <2>2, FieldsDiffer DEF Passed
      <3> HIDE DEF f, v
      <3>2. Holds(arg', message, Order[i], Passed(i))
        BY <1>1, <1>6, <3>1, OtherFieldsStay
      <3> QED
        BY <3>1, <3>2
    <2> QED
      BY <2>1, <2>2
  <1>8. OfMessage'
    <2>1. arg'.subselect = arg.subselect
      BY <1>1 DEF Changed
    <2> QED
      BY <1>1, <1>2, <2>1 DEF Filling, OfMessage, Messages
  <1>9. \A i \in 1..Len(Order)' : (Holds(arg, message, Order[i], Passed(i)))'
    BY <1>1, <1>4, <1>7 DEF Holds
  <1>10. given' <= Len(Current')
    <2>1. Len(Values(message, f)) \in Nat
      BY <1>2, <1>3, AtMostOne
    <2> QED
      BY <1>1, <1>2, <1>4, <2>1 DEF Current
  <1>11. Filling'
    BY <1>1, <1>2, <1>3, <1>4, <1>8, <1>9, <1>10 DEF Filling
  <1> QED
    BY <1>1, <1>2, <1>5, <1>11 DEF ArgInv

\* A new argument holds nothing of the message yet.
LEMMA NewArgument ==
  ASSUME function \in {"import", "export"}, NEW m \in Messages, ReceiveArgument(m)
  PROVE  ArgInv'
  <1>1. /\ arg' = Fresh(m) /\ field' = 1 /\ given' = 0 /\ message' = m
        /\ stage' = "fill" /\ function' = function
    BY DEF ReceiveArgument
  <1>2. /\ arg'.kind = Unset /\ arg'.name = Unset /\ arg'.created_by = Unset
        /\ arg'.columns = << >> /\ arg'.parameters = << >>
        /\ function = "import" => arg'.subselect = m.subselect
    BY <1>1 DEF Fresh, EmptySpecification, NewSpecification
  <1>3. KeptApart'
    <2>1. Keys(arg)' = {}
      BY <1>2 DEF Keys
    <2>2. << >> \in Seq(STRING) /\ << >> \in Seq(STRING \X STRING) /\ Len(<< >>) = 0
      OBVIOUS
    <2> QED
      BY <1>2, <2>1, <2>2, FS_EmptySet DEF KeptApart
  <1>4. Order' = Order /\ Messages' = Messages
    BY <1>1 DEF Order, Messages
  <1>5. \A s : Taken(s, 0) = << >>
    BY DEF Taken
  <1>6. \A f : Holds(arg', m, f, 0)
    BY <1>2, <1>5 DEF Holds
  <1>7. Len(Order) \in Nat \ {0} /\ Order[1] \in FieldNames
    BY Fields DEF FieldNames
  <1>8. \A i \in 1..Len(Order) : Passed(i)' = 0
    BY <1>1, <1>7 DEF Passed
  <1>9. message' \in Messages' /\ Len(Current)' \in Nat
    <2>1. message' \in Messages'
      BY <1>1, <1>4
    <2>2. (message \in ImportMessages \cup ExportMessages)'
      BY <2>1 DEF Messages
    <2>3. Current' = Values(message', Order[1])
      BY <1>1, <1>4 DEF Current
    <2>4. Order[1] = "information"
      BY Fields
    <2>5. \A v : Len(Optional(v)) \in Nat
      BY DEF Optional
    <2> QED
      BY <2>1, <2>3, <2>4, <2>5 DEF Values
  <1>10. Filling'
    BY <1>1, <1>2, <1>4, <1>6, <1>7, <1>8, <1>9 DEF Filling, OfMessage
  <1> QED
    BY <1>1, <1>3, <1>10 DEF ArgInv

\* One field is passed on, or all of them are.
LEMMA FieldsKeepArgument ==
  ASSUME ArgInv, NextField \/ Filled
  PROVE  ArgInv'
  <1>1. /\ stage = "fill" /\ UNCHANGED <<function, arg, message>>
        /\ function \in {"import", "export"} /\ KeptApart /\ Filling
    BY DEF NextField, Filled, ArgInv
  <1>2. /\ Order' = Order /\ Messages' = Messages /\ KeptApart' /\ OfMessage'
        /\ \A f : Values(message, f)' = Values(message, f)
    BY <1>1 DEF Order, Messages, KeptApart, Keys, Filling, OfMessage, Values, Optional
  <1>3. /\ Len(Order) \in Nat /\ field \in 1..(Len(Order) + 1) /\ given \in Nat
        /\ message \in Messages
        /\ \A i \in 1..Len(Order) : Holds(arg, message, Order[i], Passed(i))
    BY <1>1, Fields DEF Filling, OfMessage
  <1>4. CASE NextField
    <2>1. /\ field <= Len(Order) /\ given = Len(Values(message, Order[field]))
          /\ field' = field + 1 /\ given' = 0 /\ stage' = stage
      BY <1>4 DEF NextField, Current
    <2>2. \A i \in 1..Len(Order) : Passed(i)' = Passed(i)
      BY <1>2, <1>3, <2>1 DEF Passed
    <2>3. \A i \in 1..Len(Order) : Holds(arg', message', Order'[i], Passed(i)')
      BY <1>1, <1>2, <1>3, <2>2
    <2>4. ASSUME field' <= Len(Order) PROVE Len(Current)' \in Nat
      <3>1. field + 1 \in 1..Len(Order)
        BY <1>3, <2>1, <2>4
      <3>2. Order[field + 1] \in FieldNames
        BY <1>1, <3>1, FieldsAreKnown
      <3>3. Len(Values(message, Order[field + 1])) \in Nat
        BY <1>3, <3>2, AtMostOne
      <3> QED
        BY <1>2, <2>1, <3>3 DEF Current
    <2>5. Filling'
      BY <1>2, <1>3, <2>1, <2>3, <2>4 DEF Filling
    <2> QED
      BY <1>1, <1>2, <2>1, <2>5 DEF ArgInv
  <1>5. CASE Filled
    <2>1. field > Len(Order) /\ stage' = "call" /\ UNCHANGED <<field, given>>
      BY <1>5 DEF Filled
    <2>2. \A i \in 1..Len(Order) : Passed(i) = Len(Values(message, Order[i]))
      BY <1>3, <2>1 DEF Passed
    <2>3. \A i \in 1..Len(Order) : Holds(arg', message', Order'[i], Len(Values(message, Order[i]))')
      BY <1>1, <1>2, <1>3, <2>2
    <2>4. Whole'
      BY <1>2, <2>3 DEF Whole
    <2> QED
      BY <1>1, <1>2, <2>1, <2>4 DEF ArgInv
  <1> QED
    BY <1>4, <1>5

\* The steps that leave the argument alone, and the one that deletes it.
LEMMA CallsKeepArgument ==
  ASSUME ArgInv,
         \/ ReceiveNothing \/ ReceiveRun \/ SetThrows
         \/ AssertFails \/ CallReturns \/ CallThrows
         \/ UNCHANGED argVars
  PROVE  ArgInv'
  <1>1. CASE CallReturns
    <2>1. arg' = EmptySpecification /\ stage' = "idle" /\ function' = function
      BY <1>1 DEF CallReturns
    <2>2. /\ arg'.kind = Unset /\ arg'.columns = << >> /\ arg'.parameters = << >>
      BY <2>1 DEF EmptySpecification, NewSpecification
    <2>3. arg'.empty
      BY <2>1, Zenon DEF EmptySpecification, NewSpecification
    <2>4. Keys(arg)' = {} /\ << >> \in Seq(STRING) /\ << >> \in Seq(STRING \X STRING)
      BY <2>2 DEF Keys
    <2>5. KeptApart'
      BY <2>2, <2>4, FS_EmptySet DEF KeptApart
    <2> QED
      BY <2>1, <2>3, <2>5 DEF ArgInv
  <1>2. ASSUME UNCHANGED <<function, arg, field, given, message>>,
               \/ stage' = stage \/ stage' \in {"failed", "aborted"}
               \/ stage \in {"idle", "call"} /\ stage' \in {"idle", "call"}
        PROVE  ArgInv'
    <2>1. KeptApart' = KeptApart
      BY <1>2 DEF KeptApart, Keys
    <2>2. /\ Order' = Order /\ Messages' = Messages /\ (\A i : Passed(i)' = Passed(i))
          /\ Current' = Current /\ \A f : Values(message, f)' = Values(message, f)
      BY <1>2 DEF Order, Messages, Passed, Current, Values, Optional
    <2>3. Filling => Filling'
      BY <1>2, <2>2 DEF Filling, OfMessage, Holds
    <2>4. Whole => Whole'
      BY <1>2, <2>2 DEF Whole, OfMessage, Holds
    <2> QED
      BY <1>2, <2>1, <2>3, <2>4 DEF ArgInv
  <1> QED
    BY <1>1, <1>2 DEF ReceiveNothing, ReceiveRun, SetThrows, AssertFails, CallThrows, argVars

\* The container sees all of the last message and nothing of an earlier one,
\* for any messages and any number of calls.
THEOREM ArgumentIsRight == ArgSpec => []ArgumentIsTheMessage
  <1>1. ArgInit => ArgInv
    <2> SUFFICES ASSUME ArgInit PROVE ArgInv
      OBVIOUS
    <2>1. arg = EmptySpecification /\ stage = "idle" /\ function \in {"import", "export"}
      BY DEF ArgInit
    <2>2. /\ arg.kind = Unset /\ arg.columns = << >> /\ arg.parameters = << >>
      BY <2>1 DEF EmptySpecification, NewSpecification
    <2>3. arg.empty
      BY <2>1, Zenon DEF EmptySpecification, NewSpecification
    <2>4. Keys(arg) = {} /\ << >> \in Seq(STRING) /\ << >> \in Seq(STRING \X STRING)
      BY <2>2 DEF Keys
    <2>5. KeptApart
      BY <2>2, <2>4, FS_EmptySet DEF KeptApart
    <2> QED
      BY <2>1, <2>3, <2>5 DEF ArgInv
  <1>2. ArgInv /\ [ArgNext]_argVars => ArgInv'
    <2> SUFFICES ASSUME ArgInv, [ArgNext]_argVars PROVE ArgInv'
      OBVIOUS
    <2>1. function \in {"import", "export"}
      BY DEF ArgInv
    <2> QED
      BY <2>1, NewArgument, SetKeepsArgument, FieldsKeepArgument, CallsKeepArgument DEF ArgNext
  <1>3. ArgInv => ArgumentIsTheMessage
    <2> SUFFICES ASSUME ArgInv, stage = "call", ~arg.empty PROVE ArgumentIsTheMessage
      BY DEF ArgumentIsTheMessage
    <2>1. /\ Whole /\ KeptApart /\ function \in {"import", "export"} /\ message \in Messages
          /\ \A i \in 1..Len(Order) :
               Holds(arg, message, Order[i], Len(Values(message, Order[i])))
      BY DEF ArgInv, Whole, OfMessage
    <2> DEFINE All(f) == Holds(arg, message, f, Len(Values(message, f)))
    <2>2. /\ All("information") /\ All("name") /\ All("column") /\ All("parameter")
          /\ function = "export" => All("truncate") /\ All("replace") /\ All("created_by")
      <3>1. CASE function = "import"
        <4>0. Len(Order) = 4
          BY <2>1, <3>1, Fields
        <4>1. {1, 2, 3, 4} \subseteq 1..Len(Order)
          BY <4>0
        <4> HIDE DEF All
        <4> QED
          BY <2>1, <3>1, <4>1, Fields DEF All
      <3>2. CASE function = "export"
        <4>0. Len(Order) = 7
          BY <2>1, <3>2, Fields
        <4>1. {1, 2, 3, 4, 5, 6, 7} \subseteq 1..Len(Order)
          BY <4>0
        <4> HIDE DEF All
        <4> QED
          BY <2>1, <3>2, <4>1, Fields DEF All
      <3> QED
        BY <2>1, <3>1, <3>2
    <2>3. \A S : \A s \in Seq(S) : Taken(s, Len(s)) = s
      BY DEF Taken
    <2>4. arg.columns = message.columns /\ arg.parameters = message.parameters
      BY <2>1, <2>2, <2>3, ValuesOfMessage DEF Holds
    <2> DEFINE Given(value) == IF value = Absent THEN Unset ELSE value
    <2>5. /\ \A v : v = Absent => Optional(v) = << >> /\ Given(v) = Unset
          /\ \A v : v # Absent => Optional(v) = <<v>> /\ Given(v) = v
          /\ Len(<< >>) = 0 /\ \A v : Len(<<v>>) = 1 /\ <<v>>[1] = v
      BY DEF Optional
    <2>6. arg.kind = Given(message.kind) /\ arg.name = Given(message.name)
      BY <2>1, <2>2, <2>5, ValuesOfMessage DEF Holds
    <2>7. function = "export" =>
            /\ arg.truncate = message.truncate /\ arg.replace = message.replace
            /\ arg.created_by = Given(message.created_by)
      <3> SUFFICES ASSUME function = "export"
                   PROVE  /\ arg.truncate = message.truncate /\ arg.replace = message.replace
                          /\ arg.created_by = Given(message.created_by)
        OBVIOUS
      <3> DEFINE values(f) == Values(message, f)
      <3>1. /\ values("truncate") = <<message.truncate>> /\ values("replace") = <<message.replace>>
            /\ values("created_by") = Optional(message.created_by)
        BY <2>1, ValuesOfMessage
      <3>2. /\ Len(values("truncate")) # 0 => arg.truncate = values("truncate")[1]
            /\ Len(values("replace")) # 0 => arg.replace = values("replace")[1]
            /\ Len(values("created_by")) = 0 => arg.created_by = Unset
            /\ Len(values("created_by")) # 0 => arg.created_by = values("created_by")[1]
        BY <2>2 DEF Holds
      <3> HIDE DEF values, Given
      <3>3. arg.truncate = message.truncate /\ arg.replace = message.replace
        BY <2>5, <3>1, <3>2
      <3>4. arg.created_by = Given(message.created_by)
        <4> DEFINE v == message.created_by
                   w == values("created_by")
        <4>1. v = Absent => Len(w) = 0 /\ Given(v) = Unset
          BY <2>5, <3>1
        <4>2. v # Absent => Len(w) = 1 /\ w[1] = v /\ Given(v) = v
          BY <2>5, <3>1
        <4> HIDE DEF v, w
        <4>3. /\ Len(w) = 0 => arg.created_by = Unset
              /\ Len(w) # 0 => arg.created_by = w[1]
          BY <3>2 DEF w
        <4>4. arg.created_by = Given(v)
          BY <4>1, <4>2, <4>3
        <4> QED
          BY <4>4 DEF v
      <3> QED
        BY <3>3, <3>4
    <2>8. function = "import" => arg.subselect = message.subselect
      BY <2>1 DEF Whole, OfMessage
    <2>9. /\ ~(hasConnectionName(arg) /\ hasConnectionInformation(arg))
          /\ Cardinality(Keys(arg)) = Len(arg.parameters)
      BY <2>1 DEF KeptApart, hasConnectionName, hasConnectionInformation
    <2> QED
      BY <2>4, <2>6, <2>7, <2>8, <2>9 DEF ArgumentIsTheMessage
  <1> QED
    BY <1>1, <1>2, <1>3, PTL DEF ArgSpec
=============================================================================
