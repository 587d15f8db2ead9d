---------------------------- MODULE ProcessCheck ----------------------------
(***************************************************************************)
(* exaudflib::check: the thread that kills an orphaned v1 client, and the  *)
(* same check made by the main thread while it waits for the database.     *)
(*                                                                         *)
(* A local client (ipc:) talks to the database through a socket file.  The *)
(* check thread aborts the process when that file is gone or when the      *)
(* parent process changed.  pthread_cancel is deferred: it takes effect    *)
(* where the thread sleeps, which it always does before it aborts.         *)
(***************************************************************************)
EXTENDS Naturals

VARIABLES
  remote,         \* remote_client: a tcp: client has no file and no thread
  checker,        \* where the check thread is
  keep_checking,  \* the flag of the same name
  cancelled,      \* pthread_cancel was called
  file,           \* the socket file exists
  ppid,           \* the parent process: the one that started us, or not
  first_ppid,     \* what the thread stored at its first check
  aborted         \* why the process was killed from inside, or "no"

checkVars ==
  <<remote, checker, keep_checking, cancelled, file, ppid, first_ppid, aborted>>

CheckTypeOK ==
  /\ remote \in BOOLEAN
  /\ checker \in {"none", "loop", "access", "missing", "ppid", "orphaned",
                  "condemned", "nap", "ended", "cancelled"}
  /\ keep_checking \in BOOLEAN
  /\ cancelled \in BOOLEAN
  /\ file \in BOOLEAN
  /\ ppid \in {"starter", "adopter"}
  /\ first_ppid \in {"unset", "starter", "adopter"}
  /\ aborted \in {"no", "check", "assert", "terminate"}

\* The main thread has called start_check_thread, which does nothing for a
\* remote client.
CheckInit ==
  /\ remote \in BOOLEAN
  /\ checker = IF remote THEN "none" ELSE "loop"
  /\ keep_checking = TRUE
  /\ cancelled = FALSE
  /\ file = ~remote
  /\ ppid = "starter"
  /\ first_ppid = "unset"
  /\ aborted = "no"

-----------------------------------------------------------------------------
(* check_thread_routine                                                    *)

TestKeepChecking ==
  /\ checker = "loop"
  /\ checker' = IF keep_checking THEN "access" ELSE "ended"
  /\ UNCHANGED <<remote, keep_checking, cancelled, file, ppid, first_ppid, aborted>>

\* external_process_check: access(socket file)
TestSocketFile ==
  /\ checker = "access"
  /\ checker' = IF file THEN "ppid" ELSE "missing"
  /\ UNCHANGED <<remote, keep_checking, cancelled, file, ppid, first_ppid, aborted>>

\* A slip: every check remembers the parent it sees.
TestParentForgets ==
  /\ checker = "ppid"
  /\ first_ppid' = ppid
  /\ checker' = "nap"
  /\ UNCHANGED <<remote, keep_checking, cancelled, file, ppid, aborted>>

\* check_parent_pid: the first call only remembers the parent.
TestParent ==
  /\ checker = "ppid"
  /\ first_ppid' = IF first_ppid = "unset" THEN ppid ELSE first_ppid
  /\ checker' = IF first_ppid' # ppid THEN "orphaned" ELSE "nap"
  /\ UNCHANGED <<remote, keep_checking, cancelled, file, ppid, aborted>>

\* usleep at the end of the loop.
Nap ==
  /\ checker = "nap"
  /\ ~cancelled
  /\ checker' = "loop"
  /\ UNCHANGED <<remote, keep_checking, cancelled, file, ppid, first_ppid, aborted>>

\* sleep(1) returns.  From here to the abort nothing cancels the thread; an
\* orphan removes the socket file.
SleepReturns ==
  /\ checker \in {"missing", "orphaned"}
  /\ ~cancelled
  /\ checker' = "condemned"
  /\ file' = (file /\ checker = "missing")
  /\ UNCHANGED <<remote, keep_checking, cancelled, ppid, first_ppid, aborted>>

CheckerAborts ==
  /\ checker = "condemned"
  /\ aborted' = "check"
  /\ UNCHANGED <<remote, checker, keep_checking, cancelled, file, ppid, first_ppid>>

\* sleep and usleep are the cancellation points of the thread.
ActOnCancel ==
  /\ checker \in {"missing", "orphaned", "nap"}
  /\ cancelled
  /\ checker' = "cancelled"
  /\ UNCHANGED <<remote, keep_checking, cancelled, file, ppid, first_ppid, aborted>>

CheckThread ==
  \/ TestKeepChecking \/ TestSocketFile \/ TestParent
  \/ Nap \/ SleepReturns \/ CheckerAborts \/ ActOnCancel

-----------------------------------------------------------------------------
(* What the main thread calls.                                             *)

\* external_process_check in the retry loops of socket_send and socket_recv.
MainAborts ==
  /\ ~remote
  /\ ~file
  /\ aborted' = "check"
  /\ UNCHANGED <<remote, checker, keep_checking, cancelled, file, ppid, first_ppid>>

StopCheckThread ==
  /\ keep_checking' = FALSE
  /\ UNCHANGED <<remote, checker, cancelled, file, ppid, first_ppid, aborted>>

CancelCheckThread ==
  /\ cancelled' = TRUE
  /\ UNCHANGED <<remote, checker, keep_checking, file, ppid, first_ppid, aborted>>

UnlinkSocketFile ==
  /\ file' = FALSE
  /\ UNCHANGED <<remote, checker, keep_checking, cancelled, ppid, first_ppid, aborted>>

Die(why) ==
  /\ aborted' = why
  /\ UNCHANGED <<remote, checker, keep_checking, cancelled, file, ppid, first_ppid>>

-----------------------------------------------------------------------------
\* The database goes away.  It may or may not remove the socket file, and
\* the client may or may not get a new parent: in its own process namespace
\* the parent is always 0.
DatabaseLeaves(removes, adopted) ==
  /\ file' = (file /\ ~removes)
  /\ ppid' = IF adopted THEN "adopter" ELSE ppid
  /\ UNCHANGED <<remote, checker, keep_checking, cancelled, first_ppid, aborted>>
=============================================================================
