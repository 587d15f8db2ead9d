------------------------------ MODULE MCEpoll ------------------------------
(***************************************************************************)
(* NativeLinuxEpoll for TLC.  wait() reads no registration and add(),      *)
(* modify() and close() read nothing of a wait, so a behaviour is one of   *)
(* the registrations or one of waits, chosen at the start.                 *)
(***************************************************************************)
EXTENDS EpollRegistrations, EpollWait

VARIABLE part   \* "registrations" or "wait"

epollVars == <<vars, clockVars, part>>

EpollInit ==
  /\ part \in {"registrations", "wait"}
  /\ Init
  /\ WaitInit
  /\ part = "wait" => open = {}

EpollNext ==
  \/ part = "registrations" /\ Next /\ UNCHANGED <<clockVars, part>>
  \/ part = "wait" /\ WaitNext /\ UNCHANGED <<vars, part>>

EpollSpec == EpollInit /\ [][EpollNext]_epollVars /\ (part = "wait" => WaitFairness)
=============================================================================
