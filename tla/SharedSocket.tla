---------------------------- MODULE SharedSocket ----------------------------
(***************************************************************************)
(* socket_send and socket_recv on the one ZeroMQ socket of a v1 client,    *)
(* for a VM that talks to the database from several threads: the streaming *)
(* container fetches input in one thread and emits in another.  A mutex    *)
(* (useZmqSocketLocks) is held for one send or one receive, not for the    *)
(* exchange; what keeps two exchanges apart is the REQ socket (external),  *)
(* which refuses a second request until the first is answered.             *)
(*                                                                         *)
(* A message is a view of its sender's output_buffer (message_t without a  *)
(* free function): ZeroMQ reads the buffer at some time between the send   *)
(* and the answer.  A buffer holds the text of the thread's last request,  *)
(* named by its number.                                                    *)
(*                                                                         *)
(* A failed attempt ends in external_process_check, which is in            *)
(* ProcessCheck; here the database stays.                                  *)
(***************************************************************************)
EXTENDS Naturals

CONSTANTS
  Threads,      \* the threads of the VM
  None,         \* no thread
  UseLocks,     \* use_zmq_socket_locks
  MaxRequests   \* bound: requests of a thread

ASSUME SocketAssumption ==
  /\ None \notin Threads
  /\ UseLocks \in BOOLEAN
  /\ MaxRequests \in Nat

\* A VM that does not ask for locks has one thread.
ASSUME LocksAssumption == UseLocks \/ \A t, u \in Threads : t = u

VARIABLES
  doing,     \* what each thread does next
  mutex,     \* who holds zmq_socket_mutex
  asker,     \* external: whose request the socket waits for, or None
  wire,      \* external: "empty", or where the message is
  text,      \* external: the request that was sent
  requests,  \* how many requests each thread has begun: the text in its buffer
  answers    \* whose answer each thread has got last, or None

socketVars == <<doing, mutex, asker, wire, text, requests, answers>>

SocketInit ==
  /\ doing = [t \in Threads |-> "idle"]
  /\ mutex = None
  /\ asker = None
  /\ wire = "empty"
  /\ text = 0
  /\ requests = [t \in Threads |-> 0]
  /\ answers = [t \in Threads |-> None]

\* Where a thread is inside a call of the socket.
InSocket == {"send", "recv"}

Goto(t, place) == doing' = [doing EXCEPT ![t] = place]

Lock(t) ==
  IF UseLocks THEN mutex = None /\ mutex' = t ELSE UNCHANGED mutex

Unlock(t) ==
  IF UseLocks THEN mutex' = None ELSE UNCHANGED mutex

-----------------------------------------------------------------------------
\* The request is serialised into the buffer.
Begin(t) ==
  /\ doing[t] = "idle"
  /\ requests[t] < MaxRequests
  /\ requests' = [requests EXCEPT ![t] = @ + 1]
  /\ answers' = [answers EXCEPT ![t] = None]
  /\ Goto(t, "lock_send")
  /\ UNCHANGED <<mutex, asker, wire, text>>

LockToSend(t) ==
  /\ doing[t] = "lock_send"
  /\ Lock(t)
  /\ Goto(t, "send")
  /\ UNCHANGED <<asker, wire, text, requests, answers>>

\* socket.send(zmsg) == true
Send(t) ==
  /\ doing[t] = "send"
  /\ asker = None
  /\ asker' = t
  /\ wire' = "request"
  /\ text' = requests[t]
  /\ Unlock(t)
  /\ Goto(t, "lock_recv")
  /\ UNCHANGED <<requests, answers>>

\* A slip: a request that was not sent is taken for sent.
SendGoesOn(t) ==
  /\ doing[t] = "send"
  /\ Unlock(t)
  /\ Goto(t, "lock_recv")
  /\ UNCHANGED <<asker, wire, text, requests, answers>>

\* The timeout, or the exception of a socket that waits for an answer; then
\* a pause and another attempt.
SendFails(t) ==
  /\ doing[t] = "send"
  /\ Unlock(t)
  /\ Goto(t, "lock_send")
  /\ UNCHANGED <<asker, wire, text, requests, answers>>

LockToRecv(t) ==
  /\ doing[t] = "lock_recv"
  /\ Lock(t)
  /\ Goto(t, "recv")
  /\ UNCHANGED <<asker, wire, text, requests, answers>>

\* socket.recv(&zmsg) == true
Recv(t) ==
  /\ doing[t] = "recv"
  /\ wire = "answer"
  /\ answers' = [answers EXCEPT ![t] = asker]
  /\ asker' = None
  /\ wire' = "empty"
  /\ Unlock(t)
  /\ Goto(t, "idle")
  /\ UNCHANGED <<text, requests>>

\* A slip: socket_recv gives up where it should try again.
RecvGivesUp(t) ==
  /\ doing[t] = "recv"
  /\ wire # "answer"
  /\ Unlock(t)
  /\ Goto(t, "idle")
  /\ UNCHANGED <<asker, wire, text, requests, answers>>

\* The timeout; then a pause and another attempt.
RecvFails(t) ==
  /\ doing[t] = "recv"
  /\ wire # "answer"
  /\ Unlock(t)
  /\ Goto(t, "lock_recv")
  /\ UNCHANGED <<asker, wire, text, requests, answers>>

\* external
DatabaseAnswers ==
  /\ wire = "request"
  /\ wire' = "answer"
  /\ UNCHANGED <<doing, mutex, asker, text, requests, answers>>

Rest ==
  /\ \A t \in Threads : doing[t] = "idle" /\ requests[t] = MaxRequests
  /\ UNCHANGED socketVars

Step(t) ==
  \/ Begin(t) \/ LockToSend(t) \/ Send(t) \/ SendFails(t)
  \/ LockToRecv(t) \/ Recv(t) \/ RecvFails(t)

SocketNext == DatabaseAnswers \/ Rest \/ \E t \in Threads : Step(t)

\* Threads run and the database answers.  A thread whose attempt failed
\* pauses for 0.1 s before it asks for the mutex again, so one that waits for
\* the mutex gets it; and a send into a free socket gets through in the end.
SocketFairness ==
  /\ WF_socketVars(DatabaseAnswers)
  /\ \A t \in Threads :
       /\ WF_socketVars(Step(t))
       /\ SF_socketVars(LockToSend(t))
       /\ SF_socketVars(LockToRecv(t))
       /\ SF_socketVars(Send(t))

SocketSpec == SocketInit /\ [][SocketNext]_socketVars
SocketFairSpec == SocketSpec /\ SocketFairness

-----------------------------------------------------------------------------
SocketTypeOK ==
  /\ doing \in [Threads -> {"idle", "lock_send", "send", "lock_recv", "recv"}]
  /\ mutex \in Threads \union {None}
  /\ asker \in Threads \union {None}
  /\ wire \in {"empty", "request", "answer"}
  /\ text \in 0..MaxRequests
  /\ requests \in [Threads -> 0..MaxRequests]
  /\ answers \in [Threads -> Threads \union {None}]

\* A ZeroMQ socket is not thread safe: no two threads are inside of it.
OneThreadInSocket ==
  \A t, u \in Threads : doing[t] \in InSocket /\ doing[u] \in InSocket => t = u

\* Although the mutex is given back between the request and its answer, no
\* thread gets the answer to the request of another.
AnswersReachTheirAsker ==
  \A t \in Threads : answers[t] # None => answers[t] = t

\* Nobody writes into a buffer that ZeroMQ may still read, and no answer is
\* taken for that to a later request: from a send to its answer, the buffer of
\* the asker holds the text that was sent.
RequestsIntact == asker # None => text = requests[asker]

\* Every request is answered: no thread waits for ever for the mutex or for
\* its turn on the socket.
EveryRequestIsAnswered ==
  \A t \in Threads : doing[t] # "idle" ~> doing[t] = "idle" /\ answers[t] = t

-----------------------------------------------------------------------------
(* Why the answers arrive: the thread between its request and its answer   *)
(* is the asker, and it is the only one.                                   *)

Waiting == {"lock_recv", "recv"}

\* The thread inside the socket holds the mutex.
MutexGuardsSocket == UseLocks => \A t \in Threads : doing[t] \in InSocket <=> mutex = t

\* The socket waits for exactly the thread that waits for it.
AskerWaits ==
  /\ \A t \in Threads : doing[t] \in Waiting <=> asker = t
  /\ wire = "empty" <=> asker = None

SocketInv == SocketTypeOK /\ MutexGuardsSocket /\ AskerWaits /\ AnswersReachTheirAsker
          /\ RequestsIntact
=============================================================================
