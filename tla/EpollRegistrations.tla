------------------------- MODULE EpollRegistrations -------------------------
(***************************************************************************)
(* NativeLinuxEpoll and its registrations: who is in the interest set of   *)
(* the kernel.  A registration object holds a weak pointer to the state of *)
(* its epoll and may outlive it; the descriptors are borrowed.  A number   *)
(* that was closed may be given to another component's epoll (external).   *)
(*                                                                         *)
(* The library asks its callers not to close a descriptor while a          *)
(* registration for it is alive.  They may break that rule here, and       *)
(* misused says for which descriptors the consequences last.               *)
(***************************************************************************)
EXTENDS Naturals

CONSTANTS
  Fds,      \* descriptors that are registered
  Regs,     \* registration objects
  Events,   \* interest and token, as one value
  None      \* neither an event nor a descriptor

ASSUME EpollAssumption == None \notin Events /\ None \notin Fds

VARIABLES
  state,      \* "open", "closed" (file_descriptor = -1) or "expired" (freed)
  native,     \* external: what the number of the epoll is: "ours", "free", "foreign"
  reg,        \* per object: the descriptor it registers, or None
  open,       \* external: the descriptors that are open
  interest,   \* external: the interest set of our epoll, per descriptor
  misused,    \* history: closed under a registration that is alive
  granted,    \* history: the last event each registration asked for with success
  misdirected \* history: a system call went to the epoll of someone else

vars == <<state, native, reg, open, interest, misused, granted, misdirected>>

Init ==
  /\ state = "open"
  /\ native = "ours"
  /\ reg = [r \in Regs |-> None]
  /\ open \in SUBSET Fds
  /\ interest = [f \in Fds |-> None]
  /\ misused = {}
  /\ granted = [r \in Regs |-> None]
  /\ misdirected = FALSE

\* A system call on the number of the epoll.
Touch == misdirected' = (misdirected \/ native = "foreign")

-----------------------------------------------------------------------------
\* add(): EPOLL_CTL_ADD fails for a closed descriptor and for one that is in
\* the set already; then the constructor throws and there is no object.
Add(r, f, e) ==
  /\ reg[r] = None
  /\ state = "open"
  /\ f \in open
  /\ interest[f] = None
  /\ reg' = [reg EXCEPT ![r] = f]
  /\ granted' = [granted EXCEPT ![r] = e]
  /\ interest' = [interest EXCEPT ![f] = e]
  /\ Touch
  /\ UNCHANGED <<state, native, open, misused>>

\* modify(): when it throws, the old event stays.
Modify(r, e) ==
  /\ reg[r] # None
  /\ state = "open"
  /\ interest[reg[r]] # None
  /\ interest' = [interest EXCEPT ![reg[r]] = e]
  /\ granted' = [granted EXCEPT ![r] = e]
  /\ Touch
  /\ UNCHANGED <<state, native, reg, open, misused>>

\* The last registration for a descriptor ends what its misuse has caused.
Recover(r) ==
  misused' = IF \E s \in Regs \ {r} : reg[s] = reg[r] THEN misused ELSE misused \ {reg[r]}

\* A slip: the destructor leaves the kernel alone.
DestroyQuietly(r) ==
  /\ reg[r] # None
  /\ reg' = [reg EXCEPT ![r] = None]
  /\ granted' = [granted EXCEPT ![r] = None]
  /\ Recover(r)
  /\ UNCHANGED <<state, native, open, interest, misdirected>>

\* The destructor: EPOLL_CTL_DEL, if there is an open epoll.
Destroy(r) ==
  /\ reg[r] # None
  /\ reg' = [reg EXCEPT ![r] = None]
  /\ granted' = [granted EXCEPT ![r] = None]
  /\ Recover(r)
  /\ IF state = "open"
     THEN /\ interest' = [interest EXCEPT ![reg[r]] = None]
          /\ Touch
     ELSE UNCHANGED <<interest, misdirected>>
  /\ UNCHANGED <<state, native, open>>

\* The number is given back and the interest set is gone.
CloseNative ==
  /\ native' = "free"
  /\ interest' = [f \in Fds |-> None]
  /\ Touch

\* A slip: the number is closed and remembered.
CloseRemembers ==
  /\ state = "open"
  /\ CloseNative
  /\ UNCHANGED <<state, reg, open, misused, granted>>

\* close(): the number is forgotten first; the second close() does nothing.
Close ==
  /\ state = "open"
  /\ CloseNative
  /\ state' = "closed"
  /\ UNCHANGED <<reg, open, misused, granted>>

\* The destructor of NativeLinuxEpoll frees the state after close().
Expire ==
  /\ state \in {"open", "closed"}
  /\ IF state = "open" THEN CloseNative ELSE UNCHANGED <<native, interest, misdirected>>
  /\ state' = "expired"
  /\ UNCHANGED <<reg, open, misused, granted>>

-----------------------------------------------------------------------------
(* The rest of the process (external)                                      *)

OtherEpoll ==
  /\ native = "free"
  /\ native' = "foreign"
  /\ UNCHANGED <<state, reg, open, interest, misused, granted, misdirected>>

Open(f) ==
  /\ f \notin open
  /\ open' = open \union {f}
  /\ UNCHANGED <<state, native, reg, interest, misused, granted, misdirected>>

\* The kernel takes a closed descriptor out of every interest set.
CloseFd(f) ==
  /\ f \in open
  /\ open' = open \ {f}
  /\ misused' = IF \E r \in Regs : reg[r] = f THEN misused \union {f} ELSE misused
  /\ interest' = [interest EXCEPT ![f] = None]
  /\ UNCHANGED <<state, native, reg, granted, misdirected>>

Next ==
  \/ \E r \in Regs : Destroy(r)
  \/ \E r \in Regs, e \in Events : Modify(r, e) \/ \E f \in Fds : Add(r, f, e)
  \/ \E f \in Fds : Open(f) \/ CloseFd(f)
  \/ Close \/ Expire \/ OtherEpoll

Spec == Init /\ [][Next]_vars

-----------------------------------------------------------------------------
TypeOK ==
  /\ state \in {"open", "closed", "expired"}
  /\ native \in {"ours", "free", "foreign"}
  /\ reg \in [Regs -> Fds \union {None}]
  /\ open \subseteq Fds
  /\ interest \in [Fds -> Events \union {None}]
  /\ misused \subseteq Fds
  /\ granted \in [Regs -> Events \union {None}]
  /\ misdirected \in BOOLEAN

\* "A live registration represents one successful EPOLL_CTL_ADD"
\* (epoll_design.md): while the epoll is open, the kernel watches exactly the
\* descriptors of the live registrations, each with the event its one
\* registration has asked for last.  A caller that closes a descriptor under a
\* registration spoils this for that number alone, and only until the
\* registrations for it are gone; nothing is ever watched for nobody.
RegistrationsAreTheInterestSet ==
  state = "open" =>
    /\ \A r \in Regs : reg[r] \in Fds \ misused =>
         reg[r] \in open /\ interest[reg[r]] = granted[r] /\ granted[r] # None
    /\ \A r, s \in Regs : reg[r] \in Fds \ misused /\ reg[r] = reg[s] => r = s
    /\ \A f \in Fds : interest[f] # None => \E r \in Regs : reg[r] = f
    /\ \A f \in misused : \E r \in Regs : reg[r] = f

\* No registration that outlives its epoll, and no second close, reaches the
\* epoll that has got the old number.
NobodyElsesEpoll == ~misdirected
=============================================================================
