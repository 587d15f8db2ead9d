-------------------------- MODULE SocketOwnership --------------------------
(***************************************************************************)
(* Who owns a descriptor and a socket path in the v2 socket library:       *)
(* OwnedFileDescriptor, UnixSocket and UnixSocketListener, and the         *)
(* factories connect, bind, accept and adopt_native_handle.  An object     *)
(* lives in a slot.  While connect or bind runs, its local socket_fd lives *)
(* in the slot of the result, and the kind of the slot tells how far the   *)
(* call is; the slots belong to different threads, so calls interleave.    *)
(***************************************************************************)
EXTENDS Naturals, FiniteSets

CONSTANTS
  Slots,    \* storage for objects
  Fds,      \* descriptor numbers, reused by the kernel
  Paths,    \* valid socket paths
  NoFd,     \* -1
  NoPath    \* the empty path

ASSUME OwnershipAssumption == NoFd \notin Fds /\ NoPath \notin Paths

Objects == {"fd", "socket", "listener"}
Calls == {"connecting", "binding", "bound"}
Kinds == Objects \union Calls \union {"none"}

VARIABLES
  kind,     \* what lives in a slot
  fd,       \* file_descriptor
  path,     \* bound_path
  posix,    \* is posix_pointer set?
  open,     \* external: the open descriptors of the process
  raw,      \* open descriptors that the caller owns himself
  names,    \* external: a path is "free", "ours" or "foreign"
  usurped,  \* history: a listener has it, and somebody else removed it
  crashed   \* a null facade was dereferenced

objVars == <<kind, fd, path, posix>>
vars == <<objVars, open, raw, names, usurped, crashed>>

Init ==
  /\ kind = [s \in Slots |-> "none"]
  /\ fd = [s \in Slots |-> NoFd]
  /\ path = [s \in Slots |-> NoPath]
  /\ posix = [s \in Slots |-> FALSE]
  /\ open = {} /\ raw = {}
  /\ names \in [Paths -> {"free", "foreign"}]
  /\ usurped = {}
  /\ crashed = FALSE

OwnsPath(s) == kind[s] \in {"bound", "listener"} /\ path[s] # NoPath
HasOwner(p) == \E s \in Slots : OwnsPath(s) /\ path[s] = p

-----------------------------------------------------------------------------
Put(s, k, f, p, facade) ==
  /\ kind' = [kind EXCEPT ![s] = k]
  /\ fd' = [fd EXCEPT ![s] = f]
  /\ path' = [path EXCEPT ![s] = p]
  /\ posix' = [posix EXCEPT ![s] = facade]

\* Slot d takes over what slot s owns; s keeps its kind, and its facade if
\* kept says so.
Transfer(s, d, k, p, kept) ==
  /\ kind' = [kind EXCEPT ![d] = k]
  /\ fd' = [fd EXCEPT ![d] = fd[s], ![s] = NoFd]
  /\ path' = [path EXCEPT ![d] = p, ![s] = NoPath]
  /\ posix' = [posix EXCEPT ![d] = posix[s], ![s] = kept /\ posix[s]]

\* ::close and ::unlink through the facade
Closed(s) == open \ {fd[s]}
Unlinked(s) == [p \in Paths |-> IF p = path[s] THEN "free" ELSE names[p]]

\* create_socket, at the start of connect and of bind
Create(s, f, k, p) ==
  /\ ~crashed
  /\ kind[s] = "none"
  /\ f \in Fds \ open
  /\ Put(s, k, f, p, TRUE)
  /\ open' = open \union {f}
  /\ UNCHANGED <<raw, names, crashed, usurped>>

Connect(s, f) == Create(s, f, "connecting", NoPath)
BindStart(s, f, p) == Create(s, f, "binding", p)

ConnectOk(s) ==
  /\ ~crashed
  /\ kind[s] = "connecting"
  /\ Put(s, "socket", fd[s], NoPath, TRUE)
  /\ UNCHANGED <<open, raw, names, crashed, usurped>>

\* socket_fd goes out of scope.
ConnectFails(s) ==
  /\ ~crashed
  /\ kind[s] = "connecting"
  /\ Put(s, "none", NoFd, NoPath, FALSE)
  /\ open' = Closed(s)
  /\ UNCHANGED <<raw, names, crashed, usurped>>

BindOk(s) ==
  /\ ~crashed
  /\ kind[s] = "binding"
  /\ names[path[s]] = "free"
  /\ kind' = [kind EXCEPT ![s] = "bound"]
  /\ names' = [names EXCEPT ![path[s]] = "ours"]
  /\ usurped' = IF HasOwner(path[s]) THEN usurped ELSE usurped \ {path[s]}
  /\ UNCHANGED <<fd, path, posix, open, raw, crashed>>

\* A slip: the path's scope guard is built before ::bind.
BindFailsGuarded(s) ==
  /\ ~crashed
  /\ kind[s] = "binding"
  /\ Put(s, "none", NoFd, NoPath, FALSE)
  /\ open' = Closed(s)
  /\ names' = Unlinked(s)
  /\ UNCHANGED <<raw, crashed, usurped>>

\* EADDRINUSE or any other error
BindFails(s) ==
  /\ ~crashed
  /\ kind[s] = "binding"
  /\ Put(s, "none", NoFd, NoPath, FALSE)
  /\ open' = Closed(s)
  /\ UNCHANGED <<raw, names, crashed, usurped>>

ListenOk(s) ==
  /\ ~crashed
  /\ kind[s] = "bound"
  /\ kind' = [kind EXCEPT ![s] = "listener"]
  /\ UNCHANGED <<fd, path, posix, open, raw, names, crashed, usurped>>

\* A slip: no scope guard for the path.
ListenFailsUnguarded(s) ==
  /\ ~crashed
  /\ kind[s] = "bound"
  /\ Put(s, "none", NoFd, NoPath, FALSE)
  /\ open' = Closed(s)
  /\ UNCHANGED <<raw, names, crashed, usurped>>

\* SocketPathCleanup unlinks, socket_fd closes.
ListenFails(s) ==
  /\ ~crashed
  /\ kind[s] = "bound"
  /\ Put(s, "none", NoFd, NoPath, FALSE)
  /\ open' = Closed(s)
  /\ names' = Unlinked(s)
  /\ UNCHANGED <<raw, crashed, usurped>>

-----------------------------------------------------------------------------
\* OwnedFileDescriptor::adopt_native_handle and release_native_handle: the
\* caller's own descriptors.
AdoptRaw(d, f) ==
  /\ ~crashed
  /\ kind[d] = "none"
  /\ f \in raw
  /\ Put(d, "fd", f, NoPath, TRUE)
  /\ raw' = raw \ {f}
  /\ UNCHANGED <<open, names, crashed, usurped>>

ReleaseRaw(s) ==
  /\ ~crashed
  /\ kind[s] = "fd" /\ fd[s] # NoFd
  /\ raw' = raw \union {fd[s]}
  /\ fd' = [fd EXCEPT ![s] = NoFd]
  /\ UNCHANGED <<kind, path, posix, open, names, crashed, usurped>>

\* UnixSocket::adopt_native_handle: the descriptor moves into the parameter.
AdoptSocket(s, d) ==
  /\ ~crashed
  /\ kind[s] = "fd" /\ fd[s] # NoFd /\ kind[d] = "none"
  /\ Transfer(s, d, "socket", NoPath, FALSE)
  /\ UNCHANGED <<open, raw, names, crashed, usurped>>

\* A slip: a refused descriptor is dropped, not closed.
AdoptRefusedLeaks(s) ==
  /\ ~crashed
  /\ kind[s] = "fd"
  /\ Put(s, "fd", NoFd, NoPath, FALSE)
  /\ UNCHANGED <<open, raw, names, crashed, usurped>>

\* It is closed, or no Unix stream socket: the parameter is destroyed.
AdoptRefused(s) ==
  /\ ~crashed
  /\ kind[s] = "fd"
  /\ Put(s, "fd", NoFd, NoPath, FALSE)
  /\ open' = Closed(s)
  /\ UNCHANGED <<raw, names, crashed, usurped>>

\* accept of a listener that was not moved from; one that fails, or whose
\* descriptor is refused and closed again, changes nothing.
Accept(s, d, f) ==
  /\ ~crashed
  /\ kind[s] = "listener" /\ posix[s] /\ fd[s] # NoFd
  /\ kind[d] = "none"
  /\ f \in Fds \ open
  /\ Put(d, "socket", f, NoPath, TRUE)
  /\ open' = open \union {f}
  /\ UNCHANGED <<raw, names, crashed, usurped>>

\* release_native_handle of a socket or a listener
Release(s, d) ==
  /\ ~crashed
  /\ kind[s] \in {"socket", "listener"} /\ kind[d] = "none"
  /\ Transfer(s, d, "fd", NoPath, TRUE)
  /\ names' = Unlinked(s)
  /\ UNCHANGED <<open, raw, crashed, usurped>>

\* close()
Close(s) ==
  /\ ~crashed
  /\ kind[s] \in Objects
  /\ fd' = [fd EXCEPT ![s] = NoFd]
  /\ path' = [path EXCEPT ![s] = NoPath]
  /\ open' = Closed(s)
  /\ names' = Unlinked(s)
  /\ UNCHANGED <<kind, posix, raw, crashed, usurped>>

Destroy(s) ==
  /\ ~crashed
  /\ kind[s] \in Objects
  /\ Put(s, "none", NoFd, NoPath, FALSE)
  /\ open' = Closed(s)
  /\ names' = Unlinked(s)
  /\ UNCHANGED <<raw, crashed, usurped>>

\* A slip: bound_path is copied, so the source keeps its name too.
MoveCopiesPath(s, d) ==
  /\ ~crashed
  /\ kind[s] \in Objects /\ kind[d] = "none"
  /\ kind' = [kind EXCEPT ![d] = kind[s]]
  /\ fd' = [fd EXCEPT ![d] = fd[s], ![s] = NoFd]
  /\ path' = [path EXCEPT ![d] = path[s]]
  /\ posix' = [posix EXCEPT ![d] = posix[s], ![s] = FALSE]
  /\ UNCHANGED <<open, raw, names, crashed, usurped>>

Move(s, d) ==
  /\ ~crashed
  /\ kind[s] \in Objects /\ kind[d] = "none"
  /\ Transfer(s, d, kind[s], path[s], FALSE)
  /\ UNCHANGED <<open, raw, names, crashed, usurped>>

\* operator=: d closes what it had, and takes.
MoveAssign(s, d) ==
  /\ ~crashed
  /\ s # d /\ kind[s] \in Objects /\ kind[d] = kind[s]
  /\ Transfer(s, d, kind[s], path[s], FALSE)
  /\ open' = Closed(d)
  /\ names' = Unlinked(d)
  /\ UNCHANGED <<raw, crashed, usurped>>

\* read_some, write_some, shutdown, accept: they call through the facade
\* before they look at the descriptor.
UseMovedFrom(s) ==
  /\ ~crashed
  /\ kind[s] \in {"socket", "listener"}
  /\ ~posix[s]
  /\ crashed' = TRUE
  /\ UNCHANGED <<objVars, open, raw, names, usurped>>

-----------------------------------------------------------------------------
\* external: descriptors from elsewhere, and other processes' paths.  They may
\* remove a path that a listener has bound, and bind it themselves.
RawArrives(f) ==
  /\ f \in Fds \ open
  /\ open' = open \union {f} /\ raw' = raw \union {f}
  /\ UNCHANGED <<objVars, names, crashed, usurped>>

RawCloses(f) ==
  /\ f \in raw
  /\ open' = open \ {f} /\ raw' = raw \ {f}
  /\ UNCHANGED <<objVars, names, crashed, usurped>>

OtherBinds(p) ==
  /\ names[p] = "free"
  /\ names' = [names EXCEPT ![p] = "foreign"]
  /\ UNCHANGED <<objVars, open, raw, crashed, usurped>>

OtherUnlinks(p) ==
  /\ names[p] # "free"
  /\ names' = [names EXCEPT ![p] = "free"]
  /\ usurped' = IF names[p] = "ours" THEN usurped \union {p} ELSE usurped
  /\ UNCHANGED <<objVars, open, raw, crashed>>

Environment ==
  \/ \E f \in Fds : RawArrives(f) \/ RawCloses(f)
  \/ \E p \in Paths : OtherBinds(p) \/ OtherUnlinks(p)

Library ==
  \/ \E s \in Slots, f \in Fds : Connect(s, f) \/ AdoptRaw(s, f)
                                 \/ \E p \in Paths : BindStart(s, f, p)
  \/ \E s \in Slots : \/ ConnectOk(s) \/ ConnectFails(s)
                      \/ BindOk(s) \/ BindFails(s) \/ ListenOk(s) \/ ListenFails(s)
                      \/ ReleaseRaw(s) \/ AdoptRefused(s)
                      \/ Close(s) \/ Destroy(s) \/ UseMovedFrom(s)
  \/ \E s, d \in Slots : \/ AdoptSocket(s, d) \/ Release(s, d)
                         \/ Move(s, d) \/ MoveAssign(s, d)
                         \/ \E f \in Fds : Accept(s, d, f)

Next == Library \/ Environment

Spec == Init /\ [][Next]_vars

-----------------------------------------------------------------------------
\* Every open descriptor has one owner, an object, a call or the caller, and
\* no owner holds one that is closed: nothing leaks and nothing is closed
\* twice, though the kernel reuses the numbers.
ExclusiveOwners ==
  /\ \A s \in Slots : fd[s] # NoFd => fd[s] \in open \ raw
  /\ \A s, d \in Slots : s # d /\ fd[s] = fd[d] => fd[s] = NoFd
  /\ \A f \in open \ raw : \E s \in Slots : fd[s] = f

\* What close() still has to close or to unlink, it can: the facade is there.
CanCleanUp == \A s \in Slots : fd[s] # NoFd \/ path[s] # NoPath => posix[s]

\* "If bind() succeeds but listen() fails, an internal scope guard removes the
\* newly created path" (socket_library_design.md): a path that the process
\* created has an owner, which will remove it.  It has one owner, and is there,
\* unless somebody removed it under a listener; a bind that finds no such
\* listener left makes that good.
PathsHaveOwners ==
  /\ \A p \in Paths : names[p] = "ours" => HasOwner(p)
  /\ \A s \in Slots : OwnsPath(s) /\ path[s] \notin usurped => names[path[s]] = "ours"
  /\ \A s, d \in Slots :
       s # d /\ OwnsPath(s) /\ OwnsPath(d) /\ path[s] = path[d] => path[s] \in usurped

\* "It never removes an existing directory entry" (socket_library_design.md):
\* no step of the library touches a path that another process bound.  The
\* exception is a path that somebody took away from a listener: close() removes
\* it by its name, whoever has it by then.
ForeignPathsSafe ==
  [][\A p \in Paths \ usurped : names[p] = "foreign" =>
       names'[p] = "foreign" \/ OtherUnlinks(p)]_vars
=============================================================================
