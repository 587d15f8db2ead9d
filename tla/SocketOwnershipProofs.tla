---------------------- MODULE SocketOwnershipProofs ----------------------
(***************************************************************************)
(* Descriptors and paths have one owner each, for any number of objects,   *)
(* descriptors and paths.                                                  *)
(***************************************************************************)
EXTENDS SocketOwnership, TLAPS

Types ==
  /\ kind \in [Slots -> Kinds]
  /\ fd \in [Slots -> Fds \union {NoFd}]
  /\ path \in [Slots -> Paths \union {NoPath}]
  /\ posix \in [Slots -> BOOLEAN]
  /\ open \subseteq Fds
  /\ raw \subseteq open
  /\ names \in [Paths -> {"free", "ours", "foreign"}]
  /\ usurped \subseteq Paths

\* What an object of each kind holds: a call in progress has its descriptor
\* and its facade, and only a listener, or a call of bind, has a path.
Shapes ==
  \A s \in Slots :
    /\ kind[s] \in Calls => fd[s] # NoFd /\ posix[s]
    /\ kind[s] \in {"binding", "bound"} => path[s] \in Paths
    /\ kind[s] \in {"none", "fd", "socket", "connecting"} => path[s] = NoPath
    /\ kind[s] = "none" => fd[s] = NoFd

\* The inductive invariant.
Owned == Types /\ Shapes /\ ExclusiveOwners /\ CanCleanUp /\ PathsHaveOwners

USE OwnershipAssumption DEF Kinds, Objects, Calls

\* The initial states satisfy the inductive invariant.
LEMMA InitOwned == Init => Owned
  BY DEF Init, Owned, Types, Shapes, ExclusiveOwners, CanCleanUp, PathsHaveOwners, OwnsPath, HasOwner

\* Connect keeps it.
LEMMA ConnectKeeps ==
  ASSUME NEW s \in Slots, NEW f \in Fds, Owned, Connect(s, f)
  PROVE  Owned'
<1>1. Types' /\ Shapes'
  BY DEF Owned, Types, Shapes, ExclusiveOwners, Connect, Create, Put
<1>2. ExclusiveOwners'
  BY DEF Owned, Types, Shapes, ExclusiveOwners, Connect, Create, Put
<1>3. CanCleanUp'
  BY DEF Owned, Types, Shapes, CanCleanUp, Connect, Create, Put
<1>4. PathsHaveOwners'
  BY DEF Owned, Types, Shapes, PathsHaveOwners, OwnsPath, HasOwner, Connect, Create, Put
<1>. QED
  BY <1>1, <1>2, <1>3, <1>4 DEF Owned

\* BindStart keeps it.
LEMMA BindStartKeeps ==
  ASSUME NEW s \in Slots, NEW f \in Fds, NEW p \in Paths, Owned, BindStart(s, f, p)
  PROVE  Owned'
<1>1. Types' /\ Shapes'
  BY DEF Owned, Types, Shapes, ExclusiveOwners, BindStart, Create, Put
<1>2. ExclusiveOwners'
  BY DEF Owned, Types, Shapes, ExclusiveOwners, BindStart, Create, Put
<1>3. CanCleanUp'
  BY DEF Owned, Types, Shapes, CanCleanUp, BindStart, Create, Put
<1>4. PathsHaveOwners'
  BY DEF Owned, Types, Shapes, PathsHaveOwners, OwnsPath, HasOwner, BindStart, Create, Put
<1>. QED
  BY <1>1, <1>2, <1>3, <1>4 DEF Owned

\* AdoptRaw keeps it.
LEMMA AdoptRawKeeps ==
  ASSUME NEW s \in Slots, NEW f \in Fds, Owned, AdoptRaw(s, f)
  PROVE  Owned'
<1>1. Types' /\ Shapes'
  BY DEF Owned, Types, Shapes, ExclusiveOwners, AdoptRaw, Put
<1>2. ExclusiveOwners'
  BY DEF Owned, Types, Shapes, ExclusiveOwners, AdoptRaw, Put
<1>3. CanCleanUp'
  BY DEF Owned, Types, Shapes, CanCleanUp, AdoptRaw, Put
<1>4. PathsHaveOwners'
  BY DEF Owned, Types, Shapes, PathsHaveOwners, OwnsPath, HasOwner, AdoptRaw, Put
<1>. QED
  BY <1>1, <1>2, <1>3, <1>4 DEF Owned

\* ConnectOk keeps it.
LEMMA ConnectOkKeeps ==
  ASSUME NEW s \in Slots, Owned, ConnectOk(s)
  PROVE  Owned'
<1>1. Types' /\ Shapes'
  BY DEF Owned, Types, Shapes, ExclusiveOwners, ConnectOk, Put
<1>2. ExclusiveOwners'
  BY DEF Owned, Types, Shapes, ExclusiveOwners, ConnectOk, Put
<1>3. CanCleanUp'
  BY DEF Owned, Types, Shapes, CanCleanUp, ConnectOk, Put
<1>4. PathsHaveOwners'
  BY DEF Owned, Types, Shapes, PathsHaveOwners, OwnsPath, HasOwner, ConnectOk, Put
<1>. QED
  BY <1>1, <1>2, <1>3, <1>4 DEF Owned

\* ConnectFails keeps it.
LEMMA ConnectFailsKeeps ==
  ASSUME NEW s \in Slots, Owned, ConnectFails(s)
  PROVE  Owned'
<1>1. Types' /\ Shapes'
  BY DEF Owned, Types, Shapes, ExclusiveOwners, ConnectFails, Put, Closed
<1>2. ExclusiveOwners'
  BY DEF Owned, Types, Shapes, ExclusiveOwners, ConnectFails, Put, Closed
<1>3. CanCleanUp'
  BY DEF Owned, Types, Shapes, CanCleanUp, ConnectFails, Put, Closed
<1>4. PathsHaveOwners'
  BY DEF Owned, Types, Shapes, PathsHaveOwners, OwnsPath, HasOwner, ConnectFails, Put, Closed
<1>. QED
  BY <1>1, <1>2, <1>3, <1>4 DEF Owned

\* BindOk keeps it.
LEMMA BindOkKeeps ==
  ASSUME NEW s \in Slots, Owned, BindOk(s)
  PROVE  Owned'
<1>1. Types' /\ Shapes'
  BY DEF Owned, Types, Shapes, ExclusiveOwners, BindOk
<1>2. ExclusiveOwners'
  BY DEF Owned, Types, Shapes, ExclusiveOwners, BindOk
<1>3. CanCleanUp'
  BY DEF Owned, Types, Shapes, CanCleanUp, BindOk
<1>4. PathsHaveOwners'
  BY DEF Owned, Types, Shapes, PathsHaveOwners, OwnsPath, HasOwner, BindOk
<1>. QED
  BY <1>1, <1>2, <1>3, <1>4 DEF Owned

\* BindFails keeps it.
LEMMA BindFailsKeeps ==
  ASSUME NEW s \in Slots, Owned, BindFails(s)
  PROVE  Owned'
<1>1. Types' /\ Shapes'
  BY DEF Owned, Types, Shapes, ExclusiveOwners, BindFails, Put, Closed
<1>2. ExclusiveOwners'
  BY DEF Owned, Types, Shapes, ExclusiveOwners, BindFails, Put, Closed
<1>3. CanCleanUp'
  BY DEF Owned, Types, Shapes, CanCleanUp, BindFails, Put, Closed
<1>4. PathsHaveOwners'
  BY DEF Owned, Types, Shapes, PathsHaveOwners, OwnsPath, HasOwner, BindFails, Put, Closed
<1>. QED
  BY <1>1, <1>2, <1>3, <1>4 DEF Owned

\* ListenOk keeps it.
LEMMA ListenOkKeeps ==
  ASSUME NEW s \in Slots, Owned, ListenOk(s)
  PROVE  Owned'
<1>1. Types' /\ Shapes'
  BY DEF Owned, Types, Shapes, ExclusiveOwners, ListenOk
<1>2. ExclusiveOwners'
  BY DEF Owned, Types, Shapes, ExclusiveOwners, ListenOk
<1>3. CanCleanUp'
  BY DEF Owned, Types, Shapes, CanCleanUp, ListenOk
<1>4. PathsHaveOwners'
  BY DEF Owned, Types, Shapes, PathsHaveOwners, OwnsPath, HasOwner, ListenOk
<1>. QED
  BY <1>1, <1>2, <1>3, <1>4 DEF Owned

\* ListenFails keeps it.
LEMMA ListenFailsKeeps ==
  ASSUME NEW s \in Slots, Owned, ListenFails(s)
  PROVE  Owned'
<1>1. Types' /\ Shapes'
  BY DEF Owned, Types, Shapes, ExclusiveOwners, ListenFails, Put, Closed, Unlinked
<1>2. ExclusiveOwners'
  BY DEF Owned, Types, Shapes, ExclusiveOwners, ListenFails, Put, Closed, Unlinked
<1>3. CanCleanUp'
  BY DEF Owned, Types, Shapes, CanCleanUp, ListenFails, Put, Closed, Unlinked
<1>4. PathsHaveOwners'
  BY DEF Owned, Types, Shapes, PathsHaveOwners, OwnsPath, HasOwner, ListenFails, Put, Closed, Unlinked
<1>. QED
  BY <1>1, <1>2, <1>3, <1>4 DEF Owned

\* ReleaseRaw keeps it.
LEMMA ReleaseRawKeeps ==
  ASSUME NEW s \in Slots, Owned, ReleaseRaw(s)
  PROVE  Owned'
<1>1. Types' /\ Shapes'
  BY DEF Owned, Types, Shapes, ExclusiveOwners, ReleaseRaw
<1>2. ExclusiveOwners'
  BY DEF Owned, Types, Shapes, ExclusiveOwners, ReleaseRaw
<1>3. CanCleanUp'
  BY DEF Owned, Types, Shapes, CanCleanUp, ReleaseRaw
<1>4. PathsHaveOwners'
  BY DEF Owned, Types, Shapes, PathsHaveOwners, OwnsPath, HasOwner, ReleaseRaw
<1>. QED
  BY <1>1, <1>2, <1>3, <1>4 DEF Owned

\* AdoptRefused keeps it.
LEMMA AdoptRefusedKeeps ==
  ASSUME NEW s \in Slots, Owned, AdoptRefused(s)
  PROVE  Owned'
<1>1. Types' /\ Shapes'
  BY DEF Owned, Types, Shapes, ExclusiveOwners, AdoptRefused, Put, Closed
<1>2. ExclusiveOwners'
  BY DEF Owned, Types, Shapes, ExclusiveOwners, AdoptRefused, Put, Closed
<1>3. CanCleanUp'
  BY DEF Owned, Types, Shapes, CanCleanUp, AdoptRefused, Put, Closed
<1>4. PathsHaveOwners'
  BY DEF Owned, Types, Shapes, PathsHaveOwners, OwnsPath, HasOwner, AdoptRefused, Put, Closed
<1>. QED
  BY <1>1, <1>2, <1>3, <1>4 DEF Owned

\* Close keeps it.
LEMMA CloseKeeps ==
  ASSUME NEW s \in Slots, Owned, Close(s)
  PROVE  Owned'
<1>1. Types' /\ Shapes'
  BY DEF Owned, Types, Shapes, ExclusiveOwners, Close, Closed, Unlinked
<1>2. ExclusiveOwners'
  BY DEF Owned, Types, Shapes, ExclusiveOwners, Close, Closed, Unlinked
<1>3. CanCleanUp'
  BY DEF Owned, Types, Shapes, CanCleanUp, Close, Closed, Unlinked
<1>4. PathsHaveOwners'
  BY DEF Owned, Types, Shapes, PathsHaveOwners, OwnsPath, HasOwner, Close, Closed, Unlinked
<1>. QED
  BY <1>1, <1>2, <1>3, <1>4 DEF Owned

\* Destroy keeps it.
LEMMA DestroyKeeps ==
  ASSUME NEW s \in Slots, Owned, Destroy(s)
  PROVE  Owned'
<1>1. Types' /\ Shapes'
  BY DEF Owned, Types, Shapes, ExclusiveOwners, Destroy, Put, Closed, Unlinked
<1>2. ExclusiveOwners'
  BY DEF Owned, Types, Shapes, ExclusiveOwners, Destroy, Put, Closed, Unlinked
<1>3. CanCleanUp'
  BY DEF Owned, Types, Shapes, CanCleanUp, Destroy, Put, Closed, Unlinked
<1>4. PathsHaveOwners'
  BY DEF Owned, Types, Shapes, PathsHaveOwners, OwnsPath, HasOwner, Destroy, Put, Closed, Unlinked
<1>. QED
  BY <1>1, <1>2, <1>3, <1>4 DEF Owned

\* UseMovedFrom keeps it.
LEMMA UseMovedFromKeeps ==
  ASSUME NEW s \in Slots, Owned, UseMovedFrom(s)
  PROVE  Owned'
<1>1. Types' /\ Shapes'
  BY DEF Owned, Types, Shapes, ExclusiveOwners, UseMovedFrom, objVars
<1>2. ExclusiveOwners'
  BY DEF Owned, Types, Shapes, ExclusiveOwners, UseMovedFrom, objVars
<1>3. CanCleanUp'
  BY DEF Owned, Types, Shapes, CanCleanUp, UseMovedFrom, objVars
<1>4. PathsHaveOwners'
  BY DEF Owned, Types, Shapes, PathsHaveOwners, OwnsPath, HasOwner, UseMovedFrom, objVars
<1>. QED
  BY <1>1, <1>2, <1>3, <1>4 DEF Owned

\* AdoptSocket keeps it.
LEMMA AdoptSocketKeeps ==
  ASSUME NEW s \in Slots, NEW d \in Slots, Owned, AdoptSocket(s, d)
  PROVE  Owned'
<1>1. Types' /\ Shapes'
  BY DEF Owned, Types, Shapes, ExclusiveOwners, AdoptSocket, Transfer
<1>2. ExclusiveOwners'
  BY DEF Owned, Types, Shapes, ExclusiveOwners, AdoptSocket, Transfer
<1>3. CanCleanUp'
  BY DEF Owned, Types, Shapes, CanCleanUp, AdoptSocket, Transfer
<1>4. PathsHaveOwners'
  BY DEF Owned, Types, Shapes, PathsHaveOwners, OwnsPath, HasOwner, AdoptSocket, Transfer
<1>. QED
  BY <1>1, <1>2, <1>3, <1>4 DEF Owned

\* Release keeps it.
LEMMA ReleaseKeeps ==
  ASSUME NEW s \in Slots, NEW d \in Slots, Owned, Release(s, d)
  PROVE  Owned'
<1>1. Types' /\ Shapes'
  BY DEF Owned, Types, Shapes, ExclusiveOwners, Release, Transfer, Unlinked
<1>2. ExclusiveOwners'
  BY DEF Owned, Types, Shapes, ExclusiveOwners, Release, Transfer, Unlinked
<1>3. CanCleanUp'
  BY DEF Owned, Types, Shapes, CanCleanUp, Release, Transfer, Unlinked
<1>4. PathsHaveOwners'
  BY DEF Owned, Types, Shapes, PathsHaveOwners, OwnsPath, HasOwner, Release, Transfer, Unlinked
<1>. QED
  BY <1>1, <1>2, <1>3, <1>4 DEF Owned

\* Move keeps it.
LEMMA MoveKeeps ==
  ASSUME NEW s \in Slots, NEW d \in Slots, Owned, Move(s, d)
  PROVE  Owned'
<1>1. Types' /\ Shapes'
  BY DEF Owned, Types, Shapes, ExclusiveOwners, Move, Transfer
<1>2. ExclusiveOwners'
  BY DEF Owned, Types, Shapes, ExclusiveOwners, Move, Transfer
<1>3. CanCleanUp'
  BY DEF Owned, Types, Shapes, CanCleanUp, Move, Transfer
<1>4. PathsHaveOwners'
  BY DEF Owned, Types, Shapes, PathsHaveOwners, OwnsPath, HasOwner, Move, Transfer
<1>. QED
  BY <1>1, <1>2, <1>3, <1>4 DEF Owned

\* MoveAssign keeps it.
LEMMA MoveAssignKeeps ==
  ASSUME NEW s \in Slots, NEW d \in Slots, Owned, MoveAssign(s, d)
  PROVE  Owned'
<1>1. Types' /\ Shapes'
  BY DEF Owned, Types, Shapes, ExclusiveOwners, MoveAssign, Transfer, Closed, Unlinked
<1>2. ExclusiveOwners'
  BY DEF Owned, Types, Shapes, ExclusiveOwners, MoveAssign, Transfer, Closed, Unlinked
<1>3. CanCleanUp'
  BY DEF Owned, Types, Shapes, CanCleanUp, MoveAssign, Transfer, Closed, Unlinked
<1>4. PathsHaveOwners'
  BY DEF Owned, Types, Shapes, PathsHaveOwners, OwnsPath, HasOwner, MoveAssign, Transfer, Closed, Unlinked
<1>. QED
  BY <1>1, <1>2, <1>3, <1>4 DEF Owned

\* Accept keeps it.
LEMMA AcceptKeeps ==
  ASSUME NEW s \in Slots, NEW d \in Slots, NEW f \in Fds, Owned, Accept(s, d, f)
  PROVE  Owned'
<1>1. Types' /\ Shapes'
  BY DEF Owned, Types, Shapes, ExclusiveOwners, Accept, Put
<1>2. ExclusiveOwners'
  BY DEF Owned, Types, Shapes, ExclusiveOwners, Accept, Put
<1>3. CanCleanUp'
  BY DEF Owned, Types, Shapes, CanCleanUp, Accept, Put
<1>4. PathsHaveOwners'
  BY DEF Owned, Types, Shapes, PathsHaveOwners, OwnsPath, HasOwner, Accept, Put
<1>. QED
  BY <1>1, <1>2, <1>3, <1>4 DEF Owned

\* RawArrives keeps it.
LEMMA RawArrivesKeeps ==
  ASSUME NEW f \in Fds, Owned, RawArrives(f)
  PROVE  Owned'
<1>1. Types' /\ Shapes'
  BY DEF Owned, Types, Shapes, ExclusiveOwners, RawArrives, objVars
<1>2. ExclusiveOwners'
  BY DEF Owned, Types, Shapes, ExclusiveOwners, RawArrives, objVars
<1>3. CanCleanUp'
  BY DEF Owned, Types, Shapes, CanCleanUp, RawArrives, objVars
<1>4. PathsHaveOwners'
  BY DEF Owned, Types, Shapes, PathsHaveOwners, OwnsPath, HasOwner, RawArrives, objVars
<1>. QED
  BY <1>1, <1>2, <1>3, <1>4 DEF Owned

\* RawCloses keeps it.
LEMMA RawClosesKeeps ==
  ASSUME NEW f \in Fds, Owned, RawCloses(f)
  PROVE  Owned'
<1>1. Types' /\ Shapes'
  BY DEF Owned, Types, Shapes, ExclusiveOwners, RawCloses, objVars
<1>2. ExclusiveOwners'
  BY DEF Owned, Types, Shapes, ExclusiveOwners, RawCloses, objVars
<1>3. CanCleanUp'
  BY DEF Owned, Types, Shapes, CanCleanUp, RawCloses, objVars
<1>4. PathsHaveOwners'
  BY DEF Owned, Types, Shapes, PathsHaveOwners, OwnsPath, HasOwner, RawCloses, objVars
<1>. QED
  BY <1>1, <1>2, <1>3, <1>4 DEF Owned

\* OtherBinds keeps it.
LEMMA OtherBindsKeeps ==
  ASSUME NEW p \in Paths, Owned, OtherBinds(p)
  PROVE  Owned'
<1>1. Types' /\ Shapes'
  BY DEF Owned, Types, Shapes, ExclusiveOwners, OtherBinds, objVars
<1>2. ExclusiveOwners'
  BY DEF Owned, Types, Shapes, ExclusiveOwners, OtherBinds, objVars
<1>3. CanCleanUp'
  BY DEF Owned, Types, Shapes, CanCleanUp, OtherBinds, objVars
<1>4. PathsHaveOwners'
  BY DEF Owned, Types, Shapes, PathsHaveOwners, OwnsPath, HasOwner, OtherBinds, objVars
<1>. QED
  BY <1>1, <1>2, <1>3, <1>4 DEF Owned

\* OtherUnlinks keeps it.
LEMMA OtherUnlinksKeeps ==
  ASSUME NEW p \in Paths, Owned, OtherUnlinks(p)
  PROVE  Owned'
<1>1. Types' /\ Shapes'
  BY DEF Owned, Types, Shapes, ExclusiveOwners, OtherUnlinks, objVars
<1>2. ExclusiveOwners'
  BY DEF Owned, Types, Shapes, ExclusiveOwners, OtherUnlinks, objVars
<1>3. CanCleanUp'
  BY DEF Owned, Types, Shapes, CanCleanUp, OtherUnlinks, objVars
<1>4. PathsHaveOwners'
  BY DEF Owned, Types, Shapes, PathsHaveOwners, OwnsPath, HasOwner, OtherUnlinks, objVars
<1>. QED
  BY <1>1, <1>2, <1>3, <1>4 DEF Owned

\* A step that changes nothing keeps it.
LEMMA StutterKeeps == Owned /\ UNCHANGED vars => Owned'
  BY DEF Owned, Types, Shapes, ExclusiveOwners, CanCleanUp, PathsHaveOwners,
         OwnsPath, HasOwner, vars, objVars

\* Every step of the library and of its surroundings keeps it.
LEMMA NextOwned == Owned /\ [Next]_vars => Owned'
<1>. SUFFICES ASSUME Owned, [Next]_vars PROVE Owned'
  OBVIOUS
<1>1. CASE Library
  BY <1>1, Zenon, ConnectKeeps, BindStartKeeps, AdoptRawKeeps, ConnectOkKeeps,
     ConnectFailsKeeps, BindOkKeeps, BindFailsKeeps, ListenOkKeeps,
     ListenFailsKeeps, ReleaseRawKeeps, AdoptRefusedKeeps, CloseKeeps,
     DestroyKeeps, UseMovedFromKeeps, AdoptSocketKeeps, ReleaseKeeps,
     MoveKeeps, MoveAssignKeeps, AcceptKeeps DEF Library
<1>2. CASE Environment
  BY <1>2, Zenon, RawArrivesKeeps, RawClosesKeeps, OtherBindsKeeps,
     OtherUnlinksKeeps DEF Environment
<1>3. CASE UNCHANGED vars
  BY <1>3, StutterKeeps
<1>. QED
  BY <1>1, <1>2, <1>3 DEF Next

\* The inductive invariant holds in every reachable state.
LEMMA AlwaysOwned == Spec => []Owned
  BY InitOwned, NextOwned, PTL DEF Spec

\* ExclusiveOwners for every instance: OwnedFileDescriptor, the sockets and the
\* listeners neither leak a descriptor nor close one twice.
THEOREM DescriptorsHaveOneOwner == Spec => []ExclusiveOwners
<1>1. Owned => ExclusiveOwners
  BY DEF Owned
<1>. QED
  BY <1>1, AlwaysOwned, PTL

\* CanCleanUp for every instance: close() never calls through a null facade.
THEOREM CleanUpIsSafe == Spec => []CanCleanUp
<1>1. Owned => CanCleanUp
  BY DEF Owned
<1>. QED
  BY <1>1, AlwaysOwned, PTL

\* PathsHaveOwners for every instance: a path that the library created is
\* removed by exactly one listener or scope guard.
THEOREM PathsHaveOneOwner == Spec => []PathsHaveOwners
<1>1. Owned => PathsHaveOwners
  BY DEF Owned
<1>. QED
  BY <1>1, AlwaysOwned, PTL

\* A step of the library leaves a foreign path alone: it unlinks what OwnsPath
\* says is its own, and binds what is free.
LEMMA LibrarySparesForeignPaths ==
  ASSUME Owned, Library, NEW q \in Paths \ usurped, names[q] = "foreign"
  PROVE  names'[q] = "foreign"
<1>1. \A s \in Slots : kind[s] \in {"bound"} \union Objects /\ path[s] = q => FALSE
  BY DEF Owned, Types, Shapes, PathsHaveOwners, OwnsPath, HasOwner
<1>2. \A s \in Slots : kind[s] \in {"bound"} \union Objects => Unlinked(s)[q] = "foreign"
  BY <1>1 DEF Unlinked
<1>3. ASSUME NEW s \in Slots, BindOk(s) PROVE names'[q] = "foreign"
  BY <1>3 DEF BindOk, Owned, Types
<1>4. ASSUME NEW s \in Slots, ListenFails(s) \/ Close(s) \/ Destroy(s)
      PROVE  names'[q] = "foreign"
  BY <1>4, <1>2 DEF ListenFails, Close, Destroy
<1>5. ASSUME NEW s \in Slots, NEW d \in Slots, Release(s, d) \/ MoveAssign(s, d)
      PROVE  names'[q] = "foreign"
  BY <1>5, <1>2 DEF Release, MoveAssign
<1>6. ASSUME NEW s \in Slots,
             \/ ConnectOk(s) \/ ConnectFails(s) \/ BindFails(s) \/ ListenOk(s)
             \/ ReleaseRaw(s) \/ AdoptRefused(s) \/ UseMovedFrom(s)
      PROVE  names' = names
  BY <1>6 DEF ConnectOk, ConnectFails, BindFails, ListenOk, ReleaseRaw, AdoptRefused,
              UseMovedFrom
<1>7. ASSUME NEW s \in Slots, NEW d \in Slots, AdoptSocket(s, d) \/ Move(s, d)
      PROVE  names' = names
  BY <1>7 DEF AdoptSocket, Move
<1>8. ASSUME NEW s \in Slots, NEW f \in Fds, Connect(s, f) \/ AdoptRaw(s, f)
      PROVE  names' = names
  BY <1>8 DEF Connect, Create, AdoptRaw
<1>9. ASSUME NEW s \in Slots, NEW f \in Fds, NEW p \in Paths, BindStart(s, f, p)
      PROVE  names' = names
  BY <1>9 DEF BindStart, Create
<1>10. ASSUME NEW s \in Slots, NEW d \in Slots, NEW f \in Fds, Accept(s, d, f)
       PROVE  names' = names
  BY <1>10 DEF Accept
<1>. QED
  BY <1>3, <1>4, <1>5, <1>6, <1>7, <1>8, <1>9, <1>10, Zenon DEF Library

\* ForeignPathsSafe for every instance: neither bind's scope guard nor close()
\* ever removes a path that another process bound.
THEOREM ForeignPathsAreSafe == Spec => ForeignPathsSafe
<1>. DEFINE Spares == \A p \in Paths \ usurped : names[p] = "foreign" =>
                        names'[p] = "foreign" \/ OtherUnlinks(p)
<1>1. Owned /\ [Next]_vars => [Spares]_vars
  <2>. SUFFICES ASSUME Owned, Next PROVE Spares
    OBVIOUS
  <2>1. CASE Library
    BY <2>1, LibrarySparesForeignPaths
  <2>2. CASE Environment
    BY <2>2 DEF Environment, RawArrives, RawCloses, OtherBinds, OtherUnlinks, Owned, Types
  <2>. QED
    BY <2>1, <2>2 DEF Next
<1>. QED
  BY <1>1, AlwaysOwned, PTL DEF Spec, ForeignPathsSafe
=============================================================================
