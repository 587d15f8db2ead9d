-------------------------- MODULE MCWaitableQueue --------------------------
(***************************************************************************)
(* Small instances of WaitableQueue for TLC.                               *)
(***************************************************************************)
EXTENDS WaitableQueue, TLC

\* Producers are interchangeable, and so are consumers.
ThreadSymmetry == Permutations(Producers) \union Permutations(Consumers)
=============================================================================
