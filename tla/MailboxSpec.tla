---------------------------- MODULE MailboxSpec ----------------------------
(***************************************************************************)
(* What a waitable queue promises its users, with no eventfd and no        *)
(* sleeping: items of one producer leave in the order they came, each at   *)
(* most once, and no item stays for ever.                                  *)
(***************************************************************************)
EXTENDS Naturals, Sequences

CONSTANT Producers

VARIABLES
  box,     \* the items of each producer that are waiting, oldest first
  out      \* the items of each producer that were taken, in order

vars == <<box, out>>

Init ==
  /\ box = [p \in Producers |-> << >>]
  /\ out = [p \in Producers |-> << >>]

\* Items are numbered: the next one of p follows the ones waiting and taken.
Put(p) ==
  /\ box' = [box EXCEPT ![p] = Append(@, Len(box[p]) + Len(out[p]) + 1)]
  /\ UNCHANGED out

Take(p) ==
  /\ box[p] # << >>
  /\ out' = [out EXCEPT ![p] = Append(@, Head(box[p]))]
  /\ box' = [box EXCEPT ![p] = Tail(@)]

Next == \E p \in Producers : Put(p) \/ Take(p)

Spec == Init /\ [][Next]_vars
FairSpec == Spec /\ \A p \in Producers : WF_vars(Take(p))
=============================================================================
