----------------------------- MODULE UploadLedger ----------------------------
(***************************************************************************)
(* What the document endpoints promise: an upload appears, ready, in one   *)
(* step that takes one of its owner's slots of one day, or not at all; a   *)
(* document disappears in one step, and its slot stays taken.              *)
(***************************************************************************)
EXTENDS Integers

CONSTANTS Users, Ids, Days, Quota

VARIABLES
  shelf, \* the ready documents, each with its owner
  used   \* the slots each user has taken on each day

Init ==
  /\ shelf = {}
  /\ used  = [u \in Users |-> [d \in Days |-> 0]]

Store(u, i, d) ==
  /\ used[u][d] < Quota
  /\ used' = [used EXCEPT ![u][d] = @ + 1]
  /\ \A v \in Users : <<v, i>> \notin shelf
  /\ shelf' = shelf \cup {<<u, i>>}

Remove(u, i) ==
  /\ <<u, i>> \in shelf
  /\ shelf' = shelf \ {<<u, i>>}
  /\ UNCHANGED used

Next == \E u \in Users, i \in Ids : Remove(u, i) \/ \E d \in Days : Store(u, i, d)

Spec == Init /\ [][Next]_<<shelf, used>>
==============================================================================
