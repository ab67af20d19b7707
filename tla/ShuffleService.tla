--------------------------- MODULE ShuffleService ---------------------------
(***************************************************************************)
(* What the shuffle promises its users, without packets, PSNs or switch.   *)
(*                                                                         *)
(* A requester posts work requests, each naming a set of items.  Items are *)
(* brought into its memory in any order, and stay there; a work request is *)
(* reported complete, in the order of posting, only when all its items are *)
(* there.  Source: the check at the end of python/simulator.py.            *)
(***************************************************************************)
EXTENDS Integers

CONSTANTS
  Requesters,
  Items,
  WrNum,        (* work requests each requester posts                      *)
  WrOf          (* WrOf[i]: the one that asks for item i, from 0           *)

VARIABLES
  delivered,    (* <<e, i>>: item i has reached requester e                *)
  done          (* done[e]: work requests reported complete to e           *)

serviceVars == <<delivered, done>>

Init == delivered = {} /\ done = [e \in Requesters |-> 0]

Deliver(e, i) ==
  /\ <<e, i>> \notin delivered
  /\ delivered' = delivered \cup {<<e, i>>}
  /\ UNCHANGED done

\* Report the work requests up to number n.
Complete(e, n) ==
  /\ n > done[e]
  /\ \A i \in Items : WrOf[i] < n => <<e, i>> \in delivered
  /\ done' = [done EXCEPT ![e] = n]
  /\ UNCHANGED delivered

Next ==
  \E e \in Requesters :
    \/ \E i \in Items : Deliver(e, i)
    \/ \E n \in 1 .. WrNum : Complete(e, n)

Spec == Init /\ [][Next]_serviceVars
=============================================================================
