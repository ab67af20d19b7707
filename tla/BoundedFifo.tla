---------------------------- MODULE BoundedFifo -----------------------------
(***************************************************************************)
(* What ring_buffer promises: a queue of at most Capacity values, that     *)
(* gives every value out once, in the order in which they were put in.     *)
(***************************************************************************)
EXTENDS Integers, Sequences

CONSTANTS Capacity, Values

VARIABLES
  queue,        (* values in the queue, oldest first                       *)
  taken         (* values taken out, in order                              *)

fifoVars == <<queue, taken>>

Init == queue = <<>> /\ taken = <<>>

\* A value nobody has put in before.
Put(v) ==
  /\ Len(queue) < Capacity
  /\ \A k \in 1 .. Len(queue) : queue[k] # v
  /\ \A k \in 1 .. Len(taken) : taken[k] # v
  /\ queue' = Append(queue, v)
  /\ UNCHANGED taken

Take ==
  /\ queue # <<>>
  /\ taken' = Append(taken, Head(queue))
  /\ queue' = Tail(queue)

Next == Take \/ \E v \in Values : Put(v)

Spec == Init /\ [][Next]_fifoVars
=============================================================================
