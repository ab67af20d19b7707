----------------------------- MODULE RingBuffer -----------------------------
(***************************************************************************)
(* The lock-free ring buffer under the completion queues of an endpoint.   *)
(*                                                                         *)
(* Source: common/ring_buffer.hpp.  One action per access to the shared    *)
(* atomics, named after the numbers in the source's comments.  The atomics *)
(* are sequentially consistent here: every store to them is a locked       *)
(* instruction of x86, the machine the project is built for.               *)
(***************************************************************************)
EXTENDS Integers, Sequences, FiniteSets

CONSTANTS
  Pushers, Poppers,  \* threads; in an endpoint each ring has one popper
  Cap,               \* cap: length of data; the ring holds Cap - 1 values
  MaxPush,           \* bound: calls of push() in one behaviour
  MaxOvertake        \* how often a thread may be overtaken before its CAS

ASSUME RingAssumption ==
  /\ Cap \in Nat \ {0, 1} /\ MaxPush \in Nat /\ MaxOvertake \in Nat
  /\ Pushers \cap Poppers = {}

Threads == Pushers \cup Poppers
Values == 1 .. MaxPush
Slots == 0 .. Cap - 1
NoValue == 0                      \* what new T[cap] happens to hold

VARIABLES
  data, head, tail, write,        \* the fields of ring_buffer
  pc,                             \* pc[t]: the access thread t does next
  at,                             \* at[t]: the local t, or h, of a call
  val,                            \* val[t]: its val
  overtaken,                      \* moves of that index since the load
  calls,                          \* calls of push() so far, and last value
  taken                           \* values that pop() returned, in order

ringVars == <<data, head, tail, write>>
vars == <<ringVars, pc, at, val, overtaken, calls, taken>>

Init ==
  /\ data = [s \in Slots |-> NoValue]
  /\ head = 0 /\ tail = 0 /\ write = 0
  /\ pc = [t \in Threads |-> "idle"]
  /\ at = [t \in Threads |-> 0]
  /\ val = [t \in Threads |-> NoValue]
  /\ overtaken = [t \in Threads |-> 0]
  /\ calls = 0 /\ taken = <<>>

Succ(s) == (s + 1) % Cap

Goto(t, label) == pc' = [pc EXCEPT ![t] = label]

\* Thread t moves an index others may have loaded and not compared yet.
Overtake(t, others) ==
  /\ \A u \in others \ {t} : overtaken[u] < MaxOvertake
  /\ overtaken' = [u \in Threads |->
                     IF u \in others \ {t} THEN overtaken[u] + 1 ELSE overtaken[u]]

-----------------------------------------------------------------------------
(* push(val)                                                               *)

Pushing == {u \in Pushers : pc[u] \in {"2", "3"}}

CallPush(t) ==
  /\ pc[t] = "idle" /\ calls < MaxPush
  /\ calls' = calls + 1
  /\ val' = [val EXCEPT ![t] = calls + 1]
  /\ Goto(t, "1")
  /\ UNCHANGED <<ringVars, at, overtaken, taken>>

LoadTail(t) ==                                                       \* (1)
  /\ pc[t] = "1"
  /\ at' = [at EXCEPT ![t] = tail]
  /\ overtaken' = [overtaken EXCEPT ![t] = 0]
  /\ Goto(t, "2")
  /\ UNCHANGED <<ringVars, val, calls, taken>>

\* Mutant: the last slot is used too.
CheckFullOff(t) ==
  /\ pc[t] = "2"
  /\ Goto(t, "3")
  /\ UNCHANGED <<ringVars, at, val, overtaken, calls, taken>>

CheckFull(t) ==                                                      \* (2)
  /\ pc[t] = "2"
  /\ Goto(t, IF Succ(at[t]) = head THEN "idle" ELSE "3")
  /\ UNCHANGED <<ringVars, at, val, overtaken, calls, taken>>

\* compare_exchange_weak: takes the slot, or fails, perhaps without reason.
CasTail(t) ==                                                        \* (3)
  /\ pc[t] = "3"
  /\ \/ /\ tail = at[t]
        /\ tail' = Succ(at[t])
        /\ Overtake(t, Pushing)
        /\ Goto(t, "4")
     \/ Goto(t, "1") /\ UNCHANGED <<tail, overtaken>>
  /\ UNCHANGED <<data, head, write, at, val, calls, taken>>

Store(t) ==                                                          \* (4)
  /\ pc[t] = "4"
  /\ data' = [data EXCEPT ![at[t]] = val[t]]
  /\ Goto(t, "5")
  /\ UNCHANGED <<head, tail, write, at, val, overtaken, calls, taken>>

\* Mutant: publishes without waiting for the pushes before.
PublishAtOnce(t) ==
  /\ pc[t] = "5"
  /\ write' = Succ(at[t])
  /\ Goto(t, "idle")
  /\ UNCHANGED <<data, head, tail, at, val, overtaken, calls, taken>>

\* Mutant: publishes whatever has been taken.
PublishAll(t) ==
  /\ pc[t] = "5" /\ write = at[t]
  /\ write' = tail
  /\ Goto(t, "idle")
  /\ UNCHANGED <<data, head, tail, at, val, overtaken, calls, taken>>

\* Spins until write has come to its slot, then returns 0.
CasWrite(t) ==                                                       \* (5)
  /\ pc[t] = "5" /\ write = at[t]
  /\ write' = Succ(at[t])
  /\ Goto(t, "idle")
  /\ UNCHANGED <<data, head, tail, at, val, overtaken, calls, taken>>

-----------------------------------------------------------------------------
(* pop(val)                                                                *)

Popping == {u \in Poppers : pc[u] \in {"7", "8", "9"}}

LoadHead(t) ==                                                       \* (6)
  /\ pc[t] \in {"idle", "6"}
  /\ at' = [at EXCEPT ![t] = head]
  /\ overtaken' = [overtaken EXCEPT ![t] = 0]
  /\ Goto(t, "7")
  /\ UNCHANGED <<ringVars, val, calls, taken>>

CheckEmpty(t) ==                                                     \* (7)
  /\ pc[t] = "7"
  /\ Goto(t, IF at[t] = write THEN "idle" ELSE "8")
  /\ UNCHANGED <<ringVars, at, val, overtaken, calls, taken>>

Read(t) ==                                                           \* (8)
  /\ pc[t] = "8"
  /\ val' = [val EXCEPT ![t] = data[at[t]]]
  /\ Goto(t, "9")
  /\ UNCHANGED <<ringVars, at, overtaken, calls, taken>>

\* Mutant: a plain store in place of the compare-and-swap.
StoreHead(t) ==
  /\ pc[t] = "9"
  /\ head' = Succ(at[t])
  /\ Overtake(t, Popping)
  /\ taken' = Append(taken, val[t])
  /\ Goto(t, "idle")
  /\ UNCHANGED <<data, tail, write, at, val, calls>>

CasHead(t) ==                                                        \* (9)
  /\ pc[t] = "9"
  /\ IF head = at[t]
     THEN /\ head' = Succ(at[t])
          /\ Overtake(t, Popping)
          /\ taken' = Append(taken, val[t])
          /\ Goto(t, "idle")
     ELSE Goto(t, "6") /\ UNCHANGED <<head, overtaken, taken>>
  /\ UNCHANGED <<data, tail, write, at, val, calls>>

-----------------------------------------------------------------------------
Push(t) == LoadTail(t) \/ CheckFull(t) \/ CasTail(t) \/ Store(t) \/ CasWrite(t)
Pop(t) == LoadHead(t) \/ CheckEmpty(t) \/ Read(t) \/ CasHead(t)

Next ==
  \/ \E t \in Pushers : CallPush(t) \/ Push(t)
  \/ \E t \in Poppers : Pop(t)

Spec == Init /\ [][Next]_vars

\* The operating system lets a thread inside push() go on.
FairSpec == Spec /\ \A t \in Pushers : WF_vars(Push(t))

\* The values between two indices, oldest first.
Between(from, to) ==
  [k \in 1 .. (to - from + Cap) % Cap |-> data[(from + k - 1) % Cap]]

(* The ring implements a queue of Cap - 1 values: what is written and not  *)
(* popped is its contents; no value is lost, given out twice, given out    *)
(* before it is stored, or out of order, in any interleaving of pushes and *)
(* pops in which nobody is overtaken by a whole lap.                       *)
Fifo == INSTANCE BoundedFifo WITH
  Capacity <- Cap - 1, Values <- Values, queue <- Between(head, write), taken <- taken
FifoImplemented == Fifo!Spec

(* Two pushes never own the same slot, and no push owns a slot that holds  *)
(* a value not popped yet: a store (4) never meets another one, nor a read *)
(* (8) whose value is used.                                                *)
SlotsOwnedOnce ==
  /\ \A t, u \in Pushers :
       pc[t] \in {"4", "5"} /\ pc[u] \in {"4", "5"} /\ t # u => at[t] # at[u]
  /\ \A t \in Pushers : \A u \in Poppers :
       pc[t] = "4" /\ pc[u] \in {"8", "9"} /\ at[u] = head => at[t] # at[u]

(* A push that has taken its slot returns: it never waits for ever for the *)
(* pushes before it, nor do those wait for it.                             *)
PushReturns == \A t \in Pushers : pc[t] = "4" ~> pc[t] = "idle"
=============================================================================
