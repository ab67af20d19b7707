------------------------- MODULE RingBufferProofs --------------------------
(***************************************************************************)
(* The ring buffer is a queue, for any number of threads and slots, as     *)
(* long as no thread is overtaken by a whole lap between the load of an    *)
(* index and its compare-and-swap.                                         *)
(***************************************************************************)
EXTENDS RingBuffer, SequenceTheorems, Lemmas

\* An index a thread has loaded moves on by less than a lap until the thread
\* compares: when it finds it where it was, it has not moved.
NoLap == MaxOvertake < Cap

-----------------------------------------------------------------------------
(* Slots, in the order of the ring.                                        *)

\* The number of steps from one slot to another, round the ring.
Dist(from, to) == IF from <= to THEN to - from ELSE to - from + Cap

\* Indices are computed from less than two laps.
LEMMA ModOnce ==
  ASSUME NEW x \in 0 .. 2 * Cap - 1
  PROVE  x % Cap = IF x < Cap THEN x ELSE x - Cap
<1>0. Cap \in Nat \ {0, 1} /\ x \in Nat
  BY RingAssumption
<1>1. PICK q \in Int : q = x \div Cap
  BY <1>0
<1>2. PICK r \in 0 .. Cap - 1 : r = x % Cap
  BY <1>0, ModType
<1>3. x = Cap * q + r
  BY <1>0, <1>1, <1>2
<1>4. q = 0 \/ q = 1
  <2>1. ASSUME q >= 2 PROVE FALSE
    <3>1. Cap * q >= Cap * 2
      BY <1>0, <2>1
    <3> QED BY <1>0, <1>3, <3>1
  <2>2. ASSUME q <= -1 PROVE FALSE
    <3>1. Cap * q <= -Cap
      BY <1>0, <2>2
    <3> QED BY <1>0, <1>3, <3>1
  <2> QED BY <2>1, <2>2
<1>5. CASE q = 0
  BY <1>0, <1>2, <1>3, <1>5
<1>6. CASE q = 1
  BY <1>0, <1>2, <1>3, <1>6
<1> QED BY <1>4, <1>5, <1>6

LEMMA SuccIs ==
  ASSUME NEW s \in Slots
  PROVE  Succ(s) = IF s = Cap - 1 THEN 0 ELSE s + 1
<1>1. s + 1 \in 0 .. 2 * Cap - 1
  BY RingAssumption DEF Slots
<1> QED BY <1>1, ModOnce, RingAssumption DEF Slots, Succ

LEMMA SuccType == \A s \in Slots : Succ(s) \in Slots
BY RingAssumption, SuccIs DEF Slots

LEMMA DistType == \A a, b \in Slots : Dist(a, b) \in Nat /\ Dist(a, b) < Cap
BY RingAssumption DEF Slots, Dist

LEMMA DistZero == \A a, b \in Slots : Dist(a, b) = 0 <=> a = b
BY RingAssumption DEF Slots, Dist

LEMMA DistSame == \A a, b, c \in Slots : Dist(a, b) = Dist(a, c) => b = c
BY RingAssumption DEF Slots, Dist

\* An index moves away from the slots behind it, unless it comes round.
LEMMA DistTo ==
  \A a, b \in Slots :
    Dist(a, Succ(b)) = IF Dist(a, b) = Cap - 1 THEN 0 ELSE Dist(a, b) + 1
BY RingAssumption, SuccIs DEF Slots, Dist

LEMMA DistFrom ==
  \A a, b \in Slots : a # b => Dist(Succ(a), b) = Dist(a, b) - 1
BY RingAssumption, SuccIs DEF Slots, Dist

LEMMA DistBack == \A a \in Slots : Dist(Succ(a), a) = Cap - 1
BY RingAssumption, SuccIs DEF Slots, Dist

LEMMA DistFull == \A a, b \in Slots : Succ(b) = a <=> Dist(a, b) = Cap - 1
BY RingAssumption, SuccIs DEF Slots, Dist

-----------------------------------------------------------------------------
(* The inductive invariant.                                                *)

PusherLabels == {"idle", "1", "2", "3", "4", "5"}
PopperLabels == {"idle", "6", "7", "8", "9"}

Types ==
  /\ data \in [Slots -> Nat]
  /\ head \in Slots /\ tail \in Slots /\ write \in Slots
  /\ pc \in [Threads -> PusherLabels \cup PopperLabels]
  /\ \A t \in Pushers : pc[t] \in PusherLabels
  /\ \A t \in Poppers : pc[t] \in PopperLabels
  /\ at \in [Threads -> Slots]
  /\ val \in [Threads -> Nat]
  /\ overtaken \in [Threads -> 0 .. MaxOvertake]
  /\ calls \in 0 .. MaxPush
  /\ taken \in Seq(Nat)

\* head, write and tail follow each other round the ring.
Ordered == Dist(head, write) <= Dist(head, tail)

\* overtaken says how far an index is from where a thread has seen it.
SeenAt ==
  /\ \A t \in Pushing : Dist(at[t], tail) = overtaken[t]
  /\ \A t \in Popping : Dist(at[t], head) = overtaken[t]

\* A push that has found room, and whose CAS can succeed, still has it.
RoomKnown ==
  \A t \in Pushers : pc[t] = "3" /\ overtaken[t] = 0 => Dist(head, tail) < Cap - 1

\* A pop that has found a value, and whose CAS can succeed, has that value.
ValueKnown ==
  \A t \in Poppers : pc[t] \in {"8", "9"} /\ overtaken[t] = 0 =>
    /\ head # write
    /\ pc[t] = "9" => val[t] = data[head]

Storing == {t \in Pushers : pc[t] \in {"4", "5"}}

\* The slots from write to tail belong to one push each.
SlotsTaken ==
  /\ \A t \in Storing :
       /\ Dist(head, write) <= Dist(head, at[t]) /\ Dist(head, at[t]) < Dist(head, tail)
       /\ pc[t] = "5" => data[at[t]] = val[t]
  /\ \A t, u \in Storing : t # u => at[t] # at[u]

Calling == {t \in Pushers : pc[t] # "idle"}
Full(s) == Dist(head, s) < Dist(head, write)

\* The values of push() that are still to be written are new.
ValuesNew ==
  /\ \A t \in Calling : val[t] \in 1 .. calls
  /\ \A t, u \in Calling : t # u => val[t] # val[u]
  /\ \A s \in Slots : Full(s) =>
       data[s] <= calls /\ \A t \in Calling : data[s] # val[t]
  /\ \A k \in 1 .. Len(taken) :
       taken[k] <= calls /\ \A t \in Calling : taken[k] # val[t]

RingInv ==
  Types /\ Ordered /\ SeenAt /\ RoomKnown /\ ValueKnown /\ SlotsTaken /\ ValuesNew

LEMMA InitInv == Init => RingInv
<1> SUFFICES ASSUME Init PROVE RingInv
  OBVIOUS
<1>1. 0 \in Slots /\ 0 \in 0 .. MaxOvertake /\ 0 \in 0 .. MaxPush
  BY RingAssumption DEF Slots
<1>2. Types
  BY <1>1 DEF Init, Types, Threads, PusherLabels, PopperLabels, NoValue
<1>3. Dist(0, 0) = 0
  BY <1>1, DistZero
<1>4. Ordered /\ SeenAt /\ RoomKnown /\ ValueKnown
  BY <1>3, RingAssumption
  DEF Init, Ordered, SeenAt, RoomKnown, ValueKnown, Pushing, Popping, Threads
<1>5. SlotsTaken
  BY DEF Init, SlotsTaken, Storing, Threads
<1>6. ValuesNew
  <2>1. \A s \in Slots : ~Full(s)
    BY <1>1, <1>3, DistType DEF Init, Full
  <2> QED BY <2>1 DEF Init, ValuesNew, Calling, Threads
<1> QED BY <1>2, <1>4, <1>5, <1>6 DEF RingInv

-----------------------------------------------------------------------------
(* push()                                                                  *)

LEMMA CallPushStep ==
  ASSUME RingInv, NEW t \in Pushers, CallPush(t)
  PROVE  RingInv'
<1> USE DEF RingInv, Goto, ringVars
<1>1. Types'
  BY RingAssumption DEF CallPush, Types, Threads, PusherLabels, PopperLabels
<1>2. Ordered' /\ SeenAt'
  BY DEF CallPush, Ordered, SeenAt, Pushing, Popping, Types, Threads
<1>3. RoomKnown' /\ ValueKnown'
  BY RingAssumption DEF CallPush, RoomKnown, ValueKnown, Types, Threads
<1>4. SlotsTaken'
  BY DEF CallPush, SlotsTaken, Storing, Types, Threads
<1>5. ValuesNew'
  <2>1. calls \in Nat /\ calls' = calls + 1
    BY DEF CallPush, Types
  <2>2. \A u \in Calling' : u = t \/ (u \in Calling /\ val'[u] = val[u])
    BY DEF CallPush, Calling, Types, Threads
  <2>3. val'[t] = calls + 1
    BY DEF CallPush, Types, Threads
  <2>4. \A s \in Slots : Full(s)' = Full(s)
    BY DEF CallPush, Full
  <2>5. (\A u \in Calling : val[u] \in 1 .. calls)'
    BY <2>1, <2>2, <2>3 DEF ValuesNew
  <2>6. (\A u, w \in Calling : u # w => val[u] # val[w])'
    BY <2>1, <2>2, <2>3 DEF ValuesNew
  <2>7. (\A s \in Slots : Full(s) =>
           data[s] <= calls /\ \A u \in Calling : data[s] # val[u])'
    BY <2>1, <2>2, <2>3, <2>4 DEF ValuesNew, CallPush, Types
  <2>8. (\A k \in 1 .. Len(taken) :
           taken[k] <= calls /\ \A u \in Calling : taken[k] # val[u])'
    BY <2>1, <2>2, <2>3 DEF ValuesNew, CallPush, Types
  <2> QED BY <2>5, <2>6, <2>7, <2>8 DEF ValuesNew
<1> QED BY <1>1, <1>2, <1>3, <1>4, <1>5

LEMMA LoadTailStep ==
  ASSUME RingInv, NEW t \in Pushers, LoadTail(t)
  PROVE  RingInv'
<1> USE DEF RingInv, Goto, ringVars
<1>1. Types'
  BY RingAssumption DEF LoadTail, Types, Threads, PusherLabels, PopperLabels
<1>2. Ordered' /\ SeenAt'
  BY RingAssumption, DistZero
  DEF LoadTail, Ordered, SeenAt, Pushing, Popping, Types, Threads
<1>3. RoomKnown' /\ ValueKnown'
  BY RingAssumption DEF LoadTail, RoomKnown, ValueKnown, Types, Threads
<1>4. SlotsTaken'
  BY DEF LoadTail, SlotsTaken, Storing, Types, Threads
<1>5. ValuesNew'
  BY DEF LoadTail, ValuesNew, Calling, Full, Types, Threads
<1> QED BY <1>1, <1>2, <1>3, <1>4, <1>5

LEMMA CheckFullStep ==
  ASSUME RingInv, NEW t \in Pushers, CheckFull(t)
  PROVE  RingInv'
<1> USE DEF RingInv, Goto, ringVars
<1>1. Types'
  BY RingAssumption DEF CheckFull, Types, Threads, PusherLabels, PopperLabels
<1>2. Ordered' /\ SeenAt'
  BY DEF CheckFull, Ordered, SeenAt, Pushing, Popping, Types, Threads
<1>3. RoomKnown'
  <2>1. overtaken[t] = 0 => at[t] = tail
    BY DistZero DEF CheckFull, SeenAt, Pushing, Types, Threads
  <2>2. pc'[t] = "3" /\ overtaken[t] = 0 => Dist(head, tail) < Cap - 1
    BY <2>1, DistFull, DistType, RingAssumption DEF CheckFull, Types, Threads
  <2> QED BY <2>2 DEF CheckFull, RoomKnown, Types, Threads
<1>4. ValueKnown'
  BY RingAssumption DEF CheckFull, ValueKnown, Types, Threads
<1>5. SlotsTaken'
  BY DEF CheckFull, SlotsTaken, Storing, Types, Threads
<1>6. ValuesNew'
  BY DEF CheckFull, ValuesNew, Calling, Full, Types, Threads
<1> QED BY <1>1, <1>2, <1>3, <1>4, <1>5, <1>6

\* What the push that gets its slot knows of it.
LEMMA TailFree ==
  ASSUME RingInv, NEW t \in Pushers, pc[t] = "3", tail = at[t]
  PROVE  /\ Dist(head, tail) < Cap - 1
         /\ Dist(head, Succ(tail)) = Dist(head, tail) + 1
<1>1. overtaken[t] = 0
  BY DistZero DEF RingInv, SeenAt, Pushing, Types
<1>2. Dist(head, tail) < Cap - 1
  BY <1>1 DEF RingInv, RoomKnown
<1> QED BY <1>2, DistTo, DistType, RingAssumption DEF RingInv, Types

LEMMA CasTailStep ==
  ASSUME RingInv, NoLap, NEW t \in Pushers, CasTail(t)
  PROVE  RingInv'
<1> USE DEF RingInv, Goto
<1>1. CASE Goto(t, "1") /\ UNCHANGED <<tail, overtaken>>
  <2>1. Types'
    BY <1>1 DEF CasTail, Types, Threads, PusherLabels, PopperLabels
  <2>2. Ordered' /\ SeenAt'
    BY <1>1 DEF CasTail, Ordered, SeenAt, Pushing, Popping, Types, Threads
  <2>3. RoomKnown' /\ ValueKnown'
    BY <1>1, RingAssumption DEF CasTail, RoomKnown, ValueKnown, Types, Threads
  <2>4. SlotsTaken'
    BY <1>1 DEF CasTail, SlotsTaken, Storing, Types, Threads
  <2>5. ValuesNew'
    BY <1>1 DEF CasTail, ValuesNew, Calling, Full, Types, Threads
  <2> QED BY <2>1, <2>2, <2>3, <2>4, <2>5
<1>2. CASE /\ tail = at[t]
           /\ tail' = Succ(at[t])
           /\ Overtake(t, Pushing)
           /\ Goto(t, "4")
  <2>1. /\ Dist(head, tail) < Cap - 1
        /\ Dist(head, Succ(tail)) = Dist(head, tail) + 1
    BY <1>2, TailFree DEF CasTail
  <2>2. /\ UNCHANGED <<data, head, write, at, val, calls, taken>>
        /\ tail' = Succ(tail) /\ pc[t] = "3" /\ pc' = [pc EXCEPT ![t] = "4"]
    BY <1>2 DEF CasTail
  <2>3. Dist(head, tail) \in Nat /\ Dist(head, write) \in Nat
    BY DistType DEF Types
  <2>4. overtaken' \in [Threads -> 0 .. MaxOvertake]
    BY <1>2, RingAssumption DEF Overtake, Pushing, Types, Threads
  <2>5. Types'
    BY <2>2, <2>4, SuccType DEF Types, Threads, PusherLabels, PopperLabels
  <2>6. Ordered'
    BY <2>1, <2>2, <2>3 DEF Ordered
  <2>7. SeenAt'
    <3>1. ASSUME NEW u \in Pushing' PROVE (Dist(at[u], tail) = overtaken[u])'
      <4>1. u # t /\ u \in Pushing
        BY <2>2 DEF Pushing, Types, Threads
      <4>2. overtaken[u] < MaxOvertake /\ overtaken'[u] = overtaken[u] + 1
        BY <1>2, <4>1 DEF Overtake, Pushing, Threads
      <4>3. Dist(at[u], tail) = overtaken[u] /\ overtaken[u] \in Nat /\ at[u] \in Slots
        BY <4>1 DEF SeenAt, Pushing, Types, Threads
      <4>4. Dist(at[u], Succ(tail)) = overtaken[u] + 1
        BY <4>2, <4>3, DistTo, RingAssumption DEF NoLap, Types
      <4> QED BY <2>2, <4>2, <4>4
    <3>2. ASSUME NEW u \in Popping' PROVE (Dist(at[u], head) = overtaken[u])'
      <4>1. u # t /\ u \in Popping /\ u \notin Pushing
        BY <2>2, RingAssumption DEF Pushing, Popping, Types, Threads
      <4>2. overtaken'[u] = overtaken[u]
        BY <1>2, <4>1 DEF Overtake, Popping, Threads
      <4> QED BY <2>2, <4>1, <4>2 DEF SeenAt
    <3> QED BY <3>1, <3>2 DEF SeenAt
  <2>8. RoomKnown'
    <3>1. ASSUME NEW u \in Pushers, pc'[u] = "3" PROVE overtaken'[u] # 0
      <4>1. u # t /\ u \in Pushing
        BY <2>2, <3>1 DEF Pushing, Types, Threads
      <4> QED BY <1>2, <4>1 DEF Overtake, Pushing, Threads, Types
    <3> QED BY <3>1 DEF RoomKnown
  <2>9. ValueKnown'
    <3>1. ASSUME NEW u \in Poppers PROVE pc'[u] = pc[u] /\ overtaken'[u] = overtaken[u]
      <4>1. u # t /\ u \notin Pushing
        BY RingAssumption DEF Pushing
      <4> QED BY <1>2, <2>2, <4>1 DEF Overtake, Types, Threads
    <3> QED BY <2>2, <3>1 DEF ValueKnown
  <2>10. SlotsTaken'
    <3>1. \A u \in Storing' : u = t \/ (u \in Storing /\ pc'[u] = pc[u])
      BY <2>2 DEF Storing, Types, Threads
    <3>2. \A u \in Storing : at[u] # tail
      BY <2>3, DistType DEF SlotsTaken, Storing
    <3>3. ASSUME NEW u \in Storing'
          PROVE  (/\ Dist(head, write) <= Dist(head, at[u])
                  /\ Dist(head, at[u]) < Dist(head, tail)
                  /\ pc[u] = "5" => data[at[u]] = val[u])'
      <4>1. CASE u = t
        BY <1>2, <2>1, <2>2, <2>3, <4>1 DEF Ordered, Types, Threads
      <4>2. CASE u \in Storing /\ pc'[u] = pc[u]
        <5>1. Dist(head, at[u]) \in Nat
          BY <4>2, DistType DEF Storing, Types, Threads
        <5> QED BY <2>1, <2>2, <2>3, <4>2, <5>1 DEF SlotsTaken
      <4> QED BY <3>1, <4>1, <4>2
    <3>4. (\A u, w \in Storing : u # w => at[u] # at[w])'
      BY <1>2, <2>2, <3>1, <3>2 DEF SlotsTaken
    <3> QED BY <3>3, <3>4 DEF SlotsTaken
  <2>11. ValuesNew'
    BY <2>2 DEF ValuesNew, Calling, Full, Types, Threads
  <2> QED BY <2>5, <2>6, <2>7, <2>8, <2>9, <2>10, <2>11
<1> QED BY <1>1, <1>2 DEF CasTail

\* A slot that is taken is not full.
LEMMA TakenNotFull ==
  ASSUME RingInv, NEW t \in Storing
  PROVE  ~Full(at[t])
<1>1. Dist(head, at[t]) \in Nat /\ Dist(head, write) \in Nat
  BY DistType DEF RingInv, Types, Storing, Threads
<1> QED BY <1>1 DEF RingInv, SlotsTaken, Full

LEMMA StoreStep ==
  ASSUME RingInv, NEW t \in Pushers, Store(t)
  PROVE  RingInv'
<1> USE DEF RingInv, Goto
<1>0. t \in Storing /\ at[t] \in Slots /\ val[t] \in Nat
  BY DEF Store, Storing, Types, Threads
<1>1. Types'
  BY <1>0 DEF Store, Types, Threads, PusherLabels, PopperLabels
<1>2. Ordered' /\ SeenAt'
  BY DEF Store, Ordered, SeenAt, Pushing, Popping, Types, Threads
<1>3. RoomKnown'
  BY DEF Store, RoomKnown, Types, Threads
<1>4. ~Full(at[t])
  BY <1>0, TakenNotFull
<1>5. \A s \in Slots : Full(s)' = Full(s) /\ (Full(s) => data'[s] = data[s])
  BY <1>4 DEF Store, Full, Types
<1>6. ValueKnown'
  <2>1. head # write => Full(head)
    BY DistZero, DistType DEF Full, Types
  <2> QED BY <1>5, <2>1, RingAssumption DEF Store, ValueKnown, Types, Threads
<1>7. SlotsTaken'
  <2>1. \A u \in Storing' : u \in Storing /\ (u # t => pc'[u] = pc[u])
    BY DEF Store, Storing, Types, Threads
  <2>2. \A u \in Storing : u # t => at[u] # at[t]
    BY <1>0 DEF SlotsTaken
  <2>3. \A u \in Storing : at[u] \in Slots
    BY DEF Storing, Types, Threads
  <2> QED BY <2>1, <2>2, <2>3 DEF Store, SlotsTaken, Types
<1>8. ValuesNew'
  <2>1. \A u \in Calling' : u \in Calling
    BY DEF Store, Calling, Types, Threads
  <2> QED BY <1>5, <2>1 DEF Store, ValuesNew
<1> QED BY <1>1, <1>2, <1>3, <1>6, <1>7, <1>8

LEMMA CasWriteStep ==
  ASSUME RingInv, NEW t \in Pushers, CasWrite(t)
  PROVE  RingInv'
<1> USE DEF RingInv, Goto
<1>0. /\ t \in Storing /\ at[t] = write /\ write' = Succ(write)
      /\ pc[t] = "5" /\ pc' = [pc EXCEPT ![t] = "idle"]
      /\ UNCHANGED <<data, head, tail, at, val, overtaken, calls, taken>>
  BY DEF CasWrite, Storing
<1>1. Types'
  BY <1>0, SuccType DEF Types, Threads, PusherLabels, PopperLabels
<1>2. /\ Dist(head, write) < Dist(head, tail)
      /\ Dist(head, write) \in Nat /\ Dist(head, tail) \in Nat /\ Dist(head, tail) < Cap
  BY <1>0, DistType DEF SlotsTaken, Types
<1>3. Dist(head, Succ(write)) = Dist(head, write) + 1
  BY <1>2, DistTo, RingAssumption DEF Types
<1>4. Ordered'
  BY <1>0, <1>2, <1>3 DEF Ordered
<1>5. SeenAt'
  BY <1>0 DEF SeenAt, Pushing, Popping, Types, Threads
<1>6. RoomKnown'
  BY <1>0 DEF RoomKnown, Types, Threads
<1>7. ValueKnown'
  <2>1. head # Succ(write)
    BY <1>2, <1>3, DistZero, SuccType DEF Types
  <2> QED BY <1>0, <2>1, RingAssumption DEF ValueKnown, Types, Threads
<1>8. \A u \in Storing' : u \in Storing /\ u # t /\ pc'[u] = pc[u]
  BY <1>0 DEF Storing, Types, Threads
<1>9. SlotsTaken'
  <2>1. ASSUME NEW u \in Storing'
        PROVE  (/\ Dist(head, write) <= Dist(head, at[u])
                /\ Dist(head, at[u]) < Dist(head, tail)
                /\ pc[u] = "5" => data[at[u]] = val[u])'
    <3>1. at[u] # write /\ at[u] \in Slots
      BY <1>0, <1>8 DEF SlotsTaken, Storing, Types, Threads
    <3>2. Dist(head, at[u]) # Dist(head, write) /\ Dist(head, at[u]) \in Nat
      BY <3>1, DistSame, DistType DEF Types
    <3> QED BY <1>0, <1>2, <1>3, <1>8, <3>2 DEF SlotsTaken
  <2>2. (\A u, w \in Storing : u # w => at[u] # at[w])'
    BY <1>0, <1>8 DEF SlotsTaken
  <2> QED BY <2>1, <2>2 DEF SlotsTaken
<1>10. ValuesNew'
  <2>1. \A u \in Calling' : u \in Calling /\ u # t
    BY <1>0 DEF Calling, Types, Threads
  <2>2. t \in Calling /\ val[t] \in 1 .. calls /\ data[write] = val[t] /\ calls \in Nat
    BY <1>0 DEF Calling, Storing, ValuesNew, SlotsTaken, Types
  <2>3. \A s \in Slots : Full(s)' => Full(s) \/ s = write
    <3>1. ASSUME NEW s \in Slots, Dist(head, s) < Dist(head, write) + 1, s # write
          PROVE  Dist(head, s) < Dist(head, write)
      <4>1. Dist(head, s) \in Nat
        BY DistType DEF Types
      <4>2. Dist(head, s) # Dist(head, write)
        BY <3>1, DistSame DEF Types
      <4> QED BY <1>2, <3>1, <4>1, <4>2
    <3> QED BY <1>0, <1>3, <3>1 DEF Full
  <2>4. (\A u, w \in Calling : u # w => val[u] # val[w])'
    BY <1>0, <2>1 DEF ValuesNew
  <2>5. (\A u \in Calling : val[u] \in 1 .. calls)'
    BY <1>0, <2>1 DEF ValuesNew
  <2>6. (\A s \in Slots : Full(s) =>
           data[s] <= calls /\ \A u \in Calling : data[s] # val[u])'
    BY <1>0, <2>1, <2>2, <2>3 DEF ValuesNew
  <2>7. (\A k \in 1 .. Len(taken) :
           taken[k] <= calls /\ \A u \in Calling : taken[k] # val[u])'
    BY <1>0, <2>1 DEF ValuesNew
  <2> QED BY <2>4, <2>5, <2>6, <2>7 DEF ValuesNew
<1> QED BY <1>1, <1>4, <1>5, <1>6, <1>7, <1>9, <1>10

-----------------------------------------------------------------------------
(* pop()                                                                   *)

LEMMA LoadHeadStep ==
  ASSUME RingInv, NEW t \in Poppers, LoadHead(t)
  PROVE  RingInv'
<1> USE DEF RingInv, Goto, ringVars
<1>0. t \notin Pushers
  BY RingAssumption
<1>1. Types'
  BY <1>0, RingAssumption DEF LoadHead, Types, Threads, PusherLabels, PopperLabels
<1>2. Ordered' /\ SeenAt'
  BY <1>0, RingAssumption, DistZero
  DEF LoadHead, Ordered, SeenAt, Pushing, Popping, Types, Threads
<1>3. RoomKnown' /\ ValueKnown'
  BY <1>0 DEF LoadHead, RoomKnown, ValueKnown, Types, Threads
<1>4. SlotsTaken'
  BY <1>0 DEF LoadHead, SlotsTaken, Storing, Types, Threads
<1>5. ValuesNew'
  BY <1>0 DEF LoadHead, ValuesNew, Calling, Full, Types, Threads
<1> QED BY <1>1, <1>2, <1>3, <1>4, <1>5

LEMMA CheckEmptyStep ==
  ASSUME RingInv, NEW t \in Poppers, CheckEmpty(t)
  PROVE  RingInv'
<1> USE DEF RingInv, Goto, ringVars
<1>0. t \notin Pushers
  BY RingAssumption
<1>1. Types'
  BY <1>0 DEF CheckEmpty, Types, Threads, PusherLabels, PopperLabels
<1>2. Ordered' /\ SeenAt'
  BY <1>0 DEF CheckEmpty, Ordered, SeenAt, Pushing, Popping, Types, Threads
<1>3. RoomKnown'
  BY <1>0 DEF CheckEmpty, RoomKnown, Types, Threads
<1>4. ValueKnown'
  <2>1. overtaken[t] = 0 => at[t] = head
    BY DistZero DEF CheckEmpty, SeenAt, Popping, Types, Threads
  <2> QED BY <2>1 DEF CheckEmpty, ValueKnown, Types, Threads
<1>5. SlotsTaken'
  BY <1>0 DEF CheckEmpty, SlotsTaken, Storing, Types, Threads
<1>6. ValuesNew'
  BY <1>0 DEF CheckEmpty, ValuesNew, Calling, Full, Types, Threads
<1> QED BY <1>1, <1>2, <1>3, <1>4, <1>5, <1>6

LEMMA ReadStep ==
  ASSUME RingInv, NEW t \in Poppers, Read(t)
  PROVE  RingInv'
<1> USE DEF RingInv, Goto, ringVars
<1>0. t \notin Pushers
  BY RingAssumption
<1>1. Types'
  BY <1>0 DEF Read, Types, Threads, PusherLabels, PopperLabels
<1>2. Ordered' /\ SeenAt'
  BY <1>0 DEF Read, Ordered, SeenAt, Pushing, Popping, Types, Threads
<1>3. RoomKnown'
  BY <1>0 DEF Read, RoomKnown, Types, Threads
<1>4. ValueKnown'
  <2>1. overtaken[t] = 0 => at[t] = head
    BY DistZero DEF Read, SeenAt, Popping, Types, Threads
  <2> QED BY <2>1 DEF Read, ValueKnown, Types, Threads
<1>5. SlotsTaken'
  BY <1>0 DEF Read, SlotsTaken, Storing, Types, Threads
<1>6. ValuesNew'
  BY <1>0 DEF Read, ValuesNew, Calling, Full, Types, Threads
<1> QED BY <1>1, <1>2, <1>3, <1>4, <1>5, <1>6

\* What the pop that moves head knows of it.
LEMMA HeadFull ==
  ASSUME RingInv, NEW t \in Poppers, pc[t] = "9", head = at[t]
  PROVE  head # write /\ Full(head) /\ val[t] = data[head]
<1>1. overtaken[t] = 0
  BY DistZero DEF RingInv, SeenAt, Popping, Types
<1>2. head # write /\ val[t] = data[head]
  BY <1>1 DEF RingInv, ValueKnown
<1>3. Full(head)
  BY <1>2, DistZero, DistType DEF RingInv, Types, Full
<1> QED BY <1>2, <1>3

LEMMA CasHeadStep ==
  ASSUME RingInv, NoLap, NEW t \in Poppers, CasHead(t)
  PROVE  RingInv'
<1> USE DEF RingInv, Goto
<1>0. t \notin Pushers
  BY RingAssumption
<1>1. CASE head # at[t]
  <2>1. Types'
    BY <1>0, <1>1 DEF CasHead, Types, Threads, PusherLabels, PopperLabels
  <2>2. Ordered' /\ SeenAt'
    BY <1>0, <1>1 DEF CasHead, Ordered, SeenAt, Pushing, Popping, Types, Threads
  <2>3. RoomKnown' /\ ValueKnown'
    BY <1>0, <1>1 DEF CasHead, RoomKnown, ValueKnown, Types, Threads
  <2>4. SlotsTaken'
    BY <1>0, <1>1 DEF CasHead, SlotsTaken, Storing, Types, Threads
  <2>5. ValuesNew'
    BY <1>0, <1>1 DEF CasHead, ValuesNew, Calling, Full, Types, Threads
  <2> QED BY <2>1, <2>2, <2>3, <2>4, <2>5
<1>2. CASE head = at[t]
  <2>1. head # write /\ Full(head) /\ val[t] = data[head]
    BY <1>2, HeadFull DEF CasHead
  <2>2. /\ UNCHANGED <<data, tail, write, at, val, calls>>
        /\ head' = Succ(head) /\ pc[t] = "9" /\ pc' = [pc EXCEPT ![t] = "idle"]
        /\ taken' = Append(taken, val[t]) /\ Overtake(t, Popping)
    BY <1>2 DEF CasHead
  <2>3. \A s \in Slots : s # head => Dist(Succ(head), s) = Dist(head, s) - 1
    BY DistFrom DEF Types
  <2>4. /\ \A s \in Slots : Dist(head, s) \in Nat /\ Dist(head, s) < Cap
        /\ \A s \in Slots : Dist(head, s) = 0 <=> head = s
    BY DistType, DistZero DEF Types
  <2>5. head # tail
    BY <2>1, <2>4 DEF Ordered, Types
  <2>6. overtaken' \in [Threads -> 0 .. MaxOvertake]
    BY <2>2, RingAssumption DEF Overtake, Popping, Types, Threads
  <2>7. Types'
    <3>1. taken' \in Seq(Nat) /\ head' \in Slots
      BY <2>2, SuccType DEF Types, Threads
    <3> QED BY <1>0, <2>2, <2>6, <3>1 DEF Types, Threads, PusherLabels, PopperLabels
  <2>8. Ordered'
    BY <2>1, <2>2, <2>3, <2>4, <2>5 DEF Ordered, Types
  <2>9. SeenAt'
    <3>1. ASSUME NEW u \in Popping' PROVE (Dist(at[u], head) = overtaken[u])'
      <4>1. u # t /\ u \in Popping
        BY <2>2 DEF Popping, Types, Threads
      <4>2. overtaken[u] < MaxOvertake /\ overtaken'[u] = overtaken[u] + 1
        BY <2>2, <4>1 DEF Overtake, Popping, Threads
      <4>3. Dist(at[u], head) = overtaken[u] /\ overtaken[u] \in Nat /\ at[u] \in Slots
        BY <4>1 DEF SeenAt, Popping, Types, Threads
      <4>4. Dist(at[u], Succ(head)) = overtaken[u] + 1
        BY <4>2, <4>3, DistTo, RingAssumption DEF NoLap, Types
      <4> QED BY <2>2, <4>2, <4>4
    <3>2. ASSUME NEW u \in Pushing' PROVE (Dist(at[u], tail) = overtaken[u])'
      <4>1. u # t /\ u \in Pushing /\ u \notin Popping
        BY <2>2, RingAssumption DEF Pushing, Popping, Types, Threads
      <4>2. overtaken'[u] = overtaken[u]
        BY <2>2, <4>1 DEF Overtake, Pushing, Threads
      <4> QED BY <2>2, <4>1, <4>2 DEF SeenAt
    <3> QED BY <3>1, <3>2 DEF SeenAt
  <2>10. RoomKnown'
    <3>1. ASSUME NEW u \in Pushers PROVE pc'[u] = pc[u] /\ overtaken'[u] = overtaken[u]
      <4>1. u # t /\ u \notin Popping
        BY RingAssumption DEF Popping
      <4> QED BY <2>2, <4>1 DEF Overtake, Types, Threads
    <3>2. Dist(Succ(head), tail) < Dist(head, tail)
      BY <2>3, <2>4, <2>5 DEF Types
    <3>3. Dist(Succ(head), tail) \in Nat
      BY DistType, SuccType DEF Types
    <3> QED BY <2>2, <2>4, <3>1, <3>2, <3>3, RingAssumption DEF RoomKnown, Types
  <2>11. ValueKnown'
    <3>1. ASSUME NEW u \in Poppers, pc'[u] \in {"8", "9"} PROVE overtaken'[u] # 0
      <4>1. u # t /\ u \in Popping
        BY <2>2, <3>1 DEF Popping, Types, Threads
      <4> QED BY <2>2, <4>1 DEF Overtake, Popping, Threads, Types
    <3> QED BY <3>1 DEF ValueKnown
  <2>12. SlotsTaken'
    <3>1. \A u \in Storing' : u \in Storing /\ pc'[u] = pc[u]
      BY <1>0, <2>2 DEF Storing, Types, Threads
    <3>2. ASSUME NEW u \in Storing'
          PROVE  (/\ Dist(head, write) <= Dist(head, at[u])
                  /\ Dist(head, at[u]) < Dist(head, tail)
                  /\ pc[u] = "5" => data[at[u]] = val[u])'
      <4>1. at[u] \in Slots /\ u \in Storing
        BY <3>1 DEF Storing, Types, Threads
      <4>2. /\ Dist(head, write) <= Dist(head, at[u])
            /\ Dist(head, at[u]) < Dist(head, tail)
            /\ pc[u] = "5" => data[at[u]] = val[u]
        BY <4>1 DEF SlotsTaken
      <4>3. at[u] # head
        BY <2>1, <2>4, <4>1, <4>2 DEF Types
      <4> QED BY <2>1, <2>2, <2>3, <2>4, <2>5, <3>1, <4>1, <4>2, <4>3 DEF Types
    <3> QED BY <2>2, <3>1, <3>2 DEF SlotsTaken
  <2>13. ValuesNew'
    <3>1. \A u \in Calling' : u \in Calling
      BY <1>0, <2>2 DEF Calling, Types, Threads
    <3>2. ASSUME NEW s \in Slots, Full(s)' PROVE Full(s)
      <4>1. Dist(Succ(head), s) < Dist(Succ(head), write)
        BY <2>2, <3>2 DEF Full
      <4>2. Dist(Succ(head), write) < Cap - 1
        BY <2>1, <2>3, <2>4, RingAssumption DEF Types
      <4>3. s # head
        <5>1. Dist(Succ(head), head) = Cap - 1
          BY DistBack DEF Types
        <5>2. Dist(Succ(head), write) \in Nat /\ Dist(Succ(head), head) \in Nat
          BY DistType, SuccType DEF Types
        <5> QED BY <4>1, <4>2, <5>1, <5>2, RingAssumption
      <4> QED BY <2>1, <2>3, <2>4, <4>1, <4>3 DEF Full, Types
    <3>3. val[t] <= calls /\ \A u \in Calling : val[t] # val[u]
      BY <2>1 DEF ValuesNew, Types
    <3>4. (\A k \in 1 .. Len(taken) :
             taken[k] <= calls /\ \A u \in Calling : taken[k] # val[u])'
      <4>1. \A k \in 1 .. Len(taken') :
              \/ k \in 1 .. Len(taken) /\ taken'[k] = taken[k]
              \/ taken'[k] = val[t]
        <5>1. taken \in Seq(Nat) /\ val[t] \in Nat
          BY DEF Types, Threads
        <5> QED BY <2>2, <5>1
      <4> QED BY <2>2, <3>1, <3>3, <4>1 DEF ValuesNew
    <3>5. (\A s \in Slots : Full(s) =>
             data[s] <= calls /\ \A u \in Calling : data[s] # val[u])'
      BY <2>2, <3>1, <3>2 DEF ValuesNew
    <3>6. (\A u \in Calling : val[u] \in 1 .. calls)'
      BY <2>2, <3>1 DEF ValuesNew
    <3>7. (\A u, w \in Calling : u # w => val[u] # val[w])'
      BY <2>2, <3>1 DEF ValuesNew
    <3> QED BY <3>4, <3>5, <3>6, <3>7 DEF ValuesNew
  <2> QED BY <2>7, <2>8, <2>9, <2>10, <2>11, <2>12, <2>13
<1> QED BY <1>1, <1>2

-----------------------------------------------------------------------------
(* The invariant holds.                                                    *)

LEMMA NextInv ==
  ASSUME RingInv, NoLap, [Next]_vars
  PROVE  RingInv'
<1>1. ASSUME NEW t \in Pushers, CallPush(t) \/ Push(t)
      PROVE  RingInv'
  BY <1>1, NoLap, RingInv, CallPushStep, LoadTailStep, CheckFullStep, CasTailStep, StoreStep,
     CasWriteStep DEF Push
<1>2. ASSUME NEW t \in Poppers, Pop(t)
      PROVE  RingInv'
  BY <1>2, NoLap, RingInv, LoadHeadStep, CheckEmptyStep, ReadStep, CasHeadStep DEF Pop
<1>3. CASE UNCHANGED vars
  BY <1>3 DEF vars, ringVars, RingInv, Types, Ordered, SeenAt, RoomKnown, ValueKnown,
     SlotsTaken, ValuesNew, Pushing, Popping, Storing, Calling, Full
<1> QED BY <1>1, <1>2, <1>3 DEF Next

LEMMA RingInvHolds ==
  ASSUME NoLap
  PROVE  Spec => []RingInv
<1>1. RingInv /\ [Next]_vars => RingInv'
  BY NextInv
<1> QED BY <1>1, InitInv, PTL DEF Spec

\* Two pushes never own a slot, and no push owns one whose value a pop is
\* about to take.
THEOREM SlotsOwned ==
  ASSUME NoLap
  PROVE  Spec => []SlotsOwnedOnce
<1>1. ASSUME RingInv PROVE SlotsOwnedOnce
  <2> USE <1>1 DEF RingInv
  <2>1. \A t, u \in Pushers :
          pc[t] \in {"4", "5"} /\ pc[u] \in {"4", "5"} /\ t # u => at[t] # at[u]
    BY DEF SlotsTaken, Storing
  <2>2. ASSUME NEW t \in Pushers, NEW u \in Poppers,
               pc[t] = "4", pc[u] \in {"8", "9"}, at[u] = head
        PROVE  at[t] # at[u]
    <3>1. overtaken[u] = 0
      BY <2>2, DistZero DEF SeenAt, Popping, Types
    <3>2. head # write
      BY <2>2, <3>1 DEF ValueKnown
    <3>3. Full(head)
      BY <3>2, DistZero, DistType DEF Full, Types
    <3>4. ~Full(at[t])
      BY <2>2, TakenNotFull DEF Storing
    <3> QED BY <2>2, <3>3, <3>4
  <2> QED BY <2>1, <2>2 DEF SlotsOwnedOnce
<1> QED BY <1>1, RingInvHolds, PTL

-----------------------------------------------------------------------------
(* What the ring holds, as a queue.                                        *)

\* The slot of the k-th value from a slot on, and the values themselves.
SlotOf(from, k) == (from + k - 1) % Cap
Contents(d, from, n) == [k \in 1 .. n |-> d[SlotOf(from, k)]]

LEMMA SlotOfIs ==
  ASSUME NEW from \in Slots, NEW k \in 1 .. Cap
  PROVE  /\ SlotOf(from, k) = IF from + k - 1 < Cap THEN from + k - 1 ELSE from + k - 1 - Cap
         /\ SlotOf(from, k) \in Slots
<1>1. PICK x \in 0 .. 2 * Cap - 1 : x = from + k - 1
  BY RingAssumption DEF Slots
<1>2. SlotOf(from, k) = x % Cap
  BY <1>1 DEF SlotOf
<1>3. SlotOf(from, k) = IF x < Cap THEN x ELSE x - Cap
  BY <1>2, ModOnce
<1> QED BY <1>1, <1>3, RingAssumption DEF Slots

LEMMA SlotOfDist ==
  ASSUME NEW from \in Slots, NEW k \in 1 .. Cap
  PROVE  Dist(from, SlotOf(from, k)) = k - 1
<1>1. SlotOf(from, k) = IF from + k - 1 < Cap THEN from + k - 1 ELSE from + k - 1 - Cap
  BY SlotOfIs
<1> QED BY <1>1, RingAssumption DEF Slots, Dist

\* The slot behind the last value.
LEMMA SlotOfLast ==
  ASSUME NEW from \in Slots, NEW to \in Slots
  PROVE  SlotOf(from, Dist(from, to) + 1) = to
<1>1. Dist(from, to) + 1 \in 1 .. Cap
  BY DistType, RingAssumption
<1> QED BY <1>1, SlotOfIs, RingAssumption DEF Slots, Dist

LEMMA SlotOfNext ==
  ASSUME NEW from \in Slots, NEW k \in 1 .. Cap - 1
  PROVE  SlotOf(Succ(from), k) = SlotOf(from, k + 1)
<1>1. k \in 1 .. Cap /\ k + 1 \in 1 .. Cap /\ Succ(from) \in Slots
  BY SuccType, RingAssumption
<1>2. /\ SlotOf(from, k + 1) = IF from + (k + 1) - 1 < Cap THEN from + (k + 1) - 1
                               ELSE from + (k + 1) - 1 - Cap
      /\ SlotOf(Succ(from), k) = IF Succ(from) + k - 1 < Cap THEN Succ(from) + k - 1
                                 ELSE Succ(from) + k - 1 - Cap
  BY <1>1, SlotOfIs
<1> QED BY <1>1, <1>2, SuccIs, RingAssumption DEF Slots

LEMMA LengthIs ==
  ASSUME NEW from \in Slots, NEW to \in Slots
  PROVE  (to - from + Cap) % Cap = Dist(from, to)
<1>1. to - from + Cap \in 0 .. 2 * Cap - 1
  BY RingAssumption DEF Slots
<1> QED BY <1>1, ModOnce, RingAssumption DEF Slots, Dist

LEMMA ContentsType ==
  ASSUME NEW d \in [Slots -> Nat], NEW from \in Slots, NEW n \in 0 .. Cap
  PROVE  Contents(d, from, n) \in Seq(Nat) /\ Len(Contents(d, from, n)) = n
<1>1. \A k \in 1 .. n : SlotOf(from, k) \in Slots
  BY SlotOfIs, RingAssumption
<1>2. n \in Nat
  BY RingAssumption
<1> QED BY <1>1, <1>2 DEF Contents

\* A value that is put in, and one that is taken out.
LEMMA ContentsPut ==
  ASSUME NEW d \in [Slots -> Nat], NEW from \in Slots, NEW to \in Slots,
         Dist(from, to) < Cap - 1
  PROVE  Contents(d, from, Dist(from, to) + 1)
           = Append(Contents(d, from, Dist(from, to)), d[to])
<1> DEFINE n == Dist(from, to)
<1>1. n \in Nat /\ n \in 0 .. Cap /\ n + 1 \in 0 .. Cap
  BY DistType, RingAssumption
<1>2. SlotOf(from, n + 1) = to
  BY SlotOfLast
<1>3. /\ Contents(d, from, n) \in Seq(Nat) /\ Len(Contents(d, from, n)) = n
      /\ Contents(d, from, n + 1) \in Seq(Nat) /\ Len(Contents(d, from, n + 1)) = n + 1
  BY <1>1, ContentsType
<1>4. d[to] \in Nat
  OBVIOUS
<1> HIDE DEF n
<1>5. \A k \in 1 .. n + 1 :
        Contents(d, from, n + 1)[k] = Append(Contents(d, from, n), d[to])[k]
  BY <1>1, <1>2, <1>3, <1>4 DEF Contents
<1>6. /\ Append(Contents(d, from, n), d[to]) \in Seq(Nat)
      /\ Len(Append(Contents(d, from, n), d[to])) = n + 1
  BY <1>1, <1>3, <1>4
<1>7. Contents(d, from, n + 1) = Append(Contents(d, from, n), d[to])
  BY <1>3, <1>5, <1>6, SeqEqual
<1> QED BY <1>7 DEF n

LEMMA ContentsTake ==
  ASSUME NEW d \in [Slots -> Nat], NEW from \in Slots, NEW n \in 1 .. Cap - 1
  PROVE  /\ Head(Contents(d, from, n)) = d[from]
         /\ Contents(d, Succ(from), n - 1) = Tail(Contents(d, from, n))
<1>1. n \in 0 .. Cap /\ n - 1 \in 0 .. Cap /\ Succ(from) \in Slots /\ n \in Nat
  BY SuccType, RingAssumption
<1>2. /\ Contents(d, from, n) \in Seq(Nat) /\ Len(Contents(d, from, n)) = n
      /\ Contents(d, Succ(from), n - 1) \in Seq(Nat)
      /\ Len(Contents(d, Succ(from), n - 1)) = n - 1
  BY <1>1, ContentsType
<1>3. SlotOf(from, 1) = from
  BY SlotOfIs, RingAssumption DEF Slots
<1>4. Head(Contents(d, from, n)) = d[from]
  BY <1>1, <1>2, <1>3 DEF Contents
<1>5. \A k \in 1 .. n - 1 : SlotOf(Succ(from), k) = SlotOf(from, k + 1)
  BY SlotOfNext, RingAssumption
<1>6. /\ Tail(Contents(d, from, n)) \in Seq(Nat) /\ Len(Tail(Contents(d, from, n))) = n - 1
      /\ \A k \in 1 .. n - 1 : Tail(Contents(d, from, n))[k] = Contents(d, from, n)[k + 1]
  BY <1>1, <1>2
<1>7. \A k \in 1 .. n - 1 :
        Contents(d, Succ(from), n - 1)[k] = Tail(Contents(d, from, n))[k]
  BY <1>1, <1>5, <1>6 DEF Contents
<1>8. Contents(d, Succ(from), n - 1) = Tail(Contents(d, from, n))
  BY <1>2, <1>6, <1>7, SeqEqual
<1> QED BY <1>4, <1>8

LEMMA BetweenIs ==
  ASSUME RingInv
  PROVE  /\ Between(head, write) = Contents(data, head, Dist(head, write))
         /\ Between(head, write) \in Seq(Nat)
         /\ Len(Between(head, write)) = Dist(head, write)
<1>1. Between(head, write) = Contents(data, head, Dist(head, write))
  BY LengthIs DEF RingInv, Types, Between, Contents, SlotOf
<1>2. Dist(head, write) \in 0 .. Cap
  BY DistType, RingAssumption DEF RingInv, Types
<1>3. data \in [Slots -> Nat] /\ head \in Slots
  BY DEF RingInv, Types
<1>4. /\ Contents(data, head, Dist(head, write)) \in Seq(Nat)
      /\ Len(Contents(data, head, Dist(head, write))) = Dist(head, write)
  BY <1>2, <1>3, ContentsType
<1> QED BY <1>1, <1>4

-----------------------------------------------------------------------------
(* Every step is a step of the queue, or does not change it.               *)

LEMMA FifoInit == Init => Fifo!Init
<1> SUFFICES ASSUME Init PROVE Fifo!Init
  OBVIOUS
<1>1. RingInv
  BY InitInv
<1>2. Dist(head, write) = 0
  BY <1>1, DistZero DEF Init, RingInv, Types
<1>3. Between(head, write) = <<>>
  BY <1>1, <1>2, BetweenIs
<1> QED BY <1>3 DEF Fifo!Init, Init

\* The values in the queue are those of the slots that are full.
LEMMA QueueSlot ==
  ASSUME RingInv, NEW k \in 1 .. Dist(head, write)
  PROVE  /\ SlotOf(head, k) \in Slots /\ Full(SlotOf(head, k))
         /\ Between(head, write)[k] = data[SlotOf(head, k)]
<1>1. k \in 1 .. Cap /\ head \in Slots /\ Dist(head, write) \in Nat
  BY DistType, RingAssumption DEF RingInv, Types
<1>2. SlotOf(head, k) \in Slots /\ Dist(head, SlotOf(head, k)) = k - 1
  BY <1>1, SlotOfIs, SlotOfDist
<1> QED BY <1>1, <1>2, BetweenIs DEF Full, Contents

LEMMA CasWriteIsPut ==
  ASSUME RingInv, RingInv', NEW t \in Pushers, CasWrite(t)
  PROVE  Fifo!Next
<1>1. /\ t \in Storing /\ t \in Calling /\ at[t] = write /\ write' = Succ(write)
      /\ UNCHANGED <<data, head, taken>>
      /\ data[write] = val[t]
  BY DEF CasWrite, Storing, Calling, RingInv, SlotsTaken
<1>2. /\ head \in Slots /\ write \in Slots /\ write' \in Slots /\ data \in [Slots -> Nat]
      /\ taken \in Seq(Nat)
  BY DEF RingInv, Types
<1>3. /\ Dist(head, write) < Dist(head, tail)
      /\ Dist(head, write) \in Nat /\ Dist(head, tail) \in Nat /\ Dist(head, tail) < Cap
  BY <1>1, DistType DEF RingInv, Types, SlotsTaken
<1>4. Dist(head, write) < Cap - 1
  BY <1>3, RingAssumption
<1>5. Dist(head, Succ(write)) = Dist(head, write) + 1
  BY <1>2, <1>3, <1>4, DistTo
<1>6. Between(head, write)' = Contents(data, head, Dist(head, write) + 1)
  BY <1>1, <1>2, <1>5, LengthIs DEF Between, Contents, SlotOf
<1>7. Between(head, write)' = Append(Between(head, write), val[t])
  BY <1>1, <1>2, <1>4, <1>6, ContentsPut, BetweenIs
<1>8. \A k \in 1 .. Len(Between(head, write)) : Between(head, write)[k] # val[t]
  BY <1>1, BetweenIs, QueueSlot DEF RingInv, ValuesNew
<1>9. \A k \in 1 .. Len(taken) : taken[k] # val[t]
  BY <1>1 DEF RingInv, ValuesNew
<1>10. val[t] \in Values
  BY <1>1, RingAssumption DEF RingInv, ValuesNew, Types, Values
<1>11. Fifo!Put(val[t])
  BY <1>1, <1>4, <1>7, <1>8, <1>9, BetweenIs DEF Fifo!Put
<1> QED BY <1>10, <1>11 DEF Fifo!Next

LEMMA CasHeadIsTake ==
  ASSUME RingInv, RingInv', NEW t \in Poppers, CasHead(t), head = at[t]
  PROVE  Fifo!Next
<1>1. head # write /\ val[t] = data[head]
  BY HeadFull DEF CasHead
<1>2. /\ UNCHANGED <<data, write>> /\ head' = Succ(head)
      /\ taken' = Append(taken, val[t])
  BY DEF CasHead
<1>3. /\ head \in Slots /\ write \in Slots /\ head' \in Slots /\ data \in [Slots -> Nat]
  BY DEF RingInv, Types
<1>4. Dist(head, write) \in 1 .. Cap - 1
  BY <1>1, <1>3, DistType, DistZero, RingAssumption
<1>5. Dist(Succ(head), write) = Dist(head, write) - 1
  BY <1>1, <1>3, DistFrom
<1>6. Between(head, write)' = Contents(data, Succ(head), Dist(head, write) - 1)
  BY <1>2, <1>3, <1>5, LengthIs DEF Between, Contents, SlotOf
<1>7. Between(head, write)' = Tail(Between(head, write))
  BY <1>3, <1>4, <1>6, ContentsTake, BetweenIs
<1>8. Head(Between(head, write)) = val[t]
  BY <1>1, <1>3, <1>4, ContentsTake, BetweenIs
<1>9. Between(head, write) # <<>>
  BY <1>4, BetweenIs, RingAssumption
<1>10. Fifo!Take
  BY <1>2, <1>7, <1>8, <1>9 DEF Fifo!Take
<1> QED BY <1>10 DEF Fifo!Next

\* A store goes to a slot that is not in the queue yet.
LEMMA StoreKeepsQueue ==
  ASSUME RingInv, NEW t \in Pushers, Store(t)
  PROVE  UNCHANGED Fifo!fifoVars
<1>1. t \in Storing /\ data' = [data EXCEPT ![at[t]] = val[t]]
      /\ UNCHANGED <<head, write, taken>>
  BY DEF Store, Storing
<1>2. ~Full(at[t])
  BY <1>1, TakenNotFull
<1>3. \A k \in 1 .. Dist(head, write) : data'[SlotOf(head, k)] = data[SlotOf(head, k)]
  BY <1>1, <1>2, QueueSlot DEF RingInv, Types
<1>4. Between(head, write)' = Contents(data', head, Dist(head, write))
  BY <1>1, LengthIs DEF RingInv, Types, Between, Contents, SlotOf
<1>5. Contents(data', head, Dist(head, write)) = Contents(data, head, Dist(head, write))
  BY <1>3 DEF Contents
<1> QED BY <1>1, <1>4, <1>5, BetweenIs DEF Fifo!fifoVars

LEMMA FifoNext ==
  ASSUME RingInv, RingInv', [Next]_vars
  PROVE  [Fifo!Next]_(Fifo!fifoVars)
<1>1. ASSUME UNCHANGED <<data, head, write, taken>>
      PROVE  UNCHANGED Fifo!fifoVars
  BY <1>1 DEF Fifo!fifoVars, Between
<1>2. ASSUME NEW t \in Pushers, CallPush(t) \/ LoadTail(t) \/ CheckFull(t) \/ CasTail(t)
      PROVE  UNCHANGED Fifo!fifoVars
  BY <1>1, <1>2 DEF CallPush, LoadTail, CheckFull, CasTail, ringVars
<1>3. ASSUME NEW t \in Poppers,
             LoadHead(t) \/ CheckEmpty(t) \/ Read(t) \/ (CasHead(t) /\ head # at[t])
      PROVE  UNCHANGED Fifo!fifoVars
  BY <1>1, <1>3 DEF LoadHead, CheckEmpty, Read, CasHead, ringVars
<1>4. CASE UNCHANGED vars
  BY <1>1, <1>4 DEF vars, ringVars
<1> QED
  BY <1>2, <1>3, <1>4, CasWriteIsPut, CasHeadIsTake, StoreKeepsQueue, RingInv, RingInv'
  DEF Next, Push, Pop

\* The ring implements the queue of BoundedFifo with Cap - 1 places: whatever
\* the interleaving of pushes and pops, no value is lost, given out twice,
\* given out before it is stored, or out of order.
THEOREM FifoHolds ==
  ASSUME NoLap
  PROVE  Spec => FifoImplemented
<1>1. RingInv /\ RingInv' /\ [Next]_vars => [Fifo!Next]_(Fifo!fifoVars)
  BY FifoNext
<1> QED
  BY <1>1, FifoInit, RingInvHolds, PTL DEF Spec, FifoImplemented, Fifo!Spec
=============================================================================
