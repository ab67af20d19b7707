--------------------------- MODULE DeliveryProofs ---------------------------
(***************************************************************************)
(* Paced requests bring every item: what the switch retires is in the      *)
(* requester's memory, what the requester sees completed is complete, and  *)
(* the protocol implements ShuffleService.  For one work request per       *)
(* endpoint, of any size, and any number of endpoints, units and slots,    *)
(* whatever is lost and whenever the timers fire.                          *)
(***************************************************************************)
EXTENDS PacedProofs, FiniteSetTheorems, SequenceTheorems

\* One work request names all items (with more, the protocol fails: see the
\* run several_wrs).
OneWr == EleNum <= SReqMsgSize

-----------------------------------------------------------------------------
(* Items and where they belong.                                            *)

\* The items of request PSN n, and item i's number in the switch while they
\* are in unit UnitOf(n).
BlockEnd(n) == IF (n * ReqMtu) + ReqMtu <= EleNum THEN (n * ReqMtu) + ReqMtu ELSE EleNum
Block(n) == n * ReqMtu .. BlockEnd(n) - 1
Si(n, i) == (UnitOf(n) * ReqMtu) + (i - (n * ReqMtu))

\* The element item i asks for, and its place in the requester's memory.
Value(i) == Element(i % SeNum, i)
Place(i) == (2 * EleNum) + i

Brought(e, i) == buf[e][Place(i)] = Value(i)

-----------------------------------------------------------------------------
(* Packets and the items they carry.                                       *)

IsPending(p) == p.opcode \in {"LOOPBACK", "READ", "READ_RESPONSE"}

\* A packet names consecutive items; those from its first one on.
Consecutive(p) ==
  p.data # <<>> /\ \A k \in 1 .. Len(p.data) : p.data[k] = p.data[1] + (k - 1)
Run(p) == p.data[1] .. p.data[1] + (Len(p.data) - 1)

Carries(p) ==
  IF p.opcode = "LOOPBACK" THEN Run(p)
  ELSE IF p.opcode = "READ" THEN {p.addr}
  ELSE {i \in Items : p.data = <<Value(i)>>}

\* A request of the one work request.
RightRequest(p) ==
  /\ p.psn * ReqMtu < EleNum
  /\ Len(p.data) = BlockEnd(p.psn) - (p.psn * ReqMtu)
  /\ \A k \in 1 .. Len(p.data) : p.data[k] = (p.psn * ReqMtu) + (k - 1)
  /\ p.opcode \in {"WRITE_FIRST", "WRITE_ONLY"} => p.addr = 2 * EleNum
  /\ p.psn = 0 => p.opcode \in {"WRITE_FIRST", "WRITE_ONLY"}

\* The slot of READ PSN m names item i of request n.
InSlot(e, t, m, n, i) ==
  /\ sread_psn_to_si[e][t][ReadSlot(m)] = Si(n, i)
  /\ si_wr_off[e][UnitOf(n)][i - (n * ReqMtu)] = i

\* What a packet on the way to a WRITE of request n says. Slots matter only
\* while the endpoint is up.
Fits(e, n, p) ==
  /\ p.opcode = "LOOPBACK" => Consecutive(p) /\ p.si = Si(n, p.data[1])
  /\ p.opcode = "READ" =>
       /\ p.addr \in Items /\ p.addr % SeNum = p.dmac
       /\ se_state[e] = 1 => InSlot(e, p.dmac, p.psn, n, p.addr)
  /\ p.opcode = "READ_RESPONSE" =>
       \E i \in Items :
         /\ p.data = <<Value(i)>> /\ i % SeNum = p.smac
         /\ se_state[e] = 1 => InSlot(e, p.smac, p.psn, n, i)

\* A packet ahead of another shares no item with it.
Apart == {ab \in AnyPacket \X AnyPacket :
  LET a == ab[1]  b == ab[2]
  IN  IsPending(a) /\ IsPending(b) /\ Requester(a) = Requester(b)
      => Carries(a) \cap Carries(b) = {}}

-----------------------------------------------------------------------------
(* The traffic of requester e.                                             *)

Pending(e) == {p \in Moving : IsPending(p) /\ Requester(p) = e}
Refusals(e) == {p \in Moving : IsNak(p) /\ p.dqpn = e}
Writes(e) == {p \in Traffic(WriteQp(e)) : IsOrder(p)}
Acks(e) == {p \in Traffic(WriteQp(e)) : IsReply(p)}
Busy(e) == Pending(e) \cup Writes(e) \cup Acks(e)

Tracked(e) == UNION {Carries(p) : p \in Pending(e)}

\* No WRITE of those the switch counts is lost.
Gapless(e) ==
  \A m \in epsn[WriteQp(e)] .. swrite_psn[e] - 1 : \E w \in Writes(e) : w.psn = m

Got(e, i) == Brought(e, i) \/ \E w \in Writes(e) : w.addr = Place(i)

\* The WRITE or ACK p that retires request n can still find its unit.
Names(e, n, p) ==
  /\ swrite_psn_to_su[e][WriteSlot(p.psn)] = UnitOf(n)
  /\ swrite_psn[e] <= p.psn + 1

\* Something is known to be missing, or nothing is known to be refused.
Broken(e, U) ==
  \/ U \ Tracked(e) # {}
  \/ se_state[e] = 0 /\ \A w \in Writes(e) : w.psn # epsn[WriteQp(e)]
Sound(e, U) == (se_state[e] = 1 /\ Refusals(e) = {}) \/ Broken(e, U)

\* All that is under way for e is for request n, and U are the items for
\* which no WRITE has been sent.
Turn(e, n, U) ==
  /\ su_rem[e][UnitOf(n)] = Cardinality(U)
  /\ \A p \in Pending(e) : Carries(p) \subseteq U /\ Fits(e, n, p)
  /\ \A w \in Writes(e) : \E i \in Block(n) : w.addr = Place(i) /\ w.data = <<Value(i)>>
  /\ se_state[e] = 1 /\ Gapless(e) => \A i \in Block(n) \ U : Got(e, i)
  /\ Sound(e, U)
  /\ \A w \in Writes(e) : w.ackreq = 1 =>
       U = {} /\ Acks(e) = {} /\ Names(e, n, w) /\ \A x \in Writes(e) : x.psn <= w.psn
  /\ \A a \in Acks(e) :
       /\ U = {} /\ Writes(e) = {} /\ Names(e, n, a) /\ a.psn = epsn[WriteQp(e)] - 1
       /\ \A i \in Block(n) : Brought(e, i)

OneTurn(e) ==
  Busy(e) # {} =>
    \E n \in sreq_unack_psn[e] .. se_req_epsn[e] - 1 : \E U \in SUBSET Block(n) : Turn(e, n, U)

-----------------------------------------------------------------------------
(* The invariant.                                                          *)

RightRequests ==
  /\ \A p \in Moving : IsRequest(p) => RightRequest(p)
  /\ \A e \in Se : \A p \in InFlight(qp_tx[ReqQp(e)]) : RightRequest(p)

\* WRITEs go where results belong only.
Sources == \A e \in Se : \A a \in 0 .. (2 * EleNum) - 1 : buf[e][a] = InitBuf[e][a]

Bases == \A e \in Se :
  /\ se_req_epsn[e] > 0 => se_wr_addr[e] = 2 * EleNum
  /\ \A n \in 0 .. se_req_epsn[e] - 1 : su_wr_addr[e][UnitOf(n)] = 2 * EleNum

Queued == \A e \in Se :
  \/ sq[e] = <<Wr(0)>> /\ old_req_psn[e] = 0 /\ cq[e] = <<>>
  \/ sq[e] = <<>> /\ cq[e] = <<Wr(0)>> /\ PacketsOf(Wr(0)) <= old_unack_psn[e]

Retired == \A e \in Se : \A n \in 0 .. sreq_unack_psn[e] - 1 : \A i \in Block(n) : Brought(e, i)

DeliveryInv ==
  /\ InOrder(Apart) /\ RightRequests /\ Sources /\ Bases /\ Queued /\ Retired
  /\ \A e \in Se : OneTurn(e)

-----------------------------------------------------------------------------
(* Items, units and the one work request.                                  *)

LEMMA DivMod ==
  ASSUME NEW u \in Nat, NEW m \in Nat \ {0}, NEW k \in 0 .. m - 1
  PROVE  /\ u * m \in Nat /\ (u * m) + k \in Nat
         /\ ((u * m) + k) \div m = u /\ ((u * m) + k) % m = k
<1>1. PICK a \in Nat : a = (u * m) + k
  OBVIOUS
<1>2. a \div m \in Int /\ a % m \in 0 .. m - 1
  BY ModType
<1>3. PICK d \in Int : d = a \div m
  BY <1>2
<1>4. PICK r \in 0 .. m - 1 : r = a % m
  BY <1>2
<1>5. a = (m * d) + r
  BY <1>3, <1>4
<1>6. PICK x \in Int : x = d - u
  OBVIOUS
<1>7. m * x = k - r
  <2>1. m * x = (m * d) - (u * m)
    BY <1>6
  <2> QED BY <1>1, <1>5, <2>1
<1>8. x = 0
  <2>1. ASSUME x >= 1 PROVE FALSE
    <3>1. m * x >= m
      BY <2>1
    <3> QED BY <1>7, <3>1
  <2>2. ASSUME x <= -1 PROVE FALSE
    <3>1. m * x <= -m
      BY <2>2
    <3> QED BY <1>7, <3>1
  <2> QED BY <2>1, <2>2
<1>9. m * x = 0
  BY <1>8
<1>10. d = u /\ r = k
  BY <1>6, <1>7, <1>8, <1>9
<1> QED BY <1>1, <1>3, <1>4, <1>10

LEMMA Sizes ==
  /\ EleNum \in Nat \ {0} /\ ReqMtu \in Nat \ {0} /\ SuPSe \in Nat \ {0}
  /\ SeNum \in Nat \ {0} /\ PsnRingSize \in Nat \ {0} /\ SReqMsgSize \in Nat \ {0}
  /\ 2 * EleNum \in Nat /\ 3 * EleNum \in Nat
BY ParamAssumption

LEMMA BlockFacts ==
  ASSUME NEW n \in Nat
  PROVE  /\ n * ReqMtu \in Nat /\ BlockEnd(n) \in Nat
         /\ BlockEnd(n) <= EleNum /\ BlockEnd(n) <= (n * ReqMtu) + ReqMtu
         /\ Block(n) \subseteq Items /\ Items \subseteq Nat
         /\ \A U \in SUBSET Block(n) : IsFiniteSet(U) /\ Cardinality(U) \in Nat
         /\ n * ReqMtu < EleNum => Cardinality(Block(n)) = BlockEnd(n) - (n * ReqMtu)
<1>1. PICK b \in Nat : b = n * ReqMtu
  BY Sizes
<1>2. BlockEnd(n) = (IF b + ReqMtu <= EleNum THEN b + ReqMtu ELSE EleNum)
  BY <1>1 DEF BlockEnd
<1>3. PICK c \in Nat : c = BlockEnd(n)
  BY <1>2, Sizes
<1>4. c <= EleNum /\ c <= b + ReqMtu /\ (b < EleNum => b < c)
  BY <1>2, <1>3, Sizes
<1>5. Block(n) = b .. c - 1
  BY <1>1, <1>3 DEF Block
<1>6. Block(n) \subseteq Items /\ Items \subseteq Nat
  BY <1>4, <1>5, Sizes DEF Items
<1>7. IsFiniteSet(b .. c - 1) /\ Cardinality(b .. c - 1) = IF b > c - 1 THEN 0 ELSE (c - 1) - b + 1
  BY FS_Interval
<1>8. ASSUME NEW U \in SUBSET Block(n) PROVE IsFiniteSet(U) /\ Cardinality(U) \in Nat
  <2>1. IsFiniteSet(U)
    BY <1>5, <1>7, FS_Subset
  <2> QED BY <2>1, FS_CardinalityType
<1>9. b < EleNum => Cardinality(Block(n)) = c - b
  BY <1>4, <1>5, <1>7
<1> QED BY <1>1, <1>3, <1>4, <1>6, <1>8, <1>9

\* An item's number in the switch leads back to unit and position.
LEMMA SiFacts ==
  ASSUME NEW n \in Nat, NEW i \in Block(n)
  PROVE  /\ Si(n, i) \in Nat /\ UnitOf(n) \in Su /\ i - (n * ReqMtu) \in 0 .. ReqMtu - 1
         /\ Si(n, i) \div ReqMtu = UnitOf(n) /\ Si(n, i) % ReqMtu = i - (n * ReqMtu)
<1>1. PICK b \in Nat : b = n * ReqMtu
  BY Sizes
<1>2. i \in Nat /\ b <= i /\ i < b + ReqMtu
  <2>1. BlockEnd(n) \in Nat /\ BlockEnd(n) <= b + ReqMtu
    BY <1>1, BlockFacts
  <2>2. i \in b .. BlockEnd(n) - 1
    BY <1>1 DEF Block
  <2> QED BY <2>1, <2>2, Sizes
<1>3. PICK k \in 0 .. ReqMtu - 1 : k = i - b
  BY <1>2, Sizes
<1>4. UnitOf(n) \in Su /\ UnitOf(n) \in Nat
  BY SlotType DEF Su
<1>5. PICK u \in Nat : u = UnitOf(n)
  BY <1>4
<1>6. Si(n, i) = (u * ReqMtu) + k
  BY <1>1, <1>3, <1>5 DEF Si
<1>7. ((u * ReqMtu) + k) \div ReqMtu = u /\ ((u * ReqMtu) + k) % ReqMtu = k
      /\ (u * ReqMtu) + k \in Nat
  <2>1. u \in Nat /\ ReqMtu \in Nat \ {0} /\ k \in 0 .. ReqMtu - 1
    BY Sizes
  <2> QED BY <2>1, DivMod
<1> QED BY <1>1, <1>3, <1>4, <1>5, <1>6, <1>7

\* With one work request PSN n carries block n.
LEMMA ItemsInBlock ==
  ASSUME OneWr, NEW n \in Nat
  PROVE  ItemsOfPsn(n) \subseteq Block(n)
<1> SUFFICES ASSUME NEW i \in ItemsOfPsn(n) PROVE i \in Block(n)
  OBVIOUS
<1>1. /\ i \in Items /\ i \div SReqMsgSize = n \div PktsPerWr
      /\ i % SReqMsgSize \in
           (n % PktsPerWr) * ReqMtu .. ((n % PktsPerWr) * ReqMtu) + ReqMtu - 1
  BY DEF ItemsOfPsn
<1>2. i \in Nat /\ i < EleNum /\ i < SReqMsgSize
  BY <1>1, Sizes DEF Items, OneWr
<1>3. i \div SReqMsgSize = 0 /\ i % SReqMsgSize = i
  BY <1>2, Sizes
<1>4. PICK w \in Nat \ {0} : w = PktsPerWr
  <2>1. PICK c \in Nat : c = SReqMsgSize + ReqMtu - 1 /\ c >= ReqMtu
    BY Sizes
  <2>2. PICK d \in Int : d = c \div ReqMtu
    BY Sizes
  <2>3. PICK r \in 0 .. ReqMtu - 1 : r = c % ReqMtu
    <3>1. c \in Int /\ ReqMtu \in Nat \ {0}
      BY Sizes
    <3>2. c % ReqMtu \in 0 .. ReqMtu - 1
      BY <3>1, ModType
    <3> QED BY <3>2
  <2>4. c = (ReqMtu * d) + r
    BY <2>1, <2>2, <2>3, Sizes
  <2>5. d > 0
    <3>1. ASSUME d <= 0 PROVE FALSE
      <4>1. ReqMtu * d <= 0
        BY <3>1, Sizes
      <4> QED BY <2>1, <2>3, <2>4, <4>1, Sizes
    <3> QED BY <3>1
  <2>6. PktsPerWr = d
    BY <2>1, <2>2 DEF PktsPerWr, CeilDiv
  <2> QED BY <2>5, <2>6
<1>5. n \div w = 0
  BY <1>1, <1>3, <1>4
<1>6. n % w = n
  <2>1. PICK d \in Int : d = n \div w
    BY <1>5
  <2>2. PICK r \in 0 .. w - 1 : r = n % w
    <3>1. n % w \in 0 .. w - 1
      BY ModType
    <3> QED BY <3>1
  <2>3. n = (w * d) + r
    BY <2>1, <2>2
  <2>4. w * d = 0
    BY <1>5, <2>1
  <2> QED BY <2>2, <2>3, <2>4
<1>7. PICK b \in Nat : b = n * ReqMtu
  BY Sizes
<1>8. b <= i /\ i < b + ReqMtu
  <2>1. i \in b .. b + ReqMtu - 1
    BY <1>1, <1>3, <1>4, <1>6, <1>7
  <2> QED BY <1>2, <2>1, Sizes
<1>9. i < BlockEnd(n)
  BY <1>2, <1>7, <1>8, Sizes DEF BlockEnd
<1>10. BlockEnd(n) \in Nat
  BY BlockFacts
<1> QED BY <1>2, <1>7, <1>8, <1>9, <1>10 DEF Block

LEMMA WorkRequest ==
  ASSUME OneWr
  PROVE  /\ WrNum = 1 /\ Wr(0).s_addr = EleNum /\ Wr(0).d_addr = 2 * EleNum
         /\ Wr(0).size = EleNum
         /\ \A i \in Items : WrOfItem[i] = 0 /\ Item(i).wr_off = i
<1>1. EleNum <= SReqMsgSize
  BY DEF OneWr
<1>2. WrNum = 1
  <2>1. PICK c \in Nat : c = EleNum + SReqMsgSize - 1
    BY Sizes
  <2>2. PICK k \in 0 .. SReqMsgSize - 1 : k = EleNum - 1
    BY <1>1, Sizes
  <2>3. c = (1 * SReqMsgSize) + k
    BY <2>1, <2>2, Sizes
  <2>4. c \div SReqMsgSize = 1
    BY <2>3, DivMod, Sizes
  <2> QED BY <2>1, <2>4 DEF WrNum, CeilDiv
<1>3. 0 * SReqMsgSize = 0
  BY Sizes
<1>4. Wr(0).s_addr = EleNum /\ Wr(0).d_addr = 2 * EleNum /\ Wr(0).size = EleNum
  BY <1>1, <1>3, Sizes DEF Wr
<1>5. ASSUME NEW i \in Items PROVE WrOfItem[i] = 0 /\ Item(i).wr_off = i
  <2>1. i \in Nat /\ i < SReqMsgSize
    BY <1>1, Sizes DEF Items
  <2>2. i \div SReqMsgSize = 0 /\ i % SReqMsgSize = i
    BY <2>1, Sizes
  <2> QED BY <2>2 DEF WrOfItem, Item
<1> QED BY <1>2, <1>4, <1>5

\* No two items ask for the same element, and none for what is there at first.
LEMMA ValuesDiffer ==
  ASSUME NEW i \in Items, NEW j \in Items
  PROVE  /\ Value(i) \in Nat /\ Value(i) # NoVal
         /\ Value(i) = Value(j) => i = j
<1>1. i \in Nat /\ i < EleNum /\ j \in Nat /\ j < EleNum
  BY Sizes DEF Items
<1>0. i % SeNum \in 0 .. SeNum - 1 /\ j % SeNum \in 0 .. SeNum - 1
  <2>1. i \in Int /\ j \in Int /\ SeNum \in Nat \ {0}
    BY <1>1, Sizes
  <2> QED BY <2>1, ModType
<1>2. PICK a \in Nat : a = (i % SeNum) + 1
  BY <1>0
<1>3. PICK b \in Nat : b = (j % SeNum) + 1
  BY <1>0
<1>4. PICK x \in Nat : x = a * EleNum
  BY Sizes
<1>5. PICK y \in Nat : y = b * EleNum
  BY Sizes
<1>6. Value(i) = x + i /\ Value(j) = y + j
  BY <1>2, <1>3, <1>4, <1>5 DEF Value, Element
<1>7. ASSUME a < b PROVE x + EleNum <= y
  <2>1. (a + 1) * EleNum <= b * EleNum
    BY <1>7, MulMonotone, Sizes
  <2>2. (a + 1) * EleNum = x + EleNum
    BY <1>4, Sizes
  <2> QED BY <1>5, <2>1, <2>2
<1>8. ASSUME b < a PROVE y + EleNum <= x
  <2>1. (b + 1) * EleNum <= a * EleNum
    BY <1>8, MulMonotone, Sizes
  <2>2. (b + 1) * EleNum = y + EleNum
    BY <1>5, Sizes
  <2> QED BY <1>4, <2>1, <2>2
<1>9. x + i = y + j => a = b
  BY <1>1, <1>7, <1>8, Sizes
<1>10. a = b => x = y
  BY <1>4, <1>5
<1>11. Value(i) = Value(j) => i = j
  BY <1>1, <1>6, <1>9, <1>10
<1> QED BY <1>1, <1>6, <1>11 DEF NoVal

-----------------------------------------------------------------------------
(* What packets carry.                                                     *)

LEMMA ApartFacts ==
  ASSUME NEW a, NEW b
  PROVE  /\ <<a, b>> \in Apart => <<b, a>> \in Apart
         /\ <<a, b>> \in Apart /\ IsPending(a) /\ IsPending(b) /\ Requester(a) = Requester(b)
            => Carries(a) \cap Carries(b) = {}
         /\ /\ a \in AnyPacket /\ b \in AnyPacket
            /\ ~IsPending(a) \/ ~IsPending(b) \/ Requester(a) # Requester(b)
            => <<a, b>> \in Apart
BY DEF Apart

\* Pending packets are the loopbacks, the READs and their responses.
LEMMA PendingKind ==
  ASSUME NEW p \in Received \cup Sent
  PROVE  /\ p.opcode = "LOOPBACK" => p \in Recirculated
         /\ p.opcode = "READ" => p \in Orders /\ QpOf(p) = <<p.dmac, p.dqpn>> /\ p.dqpn \in Se
         /\ p.opcode = "READ_RESPONSE" =>
              p \in Received /\ QpOf(p) = <<p.smac, p.dqpn>> /\ p.dqpn \in Se /\ p.smac \in Se
         /\ IsRequest(p) => ~IsPending(p) /\ QpOf(p) \notin Responders /\ ~IsNak(p)
         /\ p \in RequestAcks => ~IsPending(p) /\ QpOf(p) \notin Responders /\ ~IsNak(p)
         /\ p \in AnyPacket
<1>1. CASE p \in Recirculated
  BY <1>1, RecirculatedKind DEF Recirculated, RequestAcks
<1>2. CASE p \in Orders
  BY <1>2, OrderKind, Numbers DEF Orders, RequestAcks
<1>3. CASE p \in RequestAcks
  BY <1>3, RequestAckKind DEF RequestAcks, Aside, IsPending
<1>4. CASE p \in Received /\ IsRequest(p)
  <2>1. /\ Aside(p) /\ p \in AnyPacket /\ p.opcode \in WriteOps /\ p.smac \in Se
    BY <1>4, RequestKind
  <2> QED BY <2>1, Numbers DEF Aside, IsPending, WriteOps, RequestAcks
<1>5. CASE p \in Received /\ ~IsRequest(p) /\ p \notin Recirculated
  <2>1. /\ QpOf(p) \in Responders /\ p \in AnyPacket /\ p.smac \in Se
    BY <1>5, AnswerKind
  <2>2. p \notin RequestAcks /\ p \notin Orders
    BY <2>1, RequestAckKind, OrderKind, Numbers
  <2>3. \/ p.dqpn \in Se /\ p.opcode \in {"READ_RESPONSE", "NAK"}
        \/ p.dqpn = ToSWrite /\ p.opcode \in {"ACK", "NAK"}
    BY <1>5, Numbers DEF Received, IsRequest, Recirculated, WriteOps
  <2>4. p.opcode = "READ_RESPONSE" => QpOf(p) = <<p.smac, p.dqpn>>
    BY <1>5, <2>3, AnswerKind, Numbers DEF IsWriteAnswer
  <2> QED BY <1>5, <2>1, <2>2, <2>3, <2>4
<1> QED BY <1>1, <1>2, <1>3, <1>4, <1>5 DEF Sent

LEMMA CarriesFacts ==
  ASSUME NEW e, NEW n, NEW p \in AnyPacket, IsPending(p), Fits(e, n, p)
  PROVE  /\ Carries(p) # {}
         /\ p.opcode = "READ" => Carries(p) = {p.addr}
         /\ \A i \in Items : p.opcode = "READ_RESPONSE" /\ p.data = <<Value(i)>>
              => Carries(p) = {i}
<1>1. CASE p.opcode = "LOOPBACK"
  <2>1. p.data \in Seq(Int) /\ p.data # <<>>
    BY <1>1 DEF Fits, Consecutive, AnyPacket, ToSwitch, FromSwitch, Packets
  <2>2. Len(p.data) \in Nat /\ Len(p.data) >= 1 /\ p.data[1] \in Int
    BY <2>1
  <2>3. p.data[1] \in Run(p)
    BY <2>2 DEF Run
  <2> QED BY <1>1, <2>3 DEF Carries
<1>2. CASE p.opcode = "READ"
  BY <1>2 DEF Carries
<1>3. ASSUME p.opcode = "READ_RESPONSE", NEW i \in Items, p.data = <<Value(i)>>
      PROVE  Carries(p) = {i}
  <2>1. \A j \in Items : p.data = <<Value(j)>> => j = i
    <3> SUFFICES ASSUME NEW j \in Items, p.data = <<Value(j)>> PROVE j = i
      OBVIOUS
    <3>1. Value(j) = Value(i)
      <4>1. <<Value(i)>>[1] = <<Value(j)>>[1]
        BY <1>3
      <4> QED BY <4>1
    <3> QED BY <3>1, ValuesDiffer
  <2> QED BY <1>3, <2>1 DEF Carries
<1> QED BY <1>1, <1>2, <1>3 DEF IsPending, Fits

\* Where a packet is that is not an ACK of a request.
LEMMA Placed ==
  ASSUME Kinds, NEW p \in Moving, p \notin RequestAcks
  PROVE  \/ p \in InFlight(rx_queue) \/ p \in InFlight(tx_queue)
         \/ /\ QpOf(p) \in Responders
            /\ p \in InFlight(qp_tx[QpOf(p)]) \/ p \in InFlight(qp_rx[QpOf(p)])
<1>1. ASSUME NEW d \in Responders, p \in InFlight(qp_tx[d]) \cup InFlight(qp_rx[d])
      PROVE  QpOf(p) = d
  BY <1>1, OtherQp
<1>2. ASSUME NEW d \in Qps, p \in InFlight(qp_rx[d])
      PROVE  d \in Responders
  BY <1>2, ReceivedAt
<1> QED BY <1>1, <1>2, InMoving

\* Of two packets that may overtake each other nowhere one is ahead.
LEMMA Comparable ==
  ASSUME Kinds, NEW R, InOrder(R), NEW a \in Moving, NEW b \in Moving, a # b,
         a \notin RequestAcks, b \notin RequestAcks,
         QpOf(a) \in Responders /\ QpOf(b) \in Responders => QpOf(a) = QpOf(b)
  PROVE  <<a, b>> \in R \/ <<b, a>> \in R
<1> DEFINE X == InFlight(rx_queue)
           T == InFlight(tx_queue)
           A(d) == InFlight(qp_tx[d])
           B(d) == InFlight(qp_rx[d])
<1>1. /\ Pairwise(rx_queue, R) /\ Pairwise(tx_queue, R) /\ Ahead(X, T, R)
      /\ \A d \in Responders :
           /\ Pairwise(qp_tx[d], R) /\ Pairwise(qp_rx[d], R)
           /\ Ahead(A(d), B(d), R) /\ Ahead(X, A(d) \cup B(d), R) /\ Ahead(A(d) \cup B(d), T, R)
  BY InOrderParts
<1>2. /\ a \in X \/ a \in T \/ (QpOf(a) \in Responders /\ (a \in A(QpOf(a)) \/ a \in B(QpOf(a))))
      /\ b \in X \/ b \in T \/ (QpOf(b) \in Responders /\ (b \in A(QpOf(b)) \/ b \in B(QpOf(b))))
  BY Placed
<1>3. ASSUME NEW S, NEW s \in Seq(S), Pairwise(s, R), a \in InFlight(s), b \in InFlight(s)
      PROVE  <<a, b>> \in R \/ <<b, a>> \in R
  <2>1. PICK i \in 1 .. Len(s) : a = s[i]
    BY <1>3 DEF InFlight
  <2>2. PICK j \in 1 .. Len(s) : b = s[j]
    BY <1>3 DEF InFlight
  <2>3. i < j \/ j < i
    BY <2>1, <2>2
  <2> QED BY <1>3, <2>1, <2>2, <2>3 DEF Pairwise
<1>4. /\ rx_queue \in Seq(Received) /\ tx_queue \in Seq(Sent)
      /\ \A d \in Responders : qp_rx[d] \in Seq(SentTo(d)) /\ qp_tx[d] \in Seq(SentBy(d))
  BY ResponderNames DEF Kinds
<1>5. /\ a \in X /\ b \in X => <<a, b>> \in R \/ <<b, a>> \in R
      /\ a \in T /\ b \in T => <<a, b>> \in R \/ <<b, a>> \in R
  BY <1>1, <1>3, <1>4
<1>6. ASSUME NEW d \in Responders
      PROVE  /\ a \in A(d) /\ b \in A(d) => <<a, b>> \in R \/ <<b, a>> \in R
             /\ a \in B(d) /\ b \in B(d) => <<a, b>> \in R \/ <<b, a>> \in R
  BY <1>1, <1>3, <1>4
<1> HIDE DEF X, T, A, B
<1> QED BY <1>1, <1>2, <1>5, <1>6 DEF Ahead

-----------------------------------------------------------------------------
(* The WRITEs of a requester, and what a step leaves of its turn.          *)

LEMMA WriteFacts ==
  ASSUME TypeOK, PacedInv, NEW e \in Se
  PROVE  /\ epsn[WriteQp(e)] \in Nat /\ swrite_psn[e] \in Nat
         /\ epsn[WriteQp(e)] <= swrite_psn[e]
         /\ \A w \in Writes(e) :
              /\ w \in Traffic(WriteQp(e)) /\ w \in Moving /\ w \in Orders
              /\ QpOf(w) = WriteQp(e) /\ ~IsNak(w) /\ w \in AnyPacket
              /\ w.psn \in Nat /\ w.psn >= epsn[WriteQp(e)]
              /\ se_state[e] = 1 => w.psn < swrite_psn[e]
         /\ \A w, x \in Writes(e) : w.psn = x.psn => w = x
         /\ \A a \in Acks(e) :
              /\ a \in Traffic(WriteQp(e)) /\ a \in Moving /\ a.psn \in Nat
              /\ a.psn < epsn[WriteQp(e)] /\ a \in AnyPacket
<1> DEFINE q == WriteQp(e)
<1>1. q \in Responders /\ RequesterOf(q) = e /\ NextPsn(q) = swrite_psn[e]
  BY ResponderNames DEF NextPsn, WriteQp
<1>2. Channel(q) /\ epsn[q] \in Nat /\ NextPsn(q) \in Nat
  BY <1>1, TrafficTypes DEF PacedInv
<1>3. ASSUME NEW w \in Writes(e)
      PROVE  /\ w \in Traffic(q) /\ w \in Moving /\ w \in Orders /\ QpOf(w) = q /\ ~IsNak(w)
             /\ w \in AnyPacket /\ w.psn \in Nat /\ w.psn >= epsn[q]
             /\ se_state[e] = 1 => w.psn < swrite_psn[e]
  <2>1. w \in Traffic(q) /\ IsOrder(w)
    BY DEF Writes
  <2>2. w \in Moving /\ w \in Orders /\ QpOf(w) = q /\ ~IsNak(w) /\ w \in AnyPacket /\ w.psn \in Nat
    BY <1>1, <2>1, TrafficTypes
  <2>3. w.psn >= epsn[q]
    BY <1>2, <2>1 DEF Channel
  <2>4. se_state[e] = 1 => w.psn < swrite_psn[e]
    BY <1>1, <2>1, UpIsReady DEF Ready
  <2> QED BY <2>1, <2>2, <2>3, <2>4
<1> HIDE DEF q
<1>4. ASSUME NEW w \in Writes(e), NEW x \in Writes(e), w.psn = x.psn, w # x
      PROVE  FALSE
  <2>1. w \notin RequestAcks /\ x \notin RequestAcks
    BY <1>1, <1>3, RequestAckKind DEF Aside
  <2>2. Kinds /\ InOrder(Behind)
    BY DEF PacedInv
  <2>3. <<w, x>> \in Behind \/ <<x, w>> \in Behind
    BY <1>3, <1>4, <2>1, <2>2, Comparable
  <2>4. w.psn < x.psn \/ x.psn < w.psn
    BY <1>1, <1>3, <2>3, Earlier
  <2> QED BY <1>3, <1>4, <2>4
<1>5. ASSUME NEW a \in Acks(e)
      PROVE  /\ a \in Traffic(q) /\ a \in Moving /\ a.psn \in Nat /\ a.psn < epsn[q]
             /\ a \in AnyPacket
  <2>1. a \in Traffic(q) /\ IsReply(a)
    BY DEF Acks, q
  <2> QED BY <1>1, <1>2, <2>1, TrafficTypes DEF Channel
<1>6. \A w, x \in Writes(e) : w.psn = x.psn => w = x
  BY <1>4
<1>7. epsn[q] \in Nat /\ swrite_psn[e] \in Nat /\ epsn[q] <= swrite_psn[e]
  BY <1>1, <1>2 DEF Channel
<1> QED BY <1>3, <1>5, <1>6, <1>7 DEF q

\* While no PSN is missing, no WRITE is.
LEMMA NoneMissing ==
  ASSUME TypeOK, PacedInv, NEW e \in Se, se_state[e] = 1, NEW W, W \subseteq Writes(e),
         \A m \in epsn[WriteQp(e)] .. swrite_psn[e] - 1 : \E w \in W : w.psn = m
  PROVE  W = Writes(e) /\ Gapless(e)
<1>1. ASSUME NEW w \in Writes(e) PROVE w \in W
  <2>1. w.psn \in epsn[WriteQp(e)] .. swrite_psn[e] - 1
    BY WriteFacts
  <2>2. PICK x \in W : x.psn = w.psn
    BY <2>1
  <2> QED BY <2>2, WriteFacts
<1> QED BY <1>1 DEF Gapless

\* The registers of requester e that its turn is about.
Kept(e) ==
  /\ su_rem'[e] = su_rem[e] /\ se_state'[e] = se_state[e]
  /\ swrite_psn'[e] = swrite_psn[e] /\ swrite_psn_to_su'[e] = swrite_psn_to_su[e]
  /\ epsn'[WriteQp(e)] = epsn[WriteQp(e)] /\ buf'[e] = buf[e]

LEMMA TurnKept ==
  ASSUME TypeOK, PacedInv, NEW e \in Se, NEW n \in Nat, NEW U \in SUBSET Block(n),
         Turn(e, n, U), Kept(e),
         \A x \in Pending(e)' :
           Carries(x) \subseteq U /\ Carries(x) \subseteq Tracked(e) /\ Fits(e, n, x)',
         Writes(e)' \subseteq Writes(e), Acks(e)' \subseteq Acks(e),
         Refusals(e)' \subseteq Refusals(e) \/ U \ Tracked(e)' # {}
  PROVE  Turn(e, n, U)'
<1>1. Tracked(e)' \subseteq Tracked(e)
  BY DEF Tracked
<1>2. (su_rem[e][UnitOf(n)] = Cardinality(U))'
  BY DEF Turn, Kept
<1>3. \A w \in Writes(e)' : \E i \in Block(n) : w.addr = Place(i) /\ w.data = <<Value(i)>>
  BY DEF Turn
<1>4. (se_state[e] = 1 /\ Gapless(e))' => \A i \in Block(n) \ U : Got(e, i)'
  <2> SUFFICES ASSUME se_state'[e] = 1, Gapless(e)', NEW i \in Block(n) \ U
               PROVE  Got(e, i)'
    OBVIOUS
  <2>1. \A m \in epsn[WriteQp(e)] .. swrite_psn[e] - 1 : \E w \in Writes(e)' : w.psn = m
    BY DEF Gapless, Kept
  <2>2. se_state[e] = 1
    BY DEF Kept
  <2>3. Writes(e)' = Writes(e) /\ Gapless(e)
    BY <2>1, <2>2, NoneMissing
  <2>4. Got(e, i)
    BY <2>2, <2>3 DEF Turn
  <2>5. Brought(e, i)' <=> Brought(e, i)
    BY DEF Brought, Kept
  <2> QED BY <2>3, <2>4, <2>5 DEF Got
<1>5. Sound(e, U)'
  <2>1. CASE U \ Tracked(e)' # {}
    BY <2>1 DEF Sound, Broken
  <2>2. CASE Refusals(e)' \subseteq Refusals(e) /\ U \ Tracked(e)' = {}
    <3>1. U \ Tracked(e) = {}
      BY <1>1, <2>2
    <3>2. \/ se_state[e] = 1 /\ Refusals(e) = {}
          \/ se_state[e] = 0 /\ \A w \in Writes(e) : w.psn # epsn[WriteQp(e)]
      BY <3>1 DEF Turn, Sound, Broken
    <3>3. CASE se_state[e] = 1 /\ Refusals(e) = {}
      BY <2>2, <3>3 DEF Sound, Kept
    <3>4. CASE se_state[e] = 0 /\ \A w \in Writes(e) : w.psn # epsn[WriteQp(e)]
      <4>1. se_state'[e] = 0 /\ \A w \in Writes(e)' : w.psn # epsn'[WriteQp(e)]
        BY <3>4 DEF Kept
      <4> QED BY <4>1 DEF Sound, Broken
    <3> QED BY <3>2, <3>3, <3>4
  <2> QED BY <2>1, <2>2
<1>6. \A w \in Writes(e)' : w.ackreq = 1 =>
        U = {} /\ Acks(e)' = {} /\ Names(e, n, w)' /\ \A x \in Writes(e)' : x.psn <= w.psn
  <2> SUFFICES ASSUME NEW w \in Writes(e)', w.ackreq = 1
               PROVE  U = {} /\ Acks(e)' = {} /\ Names(e, n, w)'
                      /\ \A x \in Writes(e)' : x.psn <= w.psn
    OBVIOUS
  <2>1. U = {} /\ Acks(e) = {} /\ Names(e, n, w) /\ \A x \in Writes(e) : x.psn <= w.psn
    BY DEF Turn
  <2> QED BY <2>1 DEF Names, Kept
<1>7. \A a \in Acks(e)' :
        /\ U = {} /\ Writes(e)' = {} /\ Names(e, n, a)' /\ a.psn = epsn'[WriteQp(e)] - 1
        /\ \A i \in Block(n) : Brought(e, i)'
  <2> SUFFICES ASSUME NEW a \in Acks(e)'
               PROVE  /\ U = {} /\ Writes(e)' = {} /\ Names(e, n, a)'
                      /\ a.psn = epsn'[WriteQp(e)] - 1
                      /\ \A i \in Block(n) : Brought(e, i)'
    OBVIOUS
  <2>1. /\ U = {} /\ Writes(e) = {} /\ Names(e, n, a) /\ a.psn = epsn[WriteQp(e)] - 1
        /\ \A i \in Block(n) : Brought(e, i)
    BY DEF Turn
  <2> QED BY <2>1 DEF Names, Kept, Brought
<1> QED BY <1>2, <1>3, <1>4, <1>5, <1>6, <1>7 DEF Turn

\* A packet that has no part in the turn of e.
Foreign(e, x) ==
  /\ ~(IsPending(x) /\ Requester(x) = e)
  /\ ~(QpOf(x) = WriteQp(e) /\ (IsOrder(x) \/ IsReply(x)))
  /\ ~(IsNak(x) /\ x.dqpn = e)

LEMMA ForeignKind ==
  ASSUME NEW e \in Se, NEW x \in Received \cup Sent,
         Requester(x) # e \/ x \in RequestAcks \/ IsRequest(x)
  PROVE  Foreign(e, x)
<1>1. CASE x \in RequestAcks \/ IsRequest(x)
  BY <1>1, PendingKind, ResponderNames DEF Foreign
<1>2. CASE Requester(x) # e
  <2>1. x.dqpn # e
    BY <1>2 DEF Requester
  <2>2. QpOf(x) # WriteQp(e)
    <3> SUFFICES ASSUME QpOf(x) = WriteQp(e) PROVE FALSE
      OBVIOUS
    <3>1. ~Aside(x) /\ RequesterOf(QpOf(x)) = e
      BY ResponderNames DEF Aside
    <3>2. CASE x \in Sent
      BY <1>2, <3>1, <3>2, OrderKind, RequestAckKind, RecirculatedKind DEF Sent
    <3>3. CASE x \in Received
      BY <1>2, <3>1, <3>3, AnswerKind, RequestKind, RecirculatedKind
    <3> QED BY <3>2, <3>3
  <2> QED BY <1>2, <2>1, <2>2 DEF Foreign
<1> QED BY <1>1, <1>2

\* What a step that sends nothing for e leaves of what is under way for it.
LEMMA BusyKept ==
  ASSUME NEW e \in Se, NEW S, Moving' \subseteq Moving \cup S, \A x \in S : Foreign(e, x)
  PROVE  /\ Pending(e)' \subseteq Pending(e) /\ Writes(e)' \subseteq Writes(e)
         /\ Acks(e)' \subseteq Acks(e) /\ Refusals(e)' \subseteq Refusals(e)
         /\ Busy(e)' \subseteq Busy(e) /\ Tracked(e)' \subseteq Tracked(e)
<1>1. Pending(e)' \subseteq Pending(e)
  BY DEF Pending, Foreign
<1>2. Writes(e)' \subseteq Writes(e) /\ Acks(e)' \subseteq Acks(e)
  BY DEF Writes, Acks, Traffic, Foreign
<1>3. Refusals(e)' \subseteq Refusals(e)
  BY DEF Refusals, Foreign
<1> QED BY <1>1, <1>2, <1>3 DEF Busy, Tracked

LEMMA OtherTurn ==
  ASSUME TypeOK, PacedInv, NEW e \in Se, OneTurn(e), Kept(e),
         sreq_unack_psn'[e] = sreq_unack_psn[e], se_req_epsn'[e] = se_req_epsn[e],
         sread_psn_to_si'[e] = sread_psn_to_si[e], si_wr_off'[e] = si_wr_off[e],
         NEW S, Moving' \subseteq Moving \cup S, \A x \in S : Foreign(e, x)
  PROVE  OneTurn(e)'
<1> SUFFICES ASSUME Busy(e)' # {}
             PROVE  \E n \in sreq_unack_psn'[e] .. se_req_epsn'[e] - 1 :
                      \E U \in SUBSET Block(n) : Turn(e, n, U)'
  BY DEF OneTurn
<1>1. /\ Pending(e)' \subseteq Pending(e) /\ Writes(e)' \subseteq Writes(e)
      /\ Acks(e)' \subseteq Acks(e) /\ Refusals(e)' \subseteq Refusals(e)
      /\ Busy(e)' \subseteq Busy(e)
  BY BusyKept
<1>2. PICK n \in sreq_unack_psn[e] .. se_req_epsn[e] - 1 :
        \E U \in SUBSET Block(n) : Turn(e, n, U)
  BY <1>1 DEF OneTurn
<1>3. PICK U \in SUBSET Block(n) : Turn(e, n, U)
  BY <1>2
<1>4. n \in Nat
  <2>1. sreq_unack_psn[e] \in Nat /\ se_req_epsn[e] \in Nat
    BY DEF TypeOK, SwitchTypeOK
  <2> QED BY <2>1
<1>5. ASSUME NEW x \in Pending(e)'
      PROVE  Carries(x) \subseteq U /\ Carries(x) \subseteq Tracked(e) /\ Fits(e, n, x)'
  <2>1. x \in Pending(e) /\ Carries(x) \subseteq U /\ Fits(e, n, x)
    BY <1>1, <1>3 DEF Turn
  <2>2. Fits(e, n, x)'
    BY <2>1 DEF Fits, InSlot, Kept
  <2> QED BY <2>1, <2>2 DEF Tracked
<1>6. Turn(e, n, U)'
  BY <1>1, <1>3, <1>4, <1>5, TurnKept
<1> QED BY <1>3, <1>6

-----------------------------------------------------------------------------
(* Items that are under way twice, nowhere.                                *)

\* A READ or its response is between the switch and the item's owner.
LEMMA CarriedFrom ==
  ASSUME NEW e, NEW n, NEW p \in Received \cup Sent, IsPending(p), Fits(e, n, p),
         QpOf(p) \in Responders
  PROVE  /\ \A i \in Carries(p) : i \in Items /\ i % SeNum = QpOf(p)[1]
         /\ QpOf(p)[2] = Requester(p)
<1>1. p.opcode # "LOOPBACK"
  BY PendingKind, RecirculatedKind DEF Aside
<1>2. CASE p.opcode = "READ"
  <2>1. QpOf(p)[1] = p.dmac /\ QpOf(p)[2] = p.dqpn /\ p.dqpn \in Se
    BY <1>2, PendingKind
  <2> QED BY <1>2, <2>1 DEF Fits, Carries, Requester
<1>3. CASE p.opcode = "READ_RESPONSE"
  <2>1. QpOf(p)[1] = p.smac /\ QpOf(p)[2] = p.dqpn /\ p.dqpn \in Se
    BY <1>3, PendingKind
  <2>2. PICK i \in Items : p.data = <<Value(i)>> /\ i % SeNum = p.smac
    BY <1>3 DEF Fits
  <2>3. p \in AnyPacket
    BY PendingKind
  <2>4. Carries(p) = {i}
    BY <1>3, <2>2, <2>3, CarriesFacts
  <2> QED BY <2>1, <2>2, <2>4 DEF Requester
<1> QED BY <1>1, <1>2, <1>3 DEF IsPending

\* The turn a pending packet is part of.
LEMMA InTurnOf ==
  ASSUME TypeOK, NEW e \in Se, OneTurn(e), Busy(e) # {}
  PROVE  \E n \in Nat : /\ n \in sreq_unack_psn[e] .. se_req_epsn[e] - 1
                        /\ \E U \in SUBSET Block(n) : Turn(e, n, U)
<1>1. sreq_unack_psn[e] \in Nat /\ se_req_epsn[e] \in Nat
  BY DEF TypeOK, SwitchTypeOK
<1>2. sreq_unack_psn[e] .. se_req_epsn[e] - 1 \subseteq Nat
  BY <1>1
<1> QED BY <1>2 DEF OneTurn

\* Packets of different queue pairs are for items of different owners.
LEMMA OwnersApart ==
  ASSUME TypeOK, PacedInv, DeliveryInv, NEW a \in Moving, NEW b \in Moving,
         QpOf(a) \in Responders, QpOf(b) \in Responders, QpOf(a) # QpOf(b)
  PROVE  <<a, b>> \in Apart
<1>1. a \in Received \cup Sent /\ b \in Received \cup Sent /\ a \in AnyPacket /\ b \in AnyPacket
      /\ Requester(a) \in Se
  BY KindOf DEF PacedInv
<1>2. CASE ~IsPending(a) \/ ~IsPending(b) \/ Requester(a) # Requester(b)
  BY <1>1, <1>2, ApartFacts
<1>3. CASE IsPending(a) /\ IsPending(b) /\ Requester(a) = Requester(b)
  <2> DEFINE e == Requester(a)
  <2>1. a \in Pending(e) /\ b \in Pending(e)
    BY <1>3 DEF Pending
  <2>2. PICK n \in Nat : \E U \in SUBSET Block(n) : Turn(e, n, U)
    BY <1>1, <2>1, InTurnOf DEF Busy, DeliveryInv
  <2>7. PICK U \in SUBSET Block(n) : Turn(e, n, U)
    BY <2>2
  <2>3. Fits(e, n, a) /\ Fits(e, n, b)
    BY <2>1, <2>7 DEF Turn
  <2>4. /\ \A i \in Carries(a) : i % SeNum = QpOf(a)[1]
        /\ \A i \in Carries(b) : i % SeNum = QpOf(b)[1]
        /\ QpOf(a)[2] = QpOf(b)[2]
    BY <1>1, <1>3, <2>3, CarriedFrom
  <2>5. QpOf(a)[1] # QpOf(b)[1]
    BY <2>4, ResponderNames
  <2> QED BY <1>1, <2>4, <2>5 DEF Apart
<1> QED BY <1>2, <1>3

LEMMA AllApart ==
  ASSUME TypeOK, PacedInv, DeliveryInv, NEW a \in Moving, NEW b \in Moving, a # b
  PROVE  <<a, b>> \in Apart
<1>1. a \in Received \cup Sent /\ b \in Received \cup Sent /\ a \in AnyPacket /\ b \in AnyPacket
  BY KindOf DEF PacedInv
<1>2. CASE ~IsPending(a) \/ ~IsPending(b)
  BY <1>1, <1>2, ApartFacts
<1>3. CASE QpOf(a) \in Responders /\ QpOf(b) \in Responders /\ QpOf(a) # QpOf(b)
  BY <1>3, OwnersApart
<1>4. CASE /\ IsPending(a) /\ IsPending(b)
           /\ QpOf(a) \in Responders /\ QpOf(b) \in Responders => QpOf(a) = QpOf(b)
  <2>1. a \notin RequestAcks /\ b \notin RequestAcks
    BY <1>1, <1>4, PendingKind
  <2>2. Kinds /\ InOrder(Apart)
    BY DEF PacedInv, DeliveryInv
  <2>3. <<a, b>> \in Apart \/ <<b, a>> \in Apart
    BY <1>4, <2>1, <2>2, Comparable
  <2> QED BY <2>3, ApartFacts
<1> QED BY <1>2, <1>3, <1>4

-----------------------------------------------------------------------------
(* Steps that neither read nor write.                                      *)

LEMMA MemoryKept ==
  ASSUME Sources, Bases, Retired,
         UNCHANGED <<buf, se_req_epsn, se_wr_addr, su_wr_addr, sreq_unack_psn>>
  PROVE  Sources' /\ Bases' /\ Retired'
BY DEF Sources, Bases, Retired, Brought

LEMMA QueuedKept ==
  ASSUME Queued, UNCHANGED <<cq, sq, old_req_psn, old_unack_psn>>
  PROVE  Queued'
BY DEF Queued

LEMMA RequestsKept ==
  ASSUME RightRequests, NEW S, Moving' \subseteq Moving \cup S, \A x \in S : ~IsRequest(x),
         \A e \in Se : qp_tx'[ReqQp(e)] = qp_tx[ReqQp(e)]
  PROVE  RightRequests'
BY DEF RightRequests, InFlight

turnVars == <<buf, su_rem, se_state, swrite_psn, swrite_psn_to_su, epsn, se_req_epsn,
              se_wr_addr, su_wr_addr, sreq_unack_psn, sread_psn_to_si, si_wr_off>>

LEMMA QuietDelivery ==
  ASSUME TypeOK, PacedInv, DeliveryInv, InOrder(Apart)', RightRequests', Queued',
         NEW S, Moving' \subseteq Moving \cup S, \A e \in Se, x \in S : Foreign(e, x),
         UNCHANGED turnVars
  PROVE  DeliveryInv'
<1>1. Sources' /\ Bases' /\ Retired'
  BY MemoryKept DEF DeliveryInv, turnVars
<1>2. ASSUME NEW e \in Se PROVE OneTurn(e)'
  <2>1. Kept(e) /\ OneTurn(e)
    BY DEF Kept, turnVars, DeliveryInv
  <2>2. /\ sreq_unack_psn'[e] = sreq_unack_psn[e] /\ se_req_epsn'[e] = se_req_epsn[e]
        /\ sread_psn_to_si'[e] = sread_psn_to_si[e] /\ si_wr_off'[e] = si_wr_off[e]
    BY DEF turnVars
  <2>3. Moving' \subseteq Moving \cup S /\ \A x \in S : Foreign(e, x)
    OBVIOUS
  <2> QED BY <2>1, <2>2, <2>3, OtherTurn
<1> QED BY <1>1, <1>2 DEF DeliveryInv

LEMMA ResponderTxDelivery ==
  ASSUME TypeOK, PacedInv, DeliveryInv, NEW q \in Qps, ResponderTx(q)
  PROVE  DeliveryInv'
<1> DEFINE p == Head(qp_tx[q])
<1>1. /\ q \in Responders /\ qp_tx[q] # <<>> /\ qp_tx' = [qp_tx EXCEPT ![q] = Tail(@)]
      /\ rx_queue' = Append(rx_queue, p) \/ rx_queue' = rx_queue
      /\ tx_queue' = tx_queue /\ qp_rx' = qp_rx /\ UNCHANGED turnVars
      /\ UNCHANGED <<cq, sq, old_req_psn, old_unack_psn>>
  BY DEF ResponderTx, Responders, Arrive, turnVars, responderVars, requesterVars, requestVars,
         readVars, writeVars
<1>2. p \in InFlight(qp_tx[q]) /\ p \in Moving /\ QpOf(p) = q
  <2>1. qp_tx[q] \in Seq(SentBy(q))
    BY DEF PacedInv, Kinds
  <2>2. p \in InFlight(qp_tx[q])
    BY <1>1, <2>1 DEF InFlight
  <2> QED BY <1>1, <2>2, OtherQp DEF PacedInv
<1>3. p = Head(qp_tx[q])
  OBVIOUS
<1> HIDE DEF p
<1>4. ASSUME NEW x \in Moving, QpOf(x) # q PROVE <<p, x>> \in Apart
  BY <1>2, <1>4, AllApart
<1>5. InOrder(Apart)' /\ Moving' \subseteq Moving
  <2>1. Kinds /\ InOrder(Apart)
    BY DEF PacedInv, DeliveryInv
  <2> QED BY <1>1, <1>3, <1>4, <2>1, AnswerLeaves
<1> DEFINE S == {}
<1>6. Moving' \subseteq Moving \cup S /\ \A x \in S : ~IsRequest(x) /\ \A e \in Se : Foreign(e, x)
  BY <1>5
<1> HIDE DEF S
<1>7. \A e \in Se : qp_tx'[ReqQp(e)] = qp_tx[ReqQp(e)]
  <2>1. qp_tx \in [Qps -> Seq(ToSwitch)]
    BY DEF TypeOK, QpTypeOK
  <2> QED BY <1>1, <2>1, QpNames DEF Responders, ReqQp
<1>8. RightRequests' /\ Queued'
  BY <1>1, <1>6, <1>7, RequestsKept, QueuedKept DEF DeliveryInv
<1> QED BY <1>1, <1>5, <1>6, <1>8, QuietDelivery

LEMMA SwitchTxDelivery ==
  ASSUME TypeOK, PacedInv, DeliveryInv, SwitchTx
  PROVE  DeliveryInv'
<1>1. qp_tx' = qp_tx /\ UNCHANGED turnVars /\ UNCHANGED <<cq, sq, old_req_psn, old_unack_psn>>
  BY DEF SwitchTx, turnVars, responderVars, requesterVars, requestVars, readVars, writeVars
<1>2. InOrder(Apart)' /\ Moving' \subseteq Moving
  <2>1. Kinds /\ InOrder(Apart)
    BY DEF PacedInv, DeliveryInv
  <2>2. \A a \in Recirculated, x \in Moving :
          QpOf(x) \in Responders /\ <<x, a>> \in Apart => <<a, x>> \in Apart
    BY ApartFacts
  <2> QED BY <2>1, <2>2, SwitchSends
<1> DEFINE S == {}
<1>3. Moving' \subseteq Moving \cup S /\ \A x \in S : ~IsRequest(x) /\ \A e \in Se : Foreign(e, x)
  BY <1>2
<1> HIDE DEF S
<1>4. RightRequests' /\ Queued'
  BY <1>1, <1>3, RequestsKept, QueuedKept DEF DeliveryInv
<1> QED BY <1>1, <1>2, <1>3, <1>4, QuietDelivery

LEMMA OtherDelivery ==
  ASSUME TypeOK, PacedInv, DeliveryInv, (\E e \in Se : Timeout(e)) \/ UNCHANGED vars
  PROVE  DeliveryInv'
<1>1. UNCHANGED <<rx_queue, tx_queue, qp_tx, qp_rx>> /\ UNCHANGED turnVars
      /\ UNCHANGED <<cq, sq, old_req_psn, old_unack_psn>>
  BY DEF Timeout, Retry, vars, qpVars, responderVars, requesterVars, switchVars, requestVars,
         readVars, writeVars, turnVars
<1>2. Moving' = Moving
  BY <1>1 DEF Moving, InFlight
<1>3. InOrder(Apart)'
  BY <1>1, InOrderParts, InOrderNext DEF DeliveryInv
<1> DEFINE S == {}
<1>4. Moving' \subseteq Moving \cup S /\ \A x \in S : ~IsRequest(x) /\ \A e \in Se : Foreign(e, x)
  BY <1>2
<1> HIDE DEF S
<1>5. RightRequests' /\ Queued'
  BY <1>1, <1>4, RequestsKept, QueuedKept DEF DeliveryInv
<1> QED BY <1>1, <1>3, <1>4, <1>5, QuietDelivery

-----------------------------------------------------------------------------
(* tx_once.                                                                *)

LEMMA RequestIsRight ==
  ASSUME OneWr, Sources, NEW e \in Se, NEW n \in Nat, n * ReqMtu < EleNum
  PROVE  RightRequest(RequestPacket(e, Wr(0), n, 0))
<1> DEFINE off == ReqMtu * (n - 0)
           last == Wr(0).size <= off + ReqMtu
           op == IF n = 0 THEN IF last THEN "WRITE_ONLY" ELSE "WRITE_FIRST"
                 ELSE IF last THEN "WRITE_LAST" ELSE "WRITE_MIDDLE"
           len == IF last THEN Wr(0).size - off ELSE ReqMtu
           cell(k) == buf[e][(Wr(0).s_addr + off + k - 1) % (3 * EleNum)]
           d == [k \in 1 .. len |-> cell(k)]
           a == IF n = 0 THEN Wr(0).d_addr ELSE 0
           p == RequestPacket(e, Wr(0), n, 0)
<1>1. p = [GenPacket(ReqQp(e), op, n) EXCEPT !.addr = a, !.data = d]
  BY DEF RequestPacket
<1>2. p.opcode = op /\ p.psn = n /\ p.addr = a /\ p.data = d
  <2> HIDE DEF op, a, d
  <2> QED BY <1>1 DEF GenPacket, NewPacket
<1>3. Wr(0).s_addr = EleNum /\ Wr(0).d_addr = 2 * EleNum /\ Wr(0).size = EleNum
  BY WorkRequest
<1>4. PICK b \in Nat : b = n * ReqMtu
  BY Sizes
<1>5. off = b /\ b < EleNum
  BY <1>4, Sizes
<1> HIDE DEF off
<1>6. len \in Nat /\ len = BlockEnd(n) - b /\ b + len <= EleNum
  BY <1>3, <1>4, <1>5, Sizes DEF BlockEnd
<1>7. Len(d) = len
  <2> HIDE DEF len, cell
  <2> QED BY <1>6
<1>8. ASSUME NEW k \in 1 .. len PROVE d[k] = b + (k - 1)
  <2>1. PICK c \in Nat : c = EleNum + b + k - 1
    BY <1>6, Sizes
  <2>2. c < 2 * EleNum /\ c >= EleNum
    BY <1>6, <2>1, Sizes
  <2>3. c % (3 * EleNum) = c
    <3>1. PICK m \in Nat \ {0} : m = 3 * EleNum
      BY Sizes
    <3>2. c < m
      BY <2>2, <3>1, Sizes
    <3>3. c % m = c
      BY <3>2
    <3> QED BY <3>1, <3>3
  <2>4. cell(k) = buf[e][c]
    BY <1>3, <1>5, <2>1, <2>3
  <2>5. buf[e][c] = c - EleNum
    <3>1. c \in 0 .. (2 * EleNum) - 1 /\ c \in Addr /\ ~(c < EleNum)
      BY <2>2, Sizes DEF Addr
    <3>2. buf[e][c] = InitBuf[e][c]
      BY <3>1 DEF Sources
    <3> QED BY <2>2, <3>1, <3>2 DEF InitBuf
  <2>6. d[k] = cell(k)
    <3> HIDE DEF len, cell
    <3> QED OBVIOUS
  <2> QED BY <2>1, <2>4, <2>5, <2>6, Sizes
<1>9. op \in {"WRITE_FIRST", "WRITE_ONLY"} <=> n = 0
  OBVIOUS
<1>10. p.opcode \in {"WRITE_FIRST", "WRITE_ONLY"} <=> n = 0
  BY <1>2, <1>9
<1> HIDE DEF op, d, len, p
<1>11. Len(p.data) = BlockEnd(p.psn) - (p.psn * ReqMtu)
  BY <1>2, <1>4, <1>6, <1>7
<1>12. \A k \in 1 .. Len(p.data) : p.data[k] = (p.psn * ReqMtu) + (k - 1)
  BY <1>2, <1>4, <1>7, <1>8
<1>13. p.psn = n /\ (n = 0 => p.addr = 2 * EleNum)
  BY <1>2, <1>3
<1>14. RightRequest(p)
  BY <1>10, <1>11, <1>12, <1>13 DEF RightRequest
<1> QED BY <1>14 DEF p

\* All request packets that tx_once makes are of the one work request.
LEMMA ScanIsRight ==
  ASSUME OneWr, TypeOK, Sources, Queued, NEW e \in Se
  PROVE  \A p \in InFlight(TxScan(e).out) : RightRequest(p)
<1>1. /\ sq[e] \in Seq(Wrs) /\ psn[e] \in Nat /\ old_req_psn[e] \in Nat
      /\ buf \in [Se -> [Addr -> Int]]
  BY DEF TypeOK, QpTypeOK
<1> DEFINE start == [psn |-> psn[e], req_psn |-> old_req_psn[e], out |-> <<>>]
<1>2. /\ Scans(e)[0] = start
      /\ \A i \in 1 .. Len(sq[e]) : Scans(e)[i] = ScanWr(e, Scans(e)[i - 1], sq[e][i])
  BY <1>1, ScansType
<1>3. start.out = <<>>
  OBVIOUS
<1>4. CASE sq[e] = <<>>
  <2>1. TxScan(e) = start
    BY <1>2, <1>4 DEF TxScan
  <2> QED BY <1>3, <2>1, Nothing
<1>5. CASE sq[e] = <<Wr(0)>> /\ old_req_psn[e] = 0
  <2>1. TxScan(e) = ScanWr(e, start, Wr(0))
    <3>1. Len(sq[e]) = 1 /\ sq[e][1] = Wr(0) /\ 1 \in 1 .. Len(sq[e]) /\ 1 - 1 = 0
      BY <1>5
    <3>2. Scans(e)[1] = ScanWr(e, Scans(e)[1 - 1], sq[e][1])
      BY <1>2, <3>1
    <3> HIDE DEF start
    <3> QED BY <1>2, <3>1, <3>2 DEF TxScan
  <2>2. start.psn = psn[e] /\ start.req_psn = 0
    BY <1>5
  <2> HIDE DEF start
  <2>3. PICK n \in Nat : n = psn[e]
    BY <1>1
  <2>4. CASE Wr(0).size <= ReqMtu * (n - 0)
    <3>1. TxScan(e) = [start EXCEPT !.req_psn = @ + PacketsOf(Wr(0))]
      BY <2>1, <2>2, <2>3, <2>4 DEF ScanWr
    <3>2. TxScan(e).out = <<>>
      BY <1>3, <3>1 DEF start
    <3> QED BY <3>2, Nothing
  <2>5. CASE ~(Wr(0).size <= ReqMtu * (n - 0))
    <3> DEFINE m == RequestPacket(e, Wr(0), n, 0)
    <3>1. TxScan(e) = [start EXCEPT !.psn = @ + 1, !.out = Append(@, m)]
      BY <2>1, <2>2, <2>3, <2>5 DEF ScanWr
    <3>2. RightRequest(m)
      <4>1. Wr(0).size = EleNum
        BY WorkRequest
      <4>2. n * ReqMtu < EleNum
        BY <2>5, <4>1, Sizes
      <4> QED BY <4>2, RequestIsRight
    <3> HIDE DEF m
    <3>3. TxScan(e).out = Append(<<>>, m)
      BY <1>3, <3>1 DEF start
    <3>4. \A p \in InFlight(Append(<<>>, m)) : p = m
      BY DEF InFlight
    <3> QED BY <3>2, <3>3, <3>4
  <2> QED BY <2>4, <2>5
<1> QED BY <1>4, <1>5 DEF Queued

LEMMA RequestTxDelivery ==
  ASSUME OneWr, ~Pipelined, TypeOK, PacedInv, DeliveryInv, NEW e \in Se, RequestTx(e)
  PROVE  DeliveryInv'
<1> DEFINE q == ReqQp(e)
           p == Head(TxOut(e))
           s == Tail(TxOut(e))
<1>1. /\ Idle(e) /\ TxOut(e) # <<>> /\ qp_tx' = [qp_tx EXCEPT ![q] = s]
      /\ rx_queue' = Append(rx_queue, p) \/ rx_queue' = rx_queue
      /\ tx_queue' = tx_queue /\ qp_rx' = qp_rx
      /\ UNCHANGED turnVars /\ UNCHANGED <<cq, sq, old_req_psn, old_unack_psn>>
  BY DEF RequestTx, TxOnce, Arrive, turnVars, responderVars, requestVars, readVars, writeVars
<1>2. /\ TxOut(e) \in Seq(SentBy(q)) /\ \A x \in InFlight(TxOut(e)) : RightRequest(x)
      /\ q \in Qps /\ qp_tx \in [Qps -> Seq(ToSwitch)]
  <2>1. TxScan(e) \in Scan(e)
    BY ScansType DEF TypeOK, QpTypeOK
  <2>2. TxScan(e).out \in Seq(SentBy(q))
    BY <2>1, RequestsAreSent DEF Scan
  <2>3. q \in Qps /\ qp_tx[q] \in Seq(SentBy(q)) /\ qp_tx \in [Qps -> Seq(ToSwitch)]
    BY QpNames DEF PacedInv, Kinds, TypeOK, QpTypeOK
  <2>4. InFlight(TxOut(e)) = InFlight(qp_tx[q]) \cup InFlight(TxScan(e).out)
    BY <2>2, <2>3, ConcatFacts DEF TxOut
  <2>5. \A x \in InFlight(TxScan(e).out) : RightRequest(x)
    BY ScanIsRight DEF DeliveryInv
  <2>6. \A x \in InFlight(qp_tx[q]) : RightRequest(x)
    BY DEF DeliveryInv, RightRequests
  <2>7. TxOut(e) \in Seq(SentBy(q))
    BY <2>2, <2>3 DEF TxOut
  <2> QED BY <2>3, <2>4, <2>5, <2>6, <2>7
<1>3. /\ p \in SentBy(q) /\ s \in Seq(SentBy(q))
      /\ RightRequest(p) /\ \A x \in InFlight(s) : RightRequest(x)
  <2> DEFINE o == TxOut(e)
  <2>1. o \in Seq(SentBy(q)) /\ o # <<>> /\ p = Head(o) /\ s = Tail(o)
        /\ \A x \in InFlight(o) : RightRequest(x)
    BY <1>1, <1>2
  <2> HIDE DEF o, p, s, q
  <2> QED BY <2>1, TailFacts
<1> HIDE DEF p, s
<1>4. p \in Received /\ IsRequest(p) /\ p \in AnyPacket
  BY <1>3, RequestQpKind, RequestKind
<1>5. ~IsPending(p) /\ \A f \in Se : Foreign(f, p)
  BY <1>4, PendingKind, ForeignKind
<1>6. \A x \in Moving : <<p, x>> \in Apart /\ <<x, p>> \in Apart
  <2> SUFFICES ASSUME NEW x \in Moving PROVE <<p, x>> \in Apart /\ <<x, p>> \in Apart
    OBVIOUS
  <2>1. x \in AnyPacket
    BY KindOf DEF PacedInv
  <2> QED BY <1>4, <1>5, <2>1, ApartFacts
<1>7. InOrder(Apart)' /\ Moving' \subseteq Moving \cup {p}
  <2>1. Kinds /\ InOrder(Apart)
    BY DEF PacedInv, DeliveryInv
  <2> QED BY <1>1, <1>3, <1>4, <1>6, <2>1, RequestLeaves
<1>8. RightRequests'
  <2>1. \A x \in Moving' : IsRequest(x) => RightRequest(x)
    BY <1>3, <1>7 DEF DeliveryInv, RightRequests
  <2>2. ASSUME NEW f \in Se PROVE \A x \in InFlight(qp_tx'[ReqQp(f)]) : RightRequest(x)
    <3>1. CASE f = e
      BY <1>1, <1>2, <1>3, <3>1
    <3>2. CASE f # e
      <4>1. ReqQp(f) \in Qps /\ ReqQp(f) # q
        BY <3>2, QpNames DEF ReqQp
      <4>2. qp_tx'[ReqQp(f)] = qp_tx[ReqQp(f)]
        BY <1>1, <1>2, <4>1
      <4> QED BY <4>2 DEF DeliveryInv, RightRequests
    <3> QED BY <3>1, <3>2
  <2>3. \A f \in Se : \A x \in InFlight(qp_tx[ReqQp(f)])' : RightRequest(x)
    BY <2>2 DEF InFlight
  <2> QED BY <2>1, <2>3 DEF RightRequests
<1>9. Queued'
  BY <1>1, QueuedKept DEF DeliveryInv
<1> DEFINE S == {p}
<1>10. Moving' \subseteq Moving \cup S /\ \A f \in Se, x \in S : Foreign(f, x)
  BY <1>5, <1>7
<1> HIDE DEF S
<1> QED BY <1>1, <1>7, <1>8, <1>9, <1>10, QuietDelivery

-----------------------------------------------------------------------------
(* rx of a request QP.                                                     *)

LEMMA FirstOnes ==
  ASSUME NEW S, NEW s \in Seq(S)
  PROVE  /\ SubSeq(s, 1, 0) = <<>> /\ SubSeq(s, 0 + 1, Len(s)) = s
         /\ SubSeq(s, 1, Len(s)) = s /\ SubSeq(s, Len(s) + 1, Len(s)) = <<>>
         /\ s \o <<>> = s /\ <<>> \o s = s
<1>1. Len(s) \in Nat /\ 0 + 1 = 1
  OBVIOUS
<1>2. SubSeq(s, 1, Len(s)) = s
  BY SubSeqFull
<1>3. SubSeq(s, 1, 0) = <<>> /\ SubSeq(s, Len(s) + 1, Len(s)) = <<>>
  BY <1>1, SubSeqEmpty
<1> QED BY <1>1, <1>2, <1>3, ConcatEmptySeq

LEMMA QueuedNext ==
  ASSUME TypeOK, Queued, NEW e \in Se, NEW p \in FromSwitch, RxAck(e, p) \/ RxOldAck(e, p)
  PROVE  Queued'
<1>1. CASE RxOldAck(e, p)
  BY <1>1, QueuedKept DEF RxOldAck, requesterVars
<1>2. CASE RxAck(e, p)
  <2>1. PICK k \in 0 .. Len(sq[e]) :
          /\ Completes(e, p.psn + 1, k)
          /\ cq' = [cq EXCEPT ![e] = @ \o SubSeq(sq[e], 1, k)]
          /\ sq' = [sq EXCEPT ![e] = SubSeq(@, k + 1, Len(@))]
          /\ old_req_psn' = [old_req_psn EXCEPT ![e] = EndPsn(e)[k]]
    BY <1>2 DEF RxAck
  <2>2. old_unack_psn' = [old_unack_psn EXCEPT ![e] = p.psn + 1] /\ p.psn >= old_unack_psn[e]
    BY <1>2 DEF RxAck
  <2>3. /\ cq \in [Se -> Seq(Wrs)] /\ sq \in [Se -> Seq(Wrs)]
        /\ old_req_psn \in [Se -> Nat] /\ old_unack_psn \in [Se -> Nat] /\ p.psn \in Nat
    BY DEF TypeOK, QpTypeOK, FromSwitch, Packets
  <2>4. \A f \in Se \ {e} : /\ cq'[f] = cq[f] /\ sq'[f] = sq[f]
                            /\ old_req_psn'[f] = old_req_psn[f]
                            /\ old_unack_psn'[f] = old_unack_psn[f]
    BY <2>1, <2>2, <2>3
  <2>5. /\ cq'[e] = cq[e] \o SubSeq(sq[e], 1, k) /\ sq'[e] = SubSeq(sq[e], k + 1, Len(sq[e]))
        /\ old_req_psn'[e] = EndPsn(e)[k] /\ old_unack_psn'[e] = p.psn + 1
    BY <2>1, <2>2, <2>3
  <2>6. /\ EndPsn(e)[0] = old_req_psn[e]
        /\ \A j \in 1 .. Len(sq[e]) : EndPsn(e)[j] = EndPsn(e)[j - 1] + PacketsOf(sq[e][j])
    BY <2>3, EndPsnType
  <2>10. \A s \in Seq(Wrs) :
           /\ SubSeq(s, 1, 0) = <<>> /\ SubSeq(s, 0 + 1, Len(s)) = s
           /\ SubSeq(s, 1, Len(s)) = s /\ SubSeq(s, Len(s) + 1, Len(s)) = <<>>
           /\ s \o <<>> = s /\ <<>> \o s = s
    BY FirstOnes
  <2>11. PacketsOf(Wr(0)) \in Int
    <3>1. PacketsOf(Wr(0)) = (Wr(0).size + ReqMtu - 1) \div ReqMtu /\ Wr(0).size \in Int
      BY Sizes DEF PacketsOf, CeilDiv, Wr
    <3> QED BY <3>1, Sizes
  <2>7. ASSUME sq[e] = <<>>, cq[e] = <<Wr(0)>>, PacketsOf(Wr(0)) <= old_unack_psn[e]
        PROVE  sq'[e] = <<>> /\ cq'[e] = <<Wr(0)>> /\ PacketsOf(Wr(0)) <= old_unack_psn'[e]
    <3>1. k = 0
      BY <2>7
    <3>2. cq[e] \in Seq(Wrs) /\ sq[e] \in Seq(Wrs)
      BY <2>3
    <3>3. SubSeq(sq[e], 1, 0) = <<>> /\ SubSeq(sq[e], 0 + 1, Len(sq[e])) = sq[e]
          /\ cq[e] \o <<>> = cq[e]
      BY <2>10, <3>2
    <3>4. sq'[e] = sq[e] /\ cq'[e] = cq[e]
      BY <2>5, <3>1, <3>3
    <3>5. PacketsOf(Wr(0)) <= old_unack_psn'[e]
      <4>1. old_unack_psn[e] \in Nat /\ old_unack_psn'[e] = p.psn + 1
        BY <2>3, <2>5
      <4> QED BY <2>2, <2>3, <2>7, <2>11, <4>1
    <3> QED BY <2>7, <3>4, <3>5
  <2>8. ASSUME sq[e] = <<Wr(0)>>, old_req_psn[e] = 0, cq[e] = <<>>
        PROVE  \/ sq'[e] = <<Wr(0)>> /\ old_req_psn'[e] = 0 /\ cq'[e] = <<>>
               \/ sq'[e] = <<>> /\ cq'[e] = <<Wr(0)>> /\ PacketsOf(Wr(0)) <= old_unack_psn'[e]
    <3>1. Len(sq[e]) = 1 /\ sq[e][1] = Wr(0) /\ (k = 0 \/ k = 1)
      BY <2>8
    <3>2. cq[e] \in Seq(Wrs) /\ sq[e] \in Seq(Wrs)
      BY <2>3
    <3>3. CASE k = 0
      <4>1. SubSeq(sq[e], 1, 0) = <<>> /\ SubSeq(sq[e], 0 + 1, Len(sq[e])) = sq[e]
            /\ cq[e] \o <<>> = cq[e]
        BY <2>10, <3>2
      <4>2. sq'[e] = sq[e] /\ cq'[e] = cq[e]
        BY <2>5, <3>3, <4>1
      <4> QED BY <2>5, <2>6, <2>8, <3>3, <4>2
    <3>4. CASE k = 1
      <4>1. SubSeq(sq[e], 1, 1) = sq[e] /\ SubSeq(sq[e], 1 + 1, Len(sq[e])) = <<>>
            /\ <<>> \o sq[e] = sq[e]
        BY <2>10, <3>1, <3>2
      <4>2. sq'[e] = <<>> /\ cq'[e] = sq[e]
        BY <2>5, <2>8, <3>4, <4>1
      <4>3. EndPsn(e)[1] = EndPsn(e)[1 - 1] + PacketsOf(sq[e][1])
        BY <2>6, <3>1
      <4>4. EndPsn(e)[1] = PacketsOf(Wr(0))
        BY <2>6, <2>8, <2>11, <3>1, <4>3
      <4>5. EndPsn(e)[1] <= p.psn + 1
        BY <2>1, <3>4 DEF Completes
      <4> QED BY <2>5, <2>8, <4>2, <4>4, <4>5
    <3> QED BY <3>1, <3>3, <3>4
  <2> DEFINE Q(f) ==
        \/ sq[f] = <<Wr(0)>> /\ old_req_psn[f] = 0 /\ cq[f] = <<>>
        \/ sq[f] = <<>> /\ cq[f] = <<Wr(0)>> /\ PacketsOf(Wr(0)) <= old_unack_psn[f]
  <2>9. ASSUME NEW f \in Se PROVE Q(f)'
    <3>1. Q(f)
      BY DEF Queued
    <3>2. CASE f = e
      BY <2>7, <2>8, <3>1, <3>2
    <3>3. CASE f # e
      BY <2>4, <3>1, <3>3
    <3> QED BY <3>2, <3>3
  <2> QED BY <2>9 DEF Queued
<1> QED BY <1>1, <1>2

LEMMA RequesterRxDelivery ==
  ASSUME TypeOK, PacedInv, DeliveryInv, NEW e \in Se, QpRx(ReqQp(e))
  PROVE  DeliveryInv'
<1> DEFINE q == ReqQp(e)
           p == Head(qp_rx[q])
<1>1. /\ qp_rx[q] # <<>> /\ qp_rx' = [qp_rx EXCEPT ![q] = Tail(@)]
      /\ RequesterRx(q, p) \/ ResponderRx(q, p)
      /\ rx_queue' = rx_queue /\ tx_queue' = tx_queue /\ UNCHANGED switchVars
  BY DEF QpRx, QpRxOnce, switchVars
<1>2. p \in RequestAcks /\ p \in FromSwitch
  <2>1. q \in Qps /\ qp_rx[q] \in Seq(SentTo(q))
    BY QpNames DEF PacedInv, Kinds
  <2>2. p \in SentTo(q)
    BY <1>1, <2>1
  <2>3. p \in RequestAcks
    BY <2>2, RequestQpKind
  <2> QED BY <2>3 DEF RequestAcks
<1> HIDE DEF p
<1>3. RequesterRx(q, p)
  BY <1>1, <1>2 DEF ResponderRx, RequestAcks
<1>4. qp_tx' = qp_tx /\ UNCHANGED responderVars /\ (RxAck(e, p) \/ RxOldAck(e, p))
  BY <1>3 DEF RequesterRx, ReqQp
<1>5. UNCHANGED turnVars
  BY <1>1, <1>4 DEF turnVars, responderVars, switchVars, requestVars, readVars, writeVars
<1>6. InOrder(Apart)' /\ Moving' \subseteq Moving
  <2>1. Kinds /\ InOrder(Apart)
    BY DEF PacedInv, DeliveryInv
  <2> QED BY <1>1, <1>4, <2>1, AckTaken
<1>7. Queued'
  BY <1>2, <1>4, QueuedNext DEF DeliveryInv
<1> DEFINE S == {}
<1>8. Moving' \subseteq Moving \cup S /\ \A x \in S : ~IsRequest(x) /\ \A f \in Se : Foreign(f, x)
  BY <1>6
<1> HIDE DEF S
<1>9. RightRequests'
  BY <1>4, <1>8, RequestsKept DEF DeliveryInv
<1> QED BY <1>5, <1>6, <1>7, <1>8, <1>9, QuietDelivery

-----------------------------------------------------------------------------
(* rx of a read or write QP.                                               *)

\* The queue pair takes p and sends S.
Handled(q, p, S) ==
  /\ qp_rx[q] # <<>> /\ p = Head(qp_rx[q]) /\ qp_rx' = [qp_rx EXCEPT ![q] = Tail(@)]
  /\ S \subseteq SentBy(q) /\ Answered(q, p, S, Apart)
  /\ UNCHANGED <<switchVars, requesterVars>>

\* A packet that shares no more than another does is apart from what that is.
LEMMA SameCarried ==
  ASSUME NEW p, NEW r \in AnyPacket, NEW x \in AnyPacket,
         IsPending(r) => IsPending(p) /\ Requester(r) = Requester(p) /\ Carries(r) \subseteq Carries(p)
  PROVE  /\ <<x, p>> \in Apart => <<x, r>> \in Apart
         /\ <<p, x>> \in Apart => <<r, x>> \in Apart
<1>1. CASE ~IsPending(r) \/ ~IsPending(x) \/ Requester(r) # Requester(x)
  BY <1>1, ApartFacts
<1>2. CASE IsPending(r) /\ IsPending(x) /\ Requester(r) = Requester(x)
  <2>1. <<x, p>> \in Apart \/ <<p, x>> \in Apart => Carries(x) \cap Carries(p) = {}
    BY <1>2 DEF Apart
  <2>2. Carries(x) \cap Carries(p) = {} => <<x, r>> \in Apart /\ <<r, x>> \in Apart
    BY <1>2 DEF Apart
  <2> QED BY <2>1, <2>2
<1> QED BY <1>1, <1>2

LEMMA HandledQueues ==
  ASSUME TypeOK, PacedInv, DeliveryInv, NEW q \in Responders, NEW p, NEW S, Handled(q, p, S)
  PROVE  /\ InOrder(Apart)' /\ Moving' \subseteq Moving \cup S
         /\ \A x \in Moving' : x \in S \/ <<p, x>> \in Apart
<1>1. /\ qp_rx[q] # <<>> /\ p = Head(qp_rx[q]) /\ qp_rx' = [qp_rx EXCEPT ![q] = Tail(@)]
      /\ Answered(q, p, S, Apart) /\ rx_queue' = rx_queue /\ tx_queue' = tx_queue
  BY DEF Handled, switchVars
<1>2. Kinds /\ InOrder(Apart)
  BY DEF PacedInv, DeliveryInv
<1>3. /\ InOrder(Apart)' /\ Moving' \subseteq Moving \cup S
      /\ \A x \in Moving' : \/ x \in S \/ x \in RequestAcks \/ QpOf(x) \in Responders \ {q}
                            \/ <<p, x>> \in Apart \/ <<x, p>> \in Apart
  BY <1>1, <1>2, OrderTaken
<1>4. p \in Moving /\ QpOf(p) = q /\ p \in AnyPacket
  BY <1>1, NoDuplicate, TrafficTypes DEF Traffic
<1>5. ASSUME NEW x \in Moving', x \notin S PROVE <<p, x>> \in Apart
  <2>1. x \in Moving
    BY <1>3, <1>5
  <2>2. x \in Received \cup Sent /\ x \in AnyPacket
    BY <2>1, KindOf DEF PacedInv
  <2>3. CASE x \in RequestAcks
    BY <1>4, <2>2, <2>3, PendingKind, ApartFacts
  <2>4. CASE QpOf(x) \in Responders \ {q}
    BY <1>4, <2>1, <2>4, OwnersApart
  <2>5. CASE <<x, p>> \in Apart
    BY <2>5, ApartFacts
  <2> QED BY <1>3, <1>5, <2>3, <2>4, <2>5
<1> QED BY <1>3, <1>5

LEMMA HandledDelivery ==
  ASSUME TypeOK, PacedInv, DeliveryInv, NEW q \in Responders, NEW p, NEW S, Handled(q, p, S),
         epsn' = epsn \/ epsn' = [epsn EXCEPT ![q] = @ + 1],
         \A f \in Se : f # RequesterOf(q) => buf'[f] = buf[f],
         OneTurn(RequesterOf(q))', Sources', Retired'
  PROVE  DeliveryInv'
<1> DEFINE e == RequesterOf(q)
<1>1. InOrder(Apart)' /\ Moving' \subseteq Moving \cup S
  BY HandledQueues
<1>2. /\ S \subseteq SentBy(q) /\ Answered(q, p, S, Apart)
      /\ UNCHANGED <<cq, sq, old_req_psn, old_unack_psn>>
      /\ UNCHANGED <<se_state, su_rem, requestVars, readVars, writeVars>>
  BY DEF Handled, requesterVars, switchVars
<1>3. \A r \in S : r \in Received /\ ~IsRequest(r) /\ Requester(r) = e
  BY <1>2, SentByKind, AnswerKind
<1>4. RightRequests'
  <2>1. \A f \in Se : qp_tx'[ReqQp(f)] = qp_tx[ReqQp(f)]
    <3>1. qp_tx \in [Qps -> Seq(ToSwitch)]
      BY DEF TypeOK, QpTypeOK
    <3>2. \A f \in Se : ReqQp(f) \in Qps /\ ReqQp(f) # q
      BY QpNames DEF Responders, ReqQp
    <3> QED BY <1>2, <3>1, <3>2 DEF Answered
  <2> QED BY <1>1, <1>3, <2>1, RequestsKept DEF DeliveryInv
<1>5. Queued'
  BY <1>2, QueuedKept DEF DeliveryInv
<1>6. Bases'
  BY <1>2 DEF DeliveryInv, Bases, requestVars
<1>7. ASSUME NEW f \in Se, f # e PROVE OneTurn(f)'
  <2>1. epsn'[WriteQp(f)] = epsn[WriteQp(f)]
    <3>1. epsn \in [Qps -> Nat] /\ WriteQp(f) \in Qps /\ WriteQp(f) # q
      BY <1>7, ResponderNames DEF TypeOK, QpTypeOK
    <3> QED BY <3>1
  <2>2. Kept(f) /\ OneTurn(f)
    BY <1>2, <1>7, <2>1 DEF Kept, DeliveryInv, writeVars
  <2>3. /\ sreq_unack_psn'[f] = sreq_unack_psn[f] /\ se_req_epsn'[f] = se_req_epsn[f]
        /\ sread_psn_to_si'[f] = sread_psn_to_si[f] /\ si_wr_off'[f] = si_wr_off[f]
    BY <1>2 DEF requestVars, readVars
  <2>4. \A x \in S : Foreign(f, x)
    BY <1>3, <1>7, ForeignKind
  <2> QED BY <1>1, <2>2, <2>3, <2>4, OtherTurn
<1>8. \A f \in Se : OneTurn(f)'
  BY <1>7
<1> QED BY <1>1, <1>4, <1>5, <1>6, <1>8 DEF DeliveryInv

\* The turn of a requester after a step that leaves its registers alone.
LEMMA TurnGoesOn ==
  ASSUME TypeOK, PacedInv, NEW e \in Se, NEW n \in Nat, NEW U \in SUBSET Block(n),
         n \in sreq_unack_psn[e] .. se_req_epsn[e] - 1,
         UNCHANGED <<sreq_unack_psn, se_req_epsn>>, Turn(e, n, U)'
  PROVE  OneTurn(e)'
BY DEF OneTurn

LEMMA TurnOf ==
  ASSUME TypeOK, DeliveryInv, NEW e \in Se, Busy(e) # {}
  PROVE  \E n \in Nat : /\ n \in sreq_unack_psn[e] .. se_req_epsn[e] - 1
                        /\ \E U \in SUBSET Block(n) : Turn(e, n, U)
BY InTurnOf DEF DeliveryInv

\* A read or write QP takes the order at its head, or refuses it.
LEMMA OrderAt ==
  ASSUME TypeOK, PacedInv, NEW q \in Responders, QpRx(q), NEW p, p = Head(qp_rx[q])
  PROVE  /\ qp_rx[q] # <<>> /\ qp_rx' = [qp_rx EXCEPT ![q] = Tail(@)]
         /\ UNCHANGED <<switchVars, requesterVars>>
         /\ p \in SentTo(q) /\ p \in Orders /\ p \in Traffic(q) /\ p \in FromSwitch
         /\ p \in Moving /\ QpOf(p) = q /\ Requester(p) = RequesterOf(q)
         /\ p.psn \in Nat /\ epsn[q] \in Nat /\ msn[q] \in Nat
         /\ \/ p.psn > epsn[q] /\ RxOutOfOrder(q, p)
            \/ p.psn = epsn[q] /\ RxInOrder(q, p)
         /\ \/ p.opcode = "READ" /\ q[2] \in Se
            \/ p.opcode = "WRITE_ONLY" /\ q[2] = SWriteQpn
<1>1. /\ qp_rx[q] # <<>> /\ qp_rx' = [qp_rx EXCEPT ![q] = Tail(@)]
      /\ RequesterRx(q, p) \/ ResponderRx(q, p)
      /\ UNCHANGED switchVars
  BY DEF QpRx, QpRxOnce
<1>2. /\ p \in SentTo(q) /\ p \in Orders /\ p \in Traffic(q) /\ p \in FromSwitch
      /\ p.psn \in Nat /\ epsn[q] \in Nat /\ msn[q] \in Nat /\ p.psn >= epsn[q]
  BY <1>1, NoDuplicate
<1>3. ResponderRx(q, p)
  BY <1>1 DEF RequesterRx, Responders
<1>4. p \in Moving /\ QpOf(p) = q /\ Requester(p) = RequesterOf(q)
  BY <1>2, OrderKind DEF Traffic
<1>5. \/ p.psn > epsn[q] /\ RxOutOfOrder(q, p)
      \/ p.psn = epsn[q] /\ RxInOrder(q, p)
  BY <1>2, <1>3 DEF ResponderRx, RxDuplicate, RxOutOfOrder, RxInOrder
<1>6. \/ p.opcode = "READ" /\ q[2] \in Se
      \/ p.opcode = "WRITE_ONLY" /\ q[2] = SWriteQpn
  BY <1>2 DEF Orders, SentTo
<1>7. UNCHANGED requesterVars
  BY <1>3 DEF ResponderRx
<1> QED BY <1>1, <1>2, <1>4, <1>5, <1>6, <1>7

\* A refusal is no part of what is under way.
LEMMA RefusalKind ==
  ASSUME NEW q \in Responders, NEW r \in SentBy(q), IsNak(r)
  PROVE  /\ QpOf(r) = q /\ ~IsPending(r) /\ ~IsOrder(r) /\ ~IsReply(r) /\ r \in AnyPacket
         /\ q[2] = SWriteQpn => r.dqpn \notin Se
<1>1. r \in Received /\ r \notin Recirculated /\ ~IsRequest(r) /\ QpOf(r) = q
  BY SentByKind
<1>2. ~IsOrder(r) /\ ~IsReply(r) /\ r \in AnyPacket
  BY <1>1, AnswerKind
<1>3. q[2] = SWriteQpn => r.dqpn \notin Se
  BY Numbers DEF SentBy, Dqpn
<1> QED BY <1>1, <1>2, <1>3 DEF IsNak, IsPending

LEMMA RefusedHandled ==
  ASSUME TypeOK, PacedInv, NEW q \in Responders, QpRx(q), NEW p, p = Head(qp_rx[q]),
         RxOutOfOrder(q, p)
  PROVE  \E r \in SentBy(q) : IsNak(r) /\ UNCHANGED responderVars /\ Handled(q, p, {r})
<1> DEFINE r == [GenPacket(q, "NAK", epsn[q]) EXCEPT !.msn = msn[q]]
<1>1. qp_tx' = [qp_tx EXCEPT ![q] = Append(@, r)] /\ UNCHANGED responderVars
  BY DEF RxOutOfOrder, Reply
<1>2. r \in SentBy(q) /\ IsNak(r)
  BY OrderAt, NakKind
<1> HIDE DEF r
<1>3. ~IsPending(r) /\ r \in AnyPacket
  BY <1>2, RefusalKind
<1>4. \A x \in Moving : /\ <<x, p>> \in Apart => <<x, r>> \in Apart
                        /\ <<p, x>> \in Apart => <<r, x>> \in Apart
  <2>1. \A x \in Moving : x \in AnyPacket
    BY KindOf DEF PacedInv
  <2> QED BY <1>3, <2>1, SameCarried
<1> DEFINE S == {r}
<1>5. S = {r} /\ S \subseteq SentBy(q)
  BY <1>2
<1> HIDE DEF S
<1>6. Answered(q, p, S, Apart)
  BY <1>1, <1>2, <1>4, <1>5 DEF Answered
<1>7. Handled(q, p, S)
  BY <1>5, <1>6, OrderAt DEF Handled
<1> QED BY <1>1, <1>2, <1>5, <1>7

LEMMA WriteRefusedDelivery ==
  ASSUME TypeOK, PacedInv, DeliveryInv, NEW q \in Responders, QpRx(q), NEW p, p = Head(qp_rx[q]),
         RxOutOfOrder(q, p), q[2] = SWriteQpn
  PROVE  DeliveryInv'
<1> DEFINE e == RequesterOf(q)
<1>1. PICK r \in SentBy(q) : IsNak(r) /\ UNCHANGED responderVars /\ Handled(q, p, {r})
  BY RefusedHandled
<1> DEFINE S == {r}
<1>2. Handled(q, p, S) /\ \A x \in S : x = r
  BY <1>1
<1> HIDE DEF S
<1>3. ~IsPending(r) /\ ~IsOrder(r) /\ ~IsReply(r) /\ r.dqpn \notin Se
  BY <1>1, RefusalKind
<1>4. \A f \in Se : \A x \in S : Foreign(f, x)
  BY <1>2, <1>3 DEF Foreign
<1>5. Moving' \subseteq Moving \cup S
  BY <1>2, HandledQueues
<1>6. UNCHANGED turnVars
  BY <1>1, <1>2 DEF Handled, turnVars, responderVars, switchVars, requestVars, readVars, writeVars
<1>7. ASSUME NEW f \in Se PROVE OneTurn(f)'
  <2>1. Kept(f) /\ OneTurn(f)
    BY <1>6 DEF Kept, turnVars, DeliveryInv
  <2>2. /\ sreq_unack_psn'[f] = sreq_unack_psn[f] /\ se_req_epsn'[f] = se_req_epsn[f]
        /\ sread_psn_to_si'[f] = sread_psn_to_si[f] /\ si_wr_off'[f] = si_wr_off[f]
    BY <1>6 DEF turnVars
  <2> QED BY <1>4, <1>5, <2>1, <2>2, OtherTurn
<1>8. Sources' /\ Retired'
  BY <1>6, MemoryKept DEF DeliveryInv, turnVars
<1>9. epsn' = epsn /\ buf' = buf
  BY <1>6 DEF turnVars
<1>10. RequesterOf(q) \in Se
  BY ResponderNames
<1> QED BY <1>2, <1>7, <1>8, <1>9, <1>10, HandledDelivery

LEMMA ReadRefusedDelivery ==
  ASSUME TypeOK, PacedInv, DeliveryInv, NEW q \in Responders, QpRx(q), NEW p, p = Head(qp_rx[q]),
         RxOutOfOrder(q, p), q[2] \in Se
  PROVE  DeliveryInv'
<1> DEFINE e == RequesterOf(q)
<1>1. PICK r \in SentBy(q) : IsNak(r) /\ UNCHANGED responderVars /\ Handled(q, p, {r})
  BY RefusedHandled
<1> DEFINE S == {r}
<1>2. Handled(q, p, S) /\ \A x \in S : x = r
  BY <1>1
<1> HIDE DEF S
<1>3. ~IsPending(r) /\ ~IsOrder(r) /\ ~IsReply(r)
  BY <1>1, RefusalKind
<1>4. /\ Moving' \subseteq Moving \cup S
      /\ \A x \in Moving' : x \in S \/ <<p, x>> \in Apart
  BY <1>2, HandledQueues
<1>5. UNCHANGED turnVars
  BY <1>1, <1>2 DEF Handled, turnVars, responderVars, switchVars, requestVars, readVars, writeVars
<1>6. e \in Se /\ p \in Moving /\ Requester(p) = e /\ IsPending(p) /\ p.opcode = "READ"
  <2>1. p.opcode = "READ"
    BY OrderAt, Numbers
  <2> QED BY <2>1, OrderAt, ResponderNames DEF IsPending
<1> HIDE DEF e
<1>7. p \in Pending(e)
  BY <1>6 DEF Pending
<1>8. PICK n \in Nat : /\ n \in sreq_unack_psn[e] .. se_req_epsn[e] - 1
                       /\ \E U \in SUBSET Block(n) : Turn(e, n, U)
  BY <1>6, <1>7, TurnOf DEF Busy
<1>9. PICK U \in SUBSET Block(n) : Turn(e, n, U)
  BY <1>8
<1>10. /\ Pending(e)' \subseteq Pending(e) /\ Writes(e)' \subseteq Writes(e)
       /\ Acks(e)' \subseteq Acks(e)
  <2>1. Pending(e)' \subseteq Pending(e)
    BY <1>2, <1>3, <1>4 DEF Pending
  <2> QED BY <1>2, <1>3, <1>4, <2>1 DEF Writes, Acks, Traffic
<1>11. p.addr \in U
  BY <1>6, <1>7, <1>9 DEF Turn, Carries
<1>12. p.addr \notin Tracked(e)'
  <2>1. ASSUME NEW x \in Pending(e)' PROVE p.addr \notin Carries(x)
    <3>1. x \in Moving' /\ IsPending(x) /\ Requester(x) = e
      BY DEF Pending
    <3>2. <<p, x>> \in Apart
      BY <1>2, <1>3, <1>4, <3>1
    <3>3. Carries(p) \cap Carries(x) = {}
      BY <1>6, <3>1, <3>2, ApartFacts
    <3> QED BY <1>6, <3>3 DEF Carries
  <2> QED BY <2>1 DEF Tracked
<1>13. U \ Tracked(e)' # {}
  BY <1>11, <1>12
<1>14. Kept(e)
  BY <1>5 DEF Kept, turnVars
<1>15. \A x \in Pending(e)' :
         Carries(x) \subseteq U /\ Carries(x) \subseteq Tracked(e) /\ Fits(e, n, x)'
  <2>1. ASSUME NEW x \in Pending(e)'
        PROVE  Carries(x) \subseteq U /\ Carries(x) \subseteq Tracked(e) /\ Fits(e, n, x)'
    <3>1. x \in Pending(e) /\ Carries(x) \subseteq U /\ Fits(e, n, x)
      BY <1>9, <1>10 DEF Turn
    <3>2. Fits(e, n, x)'
      BY <1>5, <3>1 DEF Fits, InSlot, turnVars
    <3> QED BY <3>1, <3>2 DEF Tracked
  <2> QED BY <2>1
<1>16. Turn(e, n, U)'
  BY <1>6, <1>9, <1>10, <1>13, <1>14, <1>15, TurnKept
<1>17. OneTurn(e)'
  BY <1>5, <1>6, <1>8, <1>16, TurnGoesOn DEF turnVars
<1>18. Sources' /\ Retired'
  BY <1>5, MemoryKept DEF DeliveryInv, turnVars
<1>19. epsn' = epsn /\ buf' = buf
  BY <1>5 DEF turnVars
<1> QED BY <1>2, <1>17, <1>18, <1>19, HandledDelivery DEF e

\* A READ of the turn is answered with what the item asks for.
LEMMA ReadTakenDelivery ==
  ASSUME TypeOK, PacedInv, DeliveryInv, NEW q \in Responders, QpRx(q), NEW p, p = Head(qp_rx[q]),
         RxInOrder(q, p), q[2] \in Se
  PROVE  DeliveryInv'
<1> DEFINE e == RequesterOf(q)
           i == p.addr
<1>0. p.opcode = "READ"
  BY OrderAt, Numbers
<1>1. epsn' = [epsn EXCEPT ![q] = @ + 1] /\ buf' = buf
  BY <1>0 DEF RxInOrder
<1>2. PICK r : /\ qp_tx' = [qp_tx EXCEPT ![q] = Append(@, r)]
               /\ r \in SentBy(q) /\ r.opcode = "READ_RESPONSE" /\ r.psn = p.psn
               /\ r.data = Slice(q[1], i)
  <2> DEFINE a == ReadResponse(q, p, p.psn)
  <2>1. qp_tx' = [qp_tx EXCEPT ![q] = Append(@, a)]
    BY <1>0 DEF RxInOrder, Reply
  <2>2. p \in FromSwitch /\ p.psn \in Nat
    BY OrderAt
  <2>3. a \in SentBy(q) /\ a.opcode = "READ_RESPONSE" /\ a.psn = p.psn /\ a.data = Slice(q[1], i)
    BY <2>2, ReadResponseKind
  <2> HIDE DEF a
  <2> QED BY <2>1, <2>3
<1>3. UNCHANGED <<switchVars, requesterVars>>
  BY OrderAt
<1>4. /\ r \in Received /\ ~IsRequest(r) /\ QpOf(r) = q /\ r \in AnyPacket /\ Requester(r) = e
      /\ IsPending(r) /\ ~IsOrder(r) /\ ~IsNak(r)
  BY <1>2, SentByKind, AnswerKind DEF IsPending, IsNak
<1>5. r.smac = q[1] /\ p.dmac = q[1] /\ e \in Se
  <2>1. QpOf(r) = <<r.smac, r.dqpn>>
    BY <1>2, <1>4, PendingKind
  <2>2. QpOf(p) = <<p.dmac, p.dqpn>> /\ QpOf(p) = q
    BY OrderAt, OrderKind
  <2> QED BY <1>4, <2>1, <2>2, ResponderNames
<1>6. p \in Moving /\ Requester(p) = e /\ IsPending(p) /\ p \in AnyPacket /\ p \in Pending(e)
  BY <1>0, OrderAt, OrderKind DEF IsPending, Pending
<1> HIDE DEF e
<1>7. PICK n \in Nat : /\ n \in sreq_unack_psn[e] .. se_req_epsn[e] - 1
                       /\ \E U \in SUBSET Block(n) : Turn(e, n, U)
  BY <1>5, <1>6, TurnOf DEF Busy
<1>8. PICK U \in SUBSET Block(n) : Turn(e, n, U)
  BY <1>7
<1>9. /\ Carries(p) \subseteq U /\ Carries(p) = {i} /\ i \in Items /\ i % SeNum = q[1]
      /\ se_state[e] = 1 => InSlot(e, q[1], p.psn, n, i)
  BY <1>0, <1>5, <1>6, <1>8 DEF Turn, Fits, Carries
<1>10. r.data = <<Value(i)>>
  <2>1. i \in 0 .. (2 * EleNum) - 1 /\ i \in Addr /\ i < EleNum
    BY <1>9, Sizes DEF Items, Addr
  <2>2. q[1] \in Se
    BY ResponderNames
  <2>3. buf[q[1]][i] = Element(q[1], i)
    BY <2>1, <2>2 DEF DeliveryInv, Sources, InitBuf
  <2> QED BY <1>2, <1>9, <2>1, <2>3 DEF Slice, Value
<1>11. Fits(e, n, r)
  BY <1>2, <1>5, <1>9, <1>10 DEF Fits
<1>12. Carries(r) = {i}
  BY <1>2, <1>4, <1>9, <1>10, <1>11, CarriesFacts
<1> HIDE DEF i
<1> DEFINE S == {r}
<1>13. S = {r} /\ S \subseteq SentBy(q) /\ \A x \in S : x = r
  BY <1>2
<1> HIDE DEF S
<1>14. \A x \in Moving : /\ <<x, p>> \in Apart => <<x, r>> \in Apart
                         /\ <<p, x>> \in Apart => <<r, x>> \in Apart
  <2>1. \A x \in Moving : x \in AnyPacket
    BY KindOf DEF PacedInv
  <2>2. Requester(r) = Requester(p) /\ Carries(r) \subseteq Carries(p)
    BY <1>4, <1>6, <1>9, <1>12 DEF e
  <2> QED BY <1>4, <1>6, <2>1, <2>2, SameCarried
<1>15. Answered(q, p, S, Apart)
  BY <1>1, <1>2, <1>13, <1>14 DEF Answered
<1>16. Handled(q, p, S)
  BY <1>13, <1>15, OrderAt DEF Handled
<1>17. Moving' \subseteq Moving \cup S
  BY <1>16, HandledQueues
<1>18. UNCHANGED <<su_rem, se_state, swrite_psn, swrite_psn_to_su, se_req_epsn,
                   sreq_unack_psn, sread_psn_to_si, si_wr_off, se_wr_addr, su_wr_addr>>
  BY <1>3 DEF switchVars, requestVars, readVars, writeVars
<1>19. Kept(e)
  <2>1. epsn \in [Qps -> Nat] /\ WriteQp(e) \in Qps /\ WriteQp(e) # q
    BY <1>5, ResponderNames, Numbers DEF TypeOK, QpTypeOK, WriteQp
  <2>2. epsn'[WriteQp(e)] = epsn[WriteQp(e)]
    BY <1>1, <2>1
  <2> QED BY <1>1, <1>18, <2>2 DEF Kept
<1>20. /\ Writes(e)' \subseteq Writes(e) /\ Acks(e)' \subseteq Acks(e)
       /\ Refusals(e)' \subseteq Refusals(e)
  <2>1. QpOf(r) # WriteQp(e)
    BY <1>4, Numbers DEF WriteQp
  <2> QED BY <1>4, <1>13, <1>17, <2>1 DEF Writes, Acks, Refusals, Traffic
<1>21. ASSUME NEW x \in Pending(e)'
       PROVE  Carries(x) \subseteq U /\ Carries(x) \subseteq Tracked(e) /\ Fits(e, n, x)'
  <2>1. x \in Pending(e) \/ x = r
    BY <1>13, <1>17 DEF Pending
  <2>2. CASE x \in Pending(e)
    <3>1. Carries(x) \subseteq U /\ Fits(e, n, x)
      BY <1>8, <2>2 DEF Turn
    <3>2. Fits(e, n, x)'
      BY <1>18, <3>1 DEF Fits, InSlot
    <3> QED BY <2>2, <3>1, <3>2 DEF Tracked
  <2>3. CASE x = r
    <3>1. Fits(e, n, r)'
      BY <1>11, <1>18 DEF Fits, InSlot
    <3>2. Carries(r) = Carries(p)
      BY <1>9, <1>12
    <3> QED BY <1>6, <1>9, <2>3, <3>1, <3>2 DEF Tracked
  <2> QED BY <2>1, <2>2, <2>3
<1>22. Turn(e, n, U)'
  BY <1>5, <1>8, <1>19, <1>20, <1>21, TurnKept
<1>23. OneTurn(e)'
  BY <1>5, <1>7, <1>18, <1>22, TurnGoesOn
<1>24. Sources' /\ Retired'
  BY <1>1, <1>18, MemoryKept DEF DeliveryInv
<1> QED BY <1>1, <1>16, <1>23, <1>24, HandledDelivery DEF e

LEMMA PlaceFacts ==
  ASSUME NEW i \in Items, NEW j \in Items
  PROVE  /\ Place(i) = Place(j) => i = j
         /\ Place(i) \in Addr /\ Place(i) >= 2 * EleNum /\ Place(i) \in Nat
BY Sizes DEF Place, Items, Addr

\* The endpoint takes the WRITE it expects: the turn goes on, and the ACK of
\* the last WRITE finds every item in place.
LEMMA WriteTurn ==
  ASSUME TypeOK, PacedInv, NEW e \in Se, NEW n \in Nat, NEW U \in SUBSET Block(n),
         Turn(e, n, U), NEW p \in Writes(e), p.psn = epsn[WriteQp(e)],
         NEW i \in Block(n), p.addr = Place(i), Brought(e, i)',
         \A j \in Block(n) : Brought(e, j) => Brought(e, j)',
         epsn'[WriteQp(e)] = p.psn + 1,
         UNCHANGED <<su_rem, se_state, swrite_psn, swrite_psn_to_su, sread_psn_to_si, si_wr_off>>,
         Pending(e)' \subseteq Pending(e), Refusals(e)' \subseteq Refusals(e),
         Writes(e)' \subseteq Writes(e),
         \A w \in Writes(e)' : w.psn >= p.psn + 1,
         NEW S, Acks(e)' \subseteq S,
         S = {} \/ (p.ackreq = 1 /\ \A a \in S : a.psn = p.psn)
  PROVE  Turn(e, n, U)'
<1>1. /\ p.psn \in Nat /\ swrite_psn[e] \in Nat
      /\ \A w \in Writes(e) : w.psn \in Nat /\ w.psn >= p.psn
      /\ \A w, x \in Writes(e) : w.psn = x.psn => w = x
  BY WriteFacts
<1>2. Block(n) \subseteq Items
  BY BlockFacts
<1>3. Tracked(e)' \subseteq Tracked(e)
  BY DEF Tracked
<1>4. Acks(e) = {}
  BY DEF Turn
<1>5. (su_rem[e][UnitOf(n)] = Cardinality(U))'
  BY DEF Turn
<1>6. \A x \in Pending(e)' : Carries(x) \subseteq U /\ Fits(e, n, x)'
  BY DEF Turn, Fits, InSlot
<1>7. \A w \in Writes(e)' : \E j \in Block(n) : w.addr = Place(j) /\ w.data = <<Value(j)>>
  BY DEF Turn
<1>8. ASSUME NEW j \in Block(n), Got(e, j),
             \A w \in Writes(e) : w.addr = Place(j) => w = p \/ w \in Writes(e)'
      PROVE  Got(e, j)' /\ (Writes(e)' = {} => Brought(e, j)')
  <2>1. CASE Brought(e, j)
    BY <2>1 DEF Got
  <2>2. CASE \E w \in Writes(e) : w.addr = Place(j)
    <3>1. PICK w \in Writes(e) : w.addr = Place(j)
      BY <2>2
    <3>2. CASE w = p
      <4>1. Place(i) = Place(j)
        BY <3>1, <3>2
      <4>2. i = j
        BY <1>2, <4>1, PlaceFacts
      <4> QED BY <4>2 DEF Got
    <3>3. CASE w \in Writes(e)'
      BY <3>1, <3>3 DEF Got
    <3> QED BY <1>8, <3>1, <3>2, <3>3
  <2> QED BY <1>8, <2>1, <2>2 DEF Got
<1>9. (se_state[e] = 1 /\ Gapless(e))' => \A j \in Block(n) \ U : Got(e, j)'
  <2> SUFFICES ASSUME se_state'[e] = 1, Gapless(e)', NEW j \in Block(n) \ U
               PROVE  Got(e, j)'
    OBVIOUS
  <2> DEFINE W == Writes(e)' \cup {p}
  <2>1. W \subseteq Writes(e) /\ se_state[e] = 1
    OBVIOUS
  <2>2. ASSUME NEW m \in epsn[WriteQp(e)] .. swrite_psn[e] - 1
        PROVE  \E w \in W : w.psn = m
    <3>1. CASE m = p.psn
      BY <3>1
    <3>2. CASE m # p.psn
      <4>1. m \in epsn'[WriteQp(e)] .. swrite_psn'[e] - 1
        BY <1>1, <3>2
      <4> QED BY <4>1 DEF Gapless
    <3> QED BY <3>1, <3>2
  <2>3. p \in W /\ \A w \in W : w = p \/ w \in Writes(e)'
    OBVIOUS
  <2> HIDE DEF W
  <2>4. W = Writes(e) /\ Gapless(e)
    BY <2>1, <2>2, NoneMissing
  <2>5. Got(e, j)
    BY <2>1, <2>4 DEF Turn
  <2> QED BY <1>8, <2>3, <2>4, <2>5
<1>10. U \ Tracked(e) = {} => se_state[e] = 1 /\ Refusals(e) = {}
  BY DEF Turn, Sound, Broken
<1>11. Sound(e, U)'
  BY <1>3, <1>10 DEF Sound, Broken
<1>12. \A w \in Writes(e)' : w.ackreq = 1 =>
         U = {} /\ Acks(e)' = {} /\ Names(e, n, w)' /\ \A x \in Writes(e)' : x.psn <= w.psn
  <2> SUFFICES ASSUME NEW w \in Writes(e)', w.ackreq = 1
               PROVE  U = {} /\ Acks(e)' = {} /\ Names(e, n, w)'
                      /\ \A x \in Writes(e)' : x.psn <= w.psn
    OBVIOUS
  <2>1. w \in Writes(e) /\ U = {} /\ Names(e, n, w) /\ \A x \in Writes(e) : x.psn <= w.psn
    BY DEF Turn
  <2>2. p.ackreq # 1
    <3>1. p.ackreq = 1 => w.psn <= p.psn
      BY <2>1 DEF Turn
    <3>2. w.psn >= p.psn + 1 /\ w.psn \in Nat
      BY <1>1, <2>1
    <3> QED BY <1>1, <3>1, <3>2
  <2> QED BY <2>1, <2>2 DEF Names
<1>13. \A a \in Acks(e)' :
         /\ U = {} /\ Writes(e)' = {} /\ Names(e, n, a)' /\ a.psn = epsn'[WriteQp(e)] - 1
         /\ \A j \in Block(n) : Brought(e, j)'
  <2> SUFFICES ASSUME NEW a \in Acks(e)'
               PROVE  /\ U = {} /\ Writes(e)' = {} /\ Names(e, n, a)'
                      /\ a.psn = epsn'[WriteQp(e)] - 1
                      /\ \A j \in Block(n) : Brought(e, j)'
    OBVIOUS
  <2>1. p.ackreq = 1 /\ a.psn = p.psn
    OBVIOUS
  <2>2. U = {} /\ Names(e, n, p) /\ \A x \in Writes(e) : x.psn <= p.psn
    BY <2>1 DEF Turn
  <2>3. \A x \in Writes(e) : x = p
    <3>1. \A x \in Writes(e) : x.psn = p.psn
      BY <1>1, <2>2
    <3> QED BY <1>1, <3>1
  <2>4. Writes(e)' = {}
    <3>1. ~(p.psn >= p.psn + 1)
      BY <1>1
    <3> QED BY <2>3, <3>1
  <2>5. se_state[e] = 1
    BY <1>10, <2>2
  <2>6. Gapless(e)
    <3> SUFFICES ASSUME NEW m \in epsn[WriteQp(e)] .. swrite_psn[e] - 1
                 PROVE  \E w \in Writes(e) : w.psn = m
      BY DEF Gapless
    <3>1. swrite_psn[e] <= p.psn + 1
      BY <2>2 DEF Names
    <3>2. m = p.psn
      BY <1>1, <3>1
    <3> QED BY <3>2
  <2>7. \A j \in Block(n) : Got(e, j)
    BY <2>2, <2>5, <2>6 DEF Turn
  <2>8. \A j \in Block(n) : Brought(e, j)'
    BY <1>8, <2>3, <2>4, <2>7
  <2>9. Names(e, n, a)'
    BY <2>1, <2>2 DEF Names
  <2>10. a.psn = epsn'[WriteQp(e)] - 1
    BY <1>1, <2>1
  <2> QED BY <2>2, <2>4, <2>8, <2>9, <2>10
<1> QED BY <1>5, <1>6, <1>7, <1>9, <1>11, <1>12, <1>13 DEF Turn

LEMMA WriteTakenDelivery ==
  ASSUME TypeOK, PacedInv, DeliveryInv, TypeOK', PacedInv', NEW q \in Responders, QpRx(q),
         NEW p, p = Head(qp_rx[q]), RxInOrder(q, p), q[2] = SWriteQpn
  PROVE  DeliveryInv'
<1> DEFINE e == RequesterOf(q)
<1>1. p.opcode = "WRITE_ONLY" /\ p.psn = epsn[q] /\ p.psn \in Nat
  <2>1. q[2] \notin Se
    BY Numbers
  <2>2. p.psn \in Nat /\ epsn[q] \in Nat
        /\ \/ p.opcode = "READ" /\ q[2] \in Se
           \/ p.opcode = "WRITE_ONLY" /\ q[2] = SWriteQpn
    BY OrderAt
  <2>3. p.psn = epsn[q]
    BY DEF RxInOrder
  <2> QED BY <2>1, <2>2, <2>3
<1>2. /\ epsn' = [epsn EXCEPT ![q] = @ + 1]
      /\ buf' = [buf EXCEPT ![q[1]][p.addr] = p.data[1]]
      /\ ReplyIfAsked(q, p, p.psn, msn[q] + 1)
  BY <1>1 DEF RxInOrder
<1>3. UNCHANGED <<switchVars, requesterVars>>
  BY OrderAt
<1>4. e \in Se /\ q = WriteQp(e) /\ q[1] = e
  BY ResponderNames DEF WriteQp, RequesterOf
<1> HIDE DEF e
<1>5. p \in Writes(e) /\ p \in Moving /\ p \in AnyPacket
  BY <1>4, OrderAt, OrderKind DEF Writes
<1>6. PICK n \in Nat : /\ n \in sreq_unack_psn[e] .. se_req_epsn[e] - 1
                       /\ \E U \in SUBSET Block(n) : Turn(e, n, U)
  BY <1>4, <1>5, TurnOf DEF Busy
<1>7. PICK U \in SUBSET Block(n) : Turn(e, n, U)
  BY <1>6
<1>8. PICK i \in Block(n) : p.addr = Place(i) /\ p.data = <<Value(i)>>
  BY <1>5, <1>7 DEF Turn
<1>9. Block(n) \subseteq Items
  BY BlockFacts
<1>10. PICK S : /\ S \subseteq SentBy(q) /\ Answered(q, p, S, Apart)
                /\ S = {} \/ (p.ackreq = 1 /\ \A a \in S : a.opcode = "ACK" /\ a.psn = p.psn)
  <2>1. CASE p.ackreq = 1
    <3> DEFINE a == [GenPacket(q, "ACK", p.psn) EXCEPT !.msn = msn[q] + 1]
    <3>1. qp_tx' = [qp_tx EXCEPT ![q] = Append(@, a)]
      BY <1>2, <2>1 DEF ReplyIfAsked, Reply
    <3>2. msn[q] + 1 \in Nat
      BY OrderAt
    <3>3. a \in SentBy(q) /\ a.opcode = "ACK" /\ a.psn = p.psn
      BY <1>1, <3>2, AckKind
    <3> HIDE DEF a
    <3>4. a \in AnyPacket /\ ~IsPending(a)
      BY <3>3, SentByKind, AnswerKind DEF IsPending
    <3>5. \A x \in Moving : /\ <<x, p>> \in Apart => <<x, a>> \in Apart
                            /\ <<p, x>> \in Apart => <<a, x>> \in Apart
      <4>1. \A x \in Moving : x \in AnyPacket
        BY KindOf DEF PacedInv
      <4> QED BY <3>4, <4>1, SameCarried
    <3> DEFINE S == {a}
    <3>6. S = {a} /\ S \subseteq SentBy(q) /\ \A x \in S : x = a
      BY <3>3
    <3> HIDE DEF S
    <3>7. Answered(q, p, S, Apart)
      BY <3>1, <3>3, <3>5, <3>6 DEF Answered
    <3> QED BY <2>1, <3>3, <3>6, <3>7
  <2>2. CASE p.ackreq # 1
    <3> DEFINE S == {}
    <3>1. qp_tx' = qp_tx
      BY <1>2, <2>2 DEF ReplyIfAsked
    <3>2. S = {} /\ S \subseteq SentBy(q)
      OBVIOUS
    <3> HIDE DEF S
    <3>3. Answered(q, p, S, Apart)
      BY <3>1, <3>2 DEF Answered
    <3> QED BY <3>2, <3>3
  <2> QED BY <2>1, <2>2
<1>11. Handled(q, p, S)
  BY <1>3, <1>10, OrderAt DEF Handled
<1>12. Moving' \subseteq Moving \cup S
  BY <1>11, HandledQueues
<1>13. \A a \in S : ~IsPending(a) /\ ~IsOrder(a) /\ ~IsNak(a)
  <2>1. \A a \in S : a \in Received /\ a \notin Recirculated /\ ~IsRequest(a)
    BY <1>10, SentByKind
  <2>2. \A a \in S : ~IsOrder(a) /\ a.opcode = "ACK"
    BY <1>10, <2>1, AnswerKind
  <2> QED BY <2>2 DEF IsPending, IsNak
<1>14. /\ Pending(e)' \subseteq Pending(e) /\ Refusals(e)' \subseteq Refusals(e)
       /\ Writes(e)' \subseteq Writes(e) /\ Acks(e)' \subseteq Acks(e) \cup S
  BY <1>12, <1>13 DEF Pending, Refusals, Writes, Acks, Traffic
<1>15. Acks(e)' \subseteq S
  <2>1. Acks(e) = {}
    BY <1>5, <1>7 DEF Turn
  <2> QED BY <1>14, <2>1
<1>16. epsn'[WriteQp(e)] = p.psn + 1
  <2>1. epsn \in [Qps -> Nat] /\ WriteQp(e) \in Qps
    BY <1>4, ResponderNames DEF TypeOK, QpTypeOK
  <2> QED BY <1>1, <1>2, <1>4, <2>1
<1>17. \A w \in Writes(e)' : w.psn >= p.psn + 1
  <2>1. \A w \in Writes(e)' : w.psn >= epsn'[WriteQp(e)]
    <3>1. Channel(WriteQp(e))'
      BY <1>4 DEF PacedInv
    <3> QED BY <3>1 DEF Channel, Writes
  <2> QED BY <1>16, <2>1
<1>18. /\ buf \in [Se -> [Addr -> Int]] /\ Place(i) \in Addr
       /\ \A f \in Se \ {e} : buf'[f] = buf[f]
       /\ buf'[e][Place(i)] = Value(i)
       /\ \A a \in Addr \ {Place(i)} : buf'[e][a] = buf[e][a]
  <2>1. buf \in [Se -> [Addr -> Int]] /\ Place(i) \in Addr /\ p.data[1] = Value(i)
    BY <1>8, <1>9, PlaceFacts DEF TypeOK, QpTypeOK
  <2>2. buf'[e] = [buf[e] EXCEPT ![Place(i)] = Value(i)] /\ \A f \in Se \ {e} : buf'[f] = buf[f]
    BY <1>2, <1>4, <1>8, <2>1
  <2>3. buf[e] \in [Addr -> Int]
    BY <1>4, <2>1
  <2> QED BY <2>1, <2>2, <2>3
<1>19. \A f \in Se, j \in Items : Brought(f, j) => Brought(f, j)'
  <2> SUFFICES ASSUME NEW f \in Se, NEW j \in Items, Brought(f, j) PROVE Brought(f, j)'
    OBVIOUS
  <2>1. CASE f # e
    BY <1>18, <2>1 DEF Brought
  <2>2. CASE f = e /\ j = i
    BY <1>18, <2>2 DEF Brought
  <2>3. CASE f = e /\ j # i
    <3>1. Place(j) \in Addr \ {Place(i)}
      BY <1>9, <2>3, PlaceFacts
    <3> QED BY <1>18, <2>3, <3>1 DEF Brought
  <2> QED BY <2>1, <2>2, <2>3
<1>20. Brought(e, i)'
  BY <1>18 DEF Brought
<1>21. UNCHANGED <<su_rem, se_state, swrite_psn, swrite_psn_to_su, se_req_epsn,
                   sreq_unack_psn, sread_psn_to_si, si_wr_off>>
  BY <1>3 DEF switchVars, requestVars, readVars, writeVars
<1>22. Turn(e, n, U)'
  <2>1. \A j \in Block(n) : Brought(e, j) => Brought(e, j)'
    BY <1>4, <1>9, <1>19
  <2>2. S = {} \/ (p.ackreq = 1 /\ \A a \in S : a.psn = p.psn)
    BY <1>10
  <2>3. p.psn = epsn[WriteQp(e)] /\ p.addr = Place(i)
    BY <1>1, <1>4, <1>8
  <2> QED BY <1>4, <1>5, <1>7, <1>14, <1>15, <1>16, <1>17, <1>20, <1>21, <2>1, <2>2, <2>3, WriteTurn
<1>23. OneTurn(e)'
  BY <1>4, <1>6, <1>21, <1>22, TurnGoesOn
<1>24. Sources'
  <2> SUFFICES ASSUME NEW f \in Se, NEW a \in 0 .. (2 * EleNum) - 1
               PROVE  buf'[f][a] = InitBuf[f][a]
    BY DEF Sources
  <2>1. a \in Addr /\ a # Place(i)
    <3>1. Place(i) >= 2 * EleNum
      BY <1>9, PlaceFacts
    <3> QED BY <3>1, Sizes DEF Addr
  <2>2. buf'[f][a] = buf[f][a]
    BY <1>18, <2>1
  <2> QED BY <2>2 DEF DeliveryInv, Sources
<1>25. Retired'
  <2> SUFFICES ASSUME NEW f \in Se, NEW m \in 0 .. sreq_unack_psn'[f] - 1, NEW j \in Block(m)
               PROVE  Brought(f, j)'
    BY DEF Retired
  <2>1. m \in 0 .. sreq_unack_psn[f] - 1
    BY <1>21
  <2>2. m \in Nat
    BY <2>1
  <2>3. Block(m) \subseteq Items
    BY <2>2, BlockFacts
  <2>4. Brought(f, j)
    BY <2>1 DEF DeliveryInv, Retired
  <2> QED BY <1>19, <2>3, <2>4
<1> QED BY <1>2, <1>11, <1>18, <1>23, <1>24, <1>25, HandledDelivery DEF e

LEMMA QpRxDelivery ==
  ASSUME TypeOK, PacedInv, DeliveryInv, TypeOK', PacedInv', NEW q \in Qps, QpRx(q)
  PROVE  DeliveryInv'
<1>1. CASE q \in Responders
  <2> DEFINE p == Head(qp_rx[q])
  <2>1. /\ RxOutOfOrder(q, p) \/ RxInOrder(q, p)
        /\ q[2] \in Se \/ q[2] = SWriteQpn
    BY <1>1, OrderAt
  <2>2. CASE RxOutOfOrder(q, p)
    BY <1>1, <2>1, <2>2, ReadRefusedDelivery, WriteRefusedDelivery
  <2>3. CASE RxInOrder(q, p)
    BY <1>1, <2>1, <2>3, ReadTakenDelivery, WriteTakenDelivery
  <2> QED BY <2>1, <2>2, <2>3
<1>2. CASE \E e \in Se : q = ReqQp(e)
  BY <1>2, RequesterRxDelivery
<1> QED BY <1>1, <1>2, QpCases

-----------------------------------------------------------------------------
(* The switch takes a packet.                                              *)

LEMMA SentKind ==
  ASSUME NEW y \in Sent
  PROVE  y \in AnyPacket /\ ~IsRequest(y) /\ y \in Received \cup Sent
BY RecirculatedKind, OrderKind, RequestAckKind DEF Sent

LEMMA ProcessedQueues ==
  ASSUME TypeOK, PacedInv, DeliveryInv, NEW p, NEW s \in Seq(Sent), Taken(p, s),
         Pairwise(s, Apart),
         \A x \in Moving : <<p, x>> \in Apart => \A y \in InFlight(s) : <<x, y>> \in Apart
  PROVE  /\ InOrder(Apart)' /\ Moving' \subseteq Moving \cup InFlight(s)
         /\ \A x \in Moving' : x \in InFlight(s) \/ <<p, x>> \in Apart
<1>1. /\ rx_queue # <<>> /\ p = Head(rx_queue) /\ rx_queue' = Tail(rx_queue)
      /\ qp_tx' = qp_tx /\ qp_rx' = qp_rx /\ Send(s)
  BY DEF Taken
<1>2. Kinds /\ InOrder(Apart)
  BY DEF PacedInv, DeliveryInv
<1>3. /\ InOrder(Apart)' /\ Moving' \subseteq Moving \cup InFlight(s)
      /\ \A x \in Moving' : x \in InFlight(s) \/ <<p, x>> \in Apart \/ x \in RequestAcks
  BY <1>1, <1>2, PacketProcessed
<1>4. ASSUME NEW x \in Moving', x \notin InFlight(s) PROVE <<p, x>> \in Apart
  <2>1. p \in Moving /\ x \in Moving
    BY <1>1, <1>3, <1>4, TakenKind
  <2>2. p \in AnyPacket /\ x \in AnyPacket /\ x \in Received \cup Sent
    BY <2>1, KindOf DEF PacedInv
  <2>3. CASE x \in RequestAcks
    BY <2>2, <2>3, PendingKind, ApartFacts
  <2> QED BY <1>3, <1>4, <2>3
<1> QED BY <1>3, <1>4

\* The registers of the turns of other requesters.
OthersKept(e) == \A f \in Se \ {e} :
  /\ su_rem'[f] = su_rem[f] /\ se_state'[f] = se_state[f]
  /\ swrite_psn'[f] = swrite_psn[f] /\ swrite_psn_to_su'[f] = swrite_psn_to_su[f]
  /\ sreq_unack_psn'[f] = sreq_unack_psn[f] /\ se_req_epsn'[f] = se_req_epsn[f]
  /\ sread_psn_to_si'[f] = sread_psn_to_si[f] /\ si_wr_off'[f] = si_wr_off[f]

LEMMA ProcessedDelivery ==
  ASSUME TypeOK, PacedInv, DeliveryInv, NEW p, NEW s \in Seq(Sent), Taken(p, s),
         UNCHANGED <<buf, requesterVars>>,
         InOrder(Apart)', Moving' \subseteq Moving \cup InFlight(s),
         NEW e \in Se, \A y \in InFlight(s) : Requester(y) = e,
         OthersKept(e), OneTurn(e)', Bases', Retired'
  PROVE  DeliveryInv'
<1>1. qp_tx' = qp_tx /\ epsn' = epsn /\ UNCHANGED <<cq, sq, old_req_psn, old_unack_psn>>
  BY DEF Taken, requesterVars
<1> DEFINE S == InFlight(s)
<1>2. \A y \in S : y \in Sent
  BY InFlightType
<1>3. Moving' \subseteq Moving \cup S /\ \A y \in S : Requester(y) = e
  OBVIOUS
<1> HIDE DEF S
<1>4. \A y \in S : ~IsRequest(y) /\ y \in Received \cup Sent
  BY <1>2, SentKind
<1>5. RightRequests'
  BY <1>1, <1>3, <1>4, RequestsKept DEF DeliveryInv
<1>6. Queued' /\ Sources'
  BY <1>1, QueuedKept DEF DeliveryInv, Sources
<1>7. ASSUME NEW f \in Se, f # e PROVE OneTurn(f)'
  <2>1. Kept(f) /\ OneTurn(f)
    BY <1>1, <1>7 DEF Kept, OthersKept, DeliveryInv
  <2>2. /\ sreq_unack_psn'[f] = sreq_unack_psn[f] /\ se_req_epsn'[f] = se_req_epsn[f]
        /\ sread_psn_to_si'[f] = sread_psn_to_si[f] /\ si_wr_off'[f] = si_wr_off[f]
    BY <1>7 DEF OthersKept
  <2>3. \A x \in S : Foreign(f, x)
    BY <1>3, <1>4, <1>7, ForeignKind
  <2> QED BY <1>3, <2>1, <2>2, <2>3, OtherTurn
<1>8. \A f \in Se : OneTurn(f)'
  BY <1>7
<1> QED BY <1>5, <1>6, <1>8 DEF DeliveryInv

\* Acknowledging a request puts nothing under way.
LEMMA AckQueues ==
  ASSUME TypeOK, PacedInv, DeliveryInv, NEW p, NEW s \in Seq(RequestAcks), Taken(p, s)
  PROVE  /\ s \in Seq(Sent) /\ InOrder(Apart)' /\ Moving' \subseteq Moving \cup InFlight(s)
         /\ \A y \in InFlight(s) :
              /\ y \in RequestAcks /\ ~IsPending(y) /\ ~IsRequest(y) /\ ~IsNak(y)
              /\ QpOf(y) \notin Responders /\ \A e \in Se : Foreign(e, y)
<1> DEFINE S == InFlight(s)
<1>1. s \in Seq(Sent) /\ \A y \in S : y \in RequestAcks
  BY InFlightType DEF Sent
<1>2. \A y \in S : /\ y \in Received \cup Sent /\ y \in AnyPacket /\ ~IsPending(y)
                   /\ ~IsRequest(y) /\ ~IsNak(y) /\ QpOf(y) \notin Responders
  <2>1. \A y \in S : y \in Sent
    BY <1>1 DEF Sent
  <2> QED BY <1>1, <2>1, SentKind, PendingKind
<1>3. Pairwise(s, Apart)
  <2>1. \A i \in 1 .. Len(s) : s[i] \in S
    BY DEF InFlight
  <2> HIDE DEF S
  <2>2. \A i, j \in 1 .. Len(s) : <<s[i], s[j]>> \in Apart
    BY <1>2, <2>1, ApartFacts
  <2> QED BY <2>2 DEF Pairwise
<1>4. ASSUME NEW x \in Moving, NEW y \in S PROVE <<x, y>> \in Apart
  <2>1. x \in AnyPacket
    BY KindOf DEF PacedInv
  <2>2. y \in AnyPacket /\ ~IsPending(y)
    BY <1>2
  <2> QED BY <2>1, <2>2, ApartFacts
<1>5. InOrder(Apart)' /\ Moving' \subseteq Moving \cup S
  BY <1>1, <1>3, <1>4, ProcessedQueues
<1> HIDE DEF S
<1>6. \A x \in S : \A e \in Se : Foreign(e, x)
  BY <1>1, <1>2, ForeignKind
<1> QED BY <1>1, <1>2, <1>5, <1>6 DEF S

\* The switch drops a packet, or acknowledges a request it has retired.
LEMMA QuietProcessed ==
  ASSUME TypeOK, PacedInv, DeliveryInv, NEW p, NEW s \in Seq(RequestAcks), Taken(p, s),
         UNCHANGED turnVars, UNCHANGED requesterVars
  PROVE  DeliveryInv'
<1> DEFINE S == InFlight(s)
<1>1. /\ InOrder(Apart)' /\ Moving' \subseteq Moving \cup S
      /\ \A x \in S : ~IsRequest(x) /\ \A e \in Se : Foreign(e, x)
  BY AckQueues
<1> HIDE DEF S
<1>2. RightRequests' /\ Queued'
  <2>1. qp_tx' = qp_tx /\ UNCHANGED <<cq, sq, old_req_psn, old_unack_psn>>
    BY DEF Taken, requesterVars
  <2> QED BY <1>1, <2>1, RequestsKept, QueuedKept DEF DeliveryInv
<1> QED BY <1>1, <1>2, QuietDelivery

LEMMA QuietSwitchRx ==
  ASSUME TypeOK, PacedInv, DeliveryInv, rx_queue # <<>>, NEW p, p = Head(rx_queue),
         rx_queue' = Tail(rx_queue), UNCHANGED qpVars,
         \/ RequestDropped(p) \/ RequestDuplicate(p) \/ WriteAckOutOfTurn(p)
         \/ ReadResponseIgnored(p)
  PROVE  DeliveryInv'
<1>1. UNCHANGED <<qp_tx, qp_rx, epsn, buf>> /\ UNCHANGED requesterVars
  BY DEF qpVars, responderVars
<1>2. UNCHANGED turnVars
  BY <1>1 DEF RequestDropped, RequestDuplicate, WriteAckOutOfTurn, ReadResponseIgnored,
              turnVars, requestVars, readVars, writeVars
<1>3. \E s \in Seq(RequestAcks) : Send(s)
  <2>1. CASE UNCHANGED tx_queue
    <3> DEFINE s == <<>>
    <3>1. tx_queue' = tx_queue \o s
      BY <2>1 DEF TypeOK, SwitchTypeOK
    <3>2. s \in Seq(RequestAcks)
      OBVIOUS
    <3> QED BY <3>1, <3>2 DEF Send
  <2>2. CASE RequestDuplicate(p)
    <3> DEFINE a == [ToRequester(p.smac, "ACK", sreq_unack_psn[p.smac] - 1)
                       EXCEPT !.msn = se_req_msn[p.smac]]
    <3>1. Send(<<a>>) /\ IsRequest(p) /\ p.psn < sreq_unack_psn[p.smac]
      BY <2>2 DEF RequestDuplicate, AlreadyAcked
    <3>2. p \in Received /\ p \in ToSwitch
      BY TakenKind
    <3>3. p.smac \in Se /\ p.psn \in Nat
      BY <3>2, PacketFields
    <3>4. sreq_unack_psn[p.smac] \in Nat /\ se_req_msn[p.smac] \in Nat
      BY <3>3 DEF TypeOK, SwitchTypeOK
    <3>5. sreq_unack_psn[p.smac] - 1 \in Nat
      BY <3>1, <3>3, <3>4
    <3>6. a \in AsideOf(p.smac)
      BY <3>3, <3>4, <3>5, AckAside
    <3>7. a.opcode = "ACK"
      BY DEF ToRequester, NewPacket
    <3> HIDE DEF a
    <3>8. a \in RequestAcks
      BY <3>6, <3>7 DEF AsideOf, Recirculated
    <3>9. <<a>> \in Seq(RequestAcks)
      BY <3>8
    <3> QED BY <3>1, <3>9
  <2> QED BY <2>1, <2>2 DEF RequestDropped, WriteAckOutOfTurn, ReadResponseIgnored
<1>4. PICK s \in Seq(RequestAcks) : Send(s)
  BY <1>3
<1>5. Taken(p, s)
  BY <1>1, <1>4 DEF Taken
<1> QED BY <1>1, <1>2, <1>4, <1>5, QuietProcessed

-----------------------------------------------------------------------------
(* process_loopback.                                                       *)

\* A part of a loopback packet, from its item number k on.
LEMMA PartKind ==
  ASSUME NEW l \in Recirculated, NEW n \in Nat, Consecutive(l), Run(l) \subseteq Block(n),
         l.si = Si(n, l.data[1]), NEW y \in LoopbacksOf(l), NEW k \in 0 .. Len(l.data) - 1,
         y.si = l.si + k, y.data # <<>>, Len(y.data) <= Len(l.data) - k,
         \A j \in 1 .. Len(y.data) : y.data[j] = l.data[j + k]
  PROVE  /\ y \in Sent /\ IsPending(y) /\ Requester(y) = l.smac
         /\ Carries(y) = l.data[1] + k .. l.data[1] + k + (Len(y.data) - 1)
         /\ Carries(y) \subseteq Run(l) /\ Fits(l.smac, n, y)'
<1>1. /\ l \in ToSwitch /\ l.data \in Seq(Int) /\ l.dqpn = ToSReq /\ l.si \in Nat
      /\ y \in ToSwitch /\ y.opcode = "LOOPBACK" /\ y.dqpn = ToSReq /\ y.smac = l.smac
      /\ y.data \in Seq(Int)
  BY PacketFields DEF Recirculated, LoopbacksOf
<1>2. y \in Recirculated
  BY <1>1 DEF Recirculated
<1>3. y \in Sent /\ IsPending(y) /\ Requester(y) = l.smac
  BY <1>1, <1>2, RecirculatedKind DEF Sent, IsPending
<1>4. PICK a \in Nat : a = Len(l.data) /\ a >= 1
  BY <1>1 DEF Consecutive
<1>5. PICK b \in Nat : b = Len(y.data) /\ b >= 1 /\ b <= a - k
  BY <1>1, <1>4
<1>6. PICK d \in Int : d = l.data[1]
  BY <1>1, <1>4
<1>7. \A j \in 1 .. a : l.data[j] = d + (j - 1)
  BY <1>4, <1>6 DEF Consecutive
<1>8. \A j \in 1 .. b : y.data[j] = (d + k) + (j - 1)
  <2> SUFFICES ASSUME NEW j \in 1 .. b PROVE y.data[j] = (d + k) + (j - 1)
    OBVIOUS
  <2>1. j + k \in 1 .. a
    BY <1>4, <1>5
  <2>2. y.data[j] = l.data[j + k]
    BY <1>5
  <2>3. l.data[j + k] = d + ((j + k) - 1)
    BY <1>7, <2>1
  <2> QED BY <2>1, <2>2, <2>3
<1>9. y.data[1] = d + k
  BY <1>5, <1>8
<1>10. Consecutive(y)
  BY <1>5, <1>8, <1>9 DEF Consecutive
<1>11. Run(y) = d + k .. d + k + (b - 1) /\ Run(l) = d .. d + (a - 1)
  BY <1>4, <1>5, <1>6, <1>9 DEF Run
<1>12. Run(y) \subseteq Run(l)
  <2>1. ASSUME NEW x \in d + k .. d + k + (b - 1) PROVE x \in d .. d + (a - 1)
    <3>1. PICK h \in Nat : h = k
      BY <1>4
    <3>2. h + b <= a
      BY <1>4, <1>5, <3>1
    <3> QED BY <1>4, <1>5, <1>6, <3>1, <3>2, SMTT(60)
  <2> QED BY <1>11, <2>1
<1>13. y.si = Si(n, y.data[1])
  <2>1. PICK c \in Nat : c = n * ReqMtu
    BY Sizes
  <2>2. PICK u \in Nat : u = UnitOf(n) * ReqMtu
    BY SlotType, Sizes DEF Su
  <2>3. l.si = u + (d - c)
    BY <1>6, <2>1, <2>2 DEF Si
  <2>4. Si(n, y.data[1]) = u + ((d + k) - c)
    BY <1>9, <2>1, <2>2 DEF Si
  <2> QED BY <2>1, <2>2, <2>3, <2>4
<1>14. Fits(l.smac, n, y)'
  BY <1>1, <1>10, <1>13 DEF Fits
<1>15. Carries(y) = Run(y)
  BY <1>1 DEF Carries
<1> QED BY <1>3, <1>5, <1>6, <1>11, <1>12, <1>14, <1>15

\* What is sent of the items of l.
Spreads(l, n, s) ==
  /\ Send(s) /\ Pairwise(s, Apart)
  /\ \A y \in InFlight(s) : /\ IsPending(y) /\ Requester(y) = l.smac
                            /\ Carries(y) \subseteq Run(l) /\ Fits(l.smac, n, y)'

\* The slots of READs in the window still name their items.
SlotsKept(e, n) ==
  \A t \in Se, m \in Nat, i \in Block(n) :
    /\ sread_unack_psn[e][t] <= m /\ m < sread_psn[e][t] /\ InSlot(e, t, m, n, i)
    => InSlot(e, t, m, n, i)'

LEMMA NothingSpreads ==
  ASSUME NEW l, NEW n, Send(<<>>)
  PROVE  \E s \in Seq(Sent) : Spreads(l, n, s)
<1> DEFINE s == <<>>
<1>1. Send(s) /\ s \in Seq(Sent)
  OBVIOUS
<1>2. Pairwise(s, Apart) /\ InFlight(s) = {}
  BY Nothing
<1> HIDE DEF s
<1>3. Spreads(l, n, s)
  BY <1>1, <1>2 DEF Spreads
<1> QED BY <1>1, <1>3

LEMMA OneSpreads ==
  ASSUME NEW l, NEW n, NEW y \in Sent, Send(<<y>>), IsPending(y), Requester(y) = l.smac,
         Carries(y) \subseteq Run(l), Fits(l.smac, n, y)'
  PROVE  \E s \in Seq(Sent) : Spreads(l, n, s)
<1> DEFINE s == <<y>>
<1>1. Send(s) /\ s \in Seq(Sent) /\ Len(s) = 1 /\ s[1] = y
  OBVIOUS
<1> HIDE DEF s
<1>2. Pairwise(s, Apart) /\ \A x \in InFlight(s) : x = y
  BY <1>1 DEF Pairwise, InFlight
<1>3. Spreads(l, n, s)
  BY <1>1, <1>2 DEF Spreads
<1> QED BY <1>1, <1>3

LEMMA UnchangedSlots ==
  ASSUME NEW e, NEW n, UNCHANGED readVars
  PROVE  SlotsKept(e, n)
BY DEF SlotsKept, InSlot, readVars

\* y is one of the packets l goes on as, and i its only item.
CopyOf(l, n, i, y) ==
  /\ IsPending(y) /\ Requester(y) = l.smac /\ y \in Sent /\ Carries(y) = {i}
  /\ Carries(y) \subseteq Run(l) /\ Fits(l.smac, n, y)'

\* The multicast copies of a loopback packet have one item each, in turn.
LEMMA CopiesSpread ==
  ASSUME NEW l \in Recirculated, NEW n \in Nat, Consecutive(l), Run(l) \subseteq Block(n),
         l.si = Si(n, l.data[1]), NEW c \in 0 .. Len(l.data)
  PROVE  /\ Multicast(l, c) \in Seq(Sent) /\ Len(Multicast(l, c)) = c
         /\ \A i \in 1 .. c : CopyOf(l, n, l.data[1] + (i - 1), Multicast(l, c)[i])
<1>1. /\ l \in ToSwitch /\ l.opcode = "LOOPBACK" /\ l.dqpn = ToSReq /\ l \in Packets
      /\ l.data \in Seq(Int) /\ Len(l.data) \in Nat /\ l.si \in Nat
  BY PacketFields DEF Recirculated
<1>2. c \in Nat /\ c <= Len(l.data) /\ l.data[1] \in Int
  BY <1>1 DEF Consecutive
<1> DEFINE m == Multicast(l, c)
<1>3. m \in Seq(LoopbacksOf(l)) /\ Len(m) = c
  <2>1. m \in Seq(LoopbacksOf(l))
    BY <1>1, MulticastType
  <2>2. DOMAIN m = 1 .. c
    BY DEF Multicast
  <2> HIDE DEF m
  <2> QED BY <1>2, <2>1, <2>2
<1>4. ASSUME NEW i \in 1 .. c
      PROVE  /\ m[i] \in LoopbacksOf(l) /\ m[i].si = l.si + (i - 1) /\ m[i].data = <<l.data[i]>>
  <2>1. m[i].si = l.si + i - 1 /\ m[i].data = <<l.data[i]>>
    BY <1>1, <1>2 DEF Multicast, Packets
  <2>2. m[i] \in LoopbacksOf(l)
    BY <1>3, <1>4
  <2>3. l.si + i - 1 = l.si + (i - 1)
    BY <1>1, <1>2
  <2> QED BY <2>1, <2>2, <2>3
<1> HIDE DEF m
<1>5. ASSUME NEW i \in 1 .. c
      PROVE  CopyOf(l, n, l.data[1] + (i - 1), m[i])
  <2> DEFINE k == i - 1
  <2>1. k \in 0 .. Len(l.data) - 1 /\ i = 1 + k /\ 1 + k = i
    <3>1. PICK a \in Nat : a = Len(l.data)
      BY <1>1
    <3>2. c <= a /\ c \in Nat
      BY <1>2, <3>1
    <3>3. i \in 1 .. a
      BY <3>2
    <3> QED BY <3>1, <3>3
  <2> HIDE DEF k
  <2>2. Len(m[i].data) = 1 /\ m[i].data # <<>> /\ m[i].data[1] = l.data[i]
    <3>1. Len(<<l.data[i]>>) = 1 /\ <<l.data[i]>> # <<>> /\ <<l.data[i]>>[1] = l.data[i]
      OBVIOUS
    <3>2. m[i].data = <<l.data[i]>>
      BY <1>4
    <3> QED BY <3>1, <3>2
  <2>3. Len(m[i].data) <= Len(l.data) - k
    BY <1>1, <2>1, <2>2
  <2>4. \A j \in 1 .. Len(m[i].data) : m[i].data[j] = l.data[j + k]
    BY <2>1, <2>2
  <2>5. m[i] \in LoopbacksOf(l) /\ m[i].si = l.si + k
    BY <1>4, <2>1
  <2>6. /\ m[i] \in Sent /\ IsPending(m[i]) /\ Requester(m[i]) = l.smac
        /\ Carries(m[i]) = l.data[1] + k .. l.data[1] + k + (Len(m[i].data) - 1)
        /\ Carries(m[i]) \subseteq Run(l) /\ Fits(l.smac, n, m[i])'
    BY <2>1, <2>2, <2>3, <2>4, <2>5, PartKind
  <2>7. Carries(m[i]) = {l.data[1] + k}
    <3>4. k \in Int
      BY <2>1
    <3>1. PICK d \in Int : d = l.data[1] + k
      BY <1>2, <3>4
    <3>2. d .. d + (1 - 1) = {d}
      OBVIOUS
    <3> QED BY <2>2, <2>6, <3>1, <3>2
  <2>8. k = i - 1
    BY DEF k
  <2>9. Carries(m[i]) = {l.data[1] + (i - 1)}
    BY <2>7, <2>8
  <2> QED BY <2>6, <2>9 DEF CopyOf
<1>6. \A y : y \in LoopbacksOf(l) => y \in Sent
  BY <1>1 DEF LoopbacksOf, Sent, Recirculated
<1>7. m \in Seq(Sent)
  BY <1>3, <1>6
<1> QED BY <1>3, <1>5, <1>7 DEF m

LEMMA CopiesApart ==
  ASSUME NEW l, NEW n, l.data[1] \in Int, NEW s, Len(s) \in Nat,
         \A i \in 1 .. Len(s) : CopyOf(l, n, l.data[1] + (i - 1), s[i])
  PROVE  Pairwise(s, Apart)
<1> SUFFICES ASSUME NEW i \in 1 .. Len(s), NEW j \in 1 .. Len(s), i < j
             PROVE  <<s[i], s[j]>> \in Apart
  BY DEF Pairwise
<1>1. CopyOf(l, n, l.data[1] + (i - 1), s[i]) /\ CopyOf(l, n, l.data[1] + (j - 1), s[j])
  OBVIOUS
<1>2. PICK a \in Int : a = l.data[1] + (i - 1)
  OBVIOUS
<1>3. PICK b \in Int : b = l.data[1] + (j - 1)
  OBVIOUS
<1>4. a # b
  BY <1>2, <1>3
<1>5. Carries(s[i]) = {a} /\ Carries(s[j]) = {b}
  BY <1>1, <1>2, <1>3 DEF CopyOf
<1>6. s[i] \in AnyPacket /\ s[j] \in AnyPacket
  BY <1>1, SentKind DEF CopyOf
<1> QED BY <1>4, <1>5, <1>6 DEF Apart

\* A loopback packet with several items goes on as packets with fewer.
LEMMA SplitSpreads ==
  ASSUME NEW l \in Recirculated, NEW n \in Nat, Consecutive(l), Run(l) \subseteq Block(n),
         l.si = Si(n, l.data[1]), NEW state, LoopbackSplit(l, state)
  PROVE  \E s \in Seq(Sent) : Spreads(l, n, s)
<1>1. /\ l \in ToSwitch /\ l.opcode = "LOOPBACK" /\ l \in Packets
      /\ l.data \in Seq(Int) /\ Len(l.data) \in Nat /\ l.si \in Nat /\ McastGrpSize \in Nat \ {0}
      /\ l.data[1] \in Int
  BY PacketFields, ParamAssumption DEF Recirculated, Consecutive
<1>2. CASE state = 0
  <2>1. Send(<<>>)
    BY <1>2 DEF LoopbackSplit
  <2> QED BY <2>1, NothingSpreads
<1>3. CASE state # 0 /\ Len(l.data) <= McastGrpSize
  <2> DEFINE s == Multicast(l, Len(l.data))
  <2>1. Send(s)
    BY <1>3 DEF LoopbackSplit
  <2>2. /\ s \in Seq(Sent) /\ Len(s) = Len(l.data)
        /\ \A i \in 1 .. Len(l.data) : CopyOf(l, n, l.data[1] + (i - 1), s[i])
    <3>1. Len(l.data) \in 0 .. Len(l.data)
      BY <1>1
    <3> QED BY <3>1, CopiesSpread
  <2> HIDE DEF s
  <2>3. Pairwise(s, Apart)
    BY <1>1, <2>2, CopiesApart
  <2>4. Spreads(l, n, s)
    BY <2>1, <2>2, <2>3 DEF Spreads, CopyOf, InFlight
  <2> QED BY <2>2, <2>4
<1>4. CASE state # 0 /\ ~(Len(l.data) <= McastGrpSize)
  <2> DEFINE s == Multicast(l, McastGrpSize)
             y == Mirror(l)
             t == Append(s, y)
             g == McastGrpSize
  <2>1. Send(t)
    BY <1>4 DEF LoopbackSplit
  <2>2. g \in 0 .. Len(l.data) - 1 /\ g \in Nat /\ g < Len(l.data)
    BY <1>1, <1>4
  <2>3. /\ s \in Seq(Sent) /\ Len(s) = g
        /\ \A i \in 1 .. g : CopyOf(l, n, l.data[1] + (i - 1), s[i])
    <3>1. g \in 0 .. Len(l.data)
      BY <1>1, <2>2
    <3> QED BY <3>1, CopiesSpread
  <2> HIDE DEF s
  <2>4. /\ y.si = l.si + g /\ Len(y.data) = Len(l.data) - g
        /\ \A j \in 1 .. Len(y.data) : y.data[j] = l.data[j + g]
    <3> DEFINE d == SubSeq(l.data, g + 1, Len(l.data))
    <3>1. y.si = l.si + g /\ y.data = d
      BY <1>1 DEF Mirror, Packets
    <3>2. Len(d) = Len(l.data) - g /\ \A j \in 1 .. Len(l.data) - g : d[j] = l.data[j + g]
      <4>1. PICK c \in Nat : c = Len(l.data)
        BY <1>1
      <4>2. g \in Nat /\ g + 1 \in 1 .. c /\ c \in g + 1 .. c
        BY <2>2, <4>1
      <4>3. Len(d) = c - (g + 1) + 1 /\ \A j \in 1 .. c - (g + 1) + 1 : d[j] = l.data[(g + 1) + j - 1]
        BY <1>1, <4>1, <4>2
      <4>4. \A j \in Nat : (g + 1) + j - 1 = j + g
        BY <4>2
      <4>5. c - (g + 1) + 1 = c - g
        BY <4>1, <4>2
      <4> HIDE DEF d, g
      <4> QED BY <4>1, <4>3, <4>4, <4>5
    <3> HIDE DEF d, y
    <3> QED BY <3>1, <3>2
  <2>5. y \in LoopbacksOf(l)
    BY <1>1, <1>4, MirrorType
  <2> HIDE DEF y
  <2>6. y.data # <<>> /\ Len(y.data) <= Len(l.data) - g /\ Len(y.data) \in Nat
    <3>1. Len(l.data) - g > 0 /\ Len(l.data) - g \in Nat
      BY <1>1, <2>2
    <3>2. Len(<<>>) = 0
      OBVIOUS
    <3> QED BY <2>4, <3>1, <3>2
  <2>20. PICK a \in Int : a = l.data[1]
    BY <1>1
  <2>7. /\ y \in Sent /\ IsPending(y) /\ Requester(y) = l.smac
        /\ Carries(y) = a + g .. a + g + (Len(y.data) - 1)
        /\ Carries(y) \subseteq Run(l) /\ Fits(l.smac, n, y)'
    <3> HIDE DEF g
    <3> QED BY <2>2, <2>4, <2>5, <2>6, <2>20, PartKind
  <2>8. ASSUME NEW i \in 1 .. g PROVE <<s[i], y>> \in Apart
    <3>1. CopyOf(l, n, a + (i - 1), s[i])
      BY <2>3, <2>20
    <3>2. Carries(s[i]) \cap Carries(y) = {}
      <4>1. i \in Int /\ i <= g /\ g \in Int
        BY <2>2
      <4> HIDE DEF g
      <4>2. \A j \in a + g .. a + g + (Len(y.data) - 1) : j # a + (i - 1)
        <5>1. \A j \in a + g .. a + g + (Len(y.data) - 1) : j >= a + g
          OBVIOUS
        <5>2. a + (i - 1) < a + g
          BY <4>1
        <5> QED BY <5>1, <5>2, <4>1
      <4> QED BY <2>7, <3>1, <4>2 DEF CopyOf
    <3>3. s[i] \in AnyPacket /\ y \in AnyPacket
      BY <2>7, <3>1, SentKind DEF CopyOf
    <3> QED BY <3>2, <3>3 DEF Apart
  <2>9. Pairwise(s, Apart)
    BY <1>1, <2>3, CopiesApart
  <2>10. \A x \in InFlight(s) : <<x, y>> \in Apart
    BY <2>3, <2>8 DEF InFlight
  <2>11. t \in Seq(Sent) /\ InFlight(t) = InFlight(s) \cup {y} /\ Pairwise(t, Apart)
    BY <2>3, <2>7, <2>9, <2>10, AppendFacts
  <2> HIDE DEF t
  <2>12. Spreads(l, n, t)
    BY <2>1, <2>3, <2>7, <2>11 DEF Spreads, CopyOf, InFlight
  <2> QED BY <2>11, <2>12
<1> QED BY <1>2, <1>3, <1>4

LEMMA Set3 ==
  ASSUME NEW A, NEW B, NEW C, NEW D, NEW f \in [A -> [B -> [C -> D]]],
         NEW a \in A, NEW b \in B, NEW c \in C, NEW d,
         NEW g, g = [f EXCEPT ![a][b][c] = d]
  PROVE  /\ g[a][b][c] = d
         /\ \A x \in A, y \in B, z \in C :
              (x # a \/ y # b \/ z # c) => g[x][y][z] = f[x][y][z]
         /\ \A x \in A \ {a} : g[x] = f[x]
<1>1. f[a] \in [B -> [C -> D]] /\ f[a][b] \in [C -> D]
  OBVIOUS
<1>2. g[a] = [f[a] EXCEPT ![b][c] = d] /\ \A x \in A \ {a} : g[x] = f[x]
  OBVIOUS
<1>3. g[a][b] = [f[a][b] EXCEPT ![c] = d] /\ \A y \in B \ {b} : g[a][y] = f[a][y]
  BY <1>1, <1>2
<1>4. g[a][b][c] = d /\ \A z \in C \ {c} : g[a][b][z] = f[a][b][z]
  BY <1>1, <1>3
<1> QED BY <1>2, <1>3, <1>4

\* An item gets a slot of the read ring, and becomes a READ.
LEMMA ReadSpreads ==
  ASSUME OneWr, TypeOK, NEW l \in Recirculated, NEW n \in Nat, Run(l) \subseteq Block(n),
         l.si = Si(n, l.data[1]), NEW state, LoopbackRead(l, state), ~NoDescriptor(l)
  PROVE  /\ \E s \in Seq(Sent) : Spreads(l, n, s)
         /\ SlotsKept(l.smac, n)
         /\ \A f \in Se \ {l.smac} :
              sread_psn_to_si'[f] = sread_psn_to_si[f] /\ si_wr_off'[f] = si_wr_off[f]
<1> DEFINE e == l.smac
           i == l.data[1]
           t == Item(i).dmac
           b == i - (n * ReqMtu)
           u == UnitOf(n)
<1>1. /\ e \in Se /\ l.opcode = "LOOPBACK" /\ i \in Items /\ Len(l.data) = 1
      /\ l.data \in Seq(Int) /\ i \in Int
  <2>1. l \in ToSwitch /\ l.opcode = "LOOPBACK" /\ Len(l.data) = 1 /\ i \in Items
    BY DEF Recirculated, LoopbackRead, NoDescriptor
  <2>2. Items \subseteq Int
    BY Sizes DEF Items
  <2> HIDE DEF i
  <2> QED BY <2>1, <2>2, PacketFields
<1>2. Run(l) = {i}
  <2>1. i .. i + (1 - 1) = {i}
    BY <1>1
  <2> QED BY <1>1, <2>1 DEF Run
<1>3. t \in Se /\ t = i % SeNum /\ Item(i).wr_off = i /\ Item(i).dst_addr = i
  BY <1>1, ItemType, WorkRequest DEF Item
<1>4. sread_psn[e][t] \in Nat /\ sread_unack_psn[e][t] \in Nat
  <2>1. sread_psn \in [Se -> [Se -> Nat]] /\ sread_unack_psn \in [Se -> [Se -> Nat]]
    BY DEF TypeOK, SwitchTypeOK
  <2> HIDE DEF e, t
  <2> QED BY <1>1, <1>3, <2>1
<1>14. PICK m \in Nat : m = sread_psn[e][t]
  BY <1>4
<1>5. /\ u \in Su /\ b \in 0 .. ReqMtu - 1 /\ l.si \div ReqMtu = u /\ l.si % ReqMtu = b
  BY <1>2, SiFacts
<1>6. /\ ~ReadRingFull(e, t)
      /\ sread_psn_to_si' = [sread_psn_to_si EXCEPT ![e][t][ReadSlot(m)] = l.si]
      /\ si_wr_off' = [si_wr_off EXCEPT ![e][u][b] = i]
      /\ Send(IF state = 0 THEN <<>> ELSE <<ReadOf(e, t, m, i)>>)
  <2>1. ~ReadRingFull(e, t) /\ Send(IF state = 0 THEN <<>> ELSE <<ReadOf(e, t, m, i)>>)
    BY <1>3, <1>14 DEF LoopbackRead, ReadOf
  <2>2. sread_psn_to_si' = [sread_psn_to_si EXCEPT ![e][t][ReadSlot(m)] = l.si]
    BY <1>14 DEF LoopbackRead
  <2>3. si_wr_off' = [si_wr_off EXCEPT ![e][l.si \div ReqMtu][l.si % ReqMtu] = Item(i).wr_off]
    BY DEF LoopbackRead
  <2>4. si_wr_off' = [si_wr_off EXCEPT ![e][u][b] = i]
    BY <1>3, <1>5, <2>3
  <2> QED BY <2>1, <2>2, <2>4
<1> DEFINE r == ReadOf(e, t, m, i)
<1>7. m < sread_unack_psn[e][t] + PsnRingSize
  <2> HIDE DEF e, t
  <2>1. ~(sread_psn[e][t] >= sread_unack_psn[e][t] + PsnRingSize)
    BY <1>6 DEF ReadRingFull
  <2> QED BY <1>4, <1>14, <2>1, Sizes
<1> HIDE DEF e, i, t, b, u
<1>8. /\ sread_psn_to_si'[e][t][ReadSlot(m)] = l.si
      /\ \A y \in Se, z \in 0 .. PsnRingSize - 1 :
           (y # t \/ z # ReadSlot(m)) => sread_psn_to_si'[e][y][z] = sread_psn_to_si[e][y][z]
      /\ \A f \in Se \ {e} : sread_psn_to_si'[f] = sread_psn_to_si[f]
  <2> DEFINE C == 0 .. PsnRingSize - 1
             D == 0 .. WriteRingSize - 1
  <2>1. sread_psn_to_si \in [Se -> [Se -> [C -> D]]]
    BY DEF TypeOK, SwitchTypeOK
  <2>2. ReadSlot(m) \in C
    BY SlotType
  <2> HIDE DEF C, D
  <2>3. /\ sread_psn_to_si'[e][t][ReadSlot(m)] = l.si
        /\ \A x \in Se, y \in Se, z \in C :
             (x # e \/ y # t \/ z # ReadSlot(m))
               => sread_psn_to_si'[x][y][z] = sread_psn_to_si[x][y][z]
        /\ \A f \in Se \ {e} : sread_psn_to_si'[f] = sread_psn_to_si[f]
    BY <1>1, <1>3, <1>6, <2>1, <2>2, Set3
  <2> QED BY <1>1, <2>3 DEF C
<1>9. /\ si_wr_off'[e][u][b] = i
      /\ \A z \in 0 .. ReqMtu - 1 : z # b => si_wr_off'[e][u][z] = si_wr_off[e][u][z]
      /\ \A f \in Se \ {e} : si_wr_off'[f] = si_wr_off[f]
  <2> DEFINE C == 0 .. ReqMtu - 1
  <2>1. si_wr_off \in [Se -> [Su -> [C -> Nat]]] /\ b \in C
    BY <1>5 DEF TypeOK, SwitchTypeOK
  <2> HIDE DEF C
  <2>2. /\ si_wr_off'[e][u][b] = i
        /\ \A x \in Se, y \in Su, z \in C :
             (x # e \/ y # u \/ z # b) => si_wr_off'[x][y][z] = si_wr_off[x][y][z]
        /\ \A f \in Se \ {e} : si_wr_off'[f] = si_wr_off[f]
    BY <1>1, <1>5, <1>6, <2>1, Set3
  <2> QED BY <1>1, <1>5, <2>2 DEF C
<1>10. SlotsKept(e, n)
  <2> SUFFICES ASSUME NEW y \in Se, NEW k \in Nat, NEW j \in Block(n),
                      sread_unack_psn[e][y] <= k, k < sread_psn[e][y], InSlot(e, y, k, n, j)
               PROVE  InSlot(e, y, k, n, j)'
    BY DEF SlotsKept
  <2>1. ReadSlot(k) \in 0 .. PsnRingSize - 1
    BY SlotType
  <2>2. y # t \/ ReadSlot(k) # ReadSlot(m)
    <3> SUFFICES ASSUME y = t, ReadSlot(k) = ReadSlot(m) PROVE FALSE
      OBVIOUS
    <3>1. k < m /\ m < k + PsnRingSize
      BY <1>4, <1>7, <1>14, Sizes
    <3>2. m % PsnRingSize = k % PsnRingSize
      BY DEF ReadSlot
    <3>3. m <= k
      BY <1>4, <3>1, <3>2, SameSlot, Sizes
    <3> QED BY <1>4, <3>1, <3>3
  <2>3. sread_psn_to_si'[e][y][ReadSlot(k)] = sread_psn_to_si[e][y][ReadSlot(k)]
    BY <1>8, <2>1, <2>2
  <2>4. j - (n * ReqMtu) \in 0 .. ReqMtu - 1
    BY SiFacts
  <2>5. si_wr_off'[e][u][j - (n * ReqMtu)] = j
    <3>1. CASE j - (n * ReqMtu) = b
      <4>1. Block(n) \subseteq Items /\ Items \subseteq Nat /\ n * ReqMtu \in Nat
        BY BlockFacts
      <4>2. j \in Nat
        BY <4>1
      <4>3. j = i
        BY <1>1, <3>1, <4>1, <4>2 DEF b
      <4> QED BY <1>9, <3>1, <4>3
    <3>2. CASE j - (n * ReqMtu) # b
      <4>1. si_wr_off'[e][u][j - (n * ReqMtu)] = si_wr_off[e][u][j - (n * ReqMtu)]
        BY <1>9, <2>4, <3>2
      <4> QED BY <4>1 DEF InSlot, u
    <3> QED BY <3>1, <3>2
  <2> QED BY <2>3, <2>5 DEF InSlot, u
<1>11. \E s \in Seq(Sent) : Spreads(l, n, s)
  <2>1. CASE state = 0
    <3>1. Send(<<>>)
      BY <1>6, <2>1
    <3> QED BY <3>1, NothingSpreads
  <2>2. CASE state # 0
    <3>1. Send(<<r>>)
      BY <1>6, <2>2
    <3>2. r \in Orders /\ QpOf(r) = <<t, e>> /\ r.psn = m
      BY <1>1, <1>3, ReadIsOrder
    <3>3. r.opcode = "READ" /\ r.addr = i /\ r.dmac = t /\ r.dqpn = e
      BY DEF ReadOf, NewPacket
    <3> HIDE DEF r
    <3>4. r \in Sent /\ IsPending(r) /\ Requester(r) = e /\ Carries(r) = {i}
      BY <1>1, <3>2, <3>3 DEF Sent, IsPending, Requester, Carries
    <3>5. Fits(e, n, r)'
      <4>1. InSlot(e, t, m, n, i)'
        BY <1>8, <1>9 DEF InSlot, b, u, i
      <4> QED BY <1>1, <1>3, <3>2, <3>3, <4>1 DEF Fits
    <3> QED BY <1>2, <3>1, <3>4, <3>5, OneSpreads DEF e
  <2> QED BY <2>1, <2>2
<1> QED BY <1>8, <1>9, <1>10, <1>11 DEF e

\* A loopback pass of packet l, whose items belong to request n.
LEMMA LoopbackSpreads ==
  ASSUME OneWr, TypeOK, NEW l \in Recirculated, NEW n \in Nat, Consecutive(l),
         Run(l) \subseteq Block(n), l.si = Si(n, l.data[1]), NEW state, ProcessLoopback(l, state)
  PROVE  /\ \E s \in Seq(Sent) : Spreads(l, n, s)
         /\ SlotsKept(l.smac, n)
         /\ \A f \in Se \ {l.smac} :
              sread_psn_to_si'[f] = sread_psn_to_si[f] /\ si_wr_off'[f] = si_wr_off[f]
<1>1. CASE LoopbackRead(l, state)
  BY <1>1, ReadSpreads DEF ProcessLoopback
<1>2. CASE LoopbackSplit(l, state)
  <2>1. UNCHANGED readVars
    BY <1>2 DEF LoopbackSplit
  <2>2. SlotsKept(l.smac, n)
    BY <2>1, UnchangedSlots
  <2> QED BY <1>2, <2>1, <2>2, SplitSpreads DEF readVars
<1>3. CASE LoopbackRingFull(l, state)
  <2>1. UNCHANGED readVars
    BY <1>3 DEF LoopbackRingFull
  <2>2. SlotsKept(l.smac, n)
    BY <2>1, UnchangedSlots
  <2>3. \E s \in Seq(Sent) : Spreads(l, n, s)
    <3>1. CASE state = 0
      <4>1. Send(<<>>)
        BY <1>3, <3>1 DEF LoopbackRingFull
      <4> QED BY <4>1, NothingSpreads
    <3>2. CASE state # 0
      <4>1. Send(<<l>>) /\ l.opcode = "LOOPBACK"
        BY <1>3, <3>2 DEF LoopbackRingFull, Recirculated
      <4>2. l \in Sent /\ Requester(l) = l.smac /\ IsPending(l) /\ Carries(l) = Run(l)
        BY <4>1, RecirculatedKind DEF Sent, IsPending, Carries
      <4>3. Fits(l.smac, n, l)'
        BY <4>1 DEF Fits
      <4> QED BY <4>1, <4>2, <4>3, OneSpreads
    <3> QED BY <3>1, <3>2
  <2> QED BY <2>1, <2>2, <2>3 DEF readVars
<1> QED BY <1>1, <1>2, <1>3 DEF ProcessLoopback

\* A pending packet still says what it has to while the slots do.
LEMMA FitsKept ==
  ASSUME TypeOK, PacedInv, NEW e \in Se, NEW n \in Nat, NEW x \in Pending(e),
         Carries(x) \subseteq Block(n), Fits(e, n, x), SlotsKept(e, n),
         se_state'[e] = se_state[e]
  PROVE  Fits(e, n, x)'
<1>1. x \in Moving /\ IsPending(x) /\ Requester(x) = e
  BY DEF Pending
<1>2. x \in Received \cup Sent /\ x \in AnyPacket
  BY <1>1, KindOf DEF PacedInv
<1>3. ASSUME NEW t \in Se, QpOf(x) = <<t, e>>, se_state[e] = 1
      PROVE  x.psn \in Nat /\ sread_unack_psn[e][t] <= x.psn /\ x.psn < sread_psn[e][t]
  <2> DEFINE q == <<t, e>>
  <2>1. q \in Responders /\ RequesterOf(q) = e /\ NextPsn(q) = sread_psn[e][t]
    BY ResponderNames, Numbers DEF NextPsn
  <2>2. x \in Traffic(q)
    BY <1>1, <1>3 DEF Traffic
  <2>3. x.psn < NextPsn(q)
    BY <1>3, <2>1, <2>2, UpIsReady DEF Ready
  <2>4. x.psn \in Nat
    BY <2>1, <2>2, TrafficTypes
  <2>5. x.psn >= sread_unack_psn[e][t]
    BY <2>2 DEF PacedInv, ReadWindow
  <2>6. sread_unack_psn[e][t] \in Nat
    BY DEF TypeOK, SwitchTypeOK
  <2> QED BY <2>1, <2>3, <2>4, <2>5, <2>6
<1>4. CASE x.opcode = "LOOPBACK"
  BY <1>4 DEF Fits
<1>5. CASE x.opcode = "READ"
  <2>1. QpOf(x) = <<x.dmac, x.dqpn>> /\ x.dqpn = e /\ x.dmac \in Se
    BY <1>1, <1>2, <1>5, PendingKind, OrderKind DEF Requester
  <2>2. x.addr \in Block(n)
    BY <1>5 DEF Carries
  <2>3. se_state[e] = 1 => InSlot(e, x.dmac, x.psn, n, x.addr)'
    <3> SUFFICES ASSUME se_state[e] = 1 PROVE InSlot(e, x.dmac, x.psn, n, x.addr)'
      OBVIOUS
    <3>1. InSlot(e, x.dmac, x.psn, n, x.addr)
      BY <1>5 DEF Fits
    <3>2. x.psn \in Nat /\ sread_unack_psn[e][x.dmac] <= x.psn /\ x.psn < sread_psn[e][x.dmac]
      BY <1>3, <2>1
    <3> QED BY <2>1, <2>2, <3>1, <3>2 DEF SlotsKept
  <2> QED BY <1>5, <2>3 DEF Fits
<1>6. CASE x.opcode = "READ_RESPONSE"
  <2>1. QpOf(x) = <<x.smac, x.dqpn>> /\ x.dqpn = e /\ x.smac \in Se
    BY <1>1, <1>2, <1>6, PendingKind DEF Requester
  <2>2. PICK i \in Items : /\ x.data = <<Value(i)>> /\ i % SeNum = x.smac
                           /\ se_state[e] = 1 => InSlot(e, x.smac, x.psn, n, i)
    BY <1>6 DEF Fits
  <2>3. Carries(x) = {i}
    BY <1>1, <1>2, <1>6, <2>2, CarriesFacts
  <2>4. se_state[e] = 1 => InSlot(e, x.smac, x.psn, n, i)'
    <3> SUFFICES ASSUME se_state[e] = 1 PROVE InSlot(e, x.smac, x.psn, n, i)'
      OBVIOUS
    <3>1. x.psn \in Nat /\ sread_unack_psn[e][x.smac] <= x.psn /\ x.psn < sread_psn[e][x.smac]
      BY <1>3, <2>1
    <3> QED BY <2>1, <2>2, <2>3, <3>1 DEF SlotsKept
  <2> QED BY <1>6, <2>2, <2>4 DEF Fits
<1> QED BY <1>1, <1>4, <1>5, <1>6 DEF IsPending

LEMMA LoopbackDelivery ==
  ASSUME OneWr, TypeOK, PacedInv, DeliveryInv, rx_queue # <<>>, NEW p, p = Head(rx_queue),
         rx_queue' = Tail(rx_queue), UNCHANGED qpVars, Loopback(p)
  PROVE  DeliveryInv'
<1> DEFINE e == p.smac
<1>1. p \in Received /\ p \in Moving /\ p.opcode = "LOOPBACK" /\ p \in Received \cup Sent
  BY TakenKind DEF Loopback
<1>2. p \in Recirculated /\ p \in AnyPacket
  BY <1>1, PendingKind
<1>3. e \in Se /\ Requester(p) = e /\ IsPending(p) /\ Carries(p) = Run(p)
  BY <1>1, <1>2, RecirculatedKind DEF IsPending, Carries
<1>4. UNCHANGED <<qp_tx, qp_rx, epsn, buf>> /\ UNCHANGED requesterVars
  BY DEF qpVars, responderVars
<1>5. UNCHANGED <<se_state, su_rem, requestVars, writeVars>> /\ ProcessLoopback(p, se_state[e])
  BY DEF Loopback
<1> HIDE DEF e
<1>6. p \in Pending(e)
  BY <1>1, <1>3 DEF Pending
<1>7. PICK n \in Nat : /\ n \in sreq_unack_psn[e] .. se_req_epsn[e] - 1
                       /\ \E U \in SUBSET Block(n) : Turn(e, n, U)
  BY <1>3, <1>6, TurnOf DEF Busy
<1>8. PICK U \in SUBSET Block(n) : Turn(e, n, U)
  BY <1>7
<1>9. Carries(p) \subseteq U /\ Consecutive(p) /\ p.si = Si(n, p.data[1])
  BY <1>1, <1>6, <1>8 DEF Turn, Fits
<1>10. Run(p) \subseteq Block(n)
  BY <1>3, <1>8, <1>9
<1>11. /\ \E s \in Seq(Sent) : Spreads(p, n, s)
       /\ SlotsKept(e, n)
       /\ \A f \in Se \ {e} :
            sread_psn_to_si'[f] = sread_psn_to_si[f] /\ si_wr_off'[f] = si_wr_off[f]
  BY <1>2, <1>5, <1>9, <1>10, LoopbackSpreads DEF e
<1>12. PICK s \in Seq(Sent) : Spreads(p, n, s)
  BY <1>11
<1>13. Send(s) /\ Pairwise(s, Apart)
  BY <1>12 DEF Spreads
<1>14. ASSUME NEW y \in InFlight(s)
       PROVE  /\ IsPending(y) /\ Requester(y) = e /\ Carries(y) \subseteq Carries(p)
              /\ Fits(e, n, y)' /\ y \in Sent /\ y \in AnyPacket
              /\ y.opcode # "NAK" /\ ~IsReply(y) /\ QpOf(y) # WriteQp(e)
  <2>1. IsPending(y) /\ Requester(y) = e /\ Carries(y) \subseteq Carries(p) /\ Fits(e, n, y)'
    BY <1>3, <1>12 DEF Spreads, e
  <2>2. y \in Sent
    BY InFlightType
  <2>3. y \in AnyPacket /\ y \in Received \cup Sent
    BY <2>2, SentKind
  <2>4. ~IsReply(y) /\ QpOf(y) # WriteQp(e)
    <3>1. y.opcode = "LOOPBACK" => ~IsReply(y) /\ QpOf(y) # WriteQp(e)
      BY <1>3, <2>3, PendingKind, RecirculatedKind, ResponderNames DEF Aside
    <3>2. y.opcode = "READ" => ~IsReply(y) /\ QpOf(y) # WriteQp(e)
      BY <2>3, PendingKind, OrderKind, Numbers DEF WriteQp
    <3>3. y.opcode # "READ_RESPONSE"
      BY <2>2, RecirculatedKind DEF Sent, Recirculated, Orders, RequestAcks
    <3> QED BY <2>1, <3>1, <3>2, <3>3 DEF IsPending
  <2>5. y.opcode # "NAK"
    BY <2>1 DEF IsPending
  <2> QED BY <2>1, <2>2, <2>3, <2>4, <2>5
<1>15. Taken(p, s)
  BY <1>4, <1>13 DEF Taken
<1>16. ASSUME NEW x \in Moving, <<p, x>> \in Apart, NEW y \in InFlight(s)
       PROVE  <<x, y>> \in Apart
  <2>1. x \in AnyPacket
    BY KindOf DEF PacedInv
  <2>2. y \in AnyPacket /\ Requester(y) = Requester(p) /\ Carries(y) \subseteq Carries(p)
    BY <1>3, <1>14
  <2>3. <<x, p>> \in Apart
    BY <1>16, ApartFacts
  <2> QED BY <1>3, <2>1, <2>2, <2>3, SameCarried
<1>17. InOrder(Apart)' /\ Moving' \subseteq Moving \cup InFlight(s)
  BY <1>13, <1>15, <1>16, ProcessedQueues
<1>18. OthersKept(e)
  BY <1>5, <1>11 DEF OthersKept, requestVars, writeVars
<1>19. Kept(e) /\ UNCHANGED <<sreq_unack_psn, se_req_epsn>>
  BY <1>4, <1>5 DEF Kept, requestVars, writeVars
<1>20. /\ Writes(e)' \subseteq Writes(e) /\ Acks(e)' \subseteq Acks(e)
       /\ Refusals(e)' \subseteq Refusals(e) /\ Pending(e)' \subseteq Pending(e) \cup InFlight(s)
  <2>1. \A y \in InFlight(s) : QpOf(y) # WriteQp(e) /\ ~IsNak(y)
    BY <1>14 DEF IsNak
  <2> QED BY <1>17, <2>1 DEF Writes, Acks, Traffic, Refusals, Pending
<1>21. ASSUME NEW x \in Pending(e)'
       PROVE  Carries(x) \subseteq U /\ Carries(x) \subseteq Tracked(e) /\ Fits(e, n, x)'
  <2>1. CASE x \in Pending(e)
    <3>1. Carries(x) \subseteq U /\ Fits(e, n, x)
      BY <1>8, <2>1 DEF Turn
    <3>2. Fits(e, n, x)'
      BY <1>3, <1>8, <1>11, <1>19, <2>1, <3>1, FitsKept DEF Kept
    <3> QED BY <2>1, <3>1, <3>2 DEF Tracked
  <2>2. CASE x \in InFlight(s)
    BY <1>6, <1>9, <1>14, <2>2 DEF Tracked
  <2> QED BY <1>20, <2>1, <2>2
<1>22. Turn(e, n, U)'
  BY <1>3, <1>8, <1>19, <1>20, <1>21, TurnKept
<1>23. OneTurn(e)'
  BY <1>3, <1>7, <1>19, <1>22, TurnGoesOn
<1>24. Bases' /\ Retired'
  BY <1>4, <1>5, MemoryKept DEF DeliveryInv, requestVars
<1>25. \A y \in InFlight(s) : Requester(y) = e
  BY <1>14
<1> QED BY <1>3, <1>4, <1>15, <1>17, <1>18, <1>23, <1>24, <1>25, ProcessedDelivery

\* What the items of a request become is neither a WRITE nor an answer.
LEMMA SpreadKind ==
  ASSUME NEW e \in Se, NEW y \in Sent, IsPending(y), Requester(y) = e
  PROVE  ~IsNak(y) /\ ~IsReply(y) /\ QpOf(y) # WriteQp(e)
<1>1. y \in AnyPacket /\ y \in Received \cup Sent
  BY SentKind
<1>2. CASE y.opcode = "LOOPBACK"
  BY <1>1, <1>2, PendingKind, RecirculatedKind, ResponderNames DEF Aside
<1>3. CASE y.opcode = "READ"
  BY <1>1, <1>3, PendingKind, OrderKind, Numbers DEF WriteQp
<1>4. y.opcode # "READ_RESPONSE"
  BY RecirculatedKind DEF Sent, Recirculated, Orders, RequestAcks
<1> QED BY <1>2, <1>3, <1>4 DEF IsPending

\* The items of a request, as the loopback packet it becomes.
LEMMA RightLoopback ==
  ASSUME NEW p \in ToSwitch, p.dqpn = ToSReq, p.opcode # "LOOPBACK", RightRequest(p)
  PROVE  /\ AsLoopback(p) \in Recirculated /\ Consecutive(AsLoopback(p))
         /\ Run(AsLoopback(p)) = Block(p.psn) /\ AsLoopback(p).smac = p.smac
         /\ AsLoopback(p).si = Si(p.psn, AsLoopback(p).data[1])
         /\ Len(p.data) = Cardinality(Block(p.psn))
<1> DEFINE l == AsLoopback(p)
           n == p.psn
<1>1. /\ l \in LoopbacksOf(p) /\ l \in ToSwitch /\ l.opcode = "LOOPBACK" /\ l.smac = p.smac
  BY AsLoopbackType
<1>2. l.data = p.data /\ l.si = UnitOf(n) * ReqMtu /\ l.dqpn = ToSReq
  BY PacketFields DEF AsLoopback, Packets
<1>3. n \in Nat /\ p.data \in Seq(Int)
  BY PacketFields
<1>4. PICK b \in Nat : b = n * ReqMtu
  BY <1>3, Sizes
<1>5. PICK c \in Nat : c = BlockEnd(n)
  BY <1>3, BlockFacts
<1>6. b < c
  BY <1>4, <1>5, Sizes DEF RightRequest, BlockEnd
<1>7. Len(p.data) = c - b /\ \A k \in 1 .. c - b : p.data[k] = b + (k - 1)
  BY <1>4, <1>5 DEF RightRequest
<1>8. l.data[1] = b
  <2>1. 1 \in 1 .. c - b
    BY <1>6
  <2> QED BY <1>2, <1>4, <1>7, <2>1
<1>9. l \in Recirculated
  BY <1>1, <1>2 DEF Recirculated
<1> HIDE DEF l, n
<1>10. Consecutive(l)
  <2>1. p.data # <<>>
    <3>1. Len(<<>>) = 0
      OBVIOUS
    <3> QED BY <1>6, <1>7, <3>1
  <2> QED BY <1>2, <1>7, <1>8, <2>1 DEF Consecutive
<1>11. Run(l) = Block(n)
  <2>1. b + ((c - b) - 1) = c - 1
    OBVIOUS
  <2> QED BY <1>2, <1>4, <1>5, <1>7, <1>8, <2>1 DEF Run, Block
<1>12. l.si = Si(n, l.data[1])
  <2>3. UnitOf(n) \in Su
    BY <1>3, SlotType
  <2>4. UnitOf(n) \in Nat
    BY <2>3, Sizes DEF Su
  <2>1. PICK u \in Nat : u = UnitOf(n) * ReqMtu
    BY <2>4, Sizes
  <2>2. u = u + (b - b)
    OBVIOUS
  <2> QED BY <1>2, <1>4, <1>8, <2>1, <2>2 DEF Si
<1>13. Len(p.data) = Cardinality(Block(n))
  BY <1>3, <1>4, <1>5, <1>7, BlockFacts DEF RightRequest, n
<1> QED BY <1>1, <1>9, <1>10, <1>11, <1>12, <1>13 DEF l, n

\* The switch starts, or starts over, the unit of request p.
LEMMA RequestStarts ==
  ASSUME OneWr, TypeOK, PacedInv, DeliveryInv, rx_queue # <<>>, NEW p, p = Head(rx_queue),
         rx_queue' = Tail(rx_queue), UNCHANGED qpVars, IsRequest(p),
         ProcessLoopback(AsLoopback(p), se_state'[p.smac]),
         su_rem' = [su_rem EXCEPT ![p.smac][UnitOf(p.psn)] = Len(p.data)],
         UNCHANGED writeVars, UNCHANGED sreq_unack_psn,
         p.psn \in sreq_unack_psn[p.smac] .. se_req_epsn'[p.smac] - 1,
         \A f \in Se \ {p.smac} : se_req_epsn'[f] = se_req_epsn[f] /\ se_state'[f] = se_state[f],
         se_state' \in [Se -> {0, 1}], Bases'
  PROVE  DeliveryInv'
<1> DEFINE e == p.smac
           n == p.psn
           l == AsLoopback(p)
<1>1. p \in Received /\ p \in Moving /\ p \in InFlight(rx_queue) /\ p \in ToSwitch
  BY TakenKind
<1>2. e \in Se /\ Requester(p) = e /\ p \in AnyPacket /\ n \in Nat
  BY <1>1, RequestKind, PacketFields
<1>3. RightRequest(p)
  BY <1>1 DEF DeliveryInv, RightRequests
<1>4. /\ l \in Recirculated /\ Consecutive(l) /\ Run(l) = Block(n) /\ l.smac = e
      /\ l.si = Si(n, l.data[1]) /\ Len(p.data) = Cardinality(Block(n))
  BY <1>1, <1>3, RightLoopback DEF IsRequest
<1>5. UNCHANGED <<qp_tx, qp_rx, epsn, buf>> /\ UNCHANGED requesterVars
  BY DEF qpVars, responderVars
<1>6. su_rem'[e][UnitOf(n)] = Len(p.data) /\ \A f \in Se \ {e} : su_rem'[f] = su_rem[f]
  <2>1. su_rem \in [Se -> [Su -> Int]] /\ UnitOf(n) \in Su
    BY <1>2, SlotType DEF TypeOK, SwitchTypeOK
  <2>2. su_rem'[e] = [su_rem[e] EXCEPT ![UnitOf(n)] = Len(p.data)]
        /\ \A f \in Se \ {e} : su_rem'[f] = su_rem[f]
    BY <1>2, <2>1
  <2>3. su_rem[e] \in [Su -> Int]
    BY <1>2, <2>1
  <2> QED BY <2>1, <2>2, <2>3
<1> HIDE DEF l
<1>7. /\ \E s \in Seq(Sent) : Spreads(l, n, s)
      /\ SlotsKept(e, n)
      /\ \A f \in Se \ {e} :
           sread_psn_to_si'[f] = sread_psn_to_si[f] /\ si_wr_off'[f] = si_wr_off[f]
  <2>1. Run(l) \subseteq Block(n) /\ ProcessLoopback(l, se_state'[e])
    BY <1>4 DEF l
  <2> QED BY <1>2, <1>4, <2>1, LoopbackSpreads
<1> HIDE DEF e, n
<1>8. PICK s \in Seq(Sent) : Spreads(l, n, s)
  BY <1>7
<1>9. Send(s) /\ Pairwise(s, Apart)
  BY <1>8 DEF Spreads
<1>10. ASSUME NEW y \in InFlight(s)
       PROVE  /\ IsPending(y) /\ Requester(y) = e /\ Carries(y) \subseteq Block(n)
              /\ Fits(e, n, y)' /\ y \in Sent /\ y \in AnyPacket
              /\ ~IsNak(y) /\ QpOf(y) # WriteQp(e)
  <2>1. IsPending(y) /\ Requester(y) = e /\ Carries(y) \subseteq Block(n) /\ Fits(e, n, y)'
    BY <1>4, <1>8 DEF Spreads
  <2>2. y \in Sent
    BY InFlightType
  <2>3. y \in AnyPacket /\ ~IsNak(y) /\ QpOf(y) # WriteQp(e)
    BY <1>2, <2>1, <2>2, SentKind, SpreadKind
  <2> QED BY <2>1, <2>2, <2>3
<1>11. Taken(p, s)
  BY <1>5, <1>9 DEF Taken
<1>12. ASSUME NEW x \in Moving
       PROVE  /\ x \in AnyPacket
              /\ ~IsPending(x) \/ Requester(x) # e
              /\ Foreign(e, x)
  <2>1. x \in AnyPacket /\ x \in Received \cup Sent
    BY KindOf DEF PacedInv
  <2>2. Requester(x) # e \/ IsRequest(x)
    BY <1>1 DEF PacedInv, OneRequest, e
  <2>3. IsRequest(x) => ~IsPending(x)
    BY <2>1, PendingKind
  <2>4. Foreign(e, x)
    BY <1>2, <2>1, <2>2, ForeignKind
  <2> QED BY <2>1, <2>2, <2>3, <2>4
<1>13. ASSUME NEW x \in Moving, <<p, x>> \in Apart, NEW y \in InFlight(s)
       PROVE  <<x, y>> \in Apart
  <2>1. x \in AnyPacket
    BY KindOf DEF PacedInv
  <2> QED BY <1>10, <1>12, <2>1, ApartFacts
<1>14. InOrder(Apart)' /\ Moving' \subseteq Moving \cup InFlight(s)
  BY <1>9, <1>11, <1>13, ProcessedQueues
<1>15. OthersKept(e)
  BY <1>6, <1>7 DEF OthersKept, writeVars, e
<1>16. /\ Pending(e)' \subseteq InFlight(s) /\ Writes(e)' = {} /\ Acks(e)' = {}
       /\ Refusals(e)' = {}
  BY <1>10, <1>12, <1>14 DEF Pending, Writes, Acks, Refusals, Traffic, Foreign
<1> DEFINE U == Block(n)
<1>17. Turn(e, n, U)'
  <2>1. (su_rem[e][UnitOf(n)] = Cardinality(U))'
    BY <1>4, <1>6
  <2>2. (\A x \in Pending(e) : Carries(x) \subseteq U /\ Fits(e, n, x))'
    BY <1>10, <1>16
  <2>3. Sound(e, U)'
    <3>1. se_state'[e] = 1 \/ se_state'[e] = 0
      BY <1>2
    <3> QED BY <1>16, <3>1 DEF Sound, Broken
  <2> QED BY <1>16, <2>1, <2>2, <2>3 DEF Turn
<1>18. OneTurn(e)'
  <2>1. n \in sreq_unack_psn'[e] .. se_req_epsn'[e] - 1
    BY DEF e, n
  <2> QED BY <1>17, <2>1 DEF OneTurn
<1>19. Retired'
  BY <1>5 DEF DeliveryInv, Retired, Brought
<1>20. \A y \in InFlight(s) : Requester(y) = e
  BY <1>10
<1> QED BY <1>2, <1>5, <1>11, <1>14, <1>15, <1>18, <1>19, <1>20, ProcessedDelivery

LEMMA RetriedDelivery ==
  ASSUME OneWr, TypeOK, PacedInv, DeliveryInv, TypeOK', rx_queue # <<>>,
         NEW p, p = Head(rx_queue),
         rx_queue' = Tail(rx_queue), UNCHANGED qpVars, RequestRetried(p)
  PROVE  DeliveryInv'
<1> DEFINE e == p.smac
<1>1. p \in Received /\ IsRequest(p) /\ InProgress(p) /\ p \in ToSwitch
  BY TakenKind DEF RequestRetried
<1>2. e \in Se /\ p.psn \in Nat
  BY <1>1, RequestKind, PacketFields
<1>3. se_state \in [Se -> {0, 1}] /\ sreq_unack_psn[e] \in Nat /\ se_req_epsn[e] \in Nat
      /\ se_state' \in [Se -> {0, 1}]
  BY <1>2 DEF TypeOK, SwitchTypeOK
<1>4. /\ se_state' = [se_state EXCEPT ![e] = 1] /\ ProcessLoopback(AsLoopback(p), 1)
      /\ su_rem' = [su_rem EXCEPT ![p.smac][UnitOf(p.psn)] = Len(p.data)]
      /\ UNCHANGED <<requestVars, writeVars>>
  BY DEF RequestRetried
<1>5. p.psn \in sreq_unack_psn[e] .. se_req_epsn[e] - 1
  BY <1>1, <1>2, <1>3 DEF InProgress, TooEarly, AlreadyAcked
<1>6. se_state'[e] = 1 /\ \A f \in Se \ {e} : se_state'[f] = se_state[f]
  BY <1>2, <1>3, <1>4
<1>7. Bases'
  BY <1>4 DEF DeliveryInv, Bases, requestVars
<1>8. UNCHANGED <<sreq_unack_psn, se_req_epsn>> /\ UNCHANGED writeVars
  BY <1>4 DEF requestVars
<1> QED BY <1>1, <1>3, <1>4, <1>5, <1>6, <1>7, <1>8, RequestStarts

LEMMA ExpectedDelivery ==
  ASSUME OneWr, TypeOK, PacedInv, DeliveryInv, rx_queue # <<>>, NEW p, p = Head(rx_queue),
         rx_queue' = Tail(rx_queue), UNCHANGED qpVars, RequestExpected(p)
  PROVE  DeliveryInv'
<1> DEFINE e == p.smac
           n == p.psn
           u == UnitOf(n)
           g == 2 * EleNum
<1>1. p \in Received /\ IsRequest(p) /\ Expected(p) /\ p \in ToSwitch /\ p \in Moving
  BY TakenKind DEF RequestExpected
<1>2. e \in Se /\ n \in Nat
  BY <1>1, RequestKind, PacketFields
<1>3. /\ se_state \in [Se -> {0, 1}] /\ sreq_unack_psn[e] \in Nat /\ se_req_epsn \in [Se -> Nat]
      /\ su_wr_addr \in [Se -> [Su -> Int]] /\ se_wr_addr \in [Se -> Int]
  BY <1>2 DEF TypeOK, SwitchTypeOK
<1>4. /\ se_req_epsn' = [se_req_epsn EXCEPT ![e] = @ + 1]
      /\ se_wr_addr' = [se_wr_addr EXCEPT ![e] =
           IF p.opcode \in {"WRITE_FIRST", "WRITE_ONLY"} THEN p.addr ELSE @]
      /\ su_wr_addr' = [su_wr_addr EXCEPT ![e][u] = se_wr_addr'[e]]
      /\ su_rem' = [su_rem EXCEPT ![p.smac][UnitOf(p.psn)] = Len(p.data)]
      /\ ProcessLoopback(AsLoopback(p), se_state[e])
      /\ UNCHANGED <<se_state, sreq_unack_psn, writeVars>>
  BY DEF RequestExpected
<1>5. n = se_req_epsn[e] /\ n >= sreq_unack_psn[e]
  BY <1>1, <1>2, <1>3 DEF Expected, TooEarly, AlreadyAcked
<1>6. se_req_epsn'[e] = n + 1 /\ \A f \in Se \ {e} : se_req_epsn'[f] = se_req_epsn[f]
  BY <1>2, <1>3, <1>4, <1>5
<1>7. RightRequest(p)
  BY <1>1 DEF DeliveryInv, RightRequests
<1>8. se_wr_addr'[e] = g /\ \A f \in Se \ {e} : se_wr_addr'[f] = se_wr_addr[f]
  <2>1. se_wr_addr'[e] = (IF p.opcode \in {"WRITE_FIRST", "WRITE_ONLY"} THEN p.addr
                          ELSE se_wr_addr[e])
        /\ \A f \in Se \ {e} : se_wr_addr'[f] = se_wr_addr[f]
    BY <1>2, <1>3, <1>4
  <2>2. CASE p.opcode \in {"WRITE_FIRST", "WRITE_ONLY"}
    BY <1>7, <2>1, <2>2 DEF RightRequest
  <2>3. CASE p.opcode \notin {"WRITE_FIRST", "WRITE_ONLY"}
    <3>1. n # 0
      BY <1>7, <2>3 DEF RightRequest
    <3>2. se_req_epsn[e] > 0
      BY <1>2, <1>5, <3>1
    <3>3. se_wr_addr[e] = g
      BY <1>2, <3>2 DEF DeliveryInv, Bases
    <3> QED BY <2>1, <2>3, <3>3
  <2> QED BY <2>2, <2>3
<1>9. /\ su_wr_addr'[e][u] = g /\ \A v \in Su \ {u} : su_wr_addr'[e][v] = su_wr_addr[e][v]
      /\ \A f \in Se \ {e} : su_wr_addr'[f] = su_wr_addr[f]
  <2>1. u \in Su
    BY <1>2, SlotType
  <2> HIDE DEF u
  <2>2. su_wr_addr'[e] = [su_wr_addr[e] EXCEPT ![u] = g]
        /\ \A f \in Se \ {e} : su_wr_addr'[f] = su_wr_addr[f]
    BY <1>2, <1>3, <1>4, <1>8, <2>1
  <2>3. su_wr_addr[e] \in [Su -> Int]
    BY <1>2, <1>3
  <2> QED BY <2>1, <2>2, <2>3
<1>10. Bases'
  <2> SUFFICES ASSUME NEW f \in Se
               PROVE  /\ se_req_epsn'[f] > 0 => se_wr_addr'[f] = g
                      /\ \A m \in 0 .. se_req_epsn'[f] - 1 : su_wr_addr'[f][UnitOf(m)] = g
    BY DEF Bases
  <2>1. CASE f # e
    BY <1>6, <1>8, <1>9, <2>1 DEF DeliveryInv, Bases
  <2>2. CASE f = e
    <3> SUFFICES ASSUME NEW m \in 0 .. n PROVE su_wr_addr'[e][UnitOf(m)] = g
      BY <1>2, <1>6, <1>8, <2>2
    <3>1. UnitOf(m) \in Su
      BY <1>2, SlotType
    <3>2. CASE UnitOf(m) = u
      BY <1>9, <3>2
    <3>3. CASE UnitOf(m) # u
      <4>1. m \in 0 .. se_req_epsn[e] - 1
        <5>1. m # n
          BY <3>3
        <5> QED BY <1>2, <1>5, <5>1
      <4>2. su_wr_addr[e][UnitOf(m)] = g
        BY <1>2, <4>1 DEF DeliveryInv, Bases
      <4> QED BY <1>9, <3>1, <3>3, <4>2
    <3> QED BY <3>2, <3>3
  <2> QED BY <2>1, <2>2
<1>11. p.psn \in sreq_unack_psn[e] .. se_req_epsn'[e] - 1
  BY <1>2, <1>3, <1>5, <1>6
<1>12. /\ \A f \in Se \ {p.smac} : se_req_epsn'[f] = se_req_epsn[f] /\ se_state'[f] = se_state[f]
       /\ se_state' \in [Se -> {0, 1}] /\ UNCHANGED writeVars /\ UNCHANGED sreq_unack_psn
       /\ ProcessLoopback(AsLoopback(p), se_state'[p.smac])
       /\ su_rem' = [su_rem EXCEPT ![p.smac][UnitOf(p.psn)] = Len(p.data)]
  BY <1>3, <1>4, <1>6
<1> HIDE DEF e, n, u, g
<1> QED BY <1>1, <1>10, <1>11, <1>12, RequestStarts DEF e

-----------------------------------------------------------------------------
(* Answers to the WRITEs.                                                  *)

\* The ACK of the last WRITE of a unit retires the request the unit holds.
LEMMA WriteAckDelivery ==
  ASSUME TypeOK, PacedInv, DeliveryInv, WindowBounded, rx_queue # <<>>,
         NEW p, p = Head(rx_queue), rx_queue' = Tail(rx_queue), UNCHANGED qpVars, WriteAck(p)
  PROVE  DeliveryInv'
<1> DEFINE e == p.smac
           q == WriteQp(e)
           k == sreq_unack_psn[e]
<1>1. /\ IsWriteAnswer(p) /\ p.opcode = "ACK" /\ InTurn(p)
      /\ sreq_unack_psn' = [sreq_unack_psn EXCEPT ![e] = @ + 1]
      /\ UNCHANGED <<se_state, su_rem, se_req_epsn, se_wr_addr, su_wr_addr, readVars, writeVars>>
  BY DEF WriteAck
<1>2. UNCHANGED <<qp_tx, qp_rx, epsn, buf>> /\ UNCHANGED requesterVars
  BY DEF qpVars, responderVars
<1>3. /\ e \in Se /\ q \in Responders /\ QpOf(p) = q /\ p \in Traffic(q) /\ IsReply(p)
      /\ Requester(p) = e /\ p.psn \in Nat
  BY <1>1, AnswerTaken DEF IsNak
<1>4. \E s \in Seq(RequestAcks) :
        /\ Send(s) /\ s \in Seq(AsideOf(e)) /\ \A y \in InFlight(s) : Requester(y) = e
  <2> DEFINE u == WrittenUnit(p)
             n == su_req_psn[e][u]
             m == su_req_msn[e][u]
             y == [ToRequester(e, "ACK", n) EXCEPT !.msn = m]
             s == IF se_state[e] = 0 THEN <<>> ELSE <<y>>
  <2>1. u \in Su
    BY <1>3, SlotType, SwitchTypeParts DEF WrittenUnit, WriteTypeOK, TypeOK
  <2>2. n \in Nat /\ m \in Nat
    <3>1. su_req_psn \in [Se -> [Su -> Nat]] /\ su_req_msn \in [Se -> [Su -> Nat]]
      BY DEF TypeOK, SwitchTypeOK
    <3> HIDE DEF u
    <3> QED BY <1>3, <2>1, <3>1
  <2>3. Send(s)
    BY DEF WriteAck
  <2>4. y.opcode = "ACK"
    BY DEF ToRequester, NewPacket
  <2> HIDE DEF n, m, e
  <2>5. y \in AsideOf(e)
    BY <1>3, <2>2, AckAside
  <2> HIDE DEF y
  <2>6. y \in RequestAcks
    BY <2>4, <2>5 DEF AsideOf, Recirculated
  <2>7. s \in Seq(RequestAcks) /\ s \in Seq(AsideOf(e))
    BY <2>5, <2>6
  <2> HIDE DEF s
  <2>8. \A x \in InFlight(s) : x \in AsideOf(e)
    BY <2>7, InFlightType
  <2>9. \A x \in InFlight(s) : Requester(x) = e
    BY <2>8 DEF AsideOf
  <2> QED BY <2>3, <2>7, <2>9
<1>5. PICK s \in Seq(RequestAcks) :
        /\ Send(s) /\ s \in Seq(AsideOf(e)) /\ \A y \in InFlight(s) : Requester(y) = e
  BY <1>4
<1>6. Taken(p, s)
  BY <1>2, <1>5 DEF Taken
<1>7. /\ s \in Seq(Sent) /\ InOrder(Apart)' /\ Moving' \subseteq Moving \cup InFlight(s)
      /\ \A y \in InFlight(s) : ~IsPending(y) /\ QpOf(y) \notin Responders
  BY <1>6, AckQueues
<1>8. \A x \in Moving' : QpOf(x) \in Responders => x \in Moving /\ <<p, x>> \in Behind
  BY <1>3, <1>5, <1>6, AsideQueues
<1>9. p \in Acks(e) /\ p \in AnyPacket
  BY <1>3, TrafficTypes DEF Acks
<1>10. PICK n \in Nat : /\ n \in sreq_unack_psn[e] .. se_req_epsn[e] - 1
                        /\ \E U \in SUBSET Block(n) : Turn(e, n, U)
  BY <1>3, <1>9, TurnOf DEF Busy
<1>11. PICK U \in SUBSET Block(n) : Turn(e, n, U)
  BY <1>10
<1>12. /\ U = {} /\ Writes(e) = {} /\ Names(e, n, p) /\ p.psn = epsn[q] - 1
       /\ \A i \in Block(n) : Brought(e, i)
       /\ \A a \in Acks(e) : a.psn = epsn[q] - 1
  BY <1>9, <1>11 DEF Turn
<1>13. sreq_unack_psn \in [Se -> Nat] /\ se_req_epsn[e] \in Nat /\ k \in Nat
  BY <1>3 DEF TypeOK, SwitchTypeOK
<1>14. n = k
  <2>1. UnitOf(k) = UnitOf(n)
    BY <1>1, <1>12 DEF InTurn, WrittenUnit, Names
  <2>2. n < k + SuPSe /\ n >= k
    <3>1. se_req_epsn[e] <= k + SuPSe
      BY <1>3 DEF WindowBounded
    <3> QED BY <1>10, <1>13, <3>1, Sizes
  <2>3. n % SuPSe = k % SuPSe
    BY <2>1 DEF UnitOf
  <2>4. n <= k
    BY <1>13, <2>2, <2>3, SameSlot, Sizes
  <2> QED BY <1>13, <2>2, <2>4
<1> HIDE DEF q, k
<1>15. Pending(e)' = {}
  <2> SUFFICES ASSUME NEW x \in Pending(e)' PROVE FALSE
    OBVIOUS
  <2>1. x \in Moving' /\ IsPending(x) /\ Requester(x) = e
    BY DEF Pending
  <2>2. x \in Moving
    BY <1>7, <2>1
  <2>3. x \in Pending(e)
    BY <2>1, <2>2 DEF Pending
  <2>4. Carries(x) \subseteq {} /\ Fits(e, n, x)
    BY <1>11, <1>12, <2>3 DEF Turn
  <2>5. x \in AnyPacket
    BY <2>2, KindOf DEF PacedInv
  <2> QED BY <2>1, <2>4, <2>5, CarriesFacts
<1>16. Writes(e)' \subseteq Writes(e) /\ Acks(e)' \subseteq Acks(e)
       /\ \A x \in Acks(e)' : <<p, x>> \in Behind
  BY <1>3, <1>8 DEF Writes, Acks, Traffic, q
<1>17. Acks(e)' = {}
  <2> SUFFICES ASSUME NEW x \in Acks(e)' PROVE FALSE
    OBVIOUS
  <2>1. x \in Acks(e) /\ <<p, x>> \in Behind /\ x \in Traffic(q) /\ IsReply(x)
    BY <1>16 DEF Acks, q
  <2>2. x \in AnyPacket /\ QpOf(x) = q /\ ~IsNak(x) /\ x.psn \in Nat
    <3>1. x \in AnyPacket /\ QpOf(x) = q /\ x.psn \in Nat
      BY <1>3, <2>1, TrafficTypes
    <3> QED BY <2>1, <3>1 DEF IsReply, IsNak
  <2>3. p.psn < x.psn
    BY <1>3, <1>9, <2>1, <2>2, Earlier
  <2>4. x.psn = p.psn
    BY <1>12, <2>1
  <2> QED BY <2>2, <2>3, <2>4
<1>18. OneTurn(e)'
  BY <1>12, <1>15, <1>16, <1>17 DEF OneTurn, Busy
<1>19. sreq_unack_psn'[e] = k + 1 /\ \A f \in Se \ {e} : sreq_unack_psn'[f] = sreq_unack_psn[f]
  BY <1>1, <1>3, <1>13 DEF k
<1>20. OthersKept(e)
  BY <1>1, <1>19 DEF OthersKept, readVars, writeVars
<1>21. Bases'
  BY <1>1 DEF DeliveryInv, Bases
<1>22. Retired'
  <2> SUFFICES ASSUME NEW f \in Se, NEW m \in 0 .. sreq_unack_psn'[f] - 1, NEW i \in Block(m)
               PROVE  Brought(f, i)'
    BY DEF Retired
  <2>1. Brought(f, i)
    <3>1. CASE f = e /\ m = n
      BY <1>12, <3>1
    <3>2. CASE f # e \/ m # n
      <4>1. m \in 0 .. sreq_unack_psn[f] - 1
        BY <1>13, <1>14, <1>19, <3>2 DEF k
      <4> QED BY <4>1 DEF DeliveryInv, Retired
    <3> QED BY <3>1, <3>2
  <2> QED BY <1>2, <2>1 DEF Brought
<1> QED BY <1>2, <1>3, <1>5, <1>6, <1>7, <1>18, <1>20, <1>21, <1>22, ProcessedDelivery

\* A refusal takes the endpoint down: its turn is lost, not confused.
LEMMA TurnDown ==
  ASSUME TypeOK, PacedInv, NEW e \in Se, NEW n \in Nat, NEW U \in SUBSET Block(n),
         Turn(e, n, U), se_state'[e] = 0, UNCHANGED <<su_rem, epsn, buf, swrite_psn_to_su>>,
         swrite_psn'[e] \in Nat, swrite_psn'[e] <= swrite_psn[e],
         Pending(e)' \subseteq Pending(e), Writes(e)' \subseteq Writes(e),
         Acks(e)' \subseteq Acks(e),
         Refusals(e) # {} \/ \A w \in Writes(e) : w.psn # epsn[WriteQp(e)]
  PROVE  Turn(e, n, U)'
<1>1. (su_rem[e][UnitOf(n)] = Cardinality(U))'
  BY DEF Turn
<1>2. \A x \in Pending(e)' : Carries(x) \subseteq U /\ Fits(e, n, x)'
  <2> SUFFICES ASSUME NEW x \in Pending(e)' PROVE Carries(x) \subseteq U /\ Fits(e, n, x)'
    OBVIOUS
  <2>1. Carries(x) \subseteq U /\ Fits(e, n, x)
    BY DEF Turn
  <2>2. se_state'[e] # 1
    OBVIOUS
  <2> QED BY <2>1, <2>2 DEF Fits
<1>3. \A w \in Writes(e)' : \E i \in Block(n) : w.addr = Place(i) /\ w.data = <<Value(i)>>
  BY DEF Turn
<1>4. Sound(e, U)'
  <2>1. Tracked(e)' \subseteq Tracked(e)
    BY DEF Tracked
  <2>2. \/ U \ Tracked(e) # {}
        \/ \A w \in Writes(e) : w.psn # epsn[WriteQp(e)]
    BY DEF Turn, Sound, Broken
  <2>3. CASE U \ Tracked(e) # {}
    BY <2>1, <2>3 DEF Sound, Broken
  <2>4. CASE \A w \in Writes(e) : w.psn # epsn[WriteQp(e)]
    <3>1. \A w \in Writes(e)' : w.psn # epsn'[WriteQp(e)]
      BY <2>4
    <3> QED BY <3>1 DEF Sound, Broken
  <2> QED BY <2>2, <2>3, <2>4
<1>5. swrite_psn[e] \in Nat
      /\ (\A w \in Writes(e) : w.psn \in Nat) /\ (\A a \in Acks(e) : a.psn \in Nat)
  BY WriteFacts
<1>6. \A w \in Writes(e)' : w.ackreq = 1 =>
        U = {} /\ Acks(e)' = {} /\ Names(e, n, w)' /\ \A x \in Writes(e)' : x.psn <= w.psn
  <2> SUFFICES ASSUME NEW w \in Writes(e)', w.ackreq = 1
               PROVE  U = {} /\ Acks(e)' = {} /\ Names(e, n, w)'
                      /\ \A x \in Writes(e)' : x.psn <= w.psn
    OBVIOUS
  <2>1. U = {} /\ Acks(e) = {} /\ Names(e, n, w) /\ \A x \in Writes(e) : x.psn <= w.psn
    BY DEF Turn
  <2>2. swrite_psn'[e] <= w.psn + 1
    BY <1>5, <2>1 DEF Names
  <2> QED BY <2>1, <2>2 DEF Names
<1>7. \A a \in Acks(e)' :
        /\ U = {} /\ Writes(e)' = {} /\ Names(e, n, a)' /\ a.psn = epsn'[WriteQp(e)] - 1
        /\ \A i \in Block(n) : Brought(e, i)'
  <2> SUFFICES ASSUME NEW a \in Acks(e)'
               PROVE  /\ U = {} /\ Writes(e)' = {} /\ Names(e, n, a)'
                      /\ a.psn = epsn'[WriteQp(e)] - 1
                      /\ \A i \in Block(n) : Brought(e, i)'
    OBVIOUS
  <2>1. /\ U = {} /\ Writes(e) = {} /\ Names(e, n, a) /\ a.psn = epsn[WriteQp(e)] - 1
        /\ \A i \in Block(n) : Brought(e, i)
    BY DEF Turn
  <2>2. swrite_psn'[e] <= a.psn + 1
    BY <1>5, <2>1 DEF Names
  <2> QED BY <2>1, <2>2 DEF Names, Brought
<1>8. se_state'[e] # 1
  OBVIOUS
<1> QED BY <1>1, <1>2, <1>3, <1>4, <1>6, <1>7, <1>8 DEF Turn

LEMMA NakDelivery ==
  ASSUME TypeOK, PacedInv, DeliveryInv, rx_queue # <<>>,
         NEW p, p = Head(rx_queue), rx_queue' = Tail(rx_queue), UNCHANGED qpVars,
         NEW e \in Se, se_state' = [se_state EXCEPT ![e] = 0],
         UNCHANGED <<tx_queue, su_rem, requestVars, swrite_psn_to_su, sread_psn_to_si, si_wr_off>>,
         swrite_psn'[e] \in Nat, swrite_psn'[e] <= swrite_psn[e],
         \A f \in Se \ {e} : swrite_psn'[f] = swrite_psn[f],
         Refusals(e) # {} \/ \A w \in Writes(e) : w.psn # epsn[WriteQp(e)]
  PROVE  DeliveryInv'
<1> DEFINE s == <<>>
<1>1. UNCHANGED <<qp_tx, qp_rx, epsn, buf>> /\ UNCHANGED requesterVars
  BY DEF qpVars, responderVars
<1>2. s \in Seq(RequestAcks) /\ InFlight(s) = {} /\ Send(s)
  <2>1. tx_queue' = tx_queue \o s
    BY DEF TypeOK, SwitchTypeOK
  <2> QED BY <2>1, Nothing DEF Send
<1> HIDE DEF s
<1>3. Taken(p, s)
  BY <1>1, <1>2 DEF Taken
<1>4. s \in Seq(Sent) /\ InOrder(Apart)' /\ Moving' \subseteq Moving \cup InFlight(s)
  BY <1>2, <1>3, AckQueues
<1>5. Moving' \subseteq Moving
  BY <1>2, <1>4
<1>6. /\ Pending(e)' \subseteq Pending(e) /\ Writes(e)' \subseteq Writes(e)
      /\ Acks(e)' \subseteq Acks(e) /\ Busy(e)' \subseteq Busy(e)
  BY <1>5 DEF Pending, Writes, Acks, Traffic, Busy
<1>7. se_state'[e] = 0 /\ \A f \in Se \ {e} : se_state'[f] = se_state[f]
  BY DEF TypeOK, SwitchTypeOK
<1>8. OneTurn(e)'
  <2>1. CASE Busy(e) = {}
    BY <1>6, <2>1 DEF OneTurn
  <2>2. CASE Busy(e) # {}
    <3>1. PICK n \in Nat : /\ n \in sreq_unack_psn[e] .. se_req_epsn[e] - 1
                           /\ \E U \in SUBSET Block(n) : Turn(e, n, U)
      BY <2>2, TurnOf
    <3>2. PICK U \in SUBSET Block(n) : Turn(e, n, U)
      BY <3>1
    <3>3. Turn(e, n, U)'
      BY <1>1, <1>6, <1>7, <3>2, TurnDown
    <3> QED BY <3>1, <3>3, TurnGoesOn DEF requestVars
  <2> QED BY <2>1, <2>2
<1>9. OthersKept(e)
  BY <1>7 DEF OthersKept, requestVars
<1>10. Bases' /\ Retired'
  BY <1>1, MemoryKept DEF DeliveryInv, requestVars
<1> QED BY <1>1, <1>2, <1>3, <1>4, <1>8, <1>9, <1>10, ProcessedDelivery

LEMMA WriteNakDelivery ==
  ASSUME TypeOK, PacedInv, DeliveryInv, rx_queue # <<>>,
         NEW p, p = Head(rx_queue), rx_queue' = Tail(rx_queue), UNCHANGED qpVars, WriteNak(p)
  PROVE  DeliveryInv'
<1> DEFINE e == p.smac
           q == WriteQp(e)
<1>1. /\ IsWriteAnswer(p) /\ p.opcode = "NAK"
      /\ swrite_psn' = [swrite_psn EXCEPT ![e] = p.psn]
      /\ se_state' = [se_state EXCEPT ![e] = 0]
      /\ UNCHANGED <<tx_queue, su_rem, requestVars, swrite_psn_to_su, sread_psn_to_si, si_wr_off>>
  BY DEF WriteNak, readVars
<1>2. /\ e \in Se /\ q \in Responders /\ p \in Traffic(q) /\ IsNak(p) /\ p.psn \in Nat
  BY <1>1, AnswerTaken DEF IsNak
<1>3. p.psn = epsn[q] /\ \A x \in Traffic(q) : IsOrder(x) => x.psn # epsn[q]
  BY <1>2 DEF PacedInv, Channel
<1>4. epsn[q] <= swrite_psn[e]
  BY <1>2, WriteFacts
<1>5. swrite_psn'[e] = p.psn /\ \A f \in Se \ {e} : swrite_psn'[f] = swrite_psn[f]
  BY <1>1, <1>2 DEF TypeOK, SwitchTypeOK
<1>6. \A w \in Writes(e) : w.psn # epsn[WriteQp(e)]
  BY <1>3 DEF Writes
<1> HIDE DEF e, q
<1>7. swrite_psn'[e] \in Nat /\ swrite_psn'[e] <= swrite_psn[e]
  BY <1>2, <1>3, <1>4, <1>5
<1> QED BY <1>1, <1>2, <1>5, <1>6, <1>7, NakDelivery

LEMMA ReadNakDelivery ==
  ASSUME TypeOK, PacedInv, DeliveryInv, rx_queue # <<>>,
         NEW p, p = Head(rx_queue), rx_queue' = Tail(rx_queue), UNCHANGED qpVars, ReadNak(p)
  PROVE  DeliveryInv'
<1> DEFINE e == p.dqpn
<1>1. /\ IsReadAnswer(p) /\ p.opcode = "NAK" /\ UNCHANGED writeVars
      /\ se_state' = [se_state EXCEPT ![e] = 0]
      /\ UNCHANGED <<tx_queue, su_rem, requestVars, swrite_psn_to_su, sread_psn_to_si, si_wr_off>>
  BY DEF ReadNak, writeVars
<1>2. e \in Se /\ p \in Moving /\ IsNak(p)
  BY <1>1, AnswerTaken, TakenKind DEF IsNak
<1>3. p \in Refusals(e)
  BY <1>2 DEF Refusals
<1>4. swrite_psn' = swrite_psn /\ swrite_psn[e] \in Nat
  BY <1>1, <1>2 DEF writeVars, TypeOK, SwitchTypeOK
<1> HIDE DEF e
<1>5. swrite_psn'[e] \in Nat /\ swrite_psn'[e] <= swrite_psn[e]
      /\ Refusals(e) # {}
  BY <1>3, <1>4
<1> QED BY <1>1, <1>2, <1>4, <1>5, NakDelivery

-----------------------------------------------------------------------------
(* Answers to the READs.                                                   *)

\* WRITE r of item i leaves: the turn goes on without the item, and the last
\* WRITE of the unit asks for the ACK.
LEMMA TurnWrites ==
  ASSUME TypeOK, PacedInv, NEW e \in Se, se_state[e] = 1, NEW n \in Nat,
         NEW U \in SUBSET Block(n), Turn(e, n, U), NEW i \in U,
         \E x \in Pending(e) : Carries(x) = {i},
         NEW r, r.psn = swrite_psn[e], r.addr = Place(i), r.data = <<Value(i)>>,
         r.ackreq = 1 => su_rem[e][UnitOf(n)] - 1 = 0,
         su_rem'[e][UnitOf(n)] = su_rem[e][UnitOf(n)] - 1,
         swrite_psn'[e] = swrite_psn[e] + 1,
         swrite_psn_to_su'[e][WriteSlot(r.psn)] = UnitOf(n),
         UNCHANGED <<se_state, epsn, buf, sread_psn_to_si, si_wr_off>>,
         Pending(e)' \subseteq Pending(e), \A x \in Pending(e)' : i \notin Carries(x),
         Writes(e)' \subseteq Writes(e) \cup {r}, Acks(e)' \subseteq Acks(e),
         Refusals(e)' \subseteq Refusals(e)
  PROVE  Turn(e, n, U \ {i})'
<1> DEFINE V == U \ {i}
           q == WriteQp(e)
           m == swrite_psn[e]
<1>1. IsFiniteSet(U) /\ Cardinality(U) \in Nat
  BY BlockFacts
<1>2. IsFiniteSet(V) /\ Cardinality(V) = Cardinality(U) - 1
  BY <1>1, FS_RemoveElement
<1>3. su_rem[e][UnitOf(n)] = Cardinality(U) /\ U # {}
  BY DEF Turn
<1>4. su_rem'[e][UnitOf(n)] = Cardinality(V)
  BY <1>2, <1>3
<1>5. V \subseteq U /\ i \notin V /\ \A j \in U : j = i \/ j \in V
  OBVIOUS
<1>6. V = {} <=> Cardinality(V) = 0
  BY <1>2, FS_EmptySet
<1> HIDE DEF V
<1>7. /\ epsn[q] \in Nat /\ m \in Nat /\ epsn[q] <= m
      /\ \A w \in Writes(e) : w.psn \in Nat /\ w.psn < m
  BY WriteFacts
<1>8. Acks(e) = {} /\ \A w \in Writes(e) : w.ackreq # 1
  BY <1>3 DEF Turn
<1>9. \A x \in Pending(e)' : Carries(x) \subseteq V /\ Fits(e, n, x)'
  <2> SUFFICES ASSUME NEW x \in Pending(e)' PROVE Carries(x) \subseteq V /\ Fits(e, n, x)'
    OBVIOUS
  <2>1. Carries(x) \subseteq U /\ Fits(e, n, x)
    BY DEF Turn
  <2>2. Fits(e, n, x)'
    BY <2>1 DEF Fits, InSlot
  <2> QED BY <1>5, <2>1, <2>2
<1>10. \A w \in Writes(e)' : \E j \in Block(n) : w.addr = Place(j) /\ w.data = <<Value(j)>>
  <2>1. i \in Block(n)
    OBVIOUS
  <2> QED BY <2>1 DEF Turn
<1>11. (se_state[e] = 1 /\ Gapless(e))' => \A j \in Block(n) \ V : Got(e, j)'
  <2> SUFFICES ASSUME se_state'[e] = 1, Gapless(e)', NEW j \in Block(n) \ V PROVE Got(e, j)'
    OBVIOUS
  <2>1. \A k \in epsn[q] .. m : \E w \in Writes(e)' : w.psn = k
    <3>1. (m + 1) - 1 = m
      BY <1>7
    <3> QED BY <3>1 DEF Gapless
  <2>2. r \in Writes(e)'
    <3>1. m \in epsn[q] .. m
      BY <1>7
    <3>2. PICK w \in Writes(e)' : w.psn = m
      BY <2>1, <3>1
    <3> QED BY <1>7, <3>2
  <2> DEFINE W == Writes(e)' \ {r}
  <2>3. W \subseteq Writes(e) /\ W \subseteq Writes(e)'
    OBVIOUS
  <2>4. ASSUME NEW k \in epsn[q] .. m - 1 PROVE \E w \in W : w.psn = k
    <3>1. k \in epsn[q] .. m /\ k # m
      BY <1>7
    <3>2. PICK w \in Writes(e)' : w.psn = k
      BY <2>1, <3>1
    <3> QED BY <3>1, <3>2
  <2> HIDE DEF W
  <2>5. W = Writes(e) /\ Gapless(e)
    BY <2>3, <2>4, NoneMissing
  <2>6. CASE j = i
    BY <2>2, <2>6 DEF Got
  <2>7. CASE j # i
    <3>1. j \in Block(n) \ U
      BY <1>5, <2>7
    <3>2. Got(e, j)
      BY <2>5, <3>1 DEF Turn
    <3> QED BY <2>3, <2>5, <3>2 DEF Got, Brought
  <2> QED BY <2>6, <2>7
<1>12. Sound(e, V)'
  <2>1. CASE Refusals(e) = {}
    BY <2>1 DEF Sound
  <2>2. CASE Refusals(e) # {}
    <3>1. U \ Tracked(e) # {}
      BY <2>2 DEF Turn, Sound, Broken
    <3>2. i \in Tracked(e) /\ Tracked(e)' \subseteq Tracked(e)
      BY DEF Tracked
    <3>3. V \ Tracked(e)' # {}
      BY <1>5, <3>1, <3>2
    <3> QED BY <3>3 DEF Sound, Broken
  <2> QED BY <2>1, <2>2
<1>13. \A w \in Writes(e)' : w.ackreq = 1 =>
         V = {} /\ Acks(e)' = {} /\ Names(e, n, w)' /\ \A x \in Writes(e)' : x.psn <= w.psn
  <2> SUFFICES ASSUME NEW w \in Writes(e)', w.ackreq = 1
               PROVE  V = {} /\ Acks(e)' = {} /\ Names(e, n, w)'
                      /\ \A x \in Writes(e)' : x.psn <= w.psn
    OBVIOUS
  <2>1. w = r
    BY <1>8
  <2>2. V = {}
    BY <1>2, <1>3, <1>6, <2>1
  <2>3. Names(e, n, w)'
    BY <1>7, <2>1 DEF Names
  <2>4. \A x \in Writes(e)' : x.psn <= w.psn
    BY <1>7, <2>1
  <2> QED BY <1>8, <2>2, <2>3, <2>4
<1>14. Acks(e)' = {}
  BY <1>8
<1> QED BY <1>4, <1>9, <1>10, <1>11, <1>12, <1>13, <1>14 DEF Turn, V

\* The switch sends r, the WRITE of item i of request n.
SendsWrite(e, n, i, r) ==
  /\ Send(<<r>>) /\ QpOf(r) = WriteQp(e) /\ Requester(r) = e
  /\ r.psn = swrite_psn[e] /\ r.addr = Place(i) /\ r.data = <<Value(i)>>
  /\ r.ackreq = 1 => su_rem[e][UnitOf(n)] - 1 = 0
  /\ su_rem' = [su_rem EXCEPT ![e][UnitOf(n)] = su_rem[e][UnitOf(n)] - 1]
  /\ swrite_psn_to_su' = [swrite_psn_to_su EXCEPT ![e][WriteSlot(r.psn)] = UnitOf(n)]

\* The WRITE of the item a response in order carries.
LEMMA WriteOfItem ==
  ASSUME TypeOK, PacedInv, DeliveryInv, TypeOK', rx_queue # <<>>, NEW p, p = Head(rx_queue),
         ReadResponseInOrder(p), NEW n \in Nat, NEW i \in Block(n),
         n \in sreq_unack_psn[p.dqpn] .. se_req_epsn[p.dqpn] - 1,
         p.dqpn \in Se, p.smac \in Se, p.psn \in Nat,
         p.data = <<Value(i)>>, InSlot(p.dqpn, p.smac, p.psn, n, i)
  PROVE  \E r \in Orders : SendsWrite(p.dqpn, n, i, r)
<1> DEFINE e == p.dqpn
           t == p.smac
           si == sread_psn_to_si[e][t][ReadSlot(p.psn)]
           u == UnitOf(n)
           m == swrite_psn[e]
           k == IF su_rem[e][u] - 1 = 0 THEN 1 ELSE 0
           a == su_wr_addr[e][u] + si_wr_off[e][u][si % ReqMtu]
           r == [NewPacket("WRITE_ONLY", SwitchMac, e, SWriteQpn, m) EXCEPT
                   !.ackreq = k, !.data = p.data, !.addr = a]
<1>1. /\ si = Si(n, i) /\ si_wr_off[e][u][i - (n * ReqMtu)] = i
  BY DEF InSlot
<1>2. si \div ReqMtu = u /\ si % ReqMtu = i - (n * ReqMtu)
  BY <1>1, SiFacts
<1>3. su_wr_addr[e][u] = 2 * EleNum
  <2>1. sreq_unack_psn[e] \in Nat /\ se_req_epsn[e] \in Nat
    BY DEF TypeOK, SwitchTypeOK
  <2>2. n \in 0 .. se_req_epsn[e] - 1
    BY <2>1
  <2> QED BY <2>2 DEF DeliveryInv, Bases
<1>4. a = Place(i)
  BY <1>1, <1>2, <1>3 DEF Place
<1>5. /\ Send(<<r>>)
      /\ su_rem' = [su_rem EXCEPT ![e][u] = su_rem[e][u] - 1]
      /\ swrite_psn_to_su' = [swrite_psn_to_su EXCEPT ![e][WriteSlot(m)] = u]
  <2> DEFINE v == si \div ReqMtu
  <2>1. Send(<<[NewPacket("WRITE_ONLY", SwitchMac, e, SWriteQpn, m) EXCEPT
                  !.ackreq = IF su_rem[e][v] - 1 = 0 THEN 1 ELSE 0,
                  !.data = p.data,
                  !.addr = su_wr_addr[e][v] + si_wr_off[e][v][si % ReqMtu]]>>)
    BY Zenon DEF ReadResponseInOrder
  <2>2. su_rem' = [su_rem EXCEPT ![e][v] = su_rem[e][v] - 1]
    BY Zenon DEF ReadResponseInOrder
  <2>3. swrite_psn_to_su' = [swrite_psn_to_su EXCEPT ![e][WriteSlot(m)] = v]
    BY Zenon DEF ReadResponseInOrder
  <2>4. v = u
    BY <1>2
  <2> HIDE DEF v, si, u, m
  <2> QED BY <2>1, <2>2, <2>3, <2>4
<1> HIDE DEF si, u, m, k, a
<1>6. /\ r.opcode = "WRITE_ONLY" /\ r.smac = SwitchMac /\ r.dmac = e /\ r.dqpn = SWriteQpn
      /\ r.psn = m /\ r.addr = a /\ r.data = p.data /\ r.ackreq = k
  BY DEF NewPacket
<1> HIDE DEF r
<1>7. r \in AnyPacket
  <2>1. /\ tx_queue \in Seq(AnyPacket) /\ tx_queue' \in Seq(AnyPacket)
        /\ tx_queue' = tx_queue \o <<r>>
    BY <1>5 DEF TypeOK, SwitchTypeOK, AnyPacket, Send
  <2>2. Len(tx_queue) + 1 \in 1 .. Len(tx_queue') /\ tx_queue'[Len(tx_queue) + 1] = r
    BY <2>1
  <2> QED BY <2>1, <2>2
<1>8. r \in Orders
  BY <1>6, <1>7, Numbers DEF AnyPacket, ToSwitch, Orders
<1>9. QpOf(r) = WriteQp(e)
  BY <1>6, <1>8, OrderKind DEF WriteQp
<1>10. Requester(r) = e
  BY <1>8, <1>9, OrderKind, ResponderNames
<1>11. r.ackreq = 1 => su_rem[e][u] - 1 = 0
  BY <1>6 DEF k
<1>12. SendsWrite(e, n, i, r)
  BY <1>4, <1>5, <1>6, <1>9, <1>10, <1>11 DEF u, m, SendsWrite
<1> QED BY <1>8, <1>12

LEMMA ReadResponseInOrderDelivery ==
  ASSUME TypeOK, PacedInv, DeliveryInv, TypeOK', rx_queue # <<>>,
         NEW p, p = Head(rx_queue), rx_queue' = Tail(rx_queue), UNCHANGED qpVars,
         ReadResponseInOrder(p)
  PROVE  DeliveryInv'
<1> DEFINE e == p.dqpn
           t == p.smac
           m == swrite_psn[e]
<1>1. /\ IsReadAnswer(p) /\ p.opcode = "READ_RESPONSE" /\ se_state[e] = 1
      /\ swrite_psn' = [swrite_psn EXCEPT ![e] = m + 1]
      /\ UNCHANGED <<se_state, requestVars, sread_psn_to_si, si_wr_off>>
  <2>1. IsReadAnswer(p) /\ p.opcode = "READ_RESPONSE" /\ se_state[e] = 1
    BY Zenon DEF ReadResponseInOrder
  <2>2. swrite_psn' = [swrite_psn EXCEPT ![e] = m + 1]
    BY Zenon DEF ReadResponseInOrder
  <2>3. UNCHANGED <<se_state, requestVars, sread_psn_to_si, si_wr_off>>
    BY Zenon DEF ReadResponseInOrder
  <2> QED BY <2>1, <2>2, <2>3
<1>2. /\ e \in Se /\ t \in Se /\ Requester(p) = e /\ p.psn \in Nat
      /\ p \in Moving /\ IsPending(p) /\ p \in Pending(e)
  BY <1>1, AnswerTaken, TakenKind DEF IsPending, Pending
<1>3. p \in AnyPacket
  BY <1>2, KindOf DEF PacedInv
<1>4. UNCHANGED <<qp_tx, qp_rx, epsn, buf>> /\ UNCHANGED requesterVars
  BY DEF qpVars, responderVars
<1>5. PICK n \in Nat : /\ n \in sreq_unack_psn[e] .. se_req_epsn[e] - 1
                       /\ \E U \in SUBSET Block(n) : Turn(e, n, U)
  BY <1>2, TurnOf DEF Busy
<1>6. PICK U \in SUBSET Block(n) : Turn(e, n, U)
  BY <1>5
<1>7. Carries(p) \subseteq U /\ Fits(e, n, p)
  BY <1>2, <1>6 DEF Turn
<1>8. PICK i \in Items : p.data = <<Value(i)>> /\ InSlot(e, t, p.psn, n, i)
  BY <1>1, <1>7 DEF Fits
<1>9. Carries(p) = {i} /\ i \in U /\ i \in Block(n)
  BY <1>1, <1>2, <1>3, <1>7, <1>8, CarriesFacts
<1>10a. PICK r \in Orders : SendsWrite(e, n, i, r)
  BY <1>2, <1>5, <1>8, <1>9, WriteOfItem
<1>10. /\ Send(<<r>>) /\ QpOf(r) = WriteQp(e) /\ Requester(r) = e
       /\ r.psn = m /\ r.addr = Place(i) /\ r.data = <<Value(i)>>
       /\ r.ackreq = 1 => su_rem[e][UnitOf(n)] - 1 = 0
       /\ su_rem' = [su_rem EXCEPT ![e][UnitOf(n)] = su_rem[e][UnitOf(n)] - 1]
       /\ swrite_psn_to_su' = [swrite_psn_to_su EXCEPT ![e][WriteSlot(r.psn)] = UnitOf(n)]
  BY <1>10a DEF SendsWrite
<1> HIDE DEF e, t, m
<1> DEFINE s == <<r>>
<1>11. s \in Seq(Sent) /\ Len(s) = 1 /\ s[1] = r /\ Send(s)
  BY <1>10 DEF Sent
<1> HIDE DEF s
<1>12. Pairwise(s, Apart) /\ \A y \in InFlight(s) : y = r
  BY <1>11 DEF Pairwise, InFlight
<1>13. Taken(p, s)
  BY <1>4, <1>11 DEF Taken
<1>14. r \in AnyPacket /\ ~IsPending(r) /\ ~IsReply(r) /\ ~IsNak(r)
  <2>1. r \in Sent /\ r.dqpn = SWriteQpn
    BY <1>10, OrderKind, Numbers DEF Sent, WriteQp, QpOf, Orders
  <2>2. r.opcode = "WRITE_ONLY"
    BY <2>1, Numbers DEF Orders
  <2> QED BY <2>1, <2>2, SentKind DEF IsPending, IsReply, IsNak
<1>15. ASSUME NEW x \in Moving, NEW y \in InFlight(s) PROVE <<x, y>> \in Apart
  <2>1. x \in AnyPacket
    BY KindOf DEF PacedInv
  <2> QED BY <1>12, <1>14, <2>1, ApartFacts
<1>16. /\ InOrder(Apart)' /\ Moving' \subseteq Moving \cup InFlight(s)
       /\ \A x \in Moving' : x \in InFlight(s) \/ <<p, x>> \in Apart
  BY <1>11, <1>12, <1>13, <1>15, ProcessedQueues
<1>17. /\ Writes(e)' \subseteq Writes(e) \cup {r} /\ Acks(e)' \subseteq Acks(e)
       /\ Refusals(e)' \subseteq Refusals(e) /\ Pending(e)' \subseteq Pending(e)
  BY <1>12, <1>14, <1>16 DEF Writes, Acks, Traffic, Refusals, Pending
<1>18. ASSUME NEW x \in Pending(e)' PROVE i \notin Carries(x)
  <2>1. x \in Moving' /\ IsPending(x) /\ Requester(x) = e
    BY DEF Pending
  <2>2. <<p, x>> \in Apart
    BY <1>12, <1>14, <1>16, <2>1
  <2>3. Carries(p) \cap Carries(x) = {}
    BY <1>2, <2>1, <2>2, ApartFacts
  <2> QED BY <1>9, <2>3
<1>19. su_rem'[e][UnitOf(n)] = su_rem[e][UnitOf(n)] - 1
       /\ \A f \in Se \ {e} : su_rem'[f] = su_rem[f]
  <2>1. su_rem \in [Se -> [Su -> Int]] /\ UnitOf(n) \in Su
    BY SlotType DEF TypeOK, SwitchTypeOK
  <2>2. su_rem[e] \in [Su -> Int]
    BY <1>2, <2>1
  <2>3. su_rem'[e] = [su_rem[e] EXCEPT ![UnitOf(n)] = su_rem[e][UnitOf(n)] - 1]
        /\ \A f \in Se \ {e} : su_rem'[f] = su_rem[f]
    BY <1>2, <1>10, <2>1
  <2> QED BY <2>1, <2>2, <2>3
<1>20. swrite_psn'[e] = m + 1 /\ \A f \in Se \ {e} : swrite_psn'[f] = swrite_psn[f]
  BY <1>1, <1>2 DEF TypeOK, SwitchTypeOK
<1>21. swrite_psn_to_su'[e][WriteSlot(r.psn)] = UnitOf(n)
       /\ \A f \in Se \ {e} : swrite_psn_to_su'[f] = swrite_psn_to_su[f]
  <2>1. m \in Nat
    BY <1>2 DEF TypeOK, SwitchTypeOK, m
  <2>2. swrite_psn_to_su \in [Se -> [0 .. WriteRingSize - 1 -> Su]]
        /\ WriteSlot(r.psn) \in 0 .. WriteRingSize - 1
    BY <1>10, <2>1, SlotType DEF TypeOK, SwitchTypeOK
  <2>3. swrite_psn_to_su[e] \in [0 .. WriteRingSize - 1 -> Su]
    BY <1>2, <2>2
  <2>4. swrite_psn_to_su'[e] = [swrite_psn_to_su[e] EXCEPT ![WriteSlot(r.psn)] = UnitOf(n)]
        /\ \A f \in Se \ {e} : swrite_psn_to_su'[f] = swrite_psn_to_su[f]
    BY <1>2, <1>10, <2>2
  <2> QED BY <2>2, <2>3, <2>4
<1> DEFINE V == U \ {i}
<1>22. Turn(e, n, V)'
  <2>1. \E x \in Pending(e) : Carries(x) = {i}
    BY <1>2, <1>9
  <2>2. r.psn = swrite_psn[e] /\ swrite_psn'[e] = swrite_psn[e] + 1 /\ se_state[e] = 1
    BY <1>1, <1>10, <1>20 DEF e, m
  <2> QED BY <1>1, <1>2, <1>4, <1>6, <1>9, <1>10, <1>17, <1>18, <1>19, <1>21, <2>1, <2>2, TurnWrites
<1>23. V \in SUBSET Block(n)
  OBVIOUS
<1> HIDE DEF V
<1>24. OneTurn(e)'
  BY <1>1, <1>2, <1>5, <1>22, <1>23, TurnGoesOn DEF requestVars
<1>25. OthersKept(e)
  BY <1>1, <1>19, <1>20, <1>21 DEF OthersKept, requestVars
<1>26. Bases' /\ Retired'
  BY <1>1, <1>4, MemoryKept DEF DeliveryInv, requestVars
<1>27. \A y \in InFlight(s) : Requester(y) = e
  BY <1>10, <1>12
<1> QED BY <1>2, <1>4, <1>11, <1>13, <1>16, <1>24, <1>25, <1>26, <1>27, ProcessedDelivery

-----------------------------------------------------------------------------
(* All steps.                                                              *)

LEMMA SwitchRxDelivery ==
  ASSUME OneWr, TypeOK, PacedInv, DeliveryInv, WindowBounded, TypeOK', SwitchRx
  PROVE  DeliveryInv'
<1> DEFINE p == Head(rx_queue)
<1>1. rx_queue # <<>> /\ p = Head(rx_queue) /\ rx_queue' = Tail(rx_queue) /\ UNCHANGED qpVars
  BY DEF SwitchRx, SwitchRxOnce
<1>2. Process(p)
  BY DEF SwitchRx, SwitchRxOnce
<1> HIDE DEF p
<1>3. CASE Loopback(p)
  BY <1>1, <1>3, LoopbackDelivery
<1>4. CASE \/ RequestDropped(p) \/ RequestDuplicate(p) \/ WriteAckOutOfTurn(p)
           \/ ReadResponseIgnored(p)
  BY <1>1, <1>4, QuietSwitchRx
<1>5. CASE RequestExpected(p)
  BY <1>1, <1>5, ExpectedDelivery
<1>6. CASE RequestRetried(p)
  BY <1>1, <1>6, RetriedDelivery
<1>7. CASE WriteAck(p)
  BY <1>1, <1>7, WriteAckDelivery
<1>8. CASE WriteNak(p)
  BY <1>1, <1>8, WriteNakDelivery
<1>9. CASE ReadResponseInOrder(p)
  BY <1>1, <1>9, ReadResponseInOrderDelivery
<1>10. CASE ReadNak(p)
  BY <1>1, <1>10, ReadNakDelivery
<1> QED BY <1>2, <1>3, <1>4, <1>5, <1>6, <1>7, <1>8, <1>9, <1>10 DEF Process

LEMMA InitDelivery ==
  ASSUME OneWr, Init
  PROVE  DeliveryInv
<1>1. /\ rx_queue = <<>> /\ tx_queue = <<>>
      /\ \A q \in Qps : qp_tx[q] = <<>> /\ qp_rx[q] = <<>>
      /\ buf = InitBuf
      /\ \A e \in Se :
           /\ cq[e] = <<>> /\ old_req_psn[e] = 0
           /\ sq[e] = [i \in 1 .. WrNum |-> Wr(i - 1)]
           /\ sreq_unack_psn[e] = 0 /\ se_req_epsn[e] = 0
  BY DEF Init, QpInit, SwitchInit
<1>2. Moving = {}
  BY <1>1, Nothing, InMoving, ResponderNames
<1>3. InOrder(Apart)
  BY <1>1, Nothing, ResponderNames DEF InOrder, LineInOrder, Ahead
<1>4. RightRequests
  <2>1. ASSUME NEW e \in Se PROVE InFlight(qp_tx[ReqQp(e)]) = {}
    BY <1>1, Nothing, QpNames
  <2> QED BY <1>2, <2>1 DEF RightRequests
<1>5. Sources
  BY <1>1 DEF Sources
<1>6. Bases /\ Retired
  <2> SUFFICES ASSUME NEW e \in Se
               PROVE  /\ se_req_epsn[e] = 0 /\ sreq_unack_psn[e] = 0
                      /\ \A n : n \notin 0 .. se_req_epsn[e] - 1
                      /\ \A n : n \notin 0 .. sreq_unack_psn[e] - 1
    BY DEF Bases, Retired
  <2>1. se_req_epsn[e] = 0 /\ sreq_unack_psn[e] = 0
    BY <1>1
  <2>2. \A n : n \notin 0 .. 0 - 1
    OBVIOUS
  <2> QED BY <2>1, <2>2
<1>7. Queued
  <2> SUFFICES ASSUME NEW e \in Se PROVE sq[e] = <<Wr(0)>>
    BY <1>1 DEF Queued
  <2>1. WrNum = 1
    BY WorkRequest
  <2> DEFINE wr(i) == Wr(i - 1)
  <2>2. sq[e] = [i \in 1 .. 1 |-> wr(i)] /\ wr(1) = Wr(0)
    BY <1>1, <2>1
  <2> HIDE DEF wr
  <2>3. [i \in 1 .. 1 |-> wr(i)] = <<wr(1)>>
    OBVIOUS
  <2> QED BY <2>2, <2>3
<1>8. ASSUME NEW e \in Se PROVE OneTurn(e)
  BY <1>2 DEF OneTurn, Busy, Pending, Writes, Acks, Traffic
<1> QED BY <1>3, <1>4, <1>5, <1>6, <1>7, <1>8 DEF DeliveryInv

LEMMA NextDelivery ==
  ASSUME OneWr, ~Pipelined, TypeOK, PacedInv, DeliveryInv, WindowBounded,
         TypeOK', PacedInv', [Next]_vars
  PROVE  DeliveryInv'
<1>1. CASE Next /\ Running
  <2>1. ASSUME NEW e \in Se, RequestTx(e) PROVE DeliveryInv'
    BY <2>1, RequestTxDelivery
  <2>2. ASSUME NEW q \in Qps, ResponderTx(q) PROVE DeliveryInv'
    BY <2>2, ResponderTxDelivery
  <2>3. ASSUME NEW q \in Qps, QpRx(q) PROVE DeliveryInv'
    BY <2>3, QpRxDelivery
  <2> QED BY <1>1, <2>1, <2>2, <2>3, SwitchTxDelivery, SwitchRxDelivery, OtherDelivery
          DEF Running
<1>2. CASE Next /\ Stopped
  BY <1>2, OtherDelivery DEF Stopped
<1>3. CASE UNCHANGED vars
  BY <1>3, OtherDelivery
<1> QED BY <1>1, <1>2, <1>3 DEF Next

LEMMA DeliveryInvariant ==
  ASSUME ~Pipelined, OneWr
  PROVE  Spec => [](TypeOK /\ PacedInv /\ DeliveryInv)
<1>1. Init => DeliveryInv
  BY InitDelivery
<1>2. /\ TypeOK /\ PacedInv /\ DeliveryInv /\ WindowBounded /\ TypeOK' /\ PacedInv'
      /\ [Next]_vars
      => DeliveryInv'
  BY NextDelivery
<1> QED BY <1>1, <1>2, TypeCorrect, PacedInvariant, WindowHolds, PTL DEF Spec

-----------------------------------------------------------------------------
(* What follows.                                                           *)

LEMMA ItemPlace ==
  ASSUME OneWr, NEW i \in Items
  PROVE  /\ Wr(WrOfItem[i]).d_addr + Item(i).wr_off = Place(i)
         /\ Item(i).dmac \in Se /\ Item(i).dst_addr \in 0 .. (2 * EleNum) - 1
         /\ InitBuf[Item(i).dmac][Item(i).dst_addr] = Value(i)
<1>1. i \in Nat /\ i < EleNum
  BY Sizes DEF Items
<1>2. WrOfItem[i] = 0 /\ Item(i).wr_off = i /\ Wr(0).d_addr = 2 * EleNum
  BY WorkRequest
<1>3. i % SeNum \in Se
  <2>1. i \in Int /\ SeNum \in Nat \ {0}
    BY <1>1, Sizes
  <2>2. i % SeNum \in 0 .. SeNum - 1
    BY <2>1, ModType
  <2> QED BY <2>2 DEF Se
<1>4. Item(i).dmac = i % SeNum /\ Item(i).dst_addr = i
  BY DEF Item
<1>5. i \in 0 .. (2 * EleNum) - 1 /\ i \in Addr
  BY <1>1, Sizes DEF Addr
<1>6. InitBuf[i % SeNum][i] = Value(i)
  BY <1>1, <1>3, <1>5 DEF InitBuf, Value
<1> QED BY <1>2, <1>3, <1>4, <1>5, <1>6 DEF Place

LEMMA DeliveredIsBrought ==
  ASSUME OneWr, Sources, NEW e \in Se, NEW i \in Items
  PROVE  Delivered(e, i) <=> Brought(e, i)
BY ItemPlace DEF Delivered, Sources, Brought

(* The switch never retires a request of which an item is not in the       *)
(* requester's memory: a unit that reaches 0 remaining items, or an ACK    *)
(* that finds its unit, means that every WRITE was taken, though items are *)
(* counted when their WRITEs are sent, not when they arrive.               *)
THEOREM PacedRetires == ASSUME ~Pipelined, OneWr PROVE Spec => []RetiredIsDelivered
<1>1. DeliveryInv /\ TypeOK => RetiredIsDelivered
  <2> SUFFICES ASSUME DeliveryInv, TypeOK, NEW e \in Se, NEW n \in 0 .. sreq_unack_psn[e] - 1,
                      NEW i \in ItemsOfPsn(n)
               PROVE  Delivered(e, i)
    BY DEF RetiredIsDelivered
  <2>1. n \in Nat
    BY DEF TypeOK, SwitchTypeOK
  <2>2. i \in Block(n) /\ i \in Items
    BY <2>1, ItemsInBlock, BlockFacts
  <2>3. Brought(e, i) /\ Sources
    BY <2>2 DEF DeliveryInv, Retired
  <2> QED BY <2>2, <2>3, DeliveredIsBrought
<1> QED BY <1>1, DeliveryInvariant, PTL

(* When the ACK of a WRITE comes, the slot of the write ring still names   *)
(* its unit: the comment "there must be available swrite_psn slots" of     *)
(* python/switch.py, which tests for no room, holds of paced requests.     *)
THEOREM PacedWriteSlots == ASSUME ~Pipelined, OneWr PROVE Spec => []WriteSlotsSuffice
<1>1. TypeOK /\ PacedInv /\ DeliveryInv => WriteSlotsSuffice
  <2> SUFFICES ASSUME TypeOK, PacedInv, DeliveryInv, NEW p \in Flying
               PROVE  /\ p.opcode = "WRITE_ONLY" /\ p.smac = SwitchMac /\ p.ackreq = 1
                         => swrite_psn[p.dmac] <= p.psn + WriteRingSize
                      /\ p.opcode = "ACK" /\ p.dqpn = ToSWrite
                         => swrite_psn[p.smac] <= p.psn + WriteRingSize
    BY DEF WriteSlotsSuffice
  <2>1. p \in Moving \/ \E e \in Se : p \in SentBy(ReqQp(e))
    BY FlyingKind
  <2>2. CASE p \notin Moving
    <3>1. p.opcode \in WriteOps /\ p.smac \in Se
      BY <2>1, <2>2, RequestQpKind, RequestKind
    <3> QED BY <3>1, Numbers DEF WriteOps
  <2>3. ASSUME NEW e \in Se, NEW n, Names(e, n, p), p.psn \in Nat
        PROVE  swrite_psn[e] <= p.psn + WriteRingSize
    <3>1. swrite_psn[e] \in Nat /\ swrite_psn[e] <= p.psn + 1
      BY <2>3 DEF Names, TypeOK, SwitchTypeOK
    <3>2. WriteRingSize \in Nat /\ WriteRingSize >= 1
      BY Sizes DEF WriteRingSize
    <3> QED BY <2>3, <3>1, <3>2
  <2>4. CASE p \in Moving
    <3>1. p \in Received \cup Sent
      BY <2>4, KindOf DEF PacedInv
    <3>2. CASE p.opcode = "WRITE_ONLY" /\ p.smac = SwitchMac /\ p.ackreq = 1
      <4>1. p \in Orders
        BY <3>1, <3>2, RequestKind, Numbers
           DEF Sent, Received, Recirculated, RequestAcks, IsRequest, WriteOps
      <4>2. p.dmac \in Se /\ QpOf(p) = WriteQp(p.dmac) /\ IsOrder(p)
        <5>1. QpOf(p) = <<p.dmac, p.dqpn>> /\ p.dmac \in Se /\ IsOrder(p)
          BY <4>1, OrderKind
        <5>2. p.dqpn = SWriteQpn
          BY <3>2, <4>1 DEF Orders
        <5> QED BY <5>1, <5>2 DEF WriteQp
      <4> DEFINE e == p.dmac
      <4>3. p \in Writes(e)
        BY <2>4, <4>2 DEF Writes, Traffic
      <4>4. PICK n \in Nat : \E U \in SUBSET Block(n) : Turn(e, n, U)
        BY <4>2, <4>3, TurnOf DEF Busy
      <4>5. Names(e, n, p)
        BY <3>2, <4>3, <4>4 DEF Turn
      <4>6. p.psn \in Nat
        BY <4>2, <4>3, ResponderNames, TrafficTypes DEF Writes
      <4> QED BY <2>3, <3>2, <4>2, <4>5, <4>6
    <3>3. CASE p.opcode = "ACK" /\ p.dqpn = ToSWrite
      <4>1. p \in Received /\ p \notin Recirculated /\ ~IsRequest(p)
        BY <3>1, <3>3, Numbers DEF Sent, Received, Recirculated, Orders, RequestAcks, IsRequest
      <4>2. p.smac \in Se /\ QpOf(p) = WriteQp(p.smac) /\ IsReply(p)
        BY <3>3, <4>1, AnswerKind, Numbers DEF IsReadAnswer, IsNak
      <4> DEFINE e == p.smac
      <4>3. p \in Acks(e)
        BY <2>4, <4>2 DEF Acks, Traffic
      <4>4. PICK n \in Nat : \E U \in SUBSET Block(n) : Turn(e, n, U)
        BY <4>2, <4>3, TurnOf DEF Busy
      <4>5. Names(e, n, p)
        BY <4>3, <4>4 DEF Turn
      <4>6. p.psn \in Nat
        BY <4>2, <4>3, ResponderNames, TrafficTypes DEF Acks
      <4> QED BY <2>3, <3>3, <4>2, <4>5, <4>6
    <3> QED BY <3>2, <3>3
  <2> QED BY <2>2, <2>4
<1> QED BY <1>1, DeliveryInvariant, PTL

\* Each item travels with one of the PSNs of the work request.
LEMMA PsnOfItem ==
  ASSUME OneWr, NEW i \in Items
  PROVE  \E n \in Nat : i \in Block(n) /\ n < PacketsOf(Wr(0)) /\ PacketsOf(Wr(0)) \in Int
<1>1. i \in Nat /\ i < EleNum
  BY Sizes DEF Items
<1>2. PICK n \in Int : n = i \div ReqMtu
  BY <1>1, Sizes
<1>3. PICK r \in 0 .. ReqMtu - 1 : r = i % ReqMtu
  <2>1. i \in Int /\ ReqMtu \in Nat \ {0}
    BY <1>1, Sizes
  <2>2. i % ReqMtu \in 0 .. ReqMtu - 1
    BY <2>1, ModType
  <2> QED BY <2>2
<1>4. PICK b \in Int : b = n * ReqMtu
  BY Sizes
<1>5. i = b + r
  BY <1>1, <1>2, <1>3, <1>4, Sizes
<1>6. n >= 0
  <2>1. ASSUME n <= -1 PROVE FALSE
    <3>1. n * ReqMtu <= -ReqMtu
      BY <2>1, Sizes
    <3> QED BY <1>1, <1>3, <1>4, <1>5, <3>1, Sizes
  <2> QED BY <2>1
<1>7. PICK c \in Nat : c = EleNum + ReqMtu - 1
  BY Sizes
<1>8. PICK m \in Int : m = c \div ReqMtu
  BY Sizes
<1>9. PICK s \in 0 .. ReqMtu - 1 : s = c % ReqMtu
  <2>1. c \in Int /\ ReqMtu \in Nat \ {0}
    BY Sizes
  <2>2. c % ReqMtu \in 0 .. ReqMtu - 1
    BY <2>1, ModType
  <2> QED BY <2>2
<1>10. PICK d \in Int : d = m * ReqMtu
  BY Sizes
<1>11. c = d + s
  BY <1>7, <1>8, <1>9, <1>10, Sizes
<1>12. n < m
  <2>1. ASSUME m <= n PROVE FALSE
    <3>1. m * ReqMtu <= n * ReqMtu
      BY <2>1, <1>6, Sizes
    <3> QED BY <1>1, <1>3, <1>4, <1>5, <1>7, <1>9, <1>10, <1>11, <3>1, Sizes
  <2> QED BY <2>1
<1>13. PacketsOf(Wr(0)) = m
  <2>1. Wr(0).size = EleNum
    BY WorkRequest
  <2> QED BY <1>7, <1>8, <2>1 DEF PacketsOf, CeilDiv
<1>14. i \in Block(n)
  <2>1. BlockEnd(n) \in Nat /\ i < BlockEnd(n)
    BY <1>1, <1>3, <1>4, <1>5, Sizes DEF BlockEnd
  <2> QED BY <1>1, <1>3, <1>4, <1>5, <2>1 DEF Block
<1> QED BY <1>6, <1>12, <1>13, <1>14

(* The check that ends simulator.py ("Wrong result") never fails when one   *)
(* work request names all items: what a requester sees completed is there. *)
THEOREM PacedCompletes == ASSUME ~Pipelined, OneWr PROVE Spec => []CompletedWrIsCorrect
<1>1. TypeOK /\ DeliveryInv /\ AckedIsRetired => CompletedWrIsCorrect
  <2> SUFFICES ASSUME TypeOK, DeliveryInv, AckedIsRetired, NEW e \in Se, NEW i \in Items,
                      InCq(e, Wr(WrOfItem[i]))
               PROVE  Delivered(e, i)
    BY DEF CompletedWrIsCorrect
  <2>1. cq[e] # <<>>
    BY DEF InCq
  <2>2. PacketsOf(Wr(0)) <= old_unack_psn[e]
    BY <2>1 DEF DeliveryInv, Queued
  <2>3. PICK n \in Nat : /\ i \in Block(n) /\ n < PacketsOf(Wr(0))
                         /\ PacketsOf(Wr(0)) \in Int
    BY PsnOfItem
  <2>4. /\ old_unack_psn[e] \in Nat /\ sreq_unack_psn[e] \in Nat
        /\ old_unack_psn[e] <= sreq_unack_psn[e]
    BY DEF TypeOK, QpTypeOK, SwitchTypeOK, AckedIsRetired
  <2>5. n \in 0 .. sreq_unack_psn[e] - 1
    BY <2>2, <2>3, <2>4
  <2>6. Brought(e, i) /\ Sources
    BY <2>3, <2>5 DEF DeliveryInv, Retired
  <2> QED BY <2>6, DeliveredIsBrought
<1> QED BY <1>1, AcksSound, DeliveryInvariant, PTL

-----------------------------------------------------------------------------
(* The protocol implements ShuffleService.                                 *)

DeliveredSet == {ei \in Se \X Items : Delivered(ei[1], ei[2])}
DoneOf == [e \in Se |-> Len(cq[e])]

LEMMA InDelivered ==
  ASSUME OneWr, Sources
  PROVE  \A e \in Se, i \in Items : <<e, i>> \in DeliveredSet <=> Brought(e, i)
BY DeliveredIsBrought DEF DeliveredSet

LEMMA ServiceInit == ASSUME OneWr, Init PROVE Service!Init
<1>1. buf = InitBuf /\ \A e \in Se : cq[e] = <<>>
  BY DEF Init, QpInit
<1>2. Sources
  BY <1>1 DEF Sources
<1>3. ASSUME NEW e \in Se, NEW i \in Items PROVE ~Brought(e, i)
  <2>1. Place(i) \in Addr /\ Place(i) >= 2 * EleNum /\ Place(i) \in Nat
    BY PlaceFacts
  <2>2. InitBuf[e][Place(i)] = NoVal
    BY <2>1, Sizes DEF InitBuf
  <2>3. Value(i) # NoVal
    BY ValuesDiffer
  <2> QED BY <1>1, <2>2, <2>3 DEF Brought
<1>4. DeliveredSet = {}
  BY <1>2, <1>3, InDelivered DEF DeliveredSet
<1>5. DoneOf = [e \in Se |-> 0]
  BY <1>1 DEF DoneOf
<1> QED BY <1>4, <1>5 DEF Service!Init, DeliveredSet, DoneOf

\* A WRITE brings one item, and leaves the others where they are.
LEMMA WriteBrings ==
  ASSUME TypeOK, PacedInv, DeliveryInv, NEW q \in Responders, QpRx(q),
         NEW p, p = Head(qp_rx[q]), RxInOrder(q, p), p.opcode = "WRITE_ONLY"
  PROVE  \E e \in Se, i \in Items : \A f \in Se, j \in Items :
           Brought(f, j)' <=> Brought(f, j) \/ (f = e /\ j = i)
<1> DEFINE e == RequesterOf(q)
<1>1. q[2] = SWriteQpn /\ p.psn \in Nat
  <2>1. p.psn \in Nat
        /\ \/ p.opcode = "READ" /\ q[2] \in Se
           \/ p.opcode = "WRITE_ONLY" /\ q[2] = SWriteQpn
    BY OrderAt
  <2> QED BY <2>1
<1>2. buf' = [buf EXCEPT ![q[1]][p.addr] = p.data[1]]
  BY DEF RxInOrder
<1>3. e \in Se /\ q = WriteQp(e) /\ q[1] = e
  BY <1>1, ResponderNames DEF WriteQp, RequesterOf
<1> HIDE DEF e
<1>4. p \in Writes(e)
  BY <1>3, OrderAt, OrderKind DEF Writes
<1>5. PICK n \in Nat : \E U \in SUBSET Block(n) : Turn(e, n, U)
  BY <1>3, <1>4, TurnOf DEF Busy
<1>6. PICK i \in Block(n) : p.addr = Place(i) /\ p.data = <<Value(i)>>
  BY <1>4, <1>5 DEF Turn
<1>7. i \in Items
  BY BlockFacts
<1>8. buf \in [Se -> [Addr -> Int]] /\ Place(i) \in Addr /\ p.data[1] = Value(i)
  BY <1>6, <1>7, PlaceFacts DEF TypeOK, QpTypeOK
<1>9. /\ buf'[e] = [buf[e] EXCEPT ![Place(i)] = Value(i)]
      /\ \A f \in Se \ {e} : buf'[f] = buf[f]
  BY <1>2, <1>3, <1>6, <1>8
<1>10. /\ buf'[e][Place(i)] = Value(i)
       /\ \A a \in Addr \ {Place(i)} : buf'[e][a] = buf[e][a]
  <2>1. buf[e] \in [Addr -> Int]
    BY <1>3, <1>8
  <2> QED BY <1>8, <1>9, <2>1
<1>11. ASSUME NEW f \in Se, NEW j \in Items
       PROVE  Brought(f, j)' <=> Brought(f, j) \/ (f = e /\ j = i)
  <2>1. CASE f # e
    BY <1>9, <2>1 DEF Brought
  <2>2. CASE f = e /\ j = i
    BY <1>10, <2>2 DEF Brought
  <2>3. CASE f = e /\ j # i
    <3>1. Place(j) \in Addr \ {Place(i)}
      BY <1>7, <2>3, PlaceFacts
    <3> QED BY <1>10, <2>3, <3>1 DEF Brought
  <2> QED BY <2>1, <2>2, <2>3
<1> QED BY <1>3, <1>7, <1>11

serviceVars == <<DeliveredSet, DoneOf>>

LEMMA ServiceKept ==
  ASSUME UNCHANGED <<buf, cq>>
  PROVE  UNCHANGED serviceVars
BY DEF serviceVars, DeliveredSet, DoneOf, Delivered

\* rx of a read or write QP brings an item or nothing.
LEMMA ServiceDelivers ==
  ASSUME OneWr, TypeOK, PacedInv, DeliveryInv, DeliveryInv', NEW q \in Responders, QpRx(q)
  PROVE  Service!Next \/ UNCHANGED serviceVars
<1> DEFINE p == Head(qp_rx[q])
<1>1. cq' = cq /\ (RxOutOfOrder(q, p) \/ RxInOrder(q, p))
  BY OrderAt DEF requesterVars
<1>2. CASE buf' = buf
  BY <1>1, <1>2, ServiceKept
<1>3. CASE RxInOrder(q, p) /\ p.opcode = "WRITE_ONLY"
  <2>1. PICK e \in Se, i \in Items : \A f \in Se, j \in Items :
          Brought(f, j)' <=> Brought(f, j) \/ (f = e /\ j = i)
    BY <1>3, WriteBrings
  <2>2. Sources /\ Sources'
    BY DEF DeliveryInv
  <2>3. \A f \in Se, j \in Items : Delivered(f, j) <=> Brought(f, j)
    BY <2>2, DeliveredIsBrought
  <2>4. \A f \in Se, j \in Items : Delivered(f, j)' <=> Brought(f, j)'
    BY <2>2, ItemPlace DEF Delivered, Sources, Brought
  <2>5. \A f \in Se, j \in Items :
          Delivered(f, j)' <=> Delivered(f, j) \/ (f = e /\ j = i)
    BY <2>1, <2>3, <2>4
  <2>6. DeliveredSet' = DeliveredSet \cup {<<e, i>>}
    <3>1. ASSUME NEW x \in Se \X Items
          PROVE  x \in DeliveredSet' <=> x \in DeliveredSet \/ x = <<e, i>>
      <4>1. PICK f \in Se, j \in Items : x = <<f, j>>
        OBVIOUS
      <4>2. x \in DeliveredSet <=> Delivered(f, j)
        BY <4>1 DEF DeliveredSet
      <4>3. x \in DeliveredSet' <=> Delivered(f, j)'
        BY <4>1 DEF DeliveredSet
      <4>4. x = <<e, i>> <=> f = e /\ j = i
        BY <4>1
      <4> QED BY <2>5, <4>2, <4>3, <4>4
    <3>2. DeliveredSet \subseteq Se \X Items /\ DeliveredSet' \subseteq Se \X Items
      BY DEF DeliveredSet
    <3>3. <<e, i>> \in Se \X Items
      OBVIOUS
    <3> QED BY <3>1, <3>2, <3>3
  <2>7. UNCHANGED DoneOf
    BY <1>1 DEF DoneOf
  <2>8. CASE <<e, i>> \in DeliveredSet
    BY <2>6, <2>7, <2>8 DEF serviceVars
  <2>9. CASE <<e, i>> \notin DeliveredSet
    <3>1. Service!Deliver(e, i)
      BY <2>6, <2>7, <2>9 DEF Service!Deliver, DeliveredSet, DoneOf
    <3> QED BY <3>1 DEF Service!Next
  <2> QED BY <2>8, <2>9
<1> QED BY <1>1, <1>2, <1>3 DEF RxOutOfOrder, RxInOrder, responderVars

\* rx of a request QP reports the work request, or nothing.
LEMMA ServiceCompletes ==
  ASSUME OneWr, TypeOK, TypeOK', PacedInv, DeliveryInv, DeliveryInv', AckedIsRetired',
         NEW e \in Se, QpRx(ReqQp(e))
  PROVE  Service!Next \/ UNCHANGED serviceVars
<1> DEFINE q == ReqQp(e)
           p == Head(qp_rx[q])
<1>1. /\ qp_rx[q] # <<>>
      /\ RequesterRx(q, p) \/ ResponderRx(q, p)
  BY DEF QpRx, QpRxOnce
<1>2. p \in RequestAcks
  <2>1. q \in Qps /\ qp_rx[q] \in Seq(SentTo(q))
    BY QpNames DEF PacedInv, Kinds
  <2>2. p \in SentTo(q)
    BY <1>1, <2>1
  <2> QED BY <2>2, RequestQpKind
<1> HIDE DEF p
<1>3. RequesterRx(q, p)
  BY <1>1, <1>2 DEF ResponderRx, RequestAcks
<1>4. UNCHANGED buf /\ (RxAck(e, p) \/ RxOldAck(e, p))
  BY <1>3 DEF RequesterRx, ReqQp, responderVars
<1>5. \A f \in Se \ {e} : cq'[f] = cq[f]
  <2>1. cq \in [Se -> Seq(Wrs)]
    BY DEF TypeOK, QpTypeOK
  <2> QED BY <1>4, <2>1 DEF RxAck, RxOldAck, requesterVars
<1>6. UNCHANGED DeliveredSet
  BY <1>4 DEF DeliveredSet, Delivered
<1>7. CASE cq'[e] = cq[e]
  <2>1. UNCHANGED DoneOf
    BY <1>5, <1>7 DEF DoneOf
  <2> QED BY <1>6, <2>1 DEF serviceVars
<1>8. CASE cq'[e] # cq[e]
  <2>1. \/ cq[e] = <<>>
        \/ /\ cq[e] = <<Wr(0)>> /\ sq[e] = <<>>
    BY DEF DeliveryInv, Queued
  <2>2. \/ cq'[e] = <<>>
        \/ cq'[e] = <<Wr(0)>> /\ PacketsOf(Wr(0)) <= old_unack_psn'[e]
    BY DEF DeliveryInv, Queued
  <2>3. CASE cq[e] = <<>>
    <3>1. cq'[e] = <<Wr(0)>> /\ PacketsOf(Wr(0)) <= old_unack_psn'[e]
      BY <1>8, <2>2, <2>3
    <3>2. \A i \in Items : Brought(e, i)'
      <4> SUFFICES ASSUME NEW i \in Items PROVE Brought(e, i)'
        OBVIOUS
      <4>1. PICK n \in Nat : /\ i \in Block(n) /\ n < PacketsOf(Wr(0))
                             /\ PacketsOf(Wr(0)) \in Int
        BY PsnOfItem
      <4>2. /\ old_unack_psn'[e] \in Nat /\ sreq_unack_psn'[e] \in Nat
            /\ old_unack_psn'[e] <= sreq_unack_psn'[e]
        BY DEF TypeOK, QpTypeOK, SwitchTypeOK, AckedIsRetired
      <4>3. n \in 0 .. sreq_unack_psn'[e] - 1
        BY <3>1, <4>1, <4>2
      <4>4. Retired'
        BY DEF DeliveryInv
      <4> QED BY <4>1, <4>3, <4>4 DEF Retired
    <3>3. \A i \in Items : Brought(e, i)
      BY <1>4, <3>2 DEF Brought
    <3>4. \A i \in Items : <<e, i>> \in DeliveredSet
      <4>1. Sources
        BY DEF DeliveryInv
      <4> QED BY <3>3, <4>1, InDelivered
    <3>5. DoneOf' = [DoneOf EXCEPT ![e] = 1] /\ DoneOf[e] = 0
      <4>1. Len(cq[e]) = 0 /\ Len(cq'[e]) = 1
        BY <2>3, <3>1
      <4> QED BY <1>5, <4>1 DEF DoneOf
    <3>6. Service!Complete(e, 1)
      BY <1>6, <3>4, <3>5 DEF Service!Complete, DeliveredSet, DoneOf
    <3>7. 1 \in 1 .. WrNum
      BY WorkRequest
    <3> QED BY <3>6, <3>7 DEF Service!Next
  <2>4. CASE cq[e] = <<Wr(0)>> /\ sq[e] = <<>>
    <3>1. cq'[e] = cq[e]
      <4>1. CASE RxOldAck(e, p)
        BY <4>1 DEF RxOldAck, requesterVars
      <4>2. CASE RxAck(e, p)
        <5>1. Len(sq[e]) = 0
          BY <2>4
        <5>2. cq \in [Se -> Seq(Wrs)]
          BY DEF TypeOK, QpTypeOK
        <5>3. PICK k \in 0 .. 0 : cq' = [cq EXCEPT ![e] = @ \o SubSeq(sq[e], 1, k)]
          BY <4>2, <5>1 DEF RxAck
        <5>4. cq'[e] = cq[e] \o SubSeq(<<>>, 1, 0)
          BY <2>4, <5>2, <5>3
        <5>5. SubSeq(<<>>, 1, 0) = <<>>
          OBVIOUS
        <5>6. cq[e] \in Seq(Wrs)
          BY <5>2
        <5> QED BY <5>4, <5>5, <5>6
      <4> QED BY <1>4, <4>1, <4>2
    <3> QED BY <1>8, <3>1
  <2> QED BY <2>1, <2>3, <2>4
<1> QED BY <1>7, <1>8

LEMMA ServiceStep ==
  ASSUME OneWr, ~Pipelined, TypeOK, TypeOK', PacedInv, DeliveryInv, DeliveryInv',
         AckedIsRetired', [Next]_vars
  PROVE  Service!Next \/ UNCHANGED serviceVars
<1>1. CASE \E q \in Qps : QpRx(q)
  BY <1>1, ServiceDelivers, ServiceCompletes, QpCases
<1>2. CASE UNCHANGED <<buf, cq>>
  BY <1>2, ServiceKept
<1> QED BY <1>1, <1>2
    DEF Next, Running, Stopped, RequestTx, TxOnce, ResponderTx, SwitchTx, SwitchRx, Timeout,
        Retry, vars, qpVars, requesterVars, responderVars

(* The protocol with paced requests implements ShuffleService: each item   *)
(* reaches its place once and stays there, and the work request is         *)
(* reported complete only with all its items in place.                     *)
THEOREM PacedImplements == ASSUME ~Pipelined, OneWr PROVE Spec => ServiceImplemented
<1>1. Init => Service!Init
  BY ServiceInit
<1>2. /\ TypeOK /\ TypeOK' /\ PacedInv /\ DeliveryInv /\ DeliveryInv' /\ AckedIsRetired'
      /\ [Next]_vars
      => [Service!Next]_serviceVars
  BY ServiceStep
<1>3. Service!serviceVars = serviceVars
  BY DEF Service!serviceVars, serviceVars, DeliveredSet, DoneOf
<1>4. /\ TypeOK /\ TypeOK' /\ PacedInv /\ DeliveryInv /\ DeliveryInv' /\ AckedIsRetired'
      /\ [Next]_vars
      => [Service!Next]_(Service!serviceVars)
  BY <1>2, <1>3 DEF Service!serviceVars, serviceVars, DeliveredSet, DoneOf
<1> QED BY <1>1, <1>4, TypeCorrect, AcksSound, DeliveryInvariant, PTL
        DEF Spec, ServiceImplemented, Service!Spec
=============================================================================
