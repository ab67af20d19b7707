---------------------------- MODULE FabricProofs ----------------------------
(***************************************************************************)
(* The P4 switch brings each element to its place.  For any number of      *)
(* endpoints, of requests that fit into their units, of slots and of       *)
(* sessions, whatever READs, responses, WRITEs and ACKs are lost and in    *)
(* whatever order packets come back from the loopback ports: responses     *)
(* find the slots of their READs, WRITEs have the right addresses, an      *)
(* endpoint is given up only for a reason, and a request that is           *)
(* acknowledged is written.  Requests are not lost: see OnePacket.         *)
(***************************************************************************)
EXTENDS Fabric, Lemmas, FiniteSetTheorems, TLAPS

\* Powers of two, from the loop that shifts a bit.
LEMMA Pow2Loop ==
  ASSUME NEW n \in Nat
  PROVE  \E f \in [0 .. n -> Nat \ {0}] :
           /\ Pow2(n) = f[n] /\ f[0] = 1
           /\ \A i \in 1 .. n : f[i] = 2 * f[i - 1]
<1> DEFINE X == Nat \ {0}
           F == [si \in X \X (1 .. n) |-> 2 * si[1]]
<1>1. \A s \in X, i \in 1 .. n : F[<<s, i>>] = 2 * s
  OBVIOUS
<1>2. \A s \in X : 2 * s \in X
  OBVIOUS
<1>3. 1 \in X
  OBVIOUS
<1>4. LoopBody(n, X, F)
  <2> HIDE DEF F, X
  <2> QED BY <1>1, <1>2 DEF LoopBody
<1> HIDE DEF F
<1>5. PICK f : LoopValues(f, n, X, 1, F)
  <2> HIDE DEF X
  <2> QED BY <1>3, <1>4, LoopExists
<1>6. /\ f \in [0 .. n -> X]
      /\ f[0] = 1
      /\ \A i \in 1 .. n : f[i] = F[<<f[i - 1], i>>]
  BY <1>5 DEF LoopValues
<1>7. ASSUME NEW k \in 1 .. n PROVE f[k] = 2 * f[k - 1]
  <2>1. k - 1 \in 0 .. n
    OBVIOUS
  <2> HIDE DEF X
  <2> QED BY <1>1, <1>6, <2>1
<1>8. f = [i \in 0 .. n |-> IF i = 0 THEN 1 ELSE 2 * f[i - 1]]
  <2>1. \A k \in 0 .. n : k = 0 \/ k \in 1 .. n
    OBVIOUS
  <2> QED BY <1>6, <1>7, <2>1
<1>9. Pow2(n) = f[n]
  <2> DEFINE g == CHOOSE g : g = [i \in 0 .. n |-> IF i = 0 THEN 1 ELSE 2 * g[i - 1]]
  <2>1. g = [i \in 0 .. n |-> IF i = 0 THEN 1 ELSE 2 * g[i - 1]]
    BY <1>8
  <2>2. Pow2(n) = g[n]
    BY DEF Pow2
  <2> HIDE DEF g
  <2>3. g[0] = 1 /\ \A i \in 1 .. n : g[i] = 2 * g[i - 1]
    BY <2>1
  <2> DEFINE T == {i \in 0 .. n : g[i] = f[i]}
  <2>4. 0 \in T
    BY <1>6, <2>3
  <2>5. ASSUME NEW i \in 0 .. n - 1, i \in T PROVE i + 1 \in T
    <3>1. i + 1 \in 1 .. n /\ (i + 1) - 1 = i /\ i + 1 \in 0 .. n
      OBVIOUS
    <3>2. f[i + 1] = 2 * f[i] /\ g[i + 1] = 2 * g[i]
      BY <1>7, <2>3, <3>1
    <3> QED BY <2>5, <3>1, <3>2
  <2>6. n \in T
    <3>1. n \in 0 .. n
      OBVIOUS
    <3> HIDE DEF T
    <3> QED BY <2>4, <2>5, <3>1, SetInduction
  <2> QED BY <2>2, <2>6
<1> QED BY <1>6, <1>7, <1>9

\* A power of two is positive.
LEMMA Pow2Type ==
  ASSUME NEW n \in Nat
  PROVE  Pow2(n) \in Nat \ {0}
<1>1. n \in 0 .. n
  OBVIOUS
<1> QED BY <1>1, Pow2Loop

\* ... and twice the one before.
LEMMA Pow2Step ==
  ASSUME NEW n \in Nat \ {0}
  PROVE  Pow2(n) = 2 * Pow2(n - 1)
<1> DEFINE m == n - 1
<1>0. m \in Nat /\ n \in Nat /\ n = m + 1
  OBVIOUS
<1> HIDE DEF m
<1>1. PICK f \in [0 .. n -> Nat \ {0}] :
        Pow2(n) = f[n] /\ f[0] = 1 /\ \A i \in 1 .. n : f[i] = 2 * f[i - 1]
  BY <1>0, Pow2Loop
<1>2. PICK g \in [0 .. m -> Nat \ {0}] :
        Pow2(m) = g[m] /\ g[0] = 1 /\ \A i \in 1 .. m : g[i] = 2 * g[i - 1]
  BY <1>0, Pow2Loop
<1> DEFINE T == {i \in 0 .. m : f[i] = g[i]}
<1>3. 0 \in T
  BY <1>0, <1>1, <1>2
<1>4. ASSUME NEW i \in 0 .. m - 1, i \in T PROVE i + 1 \in T
  <2>1. i + 1 \in 1 .. m /\ (i + 1) - 1 = i /\ i + 1 \in 0 .. m /\ i + 1 \in 1 .. n
    BY <1>0
  <2>2. f[i + 1] = 2 * f[i] /\ g[i + 1] = 2 * g[i]
    BY <1>1, <1>2, <2>1
  <2> QED BY <1>4, <2>1, <2>2
<1>5. m \in T
  <2>1. m \in 0 .. m
    BY <1>0
  <2> HIDE DEF T
  <2> QED BY <1>0, <1>3, <1>4, <2>1, SetInduction
<1>6. n \in 1 .. n
  BY <1>0
<1>7. f[n] = 2 * f[m]
  BY <1>0, <1>1, <1>6
<1> QED BY <1>1, <1>2, <1>5, <1>7 DEF m

\* What the models ask of their constants, and the sizes that follow.
LEMMA Sizes ==
  /\ MAX_NUM_ENDP \in Nat \ {0}
  /\ UNIT_PER_ENDP \in Nat \ {0}
  /\ ITEM_PER_UNIT \in Nat \ {0}
  /\ READ_RING_SIZE \in Nat \ {0}
  /\ WRITE_RING_SIZE \in Nat \ {0}
  /\ SHL_UNIT_SHIFT \in Nat
  /\ Pow2(SHL_UNIT_SHIFT) \in Nat \ {0}
  /\ Pow2(PsnBits) \in Nat \ {0}
  /\ Pow2(RegBits) \in Nat \ {0}
  /\ Pow2(RegBits - PsnBits) \in Nat \ {0, 1}
  /\ NEp \in Nat \ {0} /\ NEp <= MAX_NUM_ENDP
<1>1. /\ EndpShift \in Nat /\ UnitShift \in Nat /\ ItemShift \in Nat
      /\ EndpShift + UnitShift < 16
      /\ ReadRingShift \in Nat /\ WriteRingShift \in Nat
      /\ NEp \in 1 .. MAX_NUM_ENDP
      /\ PsnBits \in Nat /\ RegBits \in Nat /\ PsnBits < RegBits
  BY TablesAssumption
<1>2. SHL_UNIT_SHIFT \in Nat /\ RegBits - PsnBits \in Nat \ {0}
  BY <1>1 DEF SHL_UNIT_SHIFT
<1>3. /\ Pow2(EndpShift) \in Nat \ {0} /\ Pow2(UnitShift) \in Nat \ {0}
      /\ Pow2(ItemShift) \in Nat \ {0} /\ Pow2(ReadRingShift) \in Nat \ {0}
      /\ Pow2(WriteRingShift) \in Nat \ {0} /\ Pow2(SHL_UNIT_SHIFT) \in Nat \ {0}
      /\ Pow2(PsnBits) \in Nat \ {0} /\ Pow2(RegBits) \in Nat \ {0}
      /\ Pow2(RegBits - PsnBits) \in Nat \ {0}
  BY <1>1, <1>2, Pow2Type
<1>4. Pow2(RegBits - PsnBits) = 2 * Pow2(RegBits - PsnBits - 1)
  BY <1>2, Pow2Step
<1>5. Pow2(RegBits - PsnBits - 1) \in Nat \ {0}
  <2>1. RegBits - PsnBits - 1 \in Nat
    BY <1>2
  <2> QED BY <2>1, Pow2Type
<1>6. Pow2(RegBits - PsnBits) # 1
  BY <1>4, <1>5
<1>7. NEp \in Nat \ {0} /\ NEp <= MAX_NUM_ENDP
  BY <1>1, <1>3 DEF MAX_NUM_ENDP
<1> QED
  BY <1>2, <1>3, <1>6, <1>7 DEF MAX_NUM_ENDP, UNIT_PER_ENDP, ITEM_PER_UNIT, READ_RING_SIZE, WRITE_RING_SIZE

\* The fabrics that the theorems are about: PSNs start from 0, as the virtual
\* queue pairs of the endpoints do, a request is one packet, and the requests
\* of an endpoint fit into its units.  No request is lost: this is assumed of
\* the links, nothing in the code sees to it.  Egress lets the request after a
\* lost one go on as a replica (shuffle_egress.p4:586), and WriteIsRight fails.
OnePacket ==
  /\ Psn0 = 0 /\ ~LoseRequests
  /\ NItem <= ITEM_PER_UNIT /\ NItem < 2^8
  /\ UnitShift >= 2 /\ NPost <= UNIT_PER_ENDP
  /\ NPost * NItem < Pow2(RegBits)

\* An endpoint has four units or more.
LEMMA FourUnits ==
  ASSUME OnePacket
  PROVE  UNIT_PER_ENDP >= 4
<1>1. UnitShift \in Nat /\ UnitShift >= 2
  BY TablesAssumption DEF OnePacket
<1>2. Pow2(UnitShift) = 2 * Pow2(UnitShift - 1)
  BY <1>1, Pow2Step
<1>3. UnitShift - 1 \in Nat \ {0}
  BY <1>1
<1>4. Pow2(UnitShift - 1) = 2 * Pow2(UnitShift - 1 - 1)
  BY <1>3, Pow2Step
<1>5. UnitShift - 1 - 1 \in Nat
  BY <1>1
<1>6. Pow2(UnitShift - 1 - 1) \in Nat \ {0}
  BY <1>5, Pow2Type
<1>7. PICK x \in Nat \ {0} : x = Pow2(UnitShift - 1 - 1)
  BY <1>6
<1>8. Pow2(UnitShift) = 2 * (2 * x)
  BY <1>2, <1>4, <1>7
<1> QED BY <1>8 DEF UNIT_PER_ENDP

\* A request is one packet.
LEMMA OnePkt ==
  ASSUME OnePacket
  PROVE  PktsPerPost = 1
<1>1. NItem \in Nat \ {0} /\ ITEM_PER_UNIT \in Nat \ {0} /\ NItem <= ITEM_PER_UNIT
  BY FabricAssumption, Sizes DEF OnePacket
<1>2. PICK p \in Nat \ {0} : p = ITEM_PER_UNIT
  BY <1>1
<1>3. (NItem + p - 1) \div p \in Int /\ (NItem + p - 1) % p \in 0 .. p - 1
  BY <1>1, <1>2
<1>4. PICK q \in Int : q = (NItem + p - 1) \div p
  BY <1>3
<1>5. NItem + p - 1 = p * q + ((NItem + p - 1) % p)
  BY <1>1, <1>2, <1>4
<1>6. q < 2
  <2>1. ASSUME q >= 2 PROVE FALSE
    <3>1. p * q >= 2 * p
      BY <2>1
    <3> QED BY <1>1, <1>2, <1>3, <1>5, <3>1
  <2> QED BY <2>1
<1>7. q > 0
  <2>1. ASSUME q <= 0 PROVE FALSE
    <3>1. p * q <= 0
      BY <2>1
    <3> QED BY <1>1, <1>2, <1>3, <1>5, <3>1
  <2> QED BY <2>1
<1> QED BY <1>2, <1>4, <1>6, <1>7 DEF PktsPerPost

-----------------------------------------------------------------------------
\* Numbers that are put together from a row and a column.
LEMMA RowMajor ==
  ASSUME NEW a \in Nat, NEW b \in Nat, NEW n \in Nat \ {0},
         NEW r \in 0 .. n - 1, NEW s \in 0 .. n - 1
  PROVE  /\ (a * n) + r = (b * n) + s => a = b /\ r = s
         /\ ((a * n) + r) \div n = a
         /\ (a * n) + r \in Nat
<1>1. PICK x \in Nat : x = a * n
  OBVIOUS
<1>2. PICK y \in Nat : y = b * n
  OBVIOUS
<1>3. ASSUME a < b PROVE x + n <= y
  <2>1. (a + 1) * n <= b * n
    BY <1>3
  <2>2. (a + 1) * n = a * n + n
    OBVIOUS
  <2> QED BY <1>1, <1>2, <2>1, <2>2
<1>4. ASSUME b < a PROVE y + n <= x
  <2>1. (b + 1) * n <= a * n
    BY <1>4
  <2>2. (b + 1) * n = b * n + n
    OBVIOUS
  <2> QED BY <1>1, <1>2, <2>1, <2>2
<1>5. x + r = y + s => a = b
  BY <1>3, <1>4
<1>6. a = b => x = y
  BY <1>1, <1>2
<1>7. x + r = y + s => r = s
  BY <1>5, <1>6
<1>8. (x + r) \div n = a
  <2>1. x + r \in Nat
    OBVIOUS
  <2>2. (x + r) % n \in 0 .. n - 1
    BY <2>1
  <2>3. PICK q \in Int : q = (x + r) \div n
    BY <2>1
  <2>4. PICK m \in 0 .. n - 1 : m = (x + r) % n
    BY <2>2
  <2>5. x + r = n * q + m
    BY <2>1, <2>3, <2>4
  <2>6. q \in Nat
    <3>1. ASSUME q <= -1 PROVE FALSE
      <4>1. n * q <= -n
        BY <3>1
      <4> QED BY <2>5, <4>1
    <3> QED BY <3>1
  <2>7. n * q = q * n
    BY <2>6
  <2>8. ASSUME a < q PROVE FALSE
    <3>1. (a + 1) * n <= q * n
      BY <2>6, <2>8
    <3>2. (a + 1) * n = a * n + n
      OBVIOUS
    <3> QED BY <1>1, <2>5, <2>7, <3>1, <3>2
  <2>9. ASSUME q < a PROVE FALSE
    <3>1. (q + 1) * n <= a * n
      BY <2>6, <2>9
    <3>2. (q + 1) * n = q * n + n
      BY <2>6
    <3> QED BY <1>1, <2>5, <2>7, <3>1, <3>2
  <2> QED BY <2>3, <2>6, <2>8, <2>9
<1> QED BY <1>1, <1>2, <1>5, <1>7, <1>8

\* The index of an element in a table of m rows of n.
LEMMA RowBound ==
  ASSUME NEW a \in Nat, NEW m \in Nat, a < m, NEW n \in Nat \ {0}, NEW r \in 0 .. n - 1
  PROVE  (a * n) + r \in 0 .. m * n - 1
<1>1. (a + 1) * n <= m * n
  BY MulMonotone
<1>2. (a + 1) * n = a * n + n
  OBVIOUS
<1>3. PICK x \in Nat : x = a * n
  OBVIOUS
<1>4. PICK y \in Nat : y = m * n
  OBVIOUS
<1> QED BY <1>1, <1>2, <1>3, <1>4

\* A pair of endpoints has an index of its own.
LEMMA PairIds ==
  ASSUME NEW e \in Eps, NEW d \in Eps
  PROVE  /\ SrcDst(e, d) \in Pairs
         /\ \A e1, d1 \in Eps : SrcDst(e, d) = SrcDst(e1, d1) => e = e1 /\ d = d1
         /\ 0 \in Eps
<1>1. NEp \in Nat \ {0}
  BY Sizes
<1>2. e \in Nat /\ e < NEp /\ d \in 0 .. NEp - 1
  BY <1>1 DEF Eps
<1>3. (e * NEp) + d \in 0 .. NEp * NEp - 1
  BY <1>1, <1>2, RowBound
<1>4. ASSUME NEW e1 \in Eps, NEW d1 \in Eps, SrcDst(e, d) = SrcDst(e1, d1)
      PROVE  e = e1 /\ d = d1
  <2>1. e1 \in Nat /\ d1 \in 0 .. NEp - 1
    BY <1>1 DEF Eps
  <2>2. (e * NEp) + d = (e1 * NEp) + d1
    BY <1>4 DEF SrcDst
  <2> QED BY <1>1, <1>2, <2>1, <2>2, RowMajor
<1> QED BY <1>1, <1>3, <1>4 DEF SrcDst, Pairs, Eps

\* Two READs share a slot only in one ring, a multiple of its size apart.
LEMMA ReadSlotIds ==
  ASSUME NEW sd \in Pairs, NEW n \in Nat
  PROVE  /\ ReadRingId(sd, n) \in ReadSlots
         /\ \A sd1 \in Pairs, n1 \in Nat : ReadRingId(sd, n) = ReadRingId(sd1, n1) =>
              sd = sd1 /\ n % READ_RING_SIZE = n1 % READ_RING_SIZE
<1>1. /\ NEp \in Nat /\ MAX_NUM_ENDP \in Nat /\ NEp <= MAX_NUM_ENDP
      /\ READ_RING_SIZE \in Nat \ {0}
  BY Sizes
<1>2. NEp * NEp <= MAX_NUM_ENDP * MAX_NUM_ENDP /\ NEp * NEp \in Nat
  <2>1. NEp * NEp <= MAX_NUM_ENDP * NEp
    BY <1>1, MulMonotone
  <2>2. NEp * MAX_NUM_ENDP <= MAX_NUM_ENDP * MAX_NUM_ENDP
    BY <1>1, MulMonotone
  <2>3. MAX_NUM_ENDP * NEp = NEp * MAX_NUM_ENDP
    BY <1>1
  <2> QED BY <1>1, <2>1, <2>2, <2>3
<1>3. PICK m \in Nat : m = MAX_NUM_ENDP * MAX_NUM_ENDP
  BY <1>1
<1>4. \A x \in Pairs : x \in Nat /\ x < m
  BY <1>2, <1>3 DEF Pairs
<1>5. \A x \in Nat : x % READ_RING_SIZE \in 0 .. READ_RING_SIZE - 1
  BY <1>1, ModType
<1>6. ReadRingId(sd, n) \in ReadSlots
  <2>1. (sd * READ_RING_SIZE) + (n % READ_RING_SIZE) \in 0 .. m * READ_RING_SIZE - 1
    BY <1>1, <1>4, <1>5, RowBound
  <2> QED BY <1>3, <2>1 DEF ReadRingId, ReadSlots
<1>7. ASSUME NEW sd1 \in Pairs, NEW n1 \in Nat, ReadRingId(sd, n) = ReadRingId(sd1, n1)
      PROVE  sd = sd1 /\ n % READ_RING_SIZE = n1 % READ_RING_SIZE
  <2>1. (sd * READ_RING_SIZE) + (n % READ_RING_SIZE) = (sd1 * READ_RING_SIZE) + (n1 % READ_RING_SIZE)
    BY <1>7 DEF ReadRingId
  <2>2. sd \in Nat /\ sd1 \in Nat
    BY <1>4
  <2>3. n % READ_RING_SIZE \in 0 .. READ_RING_SIZE - 1 /\ n1 % READ_RING_SIZE \in 0 .. READ_RING_SIZE - 1
    BY <1>5
  <2> QED BY <1>1, <2>1, <2>2, <2>3, RowMajor
<1> QED BY <1>6, <1>7

\* A slot of the write ring is one of the table's.
LEMMA WriteSlotIds ==
  ASSUME NEW d \in Eps, NEW n \in Nat
  PROVE  WriteRingId(d, n) \in WriteSlots
<1>1. /\ NEp \in Nat /\ MAX_NUM_ENDP \in Nat /\ NEp <= MAX_NUM_ENDP
      /\ WRITE_RING_SIZE \in Nat \ {0}
  BY Sizes
<1>2. d \in Nat /\ d < MAX_NUM_ENDP
  BY <1>1 DEF Eps
<1>3. n % WRITE_RING_SIZE \in 0 .. WRITE_RING_SIZE - 1
  BY <1>1, ModType
<1> QED BY <1>1, <1>2, <1>3, RowBound DEF WriteRingId, WriteSlots

-----------------------------------------------------------------------------
\* An element is named by its requester, its request and its place in it.
Posts == 0 .. NPost - 1
Places == 0 .. NItem - 1
Vals == Eps \X Posts \X Places
ValsFrom(d) == {v \in Vals : v[1] = d}

\* A number below the divisor is its own remainder.
LEMMA ModSmall ==
  ASSUME NEW n \in Nat \ {0}, NEW r \in 0 .. n - 1
  PROVE  r % n = r /\ r \div n = 0
OBVIOUS

\* Request j of an endpoint is in unit j; no other request is.
LEMMA UnitIds ==
  ASSUME OnePacket, NEW d \in Eps, NEW j \in Posts
  PROVE  /\ UnitIdFromDst(d, j) = (d * UNIT_PER_ENDP) + j
         /\ UnitIdFromDst(d, j) \in Units
         /\ \A d1 \in Eps, j1 \in Posts :
              UnitIdFromDst(d, j) = UnitIdFromDst(d1, j1) => d = d1 /\ j = j1
<1>1. /\ NEp \in Nat /\ MAX_NUM_ENDP \in Nat /\ NEp <= MAX_NUM_ENDP
      /\ UNIT_PER_ENDP \in Nat \ {0} /\ NPost \in Nat /\ NPost <= UNIT_PER_ENDP
  BY Sizes, FabricAssumption DEF OnePacket
<1>2. \A x \in Eps : x \in Nat /\ x < MAX_NUM_ENDP
  BY <1>1 DEF Eps
<1>3. \A y \in Posts : y \in 0 .. UNIT_PER_ENDP - 1
  BY <1>1 DEF Posts
<1>4. \A y \in Posts : y % UNIT_PER_ENDP = y
  BY <1>1, <1>3, ModSmall
<1>5. \A x \in Eps, y \in Posts : UnitIdFromDst(x, y) = (x * UNIT_PER_ENDP) + y
  BY <1>4 DEF UnitIdFromDst
<1>6. UnitIdFromDst(d, j) \in Units
  BY <1>1, <1>2, <1>3, <1>5, RowBound DEF Units
<1>7. ASSUME NEW d1 \in Eps, NEW j1 \in Posts, UnitIdFromDst(d, j) = UnitIdFromDst(d1, j1)
      PROVE  d = d1 /\ j = j1
  <2>1. (d * UNIT_PER_ENDP) + j = (d1 * UNIT_PER_ENDP) + j1
    BY <1>5, <1>7
  <2>2. d \in Nat /\ d1 \in Nat /\ j \in 0 .. UNIT_PER_ENDP - 1 /\ j1 \in 0 .. UNIT_PER_ENDP - 1
    BY <1>2, <1>3
  <2> QED BY <1>1, <2>1, <2>2, RowMajor
<1> QED BY <1>5, <1>6, <1>7

\* The item number of an element: it lies in the element's unit, and no other
\* element has it.
LEMMA ItemIds ==
  ASSUME OnePacket, NEW v \in Vals
  PROVE  /\ ItemNumber(v) = (UnitIdFromDst(v[1], v[2]) * ITEM_PER_UNIT) + v[3]
         /\ ItemNumber(v) \in Items
         /\ UnitIdFromItem(ItemNumber(v)) = UnitIdFromDst(v[1], v[2])
         /\ \A w \in Vals : ItemNumber(v) = ItemNumber(w) => v = w
<1>1. /\ ITEM_PER_UNIT \in Nat \ {0} /\ NItem \in Nat /\ NItem <= ITEM_PER_UNIT
      /\ MAX_NUM_ENDP \in Nat /\ UNIT_PER_ENDP \in Nat /\ Psn0 = 0 /\ NPost \in Nat
  BY Sizes, FabricAssumption DEF OnePacket
<1>2. PktsPerPost = 1
  BY OnePkt
<1>3. \A y \in Places : y \in 0 .. ITEM_PER_UNIT - 1
  BY <1>1 DEF Places
<1>4. \A y \in Places : y % ITEM_PER_UNIT = y /\ y \div ITEM_PER_UNIT = 0
  BY <1>1, <1>3, ModSmall
<1>5. PICK m \in Nat : m = MAX_NUM_ENDP * UNIT_PER_ENDP
  BY <1>1
<1>6. ASSUME NEW w \in Vals
      PROVE  /\ w[1] \in Eps /\ w[2] \in Posts /\ w[3] \in Places /\ w = <<w[1], w[2], w[3]>>
             /\ ItemNumber(w) = (UnitIdFromDst(w[1], w[2]) * ITEM_PER_UNIT) + w[3]
             /\ UnitIdFromDst(w[1], w[2]) \in Nat
             /\ UnitIdFromDst(w[1], w[2]) < m
  <2>1. w[1] \in Eps /\ w[2] \in Posts /\ w[3] \in Places /\ w = <<w[1], w[2], w[3]>>
    BY DEF Vals
  <2>2. w[2] \in Int
    BY <1>1, <2>1 DEF Posts
  <2>3. Psn0 + w[2] * PktsPerPost + (w[3] \div ITEM_PER_UNIT) = w[2]
    <3>1. w[3] \div ITEM_PER_UNIT = 0
      BY <1>4, <2>1
    <3> QED BY <1>1, <1>2, <2>2, <3>1
  <2>4. ItemNumber(w) = (UnitIdFromDst(w[1], w[2]) * ITEM_PER_UNIT) + (w[3] % ITEM_PER_UNIT)
    BY <2>3 DEF ItemNumber, ItemIdFromDst
  <2>5. UnitIdFromDst(w[1], w[2]) \in Units
    BY <2>1, UnitIds
  <2> QED BY <1>4, <1>5, <2>1, <2>4, <2>5 DEF Units
<1>7. v[3] \in 0 .. ITEM_PER_UNIT - 1
  BY <1>3, <1>6
<1>8. ItemNumber(v) \in Items
  <2>1. (UnitIdFromDst(v[1], v[2]) * ITEM_PER_UNIT) + v[3] \in 0 .. m * ITEM_PER_UNIT - 1
    BY <1>1, <1>6, <1>7, RowBound
  <2> QED BY <1>5, <1>6, <2>1 DEF Items
<1>9. UnitIdFromItem(ItemNumber(v)) = UnitIdFromDst(v[1], v[2])
  BY <1>1, <1>6, <1>7, RowMajor DEF UnitIdFromItem
<1>10. ASSUME NEW w \in Vals, ItemNumber(v) = ItemNumber(w) PROVE v = w
  <2>1. w[3] \in 0 .. ITEM_PER_UNIT - 1
    BY <1>3, <1>6
  <2>2. (UnitIdFromDst(v[1], v[2]) * ITEM_PER_UNIT) + v[3] = (UnitIdFromDst(w[1], w[2]) * ITEM_PER_UNIT) + w[3]
    BY <1>6, <1>10
  <2>3. UnitIdFromDst(v[1], v[2]) \in Nat /\ UnitIdFromDst(w[1], w[2]) \in Nat
    BY <1>6
  <2>4. UnitIdFromDst(v[1], v[2]) = UnitIdFromDst(w[1], w[2]) /\ v[3] = w[3]
    BY <1>1, <1>7, <2>1, <2>2, <2>3, RowMajor
  <2>5. v[1] = w[1] /\ v[2] = w[2]
    BY <1>6, <2>4, UnitIds
  <2> QED BY <1>6, <2>4, <2>5
<1> QED BY <1>6, <1>8, <1>9, <1>10

\* How many there are.
LEMMA ValsCount ==
  ASSUME NEW d \in Eps
  PROVE  IsFiniteSet(ValsFrom(d)) /\ Cardinality(ValsFrom(d)) <= NPost * NItem
<1>1. NPost \in Nat /\ NItem \in Nat
  BY FabricAssumption
<1>2. IsFiniteSet(Posts) /\ Cardinality(Posts) = NPost
  BY <1>1, FS_Interval DEF Posts
<1>3. IsFiniteSet(Places) /\ Cardinality(Places) = NItem
  BY <1>1, FS_Interval DEF Places
<1>4. IsFiniteSet(Posts \X Places) /\ Cardinality(Posts \X Places) = NPost * NItem
  BY <1>2, <1>3, FS_Product
<1> DEFINE f == [v \in ValsFrom(d) |-> <<v[2], v[3]>>]
<1>5. f \in Injection(ValsFrom(d), Posts \X Places)
  <2>1. f \in [ValsFrom(d) -> Posts \X Places]
    BY DEF ValsFrom, Vals
  <2>2. \A v, w \in ValsFrom(d) : f[v] = f[w] => v = w
    BY DEF ValsFrom, Vals
  <2> QED BY <2>1, <2>2 DEF Injection, IsInjective
<1> QED BY <1>4, <1>5, FS_Injection

-----------------------------------------------------------------------------
(* Tokens.  A packet or an entry of a queue is looked at as a token: the   *)
(* channel it is in, its number there, and the elements it is for.         *)

Classes == {"req", "loop", "read", "res", "write", "ack", "rnak", "wnak"}
Token == [ch : Classes \X Eps, num : Nat, vals : SUBSET Vals]
WireOf(port) == <<"wire", port>>
TmOf(port) == <<"tm", port>>
Queues == {"wire", "tm"} \X Ports
TokenQueues == [Queues -> Seq(Token)]

Pop(T, q) == [T EXCEPT ![q] = Tail(@)]
Put(T, q, x) == [T EXCEPT ![q] = Append(@, x)]

\* The tokens of channel c in s have numbers from lo to below hi, and these
\* in rising order; in a dense range no number is missing.
Ranged(s, c, lo, hi) ==
  /\ lo <= hi
  /\ \A n \in 1 .. Len(s) : s[n].ch = c => lo <= s[n].num /\ s[n].num < hi
  /\ \A m, n \in 1 .. Len(s) : m < n /\ s[m].ch = c /\ s[n].ch = c => s[m].num < s[n].num
Dense(s, c, lo, hi) ==
  \A k \in Nat : lo <= k /\ k < hi => \E n \in 1 .. Len(s) : s[n].ch = c /\ s[n].num = k

\* The elements that tokens of the classes C are for.
Held(T, C) ==
  {v \in Vals : \E q \in Queues : \E n \in 1 .. Len(T[q]) :
                  T[q][n].ch[1] \in C /\ v \in T[q][n].vals}

\* No element is in two tokens.
Apart(T) ==
  \A q1, q2 \in Queues : \A n1 \in 1 .. Len(T[q1]), n2 \in 1 .. Len(T[q2]) :
    q1 # q2 \/ n1 # n2 => \A v \in T[q1][n1].vals : v \notin T[q2][n2].vals

\* What is left of a sequence without its head.
LEMMA TailIs ==
  ASSUME NEW X, NEW s \in Seq(X), s # <<>>
  PROVE  /\ Tail(s) \in Seq(X) /\ Head(s) \in X /\ Head(s) = s[1]
         /\ Len(s) \in Nat \ {0} /\ Len(Tail(s)) = Len(s) - 1
         /\ \A n \in 1 .. Len(Tail(s)) : Tail(s)[n] = s[n + 1] /\ n + 1 \in 1 .. Len(s)
         /\ \A n \in 1 .. Len(s) : n = 1 \/ (n - 1 \in 1 .. Len(Tail(s)) /\ Tail(s)[n - 1] = s[n])
OBVIOUS

\* What a sequence is with one element more.
LEMMA AppendIs ==
  ASSUME NEW X, NEW s \in Seq(X), NEW x \in X
  PROVE  /\ Append(s, x) \in Seq(X) /\ Append(s, x) # <<>>
         /\ Len(s) \in Nat /\ Len(Append(s, x)) = Len(s) + 1
         /\ Append(s, x)[Len(s) + 1] = x
         /\ \A n \in 1 .. Len(s) : Append(s, x)[n] = s[n] /\ n \in 1 .. Len(Append(s, x))
         /\ \A n \in 1 .. Len(Append(s, x)) : n = Len(s) + 1 \/ n \in 1 .. Len(s)
         /\ Len(s) + 1 \in 1 .. Len(Append(s, x))
         /\ s \o <<x>> = Append(s, x)
OBVIOUS

\* Taking the first token keeps the numbers of a channel in order; if it was of
\* the channel, the others come after it.
LEMMA TailRanged ==
  ASSUME NEW s \in Seq(Token), s # <<>>, NEW c, NEW lo \in Nat, NEW hi \in Nat,
         Ranged(s, c, lo, hi)
  PROVE  /\ Ranged(Tail(s), c, lo, hi)
         /\ Head(s).ch # c /\ Dense(s, c, lo, hi) => Dense(Tail(s), c, lo, hi)
         /\ Head(s).ch = c =>
              /\ lo <= Head(s).num /\ Head(s).num < hi
              /\ Ranged(Tail(s), c, Head(s).num + 1, hi)
              /\ Dense(s, c, lo, hi) => Head(s).num = lo /\ Dense(Tail(s), c, lo + 1, hi)
<1> DEFINE t == Tail(s)
<1>1. /\ Head(s) \in Token /\ Head(s) = s[1]
      /\ Len(s) \in Nat \ {0} /\ Len(t) = Len(s) - 1 /\ t \in Seq(Token)
      /\ \A n \in 1 .. Len(t) : t[n] = s[n + 1] /\ n + 1 \in 1 .. Len(s)
      /\ \A n \in 1 .. Len(s) : n = 1 \/ (n - 1 \in 1 .. Len(t) /\ t[n - 1] = s[n])
  BY TailIs
<1>2. /\ lo <= hi
      /\ \A n \in 1 .. Len(s) : s[n].ch = c => lo <= s[n].num /\ s[n].num < hi
      /\ \A m, n \in 1 .. Len(s) : m < n /\ s[m].ch = c /\ s[n].ch = c => s[m].num < s[n].num
  BY DEF Ranged
<1>3. \A n \in 1 .. Len(s) : s[n].num \in Nat
  <2>1. \A n \in 1 .. Len(s) : s[n] \in Token
    OBVIOUS
  <2> QED BY <2>1 DEF Token
<1> HIDE DEF t
<1>4. Len(t) \in Nat
  BY <1>1
<1>5. Ranged(t, c, lo, hi)
  <2>1. ASSUME NEW n \in 1 .. Len(t), t[n].ch = c PROVE lo <= t[n].num /\ t[n].num < hi
    BY <1>1, <1>2, <2>1
  <2>2. ASSUME NEW m \in 1 .. Len(t), NEW n \in 1 .. Len(t), m < n, t[m].ch = c, t[n].ch = c
        PROVE  t[m].num < t[n].num
    <3>1. m + 1 \in 1 .. Len(s) /\ n + 1 \in 1 .. Len(s) /\ m + 1 < n + 1
      BY <1>1, <1>4, <2>2
    <3>2. t[m] = s[m + 1] /\ t[n] = s[n + 1]
      BY <1>1
    <3> QED BY <1>2, <2>2, <3>1, <3>2
  <2> QED BY <1>2, <2>1, <2>2 DEF Ranged
<1>6. 1 \in 1 .. Len(s)
  BY <1>1
<1>7. ASSUME Head(s).ch # c, Dense(s, c, lo, hi) PROVE Dense(t, c, lo, hi)
  <2>1. ASSUME NEW k \in Nat, lo <= k, k < hi
        PROVE  \E n \in 1 .. Len(t) : t[n].ch = c /\ t[n].num = k
    <3>1. PICK n \in 1 .. Len(s) : s[n].ch = c /\ s[n].num = k
      BY <1>7, <2>1 DEF Dense
    <3>2. n # 1
      BY <1>1, <1>7, <3>1
    <3> QED BY <1>1, <3>1, <3>2
  <2> QED BY <2>1 DEF Dense
<1>8. ASSUME Head(s).ch = c
      PROVE  /\ lo <= Head(s).num /\ Head(s).num < hi
             /\ Ranged(t, c, Head(s).num + 1, hi)
             /\ Dense(s, c, lo, hi) => Head(s).num = lo /\ Dense(t, c, lo + 1, hi)
  <2> DEFINE h == s[1].num
  <2>1. lo <= h /\ h < hi /\ h \in Nat
    BY <1>1, <1>2, <1>3, <1>6, <1>8
  <2>2. ASSUME NEW n \in 1 .. Len(s), n # 1, s[n].ch = c PROVE h < s[n].num
    <3>1. 1 < n
      BY <1>1, <2>2
    <3> QED BY <1>1, <1>2, <1>6, <1>8, <2>2, <3>1
  <2> HIDE DEF h
  <2>3. Ranged(t, c, h + 1, hi)
    <3>1. ASSUME NEW n \in 1 .. Len(t), t[n].ch = c PROVE h + 1 <= t[n].num /\ t[n].num < hi
      <4>1. n + 1 \in 1 .. Len(s) /\ n + 1 # 1 /\ t[n] = s[n + 1]
        BY <1>1, <1>4
      <4>2. h < t[n].num /\ t[n].num \in Nat
        BY <1>3, <2>2, <3>1, <4>1
      <4> QED BY <1>2, <2>1, <3>1, <4>1, <4>2
    <3>2. \A m, n \in 1 .. Len(t) : m < n /\ t[m].ch = c /\ t[n].ch = c => t[m].num < t[n].num
      BY <1>5 DEF Ranged
    <3>3. h + 1 <= hi
      BY <2>1
    <3> QED BY <3>1, <3>2, <3>3 DEF Ranged
  <2>4. ASSUME Dense(s, c, lo, hi) PROVE h = lo /\ Dense(t, c, lo + 1, hi)
    <3>1. PICK n \in 1 .. Len(s) : s[n].ch = c /\ s[n].num = lo
      <4>1. lo <= lo /\ lo < hi
        BY <2>1
      <4> QED BY <2>4, <4>1 DEF Dense
    <3>2. h = lo
      <4>1. CASE n = 1
        BY <3>1, <4>1 DEF h
      <4>2. CASE n # 1
        <5>1. h < lo
          BY <2>2, <3>1, <4>2
        <5> QED BY <2>1, <5>1
      <4> QED BY <4>1, <4>2
    <3>3. ASSUME NEW k \in Nat, lo + 1 <= k, k < hi
          PROVE  \E m \in 1 .. Len(t) : t[m].ch = c /\ t[m].num = k
      <4>1. PICK m \in 1 .. Len(s) : s[m].ch = c /\ s[m].num = k
        <5>1. lo <= k
          BY <3>3
        <5> QED BY <2>4, <3>3, <5>1 DEF Dense
      <4>2. m # 1
        <5>1. ASSUME m = 1 PROVE FALSE
          <6>1. k = h
            BY <4>1, <5>1 DEF h
          <6> QED BY <3>2, <3>3, <6>1
        <5> QED BY <5>1
      <4> QED BY <1>1, <4>1, <4>2
    <3> QED BY <3>2, <3>3 DEF Dense
  <2> QED BY <1>1, <2>1, <2>3, <2>4 DEF h
<1> QED BY <1>5, <1>7, <1>8 DEF t

\* A token that takes the next number keeps the order.
LEMMA AppendRanged ==
  ASSUME NEW s \in Seq(Token), NEW x \in Token, NEW c, NEW lo \in Nat, NEW hi \in Nat,
         Ranged(s, c, lo, hi)
  PROVE  /\ x.ch # c => Ranged(Append(s, x), c, lo, hi)
         /\ Dense(s, c, lo, hi) => Dense(Append(s, x), c, lo, hi)
         /\ x.ch = c /\ x.num = hi =>
              /\ Ranged(Append(s, x), c, lo, hi + 1)
              /\ Dense(s, c, lo, hi) => Dense(Append(s, x), c, lo, hi + 1)
<1> DEFINE t == Append(s, x)
<1>1. /\ Len(s) \in Nat /\ Len(t) = Len(s) + 1 /\ t[Len(s) + 1] = x
      /\ \A n \in 1 .. Len(s) : t[n] = s[n] /\ n \in 1 .. Len(t)
      /\ \A n \in 1 .. Len(t) : n = Len(s) + 1 \/ n \in 1 .. Len(s)
      /\ Len(s) + 1 \in 1 .. Len(t)
  BY AppendIs
<1>2. /\ lo <= hi
      /\ \A n \in 1 .. Len(s) : s[n].ch = c => lo <= s[n].num /\ s[n].num < hi
      /\ \A m, n \in 1 .. Len(s) : m < n /\ s[m].ch = c /\ s[n].ch = c => s[m].num < s[n].num
  BY DEF Ranged
<1>3. (\A n \in 1 .. Len(s) : s[n].num \in Nat) /\ x.num \in Nat
  <2>1. \A n \in 1 .. Len(s) : s[n] \in Token
    OBVIOUS
  <2> QED BY <2>1 DEF Token
<1> HIDE DEF t
<1>4. ASSUME x.ch # c PROVE Ranged(t, c, lo, hi)
  <2>1. \A n \in 1 .. Len(t) : t[n].ch = c => n \in 1 .. Len(s) /\ t[n] = s[n]
    BY <1>1, <1>4
  <2> QED BY <1>2, <2>1 DEF Ranged
<1>5. ASSUME Dense(s, c, lo, hi) PROVE Dense(t, c, lo, hi)
  BY <1>1, <1>5 DEF Dense
<1>6. ASSUME x.ch = c, x.num = hi PROVE Ranged(t, c, lo, hi + 1)
  <2>1. ASSUME NEW n \in 1 .. Len(t), t[n].ch = c PROVE lo <= t[n].num /\ t[n].num < hi + 1
    <3>1. CASE n = Len(s) + 1
      BY <1>1, <1>2, <1>6, <3>1
    <3>2. CASE n \in 1 .. Len(s)
      BY <1>1, <1>2, <1>3, <2>1, <3>2
    <3> QED BY <1>1, <3>1, <3>2
  <2>2. ASSUME NEW m \in 1 .. Len(t), NEW n \in 1 .. Len(t), m < n, t[m].ch = c, t[n].ch = c
        PROVE  t[m].num < t[n].num
    <3>1. m \in 1 .. Len(s)
      BY <1>1, <2>2
    <3>2. t[m] = s[m] /\ s[m].num < hi
      BY <1>1, <1>2, <2>2, <3>1
    <3>3. CASE n = Len(s) + 1
      BY <1>1, <1>6, <3>2, <3>3
    <3>4. CASE n \in 1 .. Len(s)
      BY <1>1, <1>2, <2>2, <3>1, <3>2, <3>4
    <3> QED BY <1>1, <3>3, <3>4
  <2> QED BY <1>2, <2>1, <2>2 DEF Ranged
<1>7. ASSUME x.ch = c, x.num = hi, Dense(s, c, lo, hi) PROVE Dense(t, c, lo, hi + 1)
  <2>1. ASSUME NEW k \in Nat, lo <= k, k < hi + 1
        PROVE  \E n \in 1 .. Len(t) : t[n].ch = c /\ t[n].num = k
    <3>1. CASE k = hi
      BY <1>1, <1>7, <3>1
    <3>2. CASE k # hi
      <4>1. k < hi
        BY <2>1, <3>2
      <4>2. PICK n \in 1 .. Len(s) : s[n].ch = c /\ s[n].num = k
        BY <1>7, <2>1, <4>1 DEF Dense
      <4> QED BY <1>1, <4>2
    <3> QED BY <3>1, <3>2
  <2> QED BY <2>1 DEF Dense
<1> QED BY <1>4, <1>5, <1>6, <1>7 DEF t

-----------------------------------------------------------------------------
(* Taking a token from a queue, and putting one into a queue.              *)

\* The queues after taking a token.
LEMMA PopIs ==
  ASSUME NEW T \in TokenQueues, NEW q \in Queues, T[q] # <<>>
  PROVE  /\ Pop(T, q) \in TokenQueues
         /\ Pop(T, q)[q] = Tail(T[q])
         /\ \A p \in Queues : p # q => Pop(T, q)[p] = T[p]
         /\ Head(T[q]) \in Token /\ T[q] \in Seq(Token)
BY TailIs DEF Pop, TokenQueues

\* The queues after putting one.
LEMMA PutIs ==
  ASSUME NEW T \in TokenQueues, NEW q \in Queues, NEW x \in Token
  PROVE  /\ Put(T, q, x) \in TokenQueues
         /\ Put(T, q, x)[q] = Append(T[q], x)
         /\ \A p \in Queues : p # q => Put(T, q, x)[p] = T[p]
         /\ T[q] \in Seq(Token)
BY AppendIs DEF Put, TokenQueues

\* Where the tokens of the new queues come from.
LEMMA PopFrom ==
  ASSUME NEW T \in TokenQueues, NEW q \in Queues, T[q] # <<>>,
         NEW p \in Queues, NEW n \in 1 .. Len(Pop(T, q)[p])
  PROVE  \E m \in 1 .. Len(T[p]) :
           /\ Pop(T, q)[p][n] = T[p][m]
           /\ m = IF p = q THEN n + 1 ELSE n
<1>1. CASE p = q
  <2>1. n \in 1 .. Len(Tail(T[q])) /\ T[q] \in Seq(Token)
    BY <1>1, PopIs
  <2>2. Tail(T[q])[n] = T[q][n + 1] /\ n + 1 \in 1 .. Len(T[q])
    BY <2>1, TailIs
  <2> QED BY <1>1, <2>2, PopIs
<1>2. CASE p # q
  <2>1. Pop(T, q)[p] = T[p]
    BY <1>2, PopIs
  <2> QED BY <1>2, <2>1
<1> QED BY <1>1, <1>2

\* Every token but the one taken is still there.
LEMMA PopKeeps ==
  ASSUME NEW T \in TokenQueues, NEW q \in Queues, T[q] # <<>>,
         NEW p \in Queues, NEW n \in 1 .. Len(T[p])
  PROVE  \/ p = q /\ n = 1 /\ T[p][n] = Head(T[q])
         \/ \E m \in 1 .. Len(Pop(T, q)[p]) : Pop(T, q)[p][m] = T[p][n]
<1>1. CASE p = q
  <2>1. T[q] \in Seq(Token) /\ Pop(T, q)[q] = Tail(T[q])
    BY PopIs
  <2>2. n = 1 \/ (n - 1 \in 1 .. Len(Tail(T[q])) /\ Tail(T[q])[n - 1] = T[q][n])
    BY <1>1, <2>1, TailIs
  <2>3. Head(T[q]) = T[q][1]
    BY <2>1, TailIs
  <2> QED BY <1>1, <2>1, <2>2, <2>3
<1>2. CASE p # q
  <2>1. Pop(T, q)[p] = T[p]
    BY <1>2, PopIs
  <2> QED BY <1>2, <2>1
<1> QED BY <1>1, <1>2

\* Every token was there before, or is the one put.
LEMMA PutFrom ==
  ASSUME NEW T \in TokenQueues, NEW q \in Queues, NEW x \in Token,
         NEW p \in Queues, NEW n \in 1 .. Len(Put(T, q, x)[p])
  PROVE  \/ p = q /\ n = Len(T[q]) + 1 /\ Put(T, q, x)[p][n] = x
         \/ n \in 1 .. Len(T[p]) /\ Put(T, q, x)[p][n] = T[p][n]
<1>1. CASE p = q
  <2>1. T[q] \in Seq(Token) /\ Put(T, q, x)[q] = Append(T[q], x)
    BY PutIs
  <2>2. \/ n = Len(T[q]) + 1 /\ Append(T[q], x)[n] = x
        \/ n \in 1 .. Len(T[q]) /\ Append(T[q], x)[n] = T[q][n]
    BY <1>1, <2>1, AppendIs
  <2> QED BY <1>1, <2>1, <2>2
<1>2. CASE p # q
  <2>1. Put(T, q, x)[p] = T[p]
    BY <1>2, PutIs
  <2> QED BY <1>2, <2>1
<1> QED BY <1>1, <1>2

\* Every token that was there still is, and so is the one put.
LEMMA PutKeeps ==
  ASSUME NEW T \in TokenQueues, NEW q \in Queues, NEW x \in Token
  PROVE  /\ \A p \in Queues : \A n \in 1 .. Len(T[p]) :
              n \in 1 .. Len(Put(T, q, x)[p]) /\ Put(T, q, x)[p][n] = T[p][n]
         /\ \E n \in 1 .. Len(Put(T, q, x)[q]) : Put(T, q, x)[q][n] = x
<1>1. ASSUME NEW p \in Queues, NEW n \in 1 .. Len(T[p])
      PROVE  n \in 1 .. Len(Put(T, q, x)[p]) /\ Put(T, q, x)[p][n] = T[p][n]
  <2>1. CASE p = q
    <3>1. T[q] \in Seq(Token) /\ Put(T, q, x)[q] = Append(T[q], x)
      BY PutIs
    <3>2. Append(T[q], x)[n] = T[q][n] /\ n \in 1 .. Len(Append(T[q], x))
      BY <2>1, <3>1, AppendIs
    <3> QED BY <2>1, <3>1, <3>2
  <2>2. CASE p # q
    BY <2>2, PutIs
  <2> QED BY <2>1, <2>2
<1>2. \E n \in 1 .. Len(Put(T, q, x)[q]) : Put(T, q, x)[q][n] = x
  <2>1. T[q] \in Seq(Token) /\ Put(T, q, x)[q] = Append(T[q], x)
    BY PutIs
  <2>2. Append(T[q], x)[Len(T[q]) + 1] = x /\ Len(T[q]) + 1 \in 1 .. Len(Append(T[q], x))
    BY <2>1, AppendIs
  <2> QED BY <2>1, <2>2
<1> QED BY <1>1, <1>2

\* The elements of the tokens that are left, and of the one that is taken.
LEMMA PopHeld ==
  ASSUME NEW T \in TokenQueues, NEW q \in Queues, T[q] # <<>>, NEW C
  PROVE  /\ Held(Pop(T, q), C) \subseteq Held(T, C)
         /\ Held(T, C) \subseteq Held(Pop(T, q), C) \cup Head(T[q]).vals
         /\ Head(T[q]).ch[1] \notin C => Held(Pop(T, q), C) = Held(T, C)
         /\ Head(T[q]).ch[1] \in C => Head(T[q]).vals \subseteq Held(T, C)
<1> DEFINE T1 == Pop(T, q)
           h == Head(T[q])
<1>1. ASSUME NEW v \in Held(T1, C) PROVE v \in Held(T, C)
  <2>1. PICK p \in Queues : \E n \in 1 .. Len(T1[p]) : T1[p][n].ch[1] \in C /\ v \in T1[p][n].vals
    BY DEF Held
  <2>2. PICK n \in 1 .. Len(T1[p]) : T1[p][n].ch[1] \in C /\ v \in T1[p][n].vals
    BY <2>1
  <2>3. PICK m \in 1 .. Len(T[p]) : T1[p][n] = T[p][m]
    BY PopFrom
  <2> QED BY <2>2, <2>3 DEF Held
<1>2. ASSUME NEW v \in Held(T, C) PROVE v \in Held(T1, C) \/ (v \in h.vals /\ h.ch[1] \in C)
  <2>1. PICK p \in Queues : \E n \in 1 .. Len(T[p]) : T[p][n].ch[1] \in C /\ v \in T[p][n].vals
    BY DEF Held
  <2>2. PICK n \in 1 .. Len(T[p]) : T[p][n].ch[1] \in C /\ v \in T[p][n].vals
    BY <2>1
  <2>3. CASE T[p][n] = h
    BY <2>2, <2>3
  <2>4. CASE \E m \in 1 .. Len(T1[p]) : T1[p][m] = T[p][n]
    BY <2>2, <2>4 DEF Held
  <2> QED BY <2>3, <2>4, PopKeeps
<1>3. h.ch[1] \in C => h.vals \subseteq Held(T, C)
  <2>1. T[q] \in Seq(Token) /\ h \in Token
    BY PopIs
  <2>2. h = T[q][1] /\ Len(T[q]) \in Nat \ {0}
    BY <2>1, TailIs
  <2>3. 1 \in 1 .. Len(T[q]) /\ h.vals \subseteq Vals
    BY <2>1, <2>2 DEF Token
  <2> HIDE DEF h
  <2> QED BY <2>2, <2>3 DEF Held
<1> HIDE DEF T1, h
<1>4. /\ Held(T1, C) \subseteq Held(T, C)
      /\ Held(T, C) \subseteq Held(T1, C) \cup h.vals
      /\ h.ch[1] \notin C => Held(T1, C) = Held(T, C)
  BY <1>1, <1>2
<1> QED BY <1>3, <1>4 DEF T1, h

\* The elements held in channels, with one token more.
LEMMA PutHeld ==
  ASSUME NEW T \in TokenQueues, NEW q \in Queues, NEW x \in Token, NEW C
  PROVE  /\ x.ch[1] \in C => Held(Put(T, q, x), C) = Held(T, C) \cup x.vals
         /\ x.ch[1] \notin C => Held(Put(T, q, x), C) = Held(T, C)
<1> DEFINE T1 == Put(T, q, x)
<1>1. ASSUME NEW v \in Held(T1, C) PROVE v \in Held(T, C) \/ (v \in x.vals /\ x.ch[1] \in C)
  <2>1. PICK p \in Queues : \E n \in 1 .. Len(T1[p]) : T1[p][n].ch[1] \in C /\ v \in T1[p][n].vals
    BY DEF Held
  <2>2. PICK n \in 1 .. Len(T1[p]) : T1[p][n].ch[1] \in C /\ v \in T1[p][n].vals
    BY <2>1
  <2>3. CASE T1[p][n] = x
    BY <2>2, <2>3
  <2>4. CASE n \in 1 .. Len(T[p]) /\ T1[p][n] = T[p][n]
    BY <2>2, <2>4 DEF Held
  <2> QED BY <2>3, <2>4, PutFrom
<1>2. ASSUME NEW v \in Held(T, C) PROVE v \in Held(T1, C)
  <2>1. PICK p \in Queues : \E n \in 1 .. Len(T[p]) : T[p][n].ch[1] \in C /\ v \in T[p][n].vals
    BY DEF Held
  <2>2. PICK n \in 1 .. Len(T[p]) : T[p][n].ch[1] \in C /\ v \in T[p][n].vals
    BY <2>1
  <2>3. n \in 1 .. Len(T1[p]) /\ T1[p][n] = T[p][n]
    BY PutKeeps
  <2> QED BY <2>2, <2>3 DEF Held
<1>3. ASSUME x.ch[1] \in C, NEW v \in x.vals PROVE v \in Held(T1, C)
  <2>1. PICK n \in 1 .. Len(T1[q]) : T1[q][n] = x
    BY PutKeeps
  <2>2. v \in Vals
    BY <1>3 DEF Token
  <2> QED BY <1>3, <2>1, <2>2 DEF Held
<1> HIDE DEF T1
<1>4. /\ x.ch[1] \in C => Held(T1, C) = Held(T, C) \cup x.vals
      /\ x.ch[1] \notin C => Held(T1, C) = Held(T, C)
  BY <1>1, <1>2, <1>3
<1> QED BY <1>4 DEF T1

\* Tokens stay apart when one is taken, whose elements are then in none.
LEMMA PopApart ==
  ASSUME NEW T \in TokenQueues, NEW q \in Queues, T[q] # <<>>, Apart(T), NEW C
  PROVE  /\ Apart(Pop(T, q))
         /\ \A v \in Head(T[q]).vals : v \notin Held(Pop(T, q), C)
<1> DEFINE T1 == Pop(T, q)
<1>1. T[q] \in Seq(Token)
  BY PopIs
<1>2. Head(T[q]) = T[q][1] /\ 1 \in 1 .. Len(T[q])
  BY <1>1, TailIs
<1>3. ASSUME NEW p1 \in Queues, NEW p2 \in Queues, NEW n1 \in 1 .. Len(T1[p1]),
             NEW n2 \in 1 .. Len(T1[p2]), p1 # p2 \/ n1 # n2, NEW v \in T1[p1][n1].vals
      PROVE  v \notin T1[p2][n2].vals
  <2>1. PICK m1 \in 1 .. Len(T[p1]) : T1[p1][n1] = T[p1][m1] /\ m1 = IF p1 = q THEN n1 + 1 ELSE n1
    BY PopFrom
  <2>2. PICK m2 \in 1 .. Len(T[p2]) : T1[p2][n2] = T[p2][m2] /\ m2 = IF p2 = q THEN n2 + 1 ELSE n2
    BY PopFrom
  <2>3. p1 # p2 \/ m1 # m2
    BY <1>3, <2>1, <2>2
  <2> QED BY <1>3, <2>1, <2>2, <2>3 DEF Apart
<1>4. ASSUME NEW v \in Head(T[q]).vals, v \in Held(T1, C) PROVE FALSE
  <2>1. PICK p \in Queues : \E n \in 1 .. Len(T1[p]) : T1[p][n].ch[1] \in C /\ v \in T1[p][n].vals
    BY <1>4 DEF Held
  <2>2. PICK n \in 1 .. Len(T1[p]) : T1[p][n].ch[1] \in C /\ v \in T1[p][n].vals
    BY <2>1
  <2>3. PICK m \in 1 .. Len(T[p]) : T1[p][n] = T[p][m] /\ m = IF p = q THEN n + 1 ELSE n
    BY PopFrom
  <2>4. p # q \/ m # 1
    BY <2>3
  <2> QED BY <1>2, <1>4, <2>2, <2>3, <2>4 DEF Apart
<1>5. Apart(T1)
  <2> HIDE DEF T1
  <2> QED BY <1>3 DEF Apart
<1> QED BY <1>4, <1>5

\* Tokens stay apart when one with elements of no other is put.
LEMMA PutApart ==
  ASSUME NEW T \in TokenQueues, NEW q \in Queues, NEW x \in Token, Apart(T),
         \A v \in x.vals : v \notin Held(T, Classes)
  PROVE  Apart(Put(T, q, x))
<1> DEFINE T1 == Put(T, q, x)
<1>1. ASSUME NEW p \in Queues, NEW n \in 1 .. Len(T[p]), NEW v \in T[p][n].vals
      PROVE  v \notin x.vals
  <2>1. T[p] \in Seq(Token)
    BY DEF TokenQueues
  <2>2. T[p][n] \in Token
    BY <2>1
  <2>3. T[p][n].ch[1] \in Classes /\ v \in Vals
    BY <1>1, <2>2 DEF Token
  <2>4. v \in Held(T, Classes)
    BY <1>1, <2>3 DEF Held
  <2> QED BY <2>4
<1>2. ASSUME NEW p1 \in Queues, NEW p2 \in Queues, NEW n1 \in 1 .. Len(T1[p1]),
             NEW n2 \in 1 .. Len(T1[p2]), p1 # p2 \/ n1 # n2, NEW v \in T1[p1][n1].vals
      PROVE  v \notin T1[p2][n2].vals
  <2>1. \/ p1 = q /\ n1 = Len(T[q]) + 1 /\ T1[p1][n1] = x
        \/ n1 \in 1 .. Len(T[p1]) /\ T1[p1][n1] = T[p1][n1]
    BY PutFrom
  <2>2. \/ p2 = q /\ n2 = Len(T[q]) + 1 /\ T1[p2][n2] = x
        \/ n2 \in 1 .. Len(T[p2]) /\ T1[p2][n2] = T[p2][n2]
    BY PutFrom
  <2> HIDE DEF T1
  <2> QED BY <1>1, <1>2, <2>1, <2>2 DEF Apart
<1> QED
  <2> HIDE DEF T1
  <2>1. Apart(T1)
    BY <1>2 DEF Apart
  <2> QED BY <2>1 DEF T1

\* What that does to the range of a channel c in a queue p.
LEMMA PopRanged ==
  ASSUME NEW T \in TokenQueues, NEW q \in Queues, T[q] # <<>>,
         NEW p \in Queues, NEW c, NEW lo \in Nat, NEW hi \in Nat, Ranged(T[p], c, lo, hi)
  PROVE  /\ Ranged(Pop(T, q)[p], c, lo, hi)
         /\ (p # q \/ Head(T[q]).ch # c) /\ Dense(T[p], c, lo, hi) => Dense(Pop(T, q)[p], c, lo, hi)
         /\ p = q /\ Head(T[q]).ch = c =>
              /\ lo <= Head(T[q]).num /\ Head(T[q]).num < hi
              /\ Ranged(Pop(T, q)[p], c, Head(T[q]).num + 1, hi)
              /\ Dense(T[p], c, lo, hi) => Head(T[q]).num = lo /\ Dense(Pop(T, q)[p], c, lo + 1, hi)
<1>1. T[q] \in Seq(Token)
  BY PopIs
<1>2. CASE p = q
  <2>1. Pop(T, q)[p] = Tail(T[q])
    BY <1>2, PopIs
  <2>2. Ranged(T[q], c, lo, hi)
    BY <1>2
  <2>3. /\ Ranged(Tail(T[q]), c, lo, hi)
        /\ Head(T[q]).ch # c /\ Dense(T[q], c, lo, hi) => Dense(Tail(T[q]), c, lo, hi)
        /\ Head(T[q]).ch = c =>
             /\ lo <= Head(T[q]).num /\ Head(T[q]).num < hi
             /\ Ranged(Tail(T[q]), c, Head(T[q]).num + 1, hi)
             /\ Dense(T[q], c, lo, hi) => Head(T[q]).num = lo /\ Dense(Tail(T[q]), c, lo + 1, hi)
    BY <1>1, <2>2, TailRanged
  <2> QED BY <1>2, <2>1, <2>3
<1>3. CASE p # q
  <2>1. Pop(T, q)[p] = T[p]
    BY <1>3, PopIs
  <2> QED BY <1>3, <2>1
<1> QED BY <1>2, <1>3

\* Putting a token with the next number keeps the order in every queue.
LEMMA PutRanged ==
  ASSUME NEW T \in TokenQueues, NEW q \in Queues, NEW x \in Token,
         NEW p \in Queues, NEW c, NEW lo \in Nat, NEW hi \in Nat, Ranged(T[p], c, lo, hi)
  PROVE  /\ p # q \/ x.ch # c => Ranged(Put(T, q, x)[p], c, lo, hi)
         /\ Dense(T[p], c, lo, hi) => Dense(Put(T, q, x)[p], c, lo, hi)
         /\ p = q /\ x.ch = c /\ x.num = hi =>
              /\ Ranged(Put(T, q, x)[p], c, lo, hi + 1)
              /\ Dense(T[p], c, lo, hi) => Dense(Put(T, q, x)[p], c, lo, hi + 1)
<1>1. T[q] \in Seq(Token)
  BY PutIs
<1>2. CASE p = q
  <2>1. Put(T, q, x)[p] = Append(T[q], x)
    BY <1>2, PutIs
  <2>2. Ranged(T[q], c, lo, hi)
    BY <1>2
  <2>3. /\ x.ch # c => Ranged(Append(T[q], x), c, lo, hi)
        /\ Dense(T[q], c, lo, hi) => Dense(Append(T[q], x), c, lo, hi)
        /\ x.ch = c /\ x.num = hi =>
             /\ Ranged(Append(T[q], x), c, lo, hi + 1)
             /\ Dense(T[q], c, lo, hi) => Dense(Append(T[q], x), c, lo, hi + 1)
    BY <1>1, <2>2, AppendRanged
  <2> QED BY <1>2, <2>1, <2>3
<1>3. CASE p # q
  <2>1. Put(T, q, x)[p] = T[p]
    BY <1>3, PutIs
  <2> QED BY <1>3, <2>1
<1> QED BY <1>2, <1>3

-----------------------------------------------------------------------------
(* A queue of the model and its tokens: they are as many, and each pair is *)
(* in the relation RR.                                                     *)

Paired(s, t, RR) ==
  Len(s) = Len(t) /\ \A n \in 1 .. Len(s) : <<s[n], t[n]>> \in RR

\* A queue and its tokens, without their heads.
LEMMA PairedHead ==
  ASSUME NEW X, NEW s \in Seq(X), NEW t \in Seq(Token), NEW RR, Paired(s, t, RR), s # <<>>
  PROVE  /\ t # <<>> /\ <<Head(s), Head(t)>> \in RR
         /\ Tail(s) \in Seq(X) /\ Head(s) \in X
         /\ Paired(Tail(s), Tail(t), RR)
<1>1. Len(s) = Len(t) /\ \A n \in 1 .. Len(s) : <<s[n], t[n]>> \in RR
  BY DEF Paired
<1>2. Len(s) \in Nat \ {0} /\ Head(s) = s[1] /\ Tail(s) \in Seq(X) /\ Head(s) \in X
  BY TailIs
<1>3. t # <<>>
  BY <1>1, <1>2
<1>4. Head(t) = t[1]
  BY <1>3, TailIs
<1>5. <<Head(s), Head(t)>> \in RR
  <2>1. 1 \in 1 .. Len(s)
    BY <1>2
  <2> QED BY <1>1, <1>2, <1>4, <2>1
<1>6. Len(Tail(s)) = Len(Tail(t))
  BY <1>1, <1>3, TailIs
<1>7. ASSUME NEW n \in 1 .. Len(Tail(s)) PROVE <<Tail(s)[n], Tail(t)[n]>> \in RR
  <2>1. Tail(s)[n] = s[n + 1] /\ n + 1 \in 1 .. Len(s)
    BY TailIs
  <2>2. n \in 1 .. Len(Tail(t))
    BY <1>6
  <2>3. Tail(t)[n] = t[n + 1]
    BY <1>3, <2>2, TailIs
  <2> QED BY <1>1, <2>1, <2>3
<1> QED BY <1>2, <1>3, <1>5, <1>6, <1>7 DEF Paired

\* ... and with one of each more.
LEMMA PairedAppend ==
  ASSUME NEW X, NEW s \in Seq(X), NEW t \in Seq(Token), NEW RR, Paired(s, t, RR),
         NEW x \in X, NEW y \in Token, <<x, y>> \in RR
  PROVE  /\ Paired(Append(s, x), Append(t, y), RR)
         /\ Append(s, x) \in Seq(X) /\ s \o <<x>> = Append(s, x)
<1>1. Len(s) = Len(t) /\ \A n \in 1 .. Len(s) : <<s[n], t[n]>> \in RR
  BY DEF Paired
<1>2. /\ Append(s, x) \in Seq(X) /\ s \o <<x>> = Append(s, x)
      /\ Len(Append(s, x)) = Len(s) + 1 /\ Append(s, x)[Len(s) + 1] = x
      /\ \A n \in 1 .. Len(s) : Append(s, x)[n] = s[n]
      /\ \A n \in 1 .. Len(Append(s, x)) : n = Len(s) + 1 \/ n \in 1 .. Len(s)
  BY AppendIs
<1>3. /\ Len(Append(t, y)) = Len(t) + 1 /\ Append(t, y)[Len(t) + 1] = y
      /\ \A n \in 1 .. Len(t) : Append(t, y)[n] = t[n]
  BY AppendIs
<1>4. Len(Append(s, x)) = Len(Append(t, y))
  BY <1>1, <1>2, <1>3
<1>5. ASSUME NEW n \in 1 .. Len(Append(s, x)) PROVE <<Append(s, x)[n], Append(t, y)[n]>> \in RR
  <2>1. CASE n = Len(s) + 1
    <3>1. Append(s, x)[n] = x /\ Append(t, y)[n] = y
      BY <1>1, <1>2, <1>3, <2>1
    <3> QED BY <3>1
  <2>2. CASE n \in 1 .. Len(s)
    <3>1. Append(s, x)[n] = s[n] /\ Append(t, y)[n] = t[n]
      BY <1>1, <1>2, <1>3, <2>2
    <3> QED BY <1>1, <2>2, <3>1
  <2> QED BY <1>2, <2>1, <2>2
<1> QED BY <1>2, <1>4, <1>5 DEF Paired

-----------------------------------------------------------------------------
(* Packets and entries, and the tokens they are looked at as               *)

Ops == {"WRITE_ONLY", "REPL", "READ_REQ", "READ_RES_ONLY", "ACK"}
ItemRec == [src : Eps, off : Int, val : Vals]
ReplHeader == [flag : BOOLEAN, cnt : Int, id : Int]
Packet ==
  [op : Ops, smac : Eps, dqp : {"req", "dst", "src"} \X Int, psn : Nat, ackreq : BOOLEAN,
   items : Seq(ItemRec), addr : Int, val : Vals \cup {<<>>}, nak : BOOLEAN, msn : Int,
   repl : ReplHeader]
Flags ==
  {"UNIT_DST_ADDR_SET", "UNIT_REQ_PSN_SET", "UNIT_REQ_MSN_SET", "UNIT_REMAIN_ACC", "UNIT_REMAIN_SET",
   "REQ_EPSN_ACC", "REQ_DST_ADDR_SET", "REQ_MSN_INC", "WRITE_PSN_TO_UNIT_SET",
   "REQ_UNACK_UNIT_SET", "ITEM_WRITE_OFFSET_SET"}
BridgeEntry ==
  [kind : {"bridge"}, rx : {"request", "repl_only", "read_response", "write_ack"},
   flag : SUBSET Flags, dst : Eps, unit : Int, item : Int, cnt : Int, pkt : Packet]
CopyEntry == [kind : {"mirror", "bypass"}, pkt : Packet]
Entry == BridgeEntry \cup CopyEntry

\* Items a .. a + c - 1 of a request, and their elements.
Source(v) == (v[1] + v[3]) % NEp
Cut(d, j, a, c) == [n \in 1 .. c |-> Item(d, j, a + n - 1)]
IsCut(s, d, j, a, c) == Len(s) = c /\ \A n \in 1 .. c : s[n] = Item(d, j, a + n - 1)
CutVals(d, j, a, c) == {v \in Vals : v[1] = d /\ v[2] = j /\ a <= v[3] /\ v[3] < a + c}

\* A request is one packet with all its items; S is the session.
ReqPkt(S, d, k) ==
  [op |-> "WRITE_ONLY", smac |-> d, dqp |-> ReqQp, psn |-> k, ackreq |-> TRUE,
   items |-> Cut(d, k, 0, NItem), addr |-> (S * NPost + k) * NItem,
   val |-> <<>>, nak |-> FALSE, msn |-> 0, repl |-> [flag |-> FALSE, cnt |-> 0, id |-> 0]]

IsRequest(S, e, p, t) ==
  /\ t.ch = <<"req", e>> /\ t.num \in Posts /\ t.vals = CutVals(e, t.num, 0, NItem)
  /\ p = ReqPkt(S, e, t.num)
IsResponse(e, p, t) ==
  \E v \in Vals :
    /\ t.ch = <<"res", v[1]>> /\ t.vals = {v} /\ Source(v) = e
    /\ p.op = "READ_RES_ONLY" /\ p.smac = e /\ p.dqp = SrcQp(v[1]) /\ p.psn = t.num
    /\ p.val = v /\ ~p.nak
IsReadNak(e, p, t) ==
  \E d \in Eps :
    /\ t.ch = <<"rnak", d>> /\ t.vals = {}
    /\ p.op = "ACK" /\ p.smac = e /\ p.dqp = SrcQp(d)
IsWriteAnswer(e, p, t) ==
  /\ t.ch = (IF p.nak THEN <<"wnak", e>> ELSE <<"ack", e>>) /\ t.vals = {}
  /\ p.op = "ACK" /\ p.smac = e /\ p.dqp = DstQp
IsReplica(d, p, t) ==
  /\ t.ch = <<"loop", d>>
  /\ p.op = "REPL" /\ p.smac = d /\ ~p.nak
  /\ \E j \in Posts, a \in Places : \E c \in 1 .. NItem - a :
       /\ IsCut(p.items, d, j, a, c) /\ t.vals = CutVals(d, j, a, c)
       /\ p.repl = [flag |-> FALSE, cnt |-> c, id |-> ItemNumber(<<d, j, a>>)]
IsQueuedRequest(S, d, b, t) ==
  /\ IsRequest(S, d, b.pkt, t)
  /\ b \in BridgeEntry /\ b.rx = "request" /\ b.flag = RequestFlags("WRITE_ONLY") /\ b.dst = d
  /\ b.unit = UnitIdFromDst(d, t.num) /\ b.item = ItemIdFromDst(d, t.num) /\ b.cnt = NItem
IsCopy(d, b, t) ==
  b \in CopyEntry /\ CopyOf(b) \in Packet /\ IsReplica(d, CopyOf(b), t)
IsRead(e, b, t) ==
  \E v \in Vals :
    /\ t.ch = <<"read", v[1]>> /\ t.vals = {v} /\ Source(v) = e
    /\ b \in BridgeEntry /\ b.rx = "repl_only" /\ b.dst = v[1] /\ b.item = ItemNumber(v)
    /\ Head(b.pkt.items) = Item(v[1], v[2], v[3]) /\ b.pkt.dqp = SrcQp(v[1])
    /\ b.pkt.psn = t.num /\ ~b.pkt.nak
IsWrite(e, b, t) ==
  \E v \in Vals :
    /\ v[1] = e /\ t.ch = <<"write", e>> /\ t.vals = {v}
    /\ b \in BridgeEntry /\ b.rx = "read_response" /\ b.dst = e
    /\ b.unit = UnitIdFromDst(e, v[2]) /\ b.item = ItemNumber(v)
    /\ b.pkt.dqp = DstQp /\ b.pkt.val = v /\ b.pkt.psn = t.num /\ ~b.pkt.nak
IsAck(e, b, t) ==
  /\ t.ch = <<"ack", e>> /\ t.vals = {}
  /\ b \in BridgeEntry /\ b.rx = "write_ack" /\ b.dst = e

\* What may be on the wire into a port, and what waits for its egress.
WireRel(S, port) ==
  {r \in Packet \X Token :
     \/ \E e \in Eps :
          /\ port = Nic(e)
          /\ \/ IsRequest(S, e, r[1], r[2]) \/ IsResponse(e, r[1], r[2])
             \/ IsReadNak(e, r[1], r[2]) \/ IsWriteAnswer(e, r[1], r[2])
     \/ \E d \in Eps : port = Lpbk(d) /\ IsReplica(d, r[1], r[2])}
TmRel(S, port) ==
  {r \in Entry \X Token :
     \/ \E d \in Eps :
          /\ port = Lpbk(d)
          /\ IsQueuedRequest(S, d, r[1], r[2]) \/ IsCopy(d, r[1], r[2])
     \/ \E e \in Eps :
          /\ port = Nic(e)
          /\ IsRead(e, r[1], r[2]) \/ IsWrite(e, r[1], r[2]) \/ IsAck(e, r[1], r[2])}

Shapes(w, m, S, T) ==
  /\ w \in [Ports -> Seq(Packet)] /\ m \in [Ports -> Seq(Entry)] /\ T \in TokenQueues
  /\ \A port \in Ports :
       /\ Paired(w[port], T[WireOf(port)], WireRel(S, port))
       /\ Paired(m[port], T[TmOf(port)], TmRel(S, port))

\* Wires and traffic manager queues of different ports are different queues.
LEMMA QueueNames ==
  /\ \A port \in Ports : WireOf(port) \in Queues /\ TmOf(port) \in Queues
  /\ \A p, r \in Ports : /\ WireOf(p) # TmOf(r)
                         /\ WireOf(p) = WireOf(r) <=> p = r
                         /\ TmOf(p) = TmOf(r) <=> p = r
  /\ \A e \in Eps : Nic(e) \in Ports /\ Lpbk(e) \in Ports
  /\ \A e, d \in Eps : /\ Nic(e) # Lpbk(d)
                       /\ Nic(e) = Nic(d) <=> e = d
                       /\ Lpbk(e) = Lpbk(d) <=> e = d
  /\ \A port \in Ports : \E e \in Eps : port = Nic(e) \/ port = Lpbk(e)
BY DEF WireOf, TmOf, Queues, Ports, NicPorts, LpbkPorts, Nic, Lpbk

\* The head of a wire leaves together with its token.
LEMMA PopWire ==
  ASSUME NEW w, NEW m, NEW S, NEW T, Shapes(w, m, S, T), NEW port \in Ports, w[port] # <<>>
  PROVE  /\ Shapes([w EXCEPT ![port] = Tail(@)], m, S, Pop(T, WireOf(port)))
         /\ T[WireOf(port)] # <<>>
         /\ Head(w[port]) \in Packet /\ Head(T[WireOf(port)]) \in Token
         /\ <<Head(w[port]), Head(T[WireOf(port)])>> \in WireRel(S, port)
<1> DEFINE q == WireOf(port)
           w1 == [w EXCEPT ![port] = Tail(@)]
           T1 == Pop(T, q)
<1>1. /\ w \in [Ports -> Seq(Packet)] /\ m \in [Ports -> Seq(Entry)] /\ T \in TokenQueues
      /\ \A p \in Ports : Paired(w[p], T[WireOf(p)], WireRel(S, p)) /\ Paired(m[p], T[TmOf(p)], TmRel(S, p))
  BY DEF Shapes
<1>2. q \in Queues /\ T[q] \in Seq(Token) /\ w[port] \in Seq(Packet)
  BY <1>1, QueueNames DEF TokenQueues
<1>3. /\ T[q] # <<>> /\ <<Head(w[port]), Head(T[q])>> \in WireRel(S, port)
      /\ Tail(w[port]) \in Seq(Packet) /\ Head(w[port]) \in Packet
      /\ Paired(Tail(w[port]), Tail(T[q]), WireRel(S, port))
  BY <1>1, <1>2, PairedHead
<1> HIDE DEF q
<1>4. T1 \in TokenQueues /\ T1[q] = Tail(T[q]) /\ Head(T[q]) \in Token
      /\ \A p \in Queues : p # q => T1[p] = T[p]
  BY <1>1, <1>2, <1>3, PopIs
<1>5. w1 \in [Ports -> Seq(Packet)] /\ w1[port] = Tail(w[port]) /\ \A p \in Ports : p # port => w1[p] = w[p]
  BY <1>1, <1>3
<1> HIDE DEF w1, T1
<1>6. ASSUME NEW p \in Ports
      PROVE  Paired(w1[p], T1[WireOf(p)], WireRel(S, p)) /\ Paired(m[p], T1[TmOf(p)], TmRel(S, p))
  <2>1. T1[TmOf(p)] = T[TmOf(p)]
    BY <1>4, QueueNames DEF q
  <2>2. CASE p = port
    BY <1>1, <1>3, <1>4, <1>5, <2>1, <2>2 DEF q
  <2>3. CASE p # port
    <3>1. T1[WireOf(p)] = T[WireOf(p)]
      BY <1>4, <2>3, QueueNames DEF q
    <3> QED BY <1>1, <1>5, <2>1, <2>3, <3>1
  <2> QED BY <2>2, <2>3
<1>7. Shapes(w1, m, S, T1)
  BY <1>1, <1>4, <1>5, <1>6 DEF Shapes
<1> QED BY <1>3, <1>4, <1>7 DEF q, w1, T1

\* The same for a queue of the traffic manager.
LEMMA PopTm ==
  ASSUME NEW w, NEW m, NEW S, NEW T, Shapes(w, m, S, T), NEW port \in Ports, m[port] # <<>>
  PROVE  /\ Shapes(w, [m EXCEPT ![port] = Tail(@)], S, Pop(T, TmOf(port)))
         /\ T[TmOf(port)] # <<>>
         /\ Head(m[port]) \in Entry /\ Head(T[TmOf(port)]) \in Token
         /\ <<Head(m[port]), Head(T[TmOf(port)])>> \in TmRel(S, port)
<1> DEFINE q == TmOf(port)
           m1 == [m EXCEPT ![port] = Tail(@)]
           T1 == Pop(T, q)
<1>1. /\ w \in [Ports -> Seq(Packet)] /\ m \in [Ports -> Seq(Entry)] /\ T \in TokenQueues
      /\ \A p \in Ports : Paired(w[p], T[WireOf(p)], WireRel(S, p)) /\ Paired(m[p], T[TmOf(p)], TmRel(S, p))
  BY DEF Shapes
<1>2. q \in Queues /\ T[q] \in Seq(Token) /\ m[port] \in Seq(Entry)
  BY <1>1, QueueNames DEF TokenQueues
<1>3. /\ T[q] # <<>> /\ <<Head(m[port]), Head(T[q])>> \in TmRel(S, port)
      /\ Tail(m[port]) \in Seq(Entry) /\ Head(m[port]) \in Entry
      /\ Paired(Tail(m[port]), Tail(T[q]), TmRel(S, port))
  BY <1>1, <1>2, PairedHead
<1> HIDE DEF q
<1>4. T1 \in TokenQueues /\ T1[q] = Tail(T[q]) /\ Head(T[q]) \in Token
      /\ \A p \in Queues : p # q => T1[p] = T[p]
  BY <1>1, <1>2, <1>3, PopIs
<1>5. m1 \in [Ports -> Seq(Entry)] /\ m1[port] = Tail(m[port]) /\ \A p \in Ports : p # port => m1[p] = m[p]
  BY <1>1, <1>3
<1> HIDE DEF m1, T1
<1>6. ASSUME NEW p \in Ports
      PROVE  Paired(w[p], T1[WireOf(p)], WireRel(S, p)) /\ Paired(m1[p], T1[TmOf(p)], TmRel(S, p))
  <2>1. T1[WireOf(p)] = T[WireOf(p)]
    BY <1>4, QueueNames DEF q
  <2>2. CASE p = port
    BY <1>1, <1>3, <1>4, <1>5, <2>1, <2>2 DEF q
  <2>3. CASE p # port
    <3>1. T1[TmOf(p)] = T[TmOf(p)]
      BY <1>4, <2>3, QueueNames DEF q
    <3> QED BY <1>1, <1>5, <2>1, <2>3, <3>1
  <2> QED BY <2>2, <2>3
<1>7. Shapes(w, m1, S, T1)
  BY <1>1, <1>4, <1>5, <1>6 DEF Shapes
<1> QED BY <1>3, <1>4, <1>7 DEF q, m1, T1

\* A packet is put on a wire together with its token.
LEMMA PutWire ==
  ASSUME NEW w, NEW m, NEW S, NEW T, Shapes(w, m, S, T), NEW port \in Ports,
         NEW p0 \in Packet, NEW x \in Token, <<p0, x>> \in WireRel(S, port)
  PROVE  Shapes([w EXCEPT ![port] = Append(@, p0)], m, S, Put(T, WireOf(port), x))
<1> DEFINE q == WireOf(port)
           w1 == [w EXCEPT ![port] = Append(@, p0)]
           T1 == Put(T, q, x)
<1>1. /\ w \in [Ports -> Seq(Packet)] /\ m \in [Ports -> Seq(Entry)] /\ T \in TokenQueues
      /\ \A p \in Ports : Paired(w[p], T[WireOf(p)], WireRel(S, p)) /\ Paired(m[p], T[TmOf(p)], TmRel(S, p))
  BY DEF Shapes
<1>2. q \in Queues /\ T[q] \in Seq(Token) /\ w[port] \in Seq(Packet)
  BY <1>1, QueueNames DEF TokenQueues
<1>3. Paired(Append(w[port], p0), Append(T[q], x), WireRel(S, port)) /\ Append(w[port], p0) \in Seq(Packet)
  BY <1>1, <1>2, PairedAppend
<1> HIDE DEF q
<1>4. T1 \in TokenQueues /\ T1[q] = Append(T[q], x) /\ \A p \in Queues : p # q => T1[p] = T[p]
  BY <1>1, <1>2, PutIs
<1>5. /\ w1 \in [Ports -> Seq(Packet)] /\ w1[port] = Append(w[port], p0)
      /\ \A p \in Ports : p # port => w1[p] = w[p]
  BY <1>1, <1>3
<1> HIDE DEF w1, T1
<1>6. ASSUME NEW p \in Ports
      PROVE  Paired(w1[p], T1[WireOf(p)], WireRel(S, p)) /\ Paired(m[p], T1[TmOf(p)], TmRel(S, p))
  <2>1. T1[TmOf(p)] = T[TmOf(p)]
    BY <1>4, QueueNames DEF q
  <2>2. CASE p = port
    BY <1>1, <1>3, <1>4, <1>5, <2>1, <2>2 DEF q
  <2>3. CASE p # port
    <3>1. T1[WireOf(p)] = T[WireOf(p)]
      BY <1>4, <2>3, QueueNames DEF q
    <3> QED BY <1>1, <1>5, <2>1, <2>3, <3>1
  <2> QED BY <2>2, <2>3
<1>7. Shapes(w1, m, S, T1)
  BY <1>1, <1>4, <1>5, <1>6 DEF Shapes
<1> QED BY <1>7 DEF q, w1, T1

\* The same for an entry and a queue of the traffic manager.
LEMMA PutTm ==
  ASSUME NEW w, NEW m, NEW S, NEW T, Shapes(w, m, S, T), NEW port \in Ports,
         NEW b0 \in Entry, NEW x \in Token, <<b0, x>> \in TmRel(S, port)
  PROVE  Shapes(w, [m EXCEPT ![port] = Append(@, b0)], S, Put(T, TmOf(port), x))
<1> DEFINE q == TmOf(port)
           m1 == [m EXCEPT ![port] = Append(@, b0)]
           T1 == Put(T, q, x)
<1>1. /\ w \in [Ports -> Seq(Packet)] /\ m \in [Ports -> Seq(Entry)] /\ T \in TokenQueues
      /\ \A p \in Ports : Paired(w[p], T[WireOf(p)], WireRel(S, p)) /\ Paired(m[p], T[TmOf(p)], TmRel(S, p))
  BY DEF Shapes
<1>2. q \in Queues /\ T[q] \in Seq(Token) /\ m[port] \in Seq(Entry)
  BY <1>1, QueueNames DEF TokenQueues
<1>3. Paired(Append(m[port], b0), Append(T[q], x), TmRel(S, port)) /\ Append(m[port], b0) \in Seq(Entry)
  BY <1>1, <1>2, PairedAppend
<1> HIDE DEF q
<1>4. T1 \in TokenQueues /\ T1[q] = Append(T[q], x) /\ \A p \in Queues : p # q => T1[p] = T[p]
  BY <1>1, <1>2, PutIs
<1>5. /\ m1 \in [Ports -> Seq(Entry)] /\ m1[port] = Append(m[port], b0)
      /\ \A p \in Ports : p # port => m1[p] = m[p]
  BY <1>1, <1>3
<1> HIDE DEF m1, T1
<1>6. ASSUME NEW p \in Ports
      PROVE  Paired(w[p], T1[WireOf(p)], WireRel(S, p)) /\ Paired(m1[p], T1[TmOf(p)], TmRel(S, p))
  <2>1. T1[WireOf(p)] = T[WireOf(p)]
    BY <1>4, QueueNames DEF q
  <2>2. CASE p = port
    BY <1>1, <1>3, <1>4, <1>5, <2>1, <2>2 DEF q
  <2>3. CASE p # port
    <3>1. T1[TmOf(p)] = T[TmOf(p)]
      BY <1>4, <2>3, QueueNames DEF q
    <3> QED BY <1>1, <1>5, <2>1, <2>3, <3>1
  <2> QED BY <2>2, <2>3
<1>7. Shapes(w, m1, S, T1)
  BY <1>1, <1>4, <1>5, <1>6 DEF Shapes
<1> QED BY <1>7 DEF q, m1, T1

-----------------------------------------------------------------------------
(* What the packets of each kind become                                    *)

Tok(cls, d, n, V) == [ch |-> <<cls, d>>, num |-> n, vals |-> V]

\* A token and its fields.
LEMMA TokType ==
  ASSUME NEW cls \in Classes, NEW d \in Eps, NEW n \in Nat, NEW V \in SUBSET Vals
  PROVE  /\ Tok(cls, d, n, V) \in Token
         /\ Tok(cls, d, n, V).ch = <<cls, d>> /\ Tok(cls, d, n, V).ch[1] = cls
         /\ Tok(cls, d, n, V).num = n /\ Tok(cls, d, n, V).vals = V
BY DEF Tok, Token

\* The types of the constants.
LEMMA Constants ==
  /\ NPost \in Nat /\ NItem \in Nat \ {0} /\ NEp \in Nat \ {0}
  /\ \A e \in Eps : e \in Nat
  /\ \A j \in Posts : j \in Nat /\ j < NPost
  /\ \A i \in Places : i \in Nat /\ i < NItem
  /\ 0 \in Places
BY FabricAssumption, Sizes DEF Eps, Posts, Places

\* An element is that of one place of one request of one endpoint.
LEMMA ValParts ==
  ASSUME NEW v \in Vals
  PROVE  /\ v[1] \in Eps /\ v[2] \in Posts /\ v[3] \in Places /\ v = <<v[1], v[2], v[3]>>
         /\ Source(v) \in Eps
         /\ Item(v[1], v[2], v[3]) = [src |-> Source(v), off |-> NItem - 1 - v[3], val |-> v]
         /\ Item(v[1], v[2], v[3]) \in ItemRec
<1>1. v[1] \in Eps /\ v[2] \in Posts /\ v[3] \in Places /\ v = <<v[1], v[2], v[3]>>
  BY DEF Vals
<1>2. v[1] + v[3] \in Nat /\ v[3] \in Nat /\ NItem \in Nat /\ NEp \in Nat \ {0}
  BY <1>1, Constants
<1>3. Source(v) \in Eps
  <2>1. PICK x \in Int : x = v[1] + v[3]
    BY <1>2
  <2>2. x % NEp \in 0 .. NEp - 1
    BY <1>2, ModType
  <2> QED BY <2>1, <2>2 DEF Source, Eps
<1>4. Item(v[1], v[2], v[3]) = [src |-> Source(v), off |-> NItem - 1 - v[3], val |-> v]
  BY <1>1 DEF Item, Source
<1>5. NItem - 1 - v[3] \in Int
  BY <1>2
<1> QED BY <1>1, <1>3, <1>4, <1>5 DEF ItemRec

\* Consecutive items of a request, and the elements they name.
LEMMA CutIs ==
  ASSUME NEW d \in Eps, NEW j \in Posts, NEW a \in Places, NEW c \in 1 .. NItem - a
  PROVE  /\ Cut(d, j, a, c) \in Seq(ItemRec) /\ IsCut(Cut(d, j, a, c), d, j, a, c)
         /\ CutVals(d, j, a, c) \in SUBSET Vals
<1>1. a \in Nat /\ a < NItem /\ c \in Nat \ {0} /\ a + c <= NItem /\ NItem \in Nat
  BY Constants
<1>2. ASSUME NEW n \in 1 .. c PROVE Item(d, j, a + n - 1) \in ItemRec
  <2>1. a + n - 1 \in Places
    BY <1>1 DEF Places
  <2>2. <<d, j, a + n - 1>> \in Vals
    BY <2>1 DEF Vals
  <2> QED BY <2>2, ValParts
<1>3. Cut(d, j, a, c) \in Seq(ItemRec) /\ Len(Cut(d, j, a, c)) = c
  BY <1>1, <1>2 DEF Cut
<1>4. \A n \in 1 .. c : Cut(d, j, a, c)[n] = Item(d, j, a + n - 1)
  BY DEF Cut
<1> QED BY <1>3, <1>4 DEF CutVals, IsCut

\* The first of them.
LEMMA CutHead ==
  ASSUME NEW d \in Eps, NEW j \in Posts, NEW a \in Places, NEW c \in 1 .. NItem - a,
         NEW s \in Seq(ItemRec), IsCut(s, d, j, a, c)
  PROVE  /\ Head(s) = Item(d, j, a) /\ Head(s) \in ItemRec /\ s # <<>>
         /\ <<Head(s)>> \in Seq(ItemRec) /\ IsCut(<<Head(s)>>, d, j, a, 1)
         /\ CutVals(d, j, a, 1) = {<<d, j, a>>} /\ <<d, j, a>> \in Vals
<1>1. a \in Nat /\ a < NItem /\ c \in Nat \ {0}
  BY Constants
<1>2. a + 1 - 1 = a
  BY <1>1
<1>3. Len(s) = c /\ \A n \in 1 .. c : s[n] = Item(d, j, a + n - 1)
  BY DEF IsCut
<1>4. s # <<>> /\ 1 \in 1 .. c
  BY <1>1, <1>3
<1>5. Head(s) = s[1] /\ Head(s) \in ItemRec
  BY <1>4
<1>6. Head(s) = Item(d, j, a)
  BY <1>2, <1>3, <1>4, <1>5
<1>7. <<Head(s)>> \in Seq(ItemRec) /\ Len(<<Head(s)>>) = 1 /\ <<Head(s)>>[1] = Head(s)
  BY <1>5
<1>8. IsCut(<<Head(s)>>, d, j, a, 1)
  BY <1>2, <1>6, <1>7 DEF IsCut
<1>9. <<d, j, a>> \in Vals
  BY DEF Vals
<1>10. CutVals(d, j, a, 1) = {<<d, j, a>>}
  <2>1. ASSUME NEW v \in CutVals(d, j, a, 1) PROVE v = <<d, j, a>>
    <3>1. v \in Vals /\ v[1] = d /\ v[2] = j /\ a <= v[3] /\ v[3] < a + 1
      BY DEF CutVals
    <3>2. v[3] \in Nat /\ v = <<v[1], v[2], v[3]>>
      BY <3>1, ValParts, Constants
    <3>3. v[3] = a
      BY <1>1, <3>1, <3>2
    <3> QED BY <3>1, <3>2, <3>3
  <2>2. <<d, j, a>> \in CutVals(d, j, a, 1)
    BY <1>1, <1>9 DEF CutVals
  <2> QED BY <2>1, <2>2
<1> QED BY <1>4, <1>5, <1>6, <1>7, <1>8, <1>9, <1>10

\* A cut of several items is its first item and the others.
LEMMA CutRest ==
  ASSUME NEW d \in Eps, NEW j \in Posts, NEW a \in Places, NEW c \in 1 .. NItem - a, c # 1,
         NEW s \in Seq(ItemRec), IsCut(s, d, j, a, c)
  PROVE  /\ a + 1 \in Places /\ c - 1 \in 1 .. NItem - (a + 1)
         /\ Tail(s) \in Seq(ItemRec) /\ IsCut(Tail(s), d, j, a + 1, c - 1)
         /\ CutVals(d, j, a, c) = CutVals(d, j, a, 1) \cup CutVals(d, j, a + 1, c - 1)
         /\ \A v \in CutVals(d, j, a, 1) : v \notin CutVals(d, j, a + 1, c - 1)
<1>1. a \in Nat /\ a < NItem /\ c \in Nat /\ c > 1 /\ a + c <= NItem /\ NItem \in Nat
  BY Constants
<1>2. a + 1 \in Places /\ c - 1 \in 1 .. NItem - (a + 1)
  BY <1>1 DEF Places
<1>3. Len(s) = c /\ \A n \in 1 .. c : s[n] = Item(d, j, a + n - 1)
  BY DEF IsCut
<1>4. s # <<>>
  BY <1>1, <1>3
<1>5. /\ Tail(s) \in Seq(ItemRec) /\ Len(Tail(s)) = c - 1
      /\ \A n \in 1 .. c - 1 : Tail(s)[n] = s[n + 1] /\ n + 1 \in 1 .. c
  BY <1>3, <1>4, TailIs
<1>6. ASSUME NEW n \in 1 .. c - 1 PROVE Tail(s)[n] = Item(d, j, (a + 1) + n - 1)
  <2>1. a + (n + 1) - 1 = (a + 1) + n - 1
    BY <1>1
  <2> QED BY <1>3, <1>5, <2>1
<1>7. IsCut(Tail(s), d, j, a + 1, c - 1)
  BY <1>5, <1>6 DEF IsCut
<1>8. \A v \in Vals : v[3] \in Nat
  BY ValParts, Constants
<1>9. CutVals(d, j, a, c) = CutVals(d, j, a, 1) \cup CutVals(d, j, a + 1, c - 1)
  BY <1>1, <1>8 DEF CutVals
<1>10. \A v \in CutVals(d, j, a, 1) : v \notin CutVals(d, j, a + 1, c - 1)
  BY <1>1, <1>8 DEF CutVals
<1> QED BY <1>2, <1>5, <1>7, <1>9, <1>10

\* The tables tell the packets of a NIC from each other.
LEMMA WireNic ==
  ASSUME NEW S, NEW e \in Eps, NEW p, NEW t, <<p, t>> \in WireRel(S, Nic(e))
  PROVE  /\ p \in Packet /\ t \in Token /\ p.op # "REPL"
         /\ \/ IsRequest(S, e, p, t) /\ RoceCase(p).rx = "request" /\ RoceCase(p).dst = e
            \/ IsResponse(e, p, t) /\ RoceCase(p).rx = "read_response"
            \/ IsReadNak(e, p, t) /\ RoceCase(p).rx = "read_nak"
            \/ IsWriteAnswer(e, p, t) /\ RoceCase(p).rx = "write_ack" /\ RoceCase(p).dst = e
<1>1. p \in Packet /\ t \in Token
  BY DEF WireRel
<1>2. \/ IsRequest(S, e, p, t) \/ IsResponse(e, p, t) \/ IsReadNak(e, p, t) \/ IsWriteAnswer(e, p, t)
  BY DEF WireRel, Nic, Lpbk
<1>3. CASE IsRequest(S, e, p, t)
  <2>1. p.op = "WRITE_ONLY" /\ p.dqp = ReqQp /\ p.smac = e
    BY <1>3 DEF IsRequest, ReqPkt
  <2>2. RoceCase(p) = [rx |-> "request", dst |-> e, pair |-> 0]
    BY <2>1 DEF RoceCase, ReqQp, DstQp, RequestOps
  <2> QED BY <1>1, <1>3, <2>1, <2>2
<1>4. CASE IsResponse(e, p, t)
  <2>1. p.op = "READ_RES_ONLY" /\ p.dqp[1] = "src" /\ p.dqp # ReqQp /\ p.dqp # DstQp
    BY <1>4 DEF IsResponse, SrcQp, ReqQp, DstQp
  <2>2. RoceCase(p).rx = "read_response"
    BY <2>1 DEF RoceCase
  <2> QED BY <1>1, <1>4, <2>1, <2>2
<1>5. CASE IsReadNak(e, p, t)
  <2>1. p.op = "ACK" /\ p.dqp[1] = "src" /\ p.dqp # ReqQp /\ p.dqp # DstQp
    BY <1>5 DEF IsReadNak, SrcQp, ReqQp, DstQp
  <2>2. RoceCase(p).rx = "read_nak"
    BY <2>1 DEF RoceCase
  <2> QED BY <1>1, <1>5, <2>1, <2>2
<1>6. CASE IsWriteAnswer(e, p, t)
  <2>1. p.op = "ACK" /\ p.dqp = DstQp /\ p.dqp # ReqQp /\ p.smac = e /\ p.dqp[1] = "dst"
    BY <1>6 DEF IsWriteAnswer, ReqQp, DstQp
  <2>2. RoceCase(p).rx = "write_ack" /\ RoceCase(p).dst = e
    BY <2>1 DEF RoceCase
  <2> QED BY <1>1, <1>6, <2>1, <2>2
<1> QED BY <1>2, <1>3, <1>4, <1>5, <1>6

\* The tables lead the response of a NIC to the endpoint that asked.
LEMMA ResponseCase ==
  ASSUME NEW e \in Eps, NEW p, NEW t, IsResponse(e, p, t)
  PROVE  \E v \in Vals :
           /\ t.ch = <<"res", v[1]>> /\ t.vals = {v} /\ Source(v) = e
           /\ p.smac = e /\ p.psn = t.num /\ p.val = v /\ ~p.nak
           /\ RoceCase(p).dst = v[1] /\ RoceCase(p).pair = SrcDst(e, v[1])
<1>1. PICK v \in Vals :
        /\ t.ch = <<"res", v[1]>> /\ t.vals = {v} /\ Source(v) = e
        /\ p.op = "READ_RES_ONLY" /\ p.smac = e /\ p.dqp = SrcQp(v[1]) /\ p.psn = t.num
        /\ p.val = v /\ ~p.nak
  BY DEF IsResponse
<1>2. p.dqp[1] = "src" /\ p.dqp[2] = v[1] /\ p.dqp # ReqQp /\ p.dqp # DstQp
  BY <1>1 DEF SrcQp, ReqQp, DstQp
<1>3. RoceCase(p).dst = v[1] /\ RoceCase(p).pair = SrcDst(e, v[1])
  BY <1>1, <1>2 DEF RoceCase
<1> QED BY <1>1, <1>3

\* ... and the NAK too.
LEMMA ReadNakCase ==
  ASSUME NEW e \in Eps, NEW p, NEW t, IsReadNak(e, p, t)
  PROVE  \E d \in Eps :
           /\ t.ch = <<"rnak", d>> /\ t.vals = {}
           /\ RoceCase(p).dst = d /\ RoceCase(p).pair = SrcDst(e, d)
<1>1. PICK d \in Eps :
        /\ t.ch = <<"rnak", d>> /\ t.vals = {}
        /\ p.op = "ACK" /\ p.smac = e /\ p.dqp = SrcQp(d)
  BY DEF IsReadNak
<1>2. p.dqp[1] = "src" /\ p.dqp[2] = d /\ p.dqp # ReqQp /\ p.dqp # DstQp
  BY <1>1 DEF SrcQp, ReqQp, DstQp
<1>3. RoceCase(p).dst = d /\ RoceCase(p).pair = SrcDst(e, d)
  BY <1>1, <1>2 DEF RoceCase
<1> QED BY <1>1, <1>3

\* A loopback port receives replicas.
LEMMA WireLpbk ==
  ASSUME NEW S, NEW d \in Eps, NEW p, NEW t, <<p, t>> \in WireRel(S, Lpbk(d))
  PROVE  p \in Packet /\ t \in Token /\ IsReplica(d, p, t) /\ p.op = "REPL"
<1>1. p \in Packet /\ t \in Token /\ IsReplica(d, p, t)
  BY DEF WireRel, Nic, Lpbk
<1> QED BY <1>1 DEF IsReplica

\* What leaves for a NIC is a READ, a WRITE or an ACK.
LEMMA TmNic ==
  ASSUME NEW S, NEW e \in Eps, NEW b, NEW t, <<b, t>> \in TmRel(S, Nic(e))
  PROVE  /\ b \in Entry /\ t \in Token /\ b.kind = "bridge"
         /\ \/ IsRead(e, b, t) /\ b.rx = "repl_only"
            \/ IsWrite(e, b, t) /\ b.rx = "read_response"
            \/ IsAck(e, b, t) /\ b.rx = "write_ack"
<1>1. b \in Entry /\ t \in Token /\ (IsRead(e, b, t) \/ IsWrite(e, b, t) \/ IsAck(e, b, t))
  BY DEF TmRel, Nic, Lpbk
<1> QED BY <1>1 DEF IsRead, IsWrite, IsAck, BridgeEntry

\* What leaves for a loopback port is a request or a replica.
LEMMA TmLpbk ==
  ASSUME NEW S, NEW d \in Eps, NEW b, NEW t, <<b, t>> \in TmRel(S, Lpbk(d))
  PROVE  /\ b \in Entry /\ t \in Token
         /\ \/ IsQueuedRequest(S, d, b, t) /\ b.kind = "bridge" /\ b.rx = "request"
            \/ IsCopy(d, b, t) /\ b.kind # "bridge"
<1>1. b \in Entry /\ t \in Token /\ (IsQueuedRequest(S, d, b, t) \/ IsCopy(d, b, t))
  BY DEF TmRel, Nic, Lpbk
<1> QED BY <1>1 DEF IsQueuedRequest, IsCopy, BridgeEntry, CopyEntry

-----------------------------------------------------------------------------
\* The packets that the actions make.  Each lemma is about one of them.

\* The fields of a packet have their types.
LEMMA PacketParts ==
  ASSUME NEW p \in Packet
  PROVE  /\ p.op \in Ops /\ p.smac \in Eps /\ p.psn \in Nat /\ p.items \in Seq(ItemRec)
         /\ p.nak \in BOOLEAN /\ p.repl \in ReplHeader /\ p.ackreq \in BOOLEAN
         /\ p.dqp \in {"req", "dst", "src"} \X Int /\ p.addr \in Int
         /\ p.val \in Vals \cup {<<>>} /\ p.msn \in Int
BY DEF Packet

AsRepl(p, a, r) == [p EXCEPT !.op = "REPL", !.addr = a, !.repl = r]
WithItems(p, s, r) == [p EXCEPT !.items = s, !.repl = r]

\* A packet that becomes a replica.
LEMMA ChangedRepl ==
  ASSUME NEW p \in Packet, NEW a \in Int, NEW r \in ReplHeader
  PROVE  /\ AsRepl(p, a, r) \in Packet /\ AsRepl(p, a, r).op = "REPL"
         /\ AsRepl(p, a, r).smac = p.smac /\ AsRepl(p, a, r).nak = p.nak
         /\ AsRepl(p, a, r).items = p.items /\ AsRepl(p, a, r).repl = r
BY DEF AsRepl, Packet, Ops

\* A packet with other items.
LEMMA ChangedItems ==
  ASSUME NEW p \in Packet, NEW s \in Seq(ItemRec), NEW r \in ReplHeader
  PROVE  /\ WithItems(p, s, r) \in Packet /\ WithItems(p, s, r).op = p.op
         /\ WithItems(p, s, r).smac = p.smac /\ WithItems(p, s, r).nak = p.nak
         /\ WithItems(p, s, r).items = s /\ WithItems(p, s, r).repl = r
BY DEF WithItems, Packet, Ops

\* A header with another flag.
LEMMA ChangedFlag ==
  ASSUME NEW h \in ReplHeader, NEW f
  PROVE  [h EXCEPT !.flag = f] = [flag |-> f, cnt |-> h.cnt, id |-> h.id]
BY DEF ReplHeader

\* A header with another count.
LEMMA ChangedCnt ==
  ASSUME NEW h \in ReplHeader, NEW c
  PROVE  [h EXCEPT !.cnt = c] = [flag |-> h.flag, cnt |-> c, id |-> h.id]
BY DEF ReplHeader

\* The mirror copy has the first item, and counts one.
LEMMA ChangedHeader ==
  ASSUME NEW p \in Packet
  PROVE  [p EXCEPT !.items = <<Head(@)>>, !.repl.flag = FALSE, !.repl.cnt = 1]
           = WithItems(p, <<Head(p.items)>>, [flag |-> FALSE, cnt |-> 1, id |-> p.repl.id])
<1>1. p.repl \in ReplHeader
  BY DEF Packet
<1> DEFINE r == [[p.repl EXCEPT !.flag = FALSE] EXCEPT !.cnt = 1]
<1>2. r = [flag |-> FALSE, cnt |-> 1, id |-> p.repl.id]
  <2> DEFINE h == [flag |-> FALSE, cnt |-> p.repl.cnt, id |-> p.repl.id]
  <2>1. [p.repl EXCEPT !.flag = FALSE] = h
    BY <1>1, ChangedFlag
  <2>2. h \in ReplHeader /\ h.flag = FALSE /\ h.id = p.repl.id
    BY <1>1 DEF ReplHeader
  <2> HIDE DEF h
  <2>3. [h EXCEPT !.cnt = 1] = [flag |-> h.flag, cnt |-> 1, id |-> h.id]
    BY <2>2, ChangedCnt
  <2> QED BY <2>1, <2>2, <2>3
<1>3. [p EXCEPT !.items = <<Head(@)>>, !.repl.flag = FALSE, !.repl.cnt = 1]
        = [p EXCEPT !.items = <<Head(p.items)>>, !.repl = r]
  BY DEF Packet
<1> QED BY <1>2, <1>3 DEF WithItems

\* A request names all the elements of its buffer.
LEMMA ItemsAre ==
  ASSUME OnePacket, NEW d \in Eps, NEW k \in Posts
  PROVE  ItemsOf(d, k) = Cut(d, k, 0, NItem)
<1>1. PktsPerPost = 1
  BY OnePkt
<1>2. /\ k \in Nat /\ NItem \in Nat \ {0} /\ NItem <= ITEM_PER_UNIT /\ ITEM_PER_UNIT \in Nat
  BY Constants, Sizes DEF OnePacket
<1>3. k \div PktsPerPost = k /\ k % PktsPerPost = 0
  BY <1>1, <1>2
<1>4. Min({ITEM_PER_UNIT, NItem - 0}) = NItem
  BY <1>2 DEF Min
<1>5. (k % PktsPerPost) * ITEM_PER_UNIT = 0
  BY <1>2, <1>3
<1> QED BY <1>3, <1>4, <1>5 DEF ItemsOf, Cut

\* What an endpoint sends is a request.
LEMMA MakeRequest ==
  ASSUME OnePacket, NEW d \in Eps, NEW k \in Posts, session \in Int
  PROVE  /\ Request(d, k) = ReqPkt(session, d, k) /\ Request(d, k) \in Packet
         /\ Tok("req", d, k, CutVals(d, k, 0, NItem)) \in Token
         /\ IsRequest(session, d, Request(d, k), Tok("req", d, k, CutVals(d, k, 0, NItem)))
<1>1. PktsPerPost = 1 /\ Psn0 = 0
  BY OnePkt DEF OnePacket
<1>2. /\ k \in Nat /\ NItem \in Nat \ {0} /\ NPost \in Nat /\ NItem <= ITEM_PER_UNIT
      /\ ITEM_PER_UNIT \in Nat /\ 0 \in Places
  BY Constants, Sizes DEF OnePacket
<1>3. k \div PktsPerPost = k /\ k % PktsPerPost = 0 /\ (k + 1) % PktsPerPost = 0
  BY <1>1, <1>2
<1>5. ItemsOf(d, k) = Cut(d, k, 0, NItem)
  BY ItemsAre
<1>6. OpOf(k) = "WRITE_ONLY"
  BY <1>1 DEF OpOf
<1>7. Request(d, k) = ReqPkt(session, d, k)
  <2>1. Psn0 + k = k /\ HasAddr(k)
    BY <1>1, <1>2, <1>3 DEF HasAddr
  <2>2. Base(k \div PktsPerPost) = (session * NPost + k) * NItem
    BY <1>3 DEF Base
  <2> QED BY <1>3, <1>5, <1>6, <2>1, <2>2 DEF Request, ReqPkt
<1>8. NItem \in 1 .. NItem - 0
  BY <1>2
<1>9. Cut(d, k, 0, NItem) \in Seq(ItemRec) /\ CutVals(d, k, 0, NItem) \in SUBSET Vals
  BY <1>2, <1>8, CutIs
<1>10. ReqPkt(session, d, k) \in Packet
  <2>1. (session * NPost + k) * NItem \in Int
    BY <1>2
  <2> QED BY <1>2, <1>9, <2>1 DEF ReqPkt, Packet, Ops, ReqQp, ReplHeader
<1>11. Tok("req", d, k, CutVals(d, k, 0, NItem)) \in Token
  BY <1>2, <1>9, TokType DEF Classes
<1>12. IsRequest(session, d, ReqPkt(session, d, k), Tok("req", d, k, CutVals(d, k, 0, NItem)))
  BY DEF IsRequest, Tok
<1> QED BY <1>7, <1>10, <1>11, <1>12

\* What a request says.
RequestSays(e, p, t) ==
  /\ p.op = "WRITE_ONLY" /\ p.smac = e /\ p.psn = t.num /\ Len(p.items) = NItem
  /\ IsCut(p.items, e, t.num, 0, NItem) /\ ~p.nak
  /\ t.num \in Posts /\ t.vals = CutVals(e, t.num, 0, NItem)

\* ... and it is made so.
LEMMA RequestParts ==
  ASSUME NEW S, NEW e \in Eps, NEW p \in Packet, NEW t \in Token, IsRequest(S, e, p, t)
  PROVE  RequestSays(e, p, t)
<1>1. 0 \in Places /\ NItem \in 1 .. NItem - 0
  BY Constants
<1>2. IsCut(Cut(e, t.num, 0, NItem), e, t.num, 0, NItem)
  BY <1>1, CutIs DEF IsRequest
<1>3. /\ p.op = "WRITE_ONLY" /\ p.smac = e /\ p.psn = t.num /\ p.items = Cut(e, t.num, 0, NItem)
      /\ ~p.nak
  BY DEF IsRequest, ReqPkt
<1>4. Len(p.items) = NItem
  BY <1>2, <1>3 DEF IsCut
<1>5. t.num \in Posts /\ t.vals = CutVals(e, t.num, 0, NItem)
  BY DEF IsRequest
<1> QED BY <1>2, <1>3, <1>4, <1>5 DEF RequestSays

\* What ingress makes of it is a queued request.
LEMMA MakeQueuedRequest ==
  ASSUME NEW S, NEW e \in Eps, NEW p \in Packet, NEW t \in Token, IsRequest(S, e, p, t),
         NEW b, b = Bridge("request", RequestFlags(p.op), e, UnitIdFromDst(e, p.psn),
                           ItemIdFromDst(e, p.psn), ItemCnt(p), p)
  PROVE  b \in Entry /\ IsQueuedRequest(S, e, b, t)
<1>0. p \in Packet
  OBVIOUS
<1>1. p.op = "WRITE_ONLY" /\ p.psn = t.num /\ Len(p.items) = NItem /\ p.psn \in Nat
  <2>1. p.psn \in Nat
    BY <1>0, PacketParts
  <2>2. RequestSays(e, p, t)
    BY RequestParts
  <2> QED
    BY <2>1, <2>2 DEF RequestSays
<1>2. UnitIdFromDst(e, p.psn) \in Int /\ ItemIdFromDst(e, p.psn) \in Int
  <2>1. /\ UNIT_PER_ENDP \in Nat \ {0} /\ ITEM_PER_UNIT \in Nat /\ e \in Nat
    BY Sizes, Constants
  <2>2. PICK m \in Int : m = p.psn % UNIT_PER_ENDP
    BY <1>1, <2>1
  <2>3. UnitIdFromDst(e, p.psn) \in Int
    BY <2>1, <2>2 DEF UnitIdFromDst
  <2> QED BY <2>1, <2>3 DEF ItemIdFromDst
<1>3. RequestFlags(p.op) \in SUBSET Flags
  BY <1>1 DEF RequestFlags, Flags
<1>4. b \in BridgeEntry
  BY <1>1, <1>2, <1>3, Constants DEF BridgeEntry, Bridge, ItemCnt
<1>5. /\ b.rx = "request" /\ b.flag = RequestFlags("WRITE_ONLY") /\ b.dst = e
      /\ b.unit = UnitIdFromDst(e, t.num) /\ b.item = ItemIdFromDst(e, t.num) /\ b.cnt = NItem
      /\ b.pkt = p
  BY <1>1 DEF Bridge, ItemCnt
<1> QED BY <1>4, <1>5 DEF Entry, IsQueuedRequest

\* What LoopRequest sends round: a replica with all items of the request.
LEMMA MakeReplica ==
  ASSUME OnePacket, NEW S, NEW d \in Eps, NEW b, NEW t \in Token, IsQueuedRequest(S, d, b, t),
         CaseOf(b) = "correct", NEW n \in Nat
  PROVE  /\ ReplOf(b) \in Packet /\ Tok("loop", d, n, t.vals) \in Token
         /\ IsReplica(d, ReplOf(b), Tok("loop", d, n, t.vals))
<1> DEFINE p == b.pkt
           r == [flag |-> FALSE, cnt |-> b.cnt, id |-> b.item]
<1>1. /\ IsRequest(S, d, p, t) /\ p \in Packet /\ b.cnt = NItem /\ b.item = ItemIdFromDst(d, t.num)
      /\ b.item \in Int
  BY DEF IsQueuedRequest, BridgeEntry
<1>2. /\ p.smac = d /\ ~p.nak /\ IsCut(p.items, d, t.num, 0, NItem) /\ p.items \in Seq(ItemRec)
      /\ t.num \in Posts /\ t.vals = CutVals(d, t.num, 0, NItem)
  <2>1. p.items \in Seq(ItemRec)
    BY <1>1, PacketParts
  <2>2. RequestSays(d, p, t)
    BY <1>1, RequestParts
  <2> HIDE DEF p
  <2> QED
    BY <2>1, <2>2 DEF RequestSays
<1>3. 0 \in Places /\ NItem \in 1 .. NItem - 0 /\ NItem \in Nat
  BY Constants
<1>4. ItemNumber(<<d, t.num, 0>>) = ItemIdFromDst(d, t.num)
  <2>1. <<d, t.num, 0>> \in Vals
    BY <1>2, <1>3 DEF Vals
  <2>2. ItemNumber(<<d, t.num, 0>>) = (UnitIdFromDst(d, t.num) * ITEM_PER_UNIT) + 0
    BY <2>1, ItemIds
  <2>3. UnitIdFromDst(d, t.num) \in Int /\ ITEM_PER_UNIT \in Int
    BY <1>2, UnitIds, Sizes DEF Units
  <2> QED BY <2>2, <2>3 DEF ItemIdFromDst
<1>5. ReplOf(b) = AsRepl(p, 0, r)
  BY DEF ReplOf, AsRepl
<1> DEFINE f == ReplOf(b)
<1>6. r \in ReplHeader
  BY <1>1, <1>3 DEF ReplHeader
<1> HIDE DEF p, r, f
<1>7. /\ f \in Packet /\ f.op = "REPL" /\ f.smac = d /\ ~f.nak
      /\ f.items = p.items /\ f.repl = r
  <2>1. f = AsRepl(p, 0, r) /\ 0 \in Int
    BY <1>5 DEF f
  <2> QED BY <1>1, <1>2, <1>6, <2>1, ChangedRepl
<1> USE DEF f
<1>70. /\ ReplOf(b) \in Packet /\ ReplOf(b).op = "REPL" /\ ReplOf(b).smac = d /\ ~ReplOf(b).nak
      /\ ReplOf(b).items = p.items /\ ReplOf(b).repl = r
  BY <1>7
<1>8. r = [flag |-> FALSE, cnt |-> NItem, id |-> ItemNumber(<<d, t.num, 0>>)]
  BY <1>1, <1>4 DEF r
<1>9. t.vals \in SUBSET Vals
  BY DEF Token
<1>10. IsReplica(d, ReplOf(b), Tok("loop", d, n, t.vals))
  <2>1. /\ IsCut(ReplOf(b).items, d, t.num, 0, NItem) /\ t.vals = CutVals(d, t.num, 0, NItem)
        /\ ReplOf(b).repl = [flag |-> FALSE, cnt |-> NItem, id |-> ItemNumber(<<d, t.num, 0>>)]
    BY <1>2, <1>7, <1>8
  <2>2. Tok("loop", d, n, t.vals).ch = <<"loop", d>> /\ Tok("loop", d, n, t.vals).vals = t.vals
    BY DEF Tok
  <2> QED BY <1>2, <1>3, <1>7, <2>1, <2>2 DEF IsReplica
<1>11. Tok("loop", d, n, t.vals) \in Token
  BY <1>9, TokType DEF Classes
<1> QED BY <1>7, <1>10, <1>11

\* The two parts into which IngressReplMany cuts a replica.
InParts(d, t, first, rest) ==
  \E v \in Vals, V \in SUBSET Vals :
    /\ t.vals = {v} \cup V /\ v \notin V
    /\ first \in Entry /\ IsCopy(d, first, Tok("loop", d, 0, {v}))
    /\ rest \in Entry /\ IsCopy(d, rest, Tok("loop", d, 0, V))

\* A replica of several items is a mirror copy of one and the rest.
LEMMA MakeParts ==
  ASSUME OnePacket, NEW d \in Eps, NEW p \in Packet, NEW t \in Token, IsReplica(d, p, t), p.repl.cnt # 1,
         NEW rest, rest = [kind |-> "bypass", pkt |-> WithoutFirst(p)],
         NEW first, first = [kind |-> "mirror", pkt |-> p]
  PROVE  InParts(d, t, first, rest)
<1>0. PICK j \in Posts, a \in Places :
        \E c \in 1 .. NItem - a :
          /\ IsCut(p.items, d, j, a, c) /\ t.vals = CutVals(d, j, a, c)
          /\ p.repl = [flag |-> FALSE, cnt |-> c, id |-> ItemNumber(<<d, j, a>>)]
  BY DEF IsReplica
<1>1. PICK c \in 1 .. NItem - a :
        /\ IsCut(p.items, d, j, a, c) /\ t.vals = CutVals(d, j, a, c)
        /\ p.repl = [flag |-> FALSE, cnt |-> c, id |-> ItemNumber(<<d, j, a>>)]
  BY <1>0
<1>2. p.op = "REPL" /\ p.smac = d /\ ~p.nak /\ p.items \in Seq(ItemRec)
  BY DEF IsReplica, Packet
<1>3. c # 1 /\ c \in Nat /\ a \in Nat /\ a + c <= NItem /\ NItem \in Nat /\ NItem < 256
  <2>1. 2^8 = 256
    OBVIOUS
  <2> QED BY <1>1, <2>1, Constants DEF OnePacket
<1> DEFINE v == <<d, j, a>>
           V == CutVals(d, j, a + 1, c - 1)
<1>4. /\ Head(p.items) \in ItemRec /\ p.items # <<>>
      /\ <<Head(p.items)>> \in Seq(ItemRec) /\ IsCut(<<Head(p.items)>>, d, j, a, 1)
      /\ CutVals(d, j, a, 1) = {v} /\ v \in Vals
  BY <1>1, <1>2, CutHead
<1>5. /\ a + 1 \in Places /\ c - 1 \in 1 .. NItem - (a + 1)
      /\ Tail(p.items) \in Seq(ItemRec) /\ IsCut(Tail(p.items), d, j, a + 1, c - 1)
      /\ CutVals(d, j, a, c) = CutVals(d, j, a, 1) \cup V
      /\ \A u \in CutVals(d, j, a, 1) : u \notin V
  BY <1>1, <1>2, <1>3, CutRest
<1>6. t.vals = {v} \cup V /\ v \notin V /\ V \in SUBSET Vals
  BY <1>1, <1>4, <1>5 DEF CutVals
<1>7. ItemNumber(<<d, j, a + 1>>) = ItemNumber(v) + 1 /\ ItemNumber(v) \in Nat
  <2>1. v \in Vals /\ <<d, j, a + 1>> \in Vals
    BY <1>5 DEF Vals
  <2>2. /\ ItemNumber(v) = (UnitIdFromDst(d, j) * ITEM_PER_UNIT) + a
        /\ ItemNumber(<<d, j, a + 1>>) = (UnitIdFromDst(d, j) * ITEM_PER_UNIT) + (a + 1)
    BY <2>1, ItemIds
  <2>3. PICK x \in Nat : x = UnitIdFromDst(d, j) * ITEM_PER_UNIT
    <3>1. UnitIdFromDst(d, j) \in Nat /\ ITEM_PER_UNIT \in Nat
      BY UnitIds, Sizes DEF Units
    <3> QED BY <3>1
  <2> QED BY <1>3, <2>2, <2>3
<1> HIDE DEF v, V
<1>8. first \in Entry /\ IsCopy(d, first, Tok("loop", d, 0, {v}))
  <2> DEFINE f == [p EXCEPT !.items = <<Head(@)>>, !.repl.flag = FALSE, !.repl.cnt = 1]
             r == [flag |-> FALSE, cnt |-> 1, id |-> p.repl.id]
             s == <<Head(p.items)>>
  <2>1. first \in CopyEntry
    BY DEF CopyEntry
  <2>2. CopyOf(first) = f
    BY DEF CopyOf
  <2>3. p.repl.id = ItemNumber(v) /\ p.repl \in ReplHeader
    BY <1>1, PacketParts DEF v
  <2>4. r \in ReplHeader /\ s \in Seq(ItemRec)
    BY <1>4, <1>7, <2>3 DEF ReplHeader
  <2>5. f = WithItems(p, s, r)
    BY ChangedHeader
  <2> HIDE DEF r, s, f
  <2>6. /\ f \in Packet /\ f.op = p.op /\ f.smac = p.smac /\ f.nak = p.nak
        /\ f.items = s /\ f.repl = r
    BY <2>4, <2>5, ChangedItems
  <2>7. 1 \in 1 .. NItem - a
    BY <1>3
  <2>8. IsReplica(d, f, Tok("loop", d, 0, {v}))
    <3>1. IsCut(f.items, d, j, a, 1) /\ {v} = CutVals(d, j, a, 1)
      BY <1>4, <2>6 DEF s
    <3>2. f.repl = [flag |-> FALSE, cnt |-> 1, id |-> ItemNumber(<<d, j, a>>)]
      BY <2>3, <2>6 DEF r, v
    <3>3. Tok("loop", d, 0, {v}).ch = <<"loop", d>> /\ Tok("loop", d, 0, {v}).vals = {v}
      BY DEF Tok
    <3> QED BY <1>2, <2>6, <2>7, <3>1, <3>2, <3>3 DEF IsReplica
  <2> QED BY <2>1, <2>2, <2>6, <2>8 DEF IsCopy, Entry
<1>9. rest \in Entry /\ IsCopy(d, rest, Tok("loop", d, 0, V))
  <2> DEFINE h == [flag |-> FALSE, cnt |-> Wrap8(p.repl.cnt - 1), id |-> p.repl.id + 1]
             s == Tail(p.items)
             f == WithItems(p, s, h)
  <2>1. WithoutFirst(p) = f
    BY DEF WithoutFirst, WithItems, Packet
  <2>2. Wrap8(c - 1) = c - 1
    <3>1. 2^8 = 256
      OBVIOUS
    <3>2. c - 1 \in 0 .. 256 - 1
      BY <1>3
    <3> QED BY <3>1, <3>2, ModSmall DEF Wrap8
  <2>3. h = [flag |-> FALSE, cnt |-> c - 1, id |-> ItemNumber(<<d, j, a + 1>>)]
    <3>1. p.repl.cnt = c /\ p.repl.id = ItemNumber(v)
      BY <1>1 DEF v
    <3> QED BY <1>7, <2>2, <3>1
  <2>4. h \in ReplHeader /\ s \in Seq(ItemRec)
    BY <1>3, <1>5, <1>7, <2>3 DEF ReplHeader
  <2> HIDE DEF h, s
  <2>5. /\ f \in Packet /\ f.op = p.op /\ f.smac = p.smac /\ f.nak = p.nak
        /\ f.items = s /\ f.repl = h
    BY <2>4, ChangedItems
  <2> HIDE DEF f
  <2>6. IsReplica(d, f, Tok("loop", d, 0, V))
    <3>1. IsCut(f.items, d, j, a + 1, c - 1) /\ V = CutVals(d, j, a + 1, c - 1)
      BY <1>5, <2>5 DEF s, V
    <3>2. f.repl = [flag |-> FALSE, cnt |-> c - 1, id |-> ItemNumber(<<d, j, a + 1>>)]
      BY <2>3, <2>5
    <3>3. Tok("loop", d, 0, V).ch = <<"loop", d>> /\ Tok("loop", d, 0, V).vals = V
      BY DEF Tok
    <3> QED BY <1>2, <1>5, <2>5, <3>1, <3>2, <3>3 DEF IsReplica
  <2>7. rest \in CopyEntry /\ CopyOf(rest) = f
    BY <2>1, <2>5 DEF CopyEntry, CopyOf
  <2> QED BY <2>5, <2>6, <2>7 DEF IsCopy, Entry
<1> QED BY <1>4, <1>6, <1>8, <1>9 DEF InParts

-----------------------------------------------------------------------------
\* A READ, its response, the WRITE that is made of it, and their answers.

\* The READ made of a replica.
LEMMA ReadPacket ==
  ASSUME NEW p \in Packet, NEW d \in Eps, NEW n \in Nat
  PROVE  /\ ReadOfReplica(p, d, n) \in Packet /\ ReadOfReplica(p, d, n).items = p.items
         /\ ReadOfReplica(p, d, n).dqp = SrcQp(d) /\ ReadOfReplica(p, d, n).psn = n
         /\ ReadOfReplica(p, d, n).nak = p.nak
<1> DEFINE h == [flag |-> FALSE, cnt |-> p.repl.cnt, id |-> p.repl.id]
           q == [p EXCEPT !.psn = n, !.repl = h]
           q0 == [p EXCEPT !.psn = n, !.repl.flag = FALSE]
           f == [q EXCEPT !.dqp = SrcQp(d)]
<1>1. p.repl \in ReplHeader
  BY DEF Packet
<1>2. [p.repl EXCEPT !.flag = FALSE] = h
  BY <1>1, ChangedFlag
<1>3. h \in ReplHeader
  BY <1>1 DEF ReplHeader
<1> HIDE DEF h
<1>4. q0 = q
  <2>1. q0 = [p EXCEPT !.psn = n, !.repl = [p.repl EXCEPT !.flag = FALSE]]
    BY DEF Packet
  <2> QED BY <1>2, <2>1
<1>5. q \in Packet /\ q.items = p.items /\ q.psn = n /\ q.nak = p.nak
  BY <1>3 DEF Packet
<1>6. ReadOfReplica(p, d, n) = [q0 EXCEPT !.dqp = SrcQp(d)]
  BY DEF ReadOfReplica, ToSrc
<1> HIDE DEF q, q0
<1>7. SrcQp(d) \in {"req", "dst", "src"} \X Int
  BY Constants DEF SrcQp
<1>8. f \in Packet /\ f.items = q.items /\ f.dqp = SrcQp(d) /\ f.psn = q.psn /\ f.nak = q.nak
  BY <1>5, <1>7 DEF Packet
<1>9. ReadOfReplica(p, d, n) = f
  BY <1>4, <1>6
<1> QED BY <1>5, <1>8, <1>9

ReadEntry(d, id, p) == Bridge("repl_only", {"ITEM_WRITE_OFFSET_SET"}, d, 0, id, 1, p)

ReadMade(d, p, t) ==
  \E v \in Vals :
    /\ v[1] = d /\ t.vals = {v} /\ ~p.repl.flag /\ p.repl.id = ItemNumber(v)
    /\ ReplOnly(p).dst = d /\ ReplOnly(p).pair = SrcDst(Source(v), d)
    /\ Head(p.items).src = Source(v)
    /\ \A n \in Nat :
         /\ ReadEntry(d, p.repl.id, ReadOfReplica(p, d, n)) \in Entry
         /\ IsRead(Source(v), ReadEntry(d, p.repl.id, ReadOfReplica(p, d, n)), Tok("read", d, n, {v}))

\* What IngressReplOnly sends to the source of the item.
LEMMA MakeRead ==
  ASSUME NEW d \in Eps, NEW p \in Packet, NEW t \in Token, IsReplica(d, p, t), p.repl.cnt = 1
  PROVE  ReadMade(d, p, t)
<1>1. PICK j \in Posts, a \in Places :
        \E c \in 1 .. NItem - a :
          /\ IsCut(p.items, d, j, a, c) /\ t.vals = CutVals(d, j, a, c)
          /\ p.repl = [flag |-> FALSE, cnt |-> c, id |-> ItemNumber(<<d, j, a>>)]
  BY DEF IsReplica
<1>2. PICK c \in 1 .. NItem - a :
        /\ IsCut(p.items, d, j, a, c) /\ t.vals = CutVals(d, j, a, c)
        /\ p.repl = [flag |-> FALSE, cnt |-> c, id |-> ItemNumber(<<d, j, a>>)]
  BY <1>1
<1>3. c = 1
  BY <1>2
<1> DEFINE v == <<d, j, a>>
<1>4. /\ Head(p.items) = Item(d, j, a) /\ p.items # <<>>
      /\ CutVals(d, j, a, 1) = {v} /\ v \in Vals
  <2>1. p.items \in Seq(ItemRec)
    BY PacketParts
  <2>2. IsCut(p.items, d, j, a, c)
    BY <1>2
  <2> DEFINE s == p.items
  <2> HIDE DEF s, v
  <2>3. s \in Seq(ItemRec) /\ IsCut(s, d, j, a, c)
    BY <2>1, <2>2 DEF s
  <2>4. /\ Head(s) = Item(d, j, a) /\ s # <<>>
        /\ CutVals(d, j, a, 1) = {<<d, j, a>>} /\ <<d, j, a>> \in Vals
    BY <2>3, CutHead
  <2> QED BY <2>4 DEF s, v
<1>5. v[1] = d /\ v[2] = j /\ v[3] = a
  OBVIOUS
<1> HIDE DEF v
<1>6. t.vals = {v} /\ ~p.repl.flag /\ p.repl.id = ItemNumber(v) /\ p.smac = d /\ ~p.nak
  BY <1>2, <1>3, <1>4 DEF v, IsReplica
<1>7. Item(d, j, a) = [src |-> Source(v), off |-> NItem - 1 - v[3], val |-> v] /\ Source(v) \in Eps
  BY <1>4, <1>5, ValParts
<1>8. ReplOnly(p).dst = d /\ ReplOnly(p).pair = SrcDst(Source(v), d) /\ Head(p.items).src = Source(v)
  BY <1>4, <1>6, <1>7 DEF ReplOnly
<1>9. p.repl.id \in Int
  BY PacketParts DEF ReplHeader
<1>10. ASSUME NEW n \in Nat
       PROVE  /\ ReadEntry(d, p.repl.id, ReadOfReplica(p, d, n)) \in Entry
              /\ IsRead(Source(v), ReadEntry(d, p.repl.id, ReadOfReplica(p, d, n)), Tok("read", d, n, {v}))
  <2> DEFINE f == ReadOfReplica(p, d, n)
  <2>1. f \in Packet /\ f.items = p.items /\ f.dqp = SrcQp(d) /\ f.psn = n /\ ~f.nak
    BY <1>6, ReadPacket
  <2> HIDE DEF f
  <2>2. ReadEntry(d, p.repl.id, f) \in BridgeEntry
    BY <1>9, <2>1 DEF ReadEntry, Bridge, BridgeEntry, Flags
  <2>3. /\ ReadEntry(d, p.repl.id, f).rx = "repl_only" /\ ReadEntry(d, p.repl.id, f).dst = d
        /\ ReadEntry(d, p.repl.id, f).item = p.repl.id /\ ReadEntry(d, p.repl.id, f).pkt = f
    BY DEF ReadEntry, Bridge
  <2>4. Head(f.items) = Item(v[1], v[2], v[3])
    BY <1>4, <1>5, <2>1
  <2>5. /\ Tok("read", d, n, {v}).ch = <<"read", d>> /\ Tok("read", d, n, {v}).num = n
        /\ Tok("read", d, n, {v}).vals = {v}
    BY DEF Tok
  <2>6. IsRead(Source(v), ReadEntry(d, p.repl.id, f), Tok("read", d, n, {v}))
    BY <1>4, <1>5, <1>6, <2>1, <2>2, <2>3, <2>4, <2>5 DEF IsRead
  <2> QED BY <2>2, <2>6 DEF f, Entry
<1> QED BY <1>4, <1>5, <1>6, <1>8, <1>10 DEF ReadMade

Response(p, e) == [p EXCEPT !.op = "READ_RES_ONLY", !.smac = e]
Acked(p, e) == [p EXCEPT !.op = "ACK", !.smac = e]

\* The answer of a NIC to a READ.
LEMMA ResponsePacket ==
  ASSUME NEW p \in Packet, NEW e \in Eps
  PROVE  /\ Response(p, e) \in Packet /\ Response(p, e).op = "READ_RES_ONLY" /\ Response(p, e).smac = e
         /\ Response(p, e).dqp = p.dqp /\ Response(p, e).psn = p.psn
         /\ Response(p, e).val = p.val /\ Response(p, e).nak = p.nak
BY DEF Response, Packet, Ops

\* The answer of a NIC to a WRITE.
LEMMA AckPacket ==
  ASSUME NEW p \in Packet, NEW e \in Eps
  PROVE  /\ Acked(p, e) \in Packet /\ Acked(p, e).op = "ACK" /\ Acked(p, e).smac = e
         /\ Acked(p, e).dqp = p.dqp /\ Acked(p, e).nak = p.nak
BY DEF Acked, Packet, Ops

\* The NAK of a NIC.
LEMMA NakPacket ==
  ASSUME NEW p \in Packet, NEW e \in Eps, NEW n \in Nat
  PROVE  /\ NakOf(e, p, n) \in Packet /\ NakOf(e, p, n).op = "ACK" /\ NakOf(e, p, n).smac = e
         /\ NakOf(e, p, n).dqp = p.dqp /\ NakOf(e, p, n).nak = TRUE
BY DEF NakOf, Packet, Ops

\* The READ as it arrives at the NIC.
LEMMA ReadArriving ==
  ASSUME NEW b, NEW q \in Packet, b.pkt = q, NEW v \in Vals, Head(q.items).val = v
  PROVE  /\ ReadOf(b) \in Packet /\ ReadOf(b).dqp = q.dqp /\ ReadOf(b).psn = q.psn
         /\ ReadOf(b).val = v /\ ReadOf(b).nak = q.nak
<1> DEFINE f == [q EXCEPT !.op = "READ_REQ", !.val = v, !.items = <<>>]
<1>1. ReadOf(b) = f
  BY DEF ReadOf
<1>2. <<>> \in Seq(ItemRec)
  OBVIOUS
<1>3. f \in Packet /\ f.dqp = q.dqp /\ f.psn = q.psn /\ f.val = v /\ f.nak = q.nak
  BY <1>2 DEF Packet, Ops
<1> QED BY <1>1, <1>3

Responds(e, b, t, n) ==
  \E v \in Vals :
    /\ t.ch = <<"read", v[1]>> /\ t.vals = {v} /\ Source(v) = e
    /\ b.dst = v[1] /\ b.item = ItemNumber(v) /\ Head(b.pkt.items).off = NItem - 1 - v[3]
    /\ ReadOf(b).dqp[2] = v[1] /\ ReadOf(b).psn = t.num
    /\ Response(ReadOf(b), e) \in Packet
    /\ IsResponse(e, Response(ReadOf(b), e), Tok("res", v[1], t.num, {v}))
    /\ NakOf(e, ReadOf(b), n) \in Packet
    /\ IsReadNak(e, NakOf(e, ReadOf(b), n), Tok("rnak", v[1], 0, {}))

\* What the NIC of a source sends back.
LEMMA MakeResponse ==
  ASSUME NEW e \in Eps, NEW b, NEW t \in Token, IsRead(e, b, t), NEW n \in Nat
  PROVE  Responds(e, b, t, n)
<1>1. PICK v \in Vals :
        /\ t.ch = <<"read", v[1]>> /\ t.vals = {v} /\ Source(v) = e
        /\ b \in BridgeEntry /\ b.rx = "repl_only" /\ b.dst = v[1] /\ b.item = ItemNumber(v)
        /\ Head(b.pkt.items) = Item(v[1], v[2], v[3]) /\ b.pkt.dqp = SrcQp(v[1])
        /\ b.pkt.psn = t.num /\ ~b.pkt.nak
  BY DEF IsRead
<1>2. b.pkt \in Packet
  BY <1>1 DEF BridgeEntry
<1>3. Head(b.pkt.items).val = v /\ Head(b.pkt.items).off = NItem - 1 - v[3] /\ v[1] \in Eps
  <2>1. /\ Item(v[1], v[2], v[3]) = [src |-> Source(v), off |-> NItem - 1 - v[3], val |-> v]
        /\ v[1] \in Eps
    BY ValParts
  <2>2. Head(b.pkt.items) = [src |-> Source(v), off |-> NItem - 1 - v[3], val |-> v]
    BY <1>1, <2>1
  <2> QED BY <2>1, <2>2
<1> DEFINE f == ReadOf(b)
<1>4. f \in Packet /\ f.dqp = SrcQp(v[1]) /\ f.psn = t.num /\ f.val = v /\ ~f.nak
  BY <1>1, <1>2, <1>3, ReadArriving
<1>5. f.dqp[2] = v[1]
  BY <1>4 DEF SrcQp
<1> HIDE DEF f
<1>6. /\ Tok("res", v[1], t.num, {v}).ch = <<"res", v[1]>> /\ Tok("res", v[1], t.num, {v}).num = t.num
      /\ Tok("res", v[1], t.num, {v}).vals = {v}
      /\ Tok("rnak", v[1], 0, {}).ch = <<"rnak", v[1]>> /\ Tok("rnak", v[1], 0, {}).vals = {}
  BY DEF Tok
<1>7. Response(f, e) \in Packet /\ IsResponse(e, Response(f, e), Tok("res", v[1], t.num, {v}))
  <2>1. /\ Response(f, e) \in Packet /\ Response(f, e).op = "READ_RES_ONLY" /\ Response(f, e).smac = e
        /\ Response(f, e).dqp = f.dqp /\ Response(f, e).psn = f.psn
        /\ Response(f, e).val = f.val /\ Response(f, e).nak = f.nak
    BY <1>4, ResponsePacket
  <2> QED BY <1>1, <1>4, <1>6, <2>1 DEF IsResponse
<1>8. NakOf(e, f, n) \in Packet /\ IsReadNak(e, NakOf(e, f, n), Tok("rnak", v[1], 0, {}))
  <2>1. /\ NakOf(e, f, n) \in Packet /\ NakOf(e, f, n).op = "ACK" /\ NakOf(e, f, n).smac = e
        /\ NakOf(e, f, n).dqp = f.dqp
    BY <1>4, NakPacket
  <2> QED BY <1>3, <1>4, <1>6, <2>1 DEF IsReadNak
<1> QED BY <1>1, <1>3, <1>4, <1>5, <1>7, <1>8 DEF f, Responds

\* The WRITE that IngressReadResponse makes of a response.
WriteEntry(d, item, p) ==
  Bridge("read_response", {"UNIT_REMAIN_ACC", "WRITE_PSN_TO_UNIT_SET"}, d, UnitIdFromItem(item), item, 0, p)

\* The WRITE made of a response.
LEMMA WritePacket ==
  ASSUME NEW p \in Packet, NEW d \in Eps, write_psn[d] \in Nat
  PROVE  /\ WriteOfResponse(p, d) \in Packet /\ WriteOfResponse(p, d).dqp = DstQp
         /\ WriteOfResponse(p, d).psn = write_psn[d] /\ WriteOfResponse(p, d).val = p.val
         /\ WriteOfResponse(p, d).nak = p.nak
<1> DEFINE n == write_psn[d]
           q == [p EXCEPT !.op = "WRITE_ONLY", !.psn = n]
           f == [q EXCEPT !.dqp = DstQp]
<1>1. WriteOfResponse(p, d) = f
  BY DEF WriteOfResponse, ToDst
<1>2. n \in Nat
  OBVIOUS
<1> HIDE DEF n
<1>3. q \in Packet /\ q.psn = n /\ q.val = p.val /\ q.nak = p.nak
  BY <1>2 DEF Packet, Ops
<1>4. DstQp \in {"req", "dst", "src"} \X Int
  BY DEF DstQp
<1> HIDE DEF q
<1>5. f \in Packet /\ f.dqp = DstQp /\ f.psn = q.psn /\ f.val = q.val /\ f.nak = q.nak
  BY <1>3, <1>4 DEF Packet
<1> HIDE DEF f
<1> QED BY <1>1, <1>3, <1>5 DEF n

\* What ingress makes of a response is a queued WRITE of its element.
LEMMA MakeWrite ==
  ASSUME OnePacket, NEW e \in Eps, NEW p \in Packet, NEW t \in Token, IsResponse(e, p, t),
         NEW d \in Eps, RoceCase(p).dst = d, write_psn[d] \in Nat,
         NEW item, \A v \in t.vals : item = ItemNumber(v)
  PROVE  /\ WriteEntry(d, item, WriteOfResponse(p, d)) \in Entry
         /\ IsWrite(d, WriteEntry(d, item, WriteOfResponse(p, d)), Tok("write", d, write_psn[d], t.vals))
         /\ Tok("write", d, write_psn[d], t.vals) \in Token
<1> DEFINE f == WriteOfResponse(p, d)
           n == write_psn[d]
<1>1. PICK v \in Vals :
           /\ t.ch = <<"res", v[1]>> /\ t.vals = {v} /\ Source(v) = e
           /\ p.smac = e /\ p.psn = t.num /\ p.val = v /\ ~p.nak
           /\ RoceCase(p).dst = v[1] /\ RoceCase(p).pair = SrcDst(e, v[1])
  BY ResponseCase
<1>2. v[1] = d /\ item = ItemNumber(v)
  BY <1>1
<1>3. f \in Packet /\ f.dqp = DstQp /\ f.psn = n /\ f.val = p.val /\ f.nak = p.nak
  BY WritePacket
<1>4. /\ UnitIdFromItem(item) = UnitIdFromDst(d, v[2])
      /\ UnitIdFromDst(d, v[2]) \in Int /\ item \in Int
  <2>1. v[2] \in Posts
    BY ValParts
  <2>2. UnitIdFromDst(d, v[2]) \in Units
    BY <2>1, UnitIds
  <2>3. ItemNumber(v) \in Items /\ UnitIdFromItem(ItemNumber(v)) = UnitIdFromDst(v[1], v[2])
    BY ItemIds
  <2> QED BY <1>2, <2>2, <2>3 DEF Units, Items
<1>5. n \in Nat
  OBVIOUS
<1> HIDE DEF f, n
<1> DEFINE b == WriteEntry(d, item, f)
<1>6. b \in BridgeEntry
  BY <1>3, <1>4 DEF WriteEntry, Bridge, BridgeEntry, Flags
<1>7. /\ b.rx = "read_response" /\ b.dst = d /\ b.unit = UnitIdFromItem(item) /\ b.item = item /\ b.pkt = f
  BY DEF WriteEntry, Bridge
<1> HIDE DEF b
<1>8. /\ Tok("write", d, n, t.vals) \in Token
      /\ Tok("write", d, n, t.vals).ch = <<"write", d>> /\ Tok("write", d, n, t.vals).num = n
      /\ Tok("write", d, n, t.vals).vals = t.vals
  <2>1. t.vals \in SUBSET Vals
    BY DEF Token
  <2> QED BY <1>5, <2>1, TokType DEF Classes
<1>9. IsWrite(d, b, Tok("write", d, n, t.vals))
  BY <1>1, <1>2, <1>3, <1>4, <1>6, <1>7, <1>8 DEF IsWrite
<1>10. b \in Entry
  BY <1>6 DEF Entry
<1> QED BY <1>8, <1>9, <1>10 DEF f, n, b

\* The WRITE as it arrives at the NIC: its address is put together from two
\* registers.
LEMMA WriteArriving ==
  ASSUME NEW b, NEW q \in Packet, b.pkt = q, unit_dst_addr[b.unit] + item_write_offset[b.item] \in Int
  PROVE  /\ WriteOf(b) \in Packet /\ WriteOf(b).dqp = q.dqp /\ WriteOf(b).psn = q.psn
         /\ WriteOf(b).val = q.val /\ WriteOf(b).nak = q.nak
         /\ WriteOf(b).ackreq = (Wrap8(unit_remain[b.unit] - 1) = 0)
         /\ WriteOf(b).addr = unit_dst_addr[b.unit] + item_write_offset[b.item]
<1> DEFINE a == unit_dst_addr[b.unit] + item_write_offset[b.item]
           c == (Wrap8(unit_remain[b.unit] - 1) = 0)
           f == [q EXCEPT !.ackreq = c, !.addr = a]
<1>1. WriteOf(b) = f
  BY DEF WriteOf
<1>2. a \in Int /\ c \in BOOLEAN
  OBVIOUS
<1> HIDE DEF a, c
<1>3. /\ f \in Packet /\ f.dqp = q.dqp /\ f.psn = q.psn /\ f.val = q.val /\ f.nak = q.nak
      /\ f.ackreq = c /\ f.addr = a
  BY <1>2 DEF Packet
<1> HIDE DEF f
<1> QED BY <1>1, <1>3 DEF a, c

Answers(e, b, t, n) ==
  \E v \in Vals :
    /\ v[1] = e /\ t.ch = <<"write", e>> /\ t.vals = {v} /\ b.dst = e
    /\ b.unit = UnitIdFromDst(e, v[2]) /\ b.item = ItemNumber(v)
    /\ WriteOf(b).psn = t.num /\ WriteOf(b).val = v
    /\ WriteOf(b).ackreq = (Wrap8(unit_remain[b.unit] - 1) = 0)
    /\ WriteOf(b).addr = unit_dst_addr[b.unit] + item_write_offset[b.item]
    /\ Acked(WriteOf(b), e) \in Packet
    /\ IsWriteAnswer(e, Acked(WriteOf(b), e), Tok("ack", e, 0, {}))
    /\ NakOf(e, WriteOf(b), n) \in Packet
    /\ IsWriteAnswer(e, NakOf(e, WriteOf(b), n), Tok("wnak", e, 0, {}))

\* What the NIC of a requester sends back.
LEMMA MakeAnswer ==
  ASSUME NEW e \in Eps, NEW b, NEW t \in Token, IsWrite(e, b, t), NEW n \in Nat,
         unit_dst_addr[b.unit] + item_write_offset[b.item] \in Int
  PROVE  Answers(e, b, t, n)
<1>1. PICK v \in Vals :
        /\ v[1] = e /\ t.ch = <<"write", e>> /\ t.vals = {v}
        /\ b \in BridgeEntry /\ b.rx = "read_response" /\ b.dst = e
        /\ b.unit = UnitIdFromDst(e, v[2]) /\ b.item = ItemNumber(v)
        /\ b.pkt.dqp = DstQp /\ b.pkt.val = v /\ b.pkt.psn = t.num /\ ~b.pkt.nak
  BY DEF IsWrite
<1>2. b.pkt \in Packet
  BY <1>1 DEF BridgeEntry
<1> DEFINE f == WriteOf(b)
<1>3. /\ f \in Packet /\ f.dqp = DstQp /\ f.psn = t.num /\ f.val = v /\ ~f.nak
      /\ f.ackreq = (Wrap8(unit_remain[b.unit] - 1) = 0)
      /\ f.addr = unit_dst_addr[b.unit] + item_write_offset[b.item]
  BY <1>1, <1>2, WriteArriving
<1> HIDE DEF f
<1>4. /\ Tok("ack", e, 0, {}).ch = <<"ack", e>> /\ Tok("ack", e, 0, {}).vals = {}
      /\ Tok("wnak", e, 0, {}).ch = <<"wnak", e>> /\ Tok("wnak", e, 0, {}).vals = {}
  BY DEF Tok
<1>5. Acked(f, e) \in Packet /\ IsWriteAnswer(e, Acked(f, e), Tok("ack", e, 0, {}))
  <2>1. /\ Acked(f, e) \in Packet /\ Acked(f, e).op = "ACK" /\ Acked(f, e).smac = e
        /\ Acked(f, e).dqp = f.dqp /\ Acked(f, e).nak = f.nak
    BY <1>3, AckPacket
  <2> QED BY <1>3, <1>4, <2>1 DEF IsWriteAnswer
<1>6. NakOf(e, f, n) \in Packet /\ IsWriteAnswer(e, NakOf(e, f, n), Tok("wnak", e, 0, {}))
  <2>1. /\ NakOf(e, f, n) \in Packet /\ NakOf(e, f, n).op = "ACK" /\ NakOf(e, f, n).smac = e
        /\ NakOf(e, f, n).dqp = f.dqp /\ NakOf(e, f, n).nak = TRUE
    BY <1>3, NakPacket
  <2> QED BY <1>3, <1>4, <2>1 DEF IsWriteAnswer
<1> QED BY <1>1, <1>3, <1>5, <1>6 DEF f, Answers

AckEntry(d, p) ==
  Bridge("write_ack", {"REQ_UNACK_UNIT_SET"}, d, UnitIdFromDst(d, p.psn), ItemIdFromDst(d, p.psn), 0, ToReq(d, p))

\* What ingress makes of an ACK is a queued ACK.
LEMMA MakeAck ==
  ASSUME NEW e \in Eps, NEW p \in Packet, NEW t \in Token, IsWriteAnswer(e, p, t), ~p.nak
  PROVE  AckEntry(e, p) \in Entry /\ IsAck(e, AckEntry(e, p), t)
<1> DEFINE f == [p EXCEPT !.dqp = ReqQp]
<1>1. ReqQp \in {"req", "dst", "src"} \X Int
  BY DEF ReqQp
<1>2. f \in Packet
  BY <1>1 DEF Packet
<1>3. ToReq(e, p) = f
  BY DEF ToReq
<1> HIDE DEF f
<1>4. UnitIdFromDst(e, p.psn) \in Int /\ ItemIdFromDst(e, p.psn) \in Int
  <2>1. UNIT_PER_ENDP \in Nat \ {0} /\ ITEM_PER_UNIT \in Nat /\ e \in Nat /\ p.psn \in Nat
    BY Sizes, Constants, PacketParts
  <2>2. PICK m \in Int : m = p.psn % UNIT_PER_ENDP
    BY <2>1
  <2>3. UnitIdFromDst(e, p.psn) \in Int
    BY <2>1, <2>2 DEF UnitIdFromDst
  <2> QED BY <2>1, <2>3 DEF ItemIdFromDst
<1> DEFINE b == AckEntry(e, p)
<1>5. b \in BridgeEntry
  <2>1. b = Bridge("write_ack", {"REQ_UNACK_UNIT_SET"}, e, UnitIdFromDst(e, p.psn), ItemIdFromDst(e, p.psn), 0, f)
    BY <1>3 DEF AckEntry
  <2> HIDE DEF b
  <2> QED BY <1>2, <1>4, <2>1 DEF Bridge, BridgeEntry, Flags
<1>6. b.rx = "write_ack" /\ b.dst = e
  BY DEF AckEntry, Bridge
<1>7. t.ch = <<"ack", e>> /\ t.vals = {}
  BY DEF IsWriteAnswer
<1> HIDE DEF b
<1>8. b \in Entry /\ IsAck(e, b, t)
  BY <1>5, <1>6, <1>7 DEF IsAck, Entry
<1> QED BY <1>8 DEF b

\* A remainder lies below the divisor.
LEMMA ModRange ==
  ASSUME NEW n \in Nat \ {0}, NEW P \in Nat
  PROVE  P % n \in 0 .. n - 1 /\ P % n <= P /\ (P % n) % n = P % n
<1>1. P % n \in 0 .. n - 1
  BY ModType
<1>2. P % n <= P
  <2>1. CASE P < n
    <3>1. P \in 0 .. n - 1
      BY <2>1
    <3>2. P % n = P
      BY <3>1, ModSmall
    <3> QED BY <3>2
  <2>2. CASE ~(P < n)
    BY <1>1, <2>2
  <2> QED BY <2>1, <2>2
<1> DEFINE r == P % n
<1>3. r \in 0 .. n - 1
  BY <1>1
<1> HIDE DEF r
<1>4. r % n = r
  BY <1>3, ModSmall
<1> QED BY <1>1, <1>2, <1>4 DEF r

\* The unit to acknowledge next is one of the endpoint's.
LEMMA UnackRange ==
  ASSUME NEW P \in Nat \ {0}, NEW u \in {0, Wrap16(P)}
  PROVE  u \in Nat /\ u <= P /\ Wrap16(u - 0) = u
<1>1. 2^16 = 65536
  OBVIOUS
<1>2. PICK n \in Nat \ {0} : n = 2^16
  BY <1>1
<1>3. \A x \in Int : Wrap16(x) = x % n
  BY <1>2 DEF Wrap16
<1>4. P % n \in Nat /\ P % n <= P /\ (P % n) % n = P % n
  <2>1. P \in Nat
    OBVIOUS
  <2>2. P % n \in 0 .. n - 1 /\ P % n <= P /\ (P % n) % n = P % n
    BY <2>1, ModRange
  <2> QED BY <2>2
<1>5. 0 % n = 0
  BY ModSmall
<1>6. CASE u = 0
  BY <1>3, <1>5, <1>6
<1>7. CASE u = Wrap16(P)
  <2>1. u = P % n
    BY <1>3, <1>7
  <2>2. u - 0 = u
    BY <1>4, <2>1
  <2> QED BY <1>3, <1>4, <2>1, <2>2
<1> QED BY <1>6, <1>7

\* A request whose PSN is the one expected is in its place.
LEMMA CorrectCase ==
  ASSUME OnePacket, NEW d \in Eps, NEW k \in Nat, NEW b, b.dst = d, b.pkt.psn = k, req_epsn[d] = k,
         Shl(b) = 0, req_unack_unit[d] \in {0, Wrap16(Pow2(SHL_UNIT_SHIFT))}
  PROVE  CaseOf(b) = "correct"
<1> DEFINE P == Pow2(SHL_UNIT_SHIFT)
           u == req_unack_unit[d]
           U == UNIT_PER_ENDP
<1>1. /\ P \in Nat \ {0} /\ U \in Nat /\ U >= 4
      /\ Pow2(PsnBits) \in Nat \ {0} /\ Pow2(RegBits) \in Nat \ {0}
      /\ Pow2(RegBits - PsnBits) \in Nat \ {0, 1}
  BY Sizes, FourUnits
<1>3. u \in Nat /\ u <= P /\ Wrap16(u - 0) = u
  BY <1>1, UnackRange
<1>5. (U - 1) * P >= 3 * P
  <2>1. PICK m \in Nat : m = U - 1
    BY <1>1
  <2>2. 3 * P <= m * P
    BY <1>1, <2>1, MulMonotone
  <2> QED BY <1>1, <2>1, <2>2
<1>6. u # (U - 1) * P
  <2>1. PICK x \in Int : x = (U - 1) * P
    BY <1>1
  <2>2. PICK p \in Nat \ {0} : p = P
    BY <1>1
  <2> HIDE DEF u, P, U
  <2>3. x >= 3 * p /\ u <= p /\ u \in Int
    BY <1>3, <1>5, <2>1, <2>2
  <2>4. u # x
    BY <2>3
  <2> QED BY <2>1, <2>4
<1>7. Wrap(k - k) = 0 /\ 0 \div Pow2(PsnBits) = 0 /\ 0 % Pow2(PsnBits) = 0 /\ 0 % U = 0 /\ 0 \div U = 0
  <2>1. k - k = 0
    OBVIOUS
  <2> QED BY <1>1, <2>1, ModSmall DEF Wrap
<1>8. \A j \in 0 .. U - 1 : ~(0 > (0 + j) % U)
  BY <1>1
<1>9. CaseOf(b) = RequestCase(0, u)
  BY <1>3, <1>7 DEF CaseOf
<1> HIDE DEF P, u, U
<1>10. RequestCase(0, u) = "correct"
  BY <1>1, <1>6, <1>7, <1>8 DEF RequestCase, P, U
<1> QED BY <1>9, <1>10

-----------------------------------------------------------------------------
(* The parts of the invariant about the tokens: the numbers in a channel   *)

Taken(w, port) == [w EXCEPT ![port] = Tail(@)]
Given(w, port, x) == [w EXCEPT ![port] = Append(@, x)]

\* Requests: K is what ingress has seen.
ReqWin(T, K, sn, rq) ==
  \A d \in Eps :
    /\ Ranged(T[WireOf(Nic(d))], <<"req", d>>, K[d], sn[d])
    /\ Dense(T[WireOf(Nic(d))], <<"req", d>>, K[d], sn[d])
    /\ Ranged(T[TmOf(Lpbk(d))], <<"req", d>>, rq[d], K[d])
    /\ Dense(T[TmOf(Lpbk(d))], <<"req", d>>, rq[d], K[d])

\* READs and their responses: R is the number of READ PSNs given out, U is
\* after the last response that came; c says that nothing has gone wrong.
ReadWin(T, R, U, re, c) ==
  \A e, d \in Eps :
    /\ Ranged(T[TmOf(Nic(e))], <<"read", d>>, re[SrcDst(e, d)], R[SrcDst(e, d)])
    /\ Ranged(T[WireOf(Nic(e))], <<"res", d>>, U[SrcDst(e, d)], re[SrcDst(e, d)])
    /\ c => Dense(T[TmOf(Nic(e))], <<"read", d>>, re[SrcDst(e, d)], R[SrcDst(e, d)])

\* WRITEs: W of them have been made, L have left the switch.
WriteWin(T, L, W) ==
  \A d \in Eps :
    /\ Ranged(T[TmOf(Nic(d))], <<"write", d>>, L[d], W[d])
    /\ Dense(T[TmOf(Nic(d))], <<"write", d>>, L[d], W[d])

\* The first token of its channel goes.
LEMMA PopFirst ==
  ASSUME NEW T \in TokenQueues, NEW q \in Queues, T[q] # <<>>,
         NEW c, NEW lo \in Nat, NEW hi \in Nat, Ranged(T[q], c, lo, hi), Head(T[q]).ch = c
  PROVE  /\ Head(T[q]).num \in Nat /\ lo <= Head(T[q]).num /\ Head(T[q]).num < hi
         /\ Ranged(Pop(T, q)[q], c, Head(T[q]).num + 1, hi)
         /\ Dense(T[q], c, lo, hi) => Head(T[q]).num = lo /\ Dense(Pop(T, q)[q], c, lo + 1, hi)
<1>1. T[q] \in Seq(Token) /\ Pop(T, q)[q] = Tail(T[q]) /\ Head(T[q]) \in Token
  BY PopIs
<1>2. Head(T[q]).num \in Nat
  BY <1>1 DEF Token
<1> DEFINE s == T[q]
<1> HIDE DEF s
<1>3. s \in Seq(Token) /\ s # <<>> /\ Ranged(s, c, lo, hi) /\ Head(s).ch = c
  BY <1>1 DEF s
<1>4. /\ lo <= Head(s).num /\ Head(s).num < hi
      /\ Ranged(Tail(s), c, Head(s).num + 1, hi)
      /\ Dense(s, c, lo, hi) => Head(s).num = lo /\ Dense(Tail(s), c, lo + 1, hi)
  BY <1>3, TailRanged
<1> QED BY <1>1, <1>2, <1>4 DEF s

\* Taking a packet that is no request keeps the numbers of the requests.
LEMMA ReqWinPop ==
  ASSUME NEW T \in TokenQueues, NEW K \in [Eps -> Nat], NEW sn \in [Eps -> Nat], NEW rq \in [Eps -> Nat],
         ReqWin(T, K, sn, rq), NEW q \in Queues, T[q] # <<>>, Head(T[q]).ch[1] # "req"
  PROVE  ReqWin(Pop(T, q), K, sn, rq)
<1>1. \A d \in Eps : Head(T[q]).ch # <<"req", d>>
  OBVIOUS
<1>2. ASSUME NEW d \in Eps
      PROVE  /\ Ranged(Pop(T, q)[WireOf(Nic(d))], <<"req", d>>, K[d], sn[d])
             /\ Dense(Pop(T, q)[WireOf(Nic(d))], <<"req", d>>, K[d], sn[d])
             /\ Ranged(Pop(T, q)[TmOf(Lpbk(d))], <<"req", d>>, rq[d], K[d])
             /\ Dense(Pop(T, q)[TmOf(Lpbk(d))], <<"req", d>>, rq[d], K[d])
  <2>1. WireOf(Nic(d)) \in Queues /\ TmOf(Lpbk(d)) \in Queues
    BY QueueNames
  <2>2. K[d] \in Nat /\ sn[d] \in Nat /\ rq[d] \in Nat
    OBVIOUS
  <2>3. /\ Ranged(T[WireOf(Nic(d))], <<"req", d>>, K[d], sn[d])
        /\ Dense(T[WireOf(Nic(d))], <<"req", d>>, K[d], sn[d])
        /\ Ranged(T[TmOf(Lpbk(d))], <<"req", d>>, rq[d], K[d])
        /\ Dense(T[TmOf(Lpbk(d))], <<"req", d>>, rq[d], K[d])
    BY DEF ReqWin
  <2>4. /\ Ranged(Pop(T, q)[WireOf(Nic(d))], <<"req", d>>, K[d], sn[d])
        /\ Dense(Pop(T, q)[WireOf(Nic(d))], <<"req", d>>, K[d], sn[d])
    BY <1>1, <2>1, <2>2, <2>3, PopRanged
  <2>5. /\ Ranged(Pop(T, q)[TmOf(Lpbk(d))], <<"req", d>>, rq[d], K[d])
        /\ Dense(Pop(T, q)[TmOf(Lpbk(d))], <<"req", d>>, rq[d], K[d])
    BY <1>1, <2>1, <2>2, <2>3, PopRanged
  <2> QED BY <2>4, <2>5
<1> QED BY <1>2 DEF ReqWin

\* ... and so does putting one.
LEMMA ReqWinPut ==
  ASSUME NEW T \in TokenQueues, NEW K \in [Eps -> Nat], NEW sn \in [Eps -> Nat], NEW rq \in [Eps -> Nat],
         ReqWin(T, K, sn, rq), NEW q \in Queues, NEW x \in Token, x.ch[1] # "req"
  PROVE  ReqWin(Put(T, q, x), K, sn, rq)
<1>1. \A d \in Eps : x.ch # <<"req", d>>
  OBVIOUS
<1>2. ASSUME NEW d \in Eps
      PROVE  /\ Ranged(Put(T, q, x)[WireOf(Nic(d))], <<"req", d>>, K[d], sn[d])
             /\ Dense(Put(T, q, x)[WireOf(Nic(d))], <<"req", d>>, K[d], sn[d])
             /\ Ranged(Put(T, q, x)[TmOf(Lpbk(d))], <<"req", d>>, rq[d], K[d])
             /\ Dense(Put(T, q, x)[TmOf(Lpbk(d))], <<"req", d>>, rq[d], K[d])
  <2>1. WireOf(Nic(d)) \in Queues /\ TmOf(Lpbk(d)) \in Queues
    BY QueueNames
  <2>2. K[d] \in Nat /\ sn[d] \in Nat /\ rq[d] \in Nat
    OBVIOUS
  <2>3. /\ Ranged(T[WireOf(Nic(d))], <<"req", d>>, K[d], sn[d])
        /\ Dense(T[WireOf(Nic(d))], <<"req", d>>, K[d], sn[d])
        /\ Ranged(T[TmOf(Lpbk(d))], <<"req", d>>, rq[d], K[d])
        /\ Dense(T[TmOf(Lpbk(d))], <<"req", d>>, rq[d], K[d])
    BY DEF ReqWin
  <2>4. /\ Ranged(Put(T, q, x)[WireOf(Nic(d))], <<"req", d>>, K[d], sn[d])
        /\ Dense(Put(T, q, x)[WireOf(Nic(d))], <<"req", d>>, K[d], sn[d])
    BY <1>1, <2>1, <2>2, <2>3, PutRanged
  <2>5. /\ Ranged(Put(T, q, x)[TmOf(Lpbk(d))], <<"req", d>>, rq[d], K[d])
        /\ Dense(Put(T, q, x)[TmOf(Lpbk(d))], <<"req", d>>, rq[d], K[d])
    BY <1>1, <2>1, <2>2, <2>3, PutRanged
  <2> QED BY <2>4, <2>5
<1> QED BY <1>2 DEF ReqWin

\* A channel's number moves on, those of the others stay.
LEMMA Bumped ==
  ASSUME NEW X, NEW f \in [X -> Nat], NEW i \in X
  PROVE  /\ [f EXCEPT ![i] = @ + 1] \in [X -> Nat]
         /\ [f EXCEPT ![i] = @ + 1][i] = f[i] + 1
         /\ \A j \in X : j # i => [f EXCEPT ![i] = @ + 1][j] = f[j]
OBVIOUS

\* An endpoint sends the next request.
LEMMA ReqWinSend ==
  ASSUME NEW T \in TokenQueues, NEW K \in [Eps -> Nat], NEW sn \in [Eps -> Nat], NEW rq \in [Eps -> Nat],
         ReqWin(T, K, sn, rq), NEW d \in Eps, NEW x \in Token, x.ch = <<"req", d>>, x.num = sn[d]
  PROVE  ReqWin(Put(T, WireOf(Nic(d)), x), K, [sn EXCEPT ![d] = @ + 1], rq)
<1> DEFINE q == WireOf(Nic(d))
           s1 == [sn EXCEPT ![d] = @ + 1]
<1>1. s1[d] = sn[d] + 1 /\ \A i \in Eps : i # d => s1[i] = sn[i]
  BY Bumped
<1> HIDE DEF s1
<1>2. ASSUME NEW i \in Eps
      PROVE  /\ Ranged(Put(T, q, x)[WireOf(Nic(i))], <<"req", i>>, K[i], s1[i])
             /\ Dense(Put(T, q, x)[WireOf(Nic(i))], <<"req", i>>, K[i], s1[i])
             /\ Ranged(Put(T, q, x)[TmOf(Lpbk(i))], <<"req", i>>, rq[i], K[i])
             /\ Dense(Put(T, q, x)[TmOf(Lpbk(i))], <<"req", i>>, rq[i], K[i])
  <2>1. WireOf(Nic(i)) \in Queues /\ TmOf(Lpbk(i)) \in Queues /\ q \in Queues /\ TmOf(Lpbk(i)) # q
    BY QueueNames
  <2>2. K[i] \in Nat /\ sn[i] \in Nat /\ rq[i] \in Nat
    OBVIOUS
  <2>3. /\ Ranged(T[WireOf(Nic(i))], <<"req", i>>, K[i], sn[i])
        /\ Dense(T[WireOf(Nic(i))], <<"req", i>>, K[i], sn[i])
        /\ Ranged(T[TmOf(Lpbk(i))], <<"req", i>>, rq[i], K[i])
        /\ Dense(T[TmOf(Lpbk(i))], <<"req", i>>, rq[i], K[i])
    BY DEF ReqWin
  <2>4. Put(T, q, x)[TmOf(Lpbk(i))] = T[TmOf(Lpbk(i))]
    BY <2>1, PutIs
  <2>5. CASE i = d
    <3>1. /\ Ranged(Put(T, q, x)[WireOf(Nic(i))], <<"req", i>>, K[i], sn[i] + 1)
          /\ Dense(Put(T, q, x)[WireOf(Nic(i))], <<"req", i>>, K[i], sn[i] + 1)
      BY <2>1, <2>2, <2>3, <2>5, PutRanged
    <3> QED BY <1>1, <2>3, <2>4, <2>5, <3>1
  <2>6. CASE i # d
    <3>1. x.ch # <<"req", i>>
      BY <2>6
    <3>2. /\ Ranged(Put(T, q, x)[WireOf(Nic(i))], <<"req", i>>, K[i], sn[i])
          /\ Dense(Put(T, q, x)[WireOf(Nic(i))], <<"req", i>>, K[i], sn[i])
      BY <2>1, <2>2, <2>3, <3>1, PutRanged
    <3> QED BY <1>1, <2>3, <2>4, <2>6, <3>2
  <2> QED BY <2>5, <2>6
<1> QED BY <1>2 DEF ReqWin, q, s1

\* Ingress sees a request.
LEMMA ReqWinIngress ==
  ASSUME NEW T \in TokenQueues, NEW K \in [Eps -> Nat], NEW sn \in [Eps -> Nat], NEW rq \in [Eps -> Nat],
         ReqWin(T, K, sn, rq), NEW d \in Eps, T[WireOf(Nic(d))] # <<>>,
         Head(T[WireOf(Nic(d))]).ch = <<"req", d>>
  PROVE  ReqWin(Put(Pop(T, WireOf(Nic(d))), TmOf(Lpbk(d)), Head(T[WireOf(Nic(d))])),
                [K EXCEPT ![d] = @ + 1], sn, rq)
<1> DEFINE q == WireOf(Nic(d))
           q2 == TmOf(Lpbk(d))
           x == Head(T[q])
           T1 == Pop(T, q)
           T2 == Put(T1, q2, x)
           K1 == [K EXCEPT ![d] = @ + 1]
<1>1. K1[d] = K[d] + 1 /\ K1 \in [Eps -> Nat] /\ \A i \in Eps : i # d => K1[i] = K[i]
  BY Bumped
<1> HIDE DEF K1
<1>2. q \in Queues /\ q2 \in Queues /\ q # q2 /\ T[q] # <<>>
  BY QueueNames
<1>3. T1 \in TokenQueues /\ x \in Token
  BY <1>2, PopIs
<1> HIDE DEF T1, T2, q, q2, x
<1>4. ASSUME NEW i \in Eps
      PROVE  /\ Ranged(T2[WireOf(Nic(i))], <<"req", i>>, K1[i], sn[i])
             /\ Dense(T2[WireOf(Nic(i))], <<"req", i>>, K1[i], sn[i])
             /\ Ranged(T2[TmOf(Lpbk(i))], <<"req", i>>, rq[i], K1[i])
             /\ Dense(T2[TmOf(Lpbk(i))], <<"req", i>>, rq[i], K1[i])
  <2>1. /\ WireOf(Nic(i)) \in Queues /\ TmOf(Lpbk(i)) \in Queues
        /\ WireOf(Nic(i)) # q2 /\ TmOf(Lpbk(i)) # q
    BY QueueNames DEF q, q2
  <2>2. K[i] \in Nat /\ sn[i] \in Nat /\ rq[i] \in Nat /\ K[i] + 1 \in Nat
    OBVIOUS
  <2>3. /\ Ranged(T[WireOf(Nic(i))], <<"req", i>>, K[i], sn[i])
        /\ Dense(T[WireOf(Nic(i))], <<"req", i>>, K[i], sn[i])
        /\ Ranged(T[TmOf(Lpbk(i))], <<"req", i>>, rq[i], K[i])
        /\ Dense(T[TmOf(Lpbk(i))], <<"req", i>>, rq[i], K[i])
    BY DEF ReqWin
  <2>4. T2[WireOf(Nic(i))] = T1[WireOf(Nic(i))] /\ T1[TmOf(Lpbk(i))] = T[TmOf(Lpbk(i))]
    BY <1>2, <1>3, <2>1, PutIs, PopIs DEF T2, T1, q
  <2>5. Ranged(T1[TmOf(Lpbk(i))], <<"req", i>>, rq[i], K[i]) /\ Dense(T1[TmOf(Lpbk(i))], <<"req", i>>, rq[i], K[i])
    BY <2>3, <2>4
  <2>6. CASE i = d
    <3>1. WireOf(Nic(i)) = q /\ TmOf(Lpbk(i)) = q2 /\ x.ch = <<"req", i>> /\ T[q] # <<>> /\ x = Head(T[q])
      BY <2>6 DEF q, q2, x
    <3>2. /\ x.num = K[i]
          /\ Ranged(T1[WireOf(Nic(i))], <<"req", i>>, x.num + 1, sn[i])
          /\ Dense(T1[WireOf(Nic(i))], <<"req", i>>, K[i] + 1, sn[i])
      <4>1. /\ Ranged(T[q], <<"req", i>>, K[i], sn[i]) /\ Dense(T[q], <<"req", i>>, K[i], sn[i])
            /\ Head(T[q]).ch = <<"req", i>>
        BY <2>3, <3>1
      <4>2. /\ Ranged(Pop(T, q)[q], <<"req", i>>, Head(T[q]).num + 1, sn[i])
            /\ Head(T[q]).num = K[i] /\ Dense(Pop(T, q)[q], <<"req", i>>, K[i] + 1, sn[i])
        BY <1>2, <2>2, <4>1, PopFirst
      <4> QED BY <3>1, <4>2 DEF T1
    <3>3. /\ Ranged(T2[TmOf(Lpbk(i))], <<"req", i>>, rq[i], K[i] + 1)
          /\ Dense(T2[TmOf(Lpbk(i))], <<"req", i>>, rq[i], K[i] + 1)
      BY <1>2, <1>3, <2>1, <2>2, <2>5, <3>1, <3>2, PutRanged DEF T2
    <3> QED BY <1>1, <2>4, <2>6, <3>2, <3>3
  <2>7. CASE i # d
    <3>1. x.ch # <<"req", i>> /\ T[q] # <<>> /\ x = Head(T[q])
      BY <2>7 DEF q, x
    <3>2. /\ Ranged(T1[WireOf(Nic(i))], <<"req", i>>, K[i], sn[i])
          /\ Dense(T1[WireOf(Nic(i))], <<"req", i>>, K[i], sn[i])
      BY <1>2, <2>1, <2>2, <2>3, <3>1, PopRanged DEF T1
    <3>3. /\ Ranged(T2[TmOf(Lpbk(i))], <<"req", i>>, rq[i], K[i])
          /\ Dense(T2[TmOf(Lpbk(i))], <<"req", i>>, rq[i], K[i])
      BY <1>2, <1>3, <2>1, <2>2, <2>5, <3>1, PutRanged DEF T2
    <3> QED BY <1>1, <2>4, <2>7, <3>2, <3>3
  <2> QED BY <2>6, <2>7
<1> QED BY <1>4 DEF ReqWin, K1, T2, T1, q, q2, x

\* A request arrives on its loopback port.
LEMMA ReqWinLoop ==
  ASSUME NEW T \in TokenQueues, NEW K \in [Eps -> Nat], NEW sn \in [Eps -> Nat], NEW rq \in [Eps -> Nat],
         ReqWin(T, K, sn, rq), NEW d \in Eps, T[TmOf(Lpbk(d))] # <<>>,
         Head(T[TmOf(Lpbk(d))]).ch = <<"req", d>>
  PROVE  /\ ReqWin(Pop(T, TmOf(Lpbk(d))), K, sn, [rq EXCEPT ![d] = @ + 1])
         /\ Head(T[TmOf(Lpbk(d))]).num = rq[d] /\ rq[d] < sn[d]
<1> DEFINE q == TmOf(Lpbk(d))
           x == Head(T[q])
           T1 == Pop(T, q)
           r1 == [rq EXCEPT ![d] = @ + 1]
<1>1. r1[d] = rq[d] + 1 /\ \A i \in Eps : i # d => r1[i] = rq[i]
  BY Bumped
<1> HIDE DEF r1
<1>2. q \in Queues /\ T[q] # <<>> /\ x = Head(T[q]) /\ x.ch = <<"req", d>>
  BY QueueNames
<1> HIDE DEF T1, q, x
<1>4. ASSUME NEW i \in Eps
      PROVE  /\ Ranged(T1[WireOf(Nic(i))], <<"req", i>>, K[i], sn[i])
             /\ Dense(T1[WireOf(Nic(i))], <<"req", i>>, K[i], sn[i])
             /\ Ranged(T1[TmOf(Lpbk(i))], <<"req", i>>, r1[i], K[i])
             /\ Dense(T1[TmOf(Lpbk(i))], <<"req", i>>, r1[i], K[i])
             /\ i = d => x.num = rq[d] /\ rq[d] < sn[d]
  <2>1. /\ WireOf(Nic(i)) \in Queues /\ TmOf(Lpbk(i)) \in Queues
        /\ WireOf(Nic(i)) # q
    BY QueueNames DEF q
  <2>2. K[i] \in Nat /\ sn[i] \in Nat /\ rq[i] \in Nat
    OBVIOUS
  <2>3. /\ Ranged(T[WireOf(Nic(i))], <<"req", i>>, K[i], sn[i])
        /\ Dense(T[WireOf(Nic(i))], <<"req", i>>, K[i], sn[i])
        /\ Ranged(T[TmOf(Lpbk(i))], <<"req", i>>, rq[i], K[i])
        /\ Dense(T[TmOf(Lpbk(i))], <<"req", i>>, rq[i], K[i])
    BY DEF ReqWin
  <2>4. T1[WireOf(Nic(i))] = T[WireOf(Nic(i))]
    BY <1>2, <2>1, PopIs DEF T1
  <2>5. CASE i = d
    <3>1. TmOf(Lpbk(i)) = q /\ x.ch = <<"req", i>>
      BY <1>2, <2>5 DEF q
    <3>2. /\ x.num = rq[i] /\ x.num < K[i]
          /\ Ranged(T1[TmOf(Lpbk(i))], <<"req", i>>, x.num + 1, K[i])
          /\ Dense(T1[TmOf(Lpbk(i))], <<"req", i>>, rq[i] + 1, K[i])
      <4>1. /\ Ranged(T[q], <<"req", i>>, rq[i], K[i]) /\ Dense(T[q], <<"req", i>>, rq[i], K[i])
            /\ Head(T[q]).ch = <<"req", i>>
        BY <1>2, <2>3, <3>1
      <4>2. /\ Ranged(Pop(T, q)[q], <<"req", i>>, Head(T[q]).num + 1, K[i])
            /\ Head(T[q]).num = rq[i] /\ Head(T[q]).num < K[i]
            /\ Dense(Pop(T, q)[q], <<"req", i>>, rq[i] + 1, K[i])
        BY <1>2, <2>2, <4>1, PopFirst
      <4> QED BY <1>2, <3>1, <4>2 DEF T1
    <3>3. K[i] <= sn[i]
      BY <2>3 DEF Ranged
    <3> QED BY <1>1, <2>2, <2>3, <2>4, <2>5, <3>2, <3>3
  <2>6. CASE i # d
    <3>1. x.ch # <<"req", i>>
      BY <1>2, <2>6
    <3>2. /\ Ranged(T1[TmOf(Lpbk(i))], <<"req", i>>, rq[i], K[i])
          /\ Dense(T1[TmOf(Lpbk(i))], <<"req", i>>, rq[i], K[i])
      BY <1>2, <2>1, <2>2, <2>3, <3>1, PopRanged DEF T1
    <3> QED BY <1>1, <2>3, <2>4, <2>6, <3>2
  <2> QED BY <2>5, <2>6
<1>5. x.num = rq[d] /\ rq[d] < sn[d]
  BY <1>4
<1> QED BY <1>4, <1>5 DEF ReqWin, r1, T1, q, x

-----------------------------------------------------------------------------

\* Numbers below a bound are below a larger one.
LEMMA RangedMore ==
  ASSUME NEW s, NEW c, NEW lo \in Nat, NEW hi \in Nat, NEW hi1 \in Nat, hi <= hi1, Ranged(s, c, lo, hi),
         \A n \in 1 .. Len(s) : s[n].num \in Nat
  PROVE  Ranged(s, c, lo, hi1)
BY DEF Ranged

\* READs and their answers keep to the queues of one NIC.
LEMMA ReadChannels ==
  ASSUME NEW e \in Eps, NEW d \in Eps
  PROVE  /\ TmOf(Nic(e)) \in Queues /\ WireOf(Nic(e)) \in Queues /\ SrcDst(e, d) \in Pairs
         /\ \A i \in Eps : TmOf(Nic(e)) # WireOf(Nic(i)) /\ WireOf(Nic(e)) # TmOf(Nic(i))
         /\ \A i, j \in Eps :
              /\ SrcDst(i, j) = SrcDst(e, d) => i = e /\ j = d
              /\ TmOf(Nic(i)) = TmOf(Nic(e)) => i = e
              /\ WireOf(Nic(i)) = WireOf(Nic(e)) => i = e
<1>1. TmOf(Nic(e)) \in Queues /\ WireOf(Nic(e)) \in Queues /\ SrcDst(e, d) \in Pairs
  BY QueueNames, PairIds
<1>2. \A i \in Eps : TmOf(Nic(e)) # WireOf(Nic(i)) /\ WireOf(Nic(e)) # TmOf(Nic(i))
  BY QueueNames
<1>3. ASSUME NEW i \in Eps, NEW j \in Eps
      PROVE  /\ SrcDst(i, j) = SrcDst(e, d) => i = e /\ j = d
             /\ TmOf(Nic(i)) = TmOf(Nic(e)) => i = e
             /\ WireOf(Nic(i)) = WireOf(Nic(e)) => i = e
  BY QueueNames, PairIds
<1> QED BY <1>1, <1>2, <1>3

\* What ReadWin says of one pair of endpoints.
LEMMA ReadWinParts ==
  ASSUME NEW T \in TokenQueues, NEW R \in [Pairs -> Nat], NEW U \in [Pairs -> Nat], NEW re \in [Pairs -> Nat],
         NEW c, ReadWin(T, R, U, re, c), NEW e \in Eps, NEW d \in Eps
  PROVE  /\ SrcDst(e, d) \in Pairs
         /\ R[SrcDst(e, d)] \in Nat /\ U[SrcDst(e, d)] \in Nat /\ re[SrcDst(e, d)] \in Nat
         /\ Ranged(T[TmOf(Nic(e))], <<"read", d>>, re[SrcDst(e, d)], R[SrcDst(e, d)])
         /\ Ranged(T[WireOf(Nic(e))], <<"res", d>>, U[SrcDst(e, d)], re[SrcDst(e, d)])
         /\ c => Dense(T[TmOf(Nic(e))], <<"read", d>>, re[SrcDst(e, d)], R[SrcDst(e, d)])
         /\ re[SrcDst(e, d)] <= R[SrcDst(e, d)] /\ U[SrcDst(e, d)] <= re[SrcDst(e, d)]
<1>1. SrcDst(e, d) \in Pairs
  BY PairIds
<1> QED BY <1>1 DEF ReadWin, Ranged

\* Taking a packet that is no READ keeps the numbers of the READs.
LEMMA ReadWinPop ==
  ASSUME NEW T \in TokenQueues, NEW R \in [Pairs -> Nat], NEW U \in [Pairs -> Nat], NEW re \in [Pairs -> Nat],
         NEW c, ReadWin(T, R, U, re, c), NEW q \in Queues, T[q] # <<>>, Head(T[q]).ch[1] # "read" \/ ~c
  PROVE  ReadWin(Pop(T, q), R, U, re, c)
<1>1. ASSUME NEW e \in Eps, NEW d \in Eps
      PROVE  /\ Ranged(Pop(T, q)[TmOf(Nic(e))], <<"read", d>>, re[SrcDst(e, d)], R[SrcDst(e, d)])
             /\ Ranged(Pop(T, q)[WireOf(Nic(e))], <<"res", d>>, U[SrcDst(e, d)], re[SrcDst(e, d)])
             /\ c => Dense(Pop(T, q)[TmOf(Nic(e))], <<"read", d>>, re[SrcDst(e, d)], R[SrcDst(e, d)])
  <2> DEFINE sd == SrcDst(e, d)
  <2>1. /\ R[sd] \in Nat /\ U[sd] \in Nat /\ re[sd] \in Nat
        /\ Ranged(T[TmOf(Nic(e))], <<"read", d>>, re[sd], R[sd])
        /\ Ranged(T[WireOf(Nic(e))], <<"res", d>>, U[sd], re[sd])
        /\ c => Dense(T[TmOf(Nic(e))], <<"read", d>>, re[sd], R[sd])
    BY ReadWinParts
  <2>2. TmOf(Nic(e)) \in Queues /\ WireOf(Nic(e)) \in Queues
    BY ReadChannels
  <2> HIDE DEF sd
  <2>3. Ranged(Pop(T, q)[TmOf(Nic(e))], <<"read", d>>, re[sd], R[sd])
    BY <2>1, <2>2, PopRanged
  <2>4. Ranged(Pop(T, q)[WireOf(Nic(e))], <<"res", d>>, U[sd], re[sd])
    BY <2>1, <2>2, PopRanged
  <2>5. ASSUME c PROVE Dense(Pop(T, q)[TmOf(Nic(e))], <<"read", d>>, re[sd], R[sd])
    <3>1. Head(T[q]).ch # <<"read", d>>
      BY <2>5
    <3> QED BY <2>1, <2>2, <2>5, <3>1, PopRanged
  <2> QED BY <2>3, <2>4, <2>5 DEF sd
<1> QED BY <1>1 DEF ReadWin

\* ... and so does putting one that is no READ or response.
LEMMA ReadWinPut ==
  ASSUME NEW T \in TokenQueues, NEW R \in [Pairs -> Nat], NEW U \in [Pairs -> Nat], NEW re \in [Pairs -> Nat],
         NEW c, ReadWin(T, R, U, re, c), NEW q \in Queues, NEW x \in Token, x.ch[1] \notin {"read", "res"}
  PROVE  ReadWin(Put(T, q, x), R, U, re, c)
<1>1. ASSUME NEW e \in Eps, NEW d \in Eps
      PROVE  /\ Ranged(Put(T, q, x)[TmOf(Nic(e))], <<"read", d>>, re[SrcDst(e, d)], R[SrcDst(e, d)])
             /\ Ranged(Put(T, q, x)[WireOf(Nic(e))], <<"res", d>>, U[SrcDst(e, d)], re[SrcDst(e, d)])
             /\ c => Dense(Put(T, q, x)[TmOf(Nic(e))], <<"read", d>>, re[SrcDst(e, d)], R[SrcDst(e, d)])
  <2> DEFINE sd == SrcDst(e, d)
  <2>1. /\ R[sd] \in Nat /\ U[sd] \in Nat /\ re[sd] \in Nat
        /\ Ranged(T[TmOf(Nic(e))], <<"read", d>>, re[sd], R[sd])
        /\ Ranged(T[WireOf(Nic(e))], <<"res", d>>, U[sd], re[sd])
        /\ c => Dense(T[TmOf(Nic(e))], <<"read", d>>, re[sd], R[sd])
    BY ReadWinParts
  <2>2. TmOf(Nic(e)) \in Queues /\ WireOf(Nic(e)) \in Queues
    BY ReadChannels
  <2>3. x.ch # <<"read", d>> /\ x.ch # <<"res", d>>
    OBVIOUS
  <2> HIDE DEF sd
  <2>4. Ranged(Put(T, q, x)[TmOf(Nic(e))], <<"read", d>>, re[sd], R[sd])
    BY <2>1, <2>2, <2>3, PutRanged
  <2>5. Ranged(Put(T, q, x)[WireOf(Nic(e))], <<"res", d>>, U[sd], re[sd])
    BY <2>1, <2>2, <2>3, PutRanged
  <2>6. ASSUME c PROVE Dense(Put(T, q, x)[TmOf(Nic(e))], <<"read", d>>, re[sd], R[sd])
    BY <2>1, <2>2, <2>6, PutRanged
  <2> QED BY <2>4, <2>5, <2>6 DEF sd
<1> QED BY <1>1 DEF ReadWin

\* Without loss more is known than with it.
LEMMA ReadWinWeaken ==
  ASSUME NEW T, NEW R, NEW U, NEW re, NEW c, ReadWin(T, R, U, re, c), NEW c1, c1 => c
  PROVE  ReadWin(T, R, U, re, c1)
BY DEF ReadWin

\* A READ takes the next PSN of its pair.
LEMMA ReadWinTake ==
  ASSUME NEW T \in TokenQueues, NEW R \in [Pairs -> Nat], NEW U \in [Pairs -> Nat], NEW re \in [Pairs -> Nat],
         NEW c, ReadWin(T, R, U, re, c), NEW e \in Eps, NEW d \in Eps,
         NEW x \in Token, x.ch = <<"read", d>>, x.num = R[SrcDst(e, d)]
  PROVE  ReadWin(Put(T, TmOf(Nic(e)), x), [R EXCEPT ![SrcDst(e, d)] = @ + 1], U, re, c)
<1> DEFINE q == TmOf(Nic(e))
           R1 == [R EXCEPT ![SrcDst(e, d)] = @ + 1]
           T1 == Put(T, q, x)
<1>1. /\ R1[SrcDst(e, d)] = R[SrcDst(e, d)] + 1
      /\ \A i \in Pairs : i # SrcDst(e, d) => R1[i] = R[i]
  BY Bumped, PairIds
<1> HIDE DEF R1
<1>2. q \in Queues
  BY ReadChannels
<1> HIDE DEF q, T1
<1>3. ASSUME NEW i \in Eps, NEW j \in Eps
      PROVE  /\ Ranged(T1[TmOf(Nic(i))], <<"read", j>>, re[SrcDst(i, j)], R1[SrcDst(i, j)])
             /\ Ranged(T1[WireOf(Nic(i))], <<"res", j>>, U[SrcDst(i, j)], re[SrcDst(i, j)])
             /\ c => Dense(T1[TmOf(Nic(i))], <<"read", j>>, re[SrcDst(i, j)], R1[SrcDst(i, j)])
  <2> DEFINE sd == SrcDst(i, j)
  <2>1. /\ sd \in Pairs /\ R[sd] \in Nat /\ U[sd] \in Nat /\ re[sd] \in Nat
        /\ Ranged(T[TmOf(Nic(i))], <<"read", j>>, re[sd], R[sd])
        /\ Ranged(T[WireOf(Nic(i))], <<"res", j>>, U[sd], re[sd])
        /\ c => Dense(T[TmOf(Nic(i))], <<"read", j>>, re[sd], R[sd])
    BY ReadWinParts
  <2>2. /\ TmOf(Nic(i)) \in Queues /\ WireOf(Nic(i)) \in Queues /\ WireOf(Nic(i)) # q
        /\ sd = SrcDst(e, d) => i = e /\ j = d
        /\ TmOf(Nic(i)) = q => i = e
    BY ReadChannels DEF q
  <2>3. T1[WireOf(Nic(i))] = T[WireOf(Nic(i))]
    BY <1>2, <2>2, PutIs DEF T1
  <2>4. CASE i = e /\ j = d
    <3>1. TmOf(Nic(i)) = q /\ sd = SrcDst(e, d) /\ x.ch = <<"read", j>> /\ x.num = R[sd]
      BY <2>4 DEF q
    <3> HIDE DEF sd
    <3>2. Ranged(T1[TmOf(Nic(i))], <<"read", j>>, re[sd], R[sd] + 1)
      BY <1>2, <2>1, <2>2, <3>1, PutRanged DEF T1
    <3>3. ASSUME c PROVE Dense(T1[TmOf(Nic(i))], <<"read", j>>, re[sd], R[sd] + 1)
      BY <1>2, <2>1, <2>2, <3>1, <3>3, PutRanged DEF T1
    <3>4. R1[sd] = R[sd] + 1
      BY <1>1, <3>1
    <3> QED BY <2>1, <2>3, <3>2, <3>3, <3>4 DEF sd
  <2>5. CASE ~(i = e /\ j = d)
    <3>1. R1[sd] = R[sd]
      BY <1>1, <2>1, <2>2, <2>5
    <3>2. TmOf(Nic(i)) # q \/ x.ch # <<"read", j>>
      BY <2>2, <2>5
    <3> HIDE DEF sd
    <3>3. Ranged(T1[TmOf(Nic(i))], <<"read", j>>, re[sd], R[sd])
      BY <1>2, <2>1, <2>2, <3>2, PutRanged DEF T1
    <3>4. ASSUME c PROVE Dense(T1[TmOf(Nic(i))], <<"read", j>>, re[sd], R[sd])
      BY <1>2, <2>1, <2>2, <3>4, PutRanged DEF T1
    <3> QED BY <2>1, <2>3, <3>1, <3>3, <3>4 DEF sd
  <2> QED BY <2>4, <2>5
<1> QED BY <1>3 DEF ReadWin, R1, T1, q

\* A replica that finds the ring full takes one as well.
LEMMA ReadWinSkip ==
  ASSUME NEW T \in TokenQueues, NEW R \in [Pairs -> Nat], NEW U \in [Pairs -> Nat], NEW re \in [Pairs -> Nat],
         NEW c, ReadWin(T, R, U, re, c), NEW k \in Pairs
  PROVE  ReadWin(T, [R EXCEPT ![k] = @ + 1], U, re, FALSE)
<1> DEFINE R1 == [R EXCEPT ![k] = @ + 1]
<1>1. R1 \in [Pairs -> Nat] /\ \A i \in Pairs : R[i] <= R1[i]
  OBVIOUS
<1> HIDE DEF R1
<1>2. ASSUME NEW i \in Eps, NEW j \in Eps
      PROVE  /\ Ranged(T[TmOf(Nic(i))], <<"read", j>>, re[SrcDst(i, j)], R1[SrcDst(i, j)])
             /\ Ranged(T[WireOf(Nic(i))], <<"res", j>>, U[SrcDst(i, j)], re[SrcDst(i, j)])
  <2> DEFINE sd == SrcDst(i, j)
             s == T[TmOf(Nic(i))]
  <2>1. /\ sd \in Pairs /\ R[sd] \in Nat /\ re[sd] \in Nat
        /\ Ranged(s, <<"read", j>>, re[sd], R[sd])
        /\ Ranged(T[WireOf(Nic(i))], <<"res", j>>, U[sd], re[sd])
    BY ReadWinParts
  <2>2. s \in Seq(Token)
    BY ReadChannels DEF TokenQueues
  <2> HIDE DEF sd, s
  <2>3. \A n \in 1 .. Len(s) : s[n].num \in Nat
    <3>1. \A n \in 1 .. Len(s) : s[n] \in Token
      BY <2>2
    <3>2. \A x \in Token : x.num \in Nat
      BY DEF Token
    <3> QED BY <3>1, <3>2
  <2>4. R1[sd] \in Nat /\ R[sd] <= R1[sd]
    BY <1>1, <2>1
  <2>5. Ranged(s, <<"read", j>>, re[sd], R1[sd])
    BY <2>1, <2>3, <2>4, RangedMore
  <2> QED BY <2>1, <2>5 DEF sd, s
<1> QED BY <1>2 DEF ReadWin, R1

\* A READ leaves the queue of its source's port.
LEMMA ReadWinHead ==
  ASSUME NEW T \in TokenQueues, NEW R \in [Pairs -> Nat], NEW U \in [Pairs -> Nat], NEW re \in [Pairs -> Nat],
         NEW c, ReadWin(T, R, U, re, c), NEW e \in Eps, NEW d \in Eps,
         T[TmOf(Nic(e))] # <<>>, Head(T[TmOf(Nic(e))]).ch = <<"read", d>>
  PROVE  /\ re[SrcDst(e, d)] <= Head(T[TmOf(Nic(e))]).num /\ Head(T[TmOf(Nic(e))]).num < R[SrcDst(e, d)]
         /\ U[SrcDst(e, d)] <= re[SrcDst(e, d)]
         /\ c => Head(T[TmOf(Nic(e))]).num = re[SrcDst(e, d)]
<1> DEFINE sd == SrcDst(e, d)
           q == TmOf(Nic(e))
<1>1. /\ sd \in Pairs /\ R[sd] \in Nat /\ re[sd] \in Nat /\ U[sd] <= re[sd]
      /\ Ranged(T[q], <<"read", d>>, re[sd], R[sd])
      /\ c => Dense(T[q], <<"read", d>>, re[sd], R[sd])
  BY ReadWinParts
<1>2. q \in Queues /\ T[q] # <<>> /\ Head(T[q]).ch = <<"read", d>>
  BY ReadChannels
<1> HIDE DEF sd, q
<1>3. /\ re[sd] <= Head(T[q]).num /\ Head(T[q]).num < R[sd]
      /\ Dense(T[q], <<"read", d>>, re[sd], R[sd]) => Head(T[q]).num = re[sd]
  BY <1>1, <1>2, PopFirst, ZenonT(60)
<1> QED BY <1>1, <1>3 DEF sd, q

\* The one expected is answered.
LEMMA ReadWinArrive ==
  ASSUME NEW T \in TokenQueues, NEW R \in [Pairs -> Nat], NEW U \in [Pairs -> Nat], NEW re \in [Pairs -> Nat],
         NEW c, ReadWin(T, R, U, re, c), NEW e \in Eps, NEW d \in Eps,
         T[TmOf(Nic(e))] # <<>>, Head(T[TmOf(Nic(e))]).ch = <<"read", d>>,
         Head(T[TmOf(Nic(e))]).num = re[SrcDst(e, d)],
         NEW x \in Token, x.ch = <<"res", d>>, x.num = re[SrcDst(e, d)]
  PROVE  ReadWin(Put(Pop(T, TmOf(Nic(e))), WireOf(Nic(e)), x), R, U, [re EXCEPT ![SrcDst(e, d)] = @ + 1], c)
<1> DEFINE q == TmOf(Nic(e))
           q2 == WireOf(Nic(e))
           e1 == [re EXCEPT ![SrcDst(e, d)] = @ + 1]
           T1 == Pop(T, q)
           T2 == Put(T1, q2, x)
<1>1. /\ e1[SrcDst(e, d)] = re[SrcDst(e, d)] + 1
      /\ \A i \in Pairs : i # SrcDst(e, d) => e1[i] = re[i]
  BY Bumped, PairIds
<1> HIDE DEF e1
<1>2. q \in Queues /\ q2 \in Queues /\ q # q2 /\ T[q] # <<>> /\ Head(T[q]).ch = <<"read", d>>
      /\ Head(T[q]).num = re[SrcDst(e, d)]
  BY ReadChannels
<1>3. T1 \in TokenQueues
  BY <1>2, PopIs
<1> HIDE DEF q, q2, T1, T2
<1>4. ASSUME NEW i \in Eps, NEW j \in Eps
      PROVE  /\ Ranged(T2[TmOf(Nic(i))], <<"read", j>>, e1[SrcDst(i, j)], R[SrcDst(i, j)])
             /\ Ranged(T2[WireOf(Nic(i))], <<"res", j>>, U[SrcDst(i, j)], e1[SrcDst(i, j)])
             /\ c => Dense(T2[TmOf(Nic(i))], <<"read", j>>, e1[SrcDst(i, j)], R[SrcDst(i, j)])
  <2> DEFINE sd == SrcDst(i, j)
             t == TmOf(Nic(i))
             w == WireOf(Nic(i))
  <2>1. /\ sd \in Pairs /\ R[sd] \in Nat /\ U[sd] \in Nat /\ re[sd] \in Nat
        /\ Ranged(T[t], <<"read", j>>, re[sd], R[sd])
        /\ Ranged(T[w], <<"res", j>>, U[sd], re[sd])
        /\ c => Dense(T[t], <<"read", j>>, re[sd], R[sd])
    BY ReadWinParts
  <2>2. /\ t \in Queues /\ w \in Queues /\ w # q /\ t # q2
        /\ sd = SrcDst(e, d) => i = e /\ j = d
        /\ t = q => i = e
        /\ w = q2 => i = e
    BY ReadChannels DEF q, q2
  <2> HIDE DEF t, w
  <2>3. T2[t] = T1[t] /\ T1[w] = T[w]
    BY <1>2, <1>3, <2>2, PutIs, PopIs DEF T1, T2
  <2>4. Ranged(T1[w], <<"res", j>>, U[sd], re[sd])
    BY <2>1, <2>3
  <2>5. CASE i = e /\ j = d
    <3>1. t = q /\ w = q2 /\ sd = SrcDst(e, d) /\ x.ch = <<"res", j>> /\ x.num = re[sd]
          /\ Head(T[q]).ch = <<"read", j>> /\ Head(T[q]).num = re[sd]
      BY <1>2, <2>5 DEF q, q2, t, w
    <3> HIDE DEF sd
    <3>2. Ranged(T[q], <<"read", j>>, re[sd], R[sd]) /\ (c => Dense(T[q], <<"read", j>>, re[sd], R[sd]))
      BY <2>1, <3>1
    <3>3. /\ Ranged(Pop(T, q)[q], <<"read", j>>, Head(T[q]).num + 1, R[sd])
          /\ Dense(T[q], <<"read", j>>, re[sd], R[sd]) => Dense(Pop(T, q)[q], <<"read", j>>, re[sd] + 1, R[sd])
      BY <1>2, <2>1, <3>1, <3>2, PopFirst
    <3>4. Ranged(T2[w], <<"res", j>>, U[sd], re[sd] + 1)
      BY <1>2, <1>3, <2>1, <2>2, <2>4, <3>1, PutRanged DEF T2
    <3>5. e1[sd] = re[sd] + 1
      BY <1>1, <3>1
    <3>6. Ranged(T2[t], <<"read", j>>, e1[sd], R[sd])
      BY <2>3, <3>1, <3>3, <3>5 DEF T1
    <3>7. ASSUME c PROVE Dense(T2[t], <<"read", j>>, e1[sd], R[sd])
      BY <2>3, <3>1, <3>2, <3>3, <3>5, <3>7 DEF T1
    <3> QED BY <3>4, <3>5, <3>6, <3>7 DEF sd, t, w
  <2>6. CASE ~(i = e /\ j = d)
    <3>1. e1[sd] = re[sd]
      BY <1>1, <2>1, <2>2, <2>6
    <3>2. t # q \/ Head(T[q]).ch # <<"read", j>>
      BY <1>2, <2>2, <2>6
    <3>3. w # q2 \/ x.ch # <<"res", j>>
      BY <2>2, <2>6
    <3> HIDE DEF sd
    <3>4. Ranged(T1[t], <<"read", j>>, re[sd], R[sd])
      BY <1>2, <2>1, <2>2, PopRanged DEF T1
    <3>5. ASSUME c PROVE Dense(T1[t], <<"read", j>>, re[sd], R[sd])
      BY <1>2, <2>1, <2>2, <3>2, <3>5, PopRanged DEF T1
    <3>6. Ranged(T2[w], <<"res", j>>, U[sd], re[sd])
      BY <1>2, <1>3, <2>1, <2>2, <2>4, <3>3, PutRanged DEF T2
    <3> QED BY <2>3, <3>1, <3>4, <3>5, <3>6 DEF sd, t, w
  <2> QED BY <2>5, <2>6
<1> QED BY <1>4 DEF ReadWin, e1, T2, T1, q, q2

\* A response comes back.
LEMMA ReadWinAnswered ==
  ASSUME NEW T \in TokenQueues, NEW R \in [Pairs -> Nat], NEW U \in [Pairs -> Nat], NEW re \in [Pairs -> Nat],
         NEW c, ReadWin(T, R, U, re, c), NEW e \in Eps, NEW d \in Eps,
         T[WireOf(Nic(e))] # <<>>, Head(T[WireOf(Nic(e))]).ch = <<"res", d>>,
         NEW m \in Nat, m = Head(T[WireOf(Nic(e))]).num + 1
  PROVE  /\ ReadWin(Pop(T, WireOf(Nic(e))), R, [U EXCEPT ![SrcDst(e, d)] = m], re, c)
         /\ m <= re[SrcDst(e, d)] /\ m <= R[SrcDst(e, d)]
<1> DEFINE q == WireOf(Nic(e))
           U1 == [U EXCEPT ![SrcDst(e, d)] = m]
           T1 == Pop(T, q)
<1>1. SrcDst(e, d) \in Pairs
  BY PairIds
<1>2. U1[SrcDst(e, d)] = m /\ \A i \in Pairs : i # SrcDst(e, d) => U1[i] = U[i]
  BY <1>1
<1> HIDE DEF U1
<1>3. q \in Queues /\ T[q] # <<>> /\ Head(T[q]).ch = <<"res", d>> /\ m = Head(T[q]).num + 1
  BY ReadChannels
<1>4. ReadWin(T1, R, U, re, c) /\ T1 \in TokenQueues
  <2>1. Head(T[q]).ch[1] # "read"
    BY <1>3
  <2> HIDE DEF q
  <2> QED BY <1>3, <2>1, ReadWinPop, PopIs
<1> HIDE DEF q, T1
<1>5. Ranged(T1[q], <<"res", d>>, m, re[SrcDst(e, d)])
      /\ m <= re[SrcDst(e, d)] /\ m <= R[SrcDst(e, d)]
  <2> DEFINE sd == SrcDst(e, d)
  <2>1. /\ sd \in Pairs /\ R[sd] \in Nat /\ U[sd] \in Nat /\ re[sd] \in Nat /\ re[sd] <= R[sd]
        /\ Ranged(T[q], <<"res", d>>, U[sd], re[sd])
    BY ReadWinParts DEF q
  <2> HIDE DEF sd
  <2>2. /\ Head(T[q]).num \in Nat /\ Head(T[q]).num < re[sd]
        /\ Ranged(Pop(T, q)[q], <<"res", d>>, Head(T[q]).num + 1, re[sd])
    BY <1>3, <2>1, PopFirst
  <2> QED BY <1>3, <2>1, <2>2 DEF sd, T1
<1>6. ASSUME NEW i \in Eps, NEW j \in Eps
      PROVE  /\ Ranged(T1[TmOf(Nic(i))], <<"read", j>>, re[SrcDst(i, j)], R[SrcDst(i, j)])
             /\ Ranged(T1[WireOf(Nic(i))], <<"res", j>>, U1[SrcDst(i, j)], re[SrcDst(i, j)])
             /\ c => Dense(T1[TmOf(Nic(i))], <<"read", j>>, re[SrcDst(i, j)], R[SrcDst(i, j)])
  <2>1. /\ SrcDst(i, j) \in Pairs
        /\ Ranged(T1[TmOf(Nic(i))], <<"read", j>>, re[SrcDst(i, j)], R[SrcDst(i, j)])
        /\ Ranged(T1[WireOf(Nic(i))], <<"res", j>>, U[SrcDst(i, j)], re[SrcDst(i, j)])
        /\ c => Dense(T1[TmOf(Nic(i))], <<"read", j>>, re[SrcDst(i, j)], R[SrcDst(i, j)])
    BY <1>4, ReadWinParts
  <2>2. CASE i = e /\ j = d
    BY <1>2, <1>5, <2>1, <2>2 DEF q
  <2>3. CASE ~(i = e /\ j = d)
    <3>1. SrcDst(i, j) # SrcDst(e, d)
      BY <2>3, ReadChannels
    <3> QED BY <1>2, <2>1, <3>1
  <2> QED BY <2>2, <2>3
<1> QED BY <1>5, <1>6 DEF ReadWin, U1, T1, q

-----------------------------------------------------------------------------

\* Taking a packet that is no WRITE keeps the numbers of the WRITEs.
LEMMA WriteWinPop ==
  ASSUME NEW T \in TokenQueues, NEW L \in [Eps -> Nat], NEW W \in [Eps -> Nat], WriteWin(T, L, W),
         NEW q \in Queues, T[q] # <<>>, Head(T[q]).ch[1] # "write"
  PROVE  WriteWin(Pop(T, q), L, W)
<1>1. ASSUME NEW d \in Eps
      PROVE  /\ Ranged(Pop(T, q)[TmOf(Nic(d))], <<"write", d>>, L[d], W[d])
             /\ Dense(Pop(T, q)[TmOf(Nic(d))], <<"write", d>>, L[d], W[d])
  <2>1. /\ L[d] \in Nat /\ W[d] \in Nat /\ TmOf(Nic(d)) \in Queues
        /\ Ranged(T[TmOf(Nic(d))], <<"write", d>>, L[d], W[d])
        /\ Dense(T[TmOf(Nic(d))], <<"write", d>>, L[d], W[d])
    BY QueueNames DEF WriteWin
  <2>2. Head(T[q]).ch # <<"write", d>>
    OBVIOUS
  <2> QED BY <2>1, <2>2, PopRanged
<1> QED BY <1>1 DEF WriteWin

\* ... and so does putting one.
LEMMA WriteWinPut ==
  ASSUME NEW T \in TokenQueues, NEW L \in [Eps -> Nat], NEW W \in [Eps -> Nat], WriteWin(T, L, W),
         NEW q \in Queues, NEW x \in Token, x.ch[1] # "write"
  PROVE  WriteWin(Put(T, q, x), L, W)
<1>1. ASSUME NEW d \in Eps
      PROVE  /\ Ranged(Put(T, q, x)[TmOf(Nic(d))], <<"write", d>>, L[d], W[d])
             /\ Dense(Put(T, q, x)[TmOf(Nic(d))], <<"write", d>>, L[d], W[d])
  <2>1. /\ L[d] \in Nat /\ W[d] \in Nat /\ TmOf(Nic(d)) \in Queues
        /\ Ranged(T[TmOf(Nic(d))], <<"write", d>>, L[d], W[d])
        /\ Dense(T[TmOf(Nic(d))], <<"write", d>>, L[d], W[d])
    BY QueueNames DEF WriteWin
  <2>2. x.ch # <<"write", d>>
    OBVIOUS
  <2> QED BY <2>1, <2>2, PutRanged
<1> QED BY <1>1 DEF WriteWin

\* A WRITE takes the next number.
LEMMA WriteWinTake ==
  ASSUME NEW T \in TokenQueues, NEW L \in [Eps -> Nat], NEW W \in [Eps -> Nat], WriteWin(T, L, W),
         NEW d \in Eps, NEW x \in Token, x.ch = <<"write", d>>, x.num = W[d]
  PROVE  WriteWin(Put(T, TmOf(Nic(d)), x), L, [W EXCEPT ![d] = @ + 1])
<1> DEFINE q == TmOf(Nic(d))
           W1 == [W EXCEPT ![d] = @ + 1]
           T1 == Put(T, q, x)
<1>1. W1[d] = W[d] + 1 /\ \A i \in Eps : i # d => W1[i] = W[i]
  BY Bumped
<1>2. q \in Queues
  BY QueueNames
<1> HIDE DEF W1, q, T1
<1>3. ASSUME NEW i \in Eps
      PROVE  /\ Ranged(T1[TmOf(Nic(i))], <<"write", i>>, L[i], W1[i])
             /\ Dense(T1[TmOf(Nic(i))], <<"write", i>>, L[i], W1[i])
  <2> DEFINE t == TmOf(Nic(i))
  <2>1. /\ L[i] \in Nat /\ W[i] \in Nat /\ t \in Queues
        /\ Ranged(T[t], <<"write", i>>, L[i], W[i])
        /\ Dense(T[t], <<"write", i>>, L[i], W[i])
    BY QueueNames DEF WriteWin
  <2>2. CASE i = d
    <3>1. t = q /\ x.ch = <<"write", i>> /\ x.num = W[i]
      BY <2>2 DEF q
    <3> HIDE DEF t
    <3>2. Ranged(T1[t], <<"write", i>>, L[i], W[i] + 1) /\ Dense(T1[t], <<"write", i>>, L[i], W[i] + 1)
      BY <1>2, <2>1, <3>1, PutRanged DEF T1
    <3> QED BY <1>1, <2>2, <3>2 DEF t
  <2>3. CASE i # d
    <3>1. x.ch # <<"write", i>>
      BY <2>3
    <3> HIDE DEF t
    <3>2. Ranged(T1[t], <<"write", i>>, L[i], W[i]) /\ Dense(T1[t], <<"write", i>>, L[i], W[i])
      BY <1>2, <2>1, <3>1, PutRanged DEF T1
    <3> QED BY <1>1, <2>3, <3>2 DEF t
  <2> QED BY <2>2, <2>3
<1> QED BY <1>3 DEF WriteWin, T1, W1, q

\* A WRITE leaves the switch: it is the next in order.
LEMMA WriteWinLeave ==
  ASSUME NEW T \in TokenQueues, NEW L \in [Eps -> Nat], NEW W \in [Eps -> Nat], WriteWin(T, L, W),
         NEW d \in Eps, T[TmOf(Nic(d))] # <<>>, Head(T[TmOf(Nic(d))]).ch = <<"write", d>>
  PROVE  /\ WriteWin(Pop(T, TmOf(Nic(d))), [L EXCEPT ![d] = @ + 1], W)
         /\ Head(T[TmOf(Nic(d))]).num = L[d] /\ L[d] < W[d]
<1> DEFINE q == TmOf(Nic(d))
           L1 == [L EXCEPT ![d] = @ + 1]
           T1 == Pop(T, q)
<1>1. L1[d] = L[d] + 1 /\ \A i \in Eps : i # d => L1[i] = L[i]
  BY Bumped
<1>2. q \in Queues /\ T[q] # <<>> /\ Head(T[q]).ch = <<"write", d>>
  BY QueueNames
<1> HIDE DEF L1, q, T1
<1>3. ASSUME NEW i \in Eps
      PROVE  /\ Ranged(T1[TmOf(Nic(i))], <<"write", i>>, L1[i], W[i])
             /\ Dense(T1[TmOf(Nic(i))], <<"write", i>>, L1[i], W[i])
             /\ i = d => Head(T[q]).num = L[i] /\ L[i] < W[i]
  <2> DEFINE t == TmOf(Nic(i))
  <2>1. /\ L[i] \in Nat /\ W[i] \in Nat /\ t \in Queues
        /\ Ranged(T[t], <<"write", i>>, L[i], W[i])
        /\ Dense(T[t], <<"write", i>>, L[i], W[i])
    BY QueueNames DEF WriteWin
  <2>2. CASE i = d
    <3>1. t = q /\ Head(T[q]).ch = <<"write", i>>
      BY <1>2, <2>2 DEF q
    <3> HIDE DEF t
    <3>2. Ranged(T[q], <<"write", i>>, L[i], W[i]) /\ Dense(T[q], <<"write", i>>, L[i], W[i])
      BY <2>1, <3>1
    <3>3. /\ Head(T[q]).num = L[i] /\ Head(T[q]).num < W[i]
          /\ Ranged(Pop(T, q)[q], <<"write", i>>, Head(T[q]).num + 1, W[i])
          /\ Dense(Pop(T, q)[q], <<"write", i>>, L[i] + 1, W[i])
      BY <1>2, <2>1, <3>1, <3>2, PopFirst
    <3> QED BY <1>1, <2>2, <3>1, <3>3 DEF t, T1
  <2>3. CASE i # d
    <3>1. Head(T[q]).ch # <<"write", i>>
      BY <1>2, <2>3
    <3> HIDE DEF t
    <3>2. Ranged(T1[t], <<"write", i>>, L[i], W[i]) /\ Dense(T1[t], <<"write", i>>, L[i], W[i])
      BY <1>2, <2>1, <3>1, PopRanged DEF T1
    <3> QED BY <1>1, <2>3, <3>2 DEF t
  <2> QED BY <2>2, <2>3
<1>4. Head(T[q]).num = L[d] /\ L[d] < W[d]
  BY <1>3
<1> QED BY <1>3, <1>4 DEF WriteWin, T1, L1, q

-----------------------------------------------------------------------------
(* ... what holds of each token in its queue                               *)

\* x may be in queue q: its elements are its requester's, sent, not yet in
\* memory, and the registers that decide about them are right.
Good(sn, rq, iwo, rpi, D, c) ==
  {r \in Queues \X Token :
     /\ \A v \in r[2].vals :
          /\ v[1] = r[2].ch[2] /\ v[2] < sn[v[1]] /\ v \notin D[v[1]]
          /\ r[2].ch[1] # "req" => v[2] < rq[v[1]]
          /\ r[2].ch[1] \in {"res", "write"} => iwo[ItemNumber(v)] = NItem - 1 - v[3]
          /\ r[2].ch[1] \in {"read", "res"} =>
               rpi[ReadRingId(SrcDst(Source(v), v[1]), r[2].num)] = ItemNumber(v)
          /\ r[2].ch[1] = "read" => r[1] = TmOf(Nic(Source(v)))
          /\ r[2].ch[1] = "res" => r[1] = WireOf(Nic(Source(v)))
     /\ c => r[2].ch[1] \notin {"rnak", "wnak"}
     /\ r[2].ch[1] = "ack" /\ NPost <= 1 => Cardinality(D[r[2].ch[2]]) = NItem}

AllIn(T, X) == \A q \in Queues : \A n \in 1 .. Len(T[q]) : <<q, T[q][n]>> \in X

\* What holds of every token holds of those left.
LEMMA PopAllIn ==
  ASSUME NEW T \in TokenQueues, NEW X, AllIn(T, X), NEW q \in Queues, T[q] # <<>>
  PROVE  AllIn(Pop(T, q), X) /\ <<q, Head(T[q])>> \in X
<1>1. ASSUME NEW p \in Queues, NEW n \in 1 .. Len(Pop(T, q)[p])
      PROVE  <<p, Pop(T, q)[p][n]>> \in X
  <2>1. PICK m \in 1 .. Len(T[p]) : Pop(T, q)[p][n] = T[p][m]
    BY PopFrom
  <2> QED BY <2>1 DEF AllIn
<1>2. <<q, Head(T[q])>> \in X
  <2>1. T[q] \in Seq(Token)
    BY PopIs
  <2>2. Head(T[q]) = T[q][1] /\ 1 \in 1 .. Len(T[q])
    BY <2>1, TailIs
  <2>3. <<q, T[q][1]>> \in X
    BY <2>2 DEF AllIn
  <2> QED BY <2>2, <2>3
<1> QED BY <1>1, <1>2 DEF AllIn

\* ... and of those there, if it holds of the one put.
LEMMA PutAllIn ==
  ASSUME NEW T \in TokenQueues, NEW X, AllIn(T, X), NEW q \in Queues, NEW x \in Token, <<q, x>> \in X
  PROVE  AllIn(Put(T, q, x), X)
<1>1. ASSUME NEW p \in Queues, NEW n \in 1 .. Len(Put(T, q, x)[p])
      PROVE  <<p, Put(T, q, x)[p][n]>> \in X
  <2>1. \/ p = q /\ n = Len(T[q]) + 1 /\ Put(T, q, x)[p][n] = x
        \/ n \in 1 .. Len(T[p]) /\ Put(T, q, x)[p][n] = T[p][n]
    BY PutFrom
  <2>2. CASE p = q /\ Put(T, q, x)[p][n] = x
    BY <2>2
  <2>3. CASE n \in 1 .. Len(T[p]) /\ Put(T, q, x)[p][n] = T[p][n]
    BY <2>3 DEF AllIn
  <2> QED BY <2>1, <2>2, <2>3
<1> QED BY <1>1 DEF AllIn

\* Elements of the tokens are held.
LEMMA InHeld ==
  ASSUME NEW T \in TokenQueues, NEW q \in Queues, NEW n \in 1 .. Len(T[q]), NEW v \in T[q][n].vals
  PROVE  T[q][n] \in Token /\ v \in Vals /\ v \in Held(T, Classes) /\ v \in Held(T, {T[q][n].ch[1]})
<1>1. T[q] \in Seq(Token)
  BY DEF TokenQueues
<1>2. T[q][n] \in Token
  BY <1>1
<1>3. T[q][n].ch[1] \in Classes /\ v \in Vals
  BY <1>2 DEF Token
<1> QED BY <1>2, <1>3 DEF Held

-----------------------------------------------------------------------------
\* What is good stays so when more has been sent and taken.
NoLess(f, g) == f \in [Eps -> Nat] /\ g \in [Eps -> Nat] /\ \A d \in Eps : f[d] <= g[d]

\* A token stays good while the requests go on.
LEMMA GoodMore ==
  ASSUME NEW sn, NEW sn1, NoLess(sn, sn1), NEW rq, NEW rq1, NoLess(rq, rq1),
         NEW iwo, NEW rpi, NEW D, NEW c
  PROVE  Good(sn, rq, iwo, rpi, D, c) \subseteq Good(sn1, rq1, iwo, rpi, D, c)
<1> SUFFICES ASSUME NEW r \in Good(sn, rq, iwo, rpi, D, c) PROVE r \in Good(sn1, rq1, iwo, rpi, D, c)
  OBVIOUS
<1>1. r \in Queues \X Token
  BY DEF Good
<1>2. r[2].vals \subseteq Vals
  BY <1>1 DEF Token
<1>3. ASSUME NEW v \in r[2].vals
      PROVE  /\ v[1] = r[2].ch[2] /\ v[2] < sn1[v[1]] /\ v \notin D[v[1]]
             /\ r[2].ch[1] # "req" => v[2] < rq1[v[1]]
             /\ r[2].ch[1] \in {"res", "write"} => iwo[ItemNumber(v)] = NItem - 1 - v[3]
             /\ r[2].ch[1] \in {"read", "res"} =>
                  rpi[ReadRingId(SrcDst(Source(v), v[1]), r[2].num)] = ItemNumber(v)
             /\ r[2].ch[1] = "read" => r[1] = TmOf(Nic(Source(v)))
             /\ r[2].ch[1] = "res" => r[1] = WireOf(Nic(Source(v)))
  <2>1. /\ v[1] = r[2].ch[2] /\ v[2] < sn[v[1]] /\ v \notin D[v[1]]
        /\ r[2].ch[1] # "req" => v[2] < rq[v[1]]
        /\ r[2].ch[1] \in {"res", "write"} => iwo[ItemNumber(v)] = NItem - 1 - v[3]
        /\ r[2].ch[1] \in {"read", "res"} =>
             rpi[ReadRingId(SrcDst(Source(v), v[1]), r[2].num)] = ItemNumber(v)
        /\ r[2].ch[1] = "read" => r[1] = TmOf(Nic(Source(v)))
        /\ r[2].ch[1] = "res" => r[1] = WireOf(Nic(Source(v)))
    BY DEF Good
  <2>2. v[1] \in Eps /\ v[2] \in Nat
    BY <1>2, ValParts, Constants
  <2>3. v[2] < sn1[v[1]]
    BY <2>1, <2>2 DEF NoLess
  <2>4. r[2].ch[1] # "req" => v[2] < rq1[v[1]]
    BY <2>1, <2>2 DEF NoLess
  <2> QED BY <2>1, <2>3, <2>4
<1>4. /\ c => r[2].ch[1] \notin {"rnak", "wnak"}
      /\ r[2].ch[1] = "ack" /\ NPost <= 1 => Cardinality(D[r[2].ch[2]]) = NItem
  BY DEF Good
<1> QED BY <1>1, <1>3, <1>4 DEF Good

\* ... and when less is said of it.
LEMMA GoodLess ==
  ASSUME NEW sn, NEW rq, NEW iwo, NEW rpi, NEW D, NEW c, NEW c1, c1 => c
  PROVE  Good(sn, rq, iwo, rpi, D, c) \subseteq Good(sn, rq, iwo, rpi, D, c1)
BY DEF Good

\* A READ that leaves the switch sets its item's offset.
WithOffset(iwo, u) == [iwo EXCEPT ![ItemNumber(u)] = NItem - 1 - u[3]]

\* The offset register after a READ.
LEMMA OffsetIs ==
  ASSUME OnePacket, NEW iwo \in [Items -> Int], NEW u \in Vals
  PROVE  /\ WithOffset(iwo, u)[ItemNumber(u)] = NItem - 1 - u[3]
         /\ \A i \in Items : i # ItemNumber(u) => WithOffset(iwo, u)[i] = iwo[i]
         /\ WithOffset(iwo, u) \in [Items -> Int]
<1>1. ItemNumber(u) \in Items /\ NItem - 1 - u[3] \in Int
  <2>1. ItemNumber(u) \in Items
    BY ItemIds
  <2>2. u[3] \in Nat /\ NItem \in Nat
    BY ValParts, Constants
  <2> QED BY <2>1, <2>2
<1> QED
  BY <1>1 DEF WithOffset

\* ... which leaves every token good.
LEMMA GoodOffset ==
  ASSUME OnePacket, NEW sn, NEW rq, NEW iwo \in [Items -> Int], NEW rpi, NEW D, NEW c, NEW u \in Vals
  PROVE  Good(sn, rq, iwo, rpi, D, c) \subseteq Good(sn, rq, WithOffset(iwo, u), rpi, D, c)
<1> DEFINE iwo1 == WithOffset(iwo, u)
<1>1. ItemNumber(u) \in Items
  BY ItemIds
<1>2. /\ iwo1[ItemNumber(u)] = NItem - 1 - u[3]
      /\ \A i \in Items : i # ItemNumber(u) => iwo1[i] = iwo[i]
  BY OffsetIs
<1> HIDE DEF iwo1
<1>3. ASSUME NEW v \in Vals PROVE iwo1[ItemNumber(v)] \in {iwo[ItemNumber(v)], NItem - 1 - v[3]}
  <2>1. ItemNumber(v) \in Items /\ (ItemNumber(v) = ItemNumber(u) => v = u)
    BY ItemIds
  <2> QED BY <1>2, <2>1
<1>4. ASSUME NEW r \in Good(sn, rq, iwo, rpi, D, c) PROVE r \in Good(sn, rq, iwo1, rpi, D, c)
  <2>1. r \in Queues \X Token
    BY DEF Good
  <2>2. r[2].vals \subseteq Vals
    BY <2>1 DEF Token
  <2>3. \A v \in r[2].vals : r[2].ch[1] \in {"res", "write"} => iwo[ItemNumber(v)] = NItem - 1 - v[3]
    BY DEF Good
  <2>4. \A v \in r[2].vals : r[2].ch[1] \in {"res", "write"} => iwo1[ItemNumber(v)] = NItem - 1 - v[3]
    BY <1>3, <2>2, <2>3
  <2> QED BY <2>1, <2>4 DEF Good
<1> QED BY <1>4 DEF iwo1

\* A READ takes a slot of the ring that no other one needs.
LEMMA GoodSlot ==
  ASSUME NEW T \in TokenQueues, NEW R \in [Pairs -> Nat], NEW U \in [Pairs -> Nat], NEW re \in [Pairs -> Nat],
         NEW c, ReadWin(T, R, U, re, c),
         NEW sn, NEW rq, NEW iwo, NEW rpi \in [ReadSlots -> Int], NEW D, NEW c0,
         AllIn(T, Good(sn, rq, iwo, rpi, D, c0)),
         NEW k \in Pairs, R[k] < U[k] + READ_RING_SIZE, NEW id \in Int,
         NEW rpi1, rpi1 = [rpi EXCEPT ![ReadRingId(k, R[k])] = id]
  PROVE  /\ AllIn(T, Good(sn, rq, iwo, rpi1, D, c0))
         /\ rpi1[ReadRingId(k, R[k])] = id /\ rpi1 \in [ReadSlots -> Int]
<1>1. ReadRingId(k, R[k]) \in ReadSlots
  BY ReadSlotIds
<1>2. /\ rpi1[ReadRingId(k, R[k])] = id /\ rpi1 \in [ReadSlots -> Int]
      /\ \A s \in ReadSlots : s # ReadRingId(k, R[k]) => rpi1[s] = rpi[s]
  BY <1>1
<1>3. ASSUME NEW i \in Eps, NEW j \in Eps, NEW m \in Nat, U[SrcDst(i, j)] <= m, m < R[SrcDst(i, j)]
      PROVE  rpi1[ReadRingId(SrcDst(i, j), m)] = rpi[ReadRingId(SrcDst(i, j), m)]
  <2> DEFINE sd == SrcDst(i, j)
  <2>1. sd \in Pairs
    BY PairIds
  <2> HIDE DEF sd
  <2>2. ReadRingId(sd, m) \in ReadSlots
    BY <2>1, ReadSlotIds
  <2>3. ASSUME ReadRingId(sd, m) = ReadRingId(k, R[k]) PROVE FALSE
    <3>1. sd = k /\ R[k] % READ_RING_SIZE = m % READ_RING_SIZE
      BY <2>1, <2>3, ReadSlotIds
    <3>2. U[sd] <= m /\ m < R[sd]
      BY <1>3 DEF sd
    <3>3. R[k] < m + READ_RING_SIZE /\ R[k] \in Nat /\ U[k] \in Nat /\ READ_RING_SIZE \in Nat \ {0} /\ m < R[k]
      BY <3>1, <3>2, Sizes
    <3>4. R[k] <= m
      BY <3>1, <3>3, SameSlot
    <3> QED BY <3>3, <3>4
  <2> QED BY <1>2, <2>2, <2>3 DEF sd
<1>4. ASSUME NEW q \in Queues, NEW n \in 1 .. Len(T[q])
      PROVE  <<q, T[q][n]>> \in Good(sn, rq, iwo, rpi1, D, c0)
  <2> DEFINE x == T[q][n]
             r == <<q, x>>
  <2>1. r \in Good(sn, rq, iwo, rpi, D, c0) /\ r[1] = q /\ r[2] = x
    BY DEF AllIn
  <2>2. r \in Queues \X Token /\ x \in Token
    BY <2>1 DEF Good
  <2>3. x.vals \subseteq Vals /\ x.num \in Nat /\ x.ch = <<x.ch[1], x.ch[2]>>
    BY <2>2 DEF Token
  <2>4. ASSUME NEW v \in x.vals, x.ch[1] \in {"read", "res"}
        PROVE  rpi1[ReadRingId(SrcDst(Source(v), v[1]), x.num)] = ItemNumber(v)
    <3>1. /\ v[1] = x.ch[2]
          /\ rpi[ReadRingId(SrcDst(Source(v), v[1]), x.num)] = ItemNumber(v)
          /\ x.ch[1] = "read" => q = TmOf(Nic(Source(v)))
          /\ x.ch[1] = "res" => q = WireOf(Nic(Source(v)))
      BY <2>1, <2>4 DEF Good
    <3>2. v[1] \in Eps /\ Source(v) \in Eps
      BY <2>3, ValParts
    <3> DEFINE sd == SrcDst(Source(v), v[1])
    <3>3. /\ Ranged(T[TmOf(Nic(Source(v)))], <<"read", v[1]>>, re[sd], R[sd])
          /\ Ranged(T[WireOf(Nic(Source(v)))], <<"res", v[1]>>, U[sd], re[sd])
          /\ U[sd] <= re[sd] /\ re[sd] <= R[sd] /\ U[sd] \in Nat /\ re[sd] \in Nat /\ R[sd] \in Nat
      BY <3>2, ReadWinParts
    <3>4. U[sd] <= x.num /\ x.num < R[sd]
      <4>1. CASE x.ch[1] = "read"
        <5>1. x.ch = <<"read", v[1]>> /\ q = TmOf(Nic(Source(v)))
          BY <2>3, <3>1, <4>1
        <5>2. re[sd] <= x.num /\ x.num < R[sd]
          BY <3>3, <5>1 DEF Ranged
        <5> QED BY <2>3, <3>3, <5>2
      <4>2. CASE x.ch[1] = "res"
        <5>1. x.ch = <<"res", v[1]>> /\ q = WireOf(Nic(Source(v)))
          BY <2>3, <3>1, <4>2
        <5>2. U[sd] <= x.num /\ x.num < re[sd]
          BY <3>3, <5>1 DEF Ranged
        <5> QED BY <2>3, <3>3, <5>2
      <4> QED BY <2>4, <4>1, <4>2
    <3> QED BY <1>3, <2>3, <3>1, <3>2, <3>4
  <2> HIDE DEF x
  <2>5. \A v \in x.vals : x.ch[1] \in {"read", "res"} =>
          rpi1[ReadRingId(SrcDst(Source(v), v[1]), x.num)] = ItemNumber(v)
    BY <2>4
  <2>6. r \in Good(sn, rq, iwo, rpi1, D, c0)
    BY <2>1, <2>2, <2>5 DEF Good
  <2> QED BY <2>6 DEF x
<1> QED BY <1>2, <1>4 DEF AllIn

\* An element gets into memory.
LEMMA GoodMemory ==
  ASSUME NEW T \in TokenQueues, NEW sn, NEW rq, NEW iwo, NEW rpi, NEW D \in [Eps -> SUBSET Vals], NEW c,
         AllIn(T, Good(sn, rq, iwo, rpi, D, c)),
         NEW d \in Eps, NEW u, u \notin Held(T, Classes), NPost <= 1 => Cardinality(D[d]) # NItem
  PROVE  AllIn(T, Good(sn, rq, iwo, rpi, [D EXCEPT ![d] = @ \cup {u}], c))
<1> DEFINE D1 == [D EXCEPT ![d] = @ \cup {u}]
<1>1. D1[d] = D[d] \cup {u} /\ \A i \in Eps : i # d => D1[i] = D[i]
  OBVIOUS
<1> HIDE DEF D1
<1>2. ASSUME NEW q \in Queues, NEW n \in 1 .. Len(T[q])
      PROVE  <<q, T[q][n]>> \in Good(sn, rq, iwo, rpi, D1, c)
  <2> DEFINE x == T[q][n]
             r == <<q, x>>
  <2>1. r \in Good(sn, rq, iwo, rpi, D, c) /\ r[1] = q /\ r[2] = x
    BY DEF AllIn
  <2>2. r \in Queues \X Token /\ x \in Token
    BY <2>1 DEF Good
  <2>3. x.vals \subseteq Vals /\ x.ch[2] \in Eps
    BY <2>2 DEF Token
  <2>4. \A v \in x.vals : v \notin D1[v[1]]
    <3>1. ASSUME NEW v \in x.vals PROVE v \notin D1[v[1]]
      <4>1. v \in Held(T, Classes)
        BY InHeld
      <4>2. v \notin D[v[1]] /\ v # u
        BY <2>1, <4>1 DEF Good
      <4>3. v[1] \in Eps
        BY <2>3, ValParts
      <4> QED BY <1>1, <4>2, <4>3
    <3> QED BY <3>1
  <2>5. x.ch[1] = "ack" /\ NPost <= 1 => Cardinality(D1[x.ch[2]]) = NItem
    <3>1. x.ch[1] = "ack" /\ NPost <= 1 => Cardinality(D[x.ch[2]]) = NItem
      BY <2>1 DEF Good
    <3> QED BY <1>1, <2>3, <3>1
  <2> HIDE DEF x
  <2>6. r \in Good(sn, rq, iwo, rpi, D1, c)
    BY <2>1, <2>2, <2>4, <2>5 DEF Good
  <2> QED BY <2>6 DEF x
<1> QED BY <1>2 DEF AllIn, D1

\* What holds of every token, weaker.
LEMMA AllInMore ==
  ASSUME NEW T, NEW X, NEW Y, AllIn(T, X), X \subseteq Y
  PROVE  AllIn(T, Y)
BY DEF AllIn

-----------------------------------------------------------------------------
(* ... and how many more numbers can be needed                             *)

\* The elements of d that no READ, or no WRITE, has been made for.
Unread(T, sn, d) == {v \in ValsFrom(d) : v[2] >= sn[d] \/ v \in Held(T, {"req", "loop"})}
Unwritten(T, sn, d) == {v \in ValsFrom(d) : v[2] >= sn[d] \/ v \in Held(T, {"req", "loop", "read", "res"})}

Counts(T, R, W, sn) ==
  \A d \in Eps :
    /\ \A e \in Eps : R[SrcDst(e, d)] + Cardinality(Unread(T, sn, d)) <= NPost * NItem
    /\ W[d] + Cardinality(Unwritten(T, sn, d)) <= NPost * NItem

\* The elements still to be read, or written, are finitely many.
LEMMA UnreadFinite ==
  ASSUME NEW T, NEW sn, NEW d \in Eps
  PROVE  /\ IsFiniteSet(Unread(T, sn, d)) /\ IsFiniteSet(Unwritten(T, sn, d))
         /\ Cardinality(Unread(T, sn, d)) \in Nat /\ Cardinality(Unwritten(T, sn, d)) \in Nat
<1>1. Unread(T, sn, d) \subseteq ValsFrom(d) /\ Unwritten(T, sn, d) \subseteq ValsFrom(d)
  BY DEF Unread, Unwritten
<1>2. IsFiniteSet(ValsFrom(d))
  BY ValsCount
<1>3. IsFiniteSet(Unread(T, sn, d)) /\ IsFiniteSet(Unwritten(T, sn, d))
  BY <1>1, <1>2, FS_Subset
<1> QED BY <1>3, FS_CardinalityType

\* Fewer elements to be read or written need no more numbers.
LEMMA CountsLess ==
  ASSUME NEW T, NEW T1, NEW R \in [Pairs -> Nat], NEW W \in [Eps -> Nat], NEW sn, NEW sn1, Counts(T, R, W, sn),
         \A d \in Eps : /\ Unread(T1, sn1, d) \subseteq Unread(T, sn, d)
                        /\ Unwritten(T1, sn1, d) \subseteq Unwritten(T, sn, d)
  PROVE  Counts(T1, R, W, sn1)
<1>1. ASSUME NEW d \in Eps
      PROVE  /\ \A e \in Eps : R[SrcDst(e, d)] + Cardinality(Unread(T1, sn1, d)) <= NPost * NItem
             /\ W[d] + Cardinality(Unwritten(T1, sn1, d)) <= NPost * NItem
  <2>1. /\ IsFiniteSet(Unread(T, sn, d)) /\ IsFiniteSet(Unwritten(T, sn, d))
        /\ Cardinality(Unread(T, sn, d)) \in Nat /\ Cardinality(Unwritten(T, sn, d)) \in Nat
        /\ Cardinality(Unread(T1, sn1, d)) \in Nat /\ Cardinality(Unwritten(T1, sn1, d)) \in Nat
    BY UnreadFinite
  <2>2. Cardinality(Unread(T1, sn1, d)) <= Cardinality(Unread(T, sn, d))
    BY <2>1, FS_Subset
  <2>3. Cardinality(Unwritten(T1, sn1, d)) <= Cardinality(Unwritten(T, sn, d))
    BY <2>1, FS_Subset
  <2>4. PICK m \in Nat : m = NPost * NItem
    BY Constants
  <2>5. ASSUME NEW e \in Eps PROVE R[SrcDst(e, d)] + Cardinality(Unread(T1, sn1, d)) <= m
    <3>1. R[SrcDst(e, d)] \in Nat
      BY PairIds
    <3>2. R[SrcDst(e, d)] + Cardinality(Unread(T, sn, d)) <= m
      BY <2>4 DEF Counts
    <3> QED BY <2>1, <2>2, <3>1, <3>2
  <2>6. W[d] + Cardinality(Unwritten(T1, sn1, d)) <= m
    <3>1. W[d] + Cardinality(Unwritten(T, sn, d)) <= m /\ W[d] \in Nat
      BY <2>4 DEF Counts
    <3> QED BY <2>1, <2>3, <3>1
  <2> QED BY <2>4, <2>5, <2>6
<1> QED BY <1>1 DEF Counts

\* Tokens that hold no more of the elements ahead.
LEMMA CountsHeld ==
  ASSUME NEW T, NEW T1, NEW R \in [Pairs -> Nat], NEW W \in [Eps -> Nat], NEW sn, Counts(T, R, W, sn),
         Held(T1, {"req", "loop"}) \subseteq Held(T, {"req", "loop"}),
         Held(T1, {"req", "loop", "read", "res"}) \subseteq Held(T, {"req", "loop", "read", "res"})
  PROVE  Counts(T1, R, W, sn)
<1>1. \A d \in Eps : /\ Unread(T1, sn, d) \subseteq Unread(T, sn, d)
                     /\ Unwritten(T1, sn, d) \subseteq Unwritten(T, sn, d)
  BY DEF Unread, Unwritten
<1> QED BY <1>1, CountsLess

\* ... as after a packet is taken.
LEMMA CountsPop ==
  ASSUME NEW T \in TokenQueues, NEW R \in [Pairs -> Nat], NEW W \in [Eps -> Nat], NEW sn, Counts(T, R, W, sn),
         NEW q \in Queues, T[q] # <<>>
  PROVE  Counts(Pop(T, q), R, W, sn)
<1>1. /\ Held(Pop(T, q), {"req", "loop"}) \subseteq Held(T, {"req", "loop"})
      /\ Held(Pop(T, q), {"req", "loop", "read", "res"}) \subseteq Held(T, {"req", "loop", "read", "res"})
  BY PopHeld
<1> QED BY <1>1, CountsHeld

\* A token is replaced by one of a class that is not ahead of it.
LEMMA HeldMove ==
  ASSUME NEW T \in TokenQueues, NEW q \in Queues, T[q] # <<>>, NEW q2 \in Queues, NEW x \in Token,
         x.vals \subseteq Head(T[q]).vals, NEW C, x.ch[1] \in C => Head(T[q]).ch[1] \in C
  PROVE  Held(Put(Pop(T, q), q2, x), C) \subseteq Held(T, C)
<1>1. Pop(T, q) \in TokenQueues
  BY PopIs
<1>2. Held(Pop(T, q), C) \subseteq Held(T, C) /\ (Head(T[q]).ch[1] \in C => Head(T[q]).vals \subseteq Held(T, C))
  BY PopHeld
<1>3. CASE x.ch[1] \in C
  <2>1. Held(Put(Pop(T, q), q2, x), C) = Held(Pop(T, q), C) \cup x.vals
    BY <1>1, <1>3, PutHeld
  <2> QED BY <1>2, <1>3, <2>1
<1>4. CASE x.ch[1] \notin C
  <2>1. Held(Put(Pop(T, q), q2, x), C) = Held(Pop(T, q), C)
    BY <1>1, <1>4, PutHeld
  <2> QED BY <1>2, <2>1
<1> QED BY <1>3, <1>4

\* A token of one of the classes B takes the place of one that is in them or
\* in A, which are the classes before them.
LEMMA CountsMove ==
  ASSUME NEW T \in TokenQueues, NEW R \in [Pairs -> Nat], NEW W \in [Eps -> Nat], NEW sn, Counts(T, R, W, sn),
         NEW q \in Queues, T[q] # <<>>, NEW q2 \in Queues, NEW x \in Token, x.vals \subseteq Head(T[q]).vals,
         x.ch[1] \in {"req", "loop"} => Head(T[q]).ch[1] \in {"req", "loop"},
         x.ch[1] \in {"read", "res"} => Head(T[q]).ch[1] \in {"req", "loop", "read", "res"}
  PROVE  Counts(Put(Pop(T, q), q2, x), R, W, sn)
<1>1. Held(Put(Pop(T, q), q2, x), {"req", "loop"}) \subseteq Held(T, {"req", "loop"})
  BY HeldMove
<1>2. Held(Put(Pop(T, q), q2, x), {"req", "loop", "read", "res"}) \subseteq Held(T, {"req", "loop", "read", "res"})
  BY HeldMove
<1> QED BY <1>1, <1>2, CountsHeld

\* A request is sent: its elements were ahead, and are so in its token.
LEMMA CountsSend ==
  ASSUME NEW T \in TokenQueues, NEW R \in [Pairs -> Nat], NEW W \in [Eps -> Nat], NEW sn \in [Eps -> Nat],
         Counts(T, R, W, sn), NEW q \in Queues, NEW x \in Token, NEW d \in Eps, x.ch = <<"req", d>>,
         \A v \in x.vals : v[1] = d /\ v[2] = sn[d]
  PROVE  Counts(Put(T, q, x), R, W, [sn EXCEPT ![d] = @ + 1])
<1> DEFINE T1 == Put(T, q, x)
           s1 == [sn EXCEPT ![d] = @ + 1]
<1>1. /\ Held(T1, {"req", "loop"}) = Held(T, {"req", "loop"}) \cup x.vals
      /\ Held(T1, {"req", "loop", "read", "res"}) = Held(T, {"req", "loop", "read", "res"}) \cup x.vals
  BY PutHeld
<1>2. s1[d] = sn[d] + 1 /\ \A i \in Eps : i # d => s1[i] = sn[i]
  BY Bumped
<1> HIDE DEF T1, s1
<1>3. ASSUME NEW i \in Eps, NEW v \in ValsFrom(i), v[2] >= s1[i] \/ v \in x.vals
      PROVE  v[2] >= sn[i]
  <2>1. v \in Vals /\ v[1] = i /\ v[2] \in Nat
    <3>1. v \in Vals /\ v[1] = i
      BY DEF ValsFrom
    <3> QED BY <3>1, ValParts, Constants
  <2>2. sn[i] \in Nat /\ sn[i] <= s1[i] /\ s1[i] \in Nat
    BY <1>2
  <2>3. CASE v[2] >= s1[i]
    BY <2>1, <2>2, <2>3
  <2>4. CASE v \in x.vals
    BY <2>1, <2>2, <2>4
  <2> QED BY <1>3, <2>3, <2>4
<1>4. ASSUME NEW i \in Eps
      PROVE  /\ Unread(T1, s1, i) \subseteq Unread(T, sn, i)
             /\ Unwritten(T1, s1, i) \subseteq Unwritten(T, sn, i)
  BY <1>1, <1>3 DEF Unread, Unwritten
<1>5. Counts(T1, R, W, s1)
  BY <1>4, CountsLess
<1> QED BY <1>5 DEF T1, s1

\* A set without one of its elements is smaller.
LEMMA OneLess ==
  ASSUME NEW A, IsFiniteSet(A), NEW B, B \subseteq A, NEW u \in A, u \notin B
  PROVE  Cardinality(B) + 1 <= Cardinality(A) /\ Cardinality(A) \in Nat /\ Cardinality(B) \in Nat
<1>1. B \subseteq A \ {u}
  OBVIOUS
<1>2. IsFiniteSet(A \ {u}) /\ Cardinality(A \ {u}) = Cardinality(A) - 1
  BY FS_RemoveElement
<1>3. IsFiniteSet(B) /\ Cardinality(B) <= Cardinality(A \ {u})
  BY <1>1, <1>2, FS_Subset
<1>4. Cardinality(A) \in Nat /\ Cardinality(B) \in Nat
  BY <1>3, FS_CardinalityType
<1> QED BY <1>2, <1>3, <1>4

\* A replica takes a PSN for a READ.
LEMMA CountsRead ==
  ASSUME NEW T, NEW T1, NEW R \in [Pairs -> Nat], NEW W \in [Eps -> Nat], NEW sn, Counts(T, R, W, sn),
         Held(T1, {"req", "loop"}) \subseteq Held(T, {"req", "loop"}),
         Held(T1, {"req", "loop", "read", "res"}) \subseteq Held(T, {"req", "loop", "read", "res"}),
         NEW e \in Eps, NEW u \in Vals, u \in Held(T, {"req", "loop"}), u \notin Held(T1, {"req", "loop"}),
         u[2] < sn[u[1]], sn[u[1]] \in Nat
  PROVE  /\ Counts(T1, [R EXCEPT ![SrcDst(e, u[1])] = @ + 1], W, sn)
         /\ R[SrcDst(e, u[1])] + 1 <= NPost * NItem
<1> DEFINE d == u[1]
           R1 == [R EXCEPT ![SrcDst(e, d)] = @ + 1]
<1>1. d \in Eps /\ u[2] \in Nat /\ u \in ValsFrom(d)
  BY ValParts, Constants DEF ValsFrom
<1>2. /\ R1[SrcDst(e, d)] = R[SrcDst(e, d)] + 1
      /\ \A i \in Pairs : i # SrcDst(e, d) => R1[i] = R[i]
  BY <1>1, Bumped, PairIds
<1>3. u \in Unread(T, sn, d)
  BY <1>1 DEF Unread
<1>4. u \notin Unread(T1, sn, d)
  BY <1>1 DEF Unread
<1> HIDE DEF d, R1
<1>5. Counts(T1, R, W, sn)
  BY CountsHeld
<1>6. Unread(T1, sn, d) \subseteq Unread(T, sn, d)
  BY DEF Unread
<1>7. /\ Cardinality(Unread(T1, sn, d)) + 1 <= Cardinality(Unread(T, sn, d))
      /\ Cardinality(Unread(T1, sn, d)) \in Nat /\ Cardinality(Unread(T, sn, d)) \in Nat
  <2>1. IsFiniteSet(Unread(T, sn, d))
    BY <1>1, UnreadFinite
  <2> QED BY <1>3, <1>4, <1>6, <2>1, OneLess
<1>8. PICK m \in Nat : m = NPost * NItem
  BY Constants
<1>9. \A i \in Eps : R[SrcDst(i, d)] + Cardinality(Unread(T, sn, d)) <= m /\ R[SrcDst(i, d)] \in Nat
  BY <1>1, <1>8, PairIds DEF Counts
<1>10. R[SrcDst(e, d)] + 1 <= m
  BY <1>7, <1>9
<1>11. ASSUME NEW j \in Eps, NEW i \in Eps
       PROVE  R1[SrcDst(i, j)] + Cardinality(Unread(T1, sn, j)) <= m
  <2>1. SrcDst(i, j) \in Pairs /\ (SrcDst(i, j) = SrcDst(e, d) => j = d /\ i = e)
    BY <1>1, PairIds
  <2>2. CASE j = d /\ i = e
    BY <1>2, <1>7, <1>9, <2>2
  <2>3. CASE ~(j = d /\ i = e)
    <3>1. R1[SrcDst(i, j)] = R[SrcDst(i, j)]
      BY <1>2, <2>1, <2>3
    <3> QED BY <1>5, <1>8, <3>1 DEF Counts
  <2> QED BY <2>2, <2>3
<1>12. \A j \in Eps : W[j] + Cardinality(Unwritten(T1, sn, j)) <= NPost * NItem
  BY <1>5 DEF Counts
<1>13. Counts(T1, R1, W, sn)
  BY <1>8, <1>11, <1>12 DEF Counts
<1> QED BY <1>8, <1>10, <1>13 DEF R1, d

\* A response takes a PSN for a WRITE.
LEMMA CountsWrite ==
  ASSUME NEW T, NEW T1, NEW R \in [Pairs -> Nat], NEW W \in [Eps -> Nat], NEW sn, Counts(T, R, W, sn),
         Held(T1, {"req", "loop"}) \subseteq Held(T, {"req", "loop"}),
         Held(T1, {"req", "loop", "read", "res"}) \subseteq Held(T, {"req", "loop", "read", "res"}),
         NEW u \in Vals, u \in Held(T, {"req", "loop", "read", "res"}),
         u \notin Held(T1, {"req", "loop", "read", "res"}), u[2] < sn[u[1]], sn[u[1]] \in Nat
  PROVE  /\ Counts(T1, R, [W EXCEPT ![u[1]] = @ + 1], sn)
         /\ W[u[1]] + 1 <= NPost * NItem
<1> DEFINE d == u[1]
           W1 == [W EXCEPT ![d] = @ + 1]
<1>1. d \in Eps /\ u[2] \in Nat /\ u \in ValsFrom(d)
  BY ValParts, Constants DEF ValsFrom
<1>2. W1[d] = W[d] + 1 /\ \A i \in Eps : i # d => W1[i] = W[i]
  BY <1>1, Bumped
<1>3. u \in Unwritten(T, sn, d)
  BY <1>1 DEF Unwritten
<1>4. u \notin Unwritten(T1, sn, d)
  BY <1>1 DEF Unwritten
<1> HIDE DEF d, W1
<1>5. Counts(T1, R, W, sn)
  BY CountsHeld
<1>6. Unwritten(T1, sn, d) \subseteq Unwritten(T, sn, d)
  BY DEF Unwritten
<1>7. /\ Cardinality(Unwritten(T1, sn, d)) + 1 <= Cardinality(Unwritten(T, sn, d))
      /\ Cardinality(Unwritten(T1, sn, d)) \in Nat /\ Cardinality(Unwritten(T, sn, d)) \in Nat
  <2>1. IsFiniteSet(Unwritten(T, sn, d))
    BY <1>1, UnreadFinite
  <2> QED BY <1>3, <1>4, <1>6, <2>1, OneLess
<1>8. PICK m \in Nat : m = NPost * NItem
  BY Constants
<1>9. W[d] + Cardinality(Unwritten(T, sn, d)) <= m /\ W[d] \in Nat
  BY <1>1, <1>8 DEF Counts
<1>10. W[d] + 1 <= m
  BY <1>7, <1>9
<1>11. ASSUME NEW j \in Eps
       PROVE  W1[j] + Cardinality(Unwritten(T1, sn, j)) <= m
  <2>1. CASE j = d
    BY <1>2, <1>7, <1>9, <2>1
  <2>2. CASE j # d
    <3>1. W1[j] = W[j]
      BY <1>2, <2>2
    <3> QED BY <1>5, <1>8, <3>1 DEF Counts
  <2> QED BY <2>1, <2>2
<1>12. \A j, i \in Eps : R[SrcDst(i, j)] + Cardinality(Unread(T1, sn, j)) <= NPost * NItem
  BY <1>5 DEF Counts
<1>13. Counts(T1, R, W1, sn)
  BY <1>8, <1>11, <1>12 DEF Counts
<1> QED BY <1>8, <1>10, <1>13 DEF W1, d

-----------------------------------------------------------------------------
(* The parts about the tokens together                                     *)

Numbers(K, L, W, R, U, D, sn, rq, re, iwo, rpi) ==
  /\ K \in [Eps -> Nat] /\ L \in [Eps -> Nat] /\ W \in [Eps -> Nat]
  /\ R \in [Pairs -> Nat] /\ U \in [Pairs -> Nat] /\ D \in [Eps -> SUBSET Vals]
  /\ sn \in [Eps -> Nat] /\ rq \in [Eps -> Nat] /\ re \in [Pairs -> Nat]
  /\ iwo \in [Items -> Int] /\ rpi \in [ReadSlots -> Int]

Tokens(T, K, L, W, R, U, D, sn, rq, re, iwo, rpi, c) ==
  /\ T \in TokenQueues
  /\ ReqWin(T, K, sn, rq)
  /\ ReadWin(T, R, U, re, c)
  /\ WriteWin(T, L, W)
  /\ Apart(T)
  /\ AllIn(T, Good(sn, rq, iwo, rpi, D, c))
  /\ Counts(T, R, W, sn)

\* Something has gone wrong since.
LEMMA TokensWeaken ==
  ASSUME NEW T, NEW K, NEW L, NEW W, NEW R, NEW U, NEW D, NEW sn, NEW rq, NEW re, NEW iwo, NEW rpi, NEW c,
         Numbers(K, L, W, R, U, D, sn, rq, re, iwo, rpi),
         Tokens(T, K, L, W, R, U, D, sn, rq, re, iwo, rpi, c), NEW c1, c1 => c
  PROVE  Tokens(T, K, L, W, R, U, D, sn, rq, re, iwo, rpi, c1)
<1>1. /\ T \in TokenQueues /\ ReqWin(T, K, sn, rq) /\ ReadWin(T, R, U, re, c) /\ WriteWin(T, L, W)
      /\ Apart(T) /\ AllIn(T, Good(sn, rq, iwo, rpi, D, c)) /\ Counts(T, R, W, sn)
  BY DEF Tokens
<1>2. sn \in [Eps -> Nat] /\ rq \in [Eps -> Nat]
  BY DEF Numbers
<1>4. Good(sn, rq, iwo, rpi, D, c) \subseteq Good(sn, rq, iwo, rpi, D, c1)
  BY GoodLess
<1>5. AllIn(T, Good(sn, rq, iwo, rpi, D, c1))
  BY <1>1, <1>4, AllInMore
<1>6. ReadWin(T, R, U, re, c1)
  BY <1>1, ReadWinWeaken
<1> QED
  BY <1>1, <1>5, <1>6 DEF Tokens

\* A token goes that is not counted, or after something has gone wrong.
LEMMA TokensPop ==
  ASSUME NEW T, NEW K, NEW L, NEW W, NEW R, NEW U, NEW D, NEW sn, NEW rq, NEW re, NEW iwo, NEW rpi, NEW c,
         Numbers(K, L, W, R, U, D, sn, rq, re, iwo, rpi),
         Tokens(T, K, L, W, R, U, D, sn, rq, re, iwo, rpi, c),
         NEW q \in Queues, T[q] # <<>>, Head(T[q]).ch[1] \notin {"req", "write"},
         Head(T[q]).ch[1] # "read" \/ ~c
  PROVE  /\ Tokens(Pop(T, q), K, L, W, R, U, D, sn, rq, re, iwo, rpi, c)
         /\ <<q, Head(T[q])>> \in Good(sn, rq, iwo, rpi, D, c)
         /\ \A v \in Head(T[q]).vals : v \notin Held(Pop(T, q), Classes)
<1>1. /\ T \in TokenQueues /\ ReqWin(T, K, sn, rq) /\ ReadWin(T, R, U, re, c) /\ WriteWin(T, L, W)
      /\ Apart(T) /\ AllIn(T, Good(sn, rq, iwo, rpi, D, c)) /\ Counts(T, R, W, sn)
  BY DEF Tokens
<1>2. /\ K \in [Eps -> Nat] /\ L \in [Eps -> Nat] /\ W \in [Eps -> Nat]
      /\ R \in [Pairs -> Nat] /\ U \in [Pairs -> Nat] /\ D \in [Eps -> SUBSET Vals]
      /\ sn \in [Eps -> Nat] /\ rq \in [Eps -> Nat] /\ re \in [Pairs -> Nat]
  BY DEF Numbers
<1>3. Head(T[q]).ch[1] # "req" /\ Head(T[q]).ch[1] # "write"
  OBVIOUS
<1>4. Pop(T, q) \in TokenQueues
  BY <1>1, PopIs
<1>5. ReqWin(Pop(T, q), K, sn, rq)
  BY <1>1, <1>2, <1>3, ReqWinPop
<1>6. ReadWin(Pop(T, q), R, U, re, c)
  BY <1>1, <1>2, ReadWinPop
<1>7. WriteWin(Pop(T, q), L, W)
  BY <1>1, <1>2, <1>3, WriteWinPop
<1>8. Apart(Pop(T, q)) /\ \A v \in Head(T[q]).vals : v \notin Held(Pop(T, q), Classes)
  BY <1>1, PopApart
<1>9. AllIn(Pop(T, q), Good(sn, rq, iwo, rpi, D, c)) /\ <<q, Head(T[q])>> \in Good(sn, rq, iwo, rpi, D, c)
  BY <1>1, PopAllIn
<1>10. Counts(Pop(T, q), R, W, sn)
  BY <1>1, <1>2, CountsPop
<1> QED
  BY <1>4, <1>5, <1>6, <1>7, <1>8, <1>9, <1>10 DEF Tokens

\* ... and one comes in its place that is not counted either.
LEMMA TokensMove ==
  ASSUME NEW T, NEW K, NEW L, NEW W, NEW R, NEW U, NEW D, NEW sn, NEW rq, NEW re, NEW iwo, NEW rpi, NEW c,
         Numbers(K, L, W, R, U, D, sn, rq, re, iwo, rpi),
         Tokens(T, K, L, W, R, U, D, sn, rq, re, iwo, rpi, c),
         NEW q \in Queues, T[q] # <<>>, Head(T[q]).ch[1] \notin {"req", "write"},
         Head(T[q]).ch[1] # "read" \/ ~c,
         NEW q2 \in Queues, NEW x \in Token, x.vals \subseteq Head(T[q]).vals,
         x.ch[1] \notin {"req", "read", "res", "write"}, x.ch[1] = "loop" => Head(T[q]).ch[1] = "loop",
         <<q2, x>> \in Good(sn, rq, iwo, rpi, D, c)
  PROVE  Tokens(Put(Pop(T, q), q2, x), K, L, W, R, U, D, sn, rq, re, iwo, rpi, c)
<1> DEFINE T0 == Pop(T, q)
<1>1. /\ Tokens(T0, K, L, W, R, U, D, sn, rq, re, iwo, rpi, c)
      /\ \A v \in Head(T[q]).vals : v \notin Held(T0, Classes)
  BY TokensPop
<1>2. /\ T0 \in TokenQueues /\ ReqWin(T0, K, sn, rq) /\ ReadWin(T0, R, U, re, c) /\ WriteWin(T0, L, W)
      /\ Apart(T0) /\ AllIn(T0, Good(sn, rq, iwo, rpi, D, c))
  BY <1>1 DEF Tokens
<1>3. /\ K \in [Eps -> Nat] /\ L \in [Eps -> Nat] /\ W \in [Eps -> Nat]
      /\ R \in [Pairs -> Nat] /\ U \in [Pairs -> Nat] /\ D \in [Eps -> SUBSET Vals]
      /\ sn \in [Eps -> Nat] /\ rq \in [Eps -> Nat] /\ re \in [Pairs -> Nat]
  BY DEF Numbers
<1>4. x.ch[1] # "req" /\ x.ch[1] # "write" /\ x.ch[1] \notin {"read", "res"}
  OBVIOUS
<1>5. T \in TokenQueues /\ Counts(T, R, W, sn)
  BY DEF Tokens
<1>6. Counts(Put(T0, q2, x), R, W, sn)
  BY <1>3, <1>4, <1>5, CountsMove
<1> HIDE DEF T0
<1>7. Put(T0, q2, x) \in TokenQueues
  BY <1>2, PutIs
<1>8. ReqWin(Put(T0, q2, x), K, sn, rq)
  BY <1>2, <1>3, <1>4, ReqWinPut
<1>9. ReadWin(Put(T0, q2, x), R, U, re, c)
  BY <1>2, <1>3, <1>4, ReadWinPut
<1>10. WriteWin(Put(T0, q2, x), L, W)
  BY <1>2, <1>3, <1>4, WriteWinPut
<1>11. Apart(Put(T0, q2, x))
  BY <1>1, <1>2, PutApart
<1>12. AllIn(Put(T0, q2, x), Good(sn, rq, iwo, rpi, D, c))
  BY <1>2, PutAllIn
<1>13. Tokens(Put(T0, q2, x), K, L, W, R, U, D, sn, rq, re, iwo, rpi, c)
  BY <1>6, <1>7, <1>8, <1>9, <1>10, <1>11, <1>12 DEF Tokens
<1> QED
  BY <1>13 DEF T0

AllAt(V, d, n) == \A v \in V : v[1] = d /\ v[2] = n
AllBelow(V, n) == \A v \in V : v[2] < n

\* A request is sent.
LEMMA TokensSend ==
  ASSUME NEW T, NEW K, NEW L, NEW W, NEW R, NEW U, NEW D, NEW sn, NEW rq, NEW re, NEW iwo, NEW rpi, NEW c,
         Numbers(K, L, W, R, U, D, sn, rq, re, iwo, rpi),
         Tokens(T, K, L, W, R, U, D, sn, rq, re, iwo, rpi, c),
         NEW d \in Eps, NEW x \in Token, x.ch = <<"req", d>>, x.num = sn[d],
         AllAt(x.vals, d, sn[d]), AllBelow(D[d], sn[d]),
         NEW sn1, sn1 = [sn EXCEPT ![d] = @ + 1]
  PROVE  Tokens(Put(T, WireOf(Nic(d)), x), K, L, W, R, U, D, sn1, rq, re, iwo, rpi, c)
<1> DEFINE q == WireOf(Nic(d))
<1>0. q \in Queues
  BY QueueNames
<1> HIDE DEF q
<1>1. /\ T \in TokenQueues /\ ReqWin(T, K, sn, rq) /\ ReadWin(T, R, U, re, c) /\ WriteWin(T, L, W)
      /\ Apart(T) /\ AllIn(T, Good(sn, rq, iwo, rpi, D, c)) /\ Counts(T, R, W, sn)
  BY DEF Tokens
<1>2. /\ K \in [Eps -> Nat] /\ L \in [Eps -> Nat] /\ W \in [Eps -> Nat]
      /\ R \in [Pairs -> Nat] /\ U \in [Pairs -> Nat] /\ D \in [Eps -> SUBSET Vals]
      /\ sn \in [Eps -> Nat] /\ rq \in [Eps -> Nat] /\ re \in [Pairs -> Nat]
  BY DEF Numbers
<1>3. x.ch[1] = "req" /\ x.ch[1] # "write" /\ x.ch[1] \notin {"read", "res"} /\ x.ch[1] # "ack"
      /\ x.ch[1] \notin {"res", "write"} /\ x.ch[1] \notin {"rnak", "wnak"} /\ x.ch[2] = d
      /\ x.ch[1] # "read" /\ x.ch[1] # "res"
  OBVIOUS
<1>4. /\ sn1 \in [Eps -> Nat] /\ sn1[d] = sn[d] + 1 /\ \A e \in Eps : e # d => sn1[e] = sn[e]
  BY <1>2, Bumped
<1>5. \A e \in Eps : sn[e] <= sn1[e] /\ rq[e] <= rq[e]
  <2> TAKE e \in Eps
  <2>1. sn[e] \in Nat /\ rq[e] \in Nat
    BY <1>2
  <2>2. CASE e = d
    BY <2>1, <2>2, <1>4
  <2>3. CASE e # d
    BY <2>1, <2>3, <1>4
  <2> QED
    BY <2>2, <2>3
<1>6. Put(T, q, x) \in TokenQueues
  BY <1>0, <1>1, PutIs
<1>7. ReqWin(Put(T, q, x), K, sn1, rq)
  BY <1>1, <1>2, ReqWinSend DEF q
<1>8. ReadWin(Put(T, q, x), R, U, re, c)
  BY <1>0, <1>1, <1>2, <1>3, ReadWinPut
<1>9. WriteWin(Put(T, q, x), L, W)
  BY <1>0, <1>1, <1>2, <1>3, WriteWinPut
<1>10. \A v \in x.vals : v \notin Held(T, Classes)
  <2> SUFFICES ASSUME NEW v \in x.vals, v \in Held(T, Classes)
               PROVE  FALSE
    OBVIOUS
  <2>1. v[1] = d /\ v[2] = sn[d] /\ sn[d] \in Nat
    BY <1>2 DEF AllAt
  <2>2. PICK p \in Queues : \E n \in 1 .. Len(T[p]) : T[p][n].ch[1] \in Classes /\ v \in T[p][n].vals
    BY DEF Held
  <2>3. PICK n \in 1 .. Len(T[p]) : v \in T[p][n].vals
    BY <2>2
  <2>4. <<p, T[p][n]>> \in Good(sn, rq, iwo, rpi, D, c)
    BY <1>1 DEF AllIn
  <2>5. v[2] < sn[v[1]]
    BY <2>3, <2>4 DEF Good
  <2> QED
    BY <2>1, <2>5
<1>11. Apart(Put(T, q, x))
  BY <1>0, <1>1, <1>10, PutApart
<1>12. Good(sn, rq, iwo, rpi, D, c) \subseteq Good(sn1, rq, iwo, rpi, D, c)
  <2>1. NoLess(sn, sn1) /\ NoLess(rq, rq)
    BY <1>2, <1>4, <1>5 DEF NoLess
  <2> QED
    BY <2>1, GoodMore
<1>13. AllIn(T, Good(sn1, rq, iwo, rpi, D, c))
  BY <1>1, <1>12, AllInMore
<1>14. <<q, x>> \in Good(sn1, rq, iwo, rpi, D, c)
  <2>1. ASSUME NEW v \in x.vals
        PROVE  v[1] = x.ch[2] /\ v[2] < sn1[v[1]] /\ v \notin D[v[1]]
    <3>1. v[1] = d /\ v[2] = sn[d] /\ sn[d] \in Nat
      BY <1>2 DEF AllAt
    <3>2. v \notin D[d]
      BY <3>1 DEF AllBelow
    <3> QED
      BY <3>1, <3>2, <1>3, <1>4
  <2> QED
    BY <2>1, <1>0, <1>3 DEF Good
<1>15. AllIn(Put(T, q, x), Good(sn1, rq, iwo, rpi, D, c))
  BY <1>0, <1>1, <1>13, <1>14, PutAllIn
<1>16. Counts(Put(T, q, x), R, W, sn1)
  <2>1. \A v \in x.vals : v[1] = d /\ v[2] = sn[d]
    BY DEF AllAt
  <2> QED
    BY <2>1, <1>0, <1>1, <1>2, CountsSend
<1>17. Tokens(Put(T, q, x), K, L, W, R, U, D, sn1, rq, re, iwo, rpi, c)
  BY <1>6, <1>7, <1>8, <1>9, <1>11, <1>15, <1>16 DEF Tokens
<1> QED
  BY <1>4, <1>5, <1>17 DEF q

\* Ingress gives a request its round.
LEMMA TokensRound ==
  ASSUME NEW T, NEW K, NEW L, NEW W, NEW R, NEW U, NEW D, NEW sn, NEW rq, NEW re, NEW iwo, NEW rpi, NEW c,
         Numbers(K, L, W, R, U, D, sn, rq, re, iwo, rpi),
         Tokens(T, K, L, W, R, U, D, sn, rq, re, iwo, rpi, c),
         NEW d \in Eps, T[WireOf(Nic(d))] # <<>>, Head(T[WireOf(Nic(d))]).ch = <<"req", d>>,
         NEW T1, T1 = Put(Pop(T, WireOf(Nic(d))), TmOf(Lpbk(d)), Head(T[WireOf(Nic(d))])),
         NEW K1, K1 = [K EXCEPT ![d] = @ + 1]
  PROVE  Tokens(T1, K1, L, W, R, U, D, sn, rq, re, iwo, rpi, c) /\ K1 \in [Eps -> Nat]
<1> DEFINE q == WireOf(Nic(d))
           q2 == TmOf(Lpbk(d))
           x == Head(T[q])
           T0 == Pop(T, q)
<1>1. /\ T \in TokenQueues /\ ReqWin(T, K, sn, rq) /\ ReadWin(T, R, U, re, c) /\ WriteWin(T, L, W)
      /\ Apart(T) /\ AllIn(T, Good(sn, rq, iwo, rpi, D, c)) /\ Counts(T, R, W, sn)
  BY DEF Tokens
<1>2. /\ K \in [Eps -> Nat] /\ L \in [Eps -> Nat] /\ W \in [Eps -> Nat]
      /\ R \in [Pairs -> Nat] /\ U \in [Pairs -> Nat] /\ D \in [Eps -> SUBSET Vals]
      /\ sn \in [Eps -> Nat] /\ rq \in [Eps -> Nat] /\ re \in [Pairs -> Nat]
  BY DEF Numbers
<1>3. ReqWin(T1, K1, sn, rq)
  BY <1>1, <1>2, ReqWinIngress
<1>4. K1 \in [Eps -> Nat]
  BY <1>2
<1>5. q \in Queues /\ q2 \in Queues
  BY QueueNames
<1>6. T[q] # <<>> /\ x.ch = <<"req", d>> /\ T1 = Put(T0, q2, x)
  OBVIOUS
<1> HIDE DEF q, q2
<1>7. x \in Token /\ T0 \in TokenQueues
  BY <1>1, <1>5, <1>6, PopIs
<1>8. /\ Apart(T0) /\ \A v \in x.vals : v \notin Held(T0, Classes)
  BY <1>1, <1>5, <1>6, PopApart
<1>9. AllIn(T0, Good(sn, rq, iwo, rpi, D, c)) /\ <<q, x>> \in Good(sn, rq, iwo, rpi, D, c)
  BY <1>1, <1>5, <1>6, PopAllIn
<1>10. Counts(Put(T0, q2, x), R, W, sn)
  <2>1. x.vals \subseteq Head(T[q]).vals /\ x.ch[1] = "req" /\ Head(T[q]).ch[1] = "req"
    BY <1>6
  <2> HIDE DEF x
  <2> QED
    BY <2>1, <1>1, <1>2, <1>5, <1>6, <1>7, CountsMove
<1>11. Head(T[q]).ch[1] # "read" /\ Head(T[q]).ch[1] # "write"
  BY <1>6
<1>12. ReadWin(T0, R, U, re, c) /\ WriteWin(T0, L, W)
  BY <1>1, <1>2, <1>5, <1>6, <1>11, ReadWinPop, WriteWinPop
<1>13. /\ x.ch[1] # "write" /\ x.ch[1] # "read" /\ x.ch[1] # "res" /\ x.ch[1] \notin {"read", "res"}
       /\ x.ch[1] \notin {"res", "write"} /\ x.ch[1] \notin {"rnak", "wnak"}
  BY <1>6
<1>14. <<q2, x>> \in Good(sn, rq, iwo, rpi, D, c)
  BY <1>5, <1>7, <1>9, <1>13 DEF Good
<1> HIDE DEF x, T0
<1>15. ReadWin(Put(T0, q2, x), R, U, re, c) /\ WriteWin(Put(T0, q2, x), L, W)
  BY <1>2, <1>5, <1>7, <1>12, <1>13, ReadWinPut, WriteWinPut
<1>16. Apart(Put(T0, q2, x)) /\ AllIn(Put(T0, q2, x), Good(sn, rq, iwo, rpi, D, c))
  BY <1>5, <1>7, <1>8, <1>9, <1>14, PutApart, PutAllIn
<1>17. Put(T0, q2, x) \in TokenQueues
  BY <1>5, <1>7, PutIs
<1> QED
  BY <1>3, <1>4, <1>6, <1>10, <1>15, <1>16, <1>17 DEF Tokens

AllOf(V, j) == \A v \in V : v[2] = j

\* Egress takes a request, and a replica with its elements goes on.
LEMMA TokensLoop ==
  ASSUME NEW T, NEW K, NEW L, NEW W, NEW R, NEW U, NEW D, NEW sn, NEW rq, NEW re, NEW iwo, NEW rpi, NEW c,
         Numbers(K, L, W, R, U, D, sn, rq, re, iwo, rpi),
         Tokens(T, K, L, W, R, U, D, sn, rq, re, iwo, rpi, c),
         NEW d \in Eps, T[TmOf(Lpbk(d))] # <<>>, Head(T[TmOf(Lpbk(d))]).ch = <<"req", d>>,
         AllOf(Head(T[TmOf(Lpbk(d))]).vals, Head(T[TmOf(Lpbk(d))]).num),
         NEW x \in Token, x.ch = <<"loop", d>>, x.vals = Head(T[TmOf(Lpbk(d))]).vals,
         NEW T1, T1 = Put(Pop(T, TmOf(Lpbk(d))), WireOf(Lpbk(d)), x),
         NEW rq1, rq1 = [rq EXCEPT ![d] = @ + 1]
  PROVE  Tokens(T1, K, L, W, R, U, D, sn, rq1, re, iwo, rpi, c)
<1> DEFINE q == TmOf(Lpbk(d))
           q2 == WireOf(Lpbk(d))
           T0 == Pop(T, q)
<1>1. /\ T \in TokenQueues /\ ReqWin(T, K, sn, rq) /\ ReadWin(T, R, U, re, c) /\ WriteWin(T, L, W)
      /\ Apart(T) /\ AllIn(T, Good(sn, rq, iwo, rpi, D, c)) /\ Counts(T, R, W, sn)
  BY DEF Tokens
<1>2. /\ K \in [Eps -> Nat] /\ L \in [Eps -> Nat] /\ W \in [Eps -> Nat]
      /\ R \in [Pairs -> Nat] /\ U \in [Pairs -> Nat] /\ D \in [Eps -> SUBSET Vals]
      /\ sn \in [Eps -> Nat] /\ rq \in [Eps -> Nat] /\ re \in [Pairs -> Nat]
  BY DEF Numbers
<1>3. ReqWin(T0, K, sn, rq1) /\ Head(T[q]).num = rq[d]
  <2>1. /\ T \in TokenQueues /\ ReqWin(T, K, sn, rq)
        /\ K \in [Eps -> Nat] /\ sn \in [Eps -> Nat] /\ rq \in [Eps -> Nat]
    BY <1>1, <1>2
  <2>2. ReqWin(T0, K, sn, [rq EXCEPT ![d] = @ + 1])
    BY <2>1, ReqWinLoop
  <2>3. Head(T[q]).num = rq[d]
    <3>1. Ranged(T[q], <<"req", d>>, rq[d], K[d]) /\ Dense(T[q], <<"req", d>>, rq[d], K[d])
      BY <2>1 DEF ReqWin
    <3>2. q \in Queues /\ T[q] # <<>> /\ Head(T[q]).ch = <<"req", d>> /\ rq[d] \in Nat /\ K[d] \in Nat
      BY <2>1, QueueNames
    <3> QED
      BY <2>1, <3>1, <3>2, PopFirst, ZenonT(60)
  <2> QED
    BY <2>2, <2>3
<1>4. /\ rq1 \in [Eps -> Nat] /\ rq1[d] = rq[d] + 1 /\ \A e \in Eps : e # d => rq1[e] = rq[e]
  BY <1>2, Bumped
<1>5. \A e \in Eps : rq[e] <= rq1[e] /\ sn[e] <= sn[e]
  <2> TAKE e \in Eps
  <2>1. sn[e] \in Nat /\ rq[e] \in Nat
    BY <1>2
  <2>2. CASE e = d
    BY <2>1, <2>2, <1>4
  <2>3. CASE e # d
    BY <2>1, <2>3, <1>4
  <2> QED
    BY <2>2, <2>3
<1>6. q \in Queues /\ q2 \in Queues
  BY QueueNames
<1>7. /\ T[q] # <<>> /\ Head(T[q]).ch = <<"req", d>> /\ x.vals = Head(T[q]).vals /\ T1 = Put(T0, q2, x)
      /\ \A v \in x.vals : v[2] = rq[d]
  BY <1>3 DEF AllOf
<1> HIDE DEF q, q2
<1>8. T0 \in TokenQueues
  BY <1>1, <1>6, <1>7, PopIs
<1>9. /\ Apart(T0) /\ \A v \in x.vals : v \notin Held(T0, Classes)
  BY <1>1, <1>6, <1>7, PopApart
<1>10. AllIn(T0, Good(sn, rq, iwo, rpi, D, c)) /\ <<q, Head(T[q])>> \in Good(sn, rq, iwo, rpi, D, c)
  BY <1>1, <1>6, <1>7, PopAllIn
<1>11. /\ x.ch[1] = "loop" /\ x.ch[1] # "req" /\ x.ch[1] # "write" /\ x.ch[1] # "read" /\ x.ch[1] # "res"
       /\ x.ch[1] \notin {"read", "res"} /\ x.ch[1] \notin {"res", "write"} /\ x.ch[1] \notin {"rnak", "wnak"}
       /\ x.ch[1] # "ack" /\ x.ch[2] = d
       /\ Head(T[q]).ch[1] = "req" /\ Head(T[q]).ch[2] = d
       /\ Head(T[q]).ch[1] # "read" /\ Head(T[q]).ch[1] # "write"
  BY <1>7
<1>12. Counts(Put(T0, q2, x), R, W, sn)
  BY <1>1, <1>2, <1>6, <1>7, <1>11, CountsMove
<1>13. ReadWin(T0, R, U, re, c) /\ WriteWin(T0, L, W)
  BY <1>1, <1>2, <1>6, <1>7, <1>11, ReadWinPop, WriteWinPop
<1>14. Good(sn, rq, iwo, rpi, D, c) \subseteq Good(sn, rq1, iwo, rpi, D, c)
  <2>1. NoLess(sn, sn) /\ NoLess(rq, rq1)
    BY <1>2, <1>4, <1>5 DEF NoLess
  <2> QED
    BY <2>1, GoodMore
<1>15. AllIn(T0, Good(sn, rq1, iwo, rpi, D, c))
  BY <1>10, <1>14, AllInMore
<1>16. <<q2, x>> \in Good(sn, rq1, iwo, rpi, D, c)
  <2>1. ASSUME NEW v \in x.vals
        PROVE  v[1] = x.ch[2] /\ v[2] < sn[v[1]] /\ v \notin D[v[1]] /\ v[2] < rq1[v[1]]
    <3>1. v[1] = d /\ v[2] < sn[v[1]] /\ v \notin D[v[1]]
      BY <1>7, <1>10, <1>11 DEF Good
    <3>2. v[2] = rq[d] /\ rq[d] \in Nat /\ rq1[d] = rq[d] + 1
      BY <1>2, <1>4, <1>7
    <3> QED
      BY <3>1, <3>2, <1>11
  <2> QED
    BY <2>1, <1>6, <1>11 DEF Good
<1> HIDE DEF T0
<1>17. ReqWin(Put(T0, q2, x), K, sn, rq1)
  BY <1>2, <1>3, <1>4, <1>6, <1>8, <1>11, ReqWinPut
<1>18. ReadWin(Put(T0, q2, x), R, U, re, c) /\ WriteWin(Put(T0, q2, x), L, W)
  BY <1>2, <1>6, <1>8, <1>11, <1>13, ReadWinPut, WriteWinPut
<1>19. Apart(Put(T0, q2, x)) /\ AllIn(Put(T0, q2, x), Good(sn, rq1, iwo, rpi, D, c))
  BY <1>6, <1>8, <1>9, <1>15, <1>16, PutApart, PutAllIn
<1>20. Put(T0, q2, x) \in TokenQueues
  BY <1>6, <1>8, PutIs
<1> QED
  BY <1>4, <1>7, <1>12, <1>17, <1>18, <1>19, <1>20 DEF Tokens

\* A replica is cut in two.
LEMMA TokensCut ==
  ASSUME NEW T, NEW K, NEW L, NEW W, NEW R, NEW U, NEW D, NEW sn, NEW rq, NEW re, NEW iwo, NEW rpi, NEW c,
         Numbers(K, L, W, R, U, D, sn, rq, re, iwo, rpi),
         Tokens(T, K, L, W, R, U, D, sn, rq, re, iwo, rpi, c),
         NEW q \in Queues, T[q] # <<>>, NEW d, Head(T[q]).ch = <<"loop", d>>,
         NEW q2 \in Queues, NEW x \in Token, NEW y \in Token, x.ch = <<"loop", d>>, y.ch = <<"loop", d>>,
         x.vals \subseteq Head(T[q]).vals, y.vals \subseteq Head(T[q]).vals,
         \A v \in y.vals : v \notin x.vals
  PROVE  Tokens(Put(Put(Pop(T, q), q2, x), q2, y), K, L, W, R, U, D, sn, rq, re, iwo, rpi, c)
<1> DEFINE T0 == Pop(T, q)
           T1 == Put(T0, q2, x)
<1>1. /\ x.ch[1] = "loop" /\ y.ch[1] = "loop" /\ Head(T[q]).ch[1] = "loop"
      /\ x.ch[2] = Head(T[q]).ch[2] /\ y.ch[2] = Head(T[q]).ch[2]
      /\ Head(T[q]).ch[1] \notin {"req", "write"} /\ Head(T[q]).ch[1] # "read" /\ Head(T[q]).ch[1] # "req"
      /\ x.ch[1] \notin {"req", "read", "res", "write"}
      /\ y.ch[1] \notin {"read", "res"} /\ y.ch[1] # "req" /\ y.ch[1] # "write"
  OBVIOUS
<1>2. /\ Tokens(T0, K, L, W, R, U, D, sn, rq, re, iwo, rpi, c)
      /\ <<q, Head(T[q])>> \in Good(sn, rq, iwo, rpi, D, c)
      /\ \A v \in Head(T[q]).vals : v \notin Held(T0, Classes)
  BY <1>1, TokensPop
<1>3. <<q2, x>> \in Good(sn, rq, iwo, rpi, D, c) /\ <<q2, y>> \in Good(sn, rq, iwo, rpi, D, c)
  BY <1>1, <1>2 DEF Good
<1>4. Tokens(T1, K, L, W, R, U, D, sn, rq, re, iwo, rpi, c)
  BY <1>1, <1>3, TokensMove
<1>5. T0 \in TokenQueues
  BY <1>2 DEF Tokens
<1>6. T \in TokenQueues /\ Counts(T, R, W, sn) /\ R \in [Pairs -> Nat] /\ W \in [Eps -> Nat]
  BY DEF Tokens, Numbers
<1>7. ASSUME NEW C
      PROVE  Held(Put(T1, q2, y), C) \subseteq Held(T, C)
  <2>1. CASE "loop" \in C
    <3>1. Held(T0, C) \subseteq Held(T, C) /\ Head(T[q]).vals \subseteq Held(T, C)
      BY <1>1, <1>6, <2>1, PopHeld
    <3> HIDE DEF T0
    <3>2. Held(T1, C) = Held(T0, C) \cup x.vals /\ T1 \in TokenQueues
      BY <1>1, <1>5, <2>1, PutHeld, PutIs
    <3> HIDE DEF T1
    <3>3. Held(Put(T1, q2, y), C) = Held(T1, C) \cup y.vals
      BY <1>1, <2>1, <3>2, PutHeld
    <3> QED
      BY <3>1, <3>2, <3>3
  <2>2. CASE "loop" \notin C
    <3>1. Held(T0, C) \subseteq Held(T, C)
      BY <1>6, PopHeld
    <3> HIDE DEF T0
    <3>2. Held(T1, C) = Held(T0, C) /\ T1 \in TokenQueues
      BY <1>1, <1>5, <2>2, PutHeld, PutIs
    <3> HIDE DEF T1
    <3>3. Held(Put(T1, q2, y), C) = Held(T1, C)
      BY <1>1, <2>2, <3>2, PutHeld
    <3> QED
      BY <3>1, <3>2, <3>3
  <2> QED
    BY <2>1, <2>2
<1>8. Counts(Put(T1, q2, y), R, W, sn)
  <2>1. /\ Held(Put(T1, q2, y), {"req", "loop"}) \subseteq Held(T, {"req", "loop"})
        /\ Held(Put(T1, q2, y), {"req", "loop", "read", "res"}) \subseteq Held(T, {"req", "loop", "read", "res"})
    BY <1>7
  <2> HIDE DEF T1
  <2> QED
    BY <1>6, <2>1, CountsHeld
<1>9. \A v \in y.vals : v \notin Held(T1, Classes)
  <2>1. "loop" \in Classes
    BY DEF Classes
  <2> HIDE DEF T0
  <2>2. Held(T1, Classes) = Held(T0, Classes) \cup x.vals
    BY <1>1, <1>5, <2>1, PutHeld
  <2> QED
    BY <1>2, <2>2
<1> HIDE DEF T1
<1>10. /\ T1 \in TokenQueues /\ ReqWin(T1, K, sn, rq) /\ ReadWin(T1, R, U, re, c) /\ WriteWin(T1, L, W)
       /\ Apart(T1) /\ AllIn(T1, Good(sn, rq, iwo, rpi, D, c))
  BY <1>4 DEF Tokens
<1>11. /\ K \in [Eps -> Nat] /\ L \in [Eps -> Nat] /\ W \in [Eps -> Nat]
       /\ R \in [Pairs -> Nat] /\ U \in [Pairs -> Nat]
       /\ sn \in [Eps -> Nat] /\ rq \in [Eps -> Nat] /\ re \in [Pairs -> Nat]
  BY DEF Numbers
<1>12. ReqWin(Put(T1, q2, y), K, sn, rq)
  BY <1>1, <1>10, <1>11, ReqWinPut
<1>13. ReadWin(Put(T1, q2, y), R, U, re, c)
  BY <1>1, <1>10, <1>11, ReadWinPut
<1>14. WriteWin(Put(T1, q2, y), L, W)
  BY <1>1, <1>10, <1>11, WriteWinPut
<1>15. Apart(Put(T1, q2, y)) /\ AllIn(Put(T1, q2, y), Good(sn, rq, iwo, rpi, D, c)) /\ Put(T1, q2, y) \in TokenQueues
  BY <1>3, <1>9, <1>10, PutApart, PutAllIn, PutIs
<1>16. Tokens(Put(T1, q2, y), K, L, W, R, U, D, sn, rq, re, iwo, rpi, c)
  BY <1>8, <1>10, <1>12, <1>13, <1>14, <1>15 DEF Tokens
<1> QED
  BY <1>16 DEF T1

\* A replica with one item takes the next PSN of its pair and a slot.
LEMMA TokensRead ==
  ASSUME NEW T, NEW K, NEW L, NEW W, NEW R, NEW U, NEW D, NEW sn, NEW rq, NEW re, NEW iwo, NEW rpi, NEW c,
         Numbers(K, L, W, R, U, D, sn, rq, re, iwo, rpi),
         Tokens(T, K, L, W, R, U, D, sn, rq, re, iwo, rpi, c),
         NEW q \in Queues, T[q] # <<>>, NEW v \in Vals,
         Head(T[q]).ch = <<"loop", v[1]>>, Head(T[q]).vals = {v},
         NEW k, k = SrcDst(Source(v), v[1]), R[k] < U[k] + READ_RING_SIZE,
         NEW x \in Token, x.ch = <<"read", v[1]>>, x.vals = {v}, x.num = R[k],
         NEW rpi1, rpi1 = [rpi EXCEPT ![ReadRingId(k, R[k])] = ItemNumber(v)], ItemNumber(v) \in Int
  PROVE  /\ Tokens(Put(Pop(T, q), TmOf(Nic(Source(v))), x), K, L, W, [R EXCEPT ![k] = @ + 1], U, D,
                   sn, rq, re, iwo, rpi1, c)
         /\ R[k] + 1 <= NPost * NItem
         /\ rpi1 \in [ReadSlots -> Int]
<1> DEFINE T0 == Pop(T, q)
           e == Source(v)
           d == v[1]
           q2 == TmOf(Nic(e))
           R1 == [R EXCEPT ![k] = @ + 1]
           T1 == Put(T0, q2, x)
<1>1. /\ K \in [Eps -> Nat] /\ L \in [Eps -> Nat] /\ W \in [Eps -> Nat]
      /\ R \in [Pairs -> Nat] /\ U \in [Pairs -> Nat] /\ D \in [Eps -> SUBSET Vals]
      /\ sn \in [Eps -> Nat] /\ rq \in [Eps -> Nat] /\ re \in [Pairs -> Nat]
      /\ rpi \in [ReadSlots -> Int]
  BY DEF Numbers
<1>2. /\ Head(T[q]).ch[1] = "loop" /\ Head(T[q]).ch[2] = d
      /\ Head(T[q]).ch[1] \notin {"req", "write"} /\ Head(T[q]).ch[1] # "read" /\ Head(T[q]).ch[1] # "req"
      /\ x.ch[1] = "read" /\ x.ch[2] = d /\ x.ch[1] # "req" /\ x.ch[1] # "write" /\ x.ch[1] # "res"
      /\ x.ch[1] \notin {"res", "write"} /\ x.ch[1] \notin {"rnak", "wnak"} /\ x.ch[1] # "ack"
  OBVIOUS
<1>3. /\ Tokens(T0, K, L, W, R, U, D, sn, rq, re, iwo, rpi, c)
      /\ <<q, Head(T[q])>> \in Good(sn, rq, iwo, rpi, D, c)
      /\ \A w \in Head(T[q]).vals : w \notin Held(T0, Classes)
  BY <1>2, TokensPop
<1>4. v[2] < sn[d] /\ v \notin D[d] /\ v[2] < rq[d]
  BY <1>2, <1>3 DEF Good
<1>5. d \in Eps /\ e \in Eps /\ sn[d] \in Nat
  BY <1>1, ValParts
<1>6. q2 \in Queues /\ k \in Pairs
  BY <1>5, QueueNames, PairIds
<1>7. T \in TokenQueues /\ Counts(T, R, W, sn) /\ Apart(T)
  BY DEF Tokens
<1>8. ASSUME NEW C, "loop" \in C
      PROVE  Held(T1, C) \subseteq Held(T, C)
  BY <1>2, <1>6, <1>7, <1>8, HeldMove
<1>9. v \in Held(T, {"req", "loop"})
  BY <1>2, <1>7, PopHeld
<1>10. v \notin Held(T1, {"req", "loop"})
  <2>1. v \notin Held(T0, {"req", "loop"})
    BY <1>7, PopApart
  <2>2. T0 \in TokenQueues
    BY <1>3 DEF Tokens
  <2>3. x.ch[1] \notin {"req", "loop"}
    BY <1>2
  <2> HIDE DEF T0
  <2>4. Held(T1, {"req", "loop"}) = Held(T0, {"req", "loop"})
    BY <1>6, <2>2, <2>3, PutHeld
  <2> QED
    BY <2>1, <2>4
<1>11. Counts(T1, R1, W, sn) /\ R[k] + 1 <= NPost * NItem
  <2>1. /\ Held(T1, {"req", "loop"}) \subseteq Held(T, {"req", "loop"})
        /\ Held(T1, {"req", "loop", "read", "res"}) \subseteq Held(T, {"req", "loop", "read", "res"})
    BY <1>8
  <2> HIDE DEF T1
  <2> QED
    BY <1>1, <1>4, <1>5, <1>7, <1>9, <1>10, <2>1, CountsRead
<1>12. /\ T0 \in TokenQueues /\ ReqWin(T0, K, sn, rq) /\ ReadWin(T0, R, U, re, c) /\ WriteWin(T0, L, W)
       /\ Apart(T0) /\ AllIn(T0, Good(sn, rq, iwo, rpi, D, c))
  BY <1>3 DEF Tokens
<1> HIDE DEF T0
<1>13. /\ AllIn(T0, Good(sn, rq, iwo, rpi1, D, c))
       /\ rpi1[ReadRingId(k, R[k])] = ItemNumber(v) /\ rpi1 \in [ReadSlots -> Int]
  <2>1. AllIn(T0, Good(sn, rq, iwo, rpi1, D, c))
    BY <1>1, <1>6, <1>12, GoodSlot, ZenonT(60)
  <2>2. ReadRingId(k, R[k]) \in ReadSlots
    BY <1>1, <1>6, ReadSlotIds
  <2> QED
    BY <1>1, <2>1, <2>2
<1>14. ReadWin(T1, R1, U, re, c)
  BY <1>1, <1>5, <1>12, ReadWinTake
<1>15. <<q2, x>> \in Good(sn, rq, iwo, rpi1, D, c)
  BY <1>2, <1>4, <1>6, <1>13 DEF Good
<1> HIDE DEF q2, R1
<1>16. ReqWin(T1, K, sn, rq)
  BY <1>1, <1>2, <1>6, <1>12, ReqWinPut
<1>17. WriteWin(T1, L, W)
  BY <1>1, <1>2, <1>6, <1>12, WriteWinPut
<1>18. Apart(T1)
  BY <1>3, <1>6, <1>12, PutApart
<1>19. AllIn(T1, Good(sn, rq, iwo, rpi1, D, c)) /\ T1 \in TokenQueues
  BY <1>6, <1>12, <1>13, <1>15, PutAllIn, PutIs
<1> HIDE DEF T1
<1>20. Tokens(T1, K, L, W, R1, U, D, sn, rq, re, iwo, rpi1, c)
  BY <1>11, <1>14, <1>16, <1>17, <1>18, <1>19 DEF Tokens
<1> QED
  BY <1>11, <1>13, <1>20 DEF T1, T0, q2, R1

\* ... or takes the PSN and finds the ring full.
LEMMA TokensSkip ==
  ASSUME NEW T, NEW K, NEW L, NEW W, NEW R, NEW U, NEW D, NEW sn, NEW rq, NEW re, NEW iwo, NEW rpi, NEW c,
         Numbers(K, L, W, R, U, D, sn, rq, re, iwo, rpi),
         Tokens(T, K, L, W, R, U, D, sn, rq, re, iwo, rpi, c),
         NEW q \in Queues, T[q] # <<>>, NEW v \in Vals,
         Head(T[q]).ch = <<"loop", v[1]>>, Head(T[q]).vals = {v},
         NEW k, k = SrcDst(Source(v), v[1])
  PROVE  /\ Tokens(Pop(T, q), K, L, W, [R EXCEPT ![k] = @ + 1], U, D, sn, rq, re, iwo, rpi, FALSE)
         /\ R[k] + 1 <= NPost * NItem
<1> DEFINE T0 == Pop(T, q)
           e == Source(v)
           d == v[1]
           R1 == [R EXCEPT ![k] = @ + 1]
<1>1. /\ K \in [Eps -> Nat] /\ L \in [Eps -> Nat] /\ W \in [Eps -> Nat]
      /\ R \in [Pairs -> Nat] /\ U \in [Pairs -> Nat] /\ D \in [Eps -> SUBSET Vals]
      /\ sn \in [Eps -> Nat] /\ rq \in [Eps -> Nat] /\ re \in [Pairs -> Nat]
      /\ rpi \in [ReadSlots -> Int]
  BY DEF Numbers
<1>2. /\ Head(T[q]).ch[1] = "loop" /\ Head(T[q]).ch[2] = d
      /\ Head(T[q]).ch[1] \notin {"req", "write"} /\ Head(T[q]).ch[1] # "read" /\ Head(T[q]).ch[1] # "req"
  OBVIOUS
<1>3. /\ Tokens(T0, K, L, W, R, U, D, sn, rq, re, iwo, rpi, c)
      /\ <<q, Head(T[q])>> \in Good(sn, rq, iwo, rpi, D, c)
  BY <1>2, TokensPop
<1>4. v[2] < sn[d]
  BY <1>2, <1>3 DEF Good
<1>5. d \in Eps /\ e \in Eps /\ sn[d] \in Nat
  BY <1>1, ValParts
<1>6. k \in Pairs
  BY <1>5, PairIds
<1>7. T \in TokenQueues /\ Counts(T, R, W, sn) /\ Apart(T)
  BY DEF Tokens
<1>8. /\ Held(T0, {"req", "loop"}) \subseteq Held(T, {"req", "loop"})
      /\ Held(T0, {"req", "loop", "read", "res"}) \subseteq Held(T, {"req", "loop", "read", "res"})
      /\ v \in Held(T, {"req", "loop"})
  BY <1>2, <1>7, PopHeld
<1>9. v \notin Held(T0, {"req", "loop"})
  BY <1>7, PopApart
<1>10. Tokens(T0, K, L, W, R, U, D, sn, rq, re, iwo, rpi, FALSE)
  BY <1>3, TokensWeaken
<1> HIDE DEF T0
<1>11. Counts(T0, R1, W, sn) /\ R[k] + 1 <= NPost * NItem
  BY <1>1, <1>4, <1>5, <1>7, <1>8, <1>9, CountsRead
<1>12. /\ T0 \in TokenQueues /\ ReqWin(T0, K, sn, rq) /\ ReadWin(T0, R, U, re, FALSE) /\ WriteWin(T0, L, W)
       /\ Apart(T0) /\ AllIn(T0, Good(sn, rq, iwo, rpi, D, FALSE))
  BY <1>10 DEF Tokens
<1>13. ReadWin(T0, R1, U, re, FALSE)
  BY <1>1, <1>6, <1>12, ReadWinSkip
<1> HIDE DEF R1
<1>14. Tokens(T0, K, L, W, R1, U, D, sn, rq, re, iwo, rpi, FALSE)
  BY <1>11, <1>12, <1>13 DEF Tokens
<1> QED
  BY <1>11, <1>14 DEF T0, R1

\* A READ that leaves the switch sets the offset of its item.
LEMMA TokensOffset ==
  ASSUME OnePacket, NEW T, NEW K, NEW L, NEW W, NEW R, NEW U, NEW D, NEW sn, NEW rq, NEW re, NEW iwo, NEW rpi, NEW c,
         Numbers(K, L, W, R, U, D, sn, rq, re, iwo, rpi),
         Tokens(T, K, L, W, R, U, D, sn, rq, re, iwo, rpi, c),
         NEW v \in Vals
  PROVE  /\ Tokens(T, K, L, W, R, U, D, sn, rq, re, WithOffset(iwo, v), rpi, c)
         /\ Numbers(K, L, W, R, U, D, sn, rq, re, WithOffset(iwo, v), rpi)
<1> DEFINE iwo1 == WithOffset(iwo, v)
<1>1. iwo \in [Items -> Int]
  BY DEF Numbers
<1>2. Good(sn, rq, iwo, rpi, D, c) \subseteq Good(sn, rq, iwo1, rpi, D, c) /\ iwo1 \in [Items -> Int]
  BY <1>1, GoodOffset, OffsetIs
<1> HIDE DEF iwo1
<1>3. AllIn(T, Good(sn, rq, iwo, rpi, D, c))
  BY DEF Tokens
<1>4. AllIn(T, Good(sn, rq, iwo1, rpi, D, c))
  BY <1>2, <1>3, AllInMore
<1>5. /\ Tokens(T, K, L, W, R, U, D, sn, rq, re, iwo1, rpi, c)
      /\ Numbers(K, L, W, R, U, D, sn, rq, re, iwo1, rpi)
  BY <1>2, <1>4 DEF Tokens, Numbers
<1> QED
  BY <1>5 DEF iwo1

\* The source answers the READ it expects.
LEMMA TokensRespond ==
  ASSUME NEW T, NEW K, NEW L, NEW W, NEW R, NEW U, NEW D, NEW sn, NEW rq, NEW re, NEW iwo, NEW rpi, NEW c,
         Numbers(K, L, W, R, U, D, sn, rq, re, iwo, rpi),
         Tokens(T, K, L, W, R, U, D, sn, rq, re, iwo, rpi, c),
         NEW v \in Vals, NEW e \in Eps, e = Source(v), NEW k, k = SrcDst(e, v[1]),
         T[TmOf(Nic(e))] # <<>>, Head(T[TmOf(Nic(e))]).ch = <<"read", v[1]>>,
         Head(T[TmOf(Nic(e))]).vals = {v}, Head(T[TmOf(Nic(e))]).num = re[k],
         NEW x \in Token, x.ch = <<"res", v[1]>>, x.vals = {v}, x.num = re[k],
         iwo[ItemNumber(v)] = NItem - 1 - v[3]
  PROVE  Tokens(Put(Pop(T, TmOf(Nic(e))), WireOf(Nic(e)), x), K, L, W, R, U, D,
                sn, rq, [re EXCEPT ![k] = @ + 1], iwo, rpi, c)
<1> DEFINE q == TmOf(Nic(e))
           q2 == WireOf(Nic(e))
           d == v[1]
           re1 == [re EXCEPT ![k] = @ + 1]
           T0 == Pop(T, q)
           T1 == Put(T0, q2, x)
<1>1. /\ K \in [Eps -> Nat] /\ L \in [Eps -> Nat] /\ W \in [Eps -> Nat]
      /\ R \in [Pairs -> Nat] /\ U \in [Pairs -> Nat] /\ D \in [Eps -> SUBSET Vals]
      /\ sn \in [Eps -> Nat] /\ rq \in [Eps -> Nat] /\ re \in [Pairs -> Nat]
      /\ rpi \in [ReadSlots -> Int]
  BY DEF Numbers
<1>2. /\ T \in TokenQueues /\ ReqWin(T, K, sn, rq) /\ ReadWin(T, R, U, re, c) /\ WriteWin(T, L, W)
      /\ Apart(T) /\ AllIn(T, Good(sn, rq, iwo, rpi, D, c)) /\ Counts(T, R, W, sn)
  BY DEF Tokens
<1>3. d \in Eps /\ q \in Queues /\ q2 \in Queues
  BY ValParts, QueueNames
<1>4. ReadWin(T1, R, U, re1, c)
  <2>1. Head(T[TmOf(Nic(e))]).num = re[SrcDst(e, d)] /\ x.num = re[SrcDst(e, d)]
    OBVIOUS
  <2>2. ReadWin(Put(Pop(T, TmOf(Nic(e))), WireOf(Nic(e)), x), R, U, [re EXCEPT ![SrcDst(e, d)] = @ + 1], c)
    BY <1>1, <1>2, <1>3, <2>1, ReadWinArrive
  <2> QED
    BY <2>2
<1>5. T[q] # <<>> /\ Head(T[q]).ch = <<"read", d>> /\ Head(T[q]).vals = {v} /\ Head(T[q]).num = x.num
      /\ q2 = WireOf(Nic(Source(v)))
  OBVIOUS
<1> HIDE DEF q, q2, re1
<1>6. /\ Head(T[q]).ch[1] = "read" /\ Head(T[q]).ch[2] = d
      /\ Head(T[q]).ch[1] # "req" /\ Head(T[q]).ch[1] # "write"
      /\ x.ch[1] = "res" /\ x.ch[2] = d /\ x.ch[1] # "req" /\ x.ch[1] # "write" /\ x.ch[1] # "read"
      /\ x.ch[1] \notin {"req", "loop"} /\ x.ch[1] \notin {"rnak", "wnak"} /\ x.ch[1] # "ack"
      /\ Head(T[q]).ch[1] \in {"req", "loop", "read", "res"} /\ x.vals \subseteq Head(T[q]).vals
      /\ Head(T[q]).ch[1] \in {"read", "res"}
  BY <1>5
<1>7. Counts(T1, R, W, sn)
  BY <1>1, <1>2, <1>3, <1>5, <1>6, CountsMove
<1>8. /\ T0 \in TokenQueues /\ ReqWin(T0, K, sn, rq) /\ WriteWin(T0, L, W) /\ Apart(T0)
      /\ AllIn(T0, Good(sn, rq, iwo, rpi, D, c)) /\ <<q, Head(T[q])>> \in Good(sn, rq, iwo, rpi, D, c)
  BY <1>1, <1>2, <1>3, <1>5, <1>6, PopIs, ReqWinPop, WriteWinPop, PopApart, PopAllIn
<1>9. \A w \in x.vals : w \notin Held(T0, Classes)
  BY <1>2, <1>3, <1>5, PopApart
<1>10. /\ v[1] = d /\ v[2] < sn[v[1]] /\ v \notin D[v[1]] /\ v[2] < rq[v[1]]
       /\ rpi[ReadRingId(SrcDst(Source(v), v[1]), x.num)] = ItemNumber(v)
  BY <1>5, <1>6, <1>8, ZenonT(60) DEF Good
<1>11. <<q2, x>> \in Good(sn, rq, iwo, rpi, D, c)
  BY <1>3, <1>5, <1>6, <1>10 DEF Good
<1> HIDE DEF T0
<1>12. ReqWin(T1, K, sn, rq) /\ WriteWin(T1, L, W)
  BY <1>1, <1>3, <1>6, <1>8, ReqWinPut, WriteWinPut
<1>13. Apart(T1) /\ AllIn(T1, Good(sn, rq, iwo, rpi, D, c)) /\ T1 \in TokenQueues
  BY <1>3, <1>8, <1>9, <1>11, PutApart, PutAllIn, PutIs
<1> HIDE DEF T1
<1>14. Tokens(T1, K, L, W, R, U, D, sn, rq, re1, iwo, rpi, c)
  BY <1>4, <1>7, <1>12, <1>13 DEF Tokens
<1> QED
  BY <1>14 DEF T1, T0, q, q2, re1

\* A response comes back.
LEMMA TokensAnswered ==
  ASSUME NEW T, NEW K, NEW L, NEW W, NEW R, NEW U, NEW D, NEW sn, NEW rq, NEW re, NEW iwo, NEW rpi, NEW c,
         Numbers(K, L, W, R, U, D, sn, rq, re, iwo, rpi),
         Tokens(T, K, L, W, R, U, D, sn, rq, re, iwo, rpi, c),
         NEW e \in Eps, NEW d \in Eps, T[WireOf(Nic(e))] # <<>>,
         Head(T[WireOf(Nic(e))]).ch = <<"res", d>>,
         NEW m \in Nat, m = Head(T[WireOf(Nic(e))]).num + 1
  PROVE  /\ Tokens(Pop(T, WireOf(Nic(e))), K, L, W, R, [U EXCEPT ![SrcDst(e, d)] = m], D,
                   sn, rq, re, iwo, rpi, c)
         /\ m <= R[SrcDst(e, d)]
<1> DEFINE q == WireOf(Nic(e))
           U1 == [U EXCEPT ![SrcDst(e, d)] = m]
           T0 == Pop(T, q)
<1>1. /\ K \in [Eps -> Nat] /\ L \in [Eps -> Nat] /\ W \in [Eps -> Nat]
      /\ R \in [Pairs -> Nat] /\ U \in [Pairs -> Nat] /\ D \in [Eps -> SUBSET Vals]
      /\ sn \in [Eps -> Nat] /\ rq \in [Eps -> Nat] /\ re \in [Pairs -> Nat]
  BY DEF Numbers
<1>2. /\ T \in TokenQueues /\ ReqWin(T, K, sn, rq) /\ ReadWin(T, R, U, re, c) /\ WriteWin(T, L, W)
      /\ Apart(T) /\ AllIn(T, Good(sn, rq, iwo, rpi, D, c)) /\ Counts(T, R, W, sn)
  BY DEF Tokens
<1>3. ReadWin(T0, R, U1, re, c) /\ m <= R[SrcDst(e, d)]
  BY <1>1, <1>2, ReadWinAnswered
<1>4. q \in Queues /\ T[q] # <<>> /\ Head(T[q]).ch[1] # "req" /\ Head(T[q]).ch[1] # "write"
  BY QueueNames
<1> HIDE DEF q, U1
<1>5. /\ T0 \in TokenQueues /\ ReqWin(T0, K, sn, rq) /\ WriteWin(T0, L, W) /\ Apart(T0)
      /\ AllIn(T0, Good(sn, rq, iwo, rpi, D, c)) /\ Counts(T0, R, W, sn)
  BY <1>1, <1>2, <1>4, PopIs, ReqWinPop, WriteWinPop, PopApart, PopAllIn, CountsPop
<1> HIDE DEF T0
<1>6. Tokens(T0, K, L, W, R, U1, D, sn, rq, re, iwo, rpi, c)
  BY <1>3, <1>5 DEF Tokens
<1> QED
  BY <1>3, <1>6 DEF T0, U1, q

\* ... and becomes a WRITE.
LEMMA TokensWrite ==
  ASSUME NEW T, NEW K, NEW L, NEW W, NEW R, NEW U, NEW D, NEW sn, NEW rq, NEW re, NEW iwo, NEW rpi, NEW c,
         Numbers(K, L, W, R, U, D, sn, rq, re, iwo, rpi),
         Tokens(T, K, L, W, R, U, D, sn, rq, re, iwo, rpi, c),
         NEW e \in Eps, NEW v \in Vals, NEW d \in Eps, d = v[1], T[WireOf(Nic(e))] # <<>>,
         Head(T[WireOf(Nic(e))]).ch = <<"res", d>>, Head(T[WireOf(Nic(e))]).vals = {v},
         NEW m \in Nat, m = Head(T[WireOf(Nic(e))]).num + 1,
         NEW x \in Token, x.ch = <<"write", d>>, x.vals = {v}, x.num = W[d]
  PROVE  /\ Tokens(Put(Pop(T, WireOf(Nic(e))), TmOf(Nic(d)), x), K, L, [W EXCEPT ![d] = @ + 1],
                   R, [U EXCEPT ![SrcDst(e, d)] = m], D, sn, rq, re, iwo, rpi, c)
         /\ W[d] + 1 <= NPost * NItem
<1> DEFINE q == WireOf(Nic(e))
           q2 == TmOf(Nic(d))
           U1 == [U EXCEPT ![SrcDst(e, d)] = m]
           W1 == [W EXCEPT ![d] = @ + 1]
           T0 == Pop(T, q)
           T1 == Put(T0, q2, x)
<1>1. /\ K \in [Eps -> Nat] /\ L \in [Eps -> Nat] /\ W \in [Eps -> Nat]
      /\ R \in [Pairs -> Nat] /\ U \in [Pairs -> Nat] /\ D \in [Eps -> SUBSET Vals]
      /\ sn \in [Eps -> Nat] /\ rq \in [Eps -> Nat] /\ re \in [Pairs -> Nat]
  BY DEF Numbers
<1>2. Tokens(T0, K, L, W, R, U1, D, sn, rq, re, iwo, rpi, c)
  BY TokensAnswered
<1>3. /\ T \in TokenQueues /\ Apart(T) /\ AllIn(T, Good(sn, rq, iwo, rpi, D, c)) /\ Counts(T, R, W, sn)
  BY DEF Tokens
<1>4. q \in Queues /\ q2 \in Queues /\ U1 \in [Pairs -> Nat]
  BY <1>1, QueueNames, PairIds
<1>5. /\ T[q] # <<>> /\ Head(T[q]).ch = <<"res", d>> /\ Head(T[q]).vals = {v}
  OBVIOUS
<1>6. WriteWin(T0, L, W) /\ T0 \in TokenQueues
  BY <1>2 DEF Tokens
<1>7. WriteWin(T1, L, W1)
  <2> HIDE DEF T0
  <2> QED
    BY <1>1, <1>6, WriteWinTake
<1> HIDE DEF q, q2, U1, W1
<1>8. /\ Head(T[q]).ch[1] = "res" /\ Head(T[q]).ch[2] = d
      /\ x.ch[1] = "write" /\ x.ch[2] = d /\ x.ch[1] # "req" /\ x.ch[1] # "res" /\ x.ch[1] # "read"
      /\ x.ch[1] \notin {"read", "res"} /\ x.ch[1] \notin {"rnak", "wnak"} /\ x.ch[1] # "ack"
      /\ x.ch[1] \notin {"req", "loop"} /\ x.ch[1] \notin {"req", "loop", "read", "res"}
      /\ Head(T[q]).ch[1] \notin {"req", "loop"} /\ Head(T[q]).ch[1] \in {"req", "loop", "read", "res"}
  BY <1>5
<1>9. <<q, Head(T[q])>> \in Good(sn, rq, iwo, rpi, D, c)
  BY <1>3, <1>4, <1>5, PopAllIn
<1>10. /\ v[1] = d /\ v[2] < sn[v[1]] /\ v \notin D[v[1]] /\ v[2] < rq[v[1]]
       /\ iwo[ItemNumber(v)] = NItem - 1 - v[3]
  BY <1>5, <1>8, <1>9 DEF Good
<1>11. <<q2, x>> \in Good(sn, rq, iwo, rpi, D, c)
  BY <1>4, <1>8, <1>10 DEF Good
<1>12. ASSUME NEW C, x.ch[1] \in C => Head(T[q]).ch[1] \in C
       PROVE  Held(T1, C) \subseteq Held(T, C)
  <2>1. x.vals \subseteq Head(T[q]).vals
    BY <1>5
  <2> QED
    BY <1>3, <1>4, <1>5, <1>12, <2>1, HeldMove
<1>13. v \in Held(T, {"req", "loop", "read", "res"})
  BY <1>3, <1>4, <1>5, <1>8, PopHeld
<1>14. v \notin Held(T0, {"req", "loop", "read", "res"})
  BY <1>3, <1>4, <1>5, PopApart
<1>15. \A w \in x.vals : w \notin Held(T0, Classes)
  BY <1>3, <1>4, <1>5, PopApart
<1>16. /\ Held(T1, {"req", "loop"}) \subseteq Held(T, {"req", "loop"})
       /\ Held(T1, {"req", "loop", "read", "res"}) \subseteq Held(T, {"req", "loop", "read", "res"})
  BY <1>8, <1>12
<1>17. /\ ReqWin(T0, K, sn, rq) /\ ReadWin(T0, R, U1, re, c) /\ Apart(T0)
       /\ AllIn(T0, Good(sn, rq, iwo, rpi, D, c))
  BY <1>2 DEF Tokens
<1> HIDE DEF T0
<1>18. v \notin Held(T1, {"req", "loop", "read", "res"})
  <2>1. Held(T1, {"req", "loop", "read", "res"}) = Held(T0, {"req", "loop", "read", "res"})
    BY <1>4, <1>6, <1>8, PutHeld
  <2> QED
    BY <1>14, <2>1
<1>19. ReqWin(T1, K, sn, rq) /\ ReadWin(T1, R, U1, re, c)
  BY <1>1, <1>4, <1>6, <1>8, <1>17, ReqWinPut, ReadWinPut
<1>20. Apart(T1) /\ AllIn(T1, Good(sn, rq, iwo, rpi, D, c)) /\ T1 \in TokenQueues
  BY <1>4, <1>6, <1>11, <1>15, <1>17, PutApart, PutAllIn, PutIs
<1> HIDE DEF T1
<1>21. Counts(T1, R, W1, sn) /\ W[d] + 1 <= NPost * NItem
  <2>1. v[2] < sn[v[1]] /\ sn[v[1]] \in Nat
    BY <1>1, <1>10
  <2>2. Counts(T1, R, [W EXCEPT ![v[1]] = @ + 1], sn) /\ W[v[1]] + 1 <= NPost * NItem
    BY <1>1, <1>3, <1>13, <1>16, <1>18, <2>1, CountsWrite
  <2> QED
    BY <2>2, <1>10 DEF W1
<1>22. Tokens(T1, K, L, W1, R, U1, D, sn, rq, re, iwo, rpi, c)
  BY <1>7, <1>19, <1>20, <1>21 DEF Tokens
<1> QED
  BY <1>21, <1>22 DEF T1, T0, q, q2, U1, W1

\* A WRITE leaves the switch.
LEMMA TokensLeave ==
  ASSUME NEW T, NEW K, NEW L, NEW W, NEW R, NEW U, NEW D, NEW sn, NEW rq, NEW re, NEW iwo, NEW rpi, NEW c,
         Numbers(K, L, W, R, U, D, sn, rq, re, iwo, rpi),
         Tokens(T, K, L, W, R, U, D, sn, rq, re, iwo, rpi, c),
         NEW d \in Eps, T[TmOf(Nic(d))] # <<>>, Head(T[TmOf(Nic(d))]).ch = <<"write", d>>
  PROVE  /\ Tokens(Pop(T, TmOf(Nic(d))), K, [L EXCEPT ![d] = @ + 1], W, R, U, D, sn, rq, re, iwo, rpi, c)
         /\ Head(T[TmOf(Nic(d))]).num = L[d] /\ L[d] < W[d] /\ W[d] <= NPost * NItem
         /\ <<TmOf(Nic(d)), Head(T[TmOf(Nic(d))])>> \in Good(sn, rq, iwo, rpi, D, c)
         /\ \A v \in Head(T[TmOf(Nic(d))]).vals : v \notin Held(Pop(T, TmOf(Nic(d))), Classes)
<1> DEFINE q == TmOf(Nic(d))
           L1 == [L EXCEPT ![d] = @ + 1]
           T0 == Pop(T, q)
<1>1. /\ K \in [Eps -> Nat] /\ L \in [Eps -> Nat] /\ W \in [Eps -> Nat]
      /\ R \in [Pairs -> Nat] /\ U \in [Pairs -> Nat] /\ D \in [Eps -> SUBSET Vals]
      /\ sn \in [Eps -> Nat] /\ rq \in [Eps -> Nat] /\ re \in [Pairs -> Nat]
  BY DEF Numbers
<1>2. /\ T \in TokenQueues /\ ReqWin(T, K, sn, rq) /\ ReadWin(T, R, U, re, c) /\ WriteWin(T, L, W)
      /\ Apart(T) /\ AllIn(T, Good(sn, rq, iwo, rpi, D, c)) /\ Counts(T, R, W, sn)
  BY DEF Tokens
<1>3. WriteWin(T0, L1, W) /\ Head(T[q]).num = L[d] /\ L[d] < W[d]
  BY <1>1, <1>2, WriteWinLeave
<1>4. q \in Queues /\ T[q] # <<>> /\ Head(T[q]).ch[1] # "req" /\ Head(T[q]).ch[1] # "read"
  BY QueueNames
<1>5. W[d] <= NPost * NItem
  <2>1. W[d] + Cardinality(Unwritten(T, sn, d)) <= NPost * NItem
    BY <1>2 DEF Counts
  <2>2. Cardinality(Unwritten(T, sn, d)) \in Nat /\ W[d] \in Nat
    BY <1>1, UnreadFinite
  <2>3. NPost * NItem \in Nat
    BY Constants
  <2> QED
    BY <2>1, <2>2, <2>3
<1> HIDE DEF q, L1
<1>6. /\ T0 \in TokenQueues /\ ReqWin(T0, K, sn, rq) /\ Apart(T0)
      /\ AllIn(T0, Good(sn, rq, iwo, rpi, D, c)) /\ Counts(T0, R, W, sn)
      /\ <<q, Head(T[q])>> \in Good(sn, rq, iwo, rpi, D, c)
  BY <1>1, <1>2, <1>4, PopIs, ReqWinPop, PopApart, PopAllIn, CountsPop
<1>7. ReadWin(T0, R, U, re, c)
  BY <1>1, <1>2, <1>4, ReadWinPop
<1>8. \A v \in Head(T[q]).vals : v \notin Held(T0, Classes)
  BY <1>2, <1>4, PopApart
<1> HIDE DEF T0
<1>9. Tokens(T0, K, L1, W, R, U, D, sn, rq, re, iwo, rpi, c)
  BY <1>3, <1>6, <1>7 DEF Tokens
<1> QED
  BY <1>3, <1>5, <1>6, <1>8, <1>9 DEF T0, L1, q

\* An element gets into memory.
LEMMA TokensMemory ==
  ASSUME NEW T, NEW K, NEW L, NEW W, NEW R, NEW U, NEW D, NEW sn, NEW rq, NEW re, NEW iwo, NEW rpi, NEW c,
         Numbers(K, L, W, R, U, D, sn, rq, re, iwo, rpi),
         Tokens(T, K, L, W, R, U, D, sn, rq, re, iwo, rpi, c),
         NEW d \in Eps, NEW u, u \notin Held(T, Classes), NPost <= 1 => Cardinality(D[d]) # NItem
  PROVE  Tokens(T, K, L, W, R, U, [D EXCEPT ![d] = @ \cup {u}], sn, rq, re, iwo, rpi, c)
<1>1. D \in [Eps -> SUBSET Vals]
  BY DEF Numbers
<1>2. T \in TokenQueues /\ AllIn(T, Good(sn, rq, iwo, rpi, D, c))
  BY DEF Tokens
<1>3. AllIn(T, Good(sn, rq, iwo, rpi, [D EXCEPT ![d] = @ \cup {u}], c))
  BY <1>1, <1>2, GoodMemory
<1> QED
  BY <1>3 DEF Tokens

\* An answer without elements.
LEMMA TokensAnswer ==
  ASSUME NEW T, NEW K, NEW L, NEW W, NEW R, NEW U, NEW D, NEW sn, NEW rq, NEW re, NEW iwo, NEW rpi, NEW c,
         Numbers(K, L, W, R, U, D, sn, rq, re, iwo, rpi),
         Tokens(T, K, L, W, R, U, D, sn, rq, re, iwo, rpi, c),
         NEW q \in Queues, NEW x \in Token, x.vals = {}, x.ch[1] \in {"ack", "wnak"},
         <<q, x>> \in Good(sn, rq, iwo, rpi, D, c)
  PROVE  Tokens(Put(T, q, x), K, L, W, R, U, D, sn, rq, re, iwo, rpi, c)
<1>1. /\ K \in [Eps -> Nat] /\ L \in [Eps -> Nat] /\ W \in [Eps -> Nat]
      /\ R \in [Pairs -> Nat] /\ U \in [Pairs -> Nat] /\ D \in [Eps -> SUBSET Vals]
      /\ sn \in [Eps -> Nat] /\ rq \in [Eps -> Nat] /\ re \in [Pairs -> Nat]
  BY DEF Numbers
<1>2. /\ T \in TokenQueues /\ ReqWin(T, K, sn, rq) /\ ReadWin(T, R, U, re, c) /\ WriteWin(T, L, W)
      /\ Apart(T) /\ AllIn(T, Good(sn, rq, iwo, rpi, D, c)) /\ Counts(T, R, W, sn)
  BY DEF Tokens
<1>3. /\ x.ch[1] # "req" /\ x.ch[1] # "write" /\ x.ch[1] \notin {"read", "res"}
      /\ x.ch[1] \notin {"req", "loop"} /\ x.ch[1] \notin {"req", "loop", "read", "res"}
  OBVIOUS
<1>4. /\ Held(Put(T, q, x), {"req", "loop"}) \subseteq Held(T, {"req", "loop"})
      /\ Held(Put(T, q, x), {"req", "loop", "read", "res"}) \subseteq Held(T, {"req", "loop", "read", "res"})
  BY <1>2, <1>3, PutHeld
<1>5. Counts(Put(T, q, x), R, W, sn)
  BY <1>1, <1>2, <1>4, CountsHeld
<1>6. /\ ReqWin(Put(T, q, x), K, sn, rq) /\ ReadWin(Put(T, q, x), R, U, re, c) /\ WriteWin(Put(T, q, x), L, W)
  BY <1>1, <1>2, <1>3, ReqWinPut, ReadWinPut, WriteWinPut
<1>7. Apart(Put(T, q, x)) /\ AllIn(Put(T, q, x), Good(sn, rq, iwo, rpi, D, c)) /\ Put(T, q, x) \in TokenQueues
  BY <1>2, PutApart, PutAllIn, PutIs
<1> QED
  BY <1>5, <1>6, <1>7 DEF Tokens

-----------------------------------------------------------------------------
(* The inductive invariant.  T gives each packet its token; K, L, W, R and *)
(* U count: requests that ingress has seen, WRITEs that have left, WRITEs  *)
(* and READs that were made, and the READ after the last one answered.  D  *)
(* are the elements in memory.                                             *)

ElementOf(S, v) == [addr |-> (((S * NPost) + v[2]) * NItem) + NItem - 1 - v[3], val |-> v]
Calm(l, f) == l = 0 /\ ~f

Registers(es, wp, ru, rp) ==
  /\ es \in [Eps -> {0, 1}] /\ wp \in [Eps -> Nat]
  /\ ru \in [Pairs -> Nat] /\ rp \in [Pairs -> Nat]

UnitRegisters(wpu, ruu, uda, ur, urp) ==
  /\ wpu \in [WriteSlots -> {0}] /\ ruu \in [Eps -> {0, Wrap16(Pow2(SHL_UNIT_SHIFT))}]
  /\ uda \in [Units -> Int] /\ ur \in [Units -> Int] /\ urp \in [Units -> Nat]

NicStates(ua, we, l, S, f, sn) ==
  /\ ua \in [Eps -> Nat] /\ we \in [Eps -> Nat] /\ l \in Nat /\ S \in Int /\ f \in BOOLEAN
  /\ \A d \in Eps : sn[d] <= NPost

\* The unit of a request that egress has taken has the request's buffer.
Buffers(rq, uda, S) ==
  \A d \in Eps, j \in Posts :
    j < rq[d] => uda[UnitIdFromDst(d, j)] = ((S * NPost) + j) * NItem

Memory(D, wr, sn, we, S) ==
  /\ wr = [d \in Eps |-> {ElementOf(S, v) : v \in D[d]}]
  /\ \A d \in Eps :
       /\ D[d] \subseteq ValsFrom(d)
       /\ \A v \in D[d] : v[2] < sn[d]
       /\ Cardinality(D[d]) = we[d]

\* WRITEs that have left arrive unless one was lost.
Gap(L, we, l) == \A d \in Eps : we[d] <= L[d] /\ (l = 0 => we[d] = L[d])

\* The registers of an endpoint that is up are the numbers counted.
Up(es, wp, rp, ru, R, U, W) ==
  \A d \in Eps : es[d] = 1 =>
    /\ wp[d] = W[d]
    /\ \A e \in Eps : rp[SrcDst(e, d)] = R[SrcDst(e, d)] /\ ru[SrcDst(e, d)] = U[SrcDst(e, d)]

Clean(c, es) == c => \A d \in Eps : es[d] = 1

\* With one request, the count of its unit is what has not left, and an
\* acknowledgement follows the last element.
One(L, D, rq, ur, ua) ==
  NPost <= 1 =>
    \A d \in Eps :
      /\ ua[d] > 0 => Cardinality(D[d]) = NItem
      /\ \A j \in Posts : L[d] + (IF rq[d] = 0 THEN NItem ELSE ur[UnitIdFromDst(d, j)]) = NItem

Inv(T, K, L, W, R, U, D) ==
  /\ Registers(endp_state, write_psn, read_unack_psn, read_psn)
  /\ UnitRegisters(write_psn_to_unit, req_unack_unit, unit_dst_addr, unit_remain, unit_req_psn)
  /\ NicStates(unacked, write_epsn, lost, session, full, sent)
  /\ Numbers(K, L, W, R, U, D, sent, req_epsn, read_epsn, item_write_offset, read_psn_to_item)
  /\ Shapes(wire, tm, session, T)
  /\ Tokens(T, K, L, W, R, U, D, sent, req_epsn, read_epsn, item_write_offset, read_psn_to_item,
            Calm(lost, full))
  /\ Buffers(req_epsn, unit_dst_addr, session)
  /\ Memory(D, written, sent, write_epsn, session)
  /\ Gap(L, write_epsn, lost)
  /\ Up(endp_state, write_psn, read_psn, read_unack_psn, R, U, W)
  /\ Clean(Calm(lost, full), endp_state)
  /\ One(L, D, req_epsn, unit_remain, unacked)

IInv == \E T, K, L, W, R, U, D : Inv(T, K, L, W, R, U, D)

\* An endpoint sends its next request.
LEMMA StepSendRequest ==
  ASSUME OnePacket, NEW T, NEW K, NEW L, NEW W, NEW R, NEW U, NEW D, Inv(T, K, L, W, R, U, D),
         NEW d \in Eps, SendRequest(d)
  PROVE  IInv'
<1>1. /\ NicStates(unacked, write_epsn, lost, session, full, sent)
      /\ Numbers(K, L, W, R, U, D, sent, req_epsn, read_epsn, item_write_offset, read_psn_to_item)
      /\ Shapes(wire, tm, session, T)
      /\ Tokens(T, K, L, W, R, U, D, sent, req_epsn, read_epsn, item_write_offset, read_psn_to_item,
                Calm(lost, full))
      /\ Memory(D, written, sent, write_epsn, session)
  BY DEF Inv
<1>2. /\ sent[d] < NPost * PktsPerPost
      /\ sent' = [sent EXCEPT ![d] = @ + 1]
      /\ wire' = [wire EXCEPT ![Nic(d)] = Append(@, Request(d, sent[d]))]
  BY DEF SendRequest
<1>3. /\ UNCHANGED <<tm, endp_state, read_unack_psn, read_psn, read_psn_to_item, write_psn>>
      /\ UNCHANGED <<item_write_offset, write_psn_to_unit, req_unack_unit, req_epsn, unit_req_psn,
                     unit_dst_addr, unit_remain, full, unacked, read_epsn, write_epsn, written, lost, session>>
  BY DEF SendRequest, ingressRegs, egressRegs, requestRegs, unitRegs
<1>4. sent \in [Eps -> Nat]
  BY <1>1 DEF Numbers
<1>5. sent[d] \in Posts
  BY <1>2, <1>4, OnePkt, Constants DEF Posts
<1>6. PICK x : x = Tok("req", d, sent[d], CutVals(d, sent[d], 0, NItem))
  OBVIOUS
<1>7. PICK p : p = Request(d, sent[d])
  OBVIOUS
<1>8. p \in Packet /\ x \in Token /\ IsRequest(session, d, p, x)
  <2>1. session \in Int
    BY <1>1 DEF NicStates
  <2> QED
    BY <2>1, <1>5, <1>6, <1>7, MakeRequest
<1>9. Nic(d) \in Ports /\ <<p, x>> \in WireRel(session, Nic(d))
  BY <1>8, QueueNames DEF WireRel
<1>10. PICK T1 : T1 = Put(T, WireOf(Nic(d)), x)
  OBVIOUS
<1>11. Shapes(wire', tm, session, T1)
  BY <1>1, <1>2, <1>7, <1>8, <1>9, <1>10, PutWire
<1>12. /\ x.ch = <<"req", d>> /\ x.num = sent[d] /\ AllAt(x.vals, d, sent[d])
  BY <1>6 DEF Tok, CutVals, AllAt
<1>13. AllBelow(D[d], sent[d])
  BY <1>1 DEF Memory, AllBelow
<1>14. /\ Tokens(T1, K, L, W, R, U, D, sent', req_epsn, read_epsn, item_write_offset, read_psn_to_item,
                 Calm(lost, full))
       /\ sent' \in [Eps -> Nat] /\ sent'[d] = sent[d] + 1 /\ \A e \in Eps : sent[e] <= sent'[e]
  <2> DEFINE sn1 == [sent EXCEPT ![d] = @ + 1]
  <2>1. sn1 = [sent EXCEPT ![d] = @ + 1] /\ sent' = sn1
    BY <1>2
  <2> HIDE DEF sn1
  <2>2. Tokens(T1, K, L, W, R, U, D, sn1, req_epsn, read_epsn, item_write_offset, read_psn_to_item,
               Calm(lost, full))
    BY <1>1, <2>1, <1>8, <1>10, <1>12, <1>13, TokensSend
  <2>3. sn1 \in [Eps -> Nat] /\ sn1[d] = sent[d] + 1 /\ \A e \in Eps : e # d => sn1[e] = sent[e]
    BY <1>4, <2>1, Bumped
  <2> QED
    BY <1>4, <2>1, <2>2, <2>3
<1>15. Numbers(K, L, W, R, U, D, sent', req_epsn, read_epsn, item_write_offset, read_psn_to_item)
  BY <1>1, <1>14 DEF Numbers
<1>16. NicStates(unacked, write_epsn, lost, session, full, sent')
  <2>1. ASSUME NEW e \in Eps PROVE sent'[e] <= NPost
    <3>1. CASE e = d
      BY <3>1, <1>4, <1>5, <1>14, Constants DEF Posts
    <3>2. CASE e # d
      BY <3>2, <1>1, <1>2, <1>4 DEF NicStates
    <3> QED
      BY <3>1, <3>2
  <2> QED
    BY <2>1, <1>1 DEF NicStates
<1>17. Memory(D, written, sent', write_epsn, session)
  <2> SUFFICES ASSUME NEW e \in Eps, NEW v \in D[e] PROVE v[2] < sent'[e]
    BY <1>1 DEF Memory
  <2>1. v \in Vals /\ v[2] < sent[e]
    BY <1>1 DEF Memory, ValsFrom
  <2>2. v[2] \in Nat /\ sent[e] \in Nat /\ sent'[e] \in Nat /\ sent[e] <= sent'[e]
    BY <2>1, <1>4, <1>14, ValParts, Constants
  <2> QED
    BY <2>1, <2>2
<1>18. Inv(T1, K, L, W, R, U, D)'
  BY <1>3, <1>11, <1>14, <1>15, <1>16, <1>17 DEF Inv
<1> QED
  BY <1>18 DEF IInv

\* What the tables make of the packet that arrives at a port.
LEMMA ArrivesIs ==
  ASSUME NEW T, Shapes(wire, tm, session, T), NEW port \in Ports, NEW rx, Arrives(port, rx),
         NEW p, p = Head(wire[port]), NEW t, t = Head(T[WireOf(port)])
  PROVE  \E e \in Eps :
           /\ port = Nic(e) /\ p \in Packet /\ t \in Token /\ T[WireOf(port)] # <<>>
           /\ Shapes(Taken(wire, port), tm, session, Pop(T, WireOf(port)))
           /\ rx = "request" => IsRequest(session, e, p, t) /\ RoceCase(p).dst = e
           /\ rx = "read_response" => IsResponse(e, p, t)
           /\ rx = "read_nak" => IsReadNak(e, p, t)
           /\ rx = "write_ack" => IsWriteAnswer(e, p, t) /\ RoceCase(p).dst = e
<1>1. wire[port] # <<>> /\ p.op # "REPL" /\ RoceCase(p).rx = rx
  BY DEF Arrives
<1>2. /\ Shapes(Taken(wire, port), tm, session, Pop(T, WireOf(port))) /\ T[WireOf(port)] # <<>>
      /\ p \in Packet /\ t \in Token /\ <<p, t>> \in WireRel(session, port)
  BY <1>1, PopWire DEF Taken
<1>3. PICK e \in Eps : port = Nic(e) \/ port = Lpbk(e)
  BY QueueNames
<1>4. port # Lpbk(e)
  BY <1>1, <1>2, WireLpbk
<1>5. port = Nic(e)
  BY <1>3, <1>4
<1>6. \/ IsRequest(session, e, p, t) /\ RoceCase(p).rx = "request" /\ RoceCase(p).dst = e
      \/ IsResponse(e, p, t) /\ RoceCase(p).rx = "read_response"
      \/ IsReadNak(e, p, t) /\ RoceCase(p).rx = "read_nak"
      \/ IsWriteAnswer(e, p, t) /\ RoceCase(p).rx = "write_ack" /\ RoceCase(p).dst = e
  BY <1>2, <1>5, WireNic
<1> QED
  BY <1>1, <1>2, <1>5, <1>6

\* PutTm, in the words of the steps.
LEMMA GivenTm ==
  ASSUME NEW w, NEW m, NEW S, NEW T, Shapes(w, m, S, T), NEW port \in Ports,
         NEW b \in Entry, NEW x \in Token, <<b, x>> \in TmRel(S, port)
  PROVE  Shapes(w, Given(m, port, b), S, Put(T, TmOf(port), x))
BY PutTm DEF Given

\* PutWire, in the words of the steps.
LEMMA GivenWire ==
  ASSUME NEW w, NEW m, NEW S, NEW T, Shapes(w, m, S, T), NEW port \in Ports,
         NEW p \in Packet, NEW x \in Token, <<p, x>> \in WireRel(S, port)
  PROVE  Shapes(Given(w, port, p), m, S, Put(T, WireOf(port), x))
BY PutWire DEF Given

\* A queue of one entry is the entry.
LEMMA QueueOne ==
  ASSUME NEW w, NEW S, NEW T, Shapes(w, tm, S, T), NEW port \in Ports, NEW b \in Entry,
         Queue(port, <<b>>)
  PROVE  tm' = Given(tm, port, b)
<1>1. tm[port] \in Seq(Entry) /\ tm \in [Ports -> Seq(Entry)]
  BY DEF Shapes
<1>2. tm[port] \o <<b>> = Append(tm[port], b)
  BY <1>1, AppendIs
<1>3. tm' = [tm EXCEPT ![port] = tm[port] \o <<b>>]
  BY DEF Queue
<1> QED
  BY <1>2, <1>3 DEF Given

\* Ingress queues a request for its loopback port.
LEMMA StepIngressRequest ==
  ASSUME OnePacket, NEW T, NEW K, NEW L, NEW W, NEW R, NEW U, NEW D, Inv(T, K, L, W, R, U, D),
         NEW port \in Ports, IngressRequest(port), UNCHANGED <<nicVars, session>>
  PROVE  IInv'
<1>1. /\ Numbers(K, L, W, R, U, D, sent, req_epsn, read_epsn, item_write_offset, read_psn_to_item)
      /\ Shapes(wire, tm, session, T)
      /\ Tokens(T, K, L, W, R, U, D, sent, req_epsn, read_epsn, item_write_offset, read_psn_to_item,
                Calm(lost, full))
  BY DEF Inv
<1> PICK p, t : p = Head(wire[port]) /\ t = Head(T[WireOf(port)])
  OBVIOUS
<1>2. Arrives(port, "request")
  BY DEF IngressRequest
<1>3. PICK e \in Eps :
        /\ port = Nic(e) /\ p \in Packet /\ t \in Token /\ T[WireOf(port)] # <<>>
        /\ Shapes(Taken(wire, port), tm, session, Pop(T, WireOf(port)))
        /\ IsRequest(session, e, p, t) /\ RoceCase(p).dst = e
  BY <1>1, <1>2, ArrivesIs
<1>4. /\ t.ch = <<"req", e>> /\ p.smac = e
      /\ T[WireOf(Nic(e))] # <<>> /\ Head(T[WireOf(Nic(e))]).ch = <<"req", e>>
  BY <1>3 DEF IsRequest, ReqPkt
<1> PICK b : b = Bridge("request", RequestFlags(p.op), e, UnitIdFromDst(e, p.psn),
                        ItemIdFromDst(e, p.psn), ItemCnt(p), p)
  OBVIOUS
<1>5. b \in Entry /\ IsQueuedRequest(session, e, b, t)
  BY <1>3, MakeQueuedRequest
<1>6. /\ wire' = Taken(wire, port)
      /\ Queue(Lpbk(e), <<b>>)
      /\ UNCHANGED <<ingressRegs, egressRegs, full>>
  BY <1>3, <1>4 DEF IngressRequest, Received, Taken, LoopbackPort
<1>7. Lpbk(e) \in Ports /\ <<b, t>> \in TmRel(session, Lpbk(e))
  BY <1>3, <1>5, QueueNames DEF TmRel
<1>9. tm' = Given(tm, Lpbk(e), b)
  BY <1>1, <1>5, <1>6, <1>7, QueueOne
<1> PICK T1 : T1 = Put(Pop(T, WireOf(Nic(e))), TmOf(Lpbk(e)), Head(T[WireOf(Nic(e))]))
  OBVIOUS
<1>10. Shapes(wire', tm', session, T1)
  <2>1. Shapes(wire', tm, session, Pop(T, WireOf(port))) /\ T1 = Put(Pop(T, WireOf(port)), TmOf(Lpbk(e)), t)
    BY <1>3, <1>6
  <2> QED
    BY <2>1, <1>3, <1>5, <1>7, <1>9, GivenTm
<1> PICK K1 : K1 = [K EXCEPT ![e] = @ + 1]
  OBVIOUS
<1>11. /\ Tokens(T1, K1, L, W, R, U, D, sent, req_epsn, read_epsn, item_write_offset, read_psn_to_item,
                 Calm(lost, full))
       /\ K1 \in [Eps -> Nat]
  BY <1>1, <1>4, TokensRound, ZenonT(30)
<1>12. Numbers(K1, L, W, R, U, D, sent, req_epsn, read_epsn, item_write_offset, read_psn_to_item)
  BY <1>1, <1>11 DEF Numbers
<1>13. Inv(T1, K1, L, W, R, U, D)'
  BY <1>6, <1>10, <1>11, <1>12
     DEF Inv, ingressRegs, egressRegs, requestRegs, unitRegs, nicVars
<1> QED
  BY <1>13 DEF IInv

\* No packet sets a slot of the WRITE ring, so that each unit found there is 0.
LEMMA ShlZero ==
  ASSUME write_psn_to_unit \in [WriteSlots -> {0}], NEW b, b.dst \in Eps, b.pkt.psn \in Nat
  PROVE  /\ Shl(b) = 0
         /\ WritePsnToUnit(b) => write_psn_to_unit' \in [WriteSlots -> {0}]
<1>1. WriteRingId(b.dst, b.pkt.psn) \in WriteSlots
  BY WriteSlotIds
<1>2. Shl(b) = 0
  BY <1>1 DEF Shl, WritePsnToUnitSet
<1>3. WritePsnToUnit(b) =>
        write_psn_to_unit' = [write_psn_to_unit EXCEPT ![WriteRingId(b.dst, b.pkt.psn)] = 0]
  BY <1>2 DEF WritePsnToUnit
<1> QED
  BY <1>1, <1>2, <1>3

\* The next request in egress is the one expected.
LEMMA TokensNext ==
  ASSUME NEW T, NEW K, NEW L, NEW W, NEW R, NEW U, NEW D, NEW sn, NEW rq, NEW re, NEW iwo, NEW rpi, NEW c,
         Numbers(K, L, W, R, U, D, sn, rq, re, iwo, rpi),
         Tokens(T, K, L, W, R, U, D, sn, rq, re, iwo, rpi, c),
         NEW d \in Eps, T[TmOf(Lpbk(d))] # <<>>, Head(T[TmOf(Lpbk(d))]).ch = <<"req", d>>
  PROVE  Head(T[TmOf(Lpbk(d))]).num = rq[d] /\ rq[d] < sn[d]
<1> DEFINE q == TmOf(Lpbk(d))
<1>1. T \in TokenQueues /\ ReqWin(T, K, sn, rq)
  BY DEF Tokens
<1>2. rq[d] \in Nat /\ K[d] \in Nat /\ sn[d] \in Nat
  BY DEF Numbers
<1>3. /\ Ranged(T[q], <<"req", d>>, rq[d], K[d]) /\ Dense(T[q], <<"req", d>>, rq[d], K[d])
      /\ K[d] <= sn[d]
  BY <1>1 DEF ReqWin, Ranged
<1>4. q \in Queues /\ T[q] # <<>> /\ Head(T[q]).ch = <<"req", d>>
  BY QueueNames
<1> HIDE DEF q
<1>5. Head(T[q]).num = rq[d] /\ Head(T[q]).num < K[d]
  BY <1>1, <1>2, <1>3, <1>4, PopFirst
<1> QED
  BY <1>2, <1>3, <1>5 DEF q

\* What becomes of the k'th request of e in egress.
Took(S, e, b, k) ==
  /\ CaseOf(b) = "correct"
  /\ req_epsn' = [req_epsn EXCEPT ![e] = @ + 1]
  /\ unit_dst_addr' = [unit_dst_addr EXCEPT ![UnitIdFromDst(e, k)] = ((S * NPost) + k) * NItem]
  /\ unit_remain' = [unit_remain EXCEPT ![UnitIdFromDst(e, k)] = NItem]
  /\ unit_req_psn' = [unit_req_psn EXCEPT ![UnitIdFromDst(e, k)] = k]
  /\ write_psn_to_unit' \in [WriteSlots -> {0}]

\* What egress remembers of a request: the unit's buffer, count and PSN.
LEMMA RequestEffect ==
  ASSUME OnePacket, NEW S, NEW e \in Eps, NEW b, NEW t, IsQueuedRequest(S, e, b, t),
         NEW k \in Posts, t.num = k, req_epsn[e] = k, req_epsn \in [Eps -> Nat],
         UnitRegisters(write_psn_to_unit, req_unack_unit, unit_dst_addr, unit_remain, unit_req_psn),
         EgressRequest(b)
  PROVE  Took(S, e, b, k)
<1>1. /\ b.dst = e /\ b.pkt.psn = k /\ b.unit = UnitIdFromDst(e, k) /\ b.cnt = NItem
      /\ b.pkt.addr = ((S * NPost) + k) * NItem /\ b.flag = RequestFlags("WRITE_ONLY")
  BY DEF IsQueuedRequest, IsRequest, ReqPkt
<1>2. k \in Nat /\ k < NPost
  BY Constants
<1>3. write_psn_to_unit \in [WriteSlots -> {0}] /\ req_unack_unit[e] \in {0, Wrap16(Pow2(SHL_UNIT_SHIFT))}
  BY DEF UnitRegisters
<1>4. Shl(b) = 0 /\ (WritePsnToUnit(b) => write_psn_to_unit' \in [WriteSlots -> {0}])
  BY <1>1, <1>2, <1>3, ShlZero
<1>5. CaseOf(b) = "correct"
  BY <1>1, <1>2, <1>3, <1>4, CorrectCase
<1>6. FlagsLeft(b) = RequestFlags("WRITE_ONLY")
  BY <1>1, <1>5 DEF FlagsLeft
<1>7. {"UNIT_DST_ADDR_SET", "UNIT_REQ_PSN_SET", "UNIT_REMAIN_ACC"} \subseteq FlagsLeft(b)
  BY <1>6 DEF RequestFlags
<1>8. Wrap(k + 1) = k + 1
  <2>1. k + 1 \in 0 .. Pow2(RegBits) - 1
    <3>1. NPost <= NPost * NItem
      BY Constants
    <3>2. NPost * NItem \in Nat /\ Pow2(RegBits) \in Nat /\ NPost * NItem < Pow2(RegBits) /\ NPost \in Nat
      BY Constants, Sizes DEF OnePacket
    <3> QED
      BY <1>2, <3>1, <3>2
  <2>2. Pow2(RegBits) \in Nat \ {0}
    BY Sizes
  <2> QED
    BY <2>1, <2>2, ModSmall DEF Wrap
<1>9. req_epsn' = [req_epsn EXCEPT ![e] = @ + 1]
  <2>1. req_epsn' = [req_epsn EXCEPT ![e] = IF @ = k THEN Wrap(@ + 1) ELSE @]
    BY <1>1 DEF EgressRequest
  <2> QED
    BY <1>8, <2>1
<1>10. unit_dst_addr' = [unit_dst_addr EXCEPT ![UnitIdFromDst(e, k)] = ((S * NPost) + k) * NItem]
  BY <1>1, <1>7 DEF EgressRequest
<1>11. unit_remain' = [unit_remain EXCEPT ![UnitIdFromDst(e, k)] = NItem]
  BY <1>1, <1>7 DEF EgressRequest
<1>12. unit_req_psn' = [unit_req_psn EXCEPT ![UnitIdFromDst(e, k)] = k]
  BY <1>1, <1>7 DEF EgressRequest
<1>13. WritePsnToUnit(b)
  BY DEF EgressRequest
<1> QED
  BY <1>4, <1>5, <1>9, <1>10, <1>11, <1>12, <1>13 DEF Took

\* A request passes egress and the loopback port, and is a replica.
LEMMA StepLoopRequest ==
  ASSUME OnePacket, NEW T, NEW K, NEW L, NEW W, NEW R, NEW U, NEW D, Inv(T, K, L, W, R, U, D),
         NEW e \in Eps, LoopRequest(e), UNCHANGED session
  PROVE  IInv'
<1>1. /\ Numbers(K, L, W, R, U, D, sent, req_epsn, read_epsn, item_write_offset, read_psn_to_item)
      /\ Shapes(wire, tm, session, T)
      /\ Tokens(T, K, L, W, R, U, D, sent, req_epsn, read_epsn, item_write_offset, read_psn_to_item,
                Calm(lost, full))
      /\ UnitRegisters(write_psn_to_unit, req_unack_unit, unit_dst_addr, unit_remain, unit_req_psn)
      /\ NicStates(unacked, write_epsn, lost, session, full, sent)
      /\ Buffers(req_epsn, unit_dst_addr, session)
      /\ One(L, D, req_epsn, unit_remain, unacked)
  BY DEF Inv
<1> PICK b, t : b = Head(tm[Lpbk(e)]) /\ t = Head(T[TmOf(Lpbk(e))])
  OBVIOUS
<1>2. /\ tm[Lpbk(e)] # <<>> /\ b.kind = "bridge" /\ b.rx = "request"
      /\ tm' = Taken(tm, Lpbk(e)) /\ wire' = Given(wire, Lpbk(e), ReplOf(b))
      /\ EgressRequest(b) /\ UNCHANGED nicVars
  BY DEF LoopRequest, Leaves, Return, Taken, Given
<1>3. Lpbk(e) \in Ports
  BY QueueNames
<1>4. /\ Shapes(wire, Taken(tm, Lpbk(e)), session, Pop(T, TmOf(Lpbk(e)))) /\ T[TmOf(Lpbk(e))] # <<>>
      /\ t \in Token /\ <<b, t>> \in TmRel(session, Lpbk(e))
  BY <1>1, <1>2, <1>3, PopTm DEF Taken
<1>5. IsQueuedRequest(session, e, b, t)
  BY <1>2, <1>4, TmLpbk
<1>6. t.num \in Posts /\ t.ch = <<"req", e>> /\ t.vals = CutVals(e, t.num, 0, NItem)
  BY <1>5 DEF IsQueuedRequest, IsRequest
<1>7. t.num = req_epsn[e] /\ req_epsn[e] < sent[e]
  BY <1>1, <1>4, <1>6, TokensNext
<1>8. /\ req_epsn \in [Eps -> Nat] /\ sent \in [Eps -> Nat] /\ L \in [Eps -> Nat]
  BY <1>1 DEF Numbers
<1> PICK k \in Posts : k = t.num
  BY <1>6
<1>9. /\ CaseOf(b) = "correct"
      /\ req_epsn' = [req_epsn EXCEPT ![e] = @ + 1]
      /\ unit_dst_addr' = [unit_dst_addr EXCEPT ![UnitIdFromDst(e, k)] = ((session * NPost) + k) * NItem]
      /\ unit_remain' = [unit_remain EXCEPT ![UnitIdFromDst(e, k)] = NItem]
      /\ unit_req_psn' = [unit_req_psn EXCEPT ![UnitIdFromDst(e, k)] = k]
      /\ write_psn_to_unit' \in [WriteSlots -> {0}]
  <2>1. /\ IsQueuedRequest(session, e, b, t) /\ t.num = k /\ req_epsn[e] = k /\ req_epsn \in [Eps -> Nat]
        /\ UnitRegisters(write_psn_to_unit, req_unack_unit, unit_dst_addr, unit_remain, unit_req_psn)
        /\ EgressRequest(b)
    BY <1>1, <1>2, <1>5, <1>7, <1>8
  <2>2. Took(session, e, b, k)
    BY <2>1, RequestEffect
  <2> QED
    BY <2>2 DEF Took
<1>10. UNCHANGED <<ingressRegs, full, item_write_offset, req_unack_unit>>
  BY <1>2 DEF EgressRequest
<1> PICK x : x = Tok("loop", e, 0, t.vals)
  OBVIOUS
<1>11. ReplOf(b) \in Packet /\ x \in Token /\ IsReplica(e, ReplOf(b), x)
  BY <1>4, <1>5, <1>9, MakeReplica
<1>12. <<ReplOf(b), x>> \in WireRel(session, Lpbk(e))
  BY <1>11 DEF WireRel
<1> PICK T1 : T1 = Put(Pop(T, TmOf(Lpbk(e))), WireOf(Lpbk(e)), x)
  OBVIOUS
<1>13. Shapes(wire', tm', session, T1)
  BY <1>2, <1>3, <1>4, <1>11, <1>12, GivenWire
<1>14. AllOf(t.vals, t.num) /\ x.ch = <<"loop", e>> /\ x.vals = t.vals
  BY <1>6 DEF AllOf, CutVals, Tok
<1>15. /\ Tokens(T1, K, L, W, R, U, D, sent, req_epsn', read_epsn, item_write_offset, read_psn_to_item,
                 Calm(lost, full))
       /\ req_epsn' \in [Eps -> Nat] /\ req_epsn'[e] = req_epsn[e] + 1
       /\ \A d \in Eps : d # e => req_epsn'[d] = req_epsn[d]
  <2>1. Tokens(T1, K, L, W, R, U, D, sent, req_epsn', read_epsn, item_write_offset, read_psn_to_item,
               Calm(lost, full))
    <3> PICK rq1 : rq1 = [req_epsn EXCEPT ![e] = @ + 1]
      OBVIOUS
    <3>1. /\ T[TmOf(Lpbk(e))] # <<>> /\ Head(T[TmOf(Lpbk(e))]).ch = <<"req", e>>
          /\ AllOf(Head(T[TmOf(Lpbk(e))]).vals, Head(T[TmOf(Lpbk(e))]).num)
          /\ x \in Token /\ x.ch = <<"loop", e>> /\ x.vals = Head(T[TmOf(Lpbk(e))]).vals
          /\ Numbers(K, L, W, R, U, D, sent, req_epsn, read_epsn, item_write_offset, read_psn_to_item)
          /\ Tokens(T, K, L, W, R, U, D, sent, req_epsn, read_epsn, item_write_offset, read_psn_to_item,
                    Calm(lost, full))
      BY <1>1, <1>4, <1>6, <1>11, <1>14
    <3>2. Tokens(T1, K, L, W, R, U, D, sent, rq1, read_epsn, item_write_offset, read_psn_to_item,
                 Calm(lost, full))
      BY <3>1, TokensLoop
    <3> QED
      BY <1>9, <3>2
  <2> QED
    BY <1>8, <1>9, <2>1
<1>16. Numbers(K, L, W, R, U, D, sent, req_epsn', read_epsn, item_write_offset, read_psn_to_item)
  BY <1>1, <1>15 DEF Numbers
<1>17. \A d \in Eps, j \in Posts : /\ UnitIdFromDst(d, j) \in Units
                                   /\ UnitIdFromDst(d, j) = UnitIdFromDst(e, k) => d = e /\ j = k
  BY UnitIds
<1>18. session \in Int /\ NPost \in Nat /\ NItem \in Nat \ {0} /\ k \in Nat
  BY <1>1, Constants DEF NicStates
<1>19. UnitRegisters(write_psn_to_unit', req_unack_unit, unit_dst_addr', unit_remain', unit_req_psn')
  <2>1. UnitIdFromDst(e, k) \in Units /\ ((session * NPost) + k) * NItem \in Int
    BY <1>17, <1>18
  <2> QED
    BY <1>1, <1>9, <1>18, <2>1 DEF UnitRegisters
<1>20. Buffers(req_epsn', unit_dst_addr', session)
  <2> SUFFICES ASSUME NEW d \in Eps, NEW j \in Posts, j < req_epsn'[d]
               PROVE  unit_dst_addr'[UnitIdFromDst(d, j)] = ((session * NPost) + j) * NItem
    BY DEF Buffers
  <2>1. /\ unit_dst_addr \in [Units -> Int] /\ UnitIdFromDst(d, j) \in Units /\ UnitIdFromDst(e, k) \in Units
    BY <1>1, <1>17 DEF UnitRegisters
  <2>2. CASE d = e /\ j = k
    BY <1>9, <2>1, <2>2
  <2>3. CASE ~(d = e /\ j = k)
    <3>1. unit_dst_addr'[UnitIdFromDst(d, j)] = unit_dst_addr[UnitIdFromDst(d, j)]
      BY <1>9, <1>17, <2>1, <2>3
    <3>2. j < req_epsn[d]
      BY <1>7, <1>8, <1>15, <2>3, Constants
    <3> QED
      BY <1>1, <3>1, <3>2 DEF Buffers
  <2> QED
    BY <2>2, <2>3
<1>21. One(L, D, req_epsn', unit_remain', unacked)
  <2> SUFFICES ASSUME NPost <= 1, NEW d \in Eps, NEW j \in Posts
               PROVE  L[d] + (IF req_epsn'[d] = 0 THEN NItem ELSE unit_remain'[UnitIdFromDst(d, j)]) = NItem
    BY <1>1 DEF One
  <2>1. L[d] + (IF req_epsn[d] = 0 THEN NItem ELSE unit_remain[UnitIdFromDst(d, j)]) = NItem
    BY <1>1 DEF One
  <2>2. unit_remain \in [Units -> Int] /\ UnitIdFromDst(d, j) \in Units /\ UnitIdFromDst(e, k) \in Units
    BY <1>1, <1>17 DEF UnitRegisters
  <2>3. j = 0 /\ k = 0
    BY Constants
  <2>4. CASE d = e
    <3>1. req_epsn[d] = 0 /\ req_epsn'[d] # 0 /\ L[d] \in Nat
      BY <1>7, <1>8, <1>15, <2>3, <2>4
    <3>2. unit_remain'[UnitIdFromDst(d, j)] = NItem
      BY <1>9, <2>2, <2>3, <2>4
    <3> QED
      BY <2>1, <3>1, <3>2
  <2>5. CASE d # e
    <3>1. req_epsn'[d] = req_epsn[d]
      BY <1>15, <2>5
    <3>2. unit_remain'[UnitIdFromDst(d, j)] = unit_remain[UnitIdFromDst(d, j)]
      BY <1>9, <1>17, <2>2, <2>5
    <3> QED
      BY <2>1, <3>1, <3>2
  <2> QED
    BY <2>4, <2>5
<1>22. Inv(T1, K, L, W, R, U, D)'
  BY <1>2, <1>10, <1>13, <1>15, <1>16, <1>19, <1>20, <1>21 DEF Inv, ingressRegs, nicVars
<1> QED
  BY <1>22 DEF IInv

\* A sequence with two more elements.
LEMMA TwoMore ==
  ASSUME NEW X, NEW s \in Seq(X), NEW a \in X, NEW b \in X
  PROVE  s \o <<a, b>> = Append(Append(s, a), b)
OBVIOUS

\* Ingress queues two entries: the mirror copy and the rest.
LEMMA QueueTwo ==
  ASSUME NEW w, NEW S, NEW T, Shapes(w, tm, S, T), NEW port \in Ports, NEW a \in Entry, NEW b \in Entry,
         Queue(port, <<a, b>>)
  PROVE  tm' = Given(Given(tm, port, a), port, b)
<1>1. tm[port] \in Seq(Entry) /\ tm \in [Ports -> Seq(Entry)]
  BY DEF Shapes
<1>2. tm[port] \o <<a, b>> = Append(Append(tm[port], a), b)
  BY <1>1, TwoMore
<1>3. tm' = [tm EXCEPT ![port] = tm[port] \o <<a, b>>]
  BY DEF Queue
<1>4. Given(tm, port, a)[port] = Append(tm[port], a)
  BY <1>1 DEF Given
<1>5. Given(Given(tm, port, a), port, b) = [Given(tm, port, a) EXCEPT ![port] = Append(Append(tm[port], a), b)]
  BY <1>1, <1>4 DEF Given
<1>6. [Given(tm, port, a) EXCEPT ![port] = Append(Append(tm[port], a), b)]
        = [tm EXCEPT ![port] = Append(Append(tm[port], a), b)]
  BY <1>1 DEF Given
<1> QED
  BY <1>2, <1>3, <1>5, <1>6

\* A replica comes back from a loopback port.
LEMMA ReplicaArrives ==
  ASSUME NEW T, Shapes(wire, tm, session, T), NEW port \in Ports, wire[port] # <<>>,
         NEW p, p = Head(wire[port]), NEW t, t = Head(T[WireOf(port)]), p.op = "REPL"
  PROVE  \E d \in Eps :
           /\ port = Lpbk(d) /\ p \in Packet /\ t \in Token /\ T[WireOf(port)] # <<>>
           /\ Shapes(Taken(wire, port), tm, session, Pop(T, WireOf(port)))
           /\ IsReplica(d, p, t)
<1>2. /\ Shapes(Taken(wire, port), tm, session, Pop(T, WireOf(port))) /\ T[WireOf(port)] # <<>>
      /\ p \in Packet /\ t \in Token /\ <<p, t>> \in WireRel(session, port)
  BY PopWire DEF Taken
<1>3. PICK e \in Eps : port = Nic(e) \/ port = Lpbk(e)
  BY QueueNames
<1>4. port # Nic(e)
  BY <1>2, WireNic
<1>5. port = Lpbk(e)
  BY <1>3, <1>4
<1> QED
  BY <1>2, <1>5, WireLpbk

\* A replica, or the mirror copy of one, passes the loopback port again.
LEMMA StepLoopReplica ==
  ASSUME OnePacket, NEW T, NEW K, NEW L, NEW W, NEW R, NEW U, NEW D, Inv(T, K, L, W, R, U, D),
         NEW e \in Eps, LoopReplica(e), UNCHANGED session
  PROVE  IInv'
<1>1. /\ Numbers(K, L, W, R, U, D, sent, req_epsn, read_epsn, item_write_offset, read_psn_to_item)
      /\ Shapes(wire, tm, session, T)
      /\ Tokens(T, K, L, W, R, U, D, sent, req_epsn, read_epsn, item_write_offset, read_psn_to_item,
                Calm(lost, full))
  BY DEF Inv
<1> PICK b, t : b = Head(tm[Lpbk(e)]) /\ t = Head(T[TmOf(Lpbk(e))])
  OBVIOUS
<1>2. /\ tm[Lpbk(e)] # <<>> /\ b.kind # "bridge"
      /\ tm' = Taken(tm, Lpbk(e)) /\ wire' = Given(wire, Lpbk(e), CopyOf(b))
      /\ UNCHANGED <<ingressRegs, egressRegs, full, nicVars>>
  BY DEF LoopReplica, Return, Taken, Given
<1>3. Lpbk(e) \in Ports /\ TmOf(Lpbk(e)) \in Queues /\ WireOf(Lpbk(e)) \in Queues
  BY QueueNames
<1>4. /\ Shapes(wire, Taken(tm, Lpbk(e)), session, Pop(T, TmOf(Lpbk(e)))) /\ T[TmOf(Lpbk(e))] # <<>>
      /\ t \in Token /\ <<b, t>> \in TmRel(session, Lpbk(e))
  BY <1>1, <1>2, <1>3, PopTm DEF Taken
<1>5. IsCopy(e, b, t)
  BY <1>2, <1>4, TmLpbk
<1>6. CopyOf(b) \in Packet /\ <<CopyOf(b), t>> \in WireRel(session, Lpbk(e)) /\ t.ch = <<"loop", e>>
  BY <1>4, <1>5 DEF IsCopy, WireRel, IsReplica
<1> PICK T1 : T1 = Put(Pop(T, TmOf(Lpbk(e))), WireOf(Lpbk(e)), t)
  OBVIOUS
<1>7. Shapes(wire', tm', session, T1)
  BY <1>2, <1>3, <1>4, <1>6, GivenWire
<1>8. Tokens(T1, K, L, W, R, U, D, sent, req_epsn, read_epsn, item_write_offset, read_psn_to_item,
             Calm(lost, full))
  <2> DEFINE q == TmOf(Lpbk(e))
             q2 == WireOf(Lpbk(e))
  <2>1. /\ q \in Queues /\ q2 \in Queues /\ T[q] # <<>> /\ t = Head(T[q]) /\ T1 = Put(Pop(T, q), q2, t)
    BY <1>3, <1>4
  <2> HIDE DEF q, q2
  <2>2. /\ Head(T[q]).ch[1] \notin {"req", "write"} /\ Head(T[q]).ch[1] # "read" /\ t.ch[1] = "loop"
        /\ t.ch[1] \notin {"req", "read", "res", "write"} /\ Head(T[q]).ch[1] = "loop"
        /\ t.vals \subseteq Head(T[q]).vals
    BY <1>6, <2>1
  <2>3. <<q, t>> \in Good(sent, req_epsn, item_write_offset, read_psn_to_item, D, Calm(lost, full))
    BY <1>1, <2>1, <2>2, TokensPop
  <2>4. <<q2, t>> \in Good(sent, req_epsn, item_write_offset, read_psn_to_item, D, Calm(lost, full))
    BY <1>4, <2>1, <2>2, <2>3 DEF Good
  <2> QED
    BY <1>1, <1>4, <2>1, <2>2, <2>4, TokensMove
<1>9. Inv(T1, K, L, W, R, U, D)'
  BY <1>2, <1>7, <1>8 DEF Inv, ingressRegs, egressRegs, requestRegs, unitRegs, nicVars
<1> QED
  BY <1>9 DEF IInv

\* Ingress splits a replica of several items.
LEMMA StepIngressReplMany ==
  ASSUME OnePacket, NEW T, NEW K, NEW L, NEW W, NEW R, NEW U, NEW D, Inv(T, K, L, W, R, U, D),
         NEW port \in Ports, IngressReplMany(port), UNCHANGED <<nicVars, session>>
  PROVE  IInv'
<1>1. /\ Numbers(K, L, W, R, U, D, sent, req_epsn, read_epsn, item_write_offset, read_psn_to_item)
      /\ Shapes(wire, tm, session, T)
      /\ Tokens(T, K, L, W, R, U, D, sent, req_epsn, read_epsn, item_write_offset, read_psn_to_item,
                Calm(lost, full))
      /\ Registers(endp_state, write_psn, read_unack_psn, read_psn)
  BY DEF Inv
<1> PICK p, t : p = Head(wire[port]) /\ t = Head(T[WireOf(port)])
  OBVIOUS
<1>2. wire[port] # <<>> /\ p.op = "REPL" /\ p.repl.cnt # 1
  BY DEF IngressReplMany
<1>3. PICK d \in Eps :
        /\ port = Lpbk(d) /\ p \in Packet /\ t \in Token /\ T[WireOf(port)] # <<>>
        /\ Shapes(Taken(wire, port), tm, session, Pop(T, WireOf(port)))
        /\ IsReplica(d, p, t)
  BY <1>1, <1>2, ReplicaArrives
<1>4. p.smac = d /\ ~p.repl.flag /\ t.ch = <<"loop", d>>
  BY <1>3 DEF IsReplica
<1> PICK rest, first : rest = [kind |-> "bypass", pkt |-> WithoutFirst(p)] /\ first = [kind |-> "mirror", pkt |-> p]
  OBVIOUS
<1>5. /\ wire' = Taken(wire, port)
      /\ endp_state' = [endp_state EXCEPT ![0] = IF p.repl.flag THEN 1 ELSE @]
      /\ Queue(Lpbk(d), <<rest, first>>) \/ Queue(Lpbk(d), <<first, rest>>)
      /\ UNCHANGED <<read_unack_psn, read_psn, read_psn_to_item, write_psn, egressRegs, full>>
  BY <1>4 DEF IngressReplMany, Received, Taken, MirrorPort
<1>6. endp_state' = endp_state
  BY <1>1, <1>4, <1>5 DEF Registers
<1>7. PICK v \in Vals, V \in SUBSET Vals :
        /\ t.vals = {v} \cup V /\ v \notin V
        /\ first \in Entry /\ IsCopy(d, first, Tok("loop", d, 0, {v}))
        /\ rest \in Entry /\ IsCopy(d, rest, Tok("loop", d, 0, V))
  <2>1. InParts(d, t, first, rest)
    BY <1>2, <1>3, MakeParts
  <2> QED
    BY <2>1 DEF InParts
<1> PICK x, y : x = Tok("loop", d, 0, {v}) /\ y = Tok("loop", d, 0, V)
  OBVIOUS
<1>8. /\ x \in Token /\ x.ch = <<"loop", d>> /\ x.vals = {v} /\ y \in Token /\ y.ch = <<"loop", d>> /\ y.vals = V
  BY TokType DEF Classes
<1>9. Lpbk(d) \in Ports /\ TmOf(Lpbk(d)) \in Queues /\ WireOf(Lpbk(d)) \in Queues
  BY QueueNames
<1>10. <<first, x>> \in TmRel(session, Lpbk(d)) /\ <<rest, y>> \in TmRel(session, Lpbk(d))
  BY <1>7, <1>8 DEF TmRel
<1> PICK T0 : T0 = Pop(T, WireOf(Lpbk(d)))
  OBVIOUS
<1>11. Shapes(wire', tm, session, T0)
  BY <1>3, <1>5
<1>12. /\ WireOf(Lpbk(d)) \in Queues /\ T[WireOf(Lpbk(d))] # <<>> /\ Head(T[WireOf(Lpbk(d))]).ch = <<"loop", d>>
       /\ {v} \subseteq Head(T[WireOf(Lpbk(d))]).vals /\ V \subseteq Head(T[WireOf(Lpbk(d))]).vals
  BY <1>3, <1>4, <1>7, <1>9
<1>13. ASSUME NEW a \in Entry, NEW b \in Entry, NEW xa \in Token, NEW xb \in Token,
              xa.ch = <<"loop", d>>, xb.ch = <<"loop", d>>,
              xa.vals \subseteq Head(T[WireOf(Lpbk(d))]).vals, xb.vals \subseteq Head(T[WireOf(Lpbk(d))]).vals,
              \A w \in xb.vals : w \notin xa.vals,
              <<a, xa>> \in TmRel(session, Lpbk(d)), <<b, xb>> \in TmRel(session, Lpbk(d)),
              Queue(Lpbk(d), <<a, b>>)
       PROVE  IInv'
  <2> PICK T1, T2 : T1 = Put(T0, TmOf(Lpbk(d)), xa) /\ T2 = Put(T1, TmOf(Lpbk(d)), xb)
    OBVIOUS
  <2>1. tm' = Given(Given(tm, Lpbk(d), a), Lpbk(d), b)
    BY <1>1, <1>9, <1>13, QueueTwo
  <2>2. Shapes(wire', Given(tm, Lpbk(d), a), session, T1)
    BY <1>9, <1>11, <1>13, GivenTm
  <2>3. Shapes(wire', tm', session, T2)
    BY <1>9, <1>13, <2>1, <2>2, GivenTm
  <2>4. Tokens(T2, K, L, W, R, U, D, sent, req_epsn, read_epsn, item_write_offset, read_psn_to_item,
               Calm(lost, full))
    BY <1>1, <1>9, <1>12, <1>13, TokensCut
  <2>5. Inv(T2, K, L, W, R, U, D)'
    BY <1>5, <1>6, <2>3, <2>4 DEF Inv, egressRegs, requestRegs, unitRegs, nicVars
  <2> QED
    BY <2>5 DEF IInv
<1>14. CASE Queue(Lpbk(d), <<rest, first>>)
  <2>1. \A w \in x.vals : w \notin y.vals
    BY <1>7, <1>8
  <2> QED
    BY <2>1, <1>7, <1>8, <1>10, <1>12, <1>13, <1>14
<1>15. CASE Queue(Lpbk(d), <<first, rest>>)
  <2>1. \A w \in y.vals : w \notin x.vals
    BY <1>7, <1>8
  <2> QED
    BY <2>1, <1>7, <1>8, <1>10, <1>12, <1>13, <1>15
<1> QED
  BY <1>5, <1>14, <1>15

\* A number that the packets can need is not wrapped.
LEMMA NotWrapped ==
  ASSUME OnePacket, NEW n \in Nat, n <= NPost * NItem
  PROVE  Wrap(n) = n
<1>1. NPost * NItem \in Nat /\ Pow2(RegBits) \in Nat \ {0} /\ NPost * NItem < Pow2(RegBits)
  BY Constants, Sizes DEF OnePacket
<1>2. n \in 0 .. Pow2(RegBits) - 1
  BY <1>1
<1> QED
  BY <1>1, <1>2, ModSmall DEF Wrap

\* A quotient of zero.
LEMMA DivZero ==
  ASSUME NEW n \in Nat, NEW s \in Nat \ {0}, n \div s = 0
  PROVE  n < s
OBVIOUS

\* When the ring is not full, the next READ has a slot of its own.
LEMMA ReadRoom ==
  ASSUME OnePacket, NEW n \in Nat, NEW u \in Nat, u <= n, n <= NPost * NItem,
         ~ReadRingFull(Wrap(n - u))
  PROVE  n < u + READ_RING_SIZE
<1>1. n - u \in Nat /\ n - u <= n /\ NPost * NItem \in Nat
  BY Constants
<1>2. Wrap(n - u) = n - u
  BY <1>1, NotWrapped
<1>3. (n - u) \div READ_RING_SIZE = 0 /\ READ_RING_SIZE \in Nat \ {0}
  BY <1>2, Sizes DEF ReadRingFull
<1>4. n - u < READ_RING_SIZE
  BY <1>1, <1>3, DivZero
<1> QED
  BY <1>3, <1>4

\* A PSN that is taken keeps the registers in step with the count.
LEMMA UpTaken ==
  ASSUME NEW es, NEW wp, NEW rp \in [Pairs -> Nat], NEW ru, NEW R \in [Pairs -> Nat], NEW U, NEW W,
         Up(es, wp, rp, ru, R, U, W), NEW k \in Pairs, NEW n, n = rp[k] + 1,
         NEW rp1, rp1 = [rp EXCEPT ![k] = n]
  PROVE  /\ Up(es, wp, rp1, ru, [R EXCEPT ![k] = @ + 1], U, W)
         /\ rp1 \in [Pairs -> Nat]
<1> DEFINE R1 == [R EXCEPT ![k] = @ + 1]
<1>1. ASSUME NEW i \in Pairs, rp[i] = R[i] PROVE rp1[i] = R1[i]
  BY <1>1
<1> HIDE DEF R1
<1>2. Up(es, wp, rp1, ru, R1, U, W)
  <2> SUFFICES ASSUME NEW d \in Eps, es[d] = 1
               PROVE  /\ wp[d] = W[d]
                      /\ \A e \in Eps : rp1[SrcDst(e, d)] = R1[SrcDst(e, d)] /\ ru[SrcDst(e, d)] = U[SrcDst(e, d)]
    BY DEF Up
  <2>1. /\ wp[d] = W[d]
        /\ \A e \in Eps : rp[SrcDst(e, d)] = R[SrcDst(e, d)] /\ ru[SrcDst(e, d)] = U[SrcDst(e, d)]
    BY DEF Up
  <2>2. \A e \in Eps : SrcDst(e, d) \in Pairs
    BY PairIds
  <2> QED
    BY <1>1, <2>1, <2>2
<1> QED
  BY <1>2 DEF R1

\* What is known of a replica with one item that comes back.
LEMMA OneReplica ==
  ASSUME OnePacket, NEW T, NEW K, NEW L, NEW W, NEW R, NEW U, NEW D, Inv(T, K, L, W, R, U, D),
         NEW q \in Queues, T[q] # <<>>, NEW v \in Vals,
         Head(T[q]).ch = <<"loop", v[1]>>, Head(T[q]).vals = {v},
         NEW k, k = SrcDst(Source(v), v[1])
  PROVE  /\ k \in Pairs /\ R \in [Pairs -> Nat] /\ R[k] \in Nat /\ U[k] \in Nat
         /\ U[k] <= R[k] /\ R[k] + 1 <= NPost * NItem
         /\ endp_state[v[1]] = 1 => read_psn[k] = R[k] /\ read_unack_psn[k] = U[k]
<1>1. /\ Numbers(K, L, W, R, U, D, sent, req_epsn, read_epsn, item_write_offset, read_psn_to_item)
      /\ Tokens(T, K, L, W, R, U, D, sent, req_epsn, read_epsn, item_write_offset, read_psn_to_item,
                Calm(lost, full))
      /\ Up(endp_state, write_psn, read_psn, read_unack_psn, R, U, W)
  BY DEF Inv
<1>2. v[1] \in Eps /\ Source(v) \in Eps
  BY ValParts
<1>3. /\ T \in TokenQueues /\ ReadWin(T, R, U, read_epsn, Calm(lost, full))
      /\ R \in [Pairs -> Nat] /\ U \in [Pairs -> Nat] /\ read_epsn \in [Pairs -> Nat]
  BY <1>1 DEF Tokens, Numbers
<1>4. k \in Pairs
  BY <1>2, PairIds
<1>5. U[k] <= R[k]
  <2>1. read_epsn[k] <= R[k] /\ U[k] <= read_epsn[k]
    BY <1>2, <1>3, ReadWinParts
  <2> QED
    BY <1>3, <1>4, <2>1
<1>6. R[k] + 1 <= NPost * NItem
  BY <1>1, TokensSkip
<1>7. endp_state[v[1]] = 1 => read_psn[k] = R[k] /\ read_unack_psn[k] = U[k]
  BY <1>1, <1>2 DEF Up
<1> QED
  BY <1>3, <1>4, <1>5, <1>6, <1>7

\* Ingress makes a READ of a replica of one item, or gives up.
LEMMA StepIngressReplOnly ==
  ASSUME OnePacket, NEW T, NEW K, NEW L, NEW W, NEW R, NEW U, NEW D, Inv(T, K, L, W, R, U, D),
         NEW port \in Ports, IngressReplOnly(port), UNCHANGED <<nicVars, session>>
  PROVE  IInv'
<1>1. /\ Numbers(K, L, W, R, U, D, sent, req_epsn, read_epsn, item_write_offset, read_psn_to_item)
      /\ Shapes(wire, tm, session, T)
      /\ Tokens(T, K, L, W, R, U, D, sent, req_epsn, read_epsn, item_write_offset, read_psn_to_item,
                Calm(lost, full))
      /\ Registers(endp_state, write_psn, read_unack_psn, read_psn)
      /\ NicStates(unacked, write_epsn, lost, session, full, sent)
      /\ Up(endp_state, write_psn, read_psn, read_unack_psn, R, U, W)
  BY DEF Inv
<1> PICK p, t : p = Head(wire[port]) /\ t = Head(T[WireOf(port)])
  OBVIOUS
<1>2. wire[port] # <<>> /\ p.op = "REPL" /\ p.repl.cnt = 1
  BY DEF IngressReplOnly
<1>3. PICK d \in Eps :
        /\ port = Lpbk(d) /\ p \in Packet /\ t \in Token /\ T[WireOf(port)] # <<>>
        /\ Shapes(Taken(wire, port), tm, session, Pop(T, WireOf(port)))
        /\ IsReplica(d, p, t)
  BY <1>1, <1>2, ReplicaArrives
<1>4. t.ch = <<"loop", d>>
  BY <1>3 DEF IsReplica
<1>5. PICK v \in Vals :
        /\ v[1] = d /\ t.vals = {v} /\ ~p.repl.flag /\ p.repl.id = ItemNumber(v)
        /\ ReplOnly(p).dst = d /\ ReplOnly(p).pair = SrcDst(Source(v), d)
        /\ Head(p.items).src = Source(v)
        /\ \A n \in Nat :
             /\ ReadEntry(d, p.repl.id, ReadOfReplica(p, d, n)) \in Entry
             /\ IsRead(Source(v), ReadEntry(d, p.repl.id, ReadOfReplica(p, d, n)), Tok("read", d, n, {v}))
  <2>1. ReadMade(d, p, t)
    BY <1>2, <1>3, MakeRead
  <2> QED
    BY <2>1 DEF ReadMade
<1> PICK q, k : q = WireOf(port) /\ k = SrcDst(Source(v), d)
  OBVIOUS
<1>6. /\ q \in Queues /\ T[q] # <<>> /\ Head(T[q]).ch = <<"loop", v[1]>> /\ Head(T[q]).vals = {v}
      /\ k = SrcDst(Source(v), v[1])
  BY <1>3, <1>4, <1>5, QueueNames
<1>7. /\ k \in Pairs /\ R \in [Pairs -> Nat] /\ R[k] \in Nat /\ U[k] \in Nat
      /\ U[k] <= R[k] /\ R[k] + 1 <= NPost * NItem
      /\ endp_state[d] = 1 => read_psn[k] = R[k] /\ read_unack_psn[k] = U[k]
  <2>1. v[1] = d
    BY <1>5
  <2> QED
    BY <1>6, <2>1, OneReplica
<1>8. read_psn \in [Pairs -> Nat] /\ endp_state \in [Eps -> {0, 1}] /\ full \in BOOLEAN /\ session \in Int
  BY <1>1 DEF Registers, NicStates
<1> DEFINE up == endp_state[d] = 1
           room == ~ReadRingFull(Wrap(read_psn[k] - read_unack_psn[k]))
<1>9. /\ wire' = Taken(wire, port)
      /\ endp_state' = endp_state
      /\ read_psn' = IF up THEN [read_psn EXCEPT ![k] = Wrap(@ + 1)] ELSE read_psn
      /\ \/ /\ up /\ room
            /\ read_psn_to_item' = [read_psn_to_item EXCEPT ![ReadRingId(k, read_psn[k])] = ItemNumber(v)]
            /\ Queue(Nic(Source(v)), <<ReadEntry(d, p.repl.id, ReadOfReplica(p, d, read_psn[k]))>>)
            /\ full' = full
         \/ /\ ~(up /\ room)
            /\ full' = (full \/ up)
            /\ UNCHANGED <<tm, read_psn_to_item>>
      /\ UNCHANGED <<read_unack_psn, write_psn, egressRegs>>
  BY <1>5, <1>8 DEF IngressReplOnly, Received, Taken, ReadEntry
<1>10. Shapes(wire', tm, session, Pop(T, q))
  BY <1>3, <1>9
<1>11. up => /\ read_psn' = [read_psn EXCEPT ![k] = read_psn[k] + 1]
             /\ read_psn[k] = R[k] /\ read_unack_psn[k] = U[k]
  <2> SUFFICES ASSUME up
               PROVE  /\ read_psn' = [read_psn EXCEPT ![k] = read_psn[k] + 1]
                      /\ read_psn[k] = R[k] /\ read_unack_psn[k] = U[k]
    OBVIOUS
  <2>1. read_psn[k] = R[k] /\ read_unack_psn[k] = U[k] /\ R[k] + 1 \in Nat
    BY <1>7
  <2>2. Wrap(read_psn[k] + 1) = read_psn[k] + 1
    BY <1>7, <2>1, NotWrapped
  <2>3. read_psn' = [read_psn EXCEPT ![k] = Wrap(read_psn[k] + 1)]
    BY <1>9
  <2> QED
    BY <2>1, <2>2, <2>3
<1> PICK R1 : R1 = [R EXCEPT ![k] = @ + 1]
  OBVIOUS
<1>12. R1 \in [Pairs -> Nat]
  BY <1>7
<1>13. up => /\ Up(endp_state, write_psn, read_psn', read_unack_psn, R1, U, W)
             /\ read_psn' \in [Pairs -> Nat]
  <2> SUFFICES ASSUME up
               PROVE  /\ Up(endp_state, write_psn, read_psn', read_unack_psn, R1, U, W)
                      /\ read_psn' \in [Pairs -> Nat]
    OBVIOUS
  <2> PICK n, rp1 : n = read_psn[k] + 1 /\ rp1 = [read_psn EXCEPT ![k] = n]
    OBVIOUS
  <2>1. read_psn' = rp1
    BY <1>11
  <2>2. Up(endp_state, write_psn, rp1, read_unack_psn, R1, U, W)
    BY <1>1, <1>7, <1>8, UpTaken
  <2>3. rp1 \in [Pairs -> Nat]
    BY <1>7, <1>8
  <2> QED
    BY <2>1, <2>2, <2>3
<1>14. CASE up /\ room
  <2>1. R[k] < U[k] + READ_RING_SIZE
    <3>1. ~ReadRingFull(Wrap(R[k] - U[k]))
      BY <1>11, <1>14
    <3>2. R[k] <= NPost * NItem
      <4>1. NPost * NItem \in Nat
        BY Constants
      <4> QED
        BY <4>1, <1>7
    <3> QED
      BY <3>1, <3>2, <1>7, ReadRoom
  <2> PICK b, x : /\ b = ReadEntry(d, p.repl.id, ReadOfReplica(p, d, R[k]))
                  /\ x = Tok("read", d, R[k], {v})
    OBVIOUS
  <2>2. /\ read_psn_to_item' = [read_psn_to_item EXCEPT ![ReadRingId(k, R[k])] = ItemNumber(v)]
        /\ Queue(Nic(Source(v)), <<b>>) /\ full' = full
    BY <1>9, <1>11, <1>14
  <2>3. b \in Entry /\ IsRead(Source(v), b, x)
    BY <1>5, <1>7
  <2>4. /\ x \in Token /\ x.ch = <<"read", d>> /\ x.vals = {v} /\ x.num = R[k]
    BY <1>7, TokType DEF Classes
  <2>5. Source(v) \in Eps /\ Nic(Source(v)) \in Ports
    BY ValParts, QueueNames
  <2>6. <<b, x>> \in TmRel(session, Nic(Source(v)))
    BY <2>3, <2>4, <2>5 DEF TmRel
  <2>7. tm' = Given(tm, Nic(Source(v)), b)
    BY <1>1, <2>2, <2>3, <2>5, QueueOne
  <2> PICK T1 : T1 = Put(Pop(T, q), TmOf(Nic(Source(v))), x)
    OBVIOUS
  <2>8. Shapes(wire', tm', session, T1)
    BY <1>10, <2>3, <2>4, <2>5, <2>6, <2>7, GivenTm
  <2>9. /\ Tokens(T1, K, L, W, R1, U, D, sent, req_epsn, read_epsn, item_write_offset, read_psn_to_item',
                  Calm(lost, full))
        /\ read_psn_to_item' \in [ReadSlots -> Int]
    <3> PICK rpi1 : rpi1 = [read_psn_to_item EXCEPT ![ReadRingId(k, R[k])] = ItemNumber(v)]
      OBVIOUS
    <3>1. ItemNumber(v) \in Int
      BY ItemIds DEF Items
    <3>2. x.ch = <<"read", v[1]>>
      BY <1>5, <2>4
    <3>3. /\ Numbers(K, L, W, R, U, D, sent, req_epsn, read_epsn, item_write_offset, read_psn_to_item)
          /\ Tokens(T, K, L, W, R, U, D, sent, req_epsn, read_epsn, item_write_offset, read_psn_to_item,
                    Calm(lost, full))
      BY <1>1
    <3>4. Tokens(Put(Pop(T, q), TmOf(Nic(Source(v))), x), K, L, W, [R EXCEPT ![k] = @ + 1], U, D,
                 sent, req_epsn, read_epsn, item_write_offset, rpi1, Calm(lost, full))
      BY <1>6, <2>1, <2>4, <3>1, <3>2, <3>3, TokensRead
    <3>5. rpi1 \in [ReadSlots -> Int]
      BY <1>1, <3>1 DEF Numbers
    <3> QED
      BY <2>2, <3>4, <3>5
  <2>10. Numbers(K, L, W, R1, U, D, sent, req_epsn, read_epsn, item_write_offset, read_psn_to_item')
    BY <1>1, <1>12, <2>9 DEF Numbers
  <2>11. Registers(endp_state', write_psn', read_unack_psn', read_psn')
    BY <1>1, <1>9, <1>13, <1>14 DEF Registers
  <2>12. Inv(T1, K, L, W, R1, U, D)'
    BY <1>9, <1>13, <1>14, <2>2, <2>8, <2>9, <2>10, <2>11 DEF Inv, egressRegs, requestRegs, unitRegs, nicVars
  <2> QED
    BY <2>12 DEF IInv
<1>15. CASE up /\ ~room
  <2>1. full' = TRUE /\ UNCHANGED <<tm, read_psn_to_item>>
    BY <1>8, <1>9, <1>15
  <2>2. Tokens(Pop(T, q), K, L, W, R1, U, D, sent, req_epsn, read_epsn, item_write_offset, read_psn_to_item, FALSE)
    BY <1>1, <1>6, TokensSkip
  <2>3. Calm(lost, TRUE) = FALSE
    BY DEF Calm
  <2>4. Numbers(K, L, W, R1, U, D, sent, req_epsn, read_epsn, item_write_offset, read_psn_to_item)
    BY <1>1, <1>12 DEF Numbers
  <2>5. Registers(endp_state', write_psn', read_unack_psn', read_psn')
    BY <1>1, <1>9, <1>13, <1>15 DEF Registers
  <2>6. Clean(FALSE, endp_state) /\ NicStates(unacked, write_epsn, lost, session, TRUE, sent)
    BY <1>1 DEF Clean, NicStates
  <2> PICK T1 : T1 = Pop(T, q)
    OBVIOUS
  <2>7. Inv(T1, K, L, W, R1, U, D)'
    BY <1>9, <1>10, <1>13, <1>15, <2>1, <2>2, <2>3, <2>4, <2>5, <2>6
       DEF Inv, egressRegs, requestRegs, unitRegs, nicVars
  <2> QED
    BY <2>7 DEF IInv
<1>16. CASE ~up
  <2>1. full' = full /\ UNCHANGED <<tm, read_psn_to_item, read_psn>>
    BY <1>8, <1>9, <1>16
  <2>2. Tokens(Pop(T, q), K, L, W, R, U, D, sent, req_epsn, read_epsn, item_write_offset, read_psn_to_item,
               Calm(lost, full))
    <3>1. Head(T[q]).ch[1] \notin {"req", "write"} /\ Head(T[q]).ch[1] # "read"
      BY <1>6
    <3> QED
      BY <1>1, <1>6, <3>1, TokensPop
  <2> PICK T1 : T1 = Pop(T, q)
    OBVIOUS
  <2>3. Inv(T1, K, L, W, R, U, D)'
    BY <1>9, <1>10, <2>1, <2>2 DEF Inv, egressRegs, requestRegs, unitRegs, nicVars
  <2> QED
    BY <2>3 DEF IInv
<1> QED
  BY <1>14, <1>15, <1>16

-----------------------------------------------------------------------------
(* What comes back from the NICs                                           *)

Inc(f, i) == [f EXCEPT ![i] = @ + 1]
At(f, i, n) == [f EXCEPT ![i] = n]

\* A function with one value increased.
LEMMA IncIs ==
  ASSUME NEW S, NEW f \in [S -> Nat], NEW i \in S
  PROVE  /\ Inc(f, i) \in [S -> Nat] /\ Inc(f, i)[i] = f[i] + 1
         /\ \A j \in S : j # i => Inc(f, i)[j] = f[j]
BY DEF Inc

\* A function with one value replaced.
LEMMA AtIs ==
  ASSUME NEW S, NEW X, NEW f \in [S -> X], NEW i \in S, NEW n \in X
  PROVE  /\ At(f, i, n) \in [S -> X] /\ At(f, i, n)[i] = n
         /\ \A j \in S : j # i => At(f, i, n)[j] = f[j]
BY DEF At

\* There are no more READs than elements.
LEMMA CountLimit ==
  ASSUME NEW T, NEW R \in [Pairs -> Nat], NEW W \in [Eps -> Nat], NEW sn, Counts(T, R, W, sn),
         NEW e \in Eps, NEW d \in Eps
  PROVE  R[SrcDst(e, d)] <= NPost * NItem
<1>1. R[SrcDst(e, d)] + Cardinality(Unread(T, sn, d)) <= NPost * NItem
  BY DEF Counts
<1>2. Cardinality(Unread(T, sn, d)) \in Nat
  BY UnreadFinite
<1>3. R[SrcDst(e, d)] \in Nat /\ NPost * NItem \in Nat
  BY PairIds, Constants
<1> QED
  BY <1>1, <1>2, <1>3

\* The registers of an endpoint that is up are what was counted: after a response.
LEMMA UpAnswered ==
  ASSUME NEW es, NEW wp, NEW rp, NEW ru \in [Pairs -> Nat], NEW R, NEW U \in [Pairs -> Nat], NEW W,
         Up(es, wp, rp, ru, R, U, W), NEW k \in Pairs, NEW m \in Nat
  PROVE  Up(es, wp, rp, At(ru, k, m), R, At(U, k, m), W)
<1>1. \A i \in Pairs : ru[i] = U[i] => At(ru, k, m)[i] = At(U, k, m)[i]
  BY DEF At
<1> SUFFICES ASSUME NEW d \in Eps, es[d] = 1
             PROVE  /\ wp[d] = W[d]
                    /\ \A e \in Eps : /\ rp[SrcDst(e, d)] = R[SrcDst(e, d)]
                                     /\ At(ru, k, m)[SrcDst(e, d)] = At(U, k, m)[SrcDst(e, d)]
  BY DEF Up
<1>2. /\ wp[d] = W[d]
      /\ \A e \in Eps : rp[SrcDst(e, d)] = R[SrcDst(e, d)] /\ ru[SrcDst(e, d)] = U[SrcDst(e, d)]
  BY DEF Up
<1>3. \A e \in Eps : SrcDst(e, d) \in Pairs
  BY PairIds
<1> QED
  BY <1>1, <1>2, <1>3

\* ... and after a WRITE is made.
LEMMA UpWrite ==
  ASSUME NEW es, NEW wp \in [Eps -> Nat], NEW rp, NEW ru, NEW R, NEW U, NEW W \in [Eps -> Nat],
         Up(es, wp, rp, ru, R, U, W), NEW d \in Eps, wp[d] = W[d]
  PROVE  Up(es, At(wp, d, W[d] + 1), rp, ru, R, U, Inc(W, d))
<1>1. \A i \in Eps : wp[i] = W[i] => At(wp, d, W[d] + 1)[i] = Inc(W, d)[i]
  BY DEF At, Inc
<1> QED
  BY <1>1 DEF Up

\* A response that is dropped.
LEMMA ResponseGone ==
  ASSUME NEW T, NEW K, NEW L, NEW W, NEW R, NEW U, NEW D, NEW sn, NEW rq, NEW re, NEW iwo, NEW rpi, NEW c,
         Numbers(K, L, W, R, U, D, sn, rq, re, iwo, rpi),
         Tokens(T, K, L, W, R, U, D, sn, rq, re, iwo, rpi, c),
         NEW e \in Eps, NEW d \in Eps, T[WireOf(Nic(e))] # <<>>,
         NEW t, t = Head(T[WireOf(Nic(e))]), t.ch = <<"res", d>>,
         NEW m \in Nat, m = t.num + 1
  PROVE  /\ Tokens(Pop(T, WireOf(Nic(e))), K, L, W, R, At(U, SrcDst(e, d), m), D, sn, rq, re, iwo, rpi, c)
         /\ m <= R[SrcDst(e, d)]
         /\ <<WireOf(Nic(e)), t>> \in Good(sn, rq, iwo, rpi, D, c)
<1>1. <<WireOf(Nic(e)), t>> \in Good(sn, rq, iwo, rpi, D, c)
  BY QueueNames, PopAllIn DEF Tokens
<1> QED
  BY <1>1, TokensAnswered DEF At

IsTok(t, cls, d, V) == t.ch = <<cls, d>> /\ t.vals = V

\* A response whose element goes on as a WRITE.
LEMMA ResponseWritten ==
  ASSUME NEW T, NEW K, NEW L, NEW W, NEW R, NEW U, NEW D, NEW sn, NEW rq, NEW re, NEW iwo, NEW rpi, NEW c,
         Numbers(K, L, W, R, U, D, sn, rq, re, iwo, rpi),
         Tokens(T, K, L, W, R, U, D, sn, rq, re, iwo, rpi, c),
         NEW e \in Eps, NEW v \in Vals, NEW d \in Eps, d = v[1], T[WireOf(Nic(e))] # <<>>,
         NEW t, t = Head(T[WireOf(Nic(e))]), IsTok(t, "res", d, {v}),
         NEW m \in Nat, m = t.num + 1
  PROVE  /\ Tokens(Put(Pop(T, WireOf(Nic(e))), TmOf(Nic(d)), Tok("write", d, W[d], {v})), K, L, Inc(W, d),
                   R, At(U, SrcDst(e, d), m), D, sn, rq, re, iwo, rpi, c)
         /\ W[d] + 1 <= NPost * NItem
<1> DEFINE x == Tok("write", d, W[d], {v})
<1>1. W[d] \in Nat
  BY DEF Numbers
<1>2. x \in Token /\ x.ch = <<"write", d>> /\ x.vals = {v} /\ x.num = W[d]
  BY <1>1, TokType DEF Classes
<1> HIDE DEF x
<1>3. /\ Head(T[WireOf(Nic(e))]).ch = <<"res", d>> /\ Head(T[WireOf(Nic(e))]).vals = {v}
      /\ m = Head(T[WireOf(Nic(e))]).num + 1
  BY DEF IsTok
<1>4. /\ Tokens(Put(Pop(T, WireOf(Nic(e))), TmOf(Nic(d)), x), K, L, Inc(W, d),
                R, At(U, SrcDst(e, d), m), D, sn, rq, re, iwo, rpi, c)
      /\ W[d] + 1 <= NPost * NItem
  BY <1>2, <1>3, TokensWrite DEF Inc, At
<1> QED
  BY <1>4 DEF x

\* Ingress makes a WRITE of a response, or drops it.
LEMMA StepIngressReadResponse ==
  ASSUME OnePacket, NEW T, NEW K, NEW L, NEW W, NEW R, NEW U, NEW D, Inv(T, K, L, W, R, U, D),
         NEW port \in Ports, IngressReadResponse(port), UNCHANGED <<nicVars, session>>
  PROVE  IInv'
<1>1. /\ Numbers(K, L, W, R, U, D, sent, req_epsn, read_epsn, item_write_offset, read_psn_to_item)
      /\ Shapes(wire, tm, session, T)
      /\ Tokens(T, K, L, W, R, U, D, sent, req_epsn, read_epsn, item_write_offset, read_psn_to_item,
                Calm(lost, full))
      /\ Registers(endp_state, write_psn, read_unack_psn, read_psn)
      /\ Up(endp_state, write_psn, read_psn, read_unack_psn, R, U, W)
  BY DEF Inv
<1> PICK p, t : p = Head(wire[port]) /\ t = Head(T[WireOf(port)])
  OBVIOUS
<1>2. Arrives(port, "read_response")
  BY DEF IngressReadResponse
<1>3. PICK e \in Eps :
        /\ port = Nic(e) /\ p \in Packet /\ t \in Token /\ T[WireOf(port)] # <<>>
        /\ Shapes(Taken(wire, port), tm, session, Pop(T, WireOf(port)))
        /\ IsResponse(e, p, t)
  BY <1>1, <1>2, ArrivesIs
<1>4. PICK v \in Vals :
        /\ t.ch = <<"res", v[1]>> /\ t.vals = {v} /\ Source(v) = e
        /\ p.smac = e /\ p.psn = t.num /\ p.val = v /\ ~p.nak
        /\ RoceCase(p).dst = v[1] /\ RoceCase(p).pair = SrcDst(e, v[1])
  BY <1>3, ResponseCase
<1> PICK d, k, m, q : d = v[1] /\ k = SrcDst(e, d) /\ m = t.num + 1 /\ q = WireOf(Nic(e))
  OBVIOUS
<1>5. d \in Eps /\ k \in Pairs /\ t.num \in Nat /\ m \in Nat /\ q \in Queues /\ Nic(d) \in Ports
  <2>1. t.num \in Nat /\ m \in Nat
    BY <1>3 DEF Token
  <2>2. d \in Eps
    BY ValParts
  <2> QED
    BY <1>3, <2>1, <2>2, PairIds, QueueNames
<1>6. /\ Numbers(K, L, W, R, U, D, sent, req_epsn, read_epsn, item_write_offset, read_psn_to_item)
      /\ Tokens(T, K, L, W, R, U, D, sent, req_epsn, read_epsn, item_write_offset, read_psn_to_item,
                Calm(lost, full))
      /\ T[WireOf(Nic(e))] # <<>> /\ t = Head(T[WireOf(Nic(e))]) /\ t.ch = <<"res", d>> /\ t.vals = {v}
      /\ d = v[1] /\ m = t.num + 1 /\ Source(v) = e /\ p.psn = t.num
      /\ RoceCase(p).dst = d /\ RoceCase(p).pair = k
  BY <1>1, <1>3, <1>4
<1>7. /\ R[k] <= NPost * NItem /\ endp_state[d] \in {0, 1} /\ full \in BOOLEAN
      /\ R \in [Pairs -> Nat] /\ W \in [Eps -> Nat] /\ U \in [Pairs -> Nat]
      /\ read_unack_psn \in [Pairs -> Nat] /\ write_psn \in [Eps -> Nat]
  BY <1>1, <1>5, CountLimit DEF Inv, Numbers, Tokens, Registers, NicStates
<1>8. /\ Tokens(Pop(T, WireOf(Nic(e))), K, L, W, R, At(U, SrcDst(e, d), m), D, sent, req_epsn, read_epsn,
                item_write_offset, read_psn_to_item, Calm(lost, full))
      /\ m <= R[SrcDst(e, d)]
      /\ <<WireOf(Nic(e)), t>> \in
           Good(sent, req_epsn, item_write_offset, read_psn_to_item, D, Calm(lost, full))
  BY <1>5, <1>6, ResponseGone
<1>8a. /\ Tokens(Put(Pop(T, WireOf(Nic(e))), TmOf(Nic(d)), Tok("write", d, W[d], {v})), K, L, Inc(W, d),
                 R, At(U, SrcDst(e, d), m), D, sent, req_epsn, read_epsn, item_write_offset,
                 read_psn_to_item, Calm(lost, full))
       /\ W[d] + 1 <= NPost * NItem
  <2>1. IsTok(t, "res", d, {v})
    BY <1>6 DEF IsTok
  <2>2. /\ Numbers(K, L, W, R, U, D, sent, req_epsn, read_epsn, item_write_offset, read_psn_to_item)
        /\ Tokens(T, K, L, W, R, U, D, sent, req_epsn, read_epsn, item_write_offset, read_psn_to_item,
                  Calm(lost, full))
        /\ d \in Eps /\ d = v[1] /\ T[WireOf(Nic(e))] # <<>>
        /\ t = Head(T[WireOf(Nic(e))]) /\ m \in Nat /\ m = t.num + 1
    BY <1>5, <1>6
  <2> QED
    BY <2>1, <2>2, ResponseWritten
<1>9. read_psn_to_item[ReadRingId(k, t.num)] = ItemNumber(v)
  BY <1>6, <1>8 DEF Good
<1>10. Wrap(p.psn + 1) = m
  <2>1. m <= NPost * NItem /\ m = p.psn + 1
    <3>1. R[k] \in Nat /\ NPost * NItem \in Nat
      BY <1>5, <1>7, Constants
    <3> QED
      BY <1>5, <1>6, <1>7, <1>8, <3>1
  <2> QED
    BY <1>5, <2>1, NotWrapped
<1> PICK b : b = WriteEntry(d, ItemNumber(v), WriteOfResponse(p, d))
  OBVIOUS
<1>11. /\ wire' = Taken(wire, port) /\ read_unack_psn' = At(read_unack_psn, k, m)
       /\ \/ /\ endp_state[d] = 1
             /\ write_psn' = At(write_psn, d, Wrap(write_psn[d] + 1))
             /\ Queue(Nic(d), <<b>>)
          \/ /\ endp_state[d] = 0
             /\ UNCHANGED <<write_psn, tm>>
       /\ UNCHANGED <<endp_state, read_psn, read_psn_to_item, egressRegs, full>>
  BY <1>6, <1>9, <1>10 DEF IngressReadResponse, Received, Taken, WriteEntry, At
<1>12. Shapes(wire', tm, session, Pop(T, q))
  BY <1>3, <1>11
<1>13. At(U, k, m) \in [Pairs -> Nat] /\ At(read_unack_psn, k, m) \in [Pairs -> Nat]
  BY <1>5, <1>7, AtIs
<1>14. Up(endp_state, write_psn, read_psn, At(read_unack_psn, k, m), R, At(U, k, m), W)
  BY <1>1, <1>5, <1>7, UpAnswered
<1>15. CASE endp_state[d] = 1
  <2>1. write_psn[d] = W[d] /\ W[d] \in Nat
    BY <1>1, <1>5, <1>7, <1>15 DEF Up
  <2> PICK x : x = Tok("write", d, W[d], {v})
    OBVIOUS
  <2>2. x \in Token /\ x.ch = <<"write", d>> /\ x.vals = {v} /\ x.num = W[d]
    BY <1>5, <2>1, TokType DEF Classes
  <2> PICK T1 : T1 = Put(Pop(T, q), TmOf(Nic(d)), x)
    OBVIOUS
  <2>4. Tokens(T1, K, L, Inc(W, d), R, At(U, k, m), D, sent, req_epsn, read_epsn, item_write_offset,
               read_psn_to_item, Calm(lost, full))
    BY <1>8a
  <2>5. Inc(W, d) \in [Eps -> Nat] /\ write_psn' = At(write_psn, d, W[d] + 1)
    <3>1. Inc(W, d) \in [Eps -> Nat]
      BY <1>5, <1>7, IncIs
    <3>2. Wrap(W[d] + 1) = W[d] + 1
      BY <2>1, <1>8a, NotWrapped
    <3> QED
      BY <1>11, <1>15, <2>1, <3>1, <3>2
  <2>6. Up(endp_state, write_psn', read_psn, At(read_unack_psn, k, m), R, At(U, k, m), Inc(W, d))
    BY <1>5, <1>7, <1>14, <2>1, <2>5, UpWrite
  <2>7. /\ WriteEntry(d, ItemNumber(v), WriteOfResponse(p, d)) \in Entry
        /\ IsWrite(d, WriteEntry(d, ItemNumber(v), WriteOfResponse(p, d)), Tok("write", d, write_psn[d], t.vals))
    <3>1. RoceCase(p).dst = d /\ write_psn[d] \in Nat /\ \A u \in t.vals : ItemNumber(v) = ItemNumber(u)
      BY <1>6, <2>1
    <3> QED
      BY <1>3, <1>5, <3>1, MakeWrite
  <2>8. b \in Entry /\ <<b, x>> \in TmRel(session, Nic(d))
    <3>1. b \in Entry /\ IsWrite(d, b, x)
      BY <1>6, <2>1, <2>7
    <3> QED
      BY <1>5, <2>2, <3>1 DEF TmRel
  <2>9. tm' = Given(tm, Nic(d), b)
    BY <1>1, <1>5, <1>11, <1>15, <2>8, QueueOne
  <2>10. Shapes(wire', tm', session, T1)
    BY <1>5, <1>12, <2>2, <2>8, <2>9, GivenTm
  <2>11. Numbers(K, L, Inc(W, d), R, At(U, k, m), D, sent, req_epsn, read_epsn, item_write_offset,
                 read_psn_to_item)
    BY <1>1, <1>13, <2>5 DEF Numbers
  <2>12. Registers(endp_state, write_psn', At(read_unack_psn, k, m), read_psn)
    <3>1. W[d] + 1 \in Nat
      BY <2>1
    <3>2. At(write_psn, d, W[d] + 1) \in [Eps -> Nat]
      BY <1>5, <1>7, <3>1, AtIs
    <3> QED
      BY <1>1, <1>13, <2>5, <3>2 DEF Registers
  <2> PICK W1, U1, ru1 : W1 = Inc(W, d) /\ U1 = At(U, k, m) /\ ru1 = At(read_unack_psn, k, m)
    OBVIOUS
  <2>13. Inv(T1, K, L, W1, R, U1, D)'
    BY <1>11, <2>4, <2>6, <2>10, <2>11, <2>12 DEF Inv, egressRegs, requestRegs, unitRegs, nicVars
  <2> QED
    BY <2>13 DEF IInv
<1>16. CASE endp_state[d] = 0
  <2>1. UNCHANGED <<write_psn, tm>>
    BY <1>11, <1>16
  <2>2. Numbers(K, L, W, R, At(U, k, m), D, sent, req_epsn, read_epsn, item_write_offset, read_psn_to_item)
    BY <1>1, <1>13 DEF Numbers
  <2>3. Registers(endp_state, write_psn, At(read_unack_psn, k, m), read_psn)
    BY <1>1, <1>13 DEF Registers
  <2> PICK T1, U1, ru1 : T1 = Pop(T, q) /\ U1 = At(U, k, m) /\ ru1 = At(read_unack_psn, k, m)
    OBVIOUS
  <2>4. Inv(T1, K, L, W, R, U1, D)'
    BY <1>8, <1>11, <1>12, <1>14, <2>1, <2>2, <2>3 DEF Inv, egressRegs, requestRegs, unitRegs, nicVars
  <2> QED
    BY <2>4 DEF IInv
<1> QED
  BY <1>7, <1>15, <1>16

\* What is said of an endpoint that is given up does not matter any more.
LEMMA UpDown ==
  ASSUME NEW es \in [Eps -> {0, 1}], NEW wp \in [Eps -> Nat], NEW rp \in [Pairs -> Nat],
         NEW ru \in [Pairs -> Nat], NEW R, NEW U, NEW W,
         Up(es, wp, rp, ru, R, U, W), NEW e \in Eps, NEW d \in Eps, NEW n \in Nat
  PROVE  /\ Up(At(es, d, 0), wp, At(rp, SrcDst(e, d), n), At(ru, SrcDst(e, d), n), R, U, W)
         /\ Up(At(es, d, 0), At(wp, d, n), rp, ru, R, U, W)
<1> PICK k : k = SrcDst(e, d)
  OBVIOUS
<1>1. k \in Pairs
  BY PairIds
<1>2. ASSUME NEW i \in Eps, At(es, d, 0)[i] = 1 PROVE i # d /\ es[i] = 1
  BY <1>2 DEF At
<1>3. \A i, j \in Eps : SrcDst(i, j) = k => j = d
  BY ReadChannels
<1>4. ASSUME NEW i \in Eps, At(es, d, 0)[i] = 1
      PROVE  /\ wp[i] = W[i] /\ At(wp, d, n)[i] = wp[i]
             /\ \A j \in Eps : /\ rp[SrcDst(j, i)] = R[SrcDst(j, i)] /\ ru[SrcDst(j, i)] = U[SrcDst(j, i)]
                               /\ At(rp, k, n)[SrcDst(j, i)] = rp[SrcDst(j, i)]
                               /\ At(ru, k, n)[SrcDst(j, i)] = ru[SrcDst(j, i)]
  <2>1. i # d /\ es[i] = 1
    BY <1>2, <1>4
  <2>2. /\ wp[i] = W[i]
        /\ \A j \in Eps : rp[SrcDst(j, i)] = R[SrcDst(j, i)] /\ ru[SrcDst(j, i)] = U[SrcDst(j, i)]
    BY <2>1 DEF Up
  <2>3. At(wp, d, n)[i] = wp[i]
    BY <2>1 DEF At
  <2>4. ASSUME NEW j \in Eps
        PROVE  /\ At(rp, k, n)[SrcDst(j, i)] = rp[SrcDst(j, i)]
               /\ At(ru, k, n)[SrcDst(j, i)] = ru[SrcDst(j, i)]
    <3>1. SrcDst(j, i) \in Pairs /\ SrcDst(j, i) # k
      BY <1>3, <2>1, PairIds
    <3> QED
      BY <1>1, <3>1 DEF At
  <2> QED
    BY <2>2, <2>3, <2>4
<1>5. Up(At(es, d, 0), wp, At(rp, k, n), At(ru, k, n), R, U, W)
  BY <1>4 DEF Up
<1>6. Up(At(es, d, 0), At(wp, d, n), rp, ru, R, U, W)
  BY <1>4 DEF Up
<1> QED
  BY <1>5, <1>6

\* Nothing is refused while nothing has gone wrong.
LEMMA NoNak ==
  ASSUME NEW T, NEW K, NEW L, NEW W, NEW R, NEW U, NEW D, NEW sn, NEW rq, NEW re, NEW iwo, NEW rpi, NEW c,
         Numbers(K, L, W, R, U, D, sn, rq, re, iwo, rpi),
         Tokens(T, K, L, W, R, U, D, sn, rq, re, iwo, rpi, c),
         NEW q \in Queues, T[q] # <<>>, NEW t, t = Head(T[q]), t.ch[1] \in {"rnak", "wnak"}
  PROVE  ~c /\ Tokens(Pop(T, q), K, L, W, R, U, D, sn, rq, re, iwo, rpi, c)
<1>1. Head(T[q]).ch[1] \notin {"req", "write"} /\ Head(T[q]).ch[1] # "read"
  OBVIOUS
<1>2. <<q, t>> \in Good(sn, rq, iwo, rpi, D, c)
  BY <1>1, TokensPop
<1>3. ~c
  BY <1>2 DEF Good
<1> QED
  BY <1>1, <1>3, TokensPop

\* A NAK of a READ: the endpoint is given up.
LEMMA StepIngressReadNak ==
  ASSUME OnePacket, NEW T, NEW K, NEW L, NEW W, NEW R, NEW U, NEW D, Inv(T, K, L, W, R, U, D),
         NEW port \in Ports, IngressReadNak(port), UNCHANGED <<nicVars, session>>
  PROVE  IInv'
<1>1. /\ Numbers(K, L, W, R, U, D, sent, req_epsn, read_epsn, item_write_offset, read_psn_to_item)
      /\ Shapes(wire, tm, session, T)
      /\ Tokens(T, K, L, W, R, U, D, sent, req_epsn, read_epsn, item_write_offset, read_psn_to_item,
                Calm(lost, full))
      /\ Registers(endp_state, write_psn, read_unack_psn, read_psn)
      /\ Up(endp_state, write_psn, read_psn, read_unack_psn, R, U, W)
  BY DEF Inv
<1> PICK p, t : p = Head(wire[port]) /\ t = Head(T[WireOf(port)])
  OBVIOUS
<1>2. Arrives(port, "read_nak")
  BY DEF IngressReadNak
<1>3. PICK e \in Eps :
        /\ port = Nic(e) /\ p \in Packet /\ t \in Token /\ T[WireOf(port)] # <<>>
        /\ Shapes(Taken(wire, port), tm, session, Pop(T, WireOf(port)))
        /\ IsReadNak(e, p, t)
  BY <1>1, <1>2, ArrivesIs
<1>4. PICK d \in Eps :
        /\ t.ch = <<"rnak", d>> /\ t.vals = {}
        /\ RoceCase(p).dst = d /\ RoceCase(p).pair = SrcDst(e, d)
  BY <1>3, ReadNakCase
<1> PICK q, n : q = WireOf(port) /\ n = p.psn
  OBVIOUS
<1>5. q \in Queues /\ n \in Nat /\ T[q] # <<>> /\ t = Head(T[q]) /\ t.ch[1] \in {"rnak", "wnak"}
  BY <1>3, <1>4, QueueNames, PacketParts
<1>6. /\ ~Calm(lost, full)
      /\ Tokens(Pop(T, q), K, L, W, R, U, D, sent, req_epsn, read_epsn, item_write_offset, read_psn_to_item,
                Calm(lost, full))
  BY <1>1, <1>5, NoNak
<1>7. /\ wire' = Taken(wire, port)
      /\ endp_state' = At(endp_state, d, 0)
      /\ read_unack_psn' = At(read_unack_psn, SrcDst(e, d), n)
      /\ read_psn' = At(read_psn, SrcDst(e, d), n)
      /\ UNCHANGED <<tm, read_psn_to_item, write_psn, egressRegs, full>>
  BY <1>4 DEF IngressReadNak, Received, Taken, At
<1>8. /\ endp_state \in [Eps -> {0, 1}] /\ write_psn \in [Eps -> Nat]
      /\ read_unack_psn \in [Pairs -> Nat] /\ read_psn \in [Pairs -> Nat]
  BY <1>1 DEF Registers
<1>9. Up(endp_state', write_psn, read_psn', read_unack_psn', R, U, W)
  BY <1>1, <1>5, <1>7, <1>8, UpDown
<1>10. Registers(endp_state', write_psn, read_unack_psn', read_psn')
  <2>1. SrcDst(e, d) \in Pairs
    BY PairIds
  <2>2. endp_state' \in [Eps -> {0, 1}]
    BY <1>7, <1>8, AtIs
  <2>3. read_unack_psn' \in [Pairs -> Nat] /\ read_psn' \in [Pairs -> Nat]
    BY <1>5, <1>7, <1>8, <2>1, AtIs
  <2> QED
    BY <1>8, <2>2, <2>3 DEF Registers
<1> PICK T1 : T1 = Pop(T, q)
  OBVIOUS
<1>11. Shapes(wire', tm, session, T1)
  BY <1>3, <1>7
<1>12. Clean(Calm(lost, full), endp_state')
  BY <1>6 DEF Clean
<1>13. Inv(T1, K, L, W, R, U, D)'
  BY <1>6, <1>7, <1>9, <1>10, <1>11, <1>12 DEF Inv, egressRegs, requestRegs, unitRegs, nicVars
<1> QED
  BY <1>13 DEF IInv

\* A NAK of a WRITE: the endpoint is given up.
LEMMA StepIngressWriteNak ==
  ASSUME OnePacket, NEW T, NEW K, NEW L, NEW W, NEW R, NEW U, NEW D, Inv(T, K, L, W, R, U, D),
         NEW port \in Ports, IngressWriteNak(port), UNCHANGED <<nicVars, session>>
  PROVE  IInv'
<1>1. /\ Numbers(K, L, W, R, U, D, sent, req_epsn, read_epsn, item_write_offset, read_psn_to_item)
      /\ Shapes(wire, tm, session, T)
      /\ Tokens(T, K, L, W, R, U, D, sent, req_epsn, read_epsn, item_write_offset, read_psn_to_item,
                Calm(lost, full))
      /\ Registers(endp_state, write_psn, read_unack_psn, read_psn)
      /\ Up(endp_state, write_psn, read_psn, read_unack_psn, R, U, W)
  BY DEF Inv
<1> PICK p, t : p = Head(wire[port]) /\ t = Head(T[WireOf(port)])
  OBVIOUS
<1>2. Arrives(port, "write_ack") /\ p.nak
  BY DEF IngressWriteNak
<1>3. PICK d \in Eps :
        /\ port = Nic(d) /\ p \in Packet /\ t \in Token /\ T[WireOf(port)] # <<>>
        /\ Shapes(Taken(wire, port), tm, session, Pop(T, WireOf(port)))
        /\ IsWriteAnswer(d, p, t) /\ RoceCase(p).dst = d
  BY <1>1, <1>2, ArrivesIs
<1>4. t.ch = <<"wnak", d>>
  BY <1>2, <1>3 DEF IsWriteAnswer
<1> PICK q, n : q = WireOf(port) /\ n = p.psn
  OBVIOUS
<1>5. q \in Queues /\ n \in Nat /\ T[q] # <<>> /\ t = Head(T[q]) /\ t.ch[1] \in {"rnak", "wnak"}
  BY <1>3, <1>4, QueueNames, PacketParts
<1>6. /\ ~Calm(lost, full)
      /\ Tokens(Pop(T, q), K, L, W, R, U, D, sent, req_epsn, read_epsn, item_write_offset, read_psn_to_item,
                Calm(lost, full))
  BY <1>1, <1>5, NoNak
<1>7. /\ wire' = Taken(wire, port)
      /\ endp_state' = At(endp_state, d, 0) /\ write_psn' = At(write_psn, d, n)
      /\ UNCHANGED <<tm, read_unack_psn, read_psn, read_psn_to_item, egressRegs, full>>
  BY <1>3 DEF IngressWriteNak, Received, Taken, At
<1>8. /\ endp_state \in [Eps -> {0, 1}] /\ write_psn \in [Eps -> Nat]
      /\ read_unack_psn \in [Pairs -> Nat] /\ read_psn \in [Pairs -> Nat]
  BY <1>1 DEF Registers
<1>9. Up(endp_state', write_psn', read_psn, read_unack_psn, R, U, W)
  BY <1>1, <1>5, <1>7, <1>8, UpDown
<1>10. Registers(endp_state', write_psn', read_unack_psn, read_psn)
  <2>1. endp_state' \in [Eps -> {0, 1}]
    BY <1>7, <1>8, AtIs
  <2>2. write_psn' \in [Eps -> Nat]
    BY <1>5, <1>7, <1>8, AtIs
  <2> QED
    BY <1>8, <2>1, <2>2 DEF Registers
<1> PICK T1 : T1 = Pop(T, q)
  OBVIOUS
<1>11. Shapes(wire', tm, session, T1)
  BY <1>3, <1>7
<1>12. Clean(Calm(lost, full), endp_state')
  BY <1>6 DEF Clean
<1>13. Inv(T1, K, L, W, R, U, D)'
  BY <1>6, <1>7, <1>9, <1>10, <1>11, <1>12 DEF Inv, egressRegs, requestRegs, unitRegs, nicVars
<1> QED
  BY <1>13 DEF IInv

\* Ingress queues the ACK of a WRITE for the requester.
LEMMA StepIngressWriteAck ==
  ASSUME OnePacket, NEW T, NEW K, NEW L, NEW W, NEW R, NEW U, NEW D, Inv(T, K, L, W, R, U, D),
         NEW port \in Ports, IngressWriteAck(port), UNCHANGED <<nicVars, session>>
  PROVE  IInv'
<1>1. /\ Numbers(K, L, W, R, U, D, sent, req_epsn, read_epsn, item_write_offset, read_psn_to_item)
      /\ Shapes(wire, tm, session, T)
      /\ Tokens(T, K, L, W, R, U, D, sent, req_epsn, read_epsn, item_write_offset, read_psn_to_item,
                Calm(lost, full))
  BY DEF Inv
<1> PICK p, t : p = Head(wire[port]) /\ t = Head(T[WireOf(port)])
  OBVIOUS
<1>2. Arrives(port, "write_ack") /\ ~p.nak
  BY DEF IngressWriteAck
<1>3. PICK d \in Eps :
        /\ port = Nic(d) /\ p \in Packet /\ t \in Token /\ T[WireOf(port)] # <<>>
        /\ Shapes(Taken(wire, port), tm, session, Pop(T, WireOf(port)))
        /\ IsWriteAnswer(d, p, t) /\ RoceCase(p).dst = d
  BY <1>1, <1>2, ArrivesIs
<1>4. t.ch = <<"ack", d>> /\ t.vals = {}
  BY <1>2, <1>3 DEF IsWriteAnswer
<1> PICK q, q2, b : q = WireOf(port) /\ q2 = TmOf(Nic(d)) /\ b = AckEntry(d, p)
  OBVIOUS
<1>5. q \in Queues /\ q2 \in Queues /\ Nic(d) \in Ports /\ T[q] # <<>> /\ t = Head(T[q])
  BY <1>3, QueueNames
<1>6. /\ wire' = Taken(wire, port) /\ Queue(Nic(d), <<b>>)
      /\ UNCHANGED <<ingressRegs, egressRegs, full>>
  BY <1>3 DEF IngressWriteAck, Received, Taken, AckEntry
<1>7. b \in Entry /\ <<b, t>> \in TmRel(session, Nic(d))
  <2>1. b \in Entry /\ IsAck(d, b, t)
    BY <1>2, <1>3, MakeAck
  <2> QED
    BY <1>3, <1>5, <2>1 DEF TmRel
<1>8. tm' = Given(tm, Nic(d), b)
  BY <1>1, <1>5, <1>6, <1>7, QueueOne
<1> PICK T1 : T1 = Put(Pop(T, q), q2, t)
  OBVIOUS
<1>9. Shapes(wire', tm', session, T1)
  <2>1. Shapes(wire', tm, session, Pop(T, q))
    BY <1>3, <1>6
  <2> QED
    BY <1>3, <1>5, <1>7, <1>8, <2>1, GivenTm
<1>10. Tokens(T1, K, L, W, R, U, D, sent, req_epsn, read_epsn, item_write_offset, read_psn_to_item,
              Calm(lost, full))
  <2>1. Head(T[q]).ch[1] \notin {"req", "write"} /\ Head(T[q]).ch[1] # "read"
    BY <1>4, <1>5
  <2>2. <<q, t>> \in Good(sent, req_epsn, item_write_offset, read_psn_to_item, D, Calm(lost, full))
    BY <1>1, <1>5, <2>1, TokensPop
  <2>3. <<q2, t>> \in Good(sent, req_epsn, item_write_offset, read_psn_to_item, D, Calm(lost, full))
    BY <1>4, <1>5, <2>2 DEF Good
  <2>4. t.vals \subseteq Head(T[q]).vals /\ t.ch[1] \notin {"req", "read", "res", "write"} /\ t.ch[1] # "loop"
    BY <1>4, <1>5
  <2>5. Tokens(Put(Pop(T, q), q2, t), K, L, W, R, U, D, sent, req_epsn, read_epsn, item_write_offset,
               read_psn_to_item, Calm(lost, full))
    BY <1>1, <1>3, <1>5, <2>1, <2>3, <2>4, TokensMove
  <2> QED
    BY <2>5
<1>11. Inv(T1, K, L, W, R, U, D)'
  BY <1>1, <1>6, <1>9, <1>10 DEF Inv, ingressRegs, egressRegs, requestRegs, unitRegs, nicVars
<1> QED
  BY <1>11 DEF IInv

-----------------------------------------------------------------------------
(* What leaves through the port of a NIC                                   *)

\* An entry leaves the switch for a NIC.
LEMMA LeavesIs ==
  ASSUME NEW T, Shapes(wire, tm, session, T), NEW e \in Eps, NEW rx, Leaves(Nic(e), rx),
         NEW b, b = Head(tm[Nic(e)]), NEW t, t = Head(T[TmOf(Nic(e))])
  PROVE  /\ tm' = Taken(tm, Nic(e)) /\ t \in Token /\ T[TmOf(Nic(e))] # <<>>
         /\ Shapes(wire, Taken(tm, Nic(e)), session, Pop(T, TmOf(Nic(e))))
         /\ rx = "repl_only" => IsRead(e, b, t)
         /\ rx = "read_response" => IsWrite(e, b, t)
         /\ rx = "write_ack" => IsAck(e, b, t)
<1>1. Nic(e) \in Ports
  BY QueueNames
<1>2. tm[Nic(e)] # <<>> /\ b.rx = rx /\ tm' = Taken(tm, Nic(e))
  BY DEF Leaves, Taken
<1>3. /\ Shapes(wire, Taken(tm, Nic(e)), session, Pop(T, TmOf(Nic(e))))
      /\ T[TmOf(Nic(e))] # <<>> /\ t \in Token
      /\ <<b, t>> \in TmRel(session, Nic(e))
  BY <1>1, <1>2, PopTm DEF Taken
<1>4. \/ IsRead(e, b, t) /\ b.rx = "repl_only"
      \/ IsWrite(e, b, t) /\ b.rx = "read_response"
      \/ IsAck(e, b, t) /\ b.rx = "write_ack"
  BY <1>3, TmNic
<1> QED
  BY <1>2, <1>3, <1>4

\* A NIC answers with one packet.
LEMMA AnswerOne ==
  ASSUME NEW m, NEW S, NEW T, Shapes(wire, m, S, T), NEW e \in Eps, NEW p \in Packet, Answer(e, <<p>>)
  PROVE  wire' = Given(wire, Nic(e), p)
<1>1. Nic(e) \in Ports /\ wire[Nic(e)] \in Seq(Packet)
  BY QueueNames DEF Shapes
<1>2. wire[Nic(e)] \o <<p>> = Append(wire[Nic(e)], p)
  BY <1>1, AppendIs
<1> QED
  BY <1>2 DEF Answer, Given

\* A NIC does not answer.
LEMMA AnswerNone ==
  ASSUME NEW m, NEW S, NEW T, Shapes(wire, m, S, T), NEW e \in Eps, Answer(e, <<>>)
  PROVE  wire' = wire
<1>1. Nic(e) \in Ports /\ wire[Nic(e)] \in Seq(Packet) /\ wire \in [Ports -> Seq(Packet)]
  BY QueueNames DEF Shapes
<1>2. wire[Nic(e)] \o <<>> = wire[Nic(e)]
  BY <1>1
<1>3. wire' = [wire EXCEPT ![Nic(e)] = wire[Nic(e)]]
  BY <1>2 DEF Answer
<1> QED
  BY <1>1, <1>3

\* After a loss the numbers of what is left may have a gap.
LEMMA TokensFail ==
  ASSUME NEW T, NEW K, NEW L, NEW W, NEW R, NEW U, NEW D, NEW sn, NEW rq, NEW re, NEW iwo, NEW rpi, NEW c,
         Numbers(K, L, W, R, U, D, sn, rq, re, iwo, rpi),
         Tokens(T, K, L, W, R, U, D, sn, rq, re, iwo, rpi, c),
         NEW q \in Queues, T[q] # <<>>, Head(T[q]).ch[1] \notin {"req", "write"}
  PROVE  Tokens(Pop(T, q), K, L, W, R, U, D, sn, rq, re, iwo, rpi, FALSE)
<1>1. Tokens(T, K, L, W, R, U, D, sn, rq, re, iwo, rpi, FALSE)
  BY TokensWeaken
<1> QED
  BY <1>1, TokensPop

\* A packet is lost: the run is no longer calm.
LEMMA LostOne ==
  ASSUME lost \in Nat, Lost
  PROVE  /\ lost' = lost + 1 /\ lost' \in Nat /\ lost' # 0
         /\ \A f : Calm(lost', f) = FALSE
         /\ UNCHANGED <<sent, unacked, read_epsn, write_epsn, written>>
BY DEF Lost, Calm

\* What is left unchanged when a packet is lost.
LEMMA AfterLoss ==
  ASSUME NEW T, NEW K, NEW L, NEW W, NEW R, NEW U, NEW D, Inv(T, K, L, W, R, U, D), Lost, full' = full
  PROVE  /\ Calm(lost', full') = FALSE
         /\ Gap(L, write_epsn, lost') /\ Clean(Calm(lost', full'), endp_state)
         /\ NicStates(unacked', write_epsn', lost', session, full', sent')
         /\ UNCHANGED <<sent, unacked, read_epsn, write_epsn, written>>
<1>1. lost \in Nat /\ NicStates(unacked, write_epsn, lost, session, full, sent) /\ Gap(L, write_epsn, lost)
  BY DEF Inv, NicStates
<1>2. /\ lost' = lost + 1 /\ lost' \in Nat /\ lost' # 0
      /\ UNCHANGED <<sent, unacked, read_epsn, write_epsn, written>>
  BY <1>1, LostOne
<1>3. Calm(lost', full') = FALSE
  BY <1>2 DEF Calm
<1> QED
  BY <1>1, <1>2, <1>3 DEF Gap, Clean, NicStates

\* What the source makes of a READ for the element v that leaves the switch.
ReadSeen(e, b, t, v, n) ==
  /\ v \in Vals /\ t.ch = <<"read", v[1]>> /\ t.vals = {v} /\ Source(v) = e
  /\ ReadOf(b).dqp[2] = v[1] /\ ReadOf(b).psn = t.num
  /\ Response(ReadOf(b), e) \in Packet
  /\ IsResponse(e, Response(ReadOf(b), e), Tok("res", v[1], t.num, {v}))
  /\ NakOf(e, ReadOf(b), n) \in Packet
  /\ IsReadNak(e, NakOf(e, ReadOf(b), n), Tok("rnak", v[1], 0, {}))
  /\ item_write_offset' = WithOffset(item_write_offset, v)
  /\ write_psn_to_unit' \in [WriteSlots -> {0}]

\* What egress remembers of a READ: where its element goes in the buffer.
LEMMA ReadEffect ==
  ASSUME NEW e \in Eps, NEW b, NEW t \in Token, IsRead(e, b, t), EgressRead(b),
         write_psn_to_unit \in [WriteSlots -> {0}], read_epsn \in [Pairs -> Nat]
  PROVE  \E v : ReadSeen(e, b, t, v, read_epsn[SrcDst(e, v[1])])
<1>1. PICK v0 \in Vals : t.ch = <<"read", v0[1]>> /\ b \in BridgeEntry
  BY DEF IsRead
<1> PICK n : n = read_epsn[SrcDst(e, v0[1])]
  OBVIOUS
<1>2. n \in Nat
  <2>1. v0[1] \in Eps
    BY ValParts
  <2> QED
    BY <2>1, PairIds
<1>3. Responds(e, b, t, n)
  BY <1>2, MakeResponse
<1>4. PICK v \in Vals :
        /\ t.ch = <<"read", v[1]>> /\ t.vals = {v} /\ Source(v) = e
        /\ b.dst = v[1] /\ b.item = ItemNumber(v) /\ Head(b.pkt.items).off = NItem - 1 - v[3]
        /\ ReadOf(b).dqp[2] = v[1] /\ ReadOf(b).psn = t.num
        /\ Response(ReadOf(b), e) \in Packet
        /\ IsResponse(e, Response(ReadOf(b), e), Tok("res", v[1], t.num, {v}))
        /\ NakOf(e, ReadOf(b), n) \in Packet
        /\ IsReadNak(e, NakOf(e, ReadOf(b), n), Tok("rnak", v[1], 0, {}))
  BY <1>3 DEF Responds
<1>5. v[1] = v0[1]
  BY <1>1, <1>4
<1>6. item_write_offset' = WithOffset(item_write_offset, v)
  BY <1>4 DEF EgressRead, WithOffset
<1>7. write_psn_to_unit' \in [WriteSlots -> {0}]
  <2>1. b.dst \in Eps /\ b.pkt.psn \in Nat
    BY <1>1, PacketParts DEF BridgeEntry
  <2> QED
    BY <2>1, ShlZero DEF EgressRead
<1>8. ReadSeen(e, b, t, v, n)
  BY <1>4, <1>6, <1>7 DEF ReadSeen
<1> QED
  BY <1>5, <1>8

\* A READ that is not the one expected shows that another one is missing.
Expected(t, re, k) == t.num = re[k]

\* Without loss a READ arrives with the PSN its target expects.
LEMMA WinGap ==
  ASSUME NEW T \in TokenQueues, NEW R \in [Pairs -> Nat], NEW U \in [Pairs -> Nat], NEW re \in [Pairs -> Nat],
         NEW c, ReadWin(T, R, U, re, c), NEW e \in Eps, NEW d \in Eps,
         T[TmOf(Nic(e))] # <<>>, Head(T[TmOf(Nic(e))]).ch = <<"read", d>>
  PROVE  c => Expected(Head(T[TmOf(Nic(e))]), re, SrcDst(e, d))
<1> DEFINE sd == SrcDst(e, d)
           q == TmOf(Nic(e))
<1>1. /\ sd \in Pairs /\ R[sd] \in Nat /\ re[sd] \in Nat /\ U[sd] <= re[sd]
      /\ Ranged(T[q], <<"read", d>>, re[sd], R[sd])
      /\ c => Dense(T[q], <<"read", d>>, re[sd], R[sd])
  BY ReadWinParts
<1>2. q \in Queues /\ T[q] # <<>> /\ Head(T[q]).ch = <<"read", d>>
  BY ReadChannels
<1> HIDE DEF sd, q
<1>3. /\ re[sd] <= Head(T[q]).num /\ Head(T[q]).num < R[sd]
      /\ Dense(T[q], <<"read", d>>, re[sd], R[sd]) => Head(T[q]).num = re[sd]
  BY <1>1, <1>2, PopFirst, ZenonT(60)
<1>4. c => Expected(Head(T[q]), re, sd)
  BY <1>1, <1>3 DEF Expected
<1> QED
  BY <1>4 DEF sd, q

\* A READ with another PSN arrives only after a loss.
LEMMA ReadGap ==
  ASSUME NEW T, NEW K, NEW L, NEW W, NEW R, NEW U, NEW D, NEW sn, NEW rq, NEW re, NEW iwo, NEW rpi, NEW c,
         Numbers(K, L, W, R, U, D, sn, rq, re, iwo, rpi),
         Tokens(T, K, L, W, R, U, D, sn, rq, re, iwo, rpi, c),
         NEW e \in Eps, NEW d \in Eps, T[TmOf(Nic(e))] # <<>>,
         NEW t, t = Head(T[TmOf(Nic(e))]), t.ch = <<"read", d>>, t.num # re[SrcDst(e, d)]
  PROVE  ~c
<1>1. /\ T \in TokenQueues /\ ReadWin(T, R, U, re, c)
      /\ R \in [Pairs -> Nat] /\ U \in [Pairs -> Nat] /\ re \in [Pairs -> Nat]
  BY DEF Tokens, Numbers
<1>2. Head(T[TmOf(Nic(e))]).ch = <<"read", d>>
  OBVIOUS
<1>3. c => Expected(Head(T[TmOf(Nic(e))]), re, SrcDst(e, d))
  BY <1>1, <1>2, WinGap
<1> QED
  BY <1>3 DEF Expected

\* A READ leaves the switch, and its target answers.
LEMMA StepSendRead ==
  ASSUME OnePacket, NEW T, NEW K, NEW L, NEW W, NEW R, NEW U, NEW D, Inv(T, K, L, W, R, U, D),
         NEW e \in Eps, SendRead(e), UNCHANGED session
  PROVE  IInv'
<1>1. /\ Numbers(K, L, W, R, U, D, sent, req_epsn, read_epsn, item_write_offset, read_psn_to_item)
      /\ Shapes(wire, tm, session, T)
      /\ Tokens(T, K, L, W, R, U, D, sent, req_epsn, read_epsn, item_write_offset, read_psn_to_item,
                Calm(lost, full))
      /\ UnitRegisters(write_psn_to_unit, req_unack_unit, unit_dst_addr, unit_remain, unit_req_psn)
  BY DEF Inv
<1> PICK b, t : b = Head(tm[Nic(e)]) /\ t = Head(T[TmOf(Nic(e))])
  OBVIOUS
<1>2. Leaves(Nic(e), "repl_only") /\ EgressRead(b)
  BY DEF SendRead
<1>3. /\ tm' = Taken(tm, Nic(e)) /\ t \in Token /\ T[TmOf(Nic(e))] # <<>>
      /\ Shapes(wire, Taken(tm, Nic(e)), session, Pop(T, TmOf(Nic(e))))
      /\ IsRead(e, b, t)
  BY <1>1, <1>2, LeavesIs
<1>4. /\ read_epsn \in [Pairs -> Nat] /\ R \in [Pairs -> Nat] /\ U \in [Pairs -> Nat]
      /\ write_psn_to_unit \in [WriteSlots -> {0}]
  BY <1>1 DEF Numbers, UnitRegisters
<1>5. PICK v : ReadSeen(e, b, t, v, read_epsn[SrcDst(e, v[1])])
  BY <1>2, <1>3, <1>4, ReadEffect
<1> PICK d, k, f : d = v[1] /\ k = SrcDst(e, d) /\ f = ReadOf(b)
  OBVIOUS
<1>6. /\ v \in Vals /\ t.ch = <<"read", d>> /\ t.vals = {v} /\ e = Source(v) /\ d = v[1]
      /\ f.dqp[2] = d /\ f.psn = t.num
      /\ item_write_offset' = WithOffset(item_write_offset, v)
      /\ write_psn_to_unit' \in [WriteSlots -> {0}]
  BY <1>5 DEF ReadSeen
<1>7. /\ Response(f, e) \in Packet /\ IsResponse(e, Response(f, e), Tok("res", d, t.num, {v}))
      /\ NakOf(e, f, read_epsn[k]) \in Packet
      /\ IsReadNak(e, NakOf(e, f, read_epsn[k]), Tok("rnak", d, 0, {}))
  BY <1>5 DEF ReadSeen
<1>8. /\ d \in Eps /\ k \in Pairs /\ read_epsn[k] \in Nat /\ Nic(e) \in Ports
      /\ TmOf(Nic(e)) \in Queues /\ WireOf(Nic(e)) \in Queues
  <2>1. d \in Eps
    BY <1>6, ValParts
  <2>2. k \in Pairs
    BY <2>1, PairIds
  <2> QED
    BY <1>4, <2>1, <2>2, QueueNames
<1>9. /\ Tokens(T, K, L, W, R, U, D, sent, req_epsn, read_epsn, item_write_offset', read_psn_to_item,
                Calm(lost, full))
      /\ Numbers(K, L, W, R, U, D, sent, req_epsn, read_epsn, item_write_offset', read_psn_to_item)
  BY <1>1, <1>6, TokensOffset
<1>10. UNCHANGED <<ingressRegs, full, req_unack_unit, requestRegs, unitRegs>>
  BY <1>2 DEF EgressRead
<1>11. UnitRegisters(write_psn_to_unit', req_unack_unit, unit_dst_addr, unit_remain, unit_req_psn)
  BY <1>1, <1>6 DEF UnitRegisters
<1>12. /\ T[TmOf(Nic(e))] # <<>> /\ t = Head(T[TmOf(Nic(e))]) /\ t.ch[1] \notin {"req", "write"}
       /\ Head(T[TmOf(Nic(e))]).ch = <<"read", d>>
  BY <1>3, <1>6
<1>13. \/ ReadArrives(e, f)
       \/ Lost /\ UNCHANGED wire
  BY DEF SendRead
<1>14. CASE ReadArrives(e, f) /\ f.psn = read_epsn[k]
  <2>1. /\ read_epsn' = [read_epsn EXCEPT ![k] = @ + 1]
        /\ Answer(e, <<Response(f, e)>>)
        /\ UNCHANGED <<sent, unacked, write_epsn, write_naked, written, lost>>
    BY <1>6, <1>14 DEF ReadArrives, Response
  <2> PICK x : x = Tok("res", d, read_epsn[k], {v})
    OBVIOUS
  <2>2. x \in Token /\ x.ch = <<"res", d>> /\ x.vals = {v} /\ x.num = read_epsn[k]
    BY <1>6, <1>8, TokType DEF Classes
  <2> PICK T1 : T1 = Put(Pop(T, TmOf(Nic(e))), WireOf(Nic(e)), x)
    OBVIOUS
  <2>3. Shapes(wire', tm', session, T1)
    <3>1. <<Response(f, e), x>> \in WireRel(session, Nic(e))
      BY <1>6, <1>7, <1>14, <2>2 DEF WireRel
    <3>2. wire' = Given(wire, Nic(e), Response(f, e))
      BY <1>1, <1>7, <2>1, AnswerOne
    <3> QED
      BY <1>3, <1>7, <1>8, <2>2, <3>1, <3>2, GivenWire
  <2>4. /\ Tokens(T1, K, L, W, R, U, D, sent, req_epsn, read_epsn', item_write_offset', read_psn_to_item,
                 Calm(lost, full))
        /\ read_epsn' \in [Pairs -> Nat]
    <3> PICK iwo1 : iwo1 = item_write_offset'
      OBVIOUS
    <3>1. /\ Tokens(T, K, L, W, R, U, D, sent, req_epsn, read_epsn, iwo1, read_psn_to_item, Calm(lost, full))
          /\ Numbers(K, L, W, R, U, D, sent, req_epsn, read_epsn, iwo1, read_psn_to_item)
      BY <1>9
    <3>2. iwo1[ItemNumber(v)] = NItem - 1 - v[3]
      BY <1>1, <1>6, OffsetIs DEF Numbers
    <3>3. /\ Head(T[TmOf(Nic(e))]).ch = <<"read", v[1]>> /\ Head(T[TmOf(Nic(e))]).vals = {v}
          /\ Head(T[TmOf(Nic(e))]).num = read_epsn[k]
          /\ x.ch = <<"res", v[1]>> /\ k = SrcDst(e, v[1])
      BY <1>6, <1>12, <1>14, <2>2
    <3>4. Tokens(Put(Pop(T, TmOf(Nic(e))), WireOf(Nic(e)), x), K, L, W, R, U, D,
                 sent, req_epsn, [read_epsn EXCEPT ![k] = @ + 1], iwo1, read_psn_to_item, Calm(lost, full))
      BY <1>6, <1>12, <2>2, <3>1, <3>2, <3>3, TokensRespond, ZenonT(60)
    <3>5. [read_epsn EXCEPT ![k] = @ + 1] \in [Pairs -> Nat]
      BY <1>4, <1>8
    <3> QED
      BY <2>1, <3>4, <3>5
  <2>5. Numbers(K, L, W, R, U, D, sent, req_epsn, read_epsn', item_write_offset', read_psn_to_item)
    BY <1>9, <2>4 DEF Numbers
  <2>6. Inv(T1, K, L, W, R, U, D)'
    BY <1>10, <1>11, <2>1, <2>3, <2>4, <2>5 DEF Inv, ingressRegs, requestRegs, unitRegs
  <2> QED
    BY <2>6 DEF IInv
<1>15. CASE ReadArrives(e, f) /\ f.psn # read_epsn[k]
  <2>1. /\ Answer(e, IF read_naked[k] THEN <<>> ELSE <<NakOf(e, f, read_epsn[k])>>)
        /\ UNCHANGED <<sent, unacked, read_epsn, write_epsn, write_naked, written, lost>>
    BY <1>6, <1>15 DEF ReadArrives
  <2>2. ~Calm(lost, full)
    <3>1. t.num # read_epsn[SrcDst(e, d)]
      BY <1>6, <1>15
    <3> QED
      BY <1>1, <1>6, <1>8, <1>12, <3>1, ReadGap
  <2>3. CASE read_naked[k]
    <3>1. wire' = wire
      BY <1>1, <2>1, <2>3, AnswerNone
    <3> PICK T1 : T1 = Pop(T, TmOf(Nic(e)))
      OBVIOUS
    <3>2. Shapes(wire', tm', session, T1)
      BY <1>3, <3>1
    <3>3. Tokens(T1, K, L, W, R, U, D, sent, req_epsn, read_epsn, item_write_offset', read_psn_to_item,
                 Calm(lost, full))
      BY <1>8, <1>9, <1>12, <2>2, TokensPop
    <3>4. Inv(T1, K, L, W, R, U, D)'
      BY <1>9, <1>10, <1>11, <2>1, <3>2, <3>3 DEF Inv, ingressRegs, requestRegs, unitRegs
    <3> QED
      BY <3>4 DEF IInv
  <2>4. CASE ~read_naked[k]
    <3> PICK x : x = Tok("rnak", d, 0, {})
      OBVIOUS
    <3>1. x \in Token /\ x.ch = <<"rnak", d>> /\ x.vals = {}
      BY <1>8, TokType DEF Classes
    <3> PICK T1 : T1 = Put(Pop(T, TmOf(Nic(e))), WireOf(Nic(e)), x)
      OBVIOUS
    <3>2. Shapes(wire', tm', session, T1)
      <4>1. <<NakOf(e, f, read_epsn[k]), x>> \in WireRel(session, Nic(e))
        BY <1>7, <3>1 DEF WireRel
      <4>2. wire' = Given(wire, Nic(e), NakOf(e, f, read_epsn[k]))
        BY <1>1, <1>7, <2>1, <2>4, AnswerOne
      <4> QED
        BY <1>3, <1>7, <1>8, <3>1, <4>1, <4>2, GivenWire
    <3>3. Tokens(T1, K, L, W, R, U, D, sent, req_epsn, read_epsn, item_write_offset', read_psn_to_item,
                 Calm(lost, full))
      <4>1. <<WireOf(Nic(e)), x>> \in
              Good(sent, req_epsn, item_write_offset', read_psn_to_item, D, Calm(lost, full))
        BY <1>8, <2>2, <3>1 DEF Good
      <4>2. /\ x.vals \subseteq Head(T[TmOf(Nic(e))]).vals
            /\ x.ch[1] \notin {"req", "read", "res", "write"} /\ x.ch[1] # "loop"
        BY <3>1
      <4>3. Tokens(Put(Pop(T, TmOf(Nic(e))), WireOf(Nic(e)), x), K, L, W, R, U, D, sent, req_epsn,
                   read_epsn, item_write_offset', read_psn_to_item, Calm(lost, full))
        BY <1>8, <1>9, <1>12, <2>2, <3>1, <4>1, <4>2, TokensMove
      <4> QED
        BY <4>3
    <3>4. Inv(T1, K, L, W, R, U, D)'
      BY <1>9, <1>10, <1>11, <2>1, <3>2, <3>3 DEF Inv, ingressRegs, requestRegs, unitRegs
    <3> QED
      BY <3>4 DEF IInv
  <2> QED
    BY <2>3, <2>4
<1>16. CASE Lost /\ UNCHANGED wire
  <2>1. /\ Calm(lost', full') = FALSE
        /\ Gap(L, write_epsn, lost') /\ Clean(Calm(lost', full'), endp_state)
        /\ NicStates(unacked', write_epsn', lost', session, full', sent')
        /\ UNCHANGED <<sent, unacked, read_epsn, write_epsn, written>>
    BY <1>10, <1>16, AfterLoss
  <2> PICK T1 : T1 = Pop(T, TmOf(Nic(e)))
    OBVIOUS
  <2>2. Shapes(wire', tm', session, T1)
    BY <1>3, <1>16
  <2>3. Tokens(T1, K, L, W, R, U, D, sent, req_epsn, read_epsn, item_write_offset', read_psn_to_item, FALSE)
    BY <1>8, <1>9, <1>12, TokensFail
  <2>4. Inv(T1, K, L, W, R, U, D)'
    BY <1>9, <1>10, <1>11, <2>1, <2>2, <2>3 DEF Inv, ingressRegs, requestRegs, unitRegs
  <2> QED
    BY <2>4 DEF IInv
<1> QED
  BY <1>13, <1>14, <1>15, <1>16

\* The unit found for an acknowledgement is the first one of endpoint 0.
LEMMA AckPsn ==
  ASSUME OnePacket, UnitRegisters(write_psn_to_unit, req_unack_unit, unit_dst_addr, unit_remain, unit_req_psn),
         NEW b, b.dst \in Eps, b.pkt \in Packet
  PROVE  AckOf(b).psn \in Nat
<1>1. Shl(b) = 0
  BY ShlZero, PacketParts DEF UnitRegisters
<1>2. UnitIdFromShl(0) = 0
  <2> PICK n : n = Pow2(SHL_UNIT_SHIFT)
    OBVIOUS
  <2>1. n \in Nat \ {0}
    BY Sizes
  <2>2. 0 \div n = 0
    BY <2>1
  <2> QED
    BY <2>2 DEF UnitIdFromShl
<1>3. 0 \in Units
  <2>1. MAX_NUM_ENDP \in Nat \ {0} /\ UNIT_PER_ENDP \in Nat \ {0}
    BY Sizes
  <2> PICK n : n = MAX_NUM_ENDP * UNIT_PER_ENDP
    OBVIOUS
  <2>2. n \in Nat \ {0}
    BY <2>1
  <2> QED
    BY <2>2 DEF Units
<1>4. unit_req_psn[0] \in Nat
  BY <1>3 DEF UnitRegisters
<1>5. AckOf(b) = [b.pkt EXCEPT !.psn = unit_req_psn[0], !.msn = unit_req_msn[0]]
  BY <1>1, <1>2 DEF AckOf
<1>6. b.pkt = [b.pkt EXCEPT !.psn = @]
  BY DEF Packet
<1>7. AckOf(b).psn = unit_req_psn[0]
  BY <1>5 DEF Packet
<1> QED
  BY <1>4, <1>7

\* The acknowledgement moves the unit to acknowledge on, if it is the first.
LEMMA AckEffect ==
  ASSUME UnitRegisters(write_psn_to_unit, req_unack_unit, unit_dst_addr, unit_remain, unit_req_psn),
         NEW b, b.dst \in Eps, b.pkt \in Packet, EgressWriteAck(b)
  PROVE  UnitRegisters(write_psn_to_unit', req_unack_unit', unit_dst_addr, unit_remain, unit_req_psn)
<1>1. Shl(b) = 0 /\ write_psn_to_unit' \in [WriteSlots -> {0}]
  BY ShlZero, PacketParts DEF UnitRegisters, EgressWriteAck
<1> PICK P : P = Pow2(SHL_UNIT_SHIFT)
  OBVIOUS
<1>2. P \in Nat
  BY Sizes
<1> PICK w : w = Wrap16(P)
  OBVIOUS
<1>3. req_unack_unit \in [Eps -> {0, w}]
  BY DEF UnitRegisters
<1>4. req_unack_unit' = [req_unack_unit EXCEPT ![b.dst] = IF @ = 0 THEN Wrap16(@ + P) ELSE @]
  BY <1>1 DEF EgressWriteAck
<1>5. req_unack_unit' = At(req_unack_unit, b.dst, w)
  <2>1. CASE req_unack_unit[b.dst] = 0
    <3>1. Wrap16(0 + P) = w
      BY <1>2
    <3> QED
      BY <1>4, <2>1, <3>1 DEF At
  <2>2. CASE req_unack_unit[b.dst] # 0
    <3>1. req_unack_unit[b.dst] = w
      BY <1>3, <2>2
    <3> QED
      BY <1>4, <2>2, <3>1 DEF At
  <2> QED
    BY <2>1, <2>2
<1>6. req_unack_unit' \in [Eps -> {0, w}]
  BY <1>3, <1>5 DEF At
<1> QED
  BY <1>1, <1>6 DEF UnitRegisters

\* An ACK leaves the switch, and its requester sees it.
LEMMA StepSendAck ==
  ASSUME OnePacket, NEW T, NEW K, NEW L, NEW W, NEW R, NEW U, NEW D, Inv(T, K, L, W, R, U, D),
         NEW e \in Eps, SendAck(e), UNCHANGED session
  PROVE  IInv'
<1>1. /\ Numbers(K, L, W, R, U, D, sent, req_epsn, read_epsn, item_write_offset, read_psn_to_item)
      /\ Shapes(wire, tm, session, T)
      /\ Tokens(T, K, L, W, R, U, D, sent, req_epsn, read_epsn, item_write_offset, read_psn_to_item,
                Calm(lost, full))
      /\ UnitRegisters(write_psn_to_unit, req_unack_unit, unit_dst_addr, unit_remain, unit_req_psn)
      /\ NicStates(unacked, write_epsn, lost, session, full, sent)
      /\ One(L, D, req_epsn, unit_remain, unacked)
  BY DEF Inv
<1> PICK b, t, q : b = Head(tm[Nic(e)]) /\ t = Head(T[TmOf(Nic(e))]) /\ q = TmOf(Nic(e))
  OBVIOUS
<1>2. Leaves(Nic(e), "write_ack") /\ EgressWriteAck(b)
  BY DEF SendAck
<1>3. /\ tm' = Taken(tm, Nic(e)) /\ t \in Token /\ T[TmOf(Nic(e))] # <<>>
      /\ Shapes(wire, Taken(tm, Nic(e)), session, Pop(T, TmOf(Nic(e))))
      /\ IsAck(e, b, t)
  BY <1>1, <1>2, LeavesIs
<1>4. t.ch = <<"ack", e>> /\ b.dst \in Eps /\ b.pkt \in Packet
  BY <1>3 DEF IsAck, BridgeEntry
<1>5. UnitRegisters(write_psn_to_unit', req_unack_unit', unit_dst_addr, unit_remain, unit_req_psn)
  BY <1>1, <1>2, <1>4, AckEffect
<1>6. UNCHANGED <<ingressRegs, full, item_write_offset, requestRegs, unitRegs>>
  BY <1>2 DEF EgressWriteAck
<1>7. q \in Queues /\ T[q] # <<>> /\ t = Head(T[q]) /\ t.ch[1] = "ack"
  BY <1>3, <1>4, QueueNames
<1>8. \/ AckArrives(e, AckOf(b))
      \/ Lost /\ UNCHANGED wire
  BY DEF SendAck
<1> PICK T1 : T1 = Pop(T, q)
  OBVIOUS
<1>9. CASE AckArrives(e, AckOf(b))
  <2>1. UNCHANGED <<wire, sent, read_epsn, write_epsn, written, lost>>
    BY <1>9 DEF AckArrives
  <2>2. Shapes(wire', tm', session, T1)
    BY <1>3, <2>1
  <2>3. /\ Tokens(T1, K, L, W, R, U, D, sent, req_epsn, read_epsn, item_write_offset, read_psn_to_item,
                  Calm(lost, full))
        /\ <<q, t>> \in Good(sent, req_epsn, item_write_offset, read_psn_to_item, D, Calm(lost, full))
    <3>1. Head(T[q]).ch[1] \notin {"req", "write"} /\ Head(T[q]).ch[1] # "read"
      BY <1>7
    <3> QED
      BY <1>1, <1>7, <3>1, TokensPop
  <2>4. PICK n \in Nat : unacked' = [unacked EXCEPT ![e] = n]
    <3>1. AckOf(b).psn \in Nat
      BY <1>1, <1>4, AckPsn
    <3>2. unacked \in [Eps -> Nat]
      BY <1>1 DEF NicStates
    <3>3. unacked' = [unacked EXCEPT ![e] = unacked[e]] \/ unacked' = [unacked EXCEPT ![e] = AckOf(b).psn + 1]
      BY <1>9 DEF AckArrives
    <3> QED
      BY <3>1, <3>2, <3>3
  <2>5. NicStates(unacked', write_epsn, lost, session, full, sent)
    BY <1>1, <2>4 DEF NicStates
  <2>6. One(L, D, req_epsn, unit_remain, unacked')
    <3>1. NPost <= 1 => Cardinality(D[e]) = NItem
      BY <1>4, <2>3 DEF Good
    <3>2. unacked \in [Eps -> Nat]
      BY <1>1 DEF NicStates
    <3>3. ASSUME NPost <= 1, NEW d \in Eps, unacked'[d] > 0 PROVE Cardinality(D[d]) = NItem
      <4>1. CASE d = e
        BY <3>1, <3>3, <4>1
      <4>2. CASE d # e
        <5>1. unacked'[d] = unacked[d]
          BY <2>4, <3>2, <4>2
        <5> QED
          BY <1>1, <3>3, <5>1 DEF One
      <4> QED
        BY <4>1, <4>2
    <3> QED
      BY <1>1, <3>3 DEF One
  <2>7. Inv(T1, K, L, W, R, U, D)'
    BY <1>1, <1>5, <1>6, <2>1, <2>2, <2>3, <2>5, <2>6 DEF Inv, ingressRegs, requestRegs, unitRegs
  <2> QED
    BY <2>7 DEF IInv
<1>10. CASE Lost /\ UNCHANGED wire
  <2>1. /\ Calm(lost', full') = FALSE
        /\ Gap(L, write_epsn, lost') /\ Clean(Calm(lost', full'), endp_state)
        /\ NicStates(unacked', write_epsn', lost', session, full', sent')
        /\ UNCHANGED <<sent, unacked, read_epsn, write_epsn, written>>
    BY <1>6, <1>10, AfterLoss
  <2>2. Shapes(wire', tm', session, T1)
    BY <1>3, <1>10
  <2>3. Tokens(T1, K, L, W, R, U, D, sent, req_epsn, read_epsn, item_write_offset, read_psn_to_item, FALSE)
    <3>1. Head(T[q]).ch[1] \notin {"req", "write"}
      BY <1>7
    <3> QED
      BY <1>1, <1>7, <3>1, TokensFail
  <2>4. Inv(T1, K, L, W, R, U, D)'
    BY <1>1, <1>5, <1>6, <2>1, <2>2, <2>3 DEF Inv, ingressRegs, requestRegs, unitRegs
  <2> QED
    BY <2>4 DEF IInv
<1> QED
  BY <1>8, <1>9, <1>10

\* A packet from a NIC that is lost is not a request.
LEMMA StepLoseFromNic ==
  ASSUME OnePacket, NEW T, NEW K, NEW L, NEW W, NEW R, NEW U, NEW D, Inv(T, K, L, W, R, U, D),
         NEW e \in Eps, LoseFromNic(e)
  PROVE  IInv'
<1>1. /\ Numbers(K, L, W, R, U, D, sent, req_epsn, read_epsn, item_write_offset, read_psn_to_item)
      /\ Shapes(wire, tm, session, T)
      /\ Tokens(T, K, L, W, R, U, D, sent, req_epsn, read_epsn, item_write_offset, read_psn_to_item,
                Calm(lost, full))
  BY DEF Inv
<1> PICK p, q, t : p = Head(wire[Nic(e)]) /\ q = WireOf(Nic(e)) /\ t = Head(T[q])
  OBVIOUS
<1>2. /\ wire[Nic(e)] # <<>> /\ p.op \notin RequestOps /\ Lost
      /\ wire' = [wire EXCEPT ![Nic(e)] = Tail(@)]
      /\ UNCHANGED <<tm, ingressRegs, egressRegs, full, session>>
  BY DEF LoseFromNic, OnePacket, Received
<1>3. Nic(e) \in Ports /\ q \in Queues
  BY QueueNames
<1>4. /\ Shapes(wire', tm, session, Pop(T, q)) /\ T[q] # <<>>
      /\ <<p, t>> \in WireRel(session, Nic(e))
  BY <1>1, <1>2, <1>3, PopWire
<1>5. t.ch[1] \notin {"req", "write"}
  <2>1. \/ IsRequest(session, e, p, t) \/ IsResponse(e, p, t)
        \/ IsReadNak(e, p, t) \/ IsWriteAnswer(e, p, t)
    BY <1>4, WireNic
  <2>2. ~IsRequest(session, e, p, t)
    BY <1>2 DEF IsRequest, ReqPkt, RequestOps
  <2>3. IsResponse(e, p, t) => t.ch[1] = "res"
    BY DEF IsResponse
  <2>4. IsReadNak(e, p, t) => t.ch[1] = "rnak"
    BY DEF IsReadNak
  <2>5. IsWriteAnswer(e, p, t) => t.ch[1] \in {"wnak", "ack"}
    BY DEF IsWriteAnswer
  <2> QED
    BY <2>1, <2>2, <2>3, <2>4, <2>5
<1> PICK T1 : T1 = Pop(T, q)
  OBVIOUS
<1>6. Tokens(T1, K, L, W, R, U, D, sent, req_epsn, read_epsn, item_write_offset, read_psn_to_item, FALSE)
  BY <1>1, <1>3, <1>4, <1>5, TokensFail
<1>7. /\ Calm(lost', full') = FALSE
      /\ Gap(L, write_epsn, lost') /\ Clean(Calm(lost', full'), endp_state)
      /\ NicStates(unacked', write_epsn', lost', session, full', sent')
      /\ UNCHANGED <<sent, unacked, read_epsn, write_epsn, written>>
  BY <1>2, AfterLoss
<1>8. Shapes(wire', tm', session, T1)
  BY <1>2, <1>4
<1>9. Inv(T1, K, L, W, R, U, D)'
  BY <1>1, <1>2, <1>6, <1>7, <1>8 DEF Inv, ingressRegs, egressRegs, requestRegs, unitRegs
<1> QED
  BY <1>9 DEF IInv

-----------------------------------------------------------------------------
(* A WRITE leaves the switch                                               *)

\* What the requester is given for the element v.
WriteSeen(e, b, t, v, n) ==
  /\ v \in Vals /\ v[1] = e /\ t.ch = <<"write", e>> /\ t.vals = {v}
  /\ WriteOf(b).psn = t.num /\ WriteOf(b).val = v
  /\ WriteOf(b).ackreq = (Wrap8(unit_remain[UnitIdFromDst(e, v[2])] - 1) = 0)
  /\ WriteOf(b).addr = unit_dst_addr[UnitIdFromDst(e, v[2])] + item_write_offset[ItemNumber(v)]
  /\ Acked(WriteOf(b), e) \in Packet
  /\ IsWriteAnswer(e, Acked(WriteOf(b), e), Tok("ack", e, 0, {}))
  /\ NakOf(e, WriteOf(b), n) \in Packet
  /\ IsWriteAnswer(e, NakOf(e, WriteOf(b), n), Tok("wnak", e, 0, {}))
  /\ unit_remain' = At(unit_remain, UnitIdFromDst(e, v[2]), Wrap8(unit_remain[UnitIdFromDst(e, v[2])] - 1))
  /\ write_psn_to_unit' \in [WriteSlots -> {0}]

\* What egress counts for a WRITE, and the address it gives it.
LEMMA WriteEffect ==
  ASSUME OnePacket, NEW e \in Eps, NEW b, NEW t \in Token, IsWrite(e, b, t), EgressWrite(b),
         UnitRegisters(write_psn_to_unit, req_unack_unit, unit_dst_addr, unit_remain, unit_req_psn),
         item_write_offset \in [Items -> Int], NEW n \in Nat
  PROVE  \E v : WriteSeen(e, b, t, v, n)
<1>1. PICK w \in Vals :
        /\ w[1] = e /\ b \in BridgeEntry /\ b.dst = e
        /\ b.unit = UnitIdFromDst(e, w[2]) /\ b.item = ItemNumber(w)
  BY DEF IsWrite
<1>2. b.unit \in Units /\ b.item \in Items
  <2>1. w[2] \in Posts
    BY ValParts
  <2>2. UnitIdFromDst(e, w[2]) \in Units
    BY <2>1, UnitIds
  <2>3. ItemNumber(w) \in Items
    BY ItemIds
  <2> QED
    BY <1>1, <2>2, <2>3
<1>3. unit_dst_addr[b.unit] \in Int /\ item_write_offset[b.item] \in Int
  BY <1>2 DEF UnitRegisters
<1>4. unit_dst_addr[b.unit] + item_write_offset[b.item] \in Int
  BY <1>3
<1>5. Answers(e, b, t, n)
  BY <1>4, MakeAnswer
<1>6. PICK v \in Vals :
        /\ v[1] = e /\ t.ch = <<"write", e>> /\ t.vals = {v} /\ b.dst = e
        /\ b.unit = UnitIdFromDst(e, v[2]) /\ b.item = ItemNumber(v)
        /\ WriteOf(b).psn = t.num /\ WriteOf(b).val = v
        /\ WriteOf(b).ackreq = (Wrap8(unit_remain[b.unit] - 1) = 0)
        /\ WriteOf(b).addr = unit_dst_addr[b.unit] + item_write_offset[b.item]
        /\ Acked(WriteOf(b), e) \in Packet
        /\ IsWriteAnswer(e, Acked(WriteOf(b), e), Tok("ack", e, 0, {}))
        /\ NakOf(e, WriteOf(b), n) \in Packet
        /\ IsWriteAnswer(e, NakOf(e, WriteOf(b), n), Tok("wnak", e, 0, {}))
  BY <1>5 DEF Answers
<1>7. unit_remain' = At(unit_remain, b.unit, Wrap8(unit_remain[b.unit] - 1))
  BY DEF EgressWrite, At
<1>8. write_psn_to_unit' \in [WriteSlots -> {0}]
  <2>1. b.dst \in Eps /\ b.pkt \in Packet
    BY <1>1 DEF BridgeEntry
  <2>2. b.pkt.psn \in Nat
    BY <2>1, PacketParts
  <2>3. WritePsnToUnit(b) /\ write_psn_to_unit \in [WriteSlots -> {0}]
    BY DEF EgressWrite, UnitRegisters
  <2> QED
    BY <2>1, <2>2, <2>3, ShlZero
<1>9. WriteSeen(e, b, t, v, n)
  BY <1>6, <1>7, <1>8 DEF WriteSeen
<1> QED
  BY <1>9

\* There is room for an element that is not in memory.
LEMMA RoomLeft ==
  ASSUME NEW X, NEW e \in Eps, X \subseteq ValsFrom(e), NEW v \in ValsFrom(e), v \notin X
  PROVE  /\ IsFiniteSet(X) /\ Cardinality(X) \in Nat /\ Cardinality(X \cup {v}) = Cardinality(X) + 1
         /\ NPost <= 1 => Cardinality(X) # NItem
<1>1. IsFiniteSet(ValsFrom(e)) /\ Cardinality(ValsFrom(e)) <= NPost * NItem
  BY ValsCount
<1>2. IsFiniteSet(X)
  BY <1>1, FS_Subset
<1>3. Cardinality(X \cup {v}) = Cardinality(X) + 1
  BY <1>2, FS_AddElement
<1>4. Cardinality(X) + 1 <= Cardinality(ValsFrom(e)) /\ Cardinality(X) \in Nat
      /\ Cardinality(ValsFrom(e)) \in Nat
  BY <1>1, OneLess
<1>5. NPost <= 1 => Cardinality(X) # NItem
  <2>1. NPost \in Nat /\ NItem \in Nat
    BY Constants
  <2> PICK n : n = NPost * NItem
    OBVIOUS
  <2>2. NPost <= 1 => n <= NItem
    <3>1. NPost <= 1 => NPost = 0 \/ NPost = 1
      BY <2>1
    <3>2. NPost = 0 => n = 0
      BY <2>1
    <3>3. NPost = 1 => n = NItem
      BY <2>1
    <3> QED
      BY <2>1, <3>1, <3>2, <3>3
  <2>3. n \in Nat
    BY <2>1
  <2> QED
    BY <1>1, <1>4, <2>1, <2>2, <2>3
<1> QED
  BY <1>2, <1>3, <1>4, <1>5

\* An element gets into memory at its own place.
LEMMA MemoryWrite ==
  ASSUME NEW D \in [Eps -> SUBSET Vals], NEW wr, NEW sn, NEW we \in [Eps -> Nat], NEW S,
         Memory(D, wr, sn, we, S), NEW e \in Eps, NEW v \in Vals, v[1] = e, v[2] < sn[e], v \notin D[e]
  PROVE  Memory(At(D, e, D[e] \cup {v}), At(wr, e, wr[e] \cup {ElementOf(S, v)}), sn, Inc(we, e), S)
<1> PICK D1, W1, N1 : /\ D1 = At(D, e, D[e] \cup {v}) /\ W1 = At(wr, e, wr[e] \cup {ElementOf(S, v)})
                      /\ N1 = Inc(we, e)
  OBVIOUS
<1>1. /\ D1 \in [Eps -> SUBSET Vals] /\ D1[e] = D[e] \cup {v}
      /\ \A d \in Eps : d # e => D1[d] = D[d]
  BY DEF At
<1>2. /\ N1 \in [Eps -> Nat] /\ N1[e] = we[e] + 1
      /\ \A d \in Eps : d # e => N1[d] = we[d]
  BY IncIs
<1>3. wr = [d \in Eps |-> {ElementOf(S, u) : u \in D[d]}]
  BY DEF Memory
<1>4. W1 = [d \in Eps |-> {ElementOf(S, u) : u \in D1[d]}]
  <2>1. {ElementOf(S, u) : u \in D1[e]} = wr[e] \cup {ElementOf(S, v)}
    <3>1. D1[e] = D[e] \cup {v}
      BY <1>1
    <3>2. wr[e] = {ElementOf(S, u) : u \in D[e]}
      BY <1>3
    <3> QED
      BY <3>1, <3>2
  <2>2. ASSUME NEW d \in Eps, d # e PROVE {ElementOf(S, u) : u \in D1[d]} = wr[d]
    BY <1>1, <1>3, <2>2
  <2>3. W1 = [d \in Eps |-> IF d = e THEN wr[e] \cup {ElementOf(S, v)} ELSE wr[d]]
    BY <1>3 DEF At
  <2> QED
    BY <2>1, <2>2, <2>3
<1>5. ASSUME NEW d \in Eps
      PROVE  /\ D1[d] \subseteq ValsFrom(d)
             /\ \A u \in D1[d] : u[2] < sn[d]
             /\ Cardinality(D1[d]) = N1[d]
  <2>1. /\ D[d] \subseteq ValsFrom(d)
        /\ \A u \in D[d] : u[2] < sn[d]
        /\ Cardinality(D[d]) = we[d]
    BY DEF Memory
  <2>2. CASE d = e
    <3>1. v \in ValsFrom(e)
      BY DEF ValsFrom
    <3>2. Cardinality(D[e] \cup {v}) = Cardinality(D[e]) + 1
      BY <2>1, <2>2, <3>1, RoomLeft
    <3>3. D1[e] \subseteq ValsFrom(e) /\ \A u \in D1[e] : u[2] < sn[e]
      BY <1>1, <2>1, <2>2, <3>1
    <3> QED
      BY <1>1, <1>2, <2>1, <2>2, <3>2, <3>3
  <2>3. CASE d # e
    BY <1>1, <1>2, <2>1, <2>3
  <2> QED
    BY <2>2, <2>3
<1>6. Memory(D1, W1, sn, N1, S)
  BY <1>4, <1>5 DEF Memory
<1> QED
  BY <1>6

\* With one request, a count of 0 says that its last WRITE has left.
OneLess8(f, i) == Wrap8(f[i] - 1)
Leaving(L, rq, e) == rq[e] # 0 /\ L[e] < NPost * NItem
LastLeft(L, e, m) == NPost <= 1 /\ m = 0 => L[e] + 1 = NItem

\* A WRITE that leaves is one less to leave, whether it arrives or not.
LEMMA OneLeaves ==
  ASSUME OnePacket, NEW L \in [Eps -> Nat], NEW D, NEW rq, NEW ur \in [Units -> Int], NEW ua,
         One(L, D, rq, ur, ua), NEW e \in Eps, NEW j \in Posts, Leaving(L, rq, e),
         NEW u, u = UnitIdFromDst(e, j), NEW m, m = OneLess8(ur, u),
         NEW L1, L1 = Inc(L, e), NEW ur1, ur1 = At(ur, u, m)
  PROVE  /\ One(L1, D, rq, ur1, ua)
         /\ LastLeft(L, e, m)
         /\ ur1 \in [Units -> Int]
<1>0. rq[e] # 0 /\ L[e] < NPost * NItem
  BY DEF Leaving
<1>1. u \in Units /\ ur[u] \in Int
  BY UnitIds
<1>1a. m = Wrap8(ur[u] - 1)
  BY DEF OneLess8
<1>2. m \in Int
  <2> PICK k : k = 2^8
    OBVIOUS
  <2>1. k \in Nat \ {0}
    <3>1. 2^8 = 256
      OBVIOUS
    <3> QED
      BY <3>1
  <2>2. ur[u] - 1 \in Int
    BY <1>1
  <2> PICK y : y = ur[u] - 1
    OBVIOUS
  <2>3. y % k \in 0 .. k - 1
    BY <2>1, <2>2, ModType
  <2> QED
    BY <1>1a, <2>1, <2>3 DEF Wrap8
<1>3. L1[e] = L[e] + 1 /\ \A d \in Eps : d # e => L1[d] = L[d]
  BY IncIs
<1>4. ur1 \in [Units -> Int] /\ ur1[u] = m /\ \A i \in Units : i # u => ur1[i] = ur[i]
  BY <1>1, <1>2 DEF At
<1>5. NPost <= 1 => m = ur[u] - 1 /\ L[e] + ur[u] = NItem
  <2> SUFFICES ASSUME NPost <= 1 PROVE m = ur[u] - 1 /\ L[e] + ur[u] = NItem
    OBVIOUS
  <2>1. L[e] + ur[u] = NItem
    BY <1>0 DEF One
  <2>2. L[e] < NItem
    <3>1. NPost = 1
      BY Constants DEF Posts
    <3> QED
      BY <1>0, <3>1, Constants
  <2>3. ur[u] - 1 \in 0 .. NItem - 1 /\ NItem \in Nat \ {0} /\ L[e] \in Nat
    BY <1>1, <2>1, <2>2, Constants
  <2> PICK k, y : k = 2^8 /\ y = ur[u] - 1
    OBVIOUS
  <2>4. k \in Nat \ {0} /\ NItem < k
    <3>1. 2^8 = 256 /\ NItem < 2^8
      BY DEF OnePacket
    <3> QED
      BY <3>1
  <2>5. y \in 0 .. k - 1
    BY <2>3, <2>4
  <2>6. y % k = y
    BY <2>4, <2>5, ModSmall
  <2> QED
    BY <1>1a, <2>1, <2>6 DEF Wrap8
<1>6. ASSUME NPost <= 1, NEW d \in Eps, NEW i \in Posts
      PROVE  L1[d] + (IF rq[d] = 0 THEN NItem ELSE ur1[UnitIdFromDst(d, i)]) = NItem
  <2>1. L[d] + (IF rq[d] = 0 THEN NItem ELSE ur[UnitIdFromDst(d, i)]) = NItem
    BY <1>6 DEF One
  <2>2. CASE d = e
    <3>1. i = j
      BY <1>6, Constants
    <3>2. UnitIdFromDst(d, i) = u
      BY <2>2, <3>1
    <3> QED
      BY <1>0, <1>1, <1>3, <1>4, <1>5, <1>6, <2>2, <3>2
  <2>3. CASE d # e
    <3>1. UnitIdFromDst(d, i) # u /\ UnitIdFromDst(d, i) \in Units
      BY <2>3, UnitIds
    <3> QED
      BY <1>3, <1>4, <2>1, <2>3, <3>1
  <2> QED
    BY <2>2, <2>3
<1>7. One(L1, D, rq, ur1, ua)
  BY <1>6 DEF One
<1>8. LastLeft(L, e, m)
  BY <1>1, <1>5, Constants DEF LastLeft
<1> QED
  BY <1>4, <1>7, <1>8

\* ... and no request is acknowledged whose last element is just written.
LEMMA OneWritten ==
  ASSUME NEW L, NEW D \in [Eps -> SUBSET Vals], NEW rq, NEW ur, NEW ua \in [Eps -> Nat], One(L, D, rq, ur, ua),
         NEW e \in Eps, D[e] \subseteq ValsFrom(e), NEW v \in ValsFrom(e), v \notin D[e]
  PROVE  One(L, At(D, e, D[e] \cup {v}), rq, ur, ua)
<1> PICK D1 : D1 = At(D, e, D[e] \cup {v})
  OBVIOUS
<1>1. \A d \in Eps : d # e => D1[d] = D[d]
  BY DEF At
<1>2. NPost <= 1 => Cardinality(D[e]) # NItem
  BY RoomLeft
<1>3. ASSUME NPost <= 1, NEW d \in Eps, ua[d] > 0 PROVE Cardinality(D1[d]) = NItem
  BY <1>1, <1>2, <1>3 DEF One
<1>4. One(L, D1, rq, ur, ua)
  BY <1>3 DEF One
<1> QED
  BY <1>4

\* The n'th WRITE for e, with element v, was the next one.
WriteLeft(T, L, D, sn, rq, iwo, e, v, n) ==
  /\ n = L[e] /\ L[e] < NPost * NItem
  /\ v[2] < sn[e] /\ v[2] < rq[e] /\ v \notin D[e]
  /\ iwo[ItemNumber(v)] = NItem - 1 - v[3]
  /\ v \notin Held(T, Classes)

\* The numbers of what is left when a WRITE has left the switch.
LEMMA TokensLeft ==
  ASSUME NEW T, NEW K, NEW L, NEW W, NEW R, NEW U, NEW D, NEW sn, NEW rq, NEW re, NEW iwo, NEW rpi, NEW c,
         Numbers(K, L, W, R, U, D, sn, rq, re, iwo, rpi),
         Tokens(T, K, L, W, R, U, D, sn, rq, re, iwo, rpi, c),
         NEW e \in Eps, T[TmOf(Nic(e))] # <<>>, NEW v \in Vals, v[1] = e,
         NEW t, t = Head(T[TmOf(Nic(e))]), IsTok(t, "write", e, {v}),
         NEW T0, T0 = Pop(T, TmOf(Nic(e))), NEW L1, L1 = Inc(L, e)
  PROVE  /\ Tokens(T0, K, L1, W, R, U, D, sn, rq, re, iwo, rpi, c)
         /\ WriteLeft(T0, L, D, sn, rq, iwo, e, v, t.num)
<1>1. Head(T[TmOf(Nic(e))]).ch = <<"write", e>> /\ t.vals = {v} /\ t.ch = <<"write", e>>
  BY DEF IsTok
<1>2. /\ Tokens(Pop(T, TmOf(Nic(e))), K, [L EXCEPT ![e] = @ + 1], W, R, U, D, sn, rq, re, iwo, rpi, c)
      /\ Head(T[TmOf(Nic(e))]).num = L[e] /\ L[e] < W[e] /\ W[e] <= NPost * NItem
      /\ <<TmOf(Nic(e)), Head(T[TmOf(Nic(e))])>> \in Good(sn, rq, iwo, rpi, D, c)
      /\ \A w \in Head(T[TmOf(Nic(e))]).vals : w \notin Held(Pop(T, TmOf(Nic(e))), Classes)
  BY <1>1, TokensLeave
<1>3. <<TmOf(Nic(e)), t>> \in Good(sn, rq, iwo, rpi, D, c)
  BY <1>2
<1>4. v[2] < sn[e] /\ v[2] < rq[e] /\ v \notin D[e] /\ iwo[ItemNumber(v)] = NItem - 1 - v[3]
  BY <1>1, <1>3 DEF Good
<1>5. L[e] < NPost * NItem
  <2>1. L[e] \in Nat /\ W[e] \in Nat /\ NPost \in Nat /\ NItem \in Nat
    BY Constants DEF Numbers
  <2> PICK n : n = NPost * NItem
    OBVIOUS
  <2>2. n \in Nat
    BY <2>1
  <2> QED
    BY <1>2, <2>1, <2>2
<1>6. Tokens(T0, K, L1, W, R, U, D, sn, rq, re, iwo, rpi, c)
  BY <1>2 DEF Inc
<1>7. t.num = L[e] /\ v \notin Held(T0, Classes)
  BY <1>1, <1>2
<1> QED
  BY <1>4, <1>5, <1>6, <1>7 DEF WriteLeft

\* Where the element is written.
LEMMA AddressIs ==
  ASSUME NEW S \in Int, NEW v \in Vals, NEW rq, NEW uda, Buffers(rq, uda, S), v[2] < rq[v[1]],
         NEW iwo, iwo[ItemNumber(v)] = NItem - 1 - v[3]
  PROVE  uda[UnitIdFromDst(v[1], v[2])] + iwo[ItemNumber(v)] = ElementOf(S, v).addr
<1>1. v[1] \in Eps /\ v[2] \in Posts /\ v[3] \in Places
  BY ValParts
<1>2. uda[UnitIdFromDst(v[1], v[2])] = ((S * NPost) + v[2]) * NItem
  BY <1>1 DEF Buffers
<1>3. v[2] \in Nat /\ v[3] \in Nat /\ NPost \in Nat /\ NItem \in Nat
  BY <1>1, Constants
<1> PICK n : n = ((S * NPost) + v[2]) * NItem
  OBVIOUS
<1>4. n \in Int
  BY <1>3
<1>5. ElementOf(S, v).addr = n + NItem - 1 - v[3]
  BY DEF ElementOf
<1> QED
  BY <1>2, <1>3, <1>4, <1>5

\* A gap shows that a WRITE was lost.
LEMMA GapLeft ==
  ASSUME NEW L \in [Eps -> Nat], NEW we \in [Eps -> Nat], NEW l, Gap(L, we, l), NEW e \in Eps
  PROVE  /\ we[e] # L[e] => l # 0
         /\ we[e] # L[e] => Gap(Inc(L, e), we, l)
         /\ l # 0 => Gap(Inc(L, e), we, l)
         /\ we[e] = L[e] => Gap(Inc(L, e), Inc(we, e), l)
<1> PICK L1, we1 : L1 = Inc(L, e) /\ we1 = Inc(we, e)
  OBVIOUS
<1>1. /\ L1[e] = L[e] + 1 /\ \A d \in Eps : d # e => L1[d] = L[d]
      /\ we1[e] = we[e] + 1 /\ \A d \in Eps : d # e => we1[d] = we[d]
  BY IncIs
<1>2. l = 0 => we[e] = L[e]
  BY DEF Gap
<1>3. l # 0 => Gap(L1, we, l)
  <2> SUFFICES ASSUME l # 0, NEW d \in Eps PROVE we[d] <= L1[d]
    BY DEF Gap
  <2>1. we[d] <= L[d] /\ we[d] \in Nat /\ L[d] \in Nat
    BY DEF Gap
  <2> QED
    BY <1>1, <2>1
<1>4. we[e] = L[e] => Gap(L1, we1, l)
  <2> SUFFICES ASSUME we[e] = L[e], NEW d \in Eps PROVE we1[d] <= L1[d] /\ (l = 0 => we1[d] = L1[d])
    BY DEF Gap
  <2>1. we[d] <= L[d] /\ (l = 0 => we[d] = L[d]) /\ we[d] \in Nat /\ L[d] \in Nat
    BY DEF Gap
  <2> QED
    BY <1>1, <2>1
<1> QED
  BY <1>2, <1>3, <1>4

LessAt(f, f1, i) == f1 = At(f, i, Wrap8(f[i] - 1))
WriteCounted(L, D, rq, ur1, ua, e, n) ==
  /\ One(Inc(L, e), D, rq, ur1, ua)
  /\ NPost <= 1 /\ n = 0 => L[e] + 1 = NItem
  /\ ur1 \in [Units -> Int]

\* The unit's count is that of the elements still to be written.
LEMMA WriteCounts ==
  ASSUME OnePacket, NEW L \in [Eps -> Nat], NEW D, NEW rq, NEW ur \in [Units -> Int], NEW ua,
         One(L, D, rq, ur, ua), NEW e \in Eps, NEW j \in Posts, Leaving(L, rq, e),
         NEW ur1, LessAt(ur, ur1, UnitIdFromDst(e, j))
  PROVE  WriteCounted(L, D, rq, ur1, ua, e, Wrap8(ur[UnitIdFromDst(e, j)] - 1))
<1> DEFINE u == UnitIdFromDst(e, j)
           n == OneLess8(ur, u)
           L1 == Inc(L, e)
<1>1. u = UnitIdFromDst(e, j) /\ n = OneLess8(ur, u) /\ L1 = Inc(L, e) /\ ur1 = At(ur, u, n)
  BY DEF LessAt, OneLess8
<1>2. n = Wrap8(ur[UnitIdFromDst(e, j)] - 1)
  BY DEF OneLess8
<1> HIDE DEF u, n, L1
<1>3. One(L1, D, rq, ur1, ua) /\ LastLeft(L, e, n) /\ ur1 \in [Units -> Int]
  BY <1>1, OneLeaves
<1> QED
  BY <1>1, <1>2, <1>3 DEF WriteCounted, LastLeft

\* A WRITE leaves the switch, and the requester's memory has its element.
LEMMA StepSendWrite ==
  ASSUME OnePacket, NEW T, NEW K, NEW L, NEW W, NEW R, NEW U, NEW D, Inv(T, K, L, W, R, U, D),
         NEW e \in Eps, SendWrite(e), UNCHANGED session
  PROVE  IInv'
<1>1. /\ Numbers(K, L, W, R, U, D, sent, req_epsn, read_epsn, item_write_offset, read_psn_to_item)
      /\ Shapes(wire, tm, session, T)
      /\ Tokens(T, K, L, W, R, U, D, sent, req_epsn, read_epsn, item_write_offset, read_psn_to_item,
                Calm(lost, full))
      /\ UnitRegisters(write_psn_to_unit, req_unack_unit, unit_dst_addr, unit_remain, unit_req_psn)
      /\ NicStates(unacked, write_epsn, lost, session, full, sent)
      /\ Buffers(req_epsn, unit_dst_addr, session)
      /\ Memory(D, written, sent, write_epsn, session)
      /\ Gap(L, write_epsn, lost)
      /\ One(L, D, req_epsn, unit_remain, unacked)
  BY DEF Inv
<1> PICK b, t, q : b = Head(tm[Nic(e)]) /\ t = Head(T[TmOf(Nic(e))]) /\ q = TmOf(Nic(e))
  OBVIOUS
<1>2. Leaves(Nic(e), "read_response") /\ EgressWrite(b)
  BY DEF SendWrite
<1>3. /\ tm' = Taken(tm, Nic(e)) /\ t \in Token /\ T[TmOf(Nic(e))] # <<>>
      /\ Shapes(wire, Taken(tm, Nic(e)), session, Pop(T, TmOf(Nic(e))))
      /\ IsWrite(e, b, t)
  BY <1>1, <1>2, LeavesIs
<1>4. /\ K \in [Eps -> Nat] /\ L \in [Eps -> Nat] /\ W \in [Eps -> Nat] /\ D \in [Eps -> SUBSET Vals]
      /\ write_epsn \in [Eps -> Nat] /\ write_epsn[e] \in Nat /\ L[e] \in Nat /\ session \in Int
      /\ item_write_offset \in [Items -> Int] /\ unit_remain \in [Units -> Int] /\ unacked \in [Eps -> Nat]
      /\ req_epsn \in [Eps -> Nat] /\ lost \in Nat
  BY <1>1 DEF Numbers, NicStates, UnitRegisters
<1>5. PICK v : WriteSeen(e, b, t, v, write_epsn[e])
  BY <1>1, <1>2, <1>3, <1>4, WriteEffect
<1> PICK f, u, n : f = WriteOf(b) /\ u = UnitIdFromDst(e, v[2]) /\ n = Wrap8(unit_remain[u] - 1)
  OBVIOUS
<1>6. /\ v \in Vals /\ v[1] = e /\ IsTok(t, "write", e, {v}) /\ t.ch = <<"write", e>>
      /\ f.psn = t.num /\ f.val = v /\ f.ackreq = (n = 0)
      /\ f.addr = unit_dst_addr[u] + item_write_offset[ItemNumber(v)]
      /\ unit_remain' = At(unit_remain, u, n) /\ write_psn_to_unit' \in [WriteSlots -> {0}]
  BY <1>5 DEF WriteSeen, IsTok
<1>7. /\ Acked(f, e) \in Packet /\ IsWriteAnswer(e, Acked(f, e), Tok("ack", e, 0, {}))
      /\ NakOf(e, f, write_epsn[e]) \in Packet
      /\ IsWriteAnswer(e, NakOf(e, f, write_epsn[e]), Tok("wnak", e, 0, {}))
  BY <1>5 DEF WriteSeen
<1>8. /\ q \in Queues /\ WireOf(Nic(e)) \in Queues /\ Nic(e) \in Ports /\ T[q] # <<>> /\ t = Head(T[q])
  BY <1>3, QueueNames
<1> PICK T0, L1 : T0 = Pop(T, q) /\ L1 = Inc(L, e)
  OBVIOUS
<1>9. /\ Tokens(T0, K, L1, W, R, U, D, sent, req_epsn, read_epsn, item_write_offset, read_psn_to_item,
                Calm(lost, full))
      /\ t.num = L[e] /\ L[e] < NPost * NItem
      /\ v[2] < sent[e] /\ v[2] < req_epsn[e] /\ v \notin D[e]
      /\ item_write_offset[ItemNumber(v)] = NItem - 1 - v[3]
      /\ v \notin Held(T0, Classes)
  <2>1. /\ Numbers(K, L, W, R, U, D, sent, req_epsn, read_epsn, item_write_offset, read_psn_to_item)
        /\ Tokens(T, K, L, W, R, U, D, sent, req_epsn, read_epsn, item_write_offset, read_psn_to_item,
                  Calm(lost, full))
        /\ T[TmOf(Nic(e))] # <<>> /\ v \in Vals /\ v[1] = e
        /\ t = Head(T[TmOf(Nic(e))]) /\ IsTok(t, "write", e, {v})
    BY <1>1, <1>3, <1>6
  <2>2. T0 = Pop(T, TmOf(Nic(e))) /\ L1 = Inc(L, e)
    OBVIOUS
  <2>3. /\ Tokens(T0, K, L1, W, R, U, D, sent, req_epsn, read_epsn, item_write_offset, read_psn_to_item,
                  Calm(lost, full))
        /\ WriteLeft(T0, L, D, sent, req_epsn, item_write_offset, e, v, t.num)
    BY <2>1, <2>2, TokensLeft
  <2> QED
    BY <2>3 DEF WriteLeft
<1>10. L1 \in [Eps -> Nat]
  BY <1>4, IncIs
<1>11. Numbers(K, L1, W, R, U, D, sent, req_epsn, read_epsn, item_write_offset, read_psn_to_item)
  BY <1>1, <1>10 DEF Numbers
<1>12. /\ One(L1, D, req_epsn, unit_remain', unacked)
       /\ NPost <= 1 /\ n = 0 => L[e] + 1 = NItem
       /\ unit_remain' \in [Units -> Int]
  <2>1. v[2] \in Posts /\ v[2] \in Nat
    BY <1>6, ValParts, Constants
  <2> PICK j : j = v[2]
    OBVIOUS
  <2>2. /\ j \in Posts /\ Leaving(L, req_epsn, e)
        /\ L \in [Eps -> Nat] /\ unit_remain \in [Units -> Int]
        /\ One(L, D, req_epsn, unit_remain, unacked)
        /\ LessAt(unit_remain, unit_remain', UnitIdFromDst(e, j))
    BY <1>1, <1>4, <1>6, <1>9, <2>1 DEF LessAt, Leaving
  <2>3. WriteCounted(L, D, req_epsn, unit_remain', unacked, e, Wrap8(unit_remain[UnitIdFromDst(e, j)] - 1))
    BY <2>2, WriteCounts
  <2> QED
    BY <2>3 DEF WriteCounted
<1>13. UnitRegisters(write_psn_to_unit', req_unack_unit, unit_dst_addr, unit_remain', unit_req_psn)
  BY <1>1, <1>6, <1>12 DEF UnitRegisters
<1>14. UNCHANGED <<ingressRegs, full, item_write_offset, req_unack_unit, requestRegs,
                   unit_req_psn, unit_req_msn, unit_dst_addr>>
  BY <1>2 DEF EgressWrite
<1>15. Shapes(wire, tm', session, T0)
  BY <1>3
<1>16. \/ WriteArrives(e, f)
       \/ Lost /\ UNCHANGED wire
  BY DEF SendWrite
<1>17. CASE WriteArrives(e, f) /\ f.psn = write_epsn[e]
  <2>1. /\ write_epsn' = Inc(write_epsn, e)
        /\ written' = At(written, e, written[e] \cup {[addr |-> f.addr, val |-> f.val]})
        /\ Answer(e, IF f.ackreq THEN <<Acked(f, e)>> ELSE <<>>)
        /\ UNCHANGED <<sent, unacked, read_epsn, lost>>
    BY <1>17 DEF WriteArrives, Inc, At, Acked
  <2>2. [addr |-> f.addr, val |-> f.val] = ElementOf(session, v)
    <3>1. v[2] < req_epsn[v[1]]
      BY <1>6, <1>9
    <3>2. unit_dst_addr[UnitIdFromDst(v[1], v[2])] + item_write_offset[ItemNumber(v)]
            = ElementOf(session, v).addr
      BY <1>1, <1>4, <1>6, <1>9, <3>1, AddressIs
    <3>3. f.addr = ElementOf(session, v).addr
      BY <1>6, <3>2
    <3> QED
      BY <1>6, <3>3 DEF ElementOf
  <2> PICK D1 : D1 = At(D, e, D[e] \cup {v})
    OBVIOUS
  <2>3. D1 \in [Eps -> SUBSET Vals] /\ D1[e] = D[e] \cup {v}
    BY <1>4, <1>6 DEF At
  <2>4. Memory(D1, written', sent, write_epsn', session)
    <3>1. written' = At(written, e, written[e] \cup {ElementOf(session, v)})
      BY <2>1, <2>2
    <3>2. Memory(At(D, e, D[e] \cup {v}), At(written, e, written[e] \cup {ElementOf(session, v)}), sent,
                 Inc(write_epsn, e), session)
      BY <1>1, <1>4, <1>6, <1>9, MemoryWrite
    <3> QED
      BY <2>1, <3>1, <3>2
  <2>5. v \in ValsFrom(e) /\ D[e] \subseteq ValsFrom(e) /\ Cardinality(D[e]) = write_epsn[e]
    BY <1>1, <1>6 DEF Memory, ValsFrom
  <2>6. One(L1, D1, req_epsn, unit_remain', unacked)
    <3> PICK ur1 : ur1 = unit_remain'
      OBVIOUS
    <3>1. One(L1, D, req_epsn, ur1, unacked)
      BY <1>12
    <3>2. One(L1, D1, req_epsn, ur1, unacked)
      BY <1>4, <1>9, <2>5, <3>1, OneWritten
    <3> QED
      BY <3>2
  <2>7. Tokens(T0, K, L1, W, R, U, D1, sent, req_epsn, read_epsn, item_write_offset, read_psn_to_item,
               Calm(lost, full))
    <3>1. NPost <= 1 => Cardinality(D[e]) # NItem
      BY <1>9, <2>5, RoomLeft
    <3>2. Tokens(T0, K, L1, W, R, U, [D EXCEPT ![e] = @ \cup {v}], sent, req_epsn, read_epsn,
                 item_write_offset, read_psn_to_item, Calm(lost, full))
      BY <1>9, <1>11, <3>1, TokensMemory
    <3> QED
      BY <3>2 DEF At
  <2>8. Numbers(K, L1, W, R, U, D1, sent, req_epsn, read_epsn, item_write_offset, read_psn_to_item)
    BY <1>11, <2>3 DEF Numbers
  <2>9. Gap(L1, write_epsn', lost)
    BY <1>1, <1>4, <1>6, <1>9, <1>17, <2>1, GapLeft
  <2>10. NicStates(unacked, write_epsn', lost, session, full, sent)
    <3>1. write_epsn' \in [Eps -> Nat]
      BY <1>4, <2>1, IncIs
    <3> QED
      BY <1>1, <3>1 DEF NicStates
  <2>11. CASE f.ackreq
    <3> PICK x : x = Tok("ack", e, 0, {})
      OBVIOUS
    <3>1. x \in Token /\ x.ch = <<"ack", e>> /\ x.vals = {}
      BY TokType DEF Classes
    <3> PICK T1 : T1 = Put(T0, WireOf(Nic(e)), x)
      OBVIOUS
    <3>2. Shapes(wire', tm', session, T1)
      <4>1. <<Acked(f, e), x>> \in WireRel(session, Nic(e))
        BY <1>7, <3>1 DEF WireRel
      <4>2. wire' = Given(wire, Nic(e), Acked(f, e))
        BY <1>1, <1>7, <2>1, <2>11, AnswerOne
      <4> QED
        BY <1>7, <1>8, <1>15, <3>1, <4>1, <4>2, GivenWire
    <3>3. NPost <= 1 => Cardinality(D1[e]) = NItem
      <4>1. Cardinality(D1[e]) = Cardinality(D[e]) + 1
        BY <1>9, <2>3, <2>5, RoomLeft
      <4> QED
        <5>1. n = 0
          BY <1>6, <2>11
        <5>2. NPost <= 1 => L[e] + 1 = NItem
          BY <1>12, <5>1
        <5>3. Cardinality(D[e]) = L[e]
          BY <1>6, <1>9, <1>17, <2>5
        <5> QED
          BY <4>1, <5>2, <5>3
    <3>4. Tokens(T1, K, L1, W, R, U, D1, sent, req_epsn, read_epsn, item_write_offset, read_psn_to_item,
                 Calm(lost, full))
      <4>1. <<WireOf(Nic(e)), x>> \in
              Good(sent, req_epsn, item_write_offset, read_psn_to_item, D1, Calm(lost, full))
        BY <1>8, <3>1, <3>3 DEF Good
      <4>2. x.ch[1] \in {"ack", "wnak"} /\ x.vals = {}
        BY <3>1
      <4>3. Tokens(Put(T0, WireOf(Nic(e)), x), K, L1, W, R, U, D1, sent, req_epsn, read_epsn,
                   item_write_offset, read_psn_to_item, Calm(lost, full))
        BY <1>8, <2>7, <2>8, <3>1, <4>1, <4>2, TokensAnswer
      <4> QED
        BY <4>3
    <3>5. Inv(T1, K, L1, W, R, U, D1)'
      BY <1>1, <1>13, <1>14, <2>1, <2>4, <2>6, <2>8, <2>9, <2>10, <3>2, <3>4
      DEF Inv, ingressRegs, requestRegs
    <3> QED
      BY <3>5 DEF IInv
  <2>12. CASE ~f.ackreq
    <3>1. wire' = wire
      BY <1>1, <2>1, <2>12, AnswerNone
    <3>2. Shapes(wire', tm', session, T0)
      BY <1>15, <3>1
    <3>3. Inv(T0, K, L1, W, R, U, D1)'
      BY <1>1, <1>13, <1>14, <2>1, <2>4, <2>6, <2>7, <2>8, <2>9, <2>10, <3>2
      DEF Inv, ingressRegs, requestRegs
    <3> QED
      BY <3>3 DEF IInv
  <2> QED
    BY <2>11, <2>12
<1>18. CASE WriteArrives(e, f) /\ f.psn # write_epsn[e]
  <2>1. /\ Answer(e, IF write_naked[e] THEN <<>> ELSE <<NakOf(e, f, write_epsn[e])>>)
        /\ UNCHANGED <<sent, unacked, read_epsn, write_epsn, written, lost>>
    BY <1>18 DEF WriteArrives
  <2>2. lost # 0 /\ Gap(L1, write_epsn, lost)
    BY <1>1, <1>4, <1>6, <1>9, <1>18, GapLeft
  <2>3. ~Calm(lost, full)
    BY <2>2 DEF Calm
  <2>4. CASE write_naked[e]
    <3>1. wire' = wire
      BY <1>1, <2>1, <2>4, AnswerNone
    <3>2. Shapes(wire', tm', session, T0)
      BY <1>15, <3>1
    <3>3. Inv(T0, K, L1, W, R, U, D)'
      BY <1>1, <1>9, <1>11, <1>12, <1>13, <1>14, <2>1, <2>2, <3>2 DEF Inv, ingressRegs, requestRegs
    <3> QED
      BY <3>3 DEF IInv
  <2>5. CASE ~write_naked[e]
    <3> PICK x : x = Tok("wnak", e, 0, {})
      OBVIOUS
    <3>1. x \in Token /\ x.ch = <<"wnak", e>> /\ x.vals = {}
      BY TokType DEF Classes
    <3> PICK T1 : T1 = Put(T0, WireOf(Nic(e)), x)
      OBVIOUS
    <3>2. Shapes(wire', tm', session, T1)
      <4>1. <<NakOf(e, f, write_epsn[e]), x>> \in WireRel(session, Nic(e))
        BY <1>7, <3>1 DEF WireRel
      <4>2. wire' = Given(wire, Nic(e), NakOf(e, f, write_epsn[e]))
        BY <1>1, <1>7, <2>1, <2>5, AnswerOne
      <4> QED
        BY <1>7, <1>8, <1>15, <3>1, <4>1, <4>2, GivenWire
    <3>3. Tokens(T1, K, L1, W, R, U, D, sent, req_epsn, read_epsn, item_write_offset, read_psn_to_item,
                 Calm(lost, full))
      <4>1. <<WireOf(Nic(e)), x>> \in
              Good(sent, req_epsn, item_write_offset, read_psn_to_item, D, Calm(lost, full))
        BY <1>8, <2>3, <3>1 DEF Good
      <4>2. x.ch[1] \in {"ack", "wnak"} /\ x.vals = {}
        BY <3>1
      <4>3. Tokens(Put(T0, WireOf(Nic(e)), x), K, L1, W, R, U, D, sent, req_epsn, read_epsn,
                   item_write_offset, read_psn_to_item, Calm(lost, full))
        BY <1>8, <1>9, <1>11, <3>1, <4>1, <4>2, TokensAnswer
      <4> QED
        BY <4>3
    <3>4. Inv(T1, K, L1, W, R, U, D)'
      BY <1>1, <1>11, <1>12, <1>13, <1>14, <2>1, <2>2, <3>2, <3>3 DEF Inv, ingressRegs, requestRegs
    <3> QED
      BY <3>4 DEF IInv
  <2> QED
    BY <2>4, <2>5
<1>19. CASE Lost /\ UNCHANGED wire
  <2>1. /\ Calm(lost', full') = FALSE
        /\ Gap(L, write_epsn, lost') /\ Clean(Calm(lost', full'), endp_state)
        /\ NicStates(unacked', write_epsn', lost', session, full', sent')
        /\ UNCHANGED <<sent, unacked, read_epsn, write_epsn, written>>
    BY <1>14, <1>19, AfterLoss
  <2>2. Gap(L1, write_epsn, lost')
    <3>1. lost' # 0 /\ lost' = lost + 1
      BY <1>4, <1>19, LostOne
    <3> PICK l : l = lost'
      OBVIOUS
    <3>2. Gap(L, write_epsn, l) /\ l # 0
      BY <2>1, <3>1
    <3>3. Gap(Inc(L, e), write_epsn, l)
      BY <1>4, <3>2, GapLeft
    <3> QED
      BY <3>3
  <2>3. Tokens(T0, K, L1, W, R, U, D, sent, req_epsn, read_epsn, item_write_offset, read_psn_to_item, FALSE)
    BY <1>9, <1>11, TokensWeaken
  <2>4. Shapes(wire', tm', session, T0)
    BY <1>15, <1>19
  <2>5. Inv(T0, K, L1, W, R, U, D)'
    BY <1>1, <1>11, <1>12, <1>13, <1>14, <2>1, <2>2, <2>3, <2>4 DEF Inv, ingressRegs, requestRegs
  <2> QED
    BY <2>5 DEF IInv
<1> QED
  BY <1>16, <1>17, <1>18, <1>19

-----------------------------------------------------------------------------
(* A session begins                                                        *)

Zeros == [d \in Eps |-> 0]
PairZeros == [sd \in Pairs |-> 0]
Nothing == [d \in Eps |-> {}]
Ones == [d \in Eps |-> 1]
NoTokens == [q \in Queues |-> <<>>]

\* With nothing under way, every count is zero.
LEMMA FreshTokens ==
  ASSUME NEW iwo \in [Items -> Int], NEW rpi \in [ReadSlots -> Int], NEW c
  PROVE  /\ Numbers(Zeros, Zeros, Zeros, PairZeros, PairZeros, Nothing, Zeros, Zeros, PairZeros, iwo, rpi)
         /\ Tokens(NoTokens, Zeros, Zeros, Zeros, PairZeros, PairZeros, Nothing, Zeros, Zeros, PairZeros,
                   iwo, rpi, c)
<1>1. /\ Zeros \in [Eps -> Nat] /\ PairZeros \in [Pairs -> Nat] /\ Nothing \in [Eps -> SUBSET Vals]
      /\ \A d \in Eps : Zeros[d] = 0
      /\ \A sd \in Pairs : PairZeros[sd] = 0
  BY DEF Zeros, PairZeros, Nothing
<1>2. NoTokens \in TokenQueues /\ \A q \in Queues : NoTokens[q] = <<>>
  BY DEF NoTokens, TokenQueues
<1>3. \A ch : Ranged(<<>>, ch, 0, 0) /\ Dense(<<>>, ch, 0, 0)
  BY DEF Ranged, Dense
<1>4. /\ \A e \in Eps : /\ WireOf(Nic(e)) \in Queues /\ TmOf(Nic(e)) \in Queues
                        /\ TmOf(Lpbk(e)) \in Queues
      /\ \A e, d \in Eps : SrcDst(e, d) \in Pairs
  BY QueueNames, PairIds
<1>5. ReqWin(NoTokens, Zeros, Zeros, Zeros)
  BY <1>1, <1>2, <1>3, <1>4 DEF ReqWin
<1>6. ReadWin(NoTokens, PairZeros, PairZeros, PairZeros, c)
  BY <1>1, <1>2, <1>3, <1>4 DEF ReadWin
<1>7. WriteWin(NoTokens, Zeros, Zeros)
  BY <1>1, <1>2, <1>3, <1>4 DEF WriteWin
<1>8. Apart(NoTokens)
  BY <1>2 DEF Apart
<1>9. AllIn(NoTokens, Good(Zeros, Zeros, iwo, rpi, Nothing, c))
  BY <1>2 DEF AllIn
<1>10. Counts(NoTokens, PairZeros, Zeros, Zeros)
  <2>1. ASSUME NEW d \in Eps, NEW X, X \subseteq ValsFrom(d)
        PROVE  0 + Cardinality(X) <= NPost * NItem
    <3>1. IsFiniteSet(ValsFrom(d)) /\ Cardinality(ValsFrom(d)) <= NPost * NItem
      BY ValsCount
    <3>2. IsFiniteSet(X) /\ Cardinality(X) <= Cardinality(ValsFrom(d))
      BY <2>1, <3>1, FS_Subset
    <3>3. Cardinality(X) \in Nat /\ Cardinality(ValsFrom(d)) \in Nat /\ NPost \in Nat /\ NItem \in Nat
      BY <3>1, <3>2, FS_CardinalityType, Constants
    <3> PICK n : n = NPost * NItem
      OBVIOUS
    <3>4. n \in Nat
      BY <3>3
    <3> QED
      BY <3>1, <3>2, <3>3, <3>4
  <2>2. \A d \in Eps : Unread(NoTokens, Zeros, d) \subseteq ValsFrom(d)
                       /\ Unwritten(NoTokens, Zeros, d) \subseteq ValsFrom(d)
    BY DEF Unread, Unwritten
  <2>3. ASSUME NEW d \in Eps
        PROVE  /\ \A e \in Eps : PairZeros[SrcDst(e, d)] + Cardinality(Unread(NoTokens, Zeros, d)) <= NPost * NItem
               /\ Zeros[d] + Cardinality(Unwritten(NoTokens, Zeros, d)) <= NPost * NItem
    BY <1>1, <1>4, <2>1, <2>2
  <2> QED
    BY <2>3 DEF Counts
<1>11. Numbers(Zeros, Zeros, Zeros, PairZeros, PairZeros, Nothing, Zeros, Zeros, PairZeros, iwo, rpi)
  BY <1>1 DEF Numbers
<1> QED
  BY <1>2, <1>5, <1>6, <1>7, <1>8, <1>9, <1>10, <1>11 DEF Tokens

\* Registers that have been set again.
LEMMA FreshRegisters ==
  ASSUME NEW S \in Int, NEW uda, NEW ur, NEW c
  PROVE  /\ Registers(Ones, Zeros, PairZeros, PairZeros)
         /\ NicStates(Zeros, Zeros, 0, S, FALSE, Zeros)
         /\ Buffers(Zeros, uda, S) /\ Memory(Nothing, Nothing, Zeros, Zeros, S)
         /\ Gap(Zeros, Zeros, 0) /\ Up(Ones, Zeros, PairZeros, PairZeros, PairZeros, PairZeros, Zeros)
         /\ Clean(c, Ones) /\ One(Zeros, Nothing, Zeros, ur, Zeros)
<1>1. /\ Zeros \in [Eps -> Nat] /\ PairZeros \in [Pairs -> Nat] /\ Ones \in [Eps -> {0, 1}]
      /\ \A d \in Eps : Zeros[d] = 0 /\ Ones[d] = 1 /\ Nothing[d] = {}
  BY DEF Zeros, PairZeros, Nothing, Ones
<1>2. NPost \in Nat /\ NItem \in Nat /\ \A j \in Posts : j \in Nat
  BY Constants
<1>3. Registers(Ones, Zeros, PairZeros, PairZeros) /\ NicStates(Zeros, Zeros, 0, S, FALSE, Zeros)
  BY <1>1, <1>2 DEF Registers, NicStates
<1>4. Buffers(Zeros, uda, S)
  BY <1>1, <1>2 DEF Buffers
<1>5. Memory(Nothing, Nothing, Zeros, Zeros, S)
  <2>1. Cardinality({}) = 0
    BY FS_EmptySet
  <2>2. Nothing = [d \in Eps |-> {ElementOf(S, v) : v \in Nothing[d]}]
    BY DEF Nothing
  <2> QED
    BY <1>1, <2>1, <2>2 DEF Memory
<1>6. Gap(Zeros, Zeros, 0)
  BY <1>1 DEF Gap
<1>7. Up(Ones, Zeros, PairZeros, PairZeros, PairZeros, PairZeros, Zeros)
  BY DEF Up
<1>8. Clean(c, Ones)
  BY <1>1 DEF Clean
<1>9. One(Zeros, Nothing, Zeros, ur, Zeros)
  BY <1>1, <1>2 DEF One
<1> QED
  BY <1>3, <1>4, <1>5, <1>6, <1>7, <1>8, <1>9

\* Registers that start from PSN 0.
LEMMA FreshUnack ==
  ASSUME OnePacket
  PROVE  [d \in Eps |-> Wrap16(Psn0 * Pow2(SHL_UNIT_SHIFT))] \in [Eps -> {0, Wrap16(Pow2(SHL_UNIT_SHIFT))}]
<1> PICK P, k : P = Pow2(SHL_UNIT_SHIFT) /\ k = 2^16
  OBVIOUS
<1>1. P \in Nat
  BY Sizes
<1>2. Psn0 * P = 0
  BY <1>1 DEF OnePacket
<1>3. k \in Nat \ {0}
  <2>1. 2^16 = 65536
    OBVIOUS
  <2> QED
    BY <2>1
<1>4. 0 % k = 0
  BY <1>3
<1>5. Wrap16(Psn0 * P) = 0
  BY <1>2, <1>4 DEF Wrap16
<1> QED
  BY <1>5

\* Empty queues.
LEMMA EmptyShapes ==
  ASSUME NEW w \in [Ports -> Seq(Packet)], NEW m \in [Ports -> Seq(Entry)], NEW S,
         \A port \in Ports : w[port] = <<>> /\ m[port] = <<>>
  PROVE  Shapes(w, m, S, NoTokens)
<1>1. NoTokens \in TokenQueues /\ \A q \in Queues : NoTokens[q] = <<>>
  BY DEF NoTokens, TokenQueues
<1>2. \A RR : Paired(<<>>, <<>>, RR)
  BY DEF Paired
<1>3. \A port \in Ports : WireOf(port) \in Queues /\ TmOf(port) \in Queues
  BY QueueNames
<1> QED
  BY <1>1, <1>2, <1>3 DEF Shapes

\* The invariant holds at first.
LEMMA StepInit ==
  ASSUME OnePacket, Init
  PROVE  IInv
<1>1. /\ endp_state = Ones /\ write_psn = Zeros /\ req_epsn = Zeros /\ sent = Zeros /\ unacked = Zeros
      /\ write_epsn = Zeros /\ read_unack_psn = PairZeros /\ read_psn = PairZeros /\ read_epsn = PairZeros
      /\ written = Nothing /\ lost = 0 /\ session = 1 /\ full = FALSE
  BY DEF Init, PipelineInit, OnePacket, Ones, Zeros, PairZeros, Nothing
<1>2. item_write_offset \in [Items -> Int] /\ read_psn_to_item \in [ReadSlots -> Int] /\ session \in Int
  BY DEF Init, PipelineInit
<1>3. UnitRegisters(write_psn_to_unit, req_unack_unit, unit_dst_addr, unit_remain, unit_req_psn)
  <2>1. req_unack_unit \in [Eps -> {0, Wrap16(Pow2(SHL_UNIT_SHIFT))}]
    BY FreshUnack DEF Init, PipelineInit
  <2>2. /\ write_psn_to_unit \in [WriteSlots -> {0}] /\ unit_dst_addr \in [Units -> Int]
        /\ unit_remain \in [Units -> Int] /\ unit_req_psn \in [Units -> Nat]
    BY DEF Init, PipelineInit
  <2> QED
    BY <2>1, <2>2 DEF UnitRegisters
<1>4. Shapes(wire, tm, session, NoTokens)
  <2>1. /\ wire \in [Ports -> Seq(Packet)] /\ tm \in [Ports -> Seq(Entry)]
        /\ \A port \in Ports : wire[port] = <<>> /\ tm[port] = <<>>
    BY DEF Init, PipelineInit
  <2> QED
    BY <2>1, EmptyShapes
<1>5. Inv(NoTokens, Zeros, Zeros, Zeros, PairZeros, PairZeros, Nothing)
  <2>1. /\ Numbers(Zeros, Zeros, Zeros, PairZeros, PairZeros, Nothing, sent, req_epsn, read_epsn,
                   item_write_offset, read_psn_to_item)
        /\ Tokens(NoTokens, Zeros, Zeros, Zeros, PairZeros, PairZeros, Nothing, sent, req_epsn, read_epsn,
                  item_write_offset, read_psn_to_item, Calm(lost, full))
    BY <1>1, <1>2, FreshTokens
  <2>2. /\ Registers(endp_state, write_psn, read_unack_psn, read_psn)
        /\ NicStates(unacked, write_epsn, lost, session, full, sent)
        /\ Buffers(req_epsn, unit_dst_addr, session) /\ Memory(Nothing, written, sent, write_epsn, session)
        /\ Gap(Zeros, write_epsn, lost)
        /\ Up(endp_state, write_psn, read_psn, read_unack_psn, PairZeros, PairZeros, Zeros)
        /\ Clean(Calm(lost, full), endp_state) /\ One(Zeros, Nothing, req_epsn, unit_remain, unacked)
    BY <1>1, <1>2, FreshRegisters
  <2> QED
    BY <1>3, <1>4, <2>1, <2>2 DEF Inv
<1> QED
  BY <1>5 DEF IInv

\* The next session starts from empty queues; rings, offsets and buffers are
\* those of the last one.
LEMMA StepNewSession ==
  ASSUME OnePacket, NEW T, NEW K, NEW L, NEW W, NEW R, NEW U, NEW D, Inv(T, K, L, W, R, U, D), NewSession
  PROVE  IInv'
<1>1. /\ Numbers(K, L, W, R, U, D, sent, req_epsn, read_epsn, item_write_offset, read_psn_to_item)
      /\ Shapes(wire, tm, session, T)
      /\ UnitRegisters(write_psn_to_unit, req_unack_unit, unit_dst_addr, unit_remain, unit_req_psn)
      /\ NicStates(unacked, write_epsn, lost, session, full, sent)
  BY DEF Inv
<1>2. /\ endp_state' = Ones /\ write_psn' = Zeros /\ req_epsn' = Zeros /\ sent' = Zeros /\ unacked' = Zeros
      /\ write_epsn' = Zeros /\ read_unack_psn' = PairZeros /\ read_psn' = PairZeros
      /\ read_epsn' = PairZeros
      /\ written' = Nothing /\ lost' = 0 /\ session' = session + 1 /\ full' = FALSE
  BY DEF NewSession, InitRegisters, OnePacket, Ones, Zeros, PairZeros, Nothing
<1>3. UNCHANGED <<wire, tm, read_psn_to_item, item_write_offset, write_psn_to_unit, unit_req_psn,
                  unit_dst_addr, unit_remain>>
  BY DEF NewSession, InitRegisters, unitRegs
<1>4. item_write_offset' \in [Items -> Int] /\ read_psn_to_item' \in [ReadSlots -> Int] /\ session' \in Int
  BY <1>1, <1>2, <1>3 DEF Numbers, NicStates
<1>5. UnitRegisters(write_psn_to_unit', req_unack_unit', unit_dst_addr', unit_remain', unit_req_psn')
  <2>1. req_unack_unit' \in [Eps -> {0, Wrap16(Pow2(SHL_UNIT_SHIFT))}]
    BY FreshUnack DEF NewSession, InitRegisters
  <2> QED
    BY <1>1, <1>3, <2>1 DEF UnitRegisters
<1>6. Shapes(wire', tm', session', NoTokens)
  <2>1. /\ wire \in [Ports -> Seq(Packet)] /\ tm \in [Ports -> Seq(Entry)]
        /\ \A port \in Ports : wire[port] = <<>> /\ tm[port] = <<>>
    BY <1>1 DEF NewSession, Idle, Shapes
  <2> QED
    BY <1>3, <2>1, EmptyShapes
<1>7. Inv(NoTokens, Zeros, Zeros, Zeros, PairZeros, PairZeros, Nothing)'
  <2>1. /\ Numbers(Zeros, Zeros, Zeros, PairZeros, PairZeros, Nothing, sent', req_epsn', read_epsn',
                   item_write_offset', read_psn_to_item')
        /\ Tokens(NoTokens, Zeros, Zeros, Zeros, PairZeros, PairZeros, Nothing, sent', req_epsn', read_epsn',
                  item_write_offset', read_psn_to_item', Calm(lost', full'))
    BY <1>2, <1>4, FreshTokens
  <2>2. /\ Registers(endp_state', write_psn', read_unack_psn', read_psn')
        /\ NicStates(unacked', write_epsn', lost', session', full', sent')
        /\ Buffers(req_epsn', unit_dst_addr', session') /\ Memory(Nothing, written', sent', write_epsn', session')
        /\ Gap(Zeros, write_epsn', lost')
        /\ Up(endp_state', write_psn', read_psn', read_unack_psn', PairZeros, PairZeros, Zeros)
        /\ Clean(Calm(lost', full'), endp_state') /\ One(Zeros, Nothing, req_epsn', unit_remain', unacked')
    BY <1>2, <1>4, FreshRegisters
  <2> QED
    BY <1>5, <1>6, <2>1, <2>2 DEF Inv
<1> PICK T1, K1, R1, D1 : T1 = NoTokens /\ K1 = Zeros /\ R1 = PairZeros /\ D1 = Nothing
  OBVIOUS
<1>8. Inv(T1, K1, K1, K1, R1, R1, D1)'
  BY <1>7
<1> QED
  BY <1>8 DEF IInv

-----------------------------------------------------------------------------
(* The theorems                                                            *)

\* Every step keeps it.
LEMMA StepNext ==
  ASSUME OnePacket, IInv, [Next]_vars
  PROVE  IInv'
<1> PICK T, K, L, W, R, U, D : Inv(T, K, L, W, R, U, D)
  BY DEF IInv
<1>1. ASSUME NEW e \in Eps, SendRequest(e) PROVE IInv'
  BY <1>1, StepSendRequest
<1>2. ASSUME NEW e \in Eps, Egress(e) PROVE IInv'
  <2>0. UNCHANGED session
    BY <1>2 DEF Egress
  <2>1. CASE LoopRequest(e)
    BY <2>0, <2>1, StepLoopRequest
  <2>2. CASE LoopReplica(e)
    BY <2>0, <2>2, StepLoopReplica
  <2>3. CASE SendRead(e)
    BY <2>0, <2>3, StepSendRead
  <2>4. CASE SendWrite(e)
    BY <2>0, <2>4, StepSendWrite
  <2>5. CASE SendAck(e)
    BY <2>0, <2>5, StepSendAck
  <2> QED
    BY <1>2, <2>1, <2>2, <2>3, <2>4, <2>5 DEF Egress
<1>3. ASSUME NEW e \in Eps, LoseFromNic(e) PROVE IInv'
  BY <1>3, StepLoseFromNic
<1>4. ASSUME NEW port \in Ports, Ingress(port) PROVE IInv'
  <2>0. UNCHANGED <<nicVars, session>>
    BY <1>4 DEF Ingress
  <2>1. CASE IngressRequest(port)
    BY <2>0, <2>1, StepIngressRequest
  <2>2. CASE IngressReadResponse(port)
    BY <2>0, <2>2, StepIngressReadResponse
  <2>3. CASE IngressReadNak(port)
    BY <2>0, <2>3, StepIngressReadNak
  <2>4. CASE IngressWriteAck(port)
    BY <2>0, <2>4, StepIngressWriteAck
  <2>5. CASE IngressWriteNak(port)
    BY <2>0, <2>5, StepIngressWriteNak
  <2>6. CASE IngressReplOnly(port)
    BY <2>0, <2>6, StepIngressReplOnly
  <2>7. CASE IngressReplMany(port)
    BY <2>0, <2>7, StepIngressReplMany
  <2> QED
    BY <1>4, <2>1, <2>2, <2>3, <2>4, <2>5, <2>6, <2>7 DEF Ingress
<1>5. ASSUME NewSession PROVE IInv'
  BY <1>5, StepNewSession
<1>6. ASSUME UNCHANGED vars PROVE IInv'
  <2>1. Inv(T, K, L, W, R, U, D)'
    BY <1>6 DEF Inv, vars, pipelineVars, ingressRegs, egressRegs, requestRegs, unitRegs, nicVars
  <2> QED
    BY <2>1 DEF IInv
<1> QED
  BY <1>1, <1>2, <1>3, <1>4, <1>5, <1>6 DEF Next

\* A response on the wire from a NIC is for the element its token is for.
LEMMA SlotHolds ==
  ASSUME OnePacket, NEW T, NEW K, NEW L, NEW W, NEW R, NEW U, NEW D, Inv(T, K, L, W, R, U, D)
  PROVE  ReadSlotHolds
<1>1. Shapes(wire, tm, session, T) /\ T \in TokenQueues
      /\ AllIn(T, Good(sent, req_epsn, item_write_offset, read_psn_to_item, D, Calm(lost, full)))
  BY DEF Inv, Tokens
<1> SUFFICES ASSUME NEW e \in Eps, NEW n \in DOMAIN wire[Nic(e)], wire[Nic(e)][n].op = "READ_RES_ONLY"
             PROVE  read_psn_to_item[ReadRingId(SrcDst(e, wire[Nic(e)][n].dqp[2]), wire[Nic(e)][n].psn)]
                      = ItemNumber(wire[Nic(e)][n].val)
  BY DEF ReadSlotHolds
<1> PICK q, p, t : q = WireOf(Nic(e)) /\ p = wire[Nic(e)][n] /\ t = T[q][n]
  OBVIOUS
<1>2. Nic(e) \in Ports /\ q \in Queues
  BY QueueNames
<1>3. Paired(wire[Nic(e)], T[q], WireRel(session, Nic(e))) /\ wire[Nic(e)] \in Seq(Packet)
  BY <1>1, <1>2 DEF Shapes
<1>4. n \in 1 .. Len(wire[Nic(e)]) /\ n \in 1 .. Len(T[q])
  BY <1>3 DEF Paired
<1>5. <<p, t>> \in WireRel(session, Nic(e))
  BY <1>3, <1>4 DEF Paired
<1>6. IsResponse(e, p, t)
  <2>1. \/ IsRequest(session, e, p, t) \/ IsResponse(e, p, t)
        \/ IsReadNak(e, p, t) \/ IsWriteAnswer(e, p, t)
    BY <1>5, WireNic
  <2>2. ~IsRequest(session, e, p, t) /\ ~IsReadNak(e, p, t) /\ ~IsWriteAnswer(e, p, t)
    BY DEF IsRequest, ReqPkt, IsReadNak, IsWriteAnswer
  <2> QED
    BY <2>1, <2>2
<1>7. PICK v \in Vals :
        /\ t.ch = <<"res", v[1]>> /\ t.vals = {v} /\ Source(v) = e
        /\ p.dqp = SrcQp(v[1]) /\ p.psn = t.num /\ p.val = v
  BY <1>6 DEF IsResponse
<1>8. <<q, t>> \in Good(sent, req_epsn, item_write_offset, read_psn_to_item, D, Calm(lost, full))
  BY <1>1, <1>2, <1>4 DEF AllIn
<1>9. read_psn_to_item[ReadRingId(SrcDst(Source(v), v[1]), t.num)] = ItemNumber(v)
  BY <1>7, <1>8 DEF Good
<1>10. p.dqp[2] = v[1]
  BY <1>7 DEF SrcQp
<1> QED
  BY <1>7, <1>9, <1>10

\* The element of the invariant is that of the model.
LEMMA ElementIs ==
  ASSUME NEW v
  PROVE  ElementOf(session, v) = Element(v)
BY DEF ElementOf, Element, Base

\* The invariant implies that memory is right.
LEMMA WritesRight ==
  ASSUME NEW T, NEW K, NEW L, NEW W, NEW R, NEW U, NEW D, Inv(T, K, L, W, R, U, D)
  PROVE  WriteIsRight
<1>1. Memory(D, written, sent, write_epsn, session)
  BY DEF Inv
<1> SUFFICES ASSUME NEW d \in Eps, NEW w \in written[d]
             PROVE  w = Element(w.val) /\ w.val[1] = d
  BY DEF WriteIsRight
<1>2. PICK v \in D[d] : w = ElementOf(session, v)
  BY <1>1 DEF Memory
<1>3. v[1] = d
  BY <1>1 DEF Memory, ValsFrom
<1>4. w.val = v
  BY <1>2 DEF ElementOf
<1> QED
  BY <1>2, <1>3, <1>4, ElementIs

\* ... and that an endpoint is given up only after a loss or with a full ring.
LEMMA DownLate ==
  ASSUME NEW T, NEW K, NEW L, NEW W, NEW R, NEW U, NEW D, Inv(T, K, L, W, R, U, D)
  PROVE  DownOnlyAfterLoss
<1>1. Clean(Calm(lost, full), endp_state) /\ lost \in Nat
  BY DEF Inv, NicStates
<1>2. ASSUME NEW d \in Eps, endp_state[d] = 0 PROVE lost > 0 \/ full
  BY <1>1, <1>2 DEF Clean, Calm
<1> QED
  BY <1>2 DEF DownOnlyAfterLoss

\* With one request for each endpoint.
LEMMA CompletesWritten ==
  ASSUME OnePacket, NPost <= 1,
         NEW T, NEW K, NEW L, NEW W, NEW R, NEW U, NEW D, Inv(T, K, L, W, R, U, D)
  PROVE  CompletedIsWritten
<1>1. /\ Memory(D, written, sent, write_epsn, session) /\ One(L, D, req_epsn, unit_remain, unacked)
      /\ NicStates(unacked, write_epsn, lost, session, full, sent)
      /\ Numbers(K, L, W, R, U, D, sent, req_epsn, read_epsn, item_write_offset, read_psn_to_item)
  BY DEF Inv
<1> SUFFICES ASSUME NEW d \in Eps, NEW k \in 0 .. sent[d] - 1, unacked[d] > Psn0 + k,
                    NEW n \in DOMAIN ItemsOf(d, k)
             PROVE  Element(ItemsOf(d, k)[n].val) \in written[d]
  BY DEF CompletedIsWritten
<1>2. unacked[d] \in Nat /\ sent[d] \in Nat /\ sent[d] <= NPost /\ Psn0 = 0
  BY <1>1 DEF NicStates, Numbers, OnePacket
<1>3. NPost = 1 /\ k = 0 /\ k \in Posts /\ unacked[d] > 0
  BY <1>2, Constants DEF Posts
<1>4. Cardinality(D[d]) = NItem
  BY <1>1, <1>3 DEF One
<1>5. D[d] = ValsFrom(d)
  <2>1. IsFiniteSet(ValsFrom(d)) /\ Cardinality(ValsFrom(d)) <= NPost * NItem
    BY ValsCount
  <2>2. NPost * NItem = NItem
    BY <1>3, Constants
  <2>3. D[d] \subseteq ValsFrom(d)
    BY <1>1 DEF Memory
  <2>4. Cardinality(D[d]) <= Cardinality(ValsFrom(d))
    BY <2>1, <2>3, FS_Subset
  <2>5. Cardinality(ValsFrom(d)) \in Nat
    BY <2>1, FS_CardinalityType
  <2>6. Cardinality(ValsFrom(d)) = Cardinality(D[d])
    BY <1>4, <2>1, <2>2, <2>4, <2>5, Constants
  <2> QED
    BY <2>1, <2>3, <2>6, FS_Subset
<1>6. ItemsOf(d, k)[n].val \in ValsFrom(d)
  <2>1. ItemsOf(d, k) = Cut(d, k, 0, NItem)
    BY <1>3, ItemsAre
  <2>2. n \in 1 .. NItem
    BY <2>1 DEF Cut
  <2>3. ItemsOf(d, k)[n].val = <<d, k, 0 + n - 1>>
    BY <2>1, <2>2 DEF Cut, Item
  <2>4. 0 + n - 1 \in Places
    BY <2>2, Constants DEF Places
  <2> QED
    BY <1>3, <2>3, <2>4 DEF ValsFrom, Vals
<1> PICK v : v = ItemsOf(d, k)[n].val
  OBVIOUS
<1>7. ElementOf(session, v) \in written[d]
  BY <1>1, <1>5, <1>6 DEF Memory
<1> QED
  BY <1>7, ElementIs

\* The inductive invariant holds in every state.
LEMMA Inductive ==
  ASSUME OnePacket
  PROVE  Spec => []IInv
<1>1. Init => IInv
  BY StepInit
<1>2. IInv /\ [Next]_vars => IInv'
  BY StepNext
<1> QED
  BY <1>1, <1>2, PTL DEF Spec

\* When the response of a READ is back, the slot of its PSN in read_psn_to_item
\* still names the item its element is for: no READ under way takes the slot of
\* an older one, not even the replica that finds the ring full and uses up a
\* PSN, however many endpoints, units and slots there are and whatever READs,
\* responses, WRITEs and ACKs are lost.
THEOREM FabricReadSlots == ASSUME OnePacket PROVE Spec => []ReadSlotHolds
<1>1. IInv => ReadSlotHolds
  BY SlotHolds DEF IInv
<1> QED
  BY <1>1, Inductive, PTL

\* Whatever the switch writes to memory is the element the request asked for, at
\* the place it asked for, although the address of a WRITE is put together from
\* what the passes of the request (unit_dst_addr) and of the READ
\* (item_write_offset) have left in two registers, and whatever READs,
\* responses, WRITEs and ACKs are lost on the way. With requests lost it fails.
THEOREM FabricWrites == ASSUME OnePacket PROVE Spec => []WriteIsRight
<1>1. IInv => WriteIsRight
  BY WritesRight DEF IInv
<1> QED
  BY <1>1, Inductive, PTL

\* The switch gives up an endpoint (ENDP_STATE_DOWN) only after a packet was
\* lost or its read ring was full: otherwise no NIC has a reason to send a NAK,
\* in any session, whatever the registers held that init_registers leaves.
\* (No request is lost here, which would be a gap of another kind.)
THEOREM FabricDown == ASSUME OnePacket PROVE Spec => []DownOnlyAfterLoss
<1>1. IInv => DownOnlyAfterLoss
  BY DownLate DEF IInv
<1> QED
  BY <1>1, Inductive, PTL

\* What an endpoint sees acknowledged is written, every item of it, whatever
\* READs, responses, WRITEs and ACKs are lost: the countdown of unit_remain asks
\* for the ACK with the last WRITE. For one request per session: the ACK names
\* the request in unit 0 whatever unit it is for (the run pipeline_ack), so that
\* it fails with two and a loss.
THEOREM FabricCompleted == ASSUME OnePacket, NPost <= 1 PROVE Spec => []CompletedIsWritten
<1>1. IInv => CompletedIsWritten
  BY CompletesWritten DEF IInv
<1> QED
  BY <1>1, Inductive, PTL
=============================================================================
