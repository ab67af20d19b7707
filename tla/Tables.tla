------------------------------- MODULE Tables -------------------------------
(***************************************************************************)
(* What the driver puts into the tables of the P4 switch, and the packets  *)
(* they classify.                                                          *)
(*                                                                         *)
(* Source: switchd/shuffle_drv.hpp, with the sizes of common/types.h and   *)
(* p4/shuffle/shuffle_header.p4.  A table is an operator from its key to   *)
(* the action data; MAC addresses, QP numbers, ports and mirror sessions,  *)
(* which only name an endpoint or one of its queue pairs, are records and  *)
(* pairs that do the same.                                                 *)
(***************************************************************************)
EXTENDS Integers, SequencesExt

CONSTANTS
  NEp,             \* n_ep, the endpoints of the session
  EndpShift,       \* ENDP_SHIFT, UNIT_SHIFT, ITEM_SHIFT: bits of an
  UnitShift,       \*   endpoint's, of a unit's and of an item's number
  ItemShift,
  ReadRingShift,   \* READ_RING_SHIFT, WRITE_RING_SHIFT: bits of a PSN that
  WriteRingShift,  \*   choose a slot
  PsnBits,         \* bits of a PSN in a packet (24) and
  RegBits          \*   in a register (32)

\* 1 << n
Pow2(n) ==
  LET shl[i \in 0 .. n] == IF i = 0 THEN 1 ELSE 2 * shl[i - 1]
  IN  shl[n]

MAX_NUM_ENDP == Pow2(EndpShift)
UNIT_PER_ENDP == Pow2(UnitShift)
ITEM_PER_UNIT == Pow2(ItemShift)
READ_RING_SIZE == Pow2(ReadRingShift)
WRITE_RING_SIZE == Pow2(WriteRingShift)
SHL_UNIT_SHIFT == 16 - EndpShift - UnitShift

ASSUME TablesAssumption ==
  /\ EndpShift \in Nat /\ UnitShift \in Nat /\ ItemShift \in Nat
  /\ EndpShift + UnitShift < 16
  /\ ReadRingShift \in Nat /\ WriteRingShift \in Nat
  /\ NEp \in 1 .. MAX_NUM_ENDP
  /\ PsnBits \in Nat /\ RegBits \in Nat /\ UnitShift < PsnBits /\ PsnBits < RegBits

Eps == 0 .. NEp - 1
Pairs == 0 .. NEp * NEp - 1                    \* values of src_dst_id
Units == 0 .. MAX_NUM_ENDP * UNIT_PER_ENDP - 1
Items == 0 .. MAX_NUM_ENDP * UNIT_PER_ENDP * ITEM_PER_UNIT - 1
ReadSlots == 0 .. MAX_NUM_ENDP * MAX_NUM_ENDP * READ_RING_SIZE - 1
WriteSlots == 0 .. MAX_NUM_ENDP * WRITE_RING_SIZE - 1

\* Registers and metadata wrap around; a Psn is 32 bits wide in both.
Wrap(n) == n % Pow2(RegBits)
Wrap16(n) == n % 2^16
Wrap8(n) == n % 2^8

SrcDst(src, dst) == src * NEp + dst

-----------------------------------------------------------------------------
(* Ports, and the QPs behind the table's qpn's                             *)

Nic(e) == <<"nic", e>>
Lpbk(e) == <<"lpbk", e>>
NicPorts == {Nic(e) : e \in Eps}
LpbkPorts == {Lpbk(e) : e \in Eps}
Ports == NicPorts \cup LpbkPorts

\* The queue pairs an endpoint has with the switch.
ReqQp == <<"req", 0>>
DstQp == <<"dst", 0>>
SrcQp(dst) == <<"src", dst>>

\* Both loopback tables, and the mirror session, lead to one port.
LoopbackPort(smac) == Lpbk(smac)
MirrorPort(smac) == Lpbk(smac)

\* The header rewriting of tx_req_ack, tx_dst_write and tx_src_read.
ToReq(dst, pkt) == [pkt EXCEPT !.dqp = ReqQp]
ToDst(dst, pkt) == [pkt EXCEPT !.dqp = DstQp]
ToSrc(src, dst, pkt) == [pkt EXCEPT !.dqp = SrcQp(dst)]

-----------------------------------------------------------------------------
(* Classification                                                          *)

RequestOps == {"WRITE_FIRST", "WRITE_MIDDLE", "WRITE_LAST", "WRITE_ONLY"}

\* rx_repl_only_tbl: the requester by MAC, the source from the item.
ReplOnly(pkt) ==
  [dst |-> pkt.smac, pair |-> SrcDst(Head(pkt.items).src, pkt.smac)]

\* roce_case_tbl: action and parameters for a packet that is not a replica.
RoceCase(pkt) ==
  LET Requester(rx) == [rx |-> rx, dst |-> pkt.smac, pair |-> 0]
      Source(rx) == [rx |-> rx, dst |-> pkt.dqp[2], pair |-> SrcDst(pkt.smac, pkt.dqp[2])]
  IN  CASE pkt.dqp = ReqQp /\ pkt.op \in RequestOps -> Requester("request")
        [] pkt.dqp = DstQp /\ pkt.op = "ACK" -> Requester("write_ack")
        [] pkt.dqp[1] = "src" /\ pkt.op = "READ_RES_ONLY" -> Source("read_response")
        [] pkt.dqp[1] = "src" /\ pkt.op = "ACK" -> Source("read_nak")
        [] OTHER -> [rx |-> "bypass", dst |-> 0, pair |-> 0]

\* Mutant: the lengths in the table are those of one item more.
ItemCntShort(pkt) == Len(pkt.items) - 1

\* get_item_cnt_tbl finds the number of items from the length of the packet.
ItemCnt(pkt) == Len(pkt.items)

\* get_unit_id_from_dst_tbl
UnitIdFromDst(dst, psn) == (dst * UNIT_PER_ENDP) + (psn % UNIT_PER_ENDP)
ItemIdFromDst(dst, psn) == UnitIdFromDst(dst, psn) * ITEM_PER_UNIT

\* get_unit_id_from_item_tbl
UnitIdFromItem(item) == item \div ITEM_PER_UNIT

\* get_unit_id_from_shl_tbl
UnitIdFromShl(shl) == shl \div Pow2(SHL_UNIT_SHIFT)

\* get_read_ring_id_tbl, get_write_ring_id_tbl
ReadRingId(pair, psn) == (pair * READ_RING_SIZE) + (psn % READ_RING_SIZE)
WriteRingId(dst, psn) == (dst * WRITE_RING_SIZE) + (psn % WRITE_RING_SIZE)

\* Mutant: the test starts one bit too high.
ReadRingFullLate(sub) == sub \div (2 * READ_RING_SIZE) # 0

\* check_read_ring_tbl: any bit of the difference at or above the shift.
ReadRingFull(sub) == sub \div READ_RING_SIZE # 0

\* request_case_tbl, its entries in the order of their priorities.
RequestCase(epsn_minus_psn, unack_unit_out) ==
  LET behind == epsn_minus_psn % Pow2(PsnBits)
      i == epsn_minus_psn % UNIT_PER_ENDP
      Shl(j) == j * Pow2(SHL_UNIT_SHIFT)
  IN  CASE epsn_minus_psn \div Pow2(PsnBits) = Pow2(RegBits - PsnBits) - 1 -> "out_of_order"
        [] behind \div UNIT_PER_ENDP # 0 -> "duplicate"
        [] \E j \in 0 .. UNIT_PER_ENDP - 1 :
             /\ unack_unit_out = Shl(j)
             /\ i > (i + j) % UNIT_PER_ENDP -> "duplicate"
        [] unack_unit_out = Shl(UNIT_PER_ENDP - 1) -> "run_out_of_unit"
        [] epsn_minus_psn = 0 -> "correct"
        [] OTHER -> "retry"
=============================================================================
