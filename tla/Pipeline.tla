------------------------------ MODULE Pipeline ------------------------------
(***************************************************************************)
(* One pass of a packet through the P4 switch.                             *)
(*                                                                         *)
(* Source: p4/shuffle/shuffle_ingress.p4 and shuffle_egress.p4.  Ingress   *)
(* and egress handle a packet atomically, each with registers of its own,  *)
(* and between them the packet waits in a queue of its port (tm) with the  *)
(* metadata that ingress bridges to egress.  There is one action per       *)
(* rx_case.  A register control becomes an assignment, its table of        *)
(* (acc, set, state) the guard of it.                                      *)
(***************************************************************************)
EXTENDS Tables

CONSTANT Psn0        \* ep_infos[i].psn, the same for every endpoint
ASSUME PipelineAssumption == Psn0 \in 0 .. Pow2(PsnBits) - 1

VARIABLES
  wire,              \* packets on their way into a port
  tm,                \* packets between ingress and egress of a port
  endp_state,        \* requester: 1 up, 0 after a NAK
  read_unack_psn,    \* pair: PSN after the last READ that was answered
  read_psn,          \* pair: PSN of the next READ
  read_psn_to_item,  \* slot of a READ's PSN: the item it is for
  write_psn,         \* requester: PSN of the next WRITE
  item_write_offset, \* item: where in the requester's buffer it goes
  write_psn_to_unit, \* slot of a WRITE's PSN: the unit, shifted
  req_unack_unit,    \* requester: unit to acknowledge next, shifted
  req_epsn,          \* requester: request PSN expected
  req_msn,           \* requester: messages received
  req_dst_addr,      \* requester: buffer of the last request
  unit_req_psn, unit_req_msn, unit_dst_addr, unit_remain,
  full               \* history: a replica met a full read ring

ingressRegs == <<endp_state, read_unack_psn, read_psn, read_psn_to_item, write_psn>>
unitRegs == <<unit_req_psn, unit_req_msn, unit_dst_addr, unit_remain>>
requestRegs == <<req_epsn, req_msn, req_dst_addr>>
egressRegs == <<item_write_offset, write_psn_to_unit, req_unack_unit, requestRegs, unitRegs>>
pipelineVars == <<wire, tm, ingressRegs, egressRegs, full>>

\* The values of init_registers(); the other registers are zero at start-up.
PipelineInit ==
  /\ endp_state = [d \in Eps |-> 1]
  /\ req_msn = [d \in Eps |-> 0]
  /\ write_psn = [d \in Eps |-> Psn0]
  /\ req_epsn = [d \in Eps |-> Psn0]
  /\ req_unack_unit = [d \in Eps |-> Wrap16(Psn0 * Pow2(SHL_UNIT_SHIFT))]
  /\ read_unack_psn = [sd \in Pairs |-> Psn0]
  /\ read_psn = [sd \in Pairs |-> Psn0]
  /\ read_psn_to_item = [s \in ReadSlots |-> 0]
  /\ write_psn_to_unit = [s \in WriteSlots |-> 0]
  /\ item_write_offset = [i \in Items |-> 0]
  /\ req_dst_addr = [d \in Eps |-> 0]
  /\ unit_req_psn = [u \in Units |-> 0]
  /\ unit_req_msn = [u \in Units |-> 0]
  /\ unit_dst_addr = [u \in Units |-> 0]
  /\ unit_remain = [u \in Units |-> 0]
  /\ wire = [p \in Ports |-> <<>>]
  /\ tm = [p \in Ports |-> <<>>]
  /\ full = FALSE

\* Mutant: an endpoint that is down stays so.
InitRegistersButState ==
  /\ req_msn' = [d \in Eps |-> 0]
  /\ write_psn' = [d \in Eps |-> Psn0]
  /\ req_epsn' = [d \in Eps |-> Psn0]
  /\ req_unack_unit' = [d \in Eps |-> Wrap16(Psn0 * Pow2(SHL_UNIT_SHIFT))]
  /\ read_unack_psn' = [sd \in Pairs |-> Psn0]
  /\ read_psn' = [sd \in Pairs |-> Psn0]
  /\ UNCHANGED <<endp_state, read_psn_to_item, item_write_offset, write_psn_to_unit, req_dst_addr, unitRegs>>

\* init_registers() for another session: rings, units, offsets and buffers
\* stay as the last one has left them.
InitRegisters ==
  /\ endp_state' = [d \in Eps |-> 1]
  /\ req_msn' = [d \in Eps |-> 0]
  /\ write_psn' = [d \in Eps |-> Psn0]
  /\ req_epsn' = [d \in Eps |-> Psn0]
  /\ req_unack_unit' = [d \in Eps |-> Wrap16(Psn0 * Pow2(SHL_UNIT_SHIFT))]
  /\ read_unack_psn' = [sd \in Pairs |-> Psn0]
  /\ read_psn' = [sd \in Pairs |-> Psn0]
  /\ UNCHANGED <<read_psn_to_item, item_write_offset, write_psn_to_unit, req_dst_addr, unitRegs>>

-----------------------------------------------------------------------------
(* Ingress                                                                 *)

Received(port) == wire' = [wire EXCEPT ![port] = Tail(@)]
Queue(port, entries) == tm' = [tm EXCEPT ![port] = @ \o entries]

\* The header that carries the metadata of a pass to egress.
Bridge(rx, flag, dst, unit, item, cnt, pkt) ==
  [kind |-> "bridge", rx |-> rx, flag |-> flag, dst |-> dst,
   unit |-> unit, item |-> item, cnt |-> cnt, pkt |-> pkt]

Arrives(port, rx) ==
  /\ wire[port] # <<>>
  /\ Head(wire[port]).op # "REPL"
  /\ RoceCase(Head(wire[port])).rx = rx

\* The flags of rx_request_first, _middle, _last and _only.
RequestFlags(op) ==
  {"UNIT_DST_ADDR_SET", "UNIT_REQ_PSN_SET", "UNIT_REQ_MSN_SET",
   "UNIT_REMAIN_ACC", "UNIT_REMAIN_SET", "REQ_EPSN_ACC"}
  \cup (IF op \in {"WRITE_FIRST", "WRITE_ONLY"} THEN {"REQ_DST_ADDR_SET"} ELSE {})
  \cup (IF op \in {"WRITE_LAST", "WRITE_ONLY"} THEN {"REQ_MSN_INC"} ELSE {})

\* A request goes round to be classified in egress.
IngressRequest(port) ==
  LET p == Head(wire[port])
      d == RoceCase(p).dst
  IN  /\ Arrives(port, "request")
      /\ Received(port)
      /\ Queue(LoopbackPort(p.smac),
               <<Bridge("request", RequestFlags(p.op), d, UnitIdFromDst(d, p.psn),
                        ItemIdFromDst(d, p.psn), ItemCnt(p), p)>>)
      /\ UNCHANGED <<ingressRegs, egressRegs, full>>

\* tx_dst_write_action
WriteOfResponse(p, dst) == ToDst(dst, [p EXCEPT !.op = "WRITE_ONLY", !.psn = write_psn[dst]])

\* A response becomes a WRITE, unless the requester is down.
IngressReadResponse(port) ==
  LET p == Head(wire[port])
      c == RoceCase(p)
      item == read_psn_to_item[ReadRingId(c.pair, p.psn)]
  IN  /\ Arrives(port, "read_response")
      /\ Received(port)
      /\ read_unack_psn' = [read_unack_psn EXCEPT ![c.pair] = Wrap(p.psn + 1)]
      /\ \/ /\ endp_state[c.dst] = 1
            /\ write_psn' = [write_psn EXCEPT ![c.dst] = Wrap(@ + 1)]
            /\ Queue(Nic(c.dst),
                     <<Bridge("read_response", {"UNIT_REMAIN_ACC", "WRITE_PSN_TO_UNIT_SET"},
                              c.dst, UnitIdFromItem(item), item, 0, WriteOfResponse(p, c.dst))>>)
         \/ /\ endp_state[c.dst] = 0
            /\ UNCHANGED <<write_psn, tm>>
      /\ UNCHANGED <<endp_state, read_psn, read_psn_to_item, egressRegs, full>>

\* Any ACK for the queue pair of a source counts as a NAK.
IngressReadNak(port) ==
  LET p == Head(wire[port])
      c == RoceCase(p)
  IN  /\ Arrives(port, "read_nak")
      /\ Received(port)
      /\ endp_state' = [endp_state EXCEPT ![c.dst] = 0]
      /\ read_unack_psn' = [read_unack_psn EXCEPT ![c.pair] = p.psn]
      /\ read_psn' = [read_psn EXCEPT ![c.pair] = p.psn]
      /\ UNCHANGED <<tm, read_psn_to_item, write_psn, egressRegs, full>>

IngressWriteAck(port) ==
  LET p == Head(wire[port])
      d == RoceCase(p).dst
  IN  /\ Arrives(port, "write_ack") /\ ~p.nak
      /\ Received(port)
      /\ Queue(Nic(d), <<Bridge("write_ack", {"REQ_UNACK_UNIT_SET"}, d, UnitIdFromDst(d, p.psn),
                                ItemIdFromDst(d, p.psn), 0, ToReq(d, p))>>)
      /\ UNCHANGED <<ingressRegs, egressRegs, full>>

IngressWriteNak(port) ==
  LET p == Head(wire[port])
      d == RoceCase(p).dst
  IN  /\ Arrives(port, "write_ack") /\ p.nak
      /\ Received(port)
      /\ endp_state' = [endp_state EXCEPT ![d] = 0]
      /\ write_psn' = [write_psn EXCEPT ![d] = p.psn]
      /\ UNCHANGED <<tm, read_unack_psn, read_psn, read_psn_to_item, egressRegs, full>>

\* tx_src_read_action
ReadOfReplica(p, dst, psn) ==
  ToSrc(Head(p.items).src, dst, [p EXCEPT !.psn = psn, !.repl.flag = FALSE])

\* A replica with one item takes a PSN and a slot and becomes a READ.  The
\* PSN is taken before the test for room; without room the replica is gone.
IngressReplOnly(port) ==
  LET p == Head(wire[port])
      c == ReplOnly(p)
      up == p.repl.flag \/ endp_state[c.dst] = 1
      psn == read_psn[c.pair]
      room == ~ReadRingFull(Wrap(psn - read_unack_psn[c.pair]))
  IN  /\ wire[port] # <<>> /\ p.op = "REPL" /\ p.repl.cnt = 1
      /\ Received(port)
      /\ endp_state' = [endp_state EXCEPT ![c.dst] = IF p.repl.flag THEN 1 ELSE @]
      /\ read_psn' = IF up THEN [read_psn EXCEPT ![c.pair] = Wrap(@ + 1)] ELSE read_psn
      /\ \/ /\ up /\ room
            /\ read_psn_to_item' = [read_psn_to_item EXCEPT ![ReadRingId(c.pair, psn)] = p.repl.id]
            /\ Queue(Nic(Head(p.items).src),
                     <<Bridge("repl_only", {"ITEM_WRITE_OFFSET_SET"}, c.dst, 0, p.repl.id, 1,
                              ReadOfReplica(p, c.dst, psn))>>)
            /\ full' = full
         \/ /\ ~(up /\ room)
            /\ full' = (full \/ up)
            /\ UNCHANGED <<tm, read_psn_to_item>>
      /\ UNCHANGED <<read_unack_psn, write_psn, egressRegs>>

\* Mutant: the rest keeps the number of the item that was cut off.
WithoutFirstKeepsId(p) ==
  [p EXCEPT !.items = Tail(@),
            !.repl = [flag |-> FALSE, cnt |-> Wrap8(@.cnt - 1), id |-> @.id]]

\* The replica without its first item, and the mirror copy with it.
WithoutFirst(p) ==
  [p EXCEPT !.items = Tail(@),
            !.repl = [flag |-> FALSE, cnt |-> Wrap8(@.cnt - 1), id |-> @.id + 1]]

\* A replica with several items is cut in two.  No table has set dst_id, so
\* that the state that a flag sets is that of endpoint 0.
IngressReplMany(port) ==
  LET p == Head(wire[port])
      rest == [kind |-> "bypass", pkt |-> WithoutFirst(p)]
      first == [kind |-> "mirror", pkt |-> p]
  IN  /\ wire[port] # <<>> /\ p.op = "REPL" /\ p.repl.cnt # 1
      /\ Received(port)
      /\ endp_state' = [endp_state EXCEPT ![0] = IF p.repl.flag THEN 1 ELSE @]
      /\ \/ Queue(MirrorPort(p.smac), <<rest, first>>)
         \/ Queue(MirrorPort(p.smac), <<first, rest>>)
      /\ UNCHANGED <<read_unack_psn, read_psn, read_psn_to_item, write_psn, egressRegs, full>>

-----------------------------------------------------------------------------
(* Egress.  Each operator takes the head b of a queue of tm, says how the  *)
(* registers change, and leaves tm and wire to the caller.                 *)

\* None of the tests of the bridged flags reads WRITE_PSN_TO_UNIT_SET.
WritePsnToUnitSet(b) == FALSE

\* shl_unit_id, before and after write_psn_to_unit has replaced it.
Shl(b) ==
  IF WritePsnToUnitSet(b)
  THEN Wrap16(b.unit * Pow2(SHL_UNIT_SHIFT))
  ELSE write_psn_to_unit[WriteRingId(b.dst, b.pkt.psn)]

WritePsnToUnit(b) ==
  write_psn_to_unit' = [write_psn_to_unit EXCEPT ![WriteRingId(b.dst, b.pkt.psn)] = Shl(b)]

\* What request_case_tbl makes of a request, and the flags it leaves.
CaseOf(b) ==
  RequestCase(Wrap(req_epsn[b.dst] - b.pkt.psn), Wrap16(req_unack_unit[b.dst] - Shl(b)))

FlagsLeft(b) ==
  LET requestFlags == {"REQ_MSN_INC", "REQ_DST_ADDR_SET", "UNIT_REQ_PSN_SET",
                       "UNIT_REQ_MSN_SET", "UNIT_DST_ADDR_SET"}
  IN  CASE CaseOf(b) = "correct" -> b.flag
        [] CaseOf(b) = "retry" -> b.flag \ requestFlags
        [] OTHER -> b.flag \ (requestFlags \cup {"UNIT_REMAIN_ACC"})

EgressRequest(b) ==
  LET d == b.dst
      u == b.unit
      flag == FlagsLeft(b)
      msn == IF "REQ_MSN_INC" \in flag THEN Wrap(req_msn[d] + 1) ELSE req_msn[d]
      Set(f, reg, i, val) == IF f \in flag THEN [reg EXCEPT ![i] = val] ELSE reg
  IN  /\ WritePsnToUnit(b)
      /\ req_epsn' = [req_epsn EXCEPT ![d] = IF @ = b.pkt.psn THEN Wrap(@ + 1) ELSE @]
      /\ req_msn' = [req_msn EXCEPT ![d] = msn]
      /\ req_dst_addr' = Set("REQ_DST_ADDR_SET", req_dst_addr, d, b.pkt.addr)
      /\ unit_req_psn' = Set("UNIT_REQ_PSN_SET", unit_req_psn, u, b.pkt.psn)
      /\ unit_req_msn' = Set("UNIT_REQ_MSN_SET", unit_req_msn, u, msn)
      /\ unit_dst_addr' = Set("UNIT_DST_ADDR_SET", unit_dst_addr, u, b.pkt.addr)
      /\ unit_remain' = Set("UNIT_REMAIN_ACC", unit_remain, u, b.cnt)
      /\ UNCHANGED <<ingressRegs, full, item_write_offset, req_unack_unit>>

\* Whatever the case was, the request comes out as a replica.
ReplOf(b) ==
  [b.pkt EXCEPT !.op = "REPL", !.addr = 0,
                !.repl = [flag |-> CaseOf(b) = "retry", cnt |-> b.cnt, id |-> b.item]]

EgressRead(b) ==
  /\ WritePsnToUnit(b)
  /\ item_write_offset' = [item_write_offset EXCEPT ![b.item] = Head(b.pkt.items).off]
  /\ UNCHANGED <<ingressRegs, full, req_unack_unit, requestRegs, unitRegs>>

ReadOf(b) ==
  [b.pkt EXCEPT !.op = "READ_REQ", !.val = Head(b.pkt.items).val, !.items = <<>>]

EgressWrite(b) ==
  /\ WritePsnToUnit(b)
  /\ unit_remain' = [unit_remain EXCEPT ![b.unit] = Wrap8(@ - 1)]
  /\ UNCHANGED <<ingressRegs, full, item_write_offset, req_unack_unit, requestRegs,
                 unit_req_psn, unit_req_msn, unit_dst_addr>>

WriteOf(b) ==
  [b.pkt EXCEPT !.ackreq = (Wrap8(unit_remain[b.unit] - 1) = 0),
                !.addr = unit_dst_addr[b.unit] + item_write_offset[b.item]]

EgressWriteAck(b) ==
  LET shl == Shl(b)
  IN  /\ WritePsnToUnit(b)
      /\ req_unack_unit' = [req_unack_unit EXCEPT
           ![b.dst] = IF @ = shl THEN Wrap16(@ + Pow2(SHL_UNIT_SHIFT)) ELSE @]
      /\ UNCHANGED <<ingressRegs, full, item_write_offset, requestRegs, unitRegs>>

AckOf(b) ==
  [b.pkt EXCEPT !.psn = unit_req_psn[UnitIdFromShl(Shl(b))],
                !.msn = unit_req_msn[UnitIdFromShl(Shl(b))]]

\* A mirror copy gets a header for its one item, the rest passes as it is.
CopyOf(b) ==
  IF b.kind = "mirror"
  THEN [b.pkt EXCEPT !.items = <<Head(@)>>, !.repl.flag = FALSE, !.repl.cnt = 1]
  ELSE b.pkt
=============================================================================
