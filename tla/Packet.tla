------------------------------- MODULE Packet -------------------------------
(***************************************************************************)
(* Parameters of the shuffle simulator, the packets that endpoints and the *)
(* switch exchange, and the layout of an endpoint's memory region.         *)
(*                                                                         *)
(* Source: python/rdma.py (class Packet), python/simulator.py (parameters  *)
(* and the memory the main program prepares).                              *)
(***************************************************************************)
EXTENDS Integers, Sequences

CONSTANTS
  SeNum,         (* se_num: number of shuffle endpoints                    *)
  SuPSe,         (* su_p_se: shuffle units per endpoint in the switch      *)
  PsnRingSize,   (* psn_ring_size: slots that remember a READ's item       *)
  McastGrpSize,  (* mcast_grp_size: items one multicast can split off      *)
  ReqMtu,        (* mtu of the request QP: items per request packet        *)
  EleNum,        (* ele_num: elements, and descriptors, per endpoint       *)
  SReqMsgSize,   (* sreq_msg_size: descriptors per work request            *)
  MaxRetry       (* the retry count at which simulate() gives up           *)

ASSUME ParamAssumption ==
  /\ SeNum \in Nat \ {0}
  /\ SuPSe \in Nat \ {0}
  /\ PsnRingSize \in Nat \ {0}
  /\ McastGrpSize \in Nat \ {0}
  /\ ReqMtu \in Nat \ {0}
  /\ EleNum \in Nat \ {0}
  /\ SReqMsgSize \in Nat \ {0}
  /\ MaxRetry \in Nat \ {0}

Se == 0 .. SeNum - 1                   \* endpoint ids, also their MACs
Su == 0 .. SuPSe - 1                   \* shuffle unit ids of one endpoint
SwitchMac == -1                        \* dmac of everything sent to the switch

\* QP numbers: the read QP j of an endpoint serves requester j.
SReqQpn == SeNum + 1
SWriteQpn == SeNum + 2
Qps == Se \X (Se \cup {SReqQpn, SWriteQpn})
ReqQp(e) == <<e, SReqQpn>>
WriteQp(e) == <<e, SWriteQpn>>

\* dqpn that a QP puts in every packet it generates.
ToSReq == -1
ToSWrite == -2
Dqpn(q) == IF q[2] = SReqQpn THEN ToSReq
           ELSE IF q[2] = SWriteQpn THEN ToSWrite ELSE q[2]

-----------------------------------------------------------------------------
(* Memory: cells 0..EleNum-1 hold the elements, the next EleNum cells the  *)
(* descriptors (an item number stands for the tuple it identifies), the    *)
(* last EleNum cells receive what the shuffle brings in.                   *)

NoVal == -1
Addr == 0 .. 3 * EleNum - 1
Items == 0 .. EleNum - 1

\* Element se_id * ele_num + i, moved up so that no item number equals it.
Element(e, i) == (e + 1) * EleNum + i

InitBuf == [e \in Se |-> [a \in Addr |->
  IF a < EleNum THEN Element(e, a)
  ELSE IF a < 2 * EleNum THEN a - EleNum
  ELSE NoVal]]

\* The descriptor (i % se_num, 1, i % sreq_msg_size, i); its length is 1.
Item(i) == [dmac |-> i % SeNum, wr_off |-> i % SReqMsgSize, dst_addr |-> i]

-----------------------------------------------------------------------------
(* Packets. The RETH length is left out: it is 1 in every READ and WRITE   *)
(* of the switch, and nothing reads it in a request.                       *)

WriteOps == {"WRITE_FIRST", "WRITE_MIDDLE", "WRITE_LAST", "WRITE_ONLY"}
Opcodes == WriteOps \cup {"READ", "READ_RESPONSE", "ACK", "NAK", "LOOPBACK"}

NewPacket(op, smac, dmac, dqpn, psn) ==
  [opcode |-> op, smac |-> smac, dmac |-> dmac, dqpn |-> dqpn, psn |-> psn,
   ackreq |-> 0, addr |-> 0, msn |-> 0, si |-> 0, data |-> <<>>]

Packets == [opcode : Opcodes, smac : Se \cup {SwitchMac},
            dmac : Se \cup {SwitchMac}, dqpn : Int, psn : Nat,
            ackreq : {0, 1}, addr : Int, msn : Nat, si : Nat, data : Seq(Int)]

\* What the switch receives: packets of QPs, and its own loopback packets,
\* whose items stay inside one shuffle unit's share of the item numbers.
ToSwitch == {p \in Packets :
  /\ p.smac \in Se /\ p.dmac = SwitchMac
  /\ IF p.opcode = "LOOPBACK" THEN p.si + Len(p.data) <= SuPSe * ReqMtu
     ELSE Len(p.data) <= ReqMtu}

\* What a QP receives.
FromSwitch == {p \in Packets : p.smac = SwitchMac /\ <<p.dmac, p.dqpn>> \in Qps}
=============================================================================
