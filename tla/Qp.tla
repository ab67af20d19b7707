--------------------------------- MODULE Qp ---------------------------------
(***************************************************************************)
(* The queue pairs and memory regions of the endpoints.                    *)
(*                                                                         *)
(* Source: python/rdma.py (classes MR, WR, QP), python/endpoint.py.  Only  *)
(* the request QP of an endpoint ever has work requests, so the requester  *)
(* half of a QP's state is kept once per endpoint; the responder half and  *)
(* the queues are kept for every QP.                                       *)
(***************************************************************************)
EXTENDS Packet

VARIABLES
  buf,            (* buf[e]: memory region of endpoint e                   *)
  cq,             (* cq[e]: completed work requests                        *)
  sq,             (* sq[e]: work requests not completed yet                *)
  psn,            (* psn[e]: PSN of the next request packet                *)
  old_req_psn,    (* first PSN of the oldest uncompleted work request      *)
  old_unack_psn,  (* oldest PSN not acknowledged                           *)
  max_fwd_psn,    (* largest PSN ever sent                                 *)
  retry_cnt,      (* retries since the last completion                     *)
  epsn,           (* epsn[q]: PSN the responder expects                    *)
  msn,            (* msn[q]: messages the responder has taken              *)
  qp_tx,          (* qp_tx[q]: packets waiting to leave                    *)
  qp_rx           (* qp_rx[q]: packets that have arrived                   *)

requesterVars == <<cq, sq, psn, old_req_psn, old_unack_psn, max_fwd_psn, retry_cnt>>
responderVars == <<buf, epsn, msn>>
qpVars == <<requesterVars, responderVars, qp_tx, qp_rx>>

CeilDiv(a, b) == (a + b - 1) \div b
PacketsOf(wr) == CeilDiv(wr.size, ReqMtu)

WrNum == CeilDiv(EleNum, SReqMsgSize)
Wr(i) == [s_addr |-> i * SReqMsgSize + EleNum,
          d_addr |-> i * SReqMsgSize + 2 * EleNum,
          size |-> IF EleNum - i * SReqMsgSize < SReqMsgSize
                   THEN EleNum - i * SReqMsgSize ELSE SReqMsgSize]
Wrs == {Wr(i) : i \in 0 .. WrNum - 1}

QpInit ==
  /\ buf = InitBuf
  /\ cq = [e \in Se |-> <<>>]
  /\ sq = [e \in Se |-> [i \in 1 .. WrNum |-> Wr(i - 1)]]
  /\ psn = [e \in Se |-> 0]
  /\ old_req_psn = [e \in Se |-> 0]
  /\ old_unack_psn = [e \in Se |-> 0]
  /\ max_fwd_psn = [e \in Se |-> 0]
  /\ retry_cnt = [e \in Se |-> 0]
  /\ epsn = [q \in Qps |-> 0]
  /\ msn = [q \in Qps |-> 0]
  /\ qp_tx = [q \in Qps |-> <<>>]
  /\ qp_rx = [q \in Qps |-> <<>>]

GenPacket(q, op, n) == NewPacket(op, q[1], SwitchMac, Dqpn(q), n)

-----------------------------------------------------------------------------
(* Requester: tx_once scans the send queue and emits a packet for each work *)
(* request it does not take for sent; it neither stops after the first     *)
(* packet nor moves req_psn past the request that packet belongs to.       *)

\* Packet n of a message whose first PSN is first. Python indexing: a
\* negative address counts from the end of the region.
RequestPacket(e, wr, n, first) ==
  LET off == ReqMtu * (n - first)
      last == wr.size <= off + ReqMtu
      op == IF n = first THEN IF last THEN "WRITE_ONLY" ELSE "WRITE_FIRST"
            ELSE IF last THEN "WRITE_LAST" ELSE "WRITE_MIDDLE"
  IN  [GenPacket(ReqQp(e), op, n) EXCEPT
         !.addr = IF n = first THEN wr.d_addr ELSE 0,
         !.data = [k \in 1 .. (IF last THEN wr.size - off ELSE ReqMtu) |->
                     buf[e][(wr.s_addr + off + k - 1) % (3 * EleNum)]]]

\* One iteration of the loop of tx_once on the locals req_psn and self.psn.
ScanWr(e, scan, wr) ==
  IF wr.size <= ReqMtu * (scan.psn - scan.req_psn)
  THEN [scan EXCEPT !.req_psn = @ + PacketsOf(wr)]
  ELSE [scan EXCEPT !.psn = @ + 1,
                    !.out = Append(@, RequestPacket(e, wr, scan.psn, scan.req_psn))]

\* The locals of tx_once after each iteration; out collects its packets.
Scans(e) ==
  LET scan[k \in 0 .. Len(sq[e])] ==
        IF k = 0 THEN [psn |-> psn[e], req_psn |-> old_req_psn[e], out |-> <<>>]
        ELSE ScanWr(e, scan[k - 1], sq[e][k])
  IN  scan
TxScan(e) == Scans(e)[Len(sq[e])]

TxOut(e) == qp_tx[ReqQp(e)] \o TxScan(e).out

\* tx_once, after which simulate() takes the first packet of TxOut(e) away.
TxOnce(e) ==
  LET n == TxScan(e).psn
  IN  /\ TxOut(e) # <<>>
      /\ qp_tx' = [qp_tx EXCEPT ![ReqQp(e)] = Tail(TxOut(e))]
      /\ psn' = [psn EXCEPT ![e] = n]
      /\ max_fwd_psn' = [max_fwd_psn EXCEPT ![e] =
                           IF n > psn[e] /\ n - 1 > @ THEN n - 1 ELSE @]
      /\ UNCHANGED <<cq, sq, old_req_psn, old_unack_psn, retry_cnt, responderVars, qp_rx>>

\* Mutant: the timer is counted, nothing is sent again.
RetryCountsOnly(e) ==
  /\ sq[e] # <<>>
  /\ retry_cnt' = [retry_cnt EXCEPT ![e] = @ + 1]
  /\ UNCHANGED <<psn, cq, sq, old_req_psn, old_unack_psn, max_fwd_psn,
                 responderVars, qp_tx, qp_rx>>

\* retry(): go back to the oldest unacknowledged PSN.
Retry(e) ==
  /\ sq[e] # <<>>
  /\ psn' = [psn EXCEPT ![e] = old_unack_psn[e]]
  /\ retry_cnt' = [retry_cnt EXCEPT ![e] = @ + 1]
  /\ UNCHANGED <<cq, sq, old_req_psn, old_unack_psn, max_fwd_psn, responderVars, qp_tx, qp_rx>>

\* EndPsn(e)[k]: first PSN after the first k work requests of the queue.
EndPsn(e) ==
  LET end[k \in 0 .. Len(sq[e])] ==
        IF k = 0 THEN old_req_psn[e] ELSE end[k - 1] + PacketsOf(sq[e][k])
  IN  end

\* Mutant: the last packet of a work request need not be acknowledged.
CompletesEarly(e, unack, k) ==
  /\ \A j \in 1 .. k : EndPsn(e)[j] <= unack + 1
  /\ k < Len(sq[e]) => EndPsn(e)[k + 1] > unack + 1

\* The while loop of rx() takes k work requests off the send queue.
Completes(e, unack, k) ==
  /\ \A j \in 1 .. k : EndPsn(e)[j] <= unack
  /\ k < Len(sq[e]) => EndPsn(e)[k + 1] > unack

\* rx() of an ACK within what was sent and not acknowledged before.
RxAck(e, p) ==
  /\ p.psn >= old_req_psn[e] /\ p.psn <= max_fwd_psn[e]
  /\ p.psn >= old_unack_psn[e]
  /\ old_unack_psn' = [old_unack_psn EXCEPT ![e] = p.psn + 1]
  /\ \E k \in 0 .. Len(sq[e]) :
       /\ Completes(e, p.psn + 1, k)
       /\ cq' = [cq EXCEPT ![e] = @ \o SubSeq(sq[e], 1, k)]
       /\ sq' = [sq EXCEPT ![e] = SubSeq(@, k + 1, Len(@))]
       /\ old_req_psn' = [old_req_psn EXCEPT ![e] = EndPsn(e)[k]]
       /\ retry_cnt' = [retry_cnt EXCEPT ![e] = IF k > 0 THEN 0 ELSE @]
  /\ UNCHANGED <<psn, max_fwd_psn>>

\* rx() of an invalid or duplicate ACK.
RxOldAck(e, p) ==
  /\ \/ p.psn < old_req_psn[e] \/ p.psn > max_fwd_psn[e]
     \/ p.psn < old_unack_psn[e]
  /\ UNCHANGED requesterVars

RequesterRx(q, p) ==
  /\ q[2] = SReqQpn /\ p.opcode = "ACK"
  /\ RxAck(q[1], p) \/ RxOldAck(q[1], p)
  /\ UNCHANGED <<responderVars, qp_tx>>
-----------------------------------------------------------------------------
(* Responder: the READ and WRITE_ONLY packets of the switch.               *)

Reply(q, p) == qp_tx' = [qp_tx EXCEPT ![q] = Append(@, p)]
ReplyIfAsked(q, p, n, m) ==
  IF p.ackreq = 1
  THEN Reply(q, [GenPacket(q, "ACK", n) EXCEPT !.msn = m])
  ELSE UNCHANGED qp_tx

\* buf[addr : addr + 1], empty past the end of the region.
Slice(e, a) == IF a \in Addr THEN <<buf[e][a]>> ELSE <<>>

ReadResponse(q, p, n) ==
  [GenPacket(q, "READ_RESPONSE", n) EXCEPT !.data = Slice(q[1], p.addr)]

\* PSN below the expected one: a READ is answered again, but with the PSN
\* the responder expects next; a WRITE is acknowledged and not written.
RxDuplicate(q, p) ==
  /\ p.psn < epsn[q]
  /\ IF p.opcode = "READ" THEN Reply(q, ReadResponse(q, p, epsn[q]))
     ELSE ReplyIfAsked(q, p, p.psn, msn[q])
  /\ UNCHANGED responderVars

\* PSN above the expected one.
RxOutOfOrder(q, p) ==
  /\ p.psn > epsn[q]
  /\ Reply(q, [GenPacket(q, "NAK", epsn[q]) EXCEPT !.msn = msn[q]])
  /\ UNCHANGED responderVars

\* A WRITE outside the region, or without data, raises.
BadWrite(q, p) ==
  /\ p.opcode = "WRITE_ONLY" /\ p.psn = epsn[q]
  /\ p.addr \notin Addr \/ p.data = <<>>

RxInOrder(q, p) ==
  /\ p.psn = epsn[q] /\ ~BadWrite(q, p)
  /\ epsn' = [epsn EXCEPT ![q] = @ + 1]
  /\ msn' = [msn EXCEPT ![q] = @ + 1]
  /\ \/ /\ p.opcode = "READ"
        /\ Reply(q, ReadResponse(q, p, p.psn))
        /\ UNCHANGED buf
     \/ /\ p.opcode = "WRITE_ONLY"
        /\ buf' = [buf EXCEPT ![q[1]][p.addr] = p.data[1]]
        /\ ReplyIfAsked(q, p, p.psn, msn[q] + 1)

ResponderRx(q, p) ==
  /\ p.opcode \in {"READ", "WRITE_ONLY"}
  /\ RxDuplicate(q, p) \/ RxOutOfOrder(q, p) \/ RxInOrder(q, p)
  /\ UNCHANGED requesterVars

\* rx_once(): take a packet off rx_queue and handle it. A NAK would raise.
QpRxOnce(q) ==
  /\ qp_rx[q] # <<>>
  /\ qp_rx' = [qp_rx EXCEPT ![q] = Tail(@)]
  /\ RequesterRx(q, Head(qp_rx[q])) \/ ResponderRx(q, Head(qp_rx[q]))

-----------------------------------------------------------------------------
\* Values have the types the code gives them.
QpTypeOK ==
  /\ buf \in [Se -> [Addr -> Int]]
  /\ cq \in [Se -> Seq(Wrs)] /\ sq \in [Se -> Seq(Wrs)]
  /\ psn \in [Se -> Nat] /\ max_fwd_psn \in [Se -> Nat]
  /\ old_req_psn \in [Se -> Nat] /\ old_unack_psn \in [Se -> Nat]
  /\ retry_cnt \in [Se -> 0 .. MaxRetry]
  /\ epsn \in [Qps -> Nat] /\ msn \in [Qps -> Nat]
  /\ qp_tx \in [Qps -> Seq(ToSwitch)] /\ qp_rx \in [Qps -> Seq(FromSwitch)]
=============================================================================
