--------------------------- MODULE ShuffleProofs ----------------------------
(***************************************************************************)
(* What holds of the shuffle protocol for any number of endpoints, units,  *)
(* ring slots and items, under any loss and any timing: the types, and     *)
(* that requests, units and acknowledgments stay within their window.      *)
(*                                                                         *)
(* Types come in three parts: what the queue pairs compute (the loops of   *)
(* tx_once and rx, and the packets they make), what the switch computes    *)
(* (each case of process() keeps the registers in their ranges and sends   *)
(* packets of the right type), and the steps of simulate().                *)
(***************************************************************************)
EXTENDS Shuffle, Lemmas, TLAPS

-----------------------------------------------------------------------------
(* Types: the queue pairs.                                                 *)

LEMMA QpNames ==
  /\ SReqQpn \in Nat /\ SWriteQpn \in Nat /\ SReqQpn \notin Se /\ SWriteQpn \notin Se
  /\ Se \subseteq Nat /\ SwitchMac \in Int /\ SwitchMac \notin Se
  /\ \A e \in Se : ReqQp(e) \in Qps /\ WriteQp(e) \in Qps
  /\ \A q \in Qps : q[1] \in Se /\ q[2] \in Se \cup {SReqQpn, SWriteQpn} /\ Dqpn(q) \in Int
<1>1. /\ SReqQpn \in Nat /\ SWriteQpn \in Nat /\ SReqQpn \notin Se /\ SWriteQpn \notin Se
      /\ Se \subseteq Nat /\ SwitchMac \in Int /\ SwitchMac \notin Se
  BY ParamAssumption DEF SReqQpn, SWriteQpn, Se, SwitchMac
<1>2. \A e \in Se : ReqQp(e) \in Qps /\ WriteQp(e) \in Qps
  BY DEF Qps, ReqQp, WriteQp
<1>3. \A q \in Qps : q[1] \in Se /\ q[2] \in Se \cup {SReqQpn, SWriteQpn}
  BY DEF Qps
<1>4. ASSUME NEW q \in Qps PROVE Dqpn(q) \in Int
  <2>1. q[2] \in Int
    BY ParamAssumption DEF Qps, Se, SReqQpn, SWriteQpn
  <2> QED BY <2>1 DEF Dqpn, ToSReq, ToSWrite
<1> QED BY <1>1, <1>2, <1>3, <1>4

LEMMA CeilDivType ==
  ASSUME NEW a \in Nat, NEW b \in Nat \ {0}
  PROVE  CeilDiv(a, b) \in Nat
BY DEF CeilDiv

\* Work requests have a positive size and lie in the memory region.
LEMMA WrType ==
  ASSUME NEW wr \in Wrs
  PROVE  /\ wr.size \in Nat \ {0} /\ wr.s_addr \in Nat /\ wr.d_addr \in Nat
         /\ PacketsOf(wr) \in Nat
<1> USE ParamAssumption
<1>1. PICK i \in 0 .. WrNum - 1 : wr = Wr(i)
  BY DEF Wrs
<1>2. WrNum \in Nat
  BY CeilDivType DEF WrNum
<1>3. i \in Nat /\ i * SReqMsgSize \in Nat
  BY <1>2
<1>4. EleNum - i * SReqMsgSize > 0
  <2>1. i <= WrNum - 1
    BY <1>2
  <2>2. WrNum * SReqMsgSize <= EleNum + SReqMsgSize - 1
    BY DEF WrNum, CeilDiv
  <2>3. i * SReqMsgSize <= (WrNum - 1) * SReqMsgSize
    BY <1>2, <1>3, <2>1, MulMonotone
  <2>4. (WrNum - 1) * SReqMsgSize = WrNum * SReqMsgSize - SReqMsgSize
    BY <1>2
  <2>5. WrNum * SReqMsgSize \in Int
    BY <1>2
  <2> QED BY <1>3, <2>2, <2>3, <2>4, <2>5
<1>5. wr.size \in Nat \ {0} /\ wr.s_addr \in Nat /\ wr.d_addr \in Nat
  BY <1>1, <1>3, <1>4 DEF Wr
<1> QED BY <1>5, CeilDivType DEF PacketsOf

-----------------------------------------------------------------------------
\* What a QP sends is of the type the switch receives.
LEMMA GenPacketType ==
  ASSUME NEW q \in Qps, NEW op \in Opcodes \ {"LOOPBACK"}, NEW n \in Nat
  PROVE  /\ GenPacket(q, op, n) \in Packets /\ GenPacket(q, op, n) \in ToSwitch
         /\ GenPacket(q, op, n).smac \in Se /\ GenPacket(q, op, n).dmac = SwitchMac
         /\ GenPacket(q, op, n).opcode # "LOOPBACK" /\ Len(GenPacket(q, op, n).data) = 0
BY QpNames, ParamAssumption DEF GenPacket, NewPacket, ToSwitch, Packets

LEMMA AnswerType ==
  ASSUME NEW q \in Qps, NEW op \in Opcodes \ {"LOOPBACK"}, NEW n \in Nat, NEW m \in Nat
  PROVE  [GenPacket(q, op, n) EXCEPT !.msn = m] \in ToSwitch
<1> DEFINE p == GenPacket(q, op, n)
<1> HIDE DEF p
<1> SUFFICES [p EXCEPT !.msn = m] \in ToSwitch
  BY DEF p
<1>1. /\ p \in Packets /\ p.smac \in Se /\ p.dmac = SwitchMac
      /\ p.opcode # "LOOPBACK" /\ Len(p.data) = 0
  BY GenPacketType DEF p
<1>2. Len(p.data) <= ReqMtu
  BY <1>1, ParamAssumption
<1> QED BY <1>1, <1>2 DEF ToSwitch, Packets

LEMMA DataType ==
  ASSUME NEW q \in Qps, NEW op \in Opcodes \ {"LOOPBACK"}, NEW n \in Nat,
         NEW d \in Seq(Int), Len(d) <= ReqMtu
  PROVE  /\ [GenPacket(q, op, n) EXCEPT !.data = d] \in ToSwitch
         /\ \A a \in Int : [GenPacket(q, op, n) EXCEPT !.addr = a, !.data = d] \in ToSwitch
<1> DEFINE p == GenPacket(q, op, n)
<1> HIDE DEF p
<1> SUFFICES /\ [p EXCEPT !.data = d] \in ToSwitch
             /\ \A a \in Int : [p EXCEPT !.addr = a, !.data = d] \in ToSwitch
  BY DEF p
<1>1. /\ p \in Packets /\ p.smac \in Se /\ p.dmac = SwitchMac
      /\ p.opcode # "LOOPBACK" /\ Len(p.data) = 0
  BY GenPacketType DEF p
<1>2. [p EXCEPT !.data = d] \in ToSwitch
  BY <1>1 DEF ToSwitch, Packets
<1>3. ASSUME NEW a \in Int PROVE [p EXCEPT !.addr = a, !.data = d] \in ToSwitch
  BY <1>1 DEF ToSwitch, Packets
<1> QED BY <1>2, <1>3

-----------------------------------------------------------------------------
(* tx_once.                                                                *)

\* The request packets of an endpoint.
RequestsOf(e) ==
  {p \in ToSwitch : p.opcode \in WriteOps /\ p.smac = e /\ p.dqpn = ToSReq}

LEMMA RequestPacketType ==
  ASSUME NEW e \in Se, NEW wr \in Wrs, NEW n \in Nat, NEW first \in Nat,
         buf \in [Se -> [Addr -> Int]], ~(wr.size <= ReqMtu * (n - first))
  PROVE  RequestPacket(e, wr, n, first) \in RequestsOf(e)
<1> DEFINE off == ReqMtu * (n - first)
           last == wr.size <= off + ReqMtu
           op == IF n = first THEN IF last THEN "WRITE_ONLY" ELSE "WRITE_FIRST"
                 ELSE IF last THEN "WRITE_LAST" ELSE "WRITE_MIDDLE"
           len == IF last THEN wr.size - off ELSE ReqMtu
           cell(k) == buf[e][(wr.s_addr + off + k - 1) % (3 * EleNum)]
           d == [k \in 1 .. len |-> cell(k)]
<1> USE ParamAssumption
<1>1. wr.size \in Nat \ {0} /\ wr.s_addr \in Nat /\ wr.d_addr \in Nat
  BY WrType
<1>2. off \in Int
  OBVIOUS
<1>3. len \in Nat /\ len <= ReqMtu
  BY <1>1, <1>2
<1>4. ASSUME NEW k \in 1 .. len PROVE cell(k) \in Int
  <2>1. wr.s_addr + off + k - 1 \in Int
    BY <1>1, <1>2, <1>3
  <2>2. 3 * EleNum \in Nat \ {0}
    OBVIOUS
  <2>3. (wr.s_addr + off + k - 1) % (3 * EleNum) \in Addr
    <3> HIDE DEF off
    <3> QED BY <2>1, <2>2, ModType DEF Addr
  <2> QED BY <2>3
<1>5. d \in Seq(Int) /\ Len(d) = len
  <2> HIDE DEF len, cell
  <2> QED BY <1>3, <1>4
<1>6. op \in Opcodes \ {"LOOPBACK"}
  BY DEF Opcodes, WriteOps
<1>7. (IF n = first THEN wr.d_addr ELSE 0) \in Int
  BY <1>1
<1>8. RequestPacket(e, wr, n, first)
        = [GenPacket(ReqQp(e), op, n) EXCEPT
             !.addr = IF n = first THEN wr.d_addr ELSE 0, !.data = d]
  BY DEF RequestPacket
<1> DEFINE q == ReqQp(e)
           a == IF n = first THEN wr.d_addr ELSE 0
<1>9. q \in Qps /\ Len(d) <= ReqMtu
  BY <1>3, <1>5, QpNames
<1>11. a \in Int
  BY <1>7
<1>10. RequestPacket(e, wr, n, first)
         = [GenPacket(q, op, n) EXCEPT !.addr = a, !.data = d]
  BY <1>8
<1> HIDE DEF op, d, q, a
<1>12. d \in Seq(Int)
  BY <1>5
<1>13. \A x \in Int : [GenPacket(q, op, n) EXCEPT !.addr = x, !.data = d] \in ToSwitch
  BY <1>6, <1>9, <1>12, DataType
<1>14. op \in WriteOps
  BY DEF op, WriteOps
<1>15. /\ RequestPacket(e, wr, n, first).opcode = op
       /\ RequestPacket(e, wr, n, first).smac = e
       /\ RequestPacket(e, wr, n, first).dqpn = ToSReq
  BY <1>10 DEF GenPacket, NewPacket, Dqpn, ReqQp, q
<1> QED BY <1>10, <1>11, <1>13, <1>14, <1>15 DEF RequestsOf

\* The locals of tx_once.
Scan(e) == [psn : Nat, req_psn : Nat, out : Seq(RequestsOf(e))]

LEMMA ScanSkip ==
  ASSUME NEW e \in Se, NEW scan \in Scan(e), NEW n \in Nat
  PROVE  [scan EXCEPT !.req_psn = @ + n] \in Scan(e)
BY DEF Scan

LEMMA ScanEmit ==
  ASSUME NEW e \in Se, NEW scan \in Scan(e), NEW m \in RequestsOf(e)
  PROVE  [scan EXCEPT !.psn = @ + 1, !.out = Append(@, m)] \in Scan(e)
<1>1. Append(scan.out, m) \in Seq(RequestsOf(e)) /\ scan.psn + 1 \in Nat
  BY DEF Scan
<1>2. \A k \in Nat, o \in Seq(RequestsOf(e)) : [scan EXCEPT !.psn = k, !.out = o] \in Scan(e)
  BY DEF Scan
<1> QED BY <1>1, <1>2

LEMMA ScanWrType ==
  ASSUME NEW e \in Se, NEW wr \in Wrs, NEW scan \in Scan(e),
         buf \in [Se -> [Addr -> Int]]
  PROVE  ScanWr(e, scan, wr) \in Scan(e)
<1>1. scan.psn \in Nat /\ scan.req_psn \in Nat /\ scan.out \in Seq(RequestsOf(e))
  BY DEF Scan
<1>2. CASE wr.size <= ReqMtu * (scan.psn - scan.req_psn)
  <2>1. PacketsOf(wr) \in Nat
    BY WrType
  <2>2. ScanWr(e, scan, wr) = [scan EXCEPT !.req_psn = @ + PacketsOf(wr)]
    BY <1>2 DEF ScanWr
  <2> QED BY <2>1, <2>2, ScanSkip
<1>3. CASE ~(wr.size <= ReqMtu * (scan.psn - scan.req_psn))
  <2>1. RequestPacket(e, wr, scan.psn, scan.req_psn) \in RequestsOf(e)
    BY <1>1, <1>3, RequestPacketType
  <2>2. ScanWr(e, scan, wr)
          = [scan EXCEPT !.psn = @ + 1,
                         !.out = Append(@, RequestPacket(e, wr, scan.psn, scan.req_psn))]
    BY <1>3 DEF ScanWr
  <2> DEFINE m == RequestPacket(e, wr, scan.psn, scan.req_psn)
  <2> HIDE DEF m
  <2>3. m \in RequestsOf(e)
    BY <2>1 DEF m
  <2>4. ScanWr(e, scan, wr) = [scan EXCEPT !.psn = @ + 1, !.out = Append(@, m)]
    BY <2>2 DEF m
  <2>5. [scan EXCEPT !.psn = @ + 1, !.out = Append(@, m)] \in Scan(e)
    BY <2>3, ScanEmit
  <2> QED BY <2>4, <2>5
<1> QED BY <1>2, <1>3

\* The loop of tx_once, for any send queue.
LEMMA ScansType ==
  ASSUME NEW e \in Se, sq[e] \in Seq(Wrs), psn[e] \in Nat, old_req_psn[e] \in Nat,
         buf \in [Se -> [Addr -> Int]]
  PROVE  /\ TxScan(e) \in Scan(e)
         /\ Scans(e)[0] = [psn |-> psn[e], req_psn |-> old_req_psn[e], out |-> <<>>]
         /\ \A i \in 1 .. Len(sq[e]) : Scans(e)[i] = ScanWr(e, Scans(e)[i - 1], sq[e][i])
<1> DEFINE n == Len(sq[e])
           start == [psn |-> psn[e], req_psn |-> old_req_psn[e], out |-> <<>>]
           F == [si \in Scan(e) \X (1 .. n) |-> ScanWr(e, si[1], sq[e][si[2]])]
<1>1. n \in Nat /\ \A i \in 1 .. n : sq[e][i] \in Wrs
  OBVIOUS
<1>2. start \in Scan(e)
  BY DEF Scan
<1>3. \A s \in Scan(e), i \in 1 .. n : F[<<s, i>>] = ScanWr(e, s, sq[e][i])
  OBVIOUS
<1>4. \A s \in Scan(e), i \in 1 .. n : ScanWr(e, s, sq[e][i]) \in Scan(e)
  BY <1>1, ScanWrType
<1> HIDE DEF F, start
<1>5. LoopBody(n, Scan(e), F)
  BY <1>3, <1>4 DEF LoopBody
<1>6. PICK f : LoopValues(f, n, Scan(e), start, F)
  BY <1>1, <1>2, <1>5, LoopExists
<1>7. f = [k \in 0 .. n |-> IF k = 0 THEN start ELSE ScanWr(e, f[k - 1], sq[e][k])]
  <2>1. /\ f \in [0 .. n -> Scan(e)]
        /\ f[0] = start
        /\ \A i \in 1 .. n : f[i] = F[<<f[i - 1], i>>]
    BY <1>6 DEF LoopValues
  <2>2. ASSUME NEW k \in 1 .. n PROVE f[k] = ScanWr(e, f[k - 1], sq[e][k])
    <3>1. k - 1 \in 0 .. n
      BY <1>1
    <3> QED BY <1>3, <2>1, <3>1
  <2>3. \A k \in 0 .. n : k = 0 \/ k \in 1 .. n
    BY <1>1
  <2> QED BY <2>1, <2>2, <2>3
<1>8. Scans(e) = [k \in 0 .. n |-> IF k = 0 THEN start
                                   ELSE ScanWr(e, Scans(e)[k - 1], sq[e][k])]
  BY <1>7 DEF Scans, start
<1>9. Scans(e)[0] = start
  BY <1>1, <1>8
<1>10. \A i \in 1 .. n : Scans(e)[i] = ScanWr(e, Scans(e)[i - 1], sq[e][i])
  BY <1>1, <1>8
<1>11. \A i \in 0 .. n : Scans(e)[i] \in Scan(e)
  <2>1. Scans(e)[0] \in Scan(e)
    BY <1>2, <1>9
  <2>2. \A i \in 1 .. n : Scans(e)[i - 1] \in Scan(e) => Scans(e)[i] \in Scan(e)
    BY <1>4, <1>10
  <2> HIDE DEF n
  <2> QED BY <1>1, <2>1, <2>2, LoopInvariant
<1>12. TxScan(e) \in Scan(e)
  BY <1>1, <1>11 DEF TxScan
<1> QED BY <1>9, <1>10, <1>12 DEF start

\* tx_once leaves a queue of packets for the switch, at least one.
LEMMA TxOnceType ==
  ASSUME QpTypeOK, NEW e \in Se, TxOnce(e)
  PROVE  QpTypeOK' /\ Head(TxOut(e)) \in ToSwitch
<1>1. TxScan(e) \in Scan(e)
  BY ScansType DEF QpTypeOK
<1>2. TxScan(e).out \in Seq(ToSwitch) /\ TxScan(e).psn \in Nat
  BY <1>1 DEF Scan, RequestsOf
<1>3. qp_tx[ReqQp(e)] \in Seq(ToSwitch) /\ ReqQp(e) \in Qps
  BY QpNames DEF QpTypeOK
<1>4. TxOut(e) \in Seq(ToSwitch) /\ TxOut(e) # <<>>
  BY <1>2, <1>3 DEF TxOut, TxOnce
<1>5. Head(TxOut(e)) \in ToSwitch /\ Tail(TxOut(e)) \in Seq(ToSwitch)
  BY <1>4
<1>6. qp_tx' \in [Qps -> Seq(ToSwitch)]
  BY <1>5 DEF QpTypeOK, TxOnce
<1>7. psn' \in [Se -> Nat]
  BY <1>2 DEF QpTypeOK, TxOnce
<1>8. max_fwd_psn' \in [Se -> Nat]
  <2>1. max_fwd_psn[e] \in Nat /\ psn[e] \in Nat
    BY DEF QpTypeOK
  <2>2. (IF TxScan(e).psn > psn[e] /\ TxScan(e).psn - 1 > max_fwd_psn[e]
         THEN TxScan(e).psn - 1 ELSE max_fwd_psn[e]) \in Nat
    BY <1>2, <2>1
  <2> QED BY <2>2 DEF QpTypeOK, TxOnce
<1>9. UNCHANGED <<cq, sq, old_req_psn, old_unack_psn, retry_cnt, responderVars, qp_rx>>
  BY DEF TxOnce
<1> QED BY <1>5, <1>6, <1>7, <1>8, <1>9 DEF QpTypeOK, responderVars

LEMMA RetryType ==
  ASSUME QpTypeOK, NEW e \in Se, retry_cnt[e] # MaxRetry, Retry(e)
  PROVE  QpTypeOK'
<1>1. psn' \in [Se -> Nat]
  BY DEF QpTypeOK, Retry
<1>2. retry_cnt' \in [Se -> 0 .. MaxRetry]
  <2>1. retry_cnt[e] + 1 \in 0 .. MaxRetry
    BY ParamAssumption DEF QpTypeOK
  <2> QED BY <2>1 DEF QpTypeOK, Retry
<1> QED BY <1>1, <1>2 DEF QpTypeOK, Retry, responderVars

-----------------------------------------------------------------------------
(* rx.                                                                     *)

LEMMA EndPsnType ==
  ASSUME NEW e \in Se, sq[e] \in Seq(Wrs), old_req_psn[e] \in Nat
  PROVE  /\ \A k \in 0 .. Len(sq[e]) : EndPsn(e)[k] \in Nat
         /\ EndPsn(e)[0] = old_req_psn[e]
         /\ \A k \in 1 .. Len(sq[e]) :
              EndPsn(e)[k] = EndPsn(e)[k - 1] + PacketsOf(sq[e][k])
<1> DEFINE n == Len(sq[e])
           step(a, i) == a + PacketsOf(sq[e][i])
           F == [ai \in Nat \X (1 .. n) |-> step(ai[1], ai[2])]
<1>1. n \in Nat /\ \A i \in 1 .. n : PacketsOf(sq[e][i]) \in Nat
  BY WrType
<1>2. \A a \in Nat, i \in 1 .. n : F[<<a, i>>] = step(a, i)
  OBVIOUS
<1>3. \A a \in Nat, i \in 1 .. n : step(a, i) \in Nat
  BY <1>1
<1>4. EndPsn(e) = CHOOSE end :
        end = [k \in 0 .. n |-> IF k = 0 THEN old_req_psn[e] ELSE step(end[k - 1], k)]
  BY DEF EndPsn
<1> HIDE DEF F, step
<1>5. LoopBody(n, Nat, F)
  BY <1>2, <1>3 DEF LoopBody
<1>6. PICK f : LoopValues(f, n, Nat, old_req_psn[e], F)
  BY <1>1, <1>5, LoopExists
<1>7. f = [k \in 0 .. n |-> IF k = 0 THEN old_req_psn[e] ELSE step(f[k - 1], k)]
  <2>1. /\ f \in [0 .. n -> Nat]
        /\ f[0] = old_req_psn[e]
        /\ \A i \in 1 .. n : f[i] = F[<<f[i - 1], i>>]
    BY <1>6 DEF LoopValues
  <2>2. ASSUME NEW k \in 1 .. n PROVE f[k] = step(f[k - 1], k)
    <3>1. k - 1 \in 0 .. n
      BY <1>1
    <3> QED BY <1>2, <2>1, <3>1
  <2>3. \A k \in 0 .. n : k = 0 \/ k \in 1 .. n
    BY <1>1
  <2> QED BY <2>1, <2>2, <2>3
<1>8. EndPsn(e) = [k \in 0 .. n |-> IF k = 0 THEN old_req_psn[e]
                                    ELSE step(EndPsn(e)[k - 1], k)]
  BY <1>4, <1>7
<1>9. EndPsn(e)[0] = old_req_psn[e]
  BY <1>1, <1>8
<1>10. \A i \in 1 .. n : EndPsn(e)[i] = step(EndPsn(e)[i - 1], i)
  BY <1>1, <1>8
<1>11. \A i \in 1 .. n : EndPsn(e)[i - 1] \in Nat => EndPsn(e)[i] \in Nat
  BY <1>3, <1>10
<1>12. \A k \in 0 .. n : EndPsn(e)[k] \in Nat
  <2> HIDE DEF n
  <2> QED BY <1>1, <1>9, <1>11, LoopInvariant
<1> QED BY <1>9, <1>10, <1>12 DEF step

LEMMA RxAckType ==
  ASSUME QpTypeOK, NEW e \in Se, NEW p \in FromSwitch, RxAck(e, p),
         UNCHANGED <<responderVars, qp_tx>>, qp_rx' \in [Qps -> Seq(FromSwitch)]
  PROVE  QpTypeOK'
<1>1. p.psn \in Nat
  BY DEF FromSwitch, Packets
<1>2. PICK k \in 0 .. Len(sq[e]) :
         /\ cq' = [cq EXCEPT ![e] = @ \o SubSeq(sq[e], 1, k)]
         /\ sq' = [sq EXCEPT ![e] = SubSeq(@, k + 1, Len(@))]
         /\ old_req_psn' = [old_req_psn EXCEPT ![e] = EndPsn(e)[k]]
         /\ retry_cnt' = [retry_cnt EXCEPT ![e] = IF k > 0 THEN 0 ELSE @]
  BY DEF RxAck
<1>3. sq[e] \in Seq(Wrs) /\ cq[e] \in Seq(Wrs) /\ old_req_psn[e] \in Nat
  BY DEF QpTypeOK
<1>4. SubSeq(sq[e], 1, k) \in Seq(Wrs) /\ SubSeq(sq[e], k + 1, Len(sq[e])) \in Seq(Wrs)
  BY <1>3
<1>5. cq' \in [Se -> Seq(Wrs)] /\ sq' \in [Se -> Seq(Wrs)]
  BY <1>2, <1>3, <1>4 DEF QpTypeOK
<1>6. EndPsn(e)[k] \in Nat
  BY <1>3, EndPsnType
<1>7. old_req_psn' \in [Se -> Nat]
  BY <1>2, <1>6 DEF QpTypeOK
<1>8. retry_cnt' \in [Se -> 0 .. MaxRetry]
  BY <1>2, ParamAssumption DEF QpTypeOK
<1>9. old_unack_psn' \in [Se -> Nat] /\ psn' = psn /\ max_fwd_psn' = max_fwd_psn
  BY <1>1 DEF QpTypeOK, RxAck
<1> QED BY <1>5, <1>7, <1>8, <1>9 DEF QpTypeOK, responderVars

LEMMA ResponderRxType ==
  ASSUME QpTypeOK, NEW q \in Qps, NEW p \in FromSwitch, ResponderRx(q, p),
         qp_rx' \in [Qps -> Seq(FromSwitch)]
  PROVE  QpTypeOK'
<1>1. /\ p.psn \in Nat /\ p.data \in Seq(Int)
      /\ epsn[q] \in Nat /\ msn[q] \in Nat /\ q[1] \in Se
  BY QpNames DEF FromSwitch, Packets, QpTypeOK
<1>2. ASSUME NEW m \in ToSwitch, Reply(q, m) PROVE qp_tx' \in [Qps -> Seq(ToSwitch)]
  <2>1. Append(qp_tx[q], m) \in Seq(ToSwitch)
    BY DEF QpTypeOK
  <2> QED BY <1>2, <2>1 DEF QpTypeOK, Reply
<1>3. ASSUME NEW n \in Nat, NEW m \in Nat, ReplyIfAsked(q, p, n, m)
      PROVE  qp_tx' \in [Qps -> Seq(ToSwitch)]
  <2>1. "ACK" \in Opcodes \ {"LOOPBACK"}
    BY DEF Opcodes
  <2>2. [GenPacket(q, "ACK", n) EXCEPT !.msn = m] \in ToSwitch
    BY <2>1, AnswerType
  <2> QED BY <1>2, <1>3, <2>2 DEF ReplyIfAsked, QpTypeOK
<1>4. \A n \in Nat : ReadResponse(q, p, n) \in ToSwitch
  <2>1. Slice(q[1], p.addr) \in Seq(Int) /\ Len(Slice(q[1], p.addr)) <= ReqMtu
    BY <1>1, ParamAssumption DEF Slice, QpTypeOK
  <2>2. "READ_RESPONSE" \in Opcodes \ {"LOOPBACK"}
    BY DEF Opcodes
  <2> QED BY <2>1, <2>2, DataType DEF ReadResponse
<1>5. UNCHANGED requesterVars
  BY DEF ResponderRx
<1>6. SUFFICES /\ buf' \in [Se -> [Addr -> Int]]
               /\ epsn' \in [Qps -> Nat] /\ msn' \in [Qps -> Nat]
               /\ qp_tx' \in [Qps -> Seq(ToSwitch)]
  BY <1>5 DEF QpTypeOK, requesterVars
<1>7. CASE RxDuplicate(q, p)
  <2>1. qp_tx' \in [Qps -> Seq(ToSwitch)]
    BY <1>1, <1>2, <1>3, <1>4, <1>7 DEF RxDuplicate
  <2> QED BY <1>7, <2>1 DEF RxDuplicate, responderVars, QpTypeOK
<1>8. CASE RxOutOfOrder(q, p)
  <2>1. "NAK" \in Opcodes \ {"LOOPBACK"}
    BY DEF Opcodes
  <2>2. [GenPacket(q, "NAK", epsn[q]) EXCEPT !.msn = msn[q]] \in ToSwitch
    BY <1>1, <2>1, AnswerType
  <2>3. qp_tx' \in [Qps -> Seq(ToSwitch)]
    BY <1>2, <1>8, <2>2 DEF RxOutOfOrder
  <2> QED BY <1>8, <2>3 DEF RxOutOfOrder, responderVars, QpTypeOK
<1>9. CASE RxInOrder(q, p)
  <2>4. epsn[q] + 1 \in Nat /\ msn[q] + 1 \in Nat
    BY <1>1
  <2>1. epsn' \in [Qps -> Nat] /\ msn' \in [Qps -> Nat]
    BY <1>9, <2>4 DEF RxInOrder, QpTypeOK
  <2>2. CASE p.opcode = "READ" /\ Reply(q, ReadResponse(q, p, p.psn)) /\ UNCHANGED buf
    BY <1>1, <1>2, <1>4, <2>1, <2>2 DEF QpTypeOK
  <2>3. CASE /\ p.opcode = "WRITE_ONLY"
             /\ buf' = [buf EXCEPT ![q[1]][p.addr] = p.data[1]]
             /\ ReplyIfAsked(q, p, p.psn, msn[q] + 1)
    <3>1. p.data # <<>>
      BY <1>9, <2>3 DEF RxInOrder, BadWrite
    <3>2. p.data[1] \in Int
      BY <1>1, <3>1
    <3>3. buf' \in [Se -> [Addr -> Int]]
      BY <1>1, <2>3, <3>2 DEF QpTypeOK
    <3>4. qp_tx' \in [Qps -> Seq(ToSwitch)]
      BY <1>1, <1>3, <2>3, <2>4
    <3> QED BY <2>1, <3>3, <3>4
  <2> QED BY <1>9, <2>2, <2>3 DEF RxInOrder
<1> QED BY <1>7, <1>8, <1>9 DEF ResponderRx

\* rx_once keeps the types.
LEMMA QpRxOnceType ==
  ASSUME QpTypeOK, NEW q \in Qps, QpRxOnce(q)
  PROVE  QpTypeOK'
<1> DEFINE p == Head(qp_rx[q])
<1>1. p \in FromSwitch /\ Tail(qp_rx[q]) \in Seq(FromSwitch)
  BY DEF QpRxOnce, QpTypeOK
<1>2. qp_rx' \in [Qps -> Seq(FromSwitch)]
  BY <1>1 DEF QpRxOnce, QpTypeOK
<1>3. q[1] \in Se
  BY QpNames
<1>4. CASE RequesterRx(q, p)
  <2>1. UNCHANGED <<responderVars, qp_tx>>
    BY <1>4 DEF RequesterRx
  <2>2. CASE RxAck(q[1], p)
    BY <1>1, <1>2, <1>3, <2>1, <2>2, RxAckType
  <2>3. CASE RxOldAck(q[1], p)
    BY <1>2, <2>1, <2>3 DEF RxOldAck, requesterVars, responderVars, QpTypeOK
  <2> QED BY <1>4, <2>2, <2>3 DEF RequesterRx
<1>5. CASE ResponderRx(q, p)
  BY <1>1, <1>2, <1>5, ResponderRxType
<1> QED BY <1>4, <1>5 DEF QpRxOnce

-----------------------------------------------------------------------------
(* Types: the switch.                                                      *)

AnyPacket == ToSwitch \cup FromSwitch
NotAck == {p \in AnyPacket : p.opcode # "ACK"}

LEMMA Update2 ==
  ASSUME NEW A, NEW B, NEW C, NEW f \in [A -> [B -> C]],
         NEW a \in A, NEW b \in B, NEW c \in C
  PROVE  [f EXCEPT ![a][b] = c] \in [A -> [B -> C]]
OBVIOUS

LEMMA Update3 ==
  ASSUME NEW A, NEW B, NEW C, NEW D, NEW f \in [A -> [B -> [C -> D]]],
         NEW a \in A, NEW b \in B, NEW c \in C, NEW d \in D
  PROVE  [f EXCEPT ![a][b][c] = d] \in [A -> [B -> [C -> D]]]
<1>1. [f[a] EXCEPT ![b][c] = d] \in [B -> [C -> D]]
  BY Update2
<1>2. [f EXCEPT ![a][b][c] = d] = [f EXCEPT ![a] = [f[a] EXCEPT ![b][c] = d]]
  OBVIOUS
<1> QED BY <1>1, <1>2

LEMMA Apply3 ==
  ASSUME NEW A, NEW B, NEW C, NEW D, NEW f \in [A -> [B -> [C -> D]]],
         NEW a \in A, NEW b \in B, NEW c \in C
  PROVE  f[a][b][c] \in D
OBVIOUS

\* Slots of the rings are in range; so are the units.
LEMMA RingSize == WriteRingSize \in Nat \ {0}
BY ParamAssumption DEF WriteRingSize

LEMMA SlotType ==
  ASSUME NEW n \in Nat
  PROVE  /\ UnitOf(n) \in Su /\ ReadSlot(n) \in 0 .. PsnRingSize - 1
         /\ WriteSlot(n) \in 0 .. WriteRingSize - 1
BY RingSize, ParamAssumption, ModType DEF UnitOf, ReadSlot, WriteSlot, Su

-----------------------------------------------------------------------------
(* Packets the switch sends.                                               *)

LEMMA NewPacketType ==
  ASSUME NEW op \in Opcodes, NEW d \in Se, NEW q \in Int, <<d, q>> \in Qps, NEW n \in Nat
  PROVE  /\ NewPacket(op, SwitchMac, d, q, n) \in FromSwitch
         /\ \A m \in Nat :
              [NewPacket(op, SwitchMac, d, q, n) EXCEPT !.msn = m] \in FromSwitch
         /\ \A a \in Int :
              [NewPacket(op, SwitchMac, d, q, n) EXCEPT !.addr = a] \in FromSwitch
         /\ \A k \in {0, 1}, x \in Seq(Int), a \in Int :
              [NewPacket(op, SwitchMac, d, q, n) EXCEPT
                 !.ackreq = k, !.data = x, !.addr = a] \in FromSwitch
<1> DEFINE p == NewPacket(op, SwitchMac, d, q, n)
<1>1. p \in Packets /\ p.smac = SwitchMac /\ p.dmac = d /\ p.dqpn = q
  BY DEF NewPacket, Packets
<1> HIDE DEF p
<1>2. \A m \in Nat : [p EXCEPT !.msn = m] \in FromSwitch
  BY <1>1 DEF FromSwitch, Packets
<1>3. \A a \in Int : [p EXCEPT !.addr = a] \in FromSwitch
  BY <1>1 DEF FromSwitch, Packets
<1>4. \A k \in {0, 1}, x \in Seq(Int), a \in Int :
        [p EXCEPT !.ackreq = k, !.data = x, !.addr = a] \in FromSwitch
  BY <1>1 DEF FromSwitch, Packets
<1>5. p \in FromSwitch
  BY <1>1 DEF FromSwitch
<1> QED BY <1>2, <1>3, <1>4, <1>5 DEF p

\* A READ goes to a read QP, a WRITE to the write QP, an ACK to the request QP.
LEMMA Destinations ==
  ASSUME NEW e \in Se, NEW t \in Se
  PROVE  /\ <<t, e>> \in Qps /\ <<e, SReqQpn>> \in Qps /\ <<e, SWriteQpn>> \in Qps
         /\ SReqQpn \in Int /\ SWriteQpn \in Int /\ e \in Int
BY ParamAssumption DEF Qps, Se, SReqQpn, SWriteQpn

LEMMA AckType ==
  ASSUME NEW e \in Se, NEW n \in Nat, NEW m \in Nat
  PROVE  [ToRequester(e, "ACK", n) EXCEPT !.msn = m] \in AnyPacket
<1>1. "ACK" \in Opcodes
  BY DEF Opcodes
<1>2. <<e, SReqQpn>> \in Qps /\ SReqQpn \in Int
  BY Destinations
<1>3. \A k \in Nat :
        [NewPacket("ACK", SwitchMac, e, SReqQpn, n) EXCEPT !.msn = k] \in FromSwitch
  BY <1>1, <1>2, NewPacketType
<1> QED BY <1>3 DEF ToRequester, AnyPacket

LEMMA SendType ==
  ASSUME tx_queue \in Seq(AnyPacket), NEW s \in Seq(AnyPacket), Send(s)
  PROVE  tx_queue' \in Seq(AnyPacket)
BY DEF Send

LEMMA SendOneType ==
  ASSUME NEW S, NEW c, NEW p \in S
  PROVE  (IF c THEN <<>> ELSE <<p>>) \in Seq(S)
OBVIOUS

-----------------------------------------------------------------------------
(* Loopback.                                                               *)

LEMMA PacketFields ==
  ASSUME NEW p \in ToSwitch
  PROVE  /\ p \in Packets /\ p.smac \in Se /\ p.dmac = SwitchMac /\ p.psn \in Nat
         /\ p.si \in Nat /\ p.data \in Seq(Int) /\ Len(p.data) \in Nat
         /\ p.addr \in Int /\ p.dqpn \in Int
         /\ p.opcode = "LOOPBACK" => p.si + Len(p.data) <= WriteRingSize
         /\ p.opcode # "LOOPBACK" => Len(p.data) <= ReqMtu
BY DEF ToSwitch, Packets, WriteRingSize

\* The loopback packets that may be made from packet p.
LoopbacksOf(p) == {l \in ToSwitch :
  l.opcode = "LOOPBACK" /\ l.smac = p.smac /\ l.dqpn = p.dqpn}

LEMMA LoopbacksNotAck == \A p : LoopbacksOf(p) \subseteq NotAck
BY DEF LoopbacksOf, NotAck, AnyPacket

\* A loopback packet made from another has its items in range.
LEMMA LoopbackType ==
  ASSUME NEW p \in ToSwitch, NEW si \in Nat, NEW d \in Seq(Int),
         si + Len(d) <= WriteRingSize
  PROVE  [p EXCEPT !.opcode = "LOOPBACK", !.si = si, !.data = d] \in LoopbacksOf(p)
<1>1. p \in Packets /\ p.smac \in Se /\ p.dmac = SwitchMac
  BY PacketFields
<1> DEFINE l == [p EXCEPT !.opcode = "LOOPBACK", !.si = si, !.data = d]
<1>2. l \in ToSwitch /\ l.opcode = "LOOPBACK" /\ l.smac = p.smac /\ l.dqpn = p.dqpn
  BY <1>1 DEF ToSwitch, Packets, Opcodes, WriteRingSize
<1> HIDE DEF l
<1> QED BY <1>2 DEF LoopbacksOf, l

\* A request occupies the item numbers of its unit and no others.
LEMMA AsLoopbackType ==
  ASSUME NEW p \in ToSwitch, p.opcode # "LOOPBACK"
  PROVE  /\ AsLoopback(p) \in LoopbacksOf(p)
         /\ AsLoopback(p) \in ToSwitch /\ AsLoopback(p).opcode = "LOOPBACK"
         /\ AsLoopback(p).smac = p.smac
<1>1. p \in Packets /\ p.psn \in Nat /\ p.data \in Seq(Int) /\ Len(p.data) \in Nat
      /\ Len(p.data) <= ReqMtu
  BY PacketFields
<1>2. UnitOf(p.psn) \in Su
  BY <1>1, SlotType
<1>3. UnitOf(p.psn) \in Nat /\ UnitOf(p.psn) + 1 <= SuPSe
  BY <1>2, ParamAssumption DEF Su
<1> DEFINE u == UnitOf(p.psn)
           si == u * ReqMtu
<1> HIDE DEF u
<1>4. u \in Nat /\ u + 1 <= SuPSe
  BY <1>3 DEF u
<1>5. (u + 1) * ReqMtu <= SuPSe * ReqMtu
  BY <1>4, MulMonotone, ParamAssumption
<1>6. (u + 1) * ReqMtu = si + ReqMtu /\ si \in Nat
  BY <1>4, ParamAssumption
<1>7. SuPSe * ReqMtu \in Nat
  BY ParamAssumption
<1> HIDE DEF si
<1>8. si + Len(p.data) <= WriteRingSize
  BY <1>1, <1>5, <1>6, <1>7, ParamAssumption DEF WriteRingSize
<1>9. [p EXCEPT !.opcode = "LOOPBACK", !.si = si, !.data = p.data] \in LoopbacksOf(p)
  BY <1>1, <1>6, <1>8, LoopbackType
<1>10. AsLoopback(p) = [p EXCEPT !.opcode = "LOOPBACK", !.si = si, !.data = p.data]
  BY <1>1 DEF AsLoopback, Packets, si, u
<1> QED BY <1>9, <1>10 DEF LoopbacksOf

LEMMA MulticastType ==
  ASSUME NEW p \in ToSwitch, p.opcode = "LOOPBACK", NEW n \in 0 .. Len(p.data)
  PROVE  Multicast(p, n) \in Seq(LoopbacksOf(p))
<1>1. p.si \in Nat /\ p.data \in Seq(Int) /\ Len(p.data) \in Nat
      /\ p.si + Len(p.data) <= WriteRingSize /\ WriteRingSize \in Nat
  BY PacketFields, RingSize
<1>2. ASSUME NEW i \in 1 .. n
      PROVE  [p EXCEPT !.opcode = "LOOPBACK", !.si = p.si + i - 1,
                       !.data = <<p.data[i]>>] \in LoopbacksOf(p)
  <2>1. p.data[i] \in Int /\ p.si + i - 1 \in Nat
    BY <1>1
  <2>2. <<p.data[i]>> \in Seq(Int) /\ Len(<<p.data[i]>>) = 1
    BY <2>1
  <2>3. (p.si + i - 1) + Len(<<p.data[i]>>) <= WriteRingSize
    BY <1>1, <2>2
  <2> DEFINE s == p.si + i - 1
             d == <<p.data[i]>>
  <2> HIDE DEF s, d
  <2>4. s \in Nat /\ d \in Seq(Int) /\ s + Len(d) <= WriteRingSize
    BY <2>1, <2>2, <2>3 DEF s, d
  <2>5. [p EXCEPT !.opcode = "LOOPBACK", !.si = s, !.data = d] \in LoopbacksOf(p)
    BY <2>4, LoopbackType
  <2> QED BY <2>5 DEF s, d
<1>3. n \in Nat
  BY <1>1
<1> DEFINE copy(i) == [p EXCEPT !.opcode = "LOOPBACK", !.si = p.si + i - 1,
                                !.data = <<p.data[i]>>]
<1>4. Multicast(p, n) = [i \in 1 .. n |-> copy(i)]
  BY DEF Multicast
<1>5. \A i \in 1 .. n : copy(i) \in LoopbacksOf(p)
  BY <1>2
<1> HIDE DEF copy
<1> QED BY <1>3, <1>4, <1>5

LEMMA MirrorType ==
  ASSUME NEW p \in ToSwitch, p.opcode = "LOOPBACK", Len(p.data) > McastGrpSize
  PROVE  Mirror(p) \in LoopbacksOf(p)
<1>1. p.si \in Nat /\ p.data \in Seq(Int) /\ Len(p.data) \in Nat
      /\ p.si + Len(p.data) <= WriteRingSize /\ WriteRingSize \in Nat
      /\ McastGrpSize \in Nat
  BY PacketFields, RingSize, ParamAssumption
<1> DEFINE s == p.si + McastGrpSize
           d == SubSeq(p.data, McastGrpSize + 1, Len(p.data))
<1>2. s \in Nat /\ d \in Seq(Int) /\ Len(d) = Len(p.data) - McastGrpSize
  BY <1>1
<1>3. s + Len(d) <= WriteRingSize
  BY <1>1, <1>2
<1> HIDE DEF s, d
<1>4. [p EXCEPT !.opcode = "LOOPBACK", !.si = s, !.data = d] \in LoopbacksOf(p)
  BY <1>2, <1>3, LoopbackType
<1> QED BY <1>4 DEF Mirror, s, d

\* The item of a loopback packet with one item names a target and cells.
LEMMA ItemType ==
  ASSUME NEW i \in Items
  PROVE  Item(i).dmac \in Se /\ Item(i).wr_off \in Nat /\ Item(i).dst_addr \in Int
<1>1. i \in Int
  BY ParamAssumption DEF Items
<1>2. (i % SeNum) \in 0 .. SeNum - 1 /\ (i % SReqMsgSize) \in 0 .. SReqMsgSize - 1
  BY <1>1, ParamAssumption, ModType
<1> QED BY <1>1, <1>2, ParamAssumption DEF Item, Se

LEMMA ReadType ==
  ASSUME NEW e \in Se, NEW t \in Se, NEW n \in Nat, NEW a \in Int
  PROVE  [NewPacket("READ", SwitchMac, t, e, n) EXCEPT !.addr = a] \in NotAck
<1> DEFINE p == NewPacket("READ", SwitchMac, t, e, n)
<1>1. "READ" \in Opcodes /\ <<t, e>> \in Qps /\ e \in Int
  BY Destinations DEF Opcodes
<1>2. [p EXCEPT !.addr = a] \in FromSwitch
  BY <1>1, NewPacketType
<1>3. [p EXCEPT !.addr = a].opcode = "READ"
  BY DEF NewPacket
<1> HIDE DEF p
<1> QED BY <1>2, <1>3 DEF NotAck, AnyPacket, p

\* A loopback pass goes on as loopback packets, or gives the item a READ PSN
\* and sends the READ unless the endpoint is down.
ReadOf(e, t, n, a) == [NewPacket("READ", SwitchMac, t, e, n) EXCEPT !.addr = a]
GivesRead(e, t, state) ==
  /\ ~ReadRingFull(e, t)
  /\ sread_psn' = [sread_psn EXCEPT ![e][t] = @ + 1]
  /\ UNCHANGED sread_unack_psn
  /\ \E a \in Int :
       Send(IF state = 0 THEN <<>> ELSE <<ReadOf(e, t, sread_psn[e][t], a)>>)

LEMMA LoopbackSends ==
  ASSUME sread_psn \in [Se -> [Se -> Nat]], NEW p \in ToSwitch, p.opcode = "LOOPBACK",
         NEW state, ProcessLoopback(p, state)
  PROVE  \/ UNCHANGED readVars /\ \E s \in Seq(LoopbacksOf(p)) : Send(s)
         \/ \E t \in Se : GivesRead(p.smac, t, state)
<1>1. /\ p \in LoopbacksOf(p) /\ p.smac \in Se /\ Len(p.data) \in Nat
      /\ McastGrpSize \in Nat
  BY PacketFields, ParamAssumption DEF LoopbacksOf
<1>2. <<>> \in Seq(LoopbacksOf(p))
  OBVIOUS
<1>3. CASE LoopbackRingFull(p, state)
  <2>1. (IF state = 0 THEN <<>> ELSE <<p>>) \in Seq(LoopbacksOf(p))
    BY <1>1, SendOneType
  <2> QED BY <1>3, <2>1 DEF LoopbackRingFull
<1>4. CASE LoopbackRead(p, state)
  <2> DEFINE item == Item(p.data[1])
             t == item.dmac
             a == item.dst_addr
  <2>1. p.data[1] \in Items
    BY <1>4 DEF ProcessLoopback, NoDescriptor, LoopbackRead
  <2>2. t \in Se /\ a \in Int
    BY <2>1, ItemType
  <2>3. /\ ~ReadRingFull(p.smac, t) /\ UNCHANGED sread_unack_psn
        /\ sread_psn' = [sread_psn EXCEPT ![p.smac][t] = sread_psn[p.smac][t] + 1]
        /\ Send(IF state = 0 THEN <<>> ELSE <<ReadOf(p.smac, t, sread_psn[p.smac][t], a)>>)
    BY <1>4 DEF LoopbackRead, ReadOf
  <2> HIDE DEF item, t, a
  <2>4. GivesRead(p.smac, t, state)
    BY <2>2, <2>3 DEF GivesRead
  <2> QED BY <2>2, <2>4
<1>5. CASE LoopbackSplit(p, state)
  <2>1. CASE state = 0
    <3>1. Send(<<>>)
      BY <1>5, <2>1 DEF LoopbackSplit
    <3> QED BY <1>2, <1>5, <3>1 DEF LoopbackSplit
  <2>2. CASE state # 0 /\ Len(p.data) <= McastGrpSize
    <3>1. Send(Multicast(p, Len(p.data)))
      BY <1>5, <2>2 DEF LoopbackSplit
    <3> QED BY <1>1, <1>5, <3>1, MulticastType DEF LoopbackSplit
  <2>3. CASE state # 0 /\ ~(Len(p.data) <= McastGrpSize)
    <3>1. Send(Append(Multicast(p, McastGrpSize), Mirror(p)))
      BY <1>5, <2>3 DEF LoopbackSplit
    <3>2. McastGrpSize \in 0 .. Len(p.data) /\ Len(p.data) > McastGrpSize
      BY <1>1, <2>3
    <3>3. Multicast(p, McastGrpSize) \in Seq(LoopbacksOf(p)) /\ Mirror(p) \in LoopbacksOf(p)
      BY <3>2, MulticastType, MirrorType
    <3>4. Append(Multicast(p, McastGrpSize), Mirror(p)) \in Seq(LoopbacksOf(p))
      BY <3>3
    <3> QED BY <1>5, <3>1, <3>4 DEF LoopbackSplit
  <2> QED BY <2>1, <2>2, <2>3
<1> QED BY <1>3, <1>4, <1>5 DEF ProcessLoopback

LEMMA LoopbackSendsNoAck ==
  ASSUME sread_psn \in [Se -> [Se -> Nat]], NEW p \in ToSwitch, p.opcode = "LOOPBACK",
         NEW state, ProcessLoopback(p, state)
  PROVE  \E s \in Seq(NotAck) : Send(s)
<1>1. CASE \E s \in Seq(LoopbacksOf(p)) : Send(s)
  BY <1>1, LoopbacksNotAck
<1>2. ASSUME NEW t \in Se, GivesRead(p.smac, t, state)
      PROVE  \E s \in Seq(NotAck) : Send(s)
  <2> DEFINE n == sread_psn[p.smac][t]
  <2>1. p.smac \in Se
    BY PacketFields
  <2>2. n \in Nat
    BY <2>1
  <2>3. PICK a \in Int : Send(IF state = 0 THEN <<>> ELSE <<ReadOf(p.smac, t, n, a)>>)
    BY <1>2 DEF GivesRead
  <2> HIDE DEF n
  <2> DEFINE r == ReadOf(p.smac, t, n, a)
  <2>4. r \in NotAck
    BY <2>1, <2>2, ReadType DEF ReadOf
  <2> HIDE DEF r
  <2>5. (IF state = 0 THEN <<>> ELSE <<r>>) \in Seq(NotAck)
    BY <2>4, SendOneType
  <2> QED BY <2>3, <2>5 DEF r
<1> QED BY <1>1, <1>2, LoopbackSends

\* The registers of the read side and the queue keep their types.
ReadTypeOK ==
  /\ tx_queue \in Seq(AnyPacket)
  /\ sread_psn \in [Se -> [Se -> Nat]] /\ sread_unack_psn \in [Se -> [Se -> Nat]]
  /\ sread_psn_to_si \in [Se -> [Se -> [0 .. PsnRingSize - 1 -> 0 .. WriteRingSize - 1]]]
  /\ si_wr_off \in [Se -> [Su -> [0 .. ReqMtu - 1 -> Nat]]]

LEMMA LoopbackReadType ==
  ASSUME ReadTypeOK, NEW p \in ToSwitch, p.opcode = "LOOPBACK", NEW state,
         LoopbackRead(p, state), ~NoDescriptor(p)
  PROVE  /\ sread_psn' \in [Se -> [Se -> Nat]]
         /\ sread_psn_to_si'
              \in [Se -> [Se -> [0 .. PsnRingSize - 1 -> 0 .. WriteRingSize - 1]]]
         /\ si_wr_off' \in [Se -> [Su -> [0 .. ReqMtu - 1 -> Nat]]]
<1> DEFINE e == p.smac
           item == Item(p.data[1])
           t == item.dmac
           n == sread_psn[e][t]
<1>1. /\ e \in Se /\ p.si \in Nat /\ p.data \in Seq(Int) /\ Len(p.data) = 1
      /\ p.si + 1 <= WriteRingSize /\ p.data[1] \in Items
  BY PacketFields DEF LoopbackRead, NoDescriptor
<1>2. t \in Se /\ item.wr_off \in Nat
  BY <1>1, ItemType
<1>3. n \in Nat /\ n + 1 \in Nat
  <2> HIDE DEF e, t
  <2>1. sread_psn \in [Se -> [Se -> Nat]]
    BY DEF ReadTypeOK
  <2>2. n \in Nat
    BY <1>1, <1>2, <2>1
  <2> QED BY <2>2
<1>4. ReadSlot(n) \in 0 .. PsnRingSize - 1
  BY <1>3, SlotType
<1>5. p.si \in 0 .. WriteRingSize - 1
  BY <1>1, RingSize
<1>6. (p.si \div ReqMtu) \in Su /\ (p.si % ReqMtu) \in 0 .. ReqMtu - 1
  <2>1. PICK s \in Nat : s = p.si
    BY <1>1
  <2>2. s < SuPSe * ReqMtu
    BY <1>5, <2>1, RingSize DEF WriteRingSize
  <2>3. (s \div ReqMtu) \in 0 .. SuPSe - 1
    BY <2>2, DivBound, ParamAssumption
  <2>4. (s % ReqMtu) \in 0 .. ReqMtu - 1
    BY ModType, ParamAssumption
  <2> QED BY <2>1, <2>3, <2>4 DEF Su
<1> HIDE DEF e, t, n, item
<1>7. sread_psn' \in [Se -> [Se -> Nat]]
  <2>1. sread_psn' = [sread_psn EXCEPT ![e][t] = n + 1]
    BY DEF LoopbackRead, e, t, n, item
  <2> QED BY <1>1, <1>2, <1>3, <2>1, Update2 DEF ReadTypeOK
<1>8. sread_psn_to_si' \in [Se -> [Se -> [0 .. PsnRingSize - 1 -> 0 .. WriteRingSize - 1]]]
  <2>1. sread_psn_to_si' = [sread_psn_to_si EXCEPT ![e][t][ReadSlot(n)] = p.si]
    BY DEF LoopbackRead, e, t, n, item
  <2>2. /\ sread_psn_to_si
             \in [Se -> [Se -> [0 .. PsnRingSize - 1 -> 0 .. WriteRingSize - 1]]]
        /\ e \in Se /\ t \in Se
    BY <1>1, <1>2 DEF ReadTypeOK
  <2> DEFINE Slots == 0 .. PsnRingSize - 1
             Ids == 0 .. WriteRingSize - 1
  <2>3. sread_psn_to_si \in [Se -> [Se -> [Slots -> Ids]]]
    BY <2>2
  <2>4. ReadSlot(n) \in Slots /\ p.si \in Ids
    BY <1>4, <1>5
  <2> HIDE DEF Slots, Ids
  <2>5. [sread_psn_to_si EXCEPT ![e][t][ReadSlot(n)] = p.si]
          \in [Se -> [Se -> [Slots -> Ids]]]
    BY <2>2, <2>3, <2>4, Update3
  <2> QED BY <2>1, <2>5 DEF Slots, Ids
<1>9. si_wr_off' \in [Se -> [Su -> [0 .. ReqMtu - 1 -> Nat]]]
  <2>1. si_wr_off' = [si_wr_off EXCEPT ![e][p.si \div ReqMtu][p.si % ReqMtu] = item.wr_off]
    BY DEF LoopbackRead, e, item
  <2>2. si_wr_off \in [Se -> [Su -> [0 .. ReqMtu - 1 -> Nat]]] /\ e \in Se
    BY <1>1 DEF ReadTypeOK
  <2> DEFINE Ids == 0 .. ReqMtu - 1
             u == p.si \div ReqMtu
             i == p.si % ReqMtu
  <2>3. si_wr_off \in [Se -> [Su -> [Ids -> Nat]]] /\ u \in Su /\ i \in Ids
    BY <1>6, <2>2
  <2>4. si_wr_off' = [si_wr_off EXCEPT ![e][u][i] = item.wr_off]
    BY <2>1
  <2> HIDE DEF Ids, u, i
  <2>5. [si_wr_off EXCEPT ![e][u][i] = item.wr_off] \in [Se -> [Su -> [Ids -> Nat]]]
    BY <1>2, <2>2, <2>3, Update3
  <2> QED BY <2>4, <2>5 DEF Ids
<1> QED BY <1>7, <1>8, <1>9

LEMMA ProcessLoopbackType ==
  ASSUME ReadTypeOK, NEW p \in ToSwitch, p.opcode = "LOOPBACK", NEW state,
         ProcessLoopback(p, state)
  PROVE  ReadTypeOK'
<1>1. tx_queue' \in Seq(AnyPacket)
  <2>1. PICK s \in Seq(NotAck) : Send(s)
    BY LoopbackSendsNoAck DEF ReadTypeOK
  <2>2. s \in Seq(AnyPacket)
    BY <2>1 DEF NotAck
  <2> QED BY <2>1, <2>2, SendType DEF ReadTypeOK
<1>2. CASE UNCHANGED readVars
  BY <1>1, <1>2 DEF ReadTypeOK, readVars
<1>3. CASE LoopbackRead(p, state)
  <2>1. UNCHANGED sread_unack_psn
    BY <1>3 DEF LoopbackRead
  <2> QED BY <1>1, <1>3, <2>1, LoopbackReadType DEF ProcessLoopback, ReadTypeOK
<1> QED BY <1>2, <1>3 DEF ProcessLoopback, LoopbackRingFull, LoopbackSplit

-----------------------------------------------------------------------------
(* The cases of process().                                                 *)

\* The registers of the requests keep their types.
RequestTypeOK ==
  /\ se_state \in [Se -> {0, 1}]
  /\ sreq_unack_psn \in [Se -> Nat] /\ se_req_epsn \in [Se -> Nat]
  /\ se_req_msn \in [Se -> Nat] /\ se_wr_addr \in [Se -> Int]
  /\ su_rem \in [Se -> [Su -> Int]]
  /\ su_req_psn \in [Se -> [Su -> Nat]] /\ su_req_msn \in [Se -> [Su -> Nat]]
  /\ su_wr_addr \in [Se -> [Su -> Int]]

\* The registers of the write side keep their types.
WriteTypeOK ==
  /\ swrite_psn \in [Se -> Nat]
  /\ swrite_psn_to_su \in [Se -> [0 .. WriteRingSize - 1 -> Su]]

LEMMA SwitchTypeParts ==
  /\ SwitchTypeOK
     <=> rx_queue \in Seq(ToSwitch) /\ ReadTypeOK /\ RequestTypeOK /\ WriteTypeOK
  /\ SwitchTypeOK'
     <=> rx_queue' \in Seq(ToSwitch) /\ ReadTypeOK' /\ RequestTypeOK' /\ WriteTypeOK'
BY DEF SwitchTypeOK, ReadTypeOK, RequestTypeOK, WriteTypeOK, AnyPacket

LEMMA LoopbackStepType ==
  ASSUME SwitchTypeOK, NEW p \in ToSwitch, Loopback(p), rx_queue' \in Seq(ToSwitch)
  PROVE  SwitchTypeOK'
<1>1. ReadTypeOK'
  BY ProcessLoopbackType, SwitchTypeParts DEF Loopback
<1>2. RequestTypeOK'
  BY SwitchTypeParts DEF Loopback, RequestTypeOK, requestVars
<1>3. WriteTypeOK'
  BY SwitchTypeParts DEF Loopback, WriteTypeOK, writeVars
<1> QED BY <1>1, <1>2, <1>3, SwitchTypeParts

LEMMA UnchangedType ==
  ASSUME SwitchTypeOK, rx_queue' \in Seq(ToSwitch),
         UNCHANGED <<tx_queue, se_state, su_rem, requestVars, readVars, writeVars>>
  PROVE  SwitchTypeOK'
BY DEF SwitchTypeOK, requestVars, readVars, writeVars

LEMMA RequestDuplicateType ==
  ASSUME SwitchTypeOK, NEW p \in ToSwitch, RequestDuplicate(p), rx_queue' \in Seq(ToSwitch)
  PROVE  SwitchTypeOK'
<1>1. p.smac \in Se /\ p.psn \in Nat
  BY PacketFields
<1>2. sreq_unack_psn[p.smac] - 1 \in Nat /\ se_req_msn[p.smac] \in Nat
  <2>1. sreq_unack_psn[p.smac] \in Nat /\ p.psn < sreq_unack_psn[p.smac]
    BY <1>1 DEF SwitchTypeOK, RequestDuplicate, AlreadyAcked
  <2>2. se_req_msn[p.smac] \in Nat
    BY <1>1 DEF SwitchTypeOK
  <2> QED BY <1>1, <2>1, <2>2
<1> DEFINE n == sreq_unack_psn[p.smac] - 1
           m == se_req_msn[p.smac]
           e == p.smac
<1>3. Send(<<[ToRequester(e, "ACK", n) EXCEPT !.msn = m]>>)
  BY DEF RequestDuplicate
<1>4. n \in Nat /\ m \in Nat /\ e \in Se
  BY <1>1, <1>2
<1> HIDE DEF n, m, e
<1>5. [ToRequester(e, "ACK", n) EXCEPT !.msn = m] \in AnyPacket
  BY <1>4, AckType
<1>6. tx_queue' \in Seq(AnyPacket)
  <2>1. <<[ToRequester(e, "ACK", n) EXCEPT !.msn = m]>> \in Seq(AnyPacket)
    BY <1>5
  <2> QED BY <1>3, <2>1, SendType, SwitchTypeParts DEF ReadTypeOK
<1>7. ReadTypeOK'
  BY <1>6, SwitchTypeParts DEF RequestDuplicate, readVars, ReadTypeOK
<1>8. RequestTypeOK' /\ WriteTypeOK'
  BY SwitchTypeParts
     DEF RequestDuplicate, requestVars, writeVars, RequestTypeOK, WriteTypeOK
<1> QED BY <1>7, <1>8, SwitchTypeParts

LEMMA RequestExpectedType ==
  ASSUME SwitchTypeOK, NEW p \in ToSwitch, RequestExpected(p), rx_queue' \in Seq(ToSwitch)
  PROVE  SwitchTypeOK'
<1> DEFINE e == p.smac
           u == UnitOf(p.psn)
<1>1. e \in Se /\ p.psn \in Nat /\ p.addr \in Int /\ Len(p.data) \in Int
  BY PacketFields
<1>2. u \in Su
  BY <1>1, SlotType
<1>3. RequestTypeOK
  BY SwitchTypeParts
<1>4. ReadTypeOK'
  <2>1. p.opcode # "LOOPBACK" /\ ProcessLoopback(AsLoopback(p), se_state[e])
    BY DEF RequestExpected, IsRequest
  <2>2. AsLoopback(p) \in ToSwitch /\ AsLoopback(p).opcode = "LOOPBACK"
    BY <2>1, AsLoopbackType
  <2> QED BY <2>1, <2>2, ProcessLoopbackType, SwitchTypeParts
<1>5. UNCHANGED <<se_state, sreq_unack_psn, writeVars>>
  BY DEF RequestExpected
<1>6. se_req_epsn' \in [Se -> Nat]
  <2>1. se_req_epsn[e] + 1 \in Nat
    BY <1>1, <1>3 DEF RequestTypeOK
  <2> QED BY <1>3, <2>1 DEF RequestExpected, RequestTypeOK
<1>7. se_req_msn' \in [Se -> Nat]
  <2>1. se_req_msn[e] + 1 \in Nat /\ se_req_msn[e] \in Nat
    BY <1>1, <1>3 DEF RequestTypeOK
  <2> QED BY <1>3, <2>1 DEF RequestExpected, RequestTypeOK
<1>8. se_wr_addr' \in [Se -> Int]
  BY <1>1, <1>3 DEF RequestExpected, RequestTypeOK
<1>9. /\ su_wr_addr' = [su_wr_addr EXCEPT ![e][u] = se_wr_addr'[e]]
      /\ su_req_psn' = [su_req_psn EXCEPT ![e][u] = p.psn]
      /\ su_req_msn' = [su_req_msn EXCEPT ![e][u] = se_req_msn'[e]]
      /\ su_rem' = [su_rem EXCEPT ![e][u] = Len(p.data)]
  BY DEF RequestExpected
<1>10. se_wr_addr'[e] \in Int /\ se_req_msn'[e] \in Nat
  BY <1>1, <1>7, <1>8
<1>11. /\ su_wr_addr \in [Se -> [Su -> Int]] /\ su_req_psn \in [Se -> [Su -> Nat]]
       /\ su_req_msn \in [Se -> [Su -> Nat]] /\ su_rem \in [Se -> [Su -> Int]]
  BY <1>3 DEF RequestTypeOK
<1> HIDE DEF e, u
<1>12. /\ su_wr_addr' \in [Se -> [Su -> Int]] /\ su_req_psn' \in [Se -> [Su -> Nat]]
       /\ su_req_msn' \in [Se -> [Su -> Nat]] /\ su_rem' \in [Se -> [Su -> Int]]
  BY <1>1, <1>2, <1>9, <1>10, <1>11
<1>13. RequestTypeOK' /\ WriteTypeOK'
  BY <1>3, <1>5, <1>6, <1>7, <1>8, <1>12, SwitchTypeParts
     DEF RequestTypeOK, WriteTypeOK, writeVars
<1> QED BY <1>4, <1>13, SwitchTypeParts

LEMMA RequestRetriedType ==
  ASSUME SwitchTypeOK, NEW p \in ToSwitch, RequestRetried(p), rx_queue' \in Seq(ToSwitch)
  PROVE  SwitchTypeOK'
<1>1. p.smac \in Se /\ p.psn \in Nat /\ Len(p.data) \in Int
  BY PacketFields
<1>2. UnitOf(p.psn) \in Su
  BY <1>1, SlotType
<1>3. ReadTypeOK'
  <2>1. p.opcode # "LOOPBACK" /\ ProcessLoopback(AsLoopback(p), 1)
    BY DEF RequestRetried, IsRequest
  <2>2. AsLoopback(p) \in ToSwitch /\ AsLoopback(p).opcode = "LOOPBACK"
    BY <2>1, AsLoopbackType
  <2> QED BY <2>1, <2>2, ProcessLoopbackType, SwitchTypeParts
<1>4. RequestTypeOK'
  BY <1>1, <1>2, SwitchTypeParts DEF RequestRetried, RequestTypeOK, requestVars
<1>5. WriteTypeOK'
  BY SwitchTypeParts DEF RequestRetried, WriteTypeOK, writeVars
<1> QED BY <1>3, <1>4, <1>5, SwitchTypeParts

LEMMA WriteAckType ==
  ASSUME SwitchTypeOK, NEW p \in ToSwitch, WriteAck(p), rx_queue' \in Seq(ToSwitch)
  PROVE  SwitchTypeOK'
<1> DEFINE e == p.smac
           u == WrittenUnit(p)
           n == su_req_psn[e][u]
           m == su_req_msn[e][u]
           ack == [ToRequester(e, "ACK", n) EXCEPT !.msn = m]
<1>1. e \in Se /\ p.psn \in Nat
  BY PacketFields
<1>2. u \in Su
  BY <1>1, SlotType, SwitchTypeParts DEF WriteTypeOK, WrittenUnit
<1>3. n \in Nat /\ m \in Nat
  <2>1. su_req_psn \in [Se -> [Su -> Nat]] /\ su_req_msn \in [Se -> [Su -> Nat]]
    BY SwitchTypeParts DEF RequestTypeOK
  <2> HIDE DEF e, u
  <2> QED BY <1>1, <1>2, <2>1
<1>4. Send(IF se_state[e] = 0 THEN <<>> ELSE <<ack>>)
  BY DEF WriteAck
<1>5. ack \in AnyPacket
  <2> HIDE DEF e, n, m
  <2> QED BY <1>1, <1>3, AckType
<1>6. ReadTypeOK'
  <2>1. (IF se_state[e] = 0 THEN <<>> ELSE <<ack>>) \in Seq(AnyPacket)
    BY <1>5
  <2>2. tx_queue' \in Seq(AnyPacket)
    BY <1>4, <2>1, SendType, SwitchTypeParts DEF ReadTypeOK
  <2> QED BY <2>2, SwitchTypeParts DEF WriteAck, readVars, ReadTypeOK
<1>7. RequestTypeOK'
  <2>1. sreq_unack_psn[e] + 1 \in Nat
    BY <1>1, SwitchTypeParts DEF RequestTypeOK
  <2> QED BY <2>1, SwitchTypeParts DEF WriteAck, RequestTypeOK
<1>8. WriteTypeOK'
  BY SwitchTypeParts DEF WriteAck, WriteTypeOK, writeVars
<1> QED BY <1>6, <1>7, <1>8, SwitchTypeParts

LEMMA WriteNakType ==
  ASSUME SwitchTypeOK, NEW p \in ToSwitch, WriteNak(p), rx_queue' \in Seq(ToSwitch)
  PROVE  SwitchTypeOK'
<1>1. p.smac \in Se /\ p.psn \in Nat
  BY PacketFields
<1> QED BY <1>1 DEF SwitchTypeOK, WriteNak, requestVars, readVars

LEMMA ReadResponseInOrderType ==
  ASSUME SwitchTypeOK, NEW p \in ToSwitch, ReadResponseInOrder(p),
         rx_queue' \in Seq(ToSwitch)
  PROVE  SwitchTypeOK'
<1> DEFINE e == p.dqpn
           t == p.smac
           si == sread_psn_to_si[e][t][ReadSlot(p.psn)]
           u == si \div ReqMtu
           n == swrite_psn[e]
           rem == su_rem[e][u] - 1
           off == si_wr_off[e][u][si % ReqMtu]
           addr == su_wr_addr[e][u] + off
           ask == IF rem = 0 THEN 1 ELSE 0
           write == [NewPacket("WRITE_ONLY", SwitchMac, e, SWriteQpn, n) EXCEPT
                       !.ackreq = ask, !.data = p.data, !.addr = addr]
<1>1. e \in Se /\ t \in Se /\ p.psn \in Nat /\ p.data \in Seq(Int)
  BY PacketFields DEF ReadResponseInOrder, IsReadAnswer
<1>2. ReadTypeOK /\ RequestTypeOK /\ WriteTypeOK
  BY SwitchTypeParts
<1>3. /\ Send(<<write>>)
      /\ sread_unack_psn' = [sread_unack_psn EXCEPT ![e][t] = p.psn + 1]
      /\ swrite_psn' = [swrite_psn EXCEPT ![e] = n + 1]
      /\ swrite_psn_to_su' = [swrite_psn_to_su EXCEPT ![e][WriteSlot(n)] = u]
      /\ su_rem' = [su_rem EXCEPT ![e][u] = rem]
      /\ UNCHANGED <<se_state, requestVars, sread_psn, sread_psn_to_si, si_wr_off>>
  BY DEF ReadResponseInOrder
<1> HIDE DEF e, t
<1>4. si \in 0 .. WriteRingSize - 1
  <2>1. ReadSlot(p.psn) \in 0 .. PsnRingSize - 1
    BY <1>1, SlotType
  <2>2. sread_psn_to_si
          \in [Se -> [Se -> [0 .. PsnRingSize - 1 -> 0 .. WriteRingSize - 1]]]
    BY <1>2 DEF ReadTypeOK
  <2> DEFINE Slots == 0 .. PsnRingSize - 1
             Ids == 0 .. WriteRingSize - 1
             s == ReadSlot(p.psn)
  <2>3. sread_psn_to_si \in [Se -> [Se -> [Slots -> Ids]]] /\ s \in Slots
    BY <2>1, <2>2
  <2> HIDE DEF Slots, Ids, s
  <2>4. sread_psn_to_si[e][t][s] \in Ids
    BY <1>1, <2>3, Apply3
  <2> QED BY <2>4 DEF Ids, s
<1> HIDE DEF si
<1>5. u \in Su /\ (si % ReqMtu) \in 0 .. ReqMtu - 1
  <2>1. si \in Nat /\ si < SuPSe * ReqMtu
    BY <1>4, RingSize DEF WriteRingSize
  <2>2. (si \div ReqMtu) \in 0 .. SuPSe - 1
    BY <2>1, DivBound, ParamAssumption
  <2>3. (si % ReqMtu) \in 0 .. ReqMtu - 1
    BY <2>1, ModType, ParamAssumption
  <2> QED BY <2>2, <2>3 DEF Su
<1> HIDE DEF u
<1>6. n \in Nat /\ n + 1 \in Nat /\ p.psn + 1 \in Nat
  BY <1>1, <1>2 DEF WriteTypeOK
<1>7. rem \in Int
  <2>1. su_rem \in [Se -> [Su -> Int]]
    BY <1>2 DEF RequestTypeOK
  <2>2. su_rem[e][u] \in Int
    BY <1>1, <1>5, <2>1
  <2> QED BY <2>2
<1>8. addr \in Int
  <2>1. su_wr_addr \in [Se -> [Su -> Int]] /\ si_wr_off \in [Se -> [Su -> [0 .. ReqMtu - 1 -> Nat]]]
    BY <1>2 DEF RequestTypeOK, ReadTypeOK
  <2>2. su_wr_addr[e][u] \in Int
    BY <1>1, <1>5, <2>1
  <2> DEFINE Ids == 0 .. ReqMtu - 1
             i == si % ReqMtu
  <2>4. si_wr_off \in [Se -> [Su -> [Ids -> Nat]]] /\ i \in Ids
    BY <1>5, <2>1
  <2>3. off \in Nat
    <3> HIDE DEF Ids, i
    <3> QED BY <1>1, <1>5, <2>4, Apply3 DEF i
  <2> QED BY <2>2, <2>3
<1>9. ask \in {0, 1}
  OBVIOUS
<1> HIDE DEF n, rem, addr, ask
<1>10. write \in AnyPacket
  <2>1. "WRITE_ONLY" \in Opcodes /\ <<e, SWriteQpn>> \in Qps /\ SWriteQpn \in Int
    BY <1>1, Destinations DEF Opcodes, WriteOps
  <2>2. write \in FromSwitch
    BY <1>1, <1>6, <1>8, <1>9, <2>1, NewPacketType
  <2> QED BY <2>2 DEF AnyPacket
<1> HIDE DEF write
<1>11. tx_queue' \in Seq(AnyPacket)
  <2>1. <<write>> \in Seq(AnyPacket)
    BY <1>10
  <2> QED BY <1>2, <1>3, <2>1, SendType DEF ReadTypeOK
<1>12. ReadTypeOK'
  <2>1. sread_unack_psn \in [Se -> [Se -> Nat]]
    BY <1>2 DEF ReadTypeOK
  <2>2. sread_unack_psn' \in [Se -> [Se -> Nat]]
    BY <1>1, <1>3, <1>6, <2>1
  <2> QED BY <1>2, <1>3, <1>11, <2>2 DEF ReadTypeOK
<1>13. RequestTypeOK'
  <2>1. su_rem \in [Se -> [Su -> Int]]
    BY <1>2 DEF RequestTypeOK
  <2>2. su_rem' \in [Se -> [Su -> Int]]
    BY <1>1, <1>3, <1>5, <1>7, <2>1
  <2> QED BY <1>2, <1>3, <2>2 DEF RequestTypeOK, requestVars
<1>14. WriteTypeOK'
  <2>1. WriteSlot(n) \in 0 .. WriteRingSize - 1
    BY <1>6, SlotType
  <2>2. swrite_psn_to_su \in [Se -> [0 .. WriteRingSize - 1 -> Su]]
        /\ swrite_psn \in [Se -> Nat]
    BY <1>2 DEF WriteTypeOK
  <2> DEFINE s == WriteSlot(n)
             Slots == 0 .. WriteRingSize - 1
  <2>5. swrite_psn_to_su \in [Se -> [Slots -> Su]] /\ s \in Slots
        /\ swrite_psn_to_su' = [swrite_psn_to_su EXCEPT ![e][s] = u]
    BY <1>3, <2>1, <2>2
  <2> HIDE DEF s, Slots
  <2>6. swrite_psn_to_su' \in [Se -> [Slots -> Su]]
    BY <1>1, <1>5, <2>5, Update2
  <2>3. swrite_psn_to_su' \in [Se -> [0 .. WriteRingSize - 1 -> Su]]
    BY <2>6 DEF Slots
  <2>4. swrite_psn' \in [Se -> Nat]
    BY <1>1, <1>3, <1>6, <2>2
  <2> QED BY <2>3, <2>4 DEF WriteTypeOK
<1> QED BY <1>12, <1>13, <1>14, SwitchTypeParts

LEMMA ReadAnswerType ==
  ASSUME SwitchTypeOK, NEW p \in ToSwitch, ReadResponseIgnored(p) \/ ReadNak(p),
         rx_queue' \in Seq(ToSwitch)
  PROVE  SwitchTypeOK'
<1>1. p.dqpn \in Se /\ p.smac \in Se /\ p.psn \in Nat /\ p.psn + 1 \in Nat
  BY PacketFields DEF ReadResponseIgnored, ReadNak, IsReadAnswer
<1>2. CASE ReadResponseIgnored(p)
  <2>1. sread_unack_psn' \in [Se -> [Se -> Nat]]
    BY <1>1, <1>2 DEF SwitchTypeOK, ReadResponseIgnored
  <2> QED BY <1>2, <2>1
          DEF SwitchTypeOK, ReadResponseIgnored, requestVars, writeVars
<1>3. CASE ReadNak(p)
  <2>1. sread_unack_psn' \in [Se -> [Se -> Nat]] /\ sread_psn' \in [Se -> [Se -> Nat]]
    BY <1>1, <1>3 DEF SwitchTypeOK, ReadNak
  <2>2. se_state' \in [Se -> {0, 1}]
    BY <1>1, <1>3 DEF SwitchTypeOK, ReadNak
  <2> QED BY <1>3, <2>1, <2>2 DEF SwitchTypeOK, ReadNak, requestVars, writeVars
<1> QED BY <1>2, <1>3

\* Handling a packet keeps the types.
LEMMA SwitchRxOnceType ==
  ASSUME SwitchTypeOK, SwitchRxOnce
  PROVE  SwitchTypeOK'
<1> DEFINE p == Head(rx_queue)
<1>1. p \in ToSwitch /\ rx_queue' \in Seq(ToSwitch)
  BY DEF SwitchTypeOK, SwitchRxOnce
<1>2. Process(p)
  BY DEF SwitchRxOnce
<1> HIDE DEF p
<1>3. CASE Loopback(p)
  BY <1>1, <1>3, LoopbackStepType
<1>4. CASE RequestDropped(p) \/ WriteAckOutOfTurn(p)
  BY <1>1, <1>4, UnchangedType DEF RequestDropped, WriteAckOutOfTurn
<1>5. CASE RequestDuplicate(p)
  BY <1>1, <1>5, RequestDuplicateType
<1>6. CASE RequestExpected(p)
  BY <1>1, <1>6, RequestExpectedType
<1>7. CASE RequestRetried(p)
  BY <1>1, <1>7, RequestRetriedType
<1>8. CASE WriteAck(p)
  BY <1>1, <1>8, WriteAckType
<1>9. CASE WriteNak(p)
  BY <1>1, <1>9, WriteNakType
<1>10. CASE ReadResponseInOrder(p)
  BY <1>1, <1>10, ReadResponseInOrderType
<1>11. CASE ReadResponseIgnored(p) \/ ReadNak(p)
  BY <1>1, <1>11, ReadAnswerType
<1> QED BY <1>2, <1>3, <1>4, <1>5, <1>6, <1>7, <1>8, <1>9, <1>10, <1>11 DEF Process

-----------------------------------------------------------------------------
(* Types: the protocol.                                                    *)

LEMMA InitType == Init => TypeOK
<1> SUFFICES ASSUME Init PROVE TypeOK
  OBVIOUS
<1>1. WrNum \in Nat
  BY ParamAssumption, CeilDivType DEF WrNum
<1>2. ASSUME NEW e \in Se PROVE [i \in 1 .. WrNum |-> Wr(i - 1)] \in Seq(Wrs)
  <2>1. \A i \in 1 .. WrNum : Wr(i - 1) \in Wrs
    BY <1>1 DEF Wrs
  <2> QED BY <1>1, <2>1
<1>3. sq \in [Se -> Seq(Wrs)]
  BY <1>2 DEF Init, QpInit
<1>4. buf \in [Se -> [Addr -> Int]]
  <2>1. \A e \in Se, a \in Addr : InitBuf[e][a] \in Int
    BY ParamAssumption DEF InitBuf, Element, NoVal, Se, Addr
  <2>2. InitBuf \in [Se -> [Addr -> Int]]
    BY <2>1 DEF InitBuf
  <2> QED BY <2>2 DEF Init, QpInit
<1>5. QpTypeOK
  BY <1>3, <1>4, ParamAssumption DEF Init, QpInit, QpTypeOK
<1>6. SwitchTypeOK
  <2>1. 0 \in Su /\ 0 \in 0 .. WriteRingSize - 1 /\ 0 \in Nat /\ 0 \in Int
    BY RingSize, ParamAssumption DEF Su
  <2> QED BY <2>1 DEF Init, SwitchInit, SwitchTypeOK
<1>7. losses \in 0 .. MaxLoss
  BY ShuffleAssumption DEF Init
<1> QED BY <1>5, <1>6, <1>7 DEF TypeOK

LEMMA ArriveType ==
  ASSUME TypeOK, NEW p \in ToSwitch, Arrive(p),
         UNCHANGED <<tx_queue, se_state, su_rem, requestVars, readVars, writeVars>>
  PROVE  SwitchTypeOK' /\ losses' \in 0 .. MaxLoss
<1>1. rx_queue' \in Seq(ToSwitch)
  <2>1. rx_queue \in Seq(ToSwitch)
    BY DEF TypeOK, SwitchTypeOK
  <2>2. Append(rx_queue, p) \in Seq(ToSwitch)
    BY <2>1
  <2> QED BY <2>1, <2>2 DEF Arrive
<1>2. losses' \in 0 .. MaxLoss
  BY ShuffleAssumption DEF Arrive, Lose, TypeOK
<1> QED BY <1>1, <1>2, UnchangedType DEF TypeOK

LEMMA QpUnchanged ==
  ASSUME QpTypeOK, UNCHANGED <<requesterVars, responderVars>>,
         qp_tx' \in [Qps -> Seq(ToSwitch)], qp_rx' \in [Qps -> Seq(FromSwitch)]
  PROVE  QpTypeOK'
BY DEF QpTypeOK, requesterVars, responderVars

\* The switch has sent the packet at the head of its queue.
LEMMA SwitchTxType ==
  ASSUME TypeOK, SwitchTx
  PROVE  TypeOK'
<1> DEFINE p == Head(tx_queue)
           q == <<p.dmac, p.dqpn>>
<1>1. p \in AnyPacket /\ tx_queue' \in Seq(AnyPacket)
  BY DEF SwitchTx, TypeOK, SwitchTypeOK, AnyPacket
<1>2. rx_queue' \in Seq(ToSwitch) /\ qp_rx' \in [Qps -> Seq(FromSwitch)]
  <2>1. CASE p.dmac = SwitchMac /\ rx_queue' = Append(rx_queue, p) /\ UNCHANGED qp_rx
    <3>1. p \in ToSwitch
      BY <1>1, <2>1, QpNames DEF AnyPacket, FromSwitch, Qps
    <3> QED BY <2>1, <3>1 DEF TypeOK, SwitchTypeOK, QpTypeOK
  <2>2. CASE q \in Qps /\ qp_rx' = [qp_rx EXCEPT ![q] = Append(@, p)] /\ UNCHANGED rx_queue
    <3>1. p.dmac \in Se
      BY <2>2 DEF Qps
    <3>2. p \in FromSwitch
      BY <1>1, <3>1, QpNames DEF AnyPacket, ToSwitch
    <3> QED BY <2>2, <3>2 DEF TypeOK, SwitchTypeOK, QpTypeOK
  <2>3. CASE UNCHANGED <<rx_queue, qp_rx>>
    BY <2>3 DEF TypeOK, SwitchTypeOK, QpTypeOK
  <2> QED BY <2>1, <2>2, <2>3 DEF SwitchTx
<1>3. losses' \in 0 .. MaxLoss
  BY ShuffleAssumption DEF SwitchTx, Lose, TypeOK
<1>4. UNCHANGED <<requesterVars, responderVars, qp_tx, se_state, su_rem,
                  requestVars, readVars, writeVars>>
  BY DEF SwitchTx
<1>5. QpTypeOK'
  BY <1>2, <1>4, QpUnchanged DEF TypeOK, QpTypeOK
<1>6. SwitchTypeOK'
  BY <1>1, <1>2, <1>4
     DEF TypeOK, SwitchTypeOK, AnyPacket, requestVars, readVars, writeVars
<1> QED BY <1>3, <1>5, <1>6 DEF TypeOK

LEMMA StutterType ==
  ASSUME TypeOK, UNCHANGED vars
  PROVE  TypeOK'
BY DEF TypeOK, QpTypeOK, SwitchTypeOK, vars, qpVars, switchVars, requesterVars,
       responderVars, requestVars, readVars, writeVars

LEMMA SwitchVarsUnchanged ==
  ASSUME TypeOK, UNCHANGED <<switchVars, losses>>
  PROVE  SwitchTypeOK' /\ losses' \in 0 .. MaxLoss
BY DEF TypeOK, SwitchTypeOK, switchVars, requestVars, readVars, writeVars

\* Every step keeps the types.
LEMMA NextType ==
  ASSUME TypeOK, [Next]_vars
  PROVE  TypeOK'
<1>1. ASSUME NEW e \in Se, RequestTx(e) PROVE TypeOK'
  <2>1. QpTypeOK' /\ Head(TxOut(e)) \in ToSwitch
    BY <1>1, TxOnceType DEF TypeOK, RequestTx
  <2>2. SwitchTypeOK' /\ losses' \in 0 .. MaxLoss
    BY <1>1, <2>1, ArriveType DEF RequestTx
  <2> QED BY <2>1, <2>2 DEF TypeOK
<1>2. ASSUME NEW e \in Se, ~Raised, Timeout(e) PROVE TypeOK'
  <2>1. QpTypeOK'
    BY <1>2, RetryType DEF TypeOK, Raised, Timeout
  <2>2. SwitchTypeOK' /\ losses' \in 0 .. MaxLoss
    BY <1>2, SwitchVarsUnchanged DEF Timeout
  <2> QED BY <2>1, <2>2 DEF TypeOK
<1>3. ASSUME NEW q \in Qps, ResponderTx(q) PROVE TypeOK'
  <2>1. Head(qp_tx[q]) \in ToSwitch /\ Tail(qp_tx[q]) \in Seq(ToSwitch)
    BY <1>3 DEF TypeOK, QpTypeOK, ResponderTx
  <2>2. SwitchTypeOK' /\ losses' \in 0 .. MaxLoss
    BY <1>3, <2>1, ArriveType DEF ResponderTx
  <2>3. qp_tx' \in [Qps -> Seq(ToSwitch)] /\ qp_rx' \in [Qps -> Seq(FromSwitch)]
    BY <1>3, <2>1 DEF TypeOK, QpTypeOK, ResponderTx
  <2>4. QpTypeOK'
    BY <1>3, <2>3, QpUnchanged DEF TypeOK, ResponderTx
  <2> QED BY <2>2, <2>4 DEF TypeOK
<1>4. ASSUME NEW q \in Qps, QpRx(q) PROVE TypeOK'
  <2>1. QpTypeOK'
    BY <1>4, QpRxOnceType DEF TypeOK, QpRx
  <2>2. SwitchTypeOK' /\ losses' \in 0 .. MaxLoss
    BY <1>4, SwitchVarsUnchanged DEF QpRx
  <2> QED BY <2>1, <2>2 DEF TypeOK
<1>5. CASE SwitchTx
  BY <1>5, SwitchTxType
<1>6. CASE SwitchRx
  <2>1. SwitchTypeOK'
    BY <1>6, SwitchRxOnceType DEF TypeOK, SwitchRx
  <2>2. QpTypeOK' /\ losses' \in 0 .. MaxLoss
    BY <1>6 DEF TypeOK, QpTypeOK, SwitchRx, qpVars, requesterVars, responderVars
  <2> QED BY <2>1, <2>2 DEF TypeOK
<1>7. CASE UNCHANGED vars
  BY <1>7, StutterType
<1> QED BY <1>1, <1>2, <1>3, <1>4, <1>5, <1>6, <1>7 DEF Next, Running, Stopped

(* Packets, registers and queues keep their types whatever is lost and     *)
(* whenever timers fire: in particular no handler of the switch indexes a  *)
(* register array out of its bounds.                                       *)
THEOREM TypeCorrect == Spec => []TypeOK
<1>1. TypeOK /\ [Next]_vars => TypeOK'
  BY NextType
<1> QED BY InitType, <1>1, PTL DEF Spec

-----------------------------------------------------------------------------
(***************************************************************************)
(* The request window: for every value of the parameters, every loss and   *)
(* every timing, the switch never works on more requests of an endpoint    *)
(* than it has units, never gives a unit away that is still in use, and    *)
(* never lets the requester believe a request done that is not.            *)
(***************************************************************************)

\* An acknowledgment on its way from the switch to a requester.
IsAck(p) == p.smac = SwitchMac /\ p.opcode = "ACK"

\* A unit holds the latest request of its turn, 0 before it has held any.
UnitsHold ==
  \A e \in Se : \A u \in Su :
    su_req_psn[e][u] = 0
    \/ (UnitOf(su_req_psn[e][u]) = u /\ su_req_psn[e][u] < se_req_epsn[e])

\* ACKs on their way to a requester are for requests the switch has retired.
AcksSent ==
  \A i \in 1 .. Len(tx_queue) :
    IsAck(tx_queue[i]) => tx_queue[i].psn < sreq_unack_psn[tx_queue[i].dmac]
AcksArrived ==
  \A q \in Qps : \A i \in 1 .. Len(qp_rx[q]) :
    qp_rx[q][i].opcode = "ACK" => qp_rx[q][i].psn < sreq_unack_psn[q[1]]

WindowInv == WindowBounded /\ UnitsHold /\ AcksSent /\ AcksArrived /\ AckedIsRetired

LEMMA InitWindow == Init => WindowInv
<1> SUFFICES ASSUME Init PROVE WindowInv
  OBVIOUS
<1>1. WindowBounded /\ AckedIsRetired
  BY ParamAssumption DEF Init, QpInit, SwitchInit, WindowBounded, AckedIsRetired
<1>2. UnitsHold
  BY DEF Init, SwitchInit, UnitsHold
<1>3. AcksSent
  BY DEF Init, SwitchInit, AcksSent
<1>4. AcksArrived
  BY DEF Init, QpInit, AcksArrived
<1> QED BY <1>1, <1>2, <1>3, <1>4 DEF WindowInv

-----------------------------------------------------------------------------
(* Queues.                                                                 *)

LEMMA SendAcks ==
  ASSUME tx_queue \in Seq(AnyPacket), NEW s \in Seq(AnyPacket), Send(s), AcksSent,
         \A e \in Se : sreq_unack_psn[e] \in Nat /\ sreq_unack_psn'[e] \in Nat
                       /\ sreq_unack_psn[e] <= sreq_unack_psn'[e],
         \A i \in 1 .. Len(s) : IsAck(s[i]) => s[i].psn < sreq_unack_psn'[s[i].dmac]
  PROVE  AcksSent'
<1> DEFINE n == Len(tx_queue)
           m == Len(s)
           t == tx_queue \o s
<1>1. n \in Nat /\ m \in Nat /\ tx_queue' = t /\ Len(t) = n + m
  BY DEF Send
<1>2. \A i \in 1 .. n : t[i] = tx_queue[i]
  OBVIOUS
<1>3. \A i \in n + 1 .. n + m : t[i] = s[i - n]
  OBVIOUS
<1>4. ASSUME NEW i \in 1 .. n + m, IsAck(t[i])
      PROVE  t[i].psn < sreq_unack_psn'[t[i].dmac]
  <2>1. CASE i \in 1 .. n
    <3>1. t[i] \in AnyPacket /\ t[i] = tx_queue[i]
      BY <1>2, <2>1
    <3>2. t[i].psn \in Nat /\ t[i].dmac \in Se
      BY <1>4, <3>1, QpNames
         DEF AnyPacket, ToSwitch, FromSwitch, Packets, Qps, IsAck
    <3>3. t[i].psn < sreq_unack_psn[t[i].dmac]
      BY <1>4, <2>1, <3>1 DEF AcksSent
    <3> HIDE DEF t
    <3> QED BY <3>2, <3>3
  <2>2. CASE i \in n + 1 .. n + m
    <3>1. i - n \in 1 .. m /\ t[i] = s[i - n]
      BY <1>1, <1>3, <2>2
    <3> HIDE DEF t, m, n
    <3> QED BY <1>4, <3>1 DEF m
  <2>3. i \in 1 .. n \/ i \in n + 1 .. n + m
    BY <1>1
  <2> QED BY <2>1, <2>2, <2>3
<1> HIDE DEF t, n, m
<1> QED BY <1>1, <1>4 DEF AcksSent, IsAck

\* What a QP has received stays acknowledged when the window moves on.
LEMMA ArrivedKept ==
  ASSUME qp_rx \in [Qps -> Seq(FromSwitch)], AcksArrived, UNCHANGED qp_rx,
         \A e \in Se : sreq_unack_psn[e] \in Nat /\ sreq_unack_psn'[e] \in Nat
                       /\ sreq_unack_psn[e] <= sreq_unack_psn'[e]
  PROVE  AcksArrived'
<1> SUFFICES ASSUME NEW q \in Qps, NEW i \in 1 .. Len(qp_rx[q]), qp_rx[q][i].opcode = "ACK"
             PROVE  qp_rx[q][i].psn < sreq_unack_psn'[q[1]]
  BY DEF AcksArrived
<1>1. qp_rx[q][i] \in FromSwitch /\ q[1] \in Se
  BY QpNames
<1>2. qp_rx[q][i].psn \in Nat
  BY <1>1 DEF FromSwitch, Packets
<1>3. qp_rx[q][i].psn < sreq_unack_psn[q[1]]
  BY DEF AcksArrived
<1> QED BY <1>1, <1>2, <1>3

-----------------------------------------------------------------------------
(* Steps of the switch.                                                    *)

LEMMA SentOneType ==
  ASSUME tx_queue \in Seq(AnyPacket), tx_queue' \in Seq(AnyPacket), NEW w, Send(<<w>>)
  PROVE  w \in AnyPacket
<1>1. tx_queue' = tx_queue \o <<w>> /\ Len(tx_queue) + 1 \in 1 .. Len(tx_queue')
  BY DEF Send
<1>2. tx_queue'[Len(tx_queue) + 1] = w
  BY <1>1
<1> QED BY <1>1, <1>2

LEMMA WindowTypes ==
  ASSUME TypeOK
  PROVE  /\ tx_queue \in Seq(AnyPacket) /\ qp_rx \in [Qps -> Seq(FromSwitch)]
         /\ sreq_unack_psn \in [Se -> Nat] /\ se_req_epsn \in [Se -> Nat]
         /\ su_req_psn \in [Se -> [Su -> Nat]] /\ old_unack_psn \in [Se -> Nat]
BY DEF TypeOK, QpTypeOK, SwitchTypeOK, AnyPacket

LEMMA SendNotAcks ==
  ASSUME tx_queue \in Seq(AnyPacket), NEW s \in Seq(NotAck), Send(s), AcksSent,
         sreq_unack_psn \in [Se -> Nat], UNCHANGED sreq_unack_psn
  PROVE  AcksSent'
<1>1. s \in Seq(AnyPacket) /\ \A i \in 1 .. Len(s) : ~IsAck(s[i])
  BY DEF NotAck, IsAck
<1> QED BY <1>1, SendAcks

\* The request registers do not change and no ACK is sent to a requester.
LEMMA QuietStep ==
  ASSUME TypeOK, WindowInv, UNCHANGED <<requestVars, qpVars>>,
         NEW s \in Seq(NotAck), Send(s)
  PROVE  WindowInv'
<1>1. UNCHANGED <<sreq_unack_psn, se_req_epsn, su_req_psn, old_unack_psn, qp_rx>>
  BY DEF requestVars, qpVars, requesterVars
<1>2. AcksSent'
  BY <1>1, SendNotAcks, WindowTypes DEF WindowInv
<1> QED BY <1>1, <1>2
        DEF WindowInv, WindowBounded, UnitsHold, AcksArrived, AckedIsRetired

LEMMA QueueUnchanged ==
  ASSUME tx_queue \in Seq(AnyPacket), UNCHANGED tx_queue
  PROVE  \E s \in Seq(NotAck) : Send(s)
<1>1. <<>> \in Seq(NotAck) /\ tx_queue' = tx_queue \o <<>>
  OBVIOUS
<1> QED BY <1>1 DEF Send

LEMMA DuplicateWindow ==
  ASSUME TypeOK, WindowInv, UNCHANGED qpVars, NEW p \in ToSwitch, RequestDuplicate(p)
  PROVE  WindowInv'
<1>1. UNCHANGED <<sreq_unack_psn, se_req_epsn, su_req_psn, old_unack_psn, qp_rx>>
  BY DEF RequestDuplicate, requestVars, qpVars, requesterVars
<1> DEFINE e == p.smac
           n == sreq_unack_psn[e] - 1
           m == se_req_msn[e]
           ack == [ToRequester(e, "ACK", n) EXCEPT !.msn = m]
<1>2. e \in Se /\ sreq_unack_psn[e] \in Nat /\ n \in Nat /\ m \in Nat
  <2>1. e \in Se /\ p.psn \in Nat
    BY PacketFields
  <2>2. sreq_unack_psn[e] \in Nat /\ m \in Nat
    BY <2>1 DEF TypeOK, SwitchTypeOK
  <2>3. p.psn < sreq_unack_psn[e]
    BY DEF RequestDuplicate, AlreadyAcked
  <2> QED BY <2>1, <2>2, <2>3
<1>3. Send(<<ack>>)
  BY DEF RequestDuplicate
<1>4. ack \in AnyPacket /\ ack.psn = n /\ ack.dmac = e
  <2>1. ack.psn = n /\ ack.dmac = e
    BY DEF ToRequester, NewPacket
  <2> HIDE DEF n, m, e
  <2> QED BY <1>2, <2>1, AckType
<1> HIDE DEF ack
<1>5. AcksSent'
  <2>1. <<ack>> \in Seq(AnyPacket) /\ Len(<<ack>>) = 1 /\ <<ack>>[1] = ack
    BY <1>4
  <2>2. ack.psn < sreq_unack_psn'[ack.dmac]
    BY <1>1, <1>2, <1>4
  <2>3. \A i \in 1 .. Len(<<ack>>) : <<ack>>[i] = ack
    BY <2>1
  <2> DEFINE s == <<ack>>
  <2>4. s \in Seq(AnyPacket) /\ Send(s)
        /\ \A i \in 1 .. Len(s) : s[i].psn < sreq_unack_psn'[s[i].dmac]
    BY <1>3, <2>1, <2>2, <2>3
  <2> HIDE DEF s
  <2> QED BY <1>1, <2>4, SendAcks, WindowTypes DEF WindowInv
<1> QED BY <1>1, <1>5
        DEF WindowInv, WindowBounded, UnitsHold, AcksArrived, AckedIsRetired

\* A new request finds its unit free.
LEMMA ExpectedWindow ==
  ASSUME TypeOK, WindowInv, UNCHANGED qpVars, NEW p \in ToSwitch, RequestExpected(p)
  PROVE  WindowInv'
<1> DEFINE e == p.smac
           u == UnitOf(p.psn)
<1>1. UNCHANGED <<sreq_unack_psn, old_unack_psn, qp_rx>>
  BY DEF RequestExpected, qpVars, requesterVars
<1>2. /\ e \in Se /\ p.psn \in Nat /\ u \in Su
      /\ p.psn = se_req_epsn[e] /\ p.psn # sreq_unack_psn[e] + SuPSe
  <2>1. e \in Se /\ p.psn \in Nat
    BY PacketFields
  <2> QED BY <2>1, SlotType
          DEF RequestExpected, Expected, NoUnit, TooEarly, AlreadyAcked
<1>3. /\ se_req_epsn' = [se_req_epsn EXCEPT ![e] = @ + 1]
      /\ su_req_psn' = [su_req_psn EXCEPT ![e][u] = p.psn]
  BY DEF RequestExpected
<1>4. AcksSent'
  <2>1. p.opcode # "LOOPBACK" /\ ProcessLoopback(AsLoopback(p), se_state[e])
    BY DEF RequestExpected, IsRequest
  <2>2. AsLoopback(p) \in ToSwitch /\ AsLoopback(p).opcode = "LOOPBACK"
    BY <2>1, AsLoopbackType
  <2>3. PICK s \in Seq(NotAck) : Send(s)
    BY <2>1, <2>2, LoopbackSendsNoAck DEF TypeOK, SwitchTypeOK
  <2> QED BY <1>1, <2>3, SendNotAcks, WindowTypes DEF WindowInv
<1> HIDE DEF e, u
<1>5. WindowBounded'
  <2>1. ASSUME NEW d \in Se PROVE se_req_epsn'[d] <= sreq_unack_psn'[d] + SuPSe
    <3>1. /\ se_req_epsn[d] \in Nat /\ sreq_unack_psn[d] \in Nat
          /\ se_req_epsn[d] <= sreq_unack_psn[d] + SuPSe
      BY WindowTypes DEF WindowInv, WindowBounded
    <3>2. CASE d = e
      <4>1. se_req_epsn'[d] = se_req_epsn[d] + 1
        BY <1>2, <1>3, <3>2, WindowTypes
      <4> QED BY <1>1, <1>2, <3>1, <3>2, <4>1, ParamAssumption
    <3>3. CASE d # e
      <4>1. se_req_epsn'[d] = se_req_epsn[d]
        BY <1>3, <3>3, WindowTypes
      <4> QED BY <1>1, <3>1, <4>1
    <3> QED BY <3>2, <3>3
  <2> QED BY <2>1 DEF WindowBounded
<1>6. UnitsHold'
  <2>1. ASSUME NEW d \in Se, NEW v \in Su
        PROVE  su_req_psn'[d][v] = 0
               \/ (UnitOf(su_req_psn'[d][v]) = v /\ su_req_psn'[d][v] < se_req_epsn'[d])
    <3>1. se_req_epsn[d] \in Nat /\ su_req_psn[d][v] \in Nat
      BY WindowTypes
    <3>2. CASE d = e /\ v = u
      <4>1. su_req_psn'[d][v] = p.psn /\ se_req_epsn'[d] = se_req_epsn[d] + 1
        BY <1>2, <1>3, <3>2, WindowTypes
      <4> QED BY <1>2, <3>1, <3>2, <4>1 DEF u
    <3>3. CASE ~(d = e /\ v = u)
      <4>1. su_req_psn'[d][v] = su_req_psn[d][v]
        BY <1>2, <1>3, <3>3, WindowTypes
      <4>2. se_req_epsn'[d] \in {se_req_epsn[d], se_req_epsn[d] + 1}
        BY <1>2, <1>3, WindowTypes
      <4>3. su_req_psn[d][v] = 0
            \/ (UnitOf(su_req_psn[d][v]) = v /\ su_req_psn[d][v] < se_req_epsn[d])
        BY DEF WindowInv, UnitsHold
      <4> QED BY <3>1, <4>1, <4>2, <4>3
    <3> QED BY <3>2, <3>3
  <2> QED BY <2>1 DEF UnitsHold
<1> QED BY <1>1, <1>4, <1>5, <1>6 DEF WindowInv, AcksArrived, AckedIsRetired

\* The unit whose turn it is does not hold a request beyond the oldest one.
LEMMA TurnIsOldest ==
  ASSUME TypeOK, WindowInv, NEW e \in Se, NEW u \in Su, UnitOf(sreq_unack_psn[e]) = u
  PROVE  su_req_psn[e][u] <= sreq_unack_psn[e]
<1> DEFINE a == su_req_psn[e][u]
           b == sreq_unack_psn[e]
<1>1. a \in Nat /\ b \in Nat /\ se_req_epsn[e] \in Nat
  BY WindowTypes
<1>2. a = 0 \/ (UnitOf(a) = u /\ a < se_req_epsn[e])
  BY DEF WindowInv, UnitsHold
<1>3. se_req_epsn[e] <= b + SuPSe
  BY DEF WindowInv, WindowBounded
<1>4. UnitOf(b) = u
  OBVIOUS
<1> HIDE DEF a, b
<1>5. CASE a = 0
  <2>1. a <= b
    BY <1>1, <1>5
  <2> QED BY <2>1 DEF a, b
<1>6. CASE UnitOf(a) = u /\ a < se_req_epsn[e]
  <2>1. a % SuPSe = b % SuPSe
    BY <1>4, <1>6 DEF UnitOf
  <2>2. a < b + SuPSe
    BY <1>1, <1>3, <1>6, ParamAssumption
  <2>3. a <= b
    BY <1>1, <2>1, <2>2, SameSlot, ParamAssumption
  <2> QED BY <2>3 DEF a, b
<1> QED BY <1>2, <1>5, <1>6

\* The oldest request is retired and acknowledged.
LEMMA WriteAckWindow ==
  ASSUME TypeOK, WindowInv, UNCHANGED qpVars, NEW p \in ToSwitch, WriteAck(p)
  PROVE  WindowInv'
<1> DEFINE e == p.smac
           u == WrittenUnit(p)
           n == su_req_psn[e][u]
           ack == [ToRequester(e, "ACK", n) EXCEPT !.msn = su_req_msn[e][u]]
           s == IF se_state[e] = 0 THEN <<>> ELSE <<ack>>
<1>1. UNCHANGED <<se_req_epsn, su_req_psn, old_unack_psn, qp_rx>>
  BY DEF WriteAck, qpVars, requesterVars
<1>2. /\ sreq_unack_psn' = [sreq_unack_psn EXCEPT ![e] = @ + 1] /\ Send(s)
      /\ UnitOf(sreq_unack_psn[e]) = u
  BY DEF WriteAck, InTurn
<1>3. e \in Se /\ sreq_unack_psn[e] \in Nat /\ u \in Su
  <2>1. e \in Se
    BY PacketFields
  <2>2. sreq_unack_psn[e] \in Nat
    BY <2>1, WindowTypes
  <2> QED BY <1>2, <2>1, <2>2, SlotType
<1>4. n \in Nat /\ su_req_msn[e][u] \in Nat
  <2> HIDE DEF e, u
  <2>1. su_req_msn \in [Se -> [Su -> Nat]] /\ su_req_psn \in [Se -> [Su -> Nat]]
    BY DEF TypeOK, SwitchTypeOK
  <2> QED BY <1>3, <2>1
<1>5. n <= sreq_unack_psn[e]
  BY <1>2, <1>3, TurnIsOldest
<1>6. ack \in AnyPacket /\ ack.psn = n /\ ack.dmac = e
  <2>1. ack.psn = n /\ ack.dmac = e
    BY DEF ToRequester, NewPacket
  <2>2. ack \in AnyPacket
    <3> DEFINE m == su_req_msn[e][u]
    <3> HIDE DEF n, m, e
    <3> QED BY <1>3, <1>4, AckType DEF m
  <2> QED BY <2>1, <2>2
<1> HIDE DEF e, u, n, ack
<1>7. \A d \in Se : /\ sreq_unack_psn[d] \in Nat /\ sreq_unack_psn'[d] \in Nat
                    /\ sreq_unack_psn[d] <= sreq_unack_psn'[d]
  BY <1>2, <1>3, WindowTypes
<1>8. sreq_unack_psn'[e] = sreq_unack_psn[e] + 1
  BY <1>2, <1>3, WindowTypes
<1>9. AcksSent'
  <2>1. n < sreq_unack_psn'[e]
    BY <1>3, <1>4, <1>5, <1>8
  <2>2. s \in Seq(AnyPacket)
    BY <1>6
  <2>3. \A i \in 1 .. Len(s) : s[i] = ack
    OBVIOUS
  <2>4. \A i \in 1 .. Len(s) : s[i].psn < sreq_unack_psn'[s[i].dmac]
    BY <1>6, <2>1, <2>3
  <2> HIDE DEF s
  <2> QED BY <1>2, <1>7, <2>2, <2>4, SendAcks, WindowTypes DEF WindowInv
<1>10. AcksArrived'
  BY <1>1, <1>7, ArrivedKept, WindowTypes DEF WindowInv
<1>11. WindowBounded'
  <2>1. ASSUME NEW d \in Se PROVE se_req_epsn'[d] <= sreq_unack_psn'[d] + SuPSe
    <3>1. se_req_epsn[d] \in Nat /\ se_req_epsn[d] <= sreq_unack_psn[d] + SuPSe
      BY WindowTypes DEF WindowInv, WindowBounded
    <3> QED BY <1>1, <1>7, <3>1, ParamAssumption
  <2> QED BY <2>1 DEF WindowBounded
<1>12. AckedIsRetired'
  <2>1. ASSUME NEW d \in Se PROVE old_unack_psn'[d] <= sreq_unack_psn'[d]
    <3>1. old_unack_psn[d] \in Nat /\ old_unack_psn[d] <= sreq_unack_psn[d]
      BY WindowTypes DEF WindowInv, AckedIsRetired
    <3> QED BY <1>1, <1>7, <3>1
  <2> QED BY <2>1 DEF AckedIsRetired
<1>13. UnitsHold'
  BY <1>1 DEF WindowInv, UnitsHold
<1> QED BY <1>9, <1>10, <1>11, <1>12, <1>13 DEF WindowInv

LEMMA SwitchRxWindow ==
  ASSUME TypeOK, WindowInv, SwitchRx
  PROVE  WindowInv'
<1> DEFINE p == Head(rx_queue)
<1>1. p \in ToSwitch
  BY DEF TypeOK, SwitchTypeOK, SwitchRx, SwitchRxOnce
<1>2. Process(p) /\ UNCHANGED qpVars
  BY DEF SwitchRx, SwitchRxOnce
<1>3. tx_queue \in Seq(AnyPacket) /\ tx_queue' \in Seq(AnyPacket)
  <2>1. SwitchTypeOK'
    BY SwitchRxOnceType DEF TypeOK, SwitchRx
  <2> QED BY <2>1 DEF TypeOK, SwitchTypeOK, AnyPacket
<1> HIDE DEF p
<1>4. CASE /\ UNCHANGED requestVars
           /\ \E s \in Seq(NotAck) : Send(s)
  BY <1>2, <1>4, QuietStep
<1>5. CASE Loopback(p)
  <2>1. \E s \in Seq(NotAck) : Send(s)
    BY <1>1, <1>5, LoopbackSendsNoAck DEF Loopback, TypeOK, SwitchTypeOK
  <2> QED BY <1>4, <1>5, <2>1 DEF Loopback
<1>6. CASE RequestDropped(p) \/ WriteAckOutOfTurn(p) \/ WriteNak(p)
           \/ ReadResponseIgnored(p) \/ ReadNak(p)
  <2>1. UNCHANGED <<requestVars, tx_queue>>
    BY <1>6 DEF RequestDropped, WriteAckOutOfTurn, WriteNak, ReadResponseIgnored, ReadNak
  <2> QED BY <1>3, <1>4, <2>1, QueueUnchanged
<1>7. CASE RequestDuplicate(p)
  BY <1>1, <1>2, <1>7, DuplicateWindow
<1>8. CASE RequestExpected(p)
  BY <1>1, <1>2, <1>8, ExpectedWindow
<1>9. CASE RequestRetried(p)
  <2>1. p.opcode # "LOOPBACK" /\ ProcessLoopback(AsLoopback(p), 1)
        /\ UNCHANGED requestVars
    BY <1>9 DEF RequestRetried, IsRequest
  <2>2. AsLoopback(p) \in ToSwitch /\ AsLoopback(p).opcode = "LOOPBACK"
    BY <1>1, <2>1, AsLoopbackType
  <2>3. \E s \in Seq(NotAck) : Send(s)
    BY <2>1, <2>2, LoopbackSendsNoAck DEF TypeOK, SwitchTypeOK
  <2> QED BY <1>4, <2>1, <2>3
<1>10. CASE WriteAck(p)
  BY <1>1, <1>2, <1>10, WriteAckWindow
<1>11. CASE ReadResponseInOrder(p)
  <2>1. PICK e, n, k, d, a :
           Send(<<[NewPacket("WRITE_ONLY", SwitchMac, e, SWriteQpn, n) EXCEPT
                     !.ackreq = k, !.data = d, !.addr = a]>>)
    BY <1>11 DEF ReadResponseInOrder
  <2> DEFINE w == [NewPacket("WRITE_ONLY", SwitchMac, e, SWriteQpn, n) EXCEPT
                     !.ackreq = k, !.data = d, !.addr = a]
  <2>2. w.opcode = "WRITE_ONLY"
    BY DEF NewPacket
  <2>3. Send(<<w>>)
    BY <2>1
  <2> HIDE DEF w
  <2>4. w \in AnyPacket
    BY <1>3, <2>3, SentOneType
  <2>5. <<w>> \in Seq(NotAck)
    BY <2>2, <2>4 DEF NotAck
  <2>6. UNCHANGED requestVars
    BY <1>11 DEF ReadResponseInOrder
  <2> QED BY <1>4, <2>3, <2>5, <2>6
<1> QED BY <1>2, <1>5, <1>6, <1>7, <1>8, <1>9, <1>10, <1>11 DEF Process

-----------------------------------------------------------------------------
(* Steps of the links and the endpoints.                                   *)

\* Sending takes the first packet of the switch's queue away.
LEMMA SwitchTxWindow ==
  ASSUME TypeOK, WindowInv, SwitchTx
  PROVE  WindowInv'
<1> DEFINE p == Head(tx_queue)
           q == <<p.dmac, p.dqpn>>
<1>1. UNCHANGED <<sreq_unack_psn, se_req_epsn, su_req_psn, old_unack_psn>>
  BY DEF SwitchTx, requestVars, requesterVars
<1>2. /\ tx_queue # <<>> /\ tx_queue' = Tail(tx_queue)
      /\ tx_queue \in Seq(AnyPacket) /\ p = tx_queue[1]
  BY WindowTypes DEF SwitchTx
<1>3. AcksSent'
  <2>1. ASSUME NEW i \in 1 .. Len(tx_queue'), IsAck(tx_queue'[i])
        PROVE  tx_queue'[i].psn < sreq_unack_psn[tx_queue'[i].dmac]
    <3>1. i + 1 \in 1 .. Len(tx_queue) /\ tx_queue'[i] = tx_queue[i + 1]
      BY <1>2
    <3> QED BY <2>1, <3>1 DEF WindowInv, AcksSent
  <2> QED BY <1>1, <2>1 DEF AcksSent, IsAck
<1>4. AcksArrived'
  <2>1. CASE UNCHANGED qp_rx
    BY <1>1, <2>1 DEF WindowInv, AcksArrived
  <2>2. CASE q \in Qps /\ qp_rx' = [qp_rx EXCEPT ![q] = Append(@, p)]
    <3>1. ASSUME NEW r \in Qps, NEW i \in 1 .. Len(qp_rx'[r]), qp_rx'[r][i].opcode = "ACK"
          PROVE  qp_rx'[r][i].psn < sreq_unack_psn[r[1]]
      <4>1. CASE r # q \/ i \in 1 .. Len(qp_rx[r])
        <5>1. qp_rx[r] \in Seq(FromSwitch)
          BY WindowTypes
        <5>2. i \in 1 .. Len(qp_rx[r]) /\ qp_rx'[r][i] = qp_rx[r][i]
          <6>1. CASE r # q
            <7>1. qp_rx'[r] = qp_rx[r]
              BY <2>2, <6>1, WindowTypes
            <7> QED BY <7>1
          <6>2. CASE r = q
            <7>1. qp_rx'[r] = Append(qp_rx[r], p)
              BY <2>2, <6>2, WindowTypes
            <7> QED BY <4>1, <5>1, <6>2, <7>1
          <6> QED BY <6>1, <6>2
        <5> QED BY <3>1, <5>2 DEF WindowInv, AcksArrived
      <4>2. CASE r = q /\ i \notin 1 .. Len(qp_rx[r])
        <5>1. qp_rx'[r] = Append(qp_rx[r], p) /\ qp_rx[r] \in Seq(FromSwitch)
          BY <2>2, <4>2, WindowTypes
        <5>2. qp_rx'[r][i] = p
          BY <4>2, <5>1
        <5>3. p \in AnyPacket
          BY <1>2
        <5>4. p.smac = SwitchMac
          <6>1. p.dmac \in Se
            BY <2>2 DEF Qps
          <6> QED BY <5>3, <6>1, QpNames DEF AnyPacket, ToSwitch, FromSwitch
        <5>5. IsAck(tx_queue[1]) /\ 1 \in 1 .. Len(tx_queue)
          BY <1>2, <3>1, <5>2, <5>4 DEF IsAck
        <5>6. p.psn < sreq_unack_psn[p.dmac]
          BY <1>2, <5>5 DEF WindowInv, AcksSent
        <5> QED BY <4>2, <5>2, <5>6
      <4> QED BY <4>1, <4>2
    <3> QED BY <1>1, <3>1 DEF AcksArrived
  <2> QED BY <2>1, <2>2 DEF SwitchTx
<1> QED BY <1>1, <1>3, <1>4
        DEF WindowInv, WindowBounded, UnitsHold, AckedIsRetired

\* Receiving takes the first packet of a QP's queue away.
LEMMA QpRxWindow ==
  ASSUME TypeOK, WindowInv, NEW q \in Qps, QpRx(q)
  PROVE  WindowInv'
<1> DEFINE p == Head(qp_rx[q])
<1>1. UNCHANGED <<tx_queue, sreq_unack_psn, se_req_epsn, su_req_psn>>
  BY DEF QpRx, switchVars, requestVars
<1>2. /\ qp_rx[q] \in Seq(FromSwitch) /\ qp_rx[q] # <<>> /\ p = qp_rx[q][1]
      /\ qp_rx' = [qp_rx EXCEPT ![q] = Tail(@)] /\ 1 \in 1 .. Len(qp_rx[q])
  <2>1. qp_rx[q] \in Seq(FromSwitch) /\ qp_rx[q] # <<>>
    BY WindowTypes DEF QpRx, QpRxOnce
  <2> QED BY <2>1 DEF QpRx, QpRxOnce
<1>3. AcksArrived'
  <2>1. ASSUME NEW r \in Qps, NEW i \in 1 .. Len(qp_rx'[r]), qp_rx'[r][i].opcode = "ACK"
        PROVE  qp_rx'[r][i].psn < sreq_unack_psn[r[1]]
    <3>1. CASE r # q
      <4>1. qp_rx'[r] = qp_rx[r]
        BY <1>2, <3>1, WindowTypes
      <4> QED BY <2>1, <4>1 DEF WindowInv, AcksArrived
    <3>2. CASE r = q
      <4>1. qp_rx'[r] = Tail(qp_rx[r])
        BY <1>2, <3>2, WindowTypes
      <4>2. i + 1 \in 1 .. Len(qp_rx[r]) /\ qp_rx'[r][i] = qp_rx[r][i + 1]
        <5> DEFINE old == qp_rx[r]
                   new == qp_rx'[r]
        <5>1. old \in Seq(FromSwitch) /\ old # <<>> /\ new = Tail(old) /\ i \in 1 .. Len(new)
          BY <1>2, <3>2, <4>1
        <5> HIDE DEF old, new
        <5>2. i + 1 \in 1 .. Len(old) /\ new[i] = old[i + 1]
          BY <5>1
        <5> QED BY <5>2 DEF old, new
      <4> QED BY <2>1, <4>2 DEF WindowInv, AcksArrived
    <3> QED BY <3>1, <3>2
  <2> QED BY <1>1, <2>1 DEF AcksArrived
<1>4. AckedIsRetired'
  <2>1. CASE UNCHANGED old_unack_psn
    BY <1>1, <2>1 DEF WindowInv, AckedIsRetired
  <2>2. CASE RequesterRx(q, p) /\ RxAck(q[1], p)
    <3>1. p.opcode = "ACK" /\ q[1] \in Se
          /\ old_unack_psn' = [old_unack_psn EXCEPT ![q[1]] = p.psn + 1]
      BY <2>2, QpNames DEF RequesterRx, RxAck
    <3>2. p.psn < sreq_unack_psn[q[1]]
      BY <1>2, <3>1 DEF WindowInv, AcksArrived
    <3>3. p.psn \in Nat /\ sreq_unack_psn[q[1]] \in Nat
      <4>1. p \in FromSwitch
        BY <1>2
      <4> QED BY <3>1, <4>1, WindowTypes DEF FromSwitch, Packets
    <3> HIDE DEF p
    <3>4. p.psn + 1 <= sreq_unack_psn[q[1]]
      BY <3>2, <3>3
    <3>5. ASSUME NEW d \in Se PROVE old_unack_psn'[d] <= sreq_unack_psn'[d]
      <4>1. CASE d = q[1]
        BY <1>1, <3>1, <3>4, <4>1, WindowTypes
      <4>2. CASE d # q[1]
        <5>1. old_unack_psn'[d] = old_unack_psn[d]
          BY <3>1, <4>2, WindowTypes
        <5> QED BY <1>1, <5>1 DEF WindowInv, AckedIsRetired
      <4> QED BY <4>1, <4>2
    <3> QED BY <3>5 DEF AckedIsRetired
  <2> QED BY <2>1, <2>2
          DEF QpRx, QpRxOnce, RequesterRx, ResponderRx, RxOldAck, requesterVars
<1>5. AcksSent'
  BY <1>1 DEF WindowInv, AcksSent, IsAck
<1> QED BY <1>1, <1>3, <1>4, <1>5 DEF WindowInv, WindowBounded, UnitsHold

\* Everything else leaves the window alone.
LEMMA OtherWindow ==
  ASSUME WindowInv,
         UNCHANGED <<tx_queue, sreq_unack_psn, se_req_epsn, su_req_psn, qp_rx, old_unack_psn>>
  PROVE  WindowInv'
BY DEF WindowInv, WindowBounded, UnitsHold, AcksSent, AcksArrived, AckedIsRetired, IsAck

LEMMA NextWindow ==
  ASSUME TypeOK, WindowInv, [Next]_vars
  PROVE  WindowInv'
<1>1. ASSUME NEW e \in Se, RequestTx(e) PROVE WindowInv'
  BY <1>1, OtherWindow DEF RequestTx, TxOnce, requestVars
<1>2. ASSUME NEW e \in Se, Timeout(e) PROVE WindowInv'
  BY <1>2, OtherWindow DEF Timeout, Retry, switchVars, requestVars
<1>3. ASSUME NEW q \in Qps, ResponderTx(q) PROVE WindowInv'
  BY <1>3, OtherWindow DEF ResponderTx, requesterVars, requestVars
<1>4. ASSUME NEW q \in Qps, QpRx(q) PROVE WindowInv'
  BY <1>4, QpRxWindow
<1>5. CASE SwitchTx
  BY <1>5, SwitchTxWindow
<1>6. CASE SwitchRx
  BY <1>6, SwitchRxWindow
<1>7. CASE UNCHANGED vars
  BY <1>7, OtherWindow
     DEF vars, qpVars, switchVars, requesterVars, requestVars
<1> QED BY <1>1, <1>2, <1>3, <1>4, <1>5, <1>6, <1>7 DEF Next, Running, Stopped

-----------------------------------------------------------------------------
LEMMA WindowInvariant == Spec => [](TypeOK /\ WindowInv)
<1>1. Init => TypeOK /\ WindowInv
  BY InitType, InitWindow
<1>2. TypeOK /\ WindowInv /\ [Next]_vars => (TypeOK /\ WindowInv)'
  BY NextType, NextWindow
<1> QED BY <1>1, <1>2, PTL DEF Spec

(* The switch never has more requests of an endpoint under way than it has *)
(* units for it: the test for a free unit comes before the test for the    *)
(* expected PSN, in every order of retries and losses.                     *)
THEOREM WindowHolds == Spec => []WindowBounded
<1>1. TypeOK /\ WindowInv => WindowBounded
  BY DEF WindowInv
<1> QED BY <1>1, WindowInvariant, PTL

(* No ACK, however late or repeated, makes the requester take a request    *)
(* for done that the switch has not retired.                               *)
THEOREM AcksSound == Spec => []AckedIsRetired
<1>1. TypeOK /\ WindowInv => AckedIsRetired
  BY DEF WindowInv
<1> QED BY <1>1, WindowInvariant, PTL

(* A unit is given to a new request only when the switch has retired the   *)
(* one it held.                                                            *)
THEOREM UnitsReassigned == Spec => UnitReassignedAfterRetire
<1> DEFINE Reassign ==
      \A e \in Se : \A u \in Su :
        /\ su_req_psn'[e][u] # su_req_psn[e][u]
        /\ UnitOf(su_req_psn[e][u]) = u
        => su_req_psn[e][u] < sreq_unack_psn[e]
<1>1. ASSUME TypeOK, WindowInv, [Next]_vars PROVE Reassign
  <2> SUFFICES ASSUME NEW e \in Se, NEW u \in Su,
                      su_req_psn'[e][u] # su_req_psn[e][u],
                      UnitOf(su_req_psn[e][u]) = u
               PROVE  su_req_psn[e][u] < sreq_unack_psn[e]
    OBVIOUS
  <2>1. PICK p \in ToSwitch : RequestExpected(p)
    <3>1. su_req_psn' # su_req_psn
      OBVIOUS
    <3>2. SwitchRx
      BY <1>1, <3>1
         DEF Next, Running, Stopped, RequestTx, ResponderTx, SwitchTx, QpRx, Timeout,
             vars, switchVars, requestVars
    <3>3. Head(rx_queue) \in ToSwitch
      BY <1>1, <3>2 DEF SwitchRx, SwitchRxOnce, TypeOK, SwitchTypeOK
    <3>4. RequestExpected(Head(rx_queue))
      BY <3>1, <3>2
         DEF SwitchRx, SwitchRxOnce, Process, Loopback, RequestDropped, RequestDuplicate,
             RequestRetried, WriteAck, WriteAckOutOfTurn, WriteNak, ReadResponseInOrder,
             ReadResponseIgnored, ReadNak, requestVars
    <3> QED BY <3>3, <3>4
  <2>2. /\ p.smac \in Se /\ p.psn \in Nat
        /\ p.psn = se_req_epsn[p.smac] /\ p.psn # sreq_unack_psn[p.smac] + SuPSe
        /\ su_req_psn' = [su_req_psn EXCEPT ![p.smac][UnitOf(p.psn)] = p.psn]
    <3>1. p.smac \in Se /\ p.psn \in Nat
      BY PacketFields
    <3> QED BY <2>1, <3>1
            DEF RequestExpected, Expected, NoUnit, TooEarly, AlreadyAcked
  <2>3. e = p.smac /\ u = UnitOf(p.psn) /\ su_req_psn'[e][u] = p.psn
    <3>1. su_req_psn \in [Se -> [Su -> Nat]]
      BY <1>1, WindowTypes
    <3>2. UnitOf(p.psn) \in Su
      BY <2>2, SlotType
    <3> QED BY <2>2, <3>1, <3>2
  <2> DEFINE a == p.psn
             b == su_req_psn[e][u]
             c == sreq_unack_psn[e]
  <2>4. /\ a \in Nat /\ b \in Nat /\ c \in Nat /\ a # b /\ a < c + SuPSe
        /\ (a % SuPSe) = (b % SuPSe) /\ (b = 0 \/ b < a)
    <3>1. a \in Nat /\ b \in Nat /\ c \in Nat
      BY <1>1, <2>2, WindowTypes
    <3>2. a <= c + SuPSe /\ a # c + SuPSe
      BY <1>1, <2>2, <2>3 DEF WindowInv, WindowBounded
    <3>3. b = 0 \/ b < a
      BY <1>1, <2>2, <2>3 DEF WindowInv, UnitsHold
    <3>4. a # b
      BY <2>3
    <3>5. (a % SuPSe) = (b % SuPSe)
      BY <2>3 DEF UnitOf
    <3> HIDE DEF a, b, c
    <3> QED BY <3>1, <3>2, <3>3, <3>4, <3>5, ParamAssumption
  <2> HIDE DEF a, b, c
  <2>5. ASSUME c <= b PROVE FALSE
    <3>1. a < b + SuPSe
      BY <2>4, <2>5, ParamAssumption
    <3>2. a <= b
      BY <2>4, <3>1, SameSlot, ParamAssumption
    <3> QED BY <2>4, <3>2
  <2>6. b < c
    BY <2>4, <2>5
  <2> QED BY <2>6 DEF b, c
<1>2. TypeOK /\ WindowInv /\ [Next]_vars => [Reassign]_vars
  BY <1>1
<1>3. UnitReassignedAfterRetire <=> [][Reassign]_vars
  BY DEF UnitReassignedAfterRetire
<1> HIDE DEF Reassign
<1> QED BY <1>2, <1>3, WindowInvariant, PTL DEF Spec
=============================================================================
