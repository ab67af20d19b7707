------------------------------- MODULE Switch -------------------------------
(***************************************************************************)
(* The shuffle switch: its registers and the handling of one packet.       *)
(*                                                                         *)
(* Source: python/switch.py.  process() handles one packet atomically, as  *)
(* a pass through the pipeline does; each case of it is an operator on the *)
(* packet p at the head of rx_queue, and a loopback pass is a packet of    *)
(* tx_queue that comes back into rx_queue.                                 *)
(***************************************************************************)
EXTENDS Packet

VARIABLES
  rx_queue, tx_queue,
  se_state,          (* 1 active, 0 down: a turn of the endpoint failed     *)
  sreq_unack_psn,    (* oldest request PSN not acknowledged                 *)
  se_req_epsn,       (* request PSN expected next                           *)
  se_req_msn,        (* request messages received                           *)
  se_wr_addr,        (* write-back address of the latest request            *)
  su_rem,            (* unit: items not written back yet                    *)
  su_req_psn,        (* unit: PSN of the request it holds                   *)
  su_req_msn,        (* unit: MSN of the request it holds                   *)
  su_wr_addr,        (* unit: write-back base address                       *)
  sread_psn,         (* next PSN of the READs for (requester, target)       *)
  sread_unack_psn,   (* PSN after the last READ_RESPONSE seen               *)
  sread_psn_to_si,   (* PSN ring: the item a READ is for                    *)
  si_wr_off,         (* item: write-back offset                             *)
  swrite_psn,        (* next PSN of the WRITEs to a requester               *)
  swrite_psn_to_su   (* PSN ring: the unit a WRITE is for                   *)

requestVars == <<sreq_unack_psn, se_req_epsn, se_req_msn, se_wr_addr,
                 su_req_psn, su_req_msn, su_wr_addr>>
readVars == <<sread_psn, sread_unack_psn, sread_psn_to_si, si_wr_off>>
writeVars == <<swrite_psn, swrite_psn_to_su>>
switchVars == <<rx_queue, tx_queue, se_state, su_rem, requestVars, readVars, writeVars>>

WriteRingSize == SuPSe * ReqMtu

SwitchInit ==
  /\ rx_queue = <<>> /\ tx_queue = <<>>
  /\ se_state = [e \in Se |-> 1]
  /\ sreq_unack_psn = [e \in Se |-> 0]
  /\ se_req_epsn = [e \in Se |-> 0]
  /\ se_req_msn = [e \in Se |-> 0]
  /\ se_wr_addr = [e \in Se |-> 0]
  /\ su_rem = [e \in Se |-> [u \in Su |-> 0]]
  /\ su_req_psn = [e \in Se |-> [u \in Su |-> 0]]
  /\ su_req_msn = [e \in Se |-> [u \in Su |-> 0]]
  /\ su_wr_addr = [e \in Se |-> [u \in Su |-> 0]]
  /\ sread_psn = [e \in Se |-> [t \in Se |-> 0]]
  /\ sread_unack_psn = [e \in Se |-> [t \in Se |-> 0]]
  /\ sread_psn_to_si = [e \in Se |-> [t \in Se |-> [i \in 0 .. PsnRingSize - 1 |-> 0]]]
  /\ si_wr_off = [e \in Se |-> [u \in Su |-> [i \in 0 .. ReqMtu - 1 |-> 0]]]
  /\ swrite_psn = [e \in Se |-> 0]
  /\ swrite_psn_to_su = [e \in Se |-> [i \in 0 .. WriteRingSize - 1 |-> 0]]

Send(pkts) == tx_queue' = tx_queue \o pkts
ToRequester(e, op, n) == NewPacket(op, SwitchMac, e, SReqQpn, n)

\* Requests take the units in turn.
UnitOf(n) == n % SuPSe
ReadSlot(n) == n % PsnRingSize
WriteSlot(n) == n % WriteRingSize

-----------------------------------------------------------------------------
(* process_loopback: state is se_state of the requester when it runs.      *)

\* Mutant: one READ more than the ring has slots.
ReadRingFullLate(e, t) == sread_psn[e][t] > sread_unack_psn[e][t] + PsnRingSize

ReadRingFull(e, t) == sread_psn[e][t] >= sread_unack_psn[e][t] + PsnRingSize

\* One item left and no free PSN: the packet goes round once more.
LoopbackRingFull(p, state) ==
  /\ Len(p.data) = 1
  /\ ReadRingFull(p.smac, Item(p.data[1]).dmac)
  /\ Send(IF state = 0 THEN <<>> ELSE <<p>>)
  /\ UNCHANGED readVars

\* One item left: it takes a PSN, and becomes a READ unless se is down.
LoopbackRead(p, state) ==
  LET e == p.smac
      item == Item(p.data[1])
      n == sread_psn[e][item.dmac]
      read == [NewPacket("READ", SwitchMac, item.dmac, e, n)
                 EXCEPT !.addr = item.dst_addr]
  IN  /\ Len(p.data) = 1
      /\ ~ReadRingFull(e, item.dmac)
      /\ sread_psn' = [sread_psn EXCEPT ![e][item.dmac] = n + 1]
      /\ sread_psn_to_si' = [sread_psn_to_si EXCEPT ![e][item.dmac][ReadSlot(n)] = p.si]
      /\ si_wr_off' = [si_wr_off EXCEPT ![e][p.si \div ReqMtu][p.si % ReqMtu] = item.wr_off]
      /\ Send(IF state = 0 THEN <<>> ELSE <<read>>)
      /\ UNCHANGED sread_unack_psn

\* Copy i of the packet that multicast makes, with one item.
Multicast(p, n) ==
  [i \in 1 .. n |-> [p EXCEPT !.opcode = "LOOPBACK", !.si = p.si + i - 1,
                              !.data = <<p.data[i]>>]]

\* Mutant: the item numbers of the mirrored packet start over.
MirrorKeepsSi(p) ==
  [p EXCEPT !.opcode = "LOOPBACK",
            !.data = SubSeq(p.data, McastGrpSize + 1, Len(p.data))]

\* The mirrored packet carries the items multicast left over.
Mirror(p) ==
  [p EXCEPT !.opcode = "LOOPBACK", !.si = p.si + McastGrpSize,
            !.data = SubSeq(p.data, McastGrpSize + 1, Len(p.data))]

LoopbackSplit(p, state) ==
  /\ Len(p.data) # 1
  /\ Send(IF state = 0 THEN <<>>
          ELSE IF Len(p.data) <= McastGrpSize THEN Multicast(p, Len(p.data))
          ELSE Append(Multicast(p, McastGrpSize), Mirror(p)))
  /\ UNCHANGED readVars

\* Unpacking a value that is not a descriptor raises.
NoDescriptor(p) == Len(p.data) = 1 /\ p.data[1] \notin Items

ProcessLoopback(p, state) ==
  /\ ~NoDescriptor(p)
  /\ \/ LoopbackRingFull(p, state)
     \/ LoopbackRead(p, state)
     \/ LoopbackSplit(p, state)

Loopback(p) ==
  /\ p.opcode = "LOOPBACK"
  /\ ProcessLoopback(p, se_state[p.smac])
  /\ UNCHANGED <<se_state, su_rem, requestVars, writeVars>>

-----------------------------------------------------------------------------
(* Requests, in the order the code tests them.                             *)

IsRequest(p) == p.opcode # "LOOPBACK" /\ p.dqpn = ToSReq

TooEarly(p) == p.psn > se_req_epsn[p.smac]
AlreadyAcked(p) == ~TooEarly(p) /\ p.psn < sreq_unack_psn[p.smac]
\* Mutant: no test for a free unit.
NoUnitIgnored(p) == FALSE
NoUnit(p) ==
  ~TooEarly(p) /\ ~AlreadyAcked(p) /\ p.psn = sreq_unack_psn[p.smac] + SuPSe
\* Mutant: the expected PSN is tested before the free unit.
ExpectedFirst(p) == ~TooEarly(p) /\ ~AlreadyAcked(p) /\ p.psn = se_req_epsn[p.smac]
Expected(p) ==
  ~TooEarly(p) /\ ~AlreadyAcked(p) /\ ~NoUnit(p) /\ p.psn = se_req_epsn[p.smac]
InProgress(p) ==
  ~TooEarly(p) /\ ~AlreadyAcked(p) /\ ~NoUnit(p) /\ p.psn # se_req_epsn[p.smac]

\* Out of order, or no unit free: dropped, the requester will retry.
RequestDropped(p) ==
  /\ IsRequest(p) /\ (TooEarly(p) \/ NoUnit(p))
  /\ UNCHANGED <<tx_queue, se_state, su_rem, requestVars, readVars, writeVars>>

\* Mutant: acknowledge everything received, written back or not.
DuplicateAcksReceived(p) ==
  /\ IsRequest(p) /\ AlreadyAcked(p)
  /\ Send(<<[ToRequester(p.smac, "ACK", se_req_epsn[p.smac] - 1)
               EXCEPT !.msn = se_req_msn[p.smac]]>>)
  /\ UNCHANGED <<se_state, su_rem, requestVars, readVars, writeVars>>

\* Acknowledged before: acknowledge up to the newest PSN.
RequestDuplicate(p) ==
  /\ IsRequest(p) /\ AlreadyAcked(p)
  /\ Send(<<[ToRequester(p.smac, "ACK", sreq_unack_psn[p.smac] - 1)
               EXCEPT !.msn = se_req_msn[p.smac]]>>)
  /\ UNCHANGED <<se_state, su_rem, requestVars, readVars, writeVars>>

\* Mutant: item numbers follow the PSN, not the unit.
AsLoopbackOfPsn(p) == [p EXCEPT !.opcode = "LOOPBACK", !.si = p.psn * ReqMtu]

AsLoopback(p) == [p EXCEPT !.opcode = "LOOPBACK", !.si = UnitOf(p.psn) * ReqMtu]

RequestExpected(p) ==
  LET e == p.smac
      u == UnitOf(p.psn)
      ends == p.opcode \in {"WRITE_LAST", "WRITE_ONLY"}
      starts == p.opcode \in {"WRITE_FIRST", "WRITE_ONLY"}
  IN  /\ IsRequest(p) /\ Expected(p)
      /\ se_req_epsn' = [se_req_epsn EXCEPT ![e] = @ + 1]
      /\ se_req_msn' = [se_req_msn EXCEPT ![e] = IF ends THEN @ + 1 ELSE @]
      /\ se_wr_addr' = [se_wr_addr EXCEPT ![e] = IF starts THEN p.addr ELSE @]
      /\ su_wr_addr' = [su_wr_addr EXCEPT ![e][u] = se_wr_addr'[e]]
      /\ su_req_psn' = [su_req_psn EXCEPT ![e][u] = p.psn]
      /\ su_req_msn' = [su_req_msn EXCEPT ![e][u] = se_req_msn'[e]]
      /\ su_rem' = [su_rem EXCEPT ![e][u] = Len(p.data)]
      /\ ProcessLoopback(AsLoopback(p), se_state[e])
      /\ UNCHANGED <<se_state, sreq_unack_psn, writeVars>>

\* Mutant: the unit goes on counting where it was.
RetriedKeepsCount(p) ==
  /\ IsRequest(p) /\ InProgress(p)
  /\ se_state' = [se_state EXCEPT ![p.smac] = 1]
  /\ ProcessLoopback(AsLoopback(p), 1)
  /\ UNCHANGED <<su_rem, requestVars, writeVars>>

\* Received before, not acknowledged: start its unit over.
RequestRetried(p) ==
  /\ IsRequest(p) /\ InProgress(p)
  /\ su_rem' = [su_rem EXCEPT ![p.smac][UnitOf(p.psn)] = Len(p.data)]
  /\ se_state' = [se_state EXCEPT ![p.smac] = 1]
  /\ ProcessLoopback(AsLoopback(p), 1)
  /\ UNCHANGED <<requestVars, writeVars>>

-----------------------------------------------------------------------------
(* Answers to the WRITEs of the switch.                                    *)

IsWriteAnswer(p) == p.opcode # "LOOPBACK" /\ p.dqpn = ToSWrite
WrittenUnit(p) == swrite_psn_to_su[p.smac][WriteSlot(p.psn)]
\* Mutant: whichever unit is written retires the oldest request.
AnyTurn(p) == TRUE
InTurn(p) == UnitOf(sreq_unack_psn[p.smac]) = WrittenUnit(p)

\* The unit whose turn it is has been written: retire its request, and
\* acknowledge it unless se is down.
WriteAck(p) ==
  LET e == p.smac
      u == WrittenUnit(p)
  IN  /\ IsWriteAnswer(p) /\ p.opcode = "ACK" /\ InTurn(p)
      /\ sreq_unack_psn' = [sreq_unack_psn EXCEPT ![e] = @ + 1]
      /\ Send(IF se_state[e] = 0 THEN <<>>
              ELSE <<[ToRequester(e, "ACK", su_req_psn[e][u])
                        EXCEPT !.msn = su_req_msn[e][u]]>>)
      /\ UNCHANGED <<se_state, su_rem, se_req_epsn, se_req_msn, se_wr_addr,
                     su_req_psn, su_req_msn, su_wr_addr, readVars, writeVars>>

WriteAckOutOfTurn(p) ==
  /\ IsWriteAnswer(p) /\ p.opcode = "ACK" /\ ~InTurn(p)
  /\ UNCHANGED <<tx_queue, se_state, su_rem, requestVars, readVars, writeVars>>

\* Mutant: resume one PSN too early.
WriteNakEarly(p) ==
  /\ IsWriteAnswer(p) /\ p.opcode = "NAK"
  /\ se_state' = [se_state EXCEPT ![p.smac] = 0]
  /\ swrite_psn' = [swrite_psn EXCEPT ![p.smac] = p.psn - 1]
  /\ UNCHANGED <<tx_queue, su_rem, requestVars, readVars, swrite_psn_to_su>>

\* The endpoint missed a WRITE: go down, resume from the PSN it expects.
WriteNak(p) ==
  /\ IsWriteAnswer(p) /\ p.opcode = "NAK"
  /\ se_state' = [se_state EXCEPT ![p.smac] = 0]
  /\ swrite_psn' = [swrite_psn EXCEPT ![p.smac] = p.psn]
  /\ UNCHANGED <<tx_queue, su_rem, requestVars, readVars, swrite_psn_to_su>>

-----------------------------------------------------------------------------
(* Answers to the READs of the switch.                                     *)

IsReadAnswer(p) == p.opcode # "LOOPBACK" /\ p.dqpn \in Se

\* The response expected next: write the item back, ask for an ACK with the
\* last item of the unit.
ReadResponseInOrder(p) ==
  LET e == p.dqpn
      si == sread_psn_to_si[e][p.smac][ReadSlot(p.psn)]
      u == si \div ReqMtu
      n == swrite_psn[e]
      rem == su_rem[e][u] - 1
  IN  /\ IsReadAnswer(p) /\ p.opcode = "READ_RESPONSE"
      /\ se_state[e] = 1 /\ sread_unack_psn[e][p.smac] = p.psn
      /\ sread_unack_psn' = [sread_unack_psn EXCEPT ![e][p.smac] = p.psn + 1]
      /\ swrite_psn' = [swrite_psn EXCEPT ![e] = n + 1]
      /\ swrite_psn_to_su' = [swrite_psn_to_su EXCEPT ![e][WriteSlot(n)] = u]
      /\ su_rem' = [su_rem EXCEPT ![e][u] = rem]
      /\ Send(<<[NewPacket("WRITE_ONLY", SwitchMac, e, SWriteQpn, n) EXCEPT
                   !.ackreq = IF rem = 0 THEN 1 ELSE 0,
                   !.data = p.data,
                   !.addr = su_wr_addr[e][u] + si_wr_off[e][u][si % ReqMtu]]>>)
      /\ UNCHANGED <<se_state, requestVars, sread_psn, sread_psn_to_si, si_wr_off>>

\* se is down, or a response was lost: only remember how far READs got.
ReadResponseIgnored(p) ==
  LET e == p.dqpn
  IN  /\ IsReadAnswer(p) /\ p.opcode = "READ_RESPONSE"
      /\ se_state[e] = 0 \/ sread_unack_psn[e][p.smac] # p.psn
      /\ sread_unack_psn' = [sread_unack_psn EXCEPT ![e][p.smac] = p.psn + 1]
      /\ UNCHANGED <<tx_queue, se_state, su_rem, requestVars, sread_psn,
                     sread_psn_to_si, si_wr_off, writeVars>>

\* Mutant: resume one PSN too early.
ReadNakEarly(p) ==
  LET e == p.dqpn
  IN  /\ IsReadAnswer(p) /\ p.opcode = "NAK"
      /\ se_state' = [se_state EXCEPT ![e] = 0]
      /\ sread_psn' = [sread_psn EXCEPT ![e][p.smac] = p.psn - 1]
      /\ sread_unack_psn' = [sread_unack_psn EXCEPT ![e][p.smac] = p.psn]
      /\ UNCHANGED <<tx_queue, su_rem, requestVars, sread_psn_to_si, si_wr_off, writeVars>>

\* The target missed a READ: go down, resume from the PSN it expects.
ReadNak(p) ==
  LET e == p.dqpn
  IN  /\ IsReadAnswer(p) /\ p.opcode = "NAK"
      /\ se_state' = [se_state EXCEPT ![e] = 0]
      /\ sread_psn' = [sread_psn EXCEPT ![e][p.smac] = p.psn]
      /\ sread_unack_psn' = [sread_unack_psn EXCEPT ![e][p.smac] = p.psn]
      /\ UNCHANGED <<tx_queue, su_rem, requestVars, sread_psn_to_si, si_wr_off, writeVars>>

-----------------------------------------------------------------------------
Process(p) ==
  \/ Loopback(p)
  \/ RequestDropped(p) \/ RequestDuplicate(p) \/ RequestExpected(p) \/ RequestRetried(p)
  \/ WriteAck(p) \/ WriteAckOutOfTurn(p) \/ WriteNak(p)
  \/ ReadResponseInOrder(p) \/ ReadResponseIgnored(p) \/ ReadNak(p)

\* rx_once(): take a packet off rx_queue and process it.
SwitchRxOnce ==
  /\ rx_queue # <<>>
  /\ rx_queue' = Tail(rx_queue)
  /\ Process(Head(rx_queue))

-----------------------------------------------------------------------------
\* Registers and queues hold values of their types.
SwitchTypeOK ==
  /\ rx_queue \in Seq(ToSwitch) /\ tx_queue \in Seq(ToSwitch \cup FromSwitch)
  /\ se_state \in [Se -> {0, 1}]
  /\ sreq_unack_psn \in [Se -> Nat] /\ se_req_epsn \in [Se -> Nat]
  /\ se_req_msn \in [Se -> Nat] /\ se_wr_addr \in [Se -> Int]
  /\ su_rem \in [Se -> [Su -> Int]]
  /\ su_req_psn \in [Se -> [Su -> Nat]] /\ su_req_msn \in [Se -> [Su -> Nat]]
  /\ su_wr_addr \in [Se -> [Su -> Int]]
  /\ sread_psn \in [Se -> [Se -> Nat]] /\ sread_unack_psn \in [Se -> [Se -> Nat]]
  /\ sread_psn_to_si \in [Se -> [Se -> [0 .. PsnRingSize - 1 -> 0 .. WriteRingSize - 1]]]
  /\ si_wr_off \in [Se -> [Su -> [0 .. ReqMtu - 1 -> Nat]]]
  /\ swrite_psn \in [Se -> Nat]
  /\ swrite_psn_to_su \in [Se -> [0 .. WriteRingSize - 1 -> Su]]
=============================================================================
