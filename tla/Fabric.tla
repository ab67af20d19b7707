------------------------------- MODULE Fabric -------------------------------
(***************************************************************************)
(* The P4 switch at work: the pipeline of Pipeline.tla between the NICs of *)
(* the endpoints and its loopback ports.                                   *)
(*                                                                         *)
(* The NICs are hardware and modelled from how endpoint/                   *)
(* shuffle_endpoint.hpp sets them up: requests are not retried             *)
(* (retry_cnt is 0), READs and WRITEs are executed in the order of their   *)
(* PSNs, a gap is answered with one NAK.  A link takes a packet from the   *)
(* egress of the switch straight into the NIC, or loses it.                *)
(***************************************************************************)
EXTENDS Pipeline

CONSTANTS
  NPost,             \* requests an endpoint posts
  NItem,             \* items of a request
  NSession,          \* bound: sessions, one after another
  MaxLoss,           \* bound on packets lost in a session
  LoseRequests       \* whether requests are among them
ASSUME FabricAssumption ==
  /\ NPost \in Nat /\ NItem \in Nat \ {0}
  /\ NSession \in Nat \ {0} /\ MaxLoss \in Nat /\ LoseRequests \in BOOLEAN

VARIABLES
  sent,              \* requester: request packets sent
  unacked,           \* requester: PSN after the last one acknowledged
  read_epsn,         \* responder of READs, by pair: PSN expected
  read_naked,        \*   and whether a gap has been answered
  write_epsn,        \* responder of WRITEs, by endpoint
  write_naked,
  written,           \* the elements written to an endpoint's memory
  lost,              \* packets lost in this session
  session

nicVars == <<sent, unacked, read_epsn, read_naked, write_epsn, write_naked, written, lost>>
vars == <<pipelineVars, nicVars, session>>

Init ==
  /\ PipelineInit
  /\ sent = [d \in Eps |-> 0]
  /\ unacked = [d \in Eps |-> Psn0]
  /\ read_epsn = [sd \in Pairs |-> 0]
  /\ read_naked = [sd \in Pairs |-> FALSE]
  /\ write_epsn = [d \in Eps |-> 0]
  /\ write_naked = [d \in Eps |-> FALSE]
  /\ written = [d \in Eps |-> {}]
  /\ lost = 0
  /\ session = 1

-----------------------------------------------------------------------------
(* Requests: post_shuffle_request(), as the test of the library uses it    *)

PktsPerPost == (NItem + ITEM_PER_UNIT - 1) \div ITEM_PER_UNIT

\* The j'th buffer of a requester; no buffer starts at address 0, and each
\* session has memory of its own.
Base(j) == (session * NPost + j) * NItem

\* Item i of post j: where it comes from, and its place from the end.
Item(d, j, i) == [src |-> (d + i) % NEp, off |-> NItem - 1 - i, val |-> <<d, j, i>>]

\* The items in the k'th packet of a requester.
ItemsOf(d, k) ==
  LET j == k \div PktsPerPost
      from == (k % PktsPerPost) * ITEM_PER_UNIT
  IN  [n \in 1 .. Min({ITEM_PER_UNIT, NItem - from}) |-> Item(d, j, from + n - 1)]

OpOf(k) ==
  LET n == k % PktsPerPost
  IN  CASE PktsPerPost = 1 -> "WRITE_ONLY"
        [] PktsPerPost > 1 /\ n = 0 -> "WRITE_FIRST"
        [] PktsPerPost > 1 /\ n = PktsPerPost - 1 -> "WRITE_LAST"
        [] OTHER -> "WRITE_MIDDLE"

\* Only the first packet of a request has a header with its address.
HasAddr(k) == k % PktsPerPost = 0

Request(d, k) ==
  [op |-> OpOf(k), smac |-> d, dqp |-> ReqQp, psn |-> Psn0 + k,
   ackreq |-> (k + 1) % PktsPerPost = 0, items |-> ItemsOf(d, k),
   addr |-> IF HasAddr(k) THEN Base(k \div PktsPerPost) ELSE 0,
   val |-> <<>>, nak |-> FALSE, msn |-> 0, repl |-> [flag |-> FALSE, cnt |-> 0, id |-> 0]]

SendRequest(d) ==
  /\ sent[d] < NPost * PktsPerPost
  /\ sent' = [sent EXCEPT ![d] = @ + 1]
  /\ wire' = [wire EXCEPT ![Nic(d)] = Append(@, Request(d, sent[d]))]
  /\ UNCHANGED <<tm, ingressRegs, egressRegs, full, unacked, read_epsn, read_naked,
                 write_epsn, write_naked, written, lost, session>>

-----------------------------------------------------------------------------
(* The NIC of endpoint e takes a packet p and sends the answers            *)

Answer(e, answers) == wire' = [wire EXCEPT ![Nic(e)] = @ \o answers]

NakOf(e, p, epsn) == [p EXCEPT !.op = "ACK", !.smac = e, !.psn = epsn, !.nak = TRUE]

ReadArrives(e, p) ==
  LET sd == SrcDst(e, p.dqp[2])
  IN  /\ \/ /\ p.psn = read_epsn[sd]
            /\ read_epsn' = [read_epsn EXCEPT ![sd] = @ + 1]
            /\ read_naked' = [read_naked EXCEPT ![sd] = FALSE]
            /\ Answer(e, <<[p EXCEPT !.op = "READ_RES_ONLY", !.smac = e]>>)
         \/ /\ p.psn # read_epsn[sd]
            /\ read_naked' = [read_naked EXCEPT ![sd] = TRUE]
            /\ Answer(e, IF read_naked[sd] THEN <<>> ELSE <<NakOf(e, p, read_epsn[sd])>>)
            /\ UNCHANGED read_epsn
      /\ UNCHANGED <<sent, unacked, write_epsn, write_naked, written, lost>>

WriteArrives(e, p) ==
  /\ \/ /\ p.psn = write_epsn[e]
        /\ write_epsn' = [write_epsn EXCEPT ![e] = @ + 1]
        /\ write_naked' = [write_naked EXCEPT ![e] = FALSE]
        /\ written' = [written EXCEPT ![e] = @ \cup {[addr |-> p.addr, val |-> p.val]}]
        /\ Answer(e, IF p.ackreq THEN <<[p EXCEPT !.op = "ACK", !.smac = e]>> ELSE <<>>)
     \/ /\ p.psn # write_epsn[e]
        /\ write_naked' = [write_naked EXCEPT ![e] = TRUE]
        /\ Answer(e, IF write_naked[e] THEN <<>> ELSE <<NakOf(e, p, write_epsn[e])>>)
        /\ UNCHANGED <<write_epsn, written>>
  /\ UNCHANGED <<sent, unacked, read_epsn, read_naked, lost>>

\* An ACK completes every packet up to its PSN, if it names one that is open.
AckArrives(e, p) ==
  /\ unacked' = [unacked EXCEPT
       ![e] = IF p.psn \in @ .. Psn0 + sent[e] - 1 THEN p.psn + 1 ELSE @]
  /\ UNCHANGED <<wire, sent, read_epsn, read_naked, write_epsn, write_naked, written, lost>>

Lost ==
  /\ lost < MaxLoss
  /\ lost' = lost + 1
  /\ UNCHANGED <<sent, unacked, read_epsn, read_naked, write_epsn, write_naked, written>>

-----------------------------------------------------------------------------
(* Egress of a port, and what is at the other end of it                    *)

Leaves(port, rx) ==
  /\ tm[port] # <<>>
  /\ Head(tm[port]).kind = "bridge" /\ Head(tm[port]).rx = rx
  /\ tm' = [tm EXCEPT ![port] = Tail(@)]

\* A loopback port returns what it is given.
Return(e, p) == wire' = [wire EXCEPT ![Lpbk(e)] = Append(@, p)]

LoopRequest(e) ==
  LET b == Head(tm[Lpbk(e)])
  IN  /\ Leaves(Lpbk(e), "request")
      /\ EgressRequest(b)
      /\ Return(e, ReplOf(b))
      /\ UNCHANGED nicVars

LoopReplica(e) ==
  /\ tm[Lpbk(e)] # <<>>
  /\ Head(tm[Lpbk(e)]).kind # "bridge"
  /\ tm' = [tm EXCEPT ![Lpbk(e)] = Tail(@)]
  /\ Return(e, CopyOf(Head(tm[Lpbk(e)])))
  /\ UNCHANGED <<ingressRegs, egressRegs, full, nicVars>>

SendRead(e) ==
  LET b == Head(tm[Nic(e)])
  IN  /\ Leaves(Nic(e), "repl_only")
      /\ EgressRead(b)
      /\ ReadArrives(e, ReadOf(b)) \/ (Lost /\ UNCHANGED wire)

SendWrite(e) ==
  LET b == Head(tm[Nic(e)])
  IN  /\ Leaves(Nic(e), "read_response")
      /\ EgressWrite(b)
      /\ WriteArrives(e, WriteOf(b)) \/ (Lost /\ UNCHANGED wire)

SendAck(e) ==
  LET b == Head(tm[Nic(e)])
  IN  /\ Leaves(Nic(e), "write_ack")
      /\ EgressWriteAck(b)
      /\ AckArrives(e, AckOf(b)) \/ (Lost /\ UNCHANGED wire)

\* A packet from a NIC is lost.
LoseFromNic(e) ==
  /\ wire[Nic(e)] # <<>>
  /\ Head(wire[Nic(e)]).op \in RequestOps => LoseRequests
  /\ Lost
  /\ Received(Nic(e))
  /\ UNCHANGED <<tm, ingressRegs, egressRegs, full, session>>

Ingress(port) ==
  /\ \/ IngressRequest(port) \/ IngressReadResponse(port) \/ IngressReadNak(port)
     \/ IngressWriteAck(port) \/ IngressWriteNak(port)
     \/ IngressReplOnly(port) \/ IngressReplMany(port)
  /\ UNCHANGED <<nicVars, session>>

Egress(e) ==
  /\ LoopRequest(e) \/ LoopReplica(e) \/ SendRead(e) \/ SendWrite(e) \/ SendAck(e)
  /\ UNCHANGED session

\* Nothing is on its way any more.
Idle ==
  /\ \A d \in Eps : sent[d] = NPost * PktsPerPost
  /\ \A port \in Ports : wire[port] = <<>> /\ tm[port] = <<>>

\* The user at the master's console starts the next session when the last
\* one is over, for good or for bad: the registers are set again, and the
\* endpoints come with new queue pairs and new memory.
NewSession ==
  /\ Idle
  /\ session < NSession
  /\ session' = session + 1
  /\ InitRegisters
  /\ sent' = [d \in Eps |-> 0]
  /\ unacked' = [d \in Eps |-> Psn0]
  /\ read_epsn' = [sd \in Pairs |-> 0]
  /\ read_naked' = [sd \in Pairs |-> FALSE]
  /\ write_epsn' = [d \in Eps |-> 0]
  /\ write_naked' = [d \in Eps |-> FALSE]
  /\ written' = [d \in Eps |-> {}]
  /\ lost' = 0 /\ full' = FALSE
  /\ UNCHANGED <<wire, tm>>

Next ==
  \/ \E e \in Eps : SendRequest(e) \/ Egress(e) \/ LoseFromNic(e)
  \/ \E port \in Ports : Ingress(port)
  \/ NewSession
  \/ Idle /\ UNCHANGED vars

\* Requesters and switch never stop; loss is not owed.
Fairness ==
  /\ \A e \in Eps : WF_vars(SendRequest(e)) /\ WF_vars(Egress(e))
  /\ \A port \in Ports : WF_vars(Ingress(port))

Spec == Init /\ [][Next]_vars /\ Fairness

-----------------------------------------------------------------------------
(* Properties                                                              *)

\* The number the switch gives to an item, and where it has to be written.
ItemNumber(v) ==
  ItemIdFromDst(v[1], Psn0 + v[2] * PktsPerPost + (v[3] \div ITEM_PER_UNIT)) + (v[3] % ITEM_PER_UNIT)
Element(v) == [addr |-> Base(v[2]) + NItem - 1 - v[3], val |-> v]

\* The slot of a READ's PSN still names the READ's item when the response is
\* back, so that the response is written where the item belongs: a replica
\* that finds the ring full takes a PSN and must leave the slot alone.
ReadSlotHolds ==
  \A e \in Eps : \A n \in DOMAIN wire[Nic(e)] :
    LET p == wire[Nic(e)][n]
    IN  p.op = "READ_RES_ONLY" =>
          read_psn_to_item[ReadRingId(SrcDst(e, p.dqp[2]), p.psn)] = ItemNumber(p.val)

\* An element is written at its own offset of the buffer of its own request,
\* though offset and buffer come from registers set by other packets.
WriteIsRight == \A d \in Eps : \A w \in written[d] : w = Element(w.val) /\ w.val[1] = d

\* When a request is acknowledged all its elements are in the requester's
\* memory: the check of endpoint/shuffle_endpoint.cpp after its completion.
CompletedIsWritten ==
  \A d \in Eps : \A k \in 0 .. sent[d] - 1 :
    unacked[d] > Psn0 + k =>
      \A n \in DOMAIN ItemsOf(d, k) : Element(ItemsOf(d, k)[n].val) \in written[d]

\* The switch gives up on an endpoint only after a packet was lost or a
\* replica met a full ring: reordering alone never makes a gap.
DownOnlyAfterLoss == \A d \in Eps : endp_state[d] = 0 => lost > 0 \/ full

\* Without loss and with room in the rings every element gets written and
\* every endpoint's first request is completed, which the test waits for;
\* and so in each session, however the one before it has ended.
FirstIsCompleted ==
  \A n \in 1 .. NSession :
    session = n ~>
      /\ session = n
      /\ \/ lost > 0 \/ full
         \/ \A d \in Eps :
              /\ unacked[d] > Psn0
              /\ written[d] = {Element(<<d, j, i>>) : j \in 0 .. NPost - 1, i \in 0 .. NItem - 1}
=============================================================================
