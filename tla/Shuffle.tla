------------------------------ MODULE Shuffle -------------------------------
(***************************************************************************)
(* The shuffle protocol: endpoints and switch, joined by links that may    *)
(* lose packets.                                                           *)
(*                                                                         *)
(* Source: python/simulator.py, simulate().  Each thing simulate() does in *)
(* a tick is an action here, and the actions interleave freely: a QP sends *)
(* the packet at the head of its tx_queue, the switch sends the one at the *)
(* head of its own, a QP or the switch handles one received packet, a      *)
(* request QP times out.                                                   *)
(***************************************************************************)
EXTENDS Qp, Switch

CONSTANTS
  MaxLoss,       \* bound: packets the links may lose in one behaviour
  Pipelined,     \* may a request packet leave while another is in progress?
  RetryWhen      \* when a request QP may time out, see MayTimeout

ASSUME ShuffleAssumption ==
  /\ MaxLoss \in Nat /\ Pipelined \in BOOLEAN
  /\ RetryWhen \in {"quiet", "idle", "any"}

VARIABLE losses   \* packets lost so far

vars == <<qpVars, switchVars, losses>>

Init == QpInit /\ SwitchInit /\ losses = 0

\* A lost packet has left its queue and reaches nobody.
Lose == losses < MaxLoss /\ losses' = losses + 1

\* simulate() raises "Too many retries" and ends.
Raised == \E e \in Se : retry_cnt[e] = MaxRetry

QueuesEmpty ==
  /\ rx_queue = <<>> /\ tx_queue = <<>>
  /\ \A q \in Qps : qp_tx[q] = <<>> /\ qp_rx[q] = <<>>

AllEmpty == QueuesEmpty /\ \A e \in Se : sq[e] = <<>>

\* All packets in a queue, and the requester each one works for.
InFlight(pkts) == {pkts[i] : i \in 1 .. Len(pkts)}
Flying == InFlight(rx_queue) \cup InFlight(tx_queue)
          \cup UNION {InFlight(qp_rx[q]) \cup InFlight(qp_tx[q]) : q \in Qps}
Requester(p) ==
  CASE p.dqpn \in Se -> p.dqpn
    [] p.dqpn \notin Se /\ p.smac = SwitchMac -> p.dmac
    [] OTHER -> p.smac

\* Nothing is under way for requester e.
Idle(e) == \A p \in Flying : Requester(p) # e

\* What the ratio of tx_wait to retry_wait decides: whether a timer can run
\* out while packets move, only between them, or only with all of them sent.
MayTimeout(e) ==
  CASE RetryWhen = "any" -> TRUE
    [] RetryWhen = "idle" -> Idle(e)
    [] RetryWhen = "quiet" -> Idle(e) /\ TxScan(e).out = <<>>

-----------------------------------------------------------------------------
Arrive(p) ==
  \/ rx_queue' = Append(rx_queue, p) /\ UNCHANGED losses
  \/ UNCHANGED rx_queue /\ Lose

\* A request QP runs tx_once() and its first packet goes to the switch.
RequestTx(e) ==
  /\ Pipelined \/ Idle(e)
  /\ TxOnce(e)
  /\ Arrive(Head(TxOut(e)))
  /\ UNCHANGED <<tx_queue, se_state, su_rem, requestVars, readVars, writeVars>>

\* A read or write QP has nothing to request: only its answers leave.
ResponderTx(q) ==
  /\ q[2] # SReqQpn
  /\ qp_tx[q] # <<>>
  /\ qp_tx' = [qp_tx EXCEPT ![q] = Tail(@)]
  /\ Arrive(Head(qp_tx[q]))
  /\ UNCHANGED <<requesterVars, responderVars, qp_rx, tx_queue, se_state, su_rem,
                 requestVars, readVars, writeVars>>

\* The switch sends a packet: back to itself, or to the QP it names.
SwitchTx ==
  /\ tx_queue # <<>>
  /\ tx_queue' = Tail(tx_queue)
  /\ LET p == Head(tx_queue)
         q == <<p.dmac, p.dqpn>>
     IN  \/ /\ p.dmac = SwitchMac
            /\ rx_queue' = Append(rx_queue, p)
            /\ UNCHANGED <<qp_rx, losses>>
         \/ /\ q \in Qps
            /\ qp_rx' = [qp_rx EXCEPT ![q] = Append(@, p)]
            /\ UNCHANGED <<rx_queue, losses>>
         \/ Lose /\ UNCHANGED <<rx_queue, qp_rx>>
  /\ UNCHANGED <<requesterVars, responderVars, qp_tx, se_state, su_rem,
                 requestVars, readVars, writeVars>>

QpRx(q) == QpRxOnce(q) /\ UNCHANGED <<switchVars, losses>>

SwitchRx == SwitchRxOnce /\ UNCHANGED <<qpVars, losses>>

\* The retry timer of a request QP runs out.
Timeout(e) ==
  /\ MayTimeout(e)
  /\ Retry(e)
  /\ UNCHANGED <<switchVars, losses>>

\* The next packet of a receiver makes its handler raise.
Crashing ==
  \/ rx_queue # <<>> /\ NoDescriptor(Head(rx_queue))
  \/ \E q \in Qps : qp_rx[q] # <<>> /\ BadWrite(q, Head(qp_rx[q]))

\* simulate() has returned, or raised.
Stopped == (AllEmpty \/ Raised \/ Crashing) /\ UNCHANGED vars

Running ==
  \/ \E e \in Se : RequestTx(e) \/ Timeout(e)
  \/ \E q \in Qps : ResponderTx(q) \/ QpRx(q)
  \/ SwitchTx
  \/ SwitchRx

Next == (~Raised /\ Running) \/ Stopped

Spec == Init /\ [][Next]_vars

\* simulate() visits every queue and every timer in each tick.
Fairness ==
  /\ \A e \in Se : WF_vars(~Raised /\ RequestTx(e)) /\ WF_vars(~Raised /\ Timeout(e))
  /\ \A q \in Qps : WF_vars(~Raised /\ ResponderTx(q)) /\ WF_vars(~Raised /\ QpRx(q))
  /\ WF_vars(~Raised /\ SwitchTx)
  /\ WF_vars(~Raised /\ SwitchRx)

FairSpec == Spec /\ Fairness

TypeOK == QpTypeOK /\ SwitchTypeOK /\ losses \in 0 .. MaxLoss

-----------------------------------------------------------------------------
(* Which descriptors travel with request PSN n, when each PSN carries what *)
(* the requester means it to carry.                                        *)

PktsPerWr == CeilDiv(SReqMsgSize, ReqMtu)
ItemsOfPsn(n) ==
  LET off == (n % PktsPerWr) * ReqMtu
  IN  {i \in Items : /\ i \div SReqMsgSize = n \div PktsPerWr
                     /\ i % SReqMsgSize \in off .. off + ReqMtu - 1}

WrOfItem == [i \in Items |-> i \div SReqMsgSize]

\* Item i has reached the destination cell the requester asked for.
Delivered(e, i) ==
  LET item == Item(i)
  IN  buf[e][Wr(WrOfItem[i]).d_addr + item.wr_off] = buf[item.dmac][item.dst_addr]

InCq(e, wr) == wr \in {cq[e][k] : k \in 1 .. Len(cq[e])}

(* The protocol implements ShuffleService: a step writes at most one item, *)
(* never undoes one, and reports a work request complete only with all its *)
(* items in the requester's memory.                                        *)
Service == INSTANCE ShuffleService WITH
  Requesters <- Se, WrOf <- WrOfItem,
  delivered <- {ei \in Se \X Items : Delivered(ei[1], ei[2])},
  done <- [e \in Se |-> Len(cq[e])]
ServiceImplemented == Service!Spec

(* A completed work request has all its items in the requester's memory:   *)
(* the check the main program of the simulator ends with ("Wrong result"). *)
CompletedWrIsCorrect ==
  \A e \in Se : \A i \in Items : InCq(e, Wr(WrOfItem[i])) => Delivered(e, i)

(* The switch retires a request PSN (moves sreq_unack_psn past it) only    *)
(* when each of its items has been written: unacknowledged WRITEs, units   *)
(* restarted by a retry and ACKs of other units never make it retire early. *)
RetiredIsDelivered ==
  \A e \in Se : \A n \in 0 .. sreq_unack_psn[e] - 1 :
    \A i \in ItemsOfPsn(n) : Delivered(e, i)

(* The requests received and not retired never outnumber the units: a      *)
(* request is never put into a unit that is still working on another.      *)
WindowBounded == \A e \in Se : se_req_epsn[e] <= sreq_unack_psn[e] + SuPSe

(* The requester never takes for acknowledged what the switch has not      *)
(* retired, however stale, repeated or delayed the ACKs are that it sees.  *)
AckedIsRetired == \A e \in Se : old_unack_psn[e] <= sreq_unack_psn[e]

(* A unit gets a new request only after the switch has retired the one it  *)
(* held: no step overwrites su_req_psn, su_req_msn and su_wr_addr while    *)
(* READs and WRITEs of the old request still need them.                    *)
UnitReassignedAfterRetire ==
  [][\A e \in Se : \A u \in Su :
       /\ su_req_psn'[e][u] # su_req_psn[e][u]
       /\ UnitOf(su_req_psn[e][u]) = u
       => su_req_psn[e][u] < sreq_unack_psn[e]]_vars

\* Packets of one queue pair: none has a PSN the queue pair has taken, and
\* none the PSN of another one.
OwnPsns(packets, expected) ==
  /\ \A p \in packets : expected <= p.psn
  /\ \A p, r \in packets : p.psn = r.psn => p = r

(* Every WRITE has a PSN of its own: no two on their way to an endpoint    *)
(* share one, none has one the endpoint has taken already, and what the    *)
(* endpoint has taken was given out by swrite_psn.  A NAK that sent        *)
(* swrite_psn back too far, or while WRITEs that will be taken are on      *)
(* their way, would make the endpoint answer new items as duplicates and   *)
(* never write them.                                                       *)
WritePsnNotReused ==
  \A e \in Se :
    /\ epsn[WriteQp(e)] <= swrite_psn[e]
    /\ OwnPsns({p \in Flying : p.opcode = "WRITE_ONLY" /\ p.smac = SwitchMac /\ p.dmac = e},
               epsn[WriteQp(e)])

(* The same for the READs to each target: a READ with a PSN of another one *)
(* would be answered as that one, into its slot of the read ring.          *)
ReadPsnNotReused ==
  \A e, t \in Se :
    /\ epsn[<<t, e>>] <= sread_psn[e][t]
    /\ OwnPsns({p \in Flying : p.opcode = "READ" /\ p.dmac = t /\ p.dqpn = e}, epsn[<<t, e>>])

(* A slot of the read ring belongs to one READ until its response is back: *)
(* otherwise the response is written to another item's address.            *)
ReadSlotsSuffice ==
  \A p \in Flying :
    /\ p.opcode = "READ" => sread_psn[p.dqpn][p.dmac] <= p.psn + PsnRingSize
    /\ p.opcode = "READ_RESPONSE"
       => sread_psn[p.dqpn][p.smac] <= p.psn + PsnRingSize

(* A slot of the write ring still belongs to a WRITE when its ACK comes:   *)
(* "there must be available swrite_psn slots" (python/switch.py:256).      *)
WriteSlotsSuffice ==
  \A p \in Flying :
    /\ p.opcode = "WRITE_ONLY" /\ p.smac = SwitchMac /\ p.ackreq = 1
       => swrite_psn[p.dmac] <= p.psn + WriteRingSize
    /\ p.opcode = "ACK" /\ p.dqpn = ToSWrite
       => swrite_psn[p.smac] <= p.psn + WriteRingSize

(* Every work request completes: no loss, NAK, full ring or down switch    *)
(* state leaves a request that neither progresses nor is retried.          *)
EventuallyComplete == <>(\A e \in Se : sq[e] = <<>>)
=============================================================================
