---------------------------- MODULE PacedProofs -----------------------------
(***************************************************************************)
(* Paced requests: what holds of the shuffle protocol when a request       *)
(* packet leaves only while nothing is under way for its endpoint          *)
(* (Pipelined is FALSE), for any number of endpoints, units, ring slots    *)
(* and items, whatever is lost and whenever the timers fire.               *)
(***************************************************************************)
EXTENDS ShuffleProofs

-----------------------------------------------------------------------------
(* Queues and channels.                                                    *)

\* The queue pairs that answer the switch, and whom they work for.
Responders == {q \in Qps : q[2] # SReqQpn}
RequesterOf(q) == IF q[2] = SWriteQpn THEN q[1] ELSE q[2]

\* The queue pair a packet goes to, or comes from.
QpOf(p) ==
  IF p.smac = SwitchMac THEN <<p.dmac, p.dqpn>>
  ELSE <<p.smac, IF p.dqpn = ToSWrite THEN SWriteQpn ELSE p.dqpn>>

IsOrder(p) == p.opcode \in {"READ", "WRITE_ONLY"} /\ p.smac = SwitchMac
IsReply(p) == p.opcode \in {"READ_RESPONSE", "ACK"} /\ p.smac # SwitchMac
IsNak(p) == p.opcode = "NAK"

\* The packets each queue may hold.
Received == {p \in ToSwitch :
  \/ p.dqpn = ToSReq /\ p.opcode \in WriteOps \cup {"LOOPBACK"}
  \/ p.dqpn \in Se /\ p.opcode \in {"READ_RESPONSE", "NAK"}
  \/ p.dqpn = ToSWrite /\ p.opcode \in {"ACK", "NAK"}}
Recirculated == {p \in ToSwitch : p.dqpn = ToSReq /\ p.opcode = "LOOPBACK"}
Orders == {p \in FromSwitch :
  \/ p.opcode = "READ" /\ p.dqpn \in Se
  \/ p.opcode = "WRITE_ONLY" /\ p.dqpn = SWriteQpn}
RequestAcks == {p \in FromSwitch : p.opcode = "ACK" /\ p.dqpn = SReqQpn}
Sent == Recirculated \cup Orders \cup RequestAcks
SentTo(q) == {p \in Orders \cup RequestAcks : p.dmac = q[1] /\ p.dqpn = q[2]}
SentBy(q) == {p \in Received \ Recirculated : p.smac = q[1] /\ p.dqpn = Dqpn(q)}

Kinds ==
  /\ rx_queue \in Seq(Received) /\ tx_queue \in Seq(Sent)
  /\ \A q \in Qps : qp_rx[q] \in Seq(SentTo(q)) /\ qp_tx[q] \in Seq(SentBy(q))

\* All packets but those a request QP has still to send.
Moving ==
  InFlight(rx_queue) \cup InFlight(tx_queue)
  \cup (UNION {InFlight(qp_rx[q]) : q \in Qps})
  \cup (UNION {InFlight(qp_tx[q]) : q \in Responders})

\* a may be ahead of b in a queue, or on the way from the switch to a queue
\* pair and back.
Behind == {ab \in AnyPacket \X AnyPacket :
  LET a == ab[1]  b == ab[2]
  IN  /\ QpOf(a) \in Responders /\ QpOf(a) = QpOf(b) /\ ~IsNak(b) => a.psn < b.psn
      /\ ~(IsRequest(a) /\ IsRequest(b) /\ a.smac = b.smac)}

Pairwise(s, R) == \A i, j \in 1 .. Len(s) : i < j => <<s[i], s[j]>> \in R
Ahead(A, B, R) == \A a \in A, b \in B : <<a, b>> \in R

\* The way of a packet from the switch to queue pair q, and of its answer
\* back, last queue first.
LineInOrder(q, R) ==
  /\ Pairwise(qp_tx[q], R) /\ Pairwise(qp_rx[q], R)
  /\ Ahead(InFlight(qp_tx[q]), InFlight(qp_rx[q]), R)
  /\ Ahead(InFlight(rx_queue), InFlight(qp_tx[q]) \cup InFlight(qp_rx[q]), R)
  /\ Ahead(InFlight(qp_tx[q]) \cup InFlight(qp_rx[q]), InFlight(tx_queue), R)

InOrder(R) ==
  /\ Pairwise(rx_queue, R) /\ Pairwise(tx_queue, R)
  /\ Ahead(InFlight(rx_queue), InFlight(tx_queue), R)
  /\ \A q \in Responders : LineInOrder(q, R)

\* A request that waits at the switch is all there is for its endpoint.
OneRequest ==
  \A p \in InFlight(rx_queue) :
    IsRequest(p) => \A x \in Moving : Requester(x) = p.smac => x = p

\* The packets of one queue pair's traffic with the switch.
Traffic(q) == {p \in Moving : QpOf(p) = q}
NextPsn(q) == IF q[2] = SWriteQpn THEN swrite_psn[q[1]] ELSE sread_psn[q[2]][q[1]]
Down(q) == se_state[RequesterOf(q)] = 0

\* The switch and the queue pair agree on the PSNs that were sent, unless
\* the endpoint is down: then what was sent before it went down will be
\* refused.
Channel(q) ==
  /\ epsn[q] <= NextPsn(q)
  /\ \/ \A p \in Traffic(q) : IsOrder(p) => p.psn < NextPsn(q)
     \/ Down(q) /\ \A p \in Traffic(q) : IsOrder(p) => p.psn # epsn[q]
  /\ \A p \in Traffic(q) :
       /\ IsOrder(p) => p.psn >= epsn[q]
       /\ IsReply(p) => p.psn < epsn[q]
       /\ IsNak(p) => /\ p.psn = epsn[q]
                      /\ \A x \in Traffic(q) : IsOrder(x) => x.psn # epsn[q]
                      /\ Down(q) \/ epsn[q] < NextPsn(q)

\* READs and answers not seen yet lie within the ring of requester e's
\* READs to t.
ReadWindow(e, t) ==
  /\ sread_unack_psn[e][t] <= epsn[<<t, e>>]
  /\ sread_psn[e][t] <= sread_unack_psn[e][t] + PsnRingSize
  /\ \A p \in Traffic(<<t, e>>) : p.psn >= sread_unack_psn[e][t]

PacedInv ==
  /\ Kinds /\ InOrder(Behind) /\ OneRequest
  /\ \A q \in Responders : Channel(q)
  /\ \A e, t \in Se : ReadWindow(e, t)

-----------------------------------------------------------------------------
(* Sequences in which earlier elements are related to later ones.          *)

LEMMA TailFacts ==
  ASSUME NEW S, NEW s \in Seq(S), s # <<>>, NEW R
  PROVE  /\ Tail(s) \in Seq(S) /\ Head(s) \in S
         /\ InFlight(s) = {Head(s)} \cup InFlight(Tail(s))
         /\ Pairwise(s, R) => /\ Pairwise(Tail(s), R)
                              /\ \A x \in InFlight(Tail(s)) : <<Head(s), x>> \in R
<1> DEFINE t == Tail(s)
           n == Len(s)
<1>1. /\ n \in Nat \ {0} /\ t \in Seq(S) /\ Len(t) = n - 1 /\ Head(s) = s[1]
      /\ \A i \in 1 .. n - 1 : t[i] = s[i + 1]
  OBVIOUS
<1>2. s[1] \in S
  BY <1>1
<1> HIDE DEF t
<1>3. InFlight(s) = {s[1]} \cup InFlight(t)
  <2>1. ASSUME NEW i \in 1 .. n PROVE s[i] \in {s[1]} \cup InFlight(t)
    <3>1. CASE i = 1
      BY <3>1
    <3>2. CASE i # 1
      <4>1. i - 1 \in 1 .. n - 1 /\ (i - 1) + 1 = i
        BY <1>1, <3>2
      <4>2. t[i - 1] = s[i]
        BY <1>1, <4>1
      <4> QED BY <1>1, <4>1, <4>2 DEF InFlight
    <3> QED BY <3>1, <3>2
  <2>2. ASSUME NEW i \in 1 .. n - 1 PROVE t[i] \in InFlight(s)
    <3>1. i + 1 \in 1 .. n /\ t[i] = s[i + 1]
      BY <1>1
    <3> QED BY <3>1 DEF InFlight
  <2>3. s[1] \in InFlight(s)
    BY <1>1 DEF InFlight
  <2>4. InFlight(s) = {s[i] : i \in 1 .. n} /\ InFlight(t) = {t[i] : i \in 1 .. n - 1}
    BY <1>1 DEF InFlight
  <2> QED BY <2>1, <2>2, <2>3, <2>4
<1>4. ASSUME Pairwise(s, R)
      PROVE  Pairwise(t, R) /\ \A x \in InFlight(t) : <<s[1], x>> \in R
  <2>1. ASSUME NEW i \in 1 .. n - 1, NEW j \in 1 .. n - 1, i < j
        PROVE  <<t[i], t[j]>> \in R
    <3>1. i + 1 \in 1 .. n /\ j + 1 \in 1 .. n /\ i + 1 < j + 1
      BY <1>1, <2>1
    <3>2. <<s[i + 1], s[j + 1]>> \in R
      BY <1>4, <3>1 DEF Pairwise
    <3> QED BY <1>1, <3>2
  <2>2. ASSUME NEW i \in 1 .. n - 1 PROVE <<s[1], t[i]>> \in R
    <3>1. i + 1 \in 1 .. n /\ 1 \in 1 .. n /\ 1 < i + 1
      BY <1>1
    <3>2. <<s[1], s[i + 1]>> \in R
      BY <1>4, <3>1 DEF Pairwise
    <3> QED BY <1>1, <3>2
  <2> QED BY <1>1, <2>1, <2>2 DEF Pairwise, InFlight
<1> QED BY <1>1, <1>2, <1>3, <1>4 DEF t

LEMMA ConcatFacts ==
  ASSUME NEW S, NEW s \in Seq(S), NEW t \in Seq(S), NEW R
  PROVE  /\ s \o t \in Seq(S)
         /\ InFlight(s \o t) = InFlight(s) \cup InFlight(t)
         /\ Pairwise(s, R) /\ Pairwise(t, R) /\ Ahead(InFlight(s), InFlight(t), R)
            => Pairwise(s \o t, R)
<1> DEFINE w == s \o t
           n == Len(s)
           m == Len(t)
<1>1. /\ n \in Nat /\ m \in Nat /\ w \in Seq(S) /\ Len(w) = n + m
      /\ \A i \in 1 .. n : w[i] = s[i]
  OBVIOUS
<1>2. \A i \in n + 1 .. n + m : w[i] = t[i - n]
  OBVIOUS
<1> HIDE DEF w
<1>3. /\ InFlight(w) = {w[i] : i \in 1 .. n + m}
      /\ InFlight(s) = {s[i] : i \in 1 .. n} /\ InFlight(t) = {t[i] : i \in 1 .. m}
  BY <1>1 DEF InFlight
<1> HIDE DEF n, m
<1>4. InFlight(w) = InFlight(s) \cup InFlight(t)
  <2>1. ASSUME NEW i \in 1 .. n + m PROVE w[i] \in InFlight(s) \cup InFlight(t)
    <3>1. CASE i \in 1 .. n
      BY <1>1, <1>3, <3>1
    <3>2. CASE i \in n + 1 .. n + m
      <4>1. i - n \in 1 .. m /\ w[i] = t[i - n]
        BY <1>1, <1>2, <3>2
      <4> QED BY <1>3, <4>1
    <3>3. i \in 1 .. n \/ i \in n + 1 .. n + m
      BY <1>1
    <3> QED BY <3>1, <3>2, <3>3
  <2>2. ASSUME NEW i \in 1 .. n PROVE s[i] \in InFlight(w)
    <3>1. i \in 1 .. n + m
      BY <1>1
    <3> QED BY <1>1, <1>3, <3>1
  <2>3. ASSUME NEW i \in 1 .. m PROVE t[i] \in InFlight(w)
    <3>1. i + n \in n + 1 .. n + m /\ (i + n) - n = i /\ i + n \in 1 .. n + m
      BY <1>1
    <3>2. w[i + n] = t[i]
      BY <1>2, <3>1
    <3> QED BY <1>3, <3>1, <3>2
  <2> QED BY <1>3, <2>1, <2>2, <2>3
<1>5. ASSUME Pairwise(s, R), Pairwise(t, R), Ahead(InFlight(s), InFlight(t), R)
      PROVE  Pairwise(w, R)
  <2>1. SUFFICES ASSUME NEW i \in 1 .. n + m, NEW j \in 1 .. n + m, i < j
                 PROVE  <<w[i], w[j]>> \in R
    BY <1>1 DEF Pairwise
  <2>2. CASE j \in 1 .. n
    <3>1. i \in 1 .. n
      BY <1>1, <2>1, <2>2
    <3> QED BY <1>1, <1>5, <2>1, <2>2, <3>1 DEF Pairwise, n
  <2>3. CASE i \in n + 1 .. n + m
    <3>1. /\ i - n \in 1 .. m /\ j - n \in 1 .. m /\ i - n < j - n
          /\ j \in n + 1 .. n + m
      BY <1>1, <2>1, <2>3
    <3>2. <<t[i - n], t[j - n]>> \in R
      BY <1>5, <3>1 DEF Pairwise, m
    <3> QED BY <1>2, <2>3, <3>1, <3>2
  <2>4. CASE i \in 1 .. n /\ j \in n + 1 .. n + m
    <3>1. j - n \in 1 .. m /\ w[j] = t[j - n] /\ w[i] = s[i]
      BY <1>1, <1>2, <2>4
    <3>2. s[i] \in InFlight(s) /\ t[j - n] \in InFlight(t)
      BY <1>3, <2>4, <3>1
    <3> QED BY <1>5, <3>1, <3>2 DEF Ahead
  <2>5. /\ i \in 1 .. n \/ i \in n + 1 .. n + m
        /\ j \in 1 .. n \/ j \in n + 1 .. n + m
    BY <1>1
  <2> QED BY <2>2, <2>3, <2>4, <2>5
<1> QED BY <1>1, <1>4, <1>5 DEF w

LEMMA AppendFacts ==
  ASSUME NEW S, NEW s \in Seq(S), NEW x \in S, NEW R
  PROVE  /\ Append(s, x) \in Seq(S)
         /\ InFlight(Append(s, x)) = InFlight(s) \cup {x}
         /\ Pairwise(s, R) /\ (\A y \in InFlight(s) : <<y, x>> \in R)
            => Pairwise(Append(s, x), R)
<1>1. <<x>> \in Seq(S) /\ Len(<<x>>) = 1 /\ <<x>>[1] = x
  OBVIOUS
<1>2. Append(s, x) = s \o <<x>>
  OBVIOUS
<1> DEFINE t == <<x>>
<1> HIDE DEF t
<1>3. InFlight(t) = {x} /\ Pairwise(t, R)
  <2>1. 1 .. Len(t) = {1} /\ t[1] = x
    BY <1>1 DEF t
  <2> QED BY <2>1 DEF InFlight, Pairwise
<1>4. t \in Seq(S) /\ Append(s, x) = s \o t
  BY <1>1, <1>2 DEF t
<1> QED BY <1>3, <1>4, ConcatFacts DEF Ahead

\* Elements of a sequence have the type of its elements.
LEMMA InFlightType ==
  ASSUME NEW S, NEW s \in Seq(S)
  PROVE  InFlight(s) \subseteq S
BY DEF InFlight

LEMMA Nothing == InFlight(<<>>) = {} /\ \A R : Pairwise(<<>>, R)
BY DEF InFlight, Pairwise

-----------------------------------------------------------------------------
(* The kinds of packets.                                                   *)

LEMMA Numbers ==
  /\ Se \subseteq Nat /\ SwitchMac \notin Se /\ SwitchMac \in Int
  /\ SReqQpn \in Nat /\ SWriteQpn \in Nat /\ SReqQpn # SWriteQpn
  /\ SReqQpn \notin Se /\ SWriteQpn \notin Se
  /\ ToSReq \notin Se /\ ToSWrite \notin Se /\ ToSReq # ToSWrite
  /\ ToSReq # SWriteQpn /\ ToSReq # SReqQpn /\ ToSWrite # SWriteQpn /\ ToSWrite # SReqQpn
  /\ ToSReq \in Int /\ ToSWrite \in Int
BY ParamAssumption DEF Se, SwitchMac, SReqQpn, SWriteQpn, ToSReq, ToSWrite

LEMMA ResponderNames ==
  /\ Responders \subseteq Qps
  /\ \A q \in Responders : q[1] \in Se /\ q = <<q[1], q[2]>> /\ RequesterOf(q) \in Se
                           /\ (q[2] \in Se \/ q[2] = SWriteQpn)
  /\ \A e, t \in Se : /\ <<t, e>> \in Responders /\ RequesterOf(<<t, e>>) = e
  /\ \A e \in Se : WriteQp(e) \in Responders /\ RequesterOf(WriteQp(e)) = e
BY Numbers DEF Responders, RequesterOf, Qps, WriteQp

\* What is neither a READ or WRITE of the switch nor an answer to one.
Aside(p) == QpOf(p) \notin Responders /\ ~IsOrder(p) /\ ~IsReply(p) /\ ~IsNak(p)

LEMMA RecirculatedKind ==
  ASSUME NEW p \in Recirculated
  PROVE  /\ Aside(p) /\ ~IsRequest(p) /\ Requester(p) = p.smac
         /\ p.smac \in Se /\ p.dmac = SwitchMac /\ p \in AnyPacket /\ p \in Received
<1>1. /\ p \in ToSwitch /\ p.dqpn = ToSReq /\ p.opcode = "LOOPBACK"
      /\ p.smac \in Se /\ p.dmac = SwitchMac
  BY DEF Recirculated, ToSwitch
<1>2. Aside(p)
  BY <1>1, Numbers DEF Aside, QpOf, Responders, Qps, IsOrder, IsReply, IsNak
<1>3. Requester(p) = p.smac
  BY <1>1, Numbers DEF Requester
<1> QED BY <1>1, <1>2, <1>3 DEF IsRequest, AnyPacket, Received

LEMMA RequestKind ==
  ASSUME NEW p \in Received, IsRequest(p)
  PROVE  /\ Aside(p) /\ Requester(p) = p.smac /\ p.smac \in Se /\ p \in AnyPacket
         /\ p.opcode \in WriteOps /\ p \notin Recirculated
<1>1. p \in ToSwitch /\ p.dqpn = ToSReq /\ p.opcode \in WriteOps /\ p.smac \in Se
  BY Numbers DEF Received, ToSwitch, IsRequest
<1>2. Aside(p)
  BY <1>1, Numbers DEF Aside, QpOf, Responders, Qps, IsOrder, IsReply, IsNak, WriteOps
<1>3. Requester(p) = p.smac
  BY <1>1, Numbers DEF Requester
<1> QED BY <1>1, <1>2, <1>3 DEF AnyPacket, Recirculated, IsRequest

LEMMA AnswerKind ==
  ASSUME NEW p \in Received, ~IsRequest(p), p \notin Recirculated
  PROVE  /\ QpOf(p) \in Responders /\ Requester(p) = RequesterOf(QpOf(p))
         /\ ~IsOrder(p) /\ (IsReply(p) \/ IsNak(p)) /\ ~(IsReply(p) /\ IsNak(p))
         /\ p.smac \in Se /\ p \in AnyPacket
         /\ \/ /\ IsReadAnswer(p) /\ ~IsWriteAnswer(p) /\ p.dqpn \in Se
               /\ QpOf(p) = <<p.smac, p.dqpn>>
            \/ IsWriteAnswer(p) /\ ~IsReadAnswer(p) /\ QpOf(p) = WriteQp(p.smac)
<1>1. /\ p \in ToSwitch /\ p.smac \in Se
      /\ \/ p.dqpn \in Se /\ p.opcode \in {"READ_RESPONSE", "NAK"}
         \/ p.dqpn = ToSWrite /\ p.opcode \in {"ACK", "NAK"}
  BY DEF Received, ToSwitch, IsRequest, Recirculated, WriteOps
<1>2. CASE p.dqpn \in Se /\ p.opcode \in {"READ_RESPONSE", "NAK"}
  <2>1. QpOf(p) = <<p.smac, p.dqpn>>
    BY <1>1, <1>2, Numbers DEF QpOf
  <2>2. Requester(p) = p.dqpn
    BY <1>2 DEF Requester
  <2> QED BY <1>1, <1>2, <2>1, <2>2, ResponderNames, Numbers
          DEF IsOrder, IsReply, IsNak, AnyPacket, IsReadAnswer, IsWriteAnswer
<1>3. CASE p.dqpn = ToSWrite /\ p.opcode \in {"ACK", "NAK"}
  <2>1. QpOf(p) = WriteQp(p.smac)
    BY <1>1, <1>3, Numbers DEF QpOf, WriteQp
  <2>2. Requester(p) = p.smac
    BY <1>1, <1>3, Numbers DEF Requester
  <2> QED BY <1>1, <1>3, <2>1, <2>2, ResponderNames, Numbers
          DEF IsOrder, IsReply, IsNak, AnyPacket, IsReadAnswer, IsWriteAnswer
<1> QED BY <1>1, <1>2, <1>3

LEMMA OrderKind ==
  ASSUME NEW p \in Orders
  PROVE  /\ QpOf(p) = <<p.dmac, p.dqpn>> /\ QpOf(p) \in Responders
         /\ Requester(p) = RequesterOf(QpOf(p))
         /\ IsOrder(p) /\ ~IsReply(p) /\ ~IsNak(p) /\ ~IsRequest(p) /\ p \in AnyPacket
         /\ p.smac = SwitchMac /\ p.dmac \in Se /\ p \in FromSwitch
<1>1. /\ p \in FromSwitch /\ p.smac = SwitchMac /\ <<p.dmac, p.dqpn>> \in Qps
      /\ (p.opcode = "READ" /\ p.dqpn \in Se) \/ (p.opcode = "WRITE_ONLY" /\ p.dqpn = SWriteQpn)
  BY DEF Orders, FromSwitch
<1>2. p.dmac \in Se
  BY <1>1 DEF Qps
<1>3. QpOf(p) = <<p.dmac, p.dqpn>> /\ QpOf(p) \in Responders
  BY <1>1, Numbers DEF QpOf, Responders
<1>4. Requester(p) = RequesterOf(QpOf(p))
  BY <1>1, <1>3, Numbers DEF Requester, RequesterOf
<1> QED BY <1>1, <1>2, <1>3, <1>4, Numbers
        DEF IsOrder, IsReply, IsNak, IsRequest, AnyPacket

LEMMA RequestAckKind ==
  ASSUME NEW p \in RequestAcks
  PROVE  /\ Aside(p) /\ ~IsRequest(p) /\ Requester(p) = p.dmac /\ p.dmac \in Se
         /\ p \in AnyPacket /\ p.smac = SwitchMac /\ p.dqpn = SReqQpn
<1>1. /\ p \in FromSwitch /\ p.smac = SwitchMac /\ <<p.dmac, p.dqpn>> \in Qps
      /\ p.opcode = "ACK" /\ p.dqpn = SReqQpn
  BY DEF RequestAcks, FromSwitch
<1>2. p.dmac \in Se
  BY <1>1 DEF Qps
<1>3. Aside(p)
  BY <1>1, Numbers DEF Aside, QpOf, Responders, IsOrder, IsReply, IsNak
<1>4. Requester(p) = p.dmac
  BY <1>1, Numbers DEF Requester
<1> QED BY <1>1, <1>2, <1>3, <1>4, Numbers DEF IsRequest, AnyPacket

LEMMA SentToKind ==
  ASSUME NEW q \in Responders, NEW p \in SentTo(q)
  PROVE  p \in Orders /\ QpOf(p) = q
<1>1. p \in Orders \cup RequestAcks /\ p.dmac = q[1] /\ p.dqpn = q[2] /\ q[2] # SReqQpn
  BY DEF SentTo, Responders
<1>2. p \in Orders
  BY <1>1, RequestAckKind
<1> QED BY <1>1, <1>2, OrderKind, ResponderNames

LEMMA SentByKind ==
  ASSUME NEW q \in Responders, NEW p \in SentBy(q)
  PROVE  p \in Received /\ p \notin Recirculated /\ ~IsRequest(p) /\ QpOf(p) = q
<1>1. p \in Received /\ p \notin Recirculated /\ p.smac = q[1] /\ p.dqpn = Dqpn(q)
  BY DEF SentBy
<1>2. q[2] \in Se \/ q[2] = SWriteQpn
  BY ResponderNames
<1>3. Dqpn(q) # ToSReq /\ (q[2] \in Se => Dqpn(q) = q[2])
      /\ (q[2] = SWriteQpn => Dqpn(q) = ToSWrite)
  BY <1>2, Numbers DEF Dqpn
<1>4. ~IsRequest(p)
  BY <1>1, <1>3 DEF IsRequest
<1>5. q = <<q[1], q[2]>>
  BY ResponderNames
<1>6. QpOf(p) = q
  <2>1. CASE q[2] \in Se
    BY <1>1, <1>3, <1>4, <1>5, <2>1, AnswerKind, Numbers DEF IsReadAnswer, IsWriteAnswer
  <2>2. CASE q[2] = SWriteQpn
    BY <1>1, <1>3, <1>4, <1>5, <2>2, AnswerKind, Numbers DEF IsReadAnswer, IsWriteAnswer, WriteQp
  <2> QED BY <1>2, <2>1, <2>2
<1> QED BY <1>1, <1>4, <1>6

LEMMA RequestQpKind ==
  ASSUME NEW e \in Se
  PROVE  /\ \A p \in SentTo(ReqQp(e)) : p \in RequestAcks /\ p.dmac = e
         /\ \A p \in SentBy(ReqQp(e)) : p \in Received /\ IsRequest(p) /\ p.smac = e
<1>1. ASSUME NEW p \in SentTo(ReqQp(e)) PROVE p \in RequestAcks /\ p.dmac = e
  <2>1. p \in Orders \cup RequestAcks /\ p.dmac = e /\ p.dqpn = SReqQpn
    BY DEF SentTo, ReqQp
  <2> QED BY <2>1, Numbers DEF Orders
<1>2. ASSUME NEW p \in SentBy(ReqQp(e)) PROVE p \in Received /\ IsRequest(p) /\ p.smac = e
  <2>1. p \in Received /\ p \notin Recirculated /\ p.smac = e /\ p.dqpn = ToSReq
    BY DEF SentBy, ReqQp, Dqpn
  <2> QED BY <2>1, Numbers DEF IsRequest, Received, Recirculated
<1> QED BY <1>1, <1>2

LEMMA QpCases == \A q \in Qps : q \in Responders \/ \E e \in Se : q = ReqQp(e)
BY DEF Responders, Qps, ReqQp

LEMMA InMoving ==
  /\ \A p : p \in Moving <=> \/ p \in InFlight(rx_queue) \/ p \in InFlight(tx_queue)
                             \/ \E q \in Qps : p \in InFlight(qp_rx[q])
                             \/ \E q \in Responders : p \in InFlight(qp_tx[q])
  /\ \A p : p \in Moving' <=> \/ p \in InFlight(rx_queue') \/ p \in InFlight(tx_queue')
                              \/ \E q \in Qps : p \in InFlight(qp_rx'[q])
                              \/ \E q \in Responders : p \in InFlight(qp_tx'[q])
BY DEF Moving, InFlight

\* Every packet under way is a request, a recirculated packet, a READ or
\* WRITE of the switch or an answer to one, or an ACK of a request.
LEMMA KindOf ==
  ASSUME Kinds, NEW p \in Moving
  PROVE  /\ p \in Received \cup Sent /\ p \in AnyPacket
         /\ Aside(p) \/ (QpOf(p) \in Responders /\ Requester(p) = RequesterOf(QpOf(p)))
         /\ Requester(p) \in Se
<1>1. p \in Received \cup Sent
  <2>1. CASE p \in InFlight(rx_queue) \/ p \in InFlight(tx_queue)
    BY <2>1, InFlightType DEF Kinds
  <2>2. ASSUME NEW d \in Qps, p \in InFlight(qp_rx[d]) PROVE p \in Sent
    <3>1. p \in SentTo(d)
      BY <2>2, InFlightType DEF Kinds
    <3> QED BY <3>1 DEF SentTo, Sent
  <2>3. ASSUME NEW d \in Qps, p \in InFlight(qp_tx[d]) PROVE p \in Received
    <3>1. p \in SentBy(d)
      BY <2>3, InFlightType DEF Kinds
    <3> QED BY <3>1 DEF SentBy
  <2> QED BY <2>1, <2>2, <2>3, InMoving, ResponderNames
<1> QED BY <1>1, RecirculatedKind, RequestKind, AnswerKind, OrderKind, RequestAckKind,
           ResponderNames DEF Sent

\* Where the traffic of a queue pair is.
LEMMA TrafficPlace ==
  ASSUME Kinds, NEW q \in Responders, NEW p \in Traffic(q)
  PROVE  \/ /\ p \in InFlight(rx_queue) \/ p \in InFlight(qp_tx[q])
            /\ p \in Received /\ p \notin Recirculated /\ ~IsRequest(p)
            /\ IsReply(p) \/ IsNak(p)
         \/ /\ p \in InFlight(qp_rx[q]) \/ p \in InFlight(tx_queue)
            /\ p \in Orders
<1>1. p \in Moving /\ QpOf(p) = q
  BY DEF Traffic
<1>2. ~Aside(p)
  BY <1>1 DEF Aside
<1>3. CASE p \in InFlight(rx_queue)
  <2>1. p \in Received
    BY <1>3, InFlightType DEF Kinds
  <2> QED BY <1>2, <1>3, <2>1, RequestKind, RecirculatedKind, AnswerKind
<1>4. CASE p \in InFlight(tx_queue)
  <2>1. p \in Sent
    BY <1>4, InFlightType DEF Kinds
  <2> QED BY <1>2, <1>4, <2>1, RecirculatedKind, RequestAckKind DEF Sent
<1>5. ASSUME NEW d \in Qps, p \in InFlight(qp_rx[d])
      PROVE  p \in InFlight(qp_rx[q]) /\ p \in Orders
  <2>1. p \in SentTo(d)
    BY <1>5, InFlightType DEF Kinds
  <2>2. d \in Responders
    BY <1>2, <2>1, QpCases, RequestQpKind, RequestAckKind
  <2> QED BY <1>1, <1>5, <2>1, <2>2, SentToKind
<1>6. ASSUME NEW d \in Responders, p \in InFlight(qp_tx[d])
      PROVE  /\ p \in InFlight(qp_tx[q]) /\ p \in Received /\ p \notin Recirculated
             /\ ~IsRequest(p) /\ (IsReply(p) \/ IsNak(p))
  <2>1. p \in SentBy(d)
    BY <1>6, InFlightType DEF Kinds, Responders
  <2>2. p \in Received /\ p \notin Recirculated /\ ~IsRequest(p) /\ d = q
    BY <1>1, <1>6, <2>1, SentByKind
  <2>3. IsReply(p) \/ IsNak(p)
    BY <2>2, AnswerKind
  <2> QED BY <1>6, <2>2, <2>3
<1> QED BY <1>1, <1>3, <1>4, <1>5, <1>6, InMoving

LEMMA Unrelated ==
  ASSUME NEW a \in AnyPacket, NEW b \in AnyPacket,
         QpOf(a) \notin Responders \/ QpOf(a) # QpOf(b),
         ~IsRequest(a) \/ ~IsRequest(b) \/ a.smac # b.smac
  PROVE  <<a, b>> \in Behind
BY DEF Behind

LEMMA Earlier ==
  ASSUME NEW a \in AnyPacket, NEW b \in AnyPacket, <<a, b>> \in Behind,
         QpOf(a) \in Responders, QpOf(a) = QpOf(b), ~IsNak(b)
  PROVE  a.psn < b.psn
BY DEF Behind

-----------------------------------------------------------------------------
(* How a step changes the queues. R is any relation that the packets       *)
(* ahead have to those behind them.                                        *)

LEMMA InOrderNext ==
  ASSUME NEW R,
         Pairwise(rx_queue', R), Pairwise(tx_queue', R),
         Ahead(InFlight(rx_queue'), InFlight(tx_queue'), R),
         \A q \in Responders :
           /\ Pairwise(qp_tx'[q], R) /\ Pairwise(qp_rx'[q], R)
           /\ Ahead(InFlight(qp_tx'[q]), InFlight(qp_rx'[q]), R)
           /\ Ahead(InFlight(rx_queue'), InFlight(qp_tx'[q]) \cup InFlight(qp_rx'[q]), R)
           /\ Ahead(InFlight(qp_tx'[q]) \cup InFlight(qp_rx'[q]), InFlight(tx_queue'), R)
  PROVE  InOrder(R)'
<1> DEFINE Line(q) ==
             /\ Pairwise(qp_tx'[q], R) /\ Pairwise(qp_rx'[q], R)
             /\ Ahead(InFlight(qp_tx'[q]), InFlight(qp_rx'[q]), R)
             /\ Ahead(InFlight(rx_queue'), InFlight(qp_tx'[q]) \cup InFlight(qp_rx'[q]), R)
             /\ Ahead(InFlight(qp_tx'[q]) \cup InFlight(qp_rx'[q]), InFlight(tx_queue'), R)
<1>1. ASSUME NEW q \in Responders PROVE LineInOrder(q, R)'
  <2>1. Line(q)
    OBVIOUS
  <2> QED BY <2>1 DEF LineInOrder, Pairwise, Ahead, InFlight
<1> QED BY <1>1 DEF InOrder, Pairwise, Ahead, InFlight

LEMMA InOrderParts ==
  ASSUME NEW R, InOrder(R)
  PROVE  /\ Pairwise(rx_queue, R) /\ Pairwise(tx_queue, R)
         /\ Ahead(InFlight(rx_queue), InFlight(tx_queue), R)
         /\ \A q \in Responders :
              /\ Pairwise(qp_tx[q], R) /\ Pairwise(qp_rx[q], R)
              /\ Ahead(InFlight(qp_tx[q]), InFlight(qp_rx[q]), R)
              /\ Ahead(InFlight(rx_queue), InFlight(qp_tx[q]) \cup InFlight(qp_rx[q]), R)
              /\ Ahead(InFlight(qp_tx[q]) \cup InFlight(qp_rx[q]), InFlight(tx_queue), R)
BY DEF InOrder, LineInOrder

LEMMA OtherQp ==
  ASSUME Kinds
  PROVE  \A q \in Responders : \A x \in InFlight(qp_tx[q]) \cup InFlight(qp_rx[q]) :
           x \in Moving /\ QpOf(x) = q
<1> SUFFICES ASSUME NEW q \in Responders, NEW x \in InFlight(qp_tx[q]) \cup InFlight(qp_rx[q])
             PROVE  x \in Moving /\ QpOf(x) = q
  OBVIOUS
<1>1. q \in Qps
  BY ResponderNames
<1>2. x \in Moving
  BY <1>1, InMoving
<1>3. x \in SentBy(q) \/ x \in SentTo(q)
  BY <1>1, InFlightType DEF Kinds
<1> QED BY <1>2, <1>3, SentByKind, SentToKind

\* An answer leaves its queue pair for the switch, or is lost.
LEMMA AnswerLeaves ==
  ASSUME TypeOK, Kinds, NEW R, InOrder(R), NEW q \in Responders, qp_tx[q] # <<>>,
         NEW p, p = Head(qp_tx[q]), qp_tx' = [qp_tx EXCEPT ![q] = Tail(@)],
         rx_queue' = Append(rx_queue, p) \/ rx_queue' = rx_queue,
         tx_queue' = tx_queue, qp_rx' = qp_rx,
         \A x \in Moving : QpOf(x) # q => <<p, x>> \in R
  PROVE  /\ Kinds' /\ InOrder(R)' /\ Moving' \subseteq Moving
         /\ \A x \in InFlight(rx_queue') : IsRequest(x) => x \in InFlight(rx_queue)
<1> DEFINE X == InFlight(rx_queue)
           T == InFlight(tx_queue)
           A(d) == InFlight(qp_tx[d])
           B(d) == InFlight(qp_rx[d])
           X1 == InFlight(rx_queue')
           A1(d) == InFlight(qp_tx'[d])
<1>1. /\ q \in Qps /\ qp_tx[q] \in Seq(SentBy(q)) /\ rx_queue \in Seq(Received)
      /\ qp_tx'[q] = Tail(qp_tx[q]) /\ \A d \in Qps \ {q} : qp_tx'[d] = qp_tx[d]
  BY DEF Kinds, Responders, TypeOK, QpTypeOK
<1>2. /\ p \in SentBy(q) /\ qp_tx'[q] \in Seq(SentBy(q))
      /\ A(q) = {p} \cup A1(q)
      /\ Pairwise(qp_tx[q], R) => /\ Pairwise(qp_tx'[q], R)
                                  /\ \A x \in A1(q) : <<p, x>> \in R
  <2> DEFINE s == qp_tx[q]
  <2> HIDE DEF s
  <2>1. s \in Seq(SentBy(q)) /\ s # <<>> /\ p = Head(s) /\ qp_tx'[q] = Tail(s)
    BY <1>1 DEF s
  <2> QED BY <2>1, TailFacts DEF s
<1>3. p \in Received
  BY <1>2, SentByKind
<1>4. /\ rx_queue' \in Seq(Received) /\ X \subseteq X1 /\ X1 \subseteq X \cup {p}
      /\ Pairwise(rx_queue, R) /\ (\A x \in X : <<x, p>> \in R) => Pairwise(rx_queue', R)
  <2>1. CASE rx_queue' = rx_queue
    BY <1>1, <2>1
  <2>2. CASE rx_queue' = Append(rx_queue, p)
    <3> DEFINE s == rx_queue
    <3> HIDE DEF s
    <3>1. s \in Seq(Received) /\ rx_queue' = Append(s, p)
      BY <1>1, <2>2 DEF s
    <3>2. /\ rx_queue' \in Seq(Received) /\ X1 = InFlight(s) \cup {p}
          /\ Pairwise(s, R) /\ (\A x \in InFlight(s) : <<x, p>> \in R) => Pairwise(rx_queue', R)
      BY <1>3, <3>1, AppendFacts
    <3> QED BY <3>2 DEF s
  <2> QED BY <2>1, <2>2
<1>5. Kinds'
  <2>1. \A d \in Qps : qp_tx'[d] \in Seq(SentBy(d))
    BY <1>1, <1>2 DEF Kinds
  <2> QED BY <1>4, <2>1 DEF Kinds, SentTo, SentBy
<1>6. \A d \in Responders : d # q => \A x \in A(d) \cup B(d) : x \in Moving /\ QpOf(x) # q
  BY OtherQp
<1>7. p \in A(q)
  BY <1>2
<1>8. /\ Pairwise(rx_queue, R) /\ Pairwise(tx_queue, R) /\ Ahead(X, T, R)
      /\ \A d \in Responders :
           /\ Pairwise(qp_tx[d], R) /\ Pairwise(qp_rx[d], R)
           /\ Ahead(A(d), B(d), R) /\ Ahead(X, A(d) \cup B(d), R) /\ Ahead(A(d) \cup B(d), T, R)
  BY InOrderParts
<1>9. \A d \in Responders : A1(d) \subseteq A(d) /\ (d # q => qp_tx'[d] = qp_tx[d])
  BY <1>1, <1>2, ResponderNames
<1>10. Moving' \subseteq Moving
  <2>1. ASSUME NEW x \in Moving' PROVE x \in Moving
    <3>1. \/ x \in X1 \/ x \in T \/ \E d \in Qps : x \in B(d)
          \/ \E d \in Responders : x \in A1(d)
      BY InMoving
    <3> HIDE DEF X, T, A, B, X1, A1
    <3>2. x \in X \/ x \in T \/ (\E d \in Qps : x \in B(d))
          \/ \E d \in Responders : x \in A(d)
      BY <1>4, <1>7, <1>9, <3>1
    <3> QED BY <3>2, InMoving DEF X, T, A, B
  <2> QED BY <2>1
<1>11. InOrder(R)'
  <2> HIDE DEF X, T, A, B, X1, A1
  <2>1. \A x \in X : <<x, p>> \in R
    BY <1>7, <1>8 DEF Ahead
  <2>2. \A x \in T : <<p, x>> \in R
    BY <1>7, <1>8 DEF Ahead
  <2>3. \A d \in Responders : \A x \in A1(d) \cup B(d) : <<p, x>> \in R
    BY <1>2, <1>6, <1>7, <1>8, <1>9 DEF Ahead
  <2>4. Ahead(X1, T, R) /\ \A d \in Responders : Ahead(X1, A1(d) \cup B(d), R)
    BY <1>4, <1>8, <1>9, <2>2, <2>3 DEF Ahead
  <2>5. \A d \in Responders : /\ Ahead(A1(d), B(d), R) /\ Ahead(A1(d) \cup B(d), T, R)
                              /\ Pairwise(qp_tx'[d], R)
    BY <1>2, <1>8, <1>9 DEF Ahead
  <2>6. Pairwise(rx_queue', R)
    BY <1>4, <1>8, <2>1
  <2> QED BY <1>8, <2>4, <2>5, <2>6, InOrderNext DEF X, T, A, B, X1, A1
<1>12. ~IsRequest(p)
  BY <1>2, SentByKind
<1> QED BY <1>4, <1>5, <1>10, <1>11, <1>12

\* A request leaves its queue pair for the switch, or is lost.
LEMMA RequestLeaves ==
  ASSUME TypeOK, Kinds, NEW R, InOrder(R), NEW e \in Se, NEW p \in Received,
         NEW s \in Seq(SentBy(ReqQp(e))), qp_tx' = [qp_tx EXCEPT ![ReqQp(e)] = s],
         rx_queue' = Append(rx_queue, p) \/ rx_queue' = rx_queue,
         tx_queue' = tx_queue, qp_rx' = qp_rx,
         \A x \in Moving : <<p, x>> \in R /\ <<x, p>> \in R
  PROVE  /\ Kinds' /\ InOrder(R)' /\ Moving' \subseteq Moving \cup {p}
         /\ InFlight(rx_queue') \subseteq InFlight(rx_queue) \cup {p}
<1> DEFINE X == InFlight(rx_queue)
           T == InFlight(tx_queue)
           A(d) == InFlight(qp_tx[d])
           B(d) == InFlight(qp_rx[d])
           X1 == InFlight(rx_queue')
<1>1. /\ ReqQp(e) \in Qps /\ ReqQp(e) \notin Responders /\ rx_queue \in Seq(Received)
      /\ qp_tx'[ReqQp(e)] = s /\ \A d \in Qps \ {ReqQp(e)} : qp_tx'[d] = qp_tx[d]
  BY QpNames DEF Kinds, Responders, ReqQp, TypeOK, QpTypeOK
<1>2. /\ rx_queue' \in Seq(Received) /\ X1 \subseteq X \cup {p}
      /\ Pairwise(rx_queue, R) /\ (\A x \in X : <<x, p>> \in R) => Pairwise(rx_queue', R)
  <2>1. CASE rx_queue' = rx_queue
    BY <1>1, <2>1
  <2>2. CASE rx_queue' = Append(rx_queue, p)
    <3> DEFINE t == rx_queue
    <3> HIDE DEF t
    <3>1. t \in Seq(Received) /\ rx_queue' = Append(t, p)
      BY <1>1, <2>2 DEF t
    <3>2. /\ rx_queue' \in Seq(Received) /\ X1 = InFlight(t) \cup {p}
          /\ Pairwise(t, R) /\ (\A x \in InFlight(t) : <<x, p>> \in R) => Pairwise(rx_queue', R)
      BY <3>1, AppendFacts
    <3> QED BY <3>2 DEF t
  <2> QED BY <2>1, <2>2
<1>3. Kinds'
  <2>1. \A d \in Qps : qp_tx'[d] \in Seq(SentBy(d))
    BY <1>1 DEF Kinds
  <2> QED BY <1>2, <2>1 DEF Kinds, SentTo, SentBy
<1>4. \A d \in Responders : qp_tx'[d] = qp_tx[d] /\ d \in Qps
  BY <1>1, ResponderNames
<1>5. Moving' \subseteq Moving \cup {p}
  <2>1. ASSUME NEW x \in Moving' PROVE x \in Moving \cup {p}
    <3>1. \/ x \in X1 \/ x \in T \/ \E d \in Qps : x \in B(d)
          \/ \E d \in Responders : x \in A(d)
      BY <1>4, InMoving
    <3> HIDE DEF X, T, A, B, X1
    <3>2. x = p \/ x \in X \/ x \in T \/ (\E d \in Qps : x \in B(d))
          \/ \E d \in Responders : x \in A(d)
      BY <1>2, <3>1
    <3> QED BY <3>2, InMoving DEF X, T, A, B
  <2> QED BY <2>1
<1>6. /\ Pairwise(rx_queue, R) /\ Pairwise(tx_queue, R) /\ Ahead(X, T, R)
      /\ \A d \in Responders :
           /\ Pairwise(qp_tx[d], R) /\ Pairwise(qp_rx[d], R)
           /\ Ahead(A(d), B(d), R) /\ Ahead(X, A(d) \cup B(d), R) /\ Ahead(A(d) \cup B(d), T, R)
  BY InOrderParts
<1>7. /\ X \subseteq Moving /\ T \subseteq Moving
      /\ \A d \in Responders : A(d) \cup B(d) \subseteq Moving
  BY <1>4, InMoving
<1>8. InOrder(R)'
  <2> HIDE DEF X, T, A, B, X1
  <2>1. Ahead(X1, T, R) /\ \A d \in Responders : Ahead(X1, A(d) \cup B(d), R)
    BY <1>2, <1>6, <1>7 DEF Ahead
  <2>2. Pairwise(rx_queue', R)
    BY <1>2, <1>6, <1>7
  <2> QED BY <1>4, <1>6, <2>1, <2>2, InOrderNext DEF X, T, A, B, X1
<1> QED BY <1>2, <1>3, <1>5, <1>8

\* The switch sends a packet: round again, to a queue pair, or nowhere.
LEMMA SwitchSends ==
  ASSUME TypeOK, Kinds, NEW R, InOrder(R), SwitchTx,
         \A a \in Recirculated, x \in Moving :
           QpOf(x) \in Responders /\ <<x, a>> \in R => <<a, x>> \in R
  PROVE  /\ Kinds' /\ InOrder(R)' /\ Moving' \subseteq Moving
         /\ \A x \in InFlight(rx_queue') : IsRequest(x) => x \in InFlight(rx_queue)
<1> DEFINE p == Head(tx_queue)
           t == <<p.dmac, p.dqpn>>
           X == InFlight(rx_queue)
           T == InFlight(tx_queue)
           A(d) == InFlight(qp_tx[d])
           B(d) == InFlight(qp_rx[d])
           X1 == InFlight(rx_queue')
           T1 == InFlight(tx_queue')
           B1(d) == InFlight(qp_rx'[d])
<1>1. /\ tx_queue # <<>> /\ tx_queue' = Tail(tx_queue) /\ qp_tx' = qp_tx
      /\ tx_queue \in Seq(Sent) /\ rx_queue \in Seq(Received)
      /\ qp_rx \in [Qps -> Seq(FromSwitch)]
  BY DEF SwitchTx, Kinds, TypeOK, QpTypeOK
<1>2. /\ tx_queue' \in Seq(Sent) /\ p \in Sent /\ T = {p} \cup T1
      /\ Pairwise(tx_queue, R) => Pairwise(tx_queue', R) /\ \A x \in T1 : <<p, x>> \in R
  <2> DEFINE s == tx_queue
  <2> HIDE DEF s
  <2>1. s \in Seq(Sent) /\ s # <<>> /\ p = Head(s) /\ tx_queue' = Tail(s)
    BY <1>1 DEF s
  <2> QED BY <2>1, TailFacts DEF s
<1>3. /\ Pairwise(rx_queue, R) /\ Pairwise(tx_queue, R) /\ Ahead(X, T, R)
      /\ \A d \in Responders :
           /\ Pairwise(qp_tx[d], R) /\ Pairwise(qp_rx[d], R)
           /\ Ahead(A(d), B(d), R) /\ Ahead(X, A(d) \cup B(d), R) /\ Ahead(A(d) \cup B(d), T, R)
  BY InOrderParts
<1>4. \A d \in Responders : d \in Qps /\ \A x \in A(d) \cup B(d) : x \in Moving /\ QpOf(x) = d
  BY OtherQp, ResponderNames
<1>5. CASE p.dmac = SwitchMac /\ rx_queue' = Append(rx_queue, p) /\ qp_rx' = qp_rx
  <2>1. p \in Recirculated
    BY <1>2, <1>5, OrderKind, RequestAckKind, Numbers DEF Sent
  <2>2. p \in Received
    BY <2>1, RecirculatedKind
  <2>3. /\ rx_queue' \in Seq(Received) /\ X1 = X \cup {p}
        /\ Pairwise(rx_queue, R) /\ (\A x \in X : <<x, p>> \in R) => Pairwise(rx_queue', R)
    <3> DEFINE s == rx_queue
    <3> HIDE DEF s, p
    <3>1. s \in Seq(Received) /\ rx_queue' = Append(s, p)
      BY <1>1, <1>5 DEF s
    <3> QED BY <2>2, <3>1, AppendFacts DEF s
  <2>4. Kinds'
    BY <1>1, <1>2, <1>5, <2>3 DEF Kinds, SentTo, SentBy
  <2>5. Moving' \subseteq Moving
    <3>1. ASSUME NEW x \in Moving' PROVE x \in Moving
      <4>1. \/ x \in X1 \/ x \in T1 \/ \E d \in Qps : x \in B(d)
            \/ \E d \in Responders : x \in A(d)
        BY <1>1, <1>5, InMoving
      <4> HIDE DEF p, X, T, A, B, X1, T1
      <4>2. \/ x \in X \/ x \in T \/ \E d \in Qps : x \in B(d)
            \/ \E d \in Responders : x \in A(d)
        BY <1>2, <2>3, <4>1
      <4> QED BY <4>2, InMoving DEF X, T, A, B
    <3> QED BY <3>1
  <2>6. InOrder(R)'
    <3> HIDE DEF p, X, T, A, B, X1, T1
    <3>1. Ahead(X1, T1, R)
      BY <1>2, <1>3, <2>3 DEF Ahead
    <3>2. \A d \in Responders : /\ Ahead(X1, A(d) \cup B(d), R)
                                /\ Ahead(A(d) \cup B(d), T1, R)
      BY <1>2, <1>3, <1>4, <2>1, <2>3 DEF Ahead
    <3>3. Pairwise(rx_queue', R) /\ Pairwise(tx_queue', R)
      BY <1>2, <1>3, <2>3 DEF Ahead
    <3> QED BY <1>1, <1>3, <1>5, <3>1, <3>2, <3>3, InOrderNext DEF X, T, A, B, X1, T1
  <2>7. ~IsRequest(p)
    BY <2>1, RecirculatedKind
  <2> QED BY <2>3, <2>4, <2>5, <2>6, <2>7
<1>6. CASE t \in Qps /\ qp_rx' = [qp_rx EXCEPT ![t] = Append(@, p)] /\ rx_queue' = rx_queue
  <2>1. p \in SentTo(t)
    <3>1. p.dmac \in Se
      BY <1>6 DEF Qps
    <3>2. p \notin Recirculated
      BY <3>1, RecirculatedKind, Numbers
    <3> QED BY <1>2, <3>2 DEF Sent, SentTo
  <2>2. /\ qp_rx'[t] \in Seq(SentTo(t)) /\ B1(t) = B(t) \cup {p}
        /\ Pairwise(qp_rx[t], R) /\ (\A x \in B(t) : <<x, p>> \in R) => Pairwise(qp_rx'[t], R)
    <3> DEFINE s == qp_rx[t]
    <3>1. s \in Seq(SentTo(t)) /\ qp_rx'[t] = Append(s, p)
      BY <1>1, <1>6 DEF Kinds
    <3> DEFINE w == Append(s, p)
    <3>2. w = qp_rx'[t]
      BY <3>1
    <3>3. /\ w \in Seq(SentTo(t)) /\ InFlight(w) = InFlight(s) \cup {p}
          /\ Pairwise(s, R) /\ (\A x \in InFlight(s) : <<x, p>> \in R) => Pairwise(w, R)
      <4> HIDE DEF s, p, t
      <4> QED BY <2>1, <3>1, AppendFacts
    <3> HIDE DEF w, p, t
    <3> QED BY <3>2, <3>3
  <2>3. \A d \in Qps : d # t => qp_rx'[d] = qp_rx[d]
    BY <1>1, <1>6
  <2>4. Kinds'
    <3>1. \A d \in Qps : qp_rx'[d] \in Seq(SentTo(d))
      BY <2>2, <2>3 DEF Kinds
    <3> QED BY <1>1, <1>2, <1>6, <3>1 DEF Kinds, SentTo, SentBy
  <2>5. \A d \in Qps : B1(d) \subseteq B(d) \cup {p}
    BY <2>2, <2>3
  <2>6. Moving' \subseteq Moving
    <3>1. ASSUME NEW x \in Moving' PROVE x \in Moving
      <4>1. \/ x \in X \/ x \in T1 \/ \E d \in Qps : x \in B1(d)
            \/ \E d \in Responders : x \in A(d)
        BY <1>1, <1>6, InMoving
      <4> HIDE DEF p, X, T, A, B, B1, T1
      <4>2. \/ x \in X \/ x \in T \/ \E d \in Qps : x \in B(d)
            \/ \E d \in Responders : x \in A(d)
        BY <1>2, <2>5, <4>1
      <4> QED BY <4>2, InMoving DEF X, T, A, B
    <3> QED BY <3>1
  <2>7. InOrder(R)'
    <3>1. \A d \in Responders : d \in Qps /\ (d # t => B1(d) = B(d) /\ qp_rx'[d] = qp_rx[d])
      BY <1>4, <2>3
    <3> HIDE DEF p, X, T, A, B, B1, T1, t
    <3>2. Ahead(X, T1, R)
      BY <1>2, <1>3 DEF Ahead
    <3>3. \A d \in Responders : /\ Ahead(X, A(d) \cup B1(d), R)
                                /\ Ahead(A(d), B1(d), R)
                                /\ Ahead(A(d) \cup B1(d), T1, R)
      BY <1>2, <1>3, <2>5, <3>1 DEF Ahead
    <3>4. \A d \in Responders : Pairwise(qp_rx'[d], R)
      BY <1>2, <1>3, <2>2, <3>1 DEF Ahead
    <3>5. Pairwise(tx_queue', R)
      BY <1>2, <1>3
    <3> QED BY <1>1, <1>3, <1>6, <3>2, <3>3, <3>4, <3>5, InOrderNext DEF X, T, A, B, B1, T1
  <2> QED BY <1>6, <2>4, <2>6, <2>7
<1>7. CASE rx_queue' = rx_queue /\ qp_rx' = qp_rx
  <2>1. Kinds'
    BY <1>1, <1>2, <1>7 DEF Kinds, SentTo, SentBy
  <2>2. Moving' \subseteq Moving
    <3>1. ASSUME NEW x \in Moving' PROVE x \in Moving
      <4>1. \/ x \in X \/ x \in T1 \/ \E d \in Qps : x \in B(d)
            \/ \E d \in Responders : x \in A(d)
        BY <1>1, <1>7, InMoving
      <4> HIDE DEF p, X, T, A, B, T1
      <4>2. \/ x \in X \/ x \in T \/ \E d \in Qps : x \in B(d)
            \/ \E d \in Responders : x \in A(d)
        BY <1>2, <4>1
      <4> QED BY <4>2, InMoving DEF X, T, A, B
    <3> QED BY <3>1
  <2>3. InOrder(R)'
    <3> HIDE DEF p, X, T, A, B, T1, t
    <3>1. Ahead(X, T1, R) /\ \A d \in Responders : Ahead(A(d) \cup B(d), T1, R)
      BY <1>2, <1>3 DEF Ahead
    <3>2. Pairwise(tx_queue', R)
      BY <1>2, <1>3
    <3> QED BY <1>1, <1>3, <1>7, <3>1, <3>2, InOrderNext DEF X, T, A, B, T1
  <2> QED BY <1>7, <2>1, <2>2, <2>3
<1> QED BY <1>5, <1>6, <1>7 DEF SwitchTx

\* What a queue pair has received is a READ or WRITE, or an ACK for a request.
LEMMA ReceivedAt ==
  ASSUME Kinds, NEW d \in Qps, NEW x \in InFlight(qp_rx[d])
  PROVE  (d \in Responders /\ x \in Orders /\ QpOf(x) = d)
         \/ (d \notin Responders /\ x \in RequestAcks)
<1>1. x \in SentTo(d)
  BY InFlightType DEF Kinds
<1>2. CASE d \in Responders
  BY <1>1, <1>2, SentToKind
<1>3. CASE d \notin Responders
  BY <1>1, <1>3, QpCases, RequestQpKind
<1> QED BY <1>2, <1>3

\* The queue pair sends nothing, or a packet that may take the place of p.
Answered(q, p, S, R) ==
  \/ qp_tx' = qp_tx /\ S = {}
  \/ \E r \in SentBy(q) :
       /\ qp_tx' = [qp_tx EXCEPT ![q] = Append(@, r)] /\ S = {r}
       /\ \A x \in Moving : /\ <<x, p>> \in R => <<x, r>> \in R
                            /\ <<p, x>> \in R => <<r, x>> \in R

\* A queue pair takes a READ or WRITE, and may put an answer in its place.
LEMMA OrderTaken ==
  ASSUME TypeOK, Kinds, NEW R, InOrder(R), NEW q \in Responders, qp_rx[q] # <<>>,
         NEW p, p = Head(qp_rx[q]), qp_rx' = [qp_rx EXCEPT ![q] = Tail(@)],
         rx_queue' = rx_queue, tx_queue' = tx_queue, NEW S,
         Answered(q, p, S, R)
  PROVE  /\ Kinds' /\ InOrder(R)' /\ Moving' \subseteq Moving \cup S
         /\ \A x \in Moving' : QpOf(x) = q /\ x \in Orders => <<p, x>> \in R
         /\ \A x \in Moving' : \/ x \in S \/ x \in RequestAcks
                               \/ QpOf(x) \in Responders \ {q}
                               \/ <<p, x>> \in R \/ <<x, p>> \in R
<1> DEFINE X == InFlight(rx_queue)
           T == InFlight(tx_queue)
           A(d) == InFlight(qp_tx[d])
           B(d) == InFlight(qp_rx[d])
           A1(d) == InFlight(qp_tx'[d])
           B1(d) == InFlight(qp_rx'[d])
<1>1. /\ q \in Qps /\ qp_rx[q] \in Seq(SentTo(q)) /\ qp_tx[q] \in Seq(SentBy(q))
      /\ qp_rx'[q] = Tail(qp_rx[q]) /\ (\A d \in Qps \ {q} : qp_rx'[d] = qp_rx[d])
      /\ qp_tx \in [Qps -> Seq(ToSwitch)]
  BY DEF Kinds, Responders, TypeOK, QpTypeOK
<1>2. /\ Pairwise(rx_queue, R) /\ Pairwise(tx_queue, R) /\ Ahead(X, T, R)
      /\ \A d \in Responders :
           /\ Pairwise(qp_tx[d], R) /\ Pairwise(qp_rx[d], R)
           /\ Ahead(A(d), B(d), R) /\ Ahead(X, A(d) \cup B(d), R) /\ Ahead(A(d) \cup B(d), T, R)
  BY InOrderParts
<1>3. /\ qp_rx'[q] \in Seq(SentTo(q)) /\ B(q) = {p} \cup B1(q)
      /\ Pairwise(qp_rx'[q], R) /\ \A x \in B1(q) : <<p, x>> \in R
  <2> DEFINE s == qp_rx[q]
  <2>1. Pairwise(s, R)
    BY <1>2
  <2> HIDE DEF s
  <2>2. s \in Seq(SentTo(q)) /\ s # <<>> /\ p = Head(s) /\ qp_rx'[q] = Tail(s)
    BY <1>1 DEF s
  <2> QED BY <2>1, <2>2, TailFacts DEF s
<1>4. /\ \A d \in Responders : d \in Qps /\ \A x \in A(d) \cup B(d) : x \in Moving /\ QpOf(x) = d
      /\ X \subseteq Moving /\ T \subseteq Moving
  BY OtherQp, ResponderNames, InMoving
<1>5. p \in Moving /\ p \in B(q)
  BY <1>3, <1>4
<1>6. /\ \A d \in Responders \ {q} : qp_tx'[d] = qp_tx[d] /\ A1(d) = A(d)
      /\ \A d \in Qps : qp_tx'[d] \in Seq(SentBy(d))
      /\ A1(q) = A(q) \cup S /\ Pairwise(qp_tx'[q], R)
      /\ \A r \in S : \A x \in Moving : /\ <<x, p>> \in R => <<x, r>> \in R
                                        /\ <<p, x>> \in R => <<r, x>> \in R
  <2>1. CASE qp_tx' = qp_tx /\ S = {}
    BY <1>2, <2>1 DEF Kinds
  <2>2. ASSUME NEW r \in SentBy(q), qp_tx' = [qp_tx EXCEPT ![q] = Append(@, r)], S = {r},
               \A x \in Moving : /\ <<x, p>> \in R => <<x, r>> \in R
                                 /\ <<p, x>> \in R => <<r, x>> \in R
        PROVE  <1>6!1 /\ <1>6!2 /\ <1>6!3 /\ <1>6!4
    <3> DEFINE s == qp_tx[q]
               w == Append(s, r)
    <3>1. w = qp_tx'[q]
      BY <1>1, <2>2
    <3>2. s \in Seq(SentBy(q)) /\ Pairwise(s, R) /\ \A x \in InFlight(s) : <<x, r>> \in R
      BY <1>1, <1>2, <1>4, <1>5, <2>2 DEF Ahead
    <3>3. w \in Seq(SentBy(q)) /\ InFlight(w) = InFlight(s) \cup {r} /\ Pairwise(w, R)
      <4> HIDE DEF s
      <4> QED BY <3>2, AppendFacts
    <3>4. \A d \in Qps \ {q} : qp_tx'[d] = qp_tx[d]
      BY <1>1, <2>2
    <3> HIDE DEF w
    <3>5. \A d \in Qps : qp_tx'[d] \in Seq(SentBy(d))
      BY <3>1, <3>3, <3>4 DEF Kinds
    <3> QED BY <1>4, <2>2, <3>1, <3>3, <3>4, <3>5
  <2> QED BY <2>1, <2>2 DEF Answered
<1>7. Kinds'
  <2>1. \A d \in Qps : qp_rx'[d] \in Seq(SentTo(d))
    BY <1>1, <1>3 DEF Kinds
  <2> QED BY <1>6, <2>1 DEF Kinds, SentTo, SentBy
<1>8. \A d \in Qps : B1(d) \subseteq B(d) /\ (d # q => B1(d) = B(d) /\ qp_rx'[d] = qp_rx[d])
  BY <1>1, <1>3
<1>9. ASSUME NEW x \in Moving' 
      PROVE  /\ x \in Moving \cup S
             /\ QpOf(x) = q /\ x \in Orders => <<p, x>> \in R
  <2>1. \/ x \in X \/ x \in T \/ \E d \in Qps : x \in B1(d)
        \/ \E d \in Responders : x \in A1(d)
    BY InMoving
  <2>2. CASE x \in X \/ \E d \in Responders : x \in A1(d)
    <3>1. x \in Moving \cup S
      BY <1>4, <1>6, <2>2
    <3>2. x \in Received
      BY <1>4, <1>6, <2>2, InFlightType DEF Kinds, SentBy
    <3>3. x \notin Orders
      BY <3>2, OrderKind, Numbers DEF Received, ToSwitch
    <3> QED BY <3>1, <3>3
  <2>3. CASE x \in T
    BY <1>2, <1>4, <1>5, <2>3 DEF Ahead
  <2>4. ASSUME NEW d \in Qps, x \in B1(d)
        PROVE  x \in Moving /\ (QpOf(x) = q /\ x \in Orders => <<p, x>> \in R)
    <3>1. x \in B(d) /\ x \in Moving
      BY <1>8, <2>4, InMoving
    <3>2. CASE d = q
      BY <1>3, <2>4, <3>1, <3>2
    <3>3. CASE d # q
      <4>1. QpOf(x) # q
        BY <3>1, <3>3, ReceivedAt, RequestAckKind DEF Aside
      <4> QED BY <3>1, <4>1
    <3> QED BY <3>2, <3>3
  <2> QED BY <2>1, <2>2, <2>3, <2>4
<1>10. InOrder(R)'
  <2> HIDE DEF X, T, A, B, A1, B1
  <2>1. \A r \in S : /\ \A x \in X \cup A(q) : <<x, r>> \in R
                     /\ \A x \in T \cup B1(q) : <<r, x>> \in R
    BY <1>2, <1>3, <1>4, <1>5, <1>6 DEF Ahead
  <2>2. \A d \in Responders : /\ Ahead(A1(d), B1(d), R)
                              /\ Ahead(X, A1(d) \cup B1(d), R)
                              /\ Ahead(A1(d) \cup B1(d), T, R)
    BY <1>2, <1>4, <1>6, <1>8, <2>1 DEF Ahead
  <2>3. \A d \in Responders : Pairwise(qp_tx'[d], R) /\ Pairwise(qp_rx'[d], R)
    BY <1>2, <1>3, <1>4, <1>6, <1>8
  <2> QED BY <1>2, <2>2, <2>3, InOrderNext DEF X, T, A, B, A1, B1
<1>11. ASSUME NEW x \in Moving'
       PROVE  \/ x \in S \/ x \in RequestAcks \/ QpOf(x) \in Responders \ {q}
              \/ <<p, x>> \in R \/ <<x, p>> \in R
  <2>1. \/ x \in X \/ x \in T \/ (\E d \in Qps : x \in B1(d))
        \/ \E d \in Responders : x \in A1(d)
    BY InMoving
  <2> HIDE DEF X, T, A, B, A1, B1
  <2>2. CASE x \in X \/ x \in T
    BY <1>2, <1>5, <2>2 DEF Ahead
  <2>3. ASSUME NEW d \in Responders, x \in A1(d)
        PROVE  x \in S \/ QpOf(x) \in Responders \ {q} \/ <<x, p>> \in R
    BY <1>2, <1>4, <1>5, <1>6, <2>3 DEF Ahead
  <2>4. ASSUME NEW d \in Qps, x \in B1(d)
        PROVE  x \in RequestAcks \/ QpOf(x) \in Responders \ {q} \/ <<p, x>> \in R
    <3>1. CASE d = q
      BY <1>3, <2>4, <3>1
    <3>2. CASE d # q
      <4>1. x \in InFlight(qp_rx[d])
        BY <1>8, <2>4, <3>2 DEF B
      <4> QED BY <3>2, <4>1, ReceivedAt
    <3> QED BY <3>1, <3>2
  <2> QED BY <2>1, <2>2, <2>3, <2>4
<1> QED BY <1>7, <1>9, <1>10, <1>11

\* A request queue pair takes an ACK.
LEMMA AckTaken ==
  ASSUME TypeOK, Kinds, NEW R, InOrder(R), NEW e \in Se, qp_rx[ReqQp(e)] # <<>>,
         qp_rx' = [qp_rx EXCEPT ![ReqQp(e)] = Tail(@)],
         rx_queue' = rx_queue, tx_queue' = tx_queue, qp_tx' = qp_tx
  PROVE  Kinds' /\ InOrder(R)' /\ Moving' \subseteq Moving
<1> DEFINE q == ReqQp(e)
<1>1. /\ q \in Qps /\ q \notin Responders
      /\ qp_rx'[q] = Tail(qp_rx[q]) /\ (\A d \in Qps \ {q} : qp_rx'[d] = qp_rx[d])
      /\ qp_rx[q] \in Seq(SentTo(q))
  BY QpNames DEF Kinds, Responders, ReqQp, TypeOK, QpTypeOK
<1>2. qp_rx'[q] \in Seq(SentTo(q)) /\ InFlight(qp_rx'[q]) \subseteq InFlight(qp_rx[q])
  <2> DEFINE s == qp_rx[q]
  <2> HIDE DEF s, q
  <2>1. s \in Seq(SentTo(q)) /\ s # <<>> /\ qp_rx'[q] = Tail(s)
    BY <1>1 DEF s, q
  <2>2. /\ Tail(s) \in Seq(SentTo(q)) /\ InFlight(s) = {Head(s)} \cup InFlight(Tail(s))
        /\ Pairwise(s, R) => Pairwise(Tail(s), R)
    BY <2>1, TailFacts
  <2> QED BY <2>1, <2>2 DEF s
<1>3. Kinds'
  <2>1. \A d \in Qps : qp_rx'[d] \in Seq(SentTo(d))
    BY <1>1, <1>2 DEF Kinds
  <2> QED BY <2>1 DEF Kinds, SentTo, SentBy
<1>4. \A d \in Responders : qp_rx'[d] = qp_rx[d]
  BY <1>1, ResponderNames
<1>5. InOrder(R)'
  BY <1>4, InOrderParts, InOrderNext
<1>6. \A d \in Qps : InFlight(qp_rx'[d]) \subseteq InFlight(qp_rx[d])
  BY <1>1, <1>2
<1>7. Moving' \subseteq Moving
  <2>1. ASSUME NEW x \in Moving' PROVE x \in Moving
    BY <1>6, InMoving
  <2> QED BY <2>1
<1> QED BY <1>3, <1>5, <1>7

\* The switch takes a packet and sends others.
LEMMA PacketProcessed ==
  ASSUME TypeOK, Kinds, NEW R, InOrder(R), rx_queue # <<>>, NEW p, p = Head(rx_queue),
         rx_queue' = Tail(rx_queue), qp_tx' = qp_tx, qp_rx' = qp_rx,
         NEW s \in Seq(Sent), Send(s), Pairwise(s, R),
         \A x \in Moving : <<p, x>> \in R => \A y \in InFlight(s) : <<x, y>> \in R
  PROVE  /\ Kinds' /\ InOrder(R)' /\ Moving' \subseteq Moving \cup InFlight(s)
         /\ \A x \in Moving' : x \in InFlight(s) \/ <<p, x>> \in R \/ x \in RequestAcks
         /\ InFlight(rx_queue') \subseteq InFlight(rx_queue)
         /\ \A x \in InFlight(rx_queue') : <<p, x>> \in R
<1> DEFINE X == InFlight(rx_queue)
           T == InFlight(tx_queue)
           A(d) == InFlight(qp_tx[d])
           B(d) == InFlight(qp_rx[d])
           X1 == InFlight(rx_queue')
           T1 == InFlight(tx_queue')
           Y == InFlight(s)
<1>1. rx_queue \in Seq(Received) /\ tx_queue \in Seq(Sent) /\ tx_queue' = tx_queue \o s
  BY DEF Kinds, Send
<1>2. /\ Pairwise(rx_queue, R) /\ Pairwise(tx_queue, R) /\ Ahead(X, T, R)
      /\ \A d \in Responders :
           /\ Pairwise(qp_tx[d], R) /\ Pairwise(qp_rx[d], R)
           /\ Ahead(A(d), B(d), R) /\ Ahead(X, A(d) \cup B(d), R) /\ Ahead(A(d) \cup B(d), T, R)
  BY InOrderParts
<1>3. /\ rx_queue' \in Seq(Received) /\ X = {p} \cup X1
      /\ Pairwise(rx_queue', R) /\ \A x \in X1 : <<p, x>> \in R
  <2> DEFINE t == rx_queue
  <2> HIDE DEF t
  <2>1. t \in Seq(Received) /\ t # <<>> /\ p = Head(t) /\ rx_queue' = Tail(t) /\ Pairwise(t, R)
    BY <1>1, <1>2 DEF t
  <2> QED BY <2>1, TailFacts DEF t
<1>4. /\ \A d \in Responders : d \in Qps /\ \A x \in A(d) \cup B(d) : x \in Moving
      /\ X \subseteq Moving /\ T \subseteq Moving
  BY OtherQp, ResponderNames, InMoving
<1>5. \A x \in T : <<p, x>> \in R
  BY <1>2, <1>3 DEF Ahead
<1>6. \A d \in Responders : \A x \in A(d) \cup B(d) : <<p, x>> \in R
  BY <1>2, <1>3 DEF Ahead
<1>7. /\ tx_queue' \in Seq(Sent) /\ T1 = T \cup Y
      /\ Ahead(T, Y, R) => Pairwise(tx_queue', R)
  <2> DEFINE t == tx_queue
             w == t \o s
  <2> HIDE DEF t
  <2>1. t \in Seq(Sent) /\ tx_queue' = w /\ Pairwise(t, R)
    BY <1>1, <1>2 DEF t
  <2>2. /\ w \in Seq(Sent) /\ InFlight(w) = InFlight(t) \cup Y
        /\ Ahead(InFlight(t), Y, R) => Pairwise(w, R)
    BY <2>1, ConcatFacts
  <2> HIDE DEF w
  <2> QED BY <2>1, <2>2 DEF t
<1>8. Kinds'
  BY <1>3, <1>7 DEF Kinds, SentTo, SentBy
<1>9. InOrder(R)'
  <2> HIDE DEF X, T, A, B, X1, T1, Y
  <2>1. Ahead(T, Y, R) /\ Ahead(X1, Y, R) /\ \A d \in Responders : Ahead(A(d) \cup B(d), Y, R)
    BY <1>3, <1>4, <1>5, <1>6 DEF Ahead, Y
  <2>2. Ahead(X1, T1, R)
    BY <1>2, <1>3, <1>7, <2>1 DEF Ahead
  <2>3. \A d \in Responders : Ahead(X1, A(d) \cup B(d), R) /\ Ahead(A(d) \cup B(d), T1, R)
    BY <1>2, <1>3, <1>7, <2>1 DEF Ahead
  <2> QED BY <1>2, <1>3, <1>7, <2>1, <2>2, <2>3, InOrderNext DEF X, T, A, B, X1, T1
<1>10. ASSUME NEW x \in Moving'
       PROVE  x \in Moving \cup Y /\ (x \in Y \/ <<p, x>> \in R \/ x \in RequestAcks)
  <2>1. \/ x \in X1 \/ x \in T1 \/ (\E d \in Qps : x \in B(d))
        \/ \E d \in Responders : x \in A(d)
    BY InMoving
  <2>2. CASE x \in X1 \/ x \in T1 \/ \E d \in Responders : x \in A(d)
    <3> HIDE DEF X, T, A, B, X1, T1, Y
    <3> QED BY <1>3, <1>4, <1>5, <1>6, <1>7, <2>2
  <2>3. ASSUME NEW d \in Qps, x \in B(d) 
        PROVE  x \in Moving /\ (<<p, x>> \in R \/ x \in RequestAcks)
    <3>1. x \in Moving
      BY <2>3, InMoving
    <3>2. d \in Responders \/ x \in RequestAcks
      BY <2>3, ReceivedAt
    <3> QED BY <1>6, <2>3, <3>1, <3>2
  <2> QED BY <2>1, <2>2, <2>3
<1> QED BY <1>3, <1>8, <1>9, <1>10

-----------------------------------------------------------------------------
(* What the invariant says of a step that leaves PSNs alone.               *)

LEMMA TrafficKept ==
  ASSUME NEW q, NEW S, Moving' \subseteq Moving \cup S, \A x \in S : QpOf(x) # q
  PROVE  Traffic(q)' \subseteq Traffic(q)
BY DEF Traffic

LEMMA ChannelKept ==
  ASSUME NEW q \in Responders, Channel(q), Traffic(q)' \subseteq Traffic(q),
         epsn'[q] = epsn[q], NextPsn(q)' = NextPsn(q), Down(q) => Down(q)'
  PROVE  Channel(q)'
BY DEF Channel

LEMMA ReadWindowKept ==
  ASSUME NEW e \in Se, NEW t \in Se, ReadWindow(e, t),
         Traffic(<<t, e>>)' \subseteq Traffic(<<t, e>>), epsn'[<<t, e>>] = epsn[<<t, e>>],
         sread_psn'[e][t] = sread_psn[e][t], sread_unack_psn'[e][t] = sread_unack_psn[e][t]
  PROVE  ReadWindow(e, t)'
BY DEF ReadWindow

LEMMA OneRequestKept ==
  ASSUME OneRequest, Moving' \subseteq Moving,
         \A x \in InFlight(rx_queue') : IsRequest(x) => x \in InFlight(rx_queue)
  PROVE  OneRequest'
<1> SUFFICES ASSUME NEW p \in InFlight(rx_queue'), IsRequest(p),
                    NEW x \in Moving', Requester(x) = p.smac
             PROVE  x = p
  BY DEF OneRequest, InFlight
<1> QED BY DEF OneRequest

\* The registers of the PSNs.
psnVars == <<epsn, sread_psn, sread_unack_psn, swrite_psn, se_state>>

LEMMA PacedKept ==
  ASSUME PacedInv, Kinds', InOrder(Behind)', OneRequest', NEW S,
         Moving' \subseteq Moving \cup S, \A x \in S : QpOf(x) \notin Responders,
         UNCHANGED psnVars
  PROVE  PacedInv'
<1>1. \A q \in Responders : Traffic(q)' \subseteq Traffic(q)
  BY TrafficKept
<1>2. ASSUME NEW q \in Responders PROVE Channel(q)'
  <2>1. epsn'[q] = epsn[q] /\ NextPsn(q)' = NextPsn(q) /\ (Down(q) => Down(q)')
    BY DEF psnVars, NextPsn, Down
  <2> QED BY <1>1, <2>1, ChannelKept DEF PacedInv
<1>3. ASSUME NEW e \in Se, NEW t \in Se PROVE ReadWindow(e, t)'
  <2>1. <<t, e>> \in Responders
    BY ResponderNames
  <2>2. /\ epsn'[<<t, e>>] = epsn[<<t, e>>] /\ sread_psn'[e][t] = sread_psn[e][t]
        /\ sread_unack_psn'[e][t] = sread_unack_psn[e][t]
    BY DEF psnVars
  <2> QED BY <1>1, <2>1, <2>2, ReadWindowKept DEF PacedInv
<1> QED BY <1>2, <1>3 DEF PacedInv

-----------------------------------------------------------------------------
(* Steps of the links and of the queue pairs.                              *)

LEMMA InitPaced == Init => PacedInv
<1> SUFFICES ASSUME Init PROVE PacedInv
  OBVIOUS
<1>1. /\ rx_queue = <<>> /\ tx_queue = <<>>
      /\ \A q \in Qps : qp_tx[q] = <<>> /\ qp_rx[q] = <<>> /\ epsn[q] = 0
      /\ \A e \in Se : swrite_psn[e] = 0
      /\ \A e, t \in Se : sread_psn[e][t] = 0 /\ sread_unack_psn[e][t] = 0
  BY DEF Init, QpInit, SwitchInit
<1>2. Moving = {}
  BY <1>1, Nothing, InMoving, ResponderNames
<1>3. Kinds
  <2>1. \A S : <<>> \in Seq(S)
    OBVIOUS
  <2> QED BY <1>1, <2>1 DEF Kinds
<1>4. InOrder(Behind)
  BY <1>1, Nothing, ResponderNames DEF InOrder, LineInOrder, Ahead
<1>5. OneRequest
  BY <1>1, Nothing DEF OneRequest
<1>6. ASSUME NEW q \in Responders PROVE Channel(q)
  <2>1. q \in Qps /\ q[1] \in Se /\ (q[2] \in Se \/ q[2] = SWriteQpn)
    BY ResponderNames
  <2>2. epsn[q] = 0 /\ NextPsn(q) = 0
    BY <1>1, <2>1 DEF NextPsn
  <2>3. Traffic(q) = {}
    BY <1>2 DEF Traffic
  <2> QED BY <2>2, <2>3 DEF Channel
<1>7. ASSUME NEW e \in Se, NEW t \in Se PROVE ReadWindow(e, t)
  <2>1. <<t, e>> \in Qps
    BY ResponderNames
  <2>2. Traffic(<<t, e>>) = {}
    BY <1>2 DEF Traffic
  <2> QED BY <1>1, <2>1, <2>2, ParamAssumption DEF ReadWindow
<1> QED BY <1>3, <1>4, <1>5, <1>6, <1>7 DEF PacedInv

\* What moves, flies.
LEMMA MovingFlies == Moving \subseteq Flying
<1>1. ASSUME NEW x \in Moving PROVE x \in Flying
  <2>1. \/ x \in InFlight(rx_queue) \/ x \in InFlight(tx_queue)
        \/ \E q \in Qps : x \in InFlight(qp_rx[q]) \cup InFlight(qp_tx[q])
    BY InMoving, ResponderNames
  <2> QED BY <2>1 DEF Flying
<1> QED BY <1>1

LEMMA RequestsAreSent ==
  ASSUME NEW e \in Se
  PROVE  RequestsOf(e) \subseteq SentBy(ReqQp(e)) /\ SentBy(ReqQp(e)) \subseteq Received
<1>1. Dqpn(ReqQp(e)) = ToSReq /\ ReqQp(e)[1] = e
  BY DEF Dqpn, ReqQp
<1> QED BY <1>1 DEF RequestsOf, SentBy, Received, Recirculated, WriteOps

LEMMA RequestTxPaced ==
  ASSUME ~Pipelined, TypeOK, PacedInv, NEW e \in Se, RequestTx(e)
  PROVE  PacedInv'
<1> DEFINE q == ReqQp(e)
           p == Head(TxOut(e))
           s == Tail(TxOut(e))
<1>1. /\ Idle(e) /\ TxOut(e) # <<>> /\ qp_tx' = [qp_tx EXCEPT ![q] = s]
      /\ rx_queue' = Append(rx_queue, p) \/ rx_queue' = rx_queue
      /\ tx_queue' = tx_queue /\ qp_rx' = qp_rx
      /\ UNCHANGED psnVars
  BY DEF RequestTx, TxOnce, Arrive, psnVars, responderVars, readVars, writeVars
<1>2. TxOut(e) \in Seq(SentBy(q))
  <2>1. TxScan(e) \in Scan(e)
    BY ScansType DEF TypeOK, QpTypeOK
  <2>2. TxScan(e).out \in Seq(RequestsOf(e))
    BY <2>1 DEF Scan
  <2>3. TxScan(e).out \in Seq(SentBy(q))
    BY <2>2, RequestsAreSent
  <2>4. qp_tx[q] \in Seq(SentBy(q))
    BY QpNames DEF PacedInv, Kinds
  <2> QED BY <2>3, <2>4 DEF TxOut
<1>3. p \in SentBy(q) /\ s \in Seq(SentBy(q))
  BY <1>1, <1>2
<1> HIDE DEF p, s
<1>4. p \in Received /\ IsRequest(p) /\ p.smac = e
  BY <1>3, RequestQpKind
<1>5. \A x \in Moving : Requester(x) # e
  BY <1>1, MovingFlies DEF Idle
<1>6. p \in AnyPacket /\ QpOf(p) \notin Responders /\ Requester(p) = e
  BY <1>4, RequestKind DEF Aside
<1>7. ASSUME NEW x \in Moving PROVE <<p, x>> \in Behind /\ <<x, p>> \in Behind
  <2>1. x \in Received \cup Sent /\ x \in AnyPacket
    BY KindOf DEF PacedInv
  <2>2. ~(IsRequest(x) /\ x.smac = e)
    BY <1>5, <2>1, RequestKind, RecirculatedKind, OrderKind, RequestAckKind DEF Sent
  <2> QED BY <1>4, <1>6, <2>1, <2>2, Unrelated
<1>8. /\ Kinds' /\ InOrder(Behind)' /\ Moving' \subseteq Moving \cup {p}
      /\ InFlight(rx_queue') \subseteq InFlight(rx_queue) \cup {p}
  BY <1>1, <1>3, <1>4, <1>7, RequestLeaves DEF PacedInv
<1>9. OneRequest'
  <2>1. SUFFICES ASSUME NEW a \in InFlight(rx_queue'), IsRequest(a),
                        NEW x \in Moving', Requester(x) = a.smac
                 PROVE  x = a
    BY DEF OneRequest, InFlight
  <2>2. CASE a = p
    BY <1>4, <1>5, <1>8, <2>1, <2>2
  <2>3. CASE a # p
    <3>1. a \in InFlight(rx_queue) /\ a \in Moving /\ a \in Received
      BY <1>8, <2>3, InMoving, InFlightType DEF PacedInv, Kinds
    <3>2. a.smac # e
      BY <1>5, <2>1, <3>1, RequestKind
    <3>3. x \in Moving
      BY <1>6, <1>8, <2>1, <3>2
    <3> QED BY <2>1, <3>1, <3>3 DEF PacedInv, OneRequest
  <2> QED BY <2>2, <2>3
<1>10. \A x \in {p} : QpOf(x) \notin Responders
  BY <1>6
<1> QED BY <1>1, <1>8, <1>9, <1>10, PacedKept

LEMMA ResponderTxPaced ==
  ASSUME TypeOK, PacedInv, NEW q \in Qps, ResponderTx(q)
  PROVE  PacedInv'
<1> DEFINE p == Head(qp_tx[q])
<1>1. /\ q \in Responders /\ qp_tx[q] # <<>> /\ qp_tx' = [qp_tx EXCEPT ![q] = Tail(@)]
      /\ rx_queue' = Append(rx_queue, p) \/ rx_queue' = rx_queue
      /\ tx_queue' = tx_queue /\ qp_rx' = qp_rx /\ UNCHANGED psnVars
  BY DEF ResponderTx, Responders, Arrive, psnVars, responderVars, readVars, writeVars
<1>2. p \in SentBy(q)
  BY <1>1, ResponderNames DEF PacedInv, Kinds
<1>3. p \in AnyPacket /\ QpOf(p) = q /\ ~IsRequest(p)
  BY <1>1, <1>2, SentByKind, AnswerKind
<1>4. ASSUME NEW x \in Moving, QpOf(x) # q PROVE <<p, x>> \in Behind
  BY <1>3, <1>4, KindOf, Unrelated DEF PacedInv
<1> HIDE DEF p
<1>5. /\ Kinds' /\ InOrder(Behind)' /\ Moving' \subseteq Moving
      /\ \A x \in InFlight(rx_queue') : IsRequest(x) => x \in InFlight(rx_queue)
  <2>1. p = Head(qp_tx[q])
    BY DEF p
  <2> QED BY <1>1, <1>4, <2>1, AnswerLeaves DEF PacedInv
<1>6. OneRequest'
  BY <1>5, OneRequestKept DEF PacedInv
<1> DEFINE S == {}
<1>7. Moving' \subseteq Moving \cup S
  BY <1>5
<1>8. \A x \in S : QpOf(x) \notin Responders
  OBVIOUS
<1> HIDE DEF S
<1> QED BY <1>1, <1>5, <1>6, <1>7, <1>8, PacedKept

LEMMA SwitchTxPaced ==
  ASSUME TypeOK, PacedInv, SwitchTx
  PROVE  PacedInv'
<1>1. UNCHANGED psnVars
  BY DEF SwitchTx, psnVars, responderVars, readVars, writeVars
<1>2. ASSUME NEW a \in Recirculated, NEW x \in Moving, QpOf(x) \in Responders
      PROVE  <<a, x>> \in Behind
  <2>1. x \in AnyPacket
    BY KindOf DEF PacedInv
  <2> QED BY <2>1, RecirculatedKind, Unrelated DEF Aside
<1>3. /\ Kinds' /\ InOrder(Behind)' /\ Moving' \subseteq Moving
      /\ \A x \in InFlight(rx_queue') : IsRequest(x) => x \in InFlight(rx_queue)
  BY <1>2, SwitchSends DEF PacedInv
<1>4. OneRequest'
  BY <1>3, OneRequestKept DEF PacedInv
<1> DEFINE S == {}
<1>5. Moving' \subseteq Moving \cup S
  BY <1>3
<1>6. \A x \in S : QpOf(x) \notin Responders
  OBVIOUS
<1> HIDE DEF S
<1> QED BY <1>1, <1>3, <1>4, <1>5, <1>6, PacedKept

LEMMA TrafficTypes ==
  ASSUME TypeOK, PacedInv, NEW q \in Responders
  PROVE  /\ epsn[q] \in Nat /\ NextPsn(q) \in Nat
         /\ \A x \in Traffic(q) :
              /\ x \in Moving /\ x \in AnyPacket /\ QpOf(x) = q /\ x.psn \in Nat
              /\ x \in Orders \/ IsReply(x) \/ IsNak(x)
              /\ x \in Orders <=> IsOrder(x)
              /\ IsOrder(x) => ~IsReply(x) /\ ~IsNak(x)
<1>1. epsn[q] \in Nat
  BY ResponderNames DEF TypeOK, QpTypeOK
<1>2. NextPsn(q) \in Nat
  <2>1. swrite_psn \in [Se -> Nat] /\ sread_psn \in [Se -> [Se -> Nat]]
    BY DEF TypeOK, SwitchTypeOK
  <2> QED BY <2>1, ResponderNames DEF NextPsn
<1>3. ASSUME NEW x \in Traffic(q)
      PROVE  /\ x \in Moving /\ x \in AnyPacket /\ QpOf(x) = q /\ x.psn \in Nat
             /\ x \in Orders \/ IsReply(x) \/ IsNak(x)
             /\ x \in Orders <=> IsOrder(x)
             /\ IsOrder(x) => ~IsReply(x) /\ ~IsNak(x)
  <2>1. x \in Moving /\ QpOf(x) = q
    BY DEF Traffic
  <2>2. x \in AnyPacket
    BY <2>1, KindOf DEF PacedInv
  <2>3. x.psn \in Nat
    BY <2>2 DEF AnyPacket, ToSwitch, FromSwitch, Packets
  <2> QED BY <2>1, <2>2, <2>3, TrafficPlace, AnswerKind, OrderKind DEF PacedInv
<1> QED BY <1>1, <1>2, <1>3

\* A reply or a NAK stands where the READ or WRITE stood.
LEMMA ReplyPlace ==
  ASSUME NEW p \in Orders, NEW r \in AnyPacket, NEW x \in AnyPacket, ~IsRequest(r),
         QpOf(r) = QpOf(p), IsNak(r) \/ r.psn = p.psn, r.psn <= p.psn
  PROVE  /\ <<x, p>> \in Behind => <<x, r>> \in Behind
         /\ <<p, x>> \in Behind => <<r, x>> \in Behind
<1>1. ~IsNak(p) /\ ~IsRequest(p) /\ p \in AnyPacket
  BY OrderKind
<1>2. p.psn \in Nat /\ r.psn \in Nat /\ x.psn \in Nat
  BY <1>1 DEF AnyPacket, ToSwitch, FromSwitch, Packets
<1> QED BY <1>1, <1>2 DEF Behind

LEMMA TakenChannel ==
  ASSUME TypeOK, PacedInv, NEW q \in Responders, NEW p \in Traffic(q), p \in Orders,
         p.psn = epsn[q], epsn' = [epsn EXCEPT ![q] = @ + 1], NextPsn(q)' = NextPsn(q),
         NEW S, Moving' \subseteq Moving \cup S,
         \A x \in S : /\ QpOf(x) = q /\ IsReply(x) /\ ~IsOrder(x) /\ ~IsNak(x)
                      /\ x.psn = p.psn,
         \A x \in Moving' : QpOf(x) = q /\ x \in Orders => <<p, x>> \in Behind
  PROVE  Channel(q)'
<1> USE TrafficTypes
<1>1. epsn'[q] = epsn[q] + 1
  BY ResponderNames DEF TypeOK, QpTypeOK
<1>2. IsOrder(p) /\ p.psn < NextPsn(q) /\ \A x \in Traffic(q) : ~IsNak(x)
  BY DEF PacedInv, Channel
<1>3. epsn'[q] <= NextPsn(q)'
  BY <1>1, <1>2
<1>4. \A x \in Traffic(q)' : x \in S \/ x \in Traffic(q)
  BY DEF Traffic
<1>5. ASSUME NEW x \in Traffic(q)', IsOrder(x) PROVE x.psn > epsn[q] /\ x.psn < NextPsn(q)
  <2>1. x \in Traffic(q) /\ x \in Orders /\ x \in Moving' /\ QpOf(x) = q
    BY <1>4, <1>5 DEF Traffic
  <2>2. <<p, x>> \in Behind
    BY <2>1
  <2>3. x.psn > epsn[q]
    BY <1>5, <2>1, <2>2, Earlier
  <2>4. x.psn < NextPsn(q)
    BY <1>2, <1>5, <2>1 DEF PacedInv, Channel
  <2> QED BY <2>3, <2>4
<1>6. ASSUME NEW x \in Traffic(q)', IsReply(x) PROVE x.psn < epsn[q] + 1
  BY <1>4, <1>6 DEF PacedInv, Channel
<1>7. \A x \in Traffic(q)' : ~IsNak(x)
  BY <1>2, <1>4
<1>8. \A x \in Traffic(q)' : IsOrder(x) => x.psn >= epsn'[q] /\ x.psn < NextPsn(q)'
  <2>1. ASSUME NEW x \in Traffic(q)', IsOrder(x) PROVE x.psn >= epsn'[q] /\ x.psn < NextPsn(q)'
    <3>1. x.psn \in Nat
      BY <1>4, <2>1
    <3> QED BY <1>1, <1>5, <2>1, <3>1
  <2> QED BY <2>1
<1>9. \A x \in Traffic(q)' : IsReply(x) => x.psn < epsn'[q]
  BY <1>1, <1>6
<1> QED BY <1>3, <1>7, <1>8, <1>9 DEF Channel

LEMMA RefusedChannel ==
  ASSUME TypeOK, PacedInv, NEW q \in Responders, NEW p \in Traffic(q), p \in Orders,
         p.psn > epsn[q], UNCHANGED <<epsn, se_state>>, NextPsn(q)' = NextPsn(q),
         NEW r, QpOf(r) = q, IsNak(r), ~IsOrder(r), ~IsReply(r), r.psn = epsn[q],
         Moving' \subseteq Moving \cup {r},
         \A x \in Moving' : QpOf(x) = q /\ x \in Orders => <<p, x>> \in Behind
  PROVE  Channel(q)'
<1> USE TrafficTypes
<1>1. \A x \in Traffic(q)' : x = r \/ x \in Traffic(q)
  BY DEF Traffic
<1>2. ASSUME NEW x \in Traffic(q)', IsOrder(x) PROVE x.psn # epsn[q]
  <2>1. x \in Traffic(q) /\ x \in Orders /\ x \in Moving' /\ QpOf(x) = q
    BY <1>1, <1>2 DEF Traffic
  <2>2. <<p, x>> \in Behind
    BY <2>1
  <2>3. x.psn > p.psn
    BY <1>2, <2>1, <2>2, Earlier
  <2> QED BY <2>1, <2>3
<1>3. Down(q) \/ epsn[q] < NextPsn(q)
  BY DEF PacedInv, Channel
<1>4. epsn[q]' = epsn[q] /\ Down(q)' = Down(q)
  BY DEF Down
<1>5. Channel(q)
  BY DEF PacedInv
<1> QED BY <1>1, <1>2, <1>3, <1>4, <1>5 DEF Channel

\* What a read or write QP sends.
LEMMA NakKind ==
  ASSUME NEW q \in Responders, NEW n \in Nat, NEW m \in Nat
  PROVE  /\ [GenPacket(q, "NAK", n) EXCEPT !.msn = m] \in SentBy(q)
         /\ IsNak([GenPacket(q, "NAK", n) EXCEPT !.msn = m])
         /\ [GenPacket(q, "NAK", n) EXCEPT !.msn = m].psn = n
<1> DEFINE r == [GenPacket(q, "NAK", n) EXCEPT !.msn = m]
<1>1. /\ r.opcode = "NAK" /\ r.smac = q[1] /\ r.dqpn = Dqpn(q) /\ r.psn = n
  BY DEF GenPacket, NewPacket
<1>2. r \in ToSwitch
  BY ResponderNames, AnswerType DEF Opcodes
<1> HIDE DEF r
<1>3. q[2] \in Se \/ q[2] = SWriteQpn
  BY ResponderNames
<1>4. r \in Received /\ r \notin Recirculated
  BY <1>1, <1>2, <1>3, Numbers DEF Received, Recirculated, Dqpn
<1> QED BY <1>1, <1>4 DEF SentBy, IsNak, r

LEMMA AckKind ==
  ASSUME NEW q \in Responders, q[2] = SWriteQpn, NEW n \in Nat, NEW m \in Nat
  PROVE  /\ [GenPacket(q, "ACK", n) EXCEPT !.msn = m] \in SentBy(q)
         /\ [GenPacket(q, "ACK", n) EXCEPT !.msn = m].opcode = "ACK"
         /\ [GenPacket(q, "ACK", n) EXCEPT !.msn = m].psn = n
<1> DEFINE r == [GenPacket(q, "ACK", n) EXCEPT !.msn = m]
<1>1. /\ r.opcode = "ACK" /\ r.smac = q[1] /\ r.dqpn = Dqpn(q) /\ r.psn = n
  BY DEF GenPacket, NewPacket
<1>2. r \in ToSwitch
  BY ResponderNames, AnswerType DEF Opcodes
<1> HIDE DEF r
<1>3. r \in Received /\ r \notin Recirculated
  BY <1>1, <1>2, Numbers DEF Received, Recirculated, Dqpn
<1> QED BY <1>1, <1>3 DEF SentBy, r

LEMMA ReadResponseKind ==
  ASSUME TypeOK, NEW q \in Responders, q[2] \in Se, NEW p \in FromSwitch, NEW n \in Nat
  PROVE  /\ ReadResponse(q, p, n) \in SentBy(q)
         /\ ReadResponse(q, p, n).opcode = "READ_RESPONSE"
         /\ ReadResponse(q, p, n).psn = n /\ ReadResponse(q, p, n).data = Slice(q[1], p.addr)
<1> DEFINE r == ReadResponse(q, p, n)
           d == Slice(q[1], p.addr)
<1>1. /\ r.opcode = "READ_RESPONSE" /\ r.smac = q[1] /\ r.dqpn = Dqpn(q) /\ r.psn = n
      /\ r.data = d
  BY DEF ReadResponse, GenPacket, NewPacket
<1>2. d \in Seq(Int) /\ Len(d) <= ReqMtu
  <2>1. buf \in [Se -> [Addr -> Int]] /\ q[1] \in Se
    BY ResponderNames DEF TypeOK, QpTypeOK
  <2>2. p.addr \in Addr => buf[q[1]][p.addr] \in Int
    BY <2>1
  <2> QED BY <2>2, ParamAssumption DEF Slice
<1>3. r \in ToSwitch
  <2>1. r = [GenPacket(q, "READ_RESPONSE", n) EXCEPT !.data = d]
    BY DEF ReadResponse
  <2>2. "READ_RESPONSE" \in Opcodes \ {"LOOPBACK"} /\ q \in Qps
    BY ResponderNames DEF Opcodes
  <2> HIDE DEF d, r
  <2> QED BY <1>2, <2>1, <2>2, DataType
<1> HIDE DEF r
<1>4. r \in Received /\ r \notin Recirculated
  BY <1>1, <1>3, Numbers DEF Received, Recirculated, Dqpn
<1> QED BY <1>1, <1>4 DEF SentBy, r

\* A read or write QP never sees a PSN it has taken before.
LEMMA NoDuplicate ==
  ASSUME TypeOK, PacedInv, NEW q \in Responders, qp_rx[q] # <<>>, NEW p, p = Head(qp_rx[q])
  PROVE  /\ p \in SentTo(q) /\ p \in Orders /\ p \in Traffic(q) /\ p \in FromSwitch
         /\ p.psn \in Nat /\ epsn[q] \in Nat /\ msn[q] \in Nat /\ p.psn >= epsn[q]
<1>1. q \in Qps /\ qp_rx[q] \in Seq(SentTo(q))
  BY ResponderNames DEF PacedInv, Kinds
<1>2. p \in SentTo(q) /\ p \in InFlight(qp_rx[q])
  BY <1>1 DEF InFlight
<1>3. p \in Orders /\ p \in Traffic(q)
  BY <1>1, <1>2, SentToKind, InMoving DEF Traffic
<1>4. p.psn >= epsn[q]
  BY <1>3, OrderKind DEF PacedInv, Channel
<1>5. msn[q] \in Nat
  BY <1>1 DEF TypeOK, QpTypeOK
<1> QED BY <1>2, <1>3, <1>4, <1>5, TrafficTypes, OrderKind

\* The answers and READs in flight lie in the window after an answer joined them.
LEMMA ResponderWindow ==
  ASSUME TypeOK, PacedInv, NEW q \in Responders, NEW p \in Traffic(q),
         NEW S, Moving' \subseteq Moving \cup S,
         \A x \in S : QpOf(x) = q /\ (x.psn = p.psn \/ x.psn = epsn[q]),
         UNCHANGED <<sread_psn, sread_unack_psn>>,
         \A d \in Responders : epsn'[d] = epsn[d] \/ epsn'[d] = epsn[d] + 1,
         NEW e \in Se, NEW t \in Se
  PROVE  ReadWindow(e, t)'
<1> DEFINE d == <<t, e>>
<1>1. d \in Responders /\ ReadWindow(e, t)
  BY ResponderNames DEF PacedInv
<1>2. epsn[d] \in Nat /\ sread_unack_psn[e][t] \in Nat
  <2>1. sread_unack_psn \in [Se -> [Se -> Nat]]
    BY DEF TypeOK, SwitchTypeOK
  <2> QED BY <1>1, <2>1, TrafficTypes
<1>3. sread_unack_psn'[e][t] <= epsn'[d]
  BY <1>1, <1>2 DEF ReadWindow
<1>4. ASSUME NEW x \in Traffic(d)' PROVE x.psn >= sread_unack_psn[e][t]
  <2>1. CASE x \in Moving
    BY <1>1, <1>4, <2>1 DEF ReadWindow, Traffic
  <2>2. CASE x \in S
    <3>1. q = d
      BY <1>4, <2>2 DEF Traffic
    <3> QED BY <1>1, <2>2, <3>1 DEF ReadWindow
  <2> QED BY <1>4, <2>1, <2>2 DEF Traffic
<1> QED BY <1>1, <1>3, <1>4 DEF ReadWindow

LEMMA QpRxPaced ==
  ASSUME TypeOK, PacedInv, NEW q \in Qps, QpRx(q)
  PROVE  PacedInv'
<1> DEFINE p == Head(qp_rx[q])
<1>1. /\ qp_rx[q] # <<>> /\ qp_rx' = [qp_rx EXCEPT ![q] = Tail(@)]
      /\ RequesterRx(q, p) \/ ResponderRx(q, p)
      /\ rx_queue' = rx_queue /\ tx_queue' = tx_queue
      /\ UNCHANGED <<sread_psn, sread_unack_psn, swrite_psn, se_state>>
  BY DEF QpRx, QpRxOnce, switchVars, readVars, writeVars
<1> HIDE DEF p
<1>2. CASE q \notin Responders
  <2>1. PICK e \in Se : q = ReqQp(e)
    BY <1>2, QpCases
  <2>2. p \in RequestAcks
    <3>1. qp_rx[q] \in Seq(SentTo(q))
      BY DEF PacedInv, Kinds
    <3>2. p \in SentTo(q)
      BY <1>1, <3>1 DEF p
    <3> QED BY <2>1, <3>2, RequestQpKind
  <2>3. RequesterRx(q, p)
    BY <1>1, <2>2 DEF ResponderRx, RequestAcks
  <2>4. qp_tx' = qp_tx /\ epsn' = epsn
    BY <2>3 DEF RequesterRx, responderVars
  <2>5. Kinds' /\ InOrder(Behind)' /\ Moving' \subseteq Moving
    BY <1>1, <2>1, <2>4, AckTaken DEF PacedInv
  <2>6. OneRequest'
    BY <1>1, <2>5, OneRequestKept DEF PacedInv
  <2> DEFINE S == {}
  <2>7. Moving' \subseteq Moving \cup S /\ \A x \in S : QpOf(x) \notin Responders
    BY <2>5
  <2>8. UNCHANGED psnVars
    BY <1>1, <2>4 DEF psnVars
  <2> HIDE DEF S
  <2> QED BY <2>5, <2>6, <2>7, <2>8, PacedKept
<1>3. CASE q \in Responders
  <2>1. p = Head(qp_rx[q]) /\ ResponderRx(q, p)
    BY <1>1, <1>3 DEF p, RequesterRx, Responders
  <2>2. /\ p \in SentTo(q) /\ p \in Orders /\ p \in Traffic(q) /\ p \in FromSwitch
        /\ p.psn \in Nat /\ epsn[q] \in Nat /\ msn[q] \in Nat /\ p.psn >= epsn[q]
    BY <1>1, <1>3, <2>1, NoDuplicate
  <2>3. ASSUME NEW S,
               \/ qp_tx' = qp_tx /\ S = {}
               \/ \E r \in SentBy(q) :
                    /\ qp_tx' = [qp_tx EXCEPT ![q] = Append(@, r)] /\ S = {r}
                    /\ r.psn = p.psn \/ (IsNak(r) /\ r.psn = epsn[q])
        PROVE  /\ Kinds' /\ InOrder(Behind)' /\ OneRequest' /\ Moving' \subseteq Moving \cup S
               /\ \A x \in Moving' : QpOf(x) = q /\ x \in Orders => <<p, x>> \in Behind
    <3>1. \A r \in S : /\ r \in SentBy(q) /\ r \in AnyPacket /\ ~IsRequest(r) /\ QpOf(r) = q
                       /\ r.psn = p.psn \/ (IsNak(r) /\ r.psn = epsn[q])
      BY <1>3, <2>3, SentByKind, AnswerKind
    <3>2. \A r \in S : \A x \in Moving : /\ <<x, p>> \in Behind => <<x, r>> \in Behind
                                         /\ <<p, x>> \in Behind => <<r, x>> \in Behind
      <4> SUFFICES ASSUME NEW r \in S, NEW x \in Moving
                   PROVE  /\ <<x, p>> \in Behind => <<x, r>> \in Behind
                          /\ <<p, x>> \in Behind => <<r, x>> \in Behind
        OBVIOUS
      <4>1. x \in AnyPacket /\ QpOf(p) = q
        BY <2>2, KindOf DEF PacedInv, Traffic
      <4> QED BY <2>2, <3>1, <4>1, ReplyPlace
    <3>3. \/ qp_tx' = qp_tx /\ S = {}
          \/ \E r \in SentBy(q) :
               /\ qp_tx' = [qp_tx EXCEPT ![q] = Append(@, r)] /\ S = {r}
               /\ \A x \in Moving : /\ <<x, p>> \in Behind => <<x, r>> \in Behind
                                    /\ <<p, x>> \in Behind => <<r, x>> \in Behind
      BY <2>3, <3>2
    <3>4. /\ Kinds' /\ InOrder(Behind)' /\ Moving' \subseteq Moving \cup S
          /\ \A x \in Moving' : QpOf(x) = q /\ x \in Orders => <<p, x>> \in Behind
      <4>1. Kinds /\ InOrder(Behind)
        BY DEF PacedInv
      <4>2. /\ qp_rx[q] # <<>> /\ qp_rx' = [qp_rx EXCEPT ![q] = Tail(@)]
            /\ rx_queue' = rx_queue /\ tx_queue' = tx_queue /\ p = Head(qp_rx[q])
        BY <1>1, <2>1
      <4>3. Answered(q, p, S, Behind)
        BY <3>3 DEF Answered
      <4> QED BY <1>3, <4>1, <4>2, <4>3, OrderTaken
    <3>5. OneRequest'
      <4>1. SUFFICES ASSUME NEW a \in InFlight(rx_queue), IsRequest(a),
                            NEW x \in Moving', Requester(x) = a.smac
                     PROVE  x = a
        BY <1>1 DEF OneRequest, InFlight
      <4>2. CASE x \in Moving
        BY <4>1, <4>2 DEF PacedInv, OneRequest
      <4>3. CASE x \in S
        <5>1. Requester(x) = RequesterOf(q)
          BY <1>3, <3>1, <4>3, SentByKind, AnswerKind
        <5>2. Requester(p) = RequesterOf(q) /\ p \in Moving
          BY <2>2, OrderKind DEF Traffic
        <5>3. p = a
          BY <4>1, <5>1, <5>2 DEF PacedInv, OneRequest
        <5> QED BY <2>2, <4>1, <5>3, OrderKind
      <4> QED BY <3>4, <4>1, <4>2, <4>3
    <3> QED BY <3>4, <3>5
  <2>4. /\ \A d \in Responders : d # q => epsn'[d] = epsn[d]
        /\ epsn' = epsn \/ (epsn' = [epsn EXCEPT ![q] = @ + 1] /\ p.psn = epsn[q])
        /\ epsn \in [Qps -> Nat]
        /\ epsn'[q] = epsn[q] \/ epsn'[q] = epsn[q] + 1
    <3>1. epsn' = epsn \/ (epsn' = [epsn EXCEPT ![q] = @ + 1] /\ p.psn = epsn[q])
      BY <2>1 DEF ResponderRx, RxDuplicate, RxOutOfOrder, RxInOrder, responderVars
    <3>2. epsn \in [Qps -> Nat]
      BY DEF TypeOK, QpTypeOK
    <3> QED BY <3>1, <3>2, ResponderNames
  <2>5. \A d \in Responders : NextPsn(d)' = NextPsn(d) /\ Down(d)' = Down(d)
    BY <1>1 DEF NextPsn, Down
  <2>6. ASSUME NEW S, Kinds', InOrder(Behind)', OneRequest', Moving' \subseteq Moving \cup S,
               \A x \in S : QpOf(x) = q /\ (x.psn = p.psn \/ x.psn = epsn[q]),
               Channel(q)'
        PROVE  PacedInv'
    <3>1. ASSUME NEW d \in Responders PROVE Channel(d)'
      <4>1. CASE d = q
        BY <2>6, <4>1
      <4>2. CASE d # q
        <5>1. Traffic(d)' \subseteq Traffic(d)
          BY <2>6, <4>2, TrafficKept
        <5> QED BY <2>4, <2>5, <4>2, <5>1, ChannelKept DEF PacedInv
      <4> QED BY <4>1, <4>2
    <3>2. \A e, t \in Se : ReadWindow(e, t)'
      BY <1>1, <1>3, <2>2, <2>4, <2>6, ResponderWindow
    <3> QED BY <2>6, <3>1, <3>2 DEF PacedInv
  <2>7. CASE p.psn > epsn[q]
    <3> DEFINE r == [GenPacket(q, "NAK", epsn[q]) EXCEPT !.msn = msn[q]]
    <3>1. qp_tx' = [qp_tx EXCEPT ![q] = Append(@, r)] /\ epsn' = epsn
      BY <2>1, <2>2, <2>7 DEF ResponderRx, RxDuplicate, RxOutOfOrder, RxInOrder, Reply, responderVars
    <3>2. r \in SentBy(q) /\ IsNak(r) /\ r.psn = epsn[q]
      BY <1>3, <2>2, NakKind
    <3> HIDE DEF r
    <3>3. QpOf(r) = q /\ ~IsOrder(r) /\ ~IsReply(r)
      BY <1>3, <3>2, SentByKind, AnswerKind
    <3>4. /\ Kinds' /\ InOrder(Behind)' /\ OneRequest' /\ Moving' \subseteq Moving \cup {r}
          /\ \A x \in Moving' : QpOf(x) = q /\ x \in Orders => <<p, x>> \in Behind
      BY <2>3, <3>1, <3>2
    <3>5. Channel(q)'
      BY <1>1, <1>3, <2>2, <2>5, <2>7, <3>1, <3>2, <3>3, <3>4, RefusedChannel
    <3>6. \A x \in {r} : QpOf(x) = q /\ (x.psn = p.psn \/ x.psn = epsn[q])
      BY <3>2, <3>3
    <3> DEFINE S == {r}
    <3>7. Moving' \subseteq Moving \cup S
          /\ \A x \in S : QpOf(x) = q /\ (x.psn = p.psn \/ x.psn = epsn[q])
      BY <3>4, <3>6
    <3> HIDE DEF S
    <3> QED BY <2>6, <3>4, <3>5, <3>7
  <2>8. CASE p.psn = epsn[q]
    <3>1. RxInOrder(q, p)
      BY <2>1, <2>2, <2>8 DEF ResponderRx, RxDuplicate, RxOutOfOrder
    <3>2. PICK S : /\ \/ qp_tx' = qp_tx /\ S = {}
                      \/ \E r \in SentBy(q) :
                           /\ qp_tx' = [qp_tx EXCEPT ![q] = Append(@, r)] /\ S = {r}
                           /\ r.psn = p.psn
                   /\ \A x \in S : QpOf(x) = q /\ x.opcode \in {"READ_RESPONSE", "ACK"}
                                   /\ x \in SentBy(q) /\ x.psn = p.psn
      <4>1. CASE p.opcode = "READ"
        <5> DEFINE r == ReadResponse(q, p, p.psn)
        <5>1. q[2] \in Se
          BY <2>2, <4>1, Numbers DEF Orders, SentTo
        <5>2. r \in SentBy(q) /\ r.opcode = "READ_RESPONSE" /\ r.psn = p.psn
          BY <1>3, <2>2, <5>1, ReadResponseKind
        <5>3. qp_tx' = [qp_tx EXCEPT ![q] = Append(@, r)]
          BY <3>1, <4>1 DEF RxInOrder, Reply
        <5> HIDE DEF r
        <5>4. QpOf(r) = q
          BY <1>3, <5>2, SentByKind
        <5>7. CASE qp_tx' = [qp_tx EXCEPT ![q] = Append(@, r)]
          <6> DEFINE S == {r}
          <6>1. /\ \E x \in SentBy(q) :
                     /\ qp_tx' = [qp_tx EXCEPT ![q] = Append(@, x)] /\ S = {x}
                     /\ x.psn = p.psn
                /\ \A x \in S : QpOf(x) = q /\ x.opcode \in {"READ_RESPONSE", "ACK"}
                                /\ x \in SentBy(q) /\ x.psn = p.psn
            BY <5>7, <5>2, <5>3, <5>4
          <6> HIDE DEF S
          <6> QED BY <6>1
        <5> QED BY <5>3, <5>7
      <4>2. CASE p.opcode = "WRITE_ONLY"
        <5> DEFINE m == msn[q] + 1
                   r == [GenPacket(q, "ACK", p.psn) EXCEPT !.msn = m]
        <5>1. q[2] = SWriteQpn
          BY <2>2, <4>2 DEF Orders, SentTo
        <5>2. m \in Nat
          BY <2>2
        <5>3. ReplyIfAsked(q, p, p.psn, m)
          BY <3>1, <4>2 DEF RxInOrder
        <5>4. qp_tx' = [qp_tx EXCEPT ![q] = Append(@, r)] \/ qp_tx' = qp_tx
          BY <5>3 DEF ReplyIfAsked, Reply
        <5> HIDE DEF m
        <5>5. r \in SentBy(q) /\ r.opcode = "ACK" /\ r.psn = p.psn
          BY <1>3, <2>2, <5>1, <5>2, AckKind
        <5> HIDE DEF r
        <5>6. QpOf(r) = q
          BY <1>3, <5>5, SentByKind
        <5>7. CASE qp_tx' = [qp_tx EXCEPT ![q] = Append(@, r)]
          <6> DEFINE S == {r}
          <6>1. /\ \E x \in SentBy(q) :
                     /\ qp_tx' = [qp_tx EXCEPT ![q] = Append(@, x)] /\ S = {x}
                     /\ x.psn = p.psn
                /\ \A x \in S : QpOf(x) = q /\ x.opcode \in {"READ_RESPONSE", "ACK"}
                                /\ x \in SentBy(q) /\ x.psn = p.psn
            BY <5>7, <5>4, <5>5, <5>6
          <6> HIDE DEF S
          <6> QED BY <6>1
        <5>8. CASE qp_tx' = qp_tx
          <6> DEFINE S == {}
          <6>1. S = {} /\ \A x \in S : QpOf(x) = q /\ x.opcode \in {"READ_RESPONSE", "ACK"}
                                        /\ x \in SentBy(q) /\ x.psn = p.psn
            OBVIOUS
          <6> HIDE DEF S
          <6> QED BY <5>8, <6>1
        <5> QED BY <5>4, <5>7, <5>8
      <4> QED BY <2>1, <4>1, <4>2 DEF ResponderRx
    <3>3. epsn' = [epsn EXCEPT ![q] = @ + 1]
      BY <3>1 DEF RxInOrder
    <3>4. /\ Kinds' /\ InOrder(Behind)' /\ OneRequest' /\ Moving' \subseteq Moving \cup S
          /\ \A x \in Moving' : QpOf(x) = q /\ x \in Orders => <<p, x>> \in Behind
      BY <2>3, <3>2
    <3>5. \A x \in S : IsReply(x) /\ ~IsOrder(x) /\ ~IsNak(x)
      <4>1. ASSUME NEW x \in S PROVE x.smac \in Se
        BY <1>3, <3>2, SentByKind, AnswerKind
      <4> QED BY <3>2, <4>1, Numbers DEF IsReply, IsOrder, IsNak
    <3>6. Channel(q)'
      BY <1>3, <2>2, <2>5, <2>8, <3>2, <3>3, <3>4, <3>5, TakenChannel
    <3> QED BY <2>6, <3>2, <3>4, <3>6
  <2> QED BY <2>2, <2>7, <2>8
<1> QED BY <1>2, <1>3

-----------------------------------------------------------------------------
(* Steps of the switch.                                                    *)

\* What the switch sends for a packet of one requester, unless it is a READ
\* or a WRITE.
AsideOf(e) == {y \in Recirculated \cup RequestAcks : Requester(y) = e}

LEMMA AsideKind ==
  ASSUME NEW e, NEW y \in AsideOf(e)
  PROVE  /\ y \in Sent /\ y \in AnyPacket /\ ~IsRequest(y) /\ QpOf(y) \notin Responders
         /\ Requester(y) = e
BY RecirculatedKind, RequestAckKind DEF AsideOf, Sent, Aside

LEMMA LoopbacksAside ==
  ASSUME NEW p \in ToSwitch, p.dqpn = ToSReq
  PROVE  LoopbacksOf(p) \subseteq AsideOf(p.smac)
<1>1. ASSUME NEW y \in LoopbacksOf(p) PROVE y \in AsideOf(p.smac)
  <2>1. y \in Recirculated /\ y.smac = p.smac
    BY DEF LoopbacksOf, Recirculated
  <2> QED BY <2>1, RecirculatedKind DEF AsideOf
<1> QED BY <1>1

LEMMA AckAside ==
  ASSUME NEW e \in Se, NEW n \in Nat, NEW m \in Nat
  PROVE  [ToRequester(e, "ACK", n) EXCEPT !.msn = m] \in AsideOf(e)
<1> DEFINE y == [ToRequester(e, "ACK", n) EXCEPT !.msn = m]
<1>1. y.opcode = "ACK" /\ y.smac = SwitchMac /\ y.dmac = e /\ y.dqpn = SReqQpn
  BY DEF ToRequester, NewPacket
<1>2. y \in AnyPacket
  BY AckType
<1> HIDE DEF y
<1>3. y \in RequestAcks
  BY <1>1, <1>2, Numbers DEF AnyPacket, ToSwitch, RequestAcks
<1> QED BY <1>1, <1>3, RequestAckKind DEF AsideOf, y

LEMMA ReadIsOrder ==
  ASSUME NEW e \in Se, NEW t \in Se, NEW n \in Nat, NEW a \in Int
  PROVE  /\ ReadOf(e, t, n, a) \in Orders /\ QpOf(ReadOf(e, t, n, a)) = <<t, e>>
         /\ ReadOf(e, t, n, a).psn = n
<1> DEFINE r == ReadOf(e, t, n, a)
<1>1. r.opcode = "READ" /\ r.smac = SwitchMac /\ r.dmac = t /\ r.dqpn = e /\ r.psn = n
  BY DEF ReadOf, NewPacket
<1>2. r \in AnyPacket
  BY ReadType DEF ReadOf, NotAck
<1> HIDE DEF r
<1>3. r \in Orders
  BY <1>1, <1>2, Numbers DEF AnyPacket, ToSwitch, Orders
<1> QED BY <1>1, <1>3, OrderKind DEF r

\* The packet the switch takes, and the queues after that.
Taken(p, s) ==
  /\ rx_queue # <<>> /\ p = Head(rx_queue) /\ rx_queue' = Tail(rx_queue)
  /\ UNCHANGED <<qp_tx, qp_rx, epsn>>
  /\ Send(s)

LEMMA TakenKind ==
  ASSUME PacedInv, rx_queue # <<>>, NEW p, p = Head(rx_queue)
  PROVE  p \in Received /\ p \in Moving /\ p \in InFlight(rx_queue) /\ p \in ToSwitch
<1>1. rx_queue \in Seq(Received)
  BY DEF PacedInv, Kinds
<1>2. p \in Received /\ p \in InFlight(rx_queue)
  BY <1>1 DEF InFlight
<1> QED BY <1>2, InMoving DEF Received

LEMMA TakenQueues ==
  ASSUME TypeOK, PacedInv, NEW p, NEW s \in Seq(Sent), Taken(p, s), Pairwise(s, Behind),
         \A y \in InFlight(s) : Requester(y) = Requester(p),
         \A x \in Moving : <<p, x>> \in Behind => \A y \in InFlight(s) : <<x, y>> \in Behind
  PROVE  /\ Kinds' /\ InOrder(Behind)' /\ OneRequest'
         /\ Moving' \subseteq Moving \cup InFlight(s)
         /\ \A x \in Moving' : x \in InFlight(s) \/ <<p, x>> \in Behind \/ x \in RequestAcks
<1>1. p \in Received /\ p \in Moving /\ p \in InFlight(rx_queue)
  BY TakenKind DEF Taken
<1>2. /\ Kinds' /\ InOrder(Behind)' /\ Moving' \subseteq Moving \cup InFlight(s)
      /\ \A x \in Moving' : x \in InFlight(s) \/ <<p, x>> \in Behind \/ x \in RequestAcks
      /\ InFlight(rx_queue') \subseteq InFlight(rx_queue)
      /\ \A x \in InFlight(rx_queue') : <<p, x>> \in Behind
  <2>1. Kinds /\ InOrder(Behind)
    BY DEF PacedInv
  <2>2. /\ rx_queue # <<>> /\ p = Head(rx_queue) /\ rx_queue' = Tail(rx_queue)
        /\ qp_tx' = qp_tx /\ qp_rx' = qp_rx /\ Send(s)
    BY DEF Taken
  <2> QED BY <2>1, <2>2, PacketProcessed
<1>3. OneRequest'
  <2>1. SUFFICES ASSUME NEW a \in InFlight(rx_queue'), IsRequest(a),
                        NEW x \in Moving', Requester(x) = a.smac
                 PROVE  x = a
    BY DEF OneRequest, InFlight
  <2>2. a \in InFlight(rx_queue) /\ <<p, a>> \in Behind
    BY <1>2
  <2>3. CASE x \in Moving
    BY <2>1, <2>2, <2>3 DEF PacedInv, OneRequest
  <2>4. CASE x \in InFlight(s)
    <3>1. Requester(p) = a.smac
      BY <2>1, <2>4
    <3>2. p = a
      BY <1>1, <2>1, <2>2, <3>1 DEF PacedInv, OneRequest
    <3> QED BY <2>1, <2>2, <3>2 DEF Behind
  <2> QED BY <1>2, <2>3, <2>4
<1> QED BY <1>2, <1>3

LEMMA AsideQueues ==
  ASSUME TypeOK, PacedInv, NEW p, NEW s \in Seq(AsideOf(Requester(p))), Taken(p, s)
  PROVE  /\ Kinds' /\ InOrder(Behind)' /\ OneRequest'
         /\ \A x \in Moving' : /\ QpOf(x) \in Responders => x \in Moving
                               /\ QpOf(x) \notin Responders \/ <<p, x>> \in Behind
<1>1. \A y \in InFlight(s) : y \in AsideOf(Requester(p))
  BY InFlightType
<1>2. s \in Seq(Sent) /\ \A y \in InFlight(s) : Requester(y) = Requester(p)
  BY <1>1, AsideKind
<1>3. ASSUME NEW x \in AnyPacket, NEW y \in InFlight(s) PROVE <<x, y>> \in Behind
  <2>1. y \in AnyPacket /\ ~IsRequest(y) /\ QpOf(y) \notin Responders
    BY <1>1, AsideKind
  <2> QED BY <2>1, Unrelated
<1>4. Pairwise(s, Behind)
  BY <1>1, <1>3, AsideKind DEF Pairwise, InFlight
<1>5. \A x \in Moving : x \in AnyPacket
  BY KindOf DEF PacedInv
<1>6. /\ Kinds' /\ InOrder(Behind)' /\ OneRequest'
      /\ Moving' \subseteq Moving \cup InFlight(s)
      /\ \A x \in Moving' : x \in InFlight(s) \/ <<p, x>> \in Behind \/ x \in RequestAcks
  BY <1>2, <1>3, <1>4, <1>5, TakenQueues
<1> QED BY <1>1, <1>6, AsideKind, RequestAckKind DEF Aside

LEMMA OrderQueues ==
  ASSUME TypeOK, PacedInv, NEW p, NEW q \in Responders, RequesterOf(q) = Requester(p),
         NEW r \in Orders, QpOf(r) = q, \A x \in Traffic(q) : x.psn < r.psn,
         Taken(p, <<r>>)
  PROVE  /\ Kinds' /\ InOrder(Behind)' /\ OneRequest'
         /\ Moving' \subseteq Moving \cup {r}
         /\ \A x \in Moving' : x = r \/ QpOf(x) \notin Responders \/ <<p, x>> \in Behind
<1> DEFINE s == <<r>>
<1>1. s \in Seq(Sent) /\ InFlight(s) = {r} /\ Pairwise(s, Behind)
  <2>1. s \in Seq(Sent) /\ Len(s) = 1 /\ s[1] = r
    BY DEF Sent
  <2> HIDE DEF s
  <2>2. 1 .. Len(s) = {1}
    BY <2>1
  <2> QED BY <2>1, <2>2 DEF InFlight, Pairwise
<1>2. Taken(p, s)
  OBVIOUS
<1> HIDE DEF s
<1>3. Requester(r) = Requester(p) /\ r \in AnyPacket /\ ~IsRequest(r) /\ ~IsNak(r)
  BY OrderKind
<1>4. ASSUME NEW x \in Moving PROVE <<x, r>> \in Behind
  <2>1. x \in AnyPacket
    BY KindOf DEF PacedInv
  <2>2. QpOf(x) = q => x.psn < r.psn
    BY DEF Traffic
  <2> QED BY <1>3, <2>1, <2>2 DEF Behind
<1>5. /\ Kinds' /\ InOrder(Behind)' /\ OneRequest'
      /\ Moving' \subseteq Moving \cup InFlight(s)
      /\ \A x \in Moving' : x \in InFlight(s) \/ <<p, x>> \in Behind \/ x \in RequestAcks
  BY <1>1, <1>2, <1>3, <1>4, TakenQueues
<1> QED BY <1>1, <1>5, RequestAckKind DEF Aside

\* Requester e is up, or may be taken to be: nothing sent to its queue pairs
\* has a PSN still to be given out.
Ready(e) == \A q \in Responders :
  RequesterOf(q) = e => \A x \in Traffic(q) : x.psn < NextPsn(q)

LEMMA UpIsReady ==
  ASSUME TypeOK, PacedInv, NEW e \in Se, se_state[e] = 1
  PROVE  Ready(e)
<1> SUFFICES ASSUME NEW q \in Responders, RequesterOf(q) = e, NEW x \in Traffic(q)
             PROVE  x.psn < NextPsn(q)
  BY DEF Ready
<1>1. ~Down(q) /\ Channel(q)
  BY DEF Down, PacedInv
<1>2. epsn[q] \in Nat /\ NextPsn(q) \in Nat /\ x.psn \in Nat
      /\ (IsOrder(x) \/ IsReply(x) \/ IsNak(x))
  BY TrafficTypes
<1> QED BY <1>1, <1>2 DEF Channel

LEMMA RetryIsReady ==
  ASSUME PacedInv, NEW p \in InFlight(rx_queue), p \in Received, IsRequest(p)
  PROVE  Ready(p.smac)
<1> SUFFICES ASSUME NEW q \in Responders, RequesterOf(q) = p.smac, NEW x \in Traffic(q)
             PROVE  FALSE
  BY DEF Ready
<1>1. x \in Moving /\ QpOf(x) = q
  BY DEF Traffic
<1>2. Requester(x) = p.smac
  BY <1>1, KindOf DEF PacedInv, Aside
<1>3. x = p
  BY <1>1, <1>2 DEF PacedInv, OneRequest
<1> QED BY <1>1, <1>3, RequestKind DEF Aside

\* A step that gives out no PSN to q, and may bring its requester up.
StateKept(e) == UNCHANGED se_state
                \/ (Ready(e) /\ se_state' = [se_state EXCEPT ![e] = 1])

LEMMA ChannelQuiet ==
  ASSUME TypeOK, PacedInv, NEW e \in Se, StateKept(e), NEW q \in Responders,
         Traffic(q)' \subseteq Traffic(q), epsn' = epsn, NextPsn(q)' = NextPsn(q)
  PROVE  Channel(q)'
<1>1. Channel(q)
  BY DEF PacedInv
<1>2. CASE Down(q)' = Down(q)
  BY <1>1, <1>2, ChannelKept
<1>3. CASE Down(q)' # Down(q)
  <2>1. RequesterOf(q) = e /\ Ready(e)
    BY <1>3, ResponderNames DEF StateKept, Down, TypeOK, SwitchTypeOK
  <2>2. \A x \in Traffic(q) : x.psn < NextPsn(q)
    BY <2>1 DEF Ready
  <2>3. \A x \in Traffic(q) : IsNak(x) => epsn[q] < NextPsn(q)
    BY <1>1, <2>2 DEF Channel
  <2>4. \A x \in Traffic(q)' : x.psn < NextPsn(q)' /\ (IsNak(x) => epsn'[q] < NextPsn(q)')
    BY <2>2, <2>3
  <2> QED BY <1>1, <2>4 DEF Channel
<1> QED BY <1>2, <1>3

\* The switch gives out the next PSN for q, and sends the READ or WRITE
\* unless the endpoint is down.
LEMMA ChannelGiven ==
  ASSUME TypeOK, PacedInv, NEW q \in Responders, epsn' = epsn, NextPsn(q)' = NextPsn(q) + 1,
         \/ /\ \A x \in Traffic(q) : x.psn < NextPsn(q)
            /\ \A x \in Traffic(q)' : x \in Traffic(q) \/ (x \in Orders /\ x.psn = NextPsn(q))
         \/ Traffic(q)' \subseteq Traffic(q) /\ Down(q) /\ Down(q)'
  PROVE  Channel(q)'
<1> DEFINE n == NextPsn(q)
<1>1. /\ epsn[q] \in Nat /\ n \in Nat /\ epsn'[q] = epsn[q] /\ epsn[q] <= n
      /\ NextPsn(q)' = n + 1
  BY TrafficTypes DEF PacedInv, Channel
<1>2. Channel(q)
  BY DEF PacedInv
<1> HIDE DEF n
<1>3. CASE Traffic(q)' \subseteq Traffic(q) /\ Down(q) /\ Down(q)'
  <2>1. \A x \in Traffic(q) : x.psn \in Nat
    BY TrafficTypes
  <2>2. \A x \in Traffic(q)' : IsNak(x) => /\ x.psn = epsn'[q]
                                          /\ \A y \in Traffic(q)' : IsOrder(y) => y.psn # epsn'[q]
    BY <1>1, <1>2, <1>3 DEF Channel
  <2>3. \/ \A x \in Traffic(q)' : IsOrder(x) => x.psn < NextPsn(q)'
        \/ \A x \in Traffic(q)' : IsOrder(x) => x.psn # epsn'[q]
    <3>1. CASE \A x \in Traffic(q) : IsOrder(x) => x.psn < n
      BY <1>1, <1>3, <2>1, <3>1
    <3>2. CASE \A x \in Traffic(q) : IsOrder(x) => x.psn # epsn[q]
      BY <1>1, <1>3, <3>2
    <3> QED BY <1>2, <3>1, <3>2 DEF Channel, n
  <2>4. epsn'[q] <= NextPsn(q)'
    BY <1>1
  <2> QED BY <1>1, <1>2, <1>3, <2>2, <2>3, <2>4 DEF Channel
<1>4. CASE /\ \A x \in Traffic(q) : x.psn < NextPsn(q)
           /\ \A x \in Traffic(q)' : x \in Traffic(q) \/ (x \in Orders /\ x.psn = NextPsn(q))
  <2>1. ASSUME NEW x \in Traffic(q)'
        PROVE  /\ x.psn \in Nat
               /\ IsOrder(x) => x.psn < n + 1 /\ x.psn >= epsn[q]
               /\ IsReply(x) => x.psn < epsn[q]
               /\ IsNak(x) => x \in Traffic(q) /\ x.psn = epsn[q] /\ epsn[q] < n
    <3>1. CASE x \in Traffic(q)
      <4>1. x.psn \in Nat /\ x.psn < n
        BY <1>4, <3>1, TrafficTypes DEF n
      <4> QED BY <1>1, <1>2, <3>1, <4>1 DEF Channel
    <3>2. CASE x \in Orders /\ x.psn = n
      BY <1>1, <3>2, OrderKind
    <3> QED BY <1>4, <3>1, <3>2 DEF n
  <2>2. ASSUME NEW x \in Traffic(q)', IsNak(x), NEW y \in Traffic(q)', IsOrder(y)
        PROVE  y.psn # epsn[q]
    <3>1. CASE y \in Traffic(q)
      BY <1>2, <2>1, <2>2, <3>1 DEF Channel
    <3>2. CASE y.psn = n
      BY <1>1, <2>1, <2>2, <3>2
    <3> QED BY <1>4, <3>1, <3>2 DEF n
  <2>3. \A x \in Traffic(q)' : IsOrder(x) => x.psn < NextPsn(q)'
    BY <1>1, <2>1
  <2>4. epsn'[q] <= NextPsn(q)' /\ (epsn[q] < n => epsn'[q] < NextPsn(q)')
    BY <1>1
  <2> QED BY <1>1, <2>1, <2>2, <2>3, <2>4 DEF Channel
<1> QED BY <1>3, <1>4

\* A loopback pass of a packet of requester e: state is what it takes
\* se_state for.
LEMMA LoopbackPaced ==
  ASSUME TypeOK, PacedInv, rx_queue # <<>>, NEW p, p = Head(rx_queue),
         rx_queue' = Tail(rx_queue), UNCHANGED <<qp_tx, qp_rx, epsn, swrite_psn>>,
         NEW l \in Recirculated, l.smac = Requester(p), NEW state \in {0, 1},
         ProcessLoopback(l, state), StateKept(l.smac),
         state = se_state[l.smac] \/ (state = 1 /\ Ready(l.smac)),
         state = 0 => UNCHANGED se_state
  PROVE  PacedInv'
<1> DEFINE e == l.smac
<1>1. e \in Se /\ l \in ToSwitch /\ l.dqpn = ToSReq /\ l.opcode = "LOOPBACK"
      /\ e = Requester(p)
  BY RecirculatedKind DEF Recirculated
<1>2. sread_psn \in [Se -> [Se -> Nat]]
  BY DEF TypeOK, SwitchTypeOK
<1>3. \/ UNCHANGED readVars /\ \E s \in Seq(LoopbacksOf(l)) : Send(s)
      \/ \E t \in Se : GivesRead(e, t, state)
  BY <1>1, <1>2, LoopbackSends
<1>4. StateKept(e)
  OBVIOUS
<1>5. state = 1 => Ready(e)
  BY <1>1, UpIsReady
<1>6. state = 0 => se_state[e] = 0 /\ UNCHANGED se_state
  OBVIOUS
<1> HIDE DEF e
<1>7. CASE UNCHANGED readVars /\ \E s \in Seq(LoopbacksOf(l)) : Send(s)
  <2>1. PICK s \in Seq(LoopbacksOf(l)) : Send(s)
    BY <1>7
  <2>2. s \in Seq(AsideOf(Requester(p))) /\ Taken(p, s)
    BY <1>1, <2>1, LoopbacksAside DEF Taken, e
  <2>3. /\ Kinds' /\ InOrder(Behind)' /\ OneRequest'
        /\ \A x \in Moving' : /\ QpOf(x) \in Responders => x \in Moving
    BY <2>2, AsideQueues
  <2>4. \A q \in Responders : Traffic(q)' \subseteq Traffic(q)
    BY <2>3 DEF Traffic
  <2>5. UNCHANGED <<sread_psn, sread_unack_psn, swrite_psn, epsn>>
    BY <1>7 DEF readVars
  <2>6. ASSUME NEW q \in Responders PROVE Channel(q)'
    <3>1. NextPsn(q)' = NextPsn(q)
      BY <2>5 DEF NextPsn
    <3> QED BY <1>1, <1>4, <2>4, <2>5, <3>1, ChannelQuiet
  <2>7. ASSUME NEW f \in Se, NEW t \in Se PROVE ReadWindow(f, t)'
    <3>1. <<t, f>> \in Responders
      BY ResponderNames
    <3> QED BY <2>4, <2>5, <3>1, ReadWindowKept DEF PacedInv
  <2> QED BY <2>3, <2>6, <2>7 DEF PacedInv
<1>8. ASSUME NEW t \in Se, GivesRead(e, t, state)
      PROVE  PacedInv'
  <2> DEFINE q == <<t, e>>
             n == sread_psn[e][t]
  <2>1. q \in Responders /\ RequesterOf(q) = e /\ NextPsn(q) = n /\ n \in Nat
    BY <1>1, <1>2, ResponderNames, Numbers DEF NextPsn
  <2>2. PICK a \in Int : Send(IF state = 0 THEN <<>> ELSE <<ReadOf(e, t, n, a)>>)
    BY <1>8 DEF GivesRead
  <2>3. sread_psn' = [sread_psn EXCEPT ![e][t] = n + 1] /\ ~ReadRingFull(e, t)
        /\ UNCHANGED sread_unack_psn
    BY <1>8 DEF GivesRead
  <2>4. /\ sread_psn'[e][t] = n + 1
        /\ \A f, u \in Se : <<u, f>> # q => sread_psn'[f][u] = sread_psn[f][u]
    <3>1. sread_psn'[e] = [sread_psn[e] EXCEPT ![t] = n + 1]
          /\ \A f \in Se \ {e} : sread_psn'[f] = sread_psn[f]
      BY <1>1, <1>2, <2>3
    <3>2. sread_psn[e] \in [Se -> Nat]
      BY <1>1, <1>2
    <3>3. sread_psn'[e][t] = n + 1 /\ \A u \in Se \ {t} : sread_psn'[e][u] = sread_psn[e][u]
      BY <3>1, <3>2
    <3> QED BY <3>1, <3>3
  <2>5. NextPsn(q)' = NextPsn(q) + 1
        /\ \A d \in Responders \ {q} : NextPsn(d)' = NextPsn(d)
    <3>1. NextPsn(q)' = n + 1
      BY <1>1, <2>4, Numbers DEF NextPsn
    <3>2. ASSUME NEW d \in Responders, d # q PROVE NextPsn(d)' = NextPsn(d)
      <4>1. CASE d[2] = SWriteQpn
        BY <4>1 DEF NextPsn
      <4>2. CASE d[2] \in Se
        BY <2>4, <3>2, <4>2, ResponderNames, Numbers DEF NextPsn
      <4> QED BY <4>1, <4>2, ResponderNames
    <3> QED BY <2>1, <3>1, <3>2
  <2>6. ASSUME Kinds', InOrder(Behind)', OneRequest', Channel(q)',
               \A d \in Responders : d # q => Traffic(d)' \subseteq Traffic(d),
               \A x \in Traffic(q)' : x \in Traffic(q) \/ x.psn = n
        PROVE  PacedInv'
    <3>1. ASSUME NEW d \in Responders PROVE Channel(d)'
      <4>1. CASE d = q
        BY <2>6, <4>1
      <4>2. CASE d # q
        BY <1>1, <1>4, <2>5, <2>6, <4>2, ChannelQuiet
      <4> QED BY <4>1, <4>2
    <3>2. ASSUME NEW f \in Se, NEW u \in Se PROVE ReadWindow(f, u)'
      <4>1. <<u, f>> \in Responders /\ ReadWindow(f, u) /\ sread_unack_psn'[f][u] = sread_unack_psn[f][u]
            /\ epsn'[<<u, f>>] = epsn[<<u, f>>]
        BY <2>3, ResponderNames DEF PacedInv
      <4>2. CASE <<u, f>> # q
        BY <2>4, <2>6, <4>1, <4>2, ReadWindowKept
      <4>3. CASE <<u, f>> = q
        <5>1. f = e /\ u = t
          BY <4>3
        <5>2. sread_unack_psn[e][t] \in Nat /\ epsn[q] \in Nat /\ epsn[q] <= n
          <6>1. sread_unack_psn[e][t] \in Nat
            <7>1. sread_unack_psn \in [Se -> [Se -> Nat]]
              BY DEF TypeOK, SwitchTypeOK
            <7>2. e \in Se
              BY <1>1
            <7> QED BY <7>1, <7>2
          <6>2. q \in Responders /\ NextPsn(q) = n
            BY <2>1
          <6>3. epsn[q] \in Nat
            BY <6>2, TrafficTypes
          <6>4. Channel(q)
            BY <6>2 DEF PacedInv
          <6>5. epsn[q] <= n
            BY <6>2, <6>4 DEF Channel
          <6> QED BY <6>1, <6>3, <6>5
        <5>3. n < sread_unack_psn[e][t] + PsnRingSize
          BY <2>1, <2>3, <5>2, ParamAssumption, SMTT(60) DEF ReadRingFull
        <5> DEFINE a1 == sread_unack_psn[e][t]
                   b1 == epsn[q]
        <5>4. a1 <= b1 /\ \A x \in Traffic(q) : x.psn >= a1
          BY <4>1, <5>1 DEF ReadWindow
        <5>5. sread_psn'[e][t] <= a1 + PsnRingSize
          <6> HIDE DEF a1, b1, n
          <6>1. n + 1 <= a1 + PsnRingSize
            BY <2>1, <5>2, <5>3, ParamAssumption DEF a1
          <6> QED BY <2>4, <6>1
        <5>6. n >= a1
          <6> HIDE DEF n
          <6> QED BY <2>1, <5>2, <5>4
        <5>7. \A x \in Traffic(q)' : x.psn >= a1
          <6> HIDE DEF n, a1
          <6> QED BY <2>6, <5>4, <5>6
        <5>8. sread_unack_psn'[e][t] = a1 /\ epsn'[q] = b1
          BY <4>1, <5>1
        <5> HIDE DEF a1, b1
        <5>9. /\ sread_unack_psn'[e][t] <= epsn'[<<t, e>>]
              /\ sread_psn'[e][t] <= sread_unack_psn'[e][t] + PsnRingSize
              /\ \A x \in Traffic(<<t, e>>)' : x.psn >= sread_unack_psn'[e][t]
          BY <5>4, <5>5, <5>7, <5>8
        <5> HIDE DEF q
        <5> QED BY <5>1, <5>9 DEF ReadWindow
      <4> QED BY <4>2, <4>3
    <3> QED BY <2>6, <3>1, <3>2 DEF PacedInv
  <2> HIDE DEF q, n
  <2>7. CASE state = 0
    <3> DEFINE s == <<>>
    <3>1. s \in Seq(AsideOf(Requester(p))) /\ Taken(p, s)
      BY <2>2, <2>7 DEF Taken
    <3> HIDE DEF s
    <3>2. /\ Kinds' /\ InOrder(Behind)' /\ OneRequest'
          /\ \A x \in Moving' : QpOf(x) \in Responders => x \in Moving
      BY <3>1, AsideQueues
    <3>3. \A d \in Responders : Traffic(d)' \subseteq Traffic(d)
      BY <3>2 DEF Traffic
    <3>4. Down(q) /\ Down(q)'
      BY <1>6, <2>1, <2>7 DEF Down
    <3>5. Channel(q)'
      BY <2>1, <2>5, <3>3, <3>4, ChannelGiven
    <3> QED BY <2>1, <2>6, <3>2, <3>3, <3>5
  <2>8. CASE state = 1
    <3> DEFINE r == ReadOf(e, t, n, a)
    <3>1. r \in Orders /\ QpOf(r) = q /\ r.psn = n
      BY <1>1, <2>1, ReadIsOrder DEF q
    <3>2. Taken(p, <<r>>)
      BY <2>2, <2>8 DEF Taken
    <3> HIDE DEF r
    <3>3. \A x \in Traffic(q) : x.psn < NextPsn(q)
      BY <1>5, <2>1, <2>8 DEF Ready
    <3>4. /\ Kinds' /\ InOrder(Behind)' /\ OneRequest' /\ Moving' \subseteq Moving \cup {r}
      BY <1>1, <2>1, <3>1, <3>2, <3>3, OrderQueues
    <3>5. \A d \in Responders : \A x \in Traffic(d)' : x \in Traffic(d) \/ (x = r /\ d = q)
      BY <3>1, <3>4 DEF Traffic
    <3>6. Channel(q)'
      BY <2>1, <2>5, <3>1, <3>3, <3>5, ChannelGiven
    <3> QED BY <2>1, <2>6, <3>1, <3>4, <3>5, <3>6
  <2> QED BY <2>7, <2>8
<1> QED BY <1>3, <1>7, <1>8

\* An answer at the head of the switch's queue, and what it says of the rest
\* of its queue pair's traffic.
LEMMA AnswerTaken ==
  ASSUME TypeOK, PacedInv, rx_queue # <<>>, NEW p, p = Head(rx_queue),
         IsReadAnswer(p) \/ IsWriteAnswer(p)
  PROVE  /\ QpOf(p) \in Responders /\ p \in Traffic(QpOf(p)) /\ p \in ToSwitch
         /\ Requester(p) = RequesterOf(QpOf(p)) /\ Requester(p) \in Se
         /\ p.smac \in Se /\ p.psn \in Nat /\ (IsReply(p) \/ IsNak(p))
         /\ IsReadAnswer(p) => /\ QpOf(p) = <<p.smac, p.dqpn>> /\ p.dqpn \in Se
                               /\ Requester(p) = p.dqpn
         /\ IsWriteAnswer(p) => QpOf(p) = WriteQp(p.smac) /\ Requester(p) = p.smac
<1>1. p \in Received /\ p \in Moving /\ p \in ToSwitch
  BY TakenKind
<1>2. ~IsRequest(p) /\ p \notin Recirculated
  BY Numbers DEF IsReadAnswer, IsWriteAnswer, IsRequest, Recirculated
<1>3. p \in Traffic(QpOf(p))
  BY <1>1 DEF Traffic
<1>4. p.psn \in Nat
  BY <1>1, PacketFields
<1> QED BY <1>1, <1>2, <1>3, <1>4, AnswerKind, ResponderNames

\* A read response: what follows it has a later PSN, so the ring's tail may
\* move past it.
LEMMA ReplySeen ==
  ASSUME TypeOK, PacedInv, NEW e \in Se, NEW t \in Se, NEW p \in Traffic(<<t, e>>), IsReply(p),
         sread_psn' = sread_psn, epsn' = epsn,
         sread_unack_psn' = [sread_unack_psn EXCEPT ![e][t] = p.psn + 1],
         \A q \in Responders : q[2] # SWriteQpn => Traffic(q)' \subseteq Traffic(q),
         \A x \in Traffic(<<t, e>>)' : <<p, x>> \in Behind,
         NEW f \in Se, NEW u \in Se
  PROVE  ReadWindow(f, u)'
<1>1. /\ <<u, f>> \in Responders /\ <<t, e>> \in Responders
      /\ ReadWindow(f, u) /\ ReadWindow(e, t) /\ Traffic(<<u, f>>)' \subseteq Traffic(<<u, f>>)
  BY ResponderNames, Numbers DEF PacedInv
<1>2. sread_unack_psn \in [Se -> [Se -> Nat]]
  BY DEF TypeOK, SwitchTypeOK
<1>3. CASE <<u, f>> # <<t, e>>
  <2>1. sread_unack_psn'[f][u] = sread_unack_psn[f][u]
    <3>1. CASE f = e
      <4>1. sread_unack_psn'[e] = [sread_unack_psn[e] EXCEPT ![t] = p.psn + 1]
            /\ sread_unack_psn[e] \in [Se -> Nat]
        BY <1>2
      <4> QED BY <1>3, <3>1, <4>1
    <3>2. CASE f # e
      BY <1>2, <3>2
    <3> QED BY <3>1, <3>2
  <2> QED BY <1>1, <2>1, ReadWindowKept
<1>4. CASE <<u, f>> = <<t, e>>
  <2> DEFINE q == <<t, e>>
  <2>1. u = t /\ f = e
    BY <1>4
  <2>2. sread_unack_psn'[e][t] = p.psn + 1
    <3>1. sread_unack_psn'[e] = [sread_unack_psn[e] EXCEPT ![t] = p.psn + 1]
          /\ sread_unack_psn[e] \in [Se -> Nat]
      BY <1>2
    <3> QED BY <3>1
  <2>3. /\ epsn[q] \in Nat /\ p.psn \in Nat /\ p.psn < epsn[q] /\ QpOf(p) = q
        /\ p \in AnyPacket
    BY <1>1, TrafficTypes DEF PacedInv, Channel
  <2>4. sread_psn[e][t] \in Nat /\ sread_unack_psn[e][t] \in Nat
    BY <1>2 DEF TypeOK, SwitchTypeOK
  <2>5. ASSUME NEW x \in Traffic(q)' PROVE x.psn >= p.psn + 1
    <3>1. x \in Traffic(q) /\ <<p, x>> \in Behind
      BY <1>1, <1>4
    <3>2. x.psn \in Nat /\ QpOf(x) = q /\ x \in AnyPacket
      BY <1>1, <3>1, TrafficTypes
    <3>3. CASE IsNak(x)
      <4>1. x.psn = epsn[q]
        BY <1>1, <3>1, <3>3 DEF PacedInv, Channel
      <4> QED BY <2>3, <4>1
    <3>4. CASE ~IsNak(x)
      <4>1. p.psn < x.psn
        BY <1>1, <2>3, <3>1, <3>2, <3>4, Earlier
      <4> QED BY <2>3, <3>2, <4>1
    <3> QED BY <3>3, <3>4
  <2>6. p.psn >= sread_unack_psn[e][t]
        /\ sread_psn[e][t] <= sread_unack_psn[e][t] + PsnRingSize
    BY <1>1 DEF ReadWindow
  <2>7. p.psn + 1 <= epsn[q] /\ sread_psn[e][t] <= (p.psn + 1) + PsnRingSize
    BY <2>3, <2>4, <2>6, ParamAssumption
  <2>8. ReadWindow(e, t)'
    BY <2>2, <2>5, <2>7 DEF ReadWindow
  <2> QED BY <2>1, <2>8
<1> QED BY <1>3, <1>4

LEMMA ReadResponseIgnoredPaced ==
  ASSUME TypeOK, PacedInv, rx_queue # <<>>, NEW p, p = Head(rx_queue),
         rx_queue' = Tail(rx_queue), UNCHANGED qpVars, ReadResponseIgnored(p)
  PROVE  PacedInv'
<1> DEFINE e == p.dqpn
           t == p.smac
           s == <<>>
<1>1. /\ IsReadAnswer(p) /\ p.opcode = "READ_RESPONSE"
      /\ UNCHANGED <<tx_queue, sread_psn, swrite_psn, se_state, epsn, qp_tx, qp_rx>>
      /\ sread_unack_psn' = [sread_unack_psn EXCEPT ![e][t] = p.psn + 1]
  BY DEF ReadResponseIgnored, writeVars, qpVars, responderVars
<1>2. /\ <<t, e>> \in Responders /\ e \in Se /\ t \in Se /\ QpOf(p) = <<t, e>>
      /\ p \in Traffic(<<t, e>>) /\ IsReply(p)
  BY <1>1, AnswerTaken DEF IsNak
<1>3. s \in Seq(AsideOf(Requester(p))) /\ Taken(p, s)
  <2>1. tx_queue' = tx_queue \o s
    BY <1>1 DEF TypeOK, SwitchTypeOK
  <2> QED BY <1>1, <2>1 DEF Taken, Send
<1> HIDE DEF s
<1>4. /\ Kinds' /\ InOrder(Behind)' /\ OneRequest'
      /\ \A x \in Moving' : /\ QpOf(x) \in Responders => x \in Moving
                            /\ QpOf(x) \notin Responders \/ <<p, x>> \in Behind
  BY <1>3, AsideQueues
<1>5. \A q \in Responders : Traffic(q)' \subseteq Traffic(q)
  BY <1>4 DEF Traffic
<1>6. \A x \in Traffic(<<t, e>>)' : <<p, x>> \in Behind
  BY <1>2, <1>4 DEF Traffic
<1>7. \A f, u \in Se : ReadWindow(f, u)'
  BY <1>1, <1>2, <1>5, <1>6, ReplySeen
<1>8. ASSUME NEW q \in Responders PROVE Channel(q)'
  <2>1. NextPsn(q)' = NextPsn(q) /\ Down(q)' = Down(q) /\ epsn'[q] = epsn[q]
    BY <1>1 DEF NextPsn, Down
  <2> QED BY <1>5, <2>1, ChannelKept DEF PacedInv
<1> QED BY <1>4, <1>7, <1>8 DEF PacedInv

LEMMA ReadResponseInOrderPaced ==
  ASSUME TypeOK, PacedInv, rx_queue # <<>>, NEW p, p = Head(rx_queue),
         rx_queue' = Tail(rx_queue), UNCHANGED qpVars, ReadResponseInOrder(p), SwitchTypeOK'
  PROVE  PacedInv'
<1> DEFINE e == p.dqpn
           t == p.smac
           q == WriteQp(e)
           n == swrite_psn[e]
<1>1. /\ IsReadAnswer(p) /\ p.opcode = "READ_RESPONSE" /\ se_state[e] = 1
      /\ UNCHANGED <<sread_psn, se_state, epsn, qp_tx, qp_rx>>
      /\ sread_unack_psn' = [sread_unack_psn EXCEPT ![e][t] = p.psn + 1]
      /\ swrite_psn' = [swrite_psn EXCEPT ![e] = n + 1]
  BY DEF ReadResponseInOrder, qpVars, responderVars
<1>2. /\ <<t, e>> \in Responders /\ e \in Se /\ t \in Se /\ QpOf(p) = <<t, e>>
      /\ p \in Traffic(<<t, e>>) /\ IsReply(p) /\ Requester(p) = e
  BY <1>1, AnswerTaken DEF IsNak
<1>3. q \in Responders /\ RequesterOf(q) = e /\ NextPsn(q) = n /\ n \in Nat /\ q # <<t, e>>
  <2>1. swrite_psn \in [Se -> Nat]
    BY DEF TypeOK, SwitchTypeOK
  <2> QED BY <1>2, <2>1, ResponderNames, Numbers DEF NextPsn, WriteQp
<1>4. PICK k, a :
        Send(<<[NewPacket("WRITE_ONLY", SwitchMac, e, SWriteQpn, n) EXCEPT
                  !.ackreq = k, !.data = p.data, !.addr = a]>>)
  BY DEF ReadResponseInOrder
<1> DEFINE r == [NewPacket("WRITE_ONLY", SwitchMac, e, SWriteQpn, n) EXCEPT
                   !.ackreq = k, !.data = p.data, !.addr = a]
<1>5. /\ r.opcode = "WRITE_ONLY" /\ r.smac = SwitchMac /\ r.dmac = e /\ r.dqpn = SWriteQpn
      /\ r.psn = n
  BY DEF NewPacket
<1> HIDE DEF n, r
<1>6. Taken(p, <<r>>)
  BY <1>1, <1>4 DEF Taken, r
<1>7. r \in Orders
  <2>1. r \in AnyPacket
    <3>1. /\ tx_queue \in Seq(AnyPacket) /\ tx_queue' \in Seq(AnyPacket)
          /\ tx_queue' = tx_queue \o <<r>>
      BY <1>6 DEF TypeOK, SwitchTypeOK, AnyPacket, Taken, Send
    <3>2. Len(tx_queue) + 1 \in 1 .. Len(tx_queue') /\ tx_queue'[Len(tx_queue) + 1] = r
      BY <3>1
    <3> QED BY <3>1, <3>2
  <2> QED BY <1>5, <2>1, Numbers DEF AnyPacket, ToSwitch, Orders
<1>8. QpOf(r) = q
  BY <1>5, <1>7, OrderKind DEF WriteQp
<1>9. Ready(e)
  BY <1>1, <1>2, UpIsReady
<1>10. \A x \in Traffic(q) : x.psn < NextPsn(q)
  BY <1>3, <1>9 DEF Ready
<1>11. /\ Kinds' /\ InOrder(Behind)' /\ OneRequest'
       /\ Moving' \subseteq Moving \cup {r}
       /\ \A x \in Moving' : x = r \/ QpOf(x) \notin Responders \/ <<p, x>> \in Behind
  BY <1>2, <1>3, <1>5, <1>6, <1>7, <1>8, <1>10, OrderQueues
<1>12. \A d \in Responders : \A x \in Traffic(d)' : x \in Traffic(d) \/ (x = r /\ d = q)
  BY <1>8, <1>11 DEF Traffic
<1>13. NextPsn(q)' = NextPsn(q) + 1 /\ \A d \in Responders \ {q} : NextPsn(d)' = NextPsn(d)
  <2>1. swrite_psn \in [Se -> Nat]
    BY DEF TypeOK, SwitchTypeOK
  <2>2. NextPsn(q)' = n + 1
    BY <1>1, <1>2, <2>1 DEF NextPsn, WriteQp
  <2>3. ASSUME NEW d \in Responders, d # q PROVE NextPsn(d)' = NextPsn(d)
    <3>1. CASE d[2] = SWriteQpn
      <4>1. d[1] \in Se /\ d[1] # e
        BY <2>3, <3>1, ResponderNames DEF WriteQp
      <4> QED BY <1>1, <2>1, <3>1, <4>1 DEF NextPsn
    <3>2. CASE d[2] # SWriteQpn
      BY <1>1, <3>2 DEF NextPsn
    <3> QED BY <3>1, <3>2
  <2> QED BY <1>3, <2>2, <2>3
<1>14. ASSUME NEW d \in Responders PROVE Channel(d)'
  <2>1. CASE d = q
    <3>1. \A x \in Traffic(q)' : x \in Traffic(q) \/ (x \in Orders /\ x.psn = NextPsn(q))
      BY <1>3, <1>5, <1>7, <1>12
    <3>2. Channel(q)'
      BY <1>1, <1>3, <1>10, <1>13, <3>1, ChannelGiven
    <3> QED BY <2>1, <3>2
  <2>2. CASE d # q
    <3>1. Traffic(d)' \subseteq Traffic(d) /\ Down(d)' = Down(d) /\ epsn'[d] = epsn[d]
      BY <1>1, <1>12, <2>2 DEF Down
    <3> QED BY <1>13, <2>2, <3>1, ChannelKept DEF PacedInv
  <2> QED BY <2>1, <2>2
<1>15. \A f, u \in Se : ReadWindow(f, u)'
  <2>1. \A d \in Responders : d[2] # SWriteQpn => Traffic(d)' \subseteq Traffic(d)
    <3>1. q[2] = SWriteQpn
      BY DEF WriteQp
    <3> QED BY <1>12, <3>1
  <2>2. \A x \in Traffic(<<t, e>>)' : <<p, x>> \in Behind
    <3>1. ASSUME NEW x \in Traffic(<<t, e>>)' PROVE <<p, x>> \in Behind
      <4>1. x \in Moving' /\ QpOf(x) = <<t, e>>
        BY DEF Traffic
      <4> QED BY <1>2, <1>3, <1>8, <1>11, <4>1
    <3> QED BY <3>1
  <2> QED BY <1>1, <1>2, <2>1, <2>2, ReplySeen
<1> QED BY <1>11, <1>14, <1>15 DEF PacedInv

\* A NAK for a WRITE: the endpoint goes down, and the WRITEs under way are
\* refused as the one before them was.
LEMMA WriteNakPaced ==
  ASSUME TypeOK, PacedInv, rx_queue # <<>>, NEW p, p = Head(rx_queue),
         rx_queue' = Tail(rx_queue), UNCHANGED qpVars, WriteNak(p)
  PROVE  PacedInv'
<1> DEFINE e == p.smac
           q == WriteQp(e)
           s == <<>>
<1>1. /\ IsWriteAnswer(p) /\ p.opcode = "NAK"
      /\ UNCHANGED <<tx_queue, sread_psn, sread_unack_psn, epsn, qp_tx, qp_rx>>
      /\ swrite_psn' = [swrite_psn EXCEPT ![e] = p.psn]
      /\ se_state' = [se_state EXCEPT ![e] = 0]
  BY DEF WriteNak, readVars, qpVars, responderVars
<1>2. e \in Se /\ q \in Responders /\ QpOf(p) = q /\ p \in Traffic(q) /\ IsNak(p)
  BY <1>1, AnswerTaken DEF IsNak
<1>3. s \in Seq(AsideOf(Requester(p))) /\ Taken(p, s)
  <2>1. tx_queue' = tx_queue \o s
    BY <1>1 DEF TypeOK, SwitchTypeOK
  <2> QED BY <1>1, <2>1 DEF Taken, Send
<1> HIDE DEF s
<1>4. /\ Kinds' /\ InOrder(Behind)' /\ OneRequest'
      /\ \A x \in Moving' : QpOf(x) \in Responders => x \in Moving
  BY <1>3, AsideQueues
<1>5. \A d \in Responders : Traffic(d)' \subseteq Traffic(d)
  BY <1>4 DEF Traffic
<1>6. \A f, u \in Se : ReadWindow(f, u)'
  <2>1. \A f, u \in Se : <<u, f>> \in Responders
    BY ResponderNames
  <2> QED BY <1>1, <1>5, <2>1, ReadWindowKept DEF PacedInv
<1>7. /\ \A d \in Responders : Down(d) => Down(d)'
      /\ Down(q)' /\ NextPsn(q)' = p.psn
      /\ \A d \in Responders \ {q} : NextPsn(d)' = NextPsn(d)
  <2>1. swrite_psn \in [Se -> Nat] /\ se_state \in [Se -> {0, 1}]
    BY DEF TypeOK, SwitchTypeOK
  <2>2. Down(q)' /\ NextPsn(q)' = p.psn
    BY <1>1, <1>2, <2>1 DEF Down, NextPsn, WriteQp, RequesterOf
  <2>3. ASSUME NEW d \in Responders PROVE Down(d) => Down(d)'
    BY <1>1, <1>2, <2>1, ResponderNames DEF Down
  <2>4. ASSUME NEW d \in Responders, d # q PROVE NextPsn(d)' = NextPsn(d)
    <3>1. CASE d[2] = SWriteQpn
      <4>1. d[1] \in Se /\ d[1] # e
        BY <2>4, <3>1, ResponderNames DEF WriteQp
      <4> QED BY <1>1, <2>1, <3>1, <4>1 DEF NextPsn
    <3>2. CASE d[2] # SWriteQpn
      BY <1>1, <3>2 DEF NextPsn
    <3> QED BY <3>1, <3>2
  <2> QED BY <2>2, <2>3, <2>4
<1>8. ASSUME NEW d \in Responders PROVE Channel(d)'
  <2>1. CASE d # q
    BY <1>1, <1>5, <1>7, <2>1, ChannelKept DEF PacedInv
  <2>2. CASE d = q
    <3>1. /\ epsn[q] \in Nat /\ p.psn = epsn[q] /\ epsn'[q] = epsn[q] /\ Channel(q)
          /\ \A x \in Traffic(q) : IsOrder(x) => x.psn # epsn[q]
      BY <1>1, <1>2, TrafficTypes DEF PacedInv, Channel
    <3>2. Channel(q)'
      BY <1>5, <1>7, <2>2, <3>1 DEF Channel
    <3> QED BY <2>2, <3>2
  <2> QED BY <2>1, <2>2
<1> QED BY <1>4, <1>6, <1>8 DEF PacedInv

\* A NAK for a READ: the same, and no answer is on its way back.
LEMMA ReadNakPaced ==
  ASSUME TypeOK, PacedInv, rx_queue # <<>>, NEW p, p = Head(rx_queue),
         rx_queue' = Tail(rx_queue), UNCHANGED qpVars, ReadNak(p)
  PROVE  PacedInv'
<1> DEFINE e == p.dqpn
           t == p.smac
           q == <<t, e>>
           s == <<>>
<1>1. /\ IsReadAnswer(p) /\ p.opcode = "NAK"
      /\ UNCHANGED <<tx_queue, swrite_psn, epsn, qp_tx, qp_rx>>
      /\ sread_psn' = [sread_psn EXCEPT ![e][t] = p.psn]
      /\ sread_unack_psn' = [sread_unack_psn EXCEPT ![e][t] = p.psn]
      /\ se_state' = [se_state EXCEPT ![e] = 0]
  BY DEF ReadNak, writeVars, qpVars, responderVars
<1>2. /\ e \in Se /\ t \in Se /\ q \in Responders /\ RequesterOf(q) = e
      /\ QpOf(p) = q /\ p \in Traffic(q) /\ IsNak(p)
  BY <1>1, AnswerTaken, ResponderNames DEF IsNak
<1>3. s \in Seq(AsideOf(Requester(p))) /\ Taken(p, s)
  <2>1. tx_queue' = tx_queue \o s
    BY <1>1 DEF TypeOK, SwitchTypeOK
  <2> QED BY <1>1, <2>1 DEF Taken, Send
<1> HIDE DEF s
<1>4. /\ Kinds' /\ InOrder(Behind)' /\ OneRequest'
      /\ \A x \in Moving' : /\ QpOf(x) \in Responders => x \in Moving
                            /\ QpOf(x) \notin Responders \/ <<p, x>> \in Behind
  BY <1>3, AsideQueues
<1>5. \A d \in Responders : Traffic(d)' \subseteq Traffic(d)
  BY <1>4 DEF Traffic
<1>6. /\ sread_psn'[e][t] = p.psn /\ sread_unack_psn'[e][t] = p.psn
      /\ \A f, u \in Se : <<u, f>> # q => /\ sread_psn'[f][u] = sread_psn[f][u]
                                          /\ sread_unack_psn'[f][u] = sread_unack_psn[f][u]
  <2>1. /\ sread_psn \in [Se -> [Se -> Nat]] /\ sread_unack_psn \in [Se -> [Se -> Nat]]
    BY DEF TypeOK, SwitchTypeOK
  <2>2. /\ sread_psn'[e] = [sread_psn[e] EXCEPT ![t] = p.psn]
        /\ sread_unack_psn'[e] = [sread_unack_psn[e] EXCEPT ![t] = p.psn]
        /\ \A f \in Se \ {e} : sread_psn'[f] = sread_psn[f]
                               /\ sread_unack_psn'[f] = sread_unack_psn[f]
    BY <1>1, <1>2, <2>1
  <2>3. sread_psn[e] \in [Se -> Nat] /\ sread_unack_psn[e] \in [Se -> Nat]
    BY <1>2, <2>1
  <2>4. /\ sread_psn'[e][t] = p.psn /\ sread_unack_psn'[e][t] = p.psn
        /\ \A u \in Se \ {t} : /\ sread_psn'[e][u] = sread_psn[e][u]
                               /\ sread_unack_psn'[e][u] = sread_unack_psn[e][u]
    BY <1>2, <2>2, <2>3
  <2> QED BY <2>2, <2>4
<1>7. /\ \A d \in Responders : Down(d) => Down(d)'
      /\ Down(q)' /\ NextPsn(q)' = p.psn
      /\ \A d \in Responders \ {q} : NextPsn(d)' = NextPsn(d)
  <2>1. se_state \in [Se -> {0, 1}]
    BY DEF TypeOK, SwitchTypeOK
  <2>2. Down(q)' /\ NextPsn(q)' = p.psn
    BY <1>1, <1>2, <1>6, <2>1, Numbers DEF Down, NextPsn
  <2>3. ASSUME NEW d \in Responders PROVE Down(d) => Down(d)'
    BY <1>1, <1>2, <2>1, ResponderNames DEF Down
  <2>4. ASSUME NEW d \in Responders, d # q PROVE NextPsn(d)' = NextPsn(d)
    <3>1. CASE d[2] = SWriteQpn
      BY <1>1, <3>1 DEF NextPsn
    <3>2. CASE d[2] \in Se
      BY <1>6, <2>4, <3>2, ResponderNames, Numbers DEF NextPsn
    <3> QED BY <3>1, <3>2, ResponderNames
  <2> QED BY <2>2, <2>3, <2>4
<1>8. /\ epsn[q] \in Nat /\ p.psn = epsn[q] /\ epsn'[q] = epsn[q] /\ Channel(q)
      /\ \A x \in Traffic(q) : IsOrder(x) => x.psn # epsn[q]
  BY <1>1, <1>2, TrafficTypes DEF PacedInv, Channel
<1> HIDE DEF e, t
<1>9. ASSUME NEW d \in Responders PROVE Channel(d)'
  <2>1. CASE d # q
    BY <1>1, <1>5, <1>7, <2>1, ChannelKept DEF PacedInv
  <2>2. CASE d = q
    <3>1. Channel(q)'
      BY <1>2, <1>5, <1>7, <1>8, SMTT(60) DEF Channel, e, t
    <3> QED BY <2>2, <3>1
  <2> QED BY <2>1, <2>2
<1>10. ASSUME NEW x \in Traffic(q)' PROVE x.psn >= p.psn
  <2>1. x \in Traffic(q) /\ x.psn \in Nat /\ (IsOrder(x) \/ IsReply(x) \/ IsNak(x))
        /\ x \in AnyPacket /\ p \in AnyPacket
    BY <1>2, <1>5, TrafficTypes
  <2>2. CASE IsOrder(x) \/ IsNak(x)
    <3> HIDE DEF q
    <3>1. CASE IsOrder(x)
      BY <1>8, <2>1, <3>1 DEF Channel
    <3>2. CASE IsNak(x)
      <4>1. x.psn = epsn[q]
        BY <1>8, <2>1, <3>2 DEF Channel
      <4> QED BY <1>8, <4>1
    <3> QED BY <2>2, <3>1, <3>2
  <2>3. CASE ~IsNak(x)
    <3>1. QpOf(x) = q /\ x \in Moving'
      BY DEF Traffic
    <3>2. <<p, x>> \in Behind
      BY <1>2, <1>4, <3>1
    <3>3. p.psn < x.psn
      BY <1>2, <2>1, <2>3, <3>1, <3>2, Earlier
    <3> QED BY <1>8, <2>1, <3>3
  <2> QED BY <2>2, <2>3
<1>11. ASSUME NEW f \in Se, NEW u \in Se PROVE ReadWindow(f, u)'
  <2>1. <<u, f>> \in Responders /\ ReadWindow(f, u)
    BY ResponderNames DEF PacedInv
  <2>2. CASE <<u, f>> # q
    BY <1>1, <1>5, <1>6, <2>1, <2>2, ReadWindowKept
  <2>3. CASE <<u, f>> = q
    <3>1. f = e /\ u = t
      BY <2>3
    <3>2. p.psn <= p.psn + PsnRingSize /\ p.psn <= p.psn
      BY <1>8, ParamAssumption
    <3>3. ReadWindow(e, t)'
      BY <1>6, <1>8, <1>10, <3>2 DEF ReadWindow
    <3> QED BY <3>1, <3>3
  <2> QED BY <2>2, <2>3
<1> QED BY <1>4, <1>9, <1>11 DEF PacedInv

LEMMA SwitchRxPaced ==
  ASSUME TypeOK, PacedInv, SwitchRx
  PROVE  PacedInv'
<1> DEFINE p == Head(rx_queue)
<1>1. rx_queue # <<>> /\ rx_queue' = Tail(rx_queue) /\ Process(p) /\ UNCHANGED qpVars
  BY DEF SwitchRx, SwitchRxOnce
<1>2. p = Head(rx_queue) /\ UNCHANGED <<qp_tx, qp_rx, epsn>>
  BY <1>1 DEF qpVars, responderVars
<1> HIDE DEF p
<1>3. /\ p \in Received /\ p \in Moving /\ p \in InFlight(rx_queue) /\ p \in ToSwitch
      /\ p.smac \in Se /\ p.psn \in Nat
  BY <1>1, <1>2, TakenKind, PacketFields
<1>4. ASSUME NEW s \in Seq(AsideOf(Requester(p))), Send(s),
             UNCHANGED <<sread_psn, sread_unack_psn, swrite_psn, se_state>>
      PROVE  PacedInv'
  <2>1. Taken(p, s)
    BY <1>1, <1>2, <1>4 DEF Taken
  <2>2. /\ Kinds' /\ InOrder(Behind)' /\ OneRequest'
        /\ \A x \in Moving' : QpOf(x) \in Responders => x \in Moving
    BY <2>1, AsideQueues
  <2> DEFINE S == {x \in Moving' : QpOf(x) \notin Responders}
  <2>3. Moving' \subseteq Moving \cup S /\ \A x \in S : QpOf(x) \notin Responders
    BY <2>2
  <2>4. UNCHANGED psnVars
    BY <1>2, <1>4 DEF psnVars
  <2> HIDE DEF S
  <2> QED BY <2>2, <2>3, <2>4, PacedKept
<1>5. ASSUME UNCHANGED <<tx_queue, sread_psn, sread_unack_psn, swrite_psn, se_state>>
      PROVE  PacedInv'
  <2> DEFINE s == <<>>
  <2>1. s \in Seq(AsideOf(Requester(p))) /\ tx_queue' = tx_queue \o s
    BY <1>5 DEF TypeOK, SwitchTypeOK
  <2> HIDE DEF s
  <2> QED BY <1>4, <1>5, <2>1 DEF Send
<1>6. CASE Loopback(p)
  <2>1. p.dqpn = ToSReq
    BY <1>3, <1>6 DEF Loopback, Received, WriteOps
  <2>2. p \in Recirculated /\ Requester(p) = p.smac
    BY <1>3, <1>6, <2>1, RecirculatedKind DEF Loopback, Recirculated
  <2>3. /\ ProcessLoopback(p, se_state[p.smac]) /\ UNCHANGED <<se_state, swrite_psn>>
        /\ se_state[p.smac] \in {0, 1}
    BY <1>3, <1>6 DEF Loopback, writeVars, TypeOK, SwitchTypeOK
  <2> QED BY <1>1, <1>2, <2>2, <2>3, LoopbackPaced DEF StateKept
<1>7. ASSUME IsRequest(p)
      PROVE  /\ AsLoopback(p) \in Recirculated /\ AsLoopback(p).smac = p.smac
             /\ Requester(p) = p.smac
  <2>1. p.opcode # "LOOPBACK" /\ p.dqpn = ToSReq
    BY <1>7 DEF IsRequest
  <2>2. AsLoopback(p) \in LoopbacksOf(p)
    BY <1>3, <2>1, AsLoopbackType
  <2> QED BY <1>3, <1>7, <2>1, <2>2, RequestKind DEF LoopbacksOf, Recirculated
<1>8. CASE RequestDropped(p) \/ WriteAckOutOfTurn(p)
  BY <1>5, <1>8 DEF RequestDropped, WriteAckOutOfTurn, readVars, writeVars
<1>9. CASE RequestDuplicate(p)
  <2> DEFINE e == p.smac
             n == sreq_unack_psn[e] - 1
             m == se_req_msn[e]
             y == [ToRequester(e, "ACK", n) EXCEPT !.msn = m]
             s == <<y>>
  <2>1. n \in Nat /\ m \in Nat
    <3>1. sreq_unack_psn[e] \in Nat /\ m \in Nat /\ p.psn < sreq_unack_psn[e]
      BY <1>3, <1>9 DEF RequestDuplicate, AlreadyAcked, TypeOK, SwitchTypeOK
    <3> QED BY <1>3, <3>1
  <2>2. Send(s) /\ UNCHANGED <<sread_psn, sread_unack_psn, swrite_psn, se_state>>
    BY <1>9 DEF RequestDuplicate, readVars, writeVars
  <2>3. Requester(p) = e
    BY <1>7, <1>9 DEF RequestDuplicate
  <2> HIDE DEF n, m, e
  <2>4. y \in AsideOf(e)
    BY <1>3, <2>1, AckAside DEF e
  <2> HIDE DEF y
  <2>5. s \in Seq(AsideOf(Requester(p)))
    BY <2>3, <2>4
  <2> QED BY <1>4, <2>2, <2>5
<1>10. CASE RequestExpected(p)
  <2>1. IsRequest(p) /\ ProcessLoopback(AsLoopback(p), se_state[p.smac])
        /\ UNCHANGED <<se_state, swrite_psn>> /\ se_state[p.smac] \in {0, 1}
    BY <1>3, <1>10 DEF RequestExpected, writeVars, TypeOK, SwitchTypeOK
  <2> DEFINE l == AsLoopback(p)
             state == se_state[p.smac]
  <2>2. /\ l \in Recirculated /\ l.smac = Requester(p) /\ state \in {0, 1}
        /\ ProcessLoopback(l, state) /\ state = se_state[l.smac]
    BY <1>7, <2>1
  <2> HIDE DEF l, state
  <2> QED BY <1>1, <1>2, <2>1, <2>2, LoopbackPaced DEF StateKept
<1>11. CASE RequestRetried(p)
  <2>1. /\ IsRequest(p) /\ ProcessLoopback(AsLoopback(p), 1) /\ UNCHANGED swrite_psn
        /\ se_state' = [se_state EXCEPT ![p.smac] = 1]
    BY <1>11 DEF RequestRetried, writeVars
  <2>2. Ready(p.smac)
    BY <1>3, <2>1, RetryIsReady
  <2> DEFINE l == AsLoopback(p)
             state == 1
  <2>3. /\ l \in Recirculated /\ l.smac = Requester(p) /\ l.smac = p.smac
        /\ state \in {0, 1} /\ state = 1 /\ ProcessLoopback(l, state)
    BY <1>7, <2>1
  <2> HIDE DEF l, state
  <2>4. StateKept(l.smac) /\ Ready(l.smac)
    BY <2>1, <2>2, <2>3 DEF StateKept
  <2> QED BY <1>1, <1>2, <2>1, <2>3, <2>4, LoopbackPaced
<1>12. CASE WriteAck(p)
  <2> DEFINE e == p.smac
             u == WrittenUnit(p)
             n == su_req_psn[e][u]
             m == su_req_msn[e][u]
             y == [ToRequester(e, "ACK", n) EXCEPT !.msn = m]
             s == IF se_state[e] = 0 THEN <<>> ELSE <<y>>
  <2>1. u \in Su
    BY <1>3, SlotType, SwitchTypeParts DEF WrittenUnit, WriteTypeOK, TypeOK
  <2>2. n \in Nat /\ m \in Nat
    <3>1. su_req_psn \in [Se -> [Su -> Nat]] /\ su_req_msn \in [Se -> [Su -> Nat]]
      BY DEF TypeOK, SwitchTypeOK
    <3> HIDE DEF u
    <3> QED BY <1>3, <2>1, <3>1
  <2>3. Send(s) /\ UNCHANGED <<sread_psn, sread_unack_psn, swrite_psn, se_state>>
    BY <1>12 DEF WriteAck, readVars, writeVars
  <2>4. Requester(p) = e
    BY <1>1, <1>2, <1>12, AnswerTaken DEF WriteAck
  <2> HIDE DEF n, m, e
  <2>5. y \in AsideOf(e)
    BY <1>3, <2>2, AckAside DEF e
  <2> HIDE DEF y
  <2>6. s \in Seq(AsideOf(Requester(p)))
    BY <2>4, <2>5
  <2> HIDE DEF s
  <2> QED BY <1>4, <2>3, <2>6
<1>13. CASE ReadResponseInOrder(p)
  <2>1. SwitchTypeOK'
    BY SwitchRxOnceType DEF TypeOK, SwitchRx
  <2> QED BY <1>1, <1>2, <1>13, <2>1, ReadResponseInOrderPaced
<1> QED BY <1>1, <1>2, <1>5, <1>6, <1>8, <1>9, <1>10, <1>11, <1>12, <1>13,
           ReadResponseIgnoredPaced, WriteNakPaced, ReadNakPaced DEF Process

\* Neither the timers nor the end of the run touch what moves.
LEMMA OtherPaced ==
  ASSUME PacedInv, (\E e \in Se : Timeout(e)) \/ UNCHANGED vars
  PROVE  PacedInv'
<1>1. UNCHANGED <<rx_queue, tx_queue, qp_tx, qp_rx, psnVars>>
  BY DEF Timeout, Retry, vars, qpVars, responderVars, switchVars, readVars, writeVars, psnVars
<1>2. Moving' = Moving
  BY <1>1 DEF Moving, InFlight
<1>3. Kinds' /\ InOrder(Behind)' /\ OneRequest'
  <2>1. Kinds' = Kinds
    BY <1>1 DEF Kinds, SentTo, SentBy
  <2>2. InOrder(Behind)'
    BY <1>1, InOrderParts, InOrderNext DEF PacedInv
  <2>3. OneRequest'
    BY <1>1, <1>2 DEF PacedInv, OneRequest, InFlight
  <2> QED BY <2>1, <2>2, <2>3 DEF PacedInv
<1> DEFINE S == {}
<1>4. Moving' \subseteq Moving \cup S
  BY <1>2
<1>5. \A x \in S : QpOf(x) \notin Responders
  OBVIOUS
<1> HIDE DEF S
<1> QED BY <1>1, <1>3, <1>4, <1>5, PacedKept

LEMMA NextPaced ==
  ASSUME ~Pipelined, TypeOK, PacedInv, [Next]_vars
  PROVE  PacedInv'
<1>1. CASE Next /\ Running
  <2>1. ASSUME NEW e \in Se, RequestTx(e) PROVE PacedInv'
    BY <2>1, RequestTxPaced
  <2>2. ASSUME NEW q \in Qps, ResponderTx(q) PROVE PacedInv'
    BY <2>2, ResponderTxPaced
  <2>3. ASSUME NEW q \in Qps, QpRx(q) PROVE PacedInv'
    BY <2>3, QpRxPaced
  <2> QED BY <1>1, <2>1, <2>2, <2>3, SwitchTxPaced, SwitchRxPaced, OtherPaced DEF Running
<1>2. CASE Next /\ Stopped
  BY <1>2, OtherPaced DEF Stopped
<1>3. CASE UNCHANGED vars
  BY <1>3, OtherPaced
<1> QED BY <1>1, <1>2, <1>3 DEF Next

LEMMA PacedInvariant == ASSUME ~Pipelined PROVE Spec => []PacedInv
<1>1. Init => PacedInv
  BY InitPaced
<1>2. TypeOK /\ PacedInv /\ [Next]_vars => PacedInv'
  BY NextPaced
<1> QED BY <1>1, <1>2, TypeCorrect, PTL DEF Spec

-----------------------------------------------------------------------------
(* What follows.                                                           *)

\* All packets but the requests still in a request QP are in Moving.
LEMMA FlyingKind ==
  ASSUME PacedInv, NEW p \in Flying
  PROVE  p \in Moving \/ \E e \in Se : p \in SentBy(ReqQp(e))
<1>1. \/ p \in InFlight(rx_queue) \/ p \in InFlight(tx_queue)
      \/ \E q \in Qps : p \in InFlight(qp_rx[q]) \/ p \in InFlight(qp_tx[q])
  BY DEF Flying
<1>2. ASSUME NEW q \in Qps, q \notin Responders, p \in InFlight(qp_tx[q])
      PROVE  \E e \in Se : p \in SentBy(ReqQp(e))
  <2>1. p \in SentBy(q)
    BY <1>2, InFlightType DEF PacedInv, Kinds
  <2> QED BY <1>2, <2>1, QpCases
<1> QED BY <1>1, <1>2, InMoving

\* Two READs or WRITEs that are under way to a queue pair differ in PSN.
LEMMA OrdersDiffer ==
  ASSUME PacedInv, NEW q \in Responders, NEW p \in Traffic(q), NEW r \in Traffic(q),
         IsOrder(p), IsOrder(r), p.psn = r.psn
  PROVE  p = r
<1> SUFFICES ASSUME p # r PROVE FALSE
  OBVIOUS
<1>1. ASSUME NEW x \in Traffic(q), IsOrder(x)
      PROVE  /\ x \in InFlight(qp_rx[q]) \/ x \in InFlight(tx_queue)
             /\ x \in AnyPacket /\ QpOf(x) = q /\ ~IsNak(x) /\ x.psn \in Nat
  <2>1. x \in Received /\ x \notin Recirculated /\ ~IsRequest(x) => ~IsOrder(x)
    BY AnswerKind
  <2>2. (x \in InFlight(qp_rx[q]) \/ x \in InFlight(tx_queue)) /\ x \in Orders
    BY <1>1, <2>1, TrafficPlace DEF PacedInv
  <2>3. x.psn \in Nat
    <3>1. x \in AnyPacket
      BY <2>2, OrderKind
    <3> QED BY <3>1 DEF AnyPacket, ToSwitch, FromSwitch, Packets
  <2> QED BY <2>2, <2>3, OrderKind DEF Traffic
<1>2. ASSUME NEW x \in Traffic(q), NEW y \in Traffic(q), IsOrder(x), IsOrder(y),
             <<x, y>> \in Behind
      PROVE  x.psn < y.psn
  BY <1>1, <1>2, Earlier
<1>3. <<p, r>> \in Behind \/ <<r, p>> \in Behind
  <2>1. InOrder(Behind)
    BY DEF PacedInv
  <2>2. /\ Pairwise(tx_queue, Behind) /\ Pairwise(qp_rx[q], Behind)
        /\ Ahead(InFlight(qp_tx[q]) \cup InFlight(qp_rx[q]), InFlight(tx_queue), Behind)
    BY <2>1, InOrderParts
  <2>3. ASSUME NEW s, Pairwise(s, Behind), p \in InFlight(s), r \in InFlight(s),
               Len(s) \in Nat
        PROVE  <<p, r>> \in Behind \/ <<r, p>> \in Behind
    <3>1. PICK i \in 1 .. Len(s) : p = s[i]
      BY <2>3 DEF InFlight
    <3>2. PICK j \in 1 .. Len(s) : r = s[j]
      BY <2>3 DEF InFlight
    <3>3. i < j \/ j < i
      BY <2>3, <3>1, <3>2
    <3> QED BY <2>3, <3>1, <3>2, <3>3 DEF Pairwise
  <2>4. Len(tx_queue) \in Nat /\ Len(qp_rx[q]) \in Nat
    <3>1. q \in Qps
      BY ResponderNames
    <3> QED BY <3>1 DEF PacedInv, Kinds
  <2>5. CASE p \in InFlight(qp_rx[q]) /\ r \in InFlight(tx_queue)
    BY <2>2, <2>5 DEF Ahead
  <2>6. CASE r \in InFlight(qp_rx[q]) /\ p \in InFlight(tx_queue)
    BY <2>2, <2>6 DEF Ahead
  <2> QED BY <1>1, <2>2, <2>3, <2>4, <2>5, <2>6
<1>4. p.psn < r.psn \/ r.psn < p.psn
  BY <1>2, <1>3
<1>5. p.psn \in Nat /\ r.psn \in Nat
  BY <1>1
<1> QED BY <1>4, <1>5

\* READs and WRITEs of the switch are traffic of the queue pair they go to.
LEMMA OrderUnderWay ==
  ASSUME PacedInv, NEW p \in Flying, p.opcode \in {"READ", "WRITE_ONLY"}, p.smac = SwitchMac
  PROVE  p \in Orders /\ p \in Traffic(<<p.dmac, p.dqpn>>) /\ IsOrder(p)
<1>1. p \in Moving
  <2>1. \A e \in Se : p \notin SentBy(ReqQp(e))
    BY RequestQpKind, RequestKind, Numbers
  <2> QED BY <2>1, FlyingKind
<1>2. p \in Received \cup Sent
  BY <1>1, KindOf DEF PacedInv
<1>3. p \notin Received
  BY Numbers DEF Received, ToSwitch
<1>4. p \in Orders
  BY <1>2, <1>3, RecirculatedKind DEF Sent, RequestAcks
<1> QED BY <1>1, <1>4, OrderKind DEF Traffic

LEMMA OrdersOwnPsns ==
  ASSUME PacedInv, NEW q \in Responders, NEW P,
         \A p \in P : p \in Traffic(q) /\ IsOrder(p)
  PROVE  OwnPsns(P, epsn[q])
<1>1. Channel(q)
  BY DEF PacedInv
<1>2. \A p \in P : epsn[q] <= p.psn
  BY <1>1 DEF Channel
<1>3. \A p, r \in P : p.psn = r.psn => p = r
  BY OrdersDiffer
<1> QED BY <1>2, <1>3 DEF OwnPsns

\* Every WRITE under way to an endpoint has a PSN of its own, which the
\* endpoint has not taken, and all it has taken were given out: after any
\* losses, NAKs, resets of swrite_psn and retries, no new item is answered as
\* a duplicate.
THEOREM PacedWritePsns == ASSUME ~Pipelined PROVE Spec => []WritePsnNotReused
<1>1. PacedInv => WritePsnNotReused
  <2> SUFFICES ASSUME PacedInv, NEW e \in Se
               PROVE  /\ epsn[WriteQp(e)] <= swrite_psn[e]
                      /\ OwnPsns({p \in Flying : /\ p.opcode = "WRITE_ONLY" /\ p.smac = SwitchMac
                                                 /\ p.dmac = e}, epsn[WriteQp(e)])
    BY DEF WritePsnNotReused
  <2>1. WriteQp(e) \in Responders /\ Channel(WriteQp(e))
    BY ResponderNames DEF PacedInv
  <2>2. NextPsn(WriteQp(e)) = swrite_psn[e]
    BY DEF NextPsn, WriteQp
  <2>3. ASSUME NEW p \in Flying, p.opcode = "WRITE_ONLY", p.smac = SwitchMac, p.dmac = e
        PROVE  p \in Traffic(WriteQp(e)) /\ IsOrder(p)
    <3>1. p \in Orders /\ p \in Traffic(<<p.dmac, p.dqpn>>) /\ IsOrder(p)
      BY <2>3, OrderUnderWay
    <3>2. p.dqpn = SWriteQpn
      BY <2>3, <3>1 DEF Orders
    <3> QED BY <2>3, <3>1, <3>2 DEF WriteQp
  <2>4. OwnPsns({p \in Flying : p.opcode = "WRITE_ONLY" /\ p.smac = SwitchMac /\ p.dmac = e},
                epsn[WriteQp(e)])
    BY <2>1, <2>3, OrdersOwnPsns
  <2> QED BY <2>1, <2>2, <2>4 DEF Channel
<1> QED BY <1>1, PacedInvariant, PTL

\* The same for the READs to each target endpoint, whose PSNs a NAK resets
\* together with the tail of their ring.
THEOREM PacedReadPsns == ASSUME ~Pipelined PROVE Spec => []ReadPsnNotReused
<1>1. PacedInv => ReadPsnNotReused
  <2> SUFFICES ASSUME PacedInv, NEW e \in Se, NEW t \in Se
               PROVE  /\ epsn[<<t, e>>] <= sread_psn[e][t]
                      /\ OwnPsns({p \in Flying : p.opcode = "READ" /\ p.dmac = t /\ p.dqpn = e},
                                 epsn[<<t, e>>])
    BY DEF ReadPsnNotReused
  <2>1. <<t, e>> \in Responders /\ Channel(<<t, e>>)
    BY ResponderNames DEF PacedInv
  <2>2. NextPsn(<<t, e>>) = sread_psn[e][t]
    BY Numbers DEF NextPsn
  <2>3. ASSUME NEW p \in Flying, p.opcode = "READ", p.dmac = t, p.dqpn = e
        PROVE  p \in Traffic(<<t, e>>) /\ IsOrder(p)
    <3>1. p \in Moving
      <4>1. \A d \in Se : p \notin SentBy(ReqQp(d))
        BY <2>3, RequestQpKind, RequestKind DEF WriteOps
      <4> QED BY <4>1, FlyingKind
    <3>2. p \in Received \cup Sent
      BY <3>1, KindOf DEF PacedInv
    <3>3. p.smac = SwitchMac
      BY <2>3, <3>2 DEF Received, Sent, Recirculated, Orders, RequestAcks, FromSwitch, WriteOps
    <3> QED BY <2>3, <3>3, OrderUnderWay
  <2>4. OwnPsns({p \in Flying : p.opcode = "READ" /\ p.dmac = t /\ p.dqpn = e}, epsn[<<t, e>>])
    BY <2>1, <2>3, OrdersOwnPsns
  <2> QED BY <2>1, <2>2, <2>4 DEF Channel
<1> QED BY <1>1, PacedInvariant, PTL

\* The slot that names a READ's item is not given to another READ before the
\* response is back, though NAKs and responses out of order move the tail of
\* the ring that process_loopback tests for room.
THEOREM PacedReadSlots == ASSUME ~Pipelined PROVE Spec => []ReadSlotsSuffice
<1>1. TypeOK /\ PacedInv => ReadSlotsSuffice
  <2> SUFFICES ASSUME TypeOK, PacedInv, NEW p \in Flying
               PROVE  /\ p.opcode = "READ"
                         => sread_psn[p.dqpn][p.dmac] <= p.psn + PsnRingSize
                      /\ p.opcode = "READ_RESPONSE"
                         => sread_psn[p.dqpn][p.smac] <= p.psn + PsnRingSize
    BY DEF ReadSlotsSuffice
  <2>1. p \in Moving \/ \E e \in Se : p \in SentBy(ReqQp(e))
    BY FlyingKind
  <2>2. CASE p \notin Moving
    <3>1. p.opcode \in WriteOps
      BY <2>1, <2>2, RequestQpKind, RequestKind
    <3> QED BY <3>1 DEF WriteOps
  <2>3. ASSUME NEW e \in Se, NEW t \in Se, p \in Traffic(<<t, e>>)
        PROVE  sread_psn[e][t] <= p.psn + PsnRingSize
    <3>1. ReadWindow(e, t) /\ p.psn \in Nat
      BY <2>3, ResponderNames, TrafficTypes DEF PacedInv
    <3>2. sread_psn[e][t] \in Nat /\ sread_unack_psn[e][t] \in Nat
      BY DEF TypeOK, SwitchTypeOK
    <3> QED BY <2>3, <3>1, <3>2, ParamAssumption DEF ReadWindow
  <2>4. CASE p \in Moving
    <3>1. p \in Received \cup Sent
      BY <2>4, KindOf DEF PacedInv
    <3>2. CASE p.opcode = "READ"
      <4>1. p \in Orders
        BY <3>1, <3>2 DEF Sent, Received, Recirculated, RequestAcks, WriteOps
      <4>2. p.dqpn \in Se /\ p.dmac \in Se /\ QpOf(p) = <<p.dmac, p.dqpn>>
        BY <3>2, <4>1, OrderKind DEF Orders
      <4> QED BY <2>3, <2>4, <3>2, <4>2 DEF Traffic
    <3>3. CASE p.opcode = "READ_RESPONSE"
      <4>1. p \in Received /\ p.dqpn \in Se /\ p \notin Recirculated
        BY <3>1, <3>3 DEF Sent, Received, Recirculated, Orders, RequestAcks, WriteOps
      <4>2. ~IsRequest(p)
        BY <4>1, Numbers DEF IsRequest
      <4>3. p.smac \in Se /\ QpOf(p) = <<p.smac, p.dqpn>>
        BY <4>1, <4>2, AnswerKind, Numbers DEF IsWriteAnswer
      <4> QED BY <2>3, <2>4, <3>3, <4>1, <4>3 DEF Traffic
    <3> QED BY <3>2, <3>3
  <2> QED BY <2>2, <2>4
<1> QED BY <1>1, PacedInvariant, TypeCorrect, PTL
=============================================================================
