------------------------------ MODULE Session ------------------------------
(***************************************************************************)
(* Sessions: the master gathers the endpoints of a session, sets up the    *)
(* switch, tells each endpoint about the others, and waits for all of them *)
(* to finish before the next session.                                      *)
(*                                                                         *)
(* Source: switchd/shuffle_master.hpp (accept, scatter, join, close,       *)
(* loop), the address exchange, set-up and end of endpoint/                *)
(* shuffle_endpoint.hpp, and the tables and registers of switchd/          *)
(* shuffle_drv.hpp that depend on who takes part.  TCP and the NICs are    *)
(* external.                                                               *)
(*                                                                         *)
(* A process p runs on host p % NHost and starts after the process the     *)
(* host ran before has ended.  A host's name stands for its MAC, its IP    *)
(* address (GID) and its port of the switch, a process for its memory      *)
(* (rkey, addr), and a queue pair number is the record of what it names.   *)
(***************************************************************************)
EXTENDS Integers, Sequences

CONSTANTS
  NEp,           \* n_ep: endpoints of a session
  NHost,         \* hosts
  NProc          \* bound: processes that are started, one after another on a host

ASSUME SessionAssumption ==
  /\ NEp \in Nat \ {0}
  /\ NHost \in Nat \ {0}
  /\ NProc \in Nat

Procs == 0 .. NProc - 1
Ranks == 0 .. NEp - 1
Nobody == -1
Switch == -2       \* the virtual endpoint
Host(p) == IF p < 0 THEN p ELSE p % NHost

\* Queue pairs of an endpoint: nor_qps and src_qps by rank, dst_qp, req_qp.
QpIds == ({"nor", "src"} \X Ranks) \cup ({"dst", "req"} \X {0})
Qpn(p, id) == [proc |-> p, id |-> id]

QpInfo(p) ==
  [req_qpn |-> Qpn(p, <<"req", 0>>),
   dst_qpn |-> Qpn(p, <<"dst", 0>>),
   src_qpn |-> [j \in Ranks |-> Qpn(p, <<"src", j>>)],
   nor_qpn |-> [j \in Ranks |-> Qpn(p, <<"nor", j>>)]]
vir_qp_info == QpInfo(Switch)

EpInfo(p, r) == [rank |-> r, gid |-> Host(p), mem |-> p]
NoInfo == EpInfo(Nobody, 0)

\* Where a queue pair is connected to.
Dest(gid, qpn) == [gid |-> gid, qpn |-> qpn]
NotConnected == Dest(Nobody, Qpn(Nobody, <<"nor", 0>>))

VARIABLES
  pc,            \* master: where loop() is
  listening,     \* master: listen() has been called
  i,             \*   loop index of accept(), scatter(), join(), close()
  conn_fd,       \*   connection that accept() is dealing with
  conn_fds,      \*   connections of the session, by rank
  fp_rank, ep_infos, qp_infos,
  backlog,       \* connections that wait to be accepted
  toEp, toMaster,\* messages on their way, by process
  tables,        \* switch: entries of each table
  req_epsn,      \* switch: request PSN expected from a rank
  state,         \* endpoint process: how far it has come
  rank, net_ep_infos, dst_qp_info,
  dest,          \* what its queue pairs are connected to
  op             \* the READ or the shuffle request it has posted

infoVars == <<fp_rank, ep_infos, qp_infos>>
masterVars == <<pc, listening, i, conn_fd, conn_fds, infoVars>>
netVars == <<backlog, toEp, toMaster>>
switchVars == <<tables, req_epsn>>
epVars == <<state, rank, net_ep_infos, dst_qp_info, dest, op>>
vars == <<masterVars, netVars, switchVars, epVars>>

TableNames == {"tx_req_ack", "tx_dst_write", "tx_src_read", "tx_repl_many",
               "rx_repl_only", "roce_case"}
NoOp == [kind |-> "none", src |-> 0, status |-> "none"]

Init ==
  /\ pc = "listen" /\ listening = FALSE /\ i = 0 /\ conn_fd = Nobody
  /\ conn_fds = [r \in Ranks |-> Nobody]
  /\ fp_rank = [r \in Ranks |-> 0]
  /\ ep_infos = [r \in Ranks |-> NoInfo]
  /\ qp_infos = [r \in Ranks |-> QpInfo(Nobody)]
  /\ backlog = <<>>
  /\ toEp = [p \in Procs |-> <<>>]
  /\ toMaster = [p \in Procs |-> <<>>]
  /\ tables = [t \in TableNames |-> {}]
  /\ req_epsn = [r \in Ranks |-> 0]
  /\ state = [p \in Procs |-> "new"]
  /\ rank = [p \in Procs |-> 0]
  /\ net_ep_infos = [p \in Procs |-> [r \in Ranks |-> NoInfo]]
  /\ dst_qp_info = [p \in Procs |-> QpInfo(Nobody)]
  /\ dest = [p \in Procs |-> [id \in QpIds |-> NotConnected]]
  /\ op = [p \in Procs |-> NoOp]

-----------------------------------------------------------------------------
(* Messages                                                                *)

MsgAccept(r) == [type |-> "ACCEPT", rank |-> r]
MsgGather(p, r) == [type |-> "GATHER", ep_info |-> EpInfo(p, r), qp_info |-> QpInfo(p)]
MsgScatter(infos, qps) == [type |-> "SCATTER", ep_infos |-> infos, dqp_info |-> qps]
MsgFinish == [type |-> "FINISH"]
MsgClose == [type |-> "CLOSE"]

\* A stream socket: messages arrive in order, a reader waits for the next.
SendTo(p, m) == toEp' = [toEp EXCEPT ![p] = Append(@, m)]
Arrived(chan, p, type) == chan[p] # <<>> /\ Head(chan[p]).type = type
ReadFrom(p) == toMaster' = [toMaster EXCEPT ![p] = Tail(@)]

-----------------------------------------------------------------------------
(* Master                                                                  *)

\* The loop over the ranks goes on at `again' or has ended.
Loop(again, after) ==
  \/ i + 1 < NEp /\ i' = i + 1 /\ pc' = again
  \/ i + 1 = NEp /\ i' = 0 /\ pc' = after

\* listen() of a socket that listens already changes nothing.
Listen ==
  /\ pc = "listen"
  /\ listening' = TRUE /\ pc' = "accept" /\ i' = 0
  /\ UNCHANGED <<conn_fd, conn_fds, infoVars, netVars, switchVars, epVars>>

\* Mutant: the rank is not sent.
AcceptSilent ==
  /\ pc = "accept" /\ backlog # <<>>
  /\ conn_fd' = Head(backlog)
  /\ fp_rank' = [fp_rank EXCEPT ![i] = Host(Head(backlog))]
  /\ backlog' = Tail(backlog)
  /\ pc' = "gather"
  /\ UNCHANGED <<listening, i, conn_fds, ep_infos, qp_infos, toEp, toMaster, switchVars, epVars>>

\* accept(), first half: the connection gets the next rank.
Accept ==
  /\ pc = "accept" /\ backlog # <<>>
  /\ LET p == Head(backlog)
     IN  /\ conn_fd' = p
         /\ fp_rank' = [fp_rank EXCEPT ![i] = Host(p)]
         /\ SendTo(p, MsgAccept(i))
  /\ backlog' = Tail(backlog)
  /\ pc' = "gather"
  /\ UNCHANGED <<listening, i, conn_fds, ep_infos, qp_infos, toMaster, switchVars, epVars>>

\* accept(), second half: no other connection is accepted until this one's
\* endpoint has answered.
Gather ==
  /\ pc = "gather" /\ Arrived(toMaster, conn_fd, "GATHER")
  /\ LET m == Head(toMaster[conn_fd])
     IN  /\ ep_infos' = [ep_infos EXCEPT ![i] = m.ep_info]
         /\ qp_infos' = [qp_infos EXCEPT ![i] = m.qp_info]
  /\ ReadFrom(conn_fd)
  /\ conn_fds' = [conn_fds EXCEPT ![i] = conn_fd]
  /\ Loop("accept", "clear_tables")
  /\ UNCHANGED <<listening, conn_fd, fp_rank, backlog, toEp, switchVars, epVars>>

\* Mutant: the entries of the last session stay.
ClearNothing ==
  /\ pc = "clear_tables" /\ pc' = "init_tables"
  /\ UNCHANGED <<listening, i, conn_fd, conn_fds, infoVars, netVars, switchVars, epVars>>

\* clear_tables()
ClearTables ==
  /\ pc = "clear_tables" /\ pc' = "init_tables"
  /\ tables' = [t \in TableNames |-> {}]
  /\ UNCHANGED <<listening, i, conn_fd, conn_fds, infoVars, netVars, req_epsn, epVars>>

Entry(key, data) == [key |-> key, data |-> data]
To(r, qpn) == [port |-> fp_rank[r], dqpn |-> qpn, rkey |-> ep_infos[r].mem]
Key(r, opcode, qpn) == [smac |-> fp_rank[r], opcode |-> opcode, dqpn |-> qpn]
Case(rx, dst, pair) == [rx |-> rx, dst |-> dst, pair |-> pair]
SrcDst(s, d) == s * NEp + d
RequestOps == {"WRITE_FIRST", "WRITE_MIDDLE", "WRITE_LAST", "WRITE_ONLY"}

\* The entries of each table that name endpoints; those that compute slots,
\* units and items from PSNs are in module Tables.
NewEntries ==
  [tx_req_ack |-> {Entry(r, To(r, qp_infos[r].req_qpn)) : r \in Ranks},
   tx_dst_write |-> {Entry(r, To(r, qp_infos[r].dst_qpn)) : r \in Ranks},
   tx_src_read |-> {Entry(<<s, d>>, To(s, qp_infos[s].src_qpn[d])) : s \in Ranks, d \in Ranks},
   tx_repl_many |-> {Entry(fp_rank[r], fp_rank[r]) : r \in Ranks},
   rx_repl_only |-> {Entry(<<fp_rank[d], s>>, [dst |-> d, pair |-> SrcDst(s, d)]) :
                       s \in Ranks, d \in Ranks},
   roce_case |->
     {Entry(Key(d, o, vir_qp_info.req_qpn), Case("request", d, 0)) : d \in Ranks, o \in RequestOps}
     \cup {Entry(Key(s, "READ_RES_ONLY", vir_qp_info.src_qpn[d]),
                 Case("read_response", d, SrcDst(s, d))) : s \in Ranks, d \in Ranks}
     \cup {Entry(Key(s, "ACK", vir_qp_info.src_qpn[d]),
                 Case("read_nak", d, SrcDst(s, d))) : s \in Ranks, d \in Ranks}
     \cup {Entry(Key(d, "ACK", vir_qp_info.dst_qpn), Case("write_ack", d, 0)) : d \in Ranks}]

\* init_tables(): an entry is added unless its key is there already.
InitTables ==
  /\ pc = "init_tables" /\ pc' = "init_registers"
  /\ tables' = [t \in TableNames |->
       tables[t] \cup {e \in NewEntries[t] : \A old \in tables[t] : old.key # e.key}]
  /\ UNCHANGED <<listening, i, conn_fd, conn_fds, infoVars, netVars, req_epsn, epVars>>

\* init_registers(), as far as an endpoint notices: psn of ep_infos is 0.
InitRegisters ==
  /\ pc = "init_registers" /\ pc' = "scatter"
  /\ req_epsn' = [r \in Ranks |-> 0]
  /\ UNCHANGED <<listening, i, conn_fd, conn_fds, infoVars, netVars, tables, epVars>>

\* Mutant: each endpoint is told its own queue pairs.
DqpInfoOfSelf(r) == [vir_qp_info EXCEPT !.nor_qpn = qp_infos[r].nor_qpn]

\* What rank r is told: of each endpoint the queue pair that is meant for r.
DqpInfo(r) == [vir_qp_info EXCEPT !.nor_qpn = [j \in Ranks |-> qp_infos[j].nor_qpn[r]]]

Scatter ==
  /\ pc = "scatter"
  /\ SendTo(conn_fds[i], MsgScatter(ep_infos, DqpInfo(i)))
  /\ Loop("scatter", "join")
  /\ UNCHANGED <<listening, conn_fd, conn_fds, infoVars, backlog, toMaster, switchVars, epVars>>

\* Mutant: the master waits for one endpoint only.
JoinOne ==
  /\ pc = "join" /\ Arrived(toMaster, conn_fds[i], "FINISH")
  /\ ReadFrom(conn_fds[i])
  /\ i' = 0 /\ pc' = "close"
  /\ UNCHANGED <<listening, conn_fd, conn_fds, infoVars, backlog, toEp, switchVars, epVars>>

Join ==
  /\ pc = "join" /\ Arrived(toMaster, conn_fds[i], "FINISH")
  /\ ReadFrom(conn_fds[i])
  /\ Loop("join", "close")
  /\ UNCHANGED <<listening, conn_fd, conn_fds, infoVars, backlog, toEp, switchVars, epVars>>

Close ==
  /\ pc = "close"
  /\ SendTo(conn_fds[i], MsgClose)
  /\ Loop("close", "console")
  /\ UNCHANGED <<listening, conn_fd, conn_fds, infoVars, backlog, toMaster, switchVars, epVars>>

\* The console: "c" starts the next session, "q" ends the program.
Console(next) ==
  /\ pc = "console" /\ pc' = next
  /\ UNCHANGED <<listening, i, conn_fd, conn_fds, infoVars, netVars, switchVars, epVars>>

Master ==
  \/ Listen \/ Accept \/ Gather \/ ClearTables \/ InitTables \/ InitRegisters
  \/ Scatter \/ Join \/ Close

-----------------------------------------------------------------------------
(* Endpoint process p                                                      *)

Goes(p, from, to) == state[p] = from /\ state' = [state EXCEPT ![p] = to]

\* A process is started when the one before it on its host has ended, and
\* waits in the backlog of the listening socket.
CanConnect(p) ==
  listening /\ pc # "stopped" /\ (p >= NHost => state[p - NHost] = "gone")

Connect(p) ==
  /\ CanConnect(p)
  /\ Goes(p, "new", "connected")
  /\ backlog' = Append(backlog, p)
  /\ UNCHANGED <<masterVars, toEp, toMaster, switchVars,
                 rank, net_ep_infos, dst_qp_info, dest, op>>

\* The rank arrives; queue pairs are created and reported.
RecvAccept(p) ==
  /\ Goes(p, "connected", "gathered")
  /\ Arrived(toEp, p, "ACCEPT")
  /\ LET r == Head(toEp[p]).rank
     IN  /\ rank' = [rank EXCEPT ![p] = r]
         /\ toMaster' = [toMaster EXCEPT ![p] = Append(@, MsgGather(p, r))]
  /\ toEp' = [toEp EXCEPT ![p] = Tail(@)]
  /\ UNCHANGED <<masterVars, backlog, switchVars, net_ep_infos, dst_qp_info, dest, op>>

RecvScatter(p) ==
  /\ Goes(p, "gathered", "scattered")
  /\ Arrived(toEp, p, "SCATTER")
  /\ net_ep_infos' = [net_ep_infos EXCEPT ![p] = Head(toEp[p]).ep_infos]
  /\ dst_qp_info' = [dst_qp_info EXCEPT ![p] = Head(toEp[p]).dqp_info]
  /\ toEp' = [toEp EXCEPT ![p] = Tail(@)]
  /\ UNCHANGED <<masterVars, backlog, toMaster, switchVars, rank, dest, op>>

\* move_qp_to_rts(): of the queue pairs to other endpoints ...
MoveNorQps(p) ==
  /\ Goes(p, "scattered", "nor_rts")
  /\ dest' = [dest EXCEPT ![p] = [id \in QpIds |->
       IF id[1] = "nor"
       THEN Dest(net_ep_infos[p][id[2]].gid, dst_qp_info[p].nor_qpn[id[2]])
       ELSE dest[p][id]]]
  /\ UNCHANGED <<masterVars, netVars, switchVars, rank, net_ep_infos, dst_qp_info, op>>

\* ... and of those to the switch.
MoveVirQps(p) ==
  /\ Goes(p, "nor_rts", "ready")
  /\ dest' = [dest EXCEPT ![p] = [id \in QpIds |->
       CASE id[1] = "src" -> Dest(Switch, dst_qp_info[p].src_qpn[id[2]])
         [] id[1] = "dst" -> Dest(Switch, dst_qp_info[p].dst_qpn)
         [] id[1] = "req" -> Dest(Switch, dst_qp_info[p].req_qpn)
         [] OTHER -> dest[p][id]]]
  /\ UNCHANGED <<masterVars, netVars, switchVars, rank, net_ep_infos, dst_qp_info, op>>

\* finish(): the connection is closed, nobody waits for CLOSE, main() ends.
Finish(p) ==
  /\ op[p].status # "posted"
  /\ Goes(p, "ready", "gone")
  /\ toMaster' = [toMaster EXCEPT ![p] = Append(@, MsgFinish)]
  /\ UNCHANGED <<masterVars, backlog, toEp, switchVars,
                 rank, net_ep_infos, dst_qp_info, dest, op>>

-----------------------------------------------------------------------------
(* READs and shuffle requests of endpoint p, one at a time                 *)

\* post_read() and post_shuffle_request(), for data of rank s.
Post(p, kind, s) ==
  /\ state[p] = "ready" /\ op[p] = NoOp
  /\ op' = [op EXCEPT ![p] = [kind |-> kind, src |-> s, status |-> "posted"]]
  /\ UNCHANGED <<masterVars, netVars, switchVars, state, rank, net_ep_infos, dst_qp_info, dest>>

\* A packet for queue pair qpn on the NIC of host gid finds it connected.
Connected(gid, qpn) ==
  /\ qpn.proc \in Procs /\ Host(qpn.proc) = gid
  /\ state[qpn.proc] # "gone"
  /\ dest[qpn.proc][qpn.id] # NotConnected

\* The responder's answer comes back to queue pair id of p, with p's rkey.
ReadAnswered(p, s) ==
  LET d == dest[p][<<"nor", s>>]
  IN  /\ Connected(d.gid, d.qpn)
      /\ dest[d.qpn.proc][d.qpn.id] = Dest(Host(p), Qpn(p, <<"nor", s>>))
      /\ net_ep_infos[p][s].mem = d.qpn.proc

\* The action data of the entries of table t with this key.
Lookup(t, key) == {e.data : e \in {e \in tables[t] : e.key = key}}
RoceCase(smac, opcode, qpn) ==
  Lookup("roce_case", [smac |-> smac, opcode |-> opcode, dqpn |-> qpn])

\* Requests of p that have been dealt with, and the ranks the switch takes
\* the sender of p's requests for.
Sent(p) == IF op[p].kind = "request" /\ op[p].status # "posted" THEN 1 ELSE 0
Requester(p) ==
  {c.dst : c \in RoceCase(Host(p), "WRITE_ONLY", dest[p][<<"req", 0>>].qpn)}

\* A READ for rank d reaches the queue pair of rank s, and its response,
\* coming back from there, counts as one of this pair.
SourceReads(p, s, d) ==
  \E r \in Lookup("tx_src_read", <<s, d>>) :
    /\ Connected(r.port, r.dqpn) /\ r.rkey = r.dqpn.proc
    /\ r.rkey = net_ep_infos[p][s].mem
    /\ Case("read_response", d, SrcDst(s, d))
         \in RoceCase(r.port, "READ_RES_ONLY", dest[r.dqpn.proc][r.dqpn.id].qpn)

\* The WRITE for rank d goes to p, and the ACK of it is passed on to p.
DestWrites(p, d) ==
  /\ [port |-> Host(p), dqpn |-> Qpn(p, <<"dst", 0>>), rkey |-> p] \in Lookup("tx_dst_write", d)
  /\ \E c \in RoceCase(Host(p), "ACK", dest[p][<<"dst", 0>>].qpn) :
       \E a \in Lookup("tx_req_ack", c.dst) :
         a.port = Host(p) /\ a.dqpn = Qpn(p, <<"req", 0>>)

\* The way of a request through the tables of the switch.
RequestAnswered(p, s) ==
  \E d \in Requester(p) :
    /\ req_epsn[d] = Sent(p)
    /\ Host(p) \in Lookup("tx_repl_many", Host(p))
    /\ [dst |-> d, pair |-> SrcDst(s, d)] \in Lookup("rx_repl_only", <<Host(p), s>>)
    /\ SourceReads(p, s, d) /\ DestWrites(p, d)

Completes(p, status) ==
  /\ op[p].status = "posted"
  /\ op' = [op EXCEPT ![p].status = status]
  /\ UNCHANGED <<masterVars, netVars, state, rank, net_ep_infos, dst_qp_info, dest>>

\* A READ meets its target sooner or later; if nobody answers in time it
\* completes with an error, which poll_cq() only logs.
ReadDone(p) ==
  /\ op[p].kind = "read"
  /\ \/ ReadAnswered(p, op[p].src) /\ Completes(p, "ok")
     \/ ~ReadAnswered(p, op[p].src) /\ Completes(p, "error")
  /\ UNCHANGED switchVars

\* The same of a request, which moves the PSN expected of its rank.
RequestDone(p) ==
  /\ op[p].kind = "request"
  /\ \/ RequestAnswered(p, op[p].src) /\ Completes(p, "ok")
     \/ ~RequestAnswered(p, op[p].src) /\ Completes(p, "error")
  /\ req_epsn' = [r \in Ranks |-> IF r \in Requester(p) THEN req_epsn[r] + 1 ELSE req_epsn[r]]
  /\ UNCHANGED tables

Endpoint(p) ==
  \/ RecvAccept(p) \/ RecvScatter(p) \/ MoveNorQps(p) \/ MoveVirQps(p)
  \/ ReadDone(p) \/ RequestDone(p)

\* Nobody can be started any more, or nobody will be accepted.
Rest ==
  /\ pc = "stopped" \/ (pc = "accept" /\ backlog = <<>>)
  /\ \A p \in Procs : (state[p] = "new" /\ ~CanConnect(p)) \/ state[p] \in {"connected", "gathered", "gone"}
  /\ UNCHANGED vars

Next ==
  \/ Master \/ Console("listen") \/ Console("stopped")
  \/ \E p \in Procs :
       \/ Connect(p) \/ Endpoint(p) \/ Finish(p)
       \/ \E kind \in {"read", "request"}, s \in Ranks : Post(p, kind, s)
  \/ Rest

Spec == Init /\ [][Next]_vars

\* Master and endpoints go on, work that is posted completes, and endpoints
\* finish; when to start a process, to post and to go on is up to the users.
Fairness ==
  /\ WF_vars(Master)
  /\ \A p \in Procs : WF_vars(Endpoint(p)) /\ WF_vars(Finish(p))

FairSpec == Spec /\ Fairness

-----------------------------------------------------------------------------
(* Properties                                                              *)

(* Whoever is ready can read from every endpoint of the session that has   *)
(* moved its queue pairs and is still there: the queue pair it was told of *)
(* belongs to the memory it was told of, and is connected back.            *)
ReadsAnswered ==
  \A p \in Procs, s \in Ranks : state[p] = "ready" =>
    LET q == net_ep_infos[p][s].mem
    IN  q \in Procs /\ (state[q] \in {"nor_rts", "ready"} => ReadAnswered(p, s))

(* Whoever is ready can shuffle from every such endpoint: the tables and   *)
(* registers of the switch are those of its session as long as it runs,    *)
(* and say the same of ranks, hosts and queue pairs as the endpoints were  *)
(* told.                                                                   *)
RequestsAnswered ==
  \A p \in Procs, s \in Ranks :
    state[p] = "ready" /\ state[net_ep_infos[p][s].mem] = "ready" => RequestAnswered(p, s)

(* The assertion on the status of a completion in poll_cq() and            *)
(* poll_shuffle_request_cq(): no work fails.                               *)
WcStatusSuccess == \A p \in Procs : op[p].status # "error"

\* The master deals with connections, of which there are enough.
Gathering ==
  \/ pc = "accept" /\ i + Len(backlog) >= NEp
  \/ pc = "gather" /\ i + 1 + Len(backlog) >= NEp

(* As soon as enough endpoints have connected the session begins, every    *)
(* endpoint gets through it, and the master comes to its console.          *)
SessionEnds == Gathering ~> pc = "console"

\* The members of the session that gathers or runs, as the master has them.
Members ==
  CASE pc \in {"accept", "gather"} -> {conn_fds[r] : r \in 0 .. i - 1}
    [] pc \in {"clear_tables", "init_tables", "init_registers", "scatter", "join"} ->
         {conn_fds[r] : r \in Ranks}
    [] OTHER -> {}

Service == INSTANCE SessionService WITH
  members <- Members,
  begun <- {p \in Procs : state[p] \in {"scattered", "nor_rts", "ready", "gone"}},
  finished <- {p \in Procs : state[p] = "gone"}

(* A session is a barrier at both ends: nobody is told of the others       *)
(* before all are in, the next session does not gather before all have     *)
(* finished, and nobody takes part in two.                                 *)
ServiceImplemented == Service!Spec
=============================================================================
